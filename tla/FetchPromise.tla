---- MODULE FetchPromise ----
(***************************************************************************)
(* What an "ok" answer of fetchVulnerabilities may carry when it is called *)
(* for n sorted advisory IDs: the positions of the IDs whose records it    *)
(* holds.  OsvFetchAbs, which OsvFetch implements, and OsvQuery, which     *)
(* makes the call, share it.                                               *)
(***************************************************************************)
EXTENDS Naturals

AnswersFor(n, isEnded) == IF isEnded THEN {1 .. m : m \in 0 .. n} ELSE {1 .. n}
====

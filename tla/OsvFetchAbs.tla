---- MODULE OsvFetchAbs ----
(***************************************************************************)
(* What osv.Client.fetchVulnerabilities promises its caller (Query), with  *)
(* no goroutine or channel in sight: one call fetches the records of the   *)
(* sorted advisory IDs 1 .. numIds and comes back once, with an error or   *)
(* with a set of records.  The set is complete unless the caller's context *)
(* ended during the call, and even then it is a prefix of the sorted IDs.  *)
(***************************************************************************)
EXTENDS FetchPromise

CONSTANT Sizes  \* how many advisories a call may be for, at least one

VARIABLES
  numIds,   \* how many advisories this one is for
  ended,    \* the caller's context is done: deadline passed or cancelled
  verdict,  \* "none" while the call runs, then "ok" or "error"
  records   \* the IDs whose records an "ok" answer carries

vars == <<numIds, ended, verdict, records>>

Init ==
  /\ numIds \in Sizes
  /\ ended \in BOOLEAN
  /\ verdict = "none"
  /\ records = {}

ContextEnds ==
  /\ verdict = "none"
  /\ ~ended
  /\ ended' = TRUE
  /\ UNCHANGED <<numIds, verdict, records>>

Answer ==
  /\ verdict = "none"
  /\ verdict' = "ok"
  /\ records' \in AnswersFor(numIds, ended)
  /\ UNCHANGED <<numIds, ended>>

Fail ==
  /\ verdict = "none"
  /\ verdict' = "error"
  /\ UNCHANGED <<numIds, ended, records>>

Next == ContextEnds \/ Answer \/ Fail

Spec == Init /\ [][Next]_vars
====

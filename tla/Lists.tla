---- MODULE Lists ----
(***************************************************************************)
(* What the slices of the program go through: sort.Strings and sort.Slice, *)
(* loops that keep some elements, and loops that append.  (SelectSeq and   *)
(* SortSeq are not used, because the prover knows nothing about them.)     *)
(***************************************************************************)
EXTENDS Naturals, FiniteSets, SequencesExt

\* The elements of a finite set, each one behind those that are before it.
Enumeration(S, before) ==
  [i \in 1 .. Cardinality(S) |->
    CHOOSE x \in S : Cardinality({y \in S : <<y, x>> \in before}) = i - 1]

\* The elements of a finite set from the least to the greatest.
Sorted(S, Less(_, _)) == Enumeration(S, {p \in S \X S : Less(p[1], p[2])})

\* The elements of a sequence at some positions, by the order of the positions.
Along(s, positions, before) ==
  LET order == Enumeration(positions, before) IN [k \in DOMAIN order |-> s[order[k]]]

At(s, positions) == Along(s, positions, {p \in positions \X positions : p[1] < p[2]})

Select(s, Test(_)) == At(s, {i \in DOMAIN s : Test(s[i])})

\* A sequence sorted; of elements that are alike, the first one stays the first.
Arranged(s, Less(_, _)) ==
  Along(s, DOMAIN s,
    {p \in (DOMAIN s) \X (DOMAIN s) :
       Less(s[p[1]], s[p[2]]) \/ (p[1] < p[2] /\ ~Less(s[p[2]], s[p[1]]))})

ForEach(s, Op(_)) == FlattenSeq([i \in DOMAIN s |-> Op(s[i])])
====

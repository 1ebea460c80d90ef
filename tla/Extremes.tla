---- MODULE Extremes ----
(***************************************************************************)
(* The least and the greatest element of a set of numbers: what Min and    *)
(* Max of the community modules return, for the proofs about the modules   *)
(* that use them.                                                          *)
(***************************************************************************)
EXTENDS Integers, FiniteSetsExt, FiniteSetTheorems, WellFoundedInduction, TLAPS

LOCAL Less == {p \in Nat \X Nat : p[1] < p[2]}

(* The order of the natural numbers, as the set of pairs Less, has no      *)
(* infinite descent.                                                       *)
LEMMA LessIsWellFounded == IsWellFoundedOn(Less, Nat)
<1>1. OpToRel(<, Nat) = Less
  BY DEF OpToRel, Less
<1> QED BY <1>1, NatLessThanWellFounded

(* A set of natural numbers that is not empty has a least element, which   *)
(* Min returns.                                                            *)
LEMMA MinOfNaturals ==
  ASSUME NEW S, S \subseteq Nat, S # {}
  PROVE  Min(S) \in S /\ \A n \in S : Min(S) <= n
<1>1. PICK m \in S : \A n \in S : <<n, m>> \notin Less
  BY LessIsWellFounded, WFMin
<1>2. \A n \in S : m <= n
  <2> TAKE n \in S
  <2>1. m \in Nat /\ n \in Nat
    OBVIOUS
  <2>2. <<n, m>> \notin Less
    BY <1>1
  <2>3. ~(n < m)
    <3> SUFFICES ASSUME n < m PROVE FALSE
      OBVIOUS
    <3>1. <<n, m>> \in Nat \X Nat /\ <<n, m>>[1] = n /\ <<n, m>>[2] = m
      BY <2>1
    <3> QED BY <2>2, <3>1 DEF Less
  <2> QED BY <2>1, <2>3
<1> QED BY <1>2 DEF Min

LOCAL HasGreatest(S) == \E m \in S : \A n \in S : m >= n

(* A finite set of natural numbers that is not empty has a greatest        *)
(* element, which Max returns: a smallest set without one would lose one   *)
(* element and still be without.                                           *)
LEMMA MaxOfNaturals ==
  ASSUME NEW S, S \subseteq Nat, S # {}, IsFiniteSet(S)
  PROVE  Max(S) \in S /\ \A n \in S : Max(S) >= n
<1> DEFINE without == {T \in SUBSET S : T # {} /\ ~HasGreatest(T)}
<1>1. without = {}
  <2> SUFFICES ASSUME without # {} PROVE FALSE
    OBVIOUS
  <2>1. FiniteSubsetsOf(S) = SUBSET S
    BY FS_FiniteSubsetsOfFinite
  <2>2. IsWellFoundedOn(StrictSubsetOrdering(S), SUBSET S)
    BY <2>1, FS_StrictSubsetOrderingWellFounded
  <2>3. PICK T \in without : \A U \in without : <<U, T>> \notin StrictSubsetOrdering(S)
    <3> HIDE DEF without
    <3>1. without \subseteq SUBSET S
      BY DEF without
    <3> QED BY <2>2, <3>1, WFMin
  <2>4. PICK x \in T : TRUE
    BY <2>3
  <2> DEFINE U == T \ {x}
  <2>5. U \notin without
    <3>1. <<U, T>> \in StrictSubsetOrdering(S)
      BY <2>3, <2>4 DEF StrictSubsetOrdering
    <3> HIDE DEF without, U
    <3> QED BY <2>3, <3>1
  <2>6. CASE U = {}
    <3>1. \A n \in T : x >= n
      BY <2>3, <2>4, <2>6
    <3> QED BY <2>3, <2>4, <3>1 DEF HasGreatest
  <2>7. CASE U # {}
    <3>1. PICK m \in U : \A n \in U : m >= n
      BY <2>3, <2>5, <2>7 DEF HasGreatest
    <3>2. m \in Nat /\ x \in Nat /\ T \subseteq Nat
      BY <2>3, <2>4, <3>1
    <3>3. CASE m >= x
      BY <2>3, <3>1, <3>2, <3>3 DEF HasGreatest
    <3>4. CASE ~(m >= x)
      <4>1. \A n \in T : x >= n
        BY <3>1, <3>2, <3>4
      <4> QED BY <2>3, <2>4, <4>1 DEF HasGreatest
    <3> QED BY <3>3, <3>4
  <2> QED BY <2>6, <2>7
<1>2. HasGreatest(S)
  BY <1>1
<1> QED BY <1>2 DEF Max, HasGreatest
====

---- MODULE Portage_proofs ----
(***************************************************************************)
(* Proofs about PortageLaws, for all version strings whatever their        *)
(* length: Compare agrees with the rows of numbers, it is a total          *)
(* preorder, and the ranges of an advisory cut the versions in two.        *)
(*                                                                         *)
(* Each of the five comparisons that compare goes through is a sign that   *)
(* chains: of three operands, what two of the signs say decides the third. *)
(* So does the first sign of a row of such signs that is not 0.            *)
(***************************************************************************)
EXTENDS PortageLaws, Extremes, SequenceTheorems

Signs == {-1, 0, 1}

\* What the signs of x and y, of y and z, and of x and z have to do with each other.
Chain(xy, yz, xz) ==
  /\ xy = 0 => xz = yz
  /\ yz = 0 => xz = xy
  /\ xy = yz => xz = xy

Version ==
  [numeric : Seq(Nat), letter : Nat, suffixKind : SuffixKinds, suffixNum : Nat, revision : Nat]

(***************************************************************************)
(* sign of a difference.                                                   *)
(***************************************************************************)
LEMMA SignFacts ==
  ASSUME NEW m \in Int, NEW n \in Int
  PROVE  /\ sign(m - n) \in Signs
         /\ sign(m - n) = -sign(n - m)
         /\ sign(m - n) = 0 <=> m = n
         /\ sign(m - n) < 0 <=> m < n
  BY DEF sign, Signs

\* Signs of differences chain, as the differences add up.
LEMMA SignChain ==
  ASSUME NEW k \in Int, NEW m \in Int, NEW n \in Int
  PROVE  Chain(sign(k - m), sign(m - n), sign(k - n))
  BY DEF sign, Chain

(***************************************************************************)
(* compareNumeric: the components, the missing ones 0.                     *)
(***************************************************************************)
Places == Nat \ {0}

SameUpTo(p, q, i) == \A j \in 1 .. i - 1 : Component(p, j) = Component(q, j)

FirstIsLess(p, q) == \E i \in Places : Component(p, i) < Component(q, i) /\ SameUpTo(p, q, i)

\* A component is a natural number, a missing one 0.
LEMMA ComponentType ==
  ASSUME NEW s \in Seq(Nat), NEW i
  PROVE  Component(s, i) \in Nat
  BY DEF Component

(* Components differ at places of one of the two lists only, and where they *)
(* differ they do so at a first place.                                     *)
LEMMA FirstDifference ==
  ASSUME NEW p \in Seq(Nat), NEW q \in Seq(Nat)
  PROVE  /\ Differences(p, q) = {i \in Places : Component(p, i) # Component(q, i)}
         /\ Differences(p, q) # {} =>
              LET i == Min(Differences(p, q))
              IN  i \in Differences(p, q) /\ SameUpTo(p, q, i)
<1>1. DOMAIN p \cup DOMAIN q \subseteq Places
  BY DEF Places
<1>2. Differences(p, q) = {i \in Places : Component(p, i) # Component(q, i)}
  BY <1>1 DEF Differences, Component
<1>3. ASSUME Differences(p, q) # {}
      PROVE  /\ Min(Differences(p, q)) \in Differences(p, q)
             /\ SameUpTo(p, q, Min(Differences(p, q)))
  <2>1. Differences(p, q) \subseteq Nat
    BY <1>2 DEF Places
  <2>2. /\ Min(Differences(p, q)) \in Differences(p, q)
        /\ \A i \in Differences(p, q) : Min(Differences(p, q)) <= i
    BY <1>3, <2>1, MinOfNaturals
  <2>3. ASSUME NEW j \in 1 .. Min(Differences(p, q)) - 1
        PROVE  Component(p, j) = Component(q, j)
    <3>1. j \notin Differences(p, q) /\ j \in Places
      BY <2>1, <2>2, <2>3 DEF Places
    <3> QED BY <1>2, <3>1
  <2> QED BY <2>2, <2>3 DEF SameUpTo
<1> QED BY <1>2, <1>3

\* compareNumeric is decided at the first component that differs.
LEMMA NumericFacts ==
  ASSUME NEW p \in Seq(Nat), NEW q \in Seq(Nat)
  PROVE  /\ compareNumeric(p, q) \in Signs
         /\ compareNumeric(p, q) = -compareNumeric(q, p)
         /\ compareNumeric(p, q) = 0 <=> \A i \in Places : Component(p, i) = Component(q, i)
         /\ compareNumeric(p, q) < 0 <=> FirstIsLess(p, q)
<1>1. Differences(p, q) = Differences(q, p)
  BY DEF Differences
<1>2. CASE Differences(p, q) = {}
  <2>1. \A i \in Places : Component(p, i) = Component(q, i)
    BY <1>2, FirstDifference
  <2>2. \A i \in Places : Component(p, i) \in Nat
    BY ComponentType
  <2>3. ~FirstIsLess(p, q)
    BY <2>1, <2>2 DEF FirstIsLess
  <2>4. compareNumeric(p, q) = 0 /\ compareNumeric(q, p) = 0
    BY <1>1, <1>2 DEF compareNumeric
  <2>5. compareNumeric(p, q) \in Signs /\ compareNumeric(p, q) = -compareNumeric(q, p)
    <3>1. \A m, n \in Signs : m + n = 0 => m = -n
      BY DEF Signs
    <3>2. /\ compareNumeric(p, q) \in Signs /\ compareNumeric(q, p) \in Signs
          /\ compareNumeric(p, q) + compareNumeric(q, p) = 0
      BY <2>4 DEF Signs
    <3> QED BY <3>1, <3>2, Zenon
  <2>6. compareNumeric(p, q) = 0 <=> \A i \in Places : Component(p, i) = Component(q, i)
    BY <2>1, <2>4
  <2>7. compareNumeric(p, q) < 0 <=> FirstIsLess(p, q)
    BY <2>3, <2>4
  <2> QED BY <2>5, <2>6, <2>7
<1>3. CASE Differences(p, q) # {}
  <2> DEFINE i == Min(Differences(p, q))
  <2>1. /\ i \in Places /\ Component(p, i) # Component(q, i)
        /\ SameUpTo(p, q, i)
    BY <1>3, FirstDifference
  <2>2. \A j : Component(p, j) \in Nat /\ Component(q, j) \in Nat
    BY ComponentType
  <2>3. /\ compareNumeric(p, q) = sign(Component(p, i) - Component(q, i))
        /\ compareNumeric(q, p) = sign(Component(q, i) - Component(p, i))
    BY <1>1, <1>3 DEF compareNumeric
  <2> HIDE DEF i
  <2>4. FirstIsLess(p, q) <=> Component(p, i) < Component(q, i)
    <3>1. ASSUME NEW k \in Places, Component(p, k) < Component(q, k), SameUpTo(p, q, k)
          PROVE  k = i
      <4>1. ~(k < i)
        BY <2>1, <2>2, <3>1 DEF SameUpTo, Places
      <4>2. ~(i < k)
        BY <2>1, <2>2, <3>1 DEF SameUpTo, Places
      <4> QED BY <2>1, <4>1, <4>2 DEF Places
    <3> QED BY <2>1, <3>1 DEF FirstIsLess
  <2> QED BY <2>1, <2>2, <2>3, <2>4, SignFacts
<1> QED BY <1>2, <1>3

\* What is less in a first component and then less again is less.
LEMMA NumericChain ==
  ASSUME NEW p \in Seq(Nat), NEW q \in Seq(Nat), NEW r \in Seq(Nat)
  PROVE  Chain(compareNumeric(p, q), compareNumeric(q, r), compareNumeric(p, r))
<1>1. ASSUME NEW s \in Seq(Nat), NEW t \in Seq(Nat), NEW u \in Seq(Nat),
             FirstIsLess(s, t), FirstIsLess(t, u)
      PROVE  FirstIsLess(s, u)
  <2>1. PICK i \in Places : Component(s, i) < Component(t, i) /\ SameUpTo(s, t, i)
    BY <1>1 DEF FirstIsLess
  <2>2. PICK k \in Places : Component(t, k) < Component(u, k) /\ SameUpTo(t, u, k)
    BY <1>1 DEF FirstIsLess
  <2>3. \A j : Component(s, j) \in Nat /\ Component(t, j) \in Nat /\ Component(u, j) \in Nat
    BY ComponentType
  <2>4. CASE i <= k
    <3>1. Component(t, i) = Component(u, i) \/ i = k
      BY <2>2, <2>4 DEF SameUpTo, Places
    <3>2. Component(s, i) < Component(u, i)
      BY <2>1, <2>2, <2>3, <3>1
    <3>3. SameUpTo(s, u, i)
      BY <2>1, <2>2, <2>4 DEF SameUpTo, Places
    <3> QED BY <3>2, <3>3 DEF FirstIsLess
  <2>5. CASE k < i
    <3>1. Component(s, k) = Component(t, k)
      BY <2>1, <2>5 DEF SameUpTo, Places
    <3>2. Component(s, k) < Component(u, k)
      BY <2>2, <3>1
    <3>3. SameUpTo(s, u, k)
      BY <2>1, <2>2, <2>5 DEF SameUpTo, Places
    <3> QED BY <3>2, <3>3 DEF FirstIsLess
  <2> QED BY <2>1, <2>2, <2>4, <2>5 DEF Places
<1>2. ASSUME NEW s \in Seq(Nat), NEW t \in Seq(Nat), NEW u \in Seq(Nat),
             \A i \in Places : Component(s, i) = Component(t, i)
      PROVE  /\ FirstIsLess(s, u) <=> FirstIsLess(t, u)
             /\ FirstIsLess(u, s) <=> FirstIsLess(u, t)
             /\ (\A i \in Places : Component(s, i) = Component(u, i))
                  <=> (\A i \in Places : Component(t, i) = Component(u, i))
  <2>1. \A i \in Places : SameUpTo(s, u, i) <=> SameUpTo(t, u, i)
    BY <1>2 DEF SameUpTo, Places
  <2>2. \A i \in Places : SameUpTo(u, s, i) <=> SameUpTo(u, t, i)
    BY <1>2 DEF SameUpTo, Places
  <2> QED BY <1>2, <2>1, <2>2 DEF FirstIsLess
<1>3. \A s, t \in {p, q, r} :
        /\ compareNumeric(s, t) \in Signs
        /\ compareNumeric(s, t) = -compareNumeric(t, s)
        /\ compareNumeric(s, t) = 0 <=> \A i \in Places : Component(s, i) = Component(t, i)
        /\ compareNumeric(s, t) < 0 <=> FirstIsLess(s, t)
  BY NumericFacts
<1>4. compareNumeric(p, q) = 0 => compareNumeric(p, r) = compareNumeric(q, r)
  BY <1>2, <1>3 DEF Signs
<1>5. compareNumeric(q, r) = 0 => compareNumeric(p, r) = compareNumeric(p, q)
  BY <1>2, <1>3 DEF Signs
<1>6. compareNumeric(p, q) = compareNumeric(q, r) => compareNumeric(p, r) = compareNumeric(p, q)
  BY <1>1, <1>3, <1>4 DEF Signs
<1> QED BY <1>4, <1>5, <1>6 DEF Chain
(***************************************************************************)
(* compare, and Compare on strings.                                        *)
(***************************************************************************)

\* The first of five signs that is not 0.
FirstSign(n, l, k, m, r) ==
  IF n # 0 THEN n ELSE IF l # 0 THEN l ELSE IF k # 0 THEN k ELSE IF m # 0 THEN m ELSE r

\* The first sign that is not 0 chains when each of the five does.
LEMMA FirstSignChain ==
  ASSUME NEW n1 \in Signs, NEW l1 \in Signs, NEW k1 \in Signs, NEW m1 \in Signs, NEW r1 \in Signs,
         NEW n2 \in Signs, NEW l2 \in Signs, NEW k2 \in Signs, NEW m2 \in Signs, NEW r2 \in Signs,
         NEW n3 \in Signs, NEW l3 \in Signs, NEW k3 \in Signs, NEW m3 \in Signs, NEW r3 \in Signs,
         Chain(n1, n2, n3), Chain(l1, l2, l3), Chain(k1, k2, k3), Chain(m1, m2, m3), Chain(r1, r2, r3)
  PROVE  Chain(FirstSign(n1, l1, k1, m1, r1), FirstSign(n2, l2, k2, m2, r2),
               FirstSign(n3, l3, k3, m3, r3))
  BY DEF FirstSign, Chain, Signs

\* Suffix kinds have different ranks.
LEMMA RankFacts ==
  /\ \A k \in SuffixKinds : suffixRank[k] \in Int /\ suffixRank[k] \in Nat
  /\ \A k, m \in SuffixKinds : suffixRank[k] = suffixRank[m] => k = m
  BY DEF suffixRank, SuffixKinds

\* The five signs compare goes through.
FieldSigns(v, o) ==
  <<compareNumeric(v.numeric, o.numeric), compareByte(v.letter, o.letter),
    sign(suffixRank[v.suffixKind] - suffixRank[o.suffixKind]),
    sign(v.suffixNum - o.suffixNum), sign(v.revision - o.revision)>>

\* compare returns the first of its five signs that is not 0.
LEMMA CompareIsFirstSign ==
  ASSUME NEW v \in Version, NEW o \in Version
  PROVE  LET s == FieldSigns(v, o)
         IN  /\ \A i \in 1 .. 5 : s[i] \in Signs
             /\ compare(v, o) = FirstSign(s[1], s[2], s[3], s[4], s[5])
<1>1. /\ v.numeric \in Seq(Nat) /\ o.numeric \in Seq(Nat)
      /\ v.letter \in Int /\ o.letter \in Int
      /\ v.suffixKind \in SuffixKinds /\ o.suffixKind \in SuffixKinds
      /\ v.suffixNum \in Int /\ o.suffixNum \in Int
      /\ v.revision \in Int /\ o.revision \in Int
  BY DEF Version
<1> DEFINE s == FieldSigns(v, o)
<1>2. s[1] \in Signs
  BY <1>1, NumericFacts DEF FieldSigns
<1>3. s[2] \in Signs
  BY <1>1, SignFacts DEF FieldSigns, compareByte
<1>4. s[3] \in Signs
  <2>1. suffixRank[v.suffixKind] \in Int /\ suffixRank[o.suffixKind] \in Int
    BY <1>1, RankFacts
  <2>2. sign(suffixRank[v.suffixKind] - suffixRank[o.suffixKind]) \in Signs
    BY <2>1, SignFacts
  <2> QED BY <2>2 DEF FieldSigns
<1>5. s[4] \in Signs /\ s[5] \in Signs
  BY <1>1, SignFacts DEF FieldSigns
<1>6. compare(v, o) = FirstSign(s[1], s[2], s[3], s[4], s[5])
  BY DEF compare, FirstSign, FieldSigns
<1> QED BY <1>2, <1>3, <1>4, <1>5, <1>6

\* compare is antisymmetric and chains.
LEMMA CompareLaws ==
  ASSUME NEW u \in Version, NEW v \in Version, NEW w \in Version
  PROVE  /\ compare(u, v) \in Signs
         /\ compare(u, v) = -compare(v, u)
         /\ Chain(compare(u, v), compare(v, w), compare(u, w))
<1>1. /\ u.numeric \in Seq(Nat) /\ v.numeric \in Seq(Nat) /\ w.numeric \in Seq(Nat)
      /\ u.letter \in Int /\ v.letter \in Int /\ w.letter \in Int
      /\ u.suffixNum \in Int /\ v.suffixNum \in Int /\ w.suffixNum \in Int
      /\ u.revision \in Int /\ v.revision \in Int /\ w.revision \in Int
  BY DEF Version
<1>2. /\ suffixRank[u.suffixKind] \in Int /\ suffixRank[v.suffixKind] \in Int
      /\ suffixRank[w.suffixKind] \in Int
  BY RankFacts DEF Version
<1> DEFINE uv == FieldSigns(u, v)
           vw == FieldSigns(v, w)
           uw == FieldSigns(u, w)
           vu == FieldSigns(v, u)
<1>3. /\ \A i \in 1 .. 5 : uv[i] \in Signs /\ vw[i] \in Signs /\ uw[i] \in Signs /\ vu[i] \in Signs
      /\ compare(u, v) = FirstSign(uv[1], uv[2], uv[3], uv[4], uv[5])
      /\ compare(v, w) = FirstSign(vw[1], vw[2], vw[3], vw[4], vw[5])
      /\ compare(u, w) = FirstSign(uw[1], uw[2], uw[3], uw[4], uw[5])
      /\ compare(v, u) = FirstSign(vu[1], vu[2], vu[3], vu[4], vu[5])
  BY CompareIsFirstSign
<1>4. Chain(uv[1], vw[1], uw[1]) /\ uv[1] = -vu[1]
  BY <1>1, NumericChain, NumericFacts DEF FieldSigns
<1>5. Chain(uv[2], vw[2], uw[2]) /\ uv[2] = -vu[2]
  BY <1>1, SignChain, SignFacts DEF FieldSigns, compareByte
<1>6. Chain(uv[3], vw[3], uw[3]) /\ uv[3] = -vu[3]
  BY <1>2, SignChain, SignFacts DEF FieldSigns
<1>7. Chain(uv[4], vw[4], uw[4]) /\ uv[4] = -vu[4]
  BY <1>1, SignChain, SignFacts DEF FieldSigns
<1>8. Chain(uv[5], vw[5], uw[5]) /\ uv[5] = -vu[5]
  BY <1>1, SignChain, SignFacts DEF FieldSigns
<1> HIDE DEF uv, vw, uw, vu
<1>9. Chain(compare(u, v), compare(v, w), compare(u, w))
  <2>1. /\ uv[1] \in Signs /\ uv[2] \in Signs /\ uv[3] \in Signs /\ uv[4] \in Signs /\ uv[5] \in Signs
        /\ vw[1] \in Signs /\ vw[2] \in Signs /\ vw[3] \in Signs /\ vw[4] \in Signs /\ vw[5] \in Signs
        /\ uw[1] \in Signs /\ uw[2] \in Signs /\ uw[3] \in Signs /\ uw[4] \in Signs /\ uw[5] \in Signs
    BY <1>3
  <2>2. Chain(FirstSign(uv[1], uv[2], uv[3], uv[4], uv[5]), FirstSign(vw[1], vw[2], vw[3], vw[4], vw[5]),
              FirstSign(uw[1], uw[2], uw[3], uw[4], uw[5]))
    BY <2>1, <1>4, <1>5, <1>6, <1>7, <1>8, FirstSignChain, Zenon
  <2> QED BY <1>3, <2>2
<1>10. compare(u, v) \in Signs /\ compare(u, v) = -compare(v, u)
  BY <1>3, <1>4, <1>5, <1>6, <1>7, <1>8 DEF FirstSign, Signs
<1> QED BY <1>9, <1>10

(* What parses has kept every number: none of them is beyond MaxInt.       *)
LEMMA ParsedVersion ==
  ASSUME NEW s, Parses(s)
  PROVE  LET v == parseVersion(s)
             k == Captures[s]
         IN  /\ v \in Version
             /\ v.numeric = k.numeric /\ v.letter = k.letter /\ v.suffixKind = k.suffixKind
             /\ v.suffixNum = (IF k.suffixNum = Unwritten THEN 0 ELSE k.suffixNum)
             /\ v.revision = (IF k.revision = Unwritten THEN 0 ELSE k.revision)
<1> DEFINE k == Captures[s]
           v == parseVersion(s)
<1>1. k \in [numeric : Seq(Nat), letter : Nat, suffixKind : SuffixKinds,
             suffixNum : Nat \cup {Unwritten}, revision : Nat \cup {Unwritten}]
  BY CapturesAssumption DEF Parses
<1>2. \A n \in Numbers(s) : n <= MaxInt
  BY DEF Parses
<1>3. v = [k EXCEPT !.numeric = [i \in DOMAIN k.numeric |-> Atoi(k.numeric[i])],
                    !.suffixNum = Number(k.suffixNum), !.revision = Number(k.revision)]
  BY DEF parseVersion
<1>4. MaxInt \in Int
  BY CapturesAssumption
<1>5. [i \in DOMAIN k.numeric |-> Atoi(k.numeric[i])] = k.numeric
  <2>1. \A i \in DOMAIN k.numeric : k.numeric[i] \in Nat /\ k.numeric[i] <= MaxInt
    BY <1>1, <1>2 DEF Numbers
  <2>2. \A i \in DOMAIN k.numeric : Atoi(k.numeric[i]) = k.numeric[i]
    BY <2>1, <1>4 DEF Atoi
  <2>3. k.numeric = [i \in DOMAIN k.numeric |-> k.numeric[i]]
    BY <1>1
  <2> QED BY <2>2, <2>3
<1>6. /\ Number(k.suffixNum) = IF k.suffixNum = Unwritten THEN 0 ELSE k.suffixNum
      /\ Number(k.revision) = IF k.revision = Unwritten THEN 0 ELSE k.revision
  <2>1. k.suffixNum \in Numbers(s) /\ k.revision \in Numbers(s)
    BY DEF Numbers
  <2>2. /\ k.suffixNum \in Int /\ k.revision \in Int
        /\ k.suffixNum <= MaxInt /\ k.revision <= MaxInt
    BY <1>1, <1>2, <2>1 DEF Unwritten
  <2> QED BY <1>4, <2>2 DEF Number, Atoi
<1> HIDE DEF k
<1>7. /\ v.numeric = k.numeric /\ v.letter = k.letter /\ v.suffixKind = k.suffixKind
      /\ v.suffixNum = Number(k.suffixNum) /\ v.revision = Number(k.revision)
  BY <1>1, <1>3, <1>5
<1>8. v \in Version
  <2>1. Number(k.suffixNum) \in Nat /\ Number(k.revision) \in Nat
    BY <1>1, <1>6
  <2> QED BY <1>1, <1>3, <1>5, <2>1 DEF Version
<1> QED BY <1>6, <1>7, <1>8 DEF k

(***************************************************************************)
(* The laws, first of the strings of one state.                            *)
(***************************************************************************)
LEMMA PreorderOfThree == TotalPreorder
<1> SUFFICES ASSUME Parses(a), Parses(b), Parses(c)
             PROVE  /\ Compare(a, a) = 0
                    /\ Compare(a, b) = -Compare(b, a)
                    /\ Compare(a, b) <= 0 /\ Compare(b, c) <= 0 => Compare(a, c) <= 0
                    /\ Compare(a, b) = 0 => Compare(a, c) = Compare(b, c)
  BY DEF TotalPreorder
<1>1. parseVersion(a) \in Version /\ parseVersion(b) \in Version /\ parseVersion(c) \in Version
  BY ParsedVersion
<1>2. Compare(a, a) \in Signs /\ Compare(a, a) = -Compare(a, a)
  BY <1>1, CompareLaws DEF Compare
<1>3. /\ Compare(a, b) \in Signs /\ Compare(b, c) \in Signs /\ Compare(a, c) \in Signs
      /\ Compare(a, b) = -Compare(b, a)
      /\ Chain(Compare(a, b), Compare(b, c), Compare(a, c))
  BY <1>1, CompareLaws DEF Compare
<1>4. Compare(a, a) = 0
  BY <1>2 DEF Signs
<1>5. Compare(a, b) <= 0 /\ Compare(b, c) <= 0 => Compare(a, c) <= 0
  BY <1>3 DEF Chain, Signs
<1>6. Compare(a, b) = 0 => Compare(a, c) = Compare(b, c)
  BY <1>3 DEF Chain
<1> QED BY <1>3, <1>4, <1>5, <1>6

(* The comparator is a total preorder on the strings that parse, whatever  *)
(* their number of components.                                             *)
THEOREM Preorder == Spec => []TotalPreorder
  BY PreorderOfThree, PTL

\* The ranges of the two versions the behaviour is in.
LEMMA RangesOfThree == RangesPartition
<1> SUFFICES ASSUME Parses(a), Parses(b)
             PROVE  LET Is(op) == Satisfies(a, Bound(op, b)) = "match"
                    IN  /\ Is("lt") <=> ~Is("ge")
                        /\ Is("gt") <=> ~Is("le")
                        /\ Is("eq") <=> Is("ge") /\ Is("le")
                        /\ Parses(c) /\ Is("lt") /\ Satisfies(b, Bound("lt", c)) = "match" =>
                             Satisfies(a, Bound("lt", c)) = "match"
  BY DEF RangesPartition
<1>1. ASSUME NEW s, NEW t, Parses(s), Parses(t)
      PROVE  /\ Compare(s, t) \in Signs
             /\ \A op \in Ops : Satisfies(s, Bound(op, t)) = "match" <=> Holds(op, Compare(s, t))
  <2>1. Compare(s, t) \in Signs
    BY <1>1, ParsedVersion, CompareLaws DEF Compare
  <2>2. ASSUME NEW op \in Ops
        PROVE  Satisfies(s, Bound(op, t)) = "match" <=> Holds(op, Compare(s, t))
    BY <1>1 DEF Satisfies, Bound
  <2> QED BY <2>1, <2>2
<1>2. {"ge", "gt", "le", "lt", "eq"} \subseteq Ops
  BY DEF Ops
<1>3. ASSUME Parses(c), Compare(a, b) < 0, Compare(b, c) < 0
      PROVE  Compare(a, c) < 0
  <2>1. Chain(Compare(a, b), Compare(b, c), Compare(a, c))
    BY <1>3, ParsedVersion, CompareLaws DEF Compare
  <2>2. Compare(a, b) \in Signs /\ Compare(b, c) \in Signs
    BY <1>1, <1>3
  <2> QED BY <1>3, <2>1, <2>2 DEF Chain, Signs
<1>4. Compare(a, b) \in Signs
  BY <1>1
<1>5. /\ Satisfies(a, Bound("lt", b)) = "match" <=> Compare(a, b) < 0
      /\ Satisfies(a, Bound("ge", b)) = "match" <=> Compare(a, b) >= 0
      /\ Satisfies(a, Bound("gt", b)) = "match" <=> Compare(a, b) > 0
      /\ Satisfies(a, Bound("le", b)) = "match" <=> Compare(a, b) <= 0
      /\ Satisfies(a, Bound("eq", b)) = "match" <=> Compare(a, b) = 0
  BY <1>1, <1>2 DEF Holds
<1>6. Parses(c) => /\ Satisfies(b, Bound("lt", c)) = "match" <=> Compare(b, c) < 0
                   /\ Satisfies(a, Bound("lt", c)) = "match" <=> Compare(a, c) < 0
  BY <1>1, <1>2 DEF Holds
<1> QED BY <1>3, <1>4, <1>5, <1>6 DEF Signs

(* The ranges of an advisory cut the versions in two at every boundary.    *)
THEOREM Partition == Spec => []RangesPartition
  BY RangesOfThree, PTL

(***************************************************************************)
(* Rows.                                                                   *)
(***************************************************************************)
(* The place of a suffix kind in the row's list of kinds is its rank.      *)
LEMMA RankOfKind ==
  ASSUME NEW kind \in SuffixKinds
  PROVE  (CHOOSE i \in DOMAIN KindOrder : KindOrder[i] = kind) = suffixRank[kind] + 1
<1>1. /\ KindOrder[1] = "alpha" /\ KindOrder[2] = "beta" /\ KindOrder[3] = "pre"
      /\ KindOrder[4] = "rc" /\ KindOrder[5] = "" /\ KindOrder[6] = "p"
  BY DEF KindOrder
<1>2. /\ suffixRank["alpha"] = 0 /\ suffixRank["beta"] = 1 /\ suffixRank["pre"] = 2
      /\ suffixRank["rc"] = 3 /\ suffixRank[""] = 4 /\ suffixRank["p"] = 5
  BY DEF suffixRank, SuffixKinds
<1>3. DOMAIN KindOrder = {1, 2, 3, 4, 5, 6}
  BY DEF KindOrder
<1>4. \A i \in DOMAIN KindOrder : suffixRank[KindOrder[i]] + 1 = i
  <2>1. 0 + 1 = 1 /\ 1 + 1 = 2 /\ 2 + 1 = 3 /\ 3 + 1 = 4 /\ 4 + 1 = 5 /\ 5 + 1 = 6
    OBVIOUS
  <2> QED BY <1>1, <1>2, <1>3, <2>1, Zenon
<1>5. \E i \in DOMAIN KindOrder : KindOrder[i] = kind
  BY <1>1, <1>3 DEF SuffixKinds
<1> DEFINE at == CHOOSE i \in DOMAIN KindOrder : KindOrder[i] = kind
<1>6. at \in DOMAIN KindOrder /\ KindOrder[at] = kind
  BY <1>5
<1> HIDE DEF at
<1>7. at = suffixRank[kind] + 1
  BY <1>4, <1>6
<1> QED BY <1>7 DEF at

(* A list with four more elements.                                         *)
LEMMA FourMore ==
  ASSUME NEW front \in Seq(Nat), NEW back \in Seq(Nat), Len(back) = 4
  PROVE  /\ front \o back \in Seq(Nat)
         /\ DOMAIN (front \o back) = 1 .. Len(front) + 4
         /\ \A i \in 1 .. Len(front) : (front \o back)[i] = front[i]
         /\ \A j \in 1 .. 4 : (front \o back)[Len(front) + j] = back[j]
<1> DEFINE row == front \o back
           n == Len(front)
<1>1. /\ row \in Seq(Nat) /\ Len(row) = n + 4 /\ n \in Nat
      /\ \A i \in 1 .. n + 4 : row[i] = IF i <= n THEN front[i] ELSE back[i - n]
  <2>1. /\ front \o back \in Seq(Nat)
        /\ Len(front \o back) = Len(front) + Len(back)
        /\ \A i \in 1 .. Len(front) + Len(back) :
             (front \o back)[i] = IF i <= Len(front) THEN front[i] ELSE back[i - Len(front)]
    BY ConcatProperties
  <2>2. Len(front) \in Nat
    BY LenProperties
  <2> HIDE DEF row, n
  <2>3. row \in Seq(Nat) /\ Len(row) = n + Len(back) /\ n \in Nat
    BY <2>1, <2>2 DEF row, n
  <2>4. \A i \in 1 .. n + Len(back) : row[i] = IF i <= n THEN front[i] ELSE back[i - n]
    BY <2>1, Zenon DEF row, n
  <2> QED BY <2>3, <2>4
<1> HIDE DEF row, n
<1>2. DOMAIN row = 1 .. n + 4
  BY <1>1
<1>3. \A i \in 1 .. n : row[i] = front[i]
  BY <1>1
<1>4. ASSUME NEW j \in 1 .. 4 PROVE row[n + j] = back[j]
  <2>1. n + j \in 1 .. n + 4 /\ ~(n + j <= n) /\ (n + j) - n = j
    BY <1>1
  <2> QED BY <1>1, <2>1
<1> QED BY <1>1, <1>2, <1>3, <1>4, Zenon DEF row, n

(* What is in a row of any width.                                          *)
LEMMA RowFacts ==
  ASSUME NEW s, Parses(s), NEW w \in Nat
  PROVE  LET v == parseVersion(s)
             row == Row(s, w)
         IN  /\ row \in Seq(Nat) /\ DOMAIN row = 1 .. w + 4
             /\ \A i \in 1 .. w : row[i] = Component(v.numeric, i)
             /\ row[w + 1] = v.letter
             /\ row[w + 2] = suffixRank[v.suffixKind] + 1
             /\ row[w + 3] = v.suffixNum
             /\ row[w + 4] = v.revision
<1> DEFINE v == parseVersion(s)
           k == Captures[s]
           rank == suffixRank[v.suffixKind] + 1
           front == [i \in 1 .. w |-> Component(v.numeric, i)]
           back == <<v.letter, rank, v.suffixNum, v.revision>>
<1>1. /\ v \in Version
      /\ v.numeric = k.numeric /\ v.letter = k.letter /\ v.suffixKind = k.suffixKind
      /\ v.suffixNum = Written(k.suffixNum) /\ v.revision = Written(k.revision)
  BY ParsedVersion DEF Written
<1>2. (CHOOSE i \in DOMAIN KindOrder : KindOrder[i] = k.suffixKind) = rank
  BY <1>1, RankOfKind DEF Version
<1>3. Row(s, w) = front \o back
  BY <1>1, <1>2 DEF Row
<1>4. front \in Seq(Nat) /\ Len(front) = w
  BY <1>1, ComponentType DEF Version
<1>5. \A i \in 1 .. w : front[i] = Component(v.numeric, i)
  OBVIOUS
<1>6. v.letter \in Nat /\ rank \in Nat /\ v.suffixNum \in Nat /\ v.revision \in Nat
  BY <1>1, RankFacts DEF Version
<1>7. /\ back \in Seq(Nat) /\ Len(back) = 4
      /\ back[1] = v.letter /\ back[2] = rank /\ back[3] = v.suffixNum /\ back[4] = v.revision
  <2> HIDE DEF v, rank
  <2> QED BY <1>6
<1> HIDE DEF front, back
<1>8. /\ Row(s, w) \in Seq(Nat)
      /\ DOMAIN Row(s, w) = 1 .. w + 4
      /\ \A i \in 1 .. w : Row(s, w)[i] = front[i]
      /\ \A j \in 1 .. 4 : Row(s, w)[w + j] = back[j]
  <2> HIDE DEF v, k, rank
  <2>1. front \in Seq(Nat) /\ back \in Seq(Nat) /\ Len(back) = 4
    BY <1>4, <1>7
  <2>2. /\ front \o back \in Seq(Nat)
        /\ DOMAIN (front \o back) = 1 .. Len(front) + 4
        /\ \A i \in 1 .. Len(front) : (front \o back)[i] = front[i]
        /\ \A j \in 1 .. 4 : (front \o back)[Len(front) + j] = back[j]
    BY <2>1, FourMore
  <2> QED BY <1>3, <1>4, <2>2, Zenon
<1>9. 1 \in 1 .. 4 /\ 2 \in 1 .. 4 /\ 3 \in 1 .. 4 /\ 4 \in 1 .. 4
  OBVIOUS
<1> QED BY <1>5, <1>7, <1>8, <1>9, Zenon

(* When a row comes before another one as wide.                            *)
LEMMA BeforeByPart ==
  ASSUME NEW w \in Nat, NEW R \in Seq(Nat), NEW Q \in Seq(Nat),
         DOMAIN R = 1 .. w + 4, DOMAIN Q = 1 .. w + 4
  PROVE  LET less == \E i \in 1 .. w : R[i] < Q[i] /\ \A j \in 1 .. i - 1 : R[j] = Q[j]
             same == \A i \in 1 .. w : R[i] = Q[i]
         IN  Before(R, Q) <=>
               \/ less
               \/ same /\ \/ R[w + 1] < Q[w + 1]
                          \/ /\ R[w + 1] = Q[w + 1]
                             /\ \/ R[w + 2] < Q[w + 2]
                                \/ /\ R[w + 2] = Q[w + 2]
                                   /\ \/ R[w + 3] < Q[w + 3]
                                      \/ R[w + 3] = Q[w + 3] /\ R[w + 4] < Q[w + 4]
<1> DEFINE less == \E i \in 1 .. w : R[i] < Q[i] /\ \A j \in 1 .. i - 1 : R[j] = Q[j]
           same == \A i \in 1 .. w : R[i] = Q[i]
           at(i) == R[i] < Q[i] /\ \A j \in 1 .. i - 1 : R[j] = Q[j]
<1>1. Before(R, Q) <=> \E i \in 1 .. w + 4 : at(i)
  BY DEF Before
<1>2. at(w + 1) <=> same /\ R[w + 1] < Q[w + 1]
  <2>1. (w + 1) - 1 = w
    OBVIOUS
  <2> QED BY <2>1
<1>3. at(w + 2) <=> same /\ R[w + 1] = Q[w + 1] /\ R[w + 2] < Q[w + 2]
  <2>1. \A j : j \in 1 .. (w + 2) - 1 <=> j \in 1 .. w \/ j = w + 1
    OBVIOUS
  <2> QED BY <2>1, Zenon
<1>4. at(w + 3) <=> same /\ R[w + 1] = Q[w + 1] /\ R[w + 2] = Q[w + 2] /\ R[w + 3] < Q[w + 3]
  <2>1. \A j : j \in 1 .. (w + 3) - 1 <=> j \in 1 .. w \/ j = w + 1 \/ j = w + 2
    OBVIOUS
  <2> QED BY <2>1, Zenon
<1>5. at(w + 4) <=> /\ same /\ R[w + 1] = Q[w + 1] /\ R[w + 2] = Q[w + 2]
                    /\ R[w + 3] = Q[w + 3] /\ R[w + 4] < Q[w + 4]
  <2>1. \A j \in 1 .. (w + 4) - 1 : j \in 1 .. w \/ j = w + 1 \/ j = w + 2 \/ j = w + 3
    OBVIOUS
  <2>2. /\ 1 .. w \subseteq 1 .. (w + 4) - 1
        /\ w + 1 \in 1 .. (w + 4) - 1 /\ w + 2 \in 1 .. (w + 4) - 1 /\ w + 3 \in 1 .. (w + 4) - 1
    OBVIOUS
  <2> QED BY <2>1, <2>2, Zenon
<1>6. /\ \A i \in 1 .. w + 4 : i \in 1 .. w \/ i = w + 1 \/ i = w + 2 \/ i = w + 3 \/ i = w + 4
      /\ 1 .. w \subseteq 1 .. w + 4
      /\ w + 1 \in 1 .. w + 4 /\ w + 2 \in 1 .. w + 4 /\ w + 3 \in 1 .. w + 4 /\ w + 4 \in 1 .. w + 4
  OBVIOUS
<1>7. (\E i \in 1 .. w + 4 : at(i)) <=> less \/ at(w + 1) \/ at(w + 2) \/ at(w + 3) \/ at(w + 4)
  BY <1>6, Zenon
<1> QED BY <1>1, <1>2, <1>3, <1>4, <1>5, <1>7, Zenon

\* The reference definition on the two versions the behaviour is in.
LEMMA ReferenceOfTwo == AgreesWithReference
<1> SUFFICES ASSUME Parses(a), Parses(b)
             PROVE  LET w == Width(a, b)
                    IN  /\ Compare(a, b) < 0 <=> Before(Row(a, w), Row(b, w))
                        /\ Compare(a, b) = 0 <=> Row(a, w) = Row(b, w)
  BY DEF AgreesWithReference
<1> DEFINE w == Width(a, b)
           v == parseVersion(a)
           o == parseVersion(b)
           R == Row(a, w)
           Q == Row(b, w)
           s == FieldSigns(v, o)
           less == \E i \in 1 .. w : R[i] < Q[i] /\ \A j \in 1 .. i - 1 : R[j] = Q[j]
           same == \A i \in 1 .. w : R[i] = Q[i]
<1>1. v \in Version /\ o \in Version
  BY ParsedVersion
<1>2. v.numeric = Captures[a].numeric /\ o.numeric = Captures[b].numeric
  BY ParsedVersion
<1>3. w \in Nat /\ Len(v.numeric) <= w /\ Len(o.numeric) <= w
  <2>1. Len(v.numeric) \in Nat /\ Len(o.numeric) \in Nat
    BY <1>1 DEF Version
  <2> QED BY <1>2, <2>1 DEF Width
<1>4. /\ R \in Seq(Nat) /\ DOMAIN R = 1 .. w + 4
      /\ \A i \in 1 .. w : R[i] = Component(v.numeric, i)
      /\ R[w + 1] = v.letter /\ R[w + 2] = suffixRank[v.suffixKind] + 1
      /\ R[w + 3] = v.suffixNum /\ R[w + 4] = v.revision
  BY <1>3, RowFacts
<1>5. /\ Q \in Seq(Nat) /\ DOMAIN Q = 1 .. w + 4
      /\ \A i \in 1 .. w : Q[i] = Component(o.numeric, i)
      /\ Q[w + 1] = o.letter /\ Q[w + 2] = suffixRank[o.suffixKind] + 1
      /\ Q[w + 3] = o.suffixNum /\ Q[w + 4] = o.revision
  BY <1>3, RowFacts
<1>6. /\ \A i \in 1 .. 5 : s[i] \in Signs
      /\ Compare(a, b) = FirstSign(s[1], s[2], s[3], s[4], s[5])
  BY <1>1, CompareIsFirstSign DEF Compare
<1>7. \A i \in Places : i \notin 1 .. w => Component(v.numeric, i) = 0 /\ Component(o.numeric, i) = 0
  <2>1. DOMAIN v.numeric = 1 .. Len(v.numeric) /\ DOMAIN o.numeric = 1 .. Len(o.numeric)
    BY <1>1 DEF Version
  <2>2. Len(v.numeric) \in Nat /\ Len(o.numeric) \in Nat
    BY <1>1 DEF Version
  <2>3. ASSUME NEW i \in Places, i \notin 1 .. w
        PROVE  i \notin DOMAIN v.numeric /\ i \notin DOMAIN o.numeric
    BY <1>3, <2>1, <2>2, <2>3 DEF Places
  <2> QED BY <2>3 DEF Component
<1>8. 1 .. w \subseteq Places
  BY <1>3 DEF Places
<1>9. (\A i \in Places : Component(v.numeric, i) = Component(o.numeric, i)) <=> same
  BY <1>4, <1>5, <1>7, <1>8, Zenon
<1>10. FirstIsLess(v.numeric, o.numeric) <=> less
  <2>1. \A i \in Places : Component(v.numeric, i) < Component(o.numeric, i) => i \in 1 .. w
    <3>1. ~(0 < 0)
      OBVIOUS
    <3> QED BY <1>7, <3>1, Zenon
  <2>2. \A i \in 1 .. w : SameUpTo(v.numeric, o.numeric, i) <=> \A j \in 1 .. i - 1 : R[j] = Q[j]
    <3>1. \A i \in 1 .. w : \A j \in 1 .. i - 1 : j \in 1 .. w
      BY <1>3
    <3> QED BY <1>4, <1>5, <3>1, Zenon DEF SameUpTo
  <2>3. \A i \in 1 .. w : R[i] < Q[i] <=> Component(v.numeric, i) < Component(o.numeric, i)
    BY <1>4, <1>5, Zenon
  <2> QED BY <1>8, <2>1, <2>2, <2>3, Zenon DEF FirstIsLess
<1>11. (s[1] < 0 <=> less) /\ (s[1] = 0 <=> same)
  BY <1>1, <1>9, <1>10, NumericFacts DEF FieldSigns, Version
<1>12. (s[2] < 0 <=> R[w + 1] < Q[w + 1]) /\ (s[2] = 0 <=> R[w + 1] = Q[w + 1])
  <2>1. s[2] = sign(v.letter - o.letter)
    BY DEF FieldSigns, compareByte
  <2>2. v.letter \in Int /\ o.letter \in Int
    BY <1>1 DEF Version
  <2>3. (s[2] < 0 <=> v.letter < o.letter) /\ (s[2] = 0 <=> v.letter = o.letter)
    BY <2>1, <2>2, SignFacts
  <2> QED BY <1>4, <1>5, <2>3
<1>13. (s[3] < 0 <=> R[w + 2] < Q[w + 2]) /\ (s[3] = 0 <=> R[w + 2] = Q[w + 2])
  <2>1. s[3] = sign(suffixRank[v.suffixKind] - suffixRank[o.suffixKind])
    BY DEF FieldSigns
  <2>2. suffixRank[v.suffixKind] \in Int /\ suffixRank[o.suffixKind] \in Int
    BY <1>1, RankFacts DEF Version
  <2>3. (s[3] < 0 <=> suffixRank[v.suffixKind] < suffixRank[o.suffixKind]) /\ (s[3] = 0 <=> suffixRank[v.suffixKind] = suffixRank[o.suffixKind])
    BY <2>1, <2>2, SignFacts
  <2> QED BY <1>4, <1>5, <2>2, <2>3
<1>14. (s[4] < 0 <=> R[w + 3] < Q[w + 3]) /\ (s[4] = 0 <=> R[w + 3] = Q[w + 3])
  <2>1. s[4] = sign(v.suffixNum - o.suffixNum)
    BY DEF FieldSigns
  <2>2. v.suffixNum \in Int /\ o.suffixNum \in Int
    BY <1>1 DEF Version
  <2>3. (s[4] < 0 <=> v.suffixNum < o.suffixNum) /\ (s[4] = 0 <=> v.suffixNum = o.suffixNum)
    BY <2>1, <2>2, SignFacts
  <2> QED BY <1>4, <1>5, <2>3
<1>15. (s[5] < 0 <=> R[w + 4] < Q[w + 4]) /\ (s[5] = 0 <=> R[w + 4] = Q[w + 4])
  <2>1. s[5] = sign(v.revision - o.revision)
    BY DEF FieldSigns
  <2>2. v.revision \in Int /\ o.revision \in Int
    BY <1>1 DEF Version
  <2>3. (s[5] < 0 <=> v.revision < o.revision) /\ (s[5] = 0 <=> v.revision = o.revision)
    BY <2>1, <2>2, SignFacts
  <2> QED BY <1>4, <1>5, <2>3
<1> HIDE DEF R, Q, s, w, v, o
<1>16. Before(R, Q) <=>
         \/ less
         \/ same /\ \/ R[w + 1] < Q[w + 1]
                    \/ /\ R[w + 1] = Q[w + 1]
                       /\ \/ R[w + 2] < Q[w + 2]
                          \/ /\ R[w + 2] = Q[w + 2]
                             /\ \/ R[w + 3] < Q[w + 3]
                                \/ R[w + 3] = Q[w + 3] /\ R[w + 4] < Q[w + 4]
  BY <1>3, <1>4, <1>5, BeforeByPart
<1>17. R = Q <=> same /\ R[w + 1] = Q[w + 1] /\ R[w + 2] = Q[w + 2] /\ R[w + 3] = Q[w + 3]
                      /\ R[w + 4] = Q[w + 4]
  <2>1. ASSUME same, R[w + 1] = Q[w + 1], R[w + 2] = Q[w + 2], R[w + 3] = Q[w + 3], R[w + 4] = Q[w + 4]
        PROVE  R = Q
    <3>1. \A i \in 1 .. w + 4 : i \in 1 .. w \/ i = w + 1 \/ i = w + 2 \/ i = w + 3 \/ i = w + 4
      BY <1>3
    <3>2. \A i \in 1 .. w + 4 : R[i] = Q[i]
      BY <2>1, <3>1, Zenon
    <3>3. Len(R) = w + 4 /\ Len(Q) = w + 4
      BY <1>3, <1>4, <1>5
    <3> QED BY <1>4, <1>5, <3>2, <3>3, SeqEqual
  <2> QED BY <2>1
<1> HIDE DEF less, same
<1>18. /\ s[1] \in Signs /\ s[2] \in Signs /\ s[3] \in Signs /\ s[4] \in Signs /\ s[5] \in Signs
  BY <1>6
<1>19. Compare(a, b) < 0 <=>
         \/ s[1] < 0
         \/ s[1] = 0 /\ \/ s[2] < 0
                        \/ s[2] = 0 /\ \/ s[3] < 0
                                       \/ s[3] = 0 /\ \/ s[4] < 0
                                                      \/ s[4] = 0 /\ s[5] < 0
  BY <1>6, <1>18 DEF FirstSign, Signs
<1>20. Compare(a, b) = 0 <=> s[1] = 0 /\ s[2] = 0 /\ s[3] = 0 /\ s[4] = 0 /\ s[5] = 0
  BY <1>6, <1>18 DEF FirstSign, Signs
<1>21. Compare(a, b) < 0 <=> Before(R, Q)
  BY <1>11, <1>12, <1>13, <1>14, <1>15, <1>16, <1>19, Zenon
<1>22. Compare(a, b) = 0 <=> R = Q
  BY <1>11, <1>12, <1>13, <1>14, <1>15, <1>17, <1>20, Zenon
<1> QED BY <1>21, <1>22 DEF R, Q, w

(* Compare agrees with the dictionary order of the rows, whatever the      *)
(* number of components.                                                   *)
THEOREM Reference == Spec => []AgreesWithReference
  BY ReferenceOfTwo, PTL
====

---- MODULE Lists_proofs ----
(***************************************************************************)
(* What sorting, selecting and appending do to the elements of a list, for *)
(* any list.                                                               *)
(***************************************************************************)
EXTENDS Lists, Extremes, SequenceTheorems, FunctionTheorems

\* before puts the elements of S in a strict total order.
StrictOrder(S, before) ==
  /\ \A x \in S : <<x, x>> \notin before
  /\ \A x, y, z \in S : <<x, y>> \in before /\ <<y, z>> \in before => <<x, z>> \in before
  /\ \A x, y \in S : x = y \/ <<x, y>> \in before \/ <<y, x>> \in before

Below(S, before, x) == {y \in S : <<y, x>> \in before}

(* The number of elements below an element tells where it stands: it grows *)
(* with the element, and takes every value there is room for.              *)
LEMMA PlaceFacts ==
  ASSUME NEW S, IsFiniteSet(S), NEW before, StrictOrder(S, before)
  PROVE  /\ \A x \in S : Cardinality(Below(S, before, x)) \in 0 .. Cardinality(S) - 1
         /\ \A x, y \in S :
              <<x, y>> \in before <=> Cardinality(Below(S, before, x)) < Cardinality(Below(S, before, y))
         /\ \A n \in 0 .. Cardinality(S) - 1 : \E x \in S : Cardinality(Below(S, before, x)) = n
<1> DEFINE rank(x) == Cardinality(Below(S, before, x))
<1>0. Cardinality(S) \in Nat
  BY FS_CardinalityType
<1>1. \A x \in S : IsFiniteSet(Below(S, before, x)) /\ rank(x) \in Nat /\ rank(x) < Cardinality(S)
  <2> TAKE x \in S
  <2>1. Below(S, before, x) \in SUBSET S /\ Below(S, before, x) # S
    BY DEF Below, StrictOrder
  <2>2. IsFiniteSet(Below(S, before, x)) /\ rank(x) <= Cardinality(S) /\ rank(x) # Cardinality(S)
    BY <2>1, FS_Subset
  <2>3. rank(x) \in Nat
    BY <2>2, FS_CardinalityType
  <2> HIDE DEF rank
  <2> QED BY <1>0, <2>2, <2>3
<1>2. ASSUME NEW x \in S, NEW y \in S, <<x, y>> \in before
      PROVE  rank(x) < rank(y)
  <2>1. Below(S, before, x) \in SUBSET Below(S, before, y)
    BY <1>2 DEF Below, StrictOrder
  <2>2. Below(S, before, x) # Below(S, before, y)
    BY <1>2 DEF Below, StrictOrder
  <2>3. rank(x) <= rank(y) /\ rank(x) # rank(y)
    BY <1>1, <2>1, <2>2, FS_Subset
  <2>4. rank(x) \in Nat /\ rank(y) \in Nat
    BY <1>1
  <2> HIDE DEF rank
  <2> QED BY <2>3, <2>4
<1>3. \A x, y \in S : <<x, y>> \in before <=> rank(x) < rank(y)
  <2> TAKE x, y \in S
  <2>1. CASE x = y
    <3>1. <<x, y>> \notin before
      BY <2>1 DEF StrictOrder
    <3>2. ~(rank(x) < rank(y))
      <4>1. rank(x) \in Nat
        BY <1>1
      <4> HIDE DEF rank
      <4> QED BY <2>1, <4>1
    <3> QED BY <3>1, <3>2
  <2>2. CASE <<x, y>> \in before
    BY <1>2, <2>2
  <2>3. CASE <<y, x>> \in before
    <3>1. <<x, y>> \notin before
      BY <2>3 DEF StrictOrder
    <3>2. rank(y) < rank(x) /\ rank(x) \in Nat /\ rank(y) \in Nat
      BY <1>1, <1>2, <2>3
    <3>3. ~(rank(x) < rank(y))
      <4> HIDE DEF rank
      <4> QED BY <3>2
    <3> QED BY <3>1, <3>3
  <2> QED BY <2>1, <2>2, <2>3 DEF StrictOrder
<1>4. \A n \in 0 .. Cardinality(S) - 1 : \E x \in S : rank(x) = n
  <2> DEFINE places == 0 .. Cardinality(S) - 1
             place == [x \in S |-> rank(x)]
  <2>1. \A x \in S : rank(x) \in places
    <3> HIDE DEF rank
    <3> QED BY <1>0, <1>1
  <2>2. \A x, y \in S : rank(x) = rank(y) => x = y
    <3> TAKE x, y \in S
    <3>1. rank(x) \in Nat /\ rank(y) \in Nat
      BY <1>1
    <3>2. rank(x) = rank(y) => ~(rank(x) < rank(y)) /\ ~(rank(y) < rank(x))
      <4> HIDE DEF rank
      <4> QED BY <3>1
    <3> QED BY <1>3, <3>2 DEF StrictOrder
  <2>3. place \in Injection(S, places)
    <3> HIDE DEF rank, places
    <3> QED BY <2>1, <2>2 DEF Injection, IsInjective
  <2>4. IsFiniteSet(places) /\ Cardinality(places) = Cardinality(S)
    BY <1>0, FS_Interval
  <2>5. place \in Surjection(S, places)
    <3> HIDE DEF place, places
    <3> QED BY <2>3, <2>4, FS_Injection
  <2>6. \A n \in places : \E x \in S : place[x] = n
    <3> HIDE DEF place, places
    <3> QED BY <2>5 DEF Surjection
  <2> HIDE DEF rank
  <2> QED BY <2>6
<1>5. \A x \in S : rank(x) \in 0 .. Cardinality(S) - 1
  <2> HIDE DEF rank
  <2> QED BY <1>0, <1>1
<1> QED BY <1>3, <1>4, <1>5

(* An enumeration has every element once, in order.                        *)
LEMMA EnumerationFacts ==
  ASSUME NEW S, IsFiniteSet(S), NEW before, StrictOrder(S, before)
  PROVE  /\ Cardinality(S) \in Nat
         /\ Enumeration(S, before) \in [1 .. Cardinality(S) -> S]
         /\ \A x \in S : \E i \in 1 .. Cardinality(S) : Enumeration(S, before)[i] = x
         /\ \A i, j \in 1 .. Cardinality(S) :
              i < j <=> <<Enumeration(S, before)[i], Enumeration(S, before)[j]>> \in before
<1> DEFINE rank(x) == Cardinality(Below(S, before, x))
           size == Cardinality(S)
           e == Enumeration(S, before)
<1>0. size \in Nat
  BY FS_CardinalityType
<1>1. /\ \A x \in S : rank(x) \in 0 .. size - 1
      /\ \A x, y \in S : <<x, y>> \in before <=> rank(x) < rank(y)
      /\ \A n \in 0 .. size - 1 : \E x \in S : rank(x) = n
  BY PlaceFacts
<1>2. e = [i \in 1 .. size |-> CHOOSE x \in S : rank(x) = i - 1]
  BY DEF Enumeration, Below
<1>3. \A i \in 1 .. size : e[i] \in S /\ rank(e[i]) = i - 1
  <2> TAKE i \in 1 .. size
  <2>1. i - 1 \in 0 .. size - 1
    BY <1>0
  <2>2. PICK x \in S : rank(x) = i - 1
    BY <1>1, <2>1
  <2>3. e[i] = CHOOSE y \in S : rank(y) = i - 1
    <3> HIDE DEF e, rank
    <3> QED BY <1>2
  <2> HIDE DEF e, rank
  <2> QED BY <2>2, <2>3
<1>4. e \in [1 .. size -> S]
  <2> HIDE DEF e, rank
  <2> QED BY <1>2, <1>3
<1>5. \A x \in S : \E i \in 1 .. size : e[i] = x
  <2> TAKE x \in S
  <2>1. rank(x) \in 0 .. size - 1
    BY <1>1
  <2>2. rank(x) + 1 \in 1 .. size /\ (rank(x) + 1) - 1 = rank(x)
    <3> HIDE DEF rank, size
    <3> QED BY <1>0, <2>1
  <2>3. e[rank(x) + 1] \in S /\ rank(e[rank(x) + 1]) = rank(x)
    <3> HIDE DEF e
    <3> QED BY <1>3, <2>2
  <2>4. e[rank(x) + 1] = x
    <3>1. ~(rank(e[rank(x) + 1]) < rank(x)) /\ ~(rank(x) < rank(e[rank(x) + 1]))
      <4> HIDE DEF e, rank, size
      <4> QED BY <1>0, <2>1, <2>3
    <3>2. <<e[rank(x) + 1], x>> \notin before /\ <<x, e[rank(x) + 1]>> \notin before
      <4> HIDE DEF e, rank
      <4> QED BY <1>1, <2>3, <3>1
    <3> HIDE DEF e, rank
    <3> QED BY <2>3, <3>2 DEF StrictOrder
  <2> HIDE DEF e, rank
  <2> QED BY <2>2, <2>4
<1>6. \A i, j \in 1 .. size : i < j <=> <<e[i], e[j]>> \in before
  <2> TAKE i, j \in 1 .. size
  <2>1. e[i] \in S /\ e[j] \in S /\ rank(e[i]) = i - 1 /\ rank(e[j]) = j - 1
    BY <1>3
  <2>2. <<e[i], e[j]>> \in before <=> rank(e[i]) < rank(e[j])
    <3> HIDE DEF e, rank
    <3> QED BY <1>1, <2>1
  <2> HIDE DEF e, rank, size
  <2> QED BY <1>0, <2>1, <2>2
<1> HIDE DEF e, size
<1> QED BY <1>0, <1>4, <1>5, <1>6 DEF e, size

\* So it is a list of the elements of the set.
LEMMA EnumerationElements ==
  ASSUME NEW S, IsFiniteSet(S), NEW before, StrictOrder(S, before)
  PROVE  /\ Enumeration(S, before) \in Seq(S)
         /\ ToSet(Enumeration(S, before)) = S
         /\ \A i, j \in DOMAIN Enumeration(S, before) :
              i < j <=> <<Enumeration(S, before)[i], Enumeration(S, before)[j]>> \in before
<1>1. PICK e : e = Enumeration(S, before)
  OBVIOUS
<1>2. /\ Cardinality(S) \in Nat
      /\ e \in [1 .. Cardinality(S) -> S]
      /\ \A x \in S : \E i \in 1 .. Cardinality(S) : e[i] = x
      /\ \A i, j \in 1 .. Cardinality(S) : i < j <=> <<e[i], e[j]>> \in before
  BY <1>1, EnumerationFacts
<1>3. e \in Seq(S) /\ DOMAIN e = 1 .. Cardinality(S)
  BY <1>2
<1>4. ToSet(e) = S
  BY <1>2, <1>3 DEF ToSet
<1> QED BY <1>1, <1>2, <1>3, <1>4

\* A list has finitely many elements.
LEMMA ElementsFinite ==
  ASSUME NEW T, NEW s \in Seq(T)
  PROVE  IsFiniteSet(ToSet(s)) /\ ToSet(s) \subseteq T
<1>1. Len(s) \in Nat /\ DOMAIN s = 1 .. Len(s) /\ \A i \in DOMAIN s : s[i] \in T
  OBVIOUS
<1>2. s \in Surjection(1 .. Len(s), ToSet(s))
  BY <1>1 DEF Surjection, ToSet
<1>3. IsFiniteSet(1 .. Len(s))
  BY <1>1, FS_Interval
<1>4. IsFiniteSet(ToSet(s))
  BY <1>2, <1>3, FS_Surjection
<1> QED BY <1>1, <1>4 DEF ToSet

----
(* Taking the elements at some positions in some order: those and no       *)
(* others, once each.                                                      *)
LEMMA AlongFacts ==
  ASSUME NEW T, NEW s \in Seq(T), NEW I \in SUBSET DOMAIN s, NEW before, StrictOrder(I, before)
  PROVE  /\ Along(s, I, before) \in Seq(T)
         /\ Cardinality(I) \in Nat /\ Len(Along(s, I, before)) = Cardinality(I)
         /\ ToSet(Along(s, I, before)) = {s[i] : i \in I}
<1> DEFINE order == Enumeration(I, before)
           size == Cardinality(I)
<1>1. IsFiniteSet(I)
  <2>1. DOMAIN s = 1 .. Len(s) /\ Len(s) \in Nat
    BY LenProperties
  <2>2. IsFiniteSet(DOMAIN s)
    BY <2>1, FS_Interval
  <2> QED BY <2>2, FS_Subset
<1>2. /\ size \in Nat
      /\ order \in [1 .. size -> I]
      /\ \A x \in I : \E i \in 1 .. size : order[i] = x
  BY <1>1, EnumerationFacts
<1>3. Along(s, I, before) = [k \in 1 .. size |-> s[order[k]]]
  <2>1. DOMAIN order = 1 .. size
    <3> HIDE DEF order
    <3> QED BY <1>2
  <2> QED BY <2>1 DEF Along
<1> HIDE DEF order, size
<1>4. \A k \in 1 .. size : s[order[k]] \in T
  BY <1>2
<1>5. Along(s, I, before) \in [1 .. size -> T]
  BY <1>3, <1>4
<1>6. Along(s, I, before) \in Seq(T) /\ Len(Along(s, I, before)) = size
  BY <1>2, <1>5
<1>7. ToSet(Along(s, I, before)) = {s[i] : i \in I}
  <2>1. ToSet(Along(s, I, before)) = {s[order[k]] : k \in 1 .. size}
    BY <1>3 DEF ToSet
  <2>2. \A k \in 1 .. size : order[k] \in I
    BY <1>2
  <2> QED BY <1>2, <2>1, <2>2
<1> QED BY <1>2, <1>6, <1>7 DEF size

\* Keeping some positions.
LEMMA AtFacts ==
  ASSUME NEW T, NEW s \in Seq(T), NEW I \in SUBSET DOMAIN s
  PROVE  /\ At(s, I) \in Seq(T)
         /\ Cardinality(I) \in Nat /\ Len(At(s, I)) = Cardinality(I)
         /\ ToSet(At(s, I)) = {s[i] : i \in I}
         /\ I # {} => At(s, I) # <<>> /\ Head(At(s, I)) = s[Min(I)]
<1> DEFINE before == {p \in I \X I : p[1] < p[2]}
<1>1. I \subseteq Nat
  BY LenProperties
<1>2. \A x, y \in I : <<x, y>> \in before <=> x < y
  OBVIOUS
<1>3. StrictOrder(I, before)
  <2> HIDE DEF before
  <2> QED BY <1>1, <1>2 DEF StrictOrder
<1>4. At(s, I) = Along(s, I, before)
  BY DEF At
<1>5. /\ At(s, I) \in Seq(T)
      /\ Cardinality(I) \in Nat /\ Len(At(s, I)) = Cardinality(I)
      /\ ToSet(At(s, I)) = {s[i] : i \in I}
  <2> HIDE DEF before
  <2> QED BY <1>3, <1>4, AlongFacts
<1>6. ASSUME I # {}
      PROVE  At(s, I) # <<>> /\ Head(At(s, I)) = s[Min(I)]
  <2> DEFINE order == Enumeration(I, before)
  <2>1. IsFiniteSet(I)
    <3>1. DOMAIN s = 1 .. Len(s) /\ Len(s) \in Nat
      BY LenProperties
    <3>2. IsFiniteSet(DOMAIN s)
      BY <3>1, FS_Interval
    <3> QED BY <3>2, FS_Subset
  <2>2. /\ order \in [1 .. Cardinality(I) -> I]
        /\ \A x \in I : \E i \in 1 .. Cardinality(I) : order[i] = x
        /\ \A i, j \in 1 .. Cardinality(I) : i < j <=> <<order[i], order[j]>> \in before
    <3> HIDE DEF before
    <3> QED BY <1>3, <2>1, EnumerationFacts
  <2>3. Min(I) \in I /\ \A x \in I : Min(I) <= x
    BY <1>1, <1>6, MinOfNaturals
  <2>4. 1 \in 1 .. Cardinality(I)
    <3> HIDE DEF order, before
    <3> QED BY <1>5, <1>6, <2>2
  <2>5. order[1] = Min(I)
    <3>1. PICK m \in 1 .. Cardinality(I) : order[m] = Min(I)
      <4> HIDE DEF order
      <4> QED BY <2>2, <2>3
    <3>2. order[1] \in I
      <4> HIDE DEF order
      <4> QED BY <2>2, <2>4
    <3>3. ~(1 < m)
      <4> SUFFICES ASSUME 1 < m PROVE FALSE
        OBVIOUS
      <4>1. <<order[1], order[m]>> \in before
        <5> HIDE DEF order, before
        <5> QED BY <2>2, <2>4
      <4>2. order[1] < Min(I)
        <5> HIDE DEF order
        <5> QED BY <1>2, <2>3, <3>1, <3>2, <4>1
      <4>3. Min(I) <= order[1]
        BY <2>3, <3>2
      <4> HIDE DEF order
      <4> QED BY <1>1, <2>3, <3>2, <4>2, <4>3
    <3>4. m = 1
      <4> HIDE DEF order
      <4> QED BY <1>5, <3>1, <3>3
    <3> HIDE DEF order
    <3> QED BY <3>1, <3>4
  <2>6. At(s, I)[1] = s[order[1]]
    <3>1. DOMAIN order = 1 .. Cardinality(I)
      <4> HIDE DEF order
      <4> QED BY <2>2
    <3>2. Along(s, I, before) = [k \in DOMAIN order |-> s[order[k]]]
      BY DEF Along
    <3> HIDE DEF order, before
    <3> QED BY <1>4, <2>4, <3>1, <3>2
  <2>7. Len(At(s, I)) >= 1
    BY <1>5, <2>4
  <2> HIDE DEF order, before
  <2> QED BY <1>5, <2>5, <2>6, <2>7
<1> QED BY <1>5, <1>6

----
(* Appending lists one by one.  What a recursive function of the positions *)
(* does is seen from the first position at which it would not.             *)

\* The elements of a concatenation are those of both lists.
LEMMA ConcatElements ==
  ASSUME NEW T, NEW s \in Seq(T), NEW t \in Seq(T)
  PROVE  s \o t \in Seq(T) /\ ToSet(s \o t) = ToSet(s) \cup ToSet(t)
<1>1. /\ s \o t \in Seq(T) /\ Len(s \o t) = Len(s) + Len(t)
      /\ \A i \in 1 .. Len(s) + Len(t) : (s \o t)[i] = IF i <= Len(s) THEN s[i] ELSE t[i - Len(s)]
      /\ DOMAIN s = 1 .. Len(s) /\ DOMAIN t = 1 .. Len(t) /\ Len(s) \in Nat /\ Len(t) \in Nat
      /\ DOMAIN (s \o t) = 1 .. Len(s) + Len(t)
  BY ConcatProperties
<1> DEFINE u == s \o t
<1> HIDE DEF u
<1>2. /\ \A i \in DOMAIN s : i \in DOMAIN u /\ u[i] = s[i]
      /\ \A i \in DOMAIN t : i + Len(s) \in DOMAIN u /\ u[i + Len(s)] = t[i]
      /\ \A i \in DOMAIN u : \/ i \in DOMAIN s /\ u[i] = s[i]
                             \/ i - Len(s) \in DOMAIN t /\ u[i] = t[i - Len(s)]
  BY <1>1 DEF u
<1>3. ToSet(u) = ToSet(s) \cup ToSet(t)
  BY <1>2 DEF ToSet
<1> QED BY <1>1, <1>3 DEF u

Flattening(ss, f, n) ==
  f = [i \in 1 .. n |-> IF i = 1 THEN ss[i] ELSE f[i - 1] \o ss[i]]

\* There is such a function.
LEMMA FlatteningExists ==
  ASSUME NEW ss, NEW n \in Nat
  PROVE  \E f : Flattening(ss, f, n)
<1> DEFINE missing == {k \in Nat : ~\E f : Flattening(ss, f, k)}
<1>1. SUFFICES ASSUME missing # {} PROVE FALSE
  OBVIOUS
<1>2. PICK k \in missing : \A m \in missing : k <= m
  <2>1. missing \subseteq Nat
    OBVIOUS
  <2> HIDE DEF missing
  <2> QED BY <1>1, <2>1, MinOfNaturals
<1>3. k \in Nat /\ ~\E f : Flattening(ss, f, k)
  OBVIOUS
<1>4. CASE k = 0
  <2>1. Flattening(ss, <<>>, 0)
    BY DEF Flattening
  <2> QED BY <1>3, <1>4, <2>1
<1>5. CASE k # 0
  <2>1. k - 1 \in Nat /\ ~(k <= k - 1)
    BY <1>3, <1>5
  <2>2. PICK f : Flattening(ss, f, k - 1)
    BY <1>2, <2>1
  <2> DEFINE g == [i \in 1 .. k |-> IF i = 1 THEN ss[i] ELSE f[i - 1] \o ss[i]]
  <2>3. \A i \in 1 .. k - 1 : g[i] = f[i]
    <3> TAKE i \in 1 .. k - 1
    <3>1. i \in 1 .. k
      BY <1>3
    <3>2. f[i] = [j \in 1 .. k - 1 |-> IF j = 1 THEN ss[j] ELSE f[j - 1] \o ss[j]][i]
      BY <2>2, Zenon DEF Flattening
    <3>3. f[i] = IF i = 1 THEN ss[i] ELSE f[i - 1] \o ss[i]
      BY <3>2
    <3>4. g[i] = IF i = 1 THEN ss[i] ELSE f[i - 1] \o ss[i]
      BY <3>1
    <3> QED BY <3>3, <3>4, Zenon
  <2>4. \A i \in 1 .. k : i # 1 => g[i - 1] = f[i - 1]
    <3> HIDE DEF g
    <3> QED BY <1>3, <2>3
  <2>5. g = [i \in 1 .. k |-> IF i = 1 THEN ss[i] ELSE g[i - 1] \o ss[i]]
    BY <2>4
  <2> HIDE DEF g
  <2> QED BY <1>3, <2>5 DEF Flattening
<1> QED BY <1>4, <1>5

\* FlattenSeq is the last value of such a function.
LEMMA FlattenBySteps ==
  ASSUME NEW ss, Len(ss) \in Nat, Len(ss) # 0
  PROVE  \E f : Flattening(ss, f, Len(ss)) /\ FlattenSeq(ss) = f[Len(ss)]
BY FlatteningExists DEF FlattenSeq, Flattening

Gathered(ss, n) == UNION {ToSet(ss[i]) : i \in 1 .. n}

\* It collects the elements up to each position.
LEMMA FlatteningFacts ==
  ASSUME NEW T, NEW ss \in Seq(Seq(T)), NEW f, Flattening(ss, f, Len(ss)), NEW n \in 1 .. Len(ss)
  PROVE  f[n] \in Seq(T) /\ ToSet(f[n]) = Gathered(ss, n)
<1> DEFINE Good(k) == f[k] \in Seq(T) /\ ToSet(f[k]) = Gathered(ss, k)
           bad == {k \in 1 .. Len(ss) : ~Good(k)}
<1>0. Len(ss) \in Nat /\ \A i \in 1 .. Len(ss) : ss[i] \in Seq(T)
  OBVIOUS
<1>1. SUFFICES ASSUME bad # {} PROVE FALSE
  OBVIOUS
<1>2. PICK k \in bad : \A m \in bad : k <= m
  <2>1. bad \subseteq Nat
    OBVIOUS
  <2> HIDE DEF bad
  <2> QED BY <1>1, <2>1, MinOfNaturals
<1>3. k \in 1 .. Len(ss) /\ ~Good(k)
  OBVIOUS
<1>4. CASE k = 1
  <2>1. f[1] = ss[1]
    BY <1>0, <1>3, <1>4 DEF Flattening
  <2>2. {ToSet(ss[i]) : i \in 1 .. 1} = {ToSet(ss[1])}
    OBVIOUS
  <2> QED BY <1>0, <1>3, <1>4, <2>1, <2>2 DEF Gathered
<1>5. CASE k # 1
  <2>1. k - 1 \in 1 .. Len(ss) /\ ~(k <= k - 1)
    BY <1>0, <1>3, <1>5
  <2>2. Good(k - 1)
    <3> HIDE DEF Good
    <3> QED BY <1>2, <2>1
  <2>3. f[k] = f[k - 1] \o ss[k]
    BY <1>0, <1>3, <1>5 DEF Flattening
  <2>4. f[k] \in Seq(T) /\ ToSet(f[k]) = ToSet(f[k - 1]) \cup ToSet(ss[k])
    <3>1. f[k - 1] \in Seq(T) /\ ss[k] \in Seq(T)
      BY <1>0, <1>3, <2>2
    <3> HIDE DEF Good, bad
    <3> QED BY <2>3, <3>1, ConcatElements
  <2>5. Gathered(ss, k) = Gathered(ss, k - 1) \cup ToSet(ss[k])
    <3>1. 1 .. k = (1 .. k - 1) \cup {k}
      BY <1>0, <1>3
    <3> HIDE DEF Good, bad
    <3> QED BY <3>1 DEF Gathered
  <2> QED BY <1>3, <2>2, <2>4, <2>5
<1> QED BY <1>4, <1>5

\* FlattenSeq has the elements of the lists it is given.
LEMMA FlattenFacts ==
  ASSUME NEW T, NEW ss \in Seq(Seq(T))
  PROVE  /\ FlattenSeq(ss) \in Seq(T)
         /\ ToSet(FlattenSeq(ss)) = UNION {ToSet(ss[i]) : i \in DOMAIN ss}
<1>0. Len(ss) \in Nat /\ DOMAIN ss = 1 .. Len(ss)
  OBVIOUS
<1>1. CASE Len(ss) = 0
  <2>1. FlattenSeq(ss) = <<>>
    BY <1>1 DEF FlattenSeq
  <2>2. ToSet(<<>>) = {}
    BY DEF ToSet
  <2>3. UNION {ToSet(ss[i]) : i \in DOMAIN ss} = {}
    BY <1>0, <1>1
  <2>4. <<>> \in Seq(T)
    BY EmptySeq
  <2> QED BY <2>1, <2>2, <2>3, <2>4, Zenon
<1>2. CASE Len(ss) # 0
  <2>1. PICK f : Flattening(ss, f, Len(ss)) /\ FlattenSeq(ss) = f[Len(ss)]
    BY <1>0, <1>2, FlattenBySteps
  <2>2. Len(ss) \in 1 .. Len(ss)
    BY <1>0, <1>2
  <2>3. f[Len(ss)] \in Seq(T) /\ ToSet(f[Len(ss)]) = Gathered(ss, Len(ss))
    <3>1. Flattening(ss, f, Len(ss))
      BY <2>1
    <3>2. \A n \in 1 .. Len(ss) : f[n] \in Seq(T) /\ ToSet(f[n]) = Gathered(ss, n)
      <4> TAKE n \in 1 .. Len(ss)
      <4> QED BY <3>1, FlatteningFacts
    <3> QED BY <2>2, <3>2
  <2> QED BY <1>0, <2>1, <2>3, Zenon DEF Gathered
<1> QED BY <1>1, <1>2

\* The same, element by element, for the lists that come of the elements of a list.
LEMMA FlattenMembers ==
  ASSUME NEW T, NEW S, NEW s \in Seq(S), NEW ss \in [DOMAIN s -> Seq(T)]
  PROVE  /\ FlattenSeq(ss) \in Seq(T)
         /\ \A x : x \in ToSet(FlattenSeq(ss)) <=> \E i \in DOMAIN s : x \in ToSet(ss[i])
<1>1. Len(s) \in Nat /\ DOMAIN s = 1 .. Len(s)
  OBVIOUS
<1>2. ss \in Seq(Seq(T)) /\ DOMAIN ss = DOMAIN s
  BY <1>1
<1>3. /\ FlattenSeq(ss) \in Seq(T)
      /\ ToSet(FlattenSeq(ss)) = UNION {ToSet(ss[i]) : i \in DOMAIN ss}
  BY <1>2, FlattenFacts
<1> QED BY <1>2, <1>3

(* Two flattenings of lists of which at most one has an element at each    *)
(* position, and one only: together no more elements than positions.       *)
LEMMA FlattenLengths ==
  ASSUME NEW T, NEW n \in Nat, NEW aa \in [1 .. n -> Seq(T)], NEW bb \in [1 .. n -> Seq(T)],
         \A i \in 1 .. n : Len(aa[i]) + Len(bb[i]) <= 1
  PROVE  Len(FlattenSeq(aa)) + Len(FlattenSeq(bb)) <= n
<1>1. aa \in Seq(Seq(T)) /\ Len(aa) = n /\ bb \in Seq(Seq(T)) /\ Len(bb) = n
  OBVIOUS
<1>2. CASE n = 0
  <2>1. FlattenSeq(aa) = aa /\ FlattenSeq(bb) = bb
    BY <1>1, <1>2 DEF FlattenSeq
  <2> QED BY <1>1, <1>2, <2>1
<1>3. CASE n # 0
  <2>1. PICK f : Flattening(aa, f, n) /\ FlattenSeq(aa) = f[n]
    BY <1>1, <1>3, FlattenBySteps
  <2>2. PICK g : Flattening(bb, g, n) /\ FlattenSeq(bb) = g[n]
    BY <1>1, <1>3, FlattenBySteps
  <2>3. \A k \in 1 .. n : f[k] \in Seq(T) /\ g[k] \in Seq(T)
    <3> TAKE k \in 1 .. n
    <3>1. Flattening(aa, f, Len(aa)) /\ k \in 1 .. Len(aa)
      BY <1>1, <2>1
    <3>2. f[k] \in Seq(T)
      BY <1>1, <3>1, FlatteningFacts
    <3>3. Flattening(bb, g, Len(bb)) /\ k \in 1 .. Len(bb)
      BY <1>1, <2>2
    <3>4. g[k] \in Seq(T)
      BY <1>1, <3>3, FlatteningFacts
    <3> QED BY <3>2, <3>4
  <2> DEFINE Short(k) == Len(f[k]) + Len(g[k]) <= k
             long == {k \in 1 .. n : ~Short(k)}
  <2>4. SUFFICES ASSUME long # {} PROVE FALSE
    <3>1. n \in 1 .. n
      BY <1>3
    <3>2. Short(n)
      BY <2>4, <3>1
    <3> QED BY <2>1, <2>2, <3>2
  <2>5. PICK k \in long : \A m \in long : k <= m
    <3>1. long \subseteq Nat
      <4> HIDE DEF Short
      <4> QED OBVIOUS
    <3> HIDE DEF long
    <3> QED BY <2>4, <3>1, MinOfNaturals
  <2>6. k \in 1 .. n /\ ~Short(k)
    OBVIOUS
  <2>7. CASE k = 1
    <3>1. f[1] = aa[1] /\ g[1] = bb[1]
      BY <2>1, <2>2, <2>6, <2>7 DEF Flattening
    <3> QED BY <2>6, <2>7, <3>1
  <2>8. CASE k # 1
    <3>1. k - 1 \in 1 .. n /\ ~(k <= k - 1)
      BY <2>6, <2>8
    <3>2. Short(k - 1)
      <4> HIDE DEF Short
      <4> QED BY <2>5, <3>1
    <3>3. f[k] = f[k - 1] \o aa[k] /\ g[k] = g[k - 1] \o bb[k]
      BY <2>1, <2>2, <2>6, <2>8 DEF Flattening
    <3>4. Len(f[k]) = Len(f[k - 1]) + Len(aa[k]) /\ Len(g[k]) = Len(g[k - 1]) + Len(bb[k])
      BY <2>3, <2>6, <3>1, <3>3
    <3>5. /\ Len(f[k - 1]) \in Nat /\ Len(aa[k]) \in Nat /\ Len(g[k - 1]) \in Nat /\ Len(bb[k]) \in Nat
          /\ Len(aa[k]) + Len(bb[k]) <= 1
      BY <2>3, <2>6, <3>1
    <3>6. Len(f[k]) + Len(g[k]) <= k
      <4>1. Len(f[k - 1]) + Len(g[k - 1]) <= k - 1
        BY <3>2
      <4>2. k \in Nat
        BY <2>6
      <4> DEFINE f0 == Len(f[k - 1])
                 g0 == Len(g[k - 1])
                 a1 == Len(aa[k])
                 b1 == Len(bb[k])
      <4>3. /\ f0 \in Nat /\ g0 \in Nat /\ a1 \in Nat /\ b1 \in Nat
            /\ f0 + g0 <= k - 1 /\ a1 + b1 <= 1
        BY <3>5, <4>1
      <4>4. Len(f[k]) = f0 + a1 /\ Len(g[k]) = g0 + b1
        BY <3>4
      <4> HIDE DEF f0, g0, a1, b1
      <4>5. (f0 + a1) + (g0 + b1) <= k
        BY <4>2, <4>3
      <4> QED BY <4>4, <4>5
    <3> QED BY <2>6, <3>6
  <2> QED BY <2>7, <2>8
<1> QED BY <1>2, <1>3

----
\* less puts the positions I in groups of alike, one group behind the other.
WeakOrder(I, less) ==
  /\ \A x, y \in I : <<x, y>> \in less => <<y, x>> \notin less
  /\ \A x, y, z \in I : <<x, z>> \in less => <<x, y>> \in less \/ <<y, z>> \in less

\* Of the positions that are alike, the first one stays the first.
Stably(I, less) ==
  {p \in I \X I : <<p[1], p[2]>> \in less \/ (p[1] < p[2] /\ <<p[2], p[1]>> \notin less)}

\* That is a strict order.
LEMMA StableOrder ==
  ASSUME NEW T, NEW s \in Seq(T), NEW less, WeakOrder(DOMAIN s, less)
  PROVE  StrictOrder(DOMAIN s, Stably(DOMAIN s, less))
<1> DEFINE before == Stably(DOMAIN s, less)
<1>1. Len(s) \in Nat /\ DOMAIN s = 1 .. Len(s)
  OBVIOUS
<1>2. \A x, y \in DOMAIN s :
        <<x, y>> \in before <=> <<x, y>> \in less \/ (x < y /\ <<y, x>> \notin less)
  BY DEF Stably
<1> HIDE DEF before
<1>3. StrictOrder(DOMAIN s, before)
  <2>1. \A x \in DOMAIN s : <<x, x>> \notin before
    BY <1>1, <1>2 DEF WeakOrder
  <2>2. \A x, y, z \in DOMAIN s : <<x, y>> \in before /\ <<y, z>> \in before => <<x, z>> \in before
    <3> TAKE x, y, z \in DOMAIN s
    <3>1. x \in Nat /\ y \in Nat /\ z \in Nat
      BY <1>1
    <3>2. x < y /\ y < z => x < z
      BY <3>1
    <3> QED BY <1>2, <3>2 DEF WeakOrder
  <2>3. \A x, y \in DOMAIN s : x = y \/ <<x, y>> \in before \/ <<y, x>> \in before
    <3> TAKE x, y \in DOMAIN s
    <3>1. x = y \/ x < y \/ y < x
      BY <1>1
    <3> QED BY <1>2, <3>1
  <2> QED BY <2>1, <2>2, <2>3 DEF StrictOrder
<1> QED BY <1>3 DEF before

(* Sorting moves the elements of a list and loses or repeats none.         *)
LEMMA ArrangedFacts ==
  ASSUME NEW T, NEW s \in Seq(T), NEW less, WeakOrder(DOMAIN s, less)
  PROVE  /\ Along(s, DOMAIN s, Stably(DOMAIN s, less)) \in Seq(T)
         /\ Len(Along(s, DOMAIN s, Stably(DOMAIN s, less))) = Len(s)
         /\ ToSet(Along(s, DOMAIN s, Stably(DOMAIN s, less))) = ToSet(s)
<1> DEFINE before == Stably(DOMAIN s, less)
<1>1. Len(s) \in Nat /\ DOMAIN s = 1 .. Len(s)
  OBVIOUS
<1>2. StrictOrder(DOMAIN s, before)
  BY StableOrder
<1> HIDE DEF before
<1>3. /\ Along(s, DOMAIN s, before) \in Seq(T)
      /\ Len(Along(s, DOMAIN s, before)) = Cardinality(DOMAIN s)
      /\ ToSet(Along(s, DOMAIN s, before)) = {s[i] : i \in DOMAIN s}
  <2> DEFINE I == DOMAIN s
  <2>1. I \in SUBSET DOMAIN s /\ StrictOrder(I, before)
    BY <1>2
  <2> HIDE DEF I
  <2>2. /\ Along(s, I, before) \in Seq(T)
        /\ Len(Along(s, I, before)) = Cardinality(I)
        /\ ToSet(Along(s, I, before)) = {s[i] : i \in I}
    BY <2>1, AlongFacts
  <2> QED BY <2>2 DEF I
<1>4. Cardinality(DOMAIN s) = Len(s)
  BY <1>1, FS_Interval
<1> QED BY <1>3, <1>4 DEF ToSet, before

----
(* How often an element comes: where each element of a list that has been  *)
(* selected, sorted or put together comes from.                            *)

(* A set has as many elements as the one a bijection takes it to.          *)
LEMMA CountAcross ==
  ASSUME NEW S, NEW T, NEW f \in Bijection(S, T), IsFiniteSet(T),
         NEW A \in SUBSET S, NEW B \in SUBSET T,
         \A x \in S : x \in A <=> f[x] \in B
  PROVE  IsFiniteSet(A) /\ IsFiniteSet(B) /\ Cardinality(A) = Cardinality(B)
<1>1. /\ f \in [S -> T]
      /\ \A x, y \in S : f[x] = f[y] => x = y
      /\ \A t \in T : \E x \in S : f[x] = t
  BY Fun_BijectionProperties
<1>2. PICK g : g = [x \in A |-> f[x]]
  OBVIOUS
<1>3. g \in [A -> B] /\ \A x, y \in A : g[x] = g[y] => x = y
  BY <1>1, <1>2
<1>4. \A t \in B : \E x \in A : g[x] = t
  BY <1>1, <1>2
<1>5. g \in Bijection(A, B)
  BY <1>3, <1>4, Fun_IsBij
<1>6. IsFiniteSet(B)
  BY FS_Subset
<1>7. ExistsBijection(B, A)
  <2>1. ExistsBijection(A, B)
    BY <1>5 DEF ExistsBijection
  <2> QED BY <2>1, Fun_ExistsBijSymmetric
<1> QED BY <1>6, <1>7, FS_Bijection

\* Where the elements that are taken along come from.
LEMMA AlongPositions ==
  ASSUME NEW T, NEW s \in Seq(T), NEW I \in SUBSET DOMAIN s, NEW before, StrictOrder(I, before)
  PROVE  /\ IsFiniteSet(I)
         /\ \E f \in Bijection(DOMAIN Along(s, I, before), I) :
              \A k \in DOMAIN Along(s, I, before) : Along(s, I, before)[k] = s[f[k]]
<1>1. IsFiniteSet(I)
  <2>1. DOMAIN s = 1 .. Len(s) /\ Len(s) \in Nat
    BY LenProperties
  <2>2. IsFiniteSet(DOMAIN s)
    BY <2>1, FS_Interval
  <2> QED BY <2>2, FS_Subset
<1>2. PICK order : order = Enumeration(I, before)
  OBVIOUS
<1>3. PICK size : size = Cardinality(I)
  OBVIOUS
<1>4. /\ size \in Nat
      /\ order \in [1 .. size -> I]
      /\ \A x \in I : \E i \in 1 .. size : order[i] = x
      /\ \A i, j \in 1 .. size : i < j <=> <<order[i], order[j]>> \in before
  BY <1>1, <1>2, <1>3, EnumerationFacts
<1>5. \A i, j \in 1 .. size : order[i] = order[j] => i = j
  <2> TAKE i, j \in 1 .. size
  <2>1. order[i] = order[j] => ~(i < j) /\ ~(j < i)
    BY <1>4 DEF StrictOrder
  <2> QED BY <1>4, <2>1
<1>6. order \in Bijection(1 .. size, I)
  BY <1>4, <1>5, Fun_IsBij
<1>7. Along(s, I, before) = [k \in 1 .. size |-> s[order[k]]]
  BY <1>2, <1>4 DEF Along
<1>8. DOMAIN Along(s, I, before) = 1 .. size /\ \A k \in 1 .. size : Along(s, I, before)[k] = s[order[k]]
  BY <1>7
<1> QED BY <1>1, <1>6, <1>8

\* The order of the positions puts them in a line.
LEMMA PositionOrder ==
  ASSUME NEW I, I \subseteq Nat, NEW before, before = {p \in I \X I : p[1] < p[2]}
  PROVE  StrictOrder(I, before)
<1>1. \A x, y \in I : <<x, y>> \in before <=> x < y
  OBVIOUS
<1>2. \A x, y, z \in I : x < y /\ y < z => x < z
  OBVIOUS
<1>3. \A x, y \in I : ~(x < x) /\ (x = y \/ x < y \/ y < x)
  OBVIOUS
<1> QED BY <1>1, <1>2, <1>3 DEF StrictOrder

LEMMA AtPositions ==
  ASSUME NEW T, NEW s \in Seq(T), NEW I \in SUBSET DOMAIN s
  PROVE  /\ IsFiniteSet(I)
         /\ \E f \in Bijection(DOMAIN At(s, I), I) :
              \A k \in DOMAIN At(s, I) : At(s, I)[k] = s[f[k]]
<1>1. PICK before : before = {p \in I \X I : p[1] < p[2]}
  OBVIOUS
<1>2. At(s, I) = Along(s, I, before)
  BY <1>1 DEF At
<1>3. I \subseteq Nat
  OBVIOUS
<1>4. StrictOrder(I, before)
  BY <1>1, <1>3, PositionOrder
<1> QED BY <1>2, <1>4, AlongPositions

\* Sorting: every element comes from one position.
LEMMA ArrangedPositions ==
  ASSUME NEW T, NEW s \in Seq(T), NEW less, WeakOrder(DOMAIN s, less)
  PROVE  LET sorted == Along(s, DOMAIN s, Stably(DOMAIN s, less))
         IN  /\ IsFiniteSet(DOMAIN s)
             /\ \E f \in Bijection(DOMAIN sorted, DOMAIN s) :
                  \A k \in DOMAIN sorted : sorted[k] = s[f[k]]
<1>1. PICK I : I = DOMAIN s
  OBVIOUS
<1>2. PICK before : before = Stably(I, less)
  OBVIOUS
<1>3. I \in SUBSET DOMAIN s /\ StrictOrder(I, before)
  BY <1>1, <1>2, StableOrder
<1>4. /\ IsFiniteSet(I)
      /\ \E f \in Bijection(DOMAIN Along(s, I, before), I) :
           \A k \in DOMAIN Along(s, I, before) : Along(s, I, before)[k] = s[f[k]]
  BY <1>3, AlongPositions
<1> QED BY <1>1, <1>2, <1>4

\* The positions in the first n lists.
Spots(ss, n) == UNION {{<<i, j>> : j \in DOMAIN ss[i]} : i \in 1 .. n}

\* The elements of u are those at these positions, one by one, as g has them.
Traced(ss, n, u, g) ==
  /\ g \in Bijection(1 .. Len(u), Spots(ss, n))
  /\ \A k \in 1 .. Len(u) : u[k] = ss[g[k][1]][g[k][2]]

\* Of no list there is nothing.
LEMMA NothingTraced ==
  ASSUME NEW ss
  PROVE  \E g : Traced(ss, 0, <<>>, g)
<1>1. PICK g : g = [i \in {} |-> 0]
  OBVIOUS
<1>2. g \in Bijection({}, {})
  BY <1>1, Fun_IsBij
<1>3. 1 .. Len(<<>>) = {} /\ Spots(ss, 0) = {}
  BY DEF Spots
<1> QED BY <1>2, <1>3 DEF Traced

\* One more list appended: its positions come behind the others.
LEMMA AppendPositions ==
  ASSUME NEW T, NEW ss \in Seq(Seq(T)), NEW n \in 1 .. Len(ss), NEW u \in Seq(T),
         NEW g, Traced(ss, n - 1, u, g)
  PROVE  \E h : Traced(ss, n, u \o ss[n], h)
<1>0. ss[n] \in Seq(T) /\ n \in Nat /\ Len(u) \in Nat
  OBVIOUS
<1>1. PICK m \in Nat : m = Len(ss[n]) /\ DOMAIN ss[n] = 1 .. m
  BY <1>0
<1>2. PICK l \in Nat : l = Len(u)
  OBVIOUS
<1>3. PICK v : v = u \o ss[n]
  OBVIOUS
<1>4. /\ Len(v) = l + m
      /\ \A k \in 1 .. l + m : v[k] = IF k <= l THEN u[k] ELSE ss[n][k - l]
  BY <1>0, <1>1, <1>2, <1>3, ConcatProperties
<1>5. \A q : q \in Spots(ss, n) <=> q \in Spots(ss, n - 1) \/ \E j \in 1 .. m : q = <<n, j>>
  <2>1. 1 .. n = (1 .. n - 1) \cup {n}
    BY <1>0
  <2> QED BY <1>1, <2>1 DEF Spots
<1>6. \A q \in Spots(ss, n - 1) : \E i \in 1 .. n - 1 : \E j : q = <<i, j>>
  BY DEF Spots
<1>7. \A j \in 1 .. m : <<n, j>> \notin Spots(ss, n - 1)
  BY <1>0, <1>6
<1>8. /\ g \in [1 .. l -> Spots(ss, n - 1)]
      /\ \A x, y \in 1 .. l : g[x] = g[y] => x = y
      /\ \A q \in Spots(ss, n - 1) : \E x \in 1 .. l : g[x] = q
  BY <1>2, Fun_BijectionProperties DEF Traced
<1>9. PICK h : h = [k \in 1 .. l + m |-> IF k <= l THEN g[k] ELSE <<n, k - l>>]
  OBVIOUS
<1>10. \A k \in 1 .. l + m : \/ k \in 1 .. l /\ k <= l /\ h[k] = g[k]
                             \/ k - l \in 1 .. m /\ ~(k <= l) /\ h[k] = <<n, k - l>>
  BY <1>9
<1>11. h \in [1 .. l + m -> Spots(ss, n)]
  <2>1. \A k \in 1 .. l + m : h[k] \in Spots(ss, n)
    BY <1>5, <1>8, <1>10
  <2> QED BY <1>9, <2>1
<1>12. \A x, y \in 1 .. l + m : h[x] = h[y] => x = y
  <2> SUFFICES ASSUME NEW x \in 1 .. l + m, NEW y \in 1 .. l + m, h[x] = h[y] PROVE x = y
    OBVIOUS
  <2>1. CASE x <= l /\ y <= l
    BY <1>8, <1>10, <2>1
  <2>2. CASE x <= l /\ ~(y <= l)
    <3>1. h[x] \in Spots(ss, n - 1)
      BY <1>8, <1>10, <2>2
    <3>2. h[y] = <<n, y - l>> /\ y - l \in 1 .. m
      BY <1>10, <2>2
    <3> QED BY <1>7, <3>1, <3>2
  <2>3. CASE ~(x <= l) /\ y <= l
    <3>1. h[y] \in Spots(ss, n - 1)
      BY <1>8, <1>10, <2>3
    <3>2. h[x] = <<n, x - l>> /\ x - l \in 1 .. m
      BY <1>10, <2>3
    <3> QED BY <1>7, <3>1, <3>2
  <2>4. CASE ~(x <= l) /\ ~(y <= l)
    BY <1>10, <2>4
  <2> QED BY <2>1, <2>2, <2>3, <2>4
<1>13. \A q \in Spots(ss, n) : \E x \in 1 .. l + m : h[x] = q
  <2> TAKE q \in Spots(ss, n)
  <2>1. CASE q \in Spots(ss, n - 1)
    <3>1. PICK x \in 1 .. l : g[x] = q
      BY <1>8, <2>1
    <3>2. x \in 1 .. l + m /\ h[x] = g[x]
      BY <1>9
    <3> QED BY <3>1, <3>2
  <2>2. ASSUME NEW j \in 1 .. m, q = <<n, j>> PROVE \E x \in 1 .. l + m : h[x] = q
    <3>1. l + j \in 1 .. l + m /\ ~(l + j <= l) /\ (l + j) - l = j
      OBVIOUS
    <3>2. h[l + j] = <<n, j>>
      BY <1>9, <3>1
    <3> QED BY <2>2, <3>1, <3>2
  <2> QED BY <1>5, <2>1, <2>2
<1>14. h \in Bijection(1 .. l + m, Spots(ss, n))
  BY <1>11, <1>12, <1>13, Fun_IsBij
<1>15. \A k \in 1 .. l + m : v[k] = ss[h[k][1]][h[k][2]]
  <2> TAKE k \in 1 .. l + m
  <2>1. CASE k <= l
    BY <1>2, <1>4, <1>10, <2>1 DEF Traced
  <2>2. CASE ~(k <= l)
    <3>1. h[k] = <<n, k - l>> /\ v[k] = ss[n][k - l]
      BY <1>4, <1>10, <2>2
    <3> QED BY <3>1
  <2> QED BY <2>1, <2>2
<1> QED BY <1>3, <1>4, <1>14, <1>15 DEF Traced

\* Each step of the flattening has each element of the lists so far at one position.
LEMMA FlatteningPositions ==
  ASSUME NEW T, NEW ss \in Seq(Seq(T)), NEW f, Flattening(ss, f, Len(ss)), NEW n \in 1 .. Len(ss)
  PROVE  \E g : Traced(ss, n, f[n], g)
<1> DEFINE Good(k) == \E g : Traced(ss, k, f[k], g)
           bad == {k \in 1 .. Len(ss) : ~Good(k)}
<1>0. Len(ss) \in Nat /\ \A i \in 1 .. Len(ss) : ss[i] \in Seq(T)
  OBVIOUS
<1>1. SUFFICES ASSUME bad # {} PROVE FALSE
  OBVIOUS
<1>2. PICK k \in bad : \A m \in bad : k <= m
  <2>1. bad \subseteq Nat
    OBVIOUS
  <2> HIDE DEF bad
  <2> QED BY <1>1, <2>1, MinOfNaturals
<1>3. k \in 1 .. Len(ss) /\ ~Good(k)
  OBVIOUS
<1>4. CASE k = 1
  <2>1. f[1] = ss[1]
    BY <1>0, <1>3, <1>4 DEF Flattening
  <2>2. ss[1] = <<>> \o ss[1] /\ <<>> \in Seq(T) /\ Len(<<>>) = 0
    BY <1>0, <1>3, <1>4
  <2>3. PICK u : u = <<>>
    OBVIOUS
  <2>4. k - 1 = 0
    BY <1>4
  <2>5. u \in Seq(T) /\ \E g : Traced(ss, k - 1, u, g)
    BY <2>2, <2>3, <2>4, NothingTraced
  <2>6. f[k] = u \o ss[k]
    BY <1>4, <2>1, <2>2, <2>3
  <2>7. \E h : Traced(ss, k, u \o ss[k], h)
    <3> HIDE DEF Good, bad
    <3> QED BY <1>3, <2>5, AppendPositions
  <2> QED BY <1>3, <2>6, <2>7
<1>5. CASE k # 1
  <2>1. k - 1 \in 1 .. Len(ss) /\ ~(k <= k - 1)
    BY <1>0, <1>3, <1>5
  <2>2. Good(k - 1)
    <3> HIDE DEF Good
    <3> QED BY <1>2, <2>1
  <2>3. f[k] = f[k - 1] \o ss[k]
    BY <1>0, <1>3, <1>5 DEF Flattening
  <2>4. f[k - 1] \in Seq(T)
    <3> HIDE DEF Good, bad
    <3> QED BY <2>1, FlatteningFacts
  <2>5. PICK u \in Seq(T) : u = f[k - 1]
    BY <2>4
  <2> HIDE DEF bad
  <2>6. PICK g : Traced(ss, k - 1, u, g)
    BY <2>2, <2>5
  <2>7. \E h : Traced(ss, k, u \o ss[k], h)
    <3> HIDE DEF Good
    <3> QED BY <1>3, <2>6, AppendPositions
  <2> QED BY <1>3, <2>3, <2>5, <2>7
<1> QED BY <1>4, <1>5

(* Appending lists one by one puts each element of each of them at one     *)
(* position.                                                               *)
LEMMA FlattenPositions ==
  ASSUME NEW T, NEW ss \in Seq(Seq(T))
  PROVE  \E g : Traced(ss, Len(ss), FlattenSeq(ss), g)
<1>0. Len(ss) \in Nat /\ FlattenSeq(ss) \in Seq(T)
  BY FlattenFacts
<1>1. CASE Len(ss) = 0
  <2>1. FlattenSeq(ss) = ss
    BY <1>1 DEF FlattenSeq
  <2>2. ss = <<>>
    BY <1>1
  <2> QED BY <1>1, <2>1, <2>2, NothingTraced
<1>2. CASE Len(ss) # 0
  <2>1. PICK f : Flattening(ss, f, Len(ss)) /\ FlattenSeq(ss) = f[Len(ss)]
    BY <1>0, <1>2, FlattenBySteps
  <2>2. Len(ss) \in 1 .. Len(ss)
    BY <1>0, <1>2
  <2>3. \A n \in 1 .. Len(ss) : \E g : Traced(ss, n, f[n], g)
    BY <2>1, FlatteningPositions
  <2>4. \E g : Traced(ss, Len(ss), f[Len(ss)], g)
    BY <2>2, <2>3
  <2> QED BY <2>1, <2>4, Zenon
<1> QED BY <1>1, <1>2
====

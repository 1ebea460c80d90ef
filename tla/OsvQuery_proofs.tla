---- MODULE OsvQuery_proofs ----
(***************************************************************************)
(* Proofs about OsvQuery for any package lists and databases, any batch    *)
(* size and any promise of the fetch that FetchPromise makes: the types,   *)
(* AskedOnce, FindingsAreComplete and CutShortConsistently.  They hold of  *)
(* OsvClient too, each step of which is one of OsvQuery or a stutter for   *)
(* any concurrency: the pool keeps its promise by OsvFetch_proofs.         *)
(***************************************************************************)
EXTENDS OsvClient, Lists_proofs

----
(* What Query and RunOSV compute.                                          *)

LEMMA BatchSizeFacts == batchSize \in Nat \ {0}
BY BatchSizeAssumption DEF batchSize

\* Each purl that is not empty, once.
LEMMA DedupeFacts ==
  ASSUME NEW in \in Seq(Nat)
  PROVE  /\ dedupeNonEmpty(in) \in Seq(Nat)
         /\ ToSet(dedupeNonEmpty(in)) = ToSet(in) \ {0}
         /\ \A i, j \in DOMAIN dedupeNonEmpty(in) : dedupeNonEmpty(in)[i] = dedupeNonEmpty(in)[j] => i = j
<1>1. PICK I : I = {i \in DOMAIN in : in[i] # 0 /\ \A j \in 1 .. i - 1 : in[j] # in[i]}
  OBVIOUS
<1>2. PICK u : u = At(in, I)
  OBVIOUS
<1>3. dedupeNonEmpty(in) = u
  BY <1>1, <1>2 DEF dedupeNonEmpty
<1>4. I \in SUBSET DOMAIN in
  BY <1>1
<1>5. u \in Seq(Nat) /\ ToSet(u) = {in[i] : i \in I}
  BY <1>2, <1>4, AtFacts
<1>6. PICK f \in Bijection(DOMAIN u, I) : \A k \in DOMAIN u : u[k] = in[f[k]]
  BY <1>2, <1>4, AtPositions
<1>7. \A x \in ToSet(in) \ {0} : \E i \in I : in[i] = x
  <2> TAKE x \in ToSet(in) \ {0}
  <2>1. PICK P : P = {i \in DOMAIN in : in[i] = x}
    OBVIOUS
  <2>2. P \subseteq Nat /\ P # {}
    BY <2>1 DEF ToSet
  <2>3. Min(P) \in P /\ \A n \in P : Min(P) <= n
    BY <2>2, MinOfNaturals
  <2>4. PICK m \in P : \A n \in P : m <= n
    BY <2>3
  <2>5. m \in Nat /\ m \in DOMAIN in /\ in[m] = x
    BY <2>1, <2>4
  <2>6. \A j \in 1 .. m - 1 : in[j] # in[m]
    <3> TAKE j \in 1 .. m - 1
    <3>1. j \in DOMAIN in /\ ~(m <= j)
      BY <2>5
    <3> QED BY <2>1, <2>4, <2>5, <3>1
  <2>7. m \in I
    BY <1>1, <2>5, <2>6
  <2> QED BY <2>5, <2>7
<1>8. ToSet(u) = ToSet(in) \ {0}
  <2>1. \A i \in I : in[i] \in ToSet(in) \ {0}
    BY <1>1 DEF ToSet
  <2> QED BY <1>5, <1>7, <2>1
<1>9. \A i, j \in DOMAIN u : u[i] = u[j] => i = j
  <2> SUFFICES ASSUME NEW i \in DOMAIN u, NEW j \in DOMAIN u, u[i] = u[j] PROVE i = j
    OBVIOUS
  <2>1. f[i] \in I /\ f[j] \in I /\ (f[i] = f[j] => i = j)
    BY <1>6, Fun_BijectionProperties
  <2>2. in[f[i]] = in[f[j]]
    BY <1>6
  <2>3. PICK m, n \in Nat : m = f[i] /\ n = f[j] /\ m >= 1 /\ n >= 1
    BY <1>4, <2>1
  <2>4. m \in I /\ n \in I /\ in[m] = in[n]
    BY <2>1, <2>2, <2>3
  <2>5. ~(m < n)
    <3> SUFFICES ASSUME m < n PROVE FALSE
      OBVIOUS
    <3>1. m \in 1 .. n - 1
      BY <2>3
    <3> QED BY <1>1, <2>4, <3>1
  <2>6. ~(n < m)
    <3> SUFFICES ASSUME n < m PROVE FALSE
      OBVIOUS
    <3>1. n \in 1 .. m - 1
      BY <2>3
    <3> QED BY <1>1, <2>4, <3>1
  <2> QED BY <2>1, <2>3, <2>5, <2>6
<1> QED BY <1>3, <1>5, <1>8, <1>9

\* The order of numbers, where a slice is sorted by it.
LEMMA NumbersInOrder ==
  ASSUME NEW S, S \subseteq Nat, NEW before, before = {p \in S \X S : p[1] < p[2]}
  PROVE  /\ StrictOrder(S, before)
         /\ \A m, n \in S : <<m, n>> \in before <=> m < n
<1>1. \A m, n \in S : <<m, n>> \in before <=> m < n
  OBVIOUS
<1> QED BY <1>1, PositionOrder

\* The IDs of result are those of ids whose records came back, each as often as there.
Keeps(result, ids, fetched) ==
  LET kept == {i \in DOMAIN ids : ids[i] \in fetched}
  IN  /\ result \in Seq(Nat) /\ ToSet(result) = ToSet(ids) \cap fetched
      /\ IsFiniteSet(kept)
      /\ \E f \in Bijection(DOMAIN result, kept) : \A k \in DOMAIN result : result[k] = ids[f[k]]

\* So is what Query answers for a purl.
LEMMA ResultForFacts ==
  ASSUME NEW p, idsByPurl[p] \in Seq(Nat), NEW fetched
  PROVE  Keeps(ResultFor(p, fetched), idsByPurl[p], fetched)
<1>1. PICK ids \in Seq(Nat) : ids = idsByPurl[p]
  OBVIOUS
<1>2. PICK kept : kept = {i \in DOMAIN ids : ids[i] \in fetched}
  OBVIOUS
<1>3. PICK chosen : chosen = At(ids, kept)
  OBVIOUS
<1>4. kept \in SUBSET DOMAIN ids
  BY <1>2
<1>5. chosen \in Seq(Nat) /\ ToSet(chosen) = {ids[i] : i \in kept}
  BY <1>3, <1>4, AtFacts
<1>6. IsFiniteSet(kept) /\ \E f \in Bijection(DOMAIN chosen, kept) : \A k \in DOMAIN chosen : chosen[k] = ids[f[k]]
  BY <1>3, <1>4, AtPositions
<1>7. PICK less : less = {q \in (DOMAIN chosen) \X (DOMAIN chosen) : chosen[q[1]] < chosen[q[2]]}
  OBVIOUS
<1>8. \A x, y \in DOMAIN chosen : (<<x, y>> \in less <=> chosen[x] < chosen[y]) /\ chosen[x] \in Nat
  BY <1>5, <1>7
<1>9. WeakOrder(DOMAIN chosen, less)
  <2>1. \A x, y, z \in DOMAIN chosen : <<x, z>> \in less => <<x, y>> \in less \/ <<y, z>> \in less
    <3> TAKE x, y, z \in DOMAIN chosen
    <3>1. PICK i, j, k \in Nat : i = chosen[x] /\ j = chosen[y] /\ k = chosen[z]
      BY <1>8
    <3>2. i < k => i < j \/ j < k
      OBVIOUS
    <3> QED BY <1>8, <3>1, <3>2
  <2>2. \A x, y \in DOMAIN chosen : <<x, y>> \in less => <<y, x>> \notin less
    BY <1>8
  <2> QED BY <2>1, <2>2 DEF WeakOrder
<1>10. PICK result : result = Along(chosen, DOMAIN chosen, Stably(DOMAIN chosen, less))
  OBVIOUS
<1>11. ResultFor(p, fetched) = result
  <2>1. Stably(DOMAIN chosen, less) =
          {q \in (DOMAIN chosen) \X (DOMAIN chosen) :
             chosen[q[1]] < chosen[q[2]] \/ (q[1] < q[2] /\ ~(chosen[q[2]] < chosen[q[1]]))}
    BY <1>8 DEF Stably
  <2>2. ResultFor(p, fetched) = Arranged(chosen, <)
    BY <1>1, <1>2, <1>3 DEF ResultFor, Select
  <2> QED BY <1>10, <2>1, <2>2 DEF Arranged
<1>12. result \in Seq(Nat) /\ ToSet(result) = ToSet(chosen)
  BY <1>5, <1>9, <1>10, ArrangedFacts
<1>13. PICK f \in Bijection(DOMAIN chosen, kept) : \A k \in DOMAIN chosen : chosen[k] = ids[f[k]]
  BY <1>6
<1>14. PICK g \in Bijection(DOMAIN result, DOMAIN chosen) : \A k \in DOMAIN result : result[k] = chosen[g[k]]
  BY <1>5, <1>9, <1>10, ArrangedPositions
<1>15. PICK h : h = [k \in DOMAIN result |-> f[g[k]]]
  OBVIOUS
<1>16. h \in Bijection(DOMAIN result, kept)
  BY <1>13, <1>14, <1>15, Fun_BijTransitive
<1>17. \A k \in DOMAIN result : result[k] = ids[h[k]]
  <2> TAKE k \in DOMAIN result
  <2>1. g[k] \in DOMAIN chosen
    BY <1>14, Fun_BijectionProperties
  <2> QED BY <1>13, <1>14, <1>15, <2>1
<1>18. ToSet(result) = ToSet(ids) \cap fetched
  BY <1>2, <1>5, <1>12 DEF ToSet
<1>19. Keeps(result, ids, fetched)
  BY <1>2, <1>6, <1>12, <1>16, <1>17, <1>18 DEF Keeps
<1> QED BY <1>1, <1>11, <1>19

FindingType == [cve : Nat, purl : Nat, ref : Nat]

\* sortFindings moves the findings and loses or repeats none.
LEMMA SortFacts ==
  ASSUME NEW found \in Seq(FindingType)
  PROVE  /\ sortFindings(found) \in Seq(FindingType) /\ ToSet(sortFindings(found)) = ToSet(found)
         /\ \E f \in Bijection(DOMAIN sortFindings(found), DOMAIN found) :
              \A k \in DOMAIN sortFindings(found) : sortFindings(found)[k] = found[f[k]]
<1>1. PICK less : less = {q \in (DOMAIN found) \X (DOMAIN found) : FindingLess(found[q[1]], found[q[2]])}
  OBVIOUS
<1>2. \A x, y \in DOMAIN found : <<x, y>> \in less <=> FindingLess(found[x], found[y])
  BY <1>1
<1>3. \A x \in DOMAIN found : found[x] \in FindingType
  OBVIOUS
<1>4. \A f, g \in FindingType : FindingLess(f, g) => ~FindingLess(g, f)
  BY DEF FindingLess, FindingType
<1>5. \A f, g, h \in FindingType : FindingLess(f, h) => FindingLess(f, g) \/ FindingLess(g, h)
  BY DEF FindingLess, FindingType
<1>6. WeakOrder(DOMAIN found, less)
  BY <1>2, <1>3, <1>4, <1>5 DEF WeakOrder
<1>7. sortFindings(found) = Along(found, DOMAIN found, Stably(DOMAIN found, less))
  <2>1. Stably(DOMAIN found, less) =
          {q \in (DOMAIN found) \X (DOMAIN found) :
             \/ FindingLess(found[q[1]], found[q[2]])
             \/ q[1] < q[2] /\ ~FindingLess(found[q[2]], found[q[1]])}
    BY <1>2 DEF Stably
  <2> QED BY <2>1 DEF sortFindings, Arranged
<1> QED BY <1>6, <1>7, ArrangedFacts, ArrangedPositions

\* What Query has been told of the purls is lists of IDs.
Told ==
  \A p \in DOMAIN idsByPurl :
    p \in Nat /\ idsByPurl[p] \in Seq(Nat) /\ \A id \in ToSet(idsByPurl[p]) : CVE(id) \in Nat

Finding(p, id) == [cve |-> CVE(id), purl |-> p, ref |-> id]

\* A package's findings, one for each record of its purl.
LEMMA PackageFacts ==
  ASSUME Told, NEW p, NEW fetched
  PROVE  LET list == PackageFindings(QueryResult(fetched), p)
         IN  /\ list \in Seq(FindingType)
             /\ p \notin DOMAIN idsByPurl => list = <<>>
             /\ p \in DOMAIN idsByPurl =>
                  /\ DOMAIN list = DOMAIN ResultFor(p, fetched)
                  /\ \A k \in DOMAIN list : list[k] = Finding(p, ResultFor(p, fetched)[k])
             /\ \A f : f \in ToSet(list) <=>
                  /\ p \in DOMAIN idsByPurl
                  /\ \E id \in ToSet(idsByPurl[p]) \cap fetched : f = Finding(p, id)
<1>1. PICK list : list = PackageFindings(QueryResult(fetched), p)
  OBVIOUS
<1>2. PICK result : result = QueryResult(fetched)
  OBVIOUS
<1>3. CASE p \notin DOMAIN idsByPurl
  <2>1. p \notin DOMAIN result
    BY <1>2, <1>3 DEF QueryResult
  <2>2. list = <<>>
    BY <1>1, <1>2, <2>1 DEF PackageFindings
  <2> QED BY <1>1, <1>3, <2>2 DEF ToSet
<1>4. CASE p \in DOMAIN idsByPurl
  <2>1. idsByPurl[p] \in Seq(Nat) /\ p \in Nat /\ \A id \in ToSet(idsByPurl[p]) : CVE(id) \in Nat
    BY <1>4 DEF Told
  <2>2. PICK records : records = ResultFor(p, fetched)
    OBVIOUS
  <2>3. records \in Seq(Nat) /\ ToSet(records) = ToSet(idsByPurl[p]) \cap fetched
    BY <2>1, <2>2, ResultForFacts DEF Keeps
  <2>4. list = [k \in DOMAIN records |-> Finding(p, records[k])]
    <3>1. CASE records = <<>>
      <4>1. p \notin DOMAIN result
        BY <1>2, <2>2, <3>1 DEF QueryResult
      <4>2. list = <<>>
        BY <1>1, <1>2, <4>1 DEF PackageFindings
      <4> QED BY <3>1, <4>2
    <3>2. CASE records # <<>>
      <4>1. p \in DOMAIN result /\ result[p] = records
        BY <1>2, <1>4, <2>2, <3>2 DEF QueryResult
      <4>2. list = FindingsOf(p, records)
        BY <1>1, <1>2, <4>1 DEF PackageFindings
      <4> QED BY <4>2 DEF FindingsOf, Finding
    <3> QED BY <3>1, <3>2
  <2>5. \A k \in DOMAIN records : Finding(p, records[k]) \in FindingType
    <3> TAKE k \in DOMAIN records
    <3>1. records[k] \in ToSet(records)
      BY DEF ToSet
    <3>2. records[k] \in Nat /\ records[k] \in ToSet(idsByPurl[p])
      BY <2>3, <3>1
    <3> QED BY <2>1, <3>2 DEF Finding, FindingType
  <2>6. list \in Seq(FindingType)
    <3>1. PICK n \in Nat : DOMAIN records = 1 .. n
      BY <2>3
    <3>2. list \in [1 .. n -> FindingType]
      BY <2>4, <2>5, <3>1
    <3> QED BY <3>2
  <2>7. DOMAIN list = DOMAIN records /\ \A k \in DOMAIN list : list[k] = Finding(p, records[k])
    BY <2>4
  <2>8. \A f : f \in ToSet(list) <=> \E id \in ToSet(records) : f = Finding(p, id)
    BY <2>7 DEF ToSet
  <2> QED BY <1>1, <1>4, <2>2, <2>3, <2>6, <2>7, <2>8
<1> QED BY <1>3, <1>4

\* RunOSV's findings before they are sorted: those of each package.
LEMMA FindingsFacts ==
  ASSUME Told, pkgs \in Seq(Nat), NEW fetched
  PROVE  LET lists == [i \in DOMAIN pkgs |-> PackageFindings(QueryResult(fetched), pkgs[i])]
             found == Findings(QueryResult(fetched))
         IN  /\ found \in Seq(FindingType)
             /\ \A f : f \in ToSet(found) <=>
                  \E p \in ToSet(pkgs) \cap DOMAIN idsByPurl :
                    \E id \in ToSet(idsByPurl[p]) \cap fetched : f = Finding(p, id)
             /\ \E g : Traced(lists, Len(pkgs), found, g)
<1>1. PICK result : result = QueryResult(fetched)
  OBVIOUS
<1>2. PICK lists : lists = [i \in DOMAIN pkgs |-> PackageFindings(result, pkgs[i])]
  OBVIOUS
<1>3. PICK found : found = Findings(result)
  OBVIOUS
<1>4. found = FlattenSeq(lists)
  BY <1>2, <1>3 DEF Findings, ForEach
<1>5. \A i \in DOMAIN pkgs :
        /\ lists[i] \in Seq(FindingType)
        /\ \A f : f \in ToSet(lists[i]) <=>
             /\ pkgs[i] \in DOMAIN idsByPurl
             /\ \E id \in ToSet(idsByPurl[pkgs[i]]) \cap fetched : f = Finding(pkgs[i], id)
  BY <1>1, <1>2, PackageFacts
<1>6. lists \in [DOMAIN pkgs -> Seq(FindingType)]
  BY <1>2, <1>5
<1>7. lists \in Seq(Seq(FindingType)) /\ Len(lists) = Len(pkgs)
  BY <1>6
<1>8. /\ found \in Seq(FindingType)
      /\ \A f : f \in ToSet(found) <=> \E i \in DOMAIN pkgs : f \in ToSet(lists[i])
  BY <1>4, <1>6, FlattenMembers
<1>9. \E g : Traced(lists, Len(pkgs), found, g)
  BY <1>4, <1>7, FlattenPositions
<1>10. \A f : f \in ToSet(found) <=>
         \E p \in ToSet(pkgs) \cap DOMAIN idsByPurl :
           \E id \in ToSet(idsByPurl[p]) \cap fetched : f = Finding(p, id)
  <2>1. \A p : p \in ToSet(pkgs) <=> \E i \in DOMAIN pkgs : p = pkgs[i]
    BY DEF ToSet
  <2> TAKE f
  <2>2. ASSUME f \in ToSet(found)
        PROVE  \E p \in ToSet(pkgs) \cap DOMAIN idsByPurl :
                 \E id \in ToSet(idsByPurl[p]) \cap fetched : f = Finding(p, id)
    <3>1. PICK i \in DOMAIN pkgs : f \in ToSet(lists[i])
      BY <1>8, <2>2
    <3>2. pkgs[i] \in ToSet(pkgs) \cap DOMAIN idsByPurl
      BY <1>5, <2>1, <3>1
    <3>3. \E id \in ToSet(idsByPurl[pkgs[i]]) \cap fetched : f = Finding(pkgs[i], id)
      BY <1>5, <3>1
    <3> QED BY <3>2, <3>3
  <2>3. ASSUME NEW p \in ToSet(pkgs) \cap DOMAIN idsByPurl, NEW id \in ToSet(idsByPurl[p]) \cap fetched,
               f = Finding(p, id)
        PROVE  f \in ToSet(found)
    <3>1. PICK i \in DOMAIN pkgs : p = pkgs[i]
      BY <2>1
    <3>2. f \in ToSet(lists[i])
      BY <1>5, <2>3, <3>1
    <3> QED BY <1>8, <3>2
  <2> QED BY <2>2, <2>3
<1>11. /\ found \in Seq(FindingType)
       /\ \A f : f \in ToSet(found) <=>
            \E p \in ToSet(pkgs) \cap DOMAIN idsByPurl :
              \E id \in ToSet(idsByPurl[p]) \cap fetched : f = Finding(p, id)
       /\ \E g : Traced(lists, Len(pkgs), found, g)
  BY <1>8, <1>9, <1>10
<1> QED BY <1>1, <1>2, <1>3, <1>11

(* How often an ID is reported for a purl: for each package of the purl as *)
(* often as OSV.dev listed it, provided that its record came back.         *)
LEMMA CountFacts ==
  ASSUME Told, pkgs \in Seq(Nat), NEW fetched, NEW p \in DOMAIN idsByPurl, NEW id \in fetched
  PROVE  LET sorted == sortFindings(Findings(QueryResult(fetched)))
         IN  Cardinality({k \in DOMAIN sorted : sorted[k].purl = p /\ sorted[k].ref = id})
               = Cardinality({i \in DOMAIN pkgs : pkgs[i] = p})
                   * Cardinality({j \in DOMAIN idsByPurl[p] : idsByPurl[p][j] = id})
<1>1. PICK lists : lists = [i \in DOMAIN pkgs |-> PackageFindings(QueryResult(fetched), pkgs[i])]
  OBVIOUS
<1>2. PICK found : found = Findings(QueryResult(fetched))
  OBVIOUS
<1>3. PICK sorted : sorted = sortFindings(found)
  OBVIOUS
<1>4. found \in Seq(FindingType) /\ \E g : Traced(lists, Len(pkgs), found, g)
  BY <1>1, <1>2, FindingsFacts
<1>5. PICK g : Traced(lists, Len(pkgs), found, g)
  BY <1>4
<1>6. PICK f \in Bijection(DOMAIN sorted, DOMAIN found) : \A k \in DOMAIN sorted : sorted[k] = found[f[k]]
  BY <1>3, <1>4, SortFacts
<1>7. PICK n \in Nat : n = Len(pkgs) /\ DOMAIN pkgs = 1 .. n
  OBVIOUS
<1>8. DOMAIN found = 1 .. Len(found) /\ IsFiniteSet(DOMAIN found)
  BY <1>4, FS_Interval
<1>9. PICK spots : spots = Spots(lists, n)
  OBVIOUS
<1>10. /\ g \in Bijection(DOMAIN found, spots)
       /\ \A k \in DOMAIN found : found[k] = lists[g[k][1]][g[k][2]]
  BY <1>5, <1>7, <1>8, <1>9 DEF Traced
<1>11. IsFiniteSet(spots)
  BY <1>8, <1>10, FS_Bijection DEF ExistsBijection
<1>12. PICK inSorted : inSorted = {k \in DOMAIN sorted : sorted[k].purl = p /\ sorted[k].ref = id}
  OBVIOUS
<1>13. PICK inFound : inFound = {k \in DOMAIN found : found[k].purl = p /\ found[k].ref = id}
  OBVIOUS
<1>14. PICK inLists : inLists = {q \in spots : lists[q[1]][q[2]].purl = p /\ lists[q[1]][q[2]].ref = id}
  OBVIOUS
<1>15. Cardinality(inSorted) = Cardinality(inFound)
  <2>1. \A k \in DOMAIN sorted : k \in inSorted <=> f[k] \in inFound
    <3> TAKE k \in DOMAIN sorted
    <3>1. f[k] \in DOMAIN found
      BY <1>6, Fun_BijectionProperties
    <3> QED BY <1>6, <1>12, <1>13, <3>1
  <2>2. inSorted \in SUBSET DOMAIN sorted /\ inFound \in SUBSET DOMAIN found
    BY <1>12, <1>13
  <2> QED BY <1>6, <1>8, <2>1, <2>2, CountAcross
<1>16. Cardinality(inFound) = Cardinality(inLists)
  <2>1. \A k \in DOMAIN found : k \in inFound <=> g[k] \in inLists
    <3> TAKE k \in DOMAIN found
    <3>1. g[k] \in spots
      BY <1>10, Fun_BijectionProperties
    <3> QED BY <1>10, <1>13, <1>14, <3>1
  <2>2. inFound \in SUBSET DOMAIN found /\ inLists \in SUBSET spots
    BY <1>13, <1>14
  <2> QED BY <1>10, <1>11, <2>1, <2>2, CountAcross
<1>17. PICK ids : ids = idsByPurl[p]
  OBVIOUS
<1>18. PICK records : records = ResultFor(p, fetched)
  OBVIOUS
<1>19. PICK kept : kept = {j \in DOMAIN ids : ids[j] \in fetched}
  OBVIOUS
<1>20. ids \in Seq(Nat)
  BY <1>17 DEF Told
<1>21. /\ records \in Seq(Nat) /\ IsFiniteSet(kept)
       /\ \E h \in Bijection(DOMAIN records, kept) : \A k \in DOMAIN records : records[k] = ids[h[k]]
  <2>1. Keeps(records, ids, fetched)
    BY <1>17, <1>18, <1>20, ResultForFacts
  <2> QED BY <1>19, <2>1 DEF Keeps
<1>22. PICK packages : packages = {i \in DOMAIN pkgs : pkgs[i] = p}
  OBVIOUS
<1>23. PICK inRecords : inRecords = {j \in DOMAIN records : records[j] = id}
  OBVIOUS
<1>24. PICK inIds : inIds = {j \in DOMAIN ids : ids[j] = id}
  OBVIOUS
<1>25. Cardinality(inRecords) = Cardinality(inIds)
  <2>1. PICK h \in Bijection(DOMAIN records, kept) : \A k \in DOMAIN records : records[k] = ids[h[k]]
    BY <1>21
  <2>2. \A k \in DOMAIN records : k \in inRecords <=> h[k] \in inIds
    <3> TAKE k \in DOMAIN records
    <3>1. h[k] \in kept
      BY <2>1, Fun_BijectionProperties
    <3> QED BY <1>19, <1>23, <1>24, <2>1, <3>1
  <2>3. inRecords \in SUBSET DOMAIN records /\ inIds \in SUBSET kept
    BY <1>19, <1>23, <1>24
  <2>4. h \in Bijection(DOMAIN records, kept) /\ IsFiniteSet(kept)
    BY <1>21, <2>1
  <2> QED BY <2>2, <2>3, <2>4, CountAcross
<1>26. inLists = packages \X inRecords
  <2>1. \A i \in DOMAIN pkgs :
          /\ pkgs[i] \notin DOMAIN idsByPurl => lists[i] = <<>>
          /\ pkgs[i] \in DOMAIN idsByPurl =>
               /\ DOMAIN lists[i] = DOMAIN ResultFor(pkgs[i], fetched)
               /\ \A k \in DOMAIN lists[i] : lists[i][k] = Finding(pkgs[i], ResultFor(pkgs[i], fetched)[k])
    BY <1>1, PackageFacts
  <2>2. \A q : q \in spots <=> \E i \in DOMAIN pkgs : \E j \in DOMAIN lists[i] : q = <<i, j>>
    BY <1>7, <1>9 DEF Spots
  <2>3. ASSUME NEW i \in DOMAIN pkgs, NEW j \in DOMAIN lists[i]
        PROVE  lists[i][j].purl = p /\ lists[i][j].ref = id <=> i \in packages /\ j \in inRecords
    <3>1. pkgs[i] \in DOMAIN idsByPurl
      BY <2>1, <2>3
    <3>2. lists[i][j] = Finding(pkgs[i], ResultFor(pkgs[i], fetched)[j])
      BY <2>1, <3>1
    <3>3. lists[i][j].purl = pkgs[i] /\ lists[i][j].ref = ResultFor(pkgs[i], fetched)[j]
      BY <3>2 DEF Finding
    <3>4. pkgs[i] = p => j \in DOMAIN records /\ ResultFor(pkgs[i], fetched)[j] = records[j]
      BY <1>18, <2>1, <3>1
    <3> QED BY <1>22, <1>23, <3>3, <3>4
  <2>4. \A i \in packages : i \in DOMAIN pkgs /\ DOMAIN lists[i] = DOMAIN records
    BY <1>18, <1>22, <2>1
  <2>5. ASSUME NEW q \in inLists PROVE q \in packages \X inRecords
    <3>1. PICK i \in DOMAIN pkgs : \E j \in DOMAIN lists[i] : q = <<i, j>>
      BY <1>14, <2>2
    <3>2. PICK j \in DOMAIN lists[i] : q = <<i, j>>
      BY <3>1
    <3>3. lists[i][j].purl = p /\ lists[i][j].ref = id
      BY <1>14, <3>2
    <3> QED BY <2>3, <3>2, <3>3
  <2>6. ASSUME NEW q \in packages \X inRecords PROVE q \in inLists
    <3>1. PICK i \in packages, j \in inRecords : q = <<i, j>>
      OBVIOUS
    <3>2. i \in DOMAIN pkgs /\ j \in DOMAIN lists[i]
      BY <1>23, <2>4
    <3>3. q \in spots /\ lists[i][j].purl = p /\ lists[i][j].ref = id
      BY <2>2, <2>3, <3>1, <3>2
    <3> QED BY <1>14, <3>1, <3>3
  <2> QED BY <2>5, <2>6
<1>27. IsFiniteSet(packages) /\ IsFiniteSet(inRecords)
  <2>1. IsFiniteSet(DOMAIN pkgs) /\ packages \subseteq DOMAIN pkgs
    BY <1>7, <1>22, FS_Interval
  <2>2. IsFiniteSet(DOMAIN records) /\ inRecords \subseteq DOMAIN records
    <3>1. PICK m \in Nat : DOMAIN records = 1 .. m
      BY <1>21
    <3> QED BY <1>23, <3>1, FS_Interval
  <2> QED BY <2>1, <2>2, FS_Subset
<1>28. Cardinality(inLists) = Cardinality(packages) * Cardinality(inRecords)
  BY <1>26, <1>27, FS_Product
<1>29. Cardinality(inSorted) = Cardinality(packages) * Cardinality(inIds)
  BY <1>15, <1>16, <1>25, <1>28
<1> QED BY <1>2, <1>3, <1>12, <1>17, <1>22, <1>24, <1>29

----
(***************************************************************************)
(* The inductive invariant.  Asking is the loop over the batches: what has *)
(* been sent is a beginning of the distinct purls, and what has been       *)
(* answered is the first page of each of them up to the loop variable.     *)
(* Reported is what RunOSV returns.                                        *)
(***************************************************************************)
Started ==
  /\ pkgs \in Inputs /\ db \in Databases /\ unique = dedupeNonEmpty(pkgs)
  /\ pc \in {"ask", "wait", "fetch", "ok", "error"} /\ ended \in BOOLEAN

End == IF start + batchSize > Len(unique) THEN Len(unique) ELSE start + batchSize

Answered == IF start < Len(unique) THEN start ELSE Len(unique)

Sent(n) ==
  /\ asked = SubSeq(unique, 1, n)
  /\ n = IF pc = "wait" THEN End ELSE Answered

Asking ==
  /\ start \in 0 .. Len(unique) + batchSize - 1
  /\ idsByPurl = [p \in {unique[i] : i \in 1 .. Answered} |-> FirstPage(p)]
  /\ pc # "error" => \E n \in 0 .. Len(unique) : Sent(n)
  /\ \E n \in 0 .. Len(unique) : asked = SubSeq(unique, 1, n)
  /\ pc = "wait" => start < Len(unique)
  /\ pc \in {"fetch", "ok"} => start >= Len(unique)

\* The findings from the records at these positions of the sorted IDs.
FindingsAt(positions) == sortFindings(Findings(QueryResult({uniqueIDs[i] : i \in positions})))

Reported ==
  /\ pc # "ok" => findings = <<>>
  /\ pc = "ok" =>
       \/ unique = <<>> /\ findings = <<>>
       \/ \E positions \in AnswersFor(Cardinality(IdSet), ended) : findings = FindingsAt(positions)

IInv == Started /\ Asking /\ Reported

\* What the lists and the database give.
LEMMA StartedFacts ==
  ASSUME Started
  PROVE  /\ pkgs \in Seq(Nat) /\ unique \in Seq(Nat) /\ ToSet(unique) = Purls /\ Purls \subseteq Nat
         /\ \A i, j \in DOMAIN unique : unique[i] = unique[j] => i = j
         /\ \A p \in Purls :
              FirstPage(p) \in Seq(Nat) /\ \A id \in ToSet(FirstPage(p)) : id \in Nat /\ CVE(id) \in Nat
<1>1. pkgs \in Seq(Nat)
  BY InputsAssumption DEF Started
<1>2. /\ unique \in Seq(Nat) /\ ToSet(unique) = Purls
      /\ \A i, j \in DOMAIN unique : unique[i] = unique[j] => i = j
  BY <1>1, DedupeFacts DEF Started, Purls
<1>3. Purls \subseteq Nat
  BY <1>2, ElementsFinite
<1>4. ASSUME NEW p \in Purls
      PROVE  FirstPage(p) \in Seq(Nat) /\ \A id \in ToSet(FirstPage(p)) : id \in Nat /\ CVE(id) \in Nat
  <2>1. p \in DOMAIN db
    BY <1>4, DatabasesAssumption DEF Started, Purls
  <2>2. PICK ids \in Seq(Nat), page \in Nat :
          /\ ids = db[p].ids /\ page = db[p].page /\ page \in 0 .. Len(ids)
          /\ \A id \in ToSet(ids) : CVE(id) \in Nat
    BY <2>1, DatabasesAssumption DEF Started
  <2>3. PICK first : first = SubSeq(ids, 1, page)
    OBVIOUS
  <2>4. \A i \in 1 .. page : i \in DOMAIN ids /\ ids[i] \in Nat
    BY <2>2
  <2>5. /\ first \in Seq(Nat) /\ Len(first) = page
        /\ \A i \in 1 .. page : first[i] = ids[i]
    BY <2>2, <2>3, <2>4, SubSeqProperties
  <2>6. \A id \in ToSet(first) : id \in Nat /\ id \in ToSet(ids)
    BY <2>4, <2>5 DEF ToSet
  <2>7. FirstPage(p) = first
    BY <2>2, <2>3 DEF FirstPage
  <2> QED BY <2>2, <2>5, <2>6, <2>7
<1> QED BY <1>1, <1>2, <1>3, <1>4

LEMMA AskingFacts ==
  ASSUME IInv
  PROVE  /\ Answered \in 0 .. Len(unique)
         /\ DOMAIN idsByPurl \subseteq Purls
         /\ \A p \in DOMAIN idsByPurl : idsByPurl[p] = FirstPage(p)
         /\ Told
         /\ pc \in {"fetch", "ok"} => DOMAIN idsByPurl = Purls
<1>1. /\ unique \in Seq(Nat) /\ ToSet(unique) = Purls
      /\ Purls \subseteq Nat
      /\ \A p \in Purls :
           FirstPage(p) \in Seq(Nat) /\ \A id \in ToSet(FirstPage(p)) : id \in Nat /\ CVE(id) \in Nat
  BY StartedFacts DEF IInv
<1>2. PICK n \in Nat : n = Len(unique) /\ DOMAIN unique = 1 .. n
  BY <1>1
<1>3. start \in Nat /\ Answered \in 0 .. n
  BY <1>2, BatchSizeFacts DEF IInv, Asking, Answered
<1>4. idsByPurl = [p \in {unique[i] : i \in 1 .. Answered} |-> FirstPage(p)]
  BY DEF IInv, Asking
<1>5. DOMAIN idsByPurl \subseteq Purls
  BY <1>1, <1>2, <1>3, <1>4 DEF ToSet
<1>6. \A p \in DOMAIN idsByPurl : idsByPurl[p] = FirstPage(p)
  BY <1>4
<1>7. Told
  BY <1>1, <1>5, <1>6 DEF Told
<1>8. ASSUME pc \in {"fetch", "ok"} PROVE DOMAIN idsByPurl = Purls
  <2>1. Answered = n
    BY <1>2, <1>3, <1>8 DEF IInv, Asking, Answered
  <2> QED BY <1>1, <1>2, <1>4, <2>1 DEF ToSet
<1> QED BY <1>2, <1>3, <1>5, <1>6, <1>7, <1>8

LEMMA InvInit == Init => IInv
<1> SUFFICES ASSUME Init PROVE IInv
  OBVIOUS
<1>1. Started
  BY DEF Init, Started
<1>2. unique \in Seq(Nat) /\ Len(unique) \in Nat
  BY <1>1, StartedFacts
<1>3. Answered = 0
  BY <1>2 DEF Init, Answered
<1>4. asked = SubSeq(unique, 1, 0)
  BY SubSeqEmpty DEF Init
<1>5. Asking
  <2>1. idsByPurl = [p \in {unique[i] : i \in 1 .. Answered} |-> FirstPage(p)]
    BY <1>3 DEF Init
  <2>2. start \in 0 .. Len(unique) + batchSize - 1
    BY <1>2, BatchSizeFacts DEF Init
  <2>3. pc = "ok" => start >= Len(unique)
    BY DEF Init
  <2>4. pc \in {"ask", "ok"}
    BY DEF Init
  <2>5. Sent(0) /\ 0 \in 0 .. Len(unique)
    BY <1>2, <1>3, <1>4, <2>4 DEF Sent
  <2> QED BY <1>4, <2>1, <2>2, <2>3, <2>4, <2>5 DEF Asking
<1>6. Reported
  BY DEF Init, Reported
<1> QED BY <1>1, <1>5, <1>6 DEF IInv

----
(* Every step preserves the invariant.                                     *)

\* What Query was called for does not change.
LEMMA CallStays == [Next]_vars => UNCHANGED <<pkgs, db, unique>>
BY DEF Next, StartBatch, BatchOk, BatchFails, StartFetch, FetchOk, FetchReturns, FetchFails,
       ContextEnds, Terminated, vars

LEMMA StartedStep == IInv /\ [Next]_vars => Started'
BY CallStays
   DEF IInv, Started, Next, StartBatch, BatchOk, BatchFails, StartFetch, FetchOk, FetchReturns,
       FetchFails, ContextEnds, Terminated, vars

\* The purls of a batch are the next ones of the list.
LEMMA ChunkFacts ==
  ASSUME unique \in Seq(Nat), start \in Nat, start < Len(unique)
  PROVE  /\ End \in start + 1 .. Len(unique)
         /\ Chunk \in Seq(Nat) /\ DOMAIN Chunk = 1 .. End - start
         /\ \A i \in 1 .. End - start : Chunk[i] = unique[start + i]
         /\ SubSeq(unique, 1, start) \o Chunk = SubSeq(unique, 1, End)
<1>1. End \in start + 1 .. Len(unique)
  BY BatchSizeFacts DEF End
<1>2. Chunk = SubSeq(unique, start + 1, End)
  BY DEF Chunk, End
<1>3. PICK n \in Nat : n = Len(unique) /\ DOMAIN unique = 1 .. n /\ \A i \in 1 .. n : unique[i] \in Nat
  OBVIOUS
<1>4. PICK e \in Nat : e = End /\ e \in start + 1 .. n
  BY <1>1, <1>3
<1>5. \A i \in start + 1 .. e : unique[i] \in Nat
  BY <1>3, <1>4
<1>6. /\ SubSeq(unique, start + 1, e) \in Seq(Nat)
      /\ Len(SubSeq(unique, start + 1, e)) = e - start
      /\ \A i \in 1 .. e - start : SubSeq(unique, start + 1, e)[i] = unique[start + i]
  <2>1. PICK m \in Int : m = start + 1
    OBVIOUS
  <2>2. /\ SubSeq(unique, m, e) \in Seq(Nat)
        /\ Len(SubSeq(unique, m, e)) = IF m <= e THEN e - m + 1 ELSE 0
        /\ \A i \in 1 .. e - m + 1 : SubSeq(unique, m, e)[i] = unique[m + i - 1]
    BY <1>4, <1>5, <2>1, SubSeqProperties
  <2>3. m <= e /\ e - m + 1 = e - start /\ \A i \in Nat : m + i - 1 = start + i
    BY <1>4, <2>1
  <2>4. \A i \in 1 .. e - start : SubSeq(unique, m, e)[i] = unique[start + i]
    BY <2>2, <2>3
  <2> QED BY <2>1, <2>2, <2>3, <2>4
<1>7. SubSeq(unique, 1, start) \o SubSeq(unique, start + 1, e) = SubSeq(unique, 1, e)
  <2>1. 1 \in 1 .. Len(unique) + 1 /\ start \in 1 - 1 .. Len(unique) /\ e \in start .. Len(unique)
    BY <1>3, <1>4
  <2> QED BY <2>1, ConcatAdjacentSubSeq
<1>8. PICK chunk : chunk = SubSeq(unique, start + 1, e)
  OBVIOUS
<1>9. chunk \in Seq(Nat) /\ Len(chunk) = e - start /\ \A i \in 1 .. e - start : chunk[i] = unique[start + i]
  BY <1>6, <1>8
<1>10. DOMAIN chunk = 1 .. e - start
  BY <1>9
<1>11. Chunk = chunk
  BY <1>2, <1>4, <1>8
<1> QED BY <1>1, <1>4, <1>7, <1>8, <1>9, <1>10, <1>11

\* An answered batch is remembered by the first pages of its purls.
LEMMA BatchFacts ==
  ASSUME BatchOk, Started
  PROVE  idsByPurl' = [p \in {Chunk[i] : i \in DOMAIN Chunk} \cup DOMAIN idsByPurl |->
                        IF p \in {Chunk[i] : i \in DOMAIN Chunk} THEN FirstPage(p) ELSE idsByPurl[p]]
<1>1. PICK chunk : chunk = Chunk
  OBVIOUS
<1>2. PICK pairs : pairs = Pair(chunk, [i \in DOMAIN chunk |-> FirstPage(chunk[i])])
  OBVIOUS
<1>3. DOMAIN pairs = DOMAIN chunk /\ \A i \in DOMAIN chunk : pairs[i] = <<chunk[i], FirstPage(chunk[i])>>
  BY <1>2 DEF Pair
<1>4. PICK told : told = [p \in {pairs[i][1] : i \in DOMAIN pairs} |->
                           (CHOOSE x \in ToSet(pairs) : x[1] = p)[2]]
  OBVIOUS
<1>5. idsByPurl' = [p \in DOMAIN told \cup DOMAIN idsByPurl |->
                      IF p \in DOMAIN told THEN told[p] ELSE idsByPurl[p]]
  BY <1>1, <1>2, <1>4 DEF BatchOk
<1>6. DOMAIN told = {chunk[i] : i \in DOMAIN chunk}
  BY <1>3, <1>4
<1>7. \A p \in DOMAIN told : told[p] = FirstPage(p)
  <2> TAKE p \in DOMAIN told
  <2>1. PICK i \in DOMAIN chunk : chunk[i] = p
    BY <1>6
  <2>2. pairs[i] \in ToSet(pairs) /\ pairs[i][1] = p
    BY <1>3, <2>1 DEF ToSet
  <2>3. PICK x \in ToSet(pairs) : x[1] = p /\ told[p] = x[2]
    BY <1>4, <2>2
  <2>4. PICK j \in DOMAIN chunk : x = <<chunk[j], FirstPage(chunk[j])>>
    BY <1>3, <2>3 DEF ToSet
  <2> QED BY <2>3, <2>4
<1> QED BY <1>1, <1>5, <1>6, <1>7

LEMMA AskingStep == IInv /\ [Next]_vars => Asking'
<1> SUFFICES ASSUME IInv, [Next]_vars PROVE Asking'
  OBVIOUS
<1>1. /\ unique \in Seq(Nat) /\ Len(unique) \in Nat /\ DOMAIN unique = 1 .. Len(unique)
      /\ start \in 0 .. Len(unique) + batchSize - 1 /\ start \in Nat /\ batchSize \in Nat \ {0}
      /\ Answered \in 0 .. Len(unique)
  BY StartedFacts, AskingFacts, BatchSizeFacts DEF IInv, Asking
<1>2. UNCHANGED <<pkgs, db, unique>>
  BY CallStays
<1>3. \A p : FirstPage(p)' = FirstPage(p)
  BY <1>2 DEF FirstPage
<1>4. Asking /\ Started
  BY DEF IInv
<1>5. ASSUME UNCHANGED <<start, idsByPurl, asked>>,
             pc' = pc \/ pc' = "error" \/ (pc = "ask" /\ ~MoreToAsk /\ pc' = "fetch") \/ (pc = "fetch" /\ pc' = "ok")
      PROVE  Asking'
  <2>1. Answered' = Answered /\ End' = End /\ Len(unique)' = Len(unique)
    BY <1>2, <1>5 DEF Answered, End, batchSize
  <2>2. idsByPurl' = [p \in {unique'[i] : i \in 1 .. Answered'} |-> FirstPage(p)']
    BY <1>2, <1>3, <1>4, <1>5, <2>1 DEF Asking
  <2>3. \A n : Sent(n) /\ pc' # "error" => Sent(n)'
    BY <1>2, <1>5, <2>1 DEF Sent
  <2>4. pc' \in {"fetch", "ok"} => start >= Len(unique)
    BY <1>1, <1>4, <1>5 DEF Asking, MoreToAsk
  <2> QED BY <1>1, <1>2, <1>4, <1>5, <2>1, <2>2, <2>3, <2>4 DEF Asking, batchSize
<1>6. CASE StartBatch
  <2>1. pc = "ask" /\ start < Len(unique) /\ pc' = "wait" /\ asked' = asked \o Chunk
        /\ UNCHANGED <<start, idsByPurl>>
    BY <1>6 DEF StartBatch, MoreToAsk
  <2>2. Answered' = Answered /\ End' = End /\ Len(unique)' = Len(unique)
    BY <1>2, <2>1 DEF Answered, End, batchSize
  <2>3. asked = SubSeq(unique, 1, start)
    BY <1>4, <2>1 DEF Asking, Sent, Answered
  <2>4. asked' = SubSeq(unique, 1, End) /\ End \in 0 .. Len(unique)
    BY <1>1, <2>1, <2>3, ChunkFacts
  <2>5. Sent(End)'
    BY <1>2, <2>1, <2>2, <2>4 DEF Sent
  <2>6. idsByPurl' = [p \in {unique'[i] : i \in 1 .. Answered'} |-> FirstPage(p)']
    BY <1>2, <1>3, <1>4, <2>1, <2>2 DEF Asking
  <2> QED BY <1>1, <1>2, <1>4, <2>1, <2>2, <2>4, <2>5, <2>6 DEF Asking, batchSize
<1>7. CASE BatchOk
  <2>1. pc = "wait" /\ start < Len(unique) /\ pc' = "ask" /\ start' = start + batchSize /\ asked' = asked
    BY <1>4, <1>7 DEF BatchOk, Asking
  <2>2. Answered' = End /\ batchSize' = batchSize /\ Answered = start
    BY <1>1, <1>2, <2>1 DEF Answered, End, batchSize
  <2>3. asked = SubSeq(unique, 1, End)
    BY <1>4, <2>1 DEF Asking, Sent
  <2>4. /\ End \in start + 1 .. Len(unique) /\ DOMAIN Chunk = 1 .. End - start
        /\ \A i \in 1 .. End - start : Chunk[i] = unique[start + i]
    BY <1>1, <2>1, ChunkFacts
  <2>5. PICK e \in Nat : e = End
    BY <1>1, <2>4
  <2>6. {unique[i] : i \in 1 .. e} = {Chunk[i] : i \in DOMAIN Chunk} \cup {unique[i] : i \in 1 .. start}
    <3>1. \A i \in 1 .. e : i \in 1 .. start \/ (i - start \in DOMAIN Chunk /\ Chunk[i - start] = unique[i])
      <4> TAKE i \in 1 .. e
      <4>1. i \in 1 .. start \/ (i - start \in 1 .. e - start /\ start + (i - start) = i)
        BY <1>1
      <4> QED BY <2>4, <2>5, <4>1
    <3>2. \A i \in DOMAIN Chunk : start + i \in 1 .. e /\ Chunk[i] = unique[start + i]
      BY <1>1, <2>4, <2>5
    <3>3. \A i \in 1 .. start : i \in 1 .. e
      BY <1>1, <2>4, <2>5
    <3> QED BY <3>1, <3>2, <3>3
  <2>7. DOMAIN idsByPurl = {unique[i] : i \in 1 .. start} /\ \A p \in DOMAIN idsByPurl : idsByPurl[p] = FirstPage(p)
    BY <1>4, <2>2 DEF Asking
  <2>8. idsByPurl' = [p \in {unique[i] : i \in 1 .. e} |-> FirstPage(p)]
    BY <1>4, <1>7, <2>6, <2>7, BatchFacts
  <2>9. idsByPurl' = [p \in {unique'[i] : i \in 1 .. Answered'} |-> FirstPage(p)']
    BY <1>2, <1>3, <2>2, <2>5, <2>8
  <2>10. Sent(e)' /\ e \in 0 .. Len(unique)
    BY <1>1, <1>2, <2>1, <2>2, <2>3, <2>4, <2>5 DEF Sent
  <2>11. start' \in 0 .. Len(unique') + batchSize' - 1
    BY <1>1, <1>2, <2>1, <2>2
  <2> QED BY <1>2, <2>1, <2>9, <2>10, <2>11 DEF Asking, Sent
<1> QED
  BY <1>5, <1>6, <1>7
  DEF Next, BatchFails, StartFetch, FetchOk, FetchReturns, FetchFails, ContextEnds, Terminated, vars

\* The findings at given positions depend on nothing that still changes.
LEMMA FindingsStay ==
  ASSUME UNCHANGED <<pkgs, idsByPurl>>
  PROVE  /\ IdSet' = IdSet
         /\ \A positions : FindingsAt(positions)' = FindingsAt(positions)
<1>1. IdSet' = IdSet
  BY DEF IdSet
<1>2. uniqueIDs' = uniqueIDs
  BY <1>1 DEF uniqueIDs, Sorted
<1>3. ASSUME NEW p, NEW fetched PROVE ResultFor(p, fetched)' = ResultFor(p, fetched)
  BY DEF ResultFor, Select, Arranged
<1>4. ASSUME NEW fetched PROVE Findings(QueryResult(fetched))' = Findings(QueryResult(fetched))
  <2>1. QueryResult(fetched)' = QueryResult(fetched)
    BY <1>3 DEF QueryResult
  <2>2. PICK result : result = QueryResult(fetched) /\ result = QueryResult(fetched)'
    BY <2>1
  <2> QED BY <2>2 DEF Findings, ForEach, PackageFindings, FindingsOf
<1>5. ASSUME NEW positions PROVE FindingsAt(positions)' = FindingsAt(positions)
  <2>1. PICK fetched : fetched = {uniqueIDs[i] : i \in positions}
    OBVIOUS
  <2>2. {uniqueIDs[i] : i \in positions}' = fetched
    BY <1>2, <2>1
  <2>3. PICK found : found = Findings(QueryResult(fetched)) /\ found = Findings(QueryResult(fetched))'
    BY <1>4
  <2> QED BY <2>1, <2>2, <2>3 DEF FindingsAt
<1> QED BY <1>1, <1>5

LEMMA ReportedStep == IInv /\ [Next]_vars => Reported'
<1> SUFFICES ASSUME IInv, [Next]_vars PROVE Reported'
  OBVIOUS
<1>1. Reported
  BY DEF IInv
<1>2. CASE UNCHANGED vars
  <2>1. IdSet' = IdSet /\ \A positions : FindingsAt(positions)' = FindingsAt(positions)
    BY <1>2, FindingsStay DEF vars
  <2> QED BY <1>1, <1>2, <2>1 DEF Reported, vars
<1>3. CASE FetchOk
  <2>1. PICK positions \in AnswersFor(Cardinality(IdSet), ended) : FetchReturns(positions)
    BY <1>3 DEF FetchOk
  <2>2. findings' = FindingsAt(positions) /\ UNCHANGED <<pkgs, db, unique, idsByPurl, ended>>
    BY <2>1 DEF FetchReturns, FindingsAt
  <2>3. IdSet' = IdSet /\ \A ps : FindingsAt(ps)' = FindingsAt(ps)
    BY <2>2, FindingsStay
  <2>4. pc' = "ok"
    BY <2>1 DEF FetchReturns
  <2> QED BY <2>1, <2>2, <2>3, <2>4 DEF Reported
<1>4. CASE StartBatch \/ BatchOk \/ BatchFails \/ StartFetch \/ FetchFails \/ ContextEnds
  <2>1. pc # "ok" /\ pc' # "ok" /\ findings' = findings
    BY <1>4 DEF StartBatch, BatchOk, BatchFails, StartFetch, FetchFails, ContextEnds
  <2> QED BY <1>1, <2>1 DEF Reported
<1> QED BY <1>2, <1>3, <1>4 DEF Next, Terminated

\* The invariant holds in every reachable state, whatever fails, and whenever the
\* deadline passes.
THEOREM Invariance == Spec => []IInv
<1>1. IInv /\ [Next]_vars => IInv'
  BY StartedStep, AskingStep, ReportedStep DEF IInv
<1> QED
  BY InvInit, <1>1, PTL DEF Spec

----
(* What follows from it.                                                   *)

\* The IDs that are fetched, in their order.
LEMMA IdFacts ==
  ASSUME IInv
  PROVE  /\ IdSet \subseteq Nat /\ IsFiniteSet(IdSet) /\ Cardinality(IdSet) \in Nat
         /\ DOMAIN uniqueIDs = 1 .. Cardinality(IdSet)
         /\ {uniqueIDs[i] : i \in DOMAIN uniqueIDs} = IdSet
         /\ \A i, j \in DOMAIN uniqueIDs : i < j <=> uniqueIDs[i] < uniqueIDs[j]
<1>1. /\ DOMAIN idsByPurl \subseteq Purls /\ Told
      /\ unique \in Seq(Nat) /\ ToSet(unique) = Purls
  BY AskingFacts, StartedFacts DEF IInv
<1>2. IsFiniteSet(DOMAIN idsByPurl)
  BY <1>1, ElementsFinite, FS_Subset
<1>3. \A p \in DOMAIN idsByPurl : IsFiniteSet(ToSet(idsByPurl[p])) /\ ToSet(idsByPurl[p]) \subseteq Nat
  BY <1>1, ElementsFinite DEF Told
<1>4. PICK sets : sets = {ToSet(idsByPurl[p]) : p \in DOMAIN idsByPurl}
  OBVIOUS
<1>5. IsFiniteSet(sets)
  <2>1. PICK f : f = [p \in DOMAIN idsByPurl |-> ToSet(idsByPurl[p])]
    OBVIOUS
  <2>2. f \in Surjection(DOMAIN idsByPurl, sets)
    BY <1>4, <2>1 DEF Surjection
  <2> QED BY <1>2, <2>2, FS_Surjection
<1>6. IdSet = UNION sets
  BY <1>4 DEF IdSet
<1>7. IsFiniteSet(IdSet) /\ IdSet \subseteq Nat
  <2>1. \A x \in sets : IsFiniteSet(x) /\ x \subseteq Nat
    BY <1>3, <1>4
  <2> QED BY <1>5, <1>6, <2>1, FS_UNION
<1>8. PICK S : S = IdSet
  OBVIOUS
<1>9. PICK before : before = {q \in S \X S : q[1] < q[2]}
  OBVIOUS
<1>10. StrictOrder(S, before) /\ \A m, n \in S : <<m, n>> \in before <=> m < n
  BY <1>7, <1>8, <1>9, NumbersInOrder
<1>11. PICK e : e = Enumeration(S, before)
  OBVIOUS
<1>12. uniqueIDs = e
  BY <1>8, <1>9, <1>11 DEF uniqueIDs, Sorted
<1>13. /\ Cardinality(S) \in Nat
       /\ e \in [1 .. Cardinality(S) -> S]
       /\ \A x \in S : \E i \in 1 .. Cardinality(S) : e[i] = x
       /\ \A i, j \in 1 .. Cardinality(S) : i < j <=> <<e[i], e[j]>> \in before
  <2>1. IsFiniteSet(S) /\ StrictOrder(S, before)
    BY <1>7, <1>8, <1>10
  <2> QED BY <1>11, <2>1, EnumerationFacts
<1>14. DOMAIN e = 1 .. Cardinality(S) /\ {e[i] : i \in DOMAIN e} = S
  BY <1>13
<1>15. \A i, j \in DOMAIN e : i < j <=> e[i] < e[j]
  BY <1>10, <1>13, <1>14
<1> QED BY <1>7, <1>8, <1>12, <1>13, <1>14, <1>15

\* What is in the findings of a call that has returned.
LEMMA FindingsAtFacts ==
  ASSUME IInv, NEW positions
  PROVE  LET fetched == {uniqueIDs[i] : i \in positions}
         IN  /\ FindingsAt(positions) \in Seq(FindingType)
             /\ \A f : f \in ToSet(FindingsAt(positions)) <=>
                  \E p \in DOMAIN idsByPurl :
                    \E id \in ToSet(FirstPage(p)) \cap fetched : f = Finding(p, id)
<1>1. PICK fetched : fetched = {uniqueIDs[i] : i \in positions}
  OBVIOUS
<1>2. PICK found : found = Findings(QueryResult(fetched))
  OBVIOUS
<1>3. /\ Told /\ pkgs \in Seq(Nat)
      /\ DOMAIN idsByPurl \subseteq Purls
      /\ \A p \in DOMAIN idsByPurl : idsByPurl[p] = FirstPage(p)
  BY AskingFacts, StartedFacts DEF IInv
<1>4. /\ found \in Seq(FindingType)
      /\ \A f : f \in ToSet(found) <=>
           \E p \in ToSet(pkgs) \cap DOMAIN idsByPurl :
             \E id \in ToSet(idsByPurl[p]) \cap fetched : f = Finding(p, id)
  BY <1>2, <1>3, FindingsFacts
<1>5. ToSet(pkgs) \cap DOMAIN idsByPurl = DOMAIN idsByPurl
  BY <1>3 DEF Purls
<1>6. \A f : f \in ToSet(found) <=>
        \E p \in DOMAIN idsByPurl :
          \E id \in ToSet(FirstPage(p)) \cap fetched : f = Finding(p, id)
  <2>1. \A p \in DOMAIN idsByPurl : ToSet(idsByPurl[p]) \cap fetched = ToSet(FirstPage(p)) \cap fetched
    BY <1>3
  <2> QED BY <1>4, <1>5, <2>1
<1>7. sortFindings(found) \in Seq(FindingType) /\ ToSet(sortFindings(found)) = ToSet(found)
  BY <1>4, SortFacts
<1>8. FindingsAt(positions) = sortFindings(found)
  BY <1>1, <1>2 DEF FindingsAt
<1> QED BY <1>1, <1>6, <1>7, <1>8

\* What is remembered and reported is of purls of the list.
LEMMA Types == IInv => TypeOK
<1> SUFFICES ASSUME IInv PROVE TypeOK
  OBVIOUS
<1>1. DOMAIN idsByPurl \subseteq Purls /\ pkgs \in Seq(Nat) /\ ToSet(unique) = Purls
  BY AskingFacts, StartedFacts DEF IInv
<1>2. \A f \in ToSet(findings) : f.purl \in Purls
  <2>1. CASE findings = <<>>
    BY <2>1 DEF ToSet
  <2>2. CASE \E positions : findings = FindingsAt(positions)
    <3>1. PICK positions : findings = FindingsAt(positions)
      BY <2>2
    <3> TAKE f \in ToSet(findings)
    <3>2. PICK p, id : p \in DOMAIN idsByPurl /\ f = Finding(p, id)
      BY <3>1, FindingsAtFacts
    <3> QED BY <1>1, <3>2 DEF Finding
  <2> QED BY <2>1, <2>2 DEF IInv, Reported
<1>3. \A i \in DOMAIN findings : findings[i] \in ToSet(findings)
  BY DEF ToSet
<1> QED BY <1>1, <1>2, <1>3 DEF IInv, Started, Asking, TypeOK

(* The variables keep their types, and a finding is about a package of the *)
(* SBOM: what is remembered of purls, and reported, is of those asked for. *)
THEOREM TypeCorrect == Spec => []TypeOK
BY Invariance, Types, PTL

\* What has been sent is a beginning of distinct purls.
LEMMA SentOnce == IInv => AskedOnce
<1> SUFFICES ASSUME IInv PROVE AskedOnce
  OBVIOUS
<1>1. /\ unique \in Seq(Nat) /\ ToSet(unique) = Purls
      /\ \A i, j \in DOMAIN unique : unique[i] = unique[j] => i = j
  BY StartedFacts DEF IInv
<1>2. PICK n \in Nat : DOMAIN unique = 1 .. n /\ Len(unique) = n /\ \A i \in 1 .. n : unique[i] \in Nat
  BY <1>1
<1>3. PICK m \in 0 .. n : asked = SubSeq(unique, 1, m)
  BY <1>2 DEF IInv, Asking
<1>4. DOMAIN asked = 1 .. m /\ \A i \in 1 .. m : asked[i] = unique[i]
  <2>1. \A i \in 1 .. m : unique[i] \in Nat
    BY <1>2
  <2>2. PICK first : first = SubSeq(unique, 1, m)
    OBVIOUS
  <2>3. first \in Seq(Nat) /\ Len(first) = m /\ \A i \in 1 .. m : first[i] = unique[i]
    BY <2>1, <2>2, SubSeqProperties
  <2> QED BY <1>3, <2>2, <2>3
<1>5. \A i, j \in DOMAIN asked : asked[i] = asked[j] => i = j
  BY <1>1, <1>2, <1>4
<1>6. ToSet(asked) \subseteq Purls
  BY <1>1, <1>2, <1>4 DEF ToSet
<1>7. ASSUME pc = "ok" PROVE ToSet(asked) = Purls
  <2>1. Answered = n
    BY <1>2, <1>7, BatchSizeFacts DEF IInv, Asking, Answered
  <2>2. asked = SubSeq(unique, 1, n)
    BY <1>7, <2>1 DEF IInv, Asking, Sent
  <2>3. SubSeq(unique, 1, n) = unique
    BY <1>1, <1>2, SubSeqFull
  <2> QED BY <1>1, <2>2, <2>3
<1> QED BY <1>5, <1>6, <1>7 DEF AskedOnce

\* No purl is asked about twice, and none is left out of an answered call.
THEOREM PurlsAskedOnce == Spec => []AskedOnce
BY Invariance, SentOnce, PTL

\* The IDs of the first pages, in a call that has returned.
LEMMA IdsOfPages ==
  ASSUME IInv, pc = "ok"
  PROVE  DOMAIN idsByPurl = Purls /\ \A p \in Purls : idsByPurl[p] = FirstPage(p)
                                                     /\ ToSet(FirstPage(p)) \subseteq IdSet
<1>1. DOMAIN idsByPurl = Purls /\ \A p \in DOMAIN idsByPurl : idsByPurl[p] = FirstPage(p)
  BY AskingFacts
<1> QED BY <1>1 DEF IdSet

\* The records of all IDs give each finding as often as it was listed.
LEMMA Complete == IInv => FindingsAreComplete
<1> SUFFICES ASSUME IInv, pc = "ok", ~ended, NEW p \in Purls, NEW id
             PROVE  Count(findings, LAMBDA f : f.purl = p /\ f.ref = id)
                      = Count(pkgs, LAMBDA q : q = p) * Count(FirstPage(p), LAMBDA x : x = id)
  BY DEF FindingsAreComplete
<1>1. pkgs \in Seq(Nat) /\ ToSet(unique) = Purls /\ Told
  BY AskingFacts, StartedFacts DEF IInv
<1>2. PICK ids : ids = FirstPage(p)
  OBVIOUS
<1>3. DOMAIN idsByPurl = Purls /\ idsByPurl[p] = ids /\ ToSet(ids) \subseteq IdSet
  BY <1>2, IdsOfPages
<1>4. unique # <<>>
  BY <1>1 DEF ToSet
<1>5. PICK positions \in AnswersFor(Cardinality(IdSet), ended) : findings = FindingsAt(positions)
  BY <1>4 DEF IInv, Reported
<1>6. positions = 1 .. Cardinality(IdSet)
  BY <1>5 DEF AnswersFor
<1>7. {uniqueIDs[i] : i \in positions} = IdSet
  BY <1>6, IdFacts
<1>8. findings = sortFindings(Findings(QueryResult(IdSet)))
  BY <1>5, <1>7 DEF FindingsAt
<1>9. PICK told, packages, listed :
        /\ told = {k \in DOMAIN findings : findings[k].purl = p /\ findings[k].ref = id}
        /\ packages = {i \in DOMAIN pkgs : pkgs[i] = p}
        /\ listed = {j \in DOMAIN ids : ids[j] = id}
  OBVIOUS
<1>10. Cardinality(told) = Cardinality(packages) * Cardinality(listed)
  <2>1. CASE id \in IdSet
    BY <1>1, <1>3, <1>8, <1>9, <2>1, CountFacts
  <2>2. CASE id \notin IdSet
    <3>1. listed = {}
      BY <1>3, <1>9, <2>2 DEF ToSet
    <3>2. told = {}
      <4> SUFFICES ASSUME NEW k \in told PROVE FALSE
        OBVIOUS
      <4>1. findings[k] \in ToSet(findings) /\ findings[k].ref = id
        BY <1>9 DEF ToSet
      <4>2. PICK q, x : q \in DOMAIN idsByPurl /\ x \in ToSet(FirstPage(q)) /\ findings[k] = Finding(q, x)
        BY <1>5, <4>1, FindingsAtFacts
      <4>3. x = id
        BY <4>1, <4>2 DEF Finding
      <4> QED BY <1>3, <2>2, <4>2, <4>3, IdsOfPages
    <3>3. IsFiniteSet(packages)
      <4>1. PICK n \in Nat : DOMAIN pkgs = 1 .. n
        BY <1>1
      <4>2. IsFiniteSet(DOMAIN pkgs)
        BY <4>1, FS_Interval
      <4>3. packages \subseteq DOMAIN pkgs
        BY <1>9
      <4> QED BY <4>2, <4>3, FS_Subset
    <3>4. Cardinality(packages) \in Nat /\ Cardinality(told) = 0 /\ Cardinality(listed) = 0
      BY <3>1, <3>2, <3>3, FS_CardinalityType, FS_EmptySet
    <3> QED BY <3>4
  <2> QED BY <2>1, <2>2
<1> QED BY <1>2, <1>9, <1>10 DEF Count

(* Without an early end of the context, each package has as many findings  *)
(* of an ID as the answer about its purl listed it.                        *)
THEOREM FindingsComplete == Spec => []FindingsAreComplete
BY Invariance, Complete, PTL

\* The records of the first IDs give all of their findings and no others.
LEMMA Consistent == IInv => CutShortConsistently
<1> SUFFICES ASSUME IInv, pc = "ok"
             PROVE  LET reported == {f.ref : f \in ToSet(findings)}
                    IN  /\ \A f \in ToSet(findings) : Contains(FirstPage(f.purl), f.ref)
                        /\ \A p \in Purls : \A id \in ToSet(FirstPage(p)) :
                             (\E r \in reported : r >= id) =>
                               \E f \in ToSet(findings) : f.purl = p /\ f.ref = id
  BY DEF CutShortConsistently
<1>1. CASE findings = <<>>
  BY <1>1 DEF ToSet
<1>2. CASE \E positions \in AnswersFor(Cardinality(IdSet), ended) : findings = FindingsAt(positions)
  <2>1. PICK positions \in AnswersFor(Cardinality(IdSet), ended) : findings = FindingsAt(positions)
    BY <1>2
  <2>2. PICK fetched : fetched = {uniqueIDs[i] : i \in positions}
    OBVIOUS
  <2>3. \A f : f \in ToSet(findings) <=>
          \E p \in Purls : \E id \in ToSet(FirstPage(p)) \cap fetched : f = Finding(p, id)
    <3>1. DOMAIN idsByPurl = Purls
      BY IdsOfPages
    <3> QED BY <2>1, <2>2, <3>1, FindingsAtFacts
  <2>4. PICK n \in Nat : n = Cardinality(IdSet) /\ DOMAIN uniqueIDs = 1 .. n
    BY IdFacts
  <2>5. PICK m \in 0 .. n : positions = 1 .. m
    BY <2>1, <2>4 DEF AnswersFor
  <2>6. ASSUME NEW f \in ToSet(findings) PROVE Contains(FirstPage(f.purl), f.ref)
    <3>1. PICK p, id : p \in Purls /\ id \in ToSet(FirstPage(p)) /\ f = Finding(p, id)
      BY <2>3
    <3>2. f.purl = p /\ f.ref = id
      BY <3>1 DEF Finding
    <3>3. FirstPage(p) \in Seq(Nat)
      BY <3>1, StartedFacts DEF IInv
    <3> QED BY <3>1, <3>2, <3>3 DEF Contains, ToSet
  <2>7. ASSUME NEW p \in Purls, NEW id, id \in ToSet(FirstPage(p)), NEW g \in ToSet(findings), g.ref >= id
        PROVE  \E f \in ToSet(findings) : f.purl = p /\ f.ref = id
    <3>1. PICK i \in positions : g.ref = uniqueIDs[i]
      BY <2>2, <2>3 DEF Finding
    <3>2. PICK j \in DOMAIN uniqueIDs : id = uniqueIDs[j]
      BY <2>7, IdsOfPages, IdFacts
    <3>3. i \in DOMAIN uniqueIDs /\ uniqueIDs[i] \in Nat /\ uniqueIDs[j] \in Nat
      <4>1. i \in DOMAIN uniqueIDs
        BY <2>4, <2>5
      <4> QED BY <3>2, <4>1, IdFacts
    <3>4. ~(uniqueIDs[i] < uniqueIDs[j])
      BY <2>7, <3>1, <3>2, <3>3
    <3>5. ~(i < j)
      BY <3>2, <3>3, <3>4, IdFacts
    <3>6. j \in positions
      BY <2>4, <2>5, <3>2, <3>3, <3>5
    <3>7. Finding(p, id) \in ToSet(findings)
      BY <2>2, <2>3, <2>7, <3>2, <3>6
    <3> QED BY <3>7 DEF Finding
  <2> QED BY <2>6, <2>7
<1> QED BY <1>1, <1>2 DEF IInv, Reported

(* What a deadline cuts short is a beginning of the sorted IDs: nothing is *)
(* made up, and no package has an advisory that another one misses.        *)
THEOREM CutShortIsConsistent == Spec => []CutShortConsistently
BY Invariance, Consistent, PTL

----
(***************************************************************************)
(* The client: OsvQuery with the goroutines of the pool.                   *)
(***************************************************************************)
Pool == INSTANCE OsvFetch_proofs WITH
  Sizes <- Nat \ {0},
  numIds <- Cardinality(IdSet),
  pc <- workerPc

all == <<vars, pool>>

\* The pool is as it was made until it starts, and keeps its own invariant as it runs;
\* its context ends with the caller's only.
ClientInv ==
  /\ IInv
  /\ pc \in {"ask", "wait"} =>
       /\ next = 1 /\ jobsClosed = FALSE /\ results = <<>> /\ resultsClosed = FALSE
       /\ out = {} /\ firstErr = 0 /\ ret = "none"
  /\ Fetching => Pool!IInv /\ (ctx = "ended" => ended)

\* A step of the pool, as the client takes it, is one of OsvFetch.
LEMMA PoolSteps ==
  /\ FeederStep => Pool!Next /\ UNCHANGED vars
  /\ \A w : WorkerSteps(w) \/ ServerStep(w) => Pool!Next /\ UNCHANGED vars
  /\ CloserStep => Pool!Next /\ UNCHANGED vars
  /\ CollectorStep => Pool!Next /\ UNCHANGED vars
  /\ Fetch!Return => Pool!Return
  /\ Fetch!Drained <=> Pool!Drained
<1>1. Fetch!Workers = Pool!Workers
  BY DEF Fetch!Workers, Fetch!NumWorkers, Fetch!vulnFetchConcurrency,
         Pool!Workers, Pool!NumWorkers, Pool!vulnFetchConcurrency
<1>2. Fetch!Feeder => Pool!Feeder
  BY <1>1 DEF Fetch!Feeder, Fetch!FeederStops, Fetch!FeederDone, Fetch!SendJob, Fetch!HasMore, Fetch!Advance,
              Pool!Feeder, Pool!FeederStops, Pool!FeederDone, Pool!SendJob, Pool!HasMore, Pool!Advance
<1>3. \A w, b : Fetch!Report(w, b) => Pool!Report(w, b)
  BY DEF Fetch!Report, Fetch!ResultsCap, Pool!Report, Pool!ResultsCap
<1>4. \A w : Fetch!WorkerStep(w) => Pool!WorkerStep(w)
  BY <1>3 DEF Fetch!WorkerStep, Fetch!StartRequest, Fetch!RequestAborts, Fetch!Abortable, Fetch!WorkerDone,
              Pool!WorkerStep, Pool!StartRequest, Pool!RequestAborts, Pool!Abortable, Pool!WorkerDone
<1>5. \A w : Fetch!ServerAnswers(w) => Pool!ServerAnswers(w)
  BY <1>3 DEF Fetch!ServerAnswers, Fetch!RequestOk, Fetch!RequestFails,
              Pool!ServerAnswers, Pool!RequestOk, Pool!RequestFails
<1>6. Fetch!CloseResults => Pool!CloseResults
  BY <1>1 DEF Fetch!CloseResults, Fetch!WorkersAreGone, Pool!CloseResults, Pool!WorkersAreGone
<1>7. Fetch!CollectOk \/ Fetch!CollectError => Pool!Collector
  BY DEF Fetch!CollectOk, Fetch!CollectError, Fetch!ErrorKept,
         Pool!Collector, Pool!CollectOk, Pool!CollectError, Pool!ErrorKept
<1>8. Fetch!Return => Pool!Return
  BY DEF Fetch!Return, Fetch!Drained, Pool!Return, Pool!Drained
<1>9. Fetch!Drained <=> Pool!Drained
  BY DEF Fetch!Drained, Pool!Drained
<1> QED
  BY <1>1, <1>2, <1>4, <1>5, <1>6, <1>7, <1>8, <1>9
  DEF FeederStep, WorkerSteps, ServerStep, CloserStep, CollectorStep, Pool!Next

\* The records the pool hands over are those it promises.
LEMMA PoolPromise ==
  ASSUME ClientInv, Fetching, Pool!Drained, firstErr = 0
  PROVE  out \in AnswersFor(Cardinality(IdSet), ended)
<1>1. Pool!IInv /\ (ctx = "ended" => ended)
  BY DEF ClientInv
<1>2. /\ next - 1 \in 0 .. Cardinality(IdSet) /\ out = 1 .. next - 1
      /\ out = Pool!Ids \/ ctx = "ended"
  BY <1>1, PoolAssumption, Pool!DrainedFacts
<1>3. Pool!Ids = 1 .. Cardinality(IdSet)
  BY DEF Pool!Ids
<1> QED
  BY <1>1, <1>2, <1>3 DEF AnswersFor

\* None of these steps ends the caller's context.
LEMMA ContextStays ==
  ASSUME FeederStep \/ CloserStep \/ CollectorStep \/ \E w : WorkerSteps(w) \/ ServerStep(w)
  PROVE  ctx' \in {ctx, "cancelled"}
<1>1. \A w, b : Fetch!Report(w, b) => ctx' = ctx
  BY DEF Fetch!Report
<1>2. \A w : Fetch!WorkerStep(w) \/ Fetch!ServerAnswers(w) => ctx' = ctx
  BY <1>1 DEF Fetch!WorkerStep, Fetch!StartRequest, Fetch!RequestAborts, Fetch!WorkerDone,
              Fetch!ServerAnswers, Fetch!RequestOk, Fetch!RequestFails
<1>3. Fetch!Feeder \/ Fetch!CloseResults => ctx' = ctx
  BY DEF Fetch!Feeder, Fetch!FeederStops, Fetch!FeederDone, Fetch!SendJob, Fetch!CloseResults
<1>4. Fetch!CollectOk \/ Fetch!CollectError => ctx' \in {ctx, "cancelled"}
  BY DEF Fetch!CollectOk, Fetch!CollectError
<1> QED
  BY <1>2, <1>3, <1>4 DEF FeederStep, CloserStep, CollectorStep, WorkerSteps, ServerStep

LEMMA PoolInit == Pool!Init => Pool!IInv
BY PoolAssumption, Pool!InvInit

LEMMA PoolInvStep == Pool!IInv /\ [Pool!Next]_(Pool!vars) => Pool!IInv'
BY PoolAssumption, Pool!TypeStep, Pool!ControlStep, Pool!TrackingStep DEF Pool!IInv

\* The goroutines start as OsvFetch says, on a context that may be done already.
LEMMA PoolStarts ==
  ASSUME ClientInv, StartPool
  PROVE  UNCHANGED <<pkgs, db, ended, unique, start, idsByPurl, asked, findings>> /\ pc = "ask" /\ pc' = "fetch"
         /\ (IdSet # {} => Pool!IInv') /\ (ctx' = "ended" => ended')
<1>1. /\ UNCHANGED <<pkgs, db, ended, unique, start, idsByPurl, asked, findings>> /\ pc = "ask" /\ pc' = "fetch"
      /\ UNCHANGED <<next, jobsClosed, results, resultsClosed, out, firstErr, ret>>
      /\ ctx' = IF ended THEN "ended" ELSE "live"
      /\ workerPc' = [w \in IF IdSet = {} THEN {} ELSE Fetch!Workers |-> "range"]
      /\ job' = [w \in DOMAIN workerPc' |-> 0]
  BY DEF StartPool, StartFetch, Derived
<1>2. next = 1 /\ jobsClosed = FALSE /\ results = <<>> /\ resultsClosed = FALSE
      /\ out = {} /\ firstErr = 0 /\ ret = "none"
  BY <1>1 DEF ClientInv
<1>3. IdSet' = IdSet
  BY <1>1 DEF IdSet
<1>4. ASSUME IdSet # {} PROVE Pool!IInv'
  <2>1. Cardinality(IdSet) \in Nat \ {0}
    <3>1. IsFiniteSet(IdSet) /\ Cardinality(IdSet) \in Nat
      BY IdFacts DEF ClientInv
    <3> QED BY <1>4, <3>1, FS_EmptySet
  <2>2. Pool!Workers' = Pool!Workers /\ Fetch!Workers = Pool!Workers
    BY <1>3 DEF Fetch!Workers, Fetch!NumWorkers, Fetch!vulnFetchConcurrency,
                Pool!Workers, Pool!NumWorkers, Pool!vulnFetchConcurrency
  <2>3. workerPc' = [w \in Pool!Workers' |-> "range"] /\ job' = [w \in Pool!Workers' |-> 0]
    BY <1>1, <1>4, <2>2
  <2>4. ctx' \in {"live", "ended"}
    BY <1>1
  <2>5. Pool!Init'
    BY <1>1, <1>2, <1>3, <2>1, <2>3, <2>4 DEF Pool!Init
  <2> QED BY <2>5, PoolInit, PTL
<1>5. ctx' = "ended" => ended'
  BY <1>1
<1> QED BY <1>1, <1>4, <1>5

\* Each step of the client is a step of OsvQuery, or one inside of the pool.
LEMMA ClientRefines == ClientInv /\ [ClientNext]_all => [Next]_vars
<1> SUFFICES ASSUME ClientInv, [ClientNext]_all PROVE [Next]_vars
  OBVIOUS
<1>1. CASE Batches \/ StartPool \/ DeadlineEnds \/ Finished
  BY <1>1 DEF Batches, StartPool, DeadlineEnds, Finished, Next
<1>2. CASE NothingToFetch
  <2>1. IdSet = {} /\ FetchReturns({})
    BY <1>2 DEF NothingToFetch
  <2>2. Cardinality(IdSet) = 0
    BY <2>1, FS_EmptySet
  <2>3. {} \in AnswersFor(Cardinality(IdSet), ended)
    <3>1. 1 .. 0 = {} /\ 0 \in 0 .. 0
      OBVIOUS
    <3> QED BY <2>2, <3>1 DEF AnswersFor
  <2> QED BY <2>1, <2>3 DEF FetchOk, Next
<1>3. CASE FeederStep \/ CloserStep \/ CollectorStep \/ \E w : WorkerSteps(w) \/ ServerStep(w)
  BY <1>3, PoolSteps
<1>4. CASE PoolReturns
  <2>1. /\ Fetching /\ Pool!Drained
        /\ IF firstErr = 0 THEN FetchReturns(out) ELSE FetchFails
    BY <1>4, PoolSteps DEF PoolReturns
  <2>2. CASE firstErr = 0
    <3>1. out \in AnswersFor(Cardinality(IdSet), ended)
      BY <2>1, <2>2, PoolPromise
    <3> QED BY <2>1, <2>2, <3>1 DEF FetchOk, Next
  <2>3. CASE firstErr # 0
    BY <2>1, <2>3 DEF Next
  <2> QED BY <2>2, <2>3
<1>5. CASE UNCHANGED all
  BY <1>5 DEF all
<1> QED
  BY <1>1, <1>2, <1>3, <1>4, <1>5 DEF ClientNext

LEMMA ClientStep == ClientInv /\ [ClientNext]_all => ClientInv'
<1> SUFFICES ASSUME ClientInv, [ClientNext]_all PROVE ClientInv'
  OBVIOUS
<1>1. IInv'
  BY ClientRefines, StartedStep, AskingStep, ReportedStep DEF ClientInv, IInv
<1>2. ASSUME pc' \in {"ok", "error"} PROVE ClientInv'
  BY <1>1, <1>2 DEF ClientInv, Fetching
<1>3. ASSUME Fetching, pc' = pc, UNCHANGED idsByPurl, [Pool!Next]_(Pool!vars),
             ended => ended', ctx' \in {ctx, "cancelled"} \/ ended'
      PROVE  ClientInv'
  <2>1. Pool!IInv' /\ (ctx = "ended" => ended)
    BY <1>3, PoolInvStep DEF ClientInv
  <2>2. pc' = "fetch"
    BY <1>3 DEF Fetching
  <2> QED BY <1>1, <1>3, <2>1, <2>2 DEF ClientInv
<1>4. ASSUME UNCHANGED <<pc, idsByPurl, pool>>, ended => ended' PROVE ClientInv'
  <2>1. UNCHANGED Pool!vars /\ IdSet' = IdSet
    BY <1>4 DEF Pool!vars, pool, IdSet
  <2>2. Fetching' => Pool!IInv' /\ (ctx' = "ended" => ended')
    BY <1>4, <2>1, PoolInvStep DEF ClientInv, Fetching, pool
  <2> QED BY <1>1, <1>4, <2>2 DEF ClientInv, pool
<1>5. CASE Batches
  <2>1. pc \in {"ask", "wait"} /\ pc' \in {"ask", "wait", "error"} /\ UNCHANGED pool
    BY <1>5 DEF Batches, StartBatch, BatchOk, BatchFails
  <2> QED BY <1>1, <2>1 DEF ClientInv, pool, Fetching
<1>6. CASE StartPool
  <2>1. pc' = "fetch" /\ IdSet' = IdSet /\ (IdSet # {} => Pool!IInv') /\ (ctx' = "ended" => ended')
    BY <1>6, PoolStarts DEF IdSet
  <2> QED BY <1>1, <2>1 DEF ClientInv, Fetching
<1>7. CASE NothingToFetch \/ PoolReturns
  <2>1. pc' \in {"ok", "error"}
    BY <1>7 DEF NothingToFetch, PoolReturns, FetchReturns, FetchFails
  <2> QED BY <1>2, <2>1
<1>8. CASE FeederStep \/ CloserStep \/ CollectorStep \/ \E w : WorkerSteps(w) \/ ServerStep(w)
  <2>1. Pool!Next /\ UNCHANGED vars
    BY <1>8, PoolSteps
  <2>2. ctx' \in {ctx, "cancelled"}
    BY <1>8, ContextStays
  <2>3. Fetching
    BY <1>8 DEF FeederStep, CloserStep, CollectorStep, WorkerSteps, ServerStep
  <2> QED BY <1>3, <2>1, <2>2, <2>3 DEF vars
<1>9. CASE DeadlineEnds
  <2>1. UNCHANGED <<pc, idsByPurl>> /\ ended'
    BY <1>9 DEF DeadlineEnds, ContextEnds
  <2>2. CASE Fetching /\ ctx = "live"
    <3>1. Pool!CallerContextEnds
      <4>1. IdSet' = IdSet
        BY <2>1 DEF IdSet
      <4> QED BY <1>9, <2>2, <4>1 DEF DeadlineEnds, Fetching, Pool!CallerContextEnds
    <3>2. Pool!Next
      BY <3>1 DEF Pool!Next
    <3> QED BY <1>3, <2>1, <2>2, <3>2
  <2>3. CASE pc = "fetch" /\ ctx = "live" /\ IdSet = {}
    <3>1. IdSet' = IdSet
      BY <2>1 DEF IdSet
    <3> QED BY <1>1, <2>1, <2>3, <3>1 DEF ClientInv, Fetching
  <2>4. CASE ~(pc = "fetch" /\ ctx = "live")
    <3>1. UNCHANGED pool
      BY <1>9, <2>4 DEF DeadlineEnds
    <3> QED BY <1>4, <2>1, <3>1
  <2> QED BY <2>2, <2>3, <2>4 DEF Fetching
<1>10. CASE Finished \/ UNCHANGED all
  <2>1. UNCHANGED <<pc, idsByPurl, pool>> /\ ended' = ended
    BY <1>10 DEF Finished, Terminated, all, vars
  <2> QED BY <1>4, <2>1
<1> QED
  BY <1>5, <1>6, <1>7, <1>8, <1>9, <1>10 DEF ClientNext

LEMMA ClientInvariance == ClientSpec => []ClientInv
<1>1. ClientInit => ClientInv
  <2> SUFFICES ASSUME ClientInit PROVE ClientInv
    OBVIOUS
  <2>1. IInv
    BY InvInit DEF ClientInit
  <2>2. pc # "fetch"
    BY DEF ClientInit, Init
  <2> QED BY <2>1, <2>2 DEF ClientInv, ClientInit, Fetching
<1> QED BY <1>1, ClientStep, PTL DEF ClientSpec, all

(* With the goroutines of the pool in it, Query takes the steps of OsvQuery *)
(* and no others, for any concurrency and any number of IDs.                *)
THEOREM ClientTakesItsSteps == ClientSpec => Init /\ [][Next]_vars
<1>1. ClientInit => Init
  BY DEF ClientInit
<1> QED BY <1>1, ClientInvariance, ClientRefines, PTL DEF ClientSpec, all

(* So what holds of OsvQuery holds of the whole client.                    *)
THEOREM ClientCorrect ==
  ClientSpec => [](TypeOK /\ AskedOnce /\ FindingsAreComplete /\ CutShortConsistently)
<1>1. ClientInv => TypeOK /\ AskedOnce /\ FindingsAreComplete /\ CutShortConsistently
  BY Types, SentOnce, Complete, Consistent DEF ClientInv
<1> QED BY <1>1, ClientInvariance, PTL
====

---- MODULE Generate_proofs ----
(***************************************************************************)
(* Proofs about Generate, for all SBOMs, advisories, answers and commits:  *)
(* what the data is made of on its way to the document, and where the      *)
(* process can be with what.                                               *)
(***************************************************************************)
EXTENDS Generate, Lists_proofs

----
(* Words in order.                                                         *)

\* Places are distinct numbers, so their order is one of the words.
LEMMA WordOrder ==
  ASSUME NEW W \in SUBSET Words
  PROVE  StrictOrder(W, {p \in W \X W : StringLess(p[1], p[2])})
<1>1. \A s \in W : Place[s] \in Nat
  BY PlaceAssumption DEF Words
<1>2. \A s, t \in W : Place[s] = Place[t] => s = t
  BY PlaceAssumption DEF Words
<1>3. PICK before : before = {p \in W \X W : StringLess(p[1], p[2])}
  OBVIOUS
<1>4. \A s, t \in W : <<s, t>> \in before <=> Place[s] < Place[t]
  BY <1>3 DEF StringLess
<1>5. StrictOrder(W, before)
  BY <1>1, <1>2, <1>4 DEF StrictOrder
<1> QED BY <1>3, <1>5

\* Sorted words: each one once, and in order.
LEMMA SortedWords ==
  ASSUME NEW W \in SUBSET Words, IsFiniteSet(W)
  PROVE  /\ Sorted(W, StringLess) \in Seq(W)
         /\ ToSet(Sorted(W, StringLess)) = W
         /\ \A i, j \in DOMAIN Sorted(W, StringLess) :
              i < j => StringLess(Sorted(W, StringLess)[i], Sorted(W, StringLess)[j])
<1>1. PICK before : before = {p \in W \X W : StringLess(p[1], p[2])}
  OBVIOUS
<1>2. StrictOrder(W, before) /\ Sorted(W, StringLess) = Enumeration(W, before)
  BY <1>1, WordOrder DEF Sorted
<1>3. /\ Sorted(W, StringLess) \in Seq(W)
      /\ ToSet(Sorted(W, StringLess)) = W
      /\ \A i, j \in DOMAIN Sorted(W, StringLess) :
           i < j <=> <<Sorted(W, StringLess)[i], Sorted(W, StringLess)[j]>> \in before
  BY <1>2, EnumerationElements
<1>4. \A p \in before : StringLess(p[1], p[2])
  BY <1>1
<1> QED BY <1>3, <1>4

----
(* What the data of a run is made of.                                      *)

Entries ==
  [name : Words \X Words, arch : DOMAIN ArchWords, unaffected : Seq(RangeType), vulnerable : Seq(RangeType)]

LoadedAdvisories == [id : Words, packages : Seq(Entries), cves : Seq(Words)]

FileContents == AdvisoryFiles \cup {NoFile, Garbled}

Packages == [category : Words, name : Words, version : Words, purl : Words]

Findings ==
  [cve : Words, source : {"glsa", "osv"}, ref : Words, package : Packages, affected : BOOLEAN]

(* What is loaded of an advisory: its CVEs are those of its references.    *)
LEMMA LoadFileFacts ==
  ASSUME NEW x \in AdvisoryFiles
  PROVE  /\ loadFile(x) \in LoadedAdvisories
         /\ loadFile(x).id = x.id /\ loadFile(x).packages = x.packages
         /\ ToSet(loadFile(x).cves) = UNION {ToSet(x.uris[i]) : i \in DOMAIN x.uris}
<1> DEFINE W == UNION {ToSet(x.uris[i]) : i \in DOMAIN x.uris}
<1>1. x.id \in Words /\ x.packages \in Seq(Entries) /\ x.uris \in Seq(Seq(Words))
  BY DEF AdvisoryFiles, Entries
<1>2. FlattenSeq(x.uris) \in Seq(Words) /\ ToSet(FlattenSeq(x.uris)) = W
  BY <1>1, FlattenFacts
<1>3. IsFiniteSet(W) /\ W \in SUBSET Words
  <2> HIDE DEF W
  <2> QED BY <1>2, ElementsFinite
<1>4. cves(x.uris) = Sorted(W, StringLess)
  BY DEF cves
<1>5. cves(x.uris) \in Seq(W) /\ ToSet(cves(x.uris)) = W
  <2> HIDE DEF W
  <2> QED BY <1>3, <1>4, SortedWords
<1>6. cves(x.uris) \in Seq(Words)
  <2> HIDE DEF W
  <2> QED BY <1>3, <1>5
<1> QED BY <1>1, <1>5, <1>6 DEF loadFile, LoadedAdvisories

----
(* sbom.Load.                                                              *)

SpdxRefs ==
  {r \in [type : STRING, locator : STRING] : r.type = "purl" => r.locator \in DOMAIN Purl}

SpdxPackages == [versionInfo : Words, externalRefs : Seq(SpdxRefs)]

\* The purls of a package are those of its references that have the type.
LEMMA PurlsInFacts ==
  ASSUME NEW sp \in SpdxPackages, NEW types
  PROVE  /\ PurlsIn(sp, types) \in Seq(DOMAIN Purl)
         /\ \A x \in ToSet(PurlsIn(sp, types)) :
              Purl[x].type \in types /\ \E r \in ToSet(sp.externalRefs) : r.type = "purl" /\ r.locator = x
         /\ \A r \in ToSet(sp.externalRefs) :
              r.type = "purl" /\ Purl[r.locator].type \in types =>
                r.locator \in ToSet(PurlsIn(sp, types))
<1> DEFINE s == sp.externalRefs
           I == {i \in DOMAIN s : s[i].type = "purl" /\ Purl[s[i].locator].type \in types}
           refs == At(s, I)
<1>1. s \in Seq(SpdxRefs) /\ I \in SUBSET DOMAIN s
  BY DEF SpdxPackages
<1>2. refs \in Seq(SpdxRefs) /\ ToSet(refs) = {s[i] : i \in I}
  <2> HIDE DEF s, I
  <2> QED BY <1>1, AtFacts
<1>3. PurlsIn(sp, types) = [k \in DOMAIN refs |-> refs[k].locator]
  BY DEF PurlsIn, Select
<1>4. \A k \in DOMAIN refs : \E i \in I : refs[k] = s[i]
  <2> HIDE DEF s, I, refs
  <2> QED BY <1>2 DEF ToSet
<1>5. \A i \in I : \E k \in DOMAIN refs : refs[k] = s[i]
  <2> HIDE DEF s, I, refs
  <2> QED BY <1>2 DEF ToSet
<1>6. \A i \in I : s[i].locator \in DOMAIN Purl
  BY <1>1 DEF SpdxRefs
<1>7. DOMAIN refs = 1 .. Len(refs) /\ Len(refs) \in Nat
  <2> HIDE DEF refs
  <2> QED BY <1>2
<1>8. PurlsIn(sp, types) \in Seq(DOMAIN Purl)
  <2> HIDE DEF s, I, refs
  <2>1. \A k \in DOMAIN refs : refs[k].locator \in DOMAIN Purl
    BY <1>4, <1>6
  <2> QED BY <1>3, <1>7, <2>1
<1>9. \A x \in ToSet(PurlsIn(sp, types)) :
        Purl[x].type \in types /\ \E r \in ToSet(sp.externalRefs) : r.type = "purl" /\ r.locator = x
  <2> TAKE x \in ToSet(PurlsIn(sp, types))
  <2>1. PICK k \in DOMAIN refs : x = refs[k].locator
    <3> HIDE DEF refs
    <3> QED BY <1>3 DEF ToSet
  <2>2. PICK i \in I : refs[k] = s[i]
    BY <1>4
  <2>3. s[i] \in ToSet(sp.externalRefs)
    BY DEF ToSet
  <2> QED BY <2>1, <2>2, <2>3
<1>10. ASSUME NEW r \in ToSet(sp.externalRefs), r.type = "purl", Purl[r.locator].type \in types
       PROVE  r.locator \in ToSet(PurlsIn(sp, types))
  <2>1. PICK i \in I : r = s[i]
    BY <1>10 DEF ToSet
  <2>2. PICK k \in DOMAIN refs : refs[k] = s[i]
    BY <1>5
  <2> HIDE DEF s, I, refs
  <2> QED BY <1>3, <2>1, <2>2 DEF ToSet
<1> QED BY <1>8, <1>9, <1>10

\* What becomes of an SPDX package with an ebuild purl.
LEMMA EbuildOfFacts ==
  ASSUME NEW sp \in SpdxPackages
  PROVE  /\ EbuildOf(sp) \in Seq(Packages) /\ Len(EbuildOf(sp)) \in {0, 1}
         /\ PurlsIn(sp, {"ebuild"}) = <<>> => EbuildOf(sp) = <<>>
         /\ PurlsIn(sp, {"ebuild"}) # <<>> /\ parseEbuildPurlOk(PurlsIn(sp, {"ebuild"})[1]) =>
              EbuildOf(sp) = <<EbuildPackage(sp, PurlsIn(sp, {"ebuild"})[1])>>
<1> DEFINE purls == PurlsIn(sp, {"ebuild"})
<1>1. purls \in Seq(DOMAIN Purl)
  BY PurlsInFacts
<1>2. EbuildOf(sp) =
        IF purls = <<>> \/ ~parseEbuildPurlOk(Head(purls)) THEN <<>> ELSE <<EbuildPackage(sp, Head(purls))>>
  BY DEF EbuildOf
<1> HIDE DEF purls
<1>3. purls # <<>> => Head(purls) = purls[1] /\ Head(purls) \in DOMAIN Purl
  BY <1>1
<1>4. purls # <<>> => EbuildPackage(sp, Head(purls)) \in Packages
  BY <1>3, PurlAssumption DEF EbuildPackage, Packages, SpdxPackages
<1>5. CASE purls = <<>> \/ ~parseEbuildPurlOk(Head(purls))
  BY <1>2, <1>3, <1>5 DEF purls
<1>6. CASE ~(purls = <<>> \/ ~parseEbuildPurlOk(Head(purls)))
  <2>1. EbuildOf(sp) = <<EbuildPackage(sp, Head(purls))>>
    BY <1>2, <1>6
  <2> QED BY <1>3, <1>4, <1>6, <2>1 DEF purls
<1> QED BY <1>5, <1>6

\* What becomes of one with a purl of an ecosystem.
LEMMA OsvOfFacts ==
  ASSUME NEW sp \in SpdxPackages
  PROVE  /\ OsvOf(sp) \in Seq(Packages) /\ Len(OsvOf(sp)) \in {0, 1}
         /\ OsvOf(sp) # <<>> => PurlsIn(sp, {"ebuild"}) = <<>>
         /\ \A pkg \in ToSet(OsvOf(sp)) :
              /\ pkg.version = sp.versionInfo /\ pkg.purl \in ToSet(PurlsIn(sp, {pkg.category}))
              /\ TrimSpace(pkg.version) \notin {"", "(devel)"} /\ pkg.name \notin {"", "../api"}
<1> DEFINE purls == PurlsIn(sp, osvEcosystems)
           none == \/ PurlsIn(sp, {"ebuild"}) # <<>> \/ purls = <<>> \/ ~parseOSVPurlOk(Head(purls))
                   \/ ~isQueryableVersion(sp.versionInfo)
<1>1. purls \in Seq(DOMAIN Purl)
  BY PurlsInFacts
<1>2. OsvOf(sp) = IF none THEN <<>> ELSE <<OsvPackage(sp, Head(purls))>>
  BY DEF OsvOf
<1>3. CASE none
  <2>1. OsvOf(sp) = <<>>
    BY <1>2, <1>3
  <2> QED BY <2>1 DEF ToSet
<1>4. CASE ~none
  <2>1. PICK x : x = Head(purls)
    OBVIOUS
  <2>2. x \in DOMAIN Purl /\ x \in ToSet(purls)
    BY <1>1, <1>4, <2>1 DEF ToSet
  <2>3. PICK pkg : pkg = OsvPackage(sp, x)
    OBVIOUS
  <2>4. OsvOf(sp) = <<pkg>>
    BY <1>2, <1>4, <2>1, <2>3
  <2>5. pkg \in Packages
    BY <2>2, <2>3, PurlAssumption DEF OsvPackage, Packages, SpdxPackages
  <2>6. /\ pkg.version = sp.versionInfo /\ pkg.purl = x /\ pkg.category = Purl[x].type
        /\ pkg.name = Purl[x].path
    BY <2>3 DEF OsvPackage
  <2>7. PICK r \in ToSet(sp.externalRefs) : r.type = "purl" /\ r.locator = x
    BY <2>2, PurlsInFacts
  <2>8. x \in ToSet(PurlsIn(sp, {Purl[x].type}))
    BY <2>7, PurlsInFacts
  <2>9. TrimSpace(pkg.version) \notin {"", "(devel)"} /\ pkg.name \notin {"", "../api"}
    BY <1>4, <2>1, <2>6, PrefixAssumption DEF isQueryableVersion, parseOSVPurlOk
  <2>10. ToSet(<<pkg>>) = {pkg}
    BY DEF ToSet
  <2> HIDE DEF purls
  <2>11. OsvOf(sp) \in Seq(Packages) /\ Len(OsvOf(sp)) = 1
    BY <2>4, <2>5
  <2>12. PurlsIn(sp, {"ebuild"}) = <<>>
    BY <1>4
  <2>13. \A q \in ToSet(OsvOf(sp)) : q = pkg
    BY <2>4, <2>10
  <2> QED BY <2>6, <2>8, <2>9, <2>11, <2>12, <2>13
<1> QED BY <1>3, <1>4

(* What sbom.Load makes of a document.                                     *)
LEMMA LoadFacts ==
  ASSUME NEW d \in Documents
  PROVE  /\ Load(d).packages \in Seq(Packages) /\ Load(d).osvPackages \in Seq(Packages)
         /\ Load(d).name = d.name
         /\ \A pkg : pkg \in ToSet(Load(d).packages) <=>
                       \E sp \in ToSet(d.packages) : pkg \in ToSet(EbuildOf(sp))
         /\ \A pkg : pkg \in ToSet(Load(d).osvPackages) <=>
                       \E sp \in ToSet(d.packages) : pkg \in ToSet(OsvOf(sp))
         /\ Len(Load(d).packages) + Len(Load(d).osvPackages) <= Len(d.packages)
<1> DEFINE s == d.packages
           ebuild == [i \in DOMAIN s |-> EbuildOf(s[i])]
           osv == [i \in DOMAIN s |-> OsvOf(s[i])]
<1>1. s \in Seq(SpdxPackages)
  BY DEF Documents, SpdxPackages, SpdxRefs
<1>2. Load(d) = [name |-> d.name, packages |-> FlattenSeq(ebuild), osvPackages |-> FlattenSeq(osv)]
  BY DEF Load, ForEach
<1> HIDE DEF s
<1>3. \A i \in DOMAIN s : s[i] \in SpdxPackages
  BY <1>1
<1>4. ebuild \in [DOMAIN s -> Seq(Packages)] /\ osv \in [DOMAIN s -> Seq(Packages)]
  BY <1>3, EbuildOfFacts, OsvOfFacts
<1>5. \A i \in DOMAIN s : Len(ebuild[i]) + Len(osv[i]) <= 1
  <2> TAKE i \in DOMAIN s
  <2>1. s[i] \in SpdxPackages
    BY <1>3
  <2>2. Len(EbuildOf(s[i])) \in {0, 1} /\ Len(OsvOf(s[i])) \in {0, 1}
    BY <2>1, EbuildOfFacts, OsvOfFacts
  <2>3. OsvOf(s[i]) = <<>> \/ EbuildOf(s[i]) = <<>>
    BY <2>1, EbuildOfFacts, OsvOfFacts
  <2>4. PICK a, b : a = Len(EbuildOf(s[i])) /\ b = Len(OsvOf(s[i]))
    OBVIOUS
  <2>5. a = 0 \/ b = 0
    BY <2>3, <2>4
  <2>6. a + b <= 1
    BY <2>2, <2>4, <2>5
  <2> QED BY <2>4, <2>6
<1>6. Len(s) \in Nat /\ DOMAIN s = 1 .. Len(s)
  BY <1>1
<1> HIDE DEF ebuild, osv
<1>7. Len(FlattenSeq(ebuild)) + Len(FlattenSeq(osv)) <= Len(s)
  BY <1>4, <1>5, <1>6, FlattenLengths
<1>8. /\ FlattenSeq(ebuild) \in Seq(Packages)
      /\ \A x : x \in ToSet(FlattenSeq(ebuild)) <=> \E i \in DOMAIN s : x \in ToSet(ebuild[i])
  BY <1>1, <1>4, FlattenMembers
<1>9. /\ FlattenSeq(osv) \in Seq(Packages)
      /\ \A x : x \in ToSet(FlattenSeq(osv)) <=> \E i \in DOMAIN s : x \in ToSet(osv[i])
  BY <1>1, <1>4, FlattenMembers
<1>10. \A pkg : pkg \in ToSet(FlattenSeq(ebuild)) <=> \E sp \in ToSet(s) : pkg \in ToSet(EbuildOf(sp))
  <2>1. \A sp : sp \in ToSet(s) <=> \E i \in DOMAIN s : s[i] = sp
    BY DEF ToSet
  <2> QED BY <1>8, <2>1 DEF ebuild
<1>11. \A pkg : pkg \in ToSet(FlattenSeq(osv)) <=> \E sp \in ToSet(s) : pkg \in ToSet(OsvOf(sp))
  <2>1. \A sp : sp \in ToSet(s) <=> \E i \in DOMAIN s : s[i] = sp
    BY DEF ToSet
  <2> QED BY <1>9, <2>1 DEF osv
<1> QED BY <1>2, <1>7, <1>8, <1>9, <1>10, <1>11 DEF s

----
(* sortFindings.                                                           *)

\* Rows of six numbers, compared at the first place where they differ.
RowLess(a, b) == \E i \in 1 .. 6 : a[i] < b[i] /\ \A j \in 1 .. i - 1 : a[j] = b[j]

\* No two rows are less than each other, and of two rows in order a third one is
\* greater than the lesser or less than the greater.
LEMMA RowOrder ==
  ASSUME NEW a \in [1 .. 6 -> Nat], NEW b \in [1 .. 6 -> Nat], NEW c \in [1 .. 6 -> Nat]
  PROVE  /\ RowLess(a, b) => ~RowLess(b, a)
         /\ RowLess(a, c) => RowLess(a, b) \/ RowLess(b, c)
<1>1. ASSUME RowLess(a, b), RowLess(b, a)
      PROVE  FALSE
  <2>1. PICK i \in 1 .. 6 : a[i] < b[i] /\ \A j \in 1 .. i - 1 : a[j] = b[j]
    BY <1>1 DEF RowLess
  <2>2. PICK k \in 1 .. 6 : b[k] < a[k] /\ \A j \in 1 .. k - 1 : b[j] = a[j]
    BY <1>1 DEF RowLess
  <2>3. a[i] \in Nat /\ b[i] \in Nat /\ a[k] \in Nat /\ b[k] \in Nat
    OBVIOUS
  <2>4. ~(k < i) /\ ~(i < k)
    BY <2>1, <2>2, <2>3
  <2>5. i = k
    BY <2>4
  <2> QED BY <2>1, <2>2, <2>3, <2>5
<1>2. ASSUME RowLess(a, c)
      PROVE  RowLess(a, b) \/ RowLess(b, c)
  <2>1. PICK i \in 1 .. 6 : a[i] < c[i] /\ \A j \in 1 .. i - 1 : a[j] = c[j]
    BY <1>2 DEF RowLess
  <2> DEFINE D == {j \in 1 .. i - 1 : a[j] # b[j]}
  <2>2. \A j \in 1 .. 6 : a[j] \in Nat /\ b[j] \in Nat /\ c[j] \in Nat
    OBVIOUS
  <2>3. CASE D = {}
    <3>1. \A j \in 1 .. i - 1 : a[j] = b[j] /\ b[j] = c[j]
      BY <2>1, <2>3
    <3>2. a[i] < b[i] \/ b[i] < c[i]
      BY <2>1, <2>2
    <3> QED BY <3>1, <3>2 DEF RowLess
  <2>4. CASE D # {}
    <3>1. Min(D) \in D /\ \A j \in D : Min(D) <= j
      <4>1. D \subseteq Nat
        OBVIOUS
      <4> HIDE DEF D
      <4> QED BY <2>4, <4>1, MinOfNaturals
    <3>2. PICK m : m = Min(D)
      OBVIOUS
    <3>3. m \in 1 .. i - 1 /\ a[m] # b[m]
      BY <3>1, <3>2
    <3>4. \A j \in 1 .. m - 1 : j \in 1 .. i - 1 /\ j \notin D
      <4> TAKE j \in 1 .. m - 1
      <4>1. j \in 1 .. i - 1 /\ ~(m <= j)
        BY <3>3
      <4> HIDE DEF D
      <4> QED BY <3>1, <3>2, <4>1
    <3>5. \A j \in 1 .. m - 1 : a[j] = b[j] /\ b[j] = c[j]
      BY <2>1, <3>4
    <3>6. m \in 1 .. 6 /\ a[m] = c[m]
      BY <2>1, <3>3
    <3>7. a[m] < b[m] \/ b[m] < c[m]
      BY <2>2, <3>3, <3>6
    <3> HIDE DEF D
    <3> QED BY <3>5, <3>6, <3>7 DEF RowLess
  <2> QED BY <2>3, <2>4
<1> QED BY <1>1, <1>2

Row(f) == [i \in 1 .. 6 |-> Place[SortKey(f)[i]]]

\* The findings are compared by the places of the words of their keys.
LEMMA FindingRows ==
  ASSUME NEW f \in Findings, NEW g \in Findings
  PROVE  Row(f) \in [1 .. 6 -> Nat] /\ (FindingLess(f, g) <=> RowLess(Row(f), Row(g)))
<1>1. ASSUME NEW h \in Findings
      PROVE  \A i \in 1 .. 6 : SortKey(h)[i] \in Words
  <2>1. /\ h.cve \in Words /\ h.ref \in Words /\ h.source \in Words
        /\ h.package.category \in Words /\ h.package.name \in Words /\ h.package.version \in Words
    BY OsvAssumption DEF Findings, Packages
  <2> QED BY <2>1 DEF SortKey
<1>2. \A s \in Words : Place[s] \in Nat
  BY PlaceAssumption DEF Words
<1>3. \A s, t \in Words : Place[s] = Place[t] <=> s = t
  BY PlaceAssumption DEF Words
<1>4. Row(f) \in [1 .. 6 -> Nat]
  BY <1>1, <1>2 DEF Row
<1>5. \A i \in 1 .. 6 :
        /\ StringLess(SortKey(f)[i], SortKey(g)[i]) <=> Row(f)[i] < Row(g)[i]
        /\ SortKey(f)[i] = SortKey(g)[i] <=> Row(f)[i] = Row(g)[i]
  BY <1>1, <1>3 DEF Row, StringLess
<1>6. \A i \in 1 .. 6 : \A j \in 1 .. i - 1 : j \in 1 .. 6
  OBVIOUS
<1> QED BY <1>4, <1>5, <1>6 DEF FindingLess, RowLess

(* Sorting the findings leaves them what they are.                         *)
LEMMA SortedFindings ==
  ASSUME NEW fs \in Seq(Findings)
  PROVE  sortFindings(fs) \in Seq(Findings) /\ ToSet(sortFindings(fs)) = ToSet(fs)
<1>1. PICK less : less = {p \in (DOMAIN fs) \X (DOMAIN fs) : FindingLess(fs[p[1]], fs[p[2]])}
  OBVIOUS
<1>2. \A x, y \in DOMAIN fs : <<x, y>> \in less <=> FindingLess(fs[x], fs[y])
  BY <1>1
<1>3. \A x \in DOMAIN fs : fs[x] \in Findings
  OBVIOUS
<1>4. \A x, y \in DOMAIN fs : <<x, y>> \in less => <<y, x>> \notin less
  <2> TAKE x, y \in DOMAIN fs
  <2>1. fs[x] \in Findings /\ fs[y] \in Findings
    BY <1>3
  <2>2. /\ Row(fs[x]) \in [1 .. 6 -> Nat] /\ Row(fs[y]) \in [1 .. 6 -> Nat]
        /\ FindingLess(fs[x], fs[y]) <=> RowLess(Row(fs[x]), Row(fs[y]))
        /\ FindingLess(fs[y], fs[x]) <=> RowLess(Row(fs[y]), Row(fs[x]))
    BY <2>1, FindingRows
  <2> QED BY <1>2, <2>2, RowOrder
<1>5. \A x, y, z \in DOMAIN fs : <<x, z>> \in less => <<x, y>> \in less \/ <<y, z>> \in less
  <2> TAKE x, y, z \in DOMAIN fs
  <2>1. fs[x] \in Findings /\ fs[y] \in Findings /\ fs[z] \in Findings
    BY <1>3
  <2>2. /\ Row(fs[x]) \in [1 .. 6 -> Nat] /\ Row(fs[y]) \in [1 .. 6 -> Nat] /\ Row(fs[z]) \in [1 .. 6 -> Nat]
        /\ FindingLess(fs[x], fs[y]) <=> RowLess(Row(fs[x]), Row(fs[y]))
        /\ FindingLess(fs[y], fs[z]) <=> RowLess(Row(fs[y]), Row(fs[z]))
        /\ FindingLess(fs[x], fs[z]) <=> RowLess(Row(fs[x]), Row(fs[z]))
    BY <2>1, FindingRows
  <2> QED BY <1>2, <2>2, RowOrder
<1>6. WeakOrder(DOMAIN fs, less)
  BY <1>4, <1>5 DEF WeakOrder
<1>7. sortFindings(fs) = Along(fs, DOMAIN fs, Stably(DOMAIN fs, less))
  <2>1. Stably(DOMAIN fs, less) =
          {p \in (DOMAIN fs) \X (DOMAIN fs) :
             \/ FindingLess(fs[p[1]], fs[p[2]])
             \/ p[1] < p[2] /\ ~FindingLess(fs[p[2]], fs[p[1]])}
    BY <1>2 DEF Stably
  <2> QED BY <2>1 DEF sortFindings, Arranged
<1> QED BY <1>6, <1>7, ArrangedFacts

----
(* match.Run: which findings there are.                                    *)

GlsaFinding(cve, g, ap, pkg) ==
  [cve |-> cve, source |-> "glsa", ref |-> g.id, package |-> pkg,
   affected |-> isAffected(pkg.version, ap) = "affected"]

\* One finding for each CVE of the advisory.
LEMMA FindingsAboutFacts ==
  ASSUME NEW g \in LoadedAdvisories, NEW ap, NEW pkg \in Packages
  PROVE  /\ FindingsAbout(g, ap, pkg) \in Seq(Findings)
         /\ \A f : f \in ToSet(FindingsAbout(g, ap, pkg)) <=>
              isAffected(pkg.version, ap) # "unknown" /\ \E cve \in ToSet(g.cves) : f = GlsaFinding(cve, g, ap, pkg)
<1>1. g.cves \in Seq(Words) /\ g.id \in Words
  BY DEF LoadedAdvisories
<1>2. Len(g.cves) \in Nat /\ DOMAIN g.cves = 1 .. Len(g.cves) /\ \A i \in DOMAIN g.cves : g.cves[i] \in Words
  BY <1>1
<1>3. \A cve \in Words : GlsaFinding(cve, g, ap, pkg) \in Findings
  BY <1>1 DEF GlsaFinding, Findings
<1>4. CASE isAffected(pkg.version, ap) = "unknown"
  <2>1. FindingsAbout(g, ap, pkg) = <<>>
    BY <1>4 DEF FindingsAbout
  <2> QED BY <1>4, <2>1 DEF ToSet
<1>5. CASE isAffected(pkg.version, ap) # "unknown"
  <2>1. PICK fs : fs = [i \in DOMAIN g.cves |-> GlsaFinding(g.cves[i], g, ap, pkg)]
    OBVIOUS
  <2>2. FindingsAbout(g, ap, pkg) = fs
    BY <1>5, <2>1 DEF FindingsAbout, GlsaFinding
  <2>3. fs \in [1 .. Len(g.cves) -> Findings]
    BY <1>2, <1>3, <2>1
  <2>4. fs \in Seq(Findings)
    BY <1>2, <2>3
  <2>5. \A f : f \in ToSet(fs) <=> \E cve \in ToSet(g.cves) : f = GlsaFinding(cve, g, ap, pkg)
    BY <2>1 DEF ToSet
  <2> QED BY <1>5, <2>2, <2>4, <2>5
<1> QED BY <1>4, <1>5

\* An entry is about every package of its category and name.
LEMMA EntryFindingsFacts ==
  ASSUME NEW g \in LoadedAdvisories, NEW ap, NEW pkgs \in Seq(Packages)
  PROVE  /\ EntryFindings(g, ap, pkgs) \in Seq(Findings)
         /\ \A f : f \in ToSet(EntryFindings(g, ap, pkgs)) <=>
              \E pkg \in ToSet(pkgs) :
                CategoryName(pkg) = ap.name /\ f \in ToSet(FindingsAbout(g, ap, pkg))
<1> DEFINE I == {i \in DOMAIN pkgs : CategoryName(pkgs[i]) = ap.name}
           s == At(pkgs, I)
           ss == [i \in DOMAIN s |-> FindingsAbout(g, ap, s[i])]
<1>1. EntryFindings(g, ap, pkgs) = FlattenSeq(ss)
  BY DEF EntryFindings, ForEach, Select
<1>2. s \in Seq(Packages) /\ ToSet(s) = {pkgs[i] : i \in I}
  <2>1. I \in SUBSET DOMAIN pkgs
    OBVIOUS
  <2> HIDE DEF I
  <2> QED BY <2>1, AtFacts
<1>3. \A pkg : pkg \in ToSet(s) <=> pkg \in ToSet(pkgs) /\ CategoryName(pkg) = ap.name
  <2> HIDE DEF s
  <2> QED BY <1>2 DEF ToSet
<1>4. \A pkg : pkg \in ToSet(s) <=> \E i \in DOMAIN s : s[i] = pkg
  <2> HIDE DEF s
  <2> QED BY DEF ToSet
<1> HIDE DEF s
<1>5. ss \in [DOMAIN s -> Seq(Findings)]
  <2>1. \A i \in DOMAIN s : s[i] \in Packages
    BY <1>2
  <2> QED BY <2>1, FindingsAboutFacts
<1>6. /\ FlattenSeq(ss) \in Seq(Findings)
      /\ \A f : f \in ToSet(FlattenSeq(ss)) <=> \E i \in DOMAIN s : f \in ToSet(ss[i])
  <2> HIDE DEF ss
  <2> QED BY <1>2, <1>5, FlattenMembers
<1>7. \A i \in DOMAIN s : ss[i] = FindingsAbout(g, ap, s[i])
  OBVIOUS
<1> HIDE DEF ss
<1> QED BY <1>1, <1>3, <1>4, <1>6, <1>7

\* The entries of an advisory that are about the architecture count.
LEMMA AdvisoryFindingsFacts ==
  ASSUME NEW g \in LoadedAdvisories, NEW pkgs \in Seq(Packages), NEW arch
  PROVE  /\ AdvisoryFindings(g, pkgs, arch) \in Seq(Findings)
         /\ \A f : f \in ToSet(AdvisoryFindings(g, pkgs, arch)) <=>
              \E ap \in ToSet(g.packages) :
                MatchesArch(ap, arch) /\ f \in ToSet(EntryFindings(g, ap, pkgs))
<1> DEFINE aps == g.packages
           I == {i \in DOMAIN aps : MatchesArch(aps[i], arch)}
           s == At(aps, I)
           ss == [i \in DOMAIN s |-> EntryFindings(g, s[i], pkgs)]
<1>1. AdvisoryFindings(g, pkgs, arch) = FlattenSeq(ss)
  BY DEF AdvisoryFindings, ForEach, Select
<1>2. s \in Seq(Entries) /\ ToSet(s) = {aps[i] : i \in I}
  <2>1. aps \in Seq(Entries) /\ I \in SUBSET DOMAIN aps
    BY DEF LoadedAdvisories
  <2> HIDE DEF I, aps
  <2> QED BY <2>1, AtFacts
<1>3. \A ap : ap \in ToSet(s) <=> ap \in ToSet(aps) /\ MatchesArch(ap, arch)
  <2> HIDE DEF s
  <2> QED BY <1>2 DEF ToSet
<1>4. \A ap : ap \in ToSet(s) <=> \E i \in DOMAIN s : s[i] = ap
  <2> HIDE DEF s
  <2> QED BY DEF ToSet
<1> HIDE DEF s
<1>5. ss \in [DOMAIN s -> Seq(Findings)]
  BY EntryFindingsFacts
<1>6. /\ FlattenSeq(ss) \in Seq(Findings)
      /\ \A f : f \in ToSet(FlattenSeq(ss)) <=> \E i \in DOMAIN s : f \in ToSet(ss[i])
  <2> HIDE DEF ss
  <2> QED BY <1>2, <1>5, FlattenMembers
<1>7. \A i \in DOMAIN s : ss[i] = EntryFindings(g, s[i], pkgs)
  OBVIOUS
<1> HIDE DEF ss
<1> QED BY <1>1, <1>3, <1>4, <1>6, <1>7

(* Run finds what the entries of the advisories say of the packages, and   *)
(* nothing else.                                                           *)
LEMMA RunFacts ==
  ASSUME NEW pkgs \in Seq(Packages), NEW glsas \in Seq(LoadedAdvisories), NEW arch
  PROVE  /\ Run(pkgs, glsas, arch) \in Seq(Findings)
         /\ \A f : f \in ToSet(Run(pkgs, glsas, arch)) <=>
              \E g \in ToSet(glsas) : \E ap \in ToSet(g.packages) : \E pkg \in ToSet(pkgs) :
                /\ MatchesArch(ap, arch) /\ CategoryName(pkg) = ap.name
                /\ isAffected(pkg.version, ap) # "unknown"
                /\ \E cve \in ToSet(g.cves) : f = GlsaFinding(cve, g, ap, pkg)
<1> DEFINE ss == [i \in DOMAIN glsas |-> AdvisoryFindings(glsas[i], pkgs, arch)]
<1>1. Run(pkgs, glsas, arch) = sortFindings(FlattenSeq(ss))
  BY DEF Run, ForEach
<1>2. \A i \in DOMAIN glsas : glsas[i] \in LoadedAdvisories
  OBVIOUS
<1>3. ss \in [DOMAIN glsas -> Seq(Findings)]
  BY <1>2, AdvisoryFindingsFacts
<1>4. \A i \in DOMAIN glsas : ss[i] = AdvisoryFindings(glsas[i], pkgs, arch)
  OBVIOUS
<1> HIDE DEF ss
<1>5. /\ FlattenSeq(ss) \in Seq(Findings)
      /\ \A f : f \in ToSet(FlattenSeq(ss)) <=> \E i \in DOMAIN glsas : f \in ToSet(ss[i])
  BY <1>3, FlattenMembers
<1>6. Run(pkgs, glsas, arch) \in Seq(Findings) /\ ToSet(Run(pkgs, glsas, arch)) = ToSet(FlattenSeq(ss))
  BY <1>1, <1>5, SortedFindings
<1>7. \A g : g \in ToSet(glsas) <=> \E i \in DOMAIN glsas : glsas[i] = g
  BY DEF ToSet
<1>8. \A f : f \in ToSet(FlattenSeq(ss)) <=>
               \E g \in ToSet(glsas) : f \in ToSet(AdvisoryFindings(g, pkgs, arch))
  BY <1>4, <1>5, <1>7
<1>9. ASSUME NEW g \in ToSet(glsas), NEW f
      PROVE  f \in ToSet(AdvisoryFindings(g, pkgs, arch)) <=>
               \E ap \in ToSet(g.packages) : \E pkg \in ToSet(pkgs) :
                 /\ MatchesArch(ap, arch) /\ CategoryName(pkg) = ap.name
                 /\ isAffected(pkg.version, ap) # "unknown"
                 /\ \E cve \in ToSet(g.cves) : f = GlsaFinding(cve, g, ap, pkg)
  <2>1. g \in LoadedAdvisories
    BY <1>2, <1>7
  <2>2. f \in ToSet(AdvisoryFindings(g, pkgs, arch)) <=>
          \E ap \in ToSet(g.packages) : MatchesArch(ap, arch) /\ f \in ToSet(EntryFindings(g, ap, pkgs))
    BY <2>1, AdvisoryFindingsFacts
  <2>3. \A ap : f \in ToSet(EntryFindings(g, ap, pkgs)) <=>
          \E pkg \in ToSet(pkgs) : CategoryName(pkg) = ap.name /\ f \in ToSet(FindingsAbout(g, ap, pkg))
    BY <2>1, EntryFindingsFacts
  <2>4. ToSet(pkgs) \subseteq Packages
    BY ElementsFinite
  <2>5. \A ap : \A pkg \in ToSet(pkgs) :
          f \in ToSet(FindingsAbout(g, ap, pkg)) <=>
            isAffected(pkg.version, ap) # "unknown" /\ \E cve \in ToSet(g.cves) : f = GlsaFinding(cve, g, ap, pkg)
    BY <2>1, <2>4, FindingsAboutFacts
  <2> QED BY <2>2, <2>3, <2>5
<1> QED BY <1>6, <1>8, <1>9

----
(* match.RunOSV: which findings there are.                                 *)

\* What a record is about is its CVE.
LEMMA CVEFacts ==
  ASSUME NEW id \in DOMAIN Aliases
  PROVE  CVE(id, Aliases[id]) \in Words /\ CVE(id, Aliases[id]) = AboutCVE(id)
<1> DEFINE s == Aliases[id]
           I == {i \in DOMAIN s : HasPrefix(s[i], "CVE-")}
           found == At(s, I)
<1>1. s \in Seq(Words) /\ id \in Words /\ I \in SUBSET DOMAIN s
  BY OsvAssumption
<1>2. CVE(id, s) = IF found = <<>> THEN id ELSE Head(found)
  BY DEF CVE, Select
<1>3. AboutCVE(id) = IF I = {} THEN id ELSE s[Min(I)]
  BY DEF AboutCVE
<1>4. /\ found \in Seq(Words) /\ Len(found) = Cardinality(I)
      /\ I # {} => found # <<>> /\ Head(found) = s[Min(I)]
  <2> HIDE DEF s, I
  <2> QED BY <1>1, AtFacts
<1>5. I = {} => found = <<>>
  <2> SUFFICES ASSUME I = {} PROVE found = <<>>
    OBVIOUS
  <2>1. Cardinality(I) = 0
    BY FS_EmptySet
  <2> HIDE DEF found, I
  <2> QED BY <1>4, <2>1
<1>6. found # <<>> => Head(found) \in Words
  <2> HIDE DEF found
  <2> QED BY <1>4
<1> HIDE DEF found, I, s
<1>7. CVE(id, s) \in Words /\ CVE(id, s) = AboutCVE(id)
  BY <1>1, <1>2, <1>3, <1>4, <1>5, <1>6
<1> QED BY <1>7 DEF s

OsvFinding(id, pkg) ==
  [cve |-> AboutCVE(id), source |-> "osv", ref |-> id, package |-> pkg, affected |-> TRUE]

(* RunOSV finds what the records of each answer say of the packages asked  *)
(* about, and nothing else.                                                *)
LEMMA RunOSVFacts ==
  ASSUME NEW pkgs \in Seq(Packages), NEW results,
         \A pkg \in ToSet(pkgs) : results[QueryPurl(pkg)] \in Seq(DOMAIN Aliases)
  PROVE  /\ RunOSV(pkgs, results, Aliases) \in Seq(Findings)
         /\ \A f : f \in ToSet(RunOSV(pkgs, results, Aliases)) <=>
              \E pkg \in ToSet(pkgs) : \E id \in ToSet(results[QueryPurl(pkg)]) : f = OsvFinding(id, pkg)
<1> DEFINE About(pkg) ==
             [i \in DOMAIN results[QueryPurl(pkg)] |->
               [cve |-> CVE(results[QueryPurl(pkg)][i], Aliases[results[QueryPurl(pkg)][i]]), source |-> "osv",
                ref |-> results[QueryPurl(pkg)][i], package |-> pkg, affected |-> TRUE]]
           ss == [i \in DOMAIN pkgs |-> About(pkgs[i])]
<1>1. RunOSV(pkgs, results, Aliases) = sortFindings(FlattenSeq(ss))
  BY DEF RunOSV, ForEach
<1>2. \A i \in DOMAIN pkgs : pkgs[i] \in Packages /\ pkgs[i] \in ToSet(pkgs)
  BY DEF ToSet
<1>3. ASSUME NEW pkg \in ToSet(pkgs)
      PROVE  /\ About(pkg) \in Seq(Findings)
             /\ \A f : f \in ToSet(About(pkg)) <=>
                         \E id \in ToSet(results[QueryPurl(pkg)]) : f = OsvFinding(id, pkg)
  <2> DEFINE ids == results[QueryPurl(pkg)]
  <2>1. ids \in Seq(DOMAIN Aliases) /\ pkg \in Packages
    BY ElementsFinite
  <2>2. Len(ids) \in Nat /\ DOMAIN ids = 1 .. Len(ids) /\ \A i \in DOMAIN ids : ids[i] \in DOMAIN Aliases
    <3> HIDE DEF ids
    <3> QED BY <2>1
  <2>3. \A i \in DOMAIN ids :
          ids[i] \in Words /\ AboutCVE(ids[i]) \in Words /\ CVE(ids[i], Aliases[ids[i]]) = AboutCVE(ids[i])
    <3> HIDE DEF ids
    <3> QED BY <2>2, OsvAssumption, CVEFacts
  <2>4. PICK a : a = About(pkg)
    OBVIOUS
  <2>5. a = [i \in DOMAIN ids |->
              [cve |-> CVE(ids[i], Aliases[ids[i]]), source |-> "osv", ref |-> ids[i], package |-> pkg,
               affected |-> TRUE]]
    BY <2>4
  <2> HIDE DEF ids, About
  <2>6. a = [i \in DOMAIN ids |-> OsvFinding(ids[i], pkg)]
    BY <2>3, <2>5 DEF OsvFinding
  <2>7. \A i \in DOMAIN ids : OsvFinding(ids[i], pkg) \in Findings
    BY <2>1, <2>3 DEF OsvFinding, Findings
  <2>8. a \in [1 .. Len(ids) -> Findings]
    BY <2>2, <2>6, <2>7
  <2>9. \A f : f \in ToSet(a) <=> \E id \in ToSet(ids) : f = OsvFinding(id, pkg)
    BY <2>6 DEF ToSet
  <2>10. a \in Seq(Findings)
    BY <2>2, <2>8
  <2> QED BY <2>4, <2>9, <2>10, Zenon DEF ids
<1> HIDE DEF About
<1>4. ss \in [DOMAIN pkgs -> Seq(Findings)]
  BY <1>2, <1>3
<1>5. \A i \in DOMAIN pkgs : ss[i] = About(pkgs[i])
  OBVIOUS
<1> HIDE DEF ss
<1>6. /\ FlattenSeq(ss) \in Seq(Findings)
      /\ \A f : f \in ToSet(FlattenSeq(ss)) <=> \E i \in DOMAIN pkgs : f \in ToSet(ss[i])
  BY <1>4, FlattenMembers
<1>7. /\ RunOSV(pkgs, results, Aliases) \in Seq(Findings)
      /\ ToSet(RunOSV(pkgs, results, Aliases)) = ToSet(FlattenSeq(ss))
  BY <1>1, <1>6, SortedFindings
<1>8. \A pkg : pkg \in ToSet(pkgs) <=> \E i \in DOMAIN pkgs : pkgs[i] = pkg
  BY DEF ToSet
<1>9. \A f : f \in ToSet(FlattenSeq(ss)) <=> \E pkg \in ToSet(pkgs) : f \in ToSet(About(pkg))
  BY <1>5, <1>6, <1>8
<1> QED BY <1>3, <1>7, <1>9

----
(* The verdict on a version: the loops of isAffected against the words of  *)
(* Says.                                                                   *)

Verdicts == {"match", "no", "error"}

\* The loop returns the first verdict that is not "no".
LEMMA ScanFacts ==
  ASSUME NEW installed, NEW ranges \in Seq(RangeType)
  PROVE  /\ Scan(installed, ranges) \in Verdicts
         /\ Scan(installed, ranges) = "no" <=>
              \A i \in DOMAIN ranges : Satisfies(installed, ranges[i]) = "no"
         /\ Scan(installed, ranges) = "match" <=> Ranges(ranges, installed, "match")
<1> DEFINE s == [i \in DOMAIN ranges |-> Satisfies(installed, ranges[i])]
           I == {i \in DOMAIN s : s[i] # "no"}
           decided == At(s, I)
<1>1. \A i \in DOMAIN ranges : Satisfies(installed, ranges[i]) \in Verdicts
  BY DEF Satisfies, Verdicts
<1>2. Len(ranges) \in Nat /\ DOMAIN ranges = 1 .. Len(ranges)
  OBVIOUS
<1>3. s \in Seq(Verdicts) /\ DOMAIN s = DOMAIN ranges
  <2>1. s \in [1 .. Len(ranges) -> Verdicts]
    BY <1>1, <1>2
  <2> HIDE DEF s
  <2> QED BY <1>2, <2>1
<1>4. \A i \in DOMAIN ranges : s[i] = Satisfies(installed, ranges[i])
  OBVIOUS
<1>5. Scan(installed, ranges) = IF decided = <<>> THEN "no" ELSE Head(decided)
  BY DEF Scan, Select
<1> HIDE DEF s
<1>6. /\ decided \in Seq(Verdicts) /\ Len(decided) = Cardinality(I)
      /\ I # {} => decided # <<>> /\ Head(decided) = s[Min(I)]
  <2>1. I \in SUBSET DOMAIN s
    OBVIOUS
  <2> HIDE DEF I
  <2> QED BY <1>3, <2>1, AtFacts
<1>7. I # {} => Min(I) \in I /\ \A i \in I : Min(I) <= i
  <2>1. I \subseteq Nat
    BY <1>2, <1>3
  <2> HIDE DEF I
  <2> QED BY <2>1, MinOfNaturals
<1>8. CASE I = {}
  <2>1. decided = <<>>
    <3>1. Cardinality(I) = 0
      BY <1>8, FS_EmptySet
    <3> HIDE DEF I, decided
    <3> QED BY <1>6, <3>1
  <2>2. \A i \in DOMAIN ranges : Satisfies(installed, ranges[i]) = "no"
    BY <1>3, <1>4, <1>8
  <2> HIDE DEF I, decided
  <2> QED BY <1>5, <2>1, <2>2 DEF Ranges, Verdicts
<1>9. CASE I # {}
  <2>1. PICK m \in I : m = Min(I) /\ \A i \in I : m <= i
    BY <1>7, <1>9
  <2>2. m \in DOMAIN ranges /\ s[m] = Satisfies(installed, ranges[m]) /\ s[m] # "no"
    BY <1>3, <1>4
  <2>3. Scan(installed, ranges) = s[m]
    <3> HIDE DEF I, decided
    <3> QED BY <1>5, <1>6, <1>9, <2>1
  <2>4. \A j \in 1 .. m - 1 : Satisfies(installed, ranges[j]) = "no"
    <3> TAKE j \in 1 .. m - 1
    <3>1. j \in DOMAIN ranges /\ ~(m <= j)
      BY <1>2, <2>2
    <3>2. j \notin I
      BY <2>1, <3>1
    <3> QED BY <1>3, <1>4, <3>1, <3>2
  <2>5. s[m] = "match" => Ranges(ranges, installed, "match")
    BY <2>2, <2>4 DEF Ranges
  <2>6. ASSUME Ranges(ranges, installed, "match")
        PROVE  s[m] = "match"
    <3>1. PICK i \in DOMAIN ranges : /\ Satisfies(installed, ranges[i]) = "match"
                                     /\ \A j \in 1 .. i - 1 : Satisfies(installed, ranges[j]) = "no"
      BY <2>6 DEF Ranges
    <3>2. i \in I
      BY <1>3, <1>4, <3>1
    <3>3. m <= i /\ m \in Nat /\ i \in Nat
      BY <1>2, <2>1, <2>2, <3>2
    <3>4. ~(m < i)
      BY <1>2, <2>2, <3>1, <3>3
    <3>5. m = i
      BY <3>3, <3>4
    <3> QED BY <2>2, <3>1, <3>5
  <2>7. s[m] \in Verdicts
    BY <1>1, <2>2
  <2> HIDE DEF I, decided
  <2> QED BY <2>2, <2>3, <2>5, <2>6, <2>7
<1> QED BY <1>8, <1>9

\* isAffected says what Says says.
LEMMA SaysFacts ==
  ASSUME NEW ap \in Entries, NEW installed
  PROVE  /\ isAffected(installed, ap) \in {"affected", "fixed", "unknown"}
         /\ \A status \in {"affected", "fixed"} :
              Says(ap, installed, status) <=> isAffected(installed, ap) = status
<1>1. ap.vulnerable \in Seq(RangeType) /\ ap.unaffected \in Seq(RangeType)
  BY DEF Entries
<1>2. PICK v, u : v = Scan(installed, ap.vulnerable) /\ u = Scan(installed, ap.unaffected)
  OBVIOUS
<1>3. v \in Verdicts /\ u \in Verdicts
  BY <1>1, <1>2, ScanFacts
<1>4. /\ v = "no" <=> \A i \in DOMAIN ap.vulnerable : Satisfies(installed, ap.vulnerable[i]) = "no"
      /\ u = "no" <=> \A i \in DOMAIN ap.unaffected : Satisfies(installed, ap.unaffected[i]) = "no"
      /\ v = "match" <=> Ranges(ap.vulnerable, installed, "match")
      /\ u = "match" <=> Ranges(ap.unaffected, installed, "match")
  BY <1>1, <1>2, ScanFacts
<1>5. isAffected(installed, ap) =
        CASE v = "match" /\ u = "no" -> "affected"
          [] v = "no" \/ (v = "match" /\ u = "match") -> "fixed"
          [] OTHER -> "unknown"
  BY <1>2 DEF isAffected
<1>6. isAffected(installed, ap) = "affected" <=> v = "match" /\ u = "no"
  BY <1>3, <1>5 DEF Verdicts
<1>7. isAffected(installed, ap) = "fixed" <=> v = "no" \/ (v = "match" /\ u = "match")
  BY <1>3, <1>5 DEF Verdicts
<1>8. isAffected(installed, ap) \in {"affected", "fixed", "unknown"}
  BY <1>3, <1>5 DEF Verdicts
<1>9. Says(ap, installed, "affected") <=> v = "match" /\ u = "no"
  BY <1>4 DEF Says
<1>10. Says(ap, installed, "fixed") <=> v = "no" \/ (v = "match" /\ u = "match")
  BY <1>4 DEF Says
<1> QED BY <1>6, <1>7, <1>8, <1>9, <1>10

----
(* vexgen.Build.                                                           *)

Keys == [cve : Words, affected : BOOLEAN]

Group(fs, key) == At(fs, {i \in DOMAIN fs : GroupKey(fs[i]) = key})

\* The group of a key is the findings that have it.
LEMMA GroupFacts ==
  ASSUME NEW fs \in Seq(Findings), NEW key
  PROVE  /\ Group(fs, key) \in Seq(Findings)
         /\ \A f : f \in ToSet(Group(fs, key)) <=> f \in ToSet(fs) /\ GroupKey(f) = key
<1> DEFINE I == {i \in DOMAIN fs : GroupKey(fs[i]) = key}
<1>1. I \in SUBSET DOMAIN fs
  OBVIOUS
<1>2. At(fs, I) \in Seq(Findings) /\ ToSet(At(fs, I)) = {fs[i] : i \in I}
  <2> HIDE DEF I
  <2> QED BY <1>1, AtFacts
<1>3. \A f : f \in {fs[i] : i \in I} <=> f \in ToSet(fs) /\ GroupKey(f) = key
  BY DEF ToSet
<1> QED BY <1>2, <1>3 DEF Group

\* Keys are in a total order: by CVE, fixed before affected.
LEMMA KeyOrder ==
  ASSUME NEW K \in SUBSET Keys
  PROVE  StrictOrder(K, {p \in K \X K : KeyLess(p[1], p[2])})
<1>1. PICK before : before = {p \in K \X K : KeyLess(p[1], p[2])}
  OBVIOUS
<1>2. \A k \in K : /\ k.cve \in Words /\ Place[k.cve] \in Nat /\ k.affected \in BOOLEAN
                   /\ k = [cve |-> k.cve, affected |-> k.affected]
  BY PlaceAssumption DEF Keys, Words
<1>3. \A k, l \in K : <<k, l>> \in before <=>
        Place[k.cve] < Place[l.cve] \/ (k.cve = l.cve /\ ~k.affected /\ l.affected)
  BY <1>1 DEF KeyLess, StringLess
<1>4. \A k, l \in K : Place[k.cve] = Place[l.cve] => k.cve = l.cve
  BY <1>2, PlaceAssumption DEF Words
<1>5. \A k \in K : <<k, k>> \notin before
  BY <1>2, <1>3
<1>6. \A k, l, m \in K : <<k, l>> \in before /\ <<l, m>> \in before => <<k, m>> \in before
  <2> TAKE k, l, m \in K
  <2>1. Place[k.cve] \in Nat /\ Place[l.cve] \in Nat /\ Place[m.cve] \in Nat
    BY <1>2
  <2>2. Place[k.cve] < Place[l.cve] /\ Place[l.cve] < Place[m.cve] => Place[k.cve] < Place[m.cve]
    BY <2>1
  <2> QED BY <1>3, <2>2
<1>7. \A k, l \in K : k = l \/ <<k, l>> \in before \/ <<l, k>> \in before
  <2> TAKE k, l \in K
  <2>1. Place[k.cve] < Place[l.cve] \/ Place[l.cve] < Place[k.cve] \/ k.cve = l.cve
    BY <1>2, <1>4
  <2>2. k.cve = l.cve => k = l \/ (~k.affected /\ l.affected) \/ (~l.affected /\ k.affected)
    BY <1>2
  <2> QED BY <1>3, <2>1, <2>2
<1>8. StrictOrder(K, before)
  BY <1>5, <1>6, <1>7 DEF StrictOrder
<1> QED BY <1>1, <1>8

\* The packages of a statement: those of the group, once each, in order.
LEMMA SubcomponentsFacts ==
  ASSUME NEW group \in Seq(Findings)
  PROVE  /\ \A x : x \in ToSet(subcomponents(group)) <=> \E f \in ToSet(group) : x = f.package.purl
         /\ \A i, j \in DOMAIN subcomponents(group) :
              i < j => StringLess(subcomponents(group)[i], subcomponents(group)[j])
<1> DEFINE W == {f.package.purl : f \in ToSet(group)}
<1>1. Len(group) \in Nat /\ DOMAIN group = 1 .. Len(group) /\ \A i \in DOMAIN group : group[i] \in Findings
  OBVIOUS
<1>2. PICK s : s = [i \in DOMAIN group |-> group[i].package.purl]
  OBVIOUS
<1>3. s \in [1 .. Len(group) -> Words]
  BY <1>1, <1>2 DEF Findings, Packages
<1>4. s \in Seq(Words)
  BY <1>1, <1>3
<1>5. ToSet(s) = W
  BY <1>2 DEF ToSet
<1>6. IsFiniteSet(W) /\ W \in SUBSET Words
  <2> HIDE DEF W
  <2> QED BY <1>4, <1>5, ElementsFinite
<1>7. subcomponents(group) = Sorted(W, StringLess)
  BY DEF subcomponents
<1>8. /\ ToSet(subcomponents(group)) = W
      /\ \A i, j \in DOMAIN subcomponents(group) :
           i < j => StringLess(subcomponents(group)[i], subcomponents(group)[j])
  <2> HIDE DEF W
  <2> QED BY <1>6, <1>7, SortedWords
<1>9. \A x : x \in W <=> \E f \in ToSet(group) : x = f.package.purl
  OBVIOUS
<1> HIDE DEF W
<1> QED BY <1>8, <1>9

\* The advisories of one source, as actionStatement lists them.
RefsFrom(group, source) ==
  Sorted({f.ref : f \in {g \in ToSet(group) : g.source = source}} \ {""}, StringLess)

RefersTo(group, source, ref) == ref # "" /\ \E f \in ToSet(group) : f.source = source /\ f.ref = ref

\* The references of a group from one source, without the empty ID.
LEMMA RefsFacts ==
  ASSUME NEW group \in Seq(Findings), NEW source
  PROVE  /\ RefsFrom(group, source) \in Seq(Words)
         /\ \A ref : ref \in ToSet(RefsFrom(group, source)) <=> RefersTo(group, source, ref)
<1> DEFINE R == {f.ref : f \in {g \in ToSet(group) : g.source = source}} \ {""}
<1>1. Len(group) \in Nat /\ DOMAIN group = 1 .. Len(group) /\ \A i \in DOMAIN group : group[i] \in Findings
  OBVIOUS
<1>2. PICK s : s = [i \in DOMAIN group |-> group[i].ref]
  OBVIOUS
<1>3. s \in [1 .. Len(group) -> Words]
  BY <1>1, <1>2 DEF Findings
<1>4. s \in Seq(Words)
  BY <1>1, <1>3
<1>5. R \subseteq ToSet(s)
  BY <1>2 DEF ToSet
<1>6. IsFiniteSet(R) /\ R \in SUBSET Words
  <2>1. IsFiniteSet(ToSet(s)) /\ ToSet(s) \subseteq Words
    BY <1>4, ElementsFinite
  <2> HIDE DEF R
  <2> QED BY <1>5, <2>1, FS_Subset
<1>7. RefsFrom(group, source) = Sorted(R, StringLess)
  BY DEF RefsFrom
<1>8. RefsFrom(group, source) \in Seq(R) /\ ToSet(RefsFrom(group, source)) = R
  <2> HIDE DEF R
  <2> QED BY <1>6, <1>7, SortedWords
<1>9. RefsFrom(group, source) \in Seq(Words)
  <2> HIDE DEF R
  <2> QED BY <1>6, <1>8
<1>10. \A ref : ref \in R <=> RefersTo(group, source, ref)
  BY DEF RefersTo
<1> HIDE DEF R
<1> QED BY <1>8, <1>9, <1>10

\* The advisories of a statement: those of the group, under their sources.
LEMMA ActionFacts ==
  ASSUME NEW group \in Seq(Findings), NEW source, NEW ref
  PROVE  (\E part \in ToSet(actionStatement(group).see) : part[1] = source /\ ref \in ToSet(part[2])) <=>
           RefersTo(group, source, ref)
<1> DEFINE parts == <<<<"glsa", RefsFrom(group, "glsa")>>, <<"osv", RefsFrom(group, "osv")>>>>
           I == {i \in DOMAIN parts : parts[i][2] # <<>>}
<1>1. actionStatement(group).see = At(parts, I)
  BY DEF actionStatement, RefsFrom, Select
<1>2. RefsFrom(group, "glsa") \in Seq(Words) /\ RefsFrom(group, "osv") \in Seq(Words)
  BY RefsFacts
<1>3. parts \in Seq({"glsa", "osv"} \X Seq(Words)) /\ DOMAIN parts = {1, 2}
  BY <1>2
<1>4. PICK P : P = {parts[i] : i \in I}
  OBVIOUS
<1>5. ToSet(actionStatement(group).see) = P
  <2>1. I \in SUBSET DOMAIN parts
    OBVIOUS
  <2> HIDE DEF I, parts
  <2> QED BY <1>1, <1>3, <1>4, <2>1, AtFacts
<1>6. ToSet(<<>>) = {}
  BY DEF ToSet
<1>7. (\E part \in P : part[1] = source /\ ref \in ToSet(part[2])) <=>
        source \in {"glsa", "osv"} /\ ref \in ToSet(RefsFrom(group, source))
  <2>1. parts[1] = <<"glsa", RefsFrom(group, "glsa")>> /\ parts[2] = <<"osv", RefsFrom(group, "osv")>>
    OBVIOUS
  <2>2. \A i : i \in I <=> i \in {1, 2} /\ parts[i][2] # <<>>
    <3> HIDE DEF parts
    <3> QED BY <1>3
  <2> HIDE DEF parts, I
  <2> QED BY <1>4, <1>6, <2>1, <2>2
<1> HIDE DEF parts, I
<1>8. \A f \in ToSet(group) : f.source \in {"glsa", "osv"}
  <2>1. ToSet(group) \subseteq Findings
    BY ElementsFinite
  <2> QED BY <2>1 DEF Findings
<1>9. RefersTo(group, source, ref) => source \in {"glsa", "osv"}
  BY <1>8 DEF RefersTo
<1>10. ref \in ToSet(RefsFrom(group, source)) <=> RefersTo(group, source, ref)
  BY RefsFacts
<1> QED BY <1>5, <1>7, <1>9, <1>10, Zenon

\* What DocumentIsCanonical says of the statements.
Canonical(statements) ==
  /\ \A i, j \in DOMAIN statements : i < j =>
       \/ StringLess(statements[i].cve, statements[j].cve)
       \/ statements[i].cve = statements[j].cve
            /\ statements[i].status = "fixed" /\ statements[j].status = "affected"
  /\ \A s \in ToSet(statements) : \A i, j \in DOMAIN s.subcomponents :
       i < j => StringLess(s.subcomponents[i], s.subcomponents[j])

StatusOf(f) == IF f.affected THEN "affected" ELSE "fixed"

ListedBy(fs) == {<<f.cve, StatusOf(f), f.package.purl>> : f \in ToSet(fs)}

NamedBy(fs) == {<<f.cve, f.source, f.ref>> : f \in {g \in ToSet(fs) : g.affected /\ g.ref # ""}}

\* The statements: one for each key that a finding has, in the order of the keys.
LEMMA BuildKeys ==
  ASSUME NEW fs \in Seq(Findings), NEW productID
  PROVE  \E keys \in Seq(Keys) :
           /\ Build(fs, productID) =
                [i \in DOMAIN keys |-> Statement(keys[i], Group(fs, keys[i]), productID)]
           /\ \A key : key \in ToSet(keys) <=> \E f \in ToSet(fs) : key = GroupKey(f)
           /\ \A i, j \in DOMAIN keys : i < j => KeyLess(keys[i], keys[j])
<1> DEFINE K == {GroupKey(f) : f \in ToSet(fs)}
           keys == Sorted(K, KeyLess)
<1>1. Len(fs) \in Nat /\ DOMAIN fs = 1 .. Len(fs) /\ \A i \in DOMAIN fs : fs[i] \in Findings
  OBVIOUS
<1>2. \A f \in Findings : GroupKey(f) \in Keys
  BY DEF Findings, GroupKey, Keys
<1>3. PICK ks : ks = [i \in DOMAIN fs |-> GroupKey(fs[i])]
  OBVIOUS
<1>4. ks \in Seq(Keys)
  <2>1. ks \in [1 .. Len(fs) -> Keys]
    BY <1>1, <1>2, <1>3
  <2> QED BY <1>1, <2>1
<1>5. ToSet(ks) = K
  BY <1>3 DEF ToSet
<1>6. IsFiniteSet(K) /\ K \in SUBSET Keys
  <2> HIDE DEF K
  <2> QED BY <1>4, <1>5, ElementsFinite
<1>7. PICK before : before = {p \in K \X K : KeyLess(p[1], p[2])}
  OBVIOUS
<1>8. StrictOrder(K, before) /\ keys = Enumeration(K, before)
  <2> HIDE DEF K
  <2> QED BY <1>6, <1>7, KeyOrder DEF Sorted
<1>9. /\ keys \in Seq(K) /\ ToSet(keys) = K
      /\ \A i, j \in DOMAIN keys : i < j <=> <<keys[i], keys[j]>> \in before
  <2> HIDE DEF K, keys
  <2> QED BY <1>6, <1>8, EnumerationElements
<1>10. \A k, l : <<k, l>> \in before => KeyLess(k, l)
  BY <1>7
<1>11. keys \in Seq(Keys)
  <2> HIDE DEF K, keys
  <2> QED BY <1>6, <1>9
<1>12. \A key : key \in K <=> \E f \in ToSet(fs) : key = GroupKey(f)
  OBVIOUS
<1>13. Build(fs, productID) = [i \in DOMAIN keys |-> Statement(keys[i], Group(fs, keys[i]), productID)]
  BY DEF Build, Select, Group
<1> HIDE DEF K, keys
<1> QED BY <1>9, <1>10, <1>11, <1>12, <1>13

(* What the document says is what the findings say.                        *)
LEMMA BuildFacts ==
  ASSUME NEW fs \in Seq(Findings), NEW productID
  PROVE  /\ Canonical(Build(fs, productID))
         /\ \A s \in ToSet(Build(fs, productID)) : s.product = productID
         /\ Listed(Build(fs, productID)) = ListedBy(fs)
         /\ Named(Build(fs, productID)) = NamedBy(fs)
<1>1. PICK keys \in Seq(Keys) :
        /\ Build(fs, productID) =
             [i \in DOMAIN keys |-> Statement(keys[i], Group(fs, keys[i]), productID)]
        /\ \A key : key \in ToSet(keys) <=> \E f \in ToSet(fs) : key = GroupKey(f)
        /\ \A i, j \in DOMAIN keys : i < j => KeyLess(keys[i], keys[j])
  BY BuildKeys
<1>2. PICK b : b = Build(fs, productID)
  OBVIOUS
<1>3. /\ DOMAIN b = DOMAIN keys
      /\ \A i \in DOMAIN keys : b[i] = Statement(keys[i], Group(fs, keys[i]), productID)
  BY <1>1, <1>2
<1>4. \A i \in DOMAIN keys : keys[i] \in Keys
  OBVIOUS
<1>5. \A key : /\ Statement(key, Group(fs, key), productID).cve = key.cve
               /\ Statement(key, Group(fs, key), productID).product = productID
               /\ Statement(key, Group(fs, key), productID).status = StatusOf(key)
               /\ Statement(key, Group(fs, key), productID).subcomponents = subcomponents(Group(fs, key))
               /\ key.affected => Statement(key, Group(fs, key), productID).action = actionStatement(Group(fs, key))
               /\ ~key.affected => Statement(key, Group(fs, key), productID).action.see = <<>>
  BY DEF Statement, StatusOf, NoAction
<1>6. \A s : s \in ToSet(b) <=>
               \E i \in DOMAIN keys : s = Statement(keys[i], Group(fs, keys[i]), productID)
  BY <1>3 DEF ToSet
<1>7. \A s : s \in ToSet(b) <=>
               \E f \in ToSet(fs) : s = Statement(GroupKey(f), Group(fs, GroupKey(f)), productID)
  <2> DEFINE St(key) == Statement(key, Group(fs, key), productID)
  <2>1. \A key : key \in ToSet(keys) <=> \E i \in DOMAIN keys : key = keys[i]
    BY DEF ToSet
  <2>2. \A s : s \in ToSet(b) <=> \E i \in DOMAIN keys : s = St(keys[i])
    BY <1>6
  <2> HIDE DEF St
  <2>3. \A s : s \in ToSet(b) <=> \E key \in ToSet(keys) : s = St(key)
    BY <2>1, <2>2
  <2>4. \A s : s \in ToSet(b) <=> \E f \in ToSet(fs) : s = St(GroupKey(f))
    BY <1>1, <2>3
  <2> QED BY <2>4 DEF St
<1>8. \A key : Group(fs, key) \in Seq(Findings)
  BY GroupFacts
<1>9. \A key : \A f : f \in ToSet(Group(fs, key)) <=> f \in ToSet(fs) /\ GroupKey(f) = key
  BY GroupFacts
<1>10. Canonical(b)
  <2>1. ASSUME NEW i \in DOMAIN b, NEW j \in DOMAIN b, i < j
        PROVE  \/ StringLess(b[i].cve, b[j].cve)
               \/ b[i].cve = b[j].cve /\ b[i].status = "fixed" /\ b[j].status = "affected"
    <3>1. KeyLess(keys[i], keys[j])
      BY <1>1, <1>3, <2>1
    <3>2. /\ b[i].cve = keys[i].cve /\ b[i].status = StatusOf(keys[i])
          /\ b[j].cve = keys[j].cve /\ b[j].status = StatusOf(keys[j])
      BY <1>3, <1>5
    <3> QED BY <3>1, <3>2 DEF KeyLess, StatusOf
  <2>2. ASSUME NEW s \in ToSet(b)
        PROVE  \A i, j \in DOMAIN s.subcomponents :
                 i < j => StringLess(s.subcomponents[i], s.subcomponents[j])
    <3>1. PICK i \in DOMAIN keys : s = Statement(keys[i], Group(fs, keys[i]), productID)
      BY <1>6
    <3>2. s.subcomponents = subcomponents(Group(fs, keys[i]))
      BY <1>5, <3>1
    <3>3. Group(fs, keys[i]) \in Seq(Findings)
      BY <1>8
    <3> QED BY <3>2, <3>3, SubcomponentsFacts
  <2> QED BY <2>1, <2>2 DEF Canonical
<1>11. \A s \in ToSet(b) : s.product = productID
  BY <1>5, <1>6
<1>12. \A f \in ToSet(fs) : GroupKey(f).cve = f.cve /\ GroupKey(f).affected = f.affected
  BY DEF GroupKey
<1>13. Listed(b) = ListedBy(fs)
  <2>1. \A x : x \in Listed(b) <=> \E s \in ToSet(b) : \E p \in ToSet(s.subcomponents) : x = <<s.cve, s.status, p>>
    BY DEF Listed
  <2>2. ASSUME NEW f \in ToSet(fs), NEW s, s = Statement(GroupKey(f), Group(fs, GroupKey(f)), productID)
        PROVE  /\ s.cve = f.cve /\ s.status = StatusOf(f)
               /\ \A p : p \in ToSet(s.subcomponents) <=>
                    \E g \in ToSet(fs) : GroupKey(g) = GroupKey(f) /\ p = g.package.purl
    <3>1. s.cve = f.cve /\ s.status = StatusOf(f)
      BY <1>5, <1>12, <2>2 DEF StatusOf
    <3>2. PICK group \in Seq(Findings) : group = Group(fs, GroupKey(f))
      BY <1>8
    <3>3. s.subcomponents = subcomponents(group)
      BY <1>5, <2>2, <3>2
    <3>4. \A p : p \in ToSet(subcomponents(group)) <=> \E g \in ToSet(group) : p = g.package.purl
      BY SubcomponentsFacts
    <3> QED BY <1>9, <3>1, <3>2, <3>3, <3>4
  <2>3. ASSUME NEW f \in ToSet(fs), NEW g \in ToSet(fs), GroupKey(g) = GroupKey(f)
        PROVE  g.cve = f.cve /\ StatusOf(g) = StatusOf(f)
    BY <1>12, <2>3 DEF StatusOf
  <2>4. \A x : x \in ListedBy(fs) <=> \E f \in ToSet(fs) : x = <<f.cve, StatusOf(f), f.package.purl>>
    BY DEF ListedBy
  <2>5. ASSUME NEW x \in Listed(b)
        PROVE  x \in ListedBy(fs)
    <3>1. PICK s \in ToSet(b) : \E p \in ToSet(s.subcomponents) : x = <<s.cve, s.status, p>>
      BY <2>1
    <3>2. PICK p \in ToSet(s.subcomponents) : x = <<s.cve, s.status, p>>
      BY <3>1
    <3>3. PICK f \in ToSet(fs) : s = Statement(GroupKey(f), Group(fs, GroupKey(f)), productID)
      BY <1>7
    <3>4. PICK g \in ToSet(fs) : GroupKey(g) = GroupKey(f) /\ p = g.package.purl
      <4>1. p \in ToSet(s.subcomponents) <=>
              \E g \in ToSet(fs) : GroupKey(g) = GroupKey(f) /\ p = g.package.purl
        BY <2>2, <3>3
      <4> QED BY <4>1
    <3>5. x = <<g.cve, StatusOf(g), g.package.purl>>
      BY <2>2, <2>3, <3>2, <3>3, <3>4
    <3> QED BY <2>4, <3>5
  <2>6. ASSUME NEW x \in ListedBy(fs)
        PROVE  x \in Listed(b)
    <3>1. PICK f \in ToSet(fs) : x = <<f.cve, StatusOf(f), f.package.purl>>
      BY <2>4
    <3>2. PICK s : s = Statement(GroupKey(f), Group(fs, GroupKey(f)), productID)
      OBVIOUS
    <3>3. s \in ToSet(b)
      BY <1>7, <3>2
    <3>4. f.package.purl \in ToSet(s.subcomponents) /\ x = <<s.cve, s.status, f.package.purl>>
      BY <2>2, <3>1, <3>2
    <3> QED BY <2>1, <3>3, <3>4
  <2> QED BY <2>5, <2>6
<1>14. Named(b) = NamedBy(fs)
  <2>1. \A x : x \in Named(b) <=>
          \E s \in ToSet(b) : \E part \in ToSet(s.action.see) : \E ref \in ToSet(part[2]) : x = <<s.cve, part[1], ref>>
    BY DEF Named
  <2>2. \A x : x \in NamedBy(fs) <=>
          \E f \in ToSet(fs) : f.affected /\ f.ref # "" /\ x = <<f.cve, f.source, f.ref>>
    BY DEF NamedBy
  <2>3. ASSUME NEW f \in ToSet(fs), NEW s, s = Statement(GroupKey(f), Group(fs, GroupKey(f)), productID)
        PROVE  /\ s.cve = f.cve
               /\ f.affected => s.action = actionStatement(Group(fs, GroupKey(f)))
               /\ ~f.affected => ToSet(s.action.see) = {}
    <3>1. ToSet(<<>>) = {}
      BY DEF ToSet
    <3> QED BY <1>5, <1>12, <2>3, <3>1
  <2>4. ASSUME NEW f \in ToSet(fs), NEW source, NEW ref
        PROVE  (\E part \in ToSet(actionStatement(Group(fs, GroupKey(f))).see) :
                  part[1] = source /\ ref \in ToSet(part[2])) <=>
               RefersTo(Group(fs, GroupKey(f)), source, ref)
    BY <1>8, ActionFacts
  <2>5. ASSUME NEW x \in Named(b)
        PROVE  x \in NamedBy(fs)
    <3>1. PICK s \in ToSet(b) :
            \E part \in ToSet(s.action.see) : \E ref \in ToSet(part[2]) : x = <<s.cve, part[1], ref>>
      BY <2>1
    <3>2. PICK part \in ToSet(s.action.see) : \E ref \in ToSet(part[2]) : x = <<s.cve, part[1], ref>>
      BY <3>1
    <3>3. PICK ref \in ToSet(part[2]) : x = <<s.cve, part[1], ref>>
      BY <3>2
    <3>4. PICK f \in ToSet(fs) : s = Statement(GroupKey(f), Group(fs, GroupKey(f)), productID)
      BY <1>7
    <3>5. f.affected /\ s.cve = f.cve /\ s.action = actionStatement(Group(fs, GroupKey(f)))
      BY <2>3, <3>2, <3>4
    <3>6. RefersTo(Group(fs, GroupKey(f)), part[1], ref)
      BY <2>4, <3>2, <3>3, <3>5
    <3>7. PICK g \in ToSet(Group(fs, GroupKey(f))) : g.source = part[1] /\ g.ref = ref /\ ref # ""
      BY <3>6 DEF RefersTo
    <3>8. g \in ToSet(fs) /\ g.cve = f.cve /\ g.affected = f.affected
      BY <1>9, <1>12
    <3> QED BY <2>2, <3>3, <3>5, <3>7, <3>8
  <2>6. ASSUME NEW x \in NamedBy(fs)
        PROVE  x \in Named(b)
    <3>1. PICK f \in ToSet(fs) : f.affected /\ f.ref # "" /\ x = <<f.cve, f.source, f.ref>>
      BY <2>2
    <3>2. PICK s : s = Statement(GroupKey(f), Group(fs, GroupKey(f)), productID)
      OBVIOUS
    <3>3. s \in ToSet(b)
      BY <1>7, <3>2
    <3>4. f \in ToSet(Group(fs, GroupKey(f)))
      BY <1>9
    <3>5. RefersTo(Group(fs, GroupKey(f)), f.source, f.ref)
      BY <3>1, <3>4 DEF RefersTo
    <3>6. PICK part \in ToSet(actionStatement(Group(fs, GroupKey(f))).see) :
            part[1] = f.source /\ f.ref \in ToSet(part[2])
      BY <2>4, <3>5
    <3>7. part \in ToSet(s.action.see) /\ x = <<s.cve, part[1], f.ref>>
      BY <2>3, <3>1, <3>2, <3>6
    <3> QED BY <2>1, <3>3, <3>6, <3>7
  <2> QED BY <2>5, <2>6
<1> QED BY <1>2, <1>10, <1>11, <1>13, <1>14

----
(***************************************************************************)
(* The inductive invariant.                                                *)
(***************************************************************************)

Walks == [sawFiles : BOOLEAN, lastErr : BOOLEAN, glsas : Seq(LoadedAdvisories)]

Stages == {"load", "list", "walk", "match", "osv", "build", "open", "write"} \cup Stopped

InputsOK == sbom \in Sboms \cup {Unreadable} /\ opts \in Options /\ commits \in Updates /\ pc \in Stages

\* What a file of the directory may hold.
Shows(from, to, r, f) == IF f \in r THEN {NoFile, Garbled, to[f]} ELSE {from[f]}

\* There is a directory, and each file is as one of the two commits has it or in between.
Present ==
  /\ {commits.from, commits.to} \subseteq [Files -> FileContents]
  /\ mirror \in [Files -> FileContents] /\ replaced \in SUBSET Files
  /\ \A f \in Files : mirror[f] \in Shows(commits.from, commits.to, replaced, f)

Directory ==
  /\ Present \/ (mirror = NoDirectory /\ replaced = {})
  /\ pc \notin {"load", "list", "error", "killed"} => Present

\* The packages are those of the SBOM.
Loading ==
  /\ pc \in {"load", "error", "killed"} \/ sbom # Unreadable
  /\ pc \notin {"load", "killed"} /\ sbom # Unreadable => doc = Load(sbom)

Distinct(s) == \A i, j \in DOMAIN s : i < j => s[i] # s[j]

WalkOK ==
  /\ walk \in Walks /\ todo \in Seq(Files) /\ Distinct(todo)
  /\ pc \in {"load", "list"} => walk = StartOfWalk /\ todo = <<>>
  /\ pc \in {"match", "osv", "build", "open", "write", "ok"} => todo = <<>> /\ walk.glsas # <<>>
  /\ walk.sawFiles => walk.lastErr \/ walk.glsas # <<>>

\* The advisories loaded so far are those of the files visited, as they may have been found.
ReadFrom(held, left, glsas) ==
  \A g : g \in ToSet(glsas) <=>
    \E f \in Files : /\ IsAdvisory(f) /\ f \notin ToSet(left) /\ held[f] \notin {NoFile, Garbled}
                     /\ g = loadFile(held[f])

AsRead ==
  pc \notin {"load", "list", "error", "killed"} => \E held \in MayHaveHeld : ReadFrom(held, todo, walk.glsas)

\* The answers to some queries when these records could be fetched.
ResultsFor(queries, fetched) == [q \in queries |-> Select(OsvDb[q], LAMBDA id : id \in fetched)]

\* The findings of both stages.
Matched ==
  /\ pc = "osv" => findings = Run(doc.packages, walk.glsas, Arch) /\ opts.osvEnabled
  /\ pc \in {"build", "open", "write", "ok"} =>
       \/ ~opts.osvEnabled /\ findings = Run(doc.packages, walk.glsas, Arch)
       \/ /\ opts.osvEnabled
          /\ \E positions \in AnswersFor(Len(OsvIds), ended) :
               findings = Run(doc.packages, walk.glsas, Arch)
                            \o RunOSV(doc.osvPackages, ResultsFor(Queries, {OsvIds[i] : i \in positions}), Aliases)
  /\ ended => opts.osvEnabled /\ opts.osvTimeout > 0

\* The document is that of the findings, and the output is it or no document at all.
Written ==
  /\ pc \in {"open", "write", "ok"} =>
       vex = Build(findings, IF opts.productID # "" THEN opts.productID ELSE deriveProductID(doc.name))
  /\ pc \notin {"write"} \cup Stopped => output = Old
  /\ output \in {Old, Partial, vex}
  /\ pc = "ok" => output = vex

GInv == InputsOK /\ Directory /\ Loading /\ WalkOK /\ AsRead /\ Matched /\ Written

\* What the process may have found in a file.
May(from, to, r, f) == IF f \in r THEN {from[f], to[f], NoFile} ELSE {from[f]}

Held(from, to, r) ==
  {[f \in Files |-> IF f \notin r \/ seen[f] = "from" THEN from[f]
                    ELSE IF seen[f] = "to" THEN to[f] ELSE NoFile] :
     seen \in [r -> {"from", "to", "gone"}]}

\* A choice of what each file was found as, file by file.
LEMMA HeldFacts ==
  ASSUME NEW from \in [Files -> FileContents], NEW to \in [Files -> FileContents], NEW r \in SUBSET Files, NEW h
  PROVE  h \in Held(from, to, r) <=>
           h \in [Files -> FileContents] /\ \A f \in Files : h[f] \in May(from, to, r, f)
<1>1. NoFile \in FileContents
  BY DEF FileContents
<1>2. ASSUME h \in Held(from, to, r)
      PROVE  h \in [Files -> FileContents] /\ \A f \in Files : h[f] \in May(from, to, r, f)
  <2>1. PICK seen \in [r -> {"from", "to", "gone"}] :
          h = [f \in Files |-> IF f \notin r \/ seen[f] = "from" THEN from[f]
                               ELSE IF seen[f] = "to" THEN to[f] ELSE NoFile]
    BY <1>2 DEF Held
  <2>2. \A f \in Files : h[f] \in FileContents /\ h[f] \in May(from, to, r, f)
    BY <1>1, <2>1 DEF May
  <2> QED BY <2>1, <2>2
<1>3. ASSUME h \in [Files -> FileContents], \A f \in Files : h[f] \in May(from, to, r, f)
      PROVE  h \in Held(from, to, r)
  <2>1. PICK seen : seen = [f \in r |-> IF h[f] = from[f] THEN "from" ELSE IF h[f] = to[f] THEN "to" ELSE "gone"]
    OBVIOUS
  <2>2. seen \in [r -> {"from", "to", "gone"}]
    BY <2>1
  <2>3. PICK k : k = [f \in Files |-> IF f \notin r \/ seen[f] = "from" THEN from[f]
                                      ELSE IF seen[f] = "to" THEN to[f] ELSE NoFile]
    OBVIOUS
  <2>4. \A f \in Files : k[f] = h[f]
    <3> TAKE f \in Files
    <3>1. h[f] \in May(from, to, r, f)
      BY <1>3
    <3>2. CASE f \notin r
      BY <2>3, <3>1, <3>2 DEF May
    <3>3. CASE f \in r /\ h[f] = from[f]
      BY <2>1, <2>3, <3>3
    <3>4. CASE f \in r /\ h[f] # from[f] /\ h[f] = to[f]
      BY <2>1, <2>3, <3>4
    <3>5. CASE f \in r /\ h[f] # from[f] /\ h[f] # to[f]
      <4>1. h[f] = NoFile
        BY <3>1, <3>5 DEF May
      <4> QED BY <2>1, <2>3, <3>5, <4>1
    <3> QED BY <3>2, <3>3, <3>4, <3>5
  <2>5. k = h
    BY <1>3, <2>3, <2>4
  <2> QED BY <2>2, <2>3, <2>5 DEF Held
<1> QED BY <1>2, <1>3

\* MayHaveHeld is such a choice, of the commits and of the files replaced so far.
LEMMA HeldIsHeld == MayHaveHeld = Held(commits.from, commits.to, replaced)
BY DEF MayHaveHeld, Held

\* Once more of the directory is replaced, more may have been found in it.
LEMMA HeldGrows ==
  ASSUME NEW from \in [Files -> FileContents], NEW to \in [Files -> FileContents],
         NEW q \in SUBSET Files, NEW r \in SUBSET q
  PROVE  Held(from, to, r) \subseteq Held(from, to, q)
<1> SUFFICES ASSUME NEW h \in Held(from, to, r) PROVE h \in Held(from, to, q)
  OBVIOUS
<1>1. r \in SUBSET Files
  OBVIOUS
<1>2. h \in [Files -> FileContents] /\ \A f \in Files : h[f] \in May(from, to, r, f)
  BY <1>1, HeldFacts
<1>3. \A f \in Files : May(from, to, r, f) \subseteq May(from, to, q, f)
  BY DEF May
<1>4. \A f \in Files : h[f] \in May(from, to, q, f)
  BY <1>2, <1>3
<1> QED BY <1>2, <1>4, HeldFacts

(* The start.                                                              *)
LEMMA InitGInv == Init => GInv
<1> SUFFICES ASSUME Init PROVE GInv
  OBVIOUS
<1> USE DEF Init
<1>1. InputsOK
  BY DEF InputsOK, Stages
<1>2. Directory
  <2>1. \/ commits.from = NoDirectory
        \/ {commits.from, commits.to} \subseteq [Files -> FileContents]
    BY UpdatesAssumption DEF FileContents
  <2> QED BY <2>1 DEF Directory, Present, Shows
<1>3. Loading
  BY DEF Loading
<1>4. WalkOK
  <2>1. <<>> \in Seq(Files) /\ <<>> \in Seq(LoadedAdvisories)
    BY EmptySeq
  <2>2. Distinct(<<>>)
    BY DEF Distinct
  <2>3. StartOfWalk \in Walks /\ ~StartOfWalk.sawFiles
    BY <2>1 DEF StartOfWalk, Walks
  <2> QED BY <2>1, <2>2, <2>3 DEF WalkOK
<1>5. AsRead /\ Matched /\ Written
  BY DEF AsRead, Matched, Written, Stopped
<1> QED BY <1>1, <1>2, <1>3, <1>4, <1>5 DEF GInv

(* A step of the sync: one more file, or the next state of the file.       *)
LEMMA SyncGInv ==
  ASSUME GInv, NEW f \in Files, SyncRemoves(f) \/ SyncCreates(f) \/ SyncWrites(f)
  PROVE  GInv'
<1>1. /\ UNCHANGED <<world, pc, doc, todo, walk, findings, ended, vex, output>> /\ Reading
      /\ replaced' = replaced \cup {f} \/ (replaced' = replaced /\ f \in replaced)
      /\ \E x \in {NoFile, Garbled, commits.to[f]} : mirror' = [mirror EXCEPT ![f] = x]
      /\ HasDirectory \/ replaced # {}
  BY DEF SyncRemoves, SyncCreates, SyncWrites
<1>2. UNCHANGED <<sbom, opts, commits, pc, doc, todo, walk, findings, ended, vex, output>>
  BY <1>1 DEF world
<1>3. pc \in {"load", "list", "walk"}
  BY <1>1 DEF Reading
<1>4. Present
  BY <1>1 DEF GInv, Directory, HasDirectory
<1>5. commits.to[f] \in FileContents /\ NoFile \in FileContents /\ Garbled \in FileContents
  BY <1>4 DEF Present, FileContents
<1>6. replaced' \in SUBSET Files /\ replaced \in SUBSET replaced' /\ f \in replaced'
  BY <1>1, <1>4 DEF Present
<1>7. Present'
  <2>1. PICK x \in {NoFile, Garbled, commits.to[f]} : mirror' = [mirror EXCEPT ![f] = x]
    BY <1>1
  <2>2. mirror \in [Files -> FileContents] /\ x \in FileContents
    BY <1>4, <1>5 DEF Present
  <2>3. mirror' \in [Files -> FileContents]
    BY <2>1, <2>2
  <2>4. ASSUME NEW h \in Files
        PROVE  mirror'[h] \in Shows(commits.from, commits.to, replaced', h)
    <3>1. CASE h = f
      BY <1>6, <2>1, <2>2, <3>1 DEF Shows
    <3>2. CASE h # f
      <4>1. mirror'[h] = mirror[h] /\ mirror[h] \in Shows(commits.from, commits.to, replaced, h)
        BY <1>4, <2>1, <2>2, <3>2 DEF Present
      <4>2. h \in replaced' <=> h \in replaced
        BY <1>1, <3>2
      <4> QED BY <4>1, <4>2 DEF Shows
    <3> QED BY <3>1, <3>2
  <2> QED BY <1>2, <1>4, <1>6, <2>3, <2>4 DEF Present
<1>8. InputsOK' /\ Loading' /\ WalkOK'
  BY <1>2 DEF GInv, InputsOK, Loading, WalkOK
<1>9. Directory'
  BY <1>7 DEF Directory
<1>10. AsRead'
  <2>1. MayHaveHeld = Held(commits.from, commits.to, replaced)
    BY HeldIsHeld
  <2>2. MayHaveHeld' = Held(commits.from, commits.to, replaced')
    BY <1>2 DEF MayHaveHeld, Held
  <2>3. MayHaveHeld \subseteq MayHaveHeld'
    <3>1. commits.from \in [Files -> FileContents] /\ commits.to \in [Files -> FileContents]
      BY <1>4 DEF Present
    <3> QED BY <1>6, <2>1, <2>2, <3>1, HeldGrows
  <2>4. AsRead
    BY DEF GInv
  <2> QED BY <1>2, <2>3, <2>4 DEF AsRead
<1>11. Matched'
  BY <1>2, <1>3 DEF GInv, Matched
<1>12. Written'
  BY <1>2, <1>3 DEF GInv, Written
<1> QED BY <1>8, <1>9, <1>10, <1>11, <1>12 DEF GInv

\* What a step of the process leaves alone.
LEMMA GoKeeps ==
  ASSUME NEW step, Go(step)
  PROVE  /\ pc' = step /\ UNCHANGED <<sbom, opts, commits, mirror, replaced>>
         /\ Present' = Present /\ MayHaveHeld' = MayHaveHeld
<1>1. pc' = step /\ UNCHANGED <<sbom, opts, commits, mirror, replaced>>
  BY DEF Go, world
<1>2. Present' = Present
  BY <1>1 DEF Present
<1>3. MayHaveHeld' = MayHaveHeld
  BY <1>1 DEF MayHaveHeld
<1> QED BY <1>1, <1>2, <1>3

(* An end before there is a document: the output is what it was.           *)
LEMMA StopGInv ==
  ASSUME GInv, pc \notin Stopped, NEW step \in {"error", "killed"}, Go(step),
         step = "error" => pc # "load" \/ sbom = Unreadable,
         UNCHANGED <<doc, todo, walk, findings, ended, vex, output>>
  PROVE  GInv'
<1>1. /\ pc' = step /\ UNCHANGED <<sbom, opts, commits, mirror, replaced>>
      /\ Present' = Present
  BY GoKeeps
<1>2. InputsOK'
  BY <1>1 DEF GInv, InputsOK, Stages, Stopped
<1>3. Directory'
  BY <1>1 DEF GInv, Directory
<1>4. Loading'
  BY <1>1 DEF GInv, Loading, Stopped
<1>5. WalkOK'
  BY <1>1 DEF GInv, WalkOK
<1>6. AsRead'
  BY <1>1 DEF AsRead
<1>7. Matched'
  BY <1>1 DEF GInv, Matched
<1>8. Written'
  BY <1>1 DEF GInv, Written, Stopped
<1> QED BY <1>2, <1>3, <1>4, <1>5, <1>6, <1>7, <1>8 DEF GInv

\* The SBOM is read, or the run ends with an error.
LEMMA LoadSbomGInv == ASSUME GInv, LoadSbom PROVE GInv'
<1>1. CASE sbom = Unreadable
  <2>1. pc \notin Stopped /\ Go("error") /\ UNCHANGED <<doc, todo, walk, findings, ended, vex, output>>
    BY <1>1 DEF LoadSbom, Stopped
  <2> QED BY <1>1, <2>1, StopGInv
<1>2. CASE sbom # Unreadable
  <2>1. /\ pc = "load" /\ Go("list") /\ doc' = Load(sbom)
        /\ UNCHANGED <<todo, walk, findings, ended, vex, output>>
    BY <1>2 DEF LoadSbom
  <2>2. pc' = "list" /\ UNCHANGED <<sbom, opts, commits, mirror, replaced>> /\ Present' = Present
    BY <2>1, GoKeeps
  <2>3. InputsOK'
    BY <2>2 DEF GInv, InputsOK, Stages
  <2>4. Directory'
    BY <2>2 DEF GInv, Directory
  <2>5. Loading'
    BY <1>2, <2>1, <2>2 DEF Loading
  <2>6. WalkOK'
    BY <2>1, <2>2 DEF GInv, WalkOK
  <2>7. AsRead'
    BY <2>2 DEF AsRead
  <2>8. Matched'
    BY <2>1, <2>2 DEF GInv, Matched
  <2>9. Written'
    BY <2>1, <2>2 DEF GInv, Written, Stopped
  <2> QED BY <2>3, <2>4, <2>5, <2>6, <2>7, <2>8, <2>9 DEF GInv
<1> QED BY <1>1, <1>2

\* The names of the files in the directory, each one once.
LEMMA ListedFiles ==
  ASSUME NEW S \in SUBSET Files
  PROVE  Sorted(S, StringLess) \in Seq(Files) /\ ToSet(Sorted(S, StringLess)) = S /\ Distinct(Sorted(S, StringLess))
<1>1. IsFiniteSet(S) /\ S \in SUBSET Words
  BY FilesAssumption, FS_Subset
<1>2. PICK s : s = Sorted(S, StringLess)
  OBVIOUS
<1>3. /\ s \in Seq(S) /\ ToSet(s) = S
      /\ \A i, j \in DOMAIN s : i < j => StringLess(s[i], s[j])
  BY <1>1, <1>2, SortedWords
<1>4. \A i \in DOMAIN s : Place[s[i]] \in Nat
  <2>1. \A i \in DOMAIN s : s[i] \in S
    BY <1>3
  <2> QED BY <1>1, <2>1, PlaceAssumption DEF Words
<1>5. Distinct(s)
  BY <1>3, <1>4 DEF Distinct, StringLess
<1>6. s \in Seq(Files)
  BY <1>3
<1> QED BY <1>2, <1>3, <1>5, <1>6

\* The names are listed: of each file it is known whether it was there.
LEMMA ListDirectoryGInv == ASSUME GInv, ListDirectory PROVE GInv'
<1>1. CASE ~HasDirectory
  <2>1. /\ pc = "list" /\ pc \notin Stopped /\ Go("error")
        /\ UNCHANGED <<doc, todo, walk, findings, ended, vex, output>>
    BY <1>1 DEF ListDirectory, Stopped
  <2> QED BY <2>1, StopGInv
<1>2. CASE HasDirectory
  <2> DEFINE there == {f \in Files : mirror[f] # NoFile}
  <2>1. /\ pc = "list" /\ Go("walk") /\ todo' = Sorted(there, StringLess)
        /\ UNCHANGED <<doc, walk, findings, ended, vex, output>>
    BY <1>2 DEF ListDirectory
  <2>2. /\ pc' = "walk" /\ UNCHANGED <<sbom, opts, commits, mirror, replaced>>
        /\ Present' = Present /\ MayHaveHeld' = MayHaveHeld
    BY <2>1, GoKeeps
  <2>3. todo' \in Seq(Files) /\ ToSet(todo') = there /\ Distinct(todo')
    <3>1. there \in SUBSET Files
      OBVIOUS
    <3> HIDE DEF there
    <3> QED BY <2>1, <3>1, ListedFiles
  <2>4. Present
    BY <1>2 DEF GInv, Directory, HasDirectory
  <2>5. walk = StartOfWalk
    BY <2>1 DEF GInv, WalkOK
  <2>6. InputsOK'
    BY <2>2 DEF GInv, InputsOK, Stages
  <2>7. Directory'
    BY <2>2, <2>4 DEF Directory
  <2>8. Loading'
    BY <2>1, <2>2 DEF GInv, Loading
  <2>9. WalkOK'
    <3> HIDE DEF there
    <3> QED BY <2>1, <2>2, <2>3 DEF GInv, WalkOK
  <2>10. AsRead'
    <3>1. PICK held : held = [f \in Files |-> IF mirror[f] = NoFile THEN NoFile ELSE commits.from[f]]
      OBVIOUS
    <3>2. commits.from \in [Files -> FileContents] /\ commits.to \in [Files -> FileContents] /\ replaced \in SUBSET Files
      BY <2>4 DEF Present
    <3>3. held \in [Files -> FileContents]
      BY <3>1, <3>2 DEF FileContents
    <3>4. \A f \in Files : held[f] \in May(commits.from, commits.to, replaced, f)
      BY <2>4, <3>1 DEF Present, Shows, May
    <3>5. held \in MayHaveHeld
      BY <3>2, <3>3, <3>4, HeldFacts, HeldIsHeld
    <3>6. \A f \in Files : f \notin ToSet(todo') => held[f] = NoFile
      BY <2>3, <3>1
    <3>7. ToSet(walk.glsas) = {}
      BY <2>5 DEF StartOfWalk, ToSet
    <3>8. ReadFrom(held, todo', walk.glsas)
      <4> HIDE DEF there
      <4> QED BY <3>6, <3>7 DEF ReadFrom
    <3> HIDE DEF there
    <3> QED BY <2>1, <2>2, <3>5, <3>8 DEF AsRead
  <2>11. Matched'
    BY <2>1, <2>2 DEF GInv, Matched
  <2>12. Written'
    BY <2>1, <2>2 DEF GInv, Written, Stopped
  <2> QED BY <2>6, <2>7, <2>8, <2>9, <2>10, <2>11, <2>12 DEF GInv
<1> QED BY <1>1, <1>2

\* The rest of a list without repetitions: all but the first.
LEMMA RestOfDistinct ==
  ASSUME NEW T, NEW s \in Seq(T), Distinct(s), s # <<>>
  PROVE  /\ Head(s) \in T /\ Head(s) \in ToSet(s)
         /\ Tail(s) \in Seq(T) /\ Distinct(Tail(s)) /\ ToSet(Tail(s)) = ToSet(s) \ {Head(s)}
<1>1. /\ Len(s) \in Nat \ {0} /\ DOMAIN s = 1 .. Len(s) /\ Head(s) = s[1]
      /\ \A i \in 1 .. Len(s) : s[i] \in T
  OBVIOUS
<1>2. /\ Tail(s) \in Seq(T) /\ DOMAIN Tail(s) = 1 .. Len(s) - 1
      /\ \A i \in 1 .. Len(s) - 1 : Tail(s)[i] = s[i + 1]
  OBVIOUS
<1>3. PICK t : t = Tail(s)
  OBVIOUS
<1>4. Distinct(t)
  BY <1>1, <1>2, <1>3 DEF Distinct
<1>5. Head(s) \in ToSet(s) /\ Head(s) \in T
  BY <1>1 DEF ToSet
<1>6. ASSUME NEW x \in ToSet(t)
      PROVE  x \in ToSet(s) /\ x # Head(s)
  <2>1. PICK i \in 1 .. Len(s) - 1 : x = s[i + 1]
    BY <1>2, <1>3 DEF ToSet
  <2>2. i + 1 \in DOMAIN s /\ 1 \in DOMAIN s /\ 1 < i + 1
    BY <1>1
  <2> QED BY <1>1, <2>1, <2>2 DEF ToSet, Distinct
<1>7. ASSUME NEW x \in ToSet(s), x # Head(s)
      PROVE  x \in ToSet(t)
  <2>1. PICK i \in 1 .. Len(s) : x = s[i]
    BY <1>1 DEF ToSet
  <2>2. i # 1
    BY <1>1, <1>7, <2>1
  <2>3. i - 1 \in 1 .. Len(s) - 1 /\ (i - 1) + 1 = i
    BY <1>1, <2>2
  <2>4. t[i - 1] = x /\ i - 1 \in DOMAIN t
    BY <1>2, <1>3, <2>1, <2>3
  <2> QED BY <2>4 DEF ToSet
<1> QED BY <1>2, <1>3, <1>4, <1>5, <1>6, <1>7

\* One more element at the end.
LEMMA AppendElements ==
  ASSUME NEW T, NEW s \in Seq(T), NEW x \in T
  PROVE  Append(s, x) \in Seq(T) /\ Append(s, x) # <<>> /\ ToSet(Append(s, x)) = ToSet(s) \cup {x}
<1>1. /\ Len(s) \in Nat /\ DOMAIN s = 1 .. Len(s)
      /\ Append(s, x) \in Seq(T) /\ DOMAIN Append(s, x) = 1 .. Len(s) + 1
      /\ \A i \in 1 .. Len(s) : Append(s, x)[i] = s[i]
      /\ Append(s, x)[Len(s) + 1] = x
  OBVIOUS
<1>2. PICK t : t = Append(s, x)
  OBVIOUS
<1>3. \A y : y \in ToSet(t) <=> \E i \in 1 .. Len(s) + 1 : y = t[i]
  BY <1>1, <1>2 DEF ToSet
<1>4. \A y : y \in ToSet(s) <=> \E i \in 1 .. Len(s) : y = s[i]
  BY <1>1 DEF ToSet
<1>5. \A i \in 1 .. Len(s) + 1 : i \in 1 .. Len(s) \/ i = Len(s) + 1
  BY <1>1
<1>6. \A i \in 1 .. Len(s) : i \in 1 .. Len(s) + 1
  BY <1>1
<1>7. Len(s) + 1 \in 1 .. Len(s) + 1
  BY <1>1
<1>8. ToSet(t) = ToSet(s) \cup {x}
  BY <1>1, <1>2, <1>3, <1>4, <1>5, <1>6, <1>7
<1>9. Append(s, x) # <<>>
  BY <1>1, <1>7
<1> QED BY <1>1, <1>2, <1>8, <1>9

(* A file is visited: it is as it was, as it is to be, or not there.       *)
LEMMA VisitFileGInv == ASSUME GInv, VisitFile PROVE GInv'
<1>1. PICK h : h = Head(todo)
  OBVIOUS
<1>2. /\ pc = "walk" /\ todo # <<>> /\ Go("walk") /\ todo' = Tail(todo)
      /\ walk' = IF IsAdvisory(h) THEN Visited(h) ELSE walk
      /\ UNCHANGED <<doc, findings, ended, vex, output>>
  BY <1>1 DEF VisitFile
<1>3. /\ pc' = "walk" /\ UNCHANGED <<sbom, opts, commits, mirror, replaced>>
      /\ Present' = Present /\ MayHaveHeld' = MayHaveHeld
  BY <1>2, GoKeeps
<1>4. Present
  BY <1>2 DEF GInv, Directory
<1>5. walk \in Walks /\ todo \in Seq(Files) /\ Distinct(todo)
  BY DEF GInv, WalkOK
<1>6. /\ h \in Files /\ h \in ToSet(todo)
      /\ todo' \in Seq(Files) /\ Distinct(todo') /\ ToSet(todo') = ToSet(todo) \ {h}
  BY <1>1, <1>2, <1>5, RestOfDistinct
<1>7. mirror[h] \in FileContents
  BY <1>4, <1>6 DEF Present
<1>8. InputsOK'
  BY <1>3 DEF GInv, InputsOK, Stages
<1>9. Directory'
  BY <1>3, <1>4 DEF Directory
<1>10. Loading'
  BY <1>2, <1>3 DEF GInv, Loading
<1>11. mirror[h] \notin {NoFile, Garbled} => loadFile(mirror[h]) \in LoadedAdvisories
  BY <1>7, LoadFileFacts DEF FileContents
<1>12. walk.glsas \in Seq(LoadedAdvisories)
  BY <1>5 DEF Walks
<1>13. CASE ~IsAdvisory(h)
  <2>1. walk' = walk
    BY <1>2, <1>13
  <2>2. AsRead'
    <3>1. PICK held \in MayHaveHeld : ReadFrom(held, todo, walk.glsas)
      BY <1>2 DEF GInv, AsRead
    <3>2. \A f \in Files : IsAdvisory(f) => (f \notin ToSet(todo) <=> f \notin ToSet(todo'))
      BY <1>6, <1>13
    <3>3. ReadFrom(held, todo', walk.glsas)
      BY <3>1, <3>2 DEF ReadFrom
    <3> QED BY <1>3, <2>1, <3>1, <3>3 DEF AsRead
  <2>3. WalkOK'
    BY <1>3, <1>6, <2>1 DEF GInv, WalkOK
  <2>4. Matched'
    BY <1>2, <1>3, <2>1 DEF GInv, Matched
  <2>5. Written'
    BY <1>2, <1>3 DEF GInv, Written, Stopped
  <2> QED BY <1>8, <1>9, <1>10, <2>2, <2>3, <2>4, <2>5 DEF GInv
<1>14. CASE IsAdvisory(h)
  <2>1. PICK held \in MayHaveHeld : ReadFrom(held, todo, walk.glsas)
    BY <1>2 DEF GInv, AsRead
  <2>2. PICK v : v = IF mirror[h] = Garbled /\ h \in replaced THEN NoFile ELSE mirror[h]
    OBVIOUS
  <2>3. /\ commits.from \in [Files -> FileContents] /\ commits.to \in [Files -> FileContents]
        /\ replaced \in SUBSET Files
        /\ mirror[h] \in Shows(commits.from, commits.to, replaced, h)
    BY <1>4, <1>6 DEF Present
  <2>4. v \in May(commits.from, commits.to, replaced, h) /\ v \in FileContents
    <3>1. CASE h \in replaced
      BY <1>7, <2>2, <2>3, <3>1 DEF Shows, May, FileContents
    <3>2. CASE h \notin replaced
      BY <1>7, <2>2, <2>3, <3>2 DEF Shows, May
    <3> QED BY <3>1, <3>2
  <2>5. PICK now : now = [held EXCEPT ![h] = v]
    OBVIOUS
  <2>6. held \in [Files -> FileContents] /\ \A f \in Files : held[f] \in May(commits.from, commits.to, replaced, f)
    BY <2>1, <2>3, HeldFacts, HeldIsHeld
  <2>7. now \in [Files -> FileContents] /\ now[h] = v /\ \A f \in Files \ {h} : now[f] = held[f]
    BY <1>6, <2>4, <2>5, <2>6
  <2>8. now \in MayHaveHeld
    <3>1. \A f \in Files : now[f] \in May(commits.from, commits.to, replaced, f)
      BY <2>4, <2>6, <2>7
    <3> QED BY <2>3, <2>7, <3>1, HeldFacts, HeldIsHeld
  <2>9. \A f \in Files : f \notin ToSet(todo') <=> f \notin ToSet(todo) \/ f = h
    BY <1>6
  <2>10. v \in {NoFile, Garbled} <=> mirror[h] \in {NoFile, Garbled}
    BY <2>2
  <2>11. \A g : g \in ToSet(walk.glsas) <=>
           \E f \in Files : /\ IsAdvisory(f) /\ f \notin ToSet(todo) /\ held[f] \notin {NoFile, Garbled}
                            /\ g = loadFile(held[f])
    BY <2>1 DEF ReadFrom
  <2>12. ReadFrom(now, todo', walk'.glsas) /\ walk' \in Walks /\ walk'.sawFiles
           /\ (walk'.lastErr \/ walk'.glsas # <<>>)
    <3>1. CASE mirror[h] \in {NoFile, Garbled}
      <4>1. walk' = [walk EXCEPT !.sawFiles = TRUE, !.lastErr = TRUE]
        BY <1>2, <1>14, <3>1 DEF Visited
      <4>2. walk' \in Walks /\ walk'.sawFiles /\ walk'.lastErr /\ walk'.glsas = walk.glsas
        BY <1>5, <4>1 DEF Walks
      <4>3. ReadFrom(now, todo', walk.glsas)
        BY <1>6, <2>7, <2>9, <2>10, <2>11, <3>1 DEF ReadFrom
      <4> QED BY <4>2, <4>3
    <3>2. CASE mirror[h] \notin {NoFile, Garbled}
      <4>1. walk' = [walk EXCEPT !.sawFiles = TRUE, !.glsas = Append(walk.glsas, loadFile(mirror[h]))]
        BY <1>2, <1>14, <3>2 DEF Visited
      <4>2. PICK x : x = loadFile(mirror[h])
        OBVIOUS
      <4>3. x \in LoadedAdvisories /\ v = mirror[h]
        BY <1>11, <2>2, <3>2, <4>2
      <4>4. PICK gs : gs = Append(walk.glsas, x)
        OBVIOUS
      <4>5. gs \in Seq(LoadedAdvisories) /\ gs # <<>> /\ ToSet(gs) = ToSet(walk.glsas) \cup {x}
        BY <1>12, <4>3, <4>4, AppendElements
      <4>6. walk' \in Walks /\ walk'.sawFiles /\ walk'.glsas = gs
        BY <1>5, <4>1, <4>2, <4>4, <4>5 DEF Walks
      <4>7. now[h] \notin {NoFile, Garbled} /\ x = loadFile(now[h])
        BY <2>7, <2>10, <3>2, <4>2, <4>3
      <4>8. ReadFrom(now, todo', gs)
        <5>1. ASSUME NEW g \in ToSet(gs)
              PROVE  \E f \in Files : /\ IsAdvisory(f) /\ f \notin ToSet(todo') /\ now[f] \notin {NoFile, Garbled}
                                      /\ g = loadFile(now[f])
          <6>1. CASE g = x
            BY <1>6, <1>14, <4>7, <6>1
          <6>2. CASE g \in ToSet(walk.glsas)
            <7>1. PICK f \in Files : /\ IsAdvisory(f) /\ f \notin ToSet(todo) /\ held[f] \notin {NoFile, Garbled}
                                     /\ g = loadFile(held[f])
              BY <2>11, <6>2
            <7>2. f # h /\ now[f] = held[f]
              BY <1>6, <2>7, <7>1
            <7> QED BY <2>9, <7>1, <7>2
          <6> QED BY <4>5, <6>1, <6>2
        <5>2. ASSUME NEW g, NEW f \in Files, IsAdvisory(f), f \notin ToSet(todo'), now[f] \notin {NoFile, Garbled},
                     g = loadFile(now[f])
              PROVE  g \in ToSet(gs)
          <6>1. CASE f = h
            BY <4>5, <4>7, <5>2, <6>1
          <6>2. CASE f # h
            BY <2>7, <2>9, <2>11, <4>5, <5>2, <6>2
          <6> QED BY <6>1, <6>2
        <5> QED BY <5>1, <5>2 DEF ReadFrom
      <4> QED BY <4>5, <4>6, <4>8
    <3> QED BY <3>1, <3>2
  <2>13. AsRead'
    BY <1>3, <2>8, <2>12 DEF AsRead
  <2>14. WalkOK'
    BY <1>3, <1>6, <2>12 DEF WalkOK
  <2>15. Matched'
    BY <1>2, <1>3 DEF GInv, Matched
  <2>16. Written'
    BY <1>2, <1>3 DEF GInv, Written, Stopped
  <2> QED BY <1>8, <1>9, <1>10, <2>13, <2>14, <2>15, <2>16 DEF GInv
<1> QED BY <1>13, <1>14

ById(gs) == Arranged(gs, LAMBDA g, h : StringLess(g.id, h.id))

\* Sorted by their IDs, the advisories are the same ones.
LEMMA ArrangedAdvisories ==
  ASSUME NEW gs \in Seq(LoadedAdvisories)
  PROVE  ById(gs) \in Seq(LoadedAdvisories) /\ Len(ById(gs)) = Len(gs) /\ ToSet(ById(gs)) = ToSet(gs)
<1>1. PICK less : less = {p \in (DOMAIN gs) \X (DOMAIN gs) : StringLess(gs[p[1]].id, gs[p[2]].id)}
  OBVIOUS
<1>2. \A x \in DOMAIN gs : gs[x].id \in Words
  <2>1. \A x \in DOMAIN gs : gs[x] \in LoadedAdvisories
    OBVIOUS
  <2> QED BY <2>1 DEF LoadedAdvisories
<1>3. \A x \in DOMAIN gs : Place[gs[x].id] \in Nat
  BY <1>2, PlaceAssumption DEF Words
<1>4. \A x, y \in DOMAIN gs : <<x, y>> \in less <=> Place[gs[x].id] < Place[gs[y].id]
  BY <1>1 DEF StringLess
<1>5. WeakOrder(DOMAIN gs, less)
  <2>1. \A x, y \in DOMAIN gs : <<x, y>> \in less => <<y, x>> \notin less
    BY <1>3, <1>4
  <2>2. \A x, y, z \in DOMAIN gs : <<x, z>> \in less => <<x, y>> \in less \/ <<y, z>> \in less
    BY <1>3, <1>4
  <2> QED BY <2>1, <2>2 DEF WeakOrder
<1>6. ById(gs) = Along(gs, DOMAIN gs, Stably(DOMAIN gs, less))
  <2>1. \A x, y \in DOMAIN gs : <<x, y>> \in less <=> StringLess(gs[x].id, gs[y].id)
    BY <1>1
  <2>2. Stably(DOMAIN gs, less) =
          {p \in (DOMAIN gs) \X (DOMAIN gs) :
             \/ StringLess(gs[p[1]].id, gs[p[2]].id)
             \/ p[1] < p[2] /\ ~StringLess(gs[p[2]].id, gs[p[1]].id)}
    BY <2>1 DEF Stably
  <2> QED BY <2>2 DEF ById, Arranged
<1> QED BY <1>5, <1>6, ArrangedFacts

(* The walk is over: some advisory was loaded, or LoadDir fails.           *)
LEMMA FinishWalkGInv == ASSUME GInv, FinishWalk PROVE GInv'
<1>1. PICK step : step = IF NothingLoaded THEN "error" ELSE "match"
  OBVIOUS
<1>2. PICK gs : gs = ById(walk.glsas)
  OBVIOUS
<1>3. /\ pc = "walk" /\ todo = <<>> /\ Go(step) /\ walk' = [walk EXCEPT !.glsas = gs]
      /\ UNCHANGED <<doc, todo, findings, ended, vex, output>>
  BY <1>1, <1>2 DEF FinishWalk, ById
<1>4. /\ pc' = step /\ UNCHANGED <<sbom, opts, commits, mirror, replaced>>
      /\ Present' = Present /\ MayHaveHeld' = MayHaveHeld
  BY <1>3, GoKeeps
<1>5. walk \in Walks /\ walk.glsas \in Seq(LoadedAdvisories) /\ (walk.sawFiles => walk.lastErr \/ walk.glsas # <<>>)
  BY DEF GInv, WalkOK, Walks
<1>6. gs \in Seq(LoadedAdvisories) /\ ToSet(gs) = ToSet(walk.glsas) /\ Len(gs) = Len(walk.glsas)
  BY <1>2, <1>5, ArrangedAdvisories
<1>7. gs = <<>> <=> walk.glsas = <<>>
  BY <1>5, <1>6
<1>8. walk' \in Walks /\ walk'.glsas = gs /\ walk'.sawFiles = walk.sawFiles /\ walk'.lastErr = walk.lastErr
  BY <1>3, <1>5, <1>6 DEF Walks
<1>9. InputsOK'
  BY <1>1, <1>4 DEF GInv, InputsOK, Stages, Stopped
<1>10. Directory'
  <2>1. Present
    BY <1>3 DEF GInv, Directory
  <2> QED BY <1>4, <2>1 DEF Directory
<1>11. Loading'
  BY <1>1, <1>3, <1>4 DEF GInv, Loading
<1>12. WalkOK'
  <2>1. step = "match" => gs # <<>>
    BY <1>1, <1>5, <1>7 DEF NothingLoaded
  <2>2. todo' = <<>> /\ todo' \in Seq(Files) /\ Distinct(todo')
    BY <1>3 DEF GInv, WalkOK
  <2>3. walk'.sawFiles => walk'.lastErr \/ walk'.glsas # <<>>
    BY <1>5, <1>7, <1>8
  <2> QED BY <1>1, <1>4, <1>8, <2>1, <2>2, <2>3 DEF WalkOK
<1>13. AsRead'
  <2>1. PICK held \in MayHaveHeld : ReadFrom(held, todo, walk.glsas)
    BY <1>3 DEF GInv, AsRead
  <2>2. ReadFrom(held, todo', walk'.glsas)
    BY <1>3, <1>6, <1>8, <2>1 DEF ReadFrom
  <2> QED BY <1>4, <2>1, <2>2 DEF AsRead
<1>14. Matched'
  BY <1>1, <1>3, <1>4 DEF GInv, Matched
<1>15. Written'
  BY <1>1, <1>3, <1>4 DEF GInv, Written, Stopped
<1> QED BY <1>9, <1>10, <1>11, <1>12, <1>13, <1>14, <1>15 DEF GInv

(* What the steps after the walk leave as they were.                       *)
LEMMA PastTheWalk ==
  ASSUME GInv, pc \in {"match", "osv", "build", "open", "write"}, NEW step, Go(step),
         step \in {"match", "osv", "build", "open", "write", "ok", "error"},
         UNCHANGED <<doc, todo, walk>>
  PROVE  InputsOK' /\ Directory' /\ Loading' /\ WalkOK' /\ AsRead'
<1>1. /\ pc' = step /\ UNCHANGED <<sbom, opts, commits, mirror, replaced>>
      /\ Present' = Present /\ MayHaveHeld' = MayHaveHeld
  BY GoKeeps
<1>2. InputsOK'
  BY <1>1 DEF GInv, InputsOK, Stages, Stopped
<1>3. Directory'
  <2>1. Present
    BY DEF GInv, Directory
  <2> QED BY <1>1, <2>1 DEF Directory
<1>4. Loading'
  BY <1>1 DEF GInv, Loading
<1>5. WalkOK'
  BY <1>1 DEF GInv, WalkOK
<1>6. AsRead'
  BY <1>1 DEF GInv, AsRead
<1> QED BY <1>2, <1>3, <1>4, <1>5, <1>6

\* The advisories are matched; wrong flags for OSV.dev end the run.
LEMMA MatchGInv == ASSUME GInv, Match PROVE GInv'
<1>1. PICK step : step = IF ~opts.osvEnabled THEN "build"
                         ELSE IF opts.osvTimeout < 0 \/ opts.osvBaseURL = "" THEN "error" ELSE "osv"
  OBVIOUS
<1>2. /\ pc = "match" /\ Go(step) /\ findings' = Run(doc.packages, walk.glsas, Arch)
      /\ UNCHANGED <<doc, todo, walk, ended, vex, output>>
  BY <1>1 DEF Match
<1>3. pc' = step /\ UNCHANGED <<sbom, opts, commits, mirror, replaced>>
  BY <1>2, GoKeeps
<1>4. InputsOK' /\ Directory' /\ Loading' /\ WalkOK' /\ AsRead'
  BY <1>1, <1>2, PastTheWalk
<1>5. Matched'
  BY <1>1, <1>2, <1>3 DEF GInv, Matched
<1>6. Written'
  BY <1>1, <1>2, <1>3 DEF GInv, Written, Stopped
<1> QED BY <1>4, <1>5, <1>6 DEF GInv

----
(* The OSV.dev stage.                                                      *)

\* The deadline can only come in the stage, and when there is one.
LEMMA OsvDeadlineGInv == ASSUME GInv, OsvDeadline PROVE GInv'
<1>1. /\ pc = "osv" /\ Go("osv") /\ opts.osvTimeout > 0 /\ ended' = TRUE
      /\ UNCHANGED <<doc, todo, walk, findings, vex, output>>
  BY DEF OsvDeadline, HasDeadline
<1>2. pc' = "osv" /\ UNCHANGED <<sbom, opts, commits, mirror, replaced>>
  BY <1>1, GoKeeps
<1>3. InputsOK' /\ Directory' /\ Loading' /\ WalkOK' /\ AsRead'
  BY <1>1, PastTheWalk
<1>4. Matched'
  BY <1>1, <1>2 DEF GInv, Matched
<1>5. Written'
  BY <1>1, <1>2 DEF GInv, Written, Stopped
<1> QED BY <1>3, <1>4, <1>5 DEF GInv

\* The findings of OSV.dev are put behind those of the advisories.
LEMMA OsvAnswersGInv == ASSUME GInv, OsvAnswers PROVE GInv'
<1>1. /\ pc = "osv" /\ Go("build") /\ UNCHANGED <<doc, todo, walk, ended, vex, output>>
      /\ \E positions \in AnswersFor(Len(OsvIds), ended) :
           findings' = findings \o RunOSV(doc.osvPackages, ResultsFor(Queries, {OsvIds[i] : i \in positions}), Aliases)
  BY DEF OsvAnswers, ResultsFor
<1>2. pc' = "build" /\ UNCHANGED <<sbom, opts, commits, mirror, replaced>>
  BY <1>1, GoKeeps
<1>3. InputsOK' /\ Directory' /\ Loading' /\ WalkOK' /\ AsRead'
  BY <1>1, PastTheWalk
<1>4. Matched'
  <2>1. findings = Run(doc.packages, walk.glsas, Arch) /\ opts.osvEnabled
    BY <1>1 DEF GInv, Matched
  <2>2. PICK positions \in AnswersFor(Len(OsvIds), ended) :
          findings' = findings \o RunOSV(doc.osvPackages, ResultsFor(Queries, {OsvIds[i] : i \in positions}), Aliases)
    BY <1>1
  <2>3. Queries' = Queries
    BY <1>1 DEF Queries
  <2>4. OsvIds' = OsvIds
    BY <2>3 DEF OsvIds
  <2>5. opts.osvEnabled /\ (ended => opts.osvTimeout > 0)
    BY <2>1 DEF GInv, Matched
  <2>6. /\ positions \in AnswersFor(Len(OsvIds), ended)'
        /\ findings' = Run(doc.packages, walk.glsas, Arch)
                         \o RunOSV(doc.osvPackages, ResultsFor(Queries, {OsvIds[i] : i \in positions}), Aliases)
    BY <1>1, <2>1, <2>2, <2>4
  <2> QED BY <1>1, <1>2, <2>3, <2>4, <2>5, <2>6 DEF Matched
<1>5. Written'
  BY <1>1, <1>2 DEF GInv, Written, Stopped
<1> QED BY <1>3, <1>4, <1>5 DEF GInv

----
(* The document and the output.                                            *)

\* The document is built of the findings, and nothing is written yet.
LEMMA BuildDocumentGInv == ASSUME GInv, BuildDocument PROVE GInv'
<1>1. /\ pc = "build" /\ Go("open") /\ UNCHANGED <<doc, todo, walk, findings, ended, output>>
      /\ vex' = Build(findings, IF opts.productID # "" THEN opts.productID ELSE deriveProductID(doc.name))
  BY DEF BuildDocument
<1>2. pc' = "open" /\ UNCHANGED <<sbom, opts, commits, mirror, replaced>>
  BY <1>1, GoKeeps
<1>3. InputsOK' /\ Directory' /\ Loading' /\ WalkOK' /\ AsRead'
  BY <1>1, PastTheWalk
<1>4. Matched'
  <2>1. Queries' = Queries
    BY <1>1 DEF Queries
  <2>2. OsvIds' = OsvIds
    BY <2>1 DEF OsvIds
  <2> QED BY <1>1, <1>2, <2>1, <2>2 DEF GInv, Matched
<1>5. Written'
  <2>1. vex' = Build(findings', IF opts'.productID # "" THEN opts'.productID ELSE deriveProductID(doc'.name))
    BY <1>1, <1>2
  <2>2. output' = Old
    BY <1>1 DEF GInv, Written, Stopped
  <2> QED BY <1>2, <2>1, <2>2 DEF Written, Stopped
<1> QED BY <1>3, <1>4, <1>5 DEF GInv

\* The steps that open and write the output.
LEMMA OutputGInv ==
  ASSUME GInv, OpenOutput \/ OpenFails \/ WriteOutput \/ WriteFails
  PROVE  GInv'
<1>1. /\ pc \in {"open", "write"} /\ UNCHANGED <<doc, todo, walk, findings, ended, vex>>
      /\ \E step \in {"write", "ok", "error"} : Go(step)
      /\ OpenOutput => Go("write") /\ output' = Partial
      /\ OpenFails => Go("error") /\ output' = output
      /\ WriteOutput => Go("ok") /\ output' = vex
      /\ WriteFails => Go("error") /\ output' = output
  BY DEF OpenOutput, OpenFails, WriteOutput, WriteFails
<1>2. PICK step \in {"write", "ok", "error"} : Go(step)
  BY <1>1
<1>3. pc' = step /\ UNCHANGED <<sbom, opts, commits, mirror, replaced>>
  BY <1>2, GoKeeps
<1>4. InputsOK' /\ Directory' /\ Loading' /\ WalkOK' /\ AsRead'
  BY <1>1, <1>2, PastTheWalk
<1>5. Matched'
  <2>1. Queries' = Queries
    BY <1>1 DEF Queries
  <2>2. OsvIds' = OsvIds
    BY <2>1 DEF OsvIds
  <2> QED BY <1>1, <1>3, <2>1, <2>2 DEF GInv, Matched
<1>6. Written'
  <2>1. vex' = Build(findings', IF opts'.productID # "" THEN opts'.productID ELSE deriveProductID(doc'.name))
    BY <1>1, <1>3 DEF GInv, Written
  <2>2. output' \in {Old, Partial, vex'} /\ (pc' = "ok" => output' = vex')
    <3>1. output \in {Old, Partial, vex}
      BY DEF GInv, Written
    <3>2. CASE OpenOutput
      BY <1>1, <1>3, <3>2 DEF Go
    <3>3. CASE WriteOutput
      BY <1>1, <3>3
    <3>4. CASE OpenFails \/ WriteFails
      BY <1>1, <3>1, <3>4 DEF Go
    <3> QED BY <3>2, <3>3, <3>4
  <2>3. pc' \in {"write"} \cup Stopped
    BY <1>3 DEF Stopped
  <2> QED BY <2>1, <2>2, <2>3 DEF Written
<1> QED BY <1>4, <1>5, <1>6 DEF GInv

----
\* A step that changes nothing.
LEMMA StutterGInv == ASSUME GInv, UNCHANGED vars PROVE GInv'
<1>1. UNCHANGED <<sbom, opts, commits, mirror, replaced, pc, doc, todo, walk, findings, ended, vex, output>>
  BY DEF vars
<1>2. Present' = Present /\ MayHaveHeld' = MayHaveHeld /\ Queries' = Queries
  BY <1>1 DEF Present, MayHaveHeld, Queries
<1>3. OsvIds' = OsvIds
  BY <1>2 DEF OsvIds
<1>4. InputsOK' /\ Directory' /\ Loading'
  BY <1>1, <1>2 DEF GInv, InputsOK, Directory, Loading
<1>5. WalkOK'
  BY <1>1 DEF GInv, WalkOK
<1>6. AsRead'
  BY <1>1, <1>2 DEF GInv, AsRead
<1>7. Matched'
  BY <1>1, <1>2, <1>3 DEF GInv, Matched
<1>8. Written'
  BY <1>1 DEF GInv, Written
<1> QED BY <1>4, <1>5, <1>6, <1>7, <1>8 DEF GInv

(* Every step keeps the invariant.                                         *)
LEMMA NextGInv == ASSUME GInv, [Next]_vars PROVE GInv'
<1>1. CASE Step
  <2>1. \/ LoadSbom \/ ListDirectory \/ VisitFile \/ FinishWalk \/ Match
        \/ BuildDocument \/ OpenOutput \/ WriteOutput
    BY <1>1 DEF Step
  <2> QED BY <2>1, LoadSbomGInv, ListDirectoryGInv, VisitFileGInv, FinishWalkGInv, MatchGInv,
             BuildDocumentGInv, OutputGInv
<1>2. CASE OsvDeadline
  BY <1>2, OsvDeadlineGInv
<1>3. CASE Osv
  <2>1. CASE OsvAnswers
    BY <2>1, OsvAnswersGInv
  <2>2. CASE OsvFails
    <3>1. /\ pc = "osv" /\ pc \notin Stopped /\ Go("error")
          /\ UNCHANGED <<doc, todo, walk, findings, ended, vex, output>>
      BY <2>2 DEF OsvFails, Stopped
    <3> QED BY <3>1, StopGInv
  <2> QED BY <1>3, <2>1, <2>2 DEF Osv
<1>4. CASE OpenFails \/ WriteFails
  BY <1>4, OutputGInv
<1>5. CASE Sync
  <2>1. PICK f \in Files : SyncRemoves(f) \/ SyncCreates(f) \/ SyncWrites(f)
    BY <1>5 DEF Sync
  <2> QED BY <2>1, SyncGInv
<1>6. CASE Killed
  <2>1. pc \notin Stopped /\ Go("killed") /\ UNCHANGED <<doc, todo, walk, findings, ended, vex, output>>
    BY <1>6 DEF Killed
  <2> QED BY <2>1, StopGInv
<1>7. CASE BuildFails
  <2>1. pc = "build" /\ pc \notin Stopped /\ Go("error") /\ UNCHANGED <<doc, todo, walk, findings, ended, vex, output>>
    BY <1>7 DEF BuildFails, Stopped
  <2> QED BY <2>1, StopGInv
<1>8. CASE Terminated \/ UNCHANGED vars
  BY <1>8, StutterGInv DEF Terminated
<1> QED BY <1>1, <1>2, <1>3, <1>4, <1>5, <1>6, <1>7, <1>8 DEF Next

(* The inductive invariant is one.                                         *)
THEOREM Invariance == Spec => []GInv
<1>1. Init => GInv
  BY InitGInv
<1>2. GInv /\ [Next]_vars => GInv'
  BY NextGInv
<1> QED BY <1>1, <1>2, PTL DEF Spec

(* The type invariant.                                                     *)
THEOREM TypeCorrect == Spec => []TypeOK
<1>1. GInv => TypeOK
  <2> SUFFICES ASSUME GInv PROVE TypeOK
    OBVIOUS
  <2>1. /\ sbom \in Sboms \cup {Unreadable} /\ opts \in Options /\ commits \in Updates
        /\ pc \in {"load", "list", "walk", "match", "osv", "build", "open", "write"} \cup Stopped
    BY DEF GInv, InputsOK, Stages
  <2>2. HasDirectory => mirror \in [Files -> Contents \cup {NoFile, Garbled}]
    <3> SUFFICES ASSUME HasDirectory PROVE mirror \in [Files -> Contents \cup {NoFile, Garbled}]
      OBVIOUS
    <3>1. Present
      BY DEF GInv, Directory, HasDirectory
    <3>2. \A f \in Files : mirror[f] \in {commits.from[f], commits.to[f], NoFile, Garbled}
      BY <3>1 DEF Present, Shows
    <3>3. \A f \in Files : mirror[f] \in Contents \cup {NoFile, Garbled}
      BY <3>2 DEF Contents
    <3> QED BY <3>1, <3>3 DEF Present
  <2>3. replaced \subseteq Files
    BY DEF GInv, Directory, Present
  <2>4. ToSet(todo) \subseteq Files
    <3>1. todo \in Seq(Files)
      BY DEF GInv, WalkOK
    <3> QED BY <3>1, ElementsFinite
  <2>5. walk.sawFiles \in BOOLEAN /\ walk.lastErr \in BOOLEAN
    BY DEF GInv, WalkOK, Walks
  <2>6. ended => opts.osvEnabled /\ opts.osvTimeout > 0
    BY DEF GInv, Matched
  <2>7. output \in {Old, Partial, vex}
    BY DEF GInv, Written
  <2> QED BY <2>1, <2>2, <2>3, <2>4, <2>5, <2>6, <2>7 DEF TypeOK
<1> QED BY <1>1, Invariance, PTL

(* An error, or a kill, before the process has begun to write leaves the   *)
(* output as it was.                                                       *)
THEOREM ErrorKeepsOutputHolds == Spec => ErrorKeepsOutput
<1> DEFINE Keeps == pc' \in {"error", "killed"} /\ pc # "write" => output' = Old
<1>1. GInv /\ [Next]_vars => [Keeps]_vars
  <2> SUFFICES ASSUME GInv, Next, pc' \in {"error", "killed"}, pc # "write" PROVE output' = Old \/ UNCHANGED vars
    OBVIOUS
  <2>1. pc \notin {"write"} \cup Stopped => output = Old
    BY DEF GInv, Written
  <2>2. CASE Killed
    BY <2>1, <2>2 DEF Killed
  <2>3. CASE LoadSbom \/ ListDirectory \/ FinishWalk \/ Match \/ OsvFails \/ BuildFails \/ OpenFails
    BY <2>1, <2>3 DEF LoadSbom, ListDirectory, FinishWalk, Match, OsvFails, BuildFails, OpenFails, Stopped
  <2>4. CASE VisitFile \/ BuildDocument \/ OpenOutput \/ WriteOutput \/ OsvDeadline \/ OsvAnswers
    <3>1. Go("walk") \/ Go("open") \/ Go("write") \/ Go("ok") \/ Go("osv") \/ Go("build")
      BY <2>4 DEF VisitFile, BuildDocument, OpenOutput, WriteOutput, OsvDeadline, OsvAnswers
    <3> QED BY <3>1 DEF Go
  <2>5. CASE WriteFails
    BY <2>5 DEF WriteFails
  <2>6. CASE Sync
    <3>1. pc' = pc /\ Reading
      BY <2>6 DEF Sync, SyncRemoves, SyncCreates, SyncWrites
    <3> QED BY <3>1 DEF Reading
  <2>7. CASE Terminated
    BY <2>7 DEF Terminated
  <2> QED BY <2>2, <2>3, <2>4, <2>5, <2>6, <2>7 DEF Next, Step, Osv
<1> QED BY <1>1, Invariance, PTL DEF Spec, ErrorKeepsOutput

(* There is an advisory behind every document.                             *)
THEOREM SomethingWasRead == Spec => []NeverFromAnEmptyCorpus
<1>1. GInv => NeverFromAnEmptyCorpus
  <2> SUFFICES ASSUME GInv, pc = "ok"
               PROVE  \E held \in MayHaveHeld : \E f \in Files : IsAdvisory(f) /\ held[f] \notin {NoFile, Garbled}
    BY DEF NeverFromAnEmptyCorpus
  <2>1. PICK held \in MayHaveHeld : ReadFrom(held, todo, walk.glsas)
    BY DEF GInv, AsRead
  <2>2. walk.glsas \in Seq(LoadedAdvisories) /\ walk.glsas # <<>>
    BY DEF GInv, WalkOK, Walks
  <2>3. walk.glsas[1] \in ToSet(walk.glsas)
    <3>1. 1 \in DOMAIN walk.glsas
      BY <2>2
    <3> QED BY <3>1 DEF ToSet
  <2>4. \E f \in Files : IsAdvisory(f) /\ held[f] \notin {NoFile, Garbled}
    BY <2>1, <2>3 DEF ReadFrom
  <2> QED BY <2>4
<1> QED BY <1>1, Invariance, PTL

(* Every package of the SBOM goes to one source at most, and none that a   *)
(* source can be asked about gets lost.                                    *)
THEOREM PackagesSplit == Spec => []PackagesAreSplit
<1>1. GInv => PackagesAreSplit
  <2> SUFFICES ASSUME GInv, pc \notin {"load", "killed"}, sbom # Unreadable PROVE PackagesAreSplit
    BY DEF PackagesAreSplit
  <2>1. sbom \in Documents /\ doc = Load(sbom)
    BY SbomsAssumption DEF GInv, InputsOK, Loading
  <2>2. \A sp \in ToSet(sbom.packages) : sp \in SpdxPackages
    <3>1. sbom.packages \in Seq(SpdxPackages)
      BY <2>1 DEF Documents, SpdxPackages, SpdxRefs
    <3> QED BY <3>1, ElementsFinite
  <2>3. /\ \A pkg : pkg \in ToSet(doc.packages) <=> \E sp \in ToSet(sbom.packages) : pkg \in ToSet(EbuildOf(sp))
        /\ \A pkg : pkg \in ToSet(doc.osvPackages) <=> \E sp \in ToSet(sbom.packages) : pkg \in ToSet(OsvOf(sp))
        /\ Len(doc.packages) + Len(doc.osvPackages) <= Len(sbom.packages)
    BY <2>1, LoadFacts
  <2>4. ASSUME NEW pkg \in ToSet(doc.osvPackages)
        PROVE  /\ \E sp \in Origins(pkg) : PurlsIn(sp, {"ebuild"}) = <<>>
               /\ TrimSpace(pkg.version) \notin {"", "(devel)"} /\ pkg.name \notin {"", "../api"}
    <3>1. PICK sp \in ToSet(sbom.packages) : pkg \in ToSet(OsvOf(sp))
      BY <2>3
    <3>2. OsvOf(sp) # <<>>
      BY <3>1 DEF ToSet
    <3>3. sp \in SpdxPackages
      BY <2>2
    <3>4. /\ PurlsIn(sp, {"ebuild"}) = <<>>
          /\ pkg.version = sp.versionInfo /\ pkg.purl \in ToSet(PurlsIn(sp, {pkg.category}))
          /\ TrimSpace(pkg.version) \notin {"", "(devel)"} /\ pkg.name \notin {"", "../api"}
      BY <3>1, <3>2, <3>3, OsvOfFacts
    <3> QED BY <3>4 DEF Origins
  <2>5. ASSUME NEW sp \in ToSet(sbom.packages), NEW purls, purls = PurlsIn(sp, {"ebuild"}), purls # <<>>,
               Purl[purls[1]].category # "", Purl[purls[1]].name # ""
        PROVE  \E pkg \in ToSet(doc.packages) : pkg.purl = purls[1] /\ pkg.version = sp.versionInfo
    <3>1. sp \in SpdxPackages
      BY <2>2
    <3>2. parseEbuildPurlOk(purls[1])
      BY <2>5 DEF parseEbuildPurlOk
    <3>3. EbuildOf(sp) = <<EbuildPackage(sp, purls[1])>>
      BY <2>5, <3>1, <3>2, EbuildOfFacts
    <3>4. PICK pkg : pkg = EbuildPackage(sp, purls[1])
      OBVIOUS
    <3>5. pkg \in ToSet(EbuildOf(sp))
      BY <3>3, <3>4 DEF ToSet
    <3>6. pkg.purl = purls[1] /\ pkg.version = sp.versionInfo
      BY <3>4 DEF EbuildPackage
    <3> QED BY <2>3, <3>5, <3>6
  <2> QED BY <2>3, <2>4, <2>5 DEF PackagesAreSplit
<1> QED BY <1>1, Invariance, PTL

----
(* What the findings of a document are.                                    *)

\* The packages of the document that was read.
LEMMA DocFacts ==
  ASSUME GInv, pc = "ok"
  PROVE  /\ doc.packages \in Seq(Packages) /\ doc.osvPackages \in Seq(Packages) /\ doc.name = sbom.name
         /\ walk.glsas \in Seq(LoadedAdvisories)
         /\ \A pkg \in ToSet(doc.osvPackages) :
              QueryPurl(pkg) \in Queries /\ OsvDb[QueryPurl(pkg)] \in Seq(DOMAIN Aliases)
<1>1. sbom \in Sboms /\ sbom \in Documents /\ doc = Load(sbom)
  BY SbomsAssumption DEF GInv, InputsOK, Loading
<1>2. doc.packages \in Seq(Packages) /\ doc.osvPackages \in Seq(Packages) /\ doc.name = sbom.name
  BY <1>1, LoadFacts
<1>3. walk.glsas \in Seq(LoadedAdvisories)
  BY DEF GInv, WalkOK, Walks
<1>4. \A pkg \in ToSet(doc.osvPackages) : QueryPurl(pkg) \in DOMAIN OsvDb
  BY <1>1, OsvAssumption
<1>5. \A q \in DOMAIN OsvDb : OsvDb[q] \in Seq(DOMAIN Aliases)
  BY OsvAssumption
<1>6. \A pkg \in ToSet(doc.osvPackages) : QueryPurl(pkg) \in Queries
  BY DEF Queries, ToSet
<1> QED BY <1>2, <1>3, <1>4, <1>5, <1>6

\* What an answer with some records fetched lists for a query.
LEMMA ResultsFacts ==
  ASSUME NEW queries, NEW fetched, NEW q \in queries, OsvDb[q] \in Seq(DOMAIN Aliases)
  PROVE  /\ ResultsFor(queries, fetched)[q] \in Seq(DOMAIN Aliases)
         /\ \A id : id \in ToSet(ResultsFor(queries, fetched)[q]) <=> id \in ToSet(OsvDb[q]) /\ id \in fetched
<1> DEFINE I == {i \in DOMAIN OsvDb[q] : OsvDb[q][i] \in fetched}
<1>1. ResultsFor(queries, fetched)[q] = At(OsvDb[q], I)
  BY DEF ResultsFor, Select
<1>2. I \in SUBSET DOMAIN OsvDb[q]
  OBVIOUS
<1>3. \A id : id \in ToSet(OsvDb[q]) <=> \E i \in DOMAIN OsvDb[q] : OsvDb[q][i] = id
  BY DEF ToSet
<1>4. \A id : id \in {OsvDb[q][i] : i \in I} <=> id \in ToSet(OsvDb[q]) /\ id \in fetched
  BY <1>3
<1>5. At(OsvDb[q], I) \in Seq(DOMAIN Aliases) /\ ToSet(At(OsvDb[q], I)) = {OsvDb[q][i] : i \in I}
  <2> HIDE DEF I
  <2> QED BY <1>2, AtFacts
<1> QED BY <1>1, <1>4, <1>5

IdsAt(positions) == {OsvIds[i] : i \in positions}

\* Those of match.Run, and those of the records that were fetched.
LEMMA FindingsFacts ==
  ASSUME GInv, pc = "ok"
  PROVE  \E positions \in AnswersFor(Len(OsvIds), ended) :
           /\ findings \in Seq(Findings)
           /\ \A f : f \in ToSet(findings) <=>
                \/ f \in ToSet(Run(doc.packages, walk.glsas, Arch))
                \/ /\ opts.osvEnabled
                   /\ \E pkg \in ToSet(doc.osvPackages) : \E id \in ToSet(OsvDb[QueryPurl(pkg)]) :
                        id \in IdsAt(positions) /\ f = OsvFinding(id, pkg)
<1>1. PICK run : run = Run(doc.packages, walk.glsas, Arch)
  OBVIOUS
<1>2. run \in Seq(Findings)
  BY <1>1, DocFacts, RunFacts
<1>3. CASE ~opts.osvEnabled
  <2>1. findings = run
    BY <1>1, <1>3 DEF GInv, Matched
  <2>2. ~ended
    BY <1>3 DEF GInv, Matched
  <2>3. 1 .. Len(OsvIds) \in AnswersFor(Len(OsvIds), ended)
    BY <2>2 DEF AnswersFor
  <2> QED BY <1>1, <1>2, <1>3, <2>1, <2>3
<1>4. CASE opts.osvEnabled
  <2>1. PICK positions \in AnswersFor(Len(OsvIds), ended) :
          findings = run \o RunOSV(doc.osvPackages, ResultsFor(Queries, IdsAt(positions)), Aliases)
    BY <1>1, <1>4 DEF GInv, Matched, IdsAt
  <2>2. PICK results : results = ResultsFor(Queries, IdsAt(positions))
    OBVIOUS
  <2>3. ASSUME NEW pkg \in ToSet(doc.osvPackages)
        PROVE  /\ results[QueryPurl(pkg)] \in Seq(DOMAIN Aliases)
               /\ \A id : id \in ToSet(results[QueryPurl(pkg)]) <=>
                    id \in ToSet(OsvDb[QueryPurl(pkg)]) /\ id \in IdsAt(positions)
    <3>1. QueryPurl(pkg) \in Queries /\ OsvDb[QueryPurl(pkg)] \in Seq(DOMAIN Aliases)
      BY DocFacts
    <3> QED BY <2>2, <3>1, ResultsFacts
  <2>4. PICK osv : osv = RunOSV(doc.osvPackages, results, Aliases)
    OBVIOUS
  <2>5. /\ osv \in Seq(Findings)
        /\ \A f : f \in ToSet(osv) <=>
             \E pkg \in ToSet(doc.osvPackages) : \E id \in ToSet(results[QueryPurl(pkg)]) : f = OsvFinding(id, pkg)
    <3>1. doc.osvPackages \in Seq(Packages)
      BY DocFacts
    <3>2. \A pkg \in ToSet(doc.osvPackages) : results[QueryPurl(pkg)] \in Seq(DOMAIN Aliases)
      BY <2>3
    <3> QED BY <2>4, <3>1, <3>2, RunOSVFacts
  <2>6. findings = run \o osv
    BY <2>1, <2>2, <2>4
  <2>7. findings \in Seq(Findings) /\ ToSet(findings) = ToSet(run) \cup ToSet(osv)
    BY <1>2, <2>5, <2>6, ConcatElements
  <2>8. \A f : f \in ToSet(osv) <=>
          \E pkg \in ToSet(doc.osvPackages) : \E id \in ToSet(OsvDb[QueryPurl(pkg)]) :
            id \in IdsAt(positions) /\ f = OsvFinding(id, pkg)
    BY <2>3, <2>5
  <2> QED BY <1>1, <1>4, <2>7, <2>8
<1> QED BY <1>3, <1>4

\* The document that is written is that of the findings.
LEMMA OutputFacts ==
  ASSUME GInv, pc = "ok"
  PROVE  output = Build(findings, ProductOf(sbom.name))
<1>1. output = Build(findings, IF opts.productID # "" THEN opts.productID ELSE deriveProductID(doc.name))
  BY DEF GInv, Written
<1> QED BY <1>1, DocFacts DEF ProductOf, deriveProductID

(* The document does not depend on any order.                              *)
THEOREM DocumentCanonical == Spec => []DocumentIsCanonical
<1>1. GInv => DocumentIsCanonical
  <2> SUFFICES ASSUME GInv, pc = "ok" PROVE DocumentIsCanonical
    BY DEF DocumentIsCanonical
  <2>1. findings \in Seq(Findings)
    BY FindingsFacts
  <2>2. Canonical(output)
    BY <2>1, OutputFacts, BuildFacts
  <2> QED BY <2>2 DEF DocumentIsCanonical, Canonical
<1> QED BY <1>1, Invariance, PTL

----
(* The findings are the claims of the advisories and of OSV.dev.           *)

Claim(f) == <<f.cve, StatusOf(f), f.package.purl, f.source, f.ref>>

\* What an advisory claims is what Run finds of it.
LEMMA GlsaClaimsFacts ==
  ASSUME NEW x \in AdvisoryFiles, NEW c
  PROVE  c \in GlsaClaims(x) <=>
           \E ap \in ToSet(loadFile(x).packages) : \E pkg \in ToSet(doc.packages) :
             /\ MatchesArch(ap, Arch) /\ CategoryName(pkg) = ap.name
             /\ isAffected(pkg.version, ap) # "unknown"
             /\ \E cve \in ToSet(loadFile(x).cves) : c = Claim(GlsaFinding(cve, loadFile(x), ap, pkg))
<1> DEFINE cvesOf == UNION {ToSet(uri) : uri \in ToSet(x.uris)}
           about(d) == \E ap \in ToSet(x.packages) :
                         MatchesArch(ap, Arch) /\ ap.name = CategoryName(d[3]) /\ Says(ap, d[3].version, d[2])
           D == {d \in cvesOf \X {"affected", "fixed"} \X ToSet(doc.packages) : about(d)}
<1>1. loadFile(x).id = x.id /\ loadFile(x).packages = x.packages
  BY LoadFileFacts
<1>2. \A cve : cve \in ToSet(loadFile(x).cves) <=> cve \in cvesOf
  <2>1. ToSet(loadFile(x).cves) = UNION {ToSet(x.uris[i]) : i \in DOMAIN x.uris}
    BY LoadFileFacts
  <2>2. \A uri : uri \in ToSet(x.uris) <=> \E i \in DOMAIN x.uris : x.uris[i] = uri
    BY DEF ToSet
  <2> QED BY <2>1, <2>2
<1>3. ASSUME NEW ap \in ToSet(x.packages), NEW installed
      PROVE  /\ isAffected(installed, ap) \in {"affected", "fixed", "unknown"}
             /\ \A status \in {"affected", "fixed"} :
                  Says(ap, installed, status) <=> isAffected(installed, ap) = status
  <2>1. x.packages \in Seq(Entries)
    BY DEF AdvisoryFiles, Entries
  <2>2. ap \in Entries
    BY <2>1, ElementsFinite
  <2> QED BY <2>2, SaysFacts
<1>4. ASSUME NEW cve, NEW ap, NEW pkg
      PROVE  /\ isAffected(pkg.version, ap) = "affected" =>
                  Claim(GlsaFinding(cve, loadFile(x), ap, pkg)) = <<cve, "affected", pkg.purl, "glsa", x.id>>
             /\ isAffected(pkg.version, ap) # "affected" =>
                  Claim(GlsaFinding(cve, loadFile(x), ap, pkg)) = <<cve, "fixed", pkg.purl, "glsa", x.id>>
  BY <1>1 DEF Claim, GlsaFinding, StatusOf
<1>5. c \in GlsaClaims(x) <=> \E d \in D : c = <<d[1], d[2], d[3].purl, "glsa", x.id>>
  BY DEF GlsaClaims
<1> HIDE DEF cvesOf
<1>6. ASSUME c \in GlsaClaims(x)
      PROVE  \E ap \in ToSet(x.packages) : \E pkg \in ToSet(doc.packages) :
               /\ MatchesArch(ap, Arch) /\ CategoryName(pkg) = ap.name
               /\ isAffected(pkg.version, ap) # "unknown"
               /\ \E cve \in cvesOf : c = Claim(GlsaFinding(cve, loadFile(x), ap, pkg))
  <2>1. PICK d \in D : c = <<d[1], d[2], d[3].purl, "glsa", x.id>>
    BY <1>5, <1>6
  <2>2. /\ d[1] \in cvesOf /\ d[2] \in {"affected", "fixed"} /\ d[3] \in ToSet(doc.packages)
        /\ about(d)
    OBVIOUS
  <2>3. PICK ap \in ToSet(x.packages) :
          MatchesArch(ap, Arch) /\ ap.name = CategoryName(d[3]) /\ Says(ap, d[3].version, d[2])
    BY <2>2
  <2>4. isAffected(d[3].version, ap) = d[2]
    BY <1>3, <2>2, <2>3
  <2>5. c = Claim(GlsaFinding(d[1], loadFile(x), ap, d[3]))
    BY <1>4, <2>1, <2>2, <2>4
  <2>6. isAffected(d[3].version, ap) # "unknown"
    BY <2>2, <2>4
  <2> HIDE DEF about, D
  <2> QED BY <2>2, <2>3, <2>5, <2>6
<1>7. ASSUME NEW ap \in ToSet(x.packages), NEW pkg \in ToSet(doc.packages), NEW cve \in cvesOf,
             MatchesArch(ap, Arch), CategoryName(pkg) = ap.name, isAffected(pkg.version, ap) # "unknown",
             c = Claim(GlsaFinding(cve, loadFile(x), ap, pkg))
      PROVE  c \in GlsaClaims(x)
  <2>1. PICK status : status = isAffected(pkg.version, ap)
    OBVIOUS
  <2>2. status \in {"affected", "fixed"} /\ Says(ap, pkg.version, status)
    BY <1>3, <1>7, <2>1
  <2>3. c = <<cve, status, pkg.purl, "glsa", x.id>>
    BY <1>4, <1>7, <2>1, <2>2
  <2>4. PICK d : d = <<cve, status, pkg>>
    OBVIOUS
  <2>5. d[1] = cve /\ d[2] = status /\ d[3] = pkg
    BY <2>4
  <2>6. about(d)
    BY <1>7, <2>2, <2>5
  <2>7. d \in cvesOf \X {"affected", "fixed"} \X ToSet(doc.packages)
    BY <2>2, <2>4
  <2>8. d \in D
    <3> HIDE DEF about
    <3> QED BY <2>6, <2>7
  <2>9. c = <<d[1], d[2], d[3].purl, "glsa", x.id>>
    BY <2>3, <2>5
  <2> HIDE DEF D
  <2> QED BY <1>5, <2>8, <2>9
<1> QED BY <1>1, <1>2, <1>6, <1>7

\* What OSV.dev claims is what RunOSV finds.
LEMMA OsvClaimsFacts ==
  ASSUME NEW ids, NEW c
  PROVE  c \in OsvClaims(ids) <=>
           \E pkg \in ToSet(doc.osvPackages) : \E id \in ToSet(OsvDb[QueryPurl(pkg)]) :
             id \in ids /\ c = Claim(OsvFinding(id, pkg))
<1>1. \A id, pkg : Claim(OsvFinding(id, pkg)) = <<AboutCVE(id), "affected", pkg.purl, "osv", id>>
  BY DEF Claim, OsvFinding, StatusOf
<1>2. c \in OsvClaims(ids) <=>
        \E d \in ids \X ToSet(doc.osvPackages) :
          d[1] \in ToSet(OsvDb[QueryPurl(d[2])]) /\ c = <<AboutCVE(d[1]), "affected", d[2].purl, "osv", d[1]>>
  BY DEF OsvClaims
<1>3. ASSUME c \in OsvClaims(ids)
      PROVE  \E pkg \in ToSet(doc.osvPackages) : \E id \in ToSet(OsvDb[QueryPurl(pkg)]) :
               id \in ids /\ c = Claim(OsvFinding(id, pkg))
  <2>1. PICK d \in ids \X ToSet(doc.osvPackages) :
          d[1] \in ToSet(OsvDb[QueryPurl(d[2])]) /\ c = <<AboutCVE(d[1]), "affected", d[2].purl, "osv", d[1]>>
    BY <1>2, <1>3
  <2>2. d[1] \in ids /\ d[2] \in ToSet(doc.osvPackages)
    OBVIOUS
  <2> QED BY <1>1, <2>1, <2>2
<1>4. ASSUME NEW pkg \in ToSet(doc.osvPackages), NEW id \in ToSet(OsvDb[QueryPurl(pkg)]), id \in ids,
             c = Claim(OsvFinding(id, pkg))
      PROVE  c \in OsvClaims(ids)
  <2>1. PICK d : d = <<id, pkg>>
    OBVIOUS
  <2>2. d \in ids \X ToSet(doc.osvPackages) /\ d[1] = id /\ d[2] = pkg
    BY <1>4, <2>1
  <2> QED BY <1>1, <1>2, <1>4, <2>2
<1> QED BY <1>3, <1>4

\* The claims of what was read and fetched are those of the findings.
LEMMA ClaimsFacts ==
  ASSUME GInv, pc = "ok", NEW held \in MayHaveHeld, ReadFrom(held, todo, walk.glsas),
         NEW ids,
         \A f : f \in ToSet(findings) <=>
           \/ f \in ToSet(Run(doc.packages, walk.glsas, Arch))
           \/ /\ opts.osvEnabled
              /\ \E pkg \in ToSet(doc.osvPackages) : \E id \in ToSet(OsvDb[QueryPurl(pkg)]) :
                   id \in ids /\ f = OsvFinding(id, pkg)
  PROVE  \A c : c \in Claims(held, ids) <=> \E f \in ToSet(findings) : c = Claim(f)
<1> TAKE c
<1> DEFINE Read == {held[f] : f \in {h \in Files : IsAdvisory(h)}} \ {NoFile, Garbled}
           FoundIn(g) == \E ap \in ToSet(g.packages) : \E pkg \in ToSet(doc.packages) :
                           /\ MatchesArch(ap, Arch) /\ CategoryName(pkg) = ap.name
                           /\ isAffected(pkg.version, ap) # "unknown"
                           /\ \E cve \in ToSet(g.cves) : c = Claim(GlsaFinding(cve, g, ap, pkg))
<1>1. \A f \in Files : held[f] \in FileContents
  <2>1. Present
    BY DEF GInv, Directory
  <2> QED BY <2>1, HeldFacts, HeldIsHeld DEF Present
<1>2. todo = <<>>
  BY DEF GInv, WalkOK
<1>3. \A g : g \in ToSet(walk.glsas) <=> \E x \in Read : g = loadFile(x)
  <2>1. ToSet(todo) = {}
    BY <1>2 DEF ToSet
  <2>2. \A g : g \in ToSet(walk.glsas) <=>
          \E f \in Files : IsAdvisory(f) /\ held[f] \notin {NoFile, Garbled} /\ g = loadFile(held[f])
    BY <2>1 DEF ReadFrom
  <2>3. \A x : x \in Read <=> \E f \in Files : IsAdvisory(f) /\ held[f] \notin {NoFile, Garbled} /\ x = held[f]
    OBVIOUS
  <2> HIDE DEF Read
  <2> QED BY <2>2, <2>3
<1>4. \A x \in Read : x \in AdvisoryFiles
  BY <1>1 DEF FileContents
<1>5. c \in Claims(held, ids) <=>
        \/ \E x \in Read : c \in GlsaClaims(x)
        \/ opts.osvEnabled /\ c \in OsvClaims(ids)
  <2>1. PICK all : all = UNION {GlsaClaims(x) : x \in Read}
    OBVIOUS
  <2>2. Claims(held, ids) = all \cup (IF opts.osvEnabled THEN OsvClaims(ids) ELSE {})
    BY <2>1 DEF Claims
  <2> HIDE DEF Read
  <2>3. c \in all <=> \E x \in Read : c \in GlsaClaims(x)
    BY <2>1
  <2> QED BY <2>2, <2>3
<1> HIDE DEF Read
<1>6. (\E x \in Read : c \in GlsaClaims(x)) <=> \E g \in ToSet(walk.glsas) : FoundIn(g)
  <2>1. \A x \in Read : c \in GlsaClaims(x) <=> FoundIn(loadFile(x))
    BY <1>4, GlsaClaimsFacts
  <2> HIDE DEF FoundIn
  <2> QED BY <1>3, <2>1
<1>7. (\E f \in ToSet(Run(doc.packages, walk.glsas, Arch)) : c = Claim(f)) <=>
        \E g \in ToSet(walk.glsas) : FoundIn(g)
  <2>1. \A f : f \in ToSet(Run(doc.packages, walk.glsas, Arch)) <=>
          \E g \in ToSet(walk.glsas) : \E ap \in ToSet(g.packages) : \E pkg \in ToSet(doc.packages) :
            /\ MatchesArch(ap, Arch) /\ CategoryName(pkg) = ap.name
            /\ isAffected(pkg.version, ap) # "unknown"
            /\ \E cve \in ToSet(g.cves) : f = GlsaFinding(cve, g, ap, pkg)
    BY DocFacts, RunFacts
  <2> QED BY <2>1
<1>8. c \in OsvClaims(ids) <=>
        \E pkg \in ToSet(doc.osvPackages) : \E id \in ToSet(OsvDb[QueryPurl(pkg)]) :
          id \in ids /\ c = Claim(OsvFinding(id, pkg))
  BY OsvClaimsFacts
<1> HIDE DEF FoundIn
<1>9. c \in Claims(held, ids) <=>
        \/ \E f \in ToSet(Run(doc.packages, walk.glsas, Arch)) : c = Claim(f)
        \/ opts.osvEnabled /\ c \in OsvClaims(ids)
  BY <1>5, <1>6, <1>7
<1> QED BY <1>8, <1>9

(* The document says what the advisories and OSV.dev say.                  *)
THEOREM DocumentFaithful == Spec => []DocumentIsFaithful
<1>1. GInv => DocumentIsFaithful
  <2> SUFFICES ASSUME GInv, pc = "ok" PROVE DocumentIsFaithful
    BY DEF DocumentIsFaithful
  <2>1. PICK positions \in AnswersFor(Len(OsvIds), ended) :
          /\ findings \in Seq(Findings)
          /\ \A f : f \in ToSet(findings) <=>
               \/ f \in ToSet(Run(doc.packages, walk.glsas, Arch))
               \/ /\ opts.osvEnabled
                  /\ \E pkg \in ToSet(doc.osvPackages) : \E id \in ToSet(OsvDb[QueryPurl(pkg)]) :
                       id \in IdsAt(positions) /\ f = OsvFinding(id, pkg)
    BY FindingsFacts
  <2>2. PICK held \in MayHaveHeld : ReadFrom(held, todo, walk.glsas)
    BY DEF GInv, AsRead
  <2>3. PICK claims : claims = Claims(held, IdsAt(positions))
    OBVIOUS
  <2>4. \A c : c \in claims <=> \E f \in ToSet(findings) : c = Claim(f)
    <3>1. \A c : c \in Claims(held, IdsAt(positions)) <=> \E f \in ToSet(findings) : c = Claim(f)
      BY <2>1, <2>2, ClaimsFacts
    <3> QED BY <2>3, <3>1
  <2>5. /\ \A s \in ToSet(output) : s.product = ProductOf(sbom.name)
        /\ Listed(output) = ListedBy(findings)
        /\ Named(output) = NamedBy(findings)
    BY <2>1, OutputFacts, BuildFacts
  <2>6. \A f : /\ Claim(f)[1] = f.cve /\ Claim(f)[2] = StatusOf(f) /\ Claim(f)[3] = f.package.purl
               /\ Claim(f)[4] = f.source /\ Claim(f)[5] = f.ref
    BY DEF Claim
  <2>7. Listed(output) = {<<c[1], c[2], c[3]>> : c \in claims}
    <3>1. \A x : x \in ListedBy(findings) <=> \E f \in ToSet(findings) : x = <<f.cve, StatusOf(f), f.package.purl>>
      BY DEF ListedBy
    <3>2. \A x : x \in ListedBy(findings) <=> \E c \in claims : x = <<c[1], c[2], c[3]>>
      BY <2>4, <2>6, <3>1
    <3> QED BY <2>5, <3>2
  <2>8. Named(output) = {<<c[1], c[4], c[5]>> : c \in {d \in claims : d[2] = "affected" /\ d[5] # ""}}
    <3>1. \A x : x \in NamedBy(findings) <=>
            \E f \in ToSet(findings) : f.affected /\ f.ref # "" /\ x = <<f.cve, f.source, f.ref>>
      BY DEF NamedBy
    <3>2. \A f \in ToSet(findings) : f.affected <=> StatusOf(f) = "affected"
      BY DEF StatusOf
    <3>3. \A x : x \in NamedBy(findings) <=>
            \E c \in claims : c[2] = "affected" /\ c[5] # "" /\ x = <<c[1], c[4], c[5]>>
      <4>1. ASSUME NEW f \in ToSet(findings), NEW c, c = Claim(f)
            PROVE  (c[2] = "affected" /\ c[5] # "" <=> f.affected /\ f.ref # "")
                     /\ <<c[1], c[4], c[5]>> = <<f.cve, f.source, f.ref>>
        BY <2>6, <3>2, <4>1
      <4>2. ASSUME NEW x \in NamedBy(findings)
            PROVE  \E c \in claims : c[2] = "affected" /\ c[5] # "" /\ x = <<c[1], c[4], c[5]>>
        <5>1. PICK f \in ToSet(findings) : f.affected /\ f.ref # "" /\ x = <<f.cve, f.source, f.ref>>
          BY <3>1
        <5>2. PICK c : c = Claim(f)
          OBVIOUS
        <5> QED BY <2>4, <4>1, <5>1, <5>2
      <4>3. ASSUME NEW c \in claims, c[2] = "affected", c[5] # ""
            PROVE  <<c[1], c[4], c[5]>> \in NamedBy(findings)
        <5>1. PICK f \in ToSet(findings) : c = Claim(f)
          BY <2>4
        <5> QED BY <3>1, <4>1, <4>3, <5>1
      <4> QED BY <4>2, <4>3
    <3> QED BY <2>5, <3>3
  <2> QED BY <2>2, <2>3, <2>5, <2>7, <2>8 DEF DocumentIsFaithful, IdsAt
<1> QED BY <1>1, Invariance, PTL
====

---- MODULE Pipeline_proofs ----
(***************************************************************************)
(* Proofs about Pipeline for any set of advisories and any pushes, and any *)
(* number of callers, faults and kills: the types, and FreshReport as long *)
(* as all calls ask for one repository.  What sync-glsa guarantees comes   *)
(* from GlsaSync_proofs.                                                   *)
(***************************************************************************)
EXTENDS Pipeline, GlsaSync_proofs, Extremes

\* All calls of sync-glsa, ever, are for r.
AllFor(r) == \A p \in Callers : repo[p] = r

(***************************************************************************)
(* The invariant: once a call has succeeded, no file of the mirror is of   *)
(* an older push (Held), and what generate has read so far is as new as    *)
(* what had been promised when it began, or was passed over because a push *)
(* since then is replacing it (HasRead).                                   *)
(***************************************************************************)
ReaderTypeOK ==
  /\ genPc \in {"idle", "walk", "ok", "error"}
  /\ todo \subseteq Advisories
  /\ report \in [Advisories -> {NoTree} \cup Commits]
  /\ fresh \in 0 .. MaxCommits /\ due \in 0 .. fresh

Held(r) ==
  /\ dest.tree # {}
  /\ fresh # 0 => \A c \in dest.tree : c[1] = r /\ c[2] >= fresh

Covered(r, a) ==
  LET promised == Content(<<r, due>>, a)
  IN  \/ report[a][2] >= promised[2]
      \/ report[a] = NoTree /\ Content(Tip(r, upHead[r]), a)[2] > promised[2]

HasRead(r) ==
  /\ genPc = "ok" => todo = {}
  /\ genPc \in {"walk", "ok"} => \A a \in Advisories \ todo : Covered(r, a)

PInv(r) == IInv /\ Freshness /\ ReaderTypeOK /\ Held(r) /\ HasRead(r)

----
(* What a file holds in a commit.                                          *)

\* In an empty tree there is no file.
LEMMA ContentOfNothing ==
  ASSUME NEW a
  PROVE  Content(NoTree, a) = NoTree
<1>1. {n \in 1 .. NoTree[2] : a \in Writes[n]} = {}
  BY DEF NoTree
<1> QED BY <1>1 DEF Content

\* The last push that wrote the file, if there is one.
LEMMA ContentFacts ==
  ASSUME NEW r, NEW n \in Nat, NEW a
  PROVE  LET k == Content(<<r, n>>, a)[2]
         IN  /\ k \in 0 .. n
             /\ \A m \in 1 .. n : a \in Writes[m] => m <= k
             /\ k = 0 => Content(<<r, n>>, a) = NoTree
             /\ k # 0 => Content(<<r, n>>, a) = <<r, k>> /\ a \in Writes[k]
<1> DEFINE pushes == {m \in 1 .. n : a \in Writes[m]}
<1>1. Content(<<r, n>>, a) = IF pushes = {} THEN NoTree ELSE <<r, Max(pushes)>>
  BY DEF Content
<1>2. CASE pushes = {}
  BY <1>1, <1>2 DEF NoTree
<1>3. CASE pushes # {}
  <2>1. pushes \subseteq Nat /\ pushes \subseteq 1 .. n
    OBVIOUS
  <2>2. IsFiniteSet(pushes)
    <3>1. IsFiniteSet(1 .. n)
      BY FS_Interval
    <3> HIDE DEF pushes
    <3> QED BY <2>1, <3>1, FS_Subset
  <2>3. Max(pushes) \in pushes /\ \A m \in pushes : Max(pushes) >= m
    <3> HIDE DEF pushes
    <3> QED BY <1>3, <2>1, <2>2, MaxOfNaturals
  <2> DEFINE top == Max(pushes)
  <2>4. top \in 1 .. n /\ a \in Writes[top] /\ \A m \in 1 .. n : a \in Writes[m] => m <= top
    <3> HIDE DEF top
    <3>1. top \in pushes /\ \A m \in pushes : top >= m
      BY <2>3 DEF top
    <3> QED BY <3>1
  <2>5. Content(<<r, n>>, a) = <<r, top>> /\ Content(<<r, n>>, a)[2] = top
    <3> HIDE DEF pushes
    <3> QED BY <1>1, <1>3
  <2> HIDE DEF top
  <2> QED BY <2>4, <2>5
<1> QED BY <1>2, <1>3

\* A later commit of the repository has as late a push of it, and the same only if
\* it is the same.
LEMMA LaterContent ==
  ASSUME NEW r, NEW m \in Nat, NEW n \in Nat, m <= n, NEW a
  PROVE  /\ Content(<<r, m>>, a)[2] <= Content(<<r, n>>, a)[2]
         /\ Content(<<r, m>>, a)[2] = Content(<<r, n>>, a)[2] => Content(<<r, m>>, a) = Content(<<r, n>>, a)
<1> DEFINE j == Content(<<r, m>>, a)[2]
           k == Content(<<r, n>>, a)[2]
<1>1. /\ j \in 0 .. m
      /\ j = 0 => Content(<<r, m>>, a) = NoTree
      /\ j # 0 => Content(<<r, m>>, a) = <<r, j>> /\ a \in Writes[j]
  BY ContentFacts
<1>2. /\ k \in 0 .. n
      /\ \A i \in 1 .. n : a \in Writes[i] => i <= k
      /\ k = 0 => Content(<<r, n>>, a) = NoTree
      /\ k # 0 => Content(<<r, n>>, a) = <<r, k>>
  BY ContentFacts
<1> HIDE DEF j, k
<1>3. j <= k
  BY <1>1, <1>2
<1>4. j = k => Content(<<r, m>>, a) = Content(<<r, n>>, a)
  BY <1>1, <1>2
<1> QED BY <1>3, <1>4 DEF j, k

\* A commit of the tree holds of each file a commit that has been pushed.
LEMMA ContentType ==
  ASSUME TypeOK, NEW c \in dest.tree, NEW a
  PROVE  Content(c, a) \in {NoTree} \cup Commits
<1>1. c \in Commits \/ c = NoTree
  BY DEF TypeOK, Checkout
<1>2. CASE c = NoTree
  BY <1>2, ContentOfNothing
<1>3. CASE c \in Commits
  <2>1. c = <<c[1], c[2]>> /\ c[1] \in Repos /\ c[2] \in 1 .. MaxCommits /\ MaxCommits \in Nat
    BY <1>3, BoundsAssumption DEF Commits
  <2> DEFINE k == Content(<<c[1], c[2]>>, a)[2]
  <2>2. /\ k \in 0 .. c[2]
        /\ k = 0 => Content(<<c[1], c[2]>>, a) = NoTree
        /\ k # 0 => Content(<<c[1], c[2]>>, a) = <<c[1], k>>
    BY <2>1, ContentFacts
  <2> HIDE DEF k
  <2>3. k # 0 => <<c[1], k>> \in Commits
    BY <2>1, <2>2 DEF Commits
  <2> QED BY <2>1, <2>2, <2>3
<1> QED BY <1>1, <1>2, <1>3

----
(* Steps of sync-glsa.                                                     *)

\* The steps of sync-glsa keep the inductive invariant of GlsaSync.
LEMMA BaseStep == IInv /\ [Next]_vars => IInv'
  BY TypeStep, RemotesStep, ShapeStep, ArrivedStep, PlacesStep, DamageStep DEF IInv

\* A call that succeeds makes a promise, and no promise is taken back.
LEMMA FreshGrows ==
  ASSUME TypeOK, fresh \in 0 .. MaxCommits, MirrorStep
  PROVE  /\ fresh' \in 0 .. MaxCommits /\ fresh <= fresh'
         /\ \/ fresh' = fresh
            \/ \E q \in Callers : pc[q] = "count" /\ pc'[q] = "ok" /\ fresh' = since[q]
<1> DEFINE kept == {since[q] : q \in {p \in Callers : pc[p] = "count" /\ pc'[p] = "ok"}}
           values == {fresh} \cup kept
<1>1. fresh' = Max(values)
  BY DEF MirrorStep
<1>2. MaxCommits \in Nat /\ \A p \in Callers : since[p] \in 0 .. MaxCommits
  BY BoundsAssumption DEF TypeOK
<1>3. values \subseteq 0 .. MaxCommits /\ values # {}
  BY <1>2
<1>4. values \subseteq Nat /\ IsFiniteSet(values)
  <2> HIDE DEF values
  <2>1. IsFiniteSet(0 .. MaxCommits)
    BY <1>2, FS_Interval
  <2>2. IsFiniteSet(values)
    BY <1>3, <2>1, FS_Subset, Zenon
  <2>3. values \subseteq Nat
    BY <1>3
  <2> QED BY <2>2, <2>3
<1>5. Max(values) \in values /\ \A n \in values : Max(values) >= n
  <2> HIDE DEF values
  <2> QED BY <1>3, <1>4, MaxOfNaturals
<1>6. fresh' \in values /\ fresh' >= fresh
  BY <1>1, <1>5
<1>7. fresh' = fresh \/ \E q \in Callers : pc[q] = "count" /\ pc'[q] = "ok" /\ fresh' = since[q]
  BY <1>6
<1>8. fresh' \in 0 .. MaxCommits
  <2> HIDE DEF values
  <2> QED BY <1>3, <1>6
<1>9. fresh <= fresh'
  BY <1>2, <1>6, <1>8
<1> QED BY <1>7, <1>8, <1>9

\* What the calls guarantee of the mirror.
LEMMA HeldStep ==
  ASSUME NEW r \in Repos, AllFor(r), PInv(r), MirrorStep
  PROVE  Held(r)'
<1>0. /\ TypeOK /\ Shape /\ Arrived /\ Places /\ Next
      /\ dest \in Checkout /\ fresh \in 0 .. MaxCommits /\ MaxCommits \in Nat
      /\ \A p \in Callers : repo[p] = r /\ since[p] \in 0 .. MaxCommits
  BY BoundsAssumption DEF PInv, IInv, TypeOK, ReaderTypeOK, AllFor, MirrorStep
<1>1. /\ fresh' \in 0 .. MaxCommits /\ fresh <= fresh'
      /\ \/ fresh' = fresh
         \/ \E q \in Callers : pc[q] = "count" /\ pc'[q] = "ok" /\ fresh' = since[q]
  BY <1>0, FreshGrows
<1>2. NoTree[1] # r
  BY NamesAssumption DEF NoTree
<1>3. ASSUME dest' = dest, \A q \in Callers : ~(pc[q] = "count" /\ pc'[q] = "ok")
      PROVE  Held(r)'
  BY <1>0, <1>1, <1>3 DEF PInv, Held
<1>4. ASSUME NEW p \in Callers,
             SyncStep(p) \/ Fault(p) \/ Kill(p) \/ RemoteGoesSilent(p) \/ HelperExits(p)
      PROVE  Held(r)'
  <2>1. /\ Effect(p) /\ \A q \in Callers \ {p} : pc'[q] = pc[q]
        /\ UNCHANGED <<upHead, upTip, repo, since>>
    BY <1>0, <1>4, CallerStep
  <2>2. CASE pc[p] = "count" /\ pc'[p] = "ok"
    <3>1. dest' = dest
      BY <2>1, <2>2 DEF Effect, Stays, Begins, Vanishes, Receives, Completes, Breaks, Repoints, Fetches,
                        FindsHead, StartsReset
    <3>2. \A c \in dest.tree : c[1] = r /\ c[2] >= since[p]
      BY <1>0, <2>2 DEF PInv, Freshness, Serves
    <3>3. \A q \in Callers : pc[q] = "count" /\ pc'[q] = "ok" => q = p
      BY <2>1
    <3>4. fresh' = fresh \/ fresh' = since[p]
      BY <1>1, <3>3
    <3> QED BY <1>0, <3>1, <3>2, <3>4 DEF PInv, Held
  <2>3. CASE ~(pc[p] = "count" /\ pc'[p] = "ok")
    <3>1. fresh' = fresh
      BY <1>1, <2>1, <2>3
    <3>2. dest'.tree # {}
      BY <1>0, <2>1, AbsentFacts
      DEF PInv, Held, Effect, Stays, Begins, Vanishes, Receives, Cloned, Completes, FilesWritten,
          Breaks, Repoints, UrlSet, Fetches, Fetched, FindsHead, StartsReset, Checkout
    <3> SUFFICES ASSUME fresh # 0 PROVE \A c \in dest'.tree : c[1] = r /\ c[2] >= fresh
      BY <3>1, <3>2 DEF Held
    <3>3. \A c \in dest.tree : c[1] = r /\ c[2] >= fresh
      BY DEF PInv, Held
    <3>4. NoTree \notin dest.tree
      BY <1>2, <3>3
    <3>5. dest.branch # NoBranch /\ dest.git
      BY <3>4 DEF PInv, IInv, Shape, Absent
    <3>6. CASE dest'.tree = dest.tree
      BY <3>3, <3>6
    <3>7. CASE dest'.tree = {dest.goal} /\ p \in Writers
      <4>1. dest.goal \in dest.tree
        BY <1>0, <3>7 DEF Places
      <4> QED BY <3>3, <3>7, <4>1
    <3>8. CASE dest'.tree = dest.tree \cup {dest.tracked} /\ pc[p] = "reset"
      <4>1. dest.tracked[1] = r
        BY <1>0, <3>8 DEF PInv, Freshness, Serves
      <4>2. dest.tracked \in Commits /\ NoTree \notin Commits
        BY <3>5, NamesAssumption DEF PInv, IInv, Shape, NoTree, Commits
      <4>3. PICK c \in dest.tree : TRUE
        BY DEF PInv, Held
      <4>4. c[2] <= dest.tracked[2] /\ c[2] >= fresh /\ c \in Commits
        <5>1. c \in Known /\ c[1] = dest.tracked[1] /\ c[2] >= fresh
          BY <3>3, <3>4, <4>1, <4>3 DEF Known
        <5>2. c \in Commits
          BY <1>0, <3>4, <4>3 DEF Checkout
        <5> QED BY <1>0, <5>1, <5>2 DEF Arrived
      <4>5. c[2] \in Int /\ dest.tracked[2] \in Int
        BY <4>2, <4>4 DEF Commits
      <4>6. dest.tracked[2] >= fresh
        BY <1>0, <4>4, <4>5
      <4> QED BY <3>3, <3>8, <4>1, <4>6
    <3>9. \/ dest'.tree = dest.tree
          \/ dest'.tree = {dest.goal} /\ p \in Writers
          \/ dest'.tree = dest.tree \cup {dest.tracked} /\ pc[p] = "reset"
      BY <1>0, <2>1, <3>5
      DEF Effect, Stays, Begins, Vanishes, Receives, Completes, FilesWritten, Breaks, Repoints, UrlSet,
          Fetches, Fetched, FindsHead, StartsReset, Places, Checkout, Writers
    <3> QED BY <3>6, <3>7, <3>8, <3>9
  <2> QED BY <2>2, <2>3
<1>5. ASSUME NEW p \in Callers, AnyCall(p) PROVE Held(r)'
  <2>1. pc'[p] = "stat" /\ dest' = dest /\ \A q \in Callers \ {p} : pc'[q] = pc[q]
    BY <1>0, <1>5, CallStep
  <2> QED BY <1>3, <2>1
<1>6. CASE Upstream
  <2>1. UNCHANGED <<dest, pc>>
    BY <1>0, <1>6, UpstreamStep DEF PInv, IInv
  <2> QED BY <1>3, <2>1
<1> QED BY <1>0, <1>4, <1>5, <1>6, NextCases

----
(* Steps of generate.                                                      *)

\* Whatever generate can find of a file now is as new as anything promised; and while
\* the file is being replaced, the repository has something newer if anything was promised.
LEMMA WhatIsThere ==
  ASSUME NEW r \in Repos, PInv(r), NEW d \in 0 .. fresh, NEW a \in Advisories
  PROVE  /\ \A content \in MayHold(a) :
              content \in {NoTree} \cup Commits /\ content[2] >= Content(<<r, d>>, a)[2]
         /\ Moving(a) =>
              \/ Content(<<r, d>>, a)[2] = 0
              \/ Content(Tip(r, upHead[r]), a)[2] > Content(<<r, d>>, a)[2]
         /\ Content(<<r, d>>, a)[2] \in Nat
<1>0. /\ TypeOK /\ Remotes /\ Arrived /\ dest \in Checkout /\ MaxCommits \in Nat
      /\ fresh \in Nat /\ d \in Nat
      /\ HeadTip(r) \in Nat /\ Tip(r, upHead[r]) = <<r, HeadTip(r)>>
  BY BoundsAssumption, RemoteFacts DEF PInv, IInv, TypeOK, ReaderTypeOK, Tip, HeadTip
<1> DEFINE promised == Content(<<r, d>>, a)
<1>1. promised[2] \in Nat /\ (d = 0 => promised[2] = 0)
  <2>1. promised[2] \in 0 .. d
    BY <1>0, ContentFacts
  <2> HIDE DEF promised
  <2> QED BY <1>0, <2>1
<1>2. \A content \in MayHold(a) : content \in {NoTree} \cup Commits
  BY <1>0, ContentType DEF MayHold
<1>3. CASE fresh = 0
  <2>1. d = 0
    BY <1>0, <1>3
  <2>2. \A content \in {NoTree} \cup Commits : content[2] \in Nat
    BY <1>0 DEF NoTree, Commits
  <2> QED BY <1>1, <1>2, <2>1, <2>2
<1>4. CASE fresh # 0
  <2>1. \A c \in dest.tree : c = <<r, c[2]>> /\ c[2] \in Nat /\ d <= c[2] /\ c[2] <= HeadTip(r)
    <3> SUFFICES ASSUME NEW c \in dest.tree
                 PROVE  c = <<r, c[2]>> /\ c[2] \in Nat /\ d <= c[2] /\ c[2] <= HeadTip(r)
      OBVIOUS
    <3>1. c[1] = r /\ c[2] >= fresh
      BY <1>4 DEF PInv, Held
    <3>2. c # NoTree
      BY <3>1, NamesAssumption DEF NoTree
    <3>3. c \in Commits
      BY <1>0, <3>2 DEF Checkout
    <3>4. c = <<r, c[2]>> /\ c[2] \in Nat
      BY <1>0, <3>1, <3>3 DEF Commits
    <3>5. c[2] <= HeadTip(r)
      BY <1>0, <3>1, <3>2 DEF Arrived, Known
    <3> QED BY <1>0, <3>1, <3>4, <3>5
  <2>2. ASSUME NEW c \in dest.tree PROVE Content(c, a)[2] >= promised[2]
    <3>1. Content(<<r, d>>, a)[2] <= Content(<<r, c[2]>>, a)[2]
      BY <1>0, <2>1, LaterContent
    <3>2. Content(<<r, c[2]>>, a)[2] \in 0 .. c[2] /\ promised[2] \in 0 .. d
      BY <1>0, <2>1, ContentFacts
    <3> QED BY <1>0, <2>1, <3>1, <3>2
  <2>3. ASSUME Moving(a)
        PROVE  Content(Tip(r, upHead[r]), a)[2] > promised[2]
    <3>1. PICK c1 \in dest.tree, c2 \in dest.tree : Content(c1, a) # Content(c2, a)
      <4>1. \E x, y \in MayHold(a) : x # y
        BY <2>3, TwoElements DEF Moving
      <4> QED BY <4>1 DEF MayHold
    <3> DEFINE k1 == Content(c1, a)[2]
               k2 == Content(c2, a)[2]
               top == Content(<<r, HeadTip(r)>>, a)[2]
    <3>2. k1 <= top /\ k2 <= top
      BY <1>0, <2>1, LaterContent
    <3>3. k1 \in Nat /\ k2 \in Nat /\ top \in Nat
      <4>1. k1 \in 0 .. c1[2] /\ k2 \in 0 .. c2[2] /\ top \in 0 .. HeadTip(r)
        BY <1>0, <2>1, ContentFacts
      <4> HIDE DEF k1, k2, top
      <4> QED BY <1>0, <2>1, <4>1
    <3>4. k1 # k2
      <4>1. CASE c1[2] <= c2[2]
        BY <2>1, <3>1, <4>1, LaterContent
      <4>2. CASE c2[2] <= c1[2]
        BY <2>1, <3>1, <4>2, LaterContent
      <4> QED BY <2>1, <4>1, <4>2
    <3>5. k1 >= promised[2] /\ k2 >= promised[2]
      BY <2>2
    <3>6. Content(Tip(r, upHead[r]), a)[2] = top
      BY <1>0
    <3> HIDE DEF k1, k2, top, promised
    <3> QED BY <1>1, <3>2, <3>3, <3>4, <3>5, <3>6
  <2> QED BY <1>1, <1>2, <2>2, <2>3 DEF MayHold
<1> QED BY <1>0, <1>3, <1>4

\* The variables of generate keep their types.
LEMMA ReaderTypeStep ==
  IInv /\ ReaderTypeOK /\ [PipelineNext]_pipelineVars => ReaderTypeOK'
<1> SUFFICES ASSUME IInv, ReaderTypeOK, [PipelineNext]_pipelineVars PROVE ReaderTypeOK'
  OBVIOUS
<1> USE DEF ReaderTypeOK
<1>0. /\ TypeOK /\ MaxCommits \in Nat /\ Advisories \subseteq Nat
      /\ fresh \in Nat /\ due \in Nat
  BY BoundsAssumption, AdvisoriesAssumption DEF IInv
<1>1. CASE UNCHANGED pipelineVars
  BY <1>1 DEF pipelineVars, reader
<1>2. CASE ListDirectory
  <2>1. todo' \subseteq Advisories
    BY <1>2 DEF ListDirectory, Present
  <2>2. report' \in [Advisories -> {NoTree} \cup Commits]
    BY <1>2 DEF ListDirectory, Empty
  <2>3. genPc' \in {"idle", "walk", "ok", "error"} /\ fresh' = fresh /\ due' = fresh
    BY <1>2 DEF ListDirectory
  <2> QED BY <1>0, <2>1, <2>2, <2>3
<1>3. CASE VisitFile
  <2>1. Min(todo) \in todo
    BY <1>0, <1>3, MinOfNaturals DEF VisitFile
  <2>2. PICK content \in MayHold(Min(todo)) \cup {NoTree} :
          report' = [report EXCEPT ![Min(todo)] = content]
    BY <1>3 DEF VisitFile
  <2>3. content \in {NoTree} \cup Commits
    BY <1>0, <2>2, ContentType DEF MayHold
  <2>4. report' \in [Advisories -> {NoTree} \cup Commits]
    BY <2>1, <2>2, <2>3
  <2>5. todo' \subseteq Advisories /\ UNCHANGED <<genPc, fresh, due>>
    BY <1>3 DEF VisitFile
  <2> QED BY <2>4, <2>5
<1>4. CASE FinishWalk
  BY <1>4 DEF FinishWalk
<1>5. CASE MirrorStep
  <2>1. fresh' \in 0 .. MaxCommits /\ fresh <= fresh'
    BY <1>0, <1>5, FreshGrows
  <2>2. UNCHANGED <<genPc, todo, report, due>>
    BY <1>5 DEF MirrorStep, reader
  <2> QED BY <1>0, <2>1, <2>2
<1> QED BY <1>1, <1>2, <1>3, <1>4, <1>5 DEF PipelineNext, Generate

\* A step of generate is none of sync-glsa or of a remote.
LEMMA GenerateLeaves ==
  ASSUME Generate \/ UNCHANGED pipelineVars
  PROVE  UNCHANGED vars /\ fresh' = fresh
BY DEF Generate, ListDirectory, VisitFile, FinishWalk, pipelineVars

\* What generate has read stays as new as what was promised when it began.
LEMMA HasReadStep ==
  ASSUME NEW r \in Repos, PInv(r), [PipelineNext]_pipelineVars
  PROVE  HasRead(r)'
<1>0. /\ TypeOK /\ Remotes /\ Advisories \subseteq Nat /\ todo \subseteq Advisories
      /\ fresh \in Nat /\ due \in 0 .. fresh /\ fresh \in 0 .. fresh
      /\ report \in [Advisories -> {NoTree} \cup Commits]
  BY BoundsAssumption, AdvisoriesAssumption DEF PInv, IInv, ReaderTypeOK
<1>1. CASE UNCHANGED pipelineVars
  BY <1>1 DEF PInv, HasRead, Covered, Content, Tip, pipelineVars, vars, reader
<1>2. CASE ListDirectory
  <2>1. /\ genPc' # "ok" /\ report' = Empty /\ due' = fresh /\ UNCHANGED <<upHead, upTip>>
        /\ genPc' = "walk" => Present \subseteq todo'
    BY <1>2 DEF ListDirectory, vars
  <2>2. ASSUME genPc' = "walk", NEW a \in Advisories, a \notin todo'
        PROVE  Covered(r, a)'
    <3> DEFINE promised == Content(<<r, fresh>>, a)
    <3>1. a \notin Present
      BY <2>1, <2>2
    <3>2. Moving(a) \/ MayHold(a) = {NoTree}
      BY <3>1 DEF Present
    <3>3. /\ \A content \in MayHold(a) : content[2] >= promised[2]
          /\ Moving(a) => promised[2] = 0 \/ Content(Tip(r, upHead[r]), a)[2] > promised[2]
          /\ promised[2] \in Nat
      BY <1>0, WhatIsThere
    <3>4. NoTree[2] = 0 /\ report'[a] = NoTree
      BY <2>1 DEF NoTree, Empty
    <3>5. \/ report'[a][2] >= promised[2]
          \/ report'[a] = NoTree /\ Content(Tip(r, upHead[r]), a)[2] > promised[2]
      <4> HIDE DEF promised
      <4> QED BY <3>2, <3>3, <3>4
    <3>6. Content(<<r, due>>, a)' = promised /\ Content(Tip(r, upHead[r]), a)' = Content(Tip(r, upHead[r]), a)
      BY <2>1 DEF Content, Tip
    <3> HIDE DEF promised
    <3> QED BY <3>5, <3>6 DEF Covered
  <2> QED BY <2>1, <2>2 DEF HasRead
<1>3. CASE VisitFile
  <2>0. PICK b : b = Min(todo)
    OBVIOUS
  <2>1. b \in todo
    BY <1>0, <1>3, <2>0, MinOfNaturals DEF VisitFile
  <2>2. /\ genPc = "walk" /\ genPc' = "walk" /\ todo' = todo \ {b}
        /\ UNCHANGED <<upHead, upTip, due>>
    BY <1>3, <2>0 DEF VisitFile, vars
  <2>3. PICK content \in MayHold(b) \cup (IF Moving(b) THEN {NoTree} ELSE {}) :
          report' = [report EXCEPT ![b] = content]
    BY <1>3, <2>0 DEF VisitFile
  <2>4. \A a \in Advisories : /\ Content(<<r, due>>, a)' = Content(<<r, due>>, a)
                              /\ Content(Tip(r, upHead[r]), a)' = Content(Tip(r, upHead[r]), a)
    BY <2>2 DEF Content, Tip
  <2>5. Covered(r, b)'
    <3> DEFINE promised == Content(<<r, due>>, b)
    <3>1. b \in Advisories
      BY <1>0, <2>1
    <3>2. /\ \A found \in MayHold(b) : found[2] >= promised[2]
          /\ Moving(b) => promised[2] = 0 \/ Content(Tip(r, upHead[r]), b)[2] > promised[2]
          /\ promised[2] \in Nat
      BY <1>0, <3>1, WhatIsThere
    <3>3. report'[b] = content /\ NoTree[2] = 0
      BY <1>0, <2>3, <3>1 DEF NoTree
    <3>4. \/ content \in MayHold(b)
          \/ content = NoTree /\ Moving(b)
      BY <2>3
    <3>5. \/ report'[b][2] >= promised[2]
          \/ report'[b] = NoTree /\ Content(Tip(r, upHead[r]), b)[2] > promised[2]
      <4> HIDE DEF promised
      <4> QED BY <3>2, <3>3, <3>4
    <3> HIDE DEF promised
    <3>6. promised = Content(<<r, due>>, b)'
      BY <2>4, <3>1 DEF promised
    <3> QED BY <2>4, <3>1, <3>5, <3>6 DEF Covered
  <2>6. ASSUME NEW a \in Advisories, a \notin todo, a # b
        PROVE  Covered(r, a)'
    <3>1. Covered(r, a)
      BY <2>2, <2>6 DEF PInv, HasRead
    <3>2. report'[a] = report[a]
      BY <1>0, <2>3, <2>6
    <3> QED BY <2>4, <2>6, <3>1, <3>2 DEF Covered
  <2> QED BY <2>2, <2>5, <2>6 DEF HasRead
<1>4. CASE FinishWalk
  <2>1. /\ genPc = "walk" /\ todo = {} /\ todo' = todo /\ report' = report /\ due' = due
        /\ UNCHANGED <<upHead, upTip>>
    BY <1>4 DEF FinishWalk, vars
  <2>2. \A a \in Advisories : Covered(r, a)' = Covered(r, a)
    BY <2>1 DEF Covered, Content, Tip
  <2> QED BY <2>1, <2>2 DEF PInv, HasRead
<1>5. CASE MirrorStep
  <2>1. UNCHANGED <<genPc, todo, report, due>> /\ Next
    BY <1>5 DEF MirrorStep, reader
  <2>2. HeadTip(r) \in Nat /\ HeadTip(r)' \in Nat /\ HeadTip(r) <= HeadTip(r)'
    <3>1. CASE Upstream
      <4>1. HeadTip(r) <= HeadTip(r)' /\ TypeOK'
        BY <1>0, <2>1, <3>1, UpstreamStep, TypeStep DEF PInv
      <4>2. HeadTip(r)' \in 0 .. MaxCommits
        BY <4>1 DEF TypeOK, HeadTip
      <4> QED BY <1>0, <4>1, <4>2, RemoteFacts, BoundsAssumption
    <3>2. ASSUME UNCHANGED <<upHead, upTip>> PROVE HeadTip(r)' = HeadTip(r)
      BY <3>2 DEF HeadTip
    <3>3. HeadTip(r) \in Nat
      BY <1>0, RemoteFacts, BoundsAssumption
    <3> QED BY <1>0, <2>1, <3>1, <3>2, <3>3, NextCases, CallerStep, CallStep
  <2>3. /\ Tip(r, upHead[r]) = <<r, HeadTip(r)>>
        /\ Tip(r, upHead[r])' = <<r, HeadTip(r)'>>
    BY DEF Tip, HeadTip
  <2>4. ASSUME NEW a \in Advisories, Covered(r, a)
        PROVE  Covered(r, a)'
    <3> DEFINE promised == Content(<<r, due>>, a)
               now == Content(<<r, HeadTip(r)>>, a)[2]
               next == Content(<<r, HeadTip(r)'>>, a)[2]
    <3>1. now <= next
      BY <2>2, LaterContent
    <3>2. now \in Nat /\ next \in Nat /\ promised[2] \in Nat
      <4>1. now \in 0 .. HeadTip(r) /\ next \in 0 .. HeadTip(r)' /\ promised[2] \in 0 .. due
        BY <1>0, <2>2, ContentFacts
      <4> HIDE DEF now, next, promised
      <4> QED BY <1>0, <2>2, <4>1
    <3>3. report[a][2] >= promised[2] \/ (report[a] = NoTree /\ now > promised[2])
      BY <2>3, <2>4 DEF Covered
    <3>4. promised' = promised /\ report'[a] = report[a]
      BY <2>1 DEF Content
    <3>5. Content(Tip(r, upHead[r]), a)'[2] = next
      BY <2>3 DEF Content
    <3> HIDE DEF promised, now, next
    <3>6. \/ report'[a][2] >= promised[2]
          \/ report'[a] = NoTree /\ Content(Tip(r, upHead[r]), a)'[2] > promised[2]
      BY <3>1, <3>2, <3>3, <3>4, <3>5
    <3> QED BY <3>4, <3>6 DEF Covered, promised
  <2> QED BY <2>1, <2>4 DEF PInv, HasRead
<1> QED BY <1>1, <1>2, <1>3, <1>4, <1>5 DEF PipelineNext, Generate

----
\* At first nothing is there, and nothing has been promised.
LEMMA PipelineInitially ==
  PipelineInit => IInv /\ Freshness /\ ReaderTypeOK /\ \A r \in Repos : Held(r) /\ HasRead(r)
<1> SUFFICES ASSUME PipelineInit
             PROVE  IInv /\ Freshness /\ ReaderTypeOK /\ \A r \in Repos : Held(r) /\ HasRead(r)
  OBVIOUS
<1>1. IInv /\ Freshness
  BY InvInit DEF PipelineInit
<1>2. ReaderTypeOK
  BY BoundsAssumption DEF PipelineInit, ReaderTypeOK, Empty
<1>3. \A r \in Repos : Held(r) /\ HasRead(r)
  BY AbsentFacts DEF PipelineInit, Init, Held, HasRead
<1> QED BY <1>1, <1>2, <1>3

\* Every variable keeps its type whatever calls overlap and whatever is pushed: generate
\* never reads a file from a commit that does not exist, and is never promised one.
THEOREM PipelineTypeCorrect == PipelineSpec => []PipelineTypeOK
<1>1. IInv /\ [PipelineNext]_pipelineVars => IInv'
  BY BaseStep, GenerateLeaves DEF PipelineNext, MirrorStep
<1>2. IInv /\ ReaderTypeOK => PipelineTypeOK
  BY DEF IInv, ReaderTypeOK, PipelineTypeOK
<1> QED BY <1>1, <1>2, PipelineInitially, ReaderTypeStep, PTL DEF PipelineSpec

\* The whole invariant, as long as all calls are for one repository.
LEMMA PInvStep ==
  ASSUME NEW r \in Repos
  PROVE  PInv(r) /\ AllFor(r) /\ [PipelineNext]_pipelineVars => PInv(r)'
<1> SUFFICES ASSUME PInv(r), AllFor(r), [PipelineNext]_pipelineVars PROVE PInv(r)'
  OBVIOUS
<1>1. [Next]_vars
  BY GenerateLeaves DEF PipelineNext, MirrorStep
<1>2. IInv'
  BY <1>1, BaseStep DEF PInv
<1>3. Freshness'
  BY <1>1, FreshnessStep DEF PInv, Agreed, AllFor
<1>4. ReaderTypeOK'
  BY ReaderTypeStep DEF PInv
<1>5. Held(r)'
  <2>1. CASE MirrorStep
    BY <2>1, HeldStep
  <2>2. CASE Generate \/ UNCHANGED pipelineVars
    <3>1. dest' = dest /\ fresh' = fresh
      BY <2>2, GenerateLeaves DEF vars
    <3> QED BY <3>1 DEF PInv, Held
  <2> QED BY <2>1, <2>2 DEF PipelineNext
<1>6. HasRead(r)'
  BY HasReadStep
<1> QED BY <1>2, <1>3, <1>4, <1>5, <1>6 DEF PInv

\* "keep a local mirror fresh before running generate": as long as all calls of
\* sync-glsa ask for one repository, what generate reports is as new as what the last
\* success had promised, with calls overlapping, failing and being killed while it
\* reads; what is missing is being replaced by a later push.
THEOREM ReportIsFresh ==
  ASSUME NEW r \in Repos, Callers # {}
  PROVE  PipelineSpec /\ []AllFor(r) => []FreshReport
<1>1. PipelineInit => PInv(r)
  BY PipelineInitially DEF PInv
<1>2. PInv(r) /\ AllFor(r) => FreshReport
  <2> SUFFICES ASSUME PInv(r), AllFor(r), genPc = "ok",
                      NEW s \in Repos, NEW a \in Advisories, \A p \in Callers : repo[p] = s
               PROVE  LET promised == Content(<<s, due>>, a)
                      IN  \/ report[a][2] >= promised[2]
                          \/ report[a] = NoTree /\ Content(Tip(s, upHead[s]), a) # promised
    BY DEF FreshReport
  <2>1. s = r
    BY DEF AllFor
  <2>2. Covered(r, a)
    BY DEF PInv, HasRead
  <2>3. due \in Nat
    BY BoundsAssumption DEF PInv, ReaderTypeOK
  <2>4. Content(<<r, due>>, a)[2] \in 0 .. due
    BY <2>3, ContentFacts
  <2>5. Content(Tip(r, upHead[r]), a)[2] > Content(<<r, due>>, a)[2]
          => Content(Tip(r, upHead[r]), a) # Content(<<r, due>>, a)
    BY <2>3, <2>4
  <2> QED BY <2>1, <2>2, <2>5 DEF Covered
<1>3. PInv(r) /\ AllFor(r) /\ [PipelineNext]_pipelineVars => PInv(r)'
  BY PInvStep
<1> QED BY <1>1, <1>2, <1>3, PTL DEF PipelineSpec
====

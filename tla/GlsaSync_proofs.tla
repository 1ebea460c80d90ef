---- MODULE GlsaSync_proofs ----
(***************************************************************************)
(* Proofs about GlsaSync for any number of callers, repositories, branches *)
(* and commits, and any number of faults, kills and silences: the types,   *)
(* KeepsMirror, and, as long as the calls that overlap ask for one         *)
(* repository, FreshOnSuccess and the implementation of GlsaMirror.        *)
(***************************************************************************)
EXTENDS GlsaSync, FiniteSetTheorems, TLAPS

(***************************************************************************)
(* The inductive invariant.  Remotes is about the repositories, Shape and  *)
(* Arrived about the checkout, Places about who may be where in a call,    *)
(* Damage about who may have left a damaged file behind.  They need no     *)
(* assumption on overlapping calls; Freshness does.                        *)
(***************************************************************************)
HeadTip(r) == upTip[r][upHead[r]]

\* A default branch has a commit, no branch has a later one, and no call has seen one.
Remotes ==
  /\ \A r \in Repos : HeadTip(r) >= 1 /\ \A b \in Branches : upTip[r][b] <= HeadTip(r)
  /\ \A p \in Callers : since[p] <= HeadTip(repo[p])

\* A checkout is absent, has only begun, or follows a branch.
Shape ==
  /\ ~dest.git => dest = Absent
  /\ dest.git => dest.url \in Repos
  /\ dest.branch = NoBranch =>
       dest.tracked = NoTree /\ dest.head = NoBranch /\ dest.goal = NoTree /\ dest.tree = {NoTree}
  /\ dest.branch # NoBranch => dest.git /\ dest.tracked \in Commits /\ dest.goal \in Commits

Known == (dest.tree \cup {dest.tracked, dest.goal}) \ {NoTree}

\* What has arrived is on the branch that is followed (in its repository, if that
\* still has the branch), and the newest of it is what is tracked.
Arrived ==
  \A c \in Known :
    /\ c[2] <= HeadTip(c[1])
    /\ upTip[c[1]][dest.branch] # 0 => c[2] <= upTip[c[1]][dest.branch]
    /\ c[1] = dest.tracked[1] => c[2] <= dest.tracked[2]

Writers == {p \in Callers : pc[p] \in {"checkout", "resetting"}}

\* One call clones, into an empty checkout; one call writes files, those of a
\* commit that is the newest of its repository in the tree.
Places ==
  /\ \A p, q \in Callers : pc[p] = "cloning" /\ pc[q] = "cloning" => p = q
  /\ \A p \in Callers : pc[p] = "cloning" => dest.git /\ dest.branch = NoBranch
  /\ \A p \in Callers :
       pc[p] \in {"reset", "checkout", "resetting", "count"} => dest.branch # NoBranch
  /\ \A p, q \in Writers : p = q
  /\ Writers # {} =>
       dest.goal \in dest.tree /\ \A c \in dest.tree : c[1] = dest.goal[1] => c[2] <= dest.goal[2]

\* The places of a call that has failed, or has yet to write all files.
Unfinished ==
  {"error", "stat", "clone", "set-url", "fetch", "set-head", "reset", "resetting", "drain"}

\* A checkout has damaged files only where a call has failed and has not made up for it.
Damage ==
  dest.damaged => dest.branch # NoBranch /\ \E q \in Callers : pc[q] \in Unfinished

IInv == TypeOK /\ Remotes /\ Shape /\ Arrived /\ Places /\ Damage

\* The calls that run at one time ask for one repository.
Agreed ==
  \A p, q \in Callers : Running[p] = "running" /\ Running[q] = "running" => repo[p] = repo[q]

\* A commit with which call p may report success.
Serves(c, p) == c[1] = repo[p] /\ c[2] >= since[p]

\* What each step of a call has made sure of, others notwithstanding.
Freshness ==
  \A p \in Callers :
    /\ pc[p] \in {"fetch", "set-head"} /\ dest.git => dest.url = repo[p]
    /\ pc[p] = "set-head" /\ dest.branch # NoBranch =>
         /\ dest.tracked[1] = repo[p]
         /\ \/ dest.tracked[2] >= since[p]
            \/ upHead[repo[p]] # dest.branch /\ upTip[repo[p]][dest.branch] # 0
    /\ pc[p] \in {"reset", "checkout", "resetting", "count"} => Serves(dest.tracked, p)
    /\ pc[p] \in {"checkout", "resetting", "count"} => Serves(dest.goal, p)
    /\ pc[p] = "count" => \A c \in dest.tree : Serves(c, p)

----
(***************************************************************************)
(* What a step of a running call does to the checkout, whichever command   *)
(* it is, and whether it succeeds, fails or is killed.                     *)
(***************************************************************************)
Stays(p) ==
  /\ dest' = dest
  /\ \/ pc'[p] \in {pc[p], "error", "drain"} 
     \/ pc[p] = "stat" /\ pc'[p] \in {"set-url", "clone"}
     \/ pc[p] = "count" /\ pc'[p] = "ok"

Begins(p) ==
  /\ pc[p] = "clone" /\ pc'[p] = "cloning"
  /\ ~dest.git /\ dest' = [Absent EXCEPT !.git = TRUE, !.url = repo[p]]

Vanishes(p) == pc[p] = "cloning" /\ pc'[p] = "error" /\ dest' = Absent

Receives(p) == pc[p] = "cloning" /\ pc'[p] = "checkout" /\ dest' = Cloned(p)

Completes(p) ==
  pc[p] \in {"checkout", "resetting"} /\ pc'[p] \in {"count", "error"} /\ dest' = FilesWritten

Breaks(p) ==
  /\ pc[p] \in {"checkout", "resetting"} /\ pc'[p] = "error"
  /\ Torn(dest.tree) /\ dest' = [dest EXCEPT !.damaged = TRUE]

Repoints(p) ==
  pc[p] = "set-url" /\ pc'[p] \in {"fetch", "error"} /\ dest.git /\ dest' = UrlSet(p)

Fetches(p) ==
  pc[p] = "fetch" /\ pc'[p] \in {"set-head", "error", "drain"} /\ CanFetch /\ dest' = Fetched

FindsHead(p) ==
  /\ pc[p] = "set-head" /\ pc'[p] = "reset"
  /\ dest.git /\ upHead[dest.url] = dest.branch /\ dest' = [dest EXCEPT !.head = dest.branch]

StartsReset(p) ==
  /\ pc[p] = "reset" /\ pc'[p] = "resetting"
  /\ dest.git /\ ~Writing /\ dest.head # NoBranch
  /\ dest' = [dest EXCEPT !.goal = dest.tracked, !.tree = @ \cup {dest.tracked}]

Effect(p) ==
  \/ Stays(p) \/ Begins(p) \/ Vanishes(p) \/ Receives(p) \/ Completes(p)
  \/ Breaks(p) \/ Repoints(p) \/ Fetches(p) \/ FindsHead(p) \/ StartsReset(p)

\* No step of a call does anything else, or anything to another call or a remote.
LEMMA CallerStep ==
  ASSUME TypeOK, NEW p \in Callers,
         SyncStep(p) \/ Fault(p) \/ Kill(p) \/ RemoteGoesSilent(p) \/ HelperExits(p)
  PROVE  /\ Effect(p)
         /\ \A q \in Callers \ {p} : pc'[q] = pc[q]
         /\ UNCHANGED <<upHead, upTip, repo, since>>
         /\ pc' \in [Callers -> {"idle", "drain", "ok", "error"} \cup Steps]
         /\ pc[p] \in Steps \cup {"drain"}
         /\ locks' \subseteq locks \cup {"config", "shallow", "ref", "index"}
         /\ silent' \in [Callers -> BOOLEAN]
<1>0. /\ pc \in [Callers -> {"idle", "drain", "ok", "error"} \cup Steps]
      /\ silent \in [Callers -> BOOLEAN]
  BY DEF TypeOK
<1> USE DEF Go, Ends, Effect
<1>1. CASE Stat(p)
  BY <1>0, <1>1 DEF Stat, Stays, Steps, LockOf
<1>2. CASE CloneStart(p)
  BY <1>0, <1>2 DEF CloneStart, Begins, Stays, Steps, Network
<1>3. CASE CloneReceives(p)
  BY <1>0, <1>3 DEF CloneReceives, Receives, Steps, LockOf
<1>4. CASE CloneEnd(p) \/ ResetEnd(p)
  BY <1>0, <1>4 DEF CloneEnd, ResetEnd, Completes, Steps, LockOf
<1>5. CASE SetUrl(p)
  BY <1>0, <1>5 DEF SetUrl, Repoints, Stays, Steps, LockOf, Network
<1>6. CASE Fetch(p)
  BY <1>0, <1>6 DEF Fetch, Fetches, Stays, Steps, LockOf, Network
<1>7. CASE SetHead(p)
  BY <1>0, <1>7 DEF SetHead, FindsHead, Stays, Steps, LockOf, Network
<1>8. CASE ResetStart(p)
  BY <1>0, <1>8 DEF ResetStart, StartsReset, OriginHead, Stays, Steps, LockOf
<1>9. CASE Finish(p)
  BY <1>0, <1>9 DEF Finish, Stays, Steps
<1>10. CASE Fault(p)
  BY <1>0, <1>10 DEF Fault, AfterFault, CutOff, Breaks, Stays, Vanishes, Steps
<1>11. CASE Kill(p) \/ KillWhileSilent(p)
  <2>1. /\ pc[p] \in DOMAIN LockOf /\ KillLeaves(p)
        /\ pc'[p] = "error" \/ (pc[p] \in Network /\ pc'[p] = "drain")
        /\ \A q \in Callers \ {p} : pc'[q] = pc[q]
        /\ UNCHANGED <<upHead, upTip, repo, since, silent>>
        /\ pc' \in [Callers -> {"idle", "drain", "ok", "error"} \cup Steps]
    BY <1>0, <1>11 DEF Kill, KillWhileSilent, Network, LockOf, Steps
  <2>2. LockOf[pc[p]] \in {"config", "shallow", "ref", "index"}
    BY <2>1 DEF LockOf, Network
  <2>3. locks' \subseteq locks \cup {"config", "shallow", "ref", "index"}
    BY <2>1, <2>2 DEF KillLeaves
  <2>4. Effect(p)
    BY <2>1 DEF KillLeaves, Interrupted, CutOff, Breaks, Stays, Completes, Repoints, Fetches, Network
  <2> QED
    BY <1>0, <2>1, <2>3, <2>4 DEF Steps
<1>12. CASE RemoteGoesSilent(p) \/ HelperExits(p)
  BY <1>0, <1>12 DEF RemoteGoesSilent, HelperExits, Stays, Steps, Network
<1> QED
  BY <1>1, <1>2, <1>3, <1>4, <1>5, <1>6, <1>7, <1>8, <1>9, <1>10, <1>11, <1>12 DEF SyncStep

----
(* The base invariant.                                                     *)

\* Facts about what the remotes point at.
LEMMA RemoteFacts ==
  ASSUME TypeOK
  PROVE  /\ \A r \in Repos : upHead[r] \in Branches
         /\ \A r \in Repos, b \in Branches : upTip[r][b] \in 0 .. MaxCommits
         /\ \A r \in Repos : HeadTip(r) \in 0 .. MaxCommits
BY DEF TypeOK, HeadTip

\* There is nothing in an absent checkout.
LEMMA AbsentFacts ==
  /\ Absent \in Checkout /\ ~Absent.git
  /\ Absent.branch = NoBranch /\ Absent.head = NoBranch
  /\ Absent.tracked = NoTree /\ Absent.goal = NoTree /\ Absent.tree = {NoTree}
  /\ Absent.damaged = FALSE
BY DEF Absent, Checkout

\* The checkouts a call can make are checkouts, and have their shape.
LEMMA NewCheckouts ==
  ASSUME TypeOK, Remotes, Shape, Places, NEW p \in Callers, Effect(p)
  PROVE  dest' \in Checkout /\ Shape'
<1>0. /\ dest \in Checkout /\ repo[p] \in Repos
      /\ NoBranch \notin Branches
  BY NamesAssumption DEF TypeOK
<1>1. \A r \in Repos, b \in Branches : upTip[r][b] # 0 => Tip(r, b) \in Commits
  BY RemoteFacts, BoundsAssumption DEF Tip, Commits
<1>2. \A r \in Repos : upHead[r] \in Branches /\ Tip(r, upHead[r]) \in Commits
  BY <1>1, RemoteFacts DEF Remotes, HeadTip
<1>3. NoTree \notin Commits
  BY NamesAssumption DEF NoTree, Commits
<1> USE DEF Checkout
<1>4. CASE Stays(p)
  BY <1>0, <1>4 DEF Stays, Shape, Absent
<1>5. CASE Begins(p) \/ Vanishes(p)
  <2>1. CASE Vanishes(p)
    BY <2>1, AbsentFacts DEF Vanishes, Shape
  <2>2. CASE Begins(p)
    <3>1. dest' = [Absent EXCEPT !.git = TRUE, !.url = repo[p]]
      BY <2>2 DEF Begins
    <3> QED
      BY <1>0, <3>1, AbsentFacts DEF Shape
  <2> QED
    BY <1>5, <2>1, <2>2
<1>6. CASE Receives(p)
  <2> DEFINE b == upHead[repo[p]]
             c == Tip(repo[p], b)
  <2>1. b \in Branches /\ b # NoBranch /\ c \in Commits
    BY <1>0, <1>2
  <2>2. dest' = [dest EXCEPT !.branch = b, !.tracked = c, !.head = b, !.goal = c, !.tree = {NoTree, c}]
    BY <1>6 DEF Receives, Cloned
  <2> HIDE DEF b, c
  <2>3. dest' \in Checkout
    BY <1>0, <2>1, <2>2
  <2>4. dest.git
    BY <1>6 DEF Receives, Places
  <2> QED
    BY <1>0, <2>1, <2>2, <2>3, <2>4 DEF Shape
<1>7. CASE Completes(p)
  <2>1. dest' \in Checkout
    BY <1>0, <1>7 DEF Completes, FilesWritten
  <2>2. CASE dest.git
    BY <1>0, <1>7, <2>2 DEF Completes, FilesWritten, Shape
  <2>3. CASE ~dest.git
    <3>1. dest = Absent /\ dest' = [dest EXCEPT !.tree = {dest.goal}, !.damaged = FALSE]
      BY <1>7, <2>3 DEF Completes, FilesWritten, Shape
    <3>2. dest' = Absent
      BY <3>1 DEF Absent
    <3> QED
      BY <2>1, <3>1, <3>2 DEF Shape, Absent
  <2> QED
    BY <2>1, <2>2, <2>3
<1>8. CASE Repoints(p)
  <2>1. dest' \in Checkout
    BY <1>0, <1>8 DEF Repoints, UrlSet
  <2>2. Shape'
    BY <1>0, <1>8 DEF Repoints, UrlSet, Shape
  <2> QED
    BY <2>1, <2>2
<1>9. CASE Fetches(p)
  BY <1>0, <1>1, <1>9 DEF Fetches, CanFetch, Fetched, Shape
<1>10. CASE FindsHead(p)
  BY <1>0, <1>2, <1>10 DEF FindsHead, Shape
<1>11. CASE StartsReset(p)
  BY <1>0, <1>11 DEF StartsReset, Shape
<1>12. CASE Breaks(p)
  BY <1>0, <1>12 DEF Breaks, Shape, Places
<1> QED
  BY <1>4, <1>5, <1>6, <1>7, <1>8, <1>9, <1>10, <1>11, <1>12 DEF Effect

\* What is known of a checkout are commits, and there is none without a branch.
LEMMA KnownFacts ==
  ASSUME TypeOK, Shape
  PROVE  /\ \A c \in Known : c \in Commits /\ c[1] \in Repos /\ c[2] \in 1 .. MaxCommits
         /\ Known # {} => dest.branch \in Branches
         /\ dest.branch # NoBranch => dest.branch \in Branches /\ dest.tracked \in Known
<1>1. dest \in Checkout /\ NoTree \notin Commits
  BY NamesAssumption DEF TypeOK, NoTree, Commits
<1>2. \A c \in Known : c \in Commits
  BY <1>1 DEF Known, Checkout
<1>3. \A c \in Commits : c[1] \in Repos /\ c[2] \in 1 .. MaxCommits
  BY DEF Commits
<1>4. dest.branch = NoBranch => Known = {}
  BY DEF Known, Shape
<1>5. dest.branch # NoBranch => dest.branch \in Branches /\ dest.tracked \in Known
  BY <1>1 DEF Checkout, Known, Shape
<1> QED
  BY <1>2, <1>3, <1>4, <1>5

\* No step of a remote takes a default branch back, and a branch that comes back
\* has the default branch's commit.
LEMMA UpstreamStep ==
  ASSUME TypeOK, Remotes, Upstream
  PROVE  /\ upHead' \in [Repos -> Branches]
         /\ upTip' \in [Repos -> [Branches -> 0 .. MaxCommits]]
         /\ \A r \in Repos : HeadTip(r) <= HeadTip(r)'
         /\ \A r \in Repos, b \in Branches :
              /\ upTip[r][b] <= HeadTip(r)'
              /\ upTip'[r][b] <= HeadTip(r)'
              /\ \/ upTip'[r][b] = 0
                 \/ upTip'[r][b] >= HeadTip(r)
                 \/ upTip'[r][b] = upTip[r][b]
              /\ upHead[r] # b /\ upTip[r][b] # 0 => upHead'[r] # b /\ upTip'[r][b] = upTip[r][b]
         /\ UNCHANGED <<dest, locks, pc, repo, silent, since>>
<1>0. /\ upHead \in [Repos -> Branches]
      /\ upTip \in [Repos -> [Branches -> 0 .. MaxCommits]]
      /\ MaxCommits \in Nat \ {0}
      /\ \A r \in Repos : /\ upHead[r] \in Branches /\ upTip[r] \in [Branches -> 0 .. MaxCommits]
                         /\ upTip[r][upHead[r]] \in 1 .. MaxCommits
                         /\ \A b \in Branches : upTip[r][b] \in 0 .. upTip[r][upHead[r]]
  BY BoundsAssumption DEF TypeOK, Remotes, HeadTip
<1> USE DEF HeadTip
<1> DEFINE Above(s, c) ==
             /\ upTip[s][c] <= HeadTip(s)'
             /\ upTip'[s][c] <= HeadTip(s)'
             /\ \/ upTip'[s][c] = 0
                \/ upTip'[s][c] >= HeadTip(s)
                \/ upTip'[s][c] = upTip[s][c]
             /\ upHead[s] # c /\ upTip[s][c] # 0 => upHead'[s] # c /\ upTip'[s][c] = upTip[s][c]
<1>1. ASSUME NEW r \in Repos, Push(r)
      PROVE  /\ upHead' = upHead
             /\ upTip' \in [Repos -> [Branches -> 0 .. MaxCommits]]
             /\ upTip'[r][upHead[r]] = upTip[r][upHead[r]] + 1
             /\ \A b \in Branches \ {upHead[r]} : upTip'[r][b] = upTip[r][b]
             /\ \A s \in Repos \ {r} : upTip'[s] = upTip[s]
             /\ UNCHANGED <<dest, locks, pc, repo, silent, since>>
  BY <1>0, <1>1 DEF Push
<1>2. ASSUME NEW r \in Repos, NEW b \in Branches, NEW keepOld \in BOOLEAN,
             RenameDefaultBranch(r, b, keepOld)
      PROVE  /\ upHead' \in [Repos -> Branches]
             /\ upTip' \in [Repos -> [Branches -> 0 .. MaxCommits]]
             /\ upHead'[r] = b /\ b # upHead[r] /\ upTip[r][b] = 0
             /\ upTip'[r][b] = upTip[r][upHead[r]]
             /\ upTip'[r][upHead[r]] \in {0, upTip[r][upHead[r]]}
             /\ \A c \in Branches \ {b, upHead[r]} : upTip'[r][c] = upTip[r][c]
             /\ \A s \in Repos \ {r} : upTip'[s] = upTip[s] /\ upHead'[s] = upHead[s]
             /\ UNCHANGED <<dest, locks, pc, repo, silent, since>>
  BY <1>0, <1>2 DEF RenameDefaultBranch
<1>3. CASE \E r \in Repos : Push(r)
  <2> PICK r \in Repos : Push(r)
    BY <1>3
  <2>1. ASSUME NEW s \in Repos
        PROVE  HeadTip(s) <= HeadTip(s)' /\ \A c \in Branches : Above(s, c)
    <3>1. CASE s = r
      BY <1>0, <1>1, <3>1
    <3>2. CASE s # r
      BY <1>0, <1>1, <3>2
    <3> QED
      BY <3>1, <3>2
  <2> QED
    BY <1>0, <1>1, <2>1
<1>4. CASE \E r \in Repos, b \in Branches, keepOld \in BOOLEAN : RenameDefaultBranch(r, b, keepOld)
  <2> PICK r \in Repos, b \in Branches, keepOld \in BOOLEAN : RenameDefaultBranch(r, b, keepOld)
    BY <1>4
  <2>1. ASSUME NEW s \in Repos
        PROVE  HeadTip(s) <= HeadTip(s)' /\ \A c \in Branches : Above(s, c)
    <3>1. CASE s = r
      <4>1. upHead'[s] = b /\ b # upHead[s] /\ upTip[s][b] = 0 /\ upTip'[s][b] = upTip[s][upHead[s]]
        BY <1>2, <3>1
      <4>2. ASSUME NEW c \in Branches PROVE Above(s, c)
        BY <1>0, <1>2, <3>1, <4>1
      <4> QED
        BY <1>0, <4>1, <4>2
    <3>2. CASE s # r
      BY <1>0, <1>2, <3>2
    <3> QED
      BY <3>1, <3>2
  <2> QED
    BY <1>2, <2>1
<1> QED
  BY <1>3, <1>4 DEF Upstream

\* A call begins with what the default branch has.
LEMMA CallStep ==
  ASSUME TypeOK, NEW p \in Callers, AnyCall(p)
  PROVE  /\ pc[p] \in {"idle", "ok", "error"} /\ pc'[p] = "stat"
         /\ \A q \in Callers \ {p} : pc'[q] = pc[q] /\ repo'[q] = repo[q] /\ since'[q] = since[q]
         /\ repo'[p] \in Repos /\ since'[p] = HeadTip(repo'[p])
         /\ pc' \in [Callers -> {"idle", "drain", "ok", "error"} \cup Steps]
         /\ repo' \in [Callers -> Repos]
         /\ since' \in [Callers -> 0 .. MaxCommits]
         /\ UNCHANGED <<upHead, upTip, dest, locks, silent>>
<1> PICK r \in Repos : Call(p, r)
  BY DEF AnyCall
<1>1. HeadTip(r) \in 0 .. MaxCommits
  BY RemoteFacts
<1> QED
  BY <1>1 DEF Call, TypeOK, HeadTip, Steps

\* The steps of the whole, by their effect.
LEMMA NextCases ==
  ASSUME Next
  PROVE  \/ \E p \in Callers : AnyCall(p)
         \/ \E p \in Callers :
              SyncStep(p) \/ Fault(p) \/ Kill(p) \/ RemoteGoesSilent(p) \/ HelperExits(p)
         \/ Upstream
BY DEF Next

\* Every variable keeps its type: in particular a commit that is not there is never
\* cloned, fetched or reset to.
LEMMA TypeStep == IInv /\ [Next]_vars => TypeOK'
<1> SUFFICES ASSUME IInv, [Next]_vars PROVE TypeOK'
  OBVIOUS
<1>0. TypeOK /\ Remotes /\ Shape /\ Places
  BY DEF IInv
<1>1. CASE UNCHANGED vars
  BY <1>0, <1>1 DEF TypeOK, vars
<1>2. ASSUME NEW p \in Callers, AnyCall(p) PROVE TypeOK'
  BY <1>0, <1>2, CallStep DEF TypeOK
<1>3. ASSUME NEW p \in Callers,
             SyncStep(p) \/ Fault(p) \/ Kill(p) \/ RemoteGoesSilent(p) \/ HelperExits(p)
      PROVE  TypeOK'
  <2>1. Effect(p)
    BY <1>0, <1>3, CallerStep
  <2>2. dest' \in Checkout
    BY <1>0, <2>1, NewCheckouts
  <2> QED
    BY <1>0, <1>3, <2>2, CallerStep DEF TypeOK
<1>4. CASE Upstream
  BY <1>0, <1>4, UpstreamStep DEF TypeOK
<1> QED
  BY <1>1, <1>2, <1>3, <1>4, NextCases

\* What the remotes have only grows.
LEMMA RemotesStep == IInv /\ [Next]_vars => Remotes'
<1> SUFFICES ASSUME IInv, [Next]_vars PROVE Remotes'
  OBVIOUS
<1>0. TypeOK /\ Remotes /\ \A r \in Repos : HeadTip(r) \in 0 .. MaxCommits
  BY RemoteFacts DEF IInv
<1>1. CASE UNCHANGED vars
  BY <1>0, <1>1 DEF Remotes, HeadTip, vars
<1>2. ASSUME NEW p \in Callers, AnyCall(p) PROVE Remotes'
  <2>1. \A r : HeadTip(r)' = HeadTip(r)
    BY <1>0, <1>2, CallStep DEF HeadTip
  <2>2. \A q \in Callers : since'[q] <= HeadTip(repo'[q])
    BY <1>0, <1>2, CallStep DEF Remotes
  <2> QED
    BY <1>0, <1>2, <2>1, <2>2, CallStep DEF Remotes
<1>3. ASSUME NEW p \in Callers,
             SyncStep(p) \/ Fault(p) \/ Kill(p) \/ RemoteGoesSilent(p) \/ HelperExits(p)
      PROVE  Remotes'
  BY <1>0, <1>3, CallerStep DEF Remotes, HeadTip
<1>4. CASE Upstream
  <2>1. TypeOK'
    BY TypeStep
  <2>2. \A r \in Repos : HeadTip(r)' \in 0 .. MaxCommits /\ HeadTip(r) <= HeadTip(r)'
    BY <1>0, <1>4, <2>1, UpstreamStep DEF TypeOK, HeadTip
  <2>3. \A r \in Repos, b \in Branches : upTip'[r][b] <= HeadTip(r)'
    BY <1>0, <1>4, UpstreamStep
  <2>4. \A p \in Callers : since'[p] = since[p] /\ repo'[p] = repo[p] /\ repo[p] \in Repos
                          /\ since[p] \in 0 .. MaxCommits
    BY <1>0, <1>4, UpstreamStep DEF TypeOK
  <2> QED
    BY <1>0, <2>2, <2>3, <2>4, BoundsAssumption DEF Remotes
<1> QED
  BY <1>1, <1>2, <1>3, <1>4, NextCases

\* No checkout gets out of shape.
LEMMA ShapeStep == IInv /\ [Next]_vars => Shape'
<1> SUFFICES ASSUME IInv, [Next]_vars PROVE Shape'
  OBVIOUS
<1>0. TypeOK /\ Remotes /\ Shape /\ Places
  BY DEF IInv
<1>1. CASE dest' = dest
  BY <1>0, <1>1 DEF Shape
<1>2. ASSUME NEW p \in Callers,
             SyncStep(p) \/ Fault(p) \/ Kill(p) \/ RemoteGoesSilent(p) \/ HelperExits(p)
      PROVE  Shape'
  BY <1>0, <1>2, CallerStep, NewCheckouts
<1> QED
  BY <1>0, <1>1, <1>2, NextCases, CallStep, UpstreamStep DEF vars

\* A commit that arrives is the newest of its branch.
LEMMA ArrivedByCaller ==
  ASSUME IInv, NEW p \in Callers, Effect(p), UNCHANGED <<upHead, upTip, repo, since>>
  PROVE  Arrived'
<1>0. TypeOK /\ Remotes /\ Shape /\ Arrived /\ Places
  BY DEF IInv
<1>1. /\ \A c \in Known : c[1] \in Repos /\ c[2] \in 1 .. MaxCommits
      /\ dest.branch # NoBranch => dest.tracked \in Known
      /\ dest \in Checkout /\ repo[p] \in Repos
  BY <1>0, KnownFacts DEF TypeOK
<1>2. \A r : HeadTip(r)' = HeadTip(r)
  BY DEF HeadTip
<1>3. \A r \in Repos, b \in Branches :
        /\ Tip(r, b)[1] = r /\ Tip(r, b)[2] = upTip[r][b]
        /\ upTip[r][b] \in Nat /\ upTip[r][b] <= HeadTip(r)
  BY <1>0, RemoteFacts DEF Tip, Remotes
<1>4. CASE /\ dest'.branch = dest.branch /\ dest'.tracked = dest.tracked
           /\ Known' \subseteq Known
  BY <1>0, <1>2, <1>4 DEF Arrived
<1>5. CASE Stays(p) \/ Repoints(p) \/ FindsHead(p) \/ Breaks(p)
  <2>1. /\ dest'.branch = dest.branch /\ dest'.tracked = dest.tracked
        /\ dest'.tree = dest.tree /\ dest'.goal = dest.goal
    BY <1>1, <1>5 DEF Stays, Repoints, UrlSet, FindsHead, Breaks, Checkout
  <2> QED
    BY <1>4, <2>1 DEF Known
<1>6. CASE Begins(p) \/ Vanishes(p)
  <2>1. dest'.tree = {NoTree} /\ dest'.tracked = NoTree /\ dest'.goal = NoTree
    BY <1>6, AbsentFacts DEF Begins, Vanishes, Checkout
  <2>2. Known' = {}
    BY <2>1 DEF Known
  <2> QED
    BY <2>2 DEF Arrived
<1>7. CASE Receives(p)
  <2> DEFINE r == repo[p]
             b == upHead[r]
             c == Tip(r, b)
  <2>1. /\ dest'.branch = b /\ dest'.tracked = c /\ Known' \subseteq {c}
        /\ b \in Branches
    BY <1>0, <1>1, <1>7, RemoteFacts DEF Receives, Cloned, Known, Checkout
  <2>2. c[1] = r /\ c[2] = upTip[r][b] /\ upTip[r][b] \in Nat /\ upTip[r][b] <= HeadTip(r)
    BY <1>1, <1>3, <2>1
  <2> HIDE DEF r, b, c
  <2> QED
    BY <1>2, <2>1, <2>2 DEF Arrived
<1>8. CASE Completes(p)
  <2>1. /\ dest'.branch = dest.branch /\ dest'.tracked = dest.tracked
        /\ dest'.tree = {dest.goal} /\ dest'.goal = dest.goal
    BY <1>1, <1>8 DEF Completes, FilesWritten, Checkout
  <2> QED
    BY <1>4, <2>1 DEF Known
<1>9. CASE StartsReset(p)
  <2>1. /\ dest'.branch = dest.branch /\ dest'.tracked = dest.tracked
        /\ dest'.tree = dest.tree \cup {dest.tracked} /\ dest'.goal = dest.tracked
    BY <1>1, <1>9 DEF StartsReset, Checkout
  <2> QED
    BY <1>4, <2>1 DEF Known
<1>10. CASE Fetches(p) /\ dest.branch = NoBranch
  BY <1>4, <1>10 DEF Fetches, Fetched, Known
<1>11. CASE Fetches(p) /\ dest.branch # NoBranch
  <2> DEFINE r == dest.url
             b == dest.branch
             c == Tip(r, b)
  <2>1. /\ dest'.branch = b /\ dest'.tracked = c
        /\ dest'.tree = dest.tree /\ dest'.goal = dest.goal
        /\ upTip[r][b] # 0 /\ b \in Branches /\ r \in Repos
    BY <1>0, <1>1, <1>11 DEF Fetches, CanFetch, Fetched, Checkout, Shape
  <2>2. Known' \subseteq Known \cup {c}
    BY <2>1 DEF Known
  <2>3. c[1] = r /\ c[2] = upTip[r][b] /\ upTip[r][b] \in Nat /\ upTip[r][b] <= HeadTip(r)
    BY <1>3, <2>1
  <2> HIDE DEF r, b, c
  <2>4. \A k \in Known : k[2] <= HeadTip(k[1]) /\ (upTip[k[1]][b] # 0 => k[2] <= upTip[k[1]][b])
    BY <1>0 DEF Arrived, b
  <2> QED
    BY <1>2, <2>1, <2>2, <2>3, <2>4 DEF Arrived
<1> QED
  BY <1>5, <1>6, <1>7, <1>8, <1>9, <1>10, <1>11 DEF Effect

\* Nothing that was fetched is ahead of its branch, whatever the remotes do.
LEMMA ArrivedStep == IInv /\ [Next]_vars => Arrived'
<1> SUFFICES ASSUME IInv, [Next]_vars PROVE Arrived'
  OBVIOUS
<1>0. TypeOK /\ Remotes /\ Shape /\ Arrived
  BY DEF IInv
<1>1. CASE UNCHANGED <<upHead, upTip, dest>>
  BY <1>0, <1>1 DEF Arrived, Known, HeadTip
<1>2. ASSUME NEW p \in Callers,
             SyncStep(p) \/ Fault(p) \/ Kill(p) \/ RemoteGoesSilent(p) \/ HelperExits(p)
      PROVE  Arrived'
  BY <1>0, <1>2, CallerStep, ArrivedByCaller
<1>3. CASE Upstream
  <2>1. TypeOK' /\ dest' = dest
    BY <1>0, <1>3, TypeStep, UpstreamStep
  <2>2. \A r \in Repos : HeadTip(r) \in Nat /\ HeadTip(r)' \in Nat
    BY <1>0, <2>1, RemoteFacts DEF TypeOK, HeadTip
  <2>3. \A r \in Repos, b \in Branches : upTip[r][b] \in Nat /\ upTip'[r][b] \in Nat
    BY <1>0, <2>1 DEF TypeOK
  <2>4. ASSUME NEW c \in Known
        PROVE  /\ c[2] <= HeadTip(c[1])'
               /\ upTip'[c[1]][dest.branch] # 0 => c[2] <= upTip'[c[1]][dest.branch]
    <3>1. c[1] \in Repos /\ c[2] \in Nat /\ dest.branch \in Branches
      BY <1>0, KnownFacts
    <3>2. c[2] <= HeadTip(c[1]) /\ (upTip[c[1]][dest.branch] # 0 => c[2] <= upTip[c[1]][dest.branch])
      BY <1>0 DEF Arrived
    <3>3. c[2] <= HeadTip(c[1])'
      BY <1>0, <1>3, <2>2, <3>1, <3>2, UpstreamStep
    <3>4. \/ upTip'[c[1]][dest.branch] = 0
          \/ upTip'[c[1]][dest.branch] >= HeadTip(c[1])
          \/ upTip'[c[1]][dest.branch] = upTip[c[1]][dest.branch]
      BY <1>0, <1>3, <3>1, UpstreamStep
    <3>5. upTip'[c[1]][dest.branch] \in Nat /\ HeadTip(c[1]) \in Nat
      BY <2>2, <2>3, <3>1
    <3> QED
      BY <3>1, <3>2, <3>3, <3>4, <3>5
  <2>5. Known' = Known
    BY <2>1 DEF Known
  <2> QED
    BY <1>0, <2>1, <2>4, <2>5 DEF Arrived
<1> QED
  BY <1>0, <1>1, <1>2, <1>3, NextCases, CallStep DEF vars

\* One clone, one writer, and none of them where it cannot be.
LEMMA PlacesStep == IInv /\ [Next]_vars => Places'
<1> SUFFICES ASSUME IInv, [Next]_vars PROVE Places'
  OBVIOUS
<1>0. TypeOK /\ Remotes /\ Shape /\ Arrived /\ Places /\ dest \in Checkout
  BY DEF IInv, TypeOK
<1>1. CASE UNCHANGED <<dest, pc>>
  BY <1>0, <1>1 DEF Places, Writers
<1>2. ASSUME NEW p \in Callers, AnyCall(p) PROVE Places'
  BY <1>0, <1>2, CallStep DEF Places, Writers
<1>3. ASSUME NEW p \in Callers, Effect(p), \A q \in Callers \ {p} : pc'[q] = pc[q],
             UNCHANGED <<upHead, upTip, repo, since>>
      PROVE  Places'
  <2>1. CASE Stays(p)
    BY <1>0, <1>3, <2>1 DEF Stays, Places, Writers
  <2>2. CASE Begins(p)
    BY <1>0, <1>3, <2>2 DEF Begins, Places, Writers, Absent, Shape
  <2>3. CASE Vanishes(p)
    BY <1>0, <1>3, <2>3 DEF Vanishes, Places, Writers, Absent
  <2>4. CASE Receives(p)
    <3> DEFINE r == repo[p]
               b == upHead[r]
               c == Tip(r, b)
    <3>1. /\ dest'.branch = b /\ dest'.goal = c /\ dest'.tree = {NoTree, c} /\ dest'.git
          /\ pc[p] = "cloning" /\ pc'[p] = "checkout"
      BY <1>0, <2>4 DEF Receives, Cloned, Checkout, Places
    <3>2. r \in Repos /\ b # NoBranch /\ c[1] = r /\ c[2] \in Nat
      BY <1>0, RemoteFacts, NamesAssumption DEF TypeOK, Tip
    <3>3. NoTree[1] # r
      BY <3>2, NamesAssumption DEF NoTree
    <3> HIDE DEF r, b, c
    <3>4. Writers = {} /\ Writers' = {p}
      BY <1>0, <1>3, <3>1 DEF Places, Writers
    <3>5. \A k \in dest'.tree : k[1] = dest'.goal[1] => k[2] <= dest'.goal[2]
      BY <3>1, <3>2, <3>3
    <3> QED
      BY <1>0, <1>3, <3>1, <3>2, <3>4, <3>5 DEF Places
  <2>5. CASE Completes(p)
    BY <1>0, <1>3, <2>5 DEF Completes, FilesWritten, Places, Writers, Checkout
  <2>6. CASE Repoints(p)
    BY <1>0, <1>3, <2>6 DEF Repoints, UrlSet, Places, Writers, Checkout
  <2>7. CASE Fetches(p)
    BY <1>0, <1>3, <2>7 DEF Fetches, Fetched, Places, Writers, Checkout
  <2>8. CASE FindsHead(p)
    BY <1>0, <1>3, <2>8, RemoteFacts, NamesAssumption DEF FindsHead, Places, Writers, Checkout, Shape
  <2>9. CASE StartsReset(p)
    <3>1. /\ dest'.branch = dest.branch /\ dest'.goal = dest.tracked /\ dest'.git
          /\ dest'.tree = dest.tree \cup {dest.tracked} /\ dest.branch # NoBranch
          /\ pc[p] = "reset" /\ pc'[p] = "resetting" /\ ~Writing
      BY <1>0, <2>9 DEF StartsReset, Checkout, Shape
    <3>2. Writers = {} /\ Writers' = {p}
      BY <1>3, <3>1 DEF Writers, Writing
    <3>3. dest.tracked \in Known /\ dest.tracked[1] \in Repos /\ dest.tracked[2] \in Nat
      BY <1>0, <3>1, KnownFacts
    <3>4. NoTree[1] # dest.tracked[1]
      BY <3>3, NamesAssumption DEF NoTree
    <3>5. \A c \in dest'.tree : c[1] = dest'.goal[1] => c[2] <= dest'.goal[2]
      BY <1>0, <3>1, <3>3, <3>4 DEF Arrived, Known
    <3> QED
      BY <1>0, <1>3, <3>1, <3>2, <3>5 DEF Places
  <2>10. CASE Breaks(p)
    BY <1>0, <1>3, <2>10 DEF Breaks, Places, Writers, Checkout
  <2> QED
    BY <1>3, <2>1, <2>2, <2>3, <2>4, <2>5, <2>6, <2>7, <2>8, <2>9, <2>10 DEF Effect
<1> QED
  BY <1>0, <1>1, <1>2, <1>3, NextCases, CallerStep, UpstreamStep DEF vars

\* A call that has damaged a file is unfinished until all files have been written anew.
LEMMA DamageStep == IInv /\ [Next]_vars => Damage'
<1> SUFFICES ASSUME IInv, [Next]_vars PROVE Damage'
  OBVIOUS
<1>0. TypeOK /\ Remotes /\ Shape /\ Places /\ Damage /\ dest \in Checkout
  BY DEF IInv, TypeOK
<1>1. CASE UNCHANGED <<dest, pc>>
  BY <1>0, <1>1 DEF Damage
<1>2. ASSUME NEW p \in Callers, AnyCall(p) PROVE Damage'
  <2>1. dest' = dest /\ pc'[p] \in Unfinished /\ \A q \in Callers \ {p} : pc'[q] = pc[q]
    BY <1>0, <1>2, CallStep DEF Unfinished
  <2> QED
    BY <1>0, <2>1 DEF Damage
<1>3. ASSUME NEW p \in Callers, Effect(p), \A q \in Callers \ {p} : pc'[q] = pc[q]
      PROVE  Damage'
  <2>1. ASSUME dest'.damaged = dest.damaged, dest'.branch = dest.branch,
               pc[p] \in Unfinished => pc'[p] \in Unfinished \/ dest.branch = NoBranch
        PROVE  Damage'
    BY <1>0, <1>3, <2>1 DEF Damage
  <2>2. CASE Stays(p)
    <3>1. dest' = dest /\ (pc[p] \in Unfinished => pc'[p] \in Unfinished)
      BY <2>2 DEF Stays, Unfinished
    <3> QED
      BY <2>1, <3>1
  <2>3. CASE Begins(p) \/ Vanishes(p)
    <3>1. ~dest'.damaged
      BY <2>3, AbsentFacts DEF Begins, Vanishes, Checkout
    <3> QED
      BY <3>1 DEF Damage
  <2>4. CASE Receives(p)
    <3>1. dest.branch = NoBranch /\ dest'.damaged = dest.damaged
      BY <1>0, <2>4 DEF Receives, Cloned, Checkout, Places
    <3> QED
      BY <1>0, <3>1 DEF Damage
  <2>5. CASE Completes(p)
    <3>1. ~dest'.damaged
      BY <1>0, <2>5 DEF Completes, FilesWritten, Checkout
    <3> QED
      BY <3>1 DEF Damage
  <2>6. CASE Breaks(p)
    <3>1. dest'.branch = dest.branch /\ dest.branch # NoBranch /\ pc'[p] \in Unfinished
      BY <1>0, <2>6 DEF Breaks, Checkout, Places, Unfinished
    <3> QED
      BY <3>1 DEF Damage
  <2>7. CASE Repoints(p) \/ Fetches(p) \/ FindsHead(p) \/ StartsReset(p)
    <3>1. dest'.damaged = dest.damaged /\ dest'.branch = dest.branch /\ pc'[p] \in Unfinished
      BY <1>0, <2>7
      DEF Repoints, UrlSet, Fetches, Fetched, FindsHead, StartsReset, Checkout, Unfinished
    <3> QED
      BY <2>1, <3>1
  <2> QED
    BY <1>3, <2>2, <2>3, <2>4, <2>5, <2>6, <2>7 DEF Effect
<1> QED
  BY <1>0, <1>1, <1>2, <1>3, NextCases, CallerStep, UpstreamStep DEF vars

\* At first there is no checkout and no call.
LEMMA InvInit == Init => IInv /\ Freshness
<1> SUFFICES ASSUME Init PROVE IInv /\ Freshness
  OBVIOUS
<1> USE BoundsAssumption, FirstHeadAssumption, NamesAssumption
<1>1. /\ dest = Absent /\ dest \in Checkout /\ ~dest.git /\ dest.branch = NoBranch
      /\ dest.tree = {NoTree} /\ dest.tracked = NoTree /\ dest.goal = NoTree /\ dest.head = NoBranch
      /\ ~dest.damaged
  BY AbsentFacts DEF Init
<1>2. /\ upTip \in [Repos -> [Branches -> 0 .. MaxCommits]] /\ upHead \in [Repos -> Branches]
      /\ \A r \in Repos : HeadTip(r) = 1 /\ \A b \in Branches : upTip[r][b] <= 1
  BY DEF Init, HeadTip
<1>3. TypeOK
  BY <1>1, <1>2 DEF Init, TypeOK
<1>4. Remotes /\ Shape /\ Places /\ Freshness
  BY <1>1, <1>2 DEF Init, Remotes, Shape, Places, Writers, Freshness
<1>5. Arrived /\ Damage
  BY <1>1 DEF Known, Arrived, Damage
<1> QED
  BY <1>3, <1>4, <1>5 DEF IInv

\* The base invariant holds whatever calls overlap and whatever goes wrong.
THEOREM Invariance == Spec => []IInv
<1>1. IInv /\ [Next]_vars => IInv'
  BY TypeStep, RemotesStep, ShapeStep, ArrivedStep, PlacesStep, DamageStep DEF IInv
<1> QED
  BY InvInit, <1>1, PTL DEF Spec

\* Every variable keeps its type, for any number of callers, repositories and
\* branches: no command makes a checkout of a commit that is not there.
THEOREM TypeCorrect == Spec => []TypeOK
BY Invariance, PTL DEF IInv

\* Whatever calls overlap, fail or are killed: only a reset to what was fetched takes a
\* whole mirror apart, only a call that ends while it replaces files loses one, and
\* no file goes back to not being there.
THEOREM MirrorKept == Spec => KeepsMirror
<1> DEFINE Kept ==
      /\ Whole /\ ~Whole' =>
           /\ \E p \in Callers : pc[p] = "reset" /\ pc'[p] = "resetting"
           /\ dest'.tree = dest.tree \cup {dest.tracked} /\ ~dest'.damaged
      /\ ~dest.damaged /\ dest'.damaged =>
           /\ \E p \in Callers : pc[p] \in {"checkout", "resetting"} /\ pc'[p] = "error"
           /\ Torn(dest'.tree) /\ dest'.tree = dest.tree
      /\ NoTree \notin dest.tree => NoTree \notin dest'.tree
<1>1. IInv /\ [Next]_vars => [Kept]_vars
  <2> SUFFICES ASSUME IInv, Next PROVE Kept
    BY DEF vars
  <2>0. TypeOK /\ Shape /\ Places /\ dest \in Checkout
    BY DEF IInv, TypeOK
  <2>1. CASE dest' = dest
    BY <2>1 DEF Whole
  <2>2. \A c : ~Torn({c})
    <3>1. \A c : Cardinality({c}) = 1
      BY FS_Singleton
    <3> QED
      BY <3>1 DEF Torn
  <2>3. ASSUME NEW p \in Callers, Effect(p)
        PROVE  Kept
    <3>1. NoTree \notin dest.tree =>
            dest.branch # NoBranch /\ dest.git /\ NoTree \notin {dest.tracked, dest.goal}
      BY <2>0, NamesAssumption DEF Shape, Commits, NoTree, Absent
    <3>2. CASE dest'.tree = dest.tree /\ dest'.damaged = dest.damaged
      BY <3>2 DEF Whole
    <3>3. CASE Stays(p) \/ Repoints(p) \/ Fetches(p) \/ FindsHead(p)
      <4>1. dest'.tree = dest.tree /\ dest'.damaged = dest.damaged
        BY <2>0, <3>3 DEF Stays, Repoints, UrlSet, Fetches, Fetched, FindsHead, Checkout
      <4> QED
        BY <3>2, <4>1
    <3>4. CASE Begins(p) \/ Vanishes(p) \/ Receives(p)
      <4>1. NoTree \in dest.tree
        BY <2>0, <3>4 DEF Begins, Vanishes, Receives, Shape, Places, Absent
      <4>2. dest'.damaged => dest.damaged
        BY <2>0, <3>4, AbsentFacts DEF Begins, Vanishes, Receives, Cloned, Checkout
      <4> QED
        BY <4>1, <4>2 DEF Whole
    <3>5. CASE Completes(p)
      <4>1. dest'.tree = {dest.goal} /\ ~dest'.damaged /\ dest.branch # NoBranch
        BY <2>0, <3>5 DEF Completes, FilesWritten, Checkout, Places
      <4>2. dest.goal # NoTree
        BY <2>0, <4>1, NamesAssumption DEF Shape, Commits, NoTree
      <4> QED
        BY <2>2, <4>1, <4>2 DEF Whole
    <3>6. CASE Breaks(p)
      <4>1. /\ dest'.tree = dest.tree /\ Torn(dest.tree)
            /\ pc[p] \in {"checkout", "resetting"} /\ pc'[p] = "error"
        BY <2>0, <3>6 DEF Breaks, Checkout
      <4> QED
        BY <4>1 DEF Whole
    <3>7. CASE StartsReset(p)
      <4>1. /\ dest'.tree = dest.tree \cup {dest.tracked} /\ dest'.damaged = dest.damaged
            /\ pc[p] = "reset" /\ pc'[p] = "resetting"
        BY <2>0, <3>7 DEF StartsReset, Checkout
      <4> QED
        BY <3>1, <4>1 DEF Whole
    <3> QED
      BY <2>3, <3>3, <3>4, <3>5, <3>6, <3>7 DEF Effect
  <2>4. dest' = dest \/ \E p \in Callers : Effect(p)
    BY <2>0, NextCases, CallStep, CallerStep, UpstreamStep DEF IInv
  <2> QED
    BY <2>1, <2>3, <2>4
<1> QED
  BY Invariance, <1>1, PTL DEF Spec, KeepsMirror

----
(* What the calls that agree on a repository can rely on.                  *)

\* The agreement between calls, in terms of their steps.
LEMMA AgreedFacts ==
  ASSUME TypeOK, Agreed, NEW p \in Callers, NEW q \in Callers,
         pc[p] \in Steps \cup {"drain"}, pc[q] \in Steps \cup {"drain"}
  PROVE  repo[p] = repo[q]
BY DEF Agreed, Running, Steps, LockOf, Network

\* What one call has made sure of, no other call undoes.
LEMMA FreshnessByCaller ==
  ASSUME IInv, Agreed, Freshness, NEW p \in Callers, Effect(p),
         \A q \in Callers \ {p} : pc'[q] = pc[q],
         pc[p] \in Steps \cup {"drain"},
         UNCHANGED <<upHead, upTip, repo, since>>
  PROVE  Freshness'
<1>0. /\ TypeOK /\ Remotes /\ Shape /\ Arrived /\ Places
      /\ dest \in Checkout /\ repo[p] \in Repos
      /\ \A q \in Callers : since[q] \in Nat
  BY DEF IInv, TypeOK
<1>1. \A q \in Callers :
        pc[q] \in {"cloning", "fetch", "set-head", "reset", "checkout", "resetting", "count"}
          => repo[q] = repo[p]
  BY <1>0, AgreedFacts DEF Steps, LockOf, Network
<1>2. CASE Stays(p)
  BY <1>2 DEF Stays, Freshness, Serves
<1>3. CASE Begins(p)
  <2>1. dest'.url = repo[p] /\ dest'.branch = NoBranch /\ dest.branch = NoBranch
    BY <1>0, <1>3, AbsentFacts DEF Begins, Checkout, Shape
  <2>2. pc[p] = "clone" /\ pc'[p] = "cloning"
    BY <1>3 DEF Begins
  <2> QED
    BY <1>0, <1>1, <2>1, <2>2 DEF Freshness, Places
<1>4. CASE Vanishes(p)
  <2>1. ~dest'.git /\ dest'.branch = NoBranch
    BY <1>4, AbsentFacts DEF Vanishes
  <2>2. dest.branch = NoBranch /\ pc'[p] = "error"
    BY <1>0, <1>4 DEF Vanishes, Places
  <2> QED
    BY <1>0, <2>1, <2>2 DEF Freshness, Places
<1>5. CASE Receives(p)
  <2> DEFINE c == Tip(repo[p], upHead[repo[p]])
  <2>1. /\ dest'.tracked = c /\ dest'.goal = c /\ dest'.url = dest.url /\ dest'.git = dest.git
        /\ pc[p] = "cloning" /\ pc'[p] = "checkout" /\ dest.branch = NoBranch
    BY <1>0, <1>5 DEF Receives, Cloned, Checkout, Places
  <2>2. c[1] = repo[p] /\ c[2] = HeadTip(repo[p])
    BY DEF Tip, HeadTip
  <2>3. \A q \in Callers : repo[q] = repo[p] => Serves(c, q)
    BY <1>0, <2>2 DEF Remotes, Serves
  <2> HIDE DEF c
  <2> QED
    BY <1>0, <1>1, <2>1, <2>3 DEF Freshness, Places, Serves
<1>6. CASE Completes(p)
  <2>1. /\ dest'.tracked = dest.tracked /\ dest'.goal = dest.goal /\ dest'.url = dest.url
        /\ dest'.git = dest.git /\ dest'.branch = dest.branch /\ dest'.tree = {dest.goal}
        /\ pc[p] \in {"checkout", "resetting"} /\ pc'[p] \in {"count", "error"}
    BY <1>0, <1>6 DEF Completes, FilesWritten, Checkout
  <2> QED
    BY <2>1 DEF Freshness, Serves
<1>7. CASE Repoints(p)
  <2>1. /\ dest'.tracked = dest.tracked /\ dest'.goal = dest.goal /\ dest'.url = repo[p]
        /\ dest'.branch = dest.branch /\ dest'.tree = dest.tree
        /\ pc[p] = "set-url" /\ pc'[p] \in {"fetch", "error"}
    BY <1>0, <1>7 DEF Repoints, UrlSet, Checkout
  <2> QED
    BY <1>1, <2>1 DEF Freshness, Serves
<1>8. CASE Fetches(p) /\ dest.branch = NoBranch
  <2>1. dest' = dest /\ pc[p] = "fetch" /\ pc'[p] \in {"set-head", "error", "drain"}
    BY <1>8 DEF Fetches, Fetched
  <2> QED
    BY <1>8, <2>1 DEF Freshness, Serves
<1>9. CASE Fetches(p) /\ dest.branch # NoBranch
  <2> DEFINE r == repo[p]
             b == dest.branch
             c == Tip(dest.url, b)
  <2>1. /\ dest'.tracked = c /\ dest'.goal = dest.goal /\ dest'.url = dest.url
        /\ dest'.git = dest.git /\ dest'.branch = b /\ dest'.tree = dest.tree
        /\ pc[p] = "fetch" /\ pc'[p] \in {"set-head", "error", "drain"}
        /\ upTip[dest.url][b] # 0 /\ dest.git
    BY <1>0, <1>9 DEF Fetches, CanFetch, Fetched, Checkout
  <2>2. dest.url = r /\ c[1] = r /\ c[2] = upTip[r][b] /\ upTip[r][b] # 0 /\ upTip[r][b] \in Nat
    BY <1>0, <1>9, <2>1, KnownFacts, RemoteFacts DEF Freshness, Tip
  <2>3. \A q \in Callers :
          repo[q] = r => c[2] >= since[q] \/ (upHead[r] # b /\ upTip[r][b] # 0)
    BY <1>0, <2>2 DEF Remotes, HeadTip
  <2>4. dest.tracked[1] = r => dest.tracked[2] <= c[2] /\ dest.tracked[2] \in Nat
    BY <1>0, <1>9, <2>2, KnownFacts DEF Arrived
  <2>5. \A q \in Callers : repo[q] = r /\ Serves(dest.tracked, q) => Serves(c, q)
    BY <1>0, <2>2, <2>4 DEF Serves
  <2> HIDE DEF r, b, c
  <2> QED
    BY <1>1, <2>1, <2>2, <2>3, <2>5 DEF Freshness, Serves, r, b
<1>10. CASE FindsHead(p)
  <2>1. /\ dest'.tracked = dest.tracked /\ dest'.goal = dest.goal /\ dest'.url = dest.url
        /\ dest'.git = dest.git /\ dest'.branch = dest.branch /\ dest'.tree = dest.tree
        /\ pc[p] = "set-head" /\ pc'[p] = "reset" /\ dest.git /\ upHead[dest.url] = dest.branch
    BY <1>0, <1>10 DEF FindsHead, Checkout
  <2>2. dest.url = repo[p] /\ dest.branch # NoBranch
    BY <1>0, <2>1, RemoteFacts, NamesAssumption DEF Freshness
  <2>3. Serves(dest.tracked, p)
    BY <2>1, <2>2 DEF Freshness, Serves
  <2> QED
    BY <2>1, <2>3 DEF Freshness, Serves
<1>11. CASE StartsReset(p)
  <2>1. /\ dest'.tracked = dest.tracked /\ dest'.goal = dest.tracked /\ dest'.url = dest.url
        /\ dest'.git = dest.git /\ dest'.branch = dest.branch
        /\ dest'.tree = dest.tree \cup {dest.tracked}
        /\ pc[p] = "reset" /\ pc'[p] = "resetting"
    BY <1>0, <1>11 DEF StartsReset, Checkout
  <2> QED
    BY <2>1 DEF Freshness, Serves
<1>12. CASE Breaks(p)
  <2>1. /\ dest'.tracked = dest.tracked /\ dest'.goal = dest.goal /\ dest'.url = dest.url
        /\ dest'.git = dest.git /\ dest'.branch = dest.branch /\ dest'.tree = dest.tree
        /\ pc'[p] = "error"
    BY <1>0, <1>12 DEF Breaks, Checkout
  <2> QED
    BY <2>1 DEF Freshness, Serves
<1> QED
  BY <1>2, <1>3, <1>4, <1>5, <1>6, <1>7, <1>8, <1>9, <1>10, <1>11, <1>12 DEF Effect

\* Nor do new calls or the remotes, even if the default branch is another by then.
LEMMA FreshnessStep == IInv /\ Agreed /\ Freshness /\ [Next]_vars => Freshness'
<1> SUFFICES ASSUME IInv, Agreed, Freshness, [Next]_vars PROVE Freshness'
  OBVIOUS
<1>0. TypeOK /\ Remotes /\ Shape /\ dest \in Checkout /\ \A p \in Callers : repo[p] \in Repos
  BY DEF IInv, TypeOK
<1>1. CASE UNCHANGED vars
  BY <1>1 DEF vars, Freshness, Serves
<1>2. ASSUME NEW p \in Callers, AnyCall(p) PROVE Freshness'
  <2>1. pc'[p] = "stat"
    BY <1>0, <1>2, CallStep
  <2>2. \A q \in Callers \ {p} : pc'[q] = pc[q] /\ repo'[q] = repo[q] /\ since'[q] = since[q]
    BY <1>0, <1>2, CallStep
  <2>3. UNCHANGED <<upHead, upTip, dest>>
    BY <1>0, <1>2, CallStep
  <2> QED
    BY <2>1, <2>2, <2>3 DEF Freshness, Serves
<1>3. ASSUME NEW p \in Callers,
             SyncStep(p) \/ Fault(p) \/ Kill(p) \/ RemoteGoesSilent(p) \/ HelperExits(p)
      PROVE  Freshness'
  BY <1>0, <1>3, CallerStep, FreshnessByCaller
<1>4. CASE Upstream
  <2>1. UNCHANGED <<dest, pc, repo, since>>
    BY <1>0, <1>4, UpstreamStep
  <2>2. dest.branch # NoBranch => dest.branch \in Branches
    BY <1>0 DEF Checkout
  <2>3. dest.branch # NoBranch =>
          \A r \in Repos :
            upHead[r] # dest.branch /\ upTip[r][dest.branch] # 0
              => upHead'[r] # dest.branch /\ upTip'[r][dest.branch] # 0
    BY <1>0, <1>4, <2>2, UpstreamStep
  <2> QED
    BY <1>0, <2>1, <2>3 DEF Freshness, Serves
<1> QED
  BY <1>1, <1>2, <1>3, <1>4, NextCases

\* As long as overlapping calls ask for one repository, success means its advisories,
\* as of the beginning of the call or later, in every file, and no file lost that no
\* other call has been cut off at: after faults and kills at any point, other
\* repositories in between, and changes of the default branch.
THEOREM FreshWhenAgreed == Spec /\ []Agreed => FreshOnSuccess
<1> DEFINE Honest ==
      \A p \in Callers : pc[p] = "count" /\ pc'[p] = "ok" =>
        /\ \A c \in dest.tree : c[1] = repo[p] /\ c[2] >= since[p]
        /\ dest.damaged => \E q \in Callers \ {p} : pc[q] \notin {"idle", "ok"}
<1>1. Spec /\ []Agreed => []Freshness
  BY InvInit, Invariance, FreshnessStep, PTL DEF Spec
<1>2. IInv /\ Freshness /\ [Next]_vars => [Honest]_vars
  BY DEF IInv, Freshness, Serves, Damage, Unfinished
<1> QED
  BY Invariance, <1>1, <1>2, PTL DEF Spec, FreshOnSuccess

----
(* The implementation of GlsaMirror.                                       *)

\* A set with more than one element has two.
LEMMA TwoElements ==
  ASSUME NEW S, Cardinality(S) > 1
  PROVE  \E x, y \in S : x # y
<1>1. S # {}
  BY FS_EmptySet
<1>2. PICK x \in S : TRUE
  BY <1>1
<1>3. S # {x}
  BY FS_Singleton
<1> QED BY <1>2, <1>3

\* What a reader of the mirror sees of a step of a call.
LEMMA PromiseOfCaller ==
  ASSUME IInv, Agreed, Freshness, NEW p \in Callers, Effect(p),
         \A q \in Callers \ {p} : pc'[q] = pc[q],
         pc[p] \in Steps \cup {"drain"},
         pc' \in [Callers -> {"idle", "drain", "ok", "error"} \cup Steps],
         UNCHANGED <<upHead, upTip, repo, since>>
  PROVE  \/ Promise!BringIn(p) \/ Promise!Settle(p) \/ Promise!Succeed(p) \/ Promise!Fail(p)
         \/ UNCHANGED Promise!vars
<1>0. /\ TypeOK /\ Remotes /\ Shape /\ Arrived /\ Places /\ Damage
      /\ dest \in Checkout /\ repo[p] \in Repos
      /\ pc \in [Callers -> {"idle", "drain", "ok", "error"} \cup Steps]
  BY DEF IInv, TypeOK
<1>1. Running[p] = "running" /\ Running \in [Callers -> {"idle", "ok", "error", "running"}]
  BY <1>0 DEF Running, Steps, LockOf, Network
<1>2. pc'[p] \in {"idle", "ok", "error"} => Running' = [Running EXCEPT ![p] = pc'[p]]
  BY <1>0 DEF Running
<1>3. pc'[p] \notin {"idle", "ok", "error"} => Running' = Running
  BY <1>0, <1>1 DEF Running
<1>4. CASE dest'.tree = dest.tree /\ dest'.damaged = dest.damaged /\ pc'[p] = "error"
  BY <1>1, <1>2, <1>4 DEF Promise!Fail
<1>5. CASE /\ dest'.tree = dest.tree /\ dest'.damaged = dest.damaged
           /\ pc'[p] \notin {"idle", "ok", "error"}
  BY <1>3, <1>5 DEF Promise!vars
<1>6. CASE Stays(p)
  <2>1. dest' = dest
    BY <1>6 DEF Stays
  <2>2. CASE pc[p] = "count" /\ pc'[p] = "ok"
    <3>1. \A c \in dest.tree : c[1] = repo[p] /\ c[2] >= since[p]
      BY <2>2 DEF Freshness, Serves
    <3>2. dest.damaged => \E q \in Callers \ {p} : Running[q] \in {"running", "error"}
      BY <1>0, <2>2 DEF Damage, Unfinished, Running
    <3> QED
      BY <1>1, <1>2, <2>1, <2>2, <3>1, <3>2 DEF Promise!Succeed
  <2>3. CASE ~(pc[p] = "count" /\ pc'[p] = "ok")
    <3>1. pc'[p] = "error" \/ pc'[p] \notin {"idle", "ok", "error"}
      BY <1>0, <1>6, <2>3 DEF Stays, Steps, LockOf, Network
    <3> QED
      BY <1>4, <1>5, <2>1, <3>1
  <2> QED
    BY <2>2, <2>3
<1>7. CASE Begins(p) \/ Vanishes(p)
  <2>1. /\ dest'.tree = {NoTree} /\ dest.tree = {NoTree} /\ pc'[p] \in {"cloning", "error"}
        /\ dest'.damaged = FALSE /\ dest.branch = NoBranch
    BY <1>0, <1>7, AbsentFacts DEF Begins, Vanishes, Shape, Places, Checkout
  <2>2. dest'.damaged = dest.damaged
    BY <1>0, <2>1 DEF Damage, Checkout
  <2> QED
    BY <1>4, <1>5, <2>1, <2>2
<1>8. CASE Repoints(p) \/ Fetches(p) \/ FindsHead(p)
  <2>1. dest'.tree = dest.tree /\ dest'.damaged = dest.damaged /\ (pc'[p] = "error" \/ pc'[p] \notin {"idle", "ok", "error"})
    BY <1>0, <1>8 DEF Repoints, UrlSet, Fetches, Fetched, FindsHead, Checkout
  <2> QED
    BY <1>4, <1>5, <2>1
<1>9. CASE Receives(p)
  <2> DEFINE b == upHead[repo[p]]
             n == upTip[repo[p]][b]
  <2>1. dest.tree = {NoTree} /\ dest'.tree = {NoTree, <<repo[p], n>>} /\ pc'[p] = "checkout"
    BY <1>0, <1>9 DEF Receives, Cloned, Tip, Checkout, Places, Shape
  <2>2. b \in Branches /\ n \in 1 .. upTip[repo[p]][b]
    BY <1>0, RemoteFacts DEF Remotes, HeadTip
  <2> HIDE DEF b, n
  <2>3. Promise!NotOlder(<<repo[p], n>>)
    BY <1>0, <2>1, NamesAssumption DEF Promise!NotOlder, NoTree
  <2>4. dest'.tree = dest.tree \cup {<<repo[p], n>>} /\ dest'.damaged = dest.damaged
    BY <1>0, <1>9, <2>1 DEF Receives, Cloned, Checkout
  <2> QED
    BY <1>1, <1>3, <2>1, <2>2, <2>3, <2>4 DEF Promise!BringIn
<1>10. CASE Completes(p)
  <2>1. /\ pc[p] \in {"checkout", "resetting"} /\ pc'[p] \in {"count", "error"}
        /\ dest'.tree = {dest.goal} /\ ~dest'.damaged /\ dest.branch # NoBranch
    BY <1>0, <1>10 DEF Completes, FilesWritten, Checkout, Places
  <2>2. /\ dest.goal \in dest.tree \ {NoTree}
        /\ \A c \in dest.tree : c[1] = dest.goal[1] => c[2] <= dest.goal[2]
    BY <1>0, <2>1, NamesAssumption DEF Places, Writers, Shape, NoTree, Commits
  <2>3. Promise!Settled(dest'.tree, dest'.damaged)
    BY <2>1, <2>2 DEF Promise!Settled, Promise!NotOlder
  <2>4. CASE pc'[p] = "count"
    BY <1>1, <1>3, <2>3, <2>4 DEF Promise!Settle
  <2>5. CASE pc'[p] = "error"
    BY <1>1, <1>2, <2>3, <2>5 DEF Promise!Fail
  <2> QED
    BY <2>1, <2>4, <2>5
<1>11. CASE StartsReset(p)
  <2> DEFINE c == dest.tracked
             b == upHead[repo[p]]
  <2>1. /\ dest'.tree = dest.tree \cup {c} /\ dest'.damaged = dest.damaged /\ dest.branch # NoBranch
        /\ pc[p] = "reset" /\ pc'[p] = "resetting"
    BY <1>0, <1>11 DEF StartsReset, Checkout, Shape
  <2>2. c \in Known /\ c \in Commits /\ c[2] \in 1 .. MaxCommits /\ c[1] = repo[p]
    BY <1>0, <2>1, KnownFacts DEF Freshness, Serves
  <2>3. b \in Branches /\ c[2] \in 1 .. upTip[repo[p]][b] /\ c = <<repo[p], c[2]>>
    BY <1>0, <2>2, RemoteFacts DEF Arrived, HeadTip, Commits
  <2>4. Promise!NotOlder(c)
    <3>1. NoTree[1] # c[1]
      BY <1>0, <2>2, NamesAssumption DEF NoTree
    <3>2. \A d \in dest.tree : d[1] = c[1] => d[2] <= c[2]
      BY <1>0, <3>1 DEF Arrived, Known
    <3> QED
      BY <3>2 DEF Promise!NotOlder
  <2>5. Running' = Running
    BY <1>3, <2>1
  <2> HIDE DEF c, b
  <2> QED
    BY <1>1, <2>1, <2>3, <2>4, <2>5 DEF Promise!BringIn
<1>12. CASE Breaks(p)
  <2>1. /\ dest'.tree = dest.tree /\ dest'.damaged /\ Torn(dest.tree) /\ pc'[p] = "error"
    BY <1>0, <1>12 DEF Breaks, Checkout
  <2>2. Promise!CutOff(dest'.tree, dest'.damaged)
    BY <2>1, TwoElements DEF Promise!CutOff, Torn
  <2> QED
    BY <1>1, <1>2, <2>1, <2>2 DEF Promise!Fail
<1> QED
  BY <1>6, <1>7, <1>8, <1>9, <1>10, <1>11, <1>12 DEF Effect

\* As long as overlapping calls ask for one repository, every behaviour of Sync is one
\* of its promise: faults and kills included, no file ever goes back to an older
\* commit of a repository, only running calls bring files in, and a file is lost
\* only where a failing call was replacing it.
THEOREM ImplementationWhenAgreed == Spec /\ []Agreed => ImplementsMirror
<1>1. Init => Promise!Init
  <2> SUFFICES ASSUME Init PROVE Promise!Init
    OBVIOUS
  <2>1. Running = [p \in Callers |-> "idle"]
    BY DEF Init, Running
  <2>2. dest.tree = {NoTree} /\ ~dest.damaged
    BY AbsentFacts DEF Init
  <2> QED
    BY <2>1, <2>2 DEF Init, Promise!Init
<1>2. IInv /\ Agreed /\ Freshness /\ [Next]_vars => [Promise!Next]_(Promise!vars)
  <2> SUFFICES ASSUME IInv, Agreed, Freshness, [Next]_vars
               PROVE  [Promise!Next]_(Promise!vars)
    OBVIOUS
  <2>0. TypeOK /\ Remotes
    BY DEF IInv
  <2>1. CASE UNCHANGED vars
    BY <2>1 DEF vars, Promise!vars, Running
  <2>2. ASSUME NEW p \in Callers, AnyCall(p) PROVE Promise!Next
    <3> PICK r \in Repos : Call(p, r)
      BY <2>2 DEF AnyCall
    <3>1. Running[p] # "running" /\ Running' = [Running EXCEPT ![p] = "running"]
      BY <2>0 DEF Call, Running, TypeOK
    <3> QED
      BY <3>1 DEF Call, Promise!Begin, Promise!Next
  <2>3. ASSUME NEW p \in Callers,
               SyncStep(p) \/ Fault(p) \/ Kill(p) \/ RemoteGoesSilent(p) \/ HelperExits(p)
        PROVE  [Promise!Next]_(Promise!vars)
    BY <2>0, <2>3, CallerStep, PromiseOfCaller DEF Promise!Next
  <2>4. CASE Upstream
    <3>1. UNCHANGED <<dest, pc, repo, since>>
      BY <2>0, <2>4, UpstreamStep
    <3>2. ASSUME NEW r \in Repos, NEW b \in Branches
          PROVE  \E d \in Branches : upTip'[r][d] >= upTip[r][b]
      <4>1. upHead'[r] \in Branches /\ upTip[r][b] <= upTip'[r][upHead'[r]]
        BY <2>0, <2>4, UpstreamStep DEF HeadTip
      <4>2. upTip[r][b] \in Nat /\ upTip'[r][upHead'[r]] \in Nat
        BY <2>0, <2>4, <4>1, UpstreamStep DEF TypeOK
      <4> QED
        BY <4>1, <4>2
    <3> QED
      BY <3>1, <3>2 DEF Promise!Upstream, Promise!Next, Running
  <2> QED
    BY <2>1, <2>2, <2>3, <2>4, NextCases
<1>3. Spec /\ []Agreed => []Freshness
  BY InvInit, Invariance, FreshnessStep, PTL DEF Spec
<1> QED
  BY Invariance, <1>1, <1>2, <1>3, PTL DEF Spec, ImplementsMirror, Promise!Spec
====

---- MODULE GlsaMirror ----
(***************************************************************************)
(* What glsasync.Sync (src/internal/glsasync/glsasync.go) promises to the  *)
(* readers of the mirror, without the git commands: the advisories are     *)
(* replaced by newer ones while calls are running and never taken back to  *)
(* an older commit; one that is being replaced is lost only when a call    *)
(* fails just then; and a call that succeeds leaves nothing that is older  *)
(* than the call, of another repository, or damaged.                       *)
(***************************************************************************)
EXTENDS Naturals

CONSTANTS Callers, Repos, Branches, FirstHead, NoTree

VARIABLES
  upHead, upTip,  \* the remote repositories, as in GlsaSync
  tree,           \* the commits the files may come from
  damaged,        \* a file that was being replaced is missing or half-written
  call,           \* the state of each caller's call
  repo, since     \* what it asked for, and the newest commit at that time

vars == <<upHead, upTip, tree, damaged, call, repo, since>>

Init ==
  /\ upHead = FirstHead
  /\ upTip = [r \in Repos |-> [b \in Branches |-> IF b = FirstHead[r] THEN 1 ELSE 0]]
  /\ tree = {NoTree} /\ ~damaged
  /\ call = [p \in Callers |-> "idle"]
  /\ repo \in [Callers -> Repos]
  /\ since = [p \in Callers |-> 0]

Begin(p) ==
  /\ call[p] # "running"
  /\ call' = [call EXCEPT ![p] = "running"]
  /\ \E r \in Repos :
       /\ repo' = [repo EXCEPT ![p] = r]
       /\ since' = [since EXCEPT ![p] = upTip[r][upHead[r]]]
  /\ UNCHANGED <<upHead, upTip, tree, damaged>>

\* No commit of that repository in the tree is newer.
NotOlder(c) == \A d \in tree : d[1] = c[1] => d[2] <= c[2]

\* Files of a commit of the repository a running call asked for come in.
BringIn(p) ==
  /\ call[p] = "running"
  /\ \E b \in Branches : \E n \in 1 .. upTip[repo[p]][b] :
       /\ NotOlder(<<repo[p], n>>)
       /\ tree' = tree \cup {<<repo[p], n>>}
  /\ UNCHANGED <<upHead, upTip, damaged, call, repo, since>>

\* The replacement of the files is complete.
Settled(t, d) == ~d /\ \E c \in tree \ {NoTree} : NotOlder(c) /\ t = {c}

\* Files were being replaced, and one of them is lost.
CutOff(t, d) == d /\ t = tree /\ \E b, c \in tree : b # c

Settle(p) ==
  /\ call[p] = "running"
  /\ Settled(tree', damaged')
  /\ UNCHANGED <<upHead, upTip, call, repo, since>>

Succeed(p) ==
  /\ call[p] = "running"
  /\ \A c \in tree : c[1] = repo[p] /\ c[2] >= since[p]
  /\ damaged => \E q \in Callers \ {p} : call[q] \in {"running", "error"}
  /\ call' = [call EXCEPT ![p] = "ok"]
  /\ UNCHANGED <<upHead, upTip, tree, damaged, repo, since>>

\* A failing call leaves the replacement as far as it is, with a file lost or not,
\* or completes it.
Fail(p) ==
  /\ call[p] = "running"
  /\ call' = [call EXCEPT ![p] = "error"]
  /\ \/ UNCHANGED <<tree, damaged>>
     \/ CutOff(tree', damaged')
     \/ Settled(tree', damaged')
  /\ UNCHANGED <<upHead, upTip, repo, since>>

\* Whatever happens to the remotes: a commit stays reachable by some branch.
Upstream ==
  /\ \A r \in Repos : \A b \in Branches : \E d \in Branches : upTip'[r][d] >= upTip[r][b]
  /\ UNCHANGED <<tree, damaged, call, repo, since>>

Next ==
  \/ \E p \in Callers : Begin(p) \/ BringIn(p) \/ Settle(p) \/ Succeed(p) \/ Fail(p)
  \/ Upstream

Spec == Init /\ [][Next]_vars
====

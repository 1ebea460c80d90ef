---- MODULE GlsaSync ----
(***************************************************************************)
(* glsasync.Sync (src/internal/glsasync/glsasync.go): a local mirror of a  *)
(* GLSA repository, made by a shallow clone and kept up to date by four    *)
(* git commands, from whatever state the last call left behind.  Calls may *)
(* be repeated, overlap, ask for another repository, fail at any command,  *)
(* or run into their deadline, which kills the git command that is running *)
(* (exec.CommandContext sends SIGKILL).                                    *)
(*                                                                         *)
(* The git commands themselves are not part of the repository: each is     *)
(* modelled by what it does to the checkout, to the extent Sync uses it.   *)
(* A clone with --depth 1 follows one branch only, the remote's default    *)
(* branch at that time; it writes the remote's URL first, the branch when  *)
(* the commit has arrived, and the files last.  A commit is                *)
(* <<repository, n>>, n counting the repository's pushes.  The working     *)
(* tree is the set of commits its files may come from: one when it is      *)
(* complete, several while a command replaces the files one by one.  git   *)
(* replaces a file by removing it and writing it anew, so a command that   *)
(* is cut off there may leave the file missing or half-written.            *)
(***************************************************************************)
EXTENDS Naturals, FiniteSets

CONSTANTS
  Callers,       \* concurrent invocations of sync-glsa on one --dest
  Repos,         \* the values --repo may have
  Branches,
  FirstHead,     \* the default branch of each repository at first
  NoBranch, None,
  MaxCommits,    \* bound: pushes to one repository
  MaxRenames,    \* bound: changes of a default branch
  MaxFaults,     \* bound: commands that fail for a passing reason (network, lock held)
  MaxKills,      \* bound: deadlines that hit a git command at work
  MaxSilences    \* bound: remotes that stop answering in the middle of a command

ASSUME FirstHeadAssumption == FirstHead \in [Repos -> Branches]
ASSUME NamesAssumption == NoBranch \notin Branches /\ None \notin Repos
ASSUME BoundsAssumption ==
  /\ MaxCommits \in Nat \ {0}
  /\ {MaxRenames, MaxFaults, MaxKills, MaxSilences} \subseteq Nat

VARIABLES
  upHead,   \* the default branch of each remote repository
  upTip,    \* the last commit of each remote branch, 0 when there is no such branch
  dest,     \* the checkout in --dest
  locks,    \* lock files a killed git command left in dest/.git
  pc,       \* where each caller is
  repo,     \* the --repo of each caller's call
  silent,   \* the remote no longer answers the command a caller is running
  since,    \* history: the newest commit of that repository when the call began
  bound     \* how much of each bound is used up

vars == <<upHead, upTip, dest, locks, pc, repo, silent, since, bound>>

----
Commits == Repos \X (1 .. MaxCommits)

\* Where the files come from that are not there yet.
NoTree == <<None, 0>>

Torn(tree) == Cardinality(tree) > 1

Absent ==
  [git |-> FALSE, url |-> None, branch |-> NoBranch, tracked |-> NoTree,
   head |-> NoBranch, goal |-> NoTree, tree |-> {NoTree}, damaged |-> FALSE]

\* The commit the remote branch b of repository r points at.
Tip(r, b) == <<r, upTip[r][b]>>

\* The git commands that talk to the remote, and those that write in dest/.git
\* under a lock file.
Network == {"cloning", "fetch", "set-head"}

LockOf ==
  [step \in {"cloning", "checkout", "set-url", "fetch", "set-head", "resetting"} |->
    CASE step = "set-url"  -> "config"
      [] step = "set-head" -> "ref"
      [] step \in {"cloning", "fetch"}      -> "shallow"
      [] step \in {"checkout", "resetting"} -> "index"]

Steps == {"stat", "clone", "reset", "count"} \cup Network \cup DOMAIN LockOf

\* Some call's git holds index.lock and writes files.
Writing == \E p \in Callers : pc[p] \in {"checkout", "resetting"}

Init ==
  /\ upHead = FirstHead
  /\ upTip = [r \in Repos |-> [b \in Branches |-> IF b = FirstHead[r] THEN 1 ELSE 0]]
  /\ dest = Absent
  /\ locks = {}
  /\ pc = [p \in Callers |-> "idle"]
  /\ repo \in [Callers -> Repos]
  /\ silent = [p \in Callers |-> FALSE]
  /\ since = [p \in Callers |-> 0]
  /\ bound = [renames |-> 0, faults |-> 0, kills |-> 0, silences |-> 0]

----
(* The remote repositories.                                                *)

Push(r) ==
  /\ upTip[r][upHead[r]] < MaxCommits
  /\ upTip' = [upTip EXCEPT ![r][upHead[r]] = @ + 1]
  /\ UNCHANGED <<upHead, dest, locks, pc, repo, silent, since, bound>>

RenameDefaultBranch(r, b, keepOld) ==
  /\ bound.renames < MaxRenames
  /\ upTip[r][b] = 0
  /\ upHead' = [upHead EXCEPT ![r] = b]
  /\ upTip' = [upTip EXCEPT ![r][b] = upTip[r][upHead[r]],
                            ![r][upHead[r]] = IF keepOld THEN @ ELSE 0]
  /\ bound' = [bound EXCEPT !.renames = @ + 1]
  /\ UNCHANGED <<dest, locks, pc, repo, silent, since>>

----
(* One call of Sync.                                                       *)

Call(p, r) ==
  /\ pc[p] \in {"idle", "ok", "error"}
  /\ pc' = [pc EXCEPT ![p] = "stat"]
  /\ repo' = [repo EXCEPT ![p] = r]
  /\ since' = [since EXCEPT ![p] = upTip[r][upHead[r]]]
  /\ UNCHANGED <<upHead, upTip, dest, locks, silent, bound>>

Go(p, step) ==
  /\ pc' = [pc EXCEPT ![p] = step]
  /\ UNCHANGED <<upHead, upTip, repo, since>>

\* A step that runs to its end: with the given checkout, or with an error and no change.
Ends(p, succeeds, checkout, nextStep) ==
  /\ ~silent[p]
  /\ dest' = IF succeeds THEN checkout ELSE dest
  /\ Go(p, IF succeeds THEN nextStep ELSE "error")
  /\ UNCHANGED <<locks, silent, bound>>

\* os.Stat(dest/.git): a missing one means clone, any other error is returned (Fault).
Stat(p) == pc[p] = "stat" /\ Ends(p, TRUE, dest, IF dest.git THEN "set-url" ELSE "clone")

\* Slip: a clone that finds the directory filled waits for it to become free.
CloneWaits(p) ==
  /\ pc[p] = "clone"
  /\ Ends(p, TRUE, IF dest.git THEN dest ELSE [Absent EXCEPT !.git = TRUE, !.url = repo[p]],
          IF dest.git THEN "clone" ELSE "cloning")

\* git clone makes dest/.git, unless another call has filled the directory meanwhile.
CloneStart(p) ==
  /\ pc[p] = "clone"
  /\ Ends(p, ~dest.git, [Absent EXCEPT !.git = TRUE, !.url = repo[p]], "cloning")

Cloned(p) ==
  LET b == upHead[repo[p]]
      c == Tip(repo[p], b)
  IN  [dest EXCEPT !.branch = b, !.tracked = c, !.head = b, !.goal = c, !.tree = {NoTree, c}]

\* The commit has arrived and its files are being written.
CloneReceives(p) == pc[p] = "cloning" /\ Ends(p, TRUE, Cloned(p), "checkout")

\* Every file that is not as in the commit has been written, lost ones included.
FilesWritten == [dest EXCEPT !.tree = {dest.goal}, !.damaged = FALSE]

CloneEnd(p) == pc[p] = "checkout" /\ Ends(p, TRUE, FilesWritten, "count")

UrlSet(p) == [dest EXCEPT !.url = repo[p]]

\* Slip: the command is left out, so the old remote is fetched.
SetUrlSkipped(p) == pc[p] = "set-url" /\ Ends(p, TRUE, dest, "fetch")

\* git remote set-url origin
SetUrl(p) == pc[p] = "set-url" /\ Ends(p, dest.git /\ "config" \notin locks, UrlSet(p), "fetch")

\* Slip: nobody looks whether the remote still has the branch.
CanFetchAnything == dest.git

\* git fetch can work: the remote still has the branch the clone followed.
CanFetch ==
  /\ dest.git /\ "shallow" \notin locks
  /\ dest.branch # NoBranch => upTip[dest.url][dest.branch] # 0

\* A checkout that follows no branch fetches without tracking anything.
Fetched ==
  IF dest.branch = NoBranch THEN dest
  ELSE [dest EXCEPT !.tracked = Tip(dest.url, dest.branch)]

\* git fetch --depth 1 origin
Fetch(p) == pc[p] = "fetch" /\ Ends(p, CanFetch, Fetched, "set-head")

\* git remote set-head origin -a: the remote's default branch must be tracked.
SetHead(p) ==
  /\ pc[p] = "set-head"
  /\ Ends(p, dest.git /\ "ref" \notin locks /\ upHead[dest.url] = dest.branch,
          [dest EXCEPT !.head = dest.branch], "reset")

\* Slip: reset to the local branch instead of to origin/HEAD.
LocalHead == dest.goal

OriginHead == dest.tracked

\* Slip: nothing is reset when no commit has come in since the last reset.
ResetIfMoved(p) ==
  /\ pc[p] = "reset"
  /\ Ends(p, dest.git /\ "index" \notin locks /\ ~Writing /\ dest.head # NoBranch,
          [dest EXCEPT !.goal = OriginHead, !.tree = IF dest.goal = OriginHead THEN @ ELSE @ \cup {OriginHead}],
          IF dest.goal = OriginHead THEN "count" ELSE "resetting")

\* git reset --hard origin/HEAD takes index.lock and replaces the files one by one.
ResetStart(p) ==
  /\ pc[p] = "reset"
  /\ Ends(p, dest.git /\ "index" \notin locks /\ ~Writing /\ dest.head # NoBranch,
          [dest EXCEPT !.goal = OriginHead, !.tree = @ \cup {OriginHead}], "resetting")

ResetEnd(p) == pc[p] = "resetting" /\ Ends(p, TRUE, FilesWritten, "count")

\* finish: count the advisories and return.
Finish(p) == pc[p] = "count" /\ Ends(p, dest.git, dest, "ok")

----
(* What goes wrong.                                                        *)

\* What a command leaves that is cut off while it writes files: those it has come to
\* are new, the others old, and the one it was at may be missing or half-written.
CutOff == {dest} \cup (IF Torn(dest.tree) THEN {[dest EXCEPT !.damaged = TRUE]} ELSE {})

\* Slip: a call that fails removes the checkout it could not update.
RemoveCheckout(p) == {Absent}

\* git clone removes what it made when it fails by itself before it writes the files.
AfterFault(p) ==
  CASE pc[p] = "cloning" -> {Absent}
    [] pc[p] \in {"checkout", "resetting"} -> CutOff
    [] OTHER -> {dest}

\* No git, a failing stat or walk, the network, another git's lock, a full disk, or a
\* deadline between two commands: the call returns an error.
Fault(p) ==
  /\ pc[p] \in Steps
  /\ bound.faults < MaxFaults
  /\ bound' = [bound EXCEPT !.faults = @ + 1]
  /\ dest' \in AfterFault(p)
  /\ silent' = [silent EXCEPT ![p] = FALSE]
  /\ Go(p, "error")
  /\ UNCHANGED locks

\* The checkouts a git command may leave when it is killed: as it was, with its work
\* done, or with its files half replaced.
Interrupted(p) ==
  CASE pc[p] = "set-url" -> {dest, UrlSet(p)}
    [] pc[p] = "fetch"   -> {dest, IF CanFetch THEN Fetched ELSE dest}
    [] pc[p] \in {"checkout", "resetting"} -> CutOff \cup {FilesWritten}
    [] OTHER             -> {dest}

\* Nobody removes the lock file of a killed command; one that it does not hold yet,
\* or no longer, is not there.
KillLeaves(p) ==
  IF dest.git
  THEN dest' \in Interrupted(p) /\ locks' \in {locks, locks \cup {LockOf[pc[p]]}}
  ELSE UNCHANGED <<dest, locks>>

\* The deadline kills the git command at work.
Kill(p) ==
  /\ pc[p] \in DOMAIN LockOf
  /\ ~silent[p]
  /\ bound.kills < MaxKills
  /\ bound' = [bound EXCEPT !.kills = @ + 1]
  /\ KillLeaves(p)
  /\ Go(p, "error")
  /\ UNCHANGED silent

\* The remote accepts the connection and then sends nothing more.
RemoteGoesSilent(p) ==
  /\ pc[p] \in Network
  /\ ~silent[p]
  /\ bound.silences < MaxSilences
  /\ bound' = [bound EXCEPT !.silences = @ + 1]
  /\ silent' = [silent EXCEPT ![p] = TRUE]
  /\ UNCHANGED <<upHead, upTip, dest, locks, pc, repo, since>>

\* The deadline kills git while the remote is silent.  Its helper process
\* (git-remote-https) lives on, waiting for the remote with the other end of the
\* stderr pipe in hand, and cmd.Run returns only when that pipe is closed.
KillWhileSilent(p) ==
  /\ pc[p] \in Network
  /\ silent[p]
  /\ KillLeaves(p)
  /\ Go(p, "drain")
  /\ UNCHANGED <<silent, bound>>

\* The connection breaks after all, and the helper exits.
HelperExits(p) ==
  /\ pc[p] = "drain"
  /\ silent' = [silent EXCEPT ![p] = FALSE]
  /\ Go(p, "error")
  /\ UNCHANGED <<dest, locks, bound>>

----
SyncStep(p) ==
  \/ Stat(p) \/ CloneStart(p) \/ CloneReceives(p) \/ CloneEnd(p)
  \/ SetUrl(p) \/ Fetch(p) \/ SetHead(p) \/ ResetStart(p) \/ ResetEnd(p) \/ Finish(p)
  \/ KillWhileSilent(p)

AnyCall(p) == \E r \in Repos : Call(p, r)

Upstream ==
  \E r \in Repos :
    \/ Push(r)
    \/ \E b \in Branches, keepOld \in BOOLEAN : RenameDefaultBranch(r, b, keepOld)

Next ==
  \/ \E p \in Callers :
       \/ AnyCall(p) \/ SyncStep(p)
       \/ Fault(p) \/ Kill(p) \/ RemoteGoesSilent(p) \/ HelperExits(p)
  \/ Upstream

(* sync-glsa runs again and again (cron); a git command whose remote       *)
(* answers comes to its end, and the deadline every call has comes for one *)
(* whose remote does not.  Nothing ends a silent connection.               *)
Fairness == \A p \in Callers : WF_vars(AnyCall(p)) /\ WF_vars(SyncStep(p))

Spec == Init /\ [][Next]_vars /\ Fairness

----
Checkout ==
  [git : BOOLEAN, url : Repos \cup {None}, branch : Branches \cup {NoBranch},
   tracked : Commits \cup {NoTree}, head : Branches \cup {NoBranch},
   goal : Commits \cup {NoTree}, tree : SUBSET (Commits \cup {NoTree}),
   damaged : BOOLEAN]  \* a file that was being replaced is missing or half-written

TypeOK ==
  /\ upHead \in [Repos -> Branches]
  /\ upTip \in [Repos -> [Branches -> 0 .. MaxCommits]]
  /\ dest \in Checkout
  /\ locks \subseteq {"config", "shallow", "ref", "index"}
  /\ pc \in [Callers -> {"idle", "drain", "ok", "error"} \cup Steps]
  /\ repo \in [Callers -> Repos]
  /\ silent \in [Callers -> BOOLEAN]
  /\ since \in [Callers -> 0 .. MaxCommits]

(* A call that reports success leaves the repository it was asked for, at  *)
(* a commit no older than the newest when the call began, and every file   *)
(* whole, whatever faults, kills, other repositories and changes of the    *)
(* default branch came before it.  Another call may be replacing the files *)
(* just then, or may have been cut off when it did.                        *)
(* (Overlapping calls for two repositories are not promised this.)         *)
FreshOnSuccess ==
  [][\A p \in Callers : pc[p] = "count" /\ pc'[p] = "ok" =>
       /\ \A c \in dest.tree : c[1] = repo[p] /\ c[2] >= since[p]
       /\ dest.damaged => \E q \in Callers \ {p} : pc[q] \notin {"idle", "ok"}]_vars

\* All files of one commit are there.
Whole == ~Torn(dest.tree) /\ NoTree \notin dest.tree /\ ~dest.damaged

(* What can cost the mirror its advisories: only a reset that brings in a  *)
(* commit that has been fetched takes a whole mirror apart, a call that    *)
(* fails before it never does; and then files go missing only when a       *)
(* command that is replacing them is cut off, those it was replacing.      *)
KeepsMirror ==
  [][/\ Whole /\ ~Whole' =>
          /\ \E p \in Callers : pc[p] = "reset" /\ pc'[p] = "resetting"
          /\ dest'.tree = dest.tree \cup {dest.tracked} /\ ~dest'.damaged
     /\ ~dest.damaged /\ dest'.damaged =>
          /\ \E p \in Callers : pc[p] \in {"checkout", "resetting"} /\ pc'[p] = "error"
          /\ Torn(dest'.tree) /\ dest'.tree = dest.tree
     /\ NoTree \notin dest.tree => NoTree \notin dest'.tree]_vars

(* "It is safe to call repeatedly (e.g. from a cron job or CI step) to     *)
(* keep a local mirror fresh": once all calls ask for one repository, the  *)
(* mirror comes to its newest commit and stays there.                      *)
MirrorCatchesUp ==
  \A r \in Repos :
    <>[](\A p \in Callers : repo[p] = r) => <>[](dest.tree = {Tip(r, upHead[r])})

(* Every call comes back: "a network problem fails fast instead of hanging *)
(* forever".                                                               *)
CallsReturn == \A p \in Callers : pc[p] = "stat" ~> pc[p] \in {"ok", "error"}

----
Running == [p \in Callers |-> IF pc[p] \in {"idle", "ok", "error"} THEN pc[p] ELSE "running"]

Promise ==
  INSTANCE GlsaMirror WITH tree <- dest.tree, damaged <- dest.damaged, call <- Running

(* Sync implements what it promises: whatever fails, is killed or overlaps, *)
(* the files are replaced by newer ones only, and only while a call runs    *)
(* that asked for them; a call cut off in the middle leaves a mixture, and  *)
(* perhaps a file less, that the next success has to clear away.            *)
(* (Overlapping calls: for one repository.)                                 *)
ImplementsMirror == Promise!Spec
====

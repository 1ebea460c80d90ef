---- MODULE Pipeline ----
(***************************************************************************)
(* The mirror in use: sync-glsa keeps the directory up to date (GlsaSync)  *)
(* while generate --glsa-dir, in another process and under no common lock, *)
(* reads it again and again (glsa.LoadDir, src/internal/glsa/glsa.go).     *)
(* Of generate, only the reading is here; Generate has the rest.           *)
(*                                                                         *)
(* An advisory is the number of its file in the order of the names.  A     *)
(* push writes some of them; what a file holds is the push that wrote it   *)
(* last.  (Advisories are revised, never withdrawn.)                       *)
(***************************************************************************)
EXTENDS GlsaSync, FiniteSetsExt

CONSTANTS
  Advisories,  \* the numbers of the glsa-*.xml files
  Writes       \* n -> the files the n-th push to a repository writes

ASSUME AdvisoriesAssumption ==
  /\ Advisories \subseteq Nat /\ IsFiniteSet(Advisories)
  /\ Writes \in [1 .. MaxCommits -> SUBSET Advisories]

VARIABLES
  genPc,   \* "walk", or the end of the last run of generate
  todo,    \* the files WalkDir has listed and not visited yet
  report,  \* what was read of each file, NoTree for nothing
  fresh,   \* history: the newest `since' of a call of Sync that has succeeded
  due      \* history: that value when the run of generate began

reader == <<genPc, todo, report>>
pipelineVars == <<vars, reader, fresh, due>>

----
\* What file a holds in commit c.
Content(c, a) ==
  LET pushes == {n \in 1 .. c[2] : a \in Writes[n]}
  IN  IF pushes = {} THEN NoTree ELSE <<c[1], Max(pushes)>>

\* What file a may hold now, while its replacement is under way or was cut off.
MayHold(a) == {Content(c, a) : c \in dest.tree}

\* git replaces it, or has begun to.
Moving(a) == Cardinality(MayHold(a)) > 1

\* Slip: the walk goes into .git as well.
PresentAndGit == {0} \cup {a \in Advisories : ~Moving(a) /\ MayHold(a) # {NoTree}}

\* The files that are there and left alone.
Present == {a \in Advisories : ~Moving(a) /\ MayHold(a) # {NoTree}}

Empty == [a \in Advisories |-> NoTree]

PipelineInit ==
  /\ Init
  /\ genPc = "idle" /\ todo = {} /\ report = Empty
  /\ fresh = 0 /\ due = 0

----
(* generate.                                                               *)

\* WalkDir fails without a directory.  Otherwise it reads the names at once: those
\* of the files git leaves alone, and any of those it is replacing.
ListDirectory ==
  /\ genPc # "walk"
  /\ IF dest.git
     THEN /\ genPc' = "walk"
          /\ todo' \in {Present \cup s : s \in SUBSET {a \in Advisories : Moving(a)}}
     ELSE genPc' = "error" /\ todo' = {}
  /\ report' = Empty
  /\ due' = fresh
  /\ UNCHANGED <<vars, fresh>>

\* A file being replaced reads as before or as afterwards, or is passed over because
\* it is gone or half-written.
VisitFile ==
  /\ genPc = "walk" /\ todo # {}
  /\ LET a == Min(todo)
     IN  /\ \E content \in MayHold(a) \cup (IF Moving(a) THEN {NoTree} ELSE {}) :
              report' = [report EXCEPT ![a] = content]
         /\ todo' = todo \ {a}
  /\ UNCHANGED <<vars, genPc, fresh, due>>

\* LoadDir fails when nothing was there or nothing could be read.
FinishWalk ==
  /\ genPc = "walk" /\ todo = {}
  /\ genPc' = IF report = Empty THEN "error" ELSE "ok"
  /\ UNCHANGED <<vars, todo, report, fresh, due>>

Generate == ListDirectory \/ VisitFile \/ FinishWalk

----
(* A step of sync-glsa or of the remote.                                   *)
MirrorStep ==
  /\ Next
  /\ fresh' = Max({fresh} \cup {since[p] : p \in {q \in Callers : pc[q] = "count" /\ pc'[q] = "ok"}})
  /\ UNCHANGED <<reader, due>>

PipelineNext == Generate \/ MirrorStep

\* Both commands are run again and again.
PipelineSpec ==
  PipelineInit /\ [][PipelineNext]_pipelineVars /\ Fairness /\ WF_pipelineVars(Generate)

----
PipelineTypeOK ==
  /\ TypeOK
  /\ genPc \in {"idle", "walk", "ok", "error"}
  /\ todo \subseteq Advisories
  /\ report \in [Advisories -> {NoTree} \cup Commits]
  /\ fresh \in 0 .. MaxCommits /\ due \in 0 .. fresh

(* "keep a local mirror fresh before running generate": what generate      *)
(* reports after a successful sync-glsa is at least as new as the remote   *)
(* was when that sync began, although others go on syncing meanwhile; and  *)
(* an advisory is missing only if its file is being replaced by a later    *)
(* push, or a call was cut off when it did.                                *)
(* (For calls that all ask for one repository.)                            *)
FreshReport ==
  genPc = "ok" =>
    \A r \in Repos, a \in Advisories :
      LET promised == Content(<<r, due>>, a)
      IN  (\A p \in Callers : repo[p] = r) =>
            \/ report[a][2] >= promised[2]
            \/ report[a] = NoTree /\ Content(Tip(r, upHead[r]), a) # promised

(* From the remote to the document: once all calls ask for one repository, *)
(* generate comes to report exactly its newest advisories, time and again. *)
PipelineCatchesUp ==
  \A r \in Repos :
    <>[](\A p \in Callers : repo[p] = r) =>
      /\ []<>(genPc = "ok")
      /\ <>[](genPc = "ok" => report = [a \in Advisories |-> Content(Tip(r, upHead[r]), a)])
====

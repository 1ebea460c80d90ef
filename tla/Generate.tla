---- MODULE Generate ----
(***************************************************************************)
(* flatcar-vex generate (src/internal/cli/generate.go, LoadDir of          *)
(* src/internal/glsa): read the SBOM, walk the advisory directory, match,  *)
(* ask OSV.dev, build the document and write it, stopping at the first     *)
(* error.  While it walks, a sync-glsa of another process may be bringing  *)
(* the directory to another commit (GlsaSync), one file at a time.  The    *)
(* process may be killed at any moment.                                    *)
(***************************************************************************)
EXTENDS Sbom, FetchPromise

CONSTANTS
  Sboms,       \* what the file --sbom may hold: SPDX documents
  Unreadable,  \* an SBOM file that is missing or no SPDX JSON
  Arch,        \* --arch
  Options,     \* the flags: [productID, osvEnabled, osvTimeout, osvBaseURL, outPath]
  Release,     \* document name -> the product ID of the channel and version in it
  AnyRelease,  \* the product ID of a name that has none
  Files,       \* the file names the advisory directory may have
  HasSuffix(_, _),
  Updates,     \* pairs of commits: what the directory holds, and what a sync brings it to
  NoFile, Garbled, NoDirectory,  \* no such file, half-written or malformed, no --glsa-dir
  Old, Partial,  \* what the output held before, and the beginning of a document
  OsvDb,       \* query purl -> the IDs on the first page OSV.dev lists for it
  Aliases      \* ID -> the aliases of its record

ASSUME SbomsAssumption == Sboms \subseteq Documents

ASSUME FilesAssumption == IsFiniteSet(Files) /\ Files \subseteq Words

ASSUME UpdatesAssumption ==
  \A u \in Updates :
    \/ u.from = NoDirectory /\ u.to = NoDirectory
    \/ {u.from, u.to} \subseteq [Files -> AdvisoryFiles \cup {NoFile, Garbled}]

ASSUME OsvAssumption ==
  /\ DOMAIN Aliases \cup {"glsa", "osv"} \subseteq Words
  /\ Aliases \in [DOMAIN Aliases -> Seq(Words)]
  /\ OsvDb \in [DOMAIN OsvDb -> Seq(DOMAIN Aliases)]
  /\ \A d \in Sboms : \A pkg \in ToSet(Load(d).osvPackages) : QueryPurl(pkg) \in DOMAIN OsvDb

VARIABLES
  sbom,      \* the content of the SBOM file
  opts,      \* the flags of this run
  commits,   \* the directory's commit and the one an overlapping sync checks out
  mirror,    \* what each file of the directory holds now
  replaced,  \* history: the files the sync has begun to replace
  pc,        \* where the process is; "ok", "error" and "killed" are its ends
  doc,       \* sbom.Load's answer
  todo,      \* the files WalkDir has listed and not visited yet
  walk,      \* LoadDir's sawFiles, lastErr and glsas
  findings,
  ended,     \* the context of the OSV stage reached its deadline
  vex,       \* the statements of the document
  output     \* what the output holds: Old, Partial, or statements

vars == <<sbom, opts, commits, mirror, replaced, pc, doc, todo, walk, findings, ended, vex, output>>

world == <<sbom, opts, commits>>

NoDoc == [name |-> "", packages |-> <<>>, osvPackages |-> <<>>]

StartOfWalk == [sawFiles |-> FALSE, lastErr |-> FALSE, glsas |-> <<>>]

Stopped == {"ok", "error", "killed"}

Init ==
  /\ sbom \in Sboms \cup {Unreadable}
  /\ opts \in Options
  /\ commits \in Updates
  /\ mirror = commits.from
  /\ replaced = {}
  /\ pc = "load"
  /\ doc = NoDoc
  /\ todo = <<>>
  /\ walk = StartOfWalk
  /\ findings = <<>>
  /\ ended = FALSE
  /\ vex = <<>>
  /\ output = Old

----
(* The overlapping sync: git replaces a file by removing it, creating it   *)
(* and writing it.                                                         *)

HasDirectory == mirror # NoDirectory

\* Later on the process looks at the directory no more.
Reading == pc \in {"load", "list", "walk"}

SyncRemoves(f) ==
  /\ Reading /\ HasDirectory
  /\ f \notin replaced /\ commits.from[f] # commits.to[f]
  /\ \A g \in replaced : mirror[g] = commits.to[g]
  /\ mirror' = [mirror EXCEPT ![f] = NoFile]
  /\ replaced' = replaced \cup {f}
  /\ UNCHANGED <<world, pc, doc, todo, walk, findings, ended, vex, output>>

SyncCreates(f) ==
  /\ Reading /\ f \in replaced /\ mirror[f] = NoFile /\ commits.to[f] # NoFile
  /\ mirror' = [mirror EXCEPT ![f] = Garbled]
  /\ UNCHANGED <<world, replaced, pc, doc, todo, walk, findings, ended, vex, output>>

SyncWrites(f) ==
  /\ Reading /\ f \in replaced /\ mirror[f] = Garbled /\ commits.to[f] # Garbled
  /\ mirror' = [mirror EXCEPT ![f] = commits.to[f]]
  /\ UNCHANGED <<world, replaced, pc, doc, todo, walk, findings, ended, vex, output>>

----
Go(step) == pc' = step /\ UNCHANGED <<world, mirror, replaced>>

LoadSbom ==
  /\ pc = "load"
  /\ IF sbom = Unreadable
     THEN Go("error") /\ UNCHANGED doc
     ELSE Go("list") /\ doc' = Load(sbom)
  /\ UNCHANGED <<todo, walk, findings, ended, vex, output>>

\* filepath.WalkDir reads the names in the directory at once, in order.
ListDirectory ==
  /\ pc = "list"
  /\ IF HasDirectory
     THEN Go("walk") /\ todo' = Sorted({f \in Files : mirror[f] # NoFile}, StringLess)
     ELSE Go("error") /\ UNCHANGED todo
  /\ UNCHANGED <<doc, walk, findings, ended, vex, output>>

IsAdvisory(f) == HasPrefix(f, "glsa-") /\ HasSuffix(f, ".xml")

\* A file that is gone or does not parse is remembered and passed over.
Visited(f) ==
  IF mirror[f] \in {NoFile, Garbled}
  THEN [walk EXCEPT !.sawFiles = TRUE, !.lastErr = TRUE]
  ELSE [walk EXCEPT !.sawFiles = TRUE, !.glsas = Append(@, loadFile(mirror[f]))]

VisitFile ==
  /\ pc = "walk"
  /\ todo # <<>>
  /\ walk' = IF IsAdvisory(Head(todo)) THEN Visited(Head(todo)) ELSE walk
  /\ todo' = Tail(todo)
  /\ Go("walk")
  /\ UNCHANGED <<doc, findings, ended, vex, output>>

\* Slip: an advisory that could not be read is never an error.
NothingSeen == ~walk.sawFiles

\* LoadDir fails when no advisory was there, or none of those there could be read.
NothingLoaded == ~walk.sawFiles \/ (walk.glsas = <<>> /\ walk.lastErr)

FinishWalk ==
  /\ pc = "walk"
  /\ todo = <<>>
  /\ walk' = [walk EXCEPT !.glsas = Arranged(@, LAMBDA g, h : StringLess(g.id, h.id))]
  /\ Go(IF NothingLoaded THEN "error" ELSE "match")
  /\ UNCHANGED <<doc, todo, findings, ended, vex, output>>

\* Slip: the output file is made before there is a document.
MatchOpensOutput ==
  /\ pc = "match"
  /\ findings' = Run(doc.packages, walk.glsas, Arch)
  /\ Go(IF opts.osvEnabled THEN "osv" ELSE "build")
  /\ output' = Partial
  /\ UNCHANGED <<doc, todo, walk, ended, vex>>

\* match.Run, then the checks of the --osv flags.
Match ==
  /\ pc = "match"
  /\ findings' = Run(doc.packages, walk.glsas, Arch)
  /\ Go(IF ~opts.osvEnabled THEN "build"
        ELSE IF opts.osvTimeout < 0 \/ opts.osvBaseURL = "" THEN "error" ELSE "osv")
  /\ UNCHANGED <<doc, todo, walk, ended, vex, output>>

----
(* matchOSV, by what OsvQuery shows of the call: an error, or the records  *)
(* of the advisory IDs, cut short when the deadline came first.  The       *)
(* deadline is the only thing that ends the context.                       *)

\* Slips: the context without the timeout is passed on; a zero timeout is one.
NeverADeadline == FALSE
ZeroIsADeadline == opts.osvTimeout >= 0

HasDeadline == opts.osvTimeout > 0

OsvDeadline ==
  /\ pc = "osv"
  /\ HasDeadline
  /\ ~ended
  /\ ended' = TRUE
  /\ Go("osv")
  /\ UNCHANGED <<doc, todo, walk, findings, vex, output>>

Queries == {QueryPurl(doc.osvPackages[i]) : i \in DOMAIN doc.osvPackages}

OsvIds == Sorted(UNION {ToSet(OsvDb[q]) : q \in Queries}, StringLess)

OsvAnswers ==
  /\ pc = "osv"
  /\ \E positions \in AnswersFor(Len(OsvIds), ended) :
       LET fetched == {OsvIds[i] : i \in positions}
           results == [q \in Queries |-> Select(OsvDb[q], LAMBDA id : id \in fetched)]
       IN  findings' = findings \o RunOSV(doc.osvPackages, results, Aliases)
  /\ Go("build")
  /\ UNCHANGED <<doc, todo, walk, ended, vex, output>>

\* Without a package to ask about, RunOSV asks nothing.
OsvFails ==
  /\ pc = "osv"
  /\ Queries # {}
  /\ Go("error")
  /\ UNCHANGED <<doc, todo, walk, findings, ended, vex, output>>

----
deriveProductID(name) == IF name \in DOMAIN Release THEN Release[name] ELSE AnyRelease

BuildDocument ==
  /\ pc = "build"
  /\ vex' = Build(findings, IF opts.productID # "" THEN opts.productID ELSE deriveProductID(doc.name))
  /\ Go("open")
  /\ UNCHANGED <<doc, todo, walk, findings, ended, output>>

\* Build, or the encoding of what it built, returns an error.
BuildFails ==
  /\ pc = "build"
  /\ Go("error")
  /\ UNCHANGED <<doc, todo, walk, findings, ended, vex, output>>

\* os.WriteFile truncates the file it opens; a first byte on stdout is there to stay.
OpenOutput ==
  /\ pc = "open"
  /\ output' = Partial
  /\ Go("write")
  /\ UNCHANGED <<doc, todo, walk, findings, ended, vex>>

\* The output directory cannot be made, or the file not opened.
OpenFails ==
  /\ pc = "open"
  /\ opts.outPath # ""
  /\ Go("error")
  /\ UNCHANGED <<doc, todo, walk, findings, ended, vex, output>>

WriteOutput ==
  /\ pc = "write"
  /\ output' = vex
  /\ Go("ok")
  /\ UNCHANGED <<doc, todo, walk, findings, ended, vex>>

WriteFails ==
  /\ pc = "write"
  /\ Go("error")
  /\ UNCHANGED <<doc, todo, walk, findings, ended, vex, output>>

Killed ==
  /\ pc \notin Stopped
  /\ Go("killed")
  /\ UNCHANGED <<doc, todo, walk, findings, ended, vex, output>>

----
Step ==
  \/ LoadSbom \/ ListDirectory \/ VisitFile \/ FinishWalk \/ Match
  \/ BuildDocument \/ OpenOutput \/ WriteOutput

Osv == OsvAnswers \/ OsvFails

Sync == \E f \in Files : SyncRemoves(f) \/ SyncCreates(f) \/ SyncWrites(f)

Terminated == pc \in Stopped /\ UNCHANGED vars

Next ==
  \/ Step \/ OsvDeadline \/ Osv \/ BuildFails \/ OpenFails \/ WriteFails
  \/ Sync \/ Killed \/ Terminated

\* The process can take a step of its own: ENABLED Step, put so that TLC need not
\* compute the step to see it.
CanStep == pc \notin Stopped \cup {"osv"}

CanReturn == pc = "osv" /\ ended

(* The process runs on; a deadline that was set comes, and then the call   *)
(* to OSV.dev comes back (OsvQuery!DeadlineReleases).                      *)
Fairness ==
  /\ []<>~CanStep \/ []<><<Step>>_vars
  /\ WF_vars(OsvDeadline)
  /\ []<>~CanReturn \/ []<><<Osv>>_vars

Spec == Init /\ [][Next]_vars /\ Fairness

----
Contents == UNION {{commits.from[f], commits.to[f]} : f \in Files}

TypeOK ==
  /\ sbom \in Sboms \cup {Unreadable} /\ opts \in Options /\ commits \in Updates
  /\ HasDirectory => mirror \in [Files -> Contents \cup {NoFile, Garbled}]
  /\ replaced \subseteq Files
  /\ pc \in {"load", "list", "walk", "match", "osv", "build", "open", "write"} \cup Stopped
  /\ ToSet(todo) \subseteq Files
  /\ walk.sawFiles \in BOOLEAN /\ walk.lastErr \in BOOLEAN
  /\ ended => opts.osvEnabled /\ opts.osvTimeout > 0
  /\ output \in {Old, Partial, vex}

\* The ranges in their order: the first that matches or is not understood decides.
Ranges(ranges, installed, verdict) ==
  \E i \in DOMAIN ranges :
    /\ Satisfies(installed, ranges[i]) = verdict
    /\ \A j \in 1 .. i - 1 : Satisfies(installed, ranges[j]) = "no"

\* What isAffected takes an entry to say of an installed version, whatever the slots of
\* its ranges.  The comments of the code promise more: see StatusIsAsDocumented.
Says(ap, installed, status) ==
  \/ /\ status = "affected"
     /\ Ranges(ap.vulnerable, installed, "match")
     /\ \A i \in DOMAIN ap.unaffected : Satisfies(installed, ap.unaffected[i]) = "no"
  \/ /\ status = "fixed"
     /\ \/ \A i \in DOMAIN ap.vulnerable : Satisfies(installed, ap.vulnerable[i]) = "no"
        \/ /\ Ranges(ap.vulnerable, installed, "match")
           /\ Ranges(ap.unaffected, installed, "match")

\* What advisory g says: <<CVE, status, purl, source, reference>>.
GlsaClaims(g) ==
  {<<c[1], c[2], c[3].purl, "glsa", g.id>> :
     c \in
       {d \in (UNION {ToSet(uri) : uri \in ToSet(g.uris)}) \X {"affected", "fixed"} \X ToSet(doc.packages) :
          \E ap \in ToSet(g.packages) :
            MatchesArch(ap, Arch) /\ ap.name = CategoryName(d[3]) /\ Says(ap, d[3].version, d[2])}}

\* What a record is about: its CVE, the one it names first, or itself.
AboutCVE(id) ==
  LET named == {i \in DOMAIN Aliases[id] : HasPrefix(Aliases[id][i], "CVE-")}
  IN  IF named = {} THEN id ELSE Aliases[id][Min(named)]

\* What OSV.dev says, by the given IDs.
OsvClaims(ids) ==
  {<<AboutCVE(c[1]), "affected", c[2].purl, "osv", c[1]>> :
     c \in {d \in ids \X ToSet(doc.osvPackages) : d[1] \in ToSet(OsvDb[QueryPurl(d[2])])}}

\* The SPDX packages a package of doc may come from.
Origins(pkg) ==
  {sp \in ToSet(sbom.packages) :
     sp.versionInfo = pkg.version /\ pkg.purl \in ToSet(PurlsIn(sp, {pkg.category}))}

(* Every SPDX package goes to one source at most: what OSV.dev is asked    *)
(* about has no ebuild purl, whatever became of that purl, and has a       *)
(* version and a name to ask with; every ebuild purl with a name is        *)
(* matched under the version the SBOM reports.                             *)
PackagesAreSplit ==
  pc \notin {"load", "killed"} /\ sbom # Unreadable =>
    /\ \A pkg \in ToSet(doc.osvPackages) :
         /\ \E sp \in Origins(pkg) : PurlsIn(sp, {"ebuild"}) = <<>>
         /\ TrimSpace(pkg.version) \notin {"", "(devel)"} /\ pkg.name \notin {"", "../api"}
    /\ \A sp \in ToSet(sbom.packages) :
         LET ebuild == PurlsIn(sp, {"ebuild"})
         IN  ebuild # <<>> /\ Purl[ebuild[1]].category # "" /\ Purl[ebuild[1]].name # "" =>
               \E pkg \in ToSet(doc.packages) : pkg.purl = ebuild[1] /\ pkg.version = sp.versionInfo
    /\ Len(doc.packages) + Len(doc.osvPackages) <= Len(sbom.packages)

\* Everything a document lists, and every advisory it names.
Listed(statements) ==
  UNION {{<<s.cve, s.status, p>> : p \in ToSet(s.subcomponents)} : s \in ToSet(statements)}

Named(statements) ==
  UNION {UNION {{<<s.cve, part[1], ref>> : ref \in ToSet(part[2])} : part \in ToSet(s.action.see)} :
           s \in ToSet(statements)}

\* What the process may have found in each file while it was reading.
MayHaveHeld ==
  {[f \in Files |-> IF f \notin replaced \/ seen[f] = "from" THEN commits.from[f]
                    ELSE IF seen[f] = "to" THEN commits.to[f] ELSE NoFile] :
     seen \in [replaced -> {"from", "to", "gone"}]}

Claims(held, ids) ==
  (UNION {GlsaClaims(g) : g \in {held[f] : f \in {h \in Files : IsAdvisory(h)}} \ {NoFile, Garbled}})
    \cup (IF opts.osvEnabled THEN OsvClaims(ids) ELSE {})

ProductOf(name) ==
  IF opts.productID # "" THEN opts.productID
  ELSE IF name \in DOMAIN Release THEN Release[name] ELSE AnyRelease

(* A document that is written is about the product it was asked for, or    *)
(* the release of the SBOM, says of every package, CVE and status exactly  *)
(* what the advisories, read as isAffected reads a range list, and OSV.dev *)
(* say, and names the advisories that have an ID: none of that is lost,    *)
(* added or mixed up on the way through the stages.  An overlapping sync   *)
(* may show a file as it was or as it is to be or hide it, but no          *)
(* half-written file counts and a file it does not touch is never lost.    *)
(* The deadline of the OSV.dev stage may cut that part short; nothing else *)
(* does.                                                                   *)
DocumentIsFaithful ==
  pc = "ok" =>
    \E held \in MayHaveHeld, positions \in AnswersFor(Len(OsvIds), ended) :
      LET claims == Claims(held, {OsvIds[i] : i \in positions})
      IN  /\ \A s \in ToSet(output) : s.product = ProductOf(sbom.name)
          /\ Listed(output) = {<<c[1], c[2], c[3]>> : c \in claims}
          /\ Named(output) = {<<c[1], c[4], c[5]>> : c \in {d \in claims : d[2] = "affected" /\ d[5] # ""}}

(* The document does not depend on the order of packages, files, answers or *)
(* map iterations ("byte-identical output"): the statements are in strict   *)
(* order of CVE and status, so are the packages of each, and none of them   *)
(* is listed twice.                                                         *)
DocumentIsCanonical ==
  pc = "ok" =>
    /\ \A i, j \in DOMAIN output : i < j =>
         \/ StringLess(output[i].cve, output[j].cve)
         \/ output[i].cve = output[j].cve
              /\ output[i].status = "fixed" /\ output[j].status = "affected"
    /\ \A s \in ToSet(output) : \A i, j \in DOMAIN s.subcomponents :
         i < j => StringLess(s.subcomponents[i], s.subcomponents[j])

(* No advisory that could be read, no document: an empty or unreadable      *)
(* corpus must not pass for one that reports nothing.                       *)
NeverFromAnEmptyCorpus ==
  pc = "ok" => \E held \in MayHaveHeld :
    \E f \in Files : IsAdvisory(f) /\ held[f] \notin {NoFile, Garbled}

(* A run that fails or is killed before it has begun to write its document  *)
(* leaves the output as it was, whichever stage it was in.  From then on    *)
(* the old document is gone, and a failed write or a kill leaves the        *)
(* beginning of the new one: os.WriteFile in place promises no more.        *)
ErrorKeepsOutput ==
  [][pc' \in {"error", "killed"} /\ pc # "write" => output' = Old]_vars

(* The run comes to its end, if the OSV.dev stage has a deadline or is off: *)
(* the flag "stays effective".  With a zero timeout, which the flag allows, *)
(* there is no deadline, and nothing ends the wait for a silent server.     *)
Exits == (opts.osvEnabled => opts.osvTimeout # 0) => <>(pc \in Stopped)

----
(* What the comments of the code say of a status, beyond DocumentIsFaithful. *)

\* The entries of the advisories for a CVE that are about a package.
EntriesAbout(cve, pkg) ==
  {ap \in UNION {ToSet(g.packages) : g \in {h \in ToSet(walk.glsas) : cve \in ToSet(h.cves)}} :
     MatchesArch(ap, Arch) /\ ap.name = CategoryName(pkg)}

(* Finding.Affected: "false means the package is present but already        *)
(* at/past a fixed version".  A package reported as fixed is not older than *)
(* every version its advisories give as unaffected.                         *)
FixedIsPastAFix ==
  \A c \in Listed(output) : c[2] = "fixed" =>
    \E pkg \in ToSet(doc.packages) : pkg.purl = c[3] /\
      \E ap \in EntriesAbout(c[1], pkg) : \E r \in ToSet(ap.unaffected) :
        Satisfies(pkg.version, [r EXCEPT !.op = "ge"]) = "match"

(* isAffected: its second return value "is false if any range's version     *)
(* string could not be parsed, in which case the caller should treat the    *)
(* result as unknown".  Behind every status is an entry all of whose ranges *)
(* are understood.                                                          *)
UnknownIsNotReported ==
  \A c \in Listed(output) :
    \E pkg \in ToSet(doc.packages) : pkg.purl = c[3] /\
      \E ap \in EntriesAbout(c[1], pkg) :
        /\ Says(ap, pkg.version, c[2])
        /\ \A r \in ToSet(ap.vulnerable \o ap.unaffected) : Satisfies(pkg.version, r) # "error"

\* The slots the advisories speak of, and the one a package has without a word about it.
Slots ==
  {"0"} \cup {r.slot : r \in UNION {UNION {ToSet(ap.vulnerable \o ap.unaffected) : ap \in ToSet(g.packages)} :
                                     g \in ToSet(walk.glsas)}}

InSlot(ranges, slot) == Select(ranges, LAMBDA r : r.slot \in {"", "*", slot})

(* VersionRange.Slot "restricts the range to a specific Portage SLOT, if    *)
(* set".  Every package is installed in one slot: the ranges for that slot  *)
(* explain every status it is reported with.                                *)
SlotRestricts ==
  \A pkg \in ToSet(doc.packages) : \E slot \in Slots :
    \A c \in {d \in Listed(output) : d[3] = pkg.purl} :
      \E ap \in EntriesAbout(c[1], pkg) :
        LET there == [ap EXCEPT !.vulnerable = InSlot(@, slot), !.unaffected = InSlot(@, slot)]
        IN  there.vulnerable # <<>> /\ Says(there, pkg.version, c[2])

(* A written document keeps what the three comments say.                    *)
StatusIsAsDocumented ==
  pc = "ok" => FixedIsPastAFix /\ UnknownIsNotReported /\ SlotRestricts
====

# flatcar-vex: a TLA+ model

`flatcar-vex` (the Go program under `src/`) turns the software bill of
materials of a Flatcar release into an OpenVEX document: which known
vulnerabilities affect, or have been fixed in, the packages of the release. It
has two commands. `sync-glsa` keeps a local git mirror of Gentoo's advisories
(GLSAs). `generate` reads an SBOM and the mirror, matches every ebuild package
against every advisory, asks OSV.dev about the golang and cargo packages when
told to, and writes the document.

The modules beside this file model the parts whose correctness a test can
hardly reach: the concurrent fetch pool and the client around it, the mirror
under failures and kills, the two commands side by side on one directory, and
the algebra of version ranges, matching and grouping.

## Inventory

| Component | Source | State | Operations | What makes it correct |
|---|---|---|---|---|
| CLI entry | `cmd/flatcar-vex/main.go`, `internal/cli/root.go` | none | run a command, exit 0 or 1 | the exit status says what happened |
| generate | `internal/cli/generate.go` | the stage, the output file | `runGenerate`, `matchOSV`, `writeOutput` | an error leaves the output alone; a document is whole and faithful; the run ends |
| sync-glsa | `internal/cli/sync_glsa.go` | none | one call of `Sync` under a deadline | it returns; it may be run again and again, by cron, overlapping |
| GLSA mirror | `internal/glsasync` | the checkout in `--dest`, lock files of killed gits | `Sync`: stat, clone, or set-url, fetch, set-head, reset; count | success means fresh, whole and of the right repository; a failure costs at most what it was replacing; the mirror catches up |
| GLSA corpus | `internal/glsa` | none | `LoadDir`, `loadFile`, `MatchesArch` | no advisory that can be read is lost; no corpus, no document |
| SBOM | `internal/sbom` | none | `Load` | each package goes to one source, under the right version |
| Portage versions | `internal/portage` | none | `Compare`, `Satisfies` | a total preorder; ranges cut it in two |
| Matching | `internal/match` | none | `Run`, `isAffected`, `RunOSV`, `sortFindings` | a finding for each advisory that says something of a package, and no other |
| OSV client | `internal/osv` | per call: batches, IDs, answer | `Query`, `queryBatch` | every purl asked once, every advisory handed to every package that has it |
| OSV fetch pool | `internal/osv`, `fetchVulnerabilities` | channels `jobs` and `results`, worker goroutines, derived context | feeder, workers, closer, collector | every record once, first error wins, no goroutine left, no deadlock |
| VEX document | `internal/vexgen` | none | `Build`, `subcomponents`, `actionStatement` | one statement per CVE and status, in order, nothing listed twice |
| go-vex, git, OSV.dev, the file system | not in the repository | | | taken by how the code uses them |
| workflows, Makefile, docs | `.github`, `Makefile`, `docs` | | | no program logic |

How they interact: `generate` calls the others in sequence and holds no state
between runs. `sync-glsa` and `generate` are separate processes that share the
mirror directory and no lock, so an advisory may change while it is read.
`RunOSV` calls `Query`, `Query` calls the pool; one context with the
`--osv-timeout` deadline is passed all the way down. `Sync` hands its context to
each git command, which is killed when the deadline passes.

What is hard: the interleavings of the pool's goroutines with errors and the
deadline; a `Sync` that is killed between or inside git commands and the next
one that starts from what it left; overlapping `Sync`s; a `generate` beside a
`Sync`; partial answers; boundaries of batches and version ranges; and duplicates
that come from several entries, advisories, sources and map iterations.
`PROJECT.json` lists each hazard at its line, with the properties about it.

## Modules

| Module | Models | Built on |
|---|---|---|
| `Lists` | what slices go through: sorting, filters, loops that append | |
| `FetchPromise` | which records an answer of the pool may carry | |
| `OsvFetchAbs` | the abstract fetch: one call, one answer | `FetchPromise` |
| `OsvFetch` | the worker pool, action by action | implements `OsvFetchAbs` |
| `OsvQuery` | `RunOSV` and `Query`, with the pool by its promise | `Lists`, `FetchPromise` |
| `OsvClient`, `MCOsvClient` | the same with the pool's goroutines in it | `OsvQuery`, `OsvFetch`; implements `OsvQuery` |
| `GlsaMirror` | what `Sync` promises to a reader of the mirror | |
| `GlsaSync`, `MCGlsaSync` | `Sync`, its git commands, the remote, kills | implements `GlsaMirror` |
| `Pipeline`, `MCPipeline` | overlapping `Sync`s and a `generate` that reads what they write | `GlsaSync` |
| `Portage` | `parseVersion`, `Compare`, `Satisfies` | |
| `PortageLaws`, `MCPortage` | the laws of any two or three version strings, and the strings TLC tries | `Portage` |
| `Glsa` | `loadFile`, `MatchesArch` | `Portage` |
| `Matching` | `isAffected`, `Run`, `RunOSV`'s pairing, `Vulnerability.CVE` | `Glsa`, `Lists` |
| `VexBuild` | `Build` | `Matching` |
| `Sbom` | `Load` | `VexBuild` |
| `Generate`, `MCGenerate` | `runGenerate` and `LoadDir`, beside an overlapping sync | all of the five above, `FetchPromise` |
| `OsvFetch_proofs`, `OsvQuery_proofs`, `GlsaSync_proofs`, `Pipeline_proofs`, `Portage_proofs`, `Generate_proofs` | the theorems about the module of the name (`Portage_proofs`: about `PortageLaws`) | that module |
| `Lists_proofs`, `Extremes` | the lemmas they share: about `Lists`, and about the least and the greatest of a set of numbers | `Lists` |

**Lists.** A sorted slice is the enumeration of a finite set by an order on it:
the element at place `i` is the one with `i - 1` elements before it. `Sorted`
enumerates values; `At`, `Select` and `Arranged` enumerate the positions of a
sequence, so that elements that are alike keep their order and their number.
`SelectSeq` and `SortSeq` would say the same, but the prover knows nothing about
them, and no induction could teach it.

**OsvFetch.** `numIds` is the length of the slice, any of `Sizes`, and an ID is
its position in the sorted slice. `next` is the feeder's
loop variable, `pc[w]` where worker `w` is (`range`: receiving from `jobs`,
`call`: about to send its request, `wait`: request on the wire, `gone`), `job[w]`
the ID it holds, `results` the buffered channel, `out` and `firstErr` the
collector's variables, `ctx` the derived context with what ended it. The
rendezvous on the unbuffered `jobs` is one action, `SendJob`. The feeder's
`select` takes either ready branch, so `SendJob` and `FeederStops` are both
enabled once the context is done. A request on a done context fails
(`RequestAborts`), one on the wire may still succeed. Deadlock checking is on:
the only state without another step is the one where the call has returned and
every goroutine with it (`Terminated`). The context may be done before the call
begins.

**OsvQuery.** Query purls and IDs are numbers in the order of the strings. A
request is two steps (`StartBatch`, then `BatchOk` or `BatchFails`), so that the
deadline can come in between. OSV.dev's answer for a purl is its first page, as
nothing in the code asks for another. The fetch is one step, by `AnswersFor`,
which `OsvFetch` is shown to keep.

**OsvClient** puts `OsvFetch` in the place of that step: an instance whose
`numIds` is the number of IDs the batches have brought. Its context is derived
from the caller's when it starts (`Derived`), and `DeadlineEnds` ends both at
once. `ImplementsQuery` is `OsvQuery`'s whole
specification, fairness included.

**GlsaSync.** `dest` is the checkout: whether `.git` exists, origin's URL, the
branch the shallow clone follows, the commit of the remote-tracking branch, what
origin/HEAD points at, the commit the working tree is being brought to (`goal`),
and the commits its files may come from (`tree`): one when it is complete, more
while or after a command replaces them one by one, `NoTree` standing for files
that are not there yet. git replaces a file by removing it and writing it anew:
`damaged` says that a command was cut off there, so that a file is missing or
half-written, and only a command that writes all files to its end
(`FilesWritten`) makes up for it. A clone is three actions (`CloneStart`, `CloneReceives`,
`CloneEnd`) and a reset two (`ResetStart`, `ResetEnd`), because another call or a
reader may look in between; the other git commands are one each. While files are
written, `index.lock` keeps another reset out. `Fault` is a command that fails by
itself at any point, and `Kill` the deadline in the middle of one: the command's
effect may be done, half done (`CutOff`) or not done, and its lock file may stay
behind.
`RemoteGoesSilent`, `KillWhileSilent` and `HelperExits` are a remote that keeps
the connection and sends nothing: killing git leaves its helper process, which
holds the pipe that `cmd.Run` waits on. What git does is external and modelled by
its effect on `dest`, to the extent that the next command depends on it.

**GlsaMirror** forgets the commands and keeps `tree` and `damaged`: while calls
run, newer files come in (`BringIn`) and take the place of all others (`Settle`);
a call that fails may leave the replacement as far as it is, a file lost with it
(`CutOff`), and only where files were being replaced; a call succeeds only on a
tree in which nothing is older than the call, of another repository, or damaged,
unless another call has done the damage since. `GlsaSync` implements it with
`tree <- dest.tree`, `damaged <- dest.damaged` and every step of a call but its
ends mapped to "running". For two overlapping calls this is promised
as long as they ask for one repository.

**Pipeline** runs `generate`'s `LoadDir` beside `GlsaSync`. A commit holds for
each file the push that wrote it last; a file that differs between the commits of
`tree` may be listed or not, and may be read as in any of them or be passed over.
`report` is what a run has read, `fresh` the newest commit a finished `sync-glsa`
has vouched for. `Generate` looks at the rest of the same process in detail, with
files that have contents, and takes the sync by what it does to the files.

**Portage, Glsa, Matching, VexBuild, Sbom** are operators without state. Version
strings, purls and file names stay strings; what the regular expression
captures of a version, the parts of a purl, the words of an `arch` attribute,
`strings.HasPrefix`, `HasSuffix` and `TrimSpace` and the order of strings are
constants, so the model is about the decisions and not about
characters. A captured number that does not fit an int (`MaxInt`) makes the
version unknown. `Scan` is the loop over ranges with its early exit: the first range
that matches or is not understood decides. A range has its slot, and as in the code
nothing but `StatusIsAsDocumented` looks at it.

**Generate.** `pc` names the stage. The walk is one step per file; the
directory's names are read at once, as `filepath.WalkDir` does. The overlapping
sync replaces one file after another: gone, half-written (`Garbled`), new. The
OSV stage is one step, an error or an answer by `AnswersFor`, with the deadline
as a step of its own. The output goes from `Old` through `Partial` to the
document; an error of `Build` or of the encoding (`BuildFails`) comes before that.
`Killed` may come at any time. `DocumentIsFaithful` is about the way from the
advisories to the document and takes a range list as `isAffected` does (`Says`);
what the comments promise beyond that is `StatusIsAsDocumented`, which the code
does not keep.

## Runs

| Run | Instance | What it shows |
|---|---|---|
| `osv_fetch` | calls of 1, 2 and 4 IDs, 3 workers | no ID lost, fetched twice or hidden by an error; `results` is large enough; no send on a closed channel; nothing left running; the first error wins; cancelling releases the call; the pool implements `OsvFetchAbs` |
| `osv_query` | 13 lists of up to 4 packages, 3 purls and the empty one, batches of 2, 5 databases of up to 3 IDs, 2 workers | one finding per package and advisory; purls asked once; a cut answer is a consistent prefix; the deadline releases the call; with the goroutines in place `OsvQuery` is implemented |
| `pipeline` | 2 callers, 1 repository, 2 commits of 3 files, 1 fault, a reader | the mirror catches up and stays, every call returns, `GlsaMirror` is implemented; what `generate` reports after a success is no older than that success, nothing is missing from it but what a later push is replacing, and in the end it is exact, time and again |
| `glsa_sync_faults` | 1 caller, 2 repositories, 2 commits, one each of rename, fault, kill, silence | success means the repository asked for, no older than when the call began, every file whole; only a reset to a fetched commit takes a whole mirror apart, and a file is lost only when the command that replaces files is cut off; `GlsaMirror` is implemented |
| `portage` | 18 strings, all triples | total preorder, agreement with a dictionary order, ranges partition |
| `generate` | 2 SBOMs and an unreadable one, 5 option sets, 5 pairs of commits of 5 files | a document about the right product, faithful and canonical document, packages split, errors and kills before the writing keep the output, the run ends |

Six runs show a disagreement between the code and what its documentation or a
test says of it; each checks one property that TLC finds violated.

| Run | What happens |
|---|---|
| `osv_fetch_deadline` | The deadline passes while no request is in flight: the feeder stops, no worker reports an error, and the call returns some of the records without an error. `generate` then writes a document that lacks advisories and exits 0. |
| `osv_query_pages` | OSV.dev answers a purl in pages: the advisories after the first page are missing from the findings, without an error. |
| `glsa_sync_killed_clone` | The deadline kills `git clone`: a half-made `.git` stays, and no later call gets past it. |
| `glsa_sync_other_branch` | `--repo` is changed to a repository with another default branch: every later call fails. |
| `glsa_sync_silent` | The remote goes silent: the call outlives its deadline. |
| `generate_status` | One document breaks three promises of the comments: a version older than the vulnerable ones is `fixed`; a range that cannot be parsed, after the one that decides, does not make the result unknown; and a package is `affected` and `fixed` for one CVE, by the ranges of two slots. |

What a kill costs. A killed `git reset` leaves a mixture of two commits, in which
the file it was at may be missing or half-written, and its `index.lock`, which
nobody removes: every later call fails at the reset, so the mirror stays as it is.
`MirrorCatchesUp` is violated by such a kill too (`glsa_sync_killed_clone` shows
the shorter trace, a killed clone). `sync-glsa` reports the failure each time, but
`generate` reads the mixture and passes over the lost file. `KeepsMirror`,
`FreshOnSuccess` and `ImplementsMirror` hold with all of the kills: nothing but the
files being replaced is at stake, and no call succeeds before they are whole.

The three parts of `StatusIsAsDocumented` (`FixedIsPastAFix`,
`UnknownIsNotReported`, `SlotRestricts`) are independent: the corpus of the run
breaks each of them on another package or CVE, and all hold for a corpus that has
none of the three oddities. `Slots` lets a package be in any slot, as the SBOM does
not say which, so the last part is broken only where no slot explains the document.

Some hazards are met in part. `pipeline` has no kills and no silences: the kills of
a mirror are in `glsa_sync_faults`, and a silent remote (`CallsReturn`) only in
`glsa_sync_silent`. `ErrorKeepsOutput` ends where `os.WriteFile` begins; after that
a failed write or a kill leaves a partial file, which the model shows (`Partial`)
and no document of the repository rules out. `Exits` is about runs whose OSV.dev
stage has a deadline or is off: `--osv-timeout 0` is accepted and sets none.

### Bounds

Four IDs and three workers give a worker that takes a second job, one that takes
none, and an ID that is still with the feeder when an error comes; one and two IDs
give fewer workers than the concurrency allows; with
`Concurrency` at 3 and fewer workers than IDs, `results` can be fuller than the
number of workers. `osv_fetch_deadline` uses three IDs and the default concurrency,
two. Batches
of two and four packages give a full batch, a short one, two batches and a purl
repeated within and across them; three IDs and two workers leave one with the
feeder when the deadline comes. Databases list an ID for two purls, one twice for
one purl, and more than fit the first page. Two callers are enough for every pair of git
commands to meet; `MaxCommits` bounds pushes, `MaxRenames`, `MaxFaults`,
`MaxKills` and `MaxSilences` count what goes wrong in a whole behaviour, and calls
themselves are not bounded. In `pipeline` the second push revises one file, adds
one and leaves one alone, which are the ways a file can differ between what a
reader listed and what it finds; a fault in the middle of the reset leaves both
versions for the next call. The version strings of `MCPortage` contain for each
field a pair that differs in that field and agrees in the ones before it, and
numbers at `MaxInt` and two beyond it. The advisories of
`MCGenerate` have several entries for a package, architectures that exclude
one or match none, ranges that are not understood before and after the one that decides, no
CVE, and IDs in another order than the file names; the SBOMs a package installed
in two versions, two purls of one module, a purl without a name beside another
one, a relative module path, and versions that cannot be queried, white space
around them; the directory holds a README and a `glsa-` file that is no XML.
`generate_status` has one SBOM and one commit, and nothing else varies but where
the process fails or is killed.

### Fairness

* `OsvFetch`: weak fairness on each goroutine's steps that need nobody's answer;
  the Go scheduler runs a goroutine that can run. Nothing makes the server answer
  (`http.DefaultClient` has no timeout), so `Returns` assumes it as a premise and
  `CancelReleases` does without.
* `OsvQuery`: the program's own steps, and an end of the request once the context
  is done. `OsvClient` has the pool's fairness for the latter, and shows it enough.
* `GlsaSync`: cron calls again, and a git command whose remote answers ends.
  Faults, kills, pushes and the end of a silent connection are not fair.
  `Pipeline` adds that `generate` is run again and again and reads on; nothing
  keeps a sync from overlapping each of its runs.
* `Generate`: the process's steps, the deadline that was set, and the return of
  the OSV stage after it. The first is written with `CanStep` in place of ENABLED.

## Proofs

Every invariant and every action property of the passing runs is stated by a
theorem. Three of them, `FreshOnSuccess`, `ImplementsMirror` and `FreshReport`,
are proved under a condition on the repositories that calls ask for, which their
runs meet and the program does not enforce. Of the three implementations, the
steps of each are proved; `ImplementsQuery` also says something about fairness,
which is model-checked.
The theorems hold for every value of the constants that the named assumptions
allow; there is no bound on packages, advisories, files, callers, faults, kills
or commits in them. All recursion over data is replaced by sets of positions,
least elements and cardinalities, because the prover has no induction to offer.

| Module | Theorems | Assumes |
|---|---|---|
| `OsvFetch_proofs` | `TypeCorrect`, `EachFetchedOnce`, `ChannelsSafe`, `NoLeak`, `AnswerExact`, `AnswerComplete`, `NeverBlocked`, `ErrorStays`, `Implementation` | `SizesAssumption` (an ID at least: an empty slice returns before), `ConcurrencyAssumption` |
| `OsvQuery_proofs` | `TypeCorrect`, `PurlsAskedOnce`, `FindingsComplete`, `CutShortIsConsistent`; about `OsvClient`: `ClientTakesItsSteps`, `ClientCorrect` | `BatchSizeAssumption`, `InputsAssumption`, `DatabasesAssumption` (OSV.dev has an answer for each purl that is asked); `PoolAssumption` for the latter |
| `GlsaSync_proofs` | `TypeCorrect`, `MirrorKept`, `FreshWhenAgreed`, `ImplementationWhenAgreed` | `NamesAssumption`, `FirstHeadAssumption`, `BoundsAssumption` (the counters' bounds are numbers) |
| `Pipeline_proofs` | `PipelineTypeCorrect`, `ReportIsFresh` | `AdvisoriesAssumption` and those of `GlsaSync` |
| `Portage_proofs` | `Preorder`, `Partition`, `Reference` | `CapturesAssumption` (what the regular expression captures are rows of numbers and known suffixes) |
| `Generate_proofs` | `TypeCorrect`, `ErrorKeepsOutputHolds`, `SomethingWasRead`, `PackagesSplit`, `DocumentCanonical`, `DocumentFaithful` | `PlaceAssumption` (words are ordered by distinct places), `PurlAssumption`, `PrefixAssumption`, `SbomsAssumption`, `FilesAssumption`, `UpdatesAssumption`, `OsvAssumption`, and that of `Portage` |

Each module also has its `Invariance`, or what stands for it, from which the
others follow.

**OsvFetch.** None of the invariants is inductive alone. That an answer is exact
depends on where every ID is, and that nothing is left running on the order in
which channels close. `IInv` has three parts: `TypeOK`; `Control`, how the
channels, the workers and the return depend on each other (`results` closes after
the last worker, a worker goes after `jobs` closes, the feeder closes early only
on a done context, an error is kept or still to come); and `Tracking`, that every
ID below `next` is with exactly one of a worker, `results`, `out` or the errors.
`NeverBlocked` counts: the results waiting, the jobs held and the records
collected are of different IDs, so with one more to report there is room left.
Refinement follows from `AnswerFacts`, since only `Return` and
`CallerContextEnds` change what the abstract fetch sees.

**OsvQuery.** `IInv` says at every step that what has been sent is a beginning of
the distinct purls, that what has been answered is the first page of each of them
up to the loop variable (`Asking`), and that what was returned comes from the
records at a beginning of the sorted IDs (`Reported`). `AskedOnce` follows as the
purls are distinct. `FindingsAreComplete` is about numbers: `sortFindings`,
`append` and the filter in `Query` each move positions one to one, so the
findings of an ID for a purl are as many as the pairs of a package with the purl
and a place of the ID in the answer (`CountFacts`). `CutShortConsistently`
follows as the positions are a beginning and the enumeration goes up.

**OsvClient.** `ClientInv` carries `OsvQuery`'s `IInv` along and, while the pool
runs, the `IInv` of `OsvFetch_proofs` for as many IDs as there are, with a pool's
context that ends only after the caller's. Everything the goroutines do leaves
`OsvQuery`'s variables alone; `PoolReturns` is its `FetchReturns` or `FetchFails`,
since what the pool has collected when it is drained is a set `AnswersFor` allows
(`PoolPromise`, from `DrainedFacts`). So `ClientCorrect` has the invariants of
`OsvQuery` for the client as it is, goroutines included.

**GlsaSync.** `IInv` holds whatever calls overlap: `Remotes` (no branch is ahead of
the default branch), `Shape` (a checkout is absent, has only begun, or follows a
branch), `Arrived` (what has been fetched is on the branch that is followed, and
the newest of it is what is tracked), `Places` (one call clones, one writes, and
what it writes is the newest of its repository), `Damage` (a file is lost only
where a branch is followed and some call has failed and not yet made up for it).
`KeepsMirror` follows, by what the step before it can have been: a tree gains a
commit in `ResetStart` only, and a file is lost in `Fault` and `Kill` only, when two
commits are in the tree. `FreshOnSuccess`
and the step simulation of `GlsaMirror` need `Agreed`, that calls which run at one
time ask for one repository, and `Freshness`, what each command of a call has
made sure of. `Agreed` is a premise of these two theorems; without it a call for
another repository can take the checkout away in the middle, and nothing in the
code prevents it.

**Pipeline.** `ReportIsFresh` is proved under "all calls ask for one repository",
as `sync-glsa` is run by one cron job with one `--repo`. `Held` says that no file
in the tree is older than `fresh`, the promise of the last success, and `HasRead`
that each file read so far is as new as what had been promised when the reading
began, or was passed over because a later push is replacing it.

**Portage.** Each of the five comparisons that `compare` goes through yields a
sign that chains: of three operands, two of the signs decide the third. The first
sign of a row of such signs that is not 0 chains too, where the first place is a
least element. The dictionary order of rows is the same argument on numbers.

**Generate.** First the data: what `Load`, `Run`, `RunOSV` and `Build` return for
any arguments, as sets of claims (`Says` for the loop over ranges). Then `GInv`:
what each stage has in its hands (`InputsOK`, `Directory`, `Loading`, `WalkOK`,
`AsRead`, `Matched`, `Written`). `DocumentIsFaithful` compares the claims of the
document with those of the files as they have been, although the sync replaced
some of them in between.

Model-checked only: liveness (`CancelReleases`, `Returns`, `MirrorCatchesUp`,
`CallsReturn`, `PipelineCatchesUp`, `DeadlineReleases`, `Exits`) and the fairness
in `ImplementsQuery`, which the prover does not do; and `FreshOnSuccess` and `ImplementsMirror` for
overlapping calls that ask for two repositories, where they need not hold.

## Not modelled

* Decoding: JSON, XML, the CVE pattern, the characters of a purl or a version,
  percent-encoding. Each is a record, a constant or a file that does not parse.
* The 32 MiB limit of a response (a request that fails), HTTP retries (there are
  none in the code), a record whose ID is not the one that was asked for.
* A `--dest` inside another git working tree, where git commands may find the outer
  `.git`; symbolic links; advisories in subdirectories (the official repository has
  none); several `generate`s with one output file, about which the code and its
  documents promise nothing.
* Flags as cobra parses them, help texts; timestamps, author, the wording of the
  action statement, and the document's hash.
* The slot a package is installed in, which an SBOM does not give.

## Plan

The components are modelled, and the invariants, the action properties and the
steps of the implementations are proved. What is left is a weaker condition than
`Agreed`: overlapping calls for two repositories, where the promise could be about
the repository of the last one that reset.

---- MODULE OsvQuery ----
(***************************************************************************)
(* match.RunOSV and osv.Client.Query: every golang/cargo package of the    *)
(* SBOM becomes a purl to query, the distinct purls are sent in batches,   *)
(* the advisory IDs that come back are fetched once each (OsvFetch, here   *)
(* by its promise), and the records are handed out to the packages again.  *)
(*                                                                         *)
(* A query purl is a natural number, 0 being the empty string (RunOSV      *)
(* builds none, another caller of Query may pass it), and an advisory ID   *)
(* another; both are ordered as the strings they stand for.                *)
(***************************************************************************)
EXTENDS Lists, FetchPromise

CONSTANTS
  Inputs,            \* the package lists the run may start from: sequences of query purls
  Databases,         \* what OSV.dev may know: purl -> [ids, page], the advisory IDs and
                     \* how many of them it puts on the first page of its answer
  CVE(_),            \* Vulnerability.CVE: the first CVE alias of an ID, or the ID
  BatchSize,         \* Client.BatchSize, 0 when not set
  DefaultBatchSize

ASSUME BatchSizeAssumption == BatchSize \in Nat /\ DefaultBatchSize \in Nat \ {0}

ASSUME InputsAssumption == Inputs \subseteq Seq(Nat)

\* OSV.dev has an answer for every purl it may be asked about, the empty one is not.
ASSUME DatabasesAssumption ==
  \A d \in Databases :
    /\ \A in \in Inputs : ToSet(in) \ {0} \subseteq DOMAIN d
    /\ \A p \in DOMAIN d :
         /\ d[p].ids \in Seq(Nat) /\ d[p].page \in 0 .. Len(d[p].ids)
         /\ \A id \in ToSet(d[p].ids) : CVE(id) \in Nat

VARIABLES
  pkgs,        \* Document.OSVPackages, each by its query purl
  db,          \* OSV.dev's content, fixed during the call
  pc,          \* "ask", "wait", "fetch", then "ok" or "error"
  ended,       \* the context's deadline passed or it was cancelled
  unique,      \* Query's deduplicated purls
  start,       \* queryBatch's loop variable, counted from 0
  idsByPurl,   \* the IDs reported for each purl asked so far
  asked,       \* history: the purls of every querybatch request, in order
  findings     \* what RunOSV returns

vars == <<pkgs, db, pc, ended, unique, start, idsByPurl, asked, findings>>

----
\* Slip: the purls already seen are not remembered.
DropEmpty(in) == Select(in, LAMBDA p : p # 0)

\* The purls at the positions where one that is not empty comes for the first time.
dedupeNonEmpty(in) ==
  At(in, {i \in DOMAIN in : in[i] # 0 /\ \A j \in 1 .. i - 1 : in[j] # in[i]})

batchSize == IF BatchSize > 0 THEN BatchSize ELSE DefaultBatchSize

\* purls[start:end] with end clipped to len(purls)
Chunk ==
  SubSeq(unique, start + 1,
         IF start + batchSize > Len(unique) THEN Len(unique) ELSE start + batchSize)

\* Slip: the answers of a batch are paired with the first purls of the list.
PairWithFirst(chunk, ids) == [i \in DOMAIN chunk |-> <<unique[i], ids[i]>>]

\* The answer for a purl: the next page's token is not decoded, nor the page asked for.
FirstPage(p) == SubSeq(db[p].ids, 1, db[p].page)

\* The i-th answer of a batch is about the i-th purl sent in it.
Pair(chunk, ids) == [i \in DOMAIN chunk |-> <<chunk[i], ids[i]>>]

IdSet == UNION {ToSet(idsByPurl[p]) : p \in DOMAIN idsByPurl}

\* Slip: the IDs are not sorted before the fetch.
UnsortedIDs == Sorted(IdSet, >)

uniqueIDs == Sorted(IdSet, <)

\* Query's answer for purl p given the IDs whose records came back: duplicates
\* within one purl's list stay, IDs without a record drop out.
ResultFor(p, fetched) == Arranged(Select(idsByPurl[p], LAMBDA id : id \in fetched), <)

\* A purl left without a record has no entry in the answer.
QueryResult(fetched) ==
  [p \in {q \in DOMAIN idsByPurl : ResultFor(q, fetched) # <<>>} |-> ResultFor(p, fetched)]

FindingLess(f, g) ==
  \/ f.cve < g.cve
  \/ f.cve = g.cve /\ f.purl < g.purl
  \/ f.cve = g.cve /\ f.purl = g.purl /\ f.ref < g.ref

\* For findings of one source.
sortFindings(found) == Arranged(found, FindingLess)

FindingsOf(p, ids) == [i \in DOMAIN ids |-> [cve |-> CVE(ids[i]), purl |-> p, ref |-> ids[i]]]

\* One finding for each record of the package's purl.
PackageFindings(result, p) == IF p \in DOMAIN result THEN FindingsOf(p, result[p]) ELSE <<>>

\* Slip: one finding per purl of the answer instead of one per package.
FindingsPerPurl(result) ==
  ForEach(unique, LAMBDA p : PackageFindings(result, p))

Findings(result) == ForEach(pkgs, LAMBDA p : PackageFindings(result, p))

----
\* RunOSV returns at once without packages, and Query without a non-empty purl.
Init ==
  /\ pkgs \in Inputs
  /\ db \in Databases
  /\ unique = dedupeNonEmpty(pkgs)
  /\ pc = IF unique = <<>> THEN "ok" ELSE "ask"
  /\ ended = FALSE
  /\ start = 0
  /\ idsByPurl = <<>>
  /\ asked = <<>>
  /\ findings = <<>>

\* Slip: the loop runs once more when the last batch was full.
MoreToAskInclusive == start <= Len(unique)

MoreToAsk == start < Len(unique)

StartBatch ==
  /\ pc = "ask"
  /\ MoreToAsk
  /\ ~ended
  /\ pc' = "wait"
  /\ asked' = asked \o Chunk
  /\ UNCHANGED <<pkgs, db, ended, unique, start, idsByPurl, findings>>

\* One answer for each purl sent, in the same order.
BatchOk ==
  /\ pc = "wait"
  /\ LET pairs == Pair(Chunk, [i \in DOMAIN Chunk |-> FirstPage(Chunk[i])])
         told  == [p \in {pairs[i][1] : i \in DOMAIN pairs} |->
                    (CHOOSE x \in ToSet(pairs) : x[1] = p)[2]]
     IN  idsByPurl' = [p \in DOMAIN told \cup DOMAIN idsByPurl |->
                        IF p \in DOMAIN told THEN told[p] ELSE idsByPurl[p]]
  /\ start' = start + batchSize
  /\ pc' = "ask"
  /\ UNCHANGED <<pkgs, db, ended, unique, asked, findings>>

\* Slip: a failed batch is skipped.
BatchSkipped ==
  /\ pc \in {"ask", "wait"}
  /\ MoreToAsk
  /\ start' = start + batchSize
  /\ pc' = "ask"
  /\ UNCHANGED <<pkgs, db, ended, unique, idsByPurl, asked, findings>>

\* Slip: the request is built without the context, so nothing gives it up.
BatchFailsByItself ==
  /\ pc = "wait" /\ ~ended
  /\ pc' = "error"
  /\ UNCHANGED <<pkgs, db, ended, unique, start, idsByPurl, asked, findings>>

\* The request fails, is refused on a done context, or its answer has the wrong length.
BatchFails ==
  /\ pc = "wait" \/ (pc = "ask" /\ MoreToAsk /\ ended)
  /\ pc' = "error"
  /\ UNCHANGED <<pkgs, db, ended, unique, start, idsByPurl, asked, findings>>

StartFetch ==
  /\ pc = "ask"
  /\ ~MoreToAsk
  /\ pc' = "fetch"
  /\ UNCHANGED <<pkgs, db, ended, unique, start, idsByPurl, asked, findings>>

\* The fetch returns the records of the IDs at the given positions.  (Each \E names
\* the one outcome of a stage, for TLC to evaluate it once.)
FetchReturns(positions) ==
  /\ pc = "fetch"
  /\ pc' = "ok"
  /\ \E fetched \in {{uniqueIDs[i] : i \in positions}} : \E result \in {QueryResult(fetched)} :
       \E found \in {Findings(result)} : findings' = sortFindings(found)
  /\ UNCHANGED <<pkgs, db, ended, unique, start, idsByPurl, asked>>

FetchOk == \E positions \in AnswersFor(Cardinality(IdSet), ended) : FetchReturns(positions)

\* Without an ID to fetch, fetchVulnerabilities makes no request.
FetchFails ==
  /\ pc = "fetch"
  /\ IdSet # {}
  /\ pc' = "error"
  /\ UNCHANGED <<pkgs, db, ended, unique, start, idsByPurl, asked, findings>>

ContextEnds ==
  /\ pc \notin {"ok", "error"}
  /\ ~ended
  /\ ended' = TRUE
  /\ UNCHANGED <<pkgs, db, pc, unique, start, idsByPurl, asked, findings>>

Terminated == pc \in {"ok", "error"} /\ UNCHANGED vars

Next ==
  \/ StartBatch \/ BatchOk \/ BatchFails
  \/ StartFetch \/ FetchOk \/ FetchFails
  \/ ContextEnds
  \/ Terminated

(* A request on a done context fails, and the fetch comes back then        *)
(* (OsvFetch!CancelReleases); a live request may take for ever.            *)
Fairness ==
  /\ WF_vars(StartBatch) /\ WF_vars(StartFetch)
  /\ WF_vars(ended /\ (BatchFails \/ FetchFails \/ FetchOk))

Spec == Init /\ [][Next]_vars /\ Fairness

----
Count(s, Test(_)) == Cardinality({i \in DOMAIN s : Test(s[i])})

Purls == ToSet(pkgs) \ {0}

TypeOK ==
  /\ pkgs \in Inputs
  /\ db \in Databases
  /\ pc \in {"ask", "wait", "fetch", "ok", "error"}
  /\ ended \in BOOLEAN
  /\ start \in 0 .. Len(unique) + batchSize - 1
  /\ DOMAIN idsByPurl \subseteq Purls
  /\ \A i \in DOMAIN findings : findings[i].purl \in Purls

(* Without an early end of the context, the result is exactly what OSV.dev *)
(* answered: for each package and each time an ID is listed for its purl,  *)
(* one finding, whatever the batch the purl travelled in and however many  *)
(* packages share it.                                                      *)
FindingsAreComplete ==
  pc = "ok" /\ ~ended =>
    \A p \in Purls, id \in UNION {ToSet(db[q].ids) : q \in Purls} :
      Count(findings, LAMBDA f : f.purl = p /\ f.ref = id)
        = Count(pkgs, LAMBDA q : q = p) * Count(FirstPage(p), LAMBDA x : x = id)

(* A result cut short by the deadline is still consistent: nothing is made *)
(* up, and an advisory missing for one package is missing for every        *)
(* package, as is every advisory with a greater ID.                        *)
CutShortConsistently ==
  pc = "ok" =>
    LET reported == {f.ref : f \in ToSet(findings)}
    IN  /\ \A f \in ToSet(findings) : Contains(FirstPage(f.purl), f.ref)
        /\ \A p \in Purls : \A id \in ToSet(FirstPage(p)) :
             (\E r \in reported : r >= id) =>
               \E f \in ToSet(findings) : f.purl = p /\ f.ref = id

(* No purl is sent twice, in one batch or in two, none is left out of an   *)
(* answered call, and the empty purl is never sent.                        *)
AskedOnce ==
  /\ \A i, j \in DOMAIN asked : asked[i] = asked[j] => i = j
  /\ ToSet(asked) \subseteq Purls
  /\ pc = "ok" /\ Purls # {} => ToSet(asked) = Purls

(* Once the deadline passes the call comes back, whatever it waits for.    *)
DeadlineReleases == ended ~> pc \in {"ok", "error"}

----
(* The comment on Client.Query: "Query returns every OSV.dev vulnerability *)
(* affecting any of purls".  A call that no deadline cuts short should     *)
(* report every advisory OSV.dev lists for a purl.                         *)
ReportsEveryListed ==
  pc = "ok" /\ ~ended =>
    \A p \in Purls : \A id \in ToSet(db[p].ids) :
      \E f \in ToSet(findings) : f.purl = p /\ f.ref = id
====

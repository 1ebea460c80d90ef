---- MODULE OsvFetch ----
(***************************************************************************)
(* osv.Client.fetchVulnerabilities (src/internal/osv/osv.go): one GET per  *)
(* advisory ID, made by a bounded pool of worker goroutines.  Beside the   *)
(* workers run a feeder goroutine (sends the IDs on the unbuffered channel *)
(* jobs), a closer goroutine (closes results once every worker is done)    *)
(* and the caller itself, which collects the results and returns.          *)
(*                                                                         *)
(* An ID is its position in the sorted slice the caller passes.  The       *)
(* context is the one context.WithCancel derives from the caller's: it is  *)
(* live, or it was cancelled by the function itself (first error, or the   *)
(* deferred cancel), or it ended because the caller's did (deadline),      *)
(* which may be so from the start.                                         *)
(***************************************************************************)
EXTENDS Naturals, Sequences

CONSTANTS
  Sizes,               \* how many IDs a call may be for; an empty slice returns before
                       \* any goroutine starts
  Concurrency,         \* Client.VulnFetchConcurrency, 0 when not set
  DefaultConcurrency   \* DefaultVulnFetchConcurrency

ASSUME SizesAssumption == Sizes \subseteq Nat \ {0}
ASSUME ConcurrencyAssumption ==
  /\ Concurrency \in Nat
  /\ DefaultConcurrency \in Nat \ {0}

VARIABLES
  numIds,         \* len(ids)
  ctx,            \* "live", "cancelled" by this function, or "ended" with the caller's
  next,           \* the ID the feeder offers next; numIds + 1 when all were taken
  jobsClosed,     \* the feeder has returned, closing jobs
  pc,             \* where each worker is
  job,            \* the ID each worker holds, 0 for none
  results,        \* the buffered results channel
  resultsClosed,  \* the closer has closed results
  out,            \* the IDs whose records were collected
  firstErr,       \* the ID of the first failed fetch collected, 0 for none
  ret             \* "none" until the function returns, then "ok" or "error"

vars == <<numIds, ctx, next, jobsClosed, pc, job, results, resultsClosed, out, firstErr, ret>>

----
Ids == 1 .. numIds

vulnFetchConcurrency == IF Concurrency > 0 THEN Concurrency ELSE DefaultConcurrency

NumWorkers == IF vulnFetchConcurrency > numIds THEN numIds ELSE vulnFetchConcurrency

Workers == 1 .. NumWorkers

\* Slip: room for one result per worker instead of one per ID.
ResultsCapPerWorker == NumWorkers

\* cap(results): no worker may ever wait for the collector.
ResultsCap == numIds

Result == [id : Ids, ok : BOOLEAN]

Init ==
  /\ numIds \in Sizes
  /\ ctx \in {"live", "ended"}
  /\ next = 1
  /\ jobsClosed = FALSE
  /\ pc = [w \in Workers |-> "range"]
  /\ job = [w \in Workers |-> 0]
  /\ results = <<>>
  /\ resultsClosed = FALSE
  /\ out = {}
  /\ firstErr = 0
  /\ ret = "none"

----
(* The feeder.  Its select takes either ready branch, so it may go on      *)
(* handing out IDs for a while after the context is done.                  *)

\* Slip: the loop runs one ID too far.
HasMorePastEnd == next <= numIds + 1

HasMore == next <= numIds

\* Slip: an ID that was handed out may be offered again.
AdvanceLate == next' \in {next, next + 1}

Advance == next' = next + 1

SendJob(w) ==
  /\ ~jobsClosed
  /\ HasMore
  /\ pc[w] = "range"
  /\ pc' = [pc EXCEPT ![w] = "call"]
  /\ job' = [job EXCEPT ![w] = next]
  /\ Advance
  /\ UNCHANGED <<numIds, ctx, jobsClosed, results, resultsClosed, out, firstErr, ret>>

\* Slip: a default branch in the select, which skips the ID when no worker is ready.
FeederSkips ==
  /\ ~jobsClosed
  /\ HasMore
  /\ Advance
  /\ UNCHANGED <<numIds, ctx, jobsClosed, pc, job, results, resultsClosed, out, firstErr, ret>>

FeederStops ==
  /\ ~jobsClosed
  /\ HasMore
  /\ ctx # "live"
  /\ jobsClosed' = TRUE
  /\ UNCHANGED <<numIds, ctx, next, pc, job, results, resultsClosed, out, firstErr, ret>>

\* Slip: no deferred close(jobs).
FeederDoneWithoutClose == ~jobsClosed /\ ~HasMore /\ UNCHANGED vars

FeederDone ==
  /\ ~jobsClosed
  /\ ~HasMore
  /\ jobsClosed' = TRUE
  /\ UNCHANGED <<numIds, ctx, next, pc, job, results, resultsClosed, out, firstErr, ret>>

----
(* A worker.  A request that starts on a finished context fails at once;   *)
(* one already on the wire may still succeed.                              *)

StartRequest(w) ==
  /\ pc[w] = "call"
  /\ ctx = "live"
  /\ pc' = [pc EXCEPT ![w] = "wait"]
  /\ UNCHANGED <<numIds, ctx, next, jobsClosed, job, results, resultsClosed, out, firstErr, ret>>

\* Worker w sends its result and goes back to ranging over jobs.
Report(w, isOk) ==
  /\ Len(results) < ResultsCap
  /\ results' = Append(results, [id |-> job[w], ok |-> isOk])
  /\ pc' = [pc EXCEPT ![w] = "range"]
  /\ job' = [job EXCEPT ![w] = 0]
  /\ UNCHANGED <<numIds, ctx, next, jobsClosed, resultsClosed, out, firstErr, ret>>

RequestOk(w) == pc[w] = "wait" /\ Report(w, TRUE)

\* Transport error, status other than 200, or a body that does not decode.
RequestFails(w) == pc[w] = "wait" /\ ctx = "live" /\ Report(w, FALSE)

\* Slip: the request is built without the context, so nothing gives it up.
AbortableOnlyBeforeSend == {"call"}

Abortable == {"call", "wait"}

\* Slip: the worker drops an aborted ID and takes the next job.
RequestAbortsSilently(w) ==
  /\ pc[w] \in Abortable
  /\ ctx # "live"
  /\ pc' = [pc EXCEPT ![w] = "range"]
  /\ job' = [job EXCEPT ![w] = 0]
  /\ UNCHANGED <<numIds, ctx, next, jobsClosed, results, resultsClosed, out, firstErr, ret>>

\* The context is done: net/http refuses the request or gives it up.
RequestAborts(w) == pc[w] \in Abortable /\ ctx # "live" /\ Report(w, FALSE)

WorkerDone(w) ==
  /\ pc[w] = "range"
  /\ jobsClosed
  /\ pc' = [pc EXCEPT ![w] = "gone"]
  /\ UNCHANGED <<numIds, ctx, next, jobsClosed, job, results, resultsClosed, out, firstErr, ret>>

----
\* Slip: results is closed when jobs is, without waiting for the workers.
JobsAreGone == jobsClosed

WorkersAreGone == \A w \in Workers : pc[w] = "gone"

\* wg.Wait(); close(results)
CloseResults ==
  /\ ~resultsClosed
  /\ WorkersAreGone
  /\ resultsClosed' = TRUE
  /\ UNCHANGED <<numIds, ctx, next, jobsClosed, pc, job, results, out, firstErr, ret>>

----
(* The collector: the loop over results in the calling goroutine.          *)

CollectOk ==
  /\ ret = "none"
  /\ results # <<>>
  /\ Head(results).ok
  /\ out' = out \cup {Head(results).id}
  /\ results' = Tail(results)
  /\ UNCHANGED <<numIds, ctx, next, jobsClosed, pc, job, resultsClosed, firstErr, ret>>

\* Slips: the error cancels the rest and is dropped; a later one replaces it.
ErrorDropped == firstErr
ErrorReplaced == Head(results).id

ErrorKept == IF firstErr = 0 THEN Head(results).id ELSE firstErr

CollectError ==
  /\ ret = "none"
  /\ results # <<>>
  /\ ~Head(results).ok
  /\ firstErr' = ErrorKept
  /\ ctx' = IF firstErr = 0 /\ ctx = "live" THEN "cancelled" ELSE ctx
  /\ results' = Tail(results)
  /\ UNCHANGED <<numIds, next, jobsClosed, pc, job, resultsClosed, out, ret>>

\* Slip: leave the loop at the first error, without draining results.
DrainedOrFailed == (results = <<>> /\ resultsClosed) \/ firstErr # 0

Drained == results = <<>> /\ resultsClosed

\* The deferred cancel runs as the function returns.
Return ==
  /\ ret = "none"
  /\ Drained
  /\ ret' = IF firstErr = 0 THEN "ok" ELSE "error"
  /\ ctx' = IF ctx = "live" THEN "cancelled" ELSE ctx
  /\ UNCHANGED <<numIds, next, jobsClosed, pc, job, results, resultsClosed, out, firstErr>>

\* The caller's deadline passes or the caller's context is cancelled.
CallerContextEnds ==
  /\ ctx = "live"
  /\ ctx' = "ended"
  /\ UNCHANGED <<numIds, next, jobsClosed, pc, job, results, resultsClosed, out, firstErr, ret>>

\* The call is over and every goroutine it started has returned.
Terminated == ret # "none" /\ UNCHANGED vars

----
Feeder == FeederStops \/ FeederDone \/ \E w \in Workers : SendJob(w)

\* The steps a worker takes without waiting for the server.
WorkerStep(w) == StartRequest(w) \/ RequestAborts(w) \/ WorkerDone(w)

\* The server answers worker w.
ServerAnswers(w) == RequestOk(w) \/ RequestFails(w)

Collector == CollectOk \/ CollectError \/ Return

Next ==
  \/ Feeder
  \/ \E w \in Workers : WorkerStep(w)
  \/ \E w \in Workers : ServerAnswers(w)
  \/ CloseResults
  \/ Collector
  \/ CallerContextEnds
  \/ Terminated

\* All the workers a call may have.
AnyWorker == 1 .. vulnFetchConcurrency

(* The Go scheduler runs every goroutine that can run.  Nothing makes the  *)
(* server answer: http.DefaultClient has no timeout.                       *)
Fairness ==
  /\ WF_vars(Feeder)
  /\ WF_vars(CloseResults)
  /\ WF_vars(Collector)
  /\ \A w \in AnyWorker : WF_vars(w \in Workers /\ WorkerStep(w))

Spec == Init /\ [][Next]_vars /\ Fairness

----
TypeOK ==
  /\ numIds \in Sizes
  /\ ctx \in {"live", "cancelled", "ended"}
  /\ next \in 1 .. numIds + 1
  /\ jobsClosed \in BOOLEAN
  /\ pc \in [Workers -> {"range", "call", "wait", "gone"}]
  /\ job \in [Workers -> 0 .. numIds]
  /\ results \in Seq(Result)
  /\ resultsClosed \in BOOLEAN
  /\ out \subseteq Ids
  /\ firstErr \in 0 .. numIds
  /\ ret \in {"none", "ok", "error"}

Busy == {w \in Workers : pc[w] \in {"call", "wait"}}

(* Every fetch is made once and its result is kept: an ID is held by one   *)
(* worker, sits once in results or was collected, and never two of these.  *)
(* (A second fetch of an ID would be a second GET for one advisory.)       *)
FetchedOnce ==
  /\ \A v, w \in Busy : job[v] = job[w] => v = w
  /\ \A i, j \in 1 .. Len(results) : results[i].id = results[j].id => i = j
  /\ \A w \in Busy : job[w] \notin out /\ job[w] < next
  /\ \A w \in Busy, i \in 1 .. Len(results) : results[i].id # job[w]
  /\ \A i \in 1 .. Len(results) : results[i].id \notin out

(* The error path is the only way to lose an ID: an "ok" answer carries    *)
(* exactly the IDs the feeder handed out, whatever was failing, cancelled  *)
(* or still on the wire meanwhile.                                         *)
AnswerIsWhatWasFed == ret = "ok" => out = 1 .. next - 1

(* An "ok" answer is complete unless the caller's context ended first.     *)
CompleteUnlessEnded == ret = "ok" => out = Ids \/ ctx = "ended"

(* results is large enough: a worker with a result to report never waits   *)
(* for the collector, so none is left blocked when the collector stops.    *)
ReportNeverBlocks == Busy # {} => Len(results) < ResultsCap

(* Nobody sends on a closed channel: once results is closed every worker   *)
(* is gone, and once jobs is closed with a worker gone nothing is offered. *)
NoSendOnClosed ==
  /\ resultsClosed => \A w \in Workers : pc[w] = "gone"
  /\ (\E w \in Workers : pc[w] = "gone") => jobsClosed

(* When the function returns it leaves nothing running behind it: feeder,  *)
(* closer and workers have returned and the derived context is released.   *)
NothingLeftRunning ==
  ret # "none" =>
    /\ jobsClosed
    /\ resultsClosed
    /\ results = <<>>
    /\ ctx # "live"
    /\ \A w \in Workers : pc[w] = "gone" /\ job[w] = 0

(* The first error collected is the one returned, and later results, good  *)
(* or bad, never replace it or turn the answer into a success.             *)
FirstErrorWins ==
  [][firstErr # 0 => firstErr' = firstErr /\ ret' # "ok"]_vars

(* Cancelling releases the call even when the server never answers: from   *)
(* the first error, or the end of the caller's context, it comes back.     *)
CancelReleases == ctx # "live" ~> ret # "none"

(* With a server that answers every request, the call comes back.          *)
Returns ==
  (\A w \in AnyWorker : WF_vars(w \in Workers /\ ServerAnswers(w))) => <>(ret # "none")

----
(* The comment on Client.Query promises "every OSV.dev vulnerability       *)
(* affecting any of purls", and this function's "full Vulnerability        *)
(* records, keyed by ID", for every ID: an answer without an error should  *)
(* hold them all.                                                          *)
ReturnsEveryRecord == ret = "ok" => out = Ids

(* The pool implements the one-step promise of OsvFetchAbs.                *)
Abs == INSTANCE OsvFetchAbs WITH
  ended <- ctx = "ended",
  verdict <- ret,
  records <- IF ret = "ok" THEN out ELSE {}

ImplementsAbs == Abs!Spec
====

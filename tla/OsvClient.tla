---- MODULE OsvClient ----
(***************************************************************************)
(* RunOSV, Query and the worker pool together: OsvQuery with the one-step  *)
(* fetch replaced by the goroutines of OsvFetch.  The pool is started when *)
(* every batch has been answered, on a context derived from the caller's,  *)
(* and Query goes on with what it returns.  The composition implements     *)
(* OsvQuery.                                                               *)
(***************************************************************************)
EXTENDS OsvQuery

CONSTANTS
  Concurrency, DefaultConcurrency  \* as in OsvFetch

ASSUME PoolAssumption == Concurrency \in Nat /\ DefaultConcurrency \in Nat \ {0}

\* The state of the pool, by the names of OsvFetch; workerPc is its pc.
VARIABLES
  ctx, next, jobsClosed, workerPc, job, results, resultsClosed, out, firstErr, ret

pool == <<ctx, next, jobsClosed, workerPc, job, results, resultsClosed, out, firstErr, ret>>

Fetch == INSTANCE OsvFetch WITH
  Sizes <- Nat \ {0},
  numIds <- Cardinality(IdSet),
  pc <- workerPc

\* The pool runs.
Fetching == pc = "fetch" /\ IdSet # {}

ClientInit ==
  /\ Init
  /\ ctx = "live" /\ next = 1 /\ jobsClosed = FALSE
  /\ workerPc = <<>> /\ job = <<>>
  /\ results = <<>> /\ resultsClosed = FALSE
  /\ out = {} /\ firstErr = 0 /\ ret = "none"

----
\* Slip: the pool's context is derived from context.Background().
DerivedFromBackground == "live"

\* context.WithCancel: a context derived from one that is done is done.
Derived == IF ended THEN "ended" ELSE "live"

Batches == (StartBatch \/ BatchOk \/ BatchFails) /\ UNCHANGED pool

\* Query has the IDs and calls fetchVulnerabilities, which starts its goroutines.
StartPool ==
  /\ StartFetch
  /\ ctx' = Derived
  /\ workerPc' = [w \in IF IdSet = {} THEN {} ELSE Fetch!Workers |-> "range"]
  /\ job' = [w \in DOMAIN workerPc' |-> 0]
  /\ UNCHANGED <<next, jobsClosed, results, resultsClosed, out, firstErr, ret>>

\* fetchVulnerabilities returns at once when there is nothing to fetch.
NothingToFetch == IdSet = {} /\ FetchReturns({}) /\ UNCHANGED pool

FeederStep == Fetching /\ UNCHANGED vars /\ Fetch!Feeder

WorkerSteps(w) == Fetching /\ UNCHANGED vars /\ w \in Fetch!Workers /\ Fetch!WorkerStep(w)

ServerStep(w) == Fetching /\ UNCHANGED vars /\ w \in Fetch!Workers /\ Fetch!ServerAnswers(w)

CloserStep == Fetching /\ UNCHANGED vars /\ Fetch!CloseResults

CollectorStep == Fetching /\ UNCHANGED vars /\ (Fetch!CollectOk \/ Fetch!CollectError)

\* The pool returns, and Query hands its records out or returns its error.
PoolReturns ==
  /\ Fetching /\ Fetch!Drained
  /\ IF firstErr = 0 THEN FetchReturns(out) ELSE FetchFails
  /\ Fetch!Return

\* The caller's context ends, and with it the pool's.
DeadlineEnds ==
  /\ ContextEnds
  /\ IF pc = "fetch" /\ ctx = "live"
     THEN ctx' = "ended" /\ UNCHANGED <<next, jobsClosed, workerPc, job, results, resultsClosed,
                                        out, firstErr, ret>>
     ELSE UNCHANGED pool

Finished == Terminated /\ UNCHANGED pool

ClientNext ==
  \/ Batches \/ StartPool \/ NothingToFetch
  \/ FeederStep \/ CloserStep \/ CollectorStep \/ PoolReturns
  \/ \E w \in Fetch!AnyWorker : WorkerSteps(w) \/ ServerStep(w)
  \/ DeadlineEnds \/ Finished

(* The caller's goroutine goes on, a batch on a done context fails, and    *)
(* the pool is as fair as OsvFetch says.                                   *)
ClientFairness ==
  LET all == <<vars, pool>>
  IN  /\ WF_all(StartBatch /\ UNCHANGED pool)
      /\ WF_all(ended /\ BatchFails /\ UNCHANGED pool)
      /\ WF_all(StartPool \/ NothingToFetch \/ CollectorStep \/ PoolReturns)
      /\ WF_all(FeederStep) /\ WF_all(CloserStep)
      /\ \A w \in Fetch!AnyWorker : WF_all(WorkerSteps(w))

ClientSpec == ClientInit /\ [][ClientNext]_<<vars, pool>> /\ ClientFairness

----
(* The pool keeps what Query takes from it: with the goroutines in place,  *)
(* every behaviour of the client is one of OsvQuery, down to its coming    *)
(* back once the deadline has passed.  (The deadline may come in a batch,  *)
(* between the last batch and the pool, or in the middle of the pool.)     *)
ImplementsQuery == Spec
====

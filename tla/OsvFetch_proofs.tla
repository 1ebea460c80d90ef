---- MODULE OsvFetch_proofs ----
(***************************************************************************)
(* Proofs about OsvFetch for every number of IDs and every concurrency:    *)
(* its invariants, the action property FirstErrorWins, and that each step  *)
(* of the pool is a step of OsvFetchAbs or a stutter.                      *)
(***************************************************************************)
EXTENDS OsvFetch, FiniteSetTheorems, TLAPS

(***************************************************************************)
(* The inductive invariant, in two layers above TypeOK.  Control is about  *)
(* the order in which context, channels and goroutines shut down; Tracking *)
(* is about where every ID is.                                             *)
(***************************************************************************)
Control ==
  /\ NoSendOnClosed
  /\ \A w \in Workers : w \in Busy <=> job[w] # 0
  /\ ret # "none" => resultsClosed /\ results = <<>> /\ ctx # "live"
  /\ ret = "ok" => firstErr = 0
  /\ ctx = "cancelled" => firstErr # 0 \/ ret # "none"
  /\ jobsClosed /\ firstErr = 0 /\ next <= numIds => ctx = "ended"

\* An ID that left the feeder is with a worker, in results, or collected.
Located(k) ==
  \/ k \in out
  \/ \E w \in Busy : job[w] = k
  \/ \E i \in 1 .. Len(results) : results[i].id = k

Tracking ==
  /\ FetchedOnce
  /\ \A i \in 1 .. Len(results) : results[i].id < next
  /\ \A k \in out : k < next
  /\ firstErr = 0 => \A k \in 1 .. next - 1 : Located(k)

IInv == TypeOK /\ Control /\ Tracking
----
(* Facts about the constants and the channel.                              *)

\* The pool has at least one worker and never more than there are IDs.
LEMMA WorkersNonempty ==
  ASSUME numIds \in Sizes
  PROVE  /\ numIds \in Nat \ {0}
         /\ 1 \in Workers /\ NumWorkers \in 1 .. numIds
BY SizesAssumption, ConcurrencyAssumption DEF Workers, NumWorkers, vulnFetchConcurrency

\* A call is for the same IDs, with the same workers, until it returns.
LEMMA CallStays ==
  ASSUME IInv, [Next]_vars
  PROVE  /\ numIds \in Nat \ {0} /\ 1 \in Workers
         /\ numIds' = numIds /\ Ids' = Ids /\ Workers' = Workers /\ Result' = Result
<1>1. numIds' = numIds
  BY DEF Next, Feeder, WorkerStep, ServerAnswers, Collector, Terminated, vars,
         SendJob, FeederStops, FeederDone, StartRequest, RequestOk, RequestFails,
         RequestAborts, Report, WorkerDone, CloseResults, CollectOk, CollectError,
         Return, CallerContextEnds
<1>2. numIds \in Nat \ {0} /\ 1 \in Workers
  BY WorkersNonempty DEF IInv, TypeOK
<1> QED BY <1>1, <1>2 DEF Workers, NumWorkers, Ids, Result

\* Sending puts one result behind the ones already buffered.
LEMMA SendFacts ==
  ASSUME NEW s \in Seq(Result), NEW r \in Result
  PROVE  /\ Append(s, r) \in Seq(Result)
         /\ Len(s) \in Nat
         /\ Len(Append(s, r)) = Len(s) + 1
         /\ \A i \in 1 .. Len(s) : Append(s, r)[i] = s[i]
         /\ Append(s, r)[Len(s) + 1] = r
OBVIOUS

\* Receiving takes the first result and moves the others up.
LEMMA ReceiveFacts ==
  ASSUME NEW s \in Seq(Result), s # <<>>
  PROVE  /\ Head(s) = s[1]
         /\ Head(s) \in Result
         /\ Tail(s) \in Seq(Result)
         /\ Len(s) \in Nat
         /\ Len(s) >= 1
         /\ Len(Tail(s)) = Len(s) - 1
         /\ \A i \in 1 .. Len(s) - 1 : Tail(s)[i] = s[i + 1]
OBVIOUS

----
(* Every step preserves the types.                                         *)

\* Every variable keeps its type: no ID outside the slice is ever handed
\* out, reported, collected or returned as the failed one.
LEMMA TypeStep == IInv /\ [Next]_vars => TypeOK'
<1> SUFFICES ASSUME IInv, [Next]_vars PROVE TypeOK'
  OBVIOUS
<1>0. /\ numIds \in Nat \ {0} /\ numIds' = numIds
      /\ Ids' = Ids /\ Workers' = Workers /\ Result' = Result
  BY CallStays
<1> USE <1>0 DEF IInv, TypeOK, Ids
<1>1. CASE UNCHANGED vars
  BY <1>1 DEF vars
<1>2. ASSUME NEW w \in Workers, SendJob(w) PROVE TypeOK'
  BY <1>2 DEF SendJob, HasMore, Advance
<1>3. CASE FeederStops \/ FeederDone
  BY <1>3 DEF FeederStops, FeederDone
<1>4. ASSUME NEW w \in Workers, StartRequest(w) PROVE TypeOK'
  BY <1>4 DEF StartRequest
<1>5. ASSUME NEW w \in Busy, NEW b \in BOOLEAN, Report(w, b) PROVE TypeOK'
  <2>1. w \in Workers /\ job[w] \in Ids
    BY <1>5 DEF Busy, Control
  <2>2. [id |-> job[w], ok |-> b] \in Result
    BY <2>1 DEF Result
  <2> QED
    BY <1>5, <2>1, <2>2, SendFacts DEF Report
<1>6. ASSUME NEW w \in Workers, WorkerDone(w) PROVE TypeOK'
  BY <1>6 DEF WorkerDone
<1>7. CASE CloseResults
  BY <1>7 DEF CloseResults
<1>8. CASE CollectOk \/ CollectError
  <2>1. Head(results) \in Result /\ Tail(results) \in Seq(Result)
    BY <1>8, ReceiveFacts DEF CollectOk, CollectError
  <2>2. Head(results).id \in Ids
    BY <2>1 DEF Result
  <2>3. CASE CollectOk
    BY <2>1, <2>2, <2>3 DEF CollectOk
  <2>4. CASE CollectError
    BY <2>1, <2>2, <2>4 DEF CollectError, ErrorKept
  <2> QED
    BY <1>8, <2>3, <2>4
<1>9. CASE Return \/ CallerContextEnds
  BY <1>9 DEF Return, CallerContextEnds
<1> QED
  BY <1>1, <1>2, <1>3, <1>4, <1>5, <1>6, <1>7, <1>8, <1>9
  DEF Next, Feeder, WorkerStep, ServerAnswers, Collector, Terminated,
      RequestOk, RequestFails, RequestAborts, Abortable, Busy

----
(* Every step preserves the order of shutdown.                             *)

\* Cancellation, the closing of the two channels and the return keep their
\* order, whichever of context, feeder, workers or collector stops first.
LEMMA ControlStep == IInv /\ [Next]_vars => Control'
<1> SUFFICES ASSUME IInv, [Next]_vars PROVE Control'
  OBVIOUS
<1>0. /\ numIds \in Nat \ {0} /\ 1 \in Workers /\ numIds' = numIds
      /\ Ids' = Ids /\ Workers' = Workers /\ Result' = Result
  BY CallStays
<1> USE <1>0 DEF IInv, TypeOK, Ids, Control, NoSendOnClosed, Busy
<1>1. CASE UNCHANGED vars
  BY <1>1 DEF vars
<1>2. ASSUME NEW w \in Workers, SendJob(w) PROVE Control'
  BY <1>2 DEF SendJob, HasMore, Advance
<1>3. CASE FeederStops \/ FeederDone
  BY <1>3 DEF FeederStops, FeederDone, HasMore
<1>4. ASSUME NEW w \in Workers, StartRequest(w) PROVE Control'
  BY <1>4 DEF StartRequest
<1>5. ASSUME NEW w \in Busy, NEW b \in BOOLEAN, Report(w, b) PROVE Control'
  BY <1>5 DEF Report
<1>6. ASSUME NEW w \in Workers, WorkerDone(w) PROVE Control'
  BY <1>6 DEF WorkerDone
<1>7. CASE CloseResults
  BY <1>7 DEF CloseResults, WorkersAreGone
<1>8. CASE CollectOk \/ CollectError
  <2>1. Head(results) \in Result /\ Tail(results) \in Seq(Result)
    BY <1>8, ReceiveFacts DEF CollectOk, CollectError
  <2> QED
    BY <1>8, <2>1 DEF CollectOk, CollectError, ErrorKept, Result
<1>9. CASE Return \/ CallerContextEnds
  BY <1>9 DEF Return, CallerContextEnds, Drained
<1> QED
  BY <1>1, <1>2, <1>3, <1>4, <1>5, <1>6, <1>7, <1>8, <1>9
  DEF Next, Feeder, WorkerStep, ServerAnswers, Collector, Terminated,
      RequestOk, RequestFails, RequestAborts, Abortable

----
(* Every step keeps track of every ID.                                     *)

\* No step loses an ID without recording an error, and none puts one ID in
\* two places: two workers, two results, or collected and still out.
LEMMA TrackingStep == IInv /\ [Next]_vars => Tracking'
<1> SUFFICES ASSUME IInv, [Next]_vars PROVE Tracking'
  OBVIOUS
<1>0. /\ results \in Seq(Result) /\ Len(results) \in Nat
      /\ next \in 1 .. numIds + 1 /\ job \in [Workers -> 0 .. numIds]
      /\ pc \in [Workers -> {"range", "call", "wait", "gone"}]
  BY DEF IInv, TypeOK
<1>a. Tracking
  BY DEF IInv
<1>b. /\ out \subseteq Ids
      /\ \A i \in 1 .. Len(results) : results[i].id \in Ids
  <2>1. \A i \in 1 .. Len(results) : results[i] \in Result
    BY <1>0
  <2>2. \A r \in Result : r.id \in Ids
    BY DEF Result
  <2> QED
    BY <2>1, <2>2 DEF IInv, TypeOK
<1>c. /\ numIds \in Nat \ {0} /\ numIds' = numIds
      /\ Ids' = Ids /\ Workers' = Workers /\ Result' = Result
  BY CallStays
<1> USE <1>c DEF Tracking, FetchedOnce, Located
<1>1. ASSUME UNCHANGED <<next, job, pc, results, out, firstErr>> PROVE Tracking'
  BY <1>1, <1>a DEF Busy
<1>2. ASSUME NEW w \in Workers, SendJob(w) PROVE Tracking'
  <2>1. /\ Busy' = Busy \cup {w} /\ w \notin Busy
        /\ job'[w] = next /\ \A v \in Busy : job'[v] = job[v]
        /\ next' = next + 1
        /\ UNCHANGED <<results, out, firstErr>>
    BY <1>0, <1>2 DEF SendJob, Advance, Busy
  <2>2. \A v \in Busy : job[v] < next /\ next # job[v]
    BY <1>0, <1>a DEF Busy
  <2>3. FetchedOnce'
    <3>1. \A u, v \in Busy' : job'[u] = job'[v] => u = v
      BY <1>a, <2>1, <2>2
    <3>2. \A v \in Busy' : job'[v] \notin out' /\ job'[v] < next'
      <4>1. next \notin out /\ next < next + 1
        BY <1>0, <1>a
      <4>2. \A v \in Busy : job[v] < next + 1
        BY <1>0, <1>a DEF Busy
      <4> QED
        BY <1>a, <2>1, <4>1, <4>2
    <3>3. \A v \in Busy', i \in 1 .. Len(results') : results'[i].id # job'[v]
      BY <1>0, <1>a, <2>1
    <3> QED
      BY <1>a, <2>1, <3>1, <3>2, <3>3
  <2>4. ASSUME firstErr = 0, NEW k \in 1 .. next' - 1 PROVE Located(k)'
    <3>1. CASE k = next
      BY <3>1, <2>1
    <3>2. CASE k # next
      <4>1. k \in 1 .. next - 1
        BY <1>0, <2>1, <3>2
      <4>2. Located(k)
        BY <1>a, <2>4, <4>1
      <4>3. CASE \E v \in Busy : job[v] = k
        BY <2>1, <4>3
      <4> QED
        BY <2>1, <4>2, <4>3
    <3> QED
      BY <3>1, <3>2
  <2>5. /\ \A i \in 1 .. Len(results') : results'[i].id < next'
        /\ \A k \in out' : k < next'
    BY <1>0, <1>a, <1>b, <2>1 DEF Ids
  <2> QED
    BY <2>1, <2>3, <2>4, <2>5
<1>3. ASSUME NEW w \in Workers, StartRequest(w) PROVE Tracking'
  <2>1. Busy' = Busy /\ UNCHANGED <<next, job, results, out, firstErr>>
    BY <1>0, <1>3 DEF StartRequest, Busy
  <2> QED
    BY <1>a, <2>1
<1>4. ASSUME NEW w \in Workers, WorkerDone(w) PROVE Tracking'
  <2>1. Busy' = Busy /\ UNCHANGED <<next, job, results, out, firstErr>>
    BY <1>0, <1>4 DEF WorkerDone, Busy
  <2> QED
    BY <1>a, <2>1
<1>5. ASSUME NEW w \in Busy, NEW b \in BOOLEAN, Report(w, b) PROVE Tracking'
  <2> DEFINE r == [id |-> job[w], ok |-> b]
  <2>1. /\ Busy' = Busy \ {w} /\ \A v \in Busy' : job'[v] = job[v]
        /\ UNCHANGED <<next, out, firstErr>> /\ results' = Append(results, r)
    BY <1>0, <1>5 DEF Report, Busy
  <2>2. r \in Result /\ r.id = job[w]
    BY <1>0, <1>5 DEF Result, Ids, Busy, Control, IInv
  <2>3. /\ Len(results') = Len(results) + 1
        /\ \A i \in 1 .. Len(results) : results'[i] = results[i]
        /\ results'[Len(results) + 1] = r
    BY <1>0, <2>1, <2>2, SendFacts
  <2> HIDE DEF r
  <2>4. FetchedOnce'
    <3>1. \A u, v \in Busy' : job'[u] = job'[v] => u = v
      BY <1>a, <2>1
    <3>2. \A i, j \in 1 .. Len(results') : results'[i].id = results'[j].id => i = j
      BY <1>0, <1>a, <2>2, <2>3
    <3>3. \A v \in Busy' : job'[v] \notin out' /\ job'[v] < next'
      BY <1>a, <2>1
    <3>4. \A v \in Busy', i \in 1 .. Len(results') : results'[i].id # job'[v]
      BY <1>0, <1>5, <1>a, <2>1, <2>2, <2>3
    <3>5. \A i \in 1 .. Len(results') : results'[i].id \notin out'
      BY <1>0, <1>5, <1>a, <2>1, <2>2, <2>3
    <3> QED
      BY <3>1, <3>2, <3>3, <3>4, <3>5
  <2>5. \A i \in 1 .. Len(results') : results'[i].id < next'
    BY <1>0, <1>5, <1>a, <2>1, <2>2, <2>3
  <2>6. ASSUME NEW k \in 1 .. next - 1, Located(k) PROVE Located(k)'
    <3>1. CASE k \in out
      BY <3>1, <2>1
    <3>2. CASE \E v \in Busy : job[v] = k
      BY <3>2, <1>0, <2>1, <2>2, <2>3
    <3>3. CASE \E i \in 1 .. Len(results) : results[i].id = k
      BY <3>3, <1>0, <2>3
    <3> QED
      BY <2>6, <3>1, <3>2, <3>3
  <2> QED
    BY <1>a, <2>1, <2>4, <2>5, <2>6
<1>6. ASSUME CollectOk \/ CollectError PROVE Tracking'
  <2> DEFINE r == Head(results)
  <2>1. /\ r = results[1] /\ r.id \in Ids
        /\ Len(results) >= 1 /\ Len(results') = Len(results) - 1
        /\ \A i \in 1 .. Len(results') : results'[i] = results[i + 1]
    <3>1. results # <<>> /\ results' = Tail(results)
      BY <1>6 DEF CollectOk, CollectError
    <3>2. r \in Result
      BY <1>0, <3>1, ReceiveFacts
    <3>3. r.id \in Ids
      BY <3>2 DEF Result
    <3> QED
      BY <1>0, <3>1, <3>3, ReceiveFacts
  <2>2. Busy' = Busy /\ UNCHANGED <<next, job>>
    BY <1>6 DEF CollectOk, CollectError, Busy
  <2>3. \/ out' = out /\ firstErr' # 0
        \/ out' = out \cup {r.id} /\ firstErr' = firstErr
    BY <1>0, <1>6, <2>1 DEF CollectOk, CollectError, ErrorKept, Ids
  <2> HIDE DEF r
  <2>a. \A i \in 1 .. Len(results') : i \in 1 .. Len(results) /\ i + 1 \in 1 .. Len(results)
    BY <1>0, <2>1
  <2>b. 1 \in 1 .. Len(results)
    BY <1>0, <2>1
  <2>4. FetchedOnce'
    <3>1. ASSUME NEW i \in 1 .. Len(results'), NEW j \in 1 .. Len(results'),
                 results'[i].id = results'[j].id
          PROVE  i = j
      <4>1. i + 1 = j + 1
        BY <1>a, <2>1, <2>a, <3>1
      <4> QED
        BY <4>1
    <3>2. \A v \in Busy' : job'[v] \notin out' /\ job'[v] < next'
      BY <1>a, <2>1, <2>2, <2>3, <2>b
    <3>3. ASSUME NEW v \in Busy', NEW i \in 1 .. Len(results')
          PROVE  results'[i].id # job'[v]
      <4>1. v \in Busy /\ i + 1 \in 1 .. Len(results)
        BY <2>2, <2>a
      <4>2. results[i + 1].id # job[v]
        BY <1>a, <4>1
      <4> QED
        BY <2>1, <2>2, <4>2
    <3>4. ASSUME NEW i \in 1 .. Len(results')
          PROVE  results'[i].id # r.id
      <4>1. i + 1 \in 1 .. Len(results) /\ i + 1 # 1
        BY <2>a
      <4>2. results[i + 1].id # results[1].id
        BY <1>a, <2>b, <4>1
      <4> QED
        BY <2>1, <4>2
    <3>5. ASSUME NEW i \in 1 .. Len(results')
          PROVE  results'[i].id \notin out'
      <4>1. results[i + 1].id \notin out
        BY <1>a, <2>a
      <4> QED
        BY <2>1, <2>3, <3>4, <4>1
    <3> QED
      BY <1>a, <2>2, <3>1, <3>2, <3>3, <3>5
  <2>5. /\ \A i \in 1 .. Len(results') : results'[i].id < next'
        /\ \A k \in out' : k < next'
    BY <1>a, <2>1, <2>2, <2>3, <2>a, <2>b
  <2>6. ASSUME firstErr' = 0, NEW k \in 1 .. next - 1 PROVE Located(k)'
    <3>0. Located(k) /\ out' = out \cup {r.id}
      BY <1>a, <2>3, <2>6
    <3>1. CASE k \in out \/ \E v \in Busy : job[v] = k
      BY <3>0, <3>1, <2>2
    <3>2. ASSUME NEW i \in 1 .. Len(results), results[i].id = k PROVE Located(k)'
      <4>1. CASE i = 1
        BY <4>1, <3>0, <3>2, <2>1
      <4>2. CASE i # 1
        <5>1. i - 1 \in 1 .. Len(results') /\ results'[i - 1].id = k
          BY <4>2, <3>2, <1>0, <2>1
        <5> QED
          BY <5>1
      <4> QED
        BY <4>1, <4>2
    <3> QED
      BY <3>0, <3>1, <3>2
  <2> QED
    BY <2>2, <2>4, <2>5, <2>6
<1> QED
  BY <1>1, <1>2, <1>3, <1>4, <1>5, <1>6
  DEF Next, Feeder, WorkerStep, ServerAnswers, Collector, Terminated, vars,
      RequestOk, RequestFails, RequestAborts, Abortable, Busy,
      FeederStops, FeederDone, CloseResults, Return, CallerContextEnds

----
(* The theorems.                                                           *)

\* The initial state satisfies the inductive invariant.
LEMMA InvInit == Init => IInv
<1> SUFFICES ASSUME Init PROVE IInv
  OBVIOUS
<1>0. numIds \in Sizes /\ numIds \in Nat \ {0} /\ 1 \in Workers
  BY WorkersNonempty DEF Init
<1> USE <1>0
<1>1. TypeOK
  <2>1. <<>> \in Seq(Result)
    OBVIOUS
  <2>2. 0 \in 0 .. numIds /\ 1 \in 1 .. numIds + 1
    OBVIOUS
  <2> QED
    BY <2>1, <2>2 DEF Init, TypeOK
<1>2. Control
  BY DEF Init, Control, NoSendOnClosed, Busy
<1>3. Tracking
  BY DEF Init, Tracking, FetchedOnce, Busy
<1> QED
  BY <1>1, <1>2, <1>3 DEF IInv

\* The inductive invariant holds throughout every call.
THEOREM Invariance == Spec => []IInv
<1>1. IInv /\ [Next]_vars => IInv'
  BY TypeStep, ControlStep, TrackingStep DEF IInv
<1> QED
  BY InvInit, <1>1, PTL DEF Spec

\* Every variable of the pool keeps its type, for any number of IDs and any
\* concurrency: only IDs of the slice are fetched, reported and collected.
THEOREM TypeCorrect == Spec => []TypeOK
BY Invariance, PTL DEF IInv

\* No two workers, results or collected records are ever about one ID.
THEOREM EachFetchedOnce == Spec => []FetchedOnce
<1>1. IInv => FetchedOnce
  BY DEF IInv, Tracking
<1> QED
  BY Invariance, <1>1, PTL

\* No worker sends on results, and the feeder none on jobs, once closed.
THEOREM ChannelsSafe == Spec => []NoSendOnClosed
<1>1. IInv => NoSendOnClosed
  BY DEF IInv, Control
<1> QED
  BY Invariance, <1>1, PTL

\* The function returns only when all it started has stopped.
THEOREM NoLeak == Spec => []NothingLeftRunning
<1>1. IInv => NothingLeftRunning
  BY WorkersNonempty DEF IInv, Control, NoSendOnClosed, NothingLeftRunning, Busy, TypeOK
<1> QED
  BY Invariance, <1>1, PTL

\* Every buffered result is about another ID than the one a busy worker holds, so
\* counting them shows that one more fits.
LEMMA RoomForResult == IInv => ReportNeverBlocks
<1> SUFFICES ASSUME IInv, NEW w \in Busy PROVE Len(results) < ResultsCap
  BY DEF ReportNeverBlocks
<1> DEFINE others == Ids \ {job[w]}
           at == [i \in 1 .. Len(results) |-> results[i].id]
<1>0. numIds \in Nat \ {0}
  BY WorkersNonempty DEF IInv, TypeOK
<1>1. results \in Seq(Result) /\ Len(results) \in Nat /\ job[w] \in Ids
  BY <1>0 DEF IInv, TypeOK, Control, Busy, Ids
<1>2. at \in Injection(1 .. Len(results), others)
  <2>1. \A i \in 1 .. Len(results) : results[i].id \in others
    <3>1. \A i \in 1 .. Len(results) : results[i] \in Result /\ results[i].id # job[w]
      BY <1>1 DEF IInv, Tracking, FetchedOnce
    <3> QED
      BY <3>1 DEF Result
  <2>2. \A i, j \in 1 .. Len(results) : at[i] = at[j] => i = j
    BY DEF IInv, Tracking, FetchedOnce
  <2> QED
    BY <2>1, <2>2 DEF Injection, IsInjective
<1>3. IsFiniteSet(others) /\ Cardinality(others) = numIds - 1
  <2>1. IsFiniteSet(Ids) /\ Cardinality(Ids) = numIds
    BY <1>0, FS_Interval DEF Ids
  <2> QED
    BY <1>1, <2>1, FS_RemoveElement
<1>4. Cardinality(1 .. Len(results)) = Len(results)
  BY <1>1, FS_Interval
<1>5. Cardinality(1 .. Len(results)) <= Cardinality(others)
  BY <1>2, <1>3, FS_Injection
<1> QED
  BY <1>0, <1>1, <1>3, <1>4, <1>5 DEF ResultsCap

\* A worker with a result never waits for the collector, however many workers
\* and IDs there are.
THEOREM NeverBlocked == Spec => []ReportNeverBlocks
BY Invariance, RoomForResult, PTL

\* What has been collected when results is drained and no error came.
LEMMA DrainedFacts ==
  ASSUME IInv, Drained, firstErr = 0
  PROVE  /\ next - 1 \in 0 .. numIds /\ out = 1 .. next - 1
         /\ out = Ids \/ ctx = "ended"
<1>0. numIds \in Nat \ {0} /\ 1 \in Workers
  BY WorkersNonempty DEF IInv, TypeOK
<1>1. /\ Busy = {} /\ results = <<>> /\ jobsClosed
  BY <1>0 DEF IInv, Control, NoSendOnClosed, Busy, Drained
<1>2. next \in 1 .. numIds + 1 /\ out \subseteq 1 .. numIds
  BY DEF IInv, TypeOK, Ids
<1>3. \A k \in 1 .. next - 1 : k \in out
  BY <1>1 DEF IInv, Tracking, Located
<1>4. \A k \in out : k < next
  BY DEF IInv, Tracking
<1>5. out = 1 .. next - 1
  <2>1. \A k \in out : k \in 1 .. next - 1
    BY <1>0, <1>2, <1>4
  <2> QED
    BY <1>3, <2>1
<1>6. next <= numIds => ctx = "ended"
  BY <1>1 DEF IInv, Control
<1> QED
  BY <1>0, <1>2, <1>5, <1>6 DEF Ids

\* What the invariant says of an answer without an error.
LEMMA AnswerFacts == IInv => AnswerIsWhatWasFed /\ CompleteUnlessEnded
<1> SUFFICES ASSUME IInv, ret = "ok"
             PROVE  out = 1 .. next - 1 /\ (out = Ids \/ ctx = "ended")
  BY DEF AnswerIsWhatWasFed, CompleteUnlessEnded
<1>1. Drained /\ firstErr = 0
  BY DEF IInv, Control, Drained
<1> QED
  BY <1>1, DrainedFacts

\* An answer without an error carries exactly the IDs that were handed out.
THEOREM AnswerExact == Spec => []AnswerIsWhatWasFed
BY Invariance, AnswerFacts, PTL

\* An answer without an error is complete unless the caller's context ended.
THEOREM AnswerComplete == Spec => []CompleteUnlessEnded
BY Invariance, AnswerFacts, PTL

\* The first error collected is never replaced, nor answered with a success.
THEOREM ErrorStays == Spec => FirstErrorWins
<1>1. IInv /\ [Next]_vars => [firstErr # 0 => firstErr' = firstErr /\ ret' # "ok"]_vars
  <2> SUFFICES ASSUME IInv, Next, firstErr # 0
               PROVE  firstErr' = firstErr /\ ret' # "ok"
    BY DEF vars
  <2>1. ret # "ok"
    BY DEF IInv, Control
  <2> QED
    BY <2>1
    DEF Next, Feeder, WorkerStep, ServerAnswers, Collector, Terminated, vars,
        SendJob, FeederStops, FeederDone, StartRequest, RequestOk, RequestFails,
        RequestAborts, Report, WorkerDone, CloseResults, CollectOk, CollectError,
        ErrorKept, Return, CallerContextEnds
<1> QED
  BY Invariance, <1>1, PTL DEF Spec, FirstErrorWins

\* Hidden behind its caller's view, every step of the pool is a step of the
\* abstract fetch or none at all.
THEOREM Implementation == Spec => ImplementsAbs
<1>1. Init => Abs!Init
  BY DEF Init, Abs!Init
<1>2. IInv /\ [Next]_vars => [Abs!Next]_(Abs!vars)
  <2> SUFFICES ASSUME IInv, [Next]_vars PROVE [Abs!Next]_(Abs!vars)
    OBVIOUS
  <2> DEFINE view == <<ctx, ret, out>>
  <2>0. numIds' = numIds
    BY CallStays
  <2>1. CASE Return
    <3>1. ret = "none" /\ (ctx = "ended" <=> ctx' = "ended") /\ out' = out
      BY <2>1 DEF Return
    <3>2. CASE firstErr # 0
      <4>1. ret' = "error"
        BY <2>1, <3>2 DEF Return
      <4>2. Abs!Fail
        BY <2>0, <3>1, <4>1 DEF Abs!Fail
      <4> QED
        BY <4>2 DEF Abs!Next
    <3>3. CASE firstErr = 0
      <4>1. ret' = "ok"
        BY <2>1, <3>3 DEF Return
      <4>2. /\ out = 1 .. next - 1 /\ next - 1 \in 0 .. numIds
            /\ out = Ids \/ ctx = "ended"
        BY <2>1, <3>3, DrainedFacts DEF Return
      <4>3. Abs!Answer
        BY <2>0, <3>1, <4>1, <4>2 DEF Abs!Answer, Abs!AnswersFor, Ids
      <4> QED
        BY <4>3 DEF Abs!Next
    <3> QED
      BY <3>2, <3>3
  <2>2. CASE CallerContextEnds
    <3>1. ret = "none"
      BY <2>2 DEF CallerContextEnds, IInv, TypeOK, Control
    <3>2. Abs!ContextEnds
      BY <2>0, <2>2, <3>1 DEF CallerContextEnds, Abs!ContextEnds
    <3> QED
      BY <3>2 DEF Abs!Next
  <2>3. CASE CollectOk \/ CollectError
    <3>1. ret = "none" /\ ret' = "none" /\ (ctx = "ended" <=> ctx' = "ended")
      BY <2>3 DEF CollectOk, CollectError
    <3> QED
      BY <2>0, <3>1 DEF Abs!vars
  <2>4. CASE UNCHANGED view
    BY <2>0, <2>4 DEF Abs!vars
  <2> QED
    BY <2>1, <2>2, <2>3, <2>4
    DEF Next, Feeder, WorkerStep, ServerAnswers, Collector, Terminated, vars,
        SendJob, FeederStops, FeederDone, StartRequest, RequestOk, RequestFails,
        RequestAborts, Report, WorkerDone, CloseResults
<1> QED
  BY Invariance, <1>1, <1>2, PTL DEF Spec, ImplementsAbs, Abs!Spec
====

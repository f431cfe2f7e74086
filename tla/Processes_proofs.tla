-------------------------- MODULE Processes_proofs --------------------------
(***************************************************************************)
(* Proofs about the processes.  RuntimeHealth: the readiness of a worker   *)
(* process and the shutdown of the API's, for any pipelines, samplers,     *)
(* limits, requests, topics, capacity and bound on the faults.             *)
(* PostEmbedding: the consumer group of the embedding worker, for any      *)
(* members, partitions, Posts, limits and bounds on the disturbances.      *)
(***************************************************************************)
EXTENDS RuntimeHealth, PostEmbedding, FiniteSetTheorems, SequenceTheorems, TLAPS

USE HealthAssumption, ApiAssumption, EmbeddingAssumption

-----------------------------------------------------------------------------
(* The invariant of the API process.                                       *)

StageNames == {"up", "marked", "told", "http", "stopped", "draining", "discarding", "traced", "closing", "over"}
Before == {"up", "marked", "told", "http"}            \* the requests may still be running
Accepting == Before \cup {"stopped"}                  \* the trace channel is open
Cancelling == {"discarding", "traced", "closing", "over"}
Handler == {"new", "refused", "serving", "admitted", "leaving", "writing", "done"}
Dispatcher == [accepting : BOOLEAN, open : BOOLEAN, queue : 0..QueueCapacity,
               worker : {"idle", "busy", "ended"}, cancelled : BOOLEAN]
Publisher == [state : {"active", "closing", "closed"}, writers : [Topics -> {"none", "open", "closed"}],
              closing : SUBSET Topics]

\* The records with all their fields.
ApiShape ==
  /\ stage \in StageNames /\ req \in [Requests -> Handler]
  /\ requests \in [closing : BOOLEAN, closes : Nat]
  /\ trace \in Dispatcher /\ pub \in Publisher /\ faults \in 0..MaxFaults

\* The requests are told to stop before the traces are; without a fault they have stopped.
RequestsInv ==
  /\ requests.closes <= 1
  /\ requests.closes = 1 <=> (requests.closing /\ Active = {})
  /\ stage \notin Before => requests.closing
  /\ stage \notin Before /\ faults = 0 => requests.closes = 1

\* The dispatcher takes traces while its channel is open; its worker ends when it is
\* cancelled, or with nothing left behind a closed channel.
TraceInv ==
  /\ trace.accepting = trace.open
  /\ trace.open <=> stage \in Accepting
  /\ \A r \in Requests : req[r] = "admitted" => trace.open
  /\ trace.cancelled => stage \in Cancelling
  /\ stage = "discarding" => faults # 0
  /\ trace.worker = "ended" /\ ~trace.cancelled => ~trace.open /\ trace.queue = 0
  /\ stage \in {"traced", "closing", "over"} /\ faults = 0 => trace.queue = 0 /\ trace.worker = "ended"

OpenWriters == {t \in Topics : pub.writers[t] = "open"}

\* From the moment the publisher closes no writer is made, and those there are get closed.
PublisherInv ==
  /\ pub.state = "active" <=> stage \notin {"closing", "over"}
  /\ stage = "closing" => pub.closing = OpenWriters
  /\ stage = "over" => OpenWriters = {}

ApiInv == ApiShape /\ RequestsInv /\ TraceInv /\ PublisherInv

-----------------------------------------------------------------------------
(* The invariant of the worker process.                                    *)

Kinds == {"transport", "other"}
Slot == [started : BOOLEAN, session : Nat, active : BOOLEAN, eligible : BOOLEAN, version : Nat,
         proof : Nat, fresh : BOOLEAN, failures : Nat, kinds : SUBSET Kinds, touched : Nat,
         part : [pending : BOOLEAN, old : BOOLEAN]]
RecoverySlot == [started : BOOLEAN, active : BOOLEAN, eligible : BOOLEAN, version : Nat, session : Nat,
                 kinds : SUBSET Kinds, failures : Nat, touched : Nat]
Places == {"off", "idle", "run", "report", "committed", "closing", "ended"}
Loop == [at : Places, reg : Nat, broken : SUBSET Kinds]
Backlogs == 0..Cardinality(Slots)
Pipe == [backlog : Backlogs \cup {-1}, valid : BOOLEAN, fresh : BOOLEAN, moving : BOOLEAN,
         active : {0, 1}, failures : Nat]
Kafka == [lag : SUBSET Slots, stable : BOOLEAN, members : SUBSET (Slots \X Nat)]
Sample == [at : {"idle", "query", "group", "recover"}, slots : [Slots -> RecoverySlot] \cup {<<>>},
           newest : BOOLEAN, unmoved : BOOLEAN, recover : BOOLEAN, lag : Backlogs \cup {-1, -2},
           group : {"none", "matched", "unmatched"}, late : {"no", "group", "all"}, hurt : BOOLEAN]

\* The records with all their fields.
HealthShape ==
  /\ pipeline \in Pipelines
  /\ slot \in [Slots -> Slot] /\ pipe \in Pipe /\ loop \in [Slots -> Loop]
  /\ kafka \in Kafka
  /\ sample \in [Samplers -> Sample]
  /\ probe \in [at : {"idle", "store", "ended"}, ready : BOOLEAN]
  /\ page \in [ready : BOOLEAN, fresh : BOOLEAN]
  /\ down \in {"no", "marked", "stored", "cancelled"} /\ events \in 0..pipeline.budget

Reading == {"run", "report", "committed", "closing"}

\* A loop holds a registration only while its reader is open; a session is that of
\* the registration.  Before the shutdown its version is the registration's, and one
\* more once the reader has been invalidated, which is when it has broken.
SessionOK(s) ==
  /\ loop[s].at \in {"off", "idle", "ended"} => loop[s].reg = 0 /\ loop[s].broken = {}
  /\ slot[s].active => loop[s].at # "ended"
  /\ slot[s].active /\ loop[s].reg # 0 => slot[s].session = loop[s].reg
  /\ slot[s].active /\ down = "no" =>
       /\ loop[s].at \in Reading /\ loop[s].reg # 0
       /\ slot[s].eligible => slot[s].version = slot[s].session /\ loop[s].broken = {}
       /\ ~slot[s].eligible => pipeline.kind = "reader" /\ slot[s].version = slot[s].session + 1
  /\ slot[s].proof <= slot[s].version
  /\ slot[s].proof # 0 =>
       /\ SessionReady(slot[s]) /\ slot[s].proof = slot[s].version /\ down = "no" /\ isKafkaPipeline

SessionInv == \A s \in Slots : SessionOK(s)

\* A sample in time knows every slot as it was when the sample began: what it found
\* of the group was found for sessions that were ready, and a failure or a commit it
\* has missed has left its mark on a slot.  It goes on to recover only without a lag.
SampleOK(p) ==
  /\ sample[p].at # "idle" => isKafkaPipeline
  /\ sample[p].at # "idle" /\ sample[p].late = "no" =>
       /\ sample[p].slots \in [Slots -> RecoverySlot]
       /\ sample[p].group = "matched" => \A s \in Slots : SessionReady(sample[p].slots[s])
       /\ \A s \in Slots : sample[p].slots[s].touched <= slot[s].touched
       /\ sample[p].hurt => \E s \in Slots : sample[p].slots[s].touched < slot[s].touched
       /\ sample[p].at = "group" /\ sample[p].recover => sample[p].lag = 0
       /\ sample[p].at = "recover" => sample[p].lag = 0

SampleInv == \A p \in Samplers : SampleOK(p)

ProbeInv == probe.at = "ended" => ~page.ready

HealthInv == HealthShape /\ SessionInv /\ SampleInv /\ ProbeInv

\* The inductive invariant.
IInv == HealthInv /\ ApiInv

-----------------------------------------------------------------------------
(* The API process.                                                        *)

Faulty == faults' \in 0..MaxFaults /\ (faults' = 0 => faults = 0)

\* The faults stay within their bound and only grow.
LEMMA FaultyStep ==
  ASSUME ApiShape, Fault \/ NoFault
  PROVE  Faulty
  BY DEF ApiShape, Fault, NoFault, Faulty

\* The invariant is about these variables only.
LEMMA ApiFrame ==
  ASSUME ApiInv, UNCHANGED apiVars
  PROVE  ApiInv'
  BY DEF ApiInv, ApiShape, RequestsInv, TraceInv, PublisherInv, Active, OpenWriters, apiVars

\* Checking the services and beginning to shut down leave the rest as it is.
LEMMA ReadinessStep ==
  ASSUME ApiInv,
         EvaluateNow \/ StoreCheck \/ StorePage \/ EvaluationEnds \/ PageAges \/ MarkShuttingDown \/ StoreShutdownPage
  PROVE  ApiInv'
  <1>1. /\ UNCHANGED <<req, requests, trace, pub>>
        /\ stage' = stage \/ (stage \in Before /\ stage' \in Before)
        /\ Fault \/ NoFault
    <2>1. CASE EvaluateNow
      BY <2>1 DEF EvaluateNow, ReadyFrame
    <2>2. CASE StoreCheck \/ StorePage \/ EvaluationEnds \/ PageAges
      BY <2>2 DEF StoreCheck, StorePage, EvaluationEnds, PageAges, ReadyFrame
    <2>3. CASE MarkShuttingDown \/ StoreShutdownPage
      BY <2>3 DEF MarkShuttingDown, StoreShutdownPage, To, Before
    <2> QED
      BY <2>1, <2>2, <2>3
  <1>2. Faulty
    BY <1>1, FaultyStep DEF ApiInv
  <1>3. stage' \in StageNames
    BY <1>1 DEF ApiInv, ApiShape, Before, StageNames
  <1>4. ApiShape'
    BY <1>1, <1>2, <1>3 DEF ApiInv, ApiShape, Faulty
  <1>5. Active' = Active /\ OpenWriters' = OpenWriters
    BY <1>1 DEF Active, OpenWriters
  <1>6. RequestsInv'
    BY <1>1, <1>2, <1>5 DEF ApiInv, RequestsInv, Faulty
  <1>7. TraceInv'
    BY <1>1, <1>2 DEF ApiInv, TraceInv, Faulty, Before, Accepting, Cancelling
  <1>8. PublisherInv'
    BY <1>1, <1>5 DEF ApiInv, PublisherInv, Before
  <1> QED
    BY <1>4, <1>6, <1>7, <1>8 DEF ApiInv

\* What a handler does to the requests: r moves, and is counted when it is the
\* last to leave.
Moves(r, where) ==
  /\ req' = [req EXCEPT ![r] = where]
  /\ UNCHANGED <<stage, faults>>

\* A handler that is under way, and stays so, or that is refused.
LEMMA MovesOn ==
  ASSUME ApiShape, RequestsInv, NEW r \in Requests, NEW where \in Handler, Moves(r, where), UNCHANGED requests,
         \/ r \in Active /\ where \notin {"new", "refused", "done"}
         \/ req[r] = "new" /\ (where = "refused" \/ (where = "serving" /\ ~requests.closing))
  PROVE  req' \in [Requests -> Handler] /\ RequestsInv'
  <1>1. req' \in [Requests -> Handler] /\ req'[r] = where /\ \A q \in Requests : q # r => req'[q] = req[q]
    BY DEF ApiShape, Moves
  <1>2. requests.closing => (Active' = {} <=> Active = {})
    BY <1>1 DEF Active
  <1>3. requests.closes \in Nat
    BY DEF ApiShape
  <1> QED
    BY <1>1, <1>2, <1>3 DEF RequestsInv, Moves

\* A handler leaves.
LEMMA LeaveStep ==
  ASSUME ApiInv, NEW r \in Requests, Leave(r)
  PROVE  ApiInv'
  <1>1. /\ req[r] = "leaving" /\ req' = [req EXCEPT ![r] = "done"]
        /\ UNCHANGED <<trace, pub, stage, faults>>
        /\ requests' = IF requests.closing /\ Active = {r} THEN [requests EXCEPT !.closes = @ + 1] ELSE requests
    BY DEF Leave, NoFault, RequestFrame
  <1>2. req' \in [Requests -> Handler] /\ req'[r] = "done" /\ \A q \in Requests : q # r => req'[q] = req[q]
    BY <1>1 DEF ApiInv, ApiShape, Handler
  <1>3. r \in Active /\ Active' = Active \ {r}
    BY <1>1, <1>2 DEF Active
  <1>4. /\ requests' \in [closing : BOOLEAN, closes : Nat] /\ requests'.closing = requests.closing
        /\ requests'.closes = IF requests.closing /\ Active = {r} THEN requests.closes + 1 ELSE requests.closes
    BY <1>1 DEF ApiInv, ApiShape
  <1>5. ApiShape'
    BY <1>1, <1>2, <1>4 DEF ApiInv, ApiShape
  <1>6. requests.closes = 0
    BY <1>3 DEF ApiInv, ApiShape, RequestsInv
  <1>7. requests.closing => (Active' = {} <=> Active = {r})
    BY <1>3
  <1>8. RequestsInv'
    BY <1>1, <1>3, <1>4, <1>6, <1>7 DEF ApiInv, RequestsInv
  <1>9. TraceInv'
    <2>1. \A q \in Requests : req'[q] = "admitted" => req[q] = "admitted"
      BY <1>2
    <2> QED
      BY <1>1, <2>1 DEF ApiInv, TraceInv
  <1>10. PublisherInv'
    BY <1>1 DEF ApiInv, PublisherInv, OpenWriters
  <1> QED
    BY <1>5, <1>8, <1>9, <1>10 DEF ApiInv

\* A handler is let in or refused, hands over a trace or publishes to a topic.
LEMMA RequestStep ==
  ASSUME ApiInv, NEW r \in Requests,
         ServeHTTP(r) \/ TryEnqueue(r) \/ SendJob(r) \/ (\E t \in Topics : GetWriter(r, t)) \/ WriteMessages(r)
  PROVE  ApiInv'
  <1>t. /\ req \in [Requests -> Handler] /\ trace \in Dispatcher /\ pub \in Publisher
        /\ requests \in [closing : BOOLEAN, closes : Nat]
    BY DEF ApiInv, ApiShape
  <1>1. PICK where \in Handler :
          /\ Moves(r, where) /\ UNCHANGED requests
          /\ \/ r \in Active /\ where \notin {"new", "refused", "done"}
             \/ req[r] = "new" /\ (where = "refused" \/ (where = "serving" /\ ~requests.closing))
          /\ where = "admitted" => trace.accepting
    <2>1. CASE ServeHTTP(r)
      BY <2>1, <1>t DEF ServeHTTP, Moves, NoFault, RequestFrame, Handler
    <2>2. CASE TryEnqueue(r) \/ SendJob(r) \/ (\E t \in Topics : GetWriter(r, t)) \/ WriteMessages(r)
      <3>1. r \in Active
        BY <2>2 DEF TryEnqueue, SendJob, GetWriter, WriteMessages, Active
      <3>2. \E where \in {"admitted", "leaving", "writing"} :
              /\ req' = [req EXCEPT ![r] = where]
              /\ UNCHANGED <<stage, faults, requests>>
              /\ where = "admitted" => trace.accepting
        BY <2>2 DEF TryEnqueue, SendJob, GetWriter, WriteMessages, NoFault, RequestFrame
      <3> QED
        BY <3>1, <3>2 DEF Moves, Handler
    <2> QED
      BY <2>1, <2>2
  <1>2. req' \in [Requests -> Handler] /\ RequestsInv'
    BY <1>1, MovesOn DEF ApiInv
  <1>3. req'[r] = where /\ \A q \in Requests : q # r => req'[q] = req[q]
    BY <1>1, <1>t DEF Moves
  <1>4. UNCHANGED <<stage, faults, requests>>
    BY <1>1 DEF Moves
  <1>5. \/ UNCHANGED trace
        \/ trace.open /\ trace.queue < QueueCapacity /\ trace' = [trace EXCEPT !.queue = trace.queue + 1]
    <2>1. trace' = trace \/ (req[r] = "admitted" /\ trace.queue < QueueCapacity
                             /\ trace' = [trace EXCEPT !.queue = trace.queue + 1])
      BY DEF ServeHTTP, TryEnqueue, SendJob, GetWriter, WriteMessages
    <2> QED
      BY <2>1 DEF ApiInv, TraceInv
  <1>6. trace' \in Dispatcher /\ TraceInv'
    <2>1. \A q \in Requests : req'[q] = "admitted" => trace.open
      BY <1>1, <1>3 DEF ApiInv, TraceInv
    <2>2. CASE UNCHANGED trace
      BY <1>t, <1>4, <2>1, <2>2 DEF ApiInv, TraceInv
    <2>3. CASE trace.open /\ trace.queue < QueueCapacity /\ trace' = [trace EXCEPT !.queue = trace.queue + 1]
      <3>1. /\ trace' \in Dispatcher /\ trace'.accepting = trace.accepting /\ trace'.open = trace.open
            /\ trace'.worker = trace.worker /\ trace'.cancelled = trace.cancelled
        <4>1. trace.queue + 1 \in 0..QueueCapacity
          BY <1>t, <2>3 DEF Dispatcher
        <4> QED
          BY <1>t, <2>3, <4>1 DEF Dispatcher
      <3>2. trace.open /\ stage \in Accepting
        BY <2>3 DEF ApiInv, TraceInv
      <3> QED
        BY <1>4, <2>1, <3>1, <3>2 DEF ApiInv, TraceInv, Accepting, Before
    <2> QED
      BY <1>5, <2>2, <2>3
  <1>7. \/ UNCHANGED pub
        \/ \E t \in Topics : /\ pub.state = "active"
                             /\ pub' = [pub EXCEPT !.writers[t] = IF pub.writers[t] = "none" THEN "open" ELSE pub.writers[t]]
    BY DEF ServeHTTP, TryEnqueue, SendJob, GetWriter, WriteMessages
  <1>8. pub' \in Publisher /\ PublisherInv'
    <2>1. CASE UNCHANGED pub
      BY <1>t, <1>4, <2>1 DEF ApiInv, PublisherInv, OpenWriters
    <2>2. ASSUME NEW t \in Topics, NEW state \in {"none", "open", "closed"}, pub.state = "active",
                 pub' = [pub EXCEPT !.writers[t] = state]
          PROVE  pub' \in Publisher /\ PublisherInv'
      <3>1. pub' = [pub EXCEPT !.writers = [pub.writers EXCEPT ![t] = state]]
        BY <1>t, <2>2 DEF Publisher
      <3>2. [pub.writers EXCEPT ![t] = state] \in [Topics -> {"none", "open", "closed"}]
        BY <1>t DEF Publisher
      <3>3. pub' \in Publisher /\ pub'.state = pub.state
        BY <1>t, <3>1, <3>2 DEF Publisher
      <3> QED
        BY <1>4, <2>2, <3>3 DEF ApiInv, PublisherInv
    <2>3. \A t \in Topics : (IF pub.writers[t] = "none" THEN "open" ELSE pub.writers[t]) \in {"none", "open", "closed"}
      BY <1>t DEF Publisher
    <2> QED
      BY <1>7, <2>1, <2>2, <2>3
  <1>9. ApiShape'
    BY <1>2, <1>4, <1>6, <1>8 DEF ApiInv, ApiShape
  <1> QED
    BY <1>2, <1>6, <1>8, <1>9 DEF ApiInv
\* The worker takes a trace, persists it or ends.
LEMMA WorkerStep ==
  ASSUME ApiInv, TakeJob \/ persist \/ WorkerEnds
  PROVE  ApiInv'
  <1>t. trace \in Dispatcher
    BY DEF ApiInv, ApiShape
  <1>1. UNCHANGED <<stage, req, requests, pub, faults>>
    BY DEF TakeJob, persist, WorkerEnds, NoFault, TraceFrame
  <1>4. /\ trace' \in Dispatcher /\ trace'.accepting = trace.accepting /\ trace'.open = trace.open
        /\ trace'.cancelled = trace.cancelled /\ trace'.queue <= trace.queue
        /\ trace'.worker = "ended" => trace.cancelled \/ (~trace.open /\ trace'.queue = 0)
        /\ trace.worker # "ended"
    <2>1. CASE TakeJob
      <3> DEFINE next == IF trace.cancelled THEN "idle" ELSE "busy"
      <3>1. trace.worker = "idle" /\ trace' = [trace EXCEPT !.queue = trace.queue - 1, !.worker = next]
        BY <2>1 DEF TakeJob
      <3>2. trace.queue \in 0..QueueCapacity /\ trace.queue - 1 \in 0..QueueCapacity
        BY <1>t, <2>1 DEF TakeJob, Dispatcher
      <3>3. next \in {"idle", "busy"}
        OBVIOUS
      <3> HIDE DEF next
      <3>4. trace' \in Dispatcher
        BY <1>t, <3>1, <3>2, <3>3 DEF Dispatcher
      <3>5. /\ trace'.accepting = trace.accepting /\ trace'.open = trace.open
            /\ trace'.cancelled = trace.cancelled /\ trace'.queue = trace.queue - 1 /\ trace'.worker = next
        BY <1>t, <3>1 DEF Dispatcher
      <3> QED
        BY <3>1, <3>2, <3>3, <3>4, <3>5
    <2>2. CASE persist
      <3>1. trace.worker = "busy" /\ trace' = [trace EXCEPT !.worker = "idle"]
        BY <2>2 DEF persist
      <3> QED
        BY <1>t, <3>1 DEF Dispatcher
    <2>3. CASE WorkerEnds
      <3>1. /\ trace.worker = "idle" /\ (trace.cancelled \/ (~trace.open /\ trace.queue = 0))
            /\ trace' = [trace EXCEPT !.worker = "ended"]
        BY <2>3 DEF WorkerEnds
      <3> QED
        BY <1>t, <3>1 DEF Dispatcher
    <2> QED
      BY <2>1, <2>2, <2>3
  <1>5. ApiShape'
    BY <1>1, <1>4 DEF ApiInv, ApiShape
  <1>6. RequestsInv' /\ PublisherInv'
    BY <1>1 DEF ApiInv, RequestsInv, PublisherInv, Active, OpenWriters
  <1>7. TraceInv'
    <2>1. trace.queue \in Nat /\ trace'.queue \in Nat
      BY <1>t, <1>4 DEF Dispatcher
    <2> QED
      BY <1>1, <1>4, <2>1 DEF ApiInv, TraceInv
  <1> QED
    BY <1>5, <1>6, <1>7 DEF ApiInv

\* The server stops, and the requests are told to.
LEMMA StopStep ==
  ASSUME ApiInv, HttpShutdown \/ StopRequests \/ RequestsDrained
  PROVE  ApiInv'
  <1>t. requests \in [closing : BOOLEAN, closes : Nat]
    BY DEF ApiInv, ApiShape
  <1>1. UNCHANGED <<req, trace, pub>> /\ (Fault \/ NoFault) /\ (requests' = requests \/ requests' = Stopped(requests))
    BY DEF HttpShutdown, StopRequests, RequestsDrained
  <1>2. \/ stage = "told" /\ stage' = "http"
        \/ stage = "http" /\ stage' = "http"
        \/ stage = "http" /\ stage' = "stopped" /\ requests.closing /\ UNCHANGED requests
           /\ ((requests.closes > 0 /\ NoFault) \/ Fault)
    BY DEF HttpShutdown, StopRequests, RequestsDrained, To
  <1>3. Faulty
    BY <1>1, FaultyStep DEF ApiInv
  <1>4. Active' = Active /\ OpenWriters' = OpenWriters
    BY <1>1 DEF Active, OpenWriters
  <1>5. requests' \in [closing : BOOLEAN, closes : Nat] /\ (requests.closing => requests'.closing)
        /\ requests'.closes <= 1 /\ (requests'.closes = 1 <=> (requests'.closing /\ Active = {}))
    <2>1. CASE requests' = requests
      BY <1>t, <2>1 DEF ApiInv, RequestsInv
    <2>2. CASE requests' = Stopped(requests) /\ ~requests.closing
      <3>1. requests.closes = 0
        BY <1>t, <2>2 DEF ApiInv, RequestsInv
      <3>2. requests' = [closing |-> TRUE, closes |-> IF Active = {} THEN requests.closes + 1 ELSE requests.closes]
        BY <2>2 DEF Stopped
      <3>3. requests'.closing = TRUE /\ requests'.closes = IF Active = {} THEN 1 ELSE 0
        BY <3>1, <3>2
      <3>4. requests' \in [closing : BOOLEAN, closes : Nat]
        BY <3>1, <3>2
      <3> QED
        BY <2>2, <3>3, <3>4
    <2>3. CASE requests' = Stopped(requests) /\ requests.closing
      BY <1>t, <2>3 DEF ApiInv, RequestsInv, Stopped
    <2> QED
      BY <1>1, <2>1, <2>2, <2>3
  <1>6. stage' \in StageNames
    BY <1>2 DEF StageNames
  <1>7. ApiShape'
    BY <1>1, <1>3, <1>5, <1>6 DEF ApiInv, ApiShape, Faulty
  <1>8. RequestsInv'
    <2>1. CASE stage' = "http"
      BY <1>4, <1>5, <2>1 DEF RequestsInv, Before
    <2>2. CASE stage' = "stopped"
      <3>1. requests.closing /\ UNCHANGED requests /\ ((requests.closes > 0 /\ NoFault) \/ Fault)
        BY <1>2, <2>2
      <3>2. faults' = 0 => requests.closes > 0
        BY <3>1 DEF Fault, NoFault, ApiInv, ApiShape
      <3> QED
        BY <1>t, <1>4, <1>5, <3>1, <3>2 DEF RequestsInv
    <2> QED
      BY <1>2, <2>1, <2>2
  <1>9. TraceInv'
    BY <1>1, <1>2, <1>3 DEF ApiInv, TraceInv, Accepting, Before, Cancelling
  <1>10. PublisherInv'
    BY <1>1, <1>2, <1>4 DEF ApiInv, PublisherInv
  <1> QED
    BY <1>7, <1>8, <1>9, <1>10 DEF ApiInv

\* The dispatcher closes its channel, waits, and discards what the worker has left.
LEMMA DrainStep ==
  ASSUME ApiInv, TraceShutdown \/ TraceDrained \/ discardQueuedJobs
  PROVE  ApiInv'
  <1>t. trace \in Dispatcher
    BY DEF ApiInv, ApiShape
  <1>1. UNCHANGED <<req, requests, pub>> /\ (Fault \/ NoFault)
    BY DEF TraceShutdown, TraceDrained, discardQueuedJobs
  <1>2. Faulty
    BY <1>1, FaultyStep DEF ApiInv
  <1>3. /\ stage \in {"stopped", "draining", "discarding"}
        /\ stage' \in {"draining", "discarding", "traced"}
    BY DEF TraceShutdown, TraceDrained, discardQueuedJobs, To
  <1>4. RequestsInv' /\ PublisherInv'
    BY <1>1, <1>2, <1>3 DEF ApiInv, RequestsInv, PublisherInv, Active, OpenWriters, Before, Faulty
  <1>5. ASSUME trace' \in Dispatcher
        PROVE  ApiShape'
    BY <1>1, <1>2, <1>3, <1>5 DEF ApiInv, ApiShape, StageNames, Faulty
  <1>6. CASE TraceShutdown
    <2>1. /\ stage = "stopped" /\ stage' = "draining" /\ LockedByNone
          /\ trace' = [trace EXCEPT !.accepting = FALSE, !.open = FALSE]
      BY <1>6 DEF TraceShutdown, To
    <2>2. /\ trace' \in Dispatcher /\ trace'.accepting = FALSE /\ trace'.open = FALSE
          /\ trace'.queue = trace.queue /\ trace'.worker = trace.worker /\ trace'.cancelled = trace.cancelled
      BY <1>t, <2>1 DEF Dispatcher
    <2>3. ~trace.cancelled /\ trace.open
      BY <2>1 DEF ApiInv, TraceInv, Cancelling, Accepting
    <2>4. TraceInv'
      BY <1>1, <2>1, <2>2, <2>3 DEF ApiInv, TraceInv, LockedByNone, Accepting, Before
    <2> QED
      BY <1>4, <1>5, <2>2, <2>4 DEF ApiInv
  <1>7. CASE TraceDrained
    <2>1. /\ stage = "draining" /\ trace' = [trace EXCEPT !.cancelled = TRUE]
          /\ \/ trace.worker = "ended" /\ stage' = "traced"
             \/ stage' = "discarding" /\ Fault
      BY <1>7 DEF TraceDrained, To
    <2>2. /\ trace' \in Dispatcher /\ trace'.accepting = trace.accepting /\ trace'.open = trace.open
          /\ trace'.queue = trace.queue /\ trace'.worker = trace.worker /\ trace'.cancelled = TRUE
      BY <1>t, <2>1 DEF Dispatcher
    <2>3. ~trace.cancelled /\ ~trace.open
      BY <2>1 DEF ApiInv, TraceInv, Cancelling, Accepting, Before
    <2>4. Fault => faults' # 0
      BY DEF Fault, ApiInv, ApiShape
    <2>5. TraceInv'
      BY <1>1, <2>1, <2>2, <2>3, <2>4 DEF ApiInv, TraceInv, Cancelling, Accepting, Before
    <2> QED
      BY <1>4, <1>5, <2>2, <2>5 DEF ApiInv
  <1>8. CASE discardQueuedJobs
    <2>1. stage = "discarding" /\ faults' = faults
      BY <1>8 DEF discardQueuedJobs, NoFault
    <2>2. faults # 0 /\ ~trace.open
      BY <2>1 DEF ApiInv, TraceInv, Accepting, Before
    <2>3. CASE trace.queue > 0
      <3>1. stage' = stage /\ trace' = [trace EXCEPT !.queue = trace.queue - 1]
        BY <1>8, <2>3 DEF discardQueuedJobs
      <3>2. trace.queue - 1 \in 0..QueueCapacity
        BY <1>t, <2>3 DEF Dispatcher
      <3>3. /\ trace' \in Dispatcher /\ trace'.accepting = trace.accepting /\ trace'.open = trace.open
            /\ trace'.worker = trace.worker /\ trace'.cancelled = trace.cancelled
            /\ trace'.queue = trace.queue - 1
        BY <1>t, <3>1, <3>2 DEF Dispatcher
      <3>4. TraceInv'
        BY <1>1, <2>1, <2>2, <2>3, <3>1, <3>3 DEF ApiInv, TraceInv
      <3> QED
        BY <1>4, <1>5, <3>3, <3>4 DEF ApiInv
    <2>4. CASE ~(trace.queue > 0)
      <3>1. stage' = "traced" /\ trace' = trace
        BY <1>8, <2>4 DEF discardQueuedJobs, To
      <3>2. TraceInv'
        BY <1>1, <2>1, <2>2, <3>1 DEF ApiInv, TraceInv, Cancelling, Accepting, Before
      <3> QED
        BY <1>t, <1>4, <1>5, <3>1, <3>2 DEF ApiInv
    <2> QED
      BY <2>3, <2>4
  <1> QED
    BY <1>6, <1>7, <1>8

\* The publisher closes and closes the writers it has.
LEMMA CloseStep ==
  ASSUME ApiInv, PublisherClose \/ CloseWriters
  PROVE  ApiInv'
  <1>t. pub \in Publisher
    BY DEF ApiInv, ApiShape
  <1>1. /\ UNCHANGED <<req, requests, trace, faults>>
        /\ stage \in {"traced", "closing"} /\ stage' \in {"closing", "over"}
    BY DEF PublisherClose, CloseWriters, NoFault, To
  <1>2. RequestsInv' /\ TraceInv'
    BY <1>1 DEF ApiInv, RequestsInv, TraceInv, Active, Before, Accepting, Cancelling
  <1>3. pub' \in Publisher /\ PublisherInv'
    <2>1. CASE PublisherClose
      <3>1. stage' = "closing" /\ pub' = [pub EXCEPT !.state = "closing", !.closing = OpenWriters]
        BY <2>1 DEF PublisherClose, To, OpenWriters
      <3>2. OpenWriters \in SUBSET Topics
        BY DEF OpenWriters
      <3>3. pub' \in Publisher /\ pub'.state = "closing" /\ pub'.closing = OpenWriters /\ pub'.writers = pub.writers
        BY <1>t, <3>1, <3>2 DEF Publisher
      <3>4. OpenWriters' = OpenWriters
        BY <3>3 DEF OpenWriters
      <3> QED
        BY <3>1, <3>3, <3>4 DEF PublisherInv
    <2>2. CASE CloseWriters
      <3> DEFINE written == [t \in Topics |-> IF t \in pub.closing THEN "closed" ELSE pub.writers[t]]
      <3>1. /\ stage = "closing" /\ stage' = "over"
            /\ pub' = [state |-> "closed", writers |-> written, closing |-> {}]
        BY <2>2 DEF CloseWriters, To
      <3>2. written \in [Topics -> {"none", "open", "closed"}]
        BY <1>t DEF Publisher
      <3>3. \A t \in Topics : written[t] # "open"
        BY <3>1 DEF ApiInv, PublisherInv, OpenWriters
      <3> HIDE DEF written
      <3>4. pub' \in Publisher /\ pub'.state = "closed" /\ pub'.writers = written
        BY <3>1, <3>2 DEF Publisher
      <3>5. OpenWriters' = {}
        BY <3>3, <3>4 DEF OpenWriters
      <3> QED
        BY <3>1, <3>4, <3>5 DEF PublisherInv
    <2> QED
      BY <2>1, <2>2
  <1>4. ApiShape'
    BY <1>1, <1>3 DEF ApiInv, ApiShape, StageNames
  <1> QED
    BY <1>2, <1>3, <1>4 DEF ApiInv

\* Every step of the API process keeps its invariant.
LEMMA ApiStep ==
  ASSUME ApiInv, ApiNext
  PROVE  ApiInv'
  BY ReadinessStep, LeaveStep, RequestStep, WorkerStep, StopStep, DrainStep, CloseStep
     DEF ApiNext, HandlerStep, ShutdownStep

\* The invariant holds of the process that starts, and of one that is not there.
LEMMA ApiStart ==
  ASSUME ApiInit \/ ApiOff
  PROVE  ApiInv
  <1>1. Active = {} /\ OpenWriters = {}
    BY DEF ApiInit, ApiOff, Active, OpenWriters
  <1>2. ApiShape
    <2>1. CASE ApiInit
      BY <2>1 DEF ApiInit, ApiShape, StageNames, Handler, Dispatcher, Publisher
    <2>2. CASE ApiOff
      BY <2>2 DEF ApiOff, ApiShape, StageNames, Handler, Dispatcher, Publisher
    <2> QED
      BY <2>1, <2>2
  <1>3. RequestsInv
    BY <1>1 DEF ApiInit, ApiOff, RequestsInv, Before
  <1>4. TraceInv
    <2>1. CASE ApiInit
      BY <2>1 DEF ApiInit, TraceInv, Accepting, Before, Cancelling
    <2>2. CASE ApiOff
      BY <2>2 DEF ApiOff, TraceInv, Accepting, Before, Cancelling
    <2> QED
      BY <2>1, <2>2
  <1>5. PublisherInv
    BY <1>1 DEF ApiInit, ApiOff, PublisherInv
  <1> QED
    BY <1>2, <1>3, <1>4, <1>5 DEF ApiInv

\* What the invariant says of the channels, the traces and the writers.
LEMMA ApiIsSafe ==
  ASSUME ApiInv
  PROVE  ApiSafe
  <1>1. ApiTypeOK
    <2>1. \E i \in 1..Len(Stages) : stage = Stages[i]
      <3>1. Len(Stages) = 10
        BY DEF Stages
      <3>2. /\ Stages[1] = "up" /\ Stages[2] = "marked" /\ Stages[3] = "told" /\ Stages[4] = "http"
            /\ Stages[5] = "stopped" /\ Stages[6] = "draining" /\ Stages[7] = "discarding"
            /\ Stages[8] = "traced" /\ Stages[9] = "closing" /\ Stages[10] = "over"
        BY DEF Stages
      <3>3. {1, 2, 3, 4, 5, 6, 7, 8, 9, 10} \subseteq 1..Len(Stages)
        BY <3>1
      <3>4. stage \in StageNames
        BY DEF ApiInv, ApiShape
      <3> QED
        BY <3>2, <3>3, <3>4 DEF StageNames
    <2> QED
      BY <2>1 DEF ApiInv, ApiShape, Dispatcher, ApiTypeOK
  <1>2. ChannelsUsedRightly
    BY DEF ApiInv, RequestsInv, TraceInv, ChannelsUsedRightly
  <1>3. NothingLeftOpen
    <2>1. stage \in {"traced", "closing", "over"} /\ faults = 0 => Active = {}
      BY DEF ApiInv, RequestsInv, Before
    <2> QED
      BY <2>1 DEF ApiInv, TraceInv, PublisherInv, OpenWriters, NothingLeftOpen
  <1> QED
    BY <1>1, <1>2, <1>3 DEF ApiSafe
-----------------------------------------------------------------------------
(* What the code does to a slot.                                           *)

\* The fields of a slot that the invariant speaks of.
SlotIs(sl, started, session, active, eligible, version, proof, failures, touched) ==
  /\ sl \in Slot
  /\ sl.started = started /\ sl.session = session /\ sl.active = active /\ sl.eligible = eligible
  /\ sl.version = version /\ sl.proof = proof /\ sl.failures = failures /\ sl.touched = touched

\* A session is not proven any more.
LEMMA UnprovenIs ==
  ASSUME NEW sl \in Slot
  PROVE  SlotIs(Unproven(sl), sl.started, sl.session, sl.active, sl.eligible, sl.version, 0, sl.failures, sl.touched)
  BY DEF Unproven, SlotIs, Slot, NoPartition

\* A session has changed.
LEMMA NextVersionIs ==
  ASSUME NEW sl \in Slot
  PROVE  SlotIs(NextVersion(sl), sl.started, sl.session, sl.active, sl.eligible, sl.version + 1, 0, sl.failures, sl.touched)
  <1> DEFINE new == [sl EXCEPT !.version = sl.version + 1]
  <1>1. sl.version + 1 \in Nat
    BY DEF Slot
  <1>2. SlotIs(new, sl.started, sl.session, sl.active, sl.eligible, sl.version + 1, sl.proof, sl.failures, sl.touched)
    BY <1>1 DEF SlotIs, Slot
  <1>3. NextVersion(sl) = Unproven(new)
    BY DEF NextVersion
  <1> HIDE DEF new
  <1>4. new \in Slot
    BY <1>2 DEF SlotIs
  <1> QED
    BY <1>2, <1>3, <1>4, UnprovenIs DEF SlotIs

\* A session is removed.
LEMMA NoSessionIs ==
  ASSUME NEW sl \in Slot
  PROVE  SlotIs(NoSession(sl), sl.started, 0, FALSE, FALSE, sl.version + 1, 0, sl.failures, sl.touched)
  <1> DEFINE new == [sl EXCEPT !.session = 0, !.active = FALSE, !.eligible = FALSE]
  <1>1. SlotIs(new, sl.started, 0, FALSE, FALSE, sl.version, sl.proof, sl.failures, sl.touched)
    BY DEF SlotIs, Slot
  <1>2. NoSession(sl) = NextVersion(new)
    BY DEF NoSession
  <1> HIDE DEF new
  <1>3. new \in Slot
    BY <1>1 DEF SlotIs
  <1> QED
    BY <1>1, <1>2, <1>3, NextVersionIs DEF SlotIs

\* A slot is started, with no session proven.
LEMMA StartedIs ==
  ASSUME NEW sl \in Slot
  PROVE  SlotIs(Unproven([sl EXCEPT !.started = TRUE]),
                TRUE, sl.session, sl.active, sl.eligible, sl.version, 0, sl.failures, sl.touched)
  <1> DEFINE new == [sl EXCEPT !.started = TRUE]
  <1>1. SlotIs(new, TRUE, sl.session, sl.active, sl.eligible, sl.version, sl.proof, sl.failures, sl.touched)
    BY DEF SlotIs, Slot
  <1> HIDE DEF new
  <1>2. new \in Slot
    BY <1>1 DEF SlotIs
  <1>3. SlotIs(Unproven(new), TRUE, sl.session, sl.active, sl.eligible, sl.version, 0, sl.failures, sl.touched)
    BY <1>1, <1>2, UnprovenIs DEF SlotIs
  <1> QED
    BY <1>3 DEF new

\* A slot is stopped, and its session with it.
LEMMA StoppedIs ==
  ASSUME NEW sl \in Slot
  PROVE  SlotIs(NoSession([sl EXCEPT !.started = FALSE]),
                FALSE, 0, FALSE, FALSE, sl.version + 1, 0, sl.failures, sl.touched)
  <1> DEFINE new == [sl EXCEPT !.started = FALSE]
  <1>1. SlotIs(new, FALSE, sl.session, sl.active, sl.eligible, sl.version, sl.proof, sl.failures, sl.touched)
    BY DEF SlotIs, Slot
  <1> HIDE DEF new
  <1>2. new \in Slot
    BY <1>1 DEF SlotIs
  <1>3. SlotIs(NoSession(new), FALSE, 0, FALSE, FALSE, sl.version + 1, 0, sl.failures, sl.touched)
    BY <1>1, <1>2, NoSessionIs DEF SlotIs
  <1> QED
    BY <1>3 DEF new

\* A session is registered under the slot's next version.
LEMMA RegisteredIs ==
  ASSUME NEW sl \in Slot, NEW v, v = sl.version + 1
  PROVE  SlotIs(NextVersion([sl EXCEPT !.session = v, !.active = TRUE, !.eligible = TRUE]),
                sl.started, v, TRUE, TRUE, v, 0, sl.failures, sl.touched)
  <1> DEFINE new == [sl EXCEPT !.session = v, !.active = TRUE, !.eligible = TRUE]
  <1>0. v \in Nat
    BY DEF Slot
  <1>1. SlotIs(new, sl.started, v, TRUE, TRUE, sl.version, sl.proof, sl.failures, sl.touched)
    BY <1>0 DEF SlotIs, Slot
  <1> HIDE DEF new
  <1>2. new \in Slot
    BY <1>1 DEF SlotIs
  <1>3. SlotIs(NextVersion(new), sl.started, v, TRUE, TRUE, v, 0, sl.failures, sl.touched)
    BY <1>1, <1>2, NextVersionIs DEF SlotIs
  <1> QED
    BY <1>3 DEF new

\* A session whose reader has broken stays, without being eligible.
LEMMA InvalidatedIs ==
  ASSUME NEW sl \in Slot
  PROVE  SlotIs(NextVersion([sl EXCEPT !.eligible = FALSE]),
                sl.started, sl.session, sl.active, FALSE, sl.version + 1, 0, sl.failures, sl.touched)
  <1> DEFINE new == [sl EXCEPT !.eligible = FALSE]
  <1>1. SlotIs(new, sl.started, sl.session, sl.active, FALSE, sl.version, sl.proof, sl.failures, sl.touched)
    BY DEF SlotIs, Slot
  <1> HIDE DEF new
  <1>2. new \in Slot
    BY <1>1 DEF SlotIs
  <1>3. SlotIs(NextVersion(new), sl.started, sl.session, sl.active, FALSE, sl.version + 1, 0, sl.failures, sl.touched)
    BY <1>1, <1>2, NextVersionIs DEF SlotIs
  <1> QED
    BY <1>3 DEF new

\* A slot's failures are counted anew.
LEMMA CountedIs ==
  ASSUME NEW sl \in Slot, NEW failures \in Nat, NEW kinds \in SUBSET Kinds, NEW touched \in Nat
  PROVE  SlotIs([sl EXCEPT !.failures = failures, !.kinds = kinds, !.touched = touched],
                sl.started, sl.session, sl.active, sl.eligible, sl.version, sl.proof, failures, touched)
  BY DEF SlotIs, Slot

\* A failure is counted.
LEMMA FailedIs ==
  ASSUME NEW sl \in Slot, NEW kinds \in SUBSET Kinds
  PROVE  SlotIs(Failed(sl, kinds), sl.started, sl.session, sl.active, sl.eligible, sl.version, sl.proof,
                sl.failures + 1, sl.touched + 1)
  <1>1. sl.failures + 1 \in Nat /\ sl.touched + 1 \in Nat /\ sl.kinds \cup kinds \in SUBSET Kinds
    BY DEF Slot
  <1> QED
    BY <1>1, CountedIs DEF Failed

\* The failures are forgiven.
LEMMA SuccessIs ==
  ASSUME NEW sl \in Slot
  PROVE  SlotIs(markKafkaConsumerSlotSuccess(sl), sl.started, sl.session, sl.active, sl.eligible, sl.version, sl.proof,
                0, sl.touched + 1)
  <1>1. sl.touched + 1 \in Nat /\ 0 \in Nat
    BY DEF Slot
  <1>2. {} \in SUBSET Kinds
    OBVIOUS
  <1> QED
    BY <1>1, <1>2, CountedIs DEF markKafkaConsumerSlotSuccess

\* The state of a slot's partition is nothing to its session.
LEMMA PartitionIs ==
  ASSUME NEW sl \in Slot, NEW part \in [pending : BOOLEAN, old : BOOLEAN]
  PROVE  SlotIs([sl EXCEPT !.part = part], sl.started, sl.session, sl.active, sl.eligible, sl.version, sl.proof,
                sl.failures, sl.touched)
  BY DEF SlotIs, Slot

-----------------------------------------------------------------------------
(* Slots, loops and samples change one at a time.                          *)

\* The failures of a slot are forgiven as ForgivenFairly says.
Fairly ==
  \A s \in Slots : slot'[s].failures < slot[s].failures =>
       \/ loop[s].at = "committed" /\ loop'[s].at # "committed"
       \/ /\ FailureKinds = {"transport"} /\ kafkaConsumerSlotsReady
          /\ \E p \in Samplers : sample[p].at = "recover" /\ ~sample[p].hurt /\ sample[p].lag = 0

\* No failure is forgiven.
Unforgiven == \A s \in Slots : slot[s].failures <= slot'[s].failures

\* A step that forgives nothing forgives nothing unfairly.
LEMMA UnforgivenFairly ==
  ASSUME HealthShape, slot' \in [Slots -> Slot], Unforgiven
  PROVE  Fairly
  <1>1. \A s \in Slots : slot[s].failures \in Nat /\ slot'[s].failures \in Nat
    BY DEF HealthShape, Slot
  <1> QED
    BY <1>1 DEF Unforgiven, Fairly

OnlySlot(s) == \A q \in Slots : q # s => slot'[q] = slot[q]
OnlyLoop(s) == \A q \in Slots : q # s => loop'[q] = loop[q]

\* Only the session of s has to be looked at.
LEMMA OneSession ==
  ASSUME SessionInv, UNCHANGED <<pipeline, down>>, NEW s \in Slots, OnlySlot(s), OnlyLoop(s), SessionOK(s)'
  PROVE  SessionInv'
  <1>1. Slots' = Slots
    BY DEF Slots
  <1>2. ASSUME NEW q \in Slots, q # s
        PROVE  SessionOK(q)'
    BY <1>2 DEF SessionInv, SessionOK, OnlySlot, OnlyLoop, isKafkaPipeline
  <1> QED
    BY <1>1, <1>2 DEF SessionInv

\* A step that does not touch the slots and moves no loop in or out of its place.
LEMMA SameSessionsStep ==
  ASSUME SessionInv, UNCHANGED <<pipeline, down, slot, loop>>
  PROVE  SessionInv'
  BY DEF SessionInv, SessionOK, Slots, isKafkaPipeline

\* A sample under way keeps what it knows; it is hurt only when a slot is touched.
SampleSame(p) ==
  /\ sample'[p].at = sample[p].at /\ sample'[p].slots = sample[p].slots /\ sample'[p].recover = sample[p].recover
  /\ sample'[p].lag = sample[p].lag /\ sample'[p].group = sample[p].group /\ sample'[p].late = sample[p].late
  /\ sample'[p].hurt => sample[p].hurt \/ \E s \in Slots : slot[s].touched < slot'[s].touched

SamplesKept == sample' \in [Samplers -> Sample] /\ \A p \in Samplers : SampleSame(p)

\* A sample that keeps what it knows keeps its invariant.
LEMMA SampleSameOK ==
  ASSUME HealthShape, UNCHANGED pipeline, slot' \in [Slots -> Slot],
         \A s \in Slots : slot[s].touched <= slot'[s].touched,
         NEW p \in Samplers, SampleOK(p), SampleSame(p)
  PROVE  SampleOK(p)'
  <1>1. Slots' = Slots /\ isKafkaPipeline' = isKafkaPipeline /\ RecoverySlot' = RecoverySlot
    BY DEF Slots, isKafkaPipeline, RecoverySlot, Kinds
  <1>2. CASE sample[p].at = "idle" \/ sample[p].late # "no"
    BY <1>1, <1>2 DEF SampleSame, SampleOK
  <1>3. CASE sample[p].at # "idle" /\ sample[p].late = "no"
    <2>1. \A s \in Slots : /\ sample[p].slots[s].touched \in Nat /\ slot[s].touched \in Nat /\ slot'[s].touched \in Nat
                           /\ sample[p].slots[s].touched <= slot[s].touched
      BY <1>3 DEF SampleOK, HealthShape, Slot, RecoverySlot
    <2>2. sample'[p].slots = sample[p].slots
      BY DEF SampleSame
    <2>3. \A s \in Slots : sample[p].slots[s].touched <= slot'[s].touched
      BY <2>1
    <2>4. sample'[p].hurt => \E s \in Slots : sample[p].slots[s].touched < slot'[s].touched
      BY <1>3, <2>1 DEF SampleSame, SampleOK
    <2> QED
      BY <1>1, <1>3, <2>2, <2>3, <2>4 DEF SampleSame, SampleOK
  <1> QED
    BY <1>2, <1>3

\* So do all of them.
LEMMA SamplesKeptInv ==
  ASSUME HealthShape, SampleInv, UNCHANGED pipeline, slot' \in [Slots -> Slot], SamplesKept,
         \A s \in Slots : slot[s].touched <= slot'[s].touched
  PROVE  SampleInv'
  BY SampleSameOK DEF SampleInv, SamplesKept

\* Nothing happens to the samples.
LEMMA SamplesStay ==
  ASSUME HealthShape, UNCHANGED sample
  PROVE  SamplesKept
  BY DEF HealthShape, SamplesKept, SampleSame

\* What a sample knows of the sessions and the group.
Knows(new, sm) ==
  /\ new \in Sample
  /\ new.at = sm.at /\ new.slots = sm.slots /\ new.recover = sm.recover
  /\ new.lag = sm.lag /\ new.group = sm.group /\ new.late = sm.late

\* A sample of a session that has moved.
LEMMA MovedSample ==
  ASSUME NEW sm \in Sample
  PROVE  Knows([sm EXCEPT !.unmoved = FALSE], sm) /\ [sm EXCEPT !.unmoved = FALSE].hurt = sm.hurt
  BY DEF Sample, Knows

\* A sample that has missed something.
LEMMA HurtSample ==
  ASSUME NEW sm \in Sample, NEW hurt \in BOOLEAN
  PROVE  Knows([sm EXCEPT !.hurt = hurt], sm)
  BY DEF Sample, Knows

\* A session has moved.
LEMMA SamplesMove ==
  ASSUME HealthShape, Moved
  PROVE  SamplesKept
  <1>1. ASSUME NEW p \in Samplers
        PROVE  Knows(sample'[p], sample[p]) /\ sample'[p].hurt = sample[p].hurt
    <2>1. sample[p] \in Sample /\ sample'[p] = [sample[p] EXCEPT !.unmoved = FALSE]
      BY DEF HealthShape, Moved
    <2> QED
      BY <2>1, MovedSample
  <1>2. sample' \in [Samplers -> Sample]
    BY <1>1 DEF Moved, Knows
  <1> QED
    BY <1>1, <1>2 DEF SamplesKept, SampleSame, Knows

\* The samples have missed the failure or the commit of a slot.
LEMMA SamplesMiss ==
  ASSUME HealthShape, NEW s \in Slots, slot[s].touched < slot'[s].touched,
         NEW before, before = sample \/ before = [p \in Samplers |-> [sample[p] EXCEPT !.unmoved = FALSE]],
         sample' = Missed(before)
  PROVE  SamplesKept
  <1>1. ASSUME NEW p \in Samplers
        PROVE  Knows(sample'[p], sample[p])
    <2>1. sample[p] \in Sample
      BY DEF HealthShape
    <2>2. Knows(before[p], sample[p])
      <3>1. before[p] = sample[p] \/ before[p] = [sample[p] EXCEPT !.unmoved = FALSE]
        OBVIOUS
      <3> QED
        BY <2>1, <3>1, MovedSample DEF Knows
    <2>3. Knows(sample'[p], before[p])
      <3>1. before[p] \in Sample
        BY <2>2 DEF Knows
      <3>2. sample'[p] = [before[p] EXCEPT !.hurt = before[p].late = "no" /\ before[p].at # "idle"]
        BY DEF Missed
      <3>3. (before[p].late = "no" /\ before[p].at # "idle") \in BOOLEAN
        OBVIOUS
      <3> QED
        BY <3>1, <3>2, <3>3, HurtSample
    <2> QED
      BY <2>2, <2>3 DEF Knows
  <1>2. sample' \in [Samplers -> Sample]
    BY <1>1 DEF Missed, Knows
  <1> QED
    BY <1>1, <1>2 DEF SamplesKept, SampleSame, Knows
\* The pipeline stays the same, and so do the sets made from it.
LEMMA SameSets ==
  ASSUME UNCHANGED pipeline
  PROVE  /\ Slots' = Slots /\ isKafkaPipeline' = isKafkaPipeline
         /\ Backlogs' = Backlogs /\ Pipe' = Pipe /\ Sample' = Sample /\ Kafka' = Kafka
  BY DEF Slots, isKafkaPipeline, Backlogs, Pipe, Sample, Kafka, RecoverySlot, Kinds

\* The number of disturbances stays within the budget.
LEMMA EventsStep ==
  ASSUME HealthShape, Calm \/ Disturb
  PROVE  events' \in 0..pipeline.budget
  <1>1. pipeline.budget \in Nat
    BY DEF HealthShape
  <1> QED
    BY <1>1 DEF HealthShape, Calm, Disturb

\* A step of the loop of s, or of what happens to it.
Turn(s) ==
  /\ UNCHANGED <<pipeline, probe, page, down>>
  /\ slot' \in [Slots -> Slot] /\ loop' \in [Slots -> Loop] /\ pipe' \in Pipe /\ kafka' \in Kafka
  /\ Calm \/ Disturb
  /\ OnlySlot(s) /\ OnlyLoop(s)

\* Such a step keeps the invariant if it does so for the session of s.
LEMMA TurnKeeps ==
  ASSUME HealthInv, NEW s \in Slots, Turn(s), SamplesKept, slot[s].touched <= slot'[s].touched, SessionOK(s)'
  PROVE  HealthInv'
  <1>1. UNCHANGED <<pipeline, probe, page, down>> /\ slot' \in [Slots -> Slot]
    BY DEF Turn
  <1>2. HealthShape'
    <2>1. events' \in 0..pipeline'.budget
      BY <1>1, EventsStep DEF HealthInv, Turn
    <2> QED
      BY <1>1, <2>1, SameSets DEF HealthInv, HealthShape, Turn, SamplesKept
  <1>3. SessionInv'
    BY <1>1, OneSession DEF HealthInv, Turn
  <1>4. \A q \in Slots : slot[q].touched <= slot'[q].touched
    <2>1. \A q \in Slots : slot[q].touched \in Nat
      BY DEF HealthInv, HealthShape, Slot
    <2> QED
      BY <2>1 DEF Turn, OnlySlot
  <1>5. SampleInv'
    BY <1>1, <1>4, SamplesKeptInv DEF HealthInv
  <1>6. ProbeInv'
    BY <1>1 DEF HealthInv, ProbeInv
  <1> QED
    BY <1>2, <1>3, <1>5, <1>6 DEF HealthInv

\* Only the failures of s have to be looked at.
LEMMA TurnFairly ==
  ASSUME HealthShape, NEW s \in Slots, Turn(s), slot[s].failures <= slot'[s].failures
  PROVE  Fairly
  <1>1. \A q \in Slots : slot[q].failures \in Nat
    BY DEF HealthShape, Slot
  <1>2. Unforgiven
    BY <1>1 DEF Turn, OnlySlot, Unforgiven
  <1> QED
    BY <1>2, UnforgivenFairly DEF Turn

\* A slot is set.
LEMMA SetSlot ==
  ASSUME HealthShape, NEW s \in Slots, NEW new \in Slot, slot' = [slot EXCEPT ![s] = new]
  PROVE  slot' \in [Slots -> Slot] /\ OnlySlot(s) /\ slot'[s] = new
  BY DEF HealthShape, OnlySlot

\* No slot is.
LEMMA KeepSlots ==
  ASSUME HealthShape, NEW s \in Slots, slot' = slot
  PROVE  slot' \in [Slots -> Slot] /\ OnlySlot(s) /\ slot'[s] = slot[s]
  BY DEF HealthShape, OnlySlot

LoopIs(lp, at, reg, broken) == lp.at = at /\ lp.reg = reg /\ lp.broken = broken

\* A loop goes on to another place.
LEMMA GoIs ==
  ASSUME HealthShape, NEW s \in Slots, NEW where \in Places, Go(s, where)
  PROVE  /\ loop' \in [Slots -> Loop] /\ OnlyLoop(s)
         /\ LoopIs(loop'[s], where, loop[s].reg, loop[s].broken)
  <1>1. loop' = [loop EXCEPT ![s].at = where] /\ loop \in [Slots -> Loop]
    BY DEF Go, HealthShape
  <1>2. loop'[s] = [loop[s] EXCEPT !.at = where] /\ loop[s] \in Loop
    BY <1>1
  <1>3. loop'[s] \in Loop
    BY <1>2 DEF Loop
  <1> QED
    BY <1>1, <1>2, <1>3 DEF OnlyLoop, LoopIs, Loop

\* A loop is set.
LEMMA SetLoop ==
  ASSUME HealthShape, NEW s \in Slots, NEW new \in Loop, loop' = [loop EXCEPT ![s] = new]
  PROVE  loop' \in [Slots -> Loop] /\ OnlyLoop(s) /\ loop'[s] = new
  BY DEF HealthShape, OnlyLoop

\* No loop is.
LEMMA KeepLoops ==
  ASSUME HealthShape, NEW s \in Slots, loop' = loop
  PROVE  loop' \in [Slots -> Loop] /\ OnlyLoop(s) /\ loop'[s] = loop[s]
  BY DEF HealthShape, OnlyLoop

\* What the step leaves alone when it is a slot's.
LEMMA SlotFrameTurn ==
  ASSUME HealthShape, NEW s \in Slots, SlotFrame, Calm \/ Disturb,
         slot' \in [Slots -> Slot], OnlySlot(s), loop' \in [Slots -> Loop], OnlyLoop(s)
  PROVE  Turn(s)
  BY DEF HealthShape, SlotFrame, Turn

\* The loop of s starts, and its slot with it.
LEMMA StartStep ==
  ASSUME HealthInv, NEW s \in Slots, Start(s)
  PROVE  HealthInv' /\ Fairly
  <1>t. HealthShape /\ SessionOK(s) /\ slot[s] \in Slot
    BY DEF HealthInv, HealthShape, SessionInv
  <1>1. /\ loop[s].at = "off" /\ KafkaConsumerSlotStarted(s) /\ Go(s, "idle") /\ Calm /\ SlotFrame
    BY DEF Start, At
  <1>2. /\ loop' \in [Slots -> Loop] /\ OnlyLoop(s)
        /\ LoopIs(loop'[s], "idle", loop[s].reg, loop[s].broken)
    BY <1>t, <1>1, GoIs DEF Places
  <1>3. /\ slot' \in [Slots -> Slot] /\ OnlySlot(s)
        /\ \E started \in BOOLEAN :
             SlotIs(slot'[s], started, slot[s].session, slot[s].active, slot[s].eligible, slot[s].version, 0,
                    slot[s].failures, slot[s].touched)
    <2>1. CASE down # "no"
      <3>1. slot' = slot /\ slot[s].proof = 0
        BY <1>t, <1>1, <2>1 DEF KafkaConsumerSlotStarted, SessionOK
      <3> QED
        BY <1>t, <3>1, KeepSlots DEF SlotIs, Slot
    <2>2. CASE down = "no"
      <3>1. slot' = [slot EXCEPT ![s] = Unproven([slot[s] EXCEPT !.started = TRUE])]
        BY <1>1, <2>2 DEF KafkaConsumerSlotStarted
      <3>2. SlotIs(Unproven([slot[s] EXCEPT !.started = TRUE]), TRUE, slot[s].session, slot[s].active, slot[s].eligible,
                   slot[s].version, 0, slot[s].failures, slot[s].touched)
        BY <1>t, StartedIs
      <3>3. Unproven([slot[s] EXCEPT !.started = TRUE]) \in Slot
        BY <3>2 DEF SlotIs
      <3> QED
        BY <1>t, <3>1, <3>2, <3>3, SetSlot
    <2> QED
      BY <2>1, <2>2
  <1>4. SamplesKept
    BY <1>t, <1>1, SamplesStay, SamplesMove DEF KafkaConsumerSlotStarted
  <1>5. Turn(s)
    BY <1>t, <1>1, <1>2, <1>3, SlotFrameTurn
  <1>6. down' = down /\ pipeline' = pipeline
    BY <1>5 DEF Turn
  <1>7. SessionOK(s)'
    <2>1. slot'[s].version \in Nat
      BY <1>3 DEF SlotIs, Slot
    <2> QED
      BY <1>t, <1>1, <1>2, <1>3, <1>6, <2>1, SameSets DEF SessionOK, SlotIs, LoopIs
  <1>8. slot[s].touched <= slot'[s].touched /\ slot[s].failures <= slot'[s].failures
    BY <1>t, <1>3 DEF SlotIs, Slot
  <1> QED
    BY <1>t, <1>4, <1>5, <1>7, <1>8, TurnKeeps, TurnFairly
\* A reader is opened: its loop runs with the session it has registered, if it has.
LEMMA OpenStep ==
  ASSUME HealthInv, NEW s \in Slots, OpenReader(s)
  PROVE  HealthInv' /\ Fairly
  <1>t. HealthShape /\ SessionOK(s) /\ slot[s] \in Slot /\ loop[s] \in Loop
    BY DEF HealthInv, HealthShape, SessionInv
  <1>1. /\ loop[s].at = "idle" /\ registerKafkaConsumerSession(s) /\ kafka' \in Kafka /\ Calm
        /\ UNCHANGED <<pipeline, pipe, probe, page, down>>
    <2>1. kafka' = kafka \/ kafka' = [kafka EXCEPT !.members = kafka.members \cup {<<s, 1>>}]
      BY DEF OpenReader
    <2>2. kafka' \in Kafka
      <3>1. kafka \in Kafka
        BY <1>t DEF HealthShape
      <3>2. kafka.members \cup {<<s, 1>>} \in SUBSET (Slots \X Nat)
        BY <3>1 DEF Kafka
      <3> QED
        BY <2>1, <3>1, <3>2 DEF Kafka
    <2> QED
      BY <2>2 DEF OpenReader, At
  <1>2. CASE down # "no" \/ ~slot[s].started
    <2>1. /\ loop' = [loop EXCEPT ![s] = [loop[s] EXCEPT !.at = "run"]] /\ slot' = slot /\ sample' = sample
      BY <1>1, <1>2 DEF registerKafkaConsumerSession
    <2>2. [loop[s] EXCEPT !.at = "run"] \in Loop /\ LoopIs([loop[s] EXCEPT !.at = "run"], "run", loop[s].reg, loop[s].broken)
      BY <1>t DEF Loop, LoopIs, Places
    <2>3. /\ loop' \in [Slots -> Loop] /\ OnlyLoop(s)
          /\ LoopIs(loop'[s], "run", loop[s].reg, loop[s].broken)
      BY <1>t, <2>1, <2>2, SetLoop
    <2>4. slot' \in [Slots -> Slot] /\ OnlySlot(s) /\ slot'[s] = slot[s]
      BY <1>t, <2>1, KeepSlots
    <2>5. Turn(s)
      BY <1>t, <1>1, <2>3, <2>4 DEF Turn, HealthShape
    <2>6. SessionOK(s)'
      BY <1>t, <1>1, <2>3, <2>4, SameSets DEF SessionOK, LoopIs, Reading
    <2>7. slot[s].touched <= slot'[s].touched /\ slot[s].failures <= slot'[s].failures
      BY <1>t, <2>4 DEF Slot
    <2> QED
      BY <1>t, <2>1, <2>5, <2>6, <2>7, SamplesStay, TurnKeeps, TurnFairly
  <1>3. CASE ~(down # "no" \/ ~slot[s].started)
    <2> DEFINE v == slot[s].version + 1
               new == NextVersion([slot[s] EXCEPT !.session = v, !.active = TRUE, !.eligible = TRUE])
    <2>1. slot' = [slot EXCEPT ![s] = new] /\ loop' = [loop EXCEPT ![s] = [loop[s] EXCEPT !.at = "run", !.reg = v]] /\ Moved
      BY <1>1, <1>3 DEF registerKafkaConsumerSession
    <2>2. SlotIs(new, slot[s].started, v, TRUE, TRUE, v, 0, slot[s].failures, slot[s].touched)
      BY <1>t, RegisteredIs
    <2>3. v \in Nat /\ v # 0
      BY <1>t DEF Slot
    <2> HIDE DEF v, new
    <2>4. /\ [loop[s] EXCEPT !.at = "run", !.reg = v] \in Loop
          /\ LoopIs([loop[s] EXCEPT !.at = "run", !.reg = v], "run", v, loop[s].broken)
      BY <1>t, <2>3 DEF Loop, LoopIs, Places
    <2>5. /\ loop' \in [Slots -> Loop] /\ OnlyLoop(s) /\ LoopIs(loop'[s], "run", v, loop[s].broken)
      BY <1>t, <2>1, <2>4, SetLoop
    <2>6. /\ slot' \in [Slots -> Slot] /\ OnlySlot(s)
          /\ SlotIs(slot'[s], slot[s].started, v, TRUE, TRUE, v, 0, slot[s].failures, slot[s].touched)
      BY <1>t, <2>1, <2>2, SetSlot DEF SlotIs
    <2>7. Turn(s)
      BY <1>t, <1>1, <2>5, <2>6 DEF Turn, HealthShape
    <2>8. SessionOK(s)'
      BY <1>t, <1>1, <2>3, <2>5, <2>6, SameSets DEF SessionOK, SlotIs, LoopIs, Reading
    <2>9. slot[s].touched <= slot'[s].touched /\ slot[s].failures <= slot'[s].failures
      BY <1>t, <2>6 DEF SlotIs, Slot
    <2> QED
      BY <1>t, <2>1, <2>7, <2>8, <2>9, SamplesMove, TurnKeeps, TurnFairly
  <1> QED
    BY <1>2, <1>3

\* A reader is closed: its session goes with it, unless the shutdown has taken its version.
LEMMA CloseReaderStep ==
  ASSUME HealthInv, NEW s \in Slots, CloseReader(s)
  PROVE  HealthInv' /\ Fairly
  <1>t. HealthShape /\ SessionOK(s) /\ slot[s] \in Slot /\ loop[s] \in Loop
    BY DEF HealthInv, HealthShape, SessionInv
  <1>1. /\ loop[s].at = "closing" /\ unregisterSession(s, loop[s].reg)
        /\ loop' = [loop EXCEPT ![s] = [NewLoop EXCEPT !.at = "idle"]] /\ Calm /\ SlotFrame
    BY DEF CloseReader, At
  <1>2. [NewLoop EXCEPT !.at = "idle"] \in Loop /\ LoopIs([NewLoop EXCEPT !.at = "idle"], "idle", 0, {})
    BY DEF NewLoop, Loop, LoopIs, Places
  <1>3. loop' \in [Slots -> Loop] /\ OnlyLoop(s) /\ LoopIs(loop'[s], "idle", 0, {})
    BY <1>t, <1>1, <1>2, SetLoop
  <1>4. CASE StillRegistered(s, loop[s].reg)
    <2>1. slot' = [slot EXCEPT ![s] = NoSession(slot[s])] /\ Moved
      BY <1>1, <1>4 DEF unregisterSession
    <2>2. SlotIs(NoSession(slot[s]), slot[s].started, 0, FALSE, FALSE, slot[s].version + 1, 0, slot[s].failures, slot[s].touched)
      BY <1>t, NoSessionIs
    <2>3. /\ slot' \in [Slots -> Slot] /\ OnlySlot(s)
          /\ SlotIs(slot'[s], slot[s].started, 0, FALSE, FALSE, slot[s].version + 1, 0, slot[s].failures, slot[s].touched)
      BY <1>t, <2>1, <2>2, SetSlot DEF SlotIs
    <2>4. Turn(s)
      BY <1>t, <1>1, <1>3, <2>3, SlotFrameTurn
    <2>5. SessionOK(s)'
      BY <1>t, <1>3, <2>3 DEF SessionOK, SlotIs, LoopIs, Slot
    <2>6. slot[s].touched <= slot'[s].touched /\ slot[s].failures <= slot'[s].failures
      BY <1>t, <2>3 DEF SlotIs, Slot
    <2> QED
      BY <1>t, <2>1, <2>4, <2>5, <2>6, SamplesMove, TurnKeeps, TurnFairly
  <1>5. CASE ~StillRegistered(s, loop[s].reg)
    <2>1. slot' = slot /\ sample' = sample
      BY <1>1, <1>5 DEF unregisterSession
    <2>2. slot' \in [Slots -> Slot] /\ OnlySlot(s) /\ slot'[s] = slot[s]
      BY <1>t, <2>1, KeepSlots
    <2>3. Turn(s)
      BY <1>t, <1>1, <1>3, <2>2, SlotFrameTurn
    <2>4. slot[s].active => down # "no"
      BY <1>t, <1>5 DEF SessionOK, StillRegistered
    <2>5. down' = down /\ pipeline' = pipeline
      BY <2>3 DEF Turn
    <2>6. slot[s].proof = 0
      BY <1>t, <2>4 DEF SessionOK, SessionReady
    <2>7. SessionOK(s)'
      BY <1>t, <1>3, <2>2, <2>4, <2>5, <2>6 DEF SessionOK, LoopIs, Slot
    <2>8. slot[s].touched <= slot'[s].touched /\ slot[s].failures <= slot'[s].failures
      BY <1>t, <2>2 DEF Slot
    <2> QED
      BY <1>t, <2>1, <2>3, <2>7, <2>8, SamplesStay, TurnKeeps, TurnFairly
  <1> QED
    BY <1>4, <1>5

\* A loop ends, or its group closes: no session is left behind it.
LEMMA StopLoopStep ==
  ASSUME HealthInv, NEW s \in Slots, Stop(s) \/ GroupStops(s)
  PROVE  HealthInv' /\ Fairly
  <1>t. HealthShape /\ SessionOK(s) /\ slot[s] \in Slot /\ loop[s] \in Loop
    BY DEF HealthInv, HealthShape, SessionInv
  <1>1. loop[s].at = "idle" /\ Go(s, "ended") /\ (Calm \/ Disturb) /\ SlotFrame
    BY DEF Stop, GroupStops, GroupStopped, At
  <1>2. /\ loop' \in [Slots -> Loop] /\ OnlyLoop(s) /\ LoopIs(loop'[s], "ended", loop[s].reg, loop[s].broken)
    BY <1>t, <1>1, GoIs DEF Places
  <1>3. \E sl \in Slot : /\ slot' = [slot EXCEPT ![s] = NoSession([sl EXCEPT !.started = FALSE])]
                         /\ sl.failures >= slot[s].failures
                         /\ \/ sl = slot[s] /\ Moved
                            \/ /\ sl.touched > slot[s].touched
                               /\ sample' = Missed([p \in Samplers |-> [sample[p] EXCEPT !.unmoved = FALSE]])
    <2>1. CASE Stop(s)
      <3>1. slot' = [slot EXCEPT ![s] = NoSession([slot[s] EXCEPT !.started = FALSE])] /\ Moved
        BY <2>1 DEF Stop, KafkaConsumerSlotStopped
      <3>2. slot[s].failures >= slot[s].failures
        BY <1>t DEF Slot
      <3> QED
        BY <1>t, <3>1, <3>2
    <2>2. CASE GroupStops(s)
      <3>1. SlotIs(Failed(slot[s], {"other"}), slot[s].started, slot[s].session, slot[s].active, slot[s].eligible,
                   slot[s].version, slot[s].proof, slot[s].failures + 1, slot[s].touched + 1)
        <4>1. {"other"} \in SUBSET Kinds
          BY DEF Kinds
        <4> QED
          BY <1>t, <4>1, FailedIs
      <3>2. /\ slot' = [slot EXCEPT ![s] = NoSession([Failed(slot[s], {"other"}) EXCEPT !.started = FALSE])]
            /\ sample' = Missed([p \in Samplers |-> [sample[p] EXCEPT !.unmoved = FALSE]])
        BY <2>2 DEF GroupStops
      <3>3. /\ Failed(slot[s], {"other"}) \in Slot
            /\ Failed(slot[s], {"other"}).failures >= slot[s].failures
            /\ Failed(slot[s], {"other"}).touched > slot[s].touched
        BY <1>t, <3>1 DEF SlotIs, Slot
      <3> QED
        BY <3>2, <3>3
    <2> QED
      BY <2>1, <2>2
  <1>4. PICK sl \in Slot : /\ slot' = [slot EXCEPT ![s] = NoSession([sl EXCEPT !.started = FALSE])]
                           /\ sl.failures >= slot[s].failures
                           /\ \/ sl = slot[s] /\ Moved
                              \/ /\ sl.touched > slot[s].touched
                                 /\ sample' = Missed([p \in Samplers |-> [sample[p] EXCEPT !.unmoved = FALSE]])
    BY <1>3
  <1>5. /\ slot' \in [Slots -> Slot] /\ OnlySlot(s)
        /\ SlotIs(slot'[s], FALSE, 0, FALSE, FALSE, sl.version + 1, 0, sl.failures, sl.touched)
    <2>1. SlotIs(NoSession([sl EXCEPT !.started = FALSE]), FALSE, 0, FALSE, FALSE, sl.version + 1, 0, sl.failures, sl.touched)
      BY StoppedIs
    <2> QED
      BY <1>t, <1>4, <2>1, SetSlot DEF SlotIs
  <1>6. Turn(s)
    BY <1>t, <1>1, <1>2, <1>5, SlotFrameTurn
  <1>7. SessionOK(s)'
    BY <1>t, <1>1, <1>2, <1>5 DEF SessionOK, SlotIs, LoopIs, Slot
  <1>8. slot[s].touched <= slot'[s].touched /\ slot[s].failures <= slot'[s].failures
    BY <1>t, <1>4, <1>5 DEF SlotIs, Slot
  <1>9. SamplesKept
    <2>1. CASE Moved
      BY <1>t, <2>1, SamplesMove
    <2>2. CASE /\ sl.touched > slot[s].touched
               /\ sample' = Missed([p \in Samplers |-> [sample[p] EXCEPT !.unmoved = FALSE]])
      <3>1. slot[s].touched < slot'[s].touched
        BY <1>t, <1>5, <2>2 DEF SlotIs, Slot
      <3> QED
        BY <1>t, <2>2, <3>1, SamplesMiss
    <2> QED
      BY <1>4, <2>1, <2>2
  <1> QED
    BY <1>t, <1>6, <1>7, <1>8, <1>9, TurnKeeps, TurnFairly
\* The session of s is the same, with its reader still open.
LEMMA SessionStays ==
  ASSUME NEW s \in Slots, SessionOK(s), UNCHANGED <<pipeline, down>>,
         NEW failures, NEW touched, NEW at,
         SlotIs(slot'[s], slot[s].started, slot[s].session, slot[s].active, slot[s].eligible, slot[s].version,
                slot[s].proof, failures, touched),
         LoopIs(loop'[s], at, loop[s].reg, loop[s].broken),
         at = loop[s].at \/ (loop[s].at \in Reading /\ at \in Reading)
  PROVE  SessionOK(s)'
  <1>1. isKafkaPipeline' = isKafkaPipeline
    BY DEF isKafkaPipeline
  <1>2. /\ at \in {"off", "idle", "ended"} => loop[s].at \in {"off", "idle", "ended"}
        /\ at = "ended" => loop[s].at = "ended"
        /\ loop[s].at \in Reading => at \in Reading
    BY DEF Reading
  <1> QED
    BY <1>1, <1>2 DEF SessionOK, SessionReady, SlotIs, LoopIs

\* A failure of a slot is counted.
LEMMA FailureCounted ==
  ASSUME HealthShape, NEW s \in Slots, NEW kinds \in SUBSET Kinds, KafkaConsumerSlotFailed(s, kinds)
  PROVE  /\ slot' \in [Slots -> Slot] /\ OnlySlot(s)
         /\ SlotIs(slot'[s], slot[s].started, slot[s].session, slot[s].active, slot[s].eligible, slot[s].version,
                   slot[s].proof, slot[s].failures + 1, slot[s].touched + 1)
         /\ SamplesKept
  <1>1. slot' = [slot EXCEPT ![s] = Failed(slot[s], kinds)] /\ sample' = Missed(sample)
    BY DEF KafkaConsumerSlotFailed
  <1>2. slot[s] \in Slot
    BY DEF HealthShape
  <1>3. SlotIs(Failed(slot[s], kinds), slot[s].started, slot[s].session, slot[s].active, slot[s].eligible, slot[s].version,
               slot[s].proof, slot[s].failures + 1, slot[s].touched + 1)
    BY <1>2, FailedIs
  <1>4. slot' \in [Slots -> Slot] /\ OnlySlot(s) /\ slot'[s] = Failed(slot[s], kinds)
    BY <1>1, <1>3, SetSlot DEF SlotIs
  <1>5. slot[s].touched < slot'[s].touched
    BY <1>2, <1>3, <1>4 DEF SlotIs, Slot
  <1> QED
    BY <1>1, <1>3, <1>4, <1>5, SamplesMiss

\* A reader that cannot be opened, a failure that is reported, a batch that fails.
LEMMA FailureStep ==
  ASSUME HealthInv, NEW s \in Slots, OpenFails(s) \/ ReportFailure(s) \/ BatchFails(s)
  PROVE  HealthInv' /\ Fairly
  <1>t. HealthShape /\ SessionOK(s) /\ slot[s] \in Slot /\ loop[s] \in Loop /\ kafka \in Kafka
    BY DEF HealthInv, HealthShape, SessionInv
  <1>1. \E kinds \in SUBSET Kinds : KafkaConsumerSlotFailed(s, kinds)
    <2>1. {"transport"} \in SUBSET Kinds /\ {"other"} \in SUBSET Kinds
      BY DEF Kinds
    <2>2. loop[s].broken \in SUBSET Kinds
      BY <1>t DEF Loop
    <2>3. {"other"} \cup loop[s].broken \in SUBSET Kinds
      BY <2>1, <2>2
    <2>4. CASE OpenFails(s)
      BY <2>1, <2>4 DEF OpenFails
    <2>5. CASE ReportFailure(s)
      BY <2>2, <2>5 DEF ReportFailure
    <2>6. CASE BatchFails(s)
      BY <2>3, <2>6 DEF BatchFails
    <2> QED
      BY <2>4, <2>5, <2>6
  <1>2. /\ slot' \in [Slots -> Slot] /\ OnlySlot(s)
        /\ SlotIs(slot'[s], slot[s].started, slot[s].session, slot[s].active, slot[s].eligible, slot[s].version,
                  slot[s].proof, slot[s].failures + 1, slot[s].touched + 1)
        /\ SamplesKept
    BY <1>t, <1>1, FailureCounted
  <1>3. PICK at \in Places :
          /\ loop' \in [Slots -> Loop] /\ OnlyLoop(s) /\ LoopIs(loop'[s], at, loop[s].reg, loop[s].broken)
          /\ at = loop[s].at \/ (loop[s].at \in Reading /\ at \in Reading)
    <2>1. CASE OpenFails(s)
      <3>1. loop' = loop /\ loop[s].at \in Places
        BY <1>t, <2>1 DEF OpenFails, Loop
      <3> QED
        BY <1>t, <3>1, KeepLoops DEF LoopIs
    <2>2. CASE ReportFailure(s) \/ BatchFails(s)
      <3>1. Go(s, "closing") /\ loop[s].at \in Reading
        BY <2>2 DEF ReportFailure, BatchFails, At, Reading
      <3>2. "closing" \in Places /\ "closing" \in Reading
        BY DEF Places, Reading
      <3> QED
        BY <1>t, <3>1, <3>2, GoIs
    <2> QED
      BY <2>1, <2>2
  <1>4. kafka' \in Kafka
    <2>1. \/ kafka' = kafka
          \/ \E taken \in {{}, {s}} : kafka' = [kafka EXCEPT !.lag = kafka.lag \ taken]
      BY DEF OpenFails, ReportFailure, BatchFails, SlotFrame
    <2>2. \A taken : kafka.lag \ taken \in SUBSET Slots
      BY <1>t DEF Kafka
    <2> QED
      BY <1>t, <2>1, <2>2 DEF Kafka
  <1>5. Turn(s)
    <2>1. UNCHANGED <<pipeline, pipe, probe, page, down>> /\ (Calm \/ Disturb)
      BY DEF OpenFails, ReportFailure, BatchFails, SlotFrame
    <2> QED
      BY <1>t, <1>2, <1>3, <1>4, <2>1 DEF Turn, HealthShape
  <1>6. SessionOK(s)'
    BY <1>t, <1>2, <1>3, <1>5, SessionStays DEF Turn
  <1>7. slot[s].touched <= slot'[s].touched /\ slot[s].failures <= slot'[s].failures
    BY <1>t, <1>2 DEF SlotIs, Slot
  <1> QED
    BY <1>t, <1>2, <1>5, <1>6, <1>7, TurnKeeps, TurnFairly

\* A fetch fails: the reader is broken, and its session not eligible any more.
LEMMA FetchStep ==
  ASSUME HealthInv, NEW s \in Slots, FetchFails(s)
  PROVE  HealthInv' /\ Fairly
  <1>t. HealthShape /\ SessionOK(s) /\ slot[s] \in Slot /\ loop[s] \in Loop /\ kafka \in Kafka
    BY DEF HealthInv, HealthShape, SessionInv
  <1>1. /\ pipeline.kind = "reader" /\ loop[s].at = "run" /\ invalidateKafkaReaderSession(s) /\ Disturb /\ SlotFrame
    BY DEF FetchFails, At
  <1>2. PICK kind \in Kinds, where \in {"report", "run"} :
          loop' = [loop EXCEPT ![s] = [loop[s] EXCEPT !.at = where, !.broken = {kind}]]
    BY DEF FetchFails, Kinds
  <1>3. /\ [loop[s] EXCEPT !.at = where, !.broken = {kind}] \in Loop
        /\ LoopIs([loop[s] EXCEPT !.at = where, !.broken = {kind}], where, loop[s].reg, {kind})
    <2>1. {kind} \in SUBSET Kinds /\ where \in Places
      BY DEF Places
    <2> QED
      BY <1>t, <2>1 DEF Loop, LoopIs
  <1>4. loop' \in [Slots -> Loop] /\ OnlyLoop(s) /\ LoopIs(loop'[s], where, loop[s].reg, {kind})
    BY <1>t, <1>2, <1>3, SetLoop
  <1>5. CASE slot[s].active /\ slot[s].session = loop[s].reg /\ slot[s].eligible
    <2>1. slot' = [slot EXCEPT ![s] = NextVersion([slot[s] EXCEPT !.eligible = FALSE])] /\ Moved
      BY <1>1, <1>5 DEF invalidateKafkaReaderSession
    <2>2. SlotIs(NextVersion([slot[s] EXCEPT !.eligible = FALSE]), slot[s].started, slot[s].session, slot[s].active, FALSE,
                 slot[s].version + 1, 0, slot[s].failures, slot[s].touched)
      BY <1>t, InvalidatedIs
    <2>3. /\ slot' \in [Slots -> Slot] /\ OnlySlot(s)
          /\ SlotIs(slot'[s], slot[s].started, slot[s].session, slot[s].active, FALSE,
                    slot[s].version + 1, 0, slot[s].failures, slot[s].touched)
      BY <1>t, <2>1, <2>2, SetSlot DEF SlotIs
    <2>4. Turn(s)
      BY <1>t, <1>1, <1>4, <2>3, SlotFrameTurn
    <2>5. SessionOK(s)'
      <3>1. down' = down /\ pipeline' = pipeline /\ slot[s].version \in Nat
        BY <1>t, <2>4 DEF Turn, Slot
      <3> QED
        BY <1>t, <1>1, <1>4, <1>5, <2>3, <3>1 DEF SessionOK, SlotIs, LoopIs, Reading
    <2>6. slot[s].touched <= slot'[s].touched /\ slot[s].failures <= slot'[s].failures
      BY <1>t, <2>3 DEF SlotIs, Slot
    <2> QED
      BY <1>t, <2>1, <2>4, <2>5, <2>6, SamplesMove, TurnKeeps, TurnFairly
  <1>6. CASE ~(slot[s].active /\ slot[s].session = loop[s].reg /\ slot[s].eligible)
    <2>1. slot' = slot /\ sample' = sample
      BY <1>1, <1>6 DEF invalidateKafkaReaderSession
    <2>2. slot' \in [Slots -> Slot] /\ OnlySlot(s) /\ slot'[s] = slot[s]
      BY <1>t, <2>1, KeepSlots
    <2>3. Turn(s)
      BY <1>t, <1>1, <1>4, <2>2, SlotFrameTurn
    <2>4. slot[s].active /\ down = "no" => ~slot[s].eligible
      BY <1>t, <1>6 DEF SessionOK
    <2>5. SessionOK(s)'
      <3>1. down' = down /\ pipeline' = pipeline /\ isKafkaPipeline' = isKafkaPipeline
        BY <2>3, SameSets DEF Turn
      <3> QED
        BY <1>t, <1>1, <1>4, <2>2, <2>4, <3>1 DEF SessionOK, SessionReady, LoopIs, Reading
    <2>6. slot[s].touched <= slot'[s].touched /\ slot[s].failures <= slot'[s].failures
      BY <1>t, <2>2 DEF Slot
    <2> QED
      BY <1>t, <2>1, <2>3, <2>5, <2>6, SamplesStay, TurnKeeps, TurnFairly
  <1> QED
    BY <1>5, <1>6

\* A batch is pending, a commit is sent, the context ends.
LEMMA BatchStep ==
  ASSUME HealthInv, NEW s \in Slots, BatchPending(s) \/ CommitOffsets(s) \/ Interrupted(s)
  PROVE  HealthInv' /\ Fairly
  <1>t. HealthShape /\ SessionOK(s) /\ slot[s] \in Slot /\ loop[s] \in Loop /\ kafka \in Kafka
    BY DEF HealthInv, HealthShape, SessionInv
  <1>1. /\ UNCHANGED <<pipeline, pipe, sample, probe, page, down>> /\ (Calm \/ Disturb) /\ loop[s].at \in Reading
    BY DEF BatchPending, CommitOffsets, Interrupted, SlotFrame, At, Reading
  <1>2. /\ slot' \in [Slots -> Slot] /\ OnlySlot(s)
        /\ SlotIs(slot'[s], slot[s].started, slot[s].session, slot[s].active, slot[s].eligible, slot[s].version,
                  slot[s].proof, slot[s].failures, slot[s].touched)
    <2>1. CASE BatchPending(s)
      <3> DEFINE part == [pending |-> TRUE, old |-> FALSE]
      <3>1. slot' = [slot EXCEPT ![s] = [slot[s] EXCEPT !.part = part]]
        BY <2>1 DEF BatchPending
      <3>2. part \in [pending : BOOLEAN, old : BOOLEAN]
        OBVIOUS
      <3> HIDE DEF part
      <3>3. SlotIs([slot[s] EXCEPT !.part = part], slot[s].started, slot[s].session, slot[s].active, slot[s].eligible,
                   slot[s].version, slot[s].proof, slot[s].failures, slot[s].touched)
        BY <1>t, <3>2, PartitionIs
      <3> QED
        BY <1>t, <3>1, <3>3, SetSlot DEF SlotIs
    <2>2. CASE CommitOffsets(s) \/ Interrupted(s)
      <3>1. slot' = slot
        BY <2>2 DEF CommitOffsets, Interrupted
      <3> QED
        BY <1>t, <3>1, KeepSlots DEF SlotIs
    <2> QED
      BY <2>1, <2>2
  <1>3. PICK at \in Places :
          /\ loop' \in [Slots -> Loop] /\ OnlyLoop(s) /\ LoopIs(loop'[s], at, loop[s].reg, loop[s].broken)
          /\ at = loop[s].at \/ (loop[s].at \in Reading /\ at \in Reading)
    <2>1. CASE BatchPending(s)
      <3>1. loop' = loop /\ loop[s].at \in Places
        BY <1>t, <2>1 DEF BatchPending, Loop
      <3> QED
        BY <1>t, <3>1, KeepLoops DEF LoopIs
    <2>2. CASE CommitOffsets(s) \/ Interrupted(s)
      <3>1. PICK where \in {"committed", "closing"} : Go(s, where)
        BY <2>2 DEF CommitOffsets, Interrupted
      <3>2. where \in Places /\ where \in Reading
        BY DEF Places, Reading
      <3> QED
        BY <1>t, <1>1, <3>1, <3>2, GoIs
    <2> QED
      BY <2>1, <2>2
  <1>4. kafka' \in Kafka
    <2>1. kafka' = kafka \/ kafka' = [kafka EXCEPT !.lag = kafka.lag \ {s}]
      BY DEF BatchPending, CommitOffsets, Interrupted, SlotFrame
    <2>2. kafka.lag \ {s} \in SUBSET Slots
      BY <1>t DEF Kafka
    <2> QED
      BY <1>t, <2>1, <2>2 DEF Kafka
  <1>5. Turn(s)
    BY <1>t, <1>1, <1>2, <1>3, <1>4 DEF Turn, HealthShape
  <1>6. SessionOK(s)'
    BY <1>t, <1>1, <1>2, <1>3, SessionStays
  <1>7. slot[s].touched <= slot'[s].touched /\ slot[s].failures <= slot'[s].failures
    BY <1>t, <1>2 DEF SlotIs, Slot
  <1> QED
    BY <1>t, <1>1, <1>5, <1>6, <1>7, SamplesStay, TurnKeeps, TurnFairly

\* A commit has been acknowledged: the slot's failures are forgiven by its own commit.
LEMMA CommittedStep ==
  ASSUME HealthInv, NEW s \in Slots, Committed(s)
  PROVE  HealthInv' /\ Fairly
  <1>t. HealthShape /\ SessionOK(s) /\ slot[s] \in Slot /\ loop[s] \in Loop /\ kafka \in Kafka /\ pipe \in Pipe
    BY DEF HealthInv, HealthShape, SessionInv
  <1>1. /\ loop[s].at = "committed" /\ UNCHANGED <<pipeline, kafka, probe, page, down>> /\ Calm
        /\ \E where \in {"run", "report"} : Go(s, where)
    BY DEF Committed, At
  <1>2. PICK where \in {"run", "report"} : Go(s, where)
    BY <1>1
  <1>3. /\ loop' \in [Slots -> Loop] /\ OnlyLoop(s) /\ LoopIs(loop'[s], where, loop[s].reg, loop[s].broken)
    BY <1>t, <1>2, GoIs DEF Places
  <1>4. loop[s].at \in Reading /\ where \in Reading
    BY <1>1 DEF Reading
  <1>5. CASE Recorded(s)
    <2> DEFINE new == [markKafkaConsumerSlotSuccess(slot[s]) EXCEPT !.part = NoPartition]
    <2>1. /\ slot' = [slot EXCEPT ![s] = new] /\ pipe' = [pipe EXCEPT !.moving = TRUE] /\ sample' = Missed(sample)
      BY <1>5 DEF Committed
    <2>2. SlotIs(new, slot[s].started, slot[s].session, slot[s].active, slot[s].eligible, slot[s].version,
                 slot[s].proof, 0, slot[s].touched + 1)
      <3>1. SlotIs(markKafkaConsumerSlotSuccess(slot[s]), slot[s].started, slot[s].session, slot[s].active, slot[s].eligible,
                   slot[s].version, slot[s].proof, 0, slot[s].touched + 1)
        BY <1>t, SuccessIs
      <3>2. NoPartition \in [pending : BOOLEAN, old : BOOLEAN]
        BY DEF NoPartition
      <3>3. markKafkaConsumerSlotSuccess(slot[s]) \in Slot
        BY <3>1 DEF SlotIs
      <3> HIDE DEF NoPartition
      <3> QED
        BY <3>1, <3>2, <3>3, PartitionIs DEF SlotIs
    <2> HIDE DEF new
    <2>3. /\ slot' \in [Slots -> Slot] /\ OnlySlot(s)
          /\ SlotIs(slot'[s], slot[s].started, slot[s].session, slot[s].active, slot[s].eligible, slot[s].version,
                    slot[s].proof, 0, slot[s].touched + 1)
      BY <1>t, <2>1, <2>2, SetSlot DEF SlotIs
    <2>4. slot[s].touched < slot'[s].touched
      BY <1>t, <2>3 DEF SlotIs, Slot
    <2>5. pipe' \in Pipe
      BY <1>t, <2>1 DEF Pipe
    <2>6. Turn(s)
      BY <1>t, <1>1, <1>3, <2>3, <2>5 DEF Turn
    <2>7. SamplesKept
      BY <1>t, <2>1, <2>4, SamplesMiss
    <2>8. SessionOK(s)'
      BY <1>t, <1>1, <1>3, <1>4, <2>3, SessionStays
    <2>9. slot[s].touched <= slot'[s].touched
      BY <1>t, <2>3 DEF SlotIs, Slot
    <2>10. HealthInv'
      BY <2>6, <2>7, <2>8, <2>9, TurnKeeps
    <2>11. Fairly
      <3>1. loop'[s].at # "committed"
        BY <1>3 DEF LoopIs
      <3>2. \A q \in Slots : q # s => slot'[q].failures = slot[q].failures /\ slot[q].failures \in Nat
        BY <1>t, <2>3 DEF OnlySlot, HealthShape, Slot
      <3> QED
        BY <1>1, <3>1, <3>2 DEF Fairly
    <2> QED
      BY <2>10, <2>11
  <1>6. CASE ~Recorded(s)
    <2>1. slot' = slot /\ pipe' = pipe /\ sample' = sample
      BY <1>6 DEF Committed
    <2>2. /\ slot' \in [Slots -> Slot] /\ OnlySlot(s)
          /\ SlotIs(slot'[s], slot[s].started, slot[s].session, slot[s].active, slot[s].eligible, slot[s].version,
                    slot[s].proof, slot[s].failures, slot[s].touched)
      BY <1>t, <2>1, KeepSlots DEF SlotIs
    <2>3. Turn(s)
      BY <1>t, <1>1, <1>3, <2>1, <2>2 DEF Turn
    <2>4. SessionOK(s)'
      BY <1>t, <1>1, <1>3, <1>4, <2>2, SessionStays
    <2>5. slot[s].touched <= slot'[s].touched /\ slot[s].failures <= slot'[s].failures
      BY <1>t, <2>2 DEF SlotIs, Slot
    <2> QED
      BY <1>t, <2>1, <2>3, <2>4, <2>5, SamplesStay, TurnKeeps, TurnFairly
  <1> QED
    BY <1>5, <1>6
-----------------------------------------------------------------------------
(* The broker, the relay and the samples.                                  *)

\* The number of slots with a message left.
LEMMA LagCounts ==
  ASSUME HealthShape
  PROVE  Cardinality(kafka.lag) \in Backlogs /\ Cardinality(Slots) \in Nat
  <1>1. IsFiniteSet(Slots) /\ kafka.lag \subseteq Slots
    BY DEF HealthShape, Slots, Kafka
  <1> QED
    BY <1>1, FS_Subset, FS_CardinalityType DEF Backlogs

\* A backlog that has been measured.
LEMMA BacklogIs ==
  ASSUME HealthShape, NEW n \in Backlogs
  PROVE  WithBacklog(pipe, n) \in Pipe
  <1> DEFINE moving == pipe.moving \/ n = 0 \/ pipe.backlog <= 0 \/ n < pipe.backlog
  <1>1. pipe \in Pipe /\ pipe.moving \in BOOLEAN
    BY DEF HealthShape, Pipe
  <1>2. WithBacklog(pipe, n) = [pipe EXCEPT !.backlog = n, !.moving = moving]
    BY DEF WithBacklog
  <1>3. moving \in BOOLEAN
    BY <1>1
  <1> HIDE DEF moving
  <1> QED
    BY <1>1, <1>2, <1>3 DEF Pipe

\* A step that leaves the slots and their loops alone.
LEMMA QuietKeeps ==
  ASSUME HealthInv, UNCHANGED <<pipeline, slot, loop, page, down>>, pipe' \in Pipe, kafka' \in Kafka,
         probe' \in [at : {"idle", "store", "ended"}, ready : BOOLEAN],
         probe'.at = "ended" => probe.at = "ended",
         Calm \/ Disturb, sample' \in [Samplers -> Sample], SampleInv'
  PROVE  HealthInv' /\ Fairly
  <1>1. events' \in 0..pipeline'.budget
    BY EventsStep DEF HealthInv
  <1>2. HealthShape'
    BY <1>1, SameSets DEF HealthInv, HealthShape
  <1>3. SessionInv'
    BY SameSessionsStep DEF HealthInv
  <1>4. ProbeInv'
    BY DEF HealthInv, ProbeInv
  <1>5. Fairly
    <2>1. \A s \in Slots : slot[s].failures \in Nat
      BY DEF HealthInv, HealthShape, Slot
    <2> QED
      BY <2>1 DEF Fairly
  <1> QED
    BY <1>2, <1>3, <1>4, <1>5 DEF HealthInv

\* Samples that are not disturbed by a step that leaves the slots alone.
LEMMA QuietSamples ==
  ASSUME HealthInv, UNCHANGED <<pipeline, slot, sample>>
  PROVE  sample' \in [Samplers -> Sample] /\ SampleInv'
  <1>1. \A s \in Slots : slot[s].touched <= slot'[s].touched
    BY DEF HealthInv, HealthShape, Slot
  <1>2. slot' \in [Slots -> Slot]
    BY DEF HealthInv, HealthShape
  <1>3. SamplesKept
    BY SamplesStay DEF HealthInv
  <1> QED
    BY <1>1, <1>2, <1>3, SamplesKeptInv DEF HealthInv, SamplesKept

\* The broker: members join and leave, the group rebalances, messages arrive.
LEMMA BrokerStep ==
  ASSUME HealthInv,
         \/ \E s \in Slots : Joins(s) \/ Message(s)
         \/ \E m \in kafka.members : Leaves(m)
         \/ Rebalances \/ Settles
  PROVE  HealthInv' /\ Fairly
  <1>1. UNCHANGED <<pipeline, slot, pipe, loop, sample, probe, page, down>> /\ (Calm \/ Disturb)
    BY DEF Joins, Message, Leaves, Rebalances, Settles, KafkaFrame
  <1>t. kafka \in Kafka
    BY DEF HealthInv, HealthShape
  <1>2. kafka' \in Kafka
    <2>1. ASSUME NEW s \in Slots, Joins(s)
          PROVE  kafka' \in Kafka
      <3>1. loop[s].reg \in Nat
        BY DEF HealthInv, HealthShape, Loop
      <3>2. kafka.members \cup {Client(s, loop[s].reg)} \in SUBSET (Slots \X Nat)
        BY <1>t, <3>1 DEF Kafka, Client
      <3>3. kafka' = [kafka EXCEPT !.members = kafka.members \cup {Client(s, loop[s].reg)}]
        BY <2>1 DEF Joins
      <3> QED
        BY <1>t, <3>2, <3>3 DEF Kafka
    <2>2. ASSUME NEW s \in Slots, Message(s)
          PROVE  kafka' \in Kafka
      <3>1. kafka.lag \cup {s} \in SUBSET Slots
        BY <1>t DEF Kafka
      <3>2. kafka' = [kafka EXCEPT !.lag = kafka.lag \cup {s}]
        BY <2>2 DEF Message
      <3> QED
        BY <1>t, <3>1, <3>2 DEF Kafka
    <2>3. \A gone : kafka.members \ gone \in SUBSET (Slots \X Nat)
      BY <1>t DEF Kafka
    <2>4. CASE \E m \in kafka.members : Leaves(m)
      <3>1. PICK m \in kafka.members : kafka' = [kafka EXCEPT !.members = kafka.members \ {m}]
        BY <2>4 DEF Leaves
      <3> QED
        BY <1>t, <2>3, <3>1 DEF Kafka
    <2>5. CASE Rebalances
      <3>1. PICK gone : kafka' = [kafka EXCEPT !.stable = FALSE, !.members = kafka.members \ gone]
        BY <2>5 DEF Rebalances
      <3> QED
        BY <1>t, <2>3, <3>1 DEF Kafka
    <2>6. CASE Settles
      BY <1>t, <2>6 DEF Settles, Kafka
    <2> QED
      BY <2>1, <2>2, <2>4, <2>5, <2>6
  <1>3. sample' \in [Samplers -> Sample] /\ SampleInv'
    BY <1>1, QuietSamples
  <1> QED
    BY <1>1, <1>2, <1>3, QuietKeeps DEF HealthInv, HealthShape

\* A relay starts, is idle, fails and stops.
LEMMA RelayStep ==
  ASSUME HealthInv, PipelineStarted \/ PipelineIdle \/ PipelineFailure \/ PipelineStopped
  PROVE  HealthInv' /\ Fairly
  <1>1. UNCHANGED <<pipeline, slot, loop, sample, probe, page, down>> /\ (Calm \/ Disturb)
    BY DEF PipelineStarted, PipelineIdle, PipelineFailure, PipelineStopped, PlainFrame
  <1>t. kafka \in Kafka /\ pipe \in Pipe
    BY DEF HealthInv, HealthShape
  <1>2. kafka' \in Kafka
    <2>1. kafka' = kafka \/ kafka' = [kafka EXCEPT !.lag = {}]
      BY DEF PipelineStarted, PipelineIdle, PipelineFailure, PipelineStopped
    <2> QED
      BY <1>t, <2>1 DEF Kafka
  <1>3. pipe' \in Pipe
    <2>1. CASE PipelineStarted \/ PipelineStopped
      <3>1. pipe' = [pipe EXCEPT !.active = 1] \/ pipe' = [pipe EXCEPT !.active = 0]
        BY <2>1 DEF PipelineStarted, PipelineStopped
      <3> QED
        BY <1>t, <3>1 DEF Pipe
    <2> DEFINE measured == WithBacklog(pipe, 0)
    <2>2. measured \in Pipe
      <3>1. 0 \in Backlogs
        BY LagCounts DEF HealthInv, Backlogs
      <3> QED
        BY <3>1, BacklogIs DEF HealthInv
    <2>3. PipelineIdle => pipe' = [measured EXCEPT !.failures = 0, !.moving = TRUE]
      BY DEF PipelineIdle
    <2>4. PipelineFailure => pipe' = [measured EXCEPT !.failures = measured.failures + 1]
      BY DEF PipelineFailure
    <2> HIDE DEF measured
    <2>5. measured.failures + 1 \in Nat
      BY <2>2 DEF Pipe
    <2>6. CASE PipelineIdle
      <3>1. pipe' = [measured EXCEPT !.failures = 0, !.moving = TRUE]
        BY <2>3, <2>6
      <3>2. 0 \in Nat /\ TRUE \in BOOLEAN
        OBVIOUS
      <3> QED
        BY <2>2, <3>1, <3>2 DEF Pipe
    <2>7. CASE PipelineFailure
      BY <2>2, <2>4, <2>5, <2>7 DEF Pipe
    <2> QED
      BY <2>1, <2>6, <2>7
  <1>4. sample' \in [Samplers -> Sample] /\ SampleInv'
    BY <1>1, QuietSamples
  <1> QED
    BY <1>1, <1>2, <1>3, <1>4, QuietKeeps DEF HealthInv, HealthShape

\* A step of one sample, which leaves the slots alone.
LEMMA OneSample ==
  ASSUME HealthInv, SampleFrame, slot' = slot, pipe' \in Pipe, Calm \/ Disturb, NEW p \in Samplers,
         sample' \in [Samplers -> Sample], SampleOK(p)', \A q \in Samplers : q # p => SampleSame(q)
  PROVE  HealthInv' /\ Fairly
  <1>1. UNCHANGED <<pipeline, loop, kafka, probe, page, down>>
    BY DEF SampleFrame
  <1>2. /\ \A s \in Slots : slot[s].touched <= slot'[s].touched
        /\ slot' \in [Slots -> Slot]
    BY DEF HealthInv, HealthShape, Slot
  <1>3. \A q \in Samplers : q # p => SampleOK(q)'
    BY <1>1, <1>2, SampleSameOK DEF HealthInv, SampleInv
  <1>4. SampleInv'
    BY <1>3 DEF SampleInv
  <1> QED
    BY <1>1, <1>4, QuietKeeps DEF HealthInv, HealthShape

\* A sample begins: it keeps every slot as it is.
LEMMA BeginStep ==
  ASSUME HealthInv, NEW p \in Samplers, beginKafkaBacklogSample(p)
  PROVE  HealthInv' /\ Fairly
  <1>t. HealthShape /\ sample \in [Samplers -> Sample] /\ slot \in [Slots -> Slot]
    BY DEF HealthInv, HealthShape
  <1> DEFINE slots == [s \in Slots |-> Sampled(slot[s])]
             recover == Failures > 0 /\ FailureKinds = {"transport"} /\ \A s \in Slots : SessionReady(slot[s])
             new == [NoSample EXCEPT !.at = "query", !.slots = slots, !.newest = TRUE, !.unmoved = TRUE, !.recover = recover]
             past(q) == [sample[q] EXCEPT !.newest = FALSE, !.unmoved = FALSE]
  <1>1. /\ isKafkaPipeline /\ Calm /\ UNCHANGED <<slot, pipe>> /\ SampleFrame
        /\ sample' = [q \in Samplers |-> IF q = p THEN new ELSE past(q)]
    BY DEF beginKafkaBacklogSample
  <1>2. slots \in [Slots -> RecoverySlot] /\ \A s \in Slots : slots[s].touched = slot[s].touched
    <2>1. ASSUME NEW s \in Slots
          PROVE  Sampled(slot[s]) \in RecoverySlot /\ Sampled(slot[s]).touched = slot[s].touched
      <3>1. slot[s] \in Slot
        BY <1>t
      <3> QED
        BY <3>1 DEF Sampled, RecoverySlot, Slot
    <2> QED
      BY <2>1
  <1>3. recover \in BOOLEAN
    OBVIOUS
  <1>4. Cardinality(Slots) \in Nat
    BY <1>t, LagCounts
  <1> HIDE DEF slots, recover
  <1>5. NoSample \in Sample
    BY DEF NoSample, Sample
  <1>6. new \in Sample
    <2>1. slots \in [Slots -> RecoverySlot] \cup {<<>>}
      BY <1>2
    <2> QED
      BY <1>3, <1>5, <2>1 DEF Sample
  <1>7. /\ new.at = "query" /\ new.slots = slots /\ new.group = "none" /\ new.late = "no" /\ new.hurt = FALSE
    BY DEF NoSample
  <1>8. ASSUME NEW q \in Samplers
        PROVE  /\ past(q) \in Sample
               /\ past(q).at = sample[q].at /\ past(q).slots = sample[q].slots /\ past(q).recover = sample[q].recover
               /\ past(q).lag = sample[q].lag /\ past(q).group = sample[q].group /\ past(q).late = sample[q].late
               /\ past(q).hurt = sample[q].hurt
    <2>1. sample[q] \in Sample
      BY <1>t
    <2> QED
      BY <2>1 DEF Sample
  <1> HIDE DEF new, past
  <1>9. sample' \in [Samplers -> Sample]
    BY <1>1, <1>6, <1>8
  <1>10. \A q \in Samplers : q # p => SampleSame(q)
    BY <1>1, <1>8 DEF SampleSame
  <1>11. SampleOK(p)'
    <2>1. sample'[p] = new /\ slot' = slot /\ pipeline' = pipeline
      BY <1>1 DEF SampleFrame
    <2>2. Slots' = Slots /\ isKafkaPipeline' = isKafkaPipeline /\ RecoverySlot' = RecoverySlot
      BY <2>1 DEF Slots, isKafkaPipeline, RecoverySlot, Kinds
    <2>3. \A s \in Slots : slots[s].touched <= slot[s].touched
      BY <1>t, <1>2 DEF Slot
    <2> QED
      BY <1>1, <1>2, <1>7, <2>1, <2>2, <2>3 DEF SampleOK
  <1>12. pipe' \in Pipe
    BY <1>1 DEF HealthInv, HealthShape
  <1> QED
    BY <1>1, <1>9, <1>10, <1>11, <1>12, OneSample
\* A sample is set, and the others are as they were.
LEMMA SetSample ==
  ASSUME HealthShape, NEW p \in Samplers, NEW new \in Sample, sample' = [sample EXCEPT ![p] = new]
  PROVE  /\ sample' \in [Samplers -> Sample] /\ sample'[p] = new
         /\ \A q \in Samplers : q # p => SampleSame(q)
  BY DEF HealthShape, SampleSame

\* The lag of the committed offsets, or an error.
LEMMA LagAnswerStep ==
  ASSUME HealthInv, NEW p \in Samplers, LagAnswers(p)
  PROVE  HealthInv' /\ Fairly
  <1>t. HealthShape /\ sample[p] \in Sample /\ SampleOK(p)
    BY DEF HealthInv, HealthShape, SampleInv
  <1>1. /\ sample[p].at = "query" /\ UNCHANGED <<slot, pipe>> /\ SampleFrame /\ (Calm \/ Disturb)
        /\ \E lag \in {Cardinality(kafka.lag), -2} : sample' = [sample EXCEPT ![p].lag = lag]
    BY DEF LagAnswers
  <1>2. PICK lag \in Backlogs \cup {-1, -2} : sample' = [sample EXCEPT ![p] = [sample[p] EXCEPT !.lag = lag]]
    BY <1>t, <1>1, LagCounts
  <1>3. Cardinality(Slots) \in Nat
    BY <1>t, LagCounts
  <1> DEFINE new == [sample[p] EXCEPT !.lag = lag]
  <1>4. /\ new \in Sample /\ new.at = sample[p].at /\ new.slots = sample[p].slots /\ new.recover = sample[p].recover
        /\ new.group = sample[p].group /\ new.late = sample[p].late /\ new.hurt = sample[p].hurt
    BY <1>t DEF Sample
  <1> HIDE DEF new
  <1>5. /\ sample' \in [Samplers -> Sample] /\ sample'[p] = new
        /\ \A q \in Samplers : q # p => SampleSame(q)
    BY <1>t, <1>2, <1>4, SetSample DEF new
  <1>6. SampleOK(p)'
    <2>1. slot' = slot /\ pipeline' = pipeline
      BY <1>1 DEF SampleFrame
    <2>2. Slots' = Slots /\ isKafkaPipeline' = isKafkaPipeline /\ RecoverySlot' = RecoverySlot
      BY <2>1 DEF Slots, isKafkaPipeline, RecoverySlot, Kinds
    <2> QED
      BY <1>t, <1>1, <1>4, <1>5, <2>1, <2>2 DEF SampleOK
  <1>7. pipe' \in Pipe
    BY <1>1 DEF HealthInv, HealthShape
  <1> QED
    BY <1>1, <1>5, <1>6, <1>7, OneSample

\* The group's members are those of the sampled sessions, or they are not.
LEMMA GroupAnswerStep ==
  ASSUME HealthInv, NEW p \in Samplers, GroupAnswers(p)
  PROVE  HealthInv' /\ Fairly
  <1>t. HealthShape /\ sample[p] \in Sample /\ SampleOK(p)
    BY DEF HealthInv, HealthShape, SampleInv
  <1>1. /\ sample[p].at = "query" /\ sample[p].late = "no" /\ UNCHANGED <<slot, pipe>> /\ SampleFrame /\ (Calm \/ Disturb)
    BY DEF GroupAnswers
  <1>2. PICK group \in {"matched", "unmatched"} :
          /\ sample' = [sample EXCEPT ![p] = [sample[p] EXCEPT !.group = group]]
          /\ group = "matched" => GroupMatches(sample[p].slots)
    BY DEF GroupAnswers
  <1> DEFINE new == [sample[p] EXCEPT !.group = group]
  <1>3. /\ new \in Sample /\ new.at = sample[p].at /\ new.slots = sample[p].slots /\ new.recover = sample[p].recover
        /\ new.lag = sample[p].lag /\ new.group = group /\ new.late = sample[p].late /\ new.hurt = sample[p].hurt
    BY <1>t DEF Sample
  <1> HIDE DEF new
  <1>4. /\ sample' \in [Samplers -> Sample] /\ sample'[p] = new
        /\ \A q \in Samplers : q # p => SampleSame(q)
    BY <1>t, <1>2, <1>3, SetSample DEF new
  <1>5. SampleOK(p)'
    <2>1. slot' = slot /\ pipeline' = pipeline
      BY <1>1 DEF SampleFrame
    <2>2. Slots' = Slots /\ isKafkaPipeline' = isKafkaPipeline /\ RecoverySlot' = RecoverySlot
      BY <2>1 DEF Slots, isKafkaPipeline, RecoverySlot, Kinds
    <2>3. group = "matched" => \A s \in Slots : SessionReady(sample[p].slots[s])
      BY <1>2 DEF GroupMatches
    <2> QED
      BY <1>t, <1>1, <1>3, <1>4, <2>1, <2>2, <2>3 DEF SampleOK
  <1>6. pipe' \in Pipe
    BY <1>1 DEF HealthInv, HealthShape
  <1> QED
    BY <1>1, <1>4, <1>5, <1>6, OneSample

\* What is left of a sample that has run out of a budget.
LEMMA OutOfTimeIs ==
  ASSUME HealthShape, NEW sm \in Sample, NEW late \in {"group", "all"}
  PROVE  OutOfTime(sm, late) \in Sample /\ OutOfTime(sm, late).at = sm.at /\ OutOfTime(sm, late).late = late
  <1>1. NoSample \in Sample
    BY LagCounts DEF NoSample, Sample
  <1>2. CASE late = "all"
    BY <1>1, <1>2 DEF OutOfTime, Sample
  <1>3. CASE late = "group"
    <2>1. <<>> \in [Slots -> RecoverySlot] \cup {<<>>}
      OBVIOUS
    <2>2. OutOfTime(sm, late) = [sm EXCEPT !.late = "group", !.slots = <<>>, !.group = "none", !.recover = FALSE,
                                            !.unmoved = FALSE, !.hurt = FALSE]
      BY <1>3 DEF OutOfTime
    <2> QED
      BY <1>3, <2>1, <2>2 DEF Sample
  <1> QED
    BY <1>2, <1>3

\* A sample runs out of its own budget, or out of the group query's.
LEMMA LateStep ==
  ASSUME HealthInv, NEW p \in Samplers, SampleLate(p)
  PROVE  HealthInv' /\ Fairly
  <1>t. HealthShape /\ sample[p] \in Sample /\ SampleOK(p)
    BY DEF HealthInv, HealthShape, SampleInv
  <1>1. /\ sample[p].at # "idle" /\ UNCHANGED <<slot, pipe>> /\ SampleFrame /\ (Calm \/ Disturb)
        /\ \E late \in {"group", "all"} : sample' = [sample EXCEPT ![p] = OutOfTime(sample[p], late)]
    BY DEF SampleLate
  <1>2. PICK late \in {"group", "all"} : sample' = [sample EXCEPT ![p] = OutOfTime(sample[p], late)]
    BY <1>1
  <1>3. /\ OutOfTime(sample[p], late) \in Sample /\ OutOfTime(sample[p], late).late = late
    BY <1>t, OutOfTimeIs
  <1>4. /\ sample' \in [Samplers -> Sample] /\ sample'[p] = OutOfTime(sample[p], late)
        /\ \A q \in Samplers : q # p => SampleSame(q)
    BY <1>t, <1>2, <1>3, SetSample
  <1>5. SampleOK(p)'
    <2>1. isKafkaPipeline' = isKafkaPipeline
      BY <1>1 DEF SampleFrame, isKafkaPipeline
    <2> QED
      BY <1>t, <1>1, <1>3, <1>4, <2>1 DEF SampleOK
  <1>6. pipe' \in Pipe
    BY <1>1 DEF HealthInv, HealthShape
  <1> QED
    BY <1>1, <1>4, <1>5, <1>6, OneSample

\* The backlog is recorded; the sample may recover only without one.
LEMMA RecordBacklogStep ==
  ASSUME HealthInv, NEW p \in Samplers, recordKafkaBacklogSample(p)
  PROVE  HealthInv' /\ Fairly
  <1>t. HealthShape /\ sample[p] \in Sample /\ SampleOK(p) /\ pipe \in Pipe
    BY DEF HealthInv, HealthShape, SampleInv
  <1>1. /\ sample[p].at = "query" /\ slot' = slot /\ SampleFrame /\ Calm
        /\ \/ /\ pipe' = IF LagValid(p) THEN [WithBacklog(pipe, sample[p].lag) EXCEPT !.valid = TRUE, !.fresh = TRUE]
                         ELSE [pipe EXCEPT !.valid = FALSE]
              /\ sample' = [sample EXCEPT ![p] = [sample[p] EXCEPT !.at = "group",
                                                    !.recover = sample[p].recover /\ LagValid(p) /\ sample[p].lag = 0]]
           \/ pipe' = pipe /\ sample' = [sample EXCEPT ![p] = [sample[p] EXCEPT !.at = "group", !.recover = FALSE]]
    <2>1. sample[p].at = "query" /\ slot' = slot /\ SampleFrame /\ Calm
      BY DEF recordKafkaBacklogSample
    <2>2. CASE sample[p].newest /\ down = "no"
      <3>1. pipe' = IF LagValid(p) THEN [WithBacklog(pipe, sample[p].lag) EXCEPT !.valid = TRUE, !.fresh = TRUE]
                    ELSE [pipe EXCEPT !.valid = FALSE]
        BY <2>2 DEF recordKafkaBacklogSample
      <3>2. sample' = [sample EXCEPT ![p] = [sample[p] EXCEPT !.at = "group",
                                               !.recover = sample[p].recover /\ LagValid(p) /\ sample[p].lag = 0]]
        BY <2>2 DEF recordKafkaBacklogSample
      <3> QED
        BY <2>1, <3>1, <3>2, Zenon
    <2>3. CASE ~(sample[p].newest /\ down = "no")
      BY <2>1, <2>3 DEF recordKafkaBacklogSample
    <2> QED
      BY <2>2, <2>3
  <1>2. PICK recover \in BOOLEAN : /\ sample' = [sample EXCEPT ![p] = [sample[p] EXCEPT !.at = "group", !.recover = recover]]
                                   /\ recover => sample[p].lag = 0
    <2>1. sample[p].recover /\ LagValid(p) /\ sample[p].lag = 0 => sample[p].lag = 0
      OBVIOUS
    <2>2. (sample[p].recover /\ LagValid(p) /\ sample[p].lag = 0) \in BOOLEAN /\ FALSE \in BOOLEAN
      OBVIOUS
    <2> HIDE DEF LagValid
    <2> QED
      BY <1>1, <2>1, <2>2
  <1> DEFINE new == [sample[p] EXCEPT !.at = "group", !.recover = recover]
  <1>3. /\ new \in Sample /\ new.at = "group" /\ new.slots = sample[p].slots /\ new.recover = recover
        /\ new.lag = sample[p].lag /\ new.group = sample[p].group /\ new.late = sample[p].late /\ new.hurt = sample[p].hurt
    BY <1>t DEF Sample
  <1> HIDE DEF new
  <1>4. /\ sample' \in [Samplers -> Sample] /\ sample'[p] = new
        /\ \A q \in Samplers : q # p => SampleSame(q)
    BY <1>t, <1>2, <1>3, SetSample DEF new
  <1>5. SampleOK(p)'
    <2>1. slot' = slot /\ pipeline' = pipeline
      BY <1>1 DEF SampleFrame
    <2>2. Slots' = Slots /\ isKafkaPipeline' = isKafkaPipeline /\ RecoverySlot' = RecoverySlot
      BY <2>1 DEF Slots, isKafkaPipeline, RecoverySlot, Kinds
    <2> QED
      BY <1>t, <1>1, <1>2, <1>3, <1>4, <2>1, <2>2 DEF SampleOK
  <1>6. pipe' \in Pipe
    <2>1. CASE LagValid(p)
      <3> DEFINE measured == WithBacklog(pipe, sample[p].lag)
      <3>1. sample[p].lag \in Backlogs
        BY <1>t, <2>1, LagCounts DEF LagValid, Sample
      <3>2. measured \in Pipe
        BY <1>t, <3>1, BacklogIs
      <3>3. pipe' = [measured EXCEPT !.valid = TRUE, !.fresh = TRUE] \/ pipe' = pipe
        BY <1>1, <2>1
      <3> HIDE DEF measured
      <3> QED
        BY <1>t, <3>2, <3>3 DEF Pipe
    <2>2. CASE ~LagValid(p)
      <3>1. pipe' = [pipe EXCEPT !.valid = FALSE] \/ pipe' = pipe
        BY <1>1, <2>2
      <3> QED
        BY <1>t, <3>1 DEF Pipe
    <2> QED
      BY <2>1, <2>2
  <1> QED
    BY <1>1, <1>4, <1>5, <1>6, OneSample
\* The group's answer proves the sessions that are the ones sampled, or none.
LEMMA MembershipStep ==
  ASSUME HealthInv, NEW p \in Samplers, recordKafkaMembershipSample(p)
  PROVE  HealthInv' /\ Fairly
  <1>t. /\ HealthShape /\ sample[p] \in Sample /\ SampleOK(p) /\ slot \in [Slots -> Slot]
        /\ \A s \in Slots : slot[s] \in Slot /\ SessionOK(s)
    BY DEF HealthInv, HealthShape, SampleInv, SessionInv
  <1>1. sample[p].at = "group" /\ UNCHANGED <<pipeline, pipe, loop, kafka, probe, page, down>> /\ Calm
    BY DEF recordKafkaMembershipSample, SampleFrame
  <1>2. /\ slot' \in [Slots -> Slot]
        /\ \A s \in Slots :
             \/ slot'[s] = slot[s]
             \/ \E proof \in {0, slot[s].version} :
                  /\ SlotIs(slot'[s], slot[s].started, slot[s].session, slot[s].active, slot[s].eligible, slot[s].version,
                            proof, slot[s].failures, slot[s].touched)
                  /\ proof # 0 => MembershipCurrent(p) /\ sample[p].group = "matched"
    <2>1. ASSUME NEW s \in Slots, NEW proof \in Nat, NEW fresh \in BOOLEAN
          PROVE  SlotIs([slot[s] EXCEPT !.proof = proof, !.fresh = fresh], slot[s].started, slot[s].session, slot[s].active,
                        slot[s].eligible, slot[s].version, proof, slot[s].failures, slot[s].touched)
      BY <1>t DEF SlotIs, Slot
    <2>2. \A s \in Slots : slot[s].version \in Nat /\ 0 \in Nat
      BY <1>t DEF Slot
    <2>3. CASE ~MembershipCurrent(p)
      <3>1. slot' = slot
        BY <2>3 DEF recordKafkaMembershipSample
      <3> QED
        BY <1>t, <3>1
    <2>4. CASE MembershipCurrent(p) /\ sample[p].group = "matched"
      <3>1. slot' = [s \in Slots |-> [slot[s] EXCEPT !.proof = slot[s].version, !.fresh = TRUE]]
        BY <2>4 DEF recordKafkaMembershipSample
      <3>2. \A s \in Slots :
              SlotIs(slot'[s], slot[s].started, slot[s].session, slot[s].active, slot[s].eligible, slot[s].version,
                     slot[s].version, slot[s].failures, slot[s].touched)
        BY <2>1, <2>2, <3>1
      <3>3. \A s \in Slots : slot'[s] \in Slot
        BY <3>2 DEF SlotIs
      <3> QED
        BY <2>4, <3>1, <3>2, <3>3
    <2>5. CASE MembershipCurrent(p) /\ sample[p].group # "matched"
      <3>1. slot' = [s \in Slots |-> [slot[s] EXCEPT !.proof = 0, !.fresh = FALSE]]
        BY <2>5 DEF recordKafkaMembershipSample
      <3>2. \A s \in Slots :
              SlotIs(slot'[s], slot[s].started, slot[s].session, slot[s].active, slot[s].eligible, slot[s].version,
                     0, slot[s].failures, slot[s].touched)
        BY <2>1, <2>2, <3>1
      <3>3. \A s \in Slots : slot'[s] \in Slot
        BY <3>2 DEF SlotIs
      <3> QED
        BY <3>1, <3>2, <3>3
    <2> QED
      BY <2>3, <2>4, <2>5
  <1>3. isKafkaPipeline /\ isKafkaPipeline' = isKafkaPipeline /\ Slots' = Slots
    BY <1>t, <1>1, SameSets DEF SampleOK
  <1>4. SessionInv'
    <2>1. ASSUME NEW s \in Slots
          PROVE  SessionOK(s)'
      <3>1. CASE slot'[s] = slot[s]
        BY <1>t, <1>1, <1>3, <3>1 DEF SessionOK
      <3>2. ASSUME NEW proof \in {0, slot[s].version},
                   SlotIs(slot'[s], slot[s].started, slot[s].session, slot[s].active, slot[s].eligible, slot[s].version,
                          proof, slot[s].failures, slot[s].touched),
                   proof # 0 => MembershipCurrent(p) /\ sample[p].group = "matched"
            PROVE  SessionOK(s)'
        <4>1. proof # 0 => SessionReady(slot[s]) /\ down = "no"
          <5>1. SUFFICES ASSUME MembershipCurrent(p), sample[p].group = "matched"
                         PROVE  SessionReady(slot[s]) /\ down = "no"
            BY <3>2
          <5>2. SessionReady(sample[p].slots[s])
            BY <1>t, <1>1, <5>1 DEF SampleOK, MembershipCurrent
          <5> QED
            BY <5>1, <5>2 DEF MembershipCurrent, SameSessions, SessionReady
        <4>2. slot[s].version \in Nat
          BY <1>t DEF Slot
        <4>3. proof # 0 => proof = slot[s].version
          OBVIOUS
        <4> QED
          BY <1>t, <1>1, <1>3, <3>2, <4>1, <4>2, <4>3 DEF SessionOK, SessionReady, SlotIs
      <3> QED
        BY <1>2, <3>1, <3>2
    <2> QED
      BY <1>3, <2>1 DEF SessionInv
  <1>5. \A s \in Slots : slot'[s].touched = slot[s].touched /\ slot'[s].failures = slot[s].failures
    BY <1>2 DEF SlotIs
  <1>6. Unforgiven /\ \A s \in Slots : slot[s].touched <= slot'[s].touched
    BY <1>t, <1>5 DEF Unforgiven, Slot
  <1>7. /\ sample' \in [Samplers -> Sample] /\ SampleOK(p)'
        /\ \A q \in Samplers : q # p => SampleSame(q)
    <2>1. NoSample \in Sample /\ NoSample.at = "idle"
      BY <1>t, LagCounts DEF NoSample, Sample
    <2>2. CASE sample' = [sample EXCEPT ![p] = NoSample]
      <3>1. sample'[p] = NoSample
        BY <1>t, <2>1, <2>2, SetSample
      <3> QED
        BY <1>t, <2>1, <2>2, <3>1, SetSample DEF SampleOK
    <2>3. CASE sample[p].recover /\ sample' = [sample EXCEPT ![p] = [sample[p] EXCEPT !.at = "recover"]]
      <3> DEFINE new == [sample[p] EXCEPT !.at = "recover"]
      <3>1. /\ new \in Sample /\ new.at = "recover" /\ new.slots = sample[p].slots /\ new.recover = sample[p].recover
            /\ new.lag = sample[p].lag /\ new.group = sample[p].group /\ new.late = sample[p].late
            /\ new.hurt = sample[p].hurt
        BY <1>t DEF Sample
      <3> HIDE DEF new
      <3>2. /\ sample' \in [Samplers -> Sample] /\ sample'[p] = new
            /\ \A q \in Samplers : q # p => SampleSame(q)
        BY <1>t, <2>3, <3>1, SetSample DEF new
      <3>3. SampleOK(p)'
        <4>1. RecoverySlot' = RecoverySlot
          BY DEF RecoverySlot, Kinds
        <4> QED
          BY <1>t, <1>1, <1>3, <1>5, <2>3, <3>1, <3>2, <4>1 DEF SampleOK
      <3> QED
        BY <3>2, <3>3
    <2>4. \/ sample' = [sample EXCEPT ![p] = NoSample]
          \/ sample[p].recover /\ sample' = [sample EXCEPT ![p] = [sample[p] EXCEPT !.at = "recover"]]
      <3>1. CASE MembershipCurrent(p) /\ sample[p].group = "matched" /\ sample[p].recover
        BY <3>1 DEF recordKafkaMembershipSample
      <3>2. CASE ~(MembershipCurrent(p) /\ sample[p].group = "matched" /\ sample[p].recover)
        BY <3>2 DEF recordKafkaMembershipSample
      <3> QED
        BY <3>1, <3>2
    <2> QED
      BY <2>2, <2>3, <2>4
  <1>8. SampleInv'
    <2>1. \A q \in Samplers : q # p => SampleOK(q)'
      BY <1>t, <1>1, <1>2, <1>6, <1>7, SampleSameOK DEF HealthInv, SampleInv
    <2> QED
      BY <1>7, <2>1 DEF SampleInv
  <1>9. HealthShape'
    <2>1. events' \in 0..pipeline'.budget
      BY <1>t, <1>1, EventsStep
    <2> QED
      BY <1>t, <1>1, <1>2, <1>7, <2>1, SameSets DEF HealthShape
  <1>10. ProbeInv'
    BY <1>1 DEF HealthInv, ProbeInv
  <1> QED
    BY <1>t, <1>2, <1>4, <1>6, <1>8, <1>9, <1>10, UnforgivenFairly DEF HealthInv

\* An idle sample forgives transport failures that nothing has followed.
LEMMA RecoverStep ==
  ASSUME HealthInv, NEW p \in Samplers, markKafkaIdleRecovered(p)
  PROVE  HealthInv' /\ Fairly
  <1>t. /\ HealthShape /\ sample[p] \in Sample /\ SampleOK(p) /\ slot \in [Slots -> Slot]
        /\ \A s \in Slots : slot[s] \in Slot /\ SessionOK(s)
    BY DEF HealthInv, HealthShape, SampleInv, SessionInv
  <1>1. /\ sample[p].at = "recover" /\ sample' = [sample EXCEPT ![p] = NoSample] /\ Calm
        /\ UNCHANGED <<pipeline, loop, kafka, probe, page, down>>
    BY DEF markKafkaIdleRecovered, SampleFrame
  <1>2. /\ sample' \in [Samplers -> Sample] /\ SampleOK(p)'
        /\ \A q \in Samplers : q # p => SampleSame(q)
    <2>1. NoSample \in Sample /\ NoSample.at = "idle"
      BY <1>t, LagCounts DEF NoSample, Sample
    <2>2. sample'[p] = NoSample
      BY <1>t, <1>1, <2>1, SetSample
    <2> QED
      BY <1>t, <1>1, <2>1, <2>2, SetSample DEF SampleOK
  <1>3. /\ slot' \in [Slots -> Slot] /\ pipe' \in Pipe
        /\ \A s \in Slots : \E failures, touched \in Nat :
             /\ SlotIs(slot'[s], slot[s].started, slot[s].session, slot[s].active, slot[s].eligible, slot[s].version,
                       slot[s].proof, failures, touched)
             /\ slot[s].touched <= touched
    <2>0. \A s \in Slots : SlotIs(slot[s], slot[s].started, slot[s].session, slot[s].active, slot[s].eligible, slot[s].version,
                                  slot[s].proof, slot[s].failures, slot[s].touched)
                           /\ slot[s].failures \in Nat /\ slot[s].touched \in Nat
      BY <1>t DEF SlotIs, Slot
    <2>1. CASE ~RecoveryHolds(p)
      <3>1. slot' = slot /\ pipe' = pipe
        BY <2>1 DEF markKafkaIdleRecovered
      <3> QED
        BY <1>t, <2>0, <3>1 DEF HealthShape
    <2>2. CASE RecoveryHolds(p)
      <3>1. /\ slot' = [s \in Slots |-> IF slot[s].failures > 0 THEN markKafkaConsumerSlotSuccess(slot[s]) ELSE slot[s]]
            /\ pipe' = [pipe EXCEPT !.moving = TRUE]
        BY <2>2 DEF markKafkaIdleRecovered
      <3>2. pipe' \in Pipe
        BY <1>t, <3>1 DEF HealthShape, Pipe
      <3>3. ASSUME NEW s \in Slots
            PROVE  /\ slot'[s] \in Slot
                   /\ \E failures, touched \in Nat :
                        /\ SlotIs(slot'[s], slot[s].started, slot[s].session, slot[s].active, slot[s].eligible,
                                  slot[s].version, slot[s].proof, failures, touched)
                        /\ slot[s].touched <= touched
        <4>1. CASE slot[s].failures > 0
          <5>1. slot'[s] = markKafkaConsumerSlotSuccess(slot[s])
            BY <3>1, <4>1
          <5>2. SlotIs(slot'[s], slot[s].started, slot[s].session, slot[s].active, slot[s].eligible, slot[s].version,
                       slot[s].proof, 0, slot[s].touched + 1)
            BY <1>t, <5>1, SuccessIs
          <5>3. 0 \in Nat /\ slot[s].touched + 1 \in Nat /\ slot[s].touched <= slot[s].touched + 1
            BY <2>0
          <5> QED
            BY <5>2, <5>3 DEF SlotIs
        <4>2. CASE ~(slot[s].failures > 0)
          <5>1. slot'[s] = slot[s]
            BY <3>1, <4>2
          <5> QED
            BY <1>t, <2>0, <5>1
        <4> QED
          BY <4>1, <4>2
      <3>4. slot' \in [Slots -> Slot]
        BY <3>1, <3>3
      <3> QED
        BY <3>2, <3>3, <3>4
    <2> QED
      BY <2>1, <2>2
  <1>4. isKafkaPipeline' = isKafkaPipeline /\ Slots' = Slots
    BY <1>1, SameSets
  <1>5. SessionInv'
    <2>1. ASSUME NEW s \in Slots
          PROVE  SessionOK(s)'
      <3>1. LoopIs(loop'[s], loop[s].at, loop[s].reg, loop[s].broken)
        BY <1>1 DEF LoopIs
      <3> QED
        BY <1>t, <1>1, <1>3, <3>1, SessionStays
    <2> QED
      BY <1>4, <2>1 DEF SessionInv
  <1>6. \A s \in Slots : slot[s].touched <= slot'[s].touched
    BY <1>3 DEF SlotIs
  <1>7. SampleInv'
    <2>1. \A q \in Samplers : q # p => SampleOK(q)'
      BY <1>t, <1>1, <1>2, <1>3, <1>6, SampleSameOK DEF HealthInv, SampleInv
    <2> QED
      BY <1>2, <2>1 DEF SampleInv
  <1>8. HealthShape'
    <2>1. events' \in 0..pipeline'.budget
      BY <1>t, <1>1, EventsStep
    <2> QED
      BY <1>t, <1>1, <1>2, <1>3, <2>1, SameSets DEF HealthShape
  <1>9. ProbeInv'
    BY <1>1 DEF HealthInv, ProbeInv
  <1>10. Fairly
    <2>1. CASE ~RecoveryHolds(p)
      <3>1. slot' = slot
        BY <2>1 DEF markKafkaIdleRecovered
      <3>2. Unforgiven
        BY <1>t, <3>1 DEF Unforgiven, Slot
      <3> QED
        BY <1>t, <1>3, <3>2, UnforgivenFairly
    <2>2. CASE RecoveryHolds(p)
      <3>1. FailureKinds = {"transport"} /\ kafkaConsumerSlotsReady /\ sample[p].late = "no"
        BY <2>2 DEF RecoveryHolds, kafkaConsumerSlotsReady
      <3>2. \A s \in Slots : slot[s].touched = sample[p].slots[s].touched /\ slot[s].touched \in Nat
        BY <1>t, <2>2 DEF RecoveryHolds, Slot
      <3>3. ~sample[p].hurt /\ sample[p].lag = 0
        BY <1>t, <1>1, <3>1, <3>2 DEF SampleOK
      <3> QED
        BY <1>1, <3>1, <3>3 DEF Fairly
    <2> QED
      BY <2>1, <2>2
  <1> QED
    BY <1>5, <1>7, <1>8, <1>9, <1>10 DEF HealthInv
-----------------------------------------------------------------------------
(* Readiness, the shutdown and time.                                       *)

\* The sessions stay as they are when a slot's other fields change.
LEMMA SessionsStay ==
  ASSUME HealthInv, UNCHANGED <<pipeline, loop, down>>,
         \A s \in Slots : SlotIs(slot'[s], slot[s].started, slot[s].session, slot[s].active, slot[s].eligible,
                                 slot[s].version, slot[s].proof, slot[s].failures, slot[s].touched)
  PROVE  SessionInv'
  <1>1. Slots' = Slots
    BY DEF Slots
  <1>2. ASSUME NEW s \in Slots
        PROVE  SessionOK(s)'
    <2>1. SessionOK(s)
      BY DEF HealthInv, SessionInv
    <2>2. LoopIs(loop'[s], loop[s].at, loop[s].reg, loop[s].broken)
      BY DEF LoopIs
    <2> QED
      BY <2>1, <2>2, SessionStays
  <1> QED
    BY <1>1, <1>2 DEF SessionInv

\* The readiness probe measures, stores its page and ends.
LEMMA ProbeStepKeeps ==
  ASSUME HealthInv, ProbeStep
  PROVE  HealthInv' /\ Fairly
  <1>t. HealthShape /\ pipe \in Pipe /\ probe \in [at : {"idle", "store", "ended"}, ready : BOOLEAN]
    BY DEF HealthInv, HealthShape
  <1>1. UNCHANGED <<pipeline, slot, loop, kafka, sample, down>> /\ (Calm \/ Disturb)
    BY DEF ProbeStep, evaluateWorkerReadiness, storeWorkerSnapshot, ProbeEnds, ProbeFrame
  <1>2. pipe' \in Pipe
    <2>1. CASE evaluateWorkerReadiness
      <3>1. pipe' = pipe \/ pipe' = WithBacklog(pipe, Cardinality(kafka.lag))
        BY <2>1 DEF evaluateWorkerReadiness, Measured
      <3> QED
        BY <1>t, <3>1, LagCounts, BacklogIs
    <2>2. CASE storeWorkerSnapshot \/ ProbeEnds
      BY <1>t, <2>2 DEF storeWorkerSnapshot, ProbeEnds
    <2> QED
      BY <2>1, <2>2 DEF ProbeStep
  <1>3. /\ probe' \in [at : {"idle", "store", "ended"}, ready : BOOLEAN]
        /\ page' \in [ready : BOOLEAN, fresh : BOOLEAN]
        /\ ProbeInv'
    <2>1. CASE evaluateWorkerReadiness
      <3>1. Healthy(Measured) \in BOOLEAN
        BY DEF Healthy
      <3>2. PICK ready \in BOOLEAN : probe' = [at |-> "store", ready |-> ready]
        BY <2>1, <3>1 DEF evaluateWorkerReadiness
      <3>3. page' = page /\ page \in [ready : BOOLEAN, fresh : BOOLEAN]
        BY <1>t, <2>1 DEF evaluateWorkerReadiness, HealthShape
      <3>4. probe'.at = "store" /\ probe' \in [at : {"idle", "store", "ended"}, ready : BOOLEAN]
        BY <3>2
      <3> QED
        BY <3>3, <3>4 DEF ProbeInv
    <2>2. CASE storeWorkerSnapshot
      <3>1. page' = [ready |-> probe.ready, fresh |-> TRUE] /\ probe' = [at |-> "idle", ready |-> FALSE]
        BY <2>2 DEF storeWorkerSnapshot
      <3> QED
        BY <1>t, <3>1 DEF ProbeInv
    <2>3. CASE ProbeEnds
      <3>1. page' = [ready |-> FALSE, fresh |-> TRUE] /\ probe' = [at |-> "ended", ready |-> FALSE]
        BY <2>3 DEF ProbeEnds
      <3> QED
        BY <3>1 DEF ProbeInv
    <2> QED
      BY <2>1, <2>2, <2>3 DEF ProbeStep
  <1>4. sample' \in [Samplers -> Sample] /\ SampleInv'
    BY <1>1, QuietSamples
  <1>5. SessionInv'
    BY <1>1, SameSessionsStep DEF HealthInv
  <1>6. HealthShape'
    <2>1. events' \in 0..pipeline'.budget
      BY <1>t, <1>1, EventsStep
    <2> QED
      BY <1>t, <1>1, <1>2, <1>3, <1>4, <2>1, SameSets DEF HealthShape
  <1>7. Fairly
    <2>1. \A s \in Slots : slot[s].failures \in Nat
      BY <1>t DEF HealthShape, Slot
    <2> QED
      BY <1>1, <2>1 DEF Fairly
  <1> QED
    BY <1>3, <1>4, <1>5, <1>6, <1>7 DEF HealthInv

\* The shutdown begins: no proof is left.
LEMMA MarkStep ==
  ASSUME HealthInv, MarkWorkerShuttingDown
  PROVE  HealthInv' /\ Fairly
  <1>t. /\ HealthShape /\ slot \in [Slots -> Slot] /\ \A s \in Slots : slot[s] \in Slot /\ SessionOK(s)
    BY DEF HealthInv, HealthShape, SessionInv
  <1>1. /\ down' = "marked" /\ Moved /\ Disturb /\ UNCHANGED <<pipeline, pipe, loop, kafka, probe, page>>
        /\ slot' = IF isKafkaPipeline THEN [s \in Slots |-> NextVersion(slot[s])] ELSE slot
    BY DEF MarkWorkerShuttingDown
  <1>2. /\ slot' \in [Slots -> Slot]
        /\ \A s \in Slots : /\ slot'[s].active = slot[s].active /\ slot'[s].session = slot[s].session
                            /\ slot'[s].proof = 0
                            /\ slot'[s].failures = slot[s].failures /\ slot'[s].touched = slot[s].touched
    <2>1. CASE isKafkaPipeline
      <3>1. slot' = [s \in Slots |-> NextVersion(slot[s])]
        BY <1>1, <2>1
      <3>2. \A s \in Slots : SlotIs(slot'[s], slot[s].started, slot[s].session, slot[s].active, slot[s].eligible,
                                    slot[s].version + 1, 0, slot[s].failures, slot[s].touched)
        BY <1>t, <3>1, NextVersionIs
      <3>3. slot' \in [Slots -> Slot]
        BY <3>1, <3>2 DEF SlotIs
      <3> QED
        BY <3>2, <3>3 DEF SlotIs
    <2>2. CASE ~isKafkaPipeline
      <3>1. slot' = slot
        BY <1>1, <2>2
      <3> QED
        BY <1>t, <2>2, <3>1 DEF SessionOK
    <2> QED
      BY <2>1, <2>2
  <1>3. Slots' = Slots
    BY <1>1, SameSets
  <1>4. SessionInv'
    <2>1. ASSUME NEW s \in Slots
          PROVE  SessionOK(s)'
      <3>1. slot'[s].version \in Nat
        BY <1>2 DEF Slot
      <3> QED
        BY <1>t, <1>1, <1>2, <3>1 DEF SessionOK
    <2> QED
      BY <1>3, <2>1 DEF SessionInv
  <1>5. Unforgiven /\ \A s \in Slots : slot[s].touched <= slot'[s].touched
    BY <1>t, <1>2 DEF Unforgiven, Slot
  <1>6. SamplesKept
    BY <1>t, <1>1, SamplesMove
  <1>7. SampleInv'
    BY <1>t, <1>1, <1>2, <1>5, <1>6, SamplesKeptInv DEF HealthInv
  <1>8. HealthShape'
    <2>1. events' \in 0..pipeline'.budget
      BY <1>t, <1>1, EventsStep
    <2> QED
      BY <1>t, <1>1, <1>2, <1>6, <2>1, SameSets DEF HealthShape, SamplesKept
  <1>9. ProbeInv'
    BY <1>1 DEF HealthInv, ProbeInv
  <1> QED
    BY <1>t, <1>2, <1>4, <1>5, <1>7, <1>8, <1>9, UnforgivenFairly DEF HealthInv

\* The shutdown's page is stored and the context cancelled.
LEMMA ShutdownStepKeeps ==
  ASSUME HealthInv, StoreShuttingDown \/ Cancel
  PROVE  HealthInv' /\ Fairly
  <1>t. HealthShape /\ \A s \in Slots : slot[s] \in Slot /\ SessionOK(s)
    BY DEF HealthInv, HealthShape, SessionInv
  <1>1. /\ UNCHANGED <<pipeline, slot, pipe, loop, kafka, sample, probe>> /\ Calm
        /\ down # "no" /\ down' \in {"stored", "cancelled"}
        /\ page' = page \/ page' = [ready |-> FALSE, fresh |-> TRUE]
    BY DEF StoreShuttingDown, Cancel
  <1>2. Slots' = Slots /\ isKafkaPipeline' = isKafkaPipeline
    BY <1>1, SameSets
  <1>3. SessionInv'
    <2>1. ASSUME NEW s \in Slots
          PROVE  SessionOK(s)'
      BY <1>t, <1>1, <1>2 DEF SessionOK
    <2> QED
      BY <1>2, <2>1 DEF SessionInv
  <1>4. sample' \in [Samplers -> Sample] /\ SampleInv'
    BY <1>1, QuietSamples
  <1>5. page' \in [ready : BOOLEAN, fresh : BOOLEAN] /\ ProbeInv'
    <2>1. CASE page' = page
      BY <1>t, <1>1, <2>1 DEF HealthInv, HealthShape, ProbeInv
    <2>2. CASE page' = [ready |-> FALSE, fresh |-> TRUE]
      <3>1. page'.ready = FALSE /\ page' \in [ready : BOOLEAN, fresh : BOOLEAN]
        BY <2>2
      <3> QED
        BY <3>1 DEF ProbeInv
    <2> QED
      BY <1>1, <2>1, <2>2
  <1>6. HealthShape'
    <2>1. events' \in 0..pipeline'.budget
      BY <1>t, <1>1, EventsStep
    <2> QED
      BY <1>t, <1>1, <1>4, <1>5, <2>1, SameSets DEF HealthShape
  <1>7. Fairly
    BY <1>t, <1>1 DEF Fairly, Slot
  <1> QED
    BY <1>3, <1>4, <1>5, <1>6, <1>7 DEF HealthInv

\* Time passes: nothing recent is left, and no sample has time left.
LEMMA AgesStep ==
  ASSUME HealthInv, Ages
  PROVE  HealthInv' /\ Fairly
  <1>t. /\ HealthShape /\ slot \in [Slots -> Slot] /\ pipe \in Pipe /\ page \in [ready : BOOLEAN, fresh : BOOLEAN]
        /\ \A s \in Slots : slot[s] \in Slot
        /\ \A p \in Samplers : sample[p] \in Sample /\ SampleOK(p)
    BY DEF HealthInv, HealthShape, SampleInv
  <1>1. /\ UNCHANGED <<pipeline, loop, kafka, probe, down>> /\ (Calm \/ Disturb)
        /\ slot' = [s \in Slots |-> [slot[s] EXCEPT !.fresh = FALSE, !.part.old = slot[s].part.pending]]
        /\ pipe' = [pipe EXCEPT !.fresh = FALSE, !.moving = pipe.backlog <= 0]
        /\ page' = [page EXCEPT !.fresh = FALSE]
        /\ sample' = [p \in Samplers |-> IF sample[p].at = "idle" THEN sample[p] ELSE OutOfTime(sample[p], "all")]
    BY DEF Ages
  <1>2. /\ slot' \in [Slots -> Slot]
        /\ \A s \in Slots : SlotIs(slot'[s], slot[s].started, slot[s].session, slot[s].active, slot[s].eligible,
                                   slot[s].version, slot[s].proof, slot[s].failures, slot[s].touched)
    <2>1. ASSUME NEW s \in Slots
          PROVE  SlotIs(slot'[s], slot[s].started, slot[s].session, slot[s].active, slot[s].eligible,
                        slot[s].version, slot[s].proof, slot[s].failures, slot[s].touched)
      <3> DEFINE part == [slot[s].part EXCEPT !.old = slot[s].part.pending]
      <3>1. part \in [pending : BOOLEAN, old : BOOLEAN]
        <4>1. slot[s].part \in [pending : BOOLEAN, old : BOOLEAN]
          BY <1>t DEF Slot
        <4> QED
          BY <4>1
      <3>2. slot'[s] = [[slot[s] EXCEPT !.part = part] EXCEPT !.fresh = FALSE]
        BY <1>1, <1>t DEF Slot
      <3> HIDE DEF part
      <3>3. SlotIs([slot[s] EXCEPT !.part = part], slot[s].started, slot[s].session, slot[s].active, slot[s].eligible,
                   slot[s].version, slot[s].proof, slot[s].failures, slot[s].touched)
        BY <1>t, <3>1, PartitionIs
      <3> QED
        BY <3>2, <3>3 DEF SlotIs, Slot
    <2>2. \A s \in Slots : slot'[s] \in Slot
      BY <2>1 DEF SlotIs
    <2> QED
      BY <1>1, <2>1, <2>2
  <1>3. SessionInv'
    BY <1>1, <1>2, SessionsStay
  <1>4. sample' \in [Samplers -> Sample] /\ SampleInv'
    <2>1. isKafkaPipeline' = isKafkaPipeline
      BY <1>1, SameSets
    <2>2. ASSUME NEW p \in Samplers
          PROVE  sample'[p] \in Sample /\ SampleOK(p)'
      <3>1. CASE sample[p].at = "idle"
        <4>1. sample'[p] = sample[p]
          BY <1>1, <3>1
        <4> QED
          BY <1>t, <3>1, <4>1 DEF SampleOK
      <3>2. CASE sample[p].at # "idle"
        <4>1. sample'[p] = OutOfTime(sample[p], "all")
          BY <1>1, <3>2
        <4>2. sample'[p] \in Sample /\ sample'[p].late = "all"
          <5>1. sample[p] \in Sample /\ "all" \in {"group", "all"}
            BY <1>t
          <5>2. OutOfTime(sample[p], "all") \in Sample /\ OutOfTime(sample[p], "all").late = "all"
            BY <1>t, <5>1, OutOfTimeIs
          <5> QED
            BY <4>1, <5>2
        <4> QED
          BY <1>t, <2>1, <3>2, <4>2 DEF SampleOK
      <3> QED
        BY <3>1, <3>2
    <2> QED
      BY <1>1, <2>2 DEF SampleInv
  <1>5. pipe' \in Pipe
    <2>1. (pipe.backlog <= 0) \in BOOLEAN
      OBVIOUS
    <2> QED
      BY <1>t, <1>1, <2>1 DEF Pipe
  <1>6. page' \in [ready : BOOLEAN, fresh : BOOLEAN] /\ page'.ready = page.ready
    BY <1>t, <1>1
  <1>7. HealthShape'
    <2>1. events' \in 0..pipeline'.budget
      BY <1>t, <1>1, EventsStep
    <2> QED
      BY <1>t, <1>1, <1>2, <1>4, <1>5, <1>6, <2>1, SameSets DEF HealthShape
  <1>8. ProbeInv'
    BY <1>1, <1>6 DEF HealthInv, ProbeInv
  <1>9. Unforgiven
    BY <1>t, <1>2 DEF Unforgiven, SlotIs, Slot
  <1> QED
    BY <1>t, <1>2, <1>3, <1>4, <1>7, <1>8, <1>9, UnforgivenFairly DEF HealthInv

-----------------------------------------------------------------------------
(* Both processes.                                                         *)

\* Every step of the worker process keeps its invariant and forgives fairly.
LEMMA HealthStep ==
  ASSUME HealthInv, HealthNext
  PROVE  HealthInv' /\ Fairly
  <1>1. CASE \E s \in Slots : LoopStep(s)
    BY <1>1, StartStep, OpenStep, FailureStep, BatchStep, CommittedStep, CloseReaderStep, StopLoopStep DEF LoopStep
  <1>2. CASE \E s \in Slots : LoopFault(s)
    BY <1>2, FailureStep, FetchStep, BatchStep, StopLoopStep DEF LoopFault
  <1>3. CASE \E p \in Samplers : SampleStep(p) \/ SampleLate(p)
    BY <1>3, BeginStep, LagAnswerStep, GroupAnswerStep, LateStep, RecordBacklogStep, MembershipStep, RecoverStep
       DEF SampleStep
  <1>4. CASE \/ \E s \in Slots : Joins(s) \/ Message(s)
             \/ \E m \in kafka.members : Leaves(m)
             \/ Rebalances \/ Settles
    BY <1>4, BrokerStep
  <1>5. CASE PipelineStarted \/ PipelineIdle \/ PipelineFailure \/ PipelineStopped
    BY <1>5, RelayStep
  <1>6. CASE ProbeStep \/ MarkWorkerShuttingDown \/ StoreShuttingDown \/ Cancel \/ Ages
    BY <1>6, ProbeStepKeeps, MarkStep, ShutdownStepKeeps, AgesStep
  <1> QED
    BY <1>1, <1>2, <1>3, <1>4, <1>5, <1>6 DEF HealthNext

\* A step that does not touch the worker process keeps its invariant.
LEMMA HealthFrame ==
  ASSUME HealthInv, UNCHANGED healthVars
  PROVE  HealthInv' /\ Fairly
  <1>1. UNCHANGED <<pipeline, slot, pipe, loop, kafka, sample, probe, page, down, events>>
    BY DEF healthVars
  <1>2. sample' \in [Samplers -> Sample] /\ SampleInv'
    BY <1>1, QuietSamples
  <1> QED
    BY <1>1, <1>2, QuietKeeps DEF HealthInv, HealthShape, Calm

\* The invariant holds of the process that starts, and of one that is not there.
LEMMA HealthStart ==
  ASSUME HealthInit \/ HealthOff
  PROVE  HealthInv
  <1>1. /\ slot = [s \in Slots |-> NewSlot] /\ pipe = NewPipe
        /\ kafka = [lag |-> {}, stable |-> TRUE, members |-> {}]
        /\ sample = [p \in Samplers |-> NoSample]
    BY DEF HealthInit, HealthOff
  <1>2. /\ page = [ready |-> FALSE, fresh |-> FALSE]
        /\ probe = [at |-> "idle", ready |-> FALSE] \/ probe = [at |-> "ended", ready |-> FALSE]
        /\ down \in {"no", "cancelled"}
    BY DEF HealthInit, HealthOff
  <1>3. PICK at \in {"off", "ended"} : loop = [s \in Slots |-> [NewLoop EXCEPT !.at = at]]
    <2>1. NewLoop = [NewLoop EXCEPT !.at = "off"]
      BY DEF NewLoop
    <2> QED
      BY <2>1 DEF HealthInit, HealthOff
  <1>4. pipeline \in Pipelines /\ events \in 0..pipeline.budget
    BY DEF HealthInit, HealthOff
  <1>5. IsFiniteSet(Slots) /\ Cardinality(Slots) \in Nat
    BY <1>4, FS_CardinalityType DEF Slots
  <1>6. NewSlot \in Slot /\ ~NewSlot.active /\ NewSlot.proof = 0 /\ NewSlot.version = 0
    BY DEF NewSlot, Slot, NoPartition
  <1>7. NoSample \in Sample /\ NoSample.at = "idle"
    BY <1>5 DEF NoSample, Sample
  <1>8. NewPipe \in Pipe
    BY <1>5 DEF NewPipe, Pipe
  <1>9. /\ [NewLoop EXCEPT !.at = at] \in Loop
        /\ LoopIs([NewLoop EXCEPT !.at = at], at, 0, {})
    BY DEF NewLoop, Loop, LoopIs, Places
  <1>10. HealthShape
    <2>1. slot \in [Slots -> Slot] /\ loop \in [Slots -> Loop] /\ sample \in [Samplers -> Sample] /\ pipe \in Pipe
      BY <1>1, <1>3, <1>6, <1>7, <1>8, <1>9
    <2>2. kafka \in Kafka
      BY <1>1 DEF Kafka
    <2>3. page \in [ready : BOOLEAN, fresh : BOOLEAN]
      BY <1>2
    <2>4. probe \in [at : {"idle", "store", "ended"}, ready : BOOLEAN]
      <3>1. CASE probe = [at |-> "idle", ready |-> FALSE]
        BY <3>1
      <3>2. CASE probe = [at |-> "ended", ready |-> FALSE]
        BY <3>2
      <3> QED
        BY <1>2, <3>1, <3>2
    <2> QED
      BY <1>2, <1>4, <2>1, <2>2, <2>3, <2>4 DEF HealthShape
  <1>11. SessionInv
    <2>1. ASSUME NEW s \in Slots
          PROVE  SessionOK(s)
      <3>1. slot[s] = NewSlot /\ LoopIs(loop[s], at, 0, {})
        BY <1>1, <1>3, <1>9
      <3> QED
        BY <1>6, <3>1 DEF SessionOK, LoopIs
    <2> QED
      BY <2>1 DEF SessionInv
  <1>12. SampleInv
    BY <1>1, <1>7 DEF SampleInv, SampleOK
  <1>13. ProbeInv
    BY <1>2 DEF ProbeInv
  <1> QED
    BY <1>10, <1>11, <1>12, <1>13 DEF HealthInv

\* What the invariant says of the proofs, the sessions and the probe.
LEMMA HealthIsSafe ==
  ASSUME HealthInv
  PROVE  HealthSafe
  <1>t. HealthShape /\ \A s \in Slots : slot[s] \in Slot /\ SessionOK(s)
    BY DEF HealthInv, HealthShape, SessionInv
  <1>1. HealthTypeOK
    <2>1. \A s \in Slots : slot[s].version \in Nat /\ slot[s].proof \in 0..slot[s].version
      BY <1>t DEF SessionOK, Slot
    <2>2. pipe.backlog \in -1..Cardinality(Slots)
      BY <1>t, LagCounts DEF HealthShape, Pipe, Backlogs
    <2> QED
      BY <1>t, <2>1, <2>2 DEF HealthTypeOK, HealthShape
  <1>2. ProofsAreCurrent
    BY <1>t DEF ProofsAreCurrent, SessionOK, SessionReady
  <1>3. SessionsHaveReaders
    BY <1>t DEF SessionsHaveReaders, SessionOK, Reading
  <1>4. ProbeEndsNotReady
    BY DEF HealthInv, ProbeInv, ProbeEndsNotReady
  <1> QED
    BY <1>1, <1>2, <1>3, <1>4 DEF HealthSafe

\* Every step of either process keeps the invariant and forgives fairly.
LEMMA InvStep ==
  ASSUME IInv, [Next]_vars
  PROVE  IInv' /\ Fairly
  <1>1. CASE HealthNext /\ UNCHANGED apiVars
    BY <1>1, HealthStep, ApiFrame DEF IInv
  <1>2. CASE ApiNext /\ UNCHANGED healthVars
    BY <1>2, HealthFrame, ApiStep DEF IInv
  <1>3. CASE UNCHANGED vars
    BY <1>3, HealthFrame, ApiFrame DEF IInv, vars
  <1> QED
    BY <1>1, <1>2, <1>3 DEF Next

\* The inductive invariant holds in every state of the worker and of the API process.
THEOREM Invariant == FairSpec => []IInv
  <1>1. Init => IInv
    BY HealthStart, ApiStart DEF Init, IInv
  <1>2. IInv /\ [Next]_vars => IInv'
    BY InvStep
  <1> QED
    BY <1>1, <1>2, PTL DEF FairSpec

\* No proof of a session that is gone, no worker ready behind an ended probe, no
\* closed channel used, no process closed over work or writers that are open
\* (worker_health.go, kafka_consumer_state.go, trace_dispatcher.go, kafka.go).
THEOREM ProcessesSafe == FairSpec => []RuntimeSafe
  <1>1. IInv => RuntimeSafe
    BY HealthIsSafe, ApiIsSafe DEF IInv, RuntimeSafe
  <1> QED
    BY Invariant, <1>1, PTL

\* A slot's failures are forgiven by its own commit, or by an idle sample that has
\* missed no failure and no commit since it began (markKafkaIdleRecovered).
THEOREM ForgivenOnlyFairly == FairSpec => ForgivenFairly
  <1>1. IInv /\ [Next]_vars => [Fairly]_healthVars
    BY InvStep
  <1> QED
    BY Invariant, <1>1, PTL DEF FairSpec, ForgivenFairly, Fairly

-----------------------------------------------------------------------------
(* The invariant of the embedding workers.                                 *)

RequestMessage == [post : Posts \cup {Bad}, at : Nat]
Item    == [post : Posts, hash : Nat]
Permit  == [held : BOOLEAN, epoch : Nat, half : BOOLEAN]
PartitionWorker == [pc : States, next : Nat, hi : Nat, groups : Seq(Seq(Item)), items : Seq(Item), try : Nat,
                    permit : Permit, pending : BOOLEAN]
ProviderGate == [state : {"closed", "open", "half"}, inFlight : Nat, epoch : Nat, cooled : BOOLEAN]

\* The records with all their fields; no message asks for content that is yet to come.
EmbeddingShape ==
  /\ content \in [Posts -> Nat \cup {Gone}] /\ embedding \in [Posts -> Nat]
  /\ log \in [Partitions -> Seq(RequestMessage)]
  /\ dlq \in [Partitions -> SUBSET Nat] /\ offset \in [Partitions -> Nat]
  /\ gen \in Nat /\ owner \in Assignments /\ joined \in [Members -> 0..gen]
  /\ worker \in [Workers -> PartitionWorker]
  /\ gate \in [Members -> ProviderGate]

LogShape ==
  \A q \in Partitions :
    /\ dlq[q] \subseteq 1..Len(log[q]) /\ offset[q] <= Len(log[q])
    /\ \A i \in 1..Len(log[q]) :
         LET message == log[q][i]
         IN message.post # Bad => content[message.post] = Gone \/ message.at <= content[message.post]

\* The message is in the dead-letter topic, or asks for nothing that is still wanted.
Handled(q, i) ==
  LET message == log[q][i]
  IN IF message.post = Bad THEN i \in dlq[q]
     ELSE content[message.post] = message.at => embedding[message.post] = message.at

HandledTo(q, n) == \A i \in 1..n : Handled(q, i)

LogInv ==
  /\ \A q \in Partitions : HandledTo(q, offset[q])
  /\ \A p \in Posts : content[p] # Gone => embedding[p] \in {0, content[p]}
  /\ \A q \in Partitions : \A i \in dlq[q] : log[q][i].post = Bad

Has(items, p) == \E i \in DOMAIN items : items[i].post = p
Awaits(s, p)  == Has(s.items, p) \/ \E k \in DOMAIN s.groups : Has(s.groups[k], p)

\* What a worker relies on: the messages before its batch are handled, and so is every
\* message of the batch whose Post it does not have in hand.
BatchOK(w, s) ==
  /\ s.pc # "idle" => s.next <= Len(log[w[2]]) /\ HandledTo(w[2], s.next)
  /\ s.pc \notin {"idle", "fetch"} => s.next <= s.hi /\ s.hi <= Len(log[w[2]])
  /\ s.pc = "commit" => HandledTo(w[2], s.hi)
  /\ s.pc \in {"acquire", "call", "write"} =>
       \A i \in (s.next + 1)..s.hi : Handled(w[2], i) \/ Awaits(s, log[w[2]][i].post)

\* Items wait to be written at that stage only, there is a text in every request, and a
\* permit is held during the call.
StageOK(s) ==
  /\ s.pc \in {"acquire", "call"} => s.groups # <<>>
  /\ s.pc = "write" <=> s.items # <<>>
  /\ \A k \in DOMAIN s.groups : s.groups[k] # <<>>
  /\ s.permit.held <=> s.pc = "call"

WorkersInv == \A w \in Workers : BatchOK(w, worker[w]) /\ StageOK(worker[w])

Flying(m) == {w \in Workers : w[1] = m /\ worker[w].permit.held}

\* The gate of a process.
GateOK(m) ==
  /\ IsFiniteSet(Flying(m)) /\ gate[m].inFlight = Cardinality(Flying(m)) /\ gate[m].inFlight <= Limit
  /\ \A w \in Flying(m) :
       /\ worker[w].permit.epoch <= gate[m].epoch
       /\ gate[m].state = "open" => worker[w].permit.epoch # gate[m].epoch
       /\ gate[m].state = "half" => worker[w].permit.epoch = gate[m].epoch
       /\ worker[w].permit.half => gate[m].state = "half"
  /\ gate[m].state = "half" => Cardinality(Flying(m)) <= 1

GatesInv == \A m \in Members : GateOK(m)

EmbeddingInv == EmbeddingShape /\ LogShape /\ LogInv /\ OffsetsAgree /\ WorkersInv /\ GatesInv

-----------------------------------------------------------------------------
(* What the embedding workers' steps have in common.                       *)

LEMMA WorkersAre ==
  ASSUME NEW w \in Workers
  PROVE  w[1] \in Members /\ w[2] \in Partitions
BY DEF Workers

LEMMA IdleIs ==
  /\ Idle \in PartitionWorker /\ StageOK(Idle) /\ Idle.pc = "idle" /\ ~Idle.permit.held
  /\ NoPermit \in Permit /\ NoPermit.held = FALSE
<1>1. NoPermit \in Permit /\ NoPermit.held = FALSE
  BY DEF NoPermit, Permit
<1>2. <<>> \in Seq(Seq(Item)) /\ <<>> \in Seq(Item)
  OBVIOUS
<1>3. Idle \in PartitionWorker
  BY <1>1, <1>2 DEF Idle, PartitionWorker, States
<1>4. StageOK(Idle) /\ Idle.pc = "idle" /\ ~Idle.permit.held
  BY <1>1 DEF Idle, StageOK
<1> QED
  BY <1>1, <1>3, <1>4

\* A sequence of the elements of a finite set.
LEMMA SetToSeqIs ==
  ASSUME NEW S, IsFiniteSet(S)
  PROVE  SetToSeq(S) \in Seq(S)
<1>1. Cardinality(S) \in Nat /\ ExistsBijection(1..Cardinality(S), S)
  BY FS_CardinalityType
<1>2. PICK f \in Bijection(1..Cardinality(S), S) : TRUE
  BY <1>1 DEF ExistsBijection
<1>3. f \in [1..Cardinality(S) -> S] /\ IsInjective(f)
  BY <1>2 DEF Bijection, Injection, IsInjective
<1>4. SetToSeq(S) \in [1..Cardinality(S) -> S]
  BY <1>3 DEF SetToSeq
<1> QED
  BY <1>1, <1>4

\* What a worker does not touch stays true for it while the log grows and what is handled
\* stays handled.
LogKeeps ==
  \A q \in Partitions :
    /\ Len(log[q]) <= Len(log'[q])
    /\ \A i \in 1..Len(log[q]) : log'[q][i] = log[q][i] /\ (Handled(q, i) => Handled(q, i)')

LEMMA BatchKept ==
  ASSUME EmbeddingShape, EmbeddingShape', LogKeeps, NEW w \in Workers, NEW s \in PartitionWorker, BatchOK(w, s)
  PROVE  BatchOK(w, s)'
<1>1. w[2] \in Partitions /\ s.next \in Nat /\ s.hi \in Nat
  BY WorkersAre DEF PartitionWorker
<1>2. Len(log[w[2]]) \in Nat /\ Len(log'[w[2]]) \in Nat
  <2>1. log \in [Partitions -> Seq(RequestMessage)] /\ log' \in [Partitions -> Seq(RequestMessage)]
    BY DEF EmbeddingShape
  <2>2. log[w[2]] \in Seq(RequestMessage) /\ log'[w[2]] \in Seq(RequestMessage)
    BY <1>1, <2>1
  <2> QED
    BY <2>2
<1>3. \A n \in Nat : n <= Len(log[w[2]]) /\ HandledTo(w[2], n) => HandledTo(w[2], n)'
  BY <1>1, <1>2 DEF LogKeeps, HandledTo
<1>4. s.pc \in {"acquire", "call", "write"} =>
        \A i \in (s.next + 1)..s.hi : Handled(w[2], i)' \/ Awaits(s, log'[w[2]][i].post)
  <2>1. SUFFICES ASSUME s.pc \in {"acquire", "call", "write"}, NEW i \in (s.next + 1)..s.hi
                 PROVE  Handled(w[2], i)' \/ Awaits(s, log'[w[2]][i].post)
    OBVIOUS
  <2>2. s.hi <= Len(log[w[2]])
    BY <2>1 DEF BatchOK
  <2>3. i \in 1..Len(log[w[2]])
    BY <1>1, <1>2, <2>2, SMTT(30)
  <2>4. Handled(w[2], i) \/ Awaits(s, log[w[2]][i].post)
    BY <2>1 DEF BatchOK
  <2>5. log'[w[2]][i] = log[w[2]][i] /\ (Handled(w[2], i) => Handled(w[2], i)')
    BY <1>1, <2>3 DEF LogKeeps
  <2> QED
    BY <2>4, <2>5
<1>5. s.pc # "idle" => s.next <= Len(log'[w[2]]) /\ HandledTo(w[2], s.next)'
  BY <1>1, <1>2, <1>3 DEF LogKeeps, BatchOK
<1>6. s.pc \notin {"idle", "fetch"} => s.next <= s.hi /\ s.hi <= Len(log'[w[2]])
  BY <1>1, <1>2 DEF LogKeeps, BatchOK
<1>7. s.pc = "commit" => HandledTo(w[2], s.hi)'
  BY <1>1, <1>2, <1>3 DEF BatchOK
<1> QED
  BY <1>4, <1>5, <1>6, <1>7 DEF BatchOK, Awaits, Has

\* So does a step of one worker for the others.
LEMMA OthersKept ==
  ASSUME EmbeddingShape, EmbeddingShape', LogKeeps, WorkersInv, NEW w \in Workers,
         \A v \in Workers : v # w => worker'[v] = worker[v],
         BatchOK(w, worker[w])', StageOK(worker'[w])
  PROVE  WorkersInv'
<1>1. ASSUME NEW v \in Workers, v # w
      PROVE  BatchOK(v, worker[v])' /\ StageOK(worker'[v])
  <2>1. worker[v] \in PartitionWorker /\ worker'[v] = worker[v]
    BY <1>1 DEF EmbeddingShape
  <2>2. PICK s \in PartitionWorker : s = worker[v]
    BY <2>1
  <2>3. BatchOK(v, s) /\ StageOK(s)
    BY <1>1, <2>2 DEF WorkersInv
  <2>4. BatchOK(v, s)'
    BY <1>1, <2>3, BatchKept
  <2>5. worker'[v] = s
    BY <2>1, <2>2
  <2> QED
    BY <2>3, <2>4, <2>5 DEF BatchOK, StageOK
<1>2. \A v \in Workers : BatchOK(v, worker[v])' /\ StageOK(worker[v])'
  <2>1. StageOK(worker[w])'
    BY DEF StageOK
  <2>2. \A v \in Workers : v # w => BatchOK(v, worker[v])' /\ StageOK(worker[v])'
    BY <1>1 DEF StageOK
  <2> QED
    BY <2>1, <2>2
<1> QED
  BY <1>2 DEF WorkersInv

LEMMA AllKept ==
  ASSUME EmbeddingShape, EmbeddingShape', LogKeeps, WorkersInv, worker' = worker
  PROVE  WorkersInv'
<1>1. CASE Workers = {}
  BY <1>1 DEF WorkersInv
<1>2. ASSUME NEW w \in Workers
      PROVE  BatchOK(w, worker[w])' /\ StageOK(worker[w])'
  <2>1. worker[w] \in PartitionWorker
    BY DEF EmbeddingShape
  <2>2. PICK s \in PartitionWorker : s = worker[w]
    BY <2>1
  <2>3. BatchOK(w, s) /\ StageOK(s)
    BY <2>2 DEF WorkersInv
  <2>4. BatchOK(w, s)'
    BY <2>3, BatchKept
  <2>5. worker'[w] = s
    BY <2>2
  <2> QED
    BY <2>3, <2>4, <2>5 DEF BatchOK, StageOK
<1> QED
  BY <1>2 DEF WorkersInv

\* A worker holds a gate's state together with its permit.
LEMMA GatesKept ==
  ASSUME GatesInv, \A m \in Members : gate'[m] = gate[m],
         \A w \in Workers : worker'[w].permit.held = worker[w].permit.held,
         \A w \in Workers : worker[w].permit.held => worker'[w].permit = worker[w].permit
  PROVE  GatesInv'
<1>1. ASSUME NEW m \in Members
      PROVE  GateOK(m)'
  <2>1. Flying(m)' = Flying(m)
    BY DEF Flying
  <2>2. GateOK(m) /\ gate'[m] = gate[m]
    BY DEF GatesInv
  <2>3. \A w \in Flying(m) : worker'[w].permit = worker[w].permit
    BY DEF Flying
  <2> QED
    BY <2>1, <2>2, <2>3 DEF GateOK
<1> QED
  BY <1>1 DEF GatesInv

-----------------------------------------------------------------------------
(* Posts and requests.                                                     *)

\* The partitions grow at their end.
Grows(extra) == log' = [q \in Partitions |-> log[q] \o extra[q]]

LEMMA GrownLog ==
  ASSUME EmbeddingShape, NEW extra \in [Partitions -> Seq(RequestMessage)], Grows(extra)
  PROVE  /\ log' \in [Partitions -> Seq(RequestMessage)]
         /\ \A q \in Partitions :
              /\ Len(log[q]) \in Nat /\ Len(log'[q]) \in Nat /\ Len(log[q]) <= Len(log'[q])
              /\ \A i \in 1..Len(log[q]) : log'[q][i] = log[q][i]
              /\ \A i \in 1..Len(log'[q]) : i > Len(log[q]) => \E j \in DOMAIN extra[q] : log'[q][i] = extra[q][j]
<1>1. ASSUME NEW q \in Partitions
      PROVE  /\ log'[q] \in Seq(RequestMessage)
             /\ Len(log[q]) \in Nat /\ Len(log'[q]) \in Nat /\ Len(log[q]) <= Len(log'[q])
             /\ \A i \in 1..Len(log[q]) : log'[q][i] = log[q][i]
             /\ \A i \in 1..Len(log'[q]) : i > Len(log[q]) => \E j \in DOMAIN extra[q] : log'[q][i] = extra[q][j]
  <2>1. log[q] \in Seq(RequestMessage) /\ extra[q] \in Seq(RequestMessage)
    BY DEF EmbeddingShape
  <2>2. log'[q] = log[q] \o extra[q]
    BY DEF Grows
  <2>3. Len(log'[q]) = Len(log[q]) + Len(extra[q]) /\ Len(log[q]) \in Nat /\ Len(extra[q]) \in Nat
    BY <2>1, <2>2
  <2>4. \A i \in 1..Len(log[q]) : log'[q][i] = log[q][i]
    BY <2>1, <2>2, <2>3
  <2>5. ASSUME NEW i \in 1..Len(log'[q]), i > Len(log[q])
        PROVE  \E j \in DOMAIN extra[q] : log'[q][i] = extra[q][j]
    <3>1. i - Len(log[q]) \in 1..Len(extra[q])
      BY <2>3, <2>5
    <3>2. log'[q][i] = extra[q][i - Len(log[q])]
      BY <2>1, <2>2, <2>3, <2>5
    <3>3. DOMAIN extra[q] = 1..Len(extra[q])
      BY <2>1
    <3> QED
      BY <3>1, <3>2, <3>3
  <2>6. log'[q] \in Seq(RequestMessage)
    BY <2>1, <2>2
  <2> QED
    BY <2>3, <2>4, <2>5, <2>6
<1>2. log' = [q \in Partitions |-> log'[q]]
  BY DEF Grows
<1> QED
  BY <1>1, <1>2

\* The content of a Post moves on, and its embedding goes with it.
ContentMoves ==
  /\ content' \in [Posts -> Nat \cup {Gone}] /\ embedding' \in [Posts -> Nat]
  /\ \A p \in Posts : \/ content'[p] = content[p] /\ embedding'[p] = embedding[p]
                      \/ content'[p] = Gone
                      \/ content[p] # Gone /\ content'[p] # Gone /\ content'[p] > content[p] /\ embedding'[p] = 0

\* What is asked for is the content of now.
Asks(extra) ==
  \A q \in Partitions : \A j \in DOMAIN extra[q] :
    extra[q][j].post # Bad => content'[extra[q][j].post] = Gone \/ extra[q][j].at <= content'[extra[q][j].post]

LEMMA MessagesAre ==
  ASSUME EmbeddingShape
  PROVE  \A q \in Partitions : Len(log[q]) \in Nat /\ \A i \in 1..Len(log[q]) : log[q][i] \in RequestMessage
<1>1. ASSUME NEW q \in Partitions
      PROVE  Len(log[q]) \in Nat /\ \A i \in 1..Len(log[q]) : log[q][i] \in RequestMessage
  <2>1. log[q] \in Seq(RequestMessage)
    BY DEF EmbeddingShape
  <2> QED
    BY <2>1
<1> QED
  BY <1>1

LEMMA RequestsKeep ==
  ASSUME EmbeddingInv, NEW extra \in [Partitions -> Seq(RequestMessage)], Grows(extra), ContentMoves, Asks(extra),
         UNCHANGED <<dlq, offset, gen, owner, joined, worker, gate>>
  PROVE  EmbeddingInv'
<1> USE DEF EmbeddingInv
<1>1. EmbeddingShape'
  BY GrownLog DEF EmbeddingShape, ContentMoves
<1>2. \A q \in Partitions : \A i \in 1..Len(log[q]) :
        LET message == log[q][i]
        IN message.post # Bad => message.post \in Posts /\ message.at \in Nat /\ (content[message.post] = Gone \/ message.at <= content[message.post])
  <2>1. SUFFICES ASSUME NEW q \in Partitions, NEW i \in 1..Len(log[q]), log[q][i].post # Bad
                 PROVE  /\ log[q][i].post \in Posts /\ log[q][i].at \in Nat
                        /\ (content[log[q][i].post] = Gone \/ log[q][i].at <= content[log[q][i].post])
    OBVIOUS
  <2>2. log[q][i] \in RequestMessage
    BY MessagesAre
  <2>3. log[q][i].post \in Posts /\ log[q][i].at \in Nat
    BY <2>1, <2>2 DEF RequestMessage
  <2> QED
    BY <2>1, <2>3 DEF LogShape
<1>3. ASSUME NEW q \in Partitions, NEW i \in 1..Len(log[q]), Handled(q, i)
      PROVE  Handled(q, i)'
  <2>1. log'[q][i] = log[q][i]
    BY GrownLog
  <2>2. CASE log[q][i].post = Bad
    BY <1>3, <2>1, <2>2 DEF Handled
  <2>3. CASE log[q][i].post # Bad
    <3>1. PICK p \in Posts : p = log[q][i].post
      BY <1>2, <2>3
    <3>2. PICK v \in Nat : v = log[q][i].at
      BY <1>2, <2>3
    <3>3. content[p] = v => embedding[p] = v
      BY <1>3, <2>3, <3>1, <3>2 DEF Handled
    <3>4. content[p] = Gone \/ v <= content[p]
      BY <1>2, <2>3, <3>1, <3>2
    <3>5. content'[p] = v => embedding'[p] = v
      <4>1. content[p] \in Nat \cup {Gone} /\ content'[p] \in Nat \cup {Gone}
        BY DEF EmbeddingShape, ContentMoves
      <4> QED
        BY <3>3, <3>4, <4>1, SMTT(30) DEF ContentMoves, Gone
    <3> QED
      BY <2>1, <2>3, <3>1, <3>2, <3>5 DEF Handled
  <2> QED
    BY <2>2, <2>3
<1>4. LogKeeps
  BY <1>3, GrownLog DEF LogKeeps
<1>5. LogShape'
  <2>1. ASSUME NEW q \in Partitions, NEW i \in 1..Len(log'[q]), log'[q][i].post # Bad
        PROVE  content'[log'[q][i].post] = Gone \/ log'[q][i].at <= content'[log'[q][i].post]
    <3>1. CASE i <= Len(log[q])
      <4>1. i \in 1..Len(log[q]) /\ log'[q][i] = log[q][i]
        BY <3>1, GrownLog
      <4>2. PICK p \in Posts : p = log[q][i].post
        BY <1>2, <2>1, <4>1
      <4>3. PICK v \in Nat : v = log[q][i].at
        BY <1>2, <2>1, <4>1
      <4>4. content[p] = Gone \/ v <= content[p]
        BY <1>2, <2>1, <4>1, <4>2, <4>3
      <4>5. content[p] \in Nat \cup {Gone} /\ content'[p] \in Nat \cup {Gone}
        BY DEF EmbeddingShape, ContentMoves
      <4>6. content'[p] = Gone \/ v <= content'[p]
        BY <4>4, <4>5 DEF ContentMoves, Gone
      <4> QED
        BY <4>1, <4>2, <4>3, <4>6
    <3>2. CASE i > Len(log[q])
      <4>1. \A k \in 1..Len(log'[q]) : k > Len(log[q]) => \E j \in DOMAIN extra[q] : log'[q][k] = extra[q][j]
        BY GrownLog
      <4>2. PICK j \in DOMAIN extra[q] : log'[q][i] = extra[q][j]
        BY <3>2, <4>1
      <4>3. log'[q][i].post # Bad => content'[log'[q][i].post] = Gone \/ log'[q][i].at <= content'[log'[q][i].post]
        BY <4>2 DEF Asks
      <4> QED
        BY <2>1, <4>3
    <3>3. i \in Nat /\ Len(log[q]) \in Nat
      BY GrownLog
    <3> QED
      BY <3>1, <3>2, <3>3
  <2>2. ASSUME NEW q \in Partitions
        PROVE  dlq'[q] \subseteq 1..Len(log'[q]) /\ offset'[q] <= Len(log'[q])
    <3>1. Len(log[q]) \in Nat /\ Len(log'[q]) \in Nat /\ Len(log[q]) <= Len(log'[q])
      BY GrownLog
    <3>2. dlq[q] \subseteq 1..Len(log[q]) /\ offset[q] <= Len(log[q]) /\ offset[q] \in Nat
      BY DEF LogShape, EmbeddingShape
    <3> QED
      BY <3>1, <3>2
  <2> QED
    BY <2>1, <2>2 DEF LogShape
<1>6. LogInv'
  <2>1. \A q \in Partitions : HandledTo(q, offset[q])'
    <3>1. SUFFICES ASSUME NEW q \in Partitions, NEW i \in 1..offset'[q]
                   PROVE  Handled(q, i)'
      BY DEF HandledTo
    <3>2. offset'[q] = offset[q] /\ offset[q] \in Nat /\ offset[q] <= Len(log[q]) /\ Len(log[q]) \in Nat
      BY MessagesAre DEF LogShape, EmbeddingShape
    <3>3. i \in 1..Len(log[q]) /\ i \in 1..offset[q]
      BY <3>2
    <3>4. Handled(q, i)
      BY <3>3 DEF LogInv, HandledTo
    <3> QED
      BY <1>3, <3>3, <3>4
  <2>2. \A p \in Posts : content'[p] # Gone => embedding'[p] \in {0, content'[p]}
    BY DEF LogInv, ContentMoves
  <2>3. \A q \in Partitions : \A i \in dlq'[q] : log'[q][i].post = Bad
    <3>1. SUFFICES ASSUME NEW q \in Partitions, NEW i \in dlq'[q]
                   PROVE  log'[q][i].post = Bad
      OBVIOUS
    <3>2. i \in dlq[q] /\ i \in 1..Len(log[q])
      BY DEF LogShape
    <3>3. log[q][i].post = Bad
      BY <3>2 DEF LogInv
    <3> QED
      BY <3>2, <3>3, GrownLog
  <2> QED
    BY <2>1, <2>2, <2>3 DEF LogInv
<1>7. OffsetsAgree'
  BY DEF OffsetsAgree
<1>8. WorkersInv'
  BY <1>1, <1>4, AllKept
<1>9. GatesInv'
  BY GatesKept
<1> QED
  BY <1>1, <1>5, <1>6, <1>7, <1>8, <1>9

LEMMA RequestIs ==
  ASSUME content \in [Posts -> Nat \cup {Gone}], NEW p \in Posts, content[p] # Gone
  PROVE  Request(p) \in RequestMessage /\ Request(p).post = p /\ Request(p).at = content[p]
BY DEF Request, RequestMessage

\* One message more in one partition.
Only(q, message) == [r \in Partitions |-> IF r = q THEN <<message>> ELSE <<>>]

LEMMA OneMore ==
  ASSUME EmbeddingShape, NEW q \in Partitions, NEW message \in RequestMessage, log' = [log EXCEPT ![q] = Append(@, message)]
  PROVE  Only(q, message) \in [Partitions -> Seq(RequestMessage)] /\ Grows(Only(q, message))
<1>1. <<message>> \in Seq(RequestMessage) /\ <<>> \in Seq(RequestMessage)
  OBVIOUS
<1>2. Only(q, message) \in [Partitions -> Seq(RequestMessage)]
  BY <1>1 DEF Only
<1>3. ASSUME NEW r \in Partitions
      PROVE  log'[r] = log[r] \o Only(q, message)[r]
  <2>1. log[r] \in Seq(RequestMessage)
    BY DEF EmbeddingShape
  <2>2. Append(log[r], message) = log[r] \o <<message>> /\ log[r] \o <<>> = log[r]
    BY <2>1, SMTT(30)
  <2>3. log'[r] = IF r = q THEN Append(log[r], message) ELSE log[r]
    BY DEF EmbeddingShape
  <2>4. Only(q, message)[r] = IF r = q THEN <<message>> ELSE <<>>
    BY DEF Only
  <2> QED
    BY <2>2, <2>3, <2>4
<1>4. log' = [r \in Partitions |-> log'[r]]
  BY DEF EmbeddingShape
<1>5. log' = [r \in Partitions |-> log[r] \o Only(q, message)[r]]
  BY <1>3, <1>4
<1> QED
  BY <1>2, <1>5 DEF Grows

LEMMA EditKeeps ==
  ASSUME EmbeddingInv, NEW p \in Volatile, Edit(p)
  PROVE  EmbeddingInv'
<1> DEFINE message == [post |-> p, at |-> content[p] + 1]
<1>1. p \in Posts /\ PartitionOf[p] \in Partitions /\ EmbeddingShape /\ p # Bad
  BY DEF EmbeddingInv
<1>2. content \in [Posts -> Nat \cup {Gone}] /\ embedding \in [Posts -> Nat] /\ content[p] \in Nat
  BY <1>1 DEF EmbeddingShape, Edit
<1>3. message \in RequestMessage /\ message.post = p /\ message.at = content[p] + 1
  BY <1>1, <1>2 DEF RequestMessage
<1>4. log' = [log EXCEPT ![PartitionOf[p]] = Append(@, message)]
  BY DEF Edit
<1> HIDE DEF message
<1>5. Only(PartitionOf[p], message) \in [Partitions -> Seq(RequestMessage)] /\ Grows(Only(PartitionOf[p], message))
  BY <1>1, <1>3, <1>4, OneMore
<1>6. content' = [content EXCEPT ![p] = @ + 1] /\ embedding' = [embedding EXCEPT ![p] = 0]
  BY DEF Edit
<1>7. content'[p] = content[p] + 1 /\ content'[p] # Gone
  BY <1>1, <1>2, <1>6 DEF Gone
<1>8. ContentMoves
  BY <1>1, <1>2, <1>6, <1>7 DEF ContentMoves, Edit
<1>9. Asks(Only(PartitionOf[p], message))
  <2>1. ASSUME NEW q \in Partitions, NEW j \in DOMAIN Only(PartitionOf[p], message)[q]
        PROVE  Only(PartitionOf[p], message)[q][j] = message
    BY DEF Only
  <2> QED
    BY <1>2, <1>3, <1>7, <2>1 DEF Asks
<1>10. UNCHANGED <<dlq, offset, gen, owner, joined, worker, gate>>
  BY DEF Edit
<1> QED
  BY <1>5, <1>8, <1>9, <1>10, RequestsKeep

\* No message more.
LEMMA NoMore ==
  ASSUME EmbeddingShape, log' = log
  PROVE  /\ [q \in Partitions |-> <<>>] \in [Partitions -> Seq(RequestMessage)]
         /\ Grows([q \in Partitions |-> <<>>])
<1>1. <<>> \in Seq(RequestMessage)
  OBVIOUS
<1>2. ASSUME NEW q \in Partitions
      PROVE  log'[q] = log[q] \o <<>>
  <2>1. log[q] \in Seq(RequestMessage)
    BY DEF EmbeddingShape
  <2> QED
    BY <2>1
<1>3. log' = [q \in Partitions |-> log'[q]]
  BY DEF EmbeddingShape
<1>4. log' = [q \in Partitions |-> log[q] \o <<>>]
  BY <1>2, <1>3
<1> QED
  BY <1>1, <1>4 DEF Grows

LEMMA DeleteKeeps ==
  ASSUME EmbeddingInv, NEW p \in Volatile, Delete(p)
  PROVE  EmbeddingInv'
<1>1. p \in Posts /\ EmbeddingShape
  BY DEF EmbeddingInv
<1>2. content \in [Posts -> Nat \cup {Gone}] /\ embedding \in [Posts -> Nat]
  BY <1>1 DEF EmbeddingShape
<1>3. content' = [content EXCEPT ![p] = Gone] /\ embedding' = embedding /\ log' = log
  BY DEF Delete
<1>4. ContentMoves
  BY <1>1, <1>2, <1>3 DEF ContentMoves
<1> DEFINE none == [q \in Partitions |-> <<>>]
<1>5. none \in [Partitions -> Seq(RequestMessage)] /\ Grows(none)
  BY <1>1, <1>3, NoMore
<1>6. Asks(none)
  BY DEF Asks
<1>7. UNCHANGED <<dlq, offset, gen, owner, joined, worker, gate>>
  BY DEF Delete
<1> HIDE DEF none
<1> QED
  BY <1>4, <1>5, <1>6, <1>7, RequestsKeep

LEMMA UndecodableKeeps ==
  ASSUME EmbeddingInv, NEW q \in Partitions, Undecodable(q)
  PROVE  EmbeddingInv'
<1> DEFINE message == [post |-> Bad, at |-> 1]
<1>1. message \in RequestMessage /\ message.post = Bad /\ EmbeddingShape
  BY DEF RequestMessage, EmbeddingInv
<1>2. log' = [log EXCEPT ![q] = Append(@, message)]
  BY DEF Undecodable
<1> HIDE DEF message
<1>3. Only(q, message) \in [Partitions -> Seq(RequestMessage)] /\ Grows(Only(q, message))
  BY <1>1, <1>2, OneMore
<1>4. content' = content /\ embedding' = embedding
  BY DEF Undecodable
<1>5. ContentMoves
  BY <1>1, <1>4 DEF ContentMoves, EmbeddingShape
<1>6. Asks(Only(q, message))
  <2>1. ASSUME NEW r \in Partitions, NEW j \in DOMAIN Only(q, message)[r]
        PROVE  Only(q, message)[r][j] = message
    BY DEF Only
  <2> QED
    BY <1>1, <2>1 DEF Asks
<1>7. UNCHANGED <<dlq, offset, gen, owner, joined, worker, gate>>
  BY DEF Undecodable
<1> QED
  BY <1>3, <1>5, <1>6, <1>7, RequestsKeep

\* The requests for some of the Posts, in some order.
Wanted(S) == {Request(p) : p \in S}

LEMMA WantedAre ==
  ASSUME content \in [Posts -> Nat \cup {Gone}], NEW S, S \subseteq Posts, \A p \in S : content[p] # Gone
  PROVE  /\ SetToSeq(Wanted(S)) \in Seq(RequestMessage)
         /\ \A j \in DOMAIN SetToSeq(Wanted(S)) :
              \E p \in S : SetToSeq(Wanted(S))[j] = Request(p)
<1>1. IsFiniteSet(S)
  BY FS_Subset
<1> DEFINE f == [p \in S |-> Request(p)]
<1>2. f \in Surjection(S, Wanted(S))
  BY DEF Wanted, Surjection
<1>3. IsFiniteSet(Wanted(S))
  BY <1>1, <1>2, FS_Surjection
<1>4. Wanted(S) \subseteq RequestMessage
  BY RequestIs DEF Wanted
<1>5. SetToSeq(Wanted(S)) \in Seq(Wanted(S))
  BY <1>3, SetToSeqIs
<1>6. PICK t : t = SetToSeq(Wanted(S))
  OBVIOUS
<1>7. t \in Seq(Wanted(S))
  BY <1>5, <1>6
<1>8. t \in Seq(RequestMessage)
  BY <1>4, <1>7
<1>9. \A j \in DOMAIN t : t[j] \in Wanted(S)
  BY <1>7
<1> QED
  BY <1>6, <1>8, <1>9 DEF Wanted

\* The Posts of a partition among some.
In(S, q) == {p \in S : PartitionOf[p] = q}

LEMMA RequeueKeeps ==
  ASSUME EmbeddingInv, Requeue
  PROVE  EmbeddingInv'
<1> DEFINE extra == [q \in Partitions |-> SetToSeq(Wanted(In(Missing, q)))]
<1>1. EmbeddingShape /\ content' = content /\ embedding' = embedding /\ content \in [Posts -> Nat \cup {Gone}]
  BY DEF EmbeddingInv, EmbeddingShape, Requeue
<1>2. ASSUME NEW q \in Partitions
      PROVE  /\ SetToSeq(Wanted(In(Missing, q))) \in Seq(RequestMessage)
             /\ \A j \in DOMAIN SetToSeq(Wanted(In(Missing, q))) :
                  \E p \in In(Missing, q) : SetToSeq(Wanted(In(Missing, q)))[j] = Request(p)
  <2>1. In(Missing, q) \subseteq Posts /\ \A p \in In(Missing, q) : content[p] # Gone
    BY DEF In, Missing
  <2> QED
    BY <1>1, <2>1, WantedAre
<1>3. extra \in [Partitions -> Seq(RequestMessage)]
  BY <1>2
<1>4. Grows(extra)
  BY DEF Grows, Requeue, Wanted, In
<1>5. Asks(extra)
  <2>1. ASSUME NEW q \in Partitions, NEW j \in DOMAIN extra[q]
        PROVE  extra[q][j].post # Bad => extra[q][j].at <= content'[extra[q][j].post]
    <3>1. extra[q] = SetToSeq(Wanted(In(Missing, q)))
      OBVIOUS
    <3>2. PICK p \in In(Missing, q) : SetToSeq(Wanted(In(Missing, q)))[j] = Request(p)
      BY <1>2, <2>1, <3>1
    <3>3. p \in Posts /\ content[p] # Gone
      BY <3>2 DEF In, Missing
    <3>4. Request(p).post = p /\ Request(p).at = content[p]
      BY <1>1, <3>3, RequestIs
    <3>5. content[p] \in Nat
      BY <1>1, <3>3 DEF EmbeddingShape
    <3>6. extra[q][j] = Request(p)
      BY <3>1, <3>2
    <3> QED
      BY <1>1, <3>4, <3>5, <3>6
  <2> HIDE DEF extra
  <2> QED
    BY <2>1 DEF Asks
<1>6. ContentMoves
  BY <1>1 DEF ContentMoves, EmbeddingShape
<1>7. UNCHANGED <<dlq, offset, gen, owner, joined, worker, gate>>
  BY DEF Requeue
<1> HIDE DEF extra
<1> QED
  BY <1>3, <1>4, <1>5, <1>6, <1>7, RequestsKeep

-----------------------------------------------------------------------------
(* The group.                                                              *)

\* What the group and the gates do not touch.
PostsKept == UNCHANGED <<content, embedding, log, dlq>>

LEMMA PostsKeptKeeps ==
  ASSUME EmbeddingShape, PostsKept
  PROVE  LogKeeps
<1>1. \A q \in Partitions : Len(log[q]) \in Nat
  BY MessagesAre
<1> QED
  BY <1>1 DEF LogKeeps, PostsKept, Handled

LEMMA LogInvKept ==
  ASSUME LogShape, LogInv, PostsKept, offset' = offset
  PROVE  LogShape' /\ LogInv'
<1>1. \A q \in Partitions : HandledTo(q, offset[q]) => HandledTo(q, offset[q])'
  BY DEF HandledTo, Handled, PostsKept
<1>2. LogShape'
  BY DEF LogShape, PostsKept
<1> QED
  BY <1>1, <1>2 DEF LogInv, PostsKept

LEMMA RebalanceKeeps ==
  ASSUME EmbeddingInv, Rebalance
  PROVE  EmbeddingInv'
<1> USE DEF EmbeddingInv
<1>1. PostsKept /\ UNCHANGED <<offset, joined, worker, gate>> /\ gen' = gen + 1 /\ owner' \in Assignments
  BY DEF Rebalance, PostsKept
<1>2. gen \in Nat /\ joined \in [Members -> 0..gen]
  BY DEF EmbeddingShape
<1>3. EmbeddingShape'
  BY <1>1, <1>2 DEF EmbeddingShape, PostsKept
<1>4. LogShape' /\ LogInv'
  BY <1>1, LogInvKept
<1>5. OffsetsAgree'
  <2>1. \A w \in Workers : joined'[w[1]] # gen'
    BY <1>1, <1>2, WorkersAre
  <2> QED
    BY <2>1 DEF OffsetsAgree
<1>6. WorkersInv'
  BY <1>1, <1>3, PostsKeptKeeps, AllKept
<1>7. GatesInv'
  BY <1>1, GatesKept
<1> QED
  BY <1>3, <1>4, <1>5, <1>6, <1>7

LEMMA WorkersFinite ==
  ASSUME NEW m, IsFiniteSet(Flying(m)), NEW S, S \subseteq Flying(m)
  PROVE  IsFiniteSet(S) /\ Cardinality(S) \in Nat
BY FS_Subset, FS_CardinalityType

\* The gates of the other processes.
LEMMA OtherGates ==
  ASSUME GatesInv, NEW m \in Members, \A n \in Members : n # m => gate'[n] = gate[n],
         \A w \in Workers : w[1] # m => worker'[w] = worker[w], GateOK(m)'
  PROVE  GatesInv'
<1>1. ASSUME NEW n \in Members, n # m
      PROVE  GateOK(n)'
  <2>1. Flying(n)' = Flying(n)
    BY <1>1 DEF Flying
  <2>2. GateOK(n) /\ gate'[n] = gate[n]
    BY <1>1 DEF GatesInv
  <2>3. \A w \in Flying(n) : worker'[w] = worker[w]
    BY <1>1 DEF Flying
  <2> QED
    BY <2>1, <2>2, <2>3 DEF GateOK
<1> QED
  BY <1>1 DEF GatesInv

LEMMA IdleBatch ==
  ASSUME NEW w \in Workers
  PROVE  BatchOK(w, Idle)'
BY DEF BatchOK, Idle

LEMMA CrashKeeps ==
  ASSUME EmbeddingInv, NEW m \in Members, Crash(m)
  PROVE  EmbeddingInv'
<1> USE DEF EmbeddingInv
<1>1. PostsKept /\ offset' = offset /\ gen' = gen + 1 /\ owner' \in Assignments
  BY DEF Crash, PostsKept
<1>2. joined' = [joined EXCEPT ![m] = 0] /\ gate' = [gate EXCEPT ![m] = NewGate]
  BY DEF Crash
<1>3. worker' = [w \in Workers |-> IF w[1] = m THEN Idle ELSE worker[w]]
  BY DEF Crash
<1>4. gen \in Nat /\ joined \in [Members -> 0..gen] /\ worker \in [Workers -> PartitionWorker] /\ gate \in [Members -> ProviderGate]
  BY DEF EmbeddingShape
<1>5. NewGate \in ProviderGate
  BY DEF NewGate, ProviderGate
<1>6. worker' \in [Workers -> PartitionWorker]
  BY <1>3, <1>4, IdleIs
<1>7. joined' \in [Members -> 0..(gen + 1)] /\ gate' \in [Members -> ProviderGate]
  BY <1>2, <1>4, <1>5
<1>8. EmbeddingShape'
  BY <1>1, <1>4, <1>6, <1>7, SMTT(30) DEF EmbeddingShape, PostsKept
<1>9. LogShape' /\ LogInv'
  BY <1>1, LogInvKept
<1>10. OffsetsAgree'
  <2>1. \A w \in Workers : joined'[w[1]] # gen'
    BY <1>1, <1>2, <1>4, WorkersAre
  <2> QED
    BY <2>1 DEF OffsetsAgree
<1>11. LogKeeps
  BY <1>1, PostsKeptKeeps
<1>12. WorkersInv'
  <2>1. ASSUME NEW w \in Workers
        PROVE  BatchOK(w, worker[w])' /\ StageOK(worker[w])'
    <3>1. PICK s \in PartitionWorker : s = worker'[w]
      BY <1>6
    <3>2. CASE w[1] = m
      <4>1. s = Idle
        BY <1>3, <3>1, <3>2
      <4>2. BatchOK(w, s)' /\ StageOK(s)
        BY <4>1, IdleBatch, IdleIs DEF BatchOK, Idle
      <4> QED
        BY <3>1, <4>2 DEF BatchOK, StageOK
    <3>3. CASE w[1] # m
      <4>1. s = worker[w]
        BY <1>3, <3>1, <3>3
      <4>2. BatchOK(w, s) /\ StageOK(s)
        BY <4>1 DEF WorkersInv
      <4>3. BatchOK(w, s)'
        BY <1>8, <1>11, <4>2, BatchKept
      <4> QED
        BY <3>1, <4>2, <4>3 DEF BatchOK, StageOK
    <3> QED
      BY <3>2, <3>3
  <2> QED
    BY <2>1 DEF WorkersInv
<1>13. GatesInv'
  <2>1. Flying(m)' = {}
    BY <1>3, IdleIs DEF Flying
  <2>2. gate'[m] = NewGate
    BY <1>2, <1>4
  <2>3. IsFiniteSet({}) /\ Cardinality({}) = 0
    BY FS_EmptySet
  <2>4. GateOK(m)'
    BY <2>1, <2>2, <2>3 DEF GateOK, NewGate
  <2>5. \A w \in Workers : w[1] # m => worker'[w] = worker[w]
    BY <1>3
  <2>6. \A n \in Members : n # m => gate'[n] = gate[n]
    BY <1>2
  <2> QED
    BY <2>4, <2>5, <2>6, OtherGates
<1> QED
  BY <1>8, <1>9, <1>10, <1>12, <1>13

Started(w) == [Idle EXCEPT !.pc = "fetch", !.next = offset[w[2]]]

LEMMA WorkerStartedIs ==
  ASSUME EmbeddingShape, LogShape, LogInv, NEW w \in Workers
  PROVE  /\ Started(w) \in PartitionWorker /\ BatchOK(w, Started(w)) /\ StageOK(Started(w))
         /\ Started(w).next = offset[w[2]] /\ ~Started(w).permit.held
<1>1. w[2] \in Partitions /\ offset[w[2]] \in Nat
  BY WorkersAre DEF EmbeddingShape
<1>2. Idle \in PartitionWorker /\ ~Idle.permit.held /\ StageOK(Idle)
  BY IdleIs
<1>3. Started(w) \in PartitionWorker
  BY <1>1, <1>2 DEF Started, PartitionWorker, States
<1>4. Started(w).pc = "fetch" /\ Started(w).next = offset[w[2]] /\ Started(w).permit = Idle.permit
      /\ Started(w).items = Idle.items /\ Started(w).groups = Idle.groups
  BY DEF Started, Idle
<1>5. BatchOK(w, Started(w))
  BY <1>1, <1>4 DEF BatchOK, LogShape, LogInv
<1>6. StageOK(Started(w))
  BY <1>2, <1>4 DEF StageOK, Idle
<1> QED
  BY <1>2, <1>3, <1>4, <1>5, <1>6

LEMMA JoinKeeps ==
  ASSUME EmbeddingInv, NEW m \in Members, Join(m)
  PROVE  EmbeddingInv'
<1> USE DEF EmbeddingInv
<1>1. PostsKept /\ UNCHANGED <<offset, gen, owner, gate>>
  BY DEF Join, PostsKept
<1>2. joined' = [joined EXCEPT ![m] = gen] /\ \A w \in Workers : w[1] = m => worker[w].pc = "idle"
  BY DEF Join
<1>3. worker' = [w \in Workers |-> IF w[1] = m /\ owner[w[2]] = m THEN Started(w) ELSE worker[w]]
  BY DEF Join, Started
<1>4. gen \in Nat /\ joined \in [Members -> 0..gen] /\ worker \in [Workers -> PartitionWorker]
  BY DEF EmbeddingShape
<1>5. worker' \in [Workers -> PartitionWorker]
  BY <1>3, <1>4, WorkerStartedIs
<1>6. EmbeddingShape'
  BY <1>1, <1>2, <1>4, <1>5 DEF EmbeddingShape, PostsKept
<1>7. LogShape' /\ LogInv'
  BY <1>1, LogInvKept
<1>8. LogKeeps
  BY <1>1, PostsKeptKeeps
<1>9. OffsetsAgree'
  <2>1. ASSUME NEW w \in Workers, worker'[w].pc # "idle", joined'[w[1]] = gen
        PROVE  /\ owner[w[2]] = w[1]
               /\ \/ offset[w[2]] = worker'[w].next
                  \/ worker'[w].pending /\ worker'[w].pc = "commit" /\ offset[w[2]] = worker'[w].hi
    <3>1. CASE w[1] = m /\ owner[w[2]] = m
      <4>1. worker'[w] = Started(w)
        BY <1>3, <3>1
      <4>2. Started(w).next = offset[w[2]]
        BY WorkerStartedIs
      <4> QED
        BY <3>1, <4>1, <4>2
    <3>2. CASE ~(w[1] = m /\ owner[w[2]] = m)
      <4>1. worker'[w] = worker[w]
        BY <1>3, <3>2
      <4>2. w[1] # m
        BY <1>2, <2>1, <4>1
      <4>3. joined[w[1]] = gen
        BY <1>2, <1>4, <2>1, <4>2, WorkersAre
      <4> QED
        BY <2>1, <4>1, <4>3 DEF OffsetsAgree
    <3> QED
      BY <3>1, <3>2
  <2> QED
    BY <1>1, <2>1 DEF OffsetsAgree
<1>10. WorkersInv'
  <2>1. ASSUME NEW w \in Workers
        PROVE  BatchOK(w, worker[w])' /\ StageOK(worker[w])'
    <3>1. PICK s \in PartitionWorker : s = worker'[w]
      BY <1>5
    <3>2. BatchOK(w, s) /\ StageOK(s)
      BY <1>3, <3>1, WorkerStartedIs DEF WorkersInv
    <3>3. BatchOK(w, s)'
      BY <1>6, <1>8, <3>2, BatchKept
    <3> QED
      BY <3>1, <3>2, <3>3 DEF BatchOK, StageOK
  <2> QED
    BY <2>1 DEF WorkersInv
<1>11. GatesInv'
  <2>1. ASSUME NEW w \in Workers
        PROVE  /\ worker'[w].permit.held = worker[w].permit.held
               /\ worker[w].permit.held => worker'[w].permit = worker[w].permit
    <3>1. CASE w[1] = m /\ owner[w[2]] = m
      <4>1. worker'[w] = Started(w) /\ ~Started(w).permit.held
        BY <1>3, <3>1, WorkerStartedIs
      <4>2. ~worker[w].permit.held
        BY <1>2, <3>1 DEF WorkersInv, StageOK
      <4>3. worker[w].permit.held \in BOOLEAN /\ worker'[w].permit.held \in BOOLEAN
        BY <1>4, <1>5 DEF PartitionWorker, Permit
      <4> QED
        BY <4>1, <4>2, <4>3
    <3>2. CASE ~(w[1] = m /\ owner[w[2]] = m)
      BY <1>3, <3>2
    <3> QED
      BY <3>1, <3>2
  <2> QED
    BY <1>1, <2>1, GatesKept
<1> QED
  BY <1>6, <1>7, <1>9, <1>10, <1>11

LEMMA CoolDownKeeps ==
  ASSUME EmbeddingInv, NEW m \in Members, CoolDown(m)
  PROVE  EmbeddingInv'
<1> USE DEF EmbeddingInv
<1>1. PostsKept /\ UNCHANGED <<offset, gen, owner, joined, worker>>
  BY DEF CoolDown, PostsKept
<1>2. gate' = [gate EXCEPT ![m].cooled = TRUE] /\ gate \in [Members -> ProviderGate]
  BY DEF CoolDown, EmbeddingShape
<1>3. gate' \in [Members -> ProviderGate]
  BY <1>2 DEF ProviderGate
<1>4. EmbeddingShape'
  BY <1>1, <1>3 DEF EmbeddingShape, PostsKept
<1>5. LogShape' /\ LogInv'
  BY <1>1, LogInvKept
<1>6. OffsetsAgree'
  BY <1>1 DEF OffsetsAgree
<1>7. WorkersInv'
  BY <1>1, <1>4, PostsKeptKeeps, AllKept
<1>8. GatesInv'
  <2>1. ASSUME NEW n \in Members
        PROVE  GateOK(n)'
    <3>1. gate'[n].state = gate[n].state /\ gate'[n].epoch = gate[n].epoch /\ gate'[n].inFlight = gate[n].inFlight
      BY <1>2 DEF ProviderGate
    <3>2. GateOK(n)
      BY DEF GatesInv
    <3>3. Flying(n)' = Flying(n)
      BY <1>1 DEF Flying
    <3> QED
      BY <1>1, <3>1, <3>2, <3>3 DEF GateOK
  <2> QED
    BY <2>1 DEF GatesInv
<1> QED
  BY <1>4, <1>5, <1>6, <1>7, <1>8

-----------------------------------------------------------------------------
(* A worker's step.                                                        *)

\* The offsets of the worker agree with the broker's.
AgreesAt(w, s) ==
  s.pc # "idle" /\ joined[w[1]] = gen =>
    owner[w[2]] = w[1] /\ (offset[w[2]] = s.next \/ (s.pending /\ s.pc = "commit" /\ offset[w[2]] = s.hi))

LEMMA SetIs ==
  ASSUME EmbeddingShape, NEW w \in Workers, NEW s \in PartitionWorker, Set(w, s)
  PROVE  /\ worker' \in [Workers -> PartitionWorker] /\ worker'[w] = s
         /\ \A v \in Workers : v # w => worker'[v] = worker[v]
BY DEF Set, EmbeddingShape

\* A step of a worker that leaves the Posts, the log and the offsets alone.
LEMMA WorkerKeeps ==
  ASSUME EmbeddingInv, NEW w \in Workers, NEW s \in PartitionWorker, Set(w, s), PostsKept,
         UNCHANGED <<offset, gen, owner, joined>>, gate' \in [Members -> ProviderGate],
         BatchOK(w, s), StageOK(s), AgreesAt(w, s), GatesInv'
  PROVE  EmbeddingInv'
<1> USE DEF EmbeddingInv
<1>1. worker' \in [Workers -> PartitionWorker] /\ worker'[w] = s /\ \A v \in Workers : v # w => worker'[v] = worker[v]
  BY SetIs
<1>2. EmbeddingShape'
  BY <1>1 DEF EmbeddingShape, PostsKept
<1>3. LogShape' /\ LogInv'
  BY LogInvKept
<1>4. OffsetsAgree'
  BY <1>1 DEF OffsetsAgree, AgreesAt
<1>5. WorkersInv'
  <2>1. LogKeeps
    BY PostsKeptKeeps
  <2>2. BatchOK(w, s)'
    BY <1>2, <2>1, BatchKept
  <2>3. BatchOK(w, worker[w])'
    BY <1>1, <2>2 DEF BatchOK
  <2> QED
    BY <1>1, <1>2, <2>1, <2>3, OthersKept
<1> QED
  BY <1>2, <1>3, <1>4, <1>5

LEMMA GateIs ==
  ASSUME EmbeddingShape, NEW w \in Workers
  PROVE  /\ w[1] \in Members /\ gate[w[1]] \in ProviderGate
         /\ gate[w[1]].inFlight \in Nat /\ gate[w[1]].epoch \in Nat /\ gate[w[1]].state \in {"closed", "open", "half"}
BY WorkersAre DEF EmbeddingShape, ProviderGate

LEMMA SetGateIs ==
  ASSUME EmbeddingShape, NEW w \in Workers, NEW g \in ProviderGate, SetGate(w, g)
  PROVE  /\ gate' \in [Members -> ProviderGate] /\ gate'[w[1]] = g
         /\ \A n \in Members : n # w[1] => gate'[n] = gate[n]
BY WorkersAre DEF SetGate, EmbeddingShape

\* What a gate may become when a request is over: the same, or, once its only request is
\* over, another state, or open.
MayFollow(old, new) ==
  \/ new.state = old.state /\ new.epoch = old.epoch
  \/ old.state = "half" /\ new.state # "half"
  \/ old.state = "closed" /\ new.state = "open" /\ new.epoch = old.epoch + 1

\* The permit is returned.
LEMMA Returns ==
  ASSUME EmbeddingShape, GatesInv, NEW w \in Workers, worker[w].permit.held,
         NEW s \in PartitionWorker, ~s.permit.held, Set(w, s), NEW g \in ProviderGate, SetGate(w, g),
         g.inFlight = gate[w[1]].inFlight - 1, MayFollow(gate[w[1]], g)
  PROVE  GatesInv'
<1> DEFINE m == w[1]
<1>1. m \in Members /\ gate[m].inFlight \in Nat /\ gate[m].epoch \in Nat /\ g.epoch \in Nat
  BY GateIs DEF ProviderGate
<1>2. worker'[w] = s /\ \A v \in Workers : v # w => worker'[v] = worker[v]
  BY SetIs
<1>3. gate'[m] = g /\ \A n \in Members : n # m => gate'[n] = gate[n]
  BY SetGateIs
<1>4. GateOK(m)
  BY <1>1 DEF GatesInv
<1>5. w \in Flying(m) /\ Flying(m)' = Flying(m) \ {w}
  BY <1>2 DEF Flying
<1>6. IsFiniteSet(Flying(m)) /\ Cardinality(Flying(m)) = gate[m].inFlight /\ gate[m].inFlight <= Limit
  BY <1>4 DEF GateOK
<1>7. IsFiniteSet(Flying(m) \ {w}) /\ Cardinality(Flying(m) \ {w}) = Cardinality(Flying(m)) - 1
  BY <1>5, <1>6, FS_RemoveElement, SMTT(30)
<1>8. gate[m].state = "half" => Flying(m) \ {w} = {} /\ Cardinality(Flying(m) \ {w}) = 0
  <2>1. SUFFICES ASSUME gate[m].state = "half"
                 PROVE  Flying(m) \ {w} = {} /\ Cardinality(Flying(m) \ {w}) = 0
    OBVIOUS
  <2>2. Cardinality(Flying(m) \ {w}) = 0
    <3>1. Cardinality(Flying(m)) <= 1
      BY <1>4, <2>1 DEF GateOK
    <3>2. Cardinality(Flying(m) \ {w}) \in Nat
      BY <1>7, FS_CardinalityType
    <3> QED
      BY <1>1, <1>6, <1>7, <3>1, <3>2
  <2> QED
    BY <1>7, <2>2, FS_EmptySet
<1>9. \A v \in Flying(m) \ {w} :
        /\ worker[v].permit.epoch <= gate[m].epoch /\ worker[v].permit.epoch \in Nat
        /\ gate[m].state = "open" => worker[v].permit.epoch # gate[m].epoch
        /\ worker[v].permit.half => gate[m].state = "half"
  <2>1. \A v \in Workers : worker[v].permit.epoch \in Nat
    BY DEF EmbeddingShape, PartitionWorker, Permit
  <2> QED
    BY <1>4, <2>1 DEF GateOK, Flying
<1>10. \A v \in Flying(m) \ {w} :
         /\ worker[v].permit.epoch <= g.epoch
         /\ g.state = "open" => worker[v].permit.epoch # g.epoch
         /\ g.state = "half" => worker[v].permit.epoch = g.epoch
         /\ worker[v].permit.half => g.state = "half"
  <2>1. CASE g.state = gate[m].state /\ g.epoch = gate[m].epoch
    BY <1>4, <2>1 DEF GateOK
  <2>2. CASE gate[m].state = "half" /\ g.state # "half"
    BY <1>8, <2>2
  <2>3. CASE gate[m].state = "closed" /\ g.state = "open" /\ g.epoch = gate[m].epoch + 1
    BY <1>1, <1>9, <2>3
  <2> QED
    BY <2>1, <2>2, <2>3 DEF MayFollow
<1>11. g.state = "half" => Cardinality(Flying(m) \ {w}) <= 1
  <2>1. CASE gate[m].state = "half"
    BY <1>8, <2>1
  <2>2. CASE gate[m].state # "half"
    BY <2>2 DEF MayFollow
  <2> QED
    BY <2>1, <2>2
<1>12. GateOK(m)'
  <2>1. \A v \in Flying(m)' : worker'[v] = worker[v] /\ v \in Flying(m) \ {w}
    BY <1>2, <1>5 DEF Flying
  <2>2. IsFiniteSet(Flying(m)') /\ g.inFlight = Cardinality(Flying(m)') /\ g.inFlight <= Limit
    BY <1>1, <1>5, <1>6, <1>7
  <2> QED
    BY <1>3, <1>5, <1>10, <1>11, <2>1, <2>2 DEF GateOK
<1>13. \A v \in Workers : v[1] # m => worker'[v] = worker[v]
  BY <1>2
<1> HIDE DEF m
<1> QED
  BY <1>1, <1>3, <1>12, <1>13, OtherGates

LEMMA AcquiredIs ==
  ASSUME NEW old \in ProviderGate
  PROVE  /\ Acquired(old) \in ProviderGate /\ Acquired(old).inFlight = old.inFlight + 1
         /\ old.state = "open" => Acquired(old).state = "half" /\ Acquired(old).epoch = old.epoch + 1
         /\ old.state # "open" => Acquired(old).state = old.state /\ Acquired(old).epoch = old.epoch
<1>1. CASE old.state = "open"
  <2>1. Acquired(old) = [old EXCEPT !.state = "half", !.epoch = @ + 1, !.inFlight = @ + 1]
    BY <1>1 DEF Acquired
  <2>2. old = [state |-> old.state, inFlight |-> old.inFlight, epoch |-> old.epoch, cooled |-> old.cooled]
        /\ old.inFlight \in Nat /\ old.epoch \in Nat /\ old.cooled \in BOOLEAN
    BY DEF ProviderGate
  <2>3. Acquired(old) = [state |-> "half", inFlight |-> old.inFlight + 1, epoch |-> old.epoch + 1, cooled |-> old.cooled]
    BY <2>1, <2>2
  <2>4. Acquired(old) \in ProviderGate
    BY <2>2, <2>3 DEF ProviderGate
  <2> QED
    BY <1>1, <2>3, <2>4
<1>2. CASE old.state # "open"
  <2>1. Acquired(old) = [old EXCEPT !.inFlight = @ + 1]
    BY <1>2 DEF Acquired
  <2> QED
    BY <1>2, <2>1 DEF ProviderGate
<1> QED
  BY <1>1, <1>2

\* A permit is taken.
LEMMA Takes ==
  ASSUME EmbeddingShape, GatesInv, NEW w \in Workers, ~worker[w].permit.held, MayAcquire(gate[w[1]]),
         NEW s \in PartitionWorker, Set(w, s), SetGate(w, Acquired(gate[w[1]])),
         s.permit.held, s.permit.epoch = Acquired(gate[w[1]]).epoch,
         s.permit.half <=> Acquired(gate[w[1]]).state = "half"
  PROVE  GatesInv' /\ gate' \in [Members -> ProviderGate]
<1> DEFINE m == w[1]
<1>1. m \in Members /\ gate[m] \in ProviderGate /\ gate[m].inFlight \in Nat /\ gate[m].epoch \in Nat
      /\ gate[m].state \in {"closed", "open", "half"}
  BY GateIs
<1>2. PICK g : g = Acquired(gate[m])
  OBVIOUS
<1>3. /\ g \in ProviderGate /\ g.inFlight = gate[m].inFlight + 1
      /\ gate[m].state = "open" => g.state = "half" /\ g.epoch = gate[m].epoch + 1
      /\ gate[m].state # "open" => g.state = gate[m].state /\ g.epoch = gate[m].epoch
  BY <1>1, <1>2, AcquiredIs
<1>4. worker'[w] = s /\ \A v \in Workers : v # w => worker'[v] = worker[v]
  BY SetIs
<1>5. gate' \in [Members -> ProviderGate] /\ gate'[m] = g /\ \A n \in Members : n # m => gate'[n] = gate[n]
  <2>1. SetGate(w, g)
    BY <1>2
  <2> QED
    BY <1>3, <2>1, SetGateIs
<1>6. s.permit.held /\ s.permit.epoch = g.epoch /\ (s.permit.half <=> g.state = "half")
  BY <1>2
<1>7. GateOK(m)
  BY <1>1 DEF GatesInv
<1>8. w \notin Flying(m) /\ Flying(m)' = Flying(m) \cup {w}
  BY <1>4, <1>6 DEF Flying
<1>9. IsFiniteSet(Flying(m)) /\ Cardinality(Flying(m)) = gate[m].inFlight /\ gate[m].inFlight <= Limit
  BY <1>7 DEF GateOK
<1>10. IsFiniteSet(Flying(m) \cup {w}) /\ Cardinality(Flying(m) \cup {w}) = gate[m].inFlight + 1
  BY <1>8, <1>9, FS_AddElement
<1>11. gate[m].inFlight = 0 => Flying(m) = {}
  BY <1>9, FS_EmptySet
<1>12. gate[m].state # "closed" => gate[m].inFlight = 0
  BY <1>1 DEF MayAcquire
<1>13. gate[m].inFlight + 1 <= Limit /\ Limit \in Nat
  BY <1>1, <1>12 DEF MayAcquire
<1>14. \A v \in Flying(m) :
         /\ worker[v].permit.epoch <= g.epoch
         /\ g.state = "open" => worker[v].permit.epoch # g.epoch
         /\ g.state = "half" => worker[v].permit.epoch = g.epoch
         /\ worker[v].permit.half => g.state = "half"
  <2>1. CASE gate[m].state = "closed"
    BY <1>3, <1>7, <2>1 DEF GateOK
  <2>2. CASE gate[m].state # "closed"
    BY <1>11, <1>12, <2>2
  <2> QED
    BY <2>1, <2>2
<1>15. g.state # "open" /\ (g.state = "half" => Cardinality(Flying(m) \cup {w}) <= 1)
  BY <1>1, <1>3, <1>10, <1>12
<1>16. GateOK(m)'
  <2>1. \A v \in Flying(m) : worker'[v] = worker[v]
    BY <1>4, <1>8 DEF Flying
  <2>2. g.epoch \in Nat
    BY <1>3 DEF ProviderGate
  <2>3. \A v \in Flying(m)' :
          /\ worker'[v].permit.epoch <= g.epoch
          /\ g.state = "open" => worker'[v].permit.epoch # g.epoch
          /\ g.state = "half" => worker'[v].permit.epoch = g.epoch
          /\ worker'[v].permit.half => g.state = "half"
    BY <1>4, <1>6, <1>8, <1>14, <1>15, <2>1, <2>2
  <2>4. IsFiniteSet(Flying(m)') /\ g.inFlight = Cardinality(Flying(m)') /\ g.inFlight <= Limit
    BY <1>3, <1>8, <1>10, <1>13
  <2> QED
    BY <1>5, <1>8, <1>15, <2>3, <2>4 DEF GateOK
<1>17. \A v \in Workers : v[1] # m => worker'[v] = worker[v]
  BY <1>4
<1> HIDE DEF m
<1> QED
  BY <1>1, <1>5, <1>16, <1>17, OtherGates

\* What holds of a worker.
LEMMA WorkerIs ==
  ASSUME EmbeddingInv, NEW w \in Workers
  PROVE  /\ worker[w] \in PartitionWorker /\ BatchOK(w, worker[w]) /\ StageOK(worker[w]) /\ AgreesAt(w, worker[w])
         /\ w[1] \in Members /\ w[2] \in Partitions
BY WorkersAre DEF EmbeddingInv, EmbeddingShape, WorkersInv, OffsetsAgree, AgreesAt

LEMMA NothingInHand ==
  /\ <<>> \in Seq(Seq(Item)) /\ <<>> \in Seq(Item) /\ 1 \in Nat /\ NoPermit \in Permit /\ ~NoPermit.held
  /\ "load" \in States /\ "fetch" \in States /\ "acquire" \in States /\ "write" \in States /\ "commit" \in States
  /\ "call" \in States
BY IdleIs DEF States

LEMMA HeldIs ==
  ASSUME NEW w \in Workers, NEW s \in PartitionWorker, BatchOK(w, s), AgreesAt(w, s), s.pc \notin {"idle", "fetch", "commit"}
  PROVE  Held(s) \in PartitionWorker /\ BatchOK(w, Held(s)) /\ StageOK(Held(s)) /\ AgreesAt(w, Held(s)) /\ ~Held(s).permit.held
<1>1. Held(s) = [s EXCEPT !.pc = "load", !.groups = <<>>, !.items = <<>>, !.try = 1, !.permit = NoPermit]
  BY DEF Held
<1>2. Held(s) \in PartitionWorker
  BY <1>1, NothingInHand DEF PartitionWorker
<1>3. /\ Held(s).pc = "load" /\ Held(s).groups = <<>> /\ Held(s).items = <<>> /\ Held(s).permit = NoPermit
      /\ Held(s).next = s.next /\ Held(s).hi = s.hi
  BY <1>1 DEF PartitionWorker
<1>4. BatchOK(w, Held(s))
  BY <1>3 DEF BatchOK
<1>5. StageOK(Held(s)) /\ ~Held(s).permit.held
  BY <1>3, NothingInHand DEF StageOK
<1>6. AgreesAt(w, Held(s))
  BY <1>3 DEF AgreesAt
<1> QED
  BY <1>2, <1>4, <1>5, <1>6

\* A step without the gate.
LEMMA QuietGate ==
  ASSUME EmbeddingInv, NEW w \in Workers, NEW s \in PartitionWorker, Set(w, s), gate' = gate,
         ~worker[w].permit.held, ~s.permit.held
  PROVE  GatesInv' /\ gate' \in [Members -> ProviderGate]
<1>1. worker' \in [Workers -> PartitionWorker] /\ worker'[w] = s /\ \A v \in Workers : v # w => worker'[v] = worker[v]
  BY SetIs DEF EmbeddingInv
<1>2. \A v \in Workers : worker'[v].permit.held = worker[v].permit.held
  <2>1. worker[w].permit.held \in BOOLEAN /\ s.permit.held \in BOOLEAN
    BY WorkerIs DEF PartitionWorker, Permit
  <2> QED
    BY <1>1, <2>1
<1>3. \A v \in Workers : worker[v].permit.held => worker'[v].permit = worker[v].permit
  BY <1>1
<1> QED
  BY <1>2, <1>3, GatesKept DEF EmbeddingInv, EmbeddingShape

LEMMA FetchKeeps ==
  ASSUME EmbeddingInv, NEW w \in Workers, Fetch(w)
  PROVE  EmbeddingInv'
<1> DEFINE s == worker[w]
<1>1. s \in PartitionWorker /\ BatchOK(w, s) /\ StageOK(s) /\ AgreesAt(w, s) /\ w[2] \in Partitions
  BY WorkerIs
<1>2. s.pc = "fetch" /\ PostsKept /\ UNCHANGED <<offset, gen, owner, joined, gate>>
  BY DEF Fetch, Doing, PostsKept
<1>3. PICK n \in 1..BatchSize : s.next + n <= Len(log[w[2]]) /\ Set(w, [s EXCEPT !.pc = "load", !.hi = s.next + n])
  BY DEF Fetch
<1>4. PICK t : t = [s EXCEPT !.pc = "load", !.hi = s.next + n]
  OBVIOUS
<1>5. s.next \in Nat /\ n \in Nat
  BY <1>1 DEF PartitionWorker
<1> HIDE DEF s
<1>6. t \in PartitionWorker
  <2>1. s.next + n \in Nat
    BY <1>5
  <2> QED
    BY <1>1, <1>4, <2>1, NothingInHand DEF PartitionWorker
<1>7. t.pc = "load" /\ t.hi = s.next + n /\ t.next = s.next /\ t.groups = s.groups /\ t.items = s.items /\ t.permit = s.permit
  BY <1>1, <1>4 DEF PartitionWorker
<1>8. BatchOK(w, t)
  BY <1>1, <1>2, <1>3, <1>5, <1>7 DEF BatchOK
<1>9. StageOK(t) /\ ~t.permit.held /\ ~s.permit.held
  BY <1>1, <1>2, <1>7 DEF StageOK
<1>10. AgreesAt(w, t)
  BY <1>1, <1>2, <1>7 DEF AgreesAt
<1>11. Set(w, t)
  BY <1>3, <1>4 DEF s
<1>12. GatesInv' /\ gate' \in [Members -> ProviderGate]
  BY <1>2, <1>6, <1>9, <1>11, QuietGate DEF s
<1> QED
  BY <1>2, <1>6, <1>8, <1>9, <1>10, <1>11, <1>12, WorkerKeeps

LEMMA StageFailsKeeps ==
  ASSUME EmbeddingInv, NEW w \in Workers, StageFails(w)
  PROVE  EmbeddingInv'
<1>1. PICK s : s = worker[w]
  OBVIOUS
<1>2. s \in PartitionWorker /\ BatchOK(w, s) /\ StageOK(s) /\ AgreesAt(w, s)
  BY <1>1, WorkerIs
<1>3. s.pc \in {"load", "write"} /\ PostsKept /\ UNCHANGED <<offset, gen, owner, joined, gate>> /\ Set(w, Held(s))
  BY <1>1 DEF StageFails, Doing, PostsKept
<1>4. /\ Held(s) \in PartitionWorker /\ BatchOK(w, Held(s)) /\ StageOK(Held(s)) /\ AgreesAt(w, Held(s))
      /\ ~Held(s).permit.held
  BY <1>2, <1>3, HeldIs
<1>5. ~worker[w].permit.held
  BY <1>1, <1>2, <1>3 DEF StageOK
<1>6. GatesInv' /\ gate' \in [Members -> ProviderGate]
  BY <1>3, <1>4, <1>5, QuietGate
<1> QED
  BY <1>3, <1>4, <1>6, WorkerKeeps

LEMMA AcquireKeeps ==
  ASSUME EmbeddingInv, NEW w \in Workers, Acquire(w)
  PROVE  EmbeddingInv'
<1>1. PICK s : s = worker[w]
  OBVIOUS
<1>2. s \in PartitionWorker /\ BatchOK(w, s) /\ StageOK(s) /\ AgreesAt(w, s) /\ w[2] \in Partitions
  BY <1>1, WorkerIs
<1>3. PICK g : g = Acquired(gate[w[1]])
  OBVIOUS
<1>4. gate[w[1]] \in ProviderGate
  BY GateIs DEF EmbeddingInv
<1>5. g \in ProviderGate /\ g.epoch \in Nat
  BY <1>3, <1>4, AcquiredIs DEF ProviderGate
<1>6. PICK permit : permit = [held |-> TRUE, epoch |-> g.epoch, half |-> g.state = "half"]
  OBVIOUS
<1>7. (g.state = "half") \in BOOLEAN
  OBVIOUS
<1>8. permit \in Permit
  BY <1>5, <1>6, <1>7 DEF Permit
<1>9. permit.held /\ permit.epoch = g.epoch /\ (permit.half <=> g.state = "half")
  BY <1>6
<1>10. PICK t : t = [s EXCEPT !.pc = "call", !.permit = permit]
  OBVIOUS
<1>11. /\ s.pc = "acquire" /\ PostsKept /\ UNCHANGED <<offset, gen, owner, joined>> /\ MayAcquire(gate[w[1]])
       /\ SetGate(w, Acquired(gate[w[1]])) /\ Set(w, t)
  BY <1>1, <1>3, <1>6, <1>10 DEF Acquire, Doing, PostsKept
<1>12. t \in PartitionWorker
  BY <1>2, <1>8, <1>10, NothingInHand DEF PartitionWorker
<1>13. t.pc = "call" /\ t.hi = s.hi /\ t.next = s.next /\ t.groups = s.groups /\ t.items = s.items /\ t.permit = permit
  BY <1>2, <1>10 DEF PartitionWorker
<1>14. BatchOK(w, t)
  BY <1>2, <1>11, <1>13 DEF BatchOK, Awaits
<1>15. StageOK(t)
  BY <1>2, <1>9, <1>11, <1>13 DEF StageOK
<1>16. AgreesAt(w, t)
  BY <1>2, <1>11, <1>13 DEF AgreesAt
<1>17. ~worker[w].permit.held
  BY <1>1, <1>2, <1>11 DEF StageOK
<1>18. GatesInv' /\ gate' \in [Members -> ProviderGate]
  BY <1>3, <1>9, <1>11, <1>12, <1>13, <1>17, Takes DEF EmbeddingInv
<1> QED
  BY <1>11, <1>12, <1>14, <1>15, <1>16, <1>18, WorkerKeeps

LEMMA ReleasedIs ==
  ASSUME NEW old \in ProviderGate, old.inFlight >= 1
  PROVE  /\ Released(old) \in ProviderGate /\ Released(old).inFlight = old.inFlight - 1
         /\ Released(old).state = old.state /\ Released(old).epoch = old.epoch
<1>1. old = [state |-> old.state, inFlight |-> old.inFlight, epoch |-> old.epoch, cooled |-> old.cooled]
      /\ old.inFlight \in Nat /\ old.epoch \in Nat /\ old.cooled \in BOOLEAN /\ old.state \in {"closed", "open", "half"}
  BY DEF ProviderGate
<1>2. Released(old) = [state |-> old.state, inFlight |-> old.inFlight - 1, epoch |-> old.epoch, cooled |-> old.cooled]
  BY <1>1 DEF Released
<1>3. old.inFlight - 1 \in Nat
  BY <1>1
<1>4. Released(old) \in ProviderGate
  BY <1>1, <1>2, <1>3 DEF ProviderGate
<1> QED
  BY <1>2, <1>4

LEMMA OpenedIs ==
  ASSUME NEW old \in ProviderGate, old.inFlight >= 1
  PROVE  /\ Opened(old) \in ProviderGate /\ Opened(old).inFlight = old.inFlight - 1
         /\ Opened(old).state = "open" /\ Opened(old).epoch = old.epoch + 1
<1>1. PICK g : g = Released(old)
  OBVIOUS
<1>2. g \in ProviderGate /\ g.inFlight = old.inFlight - 1 /\ g.epoch = old.epoch
  BY <1>1, ReleasedIs
<1>3. g = [state |-> g.state, inFlight |-> g.inFlight, epoch |-> g.epoch, cooled |-> g.cooled]
      /\ g.inFlight \in Nat /\ g.epoch \in Nat
  BY <1>2 DEF ProviderGate
<1>4. Opened(old) = [g EXCEPT !.state = "open", !.epoch = @ + 1, !.cooled = FALSE]
  BY <1>1 DEF Opened
<1>5. Opened(old) = [state |-> "open", inFlight |-> g.inFlight, epoch |-> g.epoch + 1, cooled |-> FALSE]
  BY <1>3, <1>4
<1>6. g.epoch + 1 \in Nat
  BY <1>3
<1>7. Opened(old) \in ProviderGate
  BY <1>3, <1>5, <1>6 DEF ProviderGate
<1> QED
  BY <1>2, <1>5, <1>7

\* The gate after a request.
After(old, new) == new \in ProviderGate /\ new.inFlight = old.inFlight - 1 /\ MayFollow(old, new)

LEMMA GateSucceededIs ==
  ASSUME NEW old \in ProviderGate, old.inFlight >= 1, NEW permit
  PROVE  After(old, GateSucceeded(old, permit))
<1>1. CASE Probes(old, permit)
  <2>1. PICK g : g = Released(old)
    OBVIOUS
  <2>2. g \in ProviderGate /\ g.inFlight = old.inFlight - 1 /\ g.epoch = old.epoch
    BY <2>1, ReleasedIs
  <2>3. g = [state |-> g.state, inFlight |-> g.inFlight, epoch |-> g.epoch, cooled |-> g.cooled]
        /\ g.inFlight \in Nat /\ g.epoch \in Nat /\ g.cooled \in BOOLEAN
    BY <2>2 DEF ProviderGate
  <2>4. GateSucceeded(old, permit) = [g EXCEPT !.state = "closed", !.epoch = @ + 1]
    BY <1>1, <2>1 DEF GateSucceeded
  <2>5. GateSucceeded(old, permit) = [state |-> "closed", inFlight |-> g.inFlight, epoch |-> g.epoch + 1, cooled |-> g.cooled]
    BY <2>3, <2>4
  <2>6. g.epoch + 1 \in Nat
    BY <2>3
  <2>7. GateSucceeded(old, permit) \in ProviderGate
    BY <2>3, <2>5, <2>6 DEF ProviderGate
  <2>8. old.state = "half"
    BY <1>1 DEF Probes
  <2> QED
    BY <2>2, <2>5, <2>7, <2>8 DEF After, MayFollow
<1>2. CASE ~Probes(old, permit)
  BY <1>2, ReleasedIs DEF GateSucceeded, After, MayFollow
<1> QED
  BY <1>1, <1>2

LEMMA GateAbortedIs ==
  ASSUME NEW old \in ProviderGate, old.inFlight >= 1, NEW permit
  PROVE  After(old, GateAborted(old, permit))
<1>1. CASE Probes(old, permit)
  BY <1>1, OpenedIs DEF GateAborted, After, MayFollow, Probes
<1>2. CASE ~Probes(old, permit)
  BY <1>2, ReleasedIs DEF GateAborted, After, MayFollow
<1> QED
  BY <1>1, <1>2

LEMMA GateFailedIs ==
  ASSUME NEW old \in ProviderGate, old.inFlight >= 1, NEW permit, NEW shared, NEW final
  PROVE  After(old, GateFailed(old, permit, shared, final))
<1>1. CASE shared /\ (Probes(old, permit) \/ (permit.epoch = old.epoch /\ old.state = "closed" /\ final))
  <2>1. GateFailed(old, permit, shared, final) = Opened(old)
    BY <1>1 DEF GateFailed
  <2>2. old.state = "half" \/ old.state = "closed"
    BY <1>1 DEF Probes
  <2> QED
    BY <2>1, <2>2, OpenedIs DEF After, MayFollow
<1>2. CASE ~(shared /\ (Probes(old, permit) \/ (permit.epoch = old.epoch /\ old.state = "closed" /\ final)))
  <2>1. GateFailed(old, permit, shared, final) = Released(old)
    BY <1>2 DEF GateFailed
  <2> QED
    BY <2>1, ReleasedIs DEF After, MayFollow
<1> QED
  BY <1>1, <1>2

LEMMA InFlight ==
  ASSUME EmbeddingInv, NEW w \in Workers, worker[w].permit.held
  PROVE  gate[w[1]] \in ProviderGate /\ gate[w[1]].inFlight >= 1
<1>1. w[1] \in Members /\ gate[w[1]] \in ProviderGate /\ gate[w[1]].inFlight \in Nat
  BY GateIs DEF EmbeddingInv
<1>2. w \in Flying(w[1])
  BY DEF Flying
<1>3. IsFiniteSet(Flying(w[1])) /\ gate[w[1]].inFlight = Cardinality(Flying(w[1]))
  BY <1>1 DEF EmbeddingInv, GatesInv, GateOK
<1>4. Cardinality(Flying(w[1])) # 0
  BY <1>2, <1>3, FS_EmptySet
<1> QED
  BY <1>1, <1>3, <1>4

\* A worker's step that ends a request.
LEMMA RequestOver ==
  ASSUME EmbeddingInv, NEW w \in Workers, worker[w].permit.held, NEW s \in PartitionWorker, Set(w, s), PostsKept,
         UNCHANGED <<offset, gen, owner, joined>>, BatchOK(w, s), StageOK(s), AgreesAt(w, s), ~s.permit.held,
         NEW g, After(gate[w[1]], g), SetGate(w, g)
  PROVE  EmbeddingInv'
<1>1. g \in ProviderGate /\ g.inFlight = gate[w[1]].inFlight - 1 /\ MayFollow(gate[w[1]], g)
  BY DEF After
<1>2. GatesInv'
  BY <1>1, Returns DEF EmbeddingInv
<1>3. gate' \in [Members -> ProviderGate]
  BY <1>1, SetGateIs DEF EmbeddingInv
<1> QED
  BY <1>2, <1>3, WorkerKeeps

LEMMA AbandonKeeps ==
  ASSUME EmbeddingInv, NEW w \in Workers, Abandon(w)
  PROVE  EmbeddingInv'
<1>1. PostsKept /\ UNCHANGED <<offset, gen, owner, joined>> /\ Set(w, Idle)
  BY DEF Abandon, PostsKept
<1>2. Idle \in PartitionWorker /\ StageOK(Idle) /\ ~Idle.permit.held /\ Idle.pc = "idle"
  BY IdleIs
<1>3. BatchOK(w, Idle) /\ AgreesAt(w, Idle)
  BY <1>2 DEF BatchOK, AgreesAt
<1>4. CASE worker[w].permit.held
  <2>1. SetGate(w, GateAborted(gate[w[1]], worker[w].permit))
    BY <1>4 DEF Abandon
  <2>2. After(gate[w[1]], GateAborted(gate[w[1]], worker[w].permit))
    BY <1>4, InFlight, GateAbortedIs
  <2> QED
    BY <1>1, <1>2, <1>3, <1>4, <2>1, <2>2, RequestOver
<1>5. CASE ~worker[w].permit.held
  <2>1. SetGate(w, gate[w[1]])
    BY <1>5 DEF Abandon
  <2>2. gate' = gate
    BY <2>1 DEF SetGate, EmbeddingInv, EmbeddingShape
  <2>3. GatesInv' /\ gate' \in [Members -> ProviderGate]
    BY <1>1, <1>2, <1>5, <2>2, QuietGate
  <2> QED
    BY <1>1, <1>2, <1>3, <2>3, WorkerKeeps
<1> QED
  BY <1>4, <1>5

LEMMA ProviderPanicsKeeps ==
  ASSUME EmbeddingInv, NEW w \in Workers, ProviderPanics(w)
  PROVE  EmbeddingInv'
<1>1. PICK s : s = worker[w]
  OBVIOUS
<1>2. s \in PartitionWorker /\ BatchOK(w, s) /\ StageOK(s) /\ AgreesAt(w, s)
  BY <1>1, WorkerIs
<1>3. /\ s.pc = "call" /\ PostsKept /\ UNCHANGED <<offset, gen, owner, joined>> /\ Set(w, Held(s))
      /\ SetGate(w, GateAborted(gate[w[1]], worker[w].permit))
  BY <1>1 DEF ProviderPanics, Doing, PostsKept
<1>4. /\ Held(s) \in PartitionWorker /\ BatchOK(w, Held(s)) /\ StageOK(Held(s)) /\ AgreesAt(w, Held(s))
      /\ ~Held(s).permit.held
  BY <1>2, <1>3, HeldIs
<1>5. worker[w].permit.held
  BY <1>1, <1>2, <1>3 DEF StageOK
<1>6. After(gate[w[1]], GateAborted(gate[w[1]], worker[w].permit))
  BY <1>5, InFlight, GateAbortedIs
<1> QED
  BY <1>3, <1>4, <1>5, <1>6, RequestOver

\* The requests of a worker.
LEMMA GroupsAre ==
  ASSUME NEW s \in PartitionWorker, StageOK(s), s.groups # <<>>
  PROVE  /\ s.groups \in Seq(Seq(Item)) /\ Head(s.groups) \in Seq(Item) /\ Head(s.groups) # <<>>
         /\ Tail(s.groups) \in Seq(Seq(Item)) /\ Head(s.groups) = s.groups[1]
         /\ DOMAIN s.groups = 1..Len(s.groups) /\ DOMAIN Tail(s.groups) = 1..(Len(s.groups) - 1)
         /\ Len(s.groups) \in Nat /\ Len(s.groups) >= 1
         /\ \A k \in 2..Len(s.groups) : k - 1 \in DOMAIN Tail(s.groups) /\ Tail(s.groups)[k - 1] = s.groups[k]
         /\ \A k \in DOMAIN Tail(s.groups) : Tail(s.groups)[k] # <<>>
<1>1. PICK g \in Seq(Seq(Item)) : g = s.groups
  BY DEF PartitionWorker
<1>2. g # <<>> /\ \A k \in DOMAIN g : g[k] # <<>>
  BY <1>1 DEF StageOK
<1>3. /\ Head(g) \in Seq(Item) /\ Tail(g) \in Seq(Seq(Item)) /\ Head(g) = g[1] /\ DOMAIN g = 1..Len(g)
      /\ Len(g) \in Nat /\ Len(g) >= 1 /\ Len(Tail(g)) = Len(g) - 1
  <2>1. DOMAIN g = 1..Len(g) /\ Len(g) \in Nat
    OBVIOUS
  <2>2. Len(g) # 0
    BY <1>2
  <2>3. Len(g) >= 1
    BY <2>1, <2>2
  <2>4. Head(g) = g[1] /\ Head(g) \in Seq(Item)
    BY <2>1, <2>3
  <2>5. Tail(g) \in Seq(Seq(Item)) /\ Len(Tail(g)) = Len(g) - 1
    BY <1>2
  <2> QED
    BY <2>1, <2>3, <2>4, <2>5
<1>4. DOMAIN Tail(g) = 1..(Len(g) - 1)
  BY <1>3
<1>5. \A k \in DOMAIN Tail(g) : Tail(g)[k] = g[k + 1] /\ k + 1 \in DOMAIN g
  BY <1>3, <1>4
<1>6. \A k \in 2..Len(g) : k - 1 \in DOMAIN Tail(g) /\ Tail(g)[k - 1] = g[k]
  BY <1>3, <1>4, <1>5
<1>7. Head(g) # <<>>
  <2>1. 1 \in DOMAIN g
    BY <1>3
  <2>2. g[1] # <<>>
    BY <1>2, <2>1
  <2> QED
    BY <1>3, <2>2
<1>8. \A k \in DOMAIN Tail(g) : Tail(g)[k] # <<>>
  BY <1>2, <1>5
<1> QED
  BY <1>1, <1>3, <1>4, <1>6, <1>7, <1>8

LEMMA ProviderAnswersKeeps ==
  ASSUME EmbeddingInv, NEW w \in Workers, ProviderAnswers(w)
  PROVE  EmbeddingInv'
<1>1. PICK s : s = worker[w]
  OBVIOUS
<1>2. s \in PartitionWorker /\ BatchOK(w, s) /\ StageOK(s) /\ AgreesAt(w, s)
  BY <1>1, WorkerIs
<1>3. PICK t : t = [s EXCEPT !.pc = "write", !.items = Head(s.groups), !.groups = Tail(@), !.try = 1, !.permit = NoPermit]
  OBVIOUS
<1>4. /\ s.pc = "call" /\ PostsKept /\ UNCHANGED <<offset, gen, owner, joined>> /\ Set(w, t)
      /\ SetGate(w, GateSucceeded(gate[w[1]], worker[w].permit))
  BY <1>1, <1>3 DEF ProviderAnswers, Doing, PostsKept
<1>5. s.groups # <<>> /\ s.items = <<>> /\ s.permit.held
  BY <1>2, <1>4 DEF StageOK
<1>6. /\ Head(s.groups) \in Seq(Item) /\ Head(s.groups) # <<>> /\ Tail(s.groups) \in Seq(Seq(Item))
      /\ Head(s.groups) = s.groups[1] /\ DOMAIN s.groups = 1..Len(s.groups) /\ Len(s.groups) \in Nat
      /\ \A k \in 2..Len(s.groups) : k - 1 \in DOMAIN Tail(s.groups) /\ Tail(s.groups)[k - 1] = s.groups[k]
      /\ \A k \in DOMAIN Tail(s.groups) : Tail(s.groups)[k] # <<>>
  BY <1>2, <1>5, GroupsAre
<1>7. t \in PartitionWorker
  BY <1>2, <1>3, <1>6, NothingInHand DEF PartitionWorker
<1>8. /\ t.pc = "write" /\ t.items = Head(s.groups) /\ t.groups = Tail(s.groups) /\ t.permit = NoPermit
      /\ t.next = s.next /\ t.hi = s.hi
  BY <1>2, <1>3 DEF PartitionWorker
<1>9. \A p : Awaits(s, p) => Awaits(t, p)
  <2>1. SUFFICES ASSUME NEW p, Awaits(s, p)
                 PROVE  Awaits(t, p)
    OBVIOUS
  <2>2. ~Has(s.items, p)
    BY <1>5 DEF Has
  <2>3. PICK k \in DOMAIN s.groups : Has(s.groups[k], p)
    BY <2>1, <2>2 DEF Awaits
  <2>4. CASE k = 1
    BY <1>6, <1>8, <2>3, <2>4 DEF Awaits
  <2>5. CASE k # 1
    <3>1. k \in 2..Len(s.groups)
      BY <1>6, <2>3, <2>5
    <3>2. k - 1 \in DOMAIN t.groups /\ t.groups[k - 1] = s.groups[k]
      BY <1>6, <1>8, <3>1
    <3> QED
      BY <2>3, <3>2 DEF Awaits
  <2> QED
    BY <2>4, <2>5
<1>10. BatchOK(w, t)
  BY <1>2, <1>4, <1>8, <1>9 DEF BatchOK
<1>11. StageOK(t) /\ ~t.permit.held
  BY <1>6, <1>8, NothingInHand DEF StageOK
<1>12. AgreesAt(w, t)
  BY <1>2, <1>4, <1>8 DEF AgreesAt
<1>13. worker[w].permit.held
  BY <1>1, <1>5
<1>14. After(gate[w[1]], GateSucceeded(gate[w[1]], worker[w].permit))
  BY <1>13, InFlight, GateSucceededIs
<1> QED
  BY <1>4, <1>7, <1>10, <1>11, <1>12, <1>13, <1>14, RequestOver

LEMMA HalvesAre ==
  ASSUME NEW group \in Seq(Item), Len(group) > 1
  PROVE  \E one, two \in Seq(Item) :
           /\ Halves(group) = <<one, two>> /\ one # <<>> /\ two # <<>>
           /\ \A p : Has(group, p) => Has(one, p) \/ Has(two, p)
<1>1. PICK n \in Nat : n = Len(group)
  OBVIOUS
<1>2. PICK middle : middle = n \div 2
  OBVIOUS
<1>3. middle \in Nat /\ 1 <= middle /\ middle < n
  BY <1>1, <1>2
<1>4. PICK one : one = SubSeq(group, 1, middle)
  OBVIOUS
<1>5. PICK two : two = SubSeq(group, middle + 1, n)
  OBVIOUS
<1>6. one \in Seq(Item) /\ Len(one) = middle /\ \A i \in 1..middle : one[i] = group[i]
  BY <1>1, <1>3, <1>4
<1>7. two \in Seq(Item) /\ Len(two) = n - middle /\ \A i \in 1..(n - middle) : two[i] = group[middle + i]
  BY <1>1, <1>3, <1>5
<1>8. DOMAIN one = 1..middle /\ DOMAIN two = 1..(n - middle) /\ DOMAIN group = 1..n
  BY <1>1, <1>6, <1>7
<1>9. one # <<>> /\ two # <<>>
  BY <1>3, <1>6, <1>7
<1>10. ASSUME NEW p, Has(group, p)
       PROVE  Has(one, p) \/ Has(two, p)
  <2>1. PICK i \in 1..n : group[i].post = p
    BY <1>8, <1>10 DEF Has
  <2>2. CASE i <= middle
    <3>1. i \in 1..middle
      BY <1>3, <2>2
    <3> QED
      BY <1>6, <1>8, <2>1, <3>1 DEF Has
  <2>3. CASE i > middle
    <3>1. i - middle \in 1..(n - middle) /\ middle + (i - middle) = i
      BY <1>3, <2>3
    <3>2. two[i - middle] = group[i]
      BY <1>7, <3>1
    <3> QED
      BY <1>8, <2>1, <3>1, <3>2 DEF Has
  <2> QED
    BY <1>3, <2>2, <2>3
<1>11. Halves(group) = <<one, two>>
  BY <1>1, <1>2, <1>4, <1>5 DEF Halves
<1> QED
  BY <1>6, <1>7, <1>9, <1>10, <1>11

\* Two requests for the first one.
LEMMA SplitIs ==
  ASSUME NEW S, NEW g \in Seq(S), NEW one \in S, NEW two \in S
  PROVE  /\ <<one, two>> \o g \in Seq(S) /\ <<one, two>> \o g # <<>>
         /\ DOMAIN (<<one, two>> \o g) = 1..(Len(g) + 2) /\ Len(g) \in Nat /\ DOMAIN g = 1..Len(g)
         /\ (<<one, two>> \o g)[1] = one /\ (<<one, two>> \o g)[2] = two
         /\ \A k \in 1..Len(g) : (<<one, two>> \o g)[k + 2] = g[k]
         /\ \A k \in 3..(Len(g) + 2) : (<<one, two>> \o g)[k] = g[k - 2] /\ k - 2 \in 1..Len(g)
<1>0. <<one, two>> \in Seq(S)
  OBVIOUS
<1>1. PICK pair \in Seq(S) : pair = <<one, two>>
  BY <1>0
<1>2. Len(pair) = 2 /\ pair[1] = one /\ pair[2] = two
  BY <1>1
<1>3. PICK t : t = pair \o g
  OBVIOUS
<1>4. t \in Seq(S) /\ Len(t) = 2 + Len(g) /\ Len(g) \in Nat
  <2>1. t \in Seq(S) /\ Len(t) = Len(pair) + Len(g)
    BY <1>3, ConcatProperties
  <2>2. Len(g) \in Nat
    OBVIOUS
  <2> QED
    BY <1>2, <2>1, <2>2
<1>5. DOMAIN t = 1..(Len(g) + 2) /\ DOMAIN g = 1..Len(g)
  BY <1>4
<1>6. t[1] = one /\ t[2] = two
  <2>1. \A i \in 1..2 : t[i] = pair[i]
    BY <1>2, <1>3, <1>4, ConcatProperties
  <2> QED
    BY <1>2, <2>1
<1>7. \A k \in 1..Len(g) : t[k + 2] = g[k]
  BY <1>2, <1>3, <1>4, SMTT(30)
<1>8. \A k \in 3..(Len(g) + 2) : t[k] = g[k - 2] /\ k - 2 \in 1..Len(g)
  <2>1. SUFFICES ASSUME NEW k \in 3..(Len(g) + 2)
                 PROVE  t[k] = g[k - 2] /\ k - 2 \in 1..Len(g)
    OBVIOUS
  <2>2. k - 2 \in 1..Len(g) /\ (k - 2) + 2 = k
    BY <1>4
  <2> QED
    BY <1>7, <2>2
<1>9. t # <<>>
  BY <1>4
<1> QED
  BY <1>1, <1>3, <1>4, <1>5, <1>6, <1>7, <1>8, <1>9

\* The requests that are left are tried again.
LEMMA TriesAgain ==
  ASSUME NEW w \in Workers, NEW s \in PartitionWorker, BatchOK(w, s), StageOK(s), AgreesAt(w, s), s.pc = "call",
         NEW t \in PartitionWorker, t.pc = "acquire", t.next = s.next, t.hi = s.hi, t.items = s.items, t.permit = NoPermit,
         t.groups # <<>>, \A k \in DOMAIN t.groups : t.groups[k] # <<>>, \A p : Awaits(s, p) => Awaits(t, p)
  PROVE  BatchOK(w, t) /\ StageOK(t) /\ AgreesAt(w, t) /\ ~t.permit.held
<1>1. BatchOK(w, t)
  BY DEF BatchOK
<1>2. StageOK(t) /\ ~t.permit.held
  BY NothingInHand DEF StageOK
<1>3. AgreesAt(w, t)
  BY DEF AgreesAt
<1> QED
  BY <1>1, <1>2, <1>3

LEMMA AfterFailureIs ==
  ASSUME NEW w \in Workers, NEW s \in PartitionWorker, BatchOK(w, s), StageOK(s), AgreesAt(w, s), s.pc = "call",
         NEW d \in Decisions(Len(Head(s.groups))), NEW final
  PROVE  /\ AfterFailure(s, d, final) \in PartitionWorker /\ BatchOK(w, AfterFailure(s, d, final))
         /\ StageOK(AfterFailure(s, d, final)) /\ AgreesAt(w, AfterFailure(s, d, final))
         /\ ~AfterFailure(s, d, final).permit.held
<1>1. s.groups # <<>> /\ s.items = <<>> /\ s.permit.held
  BY DEF StageOK
<1>2. PICK t : t = AfterFailure(s, d, final)
  OBVIOUS
<1>3. CASE d.action = "retry" /\ ~final /\ ~s.permit.half
  <2>1. t = [s EXCEPT !.pc = "acquire", !.try = @ + 1, !.permit = NoPermit]
    BY <1>2, <1>3 DEF AfterFailure
  <2>2. s.try + 1 \in Nat
    BY DEF PartitionWorker
  <2>3. t \in PartitionWorker
    BY <2>1, <2>2, NothingInHand DEF PartitionWorker
  <2>4. /\ t.pc = "acquire" /\ t.next = s.next /\ t.hi = s.hi /\ t.items = s.items /\ t.permit = NoPermit
        /\ t.groups = s.groups
    BY <2>1 DEF PartitionWorker
  <2>5. \A k \in DOMAIN t.groups : t.groups[k] # <<>>
    BY <2>4 DEF StageOK
  <2>6. \A p : Awaits(s, p) => Awaits(t, p)
    BY <2>4 DEF Awaits
  <2> QED
    BY <1>1, <1>2, <2>3, <2>4, <2>5, <2>6, TriesAgain
<1>4. CASE d.action = "split"
  <2>1. Len(Head(s.groups)) > 1
    BY <1>4 DEF Decisions
  <2>2. /\ Head(s.groups) \in Seq(Item) /\ Tail(s.groups) \in Seq(Seq(Item))
        /\ Head(s.groups) = s.groups[1] /\ DOMAIN s.groups = 1..Len(s.groups) /\ Len(s.groups) \in Nat
        /\ \A k \in 2..Len(s.groups) : k - 1 \in DOMAIN Tail(s.groups) /\ Tail(s.groups)[k - 1] = s.groups[k]
        /\ \A k \in DOMAIN Tail(s.groups) : Tail(s.groups)[k] # <<>>
    BY <1>1, GroupsAre
  <2>3. PICK one \in Seq(Item), two \in Seq(Item) :
          /\ Halves(Head(s.groups)) = <<one, two>> /\ one # <<>> /\ two # <<>>
          /\ \A p : Has(Head(s.groups), p) => Has(one, p) \/ Has(two, p)
    BY <2>1, <2>2, HalvesAre
  <2>4. PICK rest \in Seq(Seq(Item)) : rest = Tail(s.groups)
    BY <2>2
  <2>5. PICK groups : groups = <<one, two>> \o rest
    OBVIOUS
  <2>6. /\ groups \in Seq(Seq(Item)) /\ groups # <<>> /\ DOMAIN groups = 1..(Len(rest) + 2) /\ Len(rest) \in Nat
        /\ DOMAIN rest = 1..Len(rest) /\ groups[1] = one /\ groups[2] = two
        /\ \A k \in 1..Len(rest) : groups[k + 2] = rest[k]
        /\ \A k \in 3..(Len(rest) + 2) : groups[k] = rest[k - 2] /\ k - 2 \in 1..Len(rest)
    BY <2>5, SplitIs
  <2>7. t = [s EXCEPT !.pc = "acquire", !.try = 1, !.permit = NoPermit, !.groups = groups]
    BY <1>2, <1>4, <2>3, <2>4, <2>5 DEF AfterFailure
  <2>8. t \in PartitionWorker
    BY <2>6, <2>7, NothingInHand DEF PartitionWorker
  <2>9. /\ t.pc = "acquire" /\ t.next = s.next /\ t.hi = s.hi /\ t.items = s.items /\ t.permit = NoPermit
        /\ t.groups = groups
    BY <2>7 DEF PartitionWorker
  <2>10. \A k \in DOMAIN groups : groups[k] # <<>>
    <3>1. SUFFICES ASSUME NEW k \in 1..(Len(rest) + 2)
                   PROVE  groups[k] # <<>>
      BY <2>6
    <3>2. k = 1 \/ k = 2 \/ k \in 3..(Len(rest) + 2)
      BY <2>6
    <3>3. CASE k \in 3..(Len(rest) + 2)
      <4>1. k - 2 \in DOMAIN rest /\ groups[k] = rest[k - 2]
        BY <2>6, <3>3
      <4>2. \A j \in DOMAIN rest : rest[j] # <<>>
        BY <2>2, <2>4
      <4> QED
        BY <4>1, <4>2
    <3> QED
      BY <2>3, <2>6, <3>2, <3>3
  <2>11. ASSUME NEW p, Awaits(s, p)
         PROVE  Awaits(t, p)
    <3>1. ~Has(s.items, p)
      BY <1>1 DEF Has
    <3>2. PICK k \in DOMAIN s.groups : Has(s.groups[k], p)
      BY <2>11, <3>1 DEF Awaits
    <3>3. CASE k = 1
      <4>1. Has(groups[1], p) \/ Has(groups[2], p)
        BY <2>2, <2>3, <2>6, <3>2, <3>3
      <4>2. 1 \in DOMAIN groups /\ 2 \in DOMAIN groups
        BY <2>6
      <4> QED
        BY <2>9, <4>1, <4>2 DEF Awaits
    <3>4. CASE k # 1
      <4>1. k \in 2..Len(s.groups)
        BY <2>2, <3>2, <3>4
      <4>2. PICK j \in Nat : j = k - 1
        BY <4>1
      <4>3. j \in DOMAIN rest /\ rest[j] = s.groups[k]
        BY <2>2, <2>4, <4>1, <4>2
      <4>4. j \in 1..Len(rest)
        BY <2>6, <4>3
      <4>5. j + 2 \in 1..(Len(rest) + 2)
        BY <2>6, <4>4
      <4>6. j + 2 \in DOMAIN groups
        BY <2>6, <4>5
      <4>7. groups[j + 2] = rest[j]
        BY <2>6, <4>4
      <4> QED
        BY <2>9, <3>2, <4>3, <4>6, <4>7 DEF Awaits
    <3> QED
      BY <3>3, <3>4
  <2> QED
    <3>1. t.groups # <<>> /\ \A k \in DOMAIN t.groups : t.groups[k] # <<>>
      BY <2>6, <2>9, <2>10
    <3>2. \A p : Awaits(s, p) => Awaits(t, p)
      BY <2>11
    <3>3. BatchOK(w, t) /\ StageOK(t) /\ AgreesAt(w, t) /\ ~t.permit.held
      BY <2>8, <2>9, <3>1, <3>2, TriesAgain
    <3> QED
      BY <1>2, <2>8, <3>3
<1>5. CASE ~(d.action = "retry" /\ ~final /\ ~s.permit.half) /\ d.action # "split"
  <2>1. t = Held(s)
    BY <1>2, <1>5 DEF AfterFailure
  <2> QED
    BY <1>2, <2>1, HeldIs
<1> QED
  BY <1>3, <1>4, <1>5

LEMMA ProviderFailsKeeps ==
  ASSUME EmbeddingInv, NEW w \in Workers, ProviderFails(w)
  PROVE  EmbeddingInv'
<1>1. PICK s : s = worker[w]
  OBVIOUS
<1>2. s \in PartitionWorker /\ BatchOK(w, s) /\ StageOK(s) /\ AgreesAt(w, s)
  BY <1>1, WorkerIs
<1>3. s.pc = "call" /\ PostsKept /\ UNCHANGED <<offset, gen, owner, joined>>
  BY <1>1 DEF ProviderFails, Doing, PostsKept
<1>4. PICK d \in Decisions(Len(Head(s.groups))), final \in {s.try >= MaxAttempts, TRUE} :
        /\ SetGate(w, GateFailed(gate[w[1]], worker[w].permit, d.shared, d.action # "retry" \/ final))
        /\ Set(w, AfterFailure(s, d, final))
  BY <1>1 DEF ProviderFails
<1>5. PICK t : t = AfterFailure(s, d, final)
  OBVIOUS
<1>6. t \in PartitionWorker /\ BatchOK(w, t) /\ StageOK(t) /\ AgreesAt(w, t) /\ ~t.permit.held
  BY <1>2, <1>3, <1>5, AfterFailureIs
<1>7. worker[w].permit.held
  BY <1>1, <1>2, <1>3 DEF StageOK
<1>8. After(gate[w[1]], GateFailed(gate[w[1]], worker[w].permit, d.shared, d.action # "retry" \/ final))
  BY <1>7, InFlight, GateFailedIs
<1>9. Set(w, t)
  BY <1>4, <1>5
<1> QED
  BY <1>3, <1>4, <1>6, <1>7, <1>8, <1>9, RequestOver

\* An ascending order of a finite set of places names every place.
LEMMA OrderIsComplete ==
  ASSUME NEW places, IsFiniteSet(places), places \subseteq Nat,
         NEW order \in [1..Cardinality(places) -> places], Ascending(order)
  PROVE  \A i \in places : \E k \in 1..Cardinality(places) : order[k] = i
<1>1. PICK n \in Nat : n = Cardinality(places)
  BY FS_CardinalityType
<1>2. order \in [1..n -> places] /\ DOMAIN order = 1..n
  BY <1>1
<1>3. \A i, j \in 1..n : i # j => order[i] # order[j]
  <2>1. SUFFICES ASSUME NEW i \in 1..n, NEW j \in 1..n, i # j
                 PROVE  order[i] # order[j]
    OBVIOUS
  <2>2. order[i] \in Nat /\ order[j] \in Nat
    BY <1>2
  <2>3. i < j \/ j < i
    BY <2>1
  <2>4. i < j => order[i] < order[j]
    BY <1>2 DEF Ascending
  <2>5. j < i => order[j] < order[i]
    BY <1>2 DEF Ascending
  <2> QED
    BY <2>2, <2>3, <2>4, <2>5
<1>4. order \in Injection(1..n, places)
  BY <1>2, <1>3 DEF Injection, IsInjective
<1>5. Cardinality(1..n) = n
  BY <1>1, FS_Interval
<1>6. order \in Surjection(1..n, places)
  BY <1>1, <1>4, <1>5, FS_Injection
<1> QED
  BY <1>1, <1>6 DEF Surjection

\* What is in hand after loading.
LEMMA WorkItemsAre ==
  ASSUME EmbeddingShape, NEW messages \in Seq(RequestMessage), NEW places, IsFiniteSet(places), places \subseteq DOMAIN messages,
         \A i \in places : Needs(messages[i]), NEW items \in WorkItems(messages, places)
  PROVE  items \in Seq(Item) /\ \A i \in places : Has(items, messages[i].post)
<1>1. PICK n \in Nat : n = Cardinality(places)
  BY FS_CardinalityType
<1>2. PICK order \in [1..n -> places] :
        /\ Ascending(order)
        /\ items = [i \in DOMAIN order |-> [post |-> messages[order[i]].post, hash |-> content[messages[order[i]].post]]]
  BY <1>1 DEF WorkItems
<1>3. DOMAIN order = 1..n
  BY <1>2
<1>4. \A i \in places : messages[i].post \in Posts /\ content[messages[i].post] \in Nat
  <2>1. SUFFICES ASSUME NEW i \in places
                 PROVE  messages[i].post \in Posts /\ content[messages[i].post] \in Nat
    OBVIOUS
  <2>2. messages[i] \in RequestMessage
    OBVIOUS
  <2>3. messages[i].post # Bad /\ content[messages[i].post] # Gone
    BY DEF Needs
  <2>4. messages[i].post \in Posts
    BY <2>2, <2>3 DEF RequestMessage
  <2> QED
    BY <2>3, <2>4 DEF EmbeddingShape
<1>5. \A k \in 1..n : items[k] = [post |-> messages[order[k]].post, hash |-> content[messages[order[k]].post]]
  BY <1>2, <1>3
<1>6. \A k \in 1..n : items[k] \in Item /\ items[k].post = messages[order[k]].post
  <2>1. SUFFICES ASSUME NEW k \in 1..n
                 PROVE  items[k] \in Item /\ items[k].post = messages[order[k]].post
    OBVIOUS
  <2>2. PICK i \in places : i = order[k]
    BY <1>2
  <2>3. PICK p \in Posts : p = messages[i].post
    BY <1>4
  <2>4. PICK h \in Nat : h = content[p]
    BY <1>4, <2>3
  <2>5. items[k] = [post |-> messages[order[k]].post, hash |-> content[messages[order[k]].post]]
    BY <1>5
  <2>6. items[k] = [post |-> p, hash |-> h]
    BY <2>2, <2>3, <2>4, <2>5
  <2> QED
    BY <2>2, <2>3, <2>6 DEF Item
<1>7. DOMAIN items = 1..n /\ items = [k \in 1..n |-> items[k]]
  BY <1>2, <1>3
<1>8. items \in [1..n -> Item]
  BY <1>6, <1>7
<1>9. items \in Seq(Item)
  BY <1>8
<1>10. ASSUME NEW i \in places
       PROVE  Has(items, messages[i].post)
  <2>1. places \subseteq Nat
    OBVIOUS
  <2>2. order \in [1..Cardinality(places) -> places]
    BY <1>1, <1>2
  <2>3. PICK k \in 1..n : order[k] = i
    <3>1. Ascending(order)
      BY <1>2
    <3>2. \A j \in places : \E k \in 1..Cardinality(places) : order[k] = j
      BY <2>1, <2>2, <3>1, OrderIsComplete
    <3> QED
      BY <1>1, <3>2
  <2>4. items[k].post = messages[i].post
    BY <1>6, <2>3
  <2> QED
    BY <1>7, <2>4 DEF Has
<1> QED
  BY <1>9, <1>10

LEMMA LogIs ==
  ASSUME EmbeddingShape, NEW q \in Partitions
  PROVE  log[q] \in Seq(RequestMessage) /\ Len(log[q]) \in Nat /\ DOMAIN log[q] = 1..Len(log[q])
<1>1. log[q] \in Seq(RequestMessage)
  BY DEF EmbeddingShape
<1> QED
  BY <1>1

Batch(s) == (s.next + 1)..s.hi

LEMMA LoadKeeps ==
  ASSUME EmbeddingInv, NEW w \in Workers, Load(w)
  PROVE  EmbeddingInv'
<1>1. PICK s : s = worker[w]
  OBVIOUS
<1>2. s \in PartitionWorker /\ BatchOK(w, s) /\ StageOK(s) /\ AgreesAt(w, s) /\ w[2] \in Partitions
  BY <1>1, WorkerIs
<1>3. PICK q \in Partitions : q = w[2]
  BY <1>2
<1>4. PICK messages \in Seq(RequestMessage) : messages = log[q] /\ Len(messages) \in Nat /\ DOMAIN messages = 1..Len(messages)
  BY LogIs DEF EmbeddingInv
<1>5. s.pc = "load" /\ UNCHANGED <<content, embedding, log, offset, gen, owner, joined, gate>>
  BY <1>1 DEF Load, Doing
<1>6. s.next \in Nat /\ s.hi \in Nat /\ s.next <= s.hi /\ s.hi <= Len(messages) /\ HandledTo(q, s.next)
  BY <1>2, <1>3, <1>4, <1>5 DEF PartitionWorker, BatchOK
<1>7. Batch(s) \subseteq 1..Len(messages) /\ Batch(s) \subseteq Nat /\ IsFiniteSet(Batch(s))
  <2>1. Batch(s) \subseteq 1..Len(messages) /\ Batch(s) \subseteq Nat
    BY <1>4, <1>6, SMTT(30) DEF Batch
  <2>2. s.next + 1 \in Int /\ s.hi \in Int
    BY <1>6
  <2>3. IsFiniteSet(Batch(s))
    BY <2>2, FS_Interval DEF Batch
  <2> QED
    BY <2>1, <2>3
<1>8. PICK bad : bad = {i \in Batch(s) : messages[i].post = Bad}
  OBVIOUS
<1>9. PICK places : places = {i \in Batch(s) : Needs(messages[i])}
  OBVIOUS
<1>10. dlq' = [dlq EXCEPT ![q] = @ \cup bad]
  BY <1>1, <1>3, <1>4, <1>8 DEF Load, Batch
<1>11. PICK items \in WorkItems(messages, places) :
         Set(w, IF items = <<>> THEN [s EXCEPT !.pc = "commit"] ELSE [s EXCEPT !.pc = "acquire", !.groups = <<items>>])
  BY <1>1, <1>3, <1>4, <1>9 DEF Load, Batch
<1>12. IsFiniteSet(places) /\ places \subseteq DOMAIN messages /\ \A i \in places : Needs(messages[i])
  BY <1>4, <1>7, <1>9, FS_Subset
<1>13. items \in Seq(Item) /\ \A i \in places : Has(items, messages[i].post)
  BY <1>12, WorkItemsAre DEF EmbeddingInv
<1>14. s.items = <<>> /\ ~s.permit.held
  BY <1>2, <1>5 DEF StageOK
<1>15. PICK t : t = IF items = <<>> THEN [s EXCEPT !.pc = "commit"] ELSE [s EXCEPT !.pc = "acquire", !.groups = <<items>>]
  OBVIOUS
<1>16. <<items>> \in Seq(Seq(Item)) /\ \A k \in DOMAIN <<items>> : k = 1
  BY <1>13
<1>17. /\ t \in PartitionWorker /\ t.next = s.next /\ t.hi = s.hi /\ t.items = s.items /\ t.permit = s.permit
       /\ (items = <<>> => t.pc = "commit" /\ t.groups = s.groups)
       /\ (items # <<>> => t.pc = "acquire" /\ t.groups = <<items>>)
  <2>1. CASE items = <<>>
    <3>1. t = [s EXCEPT !.pc = "commit"]
      BY <1>15, <2>1
    <3> QED
      BY <1>2, <2>1, <3>1, NothingInHand DEF PartitionWorker
  <2>2. CASE items # <<>>
    <3>1. t = [s EXCEPT !.pc = "acquire", !.groups = <<items>>]
      BY <1>15, <2>2
    <3> QED
      BY <1>2, <1>16, <2>2, <3>1, NothingInHand DEF PartitionWorker
  <2> QED
    BY <2>1, <2>2
<1>18. Set(w, t)
  BY <1>11, <1>15
<1>19. worker' \in [Workers -> PartitionWorker] /\ worker'[w] = t /\ \A v \in Workers : v # w => worker'[v] = worker[v]
  BY <1>17, <1>18, SetIs DEF EmbeddingInv
<1>20. dlq \in [Partitions -> SUBSET Nat]
  BY DEF EmbeddingInv, EmbeddingShape
<1>21. bad \subseteq 1..Len(messages) /\ bad \subseteq Nat
  BY <1>7, <1>8
<1>22. dlq' \in [Partitions -> SUBSET Nat] /\ dlq'[q] = dlq[q] \cup bad /\ \A r \in Partitions : r # q => dlq'[r] = dlq[r]
  BY <1>10, <1>20, <1>21
<1>23. EmbeddingShape'
  BY <1>5, <1>19, <1>22 DEF EmbeddingInv, EmbeddingShape
<1>24. LogShape'
  BY <1>4, <1>5, <1>21, <1>22 DEF EmbeddingInv, LogShape
<1>25. \A r \in Partitions, i \in Nat : Handled(r, i) => Handled(r, i)'
  BY <1>5, <1>22 DEF Handled
<1>26. LogKeeps
  <2>1. \A r \in Partitions : Len(log[r]) \in Nat
    BY LogIs DEF EmbeddingInv
  <2> QED
    BY <1>5, <1>25, <2>1 DEF LogKeeps
<1>27. LogInv'
  <2>1. \A r \in Partitions : offset[r] \in Nat
    BY DEF EmbeddingInv, EmbeddingShape
  <2>2. \A r \in Partitions : HandledTo(r, offset[r])'
    BY <1>5, <1>25, <2>1 DEF EmbeddingInv, LogInv, HandledTo
  <2>3. \A r \in Partitions : \A i \in dlq'[r] : log[r][i].post = Bad
    BY <1>4, <1>8, <1>22 DEF EmbeddingInv, LogInv
  <2> QED
    BY <1>5, <2>2, <2>3 DEF EmbeddingInv, LogInv
<1>28. AgreesAt(w, t)
  BY <1>2, <1>5, <1>17 DEF AgreesAt
<1>29. OffsetsAgree'
  BY <1>5, <1>19, <1>28 DEF EmbeddingInv, OffsetsAgree, AgreesAt
<1>30. \A i \in Batch(s) : Handled(q, i)' \/ i \in places
  <2>1. SUFFICES ASSUME NEW i \in Batch(s), i \notin places
                 PROVE  Handled(q, i)'
    OBVIOUS
  <2>2. CASE messages[i].post = Bad
    <3>1. i \in dlq'[q]
      BY <1>8, <1>22, <2>2
    <3> QED
      BY <1>4, <1>5, <2>2, <3>1 DEF Handled
  <2>3. CASE messages[i].post # Bad
    <3>1. PICK p \in Posts : p = messages[i].post
      <4>1. messages[i] \in RequestMessage
        BY <1>4, <1>7
      <4> QED
        BY <2>3, <4>1 DEF RequestMessage
    <3>2. messages[i].at \in Nat
      <4>1. messages[i] \in RequestMessage
        BY <1>4, <1>7
      <4> QED
        BY <4>1 DEF RequestMessage
    <3>3. content[p] = Gone \/ embedding[p] = content[p]
      BY <1>9, <2>1, <2>3, <3>1 DEF Needs
    <3>4. content[p] = messages[i].at => embedding[p] = messages[i].at
      BY <3>2, <3>3 DEF Gone
    <3> QED
      BY <1>4, <1>5, <2>3, <3>1, <3>4 DEF Handled
  <2> QED
    BY <2>2, <2>3
<1>31. HandledTo(q, s.next)'
  BY <1>6, <1>25 DEF HandledTo
<1>32. BatchOK(w, t)'
  <2>1. t.next <= Len(log'[q]) /\ t.hi <= Len(log'[q]) /\ t.next <= t.hi /\ HandledTo(q, t.next)'
    BY <1>4, <1>5, <1>6, <1>17, <1>31
  <2>2. CASE items = <<>>
    <3>1. places = {}
      BY <1>13, <2>2 DEF Has
    <3>2. \A i \in 1..s.hi : i \in 1..s.next \/ i \in Batch(s)
      BY <1>6 DEF Batch
    <3>3. HandledTo(q, s.hi)'
      BY <1>30, <1>31, <3>1, <3>2 DEF HandledTo
    <3> QED
      BY <1>3, <1>17, <2>1, <2>2, <3>3 DEF BatchOK
  <2>3. CASE items # <<>>
    <3>1. t.groups[1] = items /\ 1 \in DOMAIN t.groups
      BY <1>17, <2>3
    <3>2. \A i \in places : Awaits(t, messages[i].post)
      BY <1>13, <3>1 DEF Awaits
    <3>3. \A i \in (t.next + 1)..t.hi : Handled(q, i)' \/ Awaits(t, log'[q][i].post)
      BY <1>4, <1>5, <1>17, <1>30, <3>2 DEF Batch
    <3>4. \A i \in (t.next + 1)..t.hi : Handled(q, i)' \/ Awaits(t, log[q][i].post)'
      BY <3>3 DEF Awaits, Has
    <3> QED
      BY <1>3, <1>17, <2>1, <2>3, <3>4 DEF BatchOK
  <2> QED
    BY <2>2, <2>3
<1>33. StageOK(t) /\ ~t.permit.held
  <2>1. CASE items = <<>>
    BY <1>2, <1>5, <1>14, <1>17, <2>1 DEF StageOK
  <2>2. CASE items # <<>>
    <3>1. t.groups # <<>> /\ \A k \in DOMAIN t.groups : t.groups[k] # <<>>
      <4>1. t.groups = <<items>> /\ <<items>>[1] = items /\ <<items>> # <<>>
        BY <1>17, <2>2
      <4> QED
        BY <1>16, <2>2, <4>1
    <3> QED
      BY <1>14, <1>17, <2>2, <3>1 DEF StageOK
  <2> QED
    BY <2>1, <2>2
<1>34. WorkersInv'
  <2>1. BatchOK(w, worker[w])'
    BY <1>19, <1>32 DEF BatchOK
  <2> QED
    BY <1>19, <1>23, <1>26, <1>33, <2>1, OthersKept DEF EmbeddingInv
<1>35. GatesInv'
  BY <1>1, <1>5, <1>14, <1>17, <1>18, <1>33, QuietGate
<1> QED
  BY <1>23, <1>24, <1>27, <1>29, <1>34, <1>35 DEF EmbeddingInv

\* An item less.
LEMMA ItemsAre ==
  ASSUME NEW s \in PartitionWorker, s.items # <<>>
  PROVE  /\ s.items \in Seq(Item) /\ Head(s.items) \in Item /\ Head(s.items) = s.items[1] /\ Len(s.items) \in Nat
         /\ Len(s.items) >= 1 /\ Tail(s.items) \in Seq(Item)
         /\ (Tail(s.items) = <<>> <=> ~(Len(s.items) > 1))
         /\ \A p : Has(s.items, p) => Head(s.items).post = p \/ Has(Tail(s.items), p)
<1>1. PICK g \in Seq(Item) : g = s.items
  BY DEF PartitionWorker
<1>2. DOMAIN g = 1..Len(g) /\ Len(g) \in Nat /\ g # <<>>
  BY <1>1
<1>3. Len(g) >= 1
  <2>1. Len(g) # 0
    BY <1>2
  <2> QED
    BY <1>2, <2>1
<1>4. Head(g) = g[1] /\ Head(g) \in Item
  BY <1>2, <1>3
<1>5. Tail(g) \in Seq(Item) /\ Len(Tail(g)) = Len(g) - 1
  BY <1>2
<1>6. PICK n \in Nat : n = Len(g)
  BY <1>2
<1>7. PICK r \in Seq(Item) : r = Tail(g)
  BY <1>5
<1>8. DOMAIN r = 1..(n - 1) /\ Len(r) = n - 1
  BY <1>5, <1>6, <1>7
<1>9. \A k \in 1..(n - 1) : r[k] = g[k + 1]
  BY <1>6, <1>7, <1>8
<1>10. r = <<>> <=> ~(n > 1)
  <2>1. r = <<>> <=> Len(r) = 0
    OBVIOUS
  <2> QED
    BY <1>3, <1>6, <1>8, <2>1
<1>11. ASSUME NEW p, Has(g, p)
       PROVE  Head(g).post = p \/ Has(r, p)
  <2>1. PICK k \in 1..n : g[k].post = p
    BY <1>2, <1>6, <1>11 DEF Has
  <2>2. CASE k = 1
    BY <1>4, <2>1, <2>2
  <2>3. CASE k # 1
    <3>1. PICK j \in 1..(n - 1) : k = j + 1
      <4>1. k - 1 \in 1..(n - 1) /\ k = (k - 1) + 1
        BY <2>3
      <4> QED
        BY <4>1
    <3>2. r[j].post = p
      BY <1>9, <2>1, <3>1
    <3> QED
      BY <1>8, <3>2 DEF Has
  <2> QED
    BY <2>2, <2>3
<1> QED
  BY <1>1, <1>2, <1>3, <1>4, <1>5, <1>6, <1>7, <1>10, <1>11

\* What a worker does after an item.
Done(s) == [s EXCEPT !.pc = IF Len(s.items) > 1 THEN "write" ELSE IF s.groups # <<>> THEN "acquire" ELSE "commit",
                     !.items = Tail(@)]

LEMMA DoneIs ==
  ASSUME NEW s \in PartitionWorker, StageOK(s), s.pc = "write"
  PROVE  /\ Done(s) \in PartitionWorker /\ StageOK(Done(s)) /\ ~Done(s).permit.held
         /\ Done(s).next = s.next /\ Done(s).hi = s.hi /\ Done(s).pc \in {"write", "acquire", "commit"}
         /\ Done(s).pc = "commit" => \A p : ~Awaits(Done(s), p)
         /\ \A p : Awaits(s, p) => Head(s.items).post = p \/ Awaits(Done(s), p)
<1>1. s.items # <<>> /\ ~s.permit.held
  BY DEF StageOK
<1>2. /\ Tail(s.items) \in Seq(Item) /\ (Tail(s.items) = <<>> <=> ~(Len(s.items) > 1))
      /\ \A p : Has(s.items, p) => Head(s.items).post = p \/ Has(Tail(s.items), p)
  BY <1>1, ItemsAre
<1>3. PICK pc \in States : pc = IF Len(s.items) > 1 THEN "write" ELSE IF s.groups # <<>> THEN "acquire" ELSE "commit"
  BY NothingInHand
<1>4. Done(s) = [s EXCEPT !.pc = pc, !.items = Tail(s.items)]
  BY <1>3 DEF Done
<1>5. PICK t : t = Done(s)
  OBVIOUS
<1>6. t \in PartitionWorker
  BY <1>2, <1>4, <1>5 DEF PartitionWorker
<1>7. t.pc = pc /\ t.items = Tail(s.items) /\ t.groups = s.groups /\ t.permit = s.permit /\ t.next = s.next /\ t.hi = s.hi
  BY <1>4, <1>5 DEF PartitionWorker
<1>8. pc \in {"write", "acquire", "commit"} /\ (pc = "write" <=> t.items # <<>>) /\ (pc = "acquire" => t.groups # <<>>)
      /\ (pc = "commit" => t.items = <<>> /\ t.groups = <<>>)
  BY <1>2, <1>3, <1>7
<1>9. StageOK(t) /\ ~t.permit.held
  BY <1>1, <1>7, <1>8 DEF StageOK
<1>10. t.pc = "commit" => \A p : ~Awaits(t, p)
  BY <1>7, <1>8 DEF Awaits, Has
<1>11. \A p : Awaits(s, p) => Head(s.items).post = p \/ Awaits(t, p)
  BY <1>2, <1>7 DEF Awaits
<1> QED
  BY <1>5, <1>6, <1>7, <1>8, <1>9, <1>10, <1>11

\* The embedding of the Post of an item is made from its content, or the Post is gone.
Written(item) ==
  \/ content[item.post] = item.hash /\ embedding' = [embedding EXCEPT ![item.post] = item.hash]
  \/ content[item.post] = Gone /\ embedding' = embedding

LEMMA WrittenKeeps ==
  ASSUME EmbeddingInv, NEW w \in Workers, worker[w].pc = "write", Set(w, Done(worker[w])), Written(Head(worker[w].items)),
         UNCHANGED <<content, log, dlq, offset, gen, owner, joined, gate>>
  PROVE  EmbeddingInv'
<1>1. PICK s : s = worker[w]
  OBVIOUS
<1>2. s \in PartitionWorker /\ BatchOK(w, s) /\ StageOK(s) /\ AgreesAt(w, s) /\ w[2] \in Partitions /\ s.pc = "write"
  BY <1>1, WorkerIs
<1>3. PICK t : t = Done(s)
  OBVIOUS
<1>4. /\ t \in PartitionWorker /\ StageOK(t) /\ ~t.permit.held
      /\ t.next = s.next /\ t.hi = s.hi /\ t.pc \in {"write", "acquire", "commit"}
      /\ t.pc = "commit" => \A p : ~Awaits(t, p)
      /\ \A p : Awaits(s, p) => Head(s.items).post = p \/ Awaits(t, p)
  BY <1>2, <1>3, DoneIs
<1>5. Set(w, t)
  BY <1>1, <1>3
<1>6. worker' \in [Workers -> PartitionWorker] /\ worker'[w] = t /\ \A v \in Workers : v # w => worker'[v] = worker[v]
  BY <1>4, <1>5, SetIs DEF EmbeddingInv
<1>7. PICK p \in Posts, h \in Nat : p = Head(s.items).post /\ h = Head(s.items).hash
  <2>1. s.items # <<>>
    BY <1>2 DEF StageOK
  <2>2. Head(s.items) \in Item
    BY <1>2, <2>1, ItemsAre
  <2> QED
    BY <2>2 DEF Item
<1>8. \/ content[p] = h /\ embedding' = [embedding EXCEPT ![p] = h]
      \/ content[p] = Gone /\ embedding' = embedding
  BY <1>1, <1>7 DEF Written
<1>9. content \in [Posts -> Nat \cup {Gone}] /\ embedding \in [Posts -> Nat]
  BY DEF EmbeddingInv, EmbeddingShape
<1>10. embedding' \in [Posts -> Nat] /\ (\A o \in Posts : embedding'[o] = embedding[o] \/ embedding'[o] = content[o])
       /\ (content[p] # Gone => embedding'[p] = content[p])
  BY <1>8, <1>9
<1>11. EmbeddingShape'
  BY <1>6, <1>10 DEF EmbeddingInv, EmbeddingShape
<1>12. LogShape'
  BY DEF EmbeddingInv, LogShape
<1>13. ASSUME NEW q \in Partitions, NEW i \in 1..Len(log[q]), Handled(q, i) \/ log[q][i].post = p
       PROVE  Handled(q, i)'
  <2>1. log[q][i] \in RequestMessage
    BY MessagesAre DEF EmbeddingInv
  <2>2. CASE log[q][i].post = Bad
    BY <1>13, <2>2 DEF Handled
  <2>3. CASE log[q][i].post # Bad
    <3>1. PICK o \in Posts : o = log[q][i].post
      BY <2>1, <2>3 DEF RequestMessage
    <3>2. PICK v \in Nat : v = log[q][i].at
      BY <2>1 DEF RequestMessage
    <3>3. o = p \/ (content[o] = v => embedding[o] = v)
      BY <1>13, <2>3, <3>1, <3>2 DEF Handled
    <3>4. content[o] = v => embedding'[o] = v
      BY <1>10, <3>2, <3>3 DEF Gone
    <3> QED
      BY <2>3, <3>1, <3>2, <3>4 DEF Handled
  <2> QED
    BY <2>2, <2>3
<1>14. LogKeeps
  <2>1. \A q \in Partitions : Len(log[q]) \in Nat
    BY LogIs DEF EmbeddingInv
  <2> QED
    BY <1>13, <2>1 DEF LogKeeps
<1>15. LogInv'
  <2>1. \A q \in Partitions : HandledTo(q, offset[q])'
    <3>1. SUFFICES ASSUME NEW q \in Partitions, NEW i \in 1..offset[q]
                   PROVE  Handled(q, i)'
      BY DEF HandledTo
    <3>2. offset[q] \in Nat /\ offset[q] <= Len(log[q]) /\ Len(log[q]) \in Nat
      BY LogIs DEF EmbeddingInv, LogShape, EmbeddingShape
    <3>3. i \in 1..Len(log[q]) /\ Handled(q, i)
      BY <3>2 DEF EmbeddingInv, LogInv, HandledTo
    <3> QED
      BY <1>13, <3>3
  <2>2. \A o \in Posts : content[o] # Gone => embedding'[o] \in {0, content[o]}
    BY <1>10 DEF EmbeddingInv, LogInv
  <2> QED
    BY <2>1, <2>2 DEF EmbeddingInv, LogInv
<1>16. AgreesAt(w, t)
  BY <1>2, <1>4 DEF AgreesAt
<1>17. OffsetsAgree'
  BY <1>6, <1>16 DEF EmbeddingInv, OffsetsAgree, AgreesAt
<1>18. PICK q \in Partitions : q = w[2]
  BY <1>2
<1>19. /\ s.next \in Nat /\ s.hi \in Nat /\ s.next <= s.hi /\ s.hi <= Len(log[q]) /\ HandledTo(q, s.next)
       /\ s.next <= Len(log[q]) /\ Len(log[q]) \in Nat
       /\ \A i \in (s.next + 1)..s.hi : Handled(q, i) \/ Awaits(s, log[q][i].post)
  BY <1>2, <1>18, LogIs DEF PartitionWorker, BatchOK, EmbeddingInv
<1>20. HandledTo(q, s.next)'
  <2>1. \A i \in 1..s.next : i \in 1..Len(log[q]) /\ Handled(q, i)
    BY <1>19 DEF HandledTo
  <2>2. \A i \in 1..s.next : Handled(q, i)'
    BY <1>13, <2>1
  <2> QED
    BY <2>2 DEF HandledTo
<1>21. ASSUME NEW i \in (s.next + 1)..s.hi
       PROVE  Handled(q, i)' \/ Awaits(t, log[q][i].post)
  <2>1. i \in 1..Len(log[q])
    BY <1>19
  <2>2. Handled(q, i) \/ log[q][i].post = p \/ Awaits(t, log[q][i].post)
    BY <1>4, <1>7, <1>19
  <2> QED
    BY <1>13, <2>1, <2>2
<1>22. t.pc = "commit" => HandledTo(q, t.hi)'
  <2>1. SUFFICES ASSUME t.pc = "commit", NEW i \in 1..s.hi
                 PROVE  Handled(q, i)'
    BY <1>4 DEF HandledTo
  <2>2. i \in 1..s.next \/ i \in (s.next + 1)..s.hi
    BY <1>19
  <2>3. ~Awaits(t, log[q][i].post)
    BY <1>4, <2>1
  <2>4. i \in 1..s.next => Handled(q, i)'
    BY <1>20 DEF HandledTo
  <2> QED
    BY <1>21, <2>2, <2>3, <2>4
<1>23. BatchOK(w, t)'
  <2>1. log' = log
    OBVIOUS
  <2>2. \A i \in (t.next + 1)..t.hi : Handled(q, i)' \/ Awaits(t, log[q][i].post)'
    BY <1>4, <1>21 DEF Awaits, Has
  <2> QED
    BY <1>4, <1>18, <1>19, <1>20, <1>22, <2>1, <2>2 DEF BatchOK
<1>24. WorkersInv'
  <2>1. BatchOK(w, worker[w])'
    BY <1>6, <1>23 DEF BatchOK
  <2> QED
    BY <1>4, <1>6, <1>11, <1>14, <2>1, OthersKept DEF EmbeddingInv
<1>25. ~worker[w].permit.held
  BY <1>1, <1>2 DEF StageOK
<1>26. GatesInv'
  BY <1>4, <1>5, <1>25, QuietGate
<1> QED
  BY <1>11, <1>12, <1>15, <1>17, <1>24, <1>26 DEF EmbeddingInv

LEMMA WriteKeeps ==
  ASSUME EmbeddingInv, NEW w \in Workers, Write(w)
  PROVE  EmbeddingInv'
<1>1. PICK s : s = worker[w]
  OBVIOUS
<1>2. s.pc = "write" /\ UNCHANGED <<content, log, dlq, offset, gen, owner, joined, gate>>
  BY <1>1 DEF Write, Doing
<1>3. \/ Set(w, Done(s)) /\ Written(Head(s.items))
      \/ Set(w, Held(s)) /\ embedding' = embedding
  BY <1>1 DEF Write, Done, Written
<1>4. CASE Set(w, Done(s)) /\ Written(Head(s.items))
  BY <1>1, <1>2, <1>4, WrittenKeeps
<1>5. CASE Set(w, Held(s)) /\ embedding' = embedding
  <2>1. s \in PartitionWorker /\ BatchOK(w, s) /\ StageOK(s) /\ AgreesAt(w, s)
    BY <1>1, WorkerIs
  <2>2. PostsKept /\ UNCHANGED <<offset, gen, owner, joined, gate>>
    BY <1>2, <1>5 DEF PostsKept
  <2>3. /\ Held(s) \in PartitionWorker /\ BatchOK(w, Held(s)) /\ StageOK(Held(s)) /\ AgreesAt(w, Held(s))
        /\ ~Held(s).permit.held
    BY <1>2, <2>1, HeldIs
  <2>4. ~worker[w].permit.held
    BY <1>1, <1>2, <2>1 DEF StageOK
  <2>5. GatesInv' /\ gate' \in [Members -> ProviderGate]
    BY <1>5, <2>2, <2>3, <2>4, QuietGate
  <2> QED
    BY <1>5, <2>2, <2>3, <2>5, WorkerKeeps
<1> QED
  BY <1>3, <1>4, <1>5

LEMMA CommitKeeps ==
  ASSUME EmbeddingInv, NEW w \in Workers, Commit(w)
  PROVE  EmbeddingInv'
<1>1. PICK s : s = worker[w]
  OBVIOUS
<1>2. /\ s \in PartitionWorker /\ BatchOK(w, s) /\ StageOK(s) /\ AgreesAt(w, s) /\ w[1] \in Members /\ w[2] \in Partitions
      /\ s.next \in Nat /\ s.hi \in Nat
  BY <1>1, WorkerIs DEF PartitionWorker
<1>3. s.pc = "commit" /\ joined[w[1]] = gen /\ UNCHANGED <<content, embedding, log, dlq, gen, owner, joined, gate>>
  BY <1>1 DEF Commit, Doing, Accepted
<1>4. PICK q \in Partitions : q = w[2]
  BY <1>2
<1>5. offset' = [offset EXCEPT ![q] = s.hi]
  BY <1>1, <1>4 DEF Commit
<1>6. PICK t \in {[s EXCEPT !.pc = "fetch", !.next = s.hi, !.pending = FALSE], [s EXCEPT !.pending = TRUE]} : Set(w, t)
  BY <1>1 DEF Commit
<1>7. /\ t \in PartitionWorker /\ t.hi = s.hi /\ t.items = s.items /\ t.groups = s.groups /\ t.permit = s.permit
      /\ \/ t.pc = "fetch" /\ t.next = s.hi
         \/ t.pc = "commit" /\ t.next = s.next /\ t.pending
  <2>1. CASE t = [s EXCEPT !.pc = "fetch", !.next = s.hi, !.pending = FALSE]
    BY <1>2, <2>1, NothingInHand DEF PartitionWorker
  <2>2. CASE t = [s EXCEPT !.pending = TRUE]
    BY <1>2, <1>3, <2>2 DEF PartitionWorker
  <2> QED
    BY <1>6, <2>1, <2>2
<1>8. worker' \in [Workers -> PartitionWorker] /\ worker'[w] = t /\ \A v \in Workers : v # w => worker'[v] = worker[v]
  BY <1>6, <1>7, SetIs DEF EmbeddingInv
<1>9. offset \in [Partitions -> Nat]
  BY DEF EmbeddingInv, EmbeddingShape
<1>10. offset' \in [Partitions -> Nat] /\ offset'[q] = s.hi /\ \A r \in Partitions : r # q => offset'[r] = offset[r]
  BY <1>2, <1>5, <1>9
<1>11. EmbeddingShape'
  BY <1>3, <1>8, <1>10 DEF EmbeddingInv, EmbeddingShape
<1>12. s.next <= s.hi /\ s.hi <= Len(log[q]) /\ HandledTo(q, s.hi) /\ s.next <= Len(log[q]) /\ HandledTo(q, s.next)
  BY <1>2, <1>3, <1>4 DEF BatchOK
<1>13. LogShape'
  BY <1>3, <1>10, <1>12 DEF EmbeddingInv, LogShape
<1>14. LogKeeps
  <2>1. \A r \in Partitions : Len(log[r]) \in Nat
    BY LogIs DEF EmbeddingInv
  <2> QED
    BY <1>3, <2>1 DEF LogKeeps, Handled
<1>15. LogInv'
  <2>1. ASSUME NEW r \in Partitions
        PROVE  HandledTo(r, offset[r])'
    <3>1. HandledTo(r, offset'[r])
      BY <1>10, <1>12 DEF EmbeddingInv, LogInv
    <3> QED
      BY <1>3, <3>1 DEF HandledTo, Handled
  <2> QED
    BY <1>3, <2>1 DEF EmbeddingInv, LogInv
<1>16. OffsetsAgree'
  <2>1. ASSUME NEW v \in Workers, worker'[v].pc # "idle", joined[v[1]] = gen
        PROVE  /\ owner[v[2]] = v[1]
               /\ \/ offset'[v[2]] = worker'[v].next
                  \/ worker'[v].pending /\ worker'[v].pc = "commit" /\ offset'[v[2]] = worker'[v].hi
    <3>1. owner[q] = w[1]
      BY <1>2, <1>3, <1>4 DEF AgreesAt
    <3>2. CASE v = w
      BY <1>4, <1>7, <1>8, <1>10, <3>1, <3>2
    <3>3. CASE v # w
      <4>1. worker'[v] = worker[v] /\ AgreesAt(v, worker[v]) /\ v[2] \in Partitions
        BY <1>8, <3>3, WorkerIs
      <4>2. owner[v[2]] = v[1]
        BY <2>1, <4>1 DEF AgreesAt
      <4>3. v[2] # q
        BY <1>4, <3>1, <3>3, <4>2 DEF Workers
      <4> QED
        BY <1>10, <2>1, <4>1, <4>2, <4>3 DEF AgreesAt
    <3> QED
      BY <3>2, <3>3
  <2> QED
    BY <1>3, <2>1 DEF OffsetsAgree
<1>17. BatchOK(w, t)
  BY <1>4, <1>7, <1>12 DEF BatchOK
<1>18. StageOK(t) /\ ~t.permit.held /\ ~s.permit.held
  BY <1>2, <1>3, <1>7 DEF StageOK
<1>19. WorkersInv'
  <2>1. BatchOK(w, t)'
    BY <1>7, <1>11, <1>14, <1>17, BatchKept DEF EmbeddingInv
  <2>2. BatchOK(w, worker[w])'
    BY <1>8, <2>1 DEF BatchOK
  <2> QED
    BY <1>8, <1>11, <1>14, <1>18, <2>2, OthersKept DEF EmbeddingInv
<1>20. GatesInv'
  BY <1>1, <1>3, <1>6, <1>7, <1>18, QuietGate
<1> QED
  BY <1>11, <1>13, <1>15, <1>16, <1>19, <1>20 DEF EmbeddingInv

-----------------------------------------------------------------------------
(* The theorem about the embedding workers.                                *)

LEMMA EmbeddingStarts == EmbeddingInit => EmbeddingInv
<1> SUFFICES ASSUME EmbeddingInit
             PROVE  EmbeddingInv
  OBVIOUS
<1>1. content \in [Posts -> Nat \cup {Gone}] /\ embedding \in [Posts -> Nat] /\ \A p \in Posts : content[p] = 1 /\ embedding[p] = 0
  BY DEF EmbeddingInit
<1>2. \A p \in Posts : content[p] # Gone
  BY <1>1 DEF Gone
<1>3. ASSUME NEW q \in Partitions
      PROVE  log[q] \in Seq(RequestMessage) /\ \A i \in DOMAIN log[q] : \E p \in Posts : log[q][i] = Request(p)
  <2>1. In(Posts, q) \subseteq Posts
    BY DEF In
  <2>2. log[q] = SetToSeq(Wanted(In(Posts, q)))
    BY DEF EmbeddingInit, Wanted, In
  <2>3. /\ SetToSeq(Wanted(In(Posts, q))) \in Seq(RequestMessage)
        /\ \A j \in DOMAIN SetToSeq(Wanted(In(Posts, q))) :
             \E p \in In(Posts, q) : SetToSeq(Wanted(In(Posts, q)))[j] = Request(p)
    BY <1>1, <1>2, <2>1, WantedAre
  <2> QED
    BY <2>1, <2>2, <2>3
<1>4. log \in [Partitions -> Seq(RequestMessage)]
  <2>1. log = [q \in Partitions |-> log[q]]
    BY DEF EmbeddingInit
  <2> QED
    BY <1>3, <2>1
<1>5. worker \in [Workers -> PartitionWorker] /\ \A w \in Workers : worker[w] = Idle
  BY IdleIs DEF EmbeddingInit
<1>6. NewGate \in ProviderGate
  BY DEF NewGate, ProviderGate
<1>7. gate \in [Members -> ProviderGate] /\ \A m \in Members : gate[m] = NewGate
  BY <1>6 DEF EmbeddingInit
<1>8. EmbeddingShape
  BY <1>1, <1>4, <1>5, <1>7 DEF EmbeddingInit, EmbeddingShape
<1>9. LogShape
  <2>1. ASSUME NEW q \in Partitions
        PROVE  /\ dlq[q] \subseteq 1..Len(log[q]) /\ offset[q] <= Len(log[q])
               /\ \A i \in 1..Len(log[q]) : log[q][i].post # Bad =>
                    content[log[q][i].post] = Gone \/ log[q][i].at <= content[log[q][i].post]
    <3>1. dlq[q] = {} /\ offset[q] = 0
      BY DEF EmbeddingInit
    <3>2. Len(log[q]) \in Nat /\ DOMAIN log[q] = 1..Len(log[q])
      BY <1>8, LogIs
    <3>3. ASSUME NEW i \in 1..Len(log[q])
          PROVE  log[q][i].at <= content[log[q][i].post]
      <4>1. PICK p \in Posts : log[q][i] = Request(p)
        BY <1>3, <3>2
      <4>2. Request(p).post = p /\ Request(p).at = content[p]
        BY DEF Request
      <4> QED
        BY <1>1, <4>1, <4>2
    <3> QED
      BY <3>1, <3>2, <3>3
  <2> QED
    BY <2>1 DEF LogShape
<1>10. LogInv
  BY <1>1 DEF EmbeddingInit, LogInv, HandledTo
<1>11. OffsetsAgree
  BY <1>5, IdleIs DEF OffsetsAgree
<1>12. WorkersInv
  BY <1>5, IdleIs DEF WorkersInv, BatchOK
<1>13. GatesInv
  <2>1. ASSUME NEW m \in Members
        PROVE  GateOK(m)
    <3>1. Flying(m) = {}
      BY <1>5, IdleIs DEF Flying
    <3>2. IsFiniteSet({}) /\ Cardinality({}) = 0
      BY FS_EmptySet
    <3>3. gate[m].inFlight = 0 /\ gate[m].state = "closed"
      BY <1>7 DEF NewGate
    <3> QED
      BY <3>1, <3>2, <3>3 DEF GateOK
  <2> QED
    BY <2>1 DEF GatesInv
<1> QED
  BY <1>8, <1>9, <1>10, <1>11, <1>12, <1>13 DEF EmbeddingInv

LEMMA EmbeddingSteps == EmbeddingInv /\ [EmbeddingNext]_embeddingVars => EmbeddingInv'
<1> SUFFICES ASSUME EmbeddingInv, [EmbeddingNext]_embeddingVars
             PROVE  EmbeddingInv'
  OBVIOUS
<1>1. CASE \E p \in Volatile : Edit(p) \/ Delete(p)
  BY <1>1, EditKeeps, DeleteKeeps
<1>2. CASE \E q \in Partitions : Undecodable(q)
  BY <1>2, UndecodableKeeps
<1>3. CASE Requeue \/ Rebalance
  BY <1>3, RequeueKeeps, RebalanceKeeps
<1>4. CASE \E m \in Members : Crash(m) \/ Join(m) \/ CoolDown(m)
  BY <1>4, CrashKeeps, JoinKeeps, CoolDownKeeps
<1>5. ASSUME NEW w \in Workers, PartitionStep(w) \/ ProviderFails(w) \/ ProviderPanics(w) \/ StageFails(w)
      PROVE  EmbeddingInv'
  <2>1. CASE PartitionStep(w)
    BY <2>1, AbandonKeeps, FetchKeeps, LoadKeeps, AcquireKeeps, ProviderAnswersKeeps, WriteKeeps, CommitKeeps DEF PartitionStep
  <2> QED
    BY <1>5, <2>1, ProviderFailsKeeps, ProviderPanicsKeeps, StageFailsKeeps
<1>6. CASE UNCHANGED embeddingVars
  <2>1. PostsKept /\ UNCHANGED <<offset, gen, owner, joined, worker, gate>>
    BY <1>6 DEF embeddingVars, PostsKept
  <2>2. EmbeddingShape'
    BY <2>1 DEF EmbeddingInv, EmbeddingShape, PostsKept
  <2>3. LogShape' /\ LogInv'
    BY <2>1, LogInvKept DEF EmbeddingInv
  <2>4. OffsetsAgree'
    BY <2>1 DEF EmbeddingInv, OffsetsAgree
  <2>5. WorkersInv'
    BY <2>1, <2>2, PostsKeptKeeps, AllKept DEF EmbeddingInv
  <2>6. GatesInv'
    BY <2>1, GatesKept DEF EmbeddingInv
  <2> QED
    BY <2>2, <2>3, <2>4, <2>5, <2>6 DEF EmbeddingInv
<1> QED
  BY <1>1, <1>2, <1>3, <1>4, <1>5, <1>6 DEF EmbeddingNext

LEMMA EmbeddingInvSafe == EmbeddingInv => EmbeddingSafe
<1> SUFFICES ASSUME EmbeddingInv
             PROVE  EmbeddingSafe
  OBVIOUS
<1>1. EmbeddingTypeOK
  <2>1. \A q \in Partitions : offset[q] \in 0..Len(log[q]) /\ dlq[q] \subseteq 1..Len(log[q])
    BY LogIs DEF EmbeddingInv, EmbeddingShape, LogShape
  <2>2. content \in [Posts -> Int] /\ embedding \in [Posts -> Nat]
    BY DEF EmbeddingInv, EmbeddingShape, Gone
  <2>3. owner \in [Partitions -> Members] /\ joined \in [Members -> 0..gen] /\ \A w \in Workers : worker[w].pc \in States
    BY DEF EmbeddingInv, EmbeddingShape, PartitionWorker
  <2> QED
    BY <2>1, <2>2, <2>3 DEF EmbeddingTypeOK
<1>2. RequestsAccounted
  BY DEF EmbeddingInv, LogInv, HandledTo, Handled, RequestsAccounted
<1>3. GateCounts
  <2>1. ASSUME NEW m \in Members
        PROVE  LET g       == gate[m]
                   flying  == {w \in Workers : w[1] = m /\ worker[w].permit.held}
                   current == {w \in flying : worker[w].permit.epoch = g.epoch}
               IN  /\ g.inFlight = Cardinality(flying) /\ g.inFlight <= Limit
                   /\ g.state = "open" => current = {}
                   /\ g.state = "half" => flying = current /\ Cardinality(current) <= 1
                   /\ \A w \in flying : worker[w].permit.half => g.state = "half"
    <3>1. GateOK(m)
      BY DEF EmbeddingInv, GatesInv
    <3>2. PICK flying : flying = {w \in Workers : w[1] = m /\ worker[w].permit.held}
      OBVIOUS
    <3>3. PICK current : current = {w \in flying : worker[w].permit.epoch = gate[m].epoch}
      OBVIOUS
    <3>4. flying = Flying(m)
      BY <3>2 DEF Flying
    <3>5. gate[m].inFlight = Cardinality(flying) /\ gate[m].inFlight <= Limit
      BY <3>1, <3>4 DEF GateOK
    <3>6. gate[m].state = "open" => current = {}
      BY <3>1, <3>3, <3>4 DEF GateOK
    <3>7. gate[m].state = "half" => flying = current
      BY <3>1, <3>3, <3>4 DEF GateOK
    <3>8. gate[m].state = "half" => Cardinality(flying) <= 1
      BY <3>1, <3>4 DEF GateOK
    <3>9. gate[m].state = "half" => Cardinality(current) <= 1
      BY <3>7, <3>8
    <3>10. \A w \in flying : worker[w].permit.half => gate[m].state = "half"
      BY <3>1, <3>4 DEF GateOK
    <3> QED
      BY <3>2, <3>3, <3>5, <3>6, <3>7, <3>9, <3>10
  <2> QED
    BY <2>1 DEF GateCounts
<1> QED
  BY <1>1, <1>2, <1>3 DEF EmbeddingSafe, EmbeddingInv

\* No request for an embedding is passed over, an embedding is of the content of its Post, the
\* offsets of a generation agree with the broker's and the gate of the provider counts what it
\* let through, for any number of members, partitions and Posts, and any disturbances.
THEOREM EmbeddingsAreSafe == EmbeddingSpec => []EmbeddingSafe
<1>1. EmbeddingSpec => []EmbeddingInv
  BY EmbeddingStarts, EmbeddingSteps, PTL DEF EmbeddingSpec
<1> QED
  BY <1>1, EmbeddingInvSafe, PTL
=============================================================================

------------------------------ MODULE ApiRuntime ------------------------------
(***************************************************************************)
(* The API process when it stops: the readiness page, the requests being   *)
(* served, the dispatcher of recommendation traces and the Kafka publisher *)
(* that telemetry uses are closed one after the other, each with a budget, *)
(* while handlers and the dispatcher's worker go on.                       *)
(*                                                                         *)
(*   core/server.go, runtimehealth/api.go, recommendation/                 *)
(*   trace_dispatcher.go, eventing/kafka.go, cmd/api/main.go               *)
(*                                                                         *)
(* The translation and exchange-rate services are closed between the       *)
(* requests and the traces; they hold nothing the others use.              *)
(***************************************************************************)
EXTENDS Integers, Sequences, FiniteSets

CONSTANTS
  Requests,       \* HTTP requests
  Topics,         \* topics telemetry publishes to
  QueueCapacity,  \* recommendation.trace.queue_capacity
  MaxFaults       \* bound: failed checks and writes, budgets that run out

ASSUME ApiAssumption == QueueCapacity \in Nat \ {0} /\ MaxFaults \in Nat /\ Topics # {}

VARIABLES
  api,      \* APIReadiness: [page ready, page recent, shuttingDown, evaluation under way]
  stage,    \* how far shutdownAPIRuntime is
  req,      \* request -> where its handler is
  requests, \* apiRequestLifecycle: [closing, closes: how often done has been closed]
  trace,    \* AsyncTraceDispatcher
  pub,      \* KafkaPublisher
  faults    \* bounded

apiVars == <<api, stage, req, requests, trace, pub, faults>>

Stages == <<"up", "marked", "told", "http", "stopped", "draining", "discarding", "traced", "closing", "over">>

ApiInit ==
  /\ api = [ready |-> FALSE, fresh |-> FALSE, down |-> FALSE, eval |-> "idle", verdict |-> FALSE]
  /\ stage = "up" /\ req = [r \in Requests |-> "new"] /\ requests = [closing |-> FALSE, closes |-> 0]
  /\ trace = [accepting |-> TRUE, open |-> TRUE, queue |-> 0, worker |-> "idle", cancelled |-> FALSE]
  /\ pub = [state |-> "active", writers |-> [t \in Topics |-> "none"], closing |-> {}]
  /\ faults = 0

\* No API process: a behaviour of another component.
ApiOff ==
  /\ api = [ready |-> FALSE, fresh |-> FALSE, down |-> TRUE, eval |-> "ended", verdict |-> FALSE]
  /\ stage = "over" /\ req = [r \in Requests |-> "done"] /\ requests = [closing |-> TRUE, closes |-> 1]
  /\ trace = [accepting |-> FALSE, open |-> FALSE, queue |-> 0, worker |-> "ended", cancelled |-> TRUE]
  /\ pub = [state |-> "closed", writers |-> [t \in Topics |-> "none"], closing |-> {}]
  /\ faults = 0

Fault == faults < MaxFaults /\ faults' = faults + 1
NoFault == UNCHANGED faults

(* ------------------------------- readiness ------------------------------- *)

ReadyFrame == UNCHANGED <<stage, req, requests, trace, pub>>

\* Kafka alone leaves the API degraded, not unready.
EvaluateNow ==
  /\ api.eval = "idle" /\ ~api.down
  /\ \/ NoFault /\ api' = [api EXCEPT !.eval = "checked", !.verdict = TRUE]
     \/ Fault /\ api' = [api EXCEPT !.eval = "checked", !.verdict = FALSE]
  /\ ~(api.ready /\ api.fresh /\ api'.verdict)   \* storing the same page again is left out
  /\ ReadyFrame
StoreCheck == /\ api.eval = "checked" /\ api' = [api EXCEPT !.eval = IF api.down THEN "idle" ELSE "store"]
              /\ NoFault /\ ReadyFrame
StorePage == /\ api.eval = "store" /\ api' = [api EXCEPT !.ready = api.verdict, !.fresh = TRUE, !.eval = "idle"]
             /\ NoFault /\ ReadyFrame
EvaluationEnds == /\ api.eval = "idle" /\ stage \notin {"up", "marked", "told"}
                  /\ api' = [api EXCEPT !.eval = "ended"] /\ NoFault /\ ReadyFrame
PageAges == /\ api.fresh /\ stage # "up" /\ api' = [api EXCEPT !.fresh = FALSE] /\ NoFault /\ ReadyFrame

\* Snapshot
ApiReady == api.ready /\ api.fresh

(* -------------------------------- requests ------------------------------- *)

Active == {r \in Requests : req[r] \notin {"new", "refused", "done"}}
RequestFrame == UNCHANGED <<api, stage>>

ServeHTTP(r) ==
  /\ req[r] = "new"
  /\ req' = [req EXCEPT ![r] = IF requests.closing THEN "refused" ELSE "serving"]
  /\ NoFault /\ UNCHANGED <<requests, trace, pub>> /\ RequestFrame

\* TryEnqueue holds the read lock from the test of accepting to the end of the send.
TryEnqueue(r) ==
  /\ req[r] = "serving" /\ req' = [req EXCEPT ![r] = IF trace.accepting THEN "admitted" ELSE "leaving"]
  /\ NoFault /\ UNCHANGED <<requests, trace, pub>> /\ RequestFrame
SendJob(r) ==
  /\ req[r] = "admitted" /\ req' = [req EXCEPT ![r] = "leaving"]
  /\ trace' = IF trace.queue < QueueCapacity THEN [trace EXCEPT !.queue = @ + 1] ELSE trace
  /\ NoFault /\ UNCHANGED <<requests, pub>> /\ RequestFrame

\* Mutant: the channel is closed without the lock.
LockedByNone_Unlocked == TRUE

\* The write lock is free.
LockedByNone == \A r \in Requests : req[r] # "admitted"

\* Mutant: the publisher's state is not looked at.
GetWriter_AfterClose(r, t) ==
  /\ req[r] = "serving"
  /\ req' = [req EXCEPT ![r] = "writing"]
  /\ pub' = [pub EXCEPT !.writers[t] = IF @ = "none" THEN "open" ELSE @]
  /\ NoFault /\ UNCHANGED <<requests, trace>> /\ RequestFrame

\* Telemetry: the topic's writer is made once, and not after Close has begun.
GetWriter(r, t) ==
  /\ req[r] = "serving"
  /\ IF pub.state = "active"
     THEN /\ req' = [req EXCEPT ![r] = "writing"]
          /\ pub' = [pub EXCEPT !.writers[t] = IF @ = "none" THEN "open" ELSE @]
     ELSE UNCHANGED pub /\ req' = [req EXCEPT ![r] = "leaving"]
  /\ NoFault /\ UNCHANGED <<requests, trace>> /\ RequestFrame

WriteMessages(r) ==
  /\ req[r] = "writing" /\ req' = [req EXCEPT ![r] = "leaving"]
  /\ NoFault /\ UNCHANGED <<requests, trace, pub>> /\ RequestFrame

Leave(r) ==
  /\ req[r] = "leaving" /\ req' = [req EXCEPT ![r] = "done"]
  /\ requests' = IF requests.closing /\ Active = {r} THEN [requests EXCEPT !.closes = @ + 1] ELSE requests
  /\ NoFault /\ UNCHANGED <<trace, pub>> /\ RequestFrame

HandlerStep(r) == TryEnqueue(r) \/ SendJob(r) \/ (\E t \in Topics : GetWriter(r, t)) \/ WriteMessages(r) \/ Leave(r)

\* stop
Stopped(q) == IF q.closing THEN q ELSE [closing |-> TRUE, closes |-> IF Active = {} THEN q.closes + 1 ELSE q.closes]

(* ------------------------------ trace worker ----------------------------- *)

TraceFrame == UNCHANGED <<api, stage, req, requests, pub>>
TakeJob == /\ trace.worker = "idle" /\ trace.queue > 0
           /\ trace' = [trace EXCEPT !.queue = @ - 1, !.worker = IF trace.cancelled THEN "idle" ELSE "busy"]
           /\ NoFault /\ TraceFrame
persist == /\ trace.worker = "busy" /\ trace' = [trace EXCEPT !.worker = "idle"] /\ NoFault /\ TraceFrame
WorkerEnds == /\ trace.worker = "idle" /\ (trace.cancelled \/ (~trace.open /\ trace.queue = 0))
              /\ trace' = [trace EXCEPT !.worker = "ended"] /\ NoFault /\ TraceFrame

(* -------------------------------- shutdown ------------------------------- *)

To(next) == stage' = next
MarkShuttingDown == /\ stage = "up" /\ To("marked") /\ api' = [api EXCEPT !.down = TRUE]
                    /\ NoFault /\ UNCHANGED <<req, requests, trace, pub>>
StoreShutdownPage == /\ stage = "marked" /\ To("told") /\ api' = [api EXCEPT !.ready = FALSE, !.fresh = TRUE]
                     /\ NoFault /\ UNCHANGED <<req, requests, trace, pub>>
\* Server.Shutdown waits for the handlers; after its budget they are cancelled.
HttpShutdown ==
  /\ stage = "told" /\ To("http")
  /\ \/ Active = {} /\ NoFault /\ UNCHANGED requests
     \/ Active # {} /\ Fault /\ requests' = Stopped(requests)
  /\ UNCHANGED <<api, req, trace, pub>>
StopRequests == /\ stage = "http" /\ ~requests.closing /\ requests' = Stopped(requests)
                /\ NoFault /\ UNCHANGED <<api, stage, req, trace, pub>>
RequestsDrained ==
  /\ stage = "http" /\ requests.closing /\ To("stopped")
  /\ (requests.closes > 0 /\ NoFault) \/ (requests.closes = 0 /\ Fault)
  /\ UNCHANGED <<api, req, requests, trace, pub>>
TraceShutdown ==
  /\ stage = "stopped" /\ LockedByNone /\ To("draining")
  /\ trace' = [trace EXCEPT !.accepting = FALSE, !.open = FALSE]
  /\ NoFault /\ UNCHANGED <<api, req, requests, pub>>
TraceDrained ==
  /\ stage = "draining"
  /\ \/ trace.worker = "ended" /\ To("traced") /\ NoFault
     \/ trace.worker # "ended" /\ To("discarding") /\ Fault
  /\ trace' = [trace EXCEPT !.cancelled = TRUE] /\ UNCHANGED <<api, req, requests, pub>>
discardQueuedJobs ==
  /\ stage = "discarding"
  /\ IF trace.queue > 0 THEN trace' = [trace EXCEPT !.queue = @ - 1] /\ UNCHANGED stage ELSE To("traced") /\ UNCHANGED trace
  /\ NoFault /\ UNCHANGED <<api, req, requests, pub>>
PublisherClose ==
  /\ stage = "traced" /\ To("closing")
  /\ pub' = [pub EXCEPT !.state = "closing", !.closing = {t \in Topics : pub.writers[t] = "open"}]
  /\ NoFault /\ UNCHANGED <<api, req, requests, trace>>
CloseWriters ==
  /\ stage = "closing" /\ To("over")
  /\ pub' = [state |-> "closed", writers |-> [t \in Topics |-> IF t \in pub.closing THEN "closed" ELSE pub.writers[t]], closing |-> {}]
  /\ NoFault /\ UNCHANGED <<api, req, requests, trace>>

ShutdownStep == StoreShutdownPage \/ HttpShutdown \/ StopRequests \/ RequestsDrained \/ TraceShutdown \/ TraceDrained
                \/ discardQueuedJobs \/ PublisherClose \/ CloseWriters

ApiNext ==
  \/ EvaluateNow \/ StoreCheck \/ StorePage \/ EvaluationEnds \/ PageAges
  \/ \E r \in Requests : ServeHTTP(r) \/ HandlerStep(r)
  \/ TakeJob \/ persist \/ WorkerEnds \/ MarkShuttingDown \/ ShutdownStep

\* Goroutines go on; requests and the signal to stop come when they come.
ApiFairness ==
  /\ \A r \in Requests : WF_apiVars(HandlerStep(r))
  /\ WF_apiVars(EvaluateNow \/ StoreCheck \/ StorePage \/ EvaluationEnds) /\ WF_apiVars(PageAges)
  /\ WF_apiVars(TakeJob \/ persist \/ WorkerEnds) /\ WF_apiVars(ShutdownStep)

(* ------------------------------- properties ------------------------------ *)

\* The stages of a shutdown and the queue's capacity.
ApiTypeOK ==
  /\ \E i \in 1..Len(Stages) : stage = Stages[i]
  /\ trace.queue \in 0..QueueCapacity /\ faults \in 0..MaxFaults /\ requests.closes \in Nat

\* Nobody sends on the dispatcher's channel once it is closed, nor closes the
\* lifecycle's channel twice; it is closed exactly when the last handler has left.
ChannelsUsedRightly ==
  /\ \A r \in Requests : req[r] = "admitted" => trace.open
  /\ requests.closes <= 1
  /\ requests.closes = 1 <=> (requests.closing /\ Active = {})

\* When no budget ran out, every trace taken has been dealt with before the publisher
\* and the database are closed, and no handler is left; and whatever ran out, no
\* writer stays open behind a closed publisher.
NothingLeftOpen ==
  /\ (stage \in {"traced", "closing", "over"} /\ faults = 0) => (trace.queue = 0 /\ trace.worker = "ended" /\ Active = {})
  /\ stage = "over" => \A t \in Topics : pub.writers[t] # "open"

ApiSafe == ApiTypeOK /\ ChannelsUsedRightly /\ NothingLeftOpen

\* A process told to stop does so and ends not ready with no trace waiting, even if
\* an evaluation stored its page after the shutdown's.
ApiSettles == <>[](stage = "up") \/ <>[](stage = "over" /\ trace.queue = 0 /\ ~ApiReady)
===============================================================================

---------------------------- MODULE ConsumerHealth ----------------------------
(***************************************************************************)
(* The health of one pipeline of a worker process: the consumer loops of   *)
(* its slots, the samples of the committed lag and of the consumer group   *)
(* that prove their sessions and forgive transport failures, the readiness *)
(* probe that publishes a snapshot, and the shutdown racing all of them.   *)
(*                                                                         *)
(*   tasks/worker_health.go, kafka_consumer_state.go, kafka_backlog.go,    *)
(*   pipeline_metrics.go, eventing/kafka_lag.go, cmd/worker/main.go        *)
(*                                                                         *)
(* Durations are told apart as recent or not: Ages is the passing of the   *)
(* maximum ages and grace periods.  A failure's kind is transport or other *)
(* and the numbers of samples are what the code compares them for: whether *)
(* the sample is still the newest one (newest) and whether a session has   *)
(* moved since it began (unmoved).                                         *)
(***************************************************************************)
EXTENDS Integers, FiniteSetsExt

CONSTANTS
  Pipelines,   \* the pipelines to look at, one in each behaviour, as records: kind is
               \* "reader", "generation" (Post embeddings) or "plain" (a relay), slots
               \* the consumer positions (expectedWorkers), budget a bound on its
               \* failures, messages, rebalances, delays and its shutdown
  Samplers,    \* samples that may overlap: one running, those left behind (numbers)
  FailureLimit \* consecutive failures that make a pipeline not ready

ASSUME HealthAssumption ==
  /\ Pipelines # {}
  /\ \A p \in Pipelines : /\ p.kind \in {"reader", "generation", "plain"}
                          /\ p.slots # {} /\ IsFiniteSet(p.slots) /\ p.budget \in Nat
  /\ Samplers # {} /\ Samplers \subseteq Nat
  /\ FailureLimit \in Nat \ {0}

VARIABLES
  pipeline,  \* the pipeline this behaviour is about
  slot,      \* slot -> kafkaConsumerSlotState
  pipe,      \* workerPipelineState beside its slots
  loop,      \* slot -> its consumer goroutine
  kafka,     \* external: slots with an uncommitted message, the group
  sample,    \* sampler -> a sample under way
  probe,     \* the readiness probe
  page,      \* workerSnapshot
  down,      \* the shutdown: "no", "marked", "stored", "cancelled"
  events     \* bounded

healthVars == <<pipeline, slot, pipe, loop, kafka, sample, probe, page, down, events>>

Slots == pipeline.slots
AllSlots == UNION {p.slots : p \in Pipelines}

NoPartition == [pending |-> FALSE, old |-> FALSE]

\* session is the version under which the present reader registered, 0: none;
\* proof the version a group sample verified, 0: none.
NewSlot == [started |-> FALSE, session |-> 0, active |-> FALSE, eligible |-> FALSE, version |-> 0,
            proof |-> 0, fresh |-> FALSE, failures |-> 0, kinds |-> {}, touched |-> 0, part |-> NoPartition]

NewPipe == [backlog |-> -1, valid |-> FALSE, fresh |-> FALSE, moving |-> TRUE, active |-> 0, failures |-> 0]

NoSample == [at |-> "idle", slots |-> <<>>, newest |-> FALSE, unmoved |-> FALSE, recover |-> FALSE,
             lag |-> -1, group |-> "none", late |-> "no", hurt |-> FALSE]

NewLoop == [at |-> "off", reg |-> 0, broken |-> {}]

HealthInit ==
  /\ pipeline \in Pipelines
  /\ slot = [s \in Slots |-> NewSlot] /\ pipe = NewPipe
  /\ loop = [s \in Slots |-> NewLoop]
  /\ kafka = [lag |-> {}, stable |-> TRUE, members |-> {}]
  /\ sample = [p \in Samplers |-> NoSample]
  /\ probe = [at |-> "idle", ready |-> FALSE] /\ page = [ready |-> FALSE, fresh |-> FALSE]
  /\ down = "no" /\ events = 0

\* No worker process: a behaviour of another component.
HealthOff ==
  /\ pipeline = CHOOSE p \in Pipelines : TRUE
  /\ slot = [s \in Slots |-> NewSlot] /\ pipe = NewPipe
  /\ loop = [s \in Slots |-> [NewLoop EXCEPT !.at = "ended"]]
  /\ kafka = [lag |-> {}, stable |-> TRUE, members |-> {}]
  /\ sample = [p \in Samplers |-> NoSample]
  /\ probe = [at |-> "ended", ready |-> FALSE] /\ page = [ready |-> FALSE, fresh |-> FALSE]
  /\ down = "cancelled" /\ events = pipeline.budget

isKafkaPipeline == pipeline.kind # "plain"
Disturb == events < pipeline.budget /\ events' = events + 1
Calm == UNCHANGED events
Cancelled == down = "cancelled"

(* --------------------------- slots and sessions -------------------------- *)

\* recomputeKafkaPipelineAggregate
Failures == IF isKafkaPipeline THEN Max({slot[s].failures : s \in Slots}) ELSE pipe.failures
FailureKinds == UNION {slot[s].kinds : s \in Slots}
ActiveWorkers == Cardinality({s \in Slots : slot[s].started})

SessionReady(s) == s.started /\ s.active /\ s.eligible
Proven(s) == SessionReady(s) /\ s.proof = s.version /\ s.proof # 0 /\ s.fresh
kafkaConsumerSlotsReady == \A s \in Slots : Proven(slot[s])

Unproven(s) == [s EXCEPT !.proof = 0, !.fresh = FALSE, !.part = NoPartition]
NextVersion(s) == Unproven([s EXCEPT !.version = @ + 1])
NoSession(s) == NextVersion([s EXCEPT !.session = 0, !.active = FALSE, !.eligible = FALSE])

\* state.membershipSampleVersion++
Moved == sample' = [p \in Samplers |-> [sample[p] EXCEPT !.unmoved = FALSE]]
\* ghost: the samples under way have missed a failure or a commit
Missed(sm) == [p \in Samplers |-> [sm[p] EXCEPT !.hurt = sm[p].late = "no" /\ sm[p].at # "idle"]]

KafkaConsumerSlotStarted(s) ==
  IF down # "no" THEN UNCHANGED <<slot, sample>>
  ELSE slot' = [slot EXCEPT ![s] = Unproven([@ EXCEPT !.started = TRUE])] /\ Moved

KafkaConsumerSlotStopped(s) ==
  slot' = [slot EXCEPT ![s] = NoSession([@ EXCEPT !.started = FALSE])] /\ Moved

Failed(sl, kinds) == [sl EXCEPT !.failures = @ + 1, !.kinds = @ \union kinds, !.touched = @ + 1]
KafkaConsumerSlotFailed(s, kinds) ==
  slot' = [slot EXCEPT ![s] = Failed(@, kinds)] /\ sample' = Missed(sample)

markKafkaConsumerSlotSuccess(sl) == [sl EXCEPT !.failures = 0, !.kinds = {}, !.touched = @ + 1]

\* Mutant: the new session is never eligible.
registerKafkaConsumerSession_Ineligible(s) ==
  IF down # "no" \/ ~slot[s].started THEN loop' = [loop EXCEPT ![s] = [@ EXCEPT !.at = "run"]] /\ UNCHANGED <<slot, sample>>
  ELSE LET v == slot[s].version + 1 IN
       /\ slot' = [slot EXCEPT ![s] = NextVersion([@ EXCEPT !.session = v, !.active = TRUE])]
       /\ loop' = [loop EXCEPT ![s] = [@ EXCEPT !.at = "run", !.reg = v]] /\ Moved

\* The session's version when it is registered is the reader's client ID.
registerKafkaConsumerSession(s) ==
  IF down # "no" \/ ~slot[s].started THEN loop' = [loop EXCEPT ![s] = [@ EXCEPT !.at = "run"]] /\ UNCHANGED <<slot, sample>>
  ELSE LET v == slot[s].version + 1 IN
       /\ slot' = [slot EXCEPT ![s] = NextVersion([@ EXCEPT !.session = v, !.active = TRUE, !.eligible = TRUE])]
       /\ loop' = [loop EXCEPT ![s] = [@ EXCEPT !.at = "run", !.reg = v]] /\ Moved

\* The function registration returns: only the session it stands for is removed,
\* also when it has been invalidated since.
StillRegistered(s, v) ==
  /\ v # 0 /\ slot[s].active /\ slot[s].session = v
  /\ slot[s].version = v \/ (pipeline.kind = "reader" /\ slot[s].version = v + 1 /\ ~slot[s].eligible)
unregisterSession(s, v) ==
  IF StillRegistered(s, v) THEN slot' = [slot EXCEPT ![s] = NoSession(@)] /\ Moved ELSE UNCHANGED <<slot, sample>>

invalidateKafkaReaderSession(s) ==
  IF slot[s].active /\ slot[s].session = loop[s].reg /\ slot[s].eligible
  THEN slot' = [slot EXCEPT ![s] = NextVersion([@ EXCEPT !.eligible = FALSE])] /\ Moved
  ELSE UNCHANGED <<slot, sample>>

(* ------------------------- a slot's consumer loop ------------------------ *)

At(s, where) == loop[s].at = where
Go(s, where) == loop' = [loop EXCEPT ![s].at = where]
SlotFrame == UNCHANGED <<pipeline, pipe, kafka, probe, page, down>>

Start(s) == /\ isKafkaPipeline /\ At(s, "off") /\ KafkaConsumerSlotStarted(s)
            /\ Go(s, "idle") /\ Calm /\ SlotFrame

\* A new Kafka reader with a fresh client ID, or a generation of the group.
OpenReader(s) ==
  /\ At(s, "idle") /\ ~Cancelled /\ registerKafkaConsumerSession(s)
  /\ kafka' = IF pipeline.kind = "generation" THEN [kafka EXCEPT !.members = @ \union {<<s, 1>>}] ELSE kafka
  /\ Calm /\ UNCHANGED <<pipeline, pipe, probe, page, down>>

\* The reader cannot be built (configuration); ConsumerGroup.Next fails (transport).
OpenFails(s) ==
  /\ At(s, "idle") /\ ~Cancelled /\ Disturb
  /\ KafkaConsumerSlotFailed(s, IF pipeline.kind = "generation" THEN {"transport"} ELSE {"other"})
  /\ UNCHANGED loop /\ SlotFrame

\* The reader's fetch ends in an error; messages it has may still be processed.
FetchFails(s) ==
  /\ pipeline.kind = "reader" /\ At(s, "run") /\ loop[s].broken = {} /\ ~Cancelled /\ Disturb
  /\ invalidateKafkaReaderSession(s)
  /\ \E kind \in {"transport", "other"}, where \in {"report"} \union (IF s \in kafka.lag THEN {"run"} ELSE {}) :
       loop' = [loop EXCEPT ![s] = [@ EXCEPT !.at = where, !.broken = {kind}]]
  /\ SlotFrame

ReportFailure(s) ==
  /\ At(s, "report") /\ KafkaConsumerSlotFailed(s, loop[s].broken)
  /\ Go(s, "closing") /\ Calm /\ SlotFrame

\* Processing fails, or the commit does, perhaps after the broker has taken it.
BatchFails(s) ==
  /\ pipeline.kind = "reader" /\ At(s, "run") /\ s \in kafka.lag /\ ~Cancelled /\ Disturb
  /\ KafkaConsumerSlotFailed(s, {"other"} \union loop[s].broken)
  /\ \E taken \in {{}, {s}} : kafka' = [kafka EXCEPT !.lag = @ \ taken]
  /\ Go(s, "closing") /\ UNCHANGED <<pipeline, pipe, probe, page, down>>

\* RecordPartitionBatchPending, for the generation's own session only.
generationSessionMatches(s) == SessionReady(slot[s]) /\ slot[s].version = loop[s].reg
BatchPending(s) ==
  /\ pipeline.kind = "generation" /\ At(s, "run") /\ s \in kafka.lag /\ down = "no"
  /\ generationSessionMatches(s) /\ ~slot[s].part.pending
  /\ slot' = [slot EXCEPT ![s].part = [pending |-> TRUE, old |-> FALSE]]
  /\ Calm /\ UNCHANGED <<loop, sample>> /\ SlotFrame

CommitOffsets(s) ==
  /\ isKafkaPipeline /\ At(s, "run") /\ s \in kafka.lag /\ ~Cancelled
  /\ kafka' = [kafka EXCEPT !.lag = @ \ {s}]
  /\ Go(s, "committed") /\ Calm /\ UNCHANGED <<pipeline, slot, pipe, sample, probe, page, down>>

\* KafkaConsumerSlotCommitted, confirmPostEmbeddingGenerationCommit
Recorded(s) == down = "no" /\ (pipeline.kind = "generation" => generationSessionMatches(s))
Committed(s) ==
  /\ At(s, "committed") /\ Go(s, IF loop[s].broken = {} THEN "run" ELSE "report") /\ Calm
  /\ IF Recorded(s)
     THEN /\ slot' = [slot EXCEPT ![s] = [markKafkaConsumerSlotSuccess(@) EXCEPT !.part = NoPartition]]
          /\ pipe' = [pipe EXCEPT !.moving = TRUE] /\ sample' = Missed(sample)
     ELSE UNCHANGED <<slot, pipe, sample>>
  /\ UNCHANGED <<pipeline, kafka, probe, page, down>>

\* The context ends; a generation ends when the group rebalances.
Interrupted(s) ==
  /\ At(s, "run") /\ isKafkaPipeline
  /\ (Cancelled /\ Calm) \/ (~Cancelled /\ pipeline.kind = "generation" /\ Disturb)
  /\ Go(s, "closing") /\ UNCHANGED <<slot, sample>> /\ SlotFrame

CloseReader(s) ==
  /\ At(s, "closing") /\ unregisterSession(s, loop[s].reg)
  /\ loop' = [loop EXCEPT ![s] = [NewLoop EXCEPT !.at = "idle"]] /\ Calm /\ SlotFrame

\* The loop ends with the context; that of a generation also when its group closes.
GroupStopped(s) == pipeline.kind = "generation" /\ At(s, "idle") /\ ~Cancelled
Stop(s) ==
  /\ isKafkaPipeline /\ At(s, "idle") /\ Cancelled /\ Calm
  /\ KafkaConsumerSlotStopped(s) /\ Go(s, "ended") /\ SlotFrame
GroupStops(s) ==
  /\ GroupStopped(s) /\ Disturb
  /\ slot' = [slot EXCEPT ![s] = NoSession([Failed(@, {"other"}) EXCEPT !.started = FALSE])]
  /\ sample' = Missed([p \in Samplers |-> [sample[p] EXCEPT !.unmoved = FALSE]])
  /\ Go(s, "ended") /\ SlotFrame

LoopStep(s) == Start(s) \/ OpenReader(s) \/ ReportFailure(s) \/ BatchPending(s) \/ CommitOffsets(s) \/ Committed(s)
               \/ CloseReader(s) \/ Stop(s)
LoopFault(s) == OpenFails(s) \/ FetchFails(s) \/ BatchFails(s) \/ Interrupted(s) \/ GroupStops(s)

(* -------------------- the broker (external) and a relay ------------------ *)

KafkaFrame == UNCHANGED <<pipeline, slot, pipe, loop, sample, probe, page, down>>
Client(s, session) == <<s, IF pipeline.kind = "generation" THEN 1 ELSE session>>

Joins(s) ==
  /\ isKafkaPipeline /\ At(s, "run") /\ loop[s].reg # 0 /\ Client(s, loop[s].reg) \notin kafka.members
  /\ kafka' = [kafka EXCEPT !.members = @ \union {Client(s, loop[s].reg)}] /\ Calm /\ KafkaFrame
Leaves(m) ==
  /\ m \in kafka.members /\ m # Client(m[1], loop[m[1]].reg)
  /\ kafka' = [kafka EXCEPT !.members = @ \ {m}] /\ Calm /\ KafkaFrame
Rebalances ==
  /\ isKafkaPipeline /\ kafka.stable /\ Disturb
  /\ \E gone \in {{}} \union {{m} : m \in kafka.members} :
       kafka' = [kafka EXCEPT !.stable = FALSE, !.members = @ \ gone]
  /\ KafkaFrame
Settles == ~kafka.stable /\ kafka' = [kafka EXCEPT !.stable = TRUE] /\ Calm /\ KafkaFrame
Message(s) == s \notin kafka.lag /\ ~Cancelled /\ Disturb /\ kafka' = [kafka EXCEPT !.lag = @ \union {s}] /\ KafkaFrame

\* setPipelineBacklog
WithBacklog(p, n) == [p EXCEPT !.backlog = n, !.moving = @ \/ n = 0 \/ p.backlog <= 0 \/ n < p.backlog]

PlainFrame == UNCHANGED <<pipeline, slot, loop, sample, probe, page, down>>
PipelineStarted ==
  /\ pipeline.kind = "plain" /\ pipe.active = 0 /\ ~Cancelled
  /\ pipe' = [pipe EXCEPT !.active = 1] /\ Calm /\ UNCHANGED kafka /\ PlainFrame
PipelineIdle ==
  /\ pipeline.kind = "plain" /\ pipe.active = 1 /\ ~Cancelled /\ (kafka.lag # {} \/ pipe.failures > 0)
  /\ kafka' = [kafka EXCEPT !.lag = {}]
  /\ pipe' = [WithBacklog(pipe, 0) EXCEPT !.failures = 0, !.moving = TRUE] /\ Calm /\ PlainFrame
PipelineFailure ==
  /\ pipeline.kind = "plain" /\ pipe.active = 1 /\ ~Cancelled /\ Disturb
  /\ pipe' = [WithBacklog(pipe, 0) EXCEPT !.failures = @ + 1] /\ UNCHANGED kafka /\ PlainFrame
PipelineStopped ==
  /\ pipeline.kind = "plain" /\ pipe.active = 1 /\ Cancelled
  /\ pipe' = [pipe EXCEPT !.active = 0] /\ Calm /\ UNCHANGED kafka /\ PlainFrame

(* -------------------------------- sampling ------------------------------- *)

SampleFrame == UNCHANGED <<pipeline, loop, kafka, probe, page, down>>

\* What a sample keeps of a slot: a kafkaRecoverySlot.
Sampled(s) == [started |-> s.started, active |-> s.active, eligible |-> s.eligible, version |-> s.version,
               session |-> s.session, kinds |-> s.kinds, failures |-> s.failures, touched |-> s.touched]

\* What a sample may still use once the group query's budget has ended, or its own.
OutOfTime(sm, late) ==
  IF late = "all" THEN [NoSample EXCEPT !.at = sm.at, !.newest = sm.newest, !.late = "all"]
  ELSE [sm EXCEPT !.late = "group", !.slots = <<>>, !.group = "none", !.recover = FALSE, !.unmoved = FALSE, !.hurt = FALSE]

\* refreshKafkaCommittedBacklogs: a sample left behind has run out of its budget.
beginKafkaBacklogSample(p) ==
  /\ isKafkaPipeline /\ sample[p].at = "idle" /\ ~Cancelled
  /\ \A q \in Samplers : sample[q].at = "idle" => p <= q
  /\ \A q \in Samplers : sample[q].at # "idle" => sample[q].late = "all"
  /\ sample' = [q \in Samplers |->
       IF q = p
       THEN [NoSample EXCEPT !.at = "query", !.slots = [s \in Slots |-> Sampled(slot[s])], !.newest = TRUE, !.unmoved = TRUE,
             !.recover = Failures > 0 /\ FailureKinds = {"transport"} /\ \A s \in Slots : SessionReady(slot[s])]
       ELSE [sample[q] EXCEPT !.newest = FALSE, !.unmoved = FALSE]]
  /\ Calm /\ UNCHANGED <<slot, pipe>> /\ SampleFrame

\* sampleKafkaCommittedLag; -1 for no answer, -2 for an error
LagAnswers(p) ==
  /\ sample[p].at = "query" /\ sample[p].lag = -1 /\ sample[p].late # "all"
  /\ \E lag \in {Cardinality(kafka.lag), -2} :
       sample' = [sample EXCEPT ![p].lag = lag] /\ IF lag < 0 THEN Disturb ELSE Calm
  /\ UNCHANGED <<slot, pipe>> /\ SampleFrame

\* kafkaGroupMatchesLocalSessions, of the description the broker gives now
GroupMatches(slots) ==
  /\ kafka.stable
  /\ \A s \in Slots : SessionReady(slots[s]) /\ Client(s, slots[s].session) \in kafka.members
GroupAnswers(p) ==
  /\ sample[p].at = "query" /\ sample[p].group = "none" /\ sample[p].late = "no"
  /\ \/ Calm /\ sample' = [sample EXCEPT ![p].group = IF GroupMatches(sample[p].slots) THEN "matched" ELSE "unmatched"]
     \/ Disturb /\ sample' = [sample EXCEPT ![p].group = "unmatched"]   \* an error revokes the proof as well
  /\ UNCHANGED <<slot, pipe>> /\ SampleFrame

\* The group query's own budget ends, or that of the whole round.
SampleLate(p) ==
  /\ sample[p].at # "idle" /\ Disturb
  /\ \E late \in {"group", "all"} : sample[p].late \notin {late, "all"} /\ sample' = [sample EXCEPT ![p] = OutOfTime(@, late)]
  /\ UNCHANGED <<slot, pipe>> /\ SampleFrame

LagValid(p) == sample[p].lag >= 0 /\ sample[p].late # "all"
Collected(p) == sample[p].late = "all" \/ (sample[p].lag # -1 /\ (sample[p].group # "none" \/ sample[p].late = "group"))
recordKafkaBacklogSample(p) ==
  /\ sample[p].at = "query" /\ Collected(p)
  /\ IF sample[p].newest /\ down = "no"
     THEN /\ pipe' = IF LagValid(p) THEN [WithBacklog(pipe, sample[p].lag) EXCEPT !.valid = TRUE, !.fresh = TRUE]
                     ELSE [pipe EXCEPT !.valid = FALSE]
          /\ sample' = [sample EXCEPT ![p] = [@ EXCEPT !.at = "group", !.recover = sample[p].recover /\ LagValid(p) /\ sample[p].lag = 0]]
     ELSE UNCHANGED pipe /\ sample' = [sample EXCEPT ![p] = [@ EXCEPT !.at = "group", !.recover = FALSE]]
  /\ Calm /\ UNCHANGED slot /\ SampleFrame

\* Only the newest sample, and only while every slot is the one sampled.
SameSessions(p) ==
  \A s \in Slots : LET was == sample[p].slots[s] IN
    /\ was.started = slot[s].started /\ was.active = slot[s].active /\ was.eligible = slot[s].eligible
    /\ was.version = slot[s].version /\ was.session = slot[s].session

\* Mutant: the sample is recorded whatever has happened to the sessions since.
MembershipCurrent_Any(p) == sample[p].late = "no" /\ down = "no"

\* Still the newest sample, of sessions none of which has moved.
MembershipCurrent(p) == sample[p].late = "no" /\ down = "no" /\ sample[p].unmoved /\ SameSessions(p)

recordKafkaMembershipSample(p) ==
  /\ sample[p].at = "group"
  /\ IF MembershipCurrent(p)
     THEN slot' = [s \in Slots |-> IF sample[p].group = "matched"
                                   THEN [slot[s] EXCEPT !.proof = slot[s].version, !.fresh = TRUE]
                                   ELSE [slot[s] EXCEPT !.proof = 0, !.fresh = FALSE]]
     ELSE UNCHANGED slot
  /\ sample' = [sample EXCEPT ![p] = IF MembershipCurrent(p) /\ sample[p].group = "matched" /\ sample[p].recover
                                     THEN [@ EXCEPT !.at = "recover"] ELSE NoSample]
  /\ Calm /\ UNCHANGED pipe /\ SampleFrame

\* Mutant: what the sample found is enough.
RecoveryHolds_Sampled(p) == sample[p].late = "no" /\ down = "no"

\* The sample's evidence is looked at once more under the lock.
RecoveryHolds(p) ==
  /\ sample[p].late = "no" /\ down = "no" /\ sample[p].newest /\ sample[p].unmoved
  /\ FailureKinds = {"transport"} /\ Failures > 0 /\ pipe.backlog = 0 /\ pipe.valid /\ pipe.fresh
  /\ \A s \in Slots : LET was == sample[p].slots[s] IN
       /\ Proven(slot[s]) /\ slot[s].touched = was.touched /\ slot[s].version = was.version
       /\ slot[s].session = was.session /\ slot[s].kinds = was.kinds /\ slot[s].failures = was.failures

markKafkaIdleRecovered(p) ==
  /\ sample[p].at = "recover"
  /\ IF RecoveryHolds(p)
     THEN /\ slot' = [s \in Slots |-> IF slot[s].failures > 0 THEN markKafkaConsumerSlotSuccess(slot[s]) ELSE slot[s]]
          /\ pipe' = [pipe EXCEPT !.moving = TRUE]
     ELSE UNCHANGED <<slot, pipe>>
  /\ sample' = [sample EXCEPT ![p] = NoSample] /\ Calm /\ SampleFrame

SampleStep(p) == beginKafkaBacklogSample(p) \/ LagAnswers(p) \/ GroupAnswers(p) \/ recordKafkaBacklogSample(p)
                 \/ recordKafkaMembershipSample(p) \/ markKafkaIdleRecovered(p)

(* -------------------------- readiness and shutdown ----------------------- *)

PartitionStalled == \E s \in Slots : slot[s].active /\ slot[s].eligible /\ slot[s].part.pending /\ slot[s].part.old
BacklogBlocked(p) ==
  \/ isKafkaPipeline /\ ~(p.valid /\ p.fresh)
  \/ pipeline.kind = "generation" /\ PartitionStalled
  \/ p.backlog > 0 /\ ~p.moving

\* No reason found by evaluatePipelineHealth; its order only chooses the name.
Healthy(p) ==
  /\ down = "no" /\ Failures < FailureLimit /\ ~BacklogBlocked(p)
  /\ IF isKafkaPipeline THEN kafkaConsumerSlotsReady /\ ActiveWorkers >= Cardinality(Slots) ELSE p.active >= 1

\* refreshWorkerBacklogs counts a relay's queue.
Measured == IF isKafkaPipeline THEN pipe ELSE WithBacklog(pipe, Cardinality(kafka.lag))

ProbeFrame == UNCHANGED <<pipeline, slot, loop, kafka, sample, down>>

\* workerShuttingDown is read once more before the snapshot is stored, and not after.
\* An evaluation that would publish the present page again is left out.
evaluateWorkerReadiness ==
  /\ probe.at = "idle" /\ down = "no" /\ pipe' = Measured
  /\ page # [ready |-> Healthy(Measured), fresh |-> TRUE] \/ pipe' # pipe
  /\ \/ Calm /\ probe' = [at |-> "store", ready |-> Healthy(Measured)]
     \/ Disturb /\ probe' = [at |-> "store", ready |-> FALSE]     \* a dependency's check fails
  /\ UNCHANGED page /\ ProbeFrame

storeWorkerSnapshot ==
  /\ probe.at = "store" /\ page' = [ready |-> probe.ready, fresh |-> TRUE]
  /\ probe' = [at |-> "idle", ready |-> FALSE] /\ Calm /\ UNCHANGED pipe /\ ProbeFrame
ProbeEnds ==
  /\ probe.at = "idle" /\ Cancelled /\ page' = [ready |-> FALSE, fresh |-> TRUE]
  /\ probe' = [at |-> "ended", ready |-> FALSE] /\ Calm /\ UNCHANGED pipe /\ ProbeFrame

ProbeStep == evaluateWorkerReadiness \/ storeWorkerSnapshot \/ ProbeEnds

\* WorkerReadinessSnapshot
WorkerReady == page.ready /\ page.fresh

MarkWorkerShuttingDown ==
  /\ down = "no" /\ down' = "marked" /\ Moved
  /\ slot' = IF isKafkaPipeline THEN [s \in Slots |-> NextVersion(slot[s])] ELSE slot
  /\ Disturb /\ UNCHANGED <<pipeline, pipe, loop, kafka, probe, page>>
StoreShuttingDown ==
  /\ down = "marked" /\ down' = "stored" /\ page' = [ready |-> FALSE, fresh |-> TRUE]
  /\ Calm /\ UNCHANGED <<pipeline, slot, pipe, loop, kafka, sample, probe>>
Cancel == /\ down = "stored" /\ down' = "cancelled" /\ Calm
          /\ UNCHANGED <<pipeline, slot, pipe, loop, kafka, sample, probe, page>>

\* Time passes: every sample under way has run out of its budget.
Ages ==
  /\ IF Cancelled THEN Calm ELSE Disturb
  /\ slot' = [s \in Slots |-> [slot[s] EXCEPT !.fresh = FALSE, !.part.old = slot[s].part.pending]]
  /\ pipe' = [pipe EXCEPT !.fresh = FALSE, !.moving = pipe.backlog <= 0]
  /\ page' = [page EXCEPT !.fresh = FALSE]
  /\ sample' = [p \in Samplers |-> IF sample[p].at = "idle" THEN sample[p] ELSE OutOfTime(sample[p], "all")]
  /\ <<slot, pipe, page, sample>>' # <<slot, pipe, page, sample>>
  /\ UNCHANGED <<pipeline, loop, kafka, probe, down>>

HealthNext ==
  \/ \E s \in Slots : LoopStep(s) \/ LoopFault(s) \/ Joins(s) \/ Message(s)
  \/ \E m \in kafka.members : Leaves(m)
  \/ Rebalances \/ Settles
  \/ PipelineStarted \/ PipelineIdle \/ PipelineFailure \/ PipelineStopped
  \/ \E p \in Samplers : SampleStep(p) \/ SampleLate(p)
  \/ ProbeStep \/ MarkWorkerShuttingDown \/ StoreShuttingDown \/ Cancel \/ Ages

\* Each goroutine goes on, and so does the broker's side of the group; nothing makes a
\* fault or a shutdown happen.
HealthFairness ==
  /\ \A s \in AllSlots : WF_healthVars(s \in Slots /\ (LoopStep(s) \/ (Cancelled /\ Interrupted(s))))
  /\ \A p \in Samplers : WF_healthVars(SampleStep(p))
  /\ WF_healthVars(Settles \/ \E s \in Slots : Joins(s)) /\ WF_healthVars(PipelineStarted \/ PipelineIdle)
  /\ WF_healthVars(ProbeStep) /\ WF_healthVars(StoreShuttingDown \/ Cancel)

(* ------------------------------- properties ------------------------------ *)

\* The states a pipeline's health can be in; a proof is of a version the slot has had.
HealthTypeOK ==
  /\ pipeline \in Pipelines /\ down \in {"no", "marked", "stored", "cancelled"} /\ events \in 0..pipeline.budget
  /\ \A s \in Slots : slot[s].version \in Nat /\ slot[s].proof \in 0..slot[s].version
  /\ pipe.backlog \in -1..Cardinality(Slots) /\ page.ready \in BOOLEAN

\* A proof of membership is of the session the slot has now, whose reader still
\* fetches; none is left once the shutdown has begun.
ProofsAreCurrent ==
  \A s \in Slots : slot[s].proof # 0 =>
    /\ SessionReady(slot[s]) /\ slot[s].proof = slot[s].version /\ slot[s].session = loop[s].reg
    /\ loop[s].broken = {} /\ down = "no"

\* A slot's session is that of its open reader: none outlives its reader before the
\* shutdown, and none is left when the loop has ended.
SessionsHaveReaders ==
  \A s \in Slots : slot[s].active =>
    /\ loop[s].at # "ended"
    /\ loop[s].at \in {"off", "idle"} => down # "no"
    /\ loop[s].reg # 0 => slot[s].session = loop[s].reg

\* A probe that has ended leaves the worker not ready, whatever it was storing
\* when the shutdown began.
ProbeEndsNotReady == probe.at = "ended" => ~page.ready

HealthSafe == HealthTypeOK /\ ProofsAreCurrent /\ SessionsHaveReaders /\ ProbeEndsNotReady

\* A slot's failures are forgiven by its own commit, or by a sample begun after the
\* last failure and the last commit of every slot, when all were transport failures,
\* nothing is left to consume as far as that sample knows and every session is proven.
ForgivenFairly ==
  [][\A s \in Slots : slot'[s].failures < slot[s].failures =>
       \/ loop[s].at = "committed" /\ loop'[s].at # "committed"
       \/ /\ FailureKinds = {"transport"} /\ kafkaConsumerSlotsReady
          /\ \E p \in Samplers : sample[p].at = "recover" /\ ~sample[p].hurt /\ sample[p].lag = 0]_healthVars

\* Failures that no idle sample forgives, or a group that has closed: not ready
\* until a message is committed or the worker is restarted.
NeedsTraffic ==
  \/ Failures >= FailureLimit /\ "other" \in FailureKinds
  \/ \E s \in Slots : loop[s].at = "ended"

\* When faults stop, a worker that is not shut down becomes ready and stays so; one
\* that is shut down ends not ready.
HealthSettles == <>[]WorkerReady \/ <>[](down # "no" /\ ~WorkerReady) \/ <>[]NeedsTraffic
===============================================================================

---------------------------- MODULE PostEmbedding ----------------------------
(***************************************************************************)
(* Embeddings of Posts: requests keyed by Post in a partitioned topic, a   *)
(* consumer group whose generations run one worker per assigned partition, *)
(* an embedding provider behind a circuit breaker shared by the workers of *)
(* a process, and embeddings written only for the content they were made   *)
(* from.  A batch is held until it is done: nothing but an undecodable      *)
(* message is skipped.                                                     *)
(*                                                                         *)
(*   tasks/post_embedding*.go, embeddings/, cmd/requeue-post-embeddings,   *)
(*   cmd/check-post-embedding-coverage                                     *)
(*                                                                         *)
(* The fan-out of a written embedding to the profiles it changes is in     *)
(* ProfileMaterializer.                                                    *)
(***************************************************************************)
EXTENDS Integers, SequencesExt

CONSTANTS
  Members,        \* worker processes of the consumer group
  Partitions,
  Posts,
  PartitionOf,    \* Posts -> Partitions: the message key is the Post's id
  Bad,            \* a message that does not decode
  BatchSize,      \* embedding.batch_size
  Limit,          \* postEmbeddingProviderRequestLimit
  MaxAttempts,    \* provider attempts for one request
  Volatile,       \* Posts that are edited or deleted
  Assignments,    \* what the group's leader may decide
  MaxGen,         \* bound: group generations
  MaxChanges,     \* bound: changes of content, runs of the requeue command, bad messages
  MaxDisturbances \* bound: changes, new generations, failures, lost answers, crashes

ASSUME EmbeddingAssumption ==
  /\ IsFiniteSet(Posts) /\ PartitionOf \in [Posts -> Partitions] /\ Bad \notin Posts /\ Volatile \subseteq Posts
  /\ {BatchSize, Limit, MaxAttempts, MaxGen} \subseteq Nat \ {0}
  /\ {MaxChanges, MaxDisturbances} \subseteq Nat
  /\ Assignments \subseteq [Partitions -> Members] /\ Assignments # {}

VARIABLES
  content,    \* Post -> version of its content; Gone once deleted
  embedding,  \* Post -> version of the content its embedding was made from, 0: none
  log,        \* partition -> messages [post, version when requested]
  dlq,        \* partition -> offsets of the messages sent to the dead-letter topic
  offset,     \* partition -> next offset the broker has committed
  gen, owner, \* the group's generation and its assignment
  joined,     \* member -> the generation it runs, 0: none
  worker,     \* <<member, partition>> -> the partition worker
  gate,       \* member -> the provider gate
  changes, disturbances  \* bounded

embeddingVars == <<content, embedding, log, dlq, offset, gen, owner, joined, worker, gate, changes, disturbances>>

Gone == -1
NoPermit == [held |-> FALSE, epoch |-> 0, half |-> FALSE]

\* A worker: the next offset to fetch, the batch up to hi, the requests still to
\* be made, the items whose vectors are there and wait to be written.
Idle == [pc |-> "idle", next |-> 0, hi |-> 0, groups |-> <<>>, items |-> <<>>, try |-> 1,
         permit |-> NoPermit, pending |-> FALSE]

NewGate == [state |-> "closed", inFlight |-> 0, epoch |-> 0, cooled |-> TRUE]

Workers == {w \in Members \X Partitions : \E a \in Assignments : a[w[2]] = w[1]}

Disturbance == disturbances < MaxDisturbances /\ disturbances' = disturbances + 1
Change == Disturbance /\ changes < MaxChanges /\ changes' = changes + 1

\* NewPostEmbeddingRequestedEnvelope, published with the Post's content.
Request(p) == [post |-> p, at |-> content[p]]

EmbeddingInit ==
  /\ content = [p \in Posts |-> 1] /\ embedding = [p \in Posts |-> 0]
  /\ log = [q \in Partitions |-> SetToSeq({Request(p) : p \in {o \in Posts : PartitionOf[o] = q}})]
  /\ dlq = [q \in Partitions |-> {}] /\ offset = [q \in Partitions |-> 0]
  /\ gen = 1 /\ owner \in Assignments
  /\ joined = [m \in Members |-> 0]
  /\ worker = [w \in Workers |-> Idle]
  /\ gate = [m \in Members |-> NewGate]
  /\ changes = 0 /\ disturbances = 0

-----------------------------------------------------------------------------
(* Posts and requests.                                                     *)

\* The content changes: the old embedding goes and the new request comes with it.
Edit(p) ==
  /\ Change /\ content[p] # Gone
  /\ content' = [content EXCEPT ![p] = @ + 1]
  /\ embedding' = [embedding EXCEPT ![p] = 0]
  /\ log' = [log EXCEPT ![PartitionOf[p]] = Append(@, [post |-> p, at |-> content[p] + 1])]
  /\ UNCHANGED <<dlq, offset, gen, owner, joined, worker, gate>>

Delete(p) ==
  /\ Change /\ content[p] # Gone
  /\ content' = [content EXCEPT ![p] = Gone]
  /\ UNCHANGED <<embedding, log, dlq, offset, gen, owner, joined, worker, gate>>

\* A message that does not decode reaches the topic.
Undecodable(q) ==
  /\ Change
  /\ log' = [log EXCEPT ![q] = Append(@, [post |-> Bad, at |-> 1])]
  /\ UNCHANGED <<content, embedding, dlq, offset, gen, owner, joined, worker, gate>>

\* calculatePostEmbeddingCoverage, ListPage: no embedding, or one of other content.
Missing == {p \in Posts : content[p] # Gone /\ embedding[p] # content[p]}

\* The requeue command asks again for every missing one.
Requeue ==
  /\ Change /\ Missing # {}
  /\ log' = [q \in Partitions |-> log[q] \o SetToSeq({Request(p) : p \in {o \in Missing : PartitionOf[o] = q}})]
  /\ UNCHANGED <<content, embedding, dlq, offset, gen, owner, joined, worker, gate>>

-----------------------------------------------------------------------------
(* The group.                                                              *)

\* A new generation, with any assignment; the members learn of it later.
Rebalance ==
  /\ Disturbance /\ gen < MaxGen
  /\ gen' = gen + 1
  /\ owner' \in Assignments
  /\ UNCHANGED <<content, embedding, log, dlq, offset, joined, worker, gate, changes>>

\* A process dies with its workers and its gate.
Crash(m) ==
  /\ Disturbance /\ gen < MaxGen /\ joined[m] # 0
  /\ gen' = gen + 1 /\ owner' \in Assignments
  /\ joined' = [joined EXCEPT ![m] = 0]
  /\ worker' = [w \in Workers |-> IF w[1] = m THEN Idle ELSE worker[w]]
  /\ gate' = [gate EXCEPT ![m] = NewGate]
  /\ UNCHANGED <<content, embedding, log, dlq, offset, changes>>

\* ConsumerGroup.Next: only when every worker of the old generation has ended.
Join(m) ==
  /\ joined[m] # gen
  /\ \A w \in Workers : w[1] = m => worker[w].pc = "idle"
  /\ joined' = [joined EXCEPT ![m] = gen]
  /\ worker' = [w \in Workers |-> IF w[1] = m /\ owner[w[2]] = m
                                  THEN [Idle EXCEPT !.pc = "fetch", !.next = offset[w[2]]] ELSE worker[w]]
  /\ UNCHANGED <<content, embedding, log, dlq, offset, gen, owner, gate, changes, disturbances>>

-----------------------------------------------------------------------------
(* The provider gate.                                                      *)

\* The probe of the current epoch.
Probes(g, permit) == permit.half /\ permit.epoch = g.epoch /\ g.state = "half"

Released(g) == [g EXCEPT !.inFlight = @ - 1]
Opened(g) == [Released(g) EXCEPT !.state = "open", !.epoch = @ + 1, !.cooled = FALSE]

\* acquire: two requests while closed, one probe once the pause is over and
\* nothing is in flight.
MayAcquire(g) ==
  \/ g.state = "closed" /\ g.inFlight < Limit
  \/ g.state = "open" /\ g.cooled /\ g.inFlight = 0
  \/ g.state = "half" /\ g.inFlight = 0

Acquired(g) ==
  IF g.state = "open" THEN [g EXCEPT !.state = "half", !.epoch = @ + 1, !.inFlight = @ + 1]
  ELSE [g EXCEPT !.inFlight = @ + 1]

GateSucceeded(g, permit) ==
  IF Probes(g, permit) THEN [Released(g) EXCEPT !.state = "closed", !.epoch = @ + 1] ELSE Released(g)

\* providerRequestFailed: a failure of this request's own texts never opens it.
GateFailed(g, permit, shared, final) ==
  IF shared /\ (Probes(g, permit) \/ (permit.epoch = g.epoch /\ g.state = "closed" /\ final))
  THEN Opened(g) ELSE Released(g)

\* Mutant: the request of a generation that ended keeps its permit.
GateAborted_Leak(g, permit) == g

\* providerRequestCanceled, providerRequestPanicked.
GateAborted(g, permit) == IF Probes(g, permit) THEN Opened(g) ELSE Released(g)

\* The pause ends.
CoolDown(m) ==
  /\ gate[m].state = "open" /\ ~gate[m].cooled
  /\ gate' = [gate EXCEPT ![m].cooled = TRUE]
  /\ UNCHANGED <<content, embedding, log, dlq, offset, gen, owner, joined, worker, changes, disturbances>>

-----------------------------------------------------------------------------
(* A partition worker.                                                     *)

Doing(w, pc) == worker[w].pc = pc
Set(w, s) == worker' = [worker EXCEPT ![w] = s]
SetGate(w, g) == gate' = [gate EXCEPT ![w[1]] = g]

\* Its generation is over: it gives up wherever it is.
Abandon(w) ==
  /\ ~Doing(w, "idle") /\ joined[w[1]] # gen
  /\ Set(w, Idle)
  /\ SetGate(w, IF worker[w].permit.held THEN GateAborted(gate[w[1]], worker[w].permit) ELSE gate[w[1]])
  /\ UNCHANGED <<content, embedding, log, dlq, offset, gen, owner, joined, changes, disturbances>>

\* One to BatchSize messages, as many as came within the wait.
Fetch(w) ==
  /\ Doing(w, "fetch")
  /\ \E n \in 1..BatchSize :
       /\ worker[w].next + n <= Len(log[w[2]])
       /\ Set(w, [worker[w] EXCEPT !.pc = "load", !.hi = worker[w].next + n])
  /\ UNCHANGED <<content, embedding, log, dlq, offset, gen, owner, joined, gate, changes, disturbances>>

\* The batch is kept and processed again after a pause.
Held(s) == [s EXCEPT !.pc = "load", !.groups = <<>>, !.items = <<>>, !.try = 1, !.permit = NoPermit]

\* loadPostEmbeddingSource: a deleted Post and an embedding of the same content
\* need nothing.
Needs(message) ==
  /\ message.post # Bad /\ content[message.post] # Gone
  /\ embedding[message.post] # content[message.post]

Ascending(s) == \A i, j \in DOMAIN s : i < j => s[i] < s[j]

\* What is still to be embedded at these places of the log, in their order (the
\* only element).
WorkItems(messages, places) ==
  {[i \in DOMAIN order |-> [post |-> messages[order[i]].post, hash |-> content[messages[order[i]].post]]]
     : order \in {s \in [1..Cardinality(places) -> places] : Ascending(s)}}

\* What does not decode goes to the dead-letter topic; the rest is read now,
\* and used after the provider has answered.
Load(w) ==
  LET s        == worker[w]
      messages == log[w[2]]
      batch    == (s.next + 1)..s.hi
  IN /\ Doing(w, "load")
     /\ dlq' = [dlq EXCEPT ![w[2]] = @ \cup {i \in batch : messages[i].post = Bad}]
     /\ \E items \in WorkItems(messages, {i \in batch : Needs(messages[i])}) :
          Set(w, IF items = <<>> THEN [s EXCEPT !.pc = "commit"] ELSE [s EXCEPT !.pc = "acquire", !.groups = <<items>>])
     /\ UNCHANGED <<content, embedding, log, offset, gen, owner, joined, gate, changes, disturbances>>

Acquire(w) ==
  LET g == gate[w[1]]  after == Acquired(g)
  IN /\ Doing(w, "acquire") /\ MayAcquire(g)
     /\ SetGate(w, after)
     /\ Set(w, [worker[w] EXCEPT !.pc = "call", !.permit = [held |-> TRUE, epoch |-> after.epoch, half |-> after.state = "half"]])
     /\ UNCHANGED <<content, embedding, log, dlq, offset, gen, owner, joined, changes, disturbances>>

\* As many finite vectors of one dimension as texts.
ProviderAnswers(w) ==
  LET s == worker[w]
  IN /\ Doing(w, "call")
     /\ SetGate(w, GateSucceeded(gate[w[1]], s.permit))
     /\ Set(w, [s EXCEPT !.pc = "write", !.items = Head(s.groups), !.groups = Tail(@), !.try = 1, !.permit = NoPermit])
     /\ UNCHANGED <<content, embedding, log, dlq, offset, gen, owner, joined, changes, disturbances>>

\* classifyPostEmbeddingProviderError, classifyPostEmbeddingFailureScope: what is
\* done about a failure, and whether it says anything about the provider.
Decisions(texts) ==
  {[action |-> "retry", shared |-> TRUE], [action |-> "pause", shared |-> TRUE]}
    \cup {[action |-> IF texts > 1 THEN "split" ELSE "pause", shared |-> FALSE]}

Halves(group) ==
  LET middle == Len(group) \div 2
  IN <<SubSeq(group, 1, middle), SubSeq(group, middle + 1, Len(group))>>

\* A short retry, two halves, or the batch is held; a probe is not repeated,
\* and a long Retry-After is not waited for here.
AfterFailure(s, d, final) ==
  CASE d.action = "retry" /\ ~final /\ ~s.permit.half ->
         [s EXCEPT !.pc = "acquire", !.try = @ + 1, !.permit = NoPermit]
    [] d.action = "split" ->
         [s EXCEPT !.pc = "acquire", !.try = 1, !.permit = NoPermit, !.groups = Halves(Head(@)) \o Tail(@)]
    [] OTHER -> Held(s)

ProviderFails(w) ==
  LET s == worker[w]
  IN /\ Doing(w, "call") /\ Disturbance
     /\ \E d \in Decisions(Len(Head(s.groups))), final \in {s.try >= MaxAttempts, TRUE} :
          /\ SetGate(w, GateFailed(gate[w[1]], s.permit, d.shared, d.action # "retry" \/ final))
          /\ Set(w, AfterFailure(s, d, final))
     /\ UNCHANGED <<content, embedding, log, dlq, offset, gen, owner, joined, changes>>

\* The call panics: recovered, and the batch is held.
ProviderPanics(w) ==
  /\ Doing(w, "call") /\ Disturbance
  /\ SetGate(w, GateAborted(gate[w[1]], worker[w].permit))
  /\ Set(w, Held(worker[w]))
  /\ UNCHANGED <<content, embedding, log, dlq, offset, gen, owner, joined, changes>>

\* Mutant: the row is not compared again.
Write_Blind(w) ==
  LET s == worker[w]  item == Head(s.items)
      after == IF Len(s.items) > 1 THEN "write" ELSE IF s.groups # <<>> THEN "acquire" ELSE "commit"
  IN /\ Doing(w, "write")
     /\ embedding' = IF content[item.post] # Gone THEN [embedding EXCEPT ![item.post] = item.hash] ELSE embedding
     /\ Set(w, [s EXCEPT !.pc = after, !.items = Tail(@)])
     /\ UNCHANGED <<content, log, dlq, offset, gen, owner, joined, gate, changes, disturbances>>

\* CommitEmbeddingIfCurrent, item by item, the Post's row locked: the content
\* may have changed since it was read, then the whole batch is done again.
Write(w) ==
  LET s == worker[w]  item == Head(s.items)
      after == IF Len(s.items) > 1 THEN "write" ELSE IF s.groups # <<>> THEN "acquire" ELSE "commit"
      done  == [s EXCEPT !.pc = after, !.items = Tail(@)]
  IN /\ Doing(w, "write")
     /\ \/ /\ content[item.post] = item.hash
           /\ embedding' = [embedding EXCEPT ![item.post] = item.hash]
           /\ Set(w, done)
        \/ /\ content[item.post] = Gone
           /\ Set(w, done) /\ UNCHANGED embedding
        \/ /\ content[item.post] \notin {item.hash, Gone}
           /\ Set(w, Held(s)) /\ UNCHANGED embedding
     /\ UNCHANGED <<content, log, dlq, offset, gen, owner, joined, gate, changes, disturbances>>

\* A read, a write or the dead-letter topic fails more often than it is
\* retried: the batch is held.
StageFails(w) ==
  /\ Doing(w, "load") \/ Doing(w, "write")
  /\ Disturbance
  /\ Set(w, Held(worker[w]))
  /\ UNCHANGED <<content, embedding, log, dlq, offset, gen, owner, joined, gate, changes>>

\* The broker refuses the offsets of an older generation.
Accepted(w) == joined[w[1]] = gen

\* postEmbeddingOffsetCommitCoordinator: one target, until the broker has
\* answered; the answer may be lost.
Commit(w) ==
  LET s == worker[w]
  IN /\ Doing(w, "commit") /\ Accepted(w)
     /\ offset' = [offset EXCEPT ![w[2]] = s.hi]
     /\ \/ Set(w, [s EXCEPT !.pc = "fetch", !.next = s.hi, !.pending = FALSE]) /\ UNCHANGED disturbances
        \/ Disturbance /\ Set(w, [s EXCEPT !.pending = TRUE])
     /\ UNCHANGED <<content, embedding, log, dlq, gen, owner, joined, gate, changes>>

PartitionStep(w) ==
  \/ Abandon(w) \/ Fetch(w) \/ Load(w) \/ Acquire(w) \/ ProviderAnswers(w) \/ Write(w) \/ Commit(w)

EmbeddingNext ==
  \/ \E p \in Volatile : Edit(p) \/ Delete(p)
  \/ \E q \in Partitions : Undecodable(q)
  \/ Requeue \/ Rebalance
  \/ \E m \in Members : Crash(m) \/ Join(m) \/ CoolDown(m)
  \/ \E w \in Workers : PartitionStep(w) \/ ProviderFails(w) \/ ProviderPanics(w) \/ StageFails(w)

EmbeddingSpec == EmbeddingInit /\ [][EmbeddingNext]_embeddingVars

\* Workers and members go on, pauses end, and the permit of the gate is handed
\* to every worker that keeps waiting for it.
EmbeddingFairness ==
  /\ \A m \in Members : WF_embeddingVars(Join(m)) /\ WF_embeddingVars(CoolDown(m))
  /\ \A w \in Workers : WF_embeddingVars(PartitionStep(w)) /\ SF_embeddingVars(Acquire(w))

EmbeddingFairSpec == EmbeddingSpec /\ EmbeddingFairness

-----------------------------------------------------------------------------
(* Properties.                                                             *)

States == {"idle", "fetch", "load", "acquire", "call", "write", "commit"}

EmbeddingTypeOK ==
  /\ content \in [Posts -> Int] /\ embedding \in [Posts -> Nat]
  /\ \A q \in Partitions : offset[q] \in 0..Len(log[q]) /\ dlq[q] \subseteq 1..Len(log[q])
  /\ owner \in [Partitions -> Members] /\ joined \in [Members -> 0..gen]
  /\ \A w \in Workers : worker[w].pc \in States

\* No request is passed over: behind the committed offset of a partition every
\* message is in the dead-letter topic, or its Post was deleted or changed since,
\* or has its embedding; and the embedding of a Post is of its content now.
RequestsAccounted ==
  /\ \A q \in Partitions : \A i \in 1..offset[q] :
       LET message == log[q][i]
       IN IF message.post = Bad THEN i \in dlq[q]
          ELSE content[message.post] = message.at => embedding[message.post] = message.at
  /\ \A p \in Posts : content[p] # Gone => embedding[p] \in {0, content[p]}
  /\ \A q \in Partitions : \A i \in dlq[q] : log[q][i].post = Bad

\* The offsets of the running generation: a worker starts where the broker is,
\* never falls behind it and never has a second target while one is pending.
OffsetsAgree ==
  \A w \in Workers : worker[w].pc # "idle" /\ joined[w[1]] = gen =>
    /\ owner[w[2]] = w[1]
    /\ offset[w[2]] = worker[w].next \/ (worker[w].pending /\ worker[w].pc = "commit" /\ offset[w[2]] = worker[w].hi)

\* The gate counts the requests in flight; while the circuit is open they are of
\* an older epoch, and half open it has a single probe.
GateCounts ==
  \A m \in Members :
    LET g       == gate[m]
        flying  == {w \in Workers : w[1] = m /\ worker[w].permit.held}
        current == {w \in flying : worker[w].permit.epoch = g.epoch}
    IN /\ g.inFlight = Cardinality(flying) /\ g.inFlight <= Limit
       /\ g.state = "open" => current = {}
       /\ g.state = "half" => flying = current /\ Cardinality(current) <= 1
       /\ \A w \in flying : worker[w].permit.half => g.state = "half"

\* The embedding pipeline is safe: see the parts.
EmbeddingSafe == EmbeddingTypeOK /\ RequestsAccounted /\ OffsetsAgree /\ GateCounts

\* Every Post that is not deleted ends up with an embedding of its content.
EmbeddingsCatchUp == <>[](Missing = {})
=============================================================================

------------------------ MODULE LikeBehaviorPipeline ------------------------
(***************************************************************************)
(* The second write-behind path of a Like: who likes what.  Redis keeps    *)
(* one coalesced state per (user, Post) pair; a relay publishes it, and    *)
(* the behaviour projection turns it into post_reaction rows, activity     *)
(* events in the outbox and invalidated recommendation profiles.  Post     *)
(* views travel on the same topic and are counted by the same transaction. *)
(*                                                                         *)
(*   likes/scripts.go, likes/behavior_scripts.go, likes/behavior_store.go  *)
(*   tasks/like_behavior_relay.go, tasks/user_behavior_consumer.go         *)
(*   tasks/kafka_backlog.go, eventing/outbox.go                            *)
(*   controllers/post_view_event_controller.go                             *)
(*                                                                         *)
(* Unlike the snapshot queue, acknowledging a claim deletes the state it   *)
(* delivered, unless the pair has changed since it was read.               *)
(***************************************************************************)
EXTENDS Integers, Sequences, FiniteSets

CONSTANTS
  Users, Posts,   \* identities
  Relays,         \* worker processes running the behaviour relay
  Consumers,      \* projection consumers, old owners of the partition included
  Tokens,         \* claim prefixes (uuids)
  NoToken,        \* absence of a claim
  Batch,          \* LIKE_BEHAVIOR_BATCH_SIZE
  FetchBatch,     \* userBehaviorBatchSize
  MaxVersion,     \* bound: mutations of one Post
  MaxLog,         \* bound: uncommitted messages of the partition
  MaxViews,       \* bound: view requests, retries included
  MaxFaults       \* bound: crashes, failed publishes, stalls, rebalances, in all

ASSUME NoTokenAssumption == NoToken \notin Tokens
ASSUME BoundsAssumption ==
  /\ Batch \in Nat \ {0} /\ FetchBatch \in Nat \ {0}
  /\ MaxVersion \in Nat /\ MaxLog \in Nat /\ MaxViews \in Nat /\ MaxFaults \in Nat

Pairs == Users \X Posts

VARIABLES
  version,     \* post:like:<p>:version
  like,        \* like[q]: SISMEMBER of the user's Like set, with the version of its last change
  past,        \* history: the states like[q] has been through
  bstate,      \* Redis hash pair -> liked|version, NoRow when absent
  bdirty,      \* Redis set of pairs to publish
  claim,       \* Redis hash pair -> claim token
  processing,  \* Redis zset of claimed pairs (the score is the lease deadline)
  round,       \* round[r]: where relay r is in its batch
  log,         \* the partition from the committed offset on
  consumer,    \* consumer[c]: the batch c holds
  inbox,       \* consumer_inbox rows: the event ids already processed
  reaction,    \* post_reaction rows
  activity,    \* activity[q]: the outbox events written for q, in order
  viewCount,   \* posts.view_count
  behavior,    \* post_behaviors.count of action view
  profileDirty,\* users with an invalidated recommendation profile
  views,       \* view requests so far
  faults       \* faults injected so far

redisVars == <<version, like, past, bstate, bdirty, claim, processing>>
sqlVars   == <<inbox, reaction, activity, viewCount, behavior, profileDirty>>
vars == <<redisVars, round, log, consumer, sqlVars, views, faults>>

-----------------------------------------------------------------------------
Row    == [liked : BOOLEAN, version : Nat]
NoRow  == [liked |-> FALSE, version |-> 0]

Message == [kind : {"like", "view"}, pair : Pairs, row : Row]

\* like-state:<user>:<post>:<version>, or the client's id of the view.
EventId(m) == <<m.kind, m.pair, m.row.version>>

IdleRound == [phase |-> "idle", tok |-> NoToken, pend |-> {}, sent |-> [q \in Pairs |-> NoRow]]
RoundState == [phase : {"idle", "claimed", "loaded", "acking", "requeue"},
               tok   : Tokens \cup {NoToken},
               pend  : SUBSET Pairs,
               sent  : [Pairs -> Row]]

IdleConsumer == [phase |-> "idle", batch |-> <<>>, member |-> FALSE]
ConsumerState == [phase  : {"idle", "fetched", "applied"},
                  batch  : Seq(Message),
                  member : BOOLEAN]

Elements(s) == {s[i] : i \in 1..Len(s)}

Settle(s) == IF s.pend = {} THEN IdleRound ELSE s

Occupied(q) == claim[q] # NoToken

Holds(r, q) == round[r].tok # NoToken /\ q \in round[r].pend /\ claim[q] = round[r].tok

Fault == faults < MaxFaults /\ faults' = faults + 1

-----------------------------------------------------------------------------
TypeOK ==
  /\ version \in [Posts -> Nat]
  /\ like \in [Pairs -> Row]
  /\ past \in [Pairs -> SUBSET Row]
  /\ bstate \in [Pairs -> Row]
  /\ bdirty \subseteq Pairs
  /\ claim \in [Pairs -> Tokens \cup {NoToken}]
  /\ processing \subseteq Pairs
  /\ round \in [Relays -> RoundState]
  /\ log \in Seq(Message)
  /\ consumer \in [Consumers -> ConsumerState]
  /\ \A c \in Consumers : Len(consumer[c].batch) <= FetchBatch
  /\ inbox \subseteq {"like", "view"} \X Pairs \X Nat
  /\ reaction \in [Pairs -> Row]
  /\ activity \in [Pairs -> Seq(Row)]
  /\ viewCount \in [Posts -> Nat]
  /\ behavior \in [Pairs -> Nat]
  /\ profileDirty \subseteq Users
  /\ views \in 0..MaxViews
  /\ faults \in 0..MaxFaults

Init ==
  /\ version = [p \in Posts |-> 0]
  /\ like = [q \in Pairs |-> NoRow]
  /\ past = [q \in Pairs |-> {NoRow}]
  /\ bstate = [q \in Pairs |-> NoRow]
  /\ bdirty = {}
  /\ claim = [q \in Pairs |-> NoToken]
  /\ processing = {}
  /\ round = [r \in Relays |-> IdleRound]
  /\ log = <<>>
  /\ consumer = [c \in Consumers |-> IdleConsumer]
  /\ inbox = {}
  /\ reaction = [q \in Pairs |-> NoRow]
  /\ activity = [q \in Pairs |-> <<>>]
  /\ viewCount = [p \in Posts |-> 0]
  /\ behavior = [q \in Pairs |-> 0]
  /\ profileDirty = {}
  /\ views = 0
  /\ faults = 0

-----------------------------------------------------------------------------
(* The application.                                                        *)

\* A Like or unlike that changed the relation (an eviction is an unlike).  A
\* state not yet published is overwritten: the pair coalesces.
Mutate(q) ==
  LET p   == q[2]
      row == [liked |-> ~like[q].liked, version |-> version[p] + 1]
  IN /\ version[p] < MaxVersion
     /\ version' = [version EXCEPT ![p] = @ + 1]
     /\ like' = [like EXCEPT ![q] = row]
     /\ past' = [past EXCEPT ![q] = @ \cup {row}]
     /\ bstate' = [bstate EXCEPT ![q] = row]
     /\ bdirty' = bdirty \cup {q}
     /\ UNCHANGED <<claim, processing, round, log, consumer, sqlVars, views, faults>>

\* The client reports a view under an id of its own; a client that saw no
\* answer sends the same event again.
ViewPost(q) ==
  /\ views < MaxViews
  /\ Len(log) < MaxLog
  /\ log' = Append(log, [kind |-> "view", pair |-> q, row |-> NoRow])
  /\ views' = views + 1
  /\ UNCHANGED <<redisVars, round, consumer, sqlVars, faults>>

-----------------------------------------------------------------------------
(* Behaviour relay.                                                        *)

FreshToken(t) ==
  /\ \A q \in Pairs : claim[q] # t
  /\ \A r \in Relays : round[r].tok # t

\* SPOP up to Batch pairs; the occupied ones among them go back.
Claim(r) ==
  /\ round[r].phase = "idle"
  /\ \E C \in SUBSET bdirty, t \in Tokens :
       LET S == {q \in C : ~Occupied(q)}
       IN /\ Cardinality(C) <= Batch
          /\ Cardinality(C) < Batch => C = bdirty
          /\ S # {}
          /\ FreshToken(t)
          /\ claim' = [q \in Pairs |-> IF q \in S THEN t ELSE claim[q]]
          /\ processing' = processing \cup S
          /\ bdirty' = bdirty \ S
          /\ round' = [round EXCEPT ![r] = [IdleRound EXCEPT !.phase = "claimed", !.tok = t, !.pend = S]]
  /\ UNCHANGED <<version, like, past, bstate, log, consumer, sqlVars, views, faults>>

\* One HMGET.  A pair whose state is gone was acknowledged by somebody else.
LoadBehaviorDeliveries(r) ==
  /\ round[r].phase = "claimed"
  /\ round' = [round EXCEPT ![r] =
       [round[r] EXCEPT !.phase = "loaded",
                        !.sent = [q \in Pairs |-> IF q \in round[r].pend THEN bstate[q] ELSE NoRow]]]
  /\ UNCHANGED <<redisVars, log, consumer, sqlVars, views, faults>>

RequeueClaim(q, t) ==
  IF claim[q] = t
  THEN /\ claim' = [claim EXCEPT ![q] = NoToken]
       /\ processing' = processing \ {q}
       /\ bdirty' = IF bstate[q] # NoRow THEN bdirty \cup {q} ELSE bdirty
  ELSE UNCHANGED <<claim, processing, bdirty>>

\* Give back one claim: a pair without state before publishing, or the whole
\* batch after a failed publish.
Requeue(r) ==
  /\ \E q \in round[r].pend :
       /\ \/ round[r].phase = "loaded" /\ round[r].sent[q] = NoRow
          \/ round[r].phase = "requeue"
       /\ RequeueClaim(q, round[r].tok)
       /\ round' = [round EXCEPT ![r] = Settle([round[r] EXCEPT !.pend = round[r].pend \ {q}])]
  /\ UNCHANGED <<version, like, past, bstate, log, consumer, sqlVars, views, faults>>

\* Redis refuses the requeue; its error is only logged, the lease takes over.
\* Not counted as a fault: it comes at most once after each that is.
RequeueFails(r) ==
  /\ \E q \in round[r].pend :
       /\ \/ round[r].phase = "loaded" /\ round[r].sent[q] = NoRow
          \/ round[r].phase = "requeue"
       /\ round' = [round EXCEPT ![r] = Settle([round[r] EXCEPT !.pend = round[r].pend \ {q}])]
  /\ UNCHANGED <<redisVars, log, consumer, sqlVars, views, faults>>

Loaded(r) ==
  /\ round[r].phase = "loaded"
  /\ \A q \in round[r].pend : round[r].sent[q] # NoRow

\* S reaches the partition, in some order.
Deliver(r, S) ==
  /\ Len(log) + Cardinality(S) <= MaxLog
  /\ \E f \in [1..Cardinality(S) -> S] :
       /\ \A q \in S : \E i \in 1..Cardinality(S) : f[i] = q
       /\ log' = log \o [i \in 1..Cardinality(S) |->
                           [kind |-> "like", pair |-> f[i], row |-> round[r].sent[f[i]]]]

Publish(r) ==
  /\ Loaded(r)
  /\ Deliver(r, round[r].pend)
  /\ round' = [round EXCEPT ![r].phase = "acking"]
  /\ UNCHANGED <<redisVars, consumer, sqlVars, views, faults>>

\* An error says nothing about what was written.
PublishFails(r) ==
  /\ Loaded(r)
  /\ Fault
  /\ \E S \in SUBSET round[r].pend : Deliver(r, S)
  /\ round' = [round EXCEPT ![r].phase = "requeue"]
  /\ UNCHANGED <<redisVars, consumer, sqlVars, views>>

AckDelivery_AnyVersion(q, t, v) ==
  IF claim[q] = t
  THEN /\ claim' = [claim EXCEPT ![q] = NoToken]
       /\ processing' = processing \ {q}
       /\ bstate' = [bstate EXCEPT ![q] = NoRow]
       /\ bdirty' = bdirty \ {q}
  ELSE UNCHANGED <<claim, processing, bstate, bdirty>>

AckDelivery_KeepsState(q, t, v) ==
  IF claim[q] = t
  THEN /\ claim' = [claim EXCEPT ![q] = NoToken]
       /\ processing' = processing \ {q}
       /\ bdirty' = IF bstate[q].version = v THEN bdirty \ {q} ELSE bdirty \cup {q}
       /\ UNCHANGED bstate
  ELSE UNCHANGED <<claim, processing, bstate, bdirty>>

\* behaviorAckScript: the state goes only if it is still the one delivered.
AckDelivery(q, t, v) ==
  IF claim[q] = t
  THEN /\ claim' = [claim EXCEPT ![q] = NoToken]
       /\ processing' = processing \ {q}
       /\ IF bstate[q] = NoRow \/ bstate[q].version = v
          THEN bstate' = [bstate EXCEPT ![q] = NoRow] /\ bdirty' = bdirty \ {q}
          ELSE bdirty' = bdirty \cup {q} /\ UNCHANGED bstate
  ELSE UNCHANGED <<claim, processing, bstate, bdirty>>

Ack(r) ==
  /\ round[r].phase = "acking"
  /\ \E q \in round[r].pend :
       /\ AckDelivery(q, round[r].tok, round[r].sent[q].version)
       /\ round' = [round EXCEPT ![r] = Settle([round[r] EXCEPT !.pend = round[r].pend \ {q}])]
  /\ UNCHANGED <<version, like, past, log, consumer, sqlVars, views, faults>>

\* The process dies, or Redis refuses the acknowledgements: this relay makes
\* no second attempt, the claims wait for their lease to run out.
RelayCrash(r) ==
  /\ round[r].phase # "idle"
  /\ Fault
  /\ round' = [round EXCEPT ![r] = IdleRound]
  /\ UNCHANGED <<redisVars, log, consumer, sqlVars, views>>

ReapScript_Drops(q) ==
  /\ processing' = processing \ {q}
  /\ claim' = [claim EXCEPT ![q] = NoToken]
  /\ UNCHANGED <<bdirty, version, like, past, bstate, round, log, consumer, sqlVars, views>>

\* behaviorReapExpiredScript, for a pair past its deadline.
ReapScript(q) ==
  /\ processing' = processing \ {q}
  /\ claim' = [claim EXCEPT ![q] = NoToken]
  /\ bdirty' = IF Occupied(q) /\ bstate[q] # NoRow THEN bdirty \cup {q} ELSE bdirty
  /\ UNCHANGED <<version, like, past, bstate, round, log, consumer, sqlVars, views>>

ReapAbandoned(q) ==
  /\ q \in processing
  /\ \A r \in Relays : ~Holds(r, q)
  /\ ReapScript(q)
  /\ UNCHANGED faults

\* The owner is alive but slower than LIKE_BEHAVIOR_CLAIM_LEASE.
ReapStalled(q) ==
  /\ q \in processing
  /\ \E r \in Relays : Holds(r, q)
  /\ Fault
  /\ ReapScript(q)

-----------------------------------------------------------------------------
(* Behaviour projection.                                                   *)

\* Up to FetchBatch messages, fewer when the window closes first.
Fetch(c) ==
  /\ consumer[c].phase = "idle"
  /\ \A d \in Consumers : ~consumer[d].member
  /\ \E n \in 1..FetchBatch :
       /\ n <= Len(log)
       /\ consumer' = [consumer EXCEPT ![c] =
            [phase |-> "fetched", batch |-> SubSeq(log, 1, n), member |-> TRUE]]
  /\ UNCHANGED <<redisVars, round, log, sqlVars, views, faults>>

FirstDeliveries_NoInbox(c) == Elements(consumer[c].batch)

\* The records of the batch the inbox has not seen, one per event id.
FirstDeliveries(c) == {m \in Elements(consumer[c].batch) : EventId(m) \notin inbox}

\* The newest state S brings for q, if any.
Collapsed(S, q) ==
  LET rows == {m.row : m \in {n \in S : n.kind = "like" /\ n.pair = q}}
  IN {r \in rows : \A s \in rows : s.version <= r.version}

ViewsOf(S, q) == {m \in S : m.kind = "view" /\ m.pair = q}

Supersedes_Always(row, q) == TRUE

\* post_reaction.reaction_version < EXCLUDED.reaction_version.
Supersedes(row, q) == reaction[q].version < row.version

ApplyRecords_SkipsProfile(c) ==
  LET first   == FirstDeliveries(c)
      rows    == [q \in Pairs |-> {r \in Collapsed(first, q) : Supersedes(r, q)}]
      applied == {q \in Pairs : rows[q] # {}}
      new(q)  == CHOOSE r \in rows[q] : TRUE
  IN /\ consumer[c].phase = "fetched"
     /\ inbox' = inbox \cup {EventId(m) : m \in first}
     /\ behavior' = [q \in Pairs |-> behavior[q] + Cardinality(ViewsOf(first, q))]
     /\ viewCount' = [p \in Posts |->
          viewCount[p] + Cardinality({m \in first : m.kind = "view" /\ m.pair[2] = p})]
     /\ reaction' = [q \in Pairs |-> IF q \in applied THEN new(q) ELSE reaction[q]]
     /\ activity' = [q \in Pairs |-> IF q \in applied THEN Append(activity[q], new(q)) ELSE activity[q]]
     /\ consumer' = [consumer EXCEPT ![c].phase = "applied"]
     /\ UNCHANGED <<profileDirty, redisVars, round, log, views, faults>>

\* One transaction: inbox rows, view counters, reaction rows, the activities of
\* the reactions that were applied, profile invalidation.
ApplyRecords(c) ==
  LET first   == FirstDeliveries(c)
      rows    == [q \in Pairs |-> {r \in Collapsed(first, q) : Supersedes(r, q)}]
      applied == {q \in Pairs : rows[q] # {}}
      new(q)  == CHOOSE r \in rows[q] : TRUE
  IN /\ consumer[c].phase = "fetched"
     /\ inbox' = inbox \cup {EventId(m) : m \in first}
     /\ behavior' = [q \in Pairs |-> behavior[q] + Cardinality(ViewsOf(first, q))]
     /\ viewCount' = [p \in Posts |->
          viewCount[p] + Cardinality({m \in first : m.kind = "view" /\ m.pair[2] = p})]
     /\ reaction' = [q \in Pairs |-> IF q \in applied THEN new(q) ELSE reaction[q]]
     /\ activity' = [q \in Pairs |-> IF q \in applied THEN Append(activity[q], new(q)) ELSE activity[q]]
     /\ profileDirty' = profileDirty \cup {m.pair[1] : m \in first}
     /\ consumer' = [consumer EXCEPT ![c].phase = "applied"]
     /\ UNCHANGED <<redisVars, round, log, views, faults>>

Commit(c) ==
  /\ consumer[c].phase = "applied"
  /\ log' = IF consumer[c].member
            THEN SubSeq(log, Len(consumer[c].batch) + 1, Len(log)) ELSE log
  /\ consumer' = [consumer EXCEPT ![c] = IdleConsumer]
  /\ UNCHANGED <<redisVars, round, sqlVars, views, faults>>

\* Retries exhausted, commit refused, process gone: a new reader starts from
\* the committed offset.
ConsumerCrash(c) ==
  /\ consumer[c].phase # "idle"
  /\ Fault
  /\ consumer' = [consumer EXCEPT ![c] = IdleConsumer]
  /\ UNCHANGED <<redisVars, round, log, sqlVars, views>>

\* The coordinator gives the partition to somebody else.
Rebalance(c) ==
  /\ consumer[c].member
  /\ Fault
  /\ consumer' = [consumer EXCEPT ![c].member = FALSE]
  /\ UNCHANGED <<redisVars, round, log, sqlVars, views>>

-----------------------------------------------------------------------------
RelayNext(r) ==
  \/ Claim(r) \/ LoadBehaviorDeliveries(r) \/ Requeue(r) \/ Publish(r) \/ PublishFails(r)
  \/ RequeueFails(r) \/ Ack(r) \/ RelayCrash(r)

ConsumerNext(c) == Fetch(c) \/ ApplyRecords(c) \/ Commit(c) \/ ConsumerCrash(c) \/ Rebalance(c)

PairNext(q) == Mutate(q) \/ ViewPost(q) \/ ReapAbandoned(q) \/ ReapStalled(q)

Next ==
  \/ \E r \in Relays : RelayNext(r)
  \/ \E c \in Consumers : ConsumerNext(c)
  \/ \E q \in Pairs : PairNext(q)

Spec == Init /\ [][Next]_vars

\* The relay runs on a ticker and reaps at the start of every batch; consumers
\* loop on a blocking fetch.  Faults and user requests are not fair.
Fairness ==
  /\ \A r \in Relays :
       WF_vars(Claim(r) \/ LoadBehaviorDeliveries(r) \/ Requeue(r) \/ Publish(r) \/ Ack(r))
  /\ \A q \in Pairs : WF_vars(ReapAbandoned(q))
  /\ \A c \in Consumers : WF_vars(Fetch(c) \/ ApplyRecords(c) \/ Commit(c))

FairSpec == Spec /\ Fairness

-----------------------------------------------------------------------------
(* Properties.                                                             *)

\* While post_reaction is behind Redis for a pair, the newest state of the pair
\* is still in the behaviour hash with its pair queued or claimed, or it is in
\* the topic.  An acknowledgement never deletes a change made after the read.
NoLostBehavior ==
  \A q \in Pairs : reaction[q].version < like[q].version =>
    \/ bstate[q] = like[q] /\ (q \in bdirty \/ Occupied(q))
    \/ [kind |-> "like", pair |-> q, row |-> like[q]] \in Elements(log)

\* The state is well formed, and a pair state without a queue entry or a claim
\* would never be published again and never be deleted; a claim without a
\* lease would never be reaped.
StatesAreQueued ==
  /\ TypeOK
  /\ \A q \in Pairs : bstate[q] # NoRow => q \in bdirty \/ Occupied(q)
  /\ processing = {q \in Pairs : Occupied(q)}

\* Each reaction row that was written has exactly one activity event, in
\* version order, and the newest activity says what the row says: no
\* redelivery, stale owner or duplicate in a batch notifies twice.
ActivitiesMatchReactions ==
  \A q \in Pairs :
    LET a == activity[q]
    IN /\ \A i, j \in 1..Len(a) : i < j => a[i].version < a[j].version
       /\ reaction[q] = IF a = <<>> THEN NoRow ELSE a[Len(a)]

\* A view event counts once per event id, however often the client, the
\* broker or a stale consumer repeats it.
ViewsCountOnce ==
  /\ \A q \in Pairs : behavior[q] = IF <<"view", q, 0>> \in inbox THEN 1 ELSE 0
  /\ \A p \in Posts : viewCount[p] = Cardinality({u \in Users : <<"view", <<u, p>>, 0>> \in inbox})

\* Nothing the user said is dropped on its way, and nothing lies in Redis without
\* somebody to move it.
BehaviorQueued == NoLostBehavior /\ StatesAreQueued

\* What a consumer applies, it applies once: rows, activities and counters agree
\* however often an event is delivered.
ProjectedOnce == ActivitiesMatchReactions /\ ViewsCountOnce

\* A reaction row only moves forward, to a state the pair really had.
ReactionsMoveForward ==
  [][\A q \in Pairs : reaction'[q] # reaction[q] =>
       /\ reaction'[q].version > reaction[q].version
       /\ reaction'[q] \in past[q]
       /\ q[1] \in profileDirty']_vars

\* Once users stop, post_reaction agrees with Redis and the behaviour hash is
\* empty: coalesced states are not kept after delivery and the hash does not
\* grow with the number of pairs ever used.
ReactionsConverge ==
  \A q \in Pairs : <>[](/\ reaction[q].liked = like[q].liked /\ reaction[q].version = like[q].version
                        /\ bstate[q] = NoRow /\ ~Occupied(q))

=============================================================================

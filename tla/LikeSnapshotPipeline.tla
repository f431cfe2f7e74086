------------------------ MODULE LikeSnapshotPipeline ------------------------
(***************************************************************************)
(* The write-behind path of Post Like counts: Redis aggregate -> dirty set *)
(* -> leased claim -> Kafka -> inbox -> posts.like_count.                  *)
(*                                                                         *)
(*   likes/scripts.go, likes/store.go, likes/snapshot_batch.go   (Redis)   *)
(*   tasks/like_snapshot_relay.go                                (relays)  *)
(*   tasks/like_snapshot_consumer.go, eventing/outbox.go         (SQL)     *)
(*   tasks/post_like_cleanup.go, controllers/post_delete.go      (delete)  *)
(*                                                                         *)
(* One Redis script is one step.  A relay round is many steps and may die  *)
(* between any two; a publish that fails may still have written any part   *)
(* of its batch; a consumer may lose its partition and carry on with the   *)
(* message it already holds.                                               *)
(***************************************************************************)
EXTENDS Integers, Sequences, FiniteSets

CONSTANTS
  Posts,        \* Post identities; each is the key, hence the order, of its messages
  Relays,       \* worker processes running the snapshot relay
  Consumers,    \* projection consumers, old owners of a partition included
  Tokens,       \* claim prefixes (uuids) of the ClaimDirty calls
  NoToken,      \* absence of a claim
  Batch,        \* LIKE_SNAPSHOT_BATCH_SIZE
  MaxVersion,   \* bound: mutations of one Post
  MaxQueue,     \* bound: uncommitted messages of one Post
  MaxFaults     \* bound: crashes, failed publishes, stalls, rebalances, in all

ASSUME NoTokenAssumption == NoToken \notin Tokens
ASSUME BoundsAssumption ==
  /\ Batch \in Nat \ {0}
  /\ MaxVersion \in Nat /\ MaxQueue \in Nat /\ MaxFaults \in Nat

VARIABLES
  ready,        \* post:like:<p>:ready: "1", "deleted" or "none"
  agg,          \* post:like:<p>:count and :version
  past,         \* history: the states agg[p] has been through
  dirty,        \* Redis set of Posts to publish
  claim,        \* Redis hash Post -> claim token
  processing,   \* Redis zset of claimed Posts (the score is the lease deadline)
  relay,        \* relay[r]: where r is in its round
  topic,        \* topic[p]: the messages of p from the committed offset on
  consumer,     \* consumer[c]: the message c holds
  inbox,        \* consumer_inbox rows: the event ids already processed
  view,         \* posts.like_count and posts.like_sync_version
  sqlDeleted,   \* posts.deleted_at is set
  cleanup,      \* cleanup[p]: the post_like_cleanups row and how far its worker is
  faults        \* faults injected so far

redisVars == <<ready, agg, past, dirty, claim, processing>>
sqlVars   == <<inbox, view, sqlDeleted>>
vars == <<redisVars, relay, topic, consumer, sqlVars, cleanup, faults>>

-----------------------------------------------------------------------------
NoLikes   == [count |-> 0, version |-> 0]
State     == [count : Nat, version : Nat]

\* A relay round: pend are the claims still to publish or acknowledge, retry
\* those still to give back.
IdleRelay == [phase |-> "idle", tok |-> NoToken, pend |-> {}, retry |-> {},
              snap |-> [p \in Posts |-> NoLikes]]
RelayState == [phase : {"idle", "claimed", "loaded", "acking"},
               tok   : Tokens \cup {NoToken},
               pend  : SUBSET Posts,
               retry : SUBSET Posts,
               snap  : [Posts -> State]]

\* member: the group coordinator still counts the consumer as p's owner.
IdleConsumer == [phase |-> "idle", post |-> NoToken, msg |-> NoLikes, member |-> FALSE]
ConsumerState == [phase  : {"idle", "fetched", "applied"},
                  post   : Posts \cup {NoToken},
                  msg    : State,
                  member : BOOLEAN]

Elements(s) == {s[i] : i \in 1..Len(s)}

\* A relay that has finished its batch is idle again.
Settle(s) == IF s.pend = {} /\ s.retry = {} THEN IdleRelay ELSE s

Holds(r, p) == relay[r].tok # NoToken /\ p \in relay[r].pend \cup relay[r].retry

Fault == faults < MaxFaults /\ faults' = faults + 1

-----------------------------------------------------------------------------
TypeOK ==
  /\ ready \in [Posts -> {"1", "deleted", "none"}]
  /\ agg \in [Posts -> State]
  /\ past \in [Posts -> SUBSET State]
  /\ dirty \subseteq Posts
  /\ claim \in [Posts -> Tokens \cup {NoToken}]
  /\ processing \subseteq Posts
  /\ relay \in [Relays -> RelayState]
  /\ topic \in [Posts -> Seq(State)]
  /\ consumer \in [Consumers -> ConsumerState]
  /\ \A c \in Consumers : consumer[c].phase # "idle" => consumer[c].post \in Posts
  /\ inbox \subseteq Posts \X Nat
  /\ view \in [Posts -> State]
  /\ sqlDeleted \subseteq Posts
  /\ cleanup \in [Posts -> {"none", "due", "marked", "purged", "done"}]
  /\ faults \in 0..MaxFaults

Init ==
  /\ ready = [p \in Posts |-> "1"]
  /\ agg = [p \in Posts |-> NoLikes]
  /\ past = [p \in Posts |-> {NoLikes}]
  /\ dirty = {}
  /\ claim = [p \in Posts |-> NoToken]
  /\ processing = {}
  /\ relay = [r \in Relays |-> IdleRelay]
  /\ topic = [p \in Posts |-> <<>>]
  /\ consumer = [c \in Consumers |-> IdleConsumer]
  /\ inbox = {}
  /\ view = [p \in Posts |-> NoLikes]
  /\ sqlDeleted = {}
  /\ cleanup = [p \in Posts |-> "none"]
  /\ faults = 0

-----------------------------------------------------------------------------
(* The application: a Like or unlike that changed the relation.  Count,    *)
(* version and dirty mark change in one script.                            *)
Mutate_NoFloor(p) ==
  /\ ready[p] = "1"
  /\ agg[p].version < MaxVersion
  /\ \E d \in {-1, 1} :
       agg' = [agg EXCEPT ![p] = [count |-> @.count + d, version |-> @.version + 1]]
  /\ past' = [past EXCEPT ![p] = @ \cup {agg'[p]}]
  /\ dirty' = dirty \cup {p}
  /\ UNCHANGED <<ready, claim, processing, relay, topic, consumer, sqlVars, cleanup, faults>>

Mutate(p) ==
  /\ ready[p] = "1"
  /\ agg[p].version < MaxVersion
  /\ \E d \in {-1, 1} :
       /\ agg[p].count + d >= 0
       /\ agg' = [agg EXCEPT ![p] = [count |-> @.count + d, version |-> @.version + 1]]
  /\ past' = [past EXCEPT ![p] = @ \cup {agg'[p]}]
  /\ dirty' = dirty \cup {p}
  /\ UNCHANGED <<ready, claim, processing, relay, topic, consumer, sqlVars, cleanup, faults>>

-----------------------------------------------------------------------------
(* Snapshot relay.                                                         *)

Occupied(p) == claim[p] # NoToken

\* A uuid no claim and no other round is using.
FreshToken(t) ==
  /\ \A p \in Posts : claim[p] # t
  /\ \A r \in Relays : relay[r].tok # t

\* SRANDMEMBER: a sample of at most four batches; its unclaimed Posts, up to
\* a batch of them, are claimed, and occupied ones stay dirty.
Sample(C) ==
  /\ C \subseteq dirty
  /\ Cardinality(C) <= 4 * Batch
  /\ Cardinality(C) < 4 * Batch => C = dirty

Claim(r) ==
  /\ relay[r].phase = "idle"
  /\ \E C \in SUBSET dirty : \E S \in SUBSET C, t \in Tokens :
       /\ Sample(C)
       /\ S # {}
       /\ \A p \in S : ~Occupied(p)
       /\ Cardinality(S) <= Batch
       /\ Cardinality(S) < Batch => \A p \in C \ S : Occupied(p)
       /\ FreshToken(t)
       /\ claim' = [p \in Posts |-> IF p \in S THEN t ELSE claim[p]]
       /\ processing' = processing \cup S
       /\ dirty' = dirty \ S
       /\ relay' = [relay EXCEPT ![r] = [IdleRelay EXCEPT !.phase = "claimed", !.tok = t, !.pend = S]]
  /\ UNCHANGED <<ready, agg, past, topic, consumer, sqlVars, cleanup, faults>>

\* One MGET; a Post that is deleted or not ready goes to the retry list and
\* does not stop its neighbours.
LoadSnapshots(r) ==
  /\ relay[r].phase = "claimed"
  /\ LET good == {p \in relay[r].pend : ready[p] = "1"}
     IN relay' = [relay EXCEPT ![r] =
          [relay[r] EXCEPT !.phase = "loaded", !.pend = good, !.retry = relay[r].pend \ good,
                           !.snap = [p \in Posts |-> IF p \in good THEN agg[p] ELSE NoLikes]]]
  /\ UNCHANGED <<redisVars, topic, consumer, sqlVars, cleanup, faults>>

RequeueClaim_NoOwnerCheck(p, t) ==
  /\ claim' = [claim EXCEPT ![p] = NoToken]
  /\ processing' = processing \ {p}
  /\ dirty' = dirty \cup {p}

RequeueClaim(p, t) ==
  IF claim[p] = t
  THEN /\ claim' = [claim EXCEPT ![p] = NoToken]
       /\ processing' = processing \ {p}
       /\ dirty' = dirty \cup {p}
  ELSE UNCHANGED <<claim, processing, dirty>>

AckClaim_ClearsDirty(p, t) ==
  IF claim[p] = t
  THEN /\ claim' = [claim EXCEPT ![p] = NoToken]
       /\ processing' = processing \ {p}
       /\ dirty' = dirty \ {p}
  ELSE UNCHANGED <<claim, processing, dirty>>

AckClaim_KeepsLease(p, t) ==
  IF claim[p] = t
  THEN /\ claim' = [claim EXCEPT ![p] = NoToken]
       /\ UNCHANGED <<processing, dirty>>
  ELSE UNCHANGED <<claim, processing, dirty>>

AckClaim(p, t) ==
  IF claim[p] = t
  THEN /\ claim' = [claim EXCEPT ![p] = NoToken]
       /\ processing' = processing \ {p}
       /\ UNCHANGED dirty
  ELSE UNCHANGED <<claim, processing, dirty>>

Requeue(r) ==
  /\ relay[r].phase \in {"loaded", "acking"}
  /\ relay[r].phase = "acking" => relay[r].pend = {}
  /\ \E p \in relay[r].retry :
       /\ RequeueClaim(p, relay[r].tok)
       /\ relay' = [relay EXCEPT ![r] = Settle([relay[r] EXCEPT !.retry = relay[r].retry \ {p}])]
  /\ UNCHANGED <<ready, agg, past, topic, consumer, sqlVars, cleanup, faults>>

\* The messages of the Posts in W reach the broker.
Deliver(r, W) ==
  topic' = [p \in Posts |-> IF p \in W THEN Append(topic[p], relay[r].snap[p]) ELSE topic[p]]

RoomFor(W) == \A p \in W : Len(topic[p]) < MaxQueue

Publish(r) ==
  /\ relay[r].phase = "loaded" /\ relay[r].retry = {} /\ relay[r].pend # {}
  /\ RoomFor(relay[r].pend)
  /\ Deliver(r, relay[r].pend)
  /\ relay' = [relay EXCEPT ![r].phase = "acking"]
  /\ UNCHANGED <<redisVars, consumer, sqlVars, cleanup, faults>>

\* An error says nothing about what was written; all claims are given back.
PublishFails(r) ==
  /\ relay[r].phase = "loaded" /\ relay[r].retry = {} /\ relay[r].pend # {}
  /\ Fault
  /\ \E W \in SUBSET relay[r].pend : RoomFor(W) /\ Deliver(r, W)
  /\ relay' = [relay EXCEPT ![r] = [relay[r] EXCEPT !.retry = relay[r].pend, !.pend = {}]]
  /\ UNCHANGED <<redisVars, consumer, sqlVars, cleanup>>

Ack(r) ==
  /\ relay[r].phase = "acking"
  /\ \E p \in relay[r].pend :
       /\ AckClaim(p, relay[r].tok)
       /\ relay' = [relay EXCEPT ![r] = Settle([relay[r] EXCEPT !.pend = relay[r].pend \ {p}])]
  /\ UNCHANGED <<ready, agg, past, topic, consumer, sqlVars, cleanup, faults>>

\* An acknowledgement that errs is followed by the round's deferred requeue.
AckFails(r) ==
  /\ relay[r].phase = "acking"
  /\ Fault
  /\ \E p \in relay[r].pend :
       relay' = [relay EXCEPT ![r] = [relay[r] EXCEPT !.pend = relay[r].pend \ {p},
                                               !.retry = relay[r].retry \cup {p}]]
  /\ UNCHANGED <<redisVars, topic, consumer, sqlVars, cleanup>>

\* The process dies, or its round is cut off and cannot even give claims back.
RelayCrash(r) ==
  /\ relay[r].phase # "idle"
  /\ Fault
  /\ relay' = [relay EXCEPT ![r] = IdleRelay]
  /\ UNCHANGED <<redisVars, topic, consumer, sqlVars, cleanup>>

ReapScript_Drops(p) ==
  /\ processing' = processing \ {p}
  /\ claim' = [claim EXCEPT ![p] = NoToken]
  /\ UNCHANGED <<dirty, ready, agg, past, relay, topic, consumer, sqlVars, cleanup>>

\* reapExpiredScript: the entry of p is past its deadline.
ReapScript(p) ==
  /\ processing' = processing \ {p}
  /\ IF Occupied(p)
     THEN claim' = [claim EXCEPT ![p] = NoToken] /\ dirty' = dirty \cup {p}
     ELSE UNCHANGED <<claim, dirty>>
  /\ UNCHANGED <<ready, agg, past, relay, topic, consumer, sqlVars, cleanup>>

\* The owner is gone and its lease has run out.
ReapAbandoned(p) ==
  /\ p \in processing
  /\ \A r \in Relays : ~(Holds(r, p) /\ relay[r].tok = claim[p])
  /\ ReapScript(p)
  /\ UNCHANGED faults

\* The owner is alive but slower than its lease: a stall, counted as a fault
\* because LikeSnapshotRoundTimeout is at most half the lease.
ReapStalled(p) ==
  /\ p \in processing
  /\ \E r \in Relays : Holds(r, p) /\ relay[r].tok = claim[p]
  /\ Fault
  /\ ReapScript(p)

-----------------------------------------------------------------------------
(* Projection consumer.                                                    *)

Fetch(c, p) ==
  /\ consumer[c].phase = "idle"
  /\ topic[p] # <<>>
  /\ \A d \in Consumers : ~(consumer[d].post = p /\ consumer[d].member)
  /\ consumer' = [consumer EXCEPT ![c] =
       [phase |-> "fetched", post |-> p, msg |-> Head(topic[p]), member |-> TRUE]]
  /\ UNCHANGED <<redisVars, relay, topic, sqlVars, cleanup, faults>>

ApplySnapshot_NoVersionGate(c) ==
  LET p == consumer[c].post
      m == consumer[c].msg
      first == <<p, m.version>> \notin inbox
  IN /\ consumer[c].phase = "fetched"
     /\ inbox' = inbox \cup {<<p, m.version>>}
     /\ view' = IF first /\ p \notin sqlDeleted THEN [view EXCEPT ![p] = m] ELSE view
     /\ consumer' = [consumer EXCEPT ![c].phase = "applied"]
     /\ UNCHANGED <<redisVars, relay, topic, sqlDeleted, cleanup, faults>>

\* One transaction: inbox row, then the version-gated update of a live row.
ApplySnapshot(c) ==
  LET p == consumer[c].post
      m == consumer[c].msg
      first == <<p, m.version>> \notin inbox
  IN /\ consumer[c].phase = "fetched"
     /\ inbox' = inbox \cup {<<p, m.version>>}
     /\ view' = IF first /\ p \notin sqlDeleted /\ view[p].version < m.version
                THEN [view EXCEPT ![p] = m] ELSE view
     /\ consumer' = [consumer EXCEPT ![c].phase = "applied"]
     /\ UNCHANGED <<redisVars, relay, topic, sqlDeleted, cleanup, faults>>

\* The broker takes the offset from the partition's owner only; either way
\* the consumer goes on to the next message.
Commit(c) ==
  /\ consumer[c].phase = "applied"
  /\ topic' = IF consumer[c].member
              THEN [topic EXCEPT ![consumer[c].post] = Tail(@)] ELSE topic
  /\ consumer' = [consumer EXCEPT ![c] = IdleConsumer]
  /\ UNCHANGED <<redisVars, relay, sqlVars, cleanup, faults>>

\* Retries exhausted, commit refused, process gone: the reader is closed and
\* a new one starts from the committed offset.
ConsumerCrash(c) ==
  /\ consumer[c].phase # "idle"
  /\ Fault
  /\ consumer' = [consumer EXCEPT ![c] = IdleConsumer]
  /\ UNCHANGED <<redisVars, relay, topic, sqlVars, cleanup>>

\* The coordinator gives the partition to somebody else.
Rebalance(c) ==
  /\ consumer[c].member
  /\ Fault
  /\ consumer' = [consumer EXCEPT ![c].member = FALSE]
  /\ UNCHANGED <<redisVars, relay, topic, sqlVars, cleanup>>

-----------------------------------------------------------------------------
(* Deletion: SQL first, then the durable cleanup row drives DeletePost.    *)

DeletePost(p) ==
  /\ p \notin sqlDeleted
  /\ sqlDeleted' = sqlDeleted \cup {p}
  /\ cleanup' = [cleanup EXCEPT ![p] = "due"]
  /\ UNCHANGED <<redisVars, relay, topic, consumer, inbox, view, faults>>

MarkPostDeleted(p) ==
  /\ cleanup[p] = "due"
  /\ ready' = [ready EXCEPT ![p] = "deleted"]
  /\ cleanup' = [cleanup EXCEPT ![p] = "marked"]
  /\ UNCHANGED <<agg, past, dirty, claim, processing, relay, topic, consumer, sqlVars, faults>>

PurgePost(p) ==
  /\ cleanup[p] = "marked"
  /\ ready' = IF ready[p] = "deleted" THEN ready ELSE [ready EXCEPT ![p] = "none"]
  /\ agg' = [agg EXCEPT ![p] = NoLikes]
  /\ dirty' = dirty \ {p}
  /\ processing' = processing \ {p}
  /\ claim' = [claim EXCEPT ![p] = NoToken]
  /\ cleanup' = [cleanup EXCEPT ![p] = "purged"]
  /\ UNCHANGED <<past, relay, topic, consumer, sqlVars, faults>>

AckCleanup(p) ==
  /\ cleanup[p] = "purged"
  /\ cleanup' = [cleanup EXCEPT ![p] = "done"]
  /\ UNCHANGED <<redisVars, relay, topic, consumer, sqlVars, faults>>

CleanupFails_LosesRow(p) ==
  /\ cleanup[p] \in {"marked", "purged"}
  /\ Fault
  /\ cleanup' = [cleanup EXCEPT ![p] = "none"]
  /\ UNCHANGED <<redisVars, relay, topic, consumer, sqlVars>>

\* The pass fails between two steps; the row stays due.
CleanupFails(p) ==
  /\ cleanup[p] \in {"marked", "purged"}
  /\ Fault
  /\ cleanup' = [cleanup EXCEPT ![p] = "due"]
  /\ UNCHANGED <<redisVars, relay, topic, consumer, sqlVars>>

\* The purge gave the deletion fence a TTL and it has run out.
TombstoneExpires(p) ==
  /\ ready[p] = "deleted"
  /\ cleanup[p] \in {"purged", "done"}
  /\ ready' = [ready EXCEPT ![p] = "none"]
  /\ UNCHANGED <<agg, past, dirty, claim, processing, relay, topic, consumer, sqlVars, cleanup, faults>>

-----------------------------------------------------------------------------
RelayNext(r) ==
  \/ Claim(r) \/ LoadSnapshots(r) \/ Requeue(r) \/ Publish(r) \/ PublishFails(r)
  \/ Ack(r) \/ AckFails(r) \/ RelayCrash(r)

ConsumerNext(c) ==
  \/ \E p \in Posts : Fetch(c, p)
  \/ ApplySnapshot(c) \/ Commit(c) \/ ConsumerCrash(c) \/ Rebalance(c)

PostNext(p) ==
  \/ Mutate(p) \/ ReapAbandoned(p) \/ ReapStalled(p)
  \/ DeletePost(p) \/ MarkPostDeleted(p) \/ PurgePost(p) \/ AckCleanup(p)
  \/ CleanupFails(p) \/ TombstoneExpires(p)

Next ==
  \/ \E r \in Relays : RelayNext(r)
  \/ \E c \in Consumers : ConsumerNext(c)
  \/ \E p \in Posts : PostNext(p)

Spec == Init /\ [][Next]_vars

\* Relays and consumers loop for ever on a ticker or a blocking fetch, expired
\* leases are reaped at the start of every round, and the cleanup worker
\* retries its row every few seconds.  Faults and user requests are not fair.
Fairness ==
  /\ \A r \in Relays : WF_vars(Claim(r) \/ LoadSnapshots(r) \/ Requeue(r) \/ Publish(r) \/ Ack(r))
  /\ \A p \in Posts : WF_vars(ReapAbandoned(p))
  /\ \A c \in Consumers : WF_vars((\E p \in Posts : Fetch(c, p)) \/ ApplySnapshot(c) \/ Commit(c))
  /\ \A p \in Posts : WF_vars(MarkPostDeleted(p) \/ PurgePost(p) \/ AckCleanup(p))

FairSpec == Spec /\ Fairness

-----------------------------------------------------------------------------
(* Properties.                                                             *)

\* While a live Post's SQL row is behind Redis, the newest state is still on
\* its way: marked dirty, claimed by some round (even a dead one), or in the
\* topic.  No interleaving of mutation, claim, lease expiry, failed publish
\* and stale acknowledgement drops the last change of a Post.
NoLostSnapshot ==
  \A p \in Posts :
    ready[p] = "1" /\ p \notin sqlDeleted /\ view[p].version < agg[p].version
      => p \in dirty \/ Occupied(p) \/ agg[p] \in Elements(topic[p])

\* Every claim has a lease and every lease a claim.  A claim outside the
\* processing set would never be reaped and would block its Post for ever.
ClaimsAreLeased == processing = {p \in Posts : Occupied(p)}

\* What purgePostScript removed stays removed, whatever a round that claimed
\* the Post before the deletion still does with its claim.
PurgedStaysClean ==
  \A p \in Posts : cleanup[p] \in {"purged", "done"}
    => ready[p] # "1" /\ p \notin dirty \cup processing /\ ~Occupied(p)

\* The pipeline implements the projection of LikeProjection: SQL only ever
\* moves forward, to a state Redis really had, and not after the deletion.
Projection == INSTANCE LikeProjection WITH frozen <- sqlDeleted
ImplementsProjection == Projection!Spec

\* Once the mutations stop, SQL catches up with Redis for every Post that is
\* not deleted, despite crashes, duplicates and stale owners.
Converges ==
  \A p \in Posts : <>[](p \in sqlDeleted \/ view[p] = agg[p])

\* A deletion reaches Redis and is never left half done.
DeletionCompletes ==
  \A p \in Posts : p \in sqlDeleted ~> (cleanup[p] = "done" /\ ready[p] # "1" /\ p \notin dirty)

=============================================================================

-------------------------- MODULE EventProjections --------------------------
(***************************************************************************)
(* The two Kafka consumers that build projections from domain events: the  *)
(* notification consumer (activity events) and the recommendation metrics  *)
(* consumer (impressions, clicks, reads).  Both fetch a batch, send what   *)
(* cannot be decoded to the dead-letter topic, apply the rest in one SQL   *)
(* transaction guarded by the Inbox, isolate a foreign-key failure by      *)
(* halving the batch, and only then commit the offset.                     *)
(*                                                                         *)
(*   tasks/kafka_backlog.go, kafka_recovery.go, kafka_foreign_key_recovery.go *)
(*   tasks/notification_consumer.go, recommendation_metrics_consumer.go    *)
(*   eventing/events.go, kafka.go, outbox.go, dead_letter.go               *)
(*                                                                         *)
(* The consumers do not share state: a behaviour is about one of them, on  *)
(* one partition.                                                          *)
(***************************************************************************)
EXTENDS Integers, Sequences, FiniteSets, FiniteSetsExt

CONSTANTS
  Pipelines,    \* subset of {"notification", "metrics"}
  Consumers,    \* members of the consumer group
  Events,       \* what producers may emit, see EventShape
  Keys,         \* dedupe keys of notifications, or opportunities <<user, request, post>>
  Parents,      \* user and Post rows that foreign keys refer to
  MaxDay, BatchSize, MaxAttempts,
  MaxLog,       \* bound: messages in the topic
  MaxFaults     \* bound: failures, crashes and rebalances, in all

Days == 1..MaxDay

ASSUME ConsumersAssumption == Consumers # {}

ASSUME BoundsAssumption ==
  /\ MaxDay \in Nat \ {0} /\ BatchSize \in Nat \ {0} /\ MaxAttempts \in Nat \ {0}
  /\ MaxLog \in Nat /\ MaxFaults \in Nat

\* An envelope as the topic carries it: flaw is what a decoder would object to,
\* kind the effect of its type (a "silent" activity is valid and has none: an
\* unlike, an activity of one's own).
ActivityKinds == {"notify", "silent"}
FeedbackKinds == {"impression", "click", "dwell"}

EventShape(e) ==
  /\ e.pipe \in Pipelines /\ e.flaw \in {"none", "envelope", "payload"}
  /\ e.kind \in ActivityKinds \cup FeedbackKinds \cup {"unknown"}
  /\ e.key \in Keys /\ e.parent \in Parents /\ e.version \in Nat /\ e.day \in Days

\* An event id belongs to one event: every delivery of it carries the same envelope.
ASSUME EventsAssumption ==
  /\ \A e \in Events : EventShape(e)
  /\ \A e, f \in Events : e.id = f.id => e = f

VARIABLES
  pipeline,     \* which of the two consumers this behaviour is about
  log,          \* the source topic
  offset,       \* the committed offset of the group
  owner,        \* the member the partition is assigned to
  cons,         \* cons[c]: the reader and the batch in hand
  parents,      \* the parent rows that exist
  inbox,        \* consumer_inbox: ids of processed events
  dlq,          \* the dead-letter topic: [pos, event, code]
  notification, \* notifications, by dedupe key: [version, read]
  readUpTo,     \* history: the version the recipient has marked as read
  claim,        \* recommendation_ctr_claims: [imp, clk], 0 for no claim
  metric,       \* recommendation_daily_metrics: [imp, clk] by day
  faults

cvars == <<pipeline, log, offset, owner, cons, parents, inbox, dlq, notification,
           readUpTo, claim, metric, faults>>

tables == <<inbox, notification, claim, metric>>

NoNotification == [version |-> -1, read |-> FALSE]
Zero == [imp |-> 0, clk |-> 0]

\* A new reader starts from the committed offset.  A batch is the set of its places in
\* the topic, and so are its parts: the batch order is the order of the numbers.
Reader(o) == [phase |-> "idle", next |-> o, batch |-> {}, bad |-> {}, todo |-> <<>>,
              terminal |-> {}, attempts |-> 0, again |-> FALSE, seen |-> {}]

CInit ==
  /\ pipeline \in Pipelines
  /\ log = <<>> /\ offset = 0
  /\ owner = CHOOSE c \in Consumers : TRUE
  /\ cons = [c \in Consumers |-> Reader(0)]
  /\ parents = Parents
  /\ inbox = {} /\ dlq = <<>>
  /\ notification = [k \in Keys |-> NoNotification]
  /\ readUpTo = [k \in Keys |-> -1]
  /\ claim = [k \in Keys |-> Zero]
  /\ metric = [d \in Days |-> Zero]
  /\ faults = 0

Fault == faults < MaxFaults /\ faults' = faults + 1

\* The decoders.  A type it does not know is no error to the notification
\* consumer and a permanent one to the metrics consumer.
DecodeEnvelope(e) == e.flaw # "envelope"
DecodeActivity(e) == DecodeEnvelope(e) /\ (e.kind \in ActivityKinds => e.flaw = "none")
ValidMetricPayload(e) == e.flaw # "payload"
DecodeMetric(e) == DecodeEnvelope(e) /\ e.kind \in FeedbackKinds /\ ValidMetricPayload(e)

Decodes(e) == IF e.pipe = "notification" THEN DecodeActivity(e) ELSE DecodeMetric(e)

-----------------------------------------------------------------------------
(* The world around the consumers.                                         *)

\* The outbox row of a committed transaction reaches the topic at least once:
\* the connector may publish it again.
Publish(e) ==
  /\ e \in Events /\ e.pipe = pipeline
  /\ Len(log) < MaxLog
  /\ log' = Append(log, e)
  /\ UNCHANGED <<pipeline, offset, owner, cons, parents, dlq, tables, readUpTo, faults>>

\* A user or Post row that was there when its events were emitted goes away.
DeleteParent(p) ==
  /\ p \in parents
  /\ parents' = parents \ {p}
  /\ UNCHANGED <<pipeline, log, offset, owner, cons, dlq, tables, readUpTo, faults>>

\* The recipient marks a notification as read.
MarkRead(k) ==
  /\ notification[k].version >= 0 /\ ~notification[k].read
  /\ notification' = [notification EXCEPT ![k].read = TRUE]
  /\ readUpTo' = [readUpTo EXCEPT ![k] = notification[k].version]
  /\ UNCHANGED <<pipeline, log, offset, owner, cons, parents, inbox, dlq, claim, metric, faults>>

\* The partition moves; the old owner may still be working on its batch.
Rebalance(c) ==
  /\ c # owner /\ cons[c].phase = "idle"
  /\ Fault
  /\ owner' = c
  /\ cons' = [cons EXCEPT ![c] = Reader(offset)]
  /\ UNCHANGED <<pipeline, log, offset, parents, dlq, tables, readUpTo>>

-----------------------------------------------------------------------------
(* Fetching and classifying.                                               *)

\* The loop gives up the batch; in two seconds it opens a new reader.
Abandoned(c) == cons' = [cons EXCEPT ![c] = Reader(offset)]

\* The decoded records; the metrics consumer also drops repeated event ids.
Decoded(b) == {i \in b : Decodes(log[i])}
Records(b) == {i \in Decoded(b) : pipeline = "metrics" => \A j \in Decoded(b) : j < i => log[j].id # log[i].id}

\* What an attempt still has to apply.
Pending(x) == Records(x.batch) \ x.terminal

\* The n-th attempt; todo is the stack of parts not yet applied.
Attempt(x, n) ==
  LET p == Pending(x)
  IN [x EXCEPT !.todo = IF p = {} THEN <<>> ELSE <<p>>, !.attempts = n, !.again = FALSE,
               !.phase = IF p = {} THEN "commit" ELSE "apply"]

\* Once every bad message is quarantined, the first attempt starts.
Classified(x) == IF x.bad = {} THEN Attempt(x, 1) ELSE x

\* One message, then whatever arrives within the window.  A fetch that fails
\* after the first message ends the session only after the batch is committed,
\* and the next reader starts where this one would have gone on.
Fetch(c) ==
  /\ owner = c /\ cons[c].phase = "idle"
  /\ \E n \in 1..BatchSize :
       LET batch == cons[c].next + 1 .. cons[c].next + n
       IN /\ cons[c].next + n <= Len(log)
          /\ cons' = [cons EXCEPT ![c] = Classified([cons[c] EXCEPT !.phase = "classify", !.batch = batch,
                                                          !.bad = batch \ Decoded(batch)])]
  /\ UNCHANGED <<pipeline, log, offset, owner, parents, dlq, tables, readUpTo, faults>>

DeadLetter(i, code) == Append(dlq, [pos |-> i, event |-> log[i], code |-> code])

\* A permanent decoding error: the message goes to the dead-letter topic.
Quarantine(c) ==
  /\ cons[c].phase = "classify" /\ cons[c].bad # {}
  /\ dlq' = DeadLetter(Min(cons[c].bad), "decode")
  /\ cons' = [cons EXCEPT ![c] = Classified([cons[c] EXCEPT !.bad = cons[c].bad \ {Min(cons[c].bad)}])]
  /\ UNCHANGED <<pipeline, log, offset, owner, parents, tables, readUpTo, faults>>

\* The publish fails, perhaps after the broker took the record: the batch is
\* redelivered and its earlier records are quarantined again.
QuarantineFails(c) ==
  /\ cons[c].phase = "classify" /\ cons[c].bad # {}
  /\ Fault
  /\ dlq' \in {dlq, DeadLetter(Min(cons[c].bad), "decode")}
  /\ Abandoned(c)
  /\ UNCHANGED <<pipeline, log, offset, owner, parents, tables, readUpTo>>

\* The next attempt of retryKafkaOperation, or the end of the batch.
Retried(c) ==
  cons' = [cons EXCEPT ![c] =
    IF cons[c].attempts < MaxAttempts THEN Attempt(cons[c], cons[c].attempts + 1) ELSE Reader(offset)]

-----------------------------------------------------------------------------
(* The projections.                                                        *)

Segment(c) == Head(cons[c].todo)

Ids(c) == {log[i].id : i \in Segment(c)}

FirstDeliveries(s) == {i \in s : log[i].id \notin inbox}

\* applyNotificationRecords: per dedupe key the greatest version, if the filter
\* saw the parent; the upsert replaces only an older version and is unread.
Candidates(c, k) ==
  {log[i].version : i \in {j \in FirstDeliveries(Segment(c)) :
                             log[j].kind = "notify" /\ log[j].key = k /\ log[j].parent \in cons[c].seen}}

UpsertNotifications(c) ==
  notification' = [k \in Keys |->
    LET v == Candidates(c, k)
    IN IF v # {} /\ Max(v) > notification[k].version
       THEN [version |-> Max(v), read |-> FALSE] ELSE notification[k]]

\* claimRecommendationCTREvents for one record.  t is the transaction: claims
\* and stored metrics, the aggregate to be added at the end, and an error.
ClaimImpression(t, e) ==
  LET old == t.claim[e.key]
      n   == IF old.clk # 0 THEN 1 ELSE 0
  IN IF old.imp = 0
     THEN [t EXCEPT !.claim[e.key].imp = e.day, !.add[e.day].imp = @ + 1]
     ELSE IF e.day >= old.imp THEN t
     ELSE IF t.metric[old.imp].imp < 1 \/ t.metric[old.imp].clk < n THEN [t EXCEPT !.error = TRUE]
     ELSE [t EXCEPT !.metric[old.imp] = [imp |-> @.imp - 1, clk |-> @.clk - n],
                    !.metric[e.day] = [imp |-> @.imp + 1, clk |-> @.clk + n],
                    !.claim[e.key] = [imp |-> e.day, clk |-> IF n = 1 THEN e.day ELSE 0]]

ClaimClick_OwnDate(t, e) ==
  LET old == t.claim[e.key]
  IN IF old.clk # 0 THEN t
     ELSE IF old.imp = 0
     THEN [t EXCEPT !.claim[e.key] = [imp |-> e.day, clk |-> e.day],
                    !.add[e.day] = [imp |-> @.imp + 1, clk |-> @.clk + 1]]
     ELSE [t EXCEPT !.claim[e.key].clk = e.day, !.add[e.day].clk = @ + 1]

\* The first click counts; it implies the impression, or joins its cohort.
ClaimClick(t, e) ==
  LET old == t.claim[e.key]
  IN IF old.clk # 0 THEN t
     ELSE IF old.imp = 0
     THEN [t EXCEPT !.claim[e.key] = [imp |-> e.day, clk |-> e.day],
                    !.add[e.day] = [imp |-> @.imp + 1, clk |-> @.clk + 1]]
     ELSE [t EXCEPT !.claim[e.key].clk = old.imp, !.add[old.imp].clk = @ + 1]

\* The last record in event-time order, of equal times in batch order.
LastRecord(s) == CHOOSE i \in s : \A j \in s : log[j].day < log[i].day \/ (log[j].day = log[i].day /\ j <= i)

ClaimRecord(t, e) ==
  CASE e.kind = "impression" -> ClaimImpression(t, e)
    [] e.kind = "click" -> ClaimClick(t, e)
    [] OTHER -> t

\* The records one after the other, in that order.
ClaimEvents(s) ==
  LET tx[r \in SUBSET s] ==
        IF r = {} THEN [claim |-> claim, metric |-> metric, add |-> [d \in Days |-> Zero], error |-> FALSE]
        ELSE ClaimRecord(tx[r \ {LastRecord(r)}], log[LastRecord(r)])
  IN tx[s]

UpsertMetrics(t) ==
  /\ claim' = t.claim
  /\ metric' = [d \in Days |-> [imp |-> t.metric[d].imp + t.add[d].imp, clk |-> t.metric[d].clk + t.add[d].clk]]

\* Rows with foreign keys: notifications, and the behaviour row of a click.
\* Notifications are filtered first, so only a later deletion fails them.
Orphans(c) ==
  {i \in FirstDeliveries(Segment(c)) :
     /\ log[i].kind \in {"notify", "click"}
     /\ log[i].parent \in cons[c].seen \ parents}

-----------------------------------------------------------------------------
(* Applying a batch.                                                       *)

\* The transaction takes its Inbox rows, then reads; another one that needs one
\* of these rows waits until it has ended.
BeginTx(c) ==
  /\ cons[c].phase = "apply"
  /\ \A d \in Consumers : cons[d].phase = "tx" => Ids(c) \cap Ids(d) = {}
  /\ cons' = [cons EXCEPT ![c].phase = "tx", ![c].seen = IF pipeline = "notification" THEN parents ELSE Parents]
  /\ UNCHANGED <<pipeline, log, offset, owner, parents, dlq, tables, readUpTo, faults>>

\* One segment is done.
Popped(x) == [x EXCEPT !.todo = Tail(@), !.again = FALSE, !.seen = {},
                       !.phase = IF Len(x.todo) = 1 THEN "commit" ELSE "apply"]

CommitTx(c) ==
  /\ cons[c].phase = "tx" /\ Orphans(c) = {}
  /\ LET t == ClaimEvents(FirstDeliveries(Segment(c)))
     IN ~t.error /\ UpsertMetrics(t)
  /\ UpsertNotifications(c)
  /\ inbox' = inbox \cup Ids(c)
  /\ cons' = [cons EXCEPT ![c] = Popped(cons[c])]
  /\ UNCHANGED <<pipeline, log, offset, owner, parents, dlq, readUpTo, faults>>

\* The database fails, or the cohort to move is not there: a retryable error.
TxFails(c) ==
  /\ cons[c].phase = "tx"
  /\ IF ClaimEvents(FirstDeliveries(Segment(c))).error THEN UNCHANGED faults ELSE Fault
  /\ Retried(c)
  /\ UNCHANGED <<pipeline, log, offset, owner, parents, dlq, tables, readUpTo>>

\* A foreign-key failure: halve the segment, in order.  A single notification
\* is tried once more, since the filter may now see the deletion.
Isolate(c) ==
  LET x == cons[c]
      s == Segment(c)
      front == {i \in s : Cardinality({j \in s : j < i}) < Cardinality(s) \div 2}
  IN /\ x.phase = "tx" /\ Orphans(c) # {}
     /\ cons' = [cons EXCEPT ![c] =
          IF Cardinality(s) > 1
          THEN [x EXCEPT !.phase = "apply", !.seen = {}, !.todo = <<front, s \ front>> \o Tail(x.todo)]
          ELSE IF pipeline = "notification" /\ ~x.again THEN [x EXCEPT !.phase = "apply", !.seen = {}, !.again = TRUE]
          ELSE [x EXCEPT !.phase = "lookup", !.seen = {}]]
     /\ UNCHANGED <<pipeline, log, offset, owner, parents, dlq, tables, readUpTo, faults>>

\* The record that is left alone with its failure.
Single(c) == Min(Segment(c))

LookupParent_Drops(c) ==
  /\ cons[c].phase = "lookup"
  /\ cons' = [cons EXCEPT ![c] = [Popped(cons[c]) EXCEPT !.terminal = cons[c].terminal \cup {Single(c)}]]
  /\ UNCHANGED <<pipeline, log, offset, owner, parents, dlq, tables, readUpTo, faults>>

LookupParent_Retries(c) ==
  /\ cons[c].phase = "lookup"
  /\ Retried(c)
  /\ UNCHANGED <<pipeline, log, offset, owner, parents, dlq, tables, readUpTo, faults>>

\* The parent is confirmed absent: dead-letter the message, and remember it for
\* the attempts of this batch.  A parent that is there after all is retried.
LookupParent(c) ==
  LET i == Single(c)
  IN /\ cons[c].phase = "lookup"
     /\ IF log[i].parent \in parents THEN Retried(c) /\ UNCHANGED dlq
        ELSE /\ dlq' = DeadLetter(i, "foreign_key")
             /\ cons' = [cons EXCEPT ![c] = [Popped(cons[c]) EXCEPT !.terminal = cons[c].terminal \cup {i}]]
     /\ UNCHANGED <<pipeline, log, offset, owner, parents, tables, readUpTo, faults>>

\* The lookup or the publish fails, perhaps after the broker took the record.
LookupFails(c) ==
  /\ cons[c].phase = "lookup"
  /\ Fault
  /\ dlq' \in {dlq, DeadLetter(Single(c), "foreign_key")}
  /\ Retried(c)
  /\ UNCHANGED <<pipeline, log, offset, owner, parents, tables, readUpTo>>

-----------------------------------------------------------------------------
(* Committing the batch.                                                   *)

\* Only the owner's generation may commit.
Commit(c) ==
  LET end == Max(cons[c].batch)
  IN /\ cons[c].phase = "commit" /\ owner = c
     /\ offset' = end
     /\ cons' = [cons EXCEPT ![c] = Reader(end)]
     /\ UNCHANGED <<pipeline, log, owner, parents, dlq, tables, readUpTo, faults>>

\* Refused to a stale member, or failed, perhaps after it took effect.
CommitFails(c) ==
  /\ cons[c].phase = "commit"
  /\ \/ owner # c /\ UNCHANGED <<offset, faults>>
     \/ owner = c /\ Fault /\ offset' \in {offset, Max(cons[c].batch)}
  /\ cons' = [cons EXCEPT ![c] = Reader(offset')]
  /\ UNCHANGED <<pipeline, log, owner, parents, dlq, tables, readUpTo>>

ConsumerCrash(c) ==
  /\ cons[c].phase # "idle"
  /\ Fault
  /\ Abandoned(c)
  /\ UNCHANGED <<pipeline, log, offset, owner, parents, dlq, tables, readUpTo>>

ConsumerStep(c) ==
  \/ Fetch(c) \/ Quarantine(c) \/ BeginTx(c) \/ CommitTx(c)
  \/ Isolate(c) \/ LookupParent(c) \/ Commit(c)

ConsumerNext(c) ==
  \/ ConsumerStep(c) \/ QuarantineFails(c) \/ TxFails(c) \/ LookupFails(c) \/ CommitFails(c)
  \/ ConsumerCrash(c) \/ Rebalance(c)

WorldNext ==
  \/ \E e \in Events : Publish(e)
  \/ \E p \in Parents : DeleteParent(p)
  \/ \E k \in Keys : MarkRead(k)

=============================================================================

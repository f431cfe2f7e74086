-------------------------- MODULE DeadLetterReplay --------------------------
(***************************************************************************)
(* The kafka-dlq command next to the consumers it feeds: a dry run prints  *)
(* the plan and its hash, an execution must confirm the hash of what a     *)
(* fresh scan finds, and every record is replayed between two audit writes. *)
(*                                                                         *)
(*   cmd/kafka-dlq/main.go, dlq/reader.go, plan_hash.go, policy.go,        *)
(*   replay.go, audit.go                                                   *)
(***************************************************************************)
EXTENDS EventProjections

CONSTANTS
  Limit,        \* --limit: records a scan returns
  MaxReplays    \* bound: replays started

ASSUME ReplayAssumption == Limit \in Nat \ {0} /\ MaxReplays \in Nat

VARIABLES
  tool,   \* the operator and the command: phase, selected code, confirmed plan, records left of it
  audit,  \* kafka_dlq_replays: [rec, status], rec being the place in the dead-letter topic
  sent    \* history: <<audit row, place in the topic>> of the replayed messages

vars == <<cvars, tool, audit, sent>>

NoTool == [phase |-> "idle", code |-> "none", plan |-> {}, queue |-> {}]

Init == CInit /\ tool = NoTool /\ audit = <<>> /\ sent = {}

-----------------------------------------------------------------------------
Codes == {"decode", "foreign_key"}

\* Scan: the records of this consumer that match the selectors, oldest first.
Matches(code) == {i \in DOMAIN dlq : dlq[i].code = code}

Returned(code) == {i \in Matches(code) : Cardinality({j \in Matches(code) : j < i}) < Limit}

\* scanComplete: nothing matched beyond what was returned.
ScanComplete(code) == Returned(code) = Matches(code)

\* The dry run; its hash stands for the selectors and the records returned.
DryRun(code) ==
  /\ tool.phase = "idle" /\ Len(audit) < MaxReplays
  /\ Matches(code) # {}
  /\ tool' = [NoTool EXCEPT !.phase = "confirmed", !.code = code, !.plan = Returned(code)]
  /\ UNCHANGED <<cvars, audit, sent>>

\* --execute --confirm-plan: scan again; refuse an incomplete scan, or a plan
\* that is not the confirmed one.
Execute ==
  /\ tool.phase = "confirmed"
  /\ tool' = IF ScanComplete(tool.code) /\ Returned(tool.code) = tool.plan
             THEN [tool EXCEPT !.phase = "next", !.queue = tool.plan]
             ELSE NoTool
  /\ UNCHANGED <<cvars, audit, sent>>

\* --partition --offset: one record, read at its place; it is its own plan.
ExecuteSingle(i) ==
  /\ tool.phase = "idle" /\ Len(audit) < MaxReplays
  /\ i \in DOMAIN dlq
  /\ tool' = [NoTool EXCEPT !.phase = "next", !.code = dlq[i].code, !.plan = {i}, !.queue = {i}]
  /\ UNCHANGED <<cvars, audit, sent>>

\* The records are replayed oldest first.
Current == Min(tool.queue)

\* The audit row of the next record, before anything is published.
StartReplay ==
  /\ tool.phase = "next" /\ tool.queue # {}
  /\ Len(audit) < MaxReplays
  /\ audit' = Append(audit, [rec |-> Current, status |-> "started"])
  /\ tool' = [tool EXCEPT !.phase = "publish"]
  /\ UNCHANGED <<cvars, sent>>

Replayed ==
  /\ Len(log) < MaxLog
  /\ log' = Append(log, dlq[Current].event)
  /\ sent' = sent \cup {<<Len(audit), Len(log) + 1>>}

\* The original key and value go back to the source topic.
PublishReplay ==
  /\ tool.phase = "publish"
  /\ Replayed
  /\ tool' = [tool EXCEPT !.phase = "complete"]
  /\ UNCHANGED <<pipeline, offset, owner, cons, parents, dlq, tables, readUpTo, faults, audit>>

\* The publish fails, perhaps after the broker took it: the row says unknown,
\* unless that update fails too, and the command stops.
PublishReplayFails ==
  /\ tool.phase = "publish"
  /\ Fault
  /\ Replayed \/ UNCHANGED <<log, sent>>
  /\ \E s \in {"unknown", "started"} : audit' = [audit EXCEPT ![Len(audit)].status = s]
  /\ tool' = NoTool
  /\ UNCHANGED <<pipeline, offset, owner, cons, parents, dlq, tables, readUpTo>>

CompleteReplay ==
  /\ tool.phase = "complete"
  /\ audit' = [audit EXCEPT ![Len(audit)].status = "succeeded"]
  /\ tool' = IF tool.queue = {Current} THEN NoTool ELSE [tool EXCEPT !.phase = "next", !.queue = @ \ {Current}]
  /\ UNCHANGED <<cvars, sent>>

\* A failed audit write, a signal, or the end of the operator's patience.
StopReplay ==
  /\ tool.phase # "idle"
  /\ Fault
  /\ tool' = NoTool
  /\ UNCHANGED <<pipeline, log, offset, owner, cons, parents, dlq, tables, readUpTo, audit, sent>>

ToolNext ==
  \/ \E code \in Codes : DryRun(code)
  \/ \E i \in DOMAIN dlq : ExecuteSingle(i)
  \/ Execute \/ StartReplay \/ PublishReplay \/ PublishReplayFails \/ CompleteReplay \/ StopReplay

Next ==
  \/ (WorldNext \/ \E c \in Consumers : ConsumerNext(c)) /\ UNCHANGED <<tool, audit, sent>>
  \/ ToolNext

Spec == Init /\ [][Next]_vars

\* Consumers run in loops that restart them; the operator owes nothing.
Fairness == \A c \in Consumers : WF_vars(ConsumerStep(c) /\ UNCHANGED <<tool, audit, sent>>)

FairSpec == Spec /\ Fairness

-----------------------------------------------------------------------------
(* Properties.                                                             *)

TypeOK ==
  /\ pipeline \in Pipelines /\ log \in Seq(Events) /\ offset \in 0..Len(log) /\ owner \in Consumers
  /\ \A c \in Consumers :
       /\ cons[c].phase \in {"idle", "classify", "apply", "tx", "lookup", "commit"}
       /\ cons[c].phase \in {"apply", "tx", "lookup"} <=> cons[c].todo # <<>>
       /\ cons[c].phase # "idle" <=> cons[c].batch # {}
       /\ cons[c].attempts \in 0..MaxAttempts
  /\ parents \subseteq Parents
  /\ tool.phase \in {"idle", "confirmed", "next", "publish", "complete"}
  /\ \A a \in DOMAIN audit : audit[a].rec \in DOMAIN dlq /\ audit[a].status \in {"started", "unknown", "succeeded"}

\* Behind the committed offset every event has taken effect or is in the
\* dead-letter topic, whatever half of a batch failed and was retried.
NothingSkipped ==
  \A i \in 1..offset :
    \/ Decodes(log[i]) /\ log[i].id \in inbox
    \/ \E d \in DOMAIN dlq : dlq[d].event = log[i] /\ (Decodes(log[i]) \/ dlq[d].pos = i)

\* Only what cannot be decoded, or refers to a row that is gone, is there.
QuarantineIsDeserved ==
  \A d \in DOMAIN dlq :
    IF dlq[d].code = "decode" THEN ~Decodes(dlq[d].event)
    ELSE Decodes(dlq[d].event) /\ dlq[d].event.parent \notin parents

\* Every replayed message has one audit row, of a record of the plan, and a
\* row says succeeded only if the message is in the topic.
ReplaysAreAudited ==
  /\ \A s \in sent : audit[s[1]].rec \in DOMAIN dlq /\ dlq[audit[s[1]].rec].event = log[s[2]]
  /\ \A s, t \in sent : s[1] = t[1] <=> s[2] = t[2]
  /\ \A a \in DOMAIN audit : audit[a].status = "succeeded" => \E s \in sent : s[1] = a
  /\ tool.phase \in {"next", "publish", "complete"} => tool.queue \subseteq tool.plan

\* No message is lost, quarantined without cause or replayed without a trace.
EventsAccounted == TypeOK /\ NothingSkipped /\ QuarantineIsDeserved /\ ReplaysAreAudited

Seen(k, kind) == {e \in Events : e.key = k /\ e.kind = kind /\ Decodes(e) /\ e.id \in inbox}

\* A notification shows the newest activity that was delivered while its Post
\* was there, and a redelivery or replay never makes it unread again.
NotificationsExact ==
  \A k \in Keys :
    LET n == notification[k]
        v == {e.version : e \in Seen(k, "notify")}
    IN /\ n.version \in v \cup {-1}
       /\ (\A e \in Seen(k, "notify") : e.parent \in parents) /\ v # {} => n.version = Max(v)
       /\ n.version >= 0 /\ readUpTo[k] = n.version => n.read

\* An opportunity counts one impression and at most one click, both on one
\* day, which is not later than any impression delivered so far, in whatever
\* order and batches its events arrive.
MetricsExact ==
  /\ \A k \in Keys :
       LET imps == Seen(k, "impression")  clks == Seen(k, "click")
       IN /\ claim[k].imp # 0 <=> imps \cup clks # {}
          /\ claim[k].clk = IF clks = {} THEN 0 ELSE claim[k].imp
          /\ \A e \in imps : claim[k].imp <= e.day
          /\ claim[k].imp # 0 => claim[k].imp \in {e.day : e \in imps \cup clks}
  /\ \A d \in Days : metric[d] = [imp |-> Cardinality({k \in Keys : claim[k].imp = d}),
                                  clk |-> Cardinality({k \in Keys : claim[k].clk = d})]

\* Redelivery, replay, stale members and halved batches leave the projections
\* a function of the set of events that were delivered.
ProjectionsExact == NotificationsExact /\ MetricsExact

\* A poison message delays its partition and does not stop it: once producers
\* and faults stop, the group commits everything.
BacklogDrains == <>[](offset = Len(log))

=============================================================================

--------------------- MODULE LikeSnapshotPipeline_proofs ---------------------
(***************************************************************************)
(* Proofs about LikeSnapshotPipeline, for any sets of Posts, relays,       *)
(* consumers and tokens and any bounds.                                    *)
(***************************************************************************)
EXTENDS LikeSnapshotPipeline, SequenceTheorems, TLAPS

USE NoTokenAssumption, BoundsAssumption

-----------------------------------------------------------------------------
(* Sequences of messages.                                                  *)

\* Appending a message adds it to the topic and keeps the rest.
LEMMA ElementsAppend ==
  ASSUME NEW S, NEW s \in Seq(S), NEW m \in S
  PROVE  /\ Append(s, m) \in Seq(S)
         /\ Elements(Append(s, m)) = Elements(s) \cup {m}
BY DEF Elements

\* Appending leaves the next message to fetch alone.
LEMMA AppendKeepsHead ==
  ASSUME NEW S, NEW s \in Seq(S), NEW m \in S, s # <<>>
  PROVE  Append(s, m) # <<>> /\ Head(Append(s, m)) = Head(s)
<1>1. Len(s) \in Nat \ {0}
  BY EmptySeq
<1>2. Len(Append(s, m)) = Len(s) + 1 /\ Append(s, m)[1] = s[1]
  BY <1>1
<1>3. Append(s, m) # <<>>
  BY <1>1, <1>2, EmptySeq
<1> QED BY <1>2, <1>3, HeadTailProperties, AppendProperties

\* Committing the first message removes at most that message.
LEMMA ElementsTail ==
  ASSUME NEW S, NEW s \in Seq(S), s # <<>>
  PROVE  /\ Tail(s) \in Seq(S)
         /\ Head(s) \in S
         /\ Elements(s) = Elements(Tail(s)) \cup {Head(s)}
<1>1. Tail(s) \in Seq(S) /\ Head(s) \in S
  OBVIOUS
<1>2. ASSUME NEW i \in 1..Len(s)
      PROVE  s[i] = Head(s) \/ (i - 1 \in 1..Len(Tail(s)) /\ s[i] = Tail(s)[i - 1])
  OBVIOUS
<1>3. ASSUME NEW i \in 1..Len(Tail(s))
      PROVE  i + 1 \in 1..Len(s) /\ Tail(s)[i] = s[i + 1]
  OBVIOUS
<1>4. Head(s) = s[1] /\ 1 \in 1..Len(s)
  OBVIOUS
<1> QED
  BY <1>1, <1>2, <1>3, <1>4 DEF Elements

-----------------------------------------------------------------------------
(* The invariants the proof rests on.                                      *)

\* A partition has one owner, and what it holds is the first uncommitted
\* message: a commit never skips a message nobody applied.
OwnerInv ==
  \A c \in Consumers : consumer[c].member =>
    /\ consumer[c].phase # "idle"
    /\ topic[consumer[c].post] # <<>>
    /\ consumer[c].msg = Head(topic[consumer[c].post])
    /\ \A d \in Consumers : consumer[d].member /\ consumer[d].post = consumer[c].post => d = c

\* A round that is under way has a token.
RoundInv == \A r \in Relays : relay[r].phase # "idle" => relay[r].tok \in Tokens

\* The snapshot a round is about to publish under a claim it still owns is
\* the newest one, or the Post has been marked dirty again since.
LoadedInv ==
  \A r \in Relays : \A p \in relay[r].pend :
    relay[r].phase = "loaded" /\ ready[p] = "1" /\ claim[p] = relay[r].tok
      => p \in dirty \/ relay[r].snap[p] = agg[p]

\* The newest state of p needs no further work in Redis.
InFlight(p) ==
  p \in sqlDeleted \/ agg[p] \in Elements(topic[p]) \/ agg[p].version <= view[p].version

\* A claim is acknowledged only when the newest state is in flight, or the
\* Post is dirty again.
PublishedInv ==
  \A r \in Relays : \A p \in relay[r].pend :
    relay[r].phase = "acking" /\ ready[p] = "1" /\ claim[p] = relay[r].tok
      => p \in dirty \/ InFlight(p)

\* A message is committed, and an event id is in the inbox, only when the SQL
\* row is at least that new.
AppliedInv ==
  \A c \in Consumers : consumer[c].phase = "applied"
    => consumer[c].post \in sqlDeleted \/ consumer[c].msg.version <= view[consumer[c].post].version
InboxInv ==
  \A p \in Posts, v \in Nat : <<p, v>> \in inbox => p \in sqlDeleted \/ v <= view[p].version

-----------------------------------------------------------------------------
(* Types.                                                                  *)

LEMMA InitType == Init => TypeOK
BY DEF Init, TypeOK, IdleRelay, IdleConsumer, RelayState, ConsumerState, NoLikes, State

LEMMA RelayType ==
  ASSUME NEW r \in Relays, TypeOK, RelayNext(r)
  PROVE  TypeOK'
<1> USE DEF TypeOK
<1> DEFINE s == relay[r]
<1>s. /\ s \in RelayState
      /\ IdleRelay \in RelayState
  BY DEF RelayState, IdleRelay, NoLikes, State
<1>1. CASE Claim(r)
  <2> PICK S \in SUBSET {p \in dirty : ~Occupied(p)}, t \in Tokens :
         /\ claim' = [p \in Posts |-> IF p \in S THEN t ELSE claim[p]]
         /\ processing' = processing \cup S
         /\ dirty' = dirty \ S
         /\ relay' = [relay EXCEPT ![r] = [IdleRelay EXCEPT !.phase = "claimed", !.tok = t, !.pend = S]]
    BY <1>1 DEF Claim
  <2>1. [IdleRelay EXCEPT !.phase = "claimed", !.tok = t, !.pend = S] \in RelayState
    BY <1>s DEF RelayState, IdleRelay
  <2> QED BY <1>1, <2>1 DEF Claim, sqlVars
<1>2. CASE LoadSnapshots(r)
  <2> DEFINE good == {p \in s.pend : ready[p] = "1"}
             new == [s EXCEPT !.phase = "loaded", !.pend = good, !.retry = s.pend \ good,
                       !.snap = [p \in Posts |-> IF p \in good THEN agg[p] ELSE NoLikes]]
  <2>1. new \in RelayState
    BY <1>s DEF RelayState, NoLikes, State
  <2> QED BY <1>2, <2>1 DEF LoadSnapshots, redisVars, sqlVars
<1>3. CASE Requeue(r)
  <2>1. PICK p \in s.retry : /\ RequeueClaim(p, s.tok)
                             /\ relay' = [relay EXCEPT ![r] = Settle([s EXCEPT !.retry = s.retry \ {p}])]
    BY <1>3 DEF Requeue
  <2>2. Settle([s EXCEPT !.retry = s.retry \ {p}]) \in RelayState
    BY <1>s DEF RelayState, Settle
  <2>3. p \in Posts
    BY <1>s DEF RelayState
  <2> QED BY <1>3, <2>1, <2>2, <2>3 DEF Requeue, RequeueClaim, sqlVars
<1>4. CASE Publish(r)
  <2>1. [s EXCEPT !.phase = "acking"] \in RelayState
    BY <1>s DEF RelayState
  <2>2. ASSUME NEW p \in Posts PROVE Append(topic[p], s.snap[p]) \in Seq(State)
    BY <1>s, ElementsAppend DEF RelayState
  <2> QED BY <1>4, <2>1, <2>2 DEF Publish, Deliver, redisVars, sqlVars
<1>5. CASE PublishFails(r)
  <2>1. [s EXCEPT !.retry = s.pend, !.pend = {}] \in RelayState
    BY <1>s DEF RelayState
  <2>2. ASSUME NEW p \in Posts PROVE Append(topic[p], s.snap[p]) \in Seq(State)
    BY <1>s, ElementsAppend DEF RelayState
  <2> QED BY <1>5, <2>1, <2>2 DEF PublishFails, Deliver, redisVars, sqlVars, Fault
<1>6. CASE Ack(r)
  <2>1. PICK p \in s.pend : /\ AckClaim(p, s.tok)
                            /\ relay' = [relay EXCEPT ![r] = Settle([s EXCEPT !.pend = s.pend \ {p}])]
    BY <1>6 DEF Ack
  <2>2. Settle([s EXCEPT !.pend = s.pend \ {p}]) \in RelayState
    BY <1>s DEF RelayState, Settle
  <2>3. p \in Posts
    BY <1>s DEF RelayState
  <2> QED BY <1>6, <2>1, <2>2, <2>3 DEF Ack, AckClaim, sqlVars
<1>7. CASE AckFails(r)
  <2>1. PICK p \in s.pend :
          relay' = [relay EXCEPT ![r] = [s EXCEPT !.pend = s.pend \ {p}, !.retry = s.retry \cup {p}]]
    BY <1>7 DEF AckFails
  <2>2. [s EXCEPT !.pend = s.pend \ {p}, !.retry = s.retry \cup {p}] \in RelayState
    <3>1. s \in RelayState /\ p \in Posts
      BY <1>s DEF RelayState
    <3> HIDE DEF s
    <3>2. s.pend \ {p} \in SUBSET Posts /\ s.retry \cup {p} \in SUBSET Posts
      BY <3>1 DEF RelayState
    <3> QED BY <3>1, <3>2 DEF RelayState
  <2> QED BY <1>7, <2>1, <2>2 DEF AckFails, redisVars, sqlVars, Fault
<1>8. CASE RelayCrash(r)
  BY <1>8, <1>s DEF RelayCrash, redisVars, sqlVars, Fault
<1> QED
  BY <1>1, <1>2, <1>3, <1>4, <1>5, <1>6, <1>7, <1>8 DEF RelayNext

LEMMA ConsumerType ==
  ASSUME NEW c \in Consumers, TypeOK, OwnerInv, ConsumerNext(c)
  PROVE  TypeOK'
<1> USE DEF TypeOK
<1> DEFINE k == consumer[c]
<1>s. /\ k \in ConsumerState
      /\ IdleConsumer \in ConsumerState
      /\ IdleConsumer.phase = "idle"
  BY DEF ConsumerState, IdleConsumer, NoLikes, State
<1>1. ASSUME NEW p \in Posts, Fetch(c, p) PROVE TypeOK'
  <2>1. Head(topic[p]) \in State
    BY <1>1, ElementsTail DEF Fetch
  <2>2. [phase |-> "fetched", post |-> p, msg |-> Head(topic[p]), member |-> TRUE] \in ConsumerState
    BY <2>1 DEF ConsumerState
  <2> QED BY <1>1, <2>2 DEF Fetch, redisVars, sqlVars
<1>2. CASE ApplySnapshot(c)
  <2>1. k.post \in Posts /\ k.msg \in State /\ k.msg.version \in Nat
    BY <1>2, <1>s DEF ApplySnapshot, ConsumerState, State
  <2>2. [k EXCEPT !.phase = "applied"] \in ConsumerState
    BY <1>s DEF ConsumerState
  <2> QED BY <1>2, <1>s, <2>1, <2>2 DEF ApplySnapshot, redisVars
<1>3. CASE Commit(c)
  <2>1. k.post \in Posts
    BY <1>3 DEF Commit
  <2>2. k.member => Tail(topic[k.post]) \in Seq(State)
    BY <2>1, ElementsTail DEF OwnerInv
  <2> QED BY <1>3, <1>s, <2>1, <2>2 DEF Commit, redisVars, sqlVars
<1>4. CASE ConsumerCrash(c)
  BY <1>4, <1>s DEF ConsumerCrash, redisVars, sqlVars, Fault
<1>5. CASE Rebalance(c)
  <2>1. [k EXCEPT !.member = FALSE] \in ConsumerState
    BY <1>s DEF ConsumerState
  <2> QED BY <1>5, <1>s, <2>1 DEF Rebalance, redisVars, sqlVars, Fault
<1> QED
  BY <1>1, <1>2, <1>3, <1>4, <1>5 DEF ConsumerNext

LEMMA PostType ==
  ASSUME NEW p \in Posts, TypeOK, PostNext(p)
  PROVE  TypeOK'
<1> USE DEF TypeOK
<1>1. CASE Mutate(p)
  <2>1. PICK d \in {-1, 1} :
          /\ agg[p].count + d >= 0
          /\ agg' = [agg EXCEPT ![p] = [count |-> agg[p].count + d, version |-> agg[p].version + 1]]
    BY <1>1 DEF Mutate
  <2>2. [count |-> agg[p].count + d, version |-> agg[p].version + 1] \in State
    BY <2>1 DEF State
  <2> QED BY <1>1, <2>1, <2>2 DEF Mutate, sqlVars
<1>2. CASE ReapAbandoned(p) \/ ReapStalled(p)
  <2>1. ReapScript(p) /\ faults' \in 0..MaxFaults
    BY <1>2 DEF ReapAbandoned, ReapStalled, Fault
  <2> QED BY <2>1 DEF ReapScript, sqlVars
<1>3. CASE DeletePost(p)
  BY <1>3 DEF DeletePost, redisVars
<1>4. CASE MarkPostDeleted(p)
  BY <1>4 DEF MarkPostDeleted, sqlVars
<1>5. CASE PurgePost(p)
  BY <1>5 DEF PurgePost, sqlVars, NoLikes, State
<1>6. CASE AckCleanup(p)
  BY <1>6 DEF AckCleanup, redisVars, sqlVars
<1>7. CASE CleanupFails(p)
  BY <1>7 DEF CleanupFails, redisVars, sqlVars, Fault
<1>8. CASE TombstoneExpires(p)
  BY <1>8 DEF TombstoneExpires, sqlVars
<1> QED
  BY <1>1, <1>2, <1>3, <1>4, <1>5, <1>6, <1>7, <1>8 DEF PostNext

LEMMA OwnerStep ==
  ASSUME TypeOK, OwnerInv, [Next]_vars
  PROVE  OwnerInv'
<1> USE DEF TypeOK
<1>p. \A c \in Consumers : consumer[c].member => consumer[c].post \in Posts
  BY DEF OwnerInv
<1>1. ASSUME UNCHANGED <<consumer, topic>> PROVE OwnerInv'
  BY <1>1 DEF OwnerInv
<1>2. ASSUME NEW r \in Relays, NEW W \in SUBSET Posts, Deliver(r, W), UNCHANGED consumer PROVE OwnerInv'
  <2>1. ASSUME NEW p \in Posts, topic[p] # <<>>
        PROVE  topic'[p] # <<>> /\ Head(topic'[p]) = Head(topic[p])
    <3>1. relay[r].snap[p] \in State
      BY DEF RelayState
    <3> QED BY <1>2, <2>1, <3>1, AppendKeepsHead DEF Deliver
  <2> QED BY <1>2, <1>p, <2>1 DEF OwnerInv
<1>3. ASSUME NEW r \in Relays, RelayNext(r) PROVE OwnerInv'
  <2>1. CASE Publish(r)
    BY <2>1, <1>2 DEF Publish, RelayState
  <2>2. CASE PublishFails(r)
    BY <2>2, <1>2 DEF PublishFails, RelayState
  <2> QED BY <1>1, <1>3, <2>1, <2>2
        DEF RelayNext, Claim, LoadSnapshots, Requeue, Ack, AckFails, RelayCrash
<1>4. ASSUME NEW c \in Consumers, ConsumerNext(c) PROVE OwnerInv'
  <2>1. ASSUME NEW p \in Posts, Fetch(c, p) PROVE OwnerInv'
    BY <2>1 DEF Fetch, OwnerInv
  <2>2. CASE ApplySnapshot(c)
    BY <2>2 DEF ApplySnapshot, OwnerInv
  <2>3. CASE Commit(c)
    BY <2>3 DEF Commit, OwnerInv, IdleConsumer
  <2>4. CASE ConsumerCrash(c)
    BY <2>4 DEF ConsumerCrash, OwnerInv, IdleConsumer
  <2>5. CASE Rebalance(c)
    BY <2>5 DEF Rebalance, OwnerInv
  <2> QED BY <1>4, <2>1, <2>2, <2>3, <2>4, <2>5 DEF ConsumerNext
<1>5. ASSUME NEW p \in Posts, PostNext(p) PROVE OwnerInv'
  BY <1>1, <1>5 DEF PostNext, Mutate, ReapAbandoned, ReapStalled, ReapScript, DeletePost,
     MarkPostDeleted, PurgePost, AckCleanup, CleanupFails, TombstoneExpires
<1>6. CASE UNCHANGED vars
  BY <1>1, <1>6 DEF vars
<1> QED BY <1>3, <1>4, <1>5, <1>6 DEF Next

LEMMA TypeStep ==
  ASSUME TypeOK, OwnerInv, [Next]_vars
  PROVE  TypeOK'
<1>1. CASE Next
  BY <1>1, RelayType, ConsumerType, PostType DEF Next
<1>2. CASE UNCHANGED vars
  BY <1>2 DEF vars, redisVars, sqlVars, TypeOK
<1> QED BY <1>1, <1>2

\* Every variable keeps its type, whatever the interleaving of relays,
\* consumers, requests and faults.
THEOREM TypeCorrect == Spec => []TypeOK
<1>0. Init => OwnerInv
  BY DEF Init, OwnerInv, IdleConsumer
<1>1. TypeOK /\ OwnerInv /\ [Next]_vars => TypeOK' /\ OwnerInv'
  BY TypeStep, OwnerStep
<1> QED BY <1>0, <1>1, InitType, PTL DEF Spec

-----------------------------------------------------------------------------
(* No snapshot is lost.                                                    *)

\* SQL only moves forward and a deletion is for good.
LEMMA ViewStep ==
  ASSUME TypeOK, [Next]_vars
  PROVE  /\ \A p \in Posts : view[p].version <= view'[p].version
         /\ sqlDeleted \subseteq sqlDeleted'
<1> USE DEF TypeOK, State
<1>1. ASSUME NEW c \in Consumers, ApplySnapshot(c)
      PROVE  /\ \A p \in Posts : view[p].version <= view'[p].version
             /\ sqlDeleted \subseteq sqlDeleted'
  <2> DEFINE p == consumer[c].post
             m == consumer[c].msg
  <2>1. /\ sqlDeleted' = sqlDeleted
        /\ view' = view \/ (view[p].version < m.version /\ view' = [view EXCEPT ![p] = m])
    BY <1>1 DEF ApplySnapshot
  <2>m. m.version \in Nat
    BY DEF ConsumerState
  <2> HIDE DEF p, m
  <2>2. \A q \in Posts : view'[q] = view[q] \/ (view[q].version < m.version /\ view'[q] = m)
    BY <2>1
  <2>3. \A q \in Posts : view[q].version \in Nat /\ view'[q].version \in Nat
    <3>1. view \in [Posts -> State]
      BY DEF TypeOK
    <3> QED BY <2>m, <2>2, <3>1
  <2> QED BY <2>1, <2>2, <2>3
<1>2. ASSUME UNCHANGED view, sqlDeleted \subseteq sqlDeleted'
      PROVE  /\ \A p \in Posts : view[p].version <= view'[p].version
             /\ sqlDeleted \subseteq sqlDeleted'
  BY <1>2
<1>3. ASSUME NEW r \in Relays, RelayNext(r) PROVE UNCHANGED <<view, sqlDeleted>>
  BY <1>3 DEF RelayNext, Claim, LoadSnapshots, Requeue, Publish, PublishFails, Ack, AckFails,
     RelayCrash, sqlVars
<1>4. ASSUME NEW c \in Consumers, ConsumerNext(c), ~ApplySnapshot(c) PROVE UNCHANGED <<view, sqlDeleted>>
  BY <1>4 DEF ConsumerNext, Fetch, Commit, ConsumerCrash, Rebalance, sqlVars
<1>5. ASSUME NEW p \in Posts, PostNext(p) PROVE UNCHANGED view /\ sqlDeleted \subseteq sqlDeleted'
  BY <1>5 DEF PostNext, Mutate, ReapAbandoned, ReapStalled, ReapScript, DeletePost,
     MarkPostDeleted, PurgePost, AckCleanup, CleanupFails, TombstoneExpires, sqlVars
<1>6. CASE UNCHANGED vars
  BY <1>6, <1>2 DEF vars, sqlVars
<1> QED BY <1>1, <1>2, <1>3, <1>4, <1>5, <1>6 DEF Next

LEMMA AppliedStep ==
  ASSUME TypeOK, AppliedInv, InboxInv, [Next]_vars
  PROVE  AppliedInv' /\ InboxInv'
<1> USE DEF TypeOK, State
<1>v. /\ \A p \in Posts : view[p].version <= view'[p].version
      /\ \A p \in Posts : view[p].version \in Nat /\ view'[p].version \in Int
      /\ sqlDeleted \subseteq sqlDeleted'
  <2>1. \A p \in Posts : view'[p] \in State
    <3>1. ASSUME NEW c \in Consumers, ApplySnapshot(c) PROVE \A p \in Posts : view'[p] \in State
      BY <3>1 DEF ApplySnapshot, ConsumerState
    <3>2. ASSUME UNCHANGED view PROVE \A p \in Posts : view'[p] \in State
      BY <3>2
    <3>3. (\E c \in Consumers : ApplySnapshot(c)) \/ UNCHANGED view
      BY DEF Next, RelayNext, Claim, LoadSnapshots, Requeue, Publish, PublishFails, Ack, AckFails,
         RelayCrash, ConsumerNext, Fetch, Commit, ConsumerCrash, Rebalance, PostNext, Mutate,
         ReapAbandoned, ReapStalled, ReapScript, DeletePost, MarkPostDeleted, PurgePost,
         AckCleanup, CleanupFails, TombstoneExpires, sqlVars, vars
    <3> QED BY <3>1, <3>2, <3>3
  <2> QED BY <2>1, ViewStep
<1>f. ASSUME NEW p \in Posts, NEW v \in Nat, p \in sqlDeleted \/ v <= view[p].version
      PROVE  p \in sqlDeleted' \/ v <= view'[p].version
  BY <1>v, <1>f
<1>m. \A c \in Consumers : consumer[c].msg.version \in Nat
  BY DEF ConsumerState
<1>p. \A c \in Consumers : consumer[c].phase = "applied" => consumer[c].post \in Posts
  OBVIOUS
<1> HIDE DEF TypeOK, State
<1>1. ASSUME UNCHANGED <<consumer, inbox>> PROVE AppliedInv' /\ InboxInv'
  <2>1. AppliedInv'
    BY <1>1, <1>f, <1>m, <1>p DEF AppliedInv
  <2>2. InboxInv'
    BY <1>1, <1>f DEF InboxInv
  <2> QED BY <2>1, <2>2
<1>2. ASSUME NEW c \in Consumers, ConsumerNext(c) PROVE AppliedInv' /\ InboxInv'
  <2>1. CASE ApplySnapshot(c)
    <3> DEFINE p == consumer[c].post
               m == consumer[c].msg
    <3>1. p \in Posts /\ m \in State /\ m.version \in Nat
      BY <2>1, <1>m DEF ApplySnapshot, ConsumerState, TypeOK
    <3>2. p \in sqlDeleted' \/ m.version <= view'[p].version
      <4>1. CASE <<p, m.version>> \in inbox
        BY <1>f, <3>1, <4>1 DEF InboxInv
      <4>2. CASE <<p, m.version>> \notin inbox
        <5>1. view[p].version \in Nat /\ view'[p].version \in Nat
          BY <1>v, <3>1
        <5>2. view' = IF p \notin sqlDeleted /\ view[p].version < m.version THEN [view EXCEPT ![p] = m] ELSE view
          BY <2>1, <4>2 DEF ApplySnapshot
        <5>3. sqlDeleted' = sqlDeleted
          BY <2>1 DEF ApplySnapshot
        <5>4. view \in [Posts -> State]
          BY DEF TypeOK
        <5> HIDE DEF p, m
        <5>5. p \in sqlDeleted \/ (view'[p] = view[p] /\ ~(view[p].version < m.version)) \/ view'[p] = m
          <6>1. CASE p \notin sqlDeleted /\ view[p].version < m.version
            BY <3>1, <5>2, <5>4, <6>1
          <6>2. CASE ~(p \notin sqlDeleted /\ view[p].version < m.version)
            BY <5>2, <6>2
          <6> QED BY <6>1, <6>2
        <5> QED
          BY <3>1, <5>1, <5>3, <5>5
      <4> QED BY <4>1, <4>2
    <3>3. InboxInv'
      <4> SUFFICES ASSUME NEW q \in Posts, NEW v \in Nat, <<q, v>> \in inbox'
                   PROVE  q \in sqlDeleted' \/ v <= view'[q].version
        BY DEF InboxInv
      <4>1. <<q, v>> \in inbox \/ (q = p /\ v = m.version)
        BY <2>1 DEF ApplySnapshot
      <4> QED BY <4>1, <3>2, <1>f DEF InboxInv
    <3>4. AppliedInv'
      <4>1. /\ consumer'[c].post = p /\ consumer'[c].msg = m
            /\ \A d \in Consumers : d # c => consumer'[d] = consumer[d]
        BY <2>1 DEF ApplySnapshot, ConsumerState, TypeOK
      <4> QED BY <4>1, <3>2, <1>f, <1>m, <1>p DEF AppliedInv
    <3> QED BY <3>3, <3>4
  <2>2. ASSUME UNCHANGED inbox,
               \A d \in Consumers : consumer'[d].phase = "applied" =>
                  consumer[d].phase = "applied" /\ consumer'[d].post = consumer[d].post /\ consumer'[d].msg = consumer[d].msg
        PROVE  AppliedInv' /\ InboxInv'
    <3>1. AppliedInv'
      BY <2>2, <1>f, <1>m, <1>p DEF AppliedInv
    <3>2. InboxInv'
      BY <2>2, <1>f DEF InboxInv
    <3> QED BY <3>1, <3>2
  <2>3. ASSUME NEW p \in Posts, Fetch(c, p) PROVE AppliedInv' /\ InboxInv'
    BY <2>3, <2>2 DEF Fetch, sqlVars, TypeOK
  <2>4. CASE Commit(c) \/ ConsumerCrash(c)
    <3>1. consumer' = [consumer EXCEPT ![c] = IdleConsumer] /\ UNCHANGED inbox
      BY <2>4 DEF Commit, ConsumerCrash, sqlVars
    <3>2. \A d \in Consumers : consumer'[d] = consumer[d] \/ consumer'[d].phase = "idle"
      BY <3>1 DEF IdleConsumer, TypeOK
    <3> QED BY <3>1, <3>2, <2>2
  <2>5. CASE Rebalance(c)
    BY <2>5, <2>2 DEF Rebalance, sqlVars, ConsumerState, TypeOK
  <2> QED BY <1>2, <2>1, <2>3, <2>4, <2>5 DEF ConsumerNext
<1>3. ASSUME NEW r \in Relays, RelayNext(r) PROVE UNCHANGED <<consumer, inbox>>
  BY <1>3 DEF RelayNext, Claim, LoadSnapshots, Requeue, Publish, PublishFails, Ack, AckFails,
     RelayCrash, sqlVars
<1>4. ASSUME NEW p \in Posts, PostNext(p) PROVE UNCHANGED <<consumer, inbox>>
  BY <1>4 DEF PostNext, Mutate, ReapAbandoned, ReapStalled, ReapScript, DeletePost,
     MarkPostDeleted, PurgePost, AckCleanup, CleanupFails, TombstoneExpires, sqlVars
<1> QED BY <1>1, <1>2, <1>3, <1>4 DEF Next, vars, sqlVars

\* What is in flight stays in flight until a mutation makes something newer:
\* a topic only grows at its end, and only an applied message leaves it.
LEMMA InFlightStep ==
  ASSUME TypeOK, OwnerInv, AppliedInv, [Next]_vars,
         NEW p \in Posts, agg'[p] = agg[p], InFlight(p)
  PROVE  InFlight(p)'
<1>v. /\ view[p].version <= view'[p].version
      /\ sqlDeleted \subseteq sqlDeleted'
      /\ agg[p].version \in Nat /\ view[p].version \in Nat
  BY ViewStep DEF TypeOK, State
<1>w. view'[p].version \in Nat
  <2>1. ASSUME NEW c \in Consumers, ApplySnapshot(c) PROVE view'[p].version \in Nat
    BY <2>1 DEF ApplySnapshot, ConsumerState, TypeOK, State
  <2>2. (\E c \in Consumers : ApplySnapshot(c)) \/ UNCHANGED view
    BY DEF Next, RelayNext, Claim, LoadSnapshots, Requeue, Publish, PublishFails, Ack, AckFails,
       RelayCrash, ConsumerNext, Fetch, Commit, ConsumerCrash, Rebalance, PostNext, Mutate,
       ReapAbandoned, ReapStalled, ReapScript, DeletePost, MarkPostDeleted, PurgePost,
       AckCleanup, CleanupFails, TombstoneExpires, sqlVars, vars
  <2> QED BY <2>1, <2>2, <1>v
<1>1. ASSUME agg[p] \in Elements(topic[p]) => agg[p] \in Elements(topic'[p])
      PROVE  InFlight(p)'
  BY <1>1, <1>v, <1>w DEF InFlight
<1>2. ASSUME NEW c \in Consumers, Commit(c) PROVE InFlight(p)'
  <2>1. CASE consumer[c].member /\ consumer[c].post = p
    <3>1. /\ topic[p] # <<>> /\ consumer[c].msg = Head(topic[p])
          /\ topic'[p] = Tail(topic[p])
          /\ p \in sqlDeleted \/ consumer[c].msg.version <= view[p].version
      BY <1>2, <2>1 DEF Commit, OwnerInv, AppliedInv, TypeOK
    <3>2. Elements(topic[p]) = Elements(topic'[p]) \cup {consumer[c].msg}
      BY <3>1, ElementsTail DEF TypeOK
    <3> QED BY <3>1, <3>2, <1>v, <1>w DEF InFlight
  <2>2. CASE ~(consumer[c].member /\ consumer[c].post = p)
    BY <1>1, <1>2, <2>2 DEF Commit, TypeOK
  <2> QED BY <2>1, <2>2
<1>3. ASSUME NEW r \in Relays, NEW W, Deliver(r, W) PROVE InFlight(p)'
  <2>1. relay[r].snap[p] \in State /\ topic[p] \in Seq(State)
    BY DEF TypeOK, RelayState
  <2> QED BY <1>1, <1>3, <2>1, ElementsAppend DEF Deliver
<1>4. ASSUME UNCHANGED topic PROVE InFlight(p)'
  BY <1>1, <1>4
<1>5. \/ \E c \in Consumers : Commit(c)
      \/ \E r \in Relays : \E W \in SUBSET relay[r].pend : Deliver(r, W)
      \/ UNCHANGED topic
  BY DEF Next, RelayNext, Claim, LoadSnapshots, Requeue, Publish, PublishFails, Ack, AckFails,
     RelayCrash, ConsumerNext, Fetch, ApplySnapshot, ConsumerCrash, Rebalance, PostNext, Mutate,
     ReapAbandoned, ReapStalled, ReapScript, DeletePost, MarkPostDeleted, PurgePost,
     AckCleanup, CleanupFails, TombstoneExpires, vars
<1> QED BY <1>2, <1>3, <1>4, <1>5

\* NoLostSnapshot in terms of InFlight.
CoveredInv == \A p \in Posts : ready[p] = "1" => p \in dirty \/ Occupied(p) \/ InFlight(p)

LEMMA CoveredIsNoLost == TypeOK => (CoveredInv <=> NoLostSnapshot)
<1> SUFFICES ASSUME TypeOK PROVE CoveredInv <=> NoLostSnapshot
  OBVIOUS
<1>1. \A p \in Posts : agg[p].version \in Nat /\ view[p].version \in Nat
  BY DEF TypeOK, State
<1> QED BY <1>1 DEF CoveredInv, NoLostSnapshot, InFlight

\* The part of the invariant that speaks of Redis and the relays.
QueueInv == RoundInv /\ LoadedInv /\ PublishedInv /\ CoveredInv

LEMMA RelayQueue ==
  ASSUME NEW r \in Relays, TypeOK, OwnerInv, AppliedInv, QueueInv, RelayNext(r)
  PROVE  QueueInv'
<1> DEFINE s == relay[r]
<1>i. \A p \in Posts : agg'[p] = agg[p] /\ InFlight(p) => InFlight(p)'
  BY InFlightStep DEF Next
<1>u. UNCHANGED <<ready, agg>>
  BY DEF RelayNext, Claim, LoadSnapshots, Requeue, Publish, PublishFails, Ack, AckFails, RelayCrash,
     redisVars
<1>f. \A p \in Posts : InFlight(p) => InFlight(p)'
  BY <1>i, <1>u
<1>t. /\ s \in RelayState
      /\ \A q \in Relays : relay[q].pend \subseteq Posts /\ relay[q].retry \subseteq Posts
      /\ IdleRelay.phase = "idle" /\ IdleRelay.pend = {}
  BY DEF TypeOK, RelayState, IdleRelay
<1>1. CASE Claim(r)
  <2>1. PICK S \in SUBSET {p \in dirty : ~Occupied(p)}, t \in Tokens :
          /\ FreshToken(t)
          /\ claim' = [p \in Posts |-> IF p \in S THEN t ELSE claim[p]]
          /\ dirty' = dirty \ S
          /\ relay' = [relay EXCEPT ![r] = [IdleRelay EXCEPT !.phase = "claimed", !.tok = t, !.pend = S]]
    BY <1>1 DEF Claim
  <2>2. /\ relay'[r].phase = "claimed" /\ relay'[r].tok = t
        /\ \A q \in Relays : q # r => relay'[q] = relay[q]
    BY <2>1 DEF TypeOK, IdleRelay
  <2>3. \A p \in Posts, q \in Relays : claim'[p] = relay[q].tok => p \notin S /\ claim[p] = relay[q].tok
    BY <2>1 DEF FreshToken
  <2>4. RoundInv'
    BY <2>2 DEF RoundInv, QueueInv
  <2>5. LoadedInv'
    BY <2>1, <2>2, <2>3, <1>u, <1>t DEF LoadedInv, QueueInv
  <2>6. PublishedInv'
    BY <2>1, <2>2, <2>3, <1>u, <1>t, <1>f DEF PublishedInv, QueueInv
  <2>7. CoveredInv'
    <3>1. \A p \in S : claim'[p] \in Tokens
      BY <2>1 DEF TypeOK
    <3>2. \A p \in Posts \ S : claim'[p] = claim[p] /\ (p \in dirty => p \in dirty')
      BY <2>1
    <3> QED BY <3>1, <3>2, <1>u, <1>f, NoTokenAssumption DEF CoveredInv, QueueInv, Occupied
  <2> QED BY <2>4, <2>5, <2>6, <2>7 DEF QueueInv
<1>2. CASE LoadSnapshots(r)
  <2>1. /\ UNCHANGED <<dirty, claim>>
        /\ \A q \in Relays : q # r => relay'[q] = relay[q]
        /\ s.phase = "claimed"
        /\ relay'[r].phase = "loaded" /\ relay'[r].tok = s.tok
        /\ \A p \in relay'[r].pend : p \in Posts /\ relay'[r].snap[p] = agg[p]
    BY <1>2, <1>t DEF LoadSnapshots, redisVars, TypeOK, RelayState
  <2>2. RoundInv'
    BY <2>1 DEF RoundInv, QueueInv
  <2>3. LoadedInv'
    BY <2>1, <1>u DEF LoadedInv, QueueInv
  <2>4. PublishedInv'
    BY <2>1, <1>u, <1>f, <1>t DEF PublishedInv, QueueInv
  <2>5. CoveredInv'
    BY <2>1, <1>u, <1>f DEF CoveredInv, QueueInv, Occupied
  <2> QED BY <2>2, <2>3, <2>4, <2>5 DEF QueueInv
<1>3. CASE Requeue(r)
  <2>1. PICK p \in s.retry : /\ RequeueClaim(p, s.tok)
                             /\ relay' = [relay EXCEPT ![r] = Settle([s EXCEPT !.retry = s.retry \ {p}])]
    BY <1>3 DEF Requeue
  <2>2. p \in Posts
    BY <1>t
  <2>3. /\ \A q \in Relays : q # r => relay'[q] = relay[q]
        /\ \/ relay'[r] = IdleRelay
           \/ /\ relay'[r].phase = s.phase /\ relay'[r].tok = s.tok
              /\ relay'[r].pend = s.pend /\ relay'[r].snap = s.snap
    BY <2>1, <1>t DEF Settle, TypeOK, RelayState
  <2>4. /\ dirty \subseteq dirty'
        /\ \A x \in Posts : claim'[x] = claim[x] \/ (claim'[x] = NoToken /\ x \in dirty')
    BY <2>1, <2>2 DEF RequeueClaim, TypeOK
  <2> QED
    <3>1. RoundInv'
      BY <2>3, <1>t DEF RoundInv, QueueInv
    <3>2. \A x \in Posts, q \in Relays : relay[q].phase # "idle" /\ claim'[x] = relay[q].tok => claim[x] = relay[q].tok
      BY <2>4, NoTokenAssumption DEF RoundInv, QueueInv
    <3>3. LoadedInv'
      BY <2>3, <2>4, <3>2, <1>u, <1>t DEF LoadedInv, QueueInv
    <3>4. PublishedInv'
      BY <2>3, <2>4, <3>2, <1>u, <1>t, <1>f DEF PublishedInv, QueueInv
    <3>5. CoveredInv'
      BY <2>4, <1>u, <1>f DEF CoveredInv, QueueInv, Occupied
    <3> QED BY <3>1, <3>3, <3>4, <3>5 DEF QueueInv
<1>4. CASE Publish(r)
  <2>1. /\ UNCHANGED <<dirty, claim>>
        /\ Deliver(r, s.pend)
        /\ s.phase = "loaded"
        /\ \A q \in Relays : q # r => relay'[q] = relay[q]
        /\ relay'[r].phase = "acking" /\ relay'[r].tok = s.tok /\ relay'[r].pend = s.pend
    BY <1>4, <1>t DEF Publish, redisVars, TypeOK, RelayState
  <2>2. \A p \in s.pend : s.snap[p] \in Elements(topic'[p])
    <3> SUFFICES ASSUME NEW p \in s.pend PROVE s.snap[p] \in Elements(topic'[p])
      OBVIOUS
    <3>1. p \in Posts /\ s.snap[p] \in State /\ topic[p] \in Seq(State)
      BY <1>t DEF TypeOK, RelayState
    <3> QED BY <2>1, <3>1, ElementsAppend DEF Deliver
  <2>3. RoundInv'
    BY <2>1 DEF RoundInv, QueueInv
  <2>4. LoadedInv'
    BY <2>1, <1>u, <1>t DEF LoadedInv, QueueInv
  <2>5. PublishedInv'
    <3>1. \A p \in s.pend : ready[p] = "1" /\ claim[p] = s.tok => p \in dirty \/ InFlight(p)'
      BY <2>1, <2>2, <1>u, <1>t DEF LoadedInv, QueueInv, InFlight
    <3> QED BY <3>1, <2>1, <1>u, <1>t, <1>f DEF PublishedInv, QueueInv
  <2>6. CoveredInv'
    BY <2>1, <1>u, <1>f DEF CoveredInv, QueueInv, Occupied
  <2> QED BY <2>3, <2>4, <2>5, <2>6 DEF QueueInv
<1>5. CASE PublishFails(r) \/ RelayCrash(r) \/ AckFails(r)
  <2>1. /\ UNCHANGED <<dirty, claim>>
        /\ \A q \in Relays : q # r => relay'[q] = relay[q]
        /\ \/ relay'[r] = IdleRelay
           \/ /\ relay'[r].phase = s.phase /\ relay'[r].tok = s.tok
              /\ relay'[r].pend \subseteq s.pend /\ relay'[r].snap = s.snap
    <3>1. CASE PublishFails(r)
      BY <3>1, <1>t DEF PublishFails, redisVars, TypeOK, RelayState
    <3>2. CASE RelayCrash(r)
      BY <3>2 DEF RelayCrash, redisVars, TypeOK
    <3>3. CASE AckFails(r)
      BY <3>3, <1>t DEF AckFails, redisVars, TypeOK, RelayState
    <3> QED BY <1>5, <3>1, <3>2, <3>3
  <2>2. RoundInv'
    BY <2>1, <1>t DEF RoundInv, QueueInv
  <2>3. LoadedInv'
    BY <2>1, <1>u, <1>t DEF LoadedInv, QueueInv
  <2>4. PublishedInv'
    BY <2>1, <1>u, <1>f, <1>t DEF PublishedInv, QueueInv
  <2>5. CoveredInv'
    BY <2>1, <1>u, <1>f DEF CoveredInv, QueueInv, Occupied
  <2> QED BY <2>2, <2>3, <2>4, <2>5 DEF QueueInv
<1>6. CASE Ack(r)
  <2>1. PICK p \in s.pend : /\ AckClaim(p, s.tok)
                            /\ relay' = [relay EXCEPT ![r] = Settle([s EXCEPT !.pend = s.pend \ {p}])]
    BY <1>6 DEF Ack
  <2>2. p \in Posts /\ s.phase = "acking" /\ UNCHANGED dirty
    BY <1>t, <1>6, <2>1 DEF Ack, AckClaim
  <2>3. /\ \A q \in Relays : q # r => relay'[q] = relay[q]
        /\ \/ relay'[r] = IdleRelay
           \/ /\ relay'[r].phase = s.phase /\ relay'[r].tok = s.tok
              /\ relay'[r].pend \subseteq s.pend /\ relay'[r].snap = s.snap
    BY <2>1, <1>t DEF Settle, TypeOK, RelayState
  <2>4. \A x \in Posts : \/ claim'[x] = claim[x]
                         \/ claim'[x] = NoToken /\ x = p /\ claim[p] = s.tok
    BY <2>1, <2>2 DEF AckClaim, TypeOK
  <2> QED
    <3>1. RoundInv'
      BY <2>3, <1>t DEF RoundInv, QueueInv
    <3>2. \A x \in Posts, q \in Relays : relay[q].phase # "idle" /\ claim'[x] = relay[q].tok => claim[x] = relay[q].tok
      BY <2>4, NoTokenAssumption DEF RoundInv, QueueInv
    <3>3. LoadedInv'
      BY <2>2, <2>3, <3>2, <1>u, <1>t DEF LoadedInv, QueueInv
    <3>4. PublishedInv'
      BY <2>2, <2>3, <3>2, <1>u, <1>t, <1>f DEF PublishedInv, QueueInv
    <3>5. CoveredInv'
      BY <2>2, <2>4, <1>u, <1>f DEF CoveredInv, PublishedInv, QueueInv, Occupied
    <3> QED BY <3>1, <3>3, <3>4, <3>5 DEF QueueInv
<1> QED BY <1>1, <1>2, <1>3, <1>4, <1>5, <1>6 DEF RelayNext

LEMMA ConsumerQueue ==
  ASSUME NEW c \in Consumers, TypeOK, OwnerInv, AppliedInv, QueueInv, ConsumerNext(c)
  PROVE  QueueInv'
<1>u. UNCHANGED <<ready, agg, dirty, claim, relay>>
  BY DEF ConsumerNext, Fetch, ApplySnapshot, Commit, ConsumerCrash, Rebalance, redisVars
<1>f. \A p \in Posts : InFlight(p) => InFlight(p)'
  BY <1>u, InFlightStep DEF Next
<1>t. \A q \in Relays : relay[q].pend \subseteq Posts
  BY DEF TypeOK, RelayState
<1>1. RoundInv' /\ LoadedInv'
  BY <1>u DEF RoundInv, LoadedInv, QueueInv
<1>2. PublishedInv'
  BY <1>u, <1>f, <1>t DEF PublishedInv, QueueInv
<1>3. CoveredInv'
  BY <1>u, <1>f DEF CoveredInv, Occupied, QueueInv
<1> QED BY <1>1, <1>2, <1>3 DEF QueueInv

LEMMA PostQueue ==
  ASSUME NEW p \in Posts, TypeOK, OwnerInv, AppliedInv, QueueInv, PostNext(p)
  PROVE  QueueInv'
<1>i. \A x \in Posts : agg'[x] = agg[x] /\ InFlight(x) => InFlight(x)'
  BY InFlightStep DEF Next
<1>r. UNCHANGED relay
  BY DEF PostNext, Mutate, ReapAbandoned, ReapStalled, ReapScript, DeletePost, MarkPostDeleted,
     PurgePost, AckCleanup, CleanupFails, TombstoneExpires
<1>t. \A q \in Relays : relay[q].pend \subseteq Posts
  BY DEF TypeOK, RelayState
<1>k. RoundInv'
  BY <1>r DEF RoundInv, QueueInv
<1>1. ASSUME \* every Post that stays ready is dirty again, or nothing about it changed
             \A x \in Posts : ready'[x] = "1" =>
               /\ ready[x] = "1"
               /\ \/ x \in dirty'
                  \/ /\ agg'[x] = agg[x] /\ claim'[x] = claim[x]
                     /\ x \in dirty => x \in dirty'
      PROVE  QueueInv'
  <2>1. LoadedInv'
    BY <1>1, <1>r, <1>t DEF LoadedInv, QueueInv
  <2>2. PublishedInv'
    BY <1>1, <1>r, <1>t, <1>i DEF PublishedInv, QueueInv
  <2>3. CoveredInv'
    BY <1>1, <1>i DEF CoveredInv, Occupied, QueueInv
  <2> QED BY <1>k, <2>1, <2>2, <2>3 DEF QueueInv
<1>2. CASE Mutate(p)
  BY <1>1, <1>2 DEF Mutate, TypeOK
<1>3. CASE ReapAbandoned(p) \/ ReapStalled(p)
  <2>1. ReapScript(p)
    BY <1>3 DEF ReapAbandoned, ReapStalled
  <2> QED BY <1>1, <2>1 DEF ReapScript, TypeOK
<1>4. CASE DeletePost(p) \/ AckCleanup(p) \/ CleanupFails(p)
  BY <1>1, <1>4 DEF DeletePost, AckCleanup, CleanupFails, redisVars
<1>5. CASE MarkPostDeleted(p)
  BY <1>1, <1>5 DEF MarkPostDeleted, TypeOK
<1>6. CASE PurgePost(p)
  BY <1>1, <1>6 DEF PurgePost, TypeOK
<1>7. CASE TombstoneExpires(p)
  BY <1>1, <1>7 DEF TombstoneExpires, TypeOK
<1> QED BY <1>2, <1>3, <1>4, <1>5, <1>6, <1>7 DEF PostNext

\* The inductive invariant behind NoLostSnapshot.
DeliveryInv == TypeOK /\ OwnerInv /\ AppliedInv /\ InboxInv /\ QueueInv

LEMMA DeliveryInit == Init => DeliveryInv
<1> SUFFICES ASSUME Init PROVE DeliveryInv
  OBVIOUS
<1>1. TypeOK
  BY InitType
<1>2. OwnerInv /\ AppliedInv /\ InboxInv
  BY DEF Init, OwnerInv, AppliedInv, InboxInv, IdleConsumer
<1>3. RoundInv /\ LoadedInv /\ PublishedInv
  BY DEF Init, RoundInv, LoadedInv, PublishedInv, IdleRelay
<1>4. CoveredInv
  BY DEF Init, CoveredInv, InFlight, NoLikes
<1> QED BY <1>1, <1>2, <1>3, <1>4 DEF QueueInv, DeliveryInv

LEMMA DeliveryStep == DeliveryInv /\ [Next]_vars => DeliveryInv'
<1> SUFFICES ASSUME DeliveryInv, [Next]_vars PROVE DeliveryInv'
  OBVIOUS
<1> USE DEF DeliveryInv
<1>1. TypeOK' /\ OwnerInv'
  BY TypeStep, OwnerStep
<1>2. AppliedInv' /\ InboxInv'
  BY AppliedStep
<1>3. QueueInv'
  <2>1. CASE Next
    BY <2>1, RelayQueue, ConsumerQueue, PostQueue DEF Next
  <2>2. CASE UNCHANGED vars
    BY <2>2 DEF vars, redisVars, sqlVars, QueueInv, RoundInv, LoadedInv, PublishedInv,
       CoveredInv, InFlight, Occupied
  <2> QED BY <2>1, <2>2
<1> QED BY <1>1, <1>2, <1>3

LEMMA DeliveryInvariant == Spec => []DeliveryInv
BY DeliveryInit, DeliveryStep, PTL DEF Spec

\* The newest state of a live Post is never lost between Redis and SQL: the
\* claim, lease, publish, acknowledge and commit protocol of the snapshot
\* relay and consumer keeps it dirty, claimed or in the topic until SQL has it.
THEOREM NothingLost == Spec => []NoLostSnapshot
<1>1. DeliveryInv => NoLostSnapshot
  BY CoveredIsNoLost DEF QueueInv, DeliveryInv
<1> QED BY <1>1, DeliveryInvariant, PTL

-----------------------------------------------------------------------------
(* Claims and deletion.                                                    *)

\* Every action of a relay treats claim hash, processing set and dirty set as
\* one: a claim and its lease come and go together, and a Post enters the
\* dirty set only from a claim that was its own.
LEMMA LeaseStep ==
  ASSUME TypeOK, RoundInv, ClaimsAreLeased, PurgedStaysClean, [Next]_vars
  PROVE  ClaimsAreLeased' /\ PurgedStaysClean'
<1> USE DEF TypeOK, ClaimsAreLeased, Occupied
<1>1. ASSUME UNCHANGED <<ready, dirty, claim, processing, cleanup>>
      PROVE  ClaimsAreLeased' /\ PurgedStaysClean'
  BY <1>1 DEF PurgedStaysClean
<1>2. ASSUME NEW r \in Relays, RelayNext(r) PROVE ClaimsAreLeased' /\ PurgedStaysClean'
  <2>1. CASE Claim(r)
    <3>1. PICK S \in SUBSET {p \in dirty : ~Occupied(p)}, t \in Tokens :
            /\ claim' = [p \in Posts |-> IF p \in S THEN t ELSE claim[p]]
            /\ processing' = processing \cup S
            /\ dirty' = dirty \ S
      BY <2>1 DEF Claim
    <3>2. UNCHANGED <<ready, cleanup>>
      BY <2>1 DEF Claim
    <3>3. ClaimsAreLeased'
      BY <3>1, NoTokenAssumption
    <3>4. PurgedStaysClean'
      BY <3>1, <3>2 DEF PurgedStaysClean
    <3> QED BY <3>3, <3>4
  <2>2. CASE Requeue(r)
    <3>1. PICK p \in relay[r].retry : RequeueClaim(p, relay[r].tok)
      BY <2>2 DEF Requeue
    <3>2. p \in Posts /\ relay[r].tok # NoToken /\ UNCHANGED <<ready, cleanup>>
      BY <2>2, NoTokenAssumption DEF Requeue, RoundInv, RelayState
    <3>3. ClaimsAreLeased'
      BY <3>1, <3>2 DEF RequeueClaim
    <3>4. PurgedStaysClean'
      BY <3>1, <3>2 DEF RequeueClaim, PurgedStaysClean
    <3> QED BY <3>3, <3>4
  <2>3. CASE Ack(r)
    <3>1. PICK p \in relay[r].pend : AckClaim(p, relay[r].tok)
      BY <2>3 DEF Ack
    <3>2. p \in Posts /\ UNCHANGED <<ready, cleanup>>
      BY <2>3 DEF Ack, RelayState
    <3>3. ClaimsAreLeased'
      BY <3>1, <3>2 DEF AckClaim
    <3>4. PurgedStaysClean'
      BY <3>1, <3>2 DEF AckClaim, PurgedStaysClean
    <3> QED BY <3>3, <3>4
  <2> QED BY <1>1, <1>2, <2>1, <2>2, <2>3
        DEF RelayNext, LoadSnapshots, Publish, PublishFails, AckFails, RelayCrash, redisVars
<1>3. ASSUME NEW c \in Consumers, ConsumerNext(c) PROVE ClaimsAreLeased' /\ PurgedStaysClean'
  BY <1>1, <1>3 DEF ConsumerNext, Fetch, ApplySnapshot, Commit, ConsumerCrash, Rebalance, redisVars
<1>4. ASSUME NEW p \in Posts, PostNext(p) PROVE ClaimsAreLeased' /\ PurgedStaysClean'
  <2>1. CASE Mutate(p)
    BY <2>1 DEF Mutate, PurgedStaysClean
  <2>2. CASE ReapAbandoned(p) \/ ReapStalled(p)
    <3>1. p \in processing /\ ReapScript(p)
      BY <2>2 DEF ReapAbandoned, ReapStalled
    <3>2. ClaimsAreLeased'
      BY <3>1 DEF ReapScript
    <3>3. PurgedStaysClean'
      BY <3>1 DEF ReapScript, PurgedStaysClean
    <3> QED BY <3>2, <3>3
  <2>3. CASE DeletePost(p)
    BY <2>3 DEF DeletePost, redisVars, PurgedStaysClean
  <2>4. CASE MarkPostDeleted(p)
    BY <2>4 DEF MarkPostDeleted, PurgedStaysClean
  <2>5. CASE PurgePost(p)
    <3>1. ClaimsAreLeased'
      BY <2>5 DEF PurgePost
    <3>2. PurgedStaysClean'
      BY <2>5 DEF PurgePost, PurgedStaysClean
    <3> QED BY <3>1, <3>2
  <2>6. CASE AckCleanup(p)
    BY <2>6 DEF AckCleanup, redisVars, PurgedStaysClean
  <2>7. CASE CleanupFails(p)
    BY <2>7 DEF CleanupFails, redisVars, PurgedStaysClean
  <2>8. CASE TombstoneExpires(p)
    BY <2>8 DEF TombstoneExpires, PurgedStaysClean
  <2> QED BY <1>4, <2>1, <2>2, <2>3, <2>4, <2>5, <2>6, <2>7, <2>8 DEF PostNext
<1>5. CASE UNCHANGED vars
  BY <1>1, <1>5 DEF vars, redisVars
<1> QED BY <1>2, <1>3, <1>4, <1>5 DEF Next

\* A Post is claimed exactly when it has a lease, so that another relay can take
\* over whatever its owner leaves.
THEOREM QueueSound == Spec => []ClaimsAreLeased
<1>1. Init => ClaimsAreLeased /\ PurgedStaysClean
  BY DEF Init, ClaimsAreLeased, PurgedStaysClean, Occupied
<1>2. DeliveryInv => TypeOK /\ RoundInv
  BY DEF DeliveryInv, QueueInv
<1> QED BY <1>1, <1>2, LeaseStep, DeliveryInvariant, PTL DEF Spec

\* No stale round brings a purged Post back into the queue.
THEOREM PurgedClean == Spec => []PurgedStaysClean
<1>1. Init => ClaimsAreLeased /\ PurgedStaysClean
  BY DEF Init, ClaimsAreLeased, PurgedStaysClean, Occupied
<1>2. DeliveryInv => TypeOK /\ RoundInv
  BY DEF DeliveryInv, QueueInv
<1> QED BY <1>1, <1>2, LeaseStep, DeliveryInvariant, PTL DEF Spec

-----------------------------------------------------------------------------
(* The pipeline implements LikeProjection.                                 *)

\* Everything on its way to SQL is a state the Post has been through, and
\* the live aggregate is the newest of them.
AggInv == \A p \in Posts : ready[p] = "1" =>
            agg[p] \in past[p] /\ \A t \in past[p] : t.version <= agg[p].version
SnapInv == \A r \in Relays : \A p \in relay[r].pend :
             relay[r].phase \in {"loaded", "acking"} /\ relay[r].tok \in Tokens => relay[r].snap[p] \in past[p]
TopicInv == \A p \in Posts : Elements(topic[p]) \subseteq past[p]
MsgInv == \A c \in Consumers : consumer[c].phase # "idle" => consumer[c].msg \in past[consumer[c].post]
HistoryInv == AggInv /\ SnapInv /\ TopicInv /\ MsgInv

LEMMA HistoryStep ==
  ASSUME TypeOK, RoundInv, OwnerInv, HistoryInv, [Next]_vars
  PROVE  HistoryInv'
<1> USE DEF TypeOK
<1>p. \A r \in Relays : relay[r].pend \subseteq Posts
  BY DEF RelayState
<1>1. ASSUME NEW r \in Relays, RelayNext(r) PROVE HistoryInv'
  <2> DEFINE s == relay[r]
  <2>u. UNCHANGED <<ready, agg, past, consumer>>
    BY <1>1 DEF RelayNext, Claim, LoadSnapshots, Requeue, Publish, PublishFails, Ack, AckFails,
       RelayCrash, redisVars
  <2>1. AggInv' /\ MsgInv'
    BY <2>u DEF AggInv, MsgInv, HistoryInv
  <2>2. TopicInv'
    <3>1. CASE UNCHANGED topic
      BY <3>1, <2>u DEF TopicInv, HistoryInv
    <3>2. ASSUME NEW W \in SUBSET s.pend, Deliver(r, W), s.phase = "loaded" PROVE TopicInv'
      <4> SUFFICES ASSUME NEW p \in Posts PROVE Elements(topic'[p]) \subseteq past[p]
        BY <2>u DEF TopicInv
      <4>1. s.snap[p] \in State /\ topic[p] \in Seq(State) /\ Elements(topic[p]) \subseteq past[p]
        BY DEF RelayState, TopicInv, HistoryInv
      <4>2. CASE p \in W
        <5>1. s.snap[p] \in past[p]
          BY <3>2, <4>2 DEF SnapInv, HistoryInv, RoundInv
        <5> QED BY <3>2, <4>1, <4>2, <5>1, ElementsAppend DEF Deliver
      <4>3. CASE p \notin W
        BY <3>2, <4>1, <4>3 DEF Deliver
      <4> QED BY <4>2, <4>3
    <3> QED BY <1>1, <3>1, <3>2 DEF RelayNext, Claim, LoadSnapshots, Requeue, Publish, PublishFails,
          Ack, AckFails, RelayCrash
  <2>3. SnapInv'
    <3>1. \A q \in Relays : q # r => relay'[q] = relay[q]
      BY <1>1 DEF RelayNext, Claim, LoadSnapshots, Requeue, Publish, PublishFails, Ack, AckFails,
         RelayCrash
    <3>2. \/ relay'[r].phase \notin {"loaded", "acking"}
          \/ \A p \in relay'[r].pend : p \in Posts /\ ready[p] = "1" /\ relay'[r].snap[p] = agg[p]
          \/ /\ s.phase \in {"loaded", "acking"}
             /\ relay'[r].tok = s.tok /\ relay'[r].pend \subseteq s.pend /\ relay'[r].snap = s.snap
      <4>0. s \in RelayState
        OBVIOUS
      <4>1. CASE Claim(r)
        BY <4>1 DEF Claim, IdleRelay
      <4>2. CASE LoadSnapshots(r)
        BY <4>2, <4>0 DEF LoadSnapshots, RelayState
      <4>3. CASE Requeue(r)
        BY <4>3, <4>0 DEF Requeue, Settle, IdleRelay, RelayState
      <4>4. CASE Publish(r)
        BY <4>4, <4>0 DEF Publish, RelayState
      <4>5. CASE PublishFails(r)
        BY <4>5, <4>0 DEF PublishFails, RelayState
      <4>6. CASE Ack(r)
        BY <4>6, <4>0 DEF Ack, Settle, IdleRelay, RelayState
      <4>7. CASE AckFails(r)
        BY <4>7, <4>0 DEF AckFails, RelayState
      <4>8. CASE RelayCrash(r)
        BY <4>8 DEF RelayCrash, IdleRelay
      <4> QED BY <1>1, <4>1, <4>2, <4>3, <4>4, <4>5, <4>6, <4>7, <4>8 DEF RelayNext
    <3> QED BY <2>u, <3>1, <3>2 DEF SnapInv, AggInv, HistoryInv
  <2> QED BY <2>1, <2>2, <2>3 DEF HistoryInv
<1>2. ASSUME NEW c \in Consumers, ConsumerNext(c) PROVE HistoryInv'
  <2>u. UNCHANGED <<ready, agg, past, relay>>
    BY <1>2 DEF ConsumerNext, Fetch, ApplySnapshot, Commit, ConsumerCrash, Rebalance, redisVars
  <2>1. AggInv' /\ SnapInv'
    BY <2>u DEF AggInv, SnapInv, HistoryInv
  <2>h. \A p \in Posts : topic[p] # <<>> =>
          Head(topic[p]) \in past[p] /\ Elements(Tail(topic[p])) \subseteq past[p]
    BY ElementsTail DEF TopicInv, HistoryInv
  <2>2. TopicInv' /\ MsgInv'
    <3>1. ASSUME NEW p \in Posts, Fetch(c, p) PROVE TopicInv' /\ MsgInv'
      BY <3>1, <2>u, <2>h DEF Fetch, TopicInv, MsgInv, HistoryInv
    <3>2. CASE ApplySnapshot(c)
      BY <3>2, <2>u DEF ApplySnapshot, TopicInv, MsgInv, HistoryInv
    <3>3. CASE Commit(c)
      <4>1. consumer[c].post \in Posts
        BY <3>3 DEF Commit
      <4>2. TopicInv'
        BY <3>3, <4>1, <2>u, <2>h DEF Commit, OwnerInv, TopicInv, HistoryInv
      <4>3. MsgInv'
        BY <3>3, <2>u DEF Commit, IdleConsumer, MsgInv, HistoryInv
      <4> QED BY <4>2, <4>3
    <3>4. CASE ConsumerCrash(c)
      BY <3>4, <2>u DEF ConsumerCrash, IdleConsumer, TopicInv, MsgInv, HistoryInv
    <3>5. CASE Rebalance(c)
      BY <3>5, <2>u DEF Rebalance, TopicInv, MsgInv, HistoryInv
    <3> QED BY <1>2, <3>1, <3>2, <3>3, <3>4, <3>5 DEF ConsumerNext
  <2> QED BY <2>1, <2>2 DEF HistoryInv
<1>3. ASSUME NEW p \in Posts, PostNext(p) PROVE HistoryInv'
  <2>u. UNCHANGED <<relay, topic, consumer>>
    BY <1>3 DEF PostNext, Mutate, ReapAbandoned, ReapStalled, ReapScript, DeletePost, MarkPostDeleted,
       PurgePost, AckCleanup, CleanupFails, TombstoneExpires
  <2>1. \A x \in Posts : past[x] \subseteq past'[x]
    <3>1. CASE Mutate(p)
      BY <3>1 DEF Mutate
    <3>2. CASE ~Mutate(p)
      BY <1>3, <3>2 DEF PostNext, ReapAbandoned, ReapStalled, ReapScript, DeletePost, MarkPostDeleted,
         PurgePost, AckCleanup, CleanupFails, TombstoneExpires, redisVars
    <3> QED BY <3>1, <3>2
  <2>2. SnapInv' /\ TopicInv' /\ MsgInv'
    BY <2>u, <2>1, <1>p DEF SnapInv, TopicInv, MsgInv, HistoryInv
  <2>3. AggInv'
    <3>1. CASE Mutate(p)
      <4>1. /\ agg'[p].version = agg[p].version + 1 /\ past'[p] = past[p] \cup {agg'[p]}
            /\ agg[p].version \in Nat /\ \A t \in past[p] : t.version \in Nat
            /\ UNCHANGED ready /\ ready[p] = "1"
            /\ \A x \in Posts : x # p => agg'[x] = agg[x] /\ past'[x] = past[x]
        BY <3>1 DEF Mutate, State
      <4>2. \A t \in past[p] : t.version <= agg[p].version
        BY <4>1 DEF AggInv, HistoryInv
      <4>3. \A t \in past'[p] : t.version <= agg'[p].version
        BY <4>1, <4>2
      <4> QED BY <4>1, <4>3 DEF AggInv, HistoryInv
    <3>2. ASSUME \A x \in Posts : ready'[x] = "1" => ready[x] = "1" /\ agg'[x] = agg[x] /\ past'[x] = past[x]
          PROVE AggInv'
      BY <3>2 DEF AggInv, HistoryInv
    <3>3. CASE ~Mutate(p)
      BY <1>3, <3>2, <3>3 DEF PostNext, ReapAbandoned, ReapStalled, ReapScript, DeletePost, MarkPostDeleted,
       PurgePost, AckCleanup, CleanupFails, TombstoneExpires, redisVars
    <3> QED BY <3>1, <3>3
  <2> QED BY <2>2, <2>3 DEF HistoryInv
<1>4. CASE UNCHANGED vars
  BY <1>4 DEF vars, redisVars, HistoryInv, AggInv, SnapInv, TopicInv, MsgInv
<1> QED BY <1>1, <1>2, <1>3, <1>4 DEF Next

\* One step of the pipeline is one step of the projection, or none.
LEMMA ProjectionStep ==
  ASSUME TypeOK, AggInv, MsgInv, [Next]_vars
  PROVE  [Projection!Next]_(Projection!vars)
<1> USE DEF TypeOK
<1>0. ASSUME UNCHANGED <<past, view, sqlDeleted>> PROVE [Projection!Next]_(Projection!vars)
  BY <1>0 DEF Projection!vars
<1>1. ASSUME NEW p \in Posts, Mutate(p) PROVE Projection!Next
  <2>1. PICK d \in {-1, 1} :
          /\ agg[p].count + d >= 0
          /\ agg' = [agg EXCEPT ![p] = [count |-> agg[p].count + d, version |-> agg[p].version + 1]]
    BY <1>1 DEF Mutate
  <2>2. Projection!Newest(p, agg[p])
    BY <1>1 DEF Mutate, AggInv, Projection!Newest
  <2>3. past' = [past EXCEPT ![p] = past[p] \cup {[count |-> agg[p].count + d, version |-> agg[p].version + 1]}]
    BY <1>1, <2>1 DEF Mutate
  <2>4. agg[p] \in past[p] /\ UNCHANGED <<view, sqlDeleted>>
    BY <1>1, <2>2 DEF Mutate, sqlVars, Projection!Newest
  <2>5. Projection!Change(p)
    BY <2>1, <2>2, <2>3, <2>4 DEF Projection!Change
  <2> QED BY <2>5 DEF Projection!Next
<1>2. ASSUME NEW c \in Consumers, ApplySnapshot(c) PROVE [Projection!Next]_(Projection!vars)
  <2>1. consumer[c].post \in Posts /\ consumer[c].msg \in past[consumer[c].post]
    BY <1>2 DEF ApplySnapshot, MsgInv
  <2>2. CASE UNCHANGED view
    BY <1>2, <2>2, <1>0 DEF ApplySnapshot, redisVars
  <2>3. CASE view' # view
    <3>1. Projection!Project(consumer[c].post)
      BY <1>2, <2>1, <2>3 DEF ApplySnapshot, redisVars, State, ConsumerState, Projection!Project
    <3> QED BY <2>1, <3>1 DEF Projection!Next
  <2> QED BY <2>2, <2>3
<1>3. ASSUME NEW p \in Posts, DeletePost(p) PROVE Projection!Next
  <2>1. Projection!Freeze(p)
    BY <1>3 DEF DeletePost, redisVars, Projection!Freeze
  <2> QED BY <2>1 DEF Projection!Next
<1>4. ASSUME NEW r \in Relays, RelayNext(r) PROVE UNCHANGED <<past, view, sqlDeleted>>
  BY <1>4 DEF RelayNext, Claim, LoadSnapshots, Requeue, Publish, PublishFails, Ack, AckFails,
     RelayCrash, redisVars, sqlVars
<1>5. ASSUME NEW c \in Consumers, ConsumerNext(c), ~ApplySnapshot(c) PROVE UNCHANGED <<past, view, sqlDeleted>>
  BY <1>5 DEF ConsumerNext, Fetch, Commit, ConsumerCrash, Rebalance, redisVars, sqlVars
<1>6. ASSUME NEW p \in Posts, PostNext(p), ~Mutate(p), ~DeletePost(p)
      PROVE  UNCHANGED <<past, view, sqlDeleted>>
  BY <1>6 DEF PostNext, ReapAbandoned, ReapStalled, ReapScript, MarkPostDeleted, PurgePost, AckCleanup,
     CleanupFails, TombstoneExpires, redisVars, sqlVars
<1>7. CASE UNCHANGED vars
  BY <1>0, <1>7 DEF vars, redisVars, sqlVars
<1> QED BY <1>0, <1>1, <1>2, <1>3, <1>4, <1>5, <1>6, <1>7 DEF Next

\* The pipeline implements the abstract projection: posts.like_count and
\* posts.like_sync_version only move forward, together, to a state the Redis
\* aggregate really had, and stop at the deletion of the Post.
THEOREM Refinement == Spec => ImplementsProjection
<1>1. Init => HistoryInv /\ Projection!Init
  <2> SUFFICES ASSUME Init PROVE HistoryInv /\ Projection!Init
    OBVIOUS
  <2>1. AggInv
    BY DEF Init, AggInv, NoLikes
  <2>2. SnapInv /\ MsgInv
    BY DEF Init, SnapInv, MsgInv, IdleRelay, IdleConsumer
  <2>3. TopicInv
    BY DEF Init, TopicInv, Elements
  <2>4. Projection!Init
    BY DEF Init, Projection!Init, NoLikes, Projection!NoLikes
  <2> QED BY <2>1, <2>2, <2>3, <2>4 DEF HistoryInv
<1>2. DeliveryInv /\ HistoryInv /\ [Next]_vars => HistoryInv'
  BY HistoryStep DEF DeliveryInv, QueueInv
<1>3. DeliveryInv /\ HistoryInv /\ [Next]_vars => [Projection!Next]_(Projection!vars)
  BY ProjectionStep DEF DeliveryInv, HistoryInv
<1> QED BY <1>1, <1>2, <1>3, DeliveryInvariant, PTL DEF Spec, ImplementsProjection, Projection!Spec

=============================================================================

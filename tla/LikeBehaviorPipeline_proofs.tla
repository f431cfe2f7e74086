--------------------- MODULE LikeBehaviorPipeline_proofs ---------------------
(***************************************************************************)
(* Proofs about LikeBehaviorPipeline, for any sets of users, Posts,        *)
(* relays, consumers and tokens, finite or not, and any bounds.            *)
(***************************************************************************)
EXTENDS LikeBehaviorPipeline, SequenceTheorems, FiniteSetTheorems,
        FunctionTheorems, WellFoundedInduction, TLAPS

USE NoTokenAssumption, BoundsAssumption

-----------------------------------------------------------------------------
(* Naturals and sequences.                                                 *)

\* A set of naturals that is not empty has a least element.
LEMMA NatMin ==
  ASSUME NEW T \in SUBSET Nat, T # {}
  PROVE  \E x \in T : \A y \in T : x <= y
<1> DEFINE R == {ss \in Nat \X Nat : ss[1] < ss[2]}
<1>1. IsWellFoundedOn(R, Nat)
  BY NatLessThanWellFounded DEF OpToRel
<1> HIDE DEF R
<1>2. PICK x \in T : \A y \in T : ~(<<y, x>> \in R)
  BY <1>1, WFMin
<1>3. ASSUME NEW y \in T PROVE ~(y < x)
  BY <1>2, <1>3 DEF R
<1> QED BY <1>3

\* Among rows of bounded version one is newest: collapsing a batch per pair
\* always leaves a row to write.
LEMMA NewestExists ==
  ASSUME NEW S \in SUBSET Row, NEW n \in Nat, \A r \in S : r.version <= n, S # {}
  PROVE  \E r \in S : \A s \in S : s.version <= r.version
<1> USE DEF Row
<1> DEFINE T == {k \in Nat : \A r \in S : r.version <= k}
<1>1. n \in T
  OBVIOUS
<1>2. PICK k \in T : \A y \in T : k <= y
  BY <1>1, NatMin
<1>3. CASE \A r \in S : r.version < k
  <2>1. k - 1 \in T
    BY <1>3
  <2> QED BY <2>1, <1>2
<1> QED BY <1>2, <1>3

\* Concatenation keeps what was there and adds the rest.
LEMMA ElementsConcat ==
  ASSUME NEW S, NEW s \in Seq(S), NEW t \in Seq(S)
  PROVE  /\ s \o t \in Seq(S)
         /\ Len(s \o t) = Len(s) + Len(t)
         /\ \A i \in 1..Len(s) : (s \o t)[i] = s[i]
         /\ Elements(s \o t) = Elements(s) \cup Elements(t)
<1>1. /\ s \o t \in Seq(S)
      /\ Len(s \o t) = Len(s) + Len(t)
      /\ \A i \in 1..Len(s) : (s \o t)[i] = s[i]
  OBVIOUS
<1>2. ASSUME NEW i \in 1..Len(s \o t)
      PROVE  (s \o t)[i] \in Elements(s) \cup Elements(t)
  <2>1. CASE i <= Len(s)
    BY <2>1 DEF Elements
  <2>2. CASE i > Len(s)
    <3>1. i - Len(s) \in 1..Len(t) /\ (s \o t)[i] = t[i - Len(s)]
      BY <2>2
    <3> QED BY <3>1 DEF Elements
  <2> QED BY <2>1, <2>2
<1>3. ASSUME NEW i \in 1..Len(s) PROVE s[i] \in Elements(s \o t)
  BY DEF Elements
<1>4. ASSUME NEW i \in 1..Len(t) PROVE t[i] \in Elements(s \o t)
  <2>1. Len(s) + i \in 1..Len(s \o t) /\ (s \o t)[Len(s) + i] = t[i]
    OBVIOUS
  <2> QED BY <2>1 DEF Elements
<1> QED BY <1>1, <1>2, <1>3, <1>4 DEF Elements

\* Cutting n messages off removes at most those.
LEMMA ElementsCut ==
  ASSUME NEW S, NEW s \in Seq(S), NEW n \in 0..Len(s)
  PROVE  /\ SubSeq(s, n + 1, Len(s)) \in Seq(S)
         /\ SubSeq(s, 1, n) \in Seq(S)
         /\ Len(SubSeq(s, 1, n)) = n
         /\ \A i \in 1..n : SubSeq(s, 1, n)[i] = s[i]
         /\ Elements(s) = Elements(SubSeq(s, 1, n)) \cup Elements(SubSeq(s, n + 1, Len(s)))
<1> DEFINE a == SubSeq(s, 1, n)
           b == SubSeq(s, n + 1, Len(s))
<1>1. a \in Seq(S) /\ Len(a) = n /\ \A i \in 1..n : a[i] = s[i]
  OBVIOUS
<1>2. b \in Seq(S) /\ Len(b) = Len(s) - n /\ \A i \in 1..(Len(s) - n) : b[i] = s[n + i]
  OBVIOUS
<1>3. ASSUME NEW i \in 1..Len(s) PROVE s[i] \in Elements(a) \cup Elements(b)
  <2>1. CASE i <= n
    BY <2>1, <1>1 DEF Elements
  <2>2. CASE i > n
    <3>1. i - n \in 1..Len(b) /\ b[i - n] = s[i]
      BY <2>2, <1>2
    <3> QED BY <3>1 DEF Elements
  <2> QED BY <2>1, <2>2
<1>4. \A i \in 1..Len(a) : a[i] \in Elements(s)
  BY <1>1 DEF Elements
<1>5. ASSUME NEW i \in 1..Len(b) PROVE b[i] \in Elements(s)
  <2>1. n + i \in 1..Len(s) /\ b[i] = s[n + i]
    BY <1>2
  <2> QED BY <2>1 DEF Elements
<1>6. Elements(s) = Elements(a) \cup Elements(b)
  <2> HIDE DEF a, b
  <2> QED BY <1>3, <1>4, <1>5 DEF Elements
<1> QED BY <1>1, <1>2, <1>6

\* A batch holds finitely many messages.
LEMMA ElementsFinite ==
  ASSUME NEW S, NEW s \in Seq(S)
  PROVE  Elements(s) \in SUBSET S /\ IsFiniteSet(Elements(s))
<1>1. Elements(s) \in SUBSET S
  BY DEF Elements
<1> DEFINE f == [i \in 1..Len(s) |-> s[i]]
<1>2. f \in Surjection(1..Len(s), Elements(s))
  BY DEF Elements, Surjection
<1>3. IsFiniteSet(1..Len(s))
  BY FS_Interval, LenProperties
<1> QED BY <1>1, <1>2, <1>3, FS_Surjection

-----------------------------------------------------------------------------
(* The invariants the proof rests on.                                      *)

LikeMessage(q, row) == [kind |-> "like", pair |-> q, row |-> row]

\* SPOP takes finitely many pairs.
FiniteInv == IsFiniteSet(bdirty) /\ \A r \in Relays : IsFiniteSet(round[r].pend)

\* The partition has one owner, and what it holds is the uncommitted prefix: a
\* commit never skips a message nobody applied.
OwnerInv ==
  \A c \in Consumers : consumer[c].member =>
    /\ consumer[c].phase # "idle"
    /\ Len(consumer[c].batch) <= Len(log)
    /\ \A i \in 1..Len(consumer[c].batch) : consumer[c].batch[i] = log[i]
    /\ \A d \in Consumers : consumer[d].member => d = c

\* A version names one state of a pair; the newest is the one Redis holds, and
\* the hash holds that one or nothing.
HistoryInv ==
  \A q \in Pairs :
    /\ like[q] \in past[q] /\ NoRow \in past[q]
    /\ \A a \in past[q] : a.version <= like[q].version
    /\ \A a, b \in past[q] : a.version = b.version => a = b
    /\ like[q].version <= version[q[2]]
    /\ bstate[q] \in {NoRow, like[q]}

\* What travels is a state the pair had; a view carries none.
Genuine(m) == IF m.kind = "like" THEN m.row \in past[m.pair] ELSE m.row = NoRow
TravelInv ==
  /\ \A r \in Relays, q \in Pairs : round[r].sent[q] \in past[q]
  /\ \A m \in Elements(log) : Genuine(m)
  /\ \A c \in Consumers : \A m \in Elements(consumer[c].batch) : Genuine(m)

\* A batch is committed, and an event id is in the inbox, only when the reaction
\* row is at least that new.
AppliedInv ==
  \A c \in Consumers : consumer[c].phase = "applied" =>
    \A m \in Elements(consumer[c].batch) :
      m.kind = "like" => m.row.version <= reaction[m.pair].version
InboxInv ==
  \A e \in inbox : e[1] = "like" => e[3] <= reaction[e[2]].version

\* The state needs no further work in Redis.
InFlight(q, row) ==
  LikeMessage(q, row) \in Elements(log) \/ row.version <= reaction[q].version

\* A relay acknowledges only what is in flight.
PublishedInv ==
  \A r \in Relays : round[r].phase = "acking" =>
    \A q \in round[r].pend : InFlight(q, round[r].sent[q])

\* The newest state is in the hash or in flight.
KeptInv == \A q \in Pairs : bstate[q] = like[q] \/ InFlight(q, like[q])

\* A pair in the hash is queued or claimed; a claim has a lease.
QueuedInv ==
  /\ \A q \in Pairs : bstate[q] # NoRow => q \in bdirty \/ Occupied(q)
  /\ processing = {q \in Pairs : Occupied(q)}

\* Only finitely many views of a Post have been counted.
ViewersFinite == \A p \in Posts : IsFiniteSet({u \in Users : <<"view", <<u, p>>, 0>> \in inbox})

\* The inductive invariant.
IInv ==
  /\ TypeOK /\ FiniteInv /\ OwnerInv /\ HistoryInv /\ TravelInv /\ AppliedInv /\ InboxInv
  /\ PublishedInv /\ KeptInv /\ QueuedInv /\ ViewersFinite
  /\ ActivitiesMatchReactions /\ ViewsCountOnce

-----------------------------------------------------------------------------
(* What a publish does to the partition.                                   *)

\* Whatever the order in which a batch arrives, the partition grows by exactly
\* the states loaded for it.
LEMMA DeliverLog ==
  ASSUME TypeOK, NEW r \in Relays, NEW S \in SUBSET round[r].pend, IsFiniteSet(S), Deliver(r, S)
  PROVE  \E t \in Seq(Message) :
           /\ log' = log \o t
           /\ Elements(t) = {LikeMessage(q, round[r].sent[q]) : q \in S}
<1>1. Cardinality(S) \in Nat
  BY FS_CardinalityType
<1> DEFINE n == Cardinality(S)
<1> HIDE DEF n
<1>2. PICK f \in [1..n -> S] :
        /\ \A q \in S : \E i \in 1..n : f[i] = q
        /\ log' = log \o [i \in 1..n |->
                           [kind |-> "like", pair |-> f[i], row |-> round[r].sent[f[i]]]]
  BY DEF Deliver, n
<1> DEFINE t == [i \in 1..n |-> LikeMessage(f[i], round[r].sent[f[i]])]
<1>3. \A q \in S : LikeMessage(q, round[r].sent[q]) \in Message
  BY DEF TypeOK, RoundState, Message, LikeMessage
<1>4. t \in Seq(Message) /\ Len(t) = n
  BY <1>1, <1>3 DEF n
<1>5. log' = log \o t
  BY <1>2 DEF LikeMessage
<1>6. Elements(t) = {LikeMessage(q, round[r].sent[q]) : q \in S}
  <2>1. \A i \in 1..n : f[i] \in S /\ t[i] = LikeMessage(f[i], round[r].sent[f[i]])
    BY <1>2
  <2> HIDE DEF t
  <2>2. Elements(t) = {t[i] : i \in 1..n}
    BY <1>4 DEF Elements
  <2>3. ASSUME NEW m \in Elements(t) PROVE m \in {LikeMessage(q, round[r].sent[q]) : q \in S}
    <3>1. PICK i \in 1..n : m = t[i]
      BY <2>2
    <3> QED BY <2>1, <3>1
  <2>4. ASSUME NEW q \in S PROVE LikeMessage(q, round[r].sent[q]) \in Elements(t)
    <3>1. PICK i \in 1..n : f[i] = q
      BY <1>2
    <3> QED BY <2>1, <2>2, <3>1
  <2> QED BY <2>3, <2>4
<1> QED BY <1>4, <1>5, <1>6

\* A view adds one message.
LEMMA ViewLog ==
  ASSUME TypeOK, NEW q \in Pairs, ViewPost(q)
  PROVE  \E t \in Seq(Message) :
           /\ log' = log \o t
           /\ Elements(t) = {[kind |-> "view", pair |-> q, row |-> NoRow]}
<1> DEFINE m == [kind |-> "view", pair |-> q, row |-> NoRow]
<1>1. m \in Message
  BY DEF Message, NoRow, Row
<1>2. log' = Append(log, m) /\ log \in Seq(Message)
  BY DEF ViewPost, TypeOK
<1> HIDE DEF m
<1>3. Append(log, m) = log \o <<m>>
  BY <1>1, <1>2, AppendIsConcat
<1>4. <<m>> \in Seq(Message) /\ Elements(<<m>>) = {m}
  BY <1>1 DEF Elements
<1> QED BY <1>2, <1>3, <1>4 DEF m

-----------------------------------------------------------------------------
(* Types.                                                                  *)

LEMMA InitType == Init => TypeOK
BY DEF Init, TypeOK, IdleRound, IdleConsumer, RoundState, ConsumerState, NoRow, Row

LEMMA RelayType ==
  ASSUME NEW r \in Relays, TypeOK, FiniteInv, RelayNext(r)
  PROVE  TypeOK'
<1> USE DEF TypeOK
<1> DEFINE s == round[r]
<1>s. /\ s \in RoundState
      /\ IdleRound \in RoundState
  BY DEF RoundState, IdleRound, NoRow, Row
<1>p. s.pend \in SUBSET Pairs /\ IsFiniteSet(s.pend)
  BY <1>s DEF RoundState, FiniteInv
<1>q. ASSUME NEW q \in s.pend
      PROVE  Settle([s EXCEPT !.pend = s.pend \ {q}]) \in RoundState
  BY <1>s DEF RoundState, Settle
<1>1. CASE Claim(r)
  <2>1. PICK S \in SUBSET bdirty, t \in Tokens :
         /\ claim' = [q \in Pairs |-> IF q \in S THEN t ELSE claim[q]]
         /\ processing' = processing \cup S
         /\ bdirty' = bdirty \ S
         /\ round' = [round EXCEPT ![r] = [IdleRound EXCEPT !.phase = "claimed", !.tok = t, !.pend = S]]
    <3>1. PICK C \in SUBSET bdirty, t \in Tokens :
            LET S == {q \in C : ~Occupied(q)}
            IN /\ claim' = [q \in Pairs |-> IF q \in S THEN t ELSE claim[q]]
               /\ processing' = processing \cup S
               /\ bdirty' = bdirty \ S
               /\ round' = [round EXCEPT ![r] = [IdleRound EXCEPT !.phase = "claimed", !.tok = t, !.pend = S]]
      BY <1>1 DEF Claim
    <3>2. {q \in C : ~Occupied(q)} \in SUBSET bdirty
      OBVIOUS
    <3> QED BY <3>1, <3>2
  <2>2. [IdleRound EXCEPT !.phase = "claimed", !.tok = t, !.pend = S] \in RoundState
    BY <1>s DEF RoundState, IdleRound
  <2> QED BY <1>1, <2>1, <2>2 DEF Claim, sqlVars
<1>2. CASE LoadBehaviorDeliveries(r)
  <2> DEFINE new == [s EXCEPT !.phase = "loaded",
                       !.sent = [q \in Pairs |-> IF q \in s.pend THEN bstate[q] ELSE NoRow]]
  <2>1. new \in RoundState
    BY <1>s DEF RoundState, NoRow, Row
  <2> QED BY <1>2, <2>1 DEF LoadBehaviorDeliveries, redisVars, sqlVars
<1>3. CASE Requeue(r)
  <2>1. PICK q \in s.pend : /\ RequeueClaim(q, s.tok)
                            /\ round' = [round EXCEPT ![r] = Settle([s EXCEPT !.pend = s.pend \ {q}])]
    BY <1>3 DEF Requeue
  <2>2. q \in Pairs
    BY <1>p
  <2>3. /\ claim' \in [Pairs -> Tokens \cup {NoToken}]
        /\ processing' \in SUBSET Pairs
        /\ bdirty' \in SUBSET Pairs
    BY <2>1, <2>2 DEF RequeueClaim
  <2>4. round' \in [Relays -> RoundState]
    BY <1>q, <2>1
  <2> QED BY <1>3, <2>3, <2>4 DEF Requeue, sqlVars
<1>4. CASE RequeueFails(r)
  BY <1>4, <1>q DEF RequeueFails, redisVars, sqlVars
<1>5. CASE Publish(r)
  <2>1. [s EXCEPT !.phase = "acking"] \in RoundState
    BY <1>s DEF RoundState
  <2>2. log' \in Seq(Message)
    <3>1. Deliver(r, s.pend)
      BY <1>5 DEF Publish
    <3>2. PICK t \in Seq(Message) : log' = log \o t
      BY <3>1, <1>p, DeliverLog
    <3> QED BY <3>2, ElementsConcat
  <2> QED BY <1>5, <2>1, <2>2 DEF Publish, redisVars, sqlVars
<1>6. CASE PublishFails(r)
  <2>1. [s EXCEPT !.phase = "requeue"] \in RoundState
    BY <1>s DEF RoundState
  <2>2. PICK S \in SUBSET s.pend : Deliver(r, S)
    BY <1>6 DEF PublishFails
  <2>3. log' \in Seq(Message)
    <3>1. IsFiniteSet(S)
      BY <1>p, FS_Subset
    <3>2. PICK t \in Seq(Message) : log' = log \o t
      BY <2>2, <3>1, DeliverLog
    <3> QED BY <3>2, ElementsConcat
  <2>4. faults' \in 0..MaxFaults
    BY <1>6 DEF PublishFails, Fault
  <2> QED BY <1>6, <2>1, <2>3, <2>4 DEF PublishFails, redisVars, sqlVars
<1>7. CASE Ack(r)
  <2>1. PICK q \in s.pend : /\ AckDelivery(q, s.tok, s.sent[q].version)
                            /\ round' = [round EXCEPT ![r] = Settle([s EXCEPT !.pend = s.pend \ {q}])]
    BY <1>7 DEF Ack
  <2>2. q \in Pairs
    BY <1>p
  <2>3. NoRow \in Row
    BY DEF NoRow, Row
  <2>4. /\ claim' \in [Pairs -> Tokens \cup {NoToken}]
        /\ processing' \in SUBSET Pairs
        /\ bstate' \in [Pairs -> Row]
        /\ bdirty' \in SUBSET Pairs
    <3>1. claim' = [claim EXCEPT ![q] = NoToken] \/ claim' = claim
      BY <2>1 DEF AckDelivery
    <3>2. processing' = processing \ {q} \/ processing' = processing
      BY <2>1 DEF AckDelivery
    <3>3. bstate' = [bstate EXCEPT ![q] = NoRow] \/ bstate' = bstate
      BY <2>1 DEF AckDelivery
    <3>4. bdirty' \in {bdirty, bdirty \cup {q}, bdirty \ {q}}
      BY <2>1 DEF AckDelivery
    <3>5. claim' \in [Pairs -> Tokens \cup {NoToken}]
      BY <2>2, <3>1
    <3>6. bstate' \in [Pairs -> Row]
      BY <2>2, <2>3, <3>3
    <3> QED
      BY <2>2, <3>2, <3>4, <3>5, <3>6
  <2>5. round' \in [Relays -> RoundState]
    BY <1>q, <2>1
  <2> QED BY <1>7, <2>4, <2>5 DEF Ack, sqlVars
<1>8. CASE RelayCrash(r)
  BY <1>8, <1>s DEF RelayCrash, redisVars, sqlVars, Fault
<1> QED
  BY <1>1, <1>2, <1>3, <1>4, <1>5, <1>6, <1>7, <1>8 DEF RelayNext

\* What the projection writes for one pair: nothing, or a newer row that a first
\* delivery of the batch carried, with one activity that says the same.
LEMMA AppliedRow ==
  ASSUME TypeOK, NEW c \in Consumers, ApplyRecords(c), NEW q \in Pairs
  PROVE  \/ reaction'[q] = reaction[q] /\ activity'[q] = activity[q]
         \/ /\ LikeMessage(q, reaction'[q]) \in FirstDeliveries(c)
            /\ reaction[q].version < reaction'[q].version
            /\ activity'[q] = Append(activity[q], reaction'[q])
<1> DEFINE first == FirstDeliveries(c)
           rows == [x \in Pairs |-> {r \in Collapsed(first, x) : Supersedes(r, x)}]
           new(x) == CHOOSE r \in rows[x] : TRUE
<1>1. /\ reaction' = [x \in Pairs |-> IF x \in {y \in Pairs : rows[y] # {}} THEN new(x) ELSE reaction[x]]
      /\ activity' = [x \in Pairs |-> IF x \in {y \in Pairs : rows[y] # {}}
                                      THEN Append(activity[x], new(x)) ELSE activity[x]]
  BY DEF ApplyRecords
<1>2. CASE rows[q] = {}
  BY <1>1, <1>2
<1>3. CASE rows[q] # {}
  <2>1. reaction'[q] = new(q) /\ activity'[q] = Append(activity[q], new(q))
    BY <1>1, <1>3
  <2>2. new(q) \in rows[q]
    BY <1>3
  <2>3. new(q) \in Collapsed(first, q) /\ Supersedes(new(q), q)
    BY <2>2
  <2>4. PICK m \in first : m.kind = "like" /\ m.pair = q /\ m.row = new(q)
    BY <2>3 DEF Collapsed
  <2>5. m \in Message
    BY ElementsFinite DEF FirstDeliveries, TypeOK, ConsumerState
  <2>6. m = LikeMessage(q, new(q))
    BY <2>4, <2>5 DEF Message, LikeMessage
  <2> QED BY <2>1, <2>3, <2>4, <2>6 DEF Supersedes
<1> QED BY <1>2, <1>3

LEMMA ConsumerType ==
  ASSUME NEW c \in Consumers, TypeOK, OwnerInv, ConsumerNext(c)
  PROVE  TypeOK'
<1> USE DEF TypeOK
<1> DEFINE k == consumer[c]
<1>s. /\ k \in ConsumerState
      /\ IdleConsumer \in ConsumerState
      /\ Len(IdleConsumer.batch) = 0
  BY DEF ConsumerState, IdleConsumer
<1>1. CASE Fetch(c)
  <2>1. PICK n \in 1..FetchBatch :
          /\ n <= Len(log)
          /\ consumer' = [consumer EXCEPT ![c] =
               [phase |-> "fetched", batch |-> SubSeq(log, 1, n), member |-> TRUE]]
    BY <1>1 DEF Fetch
  <2>2. SubSeq(log, 1, n) \in Seq(Message) /\ Len(SubSeq(log, 1, n)) = n
    BY <2>1, ElementsCut
  <2>3. [phase |-> "fetched", batch |-> SubSeq(log, 1, n), member |-> TRUE] \in ConsumerState
    BY <2>2 DEF ConsumerState
  <2>4. consumer' \in [Consumers -> ConsumerState]
    BY <2>1, <2>3
  <2>5. ASSUME NEW d \in Consumers PROVE Len(consumer'[d].batch) <= FetchBatch
    BY <2>1, <2>2
  <2> QED BY <1>1, <2>4, <2>5 DEF Fetch, redisVars, sqlVars
<1>2. CASE ApplyRecords(c)
  <2> DEFINE first == FirstDeliveries(c)
  <2>1. first \in SUBSET Message /\ IsFiniteSet(first)
    <3>1. k.batch \in Seq(Message)
      BY <1>s DEF ConsumerState
    <3>2. first \in SUBSET Elements(k.batch)
      BY DEF FirstDeliveries
    <3> QED BY <3>1, <3>2, ElementsFinite, FS_Subset
  <2>2. ASSUME NEW S \in SUBSET first PROVE Cardinality(S) \in Nat
    BY <2>1, FS_Subset, FS_CardinalityType
  <2>3. inbox' \subseteq {"like", "view"} \X Pairs \X Nat
    <3>1. \A m \in first : EventId(m) \in {"like", "view"} \X Pairs \X Nat
      BY <2>1 DEF EventId, Message, Row
    <3> QED BY <1>2, <3>1 DEF ApplyRecords
  <2>4. behavior' \in [Pairs -> Nat]
    <3>1. \A q \in Pairs : ViewsOf(first, q) \in SUBSET first
      BY DEF ViewsOf
    <3>2. \A q \in Pairs : Cardinality(ViewsOf(first, q)) \in Nat
      BY <2>2, <3>1
    <3>3. behavior' = [q \in Pairs |-> behavior[q] + Cardinality(ViewsOf(first, q))]
      BY <1>2 DEF ApplyRecords
    <3> HIDE DEF first
    <3> QED BY <3>2, <3>3
  <2>5. viewCount' \in [Posts -> Nat]
    <3> DEFINE seen(p) == {m \in first : m.kind = "view" /\ m.pair[2] = p}
    <3>1. \A p \in Posts : seen(p) \in SUBSET first
      OBVIOUS
    <3>2. viewCount' = [p \in Posts |-> viewCount[p] + Cardinality(seen(p))]
      BY <1>2 DEF ApplyRecords
    <3> HIDE DEF seen
    <3>3. \A p \in Posts : Cardinality(seen(p)) \in Nat
      BY <2>2, <3>1
    <3> QED BY <3>2, <3>3
  <2>6. profileDirty' \subseteq Users
    BY <1>2, <2>1 DEF ApplyRecords, Message, Pairs
  <2>7. ASSUME NEW q \in Pairs PROVE reaction'[q] \in Row /\ activity'[q] \in Seq(Row)
    <3>1. CASE LikeMessage(q, reaction'[q]) \in first /\ activity'[q] = Append(activity[q], reaction'[q])
      <4>1. reaction'[q] \in Row
        BY <3>1, <2>1 DEF LikeMessage, Message
      <4> QED BY <3>1, <4>1
    <3> QED BY <1>2, <3>1, AppliedRow
  <2>8. reaction' \in [Pairs -> Row] /\ activity' \in [Pairs -> Seq(Row)]
    BY <1>2, <2>7 DEF ApplyRecords
  <2>9. [k EXCEPT !.phase = "applied"] \in ConsumerState /\ [k EXCEPT !.phase = "applied"].batch = k.batch
    BY <1>s DEF ConsumerState
  <2>10. consumer' \in [Consumers -> ConsumerState] /\ \A d \in Consumers : Len(consumer'[d].batch) <= FetchBatch
    BY <1>2, <2>9 DEF ApplyRecords
  <2> QED BY <1>2, <2>3, <2>4, <2>5, <2>6, <2>8, <2>10 DEF ApplyRecords, redisVars
<1>3. CASE Commit(c)
  <2>1. log' \in Seq(Message)
    <3>1. k.member => Len(k.batch) \in 0..Len(log)
      BY <1>s DEF OwnerInv, ConsumerState
    <3> QED BY <1>3, <3>1, ElementsCut DEF Commit
  <2>2. consumer' = [consumer EXCEPT ![c] = IdleConsumer]
    BY <1>3 DEF Commit
  <2> QED BY <1>3, <1>s, <2>1, <2>2 DEF Commit, redisVars, sqlVars
<1>4. CASE ConsumerCrash(c)
  BY <1>4, <1>s DEF ConsumerCrash, redisVars, sqlVars, Fault
<1>5. CASE Rebalance(c)
  <2>1. [k EXCEPT !.member = FALSE] \in ConsumerState /\ [k EXCEPT !.member = FALSE].batch = k.batch
    BY <1>s DEF ConsumerState
  <2>2. consumer' \in [Consumers -> ConsumerState] /\ \A d \in Consumers : Len(consumer'[d].batch) <= FetchBatch
    BY <1>5, <2>1 DEF Rebalance
  <2>3. faults' \in 0..MaxFaults
    BY <1>5 DEF Rebalance, Fault
  <2> QED BY <1>5, <2>2, <2>3 DEF Rebalance, redisVars, sqlVars
<1> QED
  BY <1>1, <1>2, <1>3, <1>4, <1>5 DEF ConsumerNext

LEMMA PairType ==
  ASSUME NEW q \in Pairs, TypeOK, PairNext(q)
  PROVE  TypeOK'
<1> USE DEF TypeOK
<1>p. q[2] \in Posts
  BY DEF Pairs
<1>1. CASE Mutate(q)
  <2> DEFINE row == [liked |-> ~like[q].liked, version |-> version[q[2]] + 1]
  <2>1. row \in Row
    <3>1. version[q[2]] + 1 \in Nat /\ (~like[q].liked) \in BOOLEAN
      BY <1>p
    <3> QED BY <3>1 DEF Row
  <2> HIDE DEF row
  <2>2. /\ version' \in [Posts -> Nat]
        /\ like' \in [Pairs -> Row]
        /\ past' \in [Pairs -> SUBSET Row]
        /\ bstate' \in [Pairs -> Row]
        /\ bdirty' \subseteq Pairs
    <3>1. /\ version' = [version EXCEPT ![q[2]] = version[q[2]] + 1]
          /\ like' = [like EXCEPT ![q] = row]
          /\ past' = [past EXCEPT ![q] = past[q] \cup {row}]
          /\ bstate' = [bstate EXCEPT ![q] = row]
          /\ bdirty' = bdirty \cup {q}
      BY <1>1 DEF Mutate, row
    <3>2. version' \in [Posts -> Nat]
      BY <1>p, <3>1
    <3>3. like' \in [Pairs -> Row] /\ bstate' \in [Pairs -> Row]
      BY <2>1, <3>1
    <3>4. past' \in [Pairs -> SUBSET Row]
      BY <2>1, <3>1
    <3> QED BY <3>1, <3>2, <3>3, <3>4
  <2> QED BY <1>1, <2>2 DEF Mutate, sqlVars
<1>2. CASE ViewPost(q)
  <2>1. PICK t \in Seq(Message) : log' = log \o t
    BY <1>2, ViewLog
  <2>2. log' \in Seq(Message)
    BY <2>1, ElementsConcat
  <2>3. views' \in 0..MaxViews
    BY <1>2 DEF ViewPost
  <2> QED BY <1>2, <2>2, <2>3 DEF ViewPost, redisVars, sqlVars
<1>3. CASE ReapScript(q) /\ faults' \in 0..MaxFaults
  <2>1. /\ claim' \in [Pairs -> Tokens \cup {NoToken}]
        /\ processing' \in SUBSET Pairs
        /\ bdirty' \in SUBSET Pairs
    BY <1>3 DEF ReapScript
  <2> QED BY <1>3, <2>1 DEF ReapScript, sqlVars
<1>4. CASE ReapAbandoned(q)
  BY <1>3, <1>4 DEF ReapAbandoned
<1>5. CASE ReapStalled(q)
  <2>1. ReapScript(q) /\ faults' = faults + 1 /\ faults < MaxFaults
    BY <1>5 DEF ReapStalled, Fault
  <2>2. faults' \in 0..MaxFaults
    BY <2>1
  <2> QED BY <1>3, <2>1, <2>2
<1> QED
  BY <1>1, <1>2, <1>4, <1>5 DEF PairNext

-----------------------------------------------------------------------------
(* What the steps of a relay and of the projection do, said once.          *)

\* A step of a relay that is not a claim or a load leaves its round with fewer
\* pairs, or the same, and with states it already held.
RoundShrinks(r) ==
  /\ \A x \in Relays : x # r => round'[x] = round[x]
  /\ round'[r].pend \subseteq round[r].pend
  /\ \A q \in Pairs : round'[r].sent[q] \in {NoRow, round[r].sent[q]}
  /\ \A q \in round'[r].pend : round'[r].sent[q] = round[r].sent[q]
  /\ round'[r].phase \in {"idle", round[r].phase}

LEMMA SettleShrinks ==
  ASSUME TypeOK, NEW r \in Relays, NEW q \in round[r].pend,
         round' = [round EXCEPT ![r] = Settle([round[r] EXCEPT !.pend = round[r].pend \ {q}])]
  PROVE  RoundShrinks(r)
<1> DEFINE s == round[r]
           n == [s EXCEPT !.pend = s.pend \ {q}]
<1>1. s \in RoundState
  BY DEF TypeOK
<1>2. n.pend = s.pend \ {q} /\ n.sent = s.sent /\ n.phase = s.phase
  BY <1>1 DEF RoundState
<1>3. IdleRound.pend = {} /\ IdleRound.phase = "idle" /\ \A x \in Pairs : IdleRound.sent[x] = NoRow
  BY DEF IdleRound
<1>4. round'[r] \in {IdleRound, n} /\ \A x \in Relays : x # r => round'[x] = round[x]
  BY DEF TypeOK, Settle
<1> HIDE DEF n
<1> QED BY <1>2, <1>3, <1>4 DEF RoundShrinks

LEMMA CrashShrinks ==
  ASSUME TypeOK, NEW r \in Relays, round' = [round EXCEPT ![r] = IdleRound]
  PROVE  RoundShrinks(r)
BY DEF RoundShrinks, TypeOK, IdleRound

\* Requeue, its failure, an acknowledgement and a crash shrink the round.
LEMMA ShrinkingSteps ==
  ASSUME TypeOK, NEW r \in Relays,
         Requeue(r) \/ RequeueFails(r) \/ Ack(r) \/ RelayCrash(r)
  PROVE  RoundShrinks(r)
<1>1. CASE Requeue(r)
  BY <1>1, SettleShrinks DEF Requeue
<1>2. CASE RequeueFails(r)
  BY <1>2, SettleShrinks DEF RequeueFails
<1>3. CASE Ack(r)
  BY <1>3, SettleShrinks DEF Ack
<1>4. CASE RelayCrash(r)
  BY <1>4, CrashShrinks DEF RelayCrash
<1> QED BY <1>1, <1>2, <1>3, <1>4

\* A publish, complete or not, appends states of the round to the partition and
\* changes nothing else but the phase.
LEMMA PublishStep ==
  ASSUME TypeOK, FiniteInv, NEW r \in Relays, Publish(r) \/ PublishFails(r)
  PROVE  /\ \E S \in SUBSET round[r].pend, t \in Seq(Message) :
              /\ log' = log \o t
              /\ Elements(t) = {LikeMessage(q, round[r].sent[q]) : q \in S}
              /\ Publish(r) => S = round[r].pend
         /\ round' = [round EXCEPT ![r].phase = IF Publish(r) THEN "acking" ELSE "requeue"]
         /\ UNCHANGED <<redisVars, consumer, sqlVars, views>>
<1>1. IsFiniteSet(round[r].pend) /\ round[r].pend \in SUBSET round[r].pend
  BY DEF FiniteInv
<1>2. CASE Publish(r)
  <2>1. Deliver(r, round[r].pend)
    BY <1>2 DEF Publish
  <2>2. \E t \in Seq(Message) :
              /\ log' = log \o t
              /\ Elements(t) = {LikeMessage(q, round[r].sent[q]) : q \in round[r].pend}
    BY <1>1, <2>1, DeliverLog
  <2>3. /\ round' = [round EXCEPT ![r].phase = IF Publish(r) THEN "acking" ELSE "requeue"]
        /\ UNCHANGED <<redisVars, consumer, sqlVars, views>>
    BY <1>2 DEF Publish
  <2> QED BY <1>1, <2>2, <2>3
<1>3. CASE ~Publish(r) /\ PublishFails(r)
  <2>1. PICK S \in SUBSET round[r].pend : Deliver(r, S)
    BY <1>3 DEF PublishFails
  <2>2. IsFiniteSet(S)
    BY <1>1, FS_Subset
  <2>3. \E t \in Seq(Message) :
              /\ log' = log \o t
              /\ Elements(t) = {LikeMessage(q, round[r].sent[q]) : q \in S}
    BY <2>1, <2>2, DeliverLog
  <2>4. /\ round' = [round EXCEPT ![r].phase = IF Publish(r) THEN "acking" ELSE "requeue"]
        /\ UNCHANGED <<redisVars, consumer, sqlVars, views>>
    BY <1>3 DEF PublishFails
  <2> QED BY <1>3, <2>3, <2>4
<1> QED BY <1>2, <1>3

\* Only the projection writes SQL.
LEMMA OnlyApplyWrites ==
  ASSUME Next
  PROVE  UNCHANGED sqlVars \/ \E c \in Consumers : ApplyRecords(c)
<1>1. ASSUME NEW r \in Relays, RelayNext(r) PROVE UNCHANGED sqlVars
  BY <1>1 DEF RelayNext, Claim, LoadBehaviorDeliveries, Requeue, Publish, PublishFails,
              RequeueFails, Ack, RelayCrash
<1>2. ASSUME NEW c \in Consumers, ConsumerNext(c) PROVE UNCHANGED sqlVars \/ ApplyRecords(c)
  BY <1>2 DEF ConsumerNext, Fetch, Commit, ConsumerCrash, Rebalance
<1>3. ASSUME NEW q \in Pairs, PairNext(q) PROVE UNCHANGED sqlVars
  BY <1>3 DEF PairNext, Mutate, ViewPost, ReapAbandoned, ReapStalled, ReapScript
<1> QED BY <1>1, <1>2, <1>3 DEF Next

-----------------------------------------------------------------------------
(* Queues and ownership.                                                   *)

LEMMA FiniteStep ==
  ASSUME TypeOK, FiniteInv, Next
  PROVE  FiniteInv'
<1> USE DEF FiniteInv
<1>1. ASSUME UNCHANGED <<bdirty, round>> PROVE FiniteInv'
  BY <1>1
<1>2. ASSUME NEW r \in Relays, RelayNext(r) PROVE FiniteInv'
  <2>r. ASSUME RoundShrinks(r), NEW x \in Relays PROVE IsFiniteSet(round'[x].pend)
    BY <2>r, FS_Subset DEF RoundShrinks
  <2>1. CASE Claim(r)
    <3>1. PICK C \in SUBSET bdirty, t \in Tokens :
            LET S == {q \in C : ~Occupied(q)}
            IN /\ bdirty' = bdirty \ S
               /\ round' = [round EXCEPT ![r] = [IdleRound EXCEPT !.phase = "claimed", !.tok = t, !.pend = S]]
      BY <2>1 DEF Claim
    <3> DEFINE S == {q \in C : ~Occupied(q)}
    <3>2. S \in SUBSET bdirty /\ bdirty \ S \in SUBSET bdirty
      OBVIOUS
    <3>3. round'[r].pend = S /\ \A x \in Relays : x # r => round'[x] = round[x]
      BY <3>1 DEF TypeOK, IdleRound
    <3> QED BY <3>1, <3>2, <3>3, FS_Subset
  <2>2. CASE LoadBehaviorDeliveries(r)
    <3>1. \A x \in Relays : round'[x].pend = round[x].pend
      BY <2>2 DEF LoadBehaviorDeliveries, TypeOK, RoundState
    <3> QED BY <2>2, <3>1 DEF LoadBehaviorDeliveries, redisVars
  <2>3. CASE Requeue(r)
    <3>1. PICK q \in Pairs : bdirty' \in SUBSET (bdirty \cup {q})
      BY <2>3 DEF Requeue, RequeueClaim, TypeOK, RoundState
    <3>2. IsFiniteSet(bdirty')
      BY <3>1, FS_AddElement, FS_Subset
    <3> QED BY <2>3, <2>r, <3>2, ShrinkingSteps
  <2>4. CASE RequeueFails(r) \/ RelayCrash(r)
    BY <2>4, <2>r, ShrinkingSteps DEF RequeueFails, RelayCrash, redisVars
  <2>5. CASE Publish(r) \/ PublishFails(r)
    <3>1. round' = [round EXCEPT ![r].phase = IF Publish(r) THEN "acking" ELSE "requeue"]
      BY <2>5, PublishStep
    <3>2. \A x \in Relays : round'[x].pend = round[x].pend
      BY <3>1 DEF TypeOK, RoundState
    <3> QED BY <2>5, <3>2, PublishStep DEF redisVars
  <2>6. CASE Ack(r)
    <3>1. PICK q \in Pairs : bdirty' \in SUBSET (bdirty \cup {q})
      BY <2>6 DEF Ack, AckDelivery, TypeOK, RoundState
    <3>2. IsFiniteSet(bdirty')
      BY <3>1, FS_AddElement, FS_Subset
    <3> QED BY <2>6, <2>r, <3>2, ShrinkingSteps
  <2> QED BY <1>2, <2>1, <2>2, <2>3, <2>4, <2>5, <2>6 DEF RelayNext
<1>3. ASSUME NEW c \in Consumers, ConsumerNext(c) PROVE FiniteInv'
  BY <1>1, <1>3 DEF ConsumerNext, Fetch, ApplyRecords, Commit, ConsumerCrash, Rebalance, redisVars
<1>4. ASSUME NEW q \in Pairs, PairNext(q) PROVE FiniteInv'
  <2>1. bdirty' \in SUBSET (bdirty \cup {q}) /\ UNCHANGED round
    BY <1>4 DEF PairNext, Mutate, ViewPost, ReapAbandoned, ReapStalled, ReapScript, redisVars
  <2> QED BY <2>1, FS_AddElement, FS_Subset
<1> QED BY <1>2, <1>3, <1>4 DEF Next

\* Appending to the partition leaves the owner's prefix alone.
LEMMA OwnerAppend ==
  ASSUME TypeOK, OwnerInv, NEW t \in Seq(Message), log' = log \o t, UNCHANGED consumer
  PROVE  OwnerInv'
<1>1. \A c \in Consumers : Len(consumer[c].batch) \in Nat
  BY DEF TypeOK, ConsumerState
<1>2. log \in Seq(Message) /\ Len(log) \in Nat
  BY DEF TypeOK
<1>3. Len(log') \in Nat /\ Len(log) <= Len(log') /\ \A i \in 1..Len(log) : log'[i] = log[i]
  BY <1>2, ElementsConcat
<1> QED BY <1>1, <1>2, <1>3 DEF OwnerInv

LEMMA OwnerStep ==
  ASSUME TypeOK, FiniteInv, OwnerInv, Next
  PROVE  OwnerInv'
<1>1. ASSUME UNCHANGED <<log, consumer>> PROVE OwnerInv'
  BY <1>1 DEF OwnerInv
<1>2. ASSUME NEW r \in Relays, RelayNext(r) PROVE OwnerInv'
  <2>1. CASE Publish(r) \/ PublishFails(r)
    <3>1. \E t \in Seq(Message) : log' = log \o t
      BY <2>1, PublishStep
    <3>2. UNCHANGED consumer
      BY <2>1, PublishStep
    <3> QED BY <3>1, <3>2, OwnerAppend
  <2>2. CASE ~(Publish(r) \/ PublishFails(r))
    BY <1>1, <1>2, <2>2 DEF RelayNext, Claim, LoadBehaviorDeliveries, Requeue, RequeueFails, Ack, RelayCrash
  <2> QED BY <2>1, <2>2
<1>3. ASSUME NEW c \in Consumers, ConsumerNext(c) PROVE OwnerInv'
  <2> DEFINE k == consumer[c]
  <2>t. /\ k \in ConsumerState
        /\ consumer \in [Consumers -> ConsumerState]
        /\ log \in Seq(Message)
    BY DEF TypeOK
  <2>1. CASE Fetch(c)
    <3>1. PICK n \in 1..FetchBatch :
            /\ n <= Len(log)
            /\ consumer' = [consumer EXCEPT ![c] =
                 [phase |-> "fetched", batch |-> SubSeq(log, 1, n), member |-> TRUE]]
      BY <2>1 DEF Fetch
    <3>2. Len(SubSeq(log, 1, n)) = n /\ \A i \in 1..n : SubSeq(log, 1, n)[i] = log[i]
      BY <2>t, <3>1, ElementsCut
    <3>3. log' = log /\ \A d \in Consumers : ~consumer[d].member
      BY <2>1 DEF Fetch
    <3> QED BY <2>t, <3>1, <3>2, <3>3 DEF OwnerInv
  <2>2. CASE ApplyRecords(c)
    <3>1. /\ consumer' = [consumer EXCEPT ![c].phase = "applied"]
          /\ log' = log
      BY <2>2 DEF ApplyRecords
    <3>2. \A d \in Consumers : /\ consumer'[d].member = consumer[d].member
                               /\ consumer'[d].batch = consumer[d].batch
                               /\ consumer'[d].phase \in {"applied", consumer[d].phase}
      BY <2>t, <3>1 DEF ConsumerState
    <3> QED BY <3>1, <3>2 DEF OwnerInv
  <2>3. CASE Commit(c)
    <3>1. consumer' = [consumer EXCEPT ![c] = IdleConsumer]
      BY <2>3 DEF Commit
    <3>2. ~IdleConsumer.member
      BY DEF IdleConsumer
    <3>3. CASE k.member
      <4>1. \A d \in Consumers : ~consumer'[d].member
        BY <2>t, <3>1, <3>2, <3>3 DEF OwnerInv
      <4> QED BY <4>1 DEF OwnerInv
    <3>4. CASE ~k.member
      <4>1. log' = log
        BY <2>3, <3>4 DEF Commit
      <4> QED BY <2>t, <3>1, <3>2, <4>1 DEF OwnerInv
    <3> QED BY <3>3, <3>4
  <2>4. CASE ConsumerCrash(c)
    <3>1. consumer' = [consumer EXCEPT ![c] = IdleConsumer] /\ log' = log
      BY <2>4 DEF ConsumerCrash
    <3>2. ~IdleConsumer.member
      BY DEF IdleConsumer
    <3> QED BY <2>t, <3>1, <3>2 DEF OwnerInv
  <2>5. CASE Rebalance(c)
    <3>1. consumer' = [consumer EXCEPT ![c].member = FALSE] /\ log' = log
      BY <2>5 DEF Rebalance
    <3>2. ~consumer'[c].member /\ \A d \in Consumers : d # c => consumer'[d] = consumer[d]
      BY <2>t, <3>1 DEF ConsumerState
    <3> QED BY <3>1, <3>2 DEF OwnerInv
  <2> QED BY <1>3, <2>1, <2>2, <2>3, <2>4, <2>5 DEF ConsumerNext
<1>4. ASSUME NEW q \in Pairs, PairNext(q) PROVE OwnerInv'
  <2>1. CASE ViewPost(q)
    <3>1. \E t \in Seq(Message) : log' = log \o t
      BY <2>1, ViewLog
    <3>2. UNCHANGED consumer
      BY <2>1 DEF ViewPost
    <3> QED BY <3>1, <3>2, OwnerAppend
  <2>2. CASE ~ViewPost(q)
    BY <1>1, <1>4, <2>2 DEF PairNext, Mutate, ReapAbandoned, ReapStalled, ReapScript
  <2> QED BY <2>1, <2>2
<1> QED BY <1>2, <1>3, <1>4 DEF Next

\* A pair state is queued or claimed: the scripts move a pair between the dirty
\* set and the claims in one step, and an acknowledgement that finds a newer
\* state queues it again.
LEMMA QueuedStep ==
  ASSUME TypeOK, QueuedInv, Next
  PROVE  QueuedInv'
<1> USE DEF QueuedInv, Occupied
<1>1. ASSUME UNCHANGED <<bstate, bdirty, claim, processing>> PROVE QueuedInv'
  BY <1>1
<1>2. ASSUME NEW r \in Relays, RelayNext(r) PROVE QueuedInv'
  <2>p. round[r].pend \in SUBSET Pairs
    BY DEF TypeOK, RoundState
  <2>1. CASE Claim(r)
    <3>1. PICK C \in SUBSET bdirty, t \in Tokens :
            LET S == {q \in C : ~Occupied(q)}
            IN /\ claim' = [q \in Pairs |-> IF q \in S THEN t ELSE claim[q]]
               /\ processing' = processing \cup S
               /\ bdirty' = bdirty \ S
      BY <2>1 DEF Claim
    <3>2. bstate' = bstate /\ C \in SUBSET Pairs /\ t # NoToken
      BY <2>1 DEF Claim, TypeOK
    <3> QED BY <3>1, <3>2
  <2>2. CASE Requeue(r)
    <3>1. PICK q \in Pairs : \E t : RequeueClaim(q, t)
      BY <2>2, <2>p DEF Requeue
    <3>2. bstate' = bstate /\ claim \in [Pairs -> Tokens \cup {NoToken}]
      BY <2>2 DEF Requeue, TypeOK
    <3> QED BY <3>1, <3>2 DEF RequeueClaim
  <2>3. CASE Ack(r)
    <3>1. PICK q \in Pairs : \E t, v : AckDelivery(q, t, v)
      BY <2>3, <2>p DEF Ack
    <3>2. claim \in [Pairs -> Tokens \cup {NoToken}] /\ bstate \in [Pairs -> Row]
      BY DEF TypeOK
    <3> QED BY <3>1, <3>2 DEF AckDelivery
  <2>4. CASE ~(Claim(r) \/ Requeue(r) \/ Ack(r))
    BY <1>1, <1>2, <2>4 DEF RelayNext, LoadBehaviorDeliveries, RequeueFails, RelayCrash, Publish, PublishFails, redisVars
  <2> QED BY <2>1, <2>2, <2>3, <2>4
<1>3. ASSUME NEW c \in Consumers, ConsumerNext(c) PROVE QueuedInv'
  BY <1>1, <1>3 DEF ConsumerNext, Fetch, ApplyRecords, Commit, ConsumerCrash, Rebalance, redisVars
<1>4. ASSUME NEW q \in Pairs, PairNext(q) PROVE QueuedInv'
  <2>t. claim \in [Pairs -> Tokens \cup {NoToken}] /\ bstate \in [Pairs -> Row]
    BY DEF TypeOK
  <2>1. CASE Mutate(q)
    BY <2>1, <2>t DEF Mutate
  <2>2. CASE ViewPost(q)
    BY <1>1, <2>2 DEF ViewPost, redisVars
  <2>3. CASE ReapScript(q)
    BY <2>3, <2>t DEF ReapScript
  <2> QED BY <1>4, <2>1, <2>2, <2>3 DEF PairNext, ReapAbandoned, ReapStalled
<1> QED BY <1>2, <1>3, <1>4 DEF Next

-----------------------------------------------------------------------------
(* States of a pair.                                                       *)

LEMMA HistoryStep ==
  ASSUME TypeOK, HistoryInv, Next
  PROVE  HistoryInv'
<1>1. ASSUME UNCHANGED <<version, like, past, bstate>> PROVE HistoryInv'
  BY <1>1 DEF HistoryInv
<1>2. ASSUME NEW r \in Relays, RelayNext(r) PROVE HistoryInv'
  <2>1. CASE Ack(r)
    <3>1. PICK q \in Pairs : \E t, v : AckDelivery(q, t, v)
      BY <2>1 DEF Ack, TypeOK, RoundState
    <3>2. \A x \in Pairs : bstate'[x] \in {NoRow, bstate[x]}
      BY <3>1 DEF AckDelivery, TypeOK
    <3>3. UNCHANGED <<version, like, past>>
      BY <2>1 DEF Ack
    <3> QED BY <3>2, <3>3 DEF HistoryInv
  <2>2. CASE ~Ack(r)
    BY <1>1, <1>2, <2>2 DEF RelayNext, Claim, LoadBehaviorDeliveries, Requeue, RequeueFails, RelayCrash,
                            Publish, PublishFails, redisVars
  <2> QED BY <2>1, <2>2
<1>3. ASSUME NEW c \in Consumers, ConsumerNext(c) PROVE HistoryInv'
  BY <1>1, <1>3 DEF ConsumerNext, Fetch, ApplyRecords, Commit, ConsumerCrash, Rebalance, redisVars
<1>4. ASSUME NEW q \in Pairs, PairNext(q) PROVE HistoryInv'
  <2>1. CASE Mutate(q)
    <3> DEFINE row == [liked |-> ~like[q].liked, version |-> version[q[2]] + 1]
    <3>1. /\ version' = [version EXCEPT ![q[2]] = @ + 1]
          /\ like' = [like EXCEPT ![q] = row]
          /\ past' = [past EXCEPT ![q] = @ \cup {row}]
          /\ bstate' = [bstate EXCEPT ![q] = row]
      BY <2>1 DEF Mutate
    <3>2. /\ \A x \in Pairs : x[2] \in Posts
          /\ version \in [Posts -> Nat] /\ like \in [Pairs -> Row]
          /\ past \in [Pairs -> SUBSET Row] /\ bstate \in [Pairs -> Row]
      BY DEF TypeOK, Pairs
    <3>3. \A x \in Pairs : version[x[2]] \in Nat /\ version'[x[2]] \in Nat /\ version[x[2]] <= version'[x[2]]
      BY <3>1, <3>2
    <3>4. row.version = version[q[2]] + 1 /\ version'[q[2]] = row.version
      BY <3>1, <3>2
    <3>5. \A x \in Pairs : like[x].version \in Nat /\ \A a \in past[x] : a.version \in Nat
      BY <3>2 DEF Row
    <3>6. /\ like'[q] = row /\ past'[q] = past[q] \cup {row} /\ bstate'[q] = row
          /\ \A x \in Pairs : x # q => like'[x] = like[x] /\ past'[x] = past[x] /\ bstate'[x] = bstate[x]
      BY <3>1, <3>2
    <3> HIDE DEF row
    <3>7. \A a \in past[q] : a.version < row.version
      BY <3>2, <3>4, <3>5 DEF HistoryInv
    <3>8. ASSUME NEW x \in Pairs
          PROVE  /\ like'[x] \in past'[x] /\ NoRow \in past'[x]
                 /\ \A a \in past'[x] : a.version <= like'[x].version
                 /\ \A a, b \in past'[x] : a.version = b.version => a = b
                 /\ like'[x].version <= version'[x[2]]
                 /\ bstate'[x] \in {NoRow, like'[x]}
      <4>1. CASE x = q
        BY <3>3, <3>4, <3>5, <3>6, <3>7, <4>1 DEF HistoryInv
      <4>2. CASE x # q
        BY <3>3, <3>5, <3>6, <4>2 DEF HistoryInv
      <4> QED BY <4>1, <4>2
    <3> QED BY <3>8 DEF HistoryInv
  <2>2. CASE ~Mutate(q)
    BY <1>1, <1>4, <2>2 DEF PairNext, ViewPost, ReapAbandoned, ReapStalled, ReapScript, redisVars
  <2> QED BY <2>1, <2>2
<1> QED BY <1>2, <1>3, <1>4 DEF Next

\* Past states stay past states.
LEMMA PastGrows ==
  ASSUME TypeOK, Next
  PROVE  \A q \in Pairs : past[q] \subseteq past'[q]
<1>1. ASSUME NEW r \in Relays, RelayNext(r) PROVE UNCHANGED past
  BY <1>1 DEF RelayNext, Claim, LoadBehaviorDeliveries, Requeue, RequeueFails, RelayCrash,
                            Publish, PublishFails, Ack, redisVars
<1>2. ASSUME NEW c \in Consumers, ConsumerNext(c) PROVE UNCHANGED past
  BY <1>2 DEF ConsumerNext, Fetch, ApplyRecords, Commit, ConsumerCrash, Rebalance, redisVars
<1>3. ASSUME NEW q \in Pairs, PairNext(q) PROVE \A x \in Pairs : past[x] \subseteq past'[x]
  <2>1. CASE Mutate(q)
    BY <2>1 DEF Mutate, TypeOK
  <2>2. CASE ~Mutate(q)
    BY <1>3, <2>2 DEF PairNext, ViewPost, ReapAbandoned, ReapStalled, ReapScript, redisVars
  <2> QED BY <2>1, <2>2
<1> QED BY <1>1, <1>2, <1>3 DEF Next

LEMMA TravelStep ==
  ASSUME TypeOK, FiniteInv, OwnerInv, HistoryInv, TravelInv, Next
  PROVE  TravelInv'
<1>g. ASSUME NEW m \in Message, Genuine(m) PROVE Genuine(m)'
  BY <1>g, PastGrows DEF Genuine, Message
<1>t. /\ log \in Seq(Message) /\ Elements(log) \in SUBSET Message
      /\ consumer \in [Consumers -> ConsumerState]
      /\ \A c \in Consumers : /\ consumer[c].batch \in Seq(Message)
                              /\ Elements(consumer[c].batch) \in SUBSET Message
      /\ round \in [Relays -> RoundState]
  BY ElementsFinite DEF TypeOK, ConsumerState
<1>l. ASSUME UNCHANGED log PROVE \A m \in Elements(log') : Genuine(m)'
  BY <1>l, <1>g, <1>t DEF TravelInv
<1>b. ASSUME UNCHANGED consumer
      PROVE  \A c \in Consumers : \A m \in Elements(consumer'[c].batch) : Genuine(m)'
  BY <1>b, <1>g, <1>t DEF TravelInv
<1>r. ASSUME UNCHANGED round PROVE \A r \in Relays, q \in Pairs : round'[r].sent[q] \in past'[q]
  BY <1>r, PastGrows DEF TravelInv
<1>2. ASSUME NEW r \in Relays, RelayNext(r) PROVE TravelInv'
  <2>s. ASSUME \A x \in Relays : x # r => round'[x] = round[x],
               \A q \in Pairs : round'[r].sent[q] \in {NoRow, round[r].sent[q], like[q]}
        PROVE  \A x \in Relays, q \in Pairs : round'[x].sent[q] \in past'[q]
    BY <2>s, PastGrows DEF TravelInv, HistoryInv
  <2>1. CASE Claim(r)
    <3>1. \A x \in Relays : x # r => round'[x] = round[x]
      BY <2>1, <1>t DEF Claim
    <3>2. \A q \in Pairs : round'[r].sent[q] = NoRow
      BY <2>1, <1>t DEF Claim, IdleRound
    <3>3. UNCHANGED <<log, consumer>>
      BY <2>1 DEF Claim
    <3> QED BY <2>s, <1>l, <1>b, <3>1, <3>2, <3>3 DEF TravelInv
  <2>2. CASE LoadBehaviorDeliveries(r)
    <3>1. \A x \in Relays : x # r => round'[x] = round[x]
      BY <2>2, <1>t DEF LoadBehaviorDeliveries
    <3>2. \A q \in Pairs : round'[r].sent[q] \in {NoRow, bstate[q]}
      BY <2>2, <1>t DEF LoadBehaviorDeliveries, RoundState
    <3>3. UNCHANGED <<log, consumer>>
      BY <2>2 DEF LoadBehaviorDeliveries
    <3>4. \A q \in Pairs : round'[r].sent[q] \in {NoRow, like[q]}
      BY <3>2 DEF HistoryInv
    <3> QED BY <2>s, <1>l, <1>b, <3>1, <3>3, <3>4 DEF TravelInv
  <2>3. CASE Requeue(r) \/ RequeueFails(r) \/ Ack(r) \/ RelayCrash(r)
    <3>1. RoundShrinks(r)
      BY <2>3, ShrinkingSteps
    <3>2. UNCHANGED <<log, consumer>>
      BY <2>3 DEF Requeue, RequeueFails, Ack, RelayCrash
    <3> QED BY <2>s, <1>l, <1>b, <3>1, <3>2 DEF TravelInv, RoundShrinks
  <2>4. CASE Publish(r) \/ PublishFails(r)
    <3>1. PICK S \in SUBSET round[r].pend, t \in Seq(Message) :
              /\ log' = log \o t
              /\ Elements(t) = {LikeMessage(q, round[r].sent[q]) : q \in S}
      BY <2>4, PublishStep
    <3>2. round' = [round EXCEPT ![r].phase = IF Publish(r) THEN "acking" ELSE "requeue"]
      BY <2>4, PublishStep
    <3>3. UNCHANGED <<consumer, past>>
      BY <2>4, PublishStep DEF redisVars
    <3>4. \A x \in Relays : round'[x].sent = round[x].sent
      BY <3>2, <1>t DEF RoundState
    <3>5. S \in SUBSET Pairs
      BY <1>t DEF RoundState
    <3>6. ASSUME NEW m \in Elements(t) PROVE Genuine(m)'
      <4>1. PICK q \in S : m = LikeMessage(q, round[r].sent[q])
        BY <3>1
      <4>2. m.kind = "like" /\ m.pair = q /\ m.row = round[r].sent[q]
        BY <4>1 DEF LikeMessage
      <4>3. m.row \in past'[m.pair]
        BY <3>3, <3>5, <4>2 DEF TravelInv
      <4> QED BY <4>2, <4>3 DEF Genuine
    <3>7. Elements(log') = Elements(log) \cup Elements(t)
      BY <3>1, <1>t, ElementsConcat
    <3>8. \A m \in Elements(log') : Genuine(m)'
      BY <3>1, <3>6, <3>7, <1>g, <1>t DEF TravelInv
    <3> QED BY <1>b, <3>3, <3>4, <3>8 DEF TravelInv
  <2> QED BY <1>2, <2>1, <2>2, <2>3, <2>4 DEF RelayNext
<1>3. ASSUME NEW c \in Consumers, ConsumerNext(c) PROVE TravelInv'
  <2> DEFINE k == consumer[c]
  <2>r. UNCHANGED round
    BY <1>3 DEF ConsumerNext, Fetch, ApplyRecords, Commit, ConsumerCrash, Rebalance
  <2>1. Elements(log') \in SUBSET Elements(log)
    <3>1. CASE Commit(c) /\ k.member
      <4>1. Len(k.batch) \in 0..Len(log)
        BY <3>1, <1>t DEF OwnerInv
      <4>2. log' = SubSeq(log, Len(k.batch) + 1, Len(log))
        BY <3>1 DEF Commit
      <4> QED BY <4>1, <4>2, <1>t, ElementsCut
    <3>2. CASE ~(Commit(c) /\ k.member)
      BY <1>3, <3>2 DEF ConsumerNext, Fetch, ApplyRecords, Commit, ConsumerCrash, Rebalance
    <3> QED BY <3>1, <3>2
  <2>2. /\ \A d \in Consumers : d # c => consumer'[d] = consumer[d]
        /\ Elements(consumer'[c].batch) \in SUBSET (Elements(k.batch) \cup Elements(log))
    <3>1. CASE Fetch(c)
      <4>1. PICK n \in 1..FetchBatch :
              /\ n <= Len(log)
              /\ consumer' = [consumer EXCEPT ![c] =
                   [phase |-> "fetched", batch |-> SubSeq(log, 1, n), member |-> TRUE]]
        BY <3>1 DEF Fetch
      <4>2. Elements(SubSeq(log, 1, n)) \in SUBSET Elements(log)
        BY <4>1, <1>t, ElementsCut
      <4> QED BY <4>1, <4>2, <1>t
    <3>2. CASE ApplyRecords(c)
      <4>1. consumer' = [consumer EXCEPT ![c].phase = "applied"]
        BY <3>2 DEF ApplyRecords
      <4> QED BY <4>1, <1>t DEF ConsumerState
    <3>3. CASE Commit(c) \/ ConsumerCrash(c)
      <4>1. consumer' = [consumer EXCEPT ![c] = IdleConsumer]
        BY <3>3 DEF Commit, ConsumerCrash
      <4>2. Elements(IdleConsumer.batch) = {}
        BY DEF IdleConsumer, Elements
      <4> QED BY <4>1, <4>2, <1>t
    <3>4. CASE Rebalance(c)
      <4>1. consumer' = [consumer EXCEPT ![c].member = FALSE]
        BY <3>4 DEF Rebalance
      <4> QED BY <4>1, <1>t DEF ConsumerState
    <3> QED BY <1>3, <3>1, <3>2, <3>3, <3>4 DEF ConsumerNext
  <2> QED BY <1>r, <1>g, <1>t, <2>r, <2>1, <2>2 DEF TravelInv
<1>4. ASSUME NEW q \in Pairs, PairNext(q) PROVE TravelInv'
  <2>1. UNCHANGED <<round, consumer>>
    BY <1>4 DEF PairNext, Mutate, ViewPost, ReapAbandoned, ReapStalled, ReapScript
  <2>2. CASE ViewPost(q)
    <3> DEFINE m == [kind |-> "view", pair |-> q, row |-> NoRow]
    <3>1. PICK t \in Seq(Message) : log' = log \o t /\ Elements(t) = {m}
      BY <2>2, ViewLog
    <3>2. Elements(log') = Elements(log) \cup {m}
      BY <3>1, <1>t, ElementsConcat
    <3>3. Genuine(m)'
      BY DEF Genuine
    <3>4. \A x \in Elements(log') : Genuine(x)'
      BY <3>2, <3>3, <1>g, <1>t DEF TravelInv
    <3> QED BY <1>r, <1>b, <2>1, <3>4 DEF TravelInv
  <2>3. CASE UNCHANGED log
    BY <1>r, <1>b, <1>l, <2>1, <2>3 DEF TravelInv
  <2> QED BY <1>4, <2>2, <2>3 DEF PairNext, Mutate, ReapAbandoned, ReapStalled, ReapScript
<1> QED BY <1>2, <1>3, <1>4 DEF Next

-----------------------------------------------------------------------------
(* The projection.                                                         *)

\* No step takes a reaction row back.
LEMMA ReactionGrows ==
  ASSUME TypeOK, Next, NEW q \in Pairs
  PROVE  /\ reaction[q].version \in Nat
         /\ reaction[q].version <= reaction'[q].version
<1>1. reaction[q].version \in Nat
  BY DEF TypeOK, Row
<1>2. CASE UNCHANGED sqlVars
  BY <1>1, <1>2 DEF sqlVars
<1>3. ASSUME NEW c \in Consumers, ApplyRecords(c)
      PROVE  reaction[q].version <= reaction'[q].version
  <2>1. CASE LikeMessage(q, reaction'[q]) \in FirstDeliveries(c) /\ reaction[q].version < reaction'[q].version
    <3>1. FirstDeliveries(c) \in SUBSET Message
      BY ElementsFinite DEF FirstDeliveries, TypeOK, ConsumerState
    <3>2. reaction'[q].version \in Nat
      BY <2>1, <3>1 DEF LikeMessage, Message, Row
    <3> QED BY <1>1, <2>1, <3>2
  <2> QED BY <1>1, <1>3, <2>1, AppliedRow
<1> QED BY <1>1, <1>2, <1>3, OnlyApplyWrites

\* After the transaction every state of the batch is in the reaction row, or an
\* at least as new one is: collapsing, the inbox and the version guard drop
\* nothing that is news.
LEMMA BatchCovered ==
  ASSUME TypeOK, HistoryInv, TravelInv, InboxInv, Next, NEW c \in Consumers, ApplyRecords(c),
         NEW m \in Elements(consumer[c].batch), m.kind = "like"
  PROVE  m.row.version <= reaction'[m.pair].version
<1> DEFINE q == m.pair
           first == FirstDeliveries(c)
           news == {n.row : n \in {x \in first : x.kind = "like" /\ x.pair = q}}
           rows == [x \in Pairs |-> {r \in Collapsed(first, x) : Supersedes(r, x)}]
           new(x) == CHOOSE r \in rows[x] : TRUE
<1>1. /\ consumer[c].batch \in Seq(Message)
      /\ Elements(consumer[c].batch) \in SUBSET Message
  BY ElementsFinite DEF TypeOK, ConsumerState
<1>2. /\ q \in Pairs /\ m.row.version \in Nat
      /\ reaction[q].version \in Nat /\ reaction[q].version <= reaction'[q].version
      /\ reaction \in [Pairs -> Row]
  BY <1>1, ReactionGrows DEF Message, Row, TypeOK
<1>3. CASE EventId(m) \in inbox
  <2>1. m.row.version <= reaction[q].version
    BY <1>3 DEF InboxInv, EventId
  <2>2. reaction'[q].version \in Nat
    <3>1. CASE reaction'[q] = reaction[q]
      BY <1>2, <3>1
    <3>2. CASE LikeMessage(q, reaction'[q]) \in first
      BY <1>1, <3>2 DEF FirstDeliveries, LikeMessage, Message, Row
    <3> QED BY <1>2, <3>1, <3>2, AppliedRow
  <2> QED BY <1>2, <2>1, <2>2
<1>4. CASE EventId(m) \notin inbox
  <2>1. m \in first /\ m.row \in news
    BY <1>4 DEF FirstDeliveries
  <2>2. first \in SUBSET Message
    BY <1>1 DEF FirstDeliveries
  <2>3. news \in SUBSET Row
    BY <2>2 DEF Message
  <2>4. like[q].version \in Nat /\ \A r \in news : r.version <= like[q].version
    <3>1. \A x \in first : Genuine(x)
      BY DEF FirstDeliveries, TravelInv
    <3>2. news \in SUBSET past[q]
      BY <3>1 DEF Genuine
    <3>3. like[q] \in Row
      BY <1>2 DEF TypeOK
    <3>4. \A r \in past[q] : r.version <= like[q].version
      BY <1>2 DEF HistoryInv
    <3> QED BY <3>2, <3>3, <3>4 DEF Row
  <2>5. PICK r \in news : \A s \in news : s.version <= r.version
    <3> HIDE DEF news
    <3> QED BY <2>1, <2>3, <2>4, NewestExists
  <2>6. Collapsed(first, q) = {x \in news : \A s \in news : s.version <= x.version}
    BY DEF Collapsed
  <2>7. reaction' = [x \in Pairs |-> IF x \in {y \in Pairs : rows[y] # {}} THEN new(x) ELSE reaction[x]]
    BY DEF ApplyRecords
  <2>8. rows[q] = {x \in Collapsed(first, q) : Supersedes(x, q)}
    BY <1>2
  <2>9. CASE rows[q] # {}
    <3>1. reaction'[q] = new(q) /\ new(q) \in rows[q]
      BY <1>2, <2>7, <2>9
    <3> HIDE DEF rows, news, first
    <3>2. reaction'[q] \in Collapsed(first, q)
      BY <3>1, <2>8
    <3> QED BY <3>2, <2>6, <2>1
  <2>10. CASE rows[q] = {}
    <3> HIDE DEF rows, news, first
    <3>1. reaction'[q] = reaction[q]
      BY <1>2, <2>7, <2>10
    <3>2. ~Supersedes(r, q)
      BY <2>10, <2>8, <2>6, <2>5
    <3>3. r.version <= reaction[q].version /\ m.row.version <= r.version /\ r.version \in Nat
      BY <3>2, <1>2, <2>1, <2>3, <2>5 DEF Supersedes, Row
    <3> QED BY <3>1, <3>3, <1>2
  <2> QED BY <2>9, <2>10
<1> QED BY <1>3, <1>4

LEMMA InboxStep ==
  ASSUME TypeOK, TypeOK', HistoryInv, TravelInv, InboxInv, Next
  PROVE  InboxInv'
<1>1. CASE UNCHANGED sqlVars
  BY <1>1 DEF sqlVars, InboxInv
<1>2. ASSUME NEW c \in Consumers, ApplyRecords(c) PROVE InboxInv'
  <2>1. inbox' = inbox \cup {EventId(m) : m \in FirstDeliveries(c)}
    BY <1>2 DEF ApplyRecords
  <2>2. ASSUME NEW e \in inbox, e[1] = "like" PROVE e[3] <= reaction'[e[2]].version
    <3>1. e[2] \in Pairs /\ e[3] \in Nat
      BY DEF TypeOK
    <3>2. e[3] <= reaction[e[2]].version
      BY <2>2 DEF InboxInv
    <3>3. reaction'[e[2]].version \in Nat
      BY <3>1 DEF TypeOK, Row
    <3> QED BY <3>1, <3>2, <3>3, ReactionGrows
  <2>3. ASSUME NEW m \in FirstDeliveries(c), EventId(m)[1] = "like"
        PROVE  EventId(m)[3] <= reaction'[EventId(m)[2]].version
    <3>1. m \in Elements(consumer[c].batch)
      BY DEF FirstDeliveries
    <3>2. m.kind = "like" /\ EventId(m)[2] = m.pair /\ EventId(m)[3] = m.row.version
      BY <2>3 DEF EventId
    <3> QED BY <1>2, <3>1, <3>2, BatchCovered
  <2> QED BY <2>1, <2>2, <2>3 DEF InboxInv
<1> QED BY <1>1, <1>2, OnlyApplyWrites

LEMMA AppliedStep ==
  ASSUME TypeOK, TypeOK', HistoryInv, TravelInv, InboxInv, AppliedInv, Next
  PROVE  AppliedInv'
<1>t. consumer \in [Consumers -> ConsumerState]
  BY DEF TypeOK
<1>m. ASSUME NEW d \in Consumers, NEW m \in Elements(consumer[d].batch), m.kind = "like",
             consumer[d].phase = "applied"
      PROVE  m.row.version <= reaction'[m.pair].version
  <2>1. m \in Message
    BY ElementsFinite DEF TypeOK, ConsumerState
  <2>2. m.pair \in Pairs /\ m.row.version \in Nat /\ reaction'[m.pair].version \in Nat
    BY <2>1 DEF Message, TypeOK, Row
  <2>3. m.row.version <= reaction[m.pair].version
    BY <1>m DEF AppliedInv
  <2> QED BY <2>2, <2>3, ReactionGrows
<1>1. ASSUME UNCHANGED consumer PROVE AppliedInv'
  BY <1>1, <1>m DEF AppliedInv
<1>2. ASSUME NEW r \in Relays, RelayNext(r) PROVE UNCHANGED consumer
  BY <1>2 DEF RelayNext, Claim, LoadBehaviorDeliveries, Requeue, RequeueFails, RelayCrash,
                            Publish, PublishFails, Ack
<1>3. ASSUME NEW c \in Consumers, ConsumerNext(c) PROVE AppliedInv'
  <2>1. CASE ApplyRecords(c)
    <3>1. consumer' = [consumer EXCEPT ![c].phase = "applied"]
      BY <2>1 DEF ApplyRecords
    <3>2. \A d \in Consumers : consumer'[d].batch = consumer[d].batch
      BY <3>1, <1>t DEF ConsumerState
    <3>3. \A d \in Consumers : d # c => consumer'[d] = consumer[d]
      BY <3>1, <1>t
    <3> QED BY <2>1, <1>m, <3>2, <3>3, BatchCovered DEF AppliedInv
  <2>2. CASE ~ApplyRecords(c)
    <3>1. \A d \in Consumers : consumer'[d].phase = "applied" =>
             consumer[d].phase = "applied" /\ consumer'[d].batch = consumer[d].batch
      <4>1. CASE Fetch(c)
        BY <4>1, <1>t DEF Fetch
      <4>2. CASE Commit(c) \/ ConsumerCrash(c)
        <5>1. consumer' = [consumer EXCEPT ![c] = IdleConsumer]
          BY <4>2 DEF Commit, ConsumerCrash
        <5> QED BY <5>1, <1>t DEF IdleConsumer
      <4>3. CASE Rebalance(c)
        <5>1. consumer' = [consumer EXCEPT ![c].member = FALSE]
          BY <4>3 DEF Rebalance
        <5> QED BY <5>1, <1>t DEF ConsumerState
      <4> QED BY <1>3, <2>2, <4>1, <4>2, <4>3 DEF ConsumerNext
    <3> QED BY <3>1, <1>m DEF AppliedInv
  <2> QED BY <2>1, <2>2
<1>4. ASSUME NEW q \in Pairs, PairNext(q) PROVE UNCHANGED consumer
  BY <1>4 DEF PairNext, Mutate, ViewPost, ReapAbandoned, ReapStalled, ReapScript
<1> QED BY <1>1, <1>2, <1>3, <1>4 DEF Next

\* What is in flight stays in flight: a message leaves the partition only when
\* its batch was applied.
LEMMA InFlightStays ==
  ASSUME TypeOK, TypeOK', FiniteInv, OwnerInv, AppliedInv, Next,
         NEW q \in Pairs, NEW row \in Row, InFlight(q, row)
  PROVE  InFlight(q, row)'
<1> DEFINE m == LikeMessage(q, row)
<1>1. CASE row.version <= reaction[q].version
  <2>1. row.version \in Nat /\ reaction'[q].version \in Nat
    BY DEF TypeOK, Row
  <2> QED BY <1>1, <2>1, ReactionGrows DEF InFlight
<1>2. CASE m \in Elements(log)
  <2>l. log \in Seq(Message)
    BY DEF TypeOK
  <2>g. ASSUME NEW t \in Seq(Message), log' = log \o t PROVE m \in Elements(log')
    BY <1>2, <2>l, <2>g, ElementsConcat
  <2>1. ASSUME NEW r \in Relays, RelayNext(r) PROVE m \in Elements(log')
    <3>1. CASE Publish(r) \/ PublishFails(r)
      <4>1. \E t \in Seq(Message) : log' = log \o t
        BY <3>1, PublishStep
      <4> QED BY <4>1, <2>g
    <3>2. CASE ~(Publish(r) \/ PublishFails(r))
      BY <1>2, <2>1, <3>2 DEF RelayNext, Claim, LoadBehaviorDeliveries, Requeue, RequeueFails, Ack, RelayCrash
    <3> QED BY <3>1, <3>2
  <2>2. ASSUME NEW c \in Consumers, ConsumerNext(c) PROVE InFlight(q, row)'
    <3>1. CASE Commit(c) /\ consumer[c].member
      <4> DEFINE b == consumer[c].batch
      <4>1. /\ b \in Seq(Message) /\ Len(b) \in 0..Len(log)
            /\ \A i \in 1..Len(b) : b[i] = log[i]
            /\ consumer[c].phase = "applied"
        BY <3>1 DEF OwnerInv, TypeOK, ConsumerState, Commit
      <4>2. log' = SubSeq(log, Len(b) + 1, Len(log)) /\ UNCHANGED reaction
        BY <3>1 DEF Commit, sqlVars
      <4> HIDE DEF b
      <4>3. m \in Elements(log') \/ m \in Elements(SubSeq(log, 1, Len(b)))
        BY <1>2, <2>l, <4>1, <4>2, ElementsCut
      <4>4. Elements(SubSeq(log, 1, Len(b))) = Elements(b)
        <5> DEFINE a == SubSeq(log, 1, Len(b))
        <5>1. Len(a) = Len(b) /\ \A i \in 1..Len(b) : a[i] = log[i]
          BY <2>l, <4>1, ElementsCut
        <5> HIDE DEF a
        <5>2. Elements(a) = Elements(b)
          BY <4>1, <5>1 DEF Elements
        <5> QED BY <5>2 DEF a
      <4>5. m.kind = "like" /\ m.row = row /\ m.pair = q
        BY DEF LikeMessage
      <4>6. m \in Elements(b) => row.version <= reaction[q].version
        BY <4>1, <4>5 DEF AppliedInv, b
      <4> QED BY <4>2, <4>3, <4>4, <4>6 DEF InFlight
    <3>2. CASE ~(Commit(c) /\ consumer[c].member)
      <4>1. UNCHANGED log
        BY <2>2, <3>2 DEF ConsumerNext, Fetch, ApplyRecords, Commit, ConsumerCrash, Rebalance
      <4> QED BY <1>2, <4>1 DEF InFlight
    <3> QED BY <3>1, <3>2
  <2>3. ASSUME NEW x \in Pairs, PairNext(x) PROVE m \in Elements(log')
    <3>1. CASE ViewPost(x)
      <4>1. \E t \in Seq(Message) : log' = log \o t
        BY <3>1, ViewLog
      <4> QED BY <4>1, <2>g
    <3>2. CASE ~ViewPost(x)
      BY <1>2, <2>3, <3>2 DEF PairNext, Mutate, ReapAbandoned, ReapStalled, ReapScript
    <3> QED BY <3>1, <3>2
  <2> QED BY <2>1, <2>2, <2>3 DEF Next, InFlight
<1> QED BY <1>1, <1>2 DEF InFlight

LEMMA PublishedStep ==
  ASSUME TypeOK, TypeOK', FiniteInv, OwnerInv, AppliedInv, PublishedInv, Next
  PROVE  PublishedInv'
<1>t. /\ round \in [Relays -> RoundState]
      /\ \A r \in Relays, q \in Pairs : round[r].sent[q] \in Row
      /\ \A r \in Relays : round[r].pend \in SUBSET Pairs
  BY DEF TypeOK, RoundState
<1>f. ASSUME NEW r \in Relays, round[r].phase = "acking", NEW q \in round[r].pend,
             NEW row, row = round[r].sent[q]
      PROVE  InFlight(q, row)'
  BY <1>f, <1>t, InFlightStays DEF PublishedInv
<1>k. ASSUME NEW r \in Relays,
             round'[r].phase = "acking" =>
               /\ round[r].phase = "acking"
               /\ round'[r].pend \subseteq round[r].pend
               /\ \A q \in round'[r].pend : round'[r].sent[q] = round[r].sent[q]
      PROVE  round'[r].phase = "acking" =>
               \A q \in round'[r].pend : InFlight(q, round[r].sent[q])'
  <2> SUFFICES ASSUME round'[r].phase = "acking", NEW q \in round'[r].pend
               PROVE  InFlight(q, round[r].sent[q])'
    OBVIOUS
  <2>1. PICK row : row = round[r].sent[q]
    OBVIOUS
  <2>2. InFlight(q, row)' /\ row = round'[r].sent[q]
    BY <1>f, <1>k, <2>1
  <2> QED BY <2>2
<1>2. ASSUME NEW r \in Relays, RelayNext(r) PROVE PublishedInv'
  <2>1. CASE Claim(r)
    <3>1. round'[r].phase # "acking" /\ \A x \in Relays : x # r => round'[x] = round[x]
      BY <2>1, <1>t DEF Claim, IdleRound
    <3> QED BY <3>1, <1>k DEF PublishedInv
  <2>2. CASE LoadBehaviorDeliveries(r)
    <3>1. round'[r].phase # "acking" /\ \A x \in Relays : x # r => round'[x] = round[x]
      BY <2>2, <1>t DEF LoadBehaviorDeliveries, RoundState
    <3> QED BY <3>1, <1>k DEF PublishedInv
  <2>3. CASE Requeue(r) \/ RequeueFails(r) \/ Ack(r) \/ RelayCrash(r)
    <3>1. RoundShrinks(r)
      BY <2>3, ShrinkingSteps
    <3> QED BY <3>1, <1>k DEF PublishedInv, RoundShrinks
  <2>4. CASE PublishFails(r) \/ Publish(r)
    <3>1. round' = [round EXCEPT ![r].phase = IF Publish(r) THEN "acking" ELSE "requeue"]
      BY <2>4, PublishStep
    <3>2. /\ \A x \in Relays : x # r => round'[x] = round[x]
          /\ round'[r].phase = "acking" => Publish(r)
          /\ round'[r].pend = round[r].pend /\ round'[r].sent = round[r].sent
      BY <3>1, <1>t DEF RoundState
    <3>3. ASSUME Publish(r), NEW q \in round'[r].pend PROVE InFlight(q, round[r].sent[q])'
      <4>1. PICK t \in Seq(Message) :
                /\ log' = log \o t
                /\ Elements(t) = {LikeMessage(x, round[r].sent[x]) : x \in round[r].pend}
        BY <3>3, PublishStep
      <4>2. LikeMessage(q, round[r].sent[q]) \in Elements(log')
        BY <3>2, <4>1, ElementsConcat DEF TypeOK
      <4>3. LikeMessage(q, round'[r].sent[q]) \in Elements(log')
        BY <3>2, <4>2
      <4> QED BY <4>3 DEF InFlight, LikeMessage
    <3> QED BY <3>2, <3>3, <1>k DEF PublishedInv
  <2> QED BY <1>2, <2>1, <2>2, <2>3, <2>4 DEF RelayNext
<1>3. ASSUME UNCHANGED round PROVE PublishedInv'
  BY <1>3, <1>k DEF PublishedInv
<1>4. ASSUME NEW c \in Consumers, ConsumerNext(c) PROVE UNCHANGED round
  BY <1>4 DEF ConsumerNext, Fetch, ApplyRecords, Commit, ConsumerCrash, Rebalance
<1>5. ASSUME NEW q \in Pairs, PairNext(q) PROVE UNCHANGED round
  BY <1>5 DEF PairNext, Mutate, ViewPost, ReapAbandoned, ReapStalled, ReapScript
<1> QED BY <1>2, <1>3, <1>4, <1>5 DEF Next

\* An acknowledgement deletes the newest state of a pair only when that very
\* state was published: versions name states, so a change made after the read
\* is seen.
LEMMA KeptStep ==
  ASSUME TypeOK, TypeOK', FiniteInv, OwnerInv, AppliedInv, HistoryInv, TravelInv,
         PublishedInv, KeptInv, Next
  PROVE  KeptInv'
<1>t. \A q \in Pairs : like[q] \in Row /\ bstate[q] \in Row
  BY DEF TypeOK
<1>f. ASSUME NEW q \in Pairs, NEW row, row = like[q], InFlight(q, row) PROVE InFlight(q, row)'
  BY <1>f, <1>t, InFlightStays
<1>k. ASSUME NEW q \in Pairs, like'[q] = like[q], bstate'[q] = bstate[q] \/ InFlight(q, like[q])
      PROVE  bstate'[q] = like'[q] \/ InFlight(q, like[q])'
  <2>1. PICK row : row = like[q]
    OBVIOUS
  <2>2. bstate'[q] = like'[q] \/ InFlight(q, row)
    BY <1>k, <2>1 DEF KeptInv
  <2>3. bstate'[q] = like'[q] \/ InFlight(q, row)'
    BY <1>f, <2>1, <2>2
  <2> QED BY <1>k, <2>1, <2>3
<1>1. ASSUME UNCHANGED <<like, bstate>> PROVE KeptInv'
  BY <1>1, <1>k DEF KeptInv
<1>2. ASSUME NEW r \in Relays, RelayNext(r) PROVE KeptInv'
  <2>1. CASE Ack(r)
    <3>1. PICK q \in round[r].pend : AckDelivery(q, round[r].tok, round[r].sent[q].version)
      BY <2>1 DEF Ack
    <3>2. q \in Pairs /\ UNCHANGED like /\ round[r].phase = "acking"
      BY <2>1 DEF Ack, TypeOK, RoundState
    <3>3. /\ \A x \in Pairs : x # q => bstate'[x] = bstate[x]
          /\ bstate'[q] = bstate[q] \/ bstate[q].version = round[r].sent[q].version
      BY <3>1, <3>2 DEF AckDelivery, TypeOK
    <3>4. ASSUME bstate[q] = like[q], bstate[q].version = round[r].sent[q].version
          PROVE  InFlight(q, like[q])
      <4>1. round[r].sent[q] = like[q]
        BY <3>2, <3>4 DEF HistoryInv, TravelInv
      <4>2. InFlight(q, round[r].sent[q])
        BY <3>2 DEF PublishedInv
      <4> QED BY <4>1, <4>2
    <3>5. bstate'[q] = bstate[q] \/ InFlight(q, like[q])
      BY <3>2, <3>3, <3>4 DEF KeptInv
    <3> QED BY <3>2, <3>3, <3>5, <1>k DEF KeptInv
  <2>2. CASE ~Ack(r)
    BY <1>1, <1>2, <2>2 DEF RelayNext, Claim, LoadBehaviorDeliveries, Requeue, RequeueFails, RelayCrash,
                            Publish, PublishFails, redisVars
  <2> QED BY <2>1, <2>2
<1>3. ASSUME NEW c \in Consumers, ConsumerNext(c) PROVE KeptInv'
  BY <1>1, <1>3 DEF ConsumerNext, Fetch, ApplyRecords, Commit, ConsumerCrash, Rebalance, redisVars
<1>4. ASSUME NEW q \in Pairs, PairNext(q) PROVE KeptInv'
  <2>1. CASE Mutate(q)
    <3>1. /\ like'[q] = bstate'[q]
          /\ \A x \in Pairs : x # q => like'[x] = like[x] /\ bstate'[x] = bstate[x]
      BY <2>1 DEF Mutate, TypeOK
    <3> QED BY <3>1, <1>k DEF KeptInv
  <2>2. CASE ~Mutate(q)
    BY <1>1, <1>4, <2>2 DEF PairNext, ViewPost, ReapAbandoned, ReapStalled, ReapScript, redisVars
  <2> QED BY <2>1, <2>2
<1> QED BY <1>2, <1>3, <1>4 DEF Next

\* Rows and activities are written together, one for one.
LEMMA ActivityStep ==
  ASSUME TypeOK, TypeOK', ActivitiesMatchReactions, Next
  PROVE  ActivitiesMatchReactions'
<1>1. CASE UNCHANGED sqlVars
  BY <1>1 DEF sqlVars, ActivitiesMatchReactions
<1>2. ASSUME NEW c \in Consumers, ApplyRecords(c), NEW q \in Pairs
      PROVE  /\ \A i, j \in 1..Len(activity'[q]) : i < j => activity'[q][i].version < activity'[q][j].version
             /\ reaction'[q] = IF activity'[q] = <<>> THEN NoRow ELSE activity'[q][Len(activity'[q])]
  <2> DEFINE a == activity[q]
             row == reaction'[q]
  <2>t. a \in Seq(Row) /\ row \in Row /\ row.version \in Nat /\ Len(a) \in Nat
        /\ \A i \in 1..Len(a) : a[i].version \in Nat
    <3>1. a \in Seq(Row) /\ row \in Row
      BY DEF TypeOK
    <3>2. \A x \in Row : x.version \in Nat
      BY DEF Row
    <3> HIDE DEF a, row
    <3>3. Len(a) \in Nat /\ \A i \in 1..Len(a) : a[i] \in Row
      BY <3>1
    <3> QED BY <3>1, <3>2, <3>3
  <2>i. /\ \A i, j \in 1..Len(a) : i < j => a[i].version < a[j].version
        /\ reaction[q] = IF a = <<>> THEN NoRow ELSE a[Len(a)]
    BY DEF ActivitiesMatchReactions
  <2>1. CASE row = reaction[q] /\ activity'[q] = a
    BY <2>1, <2>i
  <2>2. CASE reaction[q].version < row.version /\ activity'[q] = Append(a, row)
    <3> HIDE DEF a, row
    <3>1. /\ Len(Append(a, row)) = Len(a) + 1
          /\ Append(a, row)[Len(a) + 1] = row
          /\ \A i \in 1..Len(a) : Append(a, row)[i] = a[i]
          /\ Append(a, row) # <<>>
      BY <2>t
    <3>2. ASSUME NEW i \in 1..Len(a) PROVE a[i].version < row.version
      <4>1. a # <<>> /\ Len(a) \in 1..Len(a)
        BY <2>t, EmptySeq
      <4>2. reaction[q] = a[Len(a)]
        BY <2>i, <4>1
      <4>3. i = Len(a) \/ a[i].version < a[Len(a)].version
        BY <2>t, <2>i, <4>1
      <4> QED BY <2>t, <2>2, <4>1, <4>2, <4>3
    <3>3. \A i, j \in 1..(Len(a) + 1) : i < j => Append(a, row)[i].version < Append(a, row)[j].version
      <4> SUFFICES ASSUME NEW i \in 1..(Len(a) + 1), NEW j \in 1..(Len(a) + 1), i < j
                   PROVE  Append(a, row)[i].version < Append(a, row)[j].version
        OBVIOUS
      <4>1. i \in 1..Len(a)
        BY <2>t
      <4>2. CASE j = Len(a) + 1
        BY <3>1, <3>2, <4>1, <4>2
      <4>3. CASE j \in 1..Len(a)
        BY <2>i, <3>1, <4>1, <4>3
      <4> QED BY <2>t, <4>2, <4>3
    <3> QED BY <2>2, <3>1, <3>3 DEF row
  <2> QED BY <1>2, <2>1, <2>2, AppliedRow
<1> QED BY <1>1, <1>2, OnlyApplyWrites DEF ActivitiesMatchReactions

\* An event id counts once: a view that the inbox knows is not counted again,
\* and the batch itself holds at most one copy per pair that counts.
LEMMA ViewStep ==
  ASSUME TypeOK, TravelInv, ViewersFinite, ViewsCountOnce, Next
  PROVE  ViewersFinite' /\ ViewsCountOnce'
<1>1. CASE UNCHANGED sqlVars
  BY <1>1 DEF sqlVars, ViewersFinite, ViewsCountOnce
<1>2. ASSUME NEW c \in Consumers, ApplyRecords(c) PROVE ViewersFinite' /\ ViewsCountOnce'
  <2> DEFINE first == FirstDeliveries(c)
             view(q) == [kind |-> "view", pair |-> q, row |-> NoRow]
  <2>1. first \in SUBSET Message /\ IsFiniteSet(first)
    <3>1. consumer[c].batch \in Seq(Message)
      BY DEF TypeOK, ConsumerState
    <3>2. first \in SUBSET Elements(consumer[c].batch)
      BY DEF FirstDeliveries
    <3> QED BY <3>1, <3>2, ElementsFinite, FS_Subset
  <2>2. \A m \in first : EventId(m) \notin inbox /\ Genuine(m)
    BY DEF FirstDeliveries, TravelInv
  <2>3. ASSUME NEW m \in first, m.kind = "view" PROVE m = view(m.pair)
    BY <2>1, <2>2, <2>3 DEF Genuine, Message
  <2>4. \A q \in Pairs : EventId(view(q)) = <<"view", q, 0>>
    BY DEF EventId, NoRow
  <2>5. inbox' = inbox \cup {EventId(m) : m \in first}
    BY <1>2 DEF ApplyRecords
  <2>6. ASSUME NEW q \in Pairs
        PROVE  /\ <<"view", q, 0>> \in inbox' <=> <<"view", q, 0>> \in inbox \/ view(q) \in first
               /\ view(q) \in first => <<"view", q, 0>> \notin inbox
    <3>1. ASSUME NEW m \in first, EventId(m) = <<"view", q, 0>> PROVE m = view(q)
      <4>1. m.kind = "view" /\ m.pair = q
        BY <3>1 DEF EventId
      <4> QED BY <2>3, <4>1
    <3> HIDE DEF view, first
    <3> QED BY <2>2, <2>4, <2>5, <3>1
  <2>7. ASSUME NEW q \in Pairs
        PROVE  behavior'[q] = IF <<"view", q, 0>> \in inbox' THEN 1 ELSE 0
    <3>1. behavior'[q] = behavior[q] + Cardinality(ViewsOf(first, q))
      BY <1>2 DEF ApplyRecords
    <3>2. behavior[q] = IF <<"view", q, 0>> \in inbox THEN 1 ELSE 0
      BY DEF ViewsCountOnce
    <3>3. ViewsOf(first, q) = IF view(q) \in first THEN {view(q)} ELSE {}
      BY <2>3 DEF ViewsOf
    <3>4. Cardinality(ViewsOf(first, q)) = IF view(q) \in first THEN 1 ELSE 0
      <4> HIDE DEF view
      <4> QED BY <3>3, FS_EmptySet, FS_Singleton
    <3> HIDE DEF view, first
    <3> QED BY <3>1, <3>2, <3>4, <2>6
  <2>8. ASSUME NEW p \in Posts
        PROVE  /\ IsFiniteSet({u \in Users : <<"view", <<u, p>>, 0>> \in inbox'})
               /\ viewCount'[p] = Cardinality({u \in Users : <<"view", <<u, p>>, 0>> \in inbox'})
    <3> DEFINE seen == {m \in first : m.kind = "view" /\ m.pair[2] = p}
               old == {u \in Users : <<"view", <<u, p>>, 0>> \in inbox}
               new == {u \in Users : view(<<u, p>>) \in first}
    <3>1. viewCount'[p] = viewCount[p] + Cardinality(seen)
      BY <1>2 DEF ApplyRecords
    <3>2. viewCount[p] = Cardinality(old) /\ IsFiniteSet(old)
      BY DEF ViewsCountOnce, ViewersFinite
    <3>3. \A u \in Users : <<u, p>> \in Pairs
      BY DEF Pairs
    <3>4. {u \in Users : <<"view", <<u, p>>, 0>> \in inbox'} = old \cup new /\ old \cap new = {}
      BY <2>6, <3>3
    <3>5. IsFiniteSet(seen)
      BY <2>1, FS_Subset
    <3> DEFINE f == [m \in seen |-> m.pair[1]]
    <3>6. ASSUME NEW m \in seen
          PROVE  m.pair[1] \in Users /\ m = view(<<m.pair[1], p>>) /\ m.pair[1] \in new
      <4>1. m \in first /\ m.kind = "view" /\ m.pair[2] = p
        OBVIOUS
      <4>2. m.pair \in Users \X Posts
        BY <2>1, <4>1 DEF Message, Pairs
      <4>3. m.pair = <<m.pair[1], p>> /\ m.pair[1] \in Users
        BY <4>1, <4>2
      <4>4. m = view(m.pair)
        BY <2>3, <4>1
      <4> QED BY <4>1, <4>3, <4>4
    <3>7. ASSUME NEW u \in new PROVE view(<<u, p>>) \in seen /\ view(<<u, p>>).pair[1] = u
      OBVIOUS
    <3>8. f \in Bijection(seen, new)
      <4> HIDE DEF seen, new, view
      <4>1. f \in [seen -> new]
        BY <3>6
      <4>2. \A a, b \in seen : f[a] = f[b] => a = b
        BY <3>6
      <4>3. \A u \in new : \E m \in seen : f[m] = u
        BY <3>7
      <4> QED BY <4>1, <4>2, <4>3, Fun_IsBij
    <3>9. IsFiniteSet(new) /\ Cardinality(new) = Cardinality(seen)
      <4>1. ExistsBijection(seen, new)
        BY <3>8 DEF ExistsBijection
      <4> HIDE DEF seen, new
      <4> QED BY <4>1, <3>5, FS_Bijection
    <3> HIDE DEF seen, old, new
    <3>10. IsFiniteSet(old \cup new) /\ Cardinality(old \cup new) = Cardinality(old) + Cardinality(new)
      <4>1. Cardinality(old \cup new) = Cardinality(old) + Cardinality(new) - Cardinality(old \cap new)
        BY <3>2, <3>9, FS_Union
      <4>2. Cardinality(old \cap new) = 0
        BY <3>4, FS_EmptySet
      <4>3. Cardinality(old) \in Nat /\ Cardinality(new) \in Nat
        BY <3>2, <3>9, FS_CardinalityType
      <4>4. IsFiniteSet(old \cup new)
        BY <3>2, <3>9, FS_Union
      <4> QED BY <4>1, <4>2, <4>3, <4>4
    <3> QED BY <3>1, <3>2, <3>4, <3>9, <3>10
  <2> QED BY <2>7, <2>8 DEF ViewersFinite, ViewsCountOnce
<1> QED BY <1>1, <1>2, OnlyApplyWrites

-----------------------------------------------------------------------------
(* The theorems.                                                           *)

LEMMA InitInv == Init => IInv
<1> SUFFICES ASSUME Init PROVE IInv
  OBVIOUS
<1>1. FiniteInv
  BY FS_EmptySet DEF Init, FiniteInv, IdleRound
<1>2. OwnerInv /\ AppliedInv /\ PublishedInv /\ InboxInv
  BY DEF Init, OwnerInv, AppliedInv, PublishedInv, InboxInv, IdleRound, IdleConsumer
<1>3. HistoryInv
  <2>1. \A q \in Pairs : q[2] \in Posts
    BY DEF Pairs
  <2>2. NoRow.version = 0
    BY DEF NoRow
  <2> QED BY <2>1, <2>2 DEF Init, HistoryInv
<1>4. TravelInv
  <2>1. Elements(<<>>) = {}
    BY DEF Elements
  <2> QED BY <2>1 DEF Init, TravelInv, IdleRound, IdleConsumer
<1>5. KeptInv /\ QueuedInv
  BY DEF Init, KeptInv, QueuedInv, Occupied
<1>6. ViewersFinite /\ ViewsCountOnce
  <2>1. \A p \in Posts : {u \in Users : <<"view", <<u, p>>, 0>> \in inbox} = {}
    BY DEF Init
  <2> QED BY <2>1, FS_EmptySet DEF Init, ViewersFinite, ViewsCountOnce
<1>7. ActivitiesMatchReactions
  BY DEF Init, ActivitiesMatchReactions
<1> QED BY InitType, <1>1, <1>2, <1>3, <1>4, <1>5, <1>6, <1>7 DEF IInv

LEMMA NextInv == IInv /\ [Next]_vars => IInv'
<1> SUFFICES ASSUME IInv, [Next]_vars PROVE IInv'
  OBVIOUS
<1> USE DEF IInv
<1>1. CASE Next
  <2>1. TypeOK'
    BY <1>1, RelayType, ConsumerType, PairType DEF Next
  <2>2. FiniteInv' /\ OwnerInv' /\ QueuedInv'
    BY <1>1, FiniteStep, OwnerStep, QueuedStep
  <2>3. HistoryInv' /\ TravelInv'
    BY <1>1, HistoryStep, TravelStep
  <2>4. AppliedInv' /\ InboxInv'
    BY <1>1, <2>1, AppliedStep, InboxStep
  <2>5. PublishedInv' /\ KeptInv'
    BY <1>1, <2>1, PublishedStep, KeptStep
  <2>6. ActivitiesMatchReactions' /\ ViewersFinite' /\ ViewsCountOnce'
    BY <1>1, <2>1, ActivityStep, ViewStep
  <2> QED BY <2>1, <2>2, <2>3, <2>4, <2>5, <2>6
<1>2. CASE UNCHANGED vars
  <2> USE <1>2 DEF vars, redisVars, sqlVars
  <2>1. TypeOK' /\ FiniteInv' /\ OwnerInv'
    BY DEF TypeOK, FiniteInv, OwnerInv
  <2>2. HistoryInv' /\ QueuedInv'
    BY DEF HistoryInv, QueuedInv, Occupied
  <2>3. TravelInv' /\ AppliedInv' /\ InboxInv'
    BY DEF TravelInv, Genuine, AppliedInv, InboxInv
  <2>4. PublishedInv' /\ KeptInv'
    BY DEF PublishedInv, KeptInv, InFlight
  <2>5. ViewersFinite' /\ ViewsCountOnce' /\ ActivitiesMatchReactions'
    BY DEF ViewersFinite, ActivitiesMatchReactions, ViewsCountOnce
  <2> QED BY <2>1, <2>2, <2>3, <2>4, <2>5
<1> QED BY <1>1, <1>2

\* Every reachable state satisfies the inductive invariant.
THEOREM Invariant == Spec => []IInv
<1>1. Init => IInv
  BY InitInv
<1>2. IInv /\ [Next]_vars => IInv'
  BY NextInv
<1> QED BY <1>1, <1>2, PTL DEF Spec

\* Nothing a user said is lost on the way to post_reaction, whatever crashes,
\* fails or is reaped, and no state lies in Redis without a queue entry or a
\* claim that will move it.
THEOREM NothingLost == Spec => []BehaviorQueued
<1>1. IInv => BehaviorQueued
  <2> SUFFICES ASSUME IInv PROVE BehaviorQueued
    OBVIOUS
  <2> USE DEF IInv
  <2>1. StatesAreQueued
    BY DEF StatesAreQueued, QueuedInv
  <2>2. ASSUME NEW q \in Pairs, reaction[q].version < like[q].version
        PROVE  \/ bstate[q] = like[q] /\ (q \in bdirty \/ Occupied(q))
               \/ [kind |-> "like", pair |-> q, row |-> like[q]] \in Elements(log)
    <3>1. reaction[q].version \in Nat /\ like[q].version \in Nat
      BY DEF TypeOK, Row
    <3>2. like[q] # NoRow
      BY <2>2, <3>1 DEF NoRow
    <3>3. CASE bstate[q] = like[q]
      BY <3>2, <3>3 DEF QueuedInv
    <3>4. CASE InFlight(q, like[q])
      BY <2>2, <3>1, <3>4 DEF InFlight, LikeMessage
    <3> QED BY <3>3, <3>4 DEF KeptInv
  <2> QED BY <2>1, <2>2 DEF BehaviorQueued, NoLostBehavior
<1> QED BY Invariant, <1>1, PTL

\* However often an event is delivered, by however many owners of the partition,
\* its effect on rows, activities and counters is that of one delivery.
THEOREM AppliedOnce == Spec => []ProjectedOnce
<1>1. IInv => ProjectedOnce
  BY DEF IInv, ProjectedOnce
<1> QED BY Invariant, <1>1, PTL

\* A reaction row moves only to a newer state, one the pair really had, and the
\* same transaction invalidates the user's recommendation profile.
THEOREM MovesForward == Spec => ReactionsMoveForward
<1> DEFINE A == \A q \in Pairs : reaction'[q] # reaction[q] =>
                  /\ reaction'[q].version > reaction[q].version
                  /\ reaction'[q] \in past[q]
                  /\ q[1] \in profileDirty'
<1>1. IInv /\ [Next]_vars => [A]_vars
  <2> SUFFICES ASSUME IInv, Next PROVE A
    OBVIOUS
  <2> USE DEF IInv
  <2>1. CASE UNCHANGED sqlVars
    BY <2>1 DEF sqlVars
  <2>2. ASSUME NEW c \in Consumers, ApplyRecords(c), NEW q \in Pairs, reaction'[q] # reaction[q]
        PROVE  /\ reaction'[q].version > reaction[q].version
               /\ reaction'[q] \in past[q]
               /\ q[1] \in profileDirty'
    <3> DEFINE m == LikeMessage(q, reaction'[q])
    <3>1. m \in FirstDeliveries(c) /\ reaction[q].version < reaction'[q].version
      BY <2>2, AppliedRow
    <3>2. m.pair = q /\ m.kind = "like" /\ m.row = reaction'[q]
      BY DEF LikeMessage
    <3>3. Genuine(m)
      BY <3>1 DEF FirstDeliveries, TravelInv
    <3>4. profileDirty' = profileDirty \cup {x.pair[1] : x \in FirstDeliveries(c)}
      BY <2>2 DEF ApplyRecords
    <3> HIDE DEF m
    <3>5. reaction[q].version \in Nat /\ reaction'[q].version \in Nat
      <4>1. TypeOK'
        BY <2>2, ConsumerType DEF ConsumerNext
      <4> QED BY <4>1 DEF TypeOK, Row
    <3>6. reaction'[q].version > reaction[q].version
      BY <3>1, <3>5
    <3>7. reaction'[q] \in past[q]
      BY <3>2, <3>3 DEF Genuine
    <3>8. q[1] \in profileDirty'
      BY <3>1, <3>2, <3>4
    <3> QED BY <3>6, <3>7, <3>8
  <2> QED BY <2>1, <2>2, OnlyApplyWrites
<1> QED BY Invariant, <1>1, PTL DEF Spec, ReactionsMoveForward

==============================================================================

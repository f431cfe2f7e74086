--------------------------- MODULE Requests_proofs ---------------------------
(***************************************************************************)
(* Proofs about the services that answer requests: RefreshSession, for any *)
(* sets of sessions, requests, handlers and passwords, any lifetimes and   *)
(* any bounds; and PostReads with the lists it scrolls and the translator, *)
(* for any actors, tables, page size, processes, callers and texts.        *)
(***************************************************************************)
EXTENDS RefreshSession, PostReads, FiniteSetTheorems, WellFoundedInduction, TLAPS

-----------------------------------------------------------------------------
(* Translating a Post: the invariant.                                      *)

FlightPcs == {"none", "admit", "full", "queued", "leaving", "held", "provider", "store"}
CallerPcs == {"new", "read", "join", "wait"} \cup Answers
TextFlight == [pc : FlightPcs, dead : BOOLEAN, late : BOOLEAN]
TextCaller == [pc : CallerPcs, key : Nat]

TranslationShape ==
  /\ work \in [Texts -> TextFlight] /\ caller \in [Callers -> TextCaller]
  /\ slots \in Nat /\ waiters \in Nat /\ closed \in BOOLEAN
  /\ paid \in [Texts -> Nat]

\* Who asks has a key, who waits is waited for, and an error is not of another's making.
CallerOK(q) ==
  /\ q.pc # "new" => q.key \in Texts
  /\ q.pc = "wait" => work[q.key].pc # "none"
  /\ q.pc = "error" => mishaps \cap {"deadline", "provider"} # {}

CallersOK == \A c \in Callers : CallerOK(caller[c])

\* The time of the work is not up by itself; and what was begun after Close knows of it.
EndOK(f) ==
  /\ f.dead => closed \/ "deadline" \in mishaps
  /\ f.late => closed /\ f.pc \notin {"provider", "store"}

\* A translation that was paid for is in the cache, or on its way there; the provider is
\* asked only for one that was not.
PaidOK(k) ==
  \/ "cache" \in mishaps
  \/ /\ paid[k] <= 1
     /\ paid[k] = 1 => k \in translated \/ work[k].pc = "store"
     /\ work[k].pc = "provider" => paid[k] = 0

FlightsOK == \A k \in Texts : EndOK(work[k]) /\ PaidOK(k)

\* A flight's share of the slots and of the queue.
SlotPcs == {"leaving", "held", "provider", "store"}
QueuePcs == {"queued", "leaving"}
Share(pc, pcs) == IF pc \in pcs THEN 1 ELSE 0

AdmissionOK ==
  /\ IsFiniteSet(Holding) /\ slots = Cardinality(Holding) /\ slots <= MaxConcurrent
  /\ IsFiniteSet(Queued) /\ waiters = Cardinality(Queued) /\ waiters <= MaxQueued

TranslationInv == TranslationShape /\ CallersOK /\ FlightsOK /\ AdmissionOK

-----------------------------------------------------------------------------
(* Translating a Post: what the steps have in common.                      *)

\* The flight k goes from one set of stages to another, or stays in it.
LEMMA Shares ==
  ASSUME NEW K, NEW S, NEW T, NEW k \in K, NEW n \in Nat, NEW a \in {0, 1}, NEW b \in {0, 1},
         IsFiniteSet(S), n = Cardinality(S), k \in S <=> a = 1, k \in T <=> b = 1,
         \A j \in K : j # k => (j \in T <=> j \in S), S \subseteq K, T \subseteq K
  PROVE  IsFiniteSet(T) /\ Cardinality(T) = n + (b - a) /\ n + (b - a) \in Nat
  <1>c. Cardinality(S) \in Nat
    BY FS_CardinalityType
  <1>1. CASE a = b
    <2>1. T = S
      BY <1>1
    <2> QED
      BY <1>1, <2>1, <1>c
  <1>2. CASE a = 0 /\ b = 1
    <2>1. T = S \cup {k} /\ k \notin S
      BY <1>2
    <2>2. IsFiniteSet(S \cup {k}) /\ Cardinality(S \cup {k}) = Cardinality(S) + 1
      BY <2>1, FS_AddElement
    <2> QED
      BY <1>2, <2>1, <2>2, <1>c
  <1>3. CASE a = 1 /\ b = 0
    <2>1. T = S \ {k} /\ k \in S
      BY <1>3
    <2>2. IsFiniteSet(S \ {k}) /\ Cardinality(S \ {k}) = Cardinality(S) - 1
      BY <2>1, FS_RemoveElement
    <2>3. Cardinality(S \ {k}) \in Nat
      BY <2>2, FS_CardinalityType
    <2> QED
      BY <1>3, <2>1, <2>2, <2>3, <1>c
  <1> QED
    BY <1>1, <1>2, <1>3

\* One flight moves, and the slots and the queue by its shares.
LEMMA Admits ==
  ASSUME TranslationShape, AdmissionOK, NEW k \in Texts, NEW s \in TextFlight,
         work' = [work EXCEPT ![k] = s],
         slots' = slots + (Share(s.pc, SlotPcs) - Share(work[k].pc, SlotPcs)),
         waiters' = waiters + (Share(s.pc, QueuePcs) - Share(work[k].pc, QueuePcs)),
         slots' <= MaxConcurrent, waiters' <= MaxQueued
  PROVE  AdmissionOK' /\ slots' \in Nat /\ waiters' \in Nat
  <1>w. work' \in [Texts -> TextFlight] /\ work'[k] = s /\ \A j \in Texts : j # k => work'[j] = work[j]
    BY DEF TranslationShape
  <1>1. IsFiniteSet(Holding') /\ slots' = Cardinality(Holding') /\ slots' \in Nat
    <2>1. PICK S : S = Holding
      OBVIOUS
    <2>2. PICK T : T = Holding'
      OBVIOUS
    <2>3. PICK a \in {0, 1} : a = Share(work[k].pc, SlotPcs)
      BY DEF Share
    <2>4. PICK b \in {0, 1} : b = Share(s.pc, SlotPcs)
      BY DEF Share
    <2>5. /\ S \subseteq Texts /\ T \subseteq Texts /\ (k \in S <=> a = 1) /\ (k \in T <=> b = 1)
          /\ \A j \in Texts : j # k => (j \in T <=> j \in S)
      BY <1>w, <2>1, <2>2, <2>3, <2>4 DEF Holding, Share, SlotPcs
    <2>6. IsFiniteSet(S) /\ slots = Cardinality(S) /\ slots \in Nat
      BY <2>1 DEF AdmissionOK, TranslationShape
    <2>7. IsFiniteSet(T) /\ Cardinality(T) = slots + (b - a) /\ slots + (b - a) \in Nat
      BY <2>5, <2>6, Shares
    <2> QED
      BY <2>2, <2>3, <2>4, <2>7
  <1>2. IsFiniteSet(Queued') /\ waiters' = Cardinality(Queued') /\ waiters' \in Nat
    <2>1. PICK S : S = Queued
      OBVIOUS
    <2>2. PICK T : T = Queued'
      OBVIOUS
    <2>3. PICK a \in {0, 1} : a = Share(work[k].pc, QueuePcs)
      BY DEF Share
    <2>4. PICK b \in {0, 1} : b = Share(s.pc, QueuePcs)
      BY DEF Share
    <2>5. /\ S \subseteq Texts /\ T \subseteq Texts /\ (k \in S <=> a = 1) /\ (k \in T <=> b = 1)
          /\ \A j \in Texts : j # k => (j \in T <=> j \in S)
      BY <1>w, <2>1, <2>2, <2>3, <2>4 DEF Queued, Share, QueuePcs
    <2>6. IsFiniteSet(S) /\ waiters = Cardinality(S) /\ waiters \in Nat
      BY <2>1 DEF AdmissionOK, TranslationShape
    <2>7. IsFiniteSet(T) /\ Cardinality(T) = waiters + (b - a) /\ waiters + (b - a) \in Nat
      BY <2>5, <2>6, Shares
    <2> QED
      BY <2>2, <2>3, <2>4, <2>7
  <1> QED
    BY <1>1, <1>2 DEF AdmissionOK

\* Flights keep what they know when mishaps are added.
LEMMA OthersOK ==
  ASSUME TranslationInv, NEW k \in Texts, NEW s \in TextFlight, work' = [work EXCEPT ![k] = s],
         mishaps \subseteq mishaps', closed => closed', translated \subseteq translated' \/ "cache" \in mishaps',
         \A j \in Texts : j # k => paid'[j] = paid[j],
         EndOK(s)', PaidOK(k)'
  PROVE  FlightsOK'
  <1>w. work'[k] = s /\ \A j \in Texts : j # k => work'[j] = work[j]
    BY DEF TranslationInv, TranslationShape
  <1> SUFFICES ASSUME NEW j \in Texts, j # k
               PROVE  (EndOK(work[j]) /\ PaidOK(j))'
    BY <1>w DEF FlightsOK
  <1>1. EndOK(work[j]) /\ PaidOK(j) /\ work'[j] = work[j] /\ paid'[j] = paid[j]
    BY <1>w DEF TranslationInv, FlightsOK
  <1>2. EndOK(work[j])'
    BY <1>1 DEF EndOK
  <1>3. PaidOK(j)'
    BY <1>1 DEF PaidOK
  <1> QED
    BY <1>2, <1>3

\* Callers that do not move keep what they know, when no flight they wait for ends.
LEMMA CallersStay ==
  ASSUME TranslationInv, NEW k \in Texts, NEW s \in TextFlight, work' = [work EXCEPT ![k] = s],
         s.pc # "none", mishaps \subseteq mishaps', UNCHANGED caller
  PROVE  CallersOK'
  <1>w. work'[k] = s /\ \A j \in Texts : j # k => work'[j] = work[j]
    BY DEF TranslationInv, TranslationShape
  <1> SUFFICES ASSUME NEW c \in Callers
               PROVE  CallerOK(caller[c])'
    BY DEF CallersOK
  <1>1. CallerOK(caller[c]) /\ caller'[c] = caller[c]
    BY DEF TranslationInv, CallersOK
  <1> QED
    BY <1>1, <1>w DEF CallerOK

\* A flight lands: its callers have their answer.
LEMMA Lands ==
  ASSUME TranslationInv, NEW k \in Texts, NEW answer \in {"ok", "limited", "error"}, Land(k, answer),
         UNCHANGED <<closed, paid>>, mishaps \subseteq mishaps', translated \subseteq translated' \/ "cache" \in mishaps',
         answer = "error" => closed \/ mishaps' \cap {"deadline", "provider"} # {},
         work[k].pc = "store" => k \in translated' \/ "cache" \in mishaps'
  PROVE  /\ work' = [work EXCEPT ![k] = NoWork] /\ NoWork \in TextFlight
         /\ work' \in [Texts -> TextFlight] /\ caller' \in [Callers -> TextCaller]
         /\ CallersOK' /\ FlightsOK'
  <1>n. NoWork \in TextFlight /\ NoWork.pc = "none" /\ ~NoWork.dead /\ ~NoWork.late
    BY DEF NoWork, TextFlight, FlightPcs
  <1>w. work' = [work EXCEPT ![k] = NoWork]
    BY DEF Land
  <1>t. work \in [Texts -> TextFlight] /\ caller \in [Callers -> TextCaller] /\ closed \in BOOLEAN /\ paid \in [Texts -> Nat]
    BY DEF TranslationInv, TranslationShape
  <1>v. work' \in [Texts -> TextFlight] /\ work'[k] = NoWork /\ \A j \in Texts : j # k => work'[j] = work[j]
    BY <1>n, <1>w, <1>t
  <1>1. PICK after \in {"ok", "limited", "error", "closed"} :
          /\ after = IF closed THEN "closed" ELSE answer
          /\ caller' = [c \in Callers |-> IF caller[c].pc = "wait" /\ caller[c].key = k THEN [caller[c] EXCEPT !.pc = after] ELSE caller[c]]
    BY <1>t DEF Land, CallerAt
  <1>2. ASSUME NEW c \in Callers
        PROVE  \/ caller[c].pc = "wait" /\ caller[c].key = k /\ caller'[c] = [caller[c] EXCEPT !.pc = after]
               \/ ~(caller[c].pc = "wait" /\ caller[c].key = k) /\ caller'[c] = caller[c]
    BY <1>1
  <1>3. ASSUME NEW c \in Callers
        PROVE  caller'[c] \in TextCaller /\ CallerOK(caller[c])'
    <2>1. caller[c] \in TextCaller /\ CallerOK(caller[c])
      BY <1>t DEF TranslationInv, CallersOK
    <2>2. CASE caller[c].pc = "wait" /\ caller[c].key = k /\ caller'[c] = [caller[c] EXCEPT !.pc = after]
      <3>1. caller'[c] \in TextCaller /\ caller'[c].pc = after /\ caller'[c].key = k
        BY <2>1, <2>2 DEF TextCaller, CallerPcs, Answers
      <3>2. after = "error" => mishaps' \cap {"deadline", "provider"} # {}
        BY <1>1, <1>t
      <3> QED
        BY <3>1, <3>2 DEF CallerOK
    <2>3. CASE ~(caller[c].pc = "wait" /\ caller[c].key = k) /\ caller'[c] = caller[c]
      BY <2>1, <2>3, <1>v DEF CallerOK
    <2> QED
      BY <1>2, <2>2, <2>3
  <1>4. caller' \in [Callers -> TextCaller] /\ CallersOK'
    <2>1. DOMAIN caller' = Callers /\ caller' = [c \in Callers |-> caller'[c]]
      BY <1>1
    <2> QED
      BY <2>1, <1>3 DEF CallersOK
  <1>5. EndOK(NoWork)'
    BY <1>n DEF EndOK
  <1>6. PaidOK(k)'
    <2>1. PaidOK(k) /\ paid' = paid
      BY DEF TranslationInv, FlightsOK
    <2> QED
      BY <2>1, <1>v, <1>n DEF PaidOK
  <1>7. FlightsOK'
    BY <1>5, <1>6, <1>w, <1>n, OthersOK
  <1> QED
    BY <1>w, <1>n, <1>v, <1>4, <1>7

\* A flight goes on to another stage.
LEMMA GoesOn ==
  ASSUME TranslationInv, NEW k \in Texts, NEW pc \in FlightPcs, pc # "none", WorkTo(k, pc),
         UNCHANGED <<closed, translated>>, mishaps \subseteq mishaps',
         pc \in {"provider", "store"} => ~work[k].late,
         \A j \in Texts : j # k => paid'[j] = paid[j], PaidOK(k)'
  PROVE  \E s \in TextFlight :
           /\ s.pc = pc /\ work' = [work EXCEPT ![k] = s] /\ work' \in [Texts -> TextFlight]
           /\ CallersOK' /\ FlightsOK'
  <1>t. work \in [Texts -> TextFlight]
    BY DEF TranslationInv, TranslationShape
  <1>1. PICK s : s = [work[k] EXCEPT !.pc = pc]
    OBVIOUS
  <1>2. s \in TextFlight /\ s.pc = pc /\ s.dead = work[k].dead /\ s.late = work[k].late
    BY <1>1, <1>t DEF TextFlight
  <1>3. work' = [work EXCEPT ![k] = s] /\ work' \in [Texts -> TextFlight] /\ caller' = caller
    BY <1>1, <1>2, <1>t DEF WorkTo
  <1>4. EndOK(s)'
    BY <1>2 DEF EndOK, TranslationInv, FlightsOK
  <1>5. FlightsOK'
    BY <1>2, <1>3, <1>4, OthersOK
  <1>6. CallersOK'
    BY <1>2, <1>3, CallersStay
  <1> QED
    BY <1>2, <1>3, <1>5, <1>6

\* A flight that lands gives back its share.
LEMMA LandsSafely ==
  ASSUME TranslationInv, NEW k \in Texts, NEW answer \in {"ok", "limited", "error"}, Land(k, answer),
         UNCHANGED <<closed, paid>>, mishaps \subseteq mishaps', translated \subseteq translated' \/ "cache" \in mishaps',
         answer = "error" => closed \/ mishaps' \cap {"deadline", "provider"} # {},
         work[k].pc = "store" => k \in translated' \/ "cache" \in mishaps',
         slots' = slots - Share(work[k].pc, SlotPcs), waiters' = waiters - Share(work[k].pc, QueuePcs)
  PROVE  TranslationInv'
  <1>1. /\ work' = [work EXCEPT ![k] = NoWork] /\ NoWork \in TextFlight
        /\ work' \in [Texts -> TextFlight] /\ caller' \in [Callers -> TextCaller]
        /\ CallersOK' /\ FlightsOK'
    BY Lands
  <1>2. TranslationShape /\ AdmissionOK
    BY DEF TranslationInv
  <1>3. Share(NoWork.pc, SlotPcs) = 0 /\ Share(NoWork.pc, QueuePcs) = 0
    BY DEF Share, NoWork, SlotPcs, QueuePcs
  <1>4. Share(work[k].pc, SlotPcs) \in {0, 1} /\ Share(work[k].pc, QueuePcs) \in {0, 1}
    BY DEF Share
  <1>n. slots \in Nat /\ waiters \in Nat /\ MaxConcurrent \in Nat /\ MaxQueued \in Nat /\ slots <= MaxConcurrent /\ waiters <= MaxQueued
    BY <1>2, TranslationAssumption DEF TranslationShape, AdmissionOK
  <1>5. /\ slots' = slots + (Share(NoWork.pc, SlotPcs) - Share(work[k].pc, SlotPcs))
        /\ waiters' = waiters + (Share(NoWork.pc, QueuePcs) - Share(work[k].pc, QueuePcs))
        /\ slots' <= MaxConcurrent /\ waiters' <= MaxQueued
    BY <1>3, <1>4, <1>n
  <1>6. AdmissionOK' /\ slots' \in Nat /\ waiters' \in Nat
    BY <1>1, <1>2, <1>5, Admits
  <1>7. TranslationShape'
    BY <1>1, <1>2, <1>6 DEF TranslationShape
  <1> QED
    BY <1>1, <1>6, <1>7 DEF TranslationInv

\* A flight that goes on takes what its new stage needs.
LEMMA GoesOnSafely ==
  ASSUME TranslationInv, NEW k \in Texts, NEW pc \in FlightPcs, pc # "none", WorkTo(k, pc),
         UNCHANGED <<closed, translated>>, mishaps \subseteq mishaps',
         pc \in {"provider", "store"} => ~work[k].late,
         \A j \in Texts : j # k => paid'[j] = paid[j], PaidOK(k)', paid' \in [Texts -> Nat],
         slots' = slots + (Share(pc, SlotPcs) - Share(work[k].pc, SlotPcs)),
         waiters' = waiters + (Share(pc, QueuePcs) - Share(work[k].pc, QueuePcs)),
         slots' <= MaxConcurrent, waiters' <= MaxQueued
  PROVE  TranslationInv'
  <1>1. PICK s \in TextFlight :
          /\ s.pc = pc /\ work' = [work EXCEPT ![k] = s] /\ work' \in [Texts -> TextFlight]
          /\ CallersOK' /\ FlightsOK'
    BY GoesOn
  <1>2. TranslationShape /\ AdmissionOK
    BY DEF TranslationInv
  <1>3. /\ slots' = slots + (Share(s.pc, SlotPcs) - Share(work[k].pc, SlotPcs))
        /\ waiters' = waiters + (Share(s.pc, QueuePcs) - Share(work[k].pc, QueuePcs))
    BY <1>1
  <1>6. AdmissionOK' /\ slots' \in Nat /\ waiters' \in Nat
    BY <1>1, <1>2, <1>3, Admits
  <1>7. TranslationShape'
    BY <1>1, <1>2, <1>6 DEF TranslationShape, WorkTo
  <1> QED
    BY <1>1, <1>6, <1>7 DEF TranslationInv

\* The flight is still paid for at most once when nothing was paid.
LEMMA PaidStays ==
  ASSUME TranslationInv, NEW k \in Texts, NEW pc \in FlightPcs, WorkTo(k, pc), UNCHANGED <<paid, translated>>,
         mishaps \subseteq mishaps', work[k].pc # "store",
         pc = "provider" => k \notin translated \/ "cache" \in mishaps'
  PROVE  PaidOK(k)' /\ paid' \in [Texts -> Nat]
  <1>1. work'[k].pc = pc
    BY DEF WorkTo, TranslationInv, TranslationShape, TextFlight
  <1>2. PaidOK(k) /\ paid \in [Texts -> Nat]
    BY DEF TranslationInv, FlightsOK, TranslationShape
  <1> QED
    BY <1>1, <1>2 DEF PaidOK

-----------------------------------------------------------------------------
(* Translating a Post: the steps of a flight.                              *)

LEMMA AcquireStep ==
  ASSUME TranslationInv, NEW k \in Texts, Acquire(k)
  PROVE  TranslationInv'
  <1>t. /\ slots \in Nat /\ waiters \in Nat /\ slots <= MaxConcurrent /\ waiters <= MaxQueued
        /\ MaxConcurrent \in Nat /\ MaxQueued \in Nat /\ work[k] \in TextFlight
    BY TranslationAssumption DEF TranslationInv, TranslationShape, AdmissionOK
  <1>1. /\ work[k].pc = "admit" /\ mishaps' = mishaps
        /\ UNCHANGED <<translated, paid, waiters, closed>>
    BY DEF Acquire, WorkAt, NoFailure, Cached
  <1>s. Share(work[k].pc, SlotPcs) = 0 /\ Share(work[k].pc, QueuePcs) = 0
    BY <1>1 DEF Share, SlotPcs, QueuePcs
  <1>2. CASE work[k].dead /\ Land(k, "error") /\ UNCHANGED slots
    <2>1. closed \/ mishaps' \cap {"deadline", "provider"} # {}
      BY <1>1, <1>2 DEF TranslationInv, FlightsOK, EndOK
    <2> QED
      BY <1>1, <1>2, <1>s, <1>t, <2>1, LandsSafely
  <1>3. CASE slots < MaxConcurrent /\ slots' = slots + 1 /\ WorkTo(k, "held")
    <2>1. Share("held", SlotPcs) = 1 /\ Share("held", QueuePcs) = 0 /\ "held" \in FlightPcs
      BY DEF Share, SlotPcs, QueuePcs, FlightPcs
    <2>2. PaidOK(k)' /\ paid' \in [Texts -> Nat]
      BY <1>1, <1>3, <2>1, PaidStays
    <2>3. slots' = slots + (1 - 0) /\ waiters' = waiters + (0 - 0) /\ slots' <= MaxConcurrent /\ waiters' <= MaxQueued
      BY <1>1, <1>3, <1>t
    <2> QED
      BY <1>1, <1>3, <1>s, <2>1, <2>2, <2>3, GoesOnSafely
  <1>4. CASE WorkTo(k, "full") /\ UNCHANGED slots
    <2>1. Share("full", SlotPcs) = 0 /\ Share("full", QueuePcs) = 0 /\ "full" \in FlightPcs
      BY DEF Share, SlotPcs, QueuePcs, FlightPcs
    <2>2. PaidOK(k)' /\ paid' \in [Texts -> Nat]
      BY <1>1, <1>4, <2>1, PaidStays
    <2>3. slots' = slots + (0 - 0) /\ waiters' = waiters + (0 - 0) /\ slots' <= MaxConcurrent /\ waiters' <= MaxQueued
      BY <1>1, <1>4, <1>t
    <2> QED
      BY <1>1, <1>4, <1>s, <2>1, <2>2, <2>3, GoesOnSafely
  <1> QED
    BY <1>2, <1>3, <1>4 DEF Acquire

LEMMA EnterQueueStep ==
  ASSUME TranslationInv, NEW k \in Texts, EnterQueue(k)
  PROVE  TranslationInv'
  <1>t. /\ slots \in Nat /\ waiters \in Nat /\ slots <= MaxConcurrent /\ waiters <= MaxQueued
        /\ MaxConcurrent \in Nat /\ MaxQueued \in Nat /\ work[k] \in TextFlight
    BY TranslationAssumption DEF TranslationInv, TranslationShape, AdmissionOK
  <1>1. /\ work[k].pc = "full" /\ mishaps' = mishaps
        /\ UNCHANGED <<translated, paid, slots, closed>>
    BY DEF EnterQueue, WorkAt, NoFailure, Cached
  <1>s. Share(work[k].pc, SlotPcs) = 0 /\ Share(work[k].pc, QueuePcs) = 0
    BY <1>1 DEF Share, SlotPcs, QueuePcs
  <1>2. CASE Land(k, "limited") /\ UNCHANGED waiters
    BY <1>1, <1>2, <1>s, <1>t, LandsSafely
  <1>3. CASE waiters < MaxQueued /\ waiters' = waiters + 1 /\ WorkTo(k, "queued")
    <2>1. Share("queued", SlotPcs) = 0 /\ Share("queued", QueuePcs) = 1 /\ "queued" \in FlightPcs
      BY DEF Share, SlotPcs, QueuePcs, FlightPcs
    <2>2. PaidOK(k)' /\ paid' \in [Texts -> Nat]
      BY <1>1, <1>3, <2>1, PaidStays
    <2>3. slots' = slots + (0 - 0) /\ waiters' = waiters + (1 - 0) /\ slots' <= MaxConcurrent /\ waiters' <= MaxQueued
      BY <1>1, <1>3, <1>t
    <2> QED
      BY <1>1, <1>3, <1>s, <2>1, <2>2, <2>3, GoesOnSafely
  <1> QED
    BY <1>2, <1>3 DEF EnterQueue

LEMMA LeaveQueueStep ==
  ASSUME TranslationInv, NEW k \in Texts, LeaveQueue(k)
  PROVE  TranslationInv'
  <1>t. /\ slots \in Nat /\ waiters \in Nat /\ slots <= MaxConcurrent /\ waiters <= MaxQueued
        /\ MaxConcurrent \in Nat /\ MaxQueued \in Nat /\ work[k] \in TextFlight
    BY TranslationAssumption DEF TranslationInv, TranslationShape, AdmissionOK
  <1>1. /\ work[k].pc = "queued" /\ mishaps' = mishaps
        /\ UNCHANGED <<translated, paid, closed>>
    BY DEF LeaveQueue, WorkAt, NoFailure, Cached
  <1>s. Share(work[k].pc, SlotPcs) = 0 /\ Share(work[k].pc, QueuePcs) = 1
    BY <1>1 DEF Share, SlotPcs, QueuePcs
  <1>2. CASE work[k].dead /\ waiters' = waiters - 1 /\ Land(k, "error") /\ UNCHANGED slots
    <2>1. closed \/ mishaps' \cap {"deadline", "provider"} # {}
      BY <1>1, <1>2 DEF TranslationInv, FlightsOK, EndOK
    <2> QED
      BY <1>1, <1>2, <1>s, <1>t, <2>1, LandsSafely
  <1>3. CASE slots < MaxConcurrent /\ slots' = slots + 1 /\ WorkTo(k, "leaving") /\ UNCHANGED waiters
    <2>1. Share("leaving", SlotPcs) = 1 /\ Share("leaving", QueuePcs) = 1 /\ "leaving" \in FlightPcs
      BY DEF Share, SlotPcs, QueuePcs, FlightPcs
    <2>2. PaidOK(k)' /\ paid' \in [Texts -> Nat]
      BY <1>1, <1>3, <2>1, PaidStays
    <2>3. slots' = slots + (1 - 0) /\ waiters' = waiters + (1 - 1) /\ slots' <= MaxConcurrent /\ waiters' <= MaxQueued
      BY <1>1, <1>3, <1>t
    <2> QED
      BY <1>1, <1>3, <1>s, <2>1, <2>2, <2>3, GoesOnSafely
  <1> QED
    BY <1>2, <1>3 DEF LeaveQueue

LEMMA FreePlaceStep ==
  ASSUME TranslationInv, NEW k \in Texts, FreePlace(k)
  PROVE  TranslationInv'
  <1>t. /\ slots \in Nat /\ waiters \in Nat /\ slots <= MaxConcurrent /\ waiters <= MaxQueued
        /\ MaxConcurrent \in Nat /\ MaxQueued \in Nat /\ work[k] \in TextFlight
    BY TranslationAssumption DEF TranslationInv, TranslationShape, AdmissionOK
  <1>1. /\ work[k].pc = "leaving" /\ mishaps' = mishaps /\ waiters' = waiters - 1 /\ WorkTo(k, "held")
        /\ UNCHANGED <<translated, paid, slots, closed>>
    BY DEF FreePlace, WorkAt, NoFailure, Cached
  <1>s. Share(work[k].pc, SlotPcs) = 1 /\ Share(work[k].pc, QueuePcs) = 1
    BY <1>1 DEF Share, SlotPcs, QueuePcs
  <1>2. Share("held", SlotPcs) = 1 /\ Share("held", QueuePcs) = 0 /\ "held" \in FlightPcs
    BY DEF Share, SlotPcs, QueuePcs, FlightPcs
  <1>3. PaidOK(k)' /\ paid' \in [Texts -> Nat]
    BY <1>1, <1>2, PaidStays
  <1>4. slots' = slots + (1 - 1) /\ waiters' = waiters + (0 - 1) /\ slots' <= MaxConcurrent /\ waiters' <= MaxQueued
    BY <1>1, <1>t
  <1> QED
    BY <1>1, <1>s, <1>2, <1>3, <1>4, GoesOnSafely

LEMMA LookupStep ==
  ASSUME TranslationInv, NEW k \in Texts, Lookup(k)
  PROVE  TranslationInv'
  <1>t. /\ slots \in Nat /\ waiters \in Nat /\ slots <= MaxConcurrent /\ waiters <= MaxQueued
        /\ MaxConcurrent \in Nat /\ MaxQueued \in Nat /\ work[k] \in TextFlight
    BY TranslationAssumption DEF TranslationInv, TranslationShape, AdmissionOK
  <1>1. /\ work[k].pc = "held" /\ mishaps \subseteq mishaps'
        /\ UNCHANGED <<translated, paid, waiters, closed>>
    BY DEF Lookup, WorkAt, NoFailure, Cached, CacheFails, Failure
  <1>s. Share(work[k].pc, SlotPcs) = 1 /\ Share(work[k].pc, QueuePcs) = 0
    BY <1>1 DEF Share, SlotPcs, QueuePcs
  <1>2. CASE Over(k) /\ NoFailure /\ Release(k, "error")
    <2>1. closed \/ mishaps' \cap {"deadline", "provider"} # {}
      BY <1>1, <1>2 DEF TranslationInv, FlightsOK, EndOK, Over
    <2>2. Land(k, "error") /\ slots' = slots - 1 /\ waiters' = waiters - 0
      BY <1>1, <1>2, <1>t DEF Release
    <2> QED
      BY <1>1, <1>s, <2>1, <2>2, LandsSafely
  <1>3. CASE Release(k, "ok")
    <2>2. Land(k, "ok") /\ slots' = slots - 1 /\ waiters' = waiters - 0
      BY <1>1, <1>3, <1>t DEF Release
    <2> QED
      BY <1>1, <1>s, <2>2, LandsSafely
  <1>4. CASE /\ ~Over(k) /\ WorkTo(k, "provider") /\ UNCHANGED slots
             /\ ~CachedMeanwhile(k) \/ CacheFails
    <2>1. Share("provider", SlotPcs) = 1 /\ Share("provider", QueuePcs) = 0 /\ "provider" \in FlightPcs
      BY DEF Share, SlotPcs, QueuePcs, FlightPcs
    <2>2. k \notin translated \/ "cache" \in mishaps'
      BY <1>4 DEF CachedMeanwhile, CacheFails, Failure
    <2>3. PaidOK(k)' /\ paid' \in [Texts -> Nat]
      BY <1>1, <1>4, <2>1, <2>2, PaidStays
    <2>4. slots' = slots + (1 - 1) /\ waiters' = waiters + (0 - 0) /\ slots' <= MaxConcurrent /\ waiters' <= MaxQueued
      BY <1>1, <1>4, <1>t
    <2>5. ~work[k].late
      BY <1>4 DEF TranslationInv, FlightsOK, EndOK, Over
    <2> QED
      BY <1>1, <1>4, <1>s, <2>1, <2>3, <2>4, <2>5, GoesOnSafely
  <1> QED
    BY <1>2, <1>3, <1>4 DEF Lookup

LEMMA ProvideStep ==
  ASSUME TranslationInv, NEW k \in Texts, Provide(k)
  PROVE  TranslationInv'
  <1>t. /\ slots \in Nat /\ waiters \in Nat /\ slots <= MaxConcurrent /\ waiters <= MaxQueued
        /\ MaxConcurrent \in Nat /\ MaxQueued \in Nat /\ work[k] \in TextFlight
    BY TranslationAssumption DEF TranslationInv, TranslationShape, AdmissionOK
  <1>1. /\ work[k].pc = "provider" /\ mishaps \subseteq mishaps'
        /\ UNCHANGED <<translated, waiters, closed>>
    BY DEF Provide, WorkAt, NoFailure, ProviderFails, Failure
  <1>s. Share(work[k].pc, SlotPcs) = 1 /\ Share(work[k].pc, QueuePcs) = 0
    BY <1>1 DEF Share, SlotPcs, QueuePcs
  <1>2. CASE Release(k, "error") /\ UNCHANGED paid /\ (work[k].dead \/ ProviderFails)
    <2>1. closed \/ mishaps' \cap {"deadline", "provider"} # {}
      BY <1>1, <1>2 DEF TranslationInv, FlightsOK, EndOK, ProviderFails, Failure
    <2>2. Land(k, "error") /\ slots' = slots - 1 /\ waiters' = waiters - 0
      BY <1>1, <1>2, <1>t DEF Release
    <2> QED
      BY <1>1, <1>2, <1>s, <2>1, <2>2, LandsSafely
  <1>3. CASE NoFailure /\ WorkTo(k, "store") /\ paid' = [paid EXCEPT ![k] = @ + 1] /\ UNCHANGED slots
    <2>1. Share("store", SlotPcs) = 1 /\ Share("store", QueuePcs) = 0 /\ "store" \in FlightPcs
      BY DEF Share, SlotPcs, QueuePcs, FlightPcs
    <2>p. paid \in [Texts -> Nat] /\ PaidOK(k) /\ EndOK(work[k])
      BY DEF TranslationInv, TranslationShape, FlightsOK
    <2>2. paid' \in [Texts -> Nat] /\ paid'[k] = paid[k] + 1 /\ \A j \in Texts : j # k => paid'[j] = paid[j]
      BY <1>3, <2>p
    <2>w. work'[k].pc = "store"
      BY <1>3 DEF WorkTo, TranslationInv, TranslationShape, TextFlight
    <2>3. PaidOK(k)'
      BY <1>1, <2>p, <2>2, <2>w DEF PaidOK
    <2>4. slots' = slots + (1 - 1) /\ waiters' = waiters + (0 - 0) /\ slots' <= MaxConcurrent /\ waiters' <= MaxQueued
      BY <1>1, <1>3, <1>t
    <2>5. ~work[k].late
      BY <1>1, <2>p DEF EndOK
    <2> QED
      BY <1>1, <1>3, <1>s, <2>1, <2>2, <2>3, <2>4, <2>5, GoesOnSafely
  <1> QED
    BY <1>2, <1>3 DEF Provide

LEMMA StoreStep ==
  ASSUME TranslationInv, NEW k \in Texts, Store(k)
  PROVE  TranslationInv'
  <1>t. /\ slots \in Nat /\ waiters \in Nat /\ work[k] \in TextFlight
    BY DEF TranslationInv, TranslationShape
  <1>1. /\ work[k].pc = "store" /\ mishaps \subseteq mishaps' /\ translated \subseteq translated'
        /\ UNCHANGED <<paid, waiters, closed>>
        /\ k \in translated' \/ "cache" \in mishaps'
    BY DEF Store, WorkAt, NoFailure, CacheFails, Failure
  <1>s. Share(work[k].pc, SlotPcs) = 1 /\ Share(work[k].pc, QueuePcs) = 0
    BY <1>1 DEF Share, SlotPcs, QueuePcs
  <1>2. PICK answer \in {"ok", "error"} : Release(k, answer) /\ (answer = "error" => work[k].dead)
    <2>1. Release(k, IF work[k].dead THEN "error" ELSE "ok")
      BY DEF Store
    <2>2. CASE work[k].dead
      BY <2>1, <2>2
    <2>3. CASE ~work[k].dead
      BY <2>1, <2>3
    <2> QED
      BY <2>2, <2>3
  <1>3. Land(k, answer) /\ slots' = slots - 1 /\ waiters' = waiters - 0
    BY <1>1, <1>2, <1>t DEF Release
  <1>4. answer = "error" => closed \/ mishaps' \cap {"deadline", "provider"} # {}
    BY <1>1, <1>2 DEF TranslationInv, FlightsOK, EndOK
  <1> QED
    BY <1>1, <1>s, <1>3, <1>4, LandsSafely

LEMMA WorkEndsStep ==
  ASSUME TranslationInv, NEW k \in Texts, WorkEnds(k)
  PROVE  TranslationInv'
  <1>t. TranslationShape /\ AdmissionOK /\ work[k] \in TextFlight
    BY DEF TranslationInv, TranslationShape
  <1>1. /\ work[k].pc # "none" /\ mishaps \subseteq mishaps' /\ (closed \/ "deadline" \in mishaps')
        /\ UNCHANGED <<translated, paid, slots, waiters, closed, caller>>
    BY DEF WorkEnds, WorkAt, NoFailure, Failure, Cached
  <1>2. PICK s : s = [work[k] EXCEPT !.dead = TRUE]
    OBVIOUS
  <1>3. s \in TextFlight /\ s.pc = work[k].pc /\ s.late = work[k].late
    BY <1>2, <1>t DEF TextFlight
  <1>4. work' = [work EXCEPT ![k] = s] /\ work' \in [Texts -> TextFlight]
    BY <1>2, <1>3, <1>t DEF WorkEnds, TranslationShape
  <1>5. EndOK(s)' /\ PaidOK(k)'
    <2>1. EndOK(work[k]) /\ PaidOK(k) /\ work'[k] = s
      BY <1>4, <1>t DEF TranslationInv, FlightsOK, TranslationShape
    <2> QED
      BY <1>1, <1>3, <2>1 DEF EndOK, PaidOK
  <1>6. FlightsOK'
    BY <1>1, <1>3, <1>4, <1>5, OthersOK
  <1>7. CallersOK'
    BY <1>1, <1>3, <1>4, CallersStay
  <1>8. AdmissionOK'
    <2>n. slots \in Nat /\ waiters \in Nat /\ slots <= MaxConcurrent /\ waiters <= MaxQueued
      BY <1>t DEF TranslationShape, AdmissionOK
    <2>2. Share(s.pc, SlotPcs) \in {0, 1} /\ Share(s.pc, QueuePcs) \in {0, 1}
      BY DEF Share
    <2>1. /\ slots' = slots + (Share(s.pc, SlotPcs) - Share(work[k].pc, SlotPcs))
          /\ waiters' = waiters + (Share(s.pc, QueuePcs) - Share(work[k].pc, QueuePcs))
      BY <1>1, <1>3, <2>n, <2>2
    <2> QED
      BY <1>1, <1>3, <1>4, <1>t, <2>n, <2>1, Admits
  <1>9. TranslationShape'
    BY <1>1, <1>4, <1>t DEF TranslationShape
  <1> QED
    BY <1>6, <1>7, <1>8, <1>9 DEF TranslationInv

-----------------------------------------------------------------------------
(* Translating a Post: the other steps.                                    *)

\* Steps that leave the flights and the callers alone.
LEMMA WorldStep ==
  ASSUME TranslationInv, Close \/ \E k \in Texts : TranslationExpires(k)
  PROVE  TranslationInv'
  <1>1. /\ UNCHANGED <<work, caller, slots, waiters, paid>> /\ mishaps \subseteq mishaps'
        /\ (closed => closed') /\ closed' \in BOOLEAN /\ (translated' = translated \/ "cache" \in mishaps')
    BY DEF Close, TranslationExpires, Failure, TranslationInv, TranslationShape
  <1>2. TranslationShape'
    BY <1>1 DEF TranslationInv, TranslationShape
  <1>3. CallersOK'
    BY <1>1 DEF TranslationInv, CallersOK, CallerOK
  <1>4. ASSUME NEW k \in Texts
        PROVE  (EndOK(work[k]) /\ PaidOK(k))'
    <2>1. EndOK(work[k]) /\ PaidOK(k)
      BY DEF TranslationInv, FlightsOK
    <2>2. EndOK(work[k])'
      BY <1>1, <2>1 DEF EndOK, Close, TranslationExpires
    <2>3. PaidOK(k)'
      BY <1>1, <2>1 DEF PaidOK
    <2> QED
      BY <2>2, <2>3
  <1>5. AdmissionOK'
    BY <1>1 DEF TranslationInv, AdmissionOK, Holding, Queued
  <1> QED
    BY <1>2, <1>3, <1>4, <1>5 DEF TranslationInv, FlightsOK

\* One caller moves, with the flights as they are.
LEMMA CallerMoves ==
  ASSUME TranslationInv, NEW c \in Callers, NEW q \in TextCaller, caller' = [caller EXCEPT ![c] = q],
         CallerOK(q)', UNCHANGED <<work, translated, slots, waiters, closed, paid>>, mishaps \subseteq mishaps'
  PROVE  TranslationInv'
  <1>1. caller' \in [Callers -> TextCaller] /\ caller'[c] = q /\ \A d \in Callers : d # c => caller'[d] = caller[d]
    BY DEF TranslationInv, TranslationShape
  <1>2. TranslationShape'
    BY <1>1 DEF TranslationInv, TranslationShape
  <1>3. CallersOK'
    BY <1>1 DEF TranslationInv, CallersOK, CallerOK
  <1>4. FlightsOK'
    BY DEF TranslationInv, FlightsOK, EndOK, PaidOK
  <1>5. AdmissionOK'
    BY DEF TranslationInv, AdmissionOK, Holding, Queued
  <1> QED
    BY <1>2, <1>3, <1>4, <1>5 DEF TranslationInv

LEMMA TranslateStep ==
  ASSUME TranslationInv, NEW c \in Callers, NEW k \in Texts, Translate(c, k)
  PROVE  TranslationInv'
  <1>1. PICK q : q = [pc |-> IF closed THEN "closed" ELSE "read", key |-> k]
    OBVIOUS
  <1>2. q \in TextCaller /\ q.pc \in {"closed", "read"} /\ q.key = k
    BY <1>1, TranslationAssumption DEF TextCaller, CallerPcs, Answers
  <1>3. caller' = [caller EXCEPT ![c] = q] /\ UNCHANGED <<work, translated, slots, waiters, closed, paid, mishaps>>
    BY <1>1 DEF Translate, NoFailure, CallerFrame
  <1>4. CallerOK(q)'
    BY <1>2 DEF CallerOK
  <1> QED
    BY <1>2, <1>3, <1>4, CallerMoves

\* A caller that asked moves to a stage in which it does not wait.
LEMMA CallerTurns ==
  ASSUME TranslationInv, NEW c \in Callers, NEW pc \in {"join", "ok", "closed", "cancelled"},
         caller[c].pc # "new", CallerTo(c, pc),
         UNCHANGED <<work, translated, slots, waiters, closed, paid>>, mishaps \subseteq mishaps'
  PROVE  TranslationInv'
  <1>1. PICK q : q = [caller[c] EXCEPT !.pc = pc]
    OBVIOUS
  <1>2. caller[c] \in TextCaller /\ CallerOK(caller[c])
    BY DEF TranslationInv, TranslationShape, CallersOK
  <1>3. q \in TextCaller /\ q.pc = pc /\ q.key = caller[c].key
    BY <1>1, <1>2 DEF TextCaller, CallerPcs, Answers
  <1>4. CallerOK(q)'
    BY <1>2, <1>3 DEF CallerOK
  <1>5. caller' = [caller EXCEPT ![c] = q]
    BY <1>1 DEF CallerTo
  <1> QED
    BY <1>3, <1>4, <1>5, CallerMoves

LEMMA DoChanStep ==
  ASSUME TranslationInv, NEW c \in Callers, DoChan(c)
  PROVE  TranslationInv'
  <1>1. PICK k : k = caller[c].key
    OBVIOUS
  <1>2. /\ caller[c] \in TextCaller /\ CallerOK(caller[c]) /\ caller[c].pc = "join" /\ k \in Texts
        /\ work \in [Texts -> TextFlight] /\ caller \in [Callers -> TextCaller] /\ closed \in BOOLEAN
    BY <1>1 DEF TranslationInv, TranslationShape, CallersOK, DoChan, CallerAt, CallerOK
  <1>3. /\ caller' = [caller EXCEPT ![c].pc = "wait"]
        /\ work' = IF work[k].pc = "none" THEN [work EXCEPT ![k] = [NoWork EXCEPT !.pc = "admit", !.late = closed]] ELSE work
        /\ UNCHANGED <<translated, slots, waiters, closed, paid, mishaps>>
    BY <1>1 DEF DoChan, CallerTo, NoFailure, CallerFrame
  <1>4. /\ caller' \in [Callers -> TextCaller] /\ caller'[c].pc = "wait" /\ caller'[c].key = k
        /\ \A d \in Callers : d # c => caller'[d] = caller[d]
    BY <1>1, <1>2, <1>3 DEF TextCaller, CallerPcs
  <1>5. PICK s : s = IF work[k].pc = "none" THEN [NoWork EXCEPT !.pc = "admit", !.late = closed] ELSE work[k]
    OBVIOUS
  <1>6. /\ s \in TextFlight /\ s.pc # "none" /\ (s = work[k] \/ (work[k].pc = "none" /\ s.pc = "admit" /\ ~s.dead /\ s.late = closed))
    BY <1>2, <1>5 DEF TextFlight, FlightPcs, NoWork
  <1>7. work' = [work EXCEPT ![k] = s] /\ work' \in [Texts -> TextFlight] /\ work'[k] = s /\ \A j \in Texts : j # k => work'[j] = work[j]
    BY <1>2, <1>3, <1>5, <1>6
  <1>8. EndOK(s)' /\ PaidOK(k)'
    <2>1. EndOK(work[k]) /\ PaidOK(k)
      BY <1>2 DEF TranslationInv, FlightsOK
    <2> QED
      BY <1>3, <1>6, <1>7, <2>1 DEF EndOK, PaidOK
  <1>9. FlightsOK'
    BY <1>2, <1>3, <1>6, <1>7, <1>8, OthersOK
  <1>10. CallersOK'
    <2>1. CallerOK(caller[c])'
      BY <1>2, <1>4, <1>6, <1>7 DEF CallerOK
    <2>2. ASSUME NEW d \in Callers, d # c
          PROVE  CallerOK(caller[d])'
      <3>1. CallerOK(caller[d]) /\ caller'[d] = caller[d]
        BY <1>4, <2>2 DEF TranslationInv, CallersOK
      <3> QED
        BY <3>1, <1>3, <1>6, <1>7 DEF CallerOK
    <2> QED
      BY <2>1, <2>2 DEF CallersOK
  <1>11. AdmissionOK'
    <2>1. (work[k].pc \notin SlotPcs /\ work[k].pc \notin QueuePcs /\ s.pc \notin SlotPcs /\ s.pc \notin QueuePcs) \/ s = work[k]
      BY <1>6 DEF SlotPcs, QueuePcs
    <2>2. Holding' = Holding /\ Queued' = Queued
      BY <1>2, <1>7, <2>1 DEF Holding, Queued, SlotPcs, QueuePcs
    <2> QED
      BY <1>3, <2>2 DEF TranslationInv, AdmissionOK
  <1>12. TranslationShape'
    BY <1>3, <1>4, <1>7 DEF TranslationInv, TranslationShape
  <1> QED
    BY <1>9, <1>10, <1>11, <1>12 DEF TranslationInv

LEMMA CallersStep ==
  ASSUME TranslationInv, NEW c \in Callers, CallerStep(c) \/ CallerLeaves(c)
  PROVE  TranslationInv'
  <1>1. CASE ReadTranslation(c)
    <2>1. PICK pc \in {"join", "ok", "closed"} : CallerTo(c, pc)
      BY <1>1 DEF ReadTranslation
    <2>2. caller[c].pc # "new" /\ UNCHANGED <<work, translated, slots, waiters, closed, paid>> /\ mishaps \subseteq mishaps'
      BY <1>1 DEF ReadTranslation, CallerAt, NoFailure, CallerFrame, CacheFails, Failure
    <2> QED
      BY <2>1, <2>2, CallerTurns
  <1>2. CASE DoChan(c)
    BY <1>2, DoChanStep
  <1>3. CASE StopsWaiting(c)
    <2>1. /\ caller[c].pc # "new" /\ UNCHANGED <<work, translated, slots, waiters, closed, paid>> /\ mishaps \subseteq mishaps'
          /\ CallerTo(c, "closed")
      BY <1>3 DEF StopsWaiting, CallerAt, NoFailure, CallerFrame
    <2> QED
      BY <2>1, CallerTurns
  <1>4. CASE CallerLeaves(c)
    <2>1. /\ caller[c].pc # "new" /\ UNCHANGED <<work, translated, slots, waiters, closed, paid>> /\ mishaps \subseteq mishaps'
          /\ CallerTo(c, "cancelled")
      BY <1>4 DEF CallerLeaves, Failure, CallerFrame
    <2> QED
      BY <2>1, CallerTurns
  <1> QED
    BY <1>1, <1>2, <1>3, <1>4 DEF CallerStep

LEMMA TranslationStep ==
  ASSUME TranslationInv, TranslationNext
  PROVE  TranslationInv'
  <1>1. ASSUME NEW c \in Callers, NEW k \in Texts, Translate(c, k)
        PROVE  TranslationInv'
    BY <1>1, TranslateStep
  <1>2. ASSUME NEW c \in Callers, CallerStep(c) \/ CallerLeaves(c)
        PROVE  TranslationInv'
    BY <1>2, CallersStep
  <1>3. ASSUME NEW k \in Texts, WorkStep(k)
        PROVE  TranslationInv'
    BY <1>3, AcquireStep, EnterQueueStep, LeaveQueueStep, FreePlaceStep, LookupStep, ProvideStep, StoreStep DEF WorkStep
  <1>4. ASSUME NEW k \in Texts, WorkEnds(k)
        PROVE  TranslationInv'
    BY <1>4, WorkEndsStep
  <1>5. ASSUME Close \/ \E k \in Texts : TranslationExpires(k)
        PROVE  TranslationInv'
    BY <1>5, WorldStep
  <1> QED
    BY <1>1, <1>2, <1>3, <1>4, <1>5 DEF TranslationNext

LEMMA TranslationStart ==
  ASSUME TranslationInit
  PROVE  TranslationInv
  <1>n. NoWork \in TextFlight /\ NoWork.pc = "none" /\ ~NoWork.dead /\ ~NoWork.late
    BY DEF NoWork, TextFlight, FlightPcs
  <1>1. TranslationShape
    BY <1>n DEF TranslationInit, TranslationShape, TextCaller, CallerPcs
  <1>2. CallersOK
    BY DEF TranslationInit, CallersOK, CallerOK
  <1>3. FlightsOK
    BY <1>n DEF TranslationInit, FlightsOK, EndOK, PaidOK
  <1>4. AdmissionOK
    <2>1. Holding = {} /\ Queued = {}
      BY <1>n DEF TranslationInit, Holding, Queued
    <2>2. IsFiniteSet({}) /\ Cardinality({}) = 0
      BY FS_EmptySet
    <2> QED
      BY <2>1, <2>2, TranslationAssumption DEF TranslationInit, AdmissionOK
  <1> QED
    BY <1>1, <1>2, <1>3, <1>4 DEF TranslationInv

LEMMA TranslationFrame ==
  ASSUME TranslationInv, UNCHANGED translationVars
  PROVE  TranslationInv'
  <1>1. UNCHANGED <<translated, work, caller, slots, waiters, closed, paid, mishaps, failures>>
    BY DEF translationVars
  <1>2. TranslationShape' /\ CallersOK'
    BY <1>1 DEF TranslationInv, TranslationShape, CallersOK, CallerOK
  <1>3. FlightsOK'
    BY <1>1 DEF TranslationInv, FlightsOK, EndOK, PaidOK
  <1>4. AdmissionOK'
    BY <1>1 DEF TranslationInv, AdmissionOK, Holding, Queued
  <1> QED
    BY <1>2, <1>3, <1>4 DEF TranslationInv

\* The slots and the queue, one payment for a text, and no answer made by others.
LEMMA TranslationIsSafe ==
  ASSUME TranslationInv
  PROVE  TranslationSafe
  <1>1. AdmissionExact
    BY DEF TranslationInv, AdmissionOK, CallersOK, CallerOK, AdmissionExact, CallerAt, WorkAt
  <1>2. PaidOnce
    BY DEF TranslationInv, FlightsOK, PaidOK, PaidOnce
  <1>3. LeavingIsPrivate
    BY DEF TranslationInv, CallersOK, CallerOK, LeavingIsPrivate, CallerAt
  <1>4. ClosedCallsNobody
    BY DEF TranslationInv, FlightsOK, EndOK, ClosedCallsNobody
  <1> QED
    BY <1>1, <1>2, <1>3, <1>4 DEF TranslationSafe

-----------------------------------------------------------------------------
(* Rows in their order.                                                    *)

IsLeast(x, T) == x \in T /\ \A y \in T : y \subseteq x => y = x

\* A non-empty family of finite sets has a member that contains no other.
LEMMA LeastSet ==
  ASSUME NEW S, NEW T, T \subseteq FiniteSubsetsOf(S), T # {}
  PROVE  \E x : IsLeast(x, T)
  <1> DEFINE R == StrictSubsetOrdering(S)
  <1>1. IsWellFoundedOn(R, FiniteSubsetsOf(S))
    BY FS_StrictSubsetOrderingWellFounded
  <1>2. \E x \in T : \A y \in T : ~(<<y, x>> \in R)
    <2> HIDE DEF R
    <2> QED
      BY <1>1, WFMin
  <1>3. T \subseteq SUBSET S
    BY DEF FiniteSubsetsOf
  <1> QED
    BY <1>2, <1>3 DEF StrictSubsetOrdering, IsLeast

RowKey == (Int \X Int \X Int) \ {NoCursor}

LEMMA NewerOrder ==
  ASSUME NEW k \in RowKey, NEW l \in RowKey, NEW m \in RowKey
  PROVE  /\ ~Newer(k, k)
         /\ Newer(k, l) /\ Newer(l, m) => Newer(k, m)
         /\ k = l \/ Newer(k, l) \/ Newer(l, k)
  BY DEF RowKey, Newer

\* Finitely many rows, no two of them in one place.
Ordered(S) == IsFiniteSet(S) /\ \A r \in S : r.key \in RowKey /\ \A q \in S : q.key = r.key => q = r

Ahead(S, r) == {q \in S : Newer(q.key, r.key)}
Behind(S, r) == {q \in S : Newer(r.key, q.key)}

LEMMA OrderedSubset ==
  ASSUME NEW S, Ordered(S), NEW T, T \subseteq S
  PROVE  Ordered(T)
  BY FS_Subset DEF Ordered

\* Of two rows one is newer.
LEMMA RowOrder ==
  ASSUME NEW S, Ordered(S), NEW r \in S, NEW q \in S
  PROVE  /\ r.key \in RowKey /\ q.key \in RowKey /\ ~Newer(r.key, r.key)
         /\ r = q \/ Newer(r.key, q.key) \/ Newer(q.key, r.key)
         /\ ~(Newer(r.key, q.key) /\ Newer(q.key, r.key))
  <1>1. r.key \in RowKey /\ q.key \in RowKey /\ (q.key = r.key => q = r)
    BY DEF Ordered
  <1> QED
    BY <1>1, NewerOrder

\* The sets of rows ahead are finite and grow with the row.
LEMMA AheadFacts ==
  ASSUME NEW S, Ordered(S), NEW r, r.key \in RowKey
  PROVE  /\ Ahead(S, r) \subseteq S /\ r \notin Ahead(S, r)
         /\ IsFiniteSet(Ahead(S, r)) /\ Cardinality(Ahead(S, r)) \in Nat
         /\ \A q \in Ahead(S, r) : Ahead(S, q) \subseteq Ahead(S, r) /\ q \notin Ahead(S, q)
  <1>1. Ahead(S, r) \subseteq S /\ r \notin Ahead(S, r)
    BY NewerOrder DEF Ahead
  <1>2. IsFiniteSet(Ahead(S, r))
    BY <1>1, FS_Subset DEF Ordered
  <1>3. Cardinality(Ahead(S, r)) \in Nat
    BY <1>2, FS_CardinalityType
  <1>4. ASSUME NEW q \in Ahead(S, r)
        PROVE  Ahead(S, q) \subseteq Ahead(S, r) /\ q \notin Ahead(S, q)
    <2>1. q.key \in RowKey /\ Newer(q.key, r.key)
      BY <1>4 DEF Ahead, Ordered
    <2>2. ASSUME NEW x \in Ahead(S, q)
          PROVE  x \in Ahead(S, r)
      <3>1. x \in S /\ x.key \in RowKey /\ Newer(x.key, q.key)
        BY DEF Ahead, Ordered
      <3>2. Newer(x.key, r.key)
        BY <2>1, <3>1, NewerOrder
      <3> QED
        BY <3>1, <3>2 DEF Ahead
    <2>3. ~Newer(q.key, q.key)
      BY <2>1, NewerOrder
    <2> QED
      BY <2>2, <2>3 DEF Ahead
  <1> QED
    BY <1>1, <1>2, <1>3, <1>4

\* Some rows of a list have a newest ...
LEMMA NewestRow ==
  ASSUME NEW S, Ordered(S), NEW T, T \subseteq S, T # {}
  PROVE  \E r \in T : \A q \in T : q = r \/ Newer(r.key, q.key)
  <1> DEFINE F == {Ahead(S, r) : r \in T}
  <1>1. F \subseteq FiniteSubsetsOf(S) /\ F # {}
    <2>1. ASSUME NEW r \in T
          PROVE  Ahead(S, r) \subseteq S /\ IsFiniteSet(Ahead(S, r))
      BY AheadFacts DEF Ordered
    <2> QED
      BY <2>1 DEF FiniteSubsetsOf
  <1>2. \E x : IsLeast(x, F)
    <2> HIDE DEF F
    <2> QED
      BY <1>1, LeastSet
  <1>3. PICK r \in T : \A q \in T : Ahead(S, q) \subseteq Ahead(S, r) => Ahead(S, q) = Ahead(S, r)
    BY <1>2 DEF IsLeast
  <1>4. ASSUME NEW q \in T, q # r, ~Newer(r.key, q.key)
        PROVE  FALSE
    <2>1. Newer(q.key, r.key) /\ q \in Ahead(S, r) /\ r.key \in RowKey
      BY <1>4, RowOrder DEF Ahead
    <2>2. Ahead(S, q) \subseteq Ahead(S, r) /\ q \notin Ahead(S, q)
      BY <2>1, AheadFacts
    <2> QED
      BY <1>3, <2>1, <2>2
  <1> QED
    BY <1>4

\* ... and an oldest.
LEMMA OldestRow ==
  ASSUME NEW S, Ordered(S), S # {}
  PROVE  LastOf(S) \in S /\ \A q \in S : q = LastOf(S) \/ Newer(q.key, LastOf(S).key)
  <1> DEFINE F == {Behind(S, r) : r \in S}
  <1>1. F \subseteq FiniteSubsetsOf(S) /\ F # {}
    <2>1. ASSUME NEW r \in S
          PROVE  Behind(S, r) \subseteq S /\ IsFiniteSet(Behind(S, r))
      BY FS_Subset DEF Ordered, Behind
    <2> QED
      BY <2>1 DEF FiniteSubsetsOf
  <1>2. \E x : IsLeast(x, F)
    <2> HIDE DEF F
    <2> QED
      BY <1>1, LeastSet
  <1>3. PICK r \in S : \A q \in S : Behind(S, q) \subseteq Behind(S, r) => Behind(S, q) = Behind(S, r)
    BY <1>2 DEF IsLeast
  <1>4. ASSUME NEW q \in S, q # r, ~Newer(q.key, r.key)
        PROVE  FALSE
    <2>1. Newer(r.key, q.key) /\ q \in Behind(S, r) /\ r.key \in RowKey /\ q.key \in RowKey
      BY <1>4, RowOrder DEF Behind
    <2>2. q \notin Behind(S, q)
      BY <2>1, NewerOrder DEF Behind
    <2>3. ASSUME NEW x \in Behind(S, q)
          PROVE  x \in Behind(S, r)
      <3>1. x \in S /\ x.key \in RowKey /\ Newer(q.key, x.key)
        BY DEF Behind, Ordered
      <3> QED
        BY <2>1, <3>1, NewerOrder DEF Behind
    <2> QED
      BY <1>3, <2>1, <2>2, <2>3
  <1>5. \E x \in S : \A q \in S : q = x \/ Newer(q.key, x.key)
    BY <1>4
  <1> QED
    BY <1>5 DEF LastOf

-----------------------------------------------------------------------------
(* The newest rows of a list.                                              *)

LEMMA TopIs ==
  ASSUME NEW S, NEW n
  PROVE  Top(S, n) = {r \in S : Cardinality(Ahead(S, r)) < n}
  BY DEF Top, Ahead

\* A row of the top has no row of the rest ahead of it.
LEMMA TopIsNewest ==
  ASSUME NEW S, Ordered(S), NEW n \in Nat, NEW q \in Top(S, n), NEW r \in S, r \notin Top(S, n)
  PROVE  Newer(q.key, r.key)
  <1>1. q \in S /\ Cardinality(Ahead(S, q)) < n /\ ~(Cardinality(Ahead(S, r)) < n)
    BY TopIs
  <1>2. q # r /\ q.key \in RowKey /\ r.key \in RowKey
    BY <1>1, RowOrder
  <1>3. ASSUME Newer(r.key, q.key)
        PROVE  FALSE
    <2>1. r \in Ahead(S, q)
      BY <1>3 DEF Ahead
    <2>2. Ahead(S, r) \subseteq Ahead(S, q) /\ IsFiniteSet(Ahead(S, q)) /\ Cardinality(Ahead(S, q)) \in Nat
      BY <1>2, <2>1, AheadFacts
    <2>3. Cardinality(Ahead(S, r)) <= Cardinality(Ahead(S, q)) /\ Cardinality(Ahead(S, r)) \in Nat
      BY <1>2, <2>2, AheadFacts, FS_Subset
    <2> QED
      BY <1>1, <2>2, <2>3
  <1> QED
    BY <1>1, <1>2, <1>3, RowOrder

\* A row that is not in the top has n rows of the top ahead of it.
LEMMA TopIsFull ==
  ASSUME NEW S, Ordered(S), NEW n \in Nat, NEW r \in S, r \notin Top(S, n)
  PROVE  IsFiniteSet(Top(S, n)) /\ Cardinality(Top(S, n)) \in Nat /\ n <= Cardinality(Top(S, n))
  <1> DEFINE T == S \ Top(S, n)
  <1>1. PICK x \in T : \A q \in T : q = x \/ Newer(x.key, q.key)
    <2>1. T \subseteq S /\ T # {}
      OBVIOUS
    <2> HIDE DEF T
    <2> QED
      BY <2>1, NewestRow
  <1>2. Ahead(S, x) \subseteq Top(S, n)
    <2>1. ASSUME NEW q \in Ahead(S, x), q \notin Top(S, n)
          PROVE  FALSE
      <3>1. q \in S /\ Newer(q.key, x.key) /\ q # x
        BY <1>1, RowOrder DEF Ahead
      <3>2. Newer(x.key, q.key)
        BY <1>1, <2>1, <3>1
      <3> QED
        BY <3>1, <3>2, <1>1, RowOrder
    <2> QED
      BY <2>1
  <1>3. ~(Cardinality(Ahead(S, x)) < n) /\ x.key \in RowKey
    BY <1>1, TopIs, RowOrder
  <1>4. Cardinality(Ahead(S, x)) \in Nat
    BY <1>3, AheadFacts
  <1>5. IsFiniteSet(Top(S, n))
    BY FS_Subset DEF Ordered, Top
  <1>6. Cardinality(Top(S, n)) \in Nat /\ Cardinality(Ahead(S, x)) <= Cardinality(Top(S, n))
    BY <1>2, <1>5, FS_Subset, FS_CardinalityType
  <1> QED
    BY <1>3, <1>4, <1>5, <1>6

\* The top has at most n rows.
LEMMA TopIsShort ==
  ASSUME NEW S, Ordered(S), NEW n \in Nat
  PROVE  Ordered(Top(S, n)) /\ Top(S, n) \subseteq S /\ Cardinality(Top(S, n)) \in 0..n
  <1>1. Top(S, n) \subseteq S /\ Ordered(Top(S, n)) /\ IsFiniteSet(Top(S, n)) /\ Cardinality(Top(S, n)) \in Nat
    <2>1. Top(S, n) \subseteq S
      BY DEF Top
    <2>2. Ordered(Top(S, n))
      BY <2>1, OrderedSubset
    <2> QED
      BY <2>1, <2>2, FS_CardinalityType DEF Ordered
  <1>2. CASE Top(S, n) = {}
    BY <1>1, <1>2, FS_EmptySet
  <1>3. CASE Top(S, n) # {}
    <2>1. PICK r : r = LastOf(Top(S, n))
      OBVIOUS
    <2>2. r \in Top(S, n) /\ \A q \in Top(S, n) : q = r \/ Newer(q.key, r.key)
      BY <1>1, <1>3, <2>1, OldestRow
    <2>3. Top(S, n) \subseteq Ahead(S, r) \cup {r}
      BY <1>1, <2>2 DEF Ahead
    <2>4. Cardinality(Ahead(S, r)) < n /\ r.key \in RowKey
      BY <1>1, <2>2, TopIs, RowOrder
    <2>5. IsFiniteSet(Ahead(S, r)) /\ r \notin Ahead(S, r) /\ Cardinality(Ahead(S, r)) \in Nat
      BY <2>4, AheadFacts
    <2>6. IsFiniteSet(Ahead(S, r) \cup {r}) /\ Cardinality(Ahead(S, r) \cup {r}) = Cardinality(Ahead(S, r)) + 1
      BY <2>5, FS_AddElement
    <2>7. Cardinality(Top(S, n)) <= Cardinality(Ahead(S, r) \cup {r})
      BY <2>3, <2>6, FS_Subset
    <2> QED
      BY <1>1, <2>4, <2>5, <2>6, <2>7
  <1> QED
    BY <1>2, <1>3

\* When there are no more rows than asked for, all are there.
LEMMA TopIsAll ==
  ASSUME NEW S, Ordered(S), NEW n \in Nat, Cardinality(Top(S, n)) < n
  PROVE  Top(S, n) = S
  <1>1. \A r \in S : r \in Top(S, n)
    BY TopIsFull, TopIsShort
  <1> QED
    BY <1>1, TopIsShort

LEMMA TopOfFew ==
  ASSUME NEW S, Ordered(S), NEW n \in Nat, Cardinality(S) <= n
  PROVE  Top(S, n) = S
  <1>1. ASSUME NEW r \in S
        PROVE  r \in Top(S, n)
    <2>1. r.key \in RowKey
      BY RowOrder
    <2>2. Ahead(S, r) \subseteq S \ {r} /\ Cardinality(Ahead(S, r)) \in Nat
      BY <2>1, AheadFacts
    <2>3. IsFiniteSet(S \ {r}) /\ Cardinality(S \ {r}) = Cardinality(S) - 1 /\ Cardinality(S) \in Nat
      BY FS_RemoveElement, FS_CardinalityType DEF Ordered
    <2>4. Cardinality(Ahead(S, r)) <= Cardinality(S \ {r})
      BY <2>2, <2>3, FS_Subset
    <2> QED
      BY <2>2, <2>3, <2>4, TopIs
  <1> QED
    BY <1>1, TopIsShort

-----------------------------------------------------------------------------
(* The tables.                                                             *)

PresentTables == [posts |-> posts, reposts |-> reposts, follows |-> follows, mutes |-> mutes,
         bookmarks |-> bookmarks, likes |-> likes, notices |-> notices, serial |-> serial]

TablesInv == Tables(PresentTables)

PostRecord     == [id : Nat, by : Actors, at : Nat, parent : Nat, quote : Nat, seenAt : Nat, live : BOOLEAN]
RepostRecord   == [id : Nat, by : Actors, post : Nat]
RelationRecord == [id : Nat, by : Actors]
MarkRecord     == [id : Nat, post : Nat]
NoticeRecord   == [id : Nat, by : Actors, post : Nat, at : Nat]

OnePerPost(marks) == \A r, q \in marks : r.post = q.post => r = q
OneOfEach(rows)   == \A r, q \in rows : r.by = q.by /\ r.post = q.post => r = q

LEMMA TablesInvIs ==
  TablesInv <=>
    /\ serial \in Nat \ {0}
    /\ Table(posts, serial) /\ Table(reposts, serial) /\ Table(follows, serial) /\ Table(mutes, serial)
    /\ Table(bookmarks, serial) /\ Table(likes, serial) /\ Table(notices, serial)
    /\ posts \subseteq PostRecord
    /\ reposts \subseteq RepostRecord /\ OneOfEach(reposts)
    /\ follows \subseteq RelationRecord /\ mutes \subseteq RelationRecord
    /\ bookmarks \subseteq MarkRecord /\ OnePerPost(bookmarks)
    /\ likes \subseteq MarkRecord /\ OnePerPost(likes)
    /\ notices \subseteq NoticeRecord
  BY DEF TablesInv, Tables, PresentTables, PostRecord, RepostRecord, RelationRecord, MarkRecord, NoticeRecord, OnePerPost, OneOfEach

LEMMA TablesInvPrime ==
  TablesInv' <=>
    /\ serial' \in Nat \ {0}
    /\ Table(posts', serial') /\ Table(reposts', serial') /\ Table(follows', serial') /\ Table(mutes', serial')
    /\ Table(bookmarks', serial') /\ Table(likes', serial') /\ Table(notices', serial')
    /\ posts' \subseteq PostRecord
    /\ reposts' \subseteq RepostRecord /\ OneOfEach(reposts')
    /\ follows' \subseteq RelationRecord /\ mutes' \subseteq RelationRecord
    /\ bookmarks' \subseteq MarkRecord /\ OnePerPost(bookmarks')
    /\ likes' \subseteq MarkRecord /\ OnePerPost(likes')
    /\ notices' \subseteq NoticeRecord
  BY DEF TablesInv, Tables, PresentTables, PostRecord, RepostRecord, RelationRecord, MarkRecord, NoticeRecord, OnePerPost, OneOfEach

LEMMA TableFacts ==
  ASSUME NEW rows, NEW last \in Nat, Table(rows, last)
  PROVE  /\ Table(rows, last + 1)
         /\ \A T \in SUBSET rows : Table(T, last) /\ Table(T, last + 1)
         /\ \A n : n.id = last + 1 => Table(rows \cup {n}, last + 1) /\ n \notin rows
         /\ \A r \in rows : \A n : n.id \in {r.id, last + 1} => Table((rows \ {r}) \cup {n}, last + 1)
         /\ \A r \in rows : \A n : n.id = r.id => Table((rows \ {r}) \cup {n}, last)
  <1>1. Table(rows, last + 1) /\ IsFiniteSet(rows) /\ \A r \in rows : r.id \in 1..last /\ \A q \in rows : q.id = r.id => q = r
    BY DEF Table
  <1>2. ASSUME NEW T \in SUBSET rows
        PROVE  Table(T, last) /\ Table(T, last + 1)
    <2>1. IsFiniteSet(T)
      BY <1>1, FS_Subset
    <2> QED
      BY <1>1, <2>1 DEF Table
  <1>3. ASSUME NEW n, n.id = last + 1
        PROVE  Table(rows \cup {n}, last + 1) /\ n \notin rows
    <2>1. IsFiniteSet(rows \cup {n})
      BY <1>1, FS_AddElement
    <2> QED
      BY <1>1, <1>3, <2>1 DEF Table
  <1>4. ASSUME NEW r \in rows, NEW n
        PROVE  IsFiniteSet((rows \ {r}) \cup {n})
    <2>1. IsFiniteSet(rows \ {r})
      BY <1>1, FS_Subset
    <2> QED
      BY <2>1, FS_AddElement
  <1>5. ASSUME NEW r \in rows, NEW n, n.id \in {r.id, last + 1}
        PROVE  Table((rows \ {r}) \cup {n}, last + 1)
    BY <1>1, <1>4, <1>5 DEF Table
  <1>6. ASSUME NEW r \in rows, NEW n, n.id = r.id
        PROVE  Table((rows \ {r}) \cup {n}, last)
    BY <1>1, <1>4, <1>6 DEF Table
  <1> QED
    BY <1>1, <1>2, <1>3, <1>5, <1>6

LEMMA AtIs ==
  ASSUME NEW n \in Nat
  PROVE  At(n) \in Nat
  BY DEF At

\* A step that leaves a table alone while the last id stays or moves on.
LEMMA TableKept ==
  ASSUME NEW rows, NEW last \in Nat, Table(rows, last), NEW next \in {last, last + 1}
  PROVE  Table(rows, next)
  BY TableFacts

\* A published or imported Post.
LEMMA PostAdded ==
  ASSUME TablesInv, NEW n \in PostRecord, n.id = serial', NextRow, posts' = posts \cup {n},
         UNCHANGED <<reposts, follows, mutes, bookmarks, likes, notices>>
  PROVE  TablesInv'
  <1>1. serial \in Nat \ {0} /\ serial' = serial + 1
    BY TablesInvIs DEF NextRow
  <1>2. Table(posts', serial')
    BY <1>1, TablesInvIs, TableFacts
  <1>3. posts' \subseteq PostRecord
    BY TablesInvIs
  <1>4. /\ Table(reposts, serial') /\ Table(follows, serial') /\ Table(mutes, serial')
        /\ Table(bookmarks, serial') /\ Table(likes, serial') /\ Table(notices, serial')
    BY <1>1, TablesInvIs, TableFacts
  <1> QED
    BY <1>1, <1>2, <1>3, <1>4, TablesInvIs, TablesInvPrime

LEMMA PublishKeepsTables ==
  ASSUME TablesInv, NEW a \in Actors, NEW parent \in Nat, NEW quote \in Nat, Publish(a, parent, quote)
  PROVE  TablesInv'
  <1>1. serial' \in Nat
    BY TablesInvIs DEF Publish, NextRow
  <1>2. PICK n : n = [id |-> serial', by |-> a, at |-> At(serial'), parent |-> parent, quote |-> quote, seenAt |-> At(serial'), live |-> TRUE]
    OBVIOUS
  <1>3. n \in PostRecord /\ n.id = serial'
    BY <1>1, <1>2, AtIs DEF PostRecord
  <1>4. NextRow /\ posts' = posts \cup {n} /\ UNCHANGED <<reposts, follows, mutes, bookmarks, likes, notices>>
    BY <1>2 DEF Publish
  <1> QED
    BY <1>3, <1>4, PostAdded

LEMMA ImportKeepsTables ==
  ASSUME TablesInv, NEW at \in {0, Now}, Import(at)
  PROVE  TablesInv'
  <1>1. serial \in Nat /\ serial' \in Nat /\ at \in Nat
    BY TablesInvIs, AtIs DEF Import, NextRow, Now
  <1>2. PICK n : n = [id |-> serial', by |-> Mirror, at |-> at, parent |-> 0, quote |-> 0, seenAt |-> At(serial'), live |-> TRUE]
    OBVIOUS
  <1>3. n \in PostRecord /\ n.id = serial'
    BY <1>1, <1>2, AtIs, ListsAssumption DEF PostRecord
  <1>4. NextRow /\ posts' = posts \cup {n} /\ UNCHANGED <<reposts, follows, mutes, bookmarks, likes, notices>>
    BY <1>2 DEF Import
  <1> QED
    BY <1>3, <1>4, PostAdded

LEMMA DeleteKeepsTables ==
  ASSUME TablesInv, NEW p \in Live, DeletePost(p)
  PROVE  TablesInv'
  <1>1. p \in posts /\ p \in PostRecord /\ serial \in Nat
    BY TablesInvIs DEF Live
  <1>2. PICK n : n = [p EXCEPT !.live = FALSE]
    OBVIOUS
  <1>3. n \in PostRecord /\ n.id = p.id
    BY <1>1, <1>2 DEF PostRecord
  <1>4. posts' = (posts \ {p}) \cup {n} /\ UNCHANGED <<reposts, follows, mutes, bookmarks, likes, notices, serial>>
    BY <1>2 DEF DeletePost
  <1>5. Table(posts', serial)
    BY <1>1, <1>3, <1>4, TablesInvIs, TableFacts
  <1>6. posts' \subseteq PostRecord
    BY <1>3, <1>4, TablesInvIs
  <1> QED
    BY <1>4, <1>5, <1>6, TablesInvIs, TablesInvPrime

LEMMA RepostKeepsTables ==
  ASSUME TablesInv, NEW a \in Actors, NEW p \in Live, RepostPost(a, p)
  PROVE  TablesInv'
  <1>1. serial \in Nat \ {0} /\ serial' = serial + 1 /\ p.id \in Nat
    BY TablesInvIs DEF RepostPost, NextRow, Live, PostRecord
  <1>2. PICK n : n = [id |-> serial', by |-> a, post |-> p.id]
    OBVIOUS
  <1>3. n \in RepostRecord /\ n.id = serial' /\ n.by = a /\ n.post = p.id
    BY <1>1, <1>2 DEF RepostRecord
  <1>4. /\ reposts' = reposts \cup {n} /\ UNCHANGED <<posts, follows, mutes, bookmarks, likes, notices>>
        /\ ~\E r \in reposts : r.by = a /\ r.post = p.id
    BY <1>2 DEF RepostPost
  <1>5. Table(reposts', serial') /\ reposts' \subseteq RepostRecord
    BY <1>1, <1>3, <1>4, TablesInvIs, TableFacts
  <1>6. OneOfEach(reposts')
    BY <1>3, <1>4, TablesInvIs DEF OneOfEach
  <1>7. /\ Table(posts, serial') /\ Table(follows, serial') /\ Table(mutes, serial')
        /\ Table(bookmarks, serial') /\ Table(likes, serial') /\ Table(notices, serial')
    BY <1>1, TablesInvIs, TableFacts
  <1> QED
    BY <1>1, <1>4, <1>5, <1>6, <1>7, TablesInvIs, TablesInvPrime

LEMMA FollowKeepsTables ==
  ASSUME TablesInv, NEW a \in Actors, FollowUser(a) \/ MuteUser(a)
  PROVE  TablesInv'
  <1>1. serial \in Nat \ {0} /\ serial' = serial + 1
    BY TablesInvIs DEF FollowUser, MuteUser, NextRow
  <1>2. PICK n : n = [id |-> serial', by |-> a]
    OBVIOUS
  <1>3. n \in RelationRecord /\ n.id = serial'
    BY <1>1, <1>2 DEF RelationRecord
  <1>4. /\ UNCHANGED <<posts, reposts, bookmarks, likes, notices>>
        /\ \/ follows' = follows \cup {n} /\ mutes' = mutes
           \/ mutes' = mutes \cup {n} /\ follows' = follows
    BY <1>2 DEF FollowUser, MuteUser
  <1>5. Table(follows', serial') /\ Table(mutes', serial')
    BY <1>1, <1>3, <1>4, TablesInvIs, TableFacts
  <1>6. follows' \subseteq RelationRecord /\ mutes' \subseteq RelationRecord
    BY <1>3, <1>4, TablesInvIs
  <1>7. /\ Table(posts, serial') /\ Table(reposts, serial')
        /\ Table(bookmarks, serial') /\ Table(likes, serial') /\ Table(notices, serial')
    BY <1>1, TablesInvIs, TableFacts
  <1> QED
    BY <1>1, <1>4, <1>5, <1>6, <1>7, TablesInvIs, TablesInvPrime

LEMMA RemovalKeepsTables ==
  ASSUME TablesInv,
         \/ \E r \in reposts : UndoRepostPost(r)
         \/ \E f \in follows : UnfollowUser(f)
         \/ \E m \in mutes : UnmuteUser(m)
         \/ \E b \in bookmarks : UnbookmarkPost(b)
  PROVE  TablesInv'
  <1>1. /\ UNCHANGED <<posts, likes, notices, serial>>
        /\ reposts' \subseteq reposts /\ follows' \subseteq follows /\ mutes' \subseteq mutes /\ bookmarks' \subseteq bookmarks
    BY DEF UndoRepostPost, UnfollowUser, UnmuteUser, UnbookmarkPost
  <1>2. serial \in Nat
    BY TablesInvIs
  <1>3. Table(reposts', serial) /\ Table(follows', serial) /\ Table(mutes', serial) /\ Table(bookmarks', serial)
    BY <1>1, <1>2, TablesInvIs, TableFacts
  <1>4. OneOfEach(reposts') /\ OnePerPost(bookmarks')
    BY <1>1, TablesInvIs DEF OneOfEach, OnePerPost
  <1> QED
    BY <1>1, <1>3, <1>4, TablesInvIs, TablesInvPrime

LEMMA MarkKeepsTables ==
  ASSUME TablesInv, NEW p \in Live, BookmarkPost(p) \/ React(p)
  PROVE  TablesInv'
  <1>1. serial \in Nat \ {0} /\ serial' = serial + 1 /\ p.id \in Nat
    BY TablesInvIs DEF BookmarkPost, React, NextRow, Live, PostRecord
  <1>2. PICK n : n = [id |-> serial', post |-> p.id]
    OBVIOUS
  <1>3. n \in MarkRecord /\ n.id = serial' /\ n.post = p.id
    BY <1>1, <1>2 DEF MarkRecord
  <1>4. /\ UNCHANGED <<posts, reposts, follows, mutes, notices>>
        /\ \/ /\ bookmarks' = bookmarks \cup {n} /\ likes' = likes
              /\ ~\E b \in bookmarks : b.post = p.id
           \/ /\ likes' = likes \cup {n} /\ bookmarks' = bookmarks
              /\ ~\E b \in likes : b.post = p.id
           \/ likes' \subseteq likes /\ bookmarks' = bookmarks
    BY <1>2 DEF BookmarkPost, React
  <1>5. Table(bookmarks', serial') /\ Table(likes', serial')
    BY <1>1, <1>3, <1>4, TablesInvIs, TableFacts
  <1>6. bookmarks' \subseteq MarkRecord /\ likes' \subseteq MarkRecord
    BY <1>3, <1>4, TablesInvIs
  <1>7. OnePerPost(bookmarks') /\ OnePerPost(likes')
    BY <1>3, <1>4, TablesInvIs DEF OnePerPost
  <1>8. Table(posts, serial') /\ Table(reposts, serial') /\ Table(follows, serial') /\ Table(mutes, serial') /\ Table(notices, serial')
    BY <1>1, TablesInvIs, TableFacts
  <1> QED
    BY <1>1, <1>4, <1>5, <1>6, <1>7, <1>8, TablesInvIs, TablesInvPrime

LEMMA NoticeKeepsTables ==
  ASSUME TablesInv, NEW o \in notices, Notified(o)
  PROVE  TablesInv'
  <1>1. serial \in Nat \ {0} /\ serial' = serial + 1 /\ o \in NoticeRecord
    BY TablesInvIs DEF Notified, NextRow
  <1>2. PICK n : n = [o EXCEPT !.at = At(serial')]
    OBVIOUS
  <1>3. n \in NoticeRecord /\ n.id = o.id
    <2>1. At(serial') \in Nat
      BY <1>1, AtIs
    <2> QED
      BY <1>1, <1>2, <2>1 DEF NoticeRecord
  <1>4. notices' = (notices \ {o}) \cup {n} /\ UNCHANGED <<posts, reposts, follows, mutes, bookmarks, likes>>
    BY <1>2 DEF Notified
  <1>5. Table(notices', serial')
    BY <1>1, <1>3, <1>4, TablesInvIs, TableFacts
  <1>6. notices' \subseteq NoticeRecord
    BY <1>3, <1>4, TablesInvIs
  <1>7. /\ Table(posts, serial') /\ Table(reposts, serial') /\ Table(follows, serial') /\ Table(mutes, serial')
        /\ Table(bookmarks, serial') /\ Table(likes, serial')
    BY <1>1, TablesInvIs, TableFacts
  <1> QED
    BY <1>1, <1>4, <1>5, <1>6, <1>7, TablesInvIs, TablesInvPrime

LEMMA RelationKeepsTables ==
  ASSUME TablesInv, Relation
  PROVE  TablesInv'
  BY ImportKeepsTables, RepostKeepsTables, FollowKeepsTables, RemovalKeepsTables, MarkKeepsTables, NoticeKeepsTables DEF Relation

LEMMA TablesFrame ==
  ASSUME TablesInv, UNCHANGED rowVars
  PROVE  TablesInv'
  BY TablesInvIs, TablesInvPrime DEF rowVars

LEMMA TablesStart ==
  ASSUME ListsInit
  PROVE  TablesInv
  <1>1. /\ posts = Start.posts /\ reposts = Start.reposts /\ follows = Start.follows /\ mutes = Start.mutes
        /\ bookmarks = Start.bookmarks /\ likes = Start.likes /\ notices = Start.notices /\ serial = Start.serial
    BY DEF ListsInit
  <1> QED
    BY <1>1, StartAssumption DEF TablesInv, Tables, PresentTables

-----------------------------------------------------------------------------
(* The cached page: the invariant.                                         *)

Present(page) == Public(Oldest) /\ page = Counters

PageLoad    == [pc : {"none", "get", "fence", "load", "set", "reget"}, token : Nat, page : Nat \cup {NotCached}, second : BOOLEAN]
PageRequest == [pc : {"idle", "wait", "validate", "served"}, at : Processes \cup {"none"}, page : Nat \cup {NotCached}, late : BOOLEAN]

CacheShape ==
  /\ cache \in Nat \cup {NotCached} /\ fence \in Nat /\ reads \in Nat /\ pending \in Nat /\ lost \in BOOLEAN
  /\ flight \in [Processes -> PageLoad] /\ request \in PageRequest

\* A load may write its page only under the fence it had before it read the Post.
LoadOK(f) == f.pc = "set" /\ fence # 0 /\ fence = f.token => Present(f.page)

FreshOK == pending = 0 /\ ~lost => (cache = NotCached \/ Present(cache)) /\ \A a \in Processes : LoadOK(flight[a])

\* Before the first request there is nothing to invalidate.
UnreadOK == reads = 0 => cache = NotCached /\ \A a \in Processes : flight[a].pc = "none"

\* A Post that was gone when it was asked for does not come back.
RequestOK == /\ request.pc # "idle" /\ request.late => ~Public(Oldest)
             /\ request.pc = "served" => ~request.late

CacheInv == CacheShape /\ FreshOK /\ UnreadOK /\ RequestOK

-----------------------------------------------------------------------------
(* The cached page: what the steps have in common.                         *)

LEMMA TokenIsNew ==
  ASSUME CacheShape
  PROVE  NewToken \in Nat \ {0} /\ NewToken # fence /\ \A a \in Processes : flight[a].token # NewToken
  <1>1. PICK n \in Nat : n = Cardinality(Processes)
    BY ReadsAssumption, FS_CardinalityType
  <1>2. PICK T : T = {flight[a].token : a \in Processes}
    OBVIOUS
  <1>3. IsFiniteSet(T) /\ Cardinality(T) <= n /\ Cardinality(T) \in Nat
    <2>1. PICK f : f = [a \in Processes |-> flight[a].token]
      OBVIOUS
    <2>2. f \in Surjection(Processes, T)
      BY <1>2, <2>1 DEF Surjection
    <2>3. IsFiniteSet(T) /\ Cardinality(T) <= Cardinality(Processes)
      BY <2>2, ReadsAssumption, FS_Surjection
    <2> QED
      BY <1>1, <2>3, FS_CardinalityType
  <1>4. IsFiniteSet(T \cup {fence}) /\ Cardinality(T \cup {fence}) <= n + 1 /\ Cardinality(T \cup {fence}) \in Nat
    <2>1. IsFiniteSet(T \cup {fence}) /\ (Cardinality(T \cup {fence}) = Cardinality(T) \/ Cardinality(T \cup {fence}) = Cardinality(T) + 1)
      BY <1>3, FS_AddElement
    <2> QED
      BY <1>3, <2>1, FS_CardinalityType
  <1>5. Cardinality(1..(n + 2)) = n + 2
    <2>1. 1 \in Int /\ n + 2 \in Int /\ ~(1 > n + 2)
      OBVIOUS
    <2>2. Cardinality(1..(n + 2)) = (n + 2) - 1 + 1
      BY <2>1, FS_Interval
    <2> QED
      BY <2>2
  <1>6. ~(1..(n + 2) \subseteq T \cup {fence})
    <2>1. SUFFICES ASSUME 1..(n + 2) \subseteq T \cup {fence}
                   PROVE  FALSE
      OBVIOUS
    <2>2. Cardinality(1..(n + 2)) <= Cardinality(T \cup {fence})
      BY <1>4, <2>1, FS_Subset
    <2> QED
      BY <1>4, <1>5, <2>2
  <1>7. \E t \in 1..Cardinality(Processes) + 2 : t # fence /\ \A a \in Processes : flight[a].token # t
    BY <1>1, <1>2, <1>6
  <1>8. NewToken \in 1..Cardinality(Processes) + 2 /\ NewToken # fence /\ \A a \in Processes : flight[a].token # NewToken
    BY <1>7 DEF NewToken
  <1> QED
    BY <1>1, <1>8

\* The page is told apart by the Post, its replies and its quotes.
LEMMA PageSame ==
  ASSUME \A p : Touches(p) => (p \in Live <=> p \in Live')
  PROVE  Public(Oldest)' = Public(Oldest) /\ Counters' = Counters
  <1>1. (\E p \in Live' : p.id = Oldest) <=> (\E p \in Live : p.id = Oldest)
    BY DEF Touches
  <1>2. {q \in Live' : q.parent = Oldest} = {q \in Live : q.parent = Oldest}
    BY DEF Touches
  <1>3. {q \in Live' : q.quote = Oldest} = {q \in Live : q.quote = Oldest}
    BY DEF Touches
  <1>4. ReplyRows' = ReplyRows /\ QuoteRows' = QuoteRows
    BY <1>2, <1>3 DEF ReplyRows, QuoteRows
  <1> QED
    BY <1>1, <1>4 DEF Public, Counters

LEMMA PageUnchanged ==
  ASSUME UNCHANGED posts
  PROVE  Public(Oldest)' = Public(Oldest) /\ Counters' = Counters
  BY PageSame DEF Live

\* A new row has a new id.
LEMMA FreshId ==
  ASSUME TablesInv, NextRow
  PROVE  serial' # Oldest /\ \A p \in posts : p.id # serial'
  BY TablesInvIs DEF NextRow, Table, Oldest

LEMMA PageAfterRelation ==
  ASSUME TablesInv, Relation
  PROVE  Public(Oldest)' = Public(Oldest) /\ Counters' = Counters
  <1>1. ASSUME NEW at \in {0, Now}, Import(at)
        PROVE  Public(Oldest)' = Public(Oldest) /\ Counters' = Counters
    <2>1. PICK n : n = [id |-> serial', by |-> Mirror, at |-> at, parent |-> 0, quote |-> 0, seenAt |-> At(serial'), live |-> TRUE]
      OBVIOUS
    <2>2. posts' = posts \cup {n} /\ n.parent = 0 /\ n.quote = 0 /\ n.id = serial' /\ serial' # Oldest
      BY <1>1, <2>1, FreshId DEF Import
    <2>3. ~Touches(n)
      BY <2>2 DEF Touches, Oldest
    <2>4. \A p : Touches(p) => (p \in Live <=> p \in Live')
      BY <2>2, <2>3 DEF Live
    <2> QED
      BY <2>4, PageSame
  <1>2. (\E at \in {0, Now} : Import(at)) \/ UNCHANGED posts
    BY DEF Relation, RepostPost, FollowUser, MuteUser, UndoRepostPost, UnfollowUser, UnmuteUser, BookmarkPost, React,
           UnbookmarkPost, Notified
  <1> QED
    BY <1>1, <1>2, PageUnchanged

LEMMA PageAfterPublish ==
  ASSUME TablesInv, NEW a \in Actors, NEW parent, NEW quote, Publish(a, parent, quote)
  PROVE  /\ Public(Oldest)' = Public(Oldest)
         /\ Oldest \notin {parent, quote} => Counters' = Counters
  <1>1. PICK n : n = [id |-> serial', by |-> a, at |-> At(serial'), parent |-> parent, quote |-> quote, seenAt |-> At(serial'), live |-> TRUE]
    OBVIOUS
  <1>2. posts' = posts \cup {n} /\ n.parent = parent /\ n.quote = quote /\ n.id = serial' /\ serial' # Oldest
    BY <1>1, FreshId DEF Publish
  <1>3. Public(Oldest)' = Public(Oldest)
    BY <1>2 DEF Public, Live
  <1>4. Oldest \notin {parent, quote} => \A p : Touches(p) => (p \in Live <=> p \in Live')
    BY <1>2 DEF Live, Touches
  <1> QED
    BY <1>3, <1>4, PageSame

LEMMA PageAfterDelete ==
  ASSUME TablesInv, NEW p \in Live, DeletePost(p)
  PROVE  /\ Public(Oldest)' => Public(Oldest)
         /\ ~Touches(p) => Public(Oldest)' = Public(Oldest) /\ Counters' = Counters
  <1>1. p \in posts /\ p \in PostRecord
    BY TablesInvIs DEF Live
  <1>2. PICK n : n = [p EXCEPT !.live = FALSE]
    OBVIOUS
  <1>3. n \in PostRecord /\ ~n.live /\ posts' = (posts \ {p}) \cup {n}
    BY <1>1, <1>2 DEF PostRecord, DeletePost
  <1>4. Live' = Live \ {p}
    BY <1>1, <1>3 DEF Live
  <1>5. Public(Oldest)' => Public(Oldest)
    BY <1>4 DEF Public
  <1>6. ~Touches(p) => \A q : Touches(q) => (q \in Live <=> q \in Live')
    BY <1>4
  <1> QED
    BY <1>5, <1>6, PageSame

LEMMA CountersAreNumbers ==
  ASSUME TablesInv
  PROVE  Counters \in Nat
  <1>1. IsFiniteSet(posts)
    BY TablesInvIs DEF Table
  <1>2. PICK R : R = {q \in Live : q.parent = Oldest}
    OBVIOUS
  <1>3. PICK Q : Q = {q \in Live : q.quote = Oldest}
    OBVIOUS
  <1>4. IsFiniteSet(R) /\ IsFiniteSet(Q)
    BY <1>1, <1>2, <1>3, FS_Subset DEF Live
  <1>5. ASSUME NEW S, IsFiniteSet(S), NEW T, T = {PostRow(p) : p \in S}
        PROVE  Cardinality(T) \in Nat
    <2>1. PICK f : f = [p \in S |-> PostRow(p)]
      OBVIOUS
    <2>2. f \in Surjection(S, T)
      BY <1>5, <2>1 DEF Surjection
    <2>3. IsFiniteSet(T)
      BY <1>5, <2>2, FS_Surjection
    <2> QED
      BY <2>3, FS_CardinalityType
  <1>6. ReplyRows = {PostRow(p) : p \in R} /\ QuoteRows = {PostRow(p) : p \in Q}
    BY <1>2, <1>3 DEF ReplyRows, QuoteRows
  <1>7. Cardinality(ReplyRows) \in Nat /\ Cardinality(QuoteRows) \in Nat
    BY <1>4, <1>5, <1>6
  <1> QED
    BY <1>7 DEF Counters

\* What the invariant asks of a step, with the page as it was.
LEMMA FreshStays ==
  ASSUME CacheInv, Public(Oldest)' = Public(Oldest), Counters' = Counters,
         UNCHANGED <<pending, lost>>, cache' \in {cache, NotCached}, fence' \in {fence, 0}, UNCHANGED flight
  PROVE  FreshOK'
  <1> SUFFICES ASSUME pending = 0, ~lost
               PROVE  (cache = NotCached \/ Present(cache))' /\ \A a \in Processes : LoadOK(flight[a])'
    BY DEF FreshOK
  <1>1. (cache = NotCached \/ Present(cache)) /\ \A a \in Processes : LoadOK(flight[a])
    BY DEF CacheInv, FreshOK
  <1>2. (cache = NotCached \/ Present(cache))'
    BY <1>1 DEF Present
  <1>3. ASSUME NEW a \in Processes
        PROVE  LoadOK(flight[a])'
    BY <1>1 DEF LoadOK, Present
  <1> QED
    BY <1>2, <1>3

\* The cache and its loads are left alone and the page is the same.
LEMMA CacheFrame ==
  ASSUME CacheInv, Public(Oldest)' = Public(Oldest), Counters' = Counters, UNCHANGED cacheVars
  PROVE  CacheInv'
  <1>1. UNCHANGED <<cache, fence, flight, request, reads, pending, lost>>
    BY DEF cacheVars
  <1>2. FreshOK'
    BY <1>1, FreshStays
  <1>3. CacheShape' /\ UnreadOK' /\ RequestOK'
    BY <1>1 DEF CacheInv, CacheShape, UnreadOK, RequestOK
  <1> QED
    BY <1>2, <1>3 DEF CacheInv

\* A write of the database that the page may show.
LEMMA WriteKeepsCache ==
  ASSUME CacheInv, NEW touched \in BOOLEAN, Pending(touched), UNCHANGED <<cache, fence, flight, request, reads, lost>>,
         Public(Oldest)' => Public(Oldest),
         ~touched => Public(Oldest)' = Public(Oldest) /\ Counters' = Counters
  PROVE  CacheInv'
  <1>1. pending \in Nat /\ reads \in Nat
    BY DEF CacheInv, CacheShape
  <1>2. CASE touched /\ reads > 0
    <2>1. pending' = pending + 1
      BY <1>2 DEF Pending
    <2>2. FreshOK'
      BY <1>1, <2>1 DEF FreshOK
    <2>3. CacheShape' /\ UnreadOK' /\ RequestOK'
      BY <2>1 DEF CacheInv, CacheShape, UnreadOK, RequestOK
    <2> QED
      BY <2>2, <2>3 DEF CacheInv
  <1>3. CASE ~touched \/ reads = 0
    <2>1. pending' = pending
      BY <1>3 DEF Pending
    <2>2. FreshOK'
      <3>1. CASE ~touched
        BY <2>1, <3>1, FreshStays
      <3>2. CASE reads = 0
        <4>1. cache' = NotCached /\ \A a \in Processes : flight'[a].pc = "none"
          BY <3>2 DEF CacheInv, UnreadOK
        <4> QED
          BY <4>1 DEF FreshOK, LoadOK
      <3> QED
        BY <1>3, <3>1, <3>2
    <2>3. CacheShape' /\ UnreadOK' /\ RequestOK'
      BY <2>1 DEF CacheInv, CacheShape, UnreadOK, RequestOK
    <2> QED
      BY <2>2, <2>3 DEF CacheInv
  <1> QED
    BY <1>1, <1>2, <1>3

\* An invalidation leaves no page and no load that may write one, or is lost.
LEMMA InvalidateFacts ==
  ASSUME CacheInv, Invalidate
  PROVE  /\ cache' \in Nat \cup {NotCached} /\ fence' \in Nat /\ lost' \in BOOLEAN /\ cache' \in {cache, NotCached}
         /\ \/ cache' = NotCached /\ lost' = lost /\ \A a \in Processes : flight[a].token # fence'
            \/ lost'
  BY TokenIsNew DEF CacheInv, CacheShape, Invalidate

LEMMA InvalidateFresh ==
  ASSUME CacheInv, Invalidate, UNCHANGED flight
  PROVE  FreshOK'
  <1>1. CASE lost'
    BY <1>1 DEF FreshOK
  <1>2. CASE cache' = NotCached /\ \A a \in Processes : flight[a].token # fence'
    BY <1>2 DEF FreshOK, LoadOK
  <1> QED
    BY <1>1, <1>2, InvalidateFacts

\* A load moves on; what it may write now is present.
LEMMA LoadMoves ==
  ASSUME CacheInv, UNCHANGED <<posts, pending, lost, reads>>, NEW a \in Processes, NEW s \in PageLoad,
         flight[a].pc # "none", flight' = [flight EXCEPT ![a] = s], fence' \in Nat,
         \A b \in Processes : b # a => fence' = fence \/ flight[b].token # fence',
         cache' = cache \/ (LoadOK(flight[a]) /\ flight[a].pc = "set" /\ FenceHolds(a) /\ cache' = flight[a].page),
         s.pc = "set" => (s.page = Counters /\ Public(Oldest)),
         request' \in PageRequest, RequestOK'
  PROVE  CacheInv'
  <1>p. Public(Oldest)' = Public(Oldest) /\ Counters' = Counters
    BY PageUnchanged
  <1>t. flight \in [Processes -> PageLoad] /\ reads # 0 /\ cache \in Nat \cup {NotCached}
    BY DEF CacheInv, CacheShape, UnreadOK
  <1>1. flight' \in [Processes -> PageLoad] /\ flight'[a] = s /\ \A b \in Processes : b # a => flight'[b] = flight[b]
    BY <1>t
  <1>2. cache' \in Nat \cup {NotCached}
    BY <1>t DEF PageLoad
  <1>3. CacheShape'
    BY <1>1, <1>2 DEF CacheInv, CacheShape
  <1>4. FreshOK'
    <2> SUFFICES ASSUME pending = 0, ~lost
                 PROVE  (cache = NotCached \/ Present(cache))' /\ \A b \in Processes : LoadOK(flight[b])'
      BY DEF FreshOK
    <2>1. (cache = NotCached \/ Present(cache)) /\ \A b \in Processes : LoadOK(flight[b])
      BY DEF CacheInv, FreshOK
    <2>2. (cache = NotCached \/ Present(cache))'
      BY <2>1, <1>p DEF Present, LoadOK, FenceHolds
    <2>3. LoadOK(flight[a])'
      BY <1>1, <1>p DEF LoadOK, Present
    <2>4. ASSUME NEW b \in Processes, b # a
          PROVE  LoadOK(flight[b])'
      BY <2>1, <2>4, <1>1, <1>p DEF LoadOK, Present
    <2> QED
      BY <2>2, <2>3, <2>4
  <1>5. UnreadOK'
    BY <1>t DEF UnreadOK
  <1> QED
    BY <1>3, <1>4, <1>5 DEF CacheInv

\* Who waits for a load gets a page or an error.
LEMMA Answered ==
  ASSUME CacheInv, UNCHANGED posts, NEW a \in Processes,
         \/ request' = request
         \/ request' = NotDelivered(a)
         \/ \E page \in Nat \cup {NotCached} : request' = Delivered(a, page)
  PROVE  request' \in PageRequest /\ RequestOK'
  <1>p. Public(Oldest)' = Public(Oldest)
    BY PageUnchanged
  <1>1. request \in PageRequest /\ RequestOK
    BY DEF CacheInv, CacheShape
  <1>2. NoPageRequest \in PageRequest /\ NoPageRequest.pc = "idle"
    BY DEF NoPageRequest, PageRequest
  <1>3. CASE request' = request
    BY <1>1, <1>3, <1>p DEF RequestOK
  <1>4. CASE request' = NoPageRequest
    BY <1>2, <1>4 DEF RequestOK
  <1>5. ASSUME NEW page \in Nat \cup {NotCached}, request' = [request EXCEPT !.pc = "validate", !.page = page], request.pc = "wait"
        PROVE  request' \in PageRequest /\ RequestOK'
    <2>1. request' \in PageRequest /\ request'.pc = "validate" /\ request'.late = request.late
      BY <1>1, <1>5 DEF PageRequest
    <2> QED
      BY <1>1, <1>5, <1>p, <2>1 DEF RequestOK
  <1>6. \/ request' = request
        \/ request' = NoPageRequest
        \/ \E page \in Nat \cup {NotCached} : request' = [request EXCEPT !.pc = "validate", !.page = page] /\ request.pc = "wait"
    BY DEF NotDelivered, Delivered, Waiting
  <1> QED
    BY <1>3, <1>4, <1>5, <1>6

-----------------------------------------------------------------------------
(* The cached page: the steps.                                             *)

LEMMA ReadStep ==
  ASSUME CacheInv, NEW a \in Processes, Read(a)
  PROVE  CacheInv'
  <1>u. UNCHANGED <<posts, cache, fence, pending, lost>> /\ reads' = reads + 1
    BY DEF Read, Unlisted, rowVars
  <1>p. Public(Oldest)' = Public(Oldest) /\ Counters' = Counters
    BY <1>u, PageUnchanged
  <1>t. cache \in Nat \cup {NotCached} /\ fence \in Nat /\ reads \in Nat /\ flight \in [Processes -> PageLoad] /\ FreshOK
    BY DEF CacheInv, CacheShape
  <1>1. PICK q : q = [pc |-> IF cache # NotCached THEN "validate" ELSE "wait", at |-> a, page |-> cache, late |-> ~Public(Oldest)]
    OBVIOUS
  <1>2. request' = q /\ q \in PageRequest /\ (q.late <=> ~Public(Oldest)) /\ q.pc # "served"
    BY <1>1, <1>t DEF Read, PageRequest, Public
  <1>3. PICK s : s = [NoFlight EXCEPT !.pc = "get"]
    OBVIOUS
  <1>4. s \in PageLoad /\ s.pc = "get"
    BY <1>3 DEF NoFlight, PageLoad
  <1>5. flight' = flight \/ flight' = [flight EXCEPT ![a] = s]
    BY <1>3 DEF Read
  <1>6. flight' \in [Processes -> PageLoad] /\ \A b \in Processes : flight'[b] = flight[b] \/ flight'[b] = s
    BY <1>4, <1>5, <1>t
  <1>7. CacheShape'
    BY <1>u, <1>2, <1>6 DEF CacheInv, CacheShape
  <1>8. FreshOK'
    BY <1>u, <1>p, <1>t, <1>4, <1>6 DEF FreshOK, LoadOK, Present
  <1>9. UnreadOK'
    BY <1>u, <1>t DEF UnreadOK
  <1>10. RequestOK'
    BY <1>2, <1>p DEF RequestOK
  <1> QED
    BY <1>7, <1>8, <1>9, <1>10 DEF CacheInv

\* Steps of the request alone.
LEMMA RequestSteps ==
  ASSUME CacheInv, ReadCancelled \/ ReadAgain
  PROVE  CacheInv'
  <1>u. UNCHANGED <<posts, cache, fence, flight, reads, pending, lost>> /\ request' = NoPageRequest
    BY DEF ReadCancelled, ReadAgain, Unlisted, rowVars
  <1>p. Public(Oldest)' = Public(Oldest) /\ Counters' = Counters
    BY <1>u, PageUnchanged
  <1>1. FreshOK'
    BY <1>u, <1>p, FreshStays
  <1>2. request' \in PageRequest /\ request'.pc = "idle"
    BY <1>u DEF NoPageRequest, PageRequest
  <1> QED
    BY <1>u, <1>1, <1>2 DEF CacheInv, CacheShape, UnreadOK, RequestOK

\* The cached page or the fence expires.
LEMMA ExpirySteps ==
  ASSUME CacheInv, CacheExpires \/ FenceExpires
  PROVE  CacheInv'
  <1>u. /\ UNCHANGED <<posts, flight, request, reads, pending, lost>>
        /\ cache' \in {cache, NotCached} /\ fence' \in {fence, 0}
    BY DEF CacheExpires, FenceExpires, Unlisted, rowVars
  <1>p. Public(Oldest)' = Public(Oldest) /\ Counters' = Counters
    BY <1>u, PageUnchanged
  <1>1. FreshOK'
    BY <1>u, <1>p, FreshStays
  <1> QED
    BY <1>u, <1>p, <1>1 DEF CacheInv, CacheShape, UnreadOK, RequestOK

LEMMA FlightGetStep ==
  ASSUME CacheInv, NEW a \in Processes, FlightGet(a)
  PROVE  CacheInv'
  <1>u. UNCHANGED <<posts, cache, fence, reads, pending, lost>> /\ flight[a].pc # "none"
    BY DEF FlightGet, Unlisted, rowVars
  <1>t. cache \in Nat \cup {NotCached} /\ fence \in Nat /\ flight[a] \in PageLoad
    BY DEF CacheInv, CacheShape
  <1>n. NoFlight \in PageLoad /\ NoFlight.pc # "set"
    BY DEF NoFlight, PageLoad
  <1>1. CASE cache # NotCached /\ flight' = [flight EXCEPT ![a] = NoFlight] /\ request' = Delivered(a, cache)
    <2>1. request' \in PageRequest /\ RequestOK'
      BY <1>u, <1>t, <1>1, Answered
    <2> QED
      BY <1>u, <1>t, <1>n, <1>1, <2>1, LoadMoves
  <1>2. CASE flight' = [flight EXCEPT ![a] = NoFlight] /\ request' = Delivered(a, flight[a].page)
    <2>1. flight[a].page \in Nat \cup {NotCached}
      BY <1>t DEF PageLoad
    <2>2. request' \in PageRequest /\ RequestOK'
      BY <1>u, <1>2, <2>1, Answered
    <2> QED
      BY <1>u, <1>t, <1>n, <1>2, <2>2, LoadMoves
  <1>3. CASE flight' = [flight EXCEPT ![a].pc = "fence", ![a].second = flight[a].pc = "reget"] /\ UNCHANGED request
    <2>1. PICK b \in BOOLEAN : b = (flight[a].pc = "reget")
      OBVIOUS
    <2>2. PICK s : s = [flight[a] EXCEPT !.pc = "fence", !.second = b]
      OBVIOUS
    <2>3. s \in PageLoad /\ s.pc = "fence"
      BY <1>t, <2>2 DEF PageLoad
    <2>4. flight' = [flight EXCEPT ![a] = s]
      BY <1>3, <2>1, <2>2, <1>t DEF CacheInv, CacheShape
    <2>5. request' \in PageRequest /\ RequestOK'
      BY <1>u, <1>3, Answered
    <2> QED
      BY <1>u, <1>t, <2>3, <2>4, <2>5, LoadMoves
  <1> QED
    BY <1>1, <1>2, <1>3 DEF FlightGet

LEMMA FlightFenceStep ==
  ASSUME CacheInv, NEW a \in Processes, FlightFence(a)
  PROVE  CacheInv'
  <1>u. UNCHANGED <<posts, cache, request, reads, pending, lost>> /\ flight[a].pc # "none"
    BY DEF FlightFence, Unlisted, rowVars
  <1>t. cache \in Nat \cup {NotCached} /\ fence \in Nat /\ flight[a] \in PageLoad /\ flight \in [Processes -> PageLoad]
    BY DEF CacheInv, CacheShape
  <1>1. fence' \in Nat /\ \A b \in Processes : b # a => fence' = fence \/ flight[b].token # fence'
    BY <1>t, TokenIsNew DEF FlightFence, CacheInv
  <1>2. PICK s : s = [flight[a] EXCEPT !.pc = "load", !.token = fence']
    OBVIOUS
  <1>3. s \in PageLoad /\ s.pc = "load"
    BY <1>t, <1>1, <1>2 DEF PageLoad
  <1>4. flight' = [flight EXCEPT ![a] = s]
    BY <1>t, <1>2 DEF FlightFence
  <1>5. request' \in PageRequest /\ RequestOK'
    BY <1>u, Answered
  <1> QED
    BY <1>u, <1>t, <1>1, <1>3, <1>4, <1>5, LoadMoves

LEMMA FlightLoadStep ==
  ASSUME CacheInv, TablesInv, NEW a \in Processes, FlightLoad(a)
  PROVE  CacheInv'
  <1>u. UNCHANGED <<posts, cache, fence, reads, pending, lost>> /\ flight[a].pc # "none"
    BY DEF FlightLoad, Unlisted, rowVars
  <1>t. fence \in Nat /\ flight[a] \in PageLoad /\ flight \in [Processes -> PageLoad]
    BY DEF CacheInv, CacheShape
  <1>1. CASE Public(Oldest) /\ flight' = [flight EXCEPT ![a].pc = "set", ![a].page = Counters] /\ UNCHANGED request
    <2>1. PICK n \in Nat : n = Counters
      BY CountersAreNumbers
    <2>2. PICK s : s = [flight[a] EXCEPT !.pc = "set", !.page = n]
      OBVIOUS
    <2>3. s \in PageLoad /\ s.page = n
      BY <1>t, <2>2 DEF PageLoad
    <2>4. flight' = [flight EXCEPT ![a] = s]
      BY <1>1, <1>t, <2>1, <2>2
    <2>5. request' \in PageRequest /\ RequestOK'
      BY <1>u, <1>1, Answered
    <2> QED
      BY <1>u, <1>t, <1>1, <2>1, <2>3, <2>4, <2>5, LoadMoves
  <1>2. CASE flight' = [flight EXCEPT ![a] = NoFlight] /\ request' = NotDelivered(a)
    <2>1. NoFlight \in PageLoad /\ NoFlight.pc # "set"
      BY DEF NoFlight, PageLoad
    <2>2. request' \in PageRequest /\ RequestOK'
      BY <1>u, <1>2, Answered
    <2> QED
      BY <1>u, <1>t, <1>2, <2>1, <2>2, LoadMoves
  <1> QED
    BY <1>1, <1>2 DEF FlightLoad

LEMMA FlightSetStep ==
  ASSUME CacheInv, NEW a \in Processes, FlightSet(a)
  PROVE  CacheInv'
  <1>u. UNCHANGED <<posts, fence, reads, pending, lost>> /\ flight[a].pc = "set"
    BY DEF FlightSet, Unlisted, rowVars
  <1>t. fence \in Nat /\ flight[a] \in PageLoad /\ flight \in [Processes -> PageLoad] /\ NotCached \notin Nat
    BY DEF CacheInv, CacheShape, NotCached
  <1>1. CASE FenceHolds(a) /\ cache' = flight[a].page /\ flight' = [flight EXCEPT ![a] = NoFlight] /\ request' = Delivered(a, flight[a].page)
    <2>1. NoFlight \in PageLoad /\ NoFlight.pc # "set"
      BY DEF NoFlight, PageLoad
    <2>2. flight[a].page \in Nat \cup {NotCached}
      BY <1>t DEF PageLoad
    <2>3. request' \in PageRequest /\ RequestOK'
      BY <1>u, <1>1, <2>2, Answered
    <2>4. CASE pending = 0 /\ ~lost
      <3>1. LoadOK(flight[a])
        BY <2>4 DEF CacheInv, FreshOK
      <3> QED
        BY <1>u, <1>t, <1>1, <2>1, <2>3, <3>1, LoadMoves
    <2>5. CASE ~(pending = 0 /\ ~lost)
      <3>1. FreshOK'
        BY <1>u, <2>5 DEF FreshOK
      <3>2. flight' \in [Processes -> PageLoad]
        BY <1>1, <1>t, <2>1
      <3>3. reads # 0
        BY <1>u DEF CacheInv, UnreadOK
      <3> QED
        BY <1>u, <1>1, <2>2, <2>3, <3>1, <3>2, <3>3 DEF CacheInv, CacheShape, UnreadOK
    <2> QED
      BY <2>4, <2>5
  <1>2. CASE flight' = [flight EXCEPT ![a].pc = "reget", ![a].token = 0] /\ UNCHANGED <<cache, request>>
    <2>1. PICK s : s = [flight[a] EXCEPT !.pc = "reget", !.token = 0]
      OBVIOUS
    <2>2. s \in PageLoad /\ s.pc = "reget"
      BY <1>t, <2>1 DEF PageLoad
    <2>3. flight' = [flight EXCEPT ![a] = s]
      BY <1>2, <1>t, <2>1
    <2>4. request' \in PageRequest /\ RequestOK'
      BY <1>u, <1>2, Answered
    <2> QED
      BY <1>u, <1>t, <1>2, <2>2, <2>3, <2>4, LoadMoves
  <1> QED
    BY <1>1, <1>2 DEF FlightSet

LEMMA FlightFailsStep ==
  ASSUME CacheInv, NEW a \in Processes, FlightFails(a)
  PROVE  CacheInv'
  <1>u. /\ UNCHANGED <<posts, cache, fence, reads, pending, lost>> /\ flight[a].pc # "none"
        /\ flight' = [flight EXCEPT ![a] = NoFlight] /\ request' = NotDelivered(a)
    BY DEF FlightFails, Unlisted, rowVars
  <1>1. NoFlight \in PageLoad /\ NoFlight.pc # "set" /\ fence \in Nat
    BY DEF NoFlight, PageLoad, CacheInv, CacheShape
  <1>2. request' \in PageRequest /\ RequestOK'
    BY <1>u, Answered
  <1> QED
    BY <1>u, <1>1, <1>2, LoadMoves

LEMMA ValidateStep ==
  ASSUME CacheInv, Validate
  PROVE  CacheInv'
  <1>u. UNCHANGED <<posts, flight, reads, pending>> /\ request.pc = "validate"
    BY DEF Validate, Unlisted, rowVars
  <1>p. Public(Oldest)' = Public(Oldest) /\ Counters' = Counters
    BY <1>u, PageUnchanged
  <1>t. request \in PageRequest /\ RequestOK
    BY DEF CacheInv, CacheShape
  <1>1. CASE Public(Oldest) /\ request' = [request EXCEPT !.pc = "served"] /\ UNCHANGED <<cache, fence, lost, changes>>
    <2>1. request' \in PageRequest /\ request'.pc = "served" /\ request'.late = request.late
      BY <1>1, <1>t DEF PageRequest
    <2>2. ~request.late
      BY <1>1, <1>t, <1>u DEF RequestOK
    <2>3. RequestOK'
      BY <2>1, <2>2 DEF RequestOK
    <2>4. FreshOK'
      BY <1>u, <1>p, <1>1, FreshStays
    <2> QED
      BY <1>u, <1>1, <2>1, <2>3, <2>4 DEF CacheInv, CacheShape, UnreadOK
  <1>2. CASE request' = NoPageRequest /\ Invalidate
    <2>1. FreshOK'
      BY <1>u, <1>2, InvalidateFresh
    <2>2. request' \in PageRequest /\ request'.pc = "idle"
      BY <1>2 DEF NoPageRequest, PageRequest
    <2>3. cache' \in Nat \cup {NotCached} /\ fence' \in Nat /\ lost' \in BOOLEAN /\ cache' \in {cache, NotCached}
      BY <1>2, InvalidateFacts
    <2> QED
      BY <1>u, <2>1, <2>2, <2>3 DEF CacheInv, CacheShape, UnreadOK, RequestOK
  <1> QED
    BY <1>1, <1>2 DEF Validate

LEMMA InvalidateWrittenStep ==
  ASSUME CacheInv, InvalidateWritten
  PROVE  CacheInv'
  <1>u. UNCHANGED <<posts, flight, request, reads>> /\ pending > 0 /\ pending' = pending - 1 /\ Invalidate
    BY DEF InvalidateWritten, Unlisted, rowVars
  <1>p. Public(Oldest)' = Public(Oldest) /\ Counters' = Counters
    BY <1>u, PageUnchanged
  <1>1. FreshOK'
    BY <1>u, InvalidateFresh
  <1>2. cache' \in Nat \cup {NotCached} /\ fence' \in Nat /\ lost' \in BOOLEAN /\ cache' \in {cache, NotCached} /\ pending' \in Nat
    BY <1>u, InvalidateFacts DEF CacheInv, CacheShape
  <1> QED
    BY <1>u, <1>p, <1>1, <1>2 DEF CacheInv, CacheShape, UnreadOK, RequestOK

\* Every step of the lists, of the page and of writers keeps the tables and the cache.
LEMMA CacheStep ==
  ASSUME TablesInv, CacheInv, ReadNext
  PROVE  TablesInv' /\ CacheInv'
  <1>1. CASE (OpenList \/ ScrollStep) /\ UNCHANGED cacheVars
    <2>1. UNCHANGED rowVars
      BY <1>1 DEF OpenList, Open, ScrollStep, Query, QueryBucket, NextBucket, Hydrate
    <2>2. Public(Oldest)' = Public(Oldest) /\ Counters' = Counters
      BY <2>1, PageUnchanged DEF rowVars
    <2> QED
      BY <1>1, <2>1, <2>2, TablesFrame, CacheFrame
  <1>2. CASE Relation /\ UNCHANGED cacheVars
    BY <1>2, RelationKeepsTables, PageAfterRelation, CacheFrame
  <1>3. ASSUME NEW a \in Actors, NEW parent \in {0, Oldest}, NEW quote \in {0, Oldest}, PublishPost(a, parent, quote)
        PROVE  TablesInv' /\ CacheInv'
    <2>1. /\ Publish(a, parent, quote) /\ Pending(Oldest \in {parent, quote})
          /\ UNCHANGED <<cache, fence, flight, request, reads, lost>>
      BY <1>3 DEF PublishPost
    <2>2. TablesInv'
      BY <2>1, PublishKeepsTables DEF Oldest
    <2>3. PICK touched \in BOOLEAN : touched <=> Oldest \in {parent, quote}
      OBVIOUS
    <2>4. Pending(touched)
      BY <2>1, <2>3 DEF Pending
    <2>5. (Public(Oldest)' => Public(Oldest)) /\ (~touched => Public(Oldest)' = Public(Oldest) /\ Counters' = Counters)
      BY <2>1, <2>3, PageAfterPublish
    <2> QED
      BY <2>1, <2>2, <2>4, <2>5, WriteKeepsCache
  <1>4. ASSUME NEW p \in Live, RemovePost(p)
        PROVE  TablesInv' /\ CacheInv'
    <2>1. DeletePost(p) /\ Pending(Touches(p)) /\ UNCHANGED <<cache, fence, flight, request, reads, lost>>
      BY <1>4 DEF RemovePost
    <2>2. TablesInv'
      BY <2>1, DeleteKeepsTables
    <2>3. PICK touched \in BOOLEAN : touched <=> Touches(p)
      BY DEF Touches
    <2>4. Pending(touched)
      BY <2>1, <2>3 DEF Pending
    <2>5. (Public(Oldest)' => Public(Oldest)) /\ (~touched => Public(Oldest)' = Public(Oldest) /\ Counters' = Counters)
      BY <2>1, <2>3, PageAfterDelete
    <2> QED
      BY <2>1, <2>2, <2>4, <2>5, WriteKeepsCache
  <1>5. ASSUME NEW a \in Processes, Read(a) \/ FlightStep(a) \/ FlightFails(a)
        PROVE  TablesInv' /\ CacheInv'
    <2>1. UNCHANGED rowVars
      BY <1>5 DEF Read, FlightStep, FlightGet, FlightFence, FlightLoad, FlightSet, FlightFails, Unlisted
    <2> QED
      BY <1>5, <2>1, TablesFrame, ReadStep, FlightGetStep, FlightFenceStep, FlightLoadStep, FlightSetStep, FlightFailsStep DEF FlightStep
  <1>6. CASE InvalidateWritten \/ ReadCancelled \/ Validate \/ ReadAgain \/ CacheExpires \/ FenceExpires
    <2>1. UNCHANGED rowVars
      BY <1>6 DEF InvalidateWritten, ReadCancelled, Validate, ReadAgain, CacheExpires, FenceExpires, Unlisted
    <2> QED
      BY <1>6, <2>1, TablesFrame, InvalidateWrittenStep, RequestSteps, ValidateStep, ExpirySteps
  <1> QED
    BY <1>1, <1>2, <1>3, <1>4, <1>5, <1>6 DEF ReadNext

LEMMA CacheStart ==
  ASSUME ReadsInit
  PROVE  CacheInv
  <1>1. NoFlight \in PageLoad /\ NoFlight.pc = "none" /\ NoPageRequest \in PageRequest /\ NoPageRequest.pc = "idle"
    BY DEF NoFlight, PageLoad, NoPageRequest, PageRequest
  <1>2. CacheShape
    BY <1>1 DEF ReadsInit, CacheShape
  <1>3. FreshOK /\ UnreadOK /\ RequestOK
    BY <1>1 DEF ReadsInit, FreshOK, LoadOK, UnreadOK, RequestOK
  <1> QED
    BY <1>2, <1>3 DEF CacheInv

-----------------------------------------------------------------------------
(* The lists are ordered.                                                  *)

\* One row for each of finitely many records.
LEMMA RowsOf ==
  ASSUME NEW S, IsFiniteSet(S), NEW f, NEW T, T = {f[x] : x \in S},
         \A x \in S : f[x].key \in RowKey /\ \A y \in S : f[y].key = f[x].key => f[y] = f[x]
  PROVE  Ordered(T)
  <1>1. PICK g : g = [x \in S |-> f[x]]
    OBVIOUS
  <1>2. g \in Surjection(S, T)
    BY <1>1 DEF Surjection
  <1>3. IsFiniteSet(T)
    BY <1>2, FS_Surjection
  <1> QED
    BY <1>3 DEF Ordered

LEMMA OrderedUnion ==
  ASSUME NEW S, NEW T, Ordered(S), Ordered(T), \A r \in S, q \in T : r.key # q.key
  PROVE  Ordered(S \cup T)
  <1>1. IsFiniteSet(S \cup T)
    BY FS_Union DEF Ordered
  <1> QED
    BY <1>1 DEF Ordered

LEMMA KeyIs ==
  ASSUME NEW i \in Int, NEW j \in Int, NEW k \in Int, i # -1 \/ j # -1 \/ k # -1
  PROVE  <<i, j, k>> \in RowKey
  BY DEF RowKey, NoCursor

AllOriginals == {Row(<<p.at, 1, p.id>>, p.id, p.by) : p \in Live}
AllReposts   == {Row(<<At(r.id), 2, r.id>>, r.post, r.by) : r \in reposts}
Activities   == AllOriginals \cup AllReposts

LEMMA LiveFacts ==
  ASSUME TablesInv
  PROVE  /\ IsFiniteSet(Live)
         /\ \A p \in Live : p \in PostRecord /\ p.id > 0 /\ p.at \in Nat /\ p.id \in Nat /\ \A q \in Live : q.id = p.id => q = p
  <1>1. IsFiniteSet(posts) /\ posts \subseteq PostRecord /\ \A p \in posts : p.id > 0 /\ \A q \in posts : q.id = p.id => q = p
    BY TablesInvIs DEF Table
  <1>2. IsFiniteSet(Live) /\ Live \subseteq posts
    BY <1>1, FS_Subset DEF Live
  <1> QED
    BY <1>1, <1>2 DEF PostRecord

LEMMA OriginalsOrdered ==
  ASSUME TablesInv
  PROVE  Ordered(AllOriginals) /\ \A r \in AllOriginals : r.key[2] = 1 /\ Public(r.post)
  <1>1. PICK f : f = [p \in Live |-> Row(<<p.at, 1, p.id>>, p.id, p.by)]
    OBVIOUS
  <1>2. ASSUME NEW p \in Live
        PROVE  f[p].key = <<p.at, 1, p.id>> /\ f[p].key \in RowKey /\ f[p].post = p.id
    BY <1>1, LiveFacts, KeyIs DEF Row
  <1>3. ASSUME NEW x \in Live, NEW y \in Live, f[y].key = f[x].key
        PROVE  f[y] = f[x]
    <2>1. x.id = y.id
      BY <1>2, <1>3
    <2> QED
      BY <2>1, LiveFacts
  <1>4. AllOriginals = {f[x] : x \in Live}
    BY <1>1 DEF AllOriginals
  <1>5. Ordered(AllOriginals)
    BY <1>2, <1>3, <1>4, LiveFacts, RowsOf
  <1>6. ASSUME NEW r \in AllOriginals
        PROVE  r.key[2] = 1 /\ Public(r.post)
    BY <1>2, <1>4 DEF Public
  <1> QED
    BY <1>5, <1>6

LEMMA RepostsOrdered ==
  ASSUME TablesInv
  PROVE  Ordered(AllReposts) /\ \A r \in AllReposts : r.key[2] = 2
  <1>0. IsFiniteSet(reposts) /\ \A r \in reposts : r.id \in Nat /\ At(r.id) \in Nat /\ \A q \in reposts : q.id = r.id => q = r
    BY TablesInvIs, AtIs DEF Table, RepostRecord
  <1>1. PICK f : f = [p \in reposts |-> Row(<<At(p.id), 2, p.id>>, p.post, p.by)]
    OBVIOUS
  <1>2. ASSUME NEW p \in reposts
        PROVE  f[p].key = <<At(p.id), 2, p.id>> /\ f[p].key \in RowKey
    BY <1>0, <1>1, KeyIs DEF Row
  <1>3. ASSUME NEW x \in reposts, NEW y \in reposts, f[y].key = f[x].key
        PROVE  f[y] = f[x]
    <2>1. x.id = y.id
      BY <1>2, <1>3
    <2> QED
      BY <2>1, <1>0
  <1>4. AllReposts = {f[x] : x \in reposts}
    BY <1>1 DEF AllReposts
  <1>5. Ordered(AllReposts)
    BY <1>0, <1>2, <1>3, <1>4, RowsOf
  <1>6. ASSUME NEW r \in AllReposts
        PROVE  r.key[2] = 2
    BY <1>2, <1>4
  <1> QED
    BY <1>5, <1>6

LEMMA ActivitiesOrdered ==
  ASSUME TablesInv
  PROVE  Ordered(Activities)
  <1>1. \A r \in AllOriginals, q \in AllReposts : r.key # q.key
    BY OriginalsOrdered, RepostsOrdered
  <1> QED
    BY <1>1, OriginalsOrdered, RepostsOrdered, OrderedUnion DEF Activities

LEMMA OriginalsIn ==
  ASSUME NEW a
  PROVE  Originals(a) \subseteq AllOriginals /\ Originals(a) \subseteq Activities
  <1>1. ASSUME NEW r \in Originals(a)
        PROVE  r \in AllOriginals
    <2>1. PICK p \in Live : p.by = a /\ r = Row(<<p.at, 1, p.id>>, p.id, a)
      BY DEF Originals
    <2> QED
      BY <2>1 DEF AllOriginals
  <1> QED
    BY <1>1 DEF Activities

LEMMA RepostsIn ==
  ASSUME NEW a
  PROVE  /\ Reposts(a) \subseteq AllReposts /\ Reposts(a) \subseteq Activities
         /\ \A r \in Reposts(a) : Public(r.post)
  <1>1. ASSUME NEW r \in Reposts(a)
        PROVE  r \in AllReposts /\ Public(r.post)
    <2>1. PICK p \in reposts : p.by = a /\ Public(p.post) /\ r = Row(<<At(p.id), 2, p.id>>, p.post, a)
      BY DEF Reposts
    <2>2. r.post = p.post
      BY <2>1 DEF Row
    <2> QED
      BY <2>1, <2>2 DEF AllReposts
  <1> QED
    BY <1>1 DEF Activities

LEMMA FollowedIn ==
  ASSUME TablesInv
  PROVE  /\ FollowedActivities \subseteq Activities /\ \A r \in FollowedActivities : Public(r.post)
         /\ \A a : VisibleOriginals(a) \subseteq Originals(a) /\ VisibleReposts(a) \subseteq Reposts(a)
  <1>1. \A a : VisibleOriginals(a) \subseteq Originals(a) /\ VisibleReposts(a) \subseteq Reposts(a)
    BY DEF VisibleOriginals, VisibleReposts
  <1>2. ASSUME NEW r \in FollowedActivities
        PROVE  r \in Activities /\ Public(r.post)
    <2>1. PICK a \in Followed : r \in VisibleOriginals(a) \cup VisibleReposts(a)
      BY DEF FollowedActivities
    <2>2. r \in Originals(a) \cup Reposts(a)
      BY <1>1, <2>1
    <2> QED
      BY <2>2, OriginalsIn, RepostsIn, OriginalsOrdered
  <1> QED
    BY <1>1, <1>2

AllPostRows == {PostRow(p) : p \in Live}

LEMMA PostRowsOrdered ==
  ASSUME TablesInv
  PROVE  Ordered(AllPostRows) /\ \A r \in AllPostRows : Public(r.post)
  <1>1. PICK f : f = [p \in Live |-> PostRow(p)]
    OBVIOUS
  <1>2. ASSUME NEW p \in Live
        PROVE  f[p].key = <<p.at, 0, p.id>> /\ f[p].key \in RowKey /\ f[p].post = p.id
    BY <1>1, LiveFacts, KeyIs DEF Row, PostRow
  <1>3. ASSUME NEW x \in Live, NEW y \in Live, f[y].key = f[x].key
        PROVE  f[y] = f[x]
    <2>1. x.id = y.id
      BY <1>2, <1>3
    <2> QED
      BY <2>1, LiveFacts
  <1>4. AllPostRows = {f[x] : x \in Live}
    BY <1>1 DEF AllPostRows
  <1>5. Ordered(AllPostRows)
    BY <1>2, <1>3, <1>4, LiveFacts, RowsOf
  <1>6. ASSUME NEW r \in AllPostRows
        PROVE  Public(r.post)
    BY <1>2, <1>4 DEF Public
  <1> QED
    BY <1>5, <1>6

LEMMA MarksOrdered ==
  ASSUME NEW marks, IsFiniteSet(marks), marks \subseteq MarkRecord, OnePerPost(marks)
  PROVE  Ordered({HistoryRow(b) : b \in marks})
  <1>1. PICK f : f = [b \in marks |-> HistoryRow(b)]
    OBVIOUS
  <1>2. ASSUME NEW b \in marks
        PROVE  f[b].key = <<At(b.id), 0, -b.post>> /\ f[b].key \in RowKey /\ b.post \in Nat
    <2>1. b.id \in Nat /\ b.post \in Nat /\ At(b.id) \in Nat
      BY AtIs DEF MarkRecord
    <2> QED
      BY <1>1, <2>1, KeyIs DEF HistoryRow, Row
  <1>3. ASSUME NEW x \in marks, NEW y \in marks, f[y].key = f[x].key
        PROVE  f[y] = f[x]
    <2>1. x.post = y.post
      BY <1>2, <1>3
    <2> QED
      BY <2>1 DEF OnePerPost
  <1>4. PICK T : T = {f[x] : x \in marks}
    OBVIOUS
  <1>5. Ordered(T)
    BY <1>2, <1>3, <1>4, RowsOf
  <1>6. T = {HistoryRow(b) : b \in marks}
    BY <1>1, <1>4
  <1> QED
    BY <1>5, <1>6

LEMMA NoticesOrdered ==
  ASSUME TablesInv
  PROVE  Ordered(NotificationRows)
  <1>1. PICK S : S = {m \in notices : ~Muted(m.by) /\ (m.post = 0 \/ Public(m.post))}
    OBVIOUS
  <1>2. IsFiniteSet(S) /\ \A m \in S : m \in NoticeRecord /\ \A n \in S : n.id = m.id => n = m
    <2>1. IsFiniteSet(notices) /\ notices \subseteq NoticeRecord /\ \A m \in notices : \A n \in notices : n.id = m.id => n = m
      BY TablesInvIs DEF Table
    <2> QED
      BY <1>1, <2>1, FS_Subset
  <1>3. PICK f : f = [n \in S |-> Row(<<n.at, 0, n.id>>, n.post, n.by)]
    OBVIOUS
  <1>4. ASSUME NEW n \in S
        PROVE  f[n].key = <<n.at, 0, n.id>> /\ f[n].key \in RowKey
    <2>1. n.id \in Nat /\ n.at \in Nat
      BY <1>2 DEF NoticeRecord
    <2> QED
      BY <1>3, <2>1, KeyIs DEF Row
  <1>5. ASSUME NEW x \in S, NEW y \in S, f[y].key = f[x].key
        PROVE  f[y] = f[x]
    <2>1. x.id = y.id
      BY <1>4, <1>5
    <2> QED
      BY <2>1, <1>2
  <1>6. NotificationRows = {f[x] : x \in S}
    BY <1>1, <1>3 DEF NotificationRows
  <1> QED
    BY <1>2, <1>4, <1>5, <1>6, RowsOf

LEMMA RelationsOrdered ==
  ASSUME NEW relation, relation \subseteq RelationRecord, NEW last, Table(relation, last)
  PROVE  Ordered(RelationRows(relation))
  <1>1. PICK f : f = [x \in relation |-> Row(<<At(x.id), 0, x.id>>, 0, x.by)]
    OBVIOUS
  <1>2. ASSUME NEW x \in relation
        PROVE  f[x].key = <<At(x.id), 0, x.id>> /\ f[x].key \in RowKey
    <2>1. x.id \in Nat /\ At(x.id) \in Nat
      BY AtIs DEF RelationRecord
    <2> QED
      BY <1>1, <2>1, KeyIs DEF Row
  <1>3. ASSUME NEW x \in relation, NEW y \in relation, f[y].key = f[x].key
        PROVE  f[y] = f[x]
    <2>1. x.id = y.id
      BY <1>2, <1>3
    <2> QED
      BY <2>1 DEF Table
  <1>4. RelationRows(relation) = {f[x] : x \in relation}
    BY <1>1 DEF RelationRows
  <1>5. IsFiniteSet(relation)
    BY DEF Table
  <1> QED
    BY <1>2, <1>3, <1>4, <1>5, RowsOf

\* Later buckets are those of Posts that are old enough.
LEMMA Buckets ==
  ASSUME NEW n \in Int, NEW b \in Int
  PROVE  n \div Width \in Int /\ ((b + 1) * Width <= n <=> b < n \div Width)
  <1>1. Width \in Nat \ {0}
    BY ListsAssumption
  <1>2. ASSUME NEW w \in Nat \ {0}
        PROVE  n \div w \in Int /\ ((b + 1) * w <= n => b < n \div w) /\ (b < n \div w => (b + 1) * w <= n)
    <2>1. (b + 1) * w <= n => b < n \div w
      OBVIOUS
    <2>2. b < n \div w => (b + 1) * w <= n
      OBVIOUS
    <2> QED
      BY <2>1, <2>2
  <1> QED
    BY <1>1, <1>2

LEMMA BucketsInOrder ==
  ASSUME NEW n \in Int, NEW m \in Int, n <= m
  PROVE  n \div Width <= m \div Width
  <1>1. ASSUME NEW w \in Nat \ {0}
        PROVE  n \div w <= m \div w
    OBVIOUS
  <1> QED
    BY <1>1, ListsAssumption

\* What a scroll never changes.
Scroller(r) == r.anchor \in Nat /\ r.seed \in {-1, 1}

LEMMA TopicOrdered ==
  ASSUME TablesInv, NEW r, Scroller(r)
  PROVE  /\ Ordered(TopicRows(r))
         /\ \A x \in TopicRows(r) : \E p \in Imported(r) : x.key[1] = -Bucket(r, p) /\ Bucket(r, p) \in Int /\ Public(x.post)
         /\ \A p \in Imported(r) : \E x \in TopicRows(r) : x.key[1] = -Bucket(r, p)
  <1>0. Imported(r) \subseteq Live /\ IsFiniteSet(Imported(r))
    BY LiveFacts, FS_Subset DEF Imported
  <1>1. PICK f : f = [p \in Imported(r) |-> Row(<<-Bucket(r, p), r.seed * p.id, p.id>>, p.id, p.by)]
    OBVIOUS
  <1>2. ASSUME NEW p \in Imported(r)
        PROVE  f[p].key = <<-Bucket(r, p), r.seed * p.id, p.id>> /\ f[p].key \in RowKey /\ f[p].post = p.id /\ Bucket(r, p) \in Int
    <2>1. p.id \in Nat /\ p.id > 0 /\ p.at \in Nat
      BY <1>0, LiveFacts
    <2>2. Bucket(r, p) \in Int
      <3>1. r.anchor - p.at \in Int
        BY <2>1 DEF Scroller
      <3>2. (r.anchor - p.at) \div Width \in Int
        BY <3>1, Buckets
      <3> QED
        BY <3>2 DEF Bucket
    <2>3. r.seed * p.id \in Int
      BY <2>1 DEF Scroller
    <2>4. <<-Bucket(r, p), r.seed * p.id, p.id>> \in RowKey
      BY <2>1, <2>2, <2>3, KeyIs
    <2> QED
      BY <1>1, <2>2, <2>4 DEF Row
  <1>3. ASSUME NEW x \in Imported(r), NEW y \in Imported(r), f[y].key = f[x].key
        PROVE  f[y] = f[x]
    <2>1. x.id = y.id
      BY <1>2, <1>3
    <2> QED
      BY <2>1, <1>0, LiveFacts
  <1>4. TopicRows(r) = {f[x] : x \in Imported(r)}
    BY <1>1 DEF TopicRows
  <1>5. Ordered(TopicRows(r))
    BY <1>0, <1>2, <1>3, <1>4, RowsOf
  <1>6. ASSUME NEW x \in TopicRows(r)
        PROVE  \E p \in Imported(r) : x.key[1] = -Bucket(r, p) /\ Bucket(r, p) \in Int /\ Public(x.post)
    <2>1. PICK p \in Imported(r) : x = f[p]
      BY <1>4
    <2> QED
      BY <2>1, <1>0, <1>2 DEF Public
  <1>7. ASSUME NEW p \in Imported(r)
        PROVE  \E x \in TopicRows(r) : x.key[1] = -Bucket(r, p)
    BY <1>2, <1>4
  <1> QED
    BY <1>5, <1>6, <1>7

LEMMA MarksSubset ==
  ASSUME TablesInv
  PROVE  Ordered(BookmarkRows) /\ Ordered(LikedRows)
  <1>1. PICK S : S = {HistoryRow(b) : b \in bookmarks}
    OBVIOUS
  <1>2. PICK T : T = {HistoryRow(b) : b \in likes}
    OBVIOUS
  <1>3. Ordered(S)
    <2>1. IsFiniteSet(bookmarks) /\ bookmarks \subseteq MarkRecord /\ OnePerPost(bookmarks)
      BY TablesInvIs DEF Table
    <2>2. Ordered({HistoryRow(b) : b \in bookmarks})
      BY <2>1, MarksOrdered
    <2> QED
      BY <1>1, <2>2
  <1>4. Ordered(T)
    <2>1. IsFiniteSet(likes) /\ likes \subseteq MarkRecord /\ OnePerPost(likes)
      BY TablesInvIs DEF Table
    <2>2. Ordered({HistoryRow(b) : b \in likes})
      BY <2>1, MarksOrdered
    <2> QED
      BY <1>2, <2>2
  <1>5. BookmarkRows \subseteq S /\ LikedRows \subseteq T
    BY <1>1, <1>2 DEF BookmarkRows, LikedRows
  <1> QED
    BY <1>3, <1>4, <1>5, OrderedSubset

LEMMA RowsOrdered ==
  ASSUME TablesInv, NEW r, Scroller(r)
  PROVE  Ordered(Rows(r))
  <1>1. Ordered(Winners(FollowedActivities))
    <2>1. Winners(FollowedActivities) \subseteq FollowedActivities
      BY DEF Winners
    <2>2. Winners(FollowedActivities) \subseteq Activities
      BY <2>1, FollowedIn
    <2> QED
      BY <2>2, ActivitiesOrdered, OrderedSubset
  <1>2. Ordered(Originals(Mirror) \cup Reposts(Mirror))
    <2>1. Originals(Mirror) \cup Reposts(Mirror) \subseteq Activities
      BY OriginalsIn, RepostsIn
    <2> QED
      BY <2>1, ActivitiesOrdered, OrderedSubset
  <1>3. Ordered(BookmarkRows) /\ Ordered(LikedRows) /\ Ordered(TopicRows(r)) /\ Ordered(NotificationRows)
    BY MarksSubset, TopicOrdered, NoticesOrdered
  <1>4. Ordered(ReplyRows) /\ Ordered(QuoteRows) /\ Ordered(SearchRows(r.anchor))
    <2>1. ReplyRows \subseteq AllPostRows /\ QuoteRows \subseteq AllPostRows
      BY DEF ReplyRows, QuoteRows, AllPostRows
    <2>2. SearchRows(r.anchor) \subseteq AllPostRows
      BY DEF SearchRows, AllPostRows
    <2> QED
      BY <2>1, <2>2, PostRowsOrdered, OrderedSubset
  <1>5. Ordered(RelationRows(mutes)) /\ Ordered(RelationRows(follows))
    <2>1. mutes \subseteq RelationRecord /\ follows \subseteq RelationRecord /\ Table(mutes, serial) /\ Table(follows, serial)
      BY TablesInvIs
    <2> QED
      BY <2>1, RelationsOrdered
  <1>6. Ordered({})
    BY FS_EmptySet DEF Ordered
  <1> QED
    BY <1>1, <1>2, <1>3, <1>4, <1>5, <1>6 DEF Rows

\* The lists of Posts that are read again show public ones.
LEMMA RowsArePublic ==
  ASSUME TablesInv, NEW r, Scroller(r), r.surface \in {"following", "profile", "search", "topic"}, NEW x \in Rows(r)
  PROVE  Public(x.post)
  <1>1. CASE r.surface = "following"
    <2>1. x \in FollowedActivities
      BY <1>1 DEF Rows, Winners
    <2> QED
      BY <2>1, FollowedIn
  <1>2. CASE r.surface = "profile"
    <2>1. x \in Originals(Mirror) \cup Reposts(Mirror)
      BY <1>2 DEF Rows
    <2> QED
      BY <2>1, OriginalsIn, RepostsIn, OriginalsOrdered
  <1>3. CASE r.surface = "search"
    <2>1. x \in AllPostRows
      BY <1>3 DEF Rows, SearchRows, AllPostRows
    <2> QED
      BY <2>1, PostRowsOrdered
  <1>4. CASE r.surface = "topic"
    <2>1. x \in TopicRows(r)
      BY <1>4 DEF Rows
    <2> QED
      BY <2>1, TopicOrdered
  <1> QED
    BY <1>1, <1>2, <1>3, <1>4

\* A list is that of its surface, anchor and seed.
LEMMA SameList ==
  ASSUME NEW r, NEW q, r.surface = q.surface, r.anchor = q.anchor, r.seed = q.seed
  PROVE  Rows(r) = Rows(q) /\ Imported(r) = Imported(q)
  <1>1. Imported(r) = Imported(q)
    BY DEF Imported
  <1>2. \A p : Bucket(r, p) = Bucket(q, p)
    BY DEF Bucket
  <1>3. TopicRows(r) = TopicRows(q)
    BY <1>1, <1>2 DEF TopicRows
  <1> QED
    BY <1>1, <1>3 DEF Rows

-----------------------------------------------------------------------------
(* Scrolling: the invariant.                                               *)

ScrollPcs == {"idle", "query", "bucket", "nextBucket", "hydrate", "end", "gone"}
Reader(rows) ==
  [pc : ScrollPcs, surface : Surfaces \cup {"none"}, cursor : RowKey \cup {NoCursor}, offset : Nat, count : Nat, rows : {rows},
   anchor : Nat, seed : {-1, 1}, bucket : Int]

ReaderOK ==
  /\ reader \in Reader(reader.rows)
  /\ reader.pc = "idle" => reader = NoReader /\ seen = {} /\ stable = {}
  /\ reader.pc # "idle" => reader.surface \in Surfaces
  /\ reader.pc \in {"bucket", "nextBucket"} => reader.surface = "topic"
  /\ reader.pc = "query" => reader.surface # "topic" /\ reader.rows = {}
  /\ reader.pc = "hydrate" => reader.surface \in {"following", "profile", "search", "topic"}

\* A row that a request with this cursor may ask for.
Past(c, x) == c = NoCursor \/ Newer(c, x.key)

\* What was shown is at the cursor or before it, and was counted once.
SeenOK ==
  reader.surface # "connections" =>
    /\ IsFiniteSet(seen) /\ reader.count = Cardinality(seen)
    /\ reader.pc # "end" => \A s \in seen : s.key \in RowKey /\ reader.cursor \in RowKey /\ (s.key = reader.cursor \/ Newer(s.key, reader.cursor))

\* The candidates so far: a page and one, after the cursor, in the buckets before the next.
RowsOK ==
  /\ Ordered(reader.rows) /\ Cardinality(reader.rows) \in 0..Limit + 1
  /\ reader.pc \in {"bucket", "nextBucket"} => Cardinality(reader.rows) <= Limit
  /\ \A x \in reader.rows :
       /\ Past(reader.cursor, x)
       /\ reader.pc = "bucket" => -x.key[1] < reader.bucket
       /\ reader.pc = "nextBucket" => -x.key[1] <= reader.bucket

\* The candidates hold the row, or fill the page before it is reached.
Reached(rows, r) == r \in rows \/ (Limit < Cardinality(rows) /\ \A x \in rows : Newer(x.key, r.key))

\* A row that stayed and was not shown yet is still to come.
Awaited(r) ==
  /\ reader.pc = "query" /\ reader.surface # "connections" => Past(reader.cursor, r)
  /\ reader.pc = "query" /\ reader.surface = "connections" /\ ~removed => reader.offset <= Cardinality(Ahead(Rows(reader), r))
  /\ reader.pc = "bucket" => r \in reader.rows \/ (Past(reader.cursor, r) /\ reader.bucket <= -r.key[1])
  /\ reader.pc = "nextBucket" => r \in reader.rows \/ (Past(reader.cursor, r) /\ reader.bucket < -r.key[1])
  /\ reader.pc = "hydrate" => Reached(reader.rows, r)
  /\ reader.pc = "end" => reader.surface = "connections" /\ (removed \/ reader.offset > MaxOffset - Limit)

StableOK == stable \subseteq Rows(reader) /\ \A r \in stable \ seen : Awaited(r)

ScrollInv == ReaderOK /\ SeenOK /\ RowsOK /\ StableOK

-----------------------------------------------------------------------------
(* A page of candidates.                                                   *)

\* Behind enough rows of a list, a row has the whole of its top before it.
LEMMA TopAhead ==
  ASSUME NEW S, NEW r, Ordered(S \cup {r}), NEW n \in Nat, n <= Cardinality(Ahead(S, r)), r \notin Top(S, n)
  PROVE  n <= Cardinality(Top(S, n)) /\ \A q \in Top(S, n) : Newer(q.key, r.key)
  <1>1. Ordered(S) /\ r.key \in RowKey
    <2>1. Ordered(S)
      BY OrderedSubset
    <2> QED
      BY <2>1 DEF Ordered
  <1>2. IsFiniteSet(Ahead(S, r)) /\ Ahead(S, r) \subseteq S /\ Cardinality(Ahead(S, r)) \in Nat
    BY <1>1, AheadFacts
  <1>3. Top(S, n) \subseteq S /\ Cardinality(Top(S, n)) \in Nat /\ Ordered(Top(S, n))
    BY <1>1, TopIsShort
  <1>4. n <= Cardinality(Top(S, n))
    <2>1. CASE Top(S, n) = S
      <3>1. IsFiniteSet(S)
        BY <1>1 DEF Ordered
      <3>2. Cardinality(Ahead(S, r)) <= Cardinality(S)
        BY <3>1, <1>2, FS_Subset
      <3> QED
        BY <3>2, <2>1, <1>2, <1>3
    <2>2. CASE Top(S, n) # S
      <3>1. PICK y \in S : y \notin Top(S, n)
        BY <2>2, <1>3
      <3> QED
        BY <3>1, <1>1, TopIsFull
    <2> QED
      BY <2>1, <2>2
  <1>5. ASSUME NEW q \in Top(S, n)
        PROVE  Newer(q.key, r.key)
    <2>1. q \in S /\ q # r
      BY <1>3
    <2>2. Newer(q.key, r.key) \/ Newer(r.key, q.key)
      BY <2>1, RowOrder
    <2>3. CASE Newer(r.key, q.key)
      <3>1. q.key \in RowKey
        BY <2>1, <1>1 DEF Ordered
      <3>2. Ahead(S, r) \subseteq Ahead(S, q)
        <4> SUFFICES ASSUME NEW z \in S, Newer(z.key, r.key)
                     PROVE  Newer(z.key, q.key)
          BY DEF Ahead
        <4>1. z.key \in RowKey
          BY <1>1 DEF Ordered
        <4> QED
          BY <4>1, <3>1, <2>3, <1>1, NewerOrder
      <3>3. IsFiniteSet(Ahead(S, q)) /\ Cardinality(Ahead(S, q)) \in Nat
        BY <3>1, <1>1, AheadFacts
      <3>4. Cardinality(Ahead(S, r)) <= Cardinality(Ahead(S, q))
        BY <3>2, <3>3, FS_Subset
      <3>5. Cardinality(Ahead(S, q)) < n
        BY TopIs
      <3> QED
        BY <3>4, <3>5, <3>3, <1>2
    <2> QED
      BY <2>2, <2>3
  <1> QED
    BY <1>4, <1>5

\* The candidates are the first of the list: what they lack comes after them.
LEMMA TopReaches ==
  ASSUME NEW S, Ordered(S), NEW r \in S
  PROVE  Reached(Top(S, Limit + 1), r)
  <1>1. CASE r \in Top(S, Limit + 1)
    BY <1>1 DEF Reached
  <1>2. CASE r \notin Top(S, Limit + 1)
    <2>1. Limit \in Nat /\ Limit + 1 \in Nat
      BY ListsAssumption
    <2>2. Cardinality(Top(S, Limit + 1)) \in Nat /\ Limit + 1 <= Cardinality(Top(S, Limit + 1))
      BY <2>1, <1>2, TopIsFull
    <2>3. \A q \in Top(S, Limit + 1) : Newer(q.key, r.key)
      BY <2>1, <1>2, TopIsNewest
    <2> QED
      BY <2>1, <2>2, <2>3 DEF Reached
  <1> QED
    BY <1>1, <1>2

-----------------------------------------------------------------------------
(* The first page of the Following timeline.                               *)

\* Each Post is there once among an actor's own Posts, and once among the reposts.
LEMMA OnePostEach ==
  ASSUME TablesInv, NEW a
  PROVE  /\ \A x, y \in Originals(a) : x.post = y.post => x = y
         /\ \A x, y \in Reposts(a) : x.post = y.post => x = y
  <1>1. ASSUME NEW x \in Originals(a), NEW y \in Originals(a), x.post = y.post
        PROVE  x = y
    <2>1. PICK p \in Live : p.by = a /\ x = Row(<<p.at, 1, p.id>>, p.id, a)
      BY DEF Originals
    <2>2. PICK q \in Live : q.by = a /\ y = Row(<<q.at, 1, q.id>>, q.id, a)
      BY DEF Originals
    <2>3. p = q
      BY <2>1, <2>2, <1>1, LiveFacts DEF Row
    <2> QED
      BY <2>1, <2>2, <2>3
  <1>2. ASSUME NEW x \in Reposts(a), NEW y \in Reposts(a), x.post = y.post
        PROVE  x = y
    <2>1. PICK p \in reposts : p.by = a /\ x = Row(<<At(p.id), 2, p.id>>, p.post, a)
      BY DEF Reposts
    <2>2. PICK q \in reposts : q.by = a /\ y = Row(<<At(q.id), 2, q.id>>, q.post, a)
      BY DEF Reposts
    <2>3. p.post = q.post
      BY <2>1, <2>2, <1>2 DEF Row
    <2>4. p = q
      BY <2>1, <2>2, <2>3, TablesInvIs DEF OneOfEach
    <2> QED
      BY <2>1, <2>2, <2>4
  <1> QED
    BY <1>1, <1>2

\* Among some activities, the latest of a Post is at or before any other of it.
LEMMA WinnerOf ==
  ASSUME NEW U, Ordered(U), NEW x \in U
  PROVE  \E w \in Winners(U) : w.post = x.post /\ (w = x \/ Newer(w.key, x.key))
  <1> DEFINE T == {y \in U : y.post = x.post}
  <1>1. T \subseteq U /\ x \in T
    OBVIOUS
  <1>2. \E w \in T : \A q \in T : q = w \/ Newer(w.key, q.key)
    <2> HIDE DEF T
    <2> QED
      BY <1>1, NewestRow
  <1>3. PICK w \in T : \A q \in T : q = w \/ Newer(w.key, q.key)
    BY <1>2
  <1>4. w \in Winners(U)
    BY <1>3 DEF Winners
  <1> QED
    BY <1>3, <1>4, <1>1

\* What the first page is chosen from.
FirstRows == UNION {Top(VisibleOriginals(a), Limit + 1) \cup Top(VisibleReposts(a), Limit + 1) : a \in Followed}

LEMMA FirstRowsIn ==
  ASSUME TablesInv
  PROVE  /\ FirstPage = Winners(FirstRows) /\ FirstRows \subseteq FollowedActivities
         /\ Ordered(FollowedActivities) /\ Ordered(FirstRows) /\ Ordered(FirstPage) /\ FirstPage \subseteq FirstRows
  <1>1. FirstPage = Winners(FirstRows)
    BY DEF FirstPage, FirstRows
  <1>2. FirstRows \subseteq FollowedActivities
    <2> SUFFICES ASSUME NEW x \in FirstRows
                 PROVE  x \in FollowedActivities
      OBVIOUS
    <2>1. PICK a \in Followed : x \in Top(VisibleOriginals(a), Limit + 1) \cup Top(VisibleReposts(a), Limit + 1)
      BY DEF FirstRows
    <2>2. x \in VisibleOriginals(a) \cup VisibleReposts(a)
      BY <2>1 DEF Top
    <2> QED
      BY <2>2 DEF FollowedActivities
  <1>3. Ordered(FollowedActivities)
    BY FollowedIn, ActivitiesOrdered, OrderedSubset
  <1>4. Ordered(FirstRows)
    BY <1>2, <1>3, OrderedSubset
  <1>5. Winners(FirstRows) \subseteq FirstRows
    BY DEF Winners
  <1> QED
    BY <1>1, <1>2, <1>3, <1>4, <1>5, OrderedSubset

\* An activity whose actor has a page of later ones is behind a page of winners.
LEMMA FirstPageAhead ==
  ASSUME TablesInv, NEW G, G \subseteq FollowedActivities, Top(G, Limit + 1) \subseteq FirstRows,
         \A x, y \in G : x.post = y.post => x = y,
         NEW r \in G, r \notin Top(G, Limit + 1)
  PROVE  Limit + 1 <= Cardinality(Ahead(FirstPage, r))
  <1> DEFINE T == Top(G, Limit + 1)
  <1>0. Limit + 1 \in Nat
    BY ListsAssumption
  <1>1. Ordered(G) /\ Ordered(FollowedActivities) /\ Ordered(FirstRows) /\ Ordered(FirstPage) /\ FirstPage = Winners(FirstRows)
        /\ FirstRows \subseteq FollowedActivities
    BY FirstRowsIn, OrderedSubset
  <1>2. IsFiniteSet(T) /\ Cardinality(T) \in Nat /\ Limit + 1 <= Cardinality(T)
    BY <1>0, <1>1, TopIsFull
  <1>3. \A x \in T : Newer(x.key, r.key)
    BY <1>0, <1>1, TopIsNewest
  <1>4. T \subseteq G /\ T \subseteq FirstRows
    BY DEF Top
  <1> HIDE DEF T
  <1>5. PICK win : win = [x \in T |-> CHOOSE w \in Winners(FirstRows) : w.post = x.post /\ (w = x \/ Newer(w.key, x.key))]
    OBVIOUS
  <1>6. \A x \in T : win[x] \in Winners(FirstRows) /\ win[x].post = x.post /\ (win[x] = x \/ Newer(win[x].key, x.key))
    BY <1>5, <1>4, <1>1, WinnerOf
  <1>7. \A x \in T : win[x] \in Ahead(FirstPage, r)
    <2> SUFFICES ASSUME NEW x \in T
                 PROVE  win[x] \in Ahead(FirstPage, r)
      OBVIOUS
    <2>1. win[x] \in FirstPage /\ (win[x] = x \/ Newer(win[x].key, x.key)) /\ Newer(x.key, r.key)
      BY <1>6, <1>3, <1>1
    <2>2. win[x].key \in RowKey /\ x.key \in RowKey /\ r.key \in RowKey
      BY <2>1, <1>1, <1>4 DEF Ordered
    <2>3. Newer(win[x].key, r.key)
      BY <2>1, <2>2, NewerOrder
    <2> QED
      BY <2>1, <2>3 DEF Ahead
  <1>8. \A x, y \in T : win[x] = win[y] => x = y
    BY <1>6, <1>4
  <1>9. IsFiniteSet(Ahead(FirstPage, r)) /\ Cardinality(Ahead(FirstPage, r)) \in Nat
    <2>1. r.key \in RowKey
      BY <1>1 DEF Ordered
    <2> QED
      BY <2>1, <1>1, AheadFacts
  <1>10. Cardinality(T) <= Cardinality(Ahead(FirstPage, r))
    <2>1. win \in Injection(T, Ahead(FirstPage, r))
      <3>1. win \in [T -> Ahead(FirstPage, r)]
        BY <1>5, <1>7
      <3> QED
        BY <3>1, <1>8 DEF Injection, IsInjective
    <2> QED
      BY <2>1, <1>9, FS_Injection
  <1> QED
    BY <1>2, <1>9, <1>10, <1>0

LEMMA FirstPageReaches ==
  ASSUME TablesInv, NEW r \in Winners(FollowedActivities)
  PROVE  Reached(Top(FirstPage, Limit + 1), r)
  <1>0. Limit \in Nat /\ Limit + 1 \in Nat
    BY ListsAssumption
  <1>1. Ordered(FollowedActivities) /\ Ordered(FirstPage) /\ FirstPage = Winners(FirstRows) /\ FirstRows \subseteq FollowedActivities
        /\ FirstPage \subseteq FollowedActivities
    BY FirstRowsIn
  <1>2. r \in FollowedActivities /\ \A q \in FollowedActivities : q.post = r.post => q = r \/ Newer(r.key, q.key)
    BY DEF Winners
  <1>3. CASE r \in FirstPage
    BY <1>3, <1>1, TopReaches
  <1>4. CASE r \notin FirstPage
    <2>1. r \notin FirstRows
      <3>1. r \in FirstRows => r \in Winners(FirstRows)
        BY <1>1, <1>2 DEF Winners
      <3> QED
        BY <3>1, <1>1, <1>4
    <2>2. PICK a \in Followed : r \in VisibleOriginals(a) \cup VisibleReposts(a)
      BY <1>2 DEF FollowedActivities
    <2>3. Top(VisibleOriginals(a), Limit + 1) \subseteq FirstRows /\ Top(VisibleReposts(a), Limit + 1) \subseteq FirstRows
      BY DEF FirstRows
    <2>4. VisibleOriginals(a) \subseteq FollowedActivities /\ VisibleReposts(a) \subseteq FollowedActivities
      BY DEF FollowedActivities
    <2>5. VisibleOriginals(a) \subseteq Originals(a) /\ VisibleReposts(a) \subseteq Reposts(a)
      BY FollowedIn
    <2>6. r \in VisibleOriginals(a) => Limit + 1 <= Cardinality(Ahead(FirstPage, r))
      <3>0. r \in VisibleOriginals(a) => r \notin Top(VisibleOriginals(a), Limit + 1)
        BY <2>1, <2>3
      <3>1. \A x, y \in VisibleOriginals(a) : x.post = y.post => x = y
        BY <2>5, OnePostEach
      <3> QED
        BY <3>0, <3>1, <2>3, <2>4, FirstPageAhead
    <2>7. r \in VisibleReposts(a) => Limit + 1 <= Cardinality(Ahead(FirstPage, r))
      <3>0. r \in VisibleReposts(a) => r \notin Top(VisibleReposts(a), Limit + 1)
        BY <2>1, <2>3
      <3>1. \A x, y \in VisibleReposts(a) : x.post = y.post => x = y
        BY <2>5, OnePostEach
      <3> QED
        BY <3>0, <3>1, <2>3, <2>4, FirstPageAhead
    <2>8. Limit + 1 <= Cardinality(Ahead(FirstPage, r))
      BY <2>2, <2>6, <2>7
    <2>9. Ordered(FirstPage \cup {r})
      BY <1>1, <1>2, OrderedSubset
    <2>10. r \notin Top(FirstPage, Limit + 1)
      BY <1>4 DEF Top
    <2>11. Limit + 1 <= Cardinality(Top(FirstPage, Limit + 1)) /\ \A q \in Top(FirstPage, Limit + 1) : Newer(q.key, r.key)
      BY <2>8, <2>9, <2>10, <1>0, TopAhead
    <2>12. Cardinality(Top(FirstPage, Limit + 1)) \in Nat
      BY <1>0, <1>1, TopIsShort
    <2> QED
      BY <2>11, <2>12, <1>0 DEF Reached
  <1> QED
    BY <1>3, <1>4

-----------------------------------------------------------------------------
(* The candidates of a request.                                            *)

LEMMA ReaderIs ==
  ASSUME ReaderOK
  PROVE  /\ Scroller(reader) /\ reader.pc \in ScrollPcs /\ reader.cursor \in RowKey \cup {NoCursor}
         /\ reader.offset \in Nat /\ reader.count \in Nat /\ reader.bucket \in Int
         /\ reader.surface \in Surfaces \cup {"none"}
  BY DEF ReaderOK, Reader, Scroller

LEMMA AfterCursorIs ==
  ASSUME TablesInv, NEW r, Scroller(r)
  PROVE  /\ Ordered(AfterCursor(r)) /\ AfterCursor(r) \subseteq Rows(r)
         /\ AfterCursor(r) = {x \in Rows(r) : Past(r.cursor, x)}
  <1>1. AfterCursor(r) = {x \in Rows(r) : Past(r.cursor, x)}
    BY DEF AfterCursor, Past
  <1>2. Ordered(Rows(r))
    BY RowsOrdered
  <1> QED
    BY <1>1, <1>2, OrderedSubset

LEMMA CandidatesFollow ==
  ASSUME TablesInv, ReaderOK, reader.surface # "connections"
  PROVE  /\ Ordered(Candidates(reader)) /\ Cardinality(Candidates(reader)) \in 0..Limit + 1
         /\ \A x \in Candidates(reader) : Past(reader.cursor, x)
         /\ \A r \in Rows(reader) : Past(reader.cursor, r) => Reached(Candidates(reader), r)
         /\ reader.surface = "following" /\ reader.cursor # NoCursor => Candidates(reader) \subseteq Winners(FollowedActivities)
  <1>0. Limit + 1 \in Nat /\ Scroller(reader)
    BY ListsAssumption, ReaderIs
  <1>1. CASE reader.surface = "following" /\ reader.cursor = NoCursor
    <2>1. Candidates(reader) = Top(FirstPage, Limit + 1)
      BY <1>1 DEF Candidates
    <2>2. Rows(reader) = Winners(FollowedActivities)
      BY <1>1 DEF Rows
    <2>3. Ordered(FirstPage)
      BY FirstRowsIn
    <2>4. Ordered(Top(FirstPage, Limit + 1)) /\ Cardinality(Top(FirstPage, Limit + 1)) \in 0..Limit + 1
      BY <2>3, <1>0, TopIsShort
    <2>5. \A r \in Rows(reader) : Reached(Top(FirstPage, Limit + 1), r)
      BY <2>2, FirstPageReaches
    <2> QED
      BY <2>1, <2>4, <2>5, <1>1 DEF Past
  <1>2. CASE ~(reader.surface = "following" /\ reader.cursor = NoCursor)
    <2>1. Candidates(reader) = Top(AfterCursor(reader), Limit + 1)
      BY <1>2 DEF Candidates
    <2>2. Ordered(AfterCursor(reader)) /\ AfterCursor(reader) \subseteq Rows(reader)
          /\ AfterCursor(reader) = {x \in Rows(reader) : Past(reader.cursor, x)}
      BY <1>0, AfterCursorIs
    <2>3. Ordered(Candidates(reader)) /\ Cardinality(Candidates(reader)) \in 0..Limit + 1 /\ Candidates(reader) \subseteq AfterCursor(reader)
      <3>1. Ordered(Top(AfterCursor(reader), Limit + 1)) /\ Cardinality(Top(AfterCursor(reader), Limit + 1)) \in 0..Limit + 1
            /\ Top(AfterCursor(reader), Limit + 1) \subseteq AfterCursor(reader)
        BY <2>2, <1>0, TopIsShort
      <3> QED
        BY <3>1, <2>1
    <2>4. \A r \in Rows(reader) : Past(reader.cursor, r) => Reached(Candidates(reader), r)
      BY <2>1, <2>2, TopReaches
    <2>5. reader.surface = "following" => Rows(reader) = Winners(FollowedActivities)
      BY DEF Rows
    <2> QED
      BY <2>2, <2>3, <2>4, <2>5
  <1> QED
    BY <1>1, <1>2

-----------------------------------------------------------------------------
(* A page is shown.                                                        *)

Page(rows) == Top(rows, Limit)
Items(rows) == IF reader.surface \in OneQuery THEN Page(rows) ELSE {x \in Page(rows) : Public(x.post)}
Scanned(rows) == LastOf(IF reader.surface = "topic" /\ Items(rows) # {} THEN Items(rows) ELSE Page(rows))
More(rows) == Cardinality(rows) > Limit /\ (reader.surface = "connections" => reader.offset <= MaxOffset - Limit)

AtEnd(items) == [reader EXCEPT !.rows = {}, !.count = @ + Cardinality(items), !.pc = "end"]
AtBucket(items, last) == [reader EXCEPT !.rows = {}, !.count = @ + Cardinality(items), !.pc = "bucket", !.cursor = last.key, !.bucket = -last.key[1]]
AtQuery(items, last) == [reader EXCEPT !.rows = {}, !.count = @ + Cardinality(items), !.pc = "query", !.cursor = last.key, !.offset = @ + Limit]

LEMMA ShownIs ==
  ASSUME ReaderOK, NEW rows, Shown(reader, rows)
  PROVE  /\ seen' = seen \cup Items(rows)
         /\ ~More(rows) => reader' = AtEnd(Items(rows))
         /\ More(rows) /\ reader.surface = "topic" => reader' = AtBucket(Items(rows), Scanned(rows))
         /\ More(rows) /\ reader.surface # "topic" => reader' = AtQuery(Items(rows), Scanned(rows))
  <1>1. PICK items : items = Items(rows)
    OBVIOUS
  <1>2. PICK last : last = Scanned(rows)
    OBVIOUS
  <1>3. PICK more \in BOOLEAN : more <=> More(rows)
    BY DEF More
  <1>4. PICK next : next = [reader EXCEPT !.rows = {}, !.count = @ + Cardinality(items)]
    OBVIOUS
  <1>5. /\ seen' = seen \cup items
        /\ reader' = CASE ~more -> [next EXCEPT !.pc = "end"]
                       [] more /\ reader.surface = "topic" -> [next EXCEPT !.pc = "bucket", !.cursor = last.key, !.bucket = -last.key[1]]
                       [] OTHER -> [next EXCEPT !.pc = "query", !.cursor = last.key, !.offset = @ + Limit]
    BY <1>1, <1>2, <1>3, <1>4 DEF Shown, Items, Page, Scanned, More
  <1>6. ~more => reader' = AtEnd(items)
    BY <1>4, <1>5 DEF AtEnd
  <1>7. more /\ reader.surface = "topic" => reader' = AtBucket(items, last)
    BY <1>4, <1>5 DEF AtBucket
  <1>8. more /\ reader.surface # "topic" => reader' = AtQuery(items, last)
    <2>1. more /\ reader.surface # "topic" => reader' = [next EXCEPT !.pc = "query", !.cursor = last.key, !.offset = @ + Limit]
      BY <1>5
    <2>2. next.offset = reader.offset
      BY <1>4 DEF ReaderOK, Reader
    <2> QED
      BY <2>1, <2>2, <1>4 DEF AtQuery
  <1> QED
    BY <1>1, <1>2, <1>3, <1>5, <1>6, <1>7, <1>8

SameScroll(r) == r.surface = reader.surface /\ r.anchor = reader.anchor /\ r.seed = reader.seed

\* Some fields of a reader are set.
LEMMA ReaderMoves ==
  ASSUME NEW P, NEW S, NEW C, NEW O, NEW D, NEW A, NEW B, NEW W, NEW V,
         NEW x \in [pc : P, surface : S, cursor : C, offset : O, count : O, rows : W, anchor : A, seed : D, bucket : B],
         NEW p \in P, NEW c \in C, NEW o \in O, NEW n \in O, NEW b \in B, NEW v \in V,
         NEW y, y = [x EXCEPT !.rows = v, !.count = n, !.pc = p, !.cursor = c, !.offset = o, !.bucket = b]
  PROVE  /\ y \in [pc : P, surface : S, cursor : C, offset : O, count : O, rows : V, anchor : A, seed : D, bucket : B]
         /\ y.surface = x.surface /\ y.anchor = x.anchor /\ y.seed = x.seed
         /\ y.rows = v /\ y.count = n /\ y.pc = p /\ y.cursor = c /\ y.offset = o /\ y.bucket = b
  OBVIOUS

Moved(v, n, p, c, o, b) == [reader EXCEPT !.rows = v, !.count = n, !.pc = p, !.cursor = c, !.offset = o, !.bucket = b]
IsMoved(r, v, n, p, c, o, b) ==
  /\ r \in Reader(v) /\ SameScroll(r)
  /\ r.rows = v /\ r.count = n /\ r.pc = p /\ r.cursor = c /\ r.offset = o /\ r.bucket = b

LEMMA ReaderTo ==
  ASSUME ReaderOK, NEW v, NEW n, n \in Nat, NEW p, p \in ScrollPcs, NEW c, c \in RowKey \cup {NoCursor}, NEW o, o \in Nat, NEW b, b \in Int
  PROVE  IsMoved(Moved(v, n, p, c, o, b), v, n, p, c, o, b)
  <1>1. reader \in Reader(reader.rows)
    BY DEF ReaderOK
  <1>2. PICK r : r = Moved(v, n, p, c, o, b)
    OBVIOUS
  <1>3. r \in Reader(v) /\ r.surface = reader.surface /\ r.anchor = reader.anchor /\ r.seed = reader.seed
         /\ r.rows = v /\ r.count = n /\ r.pc = p /\ r.cursor = c /\ r.offset = o /\ r.bucket = b
    BY <1>1, <1>2, ReaderMoves DEF Reader, Moved
  <1> QED
    BY <1>2, <1>3 DEF SameScroll, IsMoved

LEMMA AtEndIs ==
  ASSUME ReaderOK, NEW items, Cardinality(items) \in Nat, NEW r, r = AtEnd(items)
  PROVE  /\ r \in Reader({}) /\ SameScroll(r) /\ r.rows = {} /\ r.count = reader.count + Cardinality(items) /\ r.pc = "end"
         /\ r.cursor = reader.cursor /\ r.offset = reader.offset
  <1>1. PICK n \in Nat : n = reader.count + Cardinality(items)
    BY ReaderIs
  <1>2. r = [reader EXCEPT !.rows = {}, !.count = n, !.pc = "end"]
    BY <1>1 DEF AtEnd
  <1>3. reader \in [pc : ScrollPcs, surface : Surfaces \cup {"none"}, cursor : RowKey \cup {NoCursor}, offset : Nat, count : Nat,
                    rows : {reader.rows}, anchor : Nat, seed : {-1, 1}, bucket : Int]
    BY DEF ReaderOK, Reader
  <1>4. r = Moved({}, n, "end", reader.cursor, reader.offset, reader.bucket)
    BY <1>2, <1>3 DEF Moved
  <1>5. "end" \in ScrollPcs /\ reader.cursor \in RowKey \cup {NoCursor} /\ reader.offset \in Nat /\ reader.bucket \in Int
    BY ReaderIs DEF ScrollPcs
  <1>6. IsMoved(r, {}, n, "end", reader.cursor, reader.offset, reader.bucket)
    BY <1>1, <1>4, <1>5, ReaderTo
  <1> QED
    BY <1>1, <1>6 DEF IsMoved

LEMMA AtBucketIs ==
  ASSUME ReaderOK, NEW items, Cardinality(items) \in Nat, NEW last, last.key \in RowKey, NEW r, r = AtBucket(items, last)
  PROVE  /\ r \in Reader({}) /\ SameScroll(r) /\ r.rows = {} /\ r.count = reader.count + Cardinality(items) /\ r.pc = "bucket"
         /\ r.cursor = last.key /\ r.bucket = -last.key[1]
  <1>1. PICK n \in Nat : n = reader.count + Cardinality(items)
    BY ReaderIs
  <1>2. PICK b \in Int : b = -last.key[1]
    BY DEF RowKey
  <1>3. r = [reader EXCEPT !.rows = {}, !.count = n, !.pc = "bucket", !.cursor = last.key, !.bucket = b]
    BY <1>1, <1>2 DEF AtBucket
  <1>4. reader \in [pc : ScrollPcs, surface : Surfaces \cup {"none"}, cursor : RowKey \cup {NoCursor}, offset : Nat, count : Nat,
                    rows : {reader.rows}, anchor : Nat, seed : {-1, 1}, bucket : Int]
    BY DEF ReaderOK, Reader
  <1>5. r = Moved({}, n, "bucket", last.key, reader.offset, b)
    BY <1>3, <1>4 DEF Moved
  <1>6. "bucket" \in ScrollPcs /\ last.key \in RowKey \cup {NoCursor} /\ reader.offset \in Nat
    BY ReaderIs DEF ScrollPcs
  <1>7. IsMoved(r, {}, n, "bucket", last.key, reader.offset, b)
    BY <1>1, <1>2, <1>5, <1>6, ReaderTo
  <1> QED
    BY <1>1, <1>2, <1>7 DEF IsMoved

LEMMA AtQueryIs ==
  ASSUME ReaderOK, NEW items, Cardinality(items) \in Nat, NEW last, last.key \in RowKey, NEW r, r = AtQuery(items, last)
  PROVE  /\ r \in Reader({}) /\ SameScroll(r) /\ r.rows = {} /\ r.count = reader.count + Cardinality(items) /\ r.pc = "query"
         /\ r.cursor = last.key /\ r.offset = reader.offset + Limit
  <1>1. PICK n \in Nat : n = reader.count + Cardinality(items)
    BY ReaderIs
  <1>2. PICK o \in Nat : o = reader.offset + Limit
    BY ReaderIs, ListsAssumption
  <1>3. r = [reader EXCEPT !.rows = {}, !.count = n, !.pc = "query", !.cursor = last.key, !.offset = o]
    BY <1>1, <1>2 DEF AtQuery
  <1>4. reader \in [pc : ScrollPcs, surface : Surfaces \cup {"none"}, cursor : RowKey \cup {NoCursor}, offset : Nat, count : Nat,
                    rows : {reader.rows}, anchor : Nat, seed : {-1, 1}, bucket : Int]
    BY DEF ReaderOK, Reader
  <1>5. r = Moved({}, n, "query", last.key, o, reader.bucket)
    BY <1>3, <1>4 DEF Moved
  <1>6. "query" \in ScrollPcs /\ last.key \in RowKey \cup {NoCursor} /\ reader.bucket \in Int
    BY ReaderIs DEF ScrollPcs
  <1>7. IsMoved(r, {}, n, "query", last.key, o, reader.bucket)
    BY <1>1, <1>2, <1>5, <1>6, ReaderTo
  <1> QED
    BY <1>1, <1>2, <1>7 DEF IsMoved

LEMMA PageFacts ==
  ASSUME NEW rows, Ordered(rows), Cardinality(rows) \in 0..Limit + 1
  PROVE  /\ Page(rows) \subseteq rows /\ Items(rows) \subseteq Page(rows)
         /\ Ordered(Page(rows)) /\ Ordered(Items(rows)) /\ IsFiniteSet(Items(rows)) /\ Cardinality(Items(rows)) \in Nat
         /\ \A x \in Page(rows) : reader.surface \in OneQuery \/ Public(x.post) => x \in Items(rows)
         /\ Cardinality(rows) <= Limit => Page(rows) = rows
         /\ More(rows) => /\ Scanned(rows) \in Page(rows) /\ Scanned(rows).key \in RowKey
                          /\ \A x \in Items(rows) : x = Scanned(rows) \/ Newer(x.key, Scanned(rows).key)
  <1>0. Limit \in Nat /\ Limit > 0
    BY ListsAssumption
  <1>1. Ordered(Page(rows)) /\ Page(rows) \subseteq rows /\ Cardinality(Page(rows)) \in 0..Limit
    BY <1>0, TopIsShort DEF Page
  <1>2. Items(rows) \subseteq Page(rows)
    BY DEF Items
  <1>3. Ordered(Items(rows))
    BY <1>1, <1>2, OrderedSubset
  <1>4. IsFiniteSet(Items(rows)) /\ Cardinality(Items(rows)) \in Nat
    BY <1>3, FS_CardinalityType DEF Ordered
  <1>5. \A x \in Page(rows) : reader.surface \in OneQuery \/ Public(x.post) => x \in Items(rows)
    BY DEF Items
  <1>6. Cardinality(rows) <= Limit => Page(rows) = rows
    BY <1>0, TopOfFew DEF Page
  <1>7. ASSUME More(rows)
        PROVE  /\ Scanned(rows) \in Page(rows) /\ Scanned(rows).key \in RowKey
               /\ \A x \in Items(rows) : x = Scanned(rows) \/ Newer(x.key, Scanned(rows).key)
    <2>1. Cardinality(rows) > Limit
      BY <1>7 DEF More
    <2>2. Page(rows) # rows
      BY <2>1, <1>1, <1>0
    <2>3. PICK y \in rows : y \notin Page(rows)
      BY <2>2, <1>1
    <2>4. Limit <= Cardinality(Page(rows))
      BY <2>3, <1>0, TopIsFull DEF Page
    <2>5. Page(rows) # {}
      BY <2>4, <1>0, FS_EmptySet
    <2>6. PICK shown : shown = IF reader.surface = "topic" /\ Items(rows) # {} THEN Items(rows) ELSE Page(rows)
      OBVIOUS
    <2>7. Ordered(shown) /\ shown # {} /\ shown \subseteq Page(rows) /\ Items(rows) \subseteq shown
      BY <2>5, <2>6, <1>1, <1>2, <1>3
    <2>8. LastOf(shown) \in shown /\ \A q \in shown : q = LastOf(shown) \/ Newer(q.key, LastOf(shown).key)
      BY <2>7, OldestRow
    <2>9. Scanned(rows) = LastOf(shown)
      BY <2>6 DEF Scanned
    <2>10. Scanned(rows).key \in RowKey
      BY <2>7, <2>8, <2>9 DEF Ordered
    <2> QED
      BY <2>7, <2>8, <2>9, <2>10
  <1> QED
    BY <1>1, <1>2, <1>3, <1>4, <1>5, <1>6, <1>7

Showing(rows) ==
  /\ TablesInv /\ ScrollInv /\ Ordered(rows) /\ Cardinality(rows) \in 0..Limit + 1
  /\ reader.pc \in {"query", "hydrate"} /\ (reader.pc = "query" => reader.surface \in OneQuery)
  /\ Shown(reader, rows) /\ UNCHANGED <<rowVars, stable, removed>>

LEMMA ListStays ==
  ASSUME UNCHANGED rowVars, SameScroll(reader')
  PROVE  Rows(reader)' = Rows(reader) /\ \A r : Ahead(Rows(reader), r)' = Ahead(Rows(reader), r)
  <1>1. Rows(reader') = Rows(reader)
    BY SameList DEF SameScroll
  <1>2. Rows(reader)' = Rows(reader')
    BY DEF rowVars, Rows, FollowedActivities, Followed, VisibleOriginals, VisibleReposts, Muted, Originals, Reposts, Live, Public, AuthorOf,
           Imported, TopicRows, BookmarkRows, LikedRows, ReplyRows, QuoteRows, SearchRows, NotificationRows, RelationRows
  <1> QED
    BY <1>1, <1>2 DEF Ahead

\* What a page leaves behind.
LEMMA ShownFacts ==
  ASSUME NEW rows, Showing(rows)
  PROVE  /\ reader' \in Reader({}) /\ SameScroll(reader') /\ reader'.rows = {}
         /\ seen' = seen \cup Items(rows) /\ reader'.count = reader.count + Cardinality(Items(rows))
         /\ ~More(rows) => reader'.pc = "end" /\ reader'.offset = reader.offset
         /\ More(rows) => reader'.cursor = Scanned(rows).key
         /\ More(rows) /\ reader.surface = "topic" => reader'.pc = "bucket" /\ reader'.bucket = -Scanned(rows).key[1]
         /\ More(rows) /\ reader.surface # "topic" => reader'.pc = "query" /\ reader'.offset = reader.offset + Limit
  <1>0. ReaderOK /\ Shown(reader, rows) /\ Ordered(rows) /\ Cardinality(rows) \in 0..Limit + 1
    BY DEF Showing, ScrollInv
  <1>1. /\ seen' = seen \cup Items(rows)
        /\ ~More(rows) => reader' = AtEnd(Items(rows))
        /\ More(rows) /\ reader.surface = "topic" => reader' = AtBucket(Items(rows), Scanned(rows))
        /\ More(rows) /\ reader.surface # "topic" => reader' = AtQuery(Items(rows), Scanned(rows))
    BY <1>0, ShownIs
  <1>2. Cardinality(Items(rows)) \in Nat /\ (More(rows) => Scanned(rows).key \in RowKey)
    BY <1>0, PageFacts
  <1>3. CASE ~More(rows)
    <2>1. reader' = AtEnd(Items(rows))
      BY <1>1, <1>3
    <2> QED
      BY <2>1, <1>0, <1>1, <1>2, <1>3, AtEndIs
  <1>4. CASE More(rows) /\ reader.surface = "topic"
    <2>1. reader' = AtBucket(Items(rows), Scanned(rows))
      BY <1>1, <1>4
    <2> QED
      BY <2>1, <1>0, <1>1, <1>2, <1>4, AtBucketIs
  <1>5. CASE More(rows) /\ reader.surface # "topic"
    <2>1. reader' = AtQuery(Items(rows), Scanned(rows))
      BY <1>1, <1>5
    <2> QED
      BY <2>1, <1>0, <1>1, <1>2, <1>5, AtQueryIs
  <1> QED
    BY <1>3, <1>4, <1>5

LEMMA ShownReader ==
  ASSUME NEW rows, Showing(rows)
  PROVE  ReaderOK' /\ RowsOK' /\ stable' \subseteq Rows(reader)'
  <1>1. /\ reader' \in Reader({}) /\ SameScroll(reader') /\ reader'.rows = {}
        /\ reader'.pc \in {"end", "bucket", "query"}
        /\ reader'.pc = "bucket" => reader.surface = "topic"
        /\ reader'.pc = "query" => reader.surface # "topic"
    BY ShownFacts
  <1>2. reader.surface \in Surfaces /\ stable \subseteq Rows(reader) /\ UNCHANGED <<rowVars, stable>>
    BY DEF Showing, ScrollInv, ReaderOK, StableOK
  <1>3. ReaderOK'
    BY <1>1, <1>2 DEF ReaderOK, SameScroll
  <1>4. RowsOK'
    <2>1. Ordered({}) /\ Cardinality({}) = 0
      BY FS_EmptySet DEF Ordered
    <2>2. Ordered(reader'.rows) /\ Cardinality(reader'.rows) \in 0..Limit + 1 /\ Cardinality(reader'.rows) <= Limit
      BY <2>1, <1>1, ListsAssumption
    <2> QED
      BY <2>2, <1>1 DEF RowsOK, Ordered
  <1>5. Rows(reader)' = Rows(reader)
    BY <1>1, <1>2, ListStays
  <1> QED
    BY <1>2, <1>3, <1>4, <1>5

LEMMA ShownSeen ==
  ASSUME NEW rows, Showing(rows), \A x \in rows : Past(reader.cursor, x)
  PROVE  SeenOK'
  <1>0. /\ Ordered(rows) /\ Cardinality(rows) \in 0..Limit + 1 /\ ReaderOK /\ SeenOK /\ reader.pc # "end"
    BY DEF Showing, ScrollInv
  <1>1. /\ SameScroll(reader') /\ seen' = seen \cup Items(rows) /\ reader'.count = reader.count + Cardinality(Items(rows))
        /\ ~More(rows) => reader'.pc = "end"
        /\ More(rows) => reader'.cursor = Scanned(rows).key
    BY ShownFacts
  <1>2. /\ Items(rows) \subseteq rows /\ Ordered(Items(rows)) /\ IsFiniteSet(Items(rows)) /\ Cardinality(Items(rows)) \in Nat
        /\ More(rows) => /\ Scanned(rows) \in rows /\ Scanned(rows).key \in RowKey
                         /\ \A x \in Items(rows) : x = Scanned(rows) \/ Newer(x.key, Scanned(rows).key)
    BY <1>0, PageFacts
  <1> SUFFICES ASSUME reader'.surface # "connections"
               PROVE  /\ IsFiniteSet(seen') /\ reader'.count = Cardinality(seen')
                      /\ reader'.pc # "end" =>
                           \A s \in seen' : s.key \in RowKey /\ reader'.cursor \in RowKey
                                            /\ (s.key = reader'.cursor \/ Newer(s.key, reader'.cursor))
    BY DEF SeenOK
  <1>3. /\ IsFiniteSet(seen) /\ reader.count = Cardinality(seen)
        /\ \A s \in seen : s.key \in RowKey /\ reader.cursor \in RowKey /\ (s.key = reader.cursor \/ Newer(s.key, reader.cursor))
    BY <1>0, <1>1 DEF SeenOK, SameScroll
  <1>4. \A s \in seen, x \in rows : Newer(s.key, x.key)
    <2> SUFFICES ASSUME NEW s \in seen, NEW x \in rows
                 PROVE  Newer(s.key, x.key)
      OBVIOUS
    <2>1. s.key \in RowKey /\ reader.cursor \in RowKey /\ (s.key = reader.cursor \/ Newer(s.key, reader.cursor))
      BY <1>3
    <2>2. reader.cursor # NoCursor
      BY <2>1 DEF RowKey
    <2>3. Newer(reader.cursor, x.key)
      BY <2>2 DEF Past
    <2>4. x.key \in RowKey
      BY <1>0 DEF Ordered
    <2> QED
      BY <2>1, <2>3, <2>4, NewerOrder
  <1>5. seen \cap Items(rows) = {}
    <2>1. \A x \in rows : ~Newer(x.key, x.key)
      BY <1>0, RowOrder
    <2> QED
      BY <2>1, <1>4, <1>2
  <1>6. IsFiniteSet(seen \cup Items(rows)) /\ Cardinality(seen \cup Items(rows)) = Cardinality(seen) + Cardinality(Items(rows))
    <2>1. Cardinality(seen) \in Nat
      BY <1>3, FS_CardinalityType
    <2>2. IsFiniteSet(seen \cup Items(rows))
          /\ Cardinality(seen \cup Items(rows)) = Cardinality(seen) + Cardinality(Items(rows)) - Cardinality(seen \cap Items(rows))
      BY <1>2, <1>3, FS_Union
    <2>3. Cardinality(seen \cap Items(rows)) = 0
      BY <1>5, FS_EmptySet
    <2> QED
      BY <2>1, <2>2, <2>3, <1>2
  <1>7. ASSUME reader'.pc # "end", NEW s \in seen'
        PROVE  s.key \in RowKey /\ reader'.cursor \in RowKey /\ (s.key = reader'.cursor \/ Newer(s.key, reader'.cursor))
    <2>1. /\ reader'.cursor = Scanned(rows).key /\ Scanned(rows) \in rows /\ Scanned(rows).key \in RowKey
          /\ \A x \in Items(rows) : x = Scanned(rows) \/ Newer(x.key, Scanned(rows).key)
      BY <1>1, <1>2, <1>7
    <2>2. CASE s \in seen
      BY <2>1, <2>2, <1>3, <1>4
    <2>3. CASE s \in Items(rows)
      <3>1. s.key \in RowKey
        BY <2>3, <1>2 DEF Ordered
      <3> QED
        BY <3>1, <2>1, <2>3
    <2> QED
      BY <2>2, <2>3, <1>1
  <1> QED
    BY <1>1, <1>3, <1>6, <1>7

\* A row that stays is shown with the page it is on.
LEMMA ShownIfOnPage ==
  ASSUME NEW rows, Showing(rows), NEW r \in stable, r \in Page(rows)
  PROVE  r \in seen'
  <1>0. Ordered(rows) /\ Cardinality(rows) \in 0..Limit + 1 /\ TablesInv /\ ReaderOK /\ Scroller(reader)
    BY ReaderIs DEF Showing, ScrollInv
  <1>1. reader.surface \in OneQuery \/ Public(r.post)
    <2>1. CASE reader.pc = "query"
      BY <2>1 DEF Showing
    <2>2. CASE reader.pc = "hydrate"
      <3>1. reader.surface \in {"following", "profile", "search", "topic"}
        BY <2>2, <1>0 DEF ReaderOK
      <3>2. r \in Rows(reader)
        BY DEF Showing, ScrollInv, StableOK
      <3> QED
        BY <3>1, <3>2, <1>0, RowsArePublic
    <2> QED
      BY <2>1, <2>2 DEF Showing
  <1>2. r \in Items(rows)
    BY <1>0, <1>1, PageFacts
  <1> QED
    BY <1>2, ShownFacts

LEMMA ShownPasses ==
  ASSUME NEW rows, Showing(rows), reader.surface # "connections", NEW r \in stable, r \notin seen', Reached(rows, r)
  PROVE  Awaited(r)'
  <1>0. Ordered(rows) /\ Cardinality(rows) \in 0..Limit + 1 /\ TablesInv /\ ReaderOK /\ Limit \in Nat /\ Scroller(reader)
    BY ListsAssumption, ReaderIs DEF Showing, ScrollInv
  <1>1. More(rows)
    <2> SUFFICES ASSUME ~More(rows)
                 PROVE  FALSE
      OBVIOUS
    <2>1. Cardinality(rows) <= Limit
      BY <1>0 DEF More
    <2>2. r \in rows
      BY <1>0, <2>1 DEF Reached
    <2>3. r \in Page(rows)
      BY <1>0, <2>1, <2>2, PageFacts
    <2> QED
      BY <2>3, ShownIfOnPage
  <1>2. /\ SameScroll(reader') /\ reader'.cursor = Scanned(rows).key /\ seen' = seen \cup Items(rows)
        /\ reader.surface = "topic" => reader'.pc = "bucket" /\ reader'.bucket = -Scanned(rows).key[1]
        /\ reader.surface # "topic" => reader'.pc = "query"
    BY <1>1, ShownFacts
  <1>3. Scanned(rows) \in Page(rows) /\ Scanned(rows).key \in RowKey /\ Page(rows) \subseteq rows
    BY <1>0, <1>1, PageFacts
  <1>4. r \in Rows(reader) /\ r.key \in RowKey
    <2>1. r \in Rows(reader)
      BY DEF Showing, ScrollInv, StableOK
    <2>2. Ordered(Rows(reader))
      BY <1>0, RowsOrdered
    <2> QED
      BY <2>1, <2>2 DEF Ordered
  <1>5. Newer(Scanned(rows).key, r.key)
    <2>1. CASE r \in rows
      <3>1. r \notin Page(rows)
        BY ShownIfOnPage
      <3> QED
        BY <3>1, <2>1, <1>0, <1>3, TopIsNewest DEF Page
    <2>2. CASE r \notin rows
      BY <2>2, <1>3 DEF Reached
    <2> QED
      BY <2>1, <2>2
  <1>6. Past(reader'.cursor, r)
    BY <1>2, <1>5 DEF Past
  <1>7. reader.surface = "topic" => reader'.bucket <= -r.key[1]
    <2>1. reader.surface = "topic" => reader'.bucket = -Scanned(rows).key[1]
      BY <1>2
    <2>2. PICK k \in RowKey, l \in RowKey : k = Scanned(rows).key /\ l = r.key
      BY <1>3, <1>4
    <2>3. -k[1] <= -l[1]
      BY <1>5, <2>2 DEF Newer, RowKey
    <2> QED
      BY <2>1, <2>2, <2>3
  <1> QED
    BY <1>2, <1>6, <1>7 DEF Awaited, Past, SameScroll

\* Counted pages: as many rows are before a row that stays as the offset says, while no row goes away.
LEMMA ShownCounts ==
  ASSUME NEW rows, Showing(rows), reader.surface = "connections", rows = AtOffset(Rows(reader), reader.offset, Limit + 1),
         NEW r \in stable, r \notin seen, r \notin seen'
  PROVE  Awaited(r)'
  <1>0. Ordered(rows) /\ Cardinality(rows) \in 0..Limit + 1 /\ TablesInv /\ ReaderOK /\ Limit \in Nat /\ Scroller(reader)
        /\ reader.offset \in Nat /\ reader.pc = "query" /\ Limit + 1 \in Nat
    BY ListsAssumption, ReaderIs DEF Showing, ScrollInv, ReaderOK
  <1>1. /\ SameScroll(reader')
        /\ ~More(rows) => reader'.pc = "end" /\ reader'.offset = reader.offset
        /\ More(rows) => reader'.pc = "query" /\ reader'.offset = reader.offset + Limit
    BY ShownFacts
  <1>2. removed' = removed /\ Rows(reader)' = Rows(reader) /\ Ahead(Rows(reader), r)' = Ahead(Rows(reader), r)
    BY <1>1, ListStays DEF Showing
  <1>3. CASE removed
    BY <1>1, <1>2, <1>3 DEF Awaited, SameScroll
  <1>4. CASE ~removed
    <2> DEFINE S == Rows(reader)
               before == Ahead(S, r)
               first == Top(S, reader.offset)
    <2>1. Ordered(S) /\ r \in S /\ reader.offset <= Cardinality(before)
      BY <1>0, <1>4, RowsOrdered DEF Showing, ScrollInv, StableOK, Awaited
    <2>2. IsFiniteSet(before) /\ Cardinality(before) \in Nat
      <3>1. r.key \in RowKey
        BY <2>1 DEF Ordered
      <3> QED
        BY <3>1, <2>1, AheadFacts
    <2>3. r \notin first
      BY <2>1, <2>2, <1>0, TopIs
    <2>4. IsFiniteSet(first) /\ Cardinality(first) \in Nat /\ reader.offset <= Cardinality(first)
      BY <2>1, <2>3, <1>0, TopIsFull
    <2>5. Cardinality(first) \in 0..reader.offset /\ first \subseteq S
      BY <2>1, <1>0, TopIsShort
    <2>6. first \subseteq before
      BY <2>1, <2>3, <2>5, <1>0, TopIsNewest DEF Ahead
    <2>7. rows = Top(S, reader.offset + (Limit + 1)) \ first
      BY DEF AtOffset
    <2>8. r \in rows => reader.offset + Limit <= Cardinality(before)
      <3> HIDE DEF S, before, first
      <3> SUFFICES ASSUME r \in rows
                   PROVE  reader.offset + Limit <= Cardinality(before)
        OBVIOUS
      <3>1. r \notin Page(rows)
        BY ShownIfOnPage
      <3>2. r.key \in RowKey
        BY <2>1 DEF Ordered
      <3>3. IsFiniteSet(Ahead(rows, r)) /\ Cardinality(Ahead(rows, r)) \in Nat
        BY <3>2, <1>0, AheadFacts
      <3>4. Limit <= Cardinality(Ahead(rows, r))
        BY <3>1, <3>3, <1>0, TopIs DEF Page
      <3>5. Ahead(rows, r) \cap first = {} /\ Ahead(rows, r) \subseteq before
        BY <2>7 DEF Ahead, before, S, Top
      <3>6. Cardinality(Ahead(rows, r) \cup first) = Cardinality(Ahead(rows, r)) + Cardinality(first)
        <4>1. Cardinality(Ahead(rows, r) \cup first) = Cardinality(Ahead(rows, r)) + Cardinality(first) - Cardinality(Ahead(rows, r) \cap first)
          BY <3>3, <2>4, FS_Union
        <4>2. Cardinality(Ahead(rows, r) \cap first) = 0
          BY <3>5, FS_EmptySet
        <4> QED
          BY <4>1, <4>2, <3>3, <2>4
      <3>7. Ahead(rows, r) \cup first \subseteq before
        BY <3>5, <2>6
      <3>8. Cardinality(Ahead(rows, r) \cup first) <= Cardinality(before)
        BY <3>7, <2>2, FS_Subset
      <3> QED
        BY <3>4, <3>6, <3>8, <3>3, <2>2, <2>4, <1>0
    <2>9. r \notin rows => reader.offset + (Limit + 1) <= Cardinality(before) /\ Limit < Cardinality(rows)
      <3> HIDE DEF S, before, first
      <3> SUFFICES ASSUME r \notin rows
                   PROVE  reader.offset + (Limit + 1) <= Cardinality(before) /\ Limit < Cardinality(rows)
        OBVIOUS
      <3> DEFINE n == reader.offset + (Limit + 1)
      <3>1. r \notin Top(S, n) /\ n \in Nat
        BY <2>3, <2>7, <1>0
      <3>2. IsFiniteSet(Top(S, n)) /\ Cardinality(Top(S, n)) \in Nat /\ n <= Cardinality(Top(S, n))
        BY <3>1, <2>1, TopIsFull
      <3>3. n <= Cardinality(before)
        BY <3>1, <2>1, <2>2, <1>0, TopIs DEF before
      <3>4. Top(S, n) \subseteq rows \cup first
        BY <2>7
      <3>5. IsFiniteSet(rows) /\ Cardinality(rows) \in Nat
        BY <1>0, FS_CardinalityType DEF Ordered
      <3>6. rows \cap first = {}
        BY <2>7
      <3>7. IsFiniteSet(rows \cup first) /\ Cardinality(rows \cup first) = Cardinality(rows) + Cardinality(first)
        <4>1. IsFiniteSet(rows \cup first) /\ Cardinality(rows \cup first) = Cardinality(rows) + Cardinality(first) - Cardinality(rows \cap first)
          BY <3>5, <2>4, FS_Union
        <4>2. Cardinality(rows \cap first) = 0
          BY <3>6, FS_EmptySet
        <4> QED
          BY <4>1, <4>2, <3>5, <2>4
      <3>8. Cardinality(Top(S, n)) <= Cardinality(rows \cup first)
        BY <3>4, <3>7, FS_Subset
      <3> QED
        BY <3>2, <3>3, <3>5, <3>7, <3>8, <2>4, <2>5, <1>0
    <2> HIDE DEF S, before, first
    <2>10. More(rows) => reader'.offset <= Cardinality(before)
      BY <2>2, <2>8, <2>9, <1>0, <1>1
    <2>11. ~More(rows) => reader.offset > MaxOffset - Limit
      <3>1. Cardinality(rows) <= Limit => r \in Page(rows)
        BY <2>9, <1>0, PageFacts
      <3>2. Limit < Cardinality(rows)
        BY <3>1, ShownIfOnPage, <1>0
      <3> QED
        BY <3>2, <1>0, ListsAssumption DEF More
    <2>12. before = Ahead(Rows(reader), r)'
      BY <1>2 DEF before, S
    <2> QED
      BY <2>10, <2>11, <2>12, <1>1, <1>2 DEF Awaited, SameScroll
  <1> QED
    BY <1>3, <1>4

LEMMA ShownStep ==
  ASSUME NEW rows, Showing(rows),
         reader.surface # "connections" => (\A x \in rows : Past(reader.cursor, x)) /\ \A r \in stable \ seen : Reached(rows, r),
         reader.surface = "connections" => rows = AtOffset(Rows(reader), reader.offset, Limit + 1)
  PROVE  ScrollInv'
  <1>1. ReaderOK' /\ RowsOK' /\ stable' \subseteq Rows(reader)'
    BY ShownReader
  <1>2. SameScroll(reader') /\ seen' = seen \cup Items(rows) /\ stable' = stable
    BY ShownFacts DEF Showing
  <1>3. SeenOK'
    <2>1. CASE reader.surface # "connections"
      BY <2>1, ShownSeen
    <2>2. CASE reader.surface = "connections"
      BY <2>2, <1>2 DEF SeenOK, SameScroll
    <2> QED
      BY <2>1, <2>2
  <1>4. ASSUME NEW r \in stable' \ seen'
        PROVE  Awaited(r)'
    <2>1. r \in stable /\ r \notin seen /\ r \notin seen'
      BY <1>2
    <2>2. CASE reader.surface # "connections"
      BY <2>1, <2>2, ShownPasses
    <2>3. CASE reader.surface = "connections"
      BY <2>1, <2>3, ShownCounts
    <2> QED
      BY <2>2, <2>3
  <1> QED
    BY <1>1, <1>3, <1>4 DEF ScrollInv, StableOK

-----------------------------------------------------------------------------
(* The steps of a scroll.                                                  *)

\* No page is shown yet.
Gathering == TablesInv /\ ScrollInv /\ UNCHANGED <<rowVars, seen, stable, removed>>

LEMMA GatheringIs ==
  ASSUME Gathering, reader' \in Reader(reader'.rows), SameScroll(reader'), reader.pc # "idle", reader'.pc # "idle",
         reader'.cursor = reader.cursor, reader'.count = reader.count, reader.pc # "end"
  PROVE  /\ Rows(reader)' = Rows(reader) /\ stable' \subseteq Rows(reader)' /\ SeenOK'
         /\ reader'.pc \in {"bucket", "nextBucket"} /\ reader.surface = "topic" => ReaderOK'
         /\ reader'.pc = "hydrate" /\ reader.surface \in {"following", "profile", "search", "topic"} => ReaderOK'
         /\ reader'.pc = "gone" => ReaderOK'
  <1>1. /\ UNCHANGED <<rowVars, seen, stable>> /\ ReaderOK /\ SeenOK /\ stable \subseteq Rows(reader)
    BY DEF Gathering, ScrollInv, StableOK
  <1>2. Rows(reader)' = Rows(reader)
    BY <1>1, ListStays
  <1>3. reader'.surface = reader.surface /\ reader.surface \in Surfaces
    BY <1>1 DEF SameScroll, ReaderOK
  <1>4. SeenOK'
    BY <1>1, <1>3 DEF SeenOK
  <1> QED
    BY <1>1, <1>2, <1>3, <1>4 DEF ReaderOK

\* A field or two of the reader are set while a page is gathered.
LEMMA GatheredTo ==
  ASSUME ReaderOK, NEW v, NEW p, p \in ScrollPcs, NEW b, b \in Int,
         NEW r, \/ r = [reader EXCEPT !.pc = p] /\ v = reader.rows /\ b = reader.bucket
                \/ r = [reader EXCEPT !.pc = p, !.rows = v] /\ b = reader.bucket
                \/ r = [reader EXCEPT !.rows = v, !.pc = p] /\ b = reader.bucket
                \/ r = [reader EXCEPT !.pc = p, !.bucket = b] /\ v = reader.rows
  PROVE  IsMoved(r, v, reader.count, p, reader.cursor, reader.offset, b)
  <1>1. reader \in [pc : ScrollPcs, surface : Surfaces \cup {"none"}, cursor : RowKey \cup {NoCursor}, offset : Nat, count : Nat,
                    rows : {reader.rows}, anchor : Nat, seed : {-1, 1}, bucket : Int]
    BY DEF ReaderOK, Reader
  <1>2. r = Moved(v, reader.count, p, reader.cursor, reader.offset, b)
    BY <1>1 DEF Moved
  <1>3. reader.cursor \in RowKey \cup {NoCursor} /\ reader.offset \in Nat /\ reader.count \in Nat
    BY ReaderIs
  <1> QED
    BY <1>2, <1>3, ReaderTo

LEMMA OffsetIsShort ==
  ASSUME NEW S, Ordered(S), NEW m, m \in Nat
  PROVE  Ordered(AtOffset(S, m, Limit + 1)) /\ Cardinality(AtOffset(S, m, Limit + 1)) \in 0..Limit + 1
  <1> DEFINE first == Top(S, m)
             all == Top(S, m + (Limit + 1))
  <1>0. Limit \in Nat /\ Limit + 1 \in Nat /\ m + (Limit + 1) \in Nat
    BY ListsAssumption
  <1>1. Ordered(all) /\ all \subseteq S /\ Cardinality(all) \in 0..(m + (Limit + 1))
    BY <1>0, TopIsShort
  <1>2. AtOffset(S, m, Limit + 1) = all \ first
    BY DEF AtOffset
  <1>3. Ordered(all \ first)
    BY <1>1, OrderedSubset
  <1>4. Cardinality(all \ first) <= Limit + 1
    <2>1. CASE first = S
      <3>1. all \ first = {}
        BY <2>1, <1>1
      <3>2. Cardinality(all \ first) = 0
        BY <3>1, FS_EmptySet
      <3> QED
        BY <3>2, <1>0
    <2>2. CASE first # S
      <3>1. first \subseteq S
        BY DEF Top
      <3>2. PICK y \in S : y \notin first
        BY <2>2, <3>1
      <3>3. IsFiniteSet(first) /\ Cardinality(first) \in Nat /\ m <= Cardinality(first)
        BY <3>2, TopIsFull
      <3>4. first \subseteq all
        <4> SUFFICES ASSUME NEW x \in first
                     PROVE  x \in all
          OBVIOUS
        <4>1. x \in S /\ Cardinality(Ahead(S, x)) < m
          BY TopIs
        <4>2. x.key \in RowKey
          BY <4>1 DEF Ordered
        <4>3. Cardinality(Ahead(S, x)) \in Nat
          BY <4>2, AheadFacts
        <4>4. Cardinality(Ahead(S, x)) < m + (Limit + 1)
          BY <4>1, <4>3, <1>0
        <4> QED
          BY <4>1, <4>4, TopIs
      <3> HIDE DEF first, all
      <3>5. IsFiniteSet(all \ first) /\ Cardinality(all \ first) \in Nat
        BY <1>3, FS_CardinalityType DEF Ordered
      <3>6. (all \ first) \cup first = all /\ (all \ first) \cap first = {}
        BY <3>4
      <3>7. Cardinality((all \ first) \cup first)
              = Cardinality(all \ first) + Cardinality(first) - Cardinality((all \ first) \cap first)
        BY <3>3, <3>5, FS_Union
      <3>8. Cardinality((all \ first) \cap first) = 0
        BY <3>6, FS_EmptySet
      <3>9. Cardinality(all) = Cardinality((all \ first) \cup first)
        BY <3>6
      <3>10. Cardinality(all) = Cardinality(all \ first) + Cardinality(first)
        BY <3>3, <3>5, <3>7, <3>8, <3>9
      <3>11. PICK i \in Nat, j \in Nat, k \in Nat : i = Cardinality(all) /\ j = Cardinality(first) /\ k = Cardinality(all \ first)
        BY <3>3, <3>5, <1>1, <1>0
      <3>12. i = k + j /\ m <= j /\ i <= m + (Limit + 1)
        BY <3>3, <3>10, <3>11, <1>1, <1>0
      <3>13. k <= Limit + 1
        BY <3>12, <1>0
      <3> QED
        BY <3>11, <3>13
    <2> QED
      BY <2>1, <2>2
  <1>5. Cardinality(all \ first) \in Nat
    BY <1>3, FS_CardinalityType DEF Ordered
  <1> QED
    BY <1>0, <1>2, <1>3, <1>4, <1>5

LEMMA QueryStep ==
  ASSUME TablesInv, ScrollInv, Query
  PROVE  ScrollInv'
  <1>0. /\ reader.pc = "query" /\ reader.rows = {} /\ reader.surface \in Surfaces /\ reader.surface # "topic"
        /\ ReaderOK /\ UNCHANGED <<rowVars, stable, removed>> /\ (Gathering \/ seen' # seen)
    BY DEF Query, ScrollInv, ReaderOK, Gathering
  <1>1. CASE reader' = [reader EXCEPT !.pc = "gone"] /\ UNCHANGED seen
    <2>1. Gathering
      BY <1>0, <1>1
    <2>2. "gone" \in ScrollPcs /\ reader.bucket \in Int
      BY <1>0, ReaderIs DEF ScrollPcs
    <2>3. IsMoved(reader', reader.rows, reader.count, "gone", reader.cursor, reader.offset, reader.bucket)
      BY <1>0, <1>1, <2>2, GatheredTo
    <2>4. ReaderOK' /\ SeenOK' /\ stable' \subseteq Rows(reader)'
      BY <1>0, <2>1, <2>3, GatheringIs DEF IsMoved
    <2>5. RowsOK'
      BY <1>0, <2>3 DEF ScrollInv, RowsOK, IsMoved, Ordered
    <2>6. \A r \in stable' \ seen' : Awaited(r)'
      BY <2>3 DEF Awaited, IsMoved
    <2> QED
      BY <2>4, <2>5, <2>6 DEF ScrollInv, StableOK
  <1>2. CASE reader.surface \in OneQuery /\ Shown(reader, Candidates(reader))
    <2>1. reader.surface # "connections" =>
             /\ Ordered(Candidates(reader)) /\ Cardinality(Candidates(reader)) \in 0..Limit + 1
             /\ \A x \in Candidates(reader) : Past(reader.cursor, x)
             /\ \A r \in stable \ seen : Reached(Candidates(reader), r)
      <3> SUFFICES ASSUME reader.surface # "connections"
                   PROVE  /\ Ordered(Candidates(reader)) /\ Cardinality(Candidates(reader)) \in 0..Limit + 1
                          /\ \A x \in Candidates(reader) : Past(reader.cursor, x)
                          /\ \A r \in stable \ seen : Reached(Candidates(reader), r)
        OBVIOUS
      <3>1. \A r \in stable \ seen : r \in Rows(reader) /\ Past(reader.cursor, r)
        BY <1>0 DEF ScrollInv, StableOK, Awaited
      <3> QED
        BY <3>1, <1>0, CandidatesFollow
    <2>2. reader.surface = "connections" =>
             /\ Candidates(reader) = AtOffset(Rows(reader), reader.offset, Limit + 1)
             /\ Ordered(Candidates(reader)) /\ Cardinality(Candidates(reader)) \in 0..Limit + 1
      <3> SUFFICES ASSUME reader.surface = "connections"
                   PROVE  /\ Candidates(reader) = AtOffset(Rows(reader), reader.offset, Limit + 1)
                          /\ Ordered(Candidates(reader)) /\ Cardinality(Candidates(reader)) \in 0..Limit + 1
        OBVIOUS
      <3>1. Candidates(reader) = AtOffset(Rows(reader), reader.offset, Limit + 1)
        BY DEF Candidates
      <3>2. reader.offset \in Nat /\ Ordered(Rows(reader))
        BY <1>0, ReaderIs, RowsOrdered
      <3> QED
        BY <3>1, <3>2, OffsetIsShort
    <2>3. Showing(Candidates(reader))
      BY <1>0, <1>2, <2>1, <2>2 DEF Showing
    <2> QED
      BY <2>1, <2>2, <2>3, ShownStep
  <1>3. CASE reader.surface \notin OneQuery /\ reader' = [reader EXCEPT !.pc = "hydrate", !.rows = Candidates(reader)] /\ UNCHANGED seen
    <2>0. Gathering /\ reader.surface \in {"following", "profile", "search"} /\ reader.surface # "connections"
      BY <1>0, <1>3, ListsAssumption DEF OneQuery
    <2>1. "hydrate" \in ScrollPcs /\ reader.bucket \in Int
      BY <1>0, ReaderIs DEF ScrollPcs
    <2>2. IsMoved(reader', Candidates(reader), reader.count, "hydrate", reader.cursor, reader.offset, reader.bucket)
      BY <1>0, <1>3, <2>1, GatheredTo
    <2>3. ReaderOK' /\ SeenOK' /\ stable' \subseteq Rows(reader)'
      BY <1>0, <2>0, <2>2, GatheringIs DEF IsMoved
    <2>4. /\ Ordered(Candidates(reader)) /\ Cardinality(Candidates(reader)) \in 0..Limit + 1
          /\ \A x \in Candidates(reader) : Past(reader.cursor, x)
          /\ \A r \in Rows(reader) : Past(reader.cursor, r) => Reached(Candidates(reader), r)
      BY <1>0, <2>0, CandidatesFollow
    <2>5. RowsOK'
      BY <2>2, <2>4 DEF RowsOK, IsMoved, Ordered, Past
    <2>6. \A r \in stable' \ seen' : Awaited(r)'
      <3> SUFFICES ASSUME NEW r \in stable' \ seen'
                   PROVE  Awaited(r)'
        OBVIOUS
      <3>1. r \in stable \ seen /\ r \in Rows(reader) /\ Past(reader.cursor, r)
        BY <1>0, <1>3, <2>0 DEF ScrollInv, StableOK, Awaited
      <3>2. Reached(reader'.rows, r)
        BY <3>1, <2>2, <2>4 DEF IsMoved
      <3> QED
        BY <3>2, <2>2 DEF Awaited, IsMoved, Reached
    <2> QED
      BY <2>3, <2>5, <2>6 DEF ScrollInv, StableOK
  <1> QED
    BY <1>1, <1>2, <1>3 DEF Query

LEMMA HydrateStep ==
  ASSUME TablesInv, ScrollInv, Hydrate
  PROVE  ScrollInv'
  <1>1. /\ reader.pc = "hydrate" /\ Shown(reader, reader.rows) /\ UNCHANGED <<rowVars, stable, removed>>
        /\ reader.surface \in {"following", "profile", "search", "topic"} /\ reader.surface # "connections"
        /\ Ordered(reader.rows) /\ Cardinality(reader.rows) \in 0..Limit + 1
        /\ \A x \in reader.rows : Past(reader.cursor, x)
    BY DEF Hydrate, ScrollInv, ReaderOK, RowsOK
  <1>2. \A r \in stable \ seen : Reached(reader.rows, r)
    BY <1>1 DEF ScrollInv, StableOK, Awaited
  <1>3. Showing(reader.rows)
    BY <1>1 DEF Showing
  <1> QED
    BY <1>1, <1>2, <1>3, ShownStep

\* The rows of a bucket, and what the query for it finds.
InBucket == {x \in AfterCursor(reader) : -x.key[1] = reader.bucket}
Found == reader.rows \cup Top(InBucket, Limit + 1 - Cardinality(reader.rows))

LEMMA FoundIs ==
  ASSUME TablesInv, ScrollInv, reader.pc = "bucket"
  PROVE  /\ Ordered(Found) /\ Cardinality(Found) \in 0..Limit + 1 /\ reader.rows \subseteq Found
         /\ \A x \in Found : Past(reader.cursor, x) /\ -x.key[1] <= reader.bucket
         /\ \A r \in InBucket : r \in Found \/ (Cardinality(Found) = Limit + 1 /\ \A x \in Found : Newer(x.key, r.key))
  <1> DEFINE n == Limit + 1 - Cardinality(reader.rows)
             new == Top(InBucket, n)
  <1>0. /\ Limit \in Nat /\ ReaderOK /\ Scroller(reader) /\ reader.bucket \in Int
        /\ Ordered(reader.rows) /\ Cardinality(reader.rows) \in 0..Limit
        /\ \A x \in reader.rows : Past(reader.cursor, x) /\ -x.key[1] < reader.bucket
    BY ListsAssumption, ReaderIs DEF ScrollInv, RowsOK
  <1>1. /\ Ordered(InBucket) /\ \A x \in InBucket : Past(reader.cursor, x) /\ -x.key[1] = reader.bucket
    <2>1. Ordered(AfterCursor(reader)) /\ \A x \in AfterCursor(reader) : Past(reader.cursor, x)
      BY <1>0, AfterCursorIs
    <2>2. InBucket \subseteq AfterCursor(reader)
      BY DEF InBucket
    <2> QED
      BY <2>1, <2>2, OrderedSubset DEF InBucket
  <1>2. n \in Nat
    BY <1>0
  <1>3. Ordered(new) /\ new \subseteq InBucket /\ Cardinality(new) \in 0..n
    BY <1>1, <1>2, TopIsShort
  <1>4. Found = reader.rows \cup new
    BY DEF Found
  <1> HIDE DEF new
  <1>5. \A x \in reader.rows, y \in InBucket : x.key \in RowKey /\ y.key \in RowKey /\ x.key # y.key /\ Newer(x.key, y.key)
    <2> SUFFICES ASSUME NEW x \in reader.rows, NEW y \in InBucket
                 PROVE  x.key \in RowKey /\ y.key \in RowKey /\ x.key # y.key /\ Newer(x.key, y.key)
      OBVIOUS
    <2>1. x.key \in RowKey /\ y.key \in RowKey
      BY <1>0, <1>1 DEF Ordered
    <2>2. -x.key[1] < reader.bucket /\ -y.key[1] = reader.bucket
      BY <1>0, <1>1
    <2>3. PICK k \in RowKey, l \in RowKey : k = x.key /\ l = y.key
      BY <2>1
    <2>4. k[1] > l[1]
      BY <2>2, <2>3, <1>0 DEF RowKey
    <2>5. Newer(k, l) /\ k # l
      BY <2>4 DEF Newer, RowKey
    <2> QED
      BY <2>1, <2>3, <2>5
  <1>6. Ordered(Found)
    <2>1. \A r \in reader.rows, q \in new : r.key # q.key
      BY <1>3, <1>5
    <2> QED
      BY <2>1, <1>0, <1>3, <1>4, OrderedUnion
  <1>7. Cardinality(Found) = Cardinality(reader.rows) + Cardinality(new)
    <2>1. reader.rows \cap new = {}
      BY <1>3, <1>5
    <2>2. IsFiniteSet(reader.rows) /\ IsFiniteSet(new)
      BY <1>0, <1>3 DEF Ordered
    <2>3. Cardinality(reader.rows \cup new) = Cardinality(reader.rows) + Cardinality(new) - Cardinality(reader.rows \cap new)
      BY <2>2, FS_Union
    <2>4. Cardinality(reader.rows \cap new) = 0
      BY <2>1, FS_EmptySet
    <2>5. Cardinality(reader.rows) \in Nat /\ Cardinality(new) \in Nat
      BY <2>2, FS_CardinalityType
    <2>6. Cardinality(Found) = Cardinality(reader.rows \cup new)
      BY <1>4
    <2> QED
      BY <2>3, <2>4, <2>5, <2>6
  <1>8. ASSUME NEW r \in InBucket, r \notin Found
        PROVE  Cardinality(Found) = Limit + 1 /\ \A x \in Found : Newer(x.key, r.key)
    <2>1. r \notin new
      BY <1>4, <1>8
    <2>2. n <= Cardinality(new) /\ \A q \in new : Newer(q.key, r.key)
      BY <2>1, <1>1, <1>2, TopIsFull, TopIsNewest DEF new
    <2> QED
      BY <2>2, <1>0, <1>3, <1>4, <1>5, <1>7
  <1>9. Cardinality(Found) \in 0..Limit + 1
    BY <1>0, <1>3, <1>7
  <1>10. \A x \in Found : Past(reader.cursor, x) /\ -x.key[1] <= reader.bucket
    <2>1. \A x \in reader.rows : x.key \in RowKey
      BY <1>5, <1>0 DEF Ordered
    <2>2. \A x \in reader.rows : -x.key[1] <= reader.bucket
      BY <2>1, <1>0 DEF RowKey
    <2> QED
      BY <2>2, <1>0, <1>1, <1>3, <1>4
  <1> QED
    BY <1>4, <1>6, <1>8, <1>9, <1>10

LEMMA QueryBucketStep ==
  ASSUME TablesInv, ScrollInv, QueryBucket
  PROVE  ScrollInv'
  <1>0. /\ reader.pc = "bucket" /\ reader.surface = "topic" /\ ReaderOK /\ Gathering /\ Limit \in Nat /\ reader.bucket \in Int
        /\ UNCHANGED <<seen, stable>> /\ Scroller(reader)
    BY ReaderIs, ListsAssumption DEF QueryBucket, ScrollInv, ReaderOK, Gathering
  <1>1. PICK p : p = IF Cardinality(Found) = Limit + 1 THEN "hydrate" ELSE "nextBucket"
    OBVIOUS
  <1>2. reader' = [reader EXCEPT !.rows = Found, !.pc = p]
    BY <1>1 DEF QueryBucket, Found, InBucket
  <1>3. p \in ScrollPcs
    BY <1>1 DEF ScrollPcs
  <1>4. IsMoved(reader', Found, reader.count, p, reader.cursor, reader.offset, reader.bucket)
    BY <1>0, <1>2, <1>3, GatheredTo
  <1>5. /\ Ordered(Found) /\ Cardinality(Found) \in 0..Limit + 1 /\ reader.rows \subseteq Found
        /\ \A x \in Found : Past(reader.cursor, x) /\ -x.key[1] <= reader.bucket
        /\ \A r \in InBucket : r \in Found \/ (Cardinality(Found) = Limit + 1 /\ \A x \in Found : Newer(x.key, r.key))
    BY <1>0, FoundIs
  <1>6. ReaderOK' /\ SeenOK' /\ stable' \subseteq Rows(reader)'
    BY <1>0, <1>1, <1>4, GatheringIs DEF IsMoved
  <1>7. RowsOK'
    <2>1. reader'.pc = "nextBucket" => Cardinality(Found) <= Limit
      BY <1>0, <1>1, <1>4, <1>5 DEF IsMoved
    <2>2. reader'.pc # "bucket"
      BY <1>1, <1>4 DEF IsMoved
    <2> QED
      BY <2>1, <2>2, <1>4, <1>5 DEF RowsOK, IsMoved, Ordered, Past
  <1>8. ASSUME NEW r \in stable' \ seen'
        PROVE  Awaited(r)'
    <2>1. r \in reader.rows \/ (Past(reader.cursor, r) /\ reader.bucket <= -r.key[1])
      BY <1>0 DEF ScrollInv, StableOK, Awaited
    <2>2. r \in Rows(reader) /\ r.key \in RowKey
      <3>1. r \in Rows(reader) /\ Ordered(Rows(reader))
        BY <1>0, RowsOrdered DEF ScrollInv, StableOK
      <3> QED
        BY <3>1 DEF Ordered
    <2>3. p = "nextBucket" => r \in Found \/ (Past(reader.cursor, r) /\ reader.bucket < -r.key[1])
      <3> SUFFICES ASSUME p = "nextBucket", r \notin Found
                   PROVE  Past(reader.cursor, r) /\ reader.bucket < -r.key[1]
        OBVIOUS
      <3>1. Past(reader.cursor, r) /\ reader.bucket <= -r.key[1]
        BY <2>1, <1>5
      <3>2. r \notin InBucket
        BY <1>1, <1>5
      <3>3. -r.key[1] # reader.bucket
        BY <3>1, <3>2, <2>2, <1>0, AfterCursorIs DEF InBucket
      <3>4. -r.key[1] \in Int
        BY <2>2 DEF RowKey
      <3> QED
        BY <3>1, <3>3, <3>4, <1>0
    <2>4. p = "hydrate" => Reached(Found, r)
      <3> SUFFICES ASSUME p = "hydrate", r \notin Found
                   PROVE  Limit < Cardinality(Found) /\ \A x \in Found : Newer(x.key, r.key)
        BY DEF Reached
      <3>1. Cardinality(Found) = Limit + 1
        BY <1>1
      <3>2. CASE r \in InBucket
        BY <3>1, <3>2, <1>0, <1>5
      <3>3. CASE r \notin InBucket
        <4>1. Past(reader.cursor, r) /\ reader.bucket <= -r.key[1]
          BY <2>1, <1>5
        <4>2. -r.key[1] # reader.bucket
          BY <3>3, <4>1, <2>2, <1>0, AfterCursorIs DEF InBucket
        <4>3. \A x \in Found : Newer(x.key, r.key)
          <5> SUFFICES ASSUME NEW x \in Found
                       PROVE  Newer(x.key, r.key)
            OBVIOUS
          <5>1. PICK k \in RowKey, l \in RowKey : k = x.key /\ l = r.key
            BY <2>2, <1>5 DEF Ordered
          <5>2. -k[1] <= reader.bucket /\ reader.bucket <= -l[1] /\ -l[1] # reader.bucket
            BY <5>1, <4>1, <4>2, <1>5
          <5>3. k[1] > l[1]
            BY <5>2, <1>0 DEF RowKey
          <5> QED
            BY <5>1, <5>3 DEF Newer
        <4> QED
          BY <3>1, <4>3, <1>0
      <3> QED
        BY <3>2, <3>3
    <2> QED
      BY <2>3, <2>4, <1>1, <1>4 DEF Awaited, IsMoved, Reached, Past
  <1> QED
    BY <1>6, <1>7, <1>8 DEF ScrollInv, StableOK

\* The Posts in the buckets after this one.
Later == {p \in Imported(reader) : p.at <= reader.anchor - (reader.bucket + 1) * Width}

LEMMA LaterIs ==
  ASSUME TablesInv, ScrollInv, reader.pc # "idle"
  PROVE  /\ Later \subseteq Imported(reader) /\ IsFiniteSet(Imported(reader))
         /\ \A p \in Imported(reader) : p.at \in Nat /\ Bucket(reader, p) \in Int /\ (p \in Later <=> reader.bucket < Bucket(reader, p))
         /\ \A p, q \in Imported(reader) : p.at <= q.at => Bucket(reader, q) <= Bucket(reader, p)
  <1>0. Scroller(reader) /\ reader.bucket \in Int /\ Width \in Nat /\ reader.anchor \in Nat
    BY ReaderIs, ListsAssumption DEF ScrollInv, Scroller
  <1>1. IsFiniteSet(Imported(reader)) /\ \A p \in Imported(reader) : p.at \in Nat
    BY LiveFacts, FS_Subset DEF Imported
  <1>2. ASSUME NEW p \in Imported(reader)
        PROVE  Bucket(reader, p) \in Int /\ (p \in Later <=> reader.bucket < Bucket(reader, p))
    <2>1. PICK n \in Int : n = reader.anchor - p.at
      BY <1>0, <1>1
    <2>2. n \div Width \in Int /\ ((reader.bucket + 1) * Width <= n <=> reader.bucket < n \div Width)
      BY <1>0, Buckets
    <2>3. Bucket(reader, p) = n \div Width
      BY <2>1 DEF Bucket
    <2>4. PICK w \in Int : w = (reader.bucket + 1) * Width
      BY <1>0
    <2>5. p \in Later <=> p.at <= reader.anchor - w
      BY <2>4 DEF Later
    <2>6. p.at <= reader.anchor - w <=> w <= n
      BY <1>0, <1>1, <2>1
    <2> QED
      BY <2>2, <2>3, <2>4, <2>5, <2>6
  <1>3. ASSUME NEW p \in Imported(reader), NEW q \in Imported(reader), p.at <= q.at
        PROVE  Bucket(reader, q) <= Bucket(reader, p)
    <2>1. PICK n \in Int, m \in Int : n = reader.anchor - p.at /\ m = reader.anchor - q.at
      BY <1>0, <1>1
    <2>2. m <= n
      BY <1>0, <1>1, <1>3, <2>1
    <2>3. m \div Width <= n \div Width
      BY <2>2, BucketsInOrder
    <2> QED
      BY <2>1, <2>3 DEF Bucket
  <1> QED
    BY <1>1, <1>2, <1>3 DEF Later

\* There is a newest one, and the next bucket is its.
LEMMA NewestPost ==
  ASSUME NEW S, IsFiniteSet(S), S # {}, \A p \in S : p.at \in Nat
  PROVE  \E p \in S : \A q \in S : q.at <= p.at
  <1> DEFINE newer(p) == {q \in S : q.at > p.at}
             T == {newer(p) : p \in S}
  <1>1. T \subseteq FiniteSubsetsOf(S) /\ T # {}
    <2> SUFFICES ASSUME NEW p \in S
                 PROVE  newer(p) \subseteq S /\ IsFiniteSet(newer(p))
      BY DEF FiniteSubsetsOf
    <2> QED
      BY FS_Subset
  <1>2. \E x : IsLeast(x, T)
    <2> HIDE DEF T
    <2> QED
      BY <1>1, LeastSet
  <1>3. PICK p \in S : \A q \in S : newer(q) \subseteq newer(p) => newer(q) = newer(p)
    <2>1. PICK x : IsLeast(x, T)
      BY <1>2
    <2>2. x \in T /\ \A y \in T : y \subseteq x => y = x
      BY <2>1 DEF IsLeast
    <2>3. PICK p \in S : x = newer(p)
      BY <2>2
    <2>4. \A q \in S : newer(q) \in T
      OBVIOUS
    <2> HIDE DEF T, newer
    <2> QED
      BY <2>2, <2>3, <2>4
  <1>4. ASSUME NEW q \in S
        PROVE  q.at <= p.at
    <2> SUFFICES ASSUME q.at > p.at
                 PROVE  FALSE
      OBVIOUS
    <2>1. newer(q) \subseteq newer(p)
      OBVIOUS
    <2>2. q \in newer(p) /\ q \notin newer(q)
      OBVIOUS
    <2> QED
      BY <2>1, <2>2, <1>3
  <1> QED
    BY <1>4

LEMMA NextBucketStep ==
  ASSUME TablesInv, ScrollInv, NextBucket
  PROVE  ScrollInv'
  <1>0. /\ reader.pc = "nextBucket" /\ reader.surface = "topic" /\ ReaderOK /\ Gathering /\ Limit \in Nat /\ reader.bucket \in Int
        /\ UNCHANGED <<seen, stable>> /\ Scroller(reader)
    BY ReaderIs, ListsAssumption DEF NextBucket, ScrollInv, ReaderOK, Gathering
  <1>1. /\ Ordered(reader.rows) /\ Cardinality(reader.rows) \in 0..Limit
        /\ \A x \in reader.rows : Past(reader.cursor, x) /\ -x.key[1] <= reader.bucket
    BY <1>0 DEF ScrollInv, RowsOK
  <1>2. /\ Later \subseteq Imported(reader) /\ IsFiniteSet(Imported(reader))
        /\ \A p \in Imported(reader) : p.at \in Nat /\ Bucket(reader, p) \in Int /\ (p \in Later <=> reader.bucket < Bucket(reader, p))
        /\ \A p, q \in Imported(reader) : p.at <= q.at => Bucket(reader, q) <= Bucket(reader, p)
    BY <1>0, LaterIs
  \* A row that stays and is not there yet is that of a later Post.
  <1>3. ASSUME NEW r \in stable \ seen, r \notin reader.rows
        PROVE  Past(reader.cursor, r) /\ \E p \in Later : -r.key[1] = Bucket(reader, p)
    <2>1. Past(reader.cursor, r) /\ reader.bucket < -r.key[1]
      BY <1>0, <1>3 DEF ScrollInv, StableOK, Awaited
    <2>2. r \in TopicRows(reader)
      BY <1>0 DEF ScrollInv, StableOK, Rows
    <2>3. PICK p \in Imported(reader) : r.key[1] = -Bucket(reader, p) /\ Bucket(reader, p) \in Int
      BY <2>2, <1>0, TopicOrdered
    <2>4. -r.key[1] = Bucket(reader, p)
      BY <2>3
    <2> QED
      BY <2>1, <2>3, <2>4, <1>2
  <1>4. CASE Later = {} /\ reader' = [reader EXCEPT !.pc = "hydrate"]
    <2>1. "hydrate" \in ScrollPcs
      BY DEF ScrollPcs
    <2>2. IsMoved(reader', reader.rows, reader.count, "hydrate", reader.cursor, reader.offset, reader.bucket)
      BY <1>0, <1>4, <2>1, GatheredTo
    <2>3. ReaderOK' /\ SeenOK' /\ stable' \subseteq Rows(reader)'
      BY <1>0, <2>2, GatheringIs DEF IsMoved
    <2>4. RowsOK'
      BY <1>1, <1>0, <2>2 DEF RowsOK, IsMoved, Ordered, Past
    <2>5. \A r \in stable' \ seen' : Awaited(r)'
      <3> SUFFICES ASSUME NEW r \in stable' \ seen'
                   PROVE  Awaited(r)'
        OBVIOUS
      <3>1. r \in reader.rows
        BY <1>0, <1>3, <1>4
      <3> QED
        BY <3>1, <2>2 DEF Awaited, IsMoved, Reached
    <2> QED
      BY <2>3, <2>4, <2>5 DEF ScrollInv, StableOK
  <1>5. ASSUME Later # {}, NEW b, b = Bucket(reader, CHOOSE p \in Later : \A q \in Later : q.at <= p.at),
               reader' = [reader EXCEPT !.pc = "bucket", !.bucket = b]
        PROVE  ScrollInv'
    <2>1. IsFiniteSet(Later) /\ \A p \in Later : p.at \in Nat
      BY <1>2, FS_Subset
    <2>2. \E p \in Later : \A q \in Later : q.at <= p.at
      BY <1>5, <2>1, NewestPost
    <2>3. PICK p \in Later : (\A q \in Later : q.at <= p.at) /\ b = Bucket(reader, p)
      BY <2>2, <1>5
    <2>4. b \in Int /\ reader.bucket < b /\ \A q \in Later : b <= Bucket(reader, q)
      BY <2>3, <1>2
    <2>5. "bucket" \in ScrollPcs
      BY DEF ScrollPcs
    <2>6. IsMoved(reader', reader.rows, reader.count, "bucket", reader.cursor, reader.offset, b)
      BY <1>0, <1>5, <2>4, <2>5, GatheredTo
    <2>7. ReaderOK' /\ SeenOK' /\ stable' \subseteq Rows(reader)'
      BY <1>0, <2>6, GatheringIs DEF IsMoved
    <2>8. RowsOK'
      <3>1. \A x \in reader.rows : -x.key[1] < b
        <4>1. \A x \in reader.rows : -x.key[1] \in Int
          BY <1>1 DEF Ordered, RowKey
        <4> QED
          BY <4>1, <2>4, <1>0, <1>1
      <3> QED
        BY <3>1, <1>1, <1>0, <2>6 DEF RowsOK, IsMoved, Ordered, Past
    <2>9. \A r \in stable' \ seen' : Awaited(r)'
      <3> SUFFICES ASSUME NEW r \in stable' \ seen'
                   PROVE  Awaited(r)'
        OBVIOUS
      <3>1. r \in reader.rows \/ (Past(reader.cursor, r) /\ b <= -r.key[1])
        BY <1>0, <1>3, <2>4
      <3> QED
        BY <3>1, <2>6 DEF Awaited, IsMoved, Past
    <2> QED
      BY <2>7, <2>8, <2>9 DEF ScrollInv, StableOK
  <1>6. \/ Later = {} /\ reader' = [reader EXCEPT !.pc = "hydrate"]
        \/ Later # {} /\ reader' = [reader EXCEPT !.pc = "bucket", !.bucket = Bucket(reader, CHOOSE p \in Later : \A q \in Later : q.at <= p.at)]
    BY DEF NextBucket, Later
  <1> QED
    BY <1>4, <1>5, <1>6

LEMMA ScrollStepKeeps ==
  ASSUME TablesInv, ScrollInv, ScrollStep
  PROVE  ScrollInv' /\ UNCHANGED <<rowVars, changes>>
  <1>1. UNCHANGED <<rowVars, changes>>
    BY DEF ScrollStep, Query, QueryBucket, NextBucket, Hydrate
  <1> QED
    BY <1>1, QueryStep, QueryBucketStep, NextBucketStep, HydrateStep DEF ScrollStep

LEMMA OpenStep ==
  ASSUME TablesInv, ScrollInv, OpenList
  PROVE  ScrollInv' /\ UNCHANGED <<rowVars, changes>>
  <1>1. PICK s \in Surfaces, d \in Seeds : Open(s, d)
    BY DEF OpenList
  <1>2. PICK p : p = IF s = "topic" THEN "bucket" ELSE "query"
    OBVIOUS
  <1>3. /\ reader = NoReader /\ seen' = {} /\ UNCHANGED <<rowVars, changes>> /\ stable' = Rows(reader')
        /\ reader' = [NoReader EXCEPT !.pc = p, !.surface = s, !.anchor = Now, !.seed = d]
    BY <1>1, <1>2 DEF Open, ScrollInv, ReaderOK
  <1>4. Now \in Nat /\ d \in {-1, 1} /\ serial \in Nat
    BY TablesInvIs, AtIs, ListsAssumption DEF Now
  <1>5. /\ reader'.pc = p /\ reader'.surface = s /\ reader'.cursor = NoCursor /\ reader'.offset = 0 /\ reader'.count = 0
        /\ reader'.rows = {} /\ reader'.anchor = Now /\ reader'.seed = d /\ reader'.bucket = 0
    BY <1>3 DEF NoReader
  <1>6. reader' \in Reader({})
    <2>1. reader' = [pc |-> p, surface |-> s, cursor |-> NoCursor, offset |-> 0, count |-> 0, rows |-> {}, anchor |-> Now, seed |-> d, bucket |-> 0]
      BY <1>3 DEF NoReader
    <2>2. p \in ScrollPcs /\ s \in Surfaces \cup {"none"} /\ NoCursor \in RowKey \cup {NoCursor}
      BY <1>2 DEF ScrollPcs
    <2> QED
      BY <2>1, <2>2, <1>4 DEF Reader
  <1>7. ReaderOK'
    BY <1>2, <1>5, <1>6 DEF ReaderOK
  <1>8. Ordered({}) /\ Cardinality({}) = 0
    BY FS_EmptySet DEF Ordered
  <1>9. SeenOK'
    BY <1>3, <1>5, <1>8 DEF SeenOK, Ordered
  <1>10. RowsOK'
    <2>1. Ordered(reader'.rows) /\ Cardinality(reader'.rows) \in 0..Limit + 1 /\ Cardinality(reader'.rows) <= Limit
      BY <1>5, <1>8, ListsAssumption
    <2> QED
      BY <2>1, <1>5 DEF RowsOK, Ordered
  <1>11. Rows(reader)' = Rows(reader')
    BY <1>3 DEF rowVars, Rows, FollowedActivities, Followed, VisibleOriginals, VisibleReposts, Muted, Originals, Reposts, Live, Public, AuthorOf,
           Imported, TopicRows, BookmarkRows, LikedRows, ReplyRows, QuoteRows, SearchRows, NotificationRows, RelationRows
  <1>12. Scroller(reader') /\ Ordered(Rows(reader'))
    <2>1. Scroller(reader')
      BY <1>4, <1>5 DEF Scroller
    <2> QED
      BY <2>1, RowsOrdered
  <1>13. ASSUME NEW r \in stable'
         PROVE  Awaited(r)'
    <2>1. r \in Rows(reader') /\ r.key \in RowKey
      BY <1>3, <1>12 DEF Ordered
    <2>2. reader'.surface = "connections" => reader'.offset <= Cardinality(Ahead(Rows(reader), r))'
      <3>1. Cardinality(Ahead(Rows(reader'), r)) \in Nat
        BY <2>1, <1>12, AheadFacts
      <3>2. Ahead(Rows(reader), r)' = Ahead(Rows(reader'), r)
        BY <1>11 DEF Ahead
      <3> QED
        BY <3>1, <3>2, <1>5
    <2>3. s = "topic" => reader'.bucket <= -r.key[1]
      <3> SUFFICES ASSUME s = "topic"
                   PROVE  0 <= -r.key[1]
        BY <1>5
      <3>1. r \in TopicRows(reader')
        BY <2>1, <1>5 DEF Rows
      <3>2. PICK q \in Imported(reader') : r.key[1] = -Bucket(reader', q) /\ Bucket(reader', q) \in Int
        BY <3>1, <1>12, TopicOrdered
      <3>3. q \in Live /\ q.at <= reader'.anchor
        BY DEF Imported
      <3>4. PICK n \in Nat : n = reader'.anchor - q.at
        BY <3>3, <1>4, <1>5, LiveFacts
      <3>5. n \div Width >= 0
        <4>1. Width \in Nat \ {0}
          BY ListsAssumption
        <4> QED
          BY <4>1
      <3> QED
        BY <3>2, <3>4, <3>5 DEF Bucket
    <2> QED
      BY <2>2, <2>3, <1>2, <1>5 DEF Awaited, Past
  <1> QED
    BY <1>3, <1>7, <1>9, <1>10, <1>11, <1>13 DEF ScrollInv, StableOK

-----------------------------------------------------------------------------
(* Changes while a list is scrolled.                                       *)

LEMMA ReaderFrame ==
  ASSUME ScrollInv, UNCHANGED <<reader, seen>>, reader.pc # "idle" \/ stable' = {}
  PROVE  ReaderOK' /\ SeenOK' /\ RowsOK'
  <1>1. ReaderOK'
    BY DEF ScrollInv, ReaderOK
  <1>2. SeenOK'
    BY DEF ScrollInv, SeenOK
  <1>3. RowsOK'
    BY DEF ScrollInv, RowsOK, Ordered, Past
  <1> QED
    BY <1>1, <1>2, <1>3

\* The rows before a row are no fewer while no row goes away.
LEMMA StillAhead ==
  ASSUME TablesInv, TablesInv', ReaderOK, UNCHANGED reader, reader.surface = "connections",
         Rows(reader) \subseteq Rows(reader)', NEW r \in Rows(reader)
  PROVE  Cardinality(Ahead(Rows(reader), r)) <= Cardinality(Ahead(Rows(reader)', r)) /\ Cardinality(Ahead(Rows(reader), r)) \in Nat
  <1>1. Rows(reader)' = RelationRows(follows') /\ Rows(reader) = RelationRows(follows)
    BY DEF Rows, RelationRows
  <1>2. Ordered(RelationRows(follows)) /\ Ordered(RelationRows(follows'))
    <2>1. follows \subseteq RelationRecord /\ Table(follows, serial) /\ follows' \subseteq RelationRecord /\ Table(follows', serial')
      BY TablesInvIs, TablesInvPrime
    <2> QED
      BY <2>1, RelationsOrdered
  <1>3. PICK S, T : S = Rows(reader) /\ T = Rows(reader)'
    OBVIOUS
  <1>4. Ordered(S) /\ Ordered(T) /\ S \subseteq T /\ r.key \in RowKey
    BY <1>1, <1>2, <1>3 DEF Ordered
  <1>5. IsFiniteSet(Ahead(T, r)) /\ Cardinality(Ahead(S, r)) \in Nat
    BY <1>4, AheadFacts
  <1>6. Ahead(S, r) \subseteq Ahead(T, r)
    BY <1>4 DEF Ahead
  <1> QED
    BY <1>3, <1>5, <1>6, FS_Subset

LEMMA WatchedStep ==
  ASSUME TablesInv, TablesInv', ScrollInv, Watched
  PROVE  ScrollInv'
  <1>1. /\ UNCHANGED <<reader, seen>> /\ stable' = stable \cap Rows(reader)'
        /\ removed' = (removed \/ ~(Rows(reader) \subseteq Rows(reader)'))
        /\ ReaderOK /\ stable \subseteq Rows(reader) /\ reader.offset \in Nat
    BY ReaderIs DEF Watched, scrollVars, ScrollInv, StableOK
  <1>2. ReaderOK' /\ SeenOK' /\ RowsOK'
    <2>1. reader.pc = "idle" => stable' = {}
      BY <1>1 DEF ReaderOK
    <2> QED
      BY <2>1, <1>1, ReaderFrame
  <1>3. ASSUME NEW r \in stable' \ seen'
        PROVE  Awaited(r)'
    <2>1. r \in stable \ seen /\ r \in Rows(reader) /\ Awaited(r)
      BY <1>1 DEF ScrollInv, StableOK
    <2>2. reader.pc = "query" /\ reader.surface = "connections" /\ ~removed' => reader.offset <= Cardinality(Ahead(Rows(reader), r))'
      <3> SUFFICES ASSUME reader.pc = "query", reader.surface = "connections", ~removed'
                   PROVE  reader.offset <= Cardinality(Ahead(Rows(reader), r))'
        OBVIOUS
      <3>1. Rows(reader) \subseteq Rows(reader)' /\ ~removed
        BY <1>1
      <3>2. reader.offset <= Cardinality(Ahead(Rows(reader), r))
        BY <2>1, <3>1 DEF Awaited
      <3>3. Cardinality(Ahead(Rows(reader), r)) <= Cardinality(Ahead(Rows(reader)', r)) /\ Cardinality(Ahead(Rows(reader), r)) \in Nat
        BY <1>1, <2>1, <3>1, StillAhead
      <3>4. Ordered(Rows(reader)')
        <4>1. Rows(reader)' = RelationRows(follows')
          BY <1>1 DEF Rows, RelationRows
        <4>2. follows' \subseteq RelationRecord /\ Table(follows', serial')
          BY TablesInvPrime
        <4> QED
          BY <4>1, <4>2, RelationsOrdered
      <3>5. r \in Rows(reader)'
        BY <1>1
      <3>6. Cardinality(Ahead(Rows(reader)', r)) \in Nat
        <4>1. r.key \in RowKey
          BY <3>4, <3>5 DEF Ordered
        <4>2. PICK T : T = Rows(reader)'
          OBVIOUS
        <4> QED
          BY <4>1, <4>2, <3>4, AheadFacts
      <3>7. Ahead(Rows(reader), r)' = Ahead(Rows(reader)', r)
        BY DEF Ahead
      <3> QED
        BY <3>2, <3>3, <3>6, <3>7, <1>1
    <2>3. removed => removed'
      BY <1>1
    <2> QED
      BY <1>1, <2>1, <2>2, <2>3 DEF Awaited, Reached, Past
  <1> QED
    BY <1>1, <1>2, <1>3 DEF ScrollInv, StableOK

LEMMA ScrollFrame ==
  ASSUME ScrollInv, UNCHANGED <<rowVars, scrollVars, stable, removed>>
  PROVE  ScrollInv'
  <1>1. UNCHANGED <<reader, seen, stable, removed>>
    BY DEF scrollVars
  <1>2. SameScroll(reader')
    BY <1>1 DEF SameScroll
  <1>3. Rows(reader)' = Rows(reader) /\ \A r : Ahead(Rows(reader), r)' = Ahead(Rows(reader), r)
    BY <1>2, ListStays
  <1>4. ReaderOK' /\ SeenOK' /\ RowsOK'
    BY <1>1, ReaderFrame DEF ScrollInv, ReaderOK
  <1>5. ASSUME NEW r \in stable' \ seen'
        PROVE  Awaited(r)'
    <2>1. Awaited(r)
      BY <1>1 DEF ScrollInv, StableOK
    <2>2. Ahead(Rows(reader), r)' = Ahead(Rows(reader), r)
      BY <1>3
    <2> QED
      BY <2>1, <2>2, <1>1 DEF Awaited, Reached, Past
  <1> QED
    BY <1>1, <1>3, <1>4, <1>5 DEF ScrollInv, StableOK

LEMMA RelationIsWatched ==
  ASSUME Relation
  PROVE  Watched /\ Change
  BY DEF Relation, Import, RepostPost, FollowUser, MuteUser, UndoRepostPost, UnfollowUser, UnmuteUser, BookmarkPost, React,
         UnbookmarkPost, Notified

ChangesOK == changes \in 0..MaxChanges

LEMMA ChangesStay ==
  ASSUME ChangesOK, Change \/ UNCHANGED changes
  PROVE  ChangesOK'
  BY ListsAssumption DEF ChangesOK, Change

LEMMA ScrollNext ==
  ASSUME TablesInv, TablesInv', ScrollInv, ChangesOK, ReadNext
  PROVE  ScrollInv' /\ ChangesOK'
  <1>1. CASE OpenList \/ ScrollStep
    BY <1>1, OpenStep, ScrollStepKeeps, ChangesStay
  <1>2. CASE Relation
    BY <1>2, RelationIsWatched, WatchedStep, ChangesStay
  <1>3. ASSUME NEW a \in Actors, NEW parent \in {0, Oldest}, NEW quote \in {0, Oldest}, PublishPost(a, parent, quote)
        PROVE  ScrollInv' /\ ChangesOK'
    <2>1. Watched /\ Change
      BY <1>3 DEF PublishPost, Publish
    <2> QED
      BY <2>1, WatchedStep, ChangesStay
  <1>4. ASSUME NEW p \in Live, RemovePost(p)
        PROVE  ScrollInv' /\ ChangesOK'
    <2>1. Watched /\ Change
      BY <1>4 DEF RemovePost, DeletePost
    <2> QED
      BY <2>1, WatchedStep, ChangesStay
  <1>5. ASSUME NEW a \in Processes, Read(a) \/ FlightStep(a) \/ FlightFails(a)
        PROVE  ScrollInv' /\ ChangesOK'
    <2>1. Unlisted /\ (Change \/ UNCHANGED changes)
      BY <1>5 DEF Read, FlightStep, FlightGet, FlightFence, FlightLoad, FlightSet, FlightFails
    <2> QED
      BY <2>1, ScrollFrame, ChangesStay DEF Unlisted
  <1>6. CASE InvalidateWritten \/ ReadCancelled \/ Validate \/ ReadAgain \/ CacheExpires \/ FenceExpires
    <2>1. Unlisted /\ (Change \/ UNCHANGED changes)
      BY <1>6 DEF InvalidateWritten, ReadCancelled, Validate, ReadAgain, CacheExpires, FenceExpires, Invalidate
    <2> QED
      BY <2>1, ScrollFrame, ChangesStay DEF Unlisted
  <1> QED
    BY <1>1, <1>2, <1>3, <1>4, <1>5, <1>6 DEF ReadNext

LEMMA ScrollStart ==
  ASSUME ListsInit
  PROVE  ScrollInv /\ ChangesOK
  <1>1. reader = NoReader /\ seen = {} /\ stable = {} /\ changes = 0
    BY DEF ListsInit
  <1>2. reader \in Reader({}) /\ reader.rows = {} /\ reader.pc = "idle" /\ reader.count = 0
    <2>1. NoCursor \in RowKey \cup {NoCursor} /\ "idle" \in ScrollPcs
      BY DEF ScrollPcs
    <2> QED
      BY <1>1, <2>1 DEF NoReader, Reader
  <1>3. Ordered({}) /\ Cardinality({}) = 0 /\ IsFiniteSet({})
    BY FS_EmptySet DEF Ordered
  <1>4. ReaderOK /\ SeenOK /\ StableOK
    BY <1>1, <1>2, <1>3 DEF ReaderOK, SeenOK, StableOK
  <1>5. Cardinality(reader.rows) \in 0..Limit + 1 /\ Ordered(reader.rows)
    BY <1>2, <1>3, ListsAssumption
  <1>6. RowsOK
    BY <1>2, <1>5 DEF RowsOK
  <1>7. ChangesOK
    BY <1>1, ListsAssumption DEF ChangesOK
  <1> QED
    BY <1>4, <1>6, <1>7 DEF ScrollInv

-----------------------------------------------------------------------------
(* Reading Posts is safe.                                                  *)

ReadsInv == TablesInv /\ ScrollInv /\ ChangesOK /\ CacheInv /\ TranslationInv

LEMMA ReadsStart ==
  ASSUME ReadsInit
  PROVE  ReadsInv
  <1>1. ListsInit /\ TranslationInit
    BY DEF ReadsInit
  <1> QED
    BY <1>1, TablesStart, ScrollStart, CacheStart, TranslationStart DEF ReadsInv

LEMMA ReadsStep ==
  ASSUME ReadsInv, [ReadsNext]_readsVars
  PROVE  ReadsInv'
  <1>0. TablesInv /\ ScrollInv /\ ChangesOK /\ CacheInv /\ TranslationInv
    BY DEF ReadsInv
  <1>1. CASE ReadNext /\ UNCHANGED translationVars
    <2>1. TablesInv' /\ CacheInv'
      BY <1>0, <1>1, CacheStep
    <2>2. ScrollInv' /\ ChangesOK'
      BY <1>0, <1>1, <2>1, ScrollNext
    <2>3. TranslationInv'
      BY <1>0, <1>1, TranslationFrame
    <2> QED
      BY <2>1, <2>2, <2>3 DEF ReadsInv
  <1>2. CASE UNCHANGED <<listVars, cacheVars>> /\ (TranslationNext \/ UNCHANGED translationVars)
    <2>1. UNCHANGED rowVars /\ UNCHANGED <<rowVars, scrollVars, stable, removed>> /\ UNCHANGED changes /\ UNCHANGED cacheVars
      BY <1>2 DEF listVars
    <2>2. Public(Oldest)' = Public(Oldest) /\ Counters' = Counters
      BY <2>1, PageUnchanged DEF rowVars
    <2>3. TablesInv' /\ CacheInv'
      BY <1>0, <2>1, <2>2, TablesFrame, CacheFrame
    <2>4. ScrollInv' /\ ChangesOK'
      BY <1>0, <2>1, ScrollFrame, ChangesStay
    <2>5. TranslationInv'
      BY <1>0, <1>2, TranslationStep, TranslationFrame
    <2> QED
      BY <2>3, <2>4, <2>5 DEF ReadsInv
  <1>3. CASE UNCHANGED readsVars
    <2>1. UNCHANGED <<listVars, cacheVars>> /\ UNCHANGED translationVars
      BY <1>3 DEF readsVars
    <2> QED
      BY <2>1, <1>2
  <1> QED
    BY <1>1, <1>2, <1>3 DEF ReadsNext

LEMMA ReadsInvariant == ReadsSpec => []ReadsInv
  <1>1. ReadsInit => ReadsInv
    BY ReadsStart
  <1>2. ReadsInv /\ [ReadsNext]_readsVars => ReadsInv'
    BY ReadsStep
  <1> QED
    BY <1>1, <1>2, PTL DEF ReadsSpec

\* Every row that stays in a list is shown by the time its place is passed, and no
\* row twice, whatever is published, deleted, reposted, followed or muted between
\* the pages and between the queries of one page; the cached detail page is the
\* present one unless its invalidation is to come or was lost, and is not served
\* of a Post deleted before the request; a text is paid for once, no slot of the
\* translator leaks, and nobody's error is that of another who left.
THEOREM ReadsAreSafe == ReadsSpec => []ReadsSafe
  <1>1. ReadsInv => ReadsSafe
    <2> SUFFICES ASSUME ReadsInv
                 PROVE  ReadsSafe
      OBVIOUS
    <2>0. TablesInv /\ ScrollInv /\ ChangesOK /\ CacheInv /\ TranslationInv
      BY DEF ReadsInv
    <2>1. ReadsTypeOK
      <3>1. reader.pc \in ScrollPcs
        BY <2>0, ReaderIs DEF ScrollInv
      <3> QED
        BY <3>1, <2>0 DEF ReadsTypeOK, ScrollPcs, ChangesOK, CacheInv, CacheShape, PageLoad
    <2>2. CacheFresh /\ DeletedIsHidden
      BY <2>0 DEF CacheInv, FreshOK, RequestOK, Present, CacheFresh, DeletedIsHidden
    <2>3. StableRowsShown
      <3> SUFFICES ASSUME reader.pc \in {"query", "bucket", "end"}, reader.rows = {}, NEW r \in stable, r \notin seen
                   PROVE  \/ reader.pc # "end" /\ (reader.cursor = NoCursor \/ Newer(reader.cursor, r.key))
                          \/ reader.surface = "connections" /\ (removed \/ reader.pc # "end" \/ reader.offset > MaxOffset - Limit)
        BY DEF StableRowsShown
      <3>1. Awaited(r)
        BY <2>0 DEF ScrollInv, StableOK
      <3> QED
        BY <3>1 DEF Awaited, Past
    <2>4. NoRowTwice
      BY <2>0 DEF ScrollInv, SeenOK, NoRowTwice
    <2>5. TranslationSafe
      BY <2>0, TranslationIsSafe
    <2> QED
      BY <2>1, <2>2, <2>3, <2>4, <2>5 DEF ReadsSafe
  <1> QED
    BY ReadsInvariant, <1>1, PTL

\* The rows a page of the Following timeline adds are winners after the cursor: a
\* Post shown before comes again only when the activity that showed it is gone.
LEMMA NothingAgain ==
  ASSUME ReadsInv, [ReadsNext]_readsVars, reader.surface = "following",
         NEW r \in reader'.rows \ reader.rows, NEW s \in seen, s.post = r.post
  PROVE  s \notin FollowedActivities
  <1>0. TablesInv /\ ScrollInv /\ ReaderOK /\ SeenOK
    BY DEF ReadsInv, ScrollInv
  <1>1. reader.pc = "query" /\ r \in Candidates(reader)
    <2>1. reader' # reader
      OBVIOUS
    <2>2. OpenList \/ ScrollStep
      <3>1. Relation => UNCHANGED reader
        BY RelationIsWatched DEF Watched, scrollVars
      <3>2. \A a, parent, quote : PublishPost(a, parent, quote) => UNCHANGED reader
        BY DEF PublishPost, Publish, Watched, scrollVars
      <3>3. \A p : RemovePost(p) => UNCHANGED reader
        BY DEF RemovePost, DeletePost, Watched, scrollVars
      <3>4. \A a : Read(a) \/ FlightStep(a) \/ FlightFails(a) => UNCHANGED reader
        BY DEF Read, FlightStep, FlightGet, FlightFence, FlightLoad, FlightSet, FlightFails, Unlisted, scrollVars
      <3>5. InvalidateWritten \/ ReadCancelled \/ Validate \/ ReadAgain \/ CacheExpires \/ FenceExpires => UNCHANGED reader
        BY DEF InvalidateWritten, ReadCancelled, Validate, ReadAgain, CacheExpires, FenceExpires, Unlisted, scrollVars
      <3>6. UNCHANGED listVars => UNCHANGED reader
        BY DEF listVars, scrollVars
      <3> QED
        BY <2>1, <3>1, <3>2, <3>3, <3>4, <3>5, <3>6 DEF ReadsNext, ReadNext, readsVars
    <2>3. ~OpenList
      BY <1>0 DEF OpenList, Open, ReaderOK, NoReader
    <2>4. reader.pc \notin {"bucket", "nextBucket"}
      BY <1>0 DEF ReaderOK
    <2>5. CASE Hydrate
      <3>1. Shown(reader, reader.rows) /\ Ordered(reader.rows) /\ Cardinality(reader.rows) \in 0..Limit + 1
        BY <2>5, <1>0 DEF Hydrate, ScrollInv, RowsOK
      <3>2. Showing(reader.rows)
        BY <3>1, <2>5, <1>0 DEF Showing, Hydrate
      <3>3. reader'.rows = {}
        BY <3>2, ShownFacts
      <3> QED
        BY <3>3
    <2>6. CASE Query
      <3>1. reader' = [reader EXCEPT !.pc = "gone"] \/ reader' = [reader EXCEPT !.pc = "hydrate", !.rows = Candidates(reader)]
        BY <2>6 DEF Query, OneQuery
      <3>2. reader'.rows \in {reader.rows, Candidates(reader)}
        BY <3>1, <1>0 DEF ReaderOK, Reader
      <3> QED
        BY <3>2, <2>6 DEF Query
    <2> QED
      BY <2>2, <2>3, <2>4, <2>5, <2>6 DEF ScrollStep, QueryBucket, NextBucket
  <1>2. s.key \in RowKey /\ reader.cursor \in RowKey /\ (s.key = reader.cursor \/ Newer(s.key, reader.cursor))
    BY <1>0, <1>1 DEF SeenOK
  <1>3. reader.cursor # NoCursor
    BY <1>2 DEF RowKey
  <1>4. /\ Ordered(Candidates(reader)) /\ Past(reader.cursor, r) /\ r \in Winners(FollowedActivities)
    BY <1>0, <1>1, <1>3, CandidatesFollow
  <1>5. r.key \in RowKey /\ Newer(reader.cursor, r.key)
    BY <1>1, <1>3, <1>4 DEF Ordered, Past
  <1>6. Newer(s.key, r.key)
    BY <1>2, <1>5, NewerOrder
  <1>7. s \in FollowedActivities => s = r \/ Newer(r.key, s.key)
    BY <1>4 DEF Winners
  <1> QED
    BY <1>2, <1>5, <1>6, <1>7, NewerOrder

\* While its first activity is there to see, a Post is on one page of a Following
\* timeline only, though every page asks anew for the latest activity of each.
THEOREM NoPostComesTwice == ReadsSpec => NoPostTwice
  <1> DEFINE A == reader.surface = "following" =>
                    \A r \in reader'.rows \ reader.rows, s \in seen : s.post = r.post => s \notin FollowedActivities
  <1>1. ReadsInv /\ [ReadsNext]_readsVars => [A]_<<rowVars, scrollVars>>
    BY NothingAgain
  <1> QED
    BY ReadsInvariant, <1>1, PTL DEF ReadsSpec, NoPostTwice

-----------------------------------------------------------------------------
(* Refresh-token sessions.                                                 *)

USE NoRequestAssumption, TTLAssumption

-----------------------------------------------------------------------------
(* The invariants the proof rests on.                                      *)

Handler == [phase : {"idle", "login", "refresh", "rotated", "accepted", "revoke", "change"},
            s : Sessions \cup {NoRequest}, old : Secrets, rid : RequestIds, at : Nat,
            next : Secrets, version : 0..MaxVersion, seen : 0..MaxVersion,
            cur : Passwords \cup {NoRequest}, new : Passwords \cup {NoRequest}]

Marker   == [s : Sessions, secret : Secrets, until : Nat]
Recovery == [s : Sessions, old : Secrets, rid : Requests, next : Secrets, until : Nat]
Answer   == [kind : {"login", "refresh"}, s : Sessions, old : Secrets, rid : RequestIds, next : Secrets,
             version : 0..MaxVersion]

\* The records of each store, with all their fields.
ShapeInv ==
  /\ handler \in [Handlers -> Handler]
  /\ used \subseteq Marker
  /\ recovery \subseteq Recovery
  /\ answers \subseteq Answer

\* What a handler holds while it runs: a family that was opened, a clock at most
\* MaxLag old, the version and the password as first read, and, once the user row
\* was found to agree, a version no older than the request.
HandlerOK(q) ==
  /\ q.phase \in {"login", "refresh"} => q.at <= now /\ now <= q.at + MaxLag
  /\ q.phase = "login" => q.version > 0
  /\ q.phase \in {"refresh", "rotated", "accepted", "revoke"} => q.s \in created
  /\ q.phase \in {"refresh", "rotated"} => q.seen <= authVersion
  /\ q.phase = "accepted" => q.seen <= q.version
  /\ q.phase = "change" =>
       /\ q.new \in Passwords /\ q.version <= authVersion
       /\ q.version = authVersion => q.cur = password
HandlerInv == \A h \in Handlers : HandlerOK(handler[h])

\* Redis drops a family when its time is up.
LiveInv == \A s \in Sessions : session[s] # NoSession => Alive(s)

\* A marker outlives the absolute deadline of its family.
MarkerInv ==
  \A s \in Sessions : session[s] # NoSession /\ now < session[s].absolute =>
    \A n \in 0..(session[s].secret - 1) :
      \E u \in used : u.s = s /\ u.secret = n /\ u.until >= session[s].absolute

\* A grant is the right of a request to one successor: an answer, the recovery
\* record kept for it, or a handler about to send it.
Granted(q) == q.phase \in {"rotated", "accepted"}
Grants ==
  {<<a.s, a.old, a.rid, a.next>> : a \in {b \in answers : b.kind = "refresh"}}
  \cup {<<k.s, k.old, k.rid, k.next>> : k \in recovery}
  \cup {<<handler[h].s, handler[h].old, handler[h].rid, handler[h].next>> :
          h \in {x \in Handlers : Granted(handler[x])}}

\* A secret is granted away at most once, and its family has moved past it.
GrantInv ==
  /\ \A g \in Grants : /\ g[1] \in created
                       /\ session[g[1]] # NoSession => g[2] < session[g[1]].secret
  /\ \A f, g \in Grants : f[1] = g[1] /\ f[2] = g[2] => f = g

\* All that comes of one login carries the version the login was given: its
\* answers, its family, and the handlers that rotated it.
VersionInv ==
  /\ \A s \in created : \E a \in answers : a.s = s
  /\ \A a, b \in answers : a.s = b.s => a.version = b.version
  /\ \A a \in answers :
       /\ session[a.s] # NoSession => session[a.s].version = a.version
       /\ \A h \in Handlers : Granted(handler[h]) /\ handler[h].s = a.s => handler[h].version = a.version

\* A logout leaves nothing.
LogoutInv == \A s \in loggedOut : s \in created /\ session[s] = NoSession

\* The inductive invariant.
IInv ==
  /\ TypeOK /\ ShapeInv /\ HandlerInv /\ LiveInv /\ MarkerInv /\ GrantInv /\ LogoutInv
  /\ AbsoluteLifetime /\ VersionInv

-----------------------------------------------------------------------------
(* What the steps of a handler do, said once.                              *)

\* The facts about an open request that every case needs.
LEMMA Request ==
  ASSUME TypeOK, ShapeInv, HandlerInv, NEW h \in Handlers
  PROVE  /\ handler[h] \in Handler
         /\ handler[h].old \in Nat /\ handler[h].next \in Nat
         /\ handler[h].phase \in {"refresh", "rotated", "accepted", "revoke"} =>
              /\ handler[h].s \in Sessions /\ handler[h].s \in created
              /\ session[handler[h].s] \in Session
         /\ Idle \in Handler /\ Idle.phase = "idle"
BY DEF TypeOK, ShapeInv, HandlerInv, HandlerOK, Handler, Idle, Secrets, RequestIds

\* A rotation moves its family one secret on and keeps its deadline and version.
LEMMA RotateFamily ==
  ASSUME TypeOK, ShapeInv, HandlerInv, NEW h \in Handlers, Rotate(h)
  PROVE  LET q == handler[h]
             o == session[q.s]
             n == session'[q.s]
         IN /\ n \in Session
            /\ o.secret = q.old /\ n.secret = q.old + 1
            /\ n.version = o.version /\ n.absolute = o.absolute
            /\ n.until = now + SessionTTL(h)
            /\ \A s \in Sessions : s # q.s => session'[s] = session[s]
            /\ SessionTTL(h) \in Nat \ {0} /\ SessionTTL(h) <= o.absolute - q.at
            /\ MarkerTTL(h) = o.absolute - q.at /\ MarkerTTL(h) \in Nat \ {0}
<1> DEFINE q == handler[h]
           o == session[q.s]
<1>1. q \in Handler /\ q.s \in Sessions /\ o \in Session /\ q.at \in Nat /\ q.old \in Nat /\ q.old + 1 \in Secrets
  BY Request DEF Rotate, Handler, Secrets
<1>2. o.absolute \in Nat /\ o.secret \in Nat /\ now \in Nat
  BY <1>1 DEF Session, Secrets, TypeOK
<1>3. SessionTTL(h) \in Nat \ {0} /\ SessionTTL(h) <= o.absolute - q.at
  <2> DEFINE d == o.absolute - q.at
  <2>1. d \in Int /\ IdleTTL \in Int
    BY <1>1, <1>2
  <2>2. SessionTTL(h) = IF IdleTTL < d THEN IdleTTL ELSE d
    BY DEF SessionTTL, Least
  <2>3. SessionTTL(h) >= 1
    BY DEF Rotate
  <2> HIDE DEF d
  <2>4. SessionTTL(h) \in Int /\ SessionTTL(h) <= d
    BY <2>1, <2>2
  <2> QED BY <2>3, <2>4 DEF d
<1>4. MarkerTTL(h) = o.absolute - q.at /\ MarkerTTL(h) \in Nat \ {0}
  BY <1>1, <1>2, <1>3 DEF MarkerTTL
<1>5. session' = [session EXCEPT ![q.s].secret = q.old + 1, ![q.s].until = now + SessionTTL(h)]
  BY DEF Rotate
<1> DEFINE n == [o EXCEPT !.secret = q.old + 1, !.until = now + SessionTTL(h)]
<1>6. session'[q.s] = n /\ \A s \in Sessions : s # q.s => session'[s] = session[s]
  BY <1>1, <1>5 DEF TypeOK, Session
<1>7. /\ n \in Session /\ n.secret = q.old + 1 /\ n.until = now + SessionTTL(h)
      /\ n.version = o.version /\ n.absolute = o.absolute
  <2>1. now + SessionTTL(h) \in Nat
    BY <1>2, <1>3
  <2> QED BY <1>1, <2>1 DEF Session
<1>8. o.secret = q.old
  BY DEF Rotate
<1> QED BY <1>3, <1>4, <1>6, <1>7, <1>8

\* The handler after a rotation or a recovery.
LEMMA RotatedHandler ==
  ASSUME TypeOK, ShapeInv, HandlerInv, NEW h \in Handlers, handler[h].phase = "refresh", NEW n \in Secrets,
         handler' = [handler EXCEPT ![h].phase = "rotated", ![h].next = n, ![h].version = session[handler[h].s].version]
  PROVE  /\ handler' \in [Handlers -> Handler]
         /\ handler'[h].phase = "rotated" /\ handler'[h].next = n
         /\ handler'[h].s = handler[h].s /\ handler'[h].old = handler[h].old /\ handler'[h].rid = handler[h].rid
         /\ handler'[h].seen = handler[h].seen /\ handler'[h].version = session[handler[h].s].version
         /\ \A x \in Handlers : x # h => handler'[x] = handler[x]
<1> DEFINE q == handler[h]
           n2 == [q EXCEPT !.phase = "rotated", !.next = n, !.version = session[q.s].version]
<1>1. q \in Handler /\ session[q.s].version \in 0..MaxVersion
  BY Request DEF Session
<1>2. handler \in [Handlers -> Handler]
  BY DEF ShapeInv
<1>3. handler'[h] = n2 /\ \A x \in Handlers : x # h => handler'[x] = handler[x]
  BY <1>1, <1>2 DEF Handler
<1>4. /\ n2 \in Handler /\ n2.phase = "rotated" /\ n2.next = n
      /\ n2.s = q.s /\ n2.old = q.old /\ n2.rid = q.rid
      /\ n2.seen = q.seen /\ n2.version = session[q.s].version
  BY <1>1 DEF Handler
<1> HIDE DEF n2
<1>5. handler' \in [Handlers -> Handler]
  BY <1>2, <1>3, <1>4
<1> QED BY <1>3, <1>4, <1>5

\* How a handler step leaves the handlers: only its own moves.
LEMMA HandlerShape ==
  ASSUME TypeOK, ShapeInv, HandlerInv, NEW h \in Handlers, HandlerNext(h)
  PROVE  /\ handler' \in [Handlers -> Handler]
         /\ \A x \in Handlers : x # h => handler'[x] = handler[x]
<1>t. handler \in [Handlers -> Handler] /\ Idle \in Handler
  BY Request DEF ShapeInv
<1>v. /\ now \in Nat /\ authVersion \in 0..MaxVersion /\ password \in Passwords
      /\ 0 \in Secrets /\ 0 \in 0..MaxVersion /\ NoRequest \in RequestIds
  BY DEF TypeOK, Secrets, RequestIds
<1>d. ASSUME Done(h) PROVE /\ handler' \in [Handlers -> Handler]
                           /\ \A x \in Handlers : x # h => handler'[x] = handler[x]
  BY <1>d, <1>t DEF Done
<1>n. ASSUME NEW n \in Handler, handler' = [handler EXCEPT ![h] = n]
      PROVE  /\ handler' \in [Handlers -> Handler]
             /\ \A x \in Handlers : x # h => handler'[x] = handler[x]
  BY <1>n, <1>t
<1>1. CASE StartLogin(h)
  <2>1. [Idle EXCEPT !.phase = "login", !.at = now, !.version = authVersion] \in Handler
    BY <1>v DEF Handler, Idle
  <2> QED BY <1>1, <1>n, <2>1 DEF StartLogin
<1>2. CASE StartRefresh(h)
  <2>1. PICK a \in answers, rid \in RequestIds :
          handler' = [handler EXCEPT ![h] =
            [Idle EXCEPT !.phase = "refresh", !.s = a.s, !.old = a.next, !.rid = rid, !.at = now,
                         !.seen = authVersion]]
    <3>1. PICK k \in Known, rid \in RequestIds :
            handler' = [handler EXCEPT ![h] =
              [Idle EXCEPT !.phase = "refresh", !.s = k[1], !.old = k[2], !.rid = rid, !.at = now,
                           !.seen = authVersion]]
      BY <1>2 DEF StartRefresh
    <3>2. PICK a \in answers : k = <<a.s, a.next>>
      BY DEF Known
    <3>3. k[1] = a.s /\ k[2] = a.next
      BY <3>2
    <3> QED BY <3>1, <3>3
  <2>2. a \in Answer
    BY DEF ShapeInv
  <2>3. [Idle EXCEPT !.phase = "refresh", !.s = a.s, !.old = a.next, !.rid = rid, !.at = now,
                     !.seen = authVersion] \in Handler
    BY <1>v, <2>2 DEF Handler, Idle, Answer
  <2> QED BY <2>1, <2>3, <1>n
<1>3. CASE Rotate(h)
  <2>1. handler[h].old + 1 \in Secrets
    BY <1>3, Request DEF Rotate, Secrets
  <2> QED BY <1>3, <2>1, RotatedHandler DEF Rotate
<1>4. CASE Recover(h)
  <2>1. \A k \in Recoverable(h) : k.next \in Secrets
    BY DEF Recoverable, ShapeInv, Recovery
  <2> QED BY <1>4, <2>1, RotatedHandler DEF Recover
<1>5. CASE AcceptVersion(h) \/ RejectVersion(h)
  <2>1. PICK p \in {"accepted", "revoke"} : handler' = [handler EXCEPT ![h].phase = p]
    BY <1>5 DEF AcceptVersion, RejectVersion
  <2>2. [handler[h] EXCEPT !.phase = p] \in Handler
    BY <1>t DEF Handler
  <2>3. handler' = [handler EXCEPT ![h] = [handler[h] EXCEPT !.phase = p]]
    BY <2>1
  <2> QED BY <2>2, <2>3, <1>n
<1>6. CASE StartChange(h)
  <2>1. PICK new \in Passwords : handler' = [handler EXCEPT ![h] =
         [Idle EXCEPT !.phase = "change", !.version = authVersion, !.cur = password, !.new = new]]
    BY <1>6 DEF StartChange
  <2>2. [Idle EXCEPT !.phase = "change", !.version = authVersion, !.cur = password, !.new = new] \in Handler
    BY <1>v DEF Handler, Idle
  <2> QED BY <2>1, <2>2, <1>n
<1>7. CASE IssuePair(h) \/ EndFamily(h) \/ RefuseRefresh(h) \/ AnswerRefresh(h) \/ RevokeRejected(h)
           \/ HandlerFails(h) \/ CommitChange(h)
  BY <1>7, <1>d DEF IssuePair, EndFamily, RefuseRefresh, AnswerRefresh, RevokeRejected, HandlerFails, CommitChange
<1> QED BY <1>1, <1>2, <1>3, <1>4, <1>5, <1>6, <1>7 DEF HandlerNext

-----------------------------------------------------------------------------
(* Types.                                                                  *)

\* A family ends: a reuse, a revocation or a logout clears its hash, if it has
\* one.
Ends(s) == session' = [session EXCEPT ![s] = NoSession] \/ session' = session

LEMMA ShapeStep ==
  ASSUME TypeOK, ShapeInv, HandlerInv, Next
  PROVE  ShapeInv'
<1>1. handler' \in [Handlers -> Handler]
  BY HandlerShape DEF Next, Tick, Logout, ShapeInv
<1>2. ASSUME UNCHANGED <<used, recovery, answers>> PROVE ShapeInv'
  BY <1>1, <1>2 DEF ShapeInv
<1>3. CASE Tick
  BY <1>1, <1>3 DEF Tick, ShapeInv
<1>4. ASSUME NEW h \in Handlers, IssuePair(h) PROVE ShapeInv'
  <2>1. \A s \in Sessions : [kind |-> "login", s |-> s, old |-> 0, rid |-> NoRequest, next |-> 0,
                              version |-> handler[h].version] \in Answer
    BY Request DEF Answer, Secrets, RequestIds, Handler
  <2> QED BY <1>1, <1>4, <2>1 DEF IssuePair, ShapeInv
<1>5. ASSUME NEW h \in Handlers, Rotate(h) PROVE ShapeInv'
  <2> DEFINE q == handler[h]
             m == [s |-> q.s, secret |-> q.old, until |-> now + MarkerTTL(h)]
             k == [s |-> q.s, old |-> q.old, rid |-> q.rid, next |-> q.old + 1,
                   until |-> now + Least(RecoveryTTL, SessionTTL(h))]
  <2>1. q.s \in Sessions /\ q.old \in Secrets /\ q.old + 1 \in Secrets /\ q.rid \in RequestIds
    BY <1>5, Request DEF Rotate, Secrets, Handler
  <2>2. now + MarkerTTL(h) \in Nat /\ now + Least(RecoveryTTL, SessionTTL(h)) \in Nat
    BY <1>5, RotateFamily DEF TypeOK, Least
  <2>3. m \in Marker
    BY <2>1, <2>2 DEF Marker
  <2>4. q.rid # NoRequest => k \in Recovery
    BY <2>1, <2>2 DEF Recovery, RequestIds
  <2>5. /\ used' = used \cup {m}
        /\ recovery' = IF q.rid = NoRequest THEN recovery ELSE recovery \cup {k}
        /\ answers' = answers
    BY <1>5 DEF Rotate
  <2> QED BY <1>1, <2>3, <2>4, <2>5 DEF ShapeInv
<1>6. ASSUME NEW h \in Handlers, AnswerRefresh(h) PROVE ShapeInv'
  <2> DEFINE q == handler[h]
             a == [kind |-> "refresh", s |-> q.s, old |-> q.old, rid |-> q.rid, next |-> q.next,
                   version |-> q.version]
  <2>1. a \in Answer
    BY <1>6, Request DEF AnswerRefresh, Handler, Answer
  <2>2. answers' = answers \cup {a} /\ UNCHANGED <<used, recovery>>
    BY <1>6 DEF AnswerRefresh
  <2> QED BY <1>1, <2>1, <2>2 DEF ShapeInv
<1>7. ASSUME NEW h \in Handlers, HandlerNext(h), ~IssuePair(h), ~Rotate(h), ~AnswerRefresh(h)
      PROVE  UNCHANGED <<used, recovery, answers>>
  BY <1>7 DEF HandlerNext, StartLogin, StartRefresh, Recover, EndFamily, RefuseRefresh, AcceptVersion, RejectVersion,
              RevokeRejected, HandlerFails, StartChange, CommitChange
<1>8. ASSUME NEW s, NEW n, Logout(s, n) PROVE UNCHANGED <<used, recovery, answers>>
  BY <1>8 DEF Logout
<1> QED BY <1>2, <1>3, <1>4, <1>5, <1>6, <1>7, <1>8 DEF Next

LEMMA TypeStep ==
  ASSUME TypeOK, ShapeInv, ShapeInv', HandlerInv, Next
  PROVE  TypeOK'
<1>s. NoSession \in Session
  BY DEF NoSession, Session, Secrets
<1>h. \A h \in Handlers : handler'[h].phase \in {"idle", "login", "refresh", "rotated", "accepted", "revoke", "change"}
  BY DEF ShapeInv, Handler
<1>1. CASE Tick
  <2>1. /\ now' \in 0..MaxTime
        /\ session' \in [Sessions -> Session]
        /\ \A s \in Sessions : session'[s] # NoSession => s \in created /\ session'[s].version > 0
    BY <1>1, <1>s DEF Tick, TypeOK
  <2>2. /\ \A u \in used' : u \in used /\ u.until > now'
        /\ \A k \in recovery' : k \in recovery /\ k.until > now'
        /\ UNCHANGED <<authVersion, password, created, answers, loggedOut>>
    BY <1>1 DEF Tick
  <2> QED BY <1>h, <2>1, <2>2 DEF TypeOK
<1>2. ASSUME NEW h \in Handlers, IssuePair(h) PROVE TypeOK'
  <2> DEFINE q == handler[h]
             fam == [secret |-> 0, version |-> q.version, absolute |-> q.at + AbsoluteTTL,
                     until |-> now + Least(IdleTTL, AbsoluteTTL)]
             ans(s) == [kind |-> "login", s |-> s, old |-> 0, rid |-> NoRequest, next |-> 0, version |-> q.version]
  <2>1. PICK s \in Sessions \ created :
          /\ created' = created \cup {s}
          /\ session' = [session EXCEPT ![s] = fam]
          /\ answers' = answers \cup {ans(s)}
    BY <1>2 DEF IssuePair
  <2>2. fam \in Session /\ fam.version > 0
    <3>1. q \in Handler /\ q.version > 0
      BY <1>2, Request DEF IssuePair, HandlerInv, HandlerOK
    <3>2. q.version \in 0..MaxVersion /\ q.at + AbsoluteTTL \in Nat /\ now + Least(IdleTTL, AbsoluteTTL) \in Nat
      BY <3>1 DEF Handler, TypeOK, Least
    <3> QED BY <3>1, <3>2 DEF Session, Secrets
  <2>3. UNCHANGED <<now, authVersion, password, used, recovery, loggedOut>>
    BY <1>2 DEF IssuePair
  <2>4. ans(s).s = s /\ ans(s).rid \in RequestIds /\ {ans(s).old, ans(s).next} \subseteq Secrets
    BY DEF RequestIds, Secrets
  <2> HIDE DEF fam, ans
  <2>5. /\ session' \in [Sessions -> Session]
        /\ \A x \in Sessions : session'[x] # NoSession => x \in created' /\ session'[x].version > 0
        /\ created' \subseteq Sessions
    BY <2>1, <2>2 DEF TypeOK
  <2>6. \A a \in answers' : a.s \in created' /\ a.rid \in RequestIds /\ {a.old, a.next} \subseteq Secrets
    BY <2>1, <2>4 DEF TypeOK
  <2> QED BY <1>h, <2>3, <2>5, <2>6 DEF TypeOK
<1>3. ASSUME NEW h \in Handlers, Rotate(h) PROVE TypeOK'
  <2> DEFINE q == handler[h]
  <2>1. /\ \A s \in Sessions : /\ session'[s] \in Session /\ session'[s].version = session[s].version
                               /\ session[s] = NoSession => session'[s] = NoSession
        /\ q.s \in Sessions
    <3>1. q.s \in Sessions /\ session[q.s] # NoSession
      BY <1>3, Request DEF Rotate, Alive, NoSession, TypeOK
    <3> QED BY <1>3, <3>1, RotateFamily DEF TypeOK
  <2>2. session' \in [Sessions -> Session]
    BY <1>3, <2>1 DEF Rotate, TypeOK
  <2>3. \A s \in Sessions : session'[s] # NoSession => s \in created /\ session'[s].version > 0
    BY <2>1 DEF TypeOK
  <2>4. ASSUME NEW u \in used' PROVE u.s \in Sessions /\ u.secret \in Secrets /\ u.until > now
    <3>1. CASE u \in used
      BY <3>1 DEF TypeOK
    <3>2. CASE u.until = now + MarkerTTL(h)
      BY <1>3, <3>2, RotateFamily DEF ShapeInv, Marker, TypeOK
    <3> QED BY <1>3, <3>1, <3>2 DEF Rotate
  <2>5. ASSUME NEW k \in recovery'
        PROVE  k.s \in Sessions /\ {k.old, k.next} \subseteq Secrets /\ k.rid \in Requests /\ k.until > now
    <3>1. CASE k \in recovery
      BY <3>1 DEF TypeOK
    <3>2. CASE k.until = now + Least(RecoveryTTL, SessionTTL(h))
      BY <1>3, <3>2, RotateFamily DEF ShapeInv, Recovery, TypeOK, Least
    <3> QED BY <1>3, <3>1, <3>2 DEF Rotate
  <2>6. UNCHANGED <<now, authVersion, password, created, answers, loggedOut>>
    BY <1>3 DEF Rotate
  <2> QED BY <1>h, <2>2, <2>3, <2>4, <2>5, <2>6 DEF TypeOK
<1>4. ASSUME NEW h \in Handlers, AnswerRefresh(h) PROVE TypeOK'
  <2> DEFINE q == handler[h]
             ans == [kind |-> "refresh", s |-> q.s, old |-> q.old, rid |-> q.rid, next |-> q.next,
                     version |-> q.version]
  <2>1. ans.s \in created /\ ans.rid \in RequestIds /\ {ans.old, ans.next} \subseteq Secrets
    BY <1>4, Request DEF AnswerRefresh, Handler
  <2>2. answers' = answers \cup {ans}
    BY <1>4 DEF AnswerRefresh
  <2>3. UNCHANGED <<now, authVersion, password, created, session, used, recovery, loggedOut>>
    BY <1>4 DEF AnswerRefresh
  <2> HIDE DEF ans
  <2> QED BY <1>h, <2>1, <2>2, <2>3 DEF TypeOK
<1>5. ASSUME NEW h \in Handlers, CommitChange(h) PROVE TypeOK'
  <2>1. handler[h].new \in Passwords
    BY <1>5 DEF CommitChange, HandlerInv, HandlerOK
  <2>2. authVersion' \in 1..MaxVersion /\ password' \in Passwords
    BY <1>5, <2>1 DEF CommitChange, TypeOK
  <2>3. UNCHANGED <<now, created, session, used, recovery, answers, loggedOut>>
    BY <1>5 DEF CommitChange
  <2> QED BY <1>h, <2>2, <2>3 DEF TypeOK
<1>6. ASSUME NEW s \in Sessions, Ends(s), loggedOut' \subseteq Sessions,
             UNCHANGED <<now, authVersion, password, created, used, recovery, answers>>
      PROVE  TypeOK'
  <2>1. /\ session' \in [Sessions -> Session]
        /\ \A x \in Sessions : session'[x] \in {NoSession, session[x]}
    BY <1>6, <1>s DEF Ends, TypeOK
  <2> QED BY <1>h, <1>6, <2>1 DEF TypeOK
<1>7. ASSUME NEW h \in Handlers, EndFamily(h) \/ RevokeRejected(h) PROVE TypeOK'
  <2>1. Ends(handler[h].s) /\ handler[h].s \in Sessions /\ loggedOut' \subseteq Sessions
    BY <1>7, Request DEF EndFamily, RevokeRejected, Revoke, Ends, TypeOK
  <2>2. UNCHANGED <<now, authVersion, password, created, used, recovery, answers>>
    BY <1>7 DEF EndFamily, RevokeRejected
  <2> QED BY <1>6, <2>1, <2>2
<1>8. ASSUME NEW s \in Sessions, NEW n, Logout(s, n) PROVE TypeOK'
  BY <1>6, <1>8 DEF Logout, Revoke, Ends, TypeOK
<1>9. ASSUME UNCHANGED <<now, authVersion, password, created, session, used, recovery, answers, loggedOut>>
      PROVE  TypeOK'
  BY <1>h, <1>9 DEF TypeOK
<1>10. ASSUME NEW h \in Handlers, HandlerNext(h), ~IssuePair(h), ~Rotate(h), ~AnswerRefresh(h),
              ~EndFamily(h), ~RevokeRejected(h), ~CommitChange(h)
       PROVE  UNCHANGED <<now, authVersion, password, created, session, used, recovery, answers, loggedOut>>
  BY <1>10 DEF HandlerNext, StartLogin, StartRefresh, Recover, RefuseRefresh, AcceptVersion, RejectVersion, HandlerFails, StartChange
<1> QED BY <1>1, <1>2, <1>3, <1>4, <1>5, <1>7, <1>8, <1>9, <1>10 DEF Next

-----------------------------------------------------------------------------
(* Handlers and families.                                                  *)

LEMMA HandlerStep ==
  ASSUME TypeOK, ShapeInv, HandlerInv, Next
  PROVE  HandlerInv'
<1>t. \A h \in Handlers : /\ handler[h] \in Handler
                          /\ handler[h].at \in Nat /\ handler[h].version \in Nat /\ handler[h].seen \in Nat
  BY DEF ShapeInv, Handler
<1>v. now \in Nat /\ authVersion \in Nat \ {0} /\ password \in Passwords
  BY DEF TypeOK
<1>k. ASSUME NEW h \in Handlers, UNCHANGED <<now, authVersion, password>>, created \subseteq created',
             handler'[h] = handler[h]
      PROVE  HandlerOK(handler[h])'
  BY <1>k DEF HandlerInv, HandlerOK
<1>i. ASSUME NEW h \in Handlers, handler'[h].phase = "idle" PROVE HandlerOK(handler[h])'
  BY <1>i DEF HandlerOK
<1>1. CASE Tick
  <2>1. ASSUME NEW h \in Handlers PROVE HandlerOK(handler[h])'
    BY <1>1, <1>t, <1>v DEF Tick, HandlerInv, HandlerOK
  <2> QED BY <2>1 DEF HandlerInv
<1>2. ASSUME NEW s, NEW n, Logout(s, n) PROVE HandlerInv'
  BY <1>2, <1>k DEF Logout, HandlerInv
<1>3. ASSUME NEW h \in Handlers, CommitChange(h) PROVE HandlerInv'
  <2>1. ASSUME NEW x \in Handlers, x # h PROVE HandlerOK(handler[x])'
    BY <1>3, <1>t, <1>v, <2>1, HandlerShape DEF CommitChange, HandlerNext, HandlerInv, HandlerOK
  <2>2. handler'[h].phase = "idle"
    BY <1>3 DEF CommitChange, Done, Idle, ShapeInv
  <2> QED BY <2>1, <2>2, <1>i DEF HandlerInv
<1>4. ASSUME NEW h \in Handlers, HandlerNext(h), ~CommitChange(h) PROVE HandlerInv'
  <2>1. UNCHANGED <<now, authVersion, password>> /\ created \subseteq created'
    BY <1>4 DEF HandlerNext, StartLogin, IssuePair, StartRefresh, Rotate, Recover, EndFamily, RefuseRefresh,
                AnswerRefresh, AcceptVersion, RejectVersion, RevokeRejected, HandlerFails, StartChange
  <2>2. \A x \in Handlers : x # h => handler'[x] = handler[x]
    BY <1>4, HandlerShape
  <2>3. HandlerOK(handler[h])'
    <3>t. handler \in [Handlers -> Handler]
      BY DEF ShapeInv
    <3>1. CASE StartLogin(h)
      <4>1. handler'[h] = [Idle EXCEPT !.phase = "login", !.at = now, !.version = authVersion]
        BY <3>1, <3>t DEF StartLogin
      <4>2. handler'[h].phase = "login" /\ handler'[h].at = now /\ handler'[h].version = authVersion
        BY <4>1 DEF Idle
      <4> QED BY <4>2, <2>1, <1>v DEF HandlerOK
    <3>2. CASE StartRefresh(h)
      <4>1. PICK k \in Known, rid \in RequestIds : handler'[h] =
              [Idle EXCEPT !.phase = "refresh", !.s = k[1], !.old = k[2], !.rid = rid, !.at = now,
                           !.seen = authVersion]
        BY <3>2, <3>t DEF StartRefresh
      <4>2. /\ handler'[h].phase = "refresh" /\ handler'[h].at = now /\ handler'[h].s = k[1]
            /\ handler'[h].seen = authVersion
        BY <4>1 DEF Idle
      <4>3. k[1] \in created
        BY DEF Known, TypeOK
      <4> QED BY <4>2, <4>3, <2>1, <1>v DEF HandlerOK
    <3>3. CASE Rotate(h)
      <4>1. handler[h].old + 1 \in Secrets /\ handler[h].s \in created
        BY <3>3, Request DEF Rotate, Secrets
      <4>2. /\ handler'[h].phase = "rotated" /\ handler'[h].s = handler[h].s
            /\ handler'[h].seen = handler[h].seen
        BY <3>3, <4>1, RotatedHandler DEF Rotate
      <4>3. handler[h].seen <= authVersion
        BY <3>3 DEF Rotate, HandlerInv, HandlerOK
      <4> QED BY <2>1, <4>1, <4>2, <4>3 DEF HandlerOK
    <3>4. CASE Recover(h)
      <4>1. \A k \in Recoverable(h) : k.next \in Secrets
        BY DEF Recoverable, ShapeInv, Recovery
      <4>2. /\ handler'[h].phase = "rotated" /\ handler'[h].s = handler[h].s
            /\ handler'[h].seen = handler[h].seen
        BY <3>4, <4>1, RotatedHandler DEF Recover
      <4>3. handler[h].s \in created /\ handler[h].seen <= authVersion
        BY <3>4, Request DEF Recover, HandlerInv, HandlerOK
      <4> QED BY <2>1, <4>2, <4>3 DEF HandlerOK
    <3>5. CASE RejectVersion(h)
      <4>1. handler'[h] = [handler[h] EXCEPT !.phase = "revoke"] /\ handler[h].s \in created
        BY <3>5, <3>t, Request DEF RejectVersion
      <4>2. handler'[h].phase = "revoke" /\ handler'[h].s = handler[h].s
        BY <4>1, <1>t DEF Handler
      <4> QED BY <2>1, <4>1, <4>2 DEF HandlerOK
    <3>8. CASE AcceptVersion(h)
      <4>1. handler'[h] = [handler[h] EXCEPT !.phase = "accepted"] /\ handler[h].s \in created
        BY <3>8, <3>t, Request DEF AcceptVersion
      <4>2. /\ handler'[h].phase = "accepted" /\ handler'[h].s = handler[h].s
            /\ handler'[h].seen = handler[h].seen /\ handler'[h].version = handler[h].version
        BY <4>1, <1>t DEF Handler
      <4>3. handler[h].seen <= authVersion /\ handler[h].version = authVersion
        BY <3>8 DEF AcceptVersion, HandlerInv, HandlerOK
      <4> QED BY <2>1, <4>1, <4>2, <4>3 DEF HandlerOK
    <3>6. CASE StartChange(h)
      <4>1. PICK new \in Passwords : handler'[h] =
              [Idle EXCEPT !.phase = "change", !.version = authVersion, !.cur = password, !.new = new]
        BY <3>6, <3>t DEF StartChange
      <4>2. /\ handler'[h].phase = "change" /\ handler'[h].version = authVersion
            /\ handler'[h].cur = password /\ handler'[h].new = new
        BY <4>1 DEF Idle
      <4> QED BY <2>1, <4>2, <1>v DEF HandlerOK
    <3>7. CASE Done(h)
      BY <3>7, <3>t, <1>i DEF Done, Idle
    <3> QED BY <1>4, <3>1, <3>2, <3>3, <3>4, <3>5, <3>6, <3>7, <3>8
            DEF HandlerNext, IssuePair, EndFamily, RefuseRefresh, AnswerRefresh, RevokeRejected, HandlerFails
  <2> QED BY <1>k, <2>1, <2>2, <2>3 DEF HandlerInv
<1> QED BY <1>1, <1>2, <1>3, <1>4 DEF Next

\* Lifetimes, markers and logouts.
FamilyInv == LiveInv /\ MarkerInv /\ LogoutInv /\ AbsoluteLifetime

LEMMA FamilyStep ==
  ASSUME TypeOK, ShapeInv, HandlerInv, FamilyInv, Next
  PROVE  FamilyInv'
<1> USE DEF FamilyInv
<1>t. /\ session \in [Sessions -> Session] /\ now \in Nat
      /\ \A s \in Sessions : /\ session[s].until \in Nat /\ session[s].absolute \in Nat
                             /\ session[s].secret \in Nat
      /\ NoSession.until = 0 /\ NoSession.absolute = 0
      /\ \A u \in used : u.until \in Nat
  BY DEF TypeOK, Session, Secrets, NoSession, ShapeInv, Marker
<1>k. ASSUME UNCHANGED <<now, created, session, used, loggedOut>> PROVE FamilyInv'
  BY <1>k DEF LiveInv, MarkerInv, LogoutInv, AbsoluteLifetime, Alive
<1>1. CASE Tick
  <2>1. /\ now' = now + 1 /\ UNCHANGED <<created, loggedOut>>
        /\ \A s \in Sessions : session'[s] = IF session[s].until > now + 1 THEN session[s] ELSE NoSession
        /\ used' = {u \in used : u.until > now + 1}
    BY <1>1 DEF Tick
  <2>2. LiveInv' /\ LogoutInv'
    BY <1>t, <2>1 DEF LiveInv, LogoutInv, Alive, TypeOK
  <2>3. AbsoluteLifetime'
    BY <1>t, <2>1 DEF AbsoluteLifetime, Alive
  <2>4. MarkerInv'
    <3> SUFFICES ASSUME NEW s \in Sessions, session'[s] # NoSession, now' < session'[s].absolute,
                        NEW n \in 0..(session'[s].secret - 1)
                 PROVE  \E u \in used' : u.s = s /\ u.secret = n /\ u.until >= session'[s].absolute
      BY DEF MarkerInv
    <3>1. session'[s] = session[s] /\ now < session[s].absolute
      BY <1>t, <2>1
    <3>2. PICK u \in used : u.s = s /\ u.secret = n /\ u.until >= session[s].absolute
      BY <3>1 DEF MarkerInv
    <3>3. u \in used'
      BY <1>t, <2>1, <3>1, <3>2
    <3> QED BY <3>1, <3>2, <3>3
  <2> QED BY <2>2, <2>3, <2>4
<1>2. ASSUME NEW h \in Handlers, IssuePair(h) PROVE FamilyInv'
  <2> DEFINE q == handler[h]
             fam == [secret |-> 0, version |-> q.version, absolute |-> q.at + AbsoluteTTL,
                     until |-> now + Least(IdleTTL, AbsoluteTTL)]
  <2>1. PICK s \in Sessions \ created :
          /\ created' = created \cup {s}
          /\ session' = [session EXCEPT ![s] = fam]
    BY <1>2 DEF IssuePair
  <2>2. UNCHANGED <<now, used, loggedOut>>
    BY <1>2 DEF IssuePair
  <2>3. q.at \in Nat /\ q.at <= now /\ now <= q.at + MaxLag
    BY <1>2, Request DEF IssuePair, HandlerInv, HandlerOK, Handler
  <2>4. /\ fam.secret = 0 /\ fam.until > now /\ fam.until <= fam.absolute + MaxLag
    BY <2>3, <1>t DEF Least
  <2>5. session'[s] = fam /\ \A x \in Sessions : x # s => session'[x] = session[x]
    BY <2>1, <1>t
  <2> HIDE DEF fam
  <2>6. LiveInv' /\ LogoutInv' /\ AbsoluteLifetime'
    BY <2>1, <2>2, <2>4, <2>5 DEF LiveInv, LogoutInv, AbsoluteLifetime, Alive
  <2>7. MarkerInv'
    BY <2>2, <2>4, <2>5 DEF MarkerInv
  <2> QED BY <2>6, <2>7
<1>3. ASSUME NEW h \in Handlers, Rotate(h) PROVE FamilyInv'
  <2> DEFINE q == handler[h]
             o == session[q.s]
             n == session'[q.s]
  <2>1. /\ o.secret = q.old /\ n.secret = q.old + 1 /\ n.absolute = o.absolute
        /\ n.until = now + SessionTTL(h)
        /\ \A s \in Sessions : s # q.s => session'[s] = session[s]
        /\ SessionTTL(h) \in Nat \ {0} /\ SessionTTL(h) <= o.absolute - q.at
        /\ MarkerTTL(h) = o.absolute - q.at
    BY <1>3, RotateFamily
  <2>2. q.s \in Sessions /\ q.at \in Nat /\ q.at <= now /\ now <= q.at + MaxLag /\ q.old \in Nat
    BY <1>3, Request DEF Rotate, HandlerInv, HandlerOK, Handler
  <2>3. /\ used' = used \cup {[s |-> q.s, secret |-> q.old, until |-> now + MarkerTTL(h)]}
        /\ UNCHANGED <<now, created, loggedOut>>
        /\ o # NoSession
    BY <1>3, <2>2, <1>t DEF Rotate, Alive
  <2> HIDE DEF q
  <2>4. LiveInv' /\ AbsoluteLifetime'
    BY <1>t, <2>1, <2>2, <2>3 DEF LiveInv, AbsoluteLifetime, Alive
  <2>5. LogoutInv'
    BY <2>1, <2>2, <2>3 DEF LogoutInv, TypeOK
  <2>6. MarkerInv'
    <3> SUFFICES ASSUME NEW s \in Sessions, session'[s] # NoSession, now' < session'[s].absolute,
                        NEW i \in 0..(session'[s].secret - 1)
                 PROVE  \E u \in used' : u.s = s /\ u.secret = i /\ u.until >= session'[s].absolute
      BY DEF MarkerInv
    <3>1. CASE s = q.s /\ i = q.old
      <4> DEFINE m == [s |-> q.s, secret |-> q.old, until |-> now + MarkerTTL(h)]
      <4>1. m \in used' /\ m.s = s /\ m.secret = i /\ m.until = now + MarkerTTL(h)
        BY <2>3, <3>1
      <4>2. m.until >= session'[s].absolute
        BY <1>t, <2>1, <2>2, <3>1, <4>1
      <4> QED BY <4>1, <4>2
    <3>2. CASE ~(s = q.s /\ i = q.old)
      <4>1. /\ session[s] # NoSession /\ session'[s].absolute = session[s].absolute
            /\ i \in 0..(session[s].secret - 1)
        BY <1>t, <2>1, <2>2, <2>3, <3>2
      <4>2. PICK u \in used : u.s = s /\ u.secret = i /\ u.until >= session[s].absolute
        BY <2>3, <4>1 DEF MarkerInv
      <4> QED BY <2>3, <4>1, <4>2
    <3> QED BY <3>1, <3>2
  <2> QED BY <2>4, <2>5, <2>6
<1>4. ASSUME NEW s \in Sessions, Ends(s), UNCHANGED <<now, created, used>>,
             \A x \in loggedOut' \ loggedOut : x = s /\ s \in created /\ session'[s] = NoSession
      PROVE  FamilyInv'
  <2>1. \A x \in Sessions : session'[x] \in {NoSession, session[x]}
    BY <1>4, <1>t DEF Ends
  <2>2. LiveInv' /\ AbsoluteLifetime' /\ MarkerInv'
    BY <1>4, <1>t, <2>1 DEF LiveInv, AbsoluteLifetime, MarkerInv, Alive
  <2>3. LogoutInv'
    BY <1>4, <2>1 DEF LogoutInv, TypeOK
  <2> QED BY <2>2, <2>3
<1>5. ASSUME NEW h \in Handlers, EndFamily(h) \/ RevokeRejected(h) PROVE FamilyInv'
  <2>1. Ends(handler[h].s) /\ handler[h].s \in Sessions
    BY <1>5, Request DEF EndFamily, RevokeRejected, Revoke, Ends
  <2>2. UNCHANGED <<now, created, used, loggedOut>>
    BY <1>5 DEF EndFamily, RevokeRejected
  <2> QED BY <1>4, <2>1, <2>2
<1>6. ASSUME NEW s \in Sessions, NEW n, Logout(s, n) PROVE FamilyInv'
  <2>1. s \in created
    BY <1>6 DEF Logout, Known, TypeOK
  <2>2. session'[s] = NoSession
    <3>1. CASE Alive(s)
      BY <1>6, <3>1, <1>t DEF Logout, Revoke
    <3>2. CASE ~Alive(s)
      BY <1>6, <3>2 DEF Logout, Revoke, Revocable, LiveInv
    <3> QED BY <3>1, <3>2
  <2>3. Ends(s) /\ UNCHANGED <<now, created, used>> /\ loggedOut' = loggedOut \cup {s}
    BY <1>6 DEF Logout, Revoke, Ends
  <2> QED BY <1>4, <2>1, <2>2, <2>3
<1>7. ASSUME NEW h \in Handlers, HandlerNext(h), ~IssuePair(h), ~Rotate(h), ~EndFamily(h), ~RevokeRejected(h)
      PROVE  UNCHANGED <<now, created, session, used, loggedOut>>
  BY <1>7 DEF HandlerNext, StartLogin, StartRefresh, Recover, RefuseRefresh, AnswerRefresh, AcceptVersion, RejectVersion,
              HandlerFails, StartChange, CommitChange
<1> QED BY <1>k, <1>1, <1>2, <1>3, <1>5, <1>6, <1>7 DEF Next

-----------------------------------------------------------------------------
(* One successor per secret.                                               *)

\* Every grant names a session and two secrets.
LEMMA GrantShape ==
  ASSUME ShapeInv, \A h \in Handlers : Granted(handler[h]) => handler[h].s \in Sessions,
         NEW g \in Grants
  PROVE  g[1] \in Sessions /\ g[2] \in Nat
BY DEF Grants, Granted, ShapeInv, Answer, Recovery, Handler, Secrets

\* Without a new grant, families that only move on or end keep the chain.
LEMMA GrantKept ==
  ASSUME TypeOK, ShapeInv, HandlerInv, GrantInv, Grants' \subseteq Grants, created \subseteq created',
         \A s \in created : session'[s] # NoSession =>
           session[s] # NoSession /\ session[s].secret \in Nat /\ session'[s].secret \in Nat
           /\ session[s].secret <= session'[s].secret
  PROVE  GrantInv'
<1>1. \A h \in Handlers : Granted(handler[h]) => handler[h].s \in Sessions
  BY Request DEF Granted
<1>2. \A g \in Grants : g[2] \in Nat
  BY <1>1, GrantShape
<1>3. \A g \in Grants' : /\ g[1] \in created'
                         /\ session'[g[1]] # NoSession => g[2] < session'[g[1]].secret
  BY <1>2 DEF GrantInv
<1>4. \A f, g \in Grants' : f[1] = g[1] /\ f[2] = g[2] => f = g
  BY DEF GrantInv
<1> QED BY <1>3, <1>4 DEF GrantInv

LEMMA GrantStep ==
  ASSUME TypeOK, TypeOK', ShapeInv, HandlerInv, GrantInv, Next
  PROVE  GrantInv'
<1>t. /\ \A s \in Sessions : session[s].secret \in Nat /\ session'[s].secret \in Nat
      /\ created \subseteq Sessions
      /\ handler \in [Handlers -> Handler]
  BY DEF TypeOK, Session, Secrets, ShapeInv
<1>s. ASSUME Grants' \subseteq Grants, created \subseteq created',
             \A s \in created : session'[s] \in {NoSession, session[s]}
      PROVE  GrantInv'
  BY <1>s, <1>t, GrantKept
<1>e. ASSUME NEW s, Ends(s) PROVE \A x \in Sessions : session'[x] \in {NoSession, session[x]}
  BY <1>e DEF Ends, TypeOK
<1>g. ASSUME recovery' \subseteq recovery,
             \A a \in answers' \ answers : a.kind # "refresh",
             \A x \in Handlers : handler'[x] = handler[x] \/ ~Granted(handler'[x])
      PROVE  Grants' \subseteq Grants
  BY <1>g DEF Grants
<1>1. CASE Tick
  <2>1. Grants' \subseteq Grants
    BY <1>1, <1>g DEF Tick
  <2>2. created \subseteq created' /\ \A s \in created : session'[s] \in {NoSession, session[s]}
    BY <1>1, <1>t DEF Tick
  <2> QED BY <1>s, <2>1, <2>2
<1>2. ASSUME NEW s, NEW n, Logout(s, n) PROVE GrantInv'
  <2>1. Grants' \subseteq Grants
    BY <1>2, <1>g DEF Logout
  <2>2. created' = created /\ Ends(s)
    BY <1>2 DEF Logout, Revoke, Ends
  <2> QED BY <1>s, <1>e, <1>t, <2>1, <2>2
<1>3. ASSUME NEW h \in Handlers, HandlerNext(h) PROVE GrantInv'
  <2> DEFINE q == handler[h]
  <2>h. \A x \in Handlers : x # h => handler'[x] = handler[x]
    BY <1>3, HandlerShape
  <2>d. ASSUME Done(h) PROVE handler'[h].phase = "idle"
    BY <2>d, <1>t DEF Done, Idle
  <2>1. CASE Rotate(h)
    <3> DEFINE new == <<q.s, q.old, q.rid, q.old + 1>>
    <3>1. q.s \in Sessions /\ q.s \in created /\ q.old \in Nat /\ q.old + 1 \in Secrets /\ q.phase = "refresh"
      BY <2>1, Request DEF Rotate, Secrets
    <3>2. /\ handler'[h].s = q.s /\ handler'[h].old = q.old /\ handler'[h].rid = q.rid
          /\ handler'[h].next = q.old + 1
      BY <2>1, <3>1, RotatedHandler DEF Rotate
    <3>3. Grants' \subseteq Grants \cup {new}
      <4>1. answers' = answers
        BY <2>1 DEF Rotate
      <4>2. \A k \in recovery' : k \in recovery \/ <<k.s, k.old, k.rid, k.next>> = new
        BY <2>1 DEF Rotate
      <4>3. ASSUME NEW x \in Handlers, Granted(handler'[x])
            PROVE  <<handler'[x].s, handler'[x].old, handler'[x].rid, handler'[x].next>> \in Grants \cup {new}
        <5>1. CASE x = h
          BY <3>2, <5>1
        <5>2. CASE x # h
          BY <2>h, <4>3, <5>2 DEF Grants
        <5> QED BY <5>1, <5>2
      <4>4. ASSUME NEW a \in answers', a.kind = "refresh" PROVE <<a.s, a.old, a.rid, a.next>> \in Grants
        BY <4>1, <4>4 DEF Grants
      <4>5. ASSUME NEW k \in recovery' PROVE <<k.s, k.old, k.rid, k.next>> \in Grants \cup {new}
        BY <4>2 DEF Grants
      <4> HIDE DEF new
      <4>6. ASSUME NEW g \in Grants' PROVE g \in Grants \cup {new}
        <5>1. \/ \E a \in answers' : a.kind = "refresh" /\ g = <<a.s, a.old, a.rid, a.next>>
              \/ \E k \in recovery' : g = <<k.s, k.old, k.rid, k.next>>
              \/ \E x \in Handlers : /\ Granted(handler'[x])
                                     /\ g = <<handler'[x].s, handler'[x].old, handler'[x].rid, handler'[x].next>>
          BY DEF Grants
        <5> QED BY <4>3, <4>4, <4>5, <5>1
      <4> QED BY <4>6
    <3>4. /\ session[q.s].secret = q.old /\ session'[q.s].secret = q.old + 1
          /\ \A s \in Sessions : s # q.s => session'[s] = session[s]
          /\ created' = created
      BY <2>1, RotateFamily DEF Rotate
    <3>5. session[q.s] # NoSession
      <4>1. session[q.s].until > now /\ now \in Nat
        <5>1. session[q.s].until > now
          BY <2>1 DEF Rotate, Alive
        <5>2. now \in Nat
          BY DEF TypeOK
        <5> QED BY <5>1, <5>2
      <4>2. NoSession.until = 0
        BY DEF NoSession
      <4> QED BY <4>1, <4>2
    <3>6. \A g \in Grants : g[1] \in Sessions /\ g[2] \in Nat
      BY Request, GrantShape DEF Granted
    <3>7. \A g \in Grants : ~(g[1] = q.s /\ g[2] = q.old)
      BY <3>1, <3>4, <3>5, <3>6 DEF GrantInv
    <3> HIDE DEF q
    <3>8. \A g \in Grants' : /\ g[1] \in created'
                             /\ session'[g[1]] # NoSession => g[2] < session'[g[1]].secret
      <4>1. ASSUME NEW g \in Grants
            PROVE  g[1] \in created' /\ (session'[g[1]] # NoSession => g[2] < session'[g[1]].secret)
        <5>1. CASE g[1] = q.s
          BY <3>1, <3>4, <3>5, <3>6, <5>1 DEF GrantInv
        <5>2. CASE g[1] # q.s
          BY <3>4, <3>6, <5>2 DEF GrantInv
        <5> QED BY <5>1, <5>2
      <4>2. new[1] \in created' /\ new[2] < session'[new[1]].secret
        BY <3>1, <3>4
      <4> QED BY <3>3, <4>1, <4>2
    <3>9. \A f, g \in Grants' : f[1] = g[1] /\ f[2] = g[2] => f = g
      <4>1. new[1] = q.s /\ new[2] = q.old
        OBVIOUS
      <4> HIDE DEF new
      <4> QED BY <3>3, <3>7, <4>1 DEF GrantInv
    <3> QED BY <3>8, <3>9 DEF GrantInv
  <2>2. CASE Recover(h)
    <3>1. PICK k \in Recoverable(h) :
            handler' = [handler EXCEPT ![h].phase = "rotated", ![h].next = k.next, ![h].version = session[q.s].version]
      BY <2>2 DEF Recover
    <3>2. k \in recovery /\ k.s = q.s /\ k.old = q.old /\ k.rid = q.rid /\ k.next \in Secrets
      BY DEF Recoverable, ShapeInv, Recovery
    <3>3. q.phase = "refresh" /\ UNCHANGED <<created, session, recovery, answers>>
      BY <2>2 DEF Recover
    <3>4. handler'[h].s = q.s /\ handler'[h].old = q.old /\ handler'[h].rid = q.rid /\ handler'[h].next = k.next
      BY <3>1, <3>2, <3>3, RotatedHandler
    <3>5. <<handler'[h].s, handler'[h].old, handler'[h].rid, handler'[h].next>> \in Grants
      BY <3>2, <3>4 DEF Grants
    <3>6. ASSUME NEW x \in Handlers, Granted(handler'[x])
          PROVE  <<handler'[x].s, handler'[x].old, handler'[x].rid, handler'[x].next>> \in Grants
      BY <2>h, <3>5, <3>6 DEF Grants
    <3>7. Grants' \subseteq Grants
      BY <3>3, <3>6 DEF Grants
    <3> QED BY <1>s, <3>3, <3>7
  <2>3. CASE AnswerRefresh(h)
    <3> DEFINE ans == [kind |-> "refresh", s |-> q.s, old |-> q.old, rid |-> q.rid, next |-> q.next,
         version |-> q.version]
    <3>1. /\ answers' = answers \cup {ans} /\ q.phase = "accepted"
          /\ UNCHANGED <<created, session, recovery>>
      BY <2>3 DEF AnswerRefresh
    <3>2. handler'[h].phase = "idle"
      BY <2>3, <2>d DEF AnswerRefresh
    <3>3. <<ans.s, ans.old, ans.rid, ans.next>> \in Grants
      BY <3>1 DEF Grants, Granted
    <3>4. ASSUME NEW x \in Handlers, Granted(handler'[x])
          PROVE  <<handler'[x].s, handler'[x].old, handler'[x].rid, handler'[x].next>> \in Grants
      BY <2>h, <3>2, <3>4 DEF Grants, Granted
    <3> HIDE DEF ans
    <3>5. ASSUME NEW a \in answers', a.kind = "refresh" PROVE <<a.s, a.old, a.rid, a.next>> \in Grants
      BY <3>1, <3>3, <3>5 DEF Grants
    <3>6. Grants' \subseteq Grants
      BY <3>1, <3>4, <3>5 DEF Grants
    <3> QED BY <1>s, <3>1, <3>6
  <2>4. CASE IssuePair(h)
    <3>1. PICK s \in Sessions \ created :
            /\ created' = created \cup {s}
            /\ \A x \in Sessions : x # s => session'[x] = session[x]
            /\ answers' = answers \cup {[kind |-> "login", s |-> s, old |-> 0, rid |-> NoRequest, next |-> 0,
                                         version |-> q.version]}
      BY <2>4 DEF IssuePair, TypeOK
    <3>2. handler'[h].phase = "idle" /\ recovery' = recovery
      BY <2>4, <2>d DEF IssuePair
    <3>3. Grants' \subseteq Grants
      BY <1>g, <2>h, <3>1, <3>2 DEF Granted
    <3> QED BY <1>s, <1>t, <3>1, <3>3
  <2>5. CASE EndFamily(h) \/ RevokeRejected(h)
    <3>1. Ends(q.s) /\ Done(h) /\ UNCHANGED <<created, recovery, answers>>
      BY <2>5 DEF EndFamily, RevokeRejected, Revoke, Ends
    <3>2. Grants' \subseteq Grants
      BY <1>g, <2>d, <2>h, <3>1 DEF Granted
    <3> QED BY <1>s, <1>e, <1>t, <3>1, <3>2
  <2>7. CASE AcceptVersion(h)
    <3>1. UNCHANGED <<created, session, recovery, answers>> /\ Granted(q)
      BY <2>7 DEF AcceptVersion, Granted
    <3>2. /\ handler'[h].s = q.s /\ handler'[h].old = q.old /\ handler'[h].rid = q.rid
          /\ handler'[h].next = q.next
      BY <2>7, <1>t DEF AcceptVersion, Handler
    <3>3. <<handler'[h].s, handler'[h].old, handler'[h].rid, handler'[h].next>> \in Grants
      BY <3>1, <3>2 DEF Grants
    <3>4. ASSUME NEW x \in Handlers, Granted(handler'[x])
          PROVE  <<handler'[x].s, handler'[x].old, handler'[x].rid, handler'[x].next>> \in Grants
      BY <2>h, <3>3, <3>4 DEF Grants
    <3>5. Grants' \subseteq Grants
      BY <3>1, <3>4 DEF Grants
    <3> QED BY <1>s, <3>1, <3>5
  <2>6. CASE ~(Rotate(h) \/ Recover(h) \/ AcceptVersion(h) \/ AnswerRefresh(h) \/ IssuePair(h) \/ EndFamily(h)
               \/ RevokeRejected(h))
    <3>1. UNCHANGED <<created, session, recovery, answers>>
      BY <1>3, <2>6 DEF HandlerNext, StartLogin, StartRefresh, RefuseRefresh, RejectVersion,
                        HandlerFails, StartChange, CommitChange
    <3>2. ~Granted(handler'[h])
      <4>1. CASE StartLogin(h) \/ StartChange(h)
        BY <4>1, <1>t DEF StartLogin, StartChange, Idle, Granted
      <4>2. CASE StartRefresh(h)
        BY <4>2, <1>t DEF StartRefresh, Idle, Granted
      <4>3. CASE RejectVersion(h)
        BY <4>3, <1>t DEF RejectVersion, Handler, Granted
      <4>4. CASE Done(h)
        BY <4>4, <2>d DEF Granted
      <4> QED BY <1>3, <2>6, <4>1, <4>2, <4>3, <4>4 DEF HandlerNext, RefuseRefresh, HandlerFails, CommitChange
    <3> QED BY <1>s, <1>g, <2>h, <3>1, <3>2
  <2> QED BY <2>1, <2>2, <2>3, <2>4, <2>5, <2>6, <2>7
<1> QED BY <1>1, <1>2, <1>3 DEF Next

-----------------------------------------------------------------------------
(* The version of a family.                                                *)

\* A step of handler h after which nothing but h may hold a new version, and h
\* only that of its family.
LEMMA VersionKept ==
  ASSUME TypeOK, VersionInv, UNCHANGED <<answers, created>>, NEW h \in Handlers,
         \A s \in created : session'[s] # NoSession =>
           session[s] # NoSession /\ session'[s].version = session[s].version,
         \A x \in Handlers : x # h => handler'[x] = handler[x],
         Granted(handler'[h]) =>
           /\ handler'[h].s = handler[h].s
           /\ \/ Granted(handler[h]) /\ handler'[h].version = handler[h].version
              \/ session[handler[h].s] # NoSession /\ handler'[h].version = session[handler[h].s].version
  PROVE  VersionInv'
<1>1. \A a \in answers : a.s \in created
  BY DEF TypeOK
<1>2. ASSUME NEW a \in answers, session'[a.s] # NoSession PROVE session'[a.s].version = a.version
  BY <1>1, <1>2 DEF VersionInv
<1>3. ASSUME NEW a \in answers, NEW x \in Handlers, Granted(handler'[x]), handler'[x].s = a.s
      PROVE  handler'[x].version = a.version
  <2>1. CASE x # h
    BY <1>3, <2>1 DEF VersionInv
  <2>2. CASE x = h
    BY <1>3, <2>2 DEF VersionInv
  <2> QED BY <2>1, <2>2
<1>4. \A a, b \in answers : a.s = b.s => a.version = b.version
  BY DEF VersionInv
<1>5. \A s \in created' : \E a \in answers' : a.s = s
  BY DEF VersionInv
<1> QED BY <1>2, <1>3, <1>4, <1>5 DEF VersionInv

LEMMA VersionStep ==
  ASSUME TypeOK, ShapeInv, HandlerInv, VersionInv, Next
  PROVE  VersionInv'
<1>t. /\ session \in [Sessions -> Session] /\ created \subseteq Sessions /\ now \in Nat
      /\ handler \in [Handlers -> Handler]
      /\ \A a \in answers : a.s \in created
      /\ NoSession.until = 0
  BY DEF TypeOK, ShapeInv, NoSession
<1>e. ASSUME NEW s, Ends(s) PROVE \A x \in Sessions : session'[x] \in {NoSession, session[x]}
  BY <1>e, <1>t DEF Ends
<1>1. CASE Tick
  <2>1. UNCHANGED <<answers, handler, created>> /\ \A s \in created : session'[s] \in {NoSession, session[s]}
    BY <1>1, <1>t DEF Tick
  <2> QED BY <1>t, <2>1 DEF VersionInv, Granted
<1>2. ASSUME NEW s, NEW n, Logout(s, n) PROVE VersionInv'
  <2>1. UNCHANGED <<answers, handler, created>> /\ Ends(s)
    BY <1>2 DEF Logout, Revoke, Ends
  <2>2. \A x \in created : session'[x] \in {NoSession, session[x]}
    BY <1>e, <1>t, <2>1
  <2> QED BY <1>t, <2>1, <2>2 DEF VersionInv, Granted
<1>3. ASSUME NEW h \in Handlers, HandlerNext(h) PROVE VersionInv'
  <2> DEFINE q == handler[h]
  <2>h. \A x \in Handlers : x # h => handler'[x] = handler[x]
    BY <1>3, HandlerShape
  <2>d. ASSUME Done(h) PROVE ~Granted(handler'[h])
    BY <2>d, <1>t DEF Done, Idle, Granted
  <2>s. ASSUME NEW s \in Sessions, s = q.s, Alive(s) PROVE session[s] # NoSession
    BY <2>s, <1>t DEF Alive, Session
  <2>1. CASE Rotate(h)
    <3>1. q.s \in Sessions /\ q.old + 1 \in Secrets /\ q.phase = "refresh" /\ Alive(q.s)
      BY <2>1, Request DEF Rotate, Secrets
    <3>2. handler'[h].s = q.s /\ handler'[h].version = session[q.s].version
      BY <2>1, <3>1, RotatedHandler DEF Rotate
    <3>3. session[q.s] # NoSession
      BY <2>s, <3>1
    <3>4. \A s \in created : session'[s] # NoSession =>
            session[s] # NoSession /\ session'[s].version = session[s].version
      BY <2>1, <1>t, <3>3, RotateFamily
    <3>5. UNCHANGED <<answers, created>>
      BY <2>1 DEF Rotate
    <3> QED BY <2>h, <3>2, <3>3, <3>4, <3>5, VersionKept
  <2>2. CASE Recover(h)
    <3>1. q.s \in Sessions /\ q.phase = "refresh" /\ Alive(q.s) /\ UNCHANGED <<session, answers, created>>
      BY <2>2, Request DEF Recover
    <3>2. \A k \in Recoverable(h) : k.next \in Secrets
      BY DEF Recoverable, ShapeInv, Recovery
    <3>3. handler'[h].s = q.s /\ handler'[h].version = session[q.s].version
      BY <2>2, <3>1, <3>2, RotatedHandler DEF Recover
    <3>4. session[q.s] # NoSession
      BY <2>s, <3>1
    <3> QED BY <2>h, <3>1, <3>3, <3>4, VersionKept
  <2>3. CASE AcceptVersion(h)
    <3>1. UNCHANGED <<session, answers, created>> /\ Granted(q)
      BY <2>3 DEF AcceptVersion, Granted
    <3>2. handler'[h].s = q.s /\ handler'[h].version = q.version
      BY <2>3, <1>t DEF AcceptVersion, Handler
    <3> QED BY <2>h, <3>1, <3>2, VersionKept
  <2>4. CASE AnswerRefresh(h)
    <3> DEFINE ans == [kind |-> "refresh", s |-> q.s, old |-> q.old, rid |-> q.rid, next |-> q.next,
                       version |-> q.version]
    <3>1. answers' = answers \cup {ans} /\ UNCHANGED session /\ Granted(q) /\ ~Granted(handler'[h])
      BY <2>4, <2>d DEF AnswerRefresh, Granted
    <3>2. ans.s = q.s /\ ans.version = q.version /\ q.s \in created /\ created' = created
      BY <2>4, Request DEF AnswerRefresh
    <3> HIDE DEF ans
    <3>3. PICK b \in answers : b.s = q.s
      BY <3>2 DEF VersionInv
    <3>4. b.version = q.version
      BY <3>1, <3>3 DEF VersionInv
    <3>5. ASSUME NEW a \in answers' PROVE \E c \in answers : c.s = a.s /\ c.version = a.version
      BY <3>1, <3>2, <3>3, <3>4
    <3>6. \A a, c \in answers' : a.s = c.s => a.version = c.version
      BY <3>5 DEF VersionInv
    <3>7. \A a \in answers' : session'[a.s] # NoSession => session'[a.s].version = a.version
      BY <3>1, <3>5 DEF VersionInv
    <3>8. \A a \in answers', x \in Handlers :
            Granted(handler'[x]) /\ handler'[x].s = a.s => handler'[x].version = a.version
      BY <2>h, <3>1, <3>5 DEF VersionInv
    <3>9. \A s \in created' : \E a \in answers' : a.s = s
      BY <3>1, <3>2 DEF VersionInv
    <3> QED BY <3>6, <3>7, <3>8, <3>9 DEF VersionInv
  <2>5. CASE IssuePair(h)
    <3> DEFINE ans(s) == [kind |-> "login", s |-> s, old |-> 0, rid |-> NoRequest, next |-> 0, version |-> q.version]
               fam == [secret |-> 0, version |-> q.version, absolute |-> q.at + AbsoluteTTL,
                       until |-> now + Least(IdleTTL, AbsoluteTTL)]
    <3>1. PICK s \in Sessions \ created :
            /\ created' = created \cup {s}
            /\ session' = [session EXCEPT ![s] = fam]
            /\ answers' = answers \cup {ans(s)}
      BY <2>5 DEF IssuePair
    <3>2. ans(s).s = s /\ ans(s).version = q.version /\ fam.version = q.version /\ ~Granted(handler'[h])
      BY <2>5, <2>d DEF IssuePair
    <3> HIDE DEF ans, fam
    <3>3. session'[s].version = q.version /\ \A x \in created : session'[x] = session[x]
      BY <1>t, <3>1, <3>2
    <3>4. ASSUME NEW x \in Handlers, Granted(handler'[x]) PROVE handler'[x] = handler[x] /\ handler'[x].s \in created
      <4>1. x # h
        BY <3>2, <3>4
      <4>2. handler'[x] = handler[x]
        BY <2>h, <4>1
      <4> QED BY <3>4, <4>2, Request DEF Granted
    <3>5. \A a \in answers' : (a \in answers /\ a.s \in created) \/ a = ans(s)
      BY <1>t, <3>1
    <3>6. \A a, c \in answers' : a.s = c.s => a.version = c.version
      BY <3>1, <3>2, <3>5 DEF VersionInv
    <3>7. \A a \in answers' : session'[a.s] # NoSession => session'[a.s].version = a.version
      BY <3>2, <3>3, <3>5 DEF VersionInv
    <3>8. \A a \in answers', x \in Handlers :
            Granted(handler'[x]) /\ handler'[x].s = a.s => handler'[x].version = a.version
      BY <3>1, <3>2, <3>4, <3>5 DEF VersionInv
    <3>9. \A x \in created' : \E a \in answers' : a.s = x
      BY <3>1, <3>2 DEF VersionInv
    <3> QED BY <3>6, <3>7, <3>8, <3>9 DEF VersionInv
  <2>6. CASE EndFamily(h) \/ RevokeRejected(h)
    <3>1. Ends(q.s) /\ Done(h) /\ UNCHANGED <<answers, created>>
      BY <2>6 DEF EndFamily, RevokeRejected, Revoke, Ends
    <3> QED BY <1>e, <1>t, <2>d, <2>h, <3>1, VersionKept
  <2>7. CASE ~(Rotate(h) \/ Recover(h) \/ AcceptVersion(h) \/ AnswerRefresh(h) \/ IssuePair(h) \/ EndFamily(h)
               \/ RevokeRejected(h))
    <3>1. UNCHANGED <<session, answers, created>>
      BY <1>3, <2>7 DEF HandlerNext, StartLogin, StartRefresh, RefuseRefresh, RejectVersion,
                        HandlerFails, StartChange, CommitChange
    <3>2. ~Granted(handler'[h])
      <4>1. CASE StartLogin(h) \/ StartChange(h)
        <5>1. CASE StartLogin(h)
          <6>1. handler'[h].phase = "login"
            BY <5>1, <1>t DEF StartLogin, Idle
          <6> QED BY <6>1 DEF Granted
        <5>2. CASE StartChange(h)
          <6>1. handler'[h].phase = "change"
            BY <5>2, <1>t DEF StartChange, Idle
          <6> QED BY <6>1 DEF Granted
        <5> QED BY <4>1, <5>1, <5>2
      <4>2. CASE StartRefresh(h)
        BY <4>2, <1>t DEF StartRefresh, Idle, Granted
      <4>3. CASE RejectVersion(h)
        BY <4>3, <1>t DEF RejectVersion, Handler, Granted
      <4>4. CASE Done(h)
        BY <4>4, <2>d
      <4> QED BY <1>3, <2>7, <4>1, <4>2, <4>3, <4>4 DEF HandlerNext, RefuseRefresh, HandlerFails, CommitChange
    <3> QED BY <2>h, <3>1, <3>2, VersionKept
  <2> QED BY <2>1, <2>2, <2>3, <2>4, <2>5, <2>6, <2>7
<1> QED BY <1>1, <1>2, <1>3 DEF Next

-----------------------------------------------------------------------------
(* The theorems.                                                           *)

LEMMA InitInv == Init => IInv
<1> SUFFICES ASSUME Init PROVE IInv
  OBVIOUS
<1>1. NoSession \in Session /\ NoSession.until = 0 /\ Idle \in Handler /\ Idle.phase = "idle"
  BY DEF NoSession, Session, Secrets, Idle, Handler, RequestIds
<1>2. TypeOK /\ ShapeInv
  BY <1>1 DEF Init, TypeOK, ShapeInv
<1>3. HandlerInv
  BY <1>1 DEF Init, HandlerInv, HandlerOK
<1>4. LiveInv /\ MarkerInv /\ LogoutInv /\ AbsoluteLifetime
  BY <1>1 DEF Init, LiveInv, MarkerInv, LogoutInv, AbsoluteLifetime, Alive
<1>5. GrantInv
  <2>1. Grants = {}
    BY <1>1 DEF Init, Grants, Granted
  <2> QED BY <2>1 DEF GrantInv
<1>6. VersionInv
  BY DEF Init, VersionInv
<1> QED BY <1>2, <1>3, <1>4, <1>5, <1>6 DEF IInv

LEMMA NextInv == IInv /\ [Next]_vars => IInv'
<1> SUFFICES ASSUME IInv, [Next]_vars PROVE IInv'
  OBVIOUS
<1> USE DEF IInv
<1>1. CASE Next
  <2>1. ShapeInv'
    BY <1>1, ShapeStep
  <2>2. TypeOK'
    BY <1>1, <2>1, TypeStep
  <2>3. HandlerInv' /\ GrantInv'
    BY <1>1, <2>2, HandlerStep, GrantStep
  <2>4. FamilyInv'
    BY <1>1, FamilyStep DEF FamilyInv
  <2>5. VersionInv'
    BY <1>1, VersionStep
  <2> QED BY <2>1, <2>2, <2>3, <2>4, <2>5 DEF FamilyInv
<1>2. CASE UNCHANGED vars
  <2> USE <1>2 DEF vars
  <2>1. TypeOK' /\ ShapeInv' /\ HandlerInv'
    BY DEF TypeOK, ShapeInv, HandlerInv, HandlerOK
  <2>2. LiveInv' /\ MarkerInv' /\ LogoutInv' /\ AbsoluteLifetime'
    BY DEF LiveInv, MarkerInv, LogoutInv, AbsoluteLifetime, Alive
  <2>3. GrantInv'
    BY DEF GrantInv, Grants, Granted
  <2>4. VersionInv'
    BY DEF VersionInv, Granted
  <2> QED BY <2>1, <2>2, <2>3, <2>4
<1> QED BY <1>1, <1>2

\* Every reachable state satisfies the inductive invariant.
THEOREM Invariant == Spec => []IInv
<1>1. Init => IInv
  BY InitInv
<1>2. IInv /\ [Next]_vars => IInv'
  BY NextInv
<1> QED BY <1>1, <1>2, PTL DEF Spec

\* A family is one chain of secrets, whatever is repeated, delayed or raced: one
\* successor per secret, a marker for every spent secret, nothing after a
\* logout, and no life beyond the absolute deadline but for the handler's lag.
THEOREM FamiliesAreSafe == Spec => []FamilySafe
<1>1. IInv => FamilySafe
  <2> SUFFICES ASSUME IInv PROVE FamilySafe
    OBVIOUS
  <2> USE DEF IInv
  <2>1. SingleSuccessor
    <3> SUFFICES ASSUME NEW a \in answers, NEW b \in answers,
                        a.kind = "refresh", b.kind = "refresh", a.s = b.s, a.old = b.old
                 PROVE  a = b
      BY DEF SingleSuccessor
    <3> DEFINE f == <<a.s, a.old, a.rid, a.next>>
               g == <<b.s, b.old, b.rid, b.next>>
    <3>1. f \in Grants /\ g \in Grants
      BY DEF Grants
    <3>2. f = g
      BY <3>1 DEF GrantInv
    <3>3. a.rid = b.rid /\ a.next = b.next /\ a.version = b.version
      BY <3>2 DEF VersionInv
    <3>4. a \in Answer /\ b \in Answer
      BY DEF ShapeInv
    <3> QED BY <3>3, <3>4 DEF Answer
  <2>2. MarkersCoverFamily
    <3>1. \A s \in Sessions : Alive(s) => session[s] # NoSession
      BY DEF Alive, NoSession, TypeOK
    <3> QED BY <3>1 DEF MarkersCoverFamily, MarkerInv, Marked
  <2>3. LoggedOutStaysOut
    BY DEF LoggedOutStaysOut, LogoutInv, Alive, NoSession, TypeOK
  <2> QED BY <2>1, <2>2, <2>3 DEF FamilySafe
<1> QED BY Invariant, <1>1, PTL

\* No refresh that arrives after a password change is answered from a family
\* whose login came before it, however the rotation, the look at the user row,
\* the answer and the change interleave.  The version travels from the login
\* through the family and its rotations to the handler (VersionInv); the look at
\* the row ties it to a version no older than the request (HandlerInv).
THEOREM ChangesCutOff == Spec => ChangeCutsOffFamilies
<1> DEFINE A == \A h \in Handlers, a \in answers :
                  AnswerRefresh(h) /\ a.kind = "login" /\ a.s = handler[h].s => a.version >= handler[h].seen
<1>1. IInv => A
  <2> SUFFICES ASSUME IInv, NEW h \in Handlers, NEW a \in answers, AnswerRefresh(h), a.s = handler[h].s
               PROVE  a.version >= handler[h].seen
    OBVIOUS
  <2>1. handler[h].phase = "accepted"
    BY DEF AnswerRefresh
  <2>2. handler[h].version = a.version
    BY <2>1 DEF IInv, VersionInv, Granted
  <2>3. handler[h].seen <= handler[h].version
    BY <2>1 DEF IInv, HandlerInv, HandlerOK
  <2>4. handler[h].seen \in Nat /\ handler[h].version \in Nat
    BY Request DEF IInv, Handler
  <2> QED BY <2>2, <2>3, <2>4
<1> QED BY Invariant, <1>1, PTL DEF Spec, ChangeCutsOffFamilies

\* The password changes only at the hands of a request that proved the password
\* it replaces, and every change raises the version.
THEOREM ChangesAuthorised == Spec => ChangesAreAuthorised
<1> DEFINE A == <<password', authVersion'>> # <<password, authVersion>> =>
                  /\ authVersion' = authVersion + 1
                  /\ \E h \in Handlers : handler[h].cur = password /\ handler'[h].phase = "idle"
<1>1. IInv /\ [Next]_vars => [A]_vars
  <2> SUFFICES ASSUME IInv, Next PROVE A
    OBVIOUS
  <2>1. ASSUME NEW h \in Handlers, CommitChange(h) PROVE A
    <3>1. handler[h].cur = password
      BY <2>1 DEF CommitChange, IInv, HandlerInv, HandlerOK
    <3>2. handler'[h].phase = "idle"
      BY <2>1 DEF CommitChange, Done, Idle, IInv, ShapeInv
    <3> QED BY <2>1, <3>1, <3>2 DEF CommitChange
  <2>2. ASSUME NEW h \in Handlers, HandlerNext(h), ~CommitChange(h) PROVE UNCHANGED <<password, authVersion>>
    BY <2>2 DEF HandlerNext, StartLogin, IssuePair, StartRefresh, Rotate, Recover, EndFamily, RefuseRefresh,
                AnswerRefresh, AcceptVersion, RejectVersion, RevokeRejected, HandlerFails, StartChange
  <2> QED BY <2>1, <2>2 DEF Next, Tick, Logout
<1> QED BY Invariant, <1>1, PTL DEF Spec, ChangesAreAuthorised

=============================================================================

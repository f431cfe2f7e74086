----------------------------- MODULE Translation -----------------------------
(***************************************************************************)
(* Translating a Post: a Redis cache in front of one provider call that    *)
(* all requests of the process for the same text share, admitted to a few  *)
(* slots behind a short queue, while callers go away, the time of the work *)
(* runs out and the service is closed.                                     *)
(*                                                                         *)
(*   translation/service.go, translation/cache.go, translation/client.go,  *)
(*   controllers/post_translation_controller.go                            *)
(*                                                                         *)
(* A flight is the function that singleflight runs for a key.  Requests    *)
(* refused before the cache is asked change nothing and are left out.      *)
(***************************************************************************)
EXTENDS Integers, FiniteSets

CONSTANTS
  Callers,       \* 1..n: requests
  Texts,         \* 1..n: cache keys, of Post, content, languages, model and prompt
  MaxConcurrent, \* slots
  MaxQueued,     \* waiters
  MaxFailures    \* bound: callers that leave, deadlines, failures, Close, expired keys

ASSUME TranslationAssumption ==
  /\ Callers \subseteq Nat \ {0} /\ Texts \subseteq Nat \ {0}
  /\ {MaxConcurrent, MaxQueued} \subseteq Nat \ {0} /\ MaxFailures \in Nat

VARIABLES
  translated, \* keys in the Redis cache
  work,       \* key -> its flight: [pc, dead: workCtx is done, late: history, begun after Close]
  caller,     \* caller -> [pc, key], with its answer as the last pc
  slots, waiters, \* lengths of the two channels
  closed,     \* the service's lifetime is over
  paid,       \* history: key -> translations the provider gave
  mishaps,    \* history: what went wrong, "cache", "deadline" or "provider"
  failures

translationVars == <<translated, work, caller, slots, waiters, closed, paid, mishaps, failures>>

NoWork == [pc |-> "none", dead |-> FALSE, late |-> FALSE]
Answers == {"ok", "limited", "error", "closed", "cancelled"}

TranslationInit ==
  /\ translated = {} /\ work = [k \in Texts |-> NoWork]
  /\ caller = [c \in Callers |-> [pc |-> "new", key |-> 0]]
  /\ slots = 0 /\ waiters = 0 /\ closed = FALSE
  /\ paid = [k \in Texts |-> 0] /\ mishaps = {} /\ failures = 0

Failure(what) == failures < MaxFailures /\ failures' = failures + 1 /\ mishaps' = mishaps \cup what
NoFailure == UNCHANGED <<failures, mishaps>>

\* cacheOperation: Redis fails or is slower than its budget.
CacheFails == Failure({"cache"})

\* WorkersAIClient.Translate: a status, a body or a text it does not accept.
ProviderFails == Failure({"provider"})

Untranslating == \A c \in Callers : caller[c].pc = "new"
CallerAt(c, pc) == caller[c].pc = pc
CallerTo(c, pc) == caller' = [caller EXCEPT ![c].pc = pc]

-----------------------------------------------------------------------------
(* A request.                                                              *)

CallerFrame == UNCHANGED <<translated, slots, waiters, closed, paid>>

\* A Post in another language, the feature on, the text not too long.
Translate(c, k) ==
  /\ CallerAt(c, "new")
  /\ caller' = [caller EXCEPT ![c] = [pc |-> IF closed THEN "closed" ELSE "read", key |-> k]]
  /\ NoFailure /\ CallerFrame /\ UNCHANGED work

\* readCache: an error is a miss.
ReadTranslation(c) ==
  LET hit == caller[c].key \in translated
  IN /\ CallerAt(c, "read")
     /\ \/ NoFailure /\ CallerTo(c, IF closed THEN "closed" ELSE IF hit THEN "ok" ELSE "join")
        \/ ~closed /\ hit /\ CacheFails /\ CallerTo(c, "join")
     /\ CallerFrame /\ UNCHANGED work

\* DoChan: the flight of the key that there is, or a new one, closed or not.
DoChan(c) ==
  LET k == caller[c].key
  IN /\ CallerAt(c, "join") /\ CallerTo(c, "wait")
     /\ work' = IF work[k].pc = "none" THEN [work EXCEPT ![k] = [NoWork EXCEPT !.pc = "admit", !.late = closed]] ELSE work
     /\ NoFailure /\ CallerFrame

\* The select in Translate sees the end of the service first.
StopsWaiting(c) == CallerAt(c, "wait") /\ closed /\ CallerTo(c, "closed") /\ NoFailure /\ CallerFrame /\ UNCHANGED work

\* Mutant: the work is done under the context of the request that began it.
CallerLeaves_WithWork(c) ==
  /\ caller[c].pc \in {"read", "join", "wait"} /\ Failure({}) /\ CallerTo(c, "cancelled")
  /\ work' = IF CallerAt(c, "wait") THEN [work EXCEPT ![caller[c].key].dead = TRUE] ELSE work
  /\ CallerFrame

\* The client goes away; the flight keeps its own context and goes on.
CallerLeaves(c) ==
  /\ caller[c].pc \in {"read", "join", "wait"} /\ Failure({}) /\ CallerTo(c, "cancelled")
  /\ CallerFrame /\ UNCHANGED work

-----------------------------------------------------------------------------
(* A flight.                                                               *)

WorkAt(k, pc) == work[k].pc = pc
WorkTo(k, pc) == work' = [work EXCEPT ![k].pc = pc] /\ UNCHANGED caller

\* All who still wait for the flight get its answer, unless the service is closed.
Land(k, answer) ==
  /\ work' = [work EXCEPT ![k] = NoWork]
  /\ caller' = [c \in Callers |-> IF CallerAt(c, "wait") /\ caller[c].key = k
                                  THEN [caller[c] EXCEPT !.pc = IF closed THEN "closed" ELSE answer] ELSE caller[c]]

\* release, then the answer.
Release(k, answer) == slots' = slots - 1 /\ Land(k, answer)

Cached == UNCHANGED <<translated, paid>>

\* acquireFlight: a free slot ...
Acquire(k) ==
  /\ WorkAt(k, "admit")
  /\ CASE work[k].dead -> Land(k, "error") /\ UNCHANGED slots
       [] ~work[k].dead /\ slots < MaxConcurrent -> slots' = slots + 1 /\ WorkTo(k, "held")
       [] OTHER -> WorkTo(k, "full") /\ UNCHANGED slots
  /\ NoFailure /\ Cached /\ UNCHANGED <<waiters, closed>>

\* ... or a place in the queue ...
EnterQueue(k) ==
  /\ WorkAt(k, "full")
  /\ IF waiters < MaxQueued THEN waiters' = waiters + 1 /\ WorkTo(k, "queued")
     ELSE Land(k, "limited") /\ UNCHANGED waiters
  /\ NoFailure /\ Cached /\ UNCHANGED <<slots, closed>>

\* ... until a slot is free or the work is over.
LeaveQueue(k) ==
  /\ WorkAt(k, "queued")
  /\ \/ slots < MaxConcurrent /\ slots' = slots + 1 /\ WorkTo(k, "leaving") /\ UNCHANGED waiters
     \/ work[k].dead /\ waiters' = waiters - 1 /\ Land(k, "error") /\ UNCHANGED slots
  /\ NoFailure /\ Cached /\ UNCHANGED closed

\* The deferred end of acquireFlight.
FreePlace(k) ==
  /\ WorkAt(k, "leaving") /\ waiters' = waiters - 1 /\ WorkTo(k, "held")
  /\ NoFailure /\ Cached /\ UNCHANGED <<slots, closed>>

\* Mutant: only the request asks the cache.
CachedMeanwhile_NotAsked(k) == FALSE

\* The second lookup.
CachedMeanwhile(k) == k \in translated

\* Mutant: only the context of the work is asked, which hears of Close later.
Over_ByContext(k) == work[k].dead

\* lifetime.Err and translationWorkError, before the provider is called.
Over(k) == closed \/ work[k].dead

Lookup(k) ==
  /\ WorkAt(k, "held")
  /\ \/ Over(k) /\ NoFailure /\ Release(k, "error")
     \/ ~Over(k) /\ CachedMeanwhile(k) /\ NoFailure /\ Release(k, "ok")
     \/ ~Over(k) /\ ~CachedMeanwhile(k) /\ NoFailure /\ WorkTo(k, "provider") /\ UNCHANGED slots
     \/ ~Over(k) /\ CachedMeanwhile(k) /\ CacheFails /\ WorkTo(k, "provider") /\ UNCHANGED slots
  /\ Cached /\ UNCHANGED <<waiters, closed>>

\* The provider's answer: the end of the work comes before it, then its errors.
Provide(k) ==
  /\ WorkAt(k, "provider")
  /\ \/ work[k].dead /\ NoFailure /\ Release(k, "error") /\ UNCHANGED paid
     \/ ~work[k].dead /\ ProviderFails /\ Release(k, "error") /\ UNCHANGED paid
     \/ ~work[k].dead /\ NoFailure /\ WorkTo(k, "store") /\ paid' = [paid EXCEPT ![k] = @ + 1] /\ UNCHANGED slots
  /\ UNCHANGED <<translated, waiters, closed>>

\* The cache is written unless the service or the work is over; a failure is
\* logged and may still have written it.
Store(k) ==
  /\ WorkAt(k, "store")
  /\ \/ ~Over(k) /\ NoFailure /\ translated' = translated \cup {k}
     \/ ~Over(k) /\ CacheFails /\ translated' \in {translated, translated \cup {k}}
     \/ Over(k) /\ mishaps' = mishaps \cup {"cache"} /\ UNCHANGED <<translated, failures>>
  /\ Release(k, IF work[k].dead THEN "error" ELSE "ok")
  /\ UNCHANGED <<waiters, closed, paid>>

\* The work's context ends: Close reaches it after a while, or its time is up.
WorkEnds(k) ==
  /\ ~WorkAt(k, "none") /\ ~work[k].dead
  /\ (closed /\ NoFailure) \/ (~closed /\ Failure({"deadline"}))
  /\ work' = [work EXCEPT ![k].dead = TRUE]
  /\ UNCHANGED <<caller, slots, waiters, closed>> /\ Cached

WorkStep(k) == Acquire(k) \/ EnterQueue(k) \/ LeaveQueue(k) \/ FreePlace(k) \/ Lookup(k) \/ Provide(k) \/ Store(k)

-----------------------------------------------------------------------------

\* Close; the API process is stopping.
Close == /\ ~closed /\ closed' = TRUE /\ ~Untranslating /\ Failure({})
         /\ UNCHANGED <<translated, work, caller, slots, waiters, paid>>

TranslationExpires(k) ==
  /\ k \in translated /\ translated' = translated \ {k} /\ Failure({"cache"})
  /\ UNCHANGED <<work, caller, slots, waiters, closed, paid>>

CallerStep(c) == ReadTranslation(c) \/ DoChan(c) \/ StopsWaiting(c)

\* Bound: requests come in the order of their numbers, new texts in that of theirs.
InOrder(c, k) ==
  /\ \A d \in Callers : d < c => ~CallerAt(d, "new")
  /\ \A j \in Texts : j < k => \E d \in Callers : caller[d].key = j

TranslationNext ==
  \/ \E c \in Callers : (\E k \in Texts : InOrder(c, k) /\ Translate(c, k)) \/ CallerStep(c) \/ CallerLeaves(c)
  \/ \E k \in Texts : WorkStep(k) \/ WorkEnds(k) \/ TranslationExpires(k)
  \/ Close

-----------------------------------------------------------------------------
(* Properties.                                                             *)

Holding == {k \in Texts : work[k].pc \in {"leaving", "held", "provider", "store"}}
Queued == {k \in Texts : work[k].pc \in {"queued", "leaving"}}

\* No slot and no place in the queue is leaked or given twice, however a flight
\* ends, and whoever is waited for is under way.
AdmissionExact ==
  /\ slots = Cardinality(Holding) /\ slots <= MaxConcurrent
  /\ waiters = Cardinality(Queued) /\ waiters <= MaxQueued
  /\ \A c \in Callers : CallerAt(c, "wait") => ~WorkAt(caller[c].key, "none")

\* While the cache works, a text is paid for once, in whatever order requests
\* ask the cache and flights end.
PaidOnce == "cache" \in mishaps \/ \A k \in Texts : paid[k] <= 1

\* A request that goes away is nobody else's error.
LeavingIsPrivate == (\E c \in Callers : CallerAt(c, "error")) => mishaps \cap {"deadline", "provider"} # {}

\* Work that began after Close does not reach the provider.
ClosedCallsNobody == \A k \in Texts : work[k].late => work[k].pc \notin {"provider", "store"}

TranslationSafe == AdmissionExact /\ PaidOnce /\ LeavingIsPrivate /\ ClosedCallsNobody

\* Every request has got an answer, and no flight or slot is left behind.
TranslationDone ==
  /\ \A c \in Callers : caller[c].pc \in Answers \cup {"new"}
  /\ slots = 0 /\ waiters = 0 /\ \A k \in Texts : WorkAt(k, "none")
=============================================================================

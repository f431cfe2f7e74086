------------------------------ MODULE PostReads ------------------------------
(***************************************************************************)
(* Reading Posts: the lists of PostLists, and the detail page of a Post,   *)
(* cached in Redis behind a fence, loaded once for all requests of a       *)
(* process, while replies are published and Posts deleted.  The service    *)
(* that translates a Post (Translation) shares no state with either, so a  *)
(* behaviour is one of the three.                                          *)
(*                                                                         *)
(*   controllers/post_cache.go, post_loader.go, post_response.go,          *)
(*   post_controller.go, post_delete.go                                    *)
(*                                                                         *)
(* A writer commits, then invalidates the cached page; it may stop in      *)
(* between, and a failed invalidation is only logged.                      *)
(***************************************************************************)
EXTENDS PostLists, Translation

CONSTANTS
  Processes,   \* API processes, one shared load each
  MaxReads     \* bound: requests for the detail page

ASSUME ReadsAssumption == IsFiniteSet(Processes) /\ MaxReads \in Nat

VARIABLES
  cache,     \* the cached page of the Post Oldest, NotCached
  fence,     \* the fence's token, 0 once it expired
  flight,    \* process -> the load its requests share
  request,   \* a request for the page
  reads,
  pending,   \* writers that have committed and not yet invalidated
  lost       \* history: a page was not invalidated

cacheVars == <<cache, fence, flight, request, reads, pending, lost>>
listVars == <<rowVars, changes, scrollVars, stable, removed>>
readsVars == <<listVars, cacheVars, translationVars>>

NotCached == -1
\* The counters of the Post, all of the page that is told apart.
Counters == Cardinality(ReplyRows) + Cardinality(QuoteRows)

NoFlight == [pc |-> "none", token |-> 0, page |-> NotCached, second |-> FALSE]
NoPageRequest == [pc |-> "idle", at |-> "none", page |-> NotCached, late |-> FALSE]

ReadsInit ==
  /\ ListsInit /\ TranslationInit
  /\ cache = NotCached /\ fence = 0 /\ flight = [a \in Processes |-> NoFlight] /\ request = NoPageRequest /\ reads = 0
  /\ pending = 0 /\ lost = FALSE

-----------------------------------------------------------------------------
(* The fence.                                                              *)

\* newPostDetailFenceToken: a token that nobody holds.
NewToken == CHOOSE t \in 1..Cardinality(Processes) + 2 : t # fence /\ \A a \in Processes : flight[a].token # t

\* invalidatePostDetailCacheScript; a failure is only logged.
Invalidate ==
  \/ cache' = NotCached /\ fence' = NewToken /\ UNCHANGED <<lost, changes>>
  \/ Change /\ lost' = TRUE /\ UNCHANGED <<cache, fence>>

Unlisted == UNCHANGED <<rowVars, scrollVars, stable, removed>>

-----------------------------------------------------------------------------
(* A request for the page.                                                 *)

\* loadPostDetail asks the cache, and then joins the load of its process.
Read(a) ==
  /\ reader.pc = "idle" /\ request.pc = "idle" /\ reads < MaxReads
  /\ reads' = reads + 1
  /\ request' = [pc |-> IF cache # NotCached THEN "validate" ELSE "wait", at |-> a, page |-> cache, late |-> ~Public(Oldest)]
  /\ flight' = IF cache = NotCached /\ flight[a].pc = "none" THEN [flight EXCEPT ![a] = [NoFlight EXCEPT !.pc = "get"]] ELSE flight
  /\ Unlisted /\ UNCHANGED <<changes, cache, fence, pending, lost>>

\* The client goes away; the load goes on.
ReadCancelled ==
  /\ request.pc = "wait" /\ Change
  /\ request' = NoPageRequest
  /\ Unlisted /\ UNCHANGED <<cache, fence, flight, reads, pending, lost>>

\* awaitPostCacheFlight: all who wait for a load get what it returns.
Waiting(a) == request.pc = "wait" /\ request.at = a
Delivered(a, page) == IF Waiting(a) THEN [request EXCEPT !.pc = "validate", !.page = page] ELSE request

\* Mutant: who waits for a load that fails is not told.
NotDelivered_Silent(a) == request

\* An error is the answer.
NotDelivered(a) == IF Waiting(a) THEN NoPageRequest ELSE request

\* The cache is asked again when the load starts and after a refused write.
FlightGet(a) ==
  /\ flight[a].pc \in {"get", "reget"}
  /\ CASE cache # NotCached -> flight' = [flight EXCEPT ![a] = NoFlight] /\ request' = Delivered(a, cache)
       [] cache = NotCached /\ flight[a].pc = "reget" /\ flight[a].second ->
            flight' = [flight EXCEPT ![a] = NoFlight] /\ request' = Delivered(a, flight[a].page)
       [] OTHER -> flight' = [flight EXCEPT ![a].pc = "fence", ![a].second = flight[a].pc = "reget"] /\ UNCHANGED request
  /\ Unlisted /\ UNCHANGED <<changes, cache, fence, reads, pending, lost>>

\* getOrCreatePostDetailFenceToken.
FlightFence(a) ==
  /\ flight[a].pc = "fence"
  /\ fence' = IF fence = 0 THEN NewToken ELSE fence
  /\ flight' = [flight EXCEPT ![a].pc = "load", ![a].token = fence']
  /\ Unlisted /\ UNCHANGED <<changes, cache, request, reads, pending, lost>>

\* loadPublicPost.
FlightLoad(a) ==
  /\ flight[a].pc = "load"
  /\ IF Public(Oldest) THEN flight' = [flight EXCEPT ![a].pc = "set", ![a].page = Counters] /\ UNCHANGED request
     ELSE flight' = [flight EXCEPT ![a] = NoFlight] /\ request' = NotDelivered(a)
  /\ Unlisted /\ UNCHANGED <<changes, cache, fence, reads, pending, lost>>

\* Mutant: the page is written whatever the fence is.
FenceHolds_Ignored(a) == TRUE

\* setPostDetailCacheIfFenceMatchesScript.
FenceHolds(a) == fence # 0 /\ fence = flight[a].token

FlightSet(a) ==
  /\ flight[a].pc = "set"
  /\ IF FenceHolds(a)
     THEN cache' = flight[a].page /\ flight' = [flight EXCEPT ![a] = NoFlight] /\ request' = Delivered(a, flight[a].page)
     ELSE flight' = [flight EXCEPT ![a].pc = "reget", ![a].token = 0] /\ UNCHANGED <<cache, request>>
  /\ Unlisted /\ UNCHANGED <<changes, fence, reads, pending, lost>>

\* Redis or the database fails, or the time of the load is up.
FlightFails(a) ==
  /\ flight[a].pc # "none" /\ Change
  /\ flight' = [flight EXCEPT ![a] = NoFlight] /\ request' = NotDelivered(a)
  /\ Unlisted /\ UNCHANGED <<cache, fence, reads, pending, lost>>

\* validatePostDetailPublic: on the primary, after the page is there.
Validate ==
  /\ request.pc = "validate"
  /\ IF Public(Oldest) THEN request' = [request EXCEPT !.pc = "served"] /\ UNCHANGED <<cache, fence, lost, changes>>
     ELSE request' = NoPageRequest /\ Invalidate
  /\ Unlisted /\ UNCHANGED <<flight, reads, pending>>

ReadAgain ==
  /\ request.pc = "served"
  /\ request' = NoPageRequest
  /\ Unlisted /\ UNCHANGED <<changes, cache, fence, flight, reads, pending, lost>>

\* postCacheTTL, postDetailFenceTTL.
CacheExpires ==
  /\ cache # NotCached /\ cache' = NotCached
  /\ Unlisted /\ UNCHANGED <<changes, fence, flight, request, reads, pending, lost>>

FenceExpires ==
  /\ fence # 0 /\ fence' = 0
  /\ Unlisted /\ UNCHANGED <<changes, cache, flight, request, reads, pending, lost>>

FlightStep(a) == FlightGet(a) \/ FlightFence(a) \/ FlightLoad(a) \/ FlightSet(a)

-----------------------------------------------------------------------------
(* Writers.                                                                *)

\* Before the page was first asked for, there is nothing to invalidate.
Pending(touched) == pending' = IF touched /\ reads > 0 THEN pending + 1 ELSE pending

Touches(p) == Oldest \in {p.id, p.parent, p.quote}

PublishPost(a, parent, quote) ==
  /\ Publish(a, parent, quote)
  /\ Pending(Oldest \in {parent, quote})
  /\ UNCHANGED <<cache, fence, flight, request, reads, lost>>

RemovePost(p) ==
  /\ DeletePost(p)
  /\ Pending(Touches(p))
  /\ UNCHANGED <<cache, fence, flight, request, reads, lost>>

InvalidateWritten ==
  /\ pending > 0 /\ pending' = pending - 1
  /\ Invalidate
  /\ Unlisted /\ UNCHANGED <<flight, request, reads>>

-----------------------------------------------------------------------------

OpenList == \E s \in Surfaces, seed \in Seeds : (s # "topic" => seed = 1) /\ Open(s, seed)

\* Bound: rows change while a list is scrolled, and what the detail page shows
\* also while that is read; before and after it is only another start.
Scrolling == reader.pc \notin {"idle", "end", "gone"}

ReadNext ==
  \/ (OpenList /\ reads = 0 /\ UNCHANGED cacheVars)
  \/ (ScrollStep /\ UNCHANGED cacheVars)
  \/ (Scrolling /\ Relation /\ UNCHANGED cacheVars)
  \/ \E a \in Actors, parent, quote \in {0, Oldest} :
       (parent = 0 \/ quote = 0) /\ (Scrolling \/ (reads > 0 /\ Oldest \in {parent, quote})) /\ PublishPost(a, parent, quote)
  \/ \E p \in Live : (Scrolling \/ (reads > 0 /\ Touches(p))) /\ RemovePost(p)
  \/ InvalidateWritten
  \/ \E a \in Processes : Read(a) \/ FlightStep(a) \/ FlightFails(a)
  \/ ReadCancelled \/ Validate \/ ReadAgain \/ CacheExpires \/ FenceExpires

ReadsNext ==
  \/ Untranslating /\ ReadNext /\ UNCHANGED translationVars
  \/ reader.pc = "idle" /\ reads = 0 /\ TranslationNext /\ UNCHANGED <<listVars, cacheVars>>

\* A load and a request for a page go on, a viewer scrolls to the end, cached
\* pages expire; a request for a translation and a flight go on, as the cache
\* and the provider are called with a time limit.
Fairness ==
  /\ WF_readsVars(ScrollStep /\ UNCHANGED <<cacheVars, translationVars>>)
  /\ \A a \in Processes : WF_readsVars(FlightStep(a) /\ UNCHANGED translationVars)
  /\ WF_readsVars(Validate /\ UNCHANGED translationVars) /\ WF_readsVars(CacheExpires /\ UNCHANGED translationVars)
  /\ \A c \in Callers : WF_readsVars(CallerStep(c) /\ UNCHANGED <<listVars, cacheVars>>)
  /\ \A k \in Texts : WF_readsVars(WorkStep(k) /\ UNCHANGED <<listVars, cacheVars>>)

ReadsSpec == ReadsInit /\ [][ReadsNext]_readsVars
ReadsFairSpec == ReadsSpec /\ Fairness

-----------------------------------------------------------------------------
(* Properties.                                                             *)

ReadsTypeOK ==
  /\ cache \in Nat \cup {NotCached} /\ fence \in Nat /\ pending \in Nat /\ changes \in 0..MaxChanges
  /\ reader.pc \in {"idle", "query", "bucket", "nextBucket", "hydrate", "end", "gone"}
  /\ \A a \in Processes : flight[a].pc \in {"none", "get", "fence", "load", "set", "reget"}

\* The fence: the cached page is the present one, unless an invalidation is
\* still to come or was lost.
CacheFresh == pending = 0 /\ ~lost => cache = NotCached \/ (Public(Oldest) /\ cache = Counters)

\* A request that came after the deletion is not served the page, from wherever
\* it is read.
DeletedIsHidden == request.pc = "served" => ~request.late

ReadsSafe == ReadsTypeOK /\ CacheFresh /\ DeletedIsHidden /\ StableRowsShown /\ NoRowTwice /\ TranslationSafe

\* A viewer who scrolls on reaches the end, a request that waits for a page is
\* answered, a page that was not invalidated does not stay, and every request
\* for a translation has its answer with no flight or slot left behind.
ReadsSettle ==
  <>[](/\ ~Scrolling /\ request.pc # "wait"
       /\ cache # NotCached => cache = Counters
       /\ TranslationDone)
=============================================================================

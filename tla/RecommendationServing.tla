------------------------ MODULE RecommendationServing ------------------------
(***************************************************************************)
(* Paging through recommendations: the first request recalls, ranks and    *)
(* stores a candidate pool with its first pages in one Redis hash; every   *)
(* later request shows or builds the page its cursor names, commits what   *)
(* the response really contains, and then records served history and the   *)
(* serving trace.  Every write of the hash is a compare-and-swap on its    *)
(* revision, so a build or a commit is one step here, on the hash as it is  *)
(* then; what was read before and used after is kept in the request.       *)
(*                                                                         *)
(*   recommendation/service*.go, snapshot_store_redis.go,                  *)
(*   history_store_redis.go, trace_*.go, selection.go, fusion.go,          *)
(*   candidate_repository_gorm.go, controllers/recommendation_*.go         *)
(***************************************************************************)
EXTENDS Integers, FiniteSets, Sequences, FiniteSetsExt

CONSTANTS
  Requests,      \* requests in flight
  Reader,        \* the one that follows the newest cursor; the others repeat old ones
  Ranked,        \* the Posts, as numbers from 1 in the order the ranker puts them
  Historical,    \* Posts before the recent window, unseen
  Soft,          \* Posts seen long ago, offered again when nothing else is left
  Volatile,      \* Posts that may become ineligible or fail to map
  PageSize,      \* snapshot page size
  Preselect,     \* Snapshot.PreselectPages, at most maxSnapshotInitialPages
  MaxPages,      \* defaultSnapshotMaxPages
  MaxPool,       \* Snapshot.MaxCandidates
  BatchSize,     \* HistoricalBackfill.BatchSize
  MaxScan,       \* HistoricalBackfill.MaxScanPerRequest
  MaxToggles,    \* bound: Posts that become ineligible, eligible again, or fail to map
  MaxFailures    \* bound: failures, lost answers, crashes

ASSUME ServingAssumption ==
  /\ Reader \in Requests /\ Ranked \subseteq Nat \ {0} /\ IsFiniteSet(Ranked)
  /\ Historical \subseteq Ranked /\ Soft \subseteq Ranked /\ Historical \cap Soft = {} /\ Volatile \subseteq Ranked
  /\ {PageSize, Preselect, MaxPages, MaxPool, BatchSize, MaxScan} \subseteq Nat \ {0} /\ Preselect <= MaxPages
  /\ MaxToggles \in Nat /\ MaxFailures \in Nat

VARIABLES
  snap,     \* the snapshot hash
  req,      \* the requests and what each has read
  alive,    \* Posts eligible for the viewer: public, unmuted, not interacted with
  stable,   \* history: Posts eligible throughout
  history,  \* served history: page receipt -> the Posts recorded under it
  cursors,  \* page indices of the cursors the client holds
  sent,     \* history: responses, [page, posts, depleted]
  refused,  \* history: errors answered to a cursor that was issued
  traces,   \* pages whose trace was handed to the dispatcher, in order
  toggles, failures

servingVars == <<snap, req, alive, stable, history, cursors, sent, refused, traces, toggles, failures>>

\* CandidateRangeRecent: inside the lookback window and not served before.
Recent == Ranked \ (Historical \cup Soft)

NewPage == [items |-> {}, committed |-> FALSE, returned |-> {}, recorded |-> FALSE, traced |-> FALSE]

NoSnapshot ==
  [phase |-> "none", exhausted |-> FALSE, pool |-> {},
   histAt |-> 0, histDone |-> FALSE, softAt |-> 0, softDone |-> FALSE,
   pages |-> <<>>,  \* page i at place i + 1; its length is PageCount
   post |-> {},     \* fields post:p = kind:i, as <<p, kind, i>>
   pending |-> {}]  \* committed pages without a history receipt

Known(s) == {f[1] : f \in s.post}
Unknown(s) == s.pool \ Known(s)
Count(s) == Len(s.pages)
PendingHistory(s) == s.pending

Idle == [pc |-> "idle", page |-> 0, depleted |-> FALSE, count |-> 0, todo |-> {}, reload |-> FALSE, items |-> {}]

ServingInit ==
  /\ snap = NoSnapshot
  /\ req = [r \in Requests |-> Idle]
  /\ alive = Ranked /\ stable = Ranked
  /\ history = << >> /\ cursors = {} /\ sent = {} /\ refused = {}
  /\ traces = <<>>
  /\ toggles = 0 /\ failures = 0

-----------------------------------------------------------------------------
(* Recall, ranking, selection.                                             *)

\* The best n of a set: a rank is fixed, fusion, scores and diversity are not
\* looked into.
Best(n, S) == {p \in S : Cardinality({q \in S : q < p}) < n}

\* eligibilityQuery: what the viewer may see now.
Eligible(S) == S \cap alive

\* buildCandidateSet: following, semantic, interest, trending and recent recall,
\* each Post once.
CandidateSet == Eligible(Recent)

\* executeUser: scored against the profile, the best of them are the pool.
Recalled == Best(MaxPool, CandidateSet)

\* Fresh candidates first, revisits only into what they leave.
SelectRankedPage(fresh, soft) ==
  Best(PageSize, fresh) \cup Best(Max({0, PageSize - Cardinality(fresh)}), soft)

\* supplementRecallTier: batches behind the keyset position until the page is
\* full, the budget or the pool is; a short batch means the tier is done.
Scan(tier, at, excluded, missing, budget, room) ==
  LET rows  == {p \in Eligible(tier) : p > at /\ p \notin excluded}
      limit == Min({((missing + BatchSize - 1) \div BatchSize) * BatchSize, budget, room})
      taken == Best(limit, rows)
  IN [taken |-> taken, done |-> Cardinality(rows) < limit, at |-> Max(taken \cup {at})]

\* Unseen older Posts, when the pool does not fill a page ...
ScanHistorical(s, live, excluded) ==
  LET missing == PageSize - Cardinality(Best(PageSize, live \ Soft))
      room    == MaxPool - Cardinality(live)
  IN IF missing > 0 /\ ~s.histDone /\ room > 0
     THEN Scan(Historical, s.histAt, excluded, missing, MaxScan, room)
     ELSE [taken |-> {}, done |-> s.histDone, at |-> s.histAt]

\* ... and revisits, once there are no more of them.
ScanSoft(s, live, h, excluded) ==
  LET missing == PageSize - Cardinality(SelectRankedPage(live \ Soft, live \cap Soft))
      room    == MaxPool - Cardinality(live)
  IN IF missing > 0 /\ h.done /\ ~s.softDone /\ room > 0
     THEN Scan(Soft, s.softAt, excluded \cup live, missing, MaxScan - Cardinality(h.taken), room)
     ELSE [taken |-> {}, done |-> s.softDone, at |-> s.softAt]

\* The snapshot after the tiers were tried in order (the only element).
Fills(s, live, excluded) ==
  UNION {{[s EXCEPT !.pool = live \cup h.taken \cup w.taken, !.histAt = h.at, !.histDone = h.done,
                    !.softAt = w.at, !.softDone = w.done]
          : w \in {ScanSoft(s, live \cup h.taken, h, excluded)}}
         : h \in {ScanHistorical(s, live, excluded)}}

Selected(s) ==
  SelectRankedPage(Unknown(s) \ Soft, IF s.histDone THEN Unknown(s) \cap Soft ELSE {})

-----------------------------------------------------------------------------
(* The snapshot.                                                           *)

\* A page and the reservation of its Posts, in one mutation.
AddPage(s, i, items) ==
  [s EXCEPT !.pages = Append(@, [NewPage EXCEPT !.items = items]),
            !.post = @ \cup {<<p, "reserved", i>> : p \in items}]

\* Mutant: the page under construction is not counted yet.
CanDeclareExhausted_Early(s, i) == s.histDone /\ s.softDone /\ Count(s) = i /\ Unknown(s) = {}

\* snapshotCanDeclareExhausted: nothing to scan, nothing in the pool unassigned.
CanDeclareExhausted(s, i) ==
  s.histDone /\ s.softDone /\ Count(s) = i + 1 /\ Unknown(s) = {}

\* Pages 1, 2, ... while they are full; the first short one is left for later.
PreselectPage(prior, k) ==
  LET items == SelectRankedPage(Unknown(prior) \ Soft, Unknown(prior) \cap Soft)
  IN IF Count(prior) = k /\ Cardinality(items) = PageSize /\ k * PageSize < MaxPool
     THEN AddPage(prior, k, items) ELSE prior

Preselected(s) ==
  LET Upto[k \in 0..(Preselect - 1)] == IF k = 0 THEN s ELSE PreselectPage(Upto[k - 1], k)
  IN Upto[Preselect - 1]

WithExhausted(S, i) == {[s EXCEPT !.exhausted = CanDeclareExhausted(s, i)] : s \in S}

\* createInitialSnapshot.
Creations ==
  LET recalled == Fills([NoSnapshot EXCEPT !.phase = "live"], Recalled, {})
  IN WithExhausted({Preselected(s) : s \in {AddPage(f, 0, Selected(f)) : f \in recalled}}, 0)

\* buildSnapshotPage: what left the pool for good, the tiers, the page.
Builds(s, i) ==
  LET kept == [s EXCEPT !.post = @ \cup {<<p, "invalid", i>> : p \in Unknown(s) \ alive}]
  IN IF s.exhausted THEN {AddPage(s, i, {})}
     ELSE WithExhausted({AddPage(f, i, Selected(f)) : f \in Fills(kept, Eligible(Unknown(s)), s.pool \cup Known(s))}, i)

\* commitMappedPage: returned Posts are used, what the mapper refused is
\* rejected, the rest goes back to the pool with every later page.
Committed(s, i, returned, rejected) ==
  LET page     == s.pages[i + 1]
      later    == IF returned # page.items THEN SubSeq(s.pages, i + 2, Count(s)) ELSE <<>>
      released == (page.items \ (returned \cup rejected)) \cup UNION {later[j].items : j \in DOMAIN later}
      next == [s EXCEPT
        !.pages = [SubSeq(@, 1, Count(s) - Len(later)) EXCEPT ![i + 1] = [page EXCEPT !.committed = TRUE, !.returned = returned]],
        !.pool = IF released = {} THEN @ ELSE released \cup Best(MaxPool - Cardinality(released), @ \ released),
        !.post = {f \in @ : f[1] \notin page.items \cup released}
                   \cup {<<p, "used", i>> : p \in returned} \cup {<<p, "rejected", i>> : p \in page.items \cap rejected},
        !.pending = @ \cup {i}]
  IN [next EXCEPT !.exhausted = released = {} /\ CanDeclareExhausted(next, i)]

\* The history receipt of a page, which ends its recovery.
MarkRecorded(s, i) == [s EXCEPT !.pages[i + 1].recorded = TRUE, !.pending = @ \ {i}]

Live == snap.phase = "live"
Exists(i) == Live /\ i < Count(snap)
Page(i) == snap.pages[i + 1]

\* LoadSnapshotPage: a committed page shows only what was returned, and a Post
\* that is no longer eligible is left out.
Shown(page) == Eligible(IF page.committed THEN page.returned ELSE page.items)

\* recordServedPage: the receipt is written with the entries, once.
RecordPage(i, posts) ==
  history' = IF i \in DOMAIN history \/ posts = {} THEN history
             ELSE [j \in DOMAIN history \cup {i} |-> IF j = i THEN posts ELSE history[j]]

-----------------------------------------------------------------------------
(* The world.                                                              *)

ServingFault == failures < MaxFailures /\ failures' = failures + 1

\* A Post is deleted, muted, hidden or liked, or comes back.
Toggle(p) ==
  /\ toggles < MaxToggles /\ Live
  /\ toggles' = toggles + 1
  /\ alive' = IF p \in alive THEN alive \ {p} ELSE alive \cup {p}
  /\ stable' = stable \ {p}
  /\ UNCHANGED <<snap, req, history, cursors, sent, refused, traces, failures>>

\* The hash expires, or a new ranker, profile or embedding version ends it.
Expire ==
  /\ Live /\ ServingFault
  /\ snap' = [NoSnapshot EXCEPT !.phase = "gone"]
  /\ UNCHANGED <<req, alive, stable, history, cursors, sent, refused, traces, toggles>>

Goto(r, s) == req' = [req EXCEPT ![r] = s]
At(r, pc) == req[r].pc = pc
Step(r, pc) == Goto(r, [req[r] EXCEPT !.pc = pc])

\* The response is an error.
Refuse(r, why) ==
  /\ Goto(r, Idle)
  /\ refused' = refused \cup {why}

\* The response, and the cursor of the next page unless nothing is left.
Respond(r) ==
  /\ sent' = sent \cup {[page |-> req[r].page, posts |-> req[r].items, depleted |-> req[r].depleted]}
  /\ cursors' = IF req[r].depleted THEN cursors ELSE cursors \cup {req[r].page + 1}
  /\ Goto(r, Idle)

-----------------------------------------------------------------------------
(* Serve.                                                                  *)

\* No cursor: recall, rank, select, store.  The result is page 0 as stored.
ServeFirst(r) ==
  /\ At(r, "idle") /\ r = Reader /\ snap.phase = "none"
  /\ \E s \in Creations :
       /\ snap' = s
       /\ Goto(r, [Idle EXCEPT !.pc = "commit", !.items = s.pages[1].items, !.depleted = s.exhausted])
  /\ UNCHANGED <<alive, stable, history, cursors, sent, refused, traces, toggles, failures>>

\* A signed cursor of this viewer and page size, not expired; the reader follows
\* the newest one.
Decodes(r, i) == i \in cursors /\ (r = Reader => i = Max(cursors))

\* A cursor of this viewer, page size and snapshot: load the snapshot and the
\* committed pages whose history is still pending.
ServeCursor(r, i) ==
  /\ At(r, "idle") /\ Decodes(r, i)
  /\ IF Live
     THEN /\ Goto(r, [Idle EXCEPT !.pc = IF PendingHistory(snap) = {} THEN "page" ELSE "recover", !.page = i,
                                  !.depleted = snap.exhausted, !.count = Count(snap), !.todo = PendingHistory(snap)])
          /\ UNCHANGED refused
     ELSE Refuse(r, "expired")
  /\ UNCHANGED <<snap, alive, stable, history, cursors, sent, traces, toggles, failures>>

\* The profile, the language, the ranker or the embedding version is not the
\* snapshot's any more.
Outdated(r) ==
  /\ At(r, "idle") /\ cursors # {} /\ ServingFault
  /\ Refuse(r, "expired")
  /\ UNCHANGED <<snap, alive, stable, history, cursors, sent, traces, toggles>>

\* recoverCommittedSnapshotHistory, one page: record it ...
RecoverHistory(r) ==
  /\ At(r, "recover") /\ Live
  /\ RecordPage(Min(req[r].todo), Page(Min(req[r].todo)).returned)
  /\ Goto(r, [req[r] EXCEPT !.pc = "receipt", !.reload = TRUE])
  /\ UNCHANGED <<snap, alive, stable, cursors, sent, refused, traces, toggles, failures>>

AfterRecovery(r, q) ==
  LET rest == q.todo \ {Min(q.todo)}
  IN [q EXCEPT !.todo = rest, !.pc = IF rest # {} THEN "recover" ELSE IF q.reload THEN "reload" ELSE "page"]

\* ... and write its receipt; either failure is logged and left for later.
RecoverReceipt(r) ==
  /\ At(r, "receipt")
  /\ snap' = IF Live THEN MarkRecorded(snap, Min(req[r].todo)) ELSE snap
  /\ Goto(r, AfterRecovery(r, req[r]))
  /\ UNCHANGED <<alive, stable, history, cursors, sent, refused, traces, toggles, failures>>

RecoveryFails(r) ==
  /\ At(r, "recover") \/ At(r, "receipt")
  /\ ServingFault
  /\ Goto(r, AfterRecovery(r, req[r]))
  /\ UNCHANGED <<snap, alive, stable, history, cursors, sent, refused, traces, toggles>>

Reload(r) ==
  /\ At(r, "reload") /\ Live
  /\ Goto(r, [req[r] EXCEPT !.pc = "page", !.depleted = snap.exhausted, !.count = Count(snap)])
  /\ UNCHANGED <<snap, alive, stable, history, cursors, sent, refused, traces, toggles, failures>>

\* The page is there.
LoadPage(r) ==
  LET i == req[r].page
  IN /\ At(r, "page") /\ i < MaxPages /\ Exists(i)
     /\ Goto(r, [req[r] EXCEPT !.pc = "commit", !.items = Shown(Page(i))])
     /\ UNCHANGED <<snap, alive, stable, history, cursors, sent, refused, traces, toggles, failures>>

\* It is the next page: build it and swap it in, whatever was loaded before.
BuildPage(r) ==
  LET i == req[r].page
  IN /\ At(r, "page") /\ i < MaxPages /\ Live /\ ~Exists(i)
     /\ i = req[r].count /\ i = Count(snap)
     /\ \E s \in Builds(snap, i) :
          /\ snap' = s
          /\ Goto(r, [req[r] EXCEPT !.pc = "show", !.items = s.pages[i + 1].items, !.depleted = s.exhausted])
     /\ UNCHANGED <<alive, stable, history, cursors, sent, refused, traces, toggles, failures>>

\* The page limit; a page that was there when the snapshot was loaded; an index
\* beyond the next page; the hash is gone.
PageRefused(r) ==
  LET i == req[r].page
  IN /\ At(r, "page")
     /\ \/ i >= MaxPages /\ Refuse(r, "capacity")
        \/ i < MaxPages /\ Live /\ ~Exists(i) /\ i < req[r].count /\ Refuse(r, "unavailable")
        \/ i < MaxPages /\ Live /\ ~Exists(i) /\ i > Min({req[r].count, Count(snap)}) /\ i >= req[r].count /\ Refuse(r, "invalid")
     /\ UNCHANGED <<snap, alive, stable, history, cursors, sent, traces, toggles, failures>>

\* The same for the page just built, after whatever happened since.
MaterializePage(r) ==
  /\ At(r, "show")
  /\ Goto(r, [req[r] EXCEPT !.pc = "commit", !.items = Eligible(@)])
  /\ UNCHANGED <<snap, alive, stable, history, cursors, sent, refused, traces, toggles, failures>>

-----------------------------------------------------------------------------
(* Mapping and finalization.                                               *)

\* The response mapper drops a Post it cannot convert.
Map(r, p) ==
  /\ At(r, "commit")
  /\ p \in req[r].items /\ req[r].todo = {}
  /\ toggles < MaxToggles /\ toggles' = toggles + 1
  /\ Goto(r, [req[r] EXCEPT !.items = @ \ {p}, !.todo = {p}])
  /\ stable' = stable \ {p}
  /\ UNCHANGED <<snap, alive, history, cursors, sent, refused, traces, failures>>

Committable(i, returned) ==
  /\ ~Page(i).committed /\ returned \subseteq Page(i).items
  /\ returned # Page(i).items => \A j \in (i + 1)..(Count(snap) - 1) : ~Page(j).committed

\* The page takes the content of this response; the answer may be lost.
CommitPage(r) ==
  LET i == req[r].page
  IN /\ At(r, "commit") /\ Exists(i) /\ Committable(i, req[r].items)
     /\ snap' = Committed(snap, i, req[r].items, req[r].todo)
     /\ \/ Step(r, "record") /\ UNCHANGED failures
        \/ ServingFault /\ Goto(r, Idle)
     /\ UNCHANGED <<alive, stable, history, cursors, sent, refused, traces, toggles>>

\* Mutant: the content of an earlier response is not compared.
AlreadyCommitted_Any(r) ==
  LET i == req[r].page
  IN /\ At(r, "commit") /\ Exists(i) /\ Page(i).committed
     /\ Step(r, IF Page(i).recorded THEN "trace" ELSE "record")
     /\ UNCHANGED <<snap, alive, stable, history, cursors, sent, refused, traces, toggles, failures>>

\* It was committed before, with the same content.
AlreadyCommitted(r) ==
  LET i == req[r].page
  IN /\ At(r, "commit") /\ Exists(i) /\ Page(i).committed
     /\ req[r].items = Page(i).returned
     /\ Step(r, IF Page(i).recorded THEN "trace" ELSE "record")
     /\ UNCHANGED <<snap, alive, stable, history, cursors, sent, refused, traces, toggles, failures>>

\* Another response already fixed the page, or it was rebuilt with other Posts.
CommitRefused(r) ==
  LET i == req[r].page
  IN /\ At(r, "commit")
     /\ Exists(i) => ~Committable(i, req[r].items) /\ ~(Page(i).committed /\ req[r].items = Page(i).returned)
     /\ Refuse(r, IF Exists(i) /\ ~Page(i).committed THEN "unavailable" ELSE "expired")
     /\ UNCHANGED <<snap, alive, stable, history, cursors, sent, traces, toggles, failures>>

RecordHistory(r) ==
  /\ At(r, "record")
  /\ RecordPage(req[r].page, req[r].items)
  /\ Step(r, "flag")
  /\ UNCHANGED <<snap, alive, stable, cursors, sent, refused, traces, toggles, failures>>

RecordReceipt(r) ==
  /\ At(r, "flag") /\ Live
  /\ snap' = MarkRecorded(snap, req[r].page)
  /\ \/ Step(r, "trace") /\ UNCHANGED <<sent, cursors, failures>>
     \/ ServingFault /\ Respond(r)
  /\ UNCHANGED <<alive, stable, history, refused, traces, toggles>>

\* enqueueServingTraceBestEffort: only the first claim is handed on.
Enqueue(i) == traces' = IF Page(i).traced THEN traces ELSE Append(traces, i)

\* One response claims the trace of a page, and hands it to the dispatcher
\* unless the claim's answer is lost or the queue is full.
ClaimTrace(r) ==
  LET i == req[r].page
  IN /\ At(r, "trace") /\ Live
     /\ snap' = [snap EXCEPT !.pages[i + 1].traced = TRUE]
     /\ \/ Enqueue(i) /\ UNCHANGED failures
        \/ ServingFault /\ UNCHANGED traces
     /\ Respond(r)
     /\ UNCHANGED <<alive, stable, history, refused, toggles>>

\* The hash is gone: after the commit that is only logged, before it the
\* request fails.
HashGone(r) ==
  /\ ~Live
  /\ \/ \E pc \in {"flag", "trace"} : At(r, pc) /\ Respond(r) /\ UNCHANGED refused
     \/ \E pc \in {"recover", "reload", "page"} : At(r, pc) /\ Refuse(r, "expired") /\ UNCHANGED <<sent, cursors>>
  /\ UNCHANGED <<snap, alive, stable, history, traces, toggles, failures>>

\* Redis or the database fails, or the response is lost with its cursor.
RequestFails(r) ==
  /\ ~At(r, "idle") /\ ServingFault
  /\ \/ \E pc \in {"record", "flag", "trace"} : At(r, pc) /\ Respond(r)
     \/ Goto(r, Idle) /\ UNCHANGED <<sent, cursors>>
  /\ UNCHANGED <<snap, alive, stable, history, refused, traces, toggles>>

-----------------------------------------------------------------------------
RequestStep(r) ==
  \/ RecoverHistory(r) \/ RecoverReceipt(r) \/ Reload(r)
  \/ LoadPage(r) \/ BuildPage(r) \/ PageRefused(r) \/ MaterializePage(r)
  \/ CommitPage(r) \/ AlreadyCommitted(r) \/ CommitRefused(r)
  \/ RecordHistory(r) \/ RecordReceipt(r) \/ ClaimTrace(r) \/ HashGone(r)

ServingNext ==
  \/ \E p \in Volatile : Toggle(p)
  \/ Expire
  \/ \E r \in Requests :
       \/ ServeFirst(r) \/ RequestStep(r) \/ Outdated(r) \/ RecoveryFails(r) \/ RequestFails(r)
       \/ \E i \in cursors : ServeCursor(r, i)
       \/ \E p \in Volatile : Map(r, p)

ServingSpec == ServingInit /\ [][ServingNext]_servingVars

\* A request under way comes to its end, and the reader keeps scrolling.
ServingFairness ==
  /\ \A r \in Requests : WF_servingVars(RequestStep(r))
  /\ WF_servingVars(ServeFirst(Reader))
  /\ WF_servingVars(\E i \in cursors : ServeCursor(Reader, i))

ServingFairSpec == ServingSpec /\ ServingFairness

-----------------------------------------------------------------------------
(* Properties.                                                             *)

Indices == 0..(Count(snap) - 1)

ServingTypeOK ==
  /\ snap.phase \in {"none", "live", "gone"} /\ Count(snap) <= MaxPages
  /\ snap.pool \subseteq Ranked /\ Cardinality(snap.pool) <= MaxPool
  /\ snap.pending \subseteq Indices
  /\ \A f, g \in snap.post : f[1] = g[1] => f = g
  /\ cursors \subseteq 1..MaxPages

\* Repeated and concurrent requests for a page get the same Posts, no Post is
\* on two pages, and what was answered is what the page was committed with.
AnswersAgree ==
  /\ \A x, y \in sent : IF x.page = y.page THEN x.posts = y.posts ELSE x.posts \cap y.posts = {}
  /\ Live => \A x \in sent : Page(x.page).committed /\ Page(x.page).returned = x.posts

\* Pages are committed in order, each Post belongs to the page its state
\* names, and an issued cursor is never called invalid.
PagesAreOrdered ==
  /\ \A i, j \in Indices : i < j /\ Page(j).committed => Page(i).committed
  /\ \A i \in Indices, p \in Ranked :
       IF Page(i).committed THEN p \in Page(i).returned <=> <<p, "used", i>> \in snap.post
       ELSE p \in Page(i).items <=> <<p, "reserved", i>> \in snap.post
  /\ "invalid" \notin refused

\* The history of a committed page is written or is still pending, a receipt is
\* never ahead of the history, and a page is traced at most once, after it.
HistoryAccounted ==
  /\ \A i \in Indices : Page(i).committed =>
       LET due == Page(i).returned # {}
       IN /\ due /\ i \notin DOMAIN history => i \in snap.pending
          /\ Page(i).recorded => (due => i \in DOMAIN history) /\ i \notin snap.pending
          /\ i \in DOMAIN history => history[i] = Page(i).returned
          /\ Page(i).traced => Page(i).recorded
  /\ \A j, k \in DOMAIN traces : traces[j] = traces[k] => j = k

\* What a feed offers: of recent Posts those that were the best when it began, of
\* the others all.
Offered == Historical \cup Soft \cup Best(MaxPool, Recent)

\* When the reader is told that nothing is left, every Post on offer that stayed
\* eligible is on some page.
DepletedIsTrue ==
  Live /\ (\E x \in sent : x.depleted) => stable \cap Offered \subseteq Known(snap)

\* Paging is consistent: see the parts.
PagingConsistent == ServingTypeOK /\ AnswersAgree /\ PagesAreOrdered /\ HistoryAccounted /\ DepletedIsTrue

\* A reader that holds a cursor and keeps scrolling reaches the end of the
\* feed, unless the snapshot expires under it.  It may be sent to the page limit
\* instead, with every page shown, when Posts changed and left pages short, or
\* when the last page was answered as read before another request ended the feed.
ReaderReachesTheEnd ==
  cursors # {} ~> \/ \E x \in sent : x.depleted
                  \/ "expired" \in refused \/ ~Live
                  \/ /\ "capacity" \in refused /\ (stable # Ranked \/ snap.exhausted)
                     /\ {x.page : x \in sent} = 0..(MaxPages - 1)
=============================================================================

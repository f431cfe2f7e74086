# Verification of the exchange platform backend

TLA+ models of the parts of `src/Go.exchange` whose correctness depends on the
order of steps of several processes: the Like write-behind pipelines, the
lifecycle of a user's Like relation, refresh-token sessions, the recommendation
profile queue and the paging of recommendations, the projection consumers with
their dead letters and replay, embedding generation, publishing and reading
Posts with their images, lists and caches, and the health and shutdown of the
two processes. TLC checks them on small instances; TLAPS proves the safety
results of section 4 for every value of the constants.

Paths below are relative to `src/Go.exchange` unless they start with `src/`.

## 1. The system

An API process (`cmd/api`) and worker processes (`cmd/worker`), each run any
number of times, share PostgreSQL, Redis and Kafka. PostgreSQL is the system of
record; Redis holds the serving state of Likes and of sessions, changed only by
Lua scripts, each of which is atomic; Kafka carries events from Redis (relays)
and from SQL (outbox and Debezium) to projection consumers, at least once.

| Component | State | Operations | What is hard | What makes it correct |
|---|---|---|---|---|
| Like snapshots: `likes/scripts.go`, `likes/store.go`, `likes/snapshot_batch.go`, `tasks/like_snapshot_relay.go`, `tasks/like_snapshot_consumer.go` | per Post `ready`, `count`, `version`; dirty set, claim hash, lease zset; topic; inbox; `posts.like_count`, `like_sync_version` | mutate, claim, load, publish, ack, requeue, reap, consume, commit | leases that expire under a living owner, partly written batches, redelivery, stale partition owners | the newest count reaches SQL; SQL never goes back |
| Post deletion: `controllers/post_delete.go`, `tasks/post_like_cleanup.go` | `deleted_at`, `post_like_cleanups` rows, deletion fence in `ready` | delete, mark, purge, acknowledge | failure between the steps, late relays | a purged Post does not come back; the deletion completes |
| Like behaviour: `likes/behavior_*.go`, `tasks/like_behavior_relay.go`, `tasks/user_behavior_consumer.go` | coalesced state per (user, Post), its queue; `post_reaction`, view counters, activity outbox, dirty profiles | mutate, claim, load, publish, ack, requeue, reap, apply batch | the ack deletes data; duplicates inside a batch | no change is lost, one activity per applied change, views count once |
| User Like lifecycle: `likes/user_lifecycle*.go`, `tasks/user_like_relation_cleanup.go` | `user:likes:<u>` set, order zset, expiry ledger, restore lock | like with eviction, unlike, expire, restore, sweep | restore reads SQL in pages under a lock with a TTL; sweep acts on an old SQL answer | Redis says what the user said last; counts equal relations; a cold user comes back |
| Refresh sessions: `auth/*.go`, `controllers/auth_*.go` | session hash, used markers, recovery records, `users.auth_version` | login, rotate, recover, logout, change password | retries against theft, several clocks, rotation before the version check | a family is a chain with one end; a password change cuts off the families before it |
| Recommendation profiles: `tasks/recommendation_profile_materializer.go`, `recommendation/dirty_repository_gorm.go`, `tasks/post_embedding.go` | `user_reco_profile_dirty`, profiles, embeddings, serving version | invalidate, claim, rebuild, retry, serve, rebase | READ COMMITTED, several statements, retry outside the lock | no invalidation is lost; profiles move forward and catch up |
| Post Like initialisation: `postlikeinit/service.go`, `likes/rebuild.go`, `controllers/post_like_recovery.go` | `post_like_init_jobs`, rebuild token | claim, initialise, acknowledge, recover | lost answers of Redis | a Post with Likes is never reset |
| Kafka batch handling, dead letters: `tasks/kafka_backlog.go`, `tasks/kafka_recovery.go`, `tasks/kafka_foreign_key_recovery.go`, `dlq`, `cmd/kafka-dlq` | offsets, dead-letter topic, replay audit | fetch, apply, isolate a missing parent, fall back to single messages, quarantine, plan and execute a replay | one bad message in a batch, a parent deleted under way, a replay with an unknown outcome | nothing is skipped without a dead letter; every replay is audited |
| Notifications, recommendation metrics: `tasks/notification_consumer.go`, `tasks/recommendation_metrics_consumer.go` | inbox, notification rows, CTR claims, daily counters | apply | redelivery, events out of order over two days | the projection depends on the set of delivered events only |
| Recommendation serving: `recommendation/service*.go`, `snapshot_store_redis.go` | one Redis hash per snapshot with pool, pages, pending history; served history; traces | build, page, repair, commit, recover history, continue into older Posts | repeated cursors, lost answers, Posts that become ineligible | a page has one content, no Post is on two pages, the end is the end |
| Embedding generation: `tasks/post_embedding*.go` | partitions, group generations, offset coordinator, provider gate | fetch, request, split, write, hold, commit | overlapping generations, content that changes, one breaker for all partitions | no offset passes an undone request; every Post gets its vector |
| Posts and images: `controllers/post_*.go`, `upload_controller.go`, `postmedia*` | Posts, counters, idempotency keys, upload leases, cleanup rows, objects | publish, delete, upload, attach, claim, collect | collection racing attachment, uploads failing halfway, repeated requests | one Post per key, no image of a live Post is deleted, every other object is |
| Lists and the Post page: `controllers/*timeline*.go`, `topic_*.go`, `*_cursor.go`, `post_cache.go` | SQL rows, cursors, cached page, fence, shared load | scroll, read, fill, invalidate | rows that come and go between pages, a fill that comes late | rows that stay are shown once; the cached page is the present one |
| Health and shutdown: `tasks/worker_health.go`, `kafka_consumer_state.go`, `kafka_backlog.go`, `runtimehealth`, `core/server.go`, `recommendation/trace_dispatcher.go`, `eventing/kafka.go` | slots, sessions, samples, readiness pages; request lifecycle, trace queue, writers | register, fail, commit, sample, forgive, evaluate, drain, close | samples older than what they speak of, shutdown racing everything | readiness is deserved and comes back; nothing closed is used |
| Translation: `translation`, `controllers/post_translation_controller.go` | Redis cache, shared flights, slots, queue | look up, join, admit, call, store, close | a leader that leaves, a cache filled meanwhile, a deadline or `Close` in the queue or during the call | a text is paid for once, slots come back, everybody is answered |
| Limits: `ratelimit`, `imagebudget` | token buckets | allow | Redis down | the limit holds |
| HTTP handlers, models, configuration, start-up, metrics, dev data, frontend, deployment | – | – | little or none | – |

`PROJECT.json` lists every component with its status, and the hazards with their
source lines and the properties that cover them.

## 2. Modules

| Module | Models | State ↔ code | Actions ↔ code |
|---|---|---|---|
| `LikeProjection` | what the snapshot pipeline promises | history and view of each Post | `Change`, `Project`, `Freeze` |
| `LikeSnapshotPipeline` | Redis queue, relays, topic, consumers, deletion | variables are named after the Redis keys and SQL columns | one per script or step of a round; see below |
| `LikeSnapshotPipeline_proofs`, `LikeBehaviorPipeline_proofs`, `UserLikeLifecycle_proofs`, `DeadLetterReplay_proofs` | theorems about the module they are named after | | |
| `Recommendation_proofs` | theorems about `ProfileMaterializer` and `RecommendationServing` | | |
| `Posts_proofs` | theorems about `PostLikeInit` and `PostLifecycle` | | |
| `Processes_proofs` | theorems about `RuntimeHealth` and `PostEmbedding` | | |
| `Requests_proofs` | theorems about `RefreshSession` and `PostReads` | | |
| `LikeBehaviorPipeline` | behaviour hash, relays, one partition, batch consumers | as above, per (user, Post) pair | as above; `ApplyRecords` is the whole transaction of a batch |
| `UserLikeLifecycle` | User → Posts relation | set, order index, ledger, lock, restoring requests, sweep | `Like`, `Unlike`, `Expire`, `BeginRestore` … `ReleaseRestore`, `ScanUserLikes` … `RemoveRelations` |
| `RefreshSession` | refresh families of one account | session hash, markers, recovery records, handlers | `StartLogin`, `IssuePair`, `StartRefresh`, `Rotate`, `Recover`, `Revoke`, `CommitChange`, … |
| `ProfileMaterializer` | dirty queue, rebuilds, embeddings, serving version | SQL tables; a profile is the rows it was built from | one per SQL statement of a rebuild, one per transaction elsewhere |
| `PostLikeInit` | durable initialisation of the Like state of a new Post | the job row, the rebuild token, the Redis state of one Post | `ClaimJob`, `CheckState`, `MarkAttempted`, `AcquireToken`, `Initialize`, … |
| `EventProjections` | the notification and the metrics consumer | topic, offset, members, inbox, projections, dead-letter topic | `Fetch`, `Quarantine`, the transaction of a batch, its halves, `LookupParent`, `Commit`, and the failure of each |
| `DeadLetterReplay` | `cmd/kafka-dlq` beside a consumer (extends the above) | the command, `kafka_dlq_replays` | `DryRun`, `Execute`, `StartReplay`, `PublishReplay`, `CompleteReplay`, … |
| `RecommendationServing` | paging through recommendations | the snapshot hash, requests, served history, cursors | one per compare-and-swap of the hash and per call between them |
| `PostEmbedding` | the embedding consumer group | partitions, generations, workers, provider gates, vectors | one per stage of a partition worker; `Acquire`, `ProviderAnswers`, `Write`, offset commits |
| `PostMedia` | objects, upload leases, cleanup rows, collectors | the same names | one per object or SQL statement of `UploadPostMedia` and `Runner.Run` |
| `PostLifecycle` | publishing and deletion (extends the above) | Posts, counters, requests | `Lookup`, `Persist`, `DeleteChild`, `DeleteRoot`, … |
| `PostLists` | eleven lists and what changes them | the SQL rows, a scroll | one per SQL statement of a page; one per handler that changes rows |
| `PostReads` | the cached Post page (extends the above and `Translation`) | cached page, fence, shared load of each process | `Read`, `FlightGet`, `FlightFence`, `FlightLoad`, `FlightSet`, `Validate`, `InvalidateWritten`, … |
| `Translation` | translating a Post | cached keys, the flight of each key, callers, lengths of `slots` and `waiters` | `Translate`, `ReadTranslation`, `DoChan`, `Acquire`, `EnterQueue`, `LeaveQueue`, `Lookup`, `Provide`, `Store`, `Close`, … |
| `ConsumerHealth` | worker readiness | `kafkaConsumerSlotState`, `workerPipelineState`, samples, probe, page | one per critical section of `workerPipelines`, per stage of a sample and of the shutdown |
| `ApiRuntime` | API readiness and shutdown | page, request lifecycle, dispatcher, publisher | one per critical section; one per stage of `shutdownAPIRuntime` |
| `PostService` | `PostLifecycle` and `PostLikeInit` side by side | | |
| `RuntimeHealth` | the two processes side by side | | |

`MC*` modules add only the instances' constants and symmetry sets. Definitions with a
suffix (`AckClaim_ClearsDirty`) are faulty variants of the definition that follows them;
nothing uses them. They record, for each property, a bug the property catches.

### Grain of atomicity

* One Lua script is one step. A Go function that calls several scripts or
  statements is several steps, with a crash possible between any two.
* One SQL transaction is one step if it takes row locks on everything it
  decides on (`ApplySnapshot`, `ApplyRecords`); a transaction that reads without locks at READ
  COMMITTED is one step per statement (`ProfileMaterializer`).
* Kafka: a topic is the sequence of messages from the committed offset on.
  Messages of one key stay in order; a failed write may have written any part
  of its batch; a consumer that lost its partition may finish the message it
  holds, and only its commit is refused.

### Like snapshots

`Mutate` is `mutateScript` where it changes something: count, version and dirty
mark in one step. `Claim` is `claimScript`, including the sample of four batches
out of which it takes unclaimed Posts. `LoadSnapshots`, `Publish`, `Ack`,
`Requeue` follow `processLikeSnapshotClaims`; the claims it defers for
requeueing are `retry`. `ReapAbandoned` and `ReapStalled` are the same script:
the first finds the lease of an owner that is gone, the second the lease of one
that still works, which needs a stall because a round is limited to half the
lease, and is therefore counted as a fault. `PurgePost` is `purgePostScript`;
`TombstoneExpires` the TTL it leaves on the deletion fence. The existing state of a Post,
what `initializeScript` writes, is `Init`.

### Like behaviour

The queue is that of snapshots with one difference, and the properties are about
that difference: `AckDelivery` deletes the state it delivered if its version is
still the one that was read. `ApplyRecords` inserts the inbox rows, collapses
the reactions of a batch to the newest per pair, upserts those that supersede
the row, writes an activity per row changed, adds view counts of events that
are new and invalidates the profiles of their users.

### User Like relation

The pipeline above appears here as the single step `Project`. Time is the number
of changes of a user, enough to order `state_changed_at` scores. `Expire` removes
a relation of which every change has been projected: the relation's TTL is days
and the projection lag is seconds, an operating assumption of the code
(`docs/like-state-recovery.md`) that the model keeps. A restore is
`BeginRestore` (lock and fence), `CreateTemp`, `LoadRelations`, `FinishRestore`
(which installs only if the lock is still its own and the fence has not moved)
and `ReleaseRestore`.

### Refresh sessions

A secret is its number in the chain. Every token ever handed out may be
presented again at any time by any handler. The clock of a handler is read
before the script runs, up to `MaxLag` ticks earlier, since the scripts take
the time as an argument. The answer of a rotation may be lost
(`HandlerFails`), after which the client may repeat it with the same request id
(`Recover`) or somebody may present the old token (`EndFamily`). Rotation, the look at
the user row (`AcceptVersion`, `RejectVersion`) and the answer (`AnswerRefresh`) are three
steps, so that a password change may commit before, between and after them. A change between
the look and the answer is not noticed: the pair that is sent is out of date, which the check of
`auth_version` on every use of an access token and the next refresh find out. What
`ChangeCutsOffFamilies` says is that a change which was there when the request
arrived is never missed: `seen` remembers the version at that moment, and each answer
carries the version of its token.

### Recommendation profiles

A profile is abstracted to what it was computed from: the rows of the four
source tables and the vectors of the Posts in them. `Begin` holds the advisory
lock; the reads are separate steps; `Materialize` replaces the profile and
deletes the claim if `dirty_version` is still the one it started from.
A row may ripen at any moment after it was written: the model does not count on the debounce.
What orders an embedding transaction and a signal is a lock that neither of them
names. `CommitEmbeddingIfCurrent` holds the row of the Post `FOR UPDATE` from its beginning;
a user's first row for that Post in `post_behaviors` or `post_reaction` has a foreign
key to it (`fk_post_behaviors_post`, `fk_post_reaction_post`, which the server insists on at
start-up, `initialize/runtime_schema.go`), so that PostgreSQL makes the insert wait for the
transaction (`PostLocked`). A later row of the same user takes no such lock, but its user has
been selected. Without the guard of `RecordSignal` on `PostLocked` TLC finds the lost vector: users selected,
signal recorded, profile rebuilt, vector committed. One fact of the deployment is
an assumption of the model: the serving version moves forward.

### Post Like initialisation

A worker's phases follow `processClaimed` and `initializeWhilePostLocked`:
claim, read SQL, read Redis, mark the job `attempted`, lock the row, take the rebuild
token, run `initializeScript`, release, commit, acknowledge or reschedule. The
number of a claim stands for the lease (`retry_after`) and for the token of the
attempt made under it. Failures come in two kinds, with separate bounds.
*Refusals* are known to have changed nothing: Redis said `LOADING`, SQL was not
there; the job returns to `pending`. *Faults* are lost answers (the script ran,
did not run, or runs late), crashes, stalls past the lease, and keys that Redis
loses. After a fault the job stays `attempted` and is only ever cleared by
finding a complete state: the code prefers a Post that cannot be liked, for an
operator to look at, to one that starts again from zero. Accordingly
`NeverRestarted` is checked with faults and `ReadyInTheEnd` without.

The runbook describes an older design: three bounded tries when the Post is created,
then, since there is "no durable retry queue", the operator
(`docs/like-state-recovery.md`, lines 16, 281-283 and 336-339). The tries are still there (`TryAgain`), but
under a job that is claimed again until the Post is ready. `LeftToTheOperator` states what the
runbook says, and the run `init_runbook` shows the code doing otherwise; only an `attempted` job
whose state is missing is left to the operator. The run takes the code for the reference, as
`ReadyInTheEnd` does.

Recovery of an existing Post (`controllers/post_like_recovery.go`) always ends in
`ErrLikeRecoveryUnsafe` (`classifyPostLikeRecovery`), so it writes nothing and is not an
action.

### Projection consumers and replay

A behaviour is about one of the two consumers on one partition. An event is
what the decoders and the projections tell apart: its flaw, the effect of its
type, its key, version, day and parent row. A batch, and each part of
it, is the set of its places in the topic; the order of the batch is that of the
numbers. `finishKafkaBatch` is followed step
by step: quarantine of what does not decode, one transaction for the rest,
halving on a foreign-key failure until single events are left, the lookup that
tells a deleted parent from a fault, and the offset commit last. Each step may
fail, and the consumer may die or lose the partition before any of them.
`DeadLetterReplay` adds the operator: the hash of a plan is the selector and the
records it stands for, and a replay is an audit row, a publication whose
outcome may be unknown, and the completion of the row.

### Recommendation serving

Every write of the snapshot hash is a compare-and-swap on its revision with a
reload on conflict, so a build or a commit is one step on the hash as it then
is, and what a request read earlier and uses later is kept in the request.
Ranking is a fixed order of the Posts, since nothing but the order of
candidates depends on it. A Post may become ineligible, or fail to be mapped to
a response, at any moment (`Toggle`, `Map`). What a feed owes its reader is
`Offered`: the older and the seen Posts, and of the recent ones those that made it into
the pool when the feed began; a recent Post the pool had no room for is dropped by
`executeUser` and never looked for again. `DepletedIsTrue` speaks of these, as far as
they stayed eligible.

### Embeddings

Generations of the consumer group overlap: a member that has not yet noticed
the new one still works and still sends commits, which the broker refuses. The
gate is the breaker with its request limit and its single probe in the half-open
state. Providers fail for a request, for a text, or panic. A batch that holds a
text the provider rejects is halved down to it, and the partition is held.

### Posts and images

An upload is: lease row, objects one by one, mark uploaded; a failure removes
what was stored and then the lease, and may fail at that. The collector claims
rows that are due, deletes their objects one by one and completes the claim
unless it was taken over. A publishing request consumes the leases of its images
in its transaction.

### Lists and the Post page

A row's number is its id; two rows in turn share a timestamp, so cursors meet
ties. Lists are scrolled one row a page while rows come and go. Offset-paged
connections may skip or repeat rows when earlier ones change; for them the
property is only about rows of an unchanged list. Of the cached page only the
reply and quote counters and the existence of the Post are told apart.

### Translation

A flight has a context of its own that ends with its deadline or some time after
`Close`; `dead` is that context, and `Over` the code's own question of the service's
lifetime before the provider is called, without which a flight begun after `Close`
could still call it. The answer is delivered in the step that gives the slot
back; a caller's own lookup, its joining and its leaving are steps. A cache write that
fails may have happened. The Post is loaded before any of this and is not asked
again, so its deletion has no part here.

### Health and shutdown

Durations are recent or not, and `Ages` is the passing of all maximum ages at
once. A failure's kind is transport or other. The number of a sample is what the
code compares it for: whether the sample is still the newest and whether a
session has moved since. A failure without a slot cannot happen to a Kafka
pipeline. Two facts the models show, neither of them a disagreement with a
document: after `FailureLimit` (three in the code) failures that are not transport
failures, an idle pipeline stays not ready until a message is committed
(`NeedsTraffic`); and the API's evaluation tests the shutdown flag and stores its page in
two steps, so a page saying ready may follow that of the shutdown until it is
too old to be shown (`MarkShuttingDown`, which the code calls twice, is one step and
one store here).

## 3. Runs

All runs set `CHECK_DEADLOCK FALSE`: the bounds on versions, time and faults let a
finite instance come to rest, while the program always accepts another request.

| Run | Instance | Shows |
|---|---|---|
| `snapshot` | 1 Post, 2 relays, 2 consumers, 2 mutations, 1 fault, fairness | `TypeOK`, `NoLostSnapshot`, `ClaimsAreLeased`, `PurgedStaysClean`, `ImplementsProjection`, `Converges`, `DeletionCompletes` |
| `behavior` | 1 pair, 2 relays, 2 consumers in batches of two, 2 mutations, 2 view requests of one event, 1 fault, fairness | `BehaviorQueued`, `ProjectedOnce`, `ReactionsMoveForward`, `ReactionsConverge` |
| `userlike` | 1 user, 2 Posts, cap 1, 2 restoring requests, 1 fault, fairness | `RelationsAgree`, `RestoreIsFaithful`, `SweepSparesServedPosts`, `StaleRelationsReclaimed`, `ColdUserRecovers` |
| `refresh` | 1 family, 2 handlers, 2 passwords, 2 rotations, 4 ticks | `FamilySafe`, `ChangeCutsOffFamilies`, `ChangesAreAuthorised` |
| `profile` | 1 user, 1 Post, 2 workers, 1 embedder, 2 signals in 1 source table, 2 versions, 1 fault, fairness | `NoLostInvalidation`, `ProfilesMoveForward`, `ProfilesCatchUp` |
| `init_runbook` | 1 Post, 1 claimant, 3 tries, 2 claims, 3 refusals, fairness | `LeftToTheOperator` violated: the runbook's "no durable retry queue" against the code's |
| `replay` | either consumer with 3 kinds of events in a topic of 3, batches of two, 2 members, 1 fault, 1 replay, fairness | `EventsAccounted`, `ProjectionsExact`, `BacklogDrains` |
| `serving` | 6 Posts (4 recent, 1 older, 1 seen), pages of two, at most 3 of them, pool of 5, 2 requests, 1 change, 1 fault, fairness | `PagingConsistent`, `ReaderReachesTheEnd` |
| `embedding` | 2 Posts on 2 partitions, 2 members, 2 generations, 3 disturbances, fairness | `EmbeddingSafe`, `EmbeddingsCatchUp` |
| `posts` | 1 image, 3 requests with 2 keys, 2 collectors, 2 faults; 1 Post, 2 claimants, 2 tries, 4 claims, 2 refusals, 2 faults; fairness | `PostsSafe`, `PostsSettle`; `JobsSafe`, `NeverRestarted`, `ReadyInTheEnd` |
| `reads` | 3 users, 5 Posts, each of 11 lists, 2 changes; 2 processes, 2 reads of the page; 3 requests for up to 3 translations, 1 slot, 1 place in the queue, 2 failures; fairness | `ReadsSafe`, `NoPostTwice`, `ReadsSettle` |
| `health` | one reader or two, generations, a relay, 2 overlapping samples; 2 requests, 1 topic, 2 faults; fairness | `RuntimeSafe`, `ForgivenFairly`, `RuntimeSettles` |

An invariant of a run is a conjunction of named parts where one instance answers
several questions: `FamilySafe` is `SingleSuccessor`, `MarkersCoverFamily`, `LoggedOutStaysOut`
and `AbsoluteLifetime`; `EventsAccounted` is `NothingSkipped`, `QuarantineIsDeserved` and
`ReplaysAreAudited`; `RuntimeSafe` is `ProofsAreCurrent`, `SessionsHaveReaders`, `ProbeEndsNotReady`,
`ChannelsUsedRightly` and `NothingLeftOpen`; and so on, each with the module's `TypeOK`. The parts
have comments of their own.

**Bounds.** Posts and pairs do not interact except through a batch, so one Post
with two relays and two consumers contains every race of the queue: a stale
owner and a new one. Two mutations are needed for a change under a claim. The
cap of one with two Posts makes each second Like an eviction. Two passwords and
two handlers make two concurrent changes from the same password possible; three
ticks of absolute and two of idle lifetime let either limit be the one that
binds. In `profile` signals are written to one of the four source tables only: a
signal or an embedding still arrives before, between and after the reads. In
`replay` three messages allow a duplicate and a message that does not decode in one
batch, and an impression that arrives after the one it precedes. In `serving` the
four recent Posts fill the preselected pages, the older one needs the historical
scan, the seen one the last source, and the pool is one too small for all. In
`embedding` the second member takes over one of two partitions, so that the gate
of the first is shared and its old worker overlaps the new one. In `posts` two
collectors are a stalled one and the one that takes over; of the two claimants of a job one is
the owner whose claim has run out, and the two refusals use up the tries of one claim. In `reads` one row a page
puts a change between any two rows; three texts over one slot and one place in
the queue are the least that make a flight wait and another be refused, and
requests and texts, which are interchangeable, come in order. In `health` the failure limit is two, so that
failures below and at the limit occur within the bound; one sample running and
one left behind are all that may overlap, since a round waits for its budget only.

**Fairness.** Relays, consumers, the cleanup pass, the relation sweep, the
materializer, the partition workers and the samplers are loops on tickers or
blocking fetches that go on after errors, so their steps are weakly fair, and so
is a request under way; requests of users and faults are not fair, and faults
are finite in number. Strong fairness is used three times: the sweep visits
every user of the registry in turn (`ScanUserLikes`), the materializer takes due rows
oldest first, so a user who is due again and again is taken in the end
(`Begin`), and a worker that keeps waiting for a permit of the provider gate gets one
(`Acquire`: waiters are woken whenever one is released). Where a property is about
what a client finally sees the client goes on: cold users keep asking (`BeginRestore`, `ServeProfile`),
the reader keeps scrolling (`serving`, `reads`), the collector is run again and again
(`posts`, a scheduled job), cached pages expire, the broker settles and samples arrive in time
once faults stop (`health`: `Ages` is a counted disturbance). A flight of `Translation`
is fair because the cache and the provider are called with a time limit.

## 4. Proofs

Each `*_proofs` module proves results about the module it is named after (`Posts_proofs`
about two models of a Post, `Recommendation_proofs` about profiles and about paging, `Processes_proofs` about the worker and API processes and
about the embedding consumer, `Requests_proofs` about refresh tokens and about reading
Posts), for arbitrary
constants: any sets of users, Posts, sessions, processes and tokens, finite or
not, and any bounds. The only hypotheses are the named assumptions of the
model (a null value is none of the tokens, the cap is positive, a consumer group has
a member, an event id belongs to one event, the Posts on the embedding topic are finitely many,
the tables at the start are finite and have their unique keys, the Posts of a feed are
finitely many ranks and no more pages are selected ahead than a feed may have,
bounds are naturals), which TLC evaluates in every run. The bounds on versions, ticks and
faults stay in the guards as parameters, so a theorem holds however large they are.

None of the properties is inductive as it stands: each speaks of what is visible
in the end and not of what a process in the middle of its work relies on. Each
module therefore has an inductive invariant made of named parts, each about one such
reliance; they were checked with TLC on the instance of the module's run before they
were proved. A `Cases` lemma, or the case split of each proof, names every
action; *frame* lemmas say which actions change a variable at all, *moves*
lemmas what one action does to the state, and the proof of each part uses
those. The temporal theorems follow by `PTL` from initialisation, step and consequence.

| Module | Theorem | States |
|---|---|---|
| `LikeSnapshotPipeline_proofs` | `TypeCorrect` | `Spec => []TypeOK` |
| | `NothingLost` | `Spec => []NoLostSnapshot` |
| | `QueueSound`, `PurgedClean` | `Spec => []ClaimsAreLeased`, `Spec => []PurgedStaysClean` |
| | `Refinement` | `Spec => ImplementsProjection` |
| `LikeBehaviorPipeline_proofs` | `NothingLost` | `Spec => []BehaviorQueued` |
| | `AppliedOnce` | `Spec => []ProjectedOnce` |
| | `MovesForward` | `Spec => ReactionsMoveForward` |
| `UserLikeLifecycle_proofs` | `RestoresFaithfully` | `Spec => []RestoreIsFaithful` |
| | `IndexesAgree` | `Spec => []RelationsAgree` |
| | `SweepsSpare` | `Spec => SweepSparesServedPosts` |
| `Requests_proofs` | `FamiliesAreSafe` | `Spec => []FamilySafe` |
| | `ChangesCutOff` | `Spec => ChangeCutsOffFamilies` |
| | `ChangesAuthorised` | `Spec => ChangesAreAuthorised` |
| | `ReadsAreSafe` | `ReadsSpec => []ReadsSafe` |
| | `NoPostComesTwice` | `ReadsSpec => NoPostTwice` |
| `Recommendation_proofs` | `InvalidationsKept` | `Spec => []NoLostInvalidation` |
| | `ProfilesForward` | `Spec => ProfilesMoveForward` |
| | `PagingIsConsistent` | `ServingSpec => []PagingConsistent` |
| `Posts_proofs` | `JobsAccounted` | `Spec => []JobsSafe` |
| | `EmptyStateOnce` | `Spec => NeverRestarted` |
| | `PostsAreSafe` | `LifecycleSpec => []PostsSafe` |
| `DeadLetterReplay_proofs` | `EventsAreAccounted` | `Spec => []EventsAccounted` |
| | `ProjectionsAreExact` | `Spec => []ProjectionsExact` |
| `Processes_proofs` | `ProcessesSafe` | `FairSpec => []RuntimeSafe` |
| | `ForgivenOnlyFairly` | `FairSpec => ForgivenFairly` |
| | `EmbeddingsAreSafe` | `EmbeddingSpec => []EmbeddingSafe` |

`BehaviorQueued`, `RelationsAgree`, `FamilySafe`, `NoLostInvalidation`, `JobsSafe`,
`PostsSafe`, `EventsAccounted`, `RuntimeSafe`, `EmbeddingSafe`, `ReadsSafe` and `PagingConsistent` have the type
invariant of their module among their parts.

### Like snapshots

`NoLostSnapshot` does not say why an acknowledgement may
drop a claim, nor why a message may leave the topic. The inductive invariant
`DeliveryInv` adds both:

* `OwnerInv`: a partition has one owner, and what it holds is the first
  uncommitted message, so that a commit never skips a message nobody applied;
* `AppliedInv` and `InboxInv`: a message that was applied, and an event id in
  the inbox, is not newer than the SQL row, unless the Post is deleted, so that
  neither a commit nor a duplicate loses anything;
* `LoadedInv`: the snapshot a round is about to publish under a claim it still
  owns is the newest one, or the Post has been marked dirty since;
* `PublishedInv`: the same after publication, with the newest state in the
  topic or in SQL, so that the acknowledgement may drop the claim;
* `RoundInv` and `CoveredInv`: a round under way has a token; `NoLostSnapshot`
  restated with `InFlight`.

`QueueInv` joins the last three. The refinement rests on `HistoryInv`: what
Redis (while the Post is served), the rounds, the topic and the consumers hold
are states of the Post's history, and Redis holds the newest.

### Like behaviour

The argument has the same shape, with batches for single messages: `OwnerInv` makes
the batch of the owner the uncommitted prefix of the log, `AppliedInv` and `InboxInv`
bound what was applied by the reaction row, `PublishedInv` and `KeptInv` say that what
the hash no longer holds is in flight. Because the acknowledgement here deletes the
state, `HistoryInv` is needed for safety and not only for forward motion: a version
names one state of a pair, and the hash holds the newest or nothing. That a batch of
repeated and outdated events still yields one row per pair rests on `NewestExists`,
and that a view counts once on `ViewersFinite`, the finiteness of the sets
whose cardinality the counters are.

### User Like relation

`RestoreIsFaithful` would be lost if a request installed what it loaded before the
user changed something, or if a user expired with changes SQL does not have.

* `ColdInv`: the row of a user without a set is what the user last said;
* `FenceInv`: the deadline a request read is at most the ledger's, and as long as it
  *is* the ledger's the user has stayed cold: every step that brings the set
  back or changes it advances the ledger;
* `LoadedInv`: under an unmoved fence what the request holds is what SQL still says
  of the Posts that are not deleted;
* `CountInv`: the count of a served Post is the number of users who last said
  they like it; from this and `RestoreIsFaithful` follows `CountMatchesRelations`;
* `SweepInv`, `PostInv`: what the sweep has checked is deleted, and Redis takes a
  Post for deleted only after SQL does;
* `FiniteInv`, `ShapesAgree`, `ShapeInv`: sets are finite, indexes agree, records
  have their fields.

The lock is not among them: the proof does not use it. The fence alone makes a
restore faithful; the lock saves work.

### Refresh sessions

`SingleSuccessor` is about answers already sent. The proof goes through `Grants`: an
answer, the recovery record kept for it and a handler about to send it all
carry the right of one request to one successor. `GrantInv` says that two
grants for one secret are one, and that the family has moved past a granted
secret. `MarkerInv` adds that markers outlive the absolute deadline, `HandlerInv` that the clock of a
handler is at most `MaxLag` old and that a handler changing the password which has
seen the present version has seen the present password, and `LogoutInv` that a logged-out family is
created and gone. `ChangeCutsOffFamilies` compares the login of a family with the arrival of a
request, which no single step sees. `VersionInv` carries the version from the login to the
family, through its rotations to every handler that holds a grant of it, and to all
answers; `HandlerInv` says that a handler which found the row in agreement holds a
version no older than its request.

### Recommendation profiles

`NoLostInvalidation` depends on what a materializer may conclude from finding its
claim unchanged at the end. `WorkerInv`: two of them never hold one user's lock.
`QueueInv`: the row of a held user stays and its version only rises. `ReadInv`: as long as the version is the claimed
one, what has been read is what the tables hold. `OpenInv`: an embedding transaction in the serving version that is still open has found every user of
its Post, because the lock on the Post keeps new ones out until it ends. `ForwardInv` bounds the
profile by what a materializer has read and that by the tables; `ProfilesMoveForward` follows from
it.

### Recommendation serving

`PagingConsistent` compares what was answered with a hash that other requests build on,
commit and cut short. `ServingInv` says what the hash is and what a request may rely on:

* `SnapshotOK`: fields and pages agree (a reserved Post is on the open page its field
  names, a used one was returned by a committed page), the committed pages are the first
  ones, a pending page is committed and has no receipt, and every Post on offer that
  stayed eligible is in the pool, or known, or still in front of a scan that is not done
  (`Reachable`). From the last part and empty tiers follows that nothing is left when
  `snapshotCanDeclareExhausted` says so.
* `LiveRequestOK`: the page a request asks for is named by the committed page before it,
  and so survives every commit that drops later pages; what it is about to commit
  contains every Post of the open page that stayed eligible; what it answers is what the
  page was committed with; an entry precedes its receipt, a receipt the trace. A request
  told that nothing is left was told so for good.
* `AnswersInv` counts a request that is about to answer among the answers, because the
  answer of a request that fails after its commit is still given.
* `HistoryInv`: what is recorded is what the page was committed with, and a page with
  Posts that is not recorded is still pending.

A step of one request meets the others only through `Follows`: committed pages stay as
they are, open pages that somebody was sent to stay or are committed, and what was
exhausted stays so. Each action is shown to be such a step (a build, a mark, a commit,
or nothing) by `BuildsOK`, `MarkedOK`, `CommittedOK`, and what is exhausted in
`Creations` and `Builds` by `DeclaredRightly`. `FillsAre` says what the two scans
return: all that is eligible behind their position, when they claim to be done. The
pages selected ahead are a recursive function: `PreselectUnfolds` shows that it exists,
and that each of them is in order follows from a first one that is not.

### Like initialisation

`NeverRestarted` is about a script that may run long after the worker that called it
gave up, and `JobsSafe` about jobs cleared by workers that no longer own them. `AttemptInv` is the
heart: there is at most one attempt at a Post, none while its job is
pending, and during it nothing was written and no script is on its way. It holds because a job
becomes pending again only by an attempt that is known to have changed nothing,
and because what a worker saw of a job stays so while its claim is in the row (`SeenInv`, over
`StampInv`: a claim's number belongs to one worker). `BornInv`: a Post with a state has no
token any more, so that a late script writes nothing. `DeletionInv`: the row lock keeps the
deletion out of an open transaction, the deletion takes the token away. `AckInv`: the
acknowledgement is reached with a reason only. Every action is shown to be one of five
kinds of steps (claim, mark, walk, stop, a step of the Post), and each part of the invariant is
proved by kind.

### Posts and images

`MediaAccounted` relates objects and rows that three actors touch: the upload request,
the request that publishes, and collectors, of which those that have lost their claim
still act. `UploadOK` says that a running request owns its lease, which is not
due; `RowsOK`, that what may be published is complete and that what was
published has no lease and, while it is shown, no cleanup row. `ClaimOK` is what makes a
stale collector harmless: a claim, current or not, is of an image whose request is over,
and either of one that was published or of one that never will be. So the
objects it takes away are never those of a Post that was published in between, and
the comparison of tokens when it completes is needed for progress only. `Sole`
(an image is in one Post) and the counters, as cardinalities of the live replies and
quotes, are kept because a Post is added by its key once and dies once.

### Projections, dead letters and replay

`NothingSkipped` speaks of what lies behind the committed offset; a consumer moves the
offset over a batch of which it has applied some parts, quarantined some records and split
the rest. `ReadersInv` says of every member, stale ones included, what it has in hand:

* `BatchOK`, `BadOK`, `TodoOK`: the batch is a stretch of the topic that begins behind its
  offset; what could not be decoded is still to be quarantined or was; the parts
  still to apply are decoded records, the terminal ones dead letters;
* `CoverOK`: a record that is in none of the parts is handled. A duplicate that the
  metrics consumer drops is handled with its first copy, because an id names one
  event (`EventsAssumption`);
* `LoneOK`: rows only disappear, so that a transaction saw all rows that are left, and a
  record that is looked up after it was isolated has lost its row for good.

`OwnerInv` (the owner reads on from the committed offset) then makes a commit skip
nothing. `ToolInv` is the same for the command: it works through
records of its plan, the row it started is not sent before the publish and is sent
after it. The steps of the command and those of the consumers meet in the topic and
in the dead-letter topic, which both only grow; *monotone* and *stable* lemmas carry
each side over the steps of the other.

`ProjectionsExact` is proved on top. For notifications, `NotificationsInv`: the version
shown is that of a delivered activity, none with its row there is newer, and no version
above it is marked as read. For the counters, `MetricsInv` and, inside the transaction,
`TxOK`: after every record, claims are exact for the events delivered so far, and what is stored
and what is to be added make up the size of each cohort, unless the transaction has
failed. An impression that is earlier than the cohort moves it, a click joins it, and the counts follow by
`OneMoved` and `CohortMoved`. That holds whatever the order of the records; the order by
event time is not used. `ClaimEvents` is a recursion over sets of records;
`Unfolding` shows that it is well founded, and inductions over finite
sets are arguments about a least counterexample (`LeastSet`, `LeastNumber`, `FiniteInduction`).

### Health and shutdown

The two processes share nothing, so the invariant is one of each and every step keeps
the other by a frame lemma. For the worker, `SessionInv` relates the slot that the
health page reads to the loop that runs: a session is that of the loop's
registration, and its version is the registration's until the reader
breaks, one more afterwards. That is why an unregistration finds its own session and no other,
and why a proof, which names a version, is of a reader that still fetches. `SampleInv` says what a sample that
is still in time may conclude: the sessions it matched with the group were ready when it began,
and every failure or commit it has missed (`hurt`) has moved the counter of some slot,
so that the comparison under the lock in `markKafkaIdleRecovered` catches it.
`MembershipCurrent` and `RecoveryHolds` need nothing else; in particular the proof does not
use that a sample left behind has run out of its budget. For the API,
`RequestsInv`, `TraceInv` and `PublisherInv` tie the stage of the shutdown to what each
channel, queue and writer may still be used for.

### Embeddings

A commit skips nothing because of what the worker that makes it has in hand. `BatchOK`
says of every worker, those of an old generation included, that the messages in front
of its batch are handled, and that a message of the batch is handled or its Post is in a group still to
be requested or among the items still to be written (`Awaits`); halving a group
keeps the Posts of both halves. What is handled stays handled, because content moves on only
with its embedding reset and its new version is asked for by a later message; a late write
of an old generation is of the content that is there. `OffsetsAgree` (the broker's offset is where the
owner's batch begins, or, with an answer lost, where it ends) is a part of the
invariant itself. `GateOK` adds to the counts that the epochs of the permits held do not lie
after the gate's, which is why an answer from before the circuit opened
neither closes it nor opens it again. That the items read for a batch miss no place
follows from `WorkItems` being injections between sets of one size.

### Lists, the Post page and translation

`ReadsSafe` is about three things that share the tables or nothing at all. `ReadsInv`
has a part for each, and `TablesInv`: ids and the pairs that are unique keys stay so, which
is what makes every list a finite, totally ordered set of rows (`Ordered`).

* `ScrollInv`. `StableRowsShown` and `NoRowTwice` speak of the moment between two pages; the
  invariant says what holds between the queries of one page as well. `SeenOK`: what was
  shown is at the cursor or before it, and was counted once. `RowsOK`: the candidates found so
  far are at most a page and one, after the cursor, and in buckets before the one
  to be looked at. `StableOK`: a row that stayed and was not shown is still to come
  (`Awaited`): after the cursor, or in a bucket not yet passed, or
  among the candidates, or behind enough of them to fill the page. Of connections, which are
  paged by offset, it says that as many rows as the offset are before it, as
  long as none of the list went away. The `Top…` lemmas say what `ORDER BY … LIMIT` returns,
  `TopAhead` that a row left out of it has a whole page before it.
* The first page of Following is the exception: it reads a few activities of each followed
  user and may not see the row at all. `FirstPageReaches` shows that it can do without: what was cut off
  is behind as many activities of the same user and kind, these are of different Posts,
  and the winners of those Posts, all different, fill the page.
* `CacheInv`: with no invalidation pending or lost, the cached page is the present one, and so is what
  a load holds that is about to write it under the fence it read before the Post. A fence is new
  whenever it is made, so that an old load never finds its own again.
* `TranslationInv`: slots and places in the queue are the numbers of flights at the stages that
  hold one; a text is paid for once unless the cache failed, because what was paid is
  cached or about to be, and a flight looks once more when it has its slot; time
  is up only by the deadline or `Close`, never because who asked first has left.

`NoPostTwice` follows from `SeenOK` alone: rows of a later page are winners after the
cursor, what was shown is not, so that the activity shown would have won had it
still been there.

### What is only model-checked

Liveness (`Converges`, `DeletionCompletes` and the other properties under `FairSpec`,
`ServiceFairSpec`, `ServingFairSpec`, `EmbeddingFairSpec` or `ReadsFairSpec`): fairness and `ENABLED`
are beyond the prover. Every safety invariant and every action property of the runs has a theorem.

## 5. What is not modelled

Numeric code (ranking, fusion, decay, image processing), formatting, logging
and metric gauges; the content of tokens, passwords, vectors and texts; Debezium
and the broker, except through what consumers see; Redis losing acknowledged
writes, which the code meets with the recovery procedures of
`docs/like-state-recovery.md` rather than in a protocol.

Whole parts: rate limiters and image budgets (one script or one semaphore each), exchange rates, retention jobs, recommendations for guests, the telemetry
controller and its click cooldown (the consumer takes whatever it publishes),
avatars and covers, user profiles and suggestions, start-up and migrations, the
import of development data beyond its effect on lists and embeddings, the
frontend.

## 6. Plan

Next, in this order:

1. An abstract specification of the projection consumers (every message is
   applied or quarantined, once), with `EventProjections` shown to implement it.
2. The telemetry controller composed with the metrics consumer.

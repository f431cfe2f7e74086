------------------------ MODULE ProfileMaterializer ------------------------
(***************************************************************************)
(* Recommendation profiles are derived data.  Every transaction that writes *)
(* a source signal or the embedding of a Post also raises dirty_version of *)
(* the users concerned in user_reco_profile_dirty; a materializer rebuilds *)
(* a dirty user's profile and deletes the queue row if it is still the one *)
(* it started from.                                                        *)
(*                                                                         *)
(*   recommendation/dirty_repository_gorm.go, source.go                    *)
(*   recommendation/profile_repository_gorm.go                             *)
(*   tasks/recommendation_profile_materializer.go, tasks/post_embedding.go *)
(*   embeddingstate/serving.go                                             *)
(*                                                                         *)
(* PostgreSQL runs at READ COMMITTED: every statement of a transaction     *)
(* sees what is committed when it runs, so each read is a step.            *)
(***************************************************************************)
EXTENDS Integers, FiniteSets

CONSTANTS
  Users, Posts,
  Workers,      \* materializers, in one process or several
  Embedders,    \* Post embedding consumers
  MaxSignals,   \* bound: signals of one user and Post in one table
  MaxTables,    \* how many of the four source tables the instance writes to
  MaxEmbeds,    \* bound: embeddings of one Post and version
  MaxServing,   \* bound: switches of the serving version
  MaxFaults     \* bound: failed rebuilds and crashes, in all

ASSUME BoundsAssumption ==
  /\ MaxSignals \in Nat /\ MaxEmbeds \in Nat /\ MaxServing \in Nat \ {0} /\ MaxFaults \in Nat
  /\ MaxTables \in 1..4

VARIABLES
  rows,       \* rows[u][k][p]: the signals of u about p in source table k
  embedding,  \* post_embeddings: how often the vector of <<p, version>> was written
  serving,    \* embedding_serving_state.serving_version
  dirty,      \* user_reco_profile_dirty
  profile,    \* user_reco_profiles, with the state tables replaced along with it
  worker,     \* worker[w]: where w is in materializeRecommendationProfileUser
  embedder,   \* embedder[e]: the open embedding transaction
  faults

vars == <<rows, embedding, serving, dirty, profile, worker, embedder, faults>>

-----------------------------------------------------------------------------
\* LoadSourceSignals, query by query.
Sources == <<"views", "replies", "feedback", "reactions">>
Kinds   == {Sources[i] : i \in 1..4}

Versions == 1..MaxServing
Rows     == [Kinds -> [Posts -> Nat]]
NoRows   == [k \in Kinds |-> [p \in Posts |-> 0]]
NoEmbs   == [p \in Posts |-> 0]

NoRow     == [version |-> 0, due |-> FALSE]
NoProfile == [serving |-> 0, rows |-> NoRows, emb |-> NoEmbs]

IdleWorker   == [phase |-> "idle", users |-> {}, version |-> 0, next |-> 0, built |-> NoProfile]
IdleEmbedder == [phase |-> "idle", posts |-> {}, version |-> 0, users |-> {}]

\* The Posts some row of r is about.
Interacted(r) == {p \in Posts : \E k \in Kinds : r[k][p] > 0}

Open == {e \in Embedders : embedder[e].phase # "idle"}

Fault == faults < MaxFaults /\ faults' = faults + 1

-----------------------------------------------------------------------------
TypeOK ==
  /\ rows \in [Users -> Rows]
  /\ embedding \in [Posts -> [Versions -> Nat]]
  /\ serving \in Versions
  /\ \A u \in Users : dirty[u].version \in Nat /\ dirty[u].due \in BOOLEAN
  /\ profile \in [Users -> [serving : 0..MaxServing, rows : Rows, emb : [Posts -> Nat]]]
  /\ \A w \in Workers :
       /\ worker[w].phase \in {"idle", "claimed", "reading", "built", "retry"}
       /\ worker[w].users \subseteq Users
       /\ worker[w].phase # "idle" => worker[w].version > 0 /\ Cardinality(worker[w].users) = 1
  /\ \A e \in Embedders :
       /\ embedder[e].phase \in {"idle", "selected"}
       /\ embedder[e].posts \subseteq Posts /\ embedder[e].users \subseteq Users
  /\ faults \in 0..MaxFaults

Init ==
  /\ rows = [u \in Users |-> NoRows]
  /\ embedding = [p \in Posts |-> [v \in Versions |-> 0]]
  /\ serving = 1
  /\ dirty = [u \in Users |-> NoRow]
  /\ profile = [u \in Users |-> NoProfile]
  /\ worker = [w \in Workers |-> IdleWorker]
  /\ embedder = [e \in Embedders |-> IdleEmbedder]
  /\ faults = 0

-----------------------------------------------------------------------------
(* The dirty queue.                                                        *)

\* INSERT ... ON CONFLICT DO UPDATE dirty_version + 1: the debounce starts over.
InvalidateProfiles(S) ==
  dirty' = [u \in Users |->
    IF u \in S THEN [version |-> dirty[u].version + 1, due |-> FALSE] ELSE dirty[u]]

\* INSERT ... ON CONFLICT DO NOTHING.
EnsureProfilesQueued(u) ==
  dirty' = IF dirty[u] = NoRow
           THEN [dirty EXCEPT ![u] = [version |-> 1, due |-> FALSE]] ELSE dirty

\* dirty_at and next_attempt_at have passed: only the clock decides, whatever
\* transactions are open.
Ripen(u) ==
  /\ dirty[u] # NoRow /\ ~dirty[u].due
  /\ dirty' = [dirty EXCEPT ![u].due = TRUE]
  /\ UNCHANGED <<rows, embedding, serving, profile, worker, embedder, faults>>

DeleteClaim_AnyVersion(u, v) == dirty' = [dirty EXCEPT ![u] = NoRow]

DeleteClaim(u, v) == dirty' = IF dirty[u].version = v THEN [dirty EXCEPT ![u] = NoRow] ELSE dirty

-----------------------------------------------------------------------------
(* Writers of source data.                                                 *)

\* The foreign keys to posts make the insert of a signal share-lock the key of
\* its Post (FOR KEY SHARE), which an embedding transaction holds FOR UPDATE; an
\* update of a row that is there takes no lock on the Post.
PostLocked(p) == \E d \in Open : p \in embedder[d].posts

\* A view, reply, feedback or reaction, with its invalidation.
RecordSignal(u, k, p) ==
  /\ k \in {Sources[i] : i \in 1..MaxTables}
  /\ rows[u][k][p] < MaxSignals
  /\ rows[u][k][p] = 0 => ~PostLocked(p)
  /\ rows' = [rows EXCEPT ![u][k][p] = @ + 1]
  /\ InvalidateProfiles({u})
  /\ UNCHANGED <<embedding, serving, profile, worker, embedder, faults>>

\* Lock the Post, share-lock the serving version, find the users concerned.
SelectUsers(e) ==
  /\ embedder[e].phase = "idle"
  /\ \E p \in Posts, v \in Versions :
       /\ embedding[p][v] < MaxEmbeds
       /\ ~PostLocked(p)
       /\ embedder' = [embedder EXCEPT ![e] =
            [phase |-> "selected", posts |-> {p}, version |-> v,
             users |-> {u \in Users : v = serving /\ p \in Interacted(rows[u])}]]
  /\ UNCHANGED <<rows, embedding, serving, dirty, profile, worker, faults>>

CommitEmbedding(e) ==
  LET x == embedder[e]
  IN /\ x.phase = "selected"
     /\ embedding' = [p \in Posts |-> IF p \in x.posts
                                      THEN [embedding[p] EXCEPT ![x.version] = @ + 1] ELSE embedding[p]]
     /\ InvalidateProfiles(x.users)
     /\ embedder' = [embedder EXCEPT ![e] = IdleEmbedder]
     /\ UNCHANGED <<rows, serving, profile, worker, faults>>

AbortEmbedding(e) ==
  /\ embedder[e].phase = "selected"
  /\ Fault
  /\ embedder' = [embedder EXCEPT ![e] = IdleEmbedder]
  /\ UNCHANGED <<rows, embedding, serving, dirty, profile, worker>>

\* The operator switches models, forward as README.md describes it; the update
\* waits for the share locks of open embedding transactions.
SetServingVersion ==
  /\ serving < MaxServing
  /\ Open = {}
  /\ serving' = serving + 1
  /\ UNCHANGED <<rows, embedding, dirty, profile, worker, embedder, faults>>

-----------------------------------------------------------------------------
(* The materializer.                                                       *)

Begin_NoLock(w, u) ==
  /\ worker[w].phase = "idle"
  /\ dirty[u] # NoRow /\ dirty[u].due
  /\ worker' = [worker EXCEPT ![w] = [IdleWorker EXCEPT !.phase = "claimed", !.users = {u}, !.version = dirty[u].version]]
  /\ UNCHANGED <<rows, embedding, serving, dirty, profile, embedder, faults>>

\* pg_try_advisory_xact_lock, then the row; the lock lasts as long as the
\* transaction.
Begin(w, u) ==
  /\ worker[w].phase = "idle"
  /\ \A x \in Workers : worker[x].phase \in {"claimed", "reading", "built"} => u \notin worker[x].users
  /\ dirty[u] # NoRow /\ dirty[u].due
  /\ worker' = [worker EXCEPT ![w] = [IdleWorker EXCEPT !.phase = "claimed", !.users = {u}, !.version = dirty[u].version]]
  /\ UNCHANGED <<rows, embedding, serving, dirty, profile, embedder, faults>>

LoadServingVersion(w) ==
  /\ worker[w].phase = "claimed"
  /\ worker' = [worker EXCEPT ![w].phase = "reading", ![w].next = 1, ![w].built.serving = serving]
  /\ UNCHANGED <<rows, embedding, serving, dirty, profile, embedder, faults>>

LoadSourceSignals(w) ==
  LET k == Sources[worker[w].next]
  IN /\ worker[w].phase = "reading" /\ worker[w].next <= 4
     /\ \E u \in worker[w].users :
          worker' = [worker EXCEPT ![w].next = @ + 1, ![w].built.rows[k] = rows[u][k]]
     /\ UNCHANGED <<rows, embedding, serving, dirty, profile, embedder, faults>>

\* The vectors, in the version read before, of the Posts found before.
LoadPostEmbeddings(w) ==
  LET b == worker[w].built
  IN /\ worker[w].phase = "reading" /\ worker[w].next = 5
     /\ worker' = [worker EXCEPT ![w].phase = "built",
          ![w].built.emb = [p \in Posts |-> IF p \in Interacted(b.rows) THEN embedding[p][b.serving] ELSE 0]]
     /\ UNCHANGED <<rows, embedding, serving, dirty, profile, embedder, faults>>

\* Replace everything derived, delete the claim, commit.
Materialize(w) ==
  /\ worker[w].phase = "built"
  /\ \E u \in worker[w].users :
       /\ profile' = [profile EXCEPT ![u] = worker[w].built]
       /\ DeleteClaim(u, worker[w].version)
  /\ worker' = [worker EXCEPT ![w] = IdleWorker]
  /\ UNCHANGED <<rows, embedding, serving, embedder, faults>>

\* The transaction rolls back and the lock is gone before the claim is put off.
MaterializeFails(w) ==
  /\ worker[w].phase \in {"claimed", "reading", "built"}
  /\ Fault
  /\ worker' = [worker EXCEPT ![w].phase = "retry"]
  /\ UNCHANGED <<rows, embedding, serving, dirty, profile, embedder>>

\* next_attempt_at moves, at most five minutes; by now the row may be a new one
\* with the same version.
RetryClaim(w) ==
  /\ worker[w].phase = "retry"
  /\ dirty' = [u \in Users |->
       IF u \in worker[w].users /\ dirty[u].version = worker[w].version
       THEN [dirty[u] EXCEPT !.due = FALSE] ELSE dirty[u]]
  /\ worker' = [worker EXCEPT ![w] = IdleWorker]
  /\ UNCHANGED <<rows, embedding, serving, profile, embedder, faults>>

WorkerCrash(w) ==
  /\ worker[w].phase # "idle"
  /\ Fault
  /\ worker' = [worker EXCEPT ![w] = IdleWorker]
  /\ UNCHANGED <<rows, embedding, serving, dirty, profile, embedder>>

ServeProfile_NoRecovery(u) ==
  /\ profile[u].serving = 0
  /\ EnsureProfilesQueued(u)
  /\ UNCHANGED <<rows, embedding, serving, profile, worker, embedder, faults>>

\* A request finds no profile, or one of another version: it is queued.
ServeProfile(u) ==
  /\ profile[u].serving # serving
  /\ EnsureProfilesQueued(u)
  /\ UNCHANGED <<rows, embedding, serving, profile, worker, embedder, faults>>

\* next_rebuild_at has passed.
Rebase(u) ==
  /\ profile[u].serving # 0
  /\ EnsureProfilesQueued(u)
  /\ UNCHANGED <<rows, embedding, serving, profile, worker, embedder, faults>>

-----------------------------------------------------------------------------
WorkerNext(w) ==
  \/ \E u \in Users : Begin(w, u)
  \/ LoadServingVersion(w) \/ LoadSourceSignals(w) \/ LoadPostEmbeddings(w) \/ Materialize(w)
  \/ MaterializeFails(w) \/ RetryClaim(w) \/ WorkerCrash(w)

UserNext(u) ==
  \/ \E k \in Kinds, p \in Posts : RecordSignal(u, k, p)
  \/ Ripen(u) \/ ServeProfile(u) \/ Rebase(u)

Next ==
  \/ \E w \in Workers : WorkerNext(w)
  \/ \E u \in Users : UserNext(u)
  \/ \E e \in Embedders : SelectUsers(e) \/ CommitEmbedding(e) \/ AbortEmbedding(e)
  \/ SetServingVersion

Spec == Init /\ [][Next]_vars

\* The poll takes due rows oldest first, so no user is passed over for ever;
\* transactions end; users come back to the For You page.
Fairness ==
  /\ \A u \in Users : WF_vars(Ripen(u)) /\ SF_vars(\E w \in Workers : Begin(w, u)) /\ WF_vars(ServeProfile(u))
  /\ \A w \in Workers :
       WF_vars(LoadServingVersion(w) \/ LoadSourceSignals(w) \/ LoadPostEmbeddings(w) \/ Materialize(w) \/ RetryClaim(w))
  /\ \A e \in Embedders : WF_vars(CommitEmbedding(e))

FairSpec == Spec /\ Fairness

-----------------------------------------------------------------------------
(* Properties.                                                             *)

\* The profile of u misses a signal, or the vector of a Post u interacted with.
Stale(u) ==
  \/ profile[u].rows # rows[u]
  \/ /\ profile[u].serving = serving
     /\ \E p \in Interacted(rows[u]) : profile[u].emb[p] # embedding[p][serving]

\* A profile that is behind its sources has a queue row: a rebuild never clears
\* the invalidation of something it did not read, neither a signal written
\* between its queries nor an embedding committed after them.
NoLostInvalidation == TypeOK /\ \A u \in Users : Stale(u) => dirty[u] # NoRow

\* A rebuild never replaces a profile by one built from older signals: two
\* materializers of one user exclude each other.
ProfilesMoveForward ==
  [][\A u \in Users, k \in Kinds, p \in Posts : profile'[u].rows[k][p] >= profile[u].rows[k][p]]_vars

\* Failures, crashes and a retry that hits a newer row delay a profile but do
\* not strand it: in the end it shows every signal, in the serving version.
ProfilesCatchUp == \A u \in Users : <>[](profile[u].rows = rows[u] /\ profile[u].serving = serving)

=============================================================================

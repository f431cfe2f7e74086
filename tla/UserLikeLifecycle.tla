------------------------- MODULE UserLikeLifecycle -------------------------
(***************************************************************************)
(* The User -> Posts Like relation in Redis: a capped set with an order    *)
(* index per user, which expires when idle and is restored from SQL by the *)
(* next request, while Posts are deleted and their relations swept.        *)
(*                                                                         *)
(*   likes/scripts.go, likes/store.go               mutate, delete, sweep  *)
(*   likes/user_lifecycle.go, user_lifecycle_scripts.go,                   *)
(*   likes/user_lifecycle_store.go                            cold restore *)
(*   tasks/user_like_relation_cleanup.go                   relation sweep  *)
(*                                                                         *)
(* The way of a change from Redis to post_reaction (LikeBehaviorPipeline)  *)
(* is here the single step Project.                                        *)
(***************************************************************************)
EXTENDS Integers, FiniteSets

CONSTANTS
  Users, Posts,   \* identities
  Restorers,      \* API requests restoring a cold user; each is its lock token
  NoLock,         \* no restore lock
  Cap,            \* relations per user, and USER_LIKE_RESTORE_MAX_RELATIONS
  MaxTicks,       \* bound: changes of one user
  MaxArms,        \* bound: TTL deadlines of one user
  MaxFaults       \* bound: crashes and lost locks, in all

ASSUME NoLockAssumption == NoLock \notin Restorers
ASSUME BoundsAssumption ==
  /\ Cap \in Nat \ {0}
  /\ MaxTicks \in Nat /\ MaxArms \in Nat \ {0} /\ MaxFaults \in Nat

VARIABLES
  ready,       \* post:like:<p>:ready: "1", "deleted" or "none"
  count,       \* post:like:<p>:count
  sqlDeleted,  \* Posts with deleted_at set
  purged,      \* Posts whose like state purgePostScript has removed
  present,     \* user:likes:<u> exists
  rel,         \* its members, the sentinel 0 left out
  order,       \* user:likes:order:<u>: Post -> score
  ledger,      \* user:likes:expiry:ledger: the last deadline, 0 when absent
  tick,        \* Redis time as u sees it: the number of u's changes
  cur,         \* history: what u last said of p, and when
  row,         \* post_reaction: liked and state_changed_at
  lock,        \* user:likes:restore:lock:<u>
  restore,     \* restore[r]: where request r is in RecoverIfCold
  sweep,       \* the relation cleanup worker
  faults

redisVars == <<ready, count, present, rel, order, ledger, lock>>
vars == <<ready, count, sqlDeleted, purged, present, rel, order, ledger,
          tick, cur, row, lock, restore, sweep, faults>>

-----------------------------------------------------------------------------
Fact   == [liked : BOOLEAN, at : Nat]
Never  == [liked |-> FALSE, at |-> 0]

IdleRestore == [phase |-> "idle", user |-> NoLock, expiry |-> 0, temp |-> {}, score |-> <<>>]
IdleSweep   == [phase |-> "idle", user |-> NoLock, posts |-> {}]

Fault == faults < MaxFaults /\ faults' = faults + 1

\* An order index is missing exactly when the user has no relation.
Consistent(u) == DOMAIN order[u] = rel[u] /\ Cardinality(rel[u]) <= Cap

Without(f, S) == [p \in DOMAIN f \ S |-> f[p]]

-----------------------------------------------------------------------------
TypeOK ==
  /\ ready \in [Posts -> {"1", "deleted", "none"}]
  /\ count \in [Posts -> Nat]
  /\ sqlDeleted \subseteq Posts /\ purged \subseteq sqlDeleted
  /\ present \in [Users -> BOOLEAN]
  /\ rel \in [Users -> SUBSET Posts]
  /\ \A u \in Users : DOMAIN order[u] \subseteq Posts /\ \A p \in DOMAIN order[u] : order[u][p] \in 0..MaxTicks
  /\ ledger \in [Users -> 0..MaxArms]
  /\ tick \in [Users -> 0..MaxTicks]
  /\ cur \in [Users -> [Posts -> Fact]]
  /\ row \in [Users -> [Posts -> Fact]]
  /\ lock \in [Users -> Restorers \cup {NoLock}]
  /\ \A r \in Restorers :
       /\ restore[r].phase \in {"idle", "locked", "temp", "loaded", "release"}
       /\ restore[r].phase # "idle" => restore[r].user \in Users
       /\ restore[r].expiry \in 0..MaxArms
       /\ restore[r].temp \subseteq Posts
  /\ sweep.phase \in {"idle", "scanned", "checked"}
  /\ sweep.phase # "idle" => sweep.user \in Users
  /\ sweep.posts \subseteq Posts
  /\ faults \in 0..MaxFaults

\* initializeScript and initializeUserEmptyScript have run for everybody.
Init ==
  /\ ready = [p \in Posts |-> "1"]
  /\ count = [p \in Posts |-> 0]
  /\ sqlDeleted = {} /\ purged = {}
  /\ present = [u \in Users |-> TRUE]
  /\ rel = [u \in Users |-> {}]
  /\ order = [u \in Users |-> <<>>]
  /\ ledger = [u \in Users |-> 1]
  /\ tick = [u \in Users |-> 0]
  /\ cur = [u \in Users |-> [p \in Posts |-> Never]]
  /\ row = [u \in Users |-> [p \in Posts |-> Never]]
  /\ lock = [u \in Users |-> NoLock]
  /\ restore = [r \in Restorers |-> IdleRestore]
  /\ sweep = IdleSweep
  /\ faults = 0

-----------------------------------------------------------------------------
(* mutateScript.                                                           *)

\* Every successful mutation gives set, order index and ledger a new deadline.
Arm(u) ==
  /\ ledger[u] < MaxArms
  /\ ledger' = [ledger EXCEPT ![u] = @ + 1]

Servable(u, p) == present[u] /\ Consistent(u) /\ ready[p] = "1"

\* The request asks for what already is: only the deadline moves.
MutateUnchanged(u, p) ==
  /\ Servable(u, p)
  /\ Arm(u)
  /\ UNCHANGED <<ready, count, sqlDeleted, purged, present, rel, order, tick, cur, row,
                 lock, restore, sweep, faults>>

Unlike(u, p) ==
  LET now == tick[u] + 1
  IN /\ Servable(u, p)
     /\ p \in rel[u]
     /\ count[p] > 0
     /\ now <= MaxTicks
     /\ tick' = [tick EXCEPT ![u] = now]
     /\ rel' = [rel EXCEPT ![u] = @ \ {p}]
     /\ order' = [order EXCEPT ![u] = Without(order[u], {p})]
     /\ count' = [count EXCEPT ![p] = @ - 1]
     /\ cur' = [cur EXCEPT ![u][p] = [liked |-> FALSE, at |-> now]]
     /\ Arm(u)
     /\ UNCHANGED <<ready, sqlDeleted, purged, present, row, lock, restore, sweep, faults>>

\* ZRANGE 0 0: the oldest relation; equal scores fall back on the member.
Evict(u) == {p \in rel[u] : \A q \in rel[u] : order[u][p] <= order[u][q]}

Like_ForgetsEvictedCount(u, p) ==
  LET now  == tick[u] + 1
      full == Cardinality(rel[u]) >= Cap
  IN /\ Servable(u, p)
     /\ p \notin rel[u]
     /\ now <= MaxTicks
     /\ \E E \in IF full THEN {{e} : e \in Evict(u)} ELSE {{}} :
          /\ \A e \in E : ready[e] # "none" /\ (ready[e] = "1" => count[e] > 0)
          /\ LET live == {e \in E : ready[e] = "1"}
             IN /\ rel' = [rel EXCEPT ![u] = (@ \ E) \cup {p}]
                /\ order' = [order EXCEPT ![u] =
                     [q \in (rel[u] \ E) \cup {p} |-> IF q = p THEN now ELSE order[u][q]]]
                /\ count' = [count EXCEPT ![p] = @ + 1]
                /\ cur' = [cur EXCEPT ![u] = [q \in Posts |->
                     IF q = p THEN [liked |-> TRUE, at |-> now]
                     ELSE IF q \in live THEN [liked |-> FALSE, at |-> now] ELSE cur[u][q]]]
     /\ tick' = [tick EXCEPT ![u] = now]
     /\ Arm(u)
     /\ UNCHANGED <<ready, sqlDeleted, purged, present, row, lock, restore, sweep, faults>>

\* At the cap a new relation pushes out the oldest.  The evicted Post loses a
\* Like, unless it is deleted; a Post that is neither ready nor deleted makes
\* the whole request fail.
Like(u, p) ==
  LET now  == tick[u] + 1
      full == Cardinality(rel[u]) >= Cap
  IN /\ Servable(u, p)
     /\ p \notin rel[u]
     /\ now <= MaxTicks
     /\ \E E \in IF full THEN {{e} : e \in Evict(u)} ELSE {{}} :
          /\ \A e \in E : ready[e] # "none" /\ (ready[e] = "1" => count[e] > 0)
          /\ LET live == {e \in E : ready[e] = "1"}
             IN /\ rel' = [rel EXCEPT ![u] = (@ \ E) \cup {p}]
                /\ order' = [order EXCEPT ![u] =
                     [q \in (rel[u] \ E) \cup {p} |-> IF q = p THEN now ELSE order[u][q]]]
                /\ count' = [q \in Posts |->
                     IF q = p THEN count[q] + 1 ELSE IF q \in live THEN count[q] - 1 ELSE count[q]]
                /\ cur' = [cur EXCEPT ![u] = [q \in Posts |->
                     IF q = p THEN [liked |-> TRUE, at |-> now]
                     ELSE IF q \in live THEN [liked |-> FALSE, at |-> now] ELSE cur[u][q]]]
     /\ tick' = [tick EXCEPT ![u] = now]
     /\ Arm(u)
     /\ UNCHANGED <<ready, sqlDeleted, purged, present, row, lock, restore, sweep, faults>>

\* The behaviour pipeline delivers the newest state of the pair.
Project(u, p) ==
  /\ row[u][p] # cur[u][p]
  /\ row' = [row EXCEPT ![u][p] = cur[u][p]]
  /\ UNCHANGED <<redisVars, sqlDeleted, purged, tick, cur, restore, sweep, faults>>

\* The deadline passes.  docs/like-state-recovery.md takes it as an operating
\* assumption that the projection lag is shorter than the TTL (an hour or more).
Expire(u) ==
  /\ present[u]
  /\ row[u] = cur[u]
  /\ ledger[u] < MaxArms
  /\ present' = [present EXCEPT ![u] = FALSE]
  /\ rel' = [rel EXCEPT ![u] = {}]
  /\ order' = [order EXCEPT ![u] = <<>>]
  /\ UNCHANGED <<ready, count, sqlDeleted, purged, ledger, tick, cur, row, lock, restore, sweep, faults>>

-----------------------------------------------------------------------------
(* RecoverIfCold.                                                          *)

\* Inspect, then take the lock: the set is missing, its deadline has passed.
BeginRestore(r, u) ==
  /\ restore[r].phase = "idle"
  /\ ~present[u] /\ ledger[u] # 0
  /\ lock[u] = NoLock
  /\ lock' = [lock EXCEPT ![u] = r]
  /\ restore' = [restore EXCEPT ![r] = [IdleRestore EXCEPT !.phase = "locked", !.user = u, !.expiry = ledger[u]]]
  /\ UNCHANGED <<ready, count, sqlDeleted, purged, present, rel, order, ledger, tick, cur, row, sweep, faults>>

Owns(r) == lock[restore[r].user] = r /\ ledger[restore[r].user] = restore[r].expiry

CreateTemp(r) ==
  LET u == restore[r].user
  IN /\ restore[r].phase = "locked"
     /\ restore' = [restore EXCEPT ![r].phase = IF ~present[u] /\ Owns(r) THEN "temp" ELSE "release"]
     /\ UNCHANGED <<redisVars, sqlDeleted, purged, tick, cur, row, sweep, faults>>

\* One repeatable-read snapshot of post_reaction joined with live Posts.
LoadRelations(r) ==
  LET u == restore[r].user
      S == {p \in Posts : row[u][p].liked /\ p \notin sqlDeleted}
  IN /\ restore[r].phase = "temp"
     /\ restore' = [restore EXCEPT ![r] =
          IF Cardinality(S) > Cap THEN [restore[r] EXCEPT !.phase = "release"]
          ELSE [restore[r] EXCEPT !.phase = "loaded", !.temp = S, !.score = [p \in S |-> row[u][p].at]]]
     /\ UNCHANGED <<redisVars, sqlDeleted, purged, tick, cur, row, sweep, faults>>

Installable_NoFence(r) ==
  LET u == restore[r].user
  IN /\ ~present[u]
     /\ \A p \in restore[r].temp : ready[p] # "deleted"

\* finishUserLikeRestoreScript: still cold, still ours, nothing deleted since.
Installable(r) ==
  LET u == restore[r].user
  IN /\ ~present[u]
     /\ Owns(r)
     /\ \A p \in restore[r].temp : ready[p] # "deleted"

\* Rename the temporary keys into place, with a new deadline, and unlock; or
\* leave everything as it is and give the lock back.
FinishRestore(r) ==
  LET u == restore[r].user
  IN /\ restore[r].phase = "loaded"
     /\ IF Installable(r)
        THEN /\ present' = [present EXCEPT ![u] = TRUE]
             /\ rel' = [rel EXCEPT ![u] = restore[r].temp]
             /\ order' = [order EXCEPT ![u] = restore[r].score]
             /\ Arm(u)
             /\ lock' = [lock EXCEPT ![u] = NoLock]
        ELSE UNCHANGED <<present, rel, order, ledger, lock>>
     /\ restore' = [restore EXCEPT ![r].phase = "release"]
     /\ UNCHANGED <<ready, count, sqlDeleted, purged, tick, cur, row, sweep, faults>>

\* The deferred clean-up: the lock goes only if it is still this request's.
ReleaseRestore(r) ==
  LET u == restore[r].user
  IN /\ restore[r].phase = "release"
     /\ lock' = IF lock[u] = r THEN [lock EXCEPT ![u] = NoLock] ELSE lock
     /\ restore' = [restore EXCEPT ![r] = IdleRestore]
     /\ UNCHANGED <<ready, count, sqlDeleted, purged, present, rel, order, ledger, tick, cur, row, sweep, faults>>

\* Timeout, SQL error or lost connection before the install.
RestoreFails(r) ==
  /\ restore[r].phase \in {"locked", "temp", "loaded"}
  /\ Fault
  /\ restore' = [restore EXCEPT ![r].phase = "release"]
  /\ UNCHANGED <<redisVars, sqlDeleted, purged, tick, cur, row, sweep>>

RestoreCrash(r) ==
  /\ restore[r].phase # "idle"
  /\ Fault
  /\ restore' = [restore EXCEPT ![r] = IdleRestore]
  /\ UNCHANGED <<redisVars, sqlDeleted, purged, tick, cur, row, sweep>>

DropLock(u) ==
  /\ lock' = [lock EXCEPT ![u] = NoLock]
  /\ UNCHANGED <<ready, count, sqlDeleted, purged, present, rel, order, ledger,
                 tick, cur, row, restore, sweep>>

LockExpires_NoTTL(u) == FALSE /\ DropLock(u) /\ UNCHANGED faults

\* The lock of a request that is gone runs out.
LockExpires(u) ==
  /\ lock[u] # NoLock
  /\ restore[lock[u]].user # u
  /\ DropLock(u)
  /\ UNCHANGED faults

\* The lock runs out under a request that is slower than its TTL.
LockLost(u) ==
  /\ lock[u] # NoLock
  /\ restore[lock[u]].user = u
  /\ Fault
  /\ DropLock(u)

-----------------------------------------------------------------------------
(* Deletion of a Post, and the sweep of the relations it leaves behind.    *)

DeletePost(p) ==
  /\ p \notin sqlDeleted
  /\ sqlDeleted' = sqlDeleted \cup {p}
  /\ UNCHANGED <<redisVars, purged, tick, cur, row, restore, sweep, faults>>

MarkPostDeleted(p) ==
  /\ p \in sqlDeleted \ purged
  /\ ready[p] = "1"
  /\ ready' = [ready EXCEPT ![p] = "deleted"]
  /\ UNCHANGED <<count, sqlDeleted, purged, present, rel, order, ledger, tick, cur, row, lock, restore, sweep, faults>>

PurgePost(p) ==
  /\ ready[p] = "deleted" /\ p \notin purged
  /\ count' = [count EXCEPT ![p] = 0]
  /\ purged' = purged \cup {p}
  /\ UNCHANGED <<ready, sqlDeleted, present, rel, order, ledger, tick, cur, row, lock, restore, sweep, faults>>

TombstoneExpires(p) ==
  /\ ready[p] = "deleted" /\ p \in purged
  /\ ready' = [ready EXCEPT ![p] = "none"]
  /\ UNCHANGED <<count, sqlDeleted, purged, present, rel, order, ledger, tick, cur, row, lock, restore, sweep, faults>>

\* SSCAN of the next user; a user who is not ready is skipped.
ScanUserLikes(u) ==
  /\ sweep.phase = "idle"
  /\ present[u] /\ rel[u] # {}
  /\ sweep' = [phase |-> "scanned", user |-> u, posts |-> rel[u]]
  /\ UNCHANGED <<redisVars, sqlDeleted, purged, tick, cur, row, restore, faults>>

FindDeletedPosts ==
  /\ sweep.phase = "scanned"
  /\ sweep' = [sweep EXCEPT !.phase = "checked", !.posts = @ \cap sqlDeleted]
  /\ UNCHANGED <<redisVars, sqlDeleted, purged, tick, cur, row, restore, faults>>

Removable_IgnoresReady(p) == TRUE

Removable_TombstonedOnly(p) == ready[p] = "deleted"

\* A Post Redis still serves is a lifecycle mismatch and is protected.
Removable(p) == ready[p] # "1"

RemoveRelations_KeepsOrder ==
  LET u == sweep.user
      R == {p \in sweep.posts \cap rel[u] : Removable(p)}
  IN /\ sweep.phase = "checked"
     /\ rel' = IF present[u] THEN [rel EXCEPT ![u] = @ \ R] ELSE rel
     /\ sweep' = IdleSweep
     /\ UNCHANGED <<ready, count, sqlDeleted, purged, present, order, ledger, tick, cur, row, lock, restore, faults>>

RemoveRelations ==
  LET u == sweep.user
      R == {p \in sweep.posts \cap rel[u] : Removable(p)}
  IN /\ sweep.phase = "checked"
     /\ IF present[u] /\ Consistent(u)
        THEN /\ rel' = [rel EXCEPT ![u] = @ \ R]
             /\ order' = [order EXCEPT ![u] = Without(order[u], R)]
        ELSE UNCHANGED <<rel, order>>
     /\ sweep' = IdleSweep
     /\ UNCHANGED <<ready, count, sqlDeleted, purged, present, ledger, tick, cur, row, lock, restore, faults>>

\* A restart starts over with the first user.
SweepCrash ==
  /\ sweep.phase # "idle"
  /\ Fault
  /\ sweep' = IdleSweep
  /\ UNCHANGED <<redisVars, sqlDeleted, purged, tick, cur, row, restore>>

-----------------------------------------------------------------------------
UserNext(u) ==
  \/ \E p \in Posts : MutateUnchanged(u, p) \/ Unlike(u, p) \/ Like(u, p) \/ Project(u, p)
  \/ Expire(u) \/ LockExpires(u) \/ LockLost(u) \/ ScanUserLikes(u)

RestoreNext(r) ==
  \/ \E u \in Users : BeginRestore(r, u)
  \/ CreateTemp(r) \/ LoadRelations(r) \/ FinishRestore(r) \/ ReleaseRestore(r)
  \/ RestoreFails(r) \/ RestoreCrash(r)

PostNext(p) == DeletePost(p) \/ MarkPostDeleted(p) \/ PurgePost(p) \/ TombstoneExpires(p)

Next ==
  \/ \E u \in Users : UserNext(u)
  \/ \E r \in Restorers : RestoreNext(r)
  \/ \E p \in Posts : PostNext(p)
  \/ FindDeletedPosts \/ RemoveRelations \/ SweepCrash

Spec == Init /\ [][Next]_vars

\* The cleanup row of a deleted Post is retried for ever, the sweep visits every
\* user in turn, the broker delivers, locks time out, a request runs to its end
\* and a cold user keeps asking.  Users need not change anything.
Fairness ==
  /\ \A p \in Posts : WF_vars(MarkPostDeleted(p) \/ PurgePost(p))
  /\ \A u \in Users, p \in Posts : WF_vars(Project(u, p))
  /\ \A u \in Users : SF_vars(ScanUserLikes(u)) /\ WF_vars(LockExpires(u))
  /\ WF_vars(FindDeletedPosts \/ RemoveRelations)
  /\ \A r \in Restorers : WF_vars((\E u \in Users : BeginRestore(r, u))
        \/ CreateTemp(r) \/ LoadRelations(r) \/ FinishRestore(r) \/ ReleaseRestore(r))

FairSpec == Spec /\ Fairness

-----------------------------------------------------------------------------
(* Properties.                                                             *)

\* The two indexes of a user agree and never exceed the cap, through eviction,
\* expiry, restore and sweep; otherwise every script refuses the user for good.
RelationShape == TypeOK /\ \A u \in Users : present[u] => Consistent(u)

\* What Redis says of a Post it serves is what the user last said, with the
\* score of that moment: a restore loses, resurrects and reorders nothing, and
\* a stale lock owner never overwrites what happened since.
RestoreIsFaithful ==
  \A u \in Users, p \in Posts : present[u] /\ ready[p] = "1" /\ p \notin sqlDeleted =>
    /\ p \in rel[u] <=> cur[u][p].liked
    /\ p \in rel[u] => order[u][p] = cur[u][p].at

\* The count of a served Post is the number of users who like it, a cold user's
\* Likes being in post_reaction only.
CountMatchesRelations ==
  \A p \in Posts : ready[p] = "1" /\ p \notin sqlDeleted =>
    count[p] = Cardinality({u \in Users : IF present[u] THEN p \in rel[u] ELSE row[u][p].liked})

\* A user's indexes agree with each other and with the counts of the Posts.
RelationsAgree == RelationShape /\ CountMatchesRelations

\* A sweep never takes a relation to a Post that is still served: the user
\* could like it a second time and the count would be one too high for ever.
SweepSparesServedPosts ==
  [][\A u \in Users : sweep.phase = "checked" /\ sweep'.phase = "idle" =>
       \A p \in rel[u] \ rel'[u] : p \in sqlDeleted /\ ready[p] # "1"]_vars

\* The relations of a deleted Post are gone for good in the end, although a
\* restore may bring one back from a snapshot older than the deletion.
StaleRelationsReclaimed ==
  \A u \in Users, p \in Posts : <>[](p \in sqlDeleted => p \notin rel[u])

\* A cold user is served again: no lost lock, dead request or deletion in
\* flight blocks the restore for ever.
ColdUserRecovers == \A u \in Users : ~present[u] ~> present[u]

=============================================================================

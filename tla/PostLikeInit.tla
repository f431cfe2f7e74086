---------------------------- MODULE PostLikeInit ----------------------------
(***************************************************************************)
(* The Like state of a new Post is created in Redis after the Post was     *)
(* committed in SQL, by whoever claims its durable job: the request that   *)
(* created the Post or a worker.  Redis may refuse, may carry out a script *)
(* and lose the answer, or carry it out late; a claim may outlive its      *)
(* lease; and Redis may lose keys.  Because a state that is missing may    *)
(* have had Likes, only the first attempt may write an empty one.          *)
(*                                                                         *)
(*   postlikeinit/service.go            the job                            *)
(*   likes/rebuild.go, likes/scripts.go the rebuild token and the scripts  *)
(*   controllers/post_controller.go, post_delete.go                        *)
(***************************************************************************)
EXTENDS Integers, FiniteSets

CONSTANTS
  Posts,
  Workers,       \* requests and workers that claim jobs
  MaxTries,      \* newPostInitializationAttempts
  MaxClaims,     \* bound: claims of one job
  MaxLikes,      \* bound: Likes of one Post
  MaxRefusals,   \* bound: failures known to have changed nothing, in all
  MaxFaults      \* bound: lost answers, crashes, stalls, lost keys, in all

ASSUME BoundsAssumption ==
  /\ MaxTries \in Nat \ {0} /\ MaxClaims \in Nat /\ MaxLikes \in Nat
  /\ MaxRefusals \in Nat /\ MaxFaults \in Nat

VARIABLES
  job,        \* post_like_init_jobs
  claims,     \* claims of each job so far; a claim's number stands for its retry_after and its token
  worker,     \* worker[w]: where w is in processClaimed
  ready,      \* post:like:<p>:ready: "1", "deleted" or "none"
  agg,        \* the version in post:like:<p>:count and :version, Missing when they are gone
  registered, \* members of the Like state registry
  token,      \* post:like:<p>:rebuild-token, 0 when absent
  late,       \* initializeScript calls, given up by the client, that Redis may still run
  likes,      \* history: Likes accepted
  born,       \* history: Posts whose state was created
  sqlVersion, \* posts.like_sync_version
  deletion,   \* how far the deletion of the Post is
  refusals, faults

redisVars == <<ready, agg, registered, token>>
sqlVars   == <<sqlVersion, deletion>>
bounds    == <<refusals, faults>>
vars == <<job, claims, worker, redisVars, late, likes, born, sqlVars, bounds>>

-----------------------------------------------------------------------------
Missing == -1

NoJob == [state |-> "none", stamp |-> 0, due |-> FALSE]

\* goal: what follows once the job is marked; reset: the job goes back to
\* pending when it is rescheduled.
IdleWorker == [phase |-> "idle", post |-> {}, stamp |-> 0, state |-> "none",
               goal |-> "idle", tries |-> 0, reset |-> FALSE]

Phases == {"idle", "claimed", "live", "mark", "init", "locked", "held", "release", "commit", "ack", "put"}

Fault   == faults < MaxFaults /\ faults' = faults + 1 /\ UNCHANGED refusals
Refusal == refusals < MaxRefusals /\ refusals' = refusals + 1 /\ UNCHANGED faults

\* The phases in which the transaction of initializeWhilePostLocked is open.
InTransaction == {"locked", "held", "release", "commit"}
Locked(p) == \E w \in Workers : p \in worker[w].post /\ worker[w].phase \in InTransaction

Go(w, phase) == worker' = [worker EXCEPT ![w].phase = phase]
Stop(w)      == worker' = [worker EXCEPT ![w] = IdleWorker]

\* w's claim is still the one in the row.
Owns(w, p) == job[p].state # "none" /\ job[p].stamp = worker[w].stamp

\* LoadFullState finds ready, count and version.
Complete(p) == ready[p] = "1" /\ agg[p] # Missing

-----------------------------------------------------------------------------
TypeOK ==
  /\ \A p \in Posts :
       /\ job[p].state \in {"none", "pending", "attempted"}
       /\ job[p].stamp \in 0..claims[p] /\ job[p].due \in BOOLEAN
       /\ claims[p] \in 0..MaxClaims
       /\ ready[p] \in {"1", "deleted", "none"}
       /\ agg[p] \in 0..MaxLikes \cup {Missing}
       /\ token[p] \in 0..claims[p]
       /\ likes[p] \in 0..MaxLikes /\ sqlVersion[p] \in 0..likes[p]
       /\ deletion[p] \in {"no", "sql", "marked", "purged"}
  /\ \A w \in Workers :
       /\ worker[w].phase \in Phases
       /\ worker[w].post \subseteq Posts
       /\ worker[w].phase # "idle" => Cardinality(worker[w].post) = 1 /\ worker[w].stamp > 0
       /\ worker[w].phase \in InTransaction => worker[w].state = "attempted"
       /\ worker[w].tries \in 0..(MaxTries - 1)
  /\ registered \subseteq Posts /\ born \subseteq Posts
  /\ late \subseteq (Posts \X (1..MaxClaims))
  /\ refusals \in 0..MaxRefusals /\ faults \in 0..MaxFaults

\* The transaction that creates a Post also creates its job.
Init ==
  /\ job = [p \in Posts |-> [state |-> "pending", stamp |-> 0, due |-> TRUE]]
  /\ claims = [p \in Posts |-> 0]
  /\ worker = [w \in Workers |-> IdleWorker]
  /\ ready = [p \in Posts |-> "none"]
  /\ agg = [p \in Posts |-> Missing]
  /\ registered = {}
  /\ token = [p \in Posts |-> 0]
  /\ late = {}
  /\ likes = [p \in Posts |-> 0]
  /\ born = {}
  /\ sqlVersion = [p \in Posts |-> 0]
  /\ deletion = [p \in Posts |-> "no"]
  /\ refusals = 0 /\ faults = 0

-----------------------------------------------------------------------------
(* The job.                                                                *)

\* FOR UPDATE SKIP LOCKED; the new retry_after is the lease.
ClaimJob(w, p) ==
  /\ worker[w].phase = "idle"
  /\ job[p].state # "none" /\ job[p].due
  /\ claims[p] < MaxClaims
  /\ claims' = [claims EXCEPT ![p] = @ + 1]
  /\ job' = [job EXCEPT ![p].stamp = claims[p] + 1, ![p].due = FALSE]
  /\ worker' = [worker EXCEPT ![w] = [IdleWorker EXCEPT
       !.phase = "claimed", !.post = {p}, !.stamp = claims[p] + 1, !.state = job[p].state]]
  /\ UNCHANGED <<redisVars, late, likes, born, sqlVars, bounds>>

\* retry_after has passed.  The lease of ten seconds is more than twice what the
\* operation may take, so it ends under its owner only when that one stalls.
JobDue(p) ==
  /\ job[p].state # "none" /\ ~job[p].due
  /\ IF \E w \in Workers : p \in worker[w].post /\ worker[w].stamp = job[p].stamp
     THEN Fault ELSE UNCHANGED bounds
  /\ job' = [job EXCEPT ![p].due = TRUE]
  /\ UNCHANGED <<claims, worker, redisVars, late, likes, born, sqlVars>>

\* A Post that is deleted needs no Like state.
LoadPost(w) ==
  /\ worker[w].phase = "claimed"
  /\ \E p \in worker[w].post : Go(w, IF deletion[p] = "no" THEN "live" ELSE "ack")
  /\ UNCHANGED <<job, claims, redisVars, late, likes, born, sqlVars, bounds>>

\* Before anything follows from what was seen, a pending job is marked.
Marking(w, goal) == [worker EXCEPT ![w].phase = IF worker[w].state = "pending" THEN "mark" ELSE goal,
                                   ![w].goal = goal]

CheckState_RetriesAttempted(w) ==
  /\ worker[w].phase = "live"
  /\ \E p \in worker[w].post :
       worker' = CASE Complete(p)                     -> Marking(w, "ack")
                   [] ready[p] = "deleted"            -> Marking(w, "put")
                   [] OTHER                           -> Marking(w, "init")
  /\ UNCHANGED <<job, claims, redisVars, late, likes, born, sqlVars, bounds>>

\* An attempted job whose state is missing waits: it may have had Likes.
CheckState(w) ==
  /\ worker[w].phase = "live"
  /\ \E p \in worker[w].post :
       worker' = CASE Complete(p)                     -> Marking(w, "ack")
                   [] ready[p] = "deleted"            -> Marking(w, "put")
                   [] worker[w].state = "attempted"   -> [worker EXCEPT ![w].phase = "put"]
                   [] OTHER                           -> Marking(w, "init")
  /\ UNCHANGED <<job, claims, redisVars, late, likes, born, sqlVars, bounds>>

MarkAttempted(w) ==
  /\ worker[w].phase = "mark"
  /\ \E p \in worker[w].post :
       IF Owns(w, p)
       THEN /\ job' = [job EXCEPT ![p].state = "attempted"]
            /\ worker' = [worker EXCEPT ![w].phase = worker[w].goal, ![w].state = "attempted"]
       ELSE Stop(w) /\ UNCHANGED job
  /\ UNCHANGED <<claims, redisVars, late, likes, born, sqlVars, bounds>>

\* Loading the Post, reading Redis or marking the job fails.
CheckFails(w) ==
  /\ worker[w].phase \in {"claimed", "live", "mark"}
  /\ Refusal
  /\ Go(w, "put")
  /\ UNCHANGED <<job, claims, redisVars, late, likes, born, sqlVars>>

Acknowledge(w) ==
  /\ worker[w].phase = "ack"
  /\ job' = [p \in Posts |-> IF p \in worker[w].post /\ Owns(w, p) THEN NoJob ELSE job[p]]
  /\ Stop(w)
  /\ UNCHANGED <<claims, redisVars, late, likes, born, sqlVars, bounds>>

AckFails(w) ==
  /\ worker[w].phase = "ack"
  /\ Refusal
  /\ Stop(w)
  /\ UNCHANGED <<job, claims, redisVars, late, likes, born, sqlVars>>

Reschedule_NeverResets(w) ==
  /\ worker[w].phase = "put"
  /\ job' = [p \in Posts |->
       IF p \in worker[w].post /\ Owns(w, p)
       THEN [state |-> job[p].state, stamp |-> 0, due |-> FALSE] ELSE job[p]]
  /\ Stop(w)
  /\ UNCHANGED <<claims, redisVars, late, likes, born, sqlVars, bounds>>

Reschedule(w) ==
  /\ worker[w].phase = "put"
  /\ job' = [p \in Posts |->
       IF p \in worker[w].post /\ Owns(w, p)
       THEN [state |-> IF worker[w].reset THEN "pending" ELSE job[p].state, stamp |-> 0, due |-> FALSE]
       ELSE job[p]]
  /\ Stop(w)
  /\ UNCHANGED <<claims, redisVars, late, likes, born, sqlVars, bounds>>

\* The process dies, or cannot even reschedule; its transaction is rolled back.
WorkerCrash(w) ==
  /\ worker[w].phase # "idle"
  /\ Fault
  /\ Stop(w)
  /\ UNCHANGED <<job, claims, redisVars, late, likes, born, sqlVars>>

-----------------------------------------------------------------------------
(* The attempt: a transaction that holds the row of the Post.              *)

\* SELECT ... FOR UPDATE and the count of projected Likes.
LockPost(w) ==
  /\ worker[w].phase = "init"
  /\ \E p \in worker[w].post :
       /\ ~Locked(p)
       /\ Go(w, CASE deletion[p] # "no"   -> "ack"
                  [] sqlVersion[p] # 0    -> "put"
                  [] OTHER                -> "locked")
  /\ UNCHANGED <<job, claims, redisVars, late, likes, born, sqlVars, bounds>>

LockFails(w) ==
  /\ worker[w].phase = "init"
  /\ Refusal
  /\ worker' = [worker EXCEPT ![w].phase = "put", ![w].reset = TRUE]
  /\ UNCHANGED <<job, claims, redisVars, late, likes, born, sqlVars>>

\* The attempt is over: give the token back, then go on with the goal.
Finish(w, goal, reset) ==
  worker' = [worker EXCEPT ![w].phase = "release", ![w].goal = goal, ![w].reset = reset]

\* Another try with the same token, or the end: nothing was changed.
TryAgain(w) ==
  IF worker[w].tries + 1 < MaxTries
  THEN worker' = [worker EXCEPT ![w].phase = "locked", ![w].tries = @ + 1]
  ELSE Finish(w, "put", TRUE)

AcquireToken_AcksLostFence(w) ==
  /\ worker[w].phase = "locked"
  /\ \E p \in worker[w].post :
       IF ready[p] # "deleted" /\ token[p] \in {0, worker[w].stamp}
       THEN Go(w, "held") /\ token' = [token EXCEPT ![p] = worker[w].stamp]
       ELSE Finish(w, "ack", FALSE) /\ UNCHANGED token
  /\ UNCHANGED <<job, claims, ready, agg, registered, late, likes, born, sqlVars, bounds>>

AcquireToken(w) ==
  /\ worker[w].phase = "locked"
  /\ \E p \in worker[w].post :
       IF ready[p] = "deleted"
       THEN Finish(w, "ack", FALSE) /\ UNCHANGED token
       ELSE IF token[p] \in {0, worker[w].stamp}
       THEN Go(w, "held") /\ token' = [token EXCEPT ![p] = worker[w].stamp]
       ELSE Finish(w, "put", FALSE) /\ UNCHANGED token
  /\ UNCHANGED <<job, claims, ready, agg, registered, late, likes, born, sqlVars, bounds>>

\* The call is refused and had no effect.
AcquireRefused(w) ==
  /\ worker[w].phase = "locked"
  /\ Refusal
  /\ TryAgain(w)
  /\ UNCHANGED <<job, claims, redisVars, late, likes, born, sqlVars>>

\* The token was stored but the answer is lost.
AcquireLost(w) ==
  /\ worker[w].phase = "locked"
  /\ Fault
  /\ \E p \in worker[w].post :
       /\ ready[p] # "deleted" /\ token[p] \in {0, worker[w].stamp}
       /\ token' = [token EXCEPT ![p] = worker[w].stamp]
  /\ TryAgain(w)
  /\ UNCHANGED <<job, claims, ready, agg, registered, late, likes, born, sqlVars>>

\* What keeps initializeScript from writing to a Post that has its token.
Untouched(p) == ready[p] = "none" /\ agg[p] = Missing /\ p \notin registered

Writable_NoFence(p, s) == ready[p] # "deleted" /\ Untouched(p)

Writable(p, s) == ready[p] # "deleted" /\ token[p] = s /\ Untouched(p)

\* initializeScript called with token s: the first alternative writes the empty
\* state, the second finds a complete one and only gives the token up.
InitializeScript(p, s) ==
  \/ /\ Writable(p, s)
     /\ ready' = [ready EXCEPT ![p] = "1"]
     /\ agg' = [agg EXCEPT ![p] = 0]
     /\ registered' = registered \cup {p}
     /\ token' = [token EXCEPT ![p] = 0]
     /\ born' = born \cup {p}
  \/ /\ token[p] = s /\ Complete(p)
     /\ token' = [token EXCEPT ![p] = 0]
     /\ UNCHANGED <<ready, agg, registered, born>>
  \/ /\ ~Writable(p, s) /\ ~(token[p] = s /\ Complete(p))
     /\ UNCHANGED <<redisVars, born>>

\* The answer arrives.  A lost fence over a complete state is a success.
Initialize(w) ==
  /\ worker[w].phase = "held"
  /\ \E p \in worker[w].post :
       /\ InitializeScript(p, worker[w].stamp)
       /\ CASE ready[p] = "deleted"                                   -> Finish(w, "ack", FALSE)
            [] Writable(p, worker[w].stamp) \/ Complete(p)            -> Finish(w, "commit", FALSE)
            [] OTHER                                                  -> Finish(w, "put", FALSE)
  /\ UNCHANGED <<job, claims, late, likes, sqlVars, bounds>>

\* LOADING, READONLY, connection refused: certainly not executed.
InitializeRefused(w) ==
  /\ worker[w].phase = "held"
  /\ Refusal
  /\ TryAgain(w)
  /\ UNCHANGED <<job, claims, redisVars, late, likes, born, sqlVars>>

\* Any other error: executed now, later or never.  A complete state, if it can
\* be read, is a success; otherwise the outcome stays unknown.
InitializeLost(w) ==
  /\ worker[w].phase = "held"
  /\ Fault
  /\ \E p \in worker[w].post :
       /\ \/ InitializeScript(p, worker[w].stamp) /\ UNCHANGED late
          \/ UNCHANGED <<redisVars, born>> /\ late' \in {late, late \cup {<<p, worker[w].stamp>>}}
       /\ \/ ready'[p] = "1" /\ agg'[p] # Missing /\ Finish(w, "commit", FALSE)
          \/ Finish(w, "put", FALSE)
  /\ UNCHANGED <<job, claims, likes, sqlVars>>

LateInitialize(p, s) ==
  /\ <<p, s>> \in late
  /\ late' = late \ {<<p, s>>}
  /\ InitializeScript(p, s)
  /\ UNCHANGED <<job, claims, worker, likes, sqlVars, bounds>>

ReleaseRebuild(w) ==
  /\ worker[w].phase = "release"
  /\ token' = [p \in Posts |-> IF p \in worker[w].post /\ token[p] = worker[w].stamp THEN 0 ELSE token[p]]
  /\ Go(w, worker[w].goal)
  /\ UNCHANGED <<job, claims, ready, agg, registered, late, likes, born, sqlVars, bounds>>

\* Releasing is best effort.
ReleaseFails(w) ==
  /\ worker[w].phase = "release"
  /\ Fault
  /\ Go(w, worker[w].goal)
  /\ UNCHANGED <<job, claims, redisVars, late, likes, born, sqlVars>>

\* Redis is ready; the transaction, which only held the lock, commits or not.
CommitAttempt(w) ==
  /\ worker[w].phase = "commit"
  /\ Go(w, "ack")
  /\ UNCHANGED <<job, claims, redisVars, late, likes, born, sqlVars, bounds>>

CommitFails(w) ==
  /\ worker[w].phase = "commit"
  /\ Refusal
  /\ Go(w, "put")
  /\ UNCHANGED <<job, claims, redisVars, late, likes, born, sqlVars>>

TokenExpires(p) ==
  /\ token[p] # 0
  /\ IF \E w \in Workers : p \in worker[w].post /\ worker[w].stamp = token[p]
     THEN Fault ELSE UNCHANGED bounds
  /\ token' = [token EXCEPT ![p] = 0]
  /\ UNCHANGED <<job, claims, worker, ready, agg, registered, late, likes, born, sqlVars>>

-----------------------------------------------------------------------------
(* The rest of the Post's life.                                            *)

Like(p) ==
  /\ Complete(p) /\ likes[p] < MaxLikes /\ agg[p] < MaxLikes
  /\ agg' = [agg EXCEPT ![p] = @ + 1]
  /\ likes' = [likes EXCEPT ![p] = @ + 1]
  /\ UNCHANGED <<job, claims, worker, ready, registered, token, late, born, sqlVars, bounds>>

\* The snapshot consumer updates the Post's row.
Project(p) ==
  /\ sqlVersion[p] < likes[p] /\ deletion[p] = "no" /\ ~Locked(p)
  /\ sqlVersion' = [sqlVersion EXCEPT ![p] = likes[p]]
  /\ UNCHANGED <<job, claims, worker, redisVars, late, likes, born, deletion, bounds>>

\* Redis loses keys of p: an eviction, a failover, a flush.
RedisLoses(p) ==
  /\ Fault
  /\ \E K \in SUBSET {"ready", "agg", "registry", "token"} \ {{}} :
       /\ ready' = IF "ready" \in K THEN [ready EXCEPT ![p] = "none"] ELSE ready
       /\ agg' = IF "agg" \in K THEN [agg EXCEPT ![p] = Missing] ELSE agg
       /\ registered' = IF "registry" \in K THEN registered \ {p} ELSE registered
       /\ token' = IF "token" \in K THEN [token EXCEPT ![p] = 0] ELSE token
  /\ UNCHANGED <<job, claims, worker, late, likes, born, sqlVars>>

DeletePost(p) ==
  /\ deletion[p] = "no" /\ ~Locked(p)
  /\ deletion' = [deletion EXCEPT ![p] = "sql"]
  /\ UNCHANGED <<job, claims, worker, redisVars, late, likes, born, sqlVersion, bounds>>

MarkPostDeleted(p) ==
  /\ deletion[p] = "sql"
  /\ ready' = [ready EXCEPT ![p] = "deleted"]
  /\ token' = [token EXCEPT ![p] = 0]
  /\ deletion' = [deletion EXCEPT ![p] = "marked"]
  /\ UNCHANGED <<job, claims, worker, agg, registered, late, likes, born, sqlVersion, bounds>>

PurgePost(p) ==
  /\ deletion[p] = "marked"
  /\ ready' = IF ready[p] = "deleted" THEN ready ELSE [ready EXCEPT ![p] = "none"]
  /\ agg' = [agg EXCEPT ![p] = Missing]
  /\ registered' = registered \ {p}
  /\ token' = [token EXCEPT ![p] = 0]
  /\ deletion' = [deletion EXCEPT ![p] = "purged"]
  /\ UNCHANGED <<job, claims, worker, late, likes, born, sqlVersion, bounds>>

TombstoneExpires(p) ==
  /\ deletion[p] = "purged" /\ ready[p] = "deleted"
  /\ ready' = [ready EXCEPT ![p] = "none"]
  /\ UNCHANGED <<job, claims, worker, agg, registered, token, late, likes, born, sqlVars, bounds>>

-----------------------------------------------------------------------------
WorkerNext(w) ==
  \/ \E p \in Posts : ClaimJob(w, p)
  \/ LoadPost(w) \/ CheckState(w) \/ MarkAttempted(w) \/ CheckFails(w)
  \/ Acknowledge(w) \/ AckFails(w) \/ Reschedule(w) \/ WorkerCrash(w)
  \/ LockPost(w) \/ LockFails(w) \/ AcquireToken(w) \/ AcquireRefused(w) \/ AcquireLost(w)
  \/ Initialize(w) \/ InitializeRefused(w) \/ InitializeLost(w)
  \/ ReleaseRebuild(w) \/ ReleaseFails(w) \/ CommitAttempt(w) \/ CommitFails(w)

PostNext(p) ==
  \/ JobDue(p) \/ TokenExpires(p) \/ Like(p) \/ Project(p) \/ RedisLoses(p)
  \/ DeletePost(p) \/ MarkPostDeleted(p) \/ PurgePost(p) \/ TombstoneExpires(p)
  \/ \E s \in 1..MaxClaims : LateInitialize(p, s)

Next ==
  \/ \E w \in Workers : WorkerNext(w)
  \/ \E p \in Posts : PostNext(p)

Spec == Init /\ [][Next]_vars

\* A worker passes over the due jobs every second and each of its calls has a
\* timeout.
Fairness ==
  /\ \A p \in Posts : WF_vars(JobDue(p)) /\ WF_vars(\E w \in Workers : ClaimJob(w, p))
  /\ \A w \in Workers :
       WF_vars(LoadPost(w) \/ CheckState(w) \/ MarkAttempted(w) \/ Acknowledge(w) \/ Reschedule(w)
               \/ LockPost(w) \/ AcquireToken(w) \/ Initialize(w) \/ ReleaseRebuild(w) \/ CommitAttempt(w))

FairSpec == Spec /\ Fairness

-----------------------------------------------------------------------------
(* Properties.                                                             *)

\* An empty state is written only to a Post that never had a Like, whatever
\* answers were lost, leases overrun or keys lost: the Likes of a Post do not
\* start again from zero (models/post_like_init_job.go:10).
NeverRestarted ==
  [][\A p \in Posts : ready[p] # "1" /\ ready'[p] = "1" => likes[p] = 0]_vars

\* A job is cleared only when its Post has a Like state or is deleted: as long
\* as neither holds the job is there, to be retried or to show the operator.
EvidenceKept ==
  TypeOK /\ \A p \in Posts : p \notin born /\ deletion[p] = "no" => job[p].state # "none"

\* An attempt that began before the deletion does not bring the Post back, not
\* even after the deletion fence has expired (likes/TOMBSTONE_RECLAMATION.md).
PurgedStaysGone == \A p \in Posts : deletion[p] = "purged" => ready[p] # "1"

\* Neither a job nor a deletion is forgotten by the attempts that race them.
JobsSafe == EvidenceKept /\ PurgedStaysGone

\* Failures known to have changed nothing only delay the Post: as long as no
\* answer is lost, no process dies and Redis keeps its keys, the Post has its
\* state in the end, or is deleted, and the job is gone.
ReadyInTheEnd ==
  [](faults = 0) => \A p \in Posts : <>(job[p].state = "none" /\ (Complete(p) \/ deletion[p] # "no"))

\* What the runbook says (docs/like-state-recovery.md:16, 281-283, 336-339): the
\* creation of a Post makes three bounded attempts to initialise it; there is no
\* durable retry queue, so that once they have failed nobody but the operator
\* tries again.
Exhausted(p)  == \E w \in Workers : p \in worker[w].post /\ worker[w].phase = "release" /\ worker[w].reset
Initialising(p) == \E w \in Workers : p \in worker[w].post /\ worker[w].phase \in {"locked", "held"}
LeftToTheOperator == \A p \in Posts : [](Exhausted(p) => []~Initialising(p))

=============================================================================

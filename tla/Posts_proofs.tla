---------------------------- MODULE Posts_proofs ----------------------------
(***************************************************************************)
(* Proofs about the two models of a Post.  PostLikeInit, its Like state:   *)
(* for any sets of Posts and workers and any bounds on tries, claims,      *)
(* Likes, refusals and faults.  PostLifecycle, which has its own state and *)
(* next-state relation: how it is published and deleted, and its images,   *)
(* for any images, requests and collectors.                                *)
(***************************************************************************)
EXTENDS PostLikeInit, PostLifecycle, FiniteSetTheorems, SequenceTheorems, TLAPS

USE BoundsAssumption

-----------------------------------------------------------------------------
(* The invariants the proof rests on.                                      *)

Job    == [state : {"none", "pending", "attempted"}, stamp : Nat, due : BOOLEAN]
Worker == [phase : Phases, post : SUBSET Posts, stamp : Nat, state : {"none", "pending", "attempted"},
           goal : {"idle", "init", "ack", "put", "commit"}, tries : 0..(MaxTries - 1), reset : BOOLEAN]

\* The records with all their fields; a worker at work has one Post.
ShapeInv ==
  /\ job \in [Posts -> Job] /\ claims \in [Posts -> 0..MaxClaims]
  /\ worker \in [Workers -> Worker]
  /\ ready \in [Posts -> {"1", "deleted", "none"}]
  /\ agg \in [Posts -> 0..MaxLikes \cup {Missing}]
  /\ token \in [Posts -> Nat]
  /\ likes \in [Posts -> 0..MaxLikes] /\ sqlVersion \in [Posts -> 0..MaxLikes]
  /\ deletion \in [Posts -> {"no", "sql", "marked", "purged"}]
  /\ registered \subseteq Posts /\ born \subseteq Posts
  /\ late \subseteq (Posts \X (1..MaxClaims))
  /\ refusals \in 0..MaxRefusals /\ faults \in 0..MaxFaults
  /\ \A w \in Workers : worker[w].phase # "idle" => \E p \in Posts : worker[w].post = {p}
  /\ \A p \in Posts : sqlVersion[p] <= likes[p]

At(w, p) == p \in worker[w].post

\* A claim's number belongs to one worker.
StampInv ==
  /\ \A p \in Posts : job[p].stamp <= claims[p] /\ token[p] <= claims[p]
  /\ \A w \in Workers, p \in Posts : At(w, p) =>
       /\ worker[w].phase # "idle"
       /\ worker[w].stamp \in 1..claims[p]
       /\ \A x \in Workers : At(x, p) /\ worker[x].stamp = worker[w].stamp => x = w

\* What a worker has seen of its job is so as long as the claim is its own;
\* from the mark on it has seen it attempted.
SeenInv ==
  \A w \in Workers, p \in Posts : At(w, p) =>
    /\ worker[w].state # "none"
    /\ worker[w].phase \in InTransaction \cup {"init"} => worker[w].state = "attempted"
    /\ worker[w].phase = "mark" => worker[w].state = "pending" /\ worker[w].goal \in {"init", "ack", "put"}
    /\ worker[w].phase = "release" => worker[w].goal \in {"ack", "put", "commit"}
    /\ worker[w].phase \in {"claimed", "live", "mark"} /\ Owns(w, p) => job[p].state = worker[w].state

\* w may still write the first state of p, or report that it certainly did not.
Attempting(w, p) ==
  At(w, p) /\ (worker[w].phase \in {"init", "locked", "held"} \/ worker[w].reset)

\* There is one attempt at a time.  While it lasts, and before it, nothing has
\* been written nor is on its way.
Unwritten(p) == p \notin born /\ \A s \in 1..MaxClaims : <<p, s>> \notin late
AttemptInv ==
  /\ \A p \in Posts : job[p].state = "pending" => Unwritten(p) /\ \A w \in Workers : ~Attempting(w, p)
  /\ \A w \in Workers, p \in Posts : Attempting(w, p) =>
       /\ Unwritten(p)
       /\ \A x \in Workers : Attempting(x, p) => x = w

\* A state, once written, has used up its token, and only its Post has Likes.
BornInv ==
  \A p \in Posts :
    /\ ready[p] = "1" \/ likes[p] > 0 => p \in born
    /\ p \in born => token[p] = 0

\* The row lock keeps the deletion out; the deletion takes the token away.
DeletionInv ==
  /\ \A w \in Workers, p \in Posts : At(w, p) /\ worker[w].phase \in InTransaction => deletion[p] = "no"
  /\ \A p \in Posts : /\ deletion[p] \in {"marked", "purged"} => ready[p] # "1" /\ token[p] = 0
                      /\ ready[p] = "deleted" => deletion[p] \in {"marked", "purged"}

\* A worker on its way to the acknowledgement has seen a reason for it.
Acknowledging(w) ==
  \/ worker[w].phase \in {"ack", "commit"}
  \/ worker[w].phase \in {"mark", "release"} /\ worker[w].goal \in {"ack", "commit"}
AckInv ==
  \A w \in Workers, p \in Posts : At(w, p) /\ Acknowledging(w) => p \in born \/ deletion[p] # "no"

\* As long as a Post has no state and is not deleted its job is there.
JobKept == \A p \in Posts : p \notin born /\ deletion[p] = "no" => job[p].state # "none"

\* The inductive invariant.
IInv ==
  ShapeInv /\ StampInv /\ SeenInv /\ AttemptInv /\ BornInv /\ DeletionInv /\ AckInv /\ JobKept

-----------------------------------------------------------------------------
(* How a worker's record changes.                                          *)

Others(w) == \A x \in Workers : x # w => worker'[x] = worker[x]

Edited(w, phase, state, goal, reset) ==
  /\ Others(w) /\ worker' \in [Workers -> Worker]
  /\ worker'[w].post = worker[w].post /\ worker'[w].stamp = worker[w].stamp
  /\ worker'[w].phase = phase /\ worker'[w].state = state
  /\ worker'[w].goal = goal /\ worker'[w].reset = reset

Stopped(w) == Others(w) /\ worker' \in [Workers -> Worker] /\ worker'[w] = IdleWorker

\* The record of a worker without work has all its fields.
LEMMA IdleType == IdleWorker \in Worker
  BY DEF IdleWorker, Worker, Phases

\* A worker that stops forgets its claim.
LEMMA StopMoves ==
  ASSUME ShapeInv, NEW w \in Workers, Stop(w)
  PROVE  Stopped(w)
  BY IdleType DEF ShapeInv, Stop, Stopped, Others

\* A worker that goes on changes its phase only.
LEMMA GoMoves ==
  ASSUME ShapeInv, NEW w \in Workers, NEW phase \in Phases, Go(w, phase)
  PROVE  Edited(w, phase, worker[w].state, worker[w].goal, worker[w].reset)
  <1>1. worker' = [worker EXCEPT ![w].phase = phase] /\ worker \in [Workers -> Worker]
    BY DEF Go, ShapeInv
  <1>2. worker'[w] = [worker[w] EXCEPT !.phase = phase] /\ worker[w] \in Worker
    BY <1>1
  <1>3. worker'[w] \in Worker
    BY <1>2 DEF Worker
  <1>4. Others(w) /\ worker' \in [Workers -> Worker]
    BY <1>1, <1>3 DEF Others
  <1> QED
    BY <1>2, <1>4 DEF Edited, Worker

\* An attempt that ends is left with a goal and the reset it will report.
LEMMA FinishMoves ==
  ASSUME ShapeInv, NEW w \in Workers, NEW goal \in {"ack", "put", "commit"}, NEW reset \in BOOLEAN,
         Finish(w, goal, reset)
  PROVE  Edited(w, "release", worker[w].state, goal, reset)
  <1>1. /\ worker' = [worker EXCEPT ![w].phase = "release", ![w].goal = goal, ![w].reset = reset]
        /\ worker \in [Workers -> Worker]
    BY DEF Finish, ShapeInv
  <1>2. "release" \in Phases
    BY DEF Phases
  <1>3. worker'[w] = [worker[w] EXCEPT !.phase = "release", !.goal = goal, !.reset = reset] /\ worker[w] \in Worker
    BY <1>1
  <1>w. worker'[w] \in Worker
    BY <1>2, <1>3 DEF Worker
  <1>4. Others(w) /\ worker' \in [Workers -> Worker]
    BY <1>1, <1>w DEF Others
  <1> QED
    BY <1>3, <1>4 DEF Edited, Worker

\* A try that changed nothing is made again or ends the attempt with a reset.
LEMMA TryMoves ==
  ASSUME ShapeInv, NEW w \in Workers, TryAgain(w)
  PROVE  \/ Edited(w, "locked", worker[w].state, worker[w].goal, worker[w].reset)
         \/ Edited(w, "release", worker[w].state, "put", TRUE)
  <1>1. CASE worker[w].tries + 1 < MaxTries
    <2>1. /\ worker' = [worker EXCEPT ![w].phase = "locked", ![w].tries = @ + 1]
          /\ worker \in [Workers -> Worker]
      BY <1>1 DEF TryAgain, ShapeInv
    <2>2. "locked" \in Phases
      BY DEF Phases
    <2>3. worker[w].tries + 1 \in 0..(MaxTries - 1)
      BY <1>1, <2>1 DEF Worker
    <2>4. worker'[w] = [worker[w] EXCEPT !.phase = "locked", !.tries = worker[w].tries + 1] /\ worker[w] \in Worker
      BY <2>1
    <2>5. worker'[w] \in Worker
      BY <2>2, <2>3, <2>4 DEF Worker
    <2>6. Others(w) /\ worker' \in [Workers -> Worker]
      BY <2>1, <2>5 DEF Others
    <2> QED
      BY <2>4, <2>6 DEF Edited, Worker
  <1>2. CASE ~(worker[w].tries + 1 < MaxTries)
    BY <1>2, FinishMoves DEF TryAgain
  <1> QED
    BY <1>1, <1>2

\* What follows from the state seen waits for the mark of a pending job.
LEMMA MarkingMoves ==
  ASSUME ShapeInv, NEW w \in Workers, NEW goal \in {"init", "ack", "put"}, worker' = Marking(w, goal)
  PROVE  Edited(w, IF worker[w].state = "pending" THEN "mark" ELSE goal, worker[w].state, goal, worker[w].reset)
  <1> DEFINE ph == IF worker[w].state = "pending" THEN "mark" ELSE goal
  <1>1. worker' = [worker EXCEPT ![w].phase = ph, ![w].goal = goal] /\ worker \in [Workers -> Worker]
    BY DEF Marking, ShapeInv
  <1>2. ph \in Phases
    BY DEF Phases
  <1> HIDE DEF ph
  <1>3. worker'[w] = [worker[w] EXCEPT !.phase = ph, !.goal = goal] /\ worker[w] \in Worker
    BY <1>1
  <1>w. worker'[w] \in Worker
    BY <1>2, <1>3 DEF Worker
  <1>4. Others(w) /\ worker' \in [Workers -> Worker]
    BY <1>1, <1>w DEF Others
  <1>5. Edited(w, ph, worker[w].state, goal, worker[w].reset)
    BY <1>3, <1>4 DEF Edited, Worker
  <1> QED
    BY <1>5 DEF ph

\* What w does to its record while it works for p: it goes on in the order of
\* processClaimed, and only with a reason to the acknowledgement.
Walks(w, p) ==
  /\ Others(w) /\ worker' \in [Workers -> Worker]
  /\ worker[w].post = {p} /\ worker'[w].post = {p} /\ worker'[w].stamp = worker[w].stamp
  /\ worker'[w].state = worker[w].state
  /\ worker[w].phase # "idle" /\ worker'[w].phase \notin {"idle", "init"}
  /\ worker'[w].phase \in {"locked", "held"} \/ worker'[w].reset => Attempting(w, p)
  /\ worker'[w].phase \in InTransaction =>
       worker[w].phase \in InTransaction \/ (worker[w].phase = "init" /\ deletion[p] = "no")
  /\ Acknowledging(w)' => Acknowledging(w) \/ p \in born' \/ deletion[p] # "no"
  /\ worker'[w].phase \in {"claimed", "live", "mark"} => worker[w].phase \in {"claimed", "live"}
  /\ worker'[w].phase = "mark" => worker'[w].state = "pending" /\ worker'[w].goal \in {"init", "ack", "put"}
  /\ worker'[w].phase = "release" => worker'[w].goal \in {"ack", "put", "commit"}

\* The post of a worker at work.
LEMMA PostOf ==
  ASSUME ShapeInv, NEW w \in Workers, worker[w].phase # "idle"
  PROVE  \E p \in Posts : worker[w].post = {p}
  BY DEF ShapeInv

\* The answer of a complete state, or of the deletion fence, is a reason.
LEMMA Reasons ==
  ASSUME ShapeInv, BornInv, DeletionInv, NEW p \in Posts
  PROVE  /\ Complete(p) => p \in born
         /\ ready[p] = "deleted" => deletion[p] # "no"
  BY DEF BornInv, DeletionInv, Complete

\* Loading the Post and checking its state lead to the acknowledgement only with
\* a reason.
LEMMA CheckWalks ==
  ASSUME ShapeInv, SeenInv, BornInv, DeletionInv, NEW w \in Workers,
         LoadPost(w) \/ CheckState(w) \/ CheckFails(w)
  PROVE  \E p \in Posts : Walks(w, p)
  <1>p. PICK p \in Posts : worker[w].post = {p}
    BY PostOf DEF LoadPost, CheckState, CheckFails
  <1>r. /\ Complete(p) => p \in born
        /\ ready[p] = "deleted" => deletion[p] # "no"
    BY Reasons
  <1>s. worker[w].state \in {"pending", "attempted"}
    <2>1. worker[w].state \in {"none", "pending", "attempted"}
      BY DEF ShapeInv, Worker
    <2> QED
      BY <1>p, <2>1 DEF SeenInv, At
  <1>1. CASE LoadPost(w)
    <2>1. worker[w].phase = "claimed" /\ Go(w, IF deletion[p] = "no" THEN "live" ELSE "ack") /\ UNCHANGED born
      BY <1>1, <1>p DEF LoadPost
    <2>2. PICK ph \in {"live", "ack"} : (ph = "ack" => deletion[p] # "no") /\ Go(w, ph)
      BY <2>1
    <2>3. ph \in Phases
      BY DEF Phases
    <2>4. Edited(w, ph, worker[w].state, worker[w].goal, worker[w].reset)
      BY <2>2, <2>3, GoMoves
    <2> QED
      BY <1>p, <2>1, <2>2, <2>4 DEF Edited, Walks, Attempting, At, Acknowledging, InTransaction
  <1>2. CASE CheckFails(w)
    <2>1. worker[w].phase \in {"claimed", "live", "mark"} /\ Go(w, "put") /\ "put" \in Phases
      BY <1>2 DEF CheckFails, Phases
    <2>2. Edited(w, "put", worker[w].state, worker[w].goal, worker[w].reset)
      BY <2>1, GoMoves
    <2> QED
      BY <1>p, <2>1, <2>2 DEF Edited, Walks, Attempting, At, Acknowledging, InTransaction
  <1>3. CASE CheckState(w)
    <2>0. worker[w].phase = "live" /\ UNCHANGED born
      BY <1>3 DEF CheckState
    <2>1. \/ Complete(p) /\ worker' = Marking(w, "ack")
          \/ ready[p] = "deleted" /\ worker' = Marking(w, "put")
          \/ worker[w].state = "attempted" /\ Go(w, "put")
          \/ worker[w].state # "attempted" /\ worker' = Marking(w, "init")
      BY <1>3, <1>p DEF CheckState, Go
    <2>2. \/ \E goal \in {"init", "ack", "put"} :
               /\ goal = "ack" => p \in born
               /\ goal = "init" => worker[w].state = "pending"
               /\ worker' = Marking(w, goal)
          \/ Go(w, "put")
      BY <1>r, <1>s, <2>1
    <2>3. CASE Go(w, "put")
      <3>1. Edited(w, "put", worker[w].state, worker[w].goal, worker[w].reset)
        BY <2>3, GoMoves DEF Phases
      <3> QED
        BY <1>p, <2>0, <3>1 DEF Edited, Walks, Attempting, At, Acknowledging, InTransaction
    <2>4. ASSUME NEW goal \in {"init", "ack", "put"}, goal = "ack" => p \in born,
                 goal = "init" => worker[w].state = "pending", worker' = Marking(w, goal)
          PROVE  Walks(w, p)
      <3>1. Edited(w, IF worker[w].state = "pending" THEN "mark" ELSE goal, worker[w].state, goal, worker[w].reset)
        BY <2>4, MarkingMoves
      <3>2. CASE worker[w].state = "pending"
        BY <1>p, <2>0, <2>4, <3>1, <3>2 DEF Edited, Walks, Attempting, At, Acknowledging, InTransaction
      <3>3. CASE worker[w].state # "pending"
        BY <1>p, <2>0, <2>4, <3>1, <3>3 DEF Edited, Walks, Attempting, At, Acknowledging, InTransaction
      <3> QED
        BY <3>2, <3>3
    <2> QED
      BY <2>2, <2>3, <2>4
  <1> QED
    BY <1>1, <1>2, <1>3

-----------------------------------------------------------------------------
(* What a script does to the stores.                                       *)

RedisOK ==
  /\ ready \in [Posts -> {"1", "deleted", "none"}]
  /\ agg \in [Posts -> 0..MaxLikes \cup {Missing}]
  /\ token \in [Posts -> Nat]
  /\ registered \subseteq Posts /\ born \subseteq Posts

\* The first state of p is written, with the token s, which is used up.
Written(p, s) ==
  /\ token[p] = s /\ ready[p] = "none" /\ ready'[p] = "1" /\ token'[p] = 0
  /\ born' = born \cup {p}

Elsewhere(p) == \A q \in Posts : q # p => ready'[q] = ready[q] /\ token'[q] = token[q]

Scripted(p, s) ==
  /\ RedisOK' /\ Elsewhere(p)
  /\ \/ Written(p, s)
     \/ born' = born /\ ready' = ready /\ token'[p] \in {token[p], 0}
  /\ Writable(p, s) => p \in born'

\* initializeScript writes the first state against its token or writes nothing.
LEMMA ScriptMoves ==
  ASSUME ShapeInv, NEW p \in Posts, NEW s \in Nat, InitializeScript(p, s)
  PROVE  Scripted(p, s)
  <1>t. RedisOK
    BY DEF ShapeInv, RedisOK
  <1>1. CASE /\ Writable(p, s)
             /\ ready' = [ready EXCEPT ![p] = "1"]
             /\ agg' = [agg EXCEPT ![p] = 0]
             /\ registered' = registered \cup {p}
             /\ token' = [token EXCEPT ![p] = 0]
             /\ born' = born \cup {p}
    <2>1. RedisOK'
      BY <1>t, <1>1 DEF RedisOK
    <2>2. Elsewhere(p) /\ ready'[p] = "1" /\ token'[p] = 0
      BY <1>t, <1>1 DEF RedisOK, Elsewhere
    <2>3. token[p] = s /\ ready[p] = "none"
      BY <1>1 DEF Writable, Untouched
    <2> QED
      BY <1>1, <2>1, <2>2, <2>3 DEF Scripted, Written
  <1>2. CASE /\ token[p] = s /\ Complete(p)
             /\ token' = [token EXCEPT ![p] = 0]
             /\ UNCHANGED <<ready, agg, registered, born>>
    <2>1. RedisOK'
      BY <1>t, <1>2 DEF RedisOK
    <2>2. Elsewhere(p) /\ token'[p] = 0
      BY <1>t, <1>2 DEF RedisOK, Elsewhere
    <2>3. ~Writable(p, s)
      BY <1>2 DEF Complete, Writable, Untouched
    <2> QED
      BY <1>2, <2>1, <2>2, <2>3 DEF Scripted
  <1>3. CASE ~Writable(p, s) /\ UNCHANGED <<redisVars, born>>
    <2>1. RedisOK'
      BY <1>t, <1>3 DEF RedisOK, redisVars
    <2> QED
      BY <1>3, <2>1 DEF Scripted, Elsewhere, redisVars
  <1> QED
    BY <1>1, <1>2, <1>3 DEF InitializeScript

-----------------------------------------------------------------------------
(* The attempt.                                                            *)

\* The transaction opens for a Post that is not deleted.
LEMMA LockWalks ==
  ASSUME ShapeInv, SeenInv, NEW w \in Workers, LockPost(w) \/ LockFails(w)
  PROVE  \E p \in Posts : Walks(w, p)
  <1>0. worker[w].phase = "init"
    BY DEF LockPost, LockFails
  <1>p. PICK p \in Posts : worker[w].post = {p}
    BY <1>0, PostOf
  <1>a. Attempting(w, p)
    BY <1>0, <1>p DEF Attempting, At
  <1>1. CASE LockPost(w)
    <2>1. PICK ph \in {"ack", "put", "locked"} :
            /\ Go(w, ph) /\ (ph = "ack" => deletion[p] # "no") /\ (ph = "locked" => deletion[p] = "no")
      BY <1>1, <1>p DEF LockPost
    <2>2. ph \in Phases
      BY DEF Phases
    <2>3. Edited(w, ph, worker[w].state, worker[w].goal, worker[w].reset)
      BY <2>1, <2>2, GoMoves
    <2> QED
      BY <1>0, <1>a, <1>p, <2>1, <2>3 DEF Edited, Walks, Acknowledging, InTransaction
  <1>2. CASE LockFails(w)
    <2>1. worker' = [worker EXCEPT ![w].phase = "put", ![w].reset = TRUE] /\ worker \in [Workers -> Worker]
      BY <1>2 DEF LockFails, ShapeInv
    <2>2. worker'[w] = [worker[w] EXCEPT !.phase = "put", !.reset = TRUE] /\ worker[w] \in Worker /\ "put" \in Phases
      BY <2>1 DEF Phases
    <2>3. worker'[w] \in Worker
      BY <2>2 DEF Worker
    <2>4. Others(w) /\ worker' \in [Workers -> Worker]
      BY <2>1, <2>3 DEF Others
    <2>5. Edited(w, "put", worker[w].state, worker[w].goal, TRUE)
      BY <2>2, <2>4 DEF Edited, Worker
    <2> QED
      BY <1>0, <1>a, <1>p, <2>5 DEF Edited, Walks, Acknowledging, InTransaction
  <1> QED
    BY <1>1, <1>2

\* From here on the transaction is open.
LEMMA TryWalks ==
  ASSUME ShapeInv, NEW w \in Workers, NEW p \in Posts, worker[w].post = {p},
         worker[w].phase \in {"locked", "held"}, TryAgain(w)
  PROVE  Walks(w, p)
  <1>a. Attempting(w, p)
    BY DEF Attempting, At
  <1>1. CASE Edited(w, "locked", worker[w].state, worker[w].goal, worker[w].reset)
    BY <1>1, <1>a DEF Edited, Walks, Acknowledging, InTransaction
  <1>2. CASE Edited(w, "release", worker[w].state, "put", TRUE)
    BY <1>2, <1>a DEF Edited, Walks, Acknowledging, InTransaction
  <1> QED
    BY <1>1, <1>2, TryMoves

\* An attempt that ends without a reset is over, and acknowledges with a reason.
LEMMA FinishWalks ==
  ASSUME ShapeInv, NEW w \in Workers, NEW p \in Posts, worker[w].post = {p},
         worker[w].phase \in {"locked", "held"}, NEW goal \in {"ack", "put", "commit"}, Finish(w, goal, FALSE),
         goal # "put" => p \in born' \/ deletion[p] # "no"
  PROVE  Walks(w, p) /\ ~worker'[w].reset /\ worker'[w].phase = "release"
  <1>1. Edited(w, "release", worker[w].state, goal, FALSE)
    BY FinishMoves
  <1> QED
    BY <1>1 DEF Edited, Walks, Acknowledging, InTransaction

\* A token taken is the claim's number.
Taken(w, p) ==
  /\ worker[w].phase = "locked" /\ ready[p] # "deleted"
  /\ token' = [token EXCEPT ![p] = worker[w].stamp]

\* The token is taken under the lock of the row, and is the number of the claim.
LEMMA AcquireWalks ==
  ASSUME ShapeInv, BornInv, DeletionInv, NEW w \in Workers, AcquireToken(w) \/ AcquireRefused(w) \/ AcquireLost(w)
  PROVE  \E p \in Posts : Walks(w, p) /\ (UNCHANGED token \/ Taken(w, p))
  <1>0. worker[w].phase = "locked"
    BY DEF AcquireToken, AcquireRefused, AcquireLost
  <1>p. PICK p \in Posts : worker[w].post = {p}
    BY <1>0, PostOf
  <1>1. CASE AcquireRefused(w)
    <2>1. TryAgain(w) /\ UNCHANGED token
      BY <1>1 DEF AcquireRefused, redisVars
    <2> QED
      BY <1>0, <1>p, <2>1, TryWalks
  <1>2. CASE AcquireLost(w)
    <2>1. TryAgain(w) /\ Taken(w, p)
      BY <1>0, <1>2, <1>p DEF AcquireLost, Taken
    <2> QED
      BY <1>0, <1>p, <2>1, TryWalks
  <1>3. CASE AcquireToken(w)
    <2>1. \/ ready[p] = "deleted" /\ Finish(w, "ack", FALSE) /\ UNCHANGED token
          \/ Go(w, "held") /\ Taken(w, p)
          \/ Finish(w, "put", FALSE) /\ UNCHANGED token
      BY <1>0, <1>3, <1>p DEF AcquireToken, Taken
    <2>2. CASE ready[p] = "deleted" /\ Finish(w, "ack", FALSE) /\ UNCHANGED token
      <3>1. deletion[p] # "no"
        BY <2>2, Reasons
      <3> QED
        BY <1>0, <1>p, <2>2, <3>1, FinishWalks
    <2>3. CASE Go(w, "held") /\ Taken(w, p)
      <3>1. Edited(w, "held", worker[w].state, worker[w].goal, worker[w].reset)
        BY <2>3, GoMoves DEF Phases
      <3>2. Walks(w, p)
        BY <1>0, <1>p, <3>1 DEF Edited, Walks, Acknowledging, InTransaction, Attempting, At
      <3> QED
        BY <2>3, <3>2
    <2>4. CASE Finish(w, "put", FALSE) /\ UNCHANGED token
      BY <1>0, <1>p, <2>4, FinishWalks
    <2> QED
      BY <2>1, <2>2, <2>3, <2>4
  <1> QED
    BY <1>1, <1>2, <1>3

\* Whatever becomes of the call, after it w no longer attempts.
Called(w, p) ==
  /\ worker[w].phase = "held" /\ Walks(w, p)
  /\ \/ UNCHANGED <<ready, agg, registered, token, born, late>>
     \/ /\ ~Attempting(w, p)'
        /\ \/ Scripted(p, worker[w].stamp) /\ UNCHANGED late
           \/ UNCHANGED <<ready, agg, registered, token, born>> /\ late' = late \cup {<<p, worker[w].stamp>>}

\* However the call of initializeScript ends, it is at most left to run late.
LEMMA InitializeWalks ==
  ASSUME ShapeInv, BornInv, DeletionInv, NEW w \in Workers,
         Initialize(w) \/ InitializeRefused(w) \/ InitializeLost(w)
  PROVE  \E p \in Posts : Called(w, p)
  <1>0. worker[w].phase = "held"
    BY DEF Initialize, InitializeRefused, InitializeLost
  <1>p. PICK p \in Posts : worker[w].post = {p}
    BY <1>0, PostOf
  <1>s. worker[w].stamp \in Nat
    BY DEF ShapeInv, Worker
  <1>e. ASSUME ~worker'[w].reset, worker'[w].phase = "release" PROVE ~Attempting(w, p)'
    BY <1>e DEF Attempting
  <1>1. CASE InitializeRefused(w)
    <2>1. TryAgain(w) /\ UNCHANGED <<ready, agg, registered, token, born, late>>
      BY <1>1 DEF InitializeRefused, redisVars
    <2> QED
      BY <1>0, <1>p, <2>1, TryWalks DEF Called
  <1>2. CASE Initialize(w)
    <2>1. /\ InitializeScript(p, worker[w].stamp) /\ UNCHANGED late
          /\ \/ ready[p] = "deleted" /\ Finish(w, "ack", FALSE)
             \/ (Writable(p, worker[w].stamp) \/ Complete(p)) /\ Finish(w, "commit", FALSE)
             \/ Finish(w, "put", FALSE)
      BY <1>2, <1>p DEF Initialize
    <2>2. Scripted(p, worker[w].stamp)
      BY <1>s, <2>1, ScriptMoves
    <2>3. born \subseteq born' /\ (Writable(p, worker[w].stamp) => p \in born')
      BY <2>2 DEF Scripted, Written
    <2>4. PICK goal \in {"ack", "put", "commit"} : Finish(w, goal, FALSE) /\ (goal # "put" => p \in born' \/ deletion[p] # "no")
      BY <2>1, <2>3, Reasons
    <2>5. Walks(w, p) /\ ~worker'[w].reset /\ worker'[w].phase = "release"
      BY <1>0, <1>p, <2>4, FinishWalks
    <2> QED
      BY <1>0, <1>e, <2>1, <2>2, <2>5 DEF Called
  <1>3. CASE InitializeLost(w)
    <2>1. /\ \/ InitializeScript(p, worker[w].stamp) /\ UNCHANGED late
             \/ UNCHANGED <<redisVars, born>> /\ late' \in {late, late \cup {<<p, worker[w].stamp>>}}
          /\ \/ ready'[p] = "1" /\ Finish(w, "commit", FALSE)
             \/ Finish(w, "put", FALSE)
      BY <1>3, <1>p DEF InitializeLost
    <2>2. \/ Scripted(p, worker[w].stamp) /\ UNCHANGED late
          \/ UNCHANGED <<redisVars, born>> /\ late' \in {late, late \cup {<<p, worker[w].stamp>>}}
      BY <1>s, <2>1, ScriptMoves
    <2>3. ready'[p] = "1" => p \in born'
      BY <2>2 DEF Scripted, Written, redisVars, BornInv
    <2>4. PICK goal \in {"put", "commit"} : Finish(w, goal, FALSE) /\ (goal # "put" => p \in born')
      BY <2>1, <2>3
    <2>5. Walks(w, p) /\ ~worker'[w].reset /\ worker'[w].phase = "release"
      BY <1>0, <1>p, <2>4, FinishWalks
    <2> QED
      BY <1>0, <1>e, <2>2, <2>5 DEF Called, redisVars
  <1> QED
    BY <1>1, <1>2, <1>3

\* After the attempt the worker goes on with the goal it was left with.
LEMMA EndWalks ==
  ASSUME ShapeInv, SeenInv, NEW w \in Workers,
         ReleaseRebuild(w) \/ ReleaseFails(w) \/ CommitAttempt(w) \/ CommitFails(w)
  PROVE  \E p \in Posts : Walks(w, p)
  <1>0. worker[w].phase \in {"release", "commit"}
    BY DEF ReleaseRebuild, ReleaseFails, CommitAttempt, CommitFails
  <1>p. PICK p \in Posts : worker[w].post = {p}
    BY <1>0, PostOf
  <1>1. PICK ph \in {"ack", "put", "commit"} :
          Go(w, ph) /\ (ph # "put" => Acknowledging(w))
    <2>1. worker[w].phase = "release" => worker[w].goal \in {"ack", "put", "commit"}
      BY <1>p DEF SeenInv, At
    <2> QED
      BY <1>0, <2>1 DEF ReleaseRebuild, ReleaseFails, CommitAttempt, CommitFails, Acknowledging
  <1>2. Edited(w, ph, worker[w].state, worker[w].goal, worker[w].reset)
    BY <1>1, GoMoves DEF Phases
  <1> QED
    BY <1>0, <1>1, <1>2, <1>p DEF Edited, Walks, Acknowledging, InTransaction, Attempting, At

-----------------------------------------------------------------------------
(* The kinds of steps.                                                     *)

stores == <<ready, token, late, likes, born, deletion>>

JobEdited(p, state, stamp) ==
  /\ job' \in [Posts -> Job] /\ \A q \in Posts : q # p => job'[q] = job[q]
  /\ job'[p].state = state /\ job'[p].stamp = stamp

ClaimStep(w, p) ==
  /\ worker[w].phase = "idle" /\ job[p].state # "none" /\ claims[p] < MaxClaims
  /\ claims' = [claims EXCEPT ![p] = claims[p] + 1]
  /\ JobEdited(p, job[p].state, claims[p] + 1)
  /\ Others(w) /\ worker' \in [Workers -> Worker]
  /\ worker'[w].post = {p} /\ worker'[w].stamp = claims[p] + 1 /\ worker'[w].state = job[p].state
  /\ worker'[w].phase = "claimed" /\ ~worker'[w].reset
  /\ UNCHANGED stores

MarkStep(w, p) ==
  /\ worker[w].phase = "mark" /\ worker[w].post = {p} /\ Owns(w, p)
  /\ JobEdited(p, "attempted", job[p].stamp)
  /\ Edited(w, worker[w].goal, "attempted", worker[w].goal, worker[w].reset)
  /\ UNCHANGED <<claims, stores>>

Released(w) ==
  token' = [p \in Posts |-> IF p \in worker[w].post /\ token[p] = worker[w].stamp THEN 0 ELSE token[p]]

WalkStep(w, p) ==
  /\ Walks(w, p) /\ UNCHANGED <<job, claims, likes, deletion>>
  /\ \/ UNCHANGED <<ready, token, late, born>>
     \/ UNCHANGED <<ready, late, born>> /\ (Taken(w, p) \/ Released(w))
     \/ Called(w, p)

Acknowledged(w) ==
  /\ worker[w].phase = "ack"
  /\ job' = [p \in Posts |-> IF At(w, p) /\ Owns(w, p) THEN NoJob ELSE job[p]]

Rescheduled(w) ==
  /\ worker[w].phase = "put"
  /\ job' = [p \in Posts |->
       IF At(w, p) /\ Owns(w, p)
       THEN [state |-> IF worker[w].reset THEN "pending" ELSE job[p].state, stamp |-> 0, due |-> FALSE]
       ELSE job[p]]

StopStep(w) ==
  Stopped(w) /\ UNCHANGED <<claims, stores>> /\ (UNCHANGED job \/ Acknowledged(w) \/ Rescheduled(w))

\* What happens to a Post without a worker.
DueStep(p) ==
  /\ JobEdited(p, job[p].state, job[p].stamp)
  /\ UNCHANGED stores

LateStep(p) ==
  /\ \E s \in 1..MaxClaims : <<p, s>> \in late /\ late' = late \ {<<p, s>>} /\ Scripted(p, s)
  /\ UNCHANGED <<job, likes, deletion>>

LikeStep(p) ==
  /\ ready[p] = "1" /\ likes[p] < MaxLikes /\ likes' = [likes EXCEPT ![p] = likes[p] + 1]
  /\ UNCHANGED <<job, ready, token, late, born, deletion>>

LossStep(p) ==
  /\ ready' \in {ready, [ready EXCEPT ![p] = "none"]} /\ token' \in {token, [token EXCEPT ![p] = 0]}
  /\ UNCHANGED <<job, late, likes, born, deletion>>

DeletionStep(p) ==
  /\ \/ /\ deletion[p] = "no" /\ ~Locked(p) /\ deletion' = [deletion EXCEPT ![p] = "sql"]
        /\ UNCHANGED <<ready, token>>
     \/ /\ deletion[p] = "sql" /\ deletion' = [deletion EXCEPT ![p] = "marked"]
        /\ ready' = [ready EXCEPT ![p] = "deleted"] /\ token' = [token EXCEPT ![p] = 0]
     \/ /\ deletion[p] = "marked" /\ deletion' = [deletion EXCEPT ![p] = "purged"]
        /\ ready' = IF ready[p] = "deleted" THEN ready ELSE [ready EXCEPT ![p] = "none"]
        /\ token' = [token EXCEPT ![p] = 0]
  /\ UNCHANGED <<job, late, likes, born>>

PostStep(p) ==
  /\ UNCHANGED <<worker, claims>>
  /\ DueStep(p) \/ LateStep(p) \/ LikeStep(p) \/ LossStep(p) \/ DeletionStep(p)

Steps ==
  \/ \E w \in Workers, p \in Posts : ClaimStep(w, p) \/ MarkStep(w, p) \/ WalkStep(w, p)
  \/ \E w \in Workers : StopStep(w)
  \/ \E p \in Posts : PostStep(p)

\* Each action is a step of its kind: a claim takes the next number,
LEMMA ClaimSteps ==
  ASSUME ShapeInv, NEW w \in Workers, NEW p \in Posts, ClaimJob(w, p)
  PROVE  ClaimStep(w, p)
  <1> DEFINE n == claims[p] + 1
             r == [IdleWorker EXCEPT !.phase = "claimed", !.post = {p}, !.stamp = n, !.state = job[p].state]
  <1>1. /\ worker[w].phase = "idle" /\ job[p].state # "none" /\ claims[p] < MaxClaims
        /\ claims' = [claims EXCEPT ![p] = n]
        /\ job' = [job EXCEPT ![p].stamp = n, ![p].due = FALSE]
        /\ worker' = [worker EXCEPT ![w] = r]
        /\ UNCHANGED stores
    BY DEF ClaimJob, redisVars, sqlVars, stores
  <1>2. n \in Nat /\ job \in [Posts -> Job] /\ job[p] \in Job /\ worker \in [Workers -> Worker]
    BY DEF ShapeInv
  <1> HIDE DEF n
  <1>3. job'[p] = [job[p] EXCEPT !.stamp = n, !.due = FALSE] /\ \A q \in Posts : q # p => job'[q] = job[q]
    BY <1>1, <1>2
  <1>4. JobEdited(p, job[p].state, n)
    <2>1. job'[p] \in Job
      BY <1>2, <1>3 DEF Job
    <2>2. job' \in [Posts -> Job]
      BY <1>1, <1>2, <2>1
    <2> QED
      BY <1>2, <1>3, <2>2 DEF JobEdited, Job
  <1>5. r \in Worker
    <2>1. IdleWorker \in Worker /\ "claimed" \in Phases /\ {p} \in SUBSET Posts
      BY IdleType DEF Phases
    <2>2. job[p].state \in {"none", "pending", "attempted"}
      BY <1>2 DEF Job
    <2> QED
      BY <1>2, <2>1, <2>2 DEF Worker
  <1>6. /\ r.post = {p} /\ r.stamp = n /\ r.state = job[p].state /\ r.phase = "claimed" /\ ~r.reset
    BY DEF IdleWorker
  <1> HIDE DEF r
  <1>7. Others(w) /\ worker' \in [Workers -> Worker] /\ worker'[w] = r
    BY <1>1, <1>2, <1>5 DEF Others
  <1> QED
    BY <1>1, <1>4, <1>6, <1>7 DEF ClaimStep, n

\* a mark changes the job of its owner only,
LEMMA MarkSteps ==
  ASSUME ShapeInv, SeenInv, NEW w \in Workers, MarkAttempted(w)
  PROVE  StopStep(w) \/ \E p \in Posts : MarkStep(w, p)
  <1>0. worker[w].phase = "mark" /\ UNCHANGED <<claims, stores>>
    BY DEF MarkAttempted, redisVars, sqlVars, stores
  <1>p. PICK p \in Posts : worker[w].post = {p}
    BY <1>0, PostOf
  <1>1. \/ /\ Owns(w, p) /\ job' = [job EXCEPT ![p].state = "attempted"]
           /\ worker' = [worker EXCEPT ![w].phase = worker[w].goal, ![w].state = "attempted"]
        \/ Stop(w) /\ UNCHANGED job
    BY <1>p DEF MarkAttempted
  <1>2. CASE Stop(w) /\ UNCHANGED job
    BY <1>0, <1>2, StopMoves DEF StopStep
  <1>3. CASE /\ Owns(w, p) /\ job' = [job EXCEPT ![p].state = "attempted"]
             /\ worker' = [worker EXCEPT ![w].phase = worker[w].goal, ![w].state = "attempted"]
    <2>1. worker \in [Workers -> Worker] /\ worker[w] \in Worker /\ job \in [Posts -> Job] /\ job[p] \in Job
      BY DEF ShapeInv
    <2>2. worker[w].goal \in Phases
      BY <1>0, <1>p DEF SeenInv, At, Phases
    <2>3. worker'[w] = [worker[w] EXCEPT !.phase = worker[w].goal, !.state = "attempted"]
      BY <1>3, <2>1
    <2>4. worker'[w] \in Worker
      BY <2>1, <2>2, <2>3 DEF Worker
    <2>5. Others(w) /\ worker' \in [Workers -> Worker]
      BY <1>3, <2>1, <2>4 DEF Others
    <2>6. Edited(w, worker[w].goal, "attempted", worker[w].goal, worker[w].reset)
      BY <2>1, <2>3, <2>5 DEF Edited, Worker
    <2>7. job'[p] = [job[p] EXCEPT !.state = "attempted"] /\ \A q \in Posts : q # p => job'[q] = job[q]
      BY <1>3, <2>1
    <2>8. JobEdited(p, "attempted", job[p].stamp)
      <3>1. job'[p] \in Job
        BY <2>1, <2>7 DEF Job
      <3>2. job' \in [Posts -> Job]
        BY <1>3, <2>1, <3>1
      <3> QED
        BY <2>1, <2>7, <3>2 DEF JobEdited, Job
    <2> QED
      BY <1>0, <1>3, <1>p, <2>6, <2>8 DEF MarkStep
  <1> QED
    BY <1>1, <1>2, <1>3

\* a worker that stops clears or reschedules a job that is its own,
LEMMA StopSteps ==
  ASSUME ShapeInv, NEW w \in Workers, Acknowledge(w) \/ AckFails(w) \/ Reschedule(w) \/ WorkerCrash(w)
  PROVE  StopStep(w)
  <1>1. Stop(w) /\ UNCHANGED <<claims, stores>>
    BY DEF Acknowledge, AckFails, Reschedule, WorkerCrash, redisVars, sqlVars, stores
  <1>2. UNCHANGED job \/ Acknowledged(w) \/ Rescheduled(w)
    BY DEF Acknowledge, AckFails, Reschedule, WorkerCrash, Acknowledged, Rescheduled, At
  <1> QED
    BY <1>1, <1>2, StopMoves DEF StopStep

\* the rest of processClaimed leaves the job alone,
LEMMA WalkSteps ==
  ASSUME ShapeInv, SeenInv, BornInv, DeletionInv, NEW w \in Workers,
         \/ LoadPost(w) \/ CheckState(w) \/ CheckFails(w) \/ LockPost(w) \/ LockFails(w)
         \/ AcquireToken(w) \/ AcquireRefused(w) \/ AcquireLost(w)
         \/ Initialize(w) \/ InitializeRefused(w) \/ InitializeLost(w)
         \/ ReleaseRebuild(w) \/ ReleaseFails(w) \/ CommitAttempt(w) \/ CommitFails(w)
  PROVE  \E p \in Posts : WalkStep(w, p)
  <1>1. CASE LoadPost(w) \/ CheckState(w) \/ CheckFails(w)
    <2>1. UNCHANGED <<job, claims, stores>>
      BY <1>1 DEF LoadPost, CheckState, CheckFails, redisVars, sqlVars, stores
    <2> QED
      BY <1>1, <2>1, CheckWalks DEF WalkStep, stores
  <1>2. CASE LockPost(w) \/ LockFails(w)
    <2>1. UNCHANGED <<job, claims, stores>>
      BY <1>2 DEF LockPost, LockFails, redisVars, sqlVars, stores
    <2> QED
      BY <1>2, <2>1, LockWalks DEF WalkStep, stores
  <1>3. CASE AcquireToken(w) \/ AcquireRefused(w) \/ AcquireLost(w)
    <2>1. UNCHANGED <<job, claims, ready, late, likes, born, deletion>>
      BY <1>3 DEF AcquireToken, AcquireRefused, AcquireLost, redisVars, sqlVars
    <2> QED
      BY <1>3, <2>1, AcquireWalks DEF WalkStep
  <1>4. CASE Initialize(w) \/ InitializeRefused(w) \/ InitializeLost(w)
    <2>1. UNCHANGED <<job, claims, likes, deletion>>
      BY <1>4 DEF Initialize, InitializeRefused, InitializeLost, sqlVars
    <2> QED
      BY <1>4, <2>1, InitializeWalks DEF WalkStep, Called
  <1>5. CASE ReleaseRebuild(w) \/ ReleaseFails(w) \/ CommitAttempt(w) \/ CommitFails(w)
    <2>1. UNCHANGED <<job, claims, ready, late, likes, born, deletion>> /\ (UNCHANGED token \/ Released(w))
      BY <1>5 DEF ReleaseRebuild, ReleaseFails, CommitAttempt, CommitFails, redisVars, sqlVars, Released
    <2> QED
      BY <1>5, <2>1, EndWalks DEF WalkStep
  <1> QED
    BY <1>1, <1>2, <1>3, <1>4, <1>5

\* and what happens to a Post without a worker leaves the workers alone.
LEMMA PostSteps ==
  ASSUME ShapeInv, NEW p \in Posts, PostNext(p)
  PROVE  PostStep(p)
  <1>1. CASE JobDue(p)
    <2>1. job' = [job EXCEPT ![p].due = TRUE] /\ UNCHANGED <<worker, claims, stores>>
      BY <1>1 DEF JobDue, redisVars, sqlVars, stores
    <2>2. job \in [Posts -> Job] /\ job[p] \in Job
      BY DEF ShapeInv
    <2>3. job'[p] = [job[p] EXCEPT !.due = TRUE] /\ \A q \in Posts : q # p => job'[q] = job[q]
      BY <2>1, <2>2
    <2>4. JobEdited(p, job[p].state, job[p].stamp)
      <3>1. job'[p] \in Job
        BY <2>2, <2>3 DEF Job
      <3>2. job' \in [Posts -> Job]
        BY <2>1, <2>2, <3>1
      <3> QED
        BY <2>2, <2>3, <3>2 DEF JobEdited, Job
    <2> QED
      BY <2>1, <2>4 DEF PostStep, DueStep
  <1>2. CASE \E s \in 1..MaxClaims : LateInitialize(p, s)
    <2>1. PICK s \in 1..MaxClaims : LateInitialize(p, s)
      BY <1>2
    <2>2. Scripted(p, s)
      BY <2>1, ScriptMoves DEF LateInitialize
    <2>3. <<p, s>> \in late /\ late' = late \ {<<p, s>>} /\ UNCHANGED <<worker, claims, job, likes, deletion>>
      BY <2>1 DEF LateInitialize, sqlVars
    <2> QED
      BY <2>2, <2>3 DEF PostStep, LateStep
  <1>3. CASE Like(p)
    BY <1>3 DEF Like, Complete, PostStep, LikeStep, sqlVars
  <1>4. CASE TokenExpires(p) \/ Project(p) \/ TombstoneExpires(p)
    BY <1>4 DEF TokenExpires, Project, TombstoneExpires, PostStep, LossStep, redisVars, sqlVars
  <1>5. CASE RedisLoses(p)
    <2>1. UNCHANGED <<worker, claims, job, late, likes, born, deletion>>
      BY <1>5 DEF RedisLoses, sqlVars
    <2>2. ready' \in {ready, [ready EXCEPT ![p] = "none"]} /\ token' \in {token, [token EXCEPT ![p] = 0]}
      BY <1>5 DEF RedisLoses
    <2> QED
      BY <2>1, <2>2 DEF PostStep, LossStep
  <1>6. CASE DeletePost(p) \/ MarkPostDeleted(p) \/ PurgePost(p)
    BY <1>6 DEF DeletePost, MarkPostDeleted, PurgePost, PostStep, DeletionStep, redisVars
  <1> QED
    BY <1>1, <1>2, <1>3, <1>4, <1>5, <1>6 DEF PostNext

\* Every step is of one of these kinds.
LEMMA NextSteps ==
  ASSUME ShapeInv, SeenInv, BornInv, DeletionInv, Next
  PROVE  Steps
  <1>1. ASSUME NEW w \in Workers, WorkerNext(w) PROVE Steps
    <2>1. CASE \E p \in Posts : ClaimJob(w, p)
      BY <2>1, ClaimSteps DEF Steps
    <2>2. CASE MarkAttempted(w)
      BY <2>2, MarkSteps DEF Steps
    <2>3. CASE Acknowledge(w) \/ AckFails(w) \/ Reschedule(w) \/ WorkerCrash(w)
      BY <2>3, StopSteps DEF Steps
    <2>4. ASSUME \E p \in Posts : WalkStep(w, p) PROVE Steps
      BY <2>4 DEF Steps
    <2> QED
      BY <1>1, <2>1, <2>2, <2>3, <2>4, WalkSteps DEF WorkerNext
  <1>2. ASSUME NEW p \in Posts, PostNext(p) PROVE Steps
    BY <1>2, PostSteps DEF Steps
  <1> QED
    BY <1>1, <1>2 DEF Next

-----------------------------------------------------------------------------
(* What a step can do to one Post.                                         *)

\* A claim and a mark are made by the worker itself; no step makes another
\* worker attempt.
LEMMA AttemptKept ==
  ASSUME ShapeInv, SeenInv, Steps, NEW x \in Workers, NEW p \in Posts, Attempting(x, p)'
  PROVE  Attempting(x, p) \/ (MarkStep(x, p) /\ job[p].state = "pending")
  <1>s. worker'[x] = worker[x] => Attempting(x, p)
    BY DEF Attempting, At
  <1>1. ASSUME NEW w \in Workers, NEW q \in Posts, ClaimStep(w, q) PROVE Attempting(x, p)
    BY <1>1, <1>s DEF ClaimStep, Others, Attempting, At
  <1>2. ASSUME NEW w \in Workers, NEW q \in Posts, MarkStep(w, q)
        PROVE  Attempting(x, p) \/ (MarkStep(x, p) /\ job[p].state = "pending")
    <2>1. CASE x # w
      BY <1>2, <1>s, <2>1 DEF MarkStep, Edited, Others
    <2>2. CASE x = w
      <3>1. worker[w].phase = "mark" /\ At(w, q) /\ Owns(w, q) /\ worker'[w].post = worker[w].post /\ worker[w].post = {q}
        BY <1>2 DEF MarkStep, Edited, At
      <3>2. p = q
        BY <2>2, <3>1 DEF Attempting, At
      <3>3. job[p].state = worker[w].state /\ worker[w].state = "pending"
        BY <3>1, <3>2 DEF SeenInv
      <3> QED
        BY <1>2, <2>2, <3>2, <3>3
    <2> QED
      BY <2>1, <2>2
  <1>3. ASSUME NEW w \in Workers, NEW q \in Posts, WalkStep(w, q) PROVE Attempting(x, p)
    <2>1. Walks(w, q)
      BY <1>3 DEF WalkStep
    <2>2. CASE x # w
      BY <1>s, <2>1, <2>2 DEF Walks, Others
    <2>3. CASE x = w
      <3>1. worker'[w].post = {q} /\ worker'[w].phase # "init"
        BY <2>1 DEF Walks
      <3>2. p = q /\ (worker'[w].phase \in {"locked", "held"} \/ worker'[w].reset)
        BY <2>3, <3>1 DEF Attempting, At
      <3> QED
        BY <2>1, <2>3, <3>2 DEF Walks
    <2> QED
      BY <2>2, <2>3
  <1>4. ASSUME NEW w \in Workers, StopStep(w) PROVE Attempting(x, p)
    BY <1>4, <1>s DEF StopStep, Stopped, Others, Attempting, At, IdleWorker
  <1>5. ASSUME NEW q \in Posts, PostStep(q) PROVE Attempting(x, p)
    BY <1>5, <1>s DEF PostStep
  <1> QED
    BY <1>1, <1>2, <1>3, <1>4, <1>5 DEF Steps

\* The first state is written, or a call for it is given up, by an attempt
\* that ends; or a call that was given up is run.
LEMMA Writes ==
  ASSUME ShapeInv, Steps, NEW p \in Posts, Unwritten(p), ~Unwritten(p)'
  PROVE  UNCHANGED job /\ \E w \in Workers : Attempting(w, p) /\ ~Attempting(w, p)'
  <1>0. ~UNCHANGED <<born, late>>
    BY DEF Unwritten
  <1>1. ASSUME NEW w \in Workers, NEW q \in Posts, WalkStep(w, q)
        PROVE  UNCHANGED job /\ Attempting(w, p) /\ ~Attempting(w, p)'
    <2>1. UNCHANGED job /\ Called(w, q)
      BY <1>0, <1>1 DEF WalkStep
    <2>2. /\ worker[w].phase = "held" /\ worker[w].post = {q} /\ ~Attempting(w, q)'
          /\ \/ Scripted(q, worker[w].stamp) /\ UNCHANGED late
             \/ UNCHANGED born /\ late' = late \cup {<<q, worker[w].stamp>>}
      BY <1>0, <2>1 DEF Called, Walks
    <2>3. p = q
      BY <2>2 DEF Scripted, Written, Unwritten
    <2> QED
      BY <2>1, <2>2, <2>3 DEF Attempting, At
  <1>2. ASSUME NEW q \in Posts, LateStep(q) PROVE FALSE
    <2>1. PICK s \in 1..MaxClaims : <<q, s>> \in late /\ late' = late \ {<<q, s>>} /\ Scripted(q, s)
      BY <1>2 DEF LateStep
    <2>2. p # q
      BY <2>1 DEF Unwritten
    <2> QED
      BY <2>1, <2>2 DEF Scripted, Written, Unwritten
  <1>3. \/ \E w \in Workers, q \in Posts : WalkStep(w, q)
        \/ \E q \in Posts : LateStep(q)
    BY <1>0 DEF Steps, ClaimStep, MarkStep, StopStep, PostStep, DueStep, LikeStep, LossStep, DeletionStep, stores
  <1> QED
    BY <1>1, <1>2, <1>3

\* A job becomes pending again only when the attempt that ends changed nothing.
LEMMA Pendings ==
  ASSUME ShapeInv, Steps, NEW p \in Posts, job'[p].state = "pending", job[p].state # "pending"
  PROVE  \E w \in Workers : Attempting(w, p) /\ Stopped(w) /\ UNCHANGED <<born, late>>
  <1>0. job'[p] # job[p] /\ job'[p].state # job[p].state /\ job'[p].state # "attempted"
    OBVIOUS
  <1>j. job \in [Posts -> Job]
    BY DEF ShapeInv
  <1>1. ASSUME NEW w \in Workers, StopStep(w) PROVE Attempting(w, p) /\ Stopped(w) /\ UNCHANGED <<born, late>>
    <2>1. Stopped(w) /\ UNCHANGED <<born, late>>
      BY <1>1 DEF StopStep, stores
    <2>2. ~Acknowledged(w)
      BY <1>0 DEF Acknowledged, NoJob
    <2>3. Rescheduled(w)
      BY <1>0, <1>1, <2>2 DEF StopStep
    <2>4. At(w, p) /\ worker[w].reset
      BY <1>0, <2>3 DEF Rescheduled
    <2> QED
      BY <2>1, <2>4 DEF Attempting
  <1>2. ASSUME NEW w \in Workers, NEW q \in Posts, ClaimStep(w, q) PROVE FALSE
    BY <1>0, <1>2, <1>j DEF ClaimStep, JobEdited
  <1>3. ASSUME NEW w \in Workers, NEW q \in Posts, MarkStep(w, q) PROVE FALSE
    BY <1>0, <1>3, <1>j DEF MarkStep, JobEdited
  <1>4. ASSUME NEW w \in Workers, NEW q \in Posts, WalkStep(w, q) PROVE FALSE
    BY <1>0, <1>4 DEF WalkStep
  <1>5. ASSUME NEW q \in Posts, PostStep(q) PROVE FALSE
    BY <1>0, <1>5, <1>j DEF PostStep, DueStep, LateStep, LikeStep, LossStep, DeletionStep, JobEdited
  <1> QED
    BY <1>1, <1>2, <1>3, <1>4, <1>5 DEF Steps

\* The worker that takes the token of p holds the row of p.
Takes(w, p) == At(w, p) /\ worker[w].phase = "locked" /\ token'[p] = worker[w].stamp

\* What can happen to the Redis state of p: the first state is written, against
\* a token; or nothing is written, and a token may be taken or go.
Touched(p) ==
  \/ token[p] # 0 /\ Written(p, token[p])
  \/ /\ p \in born' <=> p \in born
     /\ ready'[p] \in {ready[p], "none"} \/ (ready'[p] = "deleted" /\ deletion'[p] = "marked")
     /\ token'[p] \in {token[p], 0} \/ \E w \in Workers : Takes(w, p)

\* A script, run now or late, touches its own Post only.
LEMMA ScriptTouches ==
  ASSUME ShapeInv, NEW q \in Posts, NEW s \in Nat \ {0}, Scripted(q, s), NEW p \in Posts
  PROVE  Touched(p)
  <1>1. CASE p = q
    BY <1>1 DEF Scripted, Written, Touched
  <1>2. CASE p # q
    <2>1. ready'[p] = ready[p] /\ token'[p] = token[p]
      BY <1>2 DEF Scripted, Elsewhere
    <2>2. p \in born' <=> p \in born
      BY <1>2 DEF Scripted, Written
    <2> QED
      BY <2>1, <2>2 DEF Touched
  <1> QED
    BY <1>1, <1>2

\* No step writes a first state without a token.
LEMMA Touches ==
  ASSUME ShapeInv, StampInv, Steps, NEW p \in Posts
  PROVE  Touched(p)
  <1>t. ready \in [Posts -> {"1", "deleted", "none"}] /\ token \in [Posts -> Nat] /\ deletion \in [Posts -> {"no", "sql", "marked", "purged"}]
    BY DEF ShapeInv
  <1>0. ASSUME UNCHANGED <<ready, token, born>> PROVE Touched(p)
    BY <1>0 DEF Touched
  <1>1. ASSUME NEW w \in Workers, NEW q \in Posts, WalkStep(w, q) PROVE Touched(p)
    <2>1. At(w, q) /\ worker[w].stamp \in Nat \ {0}
      <3>1. At(w, q)
        BY <1>1 DEF WalkStep, Walks, At
      <3>2. worker[w].stamp \in 1..claims[q] /\ claims[q] \in Nat
        BY <3>1 DEF StampInv, ShapeInv
      <3> QED
        BY <3>1, <3>2
    <2>2. CASE UNCHANGED <<ready, born>> /\ Taken(w, q)
      <3>1. CASE p = q
        BY <1>t, <2>1, <2>2, <3>1 DEF Taken, Takes, Touched
      <3>2. CASE p # q
        BY <1>t, <2>2, <3>2 DEF Taken, Touched
      <3> QED
        BY <3>1, <3>2
    <2>3. CASE UNCHANGED <<ready, born>> /\ Released(w)
      BY <2>3 DEF Released, Touched
    <2>4. CASE Scripted(q, worker[w].stamp)
      BY <2>1, <2>4, ScriptTouches
    <2> QED
      BY <1>0, <1>1, <2>2, <2>3, <2>4 DEF WalkStep, Called
  <1>2. ASSUME NEW q \in Posts, LateStep(q) PROVE Touched(p)
    BY <1>2, ScriptTouches DEF LateStep
  <1>3. ASSUME NEW q \in Posts, LossStep(q) PROVE Touched(p)
    <2>1. ready'[p] \in {ready[p], "none"} /\ token'[p] \in {token[p], 0} /\ born' = born
      BY <1>3, <1>t DEF LossStep
    <2> QED
      BY <2>1 DEF Touched
  <1>4. ASSUME NEW q \in Posts, DeletionStep(q) PROVE Touched(p)
    <2>1. token'[p] \in {token[p], 0} /\ born' = born
      BY <1>4, <1>t DEF DeletionStep
    <2>2. ready'[p] \in {ready[p], "none"} \/ (ready'[p] = "deleted" /\ deletion'[p] = "marked")
      BY <1>4, <1>t DEF DeletionStep
    <2> QED
      BY <2>1, <2>2 DEF Touched
  <1>5. \/ UNCHANGED <<ready, token, born>>
        \/ \E w \in Workers, q \in Posts : WalkStep(w, q)
        \/ \E q \in Posts : LateStep(q) \/ LossStep(q) \/ DeletionStep(q)
    BY DEF Steps, ClaimStep, MarkStep, StopStep, PostStep, DueStep, LikeStep, stores
  <1> QED
    BY <1>0, <1>1, <1>2, <1>3, <1>4, <1>5

\* The deletion goes on, and no worker moves while it does.
Deletes(p) ==
  \/ deletion'[p] = deletion[p]
  \/ UNCHANGED worker /\ deletion[p] = "no" /\ deletion'[p] = "sql" /\ ~Locked(p)
  \/ UNCHANGED worker /\ deletion[p] # "no" /\ deletion'[p] \in {"marked", "purged"} /\ ready'[p] # "1" /\ token'[p] = 0

\* A deletion waits for the row lock and takes the token away.
LEMMA DeletionSteps ==
  ASSUME ShapeInv, Steps, NEW p \in Posts
  PROVE  Deletes(p)
  <1>t. ready \in [Posts -> {"1", "deleted", "none"}] /\ token \in [Posts -> Nat] /\ deletion \in [Posts -> {"no", "sql", "marked", "purged"}]
    BY DEF ShapeInv
  <1>1. UNCHANGED deletion \/ \E q \in Posts : UNCHANGED worker /\ DeletionStep(q)
    BY DEF Steps, ClaimStep, MarkStep, WalkStep, StopStep, PostStep, DueStep, LateStep, LikeStep, LossStep, stores
  <1>2. ASSUME NEW q \in Posts, UNCHANGED worker, DeletionStep(q) PROVE Deletes(p)
    <2>1. CASE p = q
      BY <1>2, <1>t, <2>1 DEF DeletionStep, Deletes
    <2>2. CASE p # q
      BY <1>2, <1>t, <2>2 DEF DeletionStep, Deletes
    <2> QED
      BY <2>1, <2>2
  <1> QED
    BY <1>1, <1>2 DEF Deletes

-----------------------------------------------------------------------------
(* One step.                                                               *)

\* Claims keep their numbers apart.
LEMMA StampStep ==
  ASSUME ShapeInv, ShapeInv', StampInv, SeenInv, Steps
  PROVE  StampInv'
  <1>c. \A p \in Posts : claims[p] \in Nat /\ claims'[p] \in Nat /\ token[p] \in Nat /\ job[p].stamp \in Nat
    BY DEF ShapeInv, Job
  <1>0. \A w \in Workers : worker[w].stamp \in Nat
    BY DEF ShapeInv, Worker
  <1>g. \A p \in Posts : claims[p] <= claims'[p]
    <2>1. ASSUME NEW w \in Workers, NEW q \in Posts, ClaimStep(w, q), NEW p \in Posts PROVE claims[p] <= claims'[p]
      BY <1>c, <2>1 DEF ClaimStep, ShapeInv
    <2>2. UNCHANGED claims \/ \E w \in Workers, q \in Posts : ClaimStep(w, q)
      BY DEF Steps, MarkStep, WalkStep, StopStep, PostStep
    <2> QED
      BY <1>c, <2>1, <2>2
  <1>1. ASSUME NEW p \in Posts PROVE token'[p] <= claims'[p]
    <2>1. token'[p] \in {token[p], 0} \/ \E w \in Workers : Takes(w, p)
      BY Touches DEF Touched, Written
    <2>2. ASSUME NEW w \in Workers, Takes(w, p) PROVE token'[p] <= claims[p]
      BY <1>c, <2>2 DEF Takes, StampInv
    <2>3. token[p] <= claims[p] /\ token'[p] \in Nat
      BY DEF StampInv, ShapeInv
    <2> QED
      BY <1>c, <1>g, <2>1, <2>2, <2>3
  <1>2. ASSUME NEW p \in Posts PROVE job'[p].stamp <= claims'[p]
    <2>1. job'[p].stamp \in {job[p].stamp, 0, claims'[p]}
      <3>j. job \in [Posts -> Job] /\ claims \in [Posts -> 0..MaxClaims]
        BY DEF ShapeInv
      <3>1. ASSUME NEW w \in Workers, NEW q \in Posts, ClaimStep(w, q) PROVE job'[p].stamp \in {job[p].stamp, claims'[p]}
        BY <3>1, <3>j DEF ClaimStep, JobEdited
      <3>2. ASSUME NEW w \in Workers, NEW q \in Posts, MarkStep(w, q) PROVE job'[p].stamp = job[p].stamp
        BY <3>2, <3>j DEF MarkStep, JobEdited
      <3>3. ASSUME NEW w \in Workers, StopStep(w) PROVE job'[p].stamp \in {job[p].stamp, 0}
        BY <3>3 DEF StopStep, Acknowledged, Rescheduled, NoJob
      <3>4. ASSUME NEW q \in Posts, PostStep(q) PROVE job'[p].stamp = job[p].stamp
        BY <3>4, <3>j DEF PostStep, DueStep, LateStep, LikeStep, LossStep, DeletionStep, JobEdited
      <3>5. ASSUME NEW w \in Workers, NEW q \in Posts, WalkStep(w, q) PROVE job'[p].stamp = job[p].stamp
        BY <3>5 DEF WalkStep
      <3> QED
        BY <3>1, <3>2, <3>3, <3>4, <3>5 DEF Steps
    <2> QED
      BY <1>c, <1>g, <2>1 DEF StampInv
  <1>3. ASSUME NEW w \in Workers, NEW p \in Posts, At(w, p)'
        PROVE  /\ worker'[w].phase # "idle"
               /\ worker'[w].stamp \in 1..claims'[p]
               /\ \A x \in Workers : At(x, p)' /\ worker'[x].stamp = worker'[w].stamp => x = w
    <2> DEFINE Kept(x) == At(x, p) /\ worker'[x].stamp = worker[x].stamp
               New(x) == worker'[x].stamp = claims[p] + 1 /\ claims'[p] = claims[p] + 1 /\ \A y \in Workers : y # x => worker'[y] = worker[y]
    <2>1. ASSUME NEW x \in Workers, At(x, p)' PROVE worker'[x].phase # "idle" /\ (Kept(x) \/ New(x))
      <3>0. ASSUME worker'[x] = worker[x] PROVE worker'[x].phase # "idle" /\ Kept(x)
        BY <2>1, <3>0 DEF At, StampInv
      <3>1. ASSUME NEW v \in Workers, NEW q \in Posts, ClaimStep(v, q) PROVE worker'[x].phase # "idle" /\ (Kept(x) \/ New(x))
        <4>1. CASE x = v
          BY <2>1, <3>1, <4>1 DEF ClaimStep, At, Others, ShapeInv
        <4>2. CASE x # v
          BY <3>0, <3>1, <4>2 DEF ClaimStep, Others
        <4> QED
          BY <4>1, <4>2
      <3>2. ASSUME NEW v \in Workers, NEW q \in Posts, MarkStep(v, q) PROVE worker'[x].phase # "idle" /\ Kept(x)
        <4>1. CASE x = v
          <5>1. worker'[x].post = worker[x].post /\ worker'[x].stamp = worker[x].stamp
            BY <3>2, <4>1 DEF MarkStep, Edited
          <5>2. worker'[x].phase # "idle"
            <6>1. worker[v].phase = "mark" /\ At(v, q) /\ worker'[v].phase = worker[v].goal
              BY <3>2 DEF MarkStep, Edited, At
            <6>2. worker[v].goal \in {"init", "ack", "put"}
              BY <6>1 DEF SeenInv
            <6> QED
              BY <4>1, <6>1, <6>2
          <5> QED
            BY <2>1, <5>1, <5>2 DEF At
        <4>2. CASE x # v
          BY <3>0, <3>2, <4>2 DEF MarkStep, Edited, Others
        <4> QED
          BY <4>1, <4>2
      <3>3. ASSUME NEW v \in Workers, NEW q \in Posts, WalkStep(v, q) PROVE worker'[x].phase # "idle" /\ Kept(x)
        <4>1. CASE x = v
          BY <2>1, <3>3, <4>1 DEF WalkStep, Walks, At
        <4>2. CASE x # v
          BY <3>0, <3>3, <4>2 DEF WalkStep, Walks, Others
        <4> QED
          BY <4>1, <4>2
      <3>4. ASSUME NEW v \in Workers, StopStep(v) PROVE worker'[x].phase # "idle" /\ Kept(x)
        <4>1. x # v
          BY <2>1, <3>4 DEF StopStep, Stopped, At, IdleWorker
        <4> QED
          BY <3>0, <3>4, <4>1 DEF StopStep, Stopped, Others
      <3>5. ASSUME NEW q \in Posts, PostStep(q) PROVE worker'[x].phase # "idle" /\ Kept(x)
        BY <3>0, <3>5 DEF PostStep
      <3> QED
        BY <3>1, <3>2, <3>3, <3>4, <3>5 DEF Steps
    <2>2. ASSUME NEW x \in Workers, Kept(x) PROVE worker[x].stamp \in 1..claims[p]
      BY <2>2 DEF StampInv
    <2>3. worker'[w].stamp \in 1..claims'[p]
      BY <1>3, <1>0, <1>c, <1>g, <2>1, <2>2
    <2>4. ASSUME NEW x \in Workers, At(x, p)', worker'[x].stamp = worker'[w].stamp PROVE x = w
      <3>1. CASE Kept(x) /\ Kept(w)
        BY <2>4, <3>1 DEF StampInv
      <3>2. CASE New(x) \/ New(w)
        <4>1. SUFFICES ASSUME x # w PROVE FALSE
          OBVIOUS
        <4>2. At(x, p) \/ At(w, p)
          BY <1>3, <2>4, <3>2, <4>1 DEF At
        <4>3. worker'[x].stamp = claims[p] + 1 /\ worker'[w].stamp = claims[p] + 1
          BY <2>4, <3>2
        <4>4. \/ At(x, p) /\ worker[x].stamp = claims[p] + 1
              \/ At(w, p) /\ worker[w].stamp = claims[p] + 1
          BY <1>3, <2>4, <3>2, <4>1, <4>3 DEF At
        <4> QED
          BY <1>c, <4>4 DEF StampInv
      <3> QED
        BY <1>3, <2>1, <2>4, <3>1, <3>2
    <2> HIDE DEF Kept, New
    <2> QED
      BY <1>3, <2>1, <2>3, <2>4
  <1> QED
    BY <1>1, <1>2, <1>3 DEF StampInv

\* With the numbers unique, the owner of a job is one worker.
LEMMA OneOwner ==
  ASSUME ShapeInv, StampInv, NEW w \in Workers, NEW x \in Workers, NEW p \in Posts,
         At(w, p), At(x, p), Owns(w, p), Owns(x, p)
  PROVE  x = w
  BY DEF StampInv, Owns

\* What a worker has seen of its job stays so while the claim is its own.
LEMMA SeenStep ==
  ASSUME ShapeInv, ShapeInv', StampInv, StampInv', SeenInv, Steps
  PROVE  SeenInv'
  <1> DEFINE Seen(w, p) ==
        /\ worker[w].state # "none"
        /\ worker[w].phase \in InTransaction \cup {"init"} => worker[w].state = "attempted"
        /\ worker[w].phase = "mark" => worker[w].state = "pending" /\ worker[w].goal \in {"init", "ack", "put"}
        /\ worker[w].phase = "release" => worker[w].goal \in {"ack", "put", "commit"}
  <1> DEFINE Early(w) == worker[w].phase \in {"claimed", "live", "mark"}
  <1>j. job \in [Posts -> Job] /\ worker' \in [Workers -> Worker]
    BY DEF ShapeInv
  <1>1. ASSUME NEW x \in Workers, NEW p \in Posts, At(x, p)' PROVE Seen(x, p)'
    <2>0. ASSUME worker'[x] = worker[x] PROVE Seen(x, p)'
      BY <1>1, <2>0 DEF At, SeenInv
    <2>1. ASSUME NEW w \in Workers, NEW q \in Posts, ClaimStep(w, q) PROVE Seen(x, p)'
      <3>1. CASE x = w
        BY <2>1, <3>1 DEF ClaimStep, InTransaction
      <3>2. CASE x # w
        BY <2>0, <2>1, <3>2 DEF ClaimStep, Others
      <3> QED
        BY <3>1, <3>2
    <2>2. ASSUME NEW w \in Workers, NEW q \in Posts, MarkStep(w, q) PROVE Seen(x, p)'
      <3>1. CASE x = w
        <4>1. worker[w].phase = "mark" /\ At(w, q)
          BY <2>2 DEF MarkStep, At
        <4>2. worker[w].goal \in {"init", "ack", "put"}
          BY <4>1 DEF SeenInv
        <4>3. worker'[w].state = "attempted" /\ worker'[w].phase = worker[w].goal
          BY <2>2 DEF MarkStep, Edited
        <4> QED
          BY <3>1, <4>2, <4>3
      <3>2. CASE x # w
        BY <2>0, <2>2, <3>2 DEF MarkStep, Edited, Others
      <3> QED
        BY <3>1, <3>2
    <2>3. ASSUME NEW w \in Workers, NEW q \in Posts, WalkStep(w, q) PROVE Seen(x, p)'
      <3>1. CASE x = w
        <4>1. Walks(w, q) /\ At(w, q)
          BY <2>3 DEF WalkStep, Walks, At
        <4>2. worker[w].state # "none" /\ (worker[w].phase \in InTransaction \cup {"init"} => worker[w].state = "attempted")
          BY <4>1 DEF SeenInv
        <4> QED
          BY <3>1, <4>1, <4>2 DEF Walks
      <3>2. CASE x # w
        BY <2>0, <2>3, <3>2 DEF WalkStep, Walks, Others
      <3> QED
        BY <3>1, <3>2
    <2>4. ASSUME NEW w \in Workers, StopStep(w) PROVE Seen(x, p)'
      <3>1. x # w
        BY <1>1, <2>4 DEF StopStep, Stopped, At, IdleWorker
      <3> QED
        BY <2>0, <2>4, <3>1 DEF StopStep, Stopped, Others
    <2>5. ASSUME NEW q \in Posts, PostStep(q) PROVE Seen(x, p)'
      BY <2>0, <2>5 DEF PostStep
    <2> QED
      BY <2>1, <2>2, <2>3, <2>4, <2>5 DEF Steps
  <1>2. ASSUME NEW x \in Workers, NEW p \in Posts, At(x, p)', Early(x)', Owns(x, p)'
        PROVE  job'[p].state = worker'[x].state
    <2>0. ASSUME worker'[x] = worker[x], job'[p].stamp = job[p].stamp, job'[p].state = job[p].state
          PROVE  job'[p].state = worker'[x].state
      <3>1. At(x, p) /\ Early(x) /\ Owns(x, p)
        BY <1>2, <2>0 DEF At, Owns
      <3> QED
        BY <2>0, <3>1 DEF SeenInv
    <2>1. ASSUME NEW w \in Workers, NEW q \in Posts, ClaimStep(w, q) PROVE job'[p].state = worker'[x].state
      <3>1. CASE x = w
        <4>1. p = q
          BY <1>2, <2>1, <3>1 DEF ClaimStep, At
        <4> QED
          BY <1>j, <2>1, <3>1, <4>1 DEF ClaimStep, JobEdited
      <3>2. CASE x # w
        <4>1. worker'[x] = worker[x]
          BY <2>1, <3>2 DEF ClaimStep, Others
        <4>2. CASE p # q
          BY <1>j, <2>0, <2>1, <4>1, <4>2 DEF ClaimStep, JobEdited
        <4>3. CASE p = q
          <5>1. worker[x].stamp \in 1..claims[p] /\ claims[p] \in Nat
            BY <1>2, <4>1 DEF At, StampInv, ShapeInv
          <5>2. job'[p].stamp = claims[p] + 1
            BY <1>j, <2>1, <4>3 DEF ClaimStep, JobEdited
          <5> QED
            BY <1>2, <4>1, <5>1, <5>2 DEF Owns
        <4> QED
          BY <4>2, <4>3
      <3> QED
        BY <3>1, <3>2
    <2>2. ASSUME NEW w \in Workers, NEW q \in Posts, MarkStep(w, q) PROVE job'[p].state = worker'[x].state
      <3>1. x # w
        <4>1. worker[w].phase = "mark" /\ At(w, q) /\ worker'[w].phase = worker[w].goal
          BY <2>2 DEF MarkStep, Edited, At
        <4>2. worker[w].goal \in {"init", "ack", "put"}
          BY <4>1 DEF SeenInv
        <4> QED
          BY <1>2, <4>1, <4>2
      <3>2. worker'[x] = worker[x]
        BY <2>2, <3>1 DEF MarkStep, Edited, Others
      <3>3. CASE p # q
        BY <1>j, <2>0, <2>2, <3>2, <3>3 DEF MarkStep, JobEdited
      <3>4. CASE p = q
        <4>1. job'[p].stamp = job[p].stamp /\ Owns(w, p) /\ At(w, p)
          BY <1>j, <2>2, <3>4 DEF MarkStep, At, JobEdited
        <4>2. Owns(x, p) /\ At(x, p)
          BY <1>2, <3>2, <4>1 DEF Owns, At
        <4> QED
          BY <3>1, <4>1, <4>2, OneOwner
      <3> QED
        BY <3>3, <3>4
    <2>3. ASSUME NEW w \in Workers, NEW q \in Posts, WalkStep(w, q) PROVE job'[p].state = worker'[x].state
      <3>1. CASE x = w
        <4>1. Walks(w, q) /\ job' = job
          BY <2>3 DEF WalkStep
        <4>2. At(x, p) /\ Early(x) /\ worker'[x].state = worker[x].state /\ worker'[x].stamp = worker[x].stamp
          BY <1>2, <3>1, <4>1 DEF Walks, At
        <4>3. Owns(x, p)
          BY <1>2, <4>1, <4>2 DEF Owns
        <4> QED
          BY <4>1, <4>2, <4>3 DEF SeenInv
      <3>2. CASE x # w
        BY <2>0, <2>3, <3>2 DEF WalkStep, Walks, Others
      <3> QED
        BY <3>1, <3>2
    <2>4. ASSUME NEW w \in Workers, StopStep(w) PROVE job'[p].state = worker'[x].state
      <3>1. x # w
        BY <1>2, <2>4 DEF StopStep, Stopped, At, IdleWorker
      <3>2. worker'[x] = worker[x]
        BY <2>4, <3>1 DEF StopStep, Stopped, Others
      <3>3. CASE job'[p] = job[p]
        BY <2>0, <3>2, <3>3
      <3>4. CASE job'[p].stamp = 0
        <4>1. worker'[x].stamp \in 1..claims'[p] /\ claims'[p] \in Nat
          BY <1>2 DEF StampInv, ShapeInv
        <4> QED
          BY <1>2, <3>4, <4>1 DEF Owns
      <3>5. job'[p] = job[p] \/ job'[p].stamp = 0
        BY <2>4 DEF StopStep, Acknowledged, Rescheduled, NoJob
      <3> QED
        BY <3>3, <3>4, <3>5
    <2>5. ASSUME NEW q \in Posts, PostStep(q) PROVE job'[p].state = worker'[x].state
      <3>1. job'[p].stamp = job[p].stamp /\ job'[p].state = job[p].state
        BY <1>j, <2>5 DEF PostStep, DueStep, LateStep, LikeStep, LossStep, DeletionStep, JobEdited
      <3> QED
        BY <2>0, <2>5, <3>1 DEF PostStep
    <2> QED
      BY <2>1, <2>2, <2>3, <2>4, <2>5 DEF Steps
  <1> HIDE DEF Seen, Early
  <1>3. \A x \in Workers, p \in Posts : At(x, p)' => Seen(x, p)' /\ (Early(x)' /\ Owns(x, p)' => job'[p].state = worker'[x].state)
    BY <1>1, <1>2
  <1> QED
    BY <1>3 DEF Seen, Early, SeenInv

\* A worker that marks the job leaves the mark behind.
LEMMA OneMark ==
  ASSUME SeenInv, NEW w \in Workers, NEW x \in Workers, NEW p \in Posts, MarkStep(w, p), MarkStep(x, p)
  PROVE  x = w
  <1>1. worker[x].phase = "mark" /\ At(x, p) /\ worker'[x].phase = worker[x].goal
    BY DEF MarkStep, Edited, At
  <1>2. worker'[x] # worker[x]
    BY <1>1 DEF SeenInv
  <1> QED
    BY <1>2 DEF MarkStep, Edited, Others

\* A step leaves at most one attempt, to a Post nothing was written to.
LEMMA TryStep ==
  ASSUME ShapeInv, SeenInv, AttemptInv, Steps
  PROVE  AttemptInv'
  <1>m. ASSUME NEW w \in Workers, NEW p \in Posts, MarkStep(w, p) PROVE job'[p].state = "attempted"
    <2>1. job \in [Posts -> Job]
      BY DEF ShapeInv
    <2> QED
      BY <1>m, <2>1 DEF MarkStep, JobEdited
  <1>1. ASSUME NEW p \in Posts, job'[p].state = "pending"
        PROVE  Unwritten(p)' /\ \A w \in Workers : ~Attempting(w, p)'
    <2>1. CASE job[p].state = "pending"
      <3>1. Unwritten(p) /\ \A w \in Workers : ~Attempting(w, p)
        BY <2>1 DEF AttemptInv
      <3>2. Unwritten(p)'
        BY <3>1, Writes
      <3>3. ASSUME NEW w \in Workers, Attempting(w, p)' PROVE FALSE
        BY <1>1, <1>m, <3>1, <3>3, AttemptKept
      <3> QED
        BY <3>2, <3>3
    <2>2. CASE job[p].state # "pending"
      <3>1. PICK w \in Workers : Attempting(w, p) /\ Stopped(w) /\ UNCHANGED <<born, late>>
        BY <1>1, <2>2, Pendings
      <3>2. Unwritten(p) /\ \A x \in Workers : Attempting(x, p) => x = w
        BY <3>1 DEF AttemptInv
      <3>3. Unwritten(p)'
        BY <3>1, <3>2 DEF Unwritten
      <3>4. ASSUME NEW x \in Workers, Attempting(x, p)' PROVE FALSE
        <4>1. x = w
          BY <2>2, <3>2, <3>4, AttemptKept
        <4> QED
          BY <3>1, <3>4, <4>1 DEF Stopped, Attempting, At, IdleWorker
      <3> QED
        BY <3>3, <3>4
    <2> QED
      BY <2>1, <2>2
  <1>2. ASSUME NEW w \in Workers, NEW p \in Posts, Attempting(w, p)'
        PROVE  Unwritten(p)' /\ \A x \in Workers : Attempting(x, p)' => x = w
    <2>1. CASE Attempting(w, p)
      <3>1. Unwritten(p) /\ (\A x \in Workers : Attempting(x, p) => x = w) /\ job[p].state # "pending"
        BY <2>1 DEF AttemptInv
      <3>2. Unwritten(p)'
        BY <1>2, <3>1, Writes
      <3>3. ASSUME NEW x \in Workers, Attempting(x, p)' PROVE x = w
        BY <3>1, <3>3, AttemptKept
      <3> QED
        BY <3>2, <3>3
    <2>2. CASE MarkStep(w, p) /\ job[p].state = "pending"
      <3>1. Unwritten(p) /\ \A x \in Workers : ~Attempting(x, p)
        BY <2>2 DEF AttemptInv
      <3>2. Unwritten(p)'
        BY <3>1, Writes
      <3>3. ASSUME NEW x \in Workers, Attempting(x, p)' PROVE x = w
        <4>1. MarkStep(x, p)
          BY <3>1, <3>3, AttemptKept
        <4> QED
          BY <2>2, <4>1, OneMark
      <3> QED
        BY <3>2, <3>3
    <2> QED
      BY <1>2, <2>1, <2>2, AttemptKept
  <1> QED
    BY <1>1, <1>2 DEF AttemptInv

\* A state that was created once stays created.
LEMMA BornGrows ==
  ASSUME ShapeInv, StampInv, Steps
  PROVE  born \subseteq born'
  <1>1. ASSUME NEW p \in born PROVE p \in born'
    <2>1. p \in Posts
      BY DEF ShapeInv
    <2> QED
      BY <2>1, Touches DEF Touched, Written
  <1> QED
    BY <1>1

\* A step leaves the Posts with a state without a token.
LEMMA BornStep ==
  ASSUME ShapeInv, StampInv, AttemptInv, BornInv, Steps
  PROVE  BornInv'
  <1>1. ASSUME NEW p \in Posts, ready'[p] = "1" PROVE p \in born'
    <2>1. CASE Written(p, token[p])
      BY <2>1 DEF Written
    <2>2. CASE ready[p] = "1"
      BY <2>2, BornGrows DEF BornInv
    <2> QED
      BY <1>1, <2>1, <2>2, Touches DEF Touched
  <1>2. ASSUME NEW p \in Posts, likes'[p] > 0 PROVE p \in born'
    <2>1. likes'[p] = likes[p] \/ ready[p] = "1"
      <3>1. \/ likes' = likes
            \/ \E q \in Posts : ready[q] = "1" /\ likes' = [likes EXCEPT ![q] = likes[q] + 1]
        BY DEF Steps, ClaimStep, MarkStep, WalkStep, StopStep, PostStep, DueStep, LateStep, LikeStep,
               LossStep, DeletionStep, stores
      <3>2. likes \in [Posts -> 0..MaxLikes]
        BY DEF ShapeInv
      <3> QED
        BY <3>1, <3>2
    <2>2. p \in born
      BY <1>2, <2>1 DEF BornInv
    <2> QED
      BY <2>2, BornGrows
  <1>3. ASSUME NEW p \in Posts, p \in born' PROVE token'[p] = 0
    <2>1. CASE Written(p, token[p])
      BY <2>1 DEF Written
    <2>2. CASE p \in born
      <3>1. token[p] = 0
        BY <2>2 DEF BornInv
      <3>2. ASSUME NEW w \in Workers, Takes(w, p) PROVE FALSE
        <4>1. Attempting(w, p)
          BY <3>2 DEF Takes, Attempting
        <4> QED
          BY <2>2, <4>1 DEF AttemptInv, Unwritten
      <3>3. token'[p] \in {token[p], 0}
        BY <3>2, Touches DEF Touched, Written
      <3> QED
        BY <3>1, <3>3
    <2> QED
      BY <1>3, <2>1, <2>2, Touches DEF Touched
  <1> QED
    BY <1>1, <1>2, <1>3 DEF BornInv

\* A step keeps the deletion and the open transactions apart.
LEMMA DeletionInvStep ==
  ASSUME ShapeInv, StampInv, SeenInv, DeletionInv, Steps
  PROVE  DeletionInv'
  <1>1. ASSUME NEW x \in Workers, NEW p \in Posts, At(x, p)', worker'[x].phase \in InTransaction
        PROVE  deletion'[p] = "no"
    <2>0. ASSUME worker'[x] = worker[x] PROVE deletion'[p] = "no"
      <3>1. At(x, p) /\ worker[x].phase \in InTransaction
        BY <1>1, <2>0 DEF At
      <3>2. deletion[p] = "no" /\ Locked(p)
        BY <3>1 DEF DeletionInv, Locked, At
      <3> QED
        BY <3>2, DeletionSteps DEF Deletes
    <2>1. ASSUME NEW w \in Workers, NEW q \in Posts, ClaimStep(w, q) PROVE deletion'[p] = "no"
      <3>1. x # w
        BY <1>1, <2>1 DEF ClaimStep, InTransaction
      <3> QED
        BY <2>0, <2>1, <3>1 DEF ClaimStep, Others
    <2>2. ASSUME NEW w \in Workers, NEW q \in Posts, MarkStep(w, q) PROVE deletion'[p] = "no"
      <3>1. x # w
        <4>1. worker[w].phase = "mark" /\ At(w, q) /\ worker'[w].phase = worker[w].goal
          BY <2>2 DEF MarkStep, Edited, At
        <4>2. worker[w].goal \in {"init", "ack", "put"}
          BY <4>1 DEF SeenInv
        <4> QED
          BY <1>1, <4>1, <4>2 DEF InTransaction
      <3> QED
        BY <2>0, <2>2, <3>1 DEF MarkStep, Edited, Others
    <2>3. ASSUME NEW w \in Workers, NEW q \in Posts, WalkStep(w, q) PROVE deletion'[p] = "no"
      <3>1. CASE x = w
        <4>1. Walks(w, q) /\ deletion' = deletion
          BY <2>3 DEF WalkStep
        <4>2. At(w, p) /\ p = q
          BY <1>1, <3>1, <4>1 DEF Walks, At
        <4>3. worker[w].phase \in InTransaction \/ deletion[p] = "no"
          BY <1>1, <3>1, <4>1, <4>2 DEF Walks
        <4> QED
          BY <4>1, <4>2, <4>3 DEF DeletionInv
      <3>2. CASE x # w
        BY <2>0, <2>3, <3>2 DEF WalkStep, Walks, Others
      <3> QED
        BY <3>1, <3>2
    <2>4. ASSUME NEW w \in Workers, StopStep(w) PROVE deletion'[p] = "no"
      <3>1. x # w
        BY <1>1, <2>4 DEF StopStep, Stopped, At, IdleWorker
      <3> QED
        BY <2>0, <2>4, <3>1 DEF StopStep, Stopped, Others
    <2>5. ASSUME NEW q \in Posts, PostStep(q) PROVE deletion'[p] = "no"
      BY <2>0, <2>5 DEF PostStep
    <2> QED
      BY <2>1, <2>2, <2>3, <2>4, <2>5 DEF Steps
  <1>2. ASSUME NEW p \in Posts, deletion'[p] \in {"marked", "purged"} PROVE ready'[p] # "1" /\ token'[p] = 0
    <2>1. CASE deletion'[p] = deletion[p]
      <3>1. ready[p] # "1" /\ token[p] = 0 /\ deletion[p] # "no"
        BY <1>2, <2>1 DEF DeletionInv
      <3>2. ASSUME NEW w \in Workers, Takes(w, p) PROVE FALSE
        BY <3>1, <3>2 DEF Takes, DeletionInv, InTransaction
      <3> QED
        BY <3>1, <3>2, Touches DEF Touched
    <2>2. CASE deletion'[p] # deletion[p]
      BY <1>2, <2>2, DeletionSteps DEF Deletes
    <2> QED
      BY <2>1, <2>2
  <1>3. ASSUME NEW p \in Posts, ready'[p] = "deleted" PROVE deletion'[p] \in {"marked", "purged"}
    <2>1. CASE ready[p] = "deleted"
      <3>1. deletion[p] \in {"marked", "purged"}
        BY <2>1 DEF DeletionInv
      <3> QED
        BY <3>1, DeletionSteps DEF Deletes
    <2>2. CASE ready[p] # "deleted"
      BY <1>3, <2>2, Touches DEF Touched, Written
    <2> QED
      BY <2>1, <2>2
  <1> QED
    BY <1>1, <1>2, <1>3 DEF DeletionInv

\* A reason for the acknowledgement does not go away.
LEMMA ReasonsStay ==
  ASSUME ShapeInv, StampInv, Steps, NEW p \in Posts, p \in born \/ deletion[p] # "no"
  PROVE  p \in born' \/ deletion'[p] # "no"
  BY BornGrows, DeletionSteps DEF Deletes

\* A step takes a worker to the acknowledgement with a reason only.
LEMMA AckStep ==
  ASSUME ShapeInv, StampInv, SeenInv, AckInv, Steps
  PROVE  AckInv'
  <1> SUFFICES ASSUME NEW x \in Workers, NEW p \in Posts, At(x, p)', Acknowledging(x)'
               PROVE  p \in born' \/ deletion'[p] # "no"
    BY DEF AckInv
  <1>1. ASSUME At(x, p), Acknowledging(x) PROVE p \in born' \/ deletion'[p] # "no"
    BY <1>1, ReasonsStay DEF AckInv
  <1>2. ASSUME worker'[x] = worker[x] PROVE p \in born' \/ deletion'[p] # "no"
    <2>1. At(x, p) /\ Acknowledging(x)
      BY <1>2 DEF At, Acknowledging
    <2> QED
      BY <1>1, <2>1
  <1>3. ASSUME NEW w \in Workers, NEW q \in Posts, ClaimStep(w, q) PROVE p \in born' \/ deletion'[p] # "no"
    <2>1. x # w
      BY <1>3 DEF ClaimStep, Acknowledging
    <2> QED
      BY <1>2, <1>3, <2>1 DEF ClaimStep, Others
  <1>4. ASSUME NEW w \in Workers, NEW q \in Posts, MarkStep(w, q) PROVE p \in born' \/ deletion'[p] # "no"
    <2>1. CASE x = w
      <3>1. /\ worker[w].phase = "mark" /\ At(w, q)
            /\ worker'[w].phase = worker[w].goal /\ worker'[w].goal = worker[w].goal /\ worker'[w].post = worker[w].post
        BY <1>4 DEF MarkStep, Edited, At
      <3>2. worker[w].goal \in {"init", "ack", "put"}
        BY <3>1 DEF SeenInv
      <3>3. Acknowledging(w) /\ At(w, p)
        BY <2>1, <3>1, <3>2 DEF Acknowledging, At
      <3> QED
        BY <1>1, <2>1, <3>3
    <2>2. CASE x # w
      BY <1>2, <1>4, <2>2 DEF MarkStep, Edited, Others
    <2> QED
      BY <2>1, <2>2
  <1>5. ASSUME NEW w \in Workers, NEW q \in Posts, WalkStep(w, q) PROVE p \in born' \/ deletion'[p] # "no"
    <2>1. CASE x = w
      <3>1. Walks(w, q) /\ deletion' = deletion
        BY <1>5 DEF WalkStep
      <3>2. At(w, p) /\ p = q
        BY <2>1, <3>1 DEF Walks, At
      <3>3. Acknowledging(w) \/ p \in born' \/ deletion[p] # "no"
        BY <2>1, <3>1, <3>2 DEF Walks
      <3> QED
        BY <1>1, <2>1, <3>1, <3>2, <3>3
    <2>2. CASE x # w
      BY <1>2, <1>5, <2>2 DEF WalkStep, Walks, Others
    <2> QED
      BY <2>1, <2>2
  <1>6. ASSUME NEW w \in Workers, StopStep(w) PROVE p \in born' \/ deletion'[p] # "no"
    <2>1. x # w
      BY <1>6 DEF StopStep, Stopped, At, IdleWorker
    <2> QED
      BY <1>2, <1>6, <2>1 DEF StopStep, Stopped, Others
  <1>7. ASSUME NEW q \in Posts, PostStep(q) PROVE p \in born' \/ deletion'[p] # "no"
    BY <1>2, <1>7 DEF PostStep
  <1> QED
    BY <1>3, <1>4, <1>5, <1>6, <1>7 DEF Steps

\* A step clears a job with a reason only.
LEMMA JobStep ==
  ASSUME ShapeInv, StampInv, AckInv, JobKept, Steps
  PROVE  JobKept'
  <1> SUFFICES ASSUME NEW p \in Posts, p \notin born', deletion'[p] = "no"
               PROVE  job'[p].state # "none"
    BY DEF JobKept
  <1>1. p \notin born /\ deletion[p] = "no"
    BY ReasonsStay
  <1>2. job[p].state # "none"
    BY <1>1 DEF JobKept
  <1>j. job \in [Posts -> Job]
    BY DEF ShapeInv
  <1>3. ASSUME NEW w \in Workers, StopStep(w) PROVE job'[p].state # "none"
    <2>1. CASE Acknowledged(w)
      <3>1. ~At(w, p)
        BY <1>1, <2>1 DEF Acknowledged, AckInv, Acknowledging
      <3> QED
        BY <1>2, <2>1, <3>1 DEF Acknowledged
    <2>2. CASE Rescheduled(w)
      BY <1>2, <2>2 DEF Rescheduled
    <2> QED
      BY <1>2, <1>3, <2>1, <2>2 DEF StopStep
  <1>4. ASSUME NEW w \in Workers, NEW q \in Posts, ClaimStep(w, q) PROVE job'[p].state # "none"
    BY <1>2, <1>4, <1>j DEF ClaimStep, JobEdited
  <1>5. ASSUME NEW w \in Workers, NEW q \in Posts, MarkStep(w, q) PROVE job'[p].state # "none"
    BY <1>2, <1>5, <1>j DEF MarkStep, JobEdited
  <1>6. ASSUME NEW w \in Workers, NEW q \in Posts, WalkStep(w, q) PROVE job'[p].state # "none"
    BY <1>2, <1>6 DEF WalkStep
  <1>7. ASSUME NEW q \in Posts, PostStep(q) PROVE job'[p].state # "none"
    BY <1>2, <1>7, <1>j DEF PostStep, DueStep, LateStep, LikeStep, LossStep, DeletionStep, JobEdited
  <1> QED
    BY <1>3, <1>4, <1>5, <1>6, <1>7 DEF Steps

-----------------------------------------------------------------------------
(* The shape of the state.                                                 *)

\* The parts of ShapeInv: the workers,
LEMMA WorkerShape ==
  ASSUME ShapeInv, Steps
  PROVE  /\ worker' \in [Workers -> Worker]
         /\ \A x \in Workers : worker'[x].phase # "idle" => \E p \in Posts : worker'[x].post = {p}
  <1> DEFINE One(x) == worker'[x].phase # "idle" => \E p \in Posts : worker'[x].post = {p}
  <1>0. ASSUME NEW x \in Workers, worker'[x] = worker[x] PROVE One(x)
    BY <1>0 DEF ShapeInv
  <1>1. ASSUME NEW w \in Workers, NEW q \in Posts, ClaimStep(w, q) PROVE worker' \in [Workers -> Worker] /\ \A x \in Workers : One(x)
    <2>1. One(w)
      BY <1>1 DEF ClaimStep
    <2> HIDE DEF One
    <2> QED
      BY <1>0, <1>1, <2>1 DEF ClaimStep, Others
  <1>2. ASSUME NEW w \in Workers, NEW q \in Posts, MarkStep(w, q) PROVE worker' \in [Workers -> Worker] /\ \A x \in Workers : One(x)
    <2>1. One(w)
      BY <1>2 DEF MarkStep, Edited
    <2> HIDE DEF One
    <2> QED
      BY <1>0, <1>2, <2>1 DEF MarkStep, Edited, Others
  <1>3. ASSUME NEW w \in Workers, NEW q \in Posts, WalkStep(w, q) PROVE worker' \in [Workers -> Worker] /\ \A x \in Workers : One(x)
    <2>1. One(w)
      BY <1>3 DEF WalkStep, Walks
    <2> HIDE DEF One
    <2> QED
      BY <1>0, <1>3, <2>1 DEF WalkStep, Walks, Others
  <1>4. ASSUME NEW w \in Workers, StopStep(w) PROVE worker' \in [Workers -> Worker] /\ \A x \in Workers : One(x)
    <2>1. One(w)
      BY <1>4 DEF StopStep, Stopped, IdleWorker
    <2> HIDE DEF One
    <2> QED
      BY <1>0, <1>4, <2>1 DEF StopStep, Stopped, Others
  <1>5. ASSUME NEW q \in Posts, PostStep(q) PROVE worker' \in [Workers -> Worker] /\ \A x \in Workers : One(x)
    <2>1. worker' = worker /\ worker \in [Workers -> Worker]
      BY <1>5 DEF PostStep, ShapeInv
    <2> QED
      BY <1>0, <2>1
  <1> HIDE DEF One
  <1>6. worker' \in [Workers -> Worker] /\ \A x \in Workers : One(x)
    BY <1>1, <1>2, <1>3, <1>4, <1>5 DEF Steps
  <1> QED
    BY <1>6 DEF One

\* the jobs and their claims,
LEMMA JobShape ==
  ASSUME ShapeInv, Steps
  PROVE  job' \in [Posts -> Job] /\ claims' \in [Posts -> 0..MaxClaims]
  <1>j. job \in [Posts -> Job] /\ claims \in [Posts -> 0..MaxClaims] /\ MaxClaims \in Nat
    BY DEF ShapeInv
  <1>1. ASSUME NEW w \in Workers, NEW q \in Posts, ClaimStep(w, q)
        PROVE  job' \in [Posts -> Job] /\ claims' \in [Posts -> 0..MaxClaims]
    <2>1. claims[q] + 1 \in 0..MaxClaims
      BY <1>1, <1>j DEF ClaimStep, JobEdited
    <2> QED
      BY <1>1, <1>j, <2>1 DEF ClaimStep, JobEdited
  <1>2. ASSUME NEW w \in Workers, NEW q \in Posts, MarkStep(w, q) PROVE job' \in [Posts -> Job] /\ claims' = claims
    BY <1>2 DEF MarkStep, JobEdited
  <1>3. ASSUME NEW w \in Workers, StopStep(w) PROVE job' \in [Posts -> Job] /\ claims' = claims
    <2>1. CASE Acknowledged(w)
      <3>1. NoJob \in Job
        BY DEF NoJob, Job
      <3> QED
        BY <1>3, <1>j, <2>1, <3>1 DEF StopStep, Acknowledged
    <2>2. CASE Rescheduled(w)
      <3>1. \A p \in Posts : [state |-> IF worker[w].reset THEN "pending" ELSE job[p].state, stamp |-> 0, due |-> FALSE] \in Job
        BY <1>j DEF Job
      <3> QED
        BY <1>3, <1>j, <2>2, <3>1 DEF StopStep, Rescheduled
    <2> QED
      BY <1>3, <1>j, <2>1, <2>2 DEF StopStep
  <1>4. ASSUME NEW q \in Posts, PostStep(q) PROVE job' \in [Posts -> Job] /\ claims' = claims
    <2>1. CASE DueStep(q)
      BY <1>4, <2>1 DEF PostStep, DueStep, JobEdited
    <2>2. CASE job' = job
      BY <1>4, <1>j, <2>2 DEF PostStep
    <2> QED
      BY <1>4, <2>1, <2>2 DEF PostStep, LateStep, LikeStep, LossStep, DeletionStep
  <1>5. ASSUME NEW w \in Workers, NEW q \in Posts, WalkStep(w, q) PROVE job' = job /\ claims' = claims
    BY <1>5 DEF WalkStep
  <1> QED
    BY <1>1, <1>2, <1>3, <1>4, <1>5, <1>j DEF Steps

\* the keys of Redis,
LEMMA RedisShape ==
  ASSUME ShapeInv, BornInv, DeletionInv, Next
  PROVE  RedisOK'
  <1>t. RedisOK
    BY DEF ShapeInv, RedisOK
  <1>0. ASSUME UNCHANGED <<ready, agg, registered, token, born>> PROVE RedisOK'
    BY <1>0, <1>t DEF RedisOK
  <1>k. ASSUME UNCHANGED <<ready, agg, registered, born>>, token' \in [Posts -> Nat] PROVE RedisOK'
    BY <1>k, <1>t DEF RedisOK
  <1>n. token \in [Posts -> Nat] /\ \A w \in Workers : worker[w].stamp \in Nat
    BY DEF ShapeInv, Worker
  <1>1. ASSUME NEW w \in Workers, WorkerNext(w) PROVE RedisOK'
    <2>1. CASE AcquireToken(w) \/ AcquireRefused(w) \/ AcquireLost(w)
      <3>1. UNCHANGED <<ready, agg, registered, born>>
        BY <2>1 DEF AcquireToken, AcquireRefused, AcquireLost, redisVars
      <3>2. \E p \in Posts : UNCHANGED token \/ Taken(w, p)
        BY <2>1, AcquireWalks
      <3>3. token' \in [Posts -> Nat]
        BY <1>n, <3>2 DEF Taken
      <3> QED
        BY <1>k, <3>1, <3>3
    <2>2. CASE Initialize(w) \/ InitializeRefused(w) \/ InitializeLost(w)
      BY <1>0, <2>2, InitializeWalks DEF Called, Scripted
    <2>3. CASE ReleaseRebuild(w)
      <3>1. UNCHANGED <<ready, agg, registered, born>> /\ Released(w)
        BY <2>3 DEF ReleaseRebuild, Released
      <3>2. token' \in [Posts -> Nat]
        BY <1>n, <3>1 DEF Released
      <3> QED
        BY <1>k, <3>1, <3>2
    <2>4. CASE UNCHANGED <<ready, agg, registered, token, born>>
      BY <1>0, <2>4
    <2>5. \/ AcquireToken(w) \/ AcquireRefused(w) \/ AcquireLost(w)
          \/ Initialize(w) \/ InitializeRefused(w) \/ InitializeLost(w)
          \/ ReleaseRebuild(w) \/ UNCHANGED <<ready, agg, registered, token, born>>
      BY <1>1 DEF WorkerNext, ClaimJob, LoadPost, CheckState, MarkAttempted, CheckFails, Acknowledge, AckFails,
           Reschedule, WorkerCrash, LockPost, LockFails, ReleaseFails, CommitAttempt, CommitFails, redisVars
    <2> QED
      BY <2>1, <2>2, <2>3, <2>4, <2>5
  <1>2. ASSUME NEW p \in Posts, PostNext(p) PROVE RedisOK'
    <2>t. /\ ready \in [Posts -> {"1", "deleted", "none"}]
          /\ agg \in [Posts -> 0..MaxLikes \cup {Missing}]
          /\ registered \subseteq Posts /\ born \subseteq Posts
      BY DEF ShapeInv
    <2>1. CASE \E s \in 1..MaxClaims : LateInitialize(p, s)
      <3>1. PICK s \in 1..MaxClaims : LateInitialize(p, s)
        BY <2>1
      <3>2. Scripted(p, s)
        BY <3>1, ScriptMoves DEF LateInitialize
      <3> QED
        BY <3>2 DEF Scripted
    <2>2. CASE TokenExpires(p)
      BY <1>k, <1>n, <2>2 DEF TokenExpires
    <2>3. CASE Like(p)
      <3>1. agg[p] + 1 \in 0..MaxLikes
        BY <2>3, <2>t DEF Like, Complete, Missing
      <3>2. agg' \in [Posts -> 0..MaxLikes \cup {Missing}] /\ UNCHANGED <<ready, registered, token, born>>
        BY <2>3, <2>t, <3>1 DEF Like
      <3> QED
        BY <1>t, <3>2 DEF RedisOK
    <2>4. ASSUME ready' \in {ready, [ready EXCEPT ![p] = "none"], [ready EXCEPT ![p] = "deleted"]},
                 agg' \in {agg, [agg EXCEPT ![p] = Missing]}, registered' \subseteq registered,
                 token' \in {token, [token EXCEPT ![p] = 0]}, UNCHANGED born
          PROVE  RedisOK'
      <3>1. ready' \in [Posts -> {"1", "deleted", "none"}]
        BY <2>t, <2>4
      <3>2. agg' \in [Posts -> 0..MaxLikes \cup {Missing}]
        BY <2>t, <2>4
      <3>3. token' \in [Posts -> Nat]
        BY <1>n, <2>4
      <3>4. registered' \subseteq Posts /\ born' \subseteq Posts
        BY <2>t, <2>4
      <3> QED
        BY <3>1, <3>2, <3>3, <3>4 DEF RedisOK
    <2>5. CASE RedisLoses(p)
      BY <2>4, <2>5 DEF RedisLoses
    <2>6. CASE DeletePost(p) \/ JobDue(p) \/ Project(p)
      BY <1>0, <2>6 DEF DeletePost, JobDue, Project, redisVars
    <2>7. CASE MarkPostDeleted(p) \/ PurgePost(p) \/ TombstoneExpires(p)
      BY <2>4, <2>7 DEF MarkPostDeleted, PurgePost, TombstoneExpires
    <2> QED
      BY <1>2, <2>1, <2>2, <2>3, <2>5, <2>6, <2>7 DEF PostNext
  <1> QED
    BY <1>1, <1>2 DEF Next

\* The row of the Post does not run ahead of its Likes.
LEMMA VersionShape ==
  ASSUME ShapeInv, Next
  PROVE  /\ likes' \in [Posts -> 0..MaxLikes] /\ sqlVersion' \in [Posts -> 0..MaxLikes]
         /\ \A p \in Posts : sqlVersion'[p] <= likes'[p]
  <1>t. /\ likes \in [Posts -> 0..MaxLikes] /\ sqlVersion \in [Posts -> 0..MaxLikes] /\ MaxLikes \in Nat
        /\ \A p \in Posts : sqlVersion[p] <= likes[p]
    BY DEF ShapeInv
  <1>1. ASSUME NEW p \in Posts, Like(p)
        PROVE  /\ likes' \in [Posts -> 0..MaxLikes] /\ sqlVersion' \in [Posts -> 0..MaxLikes]
               /\ \A q \in Posts : sqlVersion'[q] <= likes'[q]
    <2>1. likes' = [likes EXCEPT ![p] = likes[p] + 1] /\ likes[p] + 1 \in 0..MaxLikes /\ sqlVersion' = sqlVersion
      BY <1>1, <1>t DEF Like, sqlVars
    <2>2. \A q \in Posts : likes[q] <= likes'[q] /\ likes'[q] \in 0..MaxLikes
      BY <1>t, <2>1
    <2>3. likes' \in [Posts -> 0..MaxLikes]
      BY <1>t, <2>1
    <2> QED
      BY <1>t, <2>1, <2>2, <2>3
  <1>2. ASSUME NEW p \in Posts, Project(p)
        PROVE  /\ likes' = likes /\ sqlVersion' \in [Posts -> 0..MaxLikes]
               /\ \A q \in Posts : sqlVersion'[q] <= likes'[q]
    <2>1. sqlVersion' = [sqlVersion EXCEPT ![p] = likes[p]] /\ likes' = likes
      BY <1>2 DEF Project
    <2>2. \A q \in Posts : sqlVersion'[q] \in {sqlVersion[q], likes[q]}
      BY <1>t, <2>1
    <2> QED
      BY <1>t, <2>1, <2>2
  <1>3. ASSUME UNCHANGED <<likes, sqlVersion>>
        PROVE  /\ likes' \in [Posts -> 0..MaxLikes] /\ sqlVersion' \in [Posts -> 0..MaxLikes]
               /\ \A q \in Posts : sqlVersion'[q] <= likes'[q]
    BY <1>3, <1>t
  <1>4. ASSUME NEW w \in Workers, WorkerNext(w) PROVE UNCHANGED <<likes, sqlVersion>>
    BY <1>4 DEF WorkerNext, ClaimJob, LoadPost, CheckState, MarkAttempted, CheckFails, Acknowledge, AckFails, Reschedule,
      WorkerCrash, LockPost, LockFails, AcquireToken, AcquireRefused, AcquireLost, Initialize, InitializeRefused,
      InitializeLost, ReleaseRebuild, ReleaseFails, CommitAttempt, CommitFails, sqlVars
  <1>5. ASSUME NEW p \in Posts, PostNext(p) PROVE Like(p) \/ Project(p) \/ UNCHANGED <<likes, sqlVersion>>
    BY <1>5 DEF PostNext, JobDue, TokenExpires, RedisLoses, DeletePost, MarkPostDeleted, PurgePost, TombstoneExpires,
      LateInitialize, sqlVars
  <1> QED
    BY <1>1, <1>2, <1>3, <1>4, <1>5, <1>t DEF Next

\* the calls on their way and the deletion,
LEMMA RestShape ==
  ASSUME ShapeInv, StampInv, Steps
  PROVE  late' \subseteq (Posts \X (1..MaxClaims)) /\ deletion' \in [Posts -> {"no", "sql", "marked", "purged"}]
  <1>1. late' \subseteq (Posts \X (1..MaxClaims))
    <2>0. late \subseteq (Posts \X (1..MaxClaims)) /\ MaxClaims \in Nat
      BY DEF ShapeInv
    <2>1. ASSUME NEW w \in Workers, NEW q \in Posts, Called(w, q) PROVE late' \subseteq (Posts \X (1..MaxClaims))
      <3>1. At(w, q)
        BY <2>1 DEF Called, Walks, At
      <3>2. worker[w].stamp \in 1..claims[q] /\ claims[q] \in 0..MaxClaims
        BY <3>1 DEF StampInv, ShapeInv
      <3>3. worker[w].stamp \in 1..MaxClaims
        BY <2>0, <3>2
      <3>4. late' = late \/ late' = late \cup {<<q, worker[w].stamp>>}
        BY <2>1 DEF Called
      <3> QED
        BY <2>0, <3>3, <3>4
    <2>2. ASSUME NEW q \in Posts, LateStep(q) PROVE late' \subseteq late
      BY <2>2 DEF LateStep
    <2>3. \/ late' = late
          \/ \E w \in Workers, q \in Posts : Called(w, q)
          \/ \E q \in Posts : LateStep(q)
      BY DEF Steps, ClaimStep, MarkStep, WalkStep, StopStep, PostStep, DueStep, LikeStep, LossStep, DeletionStep, stores
    <2> QED
      BY <2>0, <2>1, <2>2, <2>3
  <1>2. deletion' \in [Posts -> {"no", "sql", "marked", "purged"}]
    <2>0. deletion \in [Posts -> {"no", "sql", "marked", "purged"}]
      BY DEF ShapeInv
    <2>1. \/ deletion' = deletion
          \/ \E q \in Posts, d \in {"sql", "marked", "purged"} : deletion' = [deletion EXCEPT ![q] = d]
      BY DEF Steps, ClaimStep, MarkStep, WalkStep, StopStep, PostStep, DueStep, LateStep, LikeStep, LossStep,
             DeletionStep, stores
    <2> QED
      BY <2>0, <2>1
  <1> QED
    BY <1>1, <1>2

\* the bounds,
LEMMA BoundsShape ==
  ASSUME ShapeInv, Next
  PROVE  refusals' \in 0..MaxRefusals /\ faults' \in 0..MaxFaults
  <1>t. refusals \in 0..MaxRefusals /\ faults \in 0..MaxFaults
    BY DEF ShapeInv
  <1>1. ASSUME NEW w \in Workers, WorkerNext(w) PROVE Fault \/ Refusal \/ UNCHANGED bounds
    BY <1>1 DEF WorkerNext, ClaimJob, LoadPost, CheckState, MarkAttempted, CheckFails, Acknowledge, AckFails, Reschedule,
      WorkerCrash, LockPost, LockFails, AcquireToken, AcquireRefused, AcquireLost, Initialize, InitializeRefused,
      InitializeLost, ReleaseRebuild, ReleaseFails, CommitAttempt, CommitFails
  <1>2. ASSUME NEW p \in Posts, PostNext(p) PROVE Fault \/ UNCHANGED bounds
    BY <1>2 DEF PostNext, JobDue, TokenExpires, Like, Project, RedisLoses, DeletePost, MarkPostDeleted, PurgePost,
      TombstoneExpires, LateInitialize
  <1>3. Fault \/ Refusal \/ UNCHANGED bounds
    BY <1>1, <1>2 DEF Next
  <1> QED
    BY <1>3, <1>t DEF Fault, Refusal, bounds

\* and all of them.
LEMMA ShapeStep ==
  ASSUME ShapeInv, StampInv, BornInv, DeletionInv, Steps, Next
  PROVE  ShapeInv'
  <1>1. RedisOK'
    BY RedisShape
  <1> QED
    BY <1>1, WorkerShape, JobShape, VersionShape, RestShape, BoundsShape DEF ShapeInv, RedisOK

-----------------------------------------------------------------------------
(* The theorems.                                                           *)

\* The invariant holds when the Posts have just been created,
LEMMA InitInv == Init => IInv
  <1> SUFFICES ASSUME Init PROVE IInv
    OBVIOUS
  <1>1. \A w \in Workers : worker[w] = IdleWorker
    BY DEF Init
  <1>2. \A w \in Workers, p \in Posts : ~At(w, p) /\ ~Attempting(w, p)
    BY <1>1 DEF At, Attempting, IdleWorker
  <1>3. ShapeInv
    <2>1. worker \in [Workers -> Worker]
      BY IdleType DEF Init
    <2>2. job \in [Posts -> Job]
      BY DEF Init, Job
    <2>3. \A w \in Workers : worker[w].phase = "idle"
      BY <1>1 DEF IdleWorker
    <2> QED
      BY <2>1, <2>2, <2>3 DEF Init, ShapeInv
  <1>4. StampInv /\ SeenInv /\ AckInv
    BY <1>2 DEF Init, StampInv, SeenInv, AckInv
  <1>5. AttemptInv
    BY <1>2 DEF Init, AttemptInv, Unwritten
  <1>6. BornInv /\ DeletionInv /\ JobKept
    BY <1>2 DEF Init, BornInv, DeletionInv, JobKept
  <1> QED
    BY <1>3, <1>4, <1>5, <1>6 DEF IInv

\* and is kept by every step.
LEMMA InvStep == IInv /\ [Next]_vars => IInv'
  <1>1. ASSUME IInv, Next PROVE IInv'
    <2>0. ShapeInv /\ StampInv /\ SeenInv /\ AttemptInv /\ BornInv /\ DeletionInv /\ AckInv /\ JobKept
      BY <1>1 DEF IInv
    <2>1. Steps
      BY <1>1, <2>0, NextSteps
    <2>2. ShapeInv'
      BY <1>1, <2>0, <2>1, ShapeStep
    <2>3. StampInv'
      BY <2>0, <2>1, <2>2, StampStep
    <2>4. SeenInv'
      BY <2>0, <2>1, <2>2, <2>3, SeenStep
    <2>5. AttemptInv'
      BY <2>0, <2>1, TryStep
    <2>6. BornInv'
      BY <2>0, <2>1, BornStep
    <2>7. DeletionInv'
      BY <2>0, <2>1, DeletionInvStep
    <2>8. AckInv'
      BY <2>0, <2>1, AckStep
    <2>9. JobKept'
      BY <2>0, <2>1, JobStep
    <2> QED
      BY <2>2, <2>3, <2>4, <2>5, <2>6, <2>7, <2>8, <2>9 DEF IInv
  <1>2. ASSUME IInv, UNCHANGED vars PROVE IInv'
    <2>0. /\ UNCHANGED <<job, claims, worker, ready, agg, registered, token, late, likes, born>>
          /\ UNCHANGED <<sqlVersion, deletion, refusals, faults>>
      BY <1>2 DEF vars, redisVars, sqlVars, bounds
    <2>1. ShapeInv' /\ StampInv' /\ SeenInv'
      BY <1>2, <2>0 DEF IInv, ShapeInv, StampInv, SeenInv, At, Owns
    <2>2. AttemptInv' /\ BornInv' /\ DeletionInv'
      BY <1>2, <2>0 DEF IInv, AttemptInv, BornInv, DeletionInv, At, Attempting, Unwritten
    <2>3. AckInv' /\ JobKept'
      BY <1>2, <2>0 DEF IInv, AckInv, JobKept, At, Acknowledging
    <2> QED
      BY <2>1, <2>2, <2>3 DEF IInv
  <1> QED
    BY <1>1, <1>2

\* There is one attempt at a time and it writes to a Post nothing was written to,
\* a state that was created has no token any more, the row lock and the fence
\* keep attempts and deletions apart, and only a reason leads to the
\* acknowledgement (processClaimed, initializeWhilePostLocked).
THEOREM Invariant == Spec => []IInv
  BY InitInv, InvStep, PTL DEF Spec

\* The invariant has the type correctness the runs check.
LEMMA Typed == IInv => TypeOK
  <1> SUFFICES ASSUME IInv PROVE TypeOK
    OBVIOUS
  <1>0. ShapeInv /\ StampInv /\ SeenInv
    BY DEF IInv
  <1>1. ASSUME NEW p \in Posts
        PROVE  /\ job[p].state \in {"none", "pending", "attempted"}
               /\ job[p].stamp \in 0..claims[p] /\ job[p].due \in BOOLEAN
               /\ claims[p] \in 0..MaxClaims
               /\ ready[p] \in {"1", "deleted", "none"}
               /\ agg[p] \in 0..MaxLikes \cup {Missing}
               /\ token[p] \in 0..claims[p]
               /\ likes[p] \in 0..MaxLikes /\ sqlVersion[p] \in 0..likes[p]
               /\ deletion[p] \in {"no", "sql", "marked", "purged"}
    <2>1. job[p] \in Job /\ claims[p] \in 0..MaxClaims /\ token[p] \in Nat
      BY <1>0 DEF ShapeInv
    <2>2. job[p].stamp \in 0..claims[p] /\ token[p] \in 0..claims[p]
      BY <1>0, <2>1 DEF StampInv, Job
    <2>3. likes[p] \in 0..MaxLikes /\ sqlVersion[p] \in 0..likes[p]
      BY <1>0 DEF ShapeInv
    <2>4. ready[p] \in {"1", "deleted", "none"} /\ agg[p] \in 0..MaxLikes \cup {Missing}
      BY <1>0 DEF ShapeInv
    <2>5. deletion[p] \in {"no", "sql", "marked", "purged"}
      BY <1>0 DEF ShapeInv
    <2> QED
      BY <2>1, <2>2, <2>3, <2>4, <2>5 DEF Job
  <1>2. ASSUME NEW w \in Workers
        PROVE  /\ worker[w].phase \in Phases
               /\ worker[w].post \subseteq Posts
               /\ worker[w].phase # "idle" => Cardinality(worker[w].post) = 1 /\ worker[w].stamp > 0
               /\ worker[w].phase \in InTransaction => worker[w].state = "attempted"
               /\ worker[w].tries \in 0..(MaxTries - 1)
    <2>1. worker[w] \in Worker
      BY <1>0 DEF ShapeInv
    <2>2. ASSUME worker[w].phase # "idle"
          PROVE  /\ Cardinality(worker[w].post) = 1 /\ worker[w].stamp > 0
                 /\ worker[w].phase \in InTransaction => worker[w].state = "attempted"
      <3>1. PICK p \in Posts : worker[w].post = {p}
        BY <1>0, <2>2, PostOf
      <3>2. Cardinality({p}) = 1
        BY FS_Singleton
      <3>3. At(w, p)
        BY <3>1 DEF At
      <3>4. worker[w].stamp \in 1..claims[p] /\ claims[p] \in Nat
        BY <1>0, <3>3 DEF StampInv, ShapeInv
      <3>5. worker[w].phase \in InTransaction => worker[w].state = "attempted"
        BY <1>0, <3>3 DEF SeenInv
      <3> QED
        BY <3>1, <3>2, <3>4, <3>5
    <2> QED
      BY <2>1, <2>2 DEF Worker, InTransaction
  <1> QED
    BY <1>0, <1>1, <1>2 DEF TypeOK, ShapeInv

\* A job is cleared only when its Post has a state or is deleted, and no
\* attempt brings back a Post that was purged.
THEOREM JobsAccounted == Spec => []JobsSafe
  <1>1. IInv => JobsSafe
    <2> SUFFICES ASSUME IInv PROVE JobsSafe
      OBVIOUS
    <2>1. EvidenceKept
      BY Typed DEF EvidenceKept, IInv, JobKept
    <2>2. PurgedStaysGone
      BY DEF IInv, DeletionInv, PurgedStaysGone
    <2> QED
      BY <2>1, <2>2 DEF JobsSafe
  <1> QED
    BY <1>1, Invariant, PTL

\* The Likes of a Post never start again from zero.
THEOREM EmptyStateOnce == Spec => NeverRestarted
  <1>1. ASSUME IInv, [Next]_vars
        PROVE  [\A p \in Posts : ready[p] # "1" /\ ready'[p] = "1" => likes[p] = 0]_vars
    <2>0. ShapeInv /\ StampInv /\ SeenInv /\ BornInv /\ DeletionInv
      BY <1>1 DEF IInv
    <2>1. ASSUME Next, NEW p \in Posts, ready[p] # "1", ready'[p] = "1" PROVE likes[p] = 0
      <3>1. Touched(p)
        BY <2>0, <2>1, NextSteps, Touches
      <3>2. token[p] # 0
        BY <2>1, <3>1 DEF Touched
      <3>3. ~(likes[p] > 0)
        BY <2>0, <3>2 DEF BornInv
      <3>4. likes[p] \in Nat
        BY <2>0 DEF ShapeInv
      <3> QED
        BY <3>3, <3>4
    <2> QED
      BY <1>1, <2>1
  <1> QED
    BY <1>1, Invariant, PTL DEF Spec, NeverRestarted

-----------------------------------------------------------------------------
(* PostLifecycle.                                                          *)

(* The invariant: an image and its rows, image by image.                   *)

UploadPhases == {"new", "put", "mark", "clean", "over"}
RowRec       == [status : {"none", "uploading", "uploaded", "queued", "cleanup"}, due : BOOLEAN, token : Nat, attempts : Nat]
ClaimRec     == [media : Media, published : BOOLEAN, token : Nat]

MediaTypes ==
  /\ objects \in [Media -> SUBSET AllKeys]
  /\ lease \in [Media -> RowRec] /\ cleanup \in [Media -> RowRec]
  /\ upload \in [Media -> [pc : UploadPhases, stored : Nat]]
  /\ DOMAIN runner = Runners /\ runner = [g \in Runners |-> runner[g]]
  /\ \A g \in Runners : runner[g].claims \subseteq ClaimRec

\* Some Post has the image; a live one shows it.
Bound(m) == \E p \in posts : m \in MediaOf[p.by]
Shown(m) == \E p \in posts : p.live /\ m \in MediaOf[p.by]

StoredKeys(n) == {Keys[i] : i \in 1..n}

\* While the request runs, its lease is not due and what it stored is there.
UploadOK(m) ==
  /\ upload[m].pc = "new" => lease[m].status = "none" /\ objects[m] = {} /\ upload[m].stored = 0
  /\ upload[m].pc \in {"put", "mark", "clean"} => lease[m].status = "uploading" /\ ~lease[m].due
  /\ upload[m].pc = "put" => upload[m].stored < Len(Keys) /\ objects[m] = StoredKeys(upload[m].stored)
  /\ upload[m].pc = "mark" => objects[m] = AllKeys

\* An image that may be published is complete; one that was published has no lease any
\* more; one that is shown is complete and not to be cleaned up.
RowsOK(m) ==
  /\ lease[m].status = "uploaded" => objects[m] = AllKeys
  /\ Bound(m) => upload[m].pc = "over" /\ lease[m].status = "none"
  /\ Shown(m) => objects[m] = AllKeys /\ cleanup[m].status = "none"
  /\ cleanup[m].status # "none" => Bound(m)
  /\ objects[m] # {} => lease[m].status # "none" \/ cleanup[m].status # "none" \/ Shown(m)

\* A claim, current or not, is of an image whose request is over: of one that was
\* published, or of one that never will be.
ClaimOK(c) ==
  /\ upload[c.media].pc = "over"
  /\ IF c.published THEN Bound(c.media) ELSE ~Bound(c.media) /\ lease[c.media].status \in {"cleanup", "none"}

RunnerOK(g) ==
  /\ \A c \in runner[g].claims : ClaimOK(c)
  /\ runner[g].pc = "complete" => runner[g].on \in runner[g].claims /\ objects[runner[g].on.media] = {}

MediaInv ==
  /\ MediaTypes
  /\ \A m \in Media : UploadOK(m) /\ RowsOK(m)
  /\ \A g \in Runners : RunnerOK(g)

\* An image is in one Post.
Sole == \A p, q \in posts : MediaOf[p.by] \cap MediaOf[q.by] # {} => p = q

Kinds == {"reply", "quote"}
Live(kind) == {p \in posts : p.live /\ KindOf[p.by] = kind}

Answers == {"new", "persist", "created", "replayed", "conflict", "unavailable", "invalid"}

PostsInv ==
  /\ root \in [live : BOOLEAN, reply : Nat, quote : Nat]
  /\ posts \subseteq [by : Attempts, live : BOOLEAN] /\ IsFiniteSet(posts)
  /\ attempt \in [Attempts -> Answers]
  /\ OnePostPerKey /\ Sole
  /\ root.reply = Cardinality(Live("reply")) /\ root.quote = Cardinality(Live("quote"))

LifeInv == MediaInv /\ PostsInv

-----------------------------------------------------------------------------
(* Steps at one image.                                                     *)

Same(n) == objects'[n] = objects[n] /\ lease'[n] = lease[n] /\ cleanup'[n] = cleanup[n] /\ upload'[n] = upload[n]

LEMMA OtherImages ==
  ASSUME MediaInv, NEW n \in Media, Same(n), posts' = posts
  PROVE  UploadOK(n)' /\ RowsOK(n)'
<1>1. UploadOK(n) /\ RowsOK(n)
  BY DEF MediaInv
<1>2. (Bound(n) <=> Bound(n)') /\ (Shown(n) <=> Shown(n)')
  BY DEF Bound, Shown
<1> QED
  BY <1>1, <1>2 DEF UploadOK, RowsOK, Same

\* A step of the request of an image, or of the clock at it.
LEMMA OneImage ==
  ASSUME MediaInv, NEW m \in Media, posts' = posts, runner' = runner, MediaTypes',
         \A n \in Media \ {m} : Same(n),
         UploadOK(m)', RowsOK(m)',
         upload[m].pc = "over" => /\ upload'[m].pc = "over" /\ objects'[m] \subseteq objects[m]
                                  /\ lease'[m].status = lease[m].status
  PROVE  MediaInv'
<1>1. ASSUME NEW n \in Media PROVE UploadOK(n)' /\ RowsOK(n)'
  BY OtherImages
<1>2. ASSUME NEW g \in Runners PROVE RunnerOK(g)'
  <2>1. RunnerOK(g) /\ runner[g].claims \subseteq ClaimRec
    BY DEF MediaInv, MediaTypes
  <2>2. ASSUME NEW c \in ClaimRec, ClaimOK(c) PROVE ClaimOK(c)' /\ objects'[c.media] \subseteq objects[c.media]
    <3>1. c.media \in Media /\ upload[c.media].pc = "over"
      BY <2>2 DEF ClaimRec, ClaimOK
    <3>2. /\ upload'[c.media].pc = "over" /\ objects'[c.media] \subseteq objects[c.media]
          /\ lease'[c.media].status = lease[c.media].status
      BY <3>1 DEF Same
    <3>3. Bound(c.media) <=> Bound(c.media)'
      BY DEF Bound
    <3> QED
      BY <2>2, <3>2, <3>3 DEF ClaimOK
  <2> QED
    BY <2>1, <2>2 DEF RunnerOK
<1> QED
  BY <1>1, <1>2 DEF MediaInv

\* A step of a collector at one image: it takes away objects and the row of a claim.
LEMMA Collected ==
  ASSUME MediaInv, NEW g \in Runners, NEW m \in Media, posts' = posts, upload' = upload, MediaTypes',
         upload[m].pc = "over",
         \A n \in Media \ {m} : Same(n),
         objects'[m] \subseteq objects[m],
         objects'[m] # objects[m] => ~Shown(m) /\ lease[m].status # "uploaded",
         lease'[m].status = lease[m].status \/ (lease'[m].status = "none" /\ objects[m] = {}),
         cleanup'[m].status = cleanup[m].status \/ (cleanup'[m].status = "none" /\ objects[m] = {}),
         \A h \in Runners \ {g} : runner'[h] = runner[h],
         runner'[g].claims \subseteq runner[g].claims,
         runner'[g].pc = "complete" => /\ runner'[g].on \in runner'[g].claims
                                       /\ runner'[g].on.media = m /\ objects'[m] = {}
  PROVE  MediaInv'
<1>1. \A n \in Media : (Bound(n) <=> Bound(n)') /\ (Shown(n) <=> Shown(n)')
  BY DEF Bound, Shown
<1>2. ASSUME NEW n \in Media PROVE UploadOK(n)' /\ RowsOK(n)'
  <2>1. CASE n # m
    BY <2>1, OtherImages
  <2>2. CASE n = m
    <3>1. UploadOK(m) /\ RowsOK(m)
      BY DEF MediaInv
    <3>2. UploadOK(m)'
      BY DEF UploadOK
    <3>3. RowsOK(m)'
      BY <1>1, <3>1 DEF RowsOK
    <3> QED
      BY <2>2, <3>2, <3>3
  <2> QED
    BY <2>1, <2>2
<1>3. ASSUME NEW c \in ClaimRec, ClaimOK(c) PROVE ClaimOK(c)'
  <2>1. c.media \in Media
    BY DEF ClaimRec
  <2>2. lease'[c.media].status \in {lease[c.media].status, "none"} 
    BY <2>1 DEF Same
  <2> QED
    BY <1>1, <1>3, <2>1, <2>2 DEF ClaimOK
<1>4. ASSUME NEW h \in Runners PROVE RunnerOK(h)'
  <2>1. RunnerOK(h) /\ runner[h].claims \subseteq ClaimRec
    BY DEF MediaInv, MediaTypes
  <2>2. \A c \in runner'[h].claims : ClaimOK(c)'
    BY <1>3, <2>1 DEF RunnerOK
  <2>3. ASSUME runner'[h].pc = "complete"
        PROVE  runner'[h].on \in runner'[h].claims /\ objects'[runner'[h].on.media] = {}
    <3>1. CASE h = g
      BY <2>3, <3>1
    <3>2. CASE h # g
      <4>1. runner[h].on \in ClaimRec /\ objects[runner[h].on.media] = {} /\ runner[h].on \in runner[h].claims
        BY <2>1, <2>3, <3>2 DEF RunnerOK
      <4>2. runner[h].on.media \in Media
        BY <4>1 DEF ClaimRec
      <4>3. objects'[runner[h].on.media] \subseteq objects[runner[h].on.media]
        BY <4>2 DEF Same
      <4> QED
        BY <3>2, <4>1, <4>3
    <3> QED
      BY <3>1, <3>2
  <2> QED
    BY <2>2, <2>3 DEF RunnerOK
<1> QED
  BY <1>2, <1>4 DEF MediaInv
-----------------------------------------------------------------------------
(* The request that uploads.                                               *)

LEMMA NoRowIs ==
  NoRow \in RowRec /\ NoRow.status = "none" /\ NoRow.due = FALSE
BY DEF NoRow, RowRec

LEMMA AllKeysAre ==
  /\ StoredKeys(Len(Keys)) = AllKeys /\ StoredKeys(0) = {} /\ AllKeys # {} /\ Len(Keys) \in Nat
  /\ \A n \in Nat : n < Len(Keys) => StoredKeys(n + 1) = StoredKeys(n) \cup {Keys[n + 1]} /\ Keys[n + 1] \in AllKeys
<1>1. Keys \in Seq(STRING) /\ Keys # <<>>
  BY MediaAssumption
<1>2. Len(Keys) \in Nat /\ Len(Keys) >= 1 /\ DOMAIN Keys = 1..Len(Keys)
  BY <1>1
<1>3. AllKeys = {Keys[i] : i \in 1..Len(Keys)}
  BY <1>2 DEF AllKeys, Range
<1>4. ASSUME NEW n \in Nat, n < Len(Keys)
      PROVE  StoredKeys(n + 1) = StoredKeys(n) \cup {Keys[n + 1]} /\ Keys[n + 1] \in AllKeys
  <2>1. 1..(n + 1) = (1..n) \cup {n + 1}
    OBVIOUS
  <2>2. n + 1 \in 1..Len(Keys)
    BY <1>2, <1>4
  <2> QED
    BY <1>3, <2>1, <2>2 DEF StoredKeys
<1>5. 1..0 = {}
  OBVIOUS
<1>6. 1 \in 1..Len(Keys)
  BY <1>2
<1> QED
  BY <1>2, <1>3, <1>4, <1>5, <1>6 DEF StoredKeys

\* What a step of one request may do to its image.
Turns(m, o, r, u) ==
  /\ objects' = [objects EXCEPT ![m] = o] /\ lease' = [lease EXCEPT ![m] = r] /\ upload' = [upload EXCEPT ![m] = u]
  /\ UNCHANGED <<cleanup, runner, posts>>

LEMMA TurnsOK ==
  ASSUME MediaInv, NEW m \in Media, NEW o, NEW r, NEW u, Turns(m, o, r, u),
         o \subseteq AllKeys, r \in RowRec, u \in [pc : UploadPhases, stored : Nat],
         upload[m].pc # "over",
         r.status \in {"none", "uploading", "uploaded"}, r.status = "uploaded" => o = AllKeys,
         u.pc # "new", u.pc \in {"put", "mark", "clean"} => r.status = "uploading" /\ ~r.due,
         u.pc = "put" => u.stored < Len(Keys) /\ o = StoredKeys(u.stored),
         u.pc = "mark" => o = AllKeys,
         o # {} => r.status # "none"
  PROVE  MediaInv'
<1>1. /\ objects'[m] = o /\ lease'[m] = r /\ upload'[m] = u /\ cleanup'[m] = cleanup[m]
      /\ \A n \in Media \ {m} : Same(n)
  BY DEF Turns, Same, MediaInv, MediaTypes
<1>2. MediaTypes'
  <2>1. objects' \in [Media -> SUBSET AllKeys] /\ lease' \in [Media -> RowRec] /\ upload' \in [Media -> [pc : UploadPhases, stored : Nat]]
    BY DEF Turns, MediaInv, MediaTypes
  <2> QED
    BY <2>1 DEF Turns, MediaInv, MediaTypes
<1>3. ~Bound(m) /\ ~Shown(m) /\ cleanup[m].status = "none"
  <2>1. RowsOK(m)
    BY DEF MediaInv
  <2>2. Shown(m) => Bound(m)
    BY DEF Shown, Bound
  <2> QED
    BY <2>1, <2>2 DEF RowsOK
<1>4. ~Bound(m)' /\ ~Shown(m)'
  BY <1>3 DEF Bound, Shown, Turns
<1>5. UploadOK(m)' /\ RowsOK(m)'
  BY <1>1, <1>3, <1>4 DEF UploadOK, RowsOK
<1> QED
  BY <1>1, <1>2, <1>5, OneImage DEF Turns

\* What is known of a request that is not over.
LEMMA Uploading ==
  ASSUME MediaInv, NEW m \in Media
  PROVE  /\ objects[m] \subseteq AllKeys /\ lease[m] \in RowRec /\ upload[m] \in [pc : UploadPhases, stored : Nat]
         /\ UploadOK(m) /\ RowsOK(m)
         /\ objects = [objects EXCEPT ![m] = objects[m]] /\ lease = [lease EXCEPT ![m] = lease[m]]
         /\ upload = [upload EXCEPT ![m] = upload[m]]
BY DEF MediaInv, MediaTypes

LEMMA Uploads ==
  ASSUME MediaInv, NEW m \in Media, UploadStep(m) \/ PutFails(m) \/ UploadDies(m), posts' = posts
  PROVE  MediaInv'
<1>1. CASE StartUpload(m)
  <2> DEFINE r == [NoRow EXCEPT !.status = "uploading"]
             u == [upload[m] EXCEPT !.pc = "put"]
  <2>1. r \in RowRec /\ r.status = "uploading" /\ ~r.due
    BY DEF NoRow, RowRec
  <2>2. u \in [pc : UploadPhases, stored : Nat] /\ u.pc = "put" /\ u.stored = 0
    BY <1>1, Uploading DEF StartUpload, UploadOK, UploadPhases
  <2>3. Turns(m, {}, r, u) /\ upload[m].pc # "over"
    BY <1>1, Uploading DEF StartUpload, Turns, UploadOK
  <2>4. 0 < Len(Keys) /\ StoredKeys(0) = {}
    BY AllKeysAre, MediaAssumption
  <2> HIDE DEF r, u
  <2> QED
    BY <2>1, <2>2, <2>3, <2>4, TurnsOK
<1>2. CASE Put(m)
  <2> DEFINE n == upload[m].stored
             o == objects[m] \cup {Keys[n + 1]}
             u == [pc |-> IF n + 1 = Len(Keys) THEN "mark" ELSE "put", stored |-> n + 1]
  <2>1. n \in Nat /\ n < Len(Keys) /\ objects[m] = StoredKeys(n) /\ lease[m].status = "uploading" /\ ~lease[m].due
    BY <1>2, Uploading DEF Put, UploadOK
  <2>2. o = StoredKeys(n + 1) /\ o \subseteq AllKeys
    BY <2>1, AllKeysAre, Uploading
  <2>3. u \in [pc : UploadPhases, stored : Nat] /\ u.pc \in {"mark", "put"} /\ u.stored = n + 1
        /\ (u.pc = "mark" => o = AllKeys) /\ (u.pc = "put" => n + 1 < Len(Keys))
    BY <2>1, <2>2, AllKeysAre DEF UploadPhases
  <2>4. Turns(m, o, lease[m], u) /\ upload[m].pc # "over"
    BY <1>2, Uploading DEF Put, Turns
  <2> HIDE DEF u, o
  <2> QED
    BY <2>1, <2>2, <2>3, <2>4, TurnsOK, Uploading
<1>3. CASE PutFails(m)
  <2> DEFINE u == [upload[m] EXCEPT !.pc = "clean"]
  <2>1. lease[m].status = "uploading" /\ ~lease[m].due /\ upload[m].pc # "over"
    BY <1>3, Uploading DEF PutFails, UploadOK
  <2>2. u \in [pc : UploadPhases, stored : Nat] /\ u.pc = "clean"
    BY Uploading DEF UploadPhases
  <2>3. PICK o : o \subseteq AllKeys /\ objects' = [objects EXCEPT ![m] = o]
    <3>1. CASE objects' = objects
      BY <3>1, Uploading
    <3>2. CASE objects' = [objects EXCEPT ![m] = @ \cup {Keys[upload[m].stored + 1]}]
      <4>1. objects[m] \cup {Keys[upload[m].stored + 1]} \subseteq AllKeys
        BY <1>3, Uploading, AllKeysAre DEF PutFails, UploadOK
      <4> QED
        BY <3>2, <4>1
    <3> QED
      BY <1>3, <3>1, <3>2 DEF PutFails
  <2>4. Turns(m, o, lease[m], u)
    BY <1>3, <2>3, Uploading DEF PutFails, Turns
  <2> HIDE DEF u
  <2> QED
    BY <2>1, <2>2, <2>3, <2>4, TurnsOK, Uploading
<1>4. CASE MarkUploaded(m)
  <2> DEFINE r == [lease[m] EXCEPT !.status = "uploaded", !.due = FALSE]
             u == [upload[m] EXCEPT !.pc = "over"]
  <2>1. lease[m].status = "uploading" /\ upload[m].pc # "over" /\ objects[m] = AllKeys
    BY <1>4, Uploading DEF MarkUploaded, UploadOK
  <2>2. r \in RowRec /\ r.status = "uploaded"
    BY Uploading DEF RowRec
  <2>3. u \in [pc : UploadPhases, stored : Nat] /\ u.pc = "over"
    BY Uploading DEF UploadPhases
  <2>4. lease' = [lease EXCEPT ![m] = r]
    BY <1>4, <2>1 DEF MarkUploaded, MediaInv, MediaTypes
  <2>5. Turns(m, AllKeys, r, u)
    BY <1>4, <2>1, <2>4, Uploading DEF MarkUploaded, Turns
  <2> HIDE DEF r, u
  <2> QED
    BY <2>1, <2>2, <2>3, <2>5, TurnsOK
<1>5. CASE CleanUp(m)
  <2> DEFINE u == [upload[m] EXCEPT !.pc = "over"]
  <2>1. lease[m].status = "uploading" /\ upload[m].pc # "over"
    BY <1>5, Uploading DEF CleanUp, UploadOK
  <2>2. u \in [pc : UploadPhases, stored : Nat] /\ u.pc = "over"
    BY Uploading DEF UploadPhases
  <2>3. CASE objects' = [objects EXCEPT ![m] = {}] /\ lease' = [lease EXCEPT ![m] = NoRow]
    <3>1. Turns(m, {}, NoRow, u)
      BY <1>5, <2>3 DEF CleanUp, Turns
    <3> HIDE DEF u
    <3> QED
      BY <2>1, <2>2, <3>1, NoRowIs, TurnsOK
  <2>4. CASE lease' = lease /\ \E kept \in SUBSET objects[m] : objects' = [objects EXCEPT ![m] = kept]
    <3>1. PICK kept \in SUBSET objects[m] : objects' = [objects EXCEPT ![m] = kept]
      BY <2>4
    <3>2. Turns(m, kept, lease[m], u)
      BY <1>5, <2>4, <3>1, Uploading DEF CleanUp, Turns
    <3> HIDE DEF u
    <3> QED
      BY <2>1, <2>2, <3>2, Uploading, TurnsOK
  <2> QED
    BY <1>5, <2>1, <2>3, <2>4 DEF CleanUp
<1>6. CASE UploadDies(m)
  <2> DEFINE u == [upload[m] EXCEPT !.pc = "over"]
  <2>1. lease[m].status = "uploading" /\ upload[m].pc # "over"
    BY <1>6, Uploading DEF UploadDies, UploadOK
  <2>2. u \in [pc : UploadPhases, stored : Nat] /\ u.pc = "over"
    BY Uploading DEF UploadPhases
  <2>3. Turns(m, objects[m], lease[m], u)
    BY <1>6, Uploading DEF UploadDies, Turns
  <2> HIDE DEF u
  <2> QED
    BY <2>1, <2>2, <2>3, Uploading, TurnsOK
<1> QED
  BY <1>1, <1>2, <1>3, <1>4, <1>5, <1>6 DEF UploadStep

-----------------------------------------------------------------------------
(* The clock and the collectors.                                           *)

LEMMA Expires ==
  ASSUME MediaInv, NEW m \in Media, Expire(m), posts' = posts
  PROVE  MediaInv'
<1> DEFINE Aged(row) == [row EXCEPT !.due = TRUE]
<1>1. \A row \in RowRec : Aged(row) \in RowRec /\ Aged(row).status = row.status
  BY DEF RowRec
<1>2. /\ lease[m].status = "uploading" => upload[m].pc = "over" \/ lease' = lease
      /\ lease' = lease \/ (lease[m].status # "none" /\ lease' = [lease EXCEPT ![m] = Aged(lease[m])])
      /\ cleanup' = cleanup \/ cleanup' = [cleanup EXCEPT ![m] = Aged(cleanup[m])]
      /\ UNCHANGED <<objects, upload, runner>>
  BY DEF Expire, MediaInv, MediaTypes
<1> HIDE DEF Aged
<1>3. lease \in [Media -> RowRec] /\ cleanup \in [Media -> RowRec]
  BY DEF MediaInv, MediaTypes
<1>4. /\ lease' \in [Media -> RowRec] /\ cleanup' \in [Media -> RowRec]
      /\ lease'[m].status = lease[m].status /\ cleanup'[m].status = cleanup[m].status
      /\ lease'[m] = lease[m] \/ upload[m].pc \notin {"put", "mark", "clean"}
      /\ \A n \in Media \ {m} : lease'[n] = lease[n] /\ cleanup'[n] = cleanup[n]
  <2>1. UploadOK(m)
    BY DEF MediaInv
  <2>2. upload[m].pc \in {"put", "mark", "clean"} => lease' = lease
    BY <1>2, <2>1 DEF UploadOK
  <2> QED
    BY <1>1, <1>2, <1>3, <2>2
<1>5. MediaTypes' /\ \A n \in Media \ {m} : Same(n)
  BY <1>2, <1>4 DEF MediaInv, MediaTypes, Same
<1>6. UploadOK(m)' /\ RowsOK(m)'
  <2>1. UploadOK(m) /\ RowsOK(m)
    BY DEF MediaInv
  <2>2. (Bound(m) <=> Bound(m)') /\ (Shown(m) <=> Shown(m)')
    BY DEF Bound, Shown
  <2> QED
    BY <1>2, <1>4, <2>1, <2>2 DEF UploadOK, RowsOK
<1> QED
  BY <1>2, <1>4, <1>5, <1>6, OneImage

\* What is known of a row that is due.
LEMMA DueRow ==
  ASSUME MediaInv, NEW m \in Media
  PROVE  /\ lease[m].status # "none" /\ lease[m].due => upload[m].pc = "over" /\ ~Bound(m)
         /\ cleanup[m].status # "none" => upload[m].pc = "over" /\ Bound(m)
<1>1. UploadOK(m) /\ RowsOK(m) /\ upload[m].pc \in UploadPhases
  BY DEF MediaInv, MediaTypes
<1> QED
  BY <1>1 DEF UploadOK, RowsOK, UploadPhases

LEMMA ClaimedIs ==
  ASSUME NEW row \in RowRec
  PROVE  Claimed(row) \in RowRec /\ Claimed(row).status = "cleanup"
BY DEF Claimed, RowRec

\* The claims of one collector change, those of the others do not.
LEMMA RunnerTypes ==
  ASSUME MediaInv, NEW g \in Runners, NEW r, runner' = [runner EXCEPT ![g] = r], r.claims \subseteq ClaimRec
  PROVE  /\ DOMAIN runner' = Runners /\ runner' = [h \in Runners |-> runner'[h]]
         /\ \A h \in Runners : runner'[h].claims \subseteq ClaimRec
         /\ runner'[g] = r /\ \A h \in Runners \ {g} : runner'[h] = runner[h]
<1>1. DOMAIN runner = Runners /\ runner = [h \in Runners |-> runner[h]] /\ \A h \in Runners : runner[h].claims \subseteq ClaimRec
  BY DEF MediaInv, MediaTypes
<1> QED
  BY <1>1

LEMMA ClaimsPublished ==
  ASSUME MediaInv, NEW g \in Runners, ClaimPublished(g), posts' = posts
  PROVE  MediaInv'
<1> DEFINE due == {m \in Media : cleanup[m].status # "none" /\ cleanup[m].due}
           cs == {[media |-> m, published |-> TRUE, token |-> cleanup[m].attempts + 1] : m \in due}
           r == [pc |-> "claim", claims |-> cs]
<1>1. /\ runner' = [runner EXCEPT ![g] = r]
      /\ cleanup' = [m \in Media |-> IF m \in due THEN Claimed(cleanup[m]) ELSE cleanup[m]]
      /\ UNCHANGED <<objects, lease, upload>>
  BY DEF ClaimPublished
<1>2. \A m \in Media : cleanup[m] \in RowRec
  BY DEF MediaInv, MediaTypes
<1>3. ASSUME NEW c \in cs PROVE c \in ClaimRec /\ c.published /\ c.media \in due
  <2>1. PICK m \in due : c = [media |-> m, published |-> TRUE, token |-> cleanup[m].attempts + 1]
    BY <1>3
  <2>2. cleanup[m].attempts \in Nat
    BY <1>2 DEF RowRec
  <2> QED
    BY <2>1, <2>2 DEF ClaimRec
<1>4. \A m \in Media : cleanup'[m] \in RowRec /\ (cleanup'[m].status = "none" <=> cleanup[m].status = "none")
  <2>1. \A m \in Media : cleanup'[m] = IF m \in due THEN Claimed(cleanup[m]) ELSE cleanup[m]
    BY <1>1
  <2> QED
    BY <1>2, <2>1, ClaimedIs
<1>5. \A m \in due : m \in Media /\ upload[m].pc = "over" /\ Bound(m)
  BY DueRow
<1>6. cleanup' \in [Media -> RowRec]
  <2>1. cleanup' = [m \in Media |-> cleanup'[m]]
    BY <1>1
  <2> QED
    BY <1>4, <2>1
<1> HIDE DEF cs, due
<1>7. r.claims = cs /\ r.pc = "claim" /\ cs \subseteq ClaimRec
  BY <1>3
<1> HIDE DEF r
<1>8. MediaTypes' /\ runner'[g] = r /\ \A h \in Runners \ {g} : runner'[h] = runner[h]
  BY <1>1, <1>6, <1>7, RunnerTypes DEF MediaInv, MediaTypes
<1>9. \A m \in Media : (Bound(m) <=> Bound(m)') /\ (Shown(m) <=> Shown(m)')
  BY DEF Bound, Shown
<1>10. ASSUME NEW m \in Media PROVE UploadOK(m)' /\ RowsOK(m)'
  <2>1. UploadOK(m) /\ RowsOK(m)
    BY DEF MediaInv
  <2> QED
    BY <1>1, <1>4, <1>9, <2>1 DEF UploadOK, RowsOK
<1>11. ASSUME NEW c \in ClaimRec, ClaimOK(c) PROVE ClaimOK(c)'
  BY <1>1, <1>9, <1>11 DEF ClaimOK, ClaimRec
<1>12. ASSUME NEW h \in Runners PROVE RunnerOK(h)'
  <2>1. RunnerOK(h) /\ runner[h].claims \subseteq ClaimRec
    BY DEF MediaInv, MediaTypes
  <2>2. CASE h # g
    BY <1>1, <1>8, <1>11, <2>1, <2>2 DEF RunnerOK
  <2>3. CASE h = g
    <3>1. \A c \in cs : ClaimOK(c)'
      BY <1>1, <1>3, <1>5, <1>9 DEF ClaimOK
    <3> QED
      BY <1>7, <1>8, <2>3, <3>1 DEF RunnerOK
  <2> QED
    BY <2>2, <2>3
<1> QED
  BY <1>8, <1>10, <1>12 DEF MediaInv

LEMMA ClaimsUploads ==
  ASSUME MediaInv, NEW g \in Runners, ClaimUploads(g), posts' = posts
  PROVE  MediaInv'
<1> DEFINE due == DueLeases
           own == {[media |-> m, published |-> FALSE, token |-> lease[m].attempts + 1] : m \in due}
           cs == runner[g].claims \cup own
<1>1. \A m \in Media : lease[m] \in RowRec
  BY DEF MediaInv, MediaTypes
<1>2. \A m \in due : m \in Media /\ lease[m].status # "none" /\ upload[m].pc = "over" /\ ~Bound(m)
  BY DueRow DEF DueLeases
<1>3. ASSUME NEW c \in own PROVE c \in ClaimRec /\ ~c.published /\ c.media \in due
  <2>1. PICK m \in due : c = [media |-> m, published |-> FALSE, token |-> lease[m].attempts + 1]
    BY <1>3
  <2>2. lease[m].attempts \in Nat
    BY <1>1, <1>2 DEF RowRec
  <2> QED
    BY <1>2, <2>1, <2>2 DEF ClaimRec
<1>4. PICK r : /\ runner' = [runner EXCEPT ![g] = r] /\ r.claims \subseteq cs /\ r.pc # "complete"
               /\ UNCHANGED <<objects, cleanup, upload>>
               /\ \/ lease' = [m \in Media |-> IF m \in due THEN Claimed(lease[m]) ELSE lease[m]]
                  \/ lease' = lease /\ r.claims = {}
  <2>1. CASE runner' = [runner EXCEPT ![g] = NoRun] /\ UNCHANGED lease
    <3>1. NoRun.claims = {} /\ NoRun.pc # "complete"
      BY DEF NoRun
    <3> QED
      BY <2>1, <3>1 DEF ClaimUploads
  <2>2. CASE /\ lease' = [m \in Media |-> IF m \in due THEN Claimed(lease[m]) ELSE lease[m]]
             /\ runner' = [runner EXCEPT ![g] = IF cs = {} THEN NoRun ELSE [pc |-> "check", claims |-> cs]]
    <3> DEFINE r == IF cs = {} THEN NoRun ELSE [pc |-> "check", claims |-> cs]
    <3>1. r.claims \subseteq cs /\ r.pc # "complete"
      BY DEF NoRun
    <3>2. UNCHANGED <<objects, cleanup, upload>>
      BY DEF ClaimUploads
    <3> HIDE DEF cs, due
    <3>3. runner' = [runner EXCEPT ![g] = r]
      BY <2>2
    <3> HIDE DEF r
    <3> QED
      BY <2>2, <3>1, <3>2, <3>3
  <2> QED
    BY <2>1, <2>2 DEF ClaimUploads
<1>5. \A m \in Media : /\ lease'[m] \in RowRec
                       /\ lease'[m] = lease[m] \/ (m \in due /\ lease'[m].status = "cleanup")
                       /\ (\E c \in r.claims : c \in own /\ c.media = m) => lease'[m].status = "cleanup"
  <2>1. CASE lease' = lease /\ r.claims = {}
    BY <1>1, <2>1
  <2>2. CASE lease' = [m \in Media |-> IF m \in due THEN Claimed(lease[m]) ELSE lease[m]]
    <3>1. \A m \in Media : lease'[m] = IF m \in due THEN Claimed(lease[m]) ELSE lease[m]
      BY <2>2
    <3> HIDE DEF own, due
    <3> QED
      BY <1>1, <1>3, <3>1, ClaimedIs
  <2> HIDE DEF own, due
  <2> QED
    BY <1>4, <2>1, <2>2
<1> HIDE DEF own, due
<1>6. lease' \in [Media -> RowRec]
  <2>1. lease' = [m \in Media |-> lease'[m]]
    BY <1>4 DEF MediaInv, MediaTypes
  <2> QED
    BY <1>5, <2>1
<1>7. cs \subseteq ClaimRec
  BY <1>3 DEF MediaInv, MediaTypes
<1>8. MediaTypes' /\ runner'[g] = r /\ \A h \in Runners \ {g} : runner'[h] = runner[h]
  BY <1>4, <1>6, <1>7, RunnerTypes DEF MediaInv, MediaTypes
<1>9. \A m \in Media : (Bound(m) <=> Bound(m)') /\ (Shown(m) <=> Shown(m)')
  BY DEF Bound, Shown
<1>10. ASSUME NEW m \in Media PROVE UploadOK(m)' /\ RowsOK(m)'
  <2>1. UploadOK(m) /\ RowsOK(m)
    BY DEF MediaInv
  <2>2. CASE lease'[m] = lease[m]
    BY <1>4, <1>9, <2>1, <2>2 DEF UploadOK, RowsOK
  <2>3. CASE m \in due /\ lease'[m].status = "cleanup"
    BY <1>2, <1>4, <1>9, <2>1, <2>3 DEF UploadOK, RowsOK
  <2> QED
    BY <1>5, <2>2, <2>3
<1>11. ASSUME NEW c \in ClaimRec, ClaimOK(c) PROVE ClaimOK(c)'
  <2>1. c.media \in Media
    BY DEF ClaimRec
  <2>2. lease'[c.media].status \in {lease[c.media].status, "cleanup"}
    BY <1>5, <2>1
  <2> QED
    BY <1>4, <1>9, <1>11, <2>1, <2>2 DEF ClaimOK
<1>12. ASSUME NEW h \in Runners PROVE RunnerOK(h)'
  <2>1. RunnerOK(h) /\ runner[h].claims \subseteq ClaimRec
    BY DEF MediaInv, MediaTypes
  <2>2. CASE h # g
    BY <1>4, <1>8, <1>11, <2>1, <2>2 DEF RunnerOK
  <2>3. CASE h = g
    <3>1. ASSUME NEW c \in r.claims PROVE ClaimOK(c)'
      <4>1. CASE c \in runner[g].claims
        BY <1>11, <2>1, <2>3, <4>1 DEF RunnerOK
      <4>2. CASE c \in own
        <5>1. c.media \in Media /\ ~c.published /\ upload[c.media].pc = "over" /\ ~Bound(c.media)
          BY <1>2, <1>3, <4>2
        <5>2. lease'[c.media].status = "cleanup"
          BY <1>5, <4>2, <5>1
        <5> QED
          BY <1>4, <1>9, <5>1, <5>2 DEF ClaimOK
      <4> QED
        BY <1>4, <4>1, <4>2
    <3> QED
      BY <1>4, <1>8, <2>3, <3>1 DEF RunnerOK
  <2> QED
    BY <2>2, <2>3
<1> QED
  BY <1>8, <1>10, <1>12 DEF MediaInv

\* The claim a collector has in hand.
LEMMA ClaimIs ==
  ASSUME MediaInv, NEW g \in Runners, NEW c \in runner[g].claims
  PROVE  /\ c \in ClaimRec /\ c.media \in Media /\ ClaimOK(c)
         /\ lease[c.media] \in RowRec /\ cleanup[c.media] \in RowRec
BY DEF MediaInv, MediaTypes, RunnerOK, ClaimRec

LEMMA FinishedIs ==
  ASSUME MediaInv, NEW g \in Runners, NEW c \in runner[g].claims, Finished(g, c)
  PROVE  \E r : runner' = [runner EXCEPT ![g] = r] /\ r.claims \subseteq runner[g].claims /\ r.pc # "complete"
<1> DEFINE left == runner[g].claims \ {c}
           r == IF runner[g].claims = {c} THEN NoRun ELSE [pc |-> "check", claims |-> left]
<1>1. runner' = [runner EXCEPT ![g] = r]
  BY DEF Finished, MediaInv, MediaTypes
<1>2. NoRun.claims = {} /\ NoRun.pc # "complete"
  BY DEF NoRun
<1>3. r.claims \subseteq runner[g].claims /\ r.pc # "complete"
  BY <1>2
<1> HIDE DEF r
<1> QED
  BY <1>1, <1>3

\* A row of one image is replaced.
SetsRow(c, row) ==
  /\ lease' = IF c.published THEN lease ELSE [lease EXCEPT ![c.media] = row]
  /\ cleanup' = IF c.published THEN [cleanup EXCEPT ![c.media] = row] ELSE cleanup

LEMMA SetRowIs ==
  ASSUME NEW c \in ClaimRec, NEW row, SetRow(c, row)
  PROVE  SetsRow(c, row)
BY DEF SetRow, SetsRow, ClaimRec

LEMMA SetsRowIs ==
  ASSUME MediaInv, NEW c \in ClaimRec, NEW row \in RowRec, SetsRow(c, row)
  PROVE  /\ lease' \in [Media -> RowRec] /\ cleanup' \in [Media -> RowRec]
         /\ \A n \in Media \ {c.media} : lease'[n] = lease[n] /\ cleanup'[n] = cleanup[n]
         /\ IF c.published THEN cleanup'[c.media] = row /\ lease' = lease ELSE lease'[c.media] = row /\ cleanup' = cleanup
<1>1. lease \in [Media -> RowRec] /\ cleanup \in [Media -> RowRec] /\ c.media \in Media
  BY DEF MediaInv, MediaTypes, ClaimRec
<1> QED
  BY <1>1 DEF SetsRow

\* What a collector's step does to rows: those of other images stay, and those of
\* this one keep their status or go.
RowsKept(m, gone) ==
  /\ lease' \in [Media -> RowRec] /\ cleanup' \in [Media -> RowRec]
  /\ \A n \in Media \ {m} : lease'[n] = lease[n] /\ cleanup'[n] = cleanup[n]
  /\ lease'[m].status = lease[m].status \/ (gone /\ lease'[m].status = "none")
  /\ cleanup'[m].status = cleanup[m].status \/ (gone /\ cleanup'[m].status = "none")

LEMMA SameRows ==
  ASSUME MediaInv, NEW m \in Media, NEW gone, UNCHANGED <<lease, cleanup>>
  PROVE  RowsKept(m, gone)
BY DEF MediaInv, MediaTypes, RowsKept

LEMMA RetryIs ==
  ASSUME MediaInv, NEW g \in Runners, NEW c \in runner[g].claims, ScheduleRetry(g, c)
  PROVE  RowsKept(c.media, FALSE) /\ Finished(g, c)
<1>1. CASE UNCHANGED <<lease, cleanup>>
  BY <1>1, SameRows, ClaimIs DEF ScheduleRetry
<1>2. CASE SetRow(c, [Row(c) EXCEPT !.token = 0, !.due = FALSE])
  <2> DEFINE row == [Row(c) EXCEPT !.token = 0, !.due = FALSE]
  <2>1. Row(c) = IF c.published THEN cleanup[c.media] ELSE lease[c.media]
    BY DEF Row
  <2>2. Row(c) \in RowRec
    BY <2>1, ClaimIs
  <2>3. row \in RowRec /\ row.status = Row(c).status
    BY <2>2 DEF RowRec
  <2> HIDE DEF row
  <2>4. SetsRow(c, row)
    BY <1>2, ClaimIs, SetRowIs DEF row
  <2>5. RowsKept(c.media, FALSE)
    BY <2>1, <2>3, <2>4, ClaimIs, SetsRowIs DEF RowsKept
  <2> QED
    BY <2>5 DEF ScheduleRetry
<1> QED
  BY <1>1, <1>2 DEF ScheduleRetry

\* A step of the collector at one image, in these terms.
LEMMA CollectsAt ==
  ASSUME MediaInv, NEW g \in Runners, NEW c \in runner[g].claims, NEW r, NEW gone \in BOOLEAN, posts' = posts,
         upload' = upload, RowsKept(c.media, gone), gone => objects[c.media] = {},
         objects' = objects \/ (~Shown(c.media) /\ \E kept \in SUBSET objects[c.media] : objects' = [objects EXCEPT ![c.media] = kept]),
         runner' = [runner EXCEPT ![g] = r], r.claims \subseteq runner[g].claims,
         r.pc = "complete" => r.on = c /\ c \in r.claims /\ objects'[c.media] = {}
  PROVE  MediaInv'
<1> DEFINE m == c.media
<1>1. m \in Media /\ ClaimOK(c) /\ c \in ClaimRec
  BY ClaimIs
<1>2. upload[m].pc = "over"
  BY <1>1 DEF ClaimOK
<1>3. lease[m].status # "uploaded"
  <2>1. RowsOK(m)
    BY <1>1 DEF MediaInv
  <2> QED
    BY <1>1, <2>1 DEF ClaimOK, RowsOK
<1>4. objects \in [Media -> SUBSET AllKeys] /\ runner[g].claims \subseteq ClaimRec
  BY DEF MediaInv, MediaTypes
<1>5. /\ objects' \in [Media -> SUBSET AllKeys] /\ objects'[m] \subseteq objects[m]
      /\ objects'[m] # objects[m] => ~Shown(m)
      /\ \A n \in Media \ {m} : objects'[n] = objects[n]
  BY <1>1, <1>4
<1>6. r.claims \subseteq ClaimRec
  BY <1>4
<1>7. /\ DOMAIN runner' = Runners /\ runner' = [h \in Runners |-> runner'[h]]
      /\ \A h \in Runners : runner'[h].claims \subseteq ClaimRec
      /\ runner'[g] = r /\ \A h \in Runners \ {g} : runner'[h] = runner[h]
  BY <1>6, RunnerTypes
<1> HIDE DEF m
<1>8. MediaTypes'
  BY <1>5, <1>7 DEF MediaInv, MediaTypes, RowsKept, m
<1>9. \A n \in Media \ {m} : Same(n)
  BY <1>5 DEF RowsKept, Same, m
<1>10. /\ lease'[m].status = lease[m].status \/ (lease'[m].status = "none" /\ objects[m] = {})
       /\ cleanup'[m].status = cleanup[m].status \/ (cleanup'[m].status = "none" /\ objects[m] = {})
  BY DEF RowsKept, m
<1>11. runner'[g].pc = "complete" => /\ runner'[g].on \in runner'[g].claims
                                     /\ runner'[g].on.media = m /\ objects'[m] = {}
  BY <1>7 DEF m
<1>12. runner'[g].claims \subseteq runner[g].claims
  BY <1>7
<1> QED
  BY <1>1, <1>2, <1>3, <1>5, <1>7, <1>8, <1>9, <1>10, <1>11, <1>12, Collected

LEMMA Removes ==
  ASSUME MediaInv, NEW g \in Runners, RemoveObjects(g, Referenced), posts' = posts
  PROVE  MediaInv'
<1>1. PICK c \in runner[g].claims :
       \/ /\ c.published /\ c.media \in Referenced
          /\ ScheduleRetry(g, c) /\ UNCHANGED <<objects, postFaults>>
       \/ /\ ~(c.published /\ c.media \in Referenced)
          /\ objects' = [objects EXCEPT ![c.media] = {}]
          /\ runner' = [runner EXCEPT ![g] = [pc |-> "complete", claims |-> {c} \cup @.claims, on |-> c]]
          /\ UNCHANGED <<lease, cleanup, postFaults>>
       \/ /\ ~(c.published /\ c.media \in Referenced) /\ PostFault
          /\ \E kept \in SUBSET objects[c.media] : objects' = [objects EXCEPT ![c.media] = kept]
          /\ ScheduleRetry(g, c)
  BY DEF RemoveObjects
<1>2. upload' = upload
  BY DEF RemoveObjects
<1>3. c.media \in Media /\ c \in ClaimRec /\ ClaimOK(c)
  BY ClaimIs
<1>4. ~(c.published /\ c.media \in Referenced) => ~Shown(c.media)
  <2>1. c.media \in Referenced <=> Shown(c.media)
    BY DEF Referenced, Shown
  <2>2. Shown(c.media) => Bound(c.media)
    BY DEF Shown, Bound
  <2> QED
    BY <1>3, <2>1, <2>2 DEF ClaimOK
<1>5. CASE objects' = objects /\ ScheduleRetry(g, c)
  <2>1. RowsKept(c.media, FALSE) /\ Finished(g, c)
    BY <1>5, RetryIs
  <2>2. PICK r : runner' = [runner EXCEPT ![g] = r] /\ r.claims \subseteq runner[g].claims /\ r.pc # "complete"
    BY <2>1, FinishedIs
  <2> QED
    BY <1>2, <1>5, <2>1, <2>2, CollectsAt
<1>6. CASE /\ ~Shown(c.media) /\ ScheduleRetry(g, c)
           /\ \E kept \in SUBSET objects[c.media] : objects' = [objects EXCEPT ![c.media] = kept]
  <2>1. RowsKept(c.media, FALSE) /\ Finished(g, c)
    BY <1>6, RetryIs
  <2>2. PICK r : runner' = [runner EXCEPT ![g] = r] /\ r.claims \subseteq runner[g].claims /\ r.pc # "complete"
    BY <2>1, FinishedIs
  <2> QED
    BY <1>2, <1>6, <2>1, <2>2, CollectsAt
<1>7. CASE /\ ~Shown(c.media) /\ UNCHANGED <<lease, cleanup>>
           /\ objects' = [objects EXCEPT ![c.media] = {}]
           /\ runner' = [runner EXCEPT ![g] = [pc |-> "complete", claims |-> {c} \cup @.claims, on |-> c]]
  <2> DEFINE r == [pc |-> "complete", claims |-> {c} \cup runner[g].claims, on |-> c]
  <2>1. runner' = [runner EXCEPT ![g] = r]
    BY <1>7 DEF MediaInv, MediaTypes
  <2>2. r.claims \subseteq runner[g].claims /\ r.on = c /\ c \in r.claims
    OBVIOUS
  <2>3. objects'[c.media] = {}
    BY <1>3, <1>7 DEF MediaInv, MediaTypes
  <2>4. RowsKept(c.media, FALSE)
    BY <1>3, <1>7, SameRows
  <2> HIDE DEF r
  <2> QED
    BY <1>2, <1>7, <2>1, <2>2, <2>3, <2>4, CollectsAt
<1> QED
  BY <1>1, <1>4, <1>5, <1>6, <1>7

LEMMA Completes ==
  ASSUME MediaInv, NEW g \in Runners, CompleteCleanup(g), posts' = posts
  PROVE  MediaInv'
<1> DEFINE c == runner[g].on
<1>1. c \in runner[g].claims /\ objects[c.media] = {}
  BY DEF CompleteCleanup, MediaInv, RunnerOK
<1>2. c.media \in Media /\ c \in ClaimRec
  BY <1>1, ClaimIs
<1>3. UNCHANGED <<objects, upload>> /\ Finished(g, c)
  BY DEF CompleteCleanup
<1>4. SetRow(c, NoRow) \/ UNCHANGED <<lease, cleanup>>
  BY DEF CompleteCleanup
<1> HIDE DEF c
<1>5. RowsKept(c.media, TRUE)
  <2>1. CASE UNCHANGED <<lease, cleanup>>
    BY <1>2, <2>1, SameRows
  <2>2. CASE SetRow(c, NoRow)
    <3>1. SetsRow(c, NoRow)
      BY <1>2, <2>2, SetRowIs
    <3> QED
      BY <1>2, <3>1, NoRowIs, SetsRowIs DEF RowsKept
  <2> QED
    BY <1>4, <2>1, <2>2
<1>6. PICK r : runner' = [runner EXCEPT ![g] = r] /\ r.claims \subseteq runner[g].claims /\ r.pc # "complete"
  BY <1>1, <1>3, FinishedIs
<1> QED
  BY <1>1, <1>3, <1>5, <1>6, CollectsAt

LEMMA RunnersStop ==
  ASSUME MediaInv, NEW g \in Runners, RunnerDies(g), posts' = posts
  PROVE  MediaInv'
<1>1. runner' = [runner EXCEPT ![g] = NoRun] /\ UNCHANGED <<objects, lease, cleanup, upload>>
  BY DEF RunnerDies
<1>2. NoRun.claims = {} /\ NoRun.pc # "complete"
  BY DEF NoRun
<1>3. MediaTypes' /\ runner'[g] = NoRun /\ \A h \in Runners \ {g} : runner'[h] = runner[h]
  BY <1>1, <1>2, RunnerTypes DEF MediaInv, MediaTypes
<1>4. ASSUME NEW n \in Media PROVE UploadOK(n)' /\ RowsOK(n)'
  BY <1>1, OtherImages DEF Same
<1>5. ASSUME NEW h \in Runners PROVE RunnerOK(h)'
  <2>1. RunnerOK(h) /\ \A c : ClaimOK(c) => ClaimOK(c)'
    BY <1>1 DEF MediaInv, ClaimOK, Bound
  <2> QED
    BY <1>1, <1>2, <1>3, <2>1 DEF RunnerOK
<1> QED
  BY <1>3, <1>4, <1>5 DEF MediaInv

\* The steps of the images keep the invariant.
LEMMA MediaSteps ==
  ASSUME MediaInv, MediaNext
  PROVE  MediaInv'
<1>1. posts' = posts
  BY DEF MediaNext, postVars
<1> QED
  BY <1>1, Uploads, Expires, ClaimsPublished, ClaimsUploads, Removes, Completes, RunnersStop DEF MediaNext, RunnerStep

-----------------------------------------------------------------------------
(* Publishing and deleting.                                                *)

\* A request that is answered, and nothing else.
Answered(a, s) == attempt' = [attempt EXCEPT ![a] = s] /\ UNCHANGED <<mediaVars, root, posts>>

\* A request that publishes, whether or not its answer arrives.
Published(a) ==
  /\ ~TakenKey(a) /\ Consumable(a)
  /\ posts' = posts \cup {[by |-> a, live |-> TRUE]}
  /\ root' = [root EXCEPT ![KindOf[a]] = @ + 1]
  /\ lease' = [m \in Media |-> IF m \in MediaOf[a] THEN NoRow ELSE lease[m]]
  /\ attempt' = [attempt EXCEPT ![a] = "created"] \/ attempt' = [attempt EXCEPT ![a] = "new"]
  /\ UNCHANGED <<objects, cleanup, upload, runner>>

Plain == {"new", "persist", "unavailable", "invalid"}

LEMMA AttemptCases ==
  ASSUME NEW a \in Attempts, AttemptStep(a) \/ PersistFails(a)
  PROVE  \/ \E s \in Plain : Answered(a, s)
         \/ Existing(a) # {} /\ Answered(a, Replay(a))
         \/ Published(a)
<1>1. CASE Lookup(a)
  BY <1>1 DEF Lookup, Answered, Plain
<1>2. CASE PersistFails(a)
  BY <1>2 DEF PersistFails, Answered, Plain
<1>3. CASE Persist(a)
  <2>1. UNCHANGED <<objects, cleanup, upload, runner>>
    BY <1>3 DEF Persist
  <2>2. CASE ~root.live
    <3>1. attempt' = [attempt EXCEPT ![a] = "unavailable"] /\ UNCHANGED <<root, posts, lease>>
      BY <1>3, <2>2 DEF Persist
    <3> QED
      BY <2>1, <3>1 DEF Answered, Plain, mediaVars
  <2>3. CASE root.live /\ TakenKey(a)
    <3>1. attempt' = [attempt EXCEPT ![a] = Replay(a)] /\ UNCHANGED <<root, posts, lease>>
      BY <1>3, <2>3 DEF Persist
    <3> QED
      BY <2>1, <2>3, <3>1 DEF Answered, TakenKey, mediaVars
  <2>4. CASE root.live /\ ~TakenKey(a) /\ ~Consumable(a)
    <3>1. attempt' = [attempt EXCEPT ![a] = "invalid"] /\ UNCHANGED <<root, posts, lease>>
      BY <1>3, <2>4 DEF Persist
    <3> QED
      BY <2>1, <3>1 DEF Answered, Plain, mediaVars
  <2>5. CASE root.live /\ ~TakenKey(a) /\ Consumable(a)
    <3>1. Published(a)
      BY <1>3, <2>5 DEF Persist, Published
    <3> QED
      BY <3>1
  <2> QED
    BY <2>2, <2>3, <2>4, <2>5
<1> QED
  BY <1>1, <1>2, <1>3 DEF AttemptStep

\* What a request was told.
AnswerOK(a) ==
  /\ attempt[a] \in {"created", "replayed"} => \E p \in Existing(a) : PrintOf[p.by] = PrintOf[a]
  /\ attempt[a] = "conflict" => \E p \in Existing(a) : p.live => PrintOf[p.by] # PrintOf[a]

OneOfKey == \A p, q \in posts : KeyOf[p.by] = KeyOf[q.by] => p.by = q.by /\ p = q

LEMMA OnePostIs ==
  OnePostPerKey <=> OneOfKey /\ \A a \in Attempts : AnswerOK(a)
BY DEF OnePostPerKey, OneOfKey, AnswerOK

LEMMA ReplayIs ==
  ASSUME NEW a \in Attempts, Existing(a) # {}
  PROVE  /\ Replay(a) = "replayed" => \E p \in Existing(a) : PrintOf[p.by] = PrintOf[a]
         /\ Replay(a) = "conflict" => \E p \in Existing(a) : p.live => PrintOf[p.by] # PrintOf[a]
         /\ Replay(a) \in {"replayed", "conflict"}
BY DEF Replay

LEMMA Answering ==
  ASSUME LifeInv, NEW a \in Attempts, NEW s \in Answers, Answered(a, s),
         s \in {"created", "replayed"} => \E p \in Existing(a) : PrintOf[p.by] = PrintOf[a],
         s = "conflict" => \E p \in Existing(a) : p.live => PrintOf[p.by] # PrintOf[a]
  PROVE  LifeInv'
<1>1. UNCHANGED <<objects, lease, cleanup, upload, runner, root, posts>>
  BY DEF Answered, mediaVars
<1>2. attempt' \in [Attempts -> Answers] /\ attempt'[a] = s /\ \A b \in Attempts \ {a} : attempt'[b] = attempt[b]
  BY DEF Answered, LifeInv, PostsInv
<1>3. ASSUME NEW b \in Attempts PROVE AnswerOK(b)'
  <2>1. AnswerOK(b)
    BY OnePostIs DEF LifeInv, PostsInv
  <2>2. Existing(b)' = Existing(b)
    BY <1>1 DEF Existing
  <2> QED
    BY <1>2, <2>1, <2>2 DEF AnswerOK
<1>4. OneOfKey'
  <2>1. OneOfKey
    BY OnePostIs DEF LifeInv, PostsInv
  <2> QED
    BY <1>1, <2>1 DEF OneOfKey
<1>5. OnePostPerKey'
  BY <1>3, <1>4 DEF OnePostPerKey, OneOfKey, AnswerOK
<1>6. MediaInv'
  <2>1. \A m : (UploadOK(m) <=> UploadOK(m)') /\ (RowsOK(m) <=> RowsOK(m)')
    BY <1>1 DEF UploadOK, RowsOK, Bound, Shown
  <2>2. \A g : RunnerOK(g) <=> RunnerOK(g)'
    BY <1>1 DEF RunnerOK, ClaimOK, Bound
  <2> QED
    BY <1>1, <2>1, <2>2 DEF LifeInv, MediaInv, MediaTypes
<1>7. Sole' /\ Live("reply")' = Live("reply") /\ Live("quote")' = Live("quote")
  BY <1>1 DEF LifeInv, PostsInv, Sole, Live
<1> QED
  BY <1>1, <1>2, <1>5, <1>6, <1>7 DEF LifeInv, PostsInv

\* The images that a request consumes.
LEMMA ConsumedIs ==
  ASSUME LifeInv, NEW a \in Attempts, Consumable(a), NEW m \in MediaOf[a]
  PROVE  /\ m \in Media /\ upload[m].pc = "over" /\ objects[m] = AllKeys /\ ~Bound(m)
         /\ lease[m].status = "uploaded" /\ cleanup[m].status = "none"
<1>1. m \in Media
  BY PostAssumption
<1>2. lease[m].status = "uploaded"
  BY DEF Consumable
<1>3. UploadOK(m) /\ RowsOK(m) /\ upload[m].pc \in UploadPhases
  BY <1>1 DEF LifeInv, MediaInv, MediaTypes
<1> QED
  BY <1>1, <1>2, <1>3 DEF UploadOK, RowsOK, UploadPhases

LEMMA PublishingMedia ==
  ASSUME LifeInv, NEW a \in Attempts, Published(a)
  PROVE  MediaInv'
<1>1. /\ UNCHANGED <<objects, cleanup, upload, runner>> /\ Consumable(a)
      /\ posts' = posts \cup {[by |-> a, live |-> TRUE]}
      /\ lease' = [m \in Media |-> IF m \in MediaOf[a] THEN NoRow ELSE lease[m]]
  BY DEF Published
<1>2. MediaInv
  BY DEF LifeInv
<1>3. \A m \in Media : lease'[m] = IF m \in MediaOf[a] THEN NoRow ELSE lease[m]
  BY <1>1
<1>4. MediaTypes'
  <2>1. \A m \in Media : (IF m \in MediaOf[a] THEN NoRow ELSE lease[m]) \in RowRec
    BY <1>2, NoRowIs DEF MediaInv, MediaTypes
  <2>2. lease' \in [Media -> RowRec]
    BY <1>1, <2>1
  <2> QED
    BY <1>1, <1>2, <2>2 DEF MediaInv, MediaTypes
<1>5. ASSUME NEW m
      PROVE  (Bound(m)' <=> Bound(m) \/ m \in MediaOf[a]) /\ (Shown(m)' <=> Shown(m) \/ m \in MediaOf[a])
  <2>1. PICK p : p.by = a /\ p.live /\ posts' = posts \cup {p}
    BY <1>1
  <2>2. Bound(m)' <=> \E q \in posts' : m \in MediaOf[q.by]
    BY DEF Bound
  <2>3. Shown(m)' <=> \E q \in posts' : q.live /\ m \in MediaOf[q.by]
    BY DEF Shown
  <2> QED
    BY <2>1, <2>2, <2>3 DEF Bound, Shown
<1>6. ASSUME NEW m \in Media PROVE UploadOK(m)' /\ RowsOK(m)'
  <2>1. UploadOK(m) /\ RowsOK(m)
    BY <1>2 DEF MediaInv
  <2>2. CASE m \in MediaOf[a]
    <3>1. upload[m].pc = "over" /\ objects[m] = AllKeys /\ cleanup[m].status = "none"
      BY <1>1, <2>2, ConsumedIs
    <3>2. lease'[m].status = "none"
      BY <1>3, <2>2, NoRowIs
    <3> QED
      BY <1>1, <1>5, <2>2, <3>1, <3>2 DEF UploadOK, RowsOK
  <2>3. CASE m \notin MediaOf[a]
    BY <1>1, <1>3, <1>5, <2>1, <2>3 DEF UploadOK, RowsOK
  <2> QED
    BY <2>2, <2>3
<1>7. ASSUME NEW c \in ClaimRec, ClaimOK(c) PROVE ClaimOK(c)'
  <2>1. c.media \in Media
    BY DEF ClaimRec
  <2>2. CASE c.published
    BY <1>1, <1>5, <1>7, <2>2 DEF ClaimOK
  <2>3. CASE ~c.published
    <3>1. lease[c.media].status \in {"cleanup", "none"} /\ ~Bound(c.media)
      BY <1>7, <2>3 DEF ClaimOK
    <3>2. c.media \notin MediaOf[a]
      BY <1>1, <3>1, ConsumedIs
    <3> QED
      BY <1>1, <1>3, <1>5, <1>7, <2>1, <2>3, <3>1, <3>2 DEF ClaimOK
  <2> QED
    BY <2>2, <2>3
<1>8. ASSUME NEW g \in Runners PROVE RunnerOK(g)'
  <2>1. RunnerOK(g) /\ runner[g].claims \subseteq ClaimRec
    BY <1>2 DEF MediaInv, MediaTypes
  <2> QED
    BY <1>1, <1>7, <2>1 DEF RunnerOK
<1> QED
  BY <1>4, <1>6, <1>8 DEF MediaInv

\* The counters of a record with two of them.
LEMMA Counters ==
  ASSUME NEW r \in [live : BOOLEAN, reply : Nat, quote : Nat], NEW kind \in Kinds, NEW n \in Nat
  PROVE  /\ [r EXCEPT ![kind] = n] \in [live : BOOLEAN, reply : Nat, quote : Nat]
         /\ [r EXCEPT ![kind] = n].live = r.live
         /\ kind = "reply" => [r EXCEPT ![kind] = n].reply = n /\ [r EXCEPT ![kind] = n].quote = r.quote /\ r[kind] = r.reply
         /\ kind = "quote" => [r EXCEPT ![kind] = n].quote = n /\ [r EXCEPT ![kind] = n].reply = r.reply /\ r[kind] = r.quote
<1>1. CASE kind = "reply"
  BY <1>1
<1>2. CASE kind = "quote"
  BY <1>2
<1> QED
  BY <1>1, <1>2 DEF Kinds

\* One live Post more, or one less.
LEMMA LiveAre ==
  ASSUME PostsInv, NEW kind
  PROVE  IsFiniteSet(Live(kind)) /\ Cardinality(Live(kind)) \in Nat
<1>1. Live(kind) \subseteq posts
  BY DEF Live
<1> QED
  BY <1>1, FS_Subset, FS_CardinalityType DEF PostsInv

LEMMA PublishingPosts ==
  ASSUME LifeInv, NEW a \in Attempts, Published(a)
  PROVE  PostsInv'
<1>1. PICK p : /\ p = [by |-> a, live |-> TRUE] /\ p.by = a /\ p.live
               /\ posts' = posts \cup {p}
  BY DEF Published
<1>2. PostsInv /\ Existing(a) = {} /\ Consumable(a)
  BY DEF LifeInv, Published, TakenKey
<1>3. \A q \in posts : KeyOf[q.by] # KeyOf[a]
  BY <1>2 DEF Existing
<1>4. p \notin posts
  BY <1>1, <1>3
<1>5. posts' \subseteq [by : Attempts, live : BOOLEAN] /\ IsFiniteSet(posts')
  <2>1. p \in [by : Attempts, live : BOOLEAN]
    BY <1>1
  <2>2. posts \subseteq [by : Attempts, live : BOOLEAN] /\ IsFiniteSet(posts)
    BY <1>2 DEF PostsInv
  <2>3. IsFiniteSet(posts \cup {p})
    BY <2>2, FS_AddElement
  <2> QED
    BY <1>1, <2>1, <2>2, <2>3
<1>6. attempt' \in [Attempts -> Answers] /\ attempt'[a] \in {"created", "new"} /\ \A b \in Attempts \ {a} : attempt'[b] = attempt[b]
  BY <1>2 DEF Published, PostsInv, Answers
<1>7. ASSUME NEW b \in Attempts PROVE AnswerOK(b)'
  <2>1. AnswerOK(b)
    BY <1>2, OnePostIs DEF PostsInv
  <2>2. Existing(b) \subseteq Existing(b)' /\ p \in Existing(a)'
    BY <1>1 DEF Existing
  <2>3. CASE b = a
    BY <1>1, <1>6, <2>2, <2>3 DEF AnswerOK
  <2>4. CASE b # a
    BY <1>6, <2>1, <2>2, <2>4 DEF AnswerOK
  <2> QED
    BY <2>3, <2>4
<1>8. OneOfKey'
  <2>1. OneOfKey
    BY <1>2, OnePostIs DEF PostsInv
  <2>2. ASSUME NEW q \in posts', NEW r \in posts', KeyOf[q.by] = KeyOf[r.by] PROVE q.by = r.by /\ q = r
    <3>1. \A x, y \in posts : KeyOf[x.by] = KeyOf[y.by] => x.by = y.by /\ x = y
      BY <2>1 DEF OneOfKey
    <3>2. (q = p \/ q \in posts) /\ (r = p \/ r \in posts) /\ p.by = a
      BY <1>1
    <3> QED
      BY <1>3, <2>2, <3>1, <3>2
  <2> QED
    BY <2>2 DEF OneOfKey
<1>9. OnePostPerKey'
  BY <1>7, <1>8 DEF OnePostPerKey, OneOfKey, AnswerOK
<1>10. Sole'
  <2>1. \A q \in posts : MediaOf[a] \cap MediaOf[q.by] = {}
    BY <1>2, ConsumedIs DEF Bound
  <2>2. ASSUME NEW q \in posts', NEW r \in posts', MediaOf[q.by] \cap MediaOf[r.by] # {} PROVE q = r
    BY <1>1, <1>2, <2>1, <2>2 DEF PostsInv, Sole
  <2> QED
    BY <2>2 DEF Sole
<1>11. KindOf[a] \in Kinds
  BY PostAssumption DEF Kinds
<1>12. /\ Live(KindOf[a])' = Live(KindOf[a]) \cup {p} /\ p \notin Live(KindOf[a])
       /\ \A kind : kind # KindOf[a] => Live(kind)' = Live(kind)
  BY <1>1, <1>4 DEF Live
<1>13. Cardinality(Live(KindOf[a])') = Cardinality(Live(KindOf[a])) + 1
  <2>1. IsFiniteSet(Live(KindOf[a]))
    BY <1>2, LiveAre
  <2>2. Cardinality(Live(KindOf[a]) \cup {p}) = Cardinality(Live(KindOf[a])) + 1
    BY <1>12, <2>1, FS_AddElement
  <2> QED
    BY <1>12, <2>2
<1>14. /\ root' \in [live : BOOLEAN, reply : Nat, quote : Nat]
       /\ root'.reply = Cardinality(Live("reply"))' /\ root'.quote = Cardinality(Live("quote"))'
  <2>1. root \in [live : BOOLEAN, reply : Nat, quote : Nat] /\ root.reply = Cardinality(Live("reply")) /\ root.quote = Cardinality(Live("quote"))
    BY <1>2 DEF PostsInv
  <2>2. root' = [root EXCEPT ![KindOf[a]] = root[KindOf[a]] + 1]
    BY DEF Published
  <2>3. root[KindOf[a]] \in Nat
    <3>1. root.reply \in Nat /\ root.quote \in Nat
      BY <2>1
    <3>2. KindOf[a] = "reply" \/ KindOf[a] = "quote"
      BY <1>11 DEF Kinds
    <3> QED
      BY <3>1, <3>2
  <2>4. root[KindOf[a]] + 1 \in Nat
    BY <2>3
  <2>5. CASE KindOf[a] = "reply"
    <3>1. root' \in [live : BOOLEAN, reply : Nat, quote : Nat] /\ root'.reply = root.reply + 1 /\ root'.quote = root.quote
      BY <1>11, <2>1, <2>2, <2>4, <2>5, Counters
    <3> QED
      BY <1>12, <1>13, <2>1, <2>5, <3>1
  <2>6. CASE KindOf[a] = "quote"
    <3>1. root' \in [live : BOOLEAN, reply : Nat, quote : Nat] /\ root'.quote = root.quote + 1 /\ root'.reply = root.reply
      BY <1>11, <2>1, <2>2, <2>4, <2>6, Counters
    <3> QED
      BY <1>12, <1>13, <2>1, <2>6, <3>1
  <2> QED
    BY <1>11, <2>5, <2>6 DEF Kinds
<1> QED
  BY <1>5, <1>6, <1>9, <1>10, <1>14 DEF PostsInv

\* The row that removes the images of a deleted Post.
LEMMA EnqueuedIs ==
  ASSUME MediaInv, NEW media
  PROVE  /\ Enqueued(media) \in [Media -> RowRec]
         /\ \A m \in Media : IF m \in media THEN Enqueued(media)[m].status # "none" ELSE Enqueued(media)[m] = cleanup[m]
<1> DEFINE queued == [NoRow EXCEPT !.status = "queued", !.due = TRUE]
<1>1. queued \in RowRec /\ queued.status = "queued"
  BY DEF NoRow, RowRec
<1>2. \A m \in Media : cleanup[m] \in RowRec
  BY DEF MediaInv, MediaTypes
<1> HIDE DEF queued
<1>3. Enqueued(media) = [m \in Media |-> IF m \in media /\ cleanup[m].status = "none" THEN queued ELSE cleanup[m]]
  BY DEF Enqueued, queued
<1> QED
  BY <1>1, <1>2, <1>3

LEMMA DeletesMedia ==
  ASSUME LifeInv, NEW p \in posts, DeleteChild(p)
  PROVE  MediaInv'
<1>1. PICK q : q.by = p.by /\ ~q.live /\ posts' = (posts \ {p}) \cup {q}
  <2>1. [p EXCEPT !.live = FALSE].by = p.by /\ ~[p EXCEPT !.live = FALSE].live
    BY DEF LifeInv, PostsInv
  <2> QED
    BY <2>1 DEF DeleteChild
<1>2. UNCHANGED <<objects, lease, upload, runner>> /\ cleanup' = Enqueued(MediaOf[p.by]) /\ p.live
  BY DEF DeleteChild
<1>3. MediaInv /\ Sole
  BY DEF LifeInv, PostsInv
<1>4. /\ cleanup' \in [Media -> RowRec]
      /\ \A m \in Media : IF m \in MediaOf[p.by] THEN cleanup'[m].status # "none" ELSE cleanup'[m] = cleanup[m]
  BY <1>2, <1>3, EnqueuedIs
<1>5. MediaTypes'
  BY <1>2, <1>3, <1>4 DEF MediaInv, MediaTypes
<1>6. ASSUME NEW m
      PROVE  /\ Bound(m)' <=> Bound(m)
             /\ IF m \in MediaOf[p.by] THEN Bound(m) /\ ~Shown(m)' ELSE Shown(m)' <=> Shown(m)
  <2>1. Bound(m)' <=> \E r \in posts' : m \in MediaOf[r.by]
    BY DEF Bound
  <2>2. Shown(m)' <=> \E r \in posts' : r.live /\ m \in MediaOf[r.by]
    BY DEF Shown
  <2>3. \A r \in posts : m \in MediaOf[p.by] /\ m \in MediaOf[r.by] => r = p
    BY <1>3 DEF Sole
  <2> QED
    BY <1>1, <2>1, <2>2, <2>3 DEF Bound, Shown
<1>7. ASSUME NEW m \in Media PROVE UploadOK(m)' /\ RowsOK(m)'
  <2>1. UploadOK(m) /\ RowsOK(m)
    BY <1>3 DEF MediaInv
  <2>2. UploadOK(m)'
    BY <1>2, <2>1 DEF UploadOK
  <2>3. RowsOK(m)'
    BY <1>2, <1>4, <1>6, <2>1 DEF RowsOK
  <2> QED
    BY <2>2, <2>3
<1>8. ASSUME NEW g \in Runners PROVE RunnerOK(g)'
  <2>1. RunnerOK(g)
    BY <1>3 DEF MediaInv
  <2>2. \A c : ClaimOK(c) => ClaimOK(c)'
    BY <1>2, <1>6 DEF ClaimOK
  <2> QED
    BY <1>2, <2>1, <2>2 DEF RunnerOK
<1> QED
  BY <1>5, <1>7, <1>8 DEF MediaInv

LEMMA DeletesPosts ==
  ASSUME LifeInv, NEW p \in posts, DeleteChild(p)
  PROVE  PostsInv'
<1>1. PICK q : /\ q = [p EXCEPT !.live = FALSE] /\ posts' = (posts \ {p}) \cup {q}
  BY DEF DeleteChild
<1>2. PostsInv /\ p.live /\ attempt' = attempt
  BY DEF LifeInv, DeleteChild
<1>3. p \in [by : Attempts, live : BOOLEAN]
  BY <1>2 DEF PostsInv
<1>4. q \in [by : Attempts, live : BOOLEAN] /\ q.by = p.by /\ ~q.live
  BY <1>1, <1>3
<1>5. posts' \subseteq [by : Attempts, live : BOOLEAN] /\ IsFiniteSet(posts')
  <2>1. posts \subseteq [by : Attempts, live : BOOLEAN] /\ IsFiniteSet(posts)
    BY <1>2 DEF PostsInv
  <2>2. IsFiniteSet(posts \ {p})
    BY <2>1, FS_RemoveElement
  <2>3. IsFiniteSet((posts \ {p}) \cup {q})
    BY <2>2, FS_AddElement
  <2> QED
    BY <1>1, <1>4, <2>1, <2>3
<1>6. OneOfKey /\ \A b \in Attempts : AnswerOK(b)
  BY <1>2, OnePostIs DEF PostsInv
<1>7. ASSUME NEW b \in Attempts PROVE AnswerOK(b)'
  <2>1. AnswerOK(b)
    BY <1>6
  <2>2. \A r \in Existing(b) : r \in Existing(b)' \/ (r = p /\ q \in Existing(b)')
    BY <1>1, <1>4 DEF Existing
  <2> QED
    BY <1>2, <1>4, <2>1, <2>2 DEF AnswerOK
<1>8. ASSUME NEW r \in posts', NEW s \in posts', KeyOf[r.by] = KeyOf[s.by] PROVE r.by = s.by /\ r = s
  <2>1. \A x, y \in posts : KeyOf[x.by] = KeyOf[y.by] => x.by = y.by /\ x = y
    BY <1>6 DEF OneOfKey
  <2>2. r = q \/ (r \in posts /\ r # p)
    BY <1>1
  <2>3. s = q \/ (s \in posts /\ s # p)
    BY <1>1
  <2> QED
    BY <1>4, <1>8, <2>1, <2>2, <2>3
<1>9. OnePostPerKey'
  <2>1. OneOfKey'
    BY <1>8 DEF OneOfKey
  <2> QED
    BY <1>7, <2>1 DEF OnePostPerKey, OneOfKey, AnswerOK
<1>10. Sole'
  <2>1. Sole
    BY <1>2 DEF PostsInv
  <2>2. ASSUME NEW r \in posts', NEW s \in posts', MediaOf[r.by] \cap MediaOf[s.by] # {} PROVE r = s
    BY <1>1, <1>4, <2>1, <2>2 DEF Sole
  <2> QED
    BY <2>2 DEF Sole
<1>11. KindOf[p.by] \in Kinds
  BY <1>3, PostAssumption DEF Kinds
<1>12. /\ Live(KindOf[p.by])' = Live(KindOf[p.by]) \ {p} /\ p \in Live(KindOf[p.by])
       /\ \A kind : kind # KindOf[p.by] => Live(kind)' = Live(kind)
  BY <1>1, <1>2, <1>4 DEF Live
<1>13. /\ Cardinality(Live(KindOf[p.by])') = Cardinality(Live(KindOf[p.by])) - 1
       /\ Cardinality(Live(KindOf[p.by])') \in Nat
  <2>1. IsFiniteSet(Live(KindOf[p.by]))
    BY <1>2, LiveAre
  <2>2. IsFiniteSet(Live(KindOf[p.by]) \ {p}) /\ Cardinality(Live(KindOf[p.by]) \ {p}) = Cardinality(Live(KindOf[p.by])) - 1
    BY <1>12, <2>1, FS_RemoveElement
  <2> QED
    BY <1>12, <2>2, FS_CardinalityType
<1>14. /\ root' \in [live : BOOLEAN, reply : Nat, quote : Nat]
       /\ root'.reply = Cardinality(Live("reply"))' /\ root'.quote = Cardinality(Live("quote"))'
  <2>1. root \in [live : BOOLEAN, reply : Nat, quote : Nat] /\ root.reply = Cardinality(Live("reply")) /\ root.quote = Cardinality(Live("quote"))
    BY <1>2 DEF PostsInv
  <2>2. root' = [root EXCEPT ![KindOf[p.by]] = root[KindOf[p.by]] - 1]
    BY DEF DeleteChild, Decremented
  <2>3. root[KindOf[p.by]] = Cardinality(Live(KindOf[p.by]))
    <3>1. \A kind \in Kinds : root[kind] = Cardinality(Live(kind))
      BY <2>1, Counters DEF Kinds
    <3> QED
      BY <1>11, <3>1
  <2>4. root[KindOf[p.by]] - 1 \in Nat
    BY <1>13, <2>3
  <2>5. CASE KindOf[p.by] = "reply"
    <3>1. root' \in [live : BOOLEAN, reply : Nat, quote : Nat] /\ root'.reply = root[KindOf[p.by]] - 1 /\ root'.quote = root.quote
      BY <1>11, <2>1, <2>2, <2>4, <2>5, Counters
    <3> QED
      BY <1>12, <1>13, <2>1, <2>3, <2>5, <3>1
  <2>6. CASE KindOf[p.by] = "quote"
    <3>1. root' \in [live : BOOLEAN, reply : Nat, quote : Nat] /\ root'.quote = root[KindOf[p.by]] - 1 /\ root'.reply = root.reply
      BY <1>11, <2>1, <2>2, <2>4, <2>6, Counters
    <3> QED
      BY <1>12, <1>13, <2>1, <2>3, <2>6, <3>1
  <2> QED
    BY <1>11, <2>5, <2>6 DEF Kinds
<1> QED
  BY <1>2, <1>5, <1>9, <1>10, <1>14 DEF PostsInv

\* Steps that leave images and Posts alone, but for the counters of the Post.
LEMMA PostsSame ==
  ASSUME LifeInv, UNCHANGED <<objects, lease, cleanup, upload, runner, posts, attempt>>
  PROVE  /\ MediaInv' /\ OnePostPerKey' /\ Sole' /\ Live("reply")' = Live("reply") /\ Live("quote")' = Live("quote")
         /\ IsFiniteSet(posts')
<1>1. MediaInv'
  <2>1. \A m : (UploadOK(m) <=> UploadOK(m)') /\ (RowsOK(m) <=> RowsOK(m)')
    BY DEF UploadOK, RowsOK, Bound, Shown
  <2>2. \A g : RunnerOK(g) <=> RunnerOK(g)'
    BY DEF RunnerOK, ClaimOK, Bound
  <2> QED
    BY <2>1, <2>2 DEF LifeInv, MediaInv, MediaTypes
<1>2. OnePostPerKey'
  BY DEF LifeInv, PostsInv, OnePostPerKey, Existing
<1> QED
  BY <1>1, <1>2 DEF LifeInv, PostsInv, Sole, Live

LEMMA DeletesRoot ==
  ASSUME LifeInv, DeleteRoot
  PROVE  LifeInv'
<1>1. UNCHANGED <<objects, lease, cleanup, upload, runner, posts, attempt>> /\ root' = [root EXCEPT !.live = FALSE]
  BY DEF DeleteRoot, mediaVars
<1>2. root' \in [live : BOOLEAN, reply : Nat, quote : Nat] /\ root'.reply = root.reply /\ root'.quote = root.quote
  BY <1>1 DEF LifeInv, PostsInv
<1> QED
  BY <1>1, <1>2, PostsSame DEF LifeInv, PostsInv

\* The steps of the requests keep the invariant.
LEMMA RequestSteps ==
  ASSUME LifeInv, RequestNext
  PROVE  LifeInv'
<1>1. ASSUME NEW a \in Attempts, AttemptStep(a) \/ PersistFails(a) PROVE LifeInv'
  <2>1. CASE \E s \in Plain : Answered(a, s)
    <3>1. \A s \in Plain : s \in Answers /\ s \notin {"created", "replayed", "conflict"}
      BY DEF Plain, Answers
    <3> QED
      BY <2>1, <3>1, Answering
  <2>2. CASE Existing(a) # {} /\ Answered(a, Replay(a))
    <3>1. Replay(a) \in Answers /\ Replay(a) # "created"
      BY <2>2, ReplayIs DEF Answers
    <3> QED
      BY <2>2, <3>1, ReplayIs, Answering
  <2>3. CASE Published(a)
    BY <2>3, PublishingMedia, PublishingPosts DEF LifeInv
  <2> QED
    BY <1>1, <2>1, <2>2, <2>3, AttemptCases
<1>2. ASSUME NEW p \in posts, DeleteChild(p) PROVE LifeInv'
  BY <1>2, DeletesMedia, DeletesPosts DEF LifeInv
<1> QED
  BY <1>1, <1>2, DeletesRoot DEF RequestNext

-----------------------------------------------------------------------------
(* The theorem.                                                            *)

LEMMA LifeInit ==
  ASSUME LifecycleInit
  PROVE  LifeInv
<1>1. MediaInv
  <2>1. MediaTypes
    BY NoRowIs DEF LifecycleInit, MediaInit, MediaTypes, NoUpload, NoRun, UploadPhases
  <2>2. \A m \in Media : UploadOK(m) /\ RowsOK(m)
    BY NoRowIs DEF LifecycleInit, MediaInit, NoUpload, UploadOK, RowsOK, Bound, Shown
  <2>3. \A g \in Runners : RunnerOK(g)
    BY DEF LifecycleInit, MediaInit, NoRun, RunnerOK
  <2> QED
    BY <2>1, <2>2, <2>3 DEF MediaInv
<1>2. PostsInv
  <2>1. Live("reply") = {} /\ Live("quote") = {} /\ posts = {}
    BY DEF LifecycleInit, Live
  <2>2. OnePostPerKey /\ Sole
    BY DEF LifecycleInit, OnePostPerKey, Sole
  <2>3. root \in [live : BOOLEAN, reply : Nat, quote : Nat] /\ root.reply = 0 /\ root.quote = 0
    BY DEF LifecycleInit
  <2>4. attempt \in [Attempts -> Answers]
    BY DEF LifecycleInit, Answers
  <2> QED
    BY <2>1, <2>2, <2>3, <2>4, FS_EmptySet DEF PostsInv
<1> QED
  BY <1>1, <1>2 DEF LifeInv

LEMMA LifeStep ==
  ASSUME LifeInv, [LifecycleNext]_lifecycleVars
  PROVE  LifeInv'
<1>1. CASE MediaNext
  <2>1. MediaInv'
    BY <1>1, MediaSteps DEF LifeInv
  <2>2. UNCHANGED <<root, posts, attempt>>
    BY <1>1 DEF MediaNext, postVars
  <2>3. OnePostPerKey' /\ Sole' /\ Live("reply")' = Live("reply") /\ Live("quote")' = Live("quote")
    BY <2>2 DEF LifeInv, PostsInv, OnePostPerKey, Existing, Sole, Live
  <2> QED
    BY <2>1, <2>2, <2>3 DEF LifeInv, PostsInv
<1>2. CASE RequestNext
  BY <1>2, RequestSteps
<1>3. CASE UNCHANGED lifecycleVars
  <2>1. UNCHANGED <<objects, lease, cleanup, upload, runner, root, posts, attempt>>
    BY <1>3 DEF lifecycleVars
  <2> QED
    BY <2>1, PostsSame DEF LifeInv, PostsInv
<1> QED
  BY <1>1, <1>2, <1>3 DEF LifecycleNext

LEMMA LifeSafe ==
  ASSUME LifeInv
  PROVE  PostsSafe
<1>1. PostTypeOK
  <2>1. objects \in [Media -> SUBSET AllKeys]
    BY DEF LifeInv, MediaInv, MediaTypes
  <2>2. \A m \in Media : {lease[m].status, cleanup[m].status} \subseteq {"none", "uploading", "uploaded", "queued", "cleanup"}
    BY DEF LifeInv, MediaInv, MediaTypes, RowRec
  <2>3. root.live \in BOOLEAN /\ {root.reply, root.quote} \subseteq Nat
    BY DEF LifeInv, PostsInv
  <2> QED
    BY <2>1, <2>2, <2>3 DEF LifeInv, PostsInv, PostTypeOK, Answers
<1>2. CountsExact
  <2>1. root \in [live : BOOLEAN, reply : Nat, quote : Nat] /\ root.reply = Cardinality(Live("reply")) /\ root.quote = Cardinality(Live("quote"))
    BY DEF LifeInv, PostsInv
  <2>2. \A kind \in Kinds : root[kind] = Cardinality(Live(kind))
    BY <2>1, Counters DEF Kinds
  <2> QED
    BY <2>2 DEF CountsExact, Kinds, Live
<1>3. MediaAccounted
  <2> SUFFICES ASSUME NEW m \in Media
               PROVE  LET live == {p \in posts : p.live /\ m \in MediaOf[p.by]}
                      IN /\ Cardinality(live) <= 1
                         /\ live # {} => objects[m] = AllKeys /\ lease[m].status = "none" /\ cleanup[m].status = "none"
                         /\ live = {} /\ objects[m] # {} => lease[m].status # "none" \/ cleanup[m].status # "none"
                         /\ lease[m].status = "uploaded" => objects[m] = AllKeys
    BY DEF MediaAccounted
  <2> DEFINE live == {p \in posts : p.live /\ m \in MediaOf[p.by]}
  <2>1. RowsOK(m) /\ Sole
    BY DEF LifeInv, MediaInv, PostsInv
  <2>2. (live # {} <=> Shown(m)) /\ (Shown(m) => Bound(m))
    BY DEF Shown, Bound
  <2>3. Cardinality(live) <= 1
    <3>1. \A p, q \in live : p = q
      BY <2>1 DEF Sole
    <3> HIDE DEF live
    <3>2. CASE live = {}
      BY <3>2, FS_EmptySet
    <3>3. CASE live # {}
      <4>1. PICK p : p \in live
        BY <3>3
      <4>2. live = {p}
        BY <3>1, <4>1
      <4>3. Cardinality({p}) = 1
        BY FS_Singleton
      <4> QED
        BY <4>2, <4>3
    <3> QED
      BY <3>2, <3>3
  <2> HIDE DEF live
  <2>4. /\ live # {} => objects[m] = AllKeys /\ lease[m].status = "none" /\ cleanup[m].status = "none"
        /\ live = {} /\ objects[m] # {} => lease[m].status # "none" \/ cleanup[m].status # "none"
        /\ lease[m].status = "uploaded" => objects[m] = AllKeys
    BY <2>1, <2>2 DEF RowsOK
  <2> QED
    BY <2>3, <2>4 DEF live
<1> QED
  BY <1>1, <1>2, <1>3 DEF PostsSafe, LifeInv, PostsInv

\* An Idempotency-Key publishes one Post however often persistPostGraph is asked, the
\* counters that deletions decrement are exact, and the collector takes no image of a live
\* Post and forgets none that nobody shows.
THEOREM PostsAreSafe ==
  LifecycleSpec => []PostsSafe
<1>1. LifecycleInit => LifeInv
  BY LifeInit
<1>2. LifeInv /\ [LifecycleNext]_lifecycleVars => LifeInv'
  BY LifeStep
<1>3. LifeInv => PostsSafe
  BY LifeSafe
<1> QED
  BY <1>1, <1>2, <1>3, PTL DEF LifecycleSpec

=============================================================================

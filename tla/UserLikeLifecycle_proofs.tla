----------------------- MODULE UserLikeLifecycle_proofs -----------------------
(***************************************************************************)
(* Proofs about UserLikeLifecycle, for any sets of users, Posts and        *)
(* requests, finite or not, and any cap and bounds.                        *)
(***************************************************************************)
EXTENDS UserLikeLifecycle, FiniteSetTheorems, TLAPS

USE NoLockAssumption, BoundsAssumption

-----------------------------------------------------------------------------
(* The invariants the proof rests on.                                      *)

\* An order index: a function of some Posts to scores.
Index == UNION {[S -> 0..MaxTicks] : S \in SUBSET Posts}

Request == [phase : {"idle", "locked", "temp", "loaded", "release"}, user : Users \cup {NoLock},
            expiry : 0..MaxArms, temp : SUBSET Posts, score : Index]
Sweeper == [phase : {"idle", "scanned", "checked"}, user : Users \cup {NoLock}, posts : SUBSET Posts]

\* The records with all their fields, and times within the bound.
ShapeInv ==
  /\ order \in [Users -> Index]
  /\ restore \in [Restorers -> Request]
  /\ sweep \in Sweeper
  /\ \A u \in Users, p \in Posts : cur[u][p].at <= MaxTicks /\ row[u][p].at <= MaxTicks

\* What is counted is finite, although Users and Posts need not be.
FiniteInv ==
  /\ \A u \in Users : /\ IsFiniteSet(rel[u])
                      /\ IsFiniteSet({p \in Posts : cur[u][p].liked})
                      /\ IsFiniteSet({p \in Posts : row[u][p].liked})
  /\ \A p \in Posts : IsFiniteSet({u \in Users : cur[u][p].liked})

\* A user whose set has expired has changed nothing that SQL does not know.
ColdInv == \A u \in Users : ~present[u] => row[u] = cur[u]

\* The deadline a request read is the fence: as long as it is the ledger's, the
\* user is cold, and what the request has loaded is what SQL still says.
FenceInv ==
  \A r \in Restorers : restore[r].phase # "idle" =>
    LET u == restore[r].user
    IN /\ u \in Users
       /\ restore[r].expiry <= ledger[u]
       /\ restore[r].expiry = ledger[u] => ~present[u]

LoadedInv ==
  \A r \in Restorers : restore[r].phase = "loaded" =>
    LET u == restore[r].user
    IN /\ DOMAIN restore[r].score = restore[r].temp
       /\ IsFiniteSet(restore[r].temp) /\ Cardinality(restore[r].temp) <= Cap
       /\ restore[r].expiry = ledger[u] =>
            \A p \in Posts \ sqlDeleted :
              /\ p \in restore[r].temp <=> row[u][p].liked
              /\ p \in restore[r].temp => restore[r].score[p] = row[u][p].at

\* The count of a served Post is the number of users who last said they like it.
CountInv ==
  \A p \in Posts : ready[p] = "1" /\ p \notin sqlDeleted =>
    count[p] = Cardinality({u \in Users : cur[u][p].liked})

\* After FindDeletedPosts the sweep holds deleted Posts only.
SweepInv ==
  /\ sweep.phase # "idle" => sweep.user \in Users
  /\ sweep.phase = "checked" => sweep.posts \subseteq sqlDeleted

\* Redis takes a Post for deleted only after SQL does.
PostInv == \A p \in Posts : ready[p] # "1" => p \in sqlDeleted

ShapesAgree == \A u \in Users : present[u] => Consistent(u)

\* The inductive invariant.
IInv ==
  TypeOK /\ ShapeInv /\ FiniteInv /\ ShapesAgree /\ ColdInv /\ FenceInv /\ LoadedInv
  /\ RestoreIsFaithful /\ CountInv /\ SweepInv /\ PostInv

-----------------------------------------------------------------------------
(* Order indexes.                                                          *)

LEMMA IndexType ==
  ASSUME NEW f \in Index
  PROVE  /\ DOMAIN f \subseteq Posts
         /\ \A p \in DOMAIN f : f[p] \in 0..MaxTicks
         /\ f \in [DOMAIN f -> 0..MaxTicks]
  <1>1. PICK S \in SUBSET Posts : f \in [S -> 0..MaxTicks]
    BY DEF Index
  <1> QED
    BY <1>1

LEMMA IndexMade ==
  ASSUME NEW S \in SUBSET Posts, NEW f \in [S -> 0..MaxTicks]
  PROVE  f \in Index
  BY DEF Index

LEMMA EmptyIndex == <<>> \in Index /\ DOMAIN <<>> = {}
  <1>1. DOMAIN <<>> = {}
    OBVIOUS
  <1>2. <<>> \in [{} -> 0..MaxTicks]
    OBVIOUS
  <1> QED
    BY <1>1, <1>2, IndexMade

LEMMA WithoutIndex ==
  ASSUME NEW f \in Index, NEW S
  PROVE  /\ Without(f, S) \in Index
         /\ DOMAIN Without(f, S) = DOMAIN f \ S
         /\ \A p \in DOMAIN f \ S : Without(f, S)[p] = f[p]
  <1>1. DOMAIN Without(f, S) = DOMAIN f \ S /\ \A p \in DOMAIN f \ S : Without(f, S)[p] = f[p]
    BY DEF Without
  <1>2. DOMAIN f \ S \in SUBSET Posts /\ \A p \in DOMAIN f \ S : f[p] \in 0..MaxTicks
    BY IndexType
  <1>3. Without(f, S) \in [DOMAIN f \ S -> 0..MaxTicks]
    BY <1>2 DEF Without
  <1> QED
    BY <1>1, <1>2, <1>3, IndexMade

-----------------------------------------------------------------------------
(* The steps, and what each does to the stores.                            *)

LEMMA Cases ==
  ASSUME Next
  PROVE  \/ \E u \in Users, p \in Posts : MutateUnchanged(u, p) \/ Unlike(u, p) \/ Like(u, p) \/ Project(u, p)
         \/ \E u \in Users : Expire(u) \/ LockExpires(u) \/ LockLost(u) \/ ScanUserLikes(u)
         \/ \E r \in Restorers, u \in Users : BeginRestore(r, u)
         \/ \E r \in Restorers : \/ CreateTemp(r) \/ LoadRelations(r) \/ FinishRestore(r) \/ ReleaseRestore(r)
                                 \/ RestoreFails(r) \/ RestoreCrash(r)
         \/ \E p \in Posts : DeletePost(p) \/ MarkPostDeleted(p) \/ PurgePost(p) \/ TombstoneExpires(p)
         \/ FindDeletedPosts \/ RemoveRelations \/ SweepCrash
  BY DEF Next, UserNext, RestoreNext, PostNext

\* Nobody but u.
Only(u) == \A v \in Users : v # u =>
  rel'[v] = rel[v] /\ order'[v] = order[v] /\ cur'[v] = cur[v] /\ present'[v] = present[v]

\* What an Unlike does.
Unliked(u, p) ==
  /\ present[u] /\ Consistent(u) /\ ready[p] = "1" /\ p \in rel[u]
  /\ rel' \in [Users -> SUBSET Posts] /\ rel'[u] = rel[u] \ {p}
  /\ order' \in [Users -> Index] /\ order'[u] = Without(order[u], {p})
  /\ cur' \in [Users -> [Posts -> Fact]]
  /\ cur'[u][p].liked = FALSE /\ cur'[u][p].at <= MaxTicks
  /\ \A q \in Posts : q # p => cur'[u][q] = cur[u][q]
  /\ count' \in [Posts -> Nat] /\ count'[p] = count[p] - 1
  /\ \A q \in Posts : q # p => count'[q] = count[q]
  /\ tick' \in [Users -> 0..MaxTicks]
  /\ Only(u)

LEMMA UnlikeMoves ==
  ASSUME TypeOK, ShapeInv, NEW u \in Users, NEW p \in Posts, Unlike(u, p)
  PROVE  Unliked(u, p)
  <1> DEFINE now == tick[u] + 1
             fact == [liked |-> FALSE, at |-> now]
  <1>1. /\ present[u] /\ Consistent(u) /\ ready[p] = "1" /\ p \in rel[u]
        /\ count[p] > 0 /\ now <= MaxTicks
        /\ UNCHANGED present
    BY DEF Unlike, Servable
  <1>2. /\ tick' = [tick EXCEPT ![u] = now]
        /\ rel' = [rel EXCEPT ![u] = @ \ {p}]
        /\ order' = [order EXCEPT ![u] = Without(order[u], {p})]
        /\ count' = [count EXCEPT ![p] = @ - 1]
        /\ cur' = [cur EXCEPT ![u][p] = fact]
    BY DEF Unlike
  <1>t. /\ tick \in [Users -> 0..MaxTicks] /\ rel \in [Users -> SUBSET Posts] /\ count \in [Posts -> Nat]
        /\ cur \in [Users -> [Posts -> Fact]] /\ order \in [Users -> Index]
    BY DEF TypeOK, ShapeInv
  <1>3. now \in 0..MaxTicks
    BY <1>1, <1>t
  <1>4. tick' \in [Users -> 0..MaxTicks]
    BY <1>2, <1>3, <1>t
  <1>5. fact \in Fact /\ fact.liked = FALSE /\ fact.at <= MaxTicks
    BY <1>1, <1>3 DEF Fact
  <1> HIDE DEF now, fact
  <1>6. rel' \in [Users -> SUBSET Posts] /\ rel'[u] = rel[u] \ {p} /\ \A v \in Users : v # u => rel'[v] = rel[v]
    BY <1>2, <1>t
  <1>7. Without(order[u], {p}) \in Index
    BY <1>t, WithoutIndex
  <1>8. /\ order' \in [Users -> Index] /\ order'[u] = Without(order[u], {p})
        /\ \A v \in Users : v # u => order'[v] = order[v]
    BY <1>2, <1>7, <1>t
  <1>9. count' \in [Posts -> Nat] /\ count'[p] = count[p] - 1 /\ \A q \in Posts : q # p => count'[q] = count[q]
    BY <1>1, <1>2, <1>t
  <1>10. /\ cur' \in [Users -> [Posts -> Fact]] /\ cur'[u][p] = fact
         /\ \A q \in Posts : q # p => cur'[u][q] = cur[u][q]
         /\ \A v \in Users : v # u => cur'[v] = cur[v]
    BY <1>2, <1>5, <1>t
  <1> QED
    BY <1>1, <1>4, <1>5, <1>6, <1>8, <1>9, <1>10 DEF Only, Unliked

\* E is what a Like at the cap pushes out.
Liked(u, p, E) ==
  /\ present[u] /\ Consistent(u) /\ ready[p] = "1" /\ p \notin rel[u]
  /\ (E = {} /\ Cardinality(rel[u]) < Cap) \/ \E e \in rel[u] : E = {e}
  /\ rel' \in [Users -> SUBSET Posts] /\ rel'[u] = (rel[u] \ E) \cup {p}
  /\ order' \in [Users -> Index] /\ DOMAIN order'[u] = (rel[u] \ E) \cup {p}
  /\ order'[u][p] = cur'[u][p].at
  /\ \A q \in rel[u] \ E : order'[u][q] = order[u][q]
  /\ cur' \in [Users -> [Posts -> Fact]]
  /\ cur'[u][p].liked = TRUE
  /\ \A q \in E : ready[q] = "1" => cur'[u][q].liked = FALSE /\ count'[q] = count[q] - 1
  /\ \A q \in Posts : cur'[u][q] = cur[u][q] \/ cur'[u][q].at <= MaxTicks
  /\ \A q \in Posts : q # p /\ (q \notin E \/ ready[q] # "1") => cur'[u][q] = cur[u][q]
  /\ \A q \in Posts : q # p /\ q \notin E => count'[q] = count[q]
  /\ count' \in [Posts -> Nat] /\ count'[p] = count[p] + 1
  /\ tick' \in [Users -> 0..MaxTicks]
  /\ Only(u)

LEMMA LikeMoves ==
  ASSUME TypeOK, ShapeInv, FiniteInv, NEW u \in Users, NEW p \in Posts, Like(u, p)
  PROVE  \E E \in SUBSET rel[u] : Liked(u, p, E)
  <1> DEFINE now  == tick[u] + 1
             full == Cardinality(rel[u]) >= Cap
             idx(E) == [q \in (rel[u] \ E) \cup {p} |-> IF q = p THEN now ELSE order[u][q]]
             live(E) == {e \in E : ready[e] = "1"}
             cnt(E) == [q \in Posts |-> IF q = p THEN count[q] + 1 ELSE IF q \in live(E) THEN count[q] - 1 ELSE count[q]]
             fct(E) == [q \in Posts |-> IF q = p THEN [liked |-> TRUE, at |-> now]
                                        ELSE IF q \in live(E) THEN [liked |-> FALSE, at |-> now] ELSE cur[u][q]]
  <1>1. /\ present[u] /\ Consistent(u) /\ ready[p] = "1" /\ p \notin rel[u]
        /\ now <= MaxTicks /\ tick' = [tick EXCEPT ![u] = now] /\ UNCHANGED present
    BY DEF Like, Servable
  <1>2. PICK E \in IF full THEN {{e} : e \in Evict(u)} ELSE {{}} :
          /\ \A e \in E : ready[e] # "none" /\ (ready[e] = "1" => count[e] > 0)
          /\ rel' = [rel EXCEPT ![u] = (@ \ E) \cup {p}]
          /\ order' = [order EXCEPT ![u] = idx(E)]
          /\ count' = cnt(E)
          /\ cur' = [cur EXCEPT ![u] = fct(E)]
    BY DEF Like
  <1>t. /\ tick \in [Users -> 0..MaxTicks] /\ rel \in [Users -> SUBSET Posts] /\ count \in [Posts -> Nat]
        /\ cur \in [Users -> [Posts -> Fact]] /\ order \in [Users -> Index]
    BY DEF TypeOK, ShapeInv
  <1>3. E \subseteq rel[u] /\ ((E = {} /\ ~full) \/ \E e \in rel[u] : E = {e})
    BY <1>2 DEF Evict
  <1>4. now \in 0..MaxTicks
    BY <1>1, <1>t
  <1>5. tick' \in [Users -> 0..MaxTicks]
    BY <1>1, <1>4, <1>t
  <1>6. idx(E) \in Index /\ DOMAIN idx(E) = (rel[u] \ E) \cup {p} /\ idx(E)[p] = now
        /\ \A q \in rel[u] \ E : idx(E)[q] = order[u][q]
    <2>1. DOMAIN order[u] = rel[u] /\ order[u] \in Index
      BY <1>1, <1>t DEF Consistent
    <2>2. \A q \in rel[u] : order[u][q] \in 0..MaxTicks
      BY <2>1, IndexType
    <2>3. (rel[u] \ E) \cup {p} \in SUBSET Posts
      BY <1>t
    <2>4. idx(E) \in [(rel[u] \ E) \cup {p} -> 0..MaxTicks]
      BY <1>4, <2>2
    <2>5. idx(E) \in Index
      BY <2>3, <2>4, IndexMade
    <2> QED
      BY <1>1, <2>5
  <1>7. /\ fct(E) \in [Posts -> Fact] /\ fct(E)[p] = [liked |-> TRUE, at |-> now]
        /\ \A q \in live(E) : fct(E)[q] = [liked |-> FALSE, at |-> now]
        /\ \A q \in Posts : q # p /\ q \notin live(E) => fct(E)[q] = cur[u][q]
    <2>1. [liked |-> TRUE, at |-> now] \in Fact /\ [liked |-> FALSE, at |-> now] \in Fact
      BY <1>4 DEF Fact
    <2>2. cur[u] \in [Posts -> Fact]
      BY <1>t
    <2>3. live(E) \subseteq Posts /\ p \notin live(E)
      BY <1>1, <1>3, <1>t
    <2> HIDE DEF live
    <2> QED
      BY <2>1, <2>2, <2>3
  <1>8. /\ cnt(E) \in [Posts -> Nat] /\ cnt(E)[p] = count[p] + 1
        /\ \A q \in live(E) : cnt(E)[q] = count[q] - 1
        /\ \A q \in Posts : q # p /\ q \notin live(E) => cnt(E)[q] = count[q]
    <2>1. live(E) \subseteq Posts /\ p \notin live(E) /\ \A q \in live(E) : count[q] > 0
      BY <1>1, <1>2, <1>3, <1>t
    <2> HIDE DEF live
    <2> QED
      BY <1>t, <2>1
  <1>9. \A q \in E : ready[q] = "1" => q \in live(E)
    OBVIOUS
  <1>10. \A q : q \notin E \/ ready[q] # "1" => q \notin live(E)
    OBVIOUS
  <1>w. live(E) \subseteq Posts
    BY <1>3, <1>t
  <1> HIDE DEF idx, cnt, fct, live
  <1>11. /\ rel' \in [Users -> SUBSET Posts] /\ rel'[u] = (rel[u] \ E) \cup {p}
         /\ \A v \in Users : v # u => rel'[v] = rel[v]
    BY <1>2, <1>t
  <1>12. order' \in [Users -> Index] /\ order'[u] = idx(E) /\ \A v \in Users : v # u => order'[v] = order[v]
    BY <1>2, <1>6, <1>t
  <1>13. cur' \in [Users -> [Posts -> Fact]] /\ cur'[u] = fct(E) /\ \A v \in Users : v # u => cur'[v] = cur[v]
    BY <1>2, <1>7, <1>t
  <1>14. Only(u)
    BY <1>1, <1>11, <1>12, <1>13 DEF Only
  <1>15. cur'[u][p].liked = TRUE /\ cur'[u][p].at = now
    BY <1>7, <1>13
  <1>16. \A q \in E : ready[q] = "1" => cur'[u][q].liked = FALSE /\ count'[q] = count[q] - 1
    BY <1>2, <1>7, <1>8, <1>9, <1>13
  <1>17. \A q \in Posts : cur'[u][q] = cur[u][q] \/ cur'[u][q].at <= MaxTicks
    <2>1. ASSUME NEW q \in Posts PROVE cur'[u][q] = cur[u][q] \/ cur'[u][q].at = now
      BY <1>7, <1>13
    <2> QED
      BY <1>1, <2>1
  <1>18. \A q \in Posts : q # p /\ (q \notin E \/ ready[q] # "1") => cur'[u][q] = cur[u][q]
    BY <1>7, <1>10, <1>13
  <1>19. \A q \in Posts : q # p /\ q \notin E => count'[q] = count[q]
    BY <1>2, <1>8, <1>10
  <1>20. ~full => Cardinality(rel[u]) < Cap
    <2>1. Cardinality(rel[u]) \in Nat
      BY FS_CardinalityType DEF FiniteInv
    <2> QED
      BY <2>1
  <1>21. (E = {} /\ Cardinality(rel[u]) < Cap) \/ \E e \in rel[u] : E = {e}
    BY <1>3, <1>20
  <1> HIDE DEF now, full
  <1>22. /\ order' \in [Users -> Index] /\ DOMAIN order'[u] = (rel[u] \ E) \cup {p}
         /\ order'[u][p] = cur'[u][p].at
         /\ \A q \in rel[u] \ E : order'[u][q] = order[u][q]
    BY <1>6, <1>12, <1>15
  <1>23. count' \in [Posts -> Nat] /\ count'[p] = count[p] + 1
    BY <1>2, <1>8
  <1>24. cur' \in [Users -> [Posts -> Fact]] /\ cur'[u][p].liked = TRUE
    BY <1>13, <1>15
  <1>25. Liked(u, p, E)
    BY <1>1, <1>5, <1>11, <1>14, <1>16, <1>17, <1>18, <1>19, <1>21, <1>22, <1>23, <1>24, Zenon DEF Liked
  <1> QED
    BY <1>3, <1>25

LEMMA ExpireMoves ==
  ASSUME TypeOK, ShapeInv, NEW u \in Users, Expire(u)
  PROVE  /\ present[u] /\ row[u] = cur[u]
         /\ present' \in [Users -> BOOLEAN] /\ ~present'[u]
         /\ rel' \in [Users -> SUBSET Posts] /\ rel'[u] = {}
         /\ order' \in [Users -> Index]
         /\ Only(u)
  <1>1. /\ present[u] /\ row[u] = cur[u] /\ UNCHANGED cur
        /\ present' = [present EXCEPT ![u] = FALSE]
        /\ rel' = [rel EXCEPT ![u] = {}]
        /\ order' = [order EXCEPT ![u] = <<>>]
    BY DEF Expire
  <1>t. present \in [Users -> BOOLEAN] /\ rel \in [Users -> SUBSET Posts] /\ order \in [Users -> Index]
    BY DEF TypeOK, ShapeInv
  <1>2. present' \in [Users -> BOOLEAN] /\ ~present'[u] /\ \A v \in Users : v # u => present'[v] = present[v]
    BY <1>1, <1>t
  <1>3. rel' \in [Users -> SUBSET Posts] /\ rel'[u] = {} /\ \A v \in Users : v # u => rel'[v] = rel[v]
    BY <1>1, <1>t
  <1>4. order' \in [Users -> Index] /\ \A v \in Users : v # u => order'[v] = order[v]
    BY <1>1, <1>t, EmptyIndex
  <1> QED
    BY <1>1, <1>2, <1>3, <1>4 DEF Only

\* FinishRestore installs what was loaded, under the fence, or nothing.
LEMMA FinishMoves ==
  ASSUME TypeOK, ShapeInv, FenceInv, NEW r \in Restorers, FinishRestore(r)
  PROVE  LET u == restore[r].user
         IN /\ u \in Users /\ restore[r].phase = "loaded"
            /\ \/ UNCHANGED <<present, rel, order, ledger, lock>>
               \/ /\ ~present[u] /\ ledger[u] = restore[r].expiry
                  /\ present' \in [Users -> BOOLEAN] /\ present'[u]
                  /\ rel' \in [Users -> SUBSET Posts] /\ rel'[u] = restore[r].temp
                  /\ order' \in [Users -> Index] /\ order'[u] = restore[r].score
                  /\ ledger' \in [Users -> 0..MaxArms] /\ ledger'[u] = ledger[u] + 1
                  /\ \A v \in Users : v # u => ledger'[v] = ledger[v]
                  /\ lock' \in [Users -> Restorers \cup {NoLock}]
                  /\ Only(u)
  <1> DEFINE u == restore[r].user
  <1>1. restore[r].phase = "loaded" /\ u \in Users
    BY DEF FinishRestore, FenceInv
  <1>t. /\ present \in [Users -> BOOLEAN] /\ rel \in [Users -> SUBSET Posts] /\ order \in [Users -> Index]
        /\ ledger \in [Users -> 0..MaxArms] /\ lock \in [Users -> Restorers \cup {NoLock}]
    BY DEF TypeOK, ShapeInv
  <1>s. restore[r].temp \subseteq Posts /\ restore[r].score \in Index
    BY DEF ShapeInv, Request
  <1>2. CASE ~Installable(r)
    BY <1>1, <1>2 DEF FinishRestore
  <1>3. CASE Installable(r)
    <2>1. /\ present' = [present EXCEPT ![u] = TRUE]
          /\ rel' = [rel EXCEPT ![u] = restore[r].temp]
          /\ order' = [order EXCEPT ![u] = restore[r].score]
          /\ ledger[u] < MaxArms /\ ledger' = [ledger EXCEPT ![u] = @ + 1]
          /\ lock' = [lock EXCEPT ![u] = NoLock] /\ UNCHANGED cur
      BY <1>3 DEF FinishRestore, Arm
    <2>2. ~present[u] /\ ledger[u] = restore[r].expiry
      BY <1>3 DEF Installable, Owns
    <2> HIDE DEF u
    <2>3. present' \in [Users -> BOOLEAN] /\ present'[u] /\ \A v \in Users : v # u => present'[v] = present[v]
      BY <1>1, <1>t, <2>1
    <2>4. rel' \in [Users -> SUBSET Posts] /\ rel'[u] = restore[r].temp /\ \A v \in Users : v # u => rel'[v] = rel[v]
      BY <1>1, <1>s, <1>t, <2>1
    <2>5. order' \in [Users -> Index] /\ order'[u] = restore[r].score /\ \A v \in Users : v # u => order'[v] = order[v]
      BY <1>1, <1>s, <1>t, <2>1
    <2>6. /\ ledger' \in [Users -> 0..MaxArms] /\ ledger'[u] = ledger[u] + 1
          /\ \A v \in Users : v # u => ledger'[v] = ledger[v]
      BY <1>1, <1>t, <2>1
    <2>7. lock' \in [Users -> Restorers \cup {NoLock}]
      BY <1>1, <1>t, <2>1
    <2>8. Only(u)
      BY <2>1, <2>3, <2>4, <2>5 DEF Only
    <2> QED
      BY <1>1, <2>2, <2>3, <2>4, <2>5, <2>6, <2>7, <2>8 DEF u
  <1> QED
    BY <1>2, <1>3

\* RemoveRelations takes relations to deleted, unserved Posts out of both indexes.
LEMMA RemoveMoves ==
  ASSUME TypeOK, ShapeInv, SweepInv, RemoveRelations
  PROVE  LET u == sweep.user
         IN /\ u \in Users
            /\ \/ UNCHANGED <<rel, order>>
               \/ \E R \in SUBSET (rel[u] \cap sqlDeleted) :
                    /\ \A p \in R : ready[p] # "1"
                    /\ present[u] /\ Consistent(u)
                    /\ rel' \in [Users -> SUBSET Posts] /\ rel'[u] = rel[u] \ R
                    /\ order' \in [Users -> Index] /\ order'[u] = Without(order[u], R)
                    /\ Only(u)
  <1> DEFINE u == sweep.user
             R == {p \in sweep.posts \cap rel[u] : Removable(p)}
  <1>1. sweep.phase = "checked" /\ u \in Users /\ sweep.posts \subseteq sqlDeleted /\ UNCHANGED <<present, cur>>
    BY DEF RemoveRelations, SweepInv
  <1>2. CASE ~(present[u] /\ Consistent(u))
    BY <1>1, <1>2 DEF RemoveRelations
  <1>3. CASE present[u] /\ Consistent(u)
    <2>1. rel' = [rel EXCEPT ![u] = @ \ R] /\ order' = [order EXCEPT ![u] = Without(order[u], R)]
      BY <1>3 DEF RemoveRelations
    <2>2. R \in SUBSET (rel[u] \cap sqlDeleted) /\ \A p \in R : ready[p] # "1"
      BY <1>1 DEF Removable
    <2>t. rel \in [Users -> SUBSET Posts] /\ order \in [Users -> Index]
      BY DEF TypeOK, ShapeInv
    <2> HIDE DEF u, R
    <2>3. rel' \in [Users -> SUBSET Posts] /\ rel'[u] = rel[u] \ R /\ \A v \in Users : v # u => rel'[v] = rel[v]
      BY <1>1, <2>t, <2>1
    <2>4. Without(order[u], R) \in Index
      BY <1>1, <2>t, WithoutIndex
    <2>5. order' \in [Users -> Index] /\ order'[u] = Without(order[u], R) /\ \A v \in Users : v # u => order'[v] = order[v]
      BY <1>1, <2>t, <2>1, <2>4
    <2>6. Only(u)
      BY <1>1, <2>3, <2>5 DEF Only
    <2> QED
      BY <1>1, <1>3, <2>2, <2>3, <2>5, <2>6 DEF u
  <1> QED
    BY <1>2, <1>3

LEMMA ProjectMoves ==
  ASSUME TypeOK, ShapeInv, NEW u \in Users, NEW p \in Posts, Project(u, p)
  PROVE  /\ row' \in [Users -> [Posts -> Fact]]
         /\ row'[u][p] = cur[u][p] /\ row[u][p] # cur[u][p]
         /\ \A q \in Posts : q # p => row'[u][q] = row[u][q]
         /\ \A v \in Users : v # u => row'[v] = row[v]
  <1>1. row' = [row EXCEPT ![u][p] = cur[u][p]] /\ row[u][p] # cur[u][p]
    BY DEF Project
  <1>2. row \in [Users -> [Posts -> Fact]] /\ cur[u][p] \in Fact
    BY DEF TypeOK
  <1> QED
    BY <1>1, <1>2

\* The steps of a request change its own record only.
OthersRestore(r) == restore' = [x \in Restorers |-> IF x = r THEN restore'[r] ELSE restore[x]]

LEMMA BeginMoves ==
  ASSUME TypeOK, ShapeInv, NEW r \in Restorers, NEW u \in Users, BeginRestore(r, u)
  PROVE  /\ restore'[r] = [phase |-> "locked", user |-> u, expiry |-> ledger[u], temp |-> {}, score |-> <<>>]
         /\ restore'[r] \in Request /\ OthersRestore(r)
         /\ ~present[u]
  <1>1. /\ restore' = [restore EXCEPT ![r] = [IdleRestore EXCEPT !.phase = "locked", !.user = u, !.expiry = ledger[u]]]
        /\ ~present[u]
    BY DEF BeginRestore
  <1>2. restore'[r] = [phase |-> "locked", user |-> u, expiry |-> ledger[u], temp |-> {}, score |-> <<>>]
    BY <1>1 DEF ShapeInv, IdleRestore
  <1>3. ledger[u] \in 0..MaxArms
    BY DEF TypeOK
  <1>4. restore'[r] \in Request
    BY <1>2, <1>3, EmptyIndex DEF Request
  <1>5. OthersRestore(r)
    BY <1>1 DEF ShapeInv, OthersRestore
  <1> QED
    BY <1>1, <1>2, <1>4, <1>5

\* LoadRelations takes the liked, undeleted Posts of one snapshot, up to the cap.
LEMMA LoadMoves ==
  ASSUME TypeOK, ShapeInv, FiniteInv, FenceInv, NEW r \in Restorers, LoadRelations(r)
  PROVE  LET u == restore[r].user
             S == {p \in Posts : row[u][p].liked /\ p \notin sqlDeleted}
         IN /\ u \in Users /\ restore[r].phase = "temp"
            /\ restore'[r] \in Request /\ OthersRestore(r)
            /\ restore'[r].user = u /\ restore'[r].expiry = restore[r].expiry
            /\ \/ restore'[r].phase = "release"
               \/ /\ restore'[r].phase = "loaded"
                  /\ restore'[r].temp = S /\ IsFiniteSet(S) /\ Cardinality(S) <= Cap
                  /\ DOMAIN restore'[r].score = S
                  /\ \A p \in S : restore'[r].score[p] = row[u][p].at
  <1> DEFINE u == restore[r].user
             S == {p \in Posts : row[u][p].liked /\ p \notin sqlDeleted}
             f == [p \in S |-> row[u][p].at]
  <1>1. restore[r].phase = "temp" /\ u \in Users
    BY DEF LoadRelations, FenceInv
  <1>2. restore' = [restore EXCEPT ![r] =
          IF Cardinality(S) > Cap THEN [restore[r] EXCEPT !.phase = "release"]
          ELSE [restore[r] EXCEPT !.phase = "loaded", !.temp = S, !.score = f]]
    BY DEF LoadRelations
  <1>3. S \subseteq Posts /\ S \subseteq {p \in Posts : row[u][p].liked}
    OBVIOUS
  <1>4. IsFiniteSet(S) /\ Cardinality(S) \in Nat
    <2>1. IsFiniteSet({p \in Posts : row[u][p].liked})
      BY <1>1 DEF FiniteInv
    <2>2. IsFiniteSet(S)
      BY <1>3, <2>1, FS_Subset
    <2> QED
      BY <2>2, FS_CardinalityType
  <1>5. f \in Index /\ DOMAIN f = S /\ \A p \in S : f[p] = row[u][p].at
    <2>1. \A p \in Posts : row[u][p].at \in 0..MaxTicks
      BY <1>1 DEF TypeOK, ShapeInv, Fact
    <2>2. f \in [S -> 0..MaxTicks]
      BY <1>3, <2>1
    <2>3. f \in Index
      BY <1>3, <2>2, IndexMade
    <2> QED
      BY <2>3
  <1>6. restore[r] \in Request /\ OthersRestore(r)
    BY <1>2 DEF ShapeInv, OthersRestore
  <1> HIDE DEF u, S, f
  <1>7. CASE Cardinality(S) > Cap
    <2>1. restore'[r] = [restore[r] EXCEPT !.phase = "release"]
      BY <1>2, <1>7 DEF ShapeInv
    <2>2. /\ restore'[r] \in Request /\ restore'[r].phase = "release"
          /\ restore'[r].user = restore[r].user /\ restore'[r].expiry = restore[r].expiry
      BY <1>6, <2>1 DEF Request
    <2> QED
      BY <1>1, <1>6, <2>2 DEF u
  <1>8. CASE ~(Cardinality(S) > Cap)
    <2>1. restore'[r] = [restore[r] EXCEPT !.phase = "loaded", !.temp = S, !.score = f]
      BY <1>2, <1>8 DEF ShapeInv
    <2>2. /\ restore'[r] \in Request /\ restore'[r].phase = "loaded"
          /\ restore'[r].user = restore[r].user /\ restore'[r].expiry = restore[r].expiry
          /\ restore'[r].temp = S /\ restore'[r].score = f
      BY <1>3, <1>5, <1>6, <2>1 DEF Request
    <2>3. Cardinality(S) <= Cap
      BY <1>4, <1>8
    <2> QED
      BY <1>1, <1>4, <1>5, <1>6, <2>2, <2>3 DEF u, S
  <1> QED
    BY <1>7, <1>8

\* The other steps of a request move its phase, or forget the request.
LEMMA PhaseMoves ==
  ASSUME TypeOK, ShapeInv, NEW r \in Restorers,
         CreateTemp(r) \/ FinishRestore(r) \/ RestoreFails(r) \/ ReleaseRestore(r) \/ RestoreCrash(r)
  PROVE  /\ restore'[r] \in Request /\ OthersRestore(r)
         /\ restore'[r].phase \in {"idle", "temp", "release"}
         /\ restore'[r].phase # "idle" =>
              /\ restore[r].phase # "idle"
              /\ restore'[r].user = restore[r].user /\ restore'[r].expiry = restore[r].expiry
  <1>0. restore[r] \in Request
    BY DEF ShapeInv
  <1>1. CASE RestoreCrash(r) \/ ReleaseRestore(r)
    <2>1. restore' = [restore EXCEPT ![r] = IdleRestore]
      BY <1>1 DEF RestoreCrash, ReleaseRestore
    <2>2. restore'[r] = IdleRestore /\ OthersRestore(r)
      BY <2>1 DEF ShapeInv, OthersRestore
    <2>3. IdleRestore \in Request /\ IdleRestore.phase = "idle"
      BY EmptyIndex DEF IdleRestore, Request
    <2> QED
      BY <2>2, <2>3
  <1>2. ASSUME NEW ph \in {"temp", "release"}, restore' = [restore EXCEPT ![r].phase = ph], restore[r].phase # "idle"
        PROVE  /\ restore'[r] \in Request /\ OthersRestore(r)
               /\ restore'[r].phase = ph
               /\ restore'[r].user = restore[r].user /\ restore'[r].expiry = restore[r].expiry
    <2>1. restore'[r] = [restore[r] EXCEPT !.phase = ph] /\ OthersRestore(r)
      BY <1>2 DEF ShapeInv, OthersRestore
    <2> QED
      BY <1>0, <2>1 DEF Request
  <1>3. CASE CreateTemp(r)
    <2>1. PICK ph \in {"temp", "release"} : restore' = [restore EXCEPT ![r].phase = ph]
      BY <1>3 DEF CreateTemp
    <2>2. restore[r].phase # "idle"
      BY <1>3 DEF CreateTemp
    <2> QED
      BY <1>2, <2>1, <2>2
  <1>4. CASE FinishRestore(r) \/ RestoreFails(r)
    <2>1. restore' = [restore EXCEPT ![r].phase = "release"] /\ restore[r].phase # "idle"
      BY <1>4 DEF FinishRestore, RestoreFails
    <2> QED
      BY <1>2, <2>1
  <1> QED
    BY <1>1, <1>3, <1>4

-----------------------------------------------------------------------------
(* Which steps change which variable.                                      *)

Mutation == \E u \in Users, p \in Posts : Unlike(u, p) \/ Like(u, p)

LEMMA HistoryFrame ==
  ASSUME Next
  PROVE  /\ UNCHANGED <<cur, tick>> \/ Mutation
         /\ UNCHANGED row \/ \E u \in Users, p \in Posts : Project(u, p)
         /\ UNCHANGED count \/ Mutation \/ \E p \in Posts : PurgePost(p)
  <1> DEFINE G == /\ UNCHANGED <<cur, tick>> \/ Mutation
                  /\ UNCHANGED row \/ \E u \in Users, p \in Posts : Project(u, p)
                  /\ UNCHANGED count \/ Mutation \/ \E p \in Posts : PurgePost(p)
  <1>1. ASSUME NEW u \in Users, NEW p \in Posts, Unlike(u, p) \/ Like(u, p) PROVE G
    <2>1. UNCHANGED row
      BY <1>1 DEF Unlike, Like
    <2> QED
      BY <1>1, <2>1 DEF Mutation
  <1>2. ASSUME NEW u \in Users, NEW p \in Posts, MutateUnchanged(u, p) \/ Project(u, p) PROVE G
    BY <1>2 DEF MutateUnchanged, Project, redisVars
  <1>3. ASSUME NEW u \in Users, Expire(u) \/ LockExpires(u) \/ LockLost(u) \/ ScanUserLikes(u) PROVE G
    BY <1>3 DEF Expire, LockExpires, LockLost, DropLock, ScanUserLikes, redisVars
  <1>4. ASSUME NEW r \in Restorers, NEW u \in Users, BeginRestore(r, u) PROVE G
    BY <1>4 DEF BeginRestore
  <1>5. ASSUME NEW r \in Restorers, CreateTemp(r) \/ LoadRelations(r) \/ FinishRestore(r) PROVE G
    BY <1>5 DEF CreateTemp, LoadRelations, FinishRestore, redisVars
  <1>6. ASSUME NEW r \in Restorers, ReleaseRestore(r) \/ RestoreFails(r) \/ RestoreCrash(r) PROVE G
    BY <1>6 DEF ReleaseRestore, RestoreFails, RestoreCrash, redisVars
  <1>7. ASSUME NEW p \in Posts, DeletePost(p) \/ MarkPostDeleted(p) \/ PurgePost(p) \/ TombstoneExpires(p) PROVE G
    BY <1>7 DEF DeletePost, MarkPostDeleted, PurgePost, TombstoneExpires, redisVars
  <1>8. ASSUME FindDeletedPosts \/ RemoveRelations \/ SweepCrash PROVE G
    BY <1>8 DEF FindDeletedPosts, RemoveRelations, SweepCrash, redisVars
  <1> QED
    BY <1>1, <1>2, <1>3, <1>4, <1>5, <1>6, <1>7, <1>8, Cases

LEMMA RelationFrame ==
  ASSUME Next
  PROVE  /\ UNCHANGED <<rel, order>> \/ Mutation \/ RemoveRelations
            \/ (\E u \in Users : Expire(u)) \/ \E r \in Restorers : FinishRestore(r)
         /\ UNCHANGED present \/ (\E u \in Users : Expire(u)) \/ \E r \in Restorers : FinishRestore(r)
  <1> DEFINE G == /\ UNCHANGED <<rel, order>> \/ Mutation \/ RemoveRelations
                     \/ (\E u \in Users : Expire(u)) \/ \E r \in Restorers : FinishRestore(r)
                  /\ UNCHANGED present \/ (\E u \in Users : Expire(u)) \/ \E r \in Restorers : FinishRestore(r)
  <1>1. ASSUME NEW u \in Users, NEW p \in Posts, Unlike(u, p) \/ Like(u, p) PROVE G
    <2>1. UNCHANGED present
      BY <1>1 DEF Unlike, Like
    <2> QED
      BY <1>1, <2>1 DEF Mutation
  <1>2. ASSUME NEW u \in Users, NEW p \in Posts, MutateUnchanged(u, p) \/ Project(u, p) PROVE G
    BY <1>2 DEF MutateUnchanged, Project, redisVars
  <1>3. ASSUME NEW u \in Users, LockExpires(u) \/ LockLost(u) \/ ScanUserLikes(u) PROVE G
    BY <1>3 DEF LockExpires, LockLost, DropLock, ScanUserLikes, redisVars
  <1>4. ASSUME NEW r \in Restorers, NEW u \in Users, BeginRestore(r, u) PROVE G
    BY <1>4 DEF BeginRestore
  <1>5. ASSUME NEW r \in Restorers, CreateTemp(r) \/ LoadRelations(r) PROVE G
    BY <1>5 DEF CreateTemp, LoadRelations, redisVars
  <1>6. ASSUME NEW r \in Restorers, ReleaseRestore(r) \/ RestoreFails(r) \/ RestoreCrash(r) PROVE G
    BY <1>6 DEF ReleaseRestore, RestoreFails, RestoreCrash, redisVars
  <1>7. ASSUME NEW p \in Posts, DeletePost(p) \/ MarkPostDeleted(p) \/ PurgePost(p) \/ TombstoneExpires(p) PROVE G
    BY <1>7 DEF DeletePost, MarkPostDeleted, PurgePost, TombstoneExpires, redisVars
  <1>8. ASSUME FindDeletedPosts \/ SweepCrash PROVE G
    BY <1>8 DEF FindDeletedPosts, SweepCrash, redisVars
  <1>9. ASSUME RemoveRelations PROVE G
    <2>1. UNCHANGED present
      BY <1>9 DEF RemoveRelations
    <2> QED
      BY <1>9, <2>1
  <1> QED
    BY <1>1, <1>2, <1>3, <1>4, <1>5, <1>6, <1>7, <1>8, <1>9, Cases

\* A Post that is not served is never served again.
LEMMA PostFrame ==
  ASSUME TypeOK, PostInv, Next
  PROVE  /\ ready' \in [Posts -> {"1", "deleted", "none"}]
         /\ sqlDeleted' \subseteq Posts /\ purged' \subseteq sqlDeleted'
         /\ sqlDeleted \subseteq sqlDeleted'
         /\ \A p \in Posts : ready'[p] = "1" => ready[p] = "1"
         /\ PostInv'
         /\ \A p \in Posts : PurgePost(p) => ready[p] = "deleted" /\ UNCHANGED ready
  <1>t. ready \in [Posts -> {"1", "deleted", "none"}] /\ sqlDeleted \subseteq Posts /\ purged \subseteq sqlDeleted
    BY DEF TypeOK
  <1> DEFINE G == /\ ready' \in [Posts -> {"1", "deleted", "none"}]
                  /\ sqlDeleted' \subseteq Posts /\ purged' \subseteq sqlDeleted'
                  /\ sqlDeleted \subseteq sqlDeleted'
                  /\ \A p \in Posts : ready'[p] = "1" => ready[p] = "1"
                  /\ PostInv'
  <1>0. ASSUME UNCHANGED <<ready, sqlDeleted, purged>> PROVE G
    BY <1>0, <1>t DEF PostInv
  <1>1. ASSUME NEW u \in Users, NEW p \in Posts, MutateUnchanged(u, p) \/ Unlike(u, p) \/ Like(u, p) \/ Project(u, p)
        PROVE  UNCHANGED <<ready, sqlDeleted, purged>>
    BY <1>1 DEF MutateUnchanged, Unlike, Like, Project, redisVars
  <1>3. ASSUME NEW u \in Users, Expire(u) \/ LockExpires(u) \/ LockLost(u) \/ ScanUserLikes(u)
        PROVE  UNCHANGED <<ready, sqlDeleted, purged>>
    BY <1>3 DEF Expire, LockExpires, LockLost, DropLock, ScanUserLikes, redisVars
  <1>4. ASSUME NEW r \in Restorers, NEW u \in Users, BeginRestore(r, u) PROVE UNCHANGED <<ready, sqlDeleted, purged>>
    BY <1>4 DEF BeginRestore
  <1>5. ASSUME NEW r \in Restorers, CreateTemp(r) \/ LoadRelations(r) \/ FinishRestore(r)
        PROVE  UNCHANGED <<ready, sqlDeleted, purged>>
    BY <1>5 DEF CreateTemp, LoadRelations, FinishRestore, redisVars
  <1>6. ASSUME NEW r \in Restorers, ReleaseRestore(r) \/ RestoreFails(r) \/ RestoreCrash(r)
        PROVE  UNCHANGED <<ready, sqlDeleted, purged>>
    BY <1>6 DEF ReleaseRestore, RestoreFails, RestoreCrash, redisVars
  <1>7. ASSUME NEW p \in Posts, DeletePost(p) PROVE G
    BY <1>7, <1>t DEF DeletePost, redisVars, PostInv
  <1>8. ASSUME NEW p \in Posts, MarkPostDeleted(p) \/ TombstoneExpires(p) PROVE G
    <2>1. PICK s \in {"deleted", "none"} : ready' = [ready EXCEPT ![p] = s] /\ UNCHANGED <<sqlDeleted, purged>>
      BY <1>8 DEF MarkPostDeleted, TombstoneExpires
    <2>2. p \in sqlDeleted
      BY <1>8 DEF MarkPostDeleted, TombstoneExpires, PostInv
    <2> QED
      BY <1>t, <2>1, <2>2 DEF PostInv
  <1>9. ASSUME NEW p \in Posts, PurgePost(p) PROVE G
    BY <1>9, <1>t DEF PurgePost, PostInv
  <1>10. ASSUME FindDeletedPosts \/ RemoveRelations \/ SweepCrash PROVE UNCHANGED <<ready, sqlDeleted, purged>>
    BY <1>10 DEF FindDeletedPosts, RemoveRelations, SweepCrash, redisVars
  <1>11. \A p \in Posts : PurgePost(p) => ready[p] = "deleted" /\ UNCHANGED ready
    BY DEF PurgePost
  <1> QED
    BY <1>0, <1>1, <1>3, <1>4, <1>5, <1>6, <1>7, <1>8, <1>9, <1>10, <1>11, Cases

\* A mutation or an install moves the deadline of its user, and only an install
\* brings a cold user back.
LEMMA LedgerFrame ==
  ASSUME TypeOK, ShapeInv, FenceInv, Next
  PROVE  /\ ledger' \in [Users -> 0..MaxArms] /\ lock' \in [Users -> Restorers \cup {NoLock}]
         /\ \A u \in Users : ledger'[u] = ledger[u] \/ ledger'[u] = ledger[u] + 1
         /\ \A u \in Users : present'[u] /\ ~present[u] => ledger'[u] = ledger[u] + 1
  <1> DEFINE G == /\ ledger' \in [Users -> 0..MaxArms] /\ lock' \in [Users -> Restorers \cup {NoLock}]
                  /\ \A u \in Users : ledger'[u] = ledger[u] \/ ledger'[u] = ledger[u] + 1
                  /\ \A u \in Users : present'[u] /\ ~present[u] => ledger'[u] = ledger[u] + 1
  <1>t. ledger \in [Users -> 0..MaxArms] /\ lock \in [Users -> Restorers \cup {NoLock}]
    BY DEF TypeOK
  <1>0. ASSUME UNCHANGED <<ledger, present>>, lock' \in [Users -> Restorers \cup {NoLock}] PROVE G
    BY <1>0, <1>t
  <1>1. ASSUME NEW u \in Users, Arm(u), UNCHANGED <<present, lock>> PROVE G
    BY <1>1, <1>t DEF Arm
  <1>2. ASSUME NEW u \in Users, NEW p \in Posts, MutateUnchanged(u, p) \/ Unlike(u, p) \/ Like(u, p) PROVE G
    BY <1>1, <1>2 DEF MutateUnchanged, Unlike, Like
  <1>3. ASSUME NEW u \in Users, NEW p \in Posts, Project(u, p) PROVE G
    BY <1>0, <1>3, <1>t DEF Project, redisVars
  <1>4. ASSUME NEW u \in Users, Expire(u) PROVE G
    <2>1. UNCHANGED <<ledger, lock>>
      BY <1>4 DEF Expire
    <2>2. ~present'[u] /\ \A v \in Users : v # u => present'[v] = present[v]
      BY <1>4, ExpireMoves DEF Only
    <2> QED
      BY <1>t, <2>1, <2>2
  <1>5. ASSUME NEW u \in Users, LockExpires(u) \/ LockLost(u) PROVE G
    <2>1. UNCHANGED <<ledger, present>> /\ lock' = [lock EXCEPT ![u] = NoLock]
      BY <1>5 DEF LockExpires, LockLost, DropLock
    <2>2. lock' \in [Users -> Restorers \cup {NoLock}]
      BY <1>t, <2>1
    <2> QED
      BY <1>0, <2>1, <2>2
  <1>6. ASSUME NEW u \in Users, ScanUserLikes(u) PROVE G
    BY <1>0, <1>6, <1>t DEF ScanUserLikes, redisVars
  <1>7. ASSUME NEW r \in Restorers, NEW u \in Users, BeginRestore(r, u) PROVE G
    <2>1. UNCHANGED <<ledger, present>> /\ lock' = [lock EXCEPT ![u] = r]
      BY <1>7 DEF BeginRestore
    <2>2. lock' \in [Users -> Restorers \cup {NoLock}]
      BY <1>t, <2>1
    <2> QED
      BY <1>0, <2>1, <2>2
  <1>8. ASSUME NEW r \in Restorers, CreateTemp(r) \/ LoadRelations(r) \/ RestoreFails(r) \/ RestoreCrash(r) PROVE G
    BY <1>0, <1>8, <1>t DEF CreateTemp, LoadRelations, RestoreFails, RestoreCrash, redisVars
  <1>9. ASSUME NEW r \in Restorers, FinishRestore(r) PROVE G
    <2>1. CASE UNCHANGED <<present, rel, order, ledger, lock>>
      BY <1>0, <1>t, <2>1
    <2>2. CASE ~UNCHANGED <<present, rel, order, ledger, lock>>
      <3>1. PICK u \in Users : /\ ledger' \in [Users -> 0..MaxArms] /\ ledger'[u] = ledger[u] + 1
                               /\ \A v \in Users : v # u => ledger'[v] = ledger[v]
                               /\ lock' \in [Users -> Restorers \cup {NoLock}] /\ Only(u)
        BY <1>9, <2>2, FinishMoves
      <3> QED
        BY <3>1 DEF Only
    <2> QED
      BY <2>1, <2>2
  <1>10. ASSUME NEW r \in Restorers, ReleaseRestore(r) PROVE G
    <2>1. UNCHANGED <<ledger, present>>
          /\ lock' = IF lock[restore[r].user] = r THEN [lock EXCEPT ![restore[r].user] = NoLock] ELSE lock
      BY <1>10 DEF ReleaseRestore
    <2>2. lock' \in [Users -> Restorers \cup {NoLock}]
      BY <1>t, <2>1
    <2> QED
      BY <1>0, <2>1, <2>2
  <1>11. ASSUME NEW p \in Posts, DeletePost(p) \/ MarkPostDeleted(p) \/ PurgePost(p) \/ TombstoneExpires(p) PROVE G
    BY <1>0, <1>11, <1>t DEF DeletePost, MarkPostDeleted, PurgePost, TombstoneExpires, redisVars
  <1>12. ASSUME FindDeletedPosts \/ RemoveRelations \/ SweepCrash PROVE G
    BY <1>0, <1>12, <1>t DEF FindDeletedPosts, RemoveRelations, SweepCrash, redisVars
  <1> HIDE DEF G
  <1>13. G
    BY <1>2, <1>3, <1>4, <1>5, <1>6, <1>7, <1>8, <1>9, <1>10, <1>11, <1>12, Cases
  <1> QED
    BY <1>13 DEF G

\* What becomes of the record of a request.
LEMMA RequestFrame ==
  ASSUME TypeOK, ShapeInv, FiniteInv, FenceInv, Next
  PROVE  /\ restore' \in [Restorers -> Request]
         /\ \A r \in Restorers :
              \/ restore'[r] = restore[r]
              \/ \E u \in Users : BeginRestore(r, u)
              \/ LoadRelations(r)
              \/ CreateTemp(r) \/ FinishRestore(r) \/ RestoreFails(r) \/ ReleaseRestore(r) \/ RestoreCrash(r)
  <1> DEFINE Own(r) == \/ \E u \in Users : BeginRestore(r, u)
                       \/ LoadRelations(r)
                       \/ CreateTemp(r) \/ FinishRestore(r) \/ RestoreFails(r) \/ ReleaseRestore(r) \/ RestoreCrash(r)
             G == /\ restore' \in [Restorers -> Request]
                  /\ \A r \in Restorers : restore'[r] = restore[r] \/ Own(r)
  <1>0. ASSUME UNCHANGED restore PROVE G
    BY <1>0 DEF ShapeInv
  <1>1. ASSUME NEW r \in Restorers, OthersRestore(r), restore'[r] \in Request, Own(r) PROVE G
    <2>1. restore' \in [Restorers -> Request] /\ \A x \in Restorers : x # r => restore'[x] = restore[x]
      BY <1>1 DEF OthersRestore, ShapeInv
    <2> HIDE DEF Own
    <2> QED
      BY <1>1, <2>1
  <1>2. ASSUME NEW u \in Users, NEW p \in Posts, MutateUnchanged(u, p) \/ Unlike(u, p) \/ Like(u, p) \/ Project(u, p)
        PROVE  UNCHANGED restore
    BY <1>2 DEF MutateUnchanged, Unlike, Like, Project
  <1>3. ASSUME NEW u \in Users, Expire(u) \/ LockExpires(u) \/ LockLost(u) \/ ScanUserLikes(u) PROVE UNCHANGED restore
    BY <1>3 DEF Expire, LockExpires, LockLost, DropLock, ScanUserLikes
  <1>4. ASSUME NEW r \in Restorers, NEW u \in Users, BeginRestore(r, u) PROVE G
    <2>1. OthersRestore(r) /\ restore'[r] \in Request
      BY <1>4, BeginMoves
    <2> HIDE DEF G
    <2> QED
      BY <1>1, <1>4, <2>1
  <1>5. ASSUME NEW r \in Restorers, LoadRelations(r) PROVE G
    <2>1. OthersRestore(r) /\ restore'[r] \in Request
      BY <1>5, LoadMoves
    <2> HIDE DEF G
    <2> QED
      BY <1>1, <1>5, <2>1
  <1>6. ASSUME NEW r \in Restorers,
               CreateTemp(r) \/ FinishRestore(r) \/ RestoreFails(r) \/ ReleaseRestore(r) \/ RestoreCrash(r)
        PROVE  G
    <2>1. OthersRestore(r) /\ restore'[r] \in Request
      BY <1>6, PhaseMoves
    <2> HIDE DEF G
    <2> QED
      BY <1>1, <1>6, <2>1
  <1>7. ASSUME NEW p \in Posts, DeletePost(p) \/ MarkPostDeleted(p) \/ PurgePost(p) \/ TombstoneExpires(p)
        PROVE  UNCHANGED restore
    BY <1>7 DEF DeletePost, MarkPostDeleted, PurgePost, TombstoneExpires
  <1>8. ASSUME FindDeletedPosts \/ RemoveRelations \/ SweepCrash PROVE UNCHANGED restore
    BY <1>8 DEF FindDeletedPosts, RemoveRelations, SweepCrash
  <1> HIDE DEF G
  <1>9. G
    BY <1>0, <1>2, <1>3, <1>4, <1>5, <1>6, <1>7, <1>8, Cases
  <1> QED
    BY <1>9 DEF G

\* The sweep.
LEMMA SweepStep ==
  ASSUME TypeOK, ShapeInv, SweepInv, PostInv, Next
  PROVE  sweep' \in Sweeper /\ SweepInv'
  <1>0. ASSUME UNCHANGED sweep PROVE sweep' \in Sweeper /\ SweepInv'
    <2>1. sqlDeleted \subseteq sqlDeleted'
      BY PostFrame
    <2> QED
      BY <1>0, <2>1 DEF ShapeInv, SweepInv
  <1>1. ASSUME sweep' = IdleSweep PROVE sweep' \in Sweeper /\ SweepInv'
    BY <1>1 DEF IdleSweep, Sweeper, SweepInv
  <1>2. ASSUME NEW u \in Users, ScanUserLikes(u) PROVE sweep' \in Sweeper /\ SweepInv'
    <2>1. sweep' = [phase |-> "scanned", user |-> u, posts |-> rel[u]] /\ rel[u] \subseteq Posts
      BY <1>2 DEF ScanUserLikes, TypeOK
    <2> QED
      BY <2>1 DEF Sweeper, SweepInv
  <1>3. ASSUME FindDeletedPosts PROVE sweep' \in Sweeper /\ SweepInv'
    <2>1. /\ sweep.phase = "scanned" /\ sweep' = [sweep EXCEPT !.phase = "checked", !.posts = @ \cap sqlDeleted]
          /\ UNCHANGED sqlDeleted
      BY <1>3 DEF FindDeletedPosts
    <2>2. sweep \in Sweeper
      BY DEF ShapeInv
    <2>3. /\ sweep'.phase = "checked" /\ sweep'.user = sweep.user /\ sweep'.posts = sweep.posts \cap sqlDeleted
          /\ sweep' \in Sweeper
      BY <2>1, <2>2 DEF Sweeper
    <2> QED
      BY <2>1, <2>3 DEF SweepInv
  <1>4. ASSUME RemoveRelations \/ SweepCrash PROVE sweep' = IdleSweep
    BY <1>4 DEF RemoveRelations, SweepCrash
  <1>5. ASSUME NEW u \in Users, NEW p \in Posts, MutateUnchanged(u, p) \/ Unlike(u, p) \/ Like(u, p) \/ Project(u, p)
        PROVE  UNCHANGED sweep
    BY <1>5 DEF MutateUnchanged, Unlike, Like, Project
  <1>6. ASSUME NEW u \in Users, Expire(u) \/ LockExpires(u) \/ LockLost(u) PROVE UNCHANGED sweep
    BY <1>6 DEF Expire, LockExpires, LockLost, DropLock
  <1>7. ASSUME NEW r \in Restorers, NEW u \in Users, BeginRestore(r, u) PROVE UNCHANGED sweep
    BY <1>7 DEF BeginRestore
  <1>8. ASSUME NEW r \in Restorers,
               \/ CreateTemp(r) \/ LoadRelations(r) \/ FinishRestore(r) \/ ReleaseRestore(r)
               \/ RestoreFails(r) \/ RestoreCrash(r)
        PROVE  UNCHANGED sweep
    BY <1>8 DEF CreateTemp, LoadRelations, FinishRestore, ReleaseRestore, RestoreFails, RestoreCrash
  <1>9. ASSUME NEW p \in Posts, DeletePost(p) \/ MarkPostDeleted(p) \/ PurgePost(p) \/ TombstoneExpires(p)
        PROVE  UNCHANGED sweep
    BY <1>9 DEF DeletePost, MarkPostDeleted, PurgePost, TombstoneExpires
  <1> QED
    BY <1>0, <1>1, <1>2, <1>3, <1>4, <1>5, <1>6, <1>7, <1>8, <1>9, Cases

LEMMA FaultStep ==
  ASSUME TypeOK, Next
  PROVE  faults' \in 0..MaxFaults
  <1>t. faults \in 0..MaxFaults
    BY DEF TypeOK
  <1>0. UNCHANGED faults => faults' \in 0..MaxFaults
    BY <1>t
  <1>f. Fault => faults' \in 0..MaxFaults
    BY <1>t DEF Fault
  <1>5. ASSUME NEW u \in Users, NEW p \in Posts, MutateUnchanged(u, p) \/ Unlike(u, p) \/ Like(u, p) \/ Project(u, p)
        PROVE  UNCHANGED faults
    BY <1>5 DEF MutateUnchanged, Unlike, Like, Project
  <1>6. ASSUME NEW u \in Users, Expire(u) \/ LockExpires(u) \/ LockLost(u) \/ ScanUserLikes(u) PROVE UNCHANGED faults \/ Fault
    BY <1>6 DEF Expire, LockExpires, LockLost, ScanUserLikes
  <1>7. ASSUME NEW r \in Restorers, NEW u \in Users, BeginRestore(r, u) PROVE UNCHANGED faults
    BY <1>7 DEF BeginRestore
  <1>8. ASSUME NEW r \in Restorers,
               \/ CreateTemp(r) \/ LoadRelations(r) \/ FinishRestore(r) \/ ReleaseRestore(r)
               \/ RestoreFails(r) \/ RestoreCrash(r)
        PROVE  UNCHANGED faults \/ Fault
    BY <1>8 DEF CreateTemp, LoadRelations, FinishRestore, ReleaseRestore, RestoreFails, RestoreCrash
  <1>9. ASSUME NEW p \in Posts, DeletePost(p) \/ MarkPostDeleted(p) \/ PurgePost(p) \/ TombstoneExpires(p)
        PROVE  UNCHANGED faults
    BY <1>9 DEF DeletePost, MarkPostDeleted, PurgePost, TombstoneExpires
  <1>10. ASSUME FindDeletedPosts \/ RemoveRelations \/ SweepCrash PROVE UNCHANGED faults \/ Fault
    BY <1>10 DEF FindDeletedPosts, RemoveRelations, SweepCrash
  <1> QED
    BY <1>0, <1>f, <1>5, <1>6, <1>7, <1>8, <1>9, <1>10, Cases

-----------------------------------------------------------------------------
(* Types.                                                                  *)

StoresOK ==
  /\ count \in [Posts -> Nat]
  /\ present \in [Users -> BOOLEAN]
  /\ rel \in [Users -> SUBSET Posts]
  /\ order \in [Users -> Index]
  /\ tick \in [Users -> 0..MaxTicks]
  /\ cur \in [Users -> [Posts -> Fact]]
  /\ row \in [Users -> [Posts -> Fact]]
  /\ \A u \in Users, p \in Posts : cur[u][p].at <= MaxTicks /\ row[u][p].at <= MaxTicks

LEMMA StoresStep ==
  ASSUME TypeOK, ShapeInv, FiniteInv, FenceInv, SweepInv, Next
  PROVE  StoresOK'
  <1>t. StoresOK
    BY DEF TypeOK, ShapeInv, StoresOK
  <1>1. tick' \in [Users -> 0..MaxTicks] /\ cur' \in [Users -> [Posts -> Fact]]
        /\ \A u \in Users, p \in Posts : cur'[u][p].at <= MaxTicks
    <2>1. CASE UNCHANGED <<cur, tick>>
      BY <1>t, <2>1 DEF StoresOK
    <2>2. ASSUME NEW u \in Users, NEW p \in Posts, Unlike(u, p)
          PROVE  tick' \in [Users -> 0..MaxTicks] /\ cur' \in [Users -> [Posts -> Fact]]
                 /\ \A v \in Users, q \in Posts : cur'[v][q].at <= MaxTicks
      <3>1. /\ tick' \in [Users -> 0..MaxTicks] /\ cur' \in [Users -> [Posts -> Fact]]
            /\ cur'[u][p].at <= MaxTicks /\ \A q \in Posts : q # p => cur'[u][q] = cur[u][q]
            /\ \A v \in Users : v # u => cur'[v] = cur[v]
        <4>1. Unliked(u, p)
          BY <2>2, UnlikeMoves
        <4> QED
          BY <4>1 DEF Only, Unliked
      <3> QED
        BY <1>t, <3>1 DEF StoresOK
    <2>3. ASSUME NEW u \in Users, NEW p \in Posts, Like(u, p)
          PROVE  tick' \in [Users -> 0..MaxTicks] /\ cur' \in [Users -> [Posts -> Fact]]
                 /\ \A v \in Users, q \in Posts : cur'[v][q].at <= MaxTicks
      <3>1. PICK E \in SUBSET rel[u] : Liked(u, p, E)
        BY <2>3, LikeMoves
      <3>2. /\ tick' \in [Users -> 0..MaxTicks] /\ cur' \in [Users -> [Posts -> Fact]]
            /\ \A q \in Posts : cur'[u][q] = cur[u][q] \/ cur'[u][q].at <= MaxTicks
            /\ \A v \in Users : v # u => cur'[v] = cur[v]
        BY <3>1 DEF Liked, Only
      <3> QED
        BY <1>t, <3>2 DEF StoresOK
    <2> QED
      BY <2>1, <2>2, <2>3, HistoryFrame DEF Mutation
  <1>2. row' \in [Users -> [Posts -> Fact]] /\ \A u \in Users, p \in Posts : row'[u][p].at <= MaxTicks
    <2>1. CASE UNCHANGED row
      BY <1>t, <2>1 DEF StoresOK
    <2>2. ASSUME NEW u \in Users, NEW p \in Posts, Project(u, p)
          PROVE  row' \in [Users -> [Posts -> Fact]] /\ \A v \in Users, q \in Posts : row'[v][q].at <= MaxTicks
      <3>1. /\ row' \in [Users -> [Posts -> Fact]]
            /\ row'[u][p] = cur[u][p]
            /\ \A q \in Posts : q # p => row'[u][q] = row[u][q]
            /\ \A v \in Users : v # u => row'[v] = row[v]
        BY <2>2, ProjectMoves
      <3> QED
        BY <1>t, <3>1 DEF StoresOK
    <2> QED
      BY <2>1, <2>2, HistoryFrame
  <1>3. count' \in [Posts -> Nat]
    <2>1. CASE UNCHANGED count
      BY <1>t, <2>1 DEF StoresOK
    <2>2. ASSUME Mutation PROVE count' \in [Posts -> Nat]
      <3>1. ASSUME NEW u \in Users, NEW p \in Posts, Unlike(u, p) PROVE count' \in [Posts -> Nat]
        <4>1. Unliked(u, p)
          BY <3>1, UnlikeMoves
        <4> QED
          BY <4>1 DEF Unliked
      <3>2. ASSUME NEW u \in Users, NEW p \in Posts, Like(u, p) PROVE count' \in [Posts -> Nat]
        <4>1. PICK E \in SUBSET rel[u] : Liked(u, p, E)
          BY <3>2, LikeMoves
        <4> QED
          BY <4>1 DEF Liked
      <3> QED
        BY <2>2, <3>1, <3>2 DEF Mutation
    <2>3. ASSUME NEW p \in Posts, PurgePost(p) PROVE count' \in [Posts -> Nat]
      BY <1>t, <2>3 DEF PurgePost, StoresOK
    <2> QED
      BY <2>1, <2>2, <2>3, HistoryFrame
  <1>4. present' \in [Users -> BOOLEAN]
    <2>1. CASE UNCHANGED present
      BY <1>t, <2>1 DEF StoresOK
    <2>2. ASSUME NEW u \in Users, Expire(u) PROVE present' \in [Users -> BOOLEAN]
      BY <2>2, ExpireMoves
    <2>3. ASSUME NEW r \in Restorers, FinishRestore(r) PROVE present' \in [Users -> BOOLEAN]
      BY <1>t, <2>3, FinishMoves DEF StoresOK
    <2> QED
      BY <2>1, <2>2, <2>3, RelationFrame
  <1>5. rel' \in [Users -> SUBSET Posts] /\ order' \in [Users -> Index]
    <2>1. CASE UNCHANGED <<rel, order>>
      BY <1>t, <2>1 DEF StoresOK
    <2>2. ASSUME Mutation PROVE rel' \in [Users -> SUBSET Posts] /\ order' \in [Users -> Index]
      <3>1. ASSUME NEW u \in Users, NEW p \in Posts, Unlike(u, p) PROVE rel' \in [Users -> SUBSET Posts] /\ order' \in [Users -> Index]
        <4>1. Unliked(u, p)
          BY <3>1, UnlikeMoves
        <4> QED
          BY <4>1 DEF Unliked
      <3>2. ASSUME NEW u \in Users, NEW p \in Posts, Like(u, p) PROVE rel' \in [Users -> SUBSET Posts] /\ order' \in [Users -> Index]
        <4>1. PICK E \in SUBSET rel[u] : Liked(u, p, E)
          BY <3>2, LikeMoves
        <4> QED
          BY <4>1 DEF Liked
      <3> QED
        BY <2>2, <3>1, <3>2 DEF Mutation
    <2>3. ASSUME NEW u \in Users, Expire(u) PROVE rel' \in [Users -> SUBSET Posts] /\ order' \in [Users -> Index]
      BY <2>3, ExpireMoves
    <2>4. ASSUME NEW r \in Restorers, FinishRestore(r) PROVE rel' \in [Users -> SUBSET Posts] /\ order' \in [Users -> Index]
      BY <1>t, <2>4, FinishMoves DEF StoresOK
    <2>5. ASSUME RemoveRelations PROVE rel' \in [Users -> SUBSET Posts] /\ order' \in [Users -> Index]
      BY <1>t, <2>5, RemoveMoves DEF StoresOK
    <2> QED
      BY <2>1, <2>2, <2>3, <2>4, <2>5, RelationFrame
  <1> QED
    BY <1>1, <1>2, <1>3, <1>4, <1>5 DEF StoresOK

RestOK ==
  /\ ready \in [Posts -> {"1", "deleted", "none"}] /\ sqlDeleted \subseteq Posts /\ purged \subseteq sqlDeleted
  /\ ledger \in [Users -> 0..MaxArms] /\ lock \in [Users -> Restorers \cup {NoLock}]
  /\ faults \in 0..MaxFaults

\* TypeOK is made of the parts above.
LEMMA TypeFrom ==
  StoresOK /\ ShapeInv /\ FenceInv /\ SweepInv /\ RestOK => TypeOK
  <1> SUFFICES ASSUME StoresOK, ShapeInv, FenceInv, SweepInv, RestOK PROVE TypeOK
    OBVIOUS
  <1>1. \A u \in Users : DOMAIN order[u] \subseteq Posts /\ \A p \in DOMAIN order[u] : order[u][p] \in 0..MaxTicks
    BY IndexType DEF ShapeInv
  <1>2. \A r \in Restorers :
          /\ restore[r].phase \in {"idle", "locked", "temp", "loaded", "release"}
          /\ restore[r].expiry \in 0..MaxArms
          /\ restore[r].temp \subseteq Posts
    BY DEF ShapeInv, Request
  <1>3. \A r \in Restorers : restore[r].phase # "idle" => restore[r].user \in Users
    BY DEF FenceInv
  <1>4. sweep.phase \in {"idle", "scanned", "checked"} /\ sweep.posts \subseteq Posts
    BY DEF ShapeInv, Sweeper
  <1>5. sweep.phase # "idle" => sweep.user \in Users
    BY DEF SweepInv
  <1> QED
    BY <1>1, <1>2, <1>3, <1>4, <1>5 DEF TypeOK, StoresOK, RestOK

-----------------------------------------------------------------------------
(* Finite sets.                                                            *)

\* One step adds at most one Like.
LEMMA OneLike ==
  ASSUME TypeOK, ShapeInv, FiniteInv, Next
  PROVE  \/ UNCHANGED cur
         \/ \E u \in Users, p \in Posts : \A v \in Users, q \in Posts :
              cur'[v][q].liked => cur[v][q].liked \/ (v = u /\ q = p)
  <1>1. ASSUME NEW u \in Users, NEW p \in Posts, Unlike(u, p)
        PROVE  \A v \in Users, q \in Posts : cur'[v][q].liked => cur[v][q].liked \/ (v = u /\ q = p)
    <2>0. Unliked(u, p)
      BY <1>1, UnlikeMoves
    <2>1. cur' \in [Users -> [Posts -> Fact]] /\ (\A x \in Posts : x # p => cur'[u][x] = cur[u][x]) /\ Only(u)
      BY <2>0 DEF Unliked
    <2>2. \A y \in Users : y # u => cur'[y] = cur[y]
      BY <2>1 DEF Only
    <2> QED
      BY <2>1, <2>2
  <1>2. ASSUME NEW u \in Users, NEW p \in Posts, Like(u, p), NEW v \in Users, NEW q \in Posts, cur'[v][q].liked
        PROVE  cur[v][q].liked \/ (v = u /\ q = p)
    <2>1. PICK E \in SUBSET rel[u] : Liked(u, p, E)
      BY <1>2, LikeMoves
    <2>2. /\ \A x \in E : ready[x] = "1" => cur'[u][x].liked = FALSE
          /\ \A x \in Posts : x # p /\ (x \notin E \/ ready[x] # "1") => cur'[u][x] = cur[u][x]
          /\ \A y \in Users : y # u => cur'[y] = cur[y]
      BY <2>1 DEF Liked, Only
    <2>3. CASE v # u
      BY <1>2, <2>2, <2>3
    <2>4. CASE v = u /\ q # p
      BY <1>2, <2>2, <2>4
    <2> QED
      BY <2>3, <2>4
  <1>3. ASSUME Mutation
        PROVE  \E u \in Users, p \in Posts : \A v \in Users, q \in Posts :
                 cur'[v][q].liked => cur[v][q].liked \/ (v = u /\ q = p)
    <2>1. PICK u \in Users, p \in Posts : Unlike(u, p) \/ Like(u, p)
      BY <1>3 DEF Mutation
    <2>2. \A v \in Users, q \in Posts : cur'[v][q].liked => cur[v][q].liked \/ (v = u /\ q = p)
      BY <1>1, <1>2, <2>1
    <2> QED
      BY <2>2
  <1> QED
    BY <1>3, HistoryFrame

LEMMA FiniteStep ==
  ASSUME TypeOK, ShapeInv, FiniteInv, FenceInv, LoadedInv, SweepInv, Next
  PROVE  FiniteInv'
  <1>1. ASSUME NEW u \in Users PROVE IsFiniteSet(rel'[u])
    <2>0. IsFiniteSet(rel[u])
      BY DEF FiniteInv
    <2>1. ASSUME rel'[u] \subseteq rel[u] PROVE IsFiniteSet(rel'[u])
      BY <2>0, <2>1, FS_Subset
    <2>2. ASSUME NEW v \in Users, NEW p \in Posts, Unlike(v, p) PROVE rel'[u] \subseteq rel[u]
      <3>1. Unliked(v, p)
        BY <2>2, UnlikeMoves
      <3> QED
        BY <3>1 DEF Only, Unliked
    <2>3. ASSUME NEW v \in Users, NEW p \in Posts, Like(v, p) PROVE IsFiniteSet(rel'[u])
      <3>1. PICK E \in SUBSET rel[v] : Liked(v, p, E)
        BY <2>3, LikeMoves
      <3>2. rel'[v] = (rel[v] \ E) \cup {p} /\ \A x \in Users : x # v => rel'[x] = rel[x]
        BY <3>1 DEF Liked, Only
      <3>3. IsFiniteSet(rel[u] \cup {p})
        BY <2>0, FS_AddElement
      <3>4. rel'[u] \subseteq rel[u] \cup {p}
        BY <3>2
      <3> QED
        BY <3>3, <3>4, FS_Subset
    <2>4. ASSUME NEW v \in Users, Expire(v) PROVE rel'[u] \subseteq rel[u]
      BY <2>4, ExpireMoves DEF Only
    <2>5. ASSUME NEW r \in Restorers, FinishRestore(r) PROVE IsFiniteSet(rel'[u])
      <3>1. restore[r].phase = "loaded" /\ (rel'[u] = rel[u] \/ rel'[u] = restore[r].temp)
        BY <2>5, FinishMoves DEF Only
      <3>2. IsFiniteSet(restore[r].temp)
        BY <3>1 DEF LoadedInv
      <3> QED
        BY <2>0, <3>1, <3>2
    <2>6. ASSUME RemoveRelations PROVE rel'[u] \subseteq rel[u]
      BY <2>6, RemoveMoves DEF Only
    <2> QED
      BY <2>0, <2>1, <2>2, <2>3, <2>4, <2>5, <2>6, RelationFrame DEF Mutation
  <1>2. ASSUME NEW u \in Users PROVE IsFiniteSet({p \in Posts : cur'[u][p].liked})
    <2> DEFINE S == {p \in Posts : cur[u][p].liked}
               T == {p \in Posts : cur'[u][p].liked}
    <2>0. IsFiniteSet(S)
      BY DEF FiniteInv
    <2>2. T \subseteq S \/ \E p \in Posts : T \subseteq S \cup {p}
      BY OneLike
    <2> HIDE DEF S, T
    <2>3. ASSUME NEW p \in Posts, T \subseteq S \cup {p} PROVE IsFiniteSet(T)
      <3>1. IsFiniteSet(S \cup {p})
        BY <2>0, FS_AddElement
      <3> QED
        BY <2>3, <3>1, FS_Subset
    <2>4. IsFiniteSet(T)
      BY <2>0, <2>2, <2>3, FS_Subset
    <2> QED
      BY <2>4 DEF T
  <1>3. ASSUME NEW u \in Users PROVE IsFiniteSet({p \in Posts : row'[u][p].liked})
    <2> DEFINE S == {p \in Posts : row[u][p].liked}
               T == {p \in Posts : row'[u][p].liked}
    <2>0. IsFiniteSet(S)
      BY DEF FiniteInv
    <2>1. ASSUME NEW v \in Users, NEW p \in Posts, Project(v, p) PROVE T \subseteq S \cup {p}
      BY <2>1, ProjectMoves
    <2>2. T \subseteq S \/ \E p \in Posts : T \subseteq S \cup {p}
      BY <2>1, HistoryFrame
    <2> HIDE DEF S, T
    <2>3. ASSUME NEW p \in Posts, T \subseteq S \cup {p} PROVE IsFiniteSet(T)
      <3>1. IsFiniteSet(S \cup {p})
        BY <2>0, FS_AddElement
      <3> QED
        BY <2>3, <3>1, FS_Subset
    <2>4. IsFiniteSet(T)
      BY <2>0, <2>2, <2>3, FS_Subset
    <2> QED
      BY <2>4 DEF T
  <1>4. ASSUME NEW p \in Posts PROVE IsFiniteSet({u \in Users : cur'[u][p].liked})
    <2> DEFINE S == {u \in Users : cur[u][p].liked}
               T == {u \in Users : cur'[u][p].liked}
    <2>0. IsFiniteSet(S)
      BY DEF FiniteInv
    <2>2. T \subseteq S \/ \E u \in Users : T \subseteq S \cup {u}
      BY OneLike
    <2> HIDE DEF S, T
    <2>3. ASSUME NEW u \in Users, T \subseteq S \cup {u} PROVE IsFiniteSet(T)
      <3>1. IsFiniteSet(S \cup {u})
        BY <2>0, FS_AddElement
      <3> QED
        BY <2>3, <3>1, FS_Subset
    <2>4. IsFiniteSet(T)
      BY <2>0, <2>2, <2>3, FS_Subset
    <2> QED
      BY <2>4 DEF T
  <1> QED
    BY <1>1, <1>2, <1>3, <1>4 DEF FiniteInv

-----------------------------------------------------------------------------
(* The two indexes, cold users and the fence.                              *)

LEMMA AgreeStep ==
  ASSUME TypeOK, ShapeInv, FiniteInv, ShapesAgree, FenceInv, LoadedInv, SweepInv, Next, NEW u \in Users, present'[u]
  PROVE  DOMAIN order'[u] = rel'[u] /\ Cardinality(rel'[u]) <= Cap
  <1> DEFINE G == DOMAIN order'[u] = rel'[u] /\ Cardinality(rel'[u]) <= Cap
  <1>o. order[u] \in Index /\ IsFiniteSet(rel[u]) /\ Cardinality(rel[u]) \in Nat
    BY FS_CardinalityType DEF ShapeInv, FiniteInv
  <1>0. ASSUME present[u], rel'[u] = rel[u], order'[u] = order[u] PROVE G
    BY <1>0 DEF ShapesAgree, Consistent
  <1>1. ASSUME NEW v \in Users, v # u, Only(v) PROVE G
    BY <1>0, <1>1 DEF Only
  <1>2. ASSUME NEW R, R \subseteq rel[u], present[u], rel'[u] = rel[u] \ R, order'[u] = Without(order[u], R) PROVE G
    <2>1. DOMAIN order[u] = rel[u] /\ Cardinality(rel[u]) <= Cap
      BY <1>2 DEF ShapesAgree, Consistent
    <2>2. DOMAIN order'[u] = rel'[u]
      <3>1. DOMAIN Without(order[u], R) = DOMAIN order[u] \ R
        BY <1>o, WithoutIndex
      <3> QED
        BY <1>2, <2>1, <3>1
    <2>3. rel'[u] \subseteq rel[u]
      BY <1>2
    <2>4. IsFiniteSet(rel'[u]) /\ Cardinality(rel'[u]) <= Cardinality(rel[u]) /\ Cardinality(rel'[u]) \in Nat
      BY <1>o, <2>3, FS_Subset, FS_CardinalityType
    <2> QED
      BY <1>o, <2>1, <2>2, <2>4
  <1>3. ASSUME NEW p \in Posts, Unlike(u, p) PROVE G
    <2>1. {p} \subseteq rel[u] /\ present[u] /\ rel'[u] = rel[u] \ {p} /\ order'[u] = Without(order[u], {p})
      <3>1. Unliked(u, p)
        BY <1>3, UnlikeMoves
      <3> QED
        BY <3>1 DEF Unliked
    <2> QED
      BY <1>2, <2>1
  <1>4. ASSUME NEW p \in Posts, Like(u, p) PROVE G
    <2>1. PICK E \in SUBSET rel[u] : Liked(u, p, E)
      BY <1>4, LikeMoves
    <2>2. /\ present[u] /\ Consistent(u) /\ p \notin rel[u]
          /\ (E = {} /\ Cardinality(rel[u]) < Cap) \/ \E e \in rel[u] : E = {e}
          /\ rel'[u] = (rel[u] \ E) \cup {p} /\ DOMAIN order'[u] = (rel[u] \ E) \cup {p}
      BY <2>1 DEF Liked
    <2>3. Cardinality(rel[u]) <= Cap
      BY <2>2 DEF Consistent
    <2>4. CASE E = {} /\ Cardinality(rel[u]) < Cap
      <3>1. rel'[u] = rel[u] \cup {p}
        BY <2>2, <2>4
      <3>2. Cardinality(rel[u] \cup {p}) = Cardinality(rel[u]) + 1
        <4>1. p \notin rel[u]
          BY <2>2
        <4> QED
          <5>1. IsFiniteSet(rel[u])
            BY <1>o
          <5>2. Cardinality(rel[u] \cup {p}) = IF p \in rel[u] THEN Cardinality(rel[u]) ELSE Cardinality(rel[u]) + 1
            BY <5>1, FS_AddElement
          <5> QED
            BY <4>1, <5>2
      <3> QED
        BY <1>o, <2>2, <2>4, <3>1, <3>2
    <2>5. ASSUME NEW e \in rel[u], E = {e} PROVE G
      <3>1. IsFiniteSet(rel[u] \ {e}) /\ Cardinality(rel[u] \ {e}) = Cardinality(rel[u]) - 1
        BY <1>o, FS_RemoveElement
      <3>2. p \notin rel[u] \ {e}
        BY <2>2
      <3>3. Cardinality((rel[u] \ {e}) \cup {p}) = Cardinality(rel[u] \ {e}) + 1
        BY <3>1, <3>2, FS_AddElement
      <3>4. Cardinality(rel'[u]) = Cardinality(rel[u])
        BY <1>o, <2>2, <2>5, <3>1, <3>3
      <3> QED
        BY <2>2, <2>3, <3>4
    <2> QED
      BY <2>2, <2>4, <2>5
  <1>5. ASSUME NEW v \in Users, Expire(v) PROVE G
    <2>1. Only(v) /\ v # u
      BY <1>5, ExpireMoves
    <2> QED
      BY <1>1, <2>1
  <1>6. ASSUME NEW r \in Restorers, FinishRestore(r) PROVE G
    <2>1. CASE UNCHANGED <<present, rel, order, ledger, lock>>
      BY <1>0, <2>1
    <2>2. CASE ~UNCHANGED <<present, rel, order, ledger, lock>>
      <3>1. /\ restore[r].phase = "loaded" /\ Only(restore[r].user)
            /\ restore[r].user \in Users
            /\ rel'[restore[r].user] = restore[r].temp
            /\ order'[restore[r].user] = restore[r].score
        BY <1>6, <2>2, FinishMoves
      <3>2. DOMAIN restore[r].score = restore[r].temp /\ Cardinality(restore[r].temp) <= Cap
        BY <3>1 DEF LoadedInv
      <3>3. CASE restore[r].user = u
        BY <3>1, <3>2, <3>3
      <3>4. CASE restore[r].user # u
        BY <1>1, <3>1, <3>4
      <3> QED
        BY <3>3, <3>4
    <2> QED
      BY <2>1, <2>2
  <1>7. ASSUME RemoveRelations PROVE G
    <2>p. present[u]
      BY <1>7 DEF RemoveRelations
    <2>1. CASE UNCHANGED <<rel, order>>
      BY <1>0, <2>p, <2>1
    <2>2. CASE ~UNCHANGED <<rel, order>>
      <3>1. PICK R \in SUBSET (rel[sweep.user] \cap sqlDeleted) :
              /\ sweep.user \in Users /\ Only(sweep.user)
              /\ rel'[sweep.user] = rel[sweep.user] \ R /\ order'[sweep.user] = Without(order[sweep.user], R)
        BY <1>7, <2>2, RemoveMoves
      <3>2. CASE sweep.user = u
        BY <1>2, <2>p, <3>1, <3>2
      <3>3. CASE sweep.user # u
        BY <1>1, <3>1, <3>3
      <3> QED
        BY <3>2, <3>3
    <2> QED
      BY <2>1, <2>2
  <1>8. ASSUME NEW v \in Users, NEW p \in Posts, Unlike(v, p) \/ Like(v, p) PROVE v = u \/ Only(v)
    <2>1. ASSUME Unlike(v, p) PROVE Only(v)
      <3>1. Unliked(v, p)
        BY <2>1, UnlikeMoves
      <3> QED
        BY <3>1 DEF Unliked
    <2>2. ASSUME Like(v, p) PROVE Only(v)
      <3>1. PICK E \in SUBSET rel[v] : Liked(v, p, E)
        BY <2>2, LikeMoves
      <3> QED
        BY <3>1 DEF Liked
    <2> QED
      BY <1>8, <2>1, <2>2
  <1>9. CASE UNCHANGED <<rel, order>> /\ UNCHANGED present
    BY <1>0, <1>9
  <1> HIDE DEF G
  <1>10. G
    <2>1. CASE Mutation
      BY <1>1, <1>3, <1>4, <1>8, <2>1 DEF Mutation
    <2> QED
      BY <1>5, <1>6, <1>7, <1>9, <2>1, RelationFrame DEF G
  <1> QED
    BY <1>10 DEF G

\* A step that changes what a user said finds the user's set there.
LEMMA ChangeNeedsSet ==
  ASSUME TypeOK, ShapeInv, FiniteInv, Next, NEW u \in Users, cur'[u] # cur[u]
  PROVE  present[u] /\ UNCHANGED present
  <1>1. PICK v \in Users, p \in Posts : Unlike(v, p) \/ Like(v, p)
    BY HistoryFrame DEF Mutation
  <1>2. present[v] /\ UNCHANGED present
    BY <1>1 DEF Unlike, Like, Servable
  <1>3. Only(v)
    <2>1. CASE Unlike(v, p)
      <3>1. Unliked(v, p)
        BY <2>1, UnlikeMoves
      <3> QED
        BY <3>1 DEF Unliked
    <2>2. CASE Like(v, p)
      <3>1. PICK E \in SUBSET rel[v] : Liked(v, p, E)
        BY <2>2, LikeMoves
      <3> QED
        BY <3>1 DEF Liked
    <2> QED
      BY <1>1, <2>1, <2>2
  <1>4. u = v
    BY <1>3 DEF Only
  <1> QED
    BY <1>2, <1>4

\* While a user is cold, neither Redis nor SQL changes its facts.
LEMMA ColdStays ==
  ASSUME TypeOK, ShapeInv, FiniteInv, ColdInv, Next, NEW u \in Users, ~present[u]
  PROVE  cur'[u] = cur[u] /\ row'[u] = row[u]
  <1>1. cur'[u] = cur[u]
    BY ChangeNeedsSet
  <1>2. ASSUME NEW v \in Users, NEW p \in Posts, Project(v, p) PROVE row'[u] = row[u]
    <2>1. row[u] = cur[u]
      BY DEF ColdInv
    <2>2. row[v][p] # cur[v][p] /\ \A x \in Users : x # v => row'[x] = row[x]
      BY <1>2, ProjectMoves
    <2> QED
      BY <2>1, <2>2
  <1> QED
    BY <1>1, <1>2, HistoryFrame

LEMMA ColdStep ==
  ASSUME TypeOK, ShapeInv, FiniteInv, ColdInv, FenceInv, Next, NEW u \in Users, ~present'[u]
  PROVE  row'[u] = cur'[u]
  <1>1. CASE ~present[u]
    BY <1>1, ColdStays DEF ColdInv
  <1>2. CASE present[u]
    <2>1. ASSUME NEW v \in Users, Expire(v) PROVE row'[u] = cur'[u]
      <3>1. u = v
        BY <1>2, <2>1, ExpireMoves DEF Only
      <3>2. row[u] = cur[u] /\ UNCHANGED <<row, cur>>
        BY <2>1, <3>1 DEF Expire
      <3> QED
        BY <3>2
    <2>2. ASSUME NEW r \in Restorers, FinishRestore(r) PROVE FALSE
      <3>1. present'[u] = present[u] \/ present'[u]
        BY <2>2, FinishMoves DEF Only
      <3> QED
        BY <1>2, <3>1
    <2>3. ~UNCHANGED present
      BY <1>2
    <2> QED
      BY <2>1, <2>2, <2>3, RelationFrame
  <1> QED
    BY <1>1, <1>2

\* The fence of a request that keeps its user and its deadline.
LEMMA FenceKept ==
  ASSUME TypeOK, ShapeInv, FenceInv, Next, NEW u \in Users, NEW x \in 0..MaxArms,
         x <= ledger[u], x = ledger[u] => ~present[u]
  PROVE  /\ x <= ledger'[u]
         /\ x = ledger'[u] => x = ledger[u] /\ ~present[u] /\ ~present'[u]
  <1>1. /\ ledger'[u] = ledger[u] \/ ledger'[u] = ledger[u] + 1
        /\ present'[u] /\ ~present[u] => ledger'[u] = ledger[u] + 1
    BY LedgerFrame
  <1>2. ledger[u] \in Nat
    BY DEF TypeOK
  <1> QED
    BY <1>1, <1>2

LEMMA FenceStep ==
  ASSUME TypeOK, ShapeInv, FiniteInv, FenceInv, Next
  PROVE  FenceInv'
  <1> SUFFICES ASSUME NEW r \in Restorers, restore'[r].phase # "idle"
               PROVE  /\ restore'[r].user \in Users
                      /\ restore'[r].expiry <= ledger'[restore'[r].user]
                      /\ restore'[r].expiry = ledger'[restore'[r].user] => ~present'[restore'[r].user]
    BY DEF FenceInv
  <1>1. ASSUME restore[r].phase # "idle", restore'[r].user = restore[r].user, restore'[r].expiry = restore[r].expiry
        PROVE  /\ restore'[r].user \in Users
               /\ restore'[r].expiry <= ledger'[restore'[r].user]
               /\ restore'[r].expiry = ledger'[restore'[r].user] => ~present'[restore'[r].user]
    <2>1. PICK u \in Users : u = restore[r].user
      BY <1>1 DEF FenceInv
    <2>2. restore[r].expiry <= ledger[u] /\ (restore[r].expiry = ledger[u] => ~present[u])
      BY <1>1, <2>1 DEF FenceInv
    <2>3. restore[r].expiry \in 0..MaxArms
      BY DEF ShapeInv, Request
    <2>4. restore[r].expiry <= ledger'[u] /\ (restore[r].expiry = ledger'[u] => ~present'[u])
      BY <2>2, <2>3, FenceKept
    <2> QED
      BY <1>1, <2>1, <2>4
  <1>2. CASE restore'[r] = restore[r]
    BY <1>1, <1>2
  <1>3. ASSUME NEW u \in Users, BeginRestore(r, u)
        PROVE  /\ restore'[r].user \in Users
               /\ restore'[r].expiry <= ledger'[restore'[r].user]
               /\ restore'[r].expiry = ledger'[restore'[r].user] => ~present'[restore'[r].user]
    <2>1. restore'[r] = [phase |-> "locked", user |-> u, expiry |-> ledger[u], temp |-> {}, score |-> <<>>] /\ ~present[u]
      BY <1>3, BeginMoves
    <2>2. UNCHANGED <<ledger, present>>
      BY <1>3 DEF BeginRestore
    <2>3. restore'[r].user = u /\ restore'[r].expiry = ledger[u]
      BY <2>1
    <2>4. ledger[u] \in Nat
      BY DEF TypeOK
    <2> QED
      BY <2>1, <2>2, <2>3, <2>4
  <1>4. CASE LoadRelations(r)
    <2>1. restore[r].phase = "temp" /\ restore'[r].user = restore[r].user /\ restore'[r].expiry = restore[r].expiry
      BY <1>4, LoadMoves
    <2> QED
      BY <1>1, <2>1
  <1>5. CASE CreateTemp(r) \/ FinishRestore(r) \/ RestoreFails(r) \/ ReleaseRestore(r) \/ RestoreCrash(r)
    BY <1>1, <1>5, PhaseMoves
  <1> QED
    BY <1>2, <1>3, <1>4, <1>5, RequestFrame

LEMMA LoadedStep ==
  ASSUME TypeOK, ShapeInv, FiniteInv, ColdInv, FenceInv, LoadedInv, PostInv, Next, NEW r \in Restorers,
         restore'[r].phase = "loaded"
  PROVE  /\ DOMAIN restore'[r].score = restore'[r].temp
         /\ IsFiniteSet(restore'[r].temp) /\ Cardinality(restore'[r].temp) <= Cap
         /\ restore'[r].expiry = ledger'[restore'[r].user] =>
              \A p \in Posts \ sqlDeleted' :
                /\ p \in restore'[r].temp <=> row'[restore'[r].user][p].liked
                /\ p \in restore'[r].temp => restore'[r].score[p] = row'[restore'[r].user][p].at
  <1>1. CASE restore'[r] = restore[r]
    <2>1. PICK u \in Users : u = restore[r].user
      BY <1>1 DEF FenceInv
    <2>2. /\ DOMAIN restore[r].score = restore[r].temp
          /\ IsFiniteSet(restore[r].temp) /\ Cardinality(restore[r].temp) <= Cap
          /\ restore[r].expiry = ledger[u] =>
               \A p \in Posts \ sqlDeleted :
                 /\ p \in restore[r].temp <=> row[u][p].liked
                 /\ p \in restore[r].temp => restore[r].score[p] = row[u][p].at
      BY <1>1, <2>1 DEF LoadedInv
    <2>3. restore[r].expiry <= ledger[u] /\ (restore[r].expiry = ledger[u] => ~present[u])
      BY <1>1, <2>1 DEF FenceInv
    <2>4. restore[r].expiry \in 0..MaxArms
      BY DEF ShapeInv, Request
    <2>5. ASSUME restore[r].expiry = ledger'[u]
          PROVE  \A p \in Posts \ sqlDeleted' :
                   /\ p \in restore[r].temp <=> row'[u][p].liked
                   /\ p \in restore[r].temp => restore[r].score[p] = row'[u][p].at
      <3>1. restore[r].expiry = ledger[u] /\ ~present[u]
        BY <2>3, <2>4, <2>5, FenceKept
      <3>2. row'[u] = row[u]
        BY <3>1, ColdStays
      <3>3. sqlDeleted \subseteq sqlDeleted'
        BY PostFrame
      <3> QED
        BY <2>2, <3>1, <3>2, <3>3
    <2> QED
      BY <1>1, <2>1, <2>2, <2>5
  <1>2. CASE LoadRelations(r)
    <2> DEFINE u == restore[r].user
               S == {p \in Posts : row[u][p].liked /\ p \notin sqlDeleted}
    <2>1. /\ restore'[r].user = u
          /\ restore'[r].temp = S /\ IsFiniteSet(S) /\ Cardinality(S) <= Cap
          /\ DOMAIN restore'[r].score = S
          /\ \A p \in S : restore'[r].score[p] = row[u][p].at
      BY <1>2, LoadMoves
    <2>2. UNCHANGED <<row, sqlDeleted>>
      BY <1>2 DEF LoadRelations
    <2> QED
      BY <2>1, <2>2
  <1>3. ASSUME NEW u \in Users, BeginRestore(r, u) PROVE FALSE
    <2>1. restore'[r] = [phase |-> "locked", user |-> u, expiry |-> ledger[u], temp |-> {}, score |-> <<>>]
      BY <1>3, BeginMoves
    <2> QED
      BY <2>1
  <1>4. ASSUME CreateTemp(r) \/ FinishRestore(r) \/ RestoreFails(r) \/ ReleaseRestore(r) \/ RestoreCrash(r) PROVE FALSE
    BY <1>4, PhaseMoves
  <1> QED
    BY <1>1, <1>2, <1>3, <1>4, RequestFrame

-----------------------------------------------------------------------------
(* Redis says what the user last said, and the counts count it.            *)

LEMMA FaithfulStep ==
  ASSUME TypeOK, ShapeInv, FiniteInv, ShapesAgree, ColdInv, FenceInv, LoadedInv, RestoreIsFaithful, SweepInv, PostInv, Next,
         NEW u \in Users, NEW p \in Posts, present'[u], ready'[p] = "1", p \notin sqlDeleted'
  PROVE  /\ p \in rel'[u] <=> cur'[u][p].liked
         /\ p \in rel'[u] => order'[u][p] = cur'[u][p].at
  <1> DEFINE G == /\ p \in rel'[u] <=> cur'[u][p].liked
                  /\ p \in rel'[u] => order'[u][p] = cur'[u][p].at
  <1>s. ready[p] = "1" /\ p \notin sqlDeleted
    BY PostFrame
  <1>f. present[u] => /\ p \in rel[u] <=> cur[u][p].liked
                      /\ p \in rel[u] => order[u][p] = cur[u][p].at
    BY <1>s DEF RestoreIsFaithful
  <1>a. present[u] => DOMAIN order[u] = rel[u] /\ order[u] \in Index
    BY DEF ShapesAgree, Consistent, ShapeInv
  <1>0. ASSUME present[u], rel'[u] = rel[u], order'[u] = order[u], cur'[u] = cur[u] PROVE G
    BY <1>0, <1>f
  <1>1. ASSUME NEW v \in Users, v # u, Only(v) PROVE G
    <2>1. present[u] /\ rel'[u] = rel[u] /\ order'[u] = order[u] /\ cur'[u] = cur[u]
      BY <1>1 DEF Only
    <2> QED
      BY <1>0, <2>1
  <1>2. ASSUME NEW q \in Posts, Unlike(u, q) PROVE G
    <2>0. Unliked(u, q)
      BY <1>2, UnlikeMoves
    <2>1. /\ present[u] /\ rel'[u] = rel[u] \ {q} /\ order'[u] = Without(order[u], {q})
          /\ cur'[u][q].liked = FALSE /\ \A x \in Posts : x # q => cur'[u][x] = cur[u][x]
      BY <2>0 DEF Unliked
    <2>2. CASE p = q
      BY <2>1, <2>2
    <2>3. CASE p # q
      <3>1. cur'[u][p] = cur[u][p] /\ (p \in rel'[u] <=> p \in rel[u])
        BY <2>1, <2>3
      <3>2. ASSUME p \in rel[u] PROVE order'[u][p] = order[u][p]
        <4>1. order[u] \in Index /\ p \in DOMAIN order[u] \ {q}
          BY <1>a, <2>1, <2>3, <3>2
        <4>2. \A x \in DOMAIN order[u] \ {q} : Without(order[u], {q})[x] = order[u][x]
          BY <4>1, WithoutIndex
        <4> QED
          BY <2>1, <4>1, <4>2
      <3> QED
        BY <1>f, <2>1, <3>1, <3>2
    <2> QED
      BY <2>2, <2>3
  <1>3. ASSUME NEW q \in Posts, Like(u, q) PROVE G
    <2>1. PICK E \in SUBSET rel[u] : Liked(u, q, E)
      BY <1>3, LikeMoves
    <2>2. /\ present[u] /\ rel'[u] = (rel[u] \ E) \cup {q}
          /\ order'[u][q] = cur'[u][q].at /\ \A x \in rel[u] \ E : order'[u][x] = order[u][x]
          /\ cur'[u][q].liked = TRUE /\ q \notin rel[u]
      BY <2>1 DEF Liked
    <2>3. /\ \A x \in E : ready[x] = "1" => cur'[u][x].liked = FALSE
          /\ \A x \in Posts : x # q /\ (x \notin E \/ ready[x] # "1") => cur'[u][x] = cur[u][x]
      BY <2>1 DEF Liked
    <2>4. CASE p = q
      BY <2>2, <2>4
    <2>5. CASE p # q /\ p \in E
      <3>1. p \notin rel'[u] /\ cur'[u][p].liked = FALSE
        BY <1>s, <2>2, <2>3, <2>5
      <3> QED
        BY <3>1
    <2>6. CASE p # q /\ p \notin E
      <3>1. (p \in rel'[u] <=> p \in rel[u]) /\ cur'[u][p] = cur[u][p]
        BY <2>2, <2>3, <2>6
      <3>2. p \in rel[u] => order'[u][p] = order[u][p]
        BY <2>2, <2>6
      <3> QED
        BY <1>f, <2>2, <3>1, <3>2
    <2> QED
      BY <2>4, <2>5, <2>6
  <1>4. ASSUME NEW v \in Users, Expire(v) PROVE G
    <2>1. Only(v) /\ v # u
      BY <1>4, ExpireMoves
    <2> QED
      BY <1>1, <2>1
  <1>5. ASSUME NEW r \in Restorers, FinishRestore(r) PROVE G
    <2>c. UNCHANGED <<cur, sqlDeleted>>
      BY <1>5 DEF FinishRestore
    <2>1. CASE UNCHANGED <<present, rel, order, ledger, lock>>
      BY <1>0, <2>1, <2>c
    <2>2. CASE ~UNCHANGED <<present, rel, order, ledger, lock>>
      <3>1. /\ restore[r].phase = "loaded" /\ restore[r].user \in Users /\ Only(restore[r].user)
            /\ ~present[restore[r].user] /\ ledger[restore[r].user] = restore[r].expiry
            /\ rel'[restore[r].user] = restore[r].temp /\ order'[restore[r].user] = restore[r].score
        BY <1>5, <2>2, FinishMoves
      <3>2. CASE restore[r].user = u
        <4>1. /\ p \in restore[r].temp <=> row[u][p].liked
              /\ p \in restore[r].temp => restore[r].score[p] = row[u][p].at
          BY <1>s, <3>1, <3>2 DEF LoadedInv
        <4>2. row[u] = cur[u]
          BY <3>1, <3>2 DEF ColdInv
        <4> QED
          BY <2>c, <3>1, <3>2, <4>1, <4>2
      <3>3. CASE restore[r].user # u
        BY <1>1, <3>1, <3>3
      <3> QED
        BY <3>2, <3>3
    <2> QED
      BY <2>1, <2>2
  <1>6. ASSUME RemoveRelations PROVE G
    <2>c. UNCHANGED <<cur, present>>
      BY <1>6 DEF RemoveRelations
    <2>1. CASE UNCHANGED <<rel, order>>
      BY <1>0, <2>1, <2>c
    <2>2. CASE ~UNCHANGED <<rel, order>>
      <3>1. PICK R \in SUBSET (rel[sweep.user] \cap sqlDeleted) :
              /\ \A q \in R : ready[q] # "1"
              /\ sweep.user \in Users /\ Only(sweep.user)
              /\ rel'[sweep.user] = rel[sweep.user] \ R /\ order'[sweep.user] = Without(order[sweep.user], R)
        BY <1>6, <2>2, RemoveMoves
      <3>2. CASE sweep.user = u
        <4>1. p \notin R
          BY <1>s, <3>1
        <4>2. p \in rel'[u] <=> p \in rel[u]
          BY <3>1, <3>2, <4>1
        <4>3. ASSUME p \in rel[u] PROVE order'[u][p] = order[u][p]
          <5>1. order[u] \in Index /\ p \in DOMAIN order[u] \ R
            BY <1>a, <2>c, <4>1, <4>3
          <5>2. \A x \in DOMAIN order[u] \ R : Without(order[u], R)[x] = order[u][x]
            BY <5>1, WithoutIndex
          <5> QED
            BY <3>1, <3>2, <5>1, <5>2
        <4> QED
          BY <1>f, <2>c, <4>2, <4>3
      <3>3. CASE sweep.user # u
        BY <1>1, <3>1, <3>3
      <3> QED
        BY <3>2, <3>3
    <2> QED
      BY <2>1, <2>2
  <1>7. ASSUME NEW v \in Users, NEW q \in Posts, Unlike(v, q) \/ Like(v, q) PROVE v = u \/ Only(v)
    <2>1. ASSUME Unlike(v, q) PROVE Only(v)
      <3>1. Unliked(v, q)
        BY <2>1, UnlikeMoves
      <3> QED
        BY <3>1 DEF Unliked
    <2>2. ASSUME Like(v, q) PROVE Only(v)
      <3>1. PICK E \in SUBSET rel[v] : Liked(v, q, E)
        BY <2>2, LikeMoves
      <3> QED
        BY <3>1 DEF Liked
    <2> QED
      BY <1>7, <2>1, <2>2
  <1> HIDE DEF G
  <1>8. G
    <2>1. ASSUME Mutation PROVE G
      BY <1>1, <1>2, <1>3, <1>7, <2>1 DEF Mutation
    <2>2. ASSUME UNCHANGED <<rel, order>>, UNCHANGED present, UNCHANGED cur PROVE G
      BY <1>0, <2>2
    <2> QED
      BY <1>4, <1>5, <1>6, <2>1, <2>2, RelationFrame, HistoryFrame
  <1> QED
    BY <1>8 DEF G

LEMMA CountStep ==
  ASSUME TypeOK, ShapeInv, FiniteInv, RestoreIsFaithful, CountInv, PostInv, Next,
         NEW p \in Posts, ready'[p] = "1", p \notin sqlDeleted'
  PROVE  count'[p] = Cardinality({u \in Users : cur'[u][p].liked})
  <1> DEFINE S == {u \in Users : cur[u][p].liked}
             T == {u \in Users : cur'[u][p].liked}
  <1>s. ready[p] = "1" /\ p \notin sqlDeleted
    BY PostFrame
  <1>c. count[p] = Cardinality(S) /\ IsFiniteSet(S) /\ Cardinality(S) \in Nat
    <2>1. count[p] = Cardinality(S) /\ IsFiniteSet(S)
      BY <1>s DEF CountInv, FiniteInv
    <2> HIDE DEF S
    <2> QED
      BY <2>1, FS_CardinalityType
  <1>b. \A u \in Users : cur[u][p].liked \in BOOLEAN
    BY DEF TypeOK, Fact
  <1>0. ASSUME count'[p] = count[p], \A u \in Users : cur'[u][p] = cur[u][p] PROVE count'[p] = Cardinality(T)
    <2>1. S = T
      BY <1>0
    <2> HIDE DEF S, T
    <2> QED
      BY <1>0, <1>c, <2>1
  <1>1. ASSUME NEW u \in Users, u \in S, count'[p] = count[p] - 1, cur'[u][p].liked = FALSE,
               \A v \in Users : v # u => cur'[v] = cur[v]
        PROVE  count'[p] = Cardinality(T)
    <2>1. T = S \ {u}
      BY <1>1
    <2> HIDE DEF S, T
    <2>2. Cardinality(S \ {u}) = Cardinality(S) - 1
      BY <1>1, <1>c, FS_RemoveElement
    <2> QED
      BY <1>1, <1>c, <2>1, <2>2
  <1>2. ASSUME NEW u \in Users, u \notin S, count'[p] = count[p] + 1, cur'[u][p].liked = TRUE,
               \A v \in Users : v # u => cur'[v] = cur[v]
        PROVE  count'[p] = Cardinality(T)
    <2>1. T = S \cup {u}
      BY <1>2
    <2> HIDE DEF S, T
    <2>2. Cardinality(S \cup {u}) = Cardinality(S) + 1
      BY <1>2, <1>c, FS_AddElement
    <2> QED
      BY <1>2, <1>c, <2>1, <2>2
  <1>3. ASSUME NEW u \in Users, NEW q \in Posts, Unlike(u, q) PROVE count'[p] = Cardinality(T)
    <2>0. Unliked(u, q)
      BY <1>3, UnlikeMoves
    <2>1. /\ present[u] /\ q \in rel[u] /\ cur'[u][q].liked = FALSE
          /\ (\A x \in Posts : x # q => cur'[u][x] = cur[u][x])
          /\ count'[q] = count[q] - 1 /\ (\A x \in Posts : x # q => count'[x] = count[x])
          /\ Only(u)
      BY <2>0 DEF Unliked
    <2>2. \A v \in Users : v # u => cur'[v] = cur[v]
      BY <2>1 DEF Only
    <2>3. CASE p = q
      <3>1. u \in S
        BY <1>s, <2>1, <2>3 DEF RestoreIsFaithful
      <3> HIDE DEF S, T
      <3> QED
        BY <1>1, <2>1, <2>2, <2>3, <3>1
    <2>4. CASE p # q
      <3>1. count'[p] = count[p] /\ \A v \in Users : cur'[v][p] = cur[v][p]
        BY <2>1, <2>2, <2>4
      <3> HIDE DEF S, T
      <3> QED
        BY <1>0, <3>1
    <2> QED
      BY <2>3, <2>4
  <1>4. ASSUME NEW u \in Users, NEW q \in Posts, Like(u, q) PROVE count'[p] = Cardinality(T)
    <2>0. PICK E \in SUBSET rel[u] : Liked(u, q, E)
      BY <1>4, LikeMoves
    <2>1. /\ present[u] /\ q \notin rel[u] /\ cur'[u][q].liked = TRUE /\ count'[q] = count[q] + 1
          /\ \A x \in E : ready[x] = "1" => cur'[u][x].liked = FALSE /\ count'[x] = count[x] - 1
      BY <2>0 DEF Liked
    <2>2. /\ \A x \in Posts : x # q /\ (x \notin E \/ ready[x] # "1") => cur'[u][x] = cur[u][x]
          /\ \A x \in Posts : x # q /\ x \notin E => count'[x] = count[x]
          /\ \A v \in Users : v # u => cur'[v] = cur[v]
      BY <2>0 DEF Liked, Only
    <2>3. CASE p = q
      <3>1. u \notin S
        BY <1>s, <2>1, <2>3 DEF RestoreIsFaithful
      <3> HIDE DEF S, T
      <3> QED
        BY <1>2, <2>1, <2>2, <2>3, <3>1
    <2>4. CASE p # q /\ p \in E
      <3>1. u \in S
        BY <1>s, <2>1, <2>4 DEF RestoreIsFaithful
      <3>2. count'[p] = count[p] - 1 /\ cur'[u][p].liked = FALSE
        BY <1>s, <2>1, <2>4
      <3> HIDE DEF S, T
      <3> QED
        BY <1>1, <2>2, <3>1, <3>2
    <2>5. CASE p # q /\ p \notin E
      <3>1. count'[p] = count[p] /\ \A v \in Users : cur'[v][p] = cur[v][p]
        BY <2>2, <2>5
      <3> HIDE DEF S, T
      <3> QED
        BY <1>0, <3>1
    <2> QED
      BY <2>3, <2>4, <2>5
  <1>5. ASSUME NEW q \in Posts, PurgePost(q), UNCHANGED cur PROVE count'[p] = Cardinality(T)
    <2>1. p # q /\ count' = [count EXCEPT ![q] = 0]
      BY <1>5, <1>s DEF PurgePost
    <2>2. count'[p] = count[p] /\ \A v \in Users : cur'[v][p] = cur[v][p]
      BY <1>5, <2>1 DEF TypeOK
    <2> HIDE DEF S, T
    <2> QED
      BY <1>0, <2>2
  <1>6. ASSUME UNCHANGED count, UNCHANGED cur PROVE count'[p] = Cardinality(T)
    <2>1. count'[p] = count[p] /\ \A v \in Users : cur'[v][p] = cur[v][p]
      BY <1>6
    <2> HIDE DEF S, T
    <2> QED
      BY <1>0, <2>1
  <1>7. count'[p] = Cardinality(T)
    <2> HIDE DEF S, T
    <2>1. ASSUME Mutation PROVE count'[p] = Cardinality(T)
      BY <1>3, <1>4, <2>1 DEF Mutation
    <2> QED
      BY <1>5, <1>6, <2>1, HistoryFrame
  <1> QED
    BY <1>7

-----------------------------------------------------------------------------
(* The theorems.                                                           *)

LEMMA InitInv == Init => IInv
  <1> SUFFICES ASSUME Init PROVE IInv
    OBVIOUS
  <1>f. Never \in Fact /\ Never.liked = FALSE /\ Never.at = 0
    BY DEF Never, Fact
  <1>1. /\ rel = [u \in Users |-> {}] /\ order = [u \in Users |-> <<>>] /\ present = [u \in Users |-> TRUE]
        /\ cur = [u \in Users |-> [p \in Posts |-> Never]] /\ row = [u \in Users |-> [p \in Posts |-> Never]]
        /\ restore = [r \in Restorers |-> IdleRestore] /\ sweep = IdleSweep
        /\ ready = [p \in Posts |-> "1"] /\ count = [p \in Posts |-> 0]
        /\ sqlDeleted = {} /\ purged = {} /\ ledger = [u \in Users |-> 1] /\ tick = [u \in Users |-> 0]
        /\ lock = [u \in Users |-> NoLock] /\ faults = 0
    BY DEF Init
  <1> HIDE DEF Never
  <1>2. \A u \in Users, p \in Posts : cur[u][p] = Never /\ row[u][p] = Never
    BY <1>1
  <1>3. \A u \in Users : rel[u] = {} /\ order[u] = <<>> /\ present[u]
    BY <1>1
  <1>c. Cardinality({}) = 0 /\ IsFiniteSet({})
    BY FS_EmptySet
  <1>4. StoresOK
    <2>1. count \in [Posts -> Nat] /\ present \in [Users -> BOOLEAN] /\ rel \in [Users -> SUBSET Posts]
          /\ tick \in [Users -> 0..MaxTicks]
      BY <1>1
    <2>2. order \in [Users -> Index]
      BY <1>1, EmptyIndex
    <2>3. cur \in [Users -> [Posts -> Fact]] /\ row \in [Users -> [Posts -> Fact]]
      BY <1>1, <1>f
    <2> QED
      BY <2>1, <2>2, <2>3, <1>2, <1>f DEF StoresOK
  <1>5. /\ \A r \in Restorers : restore[r] = IdleRestore
        /\ IdleRestore \in Request /\ IdleRestore.phase = "idle"
    BY <1>1, EmptyIndex DEF IdleRestore, Request
  <1>6. IdleSweep \in Sweeper /\ IdleSweep.phase = "idle"
    BY DEF IdleSweep, Sweeper
  <1>7. ShapeInv
    <2>1. restore \in [Restorers -> Request]
      BY <1>1, <1>5
    <2> QED
      BY <1>1, <1>4, <1>6, <2>1 DEF StoresOK, ShapeInv
  <1>8. FenceInv /\ LoadedInv
    BY <1>5 DEF FenceInv, LoadedInv
  <1>9. SweepInv
    BY <1>1, <1>6 DEF SweepInv
  <1>10. TypeOK
    <2>1. RestOK
      BY <1>1 DEF RestOK
    <2> QED
      BY <1>4, <1>7, <1>8, <1>9, <2>1, TypeFrom
  <1>11. \A p \in Posts : {u \in Users : cur[u][p].liked} = {}
    BY <1>2, <1>f
  <1>12. FiniteInv
    <2>1. \A u \in Users : {p \in Posts : cur[u][p].liked} = {} /\ {p \in Posts : row[u][p].liked} = {}
      BY <1>2, <1>f
    <2> QED
      BY <1>3, <1>11, <1>c, <2>1 DEF FiniteInv
  <1>13. ShapesAgree
    <2>1. ASSUME NEW u \in Users PROVE DOMAIN order[u] = rel[u] /\ Cardinality(rel[u]) <= Cap
      <3>1. DOMAIN order[u] = {} /\ rel[u] = {}
        BY <1>3, EmptyIndex
      <3> QED
        BY <3>1, <1>c
    <2> QED
      BY <2>1 DEF ShapesAgree, Consistent
  <1>14. ColdInv /\ PostInv
    BY <1>1, <1>3 DEF ColdInv, PostInv
  <1>15. RestoreIsFaithful
    BY <1>2, <1>3, <1>f DEF RestoreIsFaithful
  <1>16. CountInv
    BY <1>1, <1>11, <1>c DEF CountInv
  <1> QED
    BY <1>7, <1>8, <1>9, <1>10, <1>12, <1>13, <1>14, <1>15, <1>16 DEF IInv

LEMMA StutterInv == IInv /\ UNCHANGED vars => IInv'
  <1> SUFFICES ASSUME IInv, UNCHANGED vars PROVE IInv'
    OBVIOUS
  <1> USE DEF vars
  <1>1. TypeOK'
    BY DEF IInv, TypeOK
  <1>2. ShapeInv' /\ FiniteInv'
    BY DEF IInv, ShapeInv, FiniteInv
  <1>3. ShapesAgree' /\ ColdInv' /\ PostInv' /\ SweepInv'
    BY DEF IInv, ShapesAgree, Consistent, ColdInv, PostInv, SweepInv
  <1>4. FenceInv' /\ LoadedInv'
    BY DEF IInv, FenceInv, LoadedInv
  <1>5. RestoreIsFaithful' /\ CountInv'
    BY DEF IInv, RestoreIsFaithful, CountInv
  <1> QED
    BY <1>1, <1>2, <1>3, <1>4, <1>5 DEF IInv

LEMMA NextInv == IInv /\ Next => IInv'
  <1> SUFFICES ASSUME IInv, Next PROVE IInv'
    OBVIOUS
  <1>0. /\ TypeOK /\ ShapeInv /\ FiniteInv /\ ShapesAgree /\ ColdInv /\ FenceInv /\ LoadedInv
        /\ RestoreIsFaithful /\ CountInv /\ SweepInv /\ PostInv
    BY DEF IInv
  <1>1. StoresOK'
    BY <1>0, StoresStep
  <1>2. SweepInv' /\ sweep' \in Sweeper
    BY <1>0, SweepStep
  <1>3. ShapeInv'
    <2>1. restore' \in [Restorers -> Request]
      BY <1>0, RequestFrame
    <2> QED
      BY <1>1, <1>2, <2>1 DEF StoresOK, ShapeInv
  <1>4. FenceInv'
    BY <1>0, FenceStep
  <1>5. /\ ready' \in [Posts -> {"1", "deleted", "none"}] /\ sqlDeleted' \subseteq Posts /\ purged' \subseteq sqlDeleted'
        /\ PostInv'
    BY <1>0, PostFrame
  <1>6. ledger' \in [Users -> 0..MaxArms] /\ lock' \in [Users -> Restorers \cup {NoLock}]
    BY <1>0, LedgerFrame
  <1>7. faults' \in 0..MaxFaults
    BY <1>0, FaultStep
  <1>8. TypeOK'
    <2>1. RestOK'
      BY <1>5, <1>6, <1>7 DEF RestOK
    <2> QED
      BY <1>1, <1>2, <1>3, <1>4, <2>1, TypeFrom, PTL
  <1>9. FiniteInv'
    BY <1>0, FiniteStep
  <1>10. ShapesAgree'
    BY <1>0, AgreeStep DEF ShapesAgree, Consistent
  <1>11. ColdInv'
    BY <1>0, ColdStep DEF ColdInv
  <1>12. LoadedInv'
    BY <1>0, LoadedStep DEF LoadedInv
  <1>13. RestoreIsFaithful'
    BY <1>0, FaithfulStep DEF RestoreIsFaithful
  <1>14. CountInv'
    BY <1>0, CountStep DEF CountInv
  <1> QED
    BY <1>2, <1>3, <1>4, <1>5, <1>8, <1>9, <1>10, <1>11, <1>12, <1>13, <1>14 DEF IInv

\* The inductive invariant holds in every state of the User Like lifecycle.
THEOREM Invariant == Spec => []IInv
  <1>1. IInv /\ [Next]_vars => IInv'
    BY NextInv, StutterInv
  <1> QED
    BY InitInv, <1>1, PTL DEF Spec

\* What Redis says of a Post it serves is what the user last said, whatever
\* expired, was restored, timed out or was swept in between.
THEOREM RestoresFaithfully == Spec => []RestoreIsFaithful
  <1>1. IInv => RestoreIsFaithful
    BY DEF IInv
  <1> QED
    BY Invariant, <1>1, PTL

\* A user's set and order index agree within the cap, and the count of a served
\* Post is the number of users who like it, a cold user's Likes being in SQL.
THEOREM IndexesAgree == Spec => []RelationsAgree
  <1>1. IInv => RelationsAgree
    <2> SUFFICES ASSUME IInv PROVE RelationsAgree
      OBVIOUS
    <2>0. TypeOK /\ ShapesAgree /\ ColdInv /\ RestoreIsFaithful /\ CountInv
      BY DEF IInv
    <2>1. RelationShape
      BY <2>0 DEF RelationShape, ShapesAgree
    <2>2. ASSUME NEW p \in Posts, ready[p] = "1", p \notin sqlDeleted
          PROVE  count[p] = Cardinality({u \in Users : IF present[u] THEN p \in rel[u] ELSE row[u][p].liked})
      <3> DEFINE seen(u) == IF present[u] THEN p \in rel[u] ELSE row[u][p].liked
      <3>1. ASSUME NEW u \in Users PROVE seen(u) <=> cur[u][p].liked
        <4>1. CASE present[u]
          BY <2>0, <2>2, <4>1 DEF RestoreIsFaithful
        <4>2. CASE ~present[u]
          <5>1. row[u] = cur[u]
            BY <2>0, <4>2 DEF ColdInv
          <5> QED
            BY <4>2, <5>1
        <4> QED
          BY <4>1, <4>2
      <3>2. count[p] = Cardinality({u \in Users : cur[u][p].liked})
        BY <2>0, <2>2 DEF CountInv
      <3> HIDE DEF seen
      <3>3. {u \in Users : seen(u)} = {u \in Users : cur[u][p].liked}
        BY <3>1
      <3> QED
        BY <3>2, <3>3 DEF seen
    <2> QED
      BY <2>1, <2>2 DEF RelationsAgree, CountMatchesRelations
  <1> QED
    BY Invariant, <1>1, PTL

\* Only RemoveRelations and a crash end a sweep, and a crash removes nothing.
LEMMA SweepEnds ==
  ASSUME Next, sweep.phase = "checked", sweep'.phase = "idle"
  PROVE  RemoveRelations \/ UNCHANGED rel
  <1>0. ~UNCHANGED sweep
    OBVIOUS
  <1>1. ASSUME NEW u \in Users, NEW p \in Posts, MutateUnchanged(u, p) \/ Unlike(u, p) \/ Like(u, p) \/ Project(u, p)
        PROVE  UNCHANGED sweep
    BY <1>1 DEF MutateUnchanged, Unlike, Like, Project
  <1>2. ASSUME NEW u \in Users, Expire(u) \/ LockExpires(u) \/ LockLost(u) PROVE UNCHANGED sweep
    BY <1>2 DEF Expire, LockExpires, LockLost, DropLock
  <1>3. ASSUME NEW u \in Users, ScanUserLikes(u) PROVE FALSE
    BY <1>3 DEF ScanUserLikes
  <1>4. ASSUME NEW r \in Restorers, NEW u \in Users, BeginRestore(r, u) PROVE UNCHANGED sweep
    BY <1>4 DEF BeginRestore
  <1>5. ASSUME NEW r \in Restorers,
               CreateTemp(r) \/ LoadRelations(r) \/ FinishRestore(r) \/ ReleaseRestore(r) \/ RestoreFails(r) \/ RestoreCrash(r)
        PROVE  UNCHANGED sweep
    BY <1>5 DEF CreateTemp, LoadRelations, FinishRestore, ReleaseRestore, RestoreFails, RestoreCrash
  <1>6. ASSUME NEW p \in Posts, DeletePost(p) \/ MarkPostDeleted(p) \/ PurgePost(p) \/ TombstoneExpires(p)
        PROVE  UNCHANGED sweep
    BY <1>6 DEF DeletePost, MarkPostDeleted, PurgePost, TombstoneExpires
  <1>7. ~FindDeletedPosts
    BY DEF FindDeletedPosts
  <1>8. SweepCrash => UNCHANGED rel
    BY DEF SweepCrash, redisVars
  <1> QED
    BY <1>0, <1>1, <1>2, <1>3, <1>4, <1>5, <1>6, <1>7, <1>8, Cases

\* A sweep takes no relation to a Post that Redis or SQL still has.
THEOREM SweepsSpare == Spec => SweepSparesServedPosts
  <1>1. ASSUME IInv, [Next]_vars, NEW u \in Users, sweep.phase = "checked", sweep'.phase = "idle",
               NEW p \in rel[u] \ rel'[u]
        PROVE  p \in sqlDeleted /\ ready[p] # "1"
    <2>0. ~UNCHANGED rel
      BY <1>1
    <2>1. RemoveRelations
      BY <1>1, <2>0, SweepEnds DEF vars
    <2>2. PICK R \in SUBSET (rel[sweep.user] \cap sqlDeleted) :
            (\A q \in R : ready[q] # "1") /\ rel'[sweep.user] = rel[sweep.user] \ R /\ Only(sweep.user)
      BY <1>1, <2>0, <2>1, RemoveMoves DEF IInv
    <2>3. u = sweep.user
      BY <1>1, <2>2 DEF Only
    <2> QED
      BY <1>1, <2>2, <2>3
  <1>2. IInv /\ [Next]_vars =>
          (\A u \in Users : sweep.phase = "checked" /\ sweep'.phase = "idle" =>
             \A p \in rel[u] \ rel'[u] : p \in sqlDeleted /\ ready[p] # "1")
    BY <1>1
  <1> QED
    BY Invariant, <1>2, PTL DEF Spec, SweepSparesServedPosts

=============================================================================

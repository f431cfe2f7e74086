------------------------- MODULE Recommendation_proofs -------------------------
(***************************************************************************)
(* Proofs about the two sides of recommendations: RecommendationServing,   *)
(* for any ranks, page sizes, limits and requests, and ProfileMaterializer, *)
(* for any sets of users, Posts, workers and embedders and any bounds.     *)
(***************************************************************************)
EXTENDS ProfileMaterializer, RecommendationServing, FiniteSetTheorems, SequenceTheorems, WellFoundedInduction, TLAPS

-----------------------------------------------------------------------------
(* Paging through recommendations: the invariant.                          *)

PostKinds == {"reserved", "used", "rejected", "invalid"}
PageRecord == [items : SUBSET Ranked, committed : BOOLEAN, returned : SUBSET Ranked, recorded : BOOLEAN, traced : BOOLEAN]
Snapshot ==
  [phase : {"none", "live", "gone"}, exhausted : BOOLEAN, pool : SUBSET Ranked, histAt : Nat, histDone : BOOLEAN,
   softAt : Nat, softDone : BOOLEAN, pages : Seq(PageRecord), post : SUBSET (Ranked \X PostKinds \X Nat), pending : SUBSET Nat]
ServingPcs == {"idle", "recover", "receipt", "reload", "page", "show", "commit", "record", "flag", "trace"}
ServingRequest ==
  [pc : ServingPcs, page : Nat, depleted : BOOLEAN, count : Nat, todo : SUBSET Nat, reload : BOOLEAN, items : SUBSET Ranked]

Indexes(s) == 0..(Count(s) - 1)
CommittedIn(s, i) == i \in Indexes(s) /\ s.pages[i + 1].committed

\* The Posts whose state is of a kind and names the page.
FieldsOf(s, kind, i) == {p \in Ranked : <<p, kind, i>> \in s.post}

\* A committed page and an open one, and the states of their Posts.
PageOK(s, i) ==
  LET page == s.pages[i + 1]
  IN /\ page.returned \subseteq page.items
     /\ IF page.committed THEN page.returned = FieldsOf(s, "used", i)
        ELSE /\ page.returned = {} /\ ~page.recorded /\ ~page.traced
             /\ page.items = FieldsOf(s, "reserved", i) /\ page.items \subseteq s.pool
     /\ page.traced => page.recorded

FieldsOK(s) ==
  /\ \A f, g \in s.post : f[1] = g[1] => f = g
  /\ \A f \in s.post : /\ f[2] = "used" => CommittedIn(s, f[3])
                       /\ f[2] = "reserved" => f[3] \in Indexes(s)

PagesOK(s) ==
  /\ \A i \in Indexes(s) : PageOK(s, i)
  /\ \A i, j \in Indexes(s) : i < j /\ s.pages[j + 1].committed => s.pages[i + 1].committed
  /\ \A i \in s.pending : CommittedIn(s, i) /\ ~s.pages[i + 1].recorded

\* A Post that stayed eligible was recalled, is known, or is still to be scanned.
Reachable(s, p) ==
  \/ p \in s.pool \cup Known(s)
  \/ p \in Historical /\ ~s.histDone /\ s.histAt < p
  \/ p \in Soft /\ ~s.softDone /\ s.softAt < p

AllKnown(s, posts) ==
  /\ posts \subseteq Known(s)
  /\ \A i \in 0..(Count(s) - 2) : s.pages[i + 1].committed

Coherent(s, posts) ==
  /\ s \in Snapshot /\ Cardinality(s.pool) <= MaxPool
  /\ FieldsOK(s) /\ PagesOK(s)
  /\ \A p \in posts : Reachable(s, p)

SnapshotOK(s, posts) ==
  /\ Coherent(s, posts) /\ Count(s) \in 1..MaxPages
  /\ s.exhausted => AllKnown(s, posts)

Steady == stable \cap Offered

SnapInv ==
  /\ snap \in Snapshot
  /\ Live => SnapshotOK(snap, Steady)
  /\ ~Live => snap = [NoSnapshot EXCEPT !.phase = snap.phase]
  /\ snap.phase = "none" => cursors = {} /\ sent = {} /\ history = << >> /\ traces = <<>> /\ alive = Ranked /\ stable = Ranked /\ \A r \in Requests : req[r] = Idle

EligibleInv == stable \subseteq alive /\ alive \subseteq Ranked

Answering == {"record", "flag", "trace"}
BeforeCommit == {"show", "commit"}

\* What a request may rely on while the snapshot lives.
LiveRequestOK(q, s, told, posts) ==
  /\ q.page > 0 => CommittedIn(s, q.page - 1)
  /\ q.page = 0 => 0 \in Indexes(s)
  /\ q.pc \in {"recover", "receipt"} => \A i \in q.todo : CommittedIn(s, i)
  /\ q.pc = "receipt" => LET i == Min(q.todo) IN s.pages[i + 1].returned = {} \/ i \in told
  /\ q.pc \in BeforeCommit =>
       /\ q.page \in Indexes(s)
       /\ ~s.pages[q.page + 1].committed =>
            q.items \subseteq s.pages[q.page + 1].items /\ s.pages[q.page + 1].items \cap posts \subseteq q.items
  /\ q.pc \in Answering => CommittedIn(s, q.page) /\ s.pages[q.page + 1].returned = q.items
  /\ q.pc = "flag" => q.items = {} \/ q.page \in told
  /\ q.pc = "trace" => s.pages[q.page + 1].recorded
  /\ q.depleted => AllKnown(s, posts \cap Offered)

RequestOK(q) ==
  /\ q \in ServingRequest
  /\ q.pc = "idle" => q = Idle
  /\ q.page <= q.count /\ q.page <= MaxPages
  /\ q.pc \in BeforeCommit \cup Answering => q.page < MaxPages
  /\ q.pc \in {"recover", "receipt"} => q.todo # {}
  /\ q.pc \in {"reload", "page", "show"} => q.todo = {}
  /\ q.pc \in {"recover", "receipt", "reload", "page"} => q.page > 0
  /\ q.pc = "commit" => q.items \cap q.todo = {}

RequestsInv ==
  /\ req \in [Requests -> ServingRequest]
  /\ \A r \in Requests : RequestOK(req[r]) /\ (Live /\ req[r].pc # "idle" => LiveRequestOK(req[r], snap, DOMAIN history, stable))

AnsweringSet == {<<x.page, x.posts>> : x \in sent} \cup {<<req[r].page, req[r].items>> : r \in {q \in Requests : req[q].pc \in Answering}}
AnswersInv ==
  /\ sent \subseteq [page : Nat, posts : SUBSET Ranked, depleted : BOOLEAN]
  /\ \A a, b \in AnsweringSet : IF a[1] = b[1] THEN a[2] = b[2] ELSE a[2] \cap b[2] = {}
  /\ Live => \A x \in sent : CommittedIn(snap, x.page) /\ snap.pages[x.page + 1].returned = x.posts
  /\ Live => \A x \in sent : x.depleted => AllKnown(snap, Steady)
  /\ cursors \subseteq 1..MaxPages
  /\ Live => \A i \in cursors : CommittedIn(snap, i - 1)
  /\ "invalid" \notin refused

HistoryInv ==
  /\ traces \in Seq(Nat)
  /\ \A j, k \in DOMAIN traces : traces[j] = traces[k] => j = k
  /\ Live =>
       /\ \A i \in DOMAIN history : CommittedIn(snap, i) /\ history[i] = snap.pages[i + 1].returned
       /\ \A j \in DOMAIN traces : CommittedIn(snap, traces[j]) /\ snap.pages[traces[j] + 1].traced
       /\ \A i \in Indexes(snap) : snap.pages[i + 1].committed /\ snap.pages[i + 1].returned # {} =>
             i \in DOMAIN history \/ (i \in snap.pending /\ ~snap.pages[i + 1].recorded)

ServingInv == SnapInv /\ EligibleInv /\ RequestsInv /\ AnswersInv /\ HistoryInv

-----------------------------------------------------------------------------
(* Sets of ranks.                                                          *)

IsLeast(x, T) == x \in T /\ \A y \in T : y \subseteq x => y = x

\* A non-empty set of finite sets has a least element.
LEMMA LeastSet ==
  ASSUME NEW S, NEW T, T \subseteq FiniteSubsetsOf(S), T # {}
  PROVE  \E x : IsLeast(x, T)
  <1> DEFINE R == StrictSubsetOrdering(S)
  <1>1. IsWellFoundedOn(R, FiniteSubsetsOf(S))
    BY FS_StrictSubsetOrderingWellFounded
  <1>2. \E x \in T : \A y \in T : ~(<<y, x>> \in R)
    <2> HIDE DEF R
    <2> QED
      BY <1>1, WFMin
  <1>3. T \subseteq SUBSET S
    BY DEF FiniteSubsetsOf
  <1> QED
    BY <1>2, <1>3 DEF StrictSubsetOrdering, IsLeast

\* A non-empty set of naturals has a least element.
LEMMA LeastNumber ==
  ASSUME NEW T, T \subseteq Nat, T # {}
  PROVE  Min(T) \in T /\ \A y \in T : Min(T) <= y
  <1> DEFINE F == {0..n : n \in T}
  <1>1. F # {}
    OBVIOUS
  <1>2. F \subseteq FiniteSubsetsOf(Nat)
    <2>1. \A n \in T : 0..n \subseteq Nat /\ IsFiniteSet(0..n)
      BY FS_Interval
    <2> QED
      BY <2>1 DEF FiniteSubsetsOf
  <1>3. PICK U \in F : \A V \in F : V \subseteq U => V = U
    <2>1. \E U : IsLeast(U, F)
      <3> HIDE DEF F
      <3> QED
        BY <1>1, <1>2, LeastSet
    <2> QED
      BY <2>1 DEF IsLeast
  <1>4. PICK x \in T : U = 0..x
    OBVIOUS
  <1>5. ASSUME NEW y \in T, y < x PROVE FALSE
    <2>1. 0..y \in F /\ 0..y \subseteq U
      BY <1>4, <1>5
    <2>2. 0..y = 0..x
      BY <1>3, <1>4, <2>1
    <2>3. x \in 0..x /\ x \notin 0..y
      BY <1>5
    <2> QED
      BY <2>2, <2>3
  <1>6. \E z \in T : \A y \in T : z <= y
    BY <1>5
  <1> QED
    BY <1>6 DEF Min

\* A finite one has a greatest element.
LEMMA GreatestNumber ==
  ASSUME NEW S, S \subseteq Nat, IsFiniteSet(S), S # {}
  PROVE  Max(S) \in S /\ \A y \in S : y <= Max(S)
  <1> DEFINE Above(x) == {y \in S : x < y}
             T == {Above(x) : x \in S}
  <1>1. PICK U : IsLeast(U, T)
    <2>1. \A x \in S : Above(x) \in FiniteSubsetsOf(S)
      <3>1. \A x \in S : Above(x) \subseteq S
        OBVIOUS
      <3> QED
        BY <3>1, FS_Subset DEF FiniteSubsetsOf
    <2>2. T \subseteq FiniteSubsetsOf(S) /\ T # {}
      BY <2>1
    <2> HIDE DEF T
    <2> QED
      BY <2>2, LeastSet
  <1>2. PICK x \in S : U = Above(x)
    BY <1>1 DEF IsLeast
  <1>3. ASSUME NEW y \in S, x < y
        PROVE  FALSE
    <2>1. Above(y) \subseteq U /\ Above(y) \in T
      <3>1. \A z \in Above(y) : z \in S /\ y < z /\ x < z
        BY <1>3
      <3> QED
        BY <3>1, <1>2
    <2>2. y \in U /\ y \notin Above(y)
      BY <1>2, <1>3
    <2> QED
      BY <1>1, <2>1, <2>2 DEF IsLeast
  <1>4. \E z \in S : \A y \in S : z >= y
    BY <1>3
  <1>5. Max(S) \in S /\ \A y \in S : Max(S) >= y
    BY <1>4 DEF Max
  <1> QED
    BY <1>5

Before(S, p) == {q \in S : q < p}

\* Of two members the later one has more before it.
LEMMA BeforeGrows ==
  ASSUME NEW S, S \subseteq Nat, IsFiniteSet(S), NEW p \in Nat, NEW q \in Nat, p <= q
  PROVE  /\ Cardinality(Before(S, p)) \in Nat
         /\ Cardinality(Before(S, p)) <= Cardinality(Before(S, q))
         /\ Cardinality(Before(S, p)) <= Cardinality(S)
         /\ p \in S => Cardinality(Before(S, p)) < Cardinality(S)
  <1>1. Before(S, p) \subseteq Before(S, q) /\ Before(S, q) \subseteq S /\ p \notin Before(S, p)
    <2>1. \A x \in Before(S, p) : x \in S /\ x \in Nat /\ x < p
      BY DEF Before
    <2>2. \A x \in Before(S, p) : x \in Before(S, q)
      BY <2>1 DEF Before
    <2>3. p \notin Before(S, p)
      BY <2>1
    <2> QED
      BY <2>2, <2>3 DEF Before
  <1>2. IsFiniteSet(Before(S, q))
    BY <1>1, FS_Subset
  <1>3. Cardinality(Before(S, p)) \in Nat /\ Cardinality(Before(S, p)) <= Cardinality(Before(S, q))
        /\ Cardinality(Before(S, p)) <= Cardinality(S)
    <2>1. Before(S, p) \subseteq S
      BY <1>1
    <2> QED
      BY <1>1, <1>2, <2>1, FS_Subset, FS_CardinalityType
  <1>4. ASSUME p \in S
        PROVE  Cardinality(Before(S, p)) < Cardinality(S)
    <2>1. Before(S, p) \subseteq S \ {p}
      BY <1>1 DEF Before
    <2>2. IsFiniteSet(S \ {p}) /\ Cardinality(S \ {p}) = Cardinality(S) - 1
      BY <1>4, FS_RemoveElement
    <2>3. Cardinality(Before(S, p)) <= Cardinality(S \ {p})
      BY <2>1, <2>2, FS_Subset
    <2> QED
      BY <2>2, <2>3, <1>3, FS_CardinalityType
  <1> QED
    BY <1>3, <1>4

\* The best n of a set are at most n, and all when there are no more.
LEMMA BestIs ==
  ASSUME NEW S, S \subseteq Nat, IsFiniteSet(S), NEW n \in Nat
  PROVE  /\ Best(n, S) \subseteq S /\ IsFiniteSet(Best(n, S))
         /\ Cardinality(Best(n, S)) \in 0..n
         /\ Cardinality(S) <= n => Best(n, S) = S
  <1>1. Best(n, S) = {p \in S : Cardinality(Before(S, p)) < n}
    BY DEF Best, Before
  <1>2. Best(n, S) \subseteq S /\ IsFiniteSet(Best(n, S)) /\ Cardinality(Best(n, S)) \in Nat
    <2>1. Best(n, S) \subseteq S
      BY <1>1
    <2> QED
      BY <2>1, FS_Subset, FS_CardinalityType
  <1>3. Cardinality(Best(n, S)) <= n
    <2>1. CASE Best(n, S) = {}
      BY <2>1, FS_EmptySet
    <2>2. CASE Best(n, S) # {}
      <3>1. PICK m \in Best(n, S) : \A q \in Best(n, S) : q <= m
        <4>1. Best(n, S) \subseteq Nat
          BY <1>2
        <4> QED
          BY <4>1, <1>2, <2>2, GreatestNumber
      <3>2. m \in S /\ Cardinality(Before(S, m)) < n
        BY <1>1
      <3>3. Best(n, S) \subseteq Before(S, m) \cup {m}
        <4>1. \A q \in Best(n, S) : q \in S /\ q \in Nat /\ m \in Nat /\ q <= m
          BY <3>1, <1>2
        <4>2. \A q \in Best(n, S) : q = m \/ q < m
          BY <4>1
        <4> QED
          BY <4>1, <4>2 DEF Before
      <3>4. IsFiniteSet(Before(S, m)) /\ Cardinality(Before(S, m)) \in Nat /\ m \notin Before(S, m)
        <4>1. Before(S, m) \subseteq S /\ m \notin Before(S, m)
          BY <3>2 DEF Before
        <4> QED
          BY <4>1, FS_Subset, FS_CardinalityType
      <3>5. IsFiniteSet(Before(S, m) \cup {m}) /\ Cardinality(Before(S, m) \cup {m}) = Cardinality(Before(S, m)) + 1
        BY <3>4, FS_AddElement
      <3>6. Cardinality(Best(n, S)) <= Cardinality(Before(S, m) \cup {m})
        BY <3>3, <3>5, FS_Subset
      <3> QED
        BY <3>2, <3>4, <3>5, <3>6, <1>2
    <2> QED
      BY <2>1, <2>2
  <1>4. ASSUME Cardinality(S) <= n, NEW p \in S
        PROVE  p \in Best(n, S)
    <2>0. p \in Nat /\ p <= p
      OBVIOUS
    <2>1. Cardinality(Before(S, p)) < Cardinality(S) /\ Cardinality(Before(S, p)) \in Nat
      BY <2>0, BeforeGrows
    <2> QED
      BY <1>1, <1>4, <2>1, FS_CardinalityType
  <1>5. Cardinality(S) <= n => Best(n, S) = S
    BY <1>2, <1>4
  <1> QED
    BY <1>2, <1>3, <1>5

\* What is left out comes after all of them, and there are as many as asked for.
LEMMA BestLeaves ==
  ASSUME NEW S, S \subseteq Nat, IsFiniteSet(S), NEW n \in Nat, NEW p \in S, p \notin Best(n, S)
  PROVE  n <= Cardinality(S) /\ \A q \in Best(n, S) : q < p
  <1>1. Best(n, S) = {q \in S : Cardinality(Before(S, q)) < n}
    BY DEF Best, Before
  <1>2. Cardinality(Before(S, p)) \in Nat /\ n <= Cardinality(Before(S, p)) /\ Cardinality(Before(S, p)) <= Cardinality(S)
    <2>0. p \in Nat /\ p <= p
      OBVIOUS
    <2>1. Cardinality(Before(S, p)) \in Nat /\ Cardinality(Before(S, p)) <= Cardinality(S)
      BY <2>0, BeforeGrows
    <2> QED
      BY <1>1, <2>1
  <1>3. ASSUME NEW q \in Best(n, S), p <= q
        PROVE  FALSE
    <2>1. q \in S /\ Cardinality(Before(S, q)) < n
      BY <1>1
    <2>2. p \in Nat /\ q \in Nat /\ q <= q
      BY <2>1
    <2>3. Cardinality(Before(S, p)) <= Cardinality(Before(S, q)) /\ Cardinality(Before(S, q)) \in Nat
      BY <2>2, <1>3, BeforeGrows
    <2> QED
      BY <1>2, <2>1, <2>3
  <1>4. \A q \in Best(n, S) : q \in Nat
    BY <1>1
  <1> QED
    BY <1>2, <1>3, <1>4, FS_CardinalityType

-----------------------------------------------------------------------------
(* What is scanned and selected.                                           *)

\* The bounds are numbers.
LEMMA Constants ==
  /\ Ranked \subseteq Nat \ {0} /\ Ranked \subseteq Nat /\ IsFiniteSet(Ranked)
  /\ Historical \subseteq Ranked /\ Soft \subseteq Ranked
  /\ PageSize \in Nat \ {0} /\ Preselect \in Nat \ {0} /\ MaxPages \in Nat \ {0} /\ MaxPool \in Nat \ {0}
  /\ BatchSize \in Nat \ {0} /\ MaxScan \in Nat \ {0} /\ Preselect <= MaxPages
  BY ServingAssumption

\* Sets of Posts are finite.
LEMMA RankedSet ==
  ASSUME NEW S \in SUBSET Ranked
  PROVE  S \subseteq Nat /\ IsFiniteSet(S) /\ Cardinality(S) \in Nat /\ \A p \in S : p \in Nat \ {0}
  <1>1. S \subseteq Ranked
    OBVIOUS
  <1> QED
    BY <1>1, Constants, FS_Subset, FS_CardinalityType

\* A union has at most as many members as its parts together.
LEMMA UnionAtMost ==
  ASSUME NEW S \in SUBSET Ranked, NEW T \in SUBSET Ranked
  PROVE  Cardinality(S \cup T) <= Cardinality(S) + Cardinality(T)
  <1>1. IsFiniteSet(S) /\ IsFiniteSet(T) /\ S \cap T \in SUBSET Ranked
    BY RankedSet
  <1>2. Cardinality(S \cup T) = Cardinality(S) + Cardinality(T) - Cardinality(S \cap T)
    BY <1>1, FS_Union
  <1> QED
    BY <1>1, <1>2, RankedSet

\* A page takes its Posts from what it is offered (selectRankedPage).
LEMMA SelectedAreOffered ==
  ASSUME NEW fresh, NEW soft
  PROVE  SelectRankedPage(fresh, soft) \subseteq fresh \cup soft
  BY DEF SelectRankedPage, Best

\* A page takes Posts of the pool that no page has had (selectSnapshotPage).
LEMMA SelectedUnknown ==
  ASSUME NEW s
  PROVE  Selected(s) \subseteq Unknown(s)
  <1>1. CASE s.histDone
    BY <1>1, SelectedAreOffered DEF Selected
  <1>2. CASE ~s.histDone
    BY <1>2, SelectedAreOffered DEF Selected
  <1> QED
    BY <1>1, <1>2

\* A scan passes over nothing that it might have taken.
ScannedAll(tier, at, excluded, w) ==
  \A p \in tier \cap alive : at < p /\ p \notin excluded => p \in w.taken \/ (~w.done /\ w.at < p)

Scanned(tier, at, excluded, budget, room, w) ==
  /\ w.taken \subseteq tier /\ w.at \in Nat /\ w.done \in BOOLEAN
  /\ Cardinality(w.taken) <= budget /\ Cardinality(w.taken) <= room
  /\ ScannedAll(tier, at, excluded, w)

\* What supplementRecallTier returns: Posts of the tier behind its position, and
\* all that are left of them when it calls the tier done.
LEMMA ScanIs ==
  ASSUME NEW tier \in SUBSET Ranked, NEW at \in Nat, NEW excluded,
         NEW missing \in Nat, NEW budget \in Nat, NEW room \in Nat
  PROVE  Scanned(tier, at, excluded, budget, room, Scan(tier, at, excluded, missing, budget, room))
  <1> DEFINE behind   == {p \in Eligible(tier) : p > at /\ p \notin excluded}
             asked  == ((missing + BatchSize - 1) \div BatchSize) * BatchSize
             limit  == Min({asked, budget, room})
             taken  == Best(limit, behind)
             w      == Scan(tier, at, excluded, missing, budget, room)
  <1>1. w = [taken |-> taken, done |-> Cardinality(behind) < limit, at |-> Max(taken \cup {at})]
    BY DEF Scan
  <1>2. behind \subseteq tier /\ behind \subseteq Nat /\ IsFiniteSet(behind) /\ Cardinality(behind) \in Nat
    <2>1. behind \in SUBSET Ranked /\ behind \subseteq tier
      BY DEF Eligible
    <2> QED
      BY <2>1, RankedSet
  <1>3. limit \in Nat /\ limit <= budget /\ limit <= room
    <2>1. asked \in Nat
      <3>1. PICK k \in Nat : k = (missing + BatchSize - 1) \div BatchSize
        <4>1. missing + BatchSize - 1 \in Nat
          BY Constants
        <4> QED
          BY <4>1, Constants
      <3>2. k * BatchSize \in Nat
        BY <3>1, Constants
      <3> QED
        BY <3>1, <3>2
    <2>2. {asked, budget, room} \subseteq Nat /\ {asked, budget, room} # {}
      BY <2>1
    <2> QED
      BY <2>2, LeastNumber
  <1> HIDE DEF asked, limit, behind
  <1>4. /\ taken \subseteq behind /\ IsFiniteSet(taken) /\ Cardinality(taken) \in 0..limit
        /\ Cardinality(behind) <= limit => taken = behind
    BY <1>2, <1>3, BestIs
  <1>5. Max(taken \cup {at}) \in taken \cup {at} /\ \A y \in taken \cup {at} : y <= Max(taken \cup {at})
    <2>1. IsFiniteSet(taken \cup {at}) /\ taken \cup {at} \subseteq Nat /\ taken \cup {at} # {}
      BY <1>2, <1>4, FS_AddElement
    <2> QED
      BY <2>1, GreatestNumber
  <1>6. ASSUME NEW p \in tier \cap alive, at < p, p \notin excluded, p \notin taken
        PROVE  ~(Cardinality(behind) < limit) /\ Max(taken \cup {at}) < p
    <2>1. p \in behind
      <3>1. p \in Nat
        BY RankedSet
      <3> QED
        BY <3>1, <1>6 DEF behind, Eligible
    <2>2. limit <= Cardinality(behind) /\ \A q \in taken : q < p
      BY <2>1, <1>6, <1>2, <1>3, BestLeaves
    <2>3. Max(taken \cup {at}) < p
      BY <2>2, <1>5, <1>6
    <2> QED
      BY <2>2, <2>3, <1>2, <1>3
  <1>7. w.taken = taken /\ w.done = (Cardinality(behind) < limit) /\ w.at = Max(taken \cup {at})
    BY <1>1
  <1>8. w.taken \subseteq tier /\ w.at \in Nat /\ w.done \in BOOLEAN
    <2>1. w.taken \subseteq tier /\ w.at \in Nat
      BY <1>2, <1>4, <1>5, <1>7
    <2>2. w.done \in BOOLEAN
      <3>1. (Cardinality(behind) < limit) \in BOOLEAN
        OBVIOUS
      <3> QED
        BY <3>1, <1>7, Zenon
    <2> QED
      BY <2>1, <2>2
  <1>9. Cardinality(w.taken) <= budget /\ Cardinality(w.taken) <= room
    BY <1>3, <1>4, <1>7
  <1>10. ScannedAll(tier, at, excluded, w)
    BY <1>6, <1>7 DEF ScannedAll
  <1> QED
    BY <1>8, <1>9, <1>10 DEF Scanned

\* The tiers are tried without losing a Post.
LEMMA FillsAre ==
  ASSUME NEW s \in Snapshot, NEW live \in SUBSET Ranked, Cardinality(live) <= MaxPool, NEW excluded, NEW t \in Fills(s, live, excluded),
         NEW posts \in SUBSET alive,
         \A p \in posts : \/ p \in live \cup Known(s)
                          \/ p \in Historical /\ ~s.histDone /\ s.histAt < p
                          \/ p \in Soft /\ ~s.softDone /\ s.softAt < p,
         \A p \in posts : p \in excluded => p \in live \cup Known(s)
  PROVE  /\ t \in Snapshot /\ Cardinality(t.pool) <= MaxPool /\ live \subseteq t.pool
         /\ t.post = s.post /\ t.pages = s.pages /\ t.pending = s.pending /\ t.phase = s.phase /\ t.exhausted = s.exhausted
         /\ \A p \in posts : Reachable(t, p)
  <1>1. PICK h : h = ScanHistorical(s, live, excluded)
    OBVIOUS
  <1>2. PICK w : w = ScanSoft(s, live \cup h.taken, h, excluded)
    OBVIOUS
  <1>3. t = [s EXCEPT !.pool = live \cup h.taken \cup w.taken, !.histAt = h.at, !.histDone = h.done, !.softAt = w.at, !.softDone = w.done]
    BY <1>1, <1>2 DEF Fills
  <1>4. s.histAt \in Nat /\ s.softAt \in Nat /\ s.histDone \in BOOLEAN /\ s.softDone \in BOOLEAN
    BY DEF Snapshot
  <1>5. /\ h.taken \subseteq Historical /\ h.at \in Nat /\ h.done \in BOOLEAN
        /\ Cardinality(h.taken) <= MaxScan /\ Cardinality(live) + Cardinality(h.taken) <= MaxPool
        /\ \/ h.at = s.histAt /\ h.done = s.histDone
           \/ ScannedAll(Historical, s.histAt, excluded, h)
    <2> DEFINE missing == PageSize - Cardinality(Best(PageSize, live \ Soft))
               room    == MaxPool - Cardinality(live)
    <2>1. missing \in Int /\ room \in Nat
      <3>1. live \ Soft \in SUBSET Ranked
        OBVIOUS
      <3>2. Cardinality(Best(PageSize, live \ Soft)) \in 0..PageSize
        BY <3>1, Constants, RankedSet, BestIs
      <3> QED
        BY <3>2, Constants, RankedSet
    <2>2. CASE missing > 0 /\ ~s.histDone /\ room > 0
      <3>1. h = Scan(Historical, s.histAt, excluded, missing, MaxScan, room)
        BY <1>1, <2>2 DEF ScanHistorical
      <3>2. missing \in Nat /\ MaxScan \in Nat /\ Historical \in SUBSET Ranked
        BY <2>1, <2>2, Constants
      <3> HIDE DEF missing
      <3>3. Scanned(Historical, s.histAt, excluded, MaxScan, room, h)
        BY <3>1, <3>2, <2>1, <1>4, ScanIs
      <3>4. Cardinality(h.taken) \in Nat /\ Cardinality(live) \in Nat
        BY <3>3, <3>2, RankedSet DEF Scanned
      <3> QED
        BY <3>3, <3>4, <2>1, Constants DEF Scanned
    <2>3. CASE ~(missing > 0 /\ ~s.histDone /\ room > 0)
      <3>1. h = [taken |-> {}, done |-> s.histDone, at |-> s.histAt]
        BY <1>1, <2>3 DEF ScanHistorical
      <3>2. h.taken = {} /\ h.done = s.histDone /\ h.at = s.histAt /\ Cardinality(h.taken) = 0
        BY <3>1, FS_EmptySet
      <3> QED
        BY <3>2, <1>4, Constants, RankedSet
    <2> QED
      BY <2>2, <2>3
  <1>6. PICK more : more = live \cup h.taken
    OBVIOUS
  <1>7. more \in SUBSET Ranked /\ Cardinality(more) <= MaxPool
    <2>1. h.taken \in SUBSET Ranked /\ more \in SUBSET Ranked
      BY <1>5, <1>6, Constants
    <2>2. Cardinality(more) <= Cardinality(live) + Cardinality(h.taken)
      BY <2>1, <1>6, UnionAtMost
    <2> QED
      BY <2>1, <2>2, <1>5, RankedSet, Constants
  <1>8. /\ w.taken \subseteq Soft /\ w.at \in Nat /\ w.done \in BOOLEAN
        /\ Cardinality(more) + Cardinality(w.taken) <= MaxPool
        /\ \/ w.at = s.softAt /\ w.done = s.softDone
           \/ ScannedAll(Soft, s.softAt, excluded \cup more, w)
    <2> DEFINE missing == PageSize - Cardinality(SelectRankedPage(more \ Soft, more \cap Soft))
               room    == MaxPool - Cardinality(more)
               budget  == MaxScan - Cardinality(h.taken)
    <2>1. missing \in Int /\ room \in Nat /\ budget \in Nat
      <3>1. SelectRankedPage(more \ Soft, more \cap Soft) \in SUBSET Ranked
        BY <1>7, SelectedAreOffered
      <3>2. Cardinality(SelectRankedPage(more \ Soft, more \cap Soft)) \in Nat /\ Cardinality(h.taken) \in Nat /\ Cardinality(more) \in Nat
        <4>1. h.taken \in SUBSET Ranked
          BY <1>5, Constants
        <4> QED
          BY <3>1, <4>1, <1>7, RankedSet
      <3> QED
        BY <3>2, <1>5, <1>7, Constants
    <2>2. CASE missing > 0 /\ h.done /\ ~s.softDone /\ room > 0
      <3>1. w = Scan(Soft, s.softAt, excluded \cup more, missing, budget, room)
        BY <1>2, <1>6, <2>2 DEF ScanSoft
      <3>2. missing \in Nat /\ Soft \in SUBSET Ranked
        BY <2>1, <2>2, Constants
      <3> HIDE DEF missing, budget
      <3>3. Scanned(Soft, s.softAt, excluded \cup more, budget, room, w)
        BY <3>1, <3>2, <2>1, <1>4, ScanIs
      <3>4. Cardinality(w.taken) \in Nat /\ Cardinality(more) \in Nat
        BY <3>3, <3>2, <1>7, RankedSet DEF Scanned
      <3> QED
        BY <3>3, <3>4, <2>1, Constants DEF Scanned
    <2>3. CASE ~(missing > 0 /\ h.done /\ ~s.softDone /\ room > 0)
      <3>1. w = [taken |-> {}, done |-> s.softDone, at |-> s.softAt]
        BY <1>2, <1>6, <2>3 DEF ScanSoft
      <3>2. w.taken = {} /\ w.done = s.softDone /\ w.at = s.softAt /\ Cardinality(w.taken) = 0
        BY <3>1, FS_EmptySet
      <3> QED
        BY <3>2, <1>4, <1>7, Constants, RankedSet
    <2> QED
      BY <2>2, <2>3
  <1>9. PICK pool : pool = more \cup w.taken
    OBVIOUS
  <1>10. pool \in SUBSET Ranked /\ Cardinality(pool) <= MaxPool
    <2>1. w.taken \in SUBSET Ranked /\ pool \in SUBSET Ranked
      BY <1>7, <1>8, <1>9, Constants
    <2>2. Cardinality(pool) <= Cardinality(more) + Cardinality(w.taken)
      BY <2>1, <1>7, <1>9, UnionAtMost
    <2> QED
      BY <2>1, <2>2, <1>7, <1>8, RankedSet, Constants
  <1>11. t = [s EXCEPT !.pool = pool, !.histAt = h.at, !.histDone = h.done, !.softAt = w.at, !.softDone = w.done]
    BY <1>3, <1>6, <1>9
  <1>12. t.pool = pool /\ t.histAt = h.at /\ t.histDone = h.done /\ t.softAt = w.at /\ t.softDone = w.done
         /\ t.post = s.post /\ t.pages = s.pages /\ t.pending = s.pending /\ t.phase = s.phase /\ t.exhausted = s.exhausted
    BY <1>11 DEF Snapshot
  <1>13. t \in Snapshot
    BY <1>5, <1>8, <1>10, <1>11 DEF Snapshot
  <1>14. ASSUME NEW p \in posts
         PROVE  Reachable(t, p)
    <2>1. CASE p \in live \cup Known(s)
      BY <2>1, <1>6, <1>9, <1>12 DEF Reachable, Known
    <2>2. CASE p \in Historical /\ ~s.histDone /\ s.histAt < p /\ p \notin live \cup Known(s)
      <3>1. CASE h.at = s.histAt /\ h.done = s.histDone
        BY <2>2, <3>1, <1>12 DEF Reachable
      <3>2. CASE ScannedAll(Historical, s.histAt, excluded, h)
        <4>1. p \in Historical \cap alive /\ p \notin excluded
          BY <2>2
        <4>2. p \in h.taken \/ (~h.done /\ h.at < p)
          BY <3>2, <4>1, <2>2 DEF ScannedAll
        <4> QED
          BY <4>2, <2>2, <1>6, <1>9, <1>12 DEF Reachable
      <3> QED
        BY <3>1, <3>2, <1>5
    <2>3. CASE p \in Soft /\ ~s.softDone /\ s.softAt < p /\ p \notin live \cup Known(s)
      <3>1. CASE w.at = s.softAt /\ w.done = s.softDone
        BY <2>3, <3>1, <1>12 DEF Reachable
      <3>2. CASE ScannedAll(Soft, s.softAt, excluded \cup more, w)
        <4>1. p \in Soft \cap alive /\ p \notin excluded
          BY <2>3
        <4>2. p \in more \/ p \in w.taken \/ (~w.done /\ w.at < p)
          BY <3>2, <4>1, <2>3 DEF ScannedAll
        <4> QED
          BY <4>2, <2>3, <1>9, <1>12 DEF Reachable
      <3> QED
        BY <3>1, <3>2, <1>8
    <2> QED
      BY <2>1, <2>2, <2>3
  <1> QED
    BY <1>6, <1>9, <1>10, <1>12, <1>13, <1>14

-----------------------------------------------------------------------------
(* A page is added.                                                        *)

\* The parts of the state of a Post.
LEMMA Field ==
  ASSUME NEW s \in Snapshot, NEW f \in s.post
  PROVE  f[1] \in Ranked /\ f[2] \in PostKinds /\ f[3] \in Nat /\ f = <<f[1], f[2], f[3]>> /\ f[1] \in Known(s)
  BY DEF Snapshot, Known

\* The snapshot with one more page, field by field.
LEMMA AddPageIs ==
  ASSUME NEW s \in Snapshot, NEW items \in SUBSET Ranked, NEW n, n = Count(s), NEW t, t = AddPage(s, n, items)
  PROVE  /\ t \in Snapshot /\ n \in Nat /\ Count(t) = n + 1 /\ Indexes(t) = Indexes(s) \cup {n}
         /\ \A i \in Indexes(s) : t.pages[i + 1] = s.pages[i + 1]
         /\ t.pages[n + 1] = [NewPage EXCEPT !.items = items]
         /\ t.post = s.post \cup {<<p, "reserved", n>> : p \in items}
         /\ t.pool = s.pool /\ t.phase = s.phase /\ t.exhausted = s.exhausted /\ t.pending = s.pending
         /\ t.histAt = s.histAt /\ t.histDone = s.histDone /\ t.softAt = s.softAt /\ t.softDone = s.softDone
  <1> DEFINE page  == [NewPage EXCEPT !.items = items]
             added == {<<p, "reserved", n>> : p \in items}
  <1>1. s.pages \in Seq(PageRecord) /\ n = Len(s.pages) /\ n \in Nat
    <2>1. s.pages \in Seq(PageRecord)
      BY DEF Snapshot
    <2> QED
      BY <2>1, LenProperties DEF Count
  <1>2. page \in PageRecord
    BY DEF PageRecord, NewPage
  <1>3. PICK ps : ps = Append(s.pages, page)
    OBVIOUS
  <1>4. ps \in Seq(PageRecord) /\ Len(ps) = n + 1 /\ ps[n + 1] = page /\ \A j \in 1..n : ps[j] = s.pages[j]
    <2> HIDE DEF page
    <2> QED
      BY <1>1, <1>2, <1>3, AppendProperties
  <1>5. t = [s EXCEPT !.pages = ps, !.post = s.post \cup added]
    BY <1>3 DEF AddPage
  <1>6. added \in SUBSET (Ranked \X PostKinds \X Nat)
    BY <1>1 DEF PostKinds
  <1> HIDE DEF added, page
  <1>7. /\ t.pages = ps /\ t.post = s.post \cup added
        /\ t.pool = s.pool /\ t.phase = s.phase /\ t.exhausted = s.exhausted /\ t.pending = s.pending
        /\ t.histAt = s.histAt /\ t.histDone = s.histDone /\ t.softAt = s.softAt /\ t.softDone = s.softDone
    BY <1>5 DEF Snapshot
  <1>8. t \in Snapshot
    BY <1>4, <1>5, <1>6 DEF Snapshot
  <1>9. Count(t) = n + 1 /\ Indexes(t) = Indexes(s) \cup {n} /\ \A i \in Indexes(s) : i + 1 \in 1..n
    BY <1>1, <1>4, <1>7 DEF Count, Indexes
  <1>10. \A i \in Indexes(s) : t.pages[i + 1] = s.pages[i + 1]
    BY <1>4, <1>7, <1>9
  <1> QED
    BY <1>1, <1>4, <1>7, <1>8, <1>9, <1>10 DEF added, page

\* A page of Posts that are in the pool and on no page yet.
LEMMA AddPageKeeps ==
  ASSUME NEW s, NEW posts, Coherent(s, posts), NEW items, items \subseteq Unknown(s), NEW n, n = Count(s), NEW t, t = AddPage(s, n, items)
  PROVE  Coherent(t, posts) /\ Known(t) = Known(s) \cup items
  <1>0. s \in Snapshot /\ FieldsOK(s) /\ PagesOK(s) /\ items \in SUBSET Ranked /\ items \subseteq s.pool /\ items \cap Known(s) = {}
    BY DEF Coherent, Snapshot, Unknown
  <1>1. /\ t \in Snapshot /\ n \in Nat /\ Count(t) = n + 1 /\ Indexes(t) = Indexes(s) \cup {n}
        /\ \A i \in Indexes(s) : t.pages[i + 1] = s.pages[i + 1]
        /\ t.pages[n + 1] = [NewPage EXCEPT !.items = items]
        /\ t.post = s.post \cup {<<p, "reserved", n>> : p \in items}
        /\ t.pool = s.pool /\ t.pending = s.pending
        /\ t.histAt = s.histAt /\ t.histDone = s.histDone /\ t.softAt = s.softAt /\ t.softDone = s.softDone
    BY <1>0, AddPageIs
  <1>2. n \notin Indexes(s) /\ \A i \in Indexes(s) : i \in Nat /\ i < n
    BY <1>1 DEF Indexes
  <1>3. Known(t) = Known(s) \cup items
    <2>1. \A p \in items : <<p, "reserved", n>> \in t.post
      BY <1>1
    <2>2. \A f \in t.post : f \in s.post \/ \E p \in items : f = <<p, "reserved", n>>
      BY <1>1
    <2>3. ASSUME NEW x \in Known(t)
          PROVE  x \in Known(s) \cup items
      <3>1. PICK f \in t.post : f[1] = x
        BY <2>3 DEF Known
      <3>2. CASE f \in s.post
        BY <3>1, <3>2 DEF Known
      <3>3. CASE \E p \in items : f = <<p, "reserved", n>>
        BY <3>1, <3>3
      <3> QED
        BY <2>2, <3>2, <3>3
    <2>4. ASSUME NEW x \in Known(s) \cup items
          PROVE  x \in Known(t)
      <3>1. CASE x \in Known(s)
        BY <3>1, <1>1 DEF Known
      <3>2. CASE x \in items
        <4>1. <<x, "reserved", n>>[1] = x
          OBVIOUS
        <4> QED
          BY <3>2, <4>1, <2>1 DEF Known
      <3> QED
        BY <2>4, <3>1, <3>2
    <2> QED
      BY <2>3, <2>4
  <1>4. \A i \in Indexes(s) : CommittedIn(t, i) <=> CommittedIn(s, i)
    BY <1>1 DEF CommittedIn
  <1>5. FieldsOK(t)
    <2>1. ASSUME NEW f \in t.post, NEW g \in t.post, f[1] = g[1]
          PROVE  f = g
      <3>1. CASE f \in s.post /\ g \in s.post
        BY <3>1, <2>1, <1>0 DEF FieldsOK
      <3>2. CASE f \notin s.post /\ g \notin s.post
        <4>1. PICK p \in items, q \in items : f = <<p, "reserved", n>> /\ g = <<q, "reserved", n>>
          BY <3>2, <1>1
        <4> QED
          BY <4>1, <2>1
      <3>3. CASE f \in s.post /\ g \notin s.post
        <4>1. PICK q \in items : g = <<q, "reserved", n>>
          BY <3>3, <1>1
        <4>2. f[1] \in Known(s)
          BY <3>3, <1>0, Field
        <4> QED
          BY <4>1, <4>2, <2>1, <1>0
      <3>4. CASE f \notin s.post /\ g \in s.post
        <4>1. PICK q \in items : f = <<q, "reserved", n>>
          BY <3>4, <1>1
        <4>2. g[1] \in Known(s)
          BY <3>4, <1>0, Field
        <4> QED
          BY <4>1, <4>2, <2>1, <1>0
      <3> QED
        BY <3>1, <3>2, <3>3, <3>4
    <2>2. ASSUME NEW f \in t.post
          PROVE  (f[2] = "used" => CommittedIn(t, f[3])) /\ (f[2] = "reserved" => f[3] \in Indexes(t))
      <3>1. CASE f \in s.post
        <4>1. f[2] = "used" => CommittedIn(s, f[3])
          BY <3>1, <1>0 DEF FieldsOK
        <4>2. f[2] = "reserved" => f[3] \in Indexes(s)
          BY <3>1, <1>0 DEF FieldsOK
        <4> QED
          BY <4>1, <4>2, <1>1, <1>4 DEF CommittedIn
      <3>2. CASE f \notin s.post
        <4>1. PICK p \in items : f = <<p, "reserved", n>>
          BY <3>2, <1>1
        <4> QED
          BY <4>1, <1>1
      <3> QED
        BY <3>1, <3>2
    <2> QED
      BY <2>1, <2>2 DEF FieldsOK
  <1>6. PagesOK(t)
    <2>1. ASSUME NEW i \in Indexes(s)
          PROVE  PageOK(t, i)
      <3>1. PageOK(s, i) /\ t.pages[i + 1] = s.pages[i + 1]
        BY <1>0, <1>1 DEF PagesOK
      <3>2. \A p, kind : <<p, kind, i>> \in t.post <=> <<p, kind, i>> \in s.post
        BY <1>1, <1>2
      <3>3. FieldsOf(t, "used", i) = FieldsOf(s, "used", i) /\ FieldsOf(t, "reserved", i) = FieldsOf(s, "reserved", i)
        BY <3>2 DEF FieldsOf
      <3> QED
        BY <3>1, <3>3, <1>1 DEF PageOK
    <2>2. PageOK(t, n)
      <3>1. FieldsOf(t, "reserved", n) = items
        <4>1. \A p \in items : <<p, "reserved", n>> \in t.post
          BY <1>1
        <4>2. \A p : <<p, "reserved", n>> \notin s.post
          <5>1. \A f \in s.post : f[2] = "reserved" => f[3] # n
            BY <1>0, <1>2 DEF FieldsOK
          <5> QED
            BY <5>1
        <4>3. \A p : <<p, "reserved", n>> \in t.post => p \in items
          BY <1>1, <4>2
        <4> QED
          BY <4>1, <4>3, <1>0 DEF FieldsOf
      <3>2. /\ t.pages[n + 1].items = items /\ t.pages[n + 1].committed = FALSE /\ t.pages[n + 1].returned = {}
            /\ t.pages[n + 1].recorded = FALSE /\ t.pages[n + 1].traced = FALSE
        BY <1>1 DEF NewPage
      <3> QED
        BY <3>1, <3>2, <1>0, <1>1 DEF PageOK
    <2>3. ~t.pages[n + 1].committed
      BY <1>1 DEF NewPage
    <2>4. ASSUME NEW i \in Indexes(t), NEW j \in Indexes(t), i < j, t.pages[j + 1].committed
          PROVE  t.pages[i + 1].committed
      <3>1. j \in Indexes(s) /\ i \in Indexes(s)
        <4>1. j # n
          BY <2>3, <2>4
        <4>2. j \in Indexes(s) /\ j < n
          BY <4>1, <1>1, <1>2
        <4>3. i # n
          BY <4>2, <2>4, <1>1, <1>2
        <4> QED
          BY <4>2, <4>3, <1>1
      <3> QED
        BY <3>1, <2>4, <1>0, <1>1 DEF PagesOK
    <2>5. ASSUME NEW i \in t.pending
          PROVE  CommittedIn(t, i) /\ ~t.pages[i + 1].recorded
      <3>1. CommittedIn(s, i) /\ ~s.pages[i + 1].recorded
        BY <2>5, <1>0, <1>1 DEF PagesOK
      <3> QED
        BY <3>1, <1>1, <1>4 DEF CommittedIn
    <2> QED
      BY <2>1, <2>2, <2>4, <2>5, <1>1 DEF PagesOK
  <1>7. \A p \in posts : Reachable(t, p)
    BY <1>1, <1>3 DEF Coherent, Reachable
  <1> QED
    BY <1>1, <1>3, <1>5, <1>6, <1>7 DEF Coherent

-----------------------------------------------------------------------------
(* A feed begins.                                                          *)

\* Coherence does not depend on the phase and on the declaration.
LEMMA SameParts ==
  ASSUME NEW s, NEW posts, Coherent(s, posts), NEW t \in Snapshot,
         t.pool = s.pool, t.pages = s.pages, t.post = s.post, t.pending = s.pending,
         t.histAt = s.histAt, t.histDone = s.histDone, t.softAt = s.softAt, t.softDone = s.softDone
  PROVE  /\ Coherent(t, posts) /\ Known(t) = Known(s) /\ Count(t) = Count(s) /\ Indexes(t) = Indexes(s)
         /\ AllKnown(t, posts) <=> AllKnown(s, posts)
  <1>1. Known(t) = Known(s) /\ Count(t) = Count(s) /\ Indexes(t) = Indexes(s)
    BY DEF Known, Count, Indexes
  <1>2. FieldsOK(t)
    BY <1>1 DEF Coherent, FieldsOK, CommittedIn
  <1>3. PagesOK(t)
    BY <1>1 DEF Coherent, PagesOK, PageOK, FieldsOf, CommittedIn
  <1>4. \A p \in posts : Reachable(t, p)
    BY <1>1 DEF Coherent, Reachable
  <1> QED
    BY <1>1, <1>2, <1>3, <1>4 DEF Coherent, AllKnown

Declared(s, i) == [s EXCEPT !.exhausted = CanDeclareExhausted(s, i)]

\* When page i is the last one, the others are committed.
OthersCommitted(s, i) == Count(s) = i + 1 => \A j \in 0..(i - 1) : s.pages[j + 1].committed

\* The end is declared only when it is one.
LEMMA DeclaredRightly ==
  ASSUME NEW s, NEW posts, Coherent(s, posts), NEW i \in Nat, OthersCommitted(s, i), NEW t, t = Declared(s, i)
  PROVE  /\ Coherent(t, posts) /\ (t.exhausted => AllKnown(t, posts))
         /\ Count(t) = Count(s) /\ Indexes(t) = Indexes(s) /\ t.pages = s.pages /\ t.phase = s.phase /\ Known(t) = Known(s)
         /\ t.pending = s.pending
         /\ AllKnown(t, posts) <=> AllKnown(s, posts)
  <1>1. s \in Snapshot /\ CanDeclareExhausted(s, i) \in BOOLEAN
    BY DEF Coherent, CanDeclareExhausted
  <1>2. /\ t.exhausted = CanDeclareExhausted(s, i) /\ t.phase = s.phase /\ t.pages = s.pages /\ t.post = s.post /\ t.pool = s.pool
        /\ t.pending = s.pending
        /\ t.histAt = s.histAt /\ t.histDone = s.histDone /\ t.softAt = s.softAt /\ t.softDone = s.softDone
    BY <1>1 DEF Snapshot, Declared
  <1>3. t \in Snapshot
    <2>1. PICK b \in BOOLEAN : b = CanDeclareExhausted(s, i)
      BY <1>1, Zenon
    <2>2. t = [s EXCEPT !.exhausted = b]
      BY <2>1 DEF Declared
    <2> QED
      BY <2>2, <1>1 DEF Snapshot
  <1>4. /\ Coherent(t, posts) /\ Count(t) = Count(s) /\ Indexes(t) = Indexes(s) /\ Known(t) = Known(s)
        /\ AllKnown(t, posts) <=> AllKnown(s, posts)
    BY <1>2, <1>3, SameParts
  <1>5. ASSUME t.exhausted
        PROVE  AllKnown(s, posts)
    <2>1. s.histDone /\ s.softDone /\ Count(s) = i + 1 /\ Unknown(s) = {}
      BY <1>2, <1>5 DEF CanDeclareExhausted
    <2>2. posts \subseteq Known(s)
      BY <2>1 DEF Coherent, Reachable, Unknown
    <2>3. Count(s) - 2 = i - 1
      BY <2>1
    <2> QED
      BY <2>1, <2>2, <2>3 DEF AllKnown, OthersCommitted
  <1> QED
    BY <1>2, <1>4, <1>5

\* A snapshot as it is made, before a page was committed.
Fresh(s) ==
  /\ Coherent(s, Steady) /\ s.phase = "live" /\ s.exhausted = FALSE
  /\ \A i \in Indexes(s) : ~s.pages[i + 1].committed

\* A page selected ahead keeps the snapshot coherent (createInitialSnapshot).
LEMMA PreselectKeeps ==
  ASSUME NEW s, Fresh(s), NEW k \in Nat, Count(s) \in 1..k
  PROVE  Fresh(PreselectPage(s, k)) /\ Count(PreselectPage(s, k)) \in 1..(k + 1)
  <1> DEFINE items == SelectRankedPage(Unknown(s) \ Soft, Unknown(s) \cap Soft)
             t     == AddPage(s, k, items)
  <1>1. items \subseteq Unknown(s)
    BY SelectedAreOffered
  <1>2. CASE PreselectPage(s, k) = t /\ Count(s) = k
    <2>1. Coherent(t, Steady)
      <3> HIDE DEF items
      <3> QED
        BY <1>1, <1>2, AddPageKeeps DEF Fresh
    <2>2. s \in Snapshot /\ items \in SUBSET Ranked
      BY <1>1 DEF Fresh, Coherent, Unknown, Snapshot
    <2>3. /\ Count(t) = k + 1 /\ Indexes(t) = Indexes(s) \cup {k} /\ \A i \in Indexes(s) : t.pages[i + 1] = s.pages[i + 1]
          /\ t.pages[k + 1] = [NewPage EXCEPT !.items = items] /\ t.phase = s.phase /\ t.exhausted = s.exhausted
      <3> HIDE DEF items
      <3> QED
        BY <2>2, <1>2, AddPageIs
    <2>4. ~t.pages[k + 1].committed
      BY <2>3 DEF NewPage
    <2>5. Fresh(t)
      <3>1. \A i \in Indexes(t) : ~t.pages[i + 1].committed
        <4> HIDE DEF t
        <4> QED
          BY <2>3, <2>4 DEF Fresh
      <3> HIDE DEF t
      <3> QED
        BY <2>1, <2>3, <3>1 DEF Fresh
    <2>6. Count(t) \in 1..(k + 1)
      BY <2>3
    <2> QED
      BY <2>5, <2>6, <1>2
  <1>3. CASE PreselectPage(s, k) = s
    BY <1>3
  <1> QED
    BY <1>2, <1>3 DEF PreselectPage

Preselecting(f, s, k) == IF k = 0 THEN s ELSE PreselectPage(f[k - 1], k)
Places == 0..(Preselect - 1)

\* The recursion is well founded, so that there is a function that satisfies it.
LEMMA PreselectUnfolds ==
  ASSUME NEW s
  PROVE  \E f : f = [k \in Places |-> Preselecting(f, s, k)]
  <1> DEFINE Good(g, n) == g = [k \in Places |-> g[k]] /\ \A k \in Places : k <= n => g[k] = Preselecting(g, s, k)
             T == {n \in Nat : ~\E g : Good(g, n)}
  <1>1. T = {}
    <2> SUFFICES ASSUME T # {}
                 PROVE  FALSE
      OBVIOUS
    <2>1. PICK n \in T : \A m \in T : n <= m
      <3>1. T \subseteq Nat
        OBVIOUS
      <3> HIDE DEF T
      <3> QED
        BY <3>1, LeastNumber
    <2>2. PICK g : n # 0 => Good(g, n - 1)
      <3>1. n # 0 => n - 1 \in Nat /\ n - 1 \notin T
        BY <2>1
      <3> QED
        BY <3>1
    <2> DEFINE h == [k \in Places |-> Preselecting(g, s, k)]
    <2>3. ASSUME NEW k \in Places, k <= n
          PROVE  h[k] = Preselecting(h, s, k)
      <3>1. CASE k = 0
        BY <3>1 DEF Preselecting
      <3>2. CASE k # 0
        <4>1. k - 1 \in Places /\ k - 1 <= n - 1 /\ n # 0
          BY <2>3, <3>2, Constants DEF Places
        <4>2. g[k - 1] = Preselecting(g, s, k - 1)
          BY <4>1, <2>2
        <4>3. h[k - 1] = g[k - 1]
          BY <4>1, <4>2
        <4> QED
          BY <4>3, <3>2 DEF Preselecting
      <3> QED
        BY <3>1, <3>2
    <2>4. Good(h, n)
      BY <2>3
    <2> QED
      BY <2>4
  <1>2. Preselect \in Nat /\ Preselect \notin T
    BY <1>1, Constants
  <1>3. PICK f : Good(f, Preselect)
    BY <1>2
  <1>4. \A k \in Places : k <= Preselect
    BY Constants DEF Places
  <1>5. f = [k \in Places |-> Preselecting(f, s, k)]
    BY <1>3, <1>4
  <1> QED
    BY <1>5

\* So does the whole loop over the pages selected ahead.
LEMMA PreselectedFresh ==
  ASSUME NEW s, Fresh(s), Count(s) = 1
  PROVE  Fresh(Preselected(s)) /\ Count(Preselected(s)) \in 1..MaxPages
  <1> DEFINE h == CHOOSE f : f = [k \in Places |-> Preselecting(f, s, k)]
  <1>1. h = [k \in Places |-> Preselecting(h, s, k)]
    BY PreselectUnfolds
  <1>2. Preselected(s) = h[Preselect - 1]
    BY DEF Preselected, Preselecting, Places
  <1> HIDE DEF h
  <1> DEFINE OK(k) == Fresh(h[k]) /\ Count(h[k]) \in 1..(k + 1)
             T == {k \in Places : ~OK(k)}
  <1>3. T = {}
    <2> SUFFICES ASSUME T # {}
                 PROVE  FALSE
      OBVIOUS
    <2>1. PICK k \in T : \A m \in T : k <= m
      <3>1. T \subseteq Nat
        BY Constants DEF Places
      <3> HIDE DEF T
      <3> QED
        BY <3>1, LeastNumber
    <2>2. k \in Places /\ ~OK(k) /\ h[k] = Preselecting(h, s, k)
      BY <1>1
    <2>3. CASE k = 0
      BY <2>2, <2>3 DEF Preselecting
    <2>4. CASE k # 0
      <3>1. k \in Nat /\ k - 1 \in Places /\ k - 1 \notin T
        BY <2>1, <2>4, Constants DEF Places
      <3>2. Fresh(h[k - 1]) /\ Count(h[k - 1]) \in 1..k
        BY <3>1
      <3>3. h[k] = PreselectPage(h[k - 1], k)
        BY <2>2, <2>4 DEF Preselecting
      <3>4. Fresh(h[k]) /\ Count(h[k]) \in 1..(k + 1)
        BY <3>1, <3>2, <3>3, PreselectKeeps
      <3> QED
        BY <3>4, <2>2
    <2> QED
      BY <2>3, <2>4
  <1>4. Preselect - 1 \in Places
    BY Constants DEF Places
  <1>5. OK(Preselect - 1)
    BY <1>3, <1>4
  <1> QED
    BY <1>2, <1>5, Constants

\* The snapshot that is not there.
LEMMA Constant ==
  /\ NoSnapshot \in Snapshot /\ Count(NoSnapshot) = 0 /\ Indexes(NoSnapshot) = {}
  <1>1. << >> \in Seq(PageRecord) /\ Len(<< >>) = 0
    BY EmptySeq
  <1> QED
    BY <1>1 DEF NoSnapshot, Snapshot, Count, Indexes

\* What the first request stores.
LEMMA CreationsOK ==
  ASSUME alive = Ranked, stable = Ranked, NEW s \in Creations
  PROVE  SnapshotOK(s, Steady) /\ s.phase = "live" /\ \A i \in Indexes(s) : ~s.pages[i + 1].committed
  <1> DEFINE empty == [NoSnapshot EXCEPT !.phase = "live"]
  <1>1. PICK f \in Fills(empty, Recalled, {}) :
          \E e \in {Preselected(AddPage(f, 0, Selected(f)))} : s = [e EXCEPT !.exhausted = CanDeclareExhausted(e, 0)]
    BY DEF Creations, WithExhausted
  <1>2. PICK g : g = AddPage(f, 0, Selected(f))
    OBVIOUS
  <1>3. PICK e : e = Preselected(g)
    OBVIOUS
  <1>4. s = [e EXCEPT !.exhausted = CanDeclareExhausted(e, 0)]
    BY <1>1, <1>2, <1>3
  <1>5. /\ empty \in Snapshot /\ empty.phase = "live" /\ empty.pages = << >> /\ empty.post = {} /\ empty.pending = {} /\ empty.exhausted = FALSE
        /\ empty.histAt = 0 /\ empty.softAt = 0 /\ empty.histDone = FALSE /\ empty.softDone = FALSE
    BY Constant DEF NoSnapshot, Snapshot
  <1>6. /\ Recalled \in SUBSET Ranked /\ Cardinality(Recalled) <= MaxPool
        /\ Steady \subseteq Historical \cup Soft \cup Recalled /\ Steady \in SUBSET alive
    <2>1. CandidateSet = Recent
      BY DEF CandidateSet, Eligible, Recent
    <2>2. Recent \in SUBSET Ranked
      BY DEF Recent
    <2>3. Best(MaxPool, Recent) \subseteq Recent /\ Cardinality(Best(MaxPool, Recent)) \in 0..MaxPool
      BY <2>2, RankedSet, Constants, BestIs
    <2> QED
      BY <2>1, <2>2, <2>3, Constants DEF Recalled, Steady, Offered
  <1> HIDE DEF empty
  <1>7. /\ f \in Snapshot /\ Cardinality(f.pool) <= MaxPool
        /\ f.post = {} /\ f.pages = << >> /\ f.pending = {} /\ f.phase = "live" /\ f.exhausted = FALSE
        /\ \A p \in Steady : Reachable(f, p)
    <2>1. \A p \in Steady : \/ p \in Recalled \cup Known(empty)
                            \/ p \in Historical /\ ~empty.histDone /\ empty.histAt < p
                            \/ p \in Soft /\ ~empty.softDone /\ empty.softAt < p
      <3>1. \A p \in Historical \cup Soft : 0 < p
        BY Constants
      <3> QED
        BY <3>1, <1>5, <1>6
    <2>2. \A p \in Steady : p \in {} => p \in Recalled \cup Known(empty)
      OBVIOUS
    <2> QED
      BY <2>1, <2>2, <1>1, <1>5, <1>6, FillsAre
  <1>8. Count(f) = 0 /\ Indexes(f) = {}
    BY <1>7, EmptySeq DEF Count, Indexes
  <1>9. Coherent(f, Steady)
    BY <1>7, <1>8 DEF Coherent, FieldsOK, PagesOK
  <1>10. Fresh(g) /\ Count(g) = 1
    <2>1. Selected(f) \subseteq Unknown(f) /\ Selected(f) \in SUBSET Ranked
      BY <1>7, SelectedUnknown DEF Unknown, Snapshot
    <2>2. Coherent(g, Steady)
      BY <2>1, <1>2, <1>8, <1>9, AddPageKeeps
    <2>3. /\ Count(g) = 0 + 1 /\ Indexes(g) = Indexes(f) \cup {0} /\ g.pages[0 + 1] = [NewPage EXCEPT !.items = Selected(f)]
          /\ g.phase = f.phase /\ g.exhausted = f.exhausted
      BY <2>1, <1>2, <1>7, <1>8, AddPageIs
    <2>4. ~g.pages[0 + 1].committed
      BY <2>3 DEF NewPage
    <2>5. \A i \in Indexes(g) : ~g.pages[i + 1].committed
      BY <2>3, <2>4, <1>8
    <2> QED
      BY <2>2, <2>3, <2>5, <1>7, <1>8 DEF Fresh
  <1>11. Fresh(e) /\ Count(e) \in 1..MaxPages
    BY <1>3, <1>10, PreselectedFresh
  <1>12. /\ Coherent(s, Steady) /\ (s.exhausted => AllKnown(s, Steady))
         /\ Count(s) = Count(e) /\ Indexes(s) = Indexes(e) /\ s.pages = e.pages /\ s.phase = e.phase
    <2>1. \A j \in 0..(0 - 1) : e.pages[j + 1].committed
      OBVIOUS
    <2>2. Coherent(e, Steady)
      BY <1>11 DEF Fresh
    <2>4. PICK zero \in Nat : zero = 0
      OBVIOUS
    <2>3. OthersCommitted(e, zero) /\ s = Declared(e, zero)
      BY <2>1, <2>4, <1>4 DEF OthersCommitted, Declared
    <2>5. /\ Coherent(s, Steady) /\ (s.exhausted => AllKnown(s, Steady))
          /\ Count(s) = Count(e) /\ Indexes(s) = Indexes(e) /\ s.pages = e.pages /\ s.phase = e.phase
      BY <2>2, <2>3, DeclaredRightly
    <2> QED
      BY <2>5
  <1> QED
    BY <1>11, <1>12 DEF SnapshotOK, Fresh

-----------------------------------------------------------------------------
(* The next page is built.                                                 *)

AllCommitted(s) == \A j \in Indexes(s) : s.pages[j + 1].committed

WithInvalid(s, i) == [s EXCEPT !.post = @ \cup {<<p, "invalid", i>> : p \in Unknown(s) \ alive}]

\* Posts that can no longer be shown leave for good.
LEMMA KeptOK ==
  ASSUME NEW s, NEW posts, Coherent(s, posts), NEW i \in Nat, NEW t, t = WithInvalid(s, i)
  PROVE  /\ Coherent(t, posts) /\ Known(s) \subseteq Known(t)
         /\ t.pages = s.pages /\ t.pool = s.pool /\ t.phase = s.phase /\ t.exhausted = s.exhausted /\ t.pending = s.pending
         /\ t.histAt = s.histAt /\ t.histDone = s.histDone /\ t.softAt = s.softAt /\ t.softDone = s.softDone
  <1> DEFINE gone == {<<p, "invalid", i>> : p \in Unknown(s) \ alive}
  <1>0. s \in Snapshot /\ FieldsOK(s) /\ PagesOK(s)
    BY DEF Coherent
  <1>1. t = [s EXCEPT !.post = s.post \cup gone]
    BY DEF WithInvalid
  <1>2. gone \in SUBSET (Ranked \X PostKinds \X Nat)
    BY <1>0 DEF PostKinds, Unknown, Snapshot
  <1>3. \A f \in gone : f[1] \notin Known(s) /\ f[2] = "invalid" /\ f[3] = i /\ f = <<f[1], "invalid", i>>
    BY DEF Unknown
  <1> HIDE DEF gone
  <1>4. /\ t.post = s.post \cup gone
        /\ t.pages = s.pages /\ t.pool = s.pool /\ t.phase = s.phase /\ t.exhausted = s.exhausted /\ t.pending = s.pending
        /\ t.histAt = s.histAt /\ t.histDone = s.histDone /\ t.softAt = s.softAt /\ t.softDone = s.softDone
    BY <1>0, <1>1 DEF Snapshot
  <1>5. t \in Snapshot
    BY <1>0, <1>1, <1>2 DEF Snapshot
  <1>6. Known(s) \subseteq Known(t) /\ Count(t) = Count(s) /\ Indexes(t) = Indexes(s)
    BY <1>4 DEF Known, Count, Indexes
  <1>7. \A j : CommittedIn(t, j) <=> CommittedIn(s, j)
    BY <1>4, <1>6 DEF CommittedIn
  <1>8. FieldsOK(t)
    <2>1. ASSUME NEW f \in t.post, NEW g \in t.post, f[1] = g[1]
          PROVE  f = g
      <3>1. CASE f \in s.post /\ g \in s.post
        BY <3>1, <2>1, <1>0 DEF FieldsOK
      <3>2. CASE f \in gone /\ g \in gone
        BY <3>2, <2>1, <1>3
      <3>3. CASE f \in s.post /\ g \in gone
        BY <3>3, <2>1, <1>0, <1>3, Field
      <3>4. CASE f \in gone /\ g \in s.post
        BY <3>4, <2>1, <1>0, <1>3, Field
      <3> QED
        BY <3>1, <3>2, <3>3, <3>4, <1>4
    <2>2. ASSUME NEW f \in t.post
          PROVE  (f[2] = "used" => CommittedIn(t, f[3])) /\ (f[2] = "reserved" => f[3] \in Indexes(t))
      <3>1. CASE f \in s.post
        BY <3>1, <1>0, <1>6, <1>7 DEF FieldsOK
      <3>2. CASE f \in gone
        BY <3>2, <1>3
      <3> QED
        BY <3>1, <3>2, <1>4
    <2> QED
      BY <2>1, <2>2 DEF FieldsOK
  <1>9. PagesOK(t)
    <2>1. \A p, j : /\ <<p, "used", j>> \in t.post <=> <<p, "used", j>> \in s.post
                    /\ <<p, "reserved", j>> \in t.post <=> <<p, "reserved", j>> \in s.post
      <3>1. \A p, j : <<p, "used", j>> \notin gone /\ <<p, "reserved", j>> \notin gone
        BY <1>3
      <3> QED
        BY <3>1, <1>4
    <2>2. \A j : FieldsOf(t, "used", j) = FieldsOf(s, "used", j) /\ FieldsOf(t, "reserved", j) = FieldsOf(s, "reserved", j)
      BY <2>1 DEF FieldsOf
    <2>3. \A j \in Indexes(t) : PageOK(t, j)
      BY <2>2, <1>0, <1>4, <1>6 DEF PagesOK, PageOK
    <2> QED
      BY <2>3, <1>0, <1>4, <1>6, <1>7 DEF PagesOK
  <1>10. \A p \in posts : Reachable(t, p)
    BY <1>4, <1>6 DEF Coherent, Reachable
  <1> QED
    BY <1>4, <1>5, <1>6, <1>8, <1>9, <1>10 DEF Coherent

\* A page more, and its declaration.
LEMMA LastPageOK ==
  ASSUME NEW s, NEW posts, Coherent(s, posts), AllCommitted(s), NEW items, items \subseteq Unknown(s), NEW i, i = Count(s),
         NEW g, g = AddPage(s, i, items)
  PROVE  /\ Coherent(g, posts) /\ OthersCommitted(g, i) /\ i \in Nat /\ Count(g) = i + 1 /\ Indexes(g) = Indexes(s) \cup {i}
         /\ \A j \in Indexes(s) : g.pages[j + 1] = s.pages[j + 1]
         /\ ~g.pages[i + 1].committed
         /\ g.phase = s.phase /\ g.exhausted = s.exhausted /\ g.pending = s.pending /\ Known(s) \subseteq Known(g)
         /\ posts \subseteq Known(s) => AllKnown(g, posts)
  <1>1. s \in Snapshot /\ items \in SUBSET Ranked
    BY DEF Coherent, Unknown, Snapshot
  <1>2. Coherent(g, posts) /\ Known(g) = Known(s) \cup items
    BY AddPageKeeps
  <1>3. /\ i \in Nat /\ Count(g) = i + 1 /\ Indexes(g) = Indexes(s) \cup {i}
        /\ \A j \in Indexes(s) : g.pages[j + 1] = s.pages[j + 1]
        /\ g.pages[i + 1] = [NewPage EXCEPT !.items = items]
        /\ g.phase = s.phase /\ g.exhausted = s.exhausted /\ g.pending = s.pending
    BY <1>1, AddPageIs
  <1>4. ~g.pages[i + 1].committed
    BY <1>3 DEF NewPage
  <1>5. \A j \in 0..(i - 1) : g.pages[j + 1].committed
    BY <1>3 DEF AllCommitted, Indexes
  <1>6. 0..(Count(g) - 2) = 0..(i - 1)
    <2>1. Count(g) - 2 = i - 1
      BY <1>3
    <2> QED
      BY <2>1
  <1>7. posts \subseteq Known(s) => AllKnown(g, posts)
    BY <1>2, <1>5, <1>6 DEF AllKnown
  <1> QED
    BY <1>2, <1>3, <1>4, <1>5, <1>7 DEF OthersCommitted

\* What a build stores.
LEMMA BuildsOK ==
  ASSUME NEW s, NEW posts \in SUBSET alive, SnapshotOK(s, posts), AllCommitted(s), NEW i, i = Count(s), i < MaxPages, NEW t \in Builds(s, i)
  PROVE  /\ SnapshotOK(t, posts) /\ i \in Nat /\ Count(t) = i + 1 /\ Indexes(t) = Indexes(s) \cup {i} /\ t.phase = s.phase /\ t.pending = s.pending
         /\ \A j \in Indexes(s) : t.pages[j + 1] = s.pages[j + 1]
         /\ ~t.pages[i + 1].committed
         /\ AllKnown(s, posts) => AllKnown(t, posts)
  <1>0. Coherent(s, posts) /\ s \in Snapshot /\ Count(s) \in 1..MaxPages /\ i \in Nat
    BY DEF SnapshotOK, Coherent
  <1>1. CASE s.exhausted
    <2>1. t = AddPage(s, i, {})
      BY <1>1 DEF Builds
    <2>2. {} \subseteq Unknown(s)
      OBVIOUS
    <2>3. /\ Coherent(t, posts) /\ Count(t) = i + 1 /\ Indexes(t) = Indexes(s) \cup {i}
          /\ \A j \in Indexes(s) : t.pages[j + 1] = s.pages[j + 1]
          /\ ~t.pages[i + 1].committed /\ t.phase = s.phase /\ t.pending = s.pending
          /\ posts \subseteq Known(s) => AllKnown(t, posts)
      BY <2>1, <2>2, <1>0, LastPageOK
    <2>4. posts \subseteq Known(s)
      BY <1>1 DEF SnapshotOK, AllKnown
    <2>5. Count(t) \in 1..MaxPages
      BY <2>3, <1>0, Constants
    <2> QED
      BY <2>3, <2>4, <2>5, <1>0 DEF SnapshotOK
  <1>2. CASE ~s.exhausted
    <2>1. PICK kept : kept = WithInvalid(s, i)
      OBVIOUS
    <2> DEFINE live == Eligible(Unknown(s))
               excluded == s.pool \cup Known(s)
    <2>2. PICK f \in Fills(kept, live, excluded) : t = Declared(AddPage(f, i, Selected(f)), i)
      BY <2>1, <1>2 DEF Builds, WithExhausted, WithInvalid, Declared
    <2>3. PICK g : g = AddPage(f, i, Selected(f))
      OBVIOUS
    <2>4. /\ Coherent(kept, posts) /\ Known(s) \subseteq Known(kept)
          /\ kept.pages = s.pages /\ kept.pool = s.pool /\ kept.phase = s.phase /\ kept.pending = s.pending
          /\ kept.histAt = s.histAt /\ kept.histDone = s.histDone /\ kept.softAt = s.softAt /\ kept.softDone = s.softDone
      <3>1. Coherent(s, posts) /\ i \in Nat
        BY <1>0
      <3> QED
        BY <2>1, <3>1, KeptOK
    <2>5. live \in SUBSET Ranked /\ Cardinality(live) <= MaxPool
      <3>1. s.pool \in SUBSET Ranked /\ live \subseteq s.pool /\ Cardinality(s.pool) <= MaxPool
        BY <1>0 DEF Eligible, Unknown, Coherent, Snapshot
      <3>2. Cardinality(live) <= Cardinality(s.pool)
        BY <3>1, RankedSet, FS_Subset
      <3> QED
        BY <3>1, <3>2, RankedSet, Constants
    <2>6. ASSUME NEW p \in posts
          PROVE  /\ \/ p \in live \cup Known(kept)
                    \/ p \in Historical /\ ~kept.histDone /\ kept.histAt < p
                    \/ p \in Soft /\ ~kept.softDone /\ kept.softAt < p
                 /\ p \in excluded => p \in live \cup Known(kept)
      <3>1. Reachable(s, p)
        BY <1>0 DEF Coherent
      <3>2. p \in excluded => p \in live \cup Known(kept)
        BY <2>4 DEF Eligible, Unknown
      <3> QED
        BY <3>1, <3>2, <2>4 DEF Reachable
    <2> HIDE DEF live, excluded
    <2>7. /\ f \in Snapshot /\ Cardinality(f.pool) <= MaxPool
          /\ f.post = kept.post /\ f.pages = kept.pages /\ f.pending = kept.pending /\ f.phase = kept.phase
          /\ \A p \in posts : Reachable(f, p)
      <3>1. kept \in Snapshot
        BY <2>4 DEF Coherent
      <3> QED
        BY <3>1, <2>2, <2>5, <2>6, FillsAre
    <2>8. Known(f) = Known(kept) /\ Count(f) = Count(s) /\ Indexes(f) = Indexes(s) /\ Indexes(kept) = Indexes(s) /\ f.pages = s.pages
      BY <2>4, <2>7 DEF Known, Count, Indexes
    <2>9. Coherent(f, posts) /\ AllCommitted(f)
      <3>1. AllCommitted(f)
        BY <2>8 DEF AllCommitted
      <3>2. FieldsOK(f)
        BY <2>4, <2>7, <2>8 DEF Coherent, FieldsOK, CommittedIn
      <3>3. PagesOK(f)
        <4>1. \A j \in Indexes(f) : PageOK(kept, j) /\ kept.pages[j + 1].committed /\ f.pages[j + 1] = kept.pages[j + 1]
          BY <3>1, <2>4, <2>7, <2>8 DEF Coherent, PagesOK, AllCommitted
        <4>2. \A j : FieldsOf(f, "used", j) = FieldsOf(kept, "used", j)
          BY <2>7 DEF FieldsOf
        <4>3. \A j \in Indexes(f) : PageOK(f, j)
          BY <4>1, <4>2 DEF PageOK
        <4> QED
          BY <4>3, <2>4, <2>7, <2>8 DEF Coherent, PagesOK, CommittedIn
      <3> QED
        BY <3>1, <3>2, <3>3, <2>7 DEF Coherent
    <2>10. Selected(f) \subseteq Unknown(f)
      BY SelectedUnknown
    <2>11. /\ Coherent(g, posts) /\ OthersCommitted(g, i) /\ Count(g) = i + 1 /\ Indexes(g) = Indexes(f) \cup {i}
           /\ \A j \in Indexes(f) : g.pages[j + 1] = f.pages[j + 1]
           /\ ~g.pages[i + 1].committed /\ g.phase = f.phase /\ g.pending = f.pending
           /\ posts \subseteq Known(f) => AllKnown(g, posts)
      BY <2>3, <2>8, <2>9, <2>10, LastPageOK
    <2>12. /\ Coherent(t, posts) /\ (t.exhausted => AllKnown(t, posts))
           /\ Count(t) = Count(g) /\ Indexes(t) = Indexes(g) /\ t.pages = g.pages /\ t.phase = g.phase /\ t.pending = g.pending
           /\ AllKnown(t, posts) <=> AllKnown(g, posts)
      BY <2>2, <2>3, <2>11, <1>0, DeclaredRightly
    <2>13. AllKnown(s, posts) => AllKnown(t, posts)
      BY <2>4, <2>8, <2>11, <2>12 DEF AllKnown
    <2>14. Count(t) \in 1..MaxPages
      BY <2>11, <2>12, <1>0, Constants
    <2>15. /\ Indexes(t) = Indexes(s) \cup {i} /\ t.phase = s.phase /\ t.pending = s.pending
           /\ \A j \in Indexes(s) : t.pages[j + 1] = s.pages[j + 1]
           /\ ~t.pages[i + 1].committed
      BY <2>4, <2>7, <2>8, <2>11, <2>12
    <2> QED
      BY <2>11, <2>12, <2>13, <2>14, <2>15, <1>0 DEF SnapshotOK
  <1> QED
    BY <1>1, <1>2

-----------------------------------------------------------------------------
(* A page is committed.                                                    *)

\* What commitMappedPage asks for, and what its caller and the order of the pages
\* add: every page before is committed, no Post is both returned and rejected.
CanCommit(s, i, returned, rejected) ==
  /\ i \in Indexes(s) /\ ~s.pages[i + 1].committed
  /\ returned \subseteq s.pages[i + 1].items /\ returned \cap rejected = {}
  /\ returned # s.pages[i + 1].items => \A j \in Indexes(s) : i < j => ~s.pages[j + 1].committed
  /\ \A j \in Indexes(s) : j < i => s.pages[j + 1].committed

\* Posts of the page and of the pages that end with it.
GoneFrom(s, i, last) ==
  {p \in Ranked : p \in s.pages[i + 1].items \/ \E j \in Indexes(s) : j > last /\ p \in s.pages[j + 1].items}

\* The snapshot after the commit, when its last page is then the given one.
CommittedTo(t, s, i, returned, rejected, last) ==
  /\ t \in Snapshot /\ t.pool = s.pool /\ t.phase = s.phase
  /\ t.histAt = s.histAt /\ t.histDone = s.histDone /\ t.softAt = s.softAt /\ t.softDone = s.softDone
  /\ last \in Indexes(s) /\ i <= last /\ Count(t) = last + 1 /\ Indexes(t) = 0..last
  /\ last = Count(s) - 1 \/ (last = i /\ returned # s.pages[i + 1].items)
  /\ t.pages[i + 1] = [s.pages[i + 1] EXCEPT !.committed = TRUE, !.returned = returned]
  /\ \A j \in Indexes(t) : j # i => t.pages[j + 1] = s.pages[j + 1]
  /\ t.post = {f \in s.post : f[1] \notin GoneFrom(s, i, last)}
                \cup {<<p, "used", i>> : p \in returned} \cup {<<p, "rejected", i>> : p \in s.pages[i + 1].items \cap rejected}
  /\ t.pending = s.pending \cup {i}
  /\ t.exhausted => CanDeclareExhausted(t, i)

\* A page is a page record.
LEMMA PageTyped ==
  ASSUME NEW s \in Snapshot, NEW i \in Indexes(s)
  PROVE  /\ i \in Nat /\ i + 1 \in 1..Len(s.pages) /\ s.pages[i + 1] \in PageRecord /\ s.pages[i + 1].items \in SUBSET Ranked
         /\ s.pages[i + 1].returned \in SUBSET Ranked
  <1>1. s.pages \in Seq(PageRecord)
    BY DEF Snapshot
  <1>2. i \in Nat /\ i + 1 \in 1..Len(s.pages)
    BY <1>1, LenProperties DEF Indexes, Count
  <1>3. s.pages[i + 1] \in PageRecord
    BY <1>1, <1>2, ElementOfSeq
  <1> QED
    BY <1>2, <1>3 DEF PageRecord

\* The pages that end with a page that is not returned as it was stored.
LaterPages(s, i, returned) == IF returned # s.pages[i + 1].items THEN SubSeq(s.pages, i + 2, Count(s)) ELSE <<>>

\* The pages a commit drops: none, or all behind the page.
LEMMA LaterPagesAre ==
  ASSUME NEW s \in Snapshot, NEW i \in Indexes(s), NEW returned
  PROVE  \E last \in Indexes(s) :
           /\ last = Count(s) - Len(LaterPages(s, i, returned)) - 1 /\ i <= last
           /\ last = Count(s) - 1 \/ (last = i /\ returned # s.pages[i + 1].items)
           /\ \A j \in DOMAIN LaterPages(s, i, returned) : \E k \in Indexes(s) : k > last /\ LaterPages(s, i, returned)[j] = s.pages[k + 1]
           /\ \A k \in Indexes(s) : k > last => \E j \in DOMAIN LaterPages(s, i, returned) : LaterPages(s, i, returned)[j] = s.pages[k + 1]
           /\ Len(LaterPages(s, i, returned)) \in Nat
  <1>1. s.pages \in Seq(PageRecord) /\ Count(s) = Len(s.pages) /\ i \in Nat
    BY PageTyped DEF Count, Snapshot
  <1>2. PICK n \in Nat : n = Count(s)
    BY <1>1, LenProperties
  <1>3. i < n /\ Indexes(s) = 0..(n - 1)
    BY <1>1, <1>2 DEF Indexes
  <1>4. PICK later : later = LaterPages(s, i, returned)
    OBVIOUS
  <1>5. CASE returned = s.pages[i + 1].items
    <2>1. Len(later) = 0 /\ DOMAIN later = {}
      BY <1>4, <1>5, EmptySeq DEF LaterPages
    <2>2. n - 1 \in Indexes(s) /\ i <= n - 1 /\ n - 1 = n - 0 - 1 /\ \A k \in Indexes(s) : ~(k > n - 1)
      BY <1>1, <1>2, <1>3
    <2> QED
      BY <2>1, <2>2, <1>2, <1>4
  <1>6. CASE returned # s.pages[i + 1].items
    <2>1. later = SubSeq(s.pages, i + 2, n)
      BY <1>2, <1>4, <1>6 DEF LaterPages
    <2>2. PICK m \in Int : m = i + 2
      BY <1>1
    <2>3. \A j \in m..n : s.pages[j] \in PageRecord
      <3>1. \A j \in m..n : j \in 1..Len(s.pages)
        BY <1>1, <1>2, <2>2
      <3> QED
        BY <3>1, <1>1, ElementOfSeq
    <2>4. /\ later \in Seq(PageRecord) /\ Len(later) = (IF m <= n THEN n - m + 1 ELSE 0)
          /\ \A j \in 1..n - m + 1 : later[j] = s.pages[m + j - 1]
      BY <2>1, <2>2, <2>3, SubSeqProperties
    <2>5. Len(later) = n - i - 1 /\ Len(later) \in Nat
      BY <2>2, <2>4, <1>1, <1>2, <1>3
    <2>6. DOMAIN later = 1..(n - i - 1)
      BY <2>4, <2>5, LenProperties
    <2>7. ASSUME NEW j \in DOMAIN later
          PROVE  \E k \in Indexes(s) : k > i /\ later[j] = s.pages[k + 1]
      <3>1. j \in Nat /\ j \in 1..(n - m + 1) /\ j + i \in 0..(n - 1) /\ j + i > i /\ m + j - 1 = (j + i) + 1
        BY <2>2, <2>6, <1>1, <1>2, <1>3
      <3>2. later[j] = s.pages[(j + i) + 1]
        BY <3>1, <2>4
      <3> QED
        BY <3>1, <3>2, <1>3
    <2>8. ASSUME NEW k \in Indexes(s), k > i
          PROVE  \E j \in DOMAIN later : later[j] = s.pages[k + 1]
      <3>1. k \in Nat /\ k - i \in 1..(n - m + 1) /\ k - i \in 1..(n - i - 1) /\ m + (k - i) - 1 = k + 1
        BY <2>2, <2>8, <1>1, <1>2, <1>3
      <3>2. later[k - i] = s.pages[k + 1]
        BY <3>1, <2>4
      <3> QED
        BY <3>1, <3>2, <2>6
    <2>9. PICK len \in Nat : len = Len(later) /\ len = n - i - 1
      BY <2>5
    <2>10. i = n - len - 1
      <3>1. i \in Nat
        BY <1>1
      <3> QED
        BY <3>1, <2>9
    <2>11. i = Count(s) - Len(later) - 1
      BY <2>9, <2>10, <1>2
    <2> QED
      <3>1. /\ i = Count(s) - Len(later) - 1 /\ i <= i
            /\ i = Count(s) - 1 \/ (i = i /\ returned # s.pages[i + 1].items)
            /\ \A j \in DOMAIN later : \E k \in Indexes(s) : k > i /\ later[j] = s.pages[k + 1]
            /\ \A k \in Indexes(s) : k > i => \E j \in DOMAIN later : later[j] = s.pages[k + 1]
            /\ Len(later) \in Nat
        BY <2>5, <2>7, <2>8, <2>11, <1>1, <1>6
      <3> WITNESS i \in Indexes(s)
      <3> QED
        BY <3>1, <1>4
  <1> QED
    BY <1>5, <1>6

\* The snapshot after commitMappedPage, field by field.
LEMMA CommittedIs ==
  ASSUME NEW s, NEW posts, Coherent(s, posts), NEW i, NEW returned, NEW rejected, CanCommit(s, i, returned, rejected),
         NEW t, t = Committed(s, i, returned, rejected)
  PROVE  \E last : CommittedTo(t, s, i, returned, rejected, last)
  <1> DEFINE page     == s.pages[i + 1]
             shown    == [page EXCEPT !.committed = TRUE, !.returned = returned]
             later    == LaterPages(s, i, returned)
             released == (page.items \ (returned \cup rejected)) \cup UNION {later[j].items : j \in DOMAIN later}
             pool     == IF released = {} THEN s.pool ELSE released \cup Best(MaxPool - Cardinality(released), s.pool \ released)
             ps       == [SubSeq(s.pages, 1, Count(s) - Len(later)) EXCEPT ![i + 1] = shown]
             post     == {f \in s.post : f[1] \notin page.items \cup released}
                           \cup {<<p, "used", i>> : p \in returned} \cup {<<p, "rejected", i>> : p \in page.items \cap rejected}
             next     == [s EXCEPT !.pages = ps, !.pool = pool, !.post = post, !.pending = s.pending \cup {i}]
  <1>2. t = [next EXCEPT !.exhausted = released = {} /\ CanDeclareExhausted(next, i)]
    BY DEF Committed, LaterPages
  <1>5. released = (page.items \ (returned \cup rejected)) \cup UNION {later[j].items : j \in DOMAIN later}
    OBVIOUS
  <1>7. pool = IF released = {} THEN s.pool ELSE released \cup Best(MaxPool - Cardinality(released), s.pool \ released)
    OBVIOUS
  <1>9. ps = [SubSeq(s.pages, 1, Count(s) - Len(later)) EXCEPT ![i + 1] = shown]
    OBVIOUS
  <1>11. post = {f \in s.post : f[1] \notin page.items \cup released}
                   \cup {<<p, "used", i>> : p \in returned} \cup {<<p, "rejected", i>> : p \in page.items \cap rejected}
    OBVIOUS
  <1>13. next = [s EXCEPT !.pages = ps, !.pool = pool, !.post = post, !.pending = s.pending \cup {i}]
    OBVIOUS
  <1>14. later = LaterPages(s, i, returned)
    OBVIOUS
  <1> HIDE DEF later, released, pool, ps, post, next
  <1>0. s \in Snapshot /\ i \in Indexes(s) /\ Cardinality(s.pool) <= MaxPool /\ FieldsOK(s) /\ PagesOK(s)
    BY DEF Coherent, CanCommit
  <1>1. page \in PageRecord /\ i \in Nat /\ page.items \in SUBSET Ranked /\ returned \in SUBSET Ranked
    BY <1>0, PageTyped DEF CanCommit
  <1>3. PICK last \in Indexes(s) :
          /\ last = Count(s) - Len(later) - 1 /\ i <= last
          /\ last = Count(s) - 1 \/ (last = i /\ returned # page.items)
          /\ \A j \in DOMAIN later : \E k \in Indexes(s) : k > last /\ later[j] = s.pages[k + 1]
          /\ \A k \in Indexes(s) : k > last => \E j \in DOMAIN later : later[j] = s.pages[k + 1]
          /\ Len(later) \in Nat
    BY <1>0, <1>14, LaterPagesAre
  <1>4. i <= last /\ (last = Count(s) - 1 \/ (last = i /\ returned # page.items))
    BY <1>3
  <1>6. page.items \cup released = GoneFrom(s, i, last)
    <2>1. ASSUME NEW p \in page.items \cup released
          PROVE  p \in GoneFrom(s, i, last)
      <3>1. CASE p \in page.items
        BY <3>1, <1>1 DEF GoneFrom
      <3>2. CASE \E j \in DOMAIN later : p \in later[j].items
        <4>1. PICK j \in DOMAIN later : p \in later[j].items
          BY <3>2
        <4>2. PICK k \in Indexes(s) : k > last /\ later[j] = s.pages[k + 1]
          BY <1>3
        <4>3. p \in s.pages[k + 1].items
          BY <4>1, <4>2
        <4> QED
          BY <4>2, <4>3, <1>0, PageTyped DEF GoneFrom
      <3> QED
        BY <2>1, <3>1, <3>2, <1>5
    <2>2. ASSUME NEW p \in GoneFrom(s, i, last), p \notin page.items
          PROVE  p \in released
      <3>1. PICK j \in Indexes(s) : j > last /\ p \in s.pages[j + 1].items
        BY <2>2 DEF GoneFrom
      <3>2. \E k \in DOMAIN later : p \in later[k].items
        BY <3>1, <1>3
      <3> QED
        BY <3>2, <1>5
    <2> QED
      BY <2>1, <2>2
  <1>15. released \subseteq s.pool
    <2>1. ASSUME NEW j \in Indexes(s), ~s.pages[j + 1].committed
          PROVE  s.pages[j + 1].items \subseteq s.pool
      BY <2>1, <1>0 DEF PagesOK, PageOK
    <2>2. page.items \subseteq s.pool
      BY <2>1, <1>0 DEF CanCommit
    <2>3. ASSUME NEW j \in DOMAIN later
          PROVE  later[j].items \subseteq s.pool
      <3>2. PICK k \in Indexes(s) : k > last /\ later[j] = s.pages[k + 1]
        BY <1>3
      <3>3. returned # page.items /\ k > i
        <4>1. last # Count(s) - 1
          BY <3>2, <1>0, PageTyped DEF Indexes, Count
        <4> QED
          BY <4>1, <3>2, <1>4
      <3>4. ~s.pages[k + 1].committed
        BY <3>2, <3>3 DEF CanCommit
      <3> QED
        BY <3>2, <3>4, <2>1
    <2> QED
      BY <2>2, <2>3, <1>5
  <1>8. pool = s.pool
    <2> DEFINE rest == s.pool \ released
               room == MaxPool - Cardinality(released)
    <2>1. s.pool \in SUBSET Ranked /\ released \in SUBSET Ranked /\ rest \in SUBSET Ranked
      BY <1>0, <1>15 DEF Snapshot
    <2>2. Cardinality(rest) <= room /\ room \in Nat
      <3>1. s.pool \cap released = released
        BY <1>15
      <3>2. Cardinality(rest) = Cardinality(s.pool) - Cardinality(released)
        BY <3>1, <2>1, RankedSet, FS_Difference
      <3> QED
        BY <3>2, <2>1, <1>0, RankedSet, Constants
    <2>3. Best(room, rest) = rest
      <3> HIDE DEF rest, room
      <3> QED
        BY <2>1, <2>2, RankedSet, BestIs
    <2> QED
      BY <2>3, <1>7, <1>15
  <1>10. /\ ps \in Seq(PageRecord) /\ Len(ps) = last + 1 /\ ps[i + 1] = shown
         /\ \A j \in 0..last : j # i => ps[j + 1] = s.pages[j + 1]
    <2>1. s.pages \in Seq(PageRecord) /\ Count(s) = Len(s.pages) /\ Count(s) \in Nat /\ last \in Nat /\ last < Count(s)
      <3>1. s.pages \in Seq(PageRecord)
        BY <1>0 DEF Snapshot
      <3> QED
        BY <3>1, <1>0, <1>4, LenProperties, PageTyped DEF Count
    <2>2. Len(later) \in Nat
      BY <1>3
    <2>3. PICK n \in Nat : n = Count(s) - Len(later) /\ n = last + 1
      <3>1. PICK len \in Nat, c \in Nat : len = Len(later) /\ c = Count(s)
        BY <2>1, <2>2
      <3>2. last = c - len - 1
        BY <3>1, <1>3
      <3>3. c - len \in Nat /\ c - len = last + 1
        BY <3>1, <3>2, <2>1
      <3> QED
        BY <3>1, <3>3
    <2>4. PICK q : q = SubSeq(s.pages, 1, n)
      OBVIOUS
    <2>5. /\ q \in Seq(PageRecord) /\ Len(q) = n
          /\ \A j \in 1..n : q[j] = s.pages[j]
      <3>1. \A j \in 1..n : s.pages[j] \in PageRecord
        <4>1. \A j \in 1..n : j \in 1..Len(s.pages)
          BY <2>1, <2>3
        <4> QED
          BY <4>1, <2>1, ElementOfSeq
      <3>2. /\ q \in Seq(PageRecord) /\ Len(q) = (IF 1 <= n THEN n - 1 + 1 ELSE 0)
            /\ \A j \in 1..n - 1 + 1 : q[j] = s.pages[1 + j - 1]
        <4>1. 1 \in Int /\ n \in Int
          BY <2>3
        <4> QED
          BY <4>1, <3>1, <2>4, SubSeqProperties
      <3>3. \A j \in 1..n : j \in 1..n - 1 + 1 /\ 1 + j - 1 = j
        BY <2>3
      <3> QED
        BY <3>2, <3>3, <2>1, <2>3
    <2>6. i + 1 \in 1..Len(q) /\ \A j \in 0..last : j + 1 \in 1..n /\ (j # i => j + 1 # i + 1)
      BY <2>1, <2>3, <2>5, <1>1, <1>4
    <2>7. shown \in PageRecord
      BY <1>1 DEF PageRecord
    <2>8. ps = [q EXCEPT ![i + 1] = shown]
      BY <1>9, <2>3, <2>4
    <2>9. ps \in Seq(PageRecord) /\ Len(ps) = n /\ \A j \in 1..n : ps[j] = IF j = i + 1 THEN shown ELSE q[j]
      <3> HIDE DEF shown
      <3> QED
        BY <2>5, <2>6, <2>7, <2>8, ExceptSeq
    <2> QED
      BY <2>3, <2>5, <2>6, <2>9
  <1>12. post \in SUBSET (Ranked \X PostKinds \X Nat)
    <2>1. \A p \in returned : <<p, "used", i>> \in Ranked \X PostKinds \X Nat
      BY <1>1 DEF PostKinds
    <2>2. \A p \in page.items : <<p, "rejected", i>> \in Ranked \X PostKinds \X Nat
      BY <1>1 DEF PostKinds
    <2>3. s.post \subseteq Ranked \X PostKinds \X Nat
      BY <1>0 DEF Snapshot
    <2> QED
      BY <2>1, <2>2, <2>3, <1>11
  <1>12a. PICK b \in BOOLEAN : b = (released = {} /\ CanDeclareExhausted(next, i))
    BY Zenon
  <1>16. t = [next EXCEPT !.exhausted = b]
    BY <1>2, <1>12a
  <1> HIDE DEF page, shown
  <1>17. /\ t.pages = ps /\ t.pool = s.pool /\ t.post = post /\ t.pending = s.pending \cup {i} /\ t.phase = s.phase
         /\ t.histAt = s.histAt /\ t.histDone = s.histDone /\ t.softAt = s.softAt /\ t.softDone = s.softDone /\ t.exhausted = b
         /\ next.pages = ps /\ next.pool = s.pool /\ next.post = post /\ next.histDone = s.histDone /\ next.softDone = s.softDone
    BY <1>0, <1>8, <1>13, <1>16 DEF Snapshot
  <1>18. t \in Snapshot
    <2>1. ps \in Seq(PageRecord) /\ s.pending \cup {i} \in SUBSET Nat
      BY <1>0, <1>1, <1>10 DEF Snapshot
    <2>2. next \in Snapshot
      BY <2>1, <1>0, <1>8, <1>12, <1>13 DEF Snapshot
    <2> QED
      BY <2>2, <1>16 DEF Snapshot
  <1>19. Count(t) = last + 1 /\ Indexes(t) = 0..last
    <2>1. last \in Nat
      BY <1>0, <1>4, PageTyped
    <2> QED
      BY <2>1, <1>10, <1>17 DEF Count, Indexes
  <1>20. t.exhausted => CanDeclareExhausted(t, i)
    <2>1. CanDeclareExhausted(next, i) => CanDeclareExhausted(t, i)
      BY <1>17 DEF CanDeclareExhausted, Count, Unknown, Known
    <2> QED
      BY <2>1, <1>12a, <1>17
  <1>21. CommittedTo(t, s, i, returned, rejected, last)
    BY <1>4, <1>6, <1>10, <1>11, <1>17, <1>18, <1>19, <1>20 DEF CommittedTo, page, shown
  <1> QED
    BY <1>21

\* What the commit leaves of a snapshot.
Commits(s, t, posts, i, returned) ==
  /\ SnapshotOK(t, posts) /\ t.phase = s.phase
  /\ i \in Indexes(t) /\ Indexes(t) \subseteq Indexes(s) /\ \A j \in Indexes(s) : j <= i \/ s.pages[j + 1].committed => j \in Indexes(t)
  /\ t.pages[i + 1] = [s.pages[i + 1] EXCEPT !.committed = TRUE, !.returned = returned]
  /\ \A j \in Indexes(t) : j # i => t.pages[j + 1] = s.pages[j + 1]
  /\ t.pending = s.pending \cup {i}
  /\ AllKnown(s, posts) => AllKnown(t, posts)

\* commitMappedPage keeps the snapshot in order, whatever the response left out.
LEMMA CommittedOK ==
  ASSUME NEW s, NEW posts, SnapshotOK(s, posts), NEW i, NEW returned, NEW rejected, CanCommit(s, i, returned, rejected),
         s.pages[i + 1].items \cap posts \subseteq returned,
         NEW t, t = Committed(s, i, returned, rejected)
  PROVE  Commits(s, t, posts, i, returned)
  <1>0. Coherent(s, posts) /\ s \in Snapshot /\ FieldsOK(s) /\ PagesOK(s) /\ i \in Indexes(s)
    BY DEF SnapshotOK, Coherent, CanCommit
  <1>1. PICK last : CommittedTo(t, s, i, returned, rejected, last)
    BY <1>0, CommittedIs
  <1> DEFINE gone == GoneFrom(s, i, last)
  <1>2. /\ t \in Snapshot /\ t.pool = s.pool /\ t.phase = s.phase
        /\ t.histAt = s.histAt /\ t.histDone = s.histDone /\ t.softAt = s.softAt /\ t.softDone = s.softDone
        /\ last \in Indexes(s) /\ i <= last /\ Count(t) = last + 1 /\ Indexes(t) = 0..last
        /\ last = Count(s) - 1 \/ (last = i /\ returned # s.pages[i + 1].items)
        /\ t.pages[i + 1] = [s.pages[i + 1] EXCEPT !.committed = TRUE, !.returned = returned]
        /\ \A j \in Indexes(t) : j # i => t.pages[j + 1] = s.pages[j + 1]
        /\ t.post = {f \in s.post : f[1] \notin gone}
                      \cup {<<p, "used", i>> : p \in returned} \cup {<<p, "rejected", i>> : p \in s.pages[i + 1].items \cap rejected}
        /\ t.pending = s.pending \cup {i}
        /\ t.exhausted => CanDeclareExhausted(t, i)
    BY <1>1 DEF CommittedTo
  <1>3. /\ ~s.pages[i + 1].committed
        /\ returned \subseteq s.pages[i + 1].items /\ returned \cap rejected = {}
        /\ returned # s.pages[i + 1].items => \A j \in Indexes(s) : i < j => ~s.pages[j + 1].committed
        /\ \A j \in Indexes(s) : j < i => s.pages[j + 1].committed
    BY DEF CanCommit
  <1>4. /\ i \in Nat /\ last \in Nat /\ Count(s) \in Nat /\ \A j \in Indexes(s) : j \in Nat /\ j < Count(s)
        /\ \A j \in Nat : j < Count(s) => j \in Indexes(s)
    <2>1. s.pages \in Seq(PageRecord) /\ Count(s) \in Nat
      BY <1>0, LenProperties DEF Snapshot, Count
    <2> QED
      BY <2>1, <1>0, <1>2 DEF Indexes
  <1>5. Indexes(t) \subseteq Indexes(s) /\ i \in Indexes(t) /\ \A j \in Indexes(s) : j <= i => j \in Indexes(t)
    BY <1>2, <1>4
  <1>6. ASSUME NEW j \in Indexes(s), j \notin Indexes(t)
        PROVE  j > last /\ last = i /\ ~s.pages[j + 1].committed
    <2>1. j > last /\ last # Count(s) - 1
      BY <1>2, <1>4, <1>6
    <2> QED
      BY <2>1, <1>2, <1>3, <1>4
  \* The states of Posts that go are reservations of the pages that end here.
  <1>7. ASSUME NEW p \in gone
        PROVE  \E j \in Indexes(s) : /\ j = i \/ j \notin Indexes(t)
                                     /\ p \in s.pages[j + 1].items /\ ~s.pages[j + 1].committed /\ <<p, "reserved", j>> \in s.post /\ p \in s.pool
    <2>1. ASSUME NEW j \in Indexes(s), p \in s.pages[j + 1].items, ~s.pages[j + 1].committed
          PROVE  <<p, "reserved", j>> \in s.post /\ p \in s.pool
      BY <2>1, <1>0 DEF PagesOK, PageOK, FieldsOf
    <2>2. CASE p \in s.pages[i + 1].items
      BY <2>1, <2>2, <1>0, <1>3
    <2>3. CASE \E j \in Indexes(s) : j > last /\ p \in s.pages[j + 1].items
      <3>1. PICK j \in Indexes(s) : j > last /\ p \in s.pages[j + 1].items
        BY <2>3
      <3>2. j \notin Indexes(t)
        BY <3>1, <1>2, <1>4
      <3> QED
        BY <3>1, <3>2, <2>1, <1>6
    <2> QED
      BY <2>2, <2>3, <1>7 DEF GoneFrom
  <1>8. s.pages[i + 1].items \subseteq gone
    BY <1>0, PageTyped DEF GoneFrom
  <1>9. ASSUME NEW p, NEW kind, NEW j, <<p, kind, j>> \in s.post, p \in gone
        PROVE  kind = "reserved" /\ (j = i \/ j \notin Indexes(t))
    <2>1. PICK k \in Indexes(s) : (k = i \/ k \notin Indexes(t)) /\ <<p, "reserved", k>> \in s.post
      BY <1>7, <1>9
    <2>2. <<p, kind, j>> = <<p, "reserved", k>>
      <3>1. PICK f \in s.post, g \in s.post : f = <<p, kind, j>> /\ g = <<p, "reserved", k>>
        BY <1>9, <2>1
      <3> QED
        BY <3>1, <1>0 DEF FieldsOK
    <2> QED
      BY <2>1, <2>2
  <1>10. ASSUME NEW f \in t.post
         PROVE  \/ f \in s.post /\ f[1] \notin gone
                \/ f = <<f[1], "used", i>> /\ f[1] \in returned /\ f[1] \in gone /\ f[1] \notin rejected
                \/ f = <<f[1], "rejected", i>> /\ f[1] \in rejected /\ f[1] \in gone
    <2>1. CASE f \in s.post /\ f[1] \notin gone
      BY <2>1
    <2>2. CASE \E p \in returned : f = <<p, "used", i>>
      BY <2>2, <1>3, <1>8
    <2>3. CASE \E p \in s.pages[i + 1].items \cap rejected : f = <<p, "rejected", i>>
      BY <2>3, <1>8
    <2> HIDE DEF gone
    <2> QED
      BY <2>1, <2>2, <2>3, <1>2, <1>10
  <1> HIDE DEF gone
  <1>11. FieldsOK(t)
    <2>1. ASSUME NEW f \in t.post, NEW g \in t.post, f[1] = g[1]
          PROVE  f = g
      <3>1. CASE f[1] \notin gone
        <4>1. f \in s.post /\ g \in s.post
          BY <3>1, <2>1, <1>10
        <4> QED
          BY <4>1, <2>1, <1>0 DEF FieldsOK
      <3>2. CASE f[1] \in gone
        BY <3>2, <2>1, <1>10
      <3> QED
        BY <3>1, <3>2
    <2>2. ASSUME NEW f \in t.post
          PROVE  (f[2] = "used" => CommittedIn(t, f[3])) /\ (f[2] = "reserved" => f[3] \in Indexes(t))
      <3>1. CASE f \in s.post /\ f[1] \notin gone
        <4>1. ASSUME f[2] = "used"
              PROVE  CommittedIn(t, f[3])
          <5>1. CommittedIn(s, f[3])
            BY <3>1, <4>1, <1>0 DEF FieldsOK
          <5>2. f[3] \in Indexes(t) /\ f[3] # i
            BY <5>1, <1>3, <1>6 DEF CommittedIn
          <5> QED
            BY <5>1, <5>2, <1>2 DEF CommittedIn
        <4>2. ASSUME f[2] = "reserved", f[3] \notin Indexes(t)
              PROVE  FALSE
          <5>1. f[3] \in Indexes(s) /\ f = <<f[1], "reserved", f[3]>> /\ f[1] \in Ranked
            BY <3>1, <4>2, <1>0, Field DEF FieldsOK
          <5>2. f[3] > last /\ ~s.pages[f[3] + 1].committed
            BY <5>1, <4>2, <1>6
          <5>3. f[1] \in s.pages[f[3] + 1].items
            <6>1. s.pages[f[3] + 1].items = FieldsOf(s, "reserved", f[3])
              BY <5>1, <5>2, <1>0 DEF PagesOK, PageOK
            <6>2. <<f[1], "reserved", f[3]>> \in s.post
              BY <5>1, <3>1
            <6> QED
              BY <5>1, <6>1, <6>2 DEF FieldsOf
          <5>4. f[1] \in gone
            BY <5>1, <5>2, <5>3 DEF gone, GoneFrom
          <5> QED
            BY <5>4, <3>1
        <4> QED
          BY <4>1, <4>2
      <3>2. CASE f = <<f[1], "used", i>>
        <4>1. t.pages[i + 1].committed
          BY <1>2, <1>0, PageTyped DEF PageRecord
        <4>2. f[2] = "used" /\ f[3] = i
          BY <3>2
        <4> QED
          BY <4>1, <4>2, <1>5 DEF CommittedIn
      <3>3. CASE f = <<f[1], "rejected", i>>
        <4>1. f[2] = "rejected"
          BY <3>3
        <4> QED
          BY <4>1
      <3> QED
        BY <3>1, <3>2, <3>3, <1>10
    <2> QED
      BY <2>1, <2>2 DEF FieldsOK
  <1>12. /\ t.pages[i + 1].items = s.pages[i + 1].items /\ t.pages[i + 1].returned = returned /\ t.pages[i + 1].committed
         /\ ~t.pages[i + 1].recorded /\ ~t.pages[i + 1].traced
    <2>1. ~s.pages[i + 1].recorded /\ ~s.pages[i + 1].traced
      BY <1>0, <1>3 DEF PagesOK, PageOK
    <2>2. s.pages[i + 1] \in PageRecord
      BY <1>0, PageTyped
    <2> QED
      BY <2>1, <2>2, <1>2 DEF PageRecord
  <1>13. PagesOK(t)
    <2>1. PageOK(t, i)
      <3>1. ASSUME NEW p \in Ranked, <<p, "used", i>> \in t.post
            PROVE  p \in returned
        <4>1. <<p, "used", i>> \notin s.post
          <5>1. \A f \in s.post : f[2] = "used" => f[3] # i
            BY <1>0, <1>3 DEF FieldsOK, CommittedIn
          <5> QED
            BY <5>1
        <4>2. PICK f \in t.post : f = <<p, "used", i>>
          BY <3>1
        <4> QED
          BY <4>1, <4>2, <1>10
      <3>2. returned \subseteq Ranked /\ \A p \in returned : <<p, "used", i>> \in t.post
        BY <1>2, <1>3, <1>0, PageTyped
      <3>3. returned = FieldsOf(t, "used", i)
        BY <3>1, <3>2 DEF FieldsOf
      <3> QED
        BY <3>3, <1>3, <1>12 DEF PageOK
    <2>2. ASSUME NEW j \in Indexes(t), j # i
          PROVE  PageOK(t, j)
      <3>1. ASSUME NEW p, NEW kind
            PROVE  <<p, kind, j>> \in t.post <=> <<p, kind, j>> \in s.post
        <4>1. ASSUME <<p, kind, j>> \in t.post
              PROVE  <<p, kind, j>> \in s.post
          <5>1. PICK f \in t.post : f = <<p, kind, j>>
            BY <4>1
          <5> QED
            BY <5>1, <2>2, <1>10
        <4>2. ASSUME <<p, kind, j>> \in s.post
              PROVE  <<p, kind, j>> \in t.post
          <5>1. p \notin gone
            BY <4>2, <2>2, <1>9
          <5>2. PICK f \in s.post : f = <<p, kind, j>>
            BY <4>2
          <5> QED
            BY <5>1, <5>2, <1>2 DEF gone
        <4> QED
          BY <4>1, <4>2
      <3>2. FieldsOf(t, "used", j) = FieldsOf(s, "used", j) /\ FieldsOf(t, "reserved", j) = FieldsOf(s, "reserved", j)
        BY <3>1 DEF FieldsOf
      <3>3. PageOK(s, j) /\ t.pages[j + 1] = s.pages[j + 1]
        BY <2>2, <1>0, <1>2, <1>5 DEF PagesOK
      <3> QED
        BY <3>2, <3>3, <1>2 DEF PageOK
    <2>3. ASSUME NEW j \in Indexes(t), NEW k \in Indexes(t), j < k, t.pages[k + 1].committed
          PROVE  t.pages[j + 1].committed
      <3>1. CASE j = i
        BY <3>1, <1>12
      <3>2. CASE j # i
        <4>1. j \in Indexes(s) /\ k \in Indexes(s)
          BY <1>5
        <4>2. s.pages[j + 1].committed
          <5>1. CASE k = i
            BY <5>1, <4>1, <2>3, <1>3
          <5>2. CASE k # i
            BY <5>2, <4>1, <2>3, <1>0, <1>2 DEF PagesOK
          <5> QED
            BY <5>1, <5>2
        <4> QED
          BY <3>2, <4>2, <1>2
      <3> QED
        BY <3>1, <3>2
    <2>4. ASSUME NEW j \in t.pending
          PROVE  CommittedIn(t, j) /\ ~t.pages[j + 1].recorded
      <3>1. CASE j = i
        BY <3>1, <1>5, <1>12 DEF CommittedIn
      <3>2. CASE j # i
        <4>1. CommittedIn(s, j) /\ ~s.pages[j + 1].recorded
          BY <2>4, <3>2, <1>0, <1>2 DEF PagesOK
        <4>2. j \in Indexes(t)
          BY <4>1, <1>6 DEF CommittedIn
        <4> QED
          BY <3>2, <4>1, <4>2, <1>2 DEF CommittedIn
      <3> QED
        BY <3>1, <3>2
    <2> QED
      BY <2>1, <2>2, <2>3, <2>4 DEF PagesOK
  <1>14. ASSUME NEW p \in Known(s), p \notin gone
         PROVE  p \in Known(t)
    <2>1. PICK f \in s.post : f[1] = p
      BY <1>14 DEF Known
    <2>2. f \in t.post
      BY <2>1, <1>14, <1>2 DEF gone
    <2> QED
      BY <2>1, <2>2 DEF Known
  <1>15. \A p \in posts : Reachable(t, p)
    <2>1. \A p \in gone : p \in s.pool
      BY <1>7
    <2>2. \A p \in posts : Reachable(s, p)
      BY <1>0 DEF Coherent
    <2> QED
      BY <2>1, <2>2, <1>2, <1>14 DEF Reachable
  <1>16. Coherent(t, posts) /\ Count(t) \in 1..MaxPages
    <2>1. Cardinality(t.pool) <= MaxPool
      BY <1>0, <1>2 DEF Coherent
    <2>2. Count(t) \in 1..MaxPages
      BY <1>2, <1>4, Constants DEF SnapshotOK
    <2> QED
      BY <2>1, <2>2, <1>2, <1>11, <1>13, <1>15 DEF Coherent
  <1>17. ASSUME NEW j \in 0..(i - 1)
         PROVE  t.pages[j + 1].committed
    <2>1. j \in Nat /\ j < i /\ j \in Indexes(s) /\ j \in Indexes(t) /\ j # i
      <3>1. i \in Nat
        BY <1>4
      <3>2. j \in Nat /\ j < i /\ j <= i /\ j # i
        BY <3>1
      <3>3. i < Count(s) /\ Count(s) \in Nat
        BY <1>0, <1>4
      <3>4. j \in Indexes(s)
        BY <3>1, <3>2, <3>3, <1>4
      <3> QED
        BY <3>2, <3>4, <1>5
    <2> QED
      BY <2>1, <1>2, <1>3
  <1>18. ASSUME t.exhausted
         PROVE  AllKnown(t, posts)
    <2>1. t.histDone /\ t.softDone /\ Count(t) = i + 1 /\ Unknown(t) = {}
      BY <1>2, <1>18 DEF CanDeclareExhausted
    <2>2. posts \subseteq Known(t)
      BY <2>1, <1>15 DEF Reachable, Unknown
    <2>3. Count(t) - 2 = i - 1
      BY <2>1, <1>4
    <2> QED
      BY <2>2, <2>3, <1>17 DEF AllKnown
  <1>19. ASSUME AllKnown(s, posts)
         PROVE  AllKnown(t, posts)
    <2>1. i = Count(s) - 1
      <3>1. i \notin 0..(Count(s) - 2)
        BY <1>3, <1>19 DEF AllKnown
      <3>2. i < Count(s)
        BY <1>0, <1>4
      <3> QED
        BY <3>1, <3>2, <1>4
    <2>2. Count(t) - 2 = i - 1 /\ \A j \in Indexes(s) : ~(j > last)
      BY <2>1, <1>2, <1>4
    <2>3. ASSUME NEW p \in posts
          PROVE  p \in Known(t)
      <3>1. p \in Known(s)
        BY <1>19 DEF AllKnown
      <3>2. CASE p \in gone
        <4>1. p \in s.pages[i + 1].items
          BY <3>2, <2>2 DEF gone, GoneFrom
        <4>2. PICK f \in t.post : f = <<p, "used", i>>
          BY <4>1, <1>2
        <4> QED
          BY <4>2 DEF Known
      <3>3. CASE p \notin gone
        BY <3>1, <3>3, <1>14
      <3> QED
        BY <3>2, <3>3
    <2> QED
      BY <2>2, <2>3, <1>17 DEF AllKnown
  <1>20. \A j \in Indexes(s) : j <= i \/ s.pages[j + 1].committed => j \in Indexes(t)
    BY <1>5, <1>6
  <1> QED
    BY <1>2, <1>5, <1>16, <1>18, <1>19, <1>20 DEF SnapshotOK, Commits

-----------------------------------------------------------------------------
(* A receipt is written, or a trace is claimed.                            *)

\* Nothing but the marks of a committed page changes.
Marked(s, t, i) ==
  /\ CommittedIn(s, i)
  /\ t \in Snapshot /\ t.pool = s.pool /\ t.post = s.post /\ t.phase = s.phase /\ t.exhausted = s.exhausted
  /\ t.histAt = s.histAt /\ t.histDone = s.histDone /\ t.softAt = s.softAt /\ t.softDone = s.softDone
  /\ Count(t) = Count(s) /\ Indexes(t) = Indexes(s)
  /\ \A j \in Indexes(s) : j # i => t.pages[j + 1] = s.pages[j + 1]
  /\ t.pages[i + 1].items = s.pages[i + 1].items /\ t.pages[i + 1].committed /\ t.pages[i + 1].returned = s.pages[i + 1].returned
  /\ s.pages[i + 1].recorded => t.pages[i + 1].recorded
  /\ t.pages[i + 1].traced => t.pages[i + 1].recorded
  /\ t.pending \subseteq s.pending /\ (i \in t.pending => ~t.pages[i + 1].recorded)

\* A mark on a committed page keeps the snapshot in order.
LEMMA MarkedOK ==
  ASSUME NEW s, NEW posts, SnapshotOK(s, posts), NEW i, NEW t, Marked(s, t, i)
  PROVE  SnapshotOK(t, posts) /\ (AllKnown(s, posts) => AllKnown(t, posts))
  <1>0. Coherent(s, posts) /\ s \in Snapshot /\ FieldsOK(s) /\ PagesOK(s)
    BY DEF SnapshotOK, Coherent
  <1>1. /\ i \in Indexes(s) /\ s.pages[i + 1].committed
        /\ t \in Snapshot /\ t.pool = s.pool /\ t.post = s.post /\ t.phase = s.phase /\ t.exhausted = s.exhausted
        /\ t.histAt = s.histAt /\ t.histDone = s.histDone /\ t.softAt = s.softAt /\ t.softDone = s.softDone
        /\ Count(t) = Count(s) /\ Indexes(t) = Indexes(s)
        /\ \A j \in Indexes(s) : j # i => t.pages[j + 1] = s.pages[j + 1]
        /\ t.pages[i + 1].items = s.pages[i + 1].items /\ t.pages[i + 1].committed /\ t.pages[i + 1].returned = s.pages[i + 1].returned
        /\ t.pages[i + 1].traced => t.pages[i + 1].recorded
        /\ t.pending \subseteq s.pending /\ (i \in t.pending => ~t.pages[i + 1].recorded)
    BY DEF Marked, CommittedIn
  <1>2. Known(t) = Known(s)
    BY <1>1 DEF Known
  <1>3. \A j \in Indexes(s) : t.pages[j + 1].committed <=> s.pages[j + 1].committed
    BY <1>1
  <1>4. \A j : CommittedIn(t, j) <=> CommittedIn(s, j)
    BY <1>1, <1>3 DEF CommittedIn
  <1>5. FieldsOK(t)
    BY <1>0, <1>1, <1>4 DEF FieldsOK
  <1>6. PagesOK(t)
    <2>1. \A j, kind : FieldsOf(t, kind, j) = FieldsOf(s, kind, j)
      BY <1>1 DEF FieldsOf
    <2>2. ASSUME NEW j \in Indexes(t)
          PROVE  PageOK(t, j)
      <3>1. PageOK(s, j)
        BY <1>0, <1>1 DEF PagesOK
      <3>2. CASE j = i
        BY <3>1, <3>2, <2>1, <1>1 DEF PageOK
      <3>3. CASE j # i
        BY <3>1, <3>3, <2>1, <1>1 DEF PageOK
      <3> QED
        BY <3>2, <3>3
    <2>3. \A j, k \in Indexes(t) : j < k /\ t.pages[k + 1].committed => t.pages[j + 1].committed
      BY <1>0, <1>1, <1>3 DEF PagesOK
    <2>4. ASSUME NEW j \in t.pending
          PROVE  CommittedIn(t, j) /\ ~t.pages[j + 1].recorded
      <3>1. CommittedIn(s, j) /\ ~s.pages[j + 1].recorded
        BY <2>4, <1>0, <1>1 DEF PagesOK
      <3>2. ~t.pages[j + 1].recorded
        BY <3>1, <2>4, <1>1 DEF CommittedIn
      <3> QED
        BY <3>1, <3>2, <1>4
    <2> QED
      BY <2>2, <2>3, <2>4 DEF PagesOK
  <1>7. Coherent(t, posts)
    <2>1. \A p \in posts : Reachable(t, p)
      BY <1>0, <1>1, <1>2 DEF Coherent, Reachable
    <2> QED
      BY <2>1, <1>0, <1>1, <1>5, <1>6 DEF Coherent
  <1>8. AllKnown(s, posts) => AllKnown(t, posts)
    <2>1. \A j \in 0..(Count(s) - 2) : j \in Indexes(s)
      <3>1. Count(s) \in Int
        BY DEF SnapshotOK
      <3> QED
        BY <3>1 DEF Indexes
    <2> QED
      BY <2>1, <1>1, <1>2, <1>3 DEF AllKnown
  <1> QED
    BY <1>1, <1>7, <1>8 DEF SnapshotOK

\* A receipt ends the recovery of its page.
LEMMA MarkRecordedIs ==
  ASSUME NEW s, NEW posts, SnapshotOK(s, posts), NEW i, CommittedIn(s, i), NEW t, t = MarkRecorded(s, i)
  PROVE  Marked(s, t, i) /\ t.pages[i + 1].recorded /\ t.pages[i + 1].traced = s.pages[i + 1].traced /\ t.pending = s.pending \ {i}
  <1>0. s \in Snapshot /\ i \in Indexes(s) /\ s.pages[i + 1].committed /\ PagesOK(s)
    BY DEF SnapshotOK, Coherent, CommittedIn
  <1>1. s.pages \in Seq(PageRecord) /\ i \in Nat /\ i + 1 \in 1..Len(s.pages) /\ s.pages[i + 1] \in PageRecord
    BY <1>0, PageTyped DEF Snapshot
  <1>2. PICK page : page = [s.pages[i + 1] EXCEPT !.recorded = TRUE]
    OBVIOUS
  <1>3. /\ page \in PageRecord /\ page.recorded /\ page.items = s.pages[i + 1].items /\ page.committed = s.pages[i + 1].committed
        /\ page.returned = s.pages[i + 1].returned /\ page.traced = s.pages[i + 1].traced
    BY <1>1, <1>2 DEF PageRecord
  <1>4. PICK ps : ps = [s.pages EXCEPT ![i + 1] = page]
    OBVIOUS
  <1>5. ps \in Seq(PageRecord) /\ Len(ps) = Len(s.pages) /\ \A j \in 1..Len(s.pages) : ps[j] = IF j = i + 1 THEN page ELSE s.pages[j]
    BY <1>1, <1>3, <1>4, ExceptSeq
  <1>6. t = [s EXCEPT !.pages = ps, !.pending = s.pending \ {i}]
    BY <1>2, <1>4 DEF MarkRecorded
  <1>7. t \in Snapshot
    BY <1>0, <1>5, <1>6 DEF Snapshot
  <1>8. /\ t.pages = ps /\ t.pending = s.pending \ {i}
        /\ t.pool = s.pool /\ t.post = s.post /\ t.phase = s.phase /\ t.exhausted = s.exhausted
        /\ t.histAt = s.histAt /\ t.histDone = s.histDone /\ t.softAt = s.softAt /\ t.softDone = s.softDone
    BY <1>0, <1>6 DEF Snapshot
  <1>9. Count(t) = Count(s) /\ Indexes(t) = Indexes(s)
    BY <1>5, <1>8 DEF Count, Indexes
  <1>10. t.pages[i + 1] = page /\ \A j \in Indexes(s) : j # i => t.pages[j + 1] = s.pages[j + 1]
    <2>1. \A j \in Indexes(s) : j + 1 \in 1..Len(s.pages) /\ (j # i => j + 1 # i + 1)
      BY <1>0, <1>1, PageTyped
    <2> QED
      BY <2>1, <1>1, <1>5, <1>8
  <1> QED
    BY <1>0, <1>3, <1>7, <1>8, <1>9, <1>10 DEF Marked, CommittedIn

\* A trace is claimed after the receipt.
LEMMA ClaimIs ==
  ASSUME NEW s, NEW posts, SnapshotOK(s, posts), NEW i, CommittedIn(s, i), s.pages[i + 1].recorded,
         NEW t, t = [s EXCEPT !.pages[i + 1].traced = TRUE]
  PROVE  Marked(s, t, i) /\ t.pages[i + 1].recorded /\ t.pages[i + 1].traced /\ t.pending = s.pending
  <1>0. s \in Snapshot /\ i \in Indexes(s) /\ s.pages[i + 1].committed /\ PagesOK(s)
    BY DEF SnapshotOK, Coherent, CommittedIn
  <1>1. s.pages \in Seq(PageRecord) /\ i \in Nat /\ i + 1 \in 1..Len(s.pages) /\ s.pages[i + 1] \in PageRecord
    BY <1>0, PageTyped DEF Snapshot
  <1>2. PICK page : page = [s.pages[i + 1] EXCEPT !.traced = TRUE]
    OBVIOUS
  <1>3. /\ page \in PageRecord /\ page.traced /\ page.items = s.pages[i + 1].items /\ page.committed = s.pages[i + 1].committed
        /\ page.returned = s.pages[i + 1].returned /\ page.recorded = s.pages[i + 1].recorded
    BY <1>1, <1>2 DEF PageRecord
  <1>4. PICK ps : ps = [s.pages EXCEPT ![i + 1] = page]
    OBVIOUS
  <1>5. ps \in Seq(PageRecord) /\ Len(ps) = Len(s.pages) /\ \A j \in 1..Len(s.pages) : ps[j] = IF j = i + 1 THEN page ELSE s.pages[j]
    BY <1>1, <1>3, <1>4, ExceptSeq
  <1>6. t = [s EXCEPT !.pages = ps]
    BY <1>2, <1>4
  <1>7. t \in Snapshot
    BY <1>0, <1>5, <1>6 DEF Snapshot
  <1>8. /\ t.pages = ps /\ t.pending = s.pending
        /\ t.pool = s.pool /\ t.post = s.post /\ t.phase = s.phase /\ t.exhausted = s.exhausted
        /\ t.histAt = s.histAt /\ t.histDone = s.histDone /\ t.softAt = s.softAt /\ t.softDone = s.softDone
    BY <1>0, <1>6 DEF Snapshot
  <1>9. Count(t) = Count(s) /\ Indexes(t) = Indexes(s)
    BY <1>5, <1>8 DEF Count, Indexes
  <1>10. t.pages[i + 1] = page /\ \A j \in Indexes(s) : j # i => t.pages[j + 1] = s.pages[j + 1]
    <2>1. \A j \in Indexes(s) : j + 1 \in 1..Len(s.pages) /\ (j # i => j + 1 # i + 1)
      BY <1>0, <1>1, PageTyped
    <2> QED
      BY <2>1, <1>1, <1>5, <1>8
  <1>11. i \in s.pending => ~s.pages[i + 1].recorded
    BY <1>0 DEF PagesOK
  <1> QED
    BY <1>0, <1>3, <1>7, <1>8, <1>9, <1>10, <1>11 DEF Marked, CommittedIn

-----------------------------------------------------------------------------
(* What the others rely on is kept.                                        *)

\* Page j is the first one or follows a committed page.
Named(s, j) == j = 0 \/ CommittedIn(s, j - 1)

Follows(s, t, posts) ==
  /\ \A j : CommittedIn(s, j) => /\ CommittedIn(t, j) /\ t.pages[j + 1].returned = s.pages[j + 1].returned
                                 /\ s.pages[j + 1].recorded => t.pages[j + 1].recorded
                                 /\ s.pages[j + 1].traced => t.pages[j + 1].traced
  /\ \A j \in Indexes(s) : Named(s, j) =>
       /\ j \in Indexes(t)
       /\ ~t.pages[j + 1].committed => ~s.pages[j + 1].committed /\ t.pages[j + 1].items = s.pages[j + 1].items
  /\ AllKnown(s, posts) => AllKnown(t, posts)

\* A snapshot that is left alone.
LEMMA FollowsItself ==
  ASSUME NEW s, NEW posts
  PROVE  Follows(s, s, posts)
  BY DEF Follows

\* A snapshot with one more page.
LEMMA FollowsBuild ==
  ASSUME NEW s, NEW t, NEW posts, NEW i, Indexes(t) = Indexes(s) \cup {i}, AllKnown(s, posts) => AllKnown(t, posts),
         \A j \in Indexes(s) : t.pages[j + 1] = s.pages[j + 1]
  PROVE  Follows(s, t, posts)
  BY DEF Follows, CommittedIn

\* A snapshot with one more mark.
LEMMA FollowsMark ==
  ASSUME NEW s, NEW t, NEW posts, NEW i, Marked(s, t, i), AllKnown(s, posts) => AllKnown(t, posts),
         s.pages[i + 1].traced => t.pages[i + 1].traced
  PROVE  Follows(s, t, posts)
  <1>1. /\ Indexes(t) = Indexes(s) /\ \A j \in Indexes(s) : j # i => t.pages[j + 1] = s.pages[j + 1]
        /\ i \in Indexes(s) /\ s.pages[i + 1].committed
        /\ t.pages[i + 1].items = s.pages[i + 1].items /\ t.pages[i + 1].committed /\ t.pages[i + 1].returned = s.pages[i + 1].returned
        /\ s.pages[i + 1].recorded => t.pages[i + 1].recorded
    BY DEF Marked, CommittedIn
  <1>2. ASSUME NEW j, CommittedIn(s, j)
        PROVE  /\ CommittedIn(t, j) /\ t.pages[j + 1].returned = s.pages[j + 1].returned
               /\ s.pages[j + 1].recorded => t.pages[j + 1].recorded
               /\ s.pages[j + 1].traced => t.pages[j + 1].traced
    BY <1>1, <1>2 DEF CommittedIn
  <1>3. ASSUME NEW j \in Indexes(s)
        PROVE  j \in Indexes(t) /\ (~t.pages[j + 1].committed => ~s.pages[j + 1].committed /\ t.pages[j + 1].items = s.pages[j + 1].items)
    BY <1>1
  <1> QED
    BY <1>2, <1>3 DEF Follows

\* A snapshot with a page committed and the pages behind it dropped: no request
\* was told to go to those, because a page is named by the one committed before it.
LEMMA FollowsCommit ==
  ASSUME NEW s, NEW posts, SnapshotOK(s, posts), NEW t, NEW i \in Indexes(s), NEW page,
         ~s.pages[i + 1].committed, t.pages[i + 1] = [s.pages[i + 1] EXCEPT !.committed = TRUE, !.returned = page],
         \A j \in Indexes(s) : j <= i \/ s.pages[j + 1].committed => j \in Indexes(t),
         \A j \in Indexes(t) : j # i => t.pages[j + 1] = s.pages[j + 1],
         AllKnown(s, posts) => AllKnown(t, posts)
  PROVE  Follows(s, t, posts)
  <1>0. s \in Snapshot /\ PagesOK(s)
    BY DEF SnapshotOK, Coherent
  <1>1. t.pages[i + 1].committed
    BY <1>0, PageTyped DEF PageRecord
  <1>2. ASSUME NEW j, CommittedIn(s, j)
        PROVE  /\ CommittedIn(t, j) /\ t.pages[j + 1].returned = s.pages[j + 1].returned
               /\ s.pages[j + 1].recorded => t.pages[j + 1].recorded
               /\ s.pages[j + 1].traced => t.pages[j + 1].traced
    <2>1. j \in Indexes(s) /\ s.pages[j + 1].committed /\ j # i /\ j \in Indexes(t)
      BY <1>2 DEF CommittedIn
    <2> QED
      BY <2>1 DEF CommittedIn
  <1>3. ASSUME NEW j \in Indexes(s), Named(s, j)
        PROVE  /\ j \in Indexes(t)
               /\ ~t.pages[j + 1].committed => ~s.pages[j + 1].committed /\ t.pages[j + 1].items = s.pages[j + 1].items
    <2>1. i \in Nat /\ j \in Nat
      BY <1>0, PageTyped
    <2>2. ASSUME j > i
          PROVE  FALSE
      <3>1. j - 1 \in Indexes(s) /\ s.pages[(j - 1) + 1].committed
        BY <2>1, <2>2, <1>3 DEF Named, CommittedIn
      <3>2. j - 1 # i
        BY <3>1
      <3>3. PICK k \in Indexes(s) : k = j - 1 /\ s.pages[k + 1].committed /\ i < k
        BY <3>1, <3>2, <2>1, <2>2
      <3> QED
        BY <3>3, <1>0 DEF PagesOK
    <2>3. j \in Indexes(t)
      BY <2>1, <2>2
    <2> QED
      BY <2>3, <1>1
  <1> QED
    BY <1>2, <1>3 DEF Follows

\* More is known of fewer Posts.
LEMMA AllKnownFewer ==
  ASSUME NEW s, NEW posts, NEW fewer, fewer \subseteq posts, AllKnown(s, posts)
  PROVE  AllKnown(s, fewer)
  BY DEF AllKnown

\* What a request relies on survives every step of another.
LEMMA RequestKeeps ==
  ASSUME NEW q, RequestOK(q), NEW s, NEW t, NEW told, NEW toldAfter, told \subseteq toldAfter, NEW posts, NEW fewer, fewer \subseteq posts,
         LiveRequestOK(q, s, told, posts), Follows(s, t, fewer \cap Offered)
  PROVE  LiveRequestOK(q, t, toldAfter, fewer)
  <1>1. /\ \A j : CommittedIn(s, j) => /\ CommittedIn(t, j) /\ t.pages[j + 1].returned = s.pages[j + 1].returned
                                       /\ s.pages[j + 1].recorded => t.pages[j + 1].recorded
        /\ \A j \in Indexes(s) : Named(s, j) =>
             /\ j \in Indexes(t)
             /\ ~t.pages[j + 1].committed => ~s.pages[j + 1].committed /\ t.pages[j + 1].items = s.pages[j + 1].items
        /\ AllKnown(s, fewer \cap Offered) => AllKnown(t, fewer \cap Offered)
    BY DEF Follows
  <1>2. q.page \in Nat /\ q.todo \in SUBSET Nat
    BY DEF RequestOK, ServingRequest
  <1>3. q.page > 0 => CommittedIn(t, q.page - 1)
    BY <1>1 DEF LiveRequestOK
  <1>4. q.page = 0 => 0 \in Indexes(t)
    BY <1>1 DEF LiveRequestOK, Named
  <1>5. q.pc \in {"recover", "receipt"} => \A i \in q.todo : CommittedIn(t, i)
    BY <1>1 DEF LiveRequestOK
  <1>6. ASSUME q.pc = "receipt"
        PROVE  t.pages[Min(q.todo) + 1].returned = {} \/ Min(q.todo) \in toldAfter
    <2>1. q.todo # {}
      BY <1>6 DEF RequestOK
    <2>2. Min(q.todo) \in q.todo
      BY <2>1, <1>2, LeastNumber
    <2>3. CommittedIn(s, Min(q.todo))
      BY <2>2, <1>6 DEF LiveRequestOK
    <2>4. s.pages[Min(q.todo) + 1].returned = {} \/ Min(q.todo) \in told
      BY <1>6 DEF LiveRequestOK
    <2> QED
      BY <2>3, <2>4, <1>1
  <1>7. ASSUME q.pc \in BeforeCommit
        PROVE  /\ q.page \in Indexes(t)
               /\ ~t.pages[q.page + 1].committed =>
                    q.items \subseteq t.pages[q.page + 1].items /\ t.pages[q.page + 1].items \cap fewer \subseteq q.items
    <2>1. q.page \in Indexes(s) /\ Named(s, q.page)
      BY <1>2, <1>7 DEF LiveRequestOK, Named
    <2>2. ~s.pages[q.page + 1].committed =>
            q.items \subseteq s.pages[q.page + 1].items /\ s.pages[q.page + 1].items \cap posts \subseteq q.items
      BY <1>7 DEF LiveRequestOK
    <2>3. /\ q.page \in Indexes(t)
          /\ ~t.pages[q.page + 1].committed => ~s.pages[q.page + 1].committed /\ t.pages[q.page + 1].items = s.pages[q.page + 1].items
      BY <2>1, <1>1
    <2> QED
      BY <2>2, <2>3
  <1>8. q.pc \in Answering => CommittedIn(t, q.page) /\ t.pages[q.page + 1].returned = q.items
    BY <1>1 DEF LiveRequestOK
  <1>9. q.pc = "flag" => q.items = {} \/ q.page \in toldAfter
    BY DEF LiveRequestOK
  <1>10. q.pc = "trace" => t.pages[q.page + 1].recorded
    BY <1>1 DEF LiveRequestOK, Answering
  <1>11. q.depleted => AllKnown(t, fewer \cap Offered)
    <2>1. fewer \cap Offered \subseteq posts \cap Offered
      OBVIOUS
    <2> QED
      BY <2>1, <1>1, AllKnownFewer DEF LiveRequestOK
  <1> QED
    BY <1>3, <1>4, <1>5, <1>6, <1>7, <1>8, <1>9, <1>10, <1>11 DEF LiveRequestOK

-----------------------------------------------------------------------------
(* A step of one request.                                                  *)

SnapMoves ==
  /\ snap.phase # "none" /\ snap' \in Snapshot
  /\ stable' \subseteq stable /\ stable' \subseteq alive' /\ alive' \subseteq Ranked /\ DOMAIN history \subseteq DOMAIN history'
  /\ snap'.phase = "live" => /\ snap.phase = "live"
                             /\ SnapshotOK(snap', stable' \cap Offered) /\ Follows(snap, snap', stable' \cap Offered)
  /\ snap'.phase # "live" => snap' = [NoSnapshot EXCEPT !.phase = "gone"]

RequestMoves(r, q) ==
  /\ RequestOK(q) /\ req' = [req EXCEPT ![r] = q]
  /\ snap'.phase = "live" /\ q.pc # "idle" => LiveRequestOK(q, snap', DOMAIN history', stable')
  /\ snap'.phase # "live" /\ q.pc \in Answering => req[r].pc \in Answering /\ q.page = req[r].page /\ q.items = req[r].items

AnswersMove(r) ==
  /\ "invalid" \notin refused'
  /\ \/ sent' = sent /\ cursors' = cursors
     \/ /\ req[r].pc \in Answering
        /\ sent' = sent \cup {[page |-> req[r].page, posts |-> req[r].items, depleted |-> req[r].depleted]}
        /\ cursors' = IF req[r].depleted THEN cursors ELSE cursors \cup {req[r].page + 1}

\* A snapshot in order for some Posts is in order for fewer.
LEMMA SnapshotOKFewer ==
  ASSUME NEW s, NEW posts, SnapshotOK(s, posts), NEW fewer, fewer \subseteq posts
  PROVE  SnapshotOK(s, fewer)
  <1>1. Coherent(s, fewer)
    BY DEF SnapshotOK, Coherent
  <1>2. s.exhausted => AllKnown(s, fewer)
    BY AllKnownFewer DEF SnapshotOK
  <1> QED
    BY <1>1, <1>2 DEF SnapshotOK

\* The other requests.
LEMMA RequestsKeep ==
  ASSUME ServingInv, SnapMoves, NEW r \in Requests, NEW q, RequestMoves(r, q)
  PROVE  RequestsInv'
  <1>1. req \in [Requests -> ServingRequest] /\ req' = [req EXCEPT ![r] = q] /\ q \in ServingRequest /\ RequestOK(q)
    BY DEF ServingInv, RequestsInv, RequestMoves, RequestOK
  <1>2. ASSUME NEW x \in Requests
        PROVE  RequestOK(req'[x]) /\ (snap'.phase = "live" /\ req'[x].pc # "idle" => LiveRequestOK(req'[x], snap', DOMAIN history', stable'))
    <2>1. CASE x = r
      BY <2>1, <1>1 DEF RequestMoves
    <2>2. CASE x # r
      <3>1. req'[x] = req[x] /\ RequestOK(req[x])
        BY <2>2, <1>1 DEF ServingInv, RequestsInv
      <3>2. ASSUME snap'.phase = "live", req[x].pc # "idle"
            PROVE  LiveRequestOK(req[x], snap', DOMAIN history', stable')
        <4>1. LiveRequestOK(req[x], snap, DOMAIN history, stable)
          BY <3>2 DEF ServingInv, RequestsInv, SnapMoves, Live
        <4>2. Follows(snap, snap', stable' \cap Offered) /\ stable' \subseteq stable /\ DOMAIN history \subseteq DOMAIN history'
          BY <3>2 DEF SnapMoves
        <4> QED
          BY <3>1, <4>1, <4>2, RequestKeeps
      <3> QED
        BY <3>1, <3>2
    <2> QED
      BY <2>1, <2>2
  <1>3. req' \in [Requests -> ServingRequest]
    BY <1>1
  <1> QED
    BY <1>2, <1>3 DEF RequestsInv, Live

\* What is shown under a page is what the page was committed with.
LEMMA CommittedAgree ==
  ASSUME NEW s, NEW posts, SnapshotOK(s, posts), NEW i, NEW j, CommittedIn(s, i), CommittedIn(s, j), i # j
  PROVE  s.pages[i + 1].returned \cap s.pages[j + 1].returned = {}
  <1>1. s \in Snapshot /\ FieldsOK(s) /\ PagesOK(s)
    BY DEF SnapshotOK, Coherent
  <1>2. s.pages[i + 1].returned = FieldsOf(s, "used", i) /\ s.pages[j + 1].returned = FieldsOf(s, "used", j)
    BY <1>1 DEF PagesOK, PageOK, CommittedIn
  <1>3. ASSUME NEW p \in FieldsOf(s, "used", i), p \in FieldsOf(s, "used", j)
        PROVE  FALSE
    <2>1. PICK f \in s.post, g \in s.post : f = <<p, "used", i>> /\ g = <<p, "used", j>>
      BY <1>3 DEF FieldsOf
    <2>2. f = g
      BY <2>1, <1>1 DEF FieldsOK
    <2> QED
      BY <2>1, <2>2
  <1> QED
    BY <1>2, <1>3

\* Answers sent and about to be sent keep agreeing.
LEMMA AnswersKeep ==
  ASSUME ServingInv, SnapMoves, NEW r \in Requests, NEW q, RequestMoves(r, q), RequestsInv', AnswersMove(r)
  PROVE  AnswersInv'
  <1> DEFINE answer == [page |-> req[r].page, posts |-> req[r].items, depleted |-> req[r].depleted]
             posts  == stable' \cap Offered
  <1>1. /\ req \in [Requests -> ServingRequest] /\ req' = [req EXCEPT ![r] = q] /\ req' \in [Requests -> ServingRequest]
        /\ \A x \in Requests : RequestOK(req[x])
    BY DEF ServingInv, RequestsInv, RequestMoves
  <1>2. \/ sent' = sent /\ cursors' = cursors
        \/ /\ req[r].pc \in Answering /\ sent' = sent \cup {answer}
           /\ cursors' = IF req[r].depleted THEN cursors ELSE cursors \cup {req[r].page + 1}
    BY DEF AnswersMove
  <1>3. answer \in [page : Nat, posts : SUBSET Ranked, depleted : BOOLEAN] /\ (req[r].pc \in Answering => req[r].page + 1 \in 1..MaxPages)
    <2>1. req[r] \in ServingRequest
      BY <1>1
    <2>2. req[r].pc \in Answering => req[r].page \in Nat /\ req[r].page < MaxPages
      BY <2>1, <1>1 DEF RequestOK, ServingRequest
    <2> QED
      BY <2>1, <2>2, Constants DEF ServingRequest
  <1>4. sent' \subseteq [page : Nat, posts : SUBSET Ranked, depleted : BOOLEAN] /\ cursors' \subseteq 1..MaxPages
    <2> HIDE DEF answer
    <2> QED
      BY <1>2, <1>3 DEF ServingInv, AnswersInv
  <1>5. "invalid" \notin refused'
    BY DEF AnswersMove
  <1>6. ASSUME snap'.phase = "live"
        PROVE  /\ \A x \in sent' : CommittedIn(snap', x.page) /\ snap'.pages[x.page + 1].returned = x.posts
               /\ \A x \in sent' : x.depleted => AllKnown(snap', posts)
               /\ \A i \in cursors' : CommittedIn(snap', i - 1)
               /\ \A x \in Requests : req'[x].pc \in Answering =>
                    CommittedIn(snap', req'[x].page) /\ snap'.pages[req'[x].page + 1].returned = req'[x].items
    <2>1. Follows(snap, snap', posts) /\ snap.phase = "live" /\ posts \subseteq Steady
      BY <1>6 DEF SnapMoves, Steady
    <2>2. ASSUME NEW x \in sent
          PROVE  CommittedIn(snap', x.page) /\ snap'.pages[x.page + 1].returned = x.posts /\ (x.depleted => AllKnown(snap', posts))
      <3>1. CommittedIn(snap, x.page) /\ snap.pages[x.page + 1].returned = x.posts /\ (x.depleted => AllKnown(snap, Steady))
        BY <2>1 DEF ServingInv, AnswersInv, Live
      <3> HIDE DEF posts
      <3>2. x.depleted => AllKnown(snap, posts)
        BY <2>1, <3>1, AllKnownFewer
      <3> QED
        BY <2>1, <3>1, <3>2 DEF Follows
    <2>3. ASSUME NEW i \in cursors
          PROVE  CommittedIn(snap', i - 1)
      <3>1. CommittedIn(snap, i - 1)
        BY <2>1 DEF ServingInv, AnswersInv, Live
      <3> QED
        BY <3>1, <2>1 DEF Follows
    <2>4. ASSUME req[r].pc \in Answering
          PROVE  /\ CommittedIn(snap', req[r].page) /\ snap'.pages[req[r].page + 1].returned = req[r].items
                 /\ (req[r].depleted => AllKnown(snap', posts)) /\ (req[r].page + 1) - 1 = req[r].page
      <3>1. LiveRequestOK(req[r], snap, DOMAIN history, stable)
        BY <2>1, <2>4 DEF ServingInv, RequestsInv, Live, Answering
      <3>2. CommittedIn(snap, req[r].page) /\ snap.pages[req[r].page + 1].returned = req[r].items /\ (req[r].depleted => AllKnown(snap, Steady))
        BY <3>1, <2>4 DEF LiveRequestOK, Steady
      <3>3. req[r].page \in Nat
        BY <1>1 DEF ServingRequest
      <3> HIDE DEF posts
      <3>4. req[r].depleted => AllKnown(snap, posts)
        BY <2>1, <3>2, AllKnownFewer
      <3> QED
        BY <2>1, <3>2, <3>3, <3>4 DEF Follows
    <2>5. ASSUME NEW x \in sent'
          PROVE  CommittedIn(snap', x.page) /\ snap'.pages[x.page + 1].returned = x.posts /\ (x.depleted => AllKnown(snap', posts))
      <3>1. CASE x \in sent
        BY <3>1, <2>2
      <3>2. CASE x \notin sent
        <4>1. req[r].pc \in Answering /\ x = answer
          BY <3>2, <2>5, <1>2
        <4>2. x.page = req[r].page /\ x.posts = req[r].items /\ x.depleted = req[r].depleted
          BY <4>1
        <4> QED
          BY <4>1, <4>2, <2>4
      <3> QED
        BY <3>1, <3>2
    <2>6. ASSUME NEW i \in cursors'
          PROVE  CommittedIn(snap', i - 1)
      <3>1. CASE i \in cursors
        BY <3>1, <2>3
      <3>2. CASE i \notin cursors
        <4>1. req[r].pc \in Answering /\ i = req[r].page + 1
          BY <3>2, <2>6, <1>2
        <4> QED
          BY <4>1, <2>4
      <3> QED
        BY <3>1, <3>2
    <2>7. \A x \in Requests : req'[x].pc \in Answering =>
            CommittedIn(snap', req'[x].page) /\ snap'.pages[req'[x].page + 1].returned = req'[x].items
      BY <1>6 DEF RequestsInv, LiveRequestOK, Live, Answering
    <2> QED
      BY <2>5, <2>6, <2>7
  <1>7. ASSUME NEW a \in AnsweringSet', NEW b \in AnsweringSet'
        PROVE  IF a[1] = b[1] THEN a[2] = b[2] ELSE a[2] \cap b[2] = {}
    <2>1. CASE snap'.phase = "live"
      <3>1. ASSUME NEW c \in AnsweringSet'
            PROVE  CommittedIn(snap', c[1]) /\ snap'.pages[c[1] + 1].returned = c[2]
        <4>1. CASE \E x \in sent' : c = <<x.page, x.posts>>
          BY <4>1, <2>1, <1>6
        <4>2. CASE \E x \in Requests : req'[x].pc \in Answering /\ c = <<req'[x].page, req'[x].items>>
          BY <4>2, <2>1, <1>6
        <4> QED
          BY <3>1, <4>1, <4>2 DEF AnsweringSet
      <3>2. SnapshotOK(snap', posts)
        BY <2>1 DEF SnapMoves
      <3>3. a[1] # b[1] => a[2] \cap b[2] = {}
        <4> HIDE DEF posts
        <4> QED
          BY <3>1, <3>2, CommittedAgree
      <3> QED
        BY <3>1, <3>3
    <2>2. CASE snap'.phase # "live"
      <3>1. ASSUME NEW c \in AnsweringSet'
            PROVE  c \in AnsweringSet
        <4>1. req[r].pc \in Answering => <<req[r].page, req[r].items>> \in AnsweringSet
          BY DEF AnsweringSet
        <4>2. CASE \E x \in sent' : c = <<x.page, x.posts>>
          <5>1. PICK x \in sent' : c = <<x.page, x.posts>>
            BY <4>2
          <5>2. CASE x \in sent
            BY <5>1, <5>2 DEF AnsweringSet
          <5>3. CASE x \notin sent
            <6>1. req[r].pc \in Answering /\ x = answer
              BY <5>3, <1>2
            <6>2. x.page = req[r].page /\ x.posts = req[r].items
              BY <6>1
            <6> QED
              BY <4>1, <5>1, <6>1, <6>2
          <5> QED
            BY <5>2, <5>3
        <4>3. CASE \E x \in Requests : req'[x].pc \in Answering /\ c = <<req'[x].page, req'[x].items>>
          <5>1. PICK x \in Requests : req'[x].pc \in Answering /\ c = <<req'[x].page, req'[x].items>>
            BY <4>3
          <5>2. CASE x = r
            <6>1. req'[x] = q
              BY <5>2, <1>1
            <6>2. req[r].pc \in Answering /\ q.page = req[r].page /\ q.items = req[r].items
              BY <5>1, <6>1, <2>2 DEF RequestMoves
            <6> QED
              BY <4>1, <5>1, <6>1, <6>2
          <5>3. CASE x # r
            <6>1. req'[x] = req[x]
              BY <5>3, <1>1
            <6> QED
              BY <5>1, <6>1 DEF AnsweringSet
          <5> QED
            BY <5>2, <5>3
        <4> QED
          BY <3>1, <4>2, <4>3 DEF AnsweringSet
      <3> QED
        BY <3>1 DEF ServingInv, AnswersInv
    <2> QED
      BY <2>1, <2>2
  <1> QED
    BY <1>4, <1>5, <1>6, <1>7 DEF AnswersInv, Live, Steady

\* All but the history, over a step of one request.
LEMMA StepKeeps ==
  ASSUME ServingInv, SnapMoves, NEW r \in Requests, NEW q, RequestMoves(r, q), AnswersMove(r)
  PROVE  SnapInv' /\ EligibleInv' /\ RequestsInv' /\ AnswersInv'
  <1>1. RequestsInv' /\ AnswersInv'
    BY RequestsKeep, AnswersKeep
  <1>2. EligibleInv'
    BY DEF EligibleInv, SnapMoves
  <1>3. SnapInv'
    <2>1. snap'.phase # "none" /\ (snap'.phase # "live" => snap' = [NoSnapshot EXCEPT !.phase = snap'.phase])
      <3>1. [NoSnapshot EXCEPT !.phase = "gone"].phase = "gone"
        BY DEF NoSnapshot
      <3> QED
        BY <3>1 DEF SnapMoves
    <2> QED
      BY <2>1 DEF SnapInv, SnapMoves, Live, Steady
  <1> QED
    BY <1>1, <1>2, <1>3

\* History and traces.
HistoryMoves ==
  /\ \A i \in DOMAIN history' : \/ i \in DOMAIN history /\ history'[i] = history[i]
                                \/ snap'.phase = "live" => CommittedIn(snap', i) /\ history'[i] = snap'.pages[i + 1].returned
  /\ snap'.phase = "live" =>
       \A i \in Indexes(snap') : snap'.pages[i + 1].committed /\ snap'.pages[i + 1].returned # {} =>
         i \in DOMAIN history' \/ (i \in snap'.pending /\ ~snap'.pages[i + 1].recorded)
  /\ \/ traces' = traces
     \/ \E i \in Nat : /\ traces' = Append(traces, i) /\ \A j \in DOMAIN traces : traces[j] # i
                       /\ snap'.phase = "live" => CommittedIn(snap', i) /\ snap'.pages[i + 1].traced

\* The history and the traces, over a step of one request.
LEMMA HistoryKeeps ==
  ASSUME ServingInv, SnapMoves, HistoryMoves
  PROVE  HistoryInv'
  <1>1. traces' \in Seq(Nat) /\ \A j, k \in DOMAIN traces' : traces'[j] = traces'[k] => j = k
    <2>1. traces \in Seq(Nat) /\ \A j, k \in DOMAIN traces : traces[j] = traces[k] => j = k
      BY DEF ServingInv, HistoryInv
    <2>2. CASE traces' = traces
      BY <2>1, <2>2
    <2>3. CASE traces' # traces
      <3>1. PICK i \in Nat : traces' = Append(traces, i) /\ \A j \in DOMAIN traces : traces[j] # i
        BY <2>3 DEF HistoryMoves
      <3>2. PICK n \in Nat : n = Len(traces) /\ DOMAIN traces = 1..n
        BY <2>1, LenProperties
      <3>3. /\ traces' \in Seq(Nat) /\ Len(traces') = n + 1
            /\ \A j \in 1..n : traces'[j] = traces[j]
            /\ traces'[n + 1] = i
        BY <2>1, <3>1, <3>2, AppendProperties
      <3>4. DOMAIN traces' = 1..(n + 1)
        BY <3>3, LenProperties
      <3>5. \A j \in 1..(n + 1) : j \in 1..n \/ j = n + 1
        OBVIOUS
      <3> QED
        BY <2>1, <3>1, <3>2, <3>3, <3>4, <3>5
    <2> QED
      BY <2>2, <2>3
  <1>2. ASSUME snap'.phase = "live"
        PROVE  /\ \A i \in DOMAIN history' : CommittedIn(snap', i) /\ history'[i] = snap'.pages[i + 1].returned
               /\ \A j \in DOMAIN traces' : CommittedIn(snap', traces'[j]) /\ snap'.pages[traces'[j] + 1].traced
    <2>1. Follows(snap, snap', stable' \cap Offered) /\ snap.phase = "live"
      BY <1>2 DEF SnapMoves
    <2>2. /\ \A i \in DOMAIN history : CommittedIn(snap, i) /\ history[i] = snap.pages[i + 1].returned
          /\ \A j \in DOMAIN traces : CommittedIn(snap, traces[j]) /\ snap.pages[traces[j] + 1].traced
      BY <2>1 DEF ServingInv, HistoryInv, Live
    <2>3. \A j : CommittedIn(snap, j) => /\ CommittedIn(snap', j) /\ snap'.pages[j + 1].returned = snap.pages[j + 1].returned
                                         /\ snap.pages[j + 1].traced => snap'.pages[j + 1].traced
      BY <2>1 DEF Follows
    <2>4. \A i \in DOMAIN history' : CommittedIn(snap', i) /\ history'[i] = snap'.pages[i + 1].returned
      BY <1>2, <2>2, <2>3 DEF HistoryMoves
    <2>5. \A j \in DOMAIN traces : CommittedIn(snap', traces[j]) /\ snap'.pages[traces[j] + 1].traced
      BY <2>2, <2>3
    <2>6. ASSUME NEW j \in DOMAIN traces'
          PROVE  CommittedIn(snap', traces'[j]) /\ snap'.pages[traces'[j] + 1].traced
      <3>1. CASE traces' = traces
        BY <3>1, <2>5
      <3>2. CASE traces' # traces
        <4>1. PICK i \in Nat : traces' = Append(traces, i) /\ CommittedIn(snap', i) /\ snap'.pages[i + 1].traced
          BY <3>2, <1>2 DEF HistoryMoves
        <4>2. traces \in Seq(Nat)
          BY DEF ServingInv, HistoryInv
        <4>3. PICK n \in Nat : n = Len(traces) /\ DOMAIN traces = 1..n
          BY <4>2, LenProperties
        <4>4. /\ traces' \in Seq(Nat) /\ Len(traces') = n + 1
              /\ \A k \in 1..n : traces'[k] = traces[k]
              /\ traces'[n + 1] = i
          BY <4>1, <4>2, <4>3, AppendProperties
        <4>5. DOMAIN traces' = 1..(n + 1)
          BY <4>4, LenProperties
        <4>6. j \in 1..n \/ j = n + 1
          BY <4>5
        <4> QED
          BY <4>1, <4>3, <4>4, <4>6, <2>5
      <3> QED
        BY <3>1, <3>2
    <2> QED
      BY <2>4, <2>6
  <1> QED
    BY <1>1, <1>2 DEF HistoryInv, HistoryMoves, Live

\* A step that leaves the snapshot alone.
LEMMA SnapStays ==
  ASSUME ServingInv, snap.phase # "none", snap' = snap, stable' \subseteq stable, stable' \subseteq alive', alive' \subseteq Ranked,
         DOMAIN history \subseteq DOMAIN history'
  PROVE  SnapMoves
  <1>1. snap \in Snapshot /\ stable' \subseteq alive' /\ alive' \subseteq Ranked
    BY DEF ServingInv, SnapInv
  <1>2. snap.phase = "live" => SnapshotOK(snap, stable' \cap Offered)
    <2>1. stable' \cap Offered \subseteq Steady
      BY DEF Steady
    <2> QED
      BY <2>1, SnapshotOKFewer DEF ServingInv, SnapInv, Live
  <1>3. snap.phase # "live" => snap = [NoSnapshot EXCEPT !.phase = "gone"]
    <2>1. snap.phase # "live" => snap = [NoSnapshot EXCEPT !.phase = snap.phase] /\ snap.phase = "gone"
      BY <1>1 DEF ServingInv, SnapInv, Live, Snapshot
    <2> QED
      BY <2>1
  <1>4. Follows(snap, snap, stable' \cap Offered)
    BY FollowsItself
  <1> QED
    BY <1>1, <1>2, <1>3, <1>4 DEF SnapMoves

\* A step that changes neither the snapshot nor the history.
LEMMA QuietStep ==
  ASSUME ServingInv, snap.phase # "none", snap' = snap, alive' = alive, stable' \subseteq stable, history' = history, traces' = traces,
         NEW r \in Requests, NEW q, RequestMoves(r, q), AnswersMove(r)
  PROVE  ServingInv'
  <1>1. SnapMoves
    BY SnapStays DEF ServingInv, EligibleInv
  <1>2. HistoryMoves
    BY DEF HistoryMoves, ServingInv, HistoryInv, Live
  <1>3. HistoryInv'
    BY <1>1, <1>2, HistoryKeeps
  <1>4. SnapInv' /\ EligibleInv' /\ RequestsInv' /\ AnswersInv'
    BY <1>1, StepKeeps
  <1> QED
    BY <1>3, <1>4 DEF ServingInv

\* Before the first request nothing else happens.
LEMMA Begun ==
  ASSUME ServingInv, cursors # {} \/ \E r \in Requests : req[r].pc # "idle"
  PROVE  snap.phase # "none"
  BY DEF ServingInv, SnapInv, Idle

\* A request that does nothing.
LEMMA IdleOK ==
  /\ RequestOK(Idle) /\ Idle.pc = "idle" /\ Idle.page = 0 /\ Idle.depleted = FALSE /\ Idle.count = 0 /\ Idle.todo = {} /\ Idle.reload = FALSE
  /\ Idle.items = {}
  BY Constants DEF Idle, RequestOK, ServingRequest, ServingPcs, BeforeCommit, Answering

\* A request that ends, with or without a response.
LEMMA EndsOK ==
  ASSUME ServingInv, NEW r \in Requests, req' = [req EXCEPT ![r] = Idle]
  PROVE  RequestMoves(r, Idle)
  BY IdleOK DEF RequestMoves, Answering

\* What a request is, whatever it does.
LEMMA RequestIs ==
  ASSUME ServingInv, NEW r \in Requests
  PROVE  /\ req[r] \in ServingRequest /\ RequestOK(req[r]) /\ (Live /\ req[r].pc # "idle" => LiveRequestOK(req[r], snap, DOMAIN history, stable))
         /\ req[r].pc \in ServingPcs /\ req[r].page \in Nat /\ req[r].depleted \in BOOLEAN /\ req[r].count \in Nat /\ req[r].todo \in SUBSET Nat
         /\ req[r].reload \in BOOLEAN /\ req[r].items \in SUBSET Ranked
         /\ "invalid" \notin refused
  <1>1. req[r] \in ServingRequest /\ RequestOK(req[r]) /\ (Live /\ req[r].pc # "idle" => LiveRequestOK(req[r], snap, DOMAIN history, stable))
        /\ "invalid" \notin refused
    BY DEF ServingInv, RequestsInv, AnswersInv
  <1> QED
    BY <1>1 DEF ServingRequest

-----------------------------------------------------------------------------
(* Steps that only a request sees.                                         *)

\* A request that ends with a response.
LEMMA RespondOK ==
  ASSUME ServingInv, NEW r \in Requests, req[r].pc \in Answering, Respond(r), refused' = refused
  PROVE  RequestMoves(r, Idle) /\ AnswersMove(r)
  <1>1. req' = [req EXCEPT ![r] = Idle]
    BY DEF Respond, Goto
  <1>2. AnswersMove(r)
    BY RequestIs DEF Respond, AnswersMove
  <1> QED
    BY <1>1, <1>2, EndsOK

\* A request that ends with an error other than an invalid cursor.
LEMMA RefuseOK ==
  ASSUME ServingInv, snap.phase # "none", snap' = snap, alive' = alive, stable' = stable, history' = history, traces' = traces,
         sent' = sent, cursors' = cursors, NEW r \in Requests, NEW why, why # "invalid", Refuse(r, why)
  PROVE  ServingInv'
  <1>1. req' = [req EXCEPT ![r] = Idle] /\ refused' = refused \cup {why}
    BY DEF Refuse, Goto
  <1>2. RequestMoves(r, Idle)
    BY <1>1, EndsOK
  <1>3. AnswersMove(r)
    BY <1>1, RequestIs DEF AnswersMove
  <1>4. stable' \subseteq stable
    OBVIOUS
  <1> QED
    BY <1>2, <1>3, <1>4, QuietStep

\* A request that goes on without touching what is shared.
LEMMA QuietRequest ==
  ASSUME ServingInv, snap.phase # "none", snap' = snap, alive' = alive, stable' \subseteq stable, history' = history, traces' = traces,
         sent' = sent, cursors' = cursors, refused' = refused,
         NEW r \in Requests, NEW q, RequestOK(q), req' = [req EXCEPT ![r] = q],
         snap.phase = "live" /\ q.pc # "idle" => LiveRequestOK(q, snap, DOMAIN history, stable'),
         snap.phase # "live" => q.pc \notin Answering
  PROVE  ServingInv'
  <1>1. RequestMoves(r, q)
    BY DEF RequestMoves
  <1>2. AnswersMove(r)
    BY RequestIs DEF AnswersMove
  <1> QED
    BY <1>1, <1>2, QuietStep

\* serveSnapshotCursor loads the snapshot and the pending history.
LEMMA StepServeCursor ==
  ASSUME ServingInv, NEW r \in Requests, NEW i \in cursors, ServeCursor(r, i)
  PROVE  ServingInv'
  <1>1. /\ snap' = snap /\ alive' = alive /\ stable' = stable /\ history' = history /\ cursors' = cursors /\ sent' = sent /\ traces' = traces
        /\ snap.phase # "none"
    BY Begun DEF ServeCursor
  <1>2. CASE ~Live
    <2>1. Refuse(r, "expired")
      BY <1>2 DEF ServeCursor
    <2> QED
      BY <2>1, <1>1, RefuseOK
  <1>3. CASE Live
    <2>1. PICK q : q = [Idle EXCEPT !.pc = IF PendingHistory(snap) = {} THEN "page" ELSE "recover", !.page = i,
                                    !.depleted = snap.exhausted, !.count = Count(snap), !.todo = PendingHistory(snap)]
      OBVIOUS
    <2>2. req' = [req EXCEPT ![r] = q] /\ refused' = refused
      BY <2>1, <1>3 DEF ServeCursor, Goto
    <2>3. /\ q.pc = (IF snap.pending = {} THEN "page" ELSE "recover") /\ q.page = i /\ q.depleted = snap.exhausted /\ q.count = Count(snap)
          /\ q.todo = snap.pending /\ q.reload = FALSE /\ q.items = {}
      BY <2>1 DEF Idle, PendingHistory
    <2>4. SnapshotOK(snap, Steady) /\ snap \in Snapshot /\ PagesOK(snap) /\ CommittedIn(snap, i - 1) /\ i \in 1..MaxPages /\ Count(snap) \in 1..MaxPages
      BY <1>3 DEF ServingInv, SnapInv, AnswersInv, SnapshotOK, Coherent
    <2>5. i \in Nat /\ i > 0 /\ i <= Count(snap) /\ i <= MaxPages
      BY <2>4, Constants DEF CommittedIn, Indexes
    <2>6. RequestOK(q)
      <3>1. snap.exhausted \in BOOLEAN /\ snap.pending \in SUBSET Nat /\ Count(snap) \in Nat
        BY <2>4, Constants DEF Snapshot
      <3>2. q \in ServingRequest
        BY <2>1, <2>5, <3>1 DEF Idle, PendingHistory, ServingRequest, ServingPcs
      <3> QED
        BY <2>3, <2>5, <3>2 DEF RequestOK, BeforeCommit, Answering
    <2>7. LiveRequestOK(q, snap, DOMAIN history, stable)
      <3>1. \A j \in snap.pending : CommittedIn(snap, j)
        BY <2>4 DEF PagesOK
      <3>2. q.depleted => AllKnown(snap, stable \cap Offered)
        BY <2>3, <2>4 DEF SnapshotOK, Steady
      <3> QED
        BY <2>3, <2>4, <2>5, <3>1, <3>2 DEF LiveRequestOK, BeforeCommit, Answering
    <2>8. q.pc \notin Answering /\ stable' \subseteq stable
      BY <2>3, <1>1 DEF Answering
    <2> QED
      BY <1>1, <2>2, <2>6, <2>7, <2>8, QuietRequest
  <1> QED
    BY <1>2, <1>3

\* A snapshot of another ranker, profile or language is refused.
LEMMA StepOutdated ==
  ASSUME ServingInv, NEW r \in Requests, Outdated(r)
  PROVE  ServingInv'
  <1>1. /\ snap' = snap /\ alive' = alive /\ stable' = stable /\ history' = history /\ cursors' = cursors /\ sent' = sent /\ traces' = traces
        /\ snap.phase # "none" /\ Refuse(r, "expired")
    BY Begun DEF Outdated
  <1> QED
    BY <1>1, RefuseOK

\* The next page to recover, or the page asked for.
LEMMA AfterRecoveryOK ==
  ASSUME ServingInv, NEW r \in Requests, req[r].pc \in {"recover", "receipt"}, NEW q, q = AfterRecovery(r, req[r])
  PROVE  /\ RequestOK(q) /\ q.pc \notin Answering /\ q.pc \notin BeforeCommit /\ q.pc # "receipt" /\ q.page = req[r].page /\ q.depleted = req[r].depleted
         /\ q.todo \subseteq req[r].todo
  <1> DEFINE rest == req[r].todo \ {Min(req[r].todo)}
  <1>1. q = [req[r] EXCEPT !.todo = rest, !.pc = IF rest # {} THEN "recover" ELSE IF req[r].reload THEN "reload" ELSE "page"]
    BY DEF AfterRecovery
  <1>2. req[r] \in ServingRequest /\ RequestOK(req[r])
    BY RequestIs
  <1>3. rest \subseteq req[r].todo /\ rest \in SUBSET Nat
    BY <1>2 DEF ServingRequest
  <1> HIDE DEF rest
  <1>4. /\ q.todo = rest /\ q.pc = (IF rest # {} THEN "recover" ELSE IF req[r].reload THEN "reload" ELSE "page")
        /\ q.page = req[r].page /\ q.depleted = req[r].depleted /\ q.count = req[r].count /\ q.items = req[r].items
    BY <1>1, <1>2 DEF ServingRequest
  <1>5. q \in ServingRequest
    BY <1>1, <1>2, <1>3 DEF ServingRequest, ServingPcs
  <1>6. q.pc \in {"recover", "reload", "page"} /\ (q.pc = "recover" <=> rest # {})
    BY <1>4
  <1>7. req[r].page > 0 /\ req[r].page <= req[r].count /\ req[r].page <= MaxPages
    BY <1>2 DEF RequestOK
  <1>8. RequestOK(q)
    BY <1>4, <1>5, <1>6, <1>7 DEF RequestOK, BeforeCommit, Answering
  <1> QED
    BY <1>3, <1>4, <1>6, <1>8 DEF BeforeCommit, Answering

\* After a page was recovered, or not, the request relies on what it did before.
LEMMA AfterRecoveryLive ==
  ASSUME ServingInv, NEW r \in Requests, req[r].pc \in {"recover", "receipt"}, NEW q, q = AfterRecovery(r, req[r]), Live
  PROVE  LiveRequestOK(q, snap, DOMAIN history, stable)
  <1>1. LiveRequestOK(req[r], snap, DOMAIN history, stable)
    BY RequestIs
  <1>2. /\ RequestOK(q) /\ q.pc \notin Answering /\ q.pc \notin BeforeCommit /\ q.pc # "receipt" /\ q.page = req[r].page /\ q.depleted = req[r].depleted
        /\ q.todo \subseteq req[r].todo
    BY AfterRecoveryOK
  <1>3. \A i \in q.todo : CommittedIn(snap, i)
    BY <1>1, <1>2 DEF LiveRequestOK
  <1> QED
    BY <1>1, <1>2, <1>3 DEF LiveRequestOK, Answering

\* A recovery that fails is left for later.
LEMMA StepRecoveryFails ==
  ASSUME ServingInv, NEW r \in Requests, RecoveryFails(r)
  PROVE  ServingInv'
  <1>1. PICK q : q = AfterRecovery(r, req[r])
    OBVIOUS
  <1>2. /\ snap' = snap /\ alive' = alive /\ stable' \subseteq stable /\ stable' = stable /\ history' = history /\ cursors' = cursors /\ sent' = sent
        /\ traces' = traces /\ refused' = refused
        /\ req[r].pc \in {"recover", "receipt"} /\ req' = [req EXCEPT ![r] = q] /\ snap.phase # "none"
    BY <1>1, Begun DEF RecoveryFails, At, Goto
  <1>3. RequestOK(q) /\ q.pc \notin Answering
    BY <1>1, <1>2, AfterRecoveryOK
  <1>4. snap.phase = "live" => LiveRequestOK(q, snap, DOMAIN history, stable)
    BY <1>1, <1>2, AfterRecoveryLive DEF Live
  <1> QED
    BY <1>2, <1>3, <1>4, QuietRequest

\* After a recovery the snapshot is read again.
LEMMA StepReload ==
  ASSUME ServingInv, NEW r \in Requests, Reload(r)
  PROVE  ServingInv'
  <1>1. PICK q : q = [req[r] EXCEPT !.pc = "page", !.depleted = snap.exhausted, !.count = Count(snap)]
    OBVIOUS
  <1>2. /\ snap' = snap /\ alive' = alive /\ stable' \subseteq stable /\ stable' = stable /\ history' = history /\ cursors' = cursors /\ sent' = sent
        /\ traces' = traces /\ refused' = refused
        /\ req[r].pc = "reload" /\ Live /\ req' = [req EXCEPT ![r] = q] /\ snap.phase # "none"
    BY <1>1 DEF Reload, At, Goto, Live
  <1>3. req[r] \in ServingRequest /\ RequestOK(req[r]) /\ LiveRequestOK(req[r], snap, DOMAIN history, stable)
    BY <1>2, RequestIs
  <1>4. SnapshotOK(snap, Steady) /\ snap.exhausted \in BOOLEAN /\ Count(snap) \in Nat
    BY <1>2, Constants DEF ServingInv, SnapInv, SnapshotOK, Snapshot
  <1>5. /\ q.pc = "page" /\ q.depleted = snap.exhausted /\ q.count = Count(snap) /\ q.page = req[r].page /\ q.todo = req[r].todo
        /\ q \in ServingRequest
    BY <1>1, <1>3, <1>4 DEF ServingRequest, ServingPcs
  <1>6. q.page > 0 /\ q.page <= Count(snap) /\ q.page <= MaxPages /\ q.todo = {} /\ CommittedIn(snap, q.page - 1)
    <2>1. q.page > 0 /\ q.page \in Nat /\ q.page <= MaxPages /\ q.todo = {}
      BY <1>2, <1>3, <1>5 DEF RequestOK, ServingRequest
    <2>2. CommittedIn(snap, q.page - 1)
      BY <2>1, <1>3, <1>5 DEF LiveRequestOK
    <2> QED
      BY <2>1, <2>2, <1>4 DEF CommittedIn, Indexes
  <1>7. RequestOK(q)
    BY <1>5, <1>6 DEF RequestOK, BeforeCommit, Answering
  <1>8. LiveRequestOK(q, snap, DOMAIN history, stable)
    <2>1. q.depleted => AllKnown(snap, stable \cap Offered)
      BY <1>4, <1>5 DEF SnapshotOK, Steady
    <2> QED
      BY <2>1, <1>5, <1>6 DEF LiveRequestOK, BeforeCommit, Answering
  <1>9. q.pc \notin Answering
    BY <1>5 DEF Answering
  <1> QED
    BY <1>2, <1>7, <1>8, <1>9, QuietRequest

\* A request that has the Posts it is about to commit.
LEMMA ReadyToCommit ==
  ASSUME NEW q, q.pc = "commit", NEW s, NEW told, NEW posts,
         q.page > 0 => CommittedIn(s, q.page - 1), q.page = 0 => 0 \in Indexes(s), q.page \in Indexes(s),
         ~s.pages[q.page + 1].committed =>
            q.items \subseteq s.pages[q.page + 1].items /\ s.pages[q.page + 1].items \cap posts \subseteq q.items,
         q.depleted => AllKnown(s, posts \cap Offered)
  PROVE  LiveRequestOK(q, s, told, posts)
  <1>1. q.pc \notin Answering /\ q.pc \notin {"recover", "receipt"} /\ q.pc # "flag" /\ q.pc # "trace" /\ q.pc # "receipt"
    BY DEF Answering
  <1> QED
    BY <1>1 DEF LiveRequestOK

\* The page is there and loaded.
LEMMA StepLoadPage ==
  ASSUME ServingInv, NEW r \in Requests, LoadPage(r)
  PROVE  ServingInv'
  <1> DEFINE i == req[r].page
  <1>1. PICK q : q = [req[r] EXCEPT !.pc = "commit", !.items = Shown(Page(i))]
    OBVIOUS
  <1>2. /\ snap' = snap /\ alive' = alive /\ stable' \subseteq stable /\ stable' = stable /\ history' = history /\ cursors' = cursors /\ sent' = sent
        /\ traces' = traces /\ refused' = refused
        /\ req[r].pc = "page" /\ Live /\ i < Count(snap) /\ i < MaxPages /\ req' = [req EXCEPT ![r] = q] /\ snap.phase # "none"
    BY <1>1 DEF LoadPage, At, Goto, Live, Exists
  <1>3. req[r] \in ServingRequest /\ RequestOK(req[r]) /\ LiveRequestOK(req[r], snap, DOMAIN history, stable) /\ i \in Nat
    BY <1>2, RequestIs
  <1>4. SnapshotOK(snap, Steady) /\ snap \in Snapshot /\ Count(snap) \in Nat /\ i \in Indexes(snap) /\ stable \subseteq alive
    BY <1>2, <1>3, Constants DEF ServingInv, SnapInv, EligibleInv, SnapshotOK, Indexes
  <1>5. snap.pages[i + 1].items \in SUBSET Ranked /\ snap.pages[i + 1].returned \in SUBSET Ranked
    BY <1>4, PageTyped
  <1>6. /\ Shown(Page(i)) \in SUBSET Ranked
        /\ ~snap.pages[i + 1].committed => Shown(Page(i)) = snap.pages[i + 1].items \cap alive
    BY <1>5 DEF Shown, Eligible, Page
  <1>7. /\ q.pc = "commit" /\ q.items = Shown(Page(i)) /\ q.page = i /\ q.todo = req[r].todo /\ q.depleted = req[r].depleted /\ q.count = req[r].count
        /\ q \in ServingRequest
    <2> HIDE DEF i
    <2> QED
      BY <1>1, <1>3, <1>6 DEF ServingRequest, ServingPcs, i
  <1>8. RequestOK(q)
    BY <1>2, <1>3, <1>7 DEF RequestOK, BeforeCommit, Answering
  <1>9. LiveRequestOK(q, snap, DOMAIN history, stable)
    <2>1. /\ q.page \in Indexes(snap)
          /\ ~snap.pages[q.page + 1].committed =>
               q.items \subseteq snap.pages[q.page + 1].items /\ snap.pages[q.page + 1].items \cap stable \subseteq q.items
      BY <1>4, <1>6, <1>7
    <2>2. /\ q.page > 0 => CommittedIn(snap, q.page - 1)
          /\ q.page = 0 => 0 \in Indexes(snap)
          /\ q.depleted => AllKnown(snap, stable \cap Offered)
      BY <1>3, <1>7 DEF LiveRequestOK
    <2> QED
      BY <2>1, <2>2, <1>7, ReadyToCommit
  <1>10. q.pc \notin Answering
    BY <1>7 DEF Answering
  <1> QED
    BY <1>2, <1>8, <1>9, <1>10, QuietRequest

\* A request that holds a cursor never asks for more than the next page.
LEMMA StepPageRefused ==
  ASSUME ServingInv, NEW r \in Requests, PageRefused(r)
  PROVE  ServingInv'
  <1> DEFINE i == req[r].page
  <1>1. /\ snap' = snap /\ alive' = alive /\ stable' = stable /\ history' = history /\ cursors' = cursors /\ sent' = sent /\ traces' = traces
        /\ req[r].pc = "page" /\ snap.phase # "none"
    BY Begun DEF PageRefused, At
  <1>2. CASE Refuse(r, "capacity") \/ Refuse(r, "unavailable")
    BY <1>1, <1>2, RefuseOK
  <1>3. CASE i < MaxPages /\ Live /\ ~Exists(i) /\ i > Min({req[r].count, Count(snap)}) /\ i >= req[r].count
    <2>1. LiveRequestOK(req[r], snap, DOMAIN history, stable) /\ RequestOK(req[r]) /\ i \in Nat /\ req[r].count \in Nat
      BY <1>1, <1>3, RequestIs
    <2>2. i > 0 /\ i <= req[r].count /\ CommittedIn(snap, i - 1)
      BY <2>1, <1>1 DEF RequestOK, LiveRequestOK
    <2>3. Count(snap) \in Nat
      BY <1>3, Constants DEF ServingInv, SnapInv, SnapshotOK
    <2>4. i <= Count(snap)
      BY <2>1, <2>2, <2>3 DEF CommittedIn, Indexes
    <2>5. Min({req[r].count, Count(snap)}) \in {req[r].count, Count(snap)}
      <3>1. {req[r].count, Count(snap)} \subseteq Nat /\ {req[r].count, Count(snap)} # {}
        BY <2>1, <2>3
      <3> QED
        BY <3>1, LeastNumber
    <2>6. i <= Min({req[r].count, Count(snap)})
      BY <2>2, <2>4, <2>5
    <2>7. PICK m \in Nat : m = Min({req[r].count, Count(snap)})
      BY <2>1, <2>3, <2>5
    <2> QED
      BY <2>1, <2>6, <2>7, <1>3
  <1> QED
    BY <1>2, <1>3 DEF PageRefused

\* The built page without the Posts that left meanwhile.
LEMMA StepMaterializePage ==
  ASSUME ServingInv, NEW r \in Requests, MaterializePage(r)
  PROVE  ServingInv'
  <1>1. PICK q : q = [req[r] EXCEPT !.pc = "commit", !.items = req[r].items \cap alive]
    OBVIOUS
  <1>2. /\ snap' = snap /\ alive' = alive /\ stable' \subseteq stable /\ stable' = stable /\ history' = history /\ cursors' = cursors /\ sent' = sent
        /\ traces' = traces /\ refused' = refused
        /\ req[r].pc = "show" /\ req' = [req EXCEPT ![r] = q] /\ snap.phase # "none"
    BY <1>1, Begun DEF MaterializePage, At, Goto, Eligible
  <1>3. req[r] \in ServingRequest /\ RequestOK(req[r]) /\ (Live => LiveRequestOK(req[r], snap, DOMAIN history, stable))
    BY <1>2, RequestIs
  <1>4. /\ q.pc = "commit" /\ q.items = req[r].items \cap alive /\ q.page = req[r].page /\ q.todo = req[r].todo /\ q.depleted = req[r].depleted
        /\ q.count = req[r].count /\ q \in ServingRequest
    BY <1>1, <1>3 DEF ServingRequest, ServingPcs
  <1>5. RequestOK(q)
    BY <1>2, <1>3, <1>4 DEF RequestOK, BeforeCommit, Answering
  <1>6. ASSUME snap.phase = "live"
        PROVE  LiveRequestOK(q, snap, DOMAIN history, stable)
    <2>1. stable \subseteq alive
      BY DEF ServingInv, EligibleInv
    <2>2. LiveRequestOK(req[r], snap, DOMAIN history, stable)
      BY <1>3, <1>6 DEF Live
    <2>3. /\ q.page \in Indexes(snap)
          /\ ~snap.pages[q.page + 1].committed =>
               q.items \subseteq snap.pages[q.page + 1].items /\ snap.pages[q.page + 1].items \cap stable \subseteq q.items
      BY <2>1, <2>2, <1>2, <1>4 DEF LiveRequestOK, BeforeCommit
    <2>4. /\ q.page > 0 => CommittedIn(snap, q.page - 1)
          /\ q.page = 0 => 0 \in Indexes(snap)
          /\ q.depleted => AllKnown(snap, stable \cap Offered)
      BY <2>2, <1>4 DEF LiveRequestOK
    <2> QED
      BY <2>3, <2>4, <1>4, ReadyToCommit
  <1>7. q.pc \notin Answering
    BY <1>4 DEF Answering
  <1> QED
    BY <1>2, <1>5, <1>6, <1>7, QuietRequest

\* The mapper drops a Post.
LEMMA StepMap ==
  ASSUME ServingInv, NEW r \in Requests, NEW p \in Volatile, Map(r, p)
  PROVE  ServingInv'
  <1>1. PICK q : q = [req[r] EXCEPT !.items = req[r].items \ {p}, !.todo = {p}]
    OBVIOUS
  <1>2. /\ snap' = snap /\ alive' = alive /\ stable' \subseteq stable /\ stable' = stable \ {p} /\ history' = history /\ cursors' = cursors /\ sent' = sent
        /\ traces' = traces /\ refused' = refused
        /\ req[r].pc = "commit" /\ p \in req[r].items /\ req' = [req EXCEPT ![r] = q] /\ snap.phase # "none"
    BY <1>1, Begun DEF Map, At, Goto
  <1>3. req[r] \in ServingRequest /\ RequestOK(req[r]) /\ (Live => LiveRequestOK(req[r], snap, DOMAIN history, stable)) /\ req[r].items \in SUBSET Ranked
    BY <1>2, RequestIs
  <1>4. {p} \in SUBSET Nat
    BY <1>2, <1>3, Constants
  <1>5. /\ q.pc = "commit" /\ q.items = req[r].items \ {p} /\ q.page = req[r].page /\ q.todo = {p} /\ q.depleted = req[r].depleted
        /\ q.count = req[r].count /\ q \in ServingRequest
    BY <1>1, <1>2, <1>3, <1>4 DEF ServingRequest, ServingPcs
  <1>6. RequestOK(q)
    BY <1>2, <1>3, <1>5 DEF RequestOK, BeforeCommit, Answering
  <1>7. ASSUME snap.phase = "live"
        PROVE  LiveRequestOK(q, snap, DOMAIN history, stable')
    <2>1. LiveRequestOK(req[r], snap, DOMAIN history, stable)
      BY <1>3, <1>7 DEF Live
    <2>2. /\ q.page \in Indexes(snap)
          /\ ~snap.pages[q.page + 1].committed =>
               q.items \subseteq snap.pages[q.page + 1].items /\ snap.pages[q.page + 1].items \cap stable' \subseteq q.items
      BY <2>1, <1>2, <1>5 DEF LiveRequestOK, BeforeCommit
    <2>3. q.depleted => AllKnown(snap, stable' \cap Offered)
      <3>1. stable' \cap Offered \subseteq stable \cap Offered
        BY <1>2
      <3>2. q.depleted => AllKnown(snap, stable \cap Offered)
        BY <2>1, <1>5 DEF LiveRequestOK
      <3> QED
        BY <3>1, <3>2, AllKnownFewer
    <2>4. /\ q.page > 0 => CommittedIn(snap, q.page - 1)
          /\ q.page = 0 => 0 \in Indexes(snap)
      BY <2>1, <1>5 DEF LiveRequestOK
    <2> QED
      BY <2>2, <2>3, <2>4, <1>5, ReadyToCommit
  <1>8. q.pc \notin Answering
    BY <1>5 DEF Answering
  <1> QED
    BY <1>2, <1>6, <1>7, <1>8, QuietRequest

\* The page was committed before with the same Posts.
LEMMA StepAlreadyCommitted ==
  ASSUME ServingInv, NEW r \in Requests, AlreadyCommitted(r)
  PROVE  ServingInv'
  <1> DEFINE i == req[r].page
  <1>1. PICK q : q = [req[r] EXCEPT !.pc = IF Page(i).recorded THEN "trace" ELSE "record"]
    OBVIOUS
  <1>2. /\ snap' = snap /\ alive' = alive /\ stable' \subseteq stable /\ stable' = stable /\ history' = history /\ cursors' = cursors /\ sent' = sent
        /\ traces' = traces /\ refused' = refused
        /\ req[r].pc = "commit" /\ Live /\ i < Count(snap) /\ snap.pages[i + 1].committed /\ req[r].items = snap.pages[i + 1].returned
        /\ req' = [req EXCEPT ![r] = q] /\ snap.phase = "live" /\ snap.phase # "none"
    BY <1>1 DEF AlreadyCommitted, At, Step, Goto, Live, Exists, Page
  <1>3. req[r] \in ServingRequest /\ RequestOK(req[r]) /\ LiveRequestOK(req[r], snap, DOMAIN history, stable) /\ i \in Nat
    BY <1>2, RequestIs
  <1>4. /\ q.pc = (IF snap.pages[i + 1].recorded THEN "trace" ELSE "record") /\ q.items = req[r].items /\ q.page = i /\ q.todo = req[r].todo
        /\ q.depleted = req[r].depleted /\ q.count = req[r].count /\ q \in ServingRequest
    BY <1>1, <1>3 DEF ServingRequest, ServingPcs, Page
  <1>5. RequestOK(q)
    BY <1>2, <1>3, <1>4 DEF RequestOK, BeforeCommit, Answering
  <1>6. CommittedIn(snap, i)
    BY <1>2, <1>3 DEF LiveRequestOK, BeforeCommit, CommittedIn
  <1>7. LiveRequestOK(q, snap, DOMAIN history, stable)
    BY <1>2, <1>3, <1>4, <1>6 DEF LiveRequestOK, BeforeCommit
  <1> QED
    BY <1>2, <1>5, <1>7, QuietRequest

\* The page was committed with other Posts, or is not there.
LEMMA StepCommitRefused ==
  ASSUME ServingInv, NEW r \in Requests, CommitRefused(r)
  PROVE  ServingInv'
  <1>1. PICK why : why = IF Exists(req[r].page) /\ ~Page(req[r].page).committed THEN "unavailable" ELSE "expired"
    OBVIOUS
  <1>2. /\ snap' = snap /\ alive' = alive /\ stable' = stable /\ history' = history /\ cursors' = cursors /\ sent' = sent /\ traces' = traces
        /\ snap.phase # "none" /\ Refuse(r, why) /\ why # "invalid"
    BY <1>1, Begun DEF CommitRefused, At
  <1> QED
    BY <1>2, RefuseOK

\* The snapshot expired under the request.
LEMMA StepHashGone ==
  ASSUME ServingInv, NEW r \in Requests, HashGone(r)
  PROVE  ServingInv'
  <1>1. /\ snap' = snap /\ alive' = alive /\ stable' = stable /\ history' = history /\ traces' = traces /\ stable' \subseteq stable
        /\ req[r].pc # "idle" /\ snap.phase # "none"
    BY Begun DEF HashGone, At
  <1>2. CASE Refuse(r, "expired") /\ UNCHANGED <<sent, cursors>>
    BY <1>1, <1>2, RefuseOK
  <1>3. CASE req[r].pc \in Answering /\ Respond(r) /\ refused' = refused
    BY <1>1, <1>3, RespondOK, QuietStep
  <1> QED
    BY <1>2, <1>3 DEF HashGone, At, Answering

\* The request fails somewhere.
LEMMA StepRequestFails ==
  ASSUME ServingInv, NEW r \in Requests, RequestFails(r)
  PROVE  ServingInv'
  <1>1. /\ snap' = snap /\ alive' = alive /\ stable' = stable /\ history' = history /\ traces' = traces /\ stable' \subseteq stable
        /\ req[r].pc # "idle" /\ snap.phase # "none" /\ refused' = refused
    BY Begun DEF RequestFails, At
  <1>2. CASE req' = [req EXCEPT ![r] = Idle] /\ UNCHANGED <<sent, cursors>>
    <2>1. RequestMoves(r, Idle)
      BY <1>2, EndsOK
    <2>2. AnswersMove(r)
      BY <1>1, <1>2, RequestIs DEF AnswersMove
    <2> QED
      BY <1>1, <2>1, <2>2, QuietStep
  <1>3. CASE req[r].pc \in Answering /\ Respond(r)
    BY <1>1, <1>3, RespondOK, QuietStep
  <1> QED
    BY <1>2, <1>3 DEF RequestFails, At, Goto, Answering

-----------------------------------------------------------------------------
(* Steps that write history or the hash.                                   *)

\* The history after a page was recorded: its own entry, or what was there.
LEMMA RecordIs ==
  ASSUME NEW i, NEW posts, RecordPage(i, posts)
  PROVE  /\ DOMAIN history \subseteq DOMAIN history' /\ (posts = {} \/ i \in DOMAIN history')
         /\ \A j \in DOMAIN history' : \/ j \in DOMAIN history /\ history'[j] = history[j]
                                       \/ j = i /\ history'[j] = posts
  <1>1. CASE i \in DOMAIN history \/ posts = {}
    BY <1>1 DEF RecordPage
  <1>2. CASE ~(i \in DOMAIN history \/ posts = {})
    <2>1. history' = [j \in DOMAIN history \cup {i} |-> IF j = i THEN posts ELSE history[j]]
      BY <1>2 DEF RecordPage
    <2> QED
      BY <2>1
  <1> QED
    BY <1>1, <1>2

\* A page recorded with what it was committed with keeps the invariant.
LEMMA RecordStep ==
  ASSUME ServingInv, snap.phase # "none", snap' = snap, alive' = alive, stable' = stable, traces' = traces,
         sent' = sent, cursors' = cursors, refused' = refused,
         NEW i, NEW posts, RecordPage(i, posts), Live => CommittedIn(snap, i) /\ snap.pages[i + 1].returned = posts,
         NEW r \in Requests, NEW q, RequestMoves(r, q)
  PROVE  ServingInv'
  <1>1. /\ DOMAIN history \subseteq DOMAIN history'
        /\ \A j \in DOMAIN history' : \/ j \in DOMAIN history /\ history'[j] = history[j]
                                      \/ j = i /\ history'[j] = posts
    BY RecordIs
  <1>2. SnapMoves
    BY <1>1, SnapStays DEF ServingInv, EligibleInv
  <1>3. HistoryMoves
    BY <1>1 DEF HistoryMoves, ServingInv, HistoryInv, Live
  <1>4. AnswersMove(r)
    BY RequestIs DEF AnswersMove
  <1>5. HistoryInv'
    BY <1>2, <1>3, HistoryKeeps
  <1>6. SnapInv' /\ EligibleInv' /\ RequestsInv' /\ AnswersInv'
    BY <1>2, <1>4, StepKeeps
  <1> QED
    BY <1>5, <1>6 DEF ServingInv

\* A page of an earlier request is recorded.
LEMMA StepRecoverHistory ==
  ASSUME ServingInv, NEW r \in Requests, RecoverHistory(r)
  PROVE  ServingInv'
  <1>1. PICK i : i = Min(req[r].todo)
    OBVIOUS
  <1>2. PICK q : q = [req[r] EXCEPT !.pc = "receipt", !.reload = TRUE]
    OBVIOUS
  <1>3. /\ snap' = snap /\ alive' = alive /\ stable' = stable /\ cursors' = cursors /\ sent' = sent /\ traces' = traces /\ refused' = refused
        /\ req[r].pc = "recover" /\ Live /\ snap.phase = "live" /\ snap.phase # "none" /\ req' = [req EXCEPT ![r] = q]
        /\ RecordPage(i, snap.pages[i + 1].returned)
    BY <1>1, <1>2 DEF RecoverHistory, At, Goto, Live, Page
  <1>4. req[r] \in ServingRequest /\ RequestOK(req[r]) /\ LiveRequestOK(req[r], snap, DOMAIN history, stable) /\ req[r].todo \in SUBSET Nat
    BY <1>3, RequestIs
  <1>5. CommittedIn(snap, i)
    <2>1. req[r].todo # {} /\ \A j \in req[r].todo : CommittedIn(snap, j)
      BY <1>3, <1>4 DEF RequestOK, LiveRequestOK
    <2> QED
      BY <2>1, <1>1, <1>4, LeastNumber
  <1>6. /\ q.pc = "receipt" /\ q.items = req[r].items /\ q.page = req[r].page /\ q.todo = req[r].todo
        /\ q.depleted = req[r].depleted /\ q.count = req[r].count /\ q \in ServingRequest
    BY <1>2, <1>4 DEF ServingRequest, ServingPcs
  <1>7. RequestOK(q)
    BY <1>3, <1>4, <1>6 DEF RequestOK, BeforeCommit, Answering
  <1>8. snap.pages[Min(q.todo) + 1].returned = {} \/ Min(q.todo) \in DOMAIN history'
    BY <1>1, <1>3, <1>6, RecordIs
  <1>9. LiveRequestOK(q, snap, DOMAIN history', stable)
    <2>1. /\ q.page > 0 => CommittedIn(snap, q.page - 1)
          /\ q.page = 0 => 0 \in Indexes(snap)
          /\ \A j \in q.todo : CommittedIn(snap, j)
          /\ q.depleted => AllKnown(snap, stable \cap Offered)
      BY <1>3, <1>4, <1>6 DEF LiveRequestOK
    <2> QED
      BY <2>1, <1>6, <1>8 DEF LiveRequestOK, BeforeCommit, Answering
  <1>10. RequestMoves(r, q)
    BY <1>3, <1>7, <1>9 DEF RequestMoves
  <1> QED
    BY <1>3, <1>5, <1>10, RecordStep

\* The committed page of this request is recorded.
LEMMA StepRecordHistory ==
  ASSUME ServingInv, NEW r \in Requests, RecordHistory(r)
  PROVE  ServingInv'
  <1>1. PICK q : q = [req[r] EXCEPT !.pc = "flag"]
    OBVIOUS
  <1>2. /\ snap' = snap /\ alive' = alive /\ stable' = stable /\ cursors' = cursors /\ sent' = sent /\ traces' = traces /\ refused' = refused
        /\ req[r].pc = "record" /\ snap.phase # "none" /\ req' = [req EXCEPT ![r] = q]
        /\ RecordPage(req[r].page, req[r].items)
    BY <1>1, Begun DEF RecordHistory, At, Step, Goto
  <1>3. req[r] \in ServingRequest /\ RequestOK(req[r]) /\ (Live => LiveRequestOK(req[r], snap, DOMAIN history, stable)) /\ req[r].pc \in Answering
    BY <1>2, RequestIs DEF Answering
  <1>4. /\ q.pc = "flag" /\ q.items = req[r].items /\ q.page = req[r].page /\ q.todo = req[r].todo
        /\ q.depleted = req[r].depleted /\ q.count = req[r].count /\ q \in ServingRequest
    BY <1>1, <1>3 DEF ServingRequest, ServingPcs
  <1>5. RequestOK(q)
    BY <1>2, <1>3, <1>4 DEF RequestOK, BeforeCommit, Answering
  <1>6. Live => CommittedIn(snap, req[r].page) /\ snap.pages[req[r].page + 1].returned = req[r].items
    BY <1>3 DEF LiveRequestOK
  <1>7. q.items = {} \/ q.page \in DOMAIN history'
    BY <1>2, <1>4, RecordIs
  <1>8. ASSUME Live
        PROVE  LiveRequestOK(q, snap, DOMAIN history', stable)
    <2>1. /\ q.page > 0 => CommittedIn(snap, q.page - 1)
          /\ q.page = 0 => 0 \in Indexes(snap)
          /\ q.depleted => AllKnown(snap, stable \cap Offered)
      BY <1>3, <1>4, <1>8 DEF LiveRequestOK
    <2> QED
      BY <2>1, <1>4, <1>6, <1>7, <1>8 DEF LiveRequestOK, BeforeCommit
  <1>9. RequestMoves(r, q)
    BY <1>2, <1>3, <1>4, <1>5, <1>8 DEF RequestMoves, Live
  <1> QED
    BY <1>2, <1>6, <1>9, RecordStep

\* A mark on a committed page, which may be one that ends its recovery.
LEMMA MarkMoves ==
  ASSUME ServingInv, Live, NEW i, Marked(snap, snap', i), snap.pages[i + 1].traced => snap'.pages[i + 1].traced,
         alive' = alive, stable' = stable, DOMAIN history \subseteq DOMAIN history'
  PROVE  SnapMoves /\ snap'.phase = "live" /\ Follows(snap, snap', Steady)
  <1>1. SnapshotOK(snap, Steady) /\ snap' \in Snapshot /\ snap'.phase = "live"
    BY DEF ServingInv, SnapInv, Marked, Live
  <1>2. SnapshotOK(snap', Steady) /\ (AllKnown(snap, Steady) => AllKnown(snap', Steady))
    BY <1>1, MarkedOK
  <1>3. Follows(snap, snap', Steady)
    BY <1>2, FollowsMark
  <1> QED
    BY <1>1, <1>2, <1>3 DEF SnapMoves, Steady, ServingInv, EligibleInv, Live

\* A mark keeps the history accounted: the receipt is written after the entry.
LEMMA MarkHistory ==
  ASSUME ServingInv, Live, NEW i, Marked(snap, snap', i), history' = history,
         \/ snap'.pending = snap.pending /\ snap'.pages[i + 1].recorded = snap.pages[i + 1].recorded
         \/ snap'.pending = snap.pending \ {i} /\ (snap.pages[i + 1].returned = {} \/ i \in DOMAIN history),
         \/ traces' = traces
         \/ \E j \in Nat : /\ traces' = Append(traces, j) /\ \A k \in DOMAIN traces : traces[k] # j
                           /\ CommittedIn(snap', j) /\ snap'.pages[j + 1].traced
  PROVE  HistoryMoves
  <1>1. /\ Indexes(snap') = Indexes(snap) /\ \A j \in Indexes(snap) : j # i => snap'.pages[j + 1] = snap.pages[j + 1]
        /\ snap.pages[i + 1].committed /\ snap'.pages[i + 1].returned = snap.pages[i + 1].returned
    BY DEF Marked, CommittedIn
  <1>2. \A j \in Indexes(snap) : snap.pages[j + 1].committed /\ snap.pages[j + 1].returned # {} =>
          j \in DOMAIN history \/ (j \in snap.pending /\ ~snap.pages[j + 1].recorded)
    BY DEF ServingInv, HistoryInv
  <1>3. ASSUME NEW j \in Indexes(snap'), snap'.pages[j + 1].committed, snap'.pages[j + 1].returned # {}
        PROVE  j \in DOMAIN history' \/ (j \in snap'.pending /\ ~snap'.pages[j + 1].recorded)
    <2>1. j \in DOMAIN history \/ (j \in snap.pending /\ ~snap.pages[j + 1].recorded)
      BY <1>1, <1>2, <1>3
    <2>2. CASE j = i
      BY <2>1, <2>2, <1>1, <1>3
    <2>3. CASE j # i
      BY <2>1, <2>3, <1>1
    <2> QED
      BY <2>2, <2>3
  <1>4. \A j \in DOMAIN history' : j \in DOMAIN history /\ history'[j] = history[j]
    OBVIOUS
  <1> QED
    BY <1>3, <1>4 DEF HistoryMoves

\* The receipt of a recovered page.
LEMMA StepRecoverReceipt ==
  ASSUME ServingInv, NEW r \in Requests, RecoverReceipt(r)
  PROVE  ServingInv'
  <1>1. PICK q : q = AfterRecovery(r, req[r])
    OBVIOUS
  <1>2. /\ alive' = alive /\ stable' = stable /\ stable' \subseteq stable /\ history' = history /\ cursors' = cursors /\ sent' = sent
        /\ traces' = traces /\ refused' = refused
        /\ req[r].pc = "receipt" /\ req[r].pc \in {"recover", "receipt"} /\ snap.phase # "none" /\ req' = [req EXCEPT ![r] = q]
        /\ snap' = IF Live THEN MarkRecorded(snap, Min(req[r].todo)) ELSE snap
    BY <1>1, Begun DEF RecoverReceipt, At, Goto
  <1>3. RequestOK(q) /\ q.pc \notin Answering
    BY <1>1, <1>2, AfterRecoveryOK
  <1>4. CASE ~Live
    BY <1>2, <1>3, <1>4, QuietRequest DEF Live
  <1>5. CASE Live
    <2>1. PICK i : i = Min(req[r].todo)
      OBVIOUS
    <2>2. RequestOK(req[r]) /\ LiveRequestOK(req[r], snap, DOMAIN history, stable) /\ req[r].todo \in SUBSET Nat
      BY <1>2, <1>5, RequestIs
    <2>3. CommittedIn(snap, i)
      <3>1. req[r].todo # {} /\ \A j \in req[r].todo : CommittedIn(snap, j)
        BY <1>2, <2>2 DEF RequestOK, LiveRequestOK
      <3> QED
        BY <3>1, <2>1, <2>2, LeastNumber
    <2>4. snap.pages[i + 1].returned = {} \/ i \in DOMAIN history
      BY <1>2, <2>1, <2>2 DEF LiveRequestOK
    <2>5. snap' = MarkRecorded(snap, i)
      BY <1>2, <1>5, <2>1
    <2>6. SnapshotOK(snap, Steady)
      BY <1>5 DEF ServingInv, SnapInv
    <2>7. Marked(snap, snap', i) /\ snap'.pages[i + 1].traced = snap.pages[i + 1].traced /\ snap'.pending = snap.pending \ {i}
      BY <2>3, <2>5, <2>6, MarkRecordedIs
    <2>8. SnapMoves /\ Follows(snap, snap', Steady)
      BY <1>2, <1>5, <2>7, MarkMoves
    <2>9. HistoryMoves
      BY <1>2, <1>5, <2>4, <2>7, MarkHistory
    <2>10. LiveRequestOK(q, snap', DOMAIN history', stable')
      <3>1. LiveRequestOK(q, snap, DOMAIN history, stable)
        BY <1>1, <1>2, <1>5, AfterRecoveryLive
      <3> QED
        BY <3>1, <1>2, <1>3, <2>8, RequestKeeps DEF Steady
    <2>11. RequestMoves(r, q)
      BY <1>2, <1>3, <2>10 DEF RequestMoves
    <2>12. AnswersMove(r)
      BY <1>2, RequestIs DEF AnswersMove
    <2> QED
      BY <2>8, <2>9, <2>11, <2>12, HistoryKeeps, StepKeeps DEF ServingInv
  <1> QED
    BY <1>4, <1>5

\* The receipt of the page of this request.
LEMMA StepRecordReceipt ==
  ASSUME ServingInv, NEW r \in Requests, RecordReceipt(r)
  PROVE  ServingInv'
  <1> DEFINE i == req[r].page
  <1>1. PICK q : q = [req[r] EXCEPT !.pc = "trace"]
    OBVIOUS
  <1>2. /\ alive' = alive /\ stable' = stable /\ history' = history
        /\ traces' = traces /\ refused' = refused
        /\ req[r].pc = "flag" /\ req[r].pc \in Answering /\ Live /\ snap' = MarkRecorded(snap, i)
        /\ \/ req' = [req EXCEPT ![r] = q] /\ sent' = sent /\ cursors' = cursors
           \/ Respond(r)
    BY <1>1 DEF RecordReceipt, At, Step, Goto, Answering
  <1>3. req[r] \in ServingRequest /\ RequestOK(req[r]) /\ LiveRequestOK(req[r], snap, DOMAIN history, stable)
    BY <1>2, RequestIs
  <1>4. CommittedIn(snap, i) /\ snap.pages[i + 1].returned = req[r].items /\ (snap.pages[i + 1].returned = {} \/ i \in DOMAIN history)
    BY <1>2, <1>3 DEF LiveRequestOK
  <1>5. SnapshotOK(snap, Steady)
    BY <1>2 DEF ServingInv, SnapInv
  <1> HIDE DEF i
  <1>6. Marked(snap, snap', i) /\ snap'.pages[i + 1].recorded /\ snap'.pages[i + 1].traced = snap.pages[i + 1].traced /\ snap'.pending = snap.pending \ {i}
    BY <1>2, <1>4, <1>5, MarkRecordedIs
  <1>7. SnapMoves /\ Follows(snap, snap', Steady)
    BY <1>2, <1>6, MarkMoves
  <1>8. HistoryMoves
    BY <1>2, <1>4, <1>6, MarkHistory
  <1>9. CASE Respond(r)
    <2>1. RequestMoves(r, Idle) /\ AnswersMove(r)
      BY <1>2, <1>9, RespondOK
    <2> QED
      BY <2>1, <1>7, <1>8, HistoryKeeps, StepKeeps DEF ServingInv
  <1>10. CASE req' = [req EXCEPT ![r] = q] /\ sent' = sent /\ cursors' = cursors
    <2>1. /\ q.pc = "trace" /\ q.items = req[r].items /\ q.page = req[r].page /\ q.todo = req[r].todo
          /\ q.depleted = req[r].depleted /\ q.count = req[r].count /\ q \in ServingRequest
      BY <1>1, <1>3 DEF ServingRequest, ServingPcs
    <2>2. RequestOK(q)
      BY <1>2, <1>3, <2>1 DEF RequestOK, BeforeCommit, Answering
    <2>3. LiveRequestOK(req[r], snap', DOMAIN history', stable')
      <3>1. stable' \subseteq stable /\ DOMAIN history \subseteq DOMAIN history' /\ Follows(snap, snap', stable' \cap Offered)
        BY <1>2, <1>7 DEF Steady
      <3> QED
        BY <3>1, <1>3, RequestKeeps
    <2>4. LiveRequestOK(q, snap', DOMAIN history', stable')
      <3>1. /\ q.page > 0 => CommittedIn(snap', q.page - 1)
            /\ q.page = 0 => 0 \in Indexes(snap')
            /\ q.depleted => AllKnown(snap', stable' \cap Offered)
            /\ CommittedIn(snap', q.page) /\ snap'.pages[q.page + 1].returned = q.items
        BY <1>2, <2>1, <2>3 DEF LiveRequestOK
      <3>2. snap'.pages[q.page + 1].recorded
        BY <1>6, <2>1 DEF i
      <3> QED
        BY <3>1, <3>2, <2>1 DEF LiveRequestOK, BeforeCommit
    <2>5. RequestMoves(r, q)
      BY <1>2, <1>10, <2>1, <2>2, <2>4 DEF RequestMoves
    <2>6. AnswersMove(r)
      BY <1>2, <1>10, RequestIs DEF AnswersMove
    <2> QED
      BY <2>5, <2>6, <1>7, <1>8, HistoryKeeps, StepKeeps DEF ServingInv
  <1> QED
    BY <1>2, <1>9, <1>10

\* The trace of a page is claimed, once.
LEMMA StepClaimTrace ==
  ASSUME ServingInv, NEW r \in Requests, ClaimTrace(r)
  PROVE  ServingInv'
  <1> DEFINE i == req[r].page
  <1>1. /\ alive' = alive /\ stable' = stable /\ history' = history /\ refused' = refused
        /\ req[r].pc = "trace" /\ req[r].pc \in Answering /\ Live /\ snap' = [snap EXCEPT !.pages[i + 1].traced = TRUE]
        /\ Respond(r)
        /\ traces' = traces \/ (traces' = Append(traces, i) /\ ~snap.pages[i + 1].traced)
    BY DEF ClaimTrace, At, Enqueue, Page, Answering
  <1>2. req[r] \in ServingRequest /\ LiveRequestOK(req[r], snap, DOMAIN history, stable) /\ i \in Nat
    BY <1>1, RequestIs
  <1>3. CommittedIn(snap, i) /\ snap.pages[i + 1].recorded
    BY <1>1, <1>2 DEF LiveRequestOK
  <1>4. SnapshotOK(snap, Steady)
    BY <1>1 DEF ServingInv, SnapInv
  <1> HIDE DEF i
  <1>5. Marked(snap, snap', i) /\ snap'.pages[i + 1].recorded /\ snap'.pages[i + 1].traced /\ snap'.pending = snap.pending
    BY <1>1, <1>3, <1>4, ClaimIs
  <1>6. snap'.pages[i + 1].recorded = snap.pages[i + 1].recorded /\ CommittedIn(snap', i)
    <2>1. snap'.pages[i + 1].recorded \in BOOLEAN /\ snap.pages[i + 1].recorded \in BOOLEAN
      <3>1. snap \in Snapshot /\ i \in Indexes(snap) /\ snap' \in Snapshot /\ i \in Indexes(snap')
        BY <1>3, <1>4, <1>5 DEF SnapshotOK, Coherent, CommittedIn, Marked
      <3>2. snap.pages[i + 1] \in PageRecord /\ snap'.pages[i + 1] \in PageRecord
        BY <3>1, PageTyped
      <3> QED
        BY <3>2 DEF PageRecord
    <2> QED
      BY <2>1, <1>3, <1>5 DEF Marked, CommittedIn
  <1>7. SnapMoves
    BY <1>1, <1>5, MarkMoves
  <1>8. HistoryMoves
    <2>1. ~snap.pages[i + 1].traced => \A k \in DOMAIN traces : traces[k] # i
      BY <1>1 DEF ServingInv, HistoryInv
    <2> QED
      BY <2>1, <1>1, <1>2, <1>5, <1>6, MarkHistory DEF i
  <1>9. RequestMoves(r, Idle) /\ AnswersMove(r)
    BY <1>1, RespondOK
  <1> QED
    BY <1>7, <1>8, <1>9, HistoryKeeps, StepKeeps DEF ServingInv

-----------------------------------------------------------------------------
(* The commit.                                                             *)

\* A page is only committed when every page before it is, with what the
\* response shows of it.
LEMMA MayCommit ==
  ASSUME ServingInv, Live, NEW r \in Requests, req[r].pc = "commit", NEW i, i = req[r].page, Exists(i), Committable(i, req[r].items)
  PROVE  /\ CanCommit(snap, i, req[r].items, req[r].todo) /\ snap.pages[i + 1].items \cap Steady \subseteq req[r].items
         /\ i \in Nat /\ i < MaxPages
  <1>1. /\ req[r] \in ServingRequest /\ RequestOK(req[r]) /\ LiveRequestOK(req[r], snap, DOMAIN history, stable)
        /\ i \in Nat
    BY RequestIs
  <1>2. SnapshotOK(snap, Steady) /\ snap \in Snapshot /\ PagesOK(snap)
    BY DEF ServingInv, SnapInv, SnapshotOK, Coherent
  <1>3. i \in Indexes(snap) /\ (~snap.pages[i + 1].committed => snap.pages[i + 1].items \cap stable \subseteq req[r].items)
    BY <1>1 DEF LiveRequestOK, BeforeCommit
  <1>4. PICK n \in Nat : n = Count(snap)
    BY <1>2, Constants DEF SnapshotOK
  <1>5. /\ ~snap.pages[i + 1].committed /\ req[r].items \subseteq snap.pages[i + 1].items
        /\ req[r].items # snap.pages[i + 1].items => \A j \in Indexes(snap) : i < j => ~snap.pages[j + 1].committed
    <2>1. /\ ~snap.pages[i + 1].committed /\ req[r].items \subseteq snap.pages[i + 1].items
          /\ req[r].items # snap.pages[i + 1].items => \A j \in (i + 1)..(n - 1) : ~snap.pages[j + 1].committed
      BY <1>4 DEF Committable, Page
    <2>2. \A j \in Indexes(snap) : i < j => j \in (i + 1)..(n - 1)
      BY <1>1, <1>4 DEF Indexes
    <2> QED
      BY <2>1, <2>2
  <1>6. req[r].items \cap req[r].todo = {} /\ i < MaxPages
    BY <1>1 DEF RequestOK, BeforeCommit
  <1>7. ASSUME NEW j \in Indexes(snap), j < i
        PROVE  snap.pages[j + 1].committed
    <2>1. j \in Nat /\ i > 0
      BY <1>1, <1>7, <1>4 DEF Indexes
    <2>2. PICK k \in Nat : k = i - 1
      BY <1>1, <2>1
    <2>3. k \in Indexes(snap) /\ snap.pages[k + 1].committed
      BY <1>1, <2>1, <2>2 DEF LiveRequestOK, CommittedIn
    <2>4. j = k \/ j < k
      BY <1>7, <1>1, <2>1, <2>2
    <2> QED
      BY <1>2, <2>3, <2>4 DEF PagesOK
  <1>8. snap.pages[i + 1].items \cap Steady \subseteq req[r].items
    BY <1>3, <1>5 DEF Steady
  <1> QED
    BY <1>1, <1>3, <1>5, <1>6, <1>7, <1>8 DEF CanCommit

\* The page is committed with what the response shows of it.
LEMMA StepCommitPage ==
  ASSUME ServingInv, NEW r \in Requests, CommitPage(r)
  PROVE  ServingInv'
  <1>1. PICK i : i = req[r].page
    OBVIOUS
  <1>2. PICK q : q = [req[r] EXCEPT !.pc = "record"]
    OBVIOUS
  <1>3. /\ alive' = alive /\ stable' = stable /\ history' = history /\ cursors' = cursors /\ sent' = sent
        /\ traces' = traces /\ refused' = refused
        /\ req[r].pc = "commit" /\ Exists(i) /\ Live /\ Committable(i, req[r].items)
        /\ snap' = Committed(snap, i, req[r].items, req[r].todo)
        /\ req' = [req EXCEPT ![r] = q] \/ req' = [req EXCEPT ![r] = Idle]
    BY <1>1, <1>2 DEF CommitPage, At, Step, Goto, Exists
  <1>4. /\ req[r] \in ServingRequest /\ RequestOK(req[r]) /\ LiveRequestOK(req[r], snap, DOMAIN history, stable)
    BY <1>3, RequestIs
  <1>5. /\ CanCommit(snap, i, req[r].items, req[r].todo) /\ snap.pages[i + 1].items \cap Steady \subseteq req[r].items
        /\ i \in Nat /\ i < MaxPages
    BY <1>1, <1>3, MayCommit
  <1>6. SnapshotOK(snap, Steady) /\ snap \in Snapshot /\ PagesOK(snap) /\ snap.phase = "live" /\ snap.phase # "none"
    BY <1>3 DEF ServingInv, SnapInv, SnapshotOK, Coherent, Live
  <1>7. /\ SnapshotOK(snap', Steady) /\ snap'.phase = snap.phase
        /\ i \in Indexes(snap') /\ Indexes(snap') \subseteq Indexes(snap) /\ \A j \in Indexes(snap) : j <= i \/ snap.pages[j + 1].committed => j \in Indexes(snap')
        /\ snap'.pages[i + 1] = [snap.pages[i + 1] EXCEPT !.committed = TRUE, !.returned = req[r].items]
        /\ \A j \in Indexes(snap') : j # i => snap'.pages[j + 1] = snap.pages[j + 1]
        /\ snap'.pending = snap.pending \cup {i}
        /\ AllKnown(snap, Steady) => AllKnown(snap', Steady)
    <2>1. Commits(snap, snap', Steady, i, req[r].items)
      BY <1>3, <1>5, <1>6, CommittedOK
    <2> QED
      BY <2>1 DEF Commits
  <1>8. i \in Indexes(snap) /\ ~snap.pages[i + 1].committed
    BY <1>5 DEF CanCommit
  <1>9. snap.pages[i + 1] \in PageRecord /\ snap' \in Snapshot
    BY <1>6, <1>7, <1>8, PageTyped DEF SnapshotOK, Coherent
  <1>10. /\ snap'.pages[i + 1].committed /\ snap'.pages[i + 1].returned = req[r].items
         /\ ~snap'.pages[i + 1].recorded
    <2>1. ~snap.pages[i + 1].recorded
      BY <1>6, <1>8 DEF PagesOK, PageOK
    <2>2. /\ snap'.pages[i + 1].committed /\ snap'.pages[i + 1].returned = req[r].items
          /\ snap'.pages[i + 1].recorded = snap.pages[i + 1].recorded
      BY <1>7, <1>9 DEF PageRecord
    <2> QED
      BY <2>1, <2>2
  <1>11. Follows(snap, snap', Steady)
    BY <1>6, <1>7, <1>8, FollowsCommit
  <1>12. SnapMoves
    BY <1>3, <1>6, <1>7, <1>9, <1>11 DEF SnapMoves, Steady, ServingInv, EligibleInv
  <1>13. HistoryMoves
    <2>1. ASSUME NEW j \in Indexes(snap'), snap'.pages[j + 1].committed, snap'.pages[j + 1].returned # {}
          PROVE  j \in DOMAIN history' \/ (j \in snap'.pending /\ ~snap'.pages[j + 1].recorded)
      <3>1. CASE j = i
        BY <3>1, <1>7, <1>10
      <3>2. CASE j # i
        <4>1. j \in Indexes(snap) /\ snap'.pages[j + 1] = snap.pages[j + 1]
          BY <3>2, <2>1, <1>7
        <4>2. j \in DOMAIN history \/ (j \in snap.pending /\ ~snap.pages[j + 1].recorded)
          BY <4>1, <2>1, <1>3 DEF ServingInv, HistoryInv
        <4> QED
          BY <4>1, <4>2, <1>3, <1>7
      <3> QED
        BY <3>1, <3>2
    <2> QED
      BY <2>1, <1>3 DEF HistoryMoves
  <1>14. AnswersMove(r)
    BY <1>3, RequestIs DEF AnswersMove
  <1>15. CASE req' = [req EXCEPT ![r] = Idle]
    <2>1. RequestMoves(r, Idle)
      BY <1>15, EndsOK
    <2> QED
      BY <2>1, <1>12, <1>13, <1>14, HistoryKeeps, StepKeeps DEF ServingInv
  <1>16. CASE req' = [req EXCEPT ![r] = q]
    <2>1. /\ q.pc = "record" /\ q.items = req[r].items /\ q.page = i /\ q.todo = req[r].todo
          /\ q.depleted = req[r].depleted /\ q.count = req[r].count /\ q \in ServingRequest
      BY <1>1, <1>2, <1>4 DEF ServingRequest, ServingPcs
    <2>2. RequestOK(q)
      BY <1>1, <1>3, <1>4, <2>1 DEF RequestOK, BeforeCommit, Answering
    <2>3. LiveRequestOK(req[r], snap', DOMAIN history', stable')
      <3>1. stable' \subseteq stable /\ DOMAIN history \subseteq DOMAIN history' /\ Follows(snap, snap', stable' \cap Offered)
        BY <1>3, <1>11 DEF Steady
      <3> QED
        BY <3>1, <1>4, RequestKeeps
    <2>4. LiveRequestOK(q, snap', DOMAIN history', stable')
      <3>1. /\ q.page > 0 => CommittedIn(snap', q.page - 1)
            /\ q.page = 0 => 0 \in Indexes(snap')
            /\ q.depleted => AllKnown(snap', stable' \cap Offered)
        BY <1>1, <2>1, <2>3 DEF LiveRequestOK
      <3>2. CommittedIn(snap', q.page) /\ snap'.pages[q.page + 1].returned = q.items
        BY <1>7, <1>10, <2>1 DEF CommittedIn
      <3> QED
        BY <3>1, <3>2, <2>1 DEF LiveRequestOK, BeforeCommit
    <2>5. RequestMoves(r, q)
      BY <1>6, <1>7, <1>16, <2>1, <2>2, <2>4 DEF RequestMoves
    <2> QED
      BY <2>5, <1>12, <1>13, <1>14, HistoryKeeps, StepKeeps DEF ServingInv
  <1> QED
    BY <1>3, <1>15, <1>16

-----------------------------------------------------------------------------
(* The build, and the steps of the world.                                  *)

\* The next page is built.
LEMMA StepBuildPage ==
  ASSUME ServingInv, NEW r \in Requests, BuildPage(r)
  PROVE  ServingInv'
  <1>1. PICK i : i = req[r].page
    OBVIOUS
  <1>2. PICK s \in Builds(snap, i) :
          snap' = s /\ req' = [req EXCEPT ![r] = [req[r] EXCEPT !.pc = "show", !.items = s.pages[i + 1].items, !.depleted = s.exhausted]]
    BY <1>1 DEF BuildPage, Goto
  <1>3. PICK q : q = [req[r] EXCEPT !.pc = "show", !.items = s.pages[i + 1].items, !.depleted = s.exhausted]
    OBVIOUS
  <1>4. /\ alive' = alive /\ stable' = stable /\ history' = history /\ cursors' = cursors /\ sent' = sent
        /\ traces' = traces /\ refused' = refused
        /\ req[r].pc = "page" /\ Live /\ i < MaxPages /\ i = Count(snap) /\ req' = [req EXCEPT ![r] = q]
    BY <1>1, <1>2, <1>3 DEF BuildPage, At
  <1>5. /\ req[r] \in ServingRequest /\ RequestOK(req[r]) /\ LiveRequestOK(req[r], snap, DOMAIN history, stable)
        /\ i \in Nat
    BY <1>1, <1>4, RequestIs
  <1>6. SnapshotOK(snap, Steady) /\ snap \in Snapshot /\ PagesOK(snap) /\ snap.phase = "live" /\ Steady \in SUBSET alive
    BY <1>4 DEF ServingInv, SnapInv, EligibleInv, SnapshotOK, Coherent, Live, Steady
  <1>7. CommittedIn(snap, i - 1) /\ i > 0
    BY <1>1, <1>4, <1>5 DEF RequestOK, LiveRequestOK
  <1>8. AllCommitted(snap)
    <2>1. PICK k \in Nat : k = i - 1
      BY <1>5, <1>7
    <2>2. k \in Indexes(snap) /\ snap.pages[k + 1].committed
      BY <2>1, <1>7 DEF CommittedIn
    <2>3. ASSUME NEW j \in Indexes(snap)
          PROVE  snap.pages[j + 1].committed
      <3>1. j \in Nat /\ j < i
        BY <1>4, <1>5 DEF Indexes
      <3>2. j = k \/ j < k
        BY <3>1, <2>1, <1>5
      <3> QED
        BY <3>2, <2>2, <1>6 DEF PagesOK
    <2> QED
      BY <2>3 DEF AllCommitted
  <1>9. /\ SnapshotOK(s, Steady) /\ Count(s) = i + 1 /\ Indexes(s) = Indexes(snap) \cup {i} /\ s.phase = snap.phase /\ s.pending = snap.pending
        /\ \A j \in Indexes(snap) : s.pages[j + 1] = snap.pages[j + 1]
        /\ ~s.pages[i + 1].committed
        /\ AllKnown(snap, Steady) => AllKnown(s, Steady)
    BY <1>4, <1>6, <1>8, BuildsOK
  <1>10. s \in Snapshot /\ s.exhausted \in BOOLEAN
    BY <1>9 DEF SnapshotOK, Coherent, Snapshot
  <1>11. s.pages[i + 1] \in PageRecord
    BY <1>9, <1>10, PageTyped
  <1>12. Follows(snap, snap', Steady)
    BY <1>2, <1>9, FollowsBuild
  <1>13. SnapMoves
    BY <1>2, <1>4, <1>6, <1>9, <1>10, <1>12 DEF SnapMoves, Steady, ServingInv, EligibleInv
  <1>14. HistoryMoves
    <2>1. ASSUME NEW j \in Indexes(snap'), snap'.pages[j + 1].committed, snap'.pages[j + 1].returned # {}
          PROVE  j \in DOMAIN history' \/ (j \in snap'.pending /\ ~snap'.pages[j + 1].recorded)
      <3>1. j \in Indexes(snap) /\ snap'.pages[j + 1] = snap.pages[j + 1]
        BY <2>1, <1>2, <1>9
      <3>2. j \in DOMAIN history \/ (j \in snap.pending /\ ~snap.pages[j + 1].recorded)
        BY <3>1, <2>1, <1>4 DEF ServingInv, HistoryInv
      <3> QED
        BY <3>1, <3>2, <1>2, <1>4, <1>9
    <2> QED
      BY <2>1, <1>4 DEF HistoryMoves
  <1>15. AnswersMove(r)
    BY <1>4, RequestIs DEF AnswersMove
  <1>16. /\ q.pc = "show" /\ q.items = s.pages[i + 1].items /\ q.page = i /\ q.todo = req[r].todo
         /\ q.depleted = s.exhausted /\ q.count = req[r].count /\ q \in ServingRequest
    BY <1>1, <1>3, <1>5, <1>10, <1>11 DEF ServingRequest, ServingPcs, PageRecord
  <1>17. RequestOK(q)
    BY <1>1, <1>4, <1>5, <1>16 DEF RequestOK, BeforeCommit, Answering
  <1>18. LiveRequestOK(q, snap', DOMAIN history', stable')
    <2>1. CommittedIn(snap', q.page - 1)
      BY <1>2, <1>7, <1>12, <1>16 DEF Follows
    <2>2. q.page \in Indexes(snap') /\ q.items = snap'.pages[q.page + 1].items
      BY <1>2, <1>9, <1>16
    <2>3. q.depleted => AllKnown(snap', stable' \cap Offered)
      BY <1>2, <1>4, <1>9, <1>16 DEF SnapshotOK, Steady
    <2>4. q.pc = "show" /\ q.page # 0
      BY <1>5, <1>7, <1>16
    <2> QED
      BY <2>1, <2>2, <2>3, <2>4 DEF LiveRequestOK, BeforeCommit, Answering
  <1>19. RequestMoves(r, q)
    BY <1>2, <1>4, <1>6, <1>9, <1>16, <1>17, <1>18 DEF RequestMoves, Answering
  <1> QED
    BY <1>13, <1>14, <1>15, <1>19, HistoryKeeps, StepKeeps DEF ServingInv

\* The requests that a change of the world leaves as they are.
LEMMA WorldMoves ==
  ASSUME ServingInv, SnapMoves, req' = req, history' = history, sent' = sent, cursors' = cursors, refused' = refused
  PROVE  RequestMoves(Reader, req[Reader]) /\ AnswersMove(Reader)
  <1>1. Reader \in Requests
    BY ServingAssumption
  <1>2. PICK q : q = req[Reader]
    OBVIOUS
  <1>3. RequestOK(q) /\ (Live /\ q.pc # "idle" => LiveRequestOK(q, snap, DOMAIN history, stable)) /\ "invalid" \notin refused
    BY <1>1, <1>2, RequestIs
  <1>4. req' = [req EXCEPT ![Reader] = q]
    BY <1>1, <1>2 DEF ServingInv, RequestsInv
  <1>5. ASSUME snap'.phase = "live", q.pc # "idle"
        PROVE  LiveRequestOK(q, snap', DOMAIN history', stable')
    <2>1. Live /\ Follows(snap, snap', stable' \cap Offered) /\ stable' \subseteq stable /\ DOMAIN history \subseteq DOMAIN history'
      BY <1>5 DEF SnapMoves, Live
    <2> QED
      BY <1>3, <1>5, <2>1, RequestKeeps
  <1>6. RequestMoves(Reader, q)
    BY <1>2, <1>3, <1>4, <1>5 DEF RequestMoves
  <1>7. AnswersMove(Reader)
    BY <1>3 DEF AnswersMove
  <1> QED
    BY <1>2, <1>6, <1>7

\* A Post becomes ineligible, or eligible again.
LEMMA StepToggle ==
  ASSUME ServingInv, NEW p \in Volatile, Toggle(p)
  PROVE  ServingInv'
  <1>1. /\ snap' = snap /\ req' = req /\ history' = history /\ sent' = sent /\ cursors' = cursors /\ refused' = refused /\ traces' = traces
        /\ Live /\ stable' = stable \ {p} /\ alive' = IF p \in alive THEN alive \ {p} ELSE alive \cup {p}
    BY DEF Toggle
  <1>2. stable \subseteq alive /\ alive \subseteq Ranked /\ p \in Ranked
    BY ServingAssumption DEF ServingInv, EligibleInv
  <1>3. stable' \subseteq stable /\ stable' \subseteq alive' /\ alive' \subseteq Ranked
    BY <1>1, <1>2
  <1>4. SnapMoves
    BY <1>1, <1>3, SnapStays DEF Live
  <1>5. HistoryMoves
    BY <1>1 DEF HistoryMoves, ServingInv, HistoryInv, Live
  <1>6. RequestMoves(Reader, req[Reader]) /\ AnswersMove(Reader) /\ Reader \in Requests
    BY <1>1, <1>4, WorldMoves, ServingAssumption
  <1> QED
    BY <1>4, <1>5, <1>6, HistoryKeeps, StepKeeps DEF ServingInv

\* The hash expires.
LEMMA StepExpire ==
  ASSUME ServingInv, Expire
  PROVE  ServingInv'
  <1>1. /\ snap' = [NoSnapshot EXCEPT !.phase = "gone"] /\ req' = req /\ history' = history /\ sent' = sent /\ cursors' = cursors
        /\ refused' = refused /\ traces' = traces /\ Live /\ stable' = stable /\ alive' = alive
    BY DEF Expire
  <1>2. [NoSnapshot EXCEPT !.phase = "gone"] \in Snapshot /\ [NoSnapshot EXCEPT !.phase = "gone"].phase = "gone"
    BY Constant DEF Snapshot, NoSnapshot
  <1>3. SnapMoves
    BY <1>1, <1>2 DEF SnapMoves, ServingInv, EligibleInv, Live
  <1>4. HistoryMoves
    BY <1>1, <1>2 DEF HistoryMoves
  <1>5. RequestMoves(Reader, req[Reader]) /\ AnswersMove(Reader) /\ Reader \in Requests
    BY <1>1, <1>3, WorldMoves, ServingAssumption
  <1> QED
    BY <1>3, <1>4, <1>5, HistoryKeeps, StepKeeps DEF ServingInv

-----------------------------------------------------------------------------
(* The first request.                                                      *)

\* Before the first request there is nothing.
LEMMA NothingYet ==
  ASSUME ServingInv, snap.phase = "none"
  PROVE  /\ cursors = {} /\ sent = {} /\ DOMAIN history = {} /\ DOMAIN traces = {} /\ alive = Ranked /\ stable = Ranked
         /\ \A r \in Requests : req[r] = Idle
  <1>1. DOMAIN << >> = {}
    <2>1. << >> \in Seq(Nat) /\ Len(<< >>) = 0
      BY EmptySeq
    <2>2. DOMAIN << >> = 1..0
      BY <2>1, LenProperties
    <2> QED
      BY <2>2
  <1> QED
    BY <1>1 DEF ServingInv, SnapInv

\* The first request stores the snapshot.
LEMMA StepServeFirst ==
  ASSUME ServingInv, NEW r \in Requests, ServeFirst(r)
  PROVE  ServingInv'
  <1>1. PICK s \in Creations :
          snap' = s /\ req' = [req EXCEPT ![r] = [Idle EXCEPT !.pc = "commit", !.items = s.pages[1].items, !.depleted = s.exhausted]]
    BY DEF ServeFirst, Goto
  <1>2. PICK q : q = [Idle EXCEPT !.pc = "commit", !.items = s.pages[1].items, !.depleted = s.exhausted]
    OBVIOUS
  <1>3. /\ alive' = alive /\ stable' = stable /\ history' = history /\ cursors' = cursors /\ sent' = sent
        /\ traces' = traces /\ refused' = refused /\ snap.phase = "none" /\ req' = [req EXCEPT ![r] = q]
    BY <1>1, <1>2 DEF ServeFirst
  <1>4. /\ cursors = {} /\ sent = {} /\ DOMAIN history = {} /\ DOMAIN traces = {} /\ alive = Ranked /\ stable = Ranked
        /\ \A x \in Requests : req[x] = Idle
    BY <1>3, NothingYet
  <1>5. SnapshotOK(s, Steady) /\ s.phase = "live" /\ \A i \in Indexes(s) : ~s.pages[i + 1].committed
    BY <1>4, CreationsOK
  <1>6. s \in Snapshot /\ s.exhausted \in BOOLEAN /\ 0 \in Indexes(s)
    <2>1. PICK n \in Nat : n = Count(s) /\ n >= 1
      BY <1>5, Constants DEF SnapshotOK
    <2> QED
      BY <2>1, <1>5 DEF SnapshotOK, Coherent, Snapshot, Indexes
  <1>7. s.pages[0 + 1] \in PageRecord
    BY <1>6, PageTyped
  <1>8. /\ q.pc = "commit" /\ q.items = s.pages[1].items /\ q.page = 0 /\ q.todo = {}
        /\ q.depleted = s.exhausted /\ q.count = 0 /\ q \in ServingRequest
    <2>1. s.pages[1] \in PageRecord
      BY <1>7
    <2> QED
      BY <2>1, <1>2, <1>6 DEF Idle, ServingRequest, ServingPcs, PageRecord
  <1>9. SnapInv'
    BY <1>1, <1>3, <1>5, <1>6 DEF SnapInv, Live, Steady
  <1>10. EligibleInv'
    BY <1>3 DEF EligibleInv, ServingInv
  <1>11. RequestsInv'
    <2>1. req' \in [Requests -> ServingRequest]
      BY <1>3, <1>8 DEF ServingInv, RequestsInv
    <2>2. RequestOK(q)
      BY <1>8, Constants DEF RequestOK, BeforeCommit, Answering
    <2>3. LiveRequestOK(q, s, DOMAIN history', stable')
      <3>1. q.page \in Indexes(s) /\ (q.page = 0 => 0 \in Indexes(s)) /\ ~(q.page > 0)
        BY <1>6, <1>8
      <3>2. q.items = s.pages[q.page + 1].items
        BY <1>8
      <3>3. q.depleted => AllKnown(s, stable' \cap Offered)
        BY <1>3, <1>5, <1>8 DEF SnapshotOK, Steady
      <3> QED
        BY <3>1, <3>2, <3>3, <1>8, ReadyToCommit
    <2>4. ASSUME NEW x \in Requests
          PROVE  RequestOK(req'[x]) /\ (req'[x].pc # "idle" => LiveRequestOK(req'[x], snap', DOMAIN history', stable'))
      <3>1. req'[x] = q \/ req'[x] = Idle
        BY <1>3, <1>4 DEF ServingInv, RequestsInv
      <3> QED
        BY <3>1, <2>2, <2>3, <1>1, IdleOK
    <2> QED
      BY <2>1, <2>4 DEF RequestsInv
  <1>12. AnswersInv'
    <2>1. \A x \in Requests : req'[x].pc \notin Answering
      <3>1. \A x \in Requests : req'[x] = q \/ req'[x] = Idle
        BY <1>3, <1>4 DEF ServingInv, RequestsInv
      <3> QED
        BY <3>1, <1>8, IdleOK DEF Answering
    <2>2. AnsweringSet' = {}
      BY <2>1, <1>3, <1>4 DEF AnsweringSet
    <2>3. "invalid" \notin refused'
      BY <1>3 DEF ServingInv, AnswersInv
    <2> QED
      BY <2>2, <2>3, <1>3, <1>4 DEF AnswersInv
  <1>13. HistoryInv'
    <2>1. traces' \in Seq(Nat)
      BY <1>3 DEF ServingInv, HistoryInv
    <2>2. \A i \in Indexes(snap') : ~snap'.pages[i + 1].committed
      BY <1>1, <1>5
    <2> QED
      BY <2>1, <2>2, <1>3, <1>4 DEF HistoryInv
  <1> QED
    BY <1>9, <1>10, <1>11, <1>12, <1>13 DEF ServingInv

-----------------------------------------------------------------------------
(* The theorem.                                                            *)

\* The invariant holds at first.
LEMMA ServingStarts ==
  ASSUME ServingInit
  PROVE  ServingInv
  <1>1. snap = NoSnapshot /\ snap.phase = "none" /\ snap \in Snapshot /\ ~Live
    BY Constant DEF ServingInit, NoSnapshot, Live
  <1>2. snap = [NoSnapshot EXCEPT !.phase = snap.phase]
    BY <1>1 DEF NoSnapshot
  <1>3. req \in [Requests -> ServingRequest] /\ \A r \in Requests : req[r] = Idle
    BY IdleOK DEF ServingInit, RequestOK
  <1>4. SnapInv
    BY <1>1, <1>2, <1>3 DEF SnapInv, ServingInit
  <1>5. EligibleInv
    BY DEF EligibleInv, ServingInit
  <1>6. RequestsInv
    BY <1>1, <1>3, IdleOK DEF RequestsInv
  <1>7. AnswersInv
    <2>1. AnsweringSet = {}
      BY <1>3, IdleOK DEF AnsweringSet, Answering, ServingInit
    <2> QED
      BY <2>1, <1>1 DEF AnswersInv, ServingInit
  <1>8. HistoryInv
    <2>1. traces \in Seq(Nat) /\ Len(traces) = 0
      BY EmptySeq DEF ServingInit
    <2>2. DOMAIN traces = 1..0
      BY <2>1, LenProperties
    <2> QED
      BY <2>1, <2>2, <1>1 DEF HistoryInv
  <1> QED
    BY <1>4, <1>5, <1>6, <1>7, <1>8 DEF ServingInv

\* It is kept by every step of a request under way.
LEMMA StepRequest ==
  ASSUME ServingInv, NEW r \in Requests, RequestStep(r)
  PROVE  ServingInv'
  BY StepRecoverHistory, StepRecoverReceipt, StepReload, StepLoadPage, StepBuildPage, StepPageRefused, StepMaterializePage,
     StepCommitPage, StepAlreadyCommitted, StepCommitRefused, StepRecordHistory, StepRecordReceipt, StepClaimTrace, StepHashGone
     DEF RequestStep

\* It is kept by every step.
LEMMA ServingStays ==
  ASSUME ServingInv, [ServingNext]_servingVars
  PROVE  ServingInv'
  <1>1. CASE \E p \in Volatile : Toggle(p)
    BY <1>1, StepToggle
  <1>2. CASE Expire
    BY <1>2, StepExpire
  <1>3. ASSUME NEW r \in Requests,
               \/ ServeFirst(r) \/ RequestStep(r) \/ Outdated(r) \/ RecoveryFails(r) \/ RequestFails(r)
               \/ \E i \in cursors : ServeCursor(r, i)
               \/ \E p \in Volatile : Map(r, p)
        PROVE  ServingInv'
    BY <1>3, StepServeFirst, StepRequest, StepOutdated, StepRecoveryFails, StepRequestFails, StepServeCursor, StepMap
  <1>4. CASE UNCHANGED servingVars
    <2>1. /\ snap' = snap /\ req' = req /\ alive' = alive /\ stable' = stable /\ history' = history /\ cursors' = cursors
          /\ sent' = sent /\ refused' = refused /\ traces' = traces
      BY <1>4 DEF servingVars
    <2>2. SnapInv' /\ EligibleInv'
      BY <2>1 DEF ServingInv, SnapInv, EligibleInv, Live, Steady
    <2>3. RequestsInv'
      BY <2>1 DEF ServingInv, RequestsInv, Live
    <2>4. AnswersInv'
      <3>1. AnsweringSet' = AnsweringSet
        BY <2>1 DEF AnsweringSet
      <3> QED
        BY <2>1, <3>1 DEF ServingInv, AnswersInv, Live, Steady
    <2>5. HistoryInv'
      BY <2>1 DEF ServingInv, HistoryInv, Live
    <2> QED
      BY <2>2, <2>3, <2>4, <2>5 DEF ServingInv
  <1> QED
    BY <1>1, <1>2, <1>3, <1>4 DEF ServingNext

\* Without a snapshot there are no pages and no fields.
LEMMA NoPages ==
  ASSUME ServingInv, ~Live
  PROVE  Count(snap) = 0 /\ Indices = {} /\ snap.pool = {} /\ snap.post = {} /\ snap.pending = {}
  <1>1. snap.pages = << >> /\ snap.pool = {} /\ snap.post = {} /\ snap.pending = {}
    BY DEF ServingInv, SnapInv, NoSnapshot
  <1>2. Len(<< >>) = 0
    BY EmptySeq
  <1> QED
    BY <1>1, <1>2 DEF Count, Indices

\* A live snapshot is in order.
LEMMA LiveSnapshot ==
  ASSUME ServingInv, Live
  PROVE  /\ snap \in Snapshot /\ SnapshotOK(snap, Steady) /\ FieldsOK(snap) /\ PagesOK(snap) /\ Indices = Indexes(snap)
  BY DEF ServingInv, SnapInv, SnapshotOK, Coherent, Indices, Indexes

\* The parts of the property follow from the invariant: types and bounds,
LEMMA ServingTyped ==
  ASSUME ServingInv
  PROVE  ServingTypeOK
  <1>1. snap.phase \in {"none", "live", "gone"} /\ cursors \subseteq 1..MaxPages
    BY DEF ServingInv, SnapInv, AnswersInv, Snapshot
  <1>2. CASE Live
    <2>1. /\ Count(snap) <= MaxPages /\ snap.pool \subseteq Ranked /\ Cardinality(snap.pool) <= MaxPool
      BY <1>2, LiveSnapshot, Constants DEF SnapshotOK, Coherent, Snapshot
    <2>2. snap.pending \subseteq Indices
      BY <1>2, LiveSnapshot DEF PagesOK, CommittedIn
    <2>3. \A f, g \in snap.post : f[1] = g[1] => f = g
      BY <1>2, LiveSnapshot DEF FieldsOK
    <2> QED
      BY <1>1, <2>1, <2>2, <2>3 DEF ServingTypeOK
  <1>3. CASE ~Live
    <2>1. Cardinality({}) = 0
      BY FS_EmptySet
    <2> QED
      BY <1>1, <1>3, <2>1, NoPages, Constants DEF ServingTypeOK
  <1> QED
    BY <1>2, <1>3

\* one answer per page and no Post on two,
LEMMA AnswersAreOne ==
  ASSUME ServingInv
  PROVE  AnswersAgree
  <1>1. \A x \in sent : <<x.page, x.posts>> \in AnsweringSet
    BY DEF AnsweringSet
  <1>2. \A a, b \in AnsweringSet : IF a[1] = b[1] THEN a[2] = b[2] ELSE a[2] \cap b[2] = {}
    BY DEF ServingInv, AnswersInv
  <1>3. ASSUME NEW x \in sent, NEW y \in sent
        PROVE  IF x.page = y.page THEN x.posts = y.posts ELSE x.posts \cap y.posts = {}
    <2>1. PICK a \in AnsweringSet, b \in AnsweringSet : a = <<x.page, x.posts>> /\ b = <<y.page, y.posts>>
      BY <1>1
    <2>2. IF a[1] = b[1] THEN a[2] = b[2] ELSE a[2] \cap b[2] = {}
      BY <1>2
    <2> QED
      BY <2>1, <2>2
  <1>4. Live => \A x \in sent : Page(x.page).committed /\ Page(x.page).returned = x.posts
    BY DEF ServingInv, AnswersInv, CommittedIn, Page
  <1> QED
    BY <1>3, <1>4 DEF AnswersAgree

\* pages in order with the Posts they claim,
LEMMA OrderKept ==
  ASSUME ServingInv
  PROVE  PagesAreOrdered
  <1>1. "invalid" \notin refused
    BY DEF ServingInv, AnswersInv
  <1>2. CASE Live
    <2>1. PagesOK(snap) /\ Indices = Indexes(snap)
      BY <1>2, LiveSnapshot
    <2>2. \A i, j \in Indices : i < j /\ Page(j).committed => Page(i).committed
      BY <2>1 DEF PagesOK, Page
    <2>3. ASSUME NEW i \in Indices, NEW p \in Ranked
          PROVE  IF Page(i).committed THEN p \in Page(i).returned <=> <<p, "used", i>> \in snap.post
                 ELSE p \in Page(i).items <=> <<p, "reserved", i>> \in snap.post
      <3>1. PageOK(snap, i)
        BY <2>1 DEF PagesOK
      <3> QED
        BY <3>1 DEF PageOK, FieldsOf, Page
    <2> QED
      BY <1>1, <2>2, <2>3 DEF PagesAreOrdered
  <1>3. CASE ~Live
    BY <1>1, <1>3, NoPages DEF PagesAreOrdered
  <1> QED
    BY <1>2, <1>3

\* history and traces.
LEMMA HistoryIsAccounted ==
  ASSUME ServingInv
  PROVE  HistoryAccounted
  <1>1. \A j, k \in DOMAIN traces : traces[j] = traces[k] => j = k
    BY DEF ServingInv, HistoryInv
  <1>2. CASE Live
    <2>1. PagesOK(snap) /\ Indices = Indexes(snap)
      BY <1>2, LiveSnapshot
    <2>2. /\ \A i \in DOMAIN history : CommittedIn(snap, i) /\ history[i] = snap.pages[i + 1].returned
          /\ \A i \in Indexes(snap) : snap.pages[i + 1].committed /\ snap.pages[i + 1].returned # {} =>
               i \in DOMAIN history \/ (i \in snap.pending /\ ~snap.pages[i + 1].recorded)
      BY <1>2 DEF ServingInv, HistoryInv
    <2>3. ASSUME NEW i \in Indices, Page(i).committed
          PROVE  /\ Page(i).returned # {} /\ i \notin DOMAIN history => i \in snap.pending
                 /\ Page(i).recorded => (Page(i).returned # {} => i \in DOMAIN history) /\ i \notin snap.pending
                 /\ i \in DOMAIN history => history[i] = Page(i).returned
                 /\ Page(i).traced => Page(i).recorded
      <3>1. (Page(i).traced => Page(i).recorded) /\ (i \in snap.pending => ~Page(i).recorded)
        BY <2>1 DEF PagesOK, PageOK, Page
      <3> QED
        BY <3>1, <2>1, <2>2, <2>3 DEF Page
    <2> QED
      BY <1>1, <2>3 DEF HistoryAccounted
  <1>3. CASE ~Live
    BY <1>1, <1>3, NoPages DEF HistoryAccounted
  <1> QED
    BY <1>2, <1>3

\* Paging keeps its promises in every behaviour and for every value of the
\* constants: repeated and concurrent requests for a page are answered the same,
\* no Post is answered on two pages, pages are committed in order and the Posts
\* they claim are theirs, the history of each page is written or pending and its
\* trace is claimed once, and a reader told that nothing is left was shown every
\* Post on offer that stayed eligible (createInitialSnapshot, buildSnapshotPage,
\* commitMappedPage, recoverCommittedSnapshotHistory).
THEOREM PagingIsConsistent == ServingSpec => []PagingConsistent
  <1>1. ServingInit => ServingInv
    BY ServingStarts
  <1>2. ServingInv /\ [ServingNext]_servingVars => ServingInv'
    BY ServingStays
  <1>3. ServingInv => PagingConsistent
    <2> SUFFICES ASSUME ServingInv PROVE PagingConsistent
      OBVIOUS
    <2>1. DepletedIsTrue
      BY DEF DepletedIsTrue, ServingInv, AnswersInv, AllKnown, Steady
    <2> QED
      BY <2>1, ServingTyped, AnswersAreOne, OrderKept, HistoryIsAccounted DEF PagingConsistent
  <1> QED
    BY <1>1, <1>2, <1>3, PTL DEF ServingSpec

-----------------------------------------------------------------------------
(* The rebuild of profiles: the invariants.                                *)

USE BoundsAssumption

QueueRow == [version : Nat, due : BOOLEAN]
Profile  == [serving : 0..MaxServing, rows : Rows, emb : [Posts -> Nat]]
Worker   == [phase : {"idle", "claimed", "reading", "built", "retry"}, users : SUBSET Users,
             version : Nat, next : 0..5, built : Profile]
Embedder == [phase : {"idle", "selected"}, posts : SUBSET Posts, version : 0..MaxServing, users : SUBSET Users]

\* The records of each store, with all their fields.
ShapeInv ==
  /\ dirty \in [Users -> QueueRow]
  /\ worker \in [Workers -> Worker]
  /\ embedder \in [Embedders -> Embedder]

\* w has the advisory lock of u.
Holding(w, u) == worker[w].phase \in {"claimed", "reading", "built"} /\ u \in worker[w].users

\* Where a materializer is, and that two of them never hold one user.
WorkerInv ==
  /\ \A w \in Workers :
       /\ worker[w].phase # "idle" => worker[w].version > 0 /\ \E u \in Users : worker[w].users = {u}
       /\ worker[w].phase = "claimed" => worker[w].next = 0
       /\ worker[w].phase = "reading" => worker[w].next \in 1..5
       /\ worker[w].phase = "built" => worker[w].next = 5
       /\ worker[w].phase \in {"reading", "built"} => worker[w].built.serving \in 1..serving
  /\ \A w, x \in Workers, u \in Users : Holding(w, u) /\ Holding(x, u) => w = x

\* A row has a version.  The row of a held user stays and its version only rises.
QueueInv ==
  /\ \A u \in Users : dirty[u].version = 0 => dirty[u] = NoRow
  /\ \A w \in Workers, u \in Users : Holding(w, u) => dirty[u].version >= worker[w].version

\* Nothing invalidated u since w read its claim.
Current(w, u) == Holding(w, u) /\ dirty[u].version = worker[w].version

\* What a materializer has read under a claim that is still current is what the
\* tables hold.
ReadInv ==
  \A w \in Workers, u \in Users : Current(w, u) =>
    /\ \A i \in 1..4 : i < worker[w].next => worker[w].built.rows[Sources[i]] = rows[u][Sources[i]]
    /\ worker[w].phase = "built" /\ worker[w].built.serving = serving =>
         \A p \in Interacted(rows[u]) : worker[w].built.emb[p] = embedding[p][serving]

\* An open embedding transaction in the serving version has found every user
\* of its Post: a first signal about the Post waits for the lock on it.
OpenInv ==
  \A e \in Embedders : embedder[e].phase = "selected" =>
    /\ embedder[e].version \in Versions
    /\ embedder[e].version = serving =>
         \A u \in Users, p \in embedder[e].posts : p \in Interacted(rows[u]) => u \in embedder[e].users

\* Derived data is never ahead of its sources, and what a materializer has read
\* is at least what the profile shows.
ForwardInv ==
  /\ \A u \in Users : /\ profile[u].serving <= serving
                      /\ \A k \in Kinds, p \in Posts : profile[u].rows[k][p] <= rows[u][k][p]
  /\ \A w \in Workers, u \in Users : Holding(w, u) =>
       \A i \in 1..4, p \in Posts : i < worker[w].next =>
         /\ worker[w].built.rows[Sources[i]][p] <= rows[u][Sources[i]][p]
         /\ profile[u].rows[Sources[i]][p] <= worker[w].built.rows[Sources[i]][p]

StaleQueued == \A u \in Users : Stale(u) => dirty[u] # NoRow

\* The inductive invariant.
IInv ==
  TypeOK /\ ShapeInv /\ WorkerInv /\ QueueInv /\ ReadInv /\ OpenInv /\ ForwardInv /\ StaleQueued

-----------------------------------------------------------------------------
(* What the steps of a materializer do to its own record.                  *)

Others(w) == worker' = [x \in Workers |-> IF x = w THEN worker'[w] ELSE worker[x]]

\* The rows a materializer starts from are rows.
LEMMA NoProfileType == NoProfile \in Profile /\ NoRows \in Rows /\ NoEmbs \in [Posts -> Nat]
  <1>1. NoRows \in Rows
    BY DEF NoRows, Rows
  <1>2. NoEmbs \in [Posts -> Nat]
    BY DEF NoEmbs
  <1> QED
    BY <1>1, <1>2 DEF NoProfile, Profile

\* The four tables are the kinds.
LEMMA SourceKinds ==
  /\ \A i \in 1..4 : Sources[i] \in Kinds
  /\ \A k \in Kinds : \E i \in 1..4 : k = Sources[i]
  BY DEF Kinds

\* Begin starts a record of its own for the claimed row.
LEMMA BeginMoves ==
  ASSUME ShapeInv, NEW w \in Workers, NEW u \in Users, Begin(w, u)
  PROVE  /\ worker'[w] = [phase |-> "claimed", users |-> {u}, version |-> dirty[u].version,
                          next |-> 0, built |-> NoProfile]
         /\ worker'[w] \in Worker /\ Others(w)
  <1>1. worker' = [worker EXCEPT ![w] = [IdleWorker EXCEPT !.phase = "claimed", !.users = {u}, !.version = dirty[u].version]]
    BY DEF Begin
  <1>2. dirty[u].version \in Nat
    BY DEF ShapeInv, QueueRow
  <1>3. worker'[w] = [phase |-> "claimed", users |-> {u}, version |-> dirty[u].version,
                      next |-> 0, built |-> NoProfile]
    BY <1>1 DEF ShapeInv, IdleWorker
  <1>4. Others(w)
    BY <1>1 DEF ShapeInv, Others
  <1>5. worker'[w] \in Worker
    BY <1>2, <1>3, NoProfileType DEF Worker
  <1> QED
    BY <1>3, <1>4, <1>5

\* LoadServingVersion sets where the reading starts and the version it reads in.
LEMMA ServingMoves ==
  ASSUME TypeOK, ShapeInv, NEW w \in Workers, LoadServingVersion(w)
  PROVE  /\ worker'[w].phase = "reading" /\ worker'[w].next = 1
         /\ worker'[w].users = worker[w].users /\ worker'[w].version = worker[w].version
         /\ worker'[w].built.serving = serving
         /\ worker'[w] \in Worker /\ Others(w)
  <1>1. worker' = [worker EXCEPT ![w].phase = "reading", ![w].next = 1, ![w].built.serving = serving]
    BY DEF LoadServingVersion
  <1>2. worker'[w] = [worker[w] EXCEPT !.phase = "reading", !.next = 1, !.built.serving = serving]
    BY <1>1 DEF ShapeInv
  <1>3. worker[w] \in Worker /\ worker[w].built \in Profile
    BY DEF ShapeInv, Worker
  <1>4. serving \in 0..MaxServing
    BY DEF TypeOK, Versions
  <1> DEFINE b == [worker[w].built EXCEPT !.serving = serving]
  <1>5. b \in Profile
    BY <1>3, <1>4 DEF Profile
  <1>6. b.serving = serving
    BY <1>3 DEF Profile
  <1>7. worker'[w] = [phase |-> "reading", users |-> worker[w].users, version |-> worker[w].version,
                      next |-> 1, built |-> b]
    BY <1>2, <1>3 DEF Worker
  <1> HIDE DEF b
  <1>8. worker'[w] \in Worker
    BY <1>3, <1>5, <1>7 DEF Worker
  <1>9. Others(w)
    BY <1>1 DEF ShapeInv, Others
  <1> QED
    BY <1>6, <1>7, <1>8, <1>9

\* LoadSourceSignals reads one table of the one user of the claim.
LEMMA SourceMoves ==
  ASSUME TypeOK, ShapeInv, NEW w \in Workers, LoadSourceSignals(w), worker[w].next \in 1..5
  PROVE  \E u \in worker[w].users :
           /\ u \in Users
           /\ worker[w].next \in 1..4
           /\ worker'[w].phase = "reading" /\ worker'[w].next = worker[w].next + 1
           /\ worker'[w].users = worker[w].users /\ worker'[w].version = worker[w].version
           /\ worker'[w].built.serving = worker[w].built.serving
           /\ worker'[w].built.rows =
                [worker[w].built.rows EXCEPT ![Sources[worker[w].next]] = rows[u][Sources[worker[w].next]]]
           /\ worker'[w] \in Worker /\ Others(w)
  <1> DEFINE k == Sources[worker[w].next]
  <1>1. PICK u \in worker[w].users :
          worker' = [worker EXCEPT ![w].next = @ + 1, ![w].built.rows[k] = rows[u][k]]
    BY DEF LoadSourceSignals
  <1>2. worker[w].phase = "reading" /\ worker[w].next \in 1..4
    BY DEF LoadSourceSignals
  <1>3. k \in Kinds
    BY <1>2, SourceKinds
  <1>4. worker[w] \in Worker /\ worker[w].built \in Profile /\ worker[w].built.rows \in Rows /\ u \in Users
    BY DEF ShapeInv, Worker, Profile
  <1>5. rows[u][k] \in [Posts -> Nat]
    BY <1>3, <1>4 DEF TypeOK, Rows
  <1> HIDE DEF k
  <1>6. worker'[w] = [worker[w] EXCEPT !.next = @ + 1, !.built.rows[k] = rows[u][k]]
    BY <1>1 DEF ShapeInv
  <1> DEFINE r == [worker[w].built.rows EXCEPT ![k] = rows[u][k]]
  <1>7. r \in Rows
    BY <1>3, <1>4, <1>5 DEF Rows
  <1>8. worker'[w] = [phase |-> worker[w].phase, users |-> worker[w].users, version |-> worker[w].version,
                      next |-> worker[w].next + 1,
                      built |-> [serving |-> worker[w].built.serving, rows |-> r, emb |-> worker[w].built.emb]]
    BY <1>4, <1>6 DEF Worker, Profile
  <1> HIDE DEF r
  <1>9. worker'[w] \in Worker
    BY <1>2, <1>4, <1>7, <1>8 DEF Worker, Profile
  <1>10. Others(w)
    BY <1>1 DEF ShapeInv, Others
  <1>11. /\ worker'[w].phase = "reading" /\ worker'[w].next = worker[w].next + 1
         /\ worker'[w].users = worker[w].users /\ worker'[w].version = worker[w].version
         /\ worker'[w].built.serving = worker[w].built.serving /\ worker'[w].built.rows = r
    BY <1>2, <1>8
  <1>12. worker'[w].built.rows =
           [worker[w].built.rows EXCEPT ![Sources[worker[w].next]] = rows[u][Sources[worker[w].next]]]
    BY <1>11 DEF r, k
  <1> QED
    BY <1>2, <1>4, <1>9, <1>10, <1>11, <1>12

\* LoadPostEmbeddings reads the vectors of the Posts it found.
LEMMA EmbeddingMoves ==
  ASSUME TypeOK, ShapeInv, NEW w \in Workers, LoadPostEmbeddings(w), worker[w].built.serving \in Versions
  PROVE  /\ worker[w].next = 5 /\ worker[w].phase = "reading"
         /\ worker'[w].phase = "built" /\ worker'[w].next = 5
         /\ worker'[w].users = worker[w].users /\ worker'[w].version = worker[w].version
         /\ worker'[w].built.serving = worker[w].built.serving
         /\ worker'[w].built.rows = worker[w].built.rows
         /\ \A p \in Interacted(worker[w].built.rows) :
              worker'[w].built.emb[p] = embedding[p][worker[w].built.serving]
         /\ worker'[w] \in Worker /\ Others(w)
  <1> DEFINE b == worker[w].built
             m == [p \in Posts |-> IF p \in Interacted(b.rows) THEN embedding[p][b.serving] ELSE 0]
  <1>1. worker' = [worker EXCEPT ![w].phase = "built", ![w].built.emb = m]
    BY DEF LoadPostEmbeddings
  <1>2. worker[w].next = 5 /\ worker[w].phase = "reading"
    BY DEF LoadPostEmbeddings
  <1>3. worker[w] \in Worker /\ b \in Profile
    BY DEF ShapeInv, Worker
  <1>4. m \in [Posts -> Nat]
    BY DEF TypeOK
  <1>5. \A p \in Interacted(b.rows) : m[p] = embedding[p][b.serving]
    BY DEF Interacted
  <1> HIDE DEF m
  <1>6. worker'[w] = [worker[w] EXCEPT !.phase = "built", !.built.emb = m]
    BY <1>1 DEF ShapeInv
  <1>7. worker'[w] = [phase |-> "built", users |-> worker[w].users, version |-> worker[w].version,
                      next |-> worker[w].next, built |-> [serving |-> b.serving, rows |-> b.rows, emb |-> m]]
    BY <1>3, <1>6 DEF Worker, Profile
  <1>8. worker'[w] \in Worker
    BY <1>3, <1>4, <1>7 DEF Worker, Profile
  <1>9. Others(w)
    BY <1>1 DEF ShapeInv, Others
  <1> QED
    BY <1>2, <1>5, <1>7, <1>8, <1>9

\* A failed rebuild keeps everything but its lock; a finished one keeps nothing.
LEMMA FailMoves ==
  ASSUME ShapeInv, NEW w \in Workers, MaterializeFails(w)
  PROVE  /\ worker'[w].phase = "retry"
         /\ worker'[w].users = worker[w].users /\ worker'[w].version = worker[w].version
         /\ worker'[w] \in Worker /\ Others(w)
  <1>1. worker' = [worker EXCEPT ![w].phase = "retry"]
    BY DEF MaterializeFails
  <1>2. worker'[w] = [worker[w] EXCEPT !.phase = "retry"] /\ Others(w)
    BY <1>1 DEF ShapeInv, Others
  <1>3. worker[w] \in Worker
    BY DEF ShapeInv
  <1> QED
    BY <1>2, <1>3 DEF Worker

LEMMA IdleMoves ==
  ASSUME ShapeInv, NEW w \in Workers, Materialize(w) \/ RetryClaim(w) \/ WorkerCrash(w)
  PROVE  worker'[w] = IdleWorker /\ worker'[w] \in Worker /\ Others(w)
  <1>1. worker' = [worker EXCEPT ![w] = IdleWorker]
    BY DEF Materialize, RetryClaim, WorkerCrash
  <1>2. IdleWorker \in Worker
    BY NoProfileType DEF IdleWorker, Worker
  <1> QED
    BY <1>1, <1>2 DEF ShapeInv, Others

-----------------------------------------------------------------------------
(* What a step does to the queue row of a user.                            *)

\* Invalidation raises the version and starts the debounce over.
LEMMA InvalidateMoves ==
  ASSUME ShapeInv, NEW S, InvalidateProfiles(S)
  PROVE  /\ dirty' \in [Users -> QueueRow]
         /\ \A u \in Users : u \in S => /\ dirty'[u] = [version |-> dirty[u].version + 1, due |-> FALSE]
                                        /\ dirty'[u].version = dirty[u].version + 1
         /\ \A u \in Users : u \notin S => dirty'[u] = dirty[u]
  <1>1. \A u \in Users : dirty[u] \in QueueRow /\ dirty[u].version \in Nat
    BY DEF ShapeInv, QueueRow
  <1>2. dirty' = [u \in Users |->
          IF u \in S THEN [version |-> dirty[u].version + 1, due |-> FALSE] ELSE dirty[u]]
    BY DEF InvalidateProfiles
  <1>3. \A u \in Users : [version |-> dirty[u].version + 1, due |-> FALSE] \in QueueRow
    BY <1>1 DEF QueueRow
  <1> QED
    BY <1>1, <1>2, <1>3

\* Queueing leaves a row alone that is there.
LEMMA EnsureMoves ==
  ASSUME ShapeInv, NEW u \in Users, EnsureProfilesQueued(u)
  PROVE  /\ dirty' \in [Users -> QueueRow]
         /\ dirty[u] = NoRow => /\ dirty'[u] = [version |-> 1, due |-> FALSE]
                                /\ dirty'[u].version = 1 /\ dirty[u].version = 0
         /\ \A v \in Users : v # u \/ dirty[u] # NoRow => dirty'[v] = dirty[v]
  <1>1. dirty' = IF dirty[u] = NoRow
                 THEN [dirty EXCEPT ![u] = [version |-> 1, due |-> FALSE]] ELSE dirty
    BY DEF EnsureProfilesQueued
  <1>2. [version |-> 1, due |-> FALSE] \in QueueRow
    BY DEF QueueRow
  <1>3. dirty[u] = NoRow => dirty[u].version = 0
    BY DEF NoRow
  <1> QED
    BY <1>1, <1>2, <1>3 DEF ShapeInv

LEMMA RipenMoves ==
  ASSUME ShapeInv, NEW u \in Users, Ripen(u)
  PROVE  /\ dirty' \in [Users -> QueueRow]
         /\ dirty[u] # NoRow /\ dirty'[u].version = dirty[u].version
         /\ \A v \in Users : v # u => dirty'[v] = dirty[v]
  <1>1. dirty' = [dirty EXCEPT ![u].due = TRUE]
    BY DEF Ripen
  <1>2. dirty'[u] = [dirty[u] EXCEPT !.due = TRUE] /\ \A v \in Users : v # u => dirty'[v] = dirty[v]
    BY <1>1 DEF ShapeInv
  <1>3. dirty[u] \in QueueRow /\ DOMAIN dirty = Users
    BY DEF ShapeInv
  <1>4. dirty'[u] \in QueueRow /\ dirty'[u].version = dirty[u].version
    BY <1>2, <1>3 DEF QueueRow
  <1>5. dirty[u] # NoRow
    BY DEF Ripen
  <1>6. dirty' \in [Users -> QueueRow]
    BY <1>1, <1>2, <1>4 DEF ShapeInv
  <1> QED
    BY <1>2, <1>4, <1>5, <1>6

\* A claim is deleted in its own version only.
LEMMA DeleteMoves ==
  ASSUME ShapeInv, NEW u \in Users, NEW v, DeleteClaim(u, v)
  PROVE  /\ dirty' \in [Users -> QueueRow]
         /\ dirty[u].version = v => dirty'[u] = NoRow
         /\ dirty[u].version # v => dirty'[u] = dirty[u]
         /\ \A x \in Users : x # u => dirty'[x] = dirty[x]
  <1>1. dirty' = IF dirty[u].version = v THEN [dirty EXCEPT ![u] = NoRow] ELSE dirty
    BY DEF DeleteClaim
  <1>2. NoRow \in QueueRow
    BY DEF NoRow, QueueRow
  <1> QED
    BY <1>1, <1>2 DEF ShapeInv

\* A retry puts rows off and changes nothing else in them.
LEMMA RetryMoves ==
  ASSUME ShapeInv, NEW w \in Workers, RetryClaim(w)
  PROVE  /\ dirty' \in [Users -> QueueRow]
         /\ \A u \in Users : /\ dirty'[u].version = dirty[u].version
                             /\ dirty'[u].due => dirty[u].due
  <1>1. dirty' = [u \in Users |->
          IF u \in worker[w].users /\ dirty[u].version = worker[w].version
          THEN [dirty[u] EXCEPT !.due = FALSE] ELSE dirty[u]]
    BY DEF RetryClaim
  <1>2. \A u \in Users : dirty[u] \in QueueRow
    BY DEF ShapeInv
  <1>3. ASSUME NEW u \in Users
        PROVE  /\ [dirty[u] EXCEPT !.due = FALSE] \in QueueRow
               /\ [dirty[u] EXCEPT !.due = FALSE].version = dirty[u].version
               /\ ~[dirty[u] EXCEPT !.due = FALSE].due
    BY <1>2 DEF QueueRow
  <1>4. ASSUME NEW u \in Users
        PROVE  /\ dirty'[u] \in QueueRow
               /\ dirty'[u].version = dirty[u].version
               /\ dirty'[u].due => dirty[u].due
    <2>1. CASE u \in worker[w].users /\ dirty[u].version = worker[w].version
      <3>1. dirty'[u] = [dirty[u] EXCEPT !.due = FALSE]
        BY <1>1, <2>1
      <3> QED
        BY <3>1, <1>3
    <2>2. CASE ~(u \in worker[w].users /\ dirty[u].version = worker[w].version)
      <3>1. dirty'[u] = dirty[u]
        BY <1>1, <2>2
      <3> QED
        BY <3>1, <1>2
    <2> QED
      BY <2>1, <2>2
  <1>5. dirty' = [u \in Users |-> dirty'[u]]
    BY <1>1
  <1> QED
    BY <1>4, <1>5

\* A commit invalidates the users it has found; an abort invalidates nobody.
LEMMA CommitMoves ==
  ASSUME ShapeInv, NEW e \in Embedders, CommitEmbedding(e)
  PROVE  /\ dirty' \in [Users -> QueueRow]
         /\ \A u \in Users : u \in embedder[e].users => dirty'[u].version = dirty[u].version + 1 /\ ~dirty'[u].due
         /\ \A u \in Users : u \notin embedder[e].users => dirty'[u] = dirty[u]
  <1>1. InvalidateProfiles(embedder[e].users)
    BY DEF CommitEmbedding
  <1>2. ASSUME NEW u \in Users, u \in embedder[e].users
        PROVE  dirty'[u].version = dirty[u].version + 1 /\ ~dirty'[u].due
    <2>1. dirty'[u] = [version |-> dirty[u].version + 1, due |-> FALSE]
      BY <1>1, <1>2, InvalidateMoves
    <2> QED
      BY <2>1
  <1> QED
    BY <1>1, <1>2, InvalidateMoves

\* SelectUsers opens one transaction on one Post.
LEMMA SelectMoves ==
  ASSUME ShapeInv, NEW e \in Embedders, SelectUsers(e)
  PROVE  \E p \in Posts, v \in Versions :
           /\ embedder' \in [Embedders -> Embedder]
           /\ embedder'[e].phase = "selected" /\ embedder'[e].posts = {p} /\ embedder'[e].version = v
           /\ embedder'[e].users = {u \in Users : v = serving /\ p \in Interacted(rows[u])}
           /\ \A x \in Embedders : x # e => embedder'[x] = embedder[x]
  <1>1. PICK p \in Posts, v \in Versions :
          embedder' = [embedder EXCEPT ![e] =
               [phase |-> "selected", posts |-> {p}, version |-> v,
                users |-> {u \in Users : v = serving /\ p \in Interacted(rows[u])}]]
    BY DEF SelectUsers
  <1> DEFINE U == {u \in Users : v = serving /\ p \in Interacted(rows[u])}
             n == [phase |-> "selected", posts |-> {p}, version |-> v, users |-> U]
  <1>2. U \subseteq Users
    OBVIOUS
  <1> HIDE DEF U
  <1>3. v \in 0..MaxServing
    BY DEF Versions
  <1>4. n \in Embedder
    BY <1>2, <1>3 DEF Embedder
  <1>5. n.phase = "selected" /\ n.posts = {p} /\ n.version = v /\ n.users = U
    OBVIOUS
  <1>6. embedder' = [embedder EXCEPT ![e] = n]
    BY <1>1 DEF U
  <1> HIDE DEF n
  <1>7. embedder'[e] = n /\ embedder' \in [Embedders -> Embedder]
        /\ \A x \in Embedders : x # e => embedder'[x] = embedder[x]
    BY <1>4, <1>6 DEF ShapeInv
  <1> QED
    BY <1>1, <1>5, <1>7 DEF U

\* The end of a transaction, by commit or by abort.
LEMMA EndMoves ==
  ASSUME ShapeInv, NEW e \in Embedders, CommitEmbedding(e) \/ AbortEmbedding(e)
  PROVE  /\ embedder[e].phase = "selected"
         /\ embedder' \in [Embedders -> Embedder]
         /\ embedder'[e].phase = "idle"
         /\ \A x \in Embedders : x # e => embedder'[x] = embedder[x]
  <1>1. embedder' = [embedder EXCEPT ![e] = IdleEmbedder] /\ embedder[e].phase = "selected"
    BY DEF CommitEmbedding, AbortEmbedding
  <1>2. IdleEmbedder \in Embedder
    BY DEF IdleEmbedder, Embedder
  <1>3. embedder'[e] = IdleEmbedder /\ embedder' \in [Embedders -> Embedder]
    BY <1>1, <1>2 DEF ShapeInv
  <1>4. embedder'[e].phase = "idle"
    BY <1>3 DEF IdleEmbedder
  <1> QED
    BY <1>1, <1>3, <1>4 DEF ShapeInv

\* The step of a materializer, and the steps that leave the materializers alone.
LEMMA Cases ==
  ASSUME Next
  PROVE  \/ \E w \in Workers, u \in Users : Begin(w, u)
         \/ \E w \in Workers : \/ LoadServingVersion(w) \/ LoadSourceSignals(w) \/ LoadPostEmbeddings(w)
                               \/ Materialize(w) \/ MaterializeFails(w) \/ RetryClaim(w) \/ WorkerCrash(w)
         \/ \E u \in Users, k \in Kinds, p \in Posts : RecordSignal(u, k, p)
         \/ \E u \in Users : Ripen(u) \/ ServeProfile(u) \/ Rebase(u)
         \/ \E e \in Embedders : SelectUsers(e) \/ CommitEmbedding(e) \/ AbortEmbedding(e)
         \/ SetServingVersion
  BY DEF Next, WorkerNext, UserNext

-----------------------------------------------------------------------------
(* Types.                                                                  *)

DataOK ==
  /\ rows \in [Users -> Rows]
  /\ embedding \in [Posts -> [Versions -> Nat]]
  /\ serving \in Versions
  /\ profile \in [Users -> Profile]
  /\ faults \in 0..MaxFaults

\* A signal adds one row.
LEMMA RecordMoves ==
  ASSUME TypeOK, NEW u \in Users, NEW k \in Kinds, NEW p \in Posts, RecordSignal(u, k, p)
  PROVE  /\ rows[u][k][p] = 0 => ~PostLocked(p)
         /\ rows' \in [Users -> Rows]
         /\ rows'[u][k][p] = rows[u][k][p] + 1
         /\ \A j \in Kinds, q \in Posts : j # k \/ q # p => rows'[u][j][q] = rows[u][j][q]
         /\ \A v \in Users : v # u => rows'[v] = rows[v]
  <1>1. rows' = [rows EXCEPT ![u][k][p] = @ + 1]
    BY DEF RecordSignal
  <1>2. rows \in [Users -> Rows] /\ rows[u] \in Rows /\ rows[u][k] \in [Posts -> Nat]
    BY DEF TypeOK, Rows
  <1> DEFINE t == [rows[u][k] EXCEPT ![p] = @ + 1]
             r == [rows[u] EXCEPT ![k] = t]
  <1>3. t \in [Posts -> Nat] /\ t[p] = rows[u][k][p] + 1 /\ \A q \in Posts : q # p => t[q] = rows[u][k][q]
    BY <1>2
  <1>4. rows' = [rows EXCEPT ![u] = r]
    BY <1>1, <1>2
  <1> HIDE DEF t
  <1>5. r \in Rows /\ r[k] = t /\ \A j \in Kinds : j # k => r[j] = rows[u][j]
    BY <1>2, <1>3 DEF Rows
  <1> HIDE DEF r
  <1>6. rows' \in [Users -> Rows] /\ rows'[u] = r /\ \A v \in Users : v # u => rows'[v] = rows[v]
    BY <1>2, <1>4, <1>5
  <1>7. rows[u][k][p] = 0 => ~PostLocked(p)
    BY DEF RecordSignal
  <1> QED
    BY <1>3, <1>5, <1>6, <1>7

\* A commit writes the vector of its Post once more.
LEMMA VectorMoves ==
  ASSUME TypeOK, ShapeInv, OpenInv, NEW e \in Embedders, CommitEmbedding(e)
  PROVE  /\ embedding' \in [Posts -> [Versions -> Nat]]
         /\ \A p \in Posts : p \notin embedder[e].posts => embedding'[p] = embedding[p]
         /\ \A p \in Posts, v \in Versions : v # embedder[e].version => embedding'[p][v] = embedding[p][v]
  <1> DEFINE x == embedder[e]
  <1>1. embedding' = [p \in Posts |-> IF p \in x.posts
                        THEN [embedding[p] EXCEPT ![x.version] = @ + 1] ELSE embedding[p]]
    BY DEF CommitEmbedding
  <1>2. x.version \in Versions
    BY DEF CommitEmbedding, OpenInv
  <1>3. \A p \in Posts : embedding[p] \in [Versions -> Nat]
    BY DEF TypeOK
  <1> HIDE DEF x
  <1>4. \A p \in Posts : [embedding[p] EXCEPT ![x.version] = @ + 1] \in [Versions -> Nat]
    BY <1>2, <1>3
  <1>5. \A p \in Posts, v \in Versions : v # x.version => [embedding[p] EXCEPT ![x.version] = @ + 1][v] = embedding[p][v]
    BY <1>2, <1>3
  <1>6. embedding' \in [Posts -> [Versions -> Nat]]
    BY <1>1, <1>3, <1>4
  <1>7. \A p \in Posts, v \in Versions : v # x.version => embedding'[p][v] = embedding[p][v]
    BY <1>1, <1>5
  <1> QED
    BY <1>1, <1>6, <1>7 DEF x

\* The one user of a materializer.
LEMMA HeldUser ==
  ASSUME ShapeInv, WorkerInv, NEW w \in Workers, worker[w].phase # "idle"
  PROVE  \E u \in Users : worker[w].users = {u}
  BY DEF WorkerInv

\* Materialize publishes what was built for the one user.
LEMMA PublishMoves ==
  ASSUME TypeOK, ShapeInv, WorkerInv, NEW w \in Workers, Materialize(w)
  PROVE  \E u \in Users :
           /\ worker[w].phase = "built" /\ worker[w].users = {u}
           /\ profile' \in [Users -> Profile]
           /\ profile'[u] = worker[w].built
           /\ \A v \in Users : v # u => profile'[v] = profile[v]
           /\ DeleteClaim(u, worker[w].version)
  <1>1. worker[w].phase = "built"
    BY DEF Materialize
  <1>2. PICK u \in Users : worker[w].users = {u}
    BY <1>1, HeldUser
  <1>3. profile' = [profile EXCEPT ![u] = worker[w].built] /\ DeleteClaim(u, worker[w].version)
    BY <1>2 DEF Materialize
  <1>4. worker[w].built \in Profile /\ profile \in [Users -> Profile]
    BY DEF ShapeInv, Worker, TypeOK, Profile
  <1>5. profile' \in [Users -> Profile] /\ profile'[u] = worker[w].built
    BY <1>3, <1>4
  <1>6. \A v \in Users : v # u => profile'[v] = profile[v]
    BY <1>3, <1>4
  <1> QED
    BY <1>1, <1>2, <1>3, <1>5, <1>6

LEMMA DataStep ==
  ASSUME TypeOK, ShapeInv, WorkerInv, OpenInv, Next
  PROVE  DataOK'
  <1>1. DataOK
    BY DEF TypeOK, DataOK, Profile
  <1>2. CASE UNCHANGED <<rows, embedding, serving, profile>> /\ faults' \in 0..MaxFaults
    BY <1>1, <1>2 DEF DataOK
  <1>3. Fault => faults' \in 0..MaxFaults
    BY <1>1 DEF DataOK, Fault
  <1>f. faults \in 0..MaxFaults
    BY <1>1 DEF DataOK
  <1>4. ASSUME NEW w \in Workers, NEW u \in Users, Begin(w, u) PROVE DataOK'
    BY <1>2, <1>4, <1>f DEF Begin
  <1>5. ASSUME NEW w \in Workers, LoadServingVersion(w) \/ LoadSourceSignals(w) \/ LoadPostEmbeddings(w) \/ RetryClaim(w)
        PROVE  DataOK'
    BY <1>2, <1>5, <1>f DEF LoadServingVersion, LoadSourceSignals, LoadPostEmbeddings, RetryClaim
  <1>6. ASSUME NEW w \in Workers, MaterializeFails(w) \/ WorkerCrash(w) PROVE DataOK'
    BY <1>2, <1>3, <1>6 DEF MaterializeFails, WorkerCrash
  <1>7. ASSUME NEW w \in Workers, Materialize(w) PROVE DataOK'
    <2>1. profile' \in [Users -> Profile]
      BY <1>7, PublishMoves
    <2>2. UNCHANGED <<rows, embedding, serving, faults>>
      BY <1>7 DEF Materialize
    <2> QED
      BY <1>1, <2>1, <2>2 DEF DataOK
  <1>8. ASSUME NEW u \in Users, NEW k \in Kinds, NEW p \in Posts, RecordSignal(u, k, p) PROVE DataOK'
    <2>1. rows' \in [Users -> Rows]
      BY <1>8, RecordMoves
    <2>2. UNCHANGED <<embedding, serving, profile, faults>>
      BY <1>8 DEF RecordSignal
    <2> QED
      BY <1>1, <2>1, <2>2 DEF DataOK
  <1>9. ASSUME NEW u \in Users, Ripen(u) \/ ServeProfile(u) \/ Rebase(u) PROVE DataOK'
    BY <1>2, <1>9, <1>f DEF Ripen, ServeProfile, Rebase
  <1>10. ASSUME NEW e \in Embedders, SelectUsers(e) PROVE DataOK'
    BY <1>2, <1>10, <1>f DEF SelectUsers
  <1>11. ASSUME NEW e \in Embedders, AbortEmbedding(e) PROVE DataOK'
    BY <1>2, <1>3, <1>11 DEF AbortEmbedding
  <1>12. ASSUME NEW e \in Embedders, CommitEmbedding(e) PROVE DataOK'
    <2>1. embedding' \in [Posts -> [Versions -> Nat]]
      BY <1>12, VectorMoves
    <2>2. UNCHANGED <<rows, serving, profile, faults>>
      BY <1>12 DEF CommitEmbedding
    <2> QED
      BY <1>1, <2>1, <2>2 DEF DataOK
  <1>13. CASE SetServingVersion
    <2>1. serving' \in Versions
      BY <1>1, <1>13 DEF SetServingVersion, DataOK, Versions
    <2>2. UNCHANGED <<rows, embedding, profile, faults>>
      BY <1>13 DEF SetServingVersion
    <2> QED
      BY <1>1, <2>1, <2>2 DEF DataOK
  <1> QED
    BY <1>4, <1>5, <1>6, <1>7, <1>8, <1>9, <1>10, <1>11, <1>12, <1>13, Cases

LEMMA ShapeStep ==
  ASSUME TypeOK, ShapeInv, WorkerInv, Next
  PROVE  ShapeInv'
  <1>w. ASSUME NEW w \in Workers, Others(w), worker'[w] \in Worker PROVE worker' \in [Workers -> Worker]
    BY <1>w DEF Others, ShapeInv
  <1>s. \A w \in Workers : worker[w].phase \in {"reading", "built"} =>
          worker[w].built.serving \in Versions /\ worker[w].next \in 1..5
    BY DEF TypeOK, WorkerInv, Versions
  <1>4. ASSUME NEW w \in Workers, NEW u \in Users, Begin(w, u) PROVE ShapeInv'
    <2>1. worker' \in [Workers -> Worker]
      BY <1>4, <1>w, BeginMoves
    <2> QED
      BY <1>4, <2>1 DEF Begin, ShapeInv
  <1>5. ASSUME NEW w \in Workers, LoadServingVersion(w) \/ LoadSourceSignals(w) \/ LoadPostEmbeddings(w)
        PROVE  ShapeInv'
    <2>1. worker' \in [Workers -> Worker]
      <3>1. CASE LoadServingVersion(w)
        BY <1>w, <3>1, ServingMoves
      <3>2. CASE LoadSourceSignals(w)
        BY <1>w, <1>s, <3>2, SourceMoves DEF LoadSourceSignals
      <3>3. CASE LoadPostEmbeddings(w)
        BY <1>w, <1>s, <3>3, EmbeddingMoves DEF LoadPostEmbeddings
      <3> QED
        BY <1>5, <3>1, <3>2, <3>3
    <2>2. UNCHANGED <<dirty, embedder>>
      BY <1>5 DEF LoadServingVersion, LoadSourceSignals, LoadPostEmbeddings
    <2> QED
      BY <2>1, <2>2 DEF ShapeInv
  <1>6. ASSUME NEW w \in Workers, MaterializeFails(w) \/ WorkerCrash(w) PROVE ShapeInv'
    <2>1. worker' \in [Workers -> Worker]
      BY <1>6, <1>w, FailMoves, IdleMoves
    <2>2. UNCHANGED <<dirty, embedder>>
      BY <1>6 DEF MaterializeFails, WorkerCrash
    <2> QED
      BY <2>1, <2>2 DEF ShapeInv
  <1>7. ASSUME NEW w \in Workers, Materialize(w) PROVE ShapeInv'
    <2>1. worker' \in [Workers -> Worker]
      BY <1>7, <1>w, IdleMoves
    <2>2. dirty' \in [Users -> QueueRow]
      BY <1>7, PublishMoves, DeleteMoves
    <2> QED
      BY <1>7, <2>1, <2>2 DEF ShapeInv, Materialize
  <1>8. ASSUME NEW w \in Workers, RetryClaim(w) PROVE ShapeInv'
    <2>1. worker' \in [Workers -> Worker]
      BY <1>8, <1>w, IdleMoves
    <2>2. dirty' \in [Users -> QueueRow]
      BY <1>8, RetryMoves
    <2> QED
      BY <1>8, <2>1, <2>2 DEF ShapeInv, RetryClaim
  <1>9. ASSUME NEW u \in Users, NEW k \in Kinds, NEW p \in Posts, RecordSignal(u, k, p) PROVE ShapeInv'
    <2>1. InvalidateProfiles({u}) /\ UNCHANGED <<worker, embedder>>
      BY <1>9 DEF RecordSignal
    <2>2. dirty' \in [Users -> QueueRow]
      BY <2>1, InvalidateMoves
    <2> QED
      BY <2>1, <2>2 DEF ShapeInv
  <1>10. ASSUME NEW u \in Users, Ripen(u) \/ ServeProfile(u) \/ Rebase(u) PROVE ShapeInv'
    <2>1. dirty' \in [Users -> QueueRow]
      BY <1>10, RipenMoves, EnsureMoves DEF ServeProfile, Rebase
    <2>2. UNCHANGED <<worker, embedder>>
      BY <1>10 DEF Ripen, ServeProfile, Rebase
    <2> QED
      BY <2>1, <2>2 DEF ShapeInv
  <1>11. ASSUME NEW e \in Embedders, SelectUsers(e) PROVE ShapeInv'
    <2>1. embedder' \in [Embedders -> Embedder]
      BY <1>11, SelectMoves
    <2> QED
      BY <1>11, <2>1 DEF SelectUsers, ShapeInv
  <1>12. ASSUME NEW e \in Embedders, CommitEmbedding(e) \/ AbortEmbedding(e) PROVE ShapeInv'
    <2>1. embedder' \in [Embedders -> Embedder]
      BY <1>12, EndMoves
    <2>2. dirty' \in [Users -> QueueRow]
      BY <1>12, CommitMoves DEF AbortEmbedding, ShapeInv
    <2>3. UNCHANGED worker
      BY <1>12 DEF CommitEmbedding, AbortEmbedding
    <2> QED
      BY <2>1, <2>2, <2>3 DEF ShapeInv
  <1>13. CASE SetServingVersion
    BY <1>13 DEF SetServingVersion, ShapeInv
  <1> QED
    BY <1>4, <1>5, <1>6, <1>7, <1>8, <1>9, <1>10, <1>11, <1>12, <1>13, Cases

-----------------------------------------------------------------------------
(* The queue row of a user, over a step: it stays in its version, it is     *)
(* invalidated, or a rebuild clears it.                                    *)

Quiet(u) ==
  /\ dirty'[u].version = dirty[u].version
  /\ dirty'[u].due => dirty[u].due \/ dirty[u].version # 0

Raised(u) == dirty'[u].version = dirty[u].version + 1 /\ ~dirty'[u].due

Cleared(u) ==
  /\ dirty'[u] = NoRow
  /\ \E w \in Workers : /\ Materialize(w) /\ Current(w, u)
                        /\ worker[w].phase = "built" /\ worker[w].users = {u}

LEMMA SameIsQuiet ==
  ASSUME NEW u \in Users, dirty'[u] = dirty[u]
  PROVE  Quiet(u)
  BY DEF Quiet

LEMMA RowStep ==
  ASSUME TypeOK, ShapeInv, WorkerInv, QueueInv, Next, NEW u \in Users
  PROVE  Quiet(u) \/ Raised(u) \/ Cleared(u)
  <1>v. dirty[u].version \in Nat /\ (dirty[u] = NoRow <=> dirty[u].version = 0)
    <2>1. dirty[u].version \in Nat
      BY DEF ShapeInv, QueueRow
    <2>2. NoRow.version = 0
      BY DEF NoRow
    <2> QED
      BY <2>1, <2>2 DEF QueueInv
  <1>1. CASE UNCHANGED dirty
    BY <1>1, SameIsQuiet
  <1>2. ASSUME NEW w \in Workers, NEW x \in Users, Begin(w, x) PROVE UNCHANGED dirty
    BY <1>2 DEF Begin
  <1>3. ASSUME NEW w \in Workers,
               LoadServingVersion(w) \/ LoadSourceSignals(w) \/ LoadPostEmbeddings(w) \/ MaterializeFails(w) \/ WorkerCrash(w)
        PROVE  UNCHANGED dirty
    BY <1>3 DEF LoadServingVersion, LoadSourceSignals, LoadPostEmbeddings, MaterializeFails, WorkerCrash
  <1>4. ASSUME NEW w \in Workers, Materialize(w) PROVE Quiet(u) \/ Raised(u) \/ Cleared(u)
    <2>1. PICK x \in Users : /\ worker[w].phase = "built" /\ worker[w].users = {x}
                             /\ DeleteClaim(x, worker[w].version)
      BY <1>4, PublishMoves
    <2>2. CASE u = x /\ dirty[u].version = worker[w].version
      <3>1. dirty'[u] = NoRow
        BY <2>1, <2>2, DeleteMoves
      <3> QED
        BY <1>4, <2>1, <2>2, <3>1 DEF Cleared, Current, Holding
    <2>3. CASE ~(u = x /\ dirty[u].version = worker[w].version)
      BY <2>1, <2>3, DeleteMoves, SameIsQuiet
    <2> QED
      BY <2>2, <2>3
  <1>5. ASSUME NEW w \in Workers, RetryClaim(w) PROVE Quiet(u)
    BY <1>5, RetryMoves DEF Quiet
  <1>6. ASSUME NEW x \in Users, NEW k \in Kinds, NEW p \in Posts, RecordSignal(x, k, p)
        PROVE  Quiet(u) \/ Raised(u)
    <2>1. InvalidateProfiles({x})
      BY <1>6 DEF RecordSignal
    <2>2. CASE u = x
      <3>1. dirty'[u] = [version |-> dirty[u].version + 1, due |-> FALSE]
        BY <2>1, <2>2, InvalidateMoves
      <3> QED
        BY <3>1 DEF Raised
    <2>3. CASE u # x
      BY <2>1, <2>3, InvalidateMoves, SameIsQuiet
    <2> QED
      BY <2>2, <2>3
  <1>7. ASSUME NEW x \in Users, Ripen(x) PROVE Quiet(u)
    <2>1. CASE u = x
      BY <1>7, <1>v, <2>1, RipenMoves DEF Quiet
    <2>2. CASE u # x
      BY <1>7, <2>2, RipenMoves, SameIsQuiet
    <2> QED
      BY <2>1, <2>2
  <1>8. ASSUME NEW x \in Users, ServeProfile(x) \/ Rebase(x) PROVE Quiet(u) \/ Raised(u)
    <2>1. EnsureProfilesQueued(x)
      BY <1>8 DEF ServeProfile, Rebase
    <2>2. CASE u = x /\ dirty[x] = NoRow
      <3>1. dirty'[u] = [version |-> 1, due |-> FALSE] /\ dirty[u].version = 0
        BY <2>1, <2>2, EnsureMoves
      <3> QED
        BY <3>1 DEF Raised
    <2>3. CASE ~(u = x /\ dirty[x] = NoRow)
      BY <2>1, <2>3, EnsureMoves, SameIsQuiet
    <2> QED
      BY <2>2, <2>3
  <1>9. ASSUME NEW e \in Embedders, SelectUsers(e) PROVE UNCHANGED dirty
    BY <1>9 DEF SelectUsers
  <1>10. ASSUME NEW e \in Embedders, CommitEmbedding(e) PROVE Quiet(u) \/ Raised(u)
    <2>1. CASE u \in embedder[e].users
      BY <1>10, <2>1, CommitMoves DEF Raised
    <2>2. CASE u \notin embedder[e].users
      BY <1>10, <2>2, CommitMoves, SameIsQuiet
    <2> QED
      BY <2>1, <2>2
  <1>11. ASSUME NEW e \in Embedders, AbortEmbedding(e) PROVE UNCHANGED dirty
    BY <1>11 DEF AbortEmbedding
  <1>12. CASE SetServingVersion
    BY <1>1, <1>12 DEF SetServingVersion
  <1> QED
    BY <1>1, <1>2, <1>3, <1>4, <1>5, <1>6, <1>7, <1>8, <1>9, <1>10, <1>11, <1>12, Cases

\* Only Begin takes a user's lock, and no other step changes what was claimed.
LEMMA HoldStep ==
  ASSUME TypeOK, ShapeInv, WorkerInv, Next
  PROVE  \/ \E w \in Workers, u \in Users : Begin(w, u)
         \/ \A x \in Workers, v \in Users : Holding(x, v)' => Holding(x, v) /\ worker'[x].version = worker[x].version
  <1> DEFINE G == \A x \in Workers, v \in Users :
                    Holding(x, v)' => Holding(x, v) /\ worker'[x].version = worker[x].version
  <1>1. CASE UNCHANGED worker
    BY <1>1 DEF Holding
  <1>2. ASSUME NEW w \in Workers, Others(w),
               \A v \in Users : Holding(w, v)' => Holding(w, v) /\ worker'[w].version = worker[w].version
        PROVE  G
    <2>1. SUFFICES ASSUME NEW x \in Workers, NEW v \in Users, Holding(x, v)'
                   PROVE  Holding(x, v) /\ worker'[x].version = worker[x].version
      OBVIOUS
    <2>2. CASE x = w
      BY <1>2, <2>1, <2>2
    <2>3. CASE x # w
      <3>1. worker'[x] = worker[x]
        BY <1>2, <2>3 DEF Others
      <3> QED
        BY <2>1, <3>1 DEF Holding
    <2> QED
      BY <2>2, <2>3
  <1>s. \A w \in Workers : worker[w].phase \in {"reading", "built"} =>
          worker[w].built.serving \in Versions /\ worker[w].next \in 1..5
    BY DEF TypeOK, WorkerInv, Versions
  <1> HIDE DEF G
  <1>3. ASSUME NEW w \in Workers, LoadServingVersion(w) PROVE G
    <2>1. Others(w) /\ worker'[w].users = worker[w].users /\ worker'[w].version = worker[w].version
      BY <1>3, ServingMoves
    <2>2. worker[w].phase = "claimed"
      BY <1>3 DEF LoadServingVersion
    <2> QED
      BY <1>2, <2>1, <2>2 DEF Holding
  <1>4. ASSUME NEW w \in Workers, LoadSourceSignals(w) PROVE G
    <2>1. worker[w].phase = "reading" /\ worker[w].next \in 1..5
      BY <1>4, <1>s DEF LoadSourceSignals
    <2>2. Others(w) /\ worker'[w].users = worker[w].users /\ worker'[w].version = worker[w].version
      BY <1>4, <2>1, SourceMoves
    <2> QED
      BY <1>2, <2>1, <2>2 DEF Holding
  <1>5. ASSUME NEW w \in Workers, LoadPostEmbeddings(w) PROVE G
    <2>1. worker[w].phase = "reading" /\ worker[w].built.serving \in Versions
      BY <1>5, <1>s DEF LoadPostEmbeddings
    <2>2. Others(w) /\ worker'[w].users = worker[w].users /\ worker'[w].version = worker[w].version
      BY <1>5, <2>1, EmbeddingMoves
    <2> QED
      BY <1>2, <2>1, <2>2 DEF Holding
  <1>6. ASSUME NEW w \in Workers, MaterializeFails(w) PROVE G
    BY <1>2, <1>6, FailMoves DEF Holding
  <1>7. ASSUME NEW w \in Workers, Materialize(w) \/ RetryClaim(w) \/ WorkerCrash(w) PROVE G
    <2>1. worker'[w] = IdleWorker /\ Others(w)
      BY <1>7, IdleMoves
    <2>2. worker'[w].phase = "idle"
      BY <2>1 DEF IdleWorker
    <2> QED
      BY <1>2, <2>1, <2>2 DEF Holding
  <1>8. ASSUME NEW u \in Users, NEW k \in Kinds, NEW p \in Posts, RecordSignal(u, k, p) PROVE UNCHANGED worker
    BY <1>8 DEF RecordSignal
  <1>9. ASSUME NEW u \in Users, Ripen(u) \/ ServeProfile(u) \/ Rebase(u) PROVE UNCHANGED worker
    BY <1>9 DEF Ripen, ServeProfile, Rebase
  <1>10. ASSUME NEW e \in Embedders, SelectUsers(e) \/ CommitEmbedding(e) \/ AbortEmbedding(e) PROVE UNCHANGED worker
    BY <1>10 DEF SelectUsers, CommitEmbedding, AbortEmbedding
  <1>11. CASE SetServingVersion
    BY <1>1, <1>11 DEF SetServingVersion
  <1> QED
    BY <1>1, <1>3, <1>4, <1>5, <1>6, <1>7, <1>8, <1>9, <1>10, <1>11, Cases DEF G

-----------------------------------------------------------------------------
(* The materializers and the queue.                                        *)

WorkerOK(w) ==
  /\ worker[w].phase # "idle" => worker[w].version > 0 /\ \E u \in Users : worker[w].users = {u}
  /\ worker[w].phase = "claimed" => worker[w].next = 0
  /\ worker[w].phase = "reading" => worker[w].next \in 1..5
  /\ worker[w].phase = "built" => worker[w].next = 5
  /\ worker[w].phase \in {"reading", "built"} => worker[w].built.serving \in 1..serving

LEMMA WorkerStep ==
  ASSUME TypeOK, ShapeInv, WorkerInv, QueueInv, Next
  PROVE  WorkerInv'
  <1>w. \A w \in Workers : WorkerOK(w)
    BY DEF WorkerInv, WorkerOK
  <1>sv. serving \in Versions /\ serving \in 1..serving
    BY DEF TypeOK, Versions
  <1>1. ASSUME NEW x \in Workers, worker'[x] = worker[x], serving' = serving \/ serving' = serving + 1
        PROVE  WorkerOK(x)'
    <2>1. WorkerOK(x) /\ serving \in Nat
      BY <1>w, <1>sv DEF Versions
    <2>2. \A n \in 1..serving : n \in 1..serving'
      BY <1>1, <2>1
    <2> QED
      BY <1>1, <2>1, <2>2 DEF WorkerOK
  <1>2. ASSUME NEW w \in Workers, Others(w), serving' = serving, WorkerOK(w)'
        PROVE  \A x \in Workers : WorkerOK(x)'
    <2>1. \A x \in Workers : x # w => worker'[x] = worker[x]
      BY <1>2 DEF Others
    <2> QED
      BY <1>1, <1>2, <2>1
  <1>3. ASSUME UNCHANGED <<worker, serving>>
        PROVE  \A x \in Workers : WorkerOK(x)'
    BY <1>1, <1>3
  <1> DEFINE G == \A x \in Workers : WorkerOK(x)'
  <1> HIDE DEF G
  <1>4. ASSUME NEW w \in Workers, NEW u \in Users, Begin(w, u) PROVE G
    <2>1. worker'[w] = [phase |-> "claimed", users |-> {u}, version |-> dirty[u].version,
                        next |-> 0, built |-> NoProfile] /\ Others(w)
      BY <1>4, BeginMoves
    <2>2. dirty[u] # NoRow /\ dirty[u].version \in Nat /\ dirty[u].version # 0 /\ serving' = serving
      BY <1>4 DEF Begin, ShapeInv, QueueRow, QueueInv
    <2>3. WorkerOK(w)'
      BY <2>1, <2>2 DEF WorkerOK
    <2> QED
      BY <1>2, <2>1, <2>2, <2>3 DEF G
  <1>5. ASSUME NEW w \in Workers, LoadServingVersion(w) PROVE G
    <2>1. /\ worker'[w].phase = "reading" /\ worker'[w].next = 1
          /\ worker'[w].users = worker[w].users /\ worker'[w].version = worker[w].version
          /\ worker'[w].built.serving = serving /\ Others(w)
      BY <1>5, ServingMoves
    <2>2. worker[w].phase = "claimed" /\ serving' = serving
      BY <1>5 DEF LoadServingVersion
    <2>3. WorkerOK(w)'
      BY <1>w, <1>sv, <2>1, <2>2 DEF WorkerOK
    <2> QED
      BY <1>2, <2>1, <2>2, <2>3 DEF G
  <1>6. ASSUME NEW w \in Workers, LoadSourceSignals(w) PROVE G
    <2>1. worker[w].phase = "reading" /\ worker[w].next \in 1..5 /\ serving' = serving
      BY <1>6, <1>w DEF LoadSourceSignals, WorkerOK
    <2>2. /\ worker[w].next \in 1..4
          /\ worker'[w].phase = "reading" /\ worker'[w].next = worker[w].next + 1
          /\ worker'[w].users = worker[w].users /\ worker'[w].version = worker[w].version
          /\ worker'[w].built.serving = worker[w].built.serving /\ Others(w)
      BY <1>6, <2>1, SourceMoves
    <2>3. WorkerOK(w)'
      BY <1>w, <2>1, <2>2 DEF WorkerOK
    <2> QED
      BY <1>2, <2>1, <2>2, <2>3 DEF G
  <1>7. ASSUME NEW w \in Workers, LoadPostEmbeddings(w) PROVE G
    <2>1. worker[w].phase = "reading" /\ worker[w].built.serving \in 1..serving /\ serving' = serving
      BY <1>7, <1>w DEF LoadPostEmbeddings, WorkerOK
    <2>2. worker[w].built.serving \in Versions
      BY <1>sv, <2>1 DEF Versions
    <2>3. /\ worker'[w].phase = "built" /\ worker'[w].next = 5
          /\ worker'[w].users = worker[w].users /\ worker'[w].version = worker[w].version
          /\ worker'[w].built.serving = worker[w].built.serving /\ Others(w)
      BY <1>7, <2>2, EmbeddingMoves
    <2>4. WorkerOK(w)'
      BY <1>w, <2>1, <2>3 DEF WorkerOK
    <2> QED
      BY <1>2, <2>1, <2>3, <2>4 DEF G
  <1>8. ASSUME NEW w \in Workers, MaterializeFails(w) PROVE G
    <2>1. /\ worker'[w].phase = "retry" /\ Others(w)
          /\ worker'[w].users = worker[w].users /\ worker'[w].version = worker[w].version
      BY <1>8, FailMoves
    <2>2. worker[w].phase # "idle" /\ serving' = serving
      BY <1>8 DEF MaterializeFails
    <2>3. WorkerOK(w)'
      BY <1>w, <2>1, <2>2 DEF WorkerOK
    <2> QED
      BY <1>2, <2>1, <2>2, <2>3 DEF G
  <1>9. ASSUME NEW w \in Workers, Materialize(w) \/ RetryClaim(w) \/ WorkerCrash(w) PROVE G
    <2>1. worker'[w] = IdleWorker /\ Others(w)
      BY <1>9, IdleMoves
    <2>2. serving' = serving
      BY <1>9 DEF Materialize, RetryClaim, WorkerCrash
    <2>3. worker'[w].phase = "idle"
      BY <2>1 DEF IdleWorker
    <2>4. WorkerOK(w)'
      BY <2>3 DEF WorkerOK
    <2> QED
      BY <1>2, <2>1, <2>2, <2>4 DEF G
  <1>10. ASSUME NEW u \in Users, NEW k \in Kinds, NEW p \in Posts, RecordSignal(u, k, p) PROVE G
    BY <1>3, <1>10 DEF RecordSignal, G
  <1>11. ASSUME NEW u \in Users, Ripen(u) \/ ServeProfile(u) \/ Rebase(u) PROVE G
    BY <1>3, <1>11 DEF Ripen, ServeProfile, Rebase, G
  <1>12. ASSUME NEW e \in Embedders, SelectUsers(e) \/ CommitEmbedding(e) \/ AbortEmbedding(e) PROVE G
    BY <1>3, <1>12 DEF SelectUsers, CommitEmbedding, AbortEmbedding, G
  <1>13. ASSUME SetServingVersion PROVE G
    <2>1. UNCHANGED worker /\ serving' = serving + 1
      BY <1>13 DEF SetServingVersion
    <2> QED
      BY <1>1, <2>1 DEF G
  <1>14. G
    BY <1>4, <1>5, <1>6, <1>7, <1>8, <1>9, <1>10, <1>11, <1>12, <1>13, Cases
  <1>15. \A w, x \in Workers, u \in Users : Holding(w, u)' /\ Holding(x, u)' => w = x
    <2>1. ASSUME NEW y \in Workers, NEW v \in Users, Begin(y, v),
                 NEW w \in Workers, NEW x \in Workers, NEW u \in Users, Holding(w, u)', Holding(x, u)'
          PROVE  w = x
      <3>1. \A z \in Workers : z # y => worker'[z] = worker[z]
        BY <2>1, BeginMoves DEF Others
      <3>2. worker'[y].users = {v}
        <4>1. worker'[y] = [phase |-> "claimed", users |-> {v}, version |-> dirty[v].version,
                            next |-> 0, built |-> NoProfile]
          BY <2>1, BeginMoves
        <4> QED
          BY <4>1
      <3>3. \A z \in Workers : ~Holding(z, v)
        BY <2>1 DEF Begin, Holding
      <3>4. \A z \in Workers : z # y => (Holding(z, u)' => Holding(z, u))
        BY <3>1 DEF Holding
      <3>5. Holding(y, u)' => u = v
        BY <3>2 DEF Holding
      <3> QED
        BY <2>1, <3>3, <3>4, <3>5 DEF WorkerInv
    <2>2. CASE \A x \in Workers, v \in Users : Holding(x, v)' => Holding(x, v) /\ worker'[x].version = worker[x].version
      BY <2>2 DEF WorkerInv
    <2> QED
      BY <2>1, <2>2, HoldStep
  <1> QED
    BY <1>14, <1>15 DEF G, WorkerOK, WorkerInv

LEMMA QueueStep ==
  ASSUME TypeOK, ShapeInv, WorkerInv, QueueInv, Next, ShapeInv'
  PROVE  QueueInv'
  <1>v. \A u \in Users : dirty[u].version \in Nat /\ dirty'[u].version \in Nat /\ dirty'[u] \in QueueRow
    BY DEF ShapeInv, QueueRow
  <1>n. NoRow.version = 0 /\ NoRow.due = FALSE
    BY DEF NoRow
  <1>1. ASSUME NEW u \in Users, dirty'[u].version = 0 PROVE dirty'[u] = NoRow
    <2>1. CASE Quiet(u)
      <3>1. dirty[u] = NoRow /\ dirty[u].version = 0
        BY <1>1, <2>1 DEF Quiet, QueueInv
      <3>2. ~dirty[u].due
        BY <1>n, <3>1
      <3>3. ~dirty'[u].due
        BY <2>1, <3>1, <3>2 DEF Quiet
      <3> QED
        BY <1>v, <1>1, <3>3 DEF QueueRow, NoRow
    <2>2. CASE Raised(u)
      BY <1>v, <1>1, <2>2 DEF Raised
    <2>3. CASE Cleared(u)
      BY <2>3 DEF Cleared
    <2> QED
      BY <2>1, <2>2, <2>3, RowStep
  <1>2. ASSUME NEW w \in Workers, NEW u \in Users, Holding(w, u)'
        PROVE  dirty'[u].version >= worker'[w].version
    <2>h. ASSUME Holding(w, u), worker'[w].version = worker[w].version
          PROVE  dirty'[u].version >= worker'[w].version
      <3>1. dirty[u].version >= worker[w].version
        BY <2>h DEF QueueInv
      <3>2. worker[w].version \in Nat
        BY DEF ShapeInv, Worker
      <3>3. CASE Quiet(u)
        BY <2>h, <3>1, <3>3 DEF Quiet
      <3>4. CASE Raised(u)
        BY <1>v, <2>h, <3>1, <3>2, <3>4 DEF Raised
      <3>5. CASE Cleared(u)
        <4>1. PICK y \in Workers : Materialize(y) /\ Current(y, u)
          BY <3>5 DEF Cleared
        <4>2. y = w
          BY <2>h, <4>1 DEF Current, WorkerInv
        <4>3. worker'[w] = IdleWorker
          BY <4>1, <4>2, IdleMoves
        <4> QED
          BY <1>2, <4>3 DEF Holding, IdleWorker
      <3> QED
        BY <3>3, <3>4, <3>5, RowStep
    <2>1. CASE \A x \in Workers, v \in Users : Holding(x, v)' => Holding(x, v) /\ worker'[x].version = worker[x].version
      BY <1>2, <2>1, <2>h
    <2>2. ASSUME NEW y \in Workers, NEW v \in Users, Begin(y, v)
          PROVE  dirty'[u].version >= worker'[w].version
      <3>1. CASE w = y
        <4>0. worker'[w] = [phase |-> "claimed", users |-> {v}, version |-> dirty[v].version,
                            next |-> 0, built |-> NoProfile]
          BY <2>2, <3>1, BeginMoves
        <4>1. worker'[w].users = {v} /\ worker'[w].version = dirty[v].version
          BY <4>0
        <4>2. u = v
          BY <1>2, <4>1 DEF Holding
        <4>3. UNCHANGED dirty
          BY <2>2 DEF Begin
        <4> QED
          BY <1>v, <4>1, <4>2, <4>3
      <3>2. CASE w # y
        <4>1. worker'[w] = worker[w]
          BY <2>2, <3>2, BeginMoves DEF Others
        <4> QED
          BY <1>2, <2>h, <4>1 DEF Holding
      <3> QED
        BY <3>1, <3>2
    <2> QED
      BY <2>1, <2>2, HoldStep
  <1> QED
    BY <1>1, <1>2 DEF QueueInv

-----------------------------------------------------------------------------
(* The sources.  A change of what a profile is built from raises the row of *)
(* the user.                                                               *)

LEMMA RowsGrow ==
  ASSUME TypeOK, ShapeInv, Next
  PROVE  /\ \A u \in Users : rows'[u] = rows[u] \/ Raised(u)
         /\ \A u \in Users, k \in Kinds, p \in Posts : rows[u][k][p] <= rows'[u][k][p]
  <1>t. \A u \in Users, k \in Kinds, p \in Posts : rows[u][k][p] \in Nat
    BY DEF TypeOK, Rows
  <1>1. ASSUME NEW v \in Users, NEW k \in Kinds, NEW p \in Posts, RecordSignal(v, k, p)
        PROVE  /\ \A u \in Users : rows'[u] = rows[u] \/ Raised(u)
               /\ \A u \in Users, j \in Kinds, q \in Posts : rows[u][j][q] <= rows'[u][j][q]
    <2>1. /\ rows'[v][k][p] = rows[v][k][p] + 1
          /\ \A j \in Kinds, q \in Posts : j # k \/ q # p => rows'[v][j][q] = rows[v][j][q]
          /\ \A u \in Users : u # v => rows'[u] = rows[u]
      BY <1>1, RecordMoves
    <2>2. InvalidateProfiles({v})
      BY <1>1 DEF RecordSignal
    <2>3. dirty'[v] = [version |-> dirty[v].version + 1, due |-> FALSE]
      BY <2>2, InvalidateMoves
    <2>4. Raised(v)
      BY <2>3 DEF Raised
    <2>5. ASSUME NEW u \in Users, NEW j \in Kinds, NEW q \in Posts PROVE rows[u][j][q] <= rows'[u][j][q]
      <3>1. rows[u][j][q] \in Nat
        BY <1>t
      <3>2. CASE u = v /\ j = k /\ q = p
        BY <2>1, <3>1, <3>2
      <3>3. CASE ~(u = v /\ j = k /\ q = p)
        <4>1. rows'[u][j][q] = rows[u][j][q]
          BY <2>1, <3>3
        <4> QED
          BY <3>1, <4>1
      <3> QED
        BY <3>2, <3>3
    <2> QED
      BY <2>1, <2>4, <2>5
  <1>2. CASE UNCHANGED rows
    <2>1. \A u \in Users : rows'[u] = rows[u]
      BY <1>2
    <2> QED
      BY <1>t, <2>1
  <1>3. ASSUME NEW w \in Workers, NEW u \in Users, Begin(w, u) PROVE UNCHANGED rows
    BY <1>3 DEF Begin
  <1>4. ASSUME NEW w \in Workers,
               \/ LoadServingVersion(w) \/ LoadSourceSignals(w) \/ LoadPostEmbeddings(w)
               \/ Materialize(w) \/ MaterializeFails(w) \/ RetryClaim(w) \/ WorkerCrash(w)
        PROVE  UNCHANGED rows
    BY <1>4 DEF LoadServingVersion, LoadSourceSignals, LoadPostEmbeddings, Materialize, MaterializeFails, RetryClaim, WorkerCrash
  <1>5. ASSUME NEW u \in Users, Ripen(u) \/ ServeProfile(u) \/ Rebase(u) PROVE UNCHANGED rows
    BY <1>5 DEF Ripen, ServeProfile, Rebase
  <1>6. ASSUME NEW e \in Embedders, SelectUsers(e) \/ CommitEmbedding(e) \/ AbortEmbedding(e) PROVE UNCHANGED rows
    BY <1>6 DEF SelectUsers, CommitEmbedding, AbortEmbedding
  <1>7. ASSUME SetServingVersion PROVE UNCHANGED rows
    BY <1>7 DEF SetServingVersion
  <1> QED
    BY <1>1, <1>2, <1>3, <1>4, <1>5, <1>6, <1>7, Cases

\* The serving version moves forward, in a step of its own.
LEMMA ServingForward ==
  ASSUME Next
  PROVE  \/ serving' = serving
         \/ SetServingVersion /\ serving' = serving + 1
  <1>1. ASSUME NEW w \in Workers, NEW u \in Users, Begin(w, u) PROVE serving' = serving
    BY <1>1 DEF Begin
  <1>2. ASSUME NEW w \in Workers,
               \/ LoadServingVersion(w) \/ LoadSourceSignals(w) \/ LoadPostEmbeddings(w)
               \/ Materialize(w) \/ MaterializeFails(w) \/ RetryClaim(w) \/ WorkerCrash(w)
        PROVE  serving' = serving
    BY <1>2 DEF LoadServingVersion, LoadSourceSignals, LoadPostEmbeddings, Materialize, MaterializeFails, RetryClaim, WorkerCrash
  <1>3. ASSUME NEW u \in Users, NEW k \in Kinds, NEW p \in Posts, RecordSignal(u, k, p) PROVE serving' = serving
    BY <1>3 DEF RecordSignal
  <1>4. ASSUME NEW u \in Users, Ripen(u) \/ ServeProfile(u) \/ Rebase(u) PROVE serving' = serving
    BY <1>4 DEF Ripen, ServeProfile, Rebase
  <1>5. ASSUME NEW e \in Embedders, SelectUsers(e) \/ CommitEmbedding(e) \/ AbortEmbedding(e) PROVE serving' = serving
    BY <1>5 DEF SelectUsers, CommitEmbedding, AbortEmbedding
  <1>6. SetServingVersion => serving' = serving + 1
    BY DEF SetServingVersion
  <1> QED
    BY <1>1, <1>2, <1>3, <1>4, <1>5, <1>6, Cases

\* The vectors of the Posts of a user whose row stays as it is stay as they are.
LEMMA VectorsStay ==
  ASSUME TypeOK, ShapeInv, OpenInv, Next, NEW u \in Users, Quiet(u)
  PROVE  \A p \in Interacted(rows[u]) : embedding'[p][serving] = embedding[p][serving]
  <1>1. CASE UNCHANGED embedding
    BY <1>1
  <1>2. ASSUME NEW e \in Embedders, CommitEmbedding(e), NEW p \in Interacted(rows[u])
        PROVE  embedding'[p][serving] = embedding[p][serving]
    <2>1. p \in Posts /\ serving \in Versions /\ embedder[e].phase = "selected"
      BY <1>2 DEF Interacted, TypeOK, CommitEmbedding
    <2>2. u \notin embedder[e].users
      <3>1. dirty'[u].version = dirty[u].version /\ dirty[u].version \in Nat
        BY DEF Quiet, ShapeInv, QueueRow
      <3>2. u \in embedder[e].users => dirty'[u].version = dirty[u].version + 1
        BY <1>2, CommitMoves
      <3> QED
        BY <3>1, <3>2
    <2>3. CASE embedder[e].version = serving
      <3>1. p \notin embedder[e].posts
        BY <1>2, <2>1, <2>2, <2>3 DEF OpenInv
      <3> QED
        BY <1>2, <2>1, <3>1, VectorMoves
    <2>4. CASE embedder[e].version # serving
      BY <1>2, <2>1, <2>4, VectorMoves
    <2> QED
      BY <2>3, <2>4
  <1>3. ASSUME NEW w \in Workers, NEW x \in Users, Begin(w, x) PROVE UNCHANGED embedding
    BY <1>3 DEF Begin
  <1>4. ASSUME NEW w \in Workers,
               \/ LoadServingVersion(w) \/ LoadSourceSignals(w) \/ LoadPostEmbeddings(w)
               \/ Materialize(w) \/ MaterializeFails(w) \/ RetryClaim(w) \/ WorkerCrash(w)
        PROVE  UNCHANGED embedding
    BY <1>4 DEF LoadServingVersion, LoadSourceSignals, LoadPostEmbeddings, Materialize, MaterializeFails, RetryClaim, WorkerCrash
  <1>5. ASSUME NEW x \in Users, NEW k \in Kinds, NEW p \in Posts, RecordSignal(x, k, p) PROVE UNCHANGED embedding
    BY <1>5 DEF RecordSignal
  <1>6. ASSUME NEW x \in Users, Ripen(x) \/ ServeProfile(x) \/ Rebase(x) PROVE UNCHANGED embedding
    BY <1>6 DEF Ripen, ServeProfile, Rebase
  <1>7. ASSUME NEW e \in Embedders, SelectUsers(e) \/ AbortEmbedding(e) PROVE UNCHANGED embedding
    BY <1>7 DEF SelectUsers, AbortEmbedding
  <1>8. ASSUME SetServingVersion PROVE UNCHANGED embedding
    BY <1>8 DEF SetServingVersion
  <1> QED
    BY <1>1, <1>2, <1>3, <1>4, <1>5, <1>6, <1>7, <1>8, Cases

\* A claim that is current after a step was current before it, and the step
\* left the row alone.
LEMMA CurrentStep ==
  ASSUME TypeOK, ShapeInv, WorkerInv, QueueInv, Next,
         NEW w \in Workers, NEW u \in Users, Current(w, u)',
         Holding(w, u), worker'[w].version = worker[w].version
  PROVE  Current(w, u) /\ Quiet(u)
  <1>1. dirty[u].version >= worker[w].version
    BY DEF QueueInv
  <1>2. worker[w].version \in Nat /\ dirty[u].version \in Nat
    BY DEF ShapeInv, Worker, QueueRow
  <1>3. dirty'[u].version = worker[w].version /\ Holding(w, u)'
    BY DEF Current
  <1>4. ~Raised(u)
    BY <1>1, <1>2, <1>3 DEF Raised
  <1>5. ~Cleared(u)
    <2>1. SUFFICES ASSUME Cleared(u) PROVE FALSE
      OBVIOUS
    <2>2. PICK y \in Workers : Materialize(y) /\ Current(y, u)
      BY <2>1 DEF Cleared
    <2>3. y = w
      BY <2>2 DEF Current, WorkerInv
    <2>4. worker'[w] = IdleWorker
      BY <2>2, <2>3, IdleMoves
    <2> QED
      BY <1>3, <2>4 DEF Holding, IdleWorker
  <1>6. Quiet(u)
    BY <1>4, <1>5, RowStep
  <1>7. dirty[u].version = worker[w].version
    BY <1>3, <1>6 DEF Quiet
  <1> QED
    BY <1>6, <1>7 DEF Current

\* A step changes the record of at most one materializer, the one that takes it.
LEMMA OneWorker ==
  ASSUME TypeOK, ShapeInv, WorkerInv, Next, NEW x \in Workers, worker'[x] # worker[x]
  PROVE  \/ \E u \in Users : Begin(x, u)
         \/ LoadServingVersion(x) \/ LoadSourceSignals(x) \/ LoadPostEmbeddings(x)
         \/ Materialize(x) \/ MaterializeFails(x) \/ RetryClaim(x) \/ WorkerCrash(x)
  <1>s. \A w \in Workers : worker[w].phase \in {"reading", "built"} =>
          worker[w].built.serving \in Versions /\ worker[w].next \in 1..5
    BY DEF TypeOK, WorkerInv, Versions
  <1>o. ASSUME NEW w \in Workers, Others(w) PROVE x = w
    BY <1>o DEF Others
  <1>1. ASSUME NEW w \in Workers, NEW u \in Users, Begin(w, u) PROVE x = w
    BY <1>1, <1>o, BeginMoves
  <1>2. ASSUME NEW w \in Workers, LoadServingVersion(w) PROVE x = w
    BY <1>2, <1>o, ServingMoves
  <1>3. ASSUME NEW w \in Workers, LoadSourceSignals(w) PROVE x = w
    <2>1. worker[w].next \in 1..5
      BY <1>3, <1>s DEF LoadSourceSignals
    <2> QED
      BY <1>3, <1>o, <2>1, SourceMoves
  <1>4. ASSUME NEW w \in Workers, LoadPostEmbeddings(w) PROVE x = w
    <2>1. worker[w].built.serving \in Versions
      BY <1>4, <1>s DEF LoadPostEmbeddings
    <2> QED
      BY <1>4, <1>o, <2>1, EmbeddingMoves
  <1>5. ASSUME NEW w \in Workers, MaterializeFails(w) PROVE x = w
    BY <1>5, <1>o, FailMoves
  <1>6. ASSUME NEW w \in Workers, Materialize(w) \/ RetryClaim(w) \/ WorkerCrash(w) PROVE x = w
    BY <1>6, <1>o, IdleMoves
  <1>8. ASSUME NEW u \in Users, NEW k \in Kinds, NEW p \in Posts, RecordSignal(u, k, p) PROVE FALSE
    BY <1>8 DEF RecordSignal
  <1>9. ASSUME NEW u \in Users, Ripen(u) \/ ServeProfile(u) \/ Rebase(u) PROVE FALSE
    BY <1>9 DEF Ripen, ServeProfile, Rebase
  <1>10. ASSUME NEW e \in Embedders, SelectUsers(e) \/ CommitEmbedding(e) \/ AbortEmbedding(e) PROVE FALSE
    BY <1>10 DEF SelectUsers, CommitEmbedding, AbortEmbedding
  <1>11. ASSUME SetServingVersion PROVE FALSE
    BY <1>11 DEF SetServingVersion
  <1> QED
    BY <1>1, <1>2, <1>3, <1>4, <1>5, <1>6, <1>8, <1>9, <1>10, <1>11, Cases

-----------------------------------------------------------------------------
(* What is read under a current claim is what the tables hold.             *)

LEMMA ReadStep ==
  ASSUME TypeOK, ShapeInv, WorkerInv, QueueInv, ReadInv, OpenInv, Next, NEW w \in Workers, NEW u \in Users, Current(w, u)'
  PROVE  /\ \A i \in 1..4 : i < worker'[w].next => worker'[w].built.rows[Sources[i]] = rows'[u][Sources[i]]
         /\ worker'[w].phase = "built" /\ worker'[w].built.serving = serving' =>
              \A p \in Interacted(rows'[u]) : worker'[w].built.emb[p] = embedding'[p][serving']
  <1>h. Holding(w, u)'
    BY DEF Current
  <1>1. ASSUME NEW v \in Users, Begin(w, v) PROVE worker'[w].next = 0 /\ worker'[w].phase = "claimed"
    <2>1. worker'[w] = [phase |-> "claimed", users |-> {v}, version |-> dirty[v].version,
                        next |-> 0, built |-> NoProfile]
      BY <1>1, BeginMoves
    <2> QED
      BY <2>1
  <1>2. CASE \E v \in Users : Begin(w, v)
    BY <1>1, <1>2
  <1>3. CASE ~\E v \in Users : Begin(w, v)
    <2>1. Holding(w, u) /\ worker'[w].version = worker[w].version
      <3>1. CASE worker'[w] = worker[w]
        BY <1>h, <3>1 DEF Holding
      <3>2. CASE worker'[w] # worker[w]
        <4>1. ASSUME NEW y \in Workers, NEW v \in Users, Begin(y, v) PROVE FALSE
          <5>1. Others(y)
            BY <4>1, BeginMoves
          <5>2. y = w
            BY <3>2, <5>1 DEF Others
          <5> QED
            BY <1>3, <4>1, <5>2
        <4> QED
          BY <1>h, <4>1, HoldStep
      <3> QED
        BY <3>1, <3>2
    <2>2. Current(w, u) /\ Quiet(u)
      BY <2>1, CurrentStep
    <2>3. rows'[u] = rows[u]
      <3>1. ~Raised(u)
        <4>1. dirty[u].version \in Nat
          BY DEF ShapeInv, QueueRow
        <4> QED
          BY <2>2, <4>1 DEF Raised, Quiet
      <3> QED
        BY <3>1, RowsGrow
    <2>4. \A p \in Interacted(rows[u]) : embedding'[p][serving] = embedding[p][serving]
      BY <2>2, VectorsStay
    <2>5. /\ \A i \in 1..4 : i < worker[w].next => worker[w].built.rows[Sources[i]] = rows[u][Sources[i]]
          /\ worker[w].phase = "built" /\ worker[w].built.serving = serving =>
               \A p \in Interacted(rows[u]) : worker[w].built.emb[p] = embedding[p][serving]
      BY <2>2 DEF ReadInv
    <2>6. CASE worker'[w] = worker[w]
      <3>1. worker[w].phase = "built" => worker[w].built.serving # serving + 1
        <4>1. worker[w].phase = "built" => worker[w].built.serving \in 1..serving
          BY DEF WorkerInv
        <4>2. serving \in Nat
          BY DEF TypeOK, Versions
        <4> QED
          BY <4>1, <4>2
      <3>2. ASSUME worker'[w].phase = "built", worker'[w].built.serving = serving', NEW p \in Interacted(rows'[u])
            PROVE  worker'[w].built.emb[p] = embedding'[p][serving']
        <4>1. serving' = serving
          BY <2>6, <3>1, <3>2, ServingForward
        <4>2. p \in Interacted(rows[u])
          BY <2>3, <3>2
        <4> QED
          BY <2>4, <2>5, <2>6, <3>2, <4>1, <4>2
      <3> QED
        BY <2>3, <2>5, <2>6, <3>2
    <2>7. CASE worker'[w] # worker[w]
      <3>1. CASE LoadServingVersion(w)
        <4>1. worker'[w].phase = "reading" /\ worker'[w].next = 1
          BY <3>1, ServingMoves
        <4> QED
          BY <4>1
      <3>2. CASE LoadSourceSignals(w)
        <4>1. worker[w].phase = "reading" /\ worker[w].next \in 1..5
          BY <3>2 DEF LoadSourceSignals, WorkerInv
        <4>2. PICK v \in worker[w].users :
                /\ worker[w].next \in 1..4
                /\ worker'[w].phase = "reading" /\ worker'[w].next = worker[w].next + 1
                /\ worker'[w].built.rows =
                     [worker[w].built.rows EXCEPT ![Sources[worker[w].next]] = rows[v][Sources[worker[w].next]]]
          BY <3>2, <4>1, SourceMoves
        <4>3. v = u
          BY <2>1, <4>1, HeldUser DEF Holding
        <4>4. worker[w].built.rows \in Rows
          BY DEF ShapeInv, Worker, Profile
        <4>5. ASSUME NEW i \in 1..4, i < worker'[w].next
              PROVE  worker'[w].built.rows[Sources[i]] = rows'[u][Sources[i]]
          <5>1. Sources[i] \in Kinds
            BY SourceKinds
          <5>2. CASE Sources[i] = Sources[worker[w].next]
            BY <2>3, <4>2, <4>3, <4>4, <5>1, <5>2 DEF Rows
          <5>3. CASE Sources[i] # Sources[worker[w].next]
            <6>1. worker'[w].built.rows[Sources[i]] = worker[w].built.rows[Sources[i]]
              BY <4>2, <4>4, <5>1, <5>3 DEF Rows
            <6>2. i # worker[w].next
              BY <5>3
            <6>3. i < worker[w].next
              BY <4>2, <4>5, <6>2
            <6> QED
              BY <2>3, <2>5, <6>1, <6>3
          <5> QED
            BY <5>2, <5>3
        <4> QED
          BY <4>2, <4>5
      <3>3. CASE LoadPostEmbeddings(w)
        <4>1. worker[w].phase = "reading" /\ worker[w].built.serving \in 1..serving /\ serving' = serving
          BY <3>3 DEF LoadPostEmbeddings, WorkerInv
        <4>2. worker[w].built.serving \in Versions
          BY <4>1 DEF Versions, TypeOK
        <4>3. /\ worker[w].next = 5 /\ worker'[w].next = 5
              /\ worker'[w].built.serving = worker[w].built.serving
              /\ worker'[w].built.rows = worker[w].built.rows
              /\ \A p \in Interacted(worker[w].built.rows) :
                   worker'[w].built.emb[p] = embedding[p][worker[w].built.serving]
          BY <3>3, <4>2, EmbeddingMoves
        <4>4. \A i \in 1..4 : worker[w].built.rows[Sources[i]] = rows[u][Sources[i]]
          BY <2>5, <4>3
        <4>5. worker[w].built.rows = rows[u]
          <5>1. worker[w].built.rows \in Rows /\ rows[u] \in Rows
            BY DEF ShapeInv, Worker, Profile, TypeOK
          <5>2. \A k \in Kinds : worker[w].built.rows[k] = rows[u][k]
            BY <4>4, SourceKinds
          <5> QED
            BY <5>1, <5>2 DEF Rows
        <4> QED
          BY <2>3, <2>4, <4>1, <4>3, <4>4, <4>5
      <3>4. CASE MaterializeFails(w)
        BY <1>h, <3>4, FailMoves DEF Holding
      <3>5. CASE Materialize(w) \/ RetryClaim(w) \/ WorkerCrash(w)
        <4>1. worker'[w] = IdleWorker
          BY <3>5, IdleMoves
        <4> QED
          BY <1>h, <4>1 DEF Holding, IdleWorker
      <3> QED
        BY <1>3, <2>7, <3>1, <3>2, <3>3, <3>4, <3>5, OneWorker
    <2> QED
      BY <2>6, <2>7
  <1> QED
    BY <1>2, <1>3

\* A claim that is cleared was read in full.
LEMMA BuiltCurrent ==
  ASSUME TypeOK, ShapeInv, WorkerInv, ReadInv, NEW w \in Workers, NEW u \in Users,
         Current(w, u), worker[w].phase = "built"
  PROVE  /\ worker[w].built.rows = rows[u]
         /\ worker[w].built.serving = serving =>
              \A p \in Interacted(rows[u]) : worker[w].built.emb[p] = embedding[p][serving]
  <1>1. worker[w].next = 5
    BY DEF WorkerInv
  <1>2. \A i \in 1..4 : worker[w].built.rows[Sources[i]] = rows[u][Sources[i]]
    BY <1>1 DEF ReadInv
  <1>3. worker[w].built.rows \in Rows /\ rows[u] \in Rows
    BY DEF ShapeInv, Worker, Profile, TypeOK
  <1>4. \A k \in Kinds : worker[w].built.rows[k] = rows[u][k]
    BY <1>2, SourceKinds
  <1>5. worker[w].built.rows = rows[u]
    BY <1>3, <1>4 DEF Rows
  <1> QED
    BY <1>5 DEF ReadInv

-----------------------------------------------------------------------------
(* Open embedding transactions.                                            *)

\* Only SelectUsers opens a transaction.
LEMMA OpenedBySelect ==
  ASSUME ShapeInv, Next, NEW e \in Embedders, embedder'[e].phase = "selected", ~SelectUsers(e)
  PROVE  embedder'[e] = embedder[e]
  <1>1. ASSUME NEW w \in Workers, NEW x \in Users, Begin(w, x) PROVE UNCHANGED embedder
    BY <1>1 DEF Begin
  <1>2. ASSUME NEW w \in Workers,
               \/ LoadServingVersion(w) \/ LoadSourceSignals(w) \/ LoadPostEmbeddings(w)
               \/ Materialize(w) \/ MaterializeFails(w) \/ RetryClaim(w) \/ WorkerCrash(w)
        PROVE  UNCHANGED embedder
    BY <1>2 DEF LoadServingVersion, LoadSourceSignals, LoadPostEmbeddings, Materialize, MaterializeFails, RetryClaim, WorkerCrash
  <1>3. ASSUME NEW x \in Users, NEW k \in Kinds, NEW p \in Posts, RecordSignal(x, k, p) PROVE UNCHANGED embedder
    BY <1>3 DEF RecordSignal
  <1>4. ASSUME NEW x \in Users, Ripen(x) \/ ServeProfile(x) \/ Rebase(x) PROVE UNCHANGED embedder
    BY <1>4 DEF Ripen, ServeProfile, Rebase
  <1>5. ASSUME NEW d \in Embedders, SelectUsers(d) PROVE embedder'[e] = embedder[e]
    BY <1>5, SelectMoves
  <1>6. ASSUME NEW d \in Embedders, CommitEmbedding(d) \/ AbortEmbedding(d) PROVE embedder'[e] = embedder[e]
    BY <1>6, EndMoves
  <1>7. ASSUME SetServingVersion PROVE UNCHANGED embedder
    BY <1>7 DEF SetServingVersion
  <1> QED
    BY <1>1, <1>2, <1>3, <1>4, <1>5, <1>6, <1>7, Cases

LEMMA OpenStep ==
  ASSUME TypeOK, ShapeInv, WorkerInv, QueueInv, OpenInv, Next, NEW e \in Embedders, embedder'[e].phase = "selected"
  PROVE  /\ embedder'[e].version \in Versions
         /\ embedder'[e].version = serving' =>
              \A u \in Users, p \in embedder'[e].posts : p \in Interacted(rows'[u]) => u \in embedder'[e].users
  <1>1. CASE SelectUsers(e)
    <2>1. PICK p \in Posts, v \in Versions :
            /\ embedder'[e].posts = {p} /\ embedder'[e].version = v
            /\ embedder'[e].users = {u \in Users : v = serving /\ p \in Interacted(rows[u])}
      BY <1>1, SelectMoves
    <2>2. UNCHANGED <<rows, serving>>
      BY <1>1 DEF SelectUsers
    <2> QED
      BY <2>1, <2>2
  <1>2. CASE ~SelectUsers(e)
    <2>1. embedder'[e] = embedder[e]
      BY <1>2, OpenedBySelect
    <2>2. serving' = serving
      <3>1. e \in Open
        BY <2>1 DEF Open
      <3> QED
        BY <3>1, ServingForward DEF SetServingVersion
    <2>3. ASSUME embedder[e].version = serving,
                 NEW u \in Users, NEW p \in embedder[e].posts, p \in Interacted(rows'[u])
          PROVE  u \in embedder[e].users
      <3>1. CASE p \in Interacted(rows[u])
        BY <2>1, <2>3, <3>1 DEF OpenInv
      <3>2. CASE p \notin Interacted(rows[u])
        <4>1. rows'[u] # rows[u]
          BY <2>3, <3>2
        <4>2. PICK k \in Kinds, q \in Posts : RecordSignal(u, k, q)
          <5>1. ASSUME NEW w \in Workers, NEW x \in Users, Begin(w, x) PROVE FALSE
            BY <4>1, <5>1 DEF Begin
          <5>2. ASSUME NEW w \in Workers,
                       \/ LoadServingVersion(w) \/ LoadSourceSignals(w) \/ LoadPostEmbeddings(w)
                       \/ Materialize(w) \/ MaterializeFails(w) \/ RetryClaim(w) \/ WorkerCrash(w)
                PROVE  FALSE
            BY <4>1, <5>2 DEF LoadServingVersion, LoadSourceSignals, LoadPostEmbeddings, Materialize, MaterializeFails, RetryClaim, WorkerCrash
          <5>3. ASSUME NEW x \in Users, NEW k \in Kinds, NEW q \in Posts, RecordSignal(x, k, q) PROVE x = u
            BY <4>1, <5>3, RecordMoves
          <5>4. ASSUME NEW x \in Users, Ripen(x) \/ ServeProfile(x) \/ Rebase(x) PROVE FALSE
            BY <4>1, <5>4 DEF Ripen, ServeProfile, Rebase
          <5>5. ASSUME NEW d \in Embedders, SelectUsers(d) \/ CommitEmbedding(d) \/ AbortEmbedding(d) PROVE FALSE
            BY <4>1, <5>5 DEF SelectUsers, CommitEmbedding, AbortEmbedding
          <5>6. ASSUME SetServingVersion PROVE FALSE
            BY <4>1, <5>6 DEF SetServingVersion
          <5> QED
            BY <5>1, <5>2, <5>3, <5>4, <5>5, <5>6, Cases
        <4>3. \A j \in Kinds, o \in Posts : j # k \/ o # q => rows'[u][j][o] = rows[u][j][o]
          BY <4>2, RecordMoves
        <4>4. p \in Posts /\ \A j \in Kinds : rows[u][j][p] \in Nat
          BY <2>3 DEF Interacted, TypeOK, Rows
        <4>5. q = p /\ rows[u][k][p] = 0
          BY <2>3, <3>2, <4>3, <4>4 DEF Interacted
        <4>6. PostLocked(p)
          BY <2>1, <2>3 DEF PostLocked, Open
        <4> QED
          BY <4>2, <4>5, <4>6, RecordMoves
      <3> QED
        BY <3>1, <3>2
    <2> QED
      BY <2>1, <2>2, <2>3 DEF OpenInv
  <1> QED
    BY <1>1, <1>2

-----------------------------------------------------------------------------
(* Profiles.                                                               *)

\* Only Materialize publishes a profile.
LEMMA ProfileMoves ==
  ASSUME Next
  PROVE  UNCHANGED profile \/ \E w \in Workers : Materialize(w)
  <1>1. ASSUME NEW w \in Workers, NEW x \in Users, Begin(w, x) PROVE UNCHANGED profile
    BY <1>1 DEF Begin
  <1>2. ASSUME NEW w \in Workers,
               \/ LoadServingVersion(w) \/ LoadSourceSignals(w) \/ LoadPostEmbeddings(w)
               \/ MaterializeFails(w) \/ RetryClaim(w) \/ WorkerCrash(w)
        PROVE  UNCHANGED profile
    BY <1>2 DEF LoadServingVersion, LoadSourceSignals, LoadPostEmbeddings, MaterializeFails, RetryClaim, WorkerCrash
  <1>3. ASSUME NEW x \in Users, NEW k \in Kinds, NEW p \in Posts, RecordSignal(x, k, p) PROVE UNCHANGED profile
    BY <1>3 DEF RecordSignal
  <1>4. ASSUME NEW x \in Users, Ripen(x) \/ ServeProfile(x) \/ Rebase(x) PROVE UNCHANGED profile
    BY <1>4 DEF Ripen, ServeProfile, Rebase
  <1>5. ASSUME NEW e \in Embedders, SelectUsers(e) \/ CommitEmbedding(e) \/ AbortEmbedding(e) PROVE UNCHANGED profile
    BY <1>5 DEF SelectUsers, CommitEmbedding, AbortEmbedding
  <1>6. ASSUME SetServingVersion PROVE UNCHANGED profile
    BY <1>6 DEF SetServingVersion
  <1> QED
    BY <1>1, <1>2, <1>3, <1>4, <1>5, <1>6, Cases

\* What a materializer publishes lies between the profile it replaces and the
\* tables.
LEMMA PublishBetween ==
  ASSUME TypeOK, ShapeInv, WorkerInv, ForwardInv, NEW w \in Workers, NEW u \in Users,
         worker[w].phase = "built", worker[w].users = {u}
  PROVE  /\ worker[w].built.serving <= serving
         /\ \A k \in Kinds, p \in Posts : /\ worker[w].built.rows[k][p] <= rows[u][k][p]
                                          /\ profile[u].rows[k][p] <= worker[w].built.rows[k][p]
  <1>1. worker[w].next = 5 /\ worker[w].built.serving \in 1..serving
    BY DEF WorkerInv
  <1>2. Holding(w, u)
    BY DEF Holding
  <1>3. \A i \in 1..4, p \in Posts :
          /\ worker[w].built.rows[Sources[i]][p] <= rows[u][Sources[i]][p]
          /\ profile[u].rows[Sources[i]][p] <= worker[w].built.rows[Sources[i]][p]
    BY <1>1, <1>2 DEF ForwardInv
  <1> QED
    BY <1>1, <1>3, SourceKinds

LEMMA ForwardStep ==
  ASSUME TypeOK, ShapeInv, WorkerInv, QueueInv, ForwardInv, Next, DataOK', ShapeInv', WorkerInv'
  PROVE  ForwardInv'
  <1>t. /\ serving \in Nat /\ serving' \in Nat
        /\ \A u \in Users : profile[u].serving \in Nat /\ profile'[u].serving \in Nat
    BY DEF TypeOK, DataOK, Versions, Profile
  <1>r. \A u \in Users, k \in Kinds, p \in Posts :
          rows[u][k][p] \in Nat /\ rows'[u][k][p] \in Nat /\ profile[u].rows[k][p] \in Nat /\ profile'[u].rows[k][p] \in Nat
    BY DEF TypeOK, DataOK, Rows, Profile
  <1>b. \A w \in Workers, k \in Kinds, p \in Posts :
          worker[w].built.rows[k][p] \in Nat /\ worker'[w].built.rows[k][p] \in Nat
    <2>1. \A w \in Workers : worker[w].built.rows \in Rows /\ worker'[w].built.rows \in Rows
      BY DEF ShapeInv, Worker, Profile
    <2> QED
      BY <2>1 DEF Rows
  <1>g. \A u \in Users, k \in Kinds, p \in Posts : rows[u][k][p] <= rows'[u][k][p]
    BY RowsGrow
  <1>s. serving <= serving'
    BY <1>t, ServingForward
  <1>1. ASSUME NEW u \in Users
        PROVE  /\ profile'[u].serving <= serving'
               /\ \A k \in Kinds, p \in Posts : profile'[u].rows[k][p] <= rows'[u][k][p]
    <2>0. /\ profile[u].serving <= serving
          /\ \A k \in Kinds, p \in Posts : profile[u].rows[k][p] <= rows[u][k][p]
      BY DEF ForwardInv
    <2>1. CASE profile'[u] = profile[u]
      <3>1. profile'[u].serving <= serving'
        BY <1>s, <1>t, <2>0, <2>1
      <3>2. ASSUME NEW k \in Kinds, NEW p \in Posts PROVE profile'[u].rows[k][p] <= rows'[u][k][p]
        <4>1. profile[u].rows[k][p] <= rows[u][k][p] /\ rows[u][k][p] <= rows'[u][k][p]
          BY <1>g, <2>0
        <4> QED
          BY <1>r, <2>1, <4>1
      <3> QED
        BY <3>1, <3>2
    <2>2. CASE profile'[u] # profile[u]
      <3>1. PICK w \in Workers : Materialize(w)
        BY <2>2, ProfileMoves
      <3>2. worker[w].phase = "built" /\ worker[w].users = {u} /\ profile'[u] = worker[w].built
        BY <2>2, <3>1, PublishMoves
      <3>3. UNCHANGED <<rows, serving>>
        BY <3>1 DEF Materialize
      <3> QED
        BY <3>2, <3>3, PublishBetween
    <2> QED
      BY <2>1, <2>2
  <1>2. ASSUME NEW w \in Workers, NEW u \in Users, Holding(w, u)', NEW i \in 1..4, NEW p \in Posts, i < worker'[w].next
        PROVE  /\ worker'[w].built.rows[Sources[i]][p] <= rows'[u][Sources[i]][p]
               /\ profile'[u].rows[Sources[i]][p] <= worker'[w].built.rows[Sources[i]][p]
    <2>k. Sources[i] \in Kinds
      BY SourceKinds
    <2>1. CASE worker'[w] = worker[w]
      <3>1. Holding(w, u)
        BY <1>2, <2>1 DEF Holding
      <3>2. /\ worker[w].built.rows[Sources[i]][p] <= rows[u][Sources[i]][p]
            /\ profile[u].rows[Sources[i]][p] <= worker[w].built.rows[Sources[i]][p]
        BY <1>2, <2>1, <3>1 DEF ForwardInv
      <3>3. profile'[u] = profile[u]
        <4>1. SUFFICES ASSUME profile'[u] # profile[u] PROVE FALSE
          OBVIOUS
        <4>2. PICK y \in Workers : Materialize(y)
          BY <4>1, ProfileMoves
        <4>3. worker[y].phase = "built" /\ worker[y].users = {u}
          BY <4>1, <4>2, PublishMoves
        <4>4. y = w
          BY <3>1, <4>3 DEF Holding, WorkerInv
        <4>5. worker'[w] = IdleWorker
          BY <4>2, <4>4, IdleMoves
        <4> QED
          BY <1>2, <4>5 DEF Holding, IdleWorker
      <3>4. rows[u][Sources[i]][p] <= rows'[u][Sources[i]][p]
        BY <1>g, <2>k
      <3>5. worker[w].built.rows[Sources[i]][p] \in Nat /\ rows[u][Sources[i]][p] \in Nat /\ rows'[u][Sources[i]][p] \in Nat
        BY <1>b, <1>r, <2>k
      <3>6. worker[w].built.rows[Sources[i]][p] <= rows'[u][Sources[i]][p]
        BY <3>2, <3>4, <3>5
      <3> QED
        BY <2>1, <3>2, <3>3, <3>6
    <2>2. CASE worker'[w] # worker[w]
      <3>1. ASSUME NEW v \in Users, Begin(w, v) PROVE FALSE
        <4>1. worker'[w] = [phase |-> "claimed", users |-> {v}, version |-> dirty[v].version,
                            next |-> 0, built |-> NoProfile]
          BY <3>1, BeginMoves
        <4> QED
          BY <1>2, <4>1
      <3>2. ASSUME LoadServingVersion(w) PROVE FALSE
        BY <1>2, <3>2, ServingMoves
      <3>3. CASE LoadSourceSignals(w)
        <4>1. worker[w].phase = "reading" /\ worker[w].next \in 1..5 /\ UNCHANGED <<rows, profile>>
          BY <3>3 DEF LoadSourceSignals, WorkerInv
        <4>2. PICK v \in worker[w].users :
                /\ worker[w].next \in 1..4
                /\ worker'[w].phase = "reading" /\ worker'[w].next = worker[w].next + 1
                /\ worker'[w].users = worker[w].users
                /\ worker'[w].built.rows =
                     [worker[w].built.rows EXCEPT ![Sources[worker[w].next]] = rows[v][Sources[worker[w].next]]]
          BY <3>3, <4>1, SourceMoves
        <4>h. Holding(w, u)
          BY <1>2, <4>1, <4>2 DEF Holding
        <4>3. v = u
          BY <4>1, <4>h, HeldUser DEF Holding
        <4>4. worker[w].built.rows \in Rows
          BY DEF ShapeInv, Worker, Profile
        <4>5. CASE Sources[i] = Sources[worker[w].next]
          <5>1. worker'[w].built.rows[Sources[i]] = rows[u][Sources[i]]
            BY <2>k, <4>2, <4>3, <4>4, <4>5 DEF Rows
          <5>2. profile[u].rows[Sources[i]][p] <= rows[u][Sources[i]][p] /\ rows[u][Sources[i]][p] \in Nat
            BY <1>r, <2>k DEF ForwardInv
          <5> QED
            BY <4>1, <5>1, <5>2
        <4>6. CASE Sources[i] # Sources[worker[w].next]
          <5>1. worker'[w].built.rows[Sources[i]] = worker[w].built.rows[Sources[i]]
            BY <2>k, <4>2, <4>4, <4>6 DEF Rows
          <5>2. i # worker[w].next
            BY <4>6
          <5>3. i < worker[w].next
            BY <1>2, <4>2, <5>2
          <5>4. /\ worker[w].built.rows[Sources[i]][p] <= rows[u][Sources[i]][p]
                /\ profile[u].rows[Sources[i]][p] <= worker[w].built.rows[Sources[i]][p]
            BY <4>h, <5>3 DEF ForwardInv
          <5> QED
            BY <4>1, <5>1, <5>4
        <4> QED
          BY <4>5, <4>6
      <3>4. CASE LoadPostEmbeddings(w)
        <4>1. worker[w].phase = "reading" /\ worker[w].built.serving \in 1..serving /\ UNCHANGED <<rows, profile>>
          BY <3>4 DEF LoadPostEmbeddings, WorkerInv
        <4>2. worker[w].built.serving \in Versions
          BY <4>1 DEF Versions, TypeOK
        <4>3. /\ worker[w].next = 5 /\ worker'[w].users = worker[w].users
              /\ worker'[w].built.rows = worker[w].built.rows
          BY <3>4, <4>2, EmbeddingMoves
        <4>4. Holding(w, u)
          BY <1>2, <4>1, <4>3 DEF Holding
        <4>5. /\ worker[w].built.rows[Sources[i]][p] <= rows[u][Sources[i]][p]
              /\ profile[u].rows[Sources[i]][p] <= worker[w].built.rows[Sources[i]][p]
          BY <4>3, <4>4 DEF ForwardInv
        <4> QED
          BY <4>1, <4>3, <4>5
      <3>5. ASSUME MaterializeFails(w) PROVE FALSE
        BY <1>2, <3>5, FailMoves DEF Holding
      <3>6. ASSUME Materialize(w) \/ RetryClaim(w) \/ WorkerCrash(w) PROVE FALSE
        <4>1. worker'[w] = IdleWorker
          BY <3>6, IdleMoves
        <4> QED
          BY <1>2, <4>1 DEF Holding, IdleWorker
      <3> QED
        BY <2>2, <3>1, <3>2, <3>3, <3>4, <3>5, <3>6, OneWorker
    <2> QED
      BY <2>1, <2>2
  <1> QED
    BY <1>1, <1>2 DEF ForwardInv

\* A profile that is behind has a queue row.
LEMMA StaleStep ==
  ASSUME TypeOK, ShapeInv, WorkerInv, QueueInv, ReadInv, OpenInv, ForwardInv, StaleQueued, Next,
         NEW u \in Users, dirty'[u] = NoRow
  PROVE  /\ profile'[u].rows = rows'[u]
         /\ profile'[u].serving = serving' =>
              \A p \in Interacted(rows'[u]) : profile'[u].emb[p] = embedding'[p][serving']
  <1>n. NoRow.version = 0
    BY DEF NoRow
  <1>v. dirty[u].version \in Nat /\ dirty'[u].version = 0
    BY <1>n DEF ShapeInv, QueueRow
  <1>1. CASE Cleared(u)
    <2>1. PICK w \in Workers : /\ Materialize(w) /\ Current(w, u)
                               /\ worker[w].phase = "built" /\ worker[w].users = {u}
      BY <1>1 DEF Cleared
    <2>2. profile'[u] = worker[w].built
      BY <2>1, PublishMoves
    <2>3. UNCHANGED <<rows, embedding, serving>>
      BY <2>1 DEF Materialize
    <2>4. /\ worker[w].built.rows = rows[u]
          /\ worker[w].built.serving = serving =>
               \A p \in Interacted(rows[u]) : worker[w].built.emb[p] = embedding[p][serving]
      BY <2>1, BuiltCurrent
    <2> QED
      BY <2>2, <2>3, <2>4
  <1>2. CASE Quiet(u)
    <2>1. dirty[u].version = 0 /\ dirty[u] = NoRow
      BY <1>2, <1>v DEF Quiet, QueueInv
    <2>3. ~Raised(u)
      BY <1>v, <2>1 DEF Raised
    <2>4. rows'[u] = rows[u]
      BY <2>3, RowsGrow
    <2>5. profile'[u] = profile[u]
      <3>1. SUFFICES ASSUME profile'[u] # profile[u] PROVE FALSE
        OBVIOUS
      <3>2. PICK w \in Workers : Materialize(w)
        BY <3>1, ProfileMoves
      <3>3. worker[w].phase = "built" /\ worker[w].users = {u}
        BY <3>1, <3>2, PublishMoves
      <3>4. Holding(w, u) /\ worker[w].version > 0 /\ worker[w].version \in Nat
        BY <3>3 DEF Holding, WorkerInv, ShapeInv, Worker
      <3>5. dirty[u].version >= worker[w].version
        BY <3>4 DEF QueueInv
      <3> QED
        BY <2>1, <3>4, <3>5
    <2>6. ~Stale(u)
      BY <2>1 DEF StaleQueued
    <2>7. \A p \in Interacted(rows[u]) : embedding'[p][serving] = embedding[p][serving]
      BY <1>2, VectorsStay
    <2>8. profile[u].serving = serving' => serving' = serving
      <3>1. profile[u].serving <= serving /\ profile[u].serving \in Nat /\ serving \in Nat
        <4>1. profile[u].serving <= serving
          BY DEF ForwardInv
        <4>2. serving \in Nat
          BY DEF TypeOK, Versions
        <4>3. profile[u].serving \in Nat
          BY DEF TypeOK, Profile, Versions
        <4> QED
          BY <4>1, <4>2, <4>3
      <3> QED
        BY <3>1, ServingForward
    <2> QED
      BY <2>4, <2>5, <2>6, <2>7, <2>8 DEF Stale
  <1>3. ~Raised(u)
    BY <1>v DEF Raised
  <1> QED
    BY <1>1, <1>2, <1>3, RowStep

-----------------------------------------------------------------------------
(* The theorems.                                                           *)

\* TypeOK is made of the data, the shapes and the one user of each worker.
LEMMA TypeFrom == DataOK /\ ShapeInv /\ WorkerInv => TypeOK
  <1> SUFFICES ASSUME DataOK, ShapeInv, WorkerInv PROVE TypeOK
    OBVIOUS
  <1>1. \A u \in Users : dirty[u].version \in Nat /\ dirty[u].due \in BOOLEAN
    BY DEF ShapeInv, QueueRow
  <1>2. ASSUME NEW w \in Workers
        PROVE  /\ worker[w].phase \in {"idle", "claimed", "reading", "built", "retry"}
               /\ worker[w].users \subseteq Users
               /\ worker[w].phase # "idle" => worker[w].version > 0 /\ Cardinality(worker[w].users) = 1
    <2>1. worker[w].phase \in {"idle", "claimed", "reading", "built", "retry"} /\ worker[w].users \subseteq Users
      BY DEF ShapeInv, Worker
    <2>2. ASSUME worker[w].phase # "idle" PROVE worker[w].version > 0 /\ Cardinality(worker[w].users) = 1
      <3>1. PICK u \in Users : worker[w].users = {u}
        BY <2>2 DEF WorkerInv
      <3>2. Cardinality({u}) = 1
        BY FS_Singleton
      <3> QED
        BY <2>2, <3>1, <3>2 DEF WorkerInv
    <2> QED
      BY <2>1, <2>2
  <1>3. \A e \in Embedders : /\ embedder[e].phase \in {"idle", "selected"}
                             /\ embedder[e].posts \subseteq Posts /\ embedder[e].users \subseteq Users
    BY DEF ShapeInv, Embedder
  <1> QED
    BY <1>1, <1>2, <1>3 DEF TypeOK, DataOK, Profile

LEMMA InitInv ==
  ASSUME Init
  PROVE  IInv
  <1>w. \A w \in Workers : worker[w] = IdleWorker /\ worker[w].phase = "idle"
    BY DEF Init, IdleWorker
  <1>d. \A u \in Users : dirty[u] = NoRow /\ dirty[u].version = 0 /\ dirty[u].due = FALSE
    BY DEF Init, NoRow
  <1>e. \A e \in Embedders : embedder[e] = IdleEmbedder /\ embedder[e].phase = "idle"
    BY DEF Init, IdleEmbedder
  <1>p. \A u \in Users : /\ profile[u] = NoProfile /\ profile[u].rows = NoRows /\ profile[u].serving = 0
                         /\ rows[u] = NoRows
    BY DEF Init, NoProfile
  <1>1. DataOK
    <2>1. profile \in [Users -> Profile] /\ rows \in [Users -> Rows]
      BY NoProfileType DEF Init
    <2>2. embedding \in [Posts -> [Versions -> Nat]] /\ serving \in Versions /\ faults \in 0..MaxFaults
      BY DEF Init, Versions
    <2> QED
      BY <2>1, <2>2 DEF DataOK
  <1>2. ShapeInv
    <2>1. NoRow \in QueueRow
      BY DEF NoRow, QueueRow
    <2>2. IdleWorker \in Worker
      BY NoProfileType DEF IdleWorker, Worker
    <2>3. IdleEmbedder \in Embedder
      BY DEF IdleEmbedder, Embedder
    <2> QED
      BY <2>1, <2>2, <2>3 DEF Init, ShapeInv
  <1>3. WorkerInv
    BY <1>w DEF WorkerInv, Holding
  <1>4. TypeOK
    BY <1>1, <1>2, <1>3, TypeFrom
  <1>5. QueueInv
    BY <1>w, <1>d DEF QueueInv, Holding
  <1>6. ReadInv
    BY <1>w DEF ReadInv, Current, Holding
  <1>7. OpenInv
    BY <1>e DEF OpenInv
  <1>8. ForwardInv
    <2>1. \A k \in Kinds, p \in Posts : NoRows[k][p] = 0
      BY DEF NoRows
    <2>2. \A u \in Users, k \in Kinds, p \in Posts : profile[u].rows[k][p] <= rows[u][k][p]
      BY <1>p, <2>1
    <2>3. \A u \in Users : profile[u].serving <= serving
      BY <1>p DEF Init
    <2> QED
      BY <1>w, <2>2, <2>3 DEF ForwardInv, Holding
  <1>9. StaleQueued
    <2>1. Interacted(NoRows) = {}
      BY DEF Interacted, NoRows
    <2> QED
      BY <1>p, <2>1 DEF StaleQueued, Stale
  <1> QED
    BY <1>2, <1>3, <1>4, <1>5, <1>6, <1>7, <1>8, <1>9 DEF IInv

LEMMA NextInv ==
  ASSUME IInv, [Next]_vars
  PROVE  IInv'
  <1>1. CASE UNCHANGED vars
    <2>1. UNCHANGED <<rows, embedding, serving, dirty>> /\ UNCHANGED <<profile, worker, embedder, faults>>
      BY <1>1 DEF vars
    <2>2. TypeOK' /\ ShapeInv'
      BY <2>1 DEF IInv, TypeOK, ShapeInv
    <2>3. WorkerInv' /\ QueueInv'
      BY <2>1 DEF IInv, WorkerInv, QueueInv, Holding
    <2>4. ReadInv'
      BY <2>1 DEF IInv, ReadInv, Current, Holding
    <2>5. OpenInv' /\ StaleQueued'
      BY <2>1 DEF IInv, OpenInv, StaleQueued, Stale
    <2>6. ForwardInv'
      BY <2>1 DEF IInv, ForwardInv, Holding
    <2> QED
      BY <2>2, <2>3, <2>4, <2>5, <2>6 DEF IInv
  <1>2. CASE Next
    <2>0. TypeOK /\ ShapeInv /\ WorkerInv /\ QueueInv /\ ReadInv /\ OpenInv /\ ForwardInv /\ StaleQueued
      BY DEF IInv
    <2>1. DataOK' /\ ShapeInv'
      BY <1>2, <2>0, DataStep, ShapeStep
    <2>2. WorkerInv' /\ QueueInv'
      BY <1>2, <2>0, <2>1, WorkerStep, QueueStep
    <2>3. TypeOK'
      BY <2>1, <2>2, TypeFrom, PTL
    <2>4. ReadInv'
      BY <1>2, <2>0, ReadStep DEF ReadInv
    <2>5. OpenInv'
      BY <1>2, <2>0, OpenStep DEF OpenInv
    <2>6. ForwardInv'
      BY <1>2, <2>0, <2>1, <2>2, ForwardStep
    <2>7. StaleQueued'
      BY <1>2, <2>0, StaleStep DEF StaleQueued, Stale
    <2> QED
      BY <2>1, <2>2, <2>3, <2>4, <2>5, <2>6, <2>7 DEF IInv
  <1> QED
    BY <1>1, <1>2

\* The inductive invariant holds in every reachable state.
THEOREM Invariant == Spec => []IInv
  <1>1. Init => IInv
    BY InitInv
  <1>2. IInv /\ [Next]_vars => IInv'
    BY NextInv
  <1> QED
    BY <1>1, <1>2, PTL DEF Spec

\* However materializers, signal writers, embedding transactions, failures and
\* switches of the serving version interleave, a profile that misses a signal or
\* a vector of its version has a queue row: DeleteClaim never clears the
\* invalidation of something LoadSourceSignals and LoadPostEmbeddings did not read.
THEOREM InvalidationsKept == Spec => []NoLostInvalidation
  <1>1. IInv => NoLostInvalidation
    BY DEF IInv, StaleQueued, NoLostInvalidation
  <1> QED
    BY <1>1, Invariant, PTL

\* A rebuild never replaces a profile by one built from fewer signals, whatever
\* other materializers, retries and crashes do: the advisory lock is enough.
THEOREM ProfilesForward == Spec => ProfilesMoveForward
  <1>1. ASSUME IInv, [Next]_vars, NEW u \in Users, NEW k \in Kinds, NEW p \in Posts
        PROVE  profile'[u].rows[k][p] >= profile[u].rows[k][p]
    <2>0. TypeOK /\ ShapeInv /\ WorkerInv /\ ForwardInv
      BY <1>1 DEF IInv
    <2>t. profile[u].rows[k][p] \in Nat
      BY <2>0 DEF TypeOK, Rows
    <2>1. CASE profile'[u] = profile[u]
      BY <2>1, <2>t
    <2>2. CASE profile'[u] # profile[u]
      <3>1. PICK w \in Workers : Materialize(w)
        BY <1>1, <2>2, ProfileMoves DEF vars
      <3>2. worker[w].phase = "built" /\ worker[w].users = {u} /\ profile'[u] = worker[w].built
        BY <2>0, <2>2, <3>1, PublishMoves
      <3>3. profile[u].rows[k][p] <= worker[w].built.rows[k][p]
        BY <2>0, <3>2, PublishBetween
      <3>4. worker[w].built.rows[k][p] \in Nat
        BY <2>0 DEF ShapeInv, Worker, Profile, Rows
      <3> QED
        BY <2>t, <3>2, <3>3, <3>4
    <2> QED
      BY <2>1, <2>2
  <1>2. IInv /\ [Next]_vars =>
          [\A u \in Users, k \in Kinds, p \in Posts : profile'[u].rows[k][p] >= profile[u].rows[k][p]]_vars
    BY <1>1
  <1> QED
    BY <1>2, Invariant, PTL DEF Spec, ProfilesMoveForward

=============================================================================

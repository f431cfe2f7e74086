----------------------- MODULE DeadLetterReplay_proofs -----------------------
(***************************************************************************)
(* Proofs about DeadLetterReplay and the consumers it extends, for any     *)
(* events, keys, parents and members, and any batch size and bounds.       *)
(***************************************************************************)
EXTENDS DeadLetterReplay, FiniteSetTheorems, SequenceTheorems, WellFoundedInduction, TLAPS

-----------------------------------------------------------------------------
(* Induction over finite sets and numbers: a set of counterexamples   *)
(* would have a least element.                                             *)

IsLeast(x, T) == x \in T /\ \A y \in T : y \subseteq x => y = x

\* A non-empty family of finite sets has a member that contains no other.
LEMMA LeastSet ==
  ASSUME NEW S, NEW T, T \subseteq FiniteSubsetsOf(S), T # {}
  PROVE  \E x : IsLeast(x, T)
<1> DEFINE R == StrictSubsetOrdering(S)
<1>1. IsWellFoundedOn(R, FiniteSubsetsOf(S))
  BY FS_StrictSubsetOrderingWellFounded
<1>2. \E x \in T : \A y \in T : ~(<<y, x>> \in R)
  <2> HIDE DEF R
  <2> QED
    BY <1>1, WFMin
<1>3. T \subseteq SUBSET S
  BY DEF FiniteSubsetsOf
<1> QED
  BY <1>2, <1>3 DEF StrictSubsetOrdering, IsLeast

\* A non-empty set of naturals has a least element.
LEMMA LeastNumber ==
  ASSUME NEW T, T \subseteq Nat, T # {}
  PROVE  \E x \in T : \A y \in T : x <= y
<1> DEFINE F == {0..n : n \in T}
<1>1. F # {}
  OBVIOUS
<1>2. F \subseteq FiniteSubsetsOf(Nat)
  <2>1. \A n \in T : 0..n \subseteq Nat /\ IsFiniteSet(0..n)
    BY FS_Interval
  <2> QED
    BY <2>1 DEF FiniteSubsetsOf
<1>3. PICK U \in F : \A V \in F : V \subseteq U => V = U
  <2>1. \E U : IsLeast(U, F)
    <3> HIDE DEF F
    <3> QED
      BY <1>1, <1>2, LeastSet
  <2> QED
    BY <2>1 DEF IsLeast
<1>4. PICK x \in T : U = 0..x
  OBVIOUS
<1>5. ASSUME NEW y \in T, y < x PROVE FALSE
  <2>1. 0..y \in F /\ 0..y \subseteq U
    BY <1>4, <1>5
  <2>2. 0..y = 0..x
    BY <1>3, <1>4, <2>1
  <2>3. x \in 0..x /\ x \notin 0..y
    BY <1>5
  <2> QED
    BY <2>2, <2>3
<1> QED
  BY <1>5

\* What Min and Max of the community modules return.
LEMMA MinIs ==
  ASSUME NEW S, S \subseteq Nat, S # {}
  PROVE  Min(S) \in S
BY LeastNumber DEF Min

\* What holds of no element and of one more than any set it holds of, holds of a finite set.
LEMMA FiniteInduction ==
  ASSUME NEW S, IsFiniteSet(S), NEW F, {} \in F,
         \A U \in F : \A x \in S : U \cup {x} \in F
  PROVE  S \in F
<1> DEFINE T == {S \ U : U \in F \cap SUBSET S}
<1>1. T \subseteq FiniteSubsetsOf(S)
  <2>1. \A U \in F \cap SUBSET S : S \ U \subseteq S /\ IsFiniteSet(S \ U)
    BY FS_Subset
  <2> QED
    BY <2>1 DEF FiniteSubsetsOf
<1>3. S \ {} \in T
  OBVIOUS
<1>4. PICK x \in T : \A y \in T : y \subseteq x => y = x
  <2>1. \E x : IsLeast(x, T)
    <3>1. T # {}
      BY <1>3
    <3> HIDE DEF T
    <3> QED
      BY <1>1, <3>1, LeastSet
  <2> QED
    BY <2>1 DEF IsLeast
<1>5. PICK U \in F \cap SUBSET S : x = S \ U
  OBVIOUS
<1>6. CASE x = {}
  <2>1. U = S
    BY <1>5, <1>6
  <2> QED
    BY <2>1
<1>7. CASE x # {}
  <2>1. PICK e \in x : TRUE
    BY <1>7
  <2>2. U \cup {e} \in F \cap SUBSET S
    BY <1>5, <2>1
  <2>3. S \ (U \cup {e}) \in T
    BY <2>2
  <2>4. S \ (U \cup {e}) \subseteq x /\ e \notin S \ (U \cup {e})
    BY <1>5
  <2>5. S \ (U \cup {e}) = x
    BY <1>4, <2>3, <2>4
  <2> QED
    BY <2>1, <2>4, <2>5
<1> QED
  BY <1>6, <1>7

\* A finite set of naturals that is not empty has a greatest element.
LEMMA Greatest ==
  ASSUME NEW S, S \subseteq Nat, S # {}, IsFiniteSet(S)
  PROVE  \E x \in S : \A y \in S : y <= x
<1> DEFINE F == {U \in SUBSET S : U = {} \/ \E x \in U : \A y \in U : y <= x}
<1>1. {} \in F
  OBVIOUS
<1>2. ASSUME NEW U \in F, NEW e \in S PROVE U \cup {e} \in F
  <2>1. CASE U = {}
    BY <2>1
  <2>2. CASE U # {}
    <3>1. PICK x \in U : \A y \in U : y <= x
      BY <2>2
    <3>2. CASE x <= e
      <4>1. \A y \in U \cup {e} : y <= e
        BY <3>1, <3>2
      <4> QED
        BY <4>1
    <3>3. CASE ~(x <= e)
      <4>1. \A y \in U \cup {e} : y <= x
        BY <3>1, <3>3
      <4> QED
        BY <4>1
    <3> QED
      BY <3>2, <3>3
  <2> QED
    BY <2>1, <2>2
<1>3. S \in F
  <2> HIDE DEF F
  <2> QED
    BY <1>1, <1>2, FiniteInduction
<1> QED
  BY <1>3

LEMMA MaxIs ==
  ASSUME NEW S, S \subseteq Nat, S # {}, IsFiniteSet(S)
  PROVE  Max(S) \in S /\ \A y \in S : y <= Max(S)
<1>1. \E x \in S : \A y \in S : x >= y
  BY Greatest
<1> QED
  BY <1>1 DEF Max

-----------------------------------------------------------------------------
(* The invariants the proofs rest on.                                      *)

USE ConsumersAssumption, BoundsAssumption, ReplayAssumption

Phases   == {"idle", "classify", "apply", "tx", "lookup", "commit"}
Applying == {"apply", "tx", "lookup"}

ReaderRec == [phase : Phases, next : Nat, batch : SUBSET Nat, bad : SUBSET Nat, todo : Seq(SUBSET Nat),
              terminal : SUBSET Nat, attempts : 0..MaxAttempts, again : BOOLEAN, seen : SUBSET Parents]
Letter    == [pos : Nat, event : Events, code : Codes]

\* The topics, the group and the members; a dead letter is the record at its place.
TopicInv ==
  /\ pipeline \in Pipelines /\ log \in Seq(Events) /\ offset \in 0..Len(log)
  /\ owner \in Consumers /\ cons \in [Consumers -> ReaderRec] /\ parents \subseteq Parents
  /\ dlq \in Seq(Letter)
  /\ \A d \in 1..Len(dlq) : dlq[d].pos \in 1..Len(log) /\ log[dlq[d].pos] = dlq[d].event

\* A record that is in the dead-letter topic, and one that nobody needs to see again.
DeadLettered(i) == \E d \in 1..Len(dlq) : dlq[d].event = log[i] /\ (Decodes(log[i]) \/ dlq[d].pos = i)
Applied(i) == Decodes(log[i]) /\ log[i].id \in inbox
Dead    == {i \in 1..Len(log) : DeadLettered(i)}
Handled == {i \in 1..Len(log) : Applied(i) \/ DeadLettered(i)}

\* What a reader x has in hand, when the records in D are in the dead-letter topic, those
\* in H are handled and the rows in P exist.  A batch is a stretch of the topic.
Stretch(x) == \E m \in Nat : x.next < m /\ m <= Len(log) /\ x.batch = x.next + 1 .. m
BatchOK(x) == IF x.phase = "idle" THEN x.batch = {} /\ x.todo = <<>> ELSE Stretch(x)

\* What could not be decoded is still to be quarantined or was.
BadOK(x, D) ==
  /\ x.bad \subseteq x.batch \ Decoded(x.batch)
  /\ x.phase = "classify" <=> x.bad # {}
  /\ \A i \in x.batch \ Decoded(x.batch) : i \in x.bad \/ i \in D

\* The parts still to apply are decoded records; the terminal ones are dead letters.
TodoOK(x, D) ==
  /\ x.phase \in Applying <=> x.todo # <<>>
  /\ \A k \in 1..Len(x.todo) : x.todo[k] \subseteq Records(x.batch)
  /\ x.terminal \subseteq Records(x.batch) \cap D

\* A record that is in none of the parts is handled.
CoverOK(x, H) ==
  x.phase \in Applying \cup {"commit"} =>
    \A i \in Records(x.batch) : i \in H \/ \E k \in 1..Len(x.todo) : i \in x.todo[k]

\* Rows only disappear: a transaction saw those that are left, and the record that is
\* looked up has lost its row for good.
LoneOK(x, P) ==
  /\ x.phase = "tx" => P \subseteq x.seen
  /\ x.phase = "lookup" => \E i : x.todo[1] = {i} /\ log[i].parent \notin P

ReaderOK(x, D, H, P) == BatchOK(x) /\ BadOK(x, D) /\ TodoOK(x, D) /\ CoverOK(x, H) /\ LoneOK(x, P)
ReadersInv == \A c \in Consumers : ReaderOK(cons[c], Dead, Handled, parents)

\* The owner reads on from the committed offset.
OwnerInv == cons[owner].next = offset

\* The command works through records of its plan; the row it has started is not sent yet
\* before the publish, and sent after it.
ToolRec  == [phase : {"idle", "confirmed", "next", "publish", "complete"}, code : Codes \cup {"none"},
             plan : SUBSET Nat, queue : SUBSET Nat]
AuditRow == [rec : Nat, status : {"started", "unknown", "succeeded"}]

ToolInv ==
  /\ tool \in ToolRec /\ audit \in Seq(AuditRow)
  /\ tool.plan \subseteq 1..Len(dlq) /\ tool.queue \subseteq tool.plan
  /\ \A a \in 1..Len(audit) : audit[a].rec \in 1..Len(dlq)
  /\ sent \subseteq (1..Len(audit)) \X (1..Len(log))
  /\ tool.phase \in {"publish", "complete"} => tool.queue # {} /\ audit # <<>> /\ audit[Len(audit)].rec = Current
  /\ tool.phase = "publish" => \A s \in sent : s[1] # Len(audit)
  /\ tool.phase = "complete" => \E s \in sent : s[1] = Len(audit)

IInv == TopicInv /\ ReadersInv /\ OwnerInv /\ NothingSkipped /\ QuarantineIsDeserved /\ ToolInv /\ ReplaysAreAudited

-----------------------------------------------------------------------------
(* The parts of a batch.                                                   *)

\* The decoded records of a batch are some of its records.
LEMMA RecordsOf ==
  ASSUME NEW b
  PROVE  Records(b) \subseteq Decoded(b) /\ Decoded(b) \subseteq b /\ \A i \in Decoded(b) : Decodes(log[i])
BY DEF Records, Decoded

\* Sequences of one and two elements, and of one element less.
LEMMA OneElement ==
  ASSUME NEW S, NEW e \in S
  PROVE  <<e>> \in Seq(S) /\ <<e>> # <<>>
OBVIOUS

LEMMA TwoElements ==
  ASSUME NEW S, NEW e \in S, NEW f \in S
  PROVE  <<e, f>> \in Seq(S) /\ Len(<<e, f>>) = 2 /\ <<e, f>>[1] = e /\ <<e, f>>[2] = f
OBVIOUS

LEMMA TailEmpty ==
  ASSUME NEW S, NEW q \in Seq(S), q # <<>>
  PROVE  Tail(q) = <<>> <=> Len(q) = 1
<1>1. Tail(q) \in Seq(S) /\ Len(Tail(q)) = Len(q) - 1
  OBVIOUS
<1>2. \A r \in Seq(S) : Len(r) = 0 <=> r = <<>>
  OBVIOUS
<1>3. Tail(q) = <<>> <=> Len(Tail(q)) = 0
  BY <1>1, <1>2
<1>4. Len(q) \in Nat
  OBVIOUS
<1> QED
  BY <1>1, <1>3, <1>4

\* An attempt takes everything that is not a dead letter.
LEMMA AttemptOK ==
  ASSUME TopicInv, NEW x \in ReaderRec, NEW n \in 0..MaxAttempts, NEW D, NEW H, NEW P, D \subseteq H,
         Stretch(x), x.bad = {}, x.terminal \subseteq Records(x.batch) \cap D,
         \A i \in x.batch \ Decoded(x.batch) : i \in D
  PROVE  Attempt(x, n) \in ReaderRec /\ ReaderOK(Attempt(x, n), D, H, P) /\ Attempt(x, n).next = x.next
<1> DEFINE p == Pending(x)
           y == Attempt(x, n)
<1>1. p \subseteq Records(x.batch) /\ p \in SUBSET Nat
  BY RecordsOf DEF Pending, ReaderRec
<1>2. y = [x EXCEPT !.todo = IF p = {} THEN <<>> ELSE <<p>>, !.attempts = n, !.again = FALSE,
                    !.phase = IF p = {} THEN "commit" ELSE "apply"]
  BY DEF Attempt
<1>3. PICK t : t = IF p = {} THEN <<>> ELSE <<p>>
  OBVIOUS
<1>4. PICK f : f = IF p = {} THEN "commit" ELSE "apply"
  OBVIOUS
<1> HIDE DEF p
<1>5. t \in Seq(SUBSET Nat) /\ f \in Phases /\ f # "idle" /\ f # "classify" /\ f # "tx" /\ f # "lookup" /\ (f \in Applying <=> t # <<>>)
  <2>1. CASE p = {}
    BY <1>3, <1>4, <2>1 DEF Phases, Applying
  <2>2. CASE p # {}
    <3>1. <<p>> \in Seq(SUBSET Nat) /\ <<p>> # <<>>
      BY <1>1, OneElement
    <3>2. t = <<p>>
      BY <1>3, <2>2
    <3> QED
      BY <1>4, <2>2, <3>1, <3>2 DEF Phases, Applying
  <2> QED
    BY <2>1, <2>2
<1>6. y = [x EXCEPT !.todo = t, !.attempts = n, !.again = FALSE, !.phase = f]
  BY <1>2, <1>3, <1>4
<1> HIDE DEF y
<1>7. /\ y \in ReaderRec
      /\ y.phase = f /\ y.todo = t /\ y.next = x.next /\ y.batch = x.batch /\ y.bad = x.bad /\ y.terminal = x.terminal
  BY <1>5, <1>6 DEF ReaderRec
<1>8. BatchOK(y) /\ BadOK(y, D) /\ LoneOK(y, P)
  BY <1>5, <1>7 DEF BatchOK, BadOK, LoneOK, Stretch
<1>9. \A k \in 1..Len(t) : t[k] = p
  BY <1>3
<1>10. TodoOK(y, D)
  BY <1>1, <1>5, <1>7, <1>9 DEF TodoOK
<1>11. ASSUME NEW i \in Records(x.batch) PROVE i \in H \/ \E k \in 1..Len(t) : i \in t[k]
  <2>1. CASE i \in x.terminal
    BY <2>1
  <2>2. CASE i \notin x.terminal
    <3>1. i \in p
      BY <1>11, <2>2 DEF p, Pending
    <3>2. t = <<p>>
      BY <1>3, <3>1
    <3> QED
      BY <3>1, <3>2
  <2> QED
    BY <2>1, <2>2
<1>12. CoverOK(y, H)
  BY <1>7, <1>11 DEF CoverOK
<1> QED
  BY <1>7, <1>8, <1>10, <1>12 DEF ReaderOK, y

\* A new reader has nothing in hand.
LEMMA NewReaderOK ==
  ASSUME NEW o \in Nat, NEW D, NEW H, NEW P
  PROVE  Reader(o) \in ReaderRec /\ ReaderOK(Reader(o), D, H, P) /\ Reader(o).next = o
<1> DEFINE y == Reader(o)
<1>1. /\ y \in ReaderRec
      /\ y.phase = "idle" /\ y.batch = {} /\ y.bad = {} /\ y.todo = <<>> /\ y.terminal = {} /\ y.next = o
  BY DEF Reader, ReaderRec, Phases
<1>2. Decoded({}) = {} /\ Records({}) = {}
  BY DEF Decoded, Records
<1> HIDE DEF y
<1>3. BatchOK(y) /\ BadOK(y, D) /\ TodoOK(y, D) /\ CoverOK(y, H) /\ LoneOK(y, P)
  BY <1>1, <1>2 DEF BatchOK, BadOK, TodoOK, CoverOK, LoneOK, Applying
<1> QED
  BY <1>1, <1>3 DEF ReaderOK, y

\* Classifying ends with an attempt once nothing is left to quarantine.
LEMMA ClassifiedOK ==
  ASSUME TopicInv, NEW x \in ReaderRec, NEW D, NEW H, NEW P, D \subseteq H,
         x.phase = "classify", x.todo = <<>>, Stretch(x), x.terminal \subseteq Records(x.batch) \cap D,
         x.bad \subseteq x.batch \ Decoded(x.batch),
         \A i \in x.batch \ Decoded(x.batch) : i \in x.bad \/ i \in D
  PROVE  Classified(x) \in ReaderRec /\ ReaderOK(Classified(x), D, H, P) /\ Classified(x).next = x.next
<1>1. CASE x.bad = {}
  <2>1. 1 \in 0..MaxAttempts
    OBVIOUS
  <2>2. Attempt(x, 1) \in ReaderRec /\ ReaderOK(Attempt(x, 1), D, H, P) /\ Attempt(x, 1).next = x.next
    BY <1>1, <2>1, AttemptOK
  <2> QED
    BY <1>1, <2>2 DEF Classified
<1>2. CASE x.bad # {}
  <2>1. BatchOK(x) /\ BadOK(x, D) /\ TodoOK(x, D) /\ CoverOK(x, H) /\ LoneOK(x, P)
    BY <1>2 DEF BatchOK, BadOK, TodoOK, CoverOK, LoneOK, Applying
  <2> QED
    BY <1>2, <2>1 DEF Classified, ReaderOK
<1> QED
  BY <1>1, <1>2

\* A part that is handled, or whose only record is a terminal one from now on, is taken off.
LEMMA PoppedOK ==
  ASSUME TopicInv, NEW x \in ReaderRec, NEW D, NEW H, NEW P, NEW T, ReaderOK(x, D, H, P), x.phase \in Applying,
         \A i \in x.todo[1] : i \in H, T \subseteq Records(x.batch) \cap D
  PROVE  /\ [Popped(x) EXCEPT !.terminal = T] \in ReaderRec
         /\ ReaderOK([Popped(x) EXCEPT !.terminal = T], D, H, P)
         /\ [Popped(x) EXCEPT !.terminal = T].next = x.next
<1> DEFINE y == [Popped(x) EXCEPT !.terminal = T]
<1>1. PICK f : f = IF Len(x.todo) = 1 THEN "commit" ELSE "apply"
  OBVIOUS
<1>2. y = [[x EXCEPT !.todo = Tail(x.todo), !.again = FALSE, !.seen = {}, !.phase = f] EXCEPT !.terminal = T]
  BY <1>1 DEF Popped
<1>3. x.todo \in Seq(SUBSET Nat) /\ x.todo # <<>> /\ x.batch \in SUBSET Nat
  BY DEF ReaderRec, ReaderOK, TodoOK
<1>4. Tail(x.todo) \in Seq(SUBSET Nat) /\ Len(Tail(x.todo)) = Len(x.todo) - 1 /\ \A k \in 1..Len(Tail(x.todo)) : Tail(x.todo)[k] = x.todo[k + 1]
  BY <1>3
<1>5. f \in {"commit", "apply"} /\ (f = "apply" <=> Tail(x.todo) # <<>>)
  <2>1. Tail(x.todo) = <<>> <=> Len(x.todo) = 1
    BY <1>3, TailEmpty
  <2> QED
    BY <1>1, <2>1
<1>6. PICK t : t = Tail(x.todo)
  OBVIOUS
<1>7. y = [[x EXCEPT !.todo = t, !.again = FALSE, !.seen = {}, !.phase = f] EXCEPT !.terminal = T]
  BY <1>2, <1>6
<1>8. T \in SUBSET Nat
  BY <1>3, RecordsOf
<1> HIDE DEF y
<1>9. /\ y \in ReaderRec
      /\ y.phase = f /\ y.todo = t /\ y.next = x.next /\ y.batch = x.batch /\ y.bad = x.bad /\ y.terminal = T
  BY <1>4, <1>5, <1>6, <1>7, <1>8 DEF ReaderRec, Phases
<1>10. BatchOK(y)
  BY <1>5, <1>9 DEF BatchOK, ReaderOK, Applying, Stretch
<1>11. BadOK(y, D)
  BY <1>5, <1>9 DEF BadOK, ReaderOK, Applying
<1>12. TodoOK(y, D)
  BY <1>3, <1>4, <1>5, <1>6, <1>9 DEF TodoOK, ReaderOK, Applying
<1>13. CoverOK(y, H)
  <2>1. ASSUME NEW i \in Records(x.batch), i \notin H PROVE \E k \in 1..Len(t) : i \in t[k]
    <3>1. PICK k \in 1..Len(x.todo) : i \in x.todo[k]
      BY <2>1 DEF ReaderOK, CoverOK
    <3>2. k # 1
      BY <2>1, <3>1
    <3>3. k - 1 \in 1..Len(t) /\ t[k - 1] = x.todo[k]
      BY <1>3, <1>4, <1>6, <3>2
    <3> QED
      BY <3>1, <3>3
  <2> QED
    BY <1>9, <2>1 DEF CoverOK
<1>14. LoneOK(y, P)
  BY <1>5, <1>9 DEF LoneOK
<1> QED
  BY <1>9, <1>10, <1>11, <1>12, <1>13, <1>14 DEF ReaderOK, y

\* What the phase f needs to know.
Fits(x, f, sn, P) ==
  /\ f = "tx" => P \subseteq sn
  /\ f = "lookup" => \E i : x.todo[1] = {i} /\ log[i].parent \notin P

Rephased(x, f, sn, a) == [x EXCEPT !.phase = f, !.seen = sn, !.again = a]

\* The same part, in another phase.
LEMMA RephasedOK ==
  ASSUME TopicInv, NEW x \in ReaderRec, NEW D, NEW H, NEW P, ReaderOK(x, D, H, P), x.phase \in Applying,
         NEW f \in Applying, NEW sn \in SUBSET Parents, NEW a \in BOOLEAN, Fits(x, f, sn, P)
  PROVE  /\ Rephased(x, f, sn, a) \in ReaderRec /\ ReaderOK(Rephased(x, f, sn, a), D, H, P)
         /\ Rephased(x, f, sn, a).next = x.next
<1> DEFINE y == Rephased(x, f, sn, a)
<1>1. /\ y \in ReaderRec /\ y.phase = f /\ y.seen = sn
      /\ y.todo = x.todo /\ y.next = x.next /\ y.batch = x.batch /\ y.bad = x.bad /\ y.terminal = x.terminal
  BY DEF ReaderRec, Applying, Phases, Rephased
<1> HIDE DEF y
<1>2. BatchOK(y) /\ BadOK(y, D) /\ LoneOK(y, P)
  BY <1>1 DEF BatchOK, BadOK, LoneOK, ReaderOK, Applying, Stretch, Fits
<1>3. TodoOK(y, D) /\ CoverOK(y, H)
  BY <1>1 DEF TodoOK, CoverOK, ReaderOK, Applying
<1> QED
  BY <1>1, <1>2, <1>3 DEF ReaderOK, y

IsSplit(p, A, B) == p = A \cup B
Halved(q, A, B) == <<A, B>> \o Tail(q)
SameRecords(r, q) ==
  /\ \A k \in 1..Len(r) : \E j \in 1..Len(q) : r[k] \subseteq q[j]
  /\ \A j \in 1..Len(q) : \A i \in q[j] : \E k \in 1..Len(r) : i \in r[k]

\* Two parts for one.
LEMMA TwoParts ==
  ASSUME NEW q \in Seq(SUBSET Nat), q # <<>>, NEW A, NEW B, IsSplit(q[1], A, B),
         NEW r, r = Halved(q, A, B)
  PROVE  r \in Seq(SUBSET Nat) /\ r # <<>> /\ SameRecords(r, q)
<1> DEFINE t == Tail(q)
<1>0. r = <<A, B>> \o t
  BY DEF Halved
<1>1. q[1] \in SUBSET Nat /\ 1 \in 1..Len(q)
  BY ElementOfSeq
<1>2. t \in Seq(SUBSET Nat) /\ Len(t) = Len(q) - 1 /\ \A k \in 1..Len(t) : t[k] = q[k + 1]
  OBVIOUS
<1>3. <<A, B>> \in Seq(SUBSET Nat) /\ Len(<<A, B>>) = 2 /\ <<A, B>>[1] = A /\ <<A, B>>[2] = B
  <2>1. A \in SUBSET Nat /\ B \in SUBSET Nat
    BY <1>1 DEF IsSplit
  <2> QED
    BY <2>1, TwoElements
<1>4. PICK h : h = <<A, B>>
  OBVIOUS
<1> HIDE DEF t
<1>5. /\ r \in Seq(SUBSET Nat) /\ Len(r) = 2 + Len(t) /\ Len(t) \in Nat
      /\ \A k \in 1..(2 + Len(t)) : r[k] = IF k <= 2 THEN h[k] ELSE t[k - 2]
  BY <1>0, <1>2, <1>3, <1>4, ConcatProperties
<1>6. r[1] = A /\ r[2] = B /\ \A k \in 1..Len(t) : k + 2 \in 1..Len(r) /\ r[k + 2] = t[k]
  <2>1. h[1] = A /\ h[2] = B
    BY <1>3, <1>4
  <2>2. 1 \in 1..(2 + Len(t)) /\ 2 \in 1..(2 + Len(t))
    BY <1>5
  <2>3. \A k \in 1..Len(t) : k + 2 \in 1..(2 + Len(t)) /\ ~(k + 2 <= 2) /\ (k + 2) - 2 = k
    BY <1>5
  <2> QED
    BY <1>5, <2>1, <2>2, <2>3
<1>7. ASSUME NEW k \in 1..Len(r) PROVE \E j \in 1..Len(q) : r[k] \subseteq q[j]
  <2>1. CASE k \in {1, 2}
    BY <1>1, <1>6, <2>1 DEF IsSplit
  <2>2. CASE k \notin {1, 2}
    <3>1. k - 2 \in 1..Len(t) /\ r[k] = t[k - 2]
      BY <1>5, <2>2
    <3>2. t[k - 2] = q[k - 1] /\ k - 1 \in 1..Len(q)
      BY <1>2, <1>5, <3>1
    <3> QED
      BY <3>1, <3>2
  <2> QED
    BY <2>1, <2>2
<1>8. ASSUME NEW j \in 1..Len(q), NEW i \in q[j] PROVE \E k \in 1..Len(r) : i \in r[k]
  <2>1. CASE j = 1
    <3>1. 1 \in 1..Len(r) /\ 2 \in 1..Len(r)
      BY <1>5
    <3> QED
      BY <1>6, <1>8, <2>1, <3>1 DEF IsSplit
  <2>2. CASE j # 1
    <3>1. j - 1 \in 1..Len(t) /\ t[j - 1] = q[j]
      BY <1>2, <2>2
    <3>2. j + 1 \in 1..Len(r) /\ r[j + 1] = q[j]
      BY <1>6, <3>1
    <3> QED
      BY <1>8, <3>2
  <2> QED
    BY <2>1, <2>2
<1>9. r # <<>>
  BY <1>5
<1> QED
  BY <1>5, <1>7, <1>8, <1>9 DEF SameRecords

Divided(x, A, B) == [x EXCEPT !.phase = "apply", !.seen = {}, !.todo = <<A, B>> \o Tail(x.todo)]

\* A part that is halved.
LEMMA HalvedOK ==
  ASSUME TopicInv, NEW x \in ReaderRec, NEW D, NEW H, NEW P, ReaderOK(x, D, H, P), x.phase \in Applying,
         NEW A, NEW B, IsSplit(x.todo[1], A, B)
  PROVE  /\ Divided(x, A, B) \in ReaderRec /\ ReaderOK(Divided(x, A, B), D, H, P)
         /\ Divided(x, A, B).next = x.next
<1>1. x.todo \in Seq(SUBSET Nat) /\ x.todo # <<>>
  BY DEF ReaderRec, ReaderOK, TodoOK
<1>2. PICK r : r = <<A, B>> \o Tail(x.todo)
  OBVIOUS
<1>3. /\ r \in Seq(SUBSET Nat) /\ r # <<>>
      /\ \A k \in 1..Len(r) : \E j \in 1..Len(x.todo) : r[k] \subseteq x.todo[j]
      /\ \A j \in 1..Len(x.todo) : \A i \in x.todo[j] : \E k \in 1..Len(r) : i \in r[k]
  <2>1. PICK q : q = x.todo
    OBVIOUS
  <2>2. q \in Seq(SUBSET Nat) /\ q # <<>> /\ IsSplit(q[1], A, B) /\ r = Halved(q, A, B)
    BY <1>1, <1>2, <2>1 DEF Halved
  <2>3. r \in Seq(SUBSET Nat) /\ r # <<>> /\ SameRecords(r, q)
    BY <2>2, TwoParts
  <2> QED
    BY <2>1, <2>3 DEF SameRecords
<1> DEFINE y == [x EXCEPT !.phase = "apply", !.seen = {}, !.todo = r]
<1>4. /\ y \in ReaderRec /\ y.phase = "apply" /\ y.todo = r
      /\ y.next = x.next /\ y.batch = x.batch /\ y.bad = x.bad /\ y.terminal = x.terminal
  BY <1>3 DEF ReaderRec, Phases
<1> HIDE DEF y
<1>5. BatchOK(y) /\ BadOK(y, D) /\ LoneOK(y, P)
  BY <1>4 DEF BatchOK, BadOK, LoneOK, ReaderOK, Applying, Stretch
<1>6. TodoOK(y, D)
  BY <1>3, <1>4 DEF TodoOK, ReaderOK, Applying
<1>7. CoverOK(y, H)
  <2>1. ASSUME NEW i \in Records(x.batch), i \notin H PROVE \E k \in 1..Len(r) : i \in r[k]
    <3>1. PICK j \in 1..Len(x.todo) : i \in x.todo[j]
      BY <2>1 DEF CoverOK, ReaderOK
    <3> QED
      BY <1>3, <3>1
  <2> QED
    BY <1>4, <2>1 DEF CoverOK
<1> QED
  BY <1>2, <1>4, <1>5, <1>6, <1>7 DEF ReaderOK, y, Divided

-----------------------------------------------------------------------------
(* The topics only grow, events stay applied and rows stay away.           *)

Extends(q, r) == Len(q) <= Len(r) /\ \A i \in 1..Len(q) : r[i] = q[i]

Grows ==
  /\ pipeline' = pipeline /\ inbox \subseteq inbox' /\ parents' \subseteq parents
  /\ log' \in Seq(Events) /\ Extends(log, log')
  /\ dlq' \in Seq(Letter) /\ Extends(dlq, dlq')

LEMMA Appended ==
  ASSUME NEW S, NEW q \in Seq(S), NEW e \in S
  PROVE  /\ Append(q, e) \in Seq(S) /\ Extends(q, Append(q, e)) /\ Len(Append(q, e)) = Len(q) + 1
         /\ Append(q, e)[Len(q) + 1] = e /\ Len(q) \in Nat
BY DEF Extends

\* What is decoded, and what repeats an id, is so for good.
LEMMA StableRecords ==
  ASSUME TopicInv, Grows, NEW b \in SUBSET (1..Len(log))
  PROVE  Decoded(b)' = Decoded(b) /\ Records(b)' = Records(b)
<1>1. \A i \in b : log'[i] = log[i]
  BY DEF Grows, Extends
<1>2. Decoded(b)' = Decoded(b)
  BY <1>1 DEF Decoded
<1>3. \A i \in Decoded(b) : log'[i] = log[i]
  BY <1>1, RecordsOf
<1>4. Records(b)' = {i \in Decoded(b) : pipeline = "metrics" => \A j \in Decoded(b) : j < i => log'[j].id # log'[i].id}
  BY <1>2 DEF Records, Grows
<1>5. Records(b) = {i \in Decoded(b) : pipeline = "metrics" => \A j \in Decoded(b) : j < i => log[j].id # log[i].id}
  BY DEF Records
<1>6. \A i \in Decoded(b) : (\A j \in Decoded(b) : j < i => log'[j].id # log'[i].id) <=> (\A j \in Decoded(b) : j < i => log[j].id # log[i].id)
  BY <1>3
<1> QED
  BY <1>2, <1>4, <1>5, <1>6

\* Dead letters and handled records stay so.
LEMMA StablePlaces ==
  ASSUME TopicInv, Grows
  PROVE  Dead \subseteq Dead' /\ Handled \subseteq Handled'
<1>1. Len(log) \in Nat /\ Len(log') \in Nat /\ Len(dlq) \in Nat /\ Len(dlq') \in Nat
  BY DEF TopicInv, Grows
<1>2. ASSUME NEW i \in 1..Len(log) PROVE i \in 1..Len(log') /\ log'[i] = log[i]
  BY <1>1, <1>2 DEF Grows, Extends
<1>3. ASSUME NEW i \in 1..Len(log), DeadLettered(i) PROVE DeadLettered(i)'
  <2>1. PICK d \in 1..Len(dlq) : dlq[d].event = log[i] /\ (Decodes(log[i]) \/ dlq[d].pos = i)
    BY <1>3 DEF DeadLettered
  <2>2. d \in 1..Len(dlq') /\ dlq'[d] = dlq[d]
    BY <1>1 DEF Grows, Extends
  <2> QED
    BY <1>2, <2>1, <2>2 DEF DeadLettered
<1>4. ASSUME NEW i \in 1..Len(log), Applied(i) PROVE Applied(i)'
  BY <1>2, <1>4 DEF Applied, Grows
<1> QED
  BY <1>2, <1>3, <1>4 DEF Dead, Handled

\* What a reader has in hand does not change with the topics.
LEMMA ReaderStable ==
  ASSUME TopicInv, Grows, NEW x \in ReaderRec, NEW D, NEW H, NEW P, ReaderOK(x, D, H, P)
  PROVE  ReaderOK(x, D, H, P)'
<1>1. Len(log) \in Nat /\ Len(log') \in Nat /\ Len(log) <= Len(log')
  BY DEF TopicInv, Grows, Extends
<1>2. x.batch \in SUBSET (1..Len(log))
  <2>1. CASE x.phase = "idle"
    BY <2>1 DEF ReaderOK, BatchOK
  <2>2. CASE x.phase # "idle"
    <3>1. PICK m \in Nat : m <= Len(log) /\ x.batch = x.next + 1 .. m
      BY <2>2 DEF ReaderOK, BatchOK, Stretch
    <3>2. x.next \in Nat
      BY DEF ReaderRec
    <3> QED
      BY <1>1, <3>1, <3>2
  <2> QED
    BY <2>1, <2>2
<1>3. Decoded(x.batch)' = Decoded(x.batch) /\ Records(x.batch)' = Records(x.batch)
  BY <1>2, StableRecords
<1>4. BatchOK(x)'
  BY <1>1 DEF ReaderOK, BatchOK, Stretch, ReaderRec
<1>5. BadOK(x, D)'
  BY <1>3 DEF ReaderOK, BadOK
<1>6. TodoOK(x, D)'
  BY <1>3 DEF ReaderOK, TodoOK
<1>7. CoverOK(x, H)'
  BY <1>3 DEF ReaderOK, CoverOK
<1>8. LoneOK(x, P)'
  <2>1. CASE x.phase = "lookup"
    <3>1. PICK i : x.todo[1] = {i} /\ log[i].parent \notin P
      BY <2>1 DEF ReaderOK, LoneOK
    <3>2. x.todo \in Seq(SUBSET Nat) /\ x.todo # <<>> /\ \A k \in 1..Len(x.todo) : x.todo[k] \subseteq Records(x.batch)
      BY <2>1 DEF ReaderOK, TodoOK, Applying, ReaderRec
    <3>3. 1 \in 1..Len(x.todo)
      BY <3>2
    <3>4. i \in x.batch
      BY <3>1, <3>2, <3>3, RecordsOf
    <3>5. log'[i] = log[i]
      BY <1>2, <3>4 DEF Grows, Extends
    <3> QED
      BY <2>1, <3>1, <3>5 DEF LoneOK
  <2>2. CASE x.phase # "lookup"
    BY <2>2 DEF ReaderOK, LoneOK
  <2> QED
    BY <2>1, <2>2
<1> QED
  BY <1>4, <1>5, <1>6, <1>7, <1>8 DEF ReaderOK

\* More dead letters and handled records, and fewer rows, do no harm.
LEMMA ReaderMonotone ==
  ASSUME NEW x, NEW D, NEW H, NEW P, ReaderOK(x, D, H, P),
         NEW D2, NEW H2, NEW P2, D \subseteq D2, H \subseteq H2, P2 \subseteq P
  PROVE  ReaderOK(x, D2, H2, P2)
<1>1. BadOK(x, D2) /\ TodoOK(x, D2)
  BY DEF ReaderOK, BadOK, TodoOK
<1>2. CoverOK(x, H2)
  BY DEF ReaderOK, CoverOK
<1>3. LoneOK(x, P2)
  BY DEF ReaderOK, LoneOK
<1> QED
  BY <1>1, <1>2, <1>3 DEF ReaderOK

-----------------------------------------------------------------------------
(* What the steps of a consumer change.                                    *)

\* A dead letter that is deserved.
Deserved(i, code) == IF code = "decode" THEN ~Decodes(log[i]) ELSE Decodes(log[i]) /\ log[i].parent \notin parents
NewLetter(i, code) == i \in 1..Len(log) /\ code \in Codes /\ Deserved(i, code) /\ dlq' = DeadLetter(i, code)
Letters == dlq' = dlq \/ \E i, code : NewLetter(i, code)

\* A batch and its parts are places of the topic.
LEMMA BatchPlaces ==
  ASSUME TopicInv, ReadersInv, NEW c \in Consumers
  PROVE  /\ cons[c] \in ReaderRec /\ ReaderOK(cons[c], Dead, Handled, parents)
         /\ cons[c].batch \subseteq 1..Len(log) /\ Records(cons[c].batch) \subseteq 1..Len(log)
         /\ IsFiniteSet(cons[c].batch)
<1>1. cons[c] \in ReaderRec /\ ReaderOK(cons[c], Dead, Handled, parents)
  BY DEF TopicInv, ReadersInv
<1>2. Len(log) \in Nat /\ cons[c].next \in Nat
  BY <1>1 DEF TopicInv, ReaderRec
<1>3. cons[c].batch \subseteq 1..Len(log)
  <2>1. CASE cons[c].phase = "idle"
    BY <1>1, <2>1 DEF ReaderOK, BatchOK
  <2>2. CASE cons[c].phase # "idle"
    <3>1. PICK m \in Nat : m <= Len(log) /\ cons[c].batch = cons[c].next + 1 .. m
      BY <1>1, <2>2 DEF ReaderOK, BatchOK, Stretch
    <3> QED
      BY <1>2, <3>1
  <2> QED
    BY <2>1, <2>2
<1>4. IsFiniteSet(1..Len(log))
  BY <1>2, FS_Interval
<1> QED
  BY <1>1, <1>3, <1>4, FS_Subset, RecordsOf

\* The message to quarantine cannot be decoded.
LEMMA BadMessage ==
  ASSUME TopicInv, ReadersInv, NEW c \in Consumers, cons[c].bad # {}
  PROVE  LET i == Min(cons[c].bad) IN i \in cons[c].bad /\ i \in 1..Len(log) /\ Deserved(i, "decode")
<1>1. cons[c].bad \subseteq cons[c].batch \ Decoded(cons[c].batch) /\ cons[c].bad \subseteq Nat
  BY BatchPlaces DEF ReaderOK, BadOK, ReaderRec
<1>2. Min(cons[c].bad) \in cons[c].bad
  BY <1>1, MinIs
<1> QED
  BY <1>1, <1>2, BatchPlaces DEF Decoded, Deserved

\* The parts to apply are decoded records of the batch.
LEMMA SegmentPlaces ==
  ASSUME TopicInv, ReadersInv, NEW c \in Consumers, cons[c].phase \in Applying
  PROVE  /\ Segment(c) = cons[c].todo[1] /\ cons[c].todo \in Seq(SUBSET Nat) /\ cons[c].todo # <<>>
         /\ Segment(c) \subseteq Records(cons[c].batch) /\ Segment(c) \subseteq 1..Len(log)
         /\ IsFiniteSet(Segment(c)) /\ \A i \in Segment(c) : Decodes(log[i])
<1>1. /\ cons[c].todo \in Seq(SUBSET Nat) /\ cons[c].todo # <<>>
      /\ \A k \in 1..Len(cons[c].todo) : cons[c].todo[k] \subseteq Records(cons[c].batch)
  BY BatchPlaces DEF ReaderOK, TodoOK, ReaderRec
<1>2. Segment(c) = cons[c].todo[1] /\ 1 \in 1..Len(cons[c].todo)
  BY <1>1 DEF Segment
<1>3. Segment(c) \subseteq Records(cons[c].batch)
  BY <1>1, <1>2
<1>4. Segment(c) \subseteq cons[c].batch /\ Segment(c) \subseteq 1..Len(log) /\ \A i \in Segment(c) : Decodes(log[i])
  BY <1>3, BatchPlaces, RecordsOf
<1>5. IsFiniteSet(Segment(c))
  BY <1>4, BatchPlaces, FS_Subset
<1> QED
  BY <1>1, <1>2, <1>3, <1>4, <1>5

\* The record that is looked up has lost its row.
LEMMA LoneRecord ==
  ASSUME TopicInv, ReadersInv, NEW c \in Consumers, cons[c].phase = "lookup"
  PROVE  /\ Segment(c) = {Single(c)} /\ Single(c) \in 1..Len(log) /\ Deserved(Single(c), "foreign_key")
         /\ Single(c) \in Records(cons[c].batch)
<1>1. PICK i : cons[c].todo[1] = {i} /\ log[i].parent \notin parents
  BY BatchPlaces DEF ReaderOK, LoneOK
<1>2. cons[c].phase \in Applying
  BY DEF Applying
<1>3. Segment(c) = {i} /\ Segment(c) \subseteq Nat
  BY <1>1, <1>2, SegmentPlaces
<1>4. Single(c) \in Segment(c)
  BY <1>3, MinIs DEF Single
<1>5. Single(c) = i
  BY <1>3, <1>4
<1> QED
  BY <1>1, <1>2, <1>3, <1>4, <1>5, SegmentPlaces DEF Deserved

LEMMA ConsumerCases ==
  ASSUME NEW c, ConsumerNext(c)
  PROVE  \/ Fetch(c) \/ Quarantine(c) \/ BeginTx(c) \/ CommitTx(c) \/ Isolate(c) \/ LookupParent(c) \/ Commit(c)
         \/ QuarantineFails(c) \/ TxFails(c) \/ LookupFails(c) \/ CommitFails(c) \/ ConsumerCrash(c) \/ Rebalance(c)
BY DEF ConsumerNext, ConsumerStep

\* A consumer writes no source topic and no parent row; it marks nothing as read.
LEMMA ConsumerFrame ==
  ASSUME NEW c, ConsumerNext(c)
  PROVE  /\ UNCHANGED <<pipeline, log, parents, readUpTo>>
         /\ UNCHANGED offset \/ Commit(c) \/ CommitFails(c)
         /\ UNCHANGED owner \/ Rebalance(c)
         /\ UNCHANGED tables \/ CommitTx(c)
         /\ UNCHANGED dlq \/ Quarantine(c) \/ QuarantineFails(c) \/ LookupParent(c) \/ LookupFails(c)
<1>1. CASE Fetch(c)
  BY <1>1 DEF Fetch
<1>2. CASE Quarantine(c)
  BY <1>2 DEF Quarantine
<1>3. CASE BeginTx(c)
  BY <1>3 DEF BeginTx
<1>4. CASE CommitTx(c)
  BY <1>4 DEF CommitTx
<1>5. CASE Isolate(c)
  BY <1>5 DEF Isolate
<1>6. CASE LookupParent(c)
  BY <1>6 DEF LookupParent
<1>7. CASE Commit(c)
  BY <1>7 DEF Commit
<1>8. CASE QuarantineFails(c)
  BY <1>8 DEF QuarantineFails
<1>9. CASE TxFails(c)
  BY <1>9 DEF TxFails
<1>10. CASE LookupFails(c)
  BY <1>10 DEF LookupFails
<1>11. CASE CommitFails(c)
  BY <1>11 DEF CommitFails
<1>12. CASE ConsumerCrash(c)
  BY <1>12 DEF ConsumerCrash
<1>13. CASE Rebalance(c)
  BY <1>13 DEF Rebalance
<1> QED
  BY <1>1, <1>2, <1>3, <1>4, <1>5, <1>6, <1>7, <1>8, <1>9, <1>10, <1>11, <1>12, <1>13, ConsumerCases

\* It quarantines only what deserves it.
LEMMA ConsumerLetters ==
  ASSUME TopicInv, ReadersInv, NEW c \in Consumers, ConsumerNext(c)
  PROVE  Letters
<1>1. CASE Quarantine(c) \/ QuarantineFails(c)
  <2>1. cons[c].bad # {} /\ (dlq' = dlq \/ dlq' = DeadLetter(Min(cons[c].bad), "decode"))
    BY <1>1 DEF Quarantine, QuarantineFails
  <2>2. Min(cons[c].bad) \in 1..Len(log) /\ Deserved(Min(cons[c].bad), "decode")
    BY <2>1, BadMessage
  <2> QED
    BY <2>1, <2>2 DEF Letters, NewLetter, Codes
<1>2. CASE LookupParent(c) \/ LookupFails(c)
  <2>1. cons[c].phase = "lookup" /\ (dlq' = dlq \/ dlq' = DeadLetter(Single(c), "foreign_key"))
    BY <1>2 DEF LookupParent, LookupFails
  <2>2. Single(c) \in 1..Len(log) /\ Deserved(Single(c), "foreign_key")
    BY <2>1, LoneRecord
  <2> QED
    BY <2>1, <2>2 DEF Letters, NewLetter, Codes
<1> QED
  BY <1>1, <1>2, ConsumerFrame DEF Letters

\* So everything only grows.
LEMMA LettersExtend ==
  ASSUME TopicInv, UNCHANGED log, Letters
  PROVE  /\ dlq' \in Seq(Letter) /\ Extends(dlq, dlq')
         /\ \A d \in 1..Len(dlq') : dlq'[d].pos \in 1..Len(log) /\ log[dlq'[d].pos] = dlq'[d].event
<1>1. CASE dlq' = dlq
  BY <1>1 DEF TopicInv, Extends
<1>2. ASSUME NEW i, NEW code, NewLetter(i, code)
      PROVE  /\ dlq' \in Seq(Letter) /\ Extends(dlq, dlq')
             /\ \A d \in 1..Len(dlq') : dlq'[d].pos \in 1..Len(log) /\ log[dlq'[d].pos] = dlq'[d].event
  <2>1. PICK e : e = [pos |-> i, event |-> log[i], code |-> code]
    OBVIOUS
  <2>2. e \in Letter /\ e.pos = i /\ e.event = log[i] /\ dlq' = Append(dlq, e)
    BY <1>2, <2>1 DEF NewLetter, DeadLetter, Letter, TopicInv
  <2>3. /\ dlq' \in Seq(Letter) /\ Extends(dlq, dlq') /\ Len(dlq') = Len(dlq) + 1 /\ dlq'[Len(dlq) + 1] = e /\ Len(dlq) \in Nat
    BY <2>2, Appended DEF TopicInv
  <2>4. ASSUME NEW d \in 1..Len(dlq') PROVE dlq'[d].pos \in 1..Len(log) /\ log[dlq'[d].pos] = dlq'[d].event
    <3>1. CASE d = Len(dlq) + 1
      BY <1>2, <2>2, <2>3, <3>1 DEF NewLetter
    <3>2. CASE d # Len(dlq) + 1
      <4>1. d \in 1..Len(dlq) /\ dlq'[d] = dlq[d]
        BY <2>3, <3>2 DEF Extends
      <4> QED
        BY <4>1 DEF TopicInv
    <3> QED
      BY <3>1, <3>2
  <2> QED
    BY <2>3, <2>4
<1> QED
  BY <1>1, <1>2 DEF Letters

LEMMA ConsumerGrows ==
  ASSUME TopicInv, ReadersInv, NEW c \in Consumers, ConsumerNext(c)
  PROVE  Grows
<1>1. UNCHANGED <<pipeline, log, parents>>
  BY ConsumerFrame
<1>2. dlq' \in Seq(Letter) /\ Extends(dlq, dlq')
  BY <1>1, ConsumerLetters, LettersExtend
<1>3. inbox \subseteq inbox'
  BY ConsumerFrame DEF tables, CommitTx
<1> QED
  BY <1>1, <1>2, <1>3 DEF Grows, Extends, TopicInv

\* A record is a dead letter once it was sent to the dead-letter topic.
LEMMA LetterPlaced ==
  ASSUME TopicInv, NEW i \in 1..Len(log), NEW code \in Codes, UNCHANGED log, dlq' = DeadLetter(i, code)
  PROVE  i \in Dead'
<1>1. PICK e : e = [pos |-> i, event |-> log[i], code |-> code]
  OBVIOUS
<1>2. e \in Letter /\ e.pos = i /\ e.event = log[i] /\ dlq' = Append(dlq, e)
  BY <1>1 DEF DeadLetter, Letter, TopicInv
<1>3. Len(dlq) + 1 \in 1..Len(dlq') /\ dlq'[Len(dlq) + 1] = e
  BY <1>2, Appended DEF TopicInv
<1> QED
  BY <1>2, <1>3 DEF Dead, DeadLettered

-----------------------------------------------------------------------------
(* Where each step leaves the reader.                                      *)

MovesTo(c, y) ==
  /\ y \in ReaderRec /\ cons' = [cons EXCEPT ![c] = y] /\ ReaderOK(y, Dead', Handled', parents')
  /\ y.next = offset' \/ (y.next = cons[c].next /\ offset' = offset)

Readers == TopicInv /\ ReadersInv

\* What a reader has in hand is as good after a step of its own.
LEMMA Holds ==
  ASSUME Readers, NEW c \in Consumers, ConsumerNext(c)
  PROVE  /\ cons[c] \in ReaderRec /\ ReaderOK(cons[c], Dead', Handled', parents')
         /\ Dead' \subseteq Handled'
<1>1. Grows
  BY ConsumerGrows DEF Readers
<1>2. Dead \subseteq Dead' /\ Handled \subseteq Handled' /\ parents' \subseteq parents
  BY <1>1, StablePlaces DEF Readers, Grows
<1>3. cons[c] \in ReaderRec /\ ReaderOK(cons[c], Dead, Handled, parents)
  BY BatchPlaces DEF Readers
<1>4. ReaderOK(cons[c], Dead', Handled', parents')
  BY <1>2, <1>3, ReaderMonotone
<1> QED
  BY <1>3, <1>4 DEF Dead, Handled

\* A reader that starts anew.
LEMMA MovesAnew ==
  ASSUME Readers, NEW c \in Consumers, offset' \in Nat, cons' = [cons EXCEPT ![c] = Reader(offset')]
  PROVE  MovesTo(c, Reader(offset'))
BY NewReaderOK DEF MovesTo

LEMMA OffsetIs ==
  ASSUME Readers
  PROVE  offset \in Nat /\ Len(log) \in Nat
BY DEF Readers, TopicInv

\* A batch ends inside the topic.
LEMMA BatchEnd ==
  ASSUME Readers, NEW c \in Consumers, cons[c].phase # "idle"
  PROVE  LET end == Max(cons[c].batch) IN end \in 1..Len(log) /\ cons[c].batch = cons[c].next + 1 .. end
<1>1. PICK m \in Nat : cons[c].next < m /\ m <= Len(log) /\ cons[c].batch = cons[c].next + 1 .. m
  BY BatchPlaces DEF Readers, ReaderOK, BatchOK, Stretch
<1>2. cons[c].next \in Nat /\ Len(log) \in Nat /\ cons[c].batch \subseteq Nat /\ IsFiniteSet(cons[c].batch)
  BY BatchPlaces, OffsetIs DEF Readers, ReaderRec
<1>3. m \in cons[c].batch
  BY <1>1, <1>2
<1>4. Max(cons[c].batch) \in cons[c].batch /\ m <= Max(cons[c].batch)
  BY <1>2, <1>3, MaxIs
<1>5. Max(cons[c].batch) = m
  BY <1>1, <1>2, <1>4
<1> QED
  BY <1>1, <1>2, <1>5

\* The next attempt, or a new reader when the attempts are used up.
LEMMA MovesRetried ==
  ASSUME Readers, NEW c \in Consumers, ConsumerNext(c), Retried(c), UNCHANGED offset, cons[c].phase \in Applying
  PROVE  \E y : MovesTo(c, y)
<1> DEFINE x == cons[c]
<1>1. CASE x.attempts < MaxAttempts
  <2>1. x \in ReaderRec /\ ReaderOK(x, Dead', Handled', parents') /\ Dead' \subseteq Handled' /\ TopicInv
    BY Holds DEF Readers
  <2>2. x.attempts + 1 \in 0..MaxAttempts
    BY <1>1, <2>1 DEF ReaderRec
  <2>3. Stretch(x) /\ x.bad = {} /\ x.terminal \subseteq Records(x.batch) \cap Dead'
    BY <2>1 DEF ReaderOK, BatchOK, BadOK, TodoOK, Applying
  <2>4. \A i \in x.batch \ Decoded(x.batch) : i \in Dead'
    BY <2>1, <2>3 DEF ReaderOK, BadOK
  <2>5. cons' = [cons EXCEPT ![c] = Attempt(x, x.attempts + 1)]
    BY <1>1 DEF Retried
  <2> HIDE DEF x
  <2>6. /\ Attempt(x, x.attempts + 1) \in ReaderRec /\ ReaderOK(Attempt(x, x.attempts + 1), Dead', Handled', parents')
        /\ Attempt(x, x.attempts + 1).next = x.next
    BY <2>1, <2>2, <2>3, <2>4, AttemptOK
  <2> QED
    BY <2>5, <2>6 DEF MovesTo, x
<1>2. CASE ~(x.attempts < MaxAttempts)
  <2>1. cons' = [cons EXCEPT ![c] = Reader(offset')] /\ offset' \in Nat
    BY <1>2, OffsetIs DEF Retried
  <2> QED
    BY <2>1, MovesAnew
<1> QED
  BY <1>1, <1>2

\* A batch is fetched.
LEMMA MovesFetch ==
  ASSUME Readers, NEW c \in Consumers, Fetch(c)
  PROVE  \E y : MovesTo(c, y)
<1>1. ConsumerNext(c) /\ cons[c].phase = "idle" /\ UNCHANGED offset
  BY DEF ConsumerNext, ConsumerStep, Fetch
<1>2. cons[c] \in ReaderRec /\ ReaderOK(cons[c], Dead', Handled', parents') /\ Dead' \subseteq Handled' /\ TopicInv
  BY <1>1, Holds DEF Readers
<1>3. PICK n \in 1..BatchSize :
        LET batch == cons[c].next + 1 .. cons[c].next + n
        IN /\ cons[c].next + n <= Len(log)
           /\ cons' = [cons EXCEPT ![c] = Classified([cons[c] EXCEPT !.phase = "classify", !.batch = batch,
                                                          !.bad = batch \ Decoded(batch)])]
  BY DEF Fetch
<1>4. PICK batch : batch = cons[c].next + 1 .. cons[c].next + n
  OBVIOUS
<1>5. PICK bad : bad = batch \ Decoded(batch)
  OBVIOUS
<1> DEFINE x == [cons[c] EXCEPT !.phase = "classify", !.batch = batch, !.bad = bad]
<1>6. cons[c].next + n <= Len(log) /\ cons' = [cons EXCEPT ![c] = Classified(x)]
  BY <1>3, <1>4, <1>5
<1>7. batch \in SUBSET Nat /\ bad \in SUBSET Nat /\ cons[c].next \in Nat
  BY <1>2, <1>4, <1>5 DEF ReaderRec
<1>8. /\ x \in ReaderRec /\ x.phase = "classify" /\ x.batch = batch /\ x.bad = bad
      /\ x.next = cons[c].next /\ x.todo = cons[c].todo /\ x.terminal = cons[c].terminal
  BY <1>2, <1>7 DEF ReaderRec, Phases
<1>9. cons[c].todo = <<>> /\ cons[c].terminal = {}
  <2>1. cons[c].batch = {} /\ cons[c].todo = <<>> /\ cons[c].terminal \subseteq Records(cons[c].batch)
    BY <1>1, <1>2 DEF ReaderOK, BatchOK, TodoOK
  <2> QED
    BY <2>1, RecordsOf
<1> HIDE DEF x
<1>10. Stretch(x)
  BY <1>4, <1>6, <1>7, <1>8 DEF Stretch
<1>11. Classified(x) \in ReaderRec /\ ReaderOK(Classified(x), Dead', Handled', parents') /\ Classified(x).next = x.next
  BY <1>2, <1>5, <1>8, <1>9, <1>10, ClassifiedOK
<1> QED
  BY <1>1, <1>6, <1>8, <1>11 DEF MovesTo

\* A message is quarantined.
LEMMA MovesQuarantine ==
  ASSUME Readers, NEW c \in Consumers, Quarantine(c)
  PROVE  \E y : MovesTo(c, y)
<1>1. ConsumerNext(c) /\ cons[c].phase = "classify" /\ cons[c].bad # {} /\ UNCHANGED <<offset, log>>
  BY DEF ConsumerNext, ConsumerStep, Quarantine
<1>2. cons[c] \in ReaderRec /\ ReaderOK(cons[c], Dead', Handled', parents') /\ Dead' \subseteq Handled' /\ TopicInv
  BY <1>1, Holds DEF Readers
<1>3. PICK i : i = Min(cons[c].bad)
  OBVIOUS
<1>4. i \in cons[c].bad /\ i \in 1..Len(log)
  BY <1>1, <1>3, BadMessage DEF Readers
<1>5. PICK bad : bad = cons[c].bad \ {i}
  OBVIOUS
<1> DEFINE x == [cons[c] EXCEPT !.bad = bad]
<1>6. cons' = [cons EXCEPT ![c] = Classified(x)] /\ dlq' = DeadLetter(i, "decode")
  BY <1>3, <1>5 DEF Quarantine
<1>7. i \in Dead'
  BY <1>1, <1>2, <1>4, <1>6, LetterPlaced DEF Codes
<1>8. /\ x \in ReaderRec /\ x.phase = "classify" /\ x.batch = cons[c].batch /\ x.bad = bad
      /\ x.next = cons[c].next /\ x.todo = cons[c].todo /\ x.terminal = cons[c].terminal
  BY <1>1, <1>2, <1>5 DEF ReaderRec
<1>9. /\ cons[c].todo = <<>> /\ cons[c].terminal \subseteq Records(cons[c].batch) \cap Dead' /\ Stretch(cons[c])
      /\ cons[c].bad \subseteq cons[c].batch \ Decoded(cons[c].batch)
      /\ \A j \in cons[c].batch \ Decoded(cons[c].batch) : j \in cons[c].bad \/ j \in Dead'
  BY <1>1, <1>2 DEF ReaderOK, BatchOK, BadOK, TodoOK, Applying
<1> HIDE DEF x
<1>10. Stretch(x)
  BY <1>8, <1>9 DEF Stretch
<1>11. x.bad \subseteq x.batch \ Decoded(x.batch) /\ \A j \in x.batch \ Decoded(x.batch) : j \in x.bad \/ j \in Dead'
  BY <1>5, <1>7, <1>8, <1>9
<1>12. Classified(x) \in ReaderRec /\ ReaderOK(Classified(x), Dead', Handled', parents') /\ Classified(x).next = x.next
  BY <1>2, <1>8, <1>9, <1>10, <1>11, ClassifiedOK
<1> QED
  BY <1>1, <1>6, <1>8, <1>12 DEF MovesTo

\* A transaction begins.
LEMMA MovesBeginTx ==
  ASSUME Readers, NEW c \in Consumers, BeginTx(c)
  PROVE  \E y : MovesTo(c, y)
<1>1. ConsumerNext(c) /\ cons[c].phase \in Applying /\ UNCHANGED <<offset, parents>>
  BY DEF ConsumerNext, ConsumerStep, BeginTx, Applying
<1>2. cons[c] \in ReaderRec /\ ReaderOK(cons[c], Dead', Handled', parents') /\ TopicInv
  BY <1>1, Holds DEF Readers
<1>3. PICK sn : sn = IF pipeline = "notification" THEN parents ELSE Parents
  OBVIOUS
<1>4. PICK a \in BOOLEAN : a = cons[c].again
  BY <1>2 DEF ReaderRec
<1>5. sn \in SUBSET Parents /\ parents' \subseteq sn
  BY <1>1, <1>2, <1>3 DEF TopicInv
<1> DEFINE x == cons[c]
           y == Rephased(x, "tx", sn, a)
<1>6. cons' = [cons EXCEPT ![c] = y]
  <2>1. cons' = [cons EXCEPT ![c].phase = "tx", ![c].seen = sn]
    BY <1>3 DEF BeginTx
  <2>2. y = [x EXCEPT !.phase = "tx", !.seen = sn]
    BY <1>2, <1>4 DEF ReaderRec, Rephased
  <2>3. cons \in [Consumers -> ReaderRec]
    BY <1>2 DEF TopicInv
  <2> QED
    BY <2>1, <2>2, <2>3
<1> HIDE DEF x
<1>7. y \in ReaderRec /\ ReaderOK(y, Dead', Handled', parents') /\ y.next = x.next
  <2>1. "tx" \in Applying
    BY DEF Applying
  <2>2. x \in ReaderRec /\ ReaderOK(x, Dead', Handled', parents') /\ x.phase \in Applying
    BY <1>1, <1>2 DEF x
  <2>3. Fits(x, "tx", sn, parents')
    BY <1>5 DEF Fits
  <2>4. TopicInv /\ sn \in SUBSET Parents /\ a \in BOOLEAN
    BY <1>2, <1>5
  <2> QED
    BY <2>1, <2>2, <2>3, <2>4, RephasedOK
<1> HIDE DEF y
<1> QED
  BY <1>1, <1>6, <1>7 DEF MovesTo, x

\* A transaction commits: its records have taken effect.
LEMMA MovesCommitTx ==
  ASSUME Readers, NEW c \in Consumers, CommitTx(c)
  PROVE  \E y : MovesTo(c, y)
<1>1. ConsumerNext(c) /\ cons[c].phase \in Applying /\ UNCHANGED <<offset, log>> /\ inbox' = inbox \cup Ids(c)
  BY DEF ConsumerNext, ConsumerStep, CommitTx, Applying
<1>2. cons[c] \in ReaderRec /\ ReaderOK(cons[c], Dead', Handled', parents') /\ TopicInv /\ ReadersInv
  BY <1>1, Holds DEF Readers
<1> DEFINE x == cons[c]
           T == x.terminal
           y == [Popped(x) EXCEPT !.terminal = T]
<1>3. \A i \in x.todo[1] : i \in Handled'
  <2>1. ASSUME NEW i \in Segment(c) PROVE i \in Handled'
    <3>1. i \in 1..Len(log) /\ Decodes(log[i]) /\ log[i].id \in Ids(c)
      BY <1>1, <1>2, SegmentPlaces DEF Ids
    <3> QED
      BY <1>1, <3>1 DEF Handled, Applied
  <2> QED
    BY <1>1, <1>2, <2>1, SegmentPlaces
<1>4. T \subseteq Records(x.batch) \cap Dead'
  BY <1>2 DEF ReaderOK, TodoOK
<1>5. cons' = [cons EXCEPT ![c] = y]
  <2>1. cons' = [cons EXCEPT ![c] = Popped(x)]
    BY DEF CommitTx
  <2>2. PICK f : f = IF Len(x.todo) = 1 THEN "commit" ELSE "apply"
    OBVIOUS
  <2>3. PICK t : t = Tail(x.todo)
    OBVIOUS
  <2>4. Popped(x) = [x EXCEPT !.todo = t, !.again = FALSE, !.seen = {}, !.phase = f]
    BY <2>2, <2>3 DEF Popped
  <2>5. y = Popped(x)
    BY <1>2, <2>4 DEF ReaderRec
  <2> QED
    BY <2>1, <2>5
<1> HIDE DEF x, T
<1>6. y \in ReaderRec /\ ReaderOK(y, Dead', Handled', parents') /\ y.next = x.next
  <2>1. x \in ReaderRec /\ ReaderOK(x, Dead', Handled', parents') /\ x.phase \in Applying
    BY <1>1, <1>2 DEF x
  <2> QED
    BY <1>2, <1>3, <1>4, <2>1, PoppedOK
<1> HIDE DEF y
<1> QED
  BY <1>1, <1>5, <1>6 DEF MovesTo, x

\* The record with the missing row becomes terminal, or the attempt is repeated.
LEMMA MovesLookup ==
  ASSUME Readers, NEW c \in Consumers, LookupParent(c)
  PROVE  \E y : MovesTo(c, y)
<1>1. ConsumerNext(c) /\ cons[c].phase = "lookup" /\ cons[c].phase \in Applying /\ UNCHANGED <<offset, log>>
  BY DEF ConsumerNext, ConsumerStep, LookupParent, Applying
<1>2. cons[c] \in ReaderRec /\ ReaderOK(cons[c], Dead', Handled', parents') /\ TopicInv /\ ReadersInv /\ Dead' \subseteq Handled'
  BY <1>1, Holds DEF Readers
<1>3. PICK i : i = Single(c)
  OBVIOUS
<1>4. Segment(c) = {i} /\ i \in 1..Len(log) /\ log[i].parent \notin parents /\ i \in Records(cons[c].batch)
  BY <1>1, <1>2, <1>3, LoneRecord DEF Deserved
<1>5. PICK T : T = cons[c].terminal \cup {i}
  OBVIOUS
<1> DEFINE x == cons[c]
           y == [Popped(x) EXCEPT !.terminal = T]
<1>6. dlq' = DeadLetter(i, "foreign_key") /\ cons' = [cons EXCEPT ![c] = y]
  BY <1>3, <1>4, <1>5 DEF LookupParent
<1>7. i \in Dead'
  BY <1>1, <1>2, <1>4, <1>6, LetterPlaced DEF Codes
<1>8. \A j \in x.todo[1] : j \in Handled'
  BY <1>1, <1>2, <1>4, <1>7, SegmentPlaces
<1>9. T \subseteq Records(x.batch) \cap Dead'
  BY <1>2, <1>4, <1>5, <1>7 DEF ReaderOK, TodoOK
<1> HIDE DEF x
<1>10. y \in ReaderRec /\ ReaderOK(y, Dead', Handled', parents') /\ y.next = x.next
  <2>1. x \in ReaderRec /\ ReaderOK(x, Dead', Handled', parents') /\ x.phase \in Applying
    BY <1>1, <1>2 DEF x
  <2> QED
    BY <1>2, <1>8, <1>9, <2>1, PoppedOK
<1> HIDE DEF y
<1> QED
  BY <1>1, <1>6, <1>10 DEF MovesTo, x

\* A foreign key fails: the part is halved, tried once more or looked up.
LEMMA MovesIsolate ==
  ASSUME Readers, NEW c \in Consumers, Isolate(c)
  PROVE  \E y : MovesTo(c, y)
<1> DEFINE x == cons[c]
           s == Segment(c)
           front == {i \in s : Cardinality({j \in s : j < i}) < Cardinality(s) \div 2}
<1>1. /\ ConsumerNext(c) /\ x.phase = "tx" /\ x.phase \in Applying /\ Orphans(c) # {}
      /\ UNCHANGED <<offset, log, parents>>
  BY DEF ConsumerNext, ConsumerStep, Isolate, Applying
<1>2. x \in ReaderRec /\ ReaderOK(x, Dead', Handled', parents') /\ TopicInv /\ ReadersInv
  BY <1>1, Holds DEF Readers
<1>3. /\ s = x.todo[1] /\ IsFiniteSet(s)
  BY <1>1, <1>2, SegmentPlaces
<1>4. CASE Cardinality(s) > 1
  <2>1. PICK A : A = front
    OBVIOUS
  <2>2. PICK B : B = s \ front
    OBVIOUS
  <2>3. IsSplit(x.todo[1], A, B)
    BY <1>3, <2>1, <2>2 DEF IsSplit
  <2>4. cons' = [cons EXCEPT ![c] = Divided(x, A, B)]
    BY <1>4, <2>1, <2>2 DEF Isolate, Divided
  <2> HIDE DEF x
  <2>5. Divided(x, A, B) \in ReaderRec /\ ReaderOK(Divided(x, A, B), Dead', Handled', parents') /\ Divided(x, A, B).next = x.next
    BY <1>1, <1>2, <2>3, HalvedOK
  <2> QED
    BY <1>1, <2>4, <2>5 DEF MovesTo, x
<1>5. CASE ~(Cardinality(s) > 1) /\ pipeline = "notification" /\ ~x.again
  <2>0. PICK a \in BOOLEAN : a = TRUE
    OBVIOUS
  <2> DEFINE y == Rephased(x, "apply", {}, a)
  <2>1. cons' = [cons EXCEPT ![c] = y]
    BY <1>5, <2>0 DEF Isolate, Rephased
  <2>2. Fits(x, "apply", {}, parents') /\ "apply" \in Applying /\ {} \in SUBSET Parents
    BY DEF Fits, Applying
  <2>3. y \in ReaderRec /\ ReaderOK(y, Dead', Handled', parents') /\ y.next = x.next
    <3> HIDE DEF x
    <3> QED
      BY <1>1, <1>2, <2>2, RephasedOK
  <2> HIDE DEF y
  <2> QED
    BY <1>1, <2>1, <2>3 DEF MovesTo
<1>6. CASE ~(Cardinality(s) > 1) /\ ~(pipeline = "notification" /\ ~x.again)
  <2>1. PICK a \in BOOLEAN : a = x.again
    BY <1>2 DEF ReaderRec
  <2> DEFINE y == Rephased(x, "lookup", {}, a)
  <2>2. cons' = [cons EXCEPT ![c] = y]
    <3>1. cons' = [cons EXCEPT ![c] = [x EXCEPT !.phase = "lookup", !.seen = {}]]
      BY <1>6 DEF Isolate
    <3>2. y = [x EXCEPT !.phase = "lookup", !.seen = {}]
      BY <1>2, <2>1 DEF ReaderRec, Rephased
    <3> QED
      BY <3>1, <3>2
  <2>3. PICK i : i \in s /\ log[i].parent \notin parents
    BY <1>1 DEF Orphans, FirstDeliveries
  <2>4. s = {i}
    <3>1. Cardinality(s) \in Nat /\ Cardinality(s \ {i}) \in Nat /\ Cardinality(s \ {i}) = Cardinality(s) - 1 /\ IsFiniteSet(s \ {i})
      BY <1>3, <2>3, FS_RemoveElement, FS_CardinalityType
    <3>2. Cardinality(s \ {i}) = 0
      BY <1>6, <3>1
    <3>3. s \ {i} = {}
      BY <3>1, <3>2, FS_EmptySet
    <3> QED
      BY <2>3, <3>3
  <2>5. Fits(x, "lookup", {}, parents') /\ "lookup" \in Applying /\ {} \in SUBSET Parents
    BY <1>1, <1>3, <2>3, <2>4 DEF Fits, Applying
  <2>6. y \in ReaderRec /\ ReaderOK(y, Dead', Handled', parents') /\ y.next = x.next
    <3> HIDE DEF x
    <3> QED
      BY <1>1, <1>2, <2>1, <2>5, RephasedOK
  <2> HIDE DEF y
  <2> QED
    BY <1>1, <2>2, <2>6 DEF MovesTo
<1> QED
  BY <1>4, <1>5, <1>6

\* Every step of a consumer leaves its reader in order.
LEMMA Moves ==
  ASSUME Readers, NEW c \in Consumers, ConsumerNext(c)
  PROVE  \E y : MovesTo(c, y)
<1>1. CASE TxFails(c) \/ LookupFails(c)
  <2>1. Retried(c) /\ UNCHANGED offset /\ cons[c].phase \in Applying
    BY <1>1 DEF TxFails, LookupFails, Applying
  <2> QED
    BY <2>1, MovesRetried
<1>2. CASE QuarantineFails(c) \/ ConsumerCrash(c) \/ Rebalance(c)
  <2>1. cons' = [cons EXCEPT ![c] = Reader(offset')] /\ offset' \in Nat
    BY <1>2, OffsetIs DEF QuarantineFails, ConsumerCrash, Rebalance, Abandoned
  <2> QED
    BY <2>1, MovesAnew
<1>3. CASE Commit(c) \/ CommitFails(c)
  <2>1. cons[c].phase # "idle"
    BY <1>3 DEF Commit, CommitFails
  <2>2. Max(cons[c].batch) \in Nat
    BY <2>1, BatchEnd, OffsetIs
  <2>3. cons' = [cons EXCEPT ![c] = Reader(offset')] /\ offset' \in Nat
    BY <1>3, <2>2, OffsetIs DEF Commit, CommitFails
  <2> QED
    BY <2>3, MovesAnew
<1> QED
  BY <1>1, <1>2, <1>3, ConsumerCases, MovesFetch, MovesQuarantine, MovesBeginTx, MovesCommitTx, MovesIsolate, MovesLookup

-----------------------------------------------------------------------------
(* The topics, the readers and what lies behind the committed offset.      *)

\* Readers that did not move, or moved well, are in order after the step.
LEMMA ReadersStep ==
  ASSUME TopicInv, ReadersInv, Grows,
         \A d \in Consumers : cons'[d] = cons[d] \/ (cons'[d] \in ReaderRec /\ ReaderOK(cons'[d], Dead', Handled', parents'))
  PROVE  ReadersInv'
<1> SUFFICES ASSUME NEW d \in Consumers PROVE ReaderOK(cons[d], Dead, Handled, parents)'
  BY DEF ReadersInv
<1>1. Dead \subseteq Dead' /\ Handled \subseteq Handled' /\ parents' \subseteq parents
  BY StablePlaces DEF Grows
<1>2. PICK D : D = Dead'
  OBVIOUS
<1>3. PICK H : H = Handled'
  OBVIOUS
<1>4. PICK P : P = parents'
  OBVIOUS
<1>5. PICK y : y = cons'[d]
  OBVIOUS
<1>6. y \in ReaderRec /\ ReaderOK(y, D, H, P)
  <2>1. CASE y = cons[d]
    <3>1. y \in ReaderRec /\ ReaderOK(y, Dead, Handled, parents)
      BY <2>1, BatchPlaces
    <3> QED
      BY <1>1, <1>2, <1>3, <1>4, <3>1, ReaderMonotone
  <2>2. CASE y # cons[d]
    BY <1>2, <1>3, <1>4, <1>5, <2>2
  <2> QED
    BY <2>1, <2>2
<1>7. ReaderOK(y, D, H, P)'
  BY <1>6, ReaderStable
<1> QED
  BY <1>2, <1>3, <1>4, <1>5, <1>7

\* The records behind the offset are handled.
LEMMA SkippedIs ==
  ASSUME TopicInv
  PROVE  NothingSkipped <=> \A i \in 1..offset : i \in Handled
<1>1. offset \in Nat /\ Len(log) \in Nat /\ offset <= Len(log)
  BY DEF TopicInv
<1>2. DOMAIN dlq = 1..Len(dlq)
  BY DEF TopicInv
<1>3. \A i \in 1..offset : i \in 1..Len(log)
  BY <1>1
<1> QED
  BY <1>2, <1>3 DEF NothingSkipped, Handled, Applied, DeadLettered

LEMMA SkippedNext ==
  ASSUME TopicInv', \A i \in 1..offset' : i \in Handled'
  PROVE  NothingSkipped'
<1>1. offset' \in Nat /\ Len(log') \in Nat /\ offset' <= Len(log')
  BY DEF TopicInv
<1>2. DOMAIN dlq' = 1..Len(dlq')
  BY DEF TopicInv
<1> QED
  BY <1>1, <1>2 DEF NothingSkipped, Handled, Applied, DeadLettered

\* A step of the world, of the command, or one that moves no offset.
LEMMA KeepsBehind ==
  ASSUME TopicInv, TopicInv', NothingSkipped, Grows, offset' = offset
  PROVE  NothingSkipped'
<1>1. \A i \in 1..offset : i \in Handled'
  BY SkippedIs, StablePlaces
<1> QED
  BY <1>1, SkippedNext

\* Everything in a batch that is to be committed is handled: an event that comes twice
\* was dropped because of an earlier record with its id, and so with its envelope.
LEMMA BatchHandled ==
  ASSUME Readers, NEW c \in Consumers, cons[c].phase = "commit"
  PROVE  \A i \in cons[c].batch : i \in Handled
<1> DEFINE x == cons[c]
           b == cons[c].batch
<1>1. /\ x \in ReaderRec /\ ReaderOK(x, Dead, Handled, parents) /\ b \subseteq 1..Len(log) /\ TopicInv /\ Dead \subseteq Handled
  BY BatchPlaces DEF Readers, Dead, Handled
<1>2. x.bad = {} /\ x.todo = <<>>
  BY <1>1 DEF ReaderOK, BadOK, TodoOK, Applying
<1>3. \A i \in b \ Decoded(b) : i \in Handled
  BY <1>1, <1>2 DEF ReaderOK, BadOK
<1>4. \A i \in Records(b) : i \in Handled
  BY <1>1, <1>2 DEF ReaderOK, CoverOK
<1>5. ASSUME NEW i \in Decoded(b) PROVE i \in Handled
  <2> DEFINE T == {j \in Decoded(b) : log[j].id = log[i].id}
  <2>1. T \subseteq Nat /\ T # {} /\ Decoded(b) \subseteq 1..Len(log)
    BY <1>1, RecordsOf
  <2>2. PICK j \in T : \A k \in T : j <= k
    <3> HIDE DEF T
    <3> QED
      BY <2>1, LeastNumber
  <2>3. j \in Records(b)
    <3>1. ASSUME NEW k \in Decoded(b), k < j PROVE log[k].id # log[j].id
      <4>1. k \in Nat /\ j \in Nat
        BY <2>1
      <4> QED
        BY <2>2, <3>1, <4>1
    <3> QED
      BY <3>1 DEF Records
  <2>4. log[j] = log[i]
    <3>1. log[i] \in Events /\ log[j] \in Events
      BY <1>1, <2>1 DEF TopicInv
    <3> QED
      BY <3>1, EventsAssumption
  <2>5. i \in 1..Len(log) /\ Decodes(log[i]) /\ j \in Handled
    BY <1>4, <2>1, <2>3, RecordsOf
  <2> QED
    BY <2>4, <2>5 DEF Handled, Applied, DeadLettered
<1> QED
  BY <1>3, <1>5

-----------------------------------------------------------------------------
(* The steps of a consumer.                                                *)

\* An offset moves to the end of the owner's batch, when that is to be committed.
LEMMA OffsetMoves ==
  ASSUME Readers, NEW c \in Consumers, ConsumerNext(c)
  PROVE  \/ offset' = offset
         \/ owner = c /\ owner' = owner /\ cons[c].phase = "commit" /\ offset' = Max(cons[c].batch) /\ cons' = [cons EXCEPT ![c] = Reader(offset')]
BY ConsumerFrame DEF Commit, CommitFails

LEMMA ConsumerTopic ==
  ASSUME Readers, NEW c \in Consumers, ConsumerNext(c)
  PROVE  TopicInv'
<1>1. UNCHANGED <<pipeline, log, parents>> /\ TopicInv /\ ReadersInv
  BY ConsumerFrame DEF Readers
<1>2. owner' \in Consumers
  BY <1>1, ConsumerFrame DEF Rebalance, TopicInv
<1>3. offset' \in 0..Len(log)
  <2>1. CASE offset' = offset
    BY <1>1, <2>1 DEF TopicInv
  <2>2. CASE offset' # offset
    <3>1. cons[c].phase # "idle" /\ offset' = Max(cons[c].batch)
      BY <2>2, OffsetMoves
    <3>2. Max(cons[c].batch) \in 1..Len(log) /\ Len(log) \in Nat
      BY <3>1, BatchEnd, OffsetIs
    <3> QED
      BY <3>1, <3>2
  <2> QED
    BY <2>1, <2>2
<1>4. cons' \in [Consumers -> ReaderRec]
  <2>1. PICK y : MovesTo(c, y)
    BY Moves
  <2> QED
    BY <1>1, <2>1 DEF MovesTo, TopicInv
<1>5. dlq' \in Seq(Letter) /\ \A d \in 1..Len(dlq') : dlq'[d].pos \in 1..Len(log) /\ log[dlq'[d].pos] = dlq'[d].event
  BY <1>1, ConsumerLetters, LettersExtend
<1> QED
  BY <1>1, <1>2, <1>3, <1>4, <1>5 DEF TopicInv

LEMMA ConsumerReaders ==
  ASSUME Readers, NEW c \in Consumers, ConsumerNext(c)
  PROVE  ReadersInv'
<1>1. PICK y : MovesTo(c, y)
  BY Moves
<1>2. Grows /\ TopicInv /\ ReadersInv
  BY ConsumerGrows DEF Readers
<1>3. ASSUME NEW d \in Consumers
      PROVE  cons'[d] = cons[d] \/ (cons'[d] \in ReaderRec /\ ReaderOK(cons'[d], Dead', Handled', parents'))
  <2>1. cons' = [cons EXCEPT ![c] = y] /\ y \in ReaderRec /\ ReaderOK(y, Dead', Handled', parents') /\ cons \in [Consumers -> ReaderRec]
    BY <1>1, <1>2 DEF MovesTo, TopicInv
  <2>2. cons'[d] = IF d = c THEN y ELSE cons[d]
    BY <2>1
  <2> QED
    BY <2>1, <2>2
<1> QED
  BY <1>2, <1>3, ReadersStep

LEMMA ConsumerOwner ==
  ASSUME Readers, OwnerInv, NEW c \in Consumers, ConsumerNext(c)
  PROVE  OwnerInv'
<1>1. cons \in [Consumers -> ReaderRec] /\ owner \in Consumers
  BY DEF Readers, TopicInv
<1>2. PICK y : MovesTo(c, y)
  BY Moves
<1>3. CASE Rebalance(c)
  <2>1. owner' = c /\ offset' = offset /\ cons'[c] = Reader(offset)
    BY <1>1, <1>3 DEF Rebalance
  <2> QED
    BY <2>1 DEF OwnerInv, Reader
<1>4. CASE owner' = owner /\ owner = c
  <2>1. cons'[c] = y /\ (y.next = offset' \/ (y.next = cons[c].next /\ offset' = offset))
    BY <1>1, <1>2 DEF MovesTo
  <2> QED
    BY <1>4, <2>1 DEF OwnerInv
<1>5. CASE owner' = owner /\ owner # c
  <2>1. cons'[owner] = cons[owner] /\ offset' = offset
    BY <1>1, <1>2, <1>5, OffsetMoves DEF MovesTo
  <2> QED
    BY <1>5, <2>1 DEF OwnerInv
<1> QED
  BY <1>3, <1>4, <1>5, ConsumerFrame

LEMMA ConsumerBehind ==
  ASSUME Readers, OwnerInv, NothingSkipped, NEW c \in Consumers, ConsumerNext(c)
  PROVE  NothingSkipped'
<1>1. Grows /\ TopicInv /\ TopicInv'
  BY ConsumerGrows, ConsumerTopic DEF Readers
<1>2. CASE offset' = offset
  BY <1>1, <1>2, KeepsBehind
<1>3. CASE offset' # offset
  <2>1. owner = c /\ cons[c].phase = "commit" /\ offset' = Max(cons[c].batch)
    BY <1>3, OffsetMoves
  <2>2. cons[c].batch = offset + 1 .. offset' /\ offset \in Nat /\ offset' \in Nat
    <3>1. cons[c].phase # "idle"
      BY <2>1
    <3>2. cons[c].batch = cons[c].next + 1 .. offset' /\ offset' \in 1..Len(log) /\ offset \in Nat /\ Len(log) \in Nat
      BY <2>1, <3>1, BatchEnd, OffsetIs
    <3> QED
      BY <2>1, <3>2 DEF OwnerInv
  <2>3. \A i \in cons[c].batch : i \in Handled
    BY <2>1, BatchHandled
  <2>4. \A i \in 1..offset : i \in Handled
    BY <1>1, SkippedIs
  <2>5. \A i \in 1..offset' : i \in Handled
    BY <2>2, <2>3, <2>4
  <2>6. \A i \in 1..offset' : i \in Handled'
    BY <1>1, <2>5, StablePlaces
  <2> QED
    BY <1>1, <2>6, SkippedNext
<1> QED
  BY <1>2, <1>3

\* The dead letters that are there stay deserved: events never change and rows never return.
LEMMA LettersDeserved ==
  ASSUME TopicInv, QuarantineIsDeserved, Grows, log' = log, Letters
  PROVE  QuarantineIsDeserved'
<1>1. dlq \in Seq(Letter) /\ DOMAIN dlq = 1..Len(dlq) /\ Len(dlq) \in Nat /\ parents' \subseteq parents
  BY DEF TopicInv, Grows
<1>2. CASE dlq' = dlq
  BY <1>1, <1>2 DEF QuarantineIsDeserved
<1>3. ASSUME NEW i, NEW code, NewLetter(i, code) PROVE QuarantineIsDeserved'
  <2>1. PICK e : e = [pos |-> i, event |-> log[i], code |-> code]
    OBVIOUS
  <2>2. e \in Letter /\ e.event = log[i] /\ e.code = code /\ dlq' = Append(dlq, e) /\ Deserved(i, code)
    BY <1>3, <2>1 DEF NewLetter, DeadLetter, Letter, TopicInv
  <2>3. /\ DOMAIN dlq' = 1..Len(dlq') /\ Len(dlq') = Len(dlq) + 1 /\ dlq'[Len(dlq) + 1] = e
        /\ \A d \in 1..Len(dlq) : dlq'[d] = dlq[d]
    BY <1>1, <2>2, Appended DEF Extends
  <2>4. ASSUME NEW d \in 1..Len(dlq')
        PROVE  IF dlq'[d].code = "decode" THEN ~Decodes(dlq'[d].event)
               ELSE Decodes(dlq'[d].event) /\ dlq'[d].event.parent \notin parents'
    <3>1. CASE d = Len(dlq) + 1
      BY <1>1, <2>2, <2>3, <3>1 DEF Deserved
    <3>2. CASE d # Len(dlq) + 1
      <4>1. d \in 1..Len(dlq)
        BY <1>1, <2>3, <3>2
      <4> QED
        BY <1>1, <2>3, <4>1 DEF QuarantineIsDeserved
    <3> QED
      BY <3>1, <3>2
  <2> QED
    BY <2>3, <2>4 DEF QuarantineIsDeserved
<1> QED
  BY <1>2, <1>3 DEF Letters

LEMMA ConsumerStepInv ==
  ASSUME IInv, NEW c \in Consumers, ConsumerNext(c)
  PROVE  TopicInv' /\ ReadersInv' /\ OwnerInv' /\ NothingSkipped' /\ QuarantineIsDeserved' /\ Grows
<1>1. Readers /\ TopicInv /\ ReadersInv
  BY DEF IInv, Readers
<1>2. Grows /\ Letters /\ log' = log
  BY <1>1, ConsumerGrows, ConsumerLetters, ConsumerFrame
<1>3. QuarantineIsDeserved'
  BY <1>1, <1>2, LettersDeserved DEF IInv
<1> QED
  BY <1>1, <1>2, <1>3, ConsumerTopic, ConsumerReaders, ConsumerOwner, ConsumerBehind DEF IInv

-----------------------------------------------------------------------------
(* The steps of the world and of the command.                              *)

\* A step that only adds to the source topic or takes rows away.
LEMMA WorldKeeps ==
  ASSUME IInv, Grows, UNCHANGED <<cons, offset, owner, dlq>>
  PROVE  TopicInv' /\ ReadersInv' /\ OwnerInv' /\ NothingSkipped' /\ QuarantineIsDeserved'
<1>1. TopicInv /\ ReadersInv /\ OwnerInv /\ NothingSkipped /\ QuarantineIsDeserved
  BY DEF IInv
<1>2. /\ Len(log) \in Nat /\ Len(log') \in Nat /\ Len(log) <= Len(log')
      /\ \A i \in 1..Len(log) : log'[i] = log[i]
  BY <1>1 DEF TopicInv, Grows, Extends
<1>3. TopicInv'
  <2>1. \A d \in 1..Len(dlq) : dlq[d].pos \in 1..Len(log') /\ log'[dlq[d].pos] = dlq[d].event
    BY <1>1, <1>2 DEF TopicInv
  <2>2. offset \in 0..Len(log')
    BY <1>1, <1>2 DEF TopicInv
  <2>3. pipeline' \in Pipelines /\ parents' \subseteq Parents /\ log' \in Seq(Events)
    BY <1>1 DEF TopicInv, Grows
  <2> QED
    BY <1>1, <2>1, <2>2, <2>3 DEF TopicInv
<1>4. ReadersInv'
  BY <1>1, ReadersStep
<1>5. OwnerInv'
  BY <1>1 DEF OwnerInv
<1>6. NothingSkipped'
  BY <1>1, <1>3, KeepsBehind
<1>7. QuarantineIsDeserved'
  BY <1>1 DEF QuarantineIsDeserved, Grows
<1> QED
  BY <1>3, <1>4, <1>5, <1>6, <1>7

\* A step that adds nothing to the topics and takes no row away.
LEMMA SameGrows ==
  ASSUME TopicInv, UNCHANGED <<pipeline, log, parents, inbox, dlq>>
  PROVE  Grows
BY DEF TopicInv, Grows, Extends

\* A message that is appended to the source topic.
LEMMA LogGrows ==
  ASSUME TopicInv, UNCHANGED <<pipeline, parents, inbox, dlq>>, NEW e \in Events, log' = Append(log, e)
  PROVE  Grows /\ Len(log') = Len(log) + 1 /\ log'[Len(log) + 1] = e
<1>1. log' \in Seq(Events) /\ Extends(log, log') /\ Len(log') = Len(log) + 1 /\ log'[Len(log) + 1] = e
  BY Appended DEF TopicInv
<1>2. Extends(dlq, dlq') /\ dlq' \in Seq(Letter)
  BY DEF TopicInv, Extends
<1> QED
  BY <1>1, <1>2 DEF Grows

LEMMA WorldGrows ==
  ASSUME IInv, WorldNext
  PROVE  Grows /\ UNCHANGED <<cons, offset, owner, dlq>>
<1>1. TopicInv
  BY DEF IInv
<1>2. CASE \E e \in Events : Publish(e)
  <2>1. PICK e \in Events : Publish(e)
    BY <1>2
  <2>2. log' = Append(log, e) /\ UNCHANGED <<pipeline, parents, inbox, cons, offset, owner, dlq>>
    BY <2>1 DEF Publish, tables
  <2> QED
    BY <1>1, <2>2, LogGrows
<1>3. CASE \E p \in Parents : DeleteParent(p)
  <2>1. UNCHANGED <<pipeline, log, inbox, cons, offset, owner, dlq>> /\ parents' \subseteq parents
    BY <1>3 DEF DeleteParent, tables
  <2> QED
    BY <1>1, <2>1 DEF Grows, Extends, TopicInv
<1>4. CASE \E k \in Keys : MarkRead(k)
  <2>1. UNCHANGED <<pipeline, log, parents, inbox, cons, offset, owner, dlq>>
    BY <1>4 DEF MarkRead
  <2> QED
    BY <1>1, <2>1, SameGrows
<1> QED
  BY <1>2, <1>3, <1>4 DEF WorldNext

\* The command's own state is not disturbed by the others: the records of its plan stay
\* where they are.
ToolOK == ToolInv /\ ReplaysAreAudited

LEMMA ToolKeeps ==
  ASSUME TopicInv, ToolOK, Grows, UNCHANGED <<tool, audit, sent>>
  PROVE  ToolOK'
<1>1. /\ Len(dlq) \in Nat /\ Len(dlq') \in Nat /\ Len(dlq) <= Len(dlq') /\ \A d \in 1..Len(dlq) : dlq'[d] = dlq[d]
      /\ Len(log) \in Nat /\ Len(log') \in Nat /\ Len(log) <= Len(log') /\ \A i \in 1..Len(log) : log'[i] = log[i]
      /\ DOMAIN dlq = 1..Len(dlq) /\ DOMAIN dlq' = 1..Len(dlq')
  BY DEF TopicInv, Grows, Extends
<1>2. ToolInv /\ ReplaysAreAudited
  BY DEF ToolOK
<1>3. Current' = Current
  BY DEF Current
<1>4. ToolInv'
  BY <1>1, <1>2, <1>3 DEF ToolInv
<1>5. ASSUME NEW s \in sent
      PROVE  audit[s[1]].rec \in DOMAIN dlq' /\ dlq'[audit[s[1]].rec].event = log'[s[2]]
  <2>1. s[1] \in 1..Len(audit) /\ s[2] \in 1..Len(log)
    BY <1>2 DEF ToolInv
  <2>2. audit[s[1]].rec \in 1..Len(dlq) /\ dlq[audit[s[1]].rec].event = log[s[2]]
    BY <1>2, <2>1 DEF ToolInv, ReplaysAreAudited
  <2>3. PICK r : r = audit[s[1]].rec
    OBVIOUS
  <2>4. r \in DOMAIN dlq' /\ dlq'[r] = dlq[r] /\ log'[s[2]] = log[s[2]]
    BY <1>1, <2>1, <2>2, <2>3
  <2> QED
    BY <2>2, <2>3, <2>4
<1>6. ReplaysAreAudited'
  BY <1>2, <1>5 DEF ReplaysAreAudited
<1> QED
  BY <1>4, <1>6 DEF ToolOK

\* What the audit says of the messages that were sent.
SentOK ==
  /\ audit \in Seq(AuditRow) /\ sent \subseteq (1..Len(audit)) \X (1..Len(log))
  /\ \A a \in 1..Len(audit) : audit[a].rec \in 1..Len(dlq)
  /\ \A s \in sent : dlq[audit[s[1]].rec].event = log[s[2]]
  /\ \A s, t \in sent : s[1] = t[1] <=> s[2] = t[2]
  /\ \A a \in 1..Len(audit) : audit[a].status = "succeeded" => \E s \in sent : s[1] = a

\* What the command is about to do.
PhaseOK ==
  /\ tool \in ToolRec /\ tool.plan \subseteq 1..Len(dlq) /\ tool.queue \subseteq tool.plan
  /\ tool.phase \in {"publish", "complete"} => tool.queue # {} /\ audit # <<>> /\ audit[Len(audit)].rec = Current
  /\ tool.phase = "publish" => \A s \in sent : s[1] # Len(audit)
  /\ tool.phase = "complete" => \E s \in sent : s[1] = Len(audit)

LEMMA ToolParts ==
  ASSUME TopicInv
  PROVE  ToolOK <=> SentOK /\ PhaseOK
<1>1. DOMAIN dlq = 1..Len(dlq)
  BY DEF TopicInv
<1>2. audit \in Seq(AuditRow) => DOMAIN audit = 1..Len(audit)
  OBVIOUS
<1>3. SentOK /\ PhaseOK => ToolInv
  BY DEF SentOK, PhaseOK, ToolInv
<1>4. SentOK => \A s \in sent : s[1] \in 1..Len(audit) /\ audit[s[1]].rec \in DOMAIN dlq
  BY <1>1 DEF SentOK
<1>5. SentOK /\ PhaseOK => ReplaysAreAudited
  BY <1>1, <1>2, <1>4 DEF SentOK, PhaseOK, ReplaysAreAudited
<1>6. ToolInv /\ ReplaysAreAudited => SentOK /\ PhaseOK
  BY <1>1, <1>2 DEF SentOK, PhaseOK, ToolInv, ReplaysAreAudited
<1> QED
  BY <1>3, <1>5, <1>6 DEF ToolOK

LEMMA ToolPartsNext ==
  ASSUME TopicInv', SentOK', PhaseOK'
  PROVE  ToolOK'
<1>1. DOMAIN dlq' = 1..Len(dlq')
  BY DEF TopicInv
<1>2. audit' \in Seq(AuditRow) => DOMAIN audit' = 1..Len(audit')
  OBVIOUS
<1>3. ToolInv'
  BY DEF SentOK, PhaseOK, ToolInv
<1>4. \A s \in sent' : s[1] \in 1..Len(audit') /\ audit'[s[1]].rec \in DOMAIN dlq'
  BY <1>1 DEF SentOK
<1>5. ReplaysAreAudited'
  BY <1>1, <1>2, <1>4 DEF SentOK, PhaseOK, ReplaysAreAudited
<1> QED
  BY <1>3, <1>5 DEF ToolOK

\* Rows keep their record; one succeeds when its message is there.
Rows ==
  /\ audit' \in Seq(AuditRow) /\ Len(audit') = Len(audit)
  /\ \A a \in 1..Len(audit) : /\ audit'[a].rec = audit[a].rec
                              /\ audit'[a].status = "succeeded" => audit[a].status = "succeeded" \/ \E s \in sent : s[1] = a

LEMMA RowsKeep ==
  ASSUME TopicInv, SentOK, Grows, Rows, sent' = sent
  PROVE  SentOK'
<1>1. /\ Len(dlq) \in Nat /\ Len(dlq') \in Nat /\ Len(dlq) <= Len(dlq') /\ \A d \in 1..Len(dlq) : dlq'[d] = dlq[d]
      /\ Len(log) \in Nat /\ Len(log') \in Nat /\ Len(log) <= Len(log') /\ \A i \in 1..Len(log) : log'[i] = log[i]
  BY DEF TopicInv, Grows, Extends
<1>2. audit' \in Seq(AuditRow) /\ sent' \subseteq (1..Len(audit')) \X (1..Len(log'))
  BY <1>1 DEF SentOK, Rows
<1>3. \A a \in 1..Len(audit') : audit'[a].rec \in 1..Len(dlq')
  BY <1>1 DEF SentOK, Rows
<1>4. ASSUME NEW s \in sent' PROVE dlq'[audit'[s[1]].rec].event = log'[s[2]]
  <2>1. s[1] \in 1..Len(audit) /\ s[2] \in 1..Len(log)
    BY <1>4 DEF SentOK
  <2>2. audit'[s[1]].rec = audit[s[1]].rec /\ audit[s[1]].rec \in 1..Len(dlq)
    BY <2>1 DEF Rows, SentOK
  <2>3. PICK r : r = audit[s[1]].rec
    OBVIOUS
  <2>4. dlq'[r] = dlq[r] /\ log'[s[2]] = log[s[2]]
    BY <1>1, <2>1, <2>2, <2>3
  <2>5. dlq[r].event = log[s[2]]
    BY <1>4, <2>3 DEF SentOK
  <2> QED
    BY <2>2, <2>3, <2>4, <2>5
<1>5. \A s, t \in sent' : s[1] = t[1] <=> s[2] = t[2]
  BY DEF SentOK
<1>6. \A a \in 1..Len(audit') : audit'[a].status = "succeeded" => \E s \in sent' : s[1] = a
  BY DEF SentOK, Rows
<1> QED
  BY <1>2, <1>3, <1>4, <1>5, <1>6 DEF SentOK

\* The message of the last row is sent; it had none before.
LEMMA RowsSend ==
  ASSUME TopicInv, SentOK, Grows, dlq' = dlq, Rows, Replayed, audit # <<>>, audit[Len(audit)].rec = Current,
         \A s \in sent : s[1] # Len(audit)
  PROVE  SentOK' /\ \E s \in sent' : s[1] = Len(audit)
<1> DEFINE n == <<Len(audit), Len(log) + 1>>
<1>1. Len(audit) \in 1..Len(audit) /\ Len(log) \in Nat
  BY DEF TopicInv, SentOK
<1>2. audit[Len(audit)].rec \in 1..Len(dlq) /\ dlq[Current].event \in Events
  <2>1. audit[Len(audit)].rec \in 1..Len(dlq)
    BY <1>1 DEF SentOK
  <2>2. dlq[Current] \in Letter
    BY <2>1 DEF TopicInv
  <2> QED
    BY <2>1, <2>2 DEF Letter
<1>3. /\ sent' = sent \cup {n} /\ Len(log') = Len(log) + 1 /\ log'[Len(log) + 1] = dlq[Current].event
      /\ \A i \in 1..Len(log) : log'[i] = log[i]
  <2>1. log' = Append(log, dlq[Current].event) /\ log \in Seq(Events)
    BY DEF Replayed, TopicInv
  <2> QED
    BY <1>2, <2>1, Appended DEF Replayed, Extends
<1>4. n[1] = Len(audit) /\ n[2] = Len(log) + 1
  OBVIOUS
<1>5. \A s \in sent : s[1] \in 1..Len(audit) /\ s[2] \in 1..Len(log)
  BY DEF SentOK
<1>6. audit' \in Seq(AuditRow) /\ Len(audit') = Len(audit)
  BY DEF Rows
<1>7. sent' \subseteq (1..Len(audit')) \X (1..Len(log'))
  <2>1. n \in (1..Len(audit')) \X (1..Len(log'))
    BY <1>1, <1>3, <1>6
  <2>2. sent \subseteq (1..Len(audit')) \X (1..Len(log'))
    BY <1>1, <1>3, <1>6 DEF SentOK
  <2> HIDE DEF n
  <2> QED
    BY <1>3, <2>1, <2>2
<1> HIDE DEF n
<1>8. \A a \in 1..Len(audit') : audit'[a].rec \in 1..Len(dlq')
  BY <1>6 DEF SentOK, Rows
<1>9. ASSUME NEW s \in sent' PROVE dlq'[audit'[s[1]].rec].event = log'[s[2]]
  <2>1. CASE s = n
    BY <1>1, <1>2, <1>3, <1>4, <2>1 DEF Rows
  <2>2. CASE s \in sent
    <3>1. s[1] \in 1..Len(audit) /\ s[2] \in 1..Len(log) /\ dlq[audit[s[1]].rec].event = log[s[2]]
      BY <1>5, <2>2 DEF SentOK
    <3> QED
      BY <1>3, <3>1 DEF Rows
  <2> QED
    BY <1>3, <2>1, <2>2
<1>10. ASSUME NEW s \in sent', NEW t \in sent' PROVE s[1] = t[1] <=> s[2] = t[2]
  <2>1. \A r \in sent : r[1] # n[1] /\ r[2] # n[2]
    BY <1>1, <1>4, <1>5
  <2> QED
    BY <1>3, <2>1 DEF SentOK
<1>11. \A a \in 1..Len(audit') : audit'[a].status = "succeeded" => \E s \in sent' : s[1] = a
  BY <1>3, <1>6 DEF SentOK, Rows
<1> QED
  BY <1>3, <1>4, <1>6, <1>7, <1>8, <1>9, <1>10, <1>11 DEF SentOK

\* The steps of the command that send nothing and write no row.
LEMMA QuietSteps ==
  ASSUME TopicInv, ToolOK, NEW i,
         (\E code \in Codes : DryRun(code)) \/ Execute \/ (i \in DOMAIN dlq /\ ExecuteSingle(i)) \/ StopReplay
  PROVE  PhaseOK' /\ UNCHANGED <<audit, sent, log, dlq, parents, inbox, pipeline, cons, offset, owner>>
<1>1. /\ DOMAIN dlq = 1..Len(dlq) /\ Len(dlq) \in Nat /\ PhaseOK
      /\ \A d \in 1..Len(dlq) : dlq[d].code \in Codes
  <2>1. dlq \in Seq(Letter)
    BY DEF TopicInv
  <2>2. \A d \in 1..Len(dlq) : dlq[d] \in Letter
    BY <2>1
  <2> QED
    BY <2>1, <2>2, ToolParts DEF Letter
<1>2. \A code : Matches(code) \subseteq 1..Len(dlq) /\ Returned(code) \subseteq 1..Len(dlq)
  BY <1>1 DEF Matches, Returned
<1>3. NoTool \in ToolRec /\ NoTool.phase = "idle" /\ NoTool.plan = {} /\ NoTool.queue = {}
  BY DEF NoTool, ToolRec
<1>4. CASE \E code \in Codes : DryRun(code)
  <2>1. PICK code \in Codes : DryRun(code)
    BY <1>4
  <2>2. PICK r : r = Returned(code)
    OBVIOUS
  <2>3. tool' = [NoTool EXCEPT !.phase = "confirmed", !.code = code, !.plan = r]
    BY <2>1, <2>2 DEF DryRun
  <2>4. r \in SUBSET Nat /\ r \subseteq 1..Len(dlq)
    BY <1>2, <2>2
  <2>5. tool' \in ToolRec /\ tool'.phase = "confirmed" /\ tool'.plan = r /\ tool'.queue = {}
    BY <1>3, <2>3, <2>4 DEF ToolRec
  <2>6. UNCHANGED <<audit, sent, log, dlq, parents, inbox, pipeline, cons, offset, owner>>
    BY <2>1 DEF DryRun, cvars
  <2> QED
    BY <2>4, <2>5, <2>6 DEF PhaseOK
<1>5. CASE Execute
  <2>1. UNCHANGED <<audit, sent, log, dlq, parents, inbox, pipeline, cons, offset, owner>>
    BY <1>5 DEF Execute, cvars
  <2>2. CASE tool' = NoTool
    BY <1>3, <2>1, <2>2 DEF PhaseOK
  <2>3. CASE tool' = [tool EXCEPT !.phase = "next", !.queue = tool.plan]
    <3>1. tool \in ToolRec /\ tool.plan \subseteq 1..Len(dlq)
      BY <1>1 DEF PhaseOK
    <3>2. tool' \in ToolRec /\ tool'.phase = "next" /\ tool'.plan = tool.plan /\ tool'.queue = tool.plan
      BY <2>3, <3>1 DEF ToolRec
    <3> QED
      BY <2>1, <3>1, <3>2 DEF PhaseOK
  <2> QED
    BY <1>5, <2>2, <2>3 DEF Execute
<1>6. CASE i \in DOMAIN dlq /\ ExecuteSingle(i)
  <2>1. PICK code \in Codes : code = dlq[i].code
    BY <1>1, <1>6
  <2>2. PICK r : r = {i}
    OBVIOUS
  <2>3. tool' = [NoTool EXCEPT !.phase = "next", !.code = code, !.plan = r, !.queue = r]
    BY <1>6, <2>1, <2>2 DEF ExecuteSingle
  <2>4. r \in SUBSET Nat /\ r \subseteq 1..Len(dlq)
    BY <1>1, <1>6, <2>2
  <2>5. tool' \in ToolRec /\ tool'.phase = "next" /\ tool'.plan = r /\ tool'.queue = r
    BY <1>3, <2>3, <2>4 DEF ToolRec
  <2>6. UNCHANGED <<audit, sent, log, dlq, parents, inbox, pipeline, cons, offset, owner>>
    BY <1>6 DEF ExecuteSingle, cvars
  <2> QED
    BY <2>4, <2>5, <2>6 DEF PhaseOK
<1>7. CASE StopReplay
  <2>1. tool' = NoTool /\ UNCHANGED <<audit, sent, log, dlq, parents, inbox, pipeline, cons, offset, owner>>
    BY <1>7 DEF StopReplay, tables
  <2> QED
    BY <1>3, <2>1 DEF PhaseOK
<1> QED
  BY <1>4, <1>5, <1>6, <1>7

\* A row for the next record, which has no message yet.
LEMMA StartsReplay ==
  ASSUME TopicInv, ToolOK, StartReplay
  PROVE  /\ SentOK' /\ PhaseOK'
         /\ UNCHANGED <<log, dlq, parents, inbox, pipeline, cons, offset, owner>>
<1>1. UNCHANGED <<sent, log, dlq, parents, inbox, pipeline, cons, offset, owner>>
  BY DEF StartReplay, cvars
<1>2. SentOK /\ PhaseOK
  BY ToolParts
<1>3. Current \in tool.queue /\ Current \in 1..Len(dlq)
  <2>1. tool.queue # {} /\ tool.queue \subseteq 1..Len(dlq)
    BY <1>2 DEF StartReplay, PhaseOK
  <2>2. tool.queue \subseteq Nat
    BY <2>1 DEF TopicInv
  <2> QED
    BY <2>1, <2>2, MinIs DEF Current
<1>4. PICK e : e = [rec |-> Current, status |-> "started"]
  OBVIOUS
<1>5. e \in AuditRow /\ e.rec = Current /\ e.status = "started" /\ audit' = Append(audit, e)
  BY <1>3, <1>4 DEF StartReplay, AuditRow, TopicInv
<1>6. /\ audit' \in Seq(AuditRow) /\ Len(audit') = Len(audit) + 1 /\ audit'[Len(audit) + 1] = e /\ Len(audit) \in Nat
      /\ \A a \in 1..Len(audit) : audit'[a] = audit[a]
  <2>1. audit \in Seq(AuditRow)
    BY <1>2 DEF SentOK
  <2> QED
    BY <1>5, <2>1, Appended DEF Extends
<1>7. \A s \in sent : s[1] \in 1..Len(audit)
  BY <1>2 DEF SentOK
<1>8. SentOK'
  <2>1. sent \subseteq (1..Len(audit')) \X (1..Len(log'))
    <3>1. 1..Len(audit) \subseteq 1..Len(audit')
      BY <1>6
    <3> QED
      BY <1>1, <1>2, <3>1 DEF SentOK
  <2>2. ASSUME NEW a \in 1..Len(audit')
        PROVE  audit'[a].rec \in 1..Len(dlq) /\ (audit'[a].status = "succeeded" => \E s \in sent : s[1] = a)
    <3>1. CASE a = Len(audit) + 1
      BY <1>3, <1>5, <1>6, <3>1
    <3>2. CASE a # Len(audit) + 1
      <4>1. a \in 1..Len(audit)
        BY <1>6, <3>2
      <4> QED
        BY <1>2, <1>6, <4>1 DEF SentOK
    <3> QED
      BY <3>1, <3>2
  <2>3. \A s \in sent : dlq[audit'[s[1]].rec].event = log[s[2]]
    BY <1>2, <1>6, <1>7 DEF SentOK
  <2> QED
    BY <1>1, <1>2, <1>6, <2>1, <2>2, <2>3 DEF SentOK
<1>9. tool' \in ToolRec /\ tool'.phase = "publish" /\ tool'.plan = tool.plan /\ tool'.queue = tool.queue
  <2>1. tool' = [tool EXCEPT !.phase = "publish"] /\ tool \in ToolRec
    BY <1>2 DEF StartReplay, PhaseOK
  <2> QED
    BY <2>1 DEF ToolRec
<1>10. PhaseOK'
  <2>1. Current' = Current /\ tool.queue # {}
    BY <1>9 DEF Current, StartReplay
  <2>2. audit' # <<>> /\ audit'[Len(audit')].rec = Current
    BY <1>5, <1>6
  <2>3. \A s \in sent : s[1] # Len(audit')
    BY <1>6, <1>7
  <2> QED
    BY <1>1, <1>2, <1>9, <2>1, <2>2, <2>3 DEF PhaseOK
<1> QED
  BY <1>1, <1>8, <1>10

\* The message goes to the source topic; the row may say so later.
LEMMA Publishes ==
  ASSUME TopicInv, ToolOK, tool.phase = "publish", Replayed, UNCHANGED <<pipeline, parents, inbox, dlq>>, Rows
  PROVE  SentOK' /\ Grows /\ \E s \in sent' : s[1] = Len(audit)
<1>1. /\ SentOK /\ audit # <<>> /\ audit[Len(audit)].rec = Current
      /\ \A s \in sent : s[1] # Len(audit)
  BY ToolParts DEF PhaseOK
<1>2. Grows
  <2>1. Len(audit) \in 1..Len(audit)
    BY <1>1 DEF SentOK
  <2>2. Current \in 1..Len(dlq)
    BY <1>1, <2>1 DEF SentOK
  <2>3. dlq[Current] \in Letter
    BY <2>2 DEF TopicInv
  <2>4. dlq[Current].event \in Events /\ log' = Append(log, dlq[Current].event)
    BY <2>3 DEF Letter, Replayed
  <2> QED
    BY <2>4, LogGrows
<1> QED
  BY <1>1, <1>2, RowsSend

LEMMA PublishesReplay ==
  ASSUME TopicInv, ToolOK, PublishReplay
  PROVE  SentOK' /\ PhaseOK' /\ Grows /\ UNCHANGED <<dlq, cons, offset, owner>>
<1>1. /\ tool.phase = "publish" /\ Replayed /\ audit' = audit /\ UNCHANGED <<pipeline, parents, inbox, dlq, cons, offset, owner>>
      /\ tool' = [tool EXCEPT !.phase = "complete"]
  BY DEF PublishReplay, tables
<1>2. SentOK /\ PhaseOK
  BY ToolParts
<1>3. Rows
  BY <1>1, <1>2 DEF Rows, SentOK
<1>4. SentOK' /\ Grows /\ \E s \in sent' : s[1] = Len(audit)
  BY <1>1, <1>3, Publishes
<1>5. tool' \in ToolRec /\ tool'.phase = "complete" /\ tool'.plan = tool.plan /\ tool'.queue = tool.queue
  BY <1>1, <1>2 DEF ToolRec, PhaseOK
<1>6. Current' = Current
  BY <1>5 DEF Current
<1> QED
  BY <1>1, <1>2, <1>4, <1>5, <1>6 DEF PhaseOK

LEMMA PublishFails ==
  ASSUME TopicInv, ToolOK, PublishReplayFails
  PROVE  SentOK' /\ PhaseOK' /\ Grows /\ UNCHANGED <<dlq, cons, offset, owner>>
<1>1. /\ tool.phase = "publish" /\ UNCHANGED <<pipeline, parents, inbox, dlq, cons, offset, owner>>
      /\ tool' = NoTool /\ (Replayed \/ (log' = log /\ sent' = sent))
  BY DEF PublishReplayFails, tables
<1>2. SentOK /\ PhaseOK /\ audit # <<>>
  BY <1>1, ToolParts DEF PhaseOK
<1>3. PICK s \in {"unknown", "started"} : audit' = [audit EXCEPT ![Len(audit)].status = s]
  BY DEF PublishReplayFails
<1>4. Rows
  <2>1. audit \in Seq(AuditRow) /\ Len(audit) \in 1..Len(audit)
    BY <1>2 DEF SentOK
  <2>2. PICK r : r = [audit[Len(audit)] EXCEPT !.status = s]
    OBVIOUS
  <2>3. audit[Len(audit)] \in AuditRow
    BY <2>1
  <2>4. r \in AuditRow /\ r.rec = audit[Len(audit)].rec /\ r.status = s
    BY <2>2, <2>3 DEF AuditRow
  <2>5. audit' = [audit EXCEPT ![Len(audit)] = r]
    BY <1>3, <2>2
  <2>6. audit' \in Seq(AuditRow) /\ Len(audit') = Len(audit) /\ \A a \in 1..Len(audit) : audit'[a] = IF a = Len(audit) THEN r ELSE audit[a]
    BY <2>1, <2>4, <2>5
  <2> QED
    BY <2>4, <2>6 DEF Rows
<1>5. SentOK' /\ Grows
  <2>1. CASE Replayed
    BY <1>1, <1>4, <2>1, Publishes
  <2>2. CASE log' = log /\ sent' = sent
    <3>1. Grows
      BY <1>1, <2>2, SameGrows
    <3> QED
      BY <1>2, <1>4, <2>2, <3>1, RowsKeep
  <2> QED
    BY <1>1, <2>1, <2>2
<1>6. PhaseOK'
  BY <1>1 DEF PhaseOK, NoTool, ToolRec
<1> QED
  BY <1>1, <1>5, <1>6

\* The row says succeeded once its message is in the topic.
LEMMA CompletesReplay ==
  ASSUME TopicInv, ToolOK, CompleteReplay
  PROVE  SentOK' /\ PhaseOK' /\ UNCHANGED <<log, dlq, parents, inbox, pipeline, cons, offset, owner>>
<1>1. /\ tool.phase = "complete" /\ UNCHANGED <<sent, log, dlq, parents, inbox, pipeline, cons, offset, owner>>
      /\ audit' = [audit EXCEPT ![Len(audit)].status = "succeeded"]
      /\ tool' = NoTool \/ tool' = [tool EXCEPT !.phase = "next", !.queue = tool.queue \ {Current}]
  BY DEF CompleteReplay, cvars
<1>2. SentOK /\ PhaseOK /\ audit # <<>> /\ \E s \in sent : s[1] = Len(audit)
  BY <1>1, ToolParts DEF PhaseOK
<1>3. Rows
  <2>1. audit \in Seq(AuditRow) /\ Len(audit) \in 1..Len(audit)
    BY <1>2 DEF SentOK
  <2>2. PICK r : r = [audit[Len(audit)] EXCEPT !.status = "succeeded"]
    OBVIOUS
  <2>3. audit[Len(audit)] \in AuditRow
    BY <2>1
  <2>4. r \in AuditRow /\ r.rec = audit[Len(audit)].rec
    BY <2>2, <2>3 DEF AuditRow
  <2>5. audit' = [audit EXCEPT ![Len(audit)] = r]
    BY <1>1, <2>2
  <2>6. audit' \in Seq(AuditRow) /\ Len(audit') = Len(audit) /\ \A a \in 1..Len(audit) : audit'[a] = IF a = Len(audit) THEN r ELSE audit[a]
    BY <2>1, <2>4, <2>5
  <2> QED
    BY <1>2, <2>4, <2>6 DEF Rows
<1>4. SentOK'
  BY <1>1, <1>2, <1>3, SameGrows, RowsKeep
<1>5. PhaseOK'
  <2>1. CASE tool' = NoTool
    BY <2>1 DEF PhaseOK, NoTool, ToolRec
  <2>2. CASE tool' = [tool EXCEPT !.phase = "next", !.queue = tool.queue \ {Current}]
    <3>1. PICK r : r = tool.queue \ {Current}
      OBVIOUS
    <3>2. tool' = [tool EXCEPT !.phase = "next", !.queue = r]
      BY <2>2, <3>1
    <3>3. tool \in ToolRec /\ tool.queue \subseteq tool.plan /\ tool.plan \subseteq 1..Len(dlq)
      BY <1>2 DEF PhaseOK
    <3>4. r \in SUBSET Nat /\ r \subseteq tool.plan
      BY <3>1, <3>3 DEF ToolRec
    <3>5. tool' \in ToolRec /\ tool'.phase = "next" /\ tool'.plan = tool.plan /\ tool'.queue = r
      BY <3>2, <3>3, <3>4 DEF ToolRec
    <3> QED
      BY <1>1, <3>3, <3>4, <3>5 DEF PhaseOK
  <2> QED
    BY <1>1, <2>1, <2>2
<1> QED
  BY <1>1, <1>4, <1>5

LEMMA ToolSteps ==
  ASSUME TopicInv, ToolOK, ToolNext
  PROVE  /\ Grows /\ PhaseOK' /\ (SentOK' \/ UNCHANGED <<audit, sent, log, dlq>>)
         /\ UNCHANGED <<cons, offset, owner, dlq>>
<1>1. CASE StartReplay
  BY <1>1, StartsReplay, SameGrows
<1>2. CASE PublishReplay
  BY <1>2, PublishesReplay
<1>3. CASE PublishReplayFails
  BY <1>3, PublishFails
<1>4. CASE CompleteReplay
  BY <1>4, CompletesReplay, SameGrows
<1>5. ASSUME NEW i, (\E code \in Codes : DryRun(code)) \/ Execute \/ (i \in DOMAIN dlq /\ ExecuteSingle(i)) \/ StopReplay
      PROVE  Grows /\ PhaseOK' /\ UNCHANGED <<audit, sent, log, dlq, cons, offset, owner>>
  <2>1. PhaseOK' /\ UNCHANGED <<audit, sent, log, dlq, parents, inbox, pipeline, cons, offset, owner>>
    BY <1>5, QuietSteps
  <2> QED
    BY <2>1, SameGrows
<1> QED
  BY <1>1, <1>2, <1>3, <1>4, <1>5 DEF ToolNext

-----------------------------------------------------------------------------
(* The invariant.                                                          *)

LEMMA InitInv ==
  ASSUME Init
  PROVE  IInv
<1>1. /\ pipeline \in Pipelines /\ log = <<>> /\ offset = 0 /\ cons = [c \in Consumers |-> Reader(0)]
      /\ parents = Parents /\ dlq = <<>> /\ tool = NoTool /\ audit = <<>> /\ sent = {} /\ owner \in Consumers
  BY DEF Init, CInit
<1>2. cons \in [Consumers -> ReaderRec] /\ \A c \in Consumers : cons[c] = Reader(0)
  BY <1>1, NewReaderOK
<1>3. TopicInv
  BY <1>1, <1>2 DEF TopicInv
<1>4. ReadersInv
  BY <1>2, NewReaderOK DEF ReadersInv
<1>5. OwnerInv
  BY <1>1, <1>2, NewReaderOK DEF OwnerInv
<1>6. NothingSkipped /\ QuarantineIsDeserved
  BY <1>1 DEF NothingSkipped, QuarantineIsDeserved
<1>7. ToolInv
  BY <1>1 DEF ToolInv, NoTool, ToolRec
<1>8. ReplaysAreAudited
  BY <1>1 DEF ReplaysAreAudited, NoTool
<1> QED
  BY <1>3, <1>4, <1>5, <1>6, <1>7, <1>8 DEF IInv

LEMMA StepInv ==
  ASSUME IInv, [Next]_vars
  PROVE  IInv'
<1> TopicInv /\ ReadersInv /\ ToolOK
  BY DEF IInv, ToolOK
<1>1. ASSUME Grows, TopicInv', ReadersInv', OwnerInv', NothingSkipped', QuarantineIsDeserved', UNCHANGED <<tool, audit, sent>>
      PROVE  IInv'
  BY <1>1, ToolKeeps DEF IInv, ToolOK
<1>2. CASE WorldNext /\ UNCHANGED <<tool, audit, sent>>
  BY <1>1, <1>2, WorldGrows, WorldKeeps
<1>3. CASE (\E c \in Consumers : ConsumerNext(c)) /\ UNCHANGED <<tool, audit, sent>>
  BY <1>1, <1>3, ConsumerStepInv
<1>4. CASE ToolNext
  <2>1. /\ Grows /\ PhaseOK' /\ (SentOK' \/ UNCHANGED <<audit, sent, log, dlq>>)
        /\ UNCHANGED <<cons, offset, owner, dlq>>
    BY <1>4, ToolSteps
  <2>2. TopicInv' /\ ReadersInv' /\ OwnerInv' /\ NothingSkipped' /\ QuarantineIsDeserved'
    BY <2>1, WorldKeeps
  <2>3. SentOK'
    <3>1. SentOK
      BY ToolParts
    <3> QED
      BY <2>1, <3>1 DEF SentOK
  <2>4. ToolOK'
    BY <2>1, <2>2, <2>3, ToolPartsNext
  <2> QED
    BY <2>2, <2>4 DEF IInv, ToolOK
<1>5. CASE UNCHANGED vars
  <2>1. UNCHANGED <<cons, offset, owner, dlq, tool, audit, sent, pipeline, log, parents, inbox>>
    BY <1>5 DEF vars, cvars
  <2>2. Grows
    BY <2>1, SameGrows
  <2> QED
    BY <1>1, <2>1, <2>2, WorldKeeps
<1> QED
  BY <1>2, <1>3, <1>4, <1>5 DEF Next

\* The inductive invariant holds in every reachable state.
THEOREM Invariant == Spec => []IInv
<1>1. Init => IInv
  BY InitInv
<1>2. IInv /\ [Next]_vars => IInv'
  BY StepInv
<1> QED
  BY <1>1, <1>2, PTL DEF Spec

LEMMA TypesAre ==
  ASSUME IInv
  PROVE  TypeOK
<1>1. TopicInv /\ ReadersInv /\ ToolInv
  BY DEF IInv
<1>2. ASSUME NEW c \in Consumers
      PROVE  /\ cons[c].phase \in {"idle", "classify", "apply", "tx", "lookup", "commit"}
             /\ cons[c].phase \in {"apply", "tx", "lookup"} <=> cons[c].todo # <<>>
             /\ cons[c].phase # "idle" <=> cons[c].batch # {}
             /\ cons[c].attempts \in 0..MaxAttempts
  <2>1. cons[c] \in ReaderRec /\ ReaderOK(cons[c], Dead, Handled, parents)
    BY <1>1, BatchPlaces
  <2>2. cons[c].phase # "idle" => cons[c].batch # {}
    <3>1. ASSUME NEW m \in Nat, cons[c].next < m, cons[c].batch = cons[c].next + 1 .. m PROVE m \in cons[c].batch
      BY <2>1, <3>1 DEF ReaderRec
    <3> QED
      BY <2>1, <3>1 DEF ReaderOK, BatchOK, Stretch
  <2>3. cons[c].phase = "idle" => cons[c].batch = {}
    BY <2>1 DEF ReaderOK, BatchOK
  <2>4. cons[c].phase \in {"apply", "tx", "lookup"} <=> cons[c].todo # <<>>
    BY <2>1 DEF ReaderOK, TodoOK, Applying
  <2> QED
    BY <2>1, <2>2, <2>3, <2>4 DEF ReaderRec, Phases
<1>3. tool.phase \in {"idle", "confirmed", "next", "publish", "complete"}
  BY <1>1 DEF ToolInv, ToolRec
<1>4. \A a \in DOMAIN audit : audit[a].rec \in DOMAIN dlq /\ audit[a].status \in {"started", "unknown", "succeeded"}
  <2>1. DOMAIN dlq = 1..Len(dlq) /\ audit \in Seq(AuditRow)
    BY <1>1 DEF TopicInv, ToolInv
  <2>2. \A a \in 1..Len(audit) : audit[a] \in AuditRow /\ audit[a].rec \in 1..Len(dlq)
    BY <1>1, <2>1 DEF ToolInv
  <2> QED
    BY <2>1, <2>2 DEF AuditRow
<1> QED
  BY <1>1, <1>2, <1>3, <1>4 DEF TypeOK, TopicInv

\* No message of the topic is lost, whatever part of a batch fails and is tried again and
\* whoever owns the partition (runKafkaBacklog, recoverForeignKeyRecords); only what cannot
\* be decoded or has lost its row is quarantined; and kafka-dlq replays nothing without a
\* row that says so.
THEOREM EventsAreAccounted == Spec => []EventsAccounted
<1>1. IInv => EventsAccounted
  BY TypesAre DEF IInv, EventsAccounted
<1> QED
  BY Invariant, <1>1, PTL

-----------------------------------------------------------------------------
(* The projections.                                                        *)

\* Only three steps touch them: a transaction that commits, a recipient who reads, and a
\* row that goes away.
LEMMA ProjectionCases ==
  ASSUME IInv, [Next]_vars
  PROVE  \/ UNCHANGED <<inbox, notification, claim, metric, readUpTo>> /\ parents' \subseteq parents
         \/ \E c \in Consumers : CommitTx(c)
         \/ \E k \in Keys : MarkRead(k)
<1>1. CASE UNCHANGED vars
  BY <1>1 DEF vars, cvars
<1>2. CASE WorldNext
  BY <1>2 DEF WorldNext, Publish, DeleteParent, tables
<1>3. CASE \E c \in Consumers : ConsumerNext(c)
  BY <1>3, ConsumerFrame DEF tables
<1>4. CASE ToolNext
  BY <1>4 DEF ToolNext, DryRun, Execute, ExecuteSingle, StartReplay, PublishReplay, PublishReplayFails, CompleteReplay, StopReplay, cvars, tables
<1> QED
  BY <1>1, <1>2, <1>3, <1>4 DEF Next

\* A record in hand that carries one of the ids is the event with that id.
LEMMA EventsInHand ==
  ASSUME IInv, NEW c \in Consumers, cons[c].phase \in Applying
  PROVE  /\ \A i \in Segment(c) : log[i] \in Events /\ Decodes(log[i]) /\ log[i].id \in Ids(c)
         /\ \A e \in Events : e.id \in Ids(c) => \E i \in Segment(c) : log[i] = e
         /\ IsFiniteSet(Segment(c)) /\ Segment(c) \subseteq Nat
<1>1. /\ Segment(c) \subseteq 1..Len(log) /\ IsFiniteSet(Segment(c)) /\ \A i \in Segment(c) : Decodes(log[i])
      /\ log \in Seq(Events)
  BY SegmentPlaces DEF IInv, TopicInv
<1>2. \A i \in Segment(c) : log[i] \in Events
  BY <1>1
<1> QED
  BY <1>1, <1>2, EventsAssumption DEF Ids

\* What a notification shows: an activity that was delivered, none that is newer with its
\* row still there, and no more unread than the recipient left it.
NoteRec == [version : Nat \cup {-1}, read : BOOLEAN]
NoteOK(k) ==
  /\ readUpTo[k] <= notification[k].version
  /\ notification[k].version >= 0 => \E e \in Seen(k, "notify") : e.version = notification[k].version
  /\ \A e \in Seen(k, "notify") : e.parent \in parents => e.version <= notification[k].version
  /\ notification[k].version >= 0 /\ readUpTo[k] = notification[k].version => notification[k].read
NotificationsInv ==
  /\ notification \in [Keys -> NoteRec] /\ readUpTo \in [Keys -> Nat \cup {-1}]
  /\ \A k \in Keys : NoteOK(k)

\* The versions a transaction may write, and the greatest of them.
LEMMA CandidatesAre ==
  ASSUME IInv, NEW c \in Consumers, cons[c].phase \in Applying, NEW k
  PROVE  /\ Candidates(c, k) \subseteq Nat
         /\ Candidates(c, k) # {} => Max(Candidates(c, k)) \in Candidates(c, k) /\ \A v \in Candidates(c, k) : v <= Max(Candidates(c, k))
<1> DEFINE S == {j \in FirstDeliveries(Segment(c)) : log[j].kind = "notify" /\ log[j].key = k /\ log[j].parent \in cons[c].seen}
<1>1. Candidates(c, k) = {log[i].version : i \in S}
  BY DEF Candidates
<1>2. S \subseteq Segment(c)
  BY DEF FirstDeliveries
<1>3. \A i \in S : log[i].version \in Nat
  BY <1>2, EventsInHand, EventsAssumption DEF EventShape
<1>4. IsFiniteSet(S)
  BY <1>2, EventsInHand, FS_Subset
<1> HIDE DEF S
<1>5. IsFiniteSet({log[i].version : i \in S})
  <2> DEFINE f == [i \in S |-> log[i].version]
             V == {log[i].version : i \in S}
  <2>1. f \in Surjection(S, V)
    BY DEF Surjection
  <2> HIDE DEF f, V
  <2>2. IsFiniteSet(V)
    BY <1>4, <2>1, FS_Surjection
  <2> QED
    BY <2>2 DEF V
<1>6. Candidates(c, k) \subseteq Nat /\ IsFiniteSet(Candidates(c, k))
  BY <1>1, <1>3, <1>5
<1> QED
  BY <1>6, MaxIs

\* A transaction shows the newest of what it delivers.
LEMMA NotificationsCommit ==
  ASSUME IInv, NotificationsInv, NEW c \in Consumers, CommitTx(c)
  PROVE  NotificationsInv'
<1>1. /\ cons[c].phase = "tx" /\ cons[c].phase \in Applying /\ UpsertNotifications(c)
      /\ inbox' = inbox \cup Ids(c) /\ UNCHANGED <<readUpTo, parents>>
  BY DEF CommitTx, Applying
<1>2. parents \subseteq cons[c].seen
  <2>1. ReaderOK(cons[c], Dead, Handled, parents)
    BY BatchPlaces DEF IInv
  <2> QED
    BY <1>1, <2>1 DEF ReaderOK, LoneOK
<1>3. ASSUME NEW k \in Keys PROVE notification'[k] \in NoteRec /\ NoteOK(k)'
  <2>1. PICK v : v = Candidates(c, k)
    OBVIOUS
  <2>2. PICK m : m = Max(v)
    OBVIOUS
  <2>3. PICK n : n = notification[k]
    OBVIOUS
  <2>4. notification'[k] = IF v # {} /\ m > n.version THEN [version |-> m, read |-> FALSE] ELSE n
    BY <1>1, <2>1, <2>2, <2>3 DEF UpsertNotifications
  <2>5. v \subseteq Nat /\ (v # {} => m \in v /\ \A w \in v : w <= m)
    BY <1>1, <2>1, <2>2, CandidatesAre
  <2>6. n \in NoteRec /\ readUpTo[k] \in Nat \cup {-1} /\ NoteOK(k)
    BY <2>3 DEF NotificationsInv
  <2>7. \A w \in v : \E e \in Seen(k, "notify")' : e.version = w
    <3> SUFFICES ASSUME NEW w \in v PROVE \E e \in Seen(k, "notify")' : e.version = w
      OBVIOUS
    <3>1. PICK i \in Segment(c) : log[i].kind = "notify" /\ log[i].key = k /\ w = log[i].version
      BY <2>1 DEF Candidates, FirstDeliveries
    <3>2. log[i] \in Seen(k, "notify")'
      BY <1>1, <3>1, EventsInHand DEF Seen
    <3> QED
      BY <3>1, <3>2
  <2>8. \A e \in Seen(k, "notify")' : e.parent \in parents => e \in Seen(k, "notify") \/ e.version \in v
    <3> SUFFICES ASSUME NEW e \in Seen(k, "notify")', e.parent \in parents, e \notin Seen(k, "notify") PROVE e.version \in v
      OBVIOUS
    <3>1. e \in Events /\ e.key = k /\ e.kind = "notify" /\ e.id \in Ids(c) /\ e.id \notin inbox
      BY <1>1 DEF Seen
    <3>2. PICK i \in Segment(c) : log[i] = e
      BY <1>1, <3>1, EventsInHand
    <3> QED
      BY <1>2, <2>1, <3>1, <3>2 DEF Candidates, FirstDeliveries
  <2>9. Seen(k, "notify") \subseteq Seen(k, "notify")' /\ \A e \in Seen(k, "notify")' : e.version \in Nat
    BY <1>1, EventsAssumption DEF Seen, EventShape
  <2>10. n.version \in Nat \cup {-1} /\ n.read \in BOOLEAN
    BY <2>6 DEF NoteRec
  <2>11. CASE v # {} /\ m > n.version
    <3>1. notification'[k].version = m /\ notification'[k].read = FALSE /\ notification'[k] \in NoteRec /\ m \in v /\ m \in Nat
      BY <2>4, <2>5, <2>11 DEF NoteRec
    <3>2. readUpTo[k] <= n.version /\ readUpTo'[k] < m
      BY <1>1, <2>3, <2>6, <2>10, <2>11, <3>1 DEF NoteOK
    <3>3. \A e \in Seen(k, "notify")' : e.parent \in parents' => e.version <= m
      <4> SUFFICES ASSUME NEW e \in Seen(k, "notify")', e.parent \in parents PROVE e.version <= m
        BY <1>1
      <4>1. CASE e \in Seen(k, "notify")
        <5>1. e.version <= n.version
          BY <2>3, <2>6, <4>1 DEF NoteOK
        <5> QED
          BY <2>9, <2>10, <2>11, <3>1, <5>1
      <4>2. CASE e.version \in v
        BY <2>5, <2>11, <4>2
      <4> QED
        BY <2>8, <4>1, <4>2
    <3> QED
      BY <1>1, <2>6, <2>7, <3>1, <3>2, <3>3 DEF NoteOK
  <2>12. CASE ~(v # {} /\ m > n.version)
    <3>1. notification'[k] = n
      BY <2>4, <2>12
    <3>2. \A w \in v : w <= n.version
      <4> SUFFICES ASSUME NEW w \in v PROVE w <= n.version
        OBVIOUS
      <4>1. PICK o : o = n.version
        OBVIOUS
      <4>2. m \in Nat /\ w \in Nat /\ w <= m /\ o \in Nat \cup {-1} /\ ~(m > o)
        BY <2>5, <2>10, <2>12, <4>1
      <4> QED
        BY <4>1, <4>2
    <3>3. \A e \in Seen(k, "notify")' : e.parent \in parents' => e.version <= n.version
      BY <1>1, <2>3, <2>6, <2>8, <3>2 DEF NoteOK
    <3>4. n.version >= 0 => \E e \in Seen(k, "notify")' : e.version = n.version
      BY <2>3, <2>6, <2>9 DEF NoteOK
    <3> QED
      BY <1>1, <2>3, <2>6, <3>1, <3>3, <3>4 DEF NoteOK
  <2> QED
    BY <2>11, <2>12
<1>4. notification' \in [Keys -> NoteRec]
  <2>1. notification' = [k \in Keys |-> notification'[k]]
    BY <1>1 DEF UpsertNotifications
  <2> QED
    BY <1>3, <2>1
<1> QED
  BY <1>1, <1>3, <1>4 DEF NotificationsInv

LEMMA NotificationsStep ==
  ASSUME IInv, NotificationsInv, [Next]_vars
  PROVE  NotificationsInv'
<1>1. CASE UNCHANGED <<inbox, notification, readUpTo>> /\ parents' \subseteq parents
  <2>1. \A k : Seen(k, "notify")' = Seen(k, "notify")
    BY <1>1 DEF Seen
  <2>2. ASSUME NEW k \in Keys PROVE NoteOK(k)'
    <3>1. NoteOK(k)
      BY DEF NotificationsInv
    <3> QED
      BY <1>1, <2>1, <3>1 DEF NoteOK
  <2> QED
    BY <1>1, <2>2 DEF NotificationsInv
<1>2. ASSUME NEW k \in Keys, MarkRead(k) PROVE NotificationsInv'
  <2>1. PICK n : n = [notification[k] EXCEPT !.read = TRUE]
    OBVIOUS
  <2>2. PICK v : v = notification[k].version
    OBVIOUS
  <2>3. /\ notification' = [notification EXCEPT ![k] = n] /\ readUpTo' = [readUpTo EXCEPT ![k] = v]
        /\ UNCHANGED <<inbox, parents>> /\ v >= 0
    BY <1>2, <2>1, <2>2 DEF MarkRead
  <2>4. notification[k] \in NoteRec /\ n \in NoteRec /\ n.version = v /\ n.read /\ v \in Nat \cup {-1}
    BY <2>1, <2>2 DEF NotificationsInv, NoteRec
  <2>5. notification' \in [Keys -> NoteRec] /\ readUpTo' \in [Keys -> Nat \cup {-1}]
    BY <2>3, <2>4 DEF NotificationsInv
  <2>6. \A j : Seen(j, "notify")' = Seen(j, "notify")
    BY <2>3 DEF Seen
  <2>7. ASSUME NEW j \in Keys PROVE NoteOK(j)'
    <3>1. NoteOK(j)
      BY DEF NotificationsInv
    <3>2. CASE j = k
      <4>1. notification'[k] = n /\ readUpTo'[k] = v
        BY <2>3 DEF NotificationsInv
      <4> QED
        BY <2>2, <2>3, <2>4, <2>6, <3>1, <3>2, <4>1 DEF NoteOK
    <3>3. CASE j # k
      <4>1. notification'[j] = notification[j] /\ readUpTo'[j] = readUpTo[j]
        BY <2>3, <3>3 DEF NotificationsInv
      <4> QED
        BY <2>3, <2>6, <3>1, <4>1 DEF NoteOK
    <3> QED
      BY <3>2, <3>3
  <2> QED
    BY <2>5, <2>7 DEF NotificationsInv
<1> QED
  BY <1>1, <1>2, ProjectionCases, NotificationsCommit

LEMMA NotificationsAreExact ==
  ASSUME NotificationsInv
  PROVE  NotificationsExact
<1> SUFFICES ASSUME NEW k \in Keys
             PROVE  LET n == notification[k]
                        v == {e.version : e \in Seen(k, "notify")}
                    IN /\ n.version \in v \cup {-1}
                       /\ (\A e \in Seen(k, "notify") : e.parent \in parents) /\ v # {} => n.version = Max(v)
                       /\ n.version >= 0 /\ readUpTo[k] = n.version => n.read
  BY DEF NotificationsExact
<1> DEFINE n == notification[k]
           v == {e.version : e \in Seen(k, "notify")}
<1>1. NoteOK(k) /\ n \in NoteRec
  BY DEF NotificationsInv
<1>2. n.version \in Nat \cup {-1}
  BY <1>1 DEF NoteRec
<1>3. v \subseteq Nat
  BY EventsAssumption DEF Seen, EventShape
<1>4. n.version \in v \cup {-1}
  BY <1>1, <1>2 DEF NoteOK
<1>5. ASSUME \A e \in Seen(k, "notify") : e.parent \in parents, v # {} PROVE n.version = Max(v)
  <2>1. \A w \in v : w <= n.version
    BY <1>1, <1>5 DEF NoteOK
  <2>2. n.version \in v
    <3>1. PICK w \in v : TRUE
      BY <1>5
    <3>2. w <= n.version /\ w \in Nat
      BY <1>3, <2>1
    <3>3. n.version # -1
      BY <1>2, <3>2
    <3> QED
      BY <1>4, <3>3
  <2> HIDE DEF v, n
  <2>3. PICK m : m = n.version
    OBVIOUS
  <2>4. Max(v) = m
    <3>1. m \in v /\ \A y \in v : m >= y
      BY <1>3, <2>1, <2>2, <2>3
    <3>2. \A x \in v : (\A y \in v : x >= y) => x = m
      BY <1>3, <3>1
    <3> QED
      BY <3>1, <3>2 DEF Max
  <2> QED
    BY <2>3, <2>4
<1>6. n.version >= 0 /\ readUpTo[k] = n.version => n.read
  BY <1>1 DEF NoteOK
<1> QED
  BY <1>4, <1>5, <1>6

-----------------------------------------------------------------------------
(* The metrics: claims and daily counts, inside a transaction and out.     *)

ClaimRec == {x \in [imp : 0..MaxDay, clk : 0..MaxDay] : x.clk \in {0, x.imp}}
CountRec == [imp : Nat, clk : Nat]
TxRec == [claim : [Keys -> ClaimRec], metric : [Days -> CountRec], add : [Days -> CountRec], error : BOOLEAN]

\* The events whose ids are in I.
SeenOf(k, kind, I) == {e \in Events : e.key = k /\ e.kind = kind /\ Decodes(e) /\ e.id \in I}

\* A claim x after these impressions and clicks.
ClaimOK(x, imps, clks) ==
  /\ x.imp # 0 <=> imps \cup clks # {}
  /\ x.clk = IF clks = {} THEN 0 ELSE x.imp
  /\ \A e \in imps : x.imp <= e.day
  /\ x.imp # 0 => \E e \in imps \cup clks : x.imp = e.day
ClaimsOK(cl, I) == \A k \in Keys : ClaimOK(cl[k], SeenOf(k, "impression", I), SeenOf(k, "click", I))

\* The opportunities a day counts.
Cohort(cl, d)  == {k \in Keys : cl[k].imp = d}
Clicked(cl, d) == {k \in Keys : cl[k].clk = d}

CountOK(t, d) ==
  /\ IsFiniteSet(Cohort(t.claim, d)) /\ t.metric[d].imp + t.add[d].imp = Cardinality(Cohort(t.claim, d))
  /\ IsFiniteSet(Clicked(t.claim, d)) /\ t.metric[d].clk + t.add[d].clk = Cardinality(Clicked(t.claim, d))

\* A transaction that did not fail is exact for the events in I.
Exact(t, I) == ClaimsOK(t.claim, I) /\ \A d \in Days : CountOK(t, d)
TxOK(t, I) == t \in TxRec /\ (t.error \/ Exact(t, I))

Delivers(I, J, e) == J = I \cup {e.id}

LEMMA SeenMore ==
  ASSUME NEW e \in Events, Decodes(e), NEW I, NEW J, Delivers(I, J, e), NEW k, NEW kind
  PROVE  SeenOf(k, kind, J) = IF e.key = k /\ e.kind = kind THEN SeenOf(k, kind, I) \cup {e} ELSE SeenOf(k, kind, I)
<1>1. \A f \in Events : f.id = e.id => f = e
  BY EventsAssumption
<1> QED
  BY <1>1 DEF SeenOf, Delivers

\* One element in or out of a set.
Is(a, b) == IF a = b THEN 1 ELSE 0

LEMMA OneMoved ==
  ASSUME NEW S, IsFiniteSet(S), NEW k, NEW T, \A j : j # k => (j \in T <=> j \in S)
  PROVE  /\ IsFiniteSet(T) /\ Cardinality(S) \in Nat /\ Cardinality(T) \in Nat
         /\ k \in S /\ k \in T => Cardinality(T) = Cardinality(S)
         /\ k \notin S /\ k \notin T => Cardinality(T) = Cardinality(S)
         /\ k \in S /\ k \notin T => Cardinality(T) = Cardinality(S) - 1
         /\ k \notin S /\ k \in T => Cardinality(T) = Cardinality(S) + 1
<1>1. CASE k \in S <=> k \in T
  <2>1. T = S
    BY <1>1
  <2> QED
    BY <1>1, <2>1, FS_CardinalityType
<1>2. CASE k \in S /\ k \notin T
  <2>1. T = S \ {k}
    BY <1>2
  <2>2. IsFiniteSet(T) /\ Cardinality(T) = Cardinality(S) - 1
    BY <1>2, <2>1, FS_RemoveElement
  <2> QED
    BY <1>2, <2>2, FS_CardinalityType
<1>3. CASE k \notin S /\ k \in T
  <2>1. T = S \cup {k}
    BY <1>3
  <2>2. IsFiniteSet(T) /\ Cardinality(T) = Cardinality(S) + 1
    BY <1>3, <2>1, FS_AddElement
  <2> QED
    BY <1>3, <2>2, FS_CardinalityType
<1> QED
  BY <1>1, <1>2, <1>3

Becomes(cl, k, v, cl2) == cl2 = [cl EXCEPT ![k] = v]

\* The claim of one opportunity changes.
LEMMA CohortMoved ==
  ASSUME NEW cl \in [Keys -> ClaimRec], NEW k \in Keys, NEW v \in ClaimRec, NEW cl2, Becomes(cl, k, v, cl2), NEW d,
         IsFiniteSet(Cohort(cl, d)), IsFiniteSet(Clicked(cl, d))
  PROVE  /\ IsFiniteSet(Cohort(cl2, d)) /\ IsFiniteSet(Clicked(cl2, d))
         /\ Cardinality(Cohort(cl2, d)) = Cardinality(Cohort(cl, d)) - Is(cl[k].imp, d) + Is(v.imp, d)
         /\ Cardinality(Clicked(cl2, d)) = Cardinality(Clicked(cl, d)) - Is(cl[k].clk, d) + Is(v.clk, d)
<1>1. cl2[k] = v /\ \A j \in Keys : j # k => cl2[j] = cl[j]
  BY DEF Becomes
<1>2. /\ \A j : j # k => (j \in Cohort(cl2, d) <=> j \in Cohort(cl, d))
      /\ k \in Cohort(cl, d) <=> cl[k].imp = d
      /\ k \in Cohort(cl2, d) <=> v.imp = d
  BY <1>1 DEF Cohort
<1>3. /\ \A j : j # k => (j \in Clicked(cl2, d) <=> j \in Clicked(cl, d))
      /\ k \in Clicked(cl, d) <=> cl[k].clk = d
      /\ k \in Clicked(cl2, d) <=> v.clk = d
  BY <1>1 DEF Clicked
<1>4. PICK S : S = Cohort(cl, d)
  OBVIOUS
<1>5. PICK T : T = Cohort(cl2, d)
  OBVIOUS
<1>6. IsFiniteSet(T) /\ Cardinality(T) = Cardinality(S) - Is(cl[k].imp, d) + Is(v.imp, d)
  <2>1. IsFiniteSet(S) /\ \A j : j # k => (j \in T <=> j \in S)
    BY <1>2, <1>4, <1>5
  <2>2. /\ IsFiniteSet(T) /\ Cardinality(S) \in Nat /\ Cardinality(T) \in Nat
        /\ k \in S /\ k \in T => Cardinality(T) = Cardinality(S)
        /\ k \notin S /\ k \notin T => Cardinality(T) = Cardinality(S)
        /\ k \in S /\ k \notin T => Cardinality(T) = Cardinality(S) - 1
        /\ k \notin S /\ k \in T => Cardinality(T) = Cardinality(S) + 1
    BY <2>1, OneMoved
  <2> QED
    BY <1>2, <1>4, <1>5, <2>2 DEF Is
<1>7. PICK U : U = Clicked(cl, d)
  OBVIOUS
<1>8. PICK V : V = Clicked(cl2, d)
  OBVIOUS
<1>9. IsFiniteSet(V) /\ Cardinality(V) = Cardinality(U) - Is(cl[k].clk, d) + Is(v.clk, d)
  <2>1. IsFiniteSet(U) /\ \A j : j # k => (j \in V <=> j \in U)
    BY <1>3, <1>7, <1>8
  <2>2. /\ IsFiniteSet(V) /\ Cardinality(U) \in Nat /\ Cardinality(V) \in Nat
        /\ k \in U /\ k \in V => Cardinality(V) = Cardinality(U)
        /\ k \notin U /\ k \notin V => Cardinality(V) = Cardinality(U)
        /\ k \in U /\ k \notin V => Cardinality(V) = Cardinality(U) - 1
        /\ k \notin U /\ k \in V => Cardinality(V) = Cardinality(U) + 1
    BY <2>1, OneMoved
  <2> QED
    BY <1>3, <1>7, <1>8, <2>2 DEF Is
<1> QED
  BY <1>4, <1>5, <1>6, <1>7, <1>8, <1>9

\* A record of key k that makes its claim v, with the counts that follow.
Counted(t, t2, k, v) ==
  \A d \in Days :
    /\ t2.metric[d].imp + t2.add[d].imp = (t.metric[d].imp + t.add[d].imp) - Is(t.claim[k].imp, d) + Is(v.imp, d)
    /\ t2.metric[d].clk + t2.add[d].clk = (t.metric[d].clk + t.add[d].clk) - Is(t.claim[k].clk, d) + Is(v.clk, d)
Changes(t, t2, k, v) == t2 \in TxRec /\ t2.claim = [t.claim EXCEPT ![k] = v] /\ Counted(t, t2, k, v)

LEMMA ChangeOK ==
  ASSUME NEW t \in TxRec, NEW e \in Events, Decodes(e), NEW v \in ClaimRec, NEW t2, Changes(t, t2, e.key, v),
         NEW I, NEW J, Delivers(I, J, e), Exact(t, I),
         ClaimOK(v, SeenOf(e.key, "impression", J), SeenOf(e.key, "click", J))
  PROVE  Exact(t2, J)
<1>1. e.key \in Keys
  BY EventsAssumption DEF EventShape
<1>2. t.claim \in [Keys -> ClaimRec] /\ t2.claim = [t.claim EXCEPT ![e.key] = v]
  BY DEF Changes, TxRec
<1>3. ASSUME NEW k \in Keys PROVE ClaimOK(t2.claim[k], SeenOf(k, "impression", J), SeenOf(k, "click", J))
  <2>1. CASE k = e.key
    BY <1>1, <1>2, <2>1
  <2>2. CASE k # e.key
    <3>1. SeenOf(k, "impression", J) = SeenOf(k, "impression", I) /\ SeenOf(k, "click", J) = SeenOf(k, "click", I)
      BY <2>2, SeenMore
    <3>2. t2.claim[k] = t.claim[k]
      BY <1>2, <2>2
    <3> QED
      BY <3>1, <3>2 DEF Exact, ClaimsOK
  <2> QED
    BY <2>1, <2>2
<1>4. ASSUME NEW d \in Days PROVE CountOK(t2, d)
  <2>1. CountOK(t, d)
    BY DEF Exact
  <2>2. PICK cl : cl = t.claim
    OBVIOUS
  <2>3. PICK cl2 : cl2 = t2.claim
    OBVIOUS
  <2>4. PICK k \in Keys : k = e.key
    BY <1>1
  <2>5. /\ IsFiniteSet(Cohort(cl2, d)) /\ IsFiniteSet(Clicked(cl2, d))
        /\ Cardinality(Cohort(cl2, d)) = Cardinality(Cohort(cl, d)) - Is(cl[k].imp, d) + Is(v.imp, d)
        /\ Cardinality(Clicked(cl2, d)) = Cardinality(Clicked(cl, d)) - Is(cl[k].clk, d) + Is(v.clk, d)
    <3>1. IsFiniteSet(Cohort(cl, d)) /\ IsFiniteSet(Clicked(cl, d))
      BY <2>1, <2>2 DEF CountOK
    <3>2. cl \in [Keys -> ClaimRec] /\ Becomes(cl, k, v, cl2)
      BY <1>2, <2>2, <2>3, <2>4 DEF Becomes
    <3> QED
      BY <3>1, <3>2, CohortMoved
  <2>6. /\ t2.metric[d].imp + t2.add[d].imp = (t.metric[d].imp + t.add[d].imp) - Is(cl[k].imp, d) + Is(v.imp, d)
        /\ t2.metric[d].clk + t2.add[d].clk = (t.metric[d].clk + t.add[d].clk) - Is(cl[k].clk, d) + Is(v.clk, d)
    BY <2>2, <2>4 DEF Changes, Counted
  <2>7. /\ t.metric[d].imp + t.add[d].imp = Cardinality(Cohort(cl, d))
        /\ t.metric[d].clk + t.add[d].clk = Cardinality(Clicked(cl, d))
    BY <2>1, <2>2 DEF CountOK
  <2>8. /\ t2.metric[d].imp + t2.add[d].imp = Cardinality(Cohort(cl2, d))
        /\ t2.metric[d].clk + t2.add[d].clk = Cardinality(Clicked(cl2, d))
    BY <2>5, <2>6, <2>7
  <2> QED
    BY <2>3, <2>5, <2>8 DEF CountOK
<1> QED
  BY <1>3, <1>4 DEF Exact, ClaimsOK

\* What a claim becomes.
LEMMA ClaimFirst ==
  ASSUME NEW x \in ClaimRec, NEW imps, NEW clks, ClaimOK(x, imps, clks), NEW e, e.day \in Days, x.imp = 0
  PROVE  /\ x.clk = 0 /\ ClaimOK([imp |-> e.day, clk |-> 0], imps \cup {e}, clks)
         /\ ClaimOK([imp |-> e.day, clk |-> e.day], imps, clks \cup {e})
BY DEF ClaimOK, ClaimRec, Days

LEMMA ClaimImpressed ==
  ASSUME NEW x \in ClaimRec, NEW imps, NEW clks, ClaimOK(x, imps, clks), NEW e, e.day \in Days, x.imp # 0
  PROVE  /\ e.day >= x.imp => ClaimOK(x, imps \cup {e}, clks)
         /\ e.day < x.imp /\ (\A f \in imps : f.day \in Days) =>
              ClaimOK([imp |-> e.day, clk |-> IF x.clk # 0 THEN e.day ELSE 0], imps \cup {e}, clks)
BY DEF ClaimOK, ClaimRec, Days

LEMMA ClaimClicked ==
  ASSUME NEW x \in ClaimRec, NEW imps, NEW clks, ClaimOK(x, imps, clks), NEW e, e.day \in Days, x.imp # 0
  PROVE  /\ x.clk # 0 => ClaimOK(x, imps, clks \cup {e})
         /\ ClaimOK([imp |-> x.imp, clk |-> x.imp], imps, clks \cup {e})
BY DEF ClaimOK, ClaimRec, Days

\* What the three effects of a record do to a transaction.
Adds(t, k, v, d, c) == [t EXCEPT !.claim = [t.claim EXCEPT ![k] = v], !.add = [t.add EXCEPT ![d] = c]]
Shifts(t, k, v, d, c, o, b) ==
  [t EXCEPT !.claim = [t.claim EXCEPT ![k] = v], !.metric = [t.metric EXCEPT ![o] = b, ![d] = c]]

LEMMA AddsOK ==
  ASSUME NEW t \in TxRec, NEW k \in Keys, NEW v \in ClaimRec, NEW d \in Days, NEW c \in CountRec,
         c.imp = t.add[d].imp - Is(t.claim[k].imp, d) + Is(v.imp, d),
         c.clk = t.add[d].clk - Is(t.claim[k].clk, d) + Is(v.clk, d),
         \A b \in Days : b # d => Is(t.claim[k].imp, b) = Is(v.imp, b) /\ Is(t.claim[k].clk, b) = Is(v.clk, b)
  PROVE  Adds(t, k, v, d, c) \in TxRec /\ Adds(t, k, v, d, c).error = t.error /\ Changes(t, Adds(t, k, v, d, c), k, v)
<1>1. PICK cl : cl = [t.claim EXCEPT ![k] = v]
  OBVIOUS
<1>2. PICK ad : ad = [t.add EXCEPT ![d] = c]
  OBVIOUS
<1>3. PICK t2 : t2 = [t EXCEPT !.claim = cl, !.add = ad]
  OBVIOUS
<1>4. cl \in [Keys -> ClaimRec] /\ ad \in [Days -> CountRec] /\ t.metric \in [Days -> CountRec] /\ t.add \in [Days -> CountRec]
  BY <1>1, <1>2 DEF TxRec
<1>5. t2 \in TxRec /\ t2.error = t.error /\ t2.claim = cl /\ t2.add = ad /\ t2.metric = t.metric
  BY <1>3, <1>4 DEF TxRec
<1>6. ASSUME NEW b \in Days
      PROVE  /\ t2.metric[b].imp + t2.add[b].imp = (t.metric[b].imp + t.add[b].imp) - Is(t.claim[k].imp, b) + Is(v.imp, b)
             /\ t2.metric[b].clk + t2.add[b].clk = (t.metric[b].clk + t.add[b].clk) - Is(t.claim[k].clk, b) + Is(v.clk, b)
  <2>1. t.metric[b] \in CountRec /\ t.add[b] \in CountRec
    BY <1>4
  <2>2. t.metric[b].imp \in Nat /\ t.metric[b].clk \in Nat /\ t.add[b].imp \in Nat /\ t.add[b].clk \in Nat
    BY <2>1 DEF CountRec
  <2>3. /\ Is(t.claim[k].imp, b) \in {0, 1} /\ Is(v.imp, b) \in {0, 1}
        /\ Is(t.claim[k].clk, b) \in {0, 1} /\ Is(v.clk, b) \in {0, 1}
    BY DEF Is
  <2>4. CASE b = d
    <3>1. t2.add[b] = c
      BY <1>2, <1>4, <1>5, <2>4
    <3> QED
      BY <1>5, <2>2, <2>3, <2>4, <3>1
  <2>5. CASE b # d
    <3>1. t2.add[b] = t.add[b]
      BY <1>2, <1>4, <1>5, <2>5
    <3> QED
      BY <1>5, <2>2, <2>3, <2>5, <3>1
  <2> QED
    BY <2>4, <2>5
<1>7. Changes(t, t2, k, v)
  BY <1>1, <1>5, <1>6 DEF Changes, Counted
<1> QED
  BY <1>1, <1>2, <1>3, <1>5, <1>7 DEF Adds

LEMMA ShiftsOK ==
  ASSUME NEW t \in TxRec, NEW k \in Keys, NEW v \in ClaimRec, NEW d \in Days, NEW c \in CountRec, NEW o \in Days, NEW b \in CountRec,
         o # d, t.claim[k].imp = o, v.imp = d, t.claim[k].clk = 0 \/ t.claim[k].clk = o, v.clk = IF t.claim[k].clk # 0 THEN d ELSE 0,
         c.imp = t.metric[d].imp + 1, c.clk = t.metric[d].clk + Is(v.clk, d),
         b.imp = t.metric[o].imp - 1, b.clk = t.metric[o].clk - Is(v.clk, d)
  PROVE  /\ Shifts(t, k, v, d, c, o, b) \in TxRec /\ Shifts(t, k, v, d, c, o, b).error = t.error
         /\ Changes(t, Shifts(t, k, v, d, c, o, b), k, v)
<1>1. PICK cl : cl = [t.claim EXCEPT ![k] = v]
  OBVIOUS
<1>2. PICK mt : mt = [t.metric EXCEPT ![o] = b, ![d] = c]
  OBVIOUS
<1>3. PICK t2 : t2 = [t EXCEPT !.claim = cl, !.metric = mt]
  OBVIOUS
<1>4. cl \in [Keys -> ClaimRec] /\ mt \in [Days -> CountRec] /\ t.metric \in [Days -> CountRec] /\ t.add \in [Days -> CountRec]
  BY <1>1, <1>2 DEF TxRec
<1>5. t2 \in TxRec /\ t2.error = t.error /\ t2.claim = cl /\ t2.metric = mt /\ t2.add = t.add
  BY <1>3, <1>4 DEF TxRec
<1>6. ASSUME NEW a \in Days
      PROVE  /\ t2.metric[a].imp + t2.add[a].imp = (t.metric[a].imp + t.add[a].imp) - Is(t.claim[k].imp, a) + Is(v.imp, a)
             /\ t2.metric[a].clk + t2.add[a].clk = (t.metric[a].clk + t.add[a].clk) - Is(t.claim[k].clk, a) + Is(v.clk, a)
  <2>1. t.metric[a] \in CountRec /\ t.add[a] \in CountRec
    BY <1>4
  <2>2. t.metric[a].imp \in Nat /\ t.metric[a].clk \in Nat /\ t.add[a].imp \in Nat /\ t.add[a].clk \in Nat
    BY <2>1 DEF CountRec
  <2>3. d \in Nat \ {0} /\ o \in Nat \ {0} /\ a \in Nat \ {0}
    BY DEF Days
  <2>4. CASE a = d
    <3>1. t2.metric[a] = c /\ t2.add[a] = t.add[a]
      BY <1>2, <1>4, <1>5, <2>4
    <3>2. Is(t.claim[k].imp, a) = 0 /\ Is(v.imp, a) = 1 /\ Is(t.claim[k].clk, a) = 0 /\ Is(v.clk, a) \in {0, 1}
      BY <2>3, <2>4 DEF Is
    <3> QED
      BY <2>2, <2>4, <3>1, <3>2
  <2>5. CASE a = o
    <3>1. t2.metric[a] = b /\ t2.add[a] = t.add[a]
      BY <1>2, <1>4, <1>5, <2>5
    <3>2. Is(t.claim[k].imp, a) = 1 /\ Is(v.imp, a) = 0 /\ Is(v.clk, a) = 0 /\ Is(t.claim[k].clk, a) = Is(v.clk, d) /\ Is(v.clk, d) \in {0, 1}
      BY <2>3, <2>5 DEF Is
    <3> QED
      BY <2>2, <2>5, <3>1, <3>2
  <2>6. CASE a # d /\ a # o
    <3>1. t2.metric[a] = t.metric[a] /\ t2.add[a] = t.add[a]
      BY <1>2, <1>4, <1>5, <2>6
    <3>2. Is(t.claim[k].imp, a) = 0 /\ Is(v.imp, a) = 0 /\ Is(v.clk, a) = 0 /\ Is(t.claim[k].clk, a) = 0
      BY <2>3, <2>6 DEF Is
    <3> QED
      BY <2>2, <3>1, <3>2
  <2> QED
    BY <2>4, <2>5, <2>6
<1>7. Changes(t, t2, k, v)
  BY <1>1, <1>5, <1>6 DEF Changes, Counted
<1> QED
  BY <1>1, <1>2, <1>3, <1>5, <1>7 DEF Shifts

\* A record that changes nothing.
LEMMA NoChange ==
  ASSUME NEW t \in TxRec, NEW k \in Keys
  PROVE  t.claim[k] \in ClaimRec /\ Changes(t, t, k, t.claim[k])
<1>1. t.claim \in [Keys -> ClaimRec] /\ t.metric \in [Days -> CountRec] /\ t.add \in [Days -> CountRec]
  BY DEF TxRec
<1>2. t.claim = [t.claim EXCEPT ![k] = t.claim[k]] /\ t.claim[k] \in ClaimRec
  BY <1>1
<1>3. ASSUME NEW d \in Days
      PROVE  /\ t.metric[d].imp + t.add[d].imp \in Nat /\ t.metric[d].clk + t.add[d].clk \in Nat
             /\ Is(t.claim[k].imp, d) \in {0, 1} /\ Is(t.claim[k].clk, d) \in {0, 1}
  <2>1. t.metric[d] \in CountRec /\ t.add[d] \in CountRec
    BY <1>1
  <2> QED
    BY <2>1 DEF CountRec, Is
<1>4. Counted(t, t, k, t.claim[k])
  BY <1>3 DEF Counted
<1> QED
  BY <1>2, <1>4 DEF Changes

\* The first record of an opportunity counts on its day; an earlier impression moves the
\* cohort; a click joins it.
Into(x) == [imp |-> x.imp + 1, clk |-> x.clk]
Both(x) == [imp |-> x.imp + 1, clk |-> x.clk + 1]
Joins(x) == [imp |-> x.imp, clk |-> x.clk + 1]
Dated(d) == [imp |-> d, clk |-> 0]
Twice(d) == [imp |-> d, clk |-> d]
ExactClaim(t, e, I) == ClaimOK(t.claim[e.key], SeenOf(e.key, "impression", I), SeenOf(e.key, "click", I))

LEMMA RecordFacts ==
  ASSUME NEW t \in TxRec, NEW e \in Events
  PROVE  /\ e.key \in Keys /\ e.day \in Days /\ e.day \in 1..MaxDay
         /\ t.claim[e.key] \in ClaimRec /\ t.claim[e.key].imp \in 0..MaxDay /\ t.claim[e.key].clk \in 0..MaxDay
         /\ t.claim[e.key].clk \in {0, t.claim[e.key].imp}
         /\ \A d \in Days : t.metric[d] \in CountRec /\ t.add[d] \in CountRec
         /\ \A I : Exact(t, I) => ExactClaim(t, e, I)
<1>1. e.key \in Keys /\ e.day \in Days
  BY EventsAssumption DEF EventShape
<1>2. t.claim \in [Keys -> ClaimRec] /\ t.metric \in [Days -> CountRec] /\ t.add \in [Days -> CountRec]
  BY DEF TxRec
<1>3. t.claim[e.key] \in ClaimRec
  BY <1>1, <1>2
<1> QED
  BY <1>1, <1>2, <1>3 DEF ClaimRec, Days, Exact, ClaimsOK, ExactClaim

LEMMA NewCount ==
  ASSUME NEW x \in CountRec
  PROVE  x.imp \in Nat /\ x.clk \in Nat /\ Into(x) \in CountRec /\ Both(x) \in CountRec /\ Joins(x) \in CountRec
BY DEF CountRec, Into, Both, Joins

LEMMA NewClaim ==
  ASSUME NEW d \in 1..MaxDay
  PROVE  Dated(d) \in ClaimRec /\ Twice(d) \in ClaimRec
<1>1. [imp |-> d, clk |-> 0] \in [imp : 0..MaxDay, clk : 0..MaxDay] /\ [imp |-> d, clk |-> d] \in [imp : 0..MaxDay, clk : 0..MaxDay]
  OBVIOUS
<1> QED
  BY <1>1 DEF ClaimRec, Dated, Twice

LEMMA ImpressionOK ==
  ASSUME NEW t, NEW I, TxOK(t, I), NEW e \in Events, Decodes(e), e.kind = "impression", NEW J, Delivers(I, J, e)
  PROVE  TxOK(ClaimImpression(t, e), J)
<1>0. t \in TxRec
  BY DEF TxOK
<1>1. PICK k \in Keys : k = e.key
  BY <1>0, RecordFacts
<1>2. PICK d \in Days : d = e.day
  BY <1>0, RecordFacts
<1>3. PICK x \in ClaimRec : x = t.claim[k]
  BY <1>0, <1>1, RecordFacts
<1>4. x.imp \in 0..MaxDay /\ x.clk \in 0..MaxDay /\ x.clk \in {0, x.imp} /\ d \in 1..MaxDay /\ t.metric[d] \in CountRec /\ t.add[d] \in CountRec
  BY <1>0, <1>1, <1>2, <1>3, RecordFacts
<1>5. PICK imps : imps = SeenOf(k, "impression", I)
  OBVIOUS
<1>6. PICK clks : clks = SeenOf(k, "click", I)
  OBVIOUS
<1>7. SeenOf(k, "impression", J) = imps \cup {e} /\ SeenOf(k, "click", J) = clks
  BY <1>1, <1>5, <1>6, SeenMore
<1>8. Exact(t, I) => ClaimOK(x, imps, clks)
  BY <1>0, <1>1, <1>3, <1>5, <1>6, RecordFacts DEF ExactClaim
<1>9. ASSUME NEW v \in ClaimRec, NEW t2, Changes(t, t2, k, v), t2.error = t.error, Exact(t, I) => ClaimOK(v, imps \cup {e}, clks)
      PROVE  TxOK(t2, J)
  <2>1. Exact(t, I) => Exact(t2, J)
    <3>1. Changes(t, t2, e.key, v) /\ (Exact(t, I) => ClaimOK(v, SeenOf(e.key, "impression", J), SeenOf(e.key, "click", J)))
      BY <1>1, <1>7, <1>9
    <3> QED
      BY <1>0, <3>1, ChangeOK
  <2> QED
    BY <1>9, <2>1 DEF TxOK, Changes
<1>10. CASE x.imp = 0
  <2>1. PICK v \in ClaimRec : v = Dated(d)
    BY <1>4, NewClaim
  <2>2. PICK c \in CountRec : c = Into(t.add[d])
    BY <1>4, NewCount
  <2>3. v.imp = d /\ v.clk = 0 /\ c.imp = t.add[d].imp + 1 /\ c.clk = t.add[d].clk /\ x.clk = 0
    BY <1>4, <1>10, <2>1, <2>2 DEF Dated, Into
  <2>4. t.add[d].imp \in Nat /\ t.add[d].clk \in Nat /\ d # 0
    BY <1>4 DEF CountRec
  <2>5. /\ c.imp = t.add[d].imp - Is(t.claim[k].imp, d) + Is(v.imp, d)
        /\ c.clk = t.add[d].clk - Is(t.claim[k].clk, d) + Is(v.clk, d)
    BY <1>3, <1>10, <2>3, <2>4 DEF Is
  <2>6. \A b \in Days : b # d => Is(t.claim[k].imp, b) = Is(v.imp, b) /\ Is(t.claim[k].clk, b) = Is(v.clk, b)
    BY <1>3, <1>10, <2>3 DEF Is, Days
  <2>7. PICK t2 : t2 = Adds(t, k, v, d, c)
    OBVIOUS
  <2>8. t2.error = t.error /\ Changes(t, t2, k, v)
    BY <1>0, <2>5, <2>6, <2>7, AddsOK
  <2>9. Exact(t, I) => ClaimOK(v, imps \cup {e}, clks)
    BY <1>2, <1>8, <1>10, <2>1, ClaimFirst DEF Dated
  <2>10. ClaimImpression(t, e) = t2
    <3>1. ClaimImpression(t, e) = [t EXCEPT !.claim[k].imp = d, !.add[d].imp = t.add[d].imp + 1]
      BY <1>1, <1>2, <1>3, <1>10 DEF ClaimImpression
    <3>2. v = [x EXCEPT !.imp = d]
      BY <2>1, <2>3 DEF Dated, ClaimRec
    <3>3. c = [t.add[d] EXCEPT !.imp = t.add[d].imp + 1]
      BY <1>4, <2>2 DEF Into, CountRec
    <3> QED
      BY <1>0, <1>3, <2>7, <3>1, <3>2, <3>3 DEF Adds, TxRec
  <2> QED
    BY <1>9, <2>8, <2>9, <2>10
<1>11. CASE x.imp # 0 /\ d >= x.imp
  <2>1. ClaimImpression(t, e) = t
    BY <1>1, <1>2, <1>3, <1>11 DEF ClaimImpression
  <2>2. Exact(t, I) => ClaimOK(x, imps \cup {e}, clks)
    BY <1>2, <1>8, <1>11, ClaimImpressed
  <2> QED
    BY <1>0, <1>3, <1>9, <2>1, <2>2, NoChange
<1>12. CASE x.imp # 0 /\ d < x.imp
  <2>1. PICK o \in Days : o = x.imp
    BY <1>4, <1>12 DEF Days
  <2>2. PICK n \in {0, 1} : n = IF x.clk # 0 THEN 1 ELSE 0
    OBVIOUS
  <2>3. PICK m \in CountRec : m = t.metric[o]
    BY <1>0, RecordFacts
  <2>4. m.imp \in Nat /\ m.clk \in Nat
    BY NewCount
  <2>5. x.imp # 0 /\ ~(d >= x.imp)
    BY <1>4, <1>12
  <2>6. CASE m.imp < 1 \/ m.clk < n
    <3>1. ClaimImpression(t, e) = [t EXCEPT !.error = TRUE]
      BY <1>1, <1>2, <1>3, <2>1, <2>2, <2>3, <2>6, <2>5 DEF ClaimImpression
    <3>2. ClaimImpression(t, e) \in TxRec /\ ClaimImpression(t, e).error
      BY <1>0, <3>1 DEF TxRec
    <3> QED
      BY <3>2 DEF TxOK
  <2>7. CASE ~(m.imp < 1 \/ m.clk < n)
    <3>1. PICK b \in CountRec : b = [imp |-> m.imp - 1, clk |-> m.clk - n]
      <4>1. m.imp - 1 \in Nat /\ m.clk - n \in Nat
        BY <2>4, <2>7
      <4>2. [imp |-> m.imp - 1, clk |-> m.clk - n] \in CountRec
        BY <4>1 DEF CountRec
      <4> QED
        BY <4>2
    <3>2. PICK q \in CountRec : q = t.metric[d]
      BY <1>4
    <3>3. q.imp \in Nat /\ q.clk \in Nat
      BY NewCount
    <3>4. PICK c \in CountRec : c = [imp |-> q.imp + 1, clk |-> q.clk + n]
      <4>1. q.imp + 1 \in Nat /\ q.clk + n \in Nat
        BY <3>3
      <4>2. [imp |-> q.imp + 1, clk |-> q.clk + n] \in CountRec
        BY <4>1 DEF CountRec
      <4> QED
        BY <4>2
    <3>5. PICK v \in ClaimRec : v = [imp |-> d, clk |-> IF x.clk # 0 THEN d ELSE 0]
      BY <1>4, NewClaim DEF Dated, Twice
    <3>6. v.imp = d /\ v.clk = (IF x.clk # 0 THEN d ELSE 0) /\ Is(v.clk, d) = n /\ d # 0
      BY <1>4, <2>2, <3>5 DEF Is
    <3>7. /\ o # d /\ t.claim[k].imp = o /\ (t.claim[k].clk = 0 \/ t.claim[k].clk = o) /\ v.clk = (IF t.claim[k].clk # 0 THEN d ELSE 0)
          /\ c.imp = t.metric[d].imp + 1 /\ c.clk = t.metric[d].clk + Is(v.clk, d)
          /\ b.imp = t.metric[o].imp - 1 /\ b.clk = t.metric[o].clk - Is(v.clk, d)
      BY <1>3, <1>4, <1>12, <2>1, <2>3, <3>1, <3>2, <3>4, <3>6
    <3>8. PICK t2 : t2 = Shifts(t, k, v, d, c, o, b)
      OBVIOUS
    <3>9. t2.error = t.error /\ Changes(t, t2, k, v)
      BY <1>0, <3>6, <3>7, <3>8, ShiftsOK
    <3>10. Exact(t, I) => ClaimOK(v, imps \cup {e}, clks)
      <4>1. \A f \in imps : f.day \in Days
        BY <1>5, EventsAssumption DEF SeenOf, EventShape
      <4> QED
        BY <1>2, <1>8, <1>12, <3>5, <4>1, ClaimImpressed
    <3>11. ClaimImpression(t, e) = t2
      <4>1. ClaimImpression(t, e) = [t EXCEPT !.metric[o] = [imp |-> @.imp - 1, clk |-> @.clk - n],
                                              !.metric[d] = [imp |-> @.imp + 1, clk |-> @.clk + n],
                                              !.claim[k] = [imp |-> d, clk |-> IF n = 1 THEN d ELSE 0]]
        BY <1>1, <1>2, <1>3, <2>1, <2>2, <2>3, <2>7, <2>5 DEF ClaimImpression
      <4>2. v = [imp |-> d, clk |-> IF n = 1 THEN d ELSE 0]
        BY <2>2, <3>5
      <4>3. t.metric \in [Days -> CountRec] /\ d # o
        BY <1>0, <3>7 DEF TxRec
      <4> QED
        BY <1>0, <2>3, <3>1, <3>2, <3>4, <3>8, <4>1, <4>2, <4>3 DEF Shifts, TxRec
    <3> QED
      BY <1>9, <3>9, <3>10, <3>11
  <2> QED
    BY <2>6, <2>7
<1> QED
  BY <1>4, <1>10, <1>11, <1>12

LEMMA ClickOK ==
  ASSUME NEW t, NEW I, TxOK(t, I), NEW e \in Events, Decodes(e), e.kind = "click", NEW J, Delivers(I, J, e)
  PROVE  TxOK(ClaimClick(t, e), J)
<1>0. t \in TxRec
  BY DEF TxOK
<1>1. PICK k \in Keys : k = e.key
  BY <1>0, RecordFacts
<1>2. PICK d \in Days : d = e.day
  BY <1>0, RecordFacts
<1>3. PICK x \in ClaimRec : x = t.claim[k]
  BY <1>0, <1>1, RecordFacts
<1>4. x.imp \in 0..MaxDay /\ x.clk \in 0..MaxDay /\ x.clk \in {0, x.imp} /\ d \in 1..MaxDay /\ t.metric[d] \in CountRec /\ t.add[d] \in CountRec
  BY <1>0, <1>1, <1>2, <1>3, RecordFacts
<1>5. PICK imps : imps = SeenOf(k, "impression", I)
  OBVIOUS
<1>6. PICK clks : clks = SeenOf(k, "click", I)
  OBVIOUS
<1>7. SeenOf(k, "impression", J) = imps /\ SeenOf(k, "click", J) = clks \cup {e}
  BY <1>1, <1>5, <1>6, SeenMore
<1>8. Exact(t, I) => ClaimOK(x, imps, clks)
  BY <1>0, <1>1, <1>3, <1>5, <1>6, RecordFacts DEF ExactClaim
<1>9. ASSUME NEW v \in ClaimRec, NEW t2, Changes(t, t2, k, v), t2.error = t.error, Exact(t, I) => ClaimOK(v, imps, clks \cup {e})
      PROVE  TxOK(t2, J)
  <2>1. Exact(t, I) => Exact(t2, J)
    <3>1. Changes(t, t2, e.key, v) /\ (Exact(t, I) => ClaimOK(v, SeenOf(e.key, "impression", J), SeenOf(e.key, "click", J)))
      BY <1>1, <1>7, <1>9
    <3> QED
      BY <1>0, <3>1, ChangeOK
  <2> QED
    BY <1>9, <2>1 DEF TxOK, Changes
\* The counts of the day b, which a claim with click on it joins.
<1>10. ASSUME NEW b \in Days, NEW v \in ClaimRec, NEW c \in CountRec, v.imp = b, v.clk = b, x.clk = 0,
              \/ x.imp = 0 /\ c = Both(t.add[b])
              \/ x.imp = b /\ c = Joins(t.add[b])
       PROVE  Adds(t, k, v, b, c).error = t.error /\ Changes(t, Adds(t, k, v, b, c), k, v)
  <2>1. PICK q \in CountRec : q = t.add[b]
    BY <1>0, RecordFacts
  <2>2. q.imp \in Nat /\ q.clk \in Nat /\ b # 0
    BY NewCount DEF Days
  <2>3. /\ c.imp = t.add[b].imp - Is(t.claim[k].imp, b) + Is(v.imp, b)
        /\ c.clk = t.add[b].clk - Is(t.claim[k].clk, b) + Is(v.clk, b)
    <3>1. Is(t.claim[k].clk, b) = 0 /\ Is(v.imp, b) = 1 /\ Is(v.clk, b) = 1
      BY <1>3, <1>10, <2>2 DEF Is
    <3>2. CASE x.imp = 0 /\ c = Both(t.add[b])
      <4>1. Is(t.claim[k].imp, b) = 0 /\ c.imp = q.imp + 1 /\ c.clk = q.clk + 1
        BY <1>3, <2>1, <2>2, <3>2 DEF Is, Both
      <4> QED
        BY <2>1, <2>2, <3>1, <4>1
    <3>3. CASE x.imp = b /\ c = Joins(t.add[b])
      <4>1. Is(t.claim[k].imp, b) = 1 /\ c.imp = q.imp /\ c.clk = q.clk + 1
        BY <1>3, <2>1, <2>2, <3>3 DEF Is, Joins
      <4> QED
        BY <2>1, <2>2, <3>1, <4>1
    <3> QED
      BY <1>10, <3>2, <3>3
  <2>4. \A a \in Days : a # b => Is(t.claim[k].imp, a) = Is(v.imp, a) /\ Is(t.claim[k].clk, a) = Is(v.clk, a)
    BY <1>3, <1>10 DEF Is, Days
  <2> QED
    BY <1>0, <2>3, <2>4, AddsOK
<1>11. CASE x.clk # 0
  <2>1. ClaimClick(t, e) = t
    BY <1>1, <1>3, <1>11 DEF ClaimClick
  <2>2. x.imp # 0
    BY <1>4, <1>11
  <2>3. Exact(t, I) => ClaimOK(x, imps, clks \cup {e})
    BY <1>2, <1>8, <1>11, <2>2, ClaimClicked
  <2> QED
    BY <1>0, <1>3, <1>9, <2>1, <2>3, NoChange
<1>12. CASE x.clk = 0 /\ x.imp = 0
  <2>1. PICK v \in ClaimRec : v = Twice(d)
    BY <1>4, NewClaim
  <2>2. PICK c \in CountRec : c = Both(t.add[d])
    BY <1>4, NewCount
  <2>3. PICK t2 : t2 = Adds(t, k, v, d, c)
    OBVIOUS
  <2>4. v.imp = d /\ v.clk = d
    BY <2>1 DEF Twice
  <2>5. t2.error = t.error /\ Changes(t, t2, k, v)
    BY <1>10, <1>12, <2>2, <2>3, <2>4
  <2>6. Exact(t, I) => ClaimOK(v, imps, clks \cup {e})
    BY <1>2, <1>8, <1>12, <2>1, ClaimFirst DEF Twice
  <2>7. ClaimClick(t, e) = t2
    <3>1. ClaimClick(t, e) = [t EXCEPT !.claim[k] = [imp |-> d, clk |-> d], !.add[d] = [imp |-> @.imp + 1, clk |-> @.clk + 1]]
      BY <1>1, <1>2, <1>3, <1>12 DEF ClaimClick
    <3> QED
      BY <1>0, <2>1, <2>2, <2>3, <3>1 DEF Adds, TxRec, Twice, Both
  <2> QED
    BY <1>9, <2>5, <2>6, <2>7
<1>13. CASE x.clk = 0 /\ x.imp # 0
  <2>1. PICK b \in Days : b = x.imp
    BY <1>4, <1>13 DEF Days
  <2>2. PICK v \in ClaimRec : v = Twice(b)
    BY NewClaim DEF Days
  <2>3. PICK c \in CountRec : c = Joins(t.add[b])
    BY <1>0, RecordFacts, NewCount
  <2>4. PICK t2 : t2 = Adds(t, k, v, b, c)
    OBVIOUS
  <2>5. v.imp = b /\ v.clk = b
    BY <2>2 DEF Twice
  <2>6. t2.error = t.error /\ Changes(t, t2, k, v)
    BY <1>10, <1>13, <2>1, <2>3, <2>4, <2>5
  <2>7. Exact(t, I) => ClaimOK(v, imps, clks \cup {e})
    BY <1>2, <1>8, <1>13, <2>1, <2>2, ClaimClicked DEF Twice
  <2>8. ClaimClick(t, e) = t2
    <3>1. ClaimClick(t, e) = [t EXCEPT !.claim[k].clk = b, !.add[b].clk = @ + 1]
      BY <1>1, <1>3, <1>13, <2>1 DEF ClaimClick
    <3>2. v = [x EXCEPT !.clk = b]
      BY <2>1, <2>2 DEF Twice, ClaimRec
    <3>3. t.add[b] \in CountRec /\ c = [t.add[b] EXCEPT !.clk = t.add[b].clk + 1]
      <4>1. t.add[b] \in CountRec
        BY <1>0, RecordFacts
      <4> QED
        BY <2>3, <4>1 DEF Joins, CountRec
    <3> QED
      BY <1>0, <1>3, <2>4, <3>1, <3>2, <3>3 DEF Adds, TxRec
  <2> QED
    BY <1>9, <2>6, <2>7, <2>8
<1> QED
  BY <1>11, <1>12, <1>13

\* One record more.
LEMMA RecordOK ==
  ASSUME NEW t, NEW I, TxOK(t, I), NEW e \in Events, Decodes(e), NEW J, Delivers(I, J, e)
  PROVE  TxOK(ClaimRecord(t, e), J)
<1>1. CASE e.kind = "impression"
  BY <1>1, ImpressionOK DEF ClaimRecord
<1>2. CASE e.kind = "click"
  BY <1>2, ClickOK DEF ClaimRecord
<1>3. CASE e.kind # "impression" /\ e.kind # "click"
  <2>1. ClaimRecord(t, e) = t
    BY <1>3 DEF ClaimRecord
  <2>2. \A k : SeenOf(k, "impression", J) = SeenOf(k, "impression", I) /\ SeenOf(k, "click", J) = SeenOf(k, "click", I)
    BY <1>3, SeenMore
  <2> QED
    BY <2>1, <2>2 DEF TxOK, Exact, ClaimsOK
<1> QED
  BY <1>1, <1>2, <1>3

-----------------------------------------------------------------------------
(* The records of a transaction, one after the other.                      *)

LEMMA ImageFinite ==
  ASSUME NEW S, IsFiniteSet(S), NEW f
  PROVE  IsFiniteSet({f[i] : i \in S})
<1> DEFINE g == [i \in S |-> f[i]]
           V == {f[i] : i \in S}
<1>1. g \in Surjection(S, V)
  BY DEF Surjection
<1> HIDE DEF g, V
<1>2. IsFiniteSet(V)
  BY <1>1, FS_Surjection
<1> QED
  BY <1>2 DEF V

\* Records of the topic that can be ordered by their day.
Orderly(s) == s \subseteq Nat /\ IsFiniteSet(s) /\ \A i \in s : log[i].day \in Nat

LEMMA LastIs ==
  ASSUME NEW r, r # {}, Orderly(r)
  PROVE  LastRecord(r) \in r
<1> DEFINE f == [i \in r |-> log[i].day]
           D == {f[i] : i \in r}
<1>1. r \subseteq Nat /\ IsFiniteSet(r) /\ \A i \in r : log[i].day \in Nat
  BY DEF Orderly
<1>2. D \subseteq Nat /\ D # {}
  BY <1>1
<1>3. IsFiniteSet(D)
  <2> HIDE DEF f
  <2> QED
    BY <1>1, ImageFinite
<1>4. PICK d \in D : \A x \in D : x <= d
  <2> HIDE DEF D
  <2> QED
    BY <1>2, <1>3, Greatest
<1> DEFINE R == {i \in r : log[i].day = d}
<1>5. R \subseteq Nat /\ R # {} /\ IsFiniteSet(R)
  <2>1. IsFiniteSet(R)
    BY <1>1, FS_Subset
  <2> QED
    BY <1>1, <2>1
<1>6. PICK i \in R : \A j \in R : j <= i
  <2> HIDE DEF R
  <2> QED
    BY <1>5, Greatest
<1>7. \A j \in r : log[j].day < log[i].day \/ (log[j].day = log[i].day /\ j <= i)
  <2> SUFFICES ASSUME NEW j \in r PROVE log[j].day < d \/ (log[j].day = d /\ j <= i)
    OBVIOUS
  <2>1. log[j].day \in Nat /\ d \in Nat /\ log[j].day <= d
    BY <1>1, <1>2, <1>4
  <2> QED
    BY <1>6, <2>1
<1> QED
  BY <1>7 DEF LastRecord

\* The transaction before its records, and after one more of them.
Begun == [claim |-> claim, metric |-> metric, add |-> [d \in Days |-> Zero], error |-> FALSE]
OneMore(f, r) == IF r = {} THEN Begun ELSE ClaimRecord(f[r \ {LastRecord(r)}], log[LastRecord(r)])
Unfolds(f, s) == f = [r \in SUBSET s |-> OneMore(f, r)]
Good(g, s, n) == \A r \in SUBSET s : Cardinality(r) <= n => g[r] = OneMore(g, r)

LEMMA SubsetOrderly ==
  ASSUME NEW s, Orderly(s), NEW r \in SUBSET s
  PROVE  Orderly(r) /\ Cardinality(r) \in Nat /\ Cardinality(r) <= Cardinality(s) /\ Cardinality(s) \in Nat
<1>1. IsFiniteSet(r) /\ Cardinality(r) <= Cardinality(s)
  BY FS_Subset DEF Orderly
<1> QED
  BY <1>1, FS_CardinalityType DEF Orderly

LEMMA ShorterBy ==
  ASSUME NEW r, r # {}, Orderly(r)
  PROVE  /\ r \ {LastRecord(r)} \in SUBSET r /\ r \ {LastRecord(r)} # r /\ LastRecord(r) \in r
         /\ Cardinality(r \ {LastRecord(r)}) = Cardinality(r) - 1
<1>1. LastRecord(r) \in r
  BY LastIs
<1> QED
  BY <1>1, FS_RemoveElement DEF Orderly

\* The recursion is well founded, so that there is a function that satisfies it.
LEMMA Unfolding ==
  ASSUME NEW s, Orderly(s)
  PROVE  \E f : Unfolds(f, s)
<1> DEFINE T == {n \in Nat : ~\E g : Good(g, s, n)}
<1>1. T = {}
  <2> SUFFICES ASSUME T # {} PROVE FALSE
    OBVIOUS
  <2>1. PICK n \in T : \A m \in T : n <= m
    <3>1. T \subseteq Nat
      OBVIOUS
    <3> HIDE DEF T
    <3> QED
      BY <3>1, LeastNumber
  <2>2. CASE n = 0
    <3> DEFINE g == [r \in SUBSET s |-> Begun]
    <3>1. ASSUME NEW r \in SUBSET s, Cardinality(r) <= 0 PROVE g[r] = OneMore(g, r)
      <4>1. Cardinality(r) = 0 /\ IsFiniteSet(r)
        BY <3>1, SubsetOrderly DEF Orderly
      <4>2. r = {}
        BY <4>1, FS_EmptySet
      <4> QED
        BY <4>2 DEF OneMore
    <3>2. Good(g, s, n)
      BY <2>2, <3>1 DEF Good
    <3> QED
      BY <3>2
  <2>3. CASE n # 0
    <3>1. n \in Nat /\ n - 1 \in Nat
      BY <2>3
    <3>2. n - 1 \notin T
      BY <2>1, <3>1
    <3>3. PICK g : Good(g, s, n - 1)
      BY <3>1, <3>2
    <3> DEFINE h == [r \in SUBSET s |-> OneMore(g, r)]
    <3>4. ASSUME NEW r \in SUBSET s, Cardinality(r) <= n PROVE h[r] = OneMore(h, r)
      <4>1. CASE r = {}
        BY <4>1 DEF OneMore
      <4>2. CASE r # {}
        <5>1. PICK q : q = r \ {LastRecord(r)}
          OBVIOUS
        <5>2. Orderly(r) /\ Cardinality(r) \in Nat
          BY SubsetOrderly
        <5>3. q \in SUBSET s /\ Cardinality(q) = Cardinality(r) - 1
          BY <4>2, <5>1, <5>2, ShorterBy
        <5>4. Cardinality(q) <= n - 1
          BY <3>1, <3>4, <5>2, <5>3
        <5>5. g[q] = OneMore(g, q) /\ h[q] = OneMore(g, q)
          BY <3>3, <5>3, <5>4 DEF Good
        <5> HIDE DEF h
        <5>6. OneMore(g, r) = OneMore(h, r)
          BY <4>2, <5>1, <5>5 DEF OneMore
        <5> QED
          BY <5>6 DEF h
      <4> QED
        BY <4>1, <4>2
    <3> HIDE DEF h
    <3>5. Good(h, s, n)
      BY <3>4 DEF Good
    <3> QED
      BY <3>5
  <2> QED
    BY <2>2, <2>3
<1>2. PICK g : Good(g, s, Cardinality(s))
  <2>1. s \in SUBSET s
    OBVIOUS
  <2>2. Cardinality(s) \in Nat
    BY <2>1, SubsetOrderly
  <2> QED
    BY <1>1, <2>2
<1> DEFINE f == [r \in SUBSET s |-> g[r]]
<1>3. ASSUME NEW r \in SUBSET s PROVE g[r] = OneMore(f, r)
  <2>1. g[r] = OneMore(g, r)
    BY <1>2, SubsetOrderly DEF Good
  <2>2. OneMore(g, r) = OneMore(f, r)
    BY DEF OneMore
  <2> QED
    BY <2>1, <2>2
<1>4. Unfolds(f, s)
  BY <1>3 DEF Unfolds
<1> QED
  BY <1>4

LEMMA EventsUnfold ==
  ASSUME NEW s, Orderly(s)
  PROVE  \E f : Unfolds(f, s) /\ ClaimEvents(s) = f[s]
<1> DEFINE h == CHOOSE f : Unfolds(f, s)
<1>1. Unfolds(h, s)
  BY Unfolding
<1>2. ClaimEvents(s) = h[s]
  BY DEF ClaimEvents, Unfolds, OneMore, Begun
<1> QED
  BY <1>1, <1>2

IdsOf(r) == {log[i].id : i \in r}

\* The transaction is exact for the events delivered before and those of its records.
LEMMA EventsOK ==
  ASSUME NEW s, Orderly(s), NEW I, TxOK(Begun, I), \A i \in s : log[i] \in Events /\ Decodes(log[i])
  PROVE  TxOK(ClaimEvents(s), I \cup IdsOf(s))
<1>1. PICK f : Unfolds(f, s) /\ ClaimEvents(s) = f[s]
  BY EventsUnfold
<1>2. \A r \in SUBSET s : f[r] = OneMore(f, r)
  BY <1>1 DEF Unfolds
<1> DEFINE T == {r \in SUBSET s : ~TxOK(f[r], I \cup IdsOf(r))}
<1>3. T = {}
  <2> SUFFICES ASSUME T # {} PROVE FALSE
    OBVIOUS
  <2>1. T \subseteq FiniteSubsetsOf(s)
    BY SubsetOrderly DEF FiniteSubsetsOf, Orderly
  <2>2. PICK r : IsLeast(r, T)
    <3> HIDE DEF T
    <3> QED
      BY <2>1, LeastSet
  <2>3. r \in SUBSET s /\ ~TxOK(f[r], I \cup IdsOf(r)) /\ \A y \in T : y \subseteq r => y = r
    BY <2>2 DEF IsLeast
  <2>4. CASE r = {}
    <3>1. f[r] = Begun /\ I \cup IdsOf(r) = I
      BY <1>2, <2>3, <2>4 DEF OneMore, IdsOf
    <3> QED
      BY <2>3, <3>1
  <2>5. CASE r # {}
    <3>1. Orderly(r)
      BY <2>3, SubsetOrderly
    <3>2. PICK i : i = LastRecord(r)
      OBVIOUS
    <3>3. PICK q : q = r \ {i}
      OBVIOUS
    <3>4. q \in SUBSET r /\ q # r /\ i \in r /\ q \in SUBSET s
      BY <2>3, <2>5, <3>1, <3>2, <3>3, ShorterBy
    <3>5. TxOK(f[q], I \cup IdsOf(q))
      BY <2>3, <3>4
    <3>6. f[r] = ClaimRecord(f[q], log[i])
      BY <1>2, <2>3, <2>5, <3>2, <3>3 DEF OneMore
    <3>7. log[i] \in Events /\ Decodes(log[i])
      BY <2>3, <3>4
    <3>8. PICK A : A = I \cup IdsOf(q)
      OBVIOUS
    <3>9. PICK B : B = I \cup IdsOf(r)
      OBVIOUS
    <3>10. Delivers(A, B, log[i])
      BY <3>3, <3>4, <3>8, <3>9 DEF Delivers, IdsOf
    <3>11. PICK t : t = f[q]
      OBVIOUS
    <3>12. PICK e \in Events : e = log[i]
      BY <3>7
    <3>13. TxOK(t, A) /\ Delivers(A, B, e) /\ Decodes(e)
      BY <3>5, <3>7, <3>8, <3>10, <3>11, <3>12
    <3>14. TxOK(ClaimRecord(t, e), B)
      BY <3>13, RecordOK
    <3> QED
      BY <2>3, <3>6, <3>9, <3>11, <3>12, <3>14
  <2> QED
    BY <2>4, <2>5
<1> QED
  BY <1>1, <1>3

\* Stored claims and counts: exact for the Inbox.
StoredOK(d) ==
  /\ IsFiniteSet(Cohort(claim, d)) /\ metric[d].imp = Cardinality(Cohort(claim, d))
  /\ IsFiniteSet(Clicked(claim, d)) /\ metric[d].clk = Cardinality(Clicked(claim, d))
MetricsInv ==
  /\ claim \in [Keys -> ClaimRec] /\ metric \in [Days -> CountRec]
  /\ ClaimsOK(claim, inbox) /\ \A d \in Days : StoredOK(d)

LEMMA BegunOK ==
  ASSUME MetricsInv
  PROVE  TxOK(Begun, inbox)
<1>1. Zero \in CountRec /\ Zero.imp = 0 /\ Zero.clk = 0
  BY DEF Zero, CountRec
<1>2. PICK ad : ad = [d \in Days |-> Zero]
  OBVIOUS
<1>3. ad \in [Days -> CountRec] /\ claim \in [Keys -> ClaimRec] /\ metric \in [Days -> CountRec]
  BY <1>1, <1>2 DEF MetricsInv
<1>4. /\ Begun.claim = claim /\ Begun.metric = metric /\ Begun.add = ad
      /\ Begun = [claim |-> claim, metric |-> metric, add |-> ad, error |-> FALSE]
  BY <1>2 DEF Begun
<1>5. Begun \in TxRec
  BY <1>3, <1>4 DEF TxRec
<1>6. ASSUME NEW d \in Days PROVE CountOK(Begun, d)
  <2>1. StoredOK(d) /\ metric[d] \in CountRec /\ ad[d] = Zero
    BY <1>2, <1>3 DEF MetricsInv
  <2>2. metric[d].imp \in Nat /\ metric[d].clk \in Nat
    BY <2>1, NewCount
  <2>3. metric[d].imp + ad[d].imp = metric[d].imp /\ metric[d].clk + ad[d].clk = metric[d].clk
    BY <1>1, <2>1, <2>2
  <2> QED
    BY <1>4, <2>1, <2>3 DEF CountOK, StoredOK
<1> QED
  BY <1>4, <1>5, <1>6 DEF TxOK, Exact, MetricsInv

LEMMA MetricsCommit ==
  ASSUME IInv, MetricsInv, NEW c \in Consumers, CommitTx(c)
  PROVE  MetricsInv'
<1>1. PICK s : s = FirstDeliveries(Segment(c))
  OBVIOUS
<1>2. PICK t : t = ClaimEvents(s)
  OBVIOUS
<1>3. cons[c].phase \in Applying /\ ~t.error /\ UpsertMetrics(t) /\ inbox' = inbox \cup Ids(c)
  BY <1>1, <1>2 DEF CommitTx, Applying
<1>4. s \subseteq Segment(c) /\ \A i \in s : log[i] \in Events /\ Decodes(log[i]) /\ log[i].day \in Nat
  BY <1>1, <1>3, EventsInHand, EventsAssumption DEF FirstDeliveries, EventShape, Days
<1>5. Orderly(s)
  BY <1>3, <1>4, EventsInHand, FS_Subset DEF Orderly
<1>6. inbox' = inbox \cup IdsOf(s)
  BY <1>1, <1>3 DEF Ids, IdsOf, FirstDeliveries
<1>7. TxOK(t, inbox \cup IdsOf(s))
  <2>1. PICK I : I = inbox
    OBVIOUS
  <2>2. TxOK(Begun, I)
    BY <2>1, BegunOK
  <2>3. TxOK(ClaimEvents(s), I \cup IdsOf(s))
    BY <1>4, <1>5, <2>2, EventsOK
  <2> QED
    BY <1>2, <2>1, <2>3
<1>8. t \in TxRec /\ ClaimsOK(t.claim, inbox') /\ \A d \in Days : CountOK(t, d)
  BY <1>3, <1>6, <1>7 DEF TxOK, Exact
<1>9. claim' = t.claim /\ claim' \in [Keys -> ClaimRec] /\ t.metric \in [Days -> CountRec] /\ t.add \in [Days -> CountRec]
  BY <1>3, <1>8 DEF UpsertMetrics, TxRec
<1>10. ASSUME NEW d \in Days PROVE metric'[d] \in CountRec /\ StoredOK(d)'
  <2>1. PICK a \in Nat : a = t.metric[d].imp + t.add[d].imp
    <3>1. t.metric[d] \in CountRec /\ t.add[d] \in CountRec
      BY <1>9
    <3> QED
      BY <3>1, NewCount
  <2>2. PICK b \in Nat : b = t.metric[d].clk + t.add[d].clk
    <3>1. t.metric[d] \in CountRec /\ t.add[d] \in CountRec
      BY <1>9
    <3> QED
      BY <3>1, NewCount
  <2>3. metric'[d] = [imp |-> a, clk |-> b]
    BY <1>3, <2>1, <2>2 DEF UpsertMetrics
  <2>4. metric'[d] \in CountRec /\ metric'[d].imp = a /\ metric'[d].clk = b
    BY <2>3 DEF CountRec
  <2>5. CountOK(t, d)
    BY <1>8
  <2> QED
    BY <1>9, <2>1, <2>2, <2>4, <2>5 DEF StoredOK, CountOK, Cohort, Clicked
<1>11. metric' \in [Days -> CountRec]
  <2>1. metric' = [d \in Days |-> metric'[d]]
    BY <1>3 DEF UpsertMetrics
  <2> QED
    BY <1>10, <2>1
<1>12. ClaimsOK(claim, inbox)'
  BY <1>8, <1>9 DEF ClaimsOK, ClaimOK, SeenOf
<1> QED
  BY <1>9, <1>10, <1>11, <1>12 DEF MetricsInv

LEMMA MetricsStep ==
  ASSUME IInv, MetricsInv, [Next]_vars
  PROVE  MetricsInv'
<1>1. CASE UNCHANGED <<inbox, claim, metric>>
  BY <1>1 DEF MetricsInv, ClaimsOK, SeenOf, StoredOK, Cohort, Clicked
<1>2. CASE \E k \in Keys : MarkRead(k)
  <2>1. UNCHANGED <<inbox, claim, metric>>
    BY <1>2 DEF MarkRead
  <2> QED
    BY <1>1, <2>1
<1> QED
  BY <1>1, <1>2, ProjectionCases, MetricsCommit

LEMMA MetricsAreExact ==
  ASSUME MetricsInv
  PROVE  MetricsExact
<1>1. ASSUME NEW k \in Keys
      PROVE  LET imps == Seen(k, "impression")  clks == Seen(k, "click")
             IN /\ claim[k].imp # 0 <=> imps \cup clks # {}
                /\ claim[k].clk = IF clks = {} THEN 0 ELSE claim[k].imp
                /\ \A e \in imps : claim[k].imp <= e.day
                /\ claim[k].imp # 0 => claim[k].imp \in {e.day : e \in imps \cup clks}
  <2>1. ClaimOK(claim[k], SeenOf(k, "impression", inbox), SeenOf(k, "click", inbox))
    BY DEF MetricsInv, ClaimsOK
  <2>2. Seen(k, "impression") = SeenOf(k, "impression", inbox) /\ Seen(k, "click") = SeenOf(k, "click", inbox)
    BY DEF Seen, SeenOf
  <2> QED
    BY <2>1, <2>2 DEF ClaimOK
<1>2. ASSUME NEW d \in Days
      PROVE  metric[d] = [imp |-> Cardinality({k \in Keys : claim[k].imp = d}), clk |-> Cardinality({k \in Keys : claim[k].clk = d})]
  <2>1. metric[d] \in CountRec /\ StoredOK(d)
    BY DEF MetricsInv
  <2>2. metric[d] = [imp |-> metric[d].imp, clk |-> metric[d].clk]
    BY <2>1 DEF CountRec
  <2>3. metric[d].imp = Cardinality({k \in Keys : claim[k].imp = d}) /\ metric[d].clk = Cardinality({k \in Keys : claim[k].clk = d})
    BY <2>1 DEF StoredOK, Cohort, Clicked
  <2> QED
    BY <2>2, <2>3
<1> QED
  BY <1>1, <1>2 DEF MetricsExact

LEMMA InitProjections ==
  ASSUME Init
  PROVE  NotificationsInv /\ MetricsInv
<1>1. /\ inbox = {} /\ notification = [k \in Keys |-> NoNotification] /\ readUpTo = [k \in Keys |-> -1]
      /\ claim = [k \in Keys |-> Zero] /\ metric = [d \in Days |-> Zero]
  BY DEF Init, CInit
<1>2. NoNotification \in NoteRec /\ NoNotification.version = -1 /\ Zero \in CountRec /\ Zero \in ClaimRec /\ Zero.imp = 0 /\ Zero.clk = 0
  BY DEF NoNotification, NoteRec, Zero, CountRec, ClaimRec
<1>3. \A k, kind : Seen(k, kind) = {} /\ SeenOf(k, kind, inbox) = {}
  BY <1>1 DEF Seen, SeenOf
<1>4. NotificationsInv
  BY <1>1, <1>2, <1>3 DEF NotificationsInv, NoteOK
<1>5. ClaimsOK(claim, inbox)
  BY <1>1, <1>2, <1>3 DEF ClaimsOK, ClaimOK
<1>6. ASSUME NEW d \in Days PROVE StoredOK(d)
  <2>1. Cohort(claim, d) = {} /\ Clicked(claim, d) = {}
    BY <1>1, <1>2 DEF Cohort, Clicked, Days
  <2>2. IsFiniteSet({}) /\ Cardinality({}) = 0
    BY FS_EmptySet
  <2> QED
    BY <1>1, <1>2, <2>1, <2>2 DEF StoredOK
<1>7. claim \in [Keys -> ClaimRec] /\ metric \in [Days -> CountRec]
  BY <1>1, <1>2
<1> QED
  BY <1>4, <1>5, <1>6, <1>7 DEF MetricsInv

\* However often, in whatever batches and by whichever member an event is delivered, the
\* projections are those of the set of events that were delivered: the newest activity,
\* unread only if nobody read it, and one impression and at most one click of an opportunity,
\* both on one day that is not later than any of its impressions (MarkInboxProcessedBatch, upsertNotificationCandidates,
\* claimRecommendationCTREvents).
THEOREM ProjectionsAreExact == Spec => []ProjectionsExact
<1>1. Init => NotificationsInv /\ MetricsInv
  BY InitProjections
<1>2. IInv /\ NotificationsInv /\ MetricsInv /\ [Next]_vars => NotificationsInv' /\ MetricsInv'
  BY NotificationsStep, MetricsStep
<1>3. NotificationsInv /\ MetricsInv => ProjectionsExact
  BY NotificationsAreExact, MetricsAreExact DEF ProjectionsExact
<1> QED
  BY Invariant, <1>1, <1>2, <1>3, PTL DEF Spec

==============================================================================

--------------------------- MODULE LikeProjection ---------------------------
(***************************************************************************)
(* What the Like snapshot projection promises its readers, with no queue,  *)
(* lease, broker or inbox in sight.  Every Post has a growing history of   *)
(* aggregate states, one per version; the SQL columns posts.like_count and *)
(* posts.like_sync_version are a view that only ever moves forward to a    *)
(* state of that history, and stops moving once the Post is deleted.       *)
(***************************************************************************)
EXTENDS Integers

CONSTANT Posts        \* Post identities

VARIABLES
  past,     \* past[p]: the [count, version] states p has been through
  view,     \* view[p]: the state SQL shows for p
  frozen    \* the Posts deleted in SQL

vars == <<past, view, frozen>>

\* The state of a Post nobody has liked yet, in Redis and in SQL.
NoLikes == [count |-> 0, version |-> 0]

\* s is the newest state of p.
Newest(p, s) == s \in past[p] /\ \A t \in past[p] : t.version <= s.version

Init ==
  /\ past = [p \in Posts |-> {NoLikes}]
  /\ view = [p \in Posts |-> NoLikes]
  /\ frozen = {}

\* A Like or an unlike: the next version, one away from the newest count.
Change(p) ==
  /\ \E s \in past[p], d \in {-1, 1} :
       /\ Newest(p, s)
       /\ s.count + d >= 0
       /\ past' = [past EXCEPT ![p] = @ \cup {[count |-> s.count + d, version |-> s.version + 1]}]
  /\ UNCHANGED <<view, frozen>>

\* The view catches up with some newer state, not necessarily the newest.
Project(p) ==
  /\ p \notin frozen
  /\ \E s \in past[p] :
       /\ s.version > view[p].version
       /\ view' = [view EXCEPT ![p] = s]
  /\ UNCHANGED <<past, frozen>>

\* The Post is deleted in SQL.
Freeze(p) ==
  /\ frozen' = frozen \cup {p}
  /\ UNCHANGED <<past, view>>

Next == \E p \in Posts : Change(p) \/ Project(p) \/ Freeze(p)

Spec == Init /\ [][Next]_vars

=============================================================================

------------------------------ MODULE PostLists ------------------------------
(***************************************************************************)
(* The lists a viewer scrolls through, page by page, while Posts, reposts, *)
(* follows, mutes and bookmarks come and go: the Following and the profile *)
(* timeline, bookmarks and Like history, replies, quotes, search, topics,  *)
(* notifications, muted users and the connections of a user.               *)
(*                                                                         *)
(*   controllers/following_timeline_*.go, activity_timeline.go,            *)
(*   profile_timeline_controller.go, bookmark_*.go, history_likes_*.go,    *)
(*   post_reply_controller.go, post_quote_controller.go, post_search_*.go, *)
(*   topic_*.go, notification_controller.go, user_mute_controller.go,      *)
(*   follow_controller.go, repost_controller.go                            *)
(*                                                                         *)
(* A row's number is its id, and At gives its timestamp: rows inserted one *)
(* after the other may have the same one.                                  *)
(***************************************************************************)
EXTENDS Integers, FiniteSets

CONSTANTS
  Actors,      \* the other users
  Mirror,      \* the actor whose Posts are imported, the source of the topic
  Surfaces,    \* the lists scrolled
  Limit,       \* page size
  MaxOffset,   \* maxUserListOffset
  Width,       \* topicShuffleBucketDuration
  Seeds,       \* topic traversal seeds
  MaxChanges,  \* bound: changes to the lists and faults
  Start        \* the rows there are first: a record of these rows, below

ASSUME ListsAssumption ==
  /\ Mirror \in Actors /\ Limit \in Nat \ {0} /\ Width \in Nat \ {0} /\ Seeds \subseteq {-1, 1}
  /\ MaxChanges \in Nat /\ MaxOffset \in Nat
  /\ Surfaces \subseteq {"following", "profile", "bookmarks", "liked", "replies", "quotes",
                    "search", "topic", "notifications", "mutes", "connections"}

\* A table has finitely many rows, each with an id of its own that was given.
Table(rows, last) == IsFiniteSet(rows) /\ \A r \in rows : r.id \in 1..last /\ \A q \in rows : q.id = r.id => q = r

\* The tables, with their unique keys.
Tables(t) ==
  /\ t.serial \in Nat \ {0}
  /\ \A rows \in {t.posts, t.reposts, t.follows, t.mutes, t.bookmarks, t.likes, t.notices} : Table(rows, t.serial)
  /\ t.posts \subseteq [id : Nat, by : Actors, at : Nat, parent : Nat, quote : Nat, seenAt : Nat, live : BOOLEAN]
  /\ t.reposts \subseteq [id : Nat, by : Actors, post : Nat]
  /\ \A r, q \in t.reposts : r.by = q.by /\ r.post = q.post => r = q
  /\ t.follows \cup t.mutes \subseteq [id : Nat, by : Actors]
  /\ t.bookmarks \cup t.likes \subseteq [id : Nat, post : Nat]
  /\ \A marks \in {t.bookmarks, t.likes} : \A r, q \in marks : r.post = q.post => r = q
  /\ t.notices \subseteq [id : Nat, by : Actors, post : Nat, at : Nat]

ASSUME StartAssumption == Tables(Start)

VARIABLES
  posts,       \* [id, by, at, parent, quote, seenAt, live]
  reposts,     \* [id, by, post]
  follows,     \* [id, by]: the viewer follows by
  mutes,       \* [id, by]
  bookmarks,   \* [id, post]
  likes,       \* [id, post]: id is that of the last change
  notices,     \* [id, by, post, at]
  serial,      \* the last id given
  changes,
  reader,      \* the scroll
  seen,        \* the rows it was shown
  stable,      \* history: the rows there at every moment since it began
  removed      \* history: a row of its list went away

rowVars == <<posts, reposts, follows, mutes, bookmarks, likes, notices, serial>>
scrollVars == <<reader, seen>>

At(n) == n \div 2
Now == At(serial)

Oldest == 1                                 \* the Post whose replies are listed
NoCursor == <<-1, -1, -1>>
NoReader == [pc |-> "idle", surface |-> "none", cursor |-> NoCursor, offset |-> 0, count |-> 0, rows |-> {}, anchor |-> 0, seed |-> 1, bucket |-> 0]

ListsInit ==
  /\ posts = Start.posts /\ reposts = Start.reposts /\ follows = Start.follows /\ mutes = Start.mutes
  /\ bookmarks = Start.bookmarks /\ likes = Start.likes /\ notices = Start.notices /\ serial = Start.serial
  /\ changes = 0 /\ reader = NoReader /\ seen = {} /\ stable = {} /\ removed = FALSE

-----------------------------------------------------------------------------
(* What a list holds.                                                      *)

Live == {p \in posts : p.live}
Public(id) == \E p \in Live : p.id = id
AuthorOf(id) == (CHOOSE p \in posts : p.id = id).by
Muted(a) == \E m \in mutes : m.by = a
Followed == {f.by : f \in follows}

\* Newest first; the third part breaks ties.
Newer(k, l) == k[1] > l[1] \/ (k[1] = l[1] /\ (k[2] > l[2] \/ (k[2] = l[2] /\ k[3] > l[3])))

\* ORDER BY ... LIMIT n.
Top(rows, n) == {r \in rows : Cardinality({q \in rows : Newer(q.key, r.key)}) < n}
LastOf(rows) == CHOOSE r \in rows : \A q \in rows : q = r \/ Newer(q.key, r.key)

Row(key, post, by) == [key |-> key, post |-> post, by |-> by]

Originals(a) == {Row(<<p.at, 1, p.id>>, p.id, a) : p \in {q \in Live : q.by = a /\ q.parent = 0}}
Reposts(a) == {Row(<<At(r.id), 2, r.id>>, r.post, a) : r \in {q \in reposts : q.by = a /\ Public(q.post)}}

\* What the viewer may see of a, once followed.
VisibleOriginals(a) == IF Muted(a) THEN {} ELSE Originals(a)
VisibleReposts(a) == IF Muted(a) THEN {} ELSE {r \in Reposts(a) : ~Muted(AuthorOf(r.post))}
FollowedActivities == UNION {VisibleOriginals(a) \cup VisibleReposts(a) : a \in Followed}

\* DISTINCT ON (post_id): the latest activity stands for its Post.
Winners(rows) == {r \in rows : \A q \in rows : q.post = r.post => q = r \/ Newer(r.key, q.key)}

Bucket(r, p) == (r.anchor - p.at) \div Width
Imported(r) == {p \in Live : p.by = Mirror /\ p.seenAt <= r.anchor /\ p.at <= r.anchor}

\* The histories: by the time of the relation, then by Post.
HistoryRow(x) == Row(<<At(x.id), 0, -x.post>>, x.post, Mirror)
BookmarkRows == {HistoryRow(b) : b \in {c \in bookmarks : Public(c.post)}}
LikedRows == {HistoryRow(l) : l \in {c \in likes : Public(c.post)}}

PostRow(p) == Row(<<p.at, 0, p.id>>, p.id, p.by)
ReplyRows == {PostRow(p) : p \in {q \in Live : q.parent = Oldest}}
QuoteRows == {PostRow(p) : p \in {q \in Live : q.quote = Oldest}}
SearchRows(anchor) == {PostRow(p) : p \in {q \in Live : q.at <= anchor}}

\* By bucket, and in it by a seeded hash.
TopicRows(r) == {Row(<<-Bucket(r, p), r.seed * p.id, p.id>>, p.id, p.by) : p \in Imported(r)}

\* A notification of a new follower has no Post.
NotificationRows == {Row(<<n.at, 0, n.id>>, n.post, n.by) : n \in {m \in notices : ~Muted(m.by) /\ (m.post = 0 \/ Public(m.post))}}

RelationRows(relation) == {Row(<<At(x.id), 0, x.id>>, 0, x.by) : x \in relation}

\* What the list of r holds.
Rows(r) ==
  CASE r.surface = "following"     -> Winners(FollowedActivities)
    [] r.surface = "profile"       -> Originals(Mirror) \cup Reposts(Mirror)
    [] r.surface = "bookmarks"     -> BookmarkRows
    [] r.surface = "liked"         -> LikedRows
    [] r.surface = "replies"       -> ReplyRows
    [] r.surface = "quotes"        -> QuoteRows
    [] r.surface = "search"        -> SearchRows(r.anchor)
    [] r.surface = "topic"         -> TopicRows(r)
    [] r.surface = "notifications" -> NotificationRows
    [] r.surface = "mutes"         -> RelationRows(mutes)
    [] r.surface = "connections"   -> RelationRows(follows)
    [] OTHER                       -> {}

-----------------------------------------------------------------------------
(* Scrolling.                                                              *)

\* The first request: no cursor, its time is the anchor.
Open(surface, seed) ==
  /\ reader.pc = "idle"
  /\ reader' = [NoReader EXCEPT !.pc = IF surface = "topic" THEN "bucket" ELSE "query", !.surface = surface, !.anchor = Now, !.seed = seed]
  /\ stable' = Rows(reader')
  /\ UNCHANGED <<rowVars, changes, seen, removed>>

\* followingTimelineFirstPageSQL: the newest of each actor is enough.
FirstPage == Winners(UNION {Top(VisibleOriginals(a), Limit + 1) \cup Top(VisibleReposts(a), Limit + 1) : a \in Followed})

\* Mutant: older activities are cut off before the Post's winner is found.
AfterCursor_BeforeWinner(r) ==
  IF r.surface = "following" THEN Winners({x \in FollowedActivities : r.cursor = NoCursor \/ Newer(r.cursor, x.key)})
  ELSE {x \in Rows(r) : r.cursor = NoCursor \/ Newer(r.cursor, x.key)}

\* The rows a request with this cursor chooses from.
AfterCursor(r) == {x \in Rows(r) : r.cursor = NoCursor \/ Newer(r.cursor, x.key)}

\* LIMIT n OFFSET m.
AtOffset(rows, m, n) == Top(rows, m + n) \ Top(rows, m)

\* The candidates: one more than a page, to know whether there is another.
Candidates(r) ==
  CASE r.surface = "following" /\ r.cursor = NoCursor -> Top(FirstPage, Limit + 1)
    [] r.surface = "connections" -> AtOffset(Rows(r), r.offset, Limit + 1)
    [] OTHER -> Top(AfterCursor(r), Limit + 1)

\* Lists whose pages are one query, or one repeatable-read transaction.
OneQuery == {"bookmarks", "liked", "replies", "quotes", "notifications", "mutes", "connections"}

\* The next request starts after the last row scanned; topics after the last
\* one shown. Beyond the largest offset there is no next request.
Shown(r, rows) ==
  LET page == Top(rows, Limit)
      items == IF r.surface \in OneQuery THEN page ELSE {x \in page : Public(x.post)}
      last == LastOf(IF r.surface = "topic" /\ items # {} THEN items ELSE page)
      more == Cardinality(rows) > Limit /\ (r.surface = "connections" => r.offset <= MaxOffset - Limit)
      next == [r EXCEPT !.rows = {}, !.count = @ + Cardinality(items)]
  IN /\ seen' = seen \cup items
     /\ reader' = CASE ~more -> [next EXCEPT !.pc = "end"]
                    [] more /\ r.surface = "topic" -> [next EXCEPT !.pc = "bucket", !.cursor = last.key, !.bucket = -last.key[1]]
                    [] OTHER -> [next EXCEPT !.pc = "query", !.cursor = last.key, !.offset = @ + Limit]

\* The candidate query, and with it the page where there is no other query.
Query ==
  /\ reader.pc = "query"
  /\ IF reader.surface \in {"replies", "quotes"} /\ ~Public(Oldest) THEN reader' = [reader EXCEPT !.pc = "gone"] /\ UNCHANGED seen
     ELSE \E rows \in {Candidates(reader)} :
            IF reader.surface \in OneQuery THEN Shown(reader, rows)
            ELSE reader' = [reader EXCEPT !.pc = "hydrate", !.rows = rows] /\ UNCHANGED seen
  /\ UNCHANGED <<rowVars, changes, stable, removed>>

\* loadTopicTraversalCandidates: a query for each bucket, and one that finds the
\* next bucket with a Post in it.
QueryBucket ==
  /\ reader.pc = "bucket"
  /\ \E rows \in {reader.rows \cup Top({x \in AfterCursor(reader) : -x.key[1] = reader.bucket}, Limit + 1 - Cardinality(reader.rows))} :
       reader' = [reader EXCEPT !.rows = rows, !.pc = IF Cardinality(rows) = Limit + 1 THEN "hydrate" ELSE "nextBucket"]
  /\ UNCHANGED <<rowVars, changes, seen, stable, removed>>

NextBucket ==
  /\ reader.pc = "nextBucket"
  /\ \E later \in {{p \in Imported(reader) : p.at <= reader.anchor - (reader.bucket + 1) * Width}} :
       reader' = IF later = {} THEN [reader EXCEPT !.pc = "hydrate"]
                 ELSE [reader EXCEPT !.pc = "bucket", !.bucket = Bucket(reader, CHOOSE p \in later : \A q \in later : q.at <= p.at)]
  /\ UNCHANGED <<rowVars, changes, seen, stable, removed>>

\* The Posts of the candidates: some may be gone by now.
Hydrate ==
  /\ reader.pc = "hydrate"
  /\ Shown(reader, reader.rows)
  /\ UNCHANGED <<rowVars, changes, stable, removed>>

ScrollStep == Query \/ QueryBucket \/ NextBucket \/ Hydrate

-----------------------------------------------------------------------------
(* Changes.                                                                *)

Change == changes < MaxChanges /\ changes' = changes + 1

\* The history of the rows of the list scrolled.
Watched ==
  /\ UNCHANGED scrollVars
  /\ stable' = stable \cap Rows(reader)'
  /\ removed' = (removed \/ ~(Rows(reader) \subseteq Rows(reader)'))

NextRow == serial' = serial + 1

Publish(a, parent, quote) ==
  /\ Change /\ NextRow /\ a # Mirror /\ \A target \in {parent, quote} \ {0} : Public(target)
  /\ posts' = posts \cup {[id |-> serial', by |-> a, at |-> At(serial'), parent |-> parent, quote |-> quote, seenAt |-> At(serial'), live |-> TRUE]}
  /\ UNCHANGED <<reposts, follows, mutes, bookmarks, likes, notices>> /\ Watched

\* A mirrored Post keeps the time of its source.
Import(at) ==
  /\ Change /\ NextRow /\ at <= At(serial')
  /\ posts' = posts \cup {[id |-> serial', by |-> Mirror, at |-> at, parent |-> 0, quote |-> 0, seenAt |-> At(serial'), live |-> TRUE]}
  /\ UNCHANGED <<reposts, follows, mutes, bookmarks, likes, notices>> /\ Watched

DeletePost(p) ==
  /\ Change
  /\ posts' = (posts \ {p}) \cup {[p EXCEPT !.live = FALSE]}
  /\ UNCHANGED <<reposts, follows, mutes, bookmarks, likes, notices, serial>> /\ Watched

\* ON CONFLICT DO NOTHING: a second repost, follow, mute or bookmark keeps the first.
RepostPost(a, p) ==
  /\ Change /\ NextRow /\ ~\E r \in reposts : r.by = a /\ r.post = p.id
  /\ reposts' = reposts \cup {[id |-> serial', by |-> a, post |-> p.id]}
  /\ UNCHANGED <<posts, follows, mutes, bookmarks, likes, notices>> /\ Watched

\* Only while the Post is public.
UndoRepostPost(r) ==
  /\ Change /\ Public(r.post)
  /\ reposts' = reposts \ {r}
  /\ UNCHANGED <<posts, follows, mutes, bookmarks, likes, notices, serial>> /\ Watched

FollowUser(a) ==
  /\ Change /\ NextRow /\ a \notin Followed
  /\ follows' = follows \cup {[id |-> serial', by |-> a]}
  /\ UNCHANGED <<posts, reposts, mutes, bookmarks, likes, notices>> /\ Watched

UnfollowUser(f) ==
  /\ Change
  /\ follows' = follows \ {f}
  /\ UNCHANGED <<posts, reposts, mutes, bookmarks, likes, notices, serial>> /\ Watched

MuteUser(a) ==
  /\ Change /\ NextRow /\ ~Muted(a)
  /\ mutes' = mutes \cup {[id |-> serial', by |-> a]}
  /\ UNCHANGED <<posts, reposts, follows, bookmarks, likes, notices>> /\ Watched

UnmuteUser(m) ==
  /\ Change
  /\ mutes' = mutes \ {m}
  /\ UNCHANGED <<posts, reposts, follows, bookmarks, likes, notices, serial>> /\ Watched

BookmarkPost(p) ==
  /\ Change /\ NextRow /\ ~\E b \in bookmarks : b.post = p.id
  /\ bookmarks' = bookmarks \cup {[id |-> serial', post |-> p.id]}
  /\ UNCHANGED <<posts, reposts, follows, mutes, likes, notices>> /\ Watched

UnbookmarkPost(b) ==
  /\ Change
  /\ bookmarks' = bookmarks \ {b}
  /\ UNCHANGED <<posts, reposts, follows, mutes, likes, notices, serial>> /\ Watched

\* The reaction's row keeps the time of its last change.
React(p) ==
  /\ Change /\ NextRow
  /\ likes' = IF \E l \in likes : l.post = p.id THEN {l \in likes : l.post # p.id} ELSE likes \cup {[id |-> serial', post |-> p.id]}
  /\ UNCHANGED <<posts, reposts, follows, mutes, bookmarks, notices>> /\ Watched

\* Another Like moves its notification up; it keeps its id.
Notified(n) ==
  /\ Change /\ NextRow
  /\ notices' = (notices \ {n}) \cup {[n EXCEPT !.at = At(serial')]}
  /\ UNCHANGED <<posts, reposts, follows, mutes, bookmarks, likes>> /\ Watched

Relation ==
  \/ \E at \in {0, Now} : Import(at)
  \/ \E a \in Actors : (\E p \in Live : RepostPost(a, p)) \/ FollowUser(a) \/ MuteUser(a)
  \/ \E r \in reposts : UndoRepostPost(r)
  \/ \E f \in follows : UnfollowUser(f)
  \/ \E m \in mutes : UnmuteUser(m)
  \/ \E p \in Live : BookmarkPost(p) \/ React(p)
  \/ \E b \in bookmarks : UnbookmarkPost(b)
  \/ \E n \in notices : Notified(n)

-----------------------------------------------------------------------------
(* Properties.                                                             *)

\* Every row that was there all along is shown by the time its place is passed,
\* whatever is inserted or removed around it. Pages of connections are counted:
\* a row may be missed after another went away, or beyond the largest offset.
StableRowsShown ==
  reader.pc \in {"query", "bucket", "end"} /\ reader.rows = {} =>
    \A r \in stable :
      \/ r \in seen
      \/ reader.pc # "end" /\ (reader.cursor = NoCursor \/ Newer(reader.cursor, r.key))
      \/ reader.surface = "connections" /\ (removed \/ reader.pc # "end" \/ reader.offset > MaxOffset - Limit)

\* No row is shown twice; pages of connections are counted, and may overlap.
NoRowTwice == reader.surface # "connections" => reader.count = Cardinality(seen)

\* The Following timeline shows a Post again, by an older activity, only when the
\* one that showed it is no longer there to see.
NoPostTwice ==
  [][reader.surface = "following" =>
       \A r \in reader'.rows \ reader.rows, s \in seen : s.post = r.post => s \notin FollowedActivities]_<<rowVars, scrollVars>>
=============================================================================

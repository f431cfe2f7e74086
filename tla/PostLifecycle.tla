---------------------------- MODULE PostLifecycle ----------------------------
(***************************************************************************)
(* Replies and quotes of one Post: publishing them with an idempotency key *)
(* that a client repeats, deleting them and the Post, the counters of the  *)
(* Post and the images bound to a reply or quote.                          *)
(*                                                                         *)
(*   controllers/post_controller.go, post_idempotency.go, post_delete.go,  *)
(*   post_media.go, post_reply_store.go, post_quote_store.go               *)
(*                                                                         *)
(* The cached detail page that both invalidate is in PostReads, the Like   *)
(* state they create and remove in PostLikeInit.                           *)
(***************************************************************************)
EXTENDS PostMedia

CONSTANTS
  Attempts,   \* requests that publish, all of one author
  KeyOf,      \* attempt -> Idempotency-Key
  PrintOf,    \* attempt -> fingerprint of its payload
  KindOf,     \* attempt -> "reply" or "quote" of the Post
  MediaOf     \* attempt -> its images

ASSUME PostAssumption ==
  /\ KindOf \in [Attempts -> {"reply", "quote"}] /\ MediaOf \in [Attempts -> SUBSET Media]
  /\ \A a, b \in Attempts : KeyOf[a] = KeyOf[b] /\ PrintOf[a] = PrintOf[b] => KindOf[a] = KindOf[b] /\ MediaOf[a] = MediaOf[b]

VARIABLES
  root,      \* the Post: live, and its counters
  posts,     \* the Posts published: [by, live]
  attempt    \* attempt -> where it is, or how it was answered

postVars == <<root, posts, attempt>>
lifecycleVars == <<objects, lease, cleanup, upload, runner, postFaults, root, posts, attempt>>

LifecycleInit ==
  /\ MediaInit
  /\ root = [live |-> TRUE, reply |-> 0, quote |-> 0] /\ posts = {}
  /\ attempt = [a \in Attempts |-> "new"]

-----------------------------------------------------------------------------
(* Publishing.                                                             *)

Existing(a) == {p \in posts : KeyOf[p.by] = KeyOf[a]}

\* respondToExistingClientPublish.
Replay(a) == IF \E p \in Existing(a) : p.live /\ PrintOf[p.by] = PrintOf[a] THEN "replayed" ELSE "conflict"

\* loadClientPublishPost, before anything is consumed.
Lookup(a) ==
  /\ attempt[a] = "new"
  /\ attempt' = [attempt EXCEPT ![a] = IF Existing(a) # {} THEN Replay(a) ELSE "persist"]
  /\ UNCHANGED <<mediaVars, root, posts, postFaults>>

Consumable(a) == \A m \in MediaOf[a] : lease[m].status = "uploaded"

\* The unique index on author and key.
TakenKey(a) == Existing(a) # {}

\* persistPostGraph: the Post, its images, the counter and the events commit
\* together, the target's row locked; the answer may be lost after the commit,
\* or the process may die, and the client asks again with its key.
Persist(a) ==
  /\ attempt[a] = "persist"
  /\ CASE ~root.live -> attempt' = [attempt EXCEPT ![a] = "unavailable"] /\ UNCHANGED <<root, posts, lease, postFaults>>
       [] root.live /\ TakenKey(a) -> attempt' = [attempt EXCEPT ![a] = Replay(a)] /\ UNCHANGED <<root, posts, lease, postFaults>>
       [] root.live /\ ~TakenKey(a) /\ ~Consumable(a) ->
            attempt' = [attempt EXCEPT ![a] = "invalid"] /\ UNCHANGED <<root, posts, lease, postFaults>>
       [] OTHER ->
            /\ posts' = posts \cup {[by |-> a, live |-> TRUE]}
            /\ root' = [root EXCEPT ![KindOf[a]] = @ + 1]
            /\ lease' = [m \in Media |-> IF m \in MediaOf[a] THEN NoRow ELSE lease[m]]
            /\ \/ attempt' = [attempt EXCEPT ![a] = "created"] /\ UNCHANGED postFaults
               \/ PostFault /\ attempt' = [attempt EXCEPT ![a] = "new"]
  /\ UNCHANGED <<objects, cleanup, upload, runner>>

\* Nothing was committed; the client asks again with its key.
PersistFails(a) ==
  /\ attempt[a] = "persist" /\ PostFault
  /\ attempt' = [attempt EXCEPT ![a] = "new"]
  /\ UNCHANGED <<mediaVars, root, posts>>

-----------------------------------------------------------------------------
(* Deleting.                                                               *)

\* EnqueueDeletedPost: once for an image.
Enqueued(media) == [m \in Media |-> IF m \in media /\ cleanup[m].status = "none" THEN [NoRow EXCEPT !.status = "queued", !.due = TRUE] ELSE cleanup[m]]

\* Mutant: the counter of a deleted Post is left alone.
Decremented_Live(kind) == IF root.live THEN [root EXCEPT ![kind] = @ - 1] ELSE root

\* decrementPostReplyCount, decrementPostQuoteCount: also of a deleted Post.
Decremented(kind) == [root EXCEPT ![kind] = @ - 1]

\* deletePostInTransactionFromDB, for a Post that was published here.
DeleteChild(p) ==
  /\ p.live /\ root[KindOf[p.by]] > 0
  /\ posts' = (posts \ {p}) \cup {[p EXCEPT !.live = FALSE]}
  /\ root' = Decremented(KindOf[p.by])
  /\ cleanup' = Enqueued(MediaOf[p.by])
  /\ UNCHANGED <<objects, lease, upload, runner, postFaults, attempt>>

DeleteRoot ==
  /\ root.live
  /\ root' = [root EXCEPT !.live = FALSE]
  /\ UNCHANGED <<mediaVars, postFaults, posts, attempt>>

-----------------------------------------------------------------------------

Referenced == UNION {MediaOf[p.by] : p \in {q \in posts : q.live}}

UploadStep(m) == StartUpload(m) \/ Put(m) \/ MarkUploaded(m) \/ CleanUp(m)
RunnerStep(g) == ClaimPublished(g) \/ ClaimUploads(g) \/ RemoveObjects(g, Referenced) \/ CompleteCleanup(g)
AttemptStep(a) == Lookup(a) \/ Persist(a)

MediaNext ==
  /\ \/ \E m \in Media : UploadStep(m) \/ PutFails(m) \/ UploadDies(m) \/ Expire(m)
     \/ \E g \in Runners : RunnerStep(g) \/ RunnerDies(g)
  /\ UNCHANGED postVars

RequestNext ==
  \/ \E a \in Attempts : AttemptStep(a) \/ PersistFails(a)
  \/ \E p \in posts : DeleteChild(p)
  \/ DeleteRoot

LifecycleNext == MediaNext \/ RequestNext

LifecycleSpec == LifecycleInit /\ [][LifecycleNext]_lifecycleVars

\* Requests go on, deadlines pass and the collector runs again and again.
LifecycleFairness ==
  /\ \A m \in Media : WF_lifecycleVars(UploadStep(m) /\ UNCHANGED postVars) /\ WF_lifecycleVars(Expire(m) /\ UNCHANGED postVars)
  /\ \A g \in Runners : WF_lifecycleVars(RunnerStep(g) /\ UNCHANGED postVars)
  /\ \A a \in Attempts : WF_lifecycleVars(AttemptStep(a))


-----------------------------------------------------------------------------
(* Properties.                                                             *)

PostTypeOK ==
  /\ objects \in [Media -> SUBSET AllKeys]
  /\ \A m \in Media : {lease[m].status, cleanup[m].status} \subseteq {"none", "uploading", "uploaded", "queued", "cleanup"}
  /\ root.live \in BOOLEAN /\ {root.reply, root.quote} \subseteq Nat
  /\ attempt \in [Attempts -> {"new", "persist", "created", "replayed", "conflict", "unavailable", "invalid"}]

\* A key publishes one Post: whoever is told that it was published means the
\* same one, and a conflict is another payload or a Post deleted since.
OnePostPerKey ==
  /\ \A p, q \in posts : KeyOf[p.by] = KeyOf[q.by] => p.by = q.by /\ p = q
  /\ \A a \in Attempts :
       /\ attempt[a] \in {"created", "replayed"} => \E p \in Existing(a) : PrintOf[p.by] = PrintOf[a]
       /\ attempt[a] = "conflict" => \E p \in Existing(a) : p.live => PrintOf[p.by] # PrintOf[a]

\* The counters are the live replies and quotes, also of a deleted Post.
CountsExact ==
  \A kind \in {"reply", "quote"} : root[kind] = Cardinality({p \in posts : p.live /\ KindOf[p.by] = kind})

\* The image of a live Post is complete and no row of the collector names it; an
\* image is in one live Post; and what is stored beyond that has a row that
\* will remove it.
MediaAccounted ==
  \A m \in Media :
    LET live == {p \in posts : p.live /\ m \in MediaOf[p.by]}
    IN /\ Cardinality(live) <= 1
       /\ live # {} => objects[m] = AllKeys /\ lease[m].status = "none" /\ cleanup[m].status = "none"
       /\ live = {} /\ objects[m] # {} => lease[m].status # "none" \/ cleanup[m].status # "none"
       /\ lease[m].status = "uploaded" => objects[m] = AllKeys

\* Posts and images are safe: see the parts.
PostsSafe == PostTypeOK /\ OnePostPerKey /\ CountsExact /\ MediaAccounted

\* In the end nothing is stored but the images of live Posts.
PostsSettle == <>[](\A m \in Media : objects[m] # {} => m \in Referenced)
=============================================================================

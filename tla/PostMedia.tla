------------------------------ MODULE PostMedia ------------------------------
(***************************************************************************)
(* Images of Posts: an upload is registered as a lease before its objects  *)
(* are stored, the lease is consumed by the Post that shows the image, and *)
(* a collector removes the objects of leases that expired and of Posts     *)
(* that were deleted, claim by claim.                                      *)
(*                                                                         *)
(*   controllers/upload_controller.go, postmedia, postmediaupload,         *)
(*   postmediacleanup, postmediagc, cmd/post-media-gc                      *)
(***************************************************************************)
EXTENDS Integers, FiniteSetsExt, SequencesExt

CONSTANTS
  Media,       \* uploads, by media id; all of one owner
  Keys,        \* the objects of an upload, in the order they are stored
  Runners,     \* collector processes
  MaxPostFaults  \* bound: failures, lost answers, crashes, slow runners

ASSUME MediaAssumption ==
  /\ Keys \in Seq(STRING) /\ Keys # <<>>
  /\ MaxPostFaults \in Nat

VARIABLES
  objects,   \* media -> the objects in the store
  lease,     \* media -> row of post_media_uploads
  cleanup,   \* media -> row of post_media_cleanups
  upload,    \* media -> the upload request
  runner,    \* runner -> the collector
  postFaults

mediaVars == <<objects, lease, cleanup, upload, runner>>

AllKeys == Range(Keys)

\* A row: due once cleanup_after has passed; the token of a claim is the number
\* of the attempt.
NoRow == [status |-> "none", due |-> FALSE, token |-> 0, attempts |-> 0]

NoUpload == [pc |-> "new", stored |-> 0]
NoRun == [pc |-> "idle", claims |-> {}]

MediaInit ==
  /\ objects = [m \in Media |-> {}]
  /\ lease = [m \in Media |-> NoRow] /\ cleanup = [m \in Media |-> NoRow]
  /\ upload = [m \in Media |-> NoUpload]
  /\ runner = [g \in Runners |-> NoRun]
  /\ postFaults = 0

PostFault == postFaults < MaxPostFaults /\ postFaults' = postFaults + 1

-----------------------------------------------------------------------------
(* The upload.                                                             *)

\* The image is decoded and resized before anything is stored.
StartUpload(m) ==
  /\ upload[m].pc = "new"
  /\ lease' = [lease EXCEPT ![m] = [NoRow EXCEPT !.status = "uploading"]]
  /\ upload' = [upload EXCEPT ![m].pc = "put"]
  /\ UNCHANGED <<objects, cleanup, runner, postFaults>>

Put(m) ==
  LET n == upload[m].stored + 1
  IN /\ upload[m].pc = "put"
     /\ objects' = [objects EXCEPT ![m] = @ \cup {Keys[n]}]
     /\ upload' = [upload EXCEPT ![m] = [pc |-> IF n = Len(Keys) THEN "mark" ELSE "put", stored |-> n]]
     /\ UNCHANGED <<lease, cleanup, runner, postFaults>>

\* The store fails, with or without the object in it.
PutFails(m) ==
  /\ upload[m].pc = "put" /\ PostFault
  /\ objects' \in {objects, [objects EXCEPT ![m] = @ \cup {Keys[upload[m].stored + 1]}]}
  /\ upload' = [upload EXCEPT ![m].pc = "clean"]
  /\ UNCHANGED <<lease, cleanup, runner>>

\* uploading -> uploaded, with a new deadline; refused when the row has moved on.
MarkUploaded(m) ==
  /\ upload[m].pc = "mark"
  /\ lease' = IF lease[m].status = "uploading" THEN [lease EXCEPT ![m].status = "uploaded", ![m].due = FALSE] ELSE lease
  /\ upload' = [upload EXCEPT ![m].pc = "over"]
  /\ UNCHANGED <<objects, cleanup, runner, postFaults>>

\* cleanupAfterFailure: the row goes only when every object has gone.
CleanUp(m) ==
  /\ upload[m].pc = "clean"
  /\ \/ /\ objects' = [objects EXCEPT ![m] = {}]
        /\ lease' = IF lease[m].status = "uploading" THEN [lease EXCEPT ![m] = NoRow] ELSE lease
        /\ UNCHANGED postFaults
     \/ /\ PostFault
        /\ \E kept \in SUBSET objects[m] : objects' = [objects EXCEPT ![m] = kept]
        /\ UNCHANGED lease
  /\ upload' = [upload EXCEPT ![m].pc = "over"]
  /\ UNCHANGED <<cleanup, runner>>

\* The request ends wherever it is.
UploadDies(m) ==
  /\ upload[m].pc \in {"put", "mark", "clean"} /\ PostFault
  /\ upload' = [upload EXCEPT ![m].pc = "over"]
  /\ UNCHANGED <<objects, lease, cleanup, runner>>

-----------------------------------------------------------------------------
(* The collector.                                                          *)

Current(c) == (IF c.published THEN cleanup[c.media] ELSE lease[c.media]).token = c.token
HeldBy(m, published) == \E g \in Runners : \E c \in runner[g].claims : c.media = m /\ c.published = published /\ Current(c)

\* Time passes: an upload request is over long before its lease ends, a claim
\* ends while its runner is at it only when the runner is late.
Expire(m) ==
  /\ \/ /\ lease[m].status # "none" /\ ~lease[m].due
        /\ lease[m].status = "uploading" => upload[m].pc = "over"
        /\ IF HeldBy(m, FALSE) THEN PostFault ELSE UNCHANGED postFaults
        /\ lease' = [lease EXCEPT ![m].due = TRUE] /\ UNCHANGED cleanup
     \/ /\ cleanup[m].status # "none" /\ ~cleanup[m].due
        /\ IF HeldBy(m, TRUE) THEN PostFault ELSE UNCHANGED postFaults
        /\ cleanup' = [cleanup EXCEPT ![m].due = TRUE] /\ UNCHANGED lease
  /\ UNCHANGED <<objects, upload, runner>>

Claimed(row) == [status |-> "cleanup", due |-> FALSE, token |-> row.attempts + 1, attempts |-> row.attempts + 1]

\* ClaimBatch: rows that are due, claimed in one transaction.
ClaimPublished(g) ==
  LET due == {m \in Media : cleanup[m].status # "none" /\ cleanup[m].due}
  IN /\ runner[g].pc = "idle"
     /\ runner' = [runner EXCEPT ![g] = [pc |-> "claim", claims |-> {[media |-> m, published |-> TRUE, token |-> cleanup[m].attempts + 1] : m \in due}]]
     /\ cleanup' = [m \in Media |-> IF m \in due THEN Claimed(cleanup[m]) ELSE cleanup[m]]
     /\ due # {} \/ \E m \in Media : lease[m].due
     /\ UNCHANGED <<objects, lease, upload, postFaults>>

\* Mutant: the claim of a runner that died is never taken over.
DueLeases_Fresh == {m \in Media : lease[m].status \in {"uploading", "uploaded"} /\ lease[m].due}

\* cleanupCandidatesQuery.
DueLeases == {m \in Media : lease[m].status # "none" /\ lease[m].due}

\* When it fails, the first claims are left to their deadline.
ClaimUploads(g) ==
  /\ runner[g].pc = "claim"
  /\ \/ \E due \in {DueLeases} :
          /\ lease' = [m \in Media |-> IF m \in due THEN Claimed(lease[m]) ELSE lease[m]]
          /\ LET held == runner[g].claims \cup {[media |-> m, published |-> FALSE, token |-> lease[m].attempts + 1] : m \in due}
             IN runner' = [runner EXCEPT ![g] = IF held = {} THEN NoRun ELSE [pc |-> "check", claims |-> held]]
          /\ UNCHANGED postFaults
     \/ PostFault /\ runner' = [runner EXCEPT ![g] = NoRun] /\ UNCHANGED lease
  /\ UNCHANGED <<objects, cleanup, upload>>

Row(c) == IF c.published THEN cleanup[c.media] ELSE lease[c.media]
SetRow(c, row) ==
  IF c.published THEN cleanup' = [cleanup EXCEPT ![c.media] = row] /\ UNCHANGED lease
  ELSE lease' = [lease EXCEPT ![c.media] = row] /\ UNCHANGED cleanup

Finished(g, c) ==
  runner' = [runner EXCEPT ![g] = IF @.claims = {c} THEN NoRun ELSE [pc |-> "check", claims |-> @.claims \ {c}]]

\* ScheduleCleanupRetry, Retry: only of the claim that is still current.
ScheduleRetry(g, c) ==
  /\ IF Current(c) THEN SetRow(c, [Row(c) EXCEPT !.token = 0, !.due = FALSE]) ELSE UNCHANGED <<lease, cleanup>>
  /\ Finished(g, c)

\* CanDelete: the image of a live Post stays; then the objects go, or some of
\* them do not.
RemoveObjects(g, referenced) ==
  /\ runner[g].pc = "check"
  /\ \E c \in runner[g].claims :
       \/ /\ c.published /\ c.media \in referenced
          /\ ScheduleRetry(g, c) /\ UNCHANGED <<objects, postFaults>>
       \/ /\ ~(c.published /\ c.media \in referenced)
          /\ objects' = [objects EXCEPT ![c.media] = {}]
          /\ runner' = [runner EXCEPT ![g] = [pc |-> "complete", claims |-> {c} \cup @.claims, on |-> c]]
          /\ UNCHANGED <<lease, cleanup, postFaults>>
       \/ /\ ~(c.published /\ c.media \in referenced) /\ PostFault
          /\ \E kept \in SUBSET objects[c.media] : objects' = [objects EXCEPT ![c.media] = kept]
          /\ ScheduleRetry(g, c)
  /\ UNCHANGED upload

\* CompleteCleanup, Complete.
CompleteCleanup(g) ==
  LET c == runner[g].on
  IN /\ runner[g].pc = "complete"
     /\ \/ /\ IF Current(c) THEN SetRow(c, NoRow) ELSE UNCHANGED <<lease, cleanup>>
           /\ UNCHANGED postFaults
        \/ PostFault /\ UNCHANGED <<lease, cleanup>>
     /\ Finished(g, c)
     /\ UNCHANGED <<objects, upload>>

\* The run's deadline, or the process dies.
RunnerDies(g) ==
  /\ runner[g].pc # "idle" /\ PostFault
  /\ runner' = [runner EXCEPT ![g] = NoRun]
  /\ UNCHANGED <<objects, lease, cleanup, upload>>
=============================================================================

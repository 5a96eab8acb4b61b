-------------------------- MODULE LocalTranscoder --------------------------
(***************************************************************************)
(* worker/transcoder.py: the worker on the server itself, which shares the *)
(* database and the directories with the admin API. It works through       *)
(* snapshots: a list of rows is read once, and its entries are processed   *)
(* one after the other, long after the read.                               *)
(***************************************************************************)
EXTENDS VideoLibrary

CONSTANTS CleanUpSource  \* CLEANUP_SOURCE_ON_PERMANENT_FAILURE

ASSUME CleanUpAssumption == CleanUpSource \in BOOLEAN

VARIABLES pc,    \* what the worker's loop is doing
          todo,  \* the entries of its snapshot that are still to be processed
          at     \* the video and the job that process_video_resumable is at

workerVars == <<pc, todo, at>>
vars == <<libraryVars, workerVars>>

Phases == {"down", "idle", "recover", "stale", "purge", "pending", "claim", "mark",
           "probe", "encode", "ready", "complete", "failing", "failed"}
Entry == [video : Videos, job : 0 .. MaxJobs, last : BOOLEAN]
Busy(v) == at.video = v /\ pc \in {"claim", "mark", "probe", "encode", "ready", "complete", "failing", "failed"}

\* Between two statements of one function pass milliseconds: nothing that takes
\* minutes (a claim that lapses, an upload, an encoding) fits in there.
Hurried(v) ==
  \/ Busy(v) /\ pc # "encode"
  \/ \E r \in Requests : /\ request[r].video = v /\ request[r].step \in {"rows", "move"}
                         /\ request[r].op \notin {"none", "publish", "unpublish"}

WorkerInit ==
  /\ pc = "down" /\ todo = {}
  /\ at = [video |-> CHOOSE v \in Videos : TRUE, job |-> 0]

EntryOf(v) == [video |-> v, job |-> job[v].id, last |-> job[v].attempt >= MaxAttempts]
Quiet == UNCHANGED <<source, files, request>>

-----------------------------------------------------------------------------
(* Snapshots. *)

StaleJobs(owners) ==
  {EntryOf(v) : v \in {u \in Videos : /\ job[u].state = "open" /\ job[u].checkpoint = "stale"
                                      /\ job[u].owner \in owners}}

\* A new process has a new id: jobs that its predecessor reset are not its own.
Start ==
  /\ pc = "down"
  /\ pc' = "recover"
  /\ job' = [v \in Videos |-> [job[v] EXCEPT !.owner = IF @ = "mine" THEN "former" ELSE @]]
  /\ todo' = StaleJobs({"none", "LOCAL_WORKER", "mine", "former", "remote"})
  /\ UNCHANGED <<video, at>> /\ Quiet

\* Mutant: jobs that this worker claimed are not looked for.
CheckOthersJobs ==
  /\ pc = "idle"
  /\ pc' = "stale" /\ todo' = StaleJobs({"former", "remote"})
  /\ UNCHANGED <<video, job, at>> /\ Quiet

\* worker_id != own id: rows whose worker_id is NULL are not found either.
CheckStaleJobs ==
  /\ pc = "idle"
  /\ pc' = "stale" /\ todo' = StaleJobs({"LOCAL_WORKER", "former", "remote"})
  /\ UNCHANGED <<video, job, at>> /\ Quiet

FindExpiredArchives ==
  /\ pc = "idle"
  /\ pc' = "purge"
  /\ todo' = {EntryOf(v) : v \in {u \in Videos : Stored(u) /\ video[u].deletedAt = "expired"}}
  /\ UNCHANGED <<video, job, at>> /\ Quiet

FindPendingVideos ==
  /\ pc = "idle"
  /\ pc' = "pending"
  /\ todo' = {EntryOf(v) : v \in {u \in Videos : video[u].status = "pending"}}
  /\ UNCHANGED <<video, job, at>> /\ Quiet

ListDone ==
  /\ pc \in {"recover", "stale", "purge", "pending"} /\ todo = {}
  /\ pc' = "idle"
  /\ UNCHANGED <<video, job, todo, at>> /\ Quiet

-----------------------------------------------------------------------------
(* Recovery of a job whose checkpoint is old, whoever has it. The job is    *)
(* written by its id and the video by its own, whatever they are by now.    *)

SameJob(e) == job[e.video].state # "none" /\ job[e.video].id = e.job

GiveUp(e) ==
  /\ pc \in {"recover", "stale"} /\ e \in todo /\ e.last /\ Stored(e.video)
  /\ job' = IF SameJob(e)
            THEN [job EXCEPT ![e.video].state = "done", ![e.video].checkpoint = "fresh"] ELSE job
  /\ video' = [video EXCEPT ![e.video].status = "failed"]
  /\ source' = [source EXCEPT ![e.video] =
                  IF CleanUpSource /\ SourceInUploads(e.video) THEN "none" ELSE @]
  /\ todo' = todo \ {e}
  /\ UNCHANGED <<files, request, pc, at>>

ResetForRetry(e) ==
  /\ pc \in {"recover", "stale"} /\ e \in todo /\ ~e.last /\ Stored(e.video)
  /\ job' = IF SameJob(e)
            THEN [job EXCEPT ![e.video].state = "open", ![e.video].owner = "mine",
                             ![e.video].attempt = @ + 1, ![e.video].checkpoint = "fresh"]
            ELSE job
  /\ video' = [video EXCEPT ![e.video].status = "pending"]
  /\ files' = [files EXCEPT ![e.video].videos =
                 IF pc = "recover" /\ @ # "none" THEN "part" ELSE @]
  /\ todo' = todo \ {e}
  /\ UNCHANGED <<source, request, pc, at>>

VideoGone(e) ==
  /\ pc \in {"recover", "stale"} /\ e \in todo /\ ~Stored(e.video)
  /\ todo' = todo \ {e}
  /\ UNCHANGED <<video, job, pc, at>> /\ Quiet

PurgeExpired(e) ==
  /\ pc = "purge" /\ e \in todo
  /\ DropRows(e.video)
  /\ RemoveFiles(e.video)
  /\ todo' = todo \ {e}
  /\ UNCHANGED <<request, pc, at>>

-----------------------------------------------------------------------------
(* process_video_resumable *)

SourceMissing(e) ==
  /\ pc = "pending" /\ e \in todo /\ ~SourceInUploads(e.video)
  /\ SetStatus(e.video, "failed")
  /\ todo' = todo \ {e}
  /\ UNCHANGED <<job, pc, at>> /\ Quiet

SourceFound(e) ==
  /\ pc = "pending" /\ e \in todo /\ SourceInUploads(e.video)
  /\ pc' = "claim" /\ at' = [video |-> e.video, job |-> 0]
  /\ todo' = todo \ {e}
  /\ UNCHANGED <<video, job>> /\ Quiet

\* get_existing_job, in one transaction.
LocallyClaimable(v) ==
  /\ job[v].state = "open"
  /\ job[v].claim # "live" \/ job[v].owner = "LOCAL_WORKER"

ClaimLocally ==
  LET v == at.video IN
  /\ pc = "claim" /\ LocallyClaimable(v)
  /\ job' = [job EXCEPT ![v].owner = "LOCAL_WORKER", ![v].claim = "live"]
  /\ at' = [at EXCEPT !.job = job[v].id]
  /\ pc' = "mark"
  /\ UNCHANGED <<video, todo>> /\ Quiet

NothingToClaim ==
  /\ pc = "claim" /\ ~LocallyClaimable(at.video)
  /\ pc' = "pending"
  /\ UNCHANGED <<video, job, todo, at>> /\ Quiet

Mine == job[at.video].state # "none" /\ job[at.video].id = at.job

\* update_job_step, update_job_progress and checkpoint write by the job's id,
\* without asking who has it; where claimed_at is NULL it stays so.
Checkpoint ==
  job' = IF Mine
         THEN [job EXCEPT ![at.video].checkpoint = "fresh",
                          ![at.video].claim = IF @ = "none" THEN "none" ELSE "live"]
         ELSE job

MarkProcessing ==
  /\ pc = "mark"
  /\ SetStatus(at.video, "processing")
  /\ pc' = "probe"
  /\ UNCHANGED <<job, todo, at>> /\ Quiet

ProbeFails ==
  /\ pc = "probe"
  /\ job' = IF Mine THEN [job EXCEPT ![at.video].state = "done", ![at.video].checkpoint = "fresh"]
            ELSE job
  /\ pc' = "failed"
  /\ UNCHANGED <<video, todo, at>> /\ Quiet

\* The probe succeeded; the metadata is stored and the directory made.
Probed ==
  /\ pc = "probe" /\ source[at.video] = "uploads"
  /\ Checkpoint
  /\ SetStatus(at.video, "processing")
  /\ files' = [files EXCEPT ![at.video].videos = IF @ = "none" THEN "part" ELSE @]
  /\ pc' = "encode"
  /\ UNCHANGED <<source, request, todo, at>>

\* Every quality and the master playlist are written.
Encoded ==
  /\ pc = "encode" /\ files[at.video].videos # "none" /\ ~Hurried(at.video)
  /\ Checkpoint
  /\ files' = [files EXCEPT ![at.video].videos = "whole"]
  /\ pc' = "ready"
  /\ UNCHANGED <<video, source, request, todo, at>>

EncodeFails ==
  /\ pc \in {"encode", "ready"}
  /\ pc' = "failing"
  /\ UNCHANGED <<video, job, todo, at>> /\ Quiet

MarkReady ==
  /\ pc = "ready"
  /\ video' = IF Stored(at.video)
              THEN [video EXCEPT ![at.video].status = "ready", ![at.video].published = TRUE]
              ELSE video
  /\ pc' = "complete"
  /\ UNCHANGED <<job, todo, at>> /\ Quiet

MarkJobCompleted ==
  /\ pc = "complete"
  /\ job' = IF Mine THEN [job EXCEPT ![at.video].state = "done", ![at.video].checkpoint = "fresh"]
            ELSE job
  /\ pc' = "pending"
  /\ UNCHANGED <<video, todo, at>> /\ Quiet

\* mark_job_failed: the claim is kept, and completed_at ends a job for good.
MarkJobFailed ==
  /\ pc = "failing"
  /\ job' = IF Mine
            THEN [job EXCEPT ![at.video].checkpoint = "fresh",
                             ![at.video].state = IF job[at.video].attempt < MaxAttempts THEN @ ELSE "done"]
            ELSE job
  /\ pc' = "failed"
  /\ UNCHANGED <<video, todo, at>> /\ Quiet

MarkVideoFailed ==
  /\ pc = "failed"
  /\ SetStatus(at.video, "failed")
  /\ pc' = "pending"
  /\ UNCHANGED <<job, todo, at>> /\ Quiet

-----------------------------------------------------------------------------
(* A requested shutdown is seen between the steps: the video is set back to *)
(* pending, and then worker_loop resets the jobs that bear its own id,      *)
(* which its claims (LOCAL_WORKER) never do.                                *)

ShutDown ==
  /\ pc \in {"idle", "pending", "encode"}
  /\ LET back == {v \in Videos : \/ v = at.video /\ pc = "encode" /\ Stored(v)
                                 \/ job[v].owner = "mine" /\ job[v].state = "open"
                                    /\ video[v].status = "processing"}
     IN video' = [v \in Videos |-> [video[v] EXCEPT !.status = IF v \in back THEN "pending" ELSE @]]
  /\ job' = [v \in Videos |->
               [job[v] EXCEPT !.owner = IF @ = "mine" /\ job[v].state = "open" THEN "none" ELSE @]]
  /\ pc' = "down" /\ todo' = {}
  /\ UNCHANGED at /\ Quiet

Crash ==
  /\ pc # "down"
  /\ pc' = "down" /\ todo' = {}
  /\ UNCHANGED <<video, job, at>> /\ Quiet

-----------------------------------------------------------------------------

AdminStep ==
  \E r \in Requests :
    \/ OpenFile(r) \/ (~Hurried(request[r].video) /\ FileSaved(r)) \/ SaveFails(r) \/ CreateJob(r) \/ CreateJobFails(r)
    \/ MoveToArchive(r) \/ MoveToArchiveFails(r) \/ MoveFromArchive(r)
    \/ MoveFromArchiveFails(r) \/ PurgeFiles(r) \/ WriteRetry(r) \/ WriteRetranscode(r)
    \/ WriteReupload(r) \/ ReuploadFails(r) \/ WritePublished(r)
    \/ \E v \in Videos :
         \/ InsertVideo(r, v) \/ MarkDeleted(r, v) \/ MarkRestored(r, v) \/ PurgeRows(r, v)
         \/ CheckRetry(r, v) \/ CheckRetranscode(r, v) \/ BulkRetranscode(r, v)
         \/ BeginReupload(r, v) \/ BeginReuploadFails(r, v) \/ ReadForPublish(r, v) \/ UpdateVideo(r, v)
         \/ BulkDelete(r, v) \/ BulkRestore(r, v) \/ BulkUpdate(r, v)

Elsewhere ==
  \E v \in Videos :
    \/ (~Hurried(v) /\ (ClaimLapses(v) \/ CheckpointAges(v) \/ RetentionEnds(v)))
    \/ RemoteClaim(v) \/ RemoteProgress(v) \/ RemoteComplete(v) \/ ReleaseLapsed(v)

WorkerStep ==
  \/ Start \/ CheckStaleJobs \/ FindExpiredArchives \/ FindPendingVideos \/ ListDone
  \/ \E e \in todo : \/ GiveUp(e) \/ ResetForRetry(e) \/ VideoGone(e) \/ PurgeExpired(e)
                     \/ SourceMissing(e) \/ SourceFound(e)
  \/ ClaimLocally \/ NothingToClaim \/ MarkProcessing \/ ProbeFails \/ Probed \/ Encoded
  \/ EncodeFails \/ MarkReady \/ MarkJobCompleted \/ MarkJobFailed \/ MarkVideoFailed
  \/ ShutDown \/ Crash

Init == LibraryInit /\ WorkerInit
Next == /\ \/ (AdminStep \/ Elsewhere) /\ UNCHANGED workerVars
           \/ WorkerStep
        /\ UNCHANGED deployment
Spec == Init /\ [][Next]_vars

\* Rows, files, requests and the worker keep their shape: no id, attempt or
\* deadline leaves its range, whoever writes it last.
TypeOK ==
  /\ deployment \in Deployments
  /\ video \in [Videos -> Row] /\ job \in [Videos -> Job]
  /\ source \in [Videos -> {"none", "part", "uploads", "archive"}]
  /\ files \in [Videos -> Places]
  /\ request \in [Requests -> [op : Ops, step : Steps, video : Videos]]
  /\ pc \in Phases /\ todo \subseteq Entry /\ at \in [video : Videos, job : 0 .. MaxJobs]

AtRest(v) == \A r \in Requests : request[r].op # "none" => request[r].video # v

\* A video that is not deleted has none of its files in the archive, where
\* neither viewers nor workers find them: deletion, its undoing when a move
\* fails, and restoration leave row and files in agreement, whatever the worker
\* and the uploads did meanwhile (delete_video, restore_video). The exception is
\* a directory that a failed move left there, which the code forgets.
NothingStranded ==
  \A v \in Videos : Stored(v) /\ ~Archived(v) /\ AtRest(v) =>
    files[v].archive \in {"none", "torn"} /\ source[v] # "archive"

\* The directory of the video is what a request that failed half-way has left of it.
DamagedByFailure(v) ==
  \/ files[v].videos = "torn"
  \/ files[v].videos = "none" /\ files[v].archive = "torn"

\* What is shown as ready can be played: neither a re-upload, which empties the
\* directory, nor a recovery, which removes partial output, nor two workers one
\* after the other leave a ready video with half of its files. The exception is
\* a directory that a failed request has damaged and nobody has made anew: the
\* code shows such a video as before.
ReadyIsWhole ==
  \A v \in Videos :
    video[v].status = "ready" /\ ~Archived(v) /\ AtRest(v) =>
      files[v].videos = "whole" \/ DamagedByFailure(v)

\* The row of a first upload is pending long before its file is complete, and
\* the worker lists pending rows all the while: it never gets as far as a claim
\* or a probe of that video ("If no job exists, the upload is still in progress").
UploadsAreLeftAlone ==
  \A r \in Requests : request[r].op = "upload" =>
    /\ job[request[r].video].state = "none"
    /\ pc \in {"mark", "probe", "encode", "ready", "complete", "failing", "failed"} =>
         at.video # request[r].video

Begun(v) == job[v].state = "open" /\ job[v].checkpoint # "null"
Withdrawn(v) == ~Stored(v) \/ Archived(v) \/ ~SourceInUploads(v)

\* Where only the local worker transcodes and it stays up, what it began it
\* ends: after any crashes and shutdowns at any step, a video in processing is
\* taken up again through its checkpoint until its job is over, unless the
\* video or its source is taken away.
JobsEnd ==
  <>[](pc # "down" /\ ~deployment.remote) =>
    \A v \in Videos : Begun(v) /\ video[v].status = "processing" ~> ~Begun(v) \/ Withdrawn(v)

WorkerGoesOn ==
  \/ Start \/ ListDone
  \/ \E e \in todo : \/ GiveUp(e) \/ ResetForRetry(e) \/ VideoGone(e) \/ PurgeExpired(e)
                     \/ SourceMissing(e) \/ SourceFound(e)
  \/ ClaimLocally \/ NothingToClaim \/ MarkProcessing \/ Probed \/ ProbeFails
  \/ Encoded \/ EncodeFails \/ MarkReady \/ MarkJobCompleted \/ MarkJobFailed \/ MarkVideoFailed

\* A handler between two of its statements goes on.
RequestGoesOn(r) ==
  \/ MoveToArchive(r) \/ MoveFromArchive(r) \/ PurgeFiles(r) \/ WriteRetry(r)
  \/ WriteRetranscode(r) \/ WriteReupload(r) \/ WritePublished(r)

\* The loop polls for ever; a step that began is ended; a checkpoint or a claim
\* that nobody renews grows old.
Fairness ==
  /\ \A r \in Requests : WF_vars(RequestGoesOn(r) /\ UNCHANGED <<workerVars, deployment>>)
  /\ WF_vars(WorkerGoesOn /\ UNCHANGED deployment)
  /\ SF_vars(FindPendingVideos /\ UNCHANGED deployment)
  /\ SF_vars(CheckStaleJobs /\ UNCHANGED deployment)
  /\ \A v \in Videos :
       /\ SF_vars(~Hurried(v) /\ ClaimLapses(v) /\ UNCHANGED <<workerVars, deployment>>)
       /\ SF_vars(~Hurried(v) /\ CheckpointAges(v) /\ UNCHANGED <<workerVars, deployment>>)
FairSpec == Spec /\ Fairness
=============================================================================

---------------------------- MODULE VideoLibrary ----------------------------
(***************************************************************************)
(* The videos of the library as the admin API changes them: the row, the   *)
(* transcoding job, the source file and the output directory of each video.*)
(* A request of the admin holds no lock between its statements: every      *)
(* await of its handler ends a step here, so that another request, a       *)
(* worker or the clean-up may run in between.                              *)
(***************************************************************************)
EXTENDS Naturals, FiniteSets

CONSTANTS Videos,      \* ids of videos; an id is never used twice
          Requests,    \* requests the admin API may have in flight
          MaxAttempts, \* transcoding_jobs.max_attempts
          MaxJobs,     \* bound: job rows a video may be given
          Deployments  \* the ways the library may be used, see Deployment

Ops == {"none", "upload", "delete", "purge", "restore", "retry", "reupload",
        "retranscode", "publish", "unpublish"}

\* What the admin asks for, whether remote workers take jobs as well, whether
\* requests may fail half-way (at moving or removing files, or in the transaction
\* after it), and whether videos in the archive are deleted again.
Deployment == [offered : SUBSET Ops, remote : BOOLEAN, mayFail : BOOLEAN, again : BOOLEAN]

ASSUME LibraryAssumption ==
  MaxAttempts \in Nat \ {0} /\ MaxJobs \in Nat \ {0} /\ Deployments \subseteq Deployment

VARIABLES deployment,  \* one of Deployments, for the whole behaviour
          video,   \* the row in videos
          job,     \* the row in transcoding_jobs
          source,  \* where the uploaded file is
          files,   \* the output directory, in VIDEOS_DIR and in ARCHIVE_DIR
          request  \* what each request of the admin is at

libraryVars == <<deployment, video, job, source, files, request>>

Row == [status : {"unused", "pending", "processing", "ready", "failed", "purged"},
        deletedAt : {"null", "recent", "expired"}, published : BOOLEAN]
Job == [id : 0 .. MaxJobs, state : {"none", "open", "done"},
        owner : {"none", "LOCAL_WORKER", "mine", "former", "remote"},
        claim : {"none", "live", "lapsed"}, attempt : 0 .. MaxAttempts,
        checkpoint : {"null", "fresh", "stale"}, retranscode : BOOLEAN]
\* torn: what a request that failed half-way has left there, whole or not.
Output == {"none", "part", "whole", "torn"}
Places == [videos : Output, archive : Output]
Steps == {"read", "save", "write", "job", "move", "rows"}

NoRequest == [op |-> "none", step |-> "read", video |-> CHOOSE v \in Videos : TRUE]
NewJob(v, again) == [id |-> job[v].id + 1, state |-> "open", owner |-> "none", claim |-> "none",
                     attempt |-> 1, checkpoint |-> "null", retranscode |-> again]
Gone(v) == [job[v] EXCEPT !.state = "none", !.owner = "none", !.claim = "none",
                          !.checkpoint = "null"]

LibraryInit ==
  /\ deployment \in Deployments
  /\ video = [v \in Videos |-> [status |-> "unused", deletedAt |-> "null", published |-> FALSE]]
  /\ job = [v \in Videos |-> [id |-> 0, state |-> "none", owner |-> "none", claim |-> "none",
                              attempt |-> 0, checkpoint |-> "null", retranscode |-> FALSE]]
  /\ source = [v \in Videos |-> "none"]
  /\ files = [v \in Videos |-> [videos |-> "none", archive |-> "none"]]
  /\ request = [r \in Requests |-> NoRequest]

Stored(v) == video[v].status \notin {"unused", "purged"}
Archived(v) == video[v].deletedAt # "null"
SourceInUploads(v) == source[v] \in {"part", "uploads"}

Free(r) == request[r].op = "none"
Asked(r, op) == Free(r) /\ op \in deployment.offered
At(r, op, step) == request[r].op = op /\ request[r].step = step
Begin(r, op, step, v) == request' = [request EXCEPT ![r] = [op |-> op, step |-> step, video |-> v]]
GoTo(r, step) == request' = [request EXCEPT ![r].step = step]
Answer(r) == request' = [request EXCEPT ![r] = NoRequest]

SetStatus(v, s) == video' = IF Stored(v) THEN [video EXCEPT ![v].status = s] ELSE video
SetDeleted(v, d) == video' = IF Stored(v) THEN [video EXCEPT ![v].deletedAt = d] ELSE video
DropRows(v) ==
  /\ video' = [video EXCEPT ![v].status = "purged"]
  /\ job' = [job EXCEPT ![v] = Gone(v)]

-----------------------------------------------------------------------------
(* Uploads. The row is inserted first, then the file is saved chunk by      *)
(* chunk, and only then is the job created.                                 *)

\* Mutant: the job is created with the row, before the file is there.
InsertVideoAndJob(r, v) ==
  /\ Asked(r, "upload") /\ video[v].status = "unused"
  /\ video' = [video EXCEPT ![v].status = "pending"]
  /\ job' = [job EXCEPT ![v] = NewJob(v, FALSE)]
  /\ Begin(r, "upload", "save", v)
  /\ UNCHANGED <<source, files>>

InsertVideo(r, v) ==
  /\ Asked(r, "upload") /\ video[v].status = "unused"
  /\ video' = [video EXCEPT ![v].status = "pending"]
  /\ Begin(r, "upload", "save", v)
  /\ UNCHANGED <<job, source, files>>

OpenFile(r) ==
  LET v == request[r].video IN
  /\ request[r].op \in {"upload", "reupload"} /\ request[r].step = "save"
  /\ source' = [source EXCEPT ![v] = IF @ = "none" THEN "part" ELSE @]
  /\ GoTo(r, "write")
  /\ UNCHANGED <<video, job, files>>

FileSaved(r) ==
  LET v == request[r].video IN
  /\ request[r].op \in {"upload", "reupload"} /\ request[r].step = "write"
  /\ source' = [source EXCEPT ![v] = IF @ = "part" THEN "uploads" ELSE @]
  /\ IF request[r].op = "upload"
     THEN /\ files' = [files EXCEPT ![v].videos = IF @ = "none" THEN "part" ELSE @]
          /\ GoTo(r, "job")
     ELSE Answer(r) /\ UNCHANGED files
  /\ UNCHANGED <<video, job>>

SaveFails(r) ==
  LET v == request[r].video IN
  /\ request[r].op \in {"upload", "reupload"} /\ request[r].step = "write"
  /\ source' = [source EXCEPT ![v] = IF SourceInUploads(v) THEN "none" ELSE @]
  /\ IF request[r].op = "upload" /\ Stored(v) THEN DropRows(v) ELSE UNCHANGED <<video, job>>
  /\ Answer(r)
  /\ UNCHANGED files

CreateJob(r) ==
  LET v == request[r].video IN
  /\ At(r, "upload", "job") /\ Stored(v) /\ job[v].id < MaxJobs
  /\ job' = [job EXCEPT ![v] = NewJob(v, FALSE)]
  /\ Answer(r)
  /\ UNCHANGED <<video, source, files>>

CreateJobFails(r) ==
  LET v == request[r].video IN
  /\ At(r, "upload", "job")
  /\ IF Stored(v) THEN DropRows(v) ELSE UNCHANGED <<video, job>>
  /\ source' = [source EXCEPT ![v] = IF SourceInUploads(v) THEN "none" ELSE @]
  /\ files' = [files EXCEPT ![v].videos = "none"]
  /\ Answer(r)

-----------------------------------------------------------------------------
(* Deletion into the archive, and back. deleted_at is written first; the    *)
(* files follow. When one of the moves fails, deleted_at is set back, and   *)
(* what had been moved is moved back if that succeeds: the code passes over *)
(* an error there, and knows nothing of a directory that was copied or      *)
(* removed in part.                                                         *)

\* shutil.move into a directory that exists puts the moved one inside it.
ToArchive(f) ==
  IF f.videos = "none" THEN f
  ELSE [videos |-> "none", archive |-> IF f.archive = "none" THEN f.videos ELSE f.archive]
FromArchive(f) ==
  IF f.archive = "none" THEN f
  ELSE [archive |-> "none", videos |-> IF f.videos = "none" THEN f.archive ELSE f.videos]

\* A move that fails has done nothing, not copied all, or not removed all.
Torn(output) == IF output = "none" THEN "torn" ELSE output
ToArchiveFails(f) ==
  {f, [f EXCEPT !.archive = Torn(@)], [videos |-> "torn", archive |-> Torn(f.archive)]}
FromArchiveFails(f) ==
  {f, [f EXCEPT !.videos = Torn(@)], [videos |-> Torn(f.videos), archive |-> "torn"]}

\* The directory is not moved; or it is, the source is not, and then the directory
\* is moved back, or is not either.
NotDeleted(v) ==
  LET f == files[v]  moved == ToArchive(f) IN
  IF f.videos = "none" THEN {g \in {f} : SourceInUploads(v)}
  ELSE ToArchiveFails(f) \cup
       {g \in {FromArchive(moved)} \cup {[h EXCEPT !.archive = "torn"] : h \in FromArchiveFails(moved)} :
          SourceInUploads(v)}
NotRestored(v) ==
  LET f == files[v]  moved == FromArchive(f) IN
  IF f.archive = "none" THEN {g \in {f} : source[v] = "archive"}
  ELSE FromArchiveFails(f) \cup
       {g \in {ToArchive(moved)} \cup {[h EXCEPT !.videos = "torn"] : h \in ToArchiveFails(moved)} :
          source[v] = "archive"}

MarkDeleted(r, v) ==
  /\ Asked(r, "delete") /\ Stored(v) /\ (~Archived(v) \/ deployment.again)
  /\ SetDeleted(v, "recent")
  /\ Begin(r, "delete", "move", v)
  /\ UNCHANGED <<job, source, files>>

MoveToArchive(r) ==
  LET v == request[r].video IN
  /\ At(r, "delete", "move")
  /\ files' = [files EXCEPT ![v] = ToArchive(@)]
  /\ source' = [source EXCEPT ![v] = IF SourceInUploads(v) THEN "archive" ELSE @]
  /\ Answer(r)
  /\ UNCHANGED <<video, job>>

MoveToArchiveFails(r) ==
  LET v == request[r].video IN
  /\ deployment.mayFail /\ At(r, "delete", "move")
  /\ \E left \in NotDeleted(v) : files' = [files EXCEPT ![v] = left]
  /\ SetDeleted(v, "null")
  /\ Answer(r)
  /\ UNCHANGED <<job, source>>

MarkRestored(r, v) ==
  /\ Asked(r, "restore") /\ Stored(v) /\ Archived(v)
  /\ SetDeleted(v, "null")
  /\ Begin(r, "restore", "move", v)
  /\ UNCHANGED <<job, source, files>>

\* Mutant: the source is forgotten.
MoveDirectoryFromArchive(r) ==
  LET v == request[r].video IN
  /\ At(r, "restore", "move")
  /\ files' = [files EXCEPT ![v] = FromArchive(@)]
  /\ Answer(r)
  /\ UNCHANGED <<video, job, source>>

MoveFromArchive(r) ==
  LET v == request[r].video IN
  /\ At(r, "restore", "move")
  /\ files' = [files EXCEPT ![v] = FromArchive(@)]
  /\ source' = [source EXCEPT ![v] = IF @ = "archive" THEN "uploads" ELSE @]
  /\ Answer(r)
  /\ UNCHANGED <<video, job>>

MoveFromArchiveFails(r) ==
  LET v == request[r].video IN
  /\ deployment.mayFail /\ At(r, "restore", "move")
  /\ \E left \in NotRestored(v) : files' = [files EXCEPT ![v] = left]
  /\ SetDeleted(v, "recent")
  /\ Answer(r)
  /\ UNCHANGED <<job, source>>

PurgeRows(r, v) ==
  /\ Asked(r, "purge") /\ Stored(v)
  /\ DropRows(v)
  /\ Begin(r, "purge", "move", v)
  /\ UNCHANGED <<source, files>>

\* A source that was archived stays in ARCHIVE_DIR/uploads.
RemoveFiles(v) ==
  /\ files' = [files EXCEPT ![v] = [videos |-> "none", archive |-> "none"]]
  /\ source' = [source EXCEPT ![v] = IF SourceInUploads(v) THEN "none" ELSE @]

PurgeFiles(r) ==
  /\ At(r, "purge", "move")
  /\ RemoveFiles(request[r].video)
  /\ Answer(r)
  /\ UNCHANGED <<video, job>>

\* The bulk operations go through their videos one at a time, and a failure of
\* one is noted and passed over: as many single requests, one after the other.
BulkDelete(r, v) == MarkDeleted(r, v) \/ PurgeRows(r, v)
BulkRestore(r, v) == MarkRestored(r, v)

-----------------------------------------------------------------------------
(* Retry, re-transcode and re-upload: the row is read, checked, and written *)
(* by later statements.                                                     *)

CheckRetry(r, v) ==
  /\ Asked(r, "retry") /\ video[v].status = "failed" /\ SourceInUploads(v)
  /\ Begin(r, "retry", "rows", v)
  /\ UNCHANGED <<video, job, source, files>>

WriteRetry(r) ==
  /\ At(r, "retry", "rows")
  /\ SetStatus(request[r].video, "pending")
  /\ Answer(r)
  /\ UNCHANGED <<job, source, files>>

CheckRetranscode(r, v) ==
  /\ Asked(r, "retranscode") /\ Stored(v) /\ ~Archived(v) /\ SourceInUploads(v) /\ job[v].id < MaxJobs
  /\ Begin(r, "retranscode", "rows", v)
  /\ UNCHANGED <<video, job, source, files>>

WriteRetranscode(r) ==
  LET v == request[r].video IN
  /\ At(r, "retranscode", "rows") /\ job[v].id < MaxJobs
  /\ job' = IF Stored(v) THEN [job EXCEPT ![v] = NewJob(v, TRUE)] ELSE job
  /\ Answer(r)
  /\ UNCHANGED <<video, source, files>>

\* Mutant: nobody asks whether the video is being processed.
BeginReuploadAnyway(r, v) ==
  /\ Asked(r, "reupload") /\ Stored(v) /\ ~Archived(v) /\ job[v].id < MaxJobs
  /\ files' = [files EXCEPT ![v].videos = "part"]
  /\ source' = [source EXCEPT ![v] = IF SourceInUploads(v) THEN "none" ELSE @]
  /\ Begin(r, "reupload", "rows", v)
  /\ UNCHANGED <<video, job>>

BeginReupload(r, v) ==
  /\ Asked(r, "reupload") /\ Stored(v) /\ ~Archived(v) /\ video[v].status # "processing" /\ job[v].id < MaxJobs
  /\ files' = [files EXCEPT ![v].videos = "part"]
  /\ source' = [source EXCEPT ![v] = IF SourceInUploads(v) THEN "none" ELSE @]
  /\ Begin(r, "reupload", "rows", v)
  /\ UNCHANGED <<video, job>>

\* A removal fails: the handler ends, whatever it had removed by then.
BeginReuploadFails(r, v) ==
  /\ deployment.mayFail /\ Asked(r, "reupload") /\ Stored(v) /\ ~Archived(v)
  /\ video[v].status # "processing"
  /\ files' = [files EXCEPT ![v].videos = "torn"]
  /\ UNCHANGED <<video, job, source, request>>

\* The transaction fails: the rows stay as they were, of a video whose files are gone.
ReuploadFails(r) ==
  LET v == request[r].video IN
  /\ deployment.mayFail /\ At(r, "reupload", "rows")
  /\ files' = [files EXCEPT ![v].videos = IF @ = "part" THEN "torn" ELSE @]
  /\ Answer(r)
  /\ UNCHANGED <<video, job, source>>

WriteReupload(r) ==
  LET v == request[r].video IN
  /\ At(r, "reupload", "rows") /\ job[v].id < MaxJobs
  /\ SetStatus(v, "pending")
  /\ job' = IF Stored(v) THEN [job EXCEPT ![v] = NewJob(v, FALSE)] ELSE job
  /\ IF Stored(v) THEN GoTo(r, "save") ELSE Answer(r)
  /\ UNCHANGED <<source, files>>

\* The bulk operation does not ask whether the video is in the archive.
BulkRetranscode(r, v) ==
  /\ Asked(r, "retranscode") /\ Stored(v) /\ SourceInUploads(v) /\ job[v].id < MaxJobs
  /\ Begin(r, "retranscode", "rows", v)
  /\ UNCHANGED <<video, job, source, files>>

ReadForPublish(r, v) ==
  /\ Asked(r, "publish") /\ Stored(v) /\ ~Archived(v)
  /\ Begin(r, IF video[v].published THEN "unpublish" ELSE "publish", "rows", v)
  /\ UNCHANGED <<video, job, source, files>>

WritePublished(r) ==
  LET v == request[r].video IN
  /\ request[r].op \in {"publish", "unpublish"}
  /\ video' = IF Stored(v) THEN [video EXCEPT ![v].published = (request[r].op = "publish")] ELSE video
  /\ Answer(r)
  /\ UNCHANGED <<job, source, files>>

\* update_video and the bulk update write published_at without reading the row.
UpdateVideo(r, v) ==
  /\ Asked(r, "publish") /\ Stored(v)
  /\ \E p \in BOOLEAN : video' = [video EXCEPT ![v].published = p]
  /\ UNCHANGED <<job, source, files, request>>

BulkUpdate(r, v) == UpdateVideo(r, v)

-----------------------------------------------------------------------------
(* Time, and the workers that work through the worker API (the module       *)
(* JobLease has their protocol; here a claim and its result are one step).  *)

ClaimLapses(v) ==
  /\ job[v].claim = "live"
  /\ job' = [job EXCEPT ![v].claim = "lapsed"]
  /\ UNCHANGED <<video, source, files, request>>

CheckpointAges(v) ==
  /\ job[v].checkpoint = "fresh"
  /\ job' = [job EXCEPT ![v].checkpoint = "stale"]
  /\ UNCHANGED <<video, source, files, request>>

RetentionEnds(v) ==
  /\ video[v].deletedAt = "recent"
  /\ video' = [video EXCEPT ![v].deletedAt = "expired"]
  /\ UNCHANGED <<job, source, files, request>>

RemoteClaim(v) ==
  /\ deployment.remote
  /\ \/ video[v].status = "pending"
     \/ video[v].status = "ready" /\ job[v].retranscode
  /\ ~Archived(v) /\ job[v].state = "open" /\ job[v].claim = "none"
  /\ video' = [video EXCEPT ![v].status = "processing"]
  /\ job' = [job EXCEPT ![v].owner = "remote", ![v].claim = "live", ![v].retranscode = FALSE]
  /\ files' = [files EXCEPT ![v].videos = IF job[v].retranscode THEN "part" ELSE @]
  /\ UNCHANGED <<source, request>>

RemoteHolds(v) == job[v].state = "open" /\ job[v].owner = "remote" /\ job[v].claim = "live"

RemoteProgress(v) ==
  /\ RemoteHolds(v)
  /\ job' = [job EXCEPT ![v].checkpoint = "fresh"]
  /\ UNCHANGED <<video, source, files, request>>

RemoteComplete(v) ==
  /\ RemoteHolds(v)
  /\ files' = [files EXCEPT ![v].videos = "whole"]
  /\ video' = [video EXCEPT ![v].status = "ready", ![v].published = TRUE]
  /\ job' = [job EXCEPT ![v].state = "done"]
  /\ UNCHANGED <<source, request>>

ReleaseLapsed(v) ==
  /\ deployment.remote
  /\ job[v].state = "open" /\ job[v].claim = "lapsed"
  /\ job' = [job EXCEPT ![v].owner = "none", ![v].claim = "none"]
  /\ video' = [video EXCEPT ![v].status = IF @ = "processing" THEN "pending" ELSE @]
  /\ UNCHANGED <<source, files, request>>
=============================================================================

------------------------------ MODULE Reencode ------------------------------
(***************************************************************************)
(* Re-encoding the files of one ready video: worker/reencode_worker.py and *)
(* the requests of api/admin.py that fill and hand out reencode_queue.     *)
(*                                                                         *)
(* The rows' progress is not kept: PATCH /api/reencode/{id}, the request   *)
(* that queues chosen videos and the one that cancels a row all call       *)
(* db_execute_with_retry(database, query), which fails in the handler, so  *)
(* that a claimed row stays in_progress. Neither is the video's            *)
(* streaming_format written: it remains one for queue-all to find. The     *)
(* claim of the worker API fails likewise and claims nothing.              *)
(***************************************************************************)
EXTENDS Naturals, FiniteSets

CONSTANTS ReencodeRows,     \* the rows that reencode_queue may get, in the order they are claimed
          ReencodeWorkers,
          QueueClients,     \* queue-all requests that run at the same time
          MaxReencodeFaults \* bound: moves and encodings that fail, and workers that die, each

ASSUME ReencodeAssumption ==
  /\ ReencodeRows \subseteq Nat \ {0} /\ IsFiniteSet(ReencodeRows) /\ MaxReencodeFaults \in Nat

VARIABLES queue,        \* reencode_queue.status of each row
          queueClient,  \* whether each request has found that the video may be queued
          videoDir,     \* VIDEOS_DIR/slug: "absent", or its files are "whole" or in "part" there
          backup,       \* VIDEOS_DIR/slug_backup_<row>, likewise
          reencoder,    \* of each worker: its step, its row and its files, made or read
          sameDisk,     \* work_dir and VIDEOS_DIR are on one file system: a move is a rename
          swapFaults, reencodeDeaths,
          apart         \* history: never were two workers at this video

reencodeVars == <<queue, queueClient, videoDir, backup, reencoder, sameDisk, swapFaults,
                  reencodeDeaths, apart>>

Content == {"absent", "part", "whole"}
Free == [step |-> "idle", row |-> 0, files |-> "absent"]

ReencodeInit ==
  /\ queue = [r \in ReencodeRows |-> "none"]
  /\ queueClient = [c \in QueueClients |-> "idle"]
  /\ videoDir = "whole" /\ backup = [r \in ReencodeRows |-> "absent"]
  /\ reencoder = [w \in ReencodeWorkers |-> Free]
  /\ sameDisk \in BOOLEAN /\ swapFaults = 0 /\ reencodeDeaths = 0 /\ apart = TRUE

RowOf(w) == reencoder[w].row
ToStep(w, step) == reencoder' = [reencoder EXCEPT ![w].step = step]
SwapFault == swapFaults < MaxReencodeFaults /\ swapFaults' = swapFaults + 1
SameDisk == UNCHANGED <<sameDisk, reencodeDeaths>>
FilesStay == SameDisk /\ UNCHANGED <<videoDir, backup>>

-----------------------------------------------------------------------------
(* queue-all: a SELECT, then an INSERT for each video that it found. *)

FindLegacyVideo(c) ==
  /\ queueClient[c] = "idle" /\ \A r \in ReencodeRows : queue[r] # "pending"
  /\ queueClient' = [queueClient EXCEPT ![c] = "insert"]
  /\ FilesStay /\ UNCHANGED <<queue, reencoder, swapFaults, apart>>

QueueRow(c) ==
  /\ queueClient[c] = "insert"
  /\ \E r \in ReencodeRows : /\ queue[r] = "none" /\ \A q \in ReencodeRows : queue[q] = "none" => r <= q
                             /\ queue' = [queue EXCEPT ![r] = "pending"]
  /\ queueClient' = [queueClient EXCEPT ![c] = "idle"]
  /\ FilesStay /\ UNCHANGED <<reencoder, swapFaults, apart>>

-----------------------------------------------------------------------------
(* The worker. *)

\* One UPDATE with SKIP LOCKED: no two workers get one row.
ClaimRow(w) ==
  /\ reencoder[w] = Free
  /\ \E r \in ReencodeRows :
       /\ queue[r] = "pending" /\ \A q \in ReencodeRows : queue[q] = "pending" => r <= q
       /\ queue' = [queue EXCEPT ![r] = "in_progress"]
       /\ reencoder' = [reencoder EXCEPT ![w] = [Free EXCEPT !.step = "find", !.row = r]]
  /\ apart' = (apart /\ \A v \in ReencodeWorkers : reencoder[v] = Free)
  /\ FilesStay /\ UNCHANGED <<queueClient, swapFaults>>

\* Mutant: a status is written.
UpdateWritten(w, status) ==
  queue' = [queue EXCEPT ![RowOf(w)] = status]

\* The request fails in the handler, which the worker logs.
UpdateJobStatus(w, status) ==
  queue' = queue

\* The end of _process_job: a job that failed is to be tried again.
EndJob(w, status) ==
  /\ UpdateJobStatus(w, status)
  /\ reencoder' = [reencoder EXCEPT ![w] = Free]

\* Whatever segments the directory has are taken for the source.
FindSource(w) ==
  /\ reencoder[w].step = "find"
  /\ IF videoDir = "absent" THEN EndJob(w, "pending")
     ELSE reencoder' = [reencoder EXCEPT ![w].step = "encode", ![w].files = videoDir] /\ queue' = queue
  /\ FilesStay /\ UNCHANGED <<queueClient, swapFaults, apart>>

\* ffmpeg takes the end of what it can read for the end of the video. A job is over
\* when no quality could be encoded.
EncodeQualities(w) ==
  /\ reencoder[w].step = "encode"
  /\ ToStep(w, "moveOld") /\ queue' = queue
  /\ FilesStay /\ UNCHANGED <<queueClient, swapFaults, apart>>
EncodeNothing(w) ==
  /\ reencoder[w].step = "encode" /\ SwapFault
  /\ EndJob(w, "pending")
  /\ FilesStay /\ UNCHANGED <<queueClient, apart>>

\* The move of the old files, a rename. A backup that is there already gets them as a
\* directory inside. A worker that reads them elsewhere loses its source.
MoveOld(w) ==
  /\ reencoder[w].step = "moveOld" /\ videoDir # "absent"
  /\ backup' = [backup EXCEPT ![RowOf(w)] = IF @ = "absent" THEN videoDir ELSE @]
  /\ videoDir' = "absent"
  /\ reencoder' = [v \in ReencodeWorkers |->
       IF v = w THEN [reencoder[v] EXCEPT !.step = "moveNew"]
       ELSE IF reencoder[v].step = "encode" THEN [reencoder[v] EXCEPT !.files = "part"] ELSE reencoder[v]]
  /\ SameDisk /\ UNCHANGED <<queue, queueClient, swapFaults, apart>>

\* The handler of both moves: the backup goes back when nothing is in its place.
RestoreBackup(w) ==
  /\ IF backup[RowOf(w)] # "absent" /\ videoDir = "absent"
     THEN videoDir' = backup[RowOf(w)] /\ backup' = [backup EXCEPT ![RowOf(w)] = "absent"]
     ELSE UNCHANGED <<videoDir, backup>>
  /\ EndJob(w, "pending")

MoveOldFails(w) ==
  /\ reencoder[w].step = "moveOld"
  /\ IF videoDir = "absent" THEN swapFaults' = swapFaults ELSE SwapFault
  /\ RestoreBackup(w)
  /\ SameDisk /\ UNCHANGED <<queueClient, apart>>

\* A rename, or a copy that takes its time. When the directory has come back the new
\* files end up inside it, and what was there stays.
MoveNew(w) ==
  /\ reencoder[w].step = "moveNew"
  /\ IF videoDir # "absent" THEN ToStep(w, "remove") /\ UNCHANGED videoDir
     ELSE IF sameDisk THEN videoDir' = reencoder[w].files /\ ToStep(w, "remove")
          ELSE videoDir' = "part" /\ ToStep(w, "copying")
  /\ SameDisk /\ UNCHANGED <<queue, queueClient, backup, swapFaults, apart>>

\* The copy is complete, unless what it had copied was moved away meanwhile.
CopyEnds(w) ==
  /\ reencoder[w].step = "copying"
  /\ \E end \in IF apart THEN {reencoder[w].files} ELSE {"part", reencoder[w].files} : videoDir' = end
  /\ ToStep(w, "remove")
  /\ SameDisk /\ UNCHANGED <<queue, queueClient, backup, swapFaults, apart>>

MoveNewFails(w) ==
  /\ reencoder[w].step \in {"moveNew", "copying"} /\ SwapFault
  /\ RestoreBackup(w)
  /\ SameDisk /\ UNCHANGED <<queueClient, apart>>

RemoveBackup(w) ==
  /\ reencoder[w].step = "remove"
  /\ backup' = [backup EXCEPT ![RowOf(w)] = "absent"]
  /\ EndJob(w, "completed")
  /\ SameDisk /\ UNCHANGED <<queueClient, videoDir, swapFaults, apart>>

\* At any point, with the backup half removed perhaps. Its row is nobody's from now on.
ReencoderDies(w) ==
  /\ reencoder[w] # Free /\ reencodeDeaths < MaxReencodeFaults /\ reencodeDeaths' = reencodeDeaths + 1
  /\ reencoder' = [reencoder EXCEPT ![w] = Free]
  /\ \/ backup' = backup
     \/ reencoder[w].step = "remove" /\ backup' = [backup EXCEPT ![RowOf(w)] = "part"]
  /\ UNCHANGED <<queue, queueClient, videoDir, sameDisk, swapFaults, apart>>

-----------------------------------------------------------------------------
ReencodeNext ==
  \/ \E c \in QueueClients : FindLegacyVideo(c) \/ QueueRow(c)
  \/ \E w \in ReencodeWorkers :
       \/ ClaimRow(w) \/ FindSource(w) \/ EncodeQualities(w) \/ EncodeNothing(w)
       \/ MoveOld(w) \/ MoveOldFails(w) \/ MoveNew(w) \/ CopyEnds(w) \/ MoveNewFails(w)
       \/ RemoveBackup(w) \/ ReencoderDies(w)
ReencodeSpec == ReencodeInit /\ [][ReencodeNext]_reencodeVars

-----------------------------------------------------------------------------
ReencodeTypeOK ==
  /\ queue \in [ReencodeRows -> {"none", "pending", "in_progress", "completed"}]
  /\ queueClient \in [QueueClients -> {"idle", "insert"}]
  /\ videoDir \in Content /\ backup \in [ReencodeRows -> Content]
  /\ reencoder \in [ReencodeWorkers ->
       [step : {"idle", "find", "encode", "moveOld", "moveNew", "copying", "remove"},
        row : ReencodeRows \cup {0}, files : Content]]
  /\ sameDisk \in BOOLEAN /\ swapFaults \in 0 .. MaxReencodeFaults
  /\ reencodeDeaths \in 0 .. MaxReencodeFaults /\ apart \in BOOLEAN

\* As long as one worker at a time was at the video, all its files are in the directory
\* or in some backup, whichever move failed and wherever a worker died, also after a
\* later row was made from what the first one left behind. (Two workers at once can
\* lose them: one reads what the other is moving away, and swaps in what it got.)
\* And unless a worker died, the video has its directory whenever none is between the
\* two moves: a move that fails gives it back, also with several workers at the video.
FilesAreKept ==
  /\ apart => videoDir = "whole" \/ \E r \in ReencodeRows : backup[r] = "whole"
  /\ reencodeDeaths = 0 => \/ videoDir # "absent"
                           \/ \E w \in ReencodeWorkers : reencoder[w].step = "moveNew"
=============================================================================

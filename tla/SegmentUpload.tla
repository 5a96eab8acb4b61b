--------------------------- MODULE SegmentUpload ---------------------------
(***************************************************************************)
(* One quality of a video, uploaded segment by segment while ffmpeg is     *)
(* still encoding it: worker/streaming_upload.py with segment_watcher.py,  *)
(* and the endpoints of api/worker_api.py they talk to.                    *)
(*                                                                         *)
(* Four tasks share a directory and a queue: the encoder writes files one  *)
(* after the other, the watcher takes a file whose size has not changed    *)
(* for some polls for complete and queues it, the uploader posts and       *)
(* deletes it, and the main task ends the others in order. Whoever claims  *)
(* the job again works in the same directory, on what the last run left.   *)
(***************************************************************************)
EXTENDS Naturals, Sequences, FiniteSets

CONSTANTS Segments,          \* how many segments the quality has
          UploadQueueSize,   \* UPLOAD_QUEUE_SIZE
          MaxSegmentRetries, \* MAX_SEGMENT_RETRIES
          StableSizePolls,   \* STABLE_SIZE_POLLS
          Encoders           \* bound: whether the encoder may pause, and how often it is begun

ASSUME SegmentUploadAssumption ==
  /\ Segments \in Nat \ {0} /\ UploadQueueSize \in Nat \ {0}
  /\ MaxSegmentRetries \in Nat \ {0} /\ StableSizePolls \in Nat \ {0}
  /\ Encoders \subseteq [pauses : BOOLEAN, runs : Nat]

VARIABLES file,      \* the file of each segment in the worker's directory
          encoder,   \* the segment being written and what of it is written
          phase,     \* where the main task is
          runs,      \* how often it was begun
          ffmpeg,    \* of Encoders: it pauses for as long as the watcher waits, or never
          watcher,   \* what the watcher remembers, and the segments it is queueing
          queue,     \* upload_queue
          uploader,  \* what the uploader is doing
          tries,     \* retry_counts
          failed,    \* _failed_segments
          uploaded,  \* _uploaded_segments: files posted in this run or found on the server
          saved,     \* the state file: whether there is one, and the segments it names
          server,    \* the file of each segment on the server
          claim      \* the worker's claim: "gone" when it lapsed, or passed to another worker

diskVars == <<file, encoder>>
uploadVars == <<uploader, tries, failed, uploaded, saved>>
segmentVars == <<diskVars, phase, runs, ffmpeg, watcher, queue, uploadVars, server, claim>>

Segment == 1 .. Segments
Sizes == {"none", "empty", "part", "whole"}
Info == [segment : Segment, size : {"empty", "part", "whole"}]
SegmentPhases == {"off", "load", "encode", "stop", "flush", "join", "drain", "playlist", "finalize",
                  "done", "failed"}

Blind == [on |-> FALSE, seen |-> [n \in Segment |-> "none"], stable |-> [n \in Segment |-> 0],
          queued |-> {}, ready |-> {}]
NoItem == [segment |-> 1, size |-> "whole"]
Idle(step) == [step |-> step, item |-> NoItem, round |-> {}]
NoStateFile == [exists |-> FALSE, names |-> {}]
NotWriting == [state |-> "off", segment |-> 1, data |-> "empty"]

SegmentInit ==
  /\ file = [n \in Segment |-> "none"] /\ encoder = NotWriting
  /\ phase = "off" /\ runs = 0 /\ ffmpeg \in Encoders
  /\ watcher = Blind /\ queue = <<>>
  /\ uploader = Idle("off") /\ tries = [n \in Segment |-> 0] /\ failed = {} /\ uploaded = {}
  /\ saved = NoStateFile
  /\ server = [n \in Segment |-> "none"] /\ claim = "mine"

Running == phase \notin {"off", "done", "failed"}

\* The segments that the encoder has finished in this run.
Written == {n \in Segment : \/ encoder.state = "ended"
                            \/ encoder.state # "off" /\ n < encoder.segment}

\* The call returns or the process dies: what was in memory is gone. A post that
\* the server had let in may still be stored.
RunEnds(to) ==
  /\ phase' = to
  /\ encoder' = NotWriting /\ watcher' = Blind /\ queue' = <<>>
  /\ uploader' = Idle("off") /\ tries' = [n \in Segment |-> 0] /\ failed' = {} /\ uploaded' = {}
  /\ \/ server' = server
     \/ /\ uploader.step = "admitted"
        /\ server' = [server EXCEPT ![uploader.item.segment] = uploader.item.size]
  /\ UNCHANGED <<file, runs, ffmpeg, claim>>

-----------------------------------------------------------------------------
(* The main task: streaming_transcode_and_upload_quality. *)

\* process_job is entered, for the first time or again: the directory is named
\* after the job and nothing clears it.
Begin ==
  /\ phase \in {"off", "failed"} /\ runs < ffmpeg.runs
  /\ phase' = "load" /\ runs' = runs + 1 /\ claim' = "mine"
  /\ UNCHANGED <<diskVars, ffmpeg, watcher, queue, uploadVars, server>>

\* get_segments_status: the names in the video's directory.
ReceivedSegments == {n \in Segment : server[n] # "none"}

\* Mutant: on a resume whatever was ever written is taken to be uploaded.
KnownByName ==
  IF ~saved.exists THEN {{}} ELSE {{n \in Segment : file[n] # "none" \/ server[n] # "none"}}

\* Without a state file nothing is asked, and what the server has is not known.
\* When the question fails, the state file is believed.
KnownUploads ==
  IF ~saved.exists THEN {{}}
  ELSE {saved.names} \cup (IF claim = "mine" THEN {ReceivedSegments} ELSE {})

Load ==
  /\ phase = "load"
  /\ \E known \in KnownUploads :
       /\ uploaded' = known
       /\ saved' = IF saved.exists THEN [saved EXCEPT !.names = known] ELSE saved
  /\ phase' = "encode"
  /\ encoder' = [state |-> "running", segment |-> 1, data |-> "none"]
  /\ watcher' = [Blind EXCEPT !.on = TRUE]
  /\ uploader' = Idle("idle")
  /\ UNCHANGED <<file, runs, ffmpeg, queue, tries, failed, server, claim>>

\* 409 from get_segments_status: the job is given up.
LoadExpired ==
  /\ phase = "load" /\ saved.exists /\ claim = "gone"
  /\ RunEnds("failed") /\ UNCHANGED saved

\* transcode_coro returns failure, or raises: a progress update was answered 409.
EncoderFails ==
  /\ phase = "encode" /\ encoder.state = "running"
  /\ RunEnds("failed") /\ UNCHANGED saved

EncoderEnds ==
  /\ phase = "encode" /\ encoder.state = "ended"
  /\ phase' = "stop" /\ UNCHANGED <<diskVars, runs, ffmpeg, watcher, queue, uploadVars, server, claim>>

\* The watcher's task ends between two polls, when it has queued what it had found.
WatcherStopped ==
  /\ phase = "stop" /\ watcher.ready = {}
  /\ phase' = "flush"
  /\ watcher' = LET rest == {n \in Segment : n \notin watcher.queued /\ file[n] \in {"part", "whole"}}
                IN [watcher EXCEPT !.on = FALSE, !.queued = @ \cup rest,
                                   !.ready = {[segment |-> n, size |-> file[n]] : n \in rest}]
  /\ UNCHANGED <<diskVars, runs, ffmpeg, queue, uploadVars, server, claim>>

\* upload_queue.put without a timeout.
FlushOne ==
  /\ phase = "flush" /\ Len(queue) < UploadQueueSize
  /\ \E i \in watcher.ready : queue' = Append(queue, i) /\ watcher' = [watcher EXCEPT !.ready = @ \ {i}]
  /\ UNCHANGED <<diskVars, phase, runs, ffmpeg, uploadVars, server, claim>>

Flushed ==
  /\ phase = "flush" /\ watcher.ready = {}
  /\ phase' = "join"
  /\ UNCHANGED <<diskVars, runs, ffmpeg, watcher, queue, uploadVars, server, claim>>

\* Mutant: an item counts as done only once it is uploaded.
JoinedWhenUploaded ==
  /\ phase = "join" /\ queue = <<>> /\ uploader.step \in {"idle", "raised"} /\ failed = {}
  /\ phase' = "drain"
  /\ UNCHANGED <<diskVars, runs, ffmpeg, watcher, queue, uploadVars, server, claim>>

\* queue.join returns when every item taken was also marked as done.
Joined ==
  /\ phase = "join" /\ queue = <<>> /\ uploader.step \in {"idle", "raised"}
  /\ phase' = "drain"
  /\ UNCHANGED <<diskVars, runs, ffmpeg, watcher, queue, uploadVars, server, claim>>

\* await upload_task: its exception is raised here, and nowhere earlier.
UploaderJoined ==
  /\ phase = "drain"
  /\ \/ /\ uploader.step = "ended" /\ phase' = "playlist"
        /\ UNCHANGED <<diskVars, runs, ffmpeg, watcher, queue, uploadVars, server, claim>>
     \/ uploader.step = "raised" /\ RunEnds("failed") /\ UNCHANGED saved

\* A request of the main task: done only under the claim, and it may fail.
PostPlaylist ==
  /\ phase = "playlist"
  /\ \/ /\ claim = "mine" /\ phase' = "finalize"
        /\ UNCHANGED <<diskVars, runs, ffmpeg, watcher, queue, uploadVars, server, claim>>
     \/ RunEnds("failed") /\ UNCHANGED saved

\* finalize_segment_upload compares numbers of files.
Complete(count) == claim = "mine" /\ Cardinality(ReceivedSegments) >= count

\* The number that is sent is that of the files left in the worker's directory.
\* Success removes the state file.
Finalize ==
  /\ phase = "finalize"
  /\ \/ /\ Complete(Cardinality({n \in Segment : file[n] # "none"}))
        /\ phase' = "done" /\ saved' = NoStateFile
        /\ UNCHANGED <<diskVars, runs, ffmpeg, watcher, queue, uploader, tries, failed, uploaded,
                       server, claim>>
     \/ RunEnds("failed") /\ UNCHANGED saved

Crash == Running /\ RunEnds("off") /\ UNCHANGED saved

-----------------------------------------------------------------------------
(* The encoder. ffmpeg writes the segments in order and truncates a file   *)
(* that is there; one that is deleted while it is written does not return. *)

Grow ==
  /\ encoder.state = "running" /\ phase = "encode"
  /\ LET n == encoder.segment
         kept(data) == IF file[n] = "none" THEN "none" ELSE data
     IN \/ encoder.data = "none" /\ encoder' = [encoder EXCEPT !.data = "empty"]
                                 /\ file' = [file EXCEPT ![n] = "empty"]
        \/ encoder.data = "empty" /\ encoder' = [encoder EXCEPT !.data = "part"]
                                  /\ file' = [file EXCEPT ![n] = kept("part")]
        \/ encoder.data = "part" /\ n < Segments
           /\ encoder' = [encoder EXCEPT !.segment = n + 1, !.data = "empty"]
           /\ file' = [file EXCEPT ![n] = kept("whole"), ![n + 1] = "empty"]
        \/ encoder.data = "part" /\ n = Segments
           /\ encoder' = [encoder EXCEPT !.state = "ended"]
           /\ file' = [file EXCEPT ![n] = kept("whole")]
  /\ UNCHANGED <<phase, runs, ffmpeg, watcher, queue, uploadVars, server, claim>>

\* The file of this segment is growing.
Growing(n) == encoder.state = "running" /\ encoder.segment = n /\ encoder.data = "part"

-----------------------------------------------------------------------------
(* The watcher. *)

\* _check_stable_segments: "still" says that a file being written kept its size.
Poll ==
  /\ watcher.on /\ phase = "encode" /\ watcher.ready = {}
  /\ \E still \in IF ffmpeg.pauses THEN BOOLEAN ELSE {FALSE} :
       LET same(n) == file[n] = watcher.seen[n] /\ (Growing(n) => still)
           fresh(n) == n \notin watcher.queued /\ file[n] \in {"part", "whole"}
           count == [n \in Segment |-> IF ~fresh(n) THEN watcher.stable[n]
                                       ELSE IF ~same(n) THEN 0
                                       ELSE IF watcher.stable[n] < StableSizePolls THEN watcher.stable[n] + 1
                                       ELSE StableSizePolls]
           found == {n \in Segment : fresh(n) /\ same(n) /\ count[n] = StableSizePolls}
       IN watcher' = [watcher EXCEPT !.seen = file, !.stable = count, !.queued = @ \cup found,
                                     !.ready = {[segment |-> n, size |-> file[n]] : n \in found}]
  /\ UNCHANGED <<diskVars, phase, runs, ffmpeg, queue, uploadVars, server, claim>>

Put ==
  /\ watcher.on /\ Len(queue) < UploadQueueSize
  /\ \E i \in watcher.ready : queue' = Append(queue, i) /\ watcher' = [watcher EXCEPT !.ready = @ \ {i}]
  /\ UNCHANGED <<diskVars, phase, runs, ffmpeg, uploadVars, server, claim>>

\* Mutant: a segment for which there was no room is not found again.
PutForgets ==
  /\ watcher.on /\ Len(queue) = UploadQueueSize
  /\ \E i \in watcher.ready : watcher' = [watcher EXCEPT !.ready = @ \ {i}]
  /\ UNCHANGED <<diskVars, phase, runs, ffmpeg, queue, uploadVars, server, claim>>

\* The queue stayed full for a second: the next poll, or the flush, finds it again.
PutTimesOut ==
  /\ watcher.on /\ Len(queue) = UploadQueueSize
  /\ \E i \in watcher.ready :
       watcher' = [watcher EXCEPT !.ready = @ \ {i}, !.queued = @ \ {i.segment}]
  /\ UNCHANGED <<diskVars, phase, runs, ffmpeg, queue, uploadVars, server, claim>>

-----------------------------------------------------------------------------
(* The uploader. *)

Holding == uploader.item.segment
Goes(step) == uploader' = [uploader EXCEPT !.step = step]
Released == [uploader EXCEPT !.step = "idle", !.item = NoItem]
UploaderOnly == UNCHANGED <<diskVars, phase, runs, ffmpeg, watcher, server, claim>>

Take ==
  /\ uploader.step = "idle" /\ uploader.round = {} /\ queue # <<>>
  /\ uploader' = [uploader EXCEPT !.step = "holds", !.item = Head(queue)]
  /\ queue' = Tail(queue)
  /\ UploaderOnly /\ UNCHANGED <<tries, failed, uploaded, saved>>

\* The stop signal, an empty queue and failed segments: another round.
BeginRound ==
  /\ uploader.step = "idle" /\ uploader.round = {} /\ queue = <<>> /\ phase = "drain" /\ failed # {}
  /\ uploader' = [uploader EXCEPT !.round = failed] /\ failed' = {}
  /\ UploaderOnly /\ UNCHANGED <<queue, tries, uploaded, saved>>

Retry ==
  /\ uploader.step = "idle"
  /\ \E i \in uploader.round :
       /\ uploader' = [step |-> "holds", item |-> i, round |-> uploader.round \ {i}]
       /\ tries' = [tries EXCEPT ![i.segment] = @ + 1]
  /\ UploaderOnly /\ UNCHANGED <<queue, failed, uploaded, saved>>

UploaderEnds ==
  /\ uploader.step = "idle" /\ uploader.round = {} /\ queue = <<>> /\ phase = "drain" /\ failed = {}
  /\ Goes("ended")
  /\ UploaderOnly /\ UNCHANGED <<queue, tries, failed, uploaded, saved>>

\* A segment from the queue that is on the server: only the local file goes. The
\* rounds do not ask.
Skip ==
  /\ uploader.step = "holds" /\ tries[Holding] = 0 /\ Holding \in uploaded
  /\ file' = [file EXCEPT ![Holding] = "none"]
  /\ uploader' = Released
  /\ UNCHANGED <<encoder, phase, runs, ffmpeg, watcher, queue, tries, failed, uploaded, saved, server, claim>>

NotSkipped == uploader.step = "holds" /\ ~(tries[Holding] = 0 /\ Holding \in uploaded)

\* FileNotFoundError: nothing to retry.
FileGone ==
  /\ NotSkipped /\ file[Holding] = "none"
  /\ uploader' = Released
  /\ UploaderOnly /\ UNCHANGED <<queue, tries, failed, uploaded, saved>>

\* The size is not the one that the watcher saw: queued again, however often it
\* was tried. A file truncated by the encoder has size 0, and is tried as such.
SizeChanged ==
  /\ NotSkipped /\ file[Holding] # "none"
  /\ file[Holding] # uploader.item.size \/ Growing(Holding)
  /\ failed' = failed \cup {[segment |-> Holding, size |-> file[Holding]]}
  /\ uploader' = Released
  /\ UploaderOnly /\ UNCHANGED <<queue, tries, uploaded, saved>>

ReadAndPost ==
  /\ NotSkipped /\ file[Holding] = uploader.item.size
  /\ Growing(Holding) => ffmpeg.pauses
  /\ Goes("posting")
  /\ UploaderOnly /\ UNCHANGED <<queue, tries, failed, uploaded, saved>>

\* The read fails, the request fails for good, or the server does not confirm the
\* checksum: for the next round, unless it was the last.
TryLater ==
  /\ failed' = IF tries[Holding] < MaxSegmentRetries THEN failed \cup {uploader.item} ELSE failed
  /\ uploader' = Released

PostFails ==
  /\ uploader.step \in {"posting", "admitted", "stored"}
  /\ TryLater
  /\ UploaderOnly /\ UNCHANGED <<queue, tries, uploaded, saved>>

\* 409, before anything is read from the body.
PostExpired ==
  /\ uploader.step = "posting" /\ claim = "gone"
  /\ Goes("raised")
  /\ UploaderOnly /\ UNCHANGED <<queue, tries, failed, uploaded, saved>>

\* The claim is looked at when the request arrives, before its body is read.
Admit ==
  /\ uploader.step = "posting" /\ claim = "mine"
  /\ Goes("admitted")
  /\ UploaderOnly /\ UNCHANGED <<queue, tries, failed, uploaded, saved>>

\* A file that is there with the same content is left alone, and the claim is not
\* extended; the row read on arrival is extended, be it lapsed or another's by now.
Store ==
  /\ uploader.step = "admitted"
  /\ server' = [server EXCEPT ![Holding] = uploader.item.size]
  /\ claim' \in IF server' # server THEN {claim, "mine"} ELSE {claim}
  /\ Goes("stored")
  /\ UNCHANGED <<diskVars, phase, runs, ffmpeg, watcher, queue, tries, failed, uploaded, saved>>

\* checksum_verified: the file is deleted, whatever was written to it meanwhile.
Confirmed ==
  /\ uploader.step = "stored"
  /\ file' = [file EXCEPT ![Holding] = "none"]
  /\ uploaded' = uploaded \cup {Holding}
  /\ Goes("saving")
  /\ UNCHANGED <<encoder, phase, runs, ffmpeg, watcher, queue, tries, failed, saved, server, claim>>

\* mark_uploaded writes the whole state; when that fails, nothing else does.
Save ==
  /\ uploader.step = "saving"
  /\ saved' \in {saved, [exists |-> TRUE, names |-> uploaded]}
  /\ uploader' = Released
  /\ UploaderOnly /\ UNCHANGED <<queue, tries, failed, uploaded>>

-----------------------------------------------------------------------------
ClaimEnds ==
  /\ claim = "mine" /\ claim' = "gone" /\ Running
  /\ UNCHANGED <<diskVars, phase, runs, ffmpeg, watcher, queue, uploadVars, server>>

MainTask == \/ Load \/ LoadExpired \/ EncoderEnds \/ WatcherStopped \/ FlushOne \/ Flushed
            \/ Joined \/ UploaderJoined \/ PostPlaylist \/ Finalize
Watching == Poll \/ Put \/ PutTimesOut
Uploading == \/ Take \/ BeginRound \/ Retry \/ UploaderEnds \/ Skip \/ FileGone \/ SizeChanged
             \/ ReadAndPost \/ PostFails \/ PostExpired \/ Admit \/ Store \/ Confirmed \/ Save
SegmentNext == Begin \/ MainTask \/ EncoderFails \/ Crash \/ Grow \/ Watching \/ Uploading \/ ClaimEnds

\* The tasks of one event loop, ffmpeg, and requests that end by their timeouts.
\* Nothing is owed by a claim, by a crash or by whoever begins a job again.
SegmentFairness ==
  /\ WF_segmentVars(MainTask) /\ WF_segmentVars(Grow)
  /\ WF_segmentVars(Watching) /\ WF_segmentVars(Uploading)
SegmentSpec == SegmentInit /\ [][SegmentNext]_segmentVars
SegmentFairSpec == SegmentSpec /\ SegmentFairness

-----------------------------------------------------------------------------
SegmentTypeOK ==
  /\ file \in [Segment -> Sizes] /\ server \in [Segment -> Sizes \ {"empty"}]
  /\ encoder \in [state : {"off", "running", "ended"}, segment : Segment, data : Sizes \ {"whole"}]
  /\ phase \in SegmentPhases /\ ffmpeg \in Encoders /\ runs \in 0 .. ffmpeg.runs
  /\ watcher \in [on : BOOLEAN, seen : [Segment -> Sizes], stable : [Segment -> 0 .. StableSizePolls],
                  queued : SUBSET Segment, ready : SUBSET Info]
  /\ queue \in Seq(Info) /\ Len(queue) <= UploadQueueSize
  /\ uploader \in [step : {"off", "idle", "holds", "posting", "admitted", "stored", "saving", "ended", "raised"},
                   item : Info, round : SUBSET Info]
  /\ tries \in [Segment -> 0 .. MaxSegmentRetries + 1]
  /\ failed \in SUBSET Info /\ uploaded \in SUBSET Segment
  /\ saved \in [exists : BOOLEAN, names : SUBSET Segment]
  /\ claim \in {"mine", "gone"}

\* What ffmpeg has written is on the worker's disk or on the server, through lost
\* answers, lapsed claims, crashes and resumed runs: a local file goes only when
\* the server has it. As long as nothing was left by an earlier run and the
\* encoder does not pause, it is there whole.
NoSegmentIsLost ==
  \A n \in Written :
    /\ file[n] # "none" \/ server[n] # "none"
    /\ runs = 1 /\ ~ffmpeg.pauses => "whole" \in {file[n], server[n]}

\* When the uploader's task has ended and the quality goes on to be reported as a
\* success, every segment was found by the watcher or by the flush, however the
\* queue was filled: it is on the server, or was tried as often as it may be.
SuccessIsAccounted ==
  phase \in {"playlist", "finalize", "done"} =>
    \A n \in Segment : server[n] # "none" \/ tries[n] >= MaxSegmentRetries

\* A run that was begun ends, unless the uploader was told that the claim lapsed.
QualityEnds == []<>(~Running \/ uploader.step = "raised")
=============================================================================

--------------------------- MODULE Transcription ---------------------------
(***************************************************************************)
(* The transcript of one video: worker/transcription.py and the requests   *)
(* of api/admin.py. A row is not claimed: the worker finds the videos that *)
(* need one and writes by the id it was given, while requests reset, edit  *)
(* and delete the row of that video and its captions file.                 *)
(***************************************************************************)
EXTENDS Naturals

CONSTANTS TranscriptClients, \* requests that run at the same time
          MaxTranscripts,    \* bound: rows that are inserted
          MaxDeaths,         \* bound: how often the worker's process ends
          MaxResets          \* bound: requests that reset the row

ASSUME TranscriptionAssumption ==
  MaxTranscripts \in Nat /\ MaxDeaths \in Nat /\ MaxResets \in Nat

VARIABLES transcript,       \* the row: its id and status
          captions,         \* captions.vtt is there
          scribe,           \* the worker: its step and the id it writes to
          transcriptClient, \* where each request is
          deaths, resets,
          orphaned,         \* history: the worker died while a row was in processing
          dropped           \* history: the captions went without their row, and were not written since

transcriptVars == <<transcript, captions, scribe, transcriptClient, deaths, resets, orphaned, dropped>>

NoTranscript(id) == [id |-> id, status |-> "none"]
ScribeAt(step, id) == [step |-> step, id |-> id]

TranscriptInit ==
  /\ transcript = NoTranscript(0) /\ captions = FALSE
  /\ scribe \in {ScribeAt("idle", 0), ScribeAt("disabled", 0)}
  /\ transcriptClient = [c \in TranscriptClients |-> "idle"]
  /\ deaths = 0 /\ resets = 0 /\ orphaned = FALSE /\ dropped = FALSE

Exists == transcript.status # "none"
InsertRow == IF transcript.id < MaxTranscripts
             THEN {[id |-> transcript.id + 1, status |-> "pending"]} ELSE {}
\* An UPDATE by id that finds no row changes nothing.
WithStatus(id, status) ==
  IF Exists /\ transcript.id = id THEN [transcript EXCEPT !.status = status] ELSE transcript
RequestsOnly == UNCHANGED <<scribe, deaths, orphaned>>
ScribeOnly == UNCHANGED <<transcriptClient, resets>>
CaptionsStay == UNCHANGED <<captions, dropped>>
At(c, step) == transcriptClient' = [transcriptClient EXCEPT ![c] = step]

-----------------------------------------------------------------------------
(* Requests: read, then write by the video's id. *)

CheckTrigger(c) ==
  /\ transcriptClient[c] = "idle" /\ transcript.status # "processing"
  /\ At(c, IF Exists THEN "reset" ELSE "insert")
  /\ RequestsOnly /\ CaptionsStay /\ UNCHANGED <<transcript, resets>>

ResetTranscript(c) ==
  /\ transcriptClient[c] = "reset" /\ resets < MaxResets /\ resets' = resets + 1
  /\ transcript' = WithStatus(transcript.id, "pending")
  /\ At(c, "idle") /\ RequestsOnly /\ CaptionsStay

\* video_id is unique: the insert fails when the worker was faster.
InsertTranscript(c) ==
  /\ transcriptClient[c] = "insert"
  /\ transcript' \in IF Exists THEN {transcript} ELSE InsertRow
  /\ At(c, "idle") /\ RequestsOnly /\ CaptionsStay /\ UNCHANGED resets

\* Mutant: only the file is deleted.
KeepRow(c) ==
  /\ transcriptClient[c] = "idle"
  /\ captions' = FALSE
  /\ At(c, "idle") /\ RequestsOnly /\ UNCHANGED <<transcript, resets, dropped>>

\* delete_transcript, which asks whether there is a row; re_upload_video and the claim of
\* a re-transcode job, which do not.
DeleteCaptions(c) ==
  /\ transcriptClient[c] = "idle"
  /\ captions' = FALSE
  /\ At(c, "delete") /\ RequestsOnly /\ UNCHANGED <<transcript, resets, dropped>>

DeleteRow(c) ==
  /\ transcriptClient[c] = "delete"
  /\ transcript' = NoTranscript(transcript.id)
  /\ At(c, "idle") /\ RequestsOnly /\ CaptionsStay /\ UNCHANGED resets

\* The statement, or the transaction that it is in, fails. The claim passes over that.
DeleteRowFails(c) ==
  /\ transcriptClient[c] = "delete"
  /\ dropped' = (dropped \/ ~captions)
  /\ At(c, "idle") /\ RequestsOnly /\ UNCHANGED <<transcript, captions, resets>>

\* The directory is replaced by one without captions (the swap of a re-encode), or
\* emptied (cleanup_partial_output, or a re-upload that fails before its transaction).
CaptionsReplaced ==
  /\ captions' = FALSE /\ dropped' = TRUE
  /\ RequestsOnly /\ UNCHANGED <<transcript, transcriptClient, resets>>

-----------------------------------------------------------------------------
(* The worker. *)

\* The video is ready. Without a row it needs a transcript as well: one that was deleted
\* is made again.
FindVideo ==
  /\ scribe.step = "idle" /\ transcript.status \in {"none", "pending"}
  /\ scribe' = ScribeAt("get", 0)
  /\ ScribeOnly /\ CaptionsStay /\ UNCHANGED <<transcript, deaths, orphaned>>

\* The row of the video, whatever its status is by now, or a new one.
GetOrCreate ==
  /\ scribe.step = "get"
  /\ transcript' \in IF Exists THEN {transcript} ELSE InsertRow
  /\ scribe' = ScribeAt("begin", transcript'.id)
  /\ ScribeOnly /\ CaptionsStay /\ UNCHANGED <<deaths, orphaned>>

BeginTranscript ==
  /\ scribe.step = "begin"
  /\ transcript' = WithStatus(scribe.id, "processing")
  /\ scribe' = ScribeAt("work", scribe.id)
  /\ ScribeOnly /\ CaptionsStay /\ UNCHANGED <<deaths, orphaned>>

\* find_audio_source, the extraction or Whisper fails, or a timeout passes.
FailTranscript ==
  /\ scribe.step = "work"
  /\ transcript' = WithStatus(scribe.id, "failed")
  /\ scribe' = ScribeAt("idle", 0)
  /\ ScribeOnly /\ CaptionsStay /\ UNCHANGED <<deaths, orphaned>>

\* Mutant: a shutdown leaves the row in processing.
LeaveProcessing ==
  /\ scribe.step = "work" /\ deaths < MaxDeaths /\ deaths' = deaths + 1
  /\ scribe' = ScribeAt("off", 0)
  /\ ScribeOnly /\ CaptionsStay /\ UNCHANGED <<transcript, orphaned>>

\* A shutdown was asked for: checked between the steps.
CancelForShutdown ==
  /\ scribe.step = "work" /\ deaths < MaxDeaths /\ deaths' = deaths + 1
  /\ transcript' = WithStatus(scribe.id, "pending")
  /\ scribe' = ScribeAt("off", 0)
  /\ ScribeOnly /\ CaptionsStay /\ UNCHANGED orphaned

WriteCaptions ==
  /\ scribe.step = "work"
  /\ captions' = TRUE /\ dropped' = FALSE
  /\ scribe' = ScribeAt("complete", scribe.id)
  /\ ScribeOnly /\ UNCHANGED <<transcript, deaths, orphaned>>

CompleteTranscript ==
  /\ scribe.step = "complete"
  /\ transcript' = WithStatus(scribe.id, "completed")
  /\ scribe' = ScribeAt("idle", 0)
  /\ ScribeOnly /\ CaptionsStay /\ UNCHANGED <<deaths, orphaned>>

\* A crash, or an exception that worker_loop does not catch: a status that cannot
\* be written, or a row that a request inserted first.
ScribeDies ==
  /\ scribe.step \notin {"off", "disabled"} /\ deaths < MaxDeaths /\ deaths' = deaths + 1
  /\ scribe' = ScribeAt("off", 0)
  /\ orphaned' = (orphaned \/ transcript.status = "processing")
  /\ ScribeOnly /\ CaptionsStay /\ UNCHANGED transcript

ScribeStarts ==
  /\ scribe.step = "off" /\ scribe' = ScribeAt("idle", 0)
  /\ ScribeOnly /\ CaptionsStay /\ UNCHANGED <<transcript, deaths, orphaned>>

-----------------------------------------------------------------------------
Transcribing == \/ FindVideo \/ GetOrCreate \/ BeginTranscript \/ FailTranscript
                \/ WriteCaptions \/ CompleteTranscript \/ ScribeStarts
TranscriptNext ==
  \/ Transcribing \/ CancelForShutdown \/ ScribeDies
  \/ \E c \in TranscriptClients : \/ CheckTrigger(c) \/ ResetTranscript(c) \/ InsertTranscript(c)
                                  \/ DeleteCaptions(c) \/ DeleteRow(c) \/ DeleteRowFails(c)
  \/ CaptionsReplaced

\* The worker's loop, and the service manager that starts it again.
TranscriptFairness == WF_transcriptVars(Transcribing)
TranscriptSpec == TranscriptInit /\ [][TranscriptNext]_transcriptVars /\ TranscriptFairness

-----------------------------------------------------------------------------
TranscriptTypeOK ==
  /\ transcript \in [id : 0 .. MaxTranscripts,
                     status : {"none", "pending", "processing", "completed", "failed"}]
  /\ captions \in BOOLEAN /\ orphaned \in BOOLEAN /\ dropped \in BOOLEAN
  /\ scribe \in [step : {"disabled", "off", "idle", "get", "begin", "work", "complete"}, id : 0 .. MaxTranscripts]
  /\ transcriptClient \in [TranscriptClients -> {"idle", "reset", "insert", "delete"}]
  /\ deaths \in 0 .. MaxDeaths /\ resets \in 0 .. MaxResets

\* A transcript that is shown as completed has its captions, whatever requests reset
\* or delete while the worker is at it. The exceptions: between the statements of a
\* request that deletes both, and once a re-encode, a failed re-upload or a deletion
\* whose second statement failed has taken the file and left the row, until the worker
\* writes captions again.
CompletedHasCaptions ==
  transcript.status = "completed" =>
    captions \/ dropped \/ \E c \in TranscriptClients : transcriptClient[c] = "delete"

\* A transcript that was asked for is made, fails or is deleted, through resets,
\* shutdowns and deletions at any moment, as long as the worker does not die while
\* a row is in processing: nothing takes up such a row.
TranscriptionEnds ==
  []<>(transcript.status \in {"none", "completed", "failed"} \/ orphaned \/ scribe.step = "disabled")
=============================================================================

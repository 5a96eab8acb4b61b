--------------------------- MODULE ServicesProofs ---------------------------
(***************************************************************************)
(* That the services beside transcoding keep what viewers are shown:       *)
(* captions, sprite sheets, the files of a video that is encoded again,    *)
(* watched time, the values of custom fields, the list of videos and the   *)
(* chapters of one. For any number of requests, workers, rows, videos,     *)
(* chapters, crashes and retries.                                          *)
(***************************************************************************)
EXTENDS Transcription, SpriteQueue, Reencode, Playback, CustomFields, VideoListing,
        ChapterDetection, FiniteSetTheorems, SequenceTheorems, WellFoundedInduction, TLAPS

(***************************************************************************)
(* Transcription: a row is made by one INSERT with an id of its own, so    *)
(* what the worker still writes to a row that was deleted changes nothing. *)
(***************************************************************************)
Deleting == \E c \in TranscriptClients : transcriptClient[c] = "delete"

\* The worker knows no id that is yet to be given; and when it is about to complete the
\* row that is there, its captions are there, or a deletion is between file and row, or
\* they were lost since they were written.
CaptionsInv ==
  /\ TranscriptTypeOK
  /\ scribe.id <= transcript.id
  /\ scribe.step = "complete" /\ scribe.id = transcript.id /\ Exists => captions \/ dropped \/ Deleting
  /\ transcript.status = "completed" => captions \/ dropped \/ Deleting

\* Before anything was asked for, there is nothing to be found missing.
LEMMA CaptionsInit == TranscriptInit => CaptionsInv
<1> SUFFICES ASSUME TranscriptInit PROVE CaptionsInv
  OBVIOUS
<1>1. scribe.id = 0 /\ scribe.step \in {"idle", "disabled"} /\ transcript = [id |-> 0, status |-> "none"]
  BY DEF TranscriptInit, ScribeAt, NoTranscript
<1>2. scribe \in [step : {"disabled", "off", "idle", "get", "begin", "work", "complete"}, id : 0 .. MaxTranscripts]
  BY TranscriptionAssumption DEF TranscriptInit, ScribeAt
<1>3. TranscriptTypeOK
  <2>1. transcriptClient \in [TranscriptClients -> {"idle", "reset", "insert", "delete"}]
    BY DEF TranscriptInit
  <2>2. captions \in BOOLEAN /\ orphaned \in BOOLEAN /\ dropped \in BOOLEAN
    BY DEF TranscriptInit
  <2>3. deaths \in 0 .. MaxDeaths /\ resets \in 0 .. MaxResets
    BY TranscriptionAssumption DEF TranscriptInit
  <2>4. transcript \in [id : 0 .. MaxTranscripts, status : {"none", "pending", "processing", "completed", "failed"}]
    BY <1>1, TranscriptionAssumption
  <2> QED BY <1>2, <2>1, <2>2, <2>3, <2>4 DEF TranscriptTypeOK
<1> QED BY <1>3, <1>1, <1>2 DEF CaptionsInv, Exists

\* No request and no step of the worker breaks it: api/admin.py deletes the file and then
\* the row, and worker/transcription.py writes the file and then the row.
LEMMA CaptionsStep == ASSUME CaptionsInv, [TranscriptNext]_transcriptVars PROVE CaptionsInv'
<1> USE TranscriptionAssumption DEF CaptionsInv, TranscriptTypeOK, Exists, Deleting, CaptionsStay
<1>1. CASE UNCHANGED transcriptVars
  BY <1>1 DEF transcriptVars
<1>2. ASSUME NEW c \in TranscriptClients, CheckTrigger(c) PROVE CaptionsInv'
  BY <1>2 DEF CheckTrigger, RequestsOnly, At
<1>3. ASSUME NEW c \in TranscriptClients, ResetTranscript(c) PROVE CaptionsInv'
  BY <1>3 DEF ResetTranscript, RequestsOnly, At, WithStatus
<1>4. ASSUME NEW c \in TranscriptClients, InsertTranscript(c) PROVE CaptionsInv'
  BY <1>4 DEF InsertTranscript, InsertRow, RequestsOnly, At
<1>5. ASSUME NEW c \in TranscriptClients, DeleteCaptions(c) PROVE CaptionsInv'
  BY <1>5 DEF DeleteCaptions, RequestsOnly, At
<1>6. ASSUME NEW c \in TranscriptClients, DeleteRow(c) PROVE CaptionsInv'
  BY <1>6 DEF DeleteRow, NoTranscript, RequestsOnly, At
<1>13. ASSUME NEW c \in TranscriptClients, DeleteRowFails(c) PROVE CaptionsInv'
  BY <1>13 DEF DeleteRowFails, RequestsOnly, At
<1>14. CASE CaptionsReplaced
  BY <1>14 DEF CaptionsReplaced, RequestsOnly
<1>7. CASE GetOrCreate
  BY <1>7 DEF GetOrCreate, InsertRow, ScribeAt, ScribeOnly
<1>8. CASE FindVideo \/ ScribeStarts
  BY <1>8 DEF FindVideo, ScribeStarts, ScribeAt, ScribeOnly
<1>9. CASE BeginTranscript \/ FailTranscript \/ CancelForShutdown
  BY <1>9 DEF BeginTranscript, FailTranscript, CancelForShutdown, WithStatus, ScribeAt, ScribeOnly
<1>10. CASE WriteCaptions
  BY <1>10 DEF WriteCaptions, ScribeAt, ScribeOnly
<1>11. CASE CompleteTranscript
  BY <1>11 DEF CompleteTranscript, WithStatus, ScribeAt, ScribeOnly
<1>12. CASE ScribeDies
  BY <1>12 DEF ScribeDies, ScribeAt, ScribeOnly
<1> QED BY <1>1, <1>2, <1>3, <1>4, <1>5, <1>6, <1>7, <1>8, <1>9, <1>10, <1>11, <1>12, <1>13, <1>14
        DEF TranscriptNext, Transcribing

\* A transcript that is shown as completed has its captions, is being deleted, or has lost
\* them to a re-encode, to a re-upload or to a deletion that failed half-way: for any number of
\* requests that reset, edit and delete it, of deaths of the worker and of such losses.
THEOREM CaptionsAreThere == TranscriptSpec => [](TranscriptTypeOK /\ CompletedHasCaptions)
<1>1. CaptionsInv => TranscriptTypeOK /\ CompletedHasCaptions
  BY DEF CaptionsInv, CompletedHasCaptions, Deleting
<1> QED BY <1>1, CaptionsInit, CaptionsStep, PTL DEF TranscriptSpec

(***************************************************************************)
(* Sprite sheets: while one worker at a time is at the video, the status   *)
(* that it writes tells the sheets that it moved.                          *)
(***************************************************************************)
OneByOne ==
  alone => /\ \A v, w \in Working : v = w
           /\ \A w \in SpriteWorkers :
                /\ generator[w].step \in {"encode", "move"} => spriteStatus # "ready"
                /\ generator[w].step = "ready" => sheets \/ "replaced" \in losses
           /\ spriteStatus = "ready" => sheets \/ "replaced" \in losses

\* Whoever is about to say that the sheets are ready has moved some in; they are there,
\* or they were lost since, or another worker is about to move in its own.
MovedOrLost == sheets \/ losses # {} \/ \E w \in SpriteWorkers : generator[w].step = "move"
MadeBefore ==
  /\ \A w \in SpriteWorkers : generator[w].step = "ready" => MovedOrLost
  /\ spriteStatus = "ready" => MovedOrLost

SheetsInv == SpriteTypeOK /\ OneByOne /\ MadeBefore

\* No worker is at the video in the beginning.
LEMMA SheetsInit == SpriteInit => SheetsInv
<1> SUFFICES ASSUME SpriteInit PROVE SheetsInv
  OBVIOUS
<1> USE SpriteQueueAssumption DEF SpriteInit
<1>1. SpriteTypeOK
  BY DEF SpriteTypeOK, SpriteEnded, AtRest, NoRow
<1>2. \A w \in SpriteWorkers : generator[w].step = "idle"
  BY DEF AtRest
<1> QED BY <1>1, <1>2 DEF SheetsInv, OneByOne, MadeBefore, Working

\* The requests write the status without looking at it, though never "ready".
LEMMA SheetsRequest == ASSUME SheetsInv, NEW c \in SpriteClients, SpriteRequest(c) PROVE SheetsInv'
<1>1. UNCHANGED <<sheets, generator, alone, losses>> /\ (spriteStatus' = "ready" => spriteStatus = "ready")
  BY DEF SpriteRequest, InsertSpriteJob, MarkQueued, CheckCancel, CancelSpriteJob, ClearQueued
<1>2. OneByOne' /\ MadeBefore'
  BY <1>1 DEF SheetsInv, OneByOne, MadeBefore, MovedOrLost, Working
<1>3. SpriteTypeOK'
  <2> USE DEF SheetsInv, SpriteTypeOK, SpriteEnded, AtRest, NoRow, RowsIn, WriteRow
  <2>1. CASE InsertSpriteJob(c)
    BY <2>1 DEF InsertSpriteJob
  <2>2. CASE MarkQueued(c)
    BY <2>2 DEF MarkQueued
  <2>3. CASE CheckCancel(c)
    BY <2>3 DEF CheckCancel
  <2>4. CASE CancelSpriteJob(c)
    BY <2>4 DEF CancelSpriteJob
  <2>5. CASE ClearQueued(c)
    BY <2>5 DEF ClearQueued
  <2> QED BY <2>1, <2>2, <2>3, <2>4, <2>5 DEF SpriteRequest
<1> QED BY <1>2, <1>3 DEF SheetsInv

\* The steps of worker/sprite_generator.py, and what else empties the directory, change no
\* type,
LEMMA SheetsTypes ==
  ASSUME SpriteTypeOK, NEW w \in SpriteWorkers, Generating(w) \/ DropRow(w) PROVE SpriteTypeOK'
<1> USE SpriteQueueAssumption DEF SpriteTypeOK, SpriteEnded, WriteRow, GoesOn, AtRest, NoRow
<1>1. CASE ClaimNext(w)
  BY <1>1 DEF ClaimNext, RowsIn
<1>2. CASE ResetStatus(w)
  BY <1>2 DEF ResetStatus
<1>3. CASE ReadVideo(w)
  <2>1. PICK step \in {"encode", "failing"} : generator' = [generator EXCEPT ![w].step = step]
    BY <1>3 DEF ReadVideo
  <2>2. spriteStatus' \in {spriteStatus, "generating"} /\ UNCHANGED <<sprites, sheets, spriteClient, drops, alone, losses>>
    BY <1>3 DEF ReadVideo
  <2> QED BY <2>1, <2>2
<1>4. CASE Encode(w)
  <2>1. PICK step \in {"move", "failing"} : generator' = [generator EXCEPT ![w].step = step]
    BY <1>4 DEF Encode
  <2>2. generator[w] \in [step : {"encode"}, row : SpriteRows \cup {NoRow}]
    BY <1>4 DEF Encode
  <2>3. sheets' \in BOOLEAN /\ losses' \subseteq {"replaced", "halfway"}
    BY <1>4 DEF Encode
  <2> QED BY <1>4, <2>1, <2>3 DEF Encode
<1>5. CASE MoveNewSheets(w)
  <2>1. PICK step \in {"ready", "failing"} : generator' = [generator EXCEPT ![w].step = step]
    BY <1>5 DEF MoveNewSheets
  <2>2. sheets' \in BOOLEAN /\ losses' \subseteq {"replaced", "halfway"}
    BY <1>5 DEF MoveNewSheets
  <2> QED BY <1>5, <2>1, <2>2 DEF MoveNewSheets
<1>6. CASE MarkSheetsReady(w)
  BY <1>6 DEF MarkSheetsReady
<1>7. CASE CompleteRow(w) \/ FailRow(w)
  <2>1. PICK status \in {"completed", "failed"} : sprites' = [sprites EXCEPT ![generator[w].row] = status]
    BY <1>7 DEF CompleteRow, FailRow
  <2>2. /\ generator' = [generator EXCEPT ![w] = [step |-> "idle", row |-> 0]]
        /\ UNCHANGED <<spriteStatus, sheets, spriteClient, drops, alone, losses>>
    BY <1>7 DEF CompleteRow, FailRow
  <2> QED BY <2>1, <2>2
<1>8. CASE MarkSheetsFailed(w)
  BY <1>8 DEF MarkSheetsFailed
<1>9. CASE DropRow(w)
  <2>1. /\ generator' = [generator EXCEPT ![w] = [step |-> "idle", row |-> 0]]
        /\ drops' \in 0 .. MaxDrops /\ losses' \subseteq {"replaced", "halfway"}
        /\ UNCHANGED <<sprites, spriteStatus, sheets, spriteClient, alone>>
    <3>1. drops' \in 0 .. MaxDrops
      BY <1>9 DEF DropRow
    <3>2. losses' \subseteq {"replaced", "halfway"}
      BY <1>9 DEF DropRow
    <3>3. /\ generator' = [generator EXCEPT ![w] = [step |-> "idle", row |-> 0]]
          /\ UNCHANGED <<sprites, spriteStatus, sheets, spriteClient, alone>>
      BY <1>9 DEF DropRow
    <3> QED BY <3>1, <3>2, <3>3
  <2> QED BY <2>1
<1> QED BY <1>1, <1>2, <1>3, <1>4, <1>5, <1>6, <1>7, <1>8, <1>9 DEF Generating

\* and keep what they were said to: the status is "generating" or what a request wrote while
\* the old sheets are removed, and "ready" after new ones were moved in.
LEMMA SheetsWorker ==
  ASSUME SheetsInv, NEW w \in SpriteWorkers, Generating(w) \/ DropRow(w) PROVE OneByOne' /\ MadeBefore'
<1> DEFINE from == generator[w].step
           to == generator'[w].step
<1>1. \A v \in SpriteWorkers : v # w => generator'[v] = generator[v]
  <2>1. generator' = [generator EXCEPT ![w] = generator'[w]]
    BY DEF SheetsInv, SpriteTypeOK, Generating, DropRow, ClaimNext, ResetStatus, ReadVideo, Encode, MoveNewSheets,
       MarkSheetsReady, CompleteRow, MarkSheetsFailed, FailRow, GoesOn
  <2> QED BY <2>1 DEF SheetsInv, SpriteTypeOK
<1>2. generator \in [SpriteWorkers -> [step : {"idle", "reset", "read", "encode", "move", "ready", "complete",
                                              "failing", "fail"}, row : SpriteRows \cup {NoRow}]]
  BY DEF SheetsInv, SpriteTypeOK
<1> USE DEF SheetsInv
<1>3. CASE ClaimNext(w)
  <2>1. from = "idle" /\ to = "read" /\ UNCHANGED <<spriteStatus, sheets, losses>> /\ alone' = (alone /\ Working = {})
    BY <1>2, <1>3 DEF ClaimNext, AtRest
  <2>2. alone' => \A v \in Working' : v = w
    BY <1>1, <2>1 DEF Working
  <2>3. OneByOne'
    BY <1>1, <2>1, <2>2 DEF OneByOne, Working
  <2>4. MovedOrLost => MovedOrLost'
    BY <1>1, <2>1 DEF MovedOrLost
  <2>5. MadeBefore'
    BY <1>1, <2>1, <2>4 DEF MadeBefore
  <2> QED BY <2>3, <2>5
<1>4. CASE ResetStatus(w)
  <2>1. from = "reset" /\ to = "idle" /\ UNCHANGED <<sheets, losses, alone>> /\ spriteStatus' = "pending"
    BY <1>2, <1>4 DEF ResetStatus, AtRest
  <2> QED BY <1>1, <2>1 DEF OneByOne, MadeBefore, MovedOrLost, Working
<1>5. CASE ReadVideo(w)
  <2>1. /\ from = "read" /\ UNCHANGED <<sheets, losses, alone>>
        /\ \/ to = "encode" /\ spriteStatus' = "generating"
           \/ to = "failing" /\ UNCHANGED spriteStatus
    BY <1>2, <1>5 DEF ReadVideo, GoesOn
  <2>2. Working' = Working
    BY <1>1, <2>1 DEF Working
  <2> QED BY <1>1, <2>1, <2>2 DEF OneByOne, MadeBefore, MovedOrLost, Working
<1>6. CASE Encode(w)
  <2>1. /\ from = "encode" /\ UNCHANGED <<spriteStatus, alone>>
        /\ losses \subseteq losses'
        /\ to \in {"move", "failing"} /\ (to = "move" \/ sheets' = sheets \/ losses' # {})
    BY <1>2, <1>6 DEF Encode, GoesOn
  <2>2. Working' = Working /\ w \in Working
    BY <1>1, <2>1 DEF Working
  <2>3. alone => \A v \in SpriteWorkers : generator[v].step = "ready" => FALSE
    BY <2>1, <2>2 DEF OneByOne, Working
  <2>4. OneByOne'
    BY <1>1, <2>1, <2>2, <2>3 DEF OneByOne
  <2>5. MadeBefore'
    BY <1>1, <2>1 DEF MadeBefore, MovedOrLost
  <2> QED BY <2>4, <2>5
<1>7. CASE MoveNewSheets(w)
  <2>1. /\ from = "move" /\ UNCHANGED <<spriteStatus, alone>>
        /\ \/ to = "ready" /\ sheets'
           \/ to = "ready" /\ losses' # {} /\ (alone => "replaced" \in losses')
           \/ to = "failing" /\ sheets' = sheets /\ losses \subseteq losses' /\ losses' # {}
    BY <1>2, <1>7 DEF MoveNewSheets, GoesOn
  <2>2. Working' = Working /\ w \in Working
    BY <1>1, <2>1 DEF Working
  <2>3. alone => \A v \in SpriteWorkers : generator[v].step \in {"encode", "move", "ready"} => v = w
    BY <2>1, <2>2 DEF OneByOne, Working
  <2>4. OneByOne'
    BY <1>1, <2>1, <2>2, <2>3 DEF OneByOne
  <2>5. MovedOrLost'
    BY <2>1 DEF MovedOrLost
  <2> QED BY <2>4, <2>5 DEF MadeBefore
<1>8. CASE MarkSheetsReady(w)
  <2>1. from = "ready" /\ to = "complete" /\ UNCHANGED <<sheets, losses, alone>>
    BY <1>2, <1>8 DEF MarkSheetsReady, GoesOn
  <2>2. Working' = Working /\ w \in Working
    BY <1>1, <2>1 DEF Working
  <2>3. alone => \A v \in SpriteWorkers : generator[v].step \in {"encode", "move", "ready"} => v = w
    BY <2>1, <2>2 DEF OneByOne, Working
  <2>4. OneByOne'
    BY <1>1, <2>1, <2>2, <2>3 DEF OneByOne
  <2>5. MovedOrLost'
    BY <1>1, <2>1 DEF MadeBefore, MovedOrLost
  <2> QED BY <2>4, <2>5 DEF MadeBefore
<1>9. CASE CompleteRow(w) \/ FailRow(w) \/ MarkSheetsFailed(w)
  <2>1. /\ from \in {"complete", "fail", "failing"} /\ to \in {"idle", "fail"}
        /\ UNCHANGED <<sheets, losses, alone>> /\ (spriteStatus' = "ready" => spriteStatus = "ready")
    BY <1>2, <1>9 DEF CompleteRow, FailRow, MarkSheetsFailed, GoesOn, AtRest
  <2>2. Working' \subseteq Working
    BY <1>1, <2>1 DEF Working
  <2> QED BY <1>1, <2>1, <2>2 DEF OneByOne, MadeBefore, MovedOrLost
<1>10. CASE DropRow(w)
  <2>1. /\ to = "idle" /\ UNCHANGED <<sheets, alone, spriteStatus>> /\ losses \subseteq losses'
        /\ from = "move" => losses' # {}
    BY <1>2, <1>10 DEF DropRow, AtRest
  <2>2. Working' \subseteq Working
    BY <1>1, <2>1 DEF Working
  <2> QED BY <1>1, <2>1, <2>2 DEF OneByOne, MadeBefore, MovedOrLost
<1> QED BY <1>3, <1>4, <1>5, <1>6, <1>7, <1>8, <1>9, <1>10 DEF Generating

\* A player that is told that the sheets are ready finds them, for any number of rows,
\* workers and requests, or a re-upload, a re-encode or a clean-up took them since they were made;
\* and with two workers at the video, or one of them took them and has not, or never, brought its own.
THEOREM SheetsAreThere == SpriteSpec => [](SpriteTypeOK /\ ReadyHasSheets)
<1>1. ASSUME SheetsInv, [SpriteNext]_spriteVars PROVE SheetsInv'
  <2>1. CASE UNCHANGED spriteVars
    BY <1>1, <2>1 DEF spriteVars, SheetsInv, SpriteTypeOK, OneByOne, MadeBefore, MovedOrLost, Working
  <2>2. CASE Recover
    <3>1. PICK w \in SpriteWorkers, stale \in SUBSET SpriteRows : RecoverStale(w, stale)
      BY <2>2 DEF Recover
    <3>2. SpriteTypeOK'
      BY <1>1, <3>1 DEF RecoverStale, SheetsInv, SpriteTypeOK, SpriteEnded, AtRest, NoRow, RowsIn, GoesOn
    <3>3. /\ \A v \in SpriteWorkers : v # w => generator'[v] = generator[v]
          /\ generator[w].step = "idle" /\ generator'[w].step = "reset"
          /\ UNCHANGED <<spriteStatus, sheets, alone, losses>>
      BY <1>1, <3>1 DEF RecoverStale, SheetsInv, SpriteTypeOK, AtRest, GoesOn
    <3> QED BY <1>1, <3>2, <3>3 DEF SheetsInv, OneByOne, MadeBefore, MovedOrLost, Working
  <2>3. CASE FilesReplaced
    BY <1>1, <2>3 DEF FilesReplaced, SheetsInv, SpriteTypeOK, OneByOne, MadeBefore, MovedOrLost, Working
  <2>4. ASSUME NEW w \in SpriteWorkers, Generating(w) \/ DropRow(w) PROVE SheetsInv'
    BY <1>1, <2>4, SheetsTypes, SheetsWorker DEF SheetsInv
  <2> QED BY <1>1, <2>1, <2>2, <2>3, <2>4, SheetsRequest DEF SpriteNext
<1>2. SheetsInv => SpriteTypeOK /\ ReadyHasSheets
  BY DEF SheetsInv, OneByOne, MadeBefore, MovedOrLost, ReadyHasSheets, SpriteTypeOK
<1> QED BY <1>1, <1>2, SheetsInit, PTL DEF SpriteSpec

(***************************************************************************)
(* Re-encoding.                                                            *)
(***************************************************************************)
Busy(w) == reencoder[w].step # "idle"
Backup(w) == backup[RowOf(w)]
Files(w) == reencoder[w].files

\* A row is claimed once, by one worker, and nothing was moved to its backup before.
RowsInv ==
  /\ ReencodeTypeOK
  /\ \A w \in ReencodeWorkers :
       /\ reencoder[w].step = "idle" => reencoder[w] = Free
       /\ Busy(w) => RowOf(w) \in ReencodeRows /\ queue[RowOf(w)] = "in_progress"
       /\ Busy(w) /\ reencoder[w].step # "find" => Files(w) # "absent"
       /\ reencoder[w].step \in {"find", "encode", "moveOld"} => Backup(w) = "absent"
       /\ reencoder[w].step \in {"moveNew", "copying"} => Backup(w) # "absent"
       /\ \A v \in ReencodeWorkers : Busy(v) /\ Busy(w) /\ RowOf(v) = RowOf(w) => v = w
  /\ \A r \in ReencodeRows : queue[r] \in {"none", "pending"} => backup[r] = "absent"

\* What the one worker at the video has in its hands: what it read, until it moved that
\* to its backup; and until the backup is removed, what is made of it is there twice.
SwapInv ==
  /\ \A v, w \in ReencodeWorkers : Busy(v) /\ Busy(w) => v = w
  /\ \A w \in ReencodeWorkers :
       /\ reencoder[w].step \in {"encode", "moveOld"} => videoDir = Files(w)
       /\ reencoder[w].step = "moveNew" => videoDir = "absent" /\ Backup(w) = Files(w)
       /\ reencoder[w].step = "copying" => videoDir = "part" /\ Backup(w) = Files(w)
       /\ reencoder[w].step = "remove" => videoDir = Files(w) /\ Backup(w) = Files(w)

WholeSomewhere == videoDir = "whole" \/ \E r \in ReencodeRows : backup[r] = "whole"
DirectoryThere == videoDir # "absent" \/ \E w \in ReencodeWorkers : reencoder[w].step = "moveNew"

FilesInv == /\ RowsInv
            /\ apart => SwapInv /\ WholeSomewhere
            /\ reencodeDeaths = 0 => DirectoryThere

\* No row was queued, and the files are where they were uploaded to.
LEMMA FilesInit == ReencodeInit => FilesInv
<1> SUFFICES ASSUME ReencodeInit PROVE FilesInv
  OBVIOUS
<1> USE ReencodeAssumption DEF ReencodeInit
<1>1. \A w \in ReencodeWorkers : reencoder[w] = Free /\ ~Busy(w) /\ Free.step = "idle"
  BY DEF Free, Busy
<1>2. ReencodeTypeOK
  BY DEF ReencodeTypeOK, Free, Content
<1>3. RowsInv /\ SwapInv
  BY <1>1, <1>2 DEF RowsInv, SwapInv
<1> QED BY <1>3 DEF FilesInv, WholeSomewhere, DirectoryThere

\* What the claims keep apart, whichever of worker/reencode_worker.py's steps is next:
\* update_job_status fails, so no row is ever given out again.
LEMMA RowsStep == ASSUME RowsInv, [ReencodeNext]_reencodeVars PROVE RowsInv'
<1> USE ReencodeAssumption
    DEF RowsInv, ReencodeTypeOK, Content, Busy, Backup, Files, RowOf, FilesStay, SameDisk, SwapFault, ToStep
<1>1. CASE UNCHANGED reencodeVars
  BY <1>1 DEF reencodeVars
<1>2. ASSUME NEW c \in QueueClients, FindLegacyVideo(c) PROVE RowsInv'
  BY <1>2 DEF FindLegacyVideo
<1>3. ASSUME NEW c \in QueueClients, QueueRow(c) PROVE RowsInv'
  BY <1>3 DEF QueueRow
<1>4. ASSUME NEW w \in ReencodeWorkers, ClaimRow(w) PROVE RowsInv'
  <2>1. PICK r \in ReencodeRows :
          /\ queue[r] = "pending" /\ queue' = [queue EXCEPT ![r] = "in_progress"]
          /\ reencoder' = [reencoder EXCEPT ![w] = [Free EXCEPT !.step = "find", !.row = r]]
    BY <1>4 DEF ClaimRow
  <2> DEFINE claimed == [Free EXCEPT !.step = "find", !.row = r]
  <2>2. /\ claimed \in [step : {"find"}, row : ReencodeRows, files : Content]
        /\ claimed.step = "find" /\ claimed.row = r
    BY DEF Free
  <2>3. reencoder[w].step = "idle"
    BY <1>4 DEF ClaimRow, Free
  <2>4. reencoder' = [reencoder EXCEPT ![w] = claimed]
    BY <2>1
  <2> HIDE DEF claimed
  <2>5. ReencodeTypeOK'
    BY <1>4, <2>1, <2>2, <2>4 DEF ClaimRow
  <2>6. reencoder'[w] = claimed /\ \A v \in ReencodeWorkers : v # w => reencoder'[v] = reencoder[v]
    BY <2>4
  <2>7. backup' = backup
    BY <1>4 DEF ClaimRow
  <2> QED BY <2>1, <2>2, <2>3, <2>5, <2>6, <2>7
<1>5. ASSUME NEW w \in ReencodeWorkers, FindSource(w) PROVE RowsInv'
  <2>1. CASE videoDir = "absent"
    BY <1>5, <2>1 DEF FindSource, EndJob, UpdateJobStatus, Free
  <2>2. CASE videoDir # "absent"
    <3>1. [reencoder[w] EXCEPT !.step = "encode", !.files = videoDir] \in
            [step : {"encode"}, row : ReencodeRows \cup {0}, files : Content]
      BY ZenonT(60)
    <3>2. reencoder' = [reencoder EXCEPT ![w] = [reencoder[w] EXCEPT !.step = "encode", !.files = videoDir]]
      BY ZenonT(60), <1>5, <2>2 DEF FindSource
    <3> QED BY <1>5, <2>2, <3>1, <3>2 DEF FindSource
  <2> QED BY <2>1, <2>2
<1>6. ASSUME NEW w \in ReencodeWorkers, EncodeQualities(w) PROVE RowsInv'
  BY <1>6 DEF EncodeQualities
<1>7. ASSUME NEW w \in ReencodeWorkers, EncodeNothing(w) PROVE RowsInv'
  BY <1>7 DEF EncodeNothing, EndJob, UpdateJobStatus, Free
<1>8. ASSUME NEW w \in ReencodeWorkers, MoveOld(w) PROVE RowsInv'
  BY <1>8 DEF MoveOld
<1>9. ASSUME NEW w \in ReencodeWorkers, RestoreBackup(w), UNCHANGED <<queueClient, apart>>, SameDisk,
             swapFaults' = swapFaults \/ SwapFault, Busy(w)
      PROVE  RowsInv'
  <2>0. Free.step = "idle" /\ Free \in [step : {"idle"}, row : {0}, files : Content]
    BY DEF Free
  <2>1. /\ queue' = queue /\ reencoder'[w] = Free /\ reencoder' \in [ReencodeWorkers ->
              [step : {"idle", "find", "encode", "moveOld", "moveNew", "copying", "remove"},
               row : ReencodeRows \cup {0}, files : Content]]
        /\ \A v \in ReencodeWorkers : v # w => reencoder'[v] = reencoder[v]
    BY <1>9 DEF RestoreBackup, EndJob, UpdateJobStatus, Free
  <2>2. \/ UNCHANGED <<videoDir, backup>>
        \/ videoDir' = backup[RowOf(w)] /\ backup' = [backup EXCEPT ![RowOf(w)] = "absent"]
    BY <1>9 DEF RestoreBackup
  <2>3. ReencodeTypeOK'
    <3>1. videoDir' \in Content /\ backup' \in [ReencodeRows -> Content]
      <4>1. RowOf(w) \in ReencodeRows /\ backup[RowOf(w)] \in Content
        BY <1>9
      <4>2. videoDir \in Content /\ backup \in [ReencodeRows -> Content]
        OBVIOUS
      <4> QED BY <2>2, <4>1, <4>2
    <3>2. swapFaults' \in 0 .. MaxReencodeFaults
      BY <1>9
    <3> QED BY <1>9, <2>1, <3>1, <3>2
  <2>4. \A r \in ReencodeRows : r # RowOf(w) => backup'[r] = backup[r]
    BY <2>2
  <2>5. backup' = backup \/ backup'[RowOf(w)] = "absent"
    BY <1>9, <2>2
  <2>6. RowOf(w) \in ReencodeRows /\ queue[RowOf(w)] = "in_progress"
    BY <1>9
  <2>7. \A v \in ReencodeWorkers : v # w /\ Busy(v) => RowOf(v) # RowOf(w)
    BY <1>9
  <2>8. ASSUME NEW v \in ReencodeWorkers, v # w, Busy(v) PROVE Backup(v)' = Backup(v)
    <3>1. RowOf(v) \in ReencodeRows /\ RowOf(v) # RowOf(w)
      BY <2>7, <2>8
    <3>2. RowOf(v)' = RowOf(v)
      BY <2>1, <2>8
    <3> QED BY <2>4, <3>1, <3>2
  <2>9. \A r \in ReencodeRows : queue[r] \in {"none", "pending"} => backup'[r] = backup[r]
    BY <2>4, <2>6
  <2> QED BY <2>0, <2>1, <2>3, <2>8, <2>9
<1>10. ASSUME NEW w \in ReencodeWorkers, MoveOldFails(w) PROVE RowsInv'
  BY <1>9, <1>10 DEF MoveOldFails
<1>11. ASSUME NEW w \in ReencodeWorkers, MoveNewFails(w) PROVE RowsInv'
  BY <1>9, <1>11 DEF MoveNewFails
<1>12. ASSUME NEW w \in ReencodeWorkers, MoveNew(w) \/ CopyEnds(w) PROVE RowsInv'
  BY <1>12 DEF MoveNew, CopyEnds
<1>13. ASSUME NEW w \in ReencodeWorkers, RemoveBackup(w) PROVE RowsInv'
  BY <1>13 DEF RemoveBackup, EndJob, UpdateJobStatus, Free
<1>14. ASSUME NEW w \in ReencodeWorkers, ReencoderDies(w) PROVE RowsInv'
  <2>1. Busy(w) /\ reencoder' = [reencoder EXCEPT ![w] = Free] /\ UNCHANGED <<queue, queueClient, videoDir, sameDisk, apart>>
    BY <1>14 DEF ReencoderDies
  <2>2. \A r \in ReencodeRows : r # RowOf(w) => backup'[r] = backup[r]
    BY <1>14 DEF ReencoderDies
  <2>3. ReencodeTypeOK'
    BY <1>14, <2>1 DEF ReencoderDies, Free
  <2>4. reencoder'[w] = Free /\ \A v \in ReencodeWorkers : v # w => reencoder'[v] = reencoder[v]
    BY <2>1
  <2>5. queue[RowOf(w)] = "in_progress"
    BY <2>1
  <2>6. ASSUME NEW v \in ReencodeWorkers, v # w, Busy(v) PROVE Backup(v)' = Backup(v)
    <3>1. RowOf(v) \in ReencodeRows /\ RowOf(v) # RowOf(w)
      BY <2>1, <2>6
    <3>2. RowOf(v)' = RowOf(v)
      BY <2>4, <2>6
    <3> QED BY <2>2, <3>1, <3>2
  <2>7. Free.step = "idle"
    BY DEF Free
  <2> QED BY <2>1, <2>2, <2>3, <2>4, <2>5, <2>6, <2>7
<1> QED BY <1>1, <1>2, <1>3, <1>4, <1>5, <1>6, <1>7, <1>8, <1>10, <1>11, <1>12, <1>13, <1>14 DEF ReencodeNext

\* The one worker at the video copies, moves and removes: whichever of its moves fails and
\* wherever it dies, what was whole is whole in one of the two places.
LEMMA SwapStep ==
  ASSUME RowsInv, SwapInv, WholeSomewhere, apart, apart', [ReencodeNext]_reencodeVars
  PROVE  SwapInv' /\ WholeSomewhere'
<1> USE DEF SwapInv, WholeSomewhere, RowsInv, ReencodeTypeOK, Busy, Backup, Files, RowOf, FilesStay, SameDisk, ToStep
<1>1. CASE UNCHANGED reencodeVars
  BY <1>1 DEF reencodeVars
<1>2. ASSUME NEW c \in QueueClients, FindLegacyVideo(c) \/ QueueRow(c) PROVE SwapInv' /\ WholeSomewhere'
  BY <1>2 DEF FindLegacyVideo, QueueRow
<1>3. ASSUME NEW w \in ReencodeWorkers, ClaimRow(w) PROVE SwapInv' /\ WholeSomewhere'
  <2>1. PICK r \in ReencodeRows : reencoder' = [reencoder EXCEPT ![w] = [Free EXCEPT !.step = "find", !.row = r]]
    BY <1>3 DEF ClaimRow
  <2>2. [Free EXCEPT !.step = "find", !.row = r].step = "find"
    BY DEF Free
  <2>3. \A v \in ReencodeWorkers : reencoder[v].step = "idle"
    <3>1. \A v \in ReencodeWorkers : reencoder[v] = Free
      BY <1>3, Zenon DEF ClaimRow
    <3> QED BY <3>1 DEF Free
  <2>4. reencoder'[w].step = "find" /\ \A v \in ReencodeWorkers : v # w => reencoder'[v].step = "idle"
    BY <2>1, <2>2, <2>3
  <2> QED BY <1>3, <2>4 DEF ClaimRow
<1>4. ASSUME NEW w \in ReencodeWorkers, FindSource(w) PROVE SwapInv' /\ WholeSomewhere'
  <2>1. \A v \in ReencodeWorkers : v # w => reencoder'[v] = reencoder[v] /\ ~Busy(v)
    BY <1>4 DEF FindSource, EndJob
  <2>2. \/ reencoder'[w].step = "encode" /\ Files(w)' = videoDir
        \/ reencoder'[w].step = "idle"
    BY <1>4 DEF FindSource, EndJob, Free
  <2> QED BY <1>4, <2>1, <2>2 DEF FindSource
<1>5. ASSUME NEW w \in ReencodeWorkers, EncodeQualities(w) PROVE SwapInv' /\ WholeSomewhere'
  BY <1>5 DEF EncodeQualities
<1>6. ASSUME NEW w \in ReencodeWorkers, EncodeNothing(w) PROVE SwapInv' /\ WholeSomewhere'
  BY <1>6 DEF EncodeNothing, EndJob, Free
<1>7. ASSUME NEW w \in ReencodeWorkers, MoveOld(w) PROVE SwapInv' /\ WholeSomewhere'
  <2>1. \A v \in ReencodeWorkers : v # w => reencoder'[v] = reencoder[v] /\ ~Busy(v)
    BY <1>7 DEF MoveOld
  <2>2. reencoder'[w].step = "moveNew" /\ RowOf(w)' = RowOf(w) /\ Files(w)' = videoDir /\ RowOf(w) \in ReencodeRows
    BY <1>7 DEF MoveOld
  <2>3. videoDir' = "absent" /\ backup' = [backup EXCEPT ![RowOf(w)] = videoDir]
    BY <1>7 DEF MoveOld
  <2>4. backup'[RowOf(w)] = videoDir /\ backup[RowOf(w)] = "absent"
    BY <1>7, <2>2, <2>3 DEF MoveOld
  <2> QED BY <2>1, <2>2, <2>3, <2>4
<1>8. ASSUME NEW w \in ReencodeWorkers, RestoreBackup(w), Busy(w),
             reencoder[w].step \in {"moveOld", "moveNew", "copying"}
      PROVE  SwapInv' /\ WholeSomewhere'
  <2>1. /\ \A v \in ReencodeWorkers : v # w => reencoder'[v] = reencoder[v] /\ ~Busy(v)
        /\ reencoder'[w].step = "idle" /\ RowOf(w) \in ReencodeRows
    BY <1>8 DEF RestoreBackup, EndJob, Free
  <2>2. \/ UNCHANGED <<videoDir, backup>>
        \/ videoDir = "absent" /\ videoDir' = backup[RowOf(w)] /\ backup' = [backup EXCEPT ![RowOf(w)] = "absent"]
    BY <1>8 DEF RestoreBackup
  <2> QED BY <2>1, <2>2
<1>9. ASSUME NEW w \in ReencodeWorkers, MoveOldFails(w) \/ MoveNewFails(w) PROVE SwapInv' /\ WholeSomewhere'
  BY <1>8, <1>9 DEF MoveOldFails, MoveNewFails
<1>10. ASSUME NEW w \in ReencodeWorkers, MoveNew(w) \/ CopyEnds(w) PROVE SwapInv' /\ WholeSomewhere'
  <2>1. /\ \A v \in ReencodeWorkers : v # w => reencoder'[v] = reencoder[v] /\ ~Busy(v)
        /\ RowOf(w)' = RowOf(w) /\ Files(w)' = Files(w) /\ backup' = backup /\ RowOf(w) \in ReencodeRows
    BY <1>10 DEF MoveNew, CopyEnds
  <2>2. \/ reencoder'[w].step = "remove" /\ videoDir' = Files(w)
        \/ reencoder'[w].step = "copying" /\ videoDir' = "part"
    BY <1>10 DEF MoveNew, CopyEnds
  <2>3. Backup(w) = Files(w) /\ videoDir # "whole"
    BY <1>10 DEF MoveNew, CopyEnds
  <2> QED BY <2>1, <2>2, <2>3
<1>11. ASSUME NEW w \in ReencodeWorkers, RemoveBackup(w) \/ ReencoderDies(w) PROVE SwapInv' /\ WholeSomewhere'
  <2>1. /\ \A v \in ReencodeWorkers : v # w => reencoder'[v] = reencoder[v] /\ ~Busy(v)
        /\ reencoder'[w].step = "idle" /\ videoDir' = videoDir /\ RowOf(w) \in ReencodeRows
    BY <1>11 DEF RemoveBackup, ReencoderDies, EndJob, Free
  <2>2. \/ backup' = backup
        \/ /\ videoDir = Backup(w)
           /\ \A r \in ReencodeRows : r # RowOf(w) => backup'[r] = backup[r]
    BY <1>11 DEF RemoveBackup, ReencoderDies
  <2> QED BY <2>1, <2>2
<1> QED BY <1>1, <1>2, <1>3, <1>4, <1>5, <1>6, <1>7, <1>9, <1>10, <1>11 DEF ReencodeNext

\* A move that fails gives the directory back, and a worker swaps in what it has; so it is
\* only while one of any number of workers is between its moves that there is none.
LEMMA DirectoryStep ==
  ASSUME RowsInv, DirectoryThere, reencodeDeaths' = 0, [ReencodeNext]_reencodeVars
  PROVE  DirectoryThere'
<1> USE DEF DirectoryThere, RowsInv, ReencodeTypeOK, Busy, Backup, Files, RowOf, FilesStay, SameDisk, ToStep
<1>1. CASE UNCHANGED reencodeVars
  BY <1>1 DEF reencodeVars
<1>2. ASSUME NEW c \in QueueClients, FindLegacyVideo(c) \/ QueueRow(c) PROVE DirectoryThere'
  BY <1>2 DEF FindLegacyVideo, QueueRow
<1>3. ASSUME NEW w \in ReencodeWorkers, ClaimRow(w) PROVE DirectoryThere'
  BY <1>3 DEF ClaimRow, Free
<1>4. ASSUME NEW w \in ReencodeWorkers, FindSource(w) \/ EncodeQualities(w) \/ EncodeNothing(w)
      PROVE  DirectoryThere'
  BY <1>4 DEF FindSource, EncodeQualities, EncodeNothing, EndJob
<1>5. ASSUME NEW w \in ReencodeWorkers, MoveOld(w) PROVE DirectoryThere'
  BY <1>5 DEF MoveOld
<1>6. ASSUME NEW w \in ReencodeWorkers, RestoreBackup(w),
             reencoder[w].step \in {"moveOld", "moveNew", "copying"}
      PROVE  DirectoryThere'
  <2>1. \A v \in ReencodeWorkers : v # w => reencoder'[v] = reencoder[v]
    BY <1>6 DEF RestoreBackup, EndJob
  <2>2. Backup(w) # "absent" => videoDir' # "absent"
    BY <1>6 DEF RestoreBackup
  <2>3. videoDir # "absent" => videoDir' # "absent"
    BY <1>6 DEF RestoreBackup
  <2> QED BY <1>6, <2>1, <2>2, <2>3
<1>7. ASSUME NEW w \in ReencodeWorkers, MoveOldFails(w) \/ MoveNewFails(w) PROVE DirectoryThere'
  BY <1>6, <1>7 DEF MoveOldFails, MoveNewFails
<1>8. ASSUME NEW w \in ReencodeWorkers, MoveNew(w) \/ CopyEnds(w) PROVE DirectoryThere'
  BY <1>8 DEF MoveNew, CopyEnds
<1>9. ASSUME NEW w \in ReencodeWorkers, RemoveBackup(w) PROVE DirectoryThere'
  BY <1>9 DEF RemoveBackup, EndJob
<1>10. ASSUME NEW w \in ReencodeWorkers, ReencoderDies(w) PROVE FALSE
  BY <1>10, ReencodeAssumption DEF ReencoderDies
<1> QED BY <1>1, <1>2, <1>3, <1>4, <1>5, <1>7, <1>8, <1>9, <1>10 DEF ReencodeNext

\* What is remembered of the deaths and of the workers that met is never taken back.
LEMMA ReencodeHistory ==
  ASSUME RowsInv, [ReencodeNext]_reencodeVars
  PROVE  (apart' => apart) /\ (reencodeDeaths' = 0 => reencodeDeaths = 0)
<1>1. CASE UNCHANGED reencodeVars
  BY <1>1 DEF reencodeVars
<1>2. ASSUME NEW w \in ReencodeWorkers, ClaimRow(w) PROVE (apart' => apart) /\ reencodeDeaths' = reencodeDeaths
  BY <1>2, Zenon DEF ClaimRow, FilesStay, SameDisk
<1>3. ASSUME NEW w \in ReencodeWorkers, ReencoderDies(w) PROVE apart' = apart /\ reencodeDeaths' # 0
  BY <1>3, ReencodeAssumption DEF ReencoderDies, RowsInv, ReencodeTypeOK
<1>4. ASSUME NEW w \in ReencodeWorkers,
             \/ FindSource(w) \/ EncodeQualities(w) \/ EncodeNothing(w) \/ MoveOld(w) \/ MoveOldFails(w)
             \/ MoveNew(w) \/ CopyEnds(w) \/ MoveNewFails(w) \/ RemoveBackup(w)
      PROVE  UNCHANGED <<apart, reencodeDeaths>>
  BY <1>4 DEF FindSource, EncodeQualities, EncodeNothing, MoveOld, MoveOldFails, MoveNew, CopyEnds,
     MoveNewFails,
              RemoveBackup, FilesStay, SameDisk
<1>5. ASSUME NEW c \in QueueClients, FindLegacyVideo(c) \/ QueueRow(c) PROVE UNCHANGED <<apart, reencodeDeaths>>
  BY <1>5 DEF FindLegacyVideo, QueueRow, FilesStay, SameDisk
<1> QED BY <1>1, <1>2, <1>3, <1>4, <1>5 DEF ReencodeNext

\* The files of a video survive re-encoding, for any number of rows, workers, faults and
\* deaths: all of them while one worker at a time is at the video, and the directory
\* unless a worker died between its moves.
THEOREM FilesSurvive == ReencodeSpec => [](ReencodeTypeOK /\ FilesAreKept)
<1>1. ASSUME FilesInv, [ReencodeNext]_reencodeVars PROVE FilesInv'
  <2>1. RowsInv /\ RowsInv'
    BY <1>1, RowsStep DEF FilesInv
  <2>2. apart' => SwapInv' /\ WholeSomewhere'
    BY <1>1, SwapStep, ReencodeHistory DEF FilesInv
  <2>3. reencodeDeaths' = 0 => DirectoryThere'
    BY <1>1, DirectoryStep, ReencodeHistory DEF FilesInv
  <2> QED BY <2>1, <2>2, <2>3 DEF FilesInv
<1>2. FilesInv => ReencodeTypeOK /\ FilesAreKept
  BY DEF FilesInv, RowsInv, FilesAreKept, WholeSomewhere, DirectoryThere
<1> QED BY <1>1, <1>2, FilesInit, PTL DEF ReencodeSpec

(***************************************************************************)
(* Playback.                                                               *)
(***************************************************************************)
PlayerCall == [step : {"idle", "read", "write", "repeat", "done", "failed"},
               ends : BOOLEAN, playing : BOOLEAN, position : Nat, watched : Nat,
               furthest : Nat, retries : Nat]
Plays(c) == IF playerCall[c].playing THEN 1 ELSE 0

PlaybackTypes ==
  /\ playback \in [watched : Nat, furthest : Nat]
  /\ playerCall \in [PlayerCalls -> PlayerCall]
  /\ counted \in [played : Nat, reached : Nat, overlapped : BOOLEAN]

\* What a call is about to write is no more than what will have been counted then.
NeverMore ==
  /\ playback.watched <= counted.played /\ playback.furthest <= counted.reached
  /\ \A c \in PlayerCalls :
       /\ playerCall[c].ends => ~playerCall[c].playing
       /\ playerCall[c].step = "write" =>
            /\ playerCall[c].watched <= counted.played + Plays(c)
            /\ playerCall[c].furthest <= Furthest(counted.reached, playerCall[c].position)
       /\ playerCall[c].step = "repeat" =>
            playerCall[c].watched <= counted.played /\ playerCall[c].furthest <= counted.reached

\* Calls that do not overlap write what they read with their own share, and the same again.
OneAtATime ==
  /\ \A c, d \in PlayerCalls : Open(c) /\ Open(d) => c = d
  /\ playback.watched = counted.played /\ playback.furthest = counted.reached
  /\ \A c \in PlayerCalls :
       /\ playerCall[c].step = "write" =>
            /\ playerCall[c].watched = playback.watched + Plays(c)
            /\ playerCall[c].furthest = Furthest(playback.furthest, playerCall[c].position)
       /\ playerCall[c].step = "repeat" =>
            playerCall[c].watched = playback.watched /\ playerCall[c].furthest = playback.furthest

PlaybackInv == PlaybackTypes /\ NeverMore /\ (~counted.overlapped => OneAtATime)

\* The further of two positions.
LEMMA FurthestIsUpper ==
  ASSUME NEW a \in Nat, NEW b \in Nat
  PROVE  Furthest(a, b) \in Nat /\ a <= Furthest(a, b) /\ b <= Furthest(a, b)
  BY DEF Furthest

\* Nothing is counted and no call was made.
LEMMA PlaybackStarts == PlaybackInit => PlaybackInv
<1> SUFFICES ASSUME PlaybackInit PROVE PlaybackInv
  OBVIOUS
<1>1. NoCall \in PlayerCall /\ NoCall.step = "idle" /\ ~NoCall.ends
  BY DEF NoCall, PlayerCall
<1>2. PlaybackTypes
  BY <1>1 DEF PlaybackInit, PlaybackTypes
<1> QED BY <1>1, <1>2 DEF PlaybackInit, PlaybackInv, NeverMore, OneAtATime, Open

\* What a step of one call leaves of the calls.
OnlyStepOf(c) ==
  /\ playerCall' \in [PlayerCalls -> PlayerCall]
  /\ \A d \in PlayerCalls : d # c => playerCall'[d] = playerCall[d]
  /\ playerCall'[c].ends = playerCall[c].ends /\ playerCall'[c].playing = playerCall[c].playing
  /\ playerCall'[c].position = playerCall[c].position
  /\ playerCall'[c].watched = playerCall[c].watched /\ playerCall'[c].furthest = playerCall[c].furthest

\* A statement is carried out, for the first time or again, and may yet be tried again:
\* the row and what is counted go together.
LEMMA PlaybackUpdate ==
  ASSUME PlaybackInv, NEW c \in PlayerCalls, playerCall[c].step \in {"write", "repeat"},
         UpdateSession(c), Counted(c), OnlyStepOf(c), playerCall'[c].step \in {"repeat", "done", "failed"}
  PROVE  PlaybackInv'
<1> USE DEF PlaybackInv, PlaybackTypes, PlayerCall
<1> DEFINE call == playerCall[c]
<1>1. /\ call.ends \in BOOLEAN /\ call.playing \in BOOLEAN /\ call.position \in Nat
      /\ call.watched \in Nat /\ call.furthest \in Nat
      /\ playback.watched \in Nat /\ playback.furthest \in Nat
      /\ counted.played \in Nat /\ counted.reached \in Nat
  OBVIOUS
<1>2. PlaybackTypes'
  <2>1. playback' \in [watched : Nat, furthest : Nat]
    BY <1>1 DEF UpdateSession
  <2>2. counted.played + Plays(c) \in Nat /\ Furthest(counted.reached, call.position) \in Nat
    BY <1>1 DEF Plays, Furthest
  <2>3. counted' = IF call.step = "repeat" THEN counted
                   ELSE [counted EXCEPT !.played = counted.played + Plays(c),
                                        !.reached = Furthest(counted.reached, call.position)]
    BY DEF Counted, Plays
  <2>4. counted' \in [played : Nat, reached : Nat, overlapped : BOOLEAN]
    BY <2>2, <2>3
  <2> QED BY <2>1, <2>4 DEF OnlyStepOf
<1>3. /\ counted'.overlapped = counted.overlapped
      /\ counted'.played = IF call.step = "write" THEN counted.played + Plays(c) ELSE counted.played
      /\ counted'.reached = IF call.step = "write" THEN Furthest(counted.reached, call.position)
                                                  ELSE counted.reached
  BY <1>1 DEF Counted, Plays
<1>4. /\ playback'.watched = IF call.ends THEN playback.watched ELSE call.watched
      /\ playback'.furthest = call.furthest
  BY DEF UpdateSession
<1>5. counted.played <= counted'.played /\ counted.reached <= counted'.reached
  <2>1. Plays(c) \in Nat
    BY DEF Plays
  <2>2. counted.reached <= Furthest(counted.reached, call.position)
    BY <1>1 DEF Furthest
  <2> QED BY <1>1, <1>3, <2>1, <2>2
<1>6. ASSUME NEW d \in PlayerCalls, NEW a \in Nat, NEW b \in Nat, a <= b
      PROVE  Furthest(a, playerCall[d].position) <= Furthest(b, playerCall[d].position)
  BY <1>6 DEF Furthest
<1>7. NeverMore'
  <2>1. playback'.watched <= counted'.played /\ playback'.furthest <= counted'.reached
    BY <1>1, <1>3, <1>4, <1>5 DEF NeverMore, Plays
  <2>2. call.step = "write" => call.watched <= counted'.played /\ call.furthest <= counted'.reached
    BY <1>3 DEF NeverMore
  <2>3. call.watched <= counted'.played /\ call.furthest <= counted'.reached
    BY <1>3, <2>2 DEF NeverMore
  <2>4. ASSUME NEW d \in PlayerCalls, d # c, playerCall[d].step = "write"
        PROVE  /\ playerCall[d].watched <= counted'.played + Plays(d)
               /\ playerCall[d].furthest <= Furthest(counted'.reached, playerCall[d].position)
    <3>1. /\ playerCall[d].watched <= counted.played + Plays(d)
          /\ playerCall[d].furthest <= Furthest(counted.reached, playerCall[d].position)
      BY <2>4 DEF NeverMore
    <3>2. /\ counted'.played \in Nat /\ counted'.reached \in Nat /\ Plays(d) \in Nat
          /\ playerCall[d].watched \in Nat /\ playerCall[d].furthest \in Nat
          /\ playerCall[d].position \in Nat
      BY <1>2 DEF Plays
    <3>3. Furthest(counted.reached, playerCall[d].position) <= Furthest(counted'.reached, playerCall[d].position)
      BY <1>1, <1>5, <1>6, <3>2
    <3>4. /\ Furthest(counted.reached, playerCall[d].position) \in Nat
          /\ Furthest(counted'.reached, playerCall[d].position) \in Nat
      BY <1>1, <3>2, FurthestIsUpper
    <3> HIDE DEF PlaybackInv, PlaybackTypes
    <3> QED BY <1>1, <1>5, <3>1, <3>2, <3>3, <3>4
  <2>5. ASSUME NEW d \in PlayerCalls, d # c, playerCall[d].step = "repeat"
        PROVE  playerCall[d].watched <= counted'.played /\ playerCall[d].furthest <= counted'.reached
    BY <1>2, <1>5, <2>5 DEF NeverMore
  <2> QED BY <2>1, <2>3, <2>4, <2>5 DEF NeverMore, OnlyStepOf, Plays
<1>8. ASSUME ~counted.overlapped PROVE OneAtATime'
  <2>1. \A d \in PlayerCalls : Open(d) => d = c
    BY <1>8 DEF OneAtATime, Open
  <2>2. \A d \in PlayerCalls : Open(d)' => d = c
    BY <2>1 DEF OnlyStepOf, Open
  <2>3. /\ call.step = "write" => /\ call.watched = playback.watched + Plays(c)
                                  /\ call.furthest = Furthest(playback.furthest, call.position)
        /\ call.step = "repeat" => call.watched = playback.watched /\ call.furthest = playback.furthest
        /\ call.ends => Plays(c) = 0
        /\ playback.watched = counted.played /\ playback.furthest = counted.reached
    BY <1>8 DEF OneAtATime, NeverMore, Plays
  <2>4. playback'.watched = counted'.played /\ playback'.furthest = counted'.reached
    BY <1>1, <1>3, <1>4, <2>3
  <2>5. playback'.watched = call.watched /\ playback'.furthest = call.furthest
    BY <1>1, <1>4, <2>3
  <2> QED BY <2>2, <2>4, <2>5 DEF OneAtATime, OnlyStepOf, Open
<1> QED BY <1>2, <1>3, <1>7, <1>8

\* The steps of a call: what is written when a call that was answered too late is carried
\* out again is what it wrote before.
LEMMA PlaybackStep ==
  ASSUME PlaybackInv, PlaybackAssumption, [PlaybackNext]_playbackVars PROVE PlaybackInv'
<1> USE DEF PlaybackInv, PlaybackTypes, PlayerCall
<1>1. CASE UNCHANGED playbackVars
  BY <1>1 DEF playbackVars, NeverMore, OneAtATime, Open, Plays
<1>2. ASSUME NEW c \in PlayerCalls, NEW ends \in BOOLEAN, NEW playing \in BOOLEAN, NEW position \in Positions,
             BeginCall(c, ends, playing, position)
      PROVE  PlaybackInv'
  <2> DEFINE call == [NoCall EXCEPT !.step = "read", !.ends = ends, !.playing = playing, !.position = position]
  <2>1. call \in PlayerCall /\ call.step = "read" /\ call.ends = ends /\ call.playing = playing
    BY PlaybackAssumption DEF NoCall
  <2>2. playerCall' = [playerCall EXCEPT ![c] = call] /\ ~(ends /\ playing) /\ playback' = playback
    BY <1>2 DEF BeginCall
  <2>3. /\ counted' \in [played : Nat, reached : Nat, overlapped : BOOLEAN]
        /\ counted'.played = counted.played /\ counted'.reached = counted.reached
        /\ ~counted'.overlapped => ~counted.overlapped /\ \A d \in PlayerCalls : ~Open(d)
    BY <1>2 DEF BeginCall
  <2> HIDE DEF call
  <2>4. playerCall'[c] = call /\ \A d \in PlayerCalls : d # c => playerCall'[d] = playerCall[d]
    BY <2>2
  <2>5. PlaybackTypes'
    BY <2>1, <2>2, <2>3
  <2>6. NeverMore'
    BY <2>1, <2>2, <2>3, <2>4 DEF NeverMore, Plays
  <2>7. ~counted'.overlapped => OneAtATime'
    BY <2>1, <2>2, <2>3, <2>4 DEF OneAtATime, Open, Plays
  <2> QED BY <2>5, <2>6, <2>7
<1>3. ASSUME NEW c \in PlayerCalls, ReadSession(c) PROVE PlaybackInv'
  <2> DEFINE call == [playerCall[c] EXCEPT !.step = "write", !.watched = playback.watched + Plays(c),
                                           !.furthest = Furthest(playback.furthest, playerCall[c].position)]
  <2>1. playerCall[c] \in PlayerCall /\ playback.watched \in Nat /\ playback.furthest \in Nat
        /\ counted.played \in Nat /\ counted.reached \in Nat
    OBVIOUS
  <2>2. /\ call \in PlayerCall /\ call.step = "write"
        /\ call.ends = playerCall[c].ends /\ call.playing = playerCall[c].playing
        /\ call.position = playerCall[c].position
        /\ call.watched = playback.watched + Plays(c)
        /\ call.furthest = Furthest(playback.furthest, playerCall[c].position)
    <3>1. playback.watched + Plays(c) \in Nat /\ Furthest(playback.furthest, playerCall[c].position) \in Nat
      BY <2>1 DEF Plays, Furthest
    <3> QED BY <2>1, <3>1
  <2>3. playerCall' = [playerCall EXCEPT ![c] = call] /\ UNCHANGED <<playback, counted>>
    BY <1>3 DEF ReadSession, Plays
  <2>4. playerCall[c].step = "read"
    BY <1>3 DEF ReadSession
  <2> HIDE DEF call
  <2>5. playerCall'[c] = call /\ \A d \in PlayerCalls : d # c => playerCall'[d] = playerCall[d]
    BY <2>3
  <2>6. PlaybackTypes'
    BY <2>2, <2>3
  <2>7. Plays(c)' = Plays(c) /\ \A d \in PlayerCalls : d # c => Plays(d)' = Plays(d)
    BY <2>2, <2>5 DEF Plays
  <2>8. Furthest(playback.furthest, playerCall[c].position) <= Furthest(counted.reached, playerCall[c].position)
    BY <2>1 DEF NeverMore, Furthest
  <2>9. NeverMore'
    BY <2>1, <2>2, <2>3, <2>5, <2>7, <2>8 DEF NeverMore, Plays
  <2>10. \A d \in PlayerCalls : Open(d)' = Open(d)
    BY <2>2, <2>4, <2>5 DEF Open
  <2>11. ~counted.overlapped => OneAtATime'
    BY <2>2, <2>3, <2>5, <2>7, <2>10 DEF OneAtATime
  <2> QED BY <2>3, <2>6, <2>9, <2>11
<1>4. ASSUME NEW c \in PlayerCalls, WriteSession(c) \/ AnswerLost(c) PROVE PlaybackInv'
  <2>1. playerCall[c] \in PlayerCall
    OBVIOUS
  <2>2. PICK step \in {"repeat", "done", "failed"}, retries \in Nat :
          playerCall' = [playerCall EXCEPT ![c] = [playerCall[c] EXCEPT !.step = step, !.retries = retries]]
    <3>1. CASE WriteSession(c)
      <4>1. playerCall' = [playerCall EXCEPT ![c] =
              [playerCall[c] EXCEPT !.step = "done", !.retries = playerCall[c].retries]]
        BY <2>1, <3>1 DEF WriteSession
      <4> QED BY <2>1, <4>1
    <3>2. CASE AnswerLost(c)
      <4>1. playerCall' = [playerCall EXCEPT ![c] =
              [playerCall[c] EXCEPT !.step = IF playerCall[c].retries < MaxDbRetries THEN "repeat" ELSE "failed",
                                    !.retries = playerCall[c].retries + 1]]
        BY <2>1, <3>2 DEF AnswerLost, TryAgain
      <4>2. playerCall[c].retries + 1 \in Nat
        BY <2>1
      <4>3. (IF playerCall[c].retries < MaxDbRetries THEN "repeat" ELSE "failed") \in {"repeat", "done", "failed"}
        OBVIOUS
      <4> QED BY <4>1, <4>2, <4>3
    <3> QED BY <1>4, <3>1, <3>2
  <2>3. OnlyStepOf(c) /\ playerCall'[c].step \in {"repeat", "done", "failed"}
    BY <2>1, <2>2 DEF OnlyStepOf
  <2> QED BY <1>4, <2>3, PlaybackUpdate DEF WriteSession, AnswerLost
<1>5. ASSUME NEW c \in PlayerCalls, WriteRefused(c) PROVE PlaybackInv'
  <2>1. playerCall[c] \in PlayerCall
    OBVIOUS
  <2>2. PICK step \in {playerCall[c].step, "failed"} :
          playerCall' = [playerCall EXCEPT ![c] =
            [playerCall[c] EXCEPT !.step = step, !.retries = playerCall[c].retries + 1]]
    <3>1. playerCall' = [playerCall EXCEPT ![c] =
            [playerCall[c] EXCEPT !.step = IF playerCall[c].retries < MaxDbRetries THEN playerCall[c].step ELSE "failed",
                                  !.retries = playerCall[c].retries + 1]]
      BY <1>5, <2>1 DEF WriteRefused, TryAgain
    <3>2. (IF playerCall[c].retries < MaxDbRetries THEN playerCall[c].step ELSE "failed") \in {playerCall[c].step, "failed"}
      OBVIOUS
    <3> QED BY <3>1, <3>2
  <2>3. OnlyStepOf(c) /\ playerCall'[c].step \in {playerCall[c].step, "failed"}
    <3>1. step \in {"idle", "read", "write", "repeat", "done", "failed"} /\ playerCall[c].retries + 1 \in Nat
      BY <2>1
    <3> QED BY <2>1, <2>2, <3>1 DEF OnlyStepOf
  <2>4. UNCHANGED <<playback, counted>>
    BY <1>5 DEF WriteRefused
  <2>5. PlaybackTypes'
    BY <2>3, <2>4 DEF OnlyStepOf
  <2>6. \A d \in PlayerCalls : Plays(d)' = Plays(d) /\ (Open(d)' => Open(d))
    BY <2>3 DEF OnlyStepOf, Plays, Open
  <2>7. NeverMore'
    BY <2>3, <2>4, <2>6 DEF NeverMore, OnlyStepOf
  <2>8. ~counted.overlapped => OneAtATime'
    BY <2>3, <2>4, <2>6 DEF OneAtATime, OnlyStepOf
  <2> QED BY <2>4, <2>5, <2>7, <2>8
<1> QED BY <1>1, <1>2, <1>3, <1>4, <1>5 DEF PlaybackNext

\* A heartbeat counts once and the furthest position is kept, for any number of calls,
\* retries and failures, as long as calls do not overlap; and time is never added.
THEOREM WatchCounts == PlaybackSpec => []WatchIsCountedOnce
<1>1. PlaybackInv => WatchIsCountedOnce
  BY DEF PlaybackInv, NeverMore, OneAtATime, WatchIsCountedOnce
<1> QED BY <1>1, PlaybackStarts, PlaybackStep, PlaybackAssumption, PTL DEF PlaybackSpec

(***************************************************************************)
(* Custom fields: a transaction that commits has locked every field that   *)
(* is still defined, unless values are cleared.                            *)
(***************************************************************************)
Setter == [step : {"idle", "look", "write", "commit", "done", "failed"}, order : Orders, at : Nat \ {0},
           saw : BOOLEAN, tries : Nat]

FieldTypes ==
  /\ fieldDefs \subseteq Fields /\ fieldValue \in [Fields -> FieldRequests \cup {Unset, Before}]
  /\ rowLock \in [Fields -> FieldRequests \cup {Unlocked}]
  /\ setter \in [FieldRequests -> Setter]
  /\ clears \subseteq FieldRequests

\* The places of its order that a request has been through in its transaction.
Through(q) == IF setter[q].step = "commit" THEN 1 .. Len(setter[q].order) ELSE 1 .. setter[q].at - 1

\* The fields that a request has been through are locked by it or gone, and so are those
\* that it saw a value of and finds none.
FieldInv ==
  /\ \A q \in FieldRequests : setter[q].step = "idle" => setter[q].at = 1
  /\ \A q \in FieldRequests : setter[q].step \in {"look", "write", "commit"} =>
       \A i \in Through(q) : rowLock[setter[q].order[i]] = q \/ setter[q].order[i] \notin fieldDefs
  /\ \A q \in FieldRequests : setter[q].step = "write" /\ setter[q].saw =>
       fieldValue[Field(q)] # Unset \/ Field(q) \notin fieldDefs
  /\ \A f, g \in fieldDefs : fieldValue[f] = fieldValue[g]

\* An order of the fields has each of them once.
LEMMA OrdersAreWhole ==
  ASSUME NEW o \in Orders
  PROVE  /\ Len(o) = Cardinality(Fields) /\ Len(o) \in Nat
         /\ \A i \in 1 .. Len(o) : o[i] \in Fields
         /\ \A f \in Fields : \E i \in 1 .. Len(o) : o[i] = f
<1> DEFINE n == Cardinality(Fields)
<1>1. IsFiniteSet(Fields) /\ n \in Nat
  BY CustomFieldsAssumption, FS_CardinalityType
<1>2. o \in [1 .. n -> Fields] /\ \A i, j \in 1 .. n : i # j => o[i] # o[j]
  BY DEF Orders, SetToSeqs
<1>3. Len(o) = n
  <2>1. o \in Seq(Fields)
    BY <1>1, <1>2, SeqDef
  <2> QED BY <1>1, <1>2, <2>1, LenProperties
<1>4. o \in Injection(1 .. n, Fields)
  BY <1>2 DEF Injection, IsInjective
<1>5. Cardinality(1 .. n) = n /\ IsFiniteSet(1 .. n)
  BY <1>1, FS_Interval
<1>6. o \in Surjection(1 .. n, Fields)
  BY <1>1, <1>4, <1>5, FS_Injection
<1>7. \A f \in Fields : \E i \in 1 .. n : o[i] = f
  BY <1>6 DEF Surjection
<1> QED BY <1>1, <1>2, <1>3, <1>7

\* No request has begun: nothing is locked, and all fields have or none has a value.
LEMMA FieldStarts == FieldInit => FieldTypes /\ FieldInv
<1> SUFFICES ASSUME FieldInit PROVE FieldTypes /\ FieldInv
  OBVIOUS
<1>1. PICK o \in Orders : setter = [q \in FieldRequests |->
         [step |-> "idle", order |-> o, at |-> 1, saw |-> FALSE, tries |-> 1]]
  BY DEF FieldInit
<1>2. setter \in [FieldRequests -> Setter] /\ \A q \in FieldRequests : setter[q].step = "idle" /\ setter[q].at = 1
  BY <1>1 DEF Setter
<1> QED BY <1>2 DEF FieldInit, FieldTypes, FieldInv

\* What a step makes of a request.
SetterBecomes(q, step, order, at, saw) ==
  /\ setter' \in [FieldRequests -> Setter]
  /\ setter'[q].step = step /\ setter'[q].order = order /\ setter'[q].at = at /\ setter'[q].saw = saw
  /\ \A r \in FieldRequests \ {q} : setter'[r] = setter[r]

\* What the steps of a request do to its place in its order.
LEMMA SetterEffects ==
  ASSUME FieldTypes, NEW q \in FieldRequests
  PROVE  /\ \A o \in Orders : setter' = [setter EXCEPT ![q].order = o, ![q].step = "look"]
              => SetterBecomes(q, "look", o, setter[q].at, setter[q].saw)
         /\ \A b \in BOOLEAN : setter' = [setter EXCEPT ![q].step = "write", ![q].saw = b]
              => SetterBecomes(q, "write", setter[q].order, setter[q].at, b)
         /\ Onward(q) =>
              \/ /\ setter[q].at = Len(setter[q].order)
                 /\ SetterBecomes(q, "commit", setter[q].order, setter[q].at, setter[q].saw)
              \/ /\ setter[q].at # Len(setter[q].order)
                 /\ SetterBecomes(q, "look", setter[q].order, setter[q].at + 1, setter[q].saw)
         /\ \A step \in {"done", "failed"} : Steps(q, step)
              => SetterBecomes(q, step, setter[q].order, setter[q].at, setter[q].saw)
         /\ setter' = [setter EXCEPT ![q].step = "look", ![q].at = 1, ![q].tries = @ + 1]
              => SetterBecomes(q, "look", setter[q].order, 1, setter[q].saw)
<1>1. setter \in [FieldRequests -> Setter] /\ setter[q] \in Setter
  BY DEF FieldTypes
<1>2. \A o \in Orders : setter' = [setter EXCEPT ![q].order = o, ![q].step = "look"]
        => SetterBecomes(q, "look", o, setter[q].at, setter[q].saw)
  <2> SUFFICES ASSUME NEW o \in Orders, setter' = [setter EXCEPT ![q].order = o, ![q].step = "look"]
               PROVE  SetterBecomes(q, "look", o, setter[q].at, setter[q].saw)
    OBVIOUS
  <2>1. [setter[q] EXCEPT !.order = o, !.step = "look"] \in Setter
    BY <1>1 DEF Setter
  <2>2. setter' = [setter EXCEPT ![q] = [setter[q] EXCEPT !.order = o, !.step = "look"]]
    BY <1>1
  <2> QED BY <1>1, <2>1, <2>2 DEF SetterBecomes, Setter
<1>3. \A b \in BOOLEAN : setter' = [setter EXCEPT ![q].step = "write", ![q].saw = b]
        => SetterBecomes(q, "write", setter[q].order, setter[q].at, b)
  <2> SUFFICES ASSUME NEW b \in BOOLEAN, setter' = [setter EXCEPT ![q].step = "write", ![q].saw = b]
               PROVE  SetterBecomes(q, "write", setter[q].order, setter[q].at, b)
    OBVIOUS
  <2>1. [setter[q] EXCEPT !.step = "write", !.saw = b] \in Setter
    BY <1>1 DEF Setter
  <2>2. setter' = [setter EXCEPT ![q] = [setter[q] EXCEPT !.step = "write", !.saw = b]]
    BY <1>1
  <2> QED BY <1>1, <2>1, <2>2 DEF SetterBecomes, Setter
<1>4. Onward(q) =>
        \/ /\ setter[q].at = Len(setter[q].order)
           /\ SetterBecomes(q, "commit", setter[q].order, setter[q].at, setter[q].saw)
        \/ /\ setter[q].at # Len(setter[q].order)
           /\ SetterBecomes(q, "look", setter[q].order, setter[q].at + 1, setter[q].saw)
  <2> SUFFICES ASSUME Onward(q)
               PROVE  \/ /\ setter[q].at = Len(setter[q].order)
                         /\ SetterBecomes(q, "commit", setter[q].order, setter[q].at, setter[q].saw)
                      \/ /\ setter[q].at # Len(setter[q].order)
                         /\ SetterBecomes(q, "look", setter[q].order, setter[q].at + 1, setter[q].saw)
    OBVIOUS
  <2>1. CASE setter[q].at = Len(setter[q].order)
    <3>1. setter' = [setter EXCEPT ![q] = [setter[q] EXCEPT !.at = setter[q].at, !.step = "commit"]]
      BY <1>1, <2>1 DEF Onward
    <3>2. [setter[q] EXCEPT !.at = setter[q].at, !.step = "commit"] \in Setter
      BY <1>1 DEF Setter
    <3> QED BY <1>1, <2>1, <3>1, <3>2 DEF SetterBecomes, Setter
  <2>2. CASE setter[q].at # Len(setter[q].order)
    <3>1. setter' = [setter EXCEPT ![q] = [setter[q] EXCEPT !.at = setter[q].at + 1, !.step = "look"]]
      BY <1>1, <2>2 DEF Onward
    <3>2. setter[q].at + 1 \in Nat \ {0}
      BY <1>1 DEF Setter
    <3>3. [setter[q] EXCEPT !.at = setter[q].at + 1, !.step = "look"] \in Setter
      BY <1>1, <3>2 DEF Setter
    <3>4. setter'[q] = [setter[q] EXCEPT !.at = setter[q].at + 1, !.step = "look"]
      BY <1>1, <3>1
    <3>5. /\ setter'[q].step = "look" /\ setter'[q].order = setter[q].order
          /\ setter'[q].at = setter[q].at + 1 /\ setter'[q].saw = setter[q].saw
      BY <1>1, <3>4 DEF Setter
    <3> QED BY <1>1, <2>2, <3>1, <3>3, <3>5 DEF SetterBecomes
  <2> QED BY <2>1, <2>2
<1>5. \A step \in {"done", "failed"} : Steps(q, step)
        => SetterBecomes(q, step, setter[q].order, setter[q].at, setter[q].saw)
  BY <1>1 DEF Steps, SetterBecomes, Setter
<1>6. setter' = [setter EXCEPT ![q].step = "look", ![q].at = 1, ![q].tries = @ + 1]
        => SetterBecomes(q, "look", setter[q].order, 1, setter[q].saw)
  <2> SUFFICES ASSUME setter' = [setter EXCEPT ![q].step = "look", ![q].at = 1, ![q].tries = @ + 1]
               PROVE  SetterBecomes(q, "look", setter[q].order, 1, setter[q].saw)
    OBVIOUS
  <2>1. setter' = [setter EXCEPT ![q] = [setter[q] EXCEPT !.step = "look", !.at = 1, !.tries = setter[q].tries + 1]]
    BY <1>1
  <2>2. [setter[q] EXCEPT !.step = "look", !.at = 1, !.tries = setter[q].tries + 1] \in Setter
    BY <1>1 DEF Setter
  <2> QED BY <1>1, <2>1, <2>2 DEF SetterBecomes, Setter
<1> QED BY <1>2, <1>3, <1>4, <1>5, <1>6

\* What a step makes of the locks.
LEMMA LockEffects ==
  ASSUME FieldTypes, NEW q \in FieldRequests
  PROVE  /\ \A f : f \notin Fields => f \notin fieldDefs
         /\ \A f : ~Locked(f, q) /\ Lock(f, q) =>
              /\ rowLock' \in [Fields -> FieldRequests \cup {Unlocked}]
              /\ f \in Fields => rowLock'[f] = q
              /\ \A g \in Fields, r \in FieldRequests : rowLock[g] = r => rowLock'[g] = r
         /\ Release(q) =>
              /\ rowLock' \in [Fields -> FieldRequests \cup {Unlocked}]
              /\ \A g \in Fields, r \in FieldRequests \ {q} : rowLock[g] = r => rowLock'[g] = r
  BY CustomFieldsAssumption DEF FieldTypes, Locked, Lock, Release, Unlocked

\* A step of q keeps the invariant if what it has been through stays its own, what others
\* locked stays theirs, and values stay values that agree.
LEMMA FieldInvKept ==
  ASSUME FieldInv, FieldTypes, NEW q \in FieldRequests,
         \A r \in FieldRequests \ {q} : setter'[r] = setter[r],
         fieldDefs' \subseteq fieldDefs,
         \A f \in fieldDefs', r \in FieldRequests \ {q} : rowLock[f] = r => rowLock'[f] = r,
         \A f \in fieldDefs' : fieldValue[f] # Unset => fieldValue'[f] # Unset,
         \A f, g \in fieldDefs' : fieldValue'[f] = fieldValue'[g],
         setter'[q].step = "idle" => setter'[q].at = 1,
         setter'[q].step \in {"look", "write", "commit"} =>
           \A i \in Through(q)' : rowLock'[setter'[q].order[i]] = q \/ setter'[q].order[i] \notin fieldDefs',
         setter'[q].step = "write" /\ setter'[q].saw => fieldValue'[Field(q)'] # Unset \/ Field(q)' \notin fieldDefs'
  PROVE  FieldInv'
<1>1. ASSUME NEW r \in FieldRequests, r # q
      PROVE  Through(r)' = Through(r) /\ Field(r)' = Field(r) /\ setter'[r] = setter[r]
  BY <1>1 DEF Through, Field
<1>2. ASSUME NEW r \in FieldRequests, setter'[r].step \in {"look", "write", "commit"}, NEW i \in Through(r)'
      PROVE  rowLock'[setter'[r].order[i]] = r \/ setter'[r].order[i] \notin fieldDefs'
  BY <1>1, <1>2 DEF FieldInv
<1>3. ASSUME NEW r \in FieldRequests, setter'[r].step = "write", setter'[r].saw
      PROVE  fieldValue'[Field(r)'] # Unset \/ Field(r)' \notin fieldDefs'
  BY <1>1, <1>3 DEF FieldInv
<1>4. \A r \in FieldRequests : setter'[r].step = "idle" => setter'[r].at = 1
  BY <1>1 DEF FieldInv
<1> QED BY <1>2, <1>3, <1>4 DEF FieldInv

\* Every step keeps it, unless values are cleared: a transaction that commits has locked
\* each field that is still defined, so that it writes all of them.
LEMMA FieldStep ==
  ASSUME FieldTypes, [FieldNext]_fieldVars
  PROVE  FieldTypes' /\ ((clears = {} => FieldInv) => (clears' = {} => FieldInv'))
<1>1. ASSUME NEW q \in FieldRequests, BeginRequest(q)
      PROVE  FieldTypes' /\ ((clears = {} => FieldInv) => (clears' = {} => FieldInv'))
  <2>1. PICK o \in Orders : SetterBecomes(q, "look", o, setter[q].at, setter[q].saw)
    BY <1>1, SetterEffects DEF BeginRequest
  <2>2. FieldTypes'
    BY <1>1, <2>1 DEF BeginRequest, FieldTypes, SetterBecomes
  <2>3. ASSUME FieldInv PROVE FieldInv'
    <3>1. UNCHANGED <<fieldDefs, fieldValue, rowLock>> /\ setter[q].step = "idle"
      BY <1>1 DEF BeginRequest
    <3>2. setter'[q].step = "look" /\ setter'[q].at = 1 /\ \A r \in FieldRequests \ {q} : setter'[r] = setter[r]
      BY <2>1, <2>3, <3>1 DEF SetterBecomes, FieldInv
    <3>3. Through(q)' = {}
      BY <3>2 DEF Through
    <3>4. \A f, g \in fieldDefs : fieldValue[f] = fieldValue[g]
      BY <2>3 DEF FieldInv
    <3> QED BY <2>3, <3>1, <3>2, <3>3, <3>4, FieldInvKept
  <2>4. clears' = {} => clears = {}
    BY <1>1 DEF BeginRequest
  <2> QED BY <2>2, <2>3, <2>4
<1>2. ASSUME NEW q \in FieldRequests, LookForValue(q)
      PROVE  FieldTypes' /\ ((clears = {} => FieldInv) => (clears' = {} => FieldInv'))
  <2>1. SetterBecomes(q, "write", setter[q].order, setter[q].at, q \in clears \/ fieldValue[Field(q)] # Unset)
    BY <1>2, SetterEffects DEF LookForValue
  <2>2. FieldTypes' /\ setter[q].step = "look" /\ UNCHANGED <<fieldDefs, fieldValue, rowLock, clears>>
    BY <1>2, <2>1 DEF LookForValue, FieldTypes, SetterBecomes
  <2>3. ASSUME FieldInv, clears = {} PROVE FieldInv'
    <3>1. Through(q)' = Through(q) /\ Field(q)' = Field(q) /\ setter'[q].order = setter[q].order
      BY <2>1, <2>2 DEF SetterBecomes, Through, Field
    <3>2. setter'[q].saw => fieldValue[Field(q)] # Unset
      BY <2>1, <2>3 DEF SetterBecomes
    <3>3. \A i \in Through(q) : rowLock[setter[q].order[i]] = q \/ setter[q].order[i] \notin fieldDefs
      BY <2>2, <2>3 DEF FieldInv
    <3>4. \A f, g \in fieldDefs : fieldValue[f] = fieldValue[g]
      BY <2>3 DEF FieldInv
    <3>5. setter'[q].step = "write" /\ \A r \in FieldRequests \ {q} : setter'[r] = setter[r]
      BY <2>1 DEF SetterBecomes
    <3> QED BY <2>2, <2>3, <3>1, <3>2, <3>3, <3>4, <3>5, FieldInvKept
  <2> QED BY <2>2, <2>3
<1>3. ASSUME NEW q \in FieldRequests, WriteValue(q) \/ InsertValue(q)
      PROVE  FieldTypes' /\ ((clears = {} => FieldInv) => (clears' = {} => FieldInv'))
  <2>1. \/ /\ setter[q].at = Len(setter[q].order)
           /\ SetterBecomes(q, "commit", setter[q].order, setter[q].at, setter[q].saw)
        \/ /\ setter[q].at # Len(setter[q].order)
           /\ SetterBecomes(q, "look", setter[q].order, setter[q].at + 1, setter[q].saw)
    BY <1>3, SetterEffects DEF WriteValue, InsertValue
  <2>2. UNCHANGED <<fieldDefs, fieldValue, clears>> /\ setter[q].step = "write"
    BY <1>3 DEF WriteValue, InsertValue
  <2>3. \/ setter[q].saw /\ fieldValue[Field(q)] = Unset /\ rowLock' = rowLock
        \/ ~Locked(Field(q), q) /\ Lock(Field(q), q)
    BY <1>3 DEF WriteValue, InsertValue
  <2>4. FieldTypes'
    BY <2>1, <2>2, <2>3, LockEffects DEF FieldTypes, SetterBecomes
  <2>5. ASSUME FieldInv PROVE FieldInv'
    <3>1. rowLock'[Field(q)] = q \/ Field(q) \notin fieldDefs
      BY <2>2, <2>3, <2>5, LockEffects DEF FieldInv
    <3>2. \A g \in fieldDefs, r \in FieldRequests : rowLock[g] = r => rowLock'[g] = r
      BY <2>3, LockEffects DEF FieldTypes
    <3>3. \A i \in Through(q) : rowLock'[setter[q].order[i]] = q \/ setter[q].order[i] \notin fieldDefs
      BY <2>2, <2>5, <3>2 DEF FieldInv
    <3>4. \A i \in Through(q)' : i \in Through(q) \/ i = setter[q].at
      BY <2>1, <2>2 DEF Through, SetterBecomes, FieldTypes, Setter
    <3>5. /\ setter'[q].step \in {"look", "commit"} /\ setter'[q].order = setter[q].order
          /\ \A r \in FieldRequests \ {q} : setter'[r] = setter[r]
      BY <2>1 DEF SetterBecomes
    <3>6. \A i \in Through(q)' : rowLock'[setter'[q].order[i]] = q \/ setter'[q].order[i] \notin fieldDefs
      BY <3>1, <3>3, <3>4, <3>5 DEF Field
    <3>7. \A f, g \in fieldDefs : fieldValue[f] = fieldValue[g]
      BY <2>5 DEF FieldInv
    <3> QED BY <2>2, <2>5, <3>2, <3>5, <3>6, <3>7, FieldInvKept
  <2> QED BY <2>2, <2>4, <2>5
<1>4. ASSUME NEW q \in FieldRequests, Commit(q)
      PROVE  FieldTypes' /\ ((clears = {} => FieldInv) => (clears' = {} => FieldInv'))
  <2>1. SetterBecomes(q, "done", setter[q].order, setter[q].at, setter[q].saw)
    BY <1>4, SetterEffects DEF Commit
  <2>2. setter[q].step = "commit" /\ UNCHANGED <<fieldDefs, clears>> /\ Release(q)
    BY <1>4 DEF Commit
  <2>3. fieldValue' = [f \in Fields |-> IF rowLock[f] # q THEN fieldValue[f] ELSE IF q \in clears THEN Unset ELSE q]
    BY <1>4 DEF Commit
  <2>4. FieldTypes'
    BY <2>1, <2>2, <2>3, LockEffects DEF FieldTypes, SetterBecomes
  <2>5. ASSUME FieldInv, clears = {} PROVE FieldInv'
    <3>1. ASSUME NEW f \in fieldDefs PROVE fieldValue'[f] = q
      <4>1. f \in Fields /\ setter[q].order \in Orders
        BY <3>1 DEF FieldTypes, Setter
      <4>2. PICK i \in 1 .. Len(setter[q].order) : setter[q].order[i] = f
        BY <4>1, OrdersAreWhole
      <4>3. rowLock[f] = q
        BY <2>2, <2>5, <3>1, <4>2 DEF FieldInv, Through
      <4> QED BY <2>3, <2>5, <4>1, <4>3
    <3>2. q # Unset
      BY CustomFieldsAssumption DEF Unset
    <3>3. \A f \in fieldDefs, r \in FieldRequests \ {q} : rowLock[f] = r => rowLock'[f] = r
      BY <2>2, LockEffects DEF FieldTypes
    <3>4. setter'[q].step = "done" /\ \A r \in FieldRequests \ {q} : setter'[r] = setter[r]
      BY <2>1 DEF SetterBecomes
    <3> QED BY <2>2, <2>5, <3>1, <3>2, <3>3, <3>4, FieldInvKept
  <2> QED BY <2>2, <2>4, <2>5
<1>5. ASSUME NEW q \in FieldRequests, InsertRefused(q) \/ RequestFails(q) \/ AbortDeadlock(q)
      PROVE  FieldTypes' /\ ((clears = {} => FieldInv) => (clears' = {} => FieldInv'))
  <2>1. UNCHANGED <<fieldDefs, fieldValue, clears>> /\ Release(q)
    BY <1>5 DEF InsertRefused, RequestFails, AbortDeadlock
  <2>2. \/ SetterBecomes(q, "failed", setter[q].order, setter[q].at, setter[q].saw)
        \/ SetterBecomes(q, "look", setter[q].order, 1, setter[q].saw)
    BY <1>5, SetterEffects DEF InsertRefused, RequestFails, AbortDeadlock
  <2>3. FieldTypes'
    BY <2>1, <2>2, LockEffects DEF FieldTypes, SetterBecomes
  <2>4. ASSUME FieldInv PROVE FieldInv'
    <3>1. setter'[q].step = "look" => Through(q)' = {}
      BY <2>2 DEF SetterBecomes, Through
    <3>2. setter'[q].step \in {"look", "failed"} /\ \A r \in FieldRequests \ {q} : setter'[r] = setter[r]
      BY <2>2 DEF SetterBecomes
    <3>3. \A f \in fieldDefs, r \in FieldRequests \ {q} : rowLock[f] = r => rowLock'[f] = r
      BY <2>1, LockEffects DEF FieldTypes
    <3>4. \A f, g \in fieldDefs : fieldValue[f] = fieldValue[g]
      BY <2>4 DEF FieldInv
    <3> QED BY <2>1, <2>4, <3>1, <3>2, <3>3, <3>4, FieldInvKept
  <2> QED BY <2>1, <2>3, <2>4
<1>6. ASSUME NEW f \in Fields, DeleteField(f)
      PROVE  FieldTypes' /\ ((clears = {} => FieldInv) => (clears' = {} => FieldInv'))
  <2>1. /\ fieldDefs' = fieldDefs \ {f} /\ fieldValue' = [fieldValue EXCEPT ![f] = Unset]
        /\ UNCHANGED <<rowLock, setter, clears>>
    BY <1>6 DEF DeleteField
  <2>2. FieldTypes'
    BY <2>1 DEF FieldTypes
  <2>3. \A g \in fieldDefs' : fieldValue'[g] = fieldValue[g]
    BY <2>1 DEF FieldTypes
  <2>4. \A q \in FieldRequests : Through(q)' = Through(q) /\ Field(q)' = Field(q)
    BY <2>1 DEF Through, Field
  <2>5. ASSUME FieldInv PROVE FieldInv'
    BY <2>1, <2>3, <2>4, <2>5 DEF FieldInv
  <2> QED BY <2>1, <2>2, <2>5
<1>7. CASE UNCHANGED fieldVars
  BY <1>7 DEF FieldTypes, FieldInv, Through, Field, fieldVars
<1> QED BY <1>1, <1>2, <1>3, <1>4, <1>5, <1>6, <1>7 DEF FieldNext, Setting

\* Requests that set the fields of one video at the same time leave the values of one of
\* them, whole, in whatever order they write, wherever they wait for each other or fail,
\* and whichever fields are deleted meanwhile, unless one of them clears values.
THEOREM ValuesStayWhole == FieldSpec => []ValuesAreWhole
<1>1. FieldTypes /\ (clears = {} => FieldInv) => ValuesAreWhole
  BY DEF FieldInv, ValuesAreWhole
<1>2. FieldInit => FieldTypes /\ (clears = {} => FieldInv)
  BY FieldStarts
<1>3. FieldTypes /\ (clears = {} => FieldInv) /\ [FieldNext]_fieldVars
        => (FieldTypes /\ (clears = {} => FieldInv))'
  BY FieldStep
<1> QED BY <1>1, <1>2, <1>3, PTL DEF FieldSpec

(***************************************************************************)
(* The list of videos: a page ends where the next one begins.              *)
(***************************************************************************)
\* A set of numbers has a least one.
LEMMA LeastNumber == ASSUME NEW T \in SUBSET Nat, T # {} PROVE \E m \in T : \A n \in T : m <= n
<1> DEFINE less == OpToRel(<, Nat)
<1>1. \A m, n \in Nat : n < m => <<n, m>> \in less
  BY DEF OpToRel
<1>2. IsWellFoundedOn(less, Nat)
  BY NatLessThanWellFounded
<1> HIDE DEF less
<1>3. PICK m \in T : \A n \in T : <<n, m>> \notin less
  BY <1>2, WFMin
<1>4. \A n \in T : ~(n < m)
  BY <1>1, <1>3
<1> QED BY <1>4

\* A finite set that an order R has no cycles in has a first element.
LEMMA FirstInOrder ==
  ASSUME NEW S, IsFiniteSet(S), S # {}, NEW R,
         \A x \in S : <<x, x>> \notin R,
         \A x, y, z \in S : <<x, y>> \in R /\ <<y, z>> \in R => <<x, z>> \in R
  PROVE  \E x \in S : \A y \in S : <<y, x>> \notin R
<1> DEFINE before(x) == {y \in S : <<y, x>> \in R}
           T == {Cardinality(before(x)) : x \in S}
<1>1. \A x \in S : IsFiniteSet(before(x)) /\ Cardinality(before(x)) \in Nat
  BY FS_Subset, FS_CardinalityType
<1>2. T \in SUBSET Nat /\ T # {}
  <2> HIDE DEF before
  <2> QED BY <1>1
<1>3. PICK m \in T : \A n \in T : m <= n
  BY <1>2, LeastNumber, Zenon
<1>4. PICK x \in S : m = Cardinality(before(x))
  BY <1>3
<1>5. ASSUME NEW y \in S, <<y, x>> \in R PROVE FALSE
  <2>1. before(y) \in SUBSET before(x) /\ before(y) # before(x)
    BY <1>5
  <2>2. Cardinality(before(y)) <= Cardinality(before(x)) /\ Cardinality(before(x)) # Cardinality(before(y))
    BY <1>1, <2>1, FS_Subset
  <2>3. Cardinality(before(y)) \in T
    BY <1>5
  <2>4. Cardinality(before(x)) <= Cardinality(before(y))
    BY <1>3, <1>4, <2>3
  <2> HIDE DEF before
  <2> QED BY <1>1, <1>5, <2>2, <2>4
<1> QED BY <1>5

\* The order of the dates and ids has no cycles and leaves no two apart.
LEMMA KeysAreOrdered ==
  ASSUME NEW k \in Nat \X Nat, NEW l \in Nat \X Nat, NEW m \in Nat \X Nat
  PROVE  /\ ~After(k, k) /\ (After(k, l) => ~After(l, k))
         /\ After(k, l) /\ After(l, m) => After(k, m)
         /\ k = l \/ After(k, l) \/ After(l, k)
<1>1. /\ k[1] \in Nat /\ k[2] \in Nat /\ l[1] \in Nat /\ l[2] \in Nat /\ m[1] \in Nat /\ m[2] \in Nat
      /\ k[1] = l[1] /\ k[2] = l[2] => k = l
  OBVIOUS
<1> QED BY <1>1 DEF After, Precedes

\* Of any of the videos there is one that comes first and one that comes last.
LEMMA VideosHaveEnds ==
  ASSUME ListingTypeOK, NEW S \in SUBSET ListedVideos, S # {}
  PROVE  /\ \E f \in S : \A u \in S : ~After(Key(f), Key(u))
         /\ \E l \in S : \A u \in S : ~After(Key(u), Key(l))
<1> DEFINE ahead == {p \in S \X S : After(Key(p[2]), Key(p[1]))}
           behind == {p \in S \X S : After(Key(p[1]), Key(p[2]))}
<1>1. \A v \in S : Key(v) \in Nat \X Nat
  BY ListingAssumption DEF ListingTypeOK, Key, Dates
<1>2. IsFiniteSet(S)
  BY ListingAssumption, FS_Subset
<1>3. \A x, y \in S : /\ <<x, y>> \in ahead <=> After(Key(y), Key(x))
                      /\ <<x, y>> \in behind <=> After(Key(x), Key(y))
  OBVIOUS
<1> HIDE DEF ahead, behind
<1>4. \A x \in S : <<x, x>> \notin ahead /\ <<x, x>> \notin behind
  BY <1>1, <1>3, KeysAreOrdered
<1>5. \A x, y, z \in S : /\ <<x, y>> \in ahead /\ <<y, z>> \in ahead => <<x, z>> \in ahead
                         /\ <<x, y>> \in behind /\ <<y, z>> \in behind => <<x, z>> \in behind
  BY <1>1, <1>3, KeysAreOrdered
<1>6. \E f \in S : \A u \in S : <<u, f>> \notin ahead
  BY <1>2, <1>4, <1>5, FirstInOrder
<1>7. \E l \in S : \A u \in S : <<u, l>> \notin behind
  BY <1>2, <1>4, <1>5, FirstInOrder
<1> QED BY <1>3, <1>6, <1>7

\* What a reader that asked for the page behind a cursor knows of a video.
OnPage(v, c, page) ==
  /\ publishedAt[v] # 0
  /\ c # NoCursor => After(Key(v), c)
  /\ page.more => ~After(Key(v), page.next)

\* The videos behind a cursor as far as the last of the page are those on the page.
LEMMA PageIsWhole ==
  ASSUME ListingTypeOK, NEW c \in Cursors
  PROVE  /\ PageAt(c) \in Pages /\ PageAt(c).steady = ListedVideos
         /\ PageAt(c).more =>
              PageAt(c).next # NoCursor /\ (c # NoCursor => After(PageAt(c).next, c))
         /\ \A v \in ListedVideos : v \in PageAt(c).rows <=> OnPage(v, c, PageAt(c))
<1> DEFINE found == Behind(c)
           page == First(found, PageLimit)
           more == Cardinality(found) > PageLimit
           ahead(v) == {u \in found : After(Key(v), Key(u))}
           next == IF more THEN LastKey(page) ELSE NoCursor
<1>1. /\ found \in SUBSET ListedVideos /\ IsFiniteSet(found) /\ Cardinality(found) \in Nat
      /\ \A v \in ListedVideos : v \in found <=> publishedAt[v] # 0 /\ (c # NoCursor => After(Key(v), c))
  <2>1. found \in SUBSET ListedVideos
    BY DEF Behind
  <2>2. IsFiniteSet(found) /\ Cardinality(found) \in Nat
    BY <2>1, ListingAssumption, FS_Subset, FS_CardinalityType
  <2> QED BY <2>1, <2>2 DEF Behind
<1>2. \A v \in ListedVideos : Key(v) \in Nat \X Nat /\ Key(v) \in Cursors
  BY ListingAssumption DEF ListingTypeOK, Key, Cursors, Dates
<1>3. \A v, u \in ListedVideos : Key(v) = Key(u) => v = u
  BY DEF Key
<1>4. \A v \in ListedVideos : IsFiniteSet(ahead(v)) /\ Cardinality(ahead(v)) \in Nat
  <2> SUFFICES ASSUME NEW v \in ListedVideos PROVE IsFiniteSet(ahead(v)) /\ Cardinality(ahead(v)) \in Nat
    OBVIOUS
  <2>1. ahead(v) \in SUBSET found
    OBVIOUS
  <2> QED BY <1>1, <2>1, FS_Subset, FS_CardinalityType
<1>5. page = {v \in found : Cardinality(ahead(v)) < PageLimit}
  BY DEF First
<1>6. PageAt(c) = [rows |-> page, next |-> next, more |-> more, steady |-> ListedVideos]
  BY DEF PageAt
<1> HIDE DEF found, page, more, next
<1>7. CASE ~more
  <2>1. ASSUME NEW v \in found PROVE v \in page
    <3>1. ahead(v) \in SUBSET (found \ {v})
      BY <1>1, <1>2, KeysAreOrdered
    <3>2. IsFiniteSet(found \ {v}) /\ Cardinality(found \ {v}) = Cardinality(found) - 1
      BY <1>1, FS_RemoveElement
    <3>3. Cardinality(ahead(v)) <= Cardinality(found \ {v})
      BY <3>1, <3>2, FS_Subset
    <3>4. Cardinality(found) <= PageLimit
      BY <1>1, <1>7, ListingAssumption DEF more
    <3>5. Cardinality(ahead(v)) < PageLimit
      <4> HIDE DEF ahead
      <4> QED BY <1>1, <1>4, <3>2, <3>3, <3>4, ListingAssumption
    <3> QED BY <1>5, <3>5
  <2>2. page = found /\ next = NoCursor /\ NoCursor \in Cursors
    BY <1>5, <1>7, <2>1, ListingAssumption DEF next, NoCursor, Cursors, Dates
  <2>3. PageAt(c) \in Pages
    BY <1>1, <1>6, <2>2 DEF Pages, more
  <2> QED BY <1>1, <1>6, <1>7, <2>2, <2>3 DEF OnPage
<1>8. CASE more
  <2>1. page \in SUBSET found /\ page \in SUBSET ListedVideos
    BY <1>1, <1>5
  <2>2. found # {}
    BY <1>8, FS_EmptySet, ListingAssumption DEF more
  <2>3. PICK f \in found : \A u \in found : ~After(Key(f), Key(u))
    BY <1>1, <2>2, VideosHaveEnds
  <2>4. f \in page
    <3>1. ahead(f) = {}
      BY <2>3
    <3>2. Cardinality(ahead(f)) = 0
      BY <3>1, FS_EmptySet
    <3> QED BY <1>5, <3>2, ListingAssumption
  <2>5. PICK e \in page : \A u \in page : ~After(Key(u), Key(e))
    BY <2>1, <2>4, VideosHaveEnds
  <2>6. \A u \in page \ {e} : After(Key(e), Key(u))
    BY <1>2, <1>3, <2>1, <2>5, KeysAreOrdered
  <2>7. PICK l \in page : next = Key(l) /\ \A u \in page \ {l} : After(Key(l), Key(u))
    BY <1>8, <2>5, <2>6 DEF LastKey, next
  <2>8. ASSUME NEW v \in found PROVE v \in page <=> ~After(Key(v), Key(l))
    <3>1. v \in ListedVideos /\ l \in ListedVideos /\ l \in found
      BY <1>1, <2>1
    <3>2. v \in page => v = l \/ After(Key(l), Key(v))
      BY <2>7
    <3>3. CASE v = l
      BY <1>2, <2>7, <3>1, <3>3, KeysAreOrdered
    <3>4. CASE After(Key(v), Key(l))
      <4>1. ~After(Key(l), Key(v))
        BY <1>2, <3>1, <3>4, KeysAreOrdered
      <4>2. v # l
        BY <1>2, <3>1, <3>4, KeysAreOrdered
      <4> QED BY <3>2, <3>4, <4>1, <4>2
    <3>5. CASE After(Key(l), Key(v))
      <4>1. ahead(v) \in SUBSET ahead(l)
        <5>1. \A u \in found : After(Key(v), Key(u)) => After(Key(l), Key(u))
          BY <1>1, <1>2, <3>1, <3>5, KeysAreOrdered
        <5> QED BY <5>1
      <4>2. Cardinality(ahead(v)) <= Cardinality(ahead(l)) /\ Cardinality(ahead(l)) < PageLimit
        BY <1>4, <1>5, <3>1, <4>1, FS_Subset
      <4>3. v \in page
        <5> HIDE DEF ahead
        <5> QED BY <1>4, <1>5, <3>1, <4>2, ListingAssumption
      <4> QED BY <1>2, <3>1, <3>5, <4>3, KeysAreOrdered
    <3> QED BY <1>2, <1>3, <3>1, <3>3, <3>4, <3>5, KeysAreOrdered
  <2>9. l \in ListedVideos /\ l \in found /\ Key(l) # NoCursor /\ Key(l) \in Cursors
    BY <1>1, <1>2, <2>1 DEF Key, NoCursor
  <2>10. PageAt(c) \in Pages
    BY <1>6, <2>1, <2>7, <2>9 DEF Pages, more
  <2> HIDE DEF ahead
  <2> QED BY <1>1, <1>6, <1>8, <2>1, <2>7, <2>8, <2>9, <2>10 DEF OnPage
<1> QED BY <1>7, <1>8

\* A page that is cached has, of the videos that did not change since it was read, those
\* from its cursor to the next one.
PagesInv ==
  \A c \in DOMAIN cached :
    /\ cached[c].more => cached[c].next # NoCursor /\ (c # NoCursor => After(cached[c].next, c))
    /\ \A v \in cached[c].steady : v \in cached[c].rows <=> OnPage(v, c, cached[c])

\* A reader saw, of the videos that did not change meanwhile, those as far as its cursor,
\* once each; one that is done saw all of them.
Passed(v) ==
  publishedAt[v] # 0 /\
    (reader.step = "reading" => reader.cursor # NoCursor /\ ~After(Key(v), reader.cursor))
ReaderInv ==
  reader.step # "idle" => \A v \in reader.steady : reader.seen[v] = IF Passed(v) THEN 1 ELSE 0

ListingInv == ListingTypeOK /\ PagesInv /\ ReaderInv

\* Nothing is cached and nobody reads at the start.
LEMMA ListingStarts == ListingInit => ListingInv
BY ListingAssumption
   DEF ListingInit, ListingInv, ListingTypeOK, PagesInv, ReaderInv, NoReader, NoCursor, NothingSeen,
       Cursors, Seen, Dates

\* A change of a video leaves the pages and the reader right about the others.
LEMMA ChangeKeepsPages ==
  ASSUME ListingInv, NEW v \in ListedVideos, NEW date \in Dates, Changes(v),
         publishedAt' = [publishedAt EXCEPT ![v] = date]
  PROVE  ListingInv'
<1>1. /\ changes' \in 0 .. MaxChanges /\ ascending' = ascending
      /\ DOMAIN cached' = DOMAIN cached
      /\ \A c \in DOMAIN cached : cached'[c] = [cached[c] EXCEPT !.steady = @ \ {v}]
      /\ reader' = [reader EXCEPT !.steady = @ \ {v}]
  BY ListingAssumption DEF Changes, ListingInv, ListingTypeOK
<1>2. \A c \in DOMAIN cached :
        /\ cached'[c] \in Pages /\ cached'[c].rows = cached[c].rows /\ cached'[c].next = cached[c].next
        /\ cached'[c].more = cached[c].more /\ cached'[c].steady = cached[c].steady \ {v}
  BY <1>1 DEF ListingInv, ListingTypeOK, Pages
<1>3. /\ reader'.step = reader.step /\ reader'.cursor = reader.cursor /\ reader'.seen = reader.seen
      /\ reader'.steady = reader.steady \ {v}
  BY <1>1 DEF ListingInv, ListingTypeOK
<1>4. ListingTypeOK'
  BY <1>1, <1>2 DEF ListingInv, ListingTypeOK
<1>5. \A u \in ListedVideos \ {v} : publishedAt'[u] = publishedAt[u] /\ Key(u)' = Key(u)
  BY DEF ListingInv, ListingTypeOK, Key
<1>6. \A k, l : After(k, l)' = After(k, l)
  BY <1>1 DEF After
<1>7. PagesInv'
  <2> SUFFICES ASSUME NEW c \in DOMAIN cached
               PROVE  /\ cached'[c].more => /\ cached'[c].next # NoCursor
                                            /\ c # NoCursor => After(cached'[c].next, c)
                      /\ \A u \in cached'[c].steady : u \in cached'[c].rows <=> OnPage(u, c, cached'[c])
    <3>1. \A c \in DOMAIN cached : \A u \in cached'[c].steady :
            OnPage(u, c, cached[c])' <=> OnPage(u, c, cached'[c])
      <4> SUFFICES ASSUME NEW c \in DOMAIN cached, NEW u \in cached'[c].steady
                   PROVE  OnPage(u, c, cached[c])' <=> OnPage(u, c, cached'[c])
        OBVIOUS
      <4>1. publishedAt'[u] = publishedAt[u]
        BY <1>2, <1>5 DEF ListingInv, ListingTypeOK, Pages
      <4> QED BY <1>1, <4>1 DEF OnPage, After, Key
    <3> QED BY <1>1, <3>1 DEF PagesInv, After
  <2>1. \A u : OnPage(u, c, cached'[c]) <=> OnPage(u, c, cached[c])
    BY <1>2 DEF OnPage
  <2> QED BY <1>2, <2>1 DEF ListingInv, PagesInv
<1>8. ReaderInv'
  <2>1. \A u \in reader.steady \ {v} : u \in ListedVideos \ {v}
    BY DEF ListingInv, ListingTypeOK
  <2>2. \A u \in reader.steady \ {v} : Passed(u)' <=> Passed(u)
    BY <1>3, <1>5, <1>6, <2>1 DEF Passed
  <2> QED BY <1>3, <2>2 DEF ListingInv, ReaderInv
<1> QED BY <1>4, <1>7, <1>8 DEF ListingInv

\* The page that a request gets, from the cache or not, goes on where the reader is.
LEMMA PageIsRight ==
  ASSUME ListingInv, reader.step = "reading", NEW page,
         page = IF reader.cursor \in DOMAIN cached THEN cached[reader.cursor] ELSE PageAt(reader.cursor)
  PROVE  /\ page \in Pages
         /\ page.more => page.next # NoCursor /\ (reader.cursor # NoCursor => After(page.next, reader.cursor))
         /\ \A v \in page.steady : v \in page.rows <=> OnPage(v, reader.cursor, page)
<1>1. reader.cursor \in Cursors
  BY DEF ListingInv, ListingTypeOK
<1>2. CASE reader.cursor \in DOMAIN cached
  BY <1>2 DEF ListingInv, ListingTypeOK, PagesInv
<1>3. CASE reader.cursor \notin DOMAIN cached
  BY <1>1, <1>3, PageIsWhole DEF ListingInv
<1> QED BY <1>2, <1>3

\* Reading a page keeps the pages and the reader right.
LEMMA ReadKeepsPages == ASSUME ListingInv, ReadPage PROVE ListingInv'
<1> DEFINE c == reader.cursor
           page == IF c \in DOMAIN cached THEN cached[c] ELSE PageAt(c)
<1>1. /\ page \in Pages
      /\ page.more => page.next # NoCursor /\ (c # NoCursor => After(page.next, c))
      /\ \A v \in page.steady : v \in page.rows <=> OnPage(v, c, page)
  BY PageIsRight DEF ReadPage
<1>2. /\ reader.step = "reading" /\ UNCHANGED <<publishedAt, changes, ascending>>
      /\ cached' = [d \in DOMAIN cached \cup {c} |-> IF d = c THEN page ELSE cached[d]]
      /\ reader'.step = IF page.more THEN "reading" ELSE "done"
      /\ reader'.cursor = page.next /\ reader'.steady = reader.steady \cap page.steady
      /\ reader'.seen = [v \in ListedVideos |-> IF v \in page.rows /\ reader.seen[v] < 2
                                                THEN reader.seen[v] + 1 ELSE reader.seen[v]]
      /\ reader' = [step |-> reader'.step, cursor |-> reader'.cursor, seen |-> reader'.seen,
                    steady |-> reader'.steady]
  BY DEF ReadPage
<1>3. c \in Cursors /\ reader.seen \in Seen /\ reader.steady \in SUBSET ListedVideos
  BY DEF ListingInv, ListingTypeOK
<1> HIDE DEF page
<1>4. /\ page.next \in Cursors /\ page.more \in BOOLEAN /\ page.rows \in SUBSET ListedVideos
      /\ page.steady \in SUBSET ListedVideos
  BY <1>1 DEF Pages
<1>5. DOMAIN cached' = DOMAIN cached \cup {c}
      /\ cached'[c] = page /\ \A d \in DOMAIN cached \ {c} : cached'[d] = cached[d]
  BY <1>2
<1>6. ListingTypeOK'
  <2>1. reader'.seen \in Seen
    BY <1>2, <1>3 DEF Seen
  <2>2. reader' \in [step : {"idle", "reading", "done"}, cursor : Cursors, seen : Seen,
                     steady : SUBSET ListedVideos]
    <3>1. reader'.step \in {"idle", "reading", "done"} /\ reader'.steady \in SUBSET ListedVideos
      BY <1>2, <1>3
    <3> QED BY <1>2, <1>4, <2>1, <3>1
  <2>3. DOMAIN cached' \in SUBSET Cursors /\ \A d \in DOMAIN cached' : cached'[d] \in Pages
    BY <1>1, <1>3, <1>5 DEF ListingInv, ListingTypeOK
  <2> QED BY <1>2, <2>2, <2>3 DEF ListingInv, ListingTypeOK
<1>7. \A k, l : After(k, l)' = After(k, l)
  BY <1>2 DEF After
<1>8. \A v : publishedAt'[v] = publishedAt[v] /\ Key(v)' = Key(v)
  BY <1>2 DEF Key
<1>9. PagesInv'
  <2> SUFFICES ASSUME NEW d \in DOMAIN cached'
               PROVE  /\ cached'[d].more => /\ cached'[d].next # NoCursor
                                            /\ d # NoCursor => After(cached'[d].next, d)
                      /\ \A u \in cached'[d].steady : u \in cached'[d].rows <=> OnPage(u, d, cached'[d])
    <3>1. \A d \in DOMAIN cached' : \A u : OnPage(u, d, cached[d])' <=> OnPage(u, d, cached'[d])
      BY <1>2 DEF OnPage, After, Key
    <3> QED BY <1>2, <3>1 DEF PagesInv, After
  <2>2. CASE d = c
    BY <1>1, <1>5, <2>2
  <2>3. CASE d # c
    BY <1>5, <2>3 DEF ListingInv, PagesInv
  <2> QED BY <2>2, <2>3
<1>10. ReaderInv'
  <2> SUFFICES ASSUME NEW v \in reader.steady, v \in page.steady
               PROVE  reader'.seen[v] = IF Passed(v)' THEN 1 ELSE 0
    BY <1>2 DEF ReaderInv
  <2>1. v \in ListedVideos /\ reader.seen[v] = IF Passed(v) THEN 1 ELSE 0
    BY <1>2, <1>3 DEF ListingInv, ReaderInv
  <2>2. reader'.seen[v] = IF v \in page.rows THEN reader.seen[v] + 1 ELSE reader.seen[v]
    BY <1>2, <2>1
  <2>3. v \in page.rows <=> /\ publishedAt[v] # 0 /\ (c # NoCursor => After(Key(v), c))
                            /\ page.more => ~After(Key(v), page.next)
    BY <1>1 DEF OnPage
  <2>4. Passed(v) <=> publishedAt[v] # 0 /\ c # NoCursor /\ ~After(Key(v), c)
    BY <1>2 DEF Passed
  <2>5. Passed(v)' <=> publishedAt[v] # 0 /\ (page.more => ~After(Key(v), page.next))
    BY <1>1, <1>2, <1>4, <1>7, <1>8 DEF Passed
  <2>6. page.more /\ c # NoCursor /\ ~After(Key(v), c) => ~After(Key(v), page.next)
    <3>1. \A k \in Cursors : k \in Nat \X Nat
      <4>1. \A n \in Dates : n \in Nat
        BY ListingAssumption DEF Dates
      <4>2. \A n \in ListedVideos \cup {0} : n \in Nat
        BY ListingAssumption
      <4> QED BY <4>1, <4>2 DEF Cursors
    <3>2. publishedAt[v] \in Nat /\ v \in Nat
      BY <2>1, ListingAssumption DEF ListingInv, ListingTypeOK, Dates
    <3>3. Key(v) \in Nat \X Nat /\ c \in Nat \X Nat /\ page.next \in Nat \X Nat
      BY <1>3, <1>4, <3>1, <3>2 DEF Key
    <3> QED BY <1>1, <3>3, KeysAreOrdered
  <2> QED BY <2>1, <2>2, <2>3, <2>4, <2>5, <2>6
<1> QED BY <1>6, <1>9, <1>10 DEF ListingInv

\* Every step keeps the pages and the reader right.
LEMMA ListingStep == ListingInv /\ [ListingNext]_listingVars => ListingInv'
<1> SUFFICES ASSUME ListingInv, [ListingNext]_listingVars PROVE ListingInv'
  OBVIOUS
<1>1. ASSUME NEW v \in ListedVideos, NEW date \in Dates \ {0}, PublishVideo(v, date) PROVE ListingInv'
  BY <1>1, ChangeKeepsPages DEF PublishVideo
<1>2. ASSUME NEW v \in ListedVideos, UnpublishVideo(v) PROVE ListingInv'
  <2>1. 0 \in Dates
    BY ListingAssumption DEF Dates
  <2> QED BY <1>2, <2>1, ChangeKeepsPages DEF UnpublishVideo
<1>3. ASSUME NEW c \in DOMAIN cached, PageExpires(c) PROVE ListingInv'
  BY <1>3 DEF PageExpires, ListingInv, ListingTypeOK, PagesInv, ReaderInv, OnPage, Passed, After, Key
<1>4. CASE BeginReading
  <2>1. /\ reader' = [step |-> "reading", cursor |-> NoCursor, seen |-> NothingSeen, steady |-> ListedVideos]
        /\ UNCHANGED <<publishedAt, changes, ascending, cached>>
    BY <1>4 DEF BeginReading, NoReader
  <2>2. NoCursor \in Cursors /\ NothingSeen \in Seen
    BY ListingAssumption DEF NoCursor, NothingSeen, Seen, Cursors, Dates
  <2>3. reader' \in [step : {"idle", "reading", "done"}, cursor : Cursors, seen : Seen,
                     steady : SUBSET ListedVideos]
    BY <2>1, <2>2
  <2>4. ListingTypeOK'
    BY <2>1, <2>3 DEF ListingInv, ListingTypeOK
  <2>5. PagesInv' /\ ReaderInv'
    BY <2>1 DEF ListingInv, PagesInv, ReaderInv, OnPage, Passed, After, Key, NothingSeen
  <2> QED BY <2>4, <2>5 DEF ListingInv
<1>5. CASE ReadPage
  BY <1>5, ReadKeepsPages
<1>6. CASE UNCHANGED listingVars
  BY <1>6 DEF listingVars, ListingInv, ListingTypeOK, PagesInv, ReaderInv, OnPage, Passed, After, Key
<1> QED BY <1>1, <1>2, <1>3, <1>4, <1>5, <1>6 DEF ListingNext

\* Who reads the list to the end sees each published video that did not change meanwhile
\* exactly once, for any number of videos, pages, dates and changes, in either order.
THEOREM VideosAreListedOnce == ListingSpec => []ListedOnce
<1>1. ListingInv => ListedOnce
  BY DEF ListingInv, ReaderInv, Passed, ListedOnce
<1> QED BY <1>1, ListingStarts, ListingStep, PTL DEF ListingSpec

(***************************************************************************)
(* Chapter detection. What a loop computes is shown by the least number of *)
(* turns after which it would not hold.                                    *)
(***************************************************************************)
\* What holds at the start, and after each turn if before it, holds as long as turns go on.
LEMMA TurnsKeep ==
  ASSUME NEW T, NEW N \in Nat, 0 \in T, \A n \in 1 .. N : n - 1 \in T => n \in T
  PROVE  0 .. N \subseteq T
<1> DEFINE missed == (0 .. N) \ T
<1> SUFFICES ASSUME missed # {} PROVE FALSE
  OBVIOUS
<1>0. missed \in SUBSET Nat
  OBVIOUS
<1>1. PICK m \in missed : \A n \in missed : m <= n
  <2> HIDE DEF missed
  <2> QED BY <1>0, LeastNumber
<1>2. m \in 1 .. N /\ m - 1 \in 0 .. N /\ m \notin T
  BY <1>1
<1>3. m - 1 \notin missed
  BY <1>1, <1>2
<1> QED BY <1>2, <1>3

\* The values of a loop after each of its turns.
Runs(S, base, turn, N) ==
  {f \in [0 .. N -> S] : f[0] = base /\ \A n \in 1 .. N : f[n] = turn[<<f[n - 1], n>>]}

\* A loop with a number of turns has a value after each of them.
LEMMA LoopHasValues ==
  ASSUME NEW S, NEW base \in S, NEW turn \in [S \X Nat -> S], NEW N \in Nat
  PROVE  \E f : f \in Runs(S, base, turn, N)
<1> DEFINE Goes(f, m) == f \in [0 .. m -> S] /\ f[0] = base /\ \A n \in 1 .. m : f[n] = turn[<<f[n - 1], n>>]
           T == {m \in Nat : \E f : Goes(f, m)}
<1>1. 0 \in T
  <2>1. Goes([n \in 0 .. 0 |-> base], 0)
    OBVIOUS
  <2> QED BY <2>1
<1>2. ASSUME NEW m \in 1 .. N, m - 1 \in T PROVE m \in T
  <2>1. PICK f : Goes(f, m - 1)
    BY <1>2
  <2> DEFINE g == [n \in 0 .. m |-> IF n = m THEN turn[<<f[m - 1], m>>] ELSE f[n]]
  <2>2. f \in [0 .. m - 1 -> S] /\ f[0] = base /\ \A n \in 1 .. m - 1 : f[n] = turn[<<f[n - 1], n>>]
    BY <2>1
  <2>3. turn[<<f[m - 1], m>>] \in S
    BY <2>2
  <2>4. g \in [0 .. m -> S] /\ g[0] = base
    BY <2>2, <2>3
  <2>5. ASSUME NEW n \in 1 .. m PROVE g[n] = turn[<<g[n - 1], n>>]
    <3>1. CASE n = m
      <4>1. g[n] = turn[<<f[m - 1], m>>] /\ g[n - 1] = f[m - 1]
        BY <3>1
      <4> QED BY <3>1, <4>1
    <3>2. CASE n # m
      <4>1. g[n] = f[n] /\ g[n - 1] = f[n - 1] /\ n \in 1 .. m - 1
        BY <3>2
      <4> QED BY <2>2, <4>1
    <3> QED BY <3>1, <3>2
  <2>6. Goes(g, m)
    BY <2>4, <2>5
  <2> HIDE DEF g, Goes
  <2> QED BY <2>6
<1> HIDE DEF T
<1>3. N \in T
  BY <1>1, <1>2, TurnsKeep
<1> QED BY <1>3 DEF T, Runs

\* What chapters are: markers below zero are refused, and parts begin in the video.
Chapter == [start : Nat, sentence : Nat]

\* What the filter has kept after each of the chapters.
LEMMA PassGoesOn ==
  ASSUME NEW chapters \in Seq(Chapter)
  PROVE  \E kept \in [0 .. Len(chapters) -> Seq(Chapter)] :
           /\ kept[0] = <<>> /\ InOnePass(chapters) = kept[Len(chapters)]
           /\ \A n \in 1 .. Len(chapters) :
                kept[n] = IF Keeps(kept[n - 1], chapters[n]) THEN Append(kept[n - 1], chapters[n]) ELSE kept[n - 1]
<1> DEFINE N == Len(chapters)
           S == Seq(Chapter)
           nothing == <<>>
           Turn(k, n) == IF Keeps(k, chapters[n]) THEN Append(k, chapters[n]) ELSE k
           turn == [p \in S \X Nat |-> IF p[2] \in 1 .. N THEN Turn(p[1], p[2]) ELSE p[1]]
           kept[n \in 0 .. Len(chapters)] ==
             IF n = 0 THEN <<>>
             ELSE IF Keeps(kept[n - 1], chapters[n]) THEN Append(kept[n - 1], chapters[n]) ELSE kept[n - 1]
<1>1. InOnePass(chapters) = kept[N]
  BY DEF InOnePass
<1>2. nothing \in S /\ N \in Nat /\ \A k \in S, n \in 1 .. N : Turn(k, n) \in S
  OBVIOUS
<1> HIDE DEF S, nothing, N, Turn, kept
<1>3. turn \in [S \X Nat -> S] /\ \A k \in S, n \in 1 .. N : turn[<<k, n>>] = Turn(k, n)
  BY <1>2
<1> HIDE DEF turn
<1>4. PICK f : f \in Runs(S, nothing, turn, N)
  BY <1>2, <1>3, LoopHasValues
<1>5. ASSUME NEW n \in 1 .. N PROVE f[n] = Turn(f[n - 1], n)
  <2>1. f[n - 1] \in S /\ N \in Nat
    BY <1>2, <1>4 DEF Runs
  <2> QED BY <1>3, <1>4, <2>1 DEF Runs
<1>6. f = [n \in 0 .. N |-> IF n = 0 THEN nothing ELSE Turn(f[n - 1], n)]
  BY <1>2, <1>4, <1>5 DEF Runs
<1>7. \E g : g = [n \in 0 .. Len(chapters) |->
                IF n = 0 THEN <<>>
                ELSE IF Keeps(g[n - 1], chapters[n]) THEN Append(g[n - 1], chapters[n]) ELSE g[n - 1]]
  BY <1>6, Zenon DEF N, nothing, Turn
<1>8. kept = [n \in 0 .. Len(chapters) |->
                IF n = 0 THEN <<>>
                ELSE IF Keeps(kept[n - 1], chapters[n]) THEN Append(kept[n - 1], chapters[n]) ELSE kept[n - 1]]
  BY <1>7, Zenon DEF kept
<1>9. kept = [n \in 0 .. N |-> IF n = 0 THEN nothing ELSE Turn(kept[n - 1], n)]
  BY <1>8, Zenon DEF N, nothing, Turn
<1> DEFINE good == {n \in Nat : n \in 0 .. N => kept[n] \in S}
<1>10. 0 \in good
  BY <1>2, <1>9
<1>11. \A n \in 1 .. N : kept[n] = Turn(kept[n - 1], n)
  BY <1>2, <1>9
<1>12. ASSUME NEW n \in 1 .. N, n - 1 \in good PROVE n \in good
  BY <1>2, <1>11, <1>12
<1>13. 0 .. N \subseteq good
  <2> HIDE DEF good
  <2> QED BY <1>2, <1>10, <1>12, TurnsKeep
<1>14. kept \in [0 .. N -> S] /\ kept[0] = nothing
  <2>1. \A n \in 0 .. N : kept[n] \in S
    BY <1>2, <1>13
  <2> QED BY <1>2, <1>9, <2>1
<1> QED BY <1>1, <1>11, <1>14, Zenon DEF N, S, nothing, Turn

\* None begins before an earlier one.
InTimeOrder(chapters) == \A i, j \in 1 .. Len(chapters) : i < j => chapters[i].start <= chapters[j].start

\* What the code finds to be the minimum apart is it, and what is further apart is found
\* to be.
LEMMA ApartMeans ==
  ASSUME NEW s \in Nat, NEW t \in Nat
  PROVE  /\ Apart(s, t) \in BOOLEAN
         /\ Apart(s, t) => t - s >= MinLength
         /\ t - s > MinLength => Apart(s, t)
         /\ ~Apart(s, t) => t - s < MinLength \/ (t - s = MinLength /\ <<s, t>> \in Short)
<1>1. MinLength \in Nat /\ \A p \in Short : p[2] - p[1] = MinLength
  BY ChapterAssumption
<1>2. <<s, t>> \in Short => t - s = MinLength
  BY <1>1
<1> QED BY <1>1, <1>2 DEF Apart

\* Nothing is apart from itself.
LEMMA NotFromItself == ASSUME NEW s \in Nat PROVE ~Apart(s, s)
<1>1. MinLength \in Nat /\ MinLength > 0
  BY ChapterAssumption
<1>2. ~(s - s >= MinLength)
  BY <1>1
<1> QED BY <1>2 DEF Apart

\* So what begins earlier is found to be apart, too.
LEMMA EarlierIsApart ==
  ASSUME NEW r \in Nat, NEW s \in Nat, NEW t \in Nat, r < s, Apart(s, t)
  PROVE  Apart(r, t)
<1>1. MinLength \in Nat /\ t - s >= MinLength
  BY ApartMeans, ChapterAssumption
<1>2. t - r > MinLength
  BY <1>1
<1> QED BY <1>2, ApartMeans

\* What is true of the chapters that were kept of the first n: they begin with the first
\* one, they keep the distances, and whatever else would keep the distance from the end
\* is too near to one of them that begins before it.
KeptOf(chapters, n, kept) ==
  /\ kept \in Seq(Chapter) /\ Len(kept) \in 1 .. n /\ kept[1] = chapters[1]
  /\ \A i \in 1 .. Len(kept) : \E j \in 1 .. n : kept[i] = chapters[j]
  /\ \A i, j \in 1 .. Len(kept) : i < j => Apart(kept[i].start, kept[j].start)
  /\ \A i \in 2 .. Len(kept) : Apart(kept[i].start, recording.duration)
  /\ \A j \in 1 .. n : Apart(chapters[j].start, recording.duration) =>
       \E i \in 1 .. Len(kept) :
         kept[i].start <= chapters[j].start /\ ~Apart(kept[i].start, chapters[j].start)

\* A chapter that is kept.
LEMMA OneMoreKept ==
  ASSUME NEW chapters \in Seq(Chapter), InTimeOrder(chapters), recording.duration \in Nat,
         NEW n \in 2 .. Len(chapters), NEW kept, KeptOf(chapters, n - 1, kept), Keeps(kept, chapters[n])
  PROVE  KeptOf(chapters, n, Append(kept, chapters[n]))
<1> DEFINE more == Append(kept, chapters[n])
           K == Len(kept)
<1>0. MinLength \in Nat /\ MinLength > 0
  BY ChapterAssumption
<1>1. K \in Nat /\ K \in 1 .. n - 1 /\ kept \in Seq(Chapter) /\ kept[1] = chapters[1]
  BY DEF KeptOf
<1>2. more \in Seq(Chapter) /\ Len(more) = K + 1 /\ more[K + 1] = chapters[n] /\ \A i \in 1 .. K : more[i] = kept[i]
  BY <1>1
<1>3. chapters[n].start \in Nat /\ \A i \in 1 .. K : kept[i].start \in Nat
  <2>1. chapters[n] \in Chapter /\ \A i \in 1 .. K : kept[i] \in Chapter
    BY <1>1
  <2> QED BY <2>1 DEF Chapter
<1>4. Apart(kept[K].start, chapters[n].start) /\ Apart(chapters[n].start, recording.duration)
  BY <1>1 DEF Keeps, Last
<1>5. /\ \A i \in 1 .. K : \E j \in 1 .. n - 1 : kept[i] = chapters[j]
      /\ \A i, j \in 1 .. K : i < j => Apart(kept[i].start, kept[j].start)
      /\ \A i \in 2 .. K : Apart(kept[i].start, recording.duration)
      /\ \A j \in 1 .. n - 1 : Apart(chapters[j].start, recording.duration) =>
           \E i \in 1 .. K : kept[i].start <= chapters[j].start /\ ~Apart(kept[i].start, chapters[j].start)
  BY DEF KeptOf
<1> HIDE DEF more, K
<1>6. \A i \in 1 .. K + 1 : \E j \in 1 .. n : more[i] = chapters[j]
  <2>1. ASSUME NEW i \in 1 .. K PROVE \E j \in 1 .. n : more[i] = chapters[j]
    <3>1. PICK j \in 1 .. n - 1 : kept[i] = chapters[j]
      BY <1>5
    <3> QED BY <1>2, <3>1
  <2>2. \E j \in 1 .. n : more[K + 1] = chapters[j]
    BY <1>2
  <2>3. \A i \in 1 .. K + 1 : i = K + 1 \/ i \in 1 .. K
    BY <1>1
  <2> QED BY <2>1, <2>2, <2>3
<1>7. \A i, j \in 1 .. K + 1 : i < j => Apart(more[i].start, more[j].start)
  <2> SUFFICES ASSUME NEW i \in 1 .. K + 1, NEW j \in 1 .. K + 1, i < j
               PROVE Apart(more[i].start, more[j].start)
    OBVIOUS
  <2>1. CASE j \in 1 .. K
    <3>1. i \in 1 .. K
      BY <1>1, <2>1
    <3> QED BY <1>2, <1>5, <2>1, <3>1
  <2>2. CASE j = K + 1
    <3>1. i \in 1 .. K /\ K \in 1 .. K
      BY <1>1, <2>2
    <3>2. kept[i].start \in Nat /\ kept[K].start \in Nat /\ chapters[n].start \in Nat
      BY <1>3, <3>1
    <3>3. Apart(kept[i].start, chapters[n].start)
      <4>1. CASE i < K
        <5>1. kept[K].start - kept[i].start >= MinLength
          BY <1>5, <3>1, <3>2, <4>1, ApartMeans
        <5>2. kept[i].start < kept[K].start
          BY <1>0, <3>2, <5>1
        <5> QED BY <1>4, <3>2, <5>2, EarlierIsApart
      <4>2. CASE i = K
        BY <1>4, <4>2
      <4> QED BY <1>1, <3>1, <4>1, <4>2
    <3>4. more[j] = chapters[n] /\ more[i] = kept[i]
      BY <1>2, <2>2, <3>1
    <3> QED BY <3>3, <3>4
  <2> QED BY <1>1, <2>1, <2>2
<1>8. \A i \in 2 .. K + 1 : Apart(more[i].start, recording.duration)
  <2>1. \A i \in 2 .. K + 1 : i = K + 1 \/ (i \in 2 .. K /\ i \in 1 .. K)
    BY <1>1
  <2> QED BY <1>2, <1>4, <1>5, <2>1
<1>9. \A j \in 1 .. n : Apart(chapters[j].start, recording.duration) =>
       \E i \in 1 .. K + 1 : more[i].start <= chapters[j].start /\ ~Apart(more[i].start, chapters[j].start)
  <2> SUFFICES ASSUME NEW j \in 1 .. n, Apart(chapters[j].start, recording.duration)
               PROVE \E i \in 1 .. K + 1 :
                       more[i].start <= chapters[j].start /\ ~Apart(more[i].start, chapters[j].start)
    OBVIOUS
  <2>1. CASE j = n
    <3>1. K + 1 \in 1 .. K + 1 /\ more[K + 1].start = chapters[j].start /\ chapters[j].start \in Nat
      BY <1>1, <1>2, <1>3, <2>1
    <3>2. ~Apart(chapters[j].start, chapters[j].start)
      BY <3>1, NotFromItself
    <3> QED BY <3>1, <3>2
  <2>2. CASE j # n
    <3>1. PICK i \in 1 .. K : kept[i].start <= chapters[j].start /\ ~Apart(kept[i].start, chapters[j].start)
      BY <1>5, <2>2
    <3>2. more[i] = kept[i] /\ i \in 1 .. K + 1
      BY <1>1, <1>2
    <3> QED BY <3>1, <3>2
  <2> QED BY <2>1, <2>2
<1>10. Len(more) \in 1 .. n /\ more[1] = chapters[1]
  BY <1>1, <1>2
<1> QED BY <1>2, <1>6, <1>7, <1>8, <1>9, <1>10 DEF KeptOf, more

\* A chapter that is not kept.
LEMMA NoMoreKept ==
  ASSUME NEW chapters \in Seq(Chapter), InTimeOrder(chapters), recording.duration \in Nat,
         NEW n \in 2 .. Len(chapters), NEW kept, KeptOf(chapters, n - 1, kept), ~Keeps(kept, chapters[n])
  PROVE  KeptOf(chapters, n, kept)
<1> DEFINE K == Len(kept)
<1>0. MinLength \in Nat /\ MinLength > 0
  BY ChapterAssumption
<1>1. K \in 1 .. n - 1 /\ kept \in Seq(Chapter)
  BY DEF KeptOf
<1>2. chapters[n].start \in Nat /\ \A i \in 1 .. K : kept[i].start \in Nat
  <2>1. chapters[n] \in Chapter /\ \A i \in 1 .. K : kept[i] \in Chapter
    BY <1>1
  <2> QED BY <2>1 DEF Chapter
<1>3. Apart(chapters[n].start, recording.duration) => ~Apart(kept[K].start, chapters[n].start)
  <2>1. kept # <<>> /\ K \in 1 .. K
    BY <1>1
  <2> QED BY <2>1 DEF Keeps, Last
<1>4. kept[K].start <= chapters[n].start
  <2>1. PICK j \in 1 .. n - 1 : kept[K] = chapters[j]
    BY <1>1 DEF KeptOf
  <2> QED BY <2>1 DEF InTimeOrder
<1>5. Apart(chapters[n].start, recording.duration) =>
       \E i \in 1 .. K : kept[i].start <= chapters[n].start /\ ~Apart(kept[i].start, chapters[n].start)
  <2>1. K \in 1 .. K
    BY <1>1
  <2> QED BY <1>3, <1>4, <2>1
<1>6. \A i \in 1 .. K : \E j \in 1 .. n : kept[i] = chapters[j]
  BY DEF KeptOf
<1>7. Len(kept) \in 1 .. n
  BY <1>1
<1>8. \A j \in 1 .. n : Apart(chapters[j].start, recording.duration) =>
       \E i \in 1 .. K : kept[i].start <= chapters[j].start /\ ~Apart(kept[i].start, chapters[j].start)
  BY <1>5 DEF KeptOf
<1> QED BY <1>1, <1>6, <1>7, <1>8 DEF KeptOf

\* What the pass keeps in the end.
LEMMA PassKeeps ==
  ASSUME NEW chapters \in Seq(Chapter), InTimeOrder(chapters), recording.duration \in Nat, chapters # <<>>
  PROVE  KeptOf(chapters, Len(chapters), InOnePass(chapters))
<1>1. PICK kept \in [0 .. Len(chapters) -> Seq(Chapter)] :
           /\ kept[0] = <<>> /\ InOnePass(chapters) = kept[Len(chapters)]
           /\ \A n \in 1 .. Len(chapters) :
                kept[n] = IF Keeps(kept[n - 1], chapters[n]) THEN Append(kept[n - 1], chapters[n]) ELSE kept[n - 1]
  BY PassGoesOn
<1> DEFINE N == Len(chapters)
           good == {n \in Nat : n \in 1 .. N => KeptOf(chapters, n, kept[n])}
<1>2. N \in Nat /\ N \in 1 .. N /\ 0 \in good
  OBVIOUS
<1>3. ASSUME NEW n \in 1 .. N, n - 1 \in good PROVE n \in good
  <2>1. CASE n = 1
    <3>1. kept[1] = Append(<<>>, chapters[1])
      <4>0. 1 \in 1 .. Len(chapters) /\ 1 - 1 = 0
        BY <1>2
      <4>1. kept[1] = IF Keeps(kept[0], chapters[1]) THEN Append(kept[0], chapters[1]) ELSE kept[0]
        BY <1>1, <4>0
      <4>2. Keeps(kept[0], chapters[1])
        BY <1>1 DEF Keeps
      <4> QED BY <1>1, <4>1, <4>2
    <3>2. chapters[1] \in Chapter
      BY <1>2
    <3>3. kept[1] = <<chapters[1]>> /\ kept[1] \in Seq(Chapter) /\ Len(kept[1]) = 1 /\ kept[1][1] = chapters[1]
      BY <3>1, <3>2
    <3>4. KeptOf(chapters, 1, kept[1])
      <4>1. chapters[1].start \in Nat /\ MinLength \in Nat /\ MinLength > 0
        BY <3>2, ChapterAssumption DEF Chapter
      <4>2. ~Apart(chapters[1].start, chapters[1].start)
        BY <4>1, NotFromItself
      <4> QED BY <3>3, <4>1, <4>2 DEF KeptOf
    <3> QED BY <2>1, <3>4
  <2>2. CASE n # 1
    <3>1. n \in 2 .. N /\ n - 1 \in 1 .. N /\ KeptOf(chapters, n - 1, kept[n - 1])
      BY <1>2, <1>3, <2>2
    <3>2. CASE Keeps(kept[n - 1], chapters[n])
      BY <1>1, <3>1, <3>2, OneMoreKept
    <3>3. CASE ~Keeps(kept[n - 1], chapters[n])
      BY <1>1, <3>1, <3>3, NoMoreKept
    <3> QED BY <3>2, <3>3
  <2> QED BY <2>1, <2>2
<1>4. 0 .. N \subseteq good
  <2> HIDE DEF good, N
  <2> QED BY <1>2, <1>3, TurnsKeep
<1> QED BY <1>1, <1>2, <1>4

\* What sorted() gives.
LEMMA SortedIsSorted ==
  ASSUME NEW chapters \in Seq(Chapter)
  PROVE  /\ InOrder(chapters) \in Seq(Chapter) /\ Len(InOrder(chapters)) = Len(chapters)
         /\ InTimeOrder(InOrder(chapters)) /\ Starts(InOrder(chapters)) = Starts(chapters)
<1> DEFINE N == Len(chapters)
           at(i) == chapters[i].start
           Sooner(i, j) == \/ chapters[i].start < chapters[j].start
                           \/ chapters[i].start = chapters[j].start /\ i < j
           ahead(i) == {j \in DOMAIN chapters : Sooner(j, i)}
           place(i) == Cardinality(ahead(i)) + 1
           from(n) == CHOOSE i \in DOMAIN chapters : place(i) = n
<1>1. N \in Nat /\ DOMAIN chapters = 1 .. N /\ IsFiniteSet(1 .. N) /\ Cardinality(1 .. N) = N
  <2>1. N \in Nat /\ DOMAIN chapters = 1 .. N
    OBVIOUS
  <2> HIDE DEF N
  <2>2. IsFiniteSet(1 .. N) /\ Cardinality(1 .. N) = IF 1 > N THEN 0 ELSE N - 1 + 1
    BY <2>1, FS_Interval
  <2> QED BY <2>1, <2>2
<1>2. \A i \in 1 .. N : chapters[i] \in Chapter /\ chapters[i].start \in Nat
  <2>1. \A i \in 1 .. N : chapters[i] \in Chapter
    OBVIOUS
  <2> QED BY <2>1 DEF Chapter
<1>3. InOrder(chapters) = [n \in 1 .. N |-> chapters[from(n)]]
  BY <1>1 DEF InOrder
<1> HIDE DEF N
<1>4. /\ \A i, j \in 1 .. N : i # j => Sooner(i, j) \/ Sooner(j, i)
      /\ \A i \in 1 .. N : ~Sooner(i, i)
      /\ \A i, j, k \in 1 .. N : Sooner(i, j) /\ Sooner(j, k) => Sooner(i, k)
      /\ \A i, j \in 1 .. N : ~Sooner(j, i) => chapters[i].start <= chapters[j].start
  BY <1>1, <1>2
<1> HIDE DEF Sooner
<1>5. ASSUME NEW i \in 1 .. N
      PROVE  /\ ahead(i) \subseteq 1 .. N /\ IsFiniteSet(ahead(i)) /\ i \notin ahead(i)
             /\ Cardinality(ahead(i)) \in Nat /\ place(i) \in 1 .. N
  <2>1. ahead(i) \in SUBSET (1 .. N) /\ i \notin ahead(i)
    BY <1>1, <1>4
  <2> HIDE DEF ahead
  <2>2. IsFiniteSet(ahead(i)) /\ Cardinality(ahead(i)) <= N /\ (N = Cardinality(ahead(i)) => 1 .. N = ahead(i))
    BY <1>1, <2>1, FS_Subset
  <2>3. Cardinality(ahead(i)) \in Nat
    BY <2>2, FS_CardinalityType
  <2> QED BY <1>1, <2>1, <2>2, <2>3
<1>6. ASSUME NEW i \in 1 .. N, NEW j \in 1 .. N, Sooner(i, j) PROVE place(i) < place(j)
  <2>1. ahead(i) \subseteq ahead(j) /\ i \in ahead(j)
    BY <1>1, <1>4, <1>6
  <2>2. ahead(i) \in SUBSET ahead(j) /\ ahead(i) # ahead(j) /\ IsFiniteSet(ahead(j))
    BY <1>5, <2>1
  <2>3. Cardinality(ahead(i)) \in Nat /\ Cardinality(ahead(j)) \in Nat
    BY <1>5
  <2> HIDE DEF ahead
  <2>4. Cardinality(ahead(i)) <= Cardinality(ahead(j)) /\ Cardinality(ahead(i)) # Cardinality(ahead(j))
    BY <2>2, FS_Subset
  <2> QED BY <2>3, <2>4
<1>7. \A i \in 1 .. N : place(i) \in 1 .. N
  BY <1>5
<1> HIDE DEF place, ahead
<1>8. \A i, j \in 1 .. N : place(i) = place(j) => i = j
  <2> SUFFICES ASSUME NEW i \in 1 .. N, NEW j \in 1 .. N, i # j PROVE place(i) # place(j)
    OBVIOUS
  <2>1. place(i) < place(j) \/ place(j) < place(i)
    BY <1>4, <1>6
  <2>2. place(i) \in Int /\ place(j) \in Int
    BY <1>7
  <2> QED BY <2>1, <2>2
<1> DEFINE places == [i \in 1 .. N |-> place(i)]
<1>9. \A n \in 1 .. N : \E i \in 1 .. N : place(i) = n
  <2>1. places \in Injection(1 .. N, 1 .. N)
    BY <1>7, <1>8 DEF Injection, IsInjective
  <2> HIDE DEF places
  <2>2. places \in Surjection(1 .. N, 1 .. N)
    BY <1>1, <2>1, FS_Injection
  <2> USE DEF places
  <2> QED BY <2>2 DEF Surjection
<1>10. \A n \in 1 .. N : from(n) \in 1 .. N /\ place(from(n)) = n
  BY <1>1, <1>9
<1>11. \A i \in 1 .. N : from(place(i)) = i
  BY <1>7, <1>8, <1>10
<1> HIDE DEF from
<1>12. InOrder(chapters) \in Seq(Chapter) /\ Len(InOrder(chapters)) = N
  <2>1. InOrder(chapters) \in [1 .. N -> Chapter]
    BY <1>2, <1>3, <1>10
  <2> QED BY <1>1, <2>1
<1>13. InTimeOrder(InOrder(chapters))
  <2> SUFFICES ASSUME NEW m \in 1 .. N, NEW n \in 1 .. N, m < n
               PROVE InOrder(chapters)[m].start <= InOrder(chapters)[n].start
    BY <1>12 DEF InTimeOrder
  <2>1. ~Sooner(from(n), from(m))
    BY <1>6, <1>10
  <2>2. chapters[from(m)].start <= chapters[from(n)].start
    BY <1>4, <1>10, <2>1
  <2> QED BY <1>3, <2>2
<1>14. Starts(InOrder(chapters)) = Starts(chapters)
  <2>1. DOMAIN InOrder(chapters) = 1 .. N
    BY <1>3
  <2>2. Starts(InOrder(chapters)) = {InOrder(chapters)[n].start : n \in 1 .. N}
    BY <2>1 DEF Starts
  <2>3. Starts(chapters) = {chapters[i].start : i \in 1 .. N}
    BY <1>1 DEF Starts
  <2>4. ASSUME NEW n \in 1 .. N PROVE InOrder(chapters)[n].start \in Starts(chapters)
    <3>1. InOrder(chapters)[n] = chapters[from(n)] /\ from(n) \in 1 .. N
      BY <1>3, <1>10
    <3> QED BY <2>3, <3>1
  <2>5. ASSUME NEW i \in 1 .. N PROVE chapters[i].start \in Starts(InOrder(chapters))
    <3>1. InOrder(chapters)[place(i)] = chapters[i] /\ place(i) \in 1 .. N
      BY <1>3, <1>7, <1>11
    <3> QED BY <2>2, <3>1
  <2> QED BY <2>2, <2>3, <2>4, <2>5
<1> QED BY <1>12, <1>13, <1>14 DEF N

\* As many are kept as any choice has that begins with the first one and keeps the
\* distances: each chapter of a choice begins less than one distance after a kept one, and
\* no two of them after the same.
LEMMA KeptIsMost ==
  ASSUME NEW chapters \in Seq(Chapter), InTimeOrder(chapters), recording.duration \in Nat, chapters # <<>>,
         NEW kept, KeptOf(chapters, Len(chapters), kept)
  PROVE  /\ \A s \in Starts(chapters) : s \in Nat /\ chapters[1].start <= s
         /\ chapters[1].start \in Starts(chapters)
         /\ Starts(kept) \subseteq Starts(chapters) /\ kept[1].start \in Starts(kept)
         /\ Allowed(Starts(kept)) /\ IsFiniteSet(Starts(kept)) /\ Cardinality(Starts(kept)) = Len(kept)
         /\ \A c \in SUBSET Starts(chapters) :
              chapters[1].start \in c /\ Allowed(c) => IsFiniteSet(c) /\ Cardinality(c) <= Len(kept)
<1> DEFINE N == Len(chapters)
           K == Len(kept)
           D == recording.duration
<1>0. MinLength \in Nat /\ MinLength > 0 /\ D \in Nat
  BY ChapterAssumption
<1>1. /\ K \in 1 .. N /\ kept \in Seq(Chapter) /\ DOMAIN kept = 1 .. K /\ kept[1] = chapters[1]
      /\ N \in Nat /\ DOMAIN chapters = 1 .. N
  BY DEF KeptOf
<1>2. (\A i \in 1 .. K : kept[i].start \in Nat) /\ \A i \in 1 .. N : chapters[i].start \in Nat
  <2>1. (\A i \in 1 .. K : kept[i] \in Chapter) /\ \A i \in 1 .. N : chapters[i] \in Chapter
    BY <1>1
  <2> QED BY <2>1 DEF Chapter
<1>3. Starts(kept) = {kept[i].start : i \in 1 .. K} /\ Starts(chapters) = {chapters[i].start : i \in 1 .. N}
  BY <1>1 DEF Starts
<1>4. /\ \A i \in 1 .. K : \E j \in 1 .. N : kept[i] = chapters[j]
      /\ \A i, j \in 1 .. K : i < j => Apart(kept[i].start, kept[j].start)
      /\ \A i \in 2 .. K : Apart(kept[i].start, D)
      /\ \A j \in 1 .. N : Apart(chapters[j].start, D) =>
           \E i \in 1 .. K : kept[i].start <= chapters[j].start /\ ~Apart(kept[i].start, chapters[j].start)
  BY DEF KeptOf
<1>5. /\ \A s \in Starts(chapters) : s \in Nat /\ chapters[1].start <= s
      /\ chapters[1].start \in Starts(chapters) /\ kept[1].start \in Starts(kept)
  <2>1. 1 \in 1 .. K /\ 1 \in 1 .. N
    BY <1>1
  <2>2. \A i \in 1 .. N : chapters[1].start <= chapters[i].start
    BY <1>1, <1>2, <2>1 DEF InTimeOrder
  <2> QED BY <1>2, <1>3, <2>1, <2>2
<1>6. Starts(kept) \subseteq Starts(chapters)
  BY <1>3, <1>4
<1> HIDE DEF N, K, D
<1>7. \A i, j \in 1 .. K : kept[i].start < kept[j].start => i < j
  <2> SUFFICES ASSUME NEW i \in 1 .. K, NEW j \in 1 .. K, kept[i].start < kept[j].start, ~(i < j)
               PROVE FALSE
    OBVIOUS
  <2>1. i # j /\ j < i
    BY <1>2
  <2>2. kept[i].start - kept[j].start >= MinLength
    BY <1>2, <1>4, <2>1, ApartMeans
  <2> QED BY <1>0, <1>2, <2>2
<1>8. Allowed(Starts(kept))
  <2> SUFFICES ASSUME NEW i \in 1 .. K, NEW j \in 1 .. K, kept[i].start < kept[j].start
               PROVE Apart(kept[i].start, kept[j].start) /\ Apart(kept[j].start, D)
    BY <1>3 DEF Allowed, D
  <2>1. i < j
    BY <1>7
  <2>2. j \in 2 .. K
    BY <1>1, <2>1
  <2> QED BY <1>4, <2>1, <2>2
<1>9. IsFiniteSet(1 .. K) /\ Cardinality(1 .. K) = K
  BY <1>1, FS_Interval
<1> DEFINE start == [i \in 1 .. K |-> kept[i].start]
<1>10. IsFiniteSet(Starts(kept)) /\ Cardinality(Starts(kept)) = K
  <2>1. \A i, j \in 1 .. K : i # j => kept[i].start # kept[j].start
    <3> SUFFICES ASSUME NEW i \in 1 .. K, NEW j \in 1 .. K, i < j PROVE kept[i].start # kept[j].start
      OBVIOUS
    <3>1. kept[j].start - kept[i].start >= MinLength
      BY <1>2, <1>4, ApartMeans
    <3> QED BY <1>0, <1>2, <3>1
  <2>2. start \in Injection(1 .. K, Starts(kept)) /\ start \in Surjection(1 .. K, Starts(kept))
    BY <1>3, <2>1 DEF Injection, IsInjective, Surjection
  <2> HIDE DEF start
  <2>3. IsFiniteSet(Starts(kept)) /\ Cardinality(Starts(kept)) = Cardinality(1 .. K)
    BY <1>9, <2>2, FS_Surjection
  <2> QED BY <1>9, <2>3
<1>11. ASSUME NEW c \in SUBSET Starts(chapters), chapters[1].start \in c, Allowed(c)
       PROVE  IsFiniteSet(c) /\ Cardinality(c) <= K
  <2> DEFINE near(s) == CHOOSE i \in 1 .. K : kept[i].start <= s /\ ~Apart(kept[i].start, s)
             nearest == [s \in c |-> near(s)]
  <2>1. ASSUME NEW s \in c PROVE \E i \in 1 .. K : kept[i].start <= s /\ ~Apart(kept[i].start, s)
    <3>1. s \in Nat /\ chapters[1].start <= s /\ s \in Starts(chapters) /\ chapters[1].start \in Nat
      BY <1>5
    <3>2. CASE s = chapters[1].start
      <4>1. 1 \in 1 .. K /\ kept[1].start = s
        BY <1>1, <3>2
      <4>2. ~Apart(s, s)
        BY <3>1, NotFromItself
      <4> QED BY <3>1, <4>1, <4>2
    <3>3. CASE chapters[1].start < s
      <4>1. Apart(s, D)
        BY <1>11, <3>3 DEF Allowed, D
      <4>2. PICK j \in 1 .. N : chapters[j].start = s
        BY <1>3, <3>1
      <4> QED BY <1>4, <4>1, <4>2
    <3> QED BY <3>1, <3>2, <3>3
  <2>2. \A s \in c : near(s) \in 1 .. K /\ kept[near(s)].start <= s /\ ~Apart(kept[near(s)].start, s)
    BY <2>1
  <2> HIDE DEF near
  <2>3. \A s, t \in c : near(s) = near(t) => s = t
    <3> SUFFICES ASSUME NEW s \in c, NEW t \in c, s < t, near(s) = near(t) PROVE FALSE
      BY <1>5
    <3>1. Apart(s, t)
      BY <1>11 DEF Allowed
    <3>2. kept[near(s)].start <= s /\ ~Apart(kept[near(s)].start, t) /\ kept[near(s)].start \in Nat
      BY <1>2, <2>2
    <3>3. s \in Nat /\ t \in Nat
      BY <1>5
    <3>4. ~(kept[near(s)].start < s)
      BY <3>1, <3>2, <3>3, EarlierIsApart
    <3> QED BY <3>1, <3>2, <3>3, <3>4
  <2>4. nearest \in Injection(c, 1 .. K)
    BY <2>2, <2>3 DEF Injection, IsInjective
  <2> HIDE DEF nearest
  <2>5. IsFiniteSet(c) /\ Cardinality(c) <= Cardinality(1 .. K)
    BY <1>9, <2>4, FS_Injection
  <2> QED BY <1>9, <2>5
<1> QED BY <1>5, <1>6, <1>8, <1>10, <1>11 DEF K

(* Division, and what is rounded by it. *)

\* A quotient is the last multiple.
LEMMA Quotient ==
  ASSUME NEW a \in Nat, NEW b \in Nat \ {0}
  PROVE  a \div b \in Nat /\ b * (a \div b) <= a /\ a < b * (a \div b) + b
OBVIOUS

\* A number is its quotient and its rest.
LEMMA QuotientAndRest ==
  ASSUME NEW a \in Nat, NEW b \in Nat \ {0}
  PROVE  a \div b \in Nat /\ a = b * (a \div b) + (a % b)
<1>1. a = b * (a \div b) + (a % b)
  OBVIOUS
<1> QED BY <1>1, Quotient

\* The smaller product is that of the smaller number.
LEMMA ProductsInOrder == ASSUME NEW b \in Nat, NEW x \in Int, NEW y \in Int, b * x < b * y PROVE x < y
OBVIOUS

\* The product with a larger number is larger.
LEMMA ProductsGrow == ASSUME NEW b \in Nat, NEW x \in Int, NEW y \in Int, x <= y PROVE b * x <= b * y
OBVIOUS

\* A quotient grows by what was added, if a multiple of the divisor was added.
LEMMA QuotientsGrow ==
  ASSUME NEW a \in Nat, NEW c \in Nat, NEW b \in Nat \ {0}, NEW m \in Nat, a + b * m <= c
  PROVE  (c \div b) - (a \div b) >= m
<1> DEFINE q == a \div b
           r == c \div b
<1>1. q \in Nat /\ r \in Nat /\ b * q <= a /\ c < b * r + b
  BY Quotient
<1> HIDE DEF q, r
<1>2. b * q \in Int /\ b * m \in Int /\ b * r \in Int
  BY <1>1
<1>3. b * (q + m) = b * q + b * m /\ b * (r + 1) = b * r + b
  BY <1>1
<1>4. b * (q + m) < b * (r + 1)
  BY <1>1, <1>2, <1>3
<1>5. q + m \in Int /\ r + 1 \in Int
  BY <1>1
<1>6. q + m < r + 1
  BY <1>4, <1>5, ProductsInOrder
<1> QED BY <1>1, <1>6 DEF q, r

\* What is added to a multiple, if it is less than the divisor, makes no difference.
LEMMA QuotientOf ==
  ASSUME NEW a \in Nat, NEW b \in Nat \ {0}, NEW k \in Nat, NEW r \in Nat, r < b, a = b * k + r
  PROVE  a \div b = k
<1> DEFINE q == a \div b
<1>1. q \in Nat /\ b * q <= a /\ a < b * q + b
  BY Quotient
<1> HIDE DEF q
<1>2. b * q \in Int /\ b * k \in Int
  BY <1>1
<1>3. b * (k + 1) = b * k + b /\ b * (q + 1) = b * q + b
  BY <1>1
<1>4. b * q < b * (k + 1) /\ b * k < b * (q + 1)
  BY <1>1, <1>2, <1>3
<1>5. q < k + 1 /\ k < q + 1
  BY <1>1, <1>4, ProductsInOrder
<1> QED BY <1>1, <1>5 DEF q

\* The start of a part, and how far it is from a later one and from the end, whichever
\* way ties are rounded. If the parts are longer than the minimum, then by a hundredth of
\* a part at least, and a tie is no more than that; else all of them begin at hundredths.
LEMMA PartsAreApart ==
  ASSUME NEW num \in Nat, num >= 1, recording.duration \in Nat, MinLength * num <= recording.duration
  PROVE  /\ \A i \in Nat : PartStart(i, num) \in Nat
         /\ PartStart(0, num) = 0
         /\ \A i, j \in Nat : i < j => PartStart(j, num) - PartStart(i, num) >= MinLength
         /\ \A i \in 0 .. num - 1 : recording.duration - PartStart(i, num) > MinLength - Hundredth
<1> DEFINE D == recording.duration
           H == Hundredth
           M == MinLength
           b == 2 * H * num
           u(i) == IF <<i, num, D>> \in RoundedDown THEN 1 ELSE 0
           a(i) == 2 * i * D + H * num - u(i)
           q(i) == a(i) \div b
<1>1. H \in Nat /\ H > 0 /\ M \in Nat /\ M > 0 /\ M % H = 0 /\ D \in Nat /\ M * num <= D
  BY ChapterAssumption
<1>2. PICK m \in Nat : M = H * m
  <2>1. M = H * (M \div H) + (M % H) /\ M \div H \in Nat
    BY <1>1, QuotientAndRest
  <2>2. M = H * (M \div H)
    BY <1>1, <2>1
  <2>3. \A d \in Nat : M = H * d => \E m \in Nat : M = H * m
    OBVIOUS
  <2> QED BY <2>1, <2>2, <2>3
<1>3. \A i \in Nat : PartStart(i, num) = H * q(i)
  BY DEF PartStart
<1> HIDE DEF D, H, M
<1>4. H * num \in Nat /\ H * num > 0
  <2>1. H * num \in Nat
    BY <1>1
  <2>2. H * 0 < H * num
    BY <1>1
  <2> QED BY <1>1, <2>1, <2>2
<1>5. b \in Nat \ {0} /\ b = 2 * (H * num)
  <2>1. b = 2 * (H * num)
    BY <1>1
  <2> HIDE DEF b
  <2> QED BY <1>4, <2>1
<1> HIDE DEF u
<1>6. \A i \in Nat :
        /\ i * D \in Nat /\ a(i) \in Nat /\ u(i) \in 0 .. 1
        /\ a(i) = 2 * (i * D) + H * num - u(i)
  <2> SUFFICES ASSUME NEW i \in Nat
               PROVE  /\ i * D \in Nat /\ a(i) \in Nat /\ u(i) \in 0 .. 1
                      /\ a(i) = 2 * (i * D) + H * num - u(i)
    OBVIOUS
  <2>1. i * D \in Nat
    BY <1>1
  <2>2. u(i) \in 0 .. 1
    BY DEF u
  <2>3. a(i) = 2 * (i * D) + H * num - u(i)
    <3>1. 2 * i * D = 2 * (i * D)
      BY <1>1
    <3> QED BY <3>1
  <2> HIDE DEF a
  <2> QED BY <1>4, <2>1, <2>2, <2>3
<1> HIDE DEF a, b
<1>7. \A i \in Nat : q(i) \in Nat /\ b * q(i) <= a(i) /\ a(i) < b * q(i) + b
  BY <1>5, <1>6, Quotient
<1>8. q(0) = 0
  <2>1. a(0) = H * num - u(0) /\ u(0) \in 0 .. 1
    <3>1. 0 * D = 0
      BY <1>1
    <3> QED BY <1>1, <1>4, <1>6, <3>1
  <2>2. b * q(0) < b * 1
    <3>1. b * q(0) <= a(0) /\ b * q(0) \in Int
      BY <1>5, <1>7
    <3> QED BY <1>4, <1>5, <2>1, <3>1
  <2>3. q(0) < 1
    BY <1>5, <1>7, <2>2, ProductsInOrder
  <2> QED BY <1>7, <2>3
<1>9. b * m <= 2 * D
  <2>1. b * m = 2 * (M * num)
    BY <1>1, <1>2, <1>5
  <2>2. M * num \in Nat
    BY <1>1
  <2> QED BY <1>1, <2>1, <2>2
<1>10. ASSUME NEW i \in Nat, NEW j \in Nat, i < j PROVE H * q(j) - H * q(i) >= M
  <2>1. (i + 1) * D <= j * D /\ (i + 1) * D = i * D + D /\ j * D \in Nat
    <3>1. D * (i + 1) <= D * j
      BY <1>1, <1>10, ProductsGrow
    <3> QED BY <1>1, <3>1
  <2>2. b * m \in Nat
    BY <1>2, <1>5
  <2>3. q(j) - q(i) >= m
    <3>1. CASE b * m < 2 * D
      <4>1. a(i) + b * m <= a(j)
        <5>1. PICK x \in Nat, y \in Nat, z \in Nat, w \in Nat :
                 x = i * D /\ y = j * D /\ z = H * num /\ w = b * m
          BY <1>4, <1>6, <2>2
        <5>2. a(i) = 2 * x + z - u(i) /\ a(j) = 2 * y + z - u(j) /\ u(i) \in 0 .. 1 /\ u(j) \in 0 .. 1
          BY <1>6, <5>1
        <5>3. x + D <= y /\ w < 2 * D
          BY <2>1, <3>1, <5>1
        <5>4. a(i) + w <= a(j)
          BY <1>1, <5>2, <5>3
        <5> QED BY <5>1, <5>4
      <4>2. a(i) \in Nat /\ a(j) \in Nat
        BY <1>6
      <4> QED BY <1>2, <1>5, <4>1, <4>2, QuotientsGrow
    <3>2. CASE b * m = 2 * D
      <4>1. ASSUME NEW k \in Nat PROVE q(k) = k * m
        <5>1. 2 * (k * D) = b * (k * m)
          <6>1. 2 * (k * D) = k * (2 * D) /\ k * (b * m) = b * (k * m)
            BY <1>1, <1>2, <1>5
          <6> QED BY <3>2, <6>1
        <5>2. PICK r \in Nat : r = H * num - u(k) /\ r < b
          BY <1>4, <1>5, <1>6
        <5>3. k * m \in Nat /\ a(k) = b * (k * m) + r /\ a(k) \in Nat
          <6>1. PICK x \in Nat : x = 2 * (k * D)
            BY <1>6
          <6>2. a(k) = x + H * num - u(k) /\ H * num \in Nat /\ u(k) \in Int
            BY <1>4, <1>6, <6>1
          <6>3. a(k) = x + r
            BY <5>2, <6>2
          <6> QED BY <1>2, <1>6, <5>1, <6>1, <6>3
        <5> QED BY <1>5, <5>2, <5>3, QuotientOf
      <4>2. m * (i + 1) <= m * j
        BY <1>2, <1>10, ProductsGrow
      <4>3. m * (i + 1) = i * m + m /\ m * j = j * m /\ i * m \in Nat /\ j * m \in Nat
        BY <1>2
      <4>4. q(i) = i * m /\ q(j) = j * m
        BY <4>1
      <4>5. PICK x \in Nat, y \in Nat : x = i * m /\ y = j * m
        BY <4>3
      <4>6. x + m <= y
        BY <4>2, <4>3, <4>5
      <4> HIDE DEF q
      <4> QED BY <1>2, <4>4, <4>5, <4>6
    <3>3. b * m < 2 * D \/ b * m = 2 * D
      <4>1. PICK x \in Nat, y \in Nat : x = b * m /\ y = 2 * D
        BY <1>1, <2>2
      <4>2. x <= y
        BY <1>9, <4>1
      <4> QED BY <4>1, <4>2
    <3> HIDE DEF q
    <3> QED BY <3>1, <3>2, <3>3
  <2> HIDE DEF q
  <2>6. q(i) \in Nat /\ q(j) \in Nat /\ q(i) + m <= q(j)
    BY <1>2, <1>7, <2>3
  <2>7. H * (q(i) + m) <= H * q(j)
    BY <1>1, <1>2, <2>6, ProductsGrow
  <2>8. H * (q(i) + m) = H * q(i) + H * m
    BY <1>1, <1>2, <2>6
  <2>9. H * q(i) \in Nat /\ H * q(j) \in Nat
    BY <1>1, <2>6
  <2> QED BY <1>1, <1>2, <2>7, <2>8, <2>9
<1>11. ASSUME NEW i \in 0 .. num - 1 PROVE D - H * q(i) > M - H
  <2> HIDE DEF q
  <2>1. i \in Nat /\ q(i) \in Nat /\ b * q(i) <= a(i) /\ H * q(i) \in Nat
    BY <1>1, <1>7
  <2>2. D * i <= D * (num - 1)
    BY <1>1, ProductsGrow
  <2>3. D * (num - 1) = D * num - D /\ D * num \in Nat /\ D * i = i * D
    BY <1>1, <2>1
  <2>4. b * q(i) = 2 * (num * (H * q(i)))
    BY <1>1, <1>5, <2>1
  <2>5. num * (H * q(i)) \in Nat
    BY <2>1
  <2>6. 2 * (num * (H * q(i))) <= 2 * (D * num - D) + H * num
    <3>1. PICK x \in Nat, y \in Nat, z \in Nat, w \in Nat :
             x = i * D /\ y = D * num /\ z = H * num /\ w = num * (H * q(i))
      BY <1>4, <1>6, <2>1, <2>3, <2>5
    <3>2. a(i) <= 2 * x + z /\ 2 * w <= a(i) /\ a(i) \in Nat
      BY <1>6, <2>1, <2>4, <3>1
    <3>3. x <= y - D
      BY <2>2, <2>3, <3>1
    <3>4. 2 * w <= 2 * (y - D) + z
      BY <1>1, <3>2, <3>3
    <3> QED BY <3>1, <3>4
  <2>7. M * num \in Nat /\ M * num <= D
    BY <1>1
  <2>8. 2 * (num * (H * q(i))) <= 2 * (D * num) - 2 * (M * num) + H * num
    BY <1>1, <1>4, <2>3, <2>5, <2>6, <2>7
  <2>9. num * (H * q(i)) < D * num - M * num + H * num
    BY <1>4, <2>3, <2>5, <2>7, <2>8
  <2>10. num * (D - M + H) = D * num - M * num + H * num
    BY <1>1
  <2>11. H * q(i) < D - M + H
    <3>1. D - M + H \in Int
      BY <1>1
    <3> QED BY <2>1, <2>9, <2>10, <3>1, ProductsInOrder
  <2> QED BY <1>1, <2>1, <2>11
<1> HIDE DEF q
<1>12. ASSUME NEW i \in Nat PROVE PartStart(i, num) \in Nat /\ PartStart(i, num) = H * q(i)
  BY <1>1, <1>3, <1>7
<1>13. PartStart(0, num) = 0
  BY <1>1, <1>8, <1>12
<1> QED BY <1>10, <1>11, <1>12, <1>13 DEF D, H, M

\* What _analyze_transcript_for_chapters makes of a transcript: chapters from the
\* beginning of the video on, apart from each other and, but for the rounding, from its end.
Divided(found) ==
  /\ found \in Seq(Chapter) /\ Len(found) >= 1 /\ found[1].start = 0
  /\ \A i, j \in 1 .. Len(found) : i < j => found[j].start - found[i].start >= MinLength
  /\ \A i \in 1 .. Len(found) - 1 : found[i + 1].sentence > found[i].sentence \/ found[i + 1].sentence = 0
  /\ recording.duration - found[Len(found)].start > MinLength - Hundredth

\* The rounding does not bring two of its chapters nearer than the minimum, as that has no
\* more digits than what is rounded.
LEMMA TranscriptIsDivided ==
  ASSUME recording.duration \in Nat, recording.sentences \in Int, FromTranscript # <<>>
  PROVE  Divided(FromTranscript)
<1> DEFINE D == recording.duration
           S == recording.sentences
           fitting == D \div MinLength
           num == IF fitting < MaxGenerated THEN fitting ELSE MaxGenerated
           each == IF S \div num > 0 THEN S \div num ELSE 1
           parts == Parts(num)
<1>1. MinLength \in Nat \ {0} /\ D \in Nat /\ MaxGenerated \in Nat \ {0} /\ S \in Int
  BY ChapterAssumption
<1>2. FromTranscript = parts /\ S > 0 /\ fitting >= 2
  <2>1. ~(S <= 0) /\ ~(fitting < 2) /\ FromTranscript = parts
    BY DEF FromTranscript
  <2>2. fitting \in Nat
    BY <1>1, Quotient
  <2> HIDE DEF fitting
  <2> QED BY <1>1, <2>1, <2>2
<1>3. num \in Nat /\ num >= 1 /\ MinLength * num <= D
  <2>1. fitting \in Nat /\ MinLength * fitting <= D
    BY <1>1, Quotient
  <2> HIDE DEF fitting
  <2>2. num \in Nat /\ num >= 1 /\ num <= fitting
    BY <1>1, <1>2, <2>1
  <2> HIDE DEF num
  <2>3. MinLength * num <= MinLength * fitting /\ MinLength * num \in Nat /\ MinLength * fitting \in Nat
    BY <1>1, <2>1, <2>2, ProductsGrow
  <2> QED BY <1>1, <2>1, <2>2, <2>3
<1> HIDE DEF num
<1>4. each \in Nat /\ each >= 1
  <2>1. S \div num \in Nat
    BY <1>1, <1>2, <1>3, Quotient
  <2> QED BY <2>1
<1>5. parts = [i \in 1 .. num |->
       [start |-> PartStart(i - 1, num),
        sentence |-> IF (i - 1) * each < S THEN (i - 1) * each + 1 ELSE 0]]
  BY DEF Parts
<1> HIDE DEF D, S, each, parts
<1>6. /\ \A i \in Nat : PartStart(i, num) \in Nat
      /\ PartStart(0, num) = 0
      /\ \A i, j \in Nat : i < j => PartStart(j, num) - PartStart(i, num) >= MinLength
      /\ \A i \in 0 .. num - 1 : D - PartStart(i, num) > MinLength - Hundredth
  BY <1>1, <1>3, PartsAreApart DEF D
<1>7. parts \in Seq(Chapter) /\ Len(parts) = num
  <2>1. ASSUME NEW i \in 1 .. num PROVE parts[i] \in Chapter
    <3>1. i - 1 \in Nat /\ (i - 1) * each \in Nat
      BY <1>3, <1>4
    <3>2. PICK x \in Nat : x = (i - 1) * each
      BY <3>1
    <3>3. PartStart(i - 1, num) \in Nat
      BY <1>6, <3>1
    <3>4. parts[i] = [start |-> PartStart(i - 1, num), sentence |-> IF x < S THEN x + 1 ELSE 0]
      BY <1>5, <3>2
    <3>5. (IF x < S THEN x + 1 ELSE 0) \in Nat
      BY <3>2
    <3> QED BY <3>3, <3>4, <3>5 DEF Chapter
  <2>2. parts \in [1 .. num -> Chapter]
    BY <1>5, <2>1
  <2> QED BY <1>3, <2>2
<1>8. parts[1].start = 0
  <2>1. 1 \in 1 .. num /\ 1 - 1 = 0
    BY <1>3
  <2>2. parts[1].start = PartStart(1 - 1, num)
    BY <1>5, <2>1
  <2> QED BY <1>6, <2>1, <2>2
<1>9. ASSUME NEW i \in 1 .. num, NEW j \in 1 .. num, i < j
      PROVE  parts[j].start - parts[i].start >= MinLength
  <2>1. i - 1 \in Nat /\ j - 1 \in Nat /\ i - 1 < j - 1
    BY <1>3, <1>9
  <2>2. PartStart(j - 1, num) - PartStart(i - 1, num) >= MinLength
    BY <1>6, <2>1
  <2>3. parts[j].start = PartStart(j - 1, num) /\ parts[i].start = PartStart(i - 1, num)
    BY <1>5
  <2> QED BY <2>2, <2>3
<1>10. ASSUME NEW i \in 1 .. num - 1
       PROVE  parts[i + 1].sentence > parts[i].sentence \/ parts[i + 1].sentence = 0
  <2>1. i \in 1 .. num /\ i + 1 \in 1 .. num /\ i \in Nat /\ i - 1 \in Nat /\ (i + 1) - 1 = i
    BY <1>3
  <2>2. i * each \in Nat /\ (i - 1) * each \in Nat /\ (i - 1) * each = i * each - each
    BY <1>4, <2>1
  <2>3. parts[i + 1].sentence = IF i * each < S THEN i * each + 1 ELSE 0
    BY <1>5, <2>1
  <2>4. parts[i].sentence = IF (i - 1) * each < S THEN (i - 1) * each + 1 ELSE 0
    BY <1>5, <2>1
  <2>5. PICK x \in Nat, y \in Nat : x = i * each /\ y = (i - 1) * each
    BY <2>2
  <2>6. y = x - each
    BY <2>2, <2>5
  <2> QED BY <1>1, <1>4, <2>3, <2>4, <2>5, <2>6
<1>11. D - parts[num].start > MinLength - Hundredth
  <2>1. num \in 1 .. num /\ num - 1 \in 0 .. num - 1
    BY <1>3
  <2>2. parts[num].start = PartStart(num - 1, num)
    BY <1>5, <2>1
  <2> QED BY <1>6, <2>1, <2>2
<1> QED BY <1>2, <1>3, <1>7, <1>8, <1>9, <1>10, <1>11 DEF Divided, D

\* What is read from the file.
LEMMA MarkersAreChapters ==
  ASSUME recording.markers \in Seq(MarkerStarts)
  PROVE  FromMetadata \in Seq(Chapter)
<1> DEFINE markers == recording.markers
           N == Len(markers)
           S == Seq(Chapter)
           nothing == <<>>
           Turn(k, n) == IF markers[n] < 0 THEN k ELSE Append(k, [start |-> markers[n], sentence |-> 0])
           turn == [p \in S \X Nat |-> IF p[2] \in 1 .. N THEN Turn(p[1], p[2]) ELSE p[1]]
           chapters[n \in 0 .. Len(recording.markers)] ==
             IF n = 0 THEN <<>>
             ELSE IF recording.markers[n] < 0 THEN chapters[n - 1]
             ELSE Append(chapters[n - 1], [start |-> recording.markers[n], sentence |-> 0])
<1>1. FromMetadata = chapters[N]
  BY DEF FromMetadata
<1>2. nothing \in S /\ N \in Nat /\ \A n \in 1 .. N : markers[n] \in Int
  <2>1. markers \in Seq(MarkerStarts) /\ MarkerStarts \subseteq Int
    BY ChapterAssumption
  <2>2. N \in Nat /\ \A n \in 1 .. N : markers[n] \in MarkerStarts
    BY <2>1
  <2>3. nothing \in S
    OBVIOUS
  <2> HIDE DEF nothing, S, N, markers
  <2> QED BY <2>1, <2>2, <2>3
<1>3. \A k \in S, n \in 1 .. N : Turn(k, n) \in S
  <2> SUFFICES ASSUME NEW k \in S, NEW n \in 1 .. N PROVE Turn(k, n) \in S
    OBVIOUS
  <2> HIDE DEF markers
  <2>1. CASE markers[n] < 0
    BY <2>1
  <2>2. CASE ~(markers[n] < 0)
    <3>1. [start |-> markers[n], sentence |-> 0] \in Chapter
      BY <1>2, <2>2 DEF Chapter
    <3> QED BY <2>2, <3>1
  <2> QED BY <2>1, <2>2
<1> HIDE DEF markers, S, nothing, N, Turn, chapters
<1>4. turn \in [S \X Nat -> S] /\ \A k \in S, n \in 1 .. N : turn[<<k, n>>] = Turn(k, n)
  BY <1>2, <1>3
<1> HIDE DEF turn
<1>5. PICK f : f \in Runs(S, nothing, turn, N)
  BY <1>2, <1>4, LoopHasValues
<1>6. ASSUME NEW n \in 1 .. N PROVE f[n] = Turn(f[n - 1], n)
  <2>1. f[n - 1] \in S /\ N \in Nat
    BY <1>2, <1>5 DEF Runs
  <2> QED BY <1>4, <1>5, <2>1 DEF Runs
<1>7. f = [n \in 0 .. N |-> IF n = 0 THEN nothing ELSE Turn(f[n - 1], n)]
  BY <1>2, <1>5, <1>6 DEF Runs
<1>8. \E g : g = [n \in 0 .. Len(recording.markers) |->
                IF n = 0 THEN <<>>
                ELSE IF recording.markers[n] < 0 THEN g[n - 1]
                ELSE Append(g[n - 1], [start |-> recording.markers[n], sentence |-> 0])]
  BY <1>7, Zenon DEF N, nothing, Turn, markers
<1>9. chapters = [n \in 0 .. Len(recording.markers) |->
                IF n = 0 THEN <<>>
                ELSE IF recording.markers[n] < 0 THEN chapters[n - 1]
                ELSE Append(chapters[n - 1], [start |-> recording.markers[n], sentence |-> 0])]
  BY <1>8, Zenon DEF chapters
<1>10. chapters = [n \in 0 .. N |-> IF n = 0 THEN nothing ELSE Turn(chapters[n - 1], n)]
  BY <1>9, Zenon DEF N, nothing, Turn, markers
<1> DEFINE good == {n \in Nat : n \in 0 .. N => chapters[n] \in S}
<1>11. 0 \in good
  BY <1>2, <1>10
<1>12. ASSUME NEW n \in 1 .. N, n - 1 \in good PROVE n \in good
  <2>1. chapters[n] = Turn(chapters[n - 1], n)
    BY <1>2, <1>10
  <2> QED BY <1>2, <1>3, <1>12, <2>1
<1>13. 0 .. N \subseteq good
  <2> HIDE DEF good
  <2> QED BY <1>2, <1>11, <1>12, TurnsKeep
<1> QED BY <1>1, <1>2, <1>13 DEF S

\* How many of the chapters that were kept a video may have.
Most(kept) == IF Len(kept) < MaxChapters THEN Len(kept) ELSE MaxChapters

\* What auto_detect_chapters stores is what one pass keeps of what was found.
Filtered ==
  \E kept : KeptOf(InOrder(detection.found), Len(detection.found), kept) /\ detection.kept = SubSeq(kept, 1, Most(kept))

\* Until something is found there is nothing to filter, and what is found does not change.
ChapterInv ==
  /\ recording.duration \in Nat /\ recording.markers \in Seq(MarkerStarts) /\ recording.sentences \in Int
  /\ detection \in [step : {"idle", "refused", "file", "transcript", "found", "nothing", "store"},
                    used : {"none", "metadata", "transcription"}, found : Seq(Chapter), kept : Seq(Chapter)]
  /\ detection.step \in {"found", "store"} <=> detection.found # <<>>
  /\ detection.found # <<>> /\ detection.used = "transcription" => Divided(detection.found)
  /\ detection.step = "store" => Filtered

\* Nothing was found yet.
LEMMA ChapterStarts == ChapterInit => ChapterInv
<1> SUFFICES ASSUME ChapterInit PROVE ChapterInv
  OBVIOUS
<1>1. detection = [step |-> "idle", used |-> "none", found |-> <<>>, kept |-> <<>>]
  BY DEF ChapterInit, Nothing
<1>2. recording.duration \in Nat /\ recording.sentences \in Int
  <2>1. recording.duration \in Durations /\ recording.sentences \in NotCompleted .. MaxSentences
    BY DEF ChapterInit
  <2>2. Durations \subseteq Nat /\ MaxSentences \in Nat
    BY ChapterAssumption
  <2>3. recording.duration \in Nat
    BY <2>1, <2>2
  <2>4. \A a, b \in Int : a .. b \subseteq Int
    OBVIOUS
  <2>5. NotCompleted \in Int /\ MaxSentences \in Int
    BY <2>2 DEF NotCompleted
  <2> QED BY <2>1, <2>3, <2>4, <2>5
<1>3. recording.markers \in Seq(MarkerStarts)
  <2>1. recording.markers \in BoundedSeq(MarkerStarts, MaxMarkers)
    BY DEF ChapterInit
  <2>2. MaxMarkers \in Nat
    BY ChapterAssumption
  <2>3. PICK n \in 0 .. MaxMarkers : recording.markers \in [1 .. n -> MarkerStarts]
    BY <2>1, <2>2 DEF BoundedSeq, SeqOf
  <2> QED BY <2>2, <2>3
<1> QED BY <1>1, <1>2, <1>3 DEF ChapterInv

\* The filter keeps the first chapter in any case.
LEMMA FilterIsRight ==
  ASSUME ChapterInv, FilterChapters
  PROVE  LET kept == FilterByLength(detection.found)
         IN  /\ KeptOf(InOrder(detection.found), Len(detection.found), kept)
             /\ detection' = [detection EXCEPT !.step = "store", !.kept = SubSeq(kept, 1, Most(kept))]
             /\ SubSeq(kept, 1, Most(kept)) \in Seq(Chapter)
<1> DEFINE found == detection.found
           kept == FilterByLength(found)
<1>1. found \in Seq(Chapter) /\ found # <<>> /\ recording.duration \in Nat
  BY DEF ChapterInv, FilterChapters
<1>2. /\ InOrder(found) \in Seq(Chapter) /\ Len(InOrder(found)) = Len(found)
      /\ InTimeOrder(InOrder(found)) /\ InOrder(found) # <<>>
  <2> HIDE DEF found
  <2>1. InOrder(found) \in Seq(Chapter) /\ Len(InOrder(found)) = Len(found) /\ InTimeOrder(InOrder(found))
    BY <1>1, SortedIsSorted
  <2>2. Len(found) # 0
    BY <1>1
  <2> QED BY <2>1, <2>2
<1>3. KeptOf(InOrder(found), Len(found), kept)
  <2> HIDE DEF found
  <2> QED BY <1>1, <1>2, PassKeeps DEF FilterByLength
<1>4. detection' = [detection EXCEPT !.step = IF kept = <<>> THEN "nothing" ELSE "store",
         !.kept = SubSeq(kept, 1, Most(kept))]
  BY DEF FilterChapters, Most
<1>5. kept \in Seq(Chapter) /\ Len(kept) >= 1
  <2> HIDE DEF found, kept
  <2>1. Len(found) \in Nat
    BY <1>1
  <2> QED BY <1>3, <2>1 DEF KeptOf
<1> HIDE DEF found, kept
<1>6. kept # <<>> /\ Most(kept) \in 1 .. Len(kept)
  BY <1>5, ChapterAssumption DEF Most
<1>7. SubSeq(kept, 1, Most(kept)) \in Seq(Chapter)
  BY <1>5, <1>6
<1> QED BY <1>3, <1>4, <1>6, <1>7 DEF found, kept

\* No step of the request breaks it.
LEMMA ChapterStep == ChapterInv /\ [ChapterNext]_chapterVars => ChapterInv'
<1> SUFFICES ASSUME ChapterInv, [ChapterNext]_chapterVars PROVE ChapterInv'
  OBVIOUS
<1>1. CASE UNCHANGED chapterVars
  BY ZenonT(60), <1>1 DEF chapterVars, ChapterInv, Filtered, KeptOf, Divided
<1>2. CASE BeginDetection
  BY <1>2 DEF BeginDetection, Goto, ChapterInv, Divided
<1>3. CASE ProbeFile
  <2>1. FromMetadata \in Seq(Chapter)
    BY MarkersAreChapters DEF ChapterInv
  <2>2. PICK chapters \in {FromMetadata, <<>>} :
       IF chapters # <<>> THEN Found("metadata", chapters)
       ELSE Goto(IF inquiry.source = "both" THEN "transcript" ELSE "nothing")
    BY <1>3 DEF ProbeFile
  <2>3. CASE chapters # <<>>
    BY <1>3, <2>1, <2>2, <2>3 DEF ProbeFile, Found, ChapterInv, Divided
  <2>4. CASE chapters = <<>>
    BY <1>3, <2>2, <2>4 DEF ProbeFile, Goto, ChapterInv, Divided
  <2> QED BY <2>3, <2>4
<1>4. CASE ReadTranscript
  <2>1. CASE FromTranscript # <<>>
    <3>1. Divided(FromTranscript)
      BY <2>1, TranscriptIsDivided DEF ChapterInv
    <3>2. detection' = [detection EXCEPT !.step = "found", !.used = "transcription", !.found = FromTranscript]
      BY <1>4, <2>1 DEF ReadTranscript, Found
    <3>3. FromTranscript \in Seq(Chapter)
      BY <3>1 DEF Divided
    <3> HIDE DEF FromTranscript
    <3>4. /\ detection' \in [step : {"found"}, used : {"transcription"}, found : Seq(Chapter), kept : Seq(Chapter)]
          /\ detection'.found = FromTranscript
      BY <3>2, <3>3 DEF ChapterInv
    <3>5. UNCHANGED recording
      BY <1>4 DEF ReadTranscript
    <3>6. Divided(detection.found)'
      BY <3>1, <3>4, <3>5 DEF Divided
    <3> QED BY <2>1, <3>4, <3>5, <3>6 DEF ChapterInv
  <2>2. CASE FromTranscript = <<>>
    BY <1>4, <2>2 DEF ReadTranscript, Goto, ChapterInv, Divided
  <2> QED BY <2>1, <2>2
<1>5. CASE DetectionTimesOut
  BY <1>5 DEF DetectionTimesOut, Goto, ChapterInv, Divided
<1>6. CASE FilterChapters
  <2> DEFINE kept == FilterByLength(detection.found)
  <2>1. /\ KeptOf(InOrder(detection.found), Len(detection.found), kept)
        /\ detection' = [detection EXCEPT !.step = "store", !.kept = SubSeq(kept, 1, Most(kept))]
        /\ SubSeq(kept, 1, Most(kept)) \in Seq(Chapter)
    BY <1>6, FilterIsRight
  <2> HIDE DEF kept
  <2>2. recording' = recording
    BY <1>6 DEF FilterChapters
  <2>3. detection.step = "found"
    BY <1>6 DEF FilterChapters
  <2>4. detection'.found = detection.found /\ detection'.kept = SubSeq(kept, 1, Most(kept)) /\ detection'.step = "store"
    BY <2>1 DEF ChapterInv
  <2>5. Filtered'
    <3>1. PICK k : k = kept
      OBVIOUS
    <3>2. \A c, n : KeptOf(c, n, k)' <=> KeptOf(c, n, k)
      BY ZenonT(60), <2>2 DEF KeptOf, Apart
    <3>3. PICK f : f = detection.found /\ f = detection'.found
      BY <2>4
    <3>4. KeptOf(InOrder(f), Len(f), k)
      BY <2>1, <3>1, <3>3
    <3>5. PICK c, n : c = InOrder(f) /\ n = Len(f)
      OBVIOUS
    <3>6. KeptOf(c, n, k)'
      BY <3>2, <3>4, <3>5
    <3>7. c = InOrder(detection.found)' /\ n = Len(detection.found)'
      BY <3>3, <3>5
    <3>8. KeptOf(InOrder(detection.found), Len(detection.found), k)'
      BY Zenon, <3>6, <3>7 DEF KeptOf, Apart
    <3> QED BY <2>4, <3>1, <3>8 DEF Filtered
  <2> QED BY <2>1, <2>2, <2>3, <2>4, <2>5 DEF ChapterInv, Divided
<1> QED BY <1>1, <1>2, <1>3, <1>4, <1>5, <1>6 DEF ChapterNext

\* What is kept of a divided transcript.
LEMMA DividedIsKept ==
  ASSUME ChapterInv, detection.step = "store", detection.used = "transcription"
  PROVE  TranscriptDividesVideo
<1> DEFINE all == detection.found
           N == Len(all)
           D == recording.duration
           sorted == InOrder(all)
<1>1. /\ Divided(all) /\ Filtered /\ all # <<>> /\ D \in Nat
  BY DEF ChapterInv
<1>2. PICK kept : KeptOf(sorted, N, kept) /\ detection.kept = SubSeq(kept, 1, Most(kept))
  BY <1>1 DEF Filtered
<1>3. /\ MinLength \in Nat /\ MinLength > 0 /\ Hundredth \in Nat /\ MinLength >= Hundredth
      /\ MaxChapters \in Nat \ {0}
  <2>1. /\ MinLength \in Nat \ {0} /\ Hundredth \in Nat \ {0} /\ MinLength % Hundredth = 0
        /\ MaxChapters \in Nat \ {0}
    BY ChapterAssumption
  <2>2. MinLength = Hundredth * (MinLength \div Hundredth) + (MinLength % Hundredth)
        /\ MinLength \div Hundredth \in Nat
    BY <2>1, QuotientAndRest
  <2>3. PICK q \in Nat : MinLength = Hundredth * q
    <3>1. MinLength = Hundredth * (MinLength \div Hundredth)
      BY <2>1, <2>2
    <3>2. \A q \in Nat : MinLength = Hundredth * q => \E r \in Nat : MinLength = Hundredth * r
      OBVIOUS
    <3> QED BY <2>2, <3>1, <3>2
  <2>4. q >= 1
    BY <2>1, <2>3
  <2>5. Hundredth * 1 <= Hundredth * q
    BY <2>1, <2>4, ProductsGrow
  <2> QED BY <2>1, <2>3, <2>5
<1>4. /\ all \in Seq(Chapter) /\ N \in Nat /\ N >= 1 /\ all[1].start = 0 /\ DOMAIN all = 1 .. N
      /\ \A i, j \in 1 .. N : i < j => all[j].start - all[i].start >= MinLength
      /\ \A i \in 1 .. N - 1 : all[i + 1].sentence > all[i].sentence \/ all[i + 1].sentence = 0
      /\ D - all[N].start > MinLength - Hundredth
  BY <1>1 DEF Divided
<1>5. \A i \in 1 .. N : all[i].start \in Nat
  <2>1. \A i \in 1 .. N : all[i] \in Chapter
    BY <1>4
  <2> QED BY <2>1 DEF Chapter
<1>6. sorted \in Seq(Chapter) /\ Len(sorted) = N /\ InTimeOrder(sorted) /\ Starts(sorted) = Starts(all)
  <2> HIDE DEF all
  <2> QED BY <1>4, SortedIsSorted
<1> HIDE DEF sorted
<1>7. /\ \A s \in Starts(sorted) : s \in Nat /\ sorted[1].start <= s
      /\ sorted[1].start \in Starts(sorted)
      /\ Starts(kept) \subseteq Starts(sorted) /\ kept[1].start \in Starts(kept)
  <2>1. sorted # <<>>
    BY <1>4, <1>6
  <2> HIDE DEF N, all
  <2> QED BY <1>1, <1>2, <1>6, <2>1, KeptIsMost DEF D
<1>8. Starts(all) = {all[i].start : i \in 1 .. N}
  BY <1>4 DEF Starts
<1>9. kept \in Seq(Chapter) /\ Len(kept) \in 1 .. N /\ DOMAIN kept = 1 .. Len(kept) /\ kept[1] = sorted[1]
  BY <1>2 DEF KeptOf
<1>10. Starts(kept) = {kept[i].start : i \in 1 .. Len(kept)}
  BY <1>9 DEF Starts
<1>11. Starts(sorted) = {sorted[i].start : i \in 1 .. N}
  BY <1>6 DEF Starts
<1>12. /\ \A i, j \in 1 .. Len(kept) : i < j => Apart(kept[i].start, kept[j].start)
       /\ \A j \in 1 .. N : Apart(sorted[j].start, D) =>
            \E i \in 1 .. Len(kept) : kept[i].start <= sorted[j].start /\ ~Apart(kept[i].start, sorted[j].start)
  BY <1>2 DEF KeptOf
<1> HIDE DEF all, N, D
<1>13. 0 \in Starts(all) /\ sorted[1].start = 0 /\ kept[1].start = 0
  <2>1. 0 \in Starts(all)
    BY <1>4, <1>8
  <2> QED BY <1>6, <1>7, <1>9, <2>1
\* A chapter that the filter does not keep though it is far enough from the end.
<1>14. ASSUME NEW i \in 1 .. N, Apart(all[i].start, D), all[i].start \notin Starts(kept)
       PROVE  i > 1 /\ all[i - 1].start \in Starts(kept) /\ <<all[i - 1].start, all[i].start>> \in Short
  <2> DEFINE s == all[i].start
  <2>1. s \in Starts(all) /\ s \in Nat
    BY <1>5, <1>8
  <2>2. PICK j \in 1 .. N : sorted[j].start = s
    BY <1>6, <1>11, <2>1
  <2>3. PICK k \in 1 .. Len(kept) : kept[k].start <= s /\ ~Apart(kept[k].start, s)
    BY <1>12, <1>14, <2>2
  <2>4. kept[k].start \in Starts(kept) /\ kept[k].start \in Starts(all)
    BY <1>6, <1>7, <1>10
  <2>5. PICK l \in 1 .. N : all[l].start = kept[k].start
    BY <1>8, <2>4
  <2>6. all[l].start \in Nat /\ all[l].start \in Starts(kept) /\ ~Apart(all[l].start, s) /\ all[l].start <= s
    BY <1>5, <2>3, <2>4, <2>5
  <2>7. all[l].start # s /\ l # i
    BY <1>14, <2>6
  <2>8. ~(i < l)
    <3> SUFFICES ASSUME i < l PROVE FALSE
      OBVIOUS
    <3>1. all[l].start - s >= MinLength
      BY <1>4 DEF s
    <3> QED BY <1>3, <2>1, <2>6, <3>1
  <2>9. i \in Nat /\ l \in Nat /\ l < i /\ i > 1
    BY <1>4, <2>7, <2>8
  <2>10. s - all[l].start >= MinLength
    BY <1>4, <2>9
  <2>11. s - all[l].start = MinLength /\ <<all[l].start, s>> \in Short
    <3>1. PICK x \in Nat : x = all[l].start
      BY <2>6
    <3>2. s - x < MinLength \/ (s - x = MinLength /\ <<x, s>> \in Short)
      BY <2>1, <2>6, <3>1, ApartMeans
    <3> QED BY <1>3, <2>1, <2>10, <3>1, <3>2
  <2>12. l = i - 1
    <3> SUFFICES ASSUME l < i - 1 PROVE FALSE
      BY <2>9
    <3>1. i - 1 \in 1 .. N /\ i - 1 < i
      BY <1>4, <2>9
    <3>2. all[i - 1].start - all[l].start >= MinLength /\ s - all[i - 1].start >= MinLength
          /\ all[i - 1].start \in Nat
      BY <1>4, <1>5, <3>1
    <3>3. PICK x \in Nat, y \in Nat, z \in Nat : x = all[l].start /\ y = all[i - 1].start /\ z = s
      BY <2>1, <2>6, <3>2
    <3>4. y - x >= MinLength /\ z - y >= MinLength /\ z - x = MinLength
      BY <2>11, <3>2, <3>3
    <3> QED BY <1>3, <3>4
  <2> QED BY <2>6, <2>9, <2>11, <2>12
<1> DEFINE last == all[N].start
<1>15. last \in Nat /\ D \in Nat /\ D - last > MinLength - Hundredth
  BY <1>1, <1>4, <1>5 DEF D
\* All but the last one are far enough from the end.
<1>16. ASSUME NEW i \in 1 .. N, i # N PROVE Apart(all[i].start, D)
  <2>1. last - all[i].start >= MinLength /\ all[i].start \in Nat
    BY <1>4, <1>5, <1>16
  <2> HIDE DEF last
  <2>2. D - all[i].start > MinLength
    BY <1>3, <1>15, <2>1
  <2> QED BY <1>15, <2>1, <2>2, ApartMeans
<1>17. ASSUME ~Apart(last, D)
       PROVE  \/ MinLength - Hundredth < D - last /\ D - last < MinLength
              \/ <<last, D>> \in Short
  <2> HIDE DEF last
  <2> QED BY <1>3, <1>15, <1>17, ApartMeans
<1> HIDE DEF last
\* What the limit of a video cuts off.
<1>18. /\ Starts(detection.kept) \subseteq Starts(kept)
       /\ \A s \in Starts(kept) \ Starts(detection.kept) :
            Len(detection.kept) = MaxChapters /\ s > Last(detection.kept).start
  <2> DEFINE end == Most(kept)
  <2>1. end \in 1 .. Len(kept) /\ (end = Len(kept) \/ end = MaxChapters) /\ Len(kept) \in Nat
    BY <1>3, <1>9 DEF Most
  <2> HIDE DEF end
  <2>2. Len(detection.kept) = end /\ DOMAIN detection.kept = 1 .. end /\ \A i \in 1 .. end : detection.kept[i] = kept[i]
    BY <1>2, <1>9, <2>1 DEF end
  <2>3. Starts(detection.kept) = {kept[i].start : i \in 1 .. end}
    BY <2>2 DEF Starts
  <2>4. ASSUME NEW s \in Starts(kept) \ Starts(detection.kept)
        PROVE  Len(detection.kept) = MaxChapters /\ s > Last(detection.kept).start
    <3>1. PICK i \in 1 .. Len(kept) : kept[i].start = s
      BY <1>10
    <3>2. i \notin 1 .. end
      BY <2>3, <2>4, <3>1
    <3>3. end < i /\ end = MaxChapters /\ end \in 1 .. Len(kept)
      BY <2>1, <3>2
    <3>4. Last(detection.kept).start = kept[end].start
      BY <2>1, <2>2 DEF Last
    <3>5. kept[end].start \in Nat /\ kept[i].start \in Nat
      BY <1>7, <1>10, <3>3
    <3>6. kept[i].start - kept[end].start >= MinLength
      BY <1>12, <3>3, <3>5, ApartMeans
    <3> QED BY <1>3, <2>2, <3>1, <3>3, <3>4, <3>5, <3>6
  <2>5. Starts(detection.kept) \subseteq Starts(kept)
    BY <1>10, <2>1, <2>3
  <2> QED BY <2>4, <2>5
<1>19. ASSUME NEW i \in 1 .. N, all[i].start \notin Starts(detection.kept)
       PROVE  \/ Len(detection.kept) = MaxChapters /\ all[i].start > Last(detection.kept).start
              \/ i > 1 /\ all[i - 1].start \in Starts(detection.kept) /\ <<all[i - 1].start, all[i].start>> \in Short
              \/ /\ i = N
                 /\ \/ MinLength - Hundredth < D - all[i].start /\ D - all[i].start < MinLength
                    \/ <<all[i].start, D>> \in Short
  <2>1. CASE all[i].start \in Starts(kept)
    BY <1>18, <1>19, <2>1
  <2>2. CASE all[i].start \notin Starts(kept) /\ Apart(all[i].start, D)
    <3>1. i > 1 /\ all[i - 1].start \in Starts(kept) /\ <<all[i - 1].start, all[i].start>> \in Short
      BY <1>14, <2>2
    <3>2. CASE all[i - 1].start \notin Starts(detection.kept)
      <4>1. Len(detection.kept) = MaxChapters /\ all[i - 1].start > Last(detection.kept).start
        BY <1>18, <3>1, <3>2
      <4>2. i \in Nat /\ i - 1 \in 1 .. N /\ i - 1 < i
        BY <1>4, <3>1
      <4>3. all[i].start - all[i - 1].start >= MinLength /\ all[i].start \in Nat /\ all[i - 1].start \in Nat
        BY <1>4, <1>5, <4>2
      <4>4. Last(detection.kept).start \in Nat
        <5>1. detection.kept \in Seq(Chapter) /\ Len(detection.kept) >= 1
          <6>1. detection.kept \in Seq(Chapter)
            BY DEF ChapterInv
          <6> QED BY <1>3, <4>1, <6>1
        <5>2. detection.kept[Len(detection.kept)] \in Chapter
          BY <5>1
        <5> QED BY <5>2 DEF Last, Chapter
      <4> QED BY <1>3, <4>1, <4>3, <4>4
    <3> QED BY <3>1, <3>2
  <2>3. CASE ~Apart(all[i].start, D)
    <3>1. i = N
      BY <1>16, <2>3
    <3> QED BY <1>17, <2>3, <3>1 DEF last
  <2> QED BY <2>1, <2>2, <2>3
<1>20. \A i \in 1 .. N - 1 :
         /\ all[i + 1].start - all[i].start >= MinLength
         /\ all[i + 1].sentence > all[i].sentence \/ all[i + 1].sentence = 0
  <2> SUFFICES ASSUME NEW i \in 1 .. N - 1 PROVE all[i + 1].start - all[i].start >= MinLength
    BY <1>4
  <2>1. i \in 1 .. N /\ i + 1 \in 1 .. N /\ i < i + 1
    BY <1>4
  <2> QED BY <1>4, <2>1
<1>21. all[1].start = 0 /\ Starts(detection.kept) \subseteq Starts(all)
  BY <1>4, <1>6, <1>7, <1>18
<1> DEFINE missing == {i \in 1 .. N : all[i].start \notin Starts(detection.kept)}
<1>22. \A i \in missing :
              \/ Len(detection.kept) = MaxChapters /\ all[i].start > Last(detection.kept).start
              \/ i > 1 /\ all[i - 1].start \in Starts(detection.kept) /\ <<all[i - 1].start, all[i].start>> \in Short
              \/ /\ i = N
                 /\ \/ MinLength - Hundredth < D - all[i].start /\ D - all[i].start < MinLength
                    \/ <<all[i].start, D>> \in Short
  BY <1>19
<1> QED BY <1>4, <1>20, <1>21, <1>22 DEF TranscriptDividesVideo, all, N, D

\* What is kept of markers in any order.
LEMMA MostIsKept ==
  ASSUME ChapterInv
  PROVE  FilterKeepsMost
<1>1. detection.step = "nothing" => detection.found = <<>>
  BY DEF ChapterInv
<1> SUFFICES ASSUME detection.step = "store" PROVE FilterKeepsMost
  BY <1>1 DEF FilterKeepsMost
<1> DEFINE found == detection.found
           N == Len(found)
           sorted == InOrder(found)
           starts == Starts(found)
           first == CHOOSE s \in starts : \A t \in starts : s <= t
           choices == {c \in SUBSET starts : first \in c /\ Allowed(c)}
           most == CHOOSE n \in 0 .. Cardinality(starts) :
                  /\ \E c \in choices : Cardinality(c) = n
                  /\ \A c \in choices : Cardinality(c) <= n
           end == IF most < MaxChapters THEN most ELSE MaxChapters
<1>2. found \in Seq(Chapter) /\ found # <<>> /\ Filtered /\ recording.duration \in Nat
  BY DEF ChapterInv
<1>3. PICK kept : KeptOf(sorted, N, kept) /\ detection.kept = SubSeq(kept, 1, Most(kept))
  BY <1>2 DEF Filtered
<1>4. sorted \in Seq(Chapter) /\ Len(sorted) = N /\ InTimeOrder(sorted) /\ Starts(sorted) = starts /\ sorted # <<>>
  <2> HIDE DEF found
  <2>1. sorted \in Seq(Chapter) /\ Len(sorted) = N /\ InTimeOrder(sorted) /\ Starts(sorted) = starts
    BY <1>2, SortedIsSorted
  <2>2. N # 0
    BY <1>2
  <2> QED BY <2>1, <2>2
<1> HIDE DEF sorted
<1>5. /\ \A s \in starts : s \in Nat /\ sorted[1].start <= s
      /\ sorted[1].start \in starts
      /\ Starts(kept) \subseteq starts /\ kept[1].start \in Starts(kept)
      /\ Allowed(Starts(kept)) /\ IsFiniteSet(Starts(kept)) /\ Cardinality(Starts(kept)) = Len(kept)
      /\ \A c \in SUBSET starts :
           sorted[1].start \in c /\ Allowed(c) => IsFiniteSet(c) /\ Cardinality(c) <= Len(kept)
  <2> HIDE DEF found, N
  <2> QED BY <1>2, <1>3, <1>4, KeptIsMost
<1>6. /\ kept \in Seq(Chapter) /\ Len(kept) \in 1 .. N /\ kept[1] = sorted[1]
      /\ N \in Nat /\ DOMAIN found = 1 .. N
      /\ \A i, j \in 1 .. Len(kept) : i < j => Apart(kept[i].start, kept[j].start)
  <2>1. N \in Nat /\ DOMAIN found = 1 .. N
    BY <1>2
  <2> HIDE DEF N, found
  <2> QED BY <1>3, <2>1 DEF KeptOf
<1>7. MinLength \in Nat /\ MinLength > 0 /\ MaxChapters \in Nat \ {0}
  BY ChapterAssumption
<1> HIDE DEF starts
<1>8. first = sorted[1].start
  <2>1. \A t \in starts : sorted[1].start <= t
    BY <1>5
  <2>2. first \in starts /\ \A t \in starts : first <= t
    BY <1>5, <2>1
  <2> HIDE DEF first
  <2>3. first <= sorted[1].start /\ sorted[1].start <= first /\ first \in Nat /\ sorted[1].start \in Nat
    BY <1>5, <2>2
  <2> QED BY <2>3
<1> HIDE DEF first
<1>9. Starts(kept) \in choices
  BY <1>5, <1>6, <1>8
<1>10. \A c \in choices : Cardinality(c) <= Len(kept)
  BY <1>5, <1>8
<1>11. IsFiniteSet(starts)
  <2> DEFINE start == [i \in 1 .. N |-> found[i].start]
  <2>1. start \in Surjection(1 .. N, starts)
    <3>1. starts = {found[i].start : i \in 1 .. N}
      BY <1>6 DEF starts, Starts
    <3> HIDE DEF N, found
    <3> QED BY <3>1 DEF Surjection
  <2>2. IsFiniteSet(1 .. N)
    <3> HIDE DEF N, found
    <3> QED BY <1>6, FS_Interval
  <2> HIDE DEF start
  <2> QED BY <2>1, <2>2, FS_Surjection
<1> HIDE DEF choices
<1>12. most = Len(kept)
  <2>1. Len(kept) \in Nat
    BY <1>6
  <2>2. Cardinality(starts) \in Nat /\ Len(kept) <= Cardinality(starts)
    <3>1. Starts(kept) \in SUBSET starts
      BY <1>5
    <3> QED BY <1>5, <1>11, <3>1, FS_Subset, FS_CardinalityType
  <2>3. Len(kept) \in 0 .. Cardinality(starts)
    BY <2>1, <2>2
  <2>4. (\E c \in choices : Cardinality(c) = Len(kept)) /\ \A c \in choices : Cardinality(c) <= Len(kept)
    BY <1>5, <1>9, <1>10
  <2>5. /\ most \in 0 .. Cardinality(starts)
        /\ \E c \in choices : Cardinality(c) = most
        /\ \A c \in choices : Cardinality(c) <= most
    BY <2>3, <2>4
  <2> HIDE DEF most
  <2>6. most <= Len(kept) /\ Len(kept) <= most /\ most \in Int
    BY <2>2, <2>4, <2>5
  <2> QED BY <2>1, <2>6
<1> HIDE DEF most
<1>13. /\ Len(detection.kept) = end /\ end = Most(kept) /\ end \in 1 .. Len(kept)
       /\ \A i \in 1 .. end : detection.kept[i] = kept[i]
  <2>1. end = Most(kept) /\ end \in 1 .. Len(kept)
    BY <1>6, <1>7, <1>12 DEF Most
  <2>2. detection.kept = SubSeq(kept, 1, end)
    BY <1>3, <2>1
  <2> HIDE DEF end
  <2>3. Len(detection.kept) = end /\ \A i \in 1 .. end : detection.kept[i] = kept[i]
    BY <1>6, <2>1, <2>2
  <2> QED BY <2>1, <2>3
<1> HIDE DEF end
<1>14. \A i \in 1 .. Len(kept) : kept[i].start \in Nat
  <2>1. \A i \in 1 .. Len(kept) : kept[i] \in Chapter
    BY <1>6
  <2> QED BY <2>1 DEF Chapter
<1>15. \A i \in 1 .. end - 1 : detection.kept[i].start < detection.kept[i + 1].start
  <2> SUFFICES ASSUME NEW i \in 1 .. end - 1 PROVE detection.kept[i].start < detection.kept[i + 1].start
    OBVIOUS
  <2>1. i \in 1 .. end /\ i + 1 \in 1 .. end /\ i \in 1 .. Len(kept) /\ i + 1 \in 1 .. Len(kept) /\ i < i + 1
    BY <1>6, <1>13
  <2>2. kept[i + 1].start - kept[i].start >= MinLength /\ kept[i + 1].start \in Nat /\ kept[i].start \in Nat
    BY <1>6, <1>14, <2>1, ApartMeans
  <2>3. kept[i].start < kept[i + 1].start
    BY <1>7, <2>2
  <2> QED BY <1>13, <2>1, <2>3
<1>16. Allowed(Starts(detection.kept)) /\ detection.kept[1].start = first
  <2>1. DOMAIN detection.kept = 1 .. end
    <3>1. detection.kept \in Seq(Chapter)
      BY DEF ChapterInv
    <3> QED BY <1>13, <3>1
  <2>2. Starts(detection.kept) \subseteq Starts(kept)
    <3>1. DOMAIN kept = 1 .. Len(kept)
      BY <1>6
    <3>2. \A i \in 1 .. end : detection.kept[i].start = kept[i].start /\ i \in DOMAIN kept
      BY <1>6, <1>13, <3>1
    <3> QED BY <2>1, <3>2 DEF Starts
  <2>3. Allowed(Starts(detection.kept))
    BY <1>5, <2>2 DEF Allowed
  <2> QED BY <1>6, <1>8, <1>13, <2>3
<1>17. /\ Len(detection.kept) = end
       /\ \A i \in 1 .. Len(detection.kept) - 1 : detection.kept[i].start < detection.kept[i + 1].start
       /\ Allowed(Starts(detection.kept)) /\ detection.kept[1].start = first
  BY <1>13, <1>15, <1>16
<1> QED BY <1>1, <1>17 DEF FilterKeepsMost, end, most, choices, first, starts, found

\* Neither step of the request breaks the invariant, whatever was asked for.
LEMMA ChaptersAlways == ChapterSpec => []ChapterInv
  BY ChapterStarts, ChapterStep, PTL DEF ChapterSpec

\* What is made of a transcript divides the video, and of it is only lost, up to the limit
\* of a video, what is found too near to the chapter before or to the end, by the way the
\* code computes; whichever ties are rounded down and whichever differences come out short.
THEOREM ChaptersAreRight == ChapterSpec => []TranscriptDividesVideo
<1>1. ChapterInv => TranscriptDividesVideo
  <2> SUFFICES ASSUME ChapterInv PROVE TranscriptDividesVideo
    OBVIOUS
  <2>1. CASE detection.step = "store" /\ detection.used = "transcription"
    BY <2>1, DividedIsKept
  <2>2. CASE ~(detection.step = "store" /\ detection.used = "transcription")
    BY <2>2 DEF TranscriptDividesVideo
  <2> QED BY <2>1, <2>2
<1> QED BY <1>1, ChaptersAlways, PTL

\* filter_chapters_by_length keeps as many chapters as it can, in one pass.
THEOREM FilterIsBest == ChapterSpec => []FilterKeepsMost
<1>1. ChapterInv => FilterKeepsMost
  BY MostIsKept
<1> QED BY <1>1, ChaptersAlways, PTL
=============================================================================

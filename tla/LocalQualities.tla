--------------------------- MODULE LocalQualities ---------------------------
(***************************************************************************)
(* The qualities of one video in worker/transcoder.py: which of them a new *)
(* attempt takes over from the ones before it, through the rows of         *)
(* quality_progress, the playlists it finds and the clean-up between.      *)
(***************************************************************************)
EXTENDS Naturals, Sequences, FiniteSets

CONSTANTS Renditions,        \* the qualities to encode, highest first
          HighRes,           \* those of 1080 lines and more
          ParallelEncodes,   \* get_recommended_parallel_sessions
          RenditionAttempts, \* max_attempts of the job
          MaxStops           \* bound: shutdowns and crashes

ASSUME LocalQualitiesAssumption ==
  /\ ParallelEncodes \in Nat \ {0} /\ RenditionAttempts \in Nat \ {0} /\ MaxStops \in Nat

VARIABLES rendition,   \* the files of each quality
          rowOf,       \* quality_progress.status of each quality
          listed,      \* the qualities in master.m3u8
          encoder,     \* the worker: its step, its batch, and the qualities left to take up,
                       \* running, ended and successful
          attempts,
          stopAsked,   \* WorkerState.shutdown_requested
          stops,
          config,      \* KEEP_COMPLETED_QUALITIES and the streaming format
          cutShort     \* history: an encoder that was told to end wrote an end marker

qualityVars == <<rendition, rowOf, listed, encoder, attempts, stopAsked, stops, config, cutShort>>

Source == "original"
Targets == {Renditions[i] : i \in 1 .. Len(Renditions)}
Tracked == {Source} \cup Targets
EncoderAt(step) == [step |-> step, batch |-> 0, left |-> {}, running |-> {}, ended |-> {}, good |-> {}]

QualityInit ==
  /\ rendition = [q \in Tracked |-> "none"] /\ rowOf = [q \in Tracked |-> "none"]
  /\ listed = {} /\ encoder = EncoderAt("waiting") /\ attempts = 1
  /\ stopAsked = FALSE /\ stops = 0 /\ cutShort = FALSE
  /\ config \in [keeps : BOOLEAN, cmaf : BOOLEAN]

-----------------------------------------------------------------------------
(* group_qualities_by_resolution: high and low resolutions by turns. *)

Highs == SelectSeq(Renditions, LAMBDA q : q \in HighRes)
Lows == SelectSeq(Renditions, LAMBDA q : q \notin HighRes)

\* How many of each the batches take that have been made when n qualities were taken.
TakenHigh[n \in Nat] ==
  IF n = 0 THEN 0
  ELSE LET hi == TakenHigh[n - 1]
           inBatch == (n - 1) % ParallelEncodes
       IN IF hi < Len(Highs) /\ (n - 1 - hi >= Len(Lows) \/ inBatch % 2 = 0) THEN hi + 1 ELSE hi

Taken(n) == {Highs[i] : i \in 1 .. TakenHigh[n]} \cup {Lows[i] : i \in 1 .. n - TakenHigh[n]}
LastBatch == (Len(Renditions) + ParallelEncodes - 1) \div ParallelEncodes
Smaller(m, n) == IF m <= n THEN m ELSE n
\* Batch 0 is the remux of the source.
Batch(i) ==
  IF i = 0 THEN {Source}
  ELSE IF ParallelEncodes = 1 THEN {Renditions[i]}
  ELSE Taken(Smaller(i * ParallelEncodes, Len(Renditions))) \ Taken((i - 1) * ParallelEncodes)

-----------------------------------------------------------------------------
(* One attempt. *)

Same == UNCHANGED <<attempts, stopAsked, stops, config>>
SetRow(q, status) == rowOf' = [rowOf EXCEPT ![q] = status]
Running == encoder.step = "qualities"
Succeeds(q) == encoder' = [encoder EXCEPT !.left = @ \ {q}, !.ended = @ \ {q}, !.good = @ \cup {q}]
FailsIn(q) == encoder' = [encoder EXCEPT !.left = @ \ {q}, !.running = @ \ {q}]

\* After the probe and the thumbnail: rows are made for the qualities that have none.
BeginAttempt ==
  /\ encoder.step = "waiting"
  /\ rowOf' = [q \in Tracked |-> IF rowOf[q] = "none" THEN "pending" ELSE rowOf[q]]
  /\ encoder' = [EncoderAt("qualities") EXCEPT !.left = Batch(0)]
  /\ Same /\ UNCHANGED <<rendition, listed, cutShort>>

\* The row is believed without a look at the files.
SkipCompleted(q) ==
  /\ Running /\ q \in encoder.left /\ rowOf[q] = "completed"
  /\ Succeeds(q)
  /\ Same /\ UNCHANGED <<rendition, rowOf, listed, cutShort>>

\* Mutant: the end marker is not asked for.
PlaylistExists(q) == rendition[q] # "none"

\* is_hls_playlist_complete: it has an end marker, and the segments that it names.
PlaylistComplete(q) == rendition[q] \in {"cut", "whole"}

AdoptPlaylist(q) ==
  /\ Running /\ q \in encoder.left /\ rowOf[q] # "completed" /\ PlaylistComplete(q)
  /\ SetRow(q, "completed") /\ Succeeds(q)
  /\ Same /\ UNCHANGED <<rendition, listed, cutShort>>

StartEncode(q) ==
  /\ Running /\ q \in encoder.left /\ rowOf[q] # "completed" /\ ~PlaylistComplete(q)
  /\ SetRow(q, "in_progress")
  /\ rendition' = [rendition EXCEPT ![q] = "part"]
  /\ encoder' = [encoder EXCEPT !.left = @ \ {q}, !.running = @ \cup {q}]
  /\ Same /\ UNCHANGED <<listed, cutShort>>

\* A signal that came between the check before the batch and this one's.
RefuseForShutdown(q) ==
  /\ Running /\ q \in encoder.left \ {Source} /\ stopAsked
  /\ FailsIn(q)
  /\ Same /\ UNCHANGED <<rendition, rowOf, listed, cutShort>>

EncodeEnds(q) ==
  /\ Running /\ q \in encoder.running
  /\ rendition' = [rendition EXCEPT ![q] = "whole"]
  /\ encoder' = [encoder EXCEPT !.running = @ \ {q}, !.ended = @ \cup {q}]
  /\ Same /\ UNCHANGED <<rowOf, listed, cutShort>>

\* Before this statement a crash leaves whole files and a row in progress.
MarkQualityCompleted(q) ==
  /\ Running /\ q \in encoder.ended
  /\ SetRow(q, "completed") /\ Succeeds(q)
  /\ Same /\ UNCHANGED <<rendition, listed, cutShort>>

\* ffmpeg fails, exceeds its time and is killed, or ends at a signal that stops the whole
\* service, and then closes its playlist.
EncodeFailsIn(q) ==
  /\ Running /\ q \in encoder.running
  /\ SetRow(q, "failed") /\ FailsIn(q)
  /\ \/ UNCHANGED <<rendition, cutShort>>
     \/ stopAsked /\ cutShort' = TRUE /\ rendition' = [rendition EXCEPT ![q] = "cut"]
  /\ Same /\ UNCHANGED listed

BatchOver == Running /\ encoder.left = {} /\ encoder.running = {} /\ encoder.ended = {}

NextBatch ==
  /\ BatchOver /\ encoder.batch < LastBatch /\ ~stopAsked
  /\ encoder' = [encoder EXCEPT !.batch = @ + 1, !.left = Batch(encoder.batch + 1)]
  /\ Same /\ UNCHANGED <<rendition, rowOf, listed, cutShort>>

\* The video goes back to pending and the process ends; its successor takes it up
\* without recovery, as the same attempt.
StopBetweenBatches ==
  /\ BatchOver /\ encoder.batch < LastBatch /\ stopAsked
  /\ encoder' = EncoderAt("waiting") /\ stopAsked' = FALSE
  /\ UNCHANGED <<rendition, rowOf, listed, attempts, stops, config, cutShort>>

\* Each quality has succeeded or failed by now, so that step 3c finds nothing to verify.
WriteMaster ==
  /\ BatchOver /\ encoder.batch = LastBatch /\ encoder.good # {}
  /\ listed' = encoder.good
  /\ encoder' = [encoder EXCEPT !.step = "finalize"]
  /\ Same /\ UNCHANGED <<rendition, rowOf, cutShort>>

ShowVideo ==
  /\ encoder.step = "finalize"
  /\ encoder' = [encoder EXCEPT !.step = "ready"]
  /\ Same /\ UNCHANGED <<rendition, rowOf, listed, cutShort>>

\* No quality succeeded, or a manifest or a statement fails.
AttemptFails ==
  /\ \/ BatchOver /\ encoder.batch = LastBatch /\ encoder.good = {}
     \/ encoder.step = "finalize"
  /\ encoder' = EncoderAt("failed")
  /\ Same /\ UNCHANGED <<rendition, rowOf, listed, cutShort>>

-----------------------------------------------------------------------------
(* Between attempts. *)

RequestStop ==
  /\ Running /\ ~stopAsked /\ stops < MaxStops
  /\ stopAsked' = TRUE /\ stops' = stops + 1
  /\ UNCHANGED <<rendition, rowOf, listed, encoder, attempts, config, cutShort>>

EncoderCrashes ==
  /\ encoder.step \in {"qualities", "finalize"} /\ stops < MaxStops
  /\ encoder' = EncoderAt("crashed") /\ stopAsked' = FALSE /\ stops' = stops + 1
  /\ UNCHANGED <<rendition, rowOf, listed, attempts, config, cutShort>>

CompletedRows == {q \in Tracked : rowOf[q] = "completed"}

\* Mutant: what the rows say is not read.
RemoveAll == IF config.keeps /\ config.cmaf THEN {Source} ELSE Tracked

\* cleanup_partial_output: only names like those of MPEG-TS qualities are looked at.
\* Where nothing is completed, the directory goes.
PartialOutput ==
  IF ~config.keeps \/ CompletedRows = {} THEN Tracked
  ELSE (IF config.cmaf THEN {Source} ELSE Tracked) \ CompletedRows

\* At the start of a worker, for a job whose checkpoint is old; the master playlist
\* goes as well.
RecoverAttempt ==
  /\ encoder.step \in {"crashed", "failed"} /\ attempts < RenditionAttempts
  /\ attempts' = attempts + 1
  /\ rendition' = [q \in Tracked |-> IF q \in PartialOutput THEN "none" ELSE rendition[q]]
  /\ listed' = {}
  /\ encoder' = EncoderAt("waiting")
  /\ UNCHANGED <<rowOf, stopAsked, stops, config, cutShort>>

\* check_stale_jobs of the running worker: nothing is cleaned up.
RetryAttempt ==
  /\ encoder.step \in {"crashed", "failed"} /\ attempts < RenditionAttempts
  /\ attempts' = attempts + 1
  /\ encoder' = EncoderAt("waiting")
  /\ UNCHANGED <<rendition, rowOf, listed, stopAsked, stops, config, cutShort>>

QualityNext ==
  \/ BeginAttempt \/ NextBatch \/ StopBetweenBatches \/ WriteMaster \/ ShowVideo \/ AttemptFails
  \/ RequestStop \/ EncoderCrashes \/ RecoverAttempt \/ RetryAttempt
  \/ \E q \in Tracked : \/ SkipCompleted(q) \/ AdoptPlaylist(q) \/ StartEncode(q)
                        \/ RefuseForShutdown(q) \/ EncodeEnds(q) \/ MarkQualityCompleted(q)
                        \/ EncodeFailsIn(q)

QualitySpec == QualityInit /\ [][QualityNext]_qualityVars

-----------------------------------------------------------------------------
QualityTypeOK ==
  /\ rendition \in [Tracked -> {"none", "part", "cut", "whole"}]
  /\ rowOf \in [Tracked -> {"none", "pending", "in_progress", "completed", "failed"}]
  /\ listed \subseteq Tracked /\ attempts \in 1 .. RenditionAttempts
  /\ encoder \in [step : {"waiting", "qualities", "finalize", "ready", "failed", "crashed"},
                  batch : 0 .. LastBatch, left : SUBSET Tracked, running : SUBSET Tracked,
                  ended : SUBSET Tracked, good : SUBSET Tracked]
  /\ stopAsked \in BOOLEAN /\ stops \in 0 .. MaxStops /\ cutShort \in BOOLEAN

\* The master playlist of a video that is shown names only qualities that were encoded
\* to their end, whatever crashes, failures and clean-ups came between the attempts that
\* it was pieced together from; unless completed qualities are not kept, whose rows
\* outlive their files, or an encoder closed its playlist when it was told to stop.
ShownIsWhole ==
  encoder.step = "ready" /\ config.keeps /\ ~cutShort => \A q \in listed : rendition[q] = "whole"

\* What was completed is not lost by a clean-up nor encoded again: later attempts leave
\* its files alone.
CompletedIsKept ==
  [][\A q \in Tracked : config.keeps /\ rowOf[q] = "completed" => rendition'[q] = rendition[q]]_qualityVars
=============================================================================

---------------------------- MODULE SpriteQueue ----------------------------
(***************************************************************************)
(* The sprite sheets of one video: worker/sprite_generator.py and the      *)
(* requests of api/admin.py that fill its queue.                           *)
(*                                                                         *)
(* Nothing keeps two rows of one video from being processed at once, the   *)
(* rows and the video's sprite_sheet_status are written by one statement   *)
(* each, and no write looks at what it overwrites. Nor does whoever empties*)
(* or replaces the video's directory reset that status.                    *)
(***************************************************************************)
EXTENDS Naturals, FiniteSets

CONSTANTS SpriteRows,      \* the rows that sprite_queue may get, numbered by created_at
          SpriteWorkers,   \* the sprite generators
          SpriteClients,   \* requests of administrators that run at the same time
          UrgentRows,      \* those that were queued with the higher priority
          MaxDrops         \* bound: jobs lost by a crash or by a failing database

ASSUME SpriteQueueAssumption ==
  /\ SpriteRows \subseteq Nat \ {0} /\ IsFiniteSet(SpriteRows)
  /\ UrgentRows \subseteq SpriteRows /\ MaxDrops \in Nat

VARIABLES sprites,       \* sprite_queue.status of each row, "none" before it is inserted
          spriteStatus,  \* videos.sprite_sheet_status
          sheets,        \* the video's sprites directory is there
          generator,     \* where each worker is, and its row
          spriteClient,  \* where each request is, and its row
          drops,
          alone,         \* history: never were two workers at this video
          losses         \* history: how sheets were lost since some were moved in last

spriteVars == <<sprites, spriteStatus, sheets, generator, spriteClient, drops, alone, losses>>

SpriteEnded == {"completed", "failed", "cancelled"}
NoRow == 0
AtRest == [step |-> "idle", row |-> NoRow]

SpriteInit ==
  /\ sprites \in [SpriteRows -> {"none", "cancelled"}]
  /\ spriteStatus = "none" /\ sheets = FALSE
  /\ generator = [w \in SpriteWorkers |-> AtRest]
  /\ spriteClient = [c \in SpriteClients |-> AtRest]
  /\ drops \in 0 .. MaxDrops /\ alone = TRUE /\ losses = {}

RowsIn(states) == {r \in SpriteRows : sprites[r] \in states}
WriteRow(r, to) == sprites' = [sprites EXCEPT ![r] = to]

-----------------------------------------------------------------------------
(* The administrator, and the jobs that queue a finished video. *)

\* queue_sprite_generation, queue-all, and the end of a transcoding job: a row is
\* inserted unless a SELECT before it found one. It does not look for the rows being
\* processed, and another request may insert between the two: any row may get here.
InsertSpriteJob(c) ==
  /\ spriteClient[c] = AtRest
  /\ \E r \in RowsIn({"none"}) :
       (\A q \in RowsIn({"none"}) : r <= q) /\ WriteRow(r, "pending")
  /\ spriteClient' = [spriteClient EXCEPT ![c].step = "mark"]
  /\ UNCHANGED <<spriteStatus, sheets, generator, drops, alone, losses>>

\* The second statement, whatever has become of the row by now.
MarkQueued(c) ==
  /\ spriteClient[c].step = "mark"
  /\ spriteStatus' = "pending"
  /\ spriteClient' = [spriteClient EXCEPT ![c] = AtRest]
  /\ UNCHANGED <<sprites, sheets, generator, drops, alone, losses>>

CheckCancel(c) ==
  /\ spriteClient[c] = AtRest
  /\ \E r \in RowsIn({"pending"}) : spriteClient' = [spriteClient EXCEPT ![c] = [step |-> "cancel", row |-> r]]
  /\ UNCHANGED <<sprites, spriteStatus, sheets, generator, drops, alone, losses>>

\* Without a condition on the status that was read.
CancelSpriteJob(c) ==
  /\ spriteClient[c].step = "cancel"
  /\ WriteRow(spriteClient[c].row, "cancelled")
  /\ spriteClient' = [spriteClient EXCEPT ![c].step = "clear"]
  /\ UNCHANGED <<spriteStatus, sheets, generator, drops, alone, losses>>

ClearQueued(c) ==
  /\ spriteClient[c].step = "clear"
  /\ spriteStatus' = "none"
  /\ spriteClient' = [spriteClient EXCEPT ![c] = AtRest]
  /\ UNCHANGED <<sprites, sheets, generator, drops, alone, losses>>

-----------------------------------------------------------------------------
(* The worker. *)

Working == {w \in SpriteWorkers : generator[w].step \notin {"idle", "reset"}}
GoesOn(w, step) == generator' = [generator EXCEPT ![w].step = step]

ComesFirst(r, q) == IF (r \in UrgentRows) = (q \in UrgentRows) THEN r <= q ELSE r \in UrgentRows

\* One UPDATE of the oldest row of the highest priority; SKIP LOCKED leaves no
\* two workers the same row.
ClaimNext(w) ==
  /\ generator[w] = AtRest
  /\ \E r \in RowsIn({"pending"}) :
       /\ \A q \in RowsIn({"pending"}) : ComesFirst(r, q)
       /\ WriteRow(r, "processing")
       /\ generator' = [generator EXCEPT ![w] = [step |-> "read", row |-> r]]
  /\ alone' = (alone /\ Working = {})
  /\ UNCHANGED <<spriteStatus, sheets, spriteClient, drops, losses>>

\* Mutant: rows of dead workers are left as they are.
RecoverNothing(w, stale) == FALSE /\ stale = {} /\ generator[w] = AtRest /\ UNCHANGED spriteVars

\* Every row that was claimed two hours ago, be its worker dead or only slow.
\* The statements for the videos come before or after a claim by another worker.
RecoverStale(w, stale) ==
  /\ generator[w] = AtRest /\ stale # {} /\ stale \subseteq RowsIn({"processing"})
  /\ sprites' = [r \in SpriteRows |-> IF r \in stale THEN "pending" ELSE sprites[r]]
  /\ GoesOn(w, "reset")
  /\ UNCHANGED <<spriteStatus, sheets, spriteClient, drops, alone, losses>>

ResetStatus(w) ==
  /\ generator[w].step = "reset"
  /\ spriteStatus' = "pending"
  /\ generator' = [generator EXCEPT ![w] = AtRest]
  /\ UNCHANGED <<sprites, sheets, spriteClient, drops, alone, losses>>

\* The video is ready, or it is not any more: ValueError.
ReadVideo(w) ==
  /\ generator[w].step = "read"
  /\ \/ spriteStatus' = "generating" /\ GoesOn(w, "encode")
     \/ spriteStatus' = spriteStatus /\ GoesOn(w, "failing")
  /\ UNCHANGED <<sprites, sheets, spriteClient, drops, alone, losses>>

\* Mutant: the video is marked when its sheets are about to be moved.
ReadyBeforeMove(w) ==
  /\ generator[w].step = "encode"
  /\ sheets' = FALSE /\ spriteStatus' = "ready" /\ GoesOn(w, "move")
  /\ UNCHANGED <<sprites, spriteClient, drops, alone, losses>>

\* ffmpeg writes to a directory of its own; it may fail or time out. Only then the
\* old sheets go, all of them or, when that fails, some.
Encode(w) ==
  /\ generator[w].step = "encode"
  /\ \/ sheets' = FALSE /\ losses' = losses /\ GoesOn(w, "move")
     \/ sheets' = FALSE /\ losses' = losses \cup {"halfway"} /\ GoesOn(w, "failing")
     \/ UNCHANGED <<sheets, losses>> /\ GoesOn(w, "failing")
  /\ UNCHANGED <<sprites, spriteStatus, spriteClient, drops, alone>>

\* Across file systems: a copy, which may fail. Another worker, or whoever replaced
\* the files, may have been removing meanwhile what was copied.
MoveNewSheets(w) ==
  /\ generator[w].step = "move"
  /\ \/ sheets' = TRUE /\ losses' = {} /\ GoesOn(w, "ready")
     \/ /\ ~alone \/ "replaced" \in losses
        /\ sheets' = FALSE /\ losses' = losses \cup {l \in {"halfway"} : ~alone} /\ GoesOn(w, "ready")
     \/ sheets' = sheets /\ losses' = losses \cup {"halfway"} /\ GoesOn(w, "failing")
  /\ UNCHANGED <<sprites, spriteStatus, spriteClient, drops, alone>>

MarkSheetsReady(w) ==
  /\ generator[w].step = "ready"
  /\ spriteStatus' = "ready" /\ GoesOn(w, "complete")
  /\ UNCHANGED <<sprites, sheets, spriteClient, drops, alone, losses>>

\* By id alone: the row may be another worker's, or cancelled.
CompleteRow(w) ==
  /\ generator[w].step = "complete"
  /\ WriteRow(generator[w].row, "completed")
  /\ generator' = [generator EXCEPT ![w] = AtRest]
  /\ UNCHANGED <<spriteStatus, sheets, spriteClient, drops, alone, losses>>

MarkSheetsFailed(w) ==
  /\ generator[w].step = "failing"
  /\ spriteStatus' = "failed" /\ GoesOn(w, "fail")
  /\ UNCHANGED <<sprites, sheets, spriteClient, drops, alone, losses>>

FailRow(w) ==
  /\ generator[w].step = "fail"
  /\ WriteRow(generator[w].row, "failed")
  /\ generator' = [generator EXCEPT ![w] = AtRest]
  /\ UNCHANGED <<spriteStatus, sheets, spriteClient, drops, alone, losses>>

\* The process dies, or a write of the error path fails and the main loop goes on.
DropRow(w) ==
  /\ w \in Working /\ drops < MaxDrops /\ drops' = drops + 1
  /\ losses' = losses \cup {l \in {"halfway"} : generator[w].step = "move"}
  /\ generator' = [generator EXCEPT ![w] = AtRest]
  /\ UNCHANGED <<sprites, spriteStatus, sheets, spriteClient, alone>>

\* The video's directory is emptied (re_upload_video, cleanup_partial_output) or replaced
\* by one without sprites (the swap of a re-encode).
FilesReplaced ==
  /\ sheets' = FALSE /\ losses' = losses \cup {"replaced"}
  /\ UNCHANGED <<sprites, spriteStatus, generator, spriteClient, drops, alone>>

-----------------------------------------------------------------------------
SpriteRequest(c) == \/ InsertSpriteJob(c) \/ MarkQueued(c)
                    \/ CheckCancel(c) \/ CancelSpriteJob(c) \/ ClearQueued(c)
Generating(w) == \/ ClaimNext(w) \/ ResetStatus(w) \/ ReadVideo(w) \/ Encode(w) \/ MoveNewSheets(w) \/ MarkSheetsReady(w) \/ CompleteRow(w)
                 \/ MarkSheetsFailed(w) \/ FailRow(w)
Recover == \E w \in SpriteWorkers, stale \in SUBSET SpriteRows : RecoverStale(w, stale)
SpriteNext == \/ \E c \in SpriteClients : SpriteRequest(c)
              \/ \E w \in SpriteWorkers : Generating(w) \/ DropRow(w)
              \/ Recover \/ FilesReplaced

\* The main loop of each worker, and a recovery that is due every five minutes: a
\* row that stays in processing is stale at some time.
SpriteFairness ==
  /\ \A w \in SpriteWorkers : WF_spriteVars(Generating(w))
  /\ \A r \in SpriteRows :
       WF_spriteVars(\E w \in SpriteWorkers, stale \in SUBSET SpriteRows : r \in stale /\ RecoverStale(w, stale))
SpriteSpec == SpriteInit /\ [][SpriteNext]_spriteVars /\ SpriteFairness

-----------------------------------------------------------------------------
SpriteTypeOK ==
  /\ sprites \in [SpriteRows -> {"none", "pending", "processing"} \cup SpriteEnded]
  /\ spriteStatus \in {"none", "pending", "generating", "ready", "failed"}
  /\ sheets \in BOOLEAN /\ alone \in BOOLEAN /\ losses \subseteq {"replaced", "halfway"}
  /\ drops \in 0 .. MaxDrops
  /\ generator \in [SpriteWorkers -> [step : {"idle", "reset", "read", "encode", "move",
                                              "ready", "complete", "failing", "fail"},
                                      row : SpriteRows \cup {NoRow}]]
  /\ spriteClient \in [SpriteClients -> [step : {"idle", "mark", "cancel", "clear"},
                                         row : SpriteRows \cup {NoRow}]]

\* A player that is told that a video's sprite sheets are ready finds them, through
\* crashes, recovered and cancelled jobs and requests at any moment, unless a re-upload,
\* a re-encode or a clean-up took them away after they were made: none of these resets
\* the status. When two workers were given rows of the video at once it may be told so
\* early as well, while one of them has removed the sheets of the other and not yet
\* moved in its own, or after it failed or died at that point.
ReadyHasSheets ==
  spriteStatus = "ready" =>
    \/ sheets \/ "replaced" \in losses
    \/ ~alone /\ ("halfway" \in losses \/ \E w \in SpriteWorkers : generator[w].step = "move")

\* Every queued job is completed, failed or cancelled in the end, though its worker
\* died with it or was so slow that another one was given it.
SpriteJobsEnd ==
  <>[](\A r \in SpriteRows : sprites[r] \in {"none"} \cup SpriteEnded)
=============================================================================

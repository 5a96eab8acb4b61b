--------------------------- MODULE LibraryProofs ---------------------------
(***************************************************************************)
(* Of the local transcoder: that the playlist which is shown names only    *)
(* whole qualities and that completed ones are left alone, for any list of *)
(* qualities, any batches, attempts and stops.                             *)
(*                                                                         *)
(* Of the library: that first uploads are left alone, that nothing is      *)
(* stranded in the archive, and that videos which are shown as ready have  *)
(* their files, for any number of videos, jobs, attempts, crashes and      *)
(* remote workers, of deployments as named hypotheses describe them. Each  *)
(* step of the library is first reduced to what it does to the tables and  *)
(* files (After...); the invariants are then proved from these effects.    *)
(***************************************************************************)
EXTENDS LocalTranscoder, LocalQualities, TLAPS

\* Which qualities a batch takes is left open: each action asks for itself whether a
\* quality is one of those of the video.
AnyBatch == Tracked \cup UNION {Batch(i) : i \in Nat}
EncoderSteps == {"waiting", "qualities", "finalize", "ready", "failed", "crashed"}
LocalEncoder == [step : EncoderSteps, batch : Nat, left : SUBSET AnyBatch, running : SUBSET Tracked,
                 ended : SUBSET Tracked, good : SUBSET Tracked]

QualityTypes ==
  /\ rendition \in [Tracked -> {"none", "part", "cut", "whole"}]
  /\ rowOf \in [Tracked -> {"none", "pending", "in_progress", "completed", "failed"}]
  /\ encoder \in LocalEncoder /\ cutShort \in BOOLEAN

\* A quality is left to take up, being encoded, or encoded, one of the three; only while the
\* attempt runs. A row says in progress as long as its encoder runs.
BatchInv ==
  /\ encoder.left \cap (encoder.running \cup encoder.ended) = {} /\ encoder.running \cap encoder.ended = {}
  /\ encoder.step # "qualities" => encoder.running = {} /\ encoder.ended = {}
  /\ \A q \in encoder.running : rowOf[q] = "in_progress"
  /\ \A q \in encoder.ended : rendition[q] = "whole"

\* A row that says completed is right, unless a playlist was closed early or completed
\* qualities are not kept; what succeeded has such a row, and is what is listed.
CompletedInv ==
  /\ \A q \in Tracked : rendition[q] = "cut" => cutShort
  /\ config.keeps /\ ~cutShort => \A q \in Tracked : rowOf[q] = "completed" => rendition[q] = "whole"
  /\ \A q \in encoder.good : rowOf[q] = "completed"
  /\ encoder.step \in {"finalize", "ready"} => \A q \in listed : q \in Tracked /\ rowOf[q] = "completed"

QualityInv == QualityTypes /\ BatchInv /\ CompletedInv

\* Where an attempt is when it is not encoding.
LEMMA Attempts ==
  ASSUME NEW step \in EncoderSteps
  PROVE  /\ EncoderAt(step) \in LocalEncoder /\ EncoderAt(step).step = step
         /\ EncoderAt(step).left = {} /\ EncoderAt(step).running = {}
         /\ EncoderAt(step).ended = {} /\ EncoderAt(step).good = {}
  BY DEF EncoderAt, LocalEncoder

\* The invariant holds before the first attempt.
LEMMA QualityInvInit == QualityInit => QualityInv
<1> SUFFICES ASSUME QualityInit PROVE QualityInv
  OBVIOUS
<1>1. encoder = EncoderAt("waiting") /\ cutShort = FALSE
      /\ rendition = [q \in Tracked |-> "none"] /\ rowOf = [q \in Tracked |-> "none"]
  BY DEF QualityInit
<1>2. encoder \in LocalEncoder /\ encoder.step = "waiting" /\ encoder.left = {} /\ encoder.running = {}
      /\ encoder.ended = {} /\ encoder.good = {}
  BY <1>1, Attempts DEF EncoderSteps
<1> QED BY <1>1, <1>2 DEF QualityInv, QualityTypes, BatchInv, CompletedInv

\* What a step of one quality does to the encoder.
LEMMA QualityFields ==
  ASSUME QualityTypes, NEW q \in Tracked
  PROVE  /\ Succeeds(q) =>
              /\ encoder' \in LocalEncoder /\ encoder'.step = encoder.step /\ encoder'.running = encoder.running
              /\ encoder'.left = encoder.left \ {q} /\ encoder'.ended = encoder.ended \ {q}
              /\ encoder'.good = encoder.good \cup {q}
         /\ FailsIn(q) =>
              /\ encoder' \in LocalEncoder /\ encoder'.step = encoder.step /\ encoder'.good = encoder.good
              /\ encoder'.left = encoder.left \ {q} /\ encoder'.running = encoder.running \ {q}
              /\ encoder'.ended = encoder.ended
<1>1. encoder \in LocalEncoder
  BY DEF QualityTypes
<1>2. ASSUME Succeeds(q)
      PROVE  /\ encoder' \in LocalEncoder /\ encoder'.step = encoder.step /\ encoder'.running = encoder.running
             /\ encoder'.left = encoder.left \ {q} /\ encoder'.ended = encoder.ended \ {q}
             /\ encoder'.good = encoder.good \cup {q}
  <2>1. encoder' = [encoder EXCEPT !.left = @ \ {q}, !.ended = @ \ {q}, !.good = @ \cup {q}]
    BY <1>2 DEF Succeeds
  <2> QED BY <1>1, <2>1 DEF LocalEncoder
<1>3. ASSUME FailsIn(q)
      PROVE  /\ encoder' \in LocalEncoder /\ encoder'.step = encoder.step /\ encoder'.good = encoder.good
             /\ encoder'.left = encoder.left \ {q} /\ encoder'.running = encoder.running \ {q}
             /\ encoder'.ended = encoder.ended
  <2>1. encoder' = [encoder EXCEPT !.left = @ \ {q}, !.running = @ \ {q}]
    BY <1>3 DEF FailsIn
  <2> QED BY <1>1, <2>1 DEF LocalEncoder
<1> QED BY <1>2, <1>3

\* A step of one quality keeps the invariant.
LEMMA QualityKeeps ==
  ASSUME QualityInv, NEW q \in Tracked,
         \/ SkipCompleted(q) \/ AdoptPlaylist(q) \/ StartEncode(q) \/ RefuseForShutdown(q)
         \/ EncodeEnds(q) \/ MarkQualityCompleted(q) \/ EncodeFailsIn(q)
  PROVE  QualityInv'
<1> USE DEF QualityInv, QualityTypes, BatchInv, CompletedInv, Same, Running, SetRow
<1>0. encoder \in LocalEncoder /\ QualityTypes
  OBVIOUS
<1>1. CASE SkipCompleted(q)
  <2>1. Succeeds(q) /\ rowOf[q] = "completed" /\ UNCHANGED <<rendition, rowOf, listed, cutShort, config>>
    BY <1>1 DEF SkipCompleted
  <2> QED BY <2>1, QualityFields
<1>2. CASE AdoptPlaylist(q)
  <2>1. /\ Succeeds(q) /\ q \in encoder.left /\ rendition[q] \in {"cut", "whole"} /\ Running
        /\ rowOf' = [rowOf EXCEPT ![q] = "completed"] /\ UNCHANGED <<rendition, listed, cutShort, config>>
    BY <1>2 DEF AdoptPlaylist, PlaylistComplete
  <2> QED BY <2>1, QualityFields
<1>3. CASE StartEncode(q)
  <2>1. /\ q \in encoder.left /\ rowOf[q] # "completed" /\ Running
        /\ rowOf' = [rowOf EXCEPT ![q] = "in_progress"] /\ rendition' = [rendition EXCEPT ![q] = "part"]
        /\ UNCHANGED <<listed, cutShort, config>>
        /\ encoder' = [encoder EXCEPT !.left = @ \ {q}, !.running = @ \cup {q}]
    BY <1>3 DEF StartEncode
  <2>2. /\ encoder' \in LocalEncoder /\ encoder'.step = encoder.step /\ encoder'.left = encoder.left \ {q}
        /\ encoder'.running = encoder.running \cup {q} /\ encoder'.ended = encoder.ended
        /\ encoder'.good = encoder.good
    BY <1>0, <2>1 DEF LocalEncoder
  <2> QED BY <2>1, <2>2
<1>4. CASE RefuseForShutdown(q)
  <2>1. FailsIn(q) /\ UNCHANGED <<rendition, rowOf, listed, cutShort, config>>
    BY <1>4 DEF RefuseForShutdown
  <2> QED BY <2>1, QualityFields
<1>5. CASE EncodeEnds(q)
  <2>1. /\ q \in encoder.running /\ Running /\ UNCHANGED <<rowOf, listed, cutShort, config>>
        /\ rendition' = [rendition EXCEPT ![q] = "whole"]
        /\ encoder' = [encoder EXCEPT !.running = @ \ {q}, !.ended = @ \cup {q}]
    BY <1>5 DEF EncodeEnds
  <2>2. /\ encoder' \in LocalEncoder /\ encoder'.step = encoder.step /\ encoder'.left = encoder.left
        /\ encoder'.running = encoder.running \ {q} /\ encoder'.ended = encoder.ended \cup {q}
        /\ encoder'.good = encoder.good
    BY <1>0, <2>1 DEF LocalEncoder
  <2> QED BY <2>1, <2>2
<1>6. CASE MarkQualityCompleted(q)
  <2>1. /\ Succeeds(q) /\ q \in encoder.ended /\ rendition[q] = "whole" /\ Running
        /\ rowOf' = [rowOf EXCEPT ![q] = "completed"] /\ UNCHANGED <<rendition, listed, cutShort, config>>
    BY <1>6 DEF MarkQualityCompleted
  <2> QED BY <2>1, QualityFields
<1>7. CASE EncodeFailsIn(q)
  <2>1. /\ FailsIn(q) /\ q \in encoder.running /\ rowOf[q] = "in_progress" /\ Running
        /\ rowOf' = [rowOf EXCEPT ![q] = "failed"] /\ UNCHANGED <<listed, config>>
    BY <1>7 DEF EncodeFailsIn
  <2>2. \/ UNCHANGED <<rendition, cutShort>>
        \/ cutShort' = TRUE /\ rendition' = [rendition EXCEPT ![q] = "cut"]
    BY <1>7 DEF EncodeFailsIn
  <2>3. /\ encoder' \in LocalEncoder /\ encoder'.step = encoder.step /\ encoder'.good = encoder.good
        /\ encoder'.left = encoder.left \ {q} /\ encoder'.running = encoder.running \ {q}
        /\ encoder'.ended = encoder.ended
    BY <2>1, QualityFields
  <2>4. q \notin encoder.ended
    BY <2>1
  <2>5. QualityTypes'
    BY <2>1, <2>2, <2>3
  <2>6. BatchInv'
    <3>1. encoder.running \subseteq Tracked /\ encoder.ended \subseteq Tracked
      BY <1>0 DEF LocalEncoder
    <3>2. \A p \in encoder'.running : rowOf'[p] = "in_progress"
      BY <2>1, <2>3, <3>1
    <3>3. \A p \in encoder'.ended : rendition'[p] = rendition[p]
      BY <2>2, <2>3, <2>4, <3>1
    <3> QED BY <2>3, <3>2, <3>3
  <2>7. CompletedInv'
    <3>1. CASE UNCHANGED <<rendition, cutShort>>
      BY <2>1, <2>3, <3>1
    <3>2. CASE cutShort' = TRUE /\ rendition' = [rendition EXCEPT ![q] = "cut"]
      BY <2>1, <2>3, <3>2
    <3> QED BY <2>2, <3>1, <3>2
  <2> QED BY <2>5, <2>6, <2>7
<1> HIDE DEF QualityInv
<1> QED BY <1>1, <1>2, <1>3, <1>4, <1>5, <1>6, <1>7

\* So does every step.
LEMMA QualityInvStep == QualityInv /\ [QualityNext]_qualityVars => QualityInv'
<1> SUFFICES ASSUME QualityInv, [QualityNext]_qualityVars PROVE QualityInv'
  OBVIOUS
<1> USE DEF QualityInv, QualityTypes, BatchInv, CompletedInv, Same, Running
<1>0. encoder \in LocalEncoder
  OBVIOUS
<1>1. CASE BeginAttempt
  <2>1. encoder' = [EncoderAt("qualities") EXCEPT !.left = Batch(0)] /\ Batch(0) \subseteq AnyBatch
        /\ rowOf' = [q \in Tracked |-> IF rowOf[q] = "none" THEN "pending" ELSE rowOf[q]]
        /\ UNCHANGED <<rendition, listed, cutShort, config>>
    BY <1>1 DEF BeginAttempt, AnyBatch
  <2>2. EncoderAt("qualities") \in LocalEncoder /\ EncoderAt("qualities").step = "qualities"
        /\ EncoderAt("qualities").running = {} /\ EncoderAt("qualities").ended = {} /\ EncoderAt("qualities").good = {}
    BY Attempts DEF EncoderSteps
  <2>3. encoder' \in LocalEncoder /\ encoder'.step = "qualities" /\ encoder'.running = {}
        /\ encoder'.ended = {} /\ encoder'.good = {}
    BY <2>1, <2>2 DEF LocalEncoder
  <2> QED BY <2>1, <2>3
<1>2. CASE NextBatch
  <2>1. encoder' = [encoder EXCEPT !.batch = @ + 1, !.left = Batch(encoder.batch + 1)] /\ BatchOver
        /\ UNCHANGED <<rendition, rowOf, listed, cutShort, config>>
    BY <1>2 DEF NextBatch
  <2>2. encoder.batch + 1 \in Nat /\ Batch(encoder.batch + 1) \subseteq AnyBatch
    BY <1>0 DEF LocalEncoder, AnyBatch
  <2>3. encoder' \in LocalEncoder /\ encoder'.step = encoder.step /\ encoder'.running = encoder.running
        /\ encoder'.ended = encoder.ended /\ encoder'.good = encoder.good
    BY <1>0, <2>1, <2>2 DEF LocalEncoder
  <2> QED BY <2>1, <2>3 DEF BatchOver
<1>3. CASE StopBetweenBatches \/ AttemptFails \/ EncoderCrashes \/ RetryAttempt
  <2>1. PICK step \in {"waiting", "failed", "crashed"} : encoder' = EncoderAt(step)
    BY <1>3 DEF StopBetweenBatches, AttemptFails, EncoderCrashes, RetryAttempt
  <2>2. encoder' \in LocalEncoder /\ encoder'.step = step /\ encoder'.left = {} /\ encoder'.running = {}
        /\ encoder'.ended = {} /\ encoder'.good = {}
    BY <2>1, Attempts DEF EncoderSteps
  <2>3. UNCHANGED <<rendition, rowOf, cutShort, config>>
    BY <1>3 DEF StopBetweenBatches, AttemptFails, EncoderCrashes, RetryAttempt
  <2> QED BY <2>2, <2>3
<1>4. CASE WriteMaster
  <2>1. encoder' = [encoder EXCEPT !.step = "finalize"] /\ listed' = encoder.good /\ BatchOver
        /\ UNCHANGED <<rendition, rowOf, cutShort, config>>
    BY <1>4 DEF WriteMaster
  <2>2. encoder' \in LocalEncoder /\ encoder'.step = "finalize" /\ encoder'.left = encoder.left
        /\ encoder'.running = encoder.running /\ encoder'.ended = encoder.ended /\ encoder'.good = encoder.good
    BY <1>0, <2>1 DEF LocalEncoder, EncoderSteps
  <2>3. encoder.good \subseteq Tracked
    BY <1>0 DEF LocalEncoder
  <2> QED BY <2>1, <2>2, <2>3 DEF BatchOver
<1>5. CASE ShowVideo
  <2>1. encoder' = [encoder EXCEPT !.step = "ready"] /\ encoder.step = "finalize"
        /\ UNCHANGED <<rendition, rowOf, listed, cutShort, config>>
    BY <1>5 DEF ShowVideo
  <2>2. encoder' \in LocalEncoder /\ encoder'.step = "ready" /\ encoder'.left = encoder.left
        /\ encoder'.running = encoder.running /\ encoder'.ended = encoder.ended /\ encoder'.good = encoder.good
    BY <1>0, <2>1 DEF LocalEncoder, EncoderSteps
  <2> QED BY <2>1, <2>2
<1>6. CASE RequestStop \/ UNCHANGED qualityVars
  BY <1>6 DEF RequestStop, qualityVars
<1>7. CASE RecoverAttempt
  <2>1. /\ rendition' = [q \in Tracked |-> IF q \in PartialOutput THEN "none" ELSE rendition[q]]
        /\ encoder' = EncoderAt("waiting") /\ UNCHANGED <<rowOf, cutShort, config>>
    BY <1>7 DEF RecoverAttempt
  <2>2. encoder' \in LocalEncoder /\ encoder'.step = "waiting" /\ encoder'.left = {} /\ encoder'.running = {}
        /\ encoder'.ended = {} /\ encoder'.good = {}
    BY <2>1, Attempts DEF EncoderSteps
  <2>3. config.keeps => \A q \in Tracked : rowOf[q] = "completed" => q \notin PartialOutput
    BY DEF PartialOutput, CompletedRows
  <2> HIDE DEF PartialOutput
  <2> QED BY <2>1, <2>2, <2>3
<1> HIDE DEF QualityInv
<1> QED BY <1>1, <1>2, <1>3, <1>4, <1>5, <1>6, <1>7, QualityKeeps DEF QualityNext

\* QualityInv is an invariant.
LEMMA QualityInvAlways == QualitySpec => []QualityInv
  BY QualityInvInit, QualityInvStep, PTL DEF QualitySpec

\* The master playlist of a video that is shown names whole qualities only, pieced together
\* from any number of attempts, crashes and clean-ups.
THEOREM ShownQualitiesAreWhole == QualitySpec => []ShownIsWhole
<1>1. QualityInv => ShownIsWhole
  BY DEF QualityInv, CompletedInv, ShownIsWhole
<1> QED BY <1>1, QualityInvAlways, PTL

\* No step of any attempt changes the files of a completed quality.
THEOREM CompletedQualitiesAreKept == QualitySpec => CompletedIsKept
<1>1. ASSUME QualityInv, [QualityNext]_qualityVars
      PROVE  [\A q \in Tracked : config.keeps /\ rowOf[q] = "completed" => rendition'[q] = rendition[q]]_qualityVars
  <2> SUFFICES ASSUME QualityNext, NEW q \in Tracked, config.keeps, rowOf[q] = "completed"
               PROVE  rendition'[q] = rendition[q]
    BY <1>1
  <2>1. rendition \in [Tracked -> {"none", "part", "cut", "whole"}] /\ q \notin encoder.running
    BY <1>1 DEF QualityInv, QualityTypes, BatchInv
  <2>2. CASE RecoverAttempt
    BY <2>1, <2>2 DEF RecoverAttempt, PartialOutput, CompletedRows
  <2>3. CASE BeginAttempt \/ NextBatch \/ StopBetweenBatches \/ WriteMaster \/ ShowVideo \/ AttemptFails
             \/ RequestStop \/ EncoderCrashes \/ RetryAttempt
    BY <2>3 DEF BeginAttempt, NextBatch, StopBetweenBatches, WriteMaster, ShowVideo, AttemptFails, RequestStop,
       EncoderCrashes, RetryAttempt
  <2>4. CASE \E p \in Tracked : \/ SkipCompleted(p) \/ AdoptPlaylist(p) \/ RefuseForShutdown(p) \/ MarkQualityCompleted(p)
    BY <2>4 DEF SkipCompleted, AdoptPlaylist, RefuseForShutdown, MarkQualityCompleted
  <2>5. CASE \E p \in Tracked : StartEncode(p) \/ EncodeEnds(p) \/ EncodeFailsIn(p)
    <3>1. PICK p \in Tracked : StartEncode(p) \/ EncodeEnds(p) \/ EncodeFailsIn(p)
      BY <2>5
    <3>2. p # q
      BY <2>1, <3>1 DEF StartEncode, EncodeEnds, EncodeFailsIn
    <3> QED BY <2>1, <3>1, <3>2 DEF StartEncode, EncodeEnds, EncodeFailsIn
  <2> QED BY <2>2, <2>3, <2>4, <2>5 DEF QualityNext
<1> QED BY <1>1, QualityInvAlways, PTL DEF QualitySpec, CompletedIsKept

-----------------------------------------------------------------------------
(* The library: one request of the admin at a time, as many videos and jobs  *)
(* as there may be, and the worker that works through its snapshots.         *)

OneAtATime == \A r, s \in Requests : r = s

JobRow == [id : 0 .. MaxJobs, state : {"none", "open", "done"},
           owner : {"none", "LOCAL_WORKER", "mine", "former", "remote"},
           claim : {"none", "live", "lapsed"}, attempt : Nat,
           checkpoint : {"null", "fresh", "stale"}, retranscode : BOOLEAN]
Request == [op : Ops, step : Steps, video : Videos]
Located == [video : Videos, job : 0 .. MaxJobs]

LibraryTypes ==
  /\ deployment \in Deployments
  /\ video \in [Videos -> Row] /\ job \in [Videos -> JobRow]
  /\ source \in [Videos -> {"none", "part", "uploads", "archive"}]
  /\ files \in [Videos -> Places] /\ request \in [Requests -> Request]
  /\ pc \in Phases /\ todo \subseteq Entry /\ at \in Located

\* The rows, files and requests that the library begins with, and the helpers of its handlers.
LEMMA LibraryBeginnings ==
  ASSUME Videos # {}
  PROVE  /\ NoRequest \in Request /\ NoRequest.op = "none"
         /\ \A v \in Videos, again \in BOOLEAN :
              LibraryTypes /\ job[v].id < MaxJobs =>
                /\ NewJob(v, again) \in JobRow /\ NewJob(v, again).state = "open"
                /\ NewJob(v, again).retranscode = again /\ NewJob(v, again).owner = "none"
         /\ \A v \in Videos : LibraryTypes =>
              /\ Gone(v) \in JobRow /\ Gone(v).state = "none" /\ Gone(v).owner = "none"
              /\ Gone(v).retranscode = job[v].retranscode
<1>1. NoRequest \in Request /\ NoRequest.op = "none"
  BY DEF NoRequest, Request, Ops, Steps
<1>2. ASSUME NEW v \in Videos, NEW again \in BOOLEAN, LibraryTypes, job[v].id < MaxJobs
      PROVE  /\ NewJob(v, again) \in JobRow /\ NewJob(v, again).state = "open"
             /\ NewJob(v, again).retranscode = again /\ NewJob(v, again).owner = "none"
  <2>1. job[v].id \in 0 .. MaxJobs /\ MaxJobs \in Nat
    BY <1>2, LibraryAssumption DEF LibraryTypes, JobRow
  <2>2. job[v].id + 1 \in 0 .. MaxJobs
    BY <1>2, <2>1
  <2> QED BY <2>2 DEF NewJob, JobRow
<1>3. ASSUME NEW v \in Videos, LibraryTypes
      PROVE  /\ Gone(v) \in JobRow /\ Gone(v).state = "none" /\ Gone(v).owner = "none"
             /\ Gone(v).retranscode = job[v].retranscode
  <2>1. job[v] \in JobRow
    BY <1>3 DEF LibraryTypes
  <2> QED BY <2>1 DEF Gone, JobRow
<1> QED BY <1>1, <1>2, <1>3

\* Writing a status, or deleted_at, keeps the rows rows.
LEMMA RowWrites ==
  ASSUME LibraryTypes, NEW v \in Videos
  PROVE  /\ \A s \in {"unused", "pending", "processing", "ready", "failed", "purged"} :
              SetStatus(v, s) => video' \in [Videos -> Row]
         /\ \A d \in {"null", "recent", "expired"} : SetDeleted(v, d) => video' \in [Videos -> Row]
         /\ DropRows(v) => video' \in [Videos -> Row] /\ job' \in [Videos -> JobRow]
<1>1. video \in [Videos -> Row] /\ job \in [Videos -> JobRow]
  BY DEF LibraryTypes
<1>2. ASSUME NEW s \in {"unused", "pending", "processing", "ready", "failed", "purged"}, SetStatus(v, s)
      PROVE  video' \in [Videos -> Row]
  BY <1>1, <1>2 DEF SetStatus, Row
<1>3. ASSUME NEW d \in {"null", "recent", "expired"}, SetDeleted(v, d) PROVE video' \in [Videos -> Row]
  BY <1>1, <1>3 DEF SetDeleted, Row
<1>4. ASSUME DropRows(v) PROVE video' \in [Videos -> Row] /\ job' \in [Videos -> JobRow]
  <2>1. Gone(v) \in JobRow
    BY LibraryBeginnings
  <2> QED BY <1>1, <1>4, <2>1 DEF DropRows, Row
<1> QED BY <1>2, <1>3, <1>4

\* A move leaves a directory where it may be, also when it fails.
LEMMA MovesKeepPlaces ==
  ASSUME NEW v \in Videos, files[v] \in Places
  PROVE  /\ ToArchive(files[v]) \in Places /\ FromArchive(files[v]) \in Places
         /\ NotDeleted(v) \subseteq Places /\ NotRestored(v) \subseteq Places
<1>1. \A f \in Places : ToArchive(f) \in Places /\ FromArchive(f) \in Places
  BY DEF ToArchive, FromArchive, Places, Output
<1>2. \A f \in Places : ToArchiveFails(f) \subseteq Places /\ FromArchiveFails(f) \subseteq Places
  BY DEF ToArchiveFails, FromArchiveFails, Torn, Places, Output
<1>3. \A f \in Places : [f EXCEPT !.archive = "torn"] \in Places /\ [f EXCEPT !.videos = "torn"] \in Places
  BY DEF Places, Output
<1>4. NotDeleted(v) \subseteq Places
  BY <1>1, <1>2, <1>3 DEF NotDeleted
<1>5. NotRestored(v) \subseteq Places
  BY <1>1, <1>2, <1>3 DEF NotRestored
<1> QED BY <1>1, <1>4, <1>5

\* What the admin does.
LEMMA AdminTypes ==
  ASSUME LibraryTypes, AdminStep, UNCHANGED <<workerVars, deployment>> PROVE LibraryTypes'
<1>1. PICK r \in Requests :
        \/ OpenFile(r) \/ FileSaved(r) \/ SaveFails(r) \/ CreateJob(r) \/ CreateJobFails(r)
        \/ MoveToArchive(r) \/ MoveToArchiveFails(r) \/ MoveFromArchive(r)
        \/ MoveFromArchiveFails(r) \/ PurgeFiles(r) \/ WriteRetry(r) \/ WriteRetranscode(r)
        \/ WriteReupload(r) \/ ReuploadFails(r) \/ WritePublished(r)
        \/ \E v \in Videos :
             \/ InsertVideo(r, v) \/ MarkDeleted(r, v) \/ MarkRestored(r, v) \/ PurgeRows(r, v)
             \/ CheckRetry(r, v) \/ CheckRetranscode(r, v) \/ BulkRetranscode(r, v)
             \/ BeginReupload(r, v) \/ BeginReuploadFails(r, v) \/ ReadForPublish(r, v) \/ UpdateVideo(r, v)
  BY DEF AdminStep, BulkDelete, BulkRestore, BulkUpdate
<1>2. request[r].video \in Videos /\ request \in [Requests -> Request] /\ NoRequest \in Request
  BY LibraryBeginnings DEF LibraryTypes, Request
<1>3. request' \in [Requests -> Request]
  <2>1. \A step \in Steps : GoTo(r, step) => request' \in [Requests -> Request]
    BY <1>2 DEF GoTo, Request
  <2>2. \A op \in Ops, step \in Steps, v \in Videos : Begin(r, op, step, v) => request' \in [Requests -> Request]
    BY <1>2 DEF Begin, Request
  <2>3. Answer(r) => request' \in [Requests -> Request]
    BY <1>2 DEF Answer
  <2>4. \/ UNCHANGED request \/ Answer(r) \/ (\E step \in Steps : GoTo(r, step))
        \/ \E op \in Ops, step \in Steps, v \in Videos : Begin(r, op, step, v)
    BY <1>1 DEF OpenFile, FileSaved, SaveFails, CreateJob, CreateJobFails, MoveToArchive, MoveToArchiveFails,
       MoveFromArchive, MoveFromArchiveFails, PurgeFiles, WriteRetry, WriteRetranscode, WriteReupload,
       WritePublished,
       InsertVideo, MarkDeleted, MarkRestored, PurgeRows, CheckRetry, CheckRetranscode, BulkRetranscode,
       BeginReupload,
       BeginReuploadFails, ReuploadFails, ReadForPublish, UpdateVideo, Ops, Steps
  <2> QED BY <1>2, <2>1, <2>2, <2>3, <2>4
<1>4. source' \in [Videos -> {"none", "part", "uploads", "archive"}]
  BY <1>1, <1>2 DEF LibraryTypes, OpenFile, FileSaved, SaveFails, CreateJob, CreateJobFails, MoveToArchive,
     MoveToArchiveFails, MoveFromArchive, MoveFromArchiveFails, PurgeFiles, RemoveFiles, WriteRetry,
     WriteRetranscode,
     WriteReupload, WritePublished, InsertVideo, MarkDeleted, MarkRestored, PurgeRows, CheckRetry,
     CheckRetranscode,
     BulkRetranscode, BeginReupload, BeginReuploadFails, ReuploadFails, ReadForPublish, UpdateVideo
<1>5. files' \in [Videos -> Places]
  <2>1. files \in [Videos -> Places] /\ \A v \in Videos : files[v] \in Places
    BY DEF LibraryTypes
  <2>2. CASE MoveToArchive(r) \/ MoveFromArchive(r)
    BY <1>2, <2>1, <2>2, MovesKeepPlaces DEF MoveToArchive, MoveFromArchive
  <2>3. CASE \/ FileSaved(r) \/ CreateJobFails(r) \/ PurgeFiles(r) \/ ReuploadFails(r)
             \/ \E v \in Videos : BeginReupload(r, v) \/ BeginReuploadFails(r, v)
    BY <1>2, <2>1, <2>3 DEF FileSaved, CreateJobFails, PurgeFiles, RemoveFiles, ReuploadFails, BeginReupload,
       BeginReuploadFails, Places, Output
  <2>5. CASE MoveToArchiveFails(r) \/ MoveFromArchiveFails(r)
    BY <1>2, <2>1, <2>5, MovesKeepPlaces DEF MoveToArchiveFails, MoveFromArchiveFails
  <2>4. UNCHANGED files \/ MoveToArchive(r) \/ MoveFromArchive(r) \/ MoveToArchiveFails(r) \/ MoveFromArchiveFails(r)
        \/ FileSaved(r) \/ CreateJobFails(r) \/ PurgeFiles(r) \/ ReuploadFails(r)
        \/ \E v \in Videos : BeginReupload(r, v) \/ BeginReuploadFails(r, v)
    BY <1>1 DEF OpenFile, SaveFails, CreateJob, WriteRetry,
       WriteRetranscode,
       WriteReupload, WritePublished, InsertVideo, MarkDeleted, MarkRestored, PurgeRows, CheckRetry,
       CheckRetranscode,
       BulkRetranscode, ReadForPublish, UpdateVideo
  <2> QED BY <2>1, <2>2, <2>3, <2>4, <2>5
<1>6. video' \in [Videos -> Row]
  <2>1. video \in [Videos -> Row] /\ \A v \in Videos : video[v] \in Row
    BY DEF LibraryTypes
  <2>2. CASE WritePublished(r)
    <3> DEFINE v == request[r].video
    <3>1. \A b \in BOOLEAN : [video[v] EXCEPT !.published = b] \in Row
      BY <1>2, <2>1 DEF Row
    <3>2. \A row \in Row : [video EXCEPT ![v] = row] \in [Videos -> Row]
      BY <2>1
    <3>3. video' = video \/ \E b \in BOOLEAN : video' = [video EXCEPT ![v] = [video[v] EXCEPT !.published = b]]
      BY <2>2 DEF WritePublished
    <3> HIDE DEF v
    <3> QED BY <2>1, <3>1, <3>2, <3>3
  <2>3. CASE \E v \in Videos : InsertVideo(r, v) \/ UpdateVideo(r, v)
    BY <2>1, <2>3 DEF InsertVideo, UpdateVideo, Row
  <2>4. \/ UNCHANGED video \/ WritePublished(r) \/ (\E v \in Videos : InsertVideo(r, v) \/ UpdateVideo(r, v))
        \/ \E v \in Videos : \/ \E s \in {"unused", "pending", "processing", "ready", "failed", "purged"} : SetStatus(v, s)
                             \/ \E d \in {"null", "recent", "expired"} : SetDeleted(v, d)
                             \/ DropRows(v)
    BY <1>1, <1>2 DEF OpenFile, FileSaved, SaveFails, CreateJob, CreateJobFails, MoveToArchive,
       MoveToArchiveFails,
       MoveFromArchive, MoveFromArchiveFails, PurgeFiles, WriteRetry, WriteRetranscode, WriteReupload,
       MarkDeleted,
       MarkRestored, PurgeRows, CheckRetry, CheckRetranscode, BulkRetranscode, BeginReupload,
       BeginReuploadFails, ReuploadFails, ReadForPublish
  <2> QED BY <2>1, <2>2, <2>3, <2>4, RowWrites
<1>7. job' \in [Videos -> JobRow]
  BY <1>1, <1>2, RowWrites, LibraryBeginnings DEF LibraryTypes, OpenFile, FileSaved, SaveFails, CreateJob,
     CreateJobFails,
     MoveToArchive, MoveToArchiveFails, MoveFromArchive, MoveFromArchiveFails, PurgeFiles, WriteRetry,
     WriteRetranscode,
     WriteReupload, WritePublished, InsertVideo, MarkDeleted, MarkRestored, PurgeRows, CheckRetry,
     CheckRetranscode,
     BulkRetranscode, BeginReupload, BeginReuploadFails, ReuploadFails, ReadForPublish, UpdateVideo
<1> QED BY <1>3, <1>4, <1>5, <1>6, <1>7 DEF LibraryTypes, workerVars

\* What the other workers and time do.
LEMMA ElsewhereTypes ==
  ASSUME LibraryTypes, Elsewhere, UNCHANGED <<workerVars, deployment>> PROVE LibraryTypes'
<1>1. PICK v \in Videos :
        \/ ClaimLapses(v) \/ CheckpointAges(v) \/ RetentionEnds(v)
        \/ RemoteClaim(v) \/ RemoteProgress(v) \/ RemoteComplete(v) \/ ReleaseLapsed(v)
  BY DEF Elsewhere
<1>2. video \in [Videos -> Row] /\ job \in [Videos -> JobRow] /\ files \in [Videos -> Places]
  BY DEF LibraryTypes
<1>3. video' \in [Videos -> Row]
  BY <1>1, <1>2 DEF Row, ClaimLapses, CheckpointAges, RetentionEnds, RemoteClaim, RemoteProgress,
     RemoteComplete, ReleaseLapsed
<1>4. job' \in [Videos -> JobRow]
  BY <1>1, <1>2 DEF JobRow, ClaimLapses, CheckpointAges, RetentionEnds, RemoteClaim, RemoteProgress,
     RemoteComplete,
     ReleaseLapsed
<1>5. files' \in [Videos -> Places]
  BY SMTT(30), <1>1, <1>2 DEF Places, Output, ClaimLapses, CheckpointAges, RetentionEnds, RemoteClaim, RemoteProgress,
     RemoteComplete,
     ReleaseLapsed
<1>6. UNCHANGED <<source, request>>
  BY <1>1 DEF ClaimLapses, CheckpointAges, RetentionEnds, RemoteClaim, RemoteProgress, RemoteComplete,
     ReleaseLapsed
<1> QED BY <1>3, <1>4, <1>5, <1>6 DEF LibraryTypes, workerVars

\* What the worker's recovery of an entry does.
LEMMA RecoveryTypes ==
  ASSUME LibraryTypes, NEW e \in todo, GiveUp(e) \/ ResetForRetry(e) \/ PurgeExpired(e)
  PROVE  /\ video' \in [Videos -> Row] /\ job' \in [Videos -> JobRow] /\ files' \in [Videos -> Places]
         /\ source' \in [Videos -> {"none", "part", "uploads", "archive"}]
<1>1. e.video \in Videos
  BY DEF LibraryTypes, Entry
<1>2. /\ video \in [Videos -> Row] /\ job \in [Videos -> JobRow] /\ files \in [Videos -> Places]
      /\ source \in [Videos -> {"none", "part", "uploads", "archive"}]
  BY DEF LibraryTypes
<1>3. CASE GiveUp(e)
  <2>1. video' \in [Videos -> Row]
    BY <1>1, <1>2, <1>3 DEF GiveUp, Row
  <2>2. job' \in [Videos -> JobRow]
    <3>1. [job EXCEPT ![e.video].state = "done", ![e.video].checkpoint = "fresh"] \in [Videos -> JobRow]
      BY SMTT(30), <1>1, <1>2 DEF JobRow
    <3> QED BY <1>2, <1>3, <3>1 DEF GiveUp
  <2> QED BY <1>1, <1>2, <1>3, <2>1, <2>2 DEF GiveUp
<1>4. CASE ResetForRetry(e)
  <2>1. video' \in [Videos -> Row]
    BY <1>1, <1>2, <1>4 DEF ResetForRetry, Row
  <2>2. job' \in [Videos -> JobRow]
    <3>1. [job EXCEPT ![e.video].state = "open", ![e.video].owner = "mine",
                      ![e.video].attempt = @ + 1, ![e.video].checkpoint = "fresh"] \in [Videos -> JobRow]
      BY <1>1, <1>2 DEF JobRow
    <3> QED BY <1>2, <1>4, <3>1 DEF ResetForRetry
  <2>3. files' \in [Videos -> Places]
    BY <1>1, <1>2, <1>4 DEF ResetForRetry, Places, Output
  <2> QED BY <1>2, <1>4, <2>1, <2>2, <2>3 DEF ResetForRetry
<1>5. CASE PurgeExpired(e)
  <2>1. video' \in [Videos -> Row] /\ job' \in [Videos -> JobRow]
    BY <1>1, <1>5, RowWrites DEF PurgeExpired
  <2> QED BY <1>1, <1>2, <1>5, <2>1 DEF PurgeExpired, RemoveFiles, Places, Output
<1> QED BY <1>3, <1>4, <1>5

\* What the worker does.
LEMMA WorkerTypes ==
  ASSUME LibraryTypes, WorkerStep, UNCHANGED deployment PROVE LibraryTypes'
<1>1. /\ video \in [Videos -> Row] /\ job \in [Videos -> JobRow] /\ files \in [Videos -> Places]
      /\ source \in [Videos -> {"none", "part", "uploads", "archive"}] /\ at \in Located /\ at.video \in Videos
      /\ todo \subseteq Entry /\ pc \in Phases
  BY DEF LibraryTypes, Located
<1>2. \A v \in Videos : EntryOf(v) \in Entry
  <2> SUFFICES ASSUME NEW v \in Videos PROVE EntryOf(v) \in Entry
    OBVIOUS
  <2>1. job[v].id \in 0 .. MaxJobs /\ (job[v].attempt >= MaxAttempts) \in BOOLEAN
    BY <1>1 DEF JobRow
  <2> QED BY <2>1 DEF EntryOf, Entry
<1>3. CASE CheckStaleJobs \/ FindExpiredArchives \/ FindPendingVideos \/ ListDone \/ EncodeFails
           \/ NothingToClaim \/ Crash
  <2>1. todo' \subseteq Entry
    BY <1>1, <1>2, <1>3 DEF CheckStaleJobs, StaleJobs, FindExpiredArchives, FindPendingVideos, ListDone,
       EncodeFails,
       NothingToClaim, Crash
  <2>2. pc' \in Phases /\ UNCHANGED <<video, job, at, source, files, request>>
    BY <1>3 DEF CheckStaleJobs, FindExpiredArchives, FindPendingVideos, ListDone, EncodeFails, NothingToClaim,
       Crash,
       Phases, Quiet
  <2> QED BY <2>1, <2>2 DEF LibraryTypes
<1>4. CASE Start
  <2>1. todo' \subseteq Entry
    BY <1>1, <1>2, <1>4 DEF Start, StaleJobs
  <2>2. job' \in [Videos -> JobRow]
    <3>1. \A v \in Videos : [job[v] EXCEPT !.owner = IF @ = "mine" THEN "former" ELSE @] \in JobRow
      BY <1>1 DEF JobRow
    <3> QED BY <1>4, <3>1 DEF Start
  <2> QED BY <1>4, <2>1, <2>2 DEF Start, Phases, Quiet, LibraryTypes
<1>5. CASE ShutDown
  <2>1. job' \in [Videos -> JobRow]
    <3>1. \A v \in Videos :
            [job[v] EXCEPT !.owner = IF @ = "mine" /\ job[v].state = "open" THEN "none" ELSE @] \in JobRow
      BY <1>1 DEF JobRow
    <3> QED BY <1>5, <3>1 DEF ShutDown
  <2>2. video' \in [Videos -> Row]
    <3> DEFINE back == {v \in Videos : \/ v = at.video /\ pc = "encode" /\ Stored(v)
                                       \/ job[v].owner = "mine" /\ job[v].state = "open"
                                          /\ video[v].status = "processing"}
    <3>1. video' = [v \in Videos |-> [video[v] EXCEPT !.status = IF v \in back THEN "pending" ELSE @]]
      BY <1>5 DEF ShutDown
    <3> HIDE DEF back
    <3> QED BY <1>1, <3>1 DEF Row
  <2> QED BY <1>5, <2>1, <2>2 DEF ShutDown, Phases, Quiet, LibraryTypes
<1>6. CASE \E e \in todo : GiveUp(e) \/ ResetForRetry(e) \/ PurgeExpired(e)
  <2>1. PICK e \in todo : GiveUp(e) \/ ResetForRetry(e) \/ PurgeExpired(e)
    BY <1>6
  <2>2. UNCHANGED <<request, pc, at>> /\ todo' \subseteq Entry
    BY <1>1, <2>1 DEF GiveUp, ResetForRetry, PurgeExpired
  <2> QED BY <2>1, <2>2, RecoveryTypes DEF LibraryTypes
<1>7. CASE \E e \in todo : VideoGone(e) \/ SourceMissing(e) \/ SourceFound(e)
  <2>1. PICK e \in todo : VideoGone(e) \/ SourceMissing(e) \/ SourceFound(e)
    BY <1>7
  <2>2. e.video \in Videos
    BY <1>1 DEF Entry
  <2>3. [video |-> e.video, job |-> 0] \in Located
    BY <2>2, LibraryAssumption DEF Located
  <2>4. todo' \subseteq Entry /\ UNCHANGED <<job, source, files, request>> /\ pc' \in Phases /\ at' \in Located
    BY <1>1, <2>1, <2>3 DEF VideoGone, SourceMissing, SourceFound, Quiet, Phases
  <2>5. video' \in [Videos -> Row]
    BY <1>1, <2>1, <2>2, RowWrites DEF VideoGone, SourceMissing, SourceFound
  <2> QED BY <2>4, <2>5 DEF LibraryTypes
<1>8. CASE ClaimLocally
  <2>1. job[at.video] \in JobRow
    BY <1>1
  <2>2. [job[at.video] EXCEPT !.owner = "LOCAL_WORKER", !.claim = "live"] \in JobRow /\ job[at.video].id \in 0 .. MaxJobs
    BY <2>1 DEF JobRow
  <2>3. job' \in [Videos -> JobRow] /\ at' \in Located
    BY <1>1, <1>8, <2>2 DEF ClaimLocally, Located
  <2> QED BY <1>8, <2>3 DEF ClaimLocally, Quiet, Phases, LibraryTypes
<1>9. CASE MarkProcessing \/ ProbeFails \/ Probed \/ Encoded \/ MarkReady \/ MarkJobCompleted
           \/ MarkJobFailed \/ MarkVideoFailed
  <2>1. video' \in [Videos -> Row]
    <3>1. CASE MarkReady
      BY <1>1, <3>1 DEF MarkReady, Row
    <3>2. CASE ~MarkReady
      BY <1>1, <1>9, <3>2, RowWrites DEF MarkProcessing, ProbeFails, Probed, Encoded, MarkJobCompleted,
         MarkJobFailed,
         MarkVideoFailed
    <3> QED BY <3>1, <3>2
  <2>2. job' \in [Videos -> JobRow]
    <3>1. job[at.video] \in JobRow
      BY <1>1
    <3>2. CASE MarkJobFailed
      BY SMTT(30), <1>1, <3>2 DEF MarkJobFailed, JobRow
    <3>3. [job EXCEPT ![at.video].state = "done", ![at.video].checkpoint = "fresh"] \in [Videos -> JobRow]
      BY <1>1 DEF JobRow
    <3>4. [job EXCEPT ![at.video].checkpoint = "fresh",
                      ![at.video].claim = IF @ = "none" THEN "none" ELSE "live"] \in [Videos -> JobRow]
      BY SMTT(30), <1>1 DEF JobRow
    <3>5. CASE ~MarkJobFailed
      BY <1>1, <1>9, <3>3, <3>4, <3>5 DEF MarkProcessing, ProbeFails, Probed, Encoded, MarkReady,
         MarkJobCompleted,
         MarkVideoFailed, Checkpoint
    <3> QED BY <3>2, <3>5
  <2>3. files' \in [Videos -> Places]
    <3>1. CASE Probed \/ Encoded
      <4>1. PICK f \in {"part", "whole", files[at.video].videos} : files' = [files EXCEPT ![at.video].videos = f]
        BY <3>1 DEF Probed, Encoded
      <4>2. [files[at.video] EXCEPT !.videos = f] \in Places
        BY <1>1 DEF Places, Output
      <4> QED BY <1>1, <4>1, <4>2
    <3>2. CASE ~(Probed \/ Encoded)
      BY <1>1, <1>9, <3>2 DEF MarkProcessing, ProbeFails, MarkReady, MarkJobCompleted, MarkJobFailed,
         MarkVideoFailed, Quiet
    <3> QED BY <3>1, <3>2
  <2>4. pc' \in Phases /\ UNCHANGED <<source, request, todo, at>>
    BY <1>9 DEF MarkProcessing, ProbeFails, Probed, Encoded, MarkReady, MarkJobCompleted, MarkJobFailed,
       MarkVideoFailed, Quiet, Phases
  <2> QED BY <2>1, <2>2, <2>3, <2>4 DEF LibraryTypes
<1> QED BY <1>3, <1>4, <1>5, <1>6, <1>7, <1>8, <1>9 DEF WorkerStep

\* The library begins with no rows, no files and no request.
LEMMA LibraryTypesInit ==
  ASSUME Videos # {} PROVE Init => LibraryTypes
<1> SUFFICES ASSUME Init PROVE LibraryTypes
  OBVIOUS
<1>1. NoRequest \in Request
  BY LibraryBeginnings
<1>2. (CHOOSE v \in Videos : TRUE) \in Videos
  OBVIOUS
<1>3. MaxJobs \in Nat /\ 0 \in 0 .. MaxJobs
  BY LibraryAssumption
<1>4. video \in [Videos -> Row] /\ job \in [Videos -> JobRow]
  BY <1>3 DEF Init, LibraryInit, Row, JobRow
<1>5. files \in [Videos -> Places] /\ request \in [Requests -> Request] /\ at \in Located
  BY <1>1, <1>2, <1>3 DEF Init, LibraryInit, WorkerInit, Places, Output, Located
<1> QED BY <1>4, <1>5 DEF Init, LibraryInit, WorkerInit, LibraryTypes, Phases

\* The types are kept by every step of the admin, of the others and of the worker.
LEMMA LibraryTypesStep == LibraryTypes /\ [Next]_vars => LibraryTypes'
<1> SUFFICES ASSUME LibraryTypes, [Next]_vars PROVE LibraryTypes'
  OBVIOUS
<1>1. CASE UNCHANGED vars
  BY <1>1 DEF LibraryTypes, vars, libraryVars, workerVars
<1> QED BY <1>1, AdminTypes, ElsewhereTypes, WorkerTypes DEF Next

AdminOf(r) ==
  \/ OpenFile(r) \/ FileSaved(r) \/ SaveFails(r) \/ CreateJob(r) \/ CreateJobFails(r)
  \/ MoveToArchive(r) \/ MoveToArchiveFails(r) \/ MoveFromArchive(r)
  \/ MoveFromArchiveFails(r) \/ PurgeFiles(r) \/ WriteRetry(r) \/ WriteRetranscode(r)
  \/ WriteReupload(r) \/ ReuploadFails(r) \/ WritePublished(r)
  \/ \E v \in Videos :
       \/ InsertVideo(r, v) \/ MarkDeleted(r, v) \/ MarkRestored(r, v) \/ PurgeRows(r, v)
       \/ CheckRetry(r, v) \/ CheckRetranscode(r, v) \/ BulkRetranscode(r, v)
       \/ BeginReupload(r, v) \/ BeginReuploadFails(r, v) \/ ReadForPublish(r, v) \/ UpdateVideo(r, v)

\* Nothing of the video is in the archive, but for what a request that failed left there.
Clean(v) == files[v].archive \in {"none", "torn"} /\ source[v] # "archive"

\* Whole files are in their place, or in the archive with nothing in their place; or a
\* request that failed has left there what it left.
Restorable(v) ==
  files[v].videos \in {"whole", "torn"} \/ (files[v].videos = "none" /\ files[v].archive \in {"whole", "torn"})

InProcess == pc \in {"mark", "probe", "encode", "ready", "complete", "failing", "failed"}
Asks(r, op, v) == request[r].op = op /\ request[r].video = v

\* A job belongs to a row, an id that is not used yet has nothing in the archive, and
\* neither a request nor the worker is ever at such an id.
RowsInv ==
  /\ \A v \in Videos : ~Stored(v) => job[v].state = "none"
  /\ \A v \in Videos : video[v].status = "unused" => Clean(v)
  /\ \A r \in Requests : request[r].op # "none" => video[request[r].video].status # "unused"
  /\ InProcess => video[at.video].status # "unused"
  /\ \A r \in Requests : request[r].op = "purge" => ~Stored(request[r].video)
  /\ \A r \in Requests : request[r].op \in {"reupload", "retry", "retranscode"} => request[r].op \in deployment.offered
  /\ \A v \in Videos : job[v].retranscode => "retranscode" \in deployment.offered
  /\ \A v \in Videos : job[v].owner = "remote" => deployment.remote

\* What a step makes of one video's row, job, source and files; the other videos keep theirs.
RowBecomes(u, status, deletedAt) ==
  /\ video'[u].status = status /\ video'[u].deletedAt = deletedAt
  /\ \A w \in Videos \ {u} : video'[w] = video[w]
JobBecomes(u, state, again) ==
  /\ job'[u].state = state /\ job'[u].retranscode = again
  /\ job'[u].owner = "remote" => job[u].owner = "remote" \/ deployment.remote
  /\ \A w \in Videos \ {u} : job'[w] = job[w]
SourceBecomes(u, place) ==
  /\ source'[u] = place
  /\ \A w \in Videos \ {u} : source'[w] = source[w]
FilesBecome(u, inVideos, inArchive) ==
  /\ files'[u].videos = inVideos /\ files'[u].archive = inArchive
  /\ \A w \in Videos \ {u} : files'[w] = files[w]
RequestBecomes(r, op, step, v) ==
  /\ request'[r].op = op /\ request'[r].step = step /\ request'[r].video = v
Answered(r) == request'[r].op = "none"

\* Writing and dropping rows, in these terms.
LEMMA RowEffects ==
  ASSUME LibraryTypes, NEW u \in Videos
  PROVE  /\ \A s \in {"unused", "pending", "processing", "ready", "failed", "purged"} :
              SetStatus(u, s) => RowBecomes(u, IF Stored(u) THEN s ELSE video[u].status, video[u].deletedAt)
         /\ \A d \in {"null", "recent", "expired"} :
              SetDeleted(u, d) => RowBecomes(u, video[u].status, IF Stored(u) THEN d ELSE video[u].deletedAt)
         /\ DropRows(u) => /\ RowBecomes(u, "purged", video[u].deletedAt)
                           /\ JobBecomes(u, "none", job[u].retranscode)
         /\ RemoveFiles(u) => /\ FilesBecome(u, "none", "none")
                              /\ SourceBecomes(u, IF SourceInUploads(u) THEN "none" ELSE source[u])
<1>1. video \in [Videos -> Row] /\ job \in [Videos -> JobRow] /\ files \in [Videos -> Places]
      /\ source \in [Videos -> {"none", "part", "uploads", "archive"}]
  BY DEF LibraryTypes
<1>2. ASSUME NEW s \in {"unused", "pending", "processing", "ready", "failed", "purged"}, SetStatus(u, s)
      PROVE  RowBecomes(u, IF Stored(u) THEN s ELSE video[u].status, video[u].deletedAt)
  BY <1>1, <1>2 DEF SetStatus, RowBecomes, Row
<1>3. ASSUME NEW d \in {"null", "recent", "expired"}, SetDeleted(u, d)
      PROVE  RowBecomes(u, video[u].status, IF Stored(u) THEN d ELSE video[u].deletedAt)
  BY <1>1, <1>3 DEF SetDeleted, RowBecomes, Row
<1>4. ASSUME DropRows(u)
      PROVE  RowBecomes(u, "purged", video[u].deletedAt) /\ JobBecomes(u, "none", job[u].retranscode)
  <2>1. Gone(u).state = "none" /\ Gone(u).owner = "none" /\ Gone(u).retranscode = job[u].retranscode
    BY LibraryBeginnings
  <2> QED BY <1>1, <1>4, <2>1 DEF DropRows, RowBecomes, JobBecomes, Row
<1>5. ASSUME RemoveFiles(u)
      PROVE  /\ FilesBecome(u, "none", "none")
             /\ SourceBecomes(u, IF SourceInUploads(u) THEN "none" ELSE source[u])
  BY <1>1, <1>5 DEF RemoveFiles, FilesBecome, SourceBecomes, Places, Output
<1> QED BY <1>2, <1>3, <1>4, <1>5

\* How a request goes on, in these terms.
LEMMA RequestEffects ==
  ASSUME Videos # {}, LibraryTypes, NEW r \in Requests
  PROVE  /\ Answer(r) => Answered(r)
         /\ \A step \in Steps : GoTo(r, step) => RequestBecomes(r, request[r].op, step, request[r].video)
         /\ \A op \in Ops, step \in Steps, v \in Videos : Begin(r, op, step, v) => RequestBecomes(r, op, step, v)
<1>1. request \in [Requests -> Request] /\ NoRequest.op = "none"
  BY LibraryBeginnings DEF LibraryTypes
<1>2. Answer(r) => Answered(r)
  BY <1>1 DEF Answer, Answered
<1>3. \A step \in Steps : GoTo(r, step) => RequestBecomes(r, request[r].op, step, request[r].video)
  BY <1>1 DEF GoTo, RequestBecomes, Request
<1>4. \A op \in Ops, step \in Steps, v \in Videos : Begin(r, op, step, v) => RequestBecomes(r, op, step, v)
  BY <1>1 DEF Begin, RequestBecomes, Request
<1> QED BY <1>2, <1>3, <1>4

\* What each step of a request does to the video it is about.
AfterOpenFile(r, u) ==
  /\ request[r].op \in {"upload", "reupload"} /\ request[r].step = "save"
  /\ SourceBecomes(u, IF source[u] = "none" THEN "part" ELSE source[u])
  /\ RequestBecomes(r, request[r].op, "write", u)
  /\ UNCHANGED <<video, job, files>>
AfterFileSaved(r, u) ==
  /\ request[r].op \in {"upload", "reupload"} /\ request[r].step = "write"
  /\ SourceBecomes(u, IF source[u] = "part" THEN "uploads" ELSE source[u])
  /\ \/ /\ request[r].op = "upload" /\ RequestBecomes(r, "upload", "job", u)
        /\ FilesBecome(u, IF files[u].videos = "none" THEN "part" ELSE files[u].videos, files[u].archive)
     \/ request[r].op = "reupload" /\ Answered(r) /\ UNCHANGED files
  /\ UNCHANGED <<video, job>>
RowsDropped(u) == RowBecomes(u, "purged", video[u].deletedAt) /\ JobBecomes(u, "none", job[u].retranscode)
AfterSaveFails(r, u) ==
  /\ request[r].op \in {"upload", "reupload"} /\ request[r].step = "write"
  /\ SourceBecomes(u, IF SourceInUploads(u) THEN "none" ELSE source[u])
  /\ RowsDropped(u) \/ UNCHANGED <<video, job>>
  /\ Answered(r) /\ UNCHANGED files
AfterCreateJob(r, u) ==
  /\ request[r].op = "upload" /\ Stored(u)
  /\ JobBecomes(u, "open", FALSE)
  /\ Answered(r) /\ UNCHANGED <<video, source, files>>
AfterCreateJobFails(r, u) ==
  /\ request[r].op = "upload"
  /\ SourceBecomes(u, IF SourceInUploads(u) THEN "none" ELSE source[u])
  /\ RowsDropped(u) \/ (~Stored(u) /\ UNCHANGED <<video, job>>)
  /\ FilesBecome(u, "none", files[u].archive)
  /\ Answered(r)
AfterMoveToArchive(r, u) ==
  /\ request[r].op = "delete"
  /\ \/ files[u].videos = "none" /\ FilesBecome(u, "none", files[u].archive)
     \/ /\ files[u].videos # "none"
        /\ FilesBecome(u, "none", IF files[u].archive = "none" THEN files[u].videos ELSE files[u].archive)
  /\ SourceBecomes(u, IF SourceInUploads(u) THEN "archive" ELSE source[u])
  /\ Answered(r) /\ UNCHANGED <<video, job>>
AfterMoveFromArchive(r, u) ==
  /\ request[r].op = "restore"
  /\ \/ files[u].archive = "none" /\ FilesBecome(u, files[u].videos, "none")
     \/ /\ files[u].archive # "none"
        /\ FilesBecome(u, IF files[u].videos = "none" THEN files[u].archive ELSE files[u].videos, "none")
  /\ SourceBecomes(u, IF source[u] = "archive" THEN "uploads" ELSE source[u])
  /\ Answered(r) /\ UNCHANGED <<video, job>>
AfterMoveFails(r, u) ==
  /\ \/ /\ request[r].op = "delete"
        /\ RowBecomes(u, video[u].status, IF Stored(u) THEN "null" ELSE video[u].deletedAt)
        /\ Clean(u) => files'[u].archive \in {"none", "torn"} /\ (Restorable(u) => Restorable(u)')
     \/ /\ request[r].op = "restore"
        /\ RowBecomes(u, video[u].status, IF Stored(u) THEN "recent" ELSE video[u].deletedAt)
        /\ Restorable(u) => Restorable(u)'
  /\ \A w \in Videos \ {u} : files'[w] = files[w]
  /\ Answered(r) /\ UNCHANGED <<job, source>>
AfterPurgeFiles(r, u) ==
  /\ request[r].op = "purge"
  /\ FilesBecome(u, "none", "none")
  /\ SourceBecomes(u, IF SourceInUploads(u) THEN "none" ELSE source[u])
  /\ Answered(r) /\ UNCHANGED <<video, job>>
AfterWriteRetry(r, u) ==
  /\ request[r].op = "retry"
  /\ RowBecomes(u, IF Stored(u) THEN "pending" ELSE video[u].status, video[u].deletedAt)
  /\ Answered(r) /\ UNCHANGED <<job, source, files>>
AfterWriteRetranscode(r, u) ==
  /\ request[r].op = "retranscode"
  /\ (Stored(u) /\ JobBecomes(u, "open", TRUE)) \/ UNCHANGED job
  /\ Answered(r) /\ UNCHANGED <<video, source, files>>
AfterWriteReupload(r, u) ==
  /\ request[r].op = "reupload" /\ request[r].step = "rows"
  /\ \/ /\ Stored(u)
        /\ RowBecomes(u, "pending", video[u].deletedAt) /\ JobBecomes(u, "open", FALSE)
        /\ RequestBecomes(r, "reupload", "save", u)
     \/ ~Stored(u) /\ Answered(r) /\ UNCHANGED <<video, job>>
  /\ UNCHANGED <<source, files>>
AfterReuploadFails(r, u) ==
  /\ request[r].op = "reupload" /\ request[r].step = "rows"
  /\ \E left \in Output : /\ FilesBecome(u, left, files[u].archive)
                          /\ left \in {"none", "whole", "torn"} /\ (left = "none" => files[u].videos = "none")
  /\ Answered(r) /\ UNCHANGED <<video, job, source>>
AfterWritePublished(r, u) ==
  /\ request[r].op \in {"publish", "unpublish"}
  /\ RowBecomes(u, video[u].status, video[u].deletedAt)
  /\ Answered(r) /\ UNCHANGED <<job, source, files>>

\* They do so: the uploads ...
LEMMA UploadEffects ==
  ASSUME Videos # {}, LibraryTypes, NEW r \in Requests, NEW u \in Videos, u = request[r].video
  PROVE  /\ OpenFile(r) => AfterOpenFile(r, u)
         /\ FileSaved(r) => AfterFileSaved(r, u)
         /\ SaveFails(r) => AfterSaveFails(r, u)
         /\ CreateJob(r) => AfterCreateJob(r, u)
         /\ CreateJobFails(r) => AfterCreateJobFails(r, u)
<1>1. job \in [Videos -> JobRow] /\ files \in [Videos -> Places]
      /\ source \in [Videos -> {"none", "part", "uploads", "archive"}]
  BY DEF LibraryTypes
<1>2. OpenFile(r) => AfterOpenFile(r, u)
  BY <1>1, RequestEffects DEF OpenFile, AfterOpenFile, SourceBecomes, Steps
<1>3. FileSaved(r) => AfterFileSaved(r, u)
  BY <1>1, RequestEffects DEF FileSaved, AfterFileSaved, SourceBecomes, FilesBecome, Places, Output, Steps
<1>4. SaveFails(r) => AfterSaveFails(r, u)
  BY <1>1, RequestEffects, RowEffects DEF SaveFails, AfterSaveFails, RowsDropped, SourceBecomes
<1>5. CreateJob(r) => AfterCreateJob(r, u)
  <2>1. job[u].id < MaxJobs =>
          NewJob(u, FALSE).state = "open" /\ NewJob(u, FALSE).retranscode = FALSE /\ NewJob(u, FALSE).owner = "none"
    BY LibraryBeginnings
  <2>2. Answer(r) => Answered(r)
    BY RequestEffects
  <2> QED BY <1>1, <2>1, <2>2 DEF CreateJob, AfterCreateJob, At, JobBecomes
<1>6. CreateJobFails(r) => AfterCreateJobFails(r, u)
  BY <1>1, RequestEffects, RowEffects DEF CreateJobFails, AfterCreateJobFails, RowsDropped, At, SourceBecomes,
     FilesBecome, Places, Output
<1> QED BY <1>2, <1>3, <1>4, <1>5, <1>6

\* What a deletion that fails leaves of a directory with nothing of it in the archive: whole
\* or damaged files where they were, or damaged ones in the archive.
LEMMA FailedDeletion ==
  ASSUME NEW u \in Videos, files[u] \in Places, files[u].archive \in {"none", "torn"}, NEW left \in NotDeleted(u)
  PROVE  /\ left.archive \in {"none", "torn"}
         /\ files[u].videos \in {"whole", "torn"} \/ (files[u].videos = "none" /\ files[u].archive = "torn") =>
              left.videos \in {"whole", "torn"} \/ (left.videos = "none" /\ left.archive = "torn")
<1> DEFINE f == files[u]
           moved == ToArchive(f)
<1>1. CASE f.videos = "none"
  BY <1>1 DEF NotDeleted
<1>2. CASE f.videos # "none"
  <2>1. /\ moved = [videos |-> "none", archive |-> IF f.archive = "none" THEN f.videos ELSE f.archive]
        /\ moved.archive # "none"
    BY <1>2 DEF ToArchive
  <2>2. FromArchive(moved) = [archive |-> "none", videos |-> moved.archive]
    BY <2>1 DEF FromArchive
  <2>3. \/ left \in ToArchiveFails(f) \/ left = FromArchive(moved)
        \/ \E h \in FromArchiveFails(moved) : left = [h EXCEPT !.archive = "torn"]
    BY <1>2 DEF NotDeleted
  <2>4. CASE left \in ToArchiveFails(f)
    BY <1>2, <2>4 DEF ToArchiveFails, Torn, Places, Output
  <2>5. CASE left = FromArchive(moved)
    <3>1. left.archive = "none" /\ left.videos = moved.archive
      BY <2>2, <2>5
    <3> QED BY <2>1, <3>1, <1>2
  <2>6. CASE \E h \in FromArchiveFails(moved) : left = [h EXCEPT !.archive = "torn"]
    <3>1. left.archive = "torn" /\ left.videos \in {"none", "torn"}
      <4>1. \A h \in FromArchiveFails(moved) : h = [videos |-> h.videos, archive |-> h.archive] /\ h.videos \in {"none", "torn"}
        BY <2>1 DEF FromArchiveFails, Torn
      <4> QED BY <2>6, <4>1
    <3> QED BY <3>1
  <2> QED BY <2>3, <2>4, <2>5, <2>6
<1> QED BY <1>1, <1>2

\* And a restoration that fails.
LEMMA FailedRestoration ==
  ASSUME NEW u \in Videos, files[u] \in Places, NEW left \in NotRestored(u),
         files[u].videos \in {"whole", "torn"} \/ (files[u].videos = "none" /\ files[u].archive \in {"whole", "torn"})
  PROVE  left.videos \in {"whole", "torn"} \/ (left.videos = "none" /\ left.archive \in {"whole", "torn"})
<1> DEFINE f == files[u]
           moved == FromArchive(f)
<1>1. CASE f.archive = "none"
  BY <1>1 DEF NotRestored
<1>2. CASE f.archive # "none"
  <2>1. /\ moved = [archive |-> "none", videos |-> IF f.videos = "none" THEN f.archive ELSE f.videos]
        /\ moved.videos \in {"whole", "torn"}
    BY <1>2 DEF FromArchive
  <2>2. ToArchive(moved) = [videos |-> "none", archive |-> moved.videos]
    BY <2>1 DEF ToArchive
  <2>3. \/ left \in FromArchiveFails(f) \/ left = ToArchive(moved)
        \/ \E h \in ToArchiveFails(moved) : left = [h EXCEPT !.videos = "torn"]
    BY <1>2 DEF NotRestored
  <2>4. CASE left \in FromArchiveFails(f)
    BY <1>2, <2>4 DEF FromArchiveFails, Torn, Places, Output
  <2>5. CASE left = ToArchive(moved)
    <3>1. left.videos = "none" /\ left.archive = moved.videos
      BY <2>2, <2>5
    <3> QED BY <2>1, <3>1
  <2>6. CASE \E h \in ToArchiveFails(moved) : left = [h EXCEPT !.videos = "torn"]
    <3>1. \A h \in ToArchiveFails(moved) : h = [videos |-> h.videos, archive |-> h.archive]
      BY <2>1 DEF ToArchiveFails
    <3> QED BY <2>6, <3>1
  <2> QED BY <2>3, <2>4, <2>5, <2>6
<1> QED BY <1>1, <1>2

\* ... the moves and removals of files ...
LEMMA MoveEffects ==
  ASSUME Videos # {}, LibraryTypes, NEW r \in Requests, NEW u \in Videos, u = request[r].video
  PROVE  /\ MoveToArchive(r) => AfterMoveToArchive(r, u)
         /\ MoveFromArchive(r) => AfterMoveFromArchive(r, u)
         /\ MoveToArchiveFails(r) \/ MoveFromArchiveFails(r) => AfterMoveFails(r, u)
         /\ PurgeFiles(r) => AfterPurgeFiles(r, u)
<1>1. files \in [Videos -> Places] /\ files[u] \in Places
      /\ source \in [Videos -> {"none", "part", "uploads", "archive"}]
  BY DEF LibraryTypes
<1>2. MoveToArchive(r) => AfterMoveToArchive(r, u)
  BY <1>1, RequestEffects DEF MoveToArchive, ToArchive, AfterMoveToArchive, At, SourceBecomes, FilesBecome, Places, Output
<1>3. MoveFromArchive(r) => AfterMoveFromArchive(r, u)
  BY <1>1, RequestEffects DEF MoveFromArchive, FromArchive, AfterMoveFromArchive, At, SourceBecomes, FilesBecome, Places, Output
<1>4. ASSUME MoveToArchiveFails(r) PROVE AfterMoveFails(r, u)
  <2>1. PICK left \in NotDeleted(u) : files' = [files EXCEPT ![u] = left]
    BY <1>4 DEF MoveToArchiveFails
  <2>2. files'[u] = left /\ \A w \in Videos \ {u} : files'[w] = files[w]
    BY <1>1, <2>1
  <2>3. Clean(u) =>
          /\ left.archive \in {"none", "torn"}
          /\ Restorable(u) => \/ left.videos \in {"whole", "torn"}
                              \/ (left.videos = "none" /\ left.archive \in {"whole", "torn"})
    BY <1>1, FailedDeletion DEF Clean, Restorable
  <2> QED BY <1>4, <2>2, <2>3, RequestEffects, RowEffects DEF MoveToArchiveFails, AfterMoveFails, At, Restorable
<1>6. ASSUME MoveFromArchiveFails(r) PROVE AfterMoveFails(r, u)
  <2>1. PICK left \in NotRestored(u) : files' = [files EXCEPT ![u] = left]
    BY <1>6 DEF MoveFromArchiveFails
  <2>2. files'[u] = left /\ \A w \in Videos \ {u} : files'[w] = files[w]
    BY <1>1, <2>1
  <2>3. Restorable(u) => \/ left.videos \in {"whole", "torn"}
                        \/ (left.videos = "none" /\ left.archive \in {"whole", "torn"})
    BY <1>1, FailedRestoration DEF Restorable
  <2> QED BY <1>6, <2>2, <2>3, RequestEffects, RowEffects DEF MoveFromArchiveFails, AfterMoveFails, At, Restorable
<1>5. PurgeFiles(r) => AfterPurgeFiles(r, u)
  BY RequestEffects, RowEffects DEF PurgeFiles, AfterPurgeFiles, At
<1> QED BY <1>2, <1>3, <1>4, <1>5, <1>6

\* ... and the later statements of the other requests.
LEMMA WriteEffects ==
  ASSUME Videos # {}, LibraryTypes, NEW r \in Requests, NEW u \in Videos, u = request[r].video
  PROVE  /\ WriteRetry(r) => AfterWriteRetry(r, u)
         /\ WriteRetranscode(r) => AfterWriteRetranscode(r, u)
         /\ WriteReupload(r) => AfterWriteReupload(r, u)
         /\ ReuploadFails(r) => AfterReuploadFails(r, u)
         /\ WritePublished(r) => AfterWritePublished(r, u)
<1>1. video \in [Videos -> Row] /\ job \in [Videos -> JobRow] /\ files \in [Videos -> Places] /\ files[u] \in Places
  BY DEF LibraryTypes
<1>2. WriteRetry(r) => AfterWriteRetry(r, u)
  BY RequestEffects, RowEffects DEF WriteRetry, AfterWriteRetry, At
<1>3. WriteRetranscode(r) => AfterWriteRetranscode(r, u)
  BY <1>1, RequestEffects, LibraryBeginnings DEF WriteRetranscode, AfterWriteRetranscode, At, JobBecomes
<1>4. WriteReupload(r) => AfterWriteReupload(r, u)
  <2>1. SetStatus(u, "pending") => RowBecomes(u, IF Stored(u) THEN "pending" ELSE video[u].status, video[u].deletedAt)
    BY RowEffects
  <2>2. SetStatus(u, "pending") /\ ~Stored(u) => UNCHANGED video
    BY DEF SetStatus
  <2>3. GoTo(r, "save") => RequestBecomes(r, request[r].op, "save", u)
    BY RequestEffects DEF Steps
  <2>4. Answer(r) => Answered(r)
    BY RequestEffects
  <2>5. job[u].id < MaxJobs =>
          NewJob(u, FALSE).state = "open" /\ NewJob(u, FALSE).retranscode = FALSE /\ NewJob(u, FALSE).owner = "none"
    BY LibraryBeginnings
  <2> QED BY <1>1, <2>1, <2>2, <2>3, <2>4, <2>5 DEF WriteReupload, AfterWriteReupload, At, JobBecomes
<1>5. WritePublished(r) => AfterWritePublished(r, u)
  BY <1>1, RequestEffects DEF WritePublished, AfterWritePublished, RowBecomes, Row
<1>6. ASSUME ReuploadFails(r) PROVE AfterReuploadFails(r, u)
  <2>1. FilesBecome(u, IF files[u].videos = "part" THEN "torn" ELSE files[u].videos, files[u].archive)
    BY <1>1, <1>6 DEF ReuploadFails, FilesBecome, Places, Output
  <2> QED BY <1>1, <1>6, <2>1, RequestEffects DEF ReuploadFails, AfterReuploadFails, At, Places, Output
<1> QED BY <1>2, <1>3, <1>4, <1>5, <1>6


\* What beginning a request does.
AfterInsertVideo(r, v) ==
  /\ Free(r) /\ video[v].status = "unused"
  /\ RowBecomes(v, "pending", video[v].deletedAt)
  /\ RequestBecomes(r, "upload", "save", v)
  /\ UNCHANGED <<job, source, files>>
AfterMarkDeleted(r, v) ==
  /\ Free(r) /\ Stored(v) /\ (~Archived(v) \/ deployment.again)
  /\ RowBecomes(v, video[v].status, "recent")
  /\ RequestBecomes(r, "delete", "move", v)
  /\ UNCHANGED <<job, source, files>>
AfterMarkRestored(r, v) ==
  /\ Free(r) /\ Stored(v) /\ Archived(v)
  /\ RowBecomes(v, video[v].status, "null")
  /\ RequestBecomes(r, "restore", "move", v)
  /\ UNCHANGED <<job, source, files>>
AfterPurgeRows(r, v) ==
  /\ Free(r) /\ Stored(v) /\ RowsDropped(v)
  /\ RequestBecomes(r, "purge", "move", v)
  /\ UNCHANGED <<source, files>>
AfterCheck(r, v) ==
  /\ Free(r) /\ Stored(v)
  /\ \E op \in {"retry", "retranscode", "publish", "unpublish"} :
       /\ op \in {"retry", "retranscode"} => op \in deployment.offered
       /\ RequestBecomes(r, op, "rows", v)
  /\ UNCHANGED <<video, job, source, files>>
AfterBeginReupload(r, v) ==
  /\ Free(r) /\ "reupload" \in deployment.offered
  /\ Stored(v) /\ ~Archived(v) /\ video[v].status # "processing"
  /\ FilesBecome(v, "part", files[v].archive)
  /\ SourceBecomes(v, IF SourceInUploads(v) THEN "none" ELSE source[v])
  /\ RequestBecomes(r, "reupload", "rows", v)
  /\ UNCHANGED <<video, job>>
AfterBeginReuploadFails(v) ==
  /\ Stored(v) /\ FilesBecome(v, "torn", files[v].archive)
  /\ UNCHANGED <<video, job, source, request>>
AfterUpdateVideo(r, v) ==
  /\ RowBecomes(v, video[v].status, video[v].deletedAt)
  /\ UNCHANGED <<job, source, files, request>>

\* ... the first statements of requests ...
LEMMA BeginEffects ==
  ASSUME Videos # {}, LibraryTypes, NEW r \in Requests, NEW v \in Videos
  PROVE  /\ InsertVideo(r, v) => AfterInsertVideo(r, v)
         /\ MarkDeleted(r, v) => AfterMarkDeleted(r, v)
         /\ MarkRestored(r, v) => AfterMarkRestored(r, v)
         /\ PurgeRows(r, v) => AfterPurgeRows(r, v)
         /\ CheckRetry(r, v) \/ CheckRetranscode(r, v) \/ BulkRetranscode(r, v) \/ ReadForPublish(r, v) => AfterCheck(r, v)
         /\ BeginReupload(r, v) => AfterBeginReupload(r, v)
         /\ BeginReuploadFails(r, v) => AfterBeginReuploadFails(v)
         /\ UpdateVideo(r, v) => AfterUpdateVideo(r, v)
<1>1. /\ video \in [Videos -> Row] /\ files \in [Videos -> Places]
      /\ source \in [Videos -> {"none", "part", "uploads", "archive"}]
  BY DEF LibraryTypes
<1>2. InsertVideo(r, v) => AfterInsertVideo(r, v)
  BY <1>1, RequestEffects DEF InsertVideo, AfterInsertVideo, Asked, RowBecomes, Row, Ops, Steps
<1>3. MarkDeleted(r, v) => AfterMarkDeleted(r, v)
  BY RequestEffects, RowEffects DEF MarkDeleted, AfterMarkDeleted, Asked, Ops, Steps
<1>4. MarkRestored(r, v) => AfterMarkRestored(r, v)
  BY RequestEffects, RowEffects DEF MarkRestored, AfterMarkRestored, Asked, Ops, Steps
<1>5. PurgeRows(r, v) => AfterPurgeRows(r, v)
  BY RequestEffects, RowEffects DEF PurgeRows, AfterPurgeRows, RowsDropped, Asked, Ops, Steps
<1>6. CheckRetry(r, v) \/ CheckRetranscode(r, v) \/ BulkRetranscode(r, v) \/ ReadForPublish(r, v) => AfterCheck(r, v)
  BY RequestEffects DEF CheckRetry, CheckRetranscode, BulkRetranscode, ReadForPublish, AfterCheck, Asked,
     Stored, Ops, Steps
<1>7. BeginReupload(r, v) => AfterBeginReupload(r, v)
  BY <1>1, RequestEffects DEF BeginReupload, AfterBeginReupload, Asked, FilesBecome, SourceBecomes, Places, Output,
     Ops, Steps
<1>8. UpdateVideo(r, v) => AfterUpdateVideo(r, v)
  BY <1>1 DEF UpdateVideo, AfterUpdateVideo, RowBecomes, Row
<1>9. BeginReuploadFails(r, v) => AfterBeginReuploadFails(v)
  BY <1>1 DEF BeginReuploadFails, AfterBeginReuploadFails, FilesBecome, Places, Output
<1> QED BY <1>2, <1>3, <1>4, <1>5, <1>6, <1>7, <1>8, <1>9

\* What time and the remote workers do.
AfterJobTouched(v) ==
  /\ JobBecomes(v, job[v].state, job[v].retranscode)
  /\ UNCHANGED <<video, source, files, request>>
AfterRetentionEnds(v) ==
  /\ video[v].deletedAt = "recent"
  /\ RowBecomes(v, video[v].status, "expired")
  /\ UNCHANGED <<job, source, files, request>>
AfterRemoteClaim(v) ==
  /\ deployment.remote /\ job[v].state = "open"
  /\ RowBecomes(v, "processing", video[v].deletedAt)
  /\ JobBecomes(v, "open", FALSE)
  /\ FilesBecome(v, IF job[v].retranscode THEN "part" ELSE files[v].videos, files[v].archive)
  /\ UNCHANGED <<source, request>>
AfterRemoteComplete(v) ==
  /\ job[v].state = "open" /\ job[v].owner = "remote"
  /\ RowBecomes(v, "ready", video[v].deletedAt)
  /\ JobBecomes(v, "done", job[v].retranscode)
  /\ FilesBecome(v, "whole", files[v].archive)
  /\ UNCHANGED <<source, request>>
AfterReleaseLapsed(v) ==
  /\ deployment.remote /\ job[v].state = "open"
  /\ RowBecomes(v, IF video[v].status = "processing" THEN "pending" ELSE video[v].status, video[v].deletedAt)
  /\ JobBecomes(v, "open", job[v].retranscode)
  /\ UNCHANGED <<source, files, request>>

\* ... what time and the other workers do ...
LEMMA ElsewhereEffects ==
  ASSUME LibraryTypes, NEW v \in Videos
  PROVE  /\ ClaimLapses(v) \/ CheckpointAges(v) \/ RemoteProgress(v) => AfterJobTouched(v)
         /\ RetentionEnds(v) => AfterRetentionEnds(v)
         /\ RemoteClaim(v) => AfterRemoteClaim(v)
         /\ RemoteComplete(v) => AfterRemoteComplete(v)
         /\ ReleaseLapsed(v) => AfterReleaseLapsed(v)
<1>1. video \in [Videos -> Row] /\ job \in [Videos -> JobRow] /\ files \in [Videos -> Places]
  BY DEF LibraryTypes
<1>2. ClaimLapses(v) \/ CheckpointAges(v) \/ RemoteProgress(v) => AfterJobTouched(v)
  BY <1>1 DEF ClaimLapses, CheckpointAges, RemoteProgress, AfterJobTouched, JobBecomes, JobRow
<1>3. RetentionEnds(v) => AfterRetentionEnds(v)
  BY <1>1 DEF RetentionEnds, AfterRetentionEnds, RowBecomes, Row
<1>4. RemoteClaim(v) => AfterRemoteClaim(v)
  BY <1>1 DEF RemoteClaim, AfterRemoteClaim, RowBecomes, JobBecomes, FilesBecome, Row, JobRow, Places, Output
<1>5. RemoteComplete(v) => AfterRemoteComplete(v)
  BY <1>1 DEF RemoteComplete, RemoteHolds, AfterRemoteComplete, RowBecomes, JobBecomes, FilesBecome, Row,
     JobRow, Places, Output
<1>6. ReleaseLapsed(v) => AfterReleaseLapsed(v)
  BY <1>1 DEF ReleaseLapsed, AfterReleaseLapsed, RowBecomes, JobBecomes, Row, JobRow
<1> QED BY <1>2, <1>3, <1>4, <1>5, <1>6

\* What the worker does: to its snapshot, ...
AfterSnapshot ==
  /\ ~InProcess'
  /\ \A v \in Videos : /\ job'[v].state = job[v].state /\ job'[v].retranscode = job[v].retranscode
                       /\ job'[v].owner = "remote" => job[v].owner = "remote"
  /\ UNCHANGED <<video, source, files, request>>
AfterShutDown ==
  /\ ~InProcess'
  /\ \A v \in Videos : /\ job'[v].state = job[v].state /\ job'[v].retranscode = job[v].retranscode
                       /\ job'[v].owner = "remote" => job[v].owner = "remote"
                       /\ video'[v].deletedAt = video[v].deletedAt
                       /\ video'[v].status = video[v].status \/ (Stored(v) /\ video'[v].status = "pending")
  /\ UNCHANGED <<source, files, request>>
\* ... to an entry of it, ...
Ended(u) == (job[u].state # "none" /\ JobBecomes(u, "done", job[u].retranscode)) \/ UNCHANGED job
AfterGiveUp(u) ==
  /\ ~InProcess' /\ Stored(u)
  /\ Ended(u) /\ RowBecomes(u, "failed", video[u].deletedAt)
  /\ SourceBecomes(u, IF SourceInUploads(u) THEN "none" ELSE source[u]) \/ UNCHANGED source
  /\ UNCHANGED <<files, request>>
AfterResetForRetry(u) ==
  /\ ~InProcess' /\ Stored(u)
  /\ (job[u].state # "none" /\ JobBecomes(u, "open", job[u].retranscode)) \/ UNCHANGED job
  /\ RowBecomes(u, "pending", video[u].deletedAt)
  /\ FilesBecome(u, "part", files[u].archive) \/ UNCHANGED files
  /\ UNCHANGED <<source, request>>
AfterPurgeExpired(u) ==
  /\ ~InProcess'
  /\ RowsDropped(u)
  /\ FilesBecome(u, "none", "none")
  /\ SourceBecomes(u, IF SourceInUploads(u) THEN "none" ELSE source[u])
  /\ UNCHANGED request
AfterSourceMissing(u) ==
  /\ ~InProcess'
  /\ RowBecomes(u, IF Stored(u) THEN "failed" ELSE video[u].status, video[u].deletedAt)
  /\ UNCHANGED <<job, source, files, request>>
\* ... and to the video that it processes.
Goes(from, to) == pc \in from /\ pc' = to /\ at'.video = at.video /\ UNCHANGED request
Touched(u) == JobBecomes(u, job[u].state, job[u].retranscode) \/ UNCHANGED job
AfterClaimLocally(u) ==
  /\ Goes({"claim"}, "mark") /\ job[u].state = "open"
  /\ JobBecomes(u, "open", job[u].retranscode)
  /\ UNCHANGED <<video, source, files>>
AfterMarkProcessing(u) ==
  /\ Goes({"mark"}, "probe")
  /\ RowBecomes(u, IF Stored(u) THEN "processing" ELSE video[u].status, video[u].deletedAt)
  /\ UNCHANGED <<job, source, files>>
AfterProbed(u) ==
  /\ Goes({"probe"}, "encode") /\ source[u] = "uploads" /\ Touched(u)
  /\ RowBecomes(u, IF Stored(u) THEN "processing" ELSE video[u].status, video[u].deletedAt)
  /\ FilesBecome(u, IF files[u].videos = "none" THEN "part" ELSE files[u].videos, files[u].archive)
  /\ UNCHANGED source
AfterEncoded(u) ==
  /\ Goes({"encode"}, "ready") /\ Touched(u)
  /\ FilesBecome(u, "whole", files[u].archive)
  /\ UNCHANGED <<video, source>>
AfterMarkReady(u) ==
  /\ Goes({"ready"}, "complete")
  /\ RowBecomes(u, IF Stored(u) THEN "ready" ELSE video[u].status, video[u].deletedAt)
  /\ UNCHANGED <<job, source, files>>
AfterEncodeFails(u) ==
  /\ Goes({"encode", "ready"}, "failing")
  /\ UNCHANGED <<video, job, source, files>>
AfterJobWritten(u) ==
  /\ Goes({"probe", "failing"}, "failed") \/ Goes({"complete"}, "pending")
  /\ Ended(u) \/ Touched(u)
  /\ UNCHANGED <<video, source, files>>
AfterMarkVideoFailed(u) ==
  /\ Goes({"failed"}, "pending")
  /\ RowBecomes(u, IF Stored(u) THEN "failed" ELSE video[u].status, video[u].deletedAt)
  /\ UNCHANGED <<job, source, files>>

\* ... the worker's reading of the tables, which changes nothing of them but the owners of
\* jobs, and its orderly stop ...
LEMMA SnapshotEffects ==
  ASSUME LibraryTypes
  PROVE  /\ Start \/ CheckStaleJobs \/ FindExpiredArchives \/ FindPendingVideos \/ ListDone \/ NothingToClaim \/ Crash
              => AfterSnapshot
         /\ \A e \in todo : VideoGone(e) \/ SourceFound(e) => AfterSnapshot
         /\ ShutDown => AfterShutDown
<1>1. job \in [Videos -> JobRow] /\ video \in [Videos -> Row]
  BY DEF LibraryTypes
<1>2. Start => AfterSnapshot
  <2> SUFFICES ASSUME Start PROVE AfterSnapshot
    OBVIOUS
  <2>1. ASSUME NEW v \in Videos
        PROVE  /\ job'[v].state = job[v].state /\ job'[v].retranscode = job[v].retranscode
               /\ job'[v].owner = "remote" => job[v].owner = "remote"
    <3>1. job[v] \in JobRow /\ job'[v] = [job[v] EXCEPT !.owner = IF @ = "mine" THEN "former" ELSE @]
      BY <1>1 DEF Start
    <3> QED BY <3>1 DEF JobRow
  <2> QED BY <2>1 DEF Start, AfterSnapshot, InProcess, Quiet
<1>3. CheckStaleJobs \/ FindExpiredArchives \/ FindPendingVideos \/ ListDone \/ NothingToClaim \/ Crash => AfterSnapshot
  BY DEF CheckStaleJobs, FindExpiredArchives, FindPendingVideos, ListDone, NothingToClaim, Crash, AfterSnapshot,
     InProcess, Quiet
<1>4. \A e \in todo : VideoGone(e) \/ SourceFound(e) => AfterSnapshot
  BY DEF VideoGone, SourceFound, AfterSnapshot, InProcess, Quiet
<1>5. ShutDown => AfterShutDown
  <2> SUFFICES ASSUME ShutDown PROVE AfterShutDown
    OBVIOUS
  <2>1. ASSUME NEW v \in Videos
        PROVE  /\ job'[v].state = job[v].state /\ job'[v].retranscode = job[v].retranscode
               /\ job'[v].owner = "remote" => job[v].owner = "remote"
    <3>1. job[v] \in JobRow
          /\ job'[v] = [job[v] EXCEPT !.owner = IF @ = "mine" /\ job[v].state = "open" THEN "none" ELSE @]
      BY <1>1 DEF ShutDown
    <3> QED BY <3>1 DEF JobRow
  <2>2. ASSUME NEW v \in Videos
        PROVE  /\ video'[v].deletedAt = video[v].deletedAt
               /\ video'[v].status = video[v].status \/ (Stored(v) /\ video'[v].status = "pending")
    <3> DEFINE back == {w \in Videos : \/ w = at.video /\ pc = "encode" /\ Stored(w)
                                       \/ job[w].owner = "mine" /\ job[w].state = "open"
                                          /\ video[w].status = "processing"}
    <3>1. video' = [w \in Videos |-> [video[w] EXCEPT !.status = IF w \in back THEN "pending" ELSE @]]
      BY DEF ShutDown
    <3>2. v \in back => Stored(v)
      BY DEF Stored
    <3> HIDE DEF back
    <3>3. video'[v] = [video[v] EXCEPT !.status = IF v \in back THEN "pending" ELSE @] /\ video[v] \in Row
      BY <1>1, <3>1
    <3> QED BY <3>2, <3>3 DEF Row
  <2> QED BY <2>1, <2>2 DEF ShutDown, AfterShutDown, InProcess, Quiet
<1> QED BY <1>2, <1>3, <1>4, <1>5

\* ... what the worker does with an entry of its list ...
LEMMA EntryEffects ==
  ASSUME LibraryTypes, NEW e \in todo
  PROVE  /\ GiveUp(e) => AfterGiveUp(e.video)
         /\ ResetForRetry(e) => AfterResetForRetry(e.video)
         /\ PurgeExpired(e) => AfterPurgeExpired(e.video)
         /\ SourceMissing(e) => AfterSourceMissing(e.video)
<1> DEFINE u == e.video
<1>1. /\ u \in Videos /\ video \in [Videos -> Row] /\ job \in [Videos -> JobRow] /\ files \in [Videos -> Places]
      /\ source \in [Videos -> {"none", "part", "uploads", "archive"}]
  BY DEF LibraryTypes, Entry
<1>2. GiveUp(e) => AfterGiveUp(e.video)
  <2> SUFFICES ASSUME GiveUp(e) PROVE AfterGiveUp(u)
    OBVIOUS
  <2>1. Ended(u)
    BY <1>1 DEF GiveUp, SameJob, Ended, JobBecomes, JobRow
  <2>2. RowBecomes(u, "failed", video[u].deletedAt)
    BY <1>1 DEF GiveUp, RowBecomes, Row
  <2>3. SourceBecomes(u, IF SourceInUploads(u) THEN "none" ELSE source[u]) \/ UNCHANGED source
    BY <1>1 DEF GiveUp, SourceBecomes
  <2>4. pc \in {"recover", "stale"} /\ Stored(u) /\ UNCHANGED <<files, request, pc>>
    BY DEF GiveUp
  <2> QED BY <2>1, <2>2, <2>3, <2>4 DEF AfterGiveUp, InProcess
<1>3. ResetForRetry(e) => AfterResetForRetry(e.video)
  <2> SUFFICES ASSUME ResetForRetry(e) PROVE AfterResetForRetry(u)
    OBVIOUS
  <2>1. (job[u].state # "none" /\ JobBecomes(u, "open", job[u].retranscode)) \/ UNCHANGED job
    BY <1>1 DEF ResetForRetry, SameJob, JobBecomes, JobRow
  <2>2. RowBecomes(u, "pending", video[u].deletedAt)
    BY <1>1 DEF ResetForRetry, RowBecomes, Row
  <2>3. FilesBecome(u, "part", files[u].archive) \/ UNCHANGED files
    BY <1>1 DEF ResetForRetry, FilesBecome, Places, Output
  <2>4. pc \in {"recover", "stale"} /\ Stored(u) /\ UNCHANGED <<source, request, pc>>
    BY DEF ResetForRetry
  <2> QED BY <2>1, <2>2, <2>3, <2>4 DEF AfterResetForRetry, InProcess
<1>4. PurgeExpired(e) => AfterPurgeExpired(e.video)
  BY <1>1, RowEffects DEF PurgeExpired, AfterPurgeExpired, RowsDropped, InProcess
<1>5. SourceMissing(e) => AfterSourceMissing(e.video)
  BY <1>1, RowEffects DEF SourceMissing, AfterSourceMissing, InProcess, Quiet
<1> QED BY <1>2, <1>3, <1>4, <1>5

\* ... and what it does with the video that it processes.
LEMMA ProcessEffects ==
  ASSUME LibraryTypes, NEW u \in Videos, u = at.video
  PROVE  /\ ClaimLocally => AfterClaimLocally(u)
         /\ MarkProcessing => AfterMarkProcessing(u)
         /\ Probed => AfterProbed(u)
         /\ Encoded => AfterEncoded(u)
         /\ MarkReady => AfterMarkReady(u)
         /\ EncodeFails => AfterEncodeFails(u)
         /\ ProbeFails \/ MarkJobCompleted \/ MarkJobFailed => AfterJobWritten(u)
         /\ MarkVideoFailed => AfterMarkVideoFailed(u)
<1>1. /\ video \in [Videos -> Row] /\ job \in [Videos -> JobRow] /\ files \in [Videos -> Places] /\ at \in Located
  BY DEF LibraryTypes
<1>2. ClaimLocally => AfterClaimLocally(u)
  BY <1>1 DEF ClaimLocally, LocallyClaimable, AfterClaimLocally, Goes, JobBecomes, Quiet, JobRow, Located
<1>3. Checkpoint => Touched(u)
  BY <1>1 DEF Checkpoint, Mine, Touched, JobBecomes, JobRow
<1>4. MarkProcessing => AfterMarkProcessing(u)
  BY RowEffects DEF MarkProcessing, AfterMarkProcessing, Goes, Quiet
<1>5. Probed => AfterProbed(u)
  BY <1>1, <1>3, RowEffects DEF Probed, AfterProbed, Goes, FilesBecome, Places, Output
<1>6. Encoded => AfterEncoded(u)
  BY <1>1, <1>3 DEF Encoded, AfterEncoded, Goes, FilesBecome, Places, Output
<1>7. MarkReady => AfterMarkReady(u)
  BY <1>1 DEF MarkReady, AfterMarkReady, Goes, RowBecomes, Quiet, Row
<1>8. EncodeFails => AfterEncodeFails(u)
  BY DEF EncodeFails, AfterEncodeFails, Goes, Quiet
<1>9. ProbeFails \/ MarkJobCompleted \/ MarkJobFailed => AfterJobWritten(u)
  BY <1>1 DEF ProbeFails, MarkJobCompleted, MarkJobFailed, Mine, AfterJobWritten, Goes, Ended, Touched,
     JobBecomes,
     Quiet, JobRow
<1>10. MarkVideoFailed => AfterMarkVideoFailed(u)
  BY RowEffects DEF MarkVideoFailed, AfterMarkVideoFailed, Goes, Quiet
<1> QED BY <1>2, <1>4, <1>5, <1>6, <1>7, <1>8, <1>9, <1>10

-----------------------------------------------------------------------------
(* The rows are kept by every step.                                            *)

\* By the steps of an upload and of what follows it,
LEMMA RowsUpload ==
  ASSUME OneAtATime, Videos # {}, LibraryTypes, RowsInv, NEW r \in Requests,
         UNCHANGED <<workerVars, deployment>>,
         OpenFile(r) \/ FileSaved(r) \/ SaveFails(r) \/ CreateJob(r) \/ CreateJobFails(r)
  PROVE  RowsInv'
<1>1. PICK u \in Videos : u = request[r].video
  BY DEF LibraryTypes, Request
<1>2. (\A s \in Requests : s = r) /\ at.video \in Videos /\ UNCHANGED <<pc, at, deployment>>
  BY DEF OneAtATime, LibraryTypes, Located, workerVars
<1>3. CASE OpenFile(r)
  <2>1. AfterOpenFile(r, u)
    BY <1>1, <1>3, UploadEffects
  <2> QED BY <1>1, <1>2, <2>1 DEF AfterOpenFile, SourceBecomes, RequestBecomes, RowsInv, Clean, InProcess,
       Stored
<1>4. CASE FileSaved(r)
  <2>1. AfterFileSaved(r, u)
    BY <1>1, <1>4, UploadEffects
  <2> QED BY <1>1, <1>2, <2>1 DEF AfterFileSaved, SourceBecomes, FilesBecome, RequestBecomes, Answered,
       RowsInv, Clean, InProcess, Stored
<1>5. CASE SaveFails(r)
  <2>1. AfterSaveFails(r, u)
    BY <1>1, <1>5, UploadEffects
  <2> QED BY <1>1, <1>2, <2>1 DEF AfterSaveFails, RowsDropped, SourceInUploads, RowBecomes, JobBecomes,
       SourceBecomes, Answered, RowsInv, Clean, InProcess, Stored
<1>6. CASE CreateJob(r)
  <2>1. AfterCreateJob(r, u)
    BY <1>1, <1>6, UploadEffects
  <2> QED BY <1>1, <1>2, <2>1 DEF AfterCreateJob, JobBecomes, Answered, RowsInv, Clean, InProcess, Stored
<1>7. CASE CreateJobFails(r)
  <2>1. AfterCreateJobFails(r, u)
    BY <1>1, <1>7, UploadEffects
  <2>2. Answered(r) /\ \A w \in Videos \ {u} : /\ video'[w] = video[w] /\ job'[w] = job[w]
                                              /\ files'[w] = files[w] /\ source'[w] = source[w]
    BY <2>1 DEF AfterCreateJobFails, RowsDropped, RowBecomes, JobBecomes, FilesBecome, SourceBecomes
  <2>3. \/ UNCHANGED <<video, job>>
        \/ /\ video'[u].status = "purged" /\ job'[u].state = "none" /\ job'[u].retranscode = job[u].retranscode
           /\ job'[u].owner = "remote" => job[u].owner = "remote" \/ deployment.remote
    BY <2>1 DEF AfterCreateJobFails, RowsDropped, RowBecomes, JobBecomes
  <2>4. video[u].status # "unused"
    BY <1>1, <2>1 DEF AfterCreateJobFails, RowsInv
  <2> QED BY <1>2, <2>2, <2>3, <2>4 DEF Answered, RowsInv, Clean, InProcess, Stored
<1> QED BY <1>3, <1>4, <1>5, <1>6, <1>7

\* by the moves and removals of files and the last statements of requests,
LEMMA RowsMoves ==
  ASSUME OneAtATime, Videos # {}, LibraryTypes, RowsInv, NEW r \in Requests,
         UNCHANGED <<workerVars, deployment>>,
         \/ MoveToArchive(r) \/ MoveFromArchive(r) \/ MoveToArchiveFails(r) \/ MoveFromArchiveFails(r)
         \/ PurgeFiles(r) \/ WriteRetry(r) \/ WriteRetranscode(r) \/ WriteReupload(r) \/ ReuploadFails(r)
         \/ WritePublished(r)
  PROVE  RowsInv'
<1>1. PICK u \in Videos : u = request[r].video
  BY DEF LibraryTypes, Request
<1>2. (\A s \in Requests : s = r) /\ at.video \in Videos /\ UNCHANGED <<pc, at, deployment>>
  BY DEF OneAtATime, LibraryTypes, Located, workerVars
<1>3. CASE AfterMoveToArchive(r, u) \/ AfterMoveFromArchive(r, u) \/ AfterPurgeFiles(r, u)
  <2>1. UNCHANGED <<video, job>> /\ Answered(r)
    BY <1>3 DEF AfterMoveToArchive, AfterMoveFromArchive, AfterPurgeFiles
  <2>2. \A w \in Videos : video[w].status = "unused" => files'[w] = files[w] /\ source'[w] = source[w]
    BY <1>1, <1>2, <1>3 DEF AfterMoveToArchive, AfterMoveFromArchive, AfterPurgeFiles, SourceBecomes, FilesBecome, RowsInv
  <2> QED BY <1>2, <2>1, <2>2 DEF Answered, RowsInv, Clean, InProcess, Stored
<1>4. CASE AfterMoveFails(r, u) \/ AfterWriteRetry(r, u) \/ AfterWritePublished(r, u) \/ AfterReuploadFails(r, u)
  <2>1. UNCHANGED <<job, source>> /\ Answered(r) /\ \A w \in Videos \ {u} : files'[w] = files[w]
    BY <1>4 DEF AfterMoveFails, AfterWriteRetry, AfterWritePublished, AfterReuploadFails, FilesBecome
  <2>2. request[r].op # "none"
    BY <1>4 DEF AfterMoveFails, AfterWriteRetry, AfterWritePublished, AfterReuploadFails
  <2>3. \A w \in Videos : (Stored(w)' <=> Stored(w)) /\ (video'[w].status = "unused" <=> video[w].status = "unused")
    BY <1>1, <1>4, <2>2 DEF AfterMoveFails, AfterWriteRetry, AfterWritePublished, AfterReuploadFails, RowBecomes, Stored
  <2>4. video[u].status # "unused"
    BY <1>1, <2>2 DEF RowsInv
  <2> QED BY <1>2, <2>1, <2>3, <2>4 DEF Answered, RowsInv, Clean, InProcess
<1>5. CASE AfterWriteRetranscode(r, u)
  BY <1>1, <1>2, <1>5 DEF AfterWriteRetranscode, JobBecomes, Answered, RowsInv, Clean, InProcess, Stored
<1>6. CASE AfterWriteReupload(r, u)
  BY <1>1, <1>2, <1>6 DEF AfterWriteReupload, RowBecomes, JobBecomes, RequestBecomes, Answered, RowsInv, Clean,
     InProcess, Stored
<1> QED BY <1>1, <1>3, <1>4, <1>5, <1>6, MoveEffects, WriteEffects

\* by the first statements of requests,
LEMMA RowsBegin ==
  ASSUME OneAtATime, Videos # {}, LibraryTypes, RowsInv, NEW r \in Requests, NEW v \in Videos,
         UNCHANGED <<workerVars, deployment>>,
         \/ InsertVideo(r, v) \/ MarkDeleted(r, v) \/ MarkRestored(r, v) \/ PurgeRows(r, v)
         \/ CheckRetry(r, v) \/ CheckRetranscode(r, v) \/ BulkRetranscode(r, v)
         \/ BeginReupload(r, v) \/ BeginReuploadFails(r, v) \/ ReadForPublish(r, v) \/ UpdateVideo(r, v)
  PROVE  RowsInv'
<1>1. /\ (\A s \in Requests : s = r) /\ request[r].video \in Videos /\ at.video \in Videos
      /\ UNCHANGED <<pc, at, deployment>>
  BY DEF OneAtATime, LibraryTypes, Located, Request, workerVars
<1>2. CASE AfterInsertVideo(r, v)
  BY <1>1, <1>2 DEF AfterInsertVideo, RowBecomes, RequestBecomes, RowsInv, Clean, InProcess, Stored
<1>3. CASE AfterMarkDeleted(r, v) \/ AfterMarkRestored(r, v) \/ AfterUpdateVideo(r, v)
  BY <1>1, <1>3 DEF AfterMarkDeleted, AfterMarkRestored, AfterUpdateVideo, RowBecomes, RequestBecomes,
     RowsInv, Clean,
     InProcess, Stored
<1>4. CASE AfterPurgeRows(r, v)
  BY <1>1, <1>4 DEF AfterPurgeRows, RowsDropped, RowBecomes, JobBecomes, RequestBecomes, RowsInv, Clean,
     InProcess, Stored
<1>5. CASE AfterCheck(r, v)
  BY <1>1, <1>5 DEF AfterCheck, RequestBecomes, RowsInv, Clean, InProcess, Stored
<1>6. CASE AfterBeginReupload(r, v)
  BY <1>1, <1>6 DEF AfterBeginReupload, SourceInUploads, FilesBecome, SourceBecomes, RequestBecomes, RowsInv,
     Clean,
     InProcess, Stored
<1>7. CASE AfterBeginReuploadFails(v)
  BY <1>1, <1>7 DEF AfterBeginReuploadFails, FilesBecome, RowsInv, Clean, InProcess, Stored
<1> QED BY <1>2, <1>3, <1>4, <1>5, <1>6, <1>7, BeginEffects

\* by time and the other workers,
LEMMA RowsElsewhere ==
  ASSUME LibraryTypes, RowsInv, UNCHANGED <<workerVars, deployment>>, Elsewhere
  PROVE  RowsInv'
<1>1. PICK v \in Videos : \/ AfterJobTouched(v) \/ AfterRetentionEnds(v) \/ AfterRemoteClaim(v)
                          \/ AfterRemoteComplete(v) \/ AfterReleaseLapsed(v)
  BY ElsewhereEffects DEF Elsewhere
<1>2. at.video \in Videos /\ UNCHANGED <<pc, at, deployment>> /\ \A s \in Requests : request[s].video \in Videos
  BY DEF LibraryTypes, Located, Request, workerVars
<1> QED BY <1>1, <1>2 DEF AfterJobTouched, AfterRetentionEnds, AfterRemoteClaim, AfterRemoteComplete,
     AfterReleaseLapsed,
     RowBecomes, JobBecomes, FilesBecome, RowsInv, Clean, InProcess, Stored

\* and by the worker.
LEMMA RowsWorker ==
  ASSUME LibraryTypes, RowsInv, UNCHANGED deployment, WorkerStep
  PROVE  RowsInv'
<1>1. at.video \in Videos /\ UNCHANGED deployment /\ \A s \in Requests : request[s].video \in Videos
  BY DEF LibraryTypes, Located, Request
<1>2. CASE AfterSnapshot \/ AfterShutDown
  BY <1>1, <1>2 DEF AfterSnapshot, AfterShutDown, RowsInv, Clean, Stored
<1>3. CASE \E e \in todo : \/ AfterGiveUp(e.video) \/ AfterResetForRetry(e.video) \/ AfterPurgeExpired(e.video)
                           \/ AfterSourceMissing(e.video)
  <2>1. PICK u \in Videos : AfterGiveUp(u) \/ AfterResetForRetry(u) \/ AfterPurgeExpired(u) \/ AfterSourceMissing(u)
    BY <1>3 DEF LibraryTypes, Entry
  <2> QED BY <1>1, <2>1 DEF AfterGiveUp, AfterResetForRetry, AfterPurgeExpired, AfterSourceMissing, Ended,
       RowsDropped,
       SourceInUploads, RowBecomes, JobBecomes, FilesBecome, SourceBecomes, RowsInv, Clean, Stored
<1>4. CASE \E u \in Videos : u = at.video /\ \/ AfterClaimLocally(u) \/ AfterMarkProcessing(u) \/ AfterProbed(u)
                                             \/ AfterEncoded(u) \/ AfterMarkReady(u) \/ AfterEncodeFails(u)
                                             \/ AfterJobWritten(u) \/ AfterMarkVideoFailed(u)
  <2>1. PICK u \in Videos : u = at.video /\ \/ AfterClaimLocally(u) \/ AfterMarkProcessing(u) \/ AfterProbed(u)
                                             \/ AfterEncoded(u) \/ AfterMarkReady(u) \/ AfterEncodeFails(u)
                                             \/ AfterJobWritten(u) \/ AfterMarkVideoFailed(u)
    BY <1>4
  <2>2. CASE AfterClaimLocally(u)
    BY <1>1, <2>1, <2>2 DEF AfterClaimLocally, Goes, JobBecomes, RowsInv, Clean, InProcess, Stored
  <2>3. CASE AfterMarkProcessing(u) \/ AfterMarkReady(u) \/ AfterMarkVideoFailed(u)
    <3>1. UNCHANGED <<job, source, files, request>> /\ at'.video = at.video /\ InProcess
      BY <2>3 DEF AfterMarkProcessing, AfterMarkReady, AfterMarkVideoFailed, Goes, InProcess
    <3>2. \A w \in Videos : (Stored(w)' <=> Stored(w)) /\ (video'[w].status = "unused" <=> video[w].status = "unused")
      BY <2>3 DEF AfterMarkProcessing, AfterMarkReady, AfterMarkVideoFailed, RowBecomes, Stored
    <3> QED BY <1>1, <3>1, <3>2 DEF RowsInv, Clean
  <2>4. CASE AfterProbed(u)
    BY <1>1, <2>1, <2>4 DEF AfterProbed, Goes, Touched, RowBecomes, JobBecomes, FilesBecome, RowsInv, Clean,
       InProcess, Stored
  <2>5. CASE AfterEncoded(u)
    BY <1>1, <2>1, <2>5 DEF AfterEncoded, Goes, Touched, JobBecomes, FilesBecome, RowsInv, Clean, InProcess, Stored
  <2>6. CASE AfterEncodeFails(u) \/ AfterJobWritten(u)
    BY <1>1, <2>1, <2>6 DEF AfterEncodeFails, AfterJobWritten, Goes, Touched, Ended, JobBecomes, RowsInv, Clean,
       InProcess, Stored
  <2> QED BY <2>1, <2>2, <2>3, <2>4, <2>5, <2>6
<1> QED BY <1>1, <1>2, <1>3, <1>4, SnapshotEffects, EntryEffects, ProcessEffects DEF WorkerStep

\* So every step keeps the rows.
LEMMA RowsStep == ASSUME OneAtATime, Videos # {} PROVE LibraryTypes /\ RowsInv /\ [Next]_vars => RowsInv'
<1> SUFFICES ASSUME LibraryTypes, RowsInv, [Next]_vars PROVE RowsInv'
  OBVIOUS
<1>1. CASE UNCHANGED vars
  BY <1>1 DEF RowsInv, Clean, InProcess, Stored, vars, libraryVars, workerVars
<1>2. CASE AdminStep /\ UNCHANGED <<workerVars, deployment>>
  BY <1>2, RowsUpload, RowsMoves, RowsBegin DEF AdminStep, BulkDelete, BulkRestore, BulkUpdate
<1> QED BY <1>1, <1>2, RowsElsewhere, RowsWorker DEF Next

-----------------------------------------------------------------------------
(* A first upload is left alone.                                               *)

\* While a first upload is at work its video has no job, is not shown, and is not the one
\* that the worker processes.
UploadInv ==
  \A r \in Requests : request[r].op = "upload" =>
    /\ job[request[r].video].state = "none" /\ video[request[r].video].status # "ready"
    /\ InProcess => at.video # request[r].video

\* The one request that is made keeps it: a video that is inserted has no job, and a job
\* ends the upload.
LEMMA UploadAdmin ==
  ASSUME OneAtATime, Videos # {}, LibraryTypes, RowsInv, UploadInv, NEW r \in Requests, AdminOf(r),
         UNCHANGED <<workerVars, deployment>>
  PROVE  UploadInv'
<1>1. PICK u \in Videos : u = request[r].video
  BY DEF LibraryTypes, Request
<1>2. (\A s \in Requests : s = r) /\ at.video \in Videos /\ UNCHANGED <<pc, at, deployment>>
  BY DEF OneAtATime, LibraryTypes, Located, workerVars
<1>3. CASE Answered(r)
  BY <1>2, <1>3 DEF Answered, UploadInv
<1>4. CASE AfterOpenFile(r, u) \/ AfterFileSaved(r, u)
  BY <1>1, <1>2, <1>3, <1>4 DEF AfterOpenFile, AfterFileSaved, RequestBecomes, UploadInv, InProcess
<1>5. CASE \E v \in Videos : AfterInsertVideo(r, v)
  BY <1>2, <1>5 DEF AfterInsertVideo, RowBecomes, RequestBecomes, UploadInv, RowsInv, InProcess, Stored
<1>6. CASE \E v \in Videos : AfterUpdateVideo(r, v) \/ AfterBeginReuploadFails(v)
  BY <1>1, <1>2, <1>6 DEF AfterUpdateVideo, AfterBeginReuploadFails, RowBecomes, UploadInv, InProcess
<1>7. CASE AfterWriteReupload(r, u)
  BY <1>1, <1>2, <1>3, <1>7 DEF AfterWriteReupload, RequestBecomes, UploadInv
<1>8. CASE \E v \in Videos : \/ AfterMarkDeleted(r, v) \/ AfterMarkRestored(r, v) \/ AfterPurgeRows(r, v)
                             \/ AfterCheck(r, v) \/ AfterBeginReupload(r, v)
  BY <1>2, <1>8 DEF AfterMarkDeleted, AfterMarkRestored, AfterPurgeRows, AfterCheck, AfterBeginReupload,
     RequestBecomes,
     UploadInv
<1>9. \/ AfterOpenFile(r, u) \/ AfterFileSaved(r, u) \/ Answered(r) \/ AfterWriteReupload(r, u)
      \/ \E v \in Videos : \/ AfterInsertVideo(r, v) \/ AfterMarkDeleted(r, v) \/ AfterMarkRestored(r, v)
                           \/ AfterPurgeRows(r, v) \/ AfterCheck(r, v) \/ AfterBeginReupload(r, v)
                           \/ AfterUpdateVideo(r, v) \/ AfterBeginReuploadFails(v)
  BY <1>1, UploadEffects, MoveEffects, WriteEffects, BeginEffects DEF AdminOf, AfterSaveFails, AfterCreateJob,
     AfterCreateJobFails, AfterMoveToArchive, AfterMoveFromArchive, AfterMoveFails, AfterPurgeFiles,
     AfterWriteRetry,
     AfterWriteRetranscode, AfterWritePublished, AfterReuploadFails
<1> QED BY <1>3, <1>4, <1>5, <1>6, <1>7, <1>8, <1>9

\* So do time and the other workers, which give no video a job and process those that have one,
LEMMA UploadElsewhere ==
  ASSUME LibraryTypes, RowsInv, UploadInv, UNCHANGED <<workerVars, deployment>>, Elsewhere
  PROVE  UploadInv'
<1>1. PICK v \in Videos : \/ AfterJobTouched(v) \/ AfterRetentionEnds(v) \/ AfterRemoteClaim(v)
                          \/ AfterRemoteComplete(v) \/ AfterReleaseLapsed(v)
  BY ElsewhereEffects DEF Elsewhere
<1>2. UNCHANGED <<pc, at, request>> /\ \A s \in Requests : request[s].video \in Videos
  BY <1>1 DEF LibraryTypes, Request, workerVars, AfterJobTouched, AfterRetentionEnds, AfterRemoteClaim,
     AfterRemoteComplete, AfterReleaseLapsed
<1> QED BY <1>1, <1>2 DEF AfterJobTouched, AfterRetentionEnds, AfterRemoteClaim, AfterRemoteComplete,
     AfterReleaseLapsed,
     RowBecomes, JobBecomes, UploadInv, InProcess

\* and the worker, which claims a video by its job.
LEMMA UploadWorker ==
  ASSUME LibraryTypes, RowsInv, UploadInv, UNCHANGED deployment, WorkerStep
  PROVE  UploadInv'
<1>1. at.video \in Videos /\ \A s \in Requests : request[s].video \in Videos
  BY DEF LibraryTypes, Located, Request
<1>2. CASE AfterSnapshot \/ AfterShutDown
  BY <1>1, <1>2 DEF AfterSnapshot, AfterShutDown, UploadInv
<1>3. CASE \E e \in todo : \/ AfterGiveUp(e.video) \/ AfterResetForRetry(e.video) \/ AfterPurgeExpired(e.video)
                           \/ AfterSourceMissing(e.video)
  <2>1. PICK u \in Videos : AfterGiveUp(u) \/ AfterResetForRetry(u) \/ AfterPurgeExpired(u) \/ AfterSourceMissing(u)
    BY <1>3 DEF LibraryTypes, Entry
  <2> QED BY <1>1, <2>1 DEF AfterGiveUp, AfterResetForRetry, AfterPurgeExpired, AfterSourceMissing, Ended,
       RowsDropped,
       RowBecomes, JobBecomes, UploadInv
<1>4. CASE \E u \in Videos : u = at.video /\ \/ AfterClaimLocally(u) \/ AfterMarkProcessing(u) \/ AfterProbed(u)
                                             \/ AfterEncoded(u) \/ AfterMarkReady(u) \/ AfterEncodeFails(u)
                                             \/ AfterJobWritten(u) \/ AfterMarkVideoFailed(u)
  BY <1>1, <1>4 DEF AfterClaimLocally, AfterMarkProcessing, AfterProbed, AfterEncoded, AfterMarkReady,
     AfterEncodeFails,
     AfterJobWritten, AfterMarkVideoFailed, Goes, Touched, Ended, RowBecomes, JobBecomes, UploadInv, InProcess
<1> QED BY <1>1, <1>2, <1>3, <1>4, SnapshotEffects, EntryEffects, ProcessEffects DEF WorkerStep

\* So every step leaves a first upload alone.
LEMMA UploadStep ==
  ASSUME OneAtATime, Videos # {} PROVE LibraryTypes /\ RowsInv /\ UploadInv /\ [Next]_vars => UploadInv'
<1> SUFFICES ASSUME LibraryTypes, RowsInv, UploadInv, [Next]_vars PROVE UploadInv'
  OBVIOUS
<1>1. CASE UNCHANGED vars
  BY <1>1 DEF UploadInv, InProcess, vars, libraryVars, workerVars
<1>2. CASE AdminStep /\ UNCHANGED <<workerVars, deployment>>
  BY <1>2, UploadAdmin DEF AdminStep, AdminOf, BulkDelete, BulkRestore, BulkUpdate
<1> QED BY <1>1, <1>2, UploadElsewhere, UploadWorker DEF Next

-----------------------------------------------------------------------------
(* The archive, where no deleted video is deleted again.                       *)

\* delete_video is not asked for a video that is in the archive already: a remote worker may
\* have made a new directory by then, and a failing move of it restores the row alone.
NeverAgain == \A d \in Deployments : ~d.again

\* Outside the archive, and while a deletion has its files still to move, nothing of a
\* stored video is in the archive; a restoration is what brings it back.
ArchiveInv ==
  /\ \A v \in Videos : Stored(v) /\ ~Archived(v) /\ (\A r \in Requests : ~Asks(r, "restore", v)) => Clean(v)
  /\ \A r \in Requests : request[r].op = "delete" /\ Stored(request[r].video) =>
       Archived(request[r].video) /\ Clean(request[r].video)

\* What one request does to one video keeps the archive, if it keeps that video's files there
\* and is not about to delete.
OnlyAt(u) == \A w \in Videos \ {u} : video'[w] = video[w] /\ files'[w] = files[w] /\ source'[w] = source[w]
LEMMA ArchiveKept ==
  ASSUME OneAtATime, ArchiveInv, NEW r \in Requests, NEW u \in Videos, u = request[r].video,
         OnlyAt(u), request'[r].op # "delete",
         Stored(u)' /\ ~Archived(u)' /\ ~Asks(r, "restore", u)' => Clean(u)'
  PROVE  ArchiveInv'
<1>1. \A s \in Requests : s = r
  BY DEF OneAtATime
<1>2. ASSUME NEW w \in Videos \ {u}, Stored(w)', ~Archived(w)' PROVE Clean(w)'
  <2>1. Stored(w) /\ ~Archived(w) /\ (Clean(w) => Clean(w)')
    BY <1>2 DEF OnlyAt, Stored, Archived, Clean
  <2>2. \A s \in Requests : ~Asks(s, "restore", w)
    BY <1>1 DEF Asks
  <2> QED BY <2>1, <2>2 DEF ArchiveInv
<1> QED BY <1>1, <1>2 DEF ArchiveInv

\* What requests do after their first statement keeps the archive: files move only where
\* the invariant says that they still have to.
LEMMA ArchiveMoves ==
  ASSUME OneAtATime, LibraryTypes, ArchiveInv, NEW r \in Requests, NEW u \in Videos, u = request[r].video,
         \/ AfterMoveToArchive(r, u) \/ AfterMoveFromArchive(r, u) \/ AfterMoveFails(r, u) \/ AfterPurgeFiles(r, u)
         \/ AfterWriteRetry(r, u) \/ AfterWriteRetranscode(r, u) \/ AfterWriteReupload(r, u) \/ AfterWritePublished(r, u)
         \/ AfterReuploadFails(r, u) \/ AfterOpenFile(r, u) \/ AfterFileSaved(r, u) \/ AfterSaveFails(r, u) \/ AfterCreateJob(r, u)
         \/ AfterCreateJobFails(r, u),
         RowsInv
  PROVE  ArchiveInv'
<1>1. \A s \in Requests : s = r
  BY DEF OneAtATime
<1>2. Stored(u) /\ ~Archived(u) /\ ~Asks(r, "restore", u) => Clean(u)
  BY <1>1 DEF ArchiveInv
<1>3. request[r].op = "delete" /\ Stored(u) => Archived(u) /\ Clean(u)
  BY DEF ArchiveInv
<1>4. CASE AfterMoveToArchive(r, u)
  <2>1. OnlyAt(u) /\ request'[r].op # "delete"
    BY <1>4 DEF AfterMoveToArchive, OnlyAt, FilesBecome, SourceBecomes, Answered
  <2>2. Stored(u)' /\ ~Archived(u)' /\ ~Asks(r, "restore", u)' => Clean(u)'
    BY <1>2, <1>3, <1>4 DEF AfterMoveToArchive, Asks, Clean, Archived, Stored, FilesBecome, SourceBecomes, Answered
  <2> QED BY <2>1, <2>2, ArchiveKept
<1>5. CASE AfterMoveFromArchive(r, u)
  <2>1. OnlyAt(u) /\ request'[r].op # "delete"
    BY <1>5 DEF AfterMoveFromArchive, OnlyAt, FilesBecome, SourceBecomes, Answered
  <2>2. Stored(u)' /\ ~Archived(u)' /\ ~Asks(r, "restore", u)' => Clean(u)'
    BY <1>2, <1>3, <1>5 DEF AfterMoveFromArchive, Asks, Clean, Archived, Stored, FilesBecome, SourceBecomes, Answered
  <2> QED BY <2>1, <2>2, ArchiveKept
<1>6. CASE AfterMoveFails(r, u)
  <2>1. OnlyAt(u) /\ request'[r].op # "delete"
    BY <1>6 DEF AfterMoveFails, OnlyAt, RowBecomes, FilesBecome, Answered
  <2>2. Stored(u)' /\ ~Archived(u)' /\ ~Asks(r, "restore", u)' => Clean(u)'
    BY <1>2, <1>3, <1>6 DEF AfterMoveFails, Asks, Clean, Archived, Stored, RowBecomes, Answered
  <2> QED BY <2>1, <2>2, ArchiveKept
<1>7. CASE AfterPurgeFiles(r, u)
  <2>1. OnlyAt(u) /\ request'[r].op # "delete"
    BY <1>7 DEF AfterPurgeFiles, OnlyAt, FilesBecome, SourceBecomes, Answered
  <2>2. Stored(u)' /\ ~Archived(u)' /\ ~Asks(r, "restore", u)' => Clean(u)'
    BY <1>2, <1>3, <1>7 DEF AfterPurgeFiles, Asks, Clean, Archived, Stored, FilesBecome, SourceBecomes, SourceInUploads, RowsInv
  <2> QED BY <2>1, <2>2, ArchiveKept
<1>8. CASE AfterWriteRetry(r, u)
  <2>1. OnlyAt(u) /\ request'[r].op # "delete"
    BY <1>8 DEF AfterWriteRetry, OnlyAt, RowBecomes, Answered
  <2>2. Stored(u)' /\ ~Archived(u)' /\ ~Asks(r, "restore", u)' => Clean(u)'
    BY <1>2, <1>3, <1>8 DEF AfterWriteRetry, Asks, Clean, Archived, Stored, RowBecomes, Answered
  <2> QED BY <2>1, <2>2, ArchiveKept
<1>9. CASE AfterWriteRetranscode(r, u)
  <2>1. OnlyAt(u) /\ request'[r].op # "delete"
    BY <1>9 DEF AfterWriteRetranscode, OnlyAt, Answered
  <2>2. Stored(u)' /\ ~Archived(u)' /\ ~Asks(r, "restore", u)' => Clean(u)'
    BY <1>2, <1>3, <1>9 DEF AfterWriteRetranscode, Asks, Clean, Archived, Stored, Answered
  <2> QED BY <2>1, <2>2, ArchiveKept
<1>10. CASE AfterWriteReupload(r, u)
  <2>1. OnlyAt(u) /\ request'[r].op # "delete"
    BY <1>10 DEF AfterWriteReupload, OnlyAt, RowBecomes, RequestBecomes, Answered
  <2>2. Stored(u)' /\ ~Archived(u)' /\ ~Asks(r, "restore", u)' => Clean(u)'
    BY <1>2, <1>3, <1>10 DEF AfterWriteReupload, Asks, Clean, Archived, Stored, RowBecomes, RequestBecomes, Answered
  <2> QED BY <2>1, <2>2, ArchiveKept
<1>11. CASE AfterWritePublished(r, u)
  <2>1. OnlyAt(u) /\ request'[r].op # "delete"
    BY <1>11 DEF AfterWritePublished, OnlyAt, RowBecomes, Answered
  <2>2. Stored(u)' /\ ~Archived(u)' /\ ~Asks(r, "restore", u)' => Clean(u)'
    BY <1>2, <1>3, <1>11 DEF AfterWritePublished, Asks, Clean, Archived, Stored, RowBecomes, Answered
  <2> QED BY <2>1, <2>2, ArchiveKept
<1>12. CASE AfterOpenFile(r, u)
  <2>1. OnlyAt(u) /\ request'[r].op # "delete"
    BY <1>12 DEF AfterOpenFile, OnlyAt, SourceBecomes, RequestBecomes
  <2>2. Stored(u)' /\ ~Archived(u)' /\ ~Asks(r, "restore", u)' => Clean(u)'
    BY <1>2, <1>3, <1>12 DEF AfterOpenFile, Asks, Clean, Archived, Stored, SourceBecomes, RequestBecomes
  <2> QED BY <2>1, <2>2, ArchiveKept
<1>13. CASE AfterFileSaved(r, u)
  <2>1. OnlyAt(u) /\ request'[r].op # "delete"
    BY <1>13 DEF AfterFileSaved, OnlyAt, FilesBecome, SourceBecomes, RequestBecomes, Answered
  <2>2. Stored(u)' /\ ~Archived(u)' /\ ~Asks(r, "restore", u)' => Clean(u)'
    BY <1>2, <1>3, <1>13 DEF AfterFileSaved, Asks, Clean, Archived, Stored, FilesBecome, SourceBecomes, RequestBecomes, Answered
  <2> QED BY <2>1, <2>2, ArchiveKept
<1>14. CASE AfterSaveFails(r, u)
  <2>1. OnlyAt(u) /\ request'[r].op # "delete"
    BY <1>14 DEF AfterSaveFails, OnlyAt, RowsDropped, RowBecomes, SourceBecomes, Answered
  <2>2. Stored(u)' /\ ~Archived(u)' /\ ~Asks(r, "restore", u)' => Clean(u)'
    BY <1>2, <1>3, <1>14 DEF AfterSaveFails, Asks, Clean, Archived, Stored, RowsDropped, RowBecomes, SourceBecomes, SourceInUploads
  <2> QED BY <2>1, <2>2, ArchiveKept
<1>15. CASE AfterCreateJob(r, u)
  <2>1. OnlyAt(u) /\ request'[r].op # "delete"
    BY <1>15 DEF AfterCreateJob, OnlyAt, Answered
  <2>2. Stored(u)' /\ ~Archived(u)' /\ ~Asks(r, "restore", u)' => Clean(u)'
    BY <1>2, <1>3, <1>15 DEF AfterCreateJob, Asks, Clean, Archived, Stored, Answered
  <2> QED BY <2>1, <2>2, ArchiveKept
<1>16. CASE AfterCreateJobFails(r, u)
  <2>1. OnlyAt(u) /\ request'[r].op # "delete"
    BY <1>16 DEF AfterCreateJobFails, OnlyAt, RowsDropped, RowBecomes, FilesBecome, SourceBecomes, Answered
  <2>2. Stored(u)' /\ ~Archived(u)' /\ ~Asks(r, "restore", u)' => Clean(u)'
    BY <1>2, <1>3, <1>16 DEF AfterCreateJobFails, Asks, Clean, Archived, Stored, RowsDropped, RowBecomes, FilesBecome, SourceBecomes, SourceInUploads
  <2> QED BY <2>1, <2>2, ArchiveKept
<1>17. CASE AfterReuploadFails(r, u)
  <2>1. OnlyAt(u) /\ request'[r].op # "delete"
    BY <1>17 DEF AfterReuploadFails, OnlyAt, FilesBecome, Answered
  <2>2. Stored(u)' /\ ~Archived(u)' /\ ~Asks(r, "restore", u)' => Clean(u)'
    BY <1>2, <1>17 DEF AfterReuploadFails, Asks, Clean, Archived, Stored, FilesBecome
  <2> QED BY <2>1, <2>2, ArchiveKept
<1> QED BY <1>4, <1>5, <1>6, <1>7, <1>8, <1>9, <1>10, <1>11, <1>12, <1>13, <1>14, <1>15, <1>16, <1>17

\* Their first statements do, because a video that is deleted is not deleted again.
LEMMA ArchiveBegin ==
  ASSUME OneAtATime, NeverAgain, LibraryTypes, RowsInv, ArchiveInv, NEW r \in Requests, NEW v \in Videos,
         \/ AfterInsertVideo(r, v) \/ AfterMarkDeleted(r, v) \/ AfterMarkRestored(r, v) \/ AfterPurgeRows(r, v)
         \/ AfterCheck(r, v) \/ AfterBeginReupload(r, v) \/ AfterBeginReuploadFails(v) \/ AfterUpdateVideo(r, v)
  PROVE  ArchiveInv'
<1>1. (\A s \in Requests : s = r) /\ ~deployment.again /\ request[r].video \in Videos
  BY DEF OneAtATime, NeverAgain, LibraryTypes, Request
<1>2. CASE AfterInsertVideo(r, v)
  BY <1>1, <1>2 DEF AfterInsertVideo, RowsInv, RowBecomes, RequestBecomes, Free, ArchiveInv, Asks, Clean,
     Archived, Stored
<1>3. CASE AfterMarkDeleted(r, v)
  BY <1>1, <1>3 DEF AfterMarkDeleted, RowBecomes, RequestBecomes, Free, ArchiveInv, Asks, Clean, Archived,
     Stored
<1>4. CASE AfterMarkRestored(r, v)
  BY <1>1, <1>4 DEF AfterMarkRestored, RowBecomes, RequestBecomes, Free, ArchiveInv, Asks, Clean, Archived,
     Stored
<1>5. CASE AfterPurgeRows(r, v)
  BY <1>1, <1>5 DEF AfterPurgeRows, RowsDropped, RowBecomes, RequestBecomes, Free, ArchiveInv, Asks, Clean,
     Archived, Stored
<1>6. CASE AfterCheck(r, v)
  BY <1>1, <1>6 DEF AfterCheck, RequestBecomes, Free, ArchiveInv, Asks, Clean, Archived, Stored
<1>7. CASE AfterBeginReupload(r, v)
  BY <1>1, <1>7 DEF AfterBeginReupload, FilesBecome, SourceBecomes, RequestBecomes, Free, ArchiveInv, Asks,
     Clean, Archived, Stored
<1>8. CASE AfterUpdateVideo(r, v)
  BY <1>1, <1>8 DEF AfterUpdateVideo, RowBecomes, ArchiveInv, Asks, Clean, Archived, Stored
<1>9. CASE AfterBeginReuploadFails(v)
  BY <1>1, <1>9 DEF AfterBeginReuploadFails, FilesBecome, ArchiveInv, Asks, Clean, Archived, Stored
<1> QED BY <1>2, <1>3, <1>4, <1>5, <1>6, <1>7, <1>8, <1>9

\* So do time and the other workers, which move no files into the archive,
LEMMA ArchiveElsewhere ==
  ASSUME LibraryTypes, RowsInv, ArchiveInv, UNCHANGED <<workerVars, deployment>>, Elsewhere
  PROVE  ArchiveInv'
<1>1. PICK v \in Videos : \/ AfterJobTouched(v) \/ AfterRetentionEnds(v) \/ AfterRemoteClaim(v)
                          \/ AfterRemoteComplete(v) \/ AfterReleaseLapsed(v)
  BY ElsewhereEffects DEF Elsewhere
<1>2. UNCHANGED <<source, request>> /\ \A s \in Requests : request[s].video \in Videos
  BY <1>1 DEF LibraryTypes, Request, AfterJobTouched, AfterRetentionEnds, AfterRemoteClaim,
     AfterRemoteComplete, AfterReleaseLapsed
<1>3. \A w \in Videos : /\ video'[w].deletedAt = "null" <=> video[w].deletedAt = "null"
                       /\ files'[w].archive = files[w].archive
  BY <1>1 DEF AfterJobTouched, AfterRetentionEnds, AfterRemoteClaim, AfterRemoteComplete, AfterReleaseLapsed,
     RowBecomes,
     FilesBecome
<1>4. \A w \in Videos : video'[w].status \notin {"unused", "purged"} => Stored(w)
  <2>1. \A w \in Videos : job[w].state = "open" => Stored(w)
    BY DEF RowsInv
  <2> QED BY <1>1, <2>1 DEF AfterJobTouched, AfterRetentionEnds, AfterRemoteClaim, AfterRemoteComplete,
       AfterReleaseLapsed, RowBecomes, Stored
<1>5. UNCHANGED <<source, request>>
  BY <1>2
<1> QED BY <1>2, <1>3, <1>4, <1>5 DEF ArchiveInv, Asks, Clean, Archived, Stored

\* and the worker, which moves no files there either.
LEMMA ArchiveWorker ==
  ASSUME LibraryTypes, RowsInv, ArchiveInv, UNCHANGED deployment, WorkerStep
  PROVE  ArchiveInv'
<1>1. at.video \in Videos /\ \A s \in Requests : request[s].video \in Videos
  BY DEF LibraryTypes, Located, Request
<1>2. CASE AfterSnapshot \/ AfterShutDown
  BY <1>1, <1>2 DEF AfterSnapshot, AfterShutDown, ArchiveInv, Asks, Clean, Archived, Stored
<1>3. CASE \E e \in todo : \/ AfterGiveUp(e.video) \/ AfterResetForRetry(e.video) \/ AfterPurgeExpired(e.video)
                           \/ AfterSourceMissing(e.video)
  <2>1. PICK u \in Videos : AfterGiveUp(u) \/ AfterResetForRetry(u) \/ AfterPurgeExpired(u) \/ AfterSourceMissing(u)
    BY <1>3 DEF LibraryTypes, Entry
  <2> QED BY <1>1, <2>1 DEF AfterGiveUp, AfterResetForRetry, AfterPurgeExpired, AfterSourceMissing, RowsDropped,
       RowBecomes, FilesBecome, SourceBecomes, ArchiveInv, Asks, Clean, Archived, Stored
<1>4. CASE \E u \in Videos : u = at.video /\ \/ AfterClaimLocally(u) \/ AfterMarkProcessing(u) \/ AfterProbed(u)
                                             \/ AfterEncoded(u) \/ AfterMarkReady(u) \/ AfterEncodeFails(u)
                                             \/ AfterJobWritten(u) \/ AfterMarkVideoFailed(u)
  <2>1. PICK u \in Videos : u = at.video /\ \/ AfterClaimLocally(u) \/ AfterMarkProcessing(u) \/ AfterProbed(u)
                                             \/ AfterEncoded(u) \/ AfterMarkReady(u) \/ AfterEncodeFails(u)
                                             \/ AfterJobWritten(u) \/ AfterMarkVideoFailed(u)
    BY <1>4
  <2>2. UNCHANGED <<source, request>>
    BY <2>1 DEF AfterClaimLocally, AfterMarkProcessing, AfterProbed, AfterEncoded, AfterMarkReady, AfterEncodeFails,
       AfterJobWritten, AfterMarkVideoFailed, Goes
  <2>3. \A w \in Videos : (Stored(w)' <=> Stored(w)) /\ (Archived(w)' <=> Archived(w))
    BY <2>1 DEF AfterClaimLocally, AfterMarkProcessing, AfterProbed, AfterEncoded, AfterMarkReady, AfterEncodeFails,
       AfterJobWritten, AfterMarkVideoFailed, RowBecomes, Stored, Archived
  <2>4. \A w \in Videos : files'[w].archive = files[w].archive
    BY <2>1 DEF AfterClaimLocally, AfterMarkProcessing, AfterProbed, AfterEncoded, AfterMarkReady, AfterEncodeFails,
       AfterJobWritten, AfterMarkVideoFailed, FilesBecome
  <2> QED BY <1>1, <2>2, <2>3, <2>4 DEF ArchiveInv, Asks, Clean
<1> QED BY <1>1, <1>2, <1>3, <1>4, SnapshotEffects, EntryEffects, ProcessEffects DEF WorkerStep

\* So every step keeps the archive.
LEMMA ArchiveStep ==
  ASSUME OneAtATime, NeverAgain, Videos # {}
  PROVE  LibraryTypes /\ RowsInv /\ ArchiveInv /\ [Next]_vars => ArchiveInv'
<1> SUFFICES ASSUME LibraryTypes, RowsInv, ArchiveInv, [Next]_vars PROVE ArchiveInv'
  OBVIOUS
<1>1. CASE UNCHANGED vars
  BY <1>1 DEF ArchiveInv, Asks, Clean, Archived, Stored, vars, libraryVars, workerVars
<1>2. CASE AdminStep /\ UNCHANGED <<workerVars, deployment>>
  <2>1. PICK r \in Requests : AdminOf(r)
    BY <1>2 DEF AdminStep, AdminOf, BulkDelete, BulkRestore, BulkUpdate
  <2>2. PICK u \in Videos : u = request[r].video
    BY DEF LibraryTypes, Request
  <2>3. CASE \E v \in Videos : \/ AfterInsertVideo(r, v) \/ AfterMarkDeleted(r, v) \/ AfterMarkRestored(r, v)
                               \/ AfterPurgeRows(r, v) \/ AfterCheck(r, v) \/ AfterBeginReupload(r, v)
                               \/ AfterBeginReuploadFails(v) \/ AfterUpdateVideo(r, v)
    BY <2>3, ArchiveBegin
  <2> QED BY <2>1, <2>2, <2>3, UploadEffects, MoveEffects, WriteEffects, BeginEffects, ArchiveMoves DEF AdminOf
<1> QED BY <1>1, <1>2, ArchiveElsewhere, ArchiveWorker DEF Next

-----------------------------------------------------------------------------
(* What is shown as ready.                                                     *)

\* The uses of the library that the state of the shown files is stated for: where videos
\* are uploaded again, no other worker transcodes and a failed video is not retried; where
\* they are transcoded again, no other worker transcodes.
Orderly ==
  \A d \in Deployments : /\ "reupload" \in d.offered => ~d.remote /\ "retry" \notin d.offered
                         /\ "retranscode" \in d.offered => ~d.remote

\* A ready video is restorable but between the two statements of a re-upload, and so is
\* one whose encoding has ended; a re-upload has emptied a directory that is there, and
\* has no source until it ends, so that the worker does not encode while one is under way.
ReadyInv ==
  /\ \A v \in Videos :
       video[v].status = "ready" /\ (\A r \in Requests : ~(Asks(r, "reupload", v) /\ request[r].step = "rows"))
         => Restorable(v)
  /\ pc = "ready" /\ Stored(at.video) => Restorable(at.video)
  /\ \A r \in Requests : request[r].op = "reupload" => source[request[r].video] # "uploads"
  /\ \A r \in Requests : request[r].op = "reupload" /\ request[r].step = "rows" /\ Stored(request[r].video) =>
       files[request[r].video].videos # "none"
  /\ pc \in {"encode", "ready"} /\ Stored(at.video) =>
       /\ \A r \in Requests : ~Asks(r, "reupload", at.video)
       /\ "reupload" \in deployment.offered => video[at.video].status = "processing"

\* What requests do after their first statement keeps ready videos restorable; a re-upload
\* removes the files, and has written that the video is not ready before it ends.
LEMMA ReadyMoves ==
  ASSUME OneAtATime, LibraryTypes, RowsInv, UploadInv, ArchiveInv, ReadyInv, UNCHANGED <<workerVars, deployment>>,
         Orderly, NEW r \in Requests, NEW u \in Videos, u = request[r].video,
         \/ AfterMoveToArchive(r, u) \/ AfterMoveFromArchive(r, u) \/ AfterMoveFails(r, u) \/ AfterPurgeFiles(r, u)
         \/ AfterWriteRetry(r, u) \/ AfterWriteRetranscode(r, u) \/ AfterWriteReupload(r, u) \/ AfterWritePublished(r, u)
         \/ AfterReuploadFails(r, u) \/ AfterOpenFile(r, u) \/ AfterFileSaved(r, u) \/ AfterSaveFails(r, u) \/ AfterCreateJob(r, u)
         \/ AfterCreateJobFails(r, u)
  PROVE  ReadyInv'
<1>1. /\ \A s \in Requests : s = r
      /\ at.video \in Videos /\ UNCHANGED <<pc, at, deployment>>
      /\ "reupload" \in deployment.offered => ~deployment.remote /\ "retry" \notin deployment.offered
  BY DEF OneAtATime, Orderly, LibraryTypes, Located, workerVars
<1>2. CASE AfterMoveToArchive(r, u)
  <2>1. \A v \in Videos : Stored(v) /\ Restorable(v) => Restorable(v)'
    BY <1>1, <1>2 DEF AfterMoveToArchive, FilesBecome, ArchiveInv, Clean, Restorable
  <2> QED BY <1>1, <1>2, <2>1 DEF AfterMoveToArchive, Answered, ReadyInv, Asks, Stored
<1>3. CASE AfterMoveFromArchive(r, u)
  <2>1. \A v \in Videos : Restorable(v) => Restorable(v)'
    BY <1>1, <1>3 DEF AfterMoveFromArchive, FilesBecome, Restorable
  <2> QED BY <1>1, <1>3, <2>1 DEF AfterMoveFromArchive, Answered, ReadyInv, Asks, Stored
<1>4. CASE AfterMoveFails(r, u) \/ AfterWritePublished(r, u)
  <2>1. UNCHANGED source /\ Answered(r) /\ request[r].op # "reupload"
    BY <1>4 DEF AfterMoveFails, AfterWritePublished
  <2>2. \A v \in Videos : video'[v].status = video[v].status
    BY <1>4 DEF AfterMoveFails, AfterWritePublished, RowBecomes
  <2>3. \A v \in Videos : Stored(v) /\ Restorable(v) => Restorable(v)'
    <3>1. CASE UNCHANGED files
      BY <3>1 DEF Restorable
    <3>2. CASE AfterMoveFails(r, u)
      <4>1. \A v \in Videos \ {u} : Restorable(v) => Restorable(v)'
        BY <3>2 DEF AfterMoveFails, Restorable
      <4>2. request[r].op = "delete" /\ Stored(u) => Clean(u)
        BY DEF ArchiveInv
      <4> QED BY <3>2, <4>1, <4>2 DEF AfterMoveFails
    <3> QED BY <1>4, <3>1, <3>2 DEF AfterWritePublished
  <2> QED BY <1>1, <2>1, <2>2, <2>3 DEF Answered, ReadyInv, Asks, Stored
<1>5. CASE AfterPurgeFiles(r, u)
  <2>1. ~Stored(u)
    BY <1>5 DEF AfterPurgeFiles, RowsInv
  <2>2. \A v \in Videos : v # u => files'[v] = files[v]
    BY <1>5 DEF AfterPurgeFiles, FilesBecome
  <2>3. video[u].status # "ready"
    BY <2>1 DEF Stored
  <2> QED BY <1>1, <1>5, <2>1, <2>2, <2>3 DEF AfterPurgeFiles, Answered, ReadyInv, Restorable, Asks, Stored
<1>6. CASE AfterWriteRetry(r, u)
  <2>1. "reupload" \notin deployment.offered
    BY <1>1, <1>6 DEF AfterWriteRetry, RowsInv
  <2> QED BY <1>1, <1>6, <2>1 DEF AfterWriteRetry, RowBecomes, Answered, ReadyInv, Restorable, Asks, Stored
<1>7. CASE AfterWriteRetranscode(r, u) \/ AfterCreateJob(r, u)
  BY <1>1, <1>7 DEF AfterWriteRetranscode, AfterCreateJob, Answered, ReadyInv, Restorable, Asks, Stored
<1>8. CASE AfterWriteReupload(r, u)
  <2>1. UNCHANGED <<source, files>> /\ Asks(r, "reupload", u)
    BY <1>8 DEF AfterWriteReupload, Asks
  <2>2. CASE Stored(u)
    <3>1. /\ video'[u].status = "pending" /\ \A v \in Videos \ {u} : video'[v] = video[v]
          /\ request'[r].op = "reupload" /\ request'[r].video = u
      BY <1>8, <2>2 DEF AfterWriteReupload, RowBecomes, RequestBecomes
    <3>2. \A v \in Videos : Stored(v)' => Stored(v)
      BY <2>2, <3>1 DEF Stored
    <3>3. \A v \in Videos : Restorable(v) <=> Restorable(v)'
      BY <2>1 DEF Restorable
    <3>4. request'[r].step = "save"
      BY <1>8, <2>2 DEF AfterWriteReupload, RequestBecomes
    <3> QED BY <1>1, <2>1, <2>2, <3>1, <3>2, <3>3, <3>4 DEF ReadyInv, Asks
  <2>3. CASE ~Stored(u)
    <3>1. UNCHANGED video /\ Answered(r) /\ video[u].status # "ready"
      BY <1>8, <2>3 DEF AfterWriteReupload, Stored
    <3> QED BY <1>1, <2>1, <3>1 DEF Answered, ReadyInv, Restorable, Asks, Stored
  <2> QED BY <2>2, <2>3
<1>9. CASE AfterOpenFile(r, u)
  BY <1>1, <1>9 DEF AfterOpenFile, SourceBecomes, RequestBecomes, ReadyInv, Restorable, Asks, Stored
<1>10. CASE AfterFileSaved(r, u)
  <2>1. CASE request[r].op = "upload"
    <3>1. /\ UNCHANGED video /\ request'[r].op = "upload" /\ \A v \in Videos \ {u} : files'[v] = files[v]
      BY <1>10, <2>1 DEF AfterFileSaved, RequestBecomes, FilesBecome
    <3>2. video[u].status # "ready" /\ (InProcess => at.video # u)
      BY <2>1 DEF UploadInv
    <3> QED BY <1>1, <2>1, <3>1, <3>2 DEF InProcess, ReadyInv, Restorable, Asks, Stored
  <2>2. CASE request[r].op = "reupload"
    <3>1. UNCHANGED <<video, files>> /\ Answered(r) /\ request[r].step = "write"
      BY <1>10, <2>2 DEF AfterFileSaved
    <3> QED BY <1>1, <2>2, <3>1 DEF Answered, ReadyInv, Restorable, Asks, Stored
  <2> QED BY <1>10, <2>1, <2>2 DEF AfterFileSaved
<1>11. CASE AfterSaveFails(r, u) \/ AfterCreateJobFails(r, u)
  <2>1. Answered(r) /\ \A v \in Videos \ {u} : files'[v] = files[v] /\ video'[v] = video[v]
    BY <1>11 DEF AfterSaveFails, AfterCreateJobFails, RowsDropped, RowBecomes, FilesBecome
  <2>2. video'[u].status = "purged" \/ (UNCHANGED video /\ (UNCHANGED files \/ ~Stored(u)))
    BY <1>11 DEF AfterSaveFails, AfterCreateJobFails, RowsDropped, RowBecomes
  <2>3. request[r].op = "upload" \/ (request[r].op = "reupload" /\ request[r].step = "write")
    BY <1>11 DEF AfterSaveFails, AfterCreateJobFails
  <2>4. request[r].op = "upload" => video[u].status # "ready" /\ (InProcess => at.video # u)
    BY DEF UploadInv
  <2> QED BY <1>1, <2>1, <2>2, <2>3, <2>4 DEF Answered, InProcess, ReadyInv, Restorable, Asks, Stored
<1>12. CASE AfterReuploadFails(r, u)
  <2>1. UNCHANGED <<video, source>> /\ Answered(r) /\ Asks(r, "reupload", u)
    BY <1>12 DEF AfterReuploadFails, Asks
  <2>2. Stored(u) => Restorable(u)'
    BY <1>12 DEF AfterReuploadFails, FilesBecome, ReadyInv, Restorable
  <2>3. \A v \in Videos \ {u} : Restorable(v) => Restorable(v)'
    BY <1>12 DEF AfterReuploadFails, FilesBecome, Restorable
  <2> QED BY <1>1, <2>1, <2>2, <2>3 DEF Answered, ReadyInv, Asks, Stored
<1> QED BY <1>2, <1>3, <1>4, <1>5, <1>6, <1>7, <1>8, <1>9, <1>10, <1>11, <1>12

\* Their first statements do, which write no video ready.
LEMMA ReadyBegin ==
  ASSUME OneAtATime, Orderly, LibraryTypes, RowsInv, ReadyInv, UNCHANGED <<workerVars, deployment>>,
         NEW r \in Requests, NEW v \in Videos,
         \/ AfterInsertVideo(r, v) \/ AfterMarkDeleted(r, v) \/ AfterMarkRestored(r, v) \/ AfterPurgeRows(r, v)
         \/ AfterCheck(r, v) \/ AfterBeginReupload(r, v) \/ AfterBeginReuploadFails(v) \/ AfterUpdateVideo(r, v)
  PROVE  ReadyInv'
<1>1. (\A s \in Requests : s = r) /\ at.video \in Videos /\ UNCHANGED <<pc, at, deployment>> /\ request[r].video \in Videos
  BY DEF OneAtATime, LibraryTypes, Located, Request, workerVars
<1>2. CASE AfterInsertVideo(r, v)
  BY <1>1, <1>2 DEF AfterInsertVideo, RowBecomes, RequestBecomes, Free, RowsInv, InProcess, ReadyInv,
     Restorable, Asks, Stored
<1>3. CASE AfterMarkDeleted(r, v) \/ AfterMarkRestored(r, v) \/ AfterPurgeRows(r, v)
  BY <1>1, <1>3 DEF AfterMarkDeleted, AfterMarkRestored, AfterPurgeRows, RowsDropped, RowBecomes,
     RequestBecomes, Free,
     ReadyInv, Restorable, Asks, Stored
<1>4. CASE AfterCheck(r, v)
  BY <1>1, <1>4 DEF AfterCheck, RequestBecomes, Free, ReadyInv, Restorable, Asks, Stored
<1>5. CASE AfterBeginReupload(r, v)
  <2>1. ~(pc \in {"encode", "ready"} /\ at.video = v)
    BY <1>5 DEF AfterBeginReupload, ReadyInv
  <2>2. files'[v].videos = "part" /\ \A w \in Videos : w # v => (Restorable(w) <=> Restorable(w)')
    BY <1>5 DEF AfterBeginReupload, FilesBecome, Restorable
  <2> QED BY <1>1, <1>5, <2>1, <2>2 DEF AfterBeginReupload, SourceBecomes, SourceInUploads, RequestBecomes,
       Free, ReadyInv,
       Asks, Stored
<1>6. CASE AfterUpdateVideo(r, v)
  BY <1>1, <1>6 DEF AfterUpdateVideo, RowBecomes, ReadyInv, Restorable, Asks, Stored
<1>7. CASE AfterBeginReuploadFails(v)
  <2>1. \A w \in Videos : Restorable(w) => Restorable(w)'
    BY <1>7 DEF AfterBeginReuploadFails, FilesBecome, Restorable
  <2>2. \A w \in Videos : files[w].videos # "none" => files'[w].videos # "none"
    BY <1>7 DEF AfterBeginReuploadFails, FilesBecome
  <2> QED BY <1>1, <1>7, <2>1, <2>2 DEF AfterBeginReuploadFails, ReadyInv, Asks, Stored
<1> QED BY <1>2, <1>3, <1>4, <1>5, <1>6, <1>7

\* So do time and the other workers, which bring whole files with the status,
LEMMA ReadyElsewhere ==
  ASSUME Orderly, LibraryTypes, RowsInv, ReadyInv, UNCHANGED <<workerVars, deployment>>, Elsewhere
  PROVE  ReadyInv'
<1>1. PICK v \in Videos : \/ AfterJobTouched(v) \/ AfterRetentionEnds(v) \/ AfterRemoteClaim(v)
                          \/ AfterRemoteComplete(v) \/ AfterReleaseLapsed(v)
  BY ElsewhereEffects DEF Elsewhere
<1>2. /\ at.video \in Videos /\ UNCHANGED <<pc, at, deployment>>
      /\ deployment.remote => "reupload" \notin deployment.offered /\ "retranscode" \notin deployment.offered
      /\ \A s \in Requests : request[s].video \in Videos
  BY DEF Orderly, LibraryTypes, Located, Request, workerVars
<1>3. CASE AfterJobTouched(v)
  <2>1. \A w \in Videos : (Restorable(w)' <=> Restorable(w)) /\ (Stored(w)' <=> Stored(w))
    BY <1>3 DEF AfterJobTouched, Restorable, Stored
  <2> QED BY <1>2, <1>3, <2>1 DEF AfterJobTouched, ReadyInv, Asks
<1>4. CASE AfterRetentionEnds(v)
  BY <1>2, <1>4 DEF AfterRetentionEnds, RowBecomes, ReadyInv, Restorable, Asks, Stored
<1>5. CASE AfterRemoteClaim(v)
  <2>1. ~job[v].retranscode /\ Stored(v)
    BY <1>2, <1>5 DEF AfterRemoteClaim, RowsInv
  <2>2. \A w \in Videos : (Restorable(w) <=> Restorable(w)') /\ files'[w].videos = files[w].videos
    BY <1>5, <2>1 DEF AfterRemoteClaim, FilesBecome, Restorable
  <2> QED BY <1>2, <1>5, <2>1, <2>2 DEF AfterRemoteClaim, RowBecomes, ReadyInv, Asks, Stored
<1>6. CASE AfterRemoteComplete(v)
  <2>1. deployment.remote /\ Stored(v)
    BY <1>6 DEF AfterRemoteComplete, RowsInv
  <2>2. \A w \in Videos : /\ Restorable(w) => Restorable(w)'
                          /\ files[w].videos # "none" => files'[w].videos # "none"
    BY <1>6 DEF AfterRemoteComplete, FilesBecome, Restorable
  <2>3. Restorable(v)'
    BY <1>6 DEF AfterRemoteComplete, FilesBecome, Restorable
  <2>4. \A w \in Videos : (Stored(w) <=> Stored(w)') /\ (w # v => video'[w] = video[w])
    BY <1>6, <2>1 DEF AfterRemoteComplete, RowBecomes, Stored
  <2>5. UNCHANGED <<source, request>> /\ "reupload" \notin deployment.offered
    BY <1>2, <1>6, <2>1 DEF AfterRemoteComplete
  <2> QED BY <1>2, <2>2, <2>3, <2>4, <2>5 DEF ReadyInv, Asks, Stored, Restorable
<1>7. CASE AfterReleaseLapsed(v)
  BY <1>2, <1>7 DEF AfterReleaseLapsed, RowBecomes, ReadyInv, Restorable, Asks, Stored
<1> QED BY <1>1, <1>3, <1>4, <1>5, <1>6, <1>7

\* and the worker, which writes ready only after it has encoded.
LEMMA ReadyWorker ==
  ASSUME LibraryTypes, ReadyInv, UNCHANGED deployment, WorkerStep
  PROVE  ReadyInv'
<1>1. at.video \in Videos /\ UNCHANGED deployment /\ \A s \in Requests : request[s].video \in Videos
  BY DEF LibraryTypes, Located, Request
<1>2. CASE AfterSnapshot \/ AfterShutDown
  BY <1>1, <1>2 DEF AfterSnapshot, AfterShutDown, ReadyInv, Restorable, Asks, Stored, InProcess
<1>3. CASE \E e \in todo : \/ AfterGiveUp(e.video) \/ AfterResetForRetry(e.video) \/ AfterPurgeExpired(e.video)
                           \/ AfterSourceMissing(e.video)
  <2>1. PICK u \in Videos : AfterGiveUp(u) \/ AfterResetForRetry(u) \/ AfterPurgeExpired(u) \/ AfterSourceMissing(u)
    BY <1>3 DEF LibraryTypes, Entry
  <2> QED BY <1>1, <2>1 DEF AfterGiveUp, AfterResetForRetry, AfterPurgeExpired, AfterSourceMissing, RowsDropped,
       RowBecomes, FilesBecome, SourceBecomes, ReadyInv, Restorable, Asks, Stored, InProcess
<1>4. CASE \E u \in Videos : u = at.video /\ AfterProbed(u)
  BY <1>1, <1>4 DEF AfterProbed, Goes, RowBecomes, FilesBecome, ReadyInv, Restorable, Asks, Stored
<1>5. CASE \E u \in Videos : u = at.video /\ AfterEncoded(u)
  BY <1>1, <1>5 DEF AfterEncoded, Goes, FilesBecome, ReadyInv, Restorable, Asks, Stored
<1>6. CASE \E u \in Videos : u = at.video /\ AfterMarkReady(u)
  BY <1>1, <1>6 DEF AfterMarkReady, Goes, RowBecomes, ReadyInv, Restorable, Asks, Stored
<1>7. CASE \E u \in Videos : u = at.video /\ \/ AfterClaimLocally(u) \/ AfterMarkProcessing(u) \/ AfterEncodeFails(u)
                                             \/ AfterJobWritten(u) \/ AfterMarkVideoFailed(u)
  BY <1>1, <1>7 DEF AfterClaimLocally, AfterMarkProcessing, AfterEncodeFails, AfterJobWritten,
     AfterMarkVideoFailed, Goes,
     RowBecomes, ReadyInv, Restorable, Asks, Stored
<1> QED BY <1>1, <1>2, <1>3, <1>4, <1>5, <1>6, <1>7, SnapshotEffects, EntryEffects,
     ProcessEffects DEF WorkerStep

\* So every step keeps ready videos restorable.
LEMMA ReadyStep ==
  ASSUME OneAtATime, Orderly, Videos # {}
  PROVE  LibraryTypes /\ RowsInv /\ UploadInv /\ ArchiveInv /\ ReadyInv /\ [Next]_vars => ReadyInv'
<1> SUFFICES ASSUME LibraryTypes, RowsInv, UploadInv, ArchiveInv, ReadyInv, [Next]_vars PROVE ReadyInv'
  OBVIOUS
<1>1. CASE UNCHANGED vars
  BY <1>1 DEF ReadyInv, Restorable, Asks, Stored, vars, libraryVars, workerVars
<1>2. CASE AdminStep /\ UNCHANGED <<workerVars, deployment>>
  <2>1. PICK r \in Requests : AdminOf(r)
    BY <1>2 DEF AdminStep, AdminOf, BulkDelete, BulkRestore, BulkUpdate
  <2>2. PICK u \in Videos : u = request[r].video
    BY DEF LibraryTypes, Request
  <2>3. CASE \E v \in Videos : \/ AfterInsertVideo(r, v) \/ AfterMarkDeleted(r, v) \/ AfterMarkRestored(r, v)
                               \/ AfterPurgeRows(r, v) \/ AfterCheck(r, v) \/ AfterBeginReupload(r, v)
                               \/ AfterBeginReuploadFails(v) \/ AfterUpdateVideo(r, v)
    BY <1>2, <2>3, ReadyBegin
  <2> QED BY <1>2, <2>1, <2>2, <2>3, UploadEffects, MoveEffects, WriteEffects, BeginEffects,
       ReadyMoves DEF AdminOf
<1> QED BY <1>1, <1>2, ReadyElsewhere, ReadyWorker DEF Next

-----------------------------------------------------------------------------

\* All of these invariants hold of a library without videos and requests.
LEMMA LibraryInvInit ==
  ASSUME Videos # {} PROVE Init => LibraryTypes /\ RowsInv /\ UploadInv /\ ArchiveInv /\ ReadyInv
<1> SUFFICES ASSUME Init PROVE LibraryTypes /\ RowsInv /\ UploadInv /\ ArchiveInv /\ ReadyInv
  OBVIOUS
<1>1. LibraryTypes
  BY LibraryTypesInit
<1>2. \A r \in Requests : request[r].op = "none"
  BY LibraryBeginnings DEF Init, LibraryInit
<1> QED BY <1>1, <1>2 DEF Init, LibraryInit, WorkerInit, RowsInv, UploadInv, ArchiveInv, ReadyInv, Clean,
     InProcess, Asks,
     Stored

\* The types, the rows and the uploads are right in every state,
LEMMA RowsAlways == ASSUME OneAtATime, Videos # {} PROVE Spec => [](LibraryTypes /\ RowsInv /\ UploadInv)
<1>1. Init => LibraryTypes /\ RowsInv /\ UploadInv
  BY LibraryInvInit
<1>2. LibraryTypes /\ RowsInv /\ UploadInv /\ [Next]_vars => (LibraryTypes /\ RowsInv /\ UploadInv)'
  BY LibraryTypesStep, RowsStep, UploadStep
<1> QED BY <1>1, <1>2, PTL DEF Spec

\* and so is the archive.
LEMMA ArchiveAlways == ASSUME OneAtATime, NeverAgain, Videos # {} PROVE Spec => []ArchiveInv
<1>1. Init => ArchiveInv
  BY LibraryInvInit
<1>2. LibraryTypes /\ RowsInv /\ ArchiveInv /\ [Next]_vars => ArchiveInv'
  BY ArchiveStep
<1> QED BY <1>1, <1>2, RowsAlways, PTL DEF Spec

\* The worker leaves a first upload alone until its job is made, whatever number of videos
\* there are and whoever else transcodes, if the admin does one thing at a time.
THEOREM FirstUploadsAreLeftAlone == ASSUME OneAtATime, Videos # {} PROVE Spec => []UploadsAreLeftAlone
<1>1. UploadInv => UploadsAreLeftAlone
  BY DEF UploadInv, UploadsAreLeftAlone, InProcess
<1> QED BY <1>1, RowsAlways, PTL

\* Nothing of a video that is not deleted is left in the archive, but for what a request
\* that failed half-way left there, if the admin does one thing at a time and no deleted
\* video is deleted again.
THEOREM NothingIsStranded == ASSUME OneAtATime, NeverAgain, Videos # {} PROVE Spec => []NothingStranded
<1>1. ArchiveInv => NothingStranded
  BY DEF ArchiveInv, NothingStranded, AtRest, Asks, Clean
<1> QED BY <1>1, ArchiveAlways, PTL

\* What is shown as ready has all of its files, or what a request that failed half-way has
\* left of them, in the orderly uses of the library.
THEOREM ReadyVideosAreWhole ==
  ASSUME OneAtATime, NeverAgain, Orderly, Videos # {} PROVE Spec => []ReadyIsWhole
<1>1. LibraryTypes /\ ArchiveInv /\ ReadyInv => ReadyIsWhole
  <2> SUFFICES ASSUME LibraryTypes, ArchiveInv, ReadyInv, NEW v \in Videos, video[v].status = "ready", ~Archived(v),
                      AtRest(v)
               PROVE  files[v].videos = "whole" \/ DamagedByFailure(v)
    BY DEF ReadyIsWhole
  <2>1. \A r \in Requests : ~Asks(r, "restore", v) /\ ~Asks(r, "reupload", v)
    BY DEF AtRest, Asks
  <2>2. files[v].archive \in {"none", "torn"}
    BY <2>1 DEF ArchiveInv, Clean, Stored
  <2>3. Restorable(v)
    BY <2>1 DEF ReadyInv
  <2> QED BY <2>2, <2>3 DEF Restorable, DamagedByFailure
<1>2. Init => ReadyInv
  BY LibraryInvInit
<1>3. LibraryTypes /\ RowsInv /\ UploadInv /\ ArchiveInv /\ ReadyInv /\ [Next]_vars => ReadyInv'
  BY ReadyStep
<1> QED BY <1>1, <1>2, <1>3, RowsAlways, ArchiveAlways, PTL DEF Spec
=============================================================================

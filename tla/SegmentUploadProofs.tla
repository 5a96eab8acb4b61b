------------------------ MODULE SegmentUploadProofs ------------------------
(* That no segment of a quality is lost on its way to the server, and that a   *)
(* quality that goes on as a success has all its segments accounted for: for   *)
(* any number of segments, size of the queue, retries, polls and runs.         *)
EXTENDS SegmentUpload, SequenceTheorems, TLAPS

Watcher == [on : BOOLEAN, seen : [Segment -> Sizes], stable : [Segment -> 0 .. StableSizePolls],
            queued : SUBSET Segment, ready : SUBSET Info]
UploaderSteps == {"off", "idle", "holds", "posting", "admitted", "stored", "saving", "ended", "raised"}
Uploader == [step : UploaderSteps, item : Info, round : SUBSET Info]
Encoder == [state : {"off", "running", "ended"}, segment : Segment, data : Sizes \ {"whole"}]
StateFile == [exists : BOOLEAN, names : SUBSET Segment]

SegmentTypes ==
  /\ file \in [Segment -> Sizes] /\ server \in [Segment -> Sizes]
  /\ encoder \in Encoder /\ watcher \in Watcher /\ uploader \in Uploader
  /\ phase \in SegmentPhases /\ ffmpeg \in Encoders /\ runs \in Nat
  /\ queue \in Seq(Info) /\ tries \in [Segment -> Nat]
  /\ failed \in SUBSET Info /\ uploaded \in SUBSET Segment
  /\ saved \in StateFile /\ claim \in {"mine", "gone"}

-----------------------------------------------------------------------------
(* Who may do what in which phase of the main task. *)

BeforeRun == phase \in {"off", "load", "failed"}
Encoded == phase \in {"stop", "flush", "join", "drain", "playlist", "finalize", "done"}
Succeeding == phase \in {"playlist", "finalize", "done"}

\* Nothing of an earlier run is in memory when the next begins; the watcher has ended, the
\* queue is empty and the uploader has no more to do before the main task goes on.
PhasesInv ==
  /\ BeforeRun => /\ encoder = NotWriting /\ watcher = Blind /\ queue = <<>>
                  /\ uploader = Idle("off") /\ failed = {} /\ uploaded = {}
  /\ encoder.state = "running" => phase = "encode"
  /\ phase = "encode" => encoder.state # "off"
  /\ Encoded => encoder.state = "ended"
  /\ watcher.on => phase \in {"encode", "stop"}
  /\ phase \in {"join", "drain"} \/ Succeeding => watcher.ready = {}
  /\ phase = "drain" \/ Succeeding => queue = <<>>
  /\ uploader.round # {} => encoder.state = "ended"
  /\ uploader.step = "ended" => failed = {} /\ uploader.round = {}
  /\ Succeeding => uploader.step = "ended"

-----------------------------------------------------------------------------
(* Where the segments are. *)

Elements(s) == {s[k] : k \in 1 .. Len(s)}
Held == IF uploader.step \in {"holds", "posting", "admitted", "stored", "raised"} THEN {uploader.item} ELSE {}

\* What the watcher has found and the uploader is not done with.
Items == watcher.ready \cup Elements(queue) \cup failed \cup uploader.round \cup Held

OnServer(n) == server[n] # "none"
Safe(n) == file[n] # "none" \/ OnServer(n)
InHand(n) == encoder.state = "running" /\ encoder.segment = n /\ encoder.data # "none"

\* The encoder finishes the segments in order.
EncoderInv ==
  /\ \A n \in Written : file[n] \in {"none", "whole"}
  /\ \A n \in Segment : InHand(n) => file[n] \in {"none", encoder.data}

\* A file goes only when the server has it: whatever is taken to be uploaded is there.
SafeInv ==
  /\ \A n \in uploaded \cup saved.names : OnServer(n)
  /\ uploader.step \in {"stored", "saving"} => OnServer(Holding)
  /\ \A n \in Segment : n \in Written \/ InHand(n) => Safe(n)
  /\ \A i \in Items : Safe(i.segment)

\* What was found is still to be uploaded, unless it is on the server or was tried often
\* enough; and once the watcher has ended, everything was found.
AccountInv ==
  \A n \in Segment :
    n \in watcher.queued \/ phase \in {"flush", "join", "drain"} \/ Succeeding =>
      OnServer(n) \/ tries[n] >= MaxSegmentRetries \/ \E i \in Items : i.segment = n

\* In a first run of an encoder that does not pause, a file is taken for complete only when
\* it is.
FirstRun == runs = 1 /\ ~ffmpeg.pauses
\* Nothing is there before it has loaded.
FreshInv ==
  /\ runs = 0 \/ (FirstRun /\ phase = "load") => (\A n \in Segment : file[n] = "none") /\ ~saved.exists
  /\ runs = 0 => phase = "off"

WholeInv ==
  /\ \A n \in Written : "whole" \in {file[n], server[n]}
  /\ encoder.state # "off" => \A n \in Segment : /\ file[n] = "whole" => n \in Written
                                                 /\ file[n] = "part" => Growing(n)
                                                 /\ InHand(n) => file[n] # "none"
  /\ \A i \in Items : i.size = "whole" /\ i.segment \in Written
  /\ uploader.step \in {"stored", "saving"} => server[Holding] = "whole"
  /\ \A n \in uploaded : server[n] = "whole"

FirstRunInv == FreshInv /\ (FirstRun => WholeInv)

SegmentInv == SegmentTypes /\ PhasesInv /\ EncoderInv /\ SafeInv /\ AccountInv /\ FirstRunInv

-----------------------------------------------------------------------------
(* Sequences. *)

\* Putting an item into the queue.
LEMMA AppendElements ==
  ASSUME NEW S, NEW s \in Seq(S), NEW e \in S
  PROVE  Append(s, e) \in Seq(S) /\ Elements(Append(s, e)) = Elements(s) \cup {e}
  BY DEF Elements

\* Taking one from it.
LEMMA HeadElements ==
  ASSUME NEW S, NEW s \in Seq(S), s # <<>>
  PROVE  Head(s) \in S /\ Tail(s) \in Seq(S) /\ Elements(s) = {Head(s)} \cup Elements(Tail(s))
<1>1. Head(s) \in S /\ Tail(s) \in Seq(S) /\ Head(s) = s[1] /\ Len(s) \in Nat \ {0}
      /\ Len(Tail(s)) = Len(s) - 1 /\ \A k \in 1 .. Len(Tail(s)) : Tail(s)[k] = s[k + 1]
  OBVIOUS
<1>2. ASSUME NEW x \in Elements(s) PROVE x \in {Head(s)} \cup Elements(Tail(s))
  <2>1. PICK k \in 1 .. Len(s) : x = s[k]
    BY DEF Elements
  <2>2. CASE k = 1
    BY <1>1, <2>1, <2>2
  <2>3. CASE k # 1
    <3>1. k - 1 \in 1 .. Len(Tail(s)) /\ Tail(s)[k - 1] = s[k]
      BY <1>1, <2>1, <2>3
    <3> QED BY <2>1, <3>1 DEF Elements
  <2> QED BY <2>2, <2>3
<1>3. ASSUME NEW x \in {Head(s)} \cup Elements(Tail(s)) PROVE x \in Elements(s)
  <2>1. CASE x = Head(s)
    BY <1>1, <2>1 DEF Elements
  <2>2. CASE x \in Elements(Tail(s))
    <3>1. PICK k \in 1 .. Len(Tail(s)) : x = Tail(s)[k]
      BY <2>2 DEF Elements
    <3>2. k + 1 \in 1 .. Len(s) /\ x = s[k + 1]
      BY <1>1, <3>1
    <3> QED BY <3>2 DEF Elements
  <2> QED BY <1>3, <2>1, <2>2
<1> QED BY <1>1, <1>2, <1>3

-----------------------------------------------------------------------------
(* Types. *)

\* What a run begins with.
LEMMA Beginnings ==
  /\ Segment # {} /\ 1 \in Segment /\ NoItem \in Info /\ NoStateFile \in StateFile
  /\ NotWriting \in Encoder /\ NotWriting.state = "off"
  /\ Blind \in Watcher /\ ~Blind.on /\ Blind.ready = {} /\ Blind.queued = {}
  /\ \A step \in UploaderSteps :
       Idle(step) \in Uploader /\ Idle(step).step = step /\ Idle(step).round = {}
<1>1. 1 \in Segment
  BY SegmentUploadAssumption DEF Segment
<1>2. NoItem \in Info
  BY <1>1 DEF NoItem, Info
<1>3. NoStateFile \in StateFile
  BY DEF NoStateFile, StateFile
<1>4. NotWriting \in Encoder /\ NotWriting.state = "off"
  BY <1>1 DEF NotWriting, Encoder, Sizes
<1>5. Blind \in Watcher /\ ~Blind.on /\ Blind.ready = {} /\ Blind.queued = {}
  BY SegmentUploadAssumption DEF Blind, Watcher, Sizes
<1>6. ASSUME NEW step \in UploaderSteps
      PROVE  Idle(step) \in Uploader /\ Idle(step).step = step /\ Idle(step).round = {}
  BY <1>2 DEF Idle, Uploader
<1> QED BY <1>1, <1>2, <1>3, <1>4, <1>5, <1>6

\* The types hold before the first run.
LEMMA SegmentTypesInit == SegmentInit => SegmentTypes
  BY Beginnings DEF SegmentInit, SegmentTypes, Sizes, SegmentPhases, UploaderSteps

\* A run ends: what was in memory is as it was before.
LEMMA RunEndsTypes ==
  ASSUME SegmentTypes, NEW to \in {"off", "failed"}, RunEnds(to), UNCHANGED saved
  PROVE  SegmentTypes'
<1>1. server' \in [Segment -> Sizes]
  <2>1. uploader.item.segment \in Segment /\ uploader.item.size \in Sizes
    BY DEF SegmentTypes, Uploader, Info, Sizes
  <2> QED BY <2>1 DEF RunEnds, SegmentTypes
<1>2. NotWriting \in Encoder /\ Blind \in Watcher /\ Idle("off") \in Uploader
  BY Beginnings DEF UploaderSteps
<1>3. /\ phase' \in SegmentPhases /\ encoder' \in Encoder /\ watcher' \in Watcher /\ queue' \in Seq(Info)
      /\ uploader' \in Uploader /\ tries' \in [Segment -> Nat] /\ failed' = {} /\ uploaded' = {}
      /\ UNCHANGED <<file, runs, ffmpeg, claim>>
  BY <1>2 DEF RunEnds, SegmentPhases
<1> QED BY <1>1, <1>3 DEF SegmentTypes

\* What the main task, ffmpeg and the claim do.
LEMMA MainTypes ==
  ASSUME SegmentTypes, \/ Begin \/ MainTask \/ EncoderFails \/ Crash \/ Grow \/ ClaimEnds PROVE SegmentTypes'
<1> USE DEF diskVars, uploadVars
<1>0. ASSUME NEW to \in {"off", "failed"}, RunEnds(to), UNCHANGED saved PROVE SegmentTypes'
  BY <1>0, RunEndsTypes
<1>1. CASE Begin \/ ClaimEnds
  BY <1>1 DEF Begin, ClaimEnds, SegmentTypes, SegmentPhases
<1>2. CASE Load
  <2>1. PICK known \in KnownUploads :
          uploaded' = known /\ saved' = IF saved.exists THEN [saved EXCEPT !.names = known] ELSE saved
    BY <1>2 DEF Load
  <2>2. known \in SUBSET Segment
    BY DEF KnownUploads, ReceivedSegments, SegmentTypes, StateFile
  <2>3. saved' \in StateFile
    BY <2>1, <2>2 DEF SegmentTypes, StateFile
  <2>4. [state |-> "running", segment |-> 1, data |-> "none"] \in Encoder
    BY Beginnings DEF Encoder, Sizes
  <2>5. [Blind EXCEPT !.on = TRUE] \in Watcher
    BY Beginnings DEF Watcher
  <2>6. Idle("idle") \in Uploader
    BY Beginnings DEF UploaderSteps
  <2>7. /\ phase' = "encode" /\ encoder' \in Encoder /\ watcher' \in Watcher /\ uploader' \in Uploader
        /\ UNCHANGED <<file, runs, ffmpeg, queue, tries, failed, server, claim>>
    BY <1>2, <2>4, <2>5, <2>6 DEF Load
  <2> QED BY <2>1, <2>2, <2>3, <2>7 DEF SegmentTypes, SegmentPhases
<1>3. CASE LoadExpired \/ EncoderFails \/ Crash
  BY <1>0, <1>3 DEF LoadExpired, EncoderFails, Crash
<1>4. CASE EncoderEnds \/ Flushed \/ Joined
  BY <1>4 DEF EncoderEnds, Flushed, Joined, SegmentTypes, SegmentPhases
<1>5. CASE WatcherStopped
  <2> DEFINE rest == {n \in Segment : n \notin watcher.queued /\ file[n] \in {"part", "whole"}}
             ready == {[segment |-> n, size |-> file[n]] : n \in rest}
  <2>1. ready \in SUBSET Info
    BY DEF Info
  <2>2. watcher' = [watcher EXCEPT !.on = FALSE, !.queued = @ \cup rest, !.ready = ready]
    BY <1>5 DEF WatcherStopped
  <2> HIDE DEF ready
  <2>3. watcher' \in Watcher
    BY <2>1, <2>2 DEF SegmentTypes, Watcher
  <2> QED BY <1>5, <2>3 DEF WatcherStopped, SegmentTypes, SegmentPhases
<1>6. CASE FlushOne
  <2>1. PICK i \in watcher.ready : queue' = Append(queue, i) /\ watcher' = [watcher EXCEPT !.ready = @ \ {i}]
    BY <1>6 DEF FlushOne
  <2>2. i \in Info /\ queue \in Seq(Info)
    BY DEF SegmentTypes, Watcher
  <2>3. queue' \in Seq(Info)
    BY <2>1, <2>2, AppendElements
  <2>4. watcher' \in Watcher
    BY <2>1 DEF SegmentTypes, Watcher
  <2> QED BY <1>6, <2>3, <2>4 DEF FlushOne, SegmentTypes
<1>7. CASE UploaderJoined
  BY <1>0, <1>7 DEF UploaderJoined, SegmentTypes, SegmentPhases
<1>8. CASE PostPlaylist
  BY <1>0, <1>8 DEF PostPlaylist, SegmentTypes, SegmentPhases
<1>9. CASE Finalize
  <2>1. CASE \E to \in {"off", "failed"} : RunEnds(to) /\ UNCHANGED saved
    BY <1>0, <2>1
  <2>2. CASE /\ phase' = "done" /\ saved' = NoStateFile
             /\ UNCHANGED <<diskVars, runs, ffmpeg, watcher, queue, uploader, tries, failed, uploaded, server, claim>>
    BY <2>2, Beginnings DEF SegmentTypes, SegmentPhases
  <2> QED BY <1>9, <2>1, <2>2 DEF Finalize
<1>10. CASE Grow
  <2>1. encoder.segment \in Segment
    BY DEF SegmentTypes, Encoder
  <2>2. file' \in [Segment -> Sizes]
    BY <1>10, <2>1 DEF Grow, SegmentTypes, Sizes
  <2>3. encoder.segment < Segments => encoder.segment + 1 \in Segment
    BY <2>1, SegmentUploadAssumption DEF Segment
  <2>4. encoder' \in Encoder
    BY <1>10, <2>3 DEF Grow, SegmentTypes, Encoder, Sizes
  <2> QED BY <1>10, <2>2, <2>4 DEF Grow, SegmentTypes
<1> QED BY <1>1, <1>2, <1>3, <1>4, <1>5, <1>6, <1>7, <1>8, <1>9, <1>10 DEF MainTask

\* What the watcher does.
LEMMA WatcherTypes == ASSUME SegmentTypes, Watching PROVE SegmentTypes'
<1> USE DEF diskVars, uploadVars
<1>1. CASE Poll
  <2>1. PICK seen \in [Segment -> Sizes], stable \in [Segment -> 0 .. StableSizePolls], found \in SUBSET Segment :
          /\ \A n \in found : file[n] \in {"part", "whole"}
          /\ watcher' = [watcher EXCEPT !.seen = seen, !.stable = stable, !.queued = @ \cup found,
                                        !.ready = {[segment |-> n, size |-> file[n]] : n \in found}]
    <3>1. PICK still \in BOOLEAN :
       LET same(n) == file[n] = watcher.seen[n] /\ (Growing(n) => still)
           fresh(n) == n \notin watcher.queued /\ file[n] \in {"part", "whole"}
           count == [n \in Segment |-> IF ~fresh(n) THEN watcher.stable[n]
                                       ELSE IF ~same(n) THEN 0
                                       ELSE IF watcher.stable[n] < StableSizePolls THEN watcher.stable[n] + 1
                                       ELSE StableSizePolls]
           found == {n \in Segment : fresh(n) /\ same(n) /\ count[n] = StableSizePolls}
       IN watcher' = [watcher EXCEPT !.seen = file, !.stable = count, !.queued = @ \cup found,
                                     !.ready = {[segment |-> n, size |-> file[n]] : n \in found}]
      BY <1>1 DEF Poll
    <3> DEFINE same(n) == file[n] = watcher.seen[n] /\ (Growing(n) => still)
               fresh(n) == n \notin watcher.queued /\ file[n] \in {"part", "whole"}
               count == [n \in Segment |-> IF ~fresh(n) THEN watcher.stable[n]
                                       ELSE IF ~same(n) THEN 0
                                       ELSE IF watcher.stable[n] < StableSizePolls THEN watcher.stable[n] + 1
                                       ELSE StableSizePolls]
               found == {n \in Segment : fresh(n) /\ same(n) /\ count[n] = StableSizePolls}
    <3>2. \A n \in Segment : watcher.stable[n] \in 0 .. StableSizePolls
      BY DEF SegmentTypes, Watcher
    <3>3. count \in [Segment -> 0 .. StableSizePolls]
      <4> SUFFICES ASSUME NEW n \in Segment PROVE count[n] \in 0 .. StableSizePolls
        OBVIOUS
      <4> HIDE DEF same, fresh
      <4> QED BY <3>2, SegmentUploadAssumption
    <3>4. file \in [Segment -> Sizes] /\ found \in SUBSET Segment /\ \A n \in found : file[n] \in {"part", "whole"}
      BY DEF SegmentTypes
    <3>5. watcher' = [watcher EXCEPT !.seen = file, !.stable = count, !.queued = @ \cup found,
                                     !.ready = {[segment |-> n, size |-> file[n]] : n \in found}]
      BY <3>1
    <3> HIDE DEF count, found
    <3> QED BY <3>3, <3>4, <3>5
  <2>2. {[segment |-> n, size |-> file[n]] : n \in found} \in SUBSET Info
    BY <2>1 DEF Info
  <2>3. watcher' \in Watcher
    BY <2>1, <2>2 DEF SegmentTypes, Watcher
  <2> QED BY <1>1, <2>3 DEF Poll, SegmentTypes
<1>2. CASE Put
  <2>1. PICK i \in watcher.ready : queue' = Append(queue, i) /\ watcher' = [watcher EXCEPT !.ready = @ \ {i}]
    BY <1>2 DEF Put
  <2>2. i \in Info /\ queue \in Seq(Info)
    BY DEF SegmentTypes, Watcher
  <2>3. queue' \in Seq(Info)
    BY <2>1, <2>2, AppendElements
  <2>4. watcher' \in Watcher
    BY <2>1 DEF SegmentTypes, Watcher
  <2> QED BY <1>2, <2>3, <2>4 DEF Put, SegmentTypes
<1>3. CASE PutTimesOut
  BY <1>3 DEF PutTimesOut, SegmentTypes, Watcher
<1> QED BY <1>1, <1>2, <1>3 DEF Watching

\* What the uploader does.
LEMMA UploaderTypes == ASSUME SegmentTypes, Uploading PROVE SegmentTypes'
<1> USE DEF diskVars
<1>1. /\ uploader.item \in Info /\ Holding \in Segment /\ uploader.item.size \in Sizes
      /\ Released \in Uploader /\ NoItem \in Info
  BY Beginnings DEF SegmentTypes, Uploader, UploaderSteps, Released, Info, Holding, Sizes
<1>2. \A step \in UploaderSteps : [uploader EXCEPT !.step = step] \in Uploader
  BY DEF SegmentTypes, Uploader
<1>3. CASE Take
  <2>1. Head(queue) \in Info /\ Tail(queue) \in Seq(Info)
    BY <1>3, HeadElements DEF Take, SegmentTypes
  <2>2. [uploader EXCEPT !.step = "holds", !.item = Head(queue)] \in Uploader
    BY <2>1 DEF SegmentTypes, Uploader, UploaderSteps
  <2> QED BY <1>3, <2>1, <2>2 DEF Take, UploaderOnly, SegmentTypes
<1>4. CASE BeginRound
  <2>1. [uploader EXCEPT !.round = failed] \in Uploader
    BY DEF SegmentTypes, Uploader
  <2> QED BY <1>4, <2>1 DEF BeginRound, UploaderOnly, SegmentTypes
<1>5. CASE Retry
  <2>1. PICK i \in uploader.round : /\ uploader' = [step |-> "holds", item |-> i, round |-> uploader.round \ {i}]
                                    /\ tries' = [tries EXCEPT ![i.segment] = @ + 1]
    BY <1>5 DEF Retry
  <2>2. i \in Info /\ uploader.round \in SUBSET Info
    BY DEF SegmentTypes, Uploader
  <2>3. uploader' \in Uploader
    BY <2>1, <2>2 DEF Uploader, UploaderSteps
  <2>4. tries' \in [Segment -> Nat]
    <3>1. i.segment \in Segment /\ tries \in [Segment -> Nat]
      BY <2>2 DEF Info, SegmentTypes
    <3>2. tries[i.segment] + 1 \in Nat
      BY <3>1
    <3> QED BY <2>1, <3>1, <3>2
  <2> QED BY <1>5, <2>3, <2>4 DEF Retry, UploaderOnly, SegmentTypes
<1>6. CASE UploaderEnds
  BY <1>2, <1>6 DEF UploaderEnds, Goes, UploaderOnly, SegmentTypes, UploaderSteps
<1>7. CASE Skip
  BY <1>1, <1>7 DEF Skip, SegmentTypes, Sizes
<1>8. CASE FileGone
  BY <1>1, <1>8 DEF FileGone, UploaderOnly, SegmentTypes
<1>9. CASE SizeChanged
  <2>1. [segment |-> Holding, size |-> file[Holding]] \in Info
    BY <1>1, <1>9 DEF SizeChanged, SegmentTypes, Info, Sizes
  <2> QED BY <1>1, <1>9, <2>1 DEF SizeChanged, UploaderOnly, SegmentTypes
<1>10. CASE ReadAndPost \/ PostExpired \/ Admit
  BY <1>2, <1>10 DEF ReadAndPost, PostExpired, Admit, Goes, UploaderOnly, SegmentTypes, UploaderSteps
<1>11. CASE PostFails
  BY <1>1, <1>11 DEF PostFails, TryLater, UploaderOnly, SegmentTypes
<1>12. CASE Store
  <2>1. server' \in [Segment -> Sizes]
    BY <1>1, <1>12 DEF Store, SegmentTypes
  <2>2. claim' \in {"mine", "gone"}
    BY <1>12 DEF Store, SegmentTypes
  <2> QED BY <1>2, <1>12, <2>1, <2>2 DEF Store, Goes, SegmentTypes, UploaderSteps
<1>13. CASE Confirmed
  <2>1. file' \in [Segment -> Sizes] /\ uploaded' \in SUBSET Segment
    BY <1>1, <1>13 DEF Confirmed, SegmentTypes, Sizes
  <2> QED BY <1>2, <1>13, <2>1 DEF Confirmed, Goes, SegmentTypes, UploaderSteps
<1>14. CASE Save
  <2>1. [exists |-> TRUE, names |-> uploaded] \in StateFile
    BY DEF StateFile, SegmentTypes
  <2> QED BY <1>1, <1>14, <2>1 DEF Save, UploaderOnly, SegmentTypes
<1> QED BY <1>3, <1>4, <1>5, <1>6, <1>7, <1>8, <1>9, <1>10, <1>11, <1>12, <1>13, <1>14 DEF Uploading

-----------------------------------------------------------------------------
(* Steps. *)

EndOfRun == Running /\ \E to \in {"off", "failed"} : RunEnds(to) /\ UNCHANGED saved

\* The main task goes on to its next phase, and nothing else changes but the state file.
Proceeds ==
  /\ \/ phase = "encode" /\ encoder.state = "ended" /\ phase' = "stop"
     \/ phase = "flush" /\ watcher.ready = {} /\ phase' = "join"
     \/ phase = "join" /\ queue = <<>> /\ uploader.step \in {"idle", "raised"} /\ phase' = "drain"
     \/ phase = "drain" /\ uploader.step = "ended" /\ phase' = "playlist"
     \/ phase = "playlist" /\ phase' = "finalize"
     \/ phase = "finalize" /\ phase' = "done"
  /\ saved' \in {saved, NoStateFile}
  /\ UNCHANGED <<file, encoder, runs, ffmpeg, watcher, queue, uploader, tries, failed, uploaded, server, claim>>

\* The steps, the many ways in which a run ends taken together.
LEMMA Steps ==
  SegmentNext => \/ EndOfRun \/ Begin \/ Proceeds \/ Load \/ WatcherStopped \/ FlushOne
                 \/ Grow \/ Watching \/ Uploading \/ ClaimEnds
<1> SUFFICES ASSUME SegmentNext
             PROVE  \/ EndOfRun \/ Begin \/ Proceeds \/ Load \/ WatcherStopped \/ FlushOne
                    \/ Grow \/ Watching \/ Uploading \/ ClaimEnds
  OBVIOUS
<1> USE DEF diskVars, uploadVars
<1>1. CASE LoadExpired \/ EncoderFails \/ Crash
  BY <1>1 DEF LoadExpired, EncoderFails, Crash, EndOfRun, Running
<1>2. CASE EncoderEnds \/ Flushed \/ Joined
  BY <1>2 DEF EncoderEnds, Flushed, Joined, Proceeds
<1>3. CASE UploaderJoined
  BY <1>3 DEF UploaderJoined, EndOfRun, Proceeds, Running
<1>4. CASE PostPlaylist
  BY <1>4 DEF PostPlaylist, EndOfRun, Proceeds, Running
<1>5. CASE Finalize
  BY <1>5 DEF Finalize, EndOfRun, Proceeds, Running
<1> QED BY <1>1, <1>2, <1>3, <1>4, <1>5 DEF SegmentNext, MainTask

\* The watcher's next poll: what it finds is queued next, and nothing else changes.
LEMMA PollFinds ==
  ASSUME SegmentTypes, Poll
  PROVE  \E still \in BOOLEAN, found \in SUBSET Segment :
           /\ still => ffmpeg.pauses
           /\ \A n \in found : file[n] \in {"part", "whole"} /\ (Growing(n) => still)
           /\ watcher.on /\ phase = "encode" /\ watcher.ready = {}
           /\ watcher'.on = watcher.on /\ watcher'.queued = watcher.queued \cup found
           /\ watcher'.ready = {[segment |-> n, size |-> file[n]] : n \in found}
           /\ UNCHANGED <<file, encoder, phase, runs, ffmpeg, queue, uploader, tries, failed, uploaded, saved, server, claim>>
<1>1. PICK still \in IF ffmpeg.pauses THEN BOOLEAN ELSE {FALSE} :
       LET same(n) == file[n] = watcher.seen[n] /\ (Growing(n) => still)
           fresh(n) == n \notin watcher.queued /\ file[n] \in {"part", "whole"}
           count == [n \in Segment |-> IF ~fresh(n) THEN watcher.stable[n]
                                       ELSE IF ~same(n) THEN 0
                                       ELSE IF watcher.stable[n] < StableSizePolls THEN watcher.stable[n] + 1
                                       ELSE StableSizePolls]
           found == {n \in Segment : fresh(n) /\ same(n) /\ count[n] = StableSizePolls}
       IN watcher' = [watcher EXCEPT !.seen = file, !.stable = count, !.queued = @ \cup found,
                                     !.ready = {[segment |-> n, size |-> file[n]] : n \in found}]
  BY DEF Poll
<1> DEFINE same(n) == file[n] = watcher.seen[n] /\ (Growing(n) => still)
           fresh(n) == n \notin watcher.queued /\ file[n] \in {"part", "whole"}
           count == [n \in Segment |-> IF ~fresh(n) THEN watcher.stable[n]
                                   ELSE IF ~same(n) THEN 0
                                   ELSE IF watcher.stable[n] < StableSizePolls THEN watcher.stable[n] + 1
                                   ELSE StableSizePolls]
           found == {n \in Segment : fresh(n) /\ same(n) /\ count[n] = StableSizePolls}
<1>2. watcher' = [watcher EXCEPT !.seen = file, !.stable = count, !.queued = @ \cup found,
                                 !.ready = {[segment |-> n, size |-> file[n]] : n \in found}]
  BY <1>1
<1>3. still \in BOOLEAN /\ (still => ffmpeg.pauses)
  OBVIOUS
<1>4. found \in SUBSET Segment /\ \A n \in found : file[n] \in {"part", "whole"} /\ (Growing(n) => still)
  OBVIOUS
<1>5. watcher.on /\ phase = "encode" /\ watcher.ready = {}
      /\ UNCHANGED <<file, encoder, phase, runs, ffmpeg, queue, uploader, tries, failed, uploaded, saved, server, claim>>
  BY DEF Poll, diskVars, uploadVars
<1> HIDE DEF count, found
<1>6. /\ watcher'.on = watcher.on /\ watcher'.queued = watcher.queued \cup found
      /\ watcher'.ready = {[segment |-> n, size |-> file[n]] : n \in found}
  BY <1>2 DEF SegmentTypes, Watcher
<1> QED BY <1>3, <1>4, <1>5, <1>6

-----------------------------------------------------------------------------
(* Phases. *)

\* In each phase, the other tasks are as far as the main task takes them to be.
LEMMA PhasesStep == ASSUME SegmentTypes, PhasesInv, SegmentNext PROVE PhasesInv'
<1> USE DEF PhasesInv, BeforeRun, Encoded, Succeeding
<1>1. CASE EndOfRun
  BY <1>1, Beginnings DEF EndOfRun, RunEnds, UploaderSteps
<1>2. CASE Begin
  BY <1>2, Beginnings DEF Begin, diskVars, uploadVars, UploaderSteps
<1>3. CASE Proceeds
  BY <1>3 DEF Proceeds
<1>4. CASE Load
  BY <1>4, Beginnings DEF Load, UploaderSteps
<1>5. CASE WatcherStopped
  BY <1>5 DEF WatcherStopped, diskVars, uploadVars, SegmentTypes, Watcher
<1>6. CASE FlushOne
  BY <1>6 DEF FlushOne, diskVars, uploadVars, SegmentTypes, Watcher
<1>7. CASE Grow
  BY <1>7 DEF Grow, uploadVars, SegmentTypes, Encoder
<1>8. CASE Poll
  BY <1>8, PollFinds
<1>9. CASE Put \/ PutTimesOut
  BY <1>9 DEF Put, PutTimesOut, diskVars, uploadVars, SegmentTypes, Watcher
<1>10. CASE Uploading
  <2> USE DEF diskVars, UploaderOnly
  <2>0. uploader \in Uploader /\ uploader.step \notin {"off", "ended"}
    BY <1>10 DEF SegmentTypes, Uploading, Take, UploaderEnds, BeginRound, Retry, Skip, FileGone, SizeChanged,
         ReadAndPost, PostFails, PostExpired, Admit, Store, Confirmed, Save, NotSkipped
  <2>1. Released.step = "idle" /\ Released.round = uploader.round
    BY <2>0 DEF Released, Uploader
  <2>2. ASSUME NEW step \in UploaderSteps, Goes(step) PROVE uploader'.step = step /\ uploader'.round = uploader.round
    BY <2>0, <2>2 DEF Goes, Uploader
  <2>3. ~BeforeRun /\ ~Succeeding
    BY <2>0, Beginnings DEF UploaderSteps
  <2>4. ASSUME UNCHANGED <<encoder, phase, watcher>>, queue = <<>> => queue' = <<>>,
               uploader'.round # {} => encoder.state = "ended",
               uploader'.step = "ended" => failed' = {} /\ uploader'.round = {}
        PROVE  PhasesInv'
    BY <2>3, <2>4
  <2> HIDE DEF PhasesInv, BeforeRun, Encoded, Succeeding
  <2>5. uploader.round # {} => encoder.state = "ended"
    BY DEF PhasesInv
  <2>6. CASE Take
    BY <2>0, <2>4, <2>5, <2>6 DEF Take, Uploader
  <2>7. CASE BeginRound
    BY <2>0, <2>4, <2>7 DEF BeginRound, Uploader, PhasesInv, Encoded
  <2>8. CASE Retry
    BY <2>0, <2>4, <2>5, <2>8 DEF Retry
  <2>9. CASE UploaderEnds
    BY <2>0, <2>2, <2>4, <2>9 DEF UploaderEnds, UploaderSteps
  <2>10. CASE Skip \/ FileGone \/ SizeChanged \/ PostFails \/ Save
    BY <2>0, <2>1, <2>4, <2>5, <2>10 DEF Skip, FileGone, SizeChanged, PostFails, TryLater, Save
  <2>11. CASE ReadAndPost \/ PostExpired \/ Admit \/ Store \/ Confirmed
    <3>1. PICK step \in {"posting", "raised", "admitted", "stored", "saving"} : Goes(step)
      BY <2>11 DEF ReadAndPost, PostExpired, Admit, Store, Confirmed
    <3>2. uploader'.step \in {"posting", "raised", "admitted", "stored", "saving"}
          /\ uploader'.round = uploader.round
      BY <2>2, <3>1 DEF UploaderSteps
    <3>3. UNCHANGED <<encoder, phase, watcher, queue, failed>>
      BY <2>11 DEF ReadAndPost, PostExpired, Admit, Store, Confirmed
    <3> QED BY <2>4, <2>5, <3>2, <3>3
  <2> QED BY <1>10, <2>6, <2>7, <2>8, <2>9, <2>10, <2>11 DEF Uploading
<1>11. CASE ClaimEnds
  BY <1>11 DEF ClaimEnds, diskVars, uploadVars
<1> QED BY <1>1, <1>2, <1>3, <1>4, <1>5, <1>6, <1>7, <1>8, <1>9, <1>10, <1>11, Steps DEF Watching

-----------------------------------------------------------------------------
(* Files. *)

\* Only ffmpeg writes a file; all that others do is to delete one which is on the server.
LEMMA FilesChange ==
  ASSUME SegmentTypes, SafeInv, SegmentNext
  PROVE  \/ Grow
         \/ /\ \/ UNCHANGED file
               \/ Holding \in Segment /\ OnServer(Holding) /\ file' = [file EXCEPT ![Holding] = "none"]
            /\ encoder' \in {encoder, NotWriting, [state |-> "running", segment |-> 1, data |-> "none"]}
<1> USE DEF diskVars, uploadVars
<1>1. CASE EndOfRun \/ Begin \/ Proceeds \/ Load \/ WatcherStopped \/ FlushOne \/ Watching \/ ClaimEnds
  BY <1>1 DEF EndOfRun, RunEnds, Begin, Proceeds, Load, WatcherStopped, FlushOne, Watching, Poll, Put,
     PutTimesOut, ClaimEnds
<1>2. CASE Skip \/ Confirmed
  <2>1. Holding \in Segment
    BY DEF SegmentTypes, Uploader, Info, Holding
  <2>2. OnServer(Holding)
    BY <1>2 DEF Skip, Confirmed, SafeInv
  <2> QED BY <1>2, <2>1, <2>2 DEF Skip, Confirmed
<1>3. CASE Uploading /\ ~(Skip \/ Confirmed)
  BY <1>3 DEF Uploading, Take, BeginRound, Retry, UploaderEnds, FileGone, SizeChanged, ReadAndPost, PostFails,
     PostExpired, Admit, Store, Save, UploaderOnly
<1> QED BY <1>1, <1>2, <1>3, Steps

\* What is on the server stays there.
LEMMA ServerKeeps ==
  ASSUME SegmentTypes, SegmentNext
  PROVE  \/ UNCHANGED server
         \/ /\ uploader.step = "admitted" /\ Holding \in Segment /\ uploader.item.size # "none"
            /\ server' = [server EXCEPT ![Holding] = uploader.item.size]
<1> USE DEF diskVars, uploadVars
<1>1. Holding \in Segment /\ uploader.item.size # "none"
  BY DEF SegmentTypes, Uploader, Info, Holding
<1>2. CASE EndOfRun
  BY <1>1, <1>2 DEF EndOfRun, RunEnds, Holding
<1>3. CASE Begin \/ Proceeds \/ Load \/ WatcherStopped \/ FlushOne \/ Grow \/ Watching \/ ClaimEnds
  BY <1>3 DEF Begin, Proceeds, Load, WatcherStopped, FlushOne, Grow, Watching, Poll, Put, PutTimesOut, ClaimEnds
<1>4. CASE Store
  BY <1>1, <1>4 DEF Store
<1>5. CASE Uploading /\ ~Store
  BY <1>5 DEF Uploading, Take, BeginRound, Retry, UploaderEnds, Skip, FileGone, SizeChanged, ReadAndPost,
     PostFails,
     PostExpired, Admit, Confirmed, Save, UploaderOnly
<1> QED BY <1>2, <1>3, <1>4, <1>5, Steps

\* What is safe stays safe.
LEMMA SafeStays ==
  ASSUME SegmentTypes, SafeInv, SegmentNext, NEW n \in Segment
  PROVE  (OnServer(n) => OnServer(n)') /\ (Safe(n) => Safe(n)')
<1>1. OnServer(n) => OnServer(n)'
  BY ServerKeeps DEF OnServer, SegmentTypes
<1>2. CASE Grow
  <2>1. file[n] # "none" => file'[n] # "none"
    BY <1>2 DEF Grow, SegmentTypes, Encoder
  <2> QED BY <1>1, <2>1 DEF Safe
<1>3. CASE ~Grow
  BY <1>1, <1>3, FilesChange DEF Safe, SegmentTypes
<1> QED BY <1>1, <1>2, <1>3

\* The segments that are finished when ffmpeg goes on are those before it, and the next.
LEMMA WrittenGrows ==
  ASSUME SegmentTypes, Grow
  PROVE  /\ encoder.segment \in Segment
         /\ encoder.data # "part" => Written' = Written
         /\ encoder.data = "part" => Written' = Written \cup {encoder.segment}
<1>1. encoder \in Encoder /\ encoder.segment \in Segment /\ encoder.state = "running"
  BY DEF Grow, SegmentTypes, Encoder
<1>2. Written = {n \in Segment : n < encoder.segment}
  BY <1>1 DEF Written
<1>3. CASE encoder.data # "part"
  <2>1. encoder'.state = "running" /\ encoder'.segment = encoder.segment
    BY <1>1, <1>3 DEF Grow, Encoder
  <2> QED BY <1>1, <1>2, <1>3, <2>1 DEF Written
<1>4. CASE encoder.data = "part" /\ encoder.segment < Segments
  <2>1. encoder'.state = "running" /\ encoder'.segment = encoder.segment + 1
    <3>1. encoder' = [encoder EXCEPT !.segment = encoder.segment + 1, !.data = "empty"]
      BY <1>4, SegmentUploadAssumption DEF Grow, Segment
    <3> QED BY <1>1, <3>1 DEF Encoder
  <2>2. Written' = {n \in Segment : n < encoder.segment + 1}
    BY <2>1 DEF Written
  <2> QED BY <1>1, <1>2, <1>4, <2>2 DEF Segment
<1>5. CASE encoder.data = "part" /\ encoder.segment = Segments
  <2>1. encoder'.state = "ended"
    BY <1>1, <1>5, SegmentUploadAssumption DEF Grow, Encoder
  <2>2. Written' = Segment
    BY <2>1 DEF Written
  <2> QED BY <1>1, <1>2, <1>5, <2>2, SegmentUploadAssumption DEF Segment
<1>6. encoder.data = "part" => encoder.segment < Segments \/ encoder.segment = Segments
  BY <1>1, SegmentUploadAssumption DEF Segment
<1> QED BY <1>1, <1>3, <1>4, <1>5, <1>6

\* What ffmpeg does to the files: those before the segment in hand are left alone, the one
\* it finishes is whole unless it was deleted, and of the one in hand afterwards there is
\* what was written of it, unless it was deleted while in hand.
LEMMA GrowWrites ==
  ASSUME SegmentTypes, Grow, NEW n \in Segment
  PROVE  /\ n \in Written => file'[n] = file[n]
         /\ n \in Written' /\ n \notin Written =>
              n = encoder.segment /\ InHand(n) /\ file'[n] = IF file[n] = "none" THEN "none" ELSE "whole"
         /\ InHand(n)' => \/ file'[n] = encoder'.data
                          \/ InHand(n) /\ file[n] = "none" /\ file'[n] = "none"
         /\ n \notin Written' /\ ~InHand(n)' => file'[n] = file[n]
<1>1. encoder \in Encoder /\ encoder.segment \in Segment /\ encoder.state = "running" /\ file \in [Segment -> Sizes]
  BY DEF Grow, SegmentTypes, Encoder
<1>2. n \in Written => n < encoder.segment
  BY <1>1 DEF Written
<1>3. n \in Nat /\ encoder.segment \in Nat /\ Segments \in Nat /\ encoder.segment <= Segments
  BY <1>1, SegmentUploadAssumption DEF Segment
<1>4. CASE encoder.data = "none"
  <2>1. encoder'.state = "running" /\ encoder'.segment = encoder.segment /\ encoder'.data = "empty"
        /\ file' = [file EXCEPT ![encoder.segment] = "empty"]
    BY <1>1, <1>4 DEF Grow, Encoder
  <2> QED BY <1>1, <1>2, <1>3, <1>4, <2>1, WrittenGrows DEF InHand
<1>5. CASE encoder.data = "empty"
  <2>1. encoder'.state = "running" /\ encoder'.segment = encoder.segment /\ encoder'.data = "part"
        /\ file' = [file EXCEPT ![encoder.segment] = IF file[encoder.segment] = "none" THEN "none" ELSE "part"]
    BY <1>1, <1>5 DEF Grow, Encoder
  <2> QED BY <1>1, <1>2, <1>3, <1>5, <2>1, WrittenGrows DEF InHand
<1>6. CASE encoder.data = "part" /\ encoder.segment < Segments
  <2>1. encoder'.state = "running" /\ encoder'.segment = encoder.segment + 1 /\ encoder'.data = "empty"
        /\ file' = [file EXCEPT ![encoder.segment] = IF file[encoder.segment] = "none" THEN "none" ELSE "whole",
                                ![encoder.segment + 1] = "empty"]
    <3>1. encoder' = [encoder EXCEPT !.segment = encoder.segment + 1, !.data = "empty"]
      BY <1>3, <1>6 DEF Grow
    <3>2. encoder'.state = "running" /\ encoder'.segment = encoder.segment + 1 /\ encoder'.data = "empty"
      BY <1>1, <3>1 DEF Encoder
    <3> QED BY <1>3, <1>6, <3>2 DEF Grow
  <2>2. InHand(encoder.segment)
    BY <1>1, <1>6 DEF InHand
  <2> QED BY <1>1, <1>2, <1>3, <1>6, <2>1, <2>2, WrittenGrows DEF InHand
<1>7. CASE encoder.data = "part" /\ encoder.segment = Segments
  <2>1. file' = [file EXCEPT ![encoder.segment] = IF file[encoder.segment] = "none" THEN "none" ELSE "whole"]
        /\ encoder'.state = "ended"
    BY <1>1, <1>3, <1>7 DEF Grow, Encoder
  <2> QED BY <1>1, <1>2, <1>3, <1>7, <2>1, WrittenGrows DEF InHand
<1>8. encoder.data \in {"none", "empty", "part"}
  BY <1>1 DEF Encoder, Sizes
<1> QED BY <1>3, <1>4, <1>5, <1>6, <1>7, <1>8

\* When it is not ffmpeg that goes on, no segment is finished or taken in hand.
LEMMA OthersWriteNothing ==
  ASSUME SegmentTypes, SafeInv, SegmentNext, ~Grow, NEW n \in Segment
  PROVE  /\ n \in Written' => n \in Written
         /\ InHand(n)' => InHand(n) /\ encoder'.data = encoder.data
         /\ encoder'.state # "off" => encoder' = encoder \/ encoder' = [state |-> "running", segment |-> 1, data |-> "none"]
<1>1. ~([state |-> "running", segment |-> 1, data |-> "none"].segment > n) /\ n \in Nat
  BY DEF Segment
<1> QED BY <1>1, FilesChange, Beginnings DEF Written, InHand, Segment

\* The encoder finishes the segments in order.
LEMMA EncoderStep == ASSUME SegmentTypes, EncoderInv, SafeInv, SegmentNext PROVE EncoderInv'
<1> SUFFICES ASSUME NEW n \in Segment
             PROVE  /\ n \in Written' => file'[n] \in {"none", "whole"}
                    /\ InHand(n)' => file'[n] \in {"none", encoder'.data}
  BY DEF EncoderInv, Written
<1>1. CASE Grow
  BY <1>1, GrowWrites DEF EncoderInv
<1>2. CASE ~Grow
  <2>1. file'[n] = file[n] \/ file'[n] = "none"
    BY <1>2, FilesChange DEF SegmentTypes
  <2> QED BY <1>2, <2>1, OthersWriteNothing DEF EncoderInv
<1> QED BY <1>1, <1>2

-----------------------------------------------------------------------------
(* Items. *)

\* What the uploader may find changed, and what the watcher may find, in a poll or when it ends.
Found == {i \in Info : i.size = file[i.segment]}
Seen == {i \in Found : i.size # "empty" /\ (Growing(i.segment) => ffmpeg.pauses)}

\* The item is not to be uploaded: it is on the server, it was tried often enough, or there
\* was no room for it, and the watcher will find it again.
DoneWith(i) == \/ server'[i.segment] # "none" \/ tries'[i.segment] >= MaxSegmentRetries
               \/ i.segment \notin watcher'.queued /\ phase' \in {"encode", "stop"}

\* Without an item, nothing is held.
LEMMA NoItems ==
  ASSUME watcher.ready = {}, queue = <<>>, failed = {}, uploader.round = {}, uploader.step \in {"off", "idle", "ended"}
  PROVE  Items = {}
  BY DEF Items, Elements, Held

\* The uploader's own steps: an item that it takes or tries again stays with it until it is
\* done with it.
LEMMA UploaderItems ==
  ASSUME SegmentTypes, SafeInv, Uploading
  PROVE  /\ \A i \in Items' : i \in Items \/ (SizeChanged /\ i \in Found)
         /\ \A i \in Items : DoneWith(i) \/ \E j \in Items' : j.segment = i.segment
<1> DEFINE Rest == watcher.ready \cup Elements(queue) \cup failed \cup uploader.round
<1>1. /\ uploader \in Uploader /\ uploader.item \in Info /\ Holding = uploader.item.segment /\ Holding \in Segment
      /\ uploader.item.segment \in Segment /\ file[Holding] \in Sizes
  BY DEF SegmentTypes, Uploader, Info, Holding
<1>2. Items = Rest \cup Held
  BY DEF Items
<1>3. /\ Released.step = "idle" /\ Released.round = uploader.round
  BY <1>1 DEF Released, Uploader
<1>4. ASSUME NEW step \in UploaderSteps, Goes(step)
      PROVE  uploader'.step = step /\ uploader'.round = uploader.round /\ uploader'.item = uploader.item
  BY <1>1, <1>4 DEF Goes, Uploader
<1>5. ASSUME Items' = Items PROVE /\ \A i \in Items' : i \in Items
                                  /\ \A i \in Items : \E j \in Items' : j.segment = i.segment
  BY <1>5
<1>6. CASE Take
  <2>1. queue \in Seq(Info) /\ queue # <<>> /\ queue' = Tail(queue) /\ uploader.step = "idle"
        /\ UNCHANGED <<watcher, failed>> /\ uploader' = [uploader EXCEPT !.step = "holds", !.item = Head(queue)]
    BY <1>6 DEF Take, UploaderOnly, SegmentTypes
  <2>2. uploader'.step = "holds" /\ uploader'.item = Head(queue) /\ uploader'.round = uploader.round
    BY <1>1, <2>1 DEF Uploader
  <2>3. Elements(queue) = {Head(queue)} \cup Elements(queue')
    BY <2>1, HeadElements
  <2>4. Items' = Items
    BY <2>1, <2>2, <2>3 DEF Items, Held
  <2> QED BY <1>5, <2>4
<1>7. CASE BeginRound
  <2>1. uploader.step = "idle" /\ uploader.round = {} /\ failed' = {} /\ UNCHANGED <<watcher, queue>>
        /\ uploader' = [uploader EXCEPT !.round = failed]
    BY <1>7 DEF BeginRound, UploaderOnly
  <2>2. uploader'.step = "idle" /\ uploader'.round = failed
    BY <1>1, <2>1 DEF Uploader
  <2>3. Items' = Items
    BY <2>1, <2>2 DEF Items, Held
  <2> QED BY <1>5, <2>3
<1>8. CASE Retry
  <2>1. PICK i \in uploader.round : uploader' = [step |-> "holds", item |-> i, round |-> uploader.round \ {i}]
    BY <1>8 DEF Retry
  <2>2. uploader.step = "idle" /\ UNCHANGED <<watcher, queue, failed>>
    BY <1>8 DEF Retry, UploaderOnly
  <2>3. uploader'.step = "holds" /\ uploader'.item = i /\ uploader'.round = uploader.round \ {i}
    BY <2>1
  <2>4. Items' = Items
    BY <2>2, <2>3 DEF Items, Held
  <2> QED BY <1>5, <2>4
<1>9. CASE UploaderEnds
  <2>1. uploader.step = "idle" /\ UNCHANGED <<watcher, queue, failed>>
        /\ uploader'.step = "ended" /\ uploader'.round = uploader.round
    BY <1>4, <1>9 DEF UploaderEnds, UploaderOnly, UploaderSteps
  <2>2. Items' = Items
    BY <2>1 DEF Items, Held
  <2> QED BY <1>5, <2>2
<1>10. CASE Skip \/ FileGone \/ PostFails
  <2>1. uploader.step \in {"holds", "posting", "admitted", "stored"} /\ UNCHANGED <<watcher, queue>> /\ uploader' = Released
        /\ (failed' = failed \/ failed' = failed \cup {uploader.item})
    BY <1>10 DEF Skip, FileGone, NotSkipped, PostFails, TryLater, UploaderOnly
  <2>2. Items' = Rest \cup failed' /\ Held = {uploader.item}
    BY <1>3, <2>1 DEF Items, Held
  <2>3. CASE Skip \/ FileGone
    <3>1. OnServer(Holding) /\ UNCHANGED <<failed, server>>
      <4>1. uploader.item \in Items
        BY <1>2, <2>2
      <4>2. OnServer(Holding)
        BY <1>1, <2>3, <4>1 DEF Skip, FileGone, SafeInv, Safe
      <4> QED BY <2>3, <4>2 DEF Skip, FileGone, UploaderOnly
    <3>2. DoneWith(uploader.item)
      BY <1>1, <3>1 DEF DoneWith, OnServer
    <3> QED BY <1>2, <2>2, <3>1, <3>2
  <2>4. CASE PostFails
    <3>1. CASE tries[Holding] < MaxSegmentRetries
      <4>1. failed' = failed \cup {uploader.item}
        BY <2>4, <3>1 DEF PostFails, TryLater
      <4>2. Items' = Items
        BY <1>2, <2>2, <4>1
      <4> QED BY <1>5, <4>2
    <3>2. CASE ~(tries[Holding] < MaxSegmentRetries)
      <4>1. failed' = failed /\ tries' = tries /\ tries[Holding] >= MaxSegmentRetries
        BY <1>1, <2>4, <3>2, SegmentUploadAssumption DEF PostFails, TryLater, UploaderOnly, SegmentTypes
      <4>2. DoneWith(uploader.item)
        BY <1>1, <4>1 DEF DoneWith
      <4> QED BY <1>2, <2>2, <4>1, <4>2
    <3> QED BY <3>1, <3>2
  <2> QED BY <1>10, <2>3, <2>4
<1>11. CASE SizeChanged
  <2> DEFINE new == [segment |-> Holding, size |-> file[Holding]]
  <2>1. uploader.step = "holds" /\ UNCHANGED <<watcher, queue>> /\ uploader' = Released
        /\ failed' = failed \cup {new} /\ file[Holding] # "none"
    BY <1>11 DEF SizeChanged, NotSkipped, UploaderOnly
  <2>2. new \in Found /\ new.segment = Holding
    BY <1>1, <2>1 DEF Found, Info, Sizes
  <2>3. Items' = Rest \cup {new} /\ Held = {uploader.item}
    BY <1>3, <2>1 DEF Items, Held
  <2> HIDE DEF new
  <2> QED BY <1>1, <1>2, <1>11, <2>2, <2>3
<1>12. CASE ReadAndPost \/ PostExpired \/ Admit \/ Store
  <2>1. PICK step \in {"posting", "raised", "admitted", "stored"} : Goes(step)
    BY <1>12 DEF ReadAndPost, PostExpired, Admit, Store
  <2>2. uploader.step \in {"holds", "posting", "admitted"} /\ UNCHANGED <<watcher, queue, failed>>
    BY <1>12 DEF ReadAndPost, PostExpired, Admit, Store, NotSkipped, UploaderOnly
  <2>3. uploader'.step = step /\ uploader'.round = uploader.round /\ uploader'.item = uploader.item
    BY <1>4, <2>1 DEF UploaderSteps
  <2>4. Items' = Items
    BY <2>1, <2>2, <2>3 DEF Items, Held
  <2> QED BY <1>5, <2>4
<1>13. CASE Confirmed
  <2>1. uploader.step = "stored" /\ UNCHANGED <<watcher, queue, failed, server>>
        /\ uploader'.step = "saving" /\ uploader'.round = uploader.round
    BY <1>4, <1>13 DEF Confirmed, UploaderSteps
  <2>2. Items' = Rest /\ Held = {uploader.item}
    BY <2>1 DEF Items, Held
  <2>3. DoneWith(uploader.item)
    BY <1>1, <2>1 DEF SafeInv, OnServer, DoneWith
  <2> QED BY <1>2, <2>2, <2>3
<1>14. CASE Save
  <2>1. uploader.step = "saving" /\ UNCHANGED <<watcher, queue, failed>> /\ uploader' = Released
    BY <1>14 DEF Save, UploaderOnly
  <2>2. Items' = Items
    BY <1>3, <2>1 DEF Items, Held
  <2> QED BY <1>5, <2>2
<1> QED BY <1>6, <1>7, <1>8, <1>9, <1>10, <1>11, <1>12, <1>13, <1>14 DEF Uploading

\* What is found in a poll and when the watcher ends, and that nothing else is lost or new.
LEMMA ItemsMove ==
  ASSUME SegmentTypes, PhasesInv, SafeInv, SegmentNext
  PROVE  /\ \A i \in Items' : i \in Items \/ (SizeChanged /\ i \in Found) \/ ((Poll \/ WatcherStopped) /\ i \in Seen)
         /\ ~BeforeRun' => \A i \in Items : DoneWith(i) \/ \E j \in Items' : j.segment = i.segment
<1> USE DEF diskVars, uploadVars
<1>1. ASSUME Items' = Items
      PROVE  /\ \A i \in Items' : i \in Items
             /\ \A i \in Items : \E j \in Items' : j.segment = i.segment
  BY <1>1
<1>2. CASE EndOfRun
  <2>1. BeforeRun'
    BY <1>2 DEF EndOfRun, RunEnds, BeforeRun
  <2>2. Items' = {}
    BY <1>2, Beginnings DEF EndOfRun, RunEnds, Items, Elements, Held, UploaderSteps
  <2> QED BY <2>1, <2>2
<1>3. CASE Begin \/ Proceeds \/ Grow \/ ClaimEnds
  <2>1. UNCHANGED <<watcher, queue, failed, uploader>>
    BY <1>3 DEF Begin, Proceeds, Grow, ClaimEnds
  <2> QED BY <1>1, <2>1 DEF Items, Elements, Held
<1>4. CASE Load
  <2>1. Items = {}
    BY <1>4, NoItems, Beginnings DEF Load, PhasesInv, BeforeRun, UploaderSteps
  <2>2. watcher'.ready = {} /\ queue' = <<>> /\ failed' = {} /\ uploader'.round = {} /\ uploader'.step = "idle"
    BY <1>4, Beginnings DEF Load, PhasesInv, BeforeRun, UploaderSteps
  <2>3. Items' = {}
    BY <2>2 DEF Items, Elements, Held
  <2> QED BY <2>1, <2>3
<1>5. CASE WatcherStopped \/ Poll
  <2>1. PICK found \in SUBSET Segment :
          /\ \A n \in found : file[n] \in {"part", "whole"} /\ (Growing(n) => ffmpeg.pauses)
          /\ watcher.ready = {} /\ watcher'.ready = {[segment |-> n, size |-> file[n]] : n \in found}
          /\ UNCHANGED <<queue, failed, uploader>>
    <3>1. CASE Poll
      BY <3>1, PollFinds
    <3>2. CASE WatcherStopped
      <4> DEFINE rest == {n \in Segment : n \notin watcher.queued /\ file[n] \in {"part", "whole"}}
                 ready == {[segment |-> n, size |-> file[n]] : n \in rest}
      <4>1. watcher' = [watcher EXCEPT !.on = FALSE, !.queued = @ \cup rest, !.ready = ready]
            /\ watcher.ready = {} /\ UNCHANGED <<queue, failed, uploader>> /\ watcher \in Watcher
        BY <3>2 DEF WatcherStopped, SegmentTypes
      <4>2. watcher'.ready = ready
        <5> HIDE DEF ready
        <5> QED BY <4>1 DEF Watcher
      <4>3. rest \in SUBSET Segment /\ \A n \in rest : file[n] \in {"part", "whole"}
        OBVIOUS
      <4>4. \A n \in rest : ~Growing(n)
        BY <3>2 DEF WatcherStopped, PhasesInv, Encoded, Growing
      <4> HIDE DEF rest
      <4> QED BY <4>1, <4>2, <4>3, <4>4
    <3> QED BY <1>5, <3>1, <3>2
  <2>2. \A i \in watcher'.ready : i \in Seen
    BY <2>1 DEF Found, Seen, Info
  <2>3. Items' = watcher'.ready \cup Items
    BY <2>1 DEF Items, Elements, Held
  <2> QED BY <1>5, <2>2, <2>3
<1>6. CASE FlushOne \/ Put
  <2>1. PICK i \in watcher.ready : queue' = Append(queue, i) /\ watcher' = [watcher EXCEPT !.ready = @ \ {i}]
    BY <1>6 DEF FlushOne, Put
  <2>2. i \in Info /\ queue \in Seq(Info) /\ watcher \in Watcher /\ UNCHANGED <<failed, uploader>>
    BY <1>6 DEF SegmentTypes, Watcher, FlushOne, Put
  <2>3. Elements(queue') = Elements(queue) \cup {i}
    BY <2>1, <2>2, AppendElements
  <2>4. watcher'.ready = watcher.ready \ {i}
    BY <2>1, <2>2 DEF Watcher
  <2>5. Items' = Items
    BY <2>1, <2>2, <2>3, <2>4 DEF Items, Held
  <2> QED BY <1>1, <2>5
<1>7. CASE PutTimesOut
  <2>1. PICK i \in watcher.ready : watcher' = [watcher EXCEPT !.ready = @ \ {i}, !.queued = @ \ {i.segment}]
    BY <1>7 DEF PutTimesOut
  <2>2. watcher \in Watcher /\ UNCHANGED <<queue, failed, uploader, phase>> /\ phase \in {"encode", "stop"}
    BY <1>7 DEF SegmentTypes, PhasesInv, PutTimesOut
  <2>3. watcher'.ready = watcher.ready \ {i} /\ i.segment \notin watcher'.queued
    BY <2>1, <2>2 DEF Watcher
  <2>4. Items = Items' \cup {i}
    BY <2>1, <2>2, <2>3 DEF Items, Elements, Held
  <2>5. DoneWith(i)
    BY <2>2, <2>3 DEF DoneWith
  <2> QED BY <2>4, <2>5
<1>8. CASE Uploading
  BY <1>8, UploaderItems
<1> QED BY <1>2, <1>3, <1>4, <1>5, <1>6, <1>7, <1>8, Steps DEF Watching

\* Every item is of a segment.
LEMMA ItemsAreInfos == SegmentTypes => Items \subseteq Info
<1> SUFFICES ASSUME SegmentTypes PROVE Items \subseteq Info
  OBVIOUS
<1>1. watcher.ready \subseteq Info /\ failed \subseteq Info /\ uploader.round \subseteq Info /\ uploader.item \in Info
  BY DEF SegmentTypes, Watcher, Uploader
<1>2. Elements(queue) \subseteq Info
  BY DEF Elements, SegmentTypes
<1> QED BY <1>1, <1>2 DEF Items, Held

-----------------------------------------------------------------------------
(* Safety. *)

\* A file goes only when the server has it.
LEMMA SafeStep == ASSUME SegmentTypes, PhasesInv, SafeInv, SegmentNext PROVE SafeInv'
<1>0. uploader \in Uploader /\ Holding \in Segment
  BY DEF SegmentTypes, Uploader, Info, Holding
<1>1. ASSUME NEW n \in uploaded' \cup saved'.names PROVE n \in Segment /\ server'[n] # "none"
  <2>1. n \in uploaded \cup saved.names => n \in Segment /\ server'[n] # "none"
    BY SafeStays DEF SafeInv, SegmentTypes, StateFile, OnServer
  <2>2. CASE Load
    <3>1. PICK known \in KnownUploads :
            uploaded' = known /\ saved' = IF saved.exists THEN [saved EXCEPT !.names = known] ELSE saved
      BY <2>2 DEF Load
    <3>2. known \subseteq saved.names \cup ReceivedSegments
      BY DEF KnownUploads
    <3>3. n \in known \/ n \in saved.names
      BY <1>1, <3>1 DEF SegmentTypes, StateFile
    <3>4. UNCHANGED server
      BY <2>2 DEF Load
    <3> QED BY <2>1, <3>2, <3>3, <3>4 DEF ReceivedSegments
  <2>3. CASE Confirmed
    <3>1. uploaded' = uploaded \cup {Holding} /\ saved' = saved /\ server' = server /\ uploader.step = "stored"
      BY <2>3 DEF Confirmed
    <3> QED BY <1>0, <1>1, <2>1, <3>1 DEF SafeInv, OnServer
  <2>4. CASE Save
    BY <1>1, <2>1, <2>4 DEF Save
  <2>5. CASE EndOfRun \/ Begin \/ Proceeds \/ WatcherStopped \/ FlushOne \/ Grow \/ Watching \/ ClaimEnds
    <3>1. uploaded' \in {uploaded, {}} /\ saved' \in {saved, NoStateFile}
      BY <2>5 DEF EndOfRun, RunEnds, Begin, Proceeds, WatcherStopped, FlushOne, Grow, Watching, Poll, Put,
         PutTimesOut, ClaimEnds, diskVars, uploadVars
    <3>2. NoStateFile.names = {}
      BY DEF NoStateFile
    <3> QED BY <1>1, <2>1, <3>1, <3>2
  <2>6. CASE Uploading /\ ~Confirmed /\ ~Save
    BY <1>1, <2>1, <2>6 DEF Uploading, Take, BeginRound, Retry, UploaderEnds, Skip, FileGone, SizeChanged,
       ReadAndPost,
       PostFails, PostExpired, Admit, Store, UploaderOnly
  <2> QED BY <2>2, <2>3, <2>4, <2>5, <2>6, Steps
<1>2. ASSUME uploader'.step \in {"stored", "saving"} PROVE (OnServer(Holding))'
  <2>1. CASE UNCHANGED uploader
    BY <1>0, <1>2, <2>1, SafeStays DEF SafeInv, Holding, OnServer
  <2>2. CASE Store \/ Confirmed
    <3>1. uploader'.item = uploader.item
      BY <1>0, <2>2 DEF Store, Confirmed, Goes, Uploader
    <3>2. Store => server' = [server EXCEPT ![Holding] = uploader.item.size] /\ uploader.item.size # "none"
      BY DEF Store, SegmentTypes, Uploader, Info
    <3>3. Confirmed => server' = server /\ server[Holding] # "none"
      BY DEF Confirmed, SafeInv, OnServer
    <3> QED BY <1>0, <2>2, <3>1, <3>2, <3>3 DEF OnServer, Holding, SegmentTypes
  <2>3. CASE EndOfRun \/ Load
    BY <1>2, <2>3, Beginnings DEF EndOfRun, RunEnds, Load, UploaderSteps
  <2>4. CASE Begin \/ Proceeds \/ WatcherStopped \/ FlushOne \/ Grow \/ Watching \/ ClaimEnds
    BY <2>1, <2>4 DEF Begin, Proceeds, WatcherStopped, FlushOne, Grow, Watching, Poll, Put,
       PutTimesOut, ClaimEnds, diskVars, uploadVars
  <2>5. CASE Uploading /\ ~Store /\ ~Confirmed
    <3>1. CASE Take \/ BeginRound \/ UploaderEnds \/ ReadAndPost \/ PostExpired \/ Admit
      BY <1>0, <1>2, <3>1 DEF Take, BeginRound, UploaderEnds, ReadAndPost, PostExpired, Admit, Goes, Uploader
    <3>2. CASE Retry
      BY <1>2, <3>2 DEF Retry
    <3>3. CASE Skip \/ FileGone \/ SizeChanged \/ PostFails \/ Save
      BY <1>0, <1>2, <3>3 DEF Skip, FileGone, SizeChanged, PostFails, TryLater, Save, Released, Uploader
    <3> QED BY <2>5, <3>1, <3>2, <3>3 DEF Uploading
  <2> QED BY <2>2, <2>3, <2>4, <2>5, Steps
<1>3. ASSUME NEW n \in Segment, n \in Written' \/ InHand(n)' PROVE Safe(n)'
  <2>1. CASE Grow
    <3>1. Safe(n) => Safe(n)'
      BY SafeStays
    <3>2. CASE n \in Written \/ InHand(n)
      BY <3>1, <3>2 DEF SafeInv
    <3>3. CASE ~(n \in Written \/ InHand(n))
      <4>1. file'[n] = encoder'.data /\ InHand(n)'
        BY <1>3, <2>1, <3>3, GrowWrites
      <4> QED BY <4>1 DEF Safe, InHand
    <3> QED BY <3>2, <3>3
  <2>2. CASE ~Grow
    BY <1>3, <2>2, OthersWriteNothing, SafeStays DEF SafeInv
  <2> QED BY <2>1, <2>2
<1>4. ASSUME NEW i \in Items' PROVE Safe(i.segment)'
  <2>1. CASE i \in Items
    <3>1. i.segment \in Segment /\ Safe(i.segment)
      BY <2>1, ItemsAreInfos DEF Info, SafeInv
    <3> QED BY <3>1, SafeStays
  <2>2. CASE i \in Found \cup Seen
    <3>1. i.segment \in Segment /\ Safe(i.segment)
      BY <2>2 DEF Found, Seen, Info, Safe
    <3> QED BY <3>1, SafeStays
  <2> QED BY <2>1, <2>2, ItemsMove
<1>5. \A n \in uploaded' \cup saved'.names : OnServer(n)'
  BY <1>1 DEF OnServer
<1> QED BY <1>2, <1>3, <1>4, <1>5 DEF SafeInv, Written

-----------------------------------------------------------------------------
(* Accounting. *)

\* The retries of a segment are counted up until the run ends.
LEMMA TriesCount ==
  ASSUME SegmentTypes, SegmentNext, ~EndOfRun, NEW n \in Segment
  PROVE  tries[n] \in Nat /\ tries'[n] \in Nat /\ tries'[n] >= tries[n]
<1>1. tries \in [Segment -> Nat]
  BY DEF SegmentTypes
<1>2. CASE Retry
  <2>1. PICK i \in uploader.round : tries' = [tries EXCEPT ![i.segment] = @ + 1]
    BY <1>2 DEF Retry
  <2> QED BY <1>1, <2>1
<1>3. CASE ~Retry
  <2>1. Begin \/ Proceeds \/ Load \/ WatcherStopped \/ FlushOne \/ Grow \/ Watching \/ ClaimEnds => tries' = tries
    BY DEF Begin, Proceeds, Load, WatcherStopped, FlushOne, Grow, Watching, Poll, Put, PutTimesOut, ClaimEnds,
       diskVars, uploadVars
  <2>2. Uploading => tries' = tries
    BY <1>3 DEF Uploading, Take, BeginRound, UploaderEnds, Skip, FileGone, SizeChanged, ReadAndPost,
       PostFails, PostExpired, Admit, Store, Confirmed, Save, UploaderOnly
  <2>3. tries' = tries
    BY <2>1, <2>2, Steps
  <2> QED BY <1>1, <2>3
<1> QED BY <1>2, <1>3

Late == phase \in {"flush", "join", "drain"} \/ Succeeding

\* When the watcher has ended, what it had not found is being queued, or is on the server.
LEMMA FlushFinds ==
  ASSUME SegmentTypes, PhasesInv, EncoderInv, SafeInv, WatcherStopped, NEW n \in Segment, n \notin watcher.queued
  PROVE  OnServer(n) \/ \E i \in Items' : i.segment = n
<1>1. encoder.state = "ended"
  BY DEF WatcherStopped, PhasesInv, Encoded
<1>2. n \in Written
  BY <1>1 DEF Written
<1>3. file[n] = "whole" \/ OnServer(n)
  BY <1>2 DEF EncoderInv, SafeInv, Safe
<1>4. CASE file[n] = "whole"
  <2> DEFINE rest == {m \in Segment : m \notin watcher.queued /\ file[m] \in {"part", "whole"}}
             ready == {[segment |-> m, size |-> file[m]] : m \in rest}
  <2>1. [segment |-> n, size |-> file[n]] \in ready
    BY <1>4
  <2>2. watcher' = [watcher EXCEPT !.on = FALSE, !.queued = @ \cup rest, !.ready = ready] /\ watcher \in Watcher
    BY DEF WatcherStopped, SegmentTypes
  <2> HIDE DEF ready
  <2>3. watcher'.ready = ready
    BY <2>2 DEF Watcher
  <2>4. [segment |-> n, size |-> file[n]] \in Items'
    BY <2>1, <2>3 DEF Items
  <2> QED BY <2>4
<1> QED BY <1>3, <1>4

\* What was found is still an item, is on the server, or was tried often enough.
LEMMA AccountStep ==
  ASSUME SegmentTypes, PhasesInv, EncoderInv, SafeInv, AccountInv, SegmentNext
  PROVE  AccountInv'
<1> SUFFICES ASSUME NEW n \in Segment, n \in watcher'.queued \/ Late'
             PROVE  \/ server'[n] # "none" \/ tries'[n] >= MaxSegmentRetries
                    \/ \E i \in Items' : i.segment = n
  BY DEF AccountInv, Late, OnServer, Succeeding
<1>1. ~EndOfRun /\ ~Begin /\ ~Load
  <2>1. EndOfRun => phase' \in {"off", "failed"} /\ watcher' = Blind
    BY DEF EndOfRun, RunEnds
  <2>2. Begin => phase' = "load" /\ watcher' = Blind
    BY DEF Begin, PhasesInv, BeforeRun
  <2>3. Load => phase' = "encode" /\ watcher'.queued = {}
    BY Beginnings DEF Load
  <2> QED BY <2>1, <2>2, <2>3, Beginnings DEF Late, Succeeding
<1>2. ~BeforeRun'
  <2>1. CASE BeforeRun
    <3>1. watcher = Blind /\ uploader = Idle("off")
      BY <2>1 DEF PhasesInv
    <3>2. watcher' = watcher /\ phase' = phase
      <4>1. Idle("off").step = "off"
        BY Beginnings DEF UploaderSteps
      <4> QED BY <1>1, <2>1, <3>1, <4>1, Steps, Beginnings DEF BeforeRun, Proceeds, WatcherStopped, FlushOne,
           Grow, Watching,
             Poll, Put, PutTimesOut, ClaimEnds, Uploading, Take, BeginRound, Retry, UploaderEnds, Skip,
             FileGone, SizeChanged,
             ReadAndPost, PostFails, PostExpired, Admit, Store, Confirmed, Save, NotSkipped
    <3> QED BY <2>1, <3>1, <3>2, Beginnings DEF Late, Succeeding, BeforeRun
  <2>2. CASE ~BeforeRun
    BY <1>1, <2>2, Steps DEF BeforeRun, Proceeds, WatcherStopped, FlushOne, Grow, Watching, Poll, Put,
       PutTimesOut, ClaimEnds,
       Uploading, Take, BeginRound, Retry, UploaderEnds, Skip, FileGone, SizeChanged, ReadAndPost, PostFails,
       PostExpired,
       Admit, Store, Confirmed, Save, UploaderOnly, diskVars, uploadVars
  <2> QED BY <2>1, <2>2
<1>3. CASE n \in watcher.queued \/ Late
  <2>1. OnServer(n) \/ tries[n] >= MaxSegmentRetries \/ \E i \in Items : i.segment = n
    BY <1>3 DEF AccountInv, Late
  <2>2. CASE OnServer(n)
    BY <2>2, SafeStays DEF OnServer
  <2>3. CASE tries[n] >= MaxSegmentRetries
    BY <1>1, <2>3, TriesCount, SegmentUploadAssumption
  <2>4. CASE \E i \in Items : i.segment = n
    <3>1. PICK i \in Items : i.segment = n
      BY <2>4
    <3>2. DoneWith(i) \/ \E j \in Items' : j.segment = n
      BY <1>2, <3>1, ItemsMove
    <3>3. ~(n \notin watcher'.queued /\ phase' \in {"encode", "stop"})
      BY DEF Late, Succeeding
    <3> QED BY <3>1, <3>2, <3>3 DEF DoneWith
  <2> QED BY <2>1, <2>2, <2>3, <2>4
<1>4. CASE n \notin watcher.queued /\ ~Late
  <2>1. CASE WatcherStopped
    BY <1>4, <2>1, FlushFinds, SafeStays DEF OnServer
  <2>2. CASE Poll
    <3>1. PICK found \in SUBSET Segment :
            /\ watcher'.queued = watcher.queued \cup found /\ phase' = phase
            /\ watcher'.ready = {[segment |-> m, size |-> file[m]] : m \in found}
      BY <2>2, PollFinds
    <3>2. n \in found
      BY <1>4, <3>1 DEF Late, Succeeding
    <3>3. [segment |-> n, size |-> file[n]] \in Items'
      BY <3>1, <3>2 DEF Items
    <3> QED BY <3>3
  <2>3. CASE ~WatcherStopped /\ ~Poll
    <3>1. watcher'.queued \subseteq watcher.queued
      BY <1>1, <2>3, Steps DEF Proceeds, FlushOne, Grow, Watching, Put, PutTimesOut, ClaimEnds, Uploading,
         Take, BeginRound,
         Retry, UploaderEnds, Skip, FileGone, SizeChanged, ReadAndPost, PostFails, PostExpired, Admit, Store,
         Confirmed,
         Save, UploaderOnly, diskVars, uploadVars, SegmentTypes, Watcher
    <3>2. Late' => Late
      BY <1>1, <2>3, Steps DEF Late, Succeeding, Proceeds, FlushOne, Grow, Watching, Put, PutTimesOut,
         ClaimEnds, Uploading,
         Take, BeginRound, Retry, UploaderEnds, Skip, FileGone, SizeChanged, ReadAndPost, PostFails,
         PostExpired, Admit,
         Store, Confirmed, Save, UploaderOnly, diskVars, uploadVars
    <3> QED BY <1>4, <3>1, <3>2
  <2> QED BY <2>1, <2>2, <2>3
<1> QED BY <1>3, <1>4

-----------------------------------------------------------------------------
(* The first run of an encoder that does not pause. *)

\* Before the run of it the only step is its beginning, or the end of a call.
LEMMA BeforeRunSteps ==
  ASSUME SegmentTypes, PhasesInv, SegmentNext, BeforeRun
  PROVE  \/ Begin
         \/ phase = "load" /\ (EndOfRun \/ Load)
         \/ ClaimEnds /\ phase = "load" /\ UNCHANGED <<phase, file, runs, ffmpeg, saved>>
<1>1. watcher = Blind /\ uploader = Idle("off") /\ encoder = NotWriting
  BY DEF PhasesInv
<1>2. ~watcher.on /\ uploader.step = "off" /\ encoder.state = "off"
  BY <1>1, Beginnings DEF UploaderSteps
<1>3. ~Uploading /\ ~Watching /\ ~Grow
  BY <1>2 DEF Uploading, Take, BeginRound, Retry, UploaderEnds, Skip, FileGone, SizeChanged, ReadAndPost,
     PostFails,
     PostExpired, Admit, Store, Confirmed, Save, NotSkipped, Watching, Poll, Put, PutTimesOut, Grow
<1>4. ~Proceeds /\ ~WatcherStopped /\ ~FlushOne
  BY DEF BeforeRun, Proceeds, WatcherStopped, FlushOne
<1>5. EndOfRun \/ Load => phase = "load"
  BY DEF BeforeRun, EndOfRun, Running, Load
<1>6. ClaimEnds => phase = "load" /\ UNCHANGED <<phase, file, runs, ffmpeg, saved>>
  BY DEF BeforeRun, ClaimEnds, Running, diskVars, uploadVars
<1> QED BY <1>3, <1>4, <1>5, <1>6, Steps

\* The number of runs, and whose they are.
LEMMA RunsCount ==
  ASSUME SegmentTypes, SegmentNext
  PROVE  ffmpeg' = ffmpeg /\ (~Begin => runs' = runs) /\ (Begin => runs' = runs + 1)
<1>1. EndOfRun \/ Proceeds \/ Load \/ WatcherStopped \/ FlushOne \/ Grow \/ Watching \/ ClaimEnds => UNCHANGED <<runs, ffmpeg>>
  BY DEF EndOfRun, RunEnds, Proceeds, Load, WatcherStopped, FlushOne, Grow, Watching, Poll, Put, PutTimesOut,
     ClaimEnds
<1>2. Uploading => UNCHANGED <<runs, ffmpeg>>
  BY DEF Uploading, Take, BeginRound, Retry, UploaderEnds, Skip, FileGone, SizeChanged, ReadAndPost, PostFails,
     PostExpired, Admit, Store, Confirmed, Save, UploaderOnly
<1>3. Begin => runs' = runs + 1 /\ ffmpeg' = ffmpeg
  BY DEF Begin
<1> QED BY <1>1, <1>2, <1>3, Steps

\* The first run finds nothing.
LEMMA FreshStep == ASSUME SegmentTypes, PhasesInv, FreshInv, SegmentNext PROVE FreshInv'
<1>1. CASE runs' = 0
  <2>1. runs = 0 /\ ~Begin
    BY <1>1, RunsCount DEF SegmentTypes
  <2> QED BY <2>1, BeforeRunSteps DEF FreshInv, BeforeRun
<1>2. CASE runs' # 0 /\ FirstRun' /\ phase' = "load"
  <2>1. CASE Begin
    <3>1. runs = 0 /\ UNCHANGED <<file, saved>>
      BY <1>2, <2>1, RunsCount DEF FirstRun, SegmentTypes, Begin, diskVars, uploadVars
    <3> QED BY <1>2, <3>1 DEF FreshInv
  <2>2. CASE ~Begin
    <3>1. FirstRun
      BY <1>2, <2>2, RunsCount DEF FirstRun
    <3>2. phase = "load" /\ ~Load /\ ~EndOfRun
      BY <1>2, <2>2, Steps DEF EndOfRun, RunEnds, Load, Proceeds, WatcherStopped, FlushOne, Grow, Watching,
         Poll, Put,
         PutTimesOut, ClaimEnds, Uploading, Take, BeginRound, Retry, UploaderEnds, Skip, FileGone, SizeChanged,
         ReadAndPost, PostFails, PostExpired, Admit, Store, Confirmed, Save, UploaderOnly
    <3>3. UNCHANGED <<file, saved>>
      BY <2>2, <3>2, BeforeRunSteps DEF BeforeRun
    <3> QED BY <1>2, <3>1, <3>2, <3>3 DEF FreshInv
  <2> QED BY <2>1, <2>2
<1>3. CASE runs' # 0 /\ ~(FirstRun' /\ phase' = "load")
  BY <1>3 DEF FreshInv
<1> QED BY <1>1, <1>2, <1>3

\* In a first run that does not pause, what was found is whole when it is taken, so that
\* no size changes, and what is found next is whole as well.
LEMMA FoundIsWhole ==
  ASSUME SegmentTypes, PhasesInv, SafeInv, EncoderInv, FirstRun, WholeInv, SegmentNext, NEW i \in Items'
  PROVE  i.size = "whole" /\ i.segment \in Written
<1>1. ~SizeChanged
  <2> SUFFICES ASSUME SizeChanged PROVE FALSE
    OBVIOUS
  <2>1. uploader.item \in Items
    BY DEF SizeChanged, NotSkipped, Items, Held
  <2>2. uploader.item.size = "whole" /\ Holding \in Written
    BY <2>1 DEF WholeInv, Holding
  <2>3. file[Holding] \in {"none", "whole"}
    BY <2>2 DEF EncoderInv
  <2>4. ~Growing(Holding)
    BY <2>2 DEF Growing, Written, Segment
  <2> QED BY <2>2, <2>3, <2>4 DEF SizeChanged
<1>2. CASE i \in Items
  BY <1>2 DEF WholeInv
<1>3. CASE (Poll \/ WatcherStopped) /\ i \in Seen
  <2>1. i.segment \in Segment /\ i.size = file[i.segment] /\ i.size \in {"part", "whole"} /\ ~Growing(i.segment)
    BY <1>3 DEF Found, Seen, Info, FirstRun
  <2>2. encoder.state # "off"
    BY <1>3 DEF PhasesInv, Poll, WatcherStopped, Encoded
  <2> QED BY <2>1, <2>2 DEF WholeInv
<1> QED BY <1>1, <1>2, <1>3, ItemsMove

\* What the first run of an encoder that does not pause has finished is whole, here or on the server.
LEMMA WholeStep ==
  ASSUME SegmentTypes, PhasesInv, EncoderInv, SafeInv, FirstRunInv, SegmentNext, FirstRun'
  PROVE  WholeInv'
<1>0. Holding \in Segment /\ uploader \in Uploader
  BY DEF SegmentTypes, Uploader, Info, Holding
<1>1. CASE EndOfRun \/ Begin
  <2>1. encoder' = NotWriting /\ watcher' = Blind /\ queue' = <<>> /\ uploader' = Idle("off") /\ failed' = {}
        /\ uploaded' = {}
    BY <1>1 DEF EndOfRun, RunEnds, Begin, PhasesInv, BeforeRun, diskVars, uploadVars
  <2>2. Written' = {} /\ Items' = {} /\ encoder'.state = "off" /\ uploader'.step = "off"
    BY <2>1, Beginnings DEF Written, Items, Elements, Held, UploaderSteps
  <2> QED BY <2>1, <2>2 DEF WholeInv
<1>2. CASE Load
  <2>1. FirstRun /\ phase = "load"
    BY <1>2, RunsCount DEF FirstRun, Load
  <2>2. (\A n \in Segment : file[n] = "none") /\ ~saved.exists /\ UNCHANGED file
    BY <1>2, <2>1 DEF FirstRunInv, FreshInv, Load
  <2>3. uploaded' = {} /\ encoder' = [state |-> "running", segment |-> 1, data |-> "none"]
    BY <1>2, <2>2 DEF Load, KnownUploads
  <2>4. Written' = {} /\ \A n \in Segment : ~InHand(n)'
    BY <2>3 DEF Written, Segment, InHand
  <2>5. watcher'.ready = {} /\ queue' = <<>> /\ failed' = {} /\ uploader'.round = {} /\ uploader'.step = "idle"
    BY <1>2, Beginnings DEF Load, PhasesInv, BeforeRun, UploaderSteps
  <2>6. Items' = {}
    BY <2>5 DEF Items, Elements, Held
  <2> QED BY <2>2, <2>3, <2>4, <2>5, <2>6 DEF WholeInv
<1> SUFFICES ASSUME ~EndOfRun, ~Begin, ~Load PROVE WholeInv'
  BY <1>1, <1>2
<1>3. FirstRun /\ WholeInv
  BY RunsCount DEF FirstRun, FirstRunInv
<1>4. \A i \in Items' : i.size = "whole" /\ i.segment \in Written
  BY <1>3, FoundIsWhole
<1>5. CASE Grow
  <2>1. UNCHANGED <<server, uploader, uploaded>> /\ encoder.state = "running"
    BY <1>5 DEF Grow, uploadVars
  <2>2. ASSUME NEW n \in Segment
        PROVE  /\ n \in Written' => "whole" \in {file'[n], server'[n]}
               /\ n \in Written => n \in Written'
               /\ file'[n] = "whole" => n \in Written'
               /\ file'[n] = "part" => Growing(n)'
               /\ InHand(n)' => file'[n] # "none"
    <3>1. /\ n \in Written => "whole" \in {file[n], server[n]}
          /\ file[n] = "whole" => n \in Written
          /\ file[n] = "part" => Growing(n)
          /\ InHand(n) => file[n] # "none"
      BY <1>3, <2>1 DEF WholeInv
    <3>2. n \in Written => n \in Written' /\ file[n] \in {"none", "whole"}
      BY <1>5, WrittenGrows DEF EncoderInv
    <3>3. Growing(n) => n \in Written'
      BY <1>5, WrittenGrows DEF Growing
    <3>4. InHand(n)' => encoder'.data \in {"empty", "part"}
      <4>1. encoder' \in Encoder
        BY MainTypes, <1>5 DEF SegmentTypes
      <4> QED BY <4>1 DEF InHand, Encoder, Sizes
    <3>5. InHand(n)' /\ encoder'.data = "part" => Growing(n)'
      BY DEF InHand, Growing
    <3> QED BY <1>5, <2>1, <3>1, <3>2, <3>3, <3>4, <3>5, GrowWrites
  <2>3. (uploader'.step \in {"stored", "saving"} => server'[Holding] = "whole") /\ Holding' = Holding
        /\ \A n \in uploaded' : server'[n] = "whole"
    BY <1>3, <2>1 DEF WholeInv, Holding
  <2>4. \A n \in Written' \cup Written : n \in Segment
    BY DEF Written
  <2>5. \A i \in Items' : i.size = "whole" /\ i.segment \in Written'
    BY <1>4, <2>2, <2>4
  <2> QED BY <2>2, <2>3, <2>4, <2>5 DEF WholeInv
<1>6. CASE ~Grow
  <2>1. encoder' = encoder
    BY <1>6, Steps DEF Proceeds, WatcherStopped, FlushOne, Watching, Poll, Put, PutTimesOut, ClaimEnds,
       Uploading, Take,
       BeginRound, Retry, UploaderEnds, Skip, FileGone, SizeChanged, ReadAndPost, PostFails, PostExpired,
       Admit, Store,
       Confirmed, Save, UploaderOnly, diskVars
  <2>2. Written' = Written /\ \A n \in Segment : (InHand(n)' <=> InHand(n)) /\ (Growing(n)' <=> Growing(n))
    BY <2>1 DEF Written, InHand, Growing
  <2>3. uploader.step = "admitted" => uploader.item.size = "whole"
    BY <1>3 DEF WholeInv, Items, Held
  <2>4. server' \in [Segment -> Sizes] /\ \A n \in Segment : server'[n] = server[n] \/ server'[n] = "whole"
    BY <2>3, ServerKeeps DEF SegmentTypes, Sizes
  <2>5. \/ UNCHANGED file
        \/ /\ file' = [file EXCEPT ![Holding] = "none"]
           /\ Holding \in Written /\ server[Holding] = "whole"
    <3>1. CASE Skip
      <4>1. uploader.item \in Items /\ Holding \in uploaded
        BY <3>1 DEF Skip, Items, Held
      <4> QED BY <1>3, <3>1, <4>1 DEF Skip, WholeInv, Holding
    <3>2. CASE Confirmed
      <4>1. uploader.item \in Items /\ uploader.step = "stored"
        BY <3>2 DEF Confirmed, Items, Held
      <4> QED BY <1>3, <3>2, <4>1 DEF Confirmed, WholeInv, Holding
    <3>3. CASE ~Skip /\ ~Confirmed
      BY <1>6, <3>3, Steps DEF Proceeds, WatcherStopped, FlushOne, Watching, Poll, Put, PutTimesOut,
         ClaimEnds, Uploading,
         Take, BeginRound, Retry, UploaderEnds, FileGone, SizeChanged, ReadAndPost, PostFails, PostExpired,
         Admit, Store,
         Save, UploaderOnly, diskVars
    <3> QED BY <3>1, <3>2, <3>3
  <2>6. ASSUME NEW n \in Segment
        PROVE  /\ n \in Written => "whole" \in {file'[n], server'[n]}
               /\ encoder.state # "off" => /\ file'[n] = "whole" => n \in Written
                                           /\ file'[n] = "part" => Growing(n)
                                           /\ InHand(n) => file'[n] # "none"
    <3>1. /\ n \in Written => "whole" \in {file[n], server[n]}
          /\ encoder.state # "off" => /\ file[n] = "whole" => n \in Written
                                      /\ file[n] = "part" => Growing(n)
                                      /\ InHand(n) => file[n] # "none"
      BY <1>3 DEF WholeInv
    <3>2. CASE UNCHANGED file
      BY <2>4, <3>1, <3>2
    <3>3. CASE /\ file' = [file EXCEPT ![Holding] = "none"]
               /\ Holding \in Written /\ server[Holding] = "whole"
      <4>1. CASE n = Holding
        <5>1. file'[n] = "none" /\ "whole" = server'[n]
          BY <1>0, <2>4, <3>3, <4>1 DEF SegmentTypes
        <5>2. ~InHand(n)
          BY <3>3, <4>1 DEF InHand, Written, Segment
        <5> QED BY <5>1, <5>2
      <4>2. CASE n # Holding
        BY <2>4, <3>1, <3>3, <4>2 DEF SegmentTypes
      <4> QED BY <4>1, <4>2
    <3> QED BY <2>5, <3>2, <3>3
  <2>7. ASSUME uploader'.step \in {"stored", "saving"} PROVE (server[Holding] = "whole")'
    <3>1. CASE UNCHANGED uploader
      BY <1>0, <1>3, <2>4, <2>7, <3>1 DEF WholeInv, Holding
    <3>2. CASE Store \/ Confirmed
      <4>1. uploader'.item = uploader.item /\ uploader.step \in {"admitted", "stored"}
        BY <1>0, <3>2 DEF Store, Confirmed, Goes, Uploader
      <4>2. Store => server' = [server EXCEPT ![Holding] = "whole"]
        BY <2>3 DEF Store
      <4>3. Confirmed => server' = server /\ server[Holding] = "whole"
        BY <1>3 DEF Confirmed, WholeInv
      <4> QED BY <1>0, <3>2, <4>1, <4>2, <4>3 DEF Holding, SegmentTypes
    <3>3. Proceeds \/ WatcherStopped \/ FlushOne \/ Watching \/ ClaimEnds => UNCHANGED uploader
      BY DEF Proceeds, WatcherStopped, FlushOne, Watching, Poll, Put, PutTimesOut, ClaimEnds, uploadVars
    <3>4. CASE Uploading /\ ~Store /\ ~Confirmed
      <4>1. CASE Take \/ BeginRound \/ UploaderEnds \/ ReadAndPost \/ PostExpired \/ Admit
        BY <1>0, <2>7, <4>1 DEF Take, BeginRound, UploaderEnds, ReadAndPost, PostExpired, Admit, Goes, Uploader
      <4>2. CASE Retry
        BY <2>7, <4>2 DEF Retry
      <4>3. CASE Skip \/ FileGone \/ SizeChanged \/ PostFails \/ Save
        BY <1>0, <2>7, <4>3 DEF Skip, FileGone, SizeChanged, PostFails, TryLater, Save, Released, Uploader
      <4> QED BY <3>4, <4>1, <4>2, <4>3 DEF Uploading
    <3> QED BY <1>6, <3>1, <3>2, <3>3, <3>4, Steps
  <2>8. \A n \in uploaded' : server'[n] = "whole"
    <3>1. CASE Confirmed
      BY <1>0, <1>3, <3>1 DEF Confirmed, WholeInv
    <3>2. CASE ~Confirmed
      <4>1. uploaded' = uploaded
        BY <1>6, <3>2, Steps DEF Proceeds, WatcherStopped, FlushOne, Watching, Poll, Put, PutTimesOut,
           ClaimEnds, Uploading,
           Take, BeginRound, Retry, UploaderEnds, Skip, FileGone, SizeChanged, ReadAndPost, PostFails,
           PostExpired, Admit,
           Store, Save, UploaderOnly, uploadVars
      <4>2. \A n \in uploaded : n \in Segment /\ server[n] = "whole"
        BY <1>3 DEF WholeInv, SegmentTypes
      <4> QED BY <2>4, <4>1, <4>2
    <3> QED BY <3>1, <3>2
  <2>9. \A n \in Written : n \in Segment
    BY DEF Written
  <2> QED BY <1>4, <2>1, <2>2, <2>6, <2>7, <2>8, <2>9 DEF WholeInv
<1> QED BY <1>5, <1>6

-----------------------------------------------------------------------------
(* The invariant, and what follows from it. *)

\* It holds before the first run.
LEMMA SegmentInvInit == SegmentInit => SegmentInv
<1> SUFFICES ASSUME SegmentInit PROVE SegmentInv
  OBVIOUS
<1>1. SegmentTypes
  BY SegmentTypesInit
<1>2. /\ encoder = NotWriting /\ watcher = Blind /\ queue = <<>> /\ uploader = Idle("off") /\ failed = {} /\ uploaded = {}
      /\ phase = "off" /\ runs = 0 /\ saved = NoStateFile /\ file = [n \in Segment |-> "none"]
  BY DEF SegmentInit
<1>3. encoder.state = "off" /\ uploader.step = "off" /\ watcher.queued = {}
  BY <1>2, Beginnings DEF UploaderSteps
<1>4. Written = {} /\ Items = {}
  BY <1>2, <1>3, Beginnings DEF Written, Items, Elements, Held, UploaderSteps
<1>5. PhasesInv
  BY <1>2, Beginnings DEF PhasesInv, BeforeRun, Encoded, Succeeding, UploaderSteps
<1>6. EncoderInv /\ SafeInv
  BY <1>2, <1>3, <1>4 DEF EncoderInv, SafeInv, InHand, NoStateFile
<1>7. AccountInv
  BY <1>2, <1>3 DEF AccountInv, Succeeding
<1>8. FirstRunInv
  BY <1>2 DEF FirstRunInv, FreshInv, FirstRun, NoStateFile
<1> QED BY <1>1, <1>5, <1>6, <1>7, <1>8 DEF SegmentInv

\* Every step keeps it.
LEMMA SegmentInvStep == SegmentInv /\ [SegmentNext]_segmentVars => SegmentInv'
<1> SUFFICES ASSUME SegmentInv, [SegmentNext]_segmentVars PROVE SegmentInv'
  OBVIOUS
<1>1. CASE SegmentNext
  <2>1. SegmentTypes'
    BY <1>1, MainTypes, WatcherTypes, UploaderTypes DEF SegmentInv, SegmentNext
  <2>2. PhasesInv' /\ EncoderInv' /\ SafeInv' /\ AccountInv'
    BY <1>1, PhasesStep, EncoderStep, SafeStep, AccountStep DEF SegmentInv
  <2>3. FirstRunInv'
    BY <1>1, FreshStep, WholeStep DEF SegmentInv, FirstRunInv
  <2> QED BY <2>1, <2>2, <2>3 DEF SegmentInv
<1>2. CASE UNCHANGED segmentVars
  BY <1>2 DEF segmentVars, diskVars, uploadVars, SegmentInv, SegmentTypes, PhasesInv, BeforeRun, Encoded,
     Succeeding,
     EncoderInv, SafeInv, AccountInv, FirstRunInv, FreshInv, FirstRun, WholeInv, Written, InHand, Growing,
     OnServer, Safe,
     Items, Held, Elements, Holding
<1> QED BY <1>1, <1>2

\* SegmentInv is an invariant.
LEMMA SegmentInvAlways == SegmentSpec => []SegmentInv
  BY SegmentInvInit, SegmentInvStep, PTL DEF SegmentSpec

\* Whatever ffmpeg has written is on the worker's disk or on the server, however often the
\* quality is begun, crashes, or loses its claim; in a first run that does not pause, whole.
THEOREM NoSegmentLost == SegmentSpec => []NoSegmentIsLost
<1>1. SegmentInv => NoSegmentIsLost
  BY DEF SegmentInv, SafeInv, FirstRunInv, FirstRun, WholeInv, NoSegmentIsLost, Safe, OnServer, Written
<1> QED BY <1>1, SegmentInvAlways, PTL

\* A quality that goes on as a success has every segment on the server, or has tried it as
\* often as it may.
THEOREM EverySegmentAccounted == SegmentSpec => []SuccessIsAccounted
<1>1. ASSUME SegmentInv, Succeeding, NEW n \in Segment
      PROVE  server[n] # "none" \/ tries[n] >= MaxSegmentRetries
  <2>1. watcher.ready = {} /\ queue = <<>> /\ uploader.step = "ended"
    BY <1>1 DEF SegmentInv, PhasesInv
  <2>2. failed = {} /\ uploader.round = {}
    BY <1>1, <2>1 DEF SegmentInv, PhasesInv
  <2>3. Items = {}
    BY <2>1, <2>2, NoItems
  <2> QED BY <1>1, <2>3 DEF SegmentInv, AccountInv, OnServer
<1>2. SegmentInv => SuccessIsAccounted
  BY <1>1 DEF SuccessIsAccounted, Succeeding
<1> QED BY <1>2, SegmentInvAlways, PTL
=============================================================================

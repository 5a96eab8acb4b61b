----------------------------- MODULE MCUploads -----------------------------
(* The remote workers, each level by itself: the segments of one quality, the *)
(* qualities of one job, the circuit breaker of the client that sends them,   *)
(* the processes of a fleet, and the clean-up of what they leave behind. The  *)
(* others do not begin.                                                       *)
EXTENDS SegmentUpload, RemoteJob, CircuitBreaker, WorkerControl, OrphanCleanup

VARIABLE part

MCEncoders == {[pauses |-> TRUE, runs |-> 1], [pauses |-> FALSE, runs |-> 2]}

Init ==
  /\ SegmentInit /\ RemoteInit /\ BreakerInit /\ ControlInit /\ OrphanInit
  /\ part \in {"segments", "job", "breaker", "control", "orphans"}
  /\ part # "job" => listed = {}
  /\ part # "segments" => ffmpeg = CHOOSE e \in Encoders : TRUE

Next ==
  \/ part = "segments" /\ SegmentNext /\ UNCHANGED <<part, remoteVars, breakerVars, controlVars, orphanVars>>
  \/ part = "job" /\ RemoteNext /\ UNCHANGED <<part, segmentVars, breakerVars, controlVars, orphanVars>>
  \/ part = "breaker" /\ BreakerNext /\ UNCHANGED <<part, segmentVars, remoteVars, controlVars, orphanVars>>
  \/ part = "control" /\ ControlNext /\ UNCHANGED <<part, segmentVars, remoteVars, breakerVars, orphanVars>>
  \/ part = "orphans" /\ OrphanNext /\ UNCHANGED <<part, segmentVars, remoteVars, breakerVars, controlVars>>

\* BreakerFairness, ControlFairness and OrphanFairness, of their own parts; in the other
\* ones the callers, the processes and the task would begin. Of the segments and the job no
\* fair action is enabled elsewhere.
BreakerFairnessHere ==
  /\ \A c \in Callers : /\ WF_breakerVars(part = "breaker" /\ Request(c))
                        /\ WF_breakerVars(part = "breaker" /\ Ends(c))
  /\ SF_breakerVars(part = "breaker" /\ \E c \in Callers : Succeeds(c))
  /\ WF_breakerVars(part = "breaker" /\ ResetTimePasses)
  /\ WF_breakerVars(part = "breaker" /\ ApiComesUp)
ControlFairnessHere ==
  \A w \in Fleet : /\ WF_controlVars(part = "control" /\ Proceed(w))
                   /\ WF_controlVars(part = "control" /\ Heartbeat(w))
OrphanFairnessHere == WF_orphanVars(part = "orphans" /\ Cleaning)

Spec ==
  /\ Init /\ [][Next]_<<part, segmentVars, remoteVars, breakerVars, controlVars, orphanVars>>
  /\ SegmentFairness /\ RemoteFairness /\ BreakerFairnessHere /\ ControlFairnessHere
  /\ OrphanFairnessHere

\* Types, of all levels.
WorkerTypeOK == SegmentTypeOK /\ RemoteTypeOK /\ BreakerTypeOK /\ ControlTypeOK /\ OrphanTypeOK
=============================================================================

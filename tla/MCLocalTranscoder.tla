-------------------------- MODULE MCLocalTranscoder --------------------------
(* Local transcoding on two levels, each by itself in one part of the states: *)
(* one video, one request of the admin at a time, in the deployments below;   *)
(* and the qualities of one video. The other part does not begin.             *)
EXTENDS LocalTranscoder, LocalQualities

VARIABLE part

MCDeployments ==
  {[offered |-> {"upload", "delete", "restore", "purge", "reupload"},
    remote |-> FALSE, mayFail |-> TRUE, again |-> FALSE],
   [offered |-> {"upload", "delete", "restore", "purge", "retranscode", "reupload"},
    remote |-> FALSE, mayFail |-> FALSE, again |-> FALSE],
   [offered |-> {"upload", "delete", "restore", "purge", "publish", "retry"},
    remote |-> TRUE, mayFail |-> FALSE, again |-> FALSE]}
MCRenditions == <<"a", "b", "c">>
MCHighRes == {"a", "b"}

MCInit ==
  /\ Init /\ QualityInit /\ part \in {"library", "qualities"}
  /\ part = "library" => config = [keeps |-> TRUE, cmaf |-> TRUE]
  /\ part = "qualities" => deployment = CHOOSE d \in Deployments : d.remote

MCNext ==
  \/ part = "library" /\ Next /\ UNCHANGED <<part, qualityVars>>
  \/ part = "qualities" /\ QualityNext /\ UNCHANGED <<part, vars>>

\* Fairness, of the part of the states that it is about: in the other one the worker
\* would begin.
FairnessHere ==
  /\ \A r \in Requests : WF_vars(part = "library" /\ RequestGoesOn(r) /\ UNCHANGED <<workerVars, deployment>>)
  /\ WF_vars(part = "library" /\ WorkerGoesOn /\ UNCHANGED deployment)
  /\ SF_vars(part = "library" /\ FindPendingVideos /\ UNCHANGED deployment)
  /\ SF_vars(part = "library" /\ CheckStaleJobs /\ UNCHANGED deployment)
  /\ \A v \in Videos :
       /\ SF_vars(part = "library" /\ ~Hurried(v) /\ ClaimLapses(v)
                 /\ UNCHANGED <<workerVars, deployment>>)
       /\ SF_vars(part = "library" /\ ~Hurried(v) /\ CheckpointAges(v)
                 /\ UNCHANGED <<workerVars, deployment>>)

MCSpec == MCInit /\ [][MCNext]_<<part, vars, qualityVars>> /\ FairnessHere
=============================================================================

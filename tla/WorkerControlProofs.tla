------------------------- MODULE WorkerControlProofs -------------------------
(* That no outdated process of a worker is given a job, for any fleet and any  *)
(* number of deployments, commands and mishaps.                                *)
EXTENDS WorkerControl, TLAPS

Steps == {"down", "start", "idle", "job", "leave"}
Process == [step : Steps, version : Versions, shutdown : BOOLEAN, listening : BOOLEAN, restart : BOOLEAN]

\* The types hold in all reachable states: whatever befalls the processes, no step of
\* theirs leaves the records of worker/remote_transcoder.py's loop.
LEMMA ControlTypes == ASSUME ControlTypeOK, [ControlNext]_controlVars PROVE ControlTypeOK'
<1> USE WorkerControlAssumption DEF ControlTypeOK, Versions, Unknown
<1>1. CASE UNCHANGED controlVars
  BY <1>1 DEF controlVars
<1>2. ASSUME NEW w \in Fleet, StartProcess(w) PROVE ControlTypeOK'
  BY <1>2 DEF StartProcess, NothingElse, Down
<1>3. ASSUME NEW w \in Fleet, Connect(w) PROVE ControlTypeOK'
  <2>1. PICK subscribed \in BOOLEAN :
          process' = [process EXCEPT ![w].step = "idle", ![w].listening = subscribed]
    BY <1>3 DEF Connect, BeginLoop
  <2>2. [process[w] EXCEPT !.step = "idle", !.listening = subscribed] \in Process
    BY DEF Process, Steps
  <2>3. process' = [process EXCEPT ![w] = [process[w] EXCEPT !.step = "idle", !.listening = subscribed]]
    BY <2>1
  <2>4. process' \in [Fleet -> Process]
    BY <2>2, <2>3 DEF Process, Steps
  <2> QED BY <1>3, <2>4 DEF Connect, StoreVersion, NothingElse, Process, Steps
<1>4. ASSUME NEW w \in Fleet, ConnectFails(w) PROVE ControlTypeOK'
  BY <1>4 DEF ConnectFails, Mishap, NothingElse, MovesTo
<1>5. ASSUME NEW w \in Fleet, Heartbeat(w) PROVE ControlTypeOK'
  BY ZenonT(60), <1>5 DEF Heartbeat, StoreVersion, VersionOk, NothingElse
<1>6. ASSUME NEW w \in Fleet, ClaimJob(w) PROVE ControlTypeOK'
  BY <1>6 DEF ClaimJob, MovesTo, NothingElse
<1>7. ASSUME NEW w \in Fleet, FinishJob(w) PROVE ControlTypeOK'
  BY <1>7 DEF FinishJob, ExecuteCommand, MovesTo, NothingElse
<1>8. ASSUME NEW w \in Fleet, JobRaises(w) PROVE ControlTypeOK'
  BY <1>8 DEF JobRaises, Mishap, NothingElse, MovesTo
<1>9. ASSUME NEW w \in Fleet, LeaveLoop(w) PROVE ControlTypeOK'
  BY <1>9 DEF LeaveLoop, NothingElse, Down
<1>10. ASSUME NEW w \in Fleet, Signalled(w) PROVE ControlTypeOK'
  <2>1. [process[w] EXCEPT !.shutdown = TRUE] \in Process
    BY DEF Process, Steps
  <2>2. process' = [process EXCEPT ![w] = [process[w] EXCEPT !.shutdown = TRUE]]
    BY <1>10 DEF Signalled
  <2>3. process' \in [Fleet -> Process]
    BY <2>1, <2>2 DEF Process, Steps
  <2> QED BY <1>10, <2>3 DEF Signalled, Mishap, NothingElse, Process, Steps
<1>11. ASSUME NEW w \in Fleet, ProcessDies(w) PROVE ControlTypeOK'
  BY <1>11 DEF ProcessDies, Mishap, NothingElse, Down
<1>12. ASSUME NEW w \in Fleet, ListenerEnds(w) PROVE ControlTypeOK'
  <2>1. [process[w] EXCEPT !.listening = FALSE] \in Process
    BY DEF Process, Steps
  <2>2. process' = [process EXCEPT ![w] = [process[w] EXCEPT !.listening = FALSE]]
    BY <1>12 DEF ListenerEnds
  <2>3. process' \in [Fleet -> Process]
    BY <2>1, <2>2 DEF Process, Steps
  <2> QED BY <1>12, <2>3 DEF ListenerEnds, Mishap, NothingElse, Process, Steps
<1>13. ASSUME NEW target \in Fleet \cup {Everyone}, SendCommand(target) PROVE ControlTypeOK'
  <2>1. PICK receivers : KeepCommand(receivers)
    BY <1>13 DEF SendCommand, PublishCommand
  <2>2. ASSUME NEW w \in Fleet PROVE [process[w] EXCEPT !.restart = TRUE] \in Process
    BY DEF Process, Steps
  <2>3. process' \in [Fleet -> Process]
    BY <2>1, <2>2 DEF KeepCommand, Process, Steps
  <2> QED BY <1>13, <2>3 DEF SendCommand, Process, Steps
<1>14. CASE DeployApi \/ DeployWorkers
  BY <1>14 DEF DeployApi, DeployWorkers
<1> HIDE DEF ControlTypeOK
<1>15. ASSUME ControlNext PROVE ControlTypeOK'
  BY <1>2, <1>3, <1>4, <1>5, <1>6, <1>7, <1>8, <1>9, <1>10, <1>11, <1>12, <1>13, <1>14, <1>15 DEF ControlNext
<1> QED BY <1>1, <1>15

\* Types, for any fleet.
THEOREM ControlTypeCorrect == ControlSpec => []ControlTypeOK
<1>1. ControlInit => ControlTypeOK
  BY WorkerControlAssumption DEF ControlInit, ControlTypeOK, Versions, Unknown, Down
<1> QED BY <1>1, ControlTypes, PTL DEF ControlSpec

-----------------------------------------------------------------------------
\* The row of a worker whose main loop runs has the version of its process: the process
\* stores it before the loop begins, and no other one writes the row.
RowsAreCurrent ==
  \A w \in Fleet : process[w].step \in {"idle", "job", "leave"} => rowVersion[w] = process[w].version

\* A process writes its version to its row before its main loop, and no other does.
LEMMA RowsStayCurrent ==
  ASSUME ControlTypeOK, RowsAreCurrent, [ControlNext]_controlVars PROVE RowsAreCurrent'
<1> USE DEF ControlTypeOK, RowsAreCurrent
<1>1. CASE UNCHANGED controlVars
  BY <1>1 DEF controlVars
<1>2. ASSUME NEW w \in Fleet, StartProcess(w) \/ ConnectFails(w) PROVE RowsAreCurrent'
  BY ZenonT(60), <1>2 DEF StartProcess, ConnectFails, Down, MovesTo, At
<1>3. ASSUME NEW w \in Fleet, Heartbeat(w) PROVE RowsAreCurrent'
  <2>1. \A v \in Fleet : process'[v].version = process[v].version /\ (v # w => process'[v] = process[v])
    BY <1>3 DEF Heartbeat
  <2> QED BY <1>3, <2>1 DEF Heartbeat, StoreVersion, InLoop
<1>4. ASSUME NEW w \in Fleet, Connect(w) PROVE RowsAreCurrent'
  <2>1. PICK subscribed \in BOOLEAN :
          process' = [process EXCEPT ![w].step = "idle", ![w].listening = subscribed]
    BY <1>4 DEF Connect, BeginLoop
  <2>2. \A v \in Fleet : process'[v].version = process[v].version /\ (v # w => process'[v] = process[v])
    BY <2>1
  <2> QED BY <1>4, <2>2 DEF Connect, StoreVersion
<1>5. ASSUME NEW w \in Fleet, ClaimJob(w) \/ FinishJob(w) \/ JobRaises(w)
      PROVE  RowsAreCurrent'
  BY <1>5 DEF ClaimJob, FinishJob, JobRaises, ExecuteCommand, MovesTo, At
<1>6. ASSUME NEW w \in Fleet, LeaveLoop(w) \/ Signalled(w) \/ ProcessDies(w) \/ ListenerEnds(w)
      PROVE  RowsAreCurrent'
  BY <1>6 DEF LeaveLoop, Signalled, ProcessDies, ListenerEnds, Down
<1>7. ASSUME NEW target \in Fleet \cup {Everyone}, SendCommand(target) PROVE RowsAreCurrent'
  BY <1>7 DEF SendCommand, PublishCommand, KeepCommand
<1>8. CASE DeployApi \/ DeployWorkers
  BY <1>8 DEF DeployApi, DeployWorkers
<1> QED BY <1>1, <1>2, <1>3, <1>4, <1>5, <1>6, <1>7, <1>8 DEF ControlNext

\* A step that gives a process a job compares that row with what the API requires.
LEMMA ClaimsOfTheStep ==
  ASSUME ControlTypeOK, RowsAreCurrent, [ControlNext]_controlVars
  PROVE  [\A w \in Fleet : ~At(w, "job") /\ process'[w].step = "job"
            => process[w].version = required]_controlVars
<1> SUFFICES ASSUME ControlNext, NEW w \in Fleet, process[w].step # "job", process'[w].step = "job"
             PROVE  process[w].version = required
  BY DEF At
<1> USE DEF ControlTypeOK
<1>1. CASE ClaimJob(w)
  BY <1>1, WorkerControlAssumption DEF ClaimJob, At, MayClaim, RowsAreCurrent, Versions, Unknown
<1>2. ASSUME NEW v \in Fleet, v # w, ClaimJob(v) PROVE FALSE
  BY <1>2 DEF ClaimJob, MovesTo
<1>3. ASSUME NEW v \in Fleet, StartProcess(v) \/ ConnectFails(v) PROVE FALSE
  BY <1>3 DEF StartProcess, ConnectFails, Down, MovesTo
<1>4. ASSUME NEW v \in Fleet, Heartbeat(v) PROVE FALSE
  BY <1>4 DEF Heartbeat
<1>5. ASSUME NEW v \in Fleet, Connect(v) PROVE FALSE
  <2>1. PICK subscribed \in BOOLEAN :
          process' = [process EXCEPT ![v].step = "idle", ![v].listening = subscribed]
    BY <1>5 DEF Connect, BeginLoop
  <2> QED BY <2>1
<1>6. ASSUME NEW v \in Fleet, FinishJob(v) \/ JobRaises(v) \/ LeaveLoop(v) PROVE FALSE
  BY <1>6 DEF FinishJob, JobRaises, LeaveLoop, ExecuteCommand, MovesTo, Down
<1>7. ASSUME NEW v \in Fleet, Signalled(v) \/ ProcessDies(v) \/ ListenerEnds(v) PROVE FALSE
  BY <1>7 DEF Signalled, ProcessDies, ListenerEnds, Down
<1>8. ASSUME NEW target \in Fleet \cup {Everyone}, SendCommand(target) PROVE FALSE
  BY <1>8 DEF SendCommand, PublishCommand, KeepCommand
<1>9. ASSUME DeployApi \/ DeployWorkers PROVE FALSE
  BY <1>9 DEF DeployApi, DeployWorkers
<1> QED BY <1>1, <1>2, <1>3, <1>4, <1>5, <1>6, <1>7, <1>8, <1>9 DEF ControlNext

\* No job is given to a process whose code is not the API's, though claim_job looks at the
\* row and not at the process: for any fleet, and any deployments, commands and mishaps.
THEOREM ClaimsCurrent == ControlSpec => ClaimsAreCurrent
<1>1. ControlInit => RowsAreCurrent
  BY DEF ControlInit, RowsAreCurrent, Down
<1>2. ControlSpec => []RowsAreCurrent
  BY <1>1, ControlTypeCorrect, RowsStayCurrent, PTL DEF ControlSpec
<1> QED BY <1>2, ControlTypeCorrect, ClaimsOfTheStep, PTL DEF ControlSpec, ClaimsAreCurrent
=============================================================================

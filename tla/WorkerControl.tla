---------------------------- MODULE WorkerControl ----------------------------
(***************************************************************************)
(* The life of the remote workers' processes: the start, the main loop and *)
(* the heartbeat task of worker/remote_transcoder.py, the commands of      *)
(* worker/command_listener.py with api/pubsub.py, the version check of     *)
(* api/worker_api.py, and the administrator's requests. Each worker has a  *)
(* row of its own in workers. What a job does is RemoteJob's matter.       *)
(*                                                                         *)
(* The process manager is external: it starts a process that ended again,  *)
(* with the code that is deployed by then.                                 *)
(***************************************************************************)
EXTENDS Naturals

CONSTANTS Fleet,           \* the workers
          Everyone,        \* the target "all" of a command
          MaxVersion,      \* bound: deployments of the API, and of the workers
          MaxCommands,     \* bound: commands that are sent
          MaxMishaps       \* bound: kills, failed requests, lost connections and signals, in all

ASSUME WorkerControlAssumption ==
  /\ Everyone \notin Fleet /\ MaxVersion \in Nat /\ MaxCommands \in Nat /\ MaxMishaps \in Nat

VARIABLES required,   \* CODE_VERSION of the API
          deployed,   \* the version that a worker process starts with
          rowVersion, \* of each row of workers, code_version in its metadata
          process,    \* of each worker
          commands, mishaps

controlVars == <<required, deployed, rowVersion, process, commands, mishaps>>

Versions == 0 .. MaxVersion
Unknown == MaxVersion + 1

Down == [step |-> "down", version |-> 0, shutdown |-> FALSE, listening |-> FALSE, restart |-> FALSE]

ControlInit ==
  /\ required = 0 /\ deployed = 0
  /\ rowVersion = [w \in Fleet |-> Unknown]
  /\ process = [w \in Fleet |-> Down]
  /\ commands = 0 /\ mishaps = 0

At(w, step) == process[w].step = step
InLoop(w) == process[w].step \in {"idle", "job"}
MovesTo(w, step) == process' = [process EXCEPT ![w].step = step]
Mishap == mishaps < MaxMishaps /\ mishaps' = mishaps + 1
NothingElse == UNCHANGED <<required, deployed, commands>>

-----------------------------------------------------------------------------
(* The process. *)

StartProcess(w) ==
  /\ At(w, "down")
  /\ process' = [process EXCEPT ![w] = [Down EXCEPT !.step = "start", !.version = deployed]]
  /\ NothingElse /\ UNCHANGED <<rowVersion, mishaps>>

\* worker_heartbeat: the version is stored, and then compared.
StoreVersion(w) == rowVersion' = [rowVersion EXCEPT ![w] = process[w].version]
VersionOk(w) == process[w].version = required

\* The command listener, if Redis can be reached, once and for all.
BeginLoop(w) ==
  \E subscribed \in BOOLEAN :
    process' = [process EXCEPT ![w].step = "idle", ![w].listening = subscribed]

\* Mutant: the first heartbeat does not tell the version.
ConnectUnversioned(w) ==
  /\ At(w, "start") /\ BeginLoop(w)
  /\ NothingElse /\ UNCHANGED <<rowVersion, mishaps>>

\* The first heartbeat, whose answer is not looked at.
Connect(w) ==
  /\ At(w, "start") /\ StoreVersion(w) /\ BeginLoop(w)
  /\ NothingElse /\ UNCHANGED mishaps

\* The process ends with a status of 1.
ConnectFails(w) ==
  /\ At(w, "start") /\ Mishap /\ MovesTo(w, "down")
  /\ NothingElse /\ UNCHANGED rowVersion

\* As long as no shutdown was requested, while a job is worked at as well.
Heartbeat(w) ==
  /\ InLoop(w) /\ ~process[w].shutdown
  /\ StoreVersion(w)
  /\ process' = [process EXCEPT ![w].shutdown = ~VersionOk(w)]
  /\ NothingElse /\ UNCHANGED mishaps

\* A row without a version is let in, unless workers.require_version_field is set.
MayClaim(w) == rowVersion[w] \in {required, Unknown}

ClaimJob(w) ==
  /\ At(w, "idle") /\ ~process[w].shutdown /\ MayClaim(w)
  /\ MovesTo(w, "job")
  /\ NothingElse /\ UNCHANGED <<rowVersion, mishaps>>

\* Mutant: the command is taken, and the loop goes on.
TakeCommand(w) == process' = [process EXCEPT ![w].step = "idle", ![w].restart = FALSE]

\* The handler sends SIGTERM to its own process; the loop ends in any case.
ExecuteCommand(w) ==
  process' = [process EXCEPT ![w].step = "leave", ![w].shutdown = TRUE, ![w].restart = FALSE]

\* process_job returned, whatever came of the job. Only now a command is looked for.
FinishJob(w) ==
  /\ At(w, "job")
  /\ IF process[w].restart THEN ExecuteCommand(w) ELSE MovesTo(w, "idle")
  /\ NothingElse /\ UNCHANGED <<rowVersion, mishaps>>

\* An exception that process_job lets through: the loop backs off and begins again,
\* without looking for a command.
JobRaises(w) ==
  /\ At(w, "job") /\ Mishap /\ MovesTo(w, "idle")
  /\ NothingElse /\ UNCHANGED rowVersion

\* The condition of the main loop, or its end; the heartbeats and the subscription end
\* with it.
LeaveLoop(w) ==
  /\ At(w, "leave") \/ (At(w, "idle") /\ process[w].shutdown)
  /\ process' = [process EXCEPT ![w] = Down]
  /\ NothingElse /\ UNCHANGED <<rowVersion, mishaps>>

\* signal_handler.
Signalled(w) ==
  /\ InLoop(w) /\ Mishap
  /\ process' = [process EXCEPT ![w].shutdown = TRUE]
  /\ NothingElse /\ UNCHANGED rowVersion

\* At any point, in the middle of a job perhaps.
ProcessDies(w) ==
  /\ ~At(w, "down") /\ Mishap
  /\ process' = [process EXCEPT ![w] = Down]
  /\ NothingElse /\ UNCHANGED rowVersion

-----------------------------------------------------------------------------
(* Commands. *)

\* A worker subscribes to the broadcasts, and to a channel with the identifier that its
\* process made up at the start, to which no request publishes.
Subscribers(target) ==
  IF target = Everyone THEN {w \in Fleet : InLoop(w) /\ process[w].listening} ELSE {}

\* The listener keeps a command for the end of the current job.
KeepCommand(receivers) ==
  process' = [w \in Fleet |-> IF w \in receivers THEN [process[w] EXCEPT !.restart = TRUE] ELSE process[w]]

\* Those that do not listen at this moment never hear of it.
PublishCommand(target) == KeepCommand(Subscribers(target))

\* restart_worker, stop_worker and update_worker, or restart_all_workers.
SendCommand(target) ==
  /\ commands < MaxCommands /\ commands' = commands + 1
  /\ PublishCommand(target)
  /\ UNCHANGED <<required, deployed, rowVersion, mishaps>>

\* Redis closes the connection: the listener ends, what it has kept stays.
ListenerEnds(w) ==
  /\ InLoop(w) /\ process[w].listening /\ Mishap
  /\ process' = [process EXCEPT ![w].listening = FALSE]
  /\ NothingElse /\ UNCHANGED rowVersion

-----------------------------------------------------------------------------
(* Deployments, in either order. *)

DeployApi ==
  /\ required < MaxVersion /\ required' = required + 1
  /\ UNCHANGED <<deployed, rowVersion, process, commands, mishaps>>

DeployWorkers ==
  /\ deployed < MaxVersion /\ deployed' = deployed + 1
  /\ UNCHANGED <<required, rowVersion, process, commands, mishaps>>

-----------------------------------------------------------------------------
ControlNext ==
  \/ \E w \in Fleet :
       \/ StartProcess(w) \/ Connect(w) \/ ConnectFails(w) \/ Heartbeat(w) \/ ClaimJob(w)
       \/ FinishJob(w) \/ JobRaises(w) \/ LeaveLoop(w) \/ Signalled(w) \/ ProcessDies(w)
       \/ ListenerEnds(w)
  \/ \E target \in Fleet \cup {Everyone} : SendCommand(target)
  \/ DeployApi \/ DeployWorkers

\* The process manager and the main loop: at each step one of these at most.
Proceed(w) == StartProcess(w) \/ Connect(w) \/ FinishJob(w) \/ LeaveLoop(w)

\* Those, and the interval of the heartbeats. That there are jobs, or deployments, is
\* not assumed.
ControlFairness ==
  \A w \in Fleet : WF_controlVars(Proceed(w)) /\ WF_controlVars(Heartbeat(w))
ControlSpec == ControlInit /\ [][ControlNext]_controlVars /\ ControlFairness

-----------------------------------------------------------------------------
ControlTypeOK ==
  /\ required \in Versions /\ deployed \in Versions
  /\ rowVersion \in [Fleet -> Versions \cup {Unknown}]
  /\ process \in [Fleet -> [step : {"down", "start", "idle", "job", "leave"}, version : Versions,
                            shutdown : BOOLEAN, listening : BOOLEAN, restart : BOOLEAN]]
  /\ commands \in 0 .. MaxCommands /\ mishaps \in 0 .. MaxMishaps

\* No job is given to a process whose code is not the API's, though the claim looks at
\* a row that outlives processes and their versions, and at nothing that the process
\* sends with it.
ClaimsAreCurrent ==
  [][\A w \in Fleet : ~At(w, "job") /\ process'[w].step = "job" => process[w].version = required]_controlVars

\* A worker that got the command to restart ends its process, as long as it is given
\* jobs: only by its end a process gets rid of a command, and none is kept for ever, over
\* errors and over a lost connection. (A worker that gets no job keeps it for ever.)
CommandsAreObeyed ==
  /\ [][\A w \in Fleet : process[w].restart /\ ~process'[w].restart => process'[w].step \in {"leave", "down"}]_controlVars
  /\ \A w \in Fleet : []<>(At(w, "job") \/ At(w, "down")) => []<>~process[w].restart
=============================================================================

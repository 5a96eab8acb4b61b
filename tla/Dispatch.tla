------------------------------ MODULE Dispatch ------------------------------
(***************************************************************************)
(* How a transcoding job reaches a remote worker: api/job_queue.py over     *)
(* Redis Streams, and the loop of worker/remote_transcoder.py, which asks   *)
(* the API for the job that a message names, or else for any job. The       *)
(* database decides; messages are hints that may be lost, may come twice,   *)
(* or may name a job that is gone.                                         *)
(*                                                                         *)
(* A claim is seen here as held until its job is reported, or until its     *)
(* worker is gone and the claim lapses: module JobLease has the rest.       *)
(***************************************************************************)
EXTENDS Naturals, FiniteSets

CONSTANTS DispatchJobs,    \* numbered by the time the video was created
          UrgentJobs,      \* those whose messages go to the "high" stream
          Loops,           \* the remote workers
          MaxPublished,    \* bound: messages that are published
          MaxFaults,       \* bound: calls of Redis or of the API that fail, and crashes
          MaxTries         \* bound: how often a job fails

ASSUME DispatchAssumption ==
  /\ DispatchJobs \subseteq Nat \ {0} /\ IsFiniteSet(DispatchJobs) /\ UrgentJobs \subseteq DispatchJobs
  /\ MaxPublished \in Nat /\ MaxFaults \in Nat /\ MaxTries \in Nat

VARIABLES dispatch,  \* of each job, what the database has: its state and who claimed it
          tried,     \* how often each job failed
          message,   \* the messages by number: the job, whether it was delivered or acknowledged
          loop,      \* of each worker: its step, job and message
          streams,   \* of each worker: JobQueue._redis_available, found out when it starts
          faults

dispatchVars == <<dispatch, tried, message, loop, streams, faults>>

Nobody == "nobody"
Messages == 1 .. MaxPublished
NoMessage == [job |-> 0, state |-> "none"]
LoopAt(step, j, m) == [step |-> step, job |-> j, message |-> m]
Polls == LoopAt("poll", 0, 0)
Restarts == LoopAt("idle", 0, 0)

DispatchInit ==
  /\ dispatch = [j \in DispatchJobs |-> [state |-> "none", owner |-> Nobody]]
  /\ tried = [j \in DispatchJobs |-> 0]
  /\ message = [m \in Messages |-> NoMessage]
  /\ loop = [w \in Loops |-> Restarts]
  /\ streams \in [Loops -> BOOLEAN]
  /\ faults \in 0 .. MaxFaults   \* those below the bound are not to come

\* A call that may fail, a bounded number of times.
Fault == faults < MaxFaults /\ faults' = faults + 1
NoFault == faults' = faults
Becomes(w, next) == loop' = [loop EXCEPT ![w] = next]
MarkMessage(m, state) == message' = [message EXCEPT ![m].state = state]
In(state) == {m \in Messages : message[m].state = state}

-----------------------------------------------------------------------------
(* The API. *)

\* create_or_reset_transcoding_job commits the job and then publishes it, or fails to:
\* nobody will know.
CreateJobAndPublish(j) ==
  /\ dispatch[j].state = "none"
  /\ dispatch' = [dispatch EXCEPT ![j] = [state |-> "pending", owner |-> Nobody]]
  /\ \/ /\ \E m \in In("none") : /\ \A n \in In("none") : m <= n
                                 /\ message' = [message EXCEPT ![m] = [job |-> j, state |-> "fresh"]]
        /\ NoFault
     \/ message' = message /\ Fault
  /\ UNCHANGED <<tried, loop, streams>>

\* The stream is trimmed to its length.
Trim ==
  /\ \E m \in In("fresh") : MarkMessage(m, "lost")
  /\ Fault /\ UNCHANGED <<dispatch, tried, loop, streams>>

\* The claim of a worker that is gone lapses, and the next claim releases it. No
\* message is published again.
ClaimLapses(j) ==
  /\ dispatch[j].state = "claimed" /\ loop[dispatch[j].owner].job # j
  /\ dispatch' = [dispatch EXCEPT ![j] = [state |-> "pending", owner |-> Nobody]]
  /\ UNCHANGED <<tried, message, loop, streams, faults>>

-----------------------------------------------------------------------------
(* The worker's loop. *)

Handles(w, m) == Becomes(w, LoopAt("confirm", message[m].job, m))

\* _recover_abandoned_messages: whoever was given a message may still be at its job,
\* which takes longer than REDIS_PENDING_TIMEOUT_MS. Its own are found as well.
RecoverMessage(w) ==
  /\ loop[w] = Restarts /\ streams[w]
  /\ \E m \in In("delivered") : Handles(w, m)
  /\ NoFault /\ UNCHANGED <<dispatch, tried, message, streams>>

\* _read_from_stream for each priority in order, each message to one worker. When the
\* answer is lost the message is delivered all the same, and the loop asks the API.
ReadMessage(w) ==
  /\ loop[w] = Restarts /\ streams[w]
  /\ \E m \in In("fresh") :
       /\ \A n \in In("fresh") : IF (message[m].job \in UrgentJobs) = (message[n].job \in UrgentJobs)
                                 THEN m <= n ELSE message[m].job \in UrgentJobs
       /\ MarkMessage(m, "delivered")
       /\ \/ Handles(w, m) /\ NoFault
          \/ Becomes(w, Polls) /\ Fault
  /\ UNCHANGED <<dispatch, tried, streams>>

\* Mutant: a worker that has the streams does not ask the API.
NoMessageNoPoll(w) ==
  /\ loop[w] = Restarts /\ ~streams[w]
  /\ Becomes(w, Polls)
  /\ NoFault /\ UNCHANGED <<dispatch, tried, message, streams>>

\* Nothing to read, or Redis does not answer.
NoMessageFound(w) ==
  /\ loop[w] = Restarts
  /\ \/ (~streams[w] \/ In("fresh") = {}) /\ NoFault
     \/ streams[w] /\ Fault
  /\ Becomes(w, Polls)
  /\ UNCHANGED <<dispatch, tried, message, streams>>

Claims(w, j, m) ==
  /\ dispatch' = [dispatch EXCEPT ![j] = [state |-> "claimed", owner |-> w]]
  /\ Becomes(w, LoopAt("process", j, m))

\* The claim of the job that the message names. An error of the API ends the round:
\* the message stays delivered.
ConfirmClaim(w) ==
  /\ loop[w].step = "confirm"
  /\ \/ /\ dispatch[loop[w].job].state = "pending"
        /\ Claims(w, loop[w].job, loop[w].message) /\ NoFault
     \/ /\ dispatch[loop[w].job].state # "pending"
        /\ Becomes(w, LoopAt("forget", 0, loop[w].message)) /\ dispatch' = dispatch /\ NoFault
     \/ Becomes(w, Restarts) /\ dispatch' = dispatch /\ Fault
  /\ UNCHANGED <<tried, message, streams>>

\* The job is gone: so is its message, unless acknowledge_job fails.
ForgetMessage(w) ==
  /\ loop[w].step = "forget"
  /\ \/ MarkMessage(loop[w].message, "acked") /\ NoFault
     \/ message' = message /\ Fault
  /\ Becomes(w, Polls)
  /\ UNCHANGED <<dispatch, tried, streams>>

\* The oldest video first. Without a job the loop turns to re-encoding and begins again.
PollJob(w) ==
  /\ loop[w] = Polls
  /\ LET pending == {j \in DispatchJobs : dispatch[j].state = "pending"}
     IN \/ /\ \E j \in pending : (\A k \in pending : j <= k) /\ Claims(w, j, 0)
           /\ NoFault
        \/ pending = {} /\ Becomes(w, Restarts) /\ dispatch' = dispatch /\ NoFault
        \/ Becomes(w, Restarts) /\ dispatch' = dispatch /\ Fault
  /\ UNCHANGED <<tried, message, streams>>

\* process_job reports the end of the job, a failure leaving it pending or failed for
\* good, and returns; the message has yet to be acknowledged, in either case.
ProcessClaimed(w) ==
  /\ loop[w].step = "process"
  /\ \E end \in {"pending", "failed", "completed"} :
       /\ end # "completed" => tried' = [tried EXCEPT ![loop[w].job] = @ + 1]
       /\ end = "completed" => tried' = tried
       /\ end = "pending" => tried[loop[w].job] < MaxTries
       /\ end = "failed" => tried[loop[w].job] = MaxTries
       /\ dispatch' = [dispatch EXCEPT ![loop[w].job] = [state |-> end, owner |-> Nobody]]
  /\ Becomes(w, IF loop[w].message = 0 THEN Restarts ELSE LoopAt("ack", 0, loop[w].message))
  /\ NoFault /\ UNCHANGED <<message, streams>>

Acknowledge(w) ==
  /\ loop[w].step = "ack"
  /\ \/ MarkMessage(loop[w].message, "acked") /\ NoFault
     \/ message' = message /\ Fault
  /\ Becomes(w, Restarts)
  /\ UNCHANGED <<dispatch, tried, streams>>

\* A crash, a version that the server does not want, or an exception that ends the round.
LoopDies(w) ==
  /\ loop[w] # Restarts /\ Fault
  /\ Becomes(w, Restarts)
  /\ UNCHANGED <<dispatch, tried, message, streams>>

-----------------------------------------------------------------------------
Looping(w) == \/ ReadMessage(w) \/ NoMessageFound(w) \/ ConfirmClaim(w) \/ ForgetMessage(w)
              \/ PollJob(w) \/ ProcessClaimed(w) \/ Acknowledge(w)
DispatchNext ==
  \/ Trim \/ \E j \in DispatchJobs : CreateJobAndPublish(j) \/ ClaimLapses(j)
  \/ \E w \in Loops : Looping(w) \/ RecoverMessage(w) \/ LoopDies(w)

\* The loop of each worker goes on; a check for abandoned messages is due again and
\* again, and a claim lapses.
DispatchFairness ==
  /\ \A w \in Loops : WF_dispatchVars(Looping(w))
  /\ SF_dispatchVars(\E w \in Loops : RecoverMessage(w))
  /\ \A j \in DispatchJobs : WF_dispatchVars(ClaimLapses(j))
DispatchSpec == DispatchInit /\ [][DispatchNext]_dispatchVars /\ DispatchFairness

-----------------------------------------------------------------------------
DispatchTypeOK ==
  /\ dispatch \in [DispatchJobs -> [state : {"none", "pending", "claimed", "completed", "failed"},
                                    owner : Loops \cup {Nobody}]]
  /\ tried \in [DispatchJobs -> 0 .. MaxTries + 1]
  /\ message \in [Messages -> [job : DispatchJobs \cup {0},
                               state : {"none", "fresh", "delivered", "acked", "lost"}]]
  /\ loop \in [Loops -> [step : {"idle", "confirm", "forget", "poll", "process", "ack"},
                         job : DispatchJobs \cup {0}, message : Messages \cup {0}]]
  /\ streams \in [Loops -> BOOLEAN] /\ faults \in 0 .. MaxFaults

\* Every job that was created ends, with or without a message, whatever Redis does
\* and whoever dies with it: the worker that is given nothing by Redis asks the API.
\* And a message that was delivered is acknowledged in the end, though its worker died
\* or its job went to another one, as long as some worker reads the streams.
JobsAreDispatched ==
  /\ <>[](\A j \in DispatchJobs : dispatch[j].state \in {"none", "completed", "failed"})
  /\ <>[]((\E w \in Loops : streams[w]) => \A m \in Messages : message[m].state # "delivered")
=============================================================================

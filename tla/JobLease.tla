------------------------------ MODULE JobLease ------------------------------
(***************************************************************************)
(* The lease a transcoding worker holds on a job, as the Worker API        *)
(* (api/worker_api.py) keeps it in the tables transcoding_jobs, videos and *)
(* workers, and the remote workers (worker/remote_transcoder.py) that ask  *)
(* for it.  transcoding_jobs.video_id is unique, so a job stands for its   *)
(* video as well.                                                          *)
(*                                                                         *)
(* A request handler is split where it awaits between reading the job row  *)
(* and writing it: the Send actions are the authentication and the checks  *)
(* on the row that was read, and put what the handler remembers into       *)
(* "pending"; the Commit actions are its database transaction.  The stale  *)
(* job checker and the shutdown hook write row by row with an await in     *)
(* between, and have a program counter.                                    *)
(*                                                                         *)
(* Time is abstracted to what the code compares: a claim deadline is       *)
(* absent, in the future ("live") or past ("expired"), a heartbeat is      *)
(* recent or older than WORKER_OFFLINE_THRESHOLD_MINUTES.                  *)
(***************************************************************************)
EXTENDS Naturals, FiniteSets

CONSTANTS
    Workers,      \* the registered workers (rows of the table workers)
    Jobs,         \* the transcoding jobs, one for each video
    Retranscodes, \* the jobs queued to transcode a ready video again
    None,         \* SQL NULL in a column that holds a worker or a job
    MaxAttempts,  \* transcoding_jobs.max_attempts
    MaxPending    \* bound: handlers between their read and their commit

ASSUME NoneAssumption == None \notin Workers \cup Jobs
ASSUME RetranscodesAssumption == Retranscodes \subseteq Jobs
ASSUME MaxAttemptsAssumption == MaxAttempts \in Nat \ {0}
ASSUME MaxPendingAssumption == MaxPending \in Nat

VARIABLES
    job,      \* rows of transcoding_jobs
    video,    \* videos.status of the video of each job
    worker,   \* rows of workers
    client,   \* where each remote worker's main loop stands
    pending,  \* job requests whose handler has read and not yet written
    checker   \* the stale job checker, or the API's shutdown hook

vars == <<job, video, worker, client, pending, checker>>

-----------------------------------------------------------------------------
(* The rows and records.                                                   *)

Attempts == 1 .. MaxAttempts
Deadlines == {"none", "live", "expired"}

JobRow == [claimed_at : BOOLEAN,             \* IS NOT NULL
           claim_expires_at : Deadlines,
           worker_id : Workers \cup {None},
           completed_at : BOOLEAN,           \* IS NOT NULL
           last_error : BOOLEAN,             \* IS NOT NULL
           attempt_number : Attempts,
           retranscode_metadata : BOOLEAN]   \* IS NOT NULL

VideoStatus == {"pending", "processing", "ready", "failed"}

\* "up" stands for the statuses active, idle and busy, which nothing in the
\* life of a lease tells apart.
WorkerRow == [status : {"up", "offline", "disabled"},
              fresh : BOOLEAN,               \* last_heartbeat is recent
              current_job_id : Jobs \cup {None}]

Idle == [phase |-> "idle", job |-> None]

\* "finishing": process_job is in its loop around complete_job;
\* "failing": it is in one of its exception handlers, reporting the failure.
ClientState == {Idle} \cup [phase : {"working", "finishing", "failing"}, job : Jobs]

\* attempt is the attempt number a fail request will write, 0 when the
\* failure is final; awaited says that the worker still waits for the answer.
Request ==
    [op : {"claim"}, worker : Workers, job : {None},
     attempt : {0}, awaited : BOOLEAN]
    \cup
    [op : {"cleanup", "progress", "complete", "fail"}, worker : Workers, job : Jobs,
     attempt : 0 .. MaxAttempts, awaited : BOOLEAN]

CheckerIdle == [pc |-> "idle", worker |-> None, jobs |-> {}, job |-> None]

\* worker is the stale worker looked at, jobs the rows fetched and yet to
\* release, job the one being released.
Checker ==
    {CheckerIdle}
    \cup [pc : {"mark", "fetch"}, worker : Workers, jobs : {{}}, job : {None}]
    \cup [pc : {"release"}, worker : Workers \cup {None}, jobs : SUBSET Jobs, job : {None}]
    \cup [pc : {"read", "reset"}, worker : Workers \cup {None}, jobs : SUBSET Jobs, job : Jobs]

\* Mutant: the claim's own column is forgotten.
UnclaimedKeepsClaim(row) == [row EXCEPT !.claim_expires_at = "none", !.worker_id = None]

\* The columns the code clears to give a claim up.
Unclaimed(row) ==
    [row EXCEPT !.claimed_at = FALSE, !.claim_expires_at = "none", !.worker_id = None]

\* The columns complete_job and the final failure set.
Over(row) ==
    [row EXCEPT !.completed_at = TRUE, !.claimed_at = FALSE, !.claim_expires_at = "none"]

-----------------------------------------------------------------------------
(* New uploads (a pending video) and queued re-transcodes (a video that    *)
(* stays ready, the clean-up left to the claim).                           *)

NewJob(j) ==
    [claimed_at |-> FALSE, claim_expires_at |-> "none", worker_id |-> None,
     completed_at |-> FALSE, last_error |-> FALSE, attempt_number |-> 1,
     retranscode_metadata |-> j \in Retranscodes]

Init ==
    /\ job = [j \in Jobs |-> NewJob(j)]
    /\ video = [j \in Jobs |-> IF j \in Retranscodes THEN "ready" ELSE "pending"]
    /\ worker = [w \in Workers |-> [status |-> "up", fresh |-> TRUE, current_job_id |-> None]]
    /\ client = [w \in Workers |-> Idle]
    /\ pending = {}
    /\ checker = CheckerIdle

-----------------------------------------------------------------------------
(* The passing of time.                                                    *)

\* A deadline that is not moved passes.
ClaimExpires(j) ==
    /\ job[j].claim_expires_at = "live"
    /\ job' = [job EXCEPT ![j].claim_expires_at = "expired"]
    /\ UNCHANGED <<video, worker, client, pending, checker>>

\* No heartbeat came for WORKER_OFFLINE_THRESHOLD_MINUTES.
HeartbeatAges(w) ==
    /\ worker[w].fresh
    /\ worker' = [worker EXCEPT ![w].fresh = FALSE]
    /\ UNCHANGED <<job, video, client, pending, checker>>

-----------------------------------------------------------------------------
(* Heartbeats, sent by a task of their own in each worker.  The status is  *)
(* written whatever the row holds.                                         *)

\* The shutdown hook runs the checker's release loop for no worker.
ShuttingDown == checker.pc \in {"release", "read", "reset"} /\ checker.worker = None

\* verify_worker_key refuses a worker that is disabled; no request reaches an
\* API that is shutting down.
Authenticated(w) == worker[w].status # "disabled" /\ ~ShuttingDown

Heartbeat(w) ==
    /\ Authenticated(w)
    /\ worker' = [worker EXCEPT ![w].status = "up", ![w].fresh = TRUE]
    /\ UNCHANGED <<job, video, client, pending, checker>>

-----------------------------------------------------------------------------
(* Requests on jobs.                                                       *)

Awaiting(w) == \E r \in pending : r.worker = w /\ r.awaited

\* The main loop of a worker sends one request at a time, waits for it or
\* gives up, and then goes on.
CanSend(w) == ~Awaiting(w) /\ Cardinality(pending) < MaxPending

Submit(op, w, j, attempt) ==
    pending' = pending \cup
        {[op |-> op, worker |-> w, job |-> j, attempt |-> attempt, awaited |-> TRUE]}

\* The worker learns the answer to r, unless it no longer waits for it.
Answer(r, state) ==
    client' = IF r.awaited THEN [client EXCEPT ![r.worker] = state] ELSE client

Owns(w, j) == job[j].worker_id = w
NotExpired(j) == job[j].claim_expires_at # "expired"

\* The request times out at the worker.  The handler goes on; the worker may
\* send another one.
GiveUpWaiting(w) ==
    /\ \E r \in pending :
         /\ r.worker = w /\ r.awaited
         /\ pending' = (pending \ {r}) \cup {[r EXCEPT !.awaited = FALSE]}
    /\ UNCHANGED <<job, video, worker, client, checker>>

\* The transaction fails for good (a 500 or 503), nothing is written.
TransactionFails ==
    /\ \E r \in pending :
         /\ r.op # "cleanup"
         /\ pending' = pending \ {r}
    /\ UNCHANGED <<job, video, worker, client, checker>>

-----------------------------------------------------------------------------
(* claim_job                                                               *)

SendClaim(w) ==
    /\ client[w].phase = "idle"
    /\ CanSend(w)
    /\ Authenticated(w)
    /\ Submit("claim", w, None, 0)
    /\ UNCHANGED <<job, video, worker, client, checker>>

\* Mutant: the test of completed_at is the wrong way round.
LapsedButCompleted == {j \in Jobs : job[j].claim_expires_at = "expired" /\ job[j].completed_at}

\* Mutant: the deadline is not compared with the clock.
LapsedOrLive == {j \in Jobs : job[j].claim_expires_at # "none" /\ ~job[j].completed_at}

\* Jobs the clean-up of expired claims resets; those whose deadline passed
\* after the handler read the clock are not seen by it.
Lapsed == {j \in Jobs : job[j].claim_expires_at = "expired" /\ ~job[j].completed_at}

Claimable(row, status) ==
    /\ status = "pending" \/ (status = "ready" /\ row.retranscode_metadata)
    /\ ~row.claimed_at
    /\ ~row.completed_at

ClaimedBy(row, w) ==
    [row EXCEPT !.claimed_at = TRUE, !.claim_expires_at = "live", !.worker_id = w]

\* The rows and the videos once the claims in "lapsed" are reset.
RowsReset(lapsed) == [j \in Jobs |-> IF j \in lapsed THEN Unclaimed(job[j]) ELSE job[j]]
VideosReset(lapsed) ==
    [j \in Jobs |-> IF j \in lapsed /\ video[j] = "processing" THEN "pending" ELSE video[j]]

ClaimableAfter(lapsed) == {j \in Jobs : Claimable(RowsReset(lapsed)[j], VideosReset(lapsed)[j])}

\* "No jobs available" among those asked for; what was reset stays reset.
ClaimNothing(r, lapsed, asked) ==
    /\ ClaimableAfter(lapsed) \cap asked = {}
    /\ job' = RowsReset(lapsed)
    /\ video' = VideosReset(lapsed)
    /\ pending' = pending \ {r}
    /\ UNCHANGED <<worker, client>>

\* The row, the video and the worker; a re-transcode is cleaned up before the
\* answer.
ClaimJob(r, lapsed, j) ==
    /\ j \in ClaimableAfter(lapsed)
    /\ job' = [RowsReset(lapsed) EXCEPT ![j] = ClaimedBy(@, r.worker)]
    /\ video' = [VideosReset(lapsed) EXCEPT ![j] = "processing"]
    /\ worker' = [worker EXCEPT ![r.worker].current_job_id = j]
    /\ IF job[j].retranscode_metadata
       THEN /\ pending' = (pending \ {r}) \cup {[r EXCEPT !.op = "cleanup", !.job = j]}
            /\ UNCHANGED client
       ELSE /\ pending' = pending \ {r}
            /\ Answer(r, [phase |-> "working", job |-> j])

\* One transaction: reset what has lapsed, then take one of the claimable jobs
\* (any: they differ in the age of their videos), or the job asked for when
\* the worker was sent to one by the Redis queue, and point the worker at it.
CommitClaim(r) ==
    /\ r \in pending /\ r.op = "claim"
    /\ \E lapsed \in SUBSET Lapsed, asked \in {Jobs} \cup {{j} : j \in Jobs} :
         \/ ClaimNothing(r, lapsed, asked)
         \/ \E j \in asked : ClaimJob(r, lapsed, j)
    /\ UNCHANGED checker

\* The deferred clean-up of a re-transcode, after the claim was committed; an
\* exception in it is logged and the claim stands.
CleanUpRetranscode(r) ==
    /\ r \in pending /\ r.op = "cleanup"
    /\ \E done \in BOOLEAN :
         job' = IF done THEN [job EXCEPT ![r.job].retranscode_metadata = FALSE] ELSE job
    /\ pending' = pending \ {r}
    /\ Answer(r, [phase |-> "working", job |-> r.job])
    /\ UNCHANGED <<video, worker, checker>>

-----------------------------------------------------------------------------
(* update_progress; the segment uploads and their finalisation check and   *)
(* extend the claim in the same way.                                       *)

SendProgress(w) ==
    /\ client[w].phase = "working"
    /\ CanSend(w)
    /\ Authenticated(w)
    /\ Owns(w, client[w].job)
    /\ NotExpired(client[w].job)
    /\ Submit("progress", w, client[w].job, 0)
    /\ UNCHANGED <<job, video, worker, client, checker>>

\* By job id alone: whoever holds the job by now.
CommitProgress(r) ==
    /\ r \in pending /\ r.op = "progress"
    /\ job' = [job EXCEPT ![r.job].claim_expires_at = "live"]
    /\ pending' = pending \ {r}
    /\ UNCHANGED <<video, worker, client, checker>>

\* 409: process_job stops without reporting a failure.
ClaimLostAtWork(w) ==
    /\ client[w].phase \in {"working", "finishing", "failing"}
    /\ ~Awaiting(w)
    /\ Authenticated(w)
    /\ Owns(w, client[w].job)
    /\ ~NotExpired(client[w].job)
    /\ client' = [client EXCEPT ![w] = Idle]
    /\ UNCHANGED <<job, video, worker, pending, checker>>

\* Anything else that goes wrong in process_job, a 403 or an answer that never
\* came included, ends in an exception handler that reports a failure.
WorkFails(w) ==
    /\ client[w].phase \in {"working", "finishing"}
    /\ ~Awaiting(w)
    /\ client' = [client EXCEPT ![w].phase = "failing"]
    /\ UNCHANGED <<job, video, worker, pending, checker>>

-----------------------------------------------------------------------------
(* complete_job                                                            *)

SendComplete(w) ==
    LET j == client[w].job IN
    /\ client[w].phase \in {"working", "finishing"}
    /\ CanSend(w)
    /\ Authenticated(w)
    /\ Owns(w, j)
    /\ IF job[j].completed_at                     \* idempotent answer
       THEN /\ client' = [client EXCEPT ![w] = Idle]
            /\ UNCHANGED pending
       ELSE /\ NotExpired(j)
            /\ Submit("complete", w, j, 0)
            /\ client' = [client EXCEPT ![w].phase = "finishing"]
    /\ UNCHANGED <<job, video, worker, checker>>

\* An earlier request with the same completion token reached the API: the
\* handler answers that the job is completed, whatever became of that request.
ToldCompleted(w) ==
    /\ client[w].phase = "finishing"
    /\ ~Awaiting(w)
    /\ Authenticated(w)
    /\ Owns(w, client[w].job)
    /\ client' = [client EXCEPT ![w] = Idle]
    /\ UNCHANGED <<job, video, worker, pending, checker>>

\* Mutant: the row is left open.
CommitCompleteLeavesOpen(r) ==
    /\ r \in pending /\ r.op = "complete"
    /\ job' = [job EXCEPT ![r.job] = Unclaimed(@)]
    /\ video' = [video EXCEPT ![r.job] = "ready"]
    /\ worker' = [worker EXCEPT ![r.worker].current_job_id = None]
    /\ pending' = pending \ {r}
    /\ Answer(r, Idle)
    /\ UNCHANGED checker

CommitComplete(r) ==
    /\ r \in pending /\ r.op = "complete"
    /\ job' = [job EXCEPT ![r.job] = Over(@)]
    /\ video' = [video EXCEPT ![r.job] = "ready"]
    /\ worker' = [worker EXCEPT ![r.worker].current_job_id = None]
    /\ pending' = pending \ {r}
    /\ Answer(r, Idle)
    /\ UNCHANGED checker

-----------------------------------------------------------------------------
(* fail_job: completed_at is not looked at.  The attempt number to write   *)
(* is computed from the row that was read.                                 *)

\* Mutant: the limit is forgotten.
NextAttemptWithoutLimit(j) == job[j].attempt_number + 1

NextAttempt(j) ==
    IF job[j].attempt_number < MaxAttempts THEN job[j].attempt_number + 1 ELSE 0

SendFail(w) ==
    /\ client[w].phase = "failing"
    /\ CanSend(w)
    /\ Authenticated(w)
    /\ Owns(w, client[w].job)
    /\ NotExpired(client[w].job)
    /\ Submit("fail", w, client[w].job, NextAttempt(client[w].job))
    /\ UNCHANGED <<job, video, worker, client, checker>>

CommitFail(r) ==
    /\ r \in pending /\ r.op = "fail"
    /\ IF r.attempt # 0
       THEN /\ job' = [job EXCEPT ![r.job] = [Unclaimed(@) EXCEPT !.last_error = TRUE,
                                                                  !.attempt_number = r.attempt]]
            /\ video' = [video EXCEPT ![r.job] = "pending"]
       ELSE /\ job' = [job EXCEPT ![r.job] = [Over(@) EXCEPT !.last_error = TRUE]]
            /\ video' = [video EXCEPT ![r.job] = "failed"]
    /\ worker' = [worker EXCEPT ![r.worker].current_job_id = None]
    /\ pending' = pending \ {r}
    /\ Answer(r, Idle)
    /\ UNCHANGED checker

\* The report itself fails, or the circuit breaker does not let it out: the
\* job is dropped and its claim left to lapse.
DropJob(w) ==
    /\ client[w].phase = "failing"
    /\ ~Awaiting(w)
    /\ client' = [client EXCEPT ![w] = Idle]
    /\ UNCHANGED <<job, video, worker, pending, checker>>

\* The worker process dies and starts again with nothing in hand.
WorkerCrashes(w) ==
    /\ client[w] # Idle \/ Awaiting(w)
    /\ client' = [client EXCEPT ![w] = Idle]
    /\ pending' = {IF r.worker = w THEN [r EXCEPT !.awaited = FALSE] ELSE r : r \in pending}
    /\ UNCHANGED <<job, video, worker, checker>>

-----------------------------------------------------------------------------
(* _detect_and_release_stale_jobs                                          *)

Stale(w) == worker[w].status # "offline" /\ ~worker[w].fresh

\* The stale workers are fetched at once and looked at one after the other;
\* one round of the model is one of them.
FindStaleWorker(w) ==
    /\ checker.pc = "idle"
    /\ Stale(w)
    /\ checker' = [checker EXCEPT !.pc = "mark", !.worker = w]
    /\ UNCHANGED <<job, video, worker, client, pending>>

\* The conditional update.  The databases library may return None for an
\* UPDATE, so a row left alone is not always told from a row updated.
MarkOffline ==
    LET w == checker.worker IN
    /\ checker.pc = "mark"
    /\ worker' = IF Stale(w)
                 THEN [worker EXCEPT ![w].status = "offline", ![w].current_job_id = None]
                 ELSE worker
    /\ \/ checker' = [checker EXCEPT !.pc = "fetch"]
       \/ /\ ~Stale(w)
          /\ checker' = CheckerIdle
    /\ UNCHANGED <<job, video, client, pending>>

\* As in claim_job, a claim that lapsed since the check began is not seen.
FetchExpiredJobs ==
    /\ checker.pc = "fetch"
    /\ LET held == {j \in Jobs : Owns(checker.worker, j) /\ ~job[j].completed_at}
           sure == {j \in held : job[j].claim_expires_at = "none"}
           late == {j \in held : job[j].claim_expires_at = "expired"}
       IN  \E seen \in SUBSET late :
             checker' = [checker EXCEPT !.pc = "release", !.jobs = sure \cup seen]
    /\ UNCHANGED <<job, video, worker, client, pending>>

\* Mutant: the video is forgotten.
ReleaseJobOnly(j) ==
    /\ checker.pc = "release" /\ j \in checker.jobs
    /\ job' = [job EXCEPT ![j] = Unclaimed(@)]
    /\ checker' = [checker EXCEPT !.jobs = @ \ {j}]
    /\ UNCHANGED <<video, worker, client, pending>>

\* By job id alone, though the row was read some awaits ago.
ReleaseJob(j) ==
    /\ checker.pc = "release" /\ j \in checker.jobs
    /\ job' = [job EXCEPT ![j] = Unclaimed(@)]
    /\ checker' = [checker EXCEPT !.pc = "read", !.jobs = @ \ {j}, !.job = j]
    /\ UNCHANGED <<video, worker, client, pending>>

ReadReleasedVideo ==
    /\ checker.pc = "read"
    /\ checker' = [checker EXCEPT !.pc = IF video[checker.job] = "processing"
                                         THEN "reset" ELSE "release",
                                  !.job = IF video[checker.job] = "processing"
                                          THEN @ ELSE None]
    /\ UNCHANGED <<job, video, worker, client, pending>>

ResetReleasedVideo ==
    /\ checker.pc = "reset"
    /\ video' = [video EXCEPT ![checker.job] = "pending"]
    /\ checker' = [checker EXCEPT !.pc = "release", !.job = None]
    /\ UNCHANGED <<job, worker, client, pending>>

\* The shutdown hook, which looks at no worker, ends by clearing the current
\* job of every worker.
AllJobsReleased ==
    /\ checker.pc = "release" /\ checker.jobs = {}
    /\ checker' = CheckerIdle
    /\ worker' = IF ShuttingDown
                 THEN [w \in Workers |-> [worker[w] EXCEPT !.current_job_id = None]]
                 ELSE worker
    /\ UNCHANGED <<job, video, client, pending>>

-----------------------------------------------------------------------------
(* The check or the API process is cut short.                              *)

\* A statement of the check raises: the exception is logged and the check
\* abandoned where it stands.
CheckFails ==
    /\ checker.pc # "idle" /\ ~ShuttingDown
    /\ checker' = CheckerIdle
    /\ UNCHANGED <<job, video, worker, client, pending>>

\* Graceful shutdown: the handlers have drained, the check is cancelled if it
\* does not end in time, and every claim is released, expired or not.
ShutDown ==
    /\ pending = {} /\ ~ShuttingDown
    /\ checker' = [CheckerIdle EXCEPT !.pc = "release",
                      !.jobs = {j \in Jobs : job[j].claimed_at /\ ~job[j].completed_at}]
    /\ UNCHANGED <<job, video, worker, client, pending>>

\* The process is killed: handlers and background tasks vanish between two
\* of their steps.
ApiCrashes ==
    /\ pending # {} \/ checker # CheckerIdle
    /\ pending' = {}
    /\ checker' = CheckerIdle
    /\ UNCHANGED <<job, video, worker, client>>

-----------------------------------------------------------------------------
(* Administration (api/admin.py).                                          *)

\* Disabling releases the job the worker row points at.
DisableWorker(w) ==
    LET j == worker[w].current_job_id IN
    /\ worker[w].status # "disabled"
    /\ worker' = [worker EXCEPT ![w].status = "disabled", ![w].current_job_id = None]
    /\ IF j # None /\ ~job[j].completed_at
       THEN /\ job' = [job EXCEPT ![j] = Unclaimed(@)]
            /\ video' = [video EXCEPT ![j] = "pending"]
       ELSE UNCHANGED <<job, video>>
    /\ UNCHANGED <<client, pending, checker>>

EnableWorker(w) ==
    /\ worker[w].status = "disabled"
    /\ worker' = [worker EXCEPT ![w].status = "up"]
    /\ UNCHANGED <<job, video, client, pending, checker>>

-----------------------------------------------------------------------------

TimePasses == (\E j \in Jobs : ClaimExpires(j)) \/ (\E w \in Workers : HeartbeatAges(w))

WorkerSteps(w) ==
    \/ Heartbeat(w)
    \/ SendClaim(w) \/ SendProgress(w) \/ SendComplete(w) \/ ToldCompleted(w) \/ SendFail(w)
    \/ GiveUpWaiting(w) \/ ClaimLostAtWork(w) \/ WorkFails(w) \/ DropJob(w)
    \/ WorkerCrashes(w)

Commit(r) ==
    \/ CommitClaim(r) \/ CleanUpRetranscode(r)
    \/ CommitProgress(r) \/ CommitComplete(r) \/ CommitFail(r)

CheckerSteps ==
    \/ \E w \in Workers : FindStaleWorker(w)
    \/ MarkOffline
    \/ FetchExpiredJobs
    \/ \E j \in Jobs : ReleaseJob(j)
    \/ ReadReleasedVideo
    \/ ResetReleasedVideo
    \/ AllJobsReleased

AdminSteps == \E w \in Workers : DisableWorker(w) \/ EnableWorker(w)

Handling ==
    \/ TimePasses
    \/ \E w \in Workers : WorkerSteps(w)
    \/ \E r \in pending : Commit(r)
    \/ TransactionFails
    \/ CheckerSteps

\* No step of the API is cut short.
Next == Handling \/ AdminSteps

\* The check may fail half-way, the API may stop and be killed.
NextWithStops == Next \/ CheckFails \/ ShutDown \/ ApiCrashes

HandlingSpec == Init /\ [][Handling]_vars
Spec == Init /\ [][Next]_vars
SpecWithStops == Init /\ [][NextWithStops]_vars

-----------------------------------------------------------------------------
(* Properties.                                                             *)

\* Every variable keeps its shape: rows, requests and the checker.
TypeOK ==
    /\ job \in [Jobs -> JobRow]
    /\ video \in [Jobs -> VideoStatus]
    /\ worker \in [Workers -> WorkerRow]
    /\ client \in [Workers -> ClientState]
    /\ pending \subseteq Request
    /\ checker \in Checker

\* A job that is claimed has an owner and a deadline, and is not over: a claim
\* without a deadline is one that neither claim_job nor the checker would ever
\* clear (both look at claim_expires_at), whatever late handler wrote last.
EveryClaimHasADeadline ==
    \A j \in Jobs : job[j].claimed_at =>
        /\ job[j].claim_expires_at # "none"
        /\ job[j].worker_id # None
        /\ ~job[j].completed_at

\* A video in processing is one whose job is claimed, or one that the checker
\* has released and is about to reset: nobody else resets it to pending, so
\* it would stay in processing for ever.
ProcessingIsClaimedOrReleased ==
    \A j \in Jobs : video[j] = "processing" =>
        \/ job[j].claimed_at
        \/ checker.pc \in {"read", "reset"} /\ checker.job = j

\* What viewers and the admin are told of a video agrees with its job: ready
\* is a finished job or one whose re-transcode nobody has claimed, failed is a
\* job that is over.  Late handlers and the checker's late reset included.
VideoAgreesWithJob ==
    \A j \in Jobs :
        /\ video[j] = "ready" => job[j].completed_at \/ (job[j].retranscode_metadata /\ ~job[j].claimed_at)
        /\ video[j] = "failed" => job[j].completed_at

\* The leases the rows stand for: each job's is one that module Lease allows,
\* so a claim passes from worker to worker only by lapsing or by being given
\* up, and a completed job is not taken back by any late write.
LeaseState(j) ==
    IF job[j].completed_at THEN "done"
    ELSE IF ~job[j].claimed_at THEN "free"
    ELSE IF job[j].claim_expires_at = "expired" THEN "lapsed"
    ELSE "held"

LeaseHolder(j) == IF LeaseState(j) \in {"held", "lapsed"} THEN job[j].worker_id ELSE None

L == INSTANCE Lease WITH state <- [j \in Jobs |-> LeaseState(j)],
                         holder <- [j \in Jobs |-> LeaseHolder(j)]

ImplementsLease == L!Spec

-----------------------------------------------------------------------------
(* Fairness: the workers keep polling, and each job is worked on for a     *)
(* finite time; handlers end; the deadline of a claim that nobody renews   *)
(* passes.  From some time on no worker dies and no request times out.     *)
(* Heartbeats stay recent, so that the checker does not help.              *)

WorkedOn(j) == \E w \in Workers : client[w].job = j

RenewalUnderWay(j) == \E r \in pending : r.op = "progress" /\ r.job = j

EndWork(w) ==
    SendComplete(w) \/ ToldCompleted(w) \/ SendFail(w) \/ WorkFails(w) \/ DropJob(w) \/ ClaimLostAtWork(w)

\* A claim that is answered, by a handler whose clock is up to date.
AnsweredClaim(w) ==
    \E r \in pending :
        /\ r.worker = w /\ r.awaited
        /\ CommitClaim(r)
        /\ \E j \in Jobs : job'[j] = ClaimedBy(job[j], w)

Fairness ==
    /\ \A j \in Jobs : WF_vars(~WorkedOn(j) /\ ~RenewalUnderWay(j) /\ ClaimExpires(j))
    /\ \A w \in Workers :
         /\ SF_vars(SendClaim(w))
         /\ SF_vars(AnsweredClaim(w))
         /\ SF_vars(EndWork(w))
    /\ \A w \in Workers, waits \in BOOLEAN :
         WF_vars(\E r \in pending : r.worker = w /\ r.awaited = waits /\ Commit(r))
    /\ <>[][~\E w \in Workers : GiveUpWaiting(w) \/ WorkerCrashes(w)]_vars

NextUnchecked ==
    \/ \E j \in Jobs : ClaimExpires(j)
    \/ \E w \in Workers : WorkerSteps(w)
    \/ \E r \in pending : Commit(r)
    \/ TransactionFails

FairSpec == Init /\ [][NextUnchecked]_vars /\ Fairness

\* The job of a worker that died, or that never heard that its claim was
\* granted, does not stay with it: somebody works on it again or it is over.
AbandonedJobIsTakenUp ==
    \A j \in Jobs : (job[j].claimed_at /\ ~WorkedOn(j)) ~> (WorkedOn(j) \/ job[j].completed_at)

=============================================================================

--------------------------- MODULE JobLeaseProofs ---------------------------
(***************************************************************************)
(* Proofs about JobLease, for any workers, jobs and limits.                *)
(***************************************************************************)
EXTENDS JobLeaseStates, TLAPS

\* The changes the handlers make to a row keep its columns in their types.
LEMMA RowTypes ==
    ASSUME NEW row \in JobRow
    PROVE  /\ Unclaimed(row) \in JobRow
           /\ Over(row) \in JobRow
           /\ [Over(row) EXCEPT !.last_error = TRUE] \in JobRow
           /\ \A w \in Workers : ClaimedBy(row, w) \in JobRow
           /\ \A n \in Attempts :
                [Unclaimed(row) EXCEPT !.last_error = TRUE, !.attempt_number = n] \in JobRow
<1> USE DEF JobRow, Deadlines
<1>1. Unclaimed(row) \in JobRow
  BY DEF Unclaimed
<1>2. Over(row) \in JobRow
  BY DEF Over
<1>3. \A w \in Workers : ClaimedBy(row, w) \in JobRow
  BY DEF ClaimedBy
<1>4. \A n \in Attempts :
        [Unclaimed(row) EXCEPT !.last_error = TRUE, !.attempt_number = n] \in JobRow
  BY <1>1
<1> QED
  BY <1>1, <1>2, <1>3, <1>4

\* The members of a request, and the request when its worker waits no longer.
LEMMA RequestTypes ==
    ASSUME TypeOK, NEW r \in pending
    PROVE  /\ r.worker \in Workers
           /\ r.attempt \in 0 .. MaxAttempts
           /\ r.op # "claim" => r.job \in Jobs
           /\ [r EXCEPT !.awaited = FALSE] \in Request
<1>1. r \in Request
  BY DEF TypeOK
<1>2. r.worker \in Workers /\ (r.op # "claim" => r.job \in Jobs)
  BY <1>1 DEF Request
<1>3. r.attempt \in 0 .. MaxAttempts
  BY <1>1, MaxAttemptsAssumption DEF Request
<1>4. [r EXCEPT !.awaited = FALSE] \in Request
  BY <1>1 DEF Request
<1> QED
  BY <1>2, <1>3, <1>4

\* A request about a job that exists is a request.
LEMMA SubmitTypes ==
    ASSUME TypeOK, NEW w \in Workers, NEW j \in Jobs, NEW a \in 0 .. MaxAttempts,
           NEW op \in {"cleanup", "progress", "complete", "fail"}, Submit(op, w, j, a)
    PROVE  pending' \subseteq Request
<1>1. [op |-> op, worker |-> w, job |-> j, attempt |-> a, awaited |-> TRUE] \in Request
  BY DEF Request
<1> QED
  BY <1>1 DEF TypeOK, Submit

\* A worker that is not idle has a job.
LEMMA ClientTypes ==
    ASSUME TypeOK, NEW w \in Workers, client[w].phase # "idle"
    PROVE  client[w] \in [phase : {"working", "finishing", "failing"}, job : Jobs]
BY DEF TypeOK, ClientState, Idle

\* The answer to a request leaves the worker idle or at work on a job.
LEMMA AnswerTypes ==
    ASSUME TypeOK, NEW r \in pending, NEW state \in ClientState, Answer(r, state)
    PROVE  client' \in [Workers -> ClientState]
BY DEF TypeOK, Answer

\* What the checker has in hand at each of its steps.
LEMMA CheckerTypes ==
    ASSUME TypeOK
    PROVE  /\ checker.pc \in {"idle", "mark", "fetch", "release", "read", "reset"}
           /\ checker.pc = "idle" => checker = CheckerIdle
           /\ checker.pc \in {"mark", "fetch"} =>
                checker \in [pc : {"mark", "fetch"}, worker : Workers, jobs : {{}}, job : {None}]
           /\ checker.pc = "release" =>
                checker \in [pc : {"release"}, worker : Workers \cup {None},
                              jobs : SUBSET Jobs, job : {None}]
           /\ checker.pc \in {"read", "reset"} =>
                checker \in [pc : {"read", "reset"}, worker : Workers \cup {None},
                              jobs : SUBSET Jobs, job : Jobs]
BY DEF TypeOK, Checker, CheckerIdle

\* The rows of a new system have the types of their tables.
LEMMA InitTypes == Init => TypeOK
<1>1. 1 \in Attempts
  BY MaxAttemptsAssumption DEF Attempts
<1> QED
  BY <1>1 DEF Init, TypeOK, NewJob, JobRow, Deadlines, VideoStatus, WorkerRow,
              ClientState, Checker

\* The rows keep the types of their tables, and requests and the checker name
\* jobs and workers that exist: no attempt number leaves its range, though it
\* is written from a row read earlier.
LEMMA NextTypes == TypeOK /\ [NextWithStops]_vars => TypeOK'
<1> SUFFICES ASSUME TypeOK, [NextWithStops]_vars PROVE TypeOK'
  OBVIOUS
<1> USE DEF TypeOK
<1>1. ASSUME NEW j \in Jobs, ClaimExpires(j) PROVE TypeOK'
  BY <1>1 DEF ClaimExpires, JobRow, Deadlines
<1>2. ASSUME NEW w \in Workers, HeartbeatAges(w) PROVE TypeOK'
  BY <1>2 DEF HeartbeatAges, WorkerRow
<1>3. ASSUME NEW w \in Workers, Heartbeat(w) PROVE TypeOK'
  BY <1>3 DEF Heartbeat, WorkerRow
<1>4. ASSUME NEW w \in Workers, SendClaim(w) PROVE TypeOK'
  <2>1. [op |-> "claim", worker |-> w, job |-> None, attempt |-> 0, awaited |-> TRUE] \in Request
    BY DEF Request
  <2> QED
    BY <1>4, <2>1 DEF SendClaim, Submit
<1>5. ASSUME NEW w \in Workers, SendProgress(w) PROVE TypeOK'
  <2>1. client[w].job \in Jobs
    BY <1>5, ClientTypes DEF SendProgress
  <2>2. pending' \subseteq Request
    BY <1>5, <2>1, SubmitTypes, MaxAttemptsAssumption DEF SendProgress
  <2> QED
    BY <1>5, <2>2 DEF SendProgress
<1>6. ASSUME NEW w \in Workers, SendComplete(w) PROVE TypeOK'
  <2>1. client[w] \in [phase : {"working", "finishing", "failing"}, job : Jobs]
    BY <1>6, ClientTypes DEF SendComplete
  <2>2. pending' \subseteq Request
    BY <1>6, <2>1, SubmitTypes, MaxAttemptsAssumption DEF SendComplete
  <2>3. /\ Idle \in ClientState
        /\ [client[w] EXCEPT !.phase = "finishing"] \in ClientState
    BY <2>1 DEF ClientState
  <2>4. client' \in [Workers -> ClientState]
    BY <1>6, <2>3 DEF SendComplete
  <2> QED
    BY <1>6, <2>2, <2>4 DEF SendComplete
<1>7. ASSUME NEW w \in Workers, ToldCompleted(w) PROVE TypeOK'
  BY <1>7 DEF ToldCompleted, ClientState
<1>8. ASSUME NEW w \in Workers, SendFail(w) PROVE TypeOK'
  <2>1. client[w].job \in Jobs
    BY <1>8, ClientTypes DEF SendFail
  <2>2. NextAttempt(client[w].job) \in 0 .. MaxAttempts
    BY <2>1, MaxAttemptsAssumption DEF NextAttempt, JobRow, Attempts
  <2>3. pending' \subseteq Request
    BY <1>8, <2>1, <2>2, SubmitTypes DEF SendFail
  <2> QED
    BY <1>8, <2>3 DEF SendFail
<1>9. ASSUME NEW w \in Workers, GiveUpWaiting(w) PROVE TypeOK'
  BY <1>9, RequestTypes DEF GiveUpWaiting
<1>10. ASSUME NEW w \in Workers, ClaimLostAtWork(w) PROVE TypeOK'
  BY <1>10 DEF ClaimLostAtWork, ClientState
<1>11. ASSUME NEW w \in Workers, WorkFails(w) PROVE TypeOK'
  BY <1>11, ClientTypes DEF WorkFails, ClientState
<1>12. ASSUME NEW w \in Workers, DropJob(w) PROVE TypeOK'
  BY <1>12 DEF DropJob, ClientState
<1>13. ASSUME NEW w \in Workers, WorkerCrashes(w) PROVE TypeOK'
  <2>1. pending' \subseteq Request
    BY <1>13, RequestTypes DEF WorkerCrashes
  <2> QED
    BY <1>13, <2>1 DEF WorkerCrashes, ClientState
<1>14. ASSUME NEW r \in pending, CommitClaim(r) PROVE TypeOK'
  <2>1. PICK lapsed \in SUBSET Lapsed, asked \in {Jobs} \cup {{j} : j \in Jobs} :
          ClaimNothing(r, lapsed, asked) \/ \E j \in asked : ClaimJob(r, lapsed, j)
    BY <1>14 DEF CommitClaim
  <2>2. RowsReset(lapsed) \in [Jobs -> JobRow]
    BY RowTypes DEF RowsReset
  <2>3. VideosReset(lapsed) \in [Jobs -> VideoStatus]
    BY DEF VideosReset, VideoStatus
  <2>4. CASE ClaimNothing(r, lapsed, asked)
    BY <1>14, <2>2, <2>3, <2>4 DEF ClaimNothing, CommitClaim
  <2>5. ASSUME NEW j \in Jobs, ClaimJob(r, lapsed, j) PROVE TypeOK'
    <3>1. job' \in [Jobs -> JobRow]
      <4>1. ClaimedBy(RowsReset(lapsed)[j], r.worker) \in JobRow
        BY <2>2, RequestTypes, RowTypes
      <4> QED
        BY <2>2, <2>5, <4>1 DEF ClaimJob
    <3>2. video' \in [Jobs -> VideoStatus]
      BY <2>3, <2>5 DEF ClaimJob, VideoStatus
    <3>3. worker' \in [Workers -> WorkerRow]
      BY <2>5 DEF ClaimJob, WorkerRow
    <3>4. [r EXCEPT !.op = "cleanup", !.job = j] \in Request
      <4>1. r \in [op : {"claim"}, worker : Workers, job : {None}, attempt : {0},
                   awaited : BOOLEAN]
        BY <1>14 DEF CommitClaim, Request
      <4>2. 0 \in 0 .. MaxAttempts
        BY MaxAttemptsAssumption
      <4> QED
        BY <4>1, <4>2 DEF Request
    <3>5. pending' \subseteq Request
      BY <2>5, <3>4 DEF ClaimJob
    <3>6. client' \in [Workers -> ClientState]
      <4>1. [phase |-> "working", job |-> j] \in ClientState
        BY DEF ClientState
      <4> QED
        BY <2>5, <4>1, AnswerTypes DEF ClaimJob
    <3> QED
      BY <1>14, <3>1, <3>2, <3>3, <3>5, <3>6 DEF CommitClaim
  <2> QED
    BY <2>1, <2>4, <2>5
<1>15. ASSUME NEW r \in pending, CleanUpRetranscode(r) PROVE TypeOK'
  <2>1. r.job \in Jobs
    BY <1>15, RequestTypes DEF CleanUpRetranscode
  <2>2. client' \in [Workers -> ClientState]
    <3>1. [phase |-> "working", job |-> r.job] \in ClientState
      BY <2>1 DEF ClientState
    <3> QED
      BY <1>15, <3>1, AnswerTypes DEF CleanUpRetranscode
  <2>3. job' \in [Jobs -> JobRow]
    <3>1. \A row \in JobRow : [row EXCEPT !.retranscode_metadata = FALSE] \in JobRow
      BY DEF JobRow
    <3>2. job' = job \/ job' = [job EXCEPT ![r.job].retranscode_metadata = FALSE]
      BY <1>15 DEF CleanUpRetranscode
    <3> QED
      BY <3>1, <3>2
  <2> QED
    BY <1>15, <2>2, <2>3 DEF CleanUpRetranscode
<1>16. ASSUME NEW r \in pending, CommitProgress(r) PROVE TypeOK'
  BY ZenonT(60), <1>16 DEF CommitProgress, JobRow, Deadlines
<1>17. ASSUME NEW r \in pending, CommitComplete(r) PROVE TypeOK'
  <2>1. client' \in [Workers -> ClientState]
    BY <1>17, AnswerTypes DEF CommitComplete, ClientState
  <2>2. job' \in [Jobs -> JobRow]
    BY <1>17, RowTypes DEF CommitComplete
  <2>3. video' \in [Jobs -> VideoStatus]
    BY <1>17 DEF CommitComplete, VideoStatus
  <2>4. worker' \in [Workers -> WorkerRow]
    BY <1>17 DEF CommitComplete, WorkerRow
  <2> QED
    BY <1>17, <2>1, <2>2, <2>3, <2>4 DEF CommitComplete
<1>18. ASSUME NEW r \in pending, CommitFail(r) PROVE TypeOK'
  <2>1. client' \in [Workers -> ClientState]
    BY <1>18, AnswerTypes DEF CommitFail, ClientState
  <2>2. job' \in [Jobs -> JobRow]
    <3>1. CASE r.attempt # 0
      <4>1. r.attempt \in Attempts
        <5>1. r.attempt \in 0 .. MaxAttempts
          BY RequestTypes
        <5> QED
          BY <3>1, <5>1, MaxAttemptsAssumption DEF Attempts
      <4>2. \A row \in JobRow :
              [Unclaimed(row) EXCEPT !.last_error = TRUE, !.attempt_number = r.attempt] \in JobRow
        BY <4>1, RowTypes
      <4>3. job' = [job EXCEPT ![r.job] = [Unclaimed(@) EXCEPT !.last_error = TRUE,
                                                              !.attempt_number = r.attempt]]
        BY <1>18, <3>1 DEF CommitFail
      <4> QED
        BY <4>2, <4>3
    <3>2. CASE r.attempt = 0
      <4>1. \A row \in JobRow : [Over(row) EXCEPT !.last_error = TRUE] \in JobRow
        BY RowTypes
      <4>2. job' = [job EXCEPT ![r.job] = [Over(@) EXCEPT !.last_error = TRUE]]
        BY <1>18, <3>2 DEF CommitFail
      <4> QED
        BY <4>1, <4>2
    <3> QED
      BY <3>1, <3>2
  <2>3. video' \in [Jobs -> VideoStatus]
    BY <1>18 DEF CommitFail, VideoStatus
  <2>4. worker' \in [Workers -> WorkerRow]
    <3>1. worker' = [worker EXCEPT ![r.worker].current_job_id = None]
      BY <1>18 DEF CommitFail
    <3> QED
      BY <3>1 DEF WorkerRow
  <2> QED
    BY <1>18, <2>1, <2>2, <2>3, <2>4 DEF CommitFail
<1>19. ASSUME TransactionFails PROVE TypeOK'
  BY <1>19 DEF TransactionFails
<1>20. ASSUME NEW w \in Workers, FindStaleWorker(w) PROVE TypeOK'
  <2>1. checker = CheckerIdle
    BY <1>20, CheckerTypes DEF FindStaleWorker
  <2>2. [CheckerIdle EXCEPT !.pc = "mark", !.worker = w] \in Checker
    BY DEF CheckerIdle, Checker
  <2> QED
    BY <1>20, <2>1, <2>2 DEF FindStaleWorker
<1>21. ASSUME MarkOffline PROVE TypeOK'
  BY <1>21 DEF MarkOffline, Checker, CheckerIdle, WorkerRow
<1>22. ASSUME FetchExpiredJobs PROVE TypeOK'
  <2>1. \E seen \in SUBSET Jobs :
          /\ checker' = [checker EXCEPT !.pc = "release", !.jobs = seen]
          /\ UNCHANGED <<job, video, worker, client, pending>>
    BY ZenonT(60), <1>22 DEF FetchExpiredJobs
  <2> QED
    BY <1>22, <2>1, CheckerTypes DEF FetchExpiredJobs, Checker
<1>23. ASSUME NEW j \in Jobs, ReleaseJob(j) PROVE TypeOK'
  <2>1. job' \in [Jobs -> JobRow]
    BY <1>23, RowTypes DEF ReleaseJob
  <2>2. checker' \in Checker
    BY <1>23, CheckerTypes DEF ReleaseJob, Checker
  <2> QED
    BY <1>23, <2>1, <2>2 DEF ReleaseJob
<1>24. ASSUME ReadReleasedVideo PROVE TypeOK'
  BY <1>24, CheckerTypes DEF ReadReleasedVideo, Checker
<1>25. ASSUME ResetReleasedVideo PROVE TypeOK'
  BY <1>25, CheckerTypes DEF ResetReleasedVideo, Checker, VideoStatus
<1>26. ASSUME AllJobsReleased PROVE TypeOK'
  BY <1>26 DEF AllJobsReleased, Checker, WorkerRow
<1>27. ASSUME CheckFails PROVE TypeOK'
  BY <1>27 DEF CheckFails, Checker
<1>28. ASSUME ShutDown PROVE TypeOK'
  BY <1>28 DEF ShutDown, Checker, CheckerIdle
<1>29. ASSUME ApiCrashes PROVE TypeOK'
  BY <1>29 DEF ApiCrashes, Checker
<1>30. ASSUME NEW w \in Workers, DisableWorker(w) PROVE TypeOK'
  <2>1. \A row \in JobRow : Unclaimed(row) \in JobRow
    BY RowTypes
  <2>2. PICK j : j = worker[w].current_job_id
    OBVIOUS
  <2>3. \/ job' = [job EXCEPT ![j] = Unclaimed(@)] /\ video' = [video EXCEPT ![j] = "pending"]
        \/ job' = job /\ video' = video
    BY <1>30, <2>2 DEF DisableWorker
  <2>4. job' \in [Jobs -> JobRow] /\ video' \in [Jobs -> VideoStatus]
    BY <2>1, <2>3 DEF VideoStatus
  <2>5. worker' \in [Workers -> WorkerRow]
    BY <1>30 DEF DisableWorker, WorkerRow
  <2> QED
    BY <1>30, <2>4, <2>5 DEF DisableWorker
<1>31. ASSUME NEW w \in Workers, EnableWorker(w) PROVE TypeOK'
  BY <1>31 DEF EnableWorker, WorkerRow
<1>32. ASSUME UNCHANGED vars PROVE TypeOK'
  BY <1>32 DEF vars
<1> QED
  BY <1>1, <1>2, <1>3, <1>4, <1>5, <1>6, <1>7, <1>8, <1>9, <1>10, <1>11, <1>12,
     <1>13, <1>14, <1>15, <1>16, <1>17, <1>18, <1>19, <1>20, <1>21, <1>22, <1>23,
     <1>24, <1>25, <1>26, <1>27, <1>28, <1>29, <1>30, <1>31, <1>32
  DEF NextWithStops, Next, Handling, TimePasses, WorkerSteps, Commit, CheckerSteps,
      AdminSteps

-----------------------------------------------------------------------------

\* Rows, requests, workers and checker keep their types, stops and kills of the
\* API included.
THEOREM TypeCorrect == SpecWithStops => []TypeOK
BY InitTypes, NextTypes, PTL DEF SpecWithStops

-----------------------------------------------------------------------------
(* What a step may do to one row of transcoding_jobs and its video.  The   *)
(* handlers update rows by id; nothing else is said here of which row, so  *)
(* that a late handler is covered as well as one in time.                  *)

\* The video stays as it is: nothing happens to the row, its deadline passes
\* or is moved, its clean-up is done, its claim is given up.
RowAlone(j) ==
    /\ video'[j] = video[j]
    /\ \/ job'[j] = job[j]
       \/ /\ job[j].claim_expires_at = "live"
          /\ job'[j] = [job[j] EXCEPT !.claim_expires_at = "expired"]
       \/ job'[j] = [job[j] EXCEPT !.claim_expires_at = "live"]
       \/ /\ \E r \in pending : r.op = "cleanup" /\ r.job = j
          /\ job'[j] = [job[j] EXCEPT !.retranscode_metadata = FALSE]
       \/ /\ job'[j] = Unclaimed(job[j])
          /\ video[j] = "processing" => ReleaseJob(j)

VideoReset(j) == job'[j] \in {job[j], Unclaimed(job[j])} /\ video'[j] = "pending"

Claimed(j) ==
    /\ ~job[j].completed_at
    /\ ~job[j].claimed_at \/ job[j].claim_expires_at = "expired"
    /\ \E w \in Workers : job'[j] = ClaimedBy(job[j], w)
    /\ video'[j] = "processing"

Completed(j) == job'[j] = Over(job[j]) /\ video'[j] = "ready"

Retried(j) ==
    /\ \E n \in Attempts :
         job'[j] = [Unclaimed(job[j]) EXCEPT !.last_error = TRUE, !.attempt_number = n]
    /\ video'[j] = "pending"

Failed(j) == job'[j] = [Over(job[j]) EXCEPT !.last_error = TRUE] /\ video'[j] = "failed"

RowStep(j) ==
    RowAlone(j) \/ VideoReset(j) \/ Claimed(j) \/ Completed(j) \/ Retried(j) \/ Failed(j)

\* A claim overwrites what giving a claim up wrote.
LEMMA ClaimedAfterReset ==
    ASSUME NEW row \in JobRow, NEW w
    PROVE  ClaimedBy(Unclaimed(row), w) = ClaimedBy(row, w)
BY DEF JobRow, ClaimedBy, Unclaimed

\* The transaction of claim_job.
LEMMA ClaimRowSteps ==
    ASSUME TypeOK, NEW r \in pending, CommitClaim(r), NEW j \in Jobs
    PROVE  RowStep(j)
<1>1. PICK lapsed \in SUBSET Lapsed, asked \in {Jobs} \cup {{k} : k \in Jobs} :
        ClaimNothing(r, lapsed, asked) \/ \E k \in asked : ClaimJob(r, lapsed, k)
  BY DEF CommitClaim
<1>2. job[j] \in JobRow
  BY DEF TypeOK
<1>3. \/ RowsReset(lapsed)[j] = job[j] /\ VideosReset(lapsed)[j] = video[j]
      \/ /\ RowsReset(lapsed)[j] = Unclaimed(job[j])
         /\ \/ VideosReset(lapsed)[j] = "pending"
            \/ VideosReset(lapsed)[j] = video[j] /\ video[j] # "processing"
         /\ job[j].claim_expires_at = "expired"
  BY DEF RowsReset, VideosReset, Lapsed
<1>4. CASE ClaimNothing(r, lapsed, asked)
  BY <1>3, <1>4 DEF ClaimNothing, RowStep, RowAlone, VideoReset
<1>5. ASSUME NEW k \in Jobs, ClaimJob(r, lapsed, k) PROVE RowStep(j)
  <2>1. /\ DOMAIN RowsReset(lapsed) = Jobs
        /\ DOMAIN VideosReset(lapsed) = Jobs
    BY DEF RowsReset, VideosReset
  <2>2. /\ job' = [RowsReset(lapsed) EXCEPT ![k] = ClaimedBy(@, r.worker)]
        /\ video' = [VideosReset(lapsed) EXCEPT ![k] = "processing"]
    BY <1>5 DEF ClaimJob
  <2>3. CASE j # k
    <3>1. job'[j] = RowsReset(lapsed)[j] /\ video'[j] = VideosReset(lapsed)[j]
      BY <2>1, <2>2, <2>3 DEF RowsReset, VideosReset
    <3> QED
      BY <1>3, <3>1 DEF RowStep, RowAlone, VideoReset
  <2>4. CASE j = k
    <3>1. ~RowsReset(lapsed)[j].completed_at /\ ~RowsReset(lapsed)[j].claimed_at
      BY <1>5, <2>4 DEF ClaimJob, ClaimableAfter, Claimable
    <3>2. ~job[j].completed_at /\ (~job[j].claimed_at \/ job[j].claim_expires_at = "expired")
      BY <1>2, <1>3, <3>1 DEF Unclaimed, JobRow
    <3>3. job'[j] = ClaimedBy(RowsReset(lapsed)[j], r.worker) /\ video'[j] = "processing"
      BY <2>1, <2>2, <2>4 DEF RowsReset, VideosReset
    <3>4. job'[j] = ClaimedBy(job[j], r.worker)
      BY <1>2, <1>3, <3>3, ClaimedAfterReset
    <3>5. r.worker \in Workers
      BY RequestTypes
    <3> QED
      BY <3>2, <3>3, <3>4, <3>5 DEF RowStep, Claimed
  <2> QED
    BY <2>3, <2>4
<1> QED
  BY <1>1, <1>4, <1>5

\* Disabling a worker touches at most the row its current_job_id points at.
LEMMA DisableRowSteps ==
    ASSUME TypeOK, NEW w \in Workers, DisableWorker(w), NEW j \in Jobs
    PROVE  RowStep(j)
<1>1. PICK k : k = worker[w].current_job_id
  OBVIOUS
<1>2. \/ job' = [job EXCEPT ![k] = Unclaimed(@)] /\ video' = [video EXCEPT ![k] = "pending"]
      \/ job' = job /\ video' = video
  BY <1>1 DEF DisableWorker
<1> QED
  BY <1>2 DEF TypeOK, RowStep, RowAlone, VideoReset

\* fail_job writes the row it read, or finishes it.
LEMMA FailRowSteps ==
    ASSUME TypeOK, NEW r \in pending, CommitFail(r), NEW j \in Jobs
    PROVE  RowStep(j)
<1>1. CASE r.attempt # 0
  <2>1. r.attempt \in Attempts
    <3>1. r.attempt \in 0 .. MaxAttempts
      BY RequestTypes
    <3> QED
      BY <1>1, <3>1, MaxAttemptsAssumption DEF Attempts
  <2>2. /\ job' = [job EXCEPT ![r.job] = [Unclaimed(@) EXCEPT !.last_error = TRUE,
                                                           !.attempt_number = r.attempt]]
        /\ video' = [video EXCEPT ![r.job] = "pending"]
    BY <1>1 DEF CommitFail
  <2> QED
    BY <2>1, <2>2 DEF TypeOK, RowStep, RowAlone, Retried
<1>2. CASE r.attempt = 0
  <2>1. /\ job' = [job EXCEPT ![r.job] = [Over(@) EXCEPT !.last_error = TRUE]]
        /\ video' = [video EXCEPT ![r.job] = "failed"]
    BY <1>2 DEF CommitFail
  <2> QED
    BY <2>1 DEF TypeOK, RowStep, RowAlone, Failed
<1> QED
  BY <1>1, <1>2

\* Whatever the step, each row goes through one of the changes above.
LEMMA RowSteps == TypeOK /\ [NextWithStops]_vars => \A j \in Jobs : RowStep(j)
<1> SUFFICES ASSUME TypeOK, [NextWithStops]_vars, NEW j \in Jobs PROVE RowStep(j)
  OBVIOUS
<1>0. job \in [Jobs -> JobRow] /\ video \in [Jobs -> VideoStatus]
  BY DEF TypeOK
<1>1. ASSUME NEW k \in Jobs, ClaimExpires(k) PROVE RowStep(j)
  BY <1>0, <1>1 DEF ClaimExpires, RowStep, RowAlone
<1>2. ASSUME NEW r \in pending, CleanUpRetranscode(r) PROVE RowStep(j)
  BY <1>0, <1>2 DEF CleanUpRetranscode, RowStep, RowAlone
<1>3. ASSUME NEW r \in pending, CommitProgress(r) PROVE RowStep(j)
  BY <1>0, <1>3 DEF CommitProgress, RowStep, RowAlone
<1>4. ASSUME NEW r \in pending, CommitComplete(r) PROVE RowStep(j)
  BY <1>0, <1>4 DEF CommitComplete, RowStep, RowAlone, Completed
<1>5. ASSUME NEW k \in Jobs, ReleaseJob(k) PROVE RowStep(j)
  BY <1>0, <1>5 DEF ReleaseJob, RowStep, RowAlone
<1>6. ASSUME ResetReleasedVideo PROVE RowStep(j)
  BY <1>0, <1>6 DEF ResetReleasedVideo, RowStep, RowAlone, VideoReset
<1>7. ASSUME UNCHANGED <<job, video>> PROVE RowStep(j)
  BY <1>7 DEF RowStep, RowAlone
<1> QED
  BY <1>1, <1>2, <1>3, <1>4, <1>5, <1>6, <1>7, ClaimRowSteps, DisableRowSteps, FailRowSteps
  DEF NextWithStops, Next, Handling, TimePasses, WorkerSteps, Commit, CheckerSteps,
      AdminSteps, vars,
      HeartbeatAges, Heartbeat, SendClaim, SendProgress, SendComplete, ToldCompleted,
      SendFail, GiveUpWaiting, ClaimLostAtWork, WorkFails, DropJob, WorkerCrashes,
      TransactionFails, FindStaleWorker, MarkOffline, FetchExpiredJobs,
      ReadReleasedVideo, AllJobsReleased, CheckFails, ShutDown, ApiCrashes, EnableWorker

-----------------------------------------------------------------------------
(* Claims and states.                                                      *)

\* A claim has an owner and a deadline, stops and kills included: every handler
\* that writes a deadline by job id alone leaves claimed_at alone, and whoever
\* clears one column of a claim clears them all.
THEOREM ClaimsHaveDeadlines == SpecWithStops => []EveryClaimHasADeadline
<1>1. Init => EveryClaimHasADeadline
  BY DEF Init, EveryClaimHasADeadline, NewJob
<1>2. TypeOK /\ EveryClaimHasADeadline /\ [NextWithStops]_vars => EveryClaimHasADeadline'
  <2> SUFFICES ASSUME TypeOK, EveryClaimHasADeadline, [NextWithStops]_vars,
                      NEW j \in Jobs, job'[j].claimed_at
               PROVE  /\ job'[j].claim_expires_at # "none"
                      /\ job'[j].worker_id # None
                      /\ ~job'[j].completed_at
    BY DEF EveryClaimHasADeadline
  <2>1. RowStep(j)
    BY RowSteps
  <2>2. job[j] \in JobRow
    BY DEF TypeOK
  <2> QED
    BY ZenonT(60), <2>1, <2>2, NoneAssumption
    DEF EveryClaimHasADeadline, RowStep, RowAlone, VideoReset, Claimed, Completed, Retried,
        Failed, JobRow, Unclaimed, Over, ClaimedBy
<1> QED
  BY <1>1, <1>2, TypeCorrect, PTL DEF SpecWithStops

\* get_state finds a state for every row that can come about.
THEOREM StatesAreTotal == SpecWithStops => []EveryRowHasAState
<1>1. TypeOK /\ EveryClaimHasADeadline => EveryRowHasAState
  <2> SUFFICES ASSUME NEW row \in JobRow,
                      row.claimed_at => row.claim_expires_at # "none" /\ ~row.completed_at
               PROVE  S!get_state(row) # "indeterminate"
    BY DEF TypeOK, EveryClaimHasADeadline, EveryRowHasAState
  <2>1. S!is_completed(row) \/ S!is_failed(row) \/ S!is_claimed(row) \/ S!is_expired(row)
        \/ S!is_retrying(row) \/ S!is_unclaimed(row)
    BY MaxAttemptsAssumption
    DEF S!is_completed, S!is_failed, S!is_claimed, S!is_expired, S!is_retrying,
        S!is_unclaimed, JobRow, Deadlines, Attempts
  <2> QED
    BY <2>1 DEF S!get_state
<1> QED
  BY <1>1, TypeCorrect, ClaimsHaveDeadlines, PTL

-----------------------------------------------------------------------------
(* Videos and jobs.                                                        *)

\* A clean-up runs for a job that was claimed: its video is no longer the ready
\* one the re-transcode was queued for, unless the job was completed meanwhile.
CleanUpFollowsClaim ==
    \A r \in pending : r.op = "cleanup" => video[r.job] # "ready" \/ job[r.job].completed_at

\* A clean-up is asked for by the claim of that job and by nothing else.
LEMMA CleanUpRequests ==
    ASSUME TypeOK, [NextWithStops]_vars, NEW r \in pending', r.op = "cleanup"
    PROVE  \/ \E q \in pending : q.op = "cleanup" /\ q.job = r.job
           \/ r.job \in Jobs /\ video'[r.job] = "processing"
<1>1. ASSUME NEW w \in Workers, WorkerSteps(w)
      PROVE  \E q \in pending : q.op = "cleanup" /\ q.job = r.job
  <2>1. ASSUME NEW op, NEW j, NEW a, op # "cleanup", Submit(op, w, j, a)
        PROVE  r \in pending
    BY <2>1 DEF Submit
  <2>2. CASE GiveUpWaiting(w)
    <3>1. PICK q \in pending : pending' = (pending \ {q}) \cup {[q EXCEPT !.awaited = FALSE]}
      BY <2>2 DEF GiveUpWaiting
    <3>2. q \in Request
      BY DEF TypeOK
    <3>3. [q EXCEPT !.awaited = FALSE].op = q.op /\ [q EXCEPT !.awaited = FALSE].job = q.job
      BY <3>2 DEF Request
    <3> QED
      BY <3>1, <3>3
  <2>3. CASE WorkerCrashes(w)
    <3>1. PICK q \in pending : r = q \/ r = [q EXCEPT !.awaited = FALSE]
      BY <2>3 DEF WorkerCrashes
    <3>2. q \in Request
      BY DEF TypeOK
    <3>3. r.op = q.op /\ r.job = q.job
      BY <3>1, <3>2 DEF Request
    <3> QED
      BY <3>3
  <2> QED
    BY <1>1, <2>1, <2>2, <2>3
    DEF WorkerSteps, Heartbeat, SendClaim, SendProgress, SendComplete, ToldCompleted,
        SendFail, ClaimLostAtWork, WorkFails, DropJob
<1>2. ASSUME NEW q \in pending, CommitClaim(q)
      PROVE  r \in pending \/ (r.job \in Jobs /\ video'[r.job] = "processing")
  <2>1. PICK lapsed \in SUBSET Lapsed, asked \in {Jobs} \cup {{k} : k \in Jobs} :
          ClaimNothing(q, lapsed, asked) \/ \E k \in asked : ClaimJob(q, lapsed, k)
    BY <1>2 DEF CommitClaim
  <2>2. ASSUME NEW k \in Jobs, ClaimJob(q, lapsed, k), r \notin pending
        PROVE  r.job \in Jobs /\ video'[r.job] = "processing"
    <3>1. r = [q EXCEPT !.op = "cleanup", !.job = k]
      BY <2>2 DEF ClaimJob
    <3>2. q \in Request
      BY DEF TypeOK
    <3>3. r.job = k
      BY <3>1, <3>2 DEF Request
    <3> QED
      BY <2>2, <3>3 DEF ClaimJob, VideosReset
  <2> QED
    BY <2>1, <2>2 DEF ClaimNothing
<1>3. ASSUME pending' \subseteq pending PROVE r \in pending
  BY <1>3
<1> QED
  BY <1>1, <1>2, <1>3
  DEF NextWithStops, Next, Handling, TimePasses, Commit, CheckerSteps, AdminSteps, vars,
      ClaimExpires, HeartbeatAges, CleanUpRetranscode, CommitProgress, CommitComplete,
      CommitFail, TransactionFails, FindStaleWorker, MarkOffline, FetchExpiredJobs,
      ReleaseJob, ReadReleasedVideo, ResetReleasedVideo, AllJobsReleased, CheckFails,
      ShutDown, ApiCrashes, DisableWorker, EnableWorker

\* What a step leaves of a row: a finished job stays finished, a video gets
\* ready or failed with its job, and only the clean-up clears its mark.
LEMMA RowFacts ==
    ASSUME TypeOK, NEW j \in Jobs, RowStep(j)
    PROVE  /\ job[j].completed_at => job'[j].completed_at
           /\ video'[j] = "ready" =>
                \/ job'[j].completed_at
                \/ /\ video[j] = "ready"
                   /\ job'[j].claimed_at => job[j].claimed_at
                   /\ \/ job[j].retranscode_metadata => job'[j].retranscode_metadata
                      \/ \E r \in pending : r.op = "cleanup" /\ r.job = j
           /\ video'[j] = "failed" => job'[j].completed_at \/ video[j] = "failed"
<1>1. job[j] \in JobRow
  BY DEF TypeOK
<1>2. CASE RowAlone(j)
  BY <1>1, <1>2 DEF RowAlone, JobRow, Unclaimed
<1>3. CASE VideoReset(j)
  BY <1>1, <1>3 DEF VideoReset, JobRow, Unclaimed
<1>4. CASE Claimed(j)
  BY <1>1, <1>4 DEF Claimed
<1>5. CASE Completed(j)
  BY <1>1, <1>5 DEF Completed, JobRow, Over
<1>6. CASE Retried(j)
  BY <1>1, <1>6 DEF Retried, JobRow, Unclaimed
<1>7. CASE Failed(j)
  BY <1>1, <1>7 DEF Failed, JobRow, Over
<1> QED
  BY <1>2, <1>3, <1>4, <1>5, <1>6, <1>7 DEF RowStep

\* The status shown of a video agrees with its job.  The clean-up of a
\* re-transcode is why this is not inductive alone: it takes away what made a
\* ready video with an open job legitimate.
THEOREM VideosAgreeWithJobs == SpecWithStops => []VideoAgreesWithJob
<1>1. Init => VideoAgreesWithJob /\ CleanUpFollowsClaim
  <2> SUFFICES ASSUME Init PROVE VideoAgreesWithJob /\ CleanUpFollowsClaim
    OBVIOUS
  <2>1. CleanUpFollowsClaim
    BY DEF Init, CleanUpFollowsClaim
  <2>2. ASSUME NEW j \in Jobs
        PROVE  /\ video[j] # "failed"
               /\ video[j] = "ready" => job[j].retranscode_metadata /\ ~job[j].claimed_at
    BY DEF Init, NewJob
  <2> QED
    BY <2>1, <2>2 DEF VideoAgreesWithJob
<1>2. /\ TypeOK /\ VideoAgreesWithJob /\ CleanUpFollowsClaim
      /\ [NextWithStops]_vars
      => (VideoAgreesWithJob /\ CleanUpFollowsClaim)'
  <2> SUFFICES ASSUME TypeOK, VideoAgreesWithJob, CleanUpFollowsClaim, [NextWithStops]_vars
               PROVE  (VideoAgreesWithJob /\ CleanUpFollowsClaim)'
    OBVIOUS
  <2>1. ASSUME NEW j \in Jobs PROVE RowStep(j)
    BY RowSteps
  <2>2. VideoAgreesWithJob'
    <3> SUFFICES ASSUME NEW j \in Jobs
                 PROVE  /\ video'[j] = "ready" =>
                             job'[j].completed_at \/ (job'[j].retranscode_metadata /\ ~job'[j].claimed_at)
                        /\ video'[j] = "failed" => job'[j].completed_at
      BY DEF VideoAgreesWithJob
    <3>1. ASSUME NEW r \in pending, r.op = "cleanup", r.job = j
          PROVE  video[j] # "ready" \/ job[j].completed_at
      BY <3>1 DEF CleanUpFollowsClaim
    <3> QED
      BY <2>1, <3>1, RowFacts DEF VideoAgreesWithJob
  <2>3. CleanUpFollowsClaim'
    <3> SUFFICES ASSUME NEW r \in pending', r.op = "cleanup"
                 PROVE  video'[r.job] # "ready" \/ job'[r.job].completed_at
      BY DEF CleanUpFollowsClaim
    <3>1. ASSUME NEW q \in pending, q.op = "cleanup", q.job = r.job
          PROVE  video'[r.job] # "ready" \/ job'[r.job].completed_at
      <4>1. r.job \in Jobs
        BY <3>1, RequestTypes
      <4>2. video[r.job] # "ready" \/ job[r.job].completed_at
        BY <3>1 DEF CleanUpFollowsClaim
      <4> QED
        BY <2>1, <4>1, <4>2, RowFacts
    <3> QED
      BY <3>1, CleanUpRequests
  <2> QED
    BY <2>2, <2>3
<1> QED
  BY <1>1, <1>2, TypeCorrect, PTL DEF SpecWithStops

\* No video is left in processing without a claim as long as no step of the API
\* is cut short: the checker resets what it releases before it goes on.
THEOREM ProcessingHasAReason == Spec => []ProcessingIsClaimedOrReleased
<1>1. Init => ProcessingIsClaimedOrReleased
  BY DEF Init, ProcessingIsClaimedOrReleased
<1>2. TypeOK /\ ProcessingIsClaimedOrReleased /\ [Next]_vars => ProcessingIsClaimedOrReleased'
  <2> SUFFICES ASSUME TypeOK, ProcessingIsClaimedOrReleased, [Next]_vars,
                      NEW j \in Jobs, video'[j] = "processing"
               PROVE  job'[j].claimed_at \/ (checker'.pc \in {"read", "reset"} /\ checker'.job = j)
    BY DEF ProcessingIsClaimedOrReleased
  <2>1. RowStep(j) /\ job[j] \in JobRow
    BY RowSteps DEF TypeOK, NextWithStops
  <2>2. CASE Claimed(j)
    BY <2>1, <2>2 DEF Claimed, ClaimedBy, JobRow
  <2>3. CASE ReleaseJob(j)
    BY <2>3, CheckerTypes DEF ReleaseJob
  <2>4. CASE RowAlone(j) /\ ~ReleaseJob(j)
    <3>1. video[j] = "processing" /\ (job[j].claimed_at => job'[j].claimed_at)
      BY <2>1, <2>4 DEF RowAlone, JobRow
    <3>2. CASE job[j].claimed_at
      BY <3>1, <3>2
    <3>3. CASE checker.pc \in {"read", "reset"} /\ checker.job = j
      <4>1. CASE UNCHANGED checker
        BY <3>3, <4>1
      <4>2. CASE ReadReleasedVideo
        BY <3>1, <3>3, <4>2, CheckerTypes DEF ReadReleasedVideo
      <4>3. CASE ResetReleasedVideo
        <5>1. video'[j] = "pending"
          BY <3>3, <4>3 DEF ResetReleasedVideo, TypeOK
        <5> QED
          BY <5>1
      <4> QED
        BY <3>3, <4>1, <4>2, <4>3
        DEF Next, Handling, TimePasses, WorkerSteps, Commit, CheckerSteps, AdminSteps, vars,
            ClaimExpires, HeartbeatAges, Heartbeat, SendClaim, SendProgress, SendComplete,
            ToldCompleted, SendFail, GiveUpWaiting, ClaimLostAtWork, WorkFails, DropJob,
            WorkerCrashes, CommitClaim, CleanUpRetranscode, CommitProgress, CommitComplete,
            CommitFail, TransactionFails, FindStaleWorker, MarkOffline, FetchExpiredJobs,
            ReleaseJob, AllJobsReleased, DisableWorker, EnableWorker
    <3> QED
      BY <3>1, <3>2, <3>3 DEF ProcessingIsClaimedOrReleased
  <2> QED
    BY <2>1, <2>2, <2>3, <2>4 DEF RowStep, VideoReset, Completed, Retried, Failed
<1>3. Spec => []TypeOK
  <2>1. [Next]_vars => [NextWithStops]_vars
    BY DEF NextWithStops
  <2> QED
    BY <2>1, InitTypes, NextTypes, PTL DEF Spec
<1> QED
  BY <1>1, <1>2, <1>3, PTL DEF Spec

-----------------------------------------------------------------------------
(* The rows implement module Lease.                                        *)

\* What a row goes through is a step of its lease, or none.
LEMMA RowStepIsLeaseStep ==
    ASSUME TypeOK, NEW j \in Jobs, RowStep(j)
    PROVE  L!JobStep(j) \/ L!Stay(j)
<1>1. job[j] \in JobRow
  BY DEF TypeOK
<1> USE DEF L!JobStep, L!Stay, L!Acquire, L!Renew, L!Lapse, L!GiveUp, L!Finish,
            LeaseState, LeaseHolder
<1>2. CASE RowAlone(j)
  BY <1>1, <1>2 DEF RowAlone, JobRow, Unclaimed
<1>3. CASE VideoReset(j)
  BY <1>1, <1>3 DEF VideoReset, JobRow, Unclaimed
<1>4. CASE Claimed(j)
  BY <1>1, <1>4 DEF Claimed, ClaimedBy, JobRow
<1>5. CASE Completed(j)
  BY <1>1, <1>5 DEF Completed, JobRow, Over
<1>6. CASE Retried(j)
  BY <1>1, <1>6 DEF Retried, JobRow, Unclaimed
<1>7. CASE Failed(j)
  BY <1>1, <1>7 DEF Failed, JobRow, Over
<1> QED
  BY <1>2, <1>3, <1>4, <1>5, <1>6, <1>7 DEF RowStep

\* The handlers implement the leases: whatever is late, cut short or done by
\* hand, a claim passes from worker to worker only when it has lapsed or was
\* given up, and a finished job is not leased again.
THEOREM LeaseRefinement == SpecWithStops => ImplementsLease
<1>1. Init => L!Init
  BY DEF Init, NewJob, L!Init, LeaseState, LeaseHolder
<1>2. TypeOK /\ [NextWithStops]_vars => [L!Next]_(<<[j \in Jobs |-> LeaseState(j)], [j \in Jobs |-> LeaseHolder(j)]>>)
  BY RowSteps, RowStepIsLeaseStep DEF L!Next
<1> QED
  BY <1>1, <1>2, TypeCorrect, PTL DEF SpecWithStops, ImplementsLease, L!Spec

=============================================================================

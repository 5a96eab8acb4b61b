--------------------------- MODULE JobLeaseStates ---------------------------
(***************************************************************************)
(* The derived job states of api/job_state.py on the rows that the Worker  *)
(* API writes, and what the documentation says of jobs and leases.  Of the *)
(* latter, TLC finds the behaviours of the code that contradict it.        *)
(***************************************************************************)
EXTENDS JobLease

S == INSTANCE JobState

\* get_state never raises: no interleaving of handlers, checker and shutdown
\* leaves a row that none of the predicates covers, for instance a claim whose
\* deadline was cleared under it.
EveryRowHasAState == \A j \in Jobs : S!get_state(job[j]) # "indeterminate"

-----------------------------------------------------------------------------
(* What the documentation says.                                            *)

\* "Jobs are only released if the job's claim has expired": the row is written
\* by id some awaits after its deadline was read.
OnlyExpiredClaimsAreReleased ==
    [][\A j \in Jobs : ReleaseJob(j) => job[j].claim_expires_at # "live"]_vars

\* Completion verifies that the worker owns the job in an "Atomic Transaction",
\* for the case that the job was reassigned: it does so before the transaction.
CompletedByItsHolder ==
    [][\A r \in pending : CommitComplete(r) => Owns(r.worker, r.job)]_vars

\* "ready" and a completed job are ends of their state machines: a failure
\* reported after the completion takes the video back to pending.
ReadyVideosStayReady ==
    [][\A j \in Jobs : job[j].completed_at /\ video[j] = "ready" => video'[j] = "ready"]_vars

\* The API may stop, but it keeps checking for stale jobs.
FairSpecWithStops ==
    Init /\ [][NextWithStops]_vars /\ Fairness /\ WF_vars(CheckerSteps)

\* "Job returns to pending state for another worker": when the API stops
\* between the two writes of a release, nothing ever does it.
ReleasedVideosReturnToPending ==
    \A j \in Jobs : (video[j] = "processing" /\ ~job[j].claimed_at) ~> (video[j] # "processing")

=============================================================================

---------------------------- MODULE OrphanCleanup ----------------------------
(***************************************************************************)
(* The quality directories of one video, and the background task of        *)
(* api/worker_api.py that removes those which belong to nothing:           *)
(* _cleanup_orphaned_quality_directories, beside the requests of the       *)
(* remote workers that store qualities and end jobs. How a job is claimed, *)
(* lapses and is tried again is JobLease's matter: here a job is open      *)
(* until its row gets completed_at.                                        *)
(***************************************************************************)
EXTENDS Naturals, FiniteSets

CONSTANTS KnownQualities,  \* QUALITY_DIRECTORY_NAMES
          MaxJobs          \* bound: jobs that the video has, one after the other

ASSUME OrphanAssumption == IsFiniteSet(KnownQualities) /\ MaxJobs \in Nat \ {0}

VARIABLES directory,   \* of each quality; "old" when its mtime is ORPHAN_CLEANUP_MIN_AGE ago
          registered,  \* the rows of video_qualities
          openJob,     \* the job whose completed_at is NULL: "none", "again" before the
                       \* clean-up of a retranscode, "cleared" within it, or "work"
          delivered,   \* the qualities that the workers of the open job have delivered
          jobs,
          scan         \* the task

orphanVars == <<directory, registered, openJob, delivered, jobs, scan>>

NoScan == [step |-> "none", registered |-> {}, aged |-> {}, overtaken |-> FALSE]

OrphanInit ==
  /\ directory = [q \in KnownQualities |-> "absent"] /\ registered = {}
  /\ openJob = "work" /\ delivered = {} /\ jobs = 1
  /\ scan = NoScan

-----------------------------------------------------------------------------
(* The requests of workers and administrators. *)

\* upload_quality, or the segments of a quality: its entries are written anew, and it is
\* too young for the scan that has begun.
StoreQuality(q) ==
  /\ openJob = "work"
  /\ directory' = [directory EXCEPT ![q] = "new"]
  /\ delivered' = delivered \cup {q}
  /\ scan' = [scan EXCEPT !.aged = @ \ {q}]
  /\ UNCHANGED <<registered, openJob, jobs>>

\* complete_job lists what the worker names, in the transaction that sets completed_at.
CompleteJob ==
  /\ openJob = "work" /\ openJob' = "none"
  /\ \E named \in SUBSET delivered : registered' = registered \cup named
  /\ delivered' = {}
  /\ scan' = [scan EXCEPT !.overtaken = @ \/ scan.step = "jobs"]
  /\ UNCHANGED <<directory, jobs>>

\* fail_job for good: the directories stay.
FailJob ==
  /\ openJob = "work" /\ openJob' = "none" /\ delivered' = {}
  /\ UNCHANGED <<directory, registered, jobs, scan>>

\* A row of its own; cleaning up is left to the claim.
RetranscodeVideo ==
  /\ openJob = "none" /\ jobs < MaxJobs /\ jobs' = jobs + 1
  /\ openJob' = "again"
  /\ UNCHANGED <<directory, registered, delivered, scan>>

\* claim_job, of some qualities or all: the files first.
ClearFiles(chosen) ==
  /\ openJob = "again" /\ openJob' = "cleared"
  /\ directory' = [q \in KnownQualities |-> IF q \in chosen THEN "absent" ELSE directory[q]]
  /\ UNCHANGED <<registered, delivered, jobs, scan>>

ClearRows ==
  /\ openJob = "cleared" /\ openJob' = "work"
  /\ registered' = {q \in registered : directory[q] # "absent"}
  /\ UNCHANGED <<directory, delivered, jobs, scan>>

\* ORPHAN_CLEANUP_MIN_AGE passes in which nothing is written there.
DirectoryAges(q) ==
  /\ directory[q] = "new"
  /\ directory' = [directory EXCEPT ![q] = "old"]
  /\ UNCHANGED <<registered, openJob, delivered, jobs, scan>>

-----------------------------------------------------------------------------
(* The task, after its period of grace. *)

\* Ages are reckoned from the time at which the scan begins.
BeginScan ==
  /\ scan.step = "none"
  /\ scan' = [NoScan EXCEPT !.step = "rows", !.aged = {q \in KnownQualities : directory[q] = "old"}]
  /\ UNCHANGED <<directory, registered, openJob, delivered, jobs>>

ReadRows ==
  /\ scan.step = "rows"
  /\ scan' = [scan EXCEPT !.step = "jobs", !.registered = registered]
  /\ UNCHANGED <<directory, registered, openJob, delivered, jobs>>

\* Mutant: the jobs are not asked for.
ReadNoJobs ==
  /\ scan.step = "jobs"
  /\ scan' = [scan EXCEPT !.step = "walk"]
  /\ UNCHANGED <<directory, registered, openJob, delivered, jobs>>

\* A video with an open job is left alone.
ReadActiveJobs ==
  /\ scan.step = "jobs"
  /\ scan' = IF openJob # "none" THEN NoScan ELSE [scan EXCEPT !.step = "walk"]
  /\ UNCHANGED <<directory, registered, openJob, delivered, jobs>>

\* Mutant: a video that lists anything is left alone.
IsOrphanOfUnlisted(q) == q \in scan.aged /\ directory[q] # "absent" /\ scan.registered = {}

\* The mtime is read only now.
IsOrphan(q) == q \in scan.aged /\ directory[q] # "absent" /\ q \notin scan.registered

RemoveDirectory(q) ==
  /\ scan.step = "walk" /\ IsOrphan(q)
  /\ directory' = [directory EXCEPT ![q] = "absent"]
  /\ UNCHANGED <<registered, openJob, delivered, jobs, scan>>

\* The rest is listed, or too young. (A removal that fails is left to the next scan; such
\* failures are left out.)
EndScan ==
  /\ scan.step = "walk" /\ ~\E q \in KnownQualities : IsOrphan(q)
  /\ scan' = NoScan
  /\ UNCHANGED <<directory, registered, openJob, delivered, jobs>>

-----------------------------------------------------------------------------
Cleaning ==
  \/ BeginScan \/ ReadRows \/ ReadActiveJobs \/ EndScan
  \/ \E q \in KnownQualities : RemoveDirectory(q)

OrphanNext ==
  \/ \E q \in KnownQualities : StoreQuality(q) \/ DirectoryAges(q)
  \/ CompleteJob \/ FailJob \/ RetranscodeVideo \/ ClearRows
  \/ \E chosen \in SUBSET KnownQualities : ClearFiles(chosen)
  \/ Cleaning

\* cleanup_orphaned_files goes on and on.
OrphanFairness == WF_orphanVars(Cleaning)
OrphanSpec == OrphanInit /\ [][OrphanNext]_orphanVars /\ OrphanFairness

-----------------------------------------------------------------------------
OrphanTypeOK ==
  /\ directory \in [KnownQualities -> {"absent", "new", "old"}]
  /\ registered \subseteq KnownQualities /\ delivered \subseteq KnownQualities
  /\ openJob \in {"none", "again", "cleared", "work"} /\ jobs \in 1 .. MaxJobs
  /\ scan \in [step : {"none", "rows", "jobs", "walk"}, registered : SUBSET KnownQualities,
               aged : SUBSET KnownQualities, overtaken : BOOLEAN]

\* The task never removes a directory that the video lists, nor one that the open job has
\* delivered, though rows, jobs and files are read at different times and jobs begin and end
\* in between. The one exception is a job that is completed between the two reads of a
\* scan: its qualities are in neither of them, and those that were delivered longer ago than
\* the minimal age are removed.
OnlyOrphansAreRemoved ==
  [][\A q \in KnownQualities :
       scan.step = "walk" /\ directory[q] # "absent" /\ directory'[q] = "absent" /\ openJob' = openJob
       => q \notin delivered /\ (q \notin registered \/ scan.overtaken)]_orphanVars

\* What a job that failed has left behind does not stay for ever, once it is old: again and
\* again all the old directories are listed ones, or a job is open.
OrphansAreRemoved ==
  []<>(openJob # "none" \/ \A q \in KnownQualities : directory[q] = "old" => q \in registered)
=============================================================================

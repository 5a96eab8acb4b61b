------------------------ MODULE OrphanCleanupProofs ------------------------
(* That the clean-up of orphaned directories takes nothing that is listed or  *)
(* being worked at, for any set of qualities and any number of jobs.          *)
EXTENDS OrphanCleanup, TLAPS

Scans == [step : {"none", "rows", "jobs", "walk"}, registered : SUBSET KnownQualities,
          aged : SUBSET KnownQualities, overtaken : BOOLEAN]

\* Nothing is delivered but for an open job.
DeliveredForWork == openJob # "work" => delivered = {}

\* What the open job delivers during the walk is too young for it.
DeliveredIsYoung == scan.step = "walk" => scan.aged \cap delivered = {}

\* Between its two reads, a scan knows all rows, unless a job has been completed.
RowsAreKnown == scan.step = "jobs" /\ ~scan.overtaken => registered \subseteq scan.registered

\* Afterwards it knows all those that were delivered before it began.
AgedRowsAreKnown ==
  scan.step = "walk" /\ ~scan.overtaken => registered \cap scan.aged \subseteq scan.registered

ScanInv == OrphanTypeOK /\ DeliveredForWork /\ DeliveredIsYoung /\ RowsAreKnown /\ AgedRowsAreKnown

\* Before a scan has begun it knows nothing.
LEMMA ScanBegins == OrphanInit => ScanInv
  BY OrphanAssumption
  DEF OrphanInit, ScanInv, OrphanTypeOK, NoScan, DeliveredForWork, DeliveredIsYoung, RowsAreKnown,
      AgedRowsAreKnown

\* Each request and each step of the task preserves the invariant: only complete_job lists
\* qualities, and those it lists are new to a walk that goes on meanwhile.
LEMMA ScanGoesOn == ASSUME ScanInv, [OrphanNext]_orphanVars PROVE ScanInv'
<1> USE OrphanAssumption DEF OrphanTypeOK, DeliveredForWork, DeliveredIsYoung, RowsAreKnown, AgedRowsAreKnown
<1>1. CASE UNCHANGED orphanVars
  BY <1>1 DEF orphanVars, ScanInv
<1>2. ASSUME NEW q \in KnownQualities, StoreQuality(q) PROVE ScanInv'
  <2>1. [scan EXCEPT !.aged = @ \ {q}] \in Scans
    BY DEF Scans, ScanInv
  <2> QED BY <1>2, <2>1 DEF StoreQuality, Scans, ScanInv
<1>3. ASSUME NEW q \in KnownQualities, DirectoryAges(q) PROVE ScanInv'
  BY <1>3 DEF DirectoryAges, ScanInv
<1>4. CASE CompleteJob
  <2>1. PICK named \in SUBSET delivered : registered' = registered \cup named
    BY <1>4 DEF CompleteJob
  <2>2. scan' \in Scans /\ delivered' = {} /\ openJob' = "none"
    BY <1>4 DEF CompleteJob, Scans, ScanInv
  <2>3. scan.step = scan'.step /\ scan.registered = scan'.registered /\ scan.aged = scan'.aged
    BY <1>4 DEF CompleteJob, Scans, ScanInv
  <2>4. scan'.overtaken = (scan.overtaken \/ scan.step = "jobs")
    BY <1>4 DEF CompleteJob, Scans, ScanInv
  <2>5. OrphanTypeOK' /\ DeliveredForWork' /\ DeliveredIsYoung'
    BY <1>4, <2>1, <2>2, <2>3 DEF CompleteJob, Scans, ScanInv
  <2>6. RowsAreKnown' /\ AgedRowsAreKnown'
    BY <2>1, <2>3, <2>4 DEF ScanInv
  <2> QED BY <2>5, <2>6 DEF ScanInv
<1>5. CASE FailJob \/ RetranscodeVideo
  BY <1>5 DEF FailJob, RetranscodeVideo, ScanInv
<1>6. ASSUME NEW chosen \in SUBSET KnownQualities, ClearFiles(chosen) PROVE ScanInv'
  BY <1>6 DEF ClearFiles, ScanInv
<1>7. CASE ClearRows
  BY <1>7 DEF ClearRows, ScanInv
<1>8. CASE BeginScan
  <2>1. scan' = [step |-> "rows", registered |-> {}, aged |-> {q \in KnownQualities : directory[q] = "old"},
                 overtaken |-> FALSE]
    BY <1>8 DEF BeginScan, NoScan
  <2>2. scan' \in Scans
    BY <2>1 DEF Scans
  <2> QED BY <1>8, <2>1, <2>2 DEF BeginScan, Scans, ScanInv
<1>9. CASE EndScan
  BY <1>9 DEF EndScan, NoScan, ScanInv
<1>10. CASE ReadRows
  BY <1>10 DEF ReadRows, ScanInv
<1>11. CASE ReadActiveJobs
  BY <1>11 DEF ReadActiveJobs, NoScan, ScanInv
<1>12. ASSUME NEW q \in KnownQualities, RemoveDirectory(q) PROVE ScanInv'
  BY <1>12 DEF RemoveDirectory, ScanInv
<1> QED
  BY <1>1, <1>2, <1>3, <1>4, <1>5, <1>6, <1>7, <1>8, <1>9, <1>10, <1>11, <1>12 DEF OrphanNext, Cleaning

\* What a step of the walk removes is neither listed nor delivered by the open job.
LEMMA RemovalsOfTheStep ==
  ASSUME ScanInv, [OrphanNext]_orphanVars
  PROVE  [\A q \in KnownQualities :
            scan.step = "walk" /\ directory[q] # "absent" /\ directory'[q] = "absent" /\ openJob' = openJob
            => q \notin delivered /\ (q \notin registered \/ scan.overtaken)]_orphanVars
<1> SUFFICES ASSUME OrphanNext, NEW q \in KnownQualities, scan.step = "walk",
                    directory[q] # "absent", directory'[q] = "absent", openJob' = openJob
             PROVE  q \notin delivered /\ (q \notin registered \/ scan.overtaken)
  OBVIOUS
<1> USE DEF OrphanTypeOK
<1>1. ASSUME NEW p \in KnownQualities, RemoveDirectory(p)
      PROVE  q \notin delivered /\ (q \notin registered \/ scan.overtaken)
  <2>1. p = q
    BY <1>1 DEF RemoveDirectory, ScanInv
  <2> QED BY <1>1, <2>1 DEF RemoveDirectory, IsOrphan, ScanInv, DeliveredIsYoung, AgedRowsAreKnown
<1>2. ASSUME NEW p \in KnownQualities, StoreQuality(p) \/ DirectoryAges(p) PROVE FALSE
  BY <1>2 DEF StoreQuality, DirectoryAges, ScanInv
<1>3. ASSUME CompleteJob \/ FailJob \/ RetranscodeVideo \/ ClearRows PROVE FALSE
  BY <1>3 DEF CompleteJob, FailJob, RetranscodeVideo, ClearRows
<1>4. ASSUME NEW chosen \in SUBSET KnownQualities, ClearFiles(chosen) PROVE FALSE
  BY <1>4 DEF ClearFiles
<1>5. ASSUME BeginScan \/ ReadRows \/ ReadActiveJobs \/ EndScan PROVE FALSE
  BY <1>5 DEF BeginScan, ReadRows, ReadActiveJobs, EndScan
<1> QED BY <1>1, <1>2, <1>3, <1>4, <1>5 DEF OrphanNext, Cleaning

\* The invariant that the walk rests on, with its types, for any set of qualities and any
\* number of jobs.
THEOREM ScanIsSound == OrphanSpec => []ScanInv
  BY ScanBegins, ScanGoesOn, PTL DEF OrphanSpec

\* The task removes nothing that is listed, and nothing that the open job has delivered,
\* except when a job was completed between the two reads of its scan.
THEOREM OrphansOnly == OrphanSpec => OnlyOrphansAreRemoved
  BY ScanIsSound, RemovalsOfTheStep, PTL DEF OrphanSpec, OnlyOrphansAreRemoved
=============================================================================

----------------------------- MODULE MCJobLease -----------------------------
(* Instances of JobLease for TLC.                                          *)
EXTENDS JobLeaseStates, TLC

CONSTANTS w1, w2, j1, j2

NoJob == {}
OneJob == {j1}
TwoJobs == {j1, j2}
OneWorker == {w1}
TwoWorkers == {w1, w2}

WorkerSymmetry == Permutations(TwoWorkers)

\* Only DisableWorker reads current_job_id: without it, states that differ in
\* nothing else are one.
ViewWithoutAdmin ==
    <<job, video, [w \in Workers |-> <<worker[w].status, worker[w].fresh>>],
      client, pending, checker>>

=============================================================================

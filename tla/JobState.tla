------------------------------ MODULE JobState ------------------------------
(***************************************************************************)
(* api/job_state.py: the state of a transcoding job as derived from the    *)
(* nullable columns of its row.  A row is a record as in JobLease; its     *)
(* deadline is absent, in the future or past at the time asked about.      *)
(***************************************************************************)
EXTENDS Naturals

CONSTANT MaxAttempts    \* transcoding_jobs.max_attempts

-----------------------------------------------------------------------------
(* The predicates.                                                         *)

is_unclaimed(row) == ~row.claimed_at /\ ~row.completed_at /\ ~row.last_error

is_claimed(row) == row.claimed_at /\ ~row.completed_at /\ row.claim_expires_at = "live"

is_expired(row) == row.claimed_at /\ ~row.completed_at /\ row.claim_expires_at = "expired"

is_completed(row) == row.completed_at

\* Mutant: the last attempt does not count.
is_failed_late(row) == ~row.completed_at /\ row.last_error /\ row.attempt_number > MaxAttempts

is_failed(row) == ~row.completed_at /\ row.last_error /\ row.attempt_number >= MaxAttempts

is_retrying(row) ==
    /\ ~row.completed_at /\ row.last_error
    /\ row.attempt_number < MaxAttempts
    /\ ~row.claimed_at

\* The first predicate that holds names the state; a row none of them covers
\* raises ValueError.
get_state(row) ==
    CASE is_completed(row) -> "completed"
      [] ~is_completed(row) /\ is_failed(row) -> "failed"
      [] ~is_failed(row) /\ is_claimed(row) -> "claimed"
      [] ~is_failed(row) /\ is_expired(row) -> "expired"
      [] is_retrying(row) -> "retrying"
      [] is_unclaimed(row) -> "unclaimed"
      [] OTHER -> "indeterminate"

=============================================================================

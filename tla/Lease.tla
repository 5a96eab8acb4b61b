------------------------------- MODULE Lease -------------------------------
(***************************************************************************)
(* What the leases on a set of jobs promise, without handlers, rows or     *)
(* clocks: a worker gets a job only when nobody has it or when the lease   *)
(* has lapsed, and a finished job is never leased again.  The leases move  *)
(* independently of one another, several of them in one step if they like. *)
(***************************************************************************)
CONSTANTS Jobs, Workers, None

VARIABLES state, holder

Init ==
    /\ state = [j \in Jobs |-> "free"]
    /\ holder = [j \in Jobs |-> None]

\* A free or lapsed lease is given to a worker.
Acquire(j, w) ==
    /\ state[j] \in {"free", "lapsed"}
    /\ state'[j] = "held"
    /\ holder'[j] = w

\* The holder, and nobody else, has it for longer.
Renew(j) ==
    /\ state[j] = "lapsed"
    /\ state'[j] = "held"
    /\ holder'[j] = holder[j]

Lapse(j) ==
    /\ state[j] = "held"
    /\ state'[j] = "lapsed"
    /\ holder'[j] = holder[j]

GiveUp(j) ==
    /\ state[j] \in {"held", "lapsed"}
    /\ state'[j] = "free"
    /\ holder'[j] = None

\* The job is over, done or failed for good; this is not undone.
Finish(j) ==
    /\ state[j] # "done"
    /\ state'[j] = "done"
    /\ holder'[j] = None

Stay(j) ==
    /\ state'[j] = state[j]
    /\ holder'[j] = holder[j]

JobStep(j) ==
    \/ \E w \in Workers : Acquire(j, w)
    \/ Renew(j) \/ Lapse(j) \/ GiveUp(j) \/ Finish(j)

Next == \A j \in Jobs : Stay(j) \/ JobStep(j)

Spec == Init /\ [][Next]_<<state, holder>>

=============================================================================

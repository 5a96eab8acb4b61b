--------------------------- MODULE CircuitBreaker ---------------------------
(***************************************************************************)
(* WorkerAPIClient._request with its retries and its circuit breaker       *)
(* (worker/http_client.py). A worker's tasks share one client: the         *)
(* heartbeat, the job and the uploads have requests under way at the same  *)
(* time, and each records its own end in the one breaker.                  *)
(***************************************************************************)
EXTENDS Naturals

CONSTANTS Callers,      \* the tasks that use the client
          Retries,      \* max_retries
          Threshold,    \* CIRCUIT_BREAKER_FAILURE_THRESHOLD
          MaxOutages    \* bound: how often the API goes down

ASSUME BreakerAssumption == Retries \in Nat /\ Threshold \in Nat \ {0} /\ MaxOutages \in Nat

VARIABLES circuit,  \* _circuit_open, _half_open, and whether _circuit_open_until has passed
          misses,   \* _consecutive_failures, counted up to the threshold
          call,     \* of each task: whether a request is under way, and its attempts so far
          apiUp, outages

breakerVars == <<circuit, misses, call, apiUp, outages>>

Closed == [open |-> FALSE, half |-> FALSE, due |-> FALSE]
NoCall == [sent |-> FALSE, attempt |-> 0]

BreakerInit ==
  /\ circuit = Closed /\ misses = 0
  /\ call = [c \in Callers |-> NoCall]
  /\ apiUp = TRUE /\ outages = 0

Sends(c) == call' = [call EXCEPT ![c] = [sent |-> TRUE, attempt |-> 0]]
Returns(c) == call' = [call EXCEPT ![c] = NoCall]
Api == UNCHANGED <<apiUp, outages>>

-----------------------------------------------------------------------------
\* Mutant: an open circuit waits for a success.
RequestIfClosed(c) ==
  /\ ~call[c].sent /\ ~circuit.open
  /\ Sends(c) /\ Api /\ UNCHANGED <<circuit, misses>>

\* _check_circuit_breaker: when the time has passed the circuit is half open, for this
\* request and for every other one that comes before this one ends. Within the time the
\* request is refused.
Request(c) ==
  /\ ~call[c].sent /\ (circuit.open => circuit.due)
  /\ circuit' = IF circuit.open THEN [Closed EXCEPT !.half = TRUE] ELSE circuit
  /\ Sends(c) /\ Api /\ UNCHANGED misses

\* _record_success, by whichever request: also by one that was sent before the circuit opened.
Succeeds(c) ==
  /\ call[c].sent /\ apiUp
  /\ circuit' = Closed /\ misses' = 0
  /\ Returns(c) /\ Api

\* An answer 4xx, or an error that is not tried again, is not recorded: a half-open
\* circuit stays half open.
Refused(c) ==
  /\ call[c].sent
  /\ Returns(c) /\ Api /\ UNCHANGED <<circuit, misses>>

\* A time-out, an error of the connection, 5xx or 429, also from an API that is up.
AttemptFails(c) ==
  /\ call[c].sent /\ call[c].attempt < Retries
  /\ call' = [call EXCEPT ![c].attempt = @ + 1]
  /\ Api /\ UNCHANGED <<circuit, misses>>

\* _record_failure, once for all the attempts.
RequestFailed(c) ==
  /\ call[c].sent /\ call[c].attempt = Retries
  /\ misses' = IF misses = Threshold THEN misses ELSE misses + 1
  /\ circuit' = IF circuit.half \/ misses' = Threshold
                THEN [open |-> TRUE, half |-> FALSE, due |-> FALSE] ELSE circuit
  /\ Returns(c) /\ Api

ResetTimePasses ==
  /\ circuit.open /\ ~circuit.due
  /\ circuit' = [circuit EXCEPT !.due = TRUE]
  /\ Api /\ UNCHANGED <<misses, call>>

ApiGoesDown ==
  /\ apiUp /\ outages < MaxOutages
  /\ apiUp' = FALSE /\ outages' = outages + 1
  /\ UNCHANGED <<circuit, misses, call>>
ApiComesUp ==
  /\ ~apiUp /\ apiUp' = TRUE
  /\ UNCHANGED <<circuit, misses, call, outages>>

-----------------------------------------------------------------------------
Ends(c) == Succeeds(c) \/ RequestFailed(c) \/ AttemptFails(c)
BreakerNext ==
  \/ \E c \in Callers : Request(c) \/ Refused(c) \/ Ends(c)
  \/ ResetTimePasses \/ ApiGoesDown \/ ApiComesUp

\* The tasks go on sending requests, a request ends, time passes, and an API that is up
\* again and again answers some request.
BreakerFairness ==
  /\ \A c \in Callers : WF_breakerVars(Request(c)) /\ WF_breakerVars(Ends(c))
  /\ SF_breakerVars(\E c \in Callers : Succeeds(c))
  /\ WF_breakerVars(ResetTimePasses) /\ WF_breakerVars(ApiComesUp)
BreakerSpec == BreakerInit /\ [][BreakerNext]_breakerVars /\ BreakerFairness

-----------------------------------------------------------------------------
BreakerTypeOK ==
  /\ circuit \in [open : BOOLEAN, half : BOOLEAN, due : BOOLEAN]
  /\ misses \in 0 .. Threshold
  /\ call \in [Callers -> [sent : BOOLEAN, attempt : 0 .. Retries]]
  /\ apiUp \in BOOLEAN /\ outages \in 0 .. MaxOutages

\* The circuit does not stay open or half open to keep the worker from an API that answers
\* again: it closes, whatever the requests that were under way when it opened record
\* afterwards.
BreakerCloses == []<>(circuit = Closed)
=============================================================================

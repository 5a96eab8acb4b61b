-------------------------- MODULE WebhookDelivery --------------------------
(***************************************************************************)
(* Webhook deliveries (api/webhook_service.py): events become rows of the  *)
(* table webhook_deliveries, one for each subscribed webhook; a background *)
(* task of the admin API fetches those that are due and sends a batch of   *)
(* them at a time, several at once, each with its retries and with one     *)
(* circuit breaker for each webhook.  The admin switches webhooks off and  *)
(* on, deletes them, and asks for deliveries to be sent again.             *)
(*                                                                         *)
(* Time is abstracted to what the code compares: a pending delivery is due *)
(* or not, the circuit of a webhook is open or not.                        *)
(***************************************************************************)
EXTENDS Naturals, FiniteSets

CONSTANTS
    Events,         \* the events that happen, each of them once
    AdminEvents,    \* those the admin API raises itself; the others are raised
                    \* in other processes, whose circuits never hear of failures
    Webhooks,       \* the webhooks, subscribed to all of them
    MaxRetries,     \* setting max_retries
    MaxConcurrent,  \* setting max_concurrent_deliveries
    Threshold       \* circuit_breaker_threshold

ASSUME AdminEventsAssumption == AdminEvents \subseteq Events
ASSUME MaxRetriesAssumption == MaxRetries \in Nat \ {0}
ASSUME MaxConcurrentAssumption == MaxConcurrent \in Nat \ {0}
ASSUME ThresholdAssumption == Threshold \in Nat \ {0}

VARIABLES
    event,     \* what trigger_webhook_event has done about each event
    webhook,   \* the rows of webhooks
    delivery,  \* the rows of webhook_deliveries
    batch,     \* the deliveries fetched and not yet looked at
    sending,   \* what send_webhook_delivery remembers of each
    circuit,   \* _circuit_breaker_state, in memory
    retrying,  \* retry requests of the admin, between read and write
    sent       \* history: requests sent in this series of attempts, and not
               \* forgotten by a restart or a failing database

vars == <<event, webhook, delivery, batch, sending, circuit, retrying, sent>>

-----------------------------------------------------------------------------

\* The delivery of an event to a webhook.
Deliveries == Events \X Webhooks
Hook(d) == d[2]

Row == [status : {"none", "pending", "delivered", "failed_permanent"},
        attempt_number : 1 .. MaxRetries,
        due : BOOLEAN]                         \* next_retry_at <= now

\* Not created, or deleted again.
NoRow == [status |-> "none", attempt_number |-> 1, due |-> FALSE]
NewRow == [status |-> "pending", attempt_number |-> 1, due |-> TRUE]

\* attempt is the row's attempt number as it was read.
Sender == [step : {"none", "post", "record"}, attempt : 1 .. MaxRetries, ok : BOOLEAN]
NotSending == [step |-> "none", attempt |-> 1, ok |-> FALSE]

InFlight == {d \in Deliveries : sending[d].step # "none"}

\* failures stays at Threshold once there: the code only asks for >=.
Circuit == [failures : 0 .. Threshold, open : BOOLEAN]
Closed == [failures |-> 0, open |-> FALSE]

\* Mutant: the time is not looked at.
OpenByFailures(c) == c.failures = Threshold
IsOpen(c) == c.open

FailureRecorded(c) ==
    LET more == IF c.failures < Threshold THEN c.failures + 1 ELSE Threshold IN
    [failures |-> more, open |-> c.open \/ more = Threshold]

Init ==
    /\ event = [e \in Events |-> [step |-> "new", to |-> {}]]
    /\ webhook = [w \in Webhooks |-> "active"]
    /\ delivery = [d \in Deliveries |-> NoRow]
    /\ batch = {}
    /\ sending = [d \in Deliveries |-> NotSending]
    /\ circuit = [w \in Webhooks |-> Closed]
    /\ retrying = {}
    /\ sent = [d \in Deliveries |-> 0]

-----------------------------------------------------------------------------
(* trigger_webhook_event                                                   *)

\* Webhooks whose circuit is open are skipped: they never hear of the event.
ReadSubscribers(e) ==
    LET to == {w \in Webhooks : webhook[w] = "active" /\ (e \in AdminEvents => ~IsOpen(circuit[w]))} IN
    /\ event[e].step = "new"
    /\ event' = [event EXCEPT ![e] = [step |-> IF to = {} THEN "done" ELSE "insert", to |-> to]]
    /\ UNCHANGED <<webhook, delivery, batch, sending, circuit, retrying, sent>>

\* One transaction for all of them: when a webhook was deleted meanwhile, its
\* foreign key fails the insertion and nobody hears of the event.
InsertDeliveries(e) ==
    /\ event[e].step = "insert"
    /\ delivery' = IF \E w \in event[e].to : webhook[w] = "deleted" THEN delivery
                   ELSE [d \in Deliveries |->
                           IF d[1] = e /\ Hook(d) \in event[e].to THEN NewRow ELSE delivery[d]]
    /\ event' = [event EXCEPT ![e] = [step |-> "done", to |-> {}]]
    /\ UNCHANGED <<webhook, batch, sending, circuit, retrying, sent>>

\* The insertion raises, or the process that raised the event ends.
EventLost(e) ==
    /\ event[e].step = "insert"
    /\ event' = [event EXCEPT ![e] = [step |-> "done", to |-> {}]]
    /\ UNCHANGED <<webhook, delivery, batch, sending, circuit, retrying, sent>>

-----------------------------------------------------------------------------
(* The background task.                                                    *)

Due == {d \in Deliveries : delivery[d].status = "pending" /\ delivery[d].due}

\* Mutant: the tasks of the last batch are not waited for.
FetchPendingAtOnce ==
    /\ batch = {}
    /\ Due # {}
    /\ batch' = Due
    /\ UNCHANGED <<event, webhook, delivery, sending, circuit, retrying, sent>>

\* A batch is fetched when the last one is over.
FetchPending ==
    /\ batch = {} /\ InFlight = {}
    /\ Due # {}
    /\ batch' = Due
    /\ UNCHANGED <<event, webhook, delivery, sending, circuit, retrying, sent>>

\* What send_webhook_delivery does before it sends.  The row's status is not
\* looked at again.
Look(d) ==
    LET w == Hook(d) IN
    /\ d \in batch
    /\ Cardinality(InFlight) < MaxConcurrent
    /\ batch' = batch \ {d}
    /\ \/ /\ delivery[d].status = "none"
          /\ UNCHANGED <<delivery, sending>>
       \/ /\ delivery[d].status # "none" /\ webhook[w] = "inactive"
          /\ delivery' = [delivery EXCEPT ![d].status = "failed_permanent"]
          /\ UNCHANGED sending
       \/ /\ delivery[d].status # "none" /\ webhook[w] = "active" /\ IsOpen(circuit[w])
          /\ delivery' = [delivery EXCEPT ![d].due = FALSE]
          /\ UNCHANGED sending
       \/ /\ delivery[d].status # "none" /\ webhook[w] = "active" /\ ~IsOpen(circuit[w])
          /\ sending' = [sending EXCEPT ![d] = [step |-> "post", ok |-> FALSE,
                                                attempt |-> delivery[d].attempt_number]]
          /\ UNCHANGED delivery
    /\ UNCHANGED <<event, webhook, circuit, retrying, sent>>

\* The database fails: the row stays as it was, and due.
LookRaises(d) ==
    /\ d \in batch
    /\ Cardinality(InFlight) < MaxConcurrent
    /\ batch' = batch \ {d}
    /\ UNCHANGED <<event, webhook, delivery, sending, circuit, retrying, sent>>

\* The request, until its answer or its failure; a failure is recorded in the
\* circuit breaker at once.
Post(d) ==
    /\ sending[d].step = "post"
    /\ \E ok \in BOOLEAN :
         /\ sending' = [sending EXCEPT ![d].step = "record", ![d].ok = ok]
         /\ circuit' = IF ok THEN circuit ELSE [circuit EXCEPT ![Hook(d)] = FailureRecorded(@)]
    /\ sent' = [sent EXCEPT ![d] = @ + 1]
    /\ UNCHANGED <<event, webhook, delivery, batch, retrying>>

RecordDelivered(d) ==
    /\ sending[d].step = "record" /\ sending[d].ok
    /\ delivery' = IF delivery[d].status = "none" THEN delivery
                   ELSE [delivery EXCEPT ![d].status = "delivered"]
    /\ circuit' = [circuit EXCEPT ![Hook(d)] = Closed]
    /\ sending' = [sending EXCEPT ![d] = NotSending]
    /\ UNCHANGED <<event, webhook, batch, retrying, sent>>

\* Mutant: the limit is checked one attempt too late.
OneRetryMore(n) == n <= MaxRetries
MayRetry(n) == n < MaxRetries

\* Mutant: the attempt is not counted.
SameAttempt(n) == n
NextAttempt(n) == n + 1

RecordFailure(d) ==
    LET attempt == sending[d].attempt IN
    /\ sending[d].step = "record" /\ ~sending[d].ok
    /\ delivery' = IF delivery[d].status = "none" THEN delivery
                   ELSE IF MayRetry(attempt)
                   THEN [delivery EXCEPT ![d].attempt_number = NextAttempt(attempt), ![d].due = FALSE]
                   ELSE [delivery EXCEPT ![d].status = "failed_permanent"]
    /\ sending' = [sending EXCEPT ![d] = NotSending]
    /\ UNCHANGED <<event, webhook, batch, circuit, retrying, sent>>

\* The count of a series of attempts after those in "lost" were forgotten.
Forgotten(lost) ==
    [d \in Deliveries |-> IF d \in lost /\ sent[d] > 0 THEN sent[d] - 1 ELSE sent[d]]

\* Again the row stays as it was, though the request was sent.
RecordRaises(d) ==
    /\ sending[d].step = "record"
    /\ sending' = [sending EXCEPT ![d] = NotSending]
    /\ sent' = Forgotten({d})
    /\ UNCHANGED <<event, webhook, delivery, batch, circuit, retrying>>

\* cleanup_old_deliveries runs between batches.
CleanUp(d) ==
    /\ batch = {} /\ InFlight = {}
    /\ delivery[d].status \in {"delivered", "failed_permanent"}
    /\ delivery' = [delivery EXCEPT ![d] = NoRow]
    /\ UNCHANGED <<event, webhook, batch, sending, circuit, retrying, sent>>

-----------------------------------------------------------------------------
(* Time.                                                                   *)

RetryFallsDue(d) ==
    /\ delivery[d].status = "pending" /\ ~delivery[d].due
    /\ delivery' = [delivery EXCEPT ![d].due = TRUE]
    /\ UNCHANGED <<event, webhook, batch, sending, circuit, retrying, sent>>

\* circuit_open_until passes; the failures are not forgotten, so that the next
\* one opens the circuit again.
CircuitCloses(w) ==
    /\ circuit[w].open
    /\ circuit' = [circuit EXCEPT ![w].open = FALSE]
    /\ UNCHANGED <<event, webhook, delivery, batch, sending, retrying, sent>>

-----------------------------------------------------------------------------
(* The admin, and restarts.                                                *)

SetActive(w, active) ==
    /\ webhook[w] = IF active THEN "inactive" ELSE "active"
    /\ webhook' = [webhook EXCEPT ![w] = IF active THEN "active" ELSE "inactive"]
    /\ UNCHANGED <<event, delivery, batch, sending, circuit, retrying, sent>>

\* The deliveries go with the webhook.
DeleteWebhook(w) ==
    /\ webhook[w] # "deleted"
    /\ webhook' = [webhook EXCEPT ![w] = "deleted"]
    /\ delivery' = [d \in Deliveries |-> IF Hook(d) = w THEN NoRow ELSE delivery[d]]
    /\ UNCHANGED <<event, batch, sending, circuit, retrying, sent>>

\* retry_webhook_delivery refuses deliveries it reads as delivered...
ReadForRetry(d) ==
    /\ d \notin retrying
    /\ delivery[d].status \in {"pending", "failed_permanent"}
    /\ retrying' = retrying \cup {d}
    /\ UNCHANGED <<event, webhook, delivery, batch, sending, circuit, sent>>

\* ... and updates the row whatever it has become.
WriteRetry(d) ==
    /\ d \in retrying
    /\ retrying' = retrying \ {d}
    /\ IF delivery[d].status = "none"
       THEN UNCHANGED <<delivery, sent>>
       ELSE /\ delivery' = [delivery EXCEPT ![d] = NewRow]
            /\ sent' = [sent EXCEPT ![d] = 0]
    /\ UNCHANGED <<event, webhook, batch, sending, circuit>>

\* The process ends, with whatever it was doing, and starts anew.
\* recover_in_flight_deliveries makes due what has been due for an hour.
Restart ==
    /\ event' = [e \in Events |-> IF e \in AdminEvents /\ event[e].step = "insert"
                                  THEN [step |-> "done", to |-> {}] ELSE event[e]]
    /\ batch' = {}
    /\ sending' = [d \in Deliveries |-> NotSending]
    /\ circuit' = [w \in Webhooks |-> Closed]
    /\ retrying' = {}
    /\ sent' = Forgotten({d \in Deliveries : sending[d].step = "record"})
    /\ UNCHANGED <<webhook, delivery>>

-----------------------------------------------------------------------------

TaskSteps(d) ==
    Look(d) \/ Post(d) \/ RecordDelivered(d) \/ RecordFailure(d)

Next ==
    \/ \E e \in Events : ReadSubscribers(e) \/ InsertDeliveries(e) \/ EventLost(e)
    \/ FetchPending
    \/ \E d \in Deliveries :
         \/ TaskSteps(d) \/ LookRaises(d) \/ RecordRaises(d) \/ CleanUp(d) \/ RetryFallsDue(d)
         \/ ReadForRetry(d) \/ WriteRetry(d)
    \/ \E w \in Webhooks :
         \/ CircuitCloses(w) \/ DeleteWebhook(w)
         \/ \E active \in BOOLEAN : SetActive(w, active)
    \/ Restart

Spec == Init /\ [][Next]_vars

\* The task goes on and time passes.  From some time on the process is not
\* restarted, the database works and the admin asks for no more retries.
Fairness ==
    /\ WF_vars(FetchPending)
    /\ \A d \in Deliveries :
         /\ WF_vars(Look(d))
         /\ WF_vars(Post(d))
         /\ WF_vars(RecordDelivered(d) \/ RecordFailure(d))
         /\ WF_vars(RetryFallsDue(d))
    /\ \A w \in Webhooks : WF_vars(CircuitCloses(w))
    /\ <>[][~(Restart \/ \E d \in Deliveries : LookRaises(d) \/ RecordRaises(d) \/ WriteRetry(d))]_vars

FairSpec == Spec /\ Fairness

-----------------------------------------------------------------------------
(* Properties.                                                             *)

\* Every variable keeps its shape.
TypeOK ==
    /\ event \in [Events -> [step : {"new", "insert", "done"}, to : SUBSET Webhooks]]
    /\ webhook \in [Webhooks -> {"active", "inactive", "deleted"}]
    /\ delivery \in [Deliveries -> Row]
    /\ batch \subseteq Deliveries
    /\ sending \in [Deliveries -> Sender]
    /\ circuit \in [Webhooks -> Circuit]
    /\ retrying \subseteq Deliveries
    /\ sent \in [Deliveries -> Nat]

\* A series of attempts sends at most max_retries requests, apart from those a
\* restart or the database made the API forget, although the attempt number is
\* written from the row as it was read before the request, with an admin who
\* resets it meanwhile.
SeriesAreBounded == \A d \in Deliveries : sent[d] <= MaxRetries

\* A delivery whose fate is settled is not sent again: overlapping batches, or
\* two senders of one delivery, would do that.
NoSendAfterTheEnd ==
    [][\A d \in Deliveries : Post(d) => delivery[d].status \in {"pending", "none"}]_vars

\* Every delivery is delivered, given up or deleted in the end: the circuit
\* breaker, which puts deliveries off without counting an attempt, does not
\* do so for ever.
EveryDeliveryEnds ==
    \A d \in Deliveries : delivery[d].status = "pending" ~> delivery[d].status # "pending"

\* "Cannot retry a delivered webhook": the status is read before the update.
DeliveredStaysDelivered ==
    [][\A d \in Deliveries :
         delivery[d].status = "delivered" => delivery'[d].status # "pending"]_vars

=============================================================================

----------------------- MODULE WebhookDeliveryProofs -----------------------
(***************************************************************************)
(* Proofs about WebhookDelivery, for any events, webhooks and limits.      *)
(***************************************************************************)
EXTENDS WebhookDelivery, TLAPS

USE MaxRetriesAssumption, ThresholdAssumption

\* How far the series of attempts of a delivery has come, as the row, the
\* sender and the history count it.
SeriesInv(d) ==
    /\ sent[d] <= MaxRetries
    /\ sending[d].step = "post" => sent[d] < sending[d].attempt
    /\ sending[d].step = "record" => sent[d] <= sending[d].attempt
    /\ delivery[d].status = "pending" =>
         /\ sent[d] <= delivery[d].attempt_number
         /\ sending[d].step # "record" => sent[d] < delivery[d].attempt_number

\* Where a delivery is: fetched, being sent, or settled.
PlaceInv(d) ==
    /\ d \in batch => /\ sending[d].step = "none"
                      /\ delivery[d].status \in {"pending", "none"}
    /\ delivery[d].status \in {"delivered", "failed_permanent"} => sending[d].step = "none"
    /\ event[d[1]].step # "done" =>
         /\ delivery[d].status = "none" /\ sending[d].step = "none"
         /\ d \notin batch /\ sent[d] = 0

DeliveryInv == \A d \in Deliveries : SeriesInv(d) /\ PlaceInv(d)

-----------------------------------------------------------------------------
(* Types.                                                                  *)

\* The records that a row, a sender and a circuit are set to have the right shape.
LEMMA RecordTypes ==
    /\ NoRow \in Row /\ NewRow \in Row
    /\ NotSending \in Sender
    /\ Closed \in Circuit
    /\ \A c \in Circuit : FailureRecorded(c) \in Circuit
<1>1. ASSUME NEW c \in Circuit PROVE FailureRecorded(c) \in Circuit
  BY <1>1 DEF FailureRecorded, Circuit
<1> QED
  BY <1>1 DEF Row, NoRow, NewRow, Sender, NotSending, Circuit, Closed

\* A delivery is one event's to one webhook.
LEMMA HookType == \A d \in Deliveries : d[1] \in Events /\ Hook(d) \in Webhooks
  BY DEF Deliveries, Hook

\* Before the first event every variable has its shape.
LEMMA InitTypes == Init => TypeOK
  BY RecordTypes DEF Init, TypeOK

\* Every step keeps the shapes.
LEMMA NextTypes == TypeOK /\ [Next]_vars => TypeOK'
<1> SUFFICES ASSUME TypeOK, [Next]_vars PROVE TypeOK'
  OBVIOUS
<1> USE RecordTypes DEF TypeOK
<1>1. ASSUME NEW e \in Events, ReadSubscribers(e) PROVE TypeOK'
  BY <1>1 DEF ReadSubscribers
<1>2. ASSUME NEW e \in Events, InsertDeliveries(e) PROVE TypeOK'
  BY <1>2 DEF InsertDeliveries, Row, NewRow
<1>2a. ASSUME NEW e \in Events, EventLost(e) PROVE TypeOK'
  BY <1>2a DEF EventLost
<1>3. ASSUME FetchPending PROVE TypeOK'
  BY <1>3 DEF FetchPending, Due
<1>4. ASSUME NEW d \in Deliveries, Look(d) PROVE TypeOK'
  <2> DEFINE w == Hook(d)
  <2>1. /\ batch' \subseteq Deliveries
        /\ UNCHANGED <<event, webhook, circuit, retrying, sent>>
    BY <1>4 DEF Look
  <2>2. delivery' \in [Deliveries -> Row]
    <3>1. /\ [delivery[d] EXCEPT !.status = "failed_permanent"] \in Row
          /\ [delivery[d] EXCEPT !.due = FALSE] \in Row
      BY DEF Row
    <3>2. \/ delivery' = delivery
          \/ delivery' = [delivery EXCEPT ![d] = [@ EXCEPT !.status = "failed_permanent"]]
          \/ delivery' = [delivery EXCEPT ![d] = [@ EXCEPT !.due = FALSE]]
      BY <1>4 DEF Look
    <3> QED
      BY <3>1, <3>2
  <2>3. sending' \in [Deliveries -> Sender]
    <3>1. [step |-> "post", ok |-> FALSE, attempt |-> delivery[d].attempt_number] \in Sender
      BY DEF Row, Sender
    <3>2. \/ sending' = sending
          \/ sending' = [sending EXCEPT ![d] = [step |-> "post", ok |-> FALSE,
                                               attempt |-> delivery[d].attempt_number]]
      BY <1>4 DEF Look
    <3> QED
      BY <3>1, <3>2
  <2> QED
    BY <2>1, <2>2, <2>3
<1>4a. ASSUME NEW d \in Deliveries, LookRaises(d) PROVE TypeOK'
  BY <1>4a DEF LookRaises
<1>5. ASSUME NEW d \in Deliveries, Post(d) PROVE TypeOK'
  <2>1. PICK ok \in BOOLEAN :
          /\ sending' = [sending EXCEPT ![d].step = "record", ![d].ok = ok]
          /\ circuit' = IF ok THEN circuit ELSE [circuit EXCEPT ![Hook(d)] = FailureRecorded(@)]
    BY <1>5 DEF Post
  <2>2. [sending[d] EXCEPT !.step = "record", !.ok = ok] \in Sender
    BY DEF Sender
  <2>3. sending' \in [Deliveries -> Sender]
    BY <2>1, <2>2
  <2>4. Hook(d) \in Webhooks
    BY HookType
  <2>5. circuit' \in [Webhooks -> Circuit]
    BY <2>1, <2>4
  <2>6. sent' \in [Deliveries -> Nat]
    <3>1. sent' = [sent EXCEPT ![d] = @ + 1]
      BY <1>5 DEF Post
    <3>2. sent[d] + 1 \in Nat
      OBVIOUS
    <3> QED
      BY <3>1, <3>2
  <2> QED
    BY <2>3, <2>5, <2>6, <1>5 DEF Post
<1>6. ASSUME NEW d \in Deliveries, RecordDelivered(d) PROVE TypeOK'
  <2>1. [delivery[d] EXCEPT !.status = "delivered"] \in Row
    BY DEF Row
  <2>2. /\ delivery' \in {delivery, [delivery EXCEPT ![d] = [@ EXCEPT !.status = "delivered"]]}
        /\ circuit' = [circuit EXCEPT ![Hook(d)] = Closed]
        /\ sending' = [sending EXCEPT ![d] = NotSending]
        /\ UNCHANGED <<event, webhook, batch, retrying, sent>>
    BY <1>6 DEF RecordDelivered
  <2>3. delivery' \in [Deliveries -> Row]
    BY <2>1, <2>2
  <2> QED
    BY <2>2, <2>3, HookType
<1>7. ASSUME NEW d \in Deliveries, RecordFailure(d) PROVE TypeOK'
  <2> DEFINE attempt == sending[d].attempt
             later == [delivery[d] EXCEPT !.attempt_number = attempt + 1, !.due = FALSE]
  <2>1. /\ [delivery[d] EXCEPT !.status = "failed_permanent"] \in Row
        /\ MayRetry(attempt) => later \in Row
    <3>1. attempt \in 1 .. MaxRetries
      BY DEF Sender
    <3>2. MayRetry(attempt) => attempt + 1 \in 1 .. MaxRetries
      BY <3>1 DEF MayRetry
    <3> HIDE DEF attempt
    <3> QED
      BY <3>2 DEF Row
  <2>2. \/ delivery' = delivery
        \/ MayRetry(attempt) /\ delivery' = [delivery EXCEPT ![d] = later]
        \/ delivery' = [delivery EXCEPT ![d] = [@ EXCEPT !.status = "failed_permanent"]]
    BY <1>7 DEF RecordFailure, NextAttempt
  <2>3. delivery' \in [Deliveries -> Row]
    <3> HIDE DEF later
    <3> QED
      BY <2>1, <2>2
  <2> QED
    BY <1>7, <2>3 DEF RecordFailure
<1>8. ASSUME NEW d \in Deliveries, RecordRaises(d) PROVE TypeOK'
  BY <1>8 DEF RecordRaises, Forgotten, Sender, NotSending
<1>9. ASSUME NEW d \in Deliveries, CleanUp(d) PROVE TypeOK'
  BY <1>9 DEF CleanUp, Row, NoRow
<1>10. ASSUME NEW d \in Deliveries, RetryFallsDue(d) PROVE TypeOK'
  BY <1>10 DEF RetryFallsDue, Row
<1>11. ASSUME NEW d \in Deliveries, ReadForRetry(d) PROVE TypeOK'
  BY <1>11 DEF ReadForRetry
<1>12. ASSUME NEW d \in Deliveries, WriteRetry(d) PROVE TypeOK'
  <2>1. \/ delivery' = delivery /\ sent' = sent
        \/ delivery' = [delivery EXCEPT ![d] = NewRow] /\ sent' = [sent EXCEPT ![d] = 0]
    BY <1>12 DEF WriteRetry
  <2>2. delivery' \in [Deliveries -> Row] /\ sent' \in [Deliveries -> Nat]
    BY <2>1
  <2> QED
    BY <1>12, <2>2 DEF WriteRetry
<1>13. ASSUME NEW w \in Webhooks, CircuitCloses(w) PROVE TypeOK'
  BY <1>13 DEF CircuitCloses, Circuit
<1>14. ASSUME NEW w \in Webhooks, DeleteWebhook(w) PROVE TypeOK'
  BY <1>14 DEF DeleteWebhook, Row, NoRow
<1>15. ASSUME NEW w \in Webhooks, NEW active \in BOOLEAN, SetActive(w, active) PROVE TypeOK'
  BY <1>15 DEF SetActive
<1>16. ASSUME Restart PROVE TypeOK'
  BY <1>16 DEF Restart, Forgotten, Sender, NotSending, Circuit, Closed
<1>17. CASE UNCHANGED vars
  BY <1>17 DEF vars
<1> QED
  BY <1>1, <1>2, <1>2a, <1>3, <1>4, <1>4a, <1>5, <1>6, <1>7, <1>8,
     <1>9, <1>10, <1>11, <1>12, <1>13, <1>14, <1>15, <1>16, <1>17 DEF Next, TaskSteps

\* Every variable keeps its shape.
THEOREM TypeCorrect == Spec => []TypeOK
<1> QED
  BY InitTypes, NextTypes, PTL DEF Spec

-----------------------------------------------------------------------------
(* What a step does to one delivery.                                       *)

Kept(d) == /\ delivery'[d].status = delivery[d].status
           /\ delivery'[d].attempt_number = delivery[d].attempt_number
SenderKept(d) == sending'[d] = sending[d]
SentKept(d) == sent'[d] = sent[d]
PlaceKept(d) == (d \in batch') <=> (d \in batch)

\* A request fewer, when one was sent.
OneForgotten(d) == sent'[d] = IF sent[d] > 0 THEN sent[d] - 1 ELSE sent[d]

\* Nothing, or it becomes part of a batch.
Fetched(d) ==
    /\ Kept(d) /\ SenderKept(d) /\ SentKept(d)
    /\ d \in batch' => \/ d \in batch
                       \/ delivery[d].status = "pending" /\ sending[d].step = "none"

Looked(d) ==
    /\ d \in batch /\ d \notin batch' /\ SentKept(d)
    /\ \/ SenderKept(d) /\ Kept(d)
       \/ SenderKept(d) /\ delivery[d].status # "none" /\ delivery'[d].status = "failed_permanent"
       \/ /\ Kept(d) /\ delivery[d].status # "none"
          /\ sending'[d].step = "post" /\ sending'[d].attempt = delivery[d].attempt_number

Posted(d) ==
    /\ Kept(d) /\ PlaceKept(d)
    /\ sending[d].step = "post" /\ sending'[d].step = "record"
    /\ sending'[d].attempt = sending[d].attempt
    /\ sent'[d] = sent[d] + 1

Recorded(d) ==
    /\ SentKept(d) /\ PlaceKept(d)
    /\ sending[d].step = "record" /\ sending'[d].step = "none"
    /\ \/ delivery[d].status = "none" /\ Kept(d)
       \/ /\ delivery[d].status # "none"
          /\ delivery'[d].status \in {"delivered", "failed_permanent"}
       \/ /\ delivery[d].status # "none" /\ delivery'[d].status = delivery[d].status
          /\ delivery'[d].attempt_number = sending[d].attempt + 1

Raised(d) ==
    /\ Kept(d) /\ PlaceKept(d) /\ OneForgotten(d)
    /\ sending[d].step = "record" /\ sending'[d].step = "none"

Removed(d) ==
    /\ SenderKept(d) /\ SentKept(d) /\ PlaceKept(d)
    /\ delivery'[d].status = "none"

Retried(d) ==
    /\ SenderKept(d) /\ PlaceKept(d)
    /\ delivery[d].status # "none"
    /\ delivery'[d].status = "pending" /\ delivery'[d].attempt_number = 1
    /\ sent'[d] = 0

Inserted(d) ==
    /\ SenderKept(d) /\ SentKept(d) /\ PlaceKept(d)
    /\ event[d[1]].step = "insert" /\ event'[d[1]].step = "done"
    /\ delivery'[d].status = "pending" /\ delivery'[d].attempt_number = 1

Restarted(d) ==
    /\ Kept(d)
    /\ d \notin batch' /\ sending'[d].step = "none"
    /\ IF sending[d].step = "record" THEN OneForgotten(d) ELSE SentKept(d)

DeliveryStep(d) ==
    \/ Fetched(d) \/ Looked(d) \/ Posted(d) \/ Recorded(d) \/ Raised(d)
    \/ Removed(d) \/ Retried(d) \/ Inserted(d) \/ Restarted(d)

\* An event goes its way once.
EventStep(e) == event[e].step = "done" => event'[e].step = "done"

\* No step takes an event back.
LEMMA EventSteps ==
    ASSUME TypeOK, [Next]_vars PROVE \A e \in Events : EventStep(e)
<1>1. ASSUME NEW f \in Events, ReadSubscribers(f) \/ InsertDeliveries(f) \/ EventLost(f)
      PROVE \A e \in Events : EventStep(e)
  BY <1>1 DEF ReadSubscribers, InsertDeliveries, EventLost, EventStep, TypeOK
<1>2. CASE Restart
  BY <1>2 DEF Restart, EventStep, TypeOK
<1>3. CASE event' = event
  BY <1>3 DEF EventStep
<1> QED
  BY <1>1, <1>2, <1>3
  DEF Next, TaskSteps, vars, FetchPending, Look, LookRaises, Post, RecordDelivered, RecordFailure, RecordRaises,
      CleanUp, RetryFallsDue, ReadForRetry, WriteRetry, CircuitCloses, DeleteWebhook, SetActive

\* Whatever step is taken, each delivery makes one of the steps above.
LEMMA DeliverySteps ==
    ASSUME TypeOK, [Next]_vars, NEW x \in Deliveries PROVE DeliveryStep(x)
<1> DEFINE Quiet == Kept(x) /\ SenderKept(x) /\ SentKept(x) /\ PlaceKept(x)
<1>0. Quiet => DeliveryStep(x)
  BY DEF DeliveryStep, Fetched, PlaceKept
<1> USE DEF TypeOK
<1> HIDE DEF Quiet
<1>1. ASSUME NEW e \in Events, ReadSubscribers(e) PROVE DeliveryStep(x)
  BY <1>0, <1>1 DEF ReadSubscribers, Quiet, Kept, SenderKept, SentKept, PlaceKept
<1>2. ASSUME NEW e \in Events, InsertDeliveries(e) PROVE DeliveryStep(x)
  <2>1. CASE delivery'[x] = delivery[x]
    BY <1>0, <1>2, <2>1 DEF InsertDeliveries, Quiet, Kept, SenderKept, SentKept, PlaceKept
  <2>2. CASE x[1] = e /\ delivery'[x] = NewRow
    BY <1>2, <2>2 DEF InsertDeliveries, DeliveryStep, Inserted, SenderKept, SentKept, PlaceKept, NewRow
  <2> QED
    BY <1>2, <2>1, <2>2 DEF InsertDeliveries
<1>2a. ASSUME NEW e \in Events, EventLost(e) PROVE DeliveryStep(x)
  BY <1>0, <1>2a DEF EventLost, Quiet, Kept, SenderKept, SentKept, PlaceKept
<1>3. ASSUME FetchPending PROVE DeliveryStep(x)
  BY <1>3 DEF FetchPending, Due, InFlight, DeliveryStep, Fetched, Kept, SenderKept, SentKept
<1>4. ASSUME NEW d \in Deliveries, Look(d) PROVE DeliveryStep(x)
  <2>1. CASE x # d
    <3>1. Quiet
      BY <1>4, <2>1 DEF Look, Quiet, Kept, SenderKept, SentKept, PlaceKept
    <3> QED
      BY <3>1, <1>0
  <2>2. CASE x = d
    <3>1. x \in batch /\ x \notin batch' /\ SentKept(x)
      BY <1>4, <2>2 DEF Look, SentKept
    <3>2. \/ SenderKept(x) /\ Kept(x)
          \/ SenderKept(x) /\ delivery[x].status # "none" /\ delivery'[x].status = "failed_permanent"
          \/ /\ Kept(x) /\ delivery[x].status # "none"
             /\ sending'[x].step = "post" /\ sending'[x].attempt = delivery[x].attempt_number
      <4>1. CASE UNCHANGED <<delivery, sending>>
        BY <4>1 DEF SenderKept, Kept
      <4>2. CASE /\ delivery[d].status # "none"
                 /\ delivery' = [delivery EXCEPT ![d].status = "failed_permanent"]
                 /\ sending' = sending
        BY <2>2, <4>2 DEF SenderKept, Row
      <4>3. CASE delivery' = [delivery EXCEPT ![d].due = FALSE] /\ sending' = sending
        BY <2>2, <4>3 DEF SenderKept, Kept, Row
      <4>4. CASE /\ delivery[d].status # "none" /\ delivery' = delivery
                 /\ sending' = [sending EXCEPT ![d] = [step |-> "post", ok |-> FALSE,
                                                      attempt |-> delivery[d].attempt_number]]
        BY <2>2, <4>4 DEF Kept
      <4> QED
        BY <1>4, <4>1, <4>2, <4>3, <4>4 DEF Look
    <3> QED
      BY <3>1, <3>2 DEF DeliveryStep, Looked
  <2> QED
    BY <2>1, <2>2
<1>4a. ASSUME NEW d \in Deliveries, LookRaises(d) PROVE DeliveryStep(x)
  BY <1>4a DEF LookRaises, DeliveryStep, Fetched, Kept, SenderKept, SentKept
<1>5. ASSUME NEW d \in Deliveries, Post(d) PROVE DeliveryStep(x)
  <2>1. PICK ok \in BOOLEAN : sending' = [sending EXCEPT ![d].step = "record", ![d].ok = ok]
    BY <1>5 DEF Post
  <2>2. CASE x # d
    <3>1. Quiet
      BY <1>5, <2>1, <2>2 DEF Post, Quiet, Kept, SenderKept, SentKept, PlaceKept
    <3> QED
      BY <3>1, <1>0
  <2>3. CASE x = d
    <3>1. sending'[x].step = "record" /\ sending'[x].attempt = sending[x].attempt
      BY <2>1, <2>3 DEF Sender
    <3> QED
      BY <1>5, <2>3, <3>1 DEF Post, DeliveryStep, Posted, Kept, PlaceKept
  <2> QED
    BY <2>2, <2>3
<1>6. ASSUME NEW d \in Deliveries, RecordDelivered(d) \/ RecordFailure(d) PROVE DeliveryStep(x)
  <2>1. CASE x # d
    <3>1. Quiet
      BY <1>6, <2>1 DEF RecordDelivered, RecordFailure, Quiet, Kept, SenderKept, SentKept, PlaceKept
    <3> QED
      BY <3>1, <1>0
  <2>2. CASE x = d
    <3>1. /\ sending[x].step = "record" /\ sending'[x].step = "none"
          /\ SentKept(x) /\ PlaceKept(x)
      BY <1>6, <2>2 DEF RecordDelivered, RecordFailure, NotSending, SentKept, PlaceKept
    <3>2. \/ delivery[x].status = "none" /\ Kept(x)
          \/ /\ delivery[x].status # "none"
             /\ delivery'[x].status \in {"delivered", "failed_permanent"}
          \/ /\ delivery[x].status # "none" /\ delivery'[x].status = delivery[x].status
             /\ delivery'[x].attempt_number = sending[x].attempt + 1
      <4>1. CASE delivery[x].status = "none" /\ delivery' = delivery
        BY <4>1 DEF Kept
      <4>2. CASE /\ delivery[x].status # "none"
                 /\ \E s \in {"delivered", "failed_permanent"} :
                      delivery' = [delivery EXCEPT ![x].status = s]
        BY <4>2 DEF Row
      <4>3. CASE /\ delivery[x].status # "none"
                 /\ delivery' = [delivery EXCEPT ![x].attempt_number = sending[x].attempt + 1,
                                                 ![x].due = FALSE]
        BY <4>3 DEF Row
      <4> QED
        BY <1>6, <2>2, <4>1, <4>2, <4>3 DEF RecordDelivered, RecordFailure, NextAttempt
    <3> QED
      BY <3>1, <3>2 DEF DeliveryStep, Recorded
  <2> QED
    BY <2>1, <2>2
<1>7. ASSUME NEW d \in Deliveries, RecordRaises(d) PROVE DeliveryStep(x)
  <2>1. CASE x # d
    BY <1>0, <1>7, <2>1 DEF RecordRaises, Forgotten, Quiet, Kept, SenderKept, SentKept, PlaceKept
  <2>2. CASE x = d
    BY <1>7, <2>2 DEF RecordRaises, Forgotten, NotSending, DeliveryStep, Raised, Kept, PlaceKept, OneForgotten
  <2> QED
    BY <2>1, <2>2
<1>8. ASSUME NEW d \in Deliveries, CleanUp(d) PROVE DeliveryStep(x)
  <2>1. CASE x # d
    BY <1>0, <1>8, <2>1 DEF CleanUp, Quiet, Kept, SenderKept, SentKept, PlaceKept
  <2>2. CASE x = d
    BY <1>8, <2>2 DEF CleanUp, NoRow, DeliveryStep, Removed, SenderKept, SentKept, PlaceKept
  <2> QED
    BY <2>1, <2>2
<1>9. ASSUME NEW d \in Deliveries, RetryFallsDue(d) PROVE DeliveryStep(x)
  <2>1. Quiet
    BY <1>9 DEF RetryFallsDue, Row, Quiet, Kept, SenderKept, SentKept, PlaceKept
  <2> QED
    BY <2>1, <1>0
<1>10. ASSUME NEW d \in Deliveries, ReadForRetry(d) PROVE DeliveryStep(x)
  BY <1>0, <1>10 DEF ReadForRetry, Quiet, Kept, SenderKept, SentKept, PlaceKept
<1>11. ASSUME NEW d \in Deliveries, WriteRetry(d) PROVE DeliveryStep(x)
  <2>1. CASE x # d \/ delivery[d].status = "none"
    BY <1>0, <1>11, <2>1 DEF WriteRetry, Quiet, Kept, SenderKept, SentKept, PlaceKept
  <2>2. CASE x = d /\ delivery[d].status # "none"
    BY <1>11, <2>2 DEF WriteRetry, NewRow, DeliveryStep, Retried, SenderKept, PlaceKept
  <2> QED
    BY <2>1, <2>2
<1>12. ASSUME NEW w \in Webhooks, CircuitCloses(w) PROVE DeliveryStep(x)
  BY <1>0, <1>12 DEF CircuitCloses, Quiet, Kept, SenderKept, SentKept, PlaceKept
<1>13. ASSUME NEW w \in Webhooks, DeleteWebhook(w) PROVE DeliveryStep(x)
  <2>1. CASE Hook(x) # w
    BY <1>0, <1>13, <2>1 DEF DeleteWebhook, Quiet, Kept, SenderKept, SentKept, PlaceKept
  <2>2. CASE Hook(x) = w
    BY <1>13, <2>2 DEF DeleteWebhook, NoRow, DeliveryStep, Removed, SenderKept, SentKept, PlaceKept
  <2> QED
    BY <2>1, <2>2
<1>14. ASSUME NEW w \in Webhooks, NEW active \in BOOLEAN, SetActive(w, active) PROVE DeliveryStep(x)
  BY <1>0, <1>14 DEF SetActive, Quiet, Kept, SenderKept, SentKept, PlaceKept
<1>15. ASSUME Restart PROVE DeliveryStep(x)
  BY <1>15 DEF Restart, Forgotten, NotSending, DeliveryStep, Restarted, Kept, OneForgotten, SentKept
<1>16. CASE UNCHANGED vars
  BY <1>0, <1>16 DEF vars, Quiet, Kept, SenderKept, SentKept, PlaceKept
<1> QED
  BY <1>1, <1>2, <1>2a, <1>3, <1>4, <1>4a, <1>5, <1>6, <1>7, <1>8,
     <1>9, <1>10, <1>11, <1>12, <1>13, <1>14, <1>15, <1>16 DEF Next, TaskSteps

-----------------------------------------------------------------------------
(* What holds of deliveries.                                               *)

\* Nothing was sent at the start.
LEMMA InitDeliveries == Init => DeliveryInv
  BY HookType DEF Init, DeliveryInv, SeriesInv, PlaceInv, NoRow, NotSending

\* No step of a delivery sends more than its series allows.
LEMMA StepSeries ==
    ASSUME TypeOK, TypeOK', NEW x \in Deliveries, SeriesInv(x), PlaceInv(x), DeliveryStep(x)
    PROVE SeriesInv(x)'
<1> USE DEF SeriesInv
<1>1. /\ sent[x] \in Nat /\ sent'[x] \in Nat
      /\ delivery[x].attempt_number \in 1 .. MaxRetries /\ delivery'[x].attempt_number \in 1 .. MaxRetries
      /\ sending[x].attempt \in 1 .. MaxRetries /\ sending'[x].attempt \in 1 .. MaxRetries
  BY DEF TypeOK, Row, Sender
<1>2. CASE Fetched(x)
  BY <1>1, <1>2 DEF Fetched, Kept, SenderKept, SentKept
<1>3. CASE Looked(x)
  BY <1>1, <1>3 DEF Looked, Kept, SenderKept, SentKept, PlaceInv
<1>4. CASE Posted(x)
  BY <1>1, <1>4 DEF Posted, Kept
<1>5. CASE Recorded(x)
  BY <1>1, <1>5 DEF Recorded, Kept, SentKept
<1>6. CASE Raised(x)
  BY <1>1, <1>6 DEF Raised, Kept, OneForgotten
<1>7. CASE Removed(x)
  BY <1>1, <1>7 DEF Removed, SenderKept, SentKept
<1>8. CASE Retried(x)
  BY <1>1, <1>8 DEF Retried, SenderKept
<1>9. CASE Inserted(x)
  BY <1>1, <1>9 DEF Inserted, SenderKept, SentKept, PlaceInv
<1>10. CASE Restarted(x)
  BY <1>1, <1>10 DEF Restarted, Kept, OneForgotten, SentKept
<1> QED
  BY <1>2, <1>3, <1>4, <1>5, <1>6, <1>7, <1>8, <1>9, <1>10 DEF DeliveryStep

\* No step of a delivery leaves it in a batch, or its sender at work, when it is settled.
LEMMA StepPlace ==
    ASSUME TypeOK, NEW x \in Deliveries, PlaceInv(x), DeliveryStep(x), EventStep(x[1])
    PROVE PlaceInv(x)'
<1> USE DEF PlaceInv, EventStep
<1>1. CASE Fetched(x)
  BY <1>1 DEF Fetched, Kept, SenderKept, SentKept
<1>2. CASE Looked(x)
  BY <1>2 DEF Looked, Kept, SenderKept, SentKept
<1>3. CASE Posted(x)
  BY <1>3 DEF Posted, Kept, PlaceKept
<1>4. CASE Recorded(x)
  BY <1>4 DEF Recorded, Kept, SentKept, PlaceKept
<1>5. CASE Raised(x)
  BY <1>5 DEF Raised, Kept, PlaceKept
<1>6. CASE Removed(x)
  BY <1>6 DEF Removed, SenderKept, SentKept, PlaceKept
<1>7. CASE Retried(x)
  BY <1>7 DEF Retried, SenderKept, PlaceKept
<1>8. CASE Inserted(x)
  BY <1>8 DEF Inserted, SenderKept, SentKept, PlaceKept
<1>9. CASE Restarted(x)
  BY <1>9 DEF Restarted, Kept, OneForgotten, SentKept
<1> QED
  BY <1>1, <1>2, <1>3, <1>4, <1>5, <1>6, <1>7, <1>8, <1>9 DEF DeliveryStep

\* So every step keeps what holds of deliveries.
LEMMA NextDeliveries ==
    ASSUME TypeOK, DeliveryInv, [Next]_vars PROVE DeliveryInv'
<1>1. TypeOK'
  BY NextTypes
<1>2. ASSUME NEW x \in Deliveries PROVE SeriesInv(x)' /\ PlaceInv(x)'
  <2>1. SeriesInv(x) /\ PlaceInv(x) /\ DeliveryStep(x)
    BY DeliverySteps DEF DeliveryInv
  <2>2. EventStep(x[1])
    BY EventSteps, HookType
  <2> QED
    BY <1>1, <2>1, <2>2, StepSeries, StepPlace
<1> QED
  BY <1>2 DEF DeliveryInv, Deliveries

\* What holds of deliveries holds in every state.
LEMMA Invariants == Spec => [](TypeOK /\ DeliveryInv)
<1> QED
  BY InitTypes, NextTypes, InitDeliveries, NextDeliveries, PTL DEF Spec

\* No series of attempts sends more requests than the limit, whatever the admin
\* resets while a request is out.
THEOREM SeriesBounded == Spec => []SeriesAreBounded
<1>1. DeliveryInv => SeriesAreBounded
  BY DEF DeliveryInv, SeriesInv, SeriesAreBounded
<1> QED
  BY <1>1, Invariants, PTL

\* A delivery whose fate is settled is not sent again.
THEOREM SettledNotSent == Spec => NoSendAfterTheEnd
<1>1. TypeOK /\ DeliveryInv =>
        [\A d \in Deliveries : Post(d) => delivery[d].status \in {"pending", "none"}]_vars
  BY DEF TypeOK, Row, DeliveryInv, PlaceInv, Post
<1> QED
  BY <1>1, Invariants, PTL DEF Spec, NoSendAfterTheEnd

=============================================================================

-------------------------- MODULE MCWebhookDelivery --------------------------
(* Instances of WebhookDelivery for TLC.                                   *)
EXTENDS WebhookDelivery

CONSTANTS e1, e2, h1, h2

OneEvent == {e1}
TwoEvents == {e1, e2}
OneWebhook == {h1}
TwoWebhooks == {h1, h2}

=============================================================================

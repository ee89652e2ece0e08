------------------------- MODULE MCWebhookDelivery -------------------------
(* Small instances of a webhook delivery and its workers for TLC. *)
EXTENDS WebhookDelivery
============================================================================

-------------------------- MODULE MCWebhookDelivery --------------------------
(***************************************************************************)
(* WebhookDelivery with the constants of the code: nothing is scaled down. *)
(***************************************************************************)
EXTENDS WebhookDelivery
=============================================================================

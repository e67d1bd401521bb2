----------------------------- MODULE MCWebhooks -----------------------------
(* Endpoints and deliveries as model values.                                 *)
EXTENDS Webhooks
=============================================================================

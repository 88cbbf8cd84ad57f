--------------------------- MODULE MCWebhookQueue ---------------------------
(* Model values for the webhook queue.                                     *)
EXTENDS WebhookQueue

CONSTANTS d1, d2, d3, w1, w2, h1
=============================================================================

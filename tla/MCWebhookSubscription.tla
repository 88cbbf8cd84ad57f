----------------------- MODULE MCWebhookSubscription -----------------------
(* Model values of a seller with two stores: one that connects, one that   *)
(* was connected before; and what the vendor's list held at the start.     *)
EXTENDS WebhookSubscription

CONSTANTS a, b

MCLeftovers ==
  {[id |-> 1, base |-> "retired", store |-> None, secret |-> 1, live |-> FALSE],
   [id |-> 2, base |-> "foreign", store |-> None, secret |-> 2, live |-> TRUE],
   [id |-> 3, base |-> "ours",    store |-> b,    secret |-> 3, live |-> TRUE]}
=============================================================================

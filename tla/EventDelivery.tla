--------------------------- MODULE EventDelivery ---------------------------
(***************************************************************************)
(* What the webhook queue promises: a delivery is accepted once, applied   *)
(* while it is queued and never after it was settled; it is settled as     *)
(* done only when it was applied or has nothing to apply, and as given up  *)
(* otherwise; a queued delivery is never forgotten.                        *)
(***************************************************************************)
CONSTANTS
  Deliveries,
  Ignorable   (* the deliveries that have nothing to apply                 *)

VARIABLES
  status,   (* status[d]: where a delivery is                              *)
  applied   (* the deliveries that were applied                            *)

vars == <<status, applied>>

Init ==
  /\ status = [d \in Deliveries |-> "unseen"]
  /\ applied = {}

Accept(d) ==
  /\ status[d] = "unseen"
  /\ \E s \in {"queued", "gaveUp"} : status' = [status EXCEPT ![d] = s]
  /\ UNCHANGED applied

Apply(d) ==
  /\ status[d] = "queued"
  /\ applied' = applied \cup {d}
  /\ UNCHANGED status

Settle(d) ==
  /\ status[d] = "queued"
  /\ \/ d \in applied \cup Ignorable /\ status' = [status EXCEPT ![d] = "done"]
     \/ status' = [status EXCEPT ![d] = "gaveUp"]
  /\ UNCHANGED applied

\* Retention.
Forget(d) ==
  /\ status[d] \in {"done", "gaveUp"}
  /\ status' = [status EXCEPT ![d] = "forgotten"]
  /\ UNCHANGED applied

\* The store is deleted with everything that was queued for it.
ForgetAll ==
  /\ status' = [d \in Deliveries |-> IF status[d] = "unseen" THEN "unseen" ELSE "forgotten"]
  /\ UNCHANGED applied

Next ==
  \/ \E d \in Deliveries : Accept(d) \/ Apply(d) \/ Settle(d) \/ Forget(d)
  \/ ForgetAll

Spec == Init /\ [][Next]_vars
=============================================================================

--------------------------- MODULE MCOrderIntake ---------------------------
(* Model values and functions for the order intake.                        *)
EXTENDS OrderIntake

CONSTANTS created, shipped, delivered, cancelled, unpacked, l1, l2, w1, w2, t1, t2

\* The events of a package in the order the vendor dates them.
MCStamp == [e \in Events |-> CASE e = created -> 1 [] e = shipped -> 2
                                [] e = delivered -> 3 [] OTHER -> 4]
MCKind  == [e \in Events |-> CASE e = cancelled -> "cancelled"
                                [] e = unpacked  -> "unpacked" [] OTHER -> "open"]
=============================================================================

---------------------------- MODULE MCSyncQueue ----------------------------
(* Instances of SyncQueue for TLC: a three-page products scan, one chunk   *)
(* for every other type, and interchangeable worker incarnations.          *)
EXTENDS SyncQueue, TLC

MCPageCount == [ty \in SyncTypes |-> IF ty = "PRODUCTS" THEN 3 ELSE 1]

MCWorkerSymmetry == Permutations(Workers)

=============================================================================

------------------------------ MODULE SyncRun ------------------------------
(***************************************************************************)
(* What the sync queue promises: a run of a sync type for a store is done  *)
(* page by page, may be interrupted and given back at any time, resumes    *)
(* at a page behind which nothing is missing, and ends once.  Workers,     *)
(* claims, leases, attempts and clocks do not appear.                      *)
(***************************************************************************)
EXTENDS Integers

CONSTANTS Runs, Stores, SyncTypes, Length

VARIABLES
  phase, store, type,
  done,       (* pages that are stored or given up                         *)
  progress    (* where the run would be resumed                            *)

vars == <<phase, store, type, done, progress>>

Live(r) == phase[r] \in {"waiting", "working"}

\* The first n pages are done with.
Through(r, n) == 0..(n - 1) \subseteq done[r]

Init ==
  /\ phase = [r \in Runs |-> "UNUSED"]
  /\ store \in [Runs -> Stores]
  /\ type \in [Runs -> SyncTypes]
  /\ done = [r \in Runs |-> {}]
  /\ progress = [r \in Runs |-> 0]

Submit(r, s, ty) ==
  /\ phase[r] = "UNUSED"
  /\ \A q \in Runs : Live(q) => <<store[q], type[q]>> # <<s, ty>>
  /\ phase' = [phase EXCEPT ![r] = "waiting"]
  /\ store' = [store EXCEPT ![r] = s]
  /\ type' = [type EXCEPT ![r] = ty]
  /\ UNCHANGED <<done, progress>>

Take(r) ==
  /\ phase[r] = "waiting"
  /\ phase' = [phase EXCEPT ![r] = "working"]
  /\ UNCHANGED <<store, type, done, progress>>

\* The next page is stored, or one before it again; also by somebody whose
\* work on the run was interrupted and who does not know.
Do(r) ==
  /\ phase[r] \notin {"UNUSED", "DELETED"}
  /\ \E p \in done'[r] : Through(r, p) /\ done' = [done EXCEPT ![r] = @ \cup {p}]
  /\ UNCHANGED <<phase, store, type, progress>>

\* Progress is noted, never past a page that is not done with.
Persist(r) ==
  /\ phase[r] = "working"
  /\ Through(r, progress'[r])
  /\ progress' = [progress EXCEPT ![r] = progress'[r]]
  /\ UNCHANGED <<phase, store, type, done>>

\* A page that cannot be read is given up, and the run waits to go on behind it.
Skip(r) ==
  /\ phase[r] = "working"
  /\ phase' = [phase EXCEPT ![r] = "waiting"]
  /\ \E p \in done'[r] :
       /\ Through(r, p)
       /\ done' = [done EXCEPT ![r] = @ \cup {p}]
       /\ progress' = [progress EXCEPT ![r] = p + 1]
  /\ UNCHANGED <<store, type>>

Finish(r) ==
  /\ phase[r] = "working"
  /\ Through(r, Length[type[r]])
  /\ phase' = [phase EXCEPT ![r] = "COMPLETED"]
  /\ UNCHANGED <<store, type, done, progress>>

\* Work on some runs is interrupted: each waits again, or has failed.
Interrupt(S) ==
  /\ S # {}
  /\ \A r \in S : Live(r)
  /\ \E end \in [S -> {"waiting", "FAILED"}] :
       phase' = [r \in Runs |-> IF r \in S THEN end[r] ELSE phase[r]]
  /\ UNCHANGED <<store, type, done, progress>>

Forget(s) ==
  /\ phase' = [r \in Runs |-> IF store[r] = s /\ phase[r] # "UNUSED"
                              THEN "DELETED" ELSE phase[r]]
  /\ UNCHANGED <<store, type, done, progress>>

Next ==
  \/ \E r \in Runs, s \in Stores, ty \in SyncTypes : Submit(r, s, ty)
  \/ \E r \in Runs : Take(r) \/ Do(r) \/ Persist(r) \/ Skip(r) \/ Finish(r)
  \/ \E S \in SUBSET Runs : Interrupt(S)
  \/ \E s \in Stores : Forget(s)

Spec == Init /\ [][Next]_vars

=============================================================================

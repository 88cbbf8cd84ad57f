-------------------------- MODULE SyncQueueProofs --------------------------
(***************************************************************************)
(* Proofs about SyncQueue for every number of stores, workers, tasks per   *)
(* worker, pages and attempts.                                             *)
(***************************************************************************)
EXTENDS SyncQueue, TLAPS

(***************************************************************************)
(* Type correctness.                                                       *)
(***************************************************************************)
LEMMA TaskTypes ==
  ASSUME TypeOK, NEW t \in Tasks
  PROVE  /\ task[t] \in Task /\ task[t].row \in Rows /\ Job(t) \in Row
         /\ WorkerOf(t) \in Workers /\ t # NoOne /\ WorkerOf(t) # NoOne
  BY NoOneAssumption DEF TypeOK, Tasks, Task, Job, WorkerOf

LEMMA RowTypes ==
  ASSUME TypeOK, NEW r \in Rows
  PROVE  log[r] \in Row
  BY DEF TypeOK

LEMMA IdleType == Idle \in Task
  BY NumbersAssumption DEF Idle, Task, Rows

LEMMA UnusedRowType == UnusedRow \in Row
  BY SlotsAssumption, NumbersAssumption DEF UnusedRow, Row, Statuses

\* A fenced write that ends the run keeps the types, if the new row has one.
LEMMA FencedEndType ==
  ASSUME TypeOK, NEW t \in Tasks, NEW row \in Row, FencedEnd(t, row)
  PROVE  TypeOK'
  <1>1. task[t].row \in Rows
    BY TaskTypes
  <1>2. log' \in [Rows -> Row] /\ lease' \in [Rows -> Tasks \cup {NoOne}]
    BY <1>1 DEF FencedEnd, TypeOK
  <1>3. task' \in [Tasks -> Task]
    BY IdleType DEF FencedEnd, Settle, TypeOK
  <1>4. QED
    BY <1>2, <1>3 DEF FencedEnd, TypeOK

LEMMA EndRowTypes ==
  ASSUME TypeOK, NEW t \in Tasks
  PROVE  /\ [Job(t) EXCEPT !.status = "PENDING", !.claimedBy = NoOne, !.attempts = 0] \in Row
         /\ [Job(t) EXCEPT !.status = "COMPLETED"] \in Row
         /\ FailedRow(t) \in Row
         /\ [Job(t) EXCEPT !.status = "FAILED_RETRYABLE", !.claimedBy = NoOne,
                           !.retryAt = "future"] \in Row
         /\ [Job(t) EXCEPT !.status = "PENDING", !.attempts = 0, !.cursor = NextPage(t),
                           !.skipped = @ \cup {task[t].cursor},
                           !.claimedBy = NoOne, !.retryAt = "null"] \in Row
  <1>1. Job(t) \in Row /\ task[t].cursor \in Nat
    BY TaskTypes DEF Task
  <1>2. NextPage(t) \in Nat
    BY <1>1 DEF NextPage
  <1>3. QED
    BY <1>1, <1>2 DEF Row, Statuses, Active, Terminal, FailedRow

\* The rows that a claim and a tick write.
LEMMA ClaimedRowType ==
  ASSUME NEW row \in Row, NEW w \in Workers, NEW n \in Nat
  PROVE  [row EXCEPT !.status = "RUNNING", !.claimedBy = w, !.attempts = n,
                     !.fresh = TRUE] \in Row
  BY DEF Row, Statuses, Active

LEMMA TickedRowType ==
  ASSUME NEW row \in Row, NEW n \in Nat
  PROVE  [row EXCEPT !.cursor = n, !.fresh = TRUE] \in Row
  BY DEF Row

\* The clock leaves every field of a row alone but the one that it moves.
LEMMA ClockLeavesRow ==
  ASSUME NEW row \in Row, NEW new,
         \/ new = row
         \/ new = [row EXCEPT !.fresh = FALSE]
         \/ new = [row EXCEPT !.retryAt = "past"]
         \/ new = [row EXCEPT !.started = "past"]
  PROVE  /\ new.status = row.status /\ new.store = row.store /\ new.type = row.type
         /\ new.claimedBy = row.claimedBy /\ new.attempts = row.attempts
         /\ new.cursor = row.cursor /\ new.skipped = row.skipped
  <1>1. CASE new = row
    BY <1>1
  <1>2. CASE new = [row EXCEPT !.fresh = FALSE]
    BY <1>2 DEF Row
  <1>3. CASE new = [row EXCEPT !.retryAt = "past"]
    BY <1>3 DEF Row
  <1>4. CASE new = [row EXCEPT !.started = "past"]
    BY <1>4 DEF Row
  <1>5. QED
    BY <1>1, <1>2, <1>3, <1>4

LEMMA ClockStep ==
  ASSUME TypeOK, NEW q \in Rows, AgeClaim(q) \/ BackoffElapses(q) \/ StartTimeArrives(q),
         NEW r \in Rows
  PROVE  /\ log'[r].status = log[r].status /\ log'[r].store = log[r].store
         /\ log'[r].type = log[r].type /\ log'[r].claimedBy = log[r].claimedBy
         /\ log'[r].attempts = log[r].attempts /\ log'[r].cursor = log[r].cursor
         /\ log'[r].skipped = log[r].skipped
         /\ lease' = lease /\ pages' = pages
  <1>1. log[r] \in Row
    BY RowTypes
  <1>2. \/ log'[r] = log[r]
        \/ log'[r] = [log[r] EXCEPT !.fresh = FALSE]
        \/ log'[r] = [log[r] EXCEPT !.retryAt = "past"]
        \/ log'[r] = [log[r] EXCEPT !.started = "past"]
    <2>1. CASE AgeClaim(q)
      BY <2>1 DEF AgeClaim, TypeOK
    <2>2. CASE BackoffElapses(q)
      BY <2>2 DEF BackoffElapses, TypeOK
    <2>3. CASE StartTimeArrives(q)
      BY <2>3 DEF StartTimeArrives, TypeOK
    <2>4. QED
      BY <2>1, <2>2, <2>3
  <1>3. lease' = lease /\ pages' = pages
    BY DEF AgeClaim, BackoffElapses, StartTimeArrives
  <1>4. QED
    BY <1>1, <1>2, <1>3, ClockLeavesRow

\* The sweep fails a row or hands it back, and moves neither its slot nor
\* its cursor.
LEMMA SweptRowIs ==
  ASSUME NEW r \in Rows, log[r] \in Row
  PROVE  /\ SweptRow(r).store = log[r].store /\ SweptRow(r).type = log[r].type
         /\ SweptRow(r).cursor = log[r].cursor /\ SweptRow(r).skipped = log[r].skipped
         /\ SweptRow(r).status = "COMPLETED" => log[r].status = "COMPLETED"
         /\ SweptRow(r).status = "UNUSED" => log[r].status = "UNUSED"
         /\ SweptRow(r).status \in Active => log[r].status \in Active
  <1>1. CASE SweptToFailed(r)
    <2>1. SweptRow(r) = [log[r] EXCEPT !.status = "FAILED", !.claimedBy = NoOne]
      BY <1>1 DEF SweptRow
    <2>2. QED
      BY <2>1 DEF Row, Active
  <1>2. CASE ~SweptToFailed(r) /\ SweptToPending(r)
    <2>1. SweptRow(r) = [log[r] EXCEPT !.status = "PENDING", !.claimedBy = NoOne]
      BY <1>2 DEF SweptRow, RequeuedRow
    <2>2. log[r].status \in Active
      BY <1>2 DEF SweptToPending, Stale, Active
    <2>3. QED
      BY <2>1, <2>2 DEF Row
  <1>3. CASE ~SweptToFailed(r) /\ ~SweptToPending(r)
    <2>1. SweptRow(r) = log[r]
      BY <1>3 DEF SweptRow
    <2>2. QED
      BY <2>1
  <1>4. QED
    BY <1>1, <1>2, <1>3

LEMMA TypeInit == Init => TypeOK
  BY UnusedRowType, IdleType DEF Init, TypeOK

LEMMA TypeStep ==
  ASSUME TypeOK, [Next]_vars
  PROVE  TypeOK'
  <1>1. ASSUME NEW r \in Rows, NEW s \in Stores, NEW ty \in SyncTypes,
               NEW started \in {"future", "past"}, Insert(r, s, ty, started)
        PROVE  TypeOK'
    <2>1. [log[r] EXCEPT !.status = "PENDING", !.store = s, !.type = ty,
                         !.started = started] \in Row
      BY RowTypes DEF Row, Statuses, Active
    <2>2. log' \in [Rows -> Row]
      BY <1>1, <2>1 DEF Insert, TypeOK
    <2>3. QED
      BY <1>1, <2>2 DEF Insert, TypeOK
  <1>2. ASSUME NEW t \in Tasks, NEW r \in Rows, Claim(t, r)
        PROVE  TypeOK'
    <2>1. WorkerOf(t) \in Workers
      BY TaskTypes
    <2>2. log[r] \in Row
      BY DEF TypeOK
    <2>3. [log[r] EXCEPT !.status = "RUNNING", !.claimedBy = WorkerOf(t),
                         !.attempts = log[r].attempts + 1, !.fresh = TRUE] \in Row
      <3>1. log[r].attempts + 1 \in Nat
        BY <2>2 DEF Row
      <3>2. QED
        BY <2>1, <2>2, <3>1, ClaimedRowType
    <2>4. log' \in [Rows -> Row]
      BY <1>2, <2>3 DEF Claim, TypeOK
    <2>5. [pc |-> "loop", row |-> r, cursor |-> log[r].cursor,
           attempt |-> log[r].attempts + 1] \in Task
      BY <2>2 DEF Task, Row
    <2>6. task' \in [Tasks -> Task]
      BY <1>2, <2>5 DEF Claim, TypeOK
    <2>7. lease' \in [Rows -> Tasks \cup {NoOne}]
      BY <1>2 DEF Claim, TypeOK
    <2>8. QED
      BY <1>2, <2>4, <2>6, <2>7 DEF Claim, TypeOK
  <1>3. ASSUME NEW t \in Tasks, TaskStep(t)
        PROVE  TypeOK'
    <2>0. /\ task[t] \in Task /\ task[t].row \in Rows /\ Job(t) \in Row
          /\ task[t].cursor \in Nat
          /\ NextPage(t) \in Nat
      BY TaskTypes DEF Task, NextPage
    <2> USE <2>0
    <2>1. CASE StartChunk(t)
      <3>1. task' \in [Tasks -> Task]
        BY <2>1 DEF StartChunk, TypeOK, Task
      <3>2. QED
        BY <2>1, <3>1 DEF StartChunk, TypeOK
    <2>2. CASE ReleaseToPending(t)
      BY <2>2, EndRowTypes, FencedEndType DEF ReleaseToPending
    <2>3. CASE Heartbeat(t)
      <3>1. [Job(t) EXCEPT !.fresh = TRUE] \in Row
        BY DEF Row
      <3>2. log' \in [Rows -> Row]
        BY <2>3, <3>1 DEF Heartbeat, TypeOK, Job
      <3>3. QED
        BY <2>3, <3>2 DEF Heartbeat, TypeOK
    <2>4. CASE Tick(t)
      <3>1. [Job(t) EXCEPT !.cursor = NextPage(t), !.fresh = TRUE] \in Row
        BY TickedRowType
      <3>2. log' \in [Rows -> Row]
        BY <2>4, <3>1 DEF Tick, TypeOK, Job
      <3>3. [task[t] EXCEPT !.pc = "loop", !.cursor = NextPage(t)] \in Task
        BY DEF Task
      <3>4. task' \in [Tasks -> Task]
        BY <2>4, <3>3 DEF Tick, TypeOK
      <3>5. QED
        BY <2>4, <3>2, <3>4 DEF Tick, TypeOK
    <2>5. CASE Complete(t)
      BY <2>5, EndRowTypes, FencedEndType DEF Complete
    <2>6. CASE SkipBadPage(t)
      BY <2>6, EndRowTypes, FencedEndType DEF SkipBadPage
    <2>7. CASE NoPageToSkipTo(t)
      BY <2>7, EndRowTypes, FencedEndType DEF NoPageToSkipTo
    <2>8. CASE ChunkWork(t)
      <3>1. task' \in [Tasks -> Task]
        BY <2>8 DEF ChunkWork, TypeOK, Task
      <3>2. pages' \in [Rows -> SUBSET Nat]
        BY <2>8 DEF ChunkWork, TypeOK, Task
      <3>3. QED
        BY <2>8, <3>1, <3>2 DEF ChunkWork, TypeOK
    <2>9. CASE PermanentFailure(t) \/ GiveUp(t)
      BY <2>9, EndRowTypes, FencedEndType DEF PermanentFailure, GiveUp
    <2>10. CASE MarkRetryable(t)
      BY <2>10, EndRowTypes, FencedEndType DEF MarkRetryable
    <2>11. CASE ReadBadPage(t)
      <3>1. Job(t).cursor \in Nat
        BY DEF Row
      <3>2. task' \in [Tasks -> Task]
        BY <2>11, <3>1 DEF ReadBadPage, TypeOK, Task
      <3>3. QED
        BY <2>11, <3>2 DEF ReadBadPage, TypeOK
    <2>12. CASE ErrorWriteFails(t) \/ LoseLease(t)
      BY <2>12, IdleType DEF ErrorWriteFails, LoseLease, Settle, TypeOK
    <2>13. QED
      BY <1>3, <2>1, <2>2, <2>3, <2>4, <2>5, <2>6, <2>7, <2>8, <2>9, <2>10, <2>11, <2>12
         DEF TaskStep, ChunkEnds
  <1>4. CASE Sweep
    <2>1. ASSUME NEW r \in Rows PROVE SweptRow(r) \in Row
      <3>1. log[r] \in Row
        BY DEF TypeOK
      <3>2. QED
        BY <3>1 DEF SweptRow, RequeuedRow, Row, Statuses, Active, Terminal
    <2>2. log' \in [Rows -> Row]
      BY <1>4, <2>1 DEF Sweep
    <2>3. lease' \in [Rows -> Tasks \cup {NoOne}]
      BY <1>4 DEF Sweep, TypeOK
    <2>4. QED
      BY <1>4, <2>2, <2>3 DEF Sweep, TypeOK
  <1>5. ASSUME NEW r \in Rows, AgeClaim(r) \/ BackoffElapses(r) \/ StartTimeArrives(r)
        PROVE  TypeOK'
    <2>1. /\ [log[r] EXCEPT !.fresh = FALSE] \in Row
          /\ [log[r] EXCEPT !.retryAt = "past"] \in Row
          /\ [log[r] EXCEPT !.started = "past"] \in Row
      BY RowTypes DEF Row
    <2>2. log' \in [Rows -> Row]
      BY <1>5, <2>1 DEF AgeClaim, BackoffElapses, StartTimeArrives, TypeOK
    <2>3. QED
      BY <1>5, <2>2 DEF AgeClaim, BackoffElapses, StartTimeArrives, TypeOK
  <1>6. ASSUME NEW w \in Workers, Boot(w) \/ SigTerm(w) \/ Drained(w) \/ Crash(w)
        PROVE  TypeOK'
    <2>1. task' \in [Tasks -> Task]
      BY <1>6, IdleType DEF Boot, SigTerm, Drained, Crash, TypeOK
    <2>2. QED
      BY <1>6, <2>1 DEF Boot, SigTerm, Drained, Crash, TypeOK
  <1>7. ASSUME NEW s \in Stores, DisconnectStore(s)
        PROVE  TypeOK'
    <2>1. ASSUME NEW r \in Rows PROVE [log[r] EXCEPT !.status = "DELETED"] \in Row
      BY RowTypes DEF Row, Statuses
    <2>2. log' \in [Rows -> Row] /\ lease' \in [Rows -> Tasks \cup {NoOne}]
      BY <1>7, <2>1, RowTypes DEF DisconnectStore, TypeOK
    <2>3. QED
      BY <1>7, <2>2 DEF DisconnectStore, TypeOK
  <1>8. CASE UNCHANGED vars
    BY <1>8 DEF vars, TypeOK
  <1>9. QED
    BY <1>1, <1>2, <1>3, <1>4, <1>5, <1>6, <1>7, <1>8
       DEF Next, AcquireSlot, CronFanOut

(* All variables keep their types: rows, tasks, processes and histories.   *)
THEOREM TypeCorrect == Spec => []TypeOK
  <1>1. QED
    BY TypeInit, TypeStep, PTL DEF Spec

(***************************************************************************)
(* One active run per slot.  Only an insert makes a row active, and no     *)
(* step moves an active row to another slot.                               *)
(***************************************************************************)
KeepsSlots ==
  \A r \in Rows : log'[r].status \in Active =>
    /\ log[r].status \in Active
    /\ log'[r].store = log[r].store
    /\ log'[r].type = log[r].type

LEMMA FencedEndKeepsSlots ==
  ASSUME TypeOK, NEW t \in Tasks, NEW row \in Row, FencedEnd(t, row),
         row.store = Job(t).store, row.type = Job(t).type
  PROVE  KeepsSlots
  <1>1. task[t].row \in Rows /\ Job(t).status = "RUNNING"
    BY TaskTypes DEF FencedEnd, Fenced
  <1>2. QED
    BY <1>1 DEF FencedEnd, KeepsSlots, TypeOK, Job, Active

LEMMA EndRowSlots ==
  ASSUME TypeOK, NEW t \in Tasks,
         NEW row \in {[Job(t) EXCEPT !.status = "PENDING", !.claimedBy = NoOne, !.attempts = 0],
                      [Job(t) EXCEPT !.status = "COMPLETED"],
                      FailedRow(t),
                      [Job(t) EXCEPT !.status = "FAILED_RETRYABLE", !.claimedBy = NoOne,
                                     !.retryAt = "future"],
                      [Job(t) EXCEPT !.status = "PENDING", !.attempts = 0, !.cursor = NextPage(t),
                                     !.skipped = @ \cup {task[t].cursor},
                                     !.claimedBy = NoOne, !.retryAt = "null"]},
         FencedEnd(t, row)
  PROVE  KeepsSlots
  <1>1. Job(t) \in Row
    BY TaskTypes
  <1>2. row \in Row
    BY EndRowTypes
  <1>3. row.store = Job(t).store /\ row.type = Job(t).type
    BY <1>1 DEF FailedRow, Row
  <1>4. QED
    BY <1>2, <1>3, FencedEndKeepsSlots

LEMMA SlotStep ==
  ASSUME TypeOK, [Next]_vars
  PROVE  \/ \E r \in Rows, s \in Stores, ty \in SyncTypes, started \in {"future", "past"} :
              Insert(r, s, ty, started)
         \/ KeepsSlots
  <1>1. CASE \E t \in Tasks, r \in Rows : Claim(t, r)
    BY <1>1 DEF Claim, Claimable, KeepsSlots, TypeOK, Row, Active
  <1>2. ASSUME NEW t \in Tasks, TaskStep(t)
        PROVE  KeepsSlots
    <2>1. task[t].row \in Rows
      BY TaskTypes
    <2>2. CASE StartChunk(t) \/ ChunkWork(t) \/ ReadBadPage(t) \/ ErrorWriteFails(t) \/ LoseLease(t)
      BY <2>2 DEF StartChunk, ChunkWork, ReadBadPage, ErrorWriteFails, LoseLease, KeepsSlots
    <2>3. CASE Heartbeat(t) \/ Tick(t)
      <3>1. Fenced(t) /\ \A q \in Rows : q # task[t].row => log'[q] = log[q]
        BY <2>1, <2>3 DEF Heartbeat, Tick, TypeOK
      <3>2. Job(t) \in Row
        BY TaskTypes
      <3>3. /\ log'[task[t].row].store = Job(t).store
            /\ log'[task[t].row].type = Job(t).type
        <4>1. \/ log'[task[t].row] = [Job(t) EXCEPT !.fresh = TRUE]
              \/ log'[task[t].row] = [Job(t) EXCEPT !.cursor = NextPage(t), !.fresh = TRUE]
          BY <2>1, <2>3 DEF Heartbeat, Tick, TypeOK, Job
        <4>2. QED
          BY <4>1, <3>2 DEF Row
      <3>4. QED
        BY <3>1, <3>3 DEF KeepsSlots, Fenced, Job, Active
    <2>4. CASE ReleaseToPending(t)
      BY <2>4, EndRowSlots DEF ReleaseToPending
    <2>5. CASE Complete(t)
      BY <2>5, EndRowSlots DEF Complete
    <2>6. CASE SkipBadPage(t)
      BY <2>6, EndRowSlots DEF SkipBadPage
    <2>7. CASE NoPageToSkipTo(t) \/ PermanentFailure(t) \/ GiveUp(t)
      BY <2>7, EndRowSlots DEF NoPageToSkipTo, PermanentFailure, GiveUp
    <2>8. CASE MarkRetryable(t)
      BY <2>8, EndRowSlots DEF MarkRetryable
    <2>9. QED
      BY <1>2, <2>2, <2>3, <2>4, <2>5, <2>6, <2>7, <2>8 DEF TaskStep, ChunkEnds
  <1>3. CASE Sweep
    <2>1. \A r \in Rows : log[r] \in Row /\ log'[r] = SweptRow(r)
      BY <1>3, RowTypes DEF Sweep
    <2>2. QED
      BY <2>1, SweptRowIs DEF KeepsSlots
  <1>4. CASE \E r \in Rows : AgeClaim(r) \/ BackoffElapses(r) \/ StartTimeArrives(r)
    BY <1>4, ClockStep DEF KeepsSlots
  <1>5. CASE \E w \in Workers : Boot(w) \/ SigTerm(w) \/ Drained(w) \/ Crash(w)
    BY <1>5 DEF Boot, SigTerm, Drained, Crash, KeepsSlots
  <1>6. CASE \E s \in Stores : DisconnectStore(s)
    BY <1>6, RowTypes DEF DisconnectStore, KeepsSlots, Row, Active
  <1>7. CASE UNCHANGED vars
    BY <1>7 DEF vars, KeepsSlots
  <1>8. QED
    BY <1>1, <1>2, <1>3, <1>4, <1>5, <1>6, <1>7 DEF Next, AcquireSlot, CronFanOut

(* At most one run per store and sync type is active, for any number of    *)
(* rows, workers and tasks, whatever is retried, released or swept.        *)
THEOREM OneRunPerSlot == Spec => []OneActivePerSlot
  <1>1. Init => OneActivePerSlot
    BY DEF Init, OneActivePerSlot, UnusedRow, Active
  <1>2. ASSUME TypeOK, OneActivePerSlot, [Next]_vars
        PROVE  OneActivePerSlot'
    <2>1. ASSUME NEW r \in Rows, NEW s \in Stores, NEW ty \in SyncTypes,
                 NEW started \in {"future", "past"}, Insert(r, s, ty, started)
          PROVE  OneActivePerSlot'
      <3>1. /\ log'[r].store = s /\ log'[r].type = ty
            /\ \A q \in Rows : q # r => log'[q] = log[q]
            /\ \A q \in Rows : ~(log[q].store = s /\ log[q].type = ty /\ log[q].status \in Active)
        BY <1>2, <2>1, RowTypes DEF Insert, TypeOK, Row, SlotFree
      <3>2. QED
        BY <1>2, <3>1 DEF OneActivePerSlot
    <2>2. CASE KeepsSlots
      BY <1>2, <2>2 DEF KeepsSlots, OneActivePerSlot
    <2>3. QED
      BY <1>2, <2>1, <2>2, SlotStep
  <1>3. QED
    BY <1>1, <1>2, TypeCorrect, PTL DEF Spec

(***************************************************************************)
(* What a step does to one row and to one task.                            *)
(***************************************************************************)
Grows(r) ==
  /\ pages[r] \subseteq pages'[r]
  /\ log[r].skipped \subseteq log'[r].skipped
  /\ log'[r].status = "UNUSED" => log[r].status = "UNUSED"

KeepsCover(r) ==
  /\ log'[r].cursor = log[r].cursor
  /\ log'[r].status = "COMPLETED" =>
       log[r].status = "COMPLETED" /\ log'[r].type = log[r].type

Advances(t, r) ==
  task[t].row = r /\ (Tick(t) \/ Complete(t) \/ SkipBadPage(t))

\* A fenced end of a run that neither completes it nor moves its cursor.
LEMMA FencedEndKeepsCover ==
  ASSUME TypeOK, NEW t \in Tasks, NEW row \in Row, FencedEnd(t, row),
         row.cursor = Job(t).cursor, row.skipped = Job(t).skipped,
         row.status \notin {"COMPLETED", "UNUSED"}, NEW r \in Rows
  PROVE  Grows(r) /\ KeepsCover(r)
  <1>1. task[t].row \in Rows
    BY TaskTypes
  <1>2. CASE r = task[t].row
    BY <1>1, <1>2 DEF FencedEnd, Grows, KeepsCover, TypeOK, Job
  <1>3. CASE r # task[t].row
    BY <1>1, <1>3 DEF FencedEnd, Grows, KeepsCover, TypeOK
  <1>4. QED
    BY <1>2, <1>3

LEMMA RowStep ==
  ASSUME TypeOK, [Next]_vars, NEW r \in Rows
  PROVE  \/ Grows(r) /\ KeepsCover(r)
         \/ \E t \in Tasks : Advances(t, r)
  <1> USE RowTypes
  <1>1. ASSUME NEW q \in Rows, NEW s \in Stores, NEW ty \in SyncTypes,
               NEW started \in {"future", "past"}, Insert(q, s, ty, started)
        PROVE  Grows(r) /\ KeepsCover(r)
    <2>1. log'[r] = log[r] \/ log'[r] = [log[r] EXCEPT !.status = "PENDING", !.store = s,
                                                       !.type = ty, !.started = started]
      BY <1>1 DEF Insert, TypeOK
    <2>2. QED
      BY <1>1, <2>1 DEF Insert, Grows, KeepsCover, Row
  <1>2. ASSUME NEW t \in Tasks, NEW q \in Rows, Claim(t, q)
        PROVE  Grows(r) /\ KeepsCover(r)
    <2>1. \/ log'[r] = log[r]
          \/ log'[r] = [log[r] EXCEPT !.status = "RUNNING", !.claimedBy = WorkerOf(t),
                                      !.attempts = log[r].attempts + 1, !.fresh = TRUE]
      BY <1>2 DEF Claim, TypeOK
    <2>2. QED
      BY <1>2, <2>1 DEF Claim, Grows, KeepsCover, Row
  <1>3. ASSUME NEW t \in Tasks, TaskStep(t)
        PROVE  \/ Grows(r) /\ KeepsCover(r)
               \/ Advances(t, r)
    <2>1. task[t].row \in Rows /\ Job(t) \in Row
      BY TaskTypes
    <2>2. CASE StartChunk(t) \/ ReadBadPage(t) \/ ErrorWriteFails(t) \/ LoseLease(t)
      BY <2>2 DEF StartChunk, ReadBadPage, ErrorWriteFails, LoseLease, Grows, KeepsCover
    <2>3. CASE ChunkWork(t)
      BY <2>1, <2>3 DEF ChunkWork, Grows, KeepsCover, TypeOK
    <2>4. CASE Heartbeat(t)
      <3>1. log'[r] = log[r] \/ log'[r] = [log[r] EXCEPT !.fresh = TRUE]
        BY <2>4, <2>1 DEF Heartbeat, TypeOK
      <3>2. QED
        BY <2>4, <3>1 DEF Heartbeat, Grows, KeepsCover, Row
    <2>5. CASE ReleaseToPending(t)
      <3>1. [Job(t) EXCEPT !.status = "PENDING", !.claimedBy = NoOne, !.attempts = 0] \in Row
        BY EndRowTypes
      <3>2. QED
        BY <2>1, <2>5, <3>1, FencedEndKeepsCover DEF ReleaseToPending, Row
    <2>6. CASE NoPageToSkipTo(t) \/ PermanentFailure(t) \/ GiveUp(t)
      <3>1. FailedRow(t) \in Row /\ FencedEnd(t, FailedRow(t))
        BY <2>6, EndRowTypes DEF NoPageToSkipTo, PermanentFailure, GiveUp
      <3>2. /\ FailedRow(t).cursor = Job(t).cursor /\ FailedRow(t).skipped = Job(t).skipped
            /\ FailedRow(t).status = "FAILED"
        BY <2>1 DEF FailedRow, Row
      <3>3. QED
        BY <3>1, <3>2, FencedEndKeepsCover
    <2>7. CASE MarkRetryable(t)
      <3>1. [Job(t) EXCEPT !.status = "FAILED_RETRYABLE", !.claimedBy = NoOne,
                           !.retryAt = "future"] \in Row
        BY EndRowTypes
      <3>2. QED
        BY <2>1, <2>7, <3>1, FencedEndKeepsCover DEF MarkRetryable, Row
    <2>8. CASE Tick(t) \/ Complete(t) \/ SkipBadPage(t)
      <3>1. CASE r = task[t].row
        BY <2>8, <3>1 DEF Advances
      <3>2. CASE r # task[t].row
        BY <2>1, <2>8, <3>2 DEF Tick, Complete, SkipBadPage, FencedEnd, Grows, KeepsCover, TypeOK
      <3>3. QED
        BY <3>1, <3>2
    <2>9. QED
      BY <1>3, <2>2, <2>3, <2>4, <2>5, <2>6, <2>7, <2>8 DEF TaskStep, ChunkEnds
  <1>4. CASE Sweep
    <2>1. log'[r] = SweptRow(r) /\ log[r] \in Row /\ pages' = pages
      BY <1>4 DEF Sweep
    <2>2. QED
      BY <2>1, SweptRowIs DEF Grows, KeepsCover
  <1>5. ASSUME NEW q \in Rows, AgeClaim(q) \/ BackoffElapses(q) \/ StartTimeArrives(q)
        PROVE  Grows(r) /\ KeepsCover(r)
    BY <1>5, ClockStep DEF Grows, KeepsCover
  <1>6. CASE \E w \in Workers : Boot(w) \/ SigTerm(w) \/ Drained(w) \/ Crash(w)
    BY <1>6 DEF Boot, SigTerm, Drained, Crash, Grows, KeepsCover
  <1>7. ASSUME NEW s \in Stores, DisconnectStore(s)
        PROVE  Grows(r) /\ KeepsCover(r)
    <2>1. \/ log'[r] = log[r]
          \/ log'[r] = [log[r] EXCEPT !.status = "DELETED"]
      BY <1>7 DEF DisconnectStore
    <2>2. QED
      BY <1>7, <2>1 DEF DisconnectStore, Grows, KeepsCover, Row
  <1>8. CASE UNCHANGED vars
    BY <1>8 DEF vars, Grows, KeepsCover
  <1>9. QED
    BY <1>1, <1>2, <1>3, <1>4, <1>5, <1>6, <1>7, <1>8 DEF Next, AcquireSlot, CronFanOut

\* What one step of a task leaves of a task that stays busy.
LEMMA TaskMoves ==
  ASSUME TypeOK, [Next]_vars, NEW t \in Tasks
  PROVE  \/ task'[t] = task[t]
         \/ task'[t].pc = "idle"
         \/ \E r \in Rows : Claim(t, r)
         \/ StartChunk(t) \/ ChunkWork(t) \/ Tick(t) \/ ReadBadPage(t)
  <1>1. ASSUME NEW u \in Tasks, NEW r \in Rows, Claim(u, r)
        PROVE  task'[t] = task[t] \/ Claim(t, r)
    BY <1>1 DEF Claim, TypeOK
  <1>2. ASSUME NEW u \in Tasks, TaskStep(u), u # t
        PROVE  task'[t] = task[t]
    BY <1>2 DEF TaskStep, ChunkEnds, StartChunk, ReleaseToPending, Heartbeat, Tick, Complete,
                SkipBadPage, NoPageToSkipTo, ChunkWork, PermanentFailure, MarkRetryable, GiveUp,
                ReadBadPage, ErrorWriteFails, LoseLease, FencedEnd, Settle, TypeOK
  <1>3. CASE TaskStep(t)
    <2>1. CASE \/ ReleaseToPending(t) \/ Complete(t) \/ SkipBadPage(t) \/ NoPageToSkipTo(t)
               \/ PermanentFailure(t) \/ MarkRetryable(t) \/ GiveUp(t) \/ ErrorWriteFails(t)
               \/ LoseLease(t)
      <3>1. Settle(t)
        BY <2>1 DEF ReleaseToPending, Complete, SkipBadPage, NoPageToSkipTo, PermanentFailure,
                    MarkRetryable, GiveUp, ErrorWriteFails, LoseLease, FencedEnd
      <3>2. QED
        BY <3>1 DEF Settle, Idle, TypeOK
    <2>2. CASE Heartbeat(t)
      BY <2>2 DEF Heartbeat
    <2>3. QED
      BY <1>3, <2>1, <2>2 DEF TaskStep, ChunkEnds
  <1>4. CASE \/ Sweep
             \/ \E r \in Rows : AgeClaim(r) \/ BackoffElapses(r) \/ StartTimeArrives(r)
             \/ \E s \in Stores : DisconnectStore(s)
             \/ \E r \in Rows, s \in Stores, ty \in SyncTypes :
                  AcquireSlot(r, s, ty) \/ CronFanOut(r, s, ty)
             \/ UNCHANGED vars
    BY <1>4 DEF Sweep, AgeClaim, BackoffElapses, StartTimeArrives, DisconnectStore,
                AcquireSlot, CronFanOut, Insert, vars
  <1>5. ASSUME NEW w \in Workers, Boot(w) \/ SigTerm(w) \/ Drained(w) \/ Crash(w)
        PROVE  task'[t] = task[t] \/ task'[t].pc = "idle"
    BY <1>5 DEF Boot, SigTerm, Drained, Crash, Idle
  <1>6. QED
    BY <1>1, <1>2, <1>3, <1>4, <1>5 DEF Next

(***************************************************************************)
(* Coverage.  Every page below a persisted cursor, and below the cursor a  *)
(* task carries, was stored or skipped; the page a task is about to tick   *)
(* past was stored.  No lease is needed for this: pages and skips are only *)
(* ever added.                                                             *)
(***************************************************************************)
Covered(r) == pages[r] \cup log[r].skipped

TaskCovered(t) ==
  Busy(t) => /\ log[task[t].row].status # "UNUSED"
             /\ \A p \in 0..(task[t].cursor - 1) : p \in Covered(task[t].row)
             /\ task[t].pc = "write" => task[t].cursor \in pages[task[t].row]

CoverInv ==
  /\ CompletedCoversScan
  /\ CursorIsCovered
  /\ \A t \in Tasks : TaskCovered(t)

LEMMA CoverGrows ==
  ASSUME TypeOK, [Next]_vars, NEW r \in Rows
  PROVE  Grows(r)
  <1>1. ASSUME NEW t \in Tasks, Advances(t, r)
        PROVE  Grows(r)
    <2>1. task[t].row = r /\ log[r] \in Row
      BY <1>1, RowTypes DEF Advances
    <2>2. CASE Tick(t)
      <3>1. log'[r] = [log[r] EXCEPT !.cursor = NextPage(t), !.fresh = TRUE] /\ pages' = pages
        BY <2>1, <2>2 DEF Tick, TypeOK
      <3>2. QED
        BY <2>1, <3>1 DEF Grows, Row
    <2>3. CASE Complete(t)
      <3>1. log'[r] = [log[r] EXCEPT !.status = "COMPLETED"] /\ pages' = pages
        BY <2>1, <2>3 DEF Complete, FencedEnd, Job, TypeOK
      <3>2. QED
        BY <2>1, <3>1 DEF Grows, Row
    <2>4. CASE SkipBadPage(t)
      <3>1. /\ log'[r] = [log[r] EXCEPT !.status = "PENDING", !.attempts = 0,
                                        !.cursor = NextPage(t),
                                        !.skipped = log[r].skipped \cup {task[t].cursor},
                                        !.claimedBy = NoOne, !.retryAt = "null"]
            /\ pages' = pages
        BY <2>1, <2>4 DEF SkipBadPage, FencedEnd, Job, TypeOK
      <3>2. QED
        BY <2>1, <3>1 DEF Grows, Row
    <2>5. QED
      BY <1>1, <2>2, <2>3, <2>4 DEF Advances
  <1>2. QED
    BY <1>1, RowStep

LEMMA AdvanceCovers ==
  ASSUME TypeOK, CoverInv, NEW t \in Tasks, NEW r \in Rows, Advances(t, r)
  PROVE  /\ \A p \in 0..(log'[r].cursor - 1) : p \in pages'[r] \cup log'[r].skipped
         /\ log'[r].status = "COMPLETED" =>
              \A p \in 0..(PageCount[log'[r].type] - 1) : p \in pages'[r] \cup log'[r].skipped
  <1>1. /\ task[t].row = r /\ log[r] \in Row /\ task[t].cursor \in Nat
        /\ \A p \in 0..(log[r].cursor - 1) : p \in Covered(r)
    BY TaskTypes DEF Advances, CoverInv, CursorIsCovered, Covered, Task, TypeOK
  <1>2. Busy(t)
    BY DEF Advances, Busy, Tick, Complete, SkipBadPage
  <1>3. \A p \in 0..(task[t].cursor - 1) : p \in Covered(r)
    BY <1>1, <1>2 DEF CoverInv, TaskCovered
  <1>4. CASE Tick(t)
    <2>1. /\ log'[r] = [log[r] EXCEPT !.cursor = NextPage(t), !.fresh = TRUE]
          /\ pages' = pages /\ log[r].status = "RUNNING"
      BY <1>1, <1>4 DEF Tick, Fenced, Job, TypeOK
    <2>2. task[t].cursor \in pages[r]
      BY <1>1, <1>2, <1>4 DEF CoverInv, TaskCovered, Tick
    <2>3. /\ log'[r].cursor = task[t].cursor + 1 /\ log'[r].skipped = log[r].skipped
          /\ log'[r].status # "COMPLETED"
      BY <1>1, <2>1 DEF NextPage, Row
    <2>4. QED
      BY <1>1, <1>3, <2>1, <2>2, <2>3 DEF Covered
  <1>5. CASE Complete(t)
    <2>1. /\ log'[r] = [log[r] EXCEPT !.status = "COMPLETED"] /\ pages' = pages
          /\ task[t].cursor + 1 >= PageCount[log[r].type]
      BY <1>1, <1>5 DEF Complete, LastChunk, FencedEnd, Job, TypeOK
    <2>2. task[t].cursor \in pages[r]
      BY <1>1, <1>2, <1>5 DEF CoverInv, TaskCovered, Complete
    <2>3. /\ log'[r].cursor = log[r].cursor /\ log'[r].skipped = log[r].skipped
          /\ log'[r].type = log[r].type /\ PageCount[log[r].type] \in Nat
      BY <1>1, <2>1, PageCountAssumption DEF Row
    <2>4. QED
      BY <1>1, <1>3, <2>1, <2>2, <2>3 DEF Covered
  <1>6. CASE SkipBadPage(t)
    <2>1. /\ log'[r] = [log[r] EXCEPT !.status = "PENDING", !.attempts = 0,
                                      !.cursor = NextPage(t),
                                      !.skipped = log[r].skipped \cup {task[t].cursor},
                                      !.claimedBy = NoOne, !.retryAt = "null"]
          /\ pages' = pages
      BY <1>1, <1>6 DEF SkipBadPage, FencedEnd, Job, TypeOK
    <2>2. /\ log'[r].cursor = task[t].cursor + 1 /\ log'[r].status # "COMPLETED"
          /\ log'[r].skipped = log[r].skipped \cup {task[t].cursor}
      BY <1>1, <2>1 DEF NextPage, Row
    <2>3. QED
      BY <1>1, <1>3, <2>1, <2>2 DEF Covered
  <1>7. QED
    BY <1>4, <1>5, <1>6 DEF Advances

LEMMA TaskCoverStep ==
  ASSUME TypeOK, CoverInv, [Next]_vars, NEW t \in Tasks
  PROVE  TaskCovered(t)'
  <1>1. /\ task[t] \in Task /\ task[t].row \in Rows /\ TaskCovered(t)
        /\ \A r \in Rows : Grows(r) /\ log[r] \in Row
    BY TaskTypes, RowTypes, CoverGrows DEF CoverInv
  <1>2. CASE task'[t] = task[t]
    BY <1>1, <1>2 DEF TaskCovered, Covered, Grows, Busy
  <1>3. CASE task'[t].pc = "idle"
    BY <1>3 DEF TaskCovered, Busy
  <1>4. ASSUME NEW r \in Rows, Claim(t, r)
        PROVE  TaskCovered(t)'
    <2>1. /\ task'[t].row = r /\ task'[t].cursor = log[r].cursor /\ task'[t].pc = "loop"
          /\ log[r].status # "UNUSED"
      BY <1>4 DEF Claim, Claimable, TypeOK
    <2>2. \A p \in 0..(log[r].cursor - 1) : p \in Covered(r)
      BY DEF CoverInv, CursorIsCovered, Covered
    <2>3. QED
      BY <1>1, <2>1, <2>2 DEF TaskCovered, Covered, Grows
  <1>5. CASE StartChunk(t)
    <2>1. /\ Busy(t) /\ task'[t].row = task[t].row /\ task'[t].cursor = task[t].cursor
          /\ task'[t].pc = "chunk"
      BY <1>1, <1>5 DEF StartChunk, Busy, TypeOK, Task
    <2>2. QED
      BY <1>1, <2>1 DEF TaskCovered, Covered, Grows
  <1>6. CASE ChunkWork(t)
    <2>1. /\ Busy(t) /\ task'[t].row = task[t].row /\ task'[t].cursor = task[t].cursor
          /\ task[t].cursor \in pages'[task[t].row]
      BY <1>1, <1>6 DEF ChunkWork, Busy, TypeOK, Task
    <2>2. QED
      BY <1>1, <2>1 DEF TaskCovered, Covered, Grows
  <1>7. CASE Tick(t)
    <2>1. /\ Busy(t) /\ task'[t].row = task[t].row /\ task'[t].cursor = task[t].cursor + 1
          /\ task[t].cursor \in pages[task[t].row] /\ task'[t].pc = "loop"
      BY <1>1, <1>7 DEF Tick, NextPage, Busy, TypeOK, Task, TaskCovered
    <2>2. QED
      BY <1>1, <2>1 DEF TaskCovered, Covered, Grows, Task
  <1>8. CASE ReadBadPage(t)
    <2>1. /\ task'[t].row = task[t].row /\ task'[t].cursor = log[task[t].row].cursor
          /\ task'[t].pc = "skip" /\ Busy(t)
      BY <1>1, <1>8 DEF ReadBadPage, Job, TypeOK, Task, Busy
    <2>2. \A p \in 0..(log[task[t].row].cursor - 1) : p \in Covered(task[t].row)
      BY <1>1 DEF CoverInv, CursorIsCovered, Covered
    <2>3. QED
      BY <1>1, <2>1, <2>2 DEF TaskCovered, Covered, Grows
  <1>9. QED
    BY <1>2, <1>3, <1>4, <1>5, <1>6, <1>7, <1>8, TaskMoves

LEMMA CoverInvInit == Init => CoverInv
  <1>1. ASSUME Init
        PROVE  /\ \A r \in Rows : log[r].cursor = 0 /\ log[r].status = "UNUSED"
               /\ \A t \in Tasks : task[t].pc = "idle"
    BY <1>1 DEF Init, UnusedRow, Idle
  <1>2. 0..(0 - 1) = {}
    OBVIOUS
  <1>3. QED
    BY <1>1, <1>2 DEF CoverInv, CompletedCoversScan, CursorIsCovered, TaskCovered, Busy

LEMMA CoverInvStep == TypeOK /\ CoverInv /\ [Next]_vars => CoverInv'
  <1> SUFFICES ASSUME TypeOK, CoverInv, [Next]_vars
               PROVE  CoverInv'
    OBVIOUS
  <1>1. ASSUME NEW r \in Rows
        PROVE  /\ \A p \in 0..(log'[r].cursor - 1) : p \in pages'[r] \cup log'[r].skipped
               /\ log'[r].status = "COMPLETED" =>
                    \A p \in 0..(PageCount[log'[r].type] - 1) : p \in pages'[r] \cup log'[r].skipped
    <2>1. CASE Grows(r) /\ KeepsCover(r)
      BY <2>1 DEF CoverInv, CompletedCoversScan, CursorIsCovered, Grows, KeepsCover
    <2>2. CASE \E t \in Tasks : Advances(t, r)
      BY <2>2, AdvanceCovers
    <2>3. QED
      BY <2>1, <2>2, RowStep
  <1>2. CompletedCoversScan' /\ CursorIsCovered'
    BY <1>1 DEF CompletedCoversScan, CursorIsCovered
  <1>3. QED
    BY <1>2, TaskCoverStep DEF CoverInv

(* A run marked COMPLETED has stored or skipped every page of its scan,    *)
(* for any number of crashes, claims, sweeps, pages and tasks per process, *)
(* and so has every page below the cursor that a run would resume from.    *)
THEOREM CompletedRunsCoverTheirScan == Spec => [](CompletedCoversScan /\ CursorIsCovered)
  <1>1. CoverInv => CompletedCoversScan /\ CursorIsCovered
    BY DEF CoverInv
  <1>2. QED
    BY <1>1, CoverInvInit, CoverInvStep, TypeCorrect, PTL DEF Spec

(***************************************************************************)
(* Finished runs.                                                          *)
(***************************************************************************)
LEMMA FencedEndSparesFinished ==
  ASSUME TypeOK, NEW t \in Tasks, NEW row, FencedEnd(t, row),
         NEW r \in Rows, log[r].status \in Terminal
  PROVE  log'[r] = log[r]
  <1>1. task[t].row \in Rows /\ r # task[t].row
    BY TaskTypes DEF FencedEnd, Fenced, Job, Terminal
  <1>2. QED
    BY <1>1 DEF FencedEnd, TypeOK

(* No late tick, completion, retry, release, sweep or claim touches a run  *)
(* that has finished; only the deletion of its store does.                 *)
THEOREM FinishedRunsStay == Spec => TerminalIsFinal
  <1>1. ASSUME TypeOK, [Next]_vars, NEW r \in Rows, log[r].status \in Terminal
        PROVE  log'[r] = log[r] \/ log'[r].status = "DELETED"
    <2>1. CASE \E q \in Rows, s \in Stores, ty \in SyncTypes, started \in {"future", "past"} :
                  Insert(q, s, ty, started)
      BY <1>1, <2>1 DEF Insert, Terminal, TypeOK
    <2>2. CASE \E t \in Tasks, q \in Rows : Claim(t, q)
      BY <1>1, <2>2 DEF Claim, Claimable, Terminal, TypeOK
    <2>3. ASSUME NEW t \in Tasks, TaskStep(t)
          PROVE  log'[r] = log[r]
      <3>1. CASE StartChunk(t) \/ ChunkWork(t) \/ ReadBadPage(t) \/ ErrorWriteFails(t) \/ LoseLease(t)
        BY <3>1 DEF StartChunk, ChunkWork, ReadBadPage, ErrorWriteFails, LoseLease
      <3>2. CASE Heartbeat(t) \/ Tick(t)
        <4>1. task[t].row \in Rows /\ r # task[t].row
          BY <1>1, <3>2, TaskTypes DEF Heartbeat, Tick, Fenced, Job, Terminal
        <4>2. QED
          BY <1>1, <3>2, <4>1 DEF Heartbeat, Tick, TypeOK
      <3>3. CASE \/ ReleaseToPending(t) \/ Complete(t) \/ SkipBadPage(t) \/ NoPageToSkipTo(t)
                 \/ PermanentFailure(t) \/ MarkRetryable(t) \/ GiveUp(t)
        <4>1. \E row : FencedEnd(t, row)
          BY <3>3 DEF ReleaseToPending, Complete, SkipBadPage, NoPageToSkipTo,
                      PermanentFailure, MarkRetryable, GiveUp
        <4>2. QED
          BY <1>1, <4>1, FencedEndSparesFinished
      <3>4. QED
        BY <2>3, <3>1, <3>2, <3>3 DEF TaskStep, ChunkEnds
    <2>4. CASE Sweep
      BY <1>1, <2>4 DEF Sweep, SweptRow, SweptToFailed, SweptToPending, Stale, Terminal
    <2>5. CASE \E q \in Rows : AgeClaim(q) \/ BackoffElapses(q) \/ StartTimeArrives(q)
      BY <1>1, <2>5 DEF AgeClaim, BackoffElapses, StartTimeArrives, Terminal, TypeOK
    <2>6. CASE \E w \in Workers : Boot(w) \/ SigTerm(w) \/ Drained(w) \/ Crash(w)
      BY <2>6 DEF Boot, SigTerm, Drained, Crash
    <2>7. CASE \E s \in Stores : DisconnectStore(s)
      BY <1>1, <2>7, RowTypes DEF DisconnectStore, Row
    <2>8. CASE UNCHANGED vars
      BY <2>8 DEF vars
    <2>9. QED
      BY <1>1, <2>1, <2>2, <2>3, <2>4, <2>5, <2>6, <2>7, <2>8
         DEF Next, AcquireSlot, CronFanOut
  <1>2. ASSUME TypeOK, [Next]_vars
        PROVE  [\A r \in Rows : log[r].status \in Terminal =>
                   log'[r] = log[r] \/ log'[r].status = "DELETED"]_vars
    BY <1>1, <1>2
  <1>3. QED
    BY <1>2, TypeCorrect, PTL DEF Spec, TerminalIsFinal

(***************************************************************************)
(* Who holds a row.  A step ends the claim on a row, inserts the row,      *)
(* claims it, is a fenced write of its holder, or leaves its claim alone.  *)
(***************************************************************************)
Queued == {"PENDING", "FAILED_RETRYABLE"}

KeepsClaim(r) ==
  /\ log'[r].status = log[r].status
  /\ log'[r].claimedBy = log[r].claimedBy
  /\ log'[r].cursor = log[r].cursor
  /\ log'[r].attempts = log[r].attempts
  /\ log[r].status = "RUNNING" => lease'[r] = lease[r]

Requeues(r) ==
  /\ log'[r].status \in Queued
  /\ log'[r].claimedBy = NoOne
  /\ \/ log'[r].attempts < MaxAttempts
     \/ \E u \in Tasks : task[u].row = r /\ MarkRetryable(u) /\ log'[r].attempts = log[r].attempts

EndsClaim(r) == log'[r].status \in Terminal \cup {"DELETED"} \/ Requeues(r)

Enqueues(r) ==
  /\ log[r].status = "UNUSED"
  /\ log'[r].status = "PENDING"
  /\ log'[r].claimedBy = log[r].claimedBy
  /\ log'[r].attempts = log[r].attempts

HolderWrites(r) == \E u \in Tasks : task[u].row = r /\ (Heartbeat(u) \/ Tick(u))

LEMMA HolderStep ==
  ASSUME TypeOK, [Next]_vars, NEW r \in Rows
  PROVE  \/ EndsClaim(r) \/ Enqueues(r) \/ HolderWrites(r) \/ KeepsClaim(r)
         \/ \E u \in Tasks : Claim(u, r)
  <1> USE RowTypes
  <1>1. ASSUME NEW q \in Rows, NEW s \in Stores, NEW ty \in SyncTypes,
               NEW started \in {"future", "past"}, Insert(q, s, ty, started)
        PROVE  Enqueues(r) \/ KeepsClaim(r)
    <2>1. CASE q = r
      <3>1. log'[r] = [log[r] EXCEPT !.status = "PENDING", !.store = s, !.type = ty,
                                     !.started = started]
        BY <1>1, <2>1 DEF Insert, TypeOK
      <3>2. log[r] \in Row /\ log[r].status = "UNUSED"
        BY <1>1, <2>1 DEF Insert
      <3>3. QED
        BY <3>1, <3>2 DEF Enqueues, Row
    <2>2. CASE q # r
      BY <1>1, <2>2 DEF Insert, KeepsClaim, TypeOK
    <2>3. QED
      BY <2>1, <2>2
  <1>2. ASSUME NEW u \in Tasks, NEW q \in Rows, Claim(u, q)
        PROVE  Claim(u, r) \/ KeepsClaim(r)
    BY <1>2 DEF Claim, KeepsClaim, TypeOK
  <1>3. ASSUME NEW u \in Tasks, TaskStep(u)
        PROVE  EndsClaim(r) \/ HolderWrites(r) \/ KeepsClaim(r)
    <2>1. task[u].row \in Rows /\ Job(u) \in Row
      BY TaskTypes
    <2>2. CASE r # task[u].row
      BY <1>3, <2>1, <2>2 DEF TaskStep, ChunkEnds, StartChunk, ReleaseToPending, Heartbeat, Tick,
            Complete, SkipBadPage, NoPageToSkipTo, ChunkWork, PermanentFailure, MarkRetryable,
            GiveUp, ReadBadPage, ErrorWriteFails, LoseLease, FencedEnd, KeepsClaim, TypeOK
    <2>3. CASE r = task[u].row
      <3>1. CASE StartChunk(u) \/ ChunkWork(u) \/ ReadBadPage(u) \/ ErrorWriteFails(u) \/ LoseLease(u)
        BY <3>1 DEF StartChunk, ChunkWork, ReadBadPage, ErrorWriteFails, LoseLease, KeepsClaim
      <3>2. CASE Heartbeat(u) \/ Tick(u)
        BY <2>3, <3>2 DEF HolderWrites
      <3>3. CASE Complete(u) \/ NoPageToSkipTo(u) \/ PermanentFailure(u) \/ GiveUp(u)
        <4>1. log'[r] = [Job(u) EXCEPT !.status = "COMPLETED"] \/ log'[r] = [Job(u) EXCEPT !.status = "FAILED"]
          BY <2>1, <2>3, <3>3 DEF Complete, NoPageToSkipTo, PermanentFailure, GiveUp, FailedRow,
                                 FencedEnd, TypeOK
        <4>2. QED
          BY <2>1, <4>1 DEF EndsClaim, Terminal, Row
      <3>4. CASE ReleaseToPending(u)
        <4>1. log'[r] = [Job(u) EXCEPT !.status = "PENDING", !.claimedBy = NoOne, !.attempts = 0]
          BY <2>1, <2>3, <3>4 DEF ReleaseToPending, FencedEnd, TypeOK
        <4>2. QED
          BY <2>1, <4>1, NumbersAssumption DEF EndsClaim, Requeues, Queued, Row
      <3>5. CASE SkipBadPage(u)
        <4>1. log'[r] = [Job(u) EXCEPT !.status = "PENDING", !.attempts = 0, !.cursor = NextPage(u),
                                       !.skipped = Job(u).skipped \cup {task[u].cursor},
                                       !.claimedBy = NoOne, !.retryAt = "null"]
          BY <2>1, <2>3, <3>5 DEF SkipBadPage, FencedEnd, TypeOK
        <4>2. log'[r].status = "PENDING" /\ log'[r].claimedBy = NoOne /\ log'[r].attempts = 0
          BY <2>1, <4>1 DEF Row
        <4>3. QED
          BY <4>2, NumbersAssumption DEF EndsClaim, Requeues, Queued
      <3>6. CASE MarkRetryable(u)
        <4>1. log'[r] = [Job(u) EXCEPT !.status = "FAILED_RETRYABLE", !.claimedBy = NoOne,
                                       !.retryAt = "future"]
          BY <2>1, <2>3, <3>6 DEF MarkRetryable, FencedEnd, TypeOK
        <4>2. /\ log'[r].status = "FAILED_RETRYABLE" /\ log'[r].claimedBy = NoOne
              /\ log'[r].attempts = log[r].attempts
          BY <2>1, <2>3, <4>1 DEF Row, Job
        <4>3. QED
          BY <2>3, <3>6, <4>2 DEF EndsClaim, Requeues, Queued
      <3>7. QED
        BY <1>3, <3>1, <3>2, <3>3, <3>4, <3>5, <3>6 DEF TaskStep, ChunkEnds
    <2>4. QED
      BY <2>2, <2>3
  <1>4. CASE Sweep
    <2>1. /\ log'[r] = SweptRow(r) /\ log[r] \in Row
          /\ lease'[r] = IF SweptToFailed(r) \/ SweptToPending(r) THEN NoOne ELSE lease[r]
      BY <1>4 DEF Sweep
    <2>2. CASE SweptToFailed(r)
      BY <2>1, <2>2 DEF SweptRow, EndsClaim, Terminal, Row
    <2>3. CASE ~SweptToFailed(r) /\ SweptToPending(r)
      BY <2>1, <2>3 DEF SweptRow, SweptToPending, RequeuedRow, EndsClaim, Requeues, Queued, Row
    <2>4. CASE ~SweptToFailed(r) /\ ~SweptToPending(r)
      BY <2>1, <2>4 DEF SweptRow, KeepsClaim
    <2>5. QED
      BY <2>2, <2>3, <2>4
  <1>5. ASSUME NEW q \in Rows, AgeClaim(q) \/ BackoffElapses(q) \/ StartTimeArrives(q)
        PROVE  KeepsClaim(r)
    BY <1>5, ClockStep DEF KeepsClaim
  <1>6. CASE \E w \in Workers : Boot(w) \/ SigTerm(w) \/ Drained(w) \/ Crash(w)
    BY <1>6 DEF Boot, SigTerm, Drained, Crash, KeepsClaim
  <1>7. ASSUME NEW s \in Stores, DisconnectStore(s)
        PROVE  EndsClaim(r) \/ KeepsClaim(r)
    <2>1. CASE log[r].store = s /\ log[r].status # "UNUSED"
      BY <1>7, <2>1 DEF DisconnectStore, EndsClaim, Row
    <2>2. CASE ~(log[r].store = s /\ log[r].status # "UNUSED")
      BY <1>7, <2>2 DEF DisconnectStore, KeepsClaim
    <2>3. QED
      BY <2>1, <2>2
  <1>8. CASE UNCHANGED vars
    BY <1>8 DEF vars, KeepsClaim
  <1>9. QED
    BY <1>1, <1>2, <1>3, <1>4, <1>5, <1>6, <1>7, <1>8 DEF Next, AcquireSlot, CronFanOut

\* What a claim, a heartbeat and a tick write.
LEMMA HolderWriteEffect ==
  ASSUME TypeOK, NEW t \in Tasks, NEW r \in Rows
  PROVE  /\ Claim(t, r) =>
              /\ log'[r].status = "RUNNING" /\ log'[r].claimedBy = WorkerOf(t)
              /\ log'[r].cursor = log[r].cursor /\ log'[r].attempts = log[r].attempts + 1
              /\ lease'[r] = t /\ ~Busy(t)
              /\ task'[t].row = r /\ task'[t].cursor = log[r].cursor
              /\ task'[t].attempt = log[r].attempts + 1
         /\ (task[t].row = r /\ (Heartbeat(t) \/ Tick(t))) =>
              /\ Fenced(t) /\ Busy(t) /\ log'[r].status = "RUNNING" /\ log'[r].claimedBy = log[r].claimedBy
              /\ log'[r].attempts = log[r].attempts /\ lease'[r] = lease[r]
         /\ (task[t].row = r /\ Heartbeat(t)) => log'[r].cursor = log[r].cursor /\ task' = task
         /\ (task[t].row = r /\ Tick(t)) =>
              /\ log'[r].cursor = NextPage(t) /\ task'[t].cursor = NextPage(t)
              /\ task'[t].row = r /\ task'[t].attempt = task[t].attempt
  <1>1. log[r] \in Row /\ task[t] \in Task
    BY TaskTypes, RowTypes
  <1>2. ASSUME Claim(t, r)
        PROVE  /\ log'[r].status = "RUNNING" /\ log'[r].claimedBy = WorkerOf(t)
               /\ log'[r].cursor = log[r].cursor /\ log'[r].attempts = log[r].attempts + 1
               /\ lease'[r] = t /\ ~Busy(t)
               /\ task'[t].row = r /\ task'[t].cursor = log[r].cursor
               /\ task'[t].attempt = log[r].attempts + 1
    <2>1. log'[r] = [log[r] EXCEPT !.status = "RUNNING", !.claimedBy = WorkerOf(t),
                                   !.attempts = log[r].attempts + 1, !.fresh = TRUE]
      BY <1>2 DEF Claim, TypeOK
    <2>2. QED
      BY <1>1, <1>2, <2>1 DEF Claim, TypeOK, Row
  <1>3. ASSUME task[t].row = r, Heartbeat(t)
        PROVE  /\ Fenced(t) /\ Busy(t) /\ log'[r].status = "RUNNING" /\ log'[r].claimedBy = log[r].claimedBy
               /\ log'[r].attempts = log[r].attempts /\ lease'[r] = lease[r]
               /\ log'[r].cursor = log[r].cursor /\ task' = task
    <2>1. log'[r] = [log[r] EXCEPT !.fresh = TRUE]
      BY <1>3 DEF Heartbeat, TypeOK
    <2>2. /\ log[r].status = "RUNNING" /\ Fenced(t) /\ Busy(t)
          /\ lease' = lease /\ task' = task
      BY <1>3 DEF Heartbeat, Fenced, Busy, Job
    <2>3. /\ log'[r].status = log[r].status /\ log'[r].claimedBy = log[r].claimedBy
          /\ log'[r].attempts = log[r].attempts /\ log'[r].cursor = log[r].cursor
      BY <1>1, <2>1 DEF Row
    <2>4. QED
      BY <2>2, <2>3
  <1>4. ASSUME task[t].row = r, Tick(t)
        PROVE  /\ Fenced(t) /\ Busy(t) /\ log'[r].status = "RUNNING" /\ log'[r].claimedBy = log[r].claimedBy
               /\ log'[r].attempts = log[r].attempts /\ lease'[r] = lease[r]
               /\ log'[r].cursor = NextPage(t) /\ task'[t].cursor = NextPage(t)
               /\ task'[t].row = r /\ task'[t].attempt = task[t].attempt
    <2>1. /\ log'[r] = [log[r] EXCEPT !.cursor = NextPage(t), !.fresh = TRUE]
          /\ task'[t] = [task[t] EXCEPT !.pc = "loop", !.cursor = NextPage(t)]
      BY <1>4 DEF Tick, TypeOK
    <2>2. log[r].status = "RUNNING" /\ Fenced(t) /\ Busy(t) /\ lease' = lease
      BY <1>4 DEF Tick, Fenced, Busy, Job
    <2>3. /\ log'[r].status = log[r].status /\ log'[r].claimedBy = log[r].claimedBy
          /\ log'[r].attempts = log[r].attempts /\ log'[r].cursor = NextPage(t)
      BY <1>1, <2>1 DEF Row
    <2>4. /\ task'[t].cursor = NextPage(t) /\ task'[t].row = r
          /\ task'[t].attempt = task[t].attempt
      BY <1>1, <1>4, <2>1 DEF Task
    <2>5. QED
      BY <2>2, <2>3, <2>4
  <1>5. QED
    BY <1>2, <1>3, <1>4

(***************************************************************************)
(* Holders.  A row that was never inserted has no holder and a full        *)
(* budget; with that, HeldWhileRunning is inductive.                       *)
(***************************************************************************)
HolderInv ==
  /\ HeldWhileRunning
  /\ \A r \in Rows : log[r].status = "UNUSED" => log[r].claimedBy = NoOne /\ log[r].attempts = 0

LEMMA HolderInvStep ==
  ASSUME TypeOK, HolderInv, [Next]_vars
  PROVE  HolderInv'
  <1>1. ASSUME NEW r \in Rows
        PROVE  /\ log'[r].status \in {"PENDING", "FAILED_RETRYABLE"} => log'[r].claimedBy = NoOne
               /\ log'[r].status = "RUNNING" =>
                    /\ log'[r].claimedBy # NoOne
                    /\ lease'[r] # NoOne => WorkerOf(lease'[r]) = log'[r].claimedBy
               /\ log'[r].status = "UNUSED" => log'[r].claimedBy = NoOne /\ log'[r].attempts = 0
    <2>1. /\ log[r].status \in {"PENDING", "FAILED_RETRYABLE"} => log[r].claimedBy = NoOne
          /\ log[r].status = "RUNNING" =>
               /\ log[r].claimedBy # NoOne
               /\ lease[r] # NoOne => WorkerOf(lease[r]) = log[r].claimedBy
          /\ log[r].status = "UNUSED" => log[r].claimedBy = NoOne /\ log[r].attempts = 0
      BY DEF HolderInv, HeldWhileRunning
    <2>2. CASE EndsClaim(r)
      BY <2>2 DEF EndsClaim, Requeues, Queued, Terminal
    <2>3. CASE Enqueues(r) \/ KeepsClaim(r)
      BY <2>1, <2>3 DEF Enqueues, KeepsClaim
    <2>4. ASSUME NEW u \in Tasks, Claim(u, r)
          PROVE  /\ log'[r].status = "RUNNING" /\ log'[r].claimedBy # NoOne
                 /\ WorkerOf(lease'[r]) = log'[r].claimedBy
      BY <2>4, HolderWriteEffect, TaskTypes
    <2>5. ASSUME NEW u \in Tasks, task[u].row = r, Heartbeat(u) \/ Tick(u)
          PROVE  /\ log'[r].status = "RUNNING" /\ log'[r].claimedBy = log[r].claimedBy
                 /\ log[r].status = "RUNNING" /\ lease'[r] = lease[r]
      BY <2>5, HolderWriteEffect DEF Fenced, Job
    <2>6. QED
      BY <2>1, <2>2, <2>3, <2>4, <2>5, HolderStep DEF HolderWrites
  <1>2. QED
    BY <1>1 DEF HolderInv, HeldWhileRunning

(* Queued rows have no holder, a RUNNING row names the process whose claim *)
(* on it is the latest, for any number of processes and tasks.             *)
THEOREM RowsAreHeldWhileRunning == Spec => []HeldWhileRunning
  <1>1. Init => HolderInv
    <2>1. ASSUME Init
          PROVE  \A r \in Rows : /\ log[r].status = "UNUSED" /\ log[r].claimedBy = NoOne
                                 /\ log[r].attempts = 0
      BY <2>1 DEF Init, UnusedRow
    <2>2. QED
      BY <2>1 DEF HolderInv, HeldWhileRunning
  <1>2. HolderInv => HeldWhileRunning
    BY DEF HolderInv
  <1>3. QED
    BY <1>1, <1>2, HolderInvStep, TypeCorrect, PTL DEF Spec

(***************************************************************************)
(* The fence.  On a row that no process took a second time beside itself,  *)
(* a task that passes the fence is the latest claimer, and carries the     *)
(* row's cursor and attempt number.                                        *)
(***************************************************************************)
Holds(t) ==
  Busy(t) /\ Fenced(t) /\ task[t].row \notin doubled =>
    /\ lease[task[t].row] = t
    /\ task[t].cursor = Job(t).cursor
    /\ task[t].attempt = Job(t).attempts

FenceInv ==
  /\ HolderInv
  /\ QueuedRowsClaimable
  /\ \A t \in Tasks : Holds(t)

LEMMA DoubledStep ==
  ASSUME [Next]_vars
  PROVE  /\ doubled \subseteq doubled'
         /\ doubled' = doubled \/ \E t \in Tasks, r \in Rows : Claim(t, r)
  BY DEF Next, vars, TaskStep, ChunkEnds, AcquireSlot, CronFanOut, Insert, Claim, StartChunk,
         ReleaseToPending, Heartbeat, Tick, Complete, SkipBadPage, NoPageToSkipTo, ChunkWork,
         PermanentFailure, MarkRetryable, GiveUp, ReadBadPage, ErrorWriteFails, LoseLease,
         FencedEnd, Sweep, AgeClaim, BackoffElapses, StartTimeArrives, Boot, SigTerm, Drained,
         Crash, DisconnectStore

LEMMA HoldsStep ==
  ASSUME TypeOK, FenceInv, [Next]_vars, NEW t \in Tasks
  PROVE  Holds(t)'
  <1>1. /\ task[t] \in Task /\ task[t].row \in Rows /\ Holds(t) /\ WorkerOf(t) # NoOne
        /\ doubled \subseteq doubled'
    BY TaskTypes, DoubledStep DEF FenceInv
  <1>2. CASE task'[t] = task[t]
    <2> DEFINE r == task[t].row
    <2> SUFFICES ASSUME Busy(t), log'[r].status = "RUNNING", log'[r].claimedBy = WorkerOf(t),
                        r \notin doubled, r \notin doubled'
                 PROVE  /\ lease'[r] = t
                        /\ task[t].cursor = log'[r].cursor
                        /\ task[t].attempt = log'[r].attempts
      BY <1>1, <1>2 DEF Holds, Busy, Fenced, Job
    <2>1. CASE EndsClaim(r) \/ Enqueues(r)
      BY <2>1 DEF EndsClaim, Enqueues, Requeues, Queued, Terminal
    <2>2. CASE KeepsClaim(r)
      BY <1>1, <2>2 DEF KeepsClaim, Holds, Fenced, Job
    <2>3. ASSUME NEW u \in Tasks, Claim(u, r)
          PROVE  FALSE
      <3>1. WorkerOf(u) = WorkerOf(t)
        BY <2>3, HolderWriteEffect, <1>1
      <3>2. OwnTaskOn(u, r)
        BY <3>1 DEF OwnTaskOn
      <3> QED
        BY <2>3, <3>2 DEF Claim
    <2>4. ASSUME NEW u \in Tasks, task[u].row = r, Heartbeat(u)
          PROVE  /\ lease'[r] = t
                 /\ task[t].cursor = log'[r].cursor
                 /\ task[t].attempt = log'[r].attempts
      <3>1. /\ Fenced(u) /\ log'[r].claimedBy = log[r].claimedBy
            /\ log'[r].attempts = log[r].attempts /\ lease'[r] = lease[r]
            /\ log'[r].cursor = log[r].cursor
        BY <1>1, <2>4, HolderWriteEffect
      <3>2. Fenced(t)
        BY <2>4, <3>1 DEF Fenced, Job
      <3>3. QED
        BY <1>1, <3>1, <3>2 DEF Holds, Job
    <2>5. ASSUME NEW u \in Tasks, task[u].row = r, Tick(u)
          PROVE  FALSE
      <3>1. /\ Fenced(u) /\ Busy(u) /\ log'[r].claimedBy = log[r].claimedBy
            /\ task'[u].cursor = NextPage(u)
        BY <1>1, <2>5, HolderWriteEffect
      <3>2. Fenced(t)
        BY <2>5, <3>1 DEF Fenced, Job
      <3>3. u = t
        BY <1>1, <2>5, <3>1, <3>2 DEF FenceInv, Holds
      <3>4. QED
        BY <1>1, <1>2, <3>1, <3>3 DEF NextPage, Task
    <2>6. QED
      BY <1>1, <2>1, <2>2, <2>3, <2>4, <2>5, HolderStep DEF HolderWrites
  <1>3. CASE task'[t].pc = "idle"
    BY <1>3 DEF Holds, Busy
  <1>4. ASSUME NEW r \in Rows, Claim(t, r)
        PROVE  Holds(t)'
    BY <1>4, HolderWriteEffect DEF Holds, Job
  <1>5. CASE StartChunk(t) \/ ChunkWork(t)
    <2>1. /\ Busy(t) /\ task'[t].row = task[t].row /\ task'[t].cursor = task[t].cursor
          /\ task'[t].attempt = task[t].attempt /\ log' = log /\ lease' = lease
      BY <1>1, <1>5 DEF StartChunk, ChunkWork, Busy, TypeOK, Task
    <2>2. QED
      BY <1>1, <2>1 DEF Holds, Fenced, Job
  <1>6. CASE Tick(t)
    <2> DEFINE r == task[t].row
    <2>1. /\ Fenced(t) /\ Busy(t) /\ log'[r].attempts = log[r].attempts /\ lease'[r] = lease[r]
          /\ log'[r].cursor = NextPage(t) /\ task'[t].cursor = NextPage(t)
          /\ task'[t].row = r /\ task'[t].attempt = task[t].attempt
      BY <1>1, <1>6, HolderWriteEffect
    <2>2. QED
      BY <1>1, <2>1 DEF Holds, Job
  <1>7. CASE ReadBadPage(t)
    <2>1. /\ Busy(t) /\ task'[t].row = task[t].row /\ task'[t].cursor = Job(t).cursor
          /\ task'[t].attempt = task[t].attempt /\ log' = log /\ lease' = lease
      BY <1>1, <1>7 DEF ReadBadPage, Busy, TypeOK, Task
    <2>2. QED
      BY <1>1, <2>1 DEF Holds, Fenced, Job
  <1>8. QED
    BY <1>2, <1>3, <1>4, <1>5, <1>6, <1>7, TaskMoves

LEMMA QueuedStep ==
  ASSUME TypeOK, FenceInv, [Next]_vars
  PROVE  QueuedRowsClaimable'
  <1>1. ASSUME NEW r \in Rows \ doubled', log'[r].status \in Queued
        PROVE  log'[r].attempts < MaxAttempts
    <2>0. r \notin doubled
      BY DoubledStep
    <2>1. /\ log[r].status \in Queued => log[r].attempts < MaxAttempts
          /\ log[r].status = "UNUSED" => log[r].attempts = 0
          /\ log[r] \in Row
      BY <2>0, RowTypes DEF FenceInv, HolderInv, QueuedRowsClaimable, Queued
    <2>2. CASE EndsClaim(r)
      <3>1. CASE log'[r].attempts < MaxAttempts
        BY <3>1
      <3>2. ASSUME NEW u \in Tasks, task[u].row = r, MarkRetryable(u),
                   log'[r].attempts = log[r].attempts
            PROVE  log'[r].attempts < MaxAttempts
        <4>1. Fenced(u) /\ Busy(u) /\ ~(task[u].attempt >= MaxAttempts)
          BY <3>2 DEF MarkRetryable, FencedEnd, Throws, Busy, Exhausted
        <4>2. task[u].attempt = log[r].attempts
          BY <2>0, <3>2, <4>1 DEF FenceInv, Holds, Job
        <4>3. QED
          BY <2>1, <3>2, <4>1, <4>2, NumbersAssumption DEF Row
      <3>3. QED
        BY <1>1, <2>2, <3>1, <3>2 DEF EndsClaim, Requeues, Queued, Terminal
    <2>3. CASE Enqueues(r) \/ KeepsClaim(r)
      BY <1>1, <2>1, <2>3, NumbersAssumption DEF Enqueues, KeepsClaim
    <2>4. CASE HolderWrites(r) \/ \E u \in Tasks : Claim(u, r)
      BY <1>1, <2>4, HolderWriteEffect DEF HolderWrites, Queued
    <2>5. QED
      BY <2>2, <2>3, <2>4, HolderStep
  <1>2. QED
    BY <1>1 DEF QueuedRowsClaimable, Queued

LEMMA CursorStep ==
  ASSUME TypeOK, FenceInv, [Next]_vars, NEW r \in Rows, r \notin doubled
  PROVE  log'[r].cursor >= log[r].cursor
  <1>1. log[r] \in Row
    BY RowTypes
  <1>2. CASE KeepsCover(r)
    BY <1>1, <1>2 DEF KeepsCover, Row
  <1>3. ASSUME NEW t \in Tasks, Advances(t, r)
        PROVE  log'[r].cursor >= log[r].cursor
    <2>1. /\ task[t].row = r /\ Fenced(t) /\ Busy(t)
      BY <1>3 DEF Advances, Tick, Complete, SkipBadPage, FencedEnd, Busy
    <2>2. task[t].cursor = log[r].cursor
      BY <2>1 DEF FenceInv, Holds, Job
    <2>3. CASE Tick(t)
      BY <1>1, <2>1, <2>2, <2>3, HolderWriteEffect DEF NextPage, Row
    <2>4. CASE Complete(t)
      <3>1. log'[r] = [log[r] EXCEPT !.status = "COMPLETED"]
        BY <2>1, <2>4 DEF Complete, FencedEnd, Job, TypeOK
      <3>2. QED
        BY <1>1, <3>1 DEF Row
    <2>5. CASE SkipBadPage(t)
      <3>1. log'[r] = [log[r] EXCEPT !.status = "PENDING", !.attempts = 0, !.cursor = NextPage(t),
                                     !.skipped = log[r].skipped \cup {task[t].cursor},
                                     !.claimedBy = NoOne, !.retryAt = "null"]
        BY <2>1, <2>5 DEF SkipBadPage, FencedEnd, Job, TypeOK
      <3>2. log'[r].cursor = NextPage(t)
        BY <1>1, <3>1 DEF Row
      <3>3. QED
        BY <1>1, <2>2, <3>2 DEF NextPage, Row
    <2>6. QED
      BY <1>3, <2>3, <2>4, <2>5 DEF Advances
  <1>4. QED
    BY <1>2, <1>3, RowStep

LEMMA FenceInvInit == Init => FenceInv
  <1>1. ASSUME Init
        PROVE  /\ \A r \in Rows : /\ log[r].status = "UNUSED" /\ log[r].claimedBy = NoOne
                                   /\ log[r].attempts = 0
               /\ \A t \in Tasks : task[t].pc = "idle"
    BY <1>1 DEF Init, UnusedRow, Idle
  <1>2. QED
    BY <1>1 DEF FenceInv, HolderInv, HeldWhileRunning, QueuedRowsClaimable, Holds, Busy

(* In a pool of any size a write that passes the fence comes from the      *)
(* latest claimer and no queued row is left without attempts, on every row *)
(* that no process took a second time beside itself.                       *)
THEOREM FenceAdmitsTheClaimer == Spec => [](FenceIsTheLease /\ QueuedRowsClaimable)
  <1>1. TypeOK /\ FenceInv /\ [Next]_vars => FenceInv'
    BY HolderInvStep, QueuedStep, HoldsStep DEF FenceInv
  <1>2. FenceInv => FenceIsTheLease /\ QueuedRowsClaimable
    BY DEF FenceInv, Holds, FenceIsTheLease
  <1>3. QED
    BY <1>1, <1>2, FenceInvInit, TypeCorrect, PTL DEF Spec

(* In a pool of any size the persisted cursor only moves forward, on every *)
(* row that no process took a second time beside itself.                   *)
THEOREM CursorsAdvance == Spec => CursorOnlyAdvances
  <1>1. TypeOK /\ FenceInv /\ [Next]_vars => FenceInv'
    BY HolderInvStep, QueuedStep, HoldsStep DEF FenceInv
  <1>2. TypeOK /\ FenceInv /\ [Next]_vars =>
          [\A r \in Rows : r \in doubled \/ log'[r].cursor >= log[r].cursor]_vars
    BY CursorStep
  <1>3. QED
    BY <1>1, <1>2, FenceInvInit, TypeCorrect, PTL DEF Spec, CursorOnlyAdvances

NoneDoubled == doubled = {}

(* A process with one task never takes a row twice beside itself, and no   *)
(* cursor moves back at all.                                               *)
THEOREM SingleTaskPoolsAreSafe ==
  ASSUME PoolSize = 1
  PROVE  Spec => CursorNeverRegresses
  <1>1. ASSUME NEW t \in Tasks, NEW r \in Rows, ~Busy(t)
        PROVE  ~OwnTaskOn(t, r)
    BY <1>1 DEF OwnTaskOn, Tasks, WorkerOf
  <1>2. NoneDoubled /\ [Next]_vars => NoneDoubled'
    BY <1>1, DoubledStep DEF Claim, NoneDoubled
  <1>3. TypeOK /\ FenceInv /\ [Next]_vars => FenceInv'
    BY HolderInvStep, QueuedStep, HoldsStep DEF FenceInv
  <1>4. TypeOK /\ FenceInv /\ NoneDoubled /\ [Next]_vars =>
          [\A r \in Rows : log'[r].cursor >= log[r].cursor]_vars
    BY CursorStep DEF NoneDoubled
  <1>5. Init => NoneDoubled
    BY DEF Init, NoneDoubled
  <1>6. QED
    BY <1>2, <1>3, <1>4, <1>5, FenceInvInit, TypeCorrect, PTL DEF Spec, CursorNeverRegresses

-----------------------------------------------------------------------------
(* Nothing is stranded.                                                    *)
-----------------------------------------------------------------------------
(***************************************************************************)
(* A run that waits for a retry has a retry time, and one that was ever    *)
(* claimed has a start time in the past: the columns that the claim query  *)
(* compares are never left in a combination that no clock resolves.        *)
(***************************************************************************)
Timed(row) ==
  /\ row.status \in {"RUNNING", "FAILED_RETRYABLE"} => row.started = "past"
  /\ row.status = "FAILED_RETRYABLE" => row.retryAt # "null"

TimedInv == \A r \in Rows : Timed(log[r])

\* Somebody is at work on the run, may claim it, or may sweep it; or it waits
\* for an instant that will come.
Unstranded(r) ==
  \/ log[r].status = "RUNNING"
  \/ Claimable(r)
  \/ SweptToFailed(r)
  \/ log[r].status = "PENDING" /\ log[r].started = "future"
  \/ log[r].status = "FAILED_RETRYABLE" /\ log[r].retryAt = "future"

LEMMA TimedRows ==
  ASSUME TypeOK, TimedInv, NEW t \in Tasks
  PROVE  /\ Timed([Job(t) EXCEPT !.status = "PENDING", !.claimedBy = NoOne, !.attempts = 0])
         /\ Timed([Job(t) EXCEPT !.status = "COMPLETED"])
         /\ Timed(FailedRow(t))
         /\ Fenced(t) => Timed([Job(t) EXCEPT !.status = "FAILED_RETRYABLE", !.claimedBy = NoOne,
                                              !.retryAt = "future"])
         /\ Timed([Job(t) EXCEPT !.status = "PENDING", !.attempts = 0, !.cursor = NextPage(t),
                                 !.skipped = @ \cup {task[t].cursor},
                                 !.claimedBy = NoOne, !.retryAt = "null"])
  <1>1. Job(t) \in Row /\ Timed(Job(t))
    BY TaskTypes DEF TimedInv, Job
  <1>2. Fenced(t) => Job(t).started = "past"
    BY <1>1 DEF Fenced, Timed
  <1>3. QED
    BY <1>1, <1>2 DEF Timed, Row, FailedRow

\* A fenced write that ends the run changes its own row only.
LEMMA FencedEndTimed ==
  ASSUME TypeOK, TimedInv, NEW t \in Tasks, NEW row, FencedEnd(t, row), Timed(row)
  PROVE  TimedInv'
  <1>1. \A r \in Rows : log'[r] = log[r] \/ log'[r] = row
    BY TaskTypes DEF FencedEnd, TypeOK
  <1>2. QED
    BY <1>1 DEF TimedInv

LEMMA TimedTaskStep ==
  ASSUME TypeOK, TimedInv, NEW t \in Tasks, TaskStep(t)
  PROVE  TimedInv'
  <1>1. CASE UNCHANGED log
    BY <1>1 DEF TimedInv
  <1>2. CASE Heartbeat(t) \/ Tick(t)
    <2>1. /\ task[t].row \in Rows /\ Job(t) \in Row /\ Timed(Job(t))
      BY TaskTypes DEF TimedInv, Job
    <2>2. PICK row \in {[Job(t) EXCEPT !.fresh = TRUE],
                        [Job(t) EXCEPT !.cursor = NextPage(t), !.fresh = TRUE]} :
            \A r \in Rows : log'[r] = log[r] \/ log'[r] = row
      BY <1>2, <2>1 DEF Heartbeat, Tick, TypeOK, Job
    <2>3. Timed(row)
      <3>1. CASE row = [Job(t) EXCEPT !.fresh = TRUE]
        BY <2>1, <3>1 DEF Timed, Row
      <3>2. CASE row = [Job(t) EXCEPT !.cursor = NextPage(t), !.fresh = TRUE]
        BY <2>1, <3>2 DEF Timed, Row
      <3>3. QED
        BY <2>2, <3>1, <3>2
    <2>4. QED
      BY <2>2, <2>3 DEF TimedInv
  <1>3. CASE ReleaseToPending(t)
    BY <1>3, TimedRows, FencedEndTimed DEF ReleaseToPending
  <1>4. CASE Complete(t)
    BY <1>4, TimedRows, FencedEndTimed DEF Complete
  <1>5. CASE SkipBadPage(t)
    BY <1>5, TimedRows, FencedEndTimed DEF SkipBadPage
  <1>6. CASE NoPageToSkipTo(t) \/ PermanentFailure(t) \/ GiveUp(t)
    BY <1>6, TimedRows, FencedEndTimed DEF NoPageToSkipTo, PermanentFailure, GiveUp
  <1>7. CASE MarkRetryable(t)
    BY <1>7, TimedRows, FencedEndTimed DEF MarkRetryable, FencedEnd
  <1>8. QED
    BY <1>1, <1>2, <1>3, <1>4, <1>5, <1>6, <1>7 DEF TaskStep, ChunkEnds, StartChunk, ChunkWork,
       ReadBadPage, ErrorWriteFails, LoseLease

LEMMA TimedStep ==
  ASSUME TypeOK, TimedInv, [Next]_vars
  PROVE  TimedInv'
  <1>1. ASSUME NEW r \in Rows
        PROVE  log[r] \in Row /\ Timed(log[r])
    BY RowTypes DEF TimedInv
  <1>2. ASSUME NEW q \in Rows, NEW row, Timed(row), log' = [log EXCEPT ![q] = row]
        PROVE  TimedInv'
    BY <1>1, <1>2 DEF TimedInv, TypeOK
  <1>3. ASSUME NEW r \in Rows, NEW s \in Stores, NEW ty \in SyncTypes,
               NEW started \in {"future", "past"}, Insert(r, s, ty, started)
        PROVE  TimedInv'
    <2>1. log' = [log EXCEPT ![r] = [log[r] EXCEPT !.status = "PENDING", !.store = s,
                                                   !.type = ty, !.started = started]]
      BY <1>3 DEF Insert
    <2>2. [log[r] EXCEPT !.status = "PENDING", !.store = s, !.type = ty, !.started = started].status
            = "PENDING"
      BY <1>1 DEF Row
    <2>3. QED
      BY <1>2, <2>1, <2>2 DEF Timed
  <1>4. ASSUME NEW t \in Tasks, NEW r \in Rows, Claim(t, r)
        PROVE  TimedInv'
    <2> DEFINE row == [log[r] EXCEPT !.status = "RUNNING", !.claimedBy = WorkerOf(t),
                                     !.attempts = log[r].attempts + 1, !.fresh = TRUE]
    <2>1. log' = [log EXCEPT ![r] = row] /\ log[r].started = "past"
      BY <1>4 DEF Claim, Claimable
    <2>2. row.status = "RUNNING" /\ row.started = log[r].started
      BY <1>1 DEF Row
    <2>3. QED
      BY <1>2, <2>1, <2>2 DEF Timed
  <1>5. ASSUME NEW t \in Tasks, TaskStep(t)
        PROVE  TimedInv'
    BY <1>5, TimedTaskStep
  <1>6. CASE Sweep
    <2>1. \A r \in Rows : log'[r] = SweptRow(r)
      BY <1>6 DEF Sweep
    <2>2. ASSUME NEW r \in Rows
          PROVE  Timed(SweptRow(r))
      <3>1. \/ SweptRow(r) = log[r]
            \/ SweptRow(r) = [log[r] EXCEPT !.status = "FAILED", !.claimedBy = NoOne]
            \/ SweptRow(r) = [log[r] EXCEPT !.status = "PENDING", !.claimedBy = NoOne]
        BY DEF SweptRow, RequeuedRow
      <3>2. SweptRow(r) = log[r] \/ SweptRow(r).status \in {"FAILED", "PENDING"}
        BY <1>1, <3>1 DEF Row
      <3>3. QED
        BY <1>1, <3>2 DEF Timed
    <2>3. QED
      BY <2>1, <2>2 DEF TimedInv
  <1>7. ASSUME NEW r \in Rows, AgeClaim(r) \/ BackoffElapses(r) \/ StartTimeArrives(r)
        PROVE  TimedInv'
    <2>1. PICK row \in {[log[r] EXCEPT !.fresh = FALSE], [log[r] EXCEPT !.retryAt = "past"],
                        [log[r] EXCEPT !.started = "past"]} : log' = [log EXCEPT ![r] = row]
      BY <1>7 DEF AgeClaim, BackoffElapses, StartTimeArrives
    <2>2. row = [log[r] EXCEPT !.fresh = FALSE] => Timed(row)
      BY <1>1 DEF Timed, Row
    <2>3. row = [log[r] EXCEPT !.retryAt = "past"] => Timed(row)
      BY <1>1 DEF Timed, Row
    <2>4. row = [log[r] EXCEPT !.started = "past"] => Timed(row)
      BY <1>1 DEF Timed, Row
    <2>5. Timed(row)
      BY <2>1, <2>2, <2>3, <2>4
    <2>6. QED
      BY <1>2, <2>1, <2>5
  <1>8. ASSUME NEW s \in Stores, DisconnectStore(s)
        PROVE  TimedInv'
    <2>1. \A r \in Rows : log'[r] = log[r] \/ log'[r] = [log[r] EXCEPT !.status = "DELETED"]
      BY <1>8 DEF DisconnectStore
    <2>2. \A r \in Rows : log'[r] = log[r] \/ log'[r].status = "DELETED"
      BY <1>1, <2>1 DEF Row
    <2>3. QED
      BY <1>1, <2>2 DEF TimedInv, Timed
  <1>9. CASE UNCHANGED log
    BY <1>9 DEF TimedInv
  <1>10. QED
    BY <1>3, <1>4, <1>5, <1>6, <1>7, <1>8, <1>9 DEF Next, vars, AcquireSlot, CronFanOut, Boot,
       SigTerm, Drained, Crash

(* Every active run is being worked on, may be claimed or swept, or waits  *)
(* for a start or a retry that will come: no run is left where nobody and  *)
(* no clock can move it, for any pool size.                                *)
THEOREM NoRunIsStranded ==
  Spec => [](\A r \in Rows : log[r].status \in Active => Unstranded(r))
  <1>1. Init => TimedInv
    BY DEF Init, TimedInv, Timed, UnusedRow
  <1>2. ASSUME TypeOK, TimedInv, NEW r \in Rows, log[r].status \in Active
        PROVE  Unstranded(r)
    <2>1. /\ log[r].retryAt \in {"null", "future", "past"} /\ log[r].started \in {"future", "past"}
          /\ log[r].attempts \in Nat /\ MaxAttempts \in Nat
      BY <1>2, RowTypes, NumbersAssumption DEF Row
    <2>2. Timed(log[r])
      BY <1>2 DEF TimedInv
    <2>3. QED
      BY <1>2, <2>1, <2>2 DEF Active, Timed, Unstranded, Claimable, SweptToFailed
  <1>3. TypeOK /\ TimedInv => \A r \in Rows : log[r].status \in Active => Unstranded(r)
    BY <1>2
  <1>4. TypeOK /\ TimedInv /\ [Next]_vars => TimedInv'
    BY TimedStep
  <1>5. QED
    BY <1>1, <1>3, <1>4, TypeCorrect, PTL DEF Spec

=============================================================================

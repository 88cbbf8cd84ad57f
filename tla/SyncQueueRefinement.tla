------------------------ MODULE SyncQueueRefinement ------------------------
(***************************************************************************)
(* The queue implements SyncRun, for every number of stores, workers,      *)
(* tasks per worker, pages and attempts.                                   *)
(***************************************************************************)
EXTENDS SyncQueueProofs

(***************************************************************************)
(* The refinement mapping, as functions of the row and as one value per    *)
(* variable of SyncRun.                                                    *)
(***************************************************************************)
PhaseOf(status) ==
  CASE status \in {"PENDING", "FAILED_RETRYABLE"} -> "waiting"
    [] status = "RUNNING" -> "working"
    [] OTHER -> status

Phases  == [r \in Rows |-> Phase(r)]
StoresOf == [r \in Rows |-> log[r].store]
TypesOf == [r \in Rows |-> log[r].type]
Cursors == [r \in Rows |-> log[r].cursor]
Dones   == [r \in Rows |-> Covered(r)]

LEMMA PhaseValues ==
  /\ \A r \in Rows : Phase(r) = PhaseOf(log[r].status)
  /\ PhaseOf("PENDING") = "waiting" /\ PhaseOf("FAILED_RETRYABLE") = "waiting"
  /\ PhaseOf("RUNNING") = "working" /\ PhaseOf("UNUSED") = "UNUSED"
  /\ PhaseOf("COMPLETED") = "COMPLETED" /\ PhaseOf("FAILED") = "FAILED"
  /\ PhaseOf("DELETED") = "DELETED"
<1>1. \A r \in Rows : Phase(r) = PhaseOf(log[r].status)
  BY DEF Phase, PhaseOf
<1>2. /\ PhaseOf("PENDING") = "waiting" /\ PhaseOf("FAILED_RETRYABLE") = "waiting"
      /\ PhaseOf("RUNNING") = "working" /\ PhaseOf("UNUSED") = "UNUSED"
      /\ PhaseOf("COMPLETED") = "COMPLETED" /\ PhaseOf("FAILED") = "FAILED"
      /\ PhaseOf("DELETED") = "DELETED"
  BY DEF PhaseOf
<1> QED
  BY <1>1, <1>2

\* The phase tells the status, up to the reason for waiting.
LEMMA PhaseTells ==
  ASSUME TypeOK, NEW r \in Rows
  PROVE  /\ Phase(r) \in {"waiting", "working"} <=> log[r].status \in Active
         /\ Phase(r) = "working" <=> log[r].status = "RUNNING"
         /\ Phase(r) = "UNUSED" <=> log[r].status = "UNUSED"
<1>1. log[r].status \in {"PENDING", "RUNNING", "FAILED_RETRYABLE", "COMPLETED", "FAILED",
                         "UNUSED", "DELETED"}
  BY RowTypes DEF Row, Statuses, Active, Terminal
<1> QED
  BY <1>1, PhaseValues DEF Active

\* A step that writes one row moves one run.
LEMMA OneRow ==
  ASSUME TypeOK, NEW r \in Rows, NEW row, log' = [log EXCEPT ![r] = row]
  PROVE  /\ Phases' = [Phases EXCEPT ![r] = PhaseOf(row.status)]
         /\ StoresOf' = [StoresOf EXCEPT ![r] = row.store]
         /\ TypesOf' = [TypesOf EXCEPT ![r] = row.type]
         /\ Cursors' = [Cursors EXCEPT ![r] = row.cursor]
         /\ pages' = pages => Dones' = [Dones EXCEPT ![r] = pages[r] \cup row.skipped]
<1>1. \A q \in Rows : log'[q] = IF q = r THEN row ELSE log[q]
  BY DEF TypeOK
<1>2. \A q \in Rows : Phase(q)' = PhaseOf(log'[q].status)
  BY DEF Phase, PhaseOf
<1>3. Phases' = [q \in Rows |-> PhaseOf(log'[q].status)]
  BY <1>2 DEF Phases
<1>4. Phases = [q \in Rows |-> PhaseOf(log[q].status)]
  BY PhaseValues DEF Phases
<1>5. Phases' = [Phases EXCEPT ![r] = PhaseOf(row.status)]
  BY <1>1, <1>3, <1>4
<1>6. StoresOf' = [StoresOf EXCEPT ![r] = row.store]
  <2>1. \A q \in Rows : log'[q].store = IF q = r THEN row.store ELSE log[q].store
    BY <1>1
  <2> QED
    BY <2>1 DEF StoresOf
<1>7. TypesOf' = [TypesOf EXCEPT ![r] = row.type]
  <2>1. \A q \in Rows : log'[q].type = IF q = r THEN row.type ELSE log[q].type
    BY <1>1
  <2> QED
    BY <2>1 DEF TypesOf
<1>8. Cursors' = [Cursors EXCEPT ![r] = row.cursor]
  <2>1. \A q \in Rows : log'[q].cursor = IF q = r THEN row.cursor ELSE log[q].cursor
    BY <1>1
  <2> QED
    BY <2>1 DEF Cursors
<1>9. ASSUME pages' = pages
      PROVE  Dones' = [Dones EXCEPT ![r] = pages[r] \cup row.skipped]
  <2>1. \A q \in Rows : Covered(q)' = IF q = r THEN pages[r] \cup row.skipped ELSE Covered(q)
    BY <1>1, <1>9 DEF Covered
  <2> QED
    BY <2>1 DEF Dones
<1> QED
  BY <1>5, <1>6, <1>7, <1>8, <1>9

\* What is written back as it was has not moved.
LEMMA Unmoved ==
  ASSUME NEW r \in Rows
  PROVE  /\ [StoresOf EXCEPT ![r] = log[r].store] = StoresOf
         /\ [TypesOf EXCEPT ![r] = log[r].type] = TypesOf
         /\ [Cursors EXCEPT ![r] = log[r].cursor] = Cursors
         /\ [Dones EXCEPT ![r] = pages[r] \cup log[r].skipped] = Dones
BY DEF StoresOf, TypesOf, Cursors, Dones, Covered

Stutters == UNCHANGED <<Phases, StoresOf, TypesOf, Cursors, Dones>>

\* Every page below n is done with.
LEMMA ThroughIs ==
  ASSUME NEW r \in Rows, NEW n
  PROVE  Runs!Through(r, n) <=> 0..(n - 1) \subseteq Covered(r)
BY DEF Runs!Through, Covered

LEMMA SameRows ==
  ASSUME \A r \in Rows : /\ log'[r].status = log[r].status /\ log'[r].store = log[r].store
                         /\ log'[r].type = log[r].type /\ log'[r].cursor = log[r].cursor
                         /\ log'[r].skipped = log[r].skipped /\ pages'[r] = pages[r]
  PROVE  Stutters
<1>1. \A q \in Rows : Phase(q)' = Phase(q) /\ Covered(q)' = Covered(q)
  BY DEF Phase, Covered
<1> QED
  BY <1>1 DEF Stutters, Phases, StoresOf, TypesOf, Cursors, Dones

-----------------------------------------------------------------------------
(* Enqueueing and claiming.                                                *)
LEMMA InsertSubmits ==
  ASSUME TypeOK, NEW r \in Rows, NEW s \in Stores, NEW ty \in SyncTypes,
         NEW started \in {"future", "past"}, Insert(r, s, ty, started)
  PROVE  Runs!Submit(r, s, ty)
<1> DEFINE row == [log[r] EXCEPT !.status = "PENDING", !.store = s, !.type = ty, !.started = started]
<1>1. /\ log' = [log EXCEPT ![r] = row] /\ log[r].status = "UNUSED" /\ SlotFree(s, ty)
      /\ pages' = pages
  BY DEF Insert
<1>2. /\ row.status = "PENDING" /\ row.store = s /\ row.type = ty /\ row.cursor = log[r].cursor
      /\ row.skipped = log[r].skipped
  BY RowTypes DEF Row
<1> HIDE DEF row
<1>3. /\ Phases' = [Phases EXCEPT ![r] = "waiting"]
      /\ StoresOf' = [StoresOf EXCEPT ![r] = s]
      /\ TypesOf' = [TypesOf EXCEPT ![r] = ty]
      /\ Cursors' = Cursors /\ Dones' = Dones
  <2>1. /\ Phases' = [Phases EXCEPT ![r] = PhaseOf(row.status)]
        /\ StoresOf' = [StoresOf EXCEPT ![r] = row.store]
        /\ TypesOf' = [TypesOf EXCEPT ![r] = row.type]
        /\ Cursors' = [Cursors EXCEPT ![r] = row.cursor]
        /\ Dones' = [Dones EXCEPT ![r] = pages[r] \cup row.skipped]
    BY <1>1, OneRow
  <2> QED
    BY <1>2, <2>1, PhaseValues, Unmoved
<1>4. Phases[r] = "UNUSED"
  BY <1>1, PhaseValues DEF Phases
<1>5. ASSUME NEW q \in Rows, Phases[q] \in {"waiting", "working"}
      PROVE  <<StoresOf[q], TypesOf[q]>> # <<s, ty>>
  BY <1>1, <1>5, PhaseTells DEF Phases, StoresOf, TypesOf, SlotFree
<1> QED
  BY <1>3, <1>4, <1>5 DEF Runs!Submit, Runs!Live, Phases, StoresOf, TypesOf, Cursors, Dones, Covered

LEMMA ClaimTakes ==
  ASSUME TypeOK, NEW t \in Tasks, NEW r \in Rows, Claim(t, r)
  PROVE  Runs!Take(r)
<1> DEFINE row == [log[r] EXCEPT !.status = "RUNNING", !.claimedBy = WorkerOf(t),
                                 !.attempts = log[r].attempts + 1, !.fresh = TRUE]
<1>1. /\ log' = [log EXCEPT ![r] = row] /\ log[r].status \in {"PENDING", "FAILED_RETRYABLE"}
      /\ pages' = pages
  BY DEF Claim, Claimable
<1>2. /\ row.status = "RUNNING" /\ row.store = log[r].store /\ row.type = log[r].type
      /\ row.cursor = log[r].cursor /\ row.skipped = log[r].skipped
  BY RowTypes DEF Row
<1> HIDE DEF row
<1>3. /\ Phases' = [Phases EXCEPT ![r] = "working"]
      /\ StoresOf' = StoresOf /\ TypesOf' = TypesOf /\ Cursors' = Cursors /\ Dones' = Dones
  <2>1. /\ Phases' = [Phases EXCEPT ![r] = PhaseOf(row.status)]
        /\ StoresOf' = [StoresOf EXCEPT ![r] = row.store]
        /\ TypesOf' = [TypesOf EXCEPT ![r] = row.type]
        /\ Cursors' = [Cursors EXCEPT ![r] = row.cursor]
        /\ Dones' = [Dones EXCEPT ![r] = pages[r] \cup row.skipped]
    BY <1>1, OneRow
  <2> QED
    BY <1>2, <2>1, PhaseValues, Unmoved
<1>4. Phases[r] = "waiting"
  BY <1>1, PhaseValues DEF Phases
<1> QED
  BY <1>3, <1>4 DEF Runs!Take, Phases, StoresOf, TypesOf, Cursors, Dones, Covered

-----------------------------------------------------------------------------
(* A fenced write that ends the claim, by what it makes of the row.        *)
LEMMA Ends ==
  ASSUME TypeOK, NEW t \in Tasks, NEW row, FencedEnd(t, row),
         row.store = Job(t).store, row.type = Job(t).type
  PROVE  /\ Phases[task[t].row] = "working"
         /\ Phases' = [Phases EXCEPT ![task[t].row] = PhaseOf(row.status)]
         /\ StoresOf' = StoresOf /\ TypesOf' = TypesOf
         /\ Cursors' = [Cursors EXCEPT ![task[t].row] = row.cursor]
         /\ Dones' = [Dones EXCEPT ![task[t].row] = pages[task[t].row] \cup row.skipped]
<1>1. /\ task[t].row \in Rows /\ log[task[t].row].status = "RUNNING"
      /\ log' = [log EXCEPT ![task[t].row] = row] /\ pages' = pages
  BY TaskTypes DEF FencedEnd, Fenced, Job
<1>2. /\ Phases' = [Phases EXCEPT ![task[t].row] = PhaseOf(row.status)]
      /\ StoresOf' = [StoresOf EXCEPT ![task[t].row] = row.store]
      /\ TypesOf' = [TypesOf EXCEPT ![task[t].row] = row.type]
      /\ Cursors' = [Cursors EXCEPT ![task[t].row] = row.cursor]
      /\ Dones' = [Dones EXCEPT ![task[t].row] = pages[task[t].row] \cup row.skipped]
  BY <1>1, OneRow
<1> QED
  BY <1>1, <1>2, PhaseValues, Unmoved DEF Phases, Job

\* Written back as it was but for its status, the run has changed phase only.
LEMMA EndMoves ==
  ASSUME TypeOK, NEW t \in Tasks, NEW row, FencedEnd(t, row),
         row.store = Job(t).store, row.type = Job(t).type, row.cursor = Job(t).cursor,
         row.skipped = Job(t).skipped, NEW r, r = task[t].row
  PROVE  /\ Phases[r] = "working"
         /\ Phases' = [Phases EXCEPT ![r] = PhaseOf(row.status)]
         /\ StoresOf' = StoresOf /\ TypesOf' = TypesOf /\ Cursors' = Cursors /\ Dones' = Dones
<1>1. r \in Rows /\ Job(t) = log[r]
  BY TaskTypes DEF Job
<1>2. /\ Phases[r] = "working"
      /\ Phases' = [Phases EXCEPT ![r] = PhaseOf(row.status)]
      /\ StoresOf' = StoresOf /\ TypesOf' = TypesOf
      /\ Cursors' = [Cursors EXCEPT ![r] = row.cursor]
      /\ Dones' = [Dones EXCEPT ![r] = pages[r] \cup row.skipped]
  BY Ends
<1>3. Cursors' = Cursors /\ Dones' = Dones
  BY <1>1, <1>2, Unmoved
<1> QED
  BY <1>2, <1>3

\* It hands the run back, or fails it: the run is interrupted.
LEMMA EndInterrupts ==
  ASSUME TypeOK, NEW t \in Tasks, NEW row, FencedEnd(t, row),
         row.store = Job(t).store, row.type = Job(t).type, row.cursor = Job(t).cursor,
         row.skipped = Job(t).skipped,
         row.status \in {"PENDING", "FAILED_RETRYABLE", "FAILED"}
  PROVE  Runs!Interrupt({task[t].row})
<1> DEFINE r == task[t].row
           end == [q \in {r} |-> PhaseOf(row.status)]
<1>1. /\ r \in Rows /\ Phases[r] = "working"
      /\ Phases' = [Phases EXCEPT ![r] = PhaseOf(row.status)]
      /\ StoresOf' = StoresOf /\ TypesOf' = TypesOf /\ Cursors' = Cursors /\ Dones' = Dones
  BY EndMoves, TaskTypes DEF Job
<1>2. end \in [{r} -> {"waiting", "FAILED"}]
  BY PhaseValues
<1>3. Phases' = [q \in Rows |-> IF q \in {r} THEN end[q] ELSE Phases[q]]
  BY <1>1 DEF Phases
<1> HIDE DEF r, end
<1> QED
  BY <1>1, <1>2, <1>3 DEF Runs!Interrupt, Runs!Live, Phases, StoresOf, TypesOf, Cursors, Dones,
                          Covered, r

-----------------------------------------------------------------------------
(* The steps of a task.                                                    *)
LEMMA HandsBackOrFails ==
  ASSUME TypeOK, NEW t \in Tasks,
         \/ ReleaseToPending(t) \/ MarkRetryable(t)
         \/ PermanentFailure(t) \/ GiveUp(t) \/ NoPageToSkipTo(t)
  PROVE  Runs!Interrupt({task[t].row})
<1>0. Job(t) \in Row
  BY TaskTypes
<1>1. CASE ReleaseToPending(t)
  <2> DEFINE row == [Job(t) EXCEPT !.status = "PENDING", !.claimedBy = NoOne, !.attempts = 0]
  <2>1. FencedEnd(t, row)
    BY <1>1 DEF ReleaseToPending
  <2>2. /\ row.store = Job(t).store /\ row.type = Job(t).type /\ row.cursor = Job(t).cursor
        /\ row.status = "PENDING" /\ row.skipped = Job(t).skipped
    BY <1>0 DEF Row
  <2> HIDE DEF row
  <2> QED
    BY <2>1, <2>2, EndInterrupts
<1>2. CASE MarkRetryable(t)
  <2> DEFINE row == [Job(t) EXCEPT !.status = "FAILED_RETRYABLE", !.claimedBy = NoOne,
                                   !.retryAt = "future"]
  <2>1. FencedEnd(t, row)
    BY <1>2 DEF MarkRetryable
  <2>2. /\ row.store = Job(t).store /\ row.type = Job(t).type /\ row.cursor = Job(t).cursor
        /\ row.status = "FAILED_RETRYABLE" /\ row.skipped = Job(t).skipped
    BY <1>0 DEF Row
  <2> HIDE DEF row
  <2> QED
    BY <2>1, <2>2, EndInterrupts
<1>3. CASE PermanentFailure(t) \/ GiveUp(t) \/ NoPageToSkipTo(t)
  <2> DEFINE row == FailedRow(t)
  <2>1. FencedEnd(t, row)
    BY <1>3 DEF PermanentFailure, GiveUp, NoPageToSkipTo
  <2>2. /\ row.store = Job(t).store /\ row.type = Job(t).type /\ row.cursor = Job(t).cursor
        /\ row.status = "FAILED" /\ row.skipped = Job(t).skipped
    BY <1>0 DEF Row, FailedRow
  <2> HIDE DEF row
  <2> QED
    BY <2>1, <2>2, EndInterrupts
<1> QED
  BY <1>1, <1>2, <1>3

LEMMA CompleteFinishes ==
  ASSUME TypeOK, CoverInv, NEW t \in Tasks, Complete(t)
  PROVE  Runs!Finish(task[t].row)
<1> DEFINE row == [Job(t) EXCEPT !.status = "COMPLETED"]
           r == task[t].row
<1>1. /\ FencedEnd(t, row) /\ LastChunk(t) /\ Busy(t) /\ r \in Rows
      /\ task[t].cursor \in Nat /\ PageCount[log[r].type] \in Nat
  BY TaskTypes, RowTypes, PageCountAssumption DEF Complete, FencedEnd, Busy, Task, Row
<1>2. /\ row.store = Job(t).store /\ row.type = Job(t).type /\ row.cursor = Job(t).cursor
      /\ row.status = "COMPLETED" /\ row.skipped = Job(t).skipped
  BY TaskTypes DEF Row
<1>3. 0..(PageCount[log[r].type] - 1) \subseteq Covered(r)
  <2>1. \A p \in 0..(task[t].cursor - 1) : p \in Covered(r)
    BY <1>1 DEF CoverInv, TaskCovered
  <2>2. task[t].cursor \in Covered(r)
    BY <1>1 DEF CoverInv, TaskCovered, Complete, Covered
  <2>3. PageCount[log[r].type] <= task[t].cursor + 1
    BY <1>1 DEF LastChunk, Job
  <2> QED
    BY <1>1, <2>1, <2>2, <2>3
<1> HIDE DEF row
<1>4. /\ Phases[r] = "working"
      /\ Phases' = [Phases EXCEPT ![r] = "COMPLETED"]
      /\ StoresOf' = StoresOf /\ TypesOf' = TypesOf
      /\ Cursors' = Cursors /\ Dones' = Dones
  BY <1>1, <1>2, EndMoves, PhaseValues
<1> HIDE DEF r
<1>5. Runs!Through(r, PageCount[log[r].type])
  BY <1>1, <1>3, ThroughIs
<1>6. Runs!Finish(r)
  BY <1>1, <1>4, <1>5 DEF Runs!Finish, Phases, StoresOf, TypesOf, Cursors, Dones, Covered
<1> QED
  BY <1>6 DEF r

\* The page in hand is stored: it is the first one that is not, or one before it.
LEMMA ChunkWorkDoes ==
  ASSUME TypeOK, CoverInv, NEW t \in Tasks, ChunkWork(t), NEW r \in Rows, r = task[t].row
  PROVE  Runs!Do(r)
<1> DEFINE c == task[t].cursor
<1>1. /\ r \in Rows /\ Busy(t) /\ log' = log /\ log[r].status # "DELETED"
      /\ pages' = [pages EXCEPT ![r] = @ \cup {c}]
  BY TaskTypes DEF ChunkWork, Busy, Job
<1>2. log[r].status # "UNUSED" /\ 0..(c - 1) \subseteq Covered(r)
  BY <1>1 DEF CoverInv, TaskCovered
<1> HIDE DEF c
<1>3. /\ Phases' = Phases /\ StoresOf' = StoresOf /\ TypesOf' = TypesOf /\ Cursors' = Cursors
  <2>1. \A q \in Rows : Phase(q)' = Phase(q)
    BY <1>1 DEF Phase
  <2> QED
    BY <1>1, <2>1 DEF Phases, StoresOf, TypesOf, Cursors
<1>4. Dones' = [Dones EXCEPT ![r] = @ \cup {c}] /\ c \in Dones'[r]
  <2>1. \A q \in Rows : Covered(q)' = IF q = r THEN Covered(q) \cup {c} ELSE Covered(q)
    BY <1>1 DEF Covered, TypeOK
  <2> QED
    BY <1>1, <2>1 DEF Dones
<1>5. Phases[r] \notin {"UNUSED", "DELETED"}
  <2>1. log[r].status \in {"PENDING", "RUNNING", "FAILED_RETRYABLE", "COMPLETED", "FAILED"}
    BY <1>1, <1>2, RowTypes DEF Row, Statuses, Active, Terminal
  <2> QED
    BY <1>1, <2>1, PhaseValues DEF Phases
<1>6. Runs!Through(r, c)
  BY <1>1, <1>2, ThroughIs
<1> QED
  BY <1>3, <1>4, <1>5, <1>6 DEF Runs!Do, Phases, StoresOf, TypesOf, Cursors, Dones, Covered

LEMMA TickPersists ==
  ASSUME TypeOK, CoverInv, NEW t \in Tasks, Tick(t), NEW r \in Rows, r = task[t].row
  PROVE  Runs!Persist(r)
<1> DEFINE row == [log[r] EXCEPT !.cursor = NextPage(t), !.fresh = TRUE]
<1>1. log' = [log EXCEPT ![r] = row] /\ pages' = pages /\ Busy(t)
  BY DEF Tick, Busy
<1>2. log[r] \in Row /\ task[t].cursor \in Nat /\ log[r].status = "RUNNING"
  BY TaskTypes DEF Tick, Fenced, Job, Task
<1>3. /\ row.store = log[r].store /\ row.type = log[r].type /\ row.status = "RUNNING"
      /\ row.cursor = task[t].cursor + 1 /\ row.skipped = log[r].skipped
  BY <1>2 DEF Row, NextPage
<1>4. 0..((task[t].cursor + 1) - 1) \subseteq Covered(r)
  <2>1. (\A p \in 0..(task[t].cursor - 1) : p \in Covered(r)) /\ task[t].cursor \in Covered(r)
    BY <1>1 DEF CoverInv, TaskCovered, Tick, Covered
  <2> QED
    BY <1>2, <2>1
<1> HIDE DEF row
<1>5. /\ Phases' = [Phases EXCEPT ![r] = PhaseOf(row.status)]
      /\ StoresOf' = [StoresOf EXCEPT ![r] = row.store]
      /\ TypesOf' = [TypesOf EXCEPT ![r] = row.type]
      /\ Cursors' = [Cursors EXCEPT ![r] = row.cursor]
      /\ Dones' = [Dones EXCEPT ![r] = pages[r] \cup row.skipped]
  BY <1>1, OneRow
<1>6. StoresOf' = StoresOf /\ TypesOf' = TypesOf /\ Dones' = Dones
  BY <1>3, <1>5, Unmoved
<1>7. Phases[r] = "working"
  BY <1>2, PhaseValues DEF Phases
<1>8. Phases' = Phases
  BY <1>3, <1>5, <1>7, PhaseValues DEF Phases
<1>9. Cursors'[r] = task[t].cursor + 1 /\ Cursors' = [Cursors EXCEPT ![r] = Cursors'[r]]
  BY <1>3, <1>5 DEF Cursors
<1>10. Runs!Through(r, Cursors'[r])
  BY <1>4, <1>9, ThroughIs
<1> QED
  BY <1>6, <1>7, <1>8, <1>9, <1>10
     DEF Runs!Persist, Phases, StoresOf, TypesOf, Cursors, Dones, Covered

LEMMA SkipSkips ==
  ASSUME TypeOK, CoverInv, NEW t \in Tasks, SkipBadPage(t), NEW r \in Rows, r = task[t].row
  PROVE  Runs!Skip(r)
<1> DEFINE row == [Job(t) EXCEPT !.status = "PENDING", !.attempts = 0,
                                 !.cursor = NextPage(t),
                                 !.skipped = @ \cup {task[t].cursor},
                                 !.claimedBy = NoOne, !.retryAt = "null"]
           c == task[t].cursor
<1>1. FencedEnd(t, row) /\ Busy(t) /\ Job(t) \in Row /\ Job(t) = log[r]
  BY TaskTypes DEF SkipBadPage, FencedEnd, Busy, Job
<1>2. /\ row.store = Job(t).store /\ row.type = Job(t).type /\ row.status = "PENDING"
      /\ row.cursor = c + 1 /\ row.skipped = log[r].skipped \cup {c}
  BY <1>1 DEF Row, NextPage
<1>3. 0..(c - 1) \subseteq Covered(r)
  BY <1>1 DEF CoverInv, TaskCovered
<1> HIDE DEF row, c
<1>4. /\ Phases[r] = "working"
      /\ Phases' = [Phases EXCEPT ![r] = PhaseOf(row.status)]
      /\ StoresOf' = StoresOf /\ TypesOf' = TypesOf
      /\ Cursors' = [Cursors EXCEPT ![r] = row.cursor]
      /\ Dones' = [Dones EXCEPT ![r] = pages[r] \cup row.skipped]
  BY <1>1, <1>2, Ends
<1>5. Phases' = [Phases EXCEPT ![r] = "waiting"] /\ Cursors' = [Cursors EXCEPT ![r] = c + 1]
  BY <1>2, <1>4, PhaseValues
<1>6. Dones' = [Dones EXCEPT ![r] = @ \cup {c}] /\ c \in Dones'[r]
  BY <1>2, <1>4 DEF Dones, Covered
<1>7. Runs!Through(r, c)
  BY <1>3, ThroughIs
<1> QED
  BY <1>4, <1>5, <1>6, <1>7 DEF Runs!Skip, Phases, StoresOf, TypesOf, Cursors, Dones, Covered

LEMMA QuietSteps ==
  ASSUME TypeOK, NEW t \in Tasks,
         \/ StartChunk(t) \/ Heartbeat(t) \/ ReadBadPage(t)
         \/ ErrorWriteFails(t) \/ LoseLease(t)
  PROVE  Stutters
<1>1. CASE log' = log /\ pages' = pages
  BY <1>1, SameRows
<1>2. CASE Heartbeat(t)
  <2>1. \A q \in Rows : log'[q] = log[q] \/ log'[q] = [log[q] EXCEPT !.fresh = TRUE]
    BY <1>2, TaskTypes DEF Heartbeat, TypeOK
  <2>2. \A q \in Rows : /\ log'[q].status = log[q].status /\ log'[q].store = log[q].store
                        /\ log'[q].type = log[q].type /\ log'[q].cursor = log[q].cursor
                        /\ log'[q].skipped = log[q].skipped /\ pages'[q] = pages[q]
    BY <1>2, <2>1, RowTypes DEF Row, Heartbeat
  <2> QED
    BY <2>2, SameRows
<1> QED
  BY <1>1, <1>2 DEF StartChunk, ReadBadPage, ErrorWriteFails, LoseLease

-----------------------------------------------------------------------------
(* The watchdog, the clock and the deletion of a store.                    *)
LEMMA SweepInterrupts ==
  ASSUME TypeOK, Sweep
  PROVE  \E S \in SUBSET Rows : Runs!Interrupt(S)
<1> DEFINE S == {r \in Rows : SweptToFailed(r) \/ SweptToPending(r)}
           end == [r \in S |-> IF SweptToFailed(r) THEN "FAILED" ELSE "waiting"]
<1>1. ASSUME NEW r \in S PROVE log[r].status \in Active
  BY <1>1 DEF SweptToFailed, SweptToPending, Stale, Active
<1>2. S # {} /\ S \in SUBSET Rows
  BY DEF Sweep
<1>3. \A r \in S : Phases[r] \in {"waiting", "working"}
  BY <1>1, PhaseTells DEF Phases
<1>4. ASSUME NEW r \in Rows
      PROVE  /\ Phase(r)' = IF r \in S THEN end[r] ELSE Phase(r)
             /\ log'[r].store = log[r].store /\ log'[r].type = log[r].type
             /\ log'[r].cursor = log[r].cursor /\ Covered(r)' = Covered(r)
  <2>1. log'[r] = SweptRow(r) /\ log[r] \in Row /\ pages' = pages
    BY RowTypes DEF Sweep
  <2>2. Phase(r)' = PhaseOf(log'[r].status)
    BY DEF Phase, PhaseOf
  <2>3. CASE SweptToFailed(r)
    BY <2>1, <2>2, <2>3, PhaseValues DEF SweptRow, Row, Covered
  <2>4. CASE ~SweptToFailed(r) /\ SweptToPending(r)
    BY <2>1, <2>2, <2>4, PhaseValues DEF SweptRow, RequeuedRow, Row, Covered
  <2>5. CASE ~SweptToFailed(r) /\ ~SweptToPending(r)
    BY <2>1, <2>2, <2>5, PhaseValues DEF SweptRow, Covered
  <2> QED
    BY <2>3, <2>4, <2>5
<1>5. end \in [S -> {"waiting", "FAILED"}]
  OBVIOUS
<1> HIDE DEF S, end
<1>6. Phases' = [r \in Rows |-> IF r \in S THEN end[r] ELSE Phases[r]]
  BY <1>4 DEF Phases
<1>7. StoresOf' = StoresOf /\ TypesOf' = TypesOf /\ Cursors' = Cursors /\ Dones' = Dones
  BY <1>4 DEF StoresOf, TypesOf, Cursors, Dones
<1>8. Runs!Interrupt(S)
  BY <1>2, <1>3, <1>5, <1>6, <1>7
     DEF Runs!Interrupt, Runs!Live, Phases, StoresOf, TypesOf, Cursors, Dones, Covered
<1> QED
  BY <1>2, <1>8

LEMMA ClockStutters ==
  ASSUME TypeOK, NEW q \in Rows, AgeClaim(q) \/ BackoffElapses(q) \/ StartTimeArrives(q)
  PROVE  Stutters
BY ClockStep, SameRows

LEMMA DisconnectForgets ==
  ASSUME TypeOK, NEW s \in Stores, DisconnectStore(s)
  PROVE  Runs!Forget(s)
<1>1. ASSUME NEW r \in Rows
      PROVE  /\ Phase(r)' = IF log[r].store = s /\ Phase(r) # "UNUSED" THEN "DELETED" ELSE Phase(r)
             /\ log'[r].store = log[r].store /\ log'[r].type = log[r].type
             /\ log'[r].cursor = log[r].cursor /\ Covered(r)' = Covered(r)
  <2>1. /\ log[r] \in Row /\ pages' = pages
        /\ log'[r] = IF log[r].store = s /\ log[r].status # "UNUSED"
                     THEN [log[r] EXCEPT !.status = "DELETED"] ELSE log[r]
    BY RowTypes DEF DisconnectStore
  <2>2. Phase(r)' = PhaseOf(log'[r].status) /\ Phase(r) = PhaseOf(log[r].status)
    BY DEF Phase, PhaseOf
  <2>3. CASE log[r].store = s /\ log[r].status # "UNUSED"
    <3>1. log'[r] = [log[r] EXCEPT !.status = "DELETED"]
      BY <2>1, <2>3
    <3>2. log'[r].status = "DELETED" /\ log'[r].store = log[r].store
          /\ log'[r].type = log[r].type /\ log'[r].cursor = log[r].cursor
          /\ Covered(r)' = Covered(r)
      BY <2>1, <3>1 DEF Row, Covered
    <3>3. Phase(r) # "UNUSED" /\ Phase(r)' = "DELETED"
      BY <2>2, <2>3, <3>2, PhaseTells, PhaseValues
    <3> QED
      BY <2>3, <3>2, <3>3
  <2>4. CASE ~(log[r].store = s /\ log[r].status # "UNUSED")
    BY <2>1, <2>2, <2>4, PhaseTells DEF Covered
  <2> QED
    BY <2>3, <2>4
<1>2. Phases' = [r \in Rows |-> IF StoresOf[r] = s /\ Phases[r] # "UNUSED"
                                THEN "DELETED" ELSE Phases[r]]
  BY <1>1 DEF Phases, StoresOf
<1>3. StoresOf' = StoresOf /\ TypesOf' = TypesOf /\ Cursors' = Cursors /\ Dones' = Dones
  BY <1>1 DEF StoresOf, TypesOf, Cursors, Dones
<1> QED
  BY <1>2, <1>3 DEF Runs!Forget, Phases, StoresOf, TypesOf, Cursors, Dones, Covered

-----------------------------------------------------------------------------
LEMMA RunsStep ==
  ASSUME TypeOK, CoverInv, [Next]_vars
  PROVE  [Runs!Next]_(Runs!vars)
<1> SUFFICES Runs!Next \/ Stutters
  BY DEF Runs!vars, Stutters, Phases, StoresOf, TypesOf, Cursors, Dones, Covered
<1>1. ASSUME NEW r \in Rows, NEW s \in Stores, NEW ty \in SyncTypes,
             NEW started \in {"future", "past"}, Insert(r, s, ty, started)
      PROVE  Runs!Next
  BY <1>1, InsertSubmits DEF Runs!Next
<1>2. ASSUME NEW t \in Tasks, NEW r \in Rows, Claim(t, r)
      PROVE  Runs!Next
  BY <1>2, ClaimTakes DEF Runs!Next
<1>3. ASSUME NEW t \in Tasks, TaskStep(t)
      PROVE  Runs!Next \/ Stutters
  <2>1. task[t].row \in Rows
    BY TaskTypes
  <2>2. CASE \/ ReleaseToPending(t) \/ MarkRetryable(t)
             \/ PermanentFailure(t) \/ GiveUp(t) \/ NoPageToSkipTo(t)
    BY <2>1, <2>2, HandsBackOrFails DEF Runs!Next
  <2>3. CASE Complete(t)
    BY <2>1, <2>3, CompleteFinishes DEF Runs!Next
  <2>4. CASE ChunkWork(t) \/ Tick(t) \/ SkipBadPage(t)
    <3>1. PICK r \in Rows : r = task[t].row
      BY <2>1
    <3>2. Runs!Do(r) \/ Runs!Persist(r) \/ Runs!Skip(r)
      BY <2>4, <3>1, ChunkWorkDoes, TickPersists, SkipSkips
    <3> QED
      BY <3>2 DEF Runs!Next
  <2>5. CASE \/ StartChunk(t) \/ Heartbeat(t) \/ ReadBadPage(t)
             \/ ErrorWriteFails(t) \/ LoseLease(t)
    BY <2>5, QuietSteps
  <2> QED
    BY <1>3, <2>2, <2>3, <2>4, <2>5 DEF TaskStep, ChunkEnds
<1>4. CASE Sweep
  BY <1>4, SweepInterrupts DEF Runs!Next
<1>5. ASSUME NEW r \in Rows, AgeClaim(r) \/ BackoffElapses(r) \/ StartTimeArrives(r)
      PROVE  Stutters
  BY <1>5, ClockStutters
<1>6. ASSUME NEW w \in Workers, Boot(w) \/ SigTerm(w) \/ Drained(w) \/ Crash(w)
      PROVE  Stutters
  BY <1>6, SameRows DEF Boot, SigTerm, Drained, Crash
<1>7. ASSUME NEW s \in Stores, DisconnectStore(s)
      PROVE  Runs!Next
  BY <1>7, DisconnectForgets DEF Runs!Next
<1>8. CASE UNCHANGED vars
  BY <1>8, SameRows DEF vars
<1> QED
  BY <1>1, <1>2, <1>3, <1>4, <1>5, <1>6, <1>7, <1>8 DEF Next, AcquireSlot, CronFanOut

(* In a pool of any size the queue implements SyncRun: one run per slot,   *)
(* worked on from a page behind which nothing is missing, its progress     *)
(* never noted past a page that is not done with, completing only when     *)
(* every page is, and ending once, whatever crashes, zombies, siblings,    *)
(* retries and sweeps do to the row.                                       *)
THEOREM QueueImplementsRuns == Spec => ImplementsRuns
<1>1. Init => Runs!Init
  <2>1. ASSUME Init PROVE \A r \in Rows : log[r] = UnusedRow /\ UnusedRow \in Row
    BY <2>1, UnusedRowType DEF Init
  <2>2. ASSUME Init
        PROVE  \A r \in Rows : /\ Phase(r) = "UNUSED" /\ log[r].cursor = 0
                                /\ pages[r] \cup log[r].skipped = {}
    <3>1. UnusedRow.status = "UNUSED" /\ UnusedRow.cursor = 0 /\ UnusedRow.skipped = {}
      BY DEF UnusedRow
    <3>2. \A r \in Rows : pages[r] = {}
      BY <2>2 DEF Init
    <3> QED
      BY <2>1, <2>2, <3>1, <3>2, PhaseValues
  <2>3. ASSUME Init PROVE \A r \in Rows : log[r].store \in Stores /\ log[r].type \in SyncTypes
    BY <2>1, <2>3 DEF Row
  <2> QED
    BY <2>2, <2>3 DEF Runs!Init
<1>2. TypeOK /\ CoverInv /\ [Next]_vars => [Runs!Next]_(Runs!vars)
  BY RunsStep
<1> QED
  BY <1>1, <1>2, CoverInvInit, CoverInvStep, TypeCorrect, PTL DEF Spec, ImplementsRuns, Runs!Spec

=============================================================================

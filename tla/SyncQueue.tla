----------------------------- MODULE SyncQueue -----------------------------
(***************************************************************************)
(* The sync job queue: the sync_logs table, the worker processes that      *)
(* claim its rows, and the watchdog that takes rows away from workers.     *)
(*                                                                         *)
(* A worker process runs a bounded pool of tasks (SYNC_WORKER_CONCURRENCY) *)
(* and claims rows under ONE worker id for the whole process.  A claimed   *)
(* row is driven chunk by chunk; every write of its holder is fenced on    *)
(* (status = RUNNING, claimed_by = this worker id), and a fence that       *)
(* matches no row makes the task abandon the run (LostLeaseError).  What a *)
(* chunk writes to the business tables is not fenced.                      *)
(*                                                                         *)
(* Wall-clock instants are abstracted to what the guards compare: a tick   *)
(* is fresh or older than the 90 s threshold, a backoff or a staggered     *)
(* start lies in the future or has been reached.                           *)
(***************************************************************************)
EXTENDS Integers

CONSTANTS
  Stores,         (* connected stores                                      *)
  SyncTypes,      (* sync types in play, a set of strings                  *)
  PageCount,      (* pages (chunks) of a full scan, per sync type          *)
  PageCap,        (* first page that the vendor serves by token only       *)
  Workers,        (* process incarnations: a restarted worker is a new one *)
  PoolSize,       (* SYNC_WORKER_CONCURRENCY                               *)
  MaxAttempts,    (* MAX_SYNC_ATTEMPTS                                     *)
  MaxRows,        (* bound: rows ever inserted into sync_logs              *)
  NoOne           (* claimed_by IS NULL                                    *)

ASSUME SlotsAssumption == Stores # {} /\ SyncTypes # {}
ASSUME PageCountAssumption == PageCount \in [SyncTypes -> Nat \ {0}]
ASSUME NumbersAssumption ==
  /\ PageCap \in Nat \ {0}
  /\ PoolSize \in Nat \ {0}
  /\ MaxAttempts \in Nat \ {0}
  /\ MaxRows \in Nat \ {0}
ASSUME NoOneAssumption == NoOne \notin Workers /\ NoOne \notin Workers \X (1..PoolSize)

Rows  == 1..MaxRows
Tasks == Workers \X (1..PoolSize)
WorkerOf(t) == t[1]

Active   == {"PENDING", "RUNNING", "FAILED_RETRYABLE"}
Terminal == {"COMPLETED", "FAILED"}
Statuses == Active \cup Terminal \cup {"UNUSED", "DELETED"}

VARIABLES
  log,        (* log[r]: the sync_logs row r                               *)
  task,       (* task[t]: the pool task t of a process                     *)
  wstate,     (* wstate[w]: the process, "draining" = shuttingDown set     *)
  gone,       (* stores that were disconnected                             *)
  lease,      (* history: the task whose claim on r is the latest one      *)
  doubled,    (* history: rows a process claimed while a task of its own   *)
              (* was still on them                                         *)
  pages       (* history: pages whose data a chunk of row r has written    *)

vars == <<log, task, wstate, gone, lease, doubled, pages>>

(***************************************************************************)
(* A row, and an idle task.                                                *)
(***************************************************************************)
Row == [status    : Statuses,
        store     : Stores,
        type      : SyncTypes,
        claimedBy : Workers \cup {NoOne},
        attempts  : Nat,
        cursor    : Nat,
        retryAt   : {"null", "future", "past"},
        started   : {"future", "past"},
        fresh     : BOOLEAN,
        skipped   : SUBSET Nat]

UnusedRow == [status |-> "UNUSED", store |-> CHOOSE s \in Stores : TRUE,
              type |-> CHOOSE ty \in SyncTypes : TRUE, claimedBy |-> NoOne,
              attempts |-> 0, cursor |-> 0, retryAt |-> "null",
              started |-> "past", fresh |-> FALSE, skipped |-> {}]

Idle == [pc |-> "idle", row |-> 1, cursor |-> 0, attempt |-> 0]

Task == [pc      : {"idle", "loop", "chunk", "write", "skip"},
         row     : Rows,
         cursor  : Nat,
         attempt : Nat]

Busy(t) == task[t].pc # "idle"
Job(t)  == log[task[t].row]

Init ==
  /\ log = [r \in Rows |-> UnusedRow]
  /\ task = [t \in Tasks |-> Idle]
  /\ wstate = [w \in Workers |-> "new"]
  /\ gone = {}
  /\ lease = [r \in Rows |-> NoOne]
  /\ doubled = {}
  /\ pages = [r \in Rows |-> {}]

-----------------------------------------------------------------------------
(* Faulty forms of some definitions, each a slip this code could contain.  *)
(* The properties below tell every one of them from the real definition.   *)
SlotFreeButForRetries(s, ty) ==
  \A q \in Rows : ~(log[q].store = s /\ log[q].type = ty
                     /\ log[q].status \in {"PENDING", "RUNNING"})
FencedByStatusOnly(t) == Job(t).status = "RUNNING"
LastChunkOneEarly(t) == task[t].cursor + 2 >= PageCount[Job(t).type]
FailedRowOffEnum(t) == [Job(t) EXCEPT !.status = "ERROR"]
SweepsFinishedRows(r) == log[r].attempts >= MaxAttempts /\ log[r].status # "RUNNING"
SweepForgetsRunning(r) ==
  log[r].attempts >= MaxAttempts /\ log[r].status \in {"PENDING", "FAILED_RETRYABLE"}
HolderLeftBehind(r) == [log[r] EXCEPT !.status = "PENDING"]
-----------------------------------------------------------------------------
(***************************************************************************)
(* Enqueueing.  The partial unique index sync_logs_active_slot_uniq admits *)
(* one active row per (store, sync type); a second insert is refused       *)
(* (SyncInProgressError, or the cron's NOT EXISTS) and changes nothing.    *)
(***************************************************************************)
SlotFree(s, ty) ==
  \A q \in Rows : ~(log[q].store = s /\ log[q].type = ty /\ log[q].status \in Active)

Insert(r, s, ty, started) ==
  /\ s \notin gone
  /\ log[r].status = "UNUSED"
  /\ \A q \in Rows : q < r => log[q].status # "UNUSED"
  /\ SlotFree(s, ty)
  /\ log' = [log EXCEPT ![r] = [@ EXCEPT !.status = "PENDING", !.store = s,
                                        !.type = ty, !.started = started]]
  /\ UNCHANGED <<task, wstate, gone, lease, doubled, pages>>

AcquireSlot(r, s, ty) == Insert(r, s, ty, "past")

\* The daily products fan-out staggers started_at into the next half hour.
CronFanOut(r, s, ty) ==
  \E started \in IF ty = "PRODUCTS" THEN {"future", "past"} ELSE {"past"} :
    Insert(r, s, ty, started)

(***************************************************************************)
(* Claiming.                                                               *)
(***************************************************************************)
Claimable(r) ==
  /\ \/ log[r].status = "PENDING"
     \/ log[r].status = "FAILED_RETRYABLE" /\ log[r].retryAt = "past"
  /\ log[r].attempts < MaxAttempts
  /\ log[r].started = "past"

\* Nothing asks whether a task of this very process is still on the row.
OwnTaskOn(t, r) ==
  \E u \in Tasks : WorkerOf(u) = WorkerOf(t) /\ Busy(u) /\ task[u].row = r

\* tryClaimNext, then spawnJob.  The claim order only ranks claimable rows.
Claim(t, r) ==
  /\ wstate[WorkerOf(t)] = "up"
  /\ ~Busy(t)
  /\ Claimable(r)
  /\ log' = [log EXCEPT ![r] = [@ EXCEPT !.status = "RUNNING",
                                        !.claimedBy = WorkerOf(t),
                                        !.attempts = log[r].attempts + 1,
                                        !.fresh = TRUE]]
  /\ task' = [task EXCEPT ![t] = [pc |-> "loop", row |-> r,
                                  cursor |-> log[r].cursor,
                                  attempt |-> log[r].attempts + 1]]
  /\ lease' = [lease EXCEPT ![r] = t]
  /\ doubled' = IF OwnTaskOn(t, r) THEN doubled \cup {r} ELSE doubled
  /\ UNCHANGED <<wstate, gone, pages>>

(***************************************************************************)
(* The fence, and the outcome when it matches no row.                      *)
(***************************************************************************)
Fenced(t) == Job(t).status = "RUNNING" /\ Job(t).claimedBy = WorkerOf(t)

ShuttingDown(t) == wstate[WorkerOf(t)] = "draining"

Settle(t) == task' = [task EXCEPT ![t] = Idle]

\* A fenced write of task t that also ends the run: the row becomes row.
FencedEnd(t, row) ==
  /\ Fenced(t)
  /\ log' = [log EXCEPT ![task[t].row] = row]
  /\ lease' = [lease EXCEPT ![task[t].row] = NoOne]
  /\ Settle(t)
  /\ UNCHANGED <<wstate, gone, doubled, pages>>

\* Where a run can throw: in its chunk, or in the write after it.
Throws(t) ==
  \/ task[t].pc \in {"chunk", "write"}
  \/ task[t].pc = "loop" /\ ShuttingDown(t)

\* LostLeaseError: the task stops and writes nothing.
LoseLease(t) ==
  /\ ~Fenced(t)
  /\ Throws(t) \/ task[t].pc = "skip"
  /\ Settle(t)
  /\ UNCHANGED <<log, wstate, gone, lease, doubled, pages>>

(***************************************************************************)
(* The chunk loop.                                                         *)
(***************************************************************************)
StartChunk(t) ==
  /\ task[t].pc = "loop"
  /\ ~ShuttingDown(t)
  /\ task' = [task EXCEPT ![t] = [@ EXCEPT !.pc = "chunk"]]
  /\ UNCHANGED <<log, wstate, gone, lease, doubled, pages>>

\* Graceful shutdown: the row goes back with its cursor and a fresh budget.
ReleaseToPending(t) ==
  /\ task[t].pc = "loop"
  /\ ShuttingDown(t)
  /\ FencedEnd(t, [Job(t) EXCEPT !.status = "PENDING", !.claimedBy = NoOne,
                                 !.attempts = 0])

Heartbeat(t) ==
  /\ task[t].pc = "chunk"
  /\ Fenced(t)
  /\ ~Job(t).fresh
  /\ log' = [log EXCEPT ![task[t].row] = [@ EXCEPT !.fresh = TRUE]]
  /\ UNCHANGED <<task, wstate, gone, lease, doubled, pages>>

\* The handler's own writes: the page under the task's cursor is stored.  They
\* need the store, not the lease.
ChunkWork(t) ==
  /\ task[t].pc = "chunk"
  /\ Job(t).status # "DELETED"
  /\ pages' = [pages EXCEPT ![task[t].row] = @ \cup {task[t].cursor}]
  /\ task' = [task EXCEPT ![t] = [@ EXCEPT !.pc = "write"]]
  /\ UNCHANGED <<log, wstate, gone, lease, doubled>>

\* The page after the one in hand: the next cursor of a tick, and of a skip.
NextPage(t) == task[t].cursor + 1

LastChunk(t) == task[t].cursor + 1 >= PageCount[Job(t).type]

\* kind = 'continue': persist the cursor and loop with it.
Tick(t) ==
  /\ task[t].pc = "write"
  /\ ~LastChunk(t)
  /\ Fenced(t)
  /\ log' = [log EXCEPT ![task[t].row] = [@ EXCEPT !.cursor = NextPage(t),
                                                  !.fresh = TRUE]]
  /\ task' = [task EXCEPT ![t] = [@ EXCEPT !.pc = "loop", !.cursor = NextPage(t)]]
  /\ UNCHANGED <<wstate, gone, lease, doubled, pages>>

\* kind = 'done'.  claimed_by is left as it is.
Complete(t) ==
  /\ task[t].pc = "write"
  /\ LastChunk(t)
  /\ FencedEnd(t, [Job(t) EXCEPT !.status = "COMPLETED"])

(***************************************************************************)
(* A chunk throws, or the write that follows it does: handleRunError, with *)
(* the attempt number of the claim.                                        *)
(***************************************************************************)
FailedRow(t) == [Job(t) EXCEPT !.status = "FAILED"]

Exhausted(t) == task[t].attempt >= MaxAttempts

\* MARKETPLACE_AUTH_FAILED, MARKETPLACE_ACCESS_DENIED.
PermanentFailure(t) ==
  /\ task[t].pc = "chunk"
  /\ FencedEnd(t, FailedRow(t))

MarkRetryable(t) ==
  /\ Throws(t)
  /\ ~Exhausted(t)
  /\ FencedEnd(t, [Job(t) EXCEPT !.status = "FAILED_RETRYABLE",
                                 !.claimedBy = NoOne, !.retryAt = "future"])

\* The last attempt, on an error that no page skip can recover.
GiveUp(t) ==
  /\ Throws(t)
  /\ Exhausted(t)
  /\ FencedEnd(t, FailedRow(t))

\* The last attempt on MARKETPLACE_UNREACHABLE of a products scan:
\* advanceCursorPastBadPage reads the row's cursor outside any transaction...
ReadBadPage(t) ==
  /\ task[t].pc = "chunk"
  /\ Exhausted(t)
  /\ Job(t).type = "PRODUCTS"
  /\ Job(t).status # "DELETED"
  /\ task' = [task EXCEPT ![t] = [@ EXCEPT !.pc = "skip", !.cursor = Job(t).cursor]]
  /\ UNCHANGED <<log, wstate, gone, lease, doubled, pages>>

\* ... and recordSkippedPageAndContinue writes the next page, fenced.
SkipBadPage(t) ==
  /\ task[t].pc = "skip"
  /\ NextPage(t) < PageCap
  /\ FencedEnd(t, [Job(t) EXCEPT !.status = "PENDING", !.attempts = 0,
                                 !.cursor = NextPage(t),
                                 !.skipped = @ \cup {task[t].cursor},
                                 !.claimedBy = NoOne, !.retryAt = "null"])

\* Past the page cap there is no next page to compute: fail after all.
NoPageToSkipTo(t) ==
  /\ task[t].pc = "skip"
  /\ NextPage(t) >= PageCap
  /\ FencedEnd(t, FailedRow(t))

\* The error handler's own database write fails: the task ends, the row stays
\* RUNNING until the watchdog finds it.
ErrorWriteFails(t) ==
  /\ Throws(t) \/ task[t].pc = "skip"
  /\ Settle(t)
  /\ UNCHANGED <<log, wstate, gone, lease, doubled, pages>>

(***************************************************************************)
(* The watchdog, run by every live process: both statements of the sweep   *)
(* in one transaction over the whole table.                                *)
(***************************************************************************)
Stale(r) == log[r].status = "RUNNING" /\ ~log[r].fresh

SweptToFailed(r) ==
  /\ log[r].attempts >= MaxAttempts
  /\ Stale(r) \/ log[r].status \in {"PENDING", "FAILED_RETRYABLE"}

SweptToPending(r) == Stale(r) /\ log[r].attempts < MaxAttempts

RequeuedRow(r) == [log[r] EXCEPT !.status = "PENDING", !.claimedBy = NoOne]

SweptRow(r) ==
  IF SweptToFailed(r) THEN [log[r] EXCEPT !.status = "FAILED", !.claimedBy = NoOne]
  ELSE IF SweptToPending(r) THEN RequeuedRow(r)
  ELSE log[r]

Sweep ==
  /\ \E w \in Workers : wstate[w] \in {"up", "draining"}
  /\ \E r \in Rows : SweptToFailed(r) \/ SweptToPending(r)
  /\ log' = [r \in Rows |-> SweptRow(r)]
  /\ lease' = [r \in Rows |-> IF SweptToFailed(r) \/ SweptToPending(r)
                              THEN NoOne ELSE lease[r]]
  /\ UNCHANGED <<task, wstate, gone, doubled, pages>>

(***************************************************************************)
(* The clock.                                                              *)
(***************************************************************************)
AgeClaim(r) ==
  /\ log[r].status = "RUNNING"
  /\ log[r].fresh
  /\ log' = [log EXCEPT ![r] = [@ EXCEPT !.fresh = FALSE]]
  /\ UNCHANGED <<task, wstate, gone, lease, doubled, pages>>

BackoffElapses(r) ==
  /\ log[r].status = "FAILED_RETRYABLE"
  /\ log[r].retryAt = "future"
  /\ log' = [log EXCEPT ![r] = [@ EXCEPT !.retryAt = "past"]]
  /\ UNCHANGED <<task, wstate, gone, lease, doubled, pages>>

StartTimeArrives(r) ==
  /\ log[r].status = "PENDING"
  /\ log[r].started = "future"
  /\ log' = [log EXCEPT ![r] = [@ EXCEPT !.started = "past"]]
  /\ UNCHANGED <<task, wstate, gone, lease, doubled, pages>>

(***************************************************************************)
(* Processes.  A supervisor restarts a dead process under a new worker id, *)
(* so an incarnation never comes back; the bound on failures is that the   *)
(* last incarnation stays up.                                              *)
(***************************************************************************)
CanLose(w) == \E v \in Workers \ {w} : wstate[v] \in {"new", "up"}

Boot(w) ==
  /\ wstate[w] = "new"
  /\ wstate' = [wstate EXCEPT ![w] = "up"]
  /\ UNCHANGED <<log, task, gone, lease, doubled, pages>>

SigTerm(w) ==
  /\ wstate[w] = "up"
  /\ CanLose(w)
  /\ wstate' = [wstate EXCEPT ![w] = "draining"]
  /\ UNCHANGED <<log, task, gone, lease, doubled, pages>>

Drained(w) ==
  /\ wstate[w] = "draining"
  /\ \A t \in Tasks : WorkerOf(t) = w => ~Busy(t)
  /\ wstate' = [wstate EXCEPT ![w] = "dead"]
  /\ UNCHANGED <<log, task, gone, lease, doubled, pages>>

Crash(w) ==
  /\ wstate[w] \in {"up", "draining"}
  /\ CanLose(w)
  /\ wstate' = [wstate EXCEPT ![w] = "dead"]
  /\ task' = [t \in Tasks |-> IF WorkerOf(t) = w THEN Idle ELSE task[t]]
  /\ UNCHANGED <<log, gone, lease, doubled, pages>>

\* Disconnecting a store deletes it, and its rows with it (cascade).
DisconnectStore(s) ==
  /\ s \notin gone
  /\ gone' = gone \cup {s}
  /\ log' = [r \in Rows |-> IF log[r].store = s /\ log[r].status # "UNUSED"
                            THEN [log[r] EXCEPT !.status = "DELETED"] ELSE log[r]]
  /\ lease' = [r \in Rows |-> IF log[r].store = s THEN NoOne ELSE lease[r]]
  /\ UNCHANGED <<task, wstate, doubled, pages>>

(***************************************************************************)
(* What a running chunk may end with, and all steps of a task.             *)
(***************************************************************************)
ChunkEnds(t) ==
  \/ ChunkWork(t) \/ PermanentFailure(t) \/ MarkRetryable(t) \/ GiveUp(t)
  \/ ReadBadPage(t) \/ ErrorWriteFails(t) \/ LoseLease(t)

TaskStep(t) ==
  \/ StartChunk(t) \/ ReleaseToPending(t) \/ Heartbeat(t)
  \/ Tick(t) \/ Complete(t) \/ SkipBadPage(t) \/ NoPageToSkipTo(t)
  \/ ChunkEnds(t)

Next ==
  \/ \E r \in Rows, s \in Stores, ty \in SyncTypes : AcquireSlot(r, s, ty) \/ CronFanOut(r, s, ty)
  \/ \E t \in Tasks, r \in Rows : Claim(t, r)
  \/ \E t \in Tasks : TaskStep(t)
  \/ Sweep
  \/ \E r \in Rows : AgeClaim(r) \/ BackoffElapses(r) \/ StartTimeArrives(r)
  \/ \E w \in Workers : Boot(w) \/ SigTerm(w) \/ Drained(w) \/ Crash(w)
  \/ \E s \in Stores : DisconnectStore(s)

Spec == Init /\ [][Next]_vars

(***************************************************************************)
(* Fairness.  The pool loop claims while it has a free slot; a running     *)
(* task takes its next step (vendor calls time out); the watchdog and the  *)
(* clock run; the supervisor boots a replacement.  Nothing makes a claim   *)
(* with a live task go stale, nothing makes a process stop, and nobody is  *)
(* obliged to enqueue or to disconnect.                                    *)
(***************************************************************************)
Abandoned(r) == \A t \in Tasks : ~(Busy(t) /\ task[t].row = r)

TaskProgress(t) ==
  \/ StartChunk(t) \/ ReleaseToPending(t) \/ Tick(t) \/ Complete(t)
  \/ SkipBadPage(t) \/ NoPageToSkipTo(t) \/ ChunkEnds(t)

Fairness ==
  /\ \A t \in Tasks : WF_vars(\E r \in Rows : Claim(t, r)) /\ WF_vars(TaskProgress(t))
  /\ WF_vars(Sweep)
  /\ \A r \in Rows : /\ WF_vars(Abandoned(r) /\ AgeClaim(r))
                     /\ WF_vars(BackoffElapses(r))
                     /\ WF_vars(StartTimeArrives(r))
  /\ \A w \in Workers : WF_vars(Boot(w))

FairSpec == Spec /\ Fairness

-----------------------------------------------------------------------------
(* Types of all the variables: rows, tasks, processes and histories.       *)
TypeOK ==
  /\ log \in [Rows -> Row]
  /\ task \in [Tasks -> Task]
  /\ wstate \in [Workers -> {"new", "up", "draining", "dead"}]
  /\ gone \in SUBSET Stores
  /\ lease \in [Rows -> Tasks \cup {NoOne}]
  /\ doubled \subseteq Rows
  /\ pages \in [Rows -> SUBSET Nat]

(* One active run per (store, sync type), whatever acquireSlot, the cron   *)
(* fan-out, the retry path, the release and the watchdog do to the rows.   *)
OneActivePerSlot ==
  \A q, r \in Rows :
    /\ q # r
    /\ log[q].status \in Active
    /\ log[r].status \in Active
    => <<log[q].store, log[q].type>> # <<log[r].store, log[r].type>>

(* A row is held exactly while it runs: queued rows have no holder, a      *)
(* RUNNING row names a process, and its latest claim, while it lasts, is a *)
(* claim of that very process.                                             *)
HeldWhileRunning ==
  \A r \in Rows :
    /\ log[r].status \in {"PENDING", "FAILED_RETRYABLE"} => log[r].claimedBy = NoOne
    /\ log[r].status = "RUNNING" =>
         /\ log[r].claimedBy # NoOne
         /\ lease[r] # NoOne => WorkerOf(lease[r]) = log[r].claimedBy

(* A run marked COMPLETED has covered every page of its scan: each page    *)
(* was stored by some chunk or recorded as skipped, across crashes,        *)
(* hand-overs, re-claims and page skips.                                   *)
CompletedCoversScan ==
  \A r \in Rows : log[r].status = "COMPLETED" =>
    \A p \in 0..(PageCount[log[r].type] - 1) : p \in pages[r] \cup log[r].skipped

(* The persisted cursor never claims a page that was neither stored nor    *)
(* skipped: resuming from it loses nothing.                                *)
CursorIsCovered ==
  \A r \in Rows : \A p \in 0..(log[r].cursor - 1) : p \in pages[r] \cup log[r].skipped

(* The fence admits the current claim only: a task whose fenced write      *)
(* would match a row is the task that claimed that row last, in any pool,  *)
(* unless its process took the row a second time beside itself.            *)
FenceIsTheLease ==
  \A t \in Tasks : Busy(t) /\ Fenced(t) /\ task[t].row \notin doubled => lease[task[t].row] = t

(* No queued row is unclaimable, on the same condition: a PENDING or       *)
(* FAILED_RETRYABLE row has attempts left, so only the holder's error path *)
(* or the watchdog's look at a stale claim decides that a run has failed.  *)
QueuedRowsClaimable ==
  \A r \in Rows \ doubled : log[r].status \in {"PENDING", "FAILED_RETRYABLE"} =>
    log[r].attempts < MaxAttempts

(* What the fence is for: the persisted cursor of a run only moves forward.*)
CursorNeverRegresses ==
  [][\A r \in Rows : log'[r].cursor >= log[r].cursor]_vars

(* It only moves forward, in any pool, on rows that no process took a      *)
(* second time beside itself.                                              *)
CursorOnlyAdvances ==
  [][\A r \in Rows : r \in doubled \/ log'[r].cursor >= log[r].cursor]_vars

(* A finished run stays as it finished until its store is deleted: no late *)
(* tick, release, retry, sweep or claim touches it again.                  *)
TerminalIsFinal ==
  [][\A r \in Rows : log[r].status \in Terminal =>
       log'[r] = log[r] \/ log'[r].status = "DELETED"]_vars

(* Every active run is eventually finished, or deleted with its store.     *)
RunsFinish ==
  \A r \in Rows : log[r].status \in Active ~> log[r].status \in Terminal \cup {"DELETED"}

-----------------------------------------------------------------------------
(* Refinement: what callers of the queue rely on.  A row's phase is its    *)
(* status with the reason for waiting forgotten; done with are the pages   *)
(* some chunk stored and those that were given up.                         *)
Phase(r) ==
  CASE log[r].status \in {"PENDING", "FAILED_RETRYABLE"} -> "waiting"
    [] log[r].status = "RUNNING" -> "working"
    [] OTHER -> log[r].status

Runs == INSTANCE SyncRun WITH
  Runs     <- Rows,
  Length   <- PageCount,
  phase    <- [r \in Rows |-> Phase(r)],
  store    <- [r \in Rows |-> log[r].store],
  type     <- [r \in Rows |-> log[r].type],
  done     <- [r \in Rows |-> pages[r] \cup log[r].skipped],
  progress <- [r \in Rows |-> log[r].cursor]

(* The queue behaves as sequential, resumable runs: one per slot, none     *)
(* ever noted to be past a page that was not done with, each completing    *)
(* only with its last page, and ending once.                               *)
ImplementsRuns == Runs!Spec

=============================================================================

---------------------------- MODULE OrderIntake ----------------------------
(***************************************************************************)
(* One shipment package on its way into the books: the orders row, the     *)
(* live_performance_buffer row in which an order of today waits for its    *)
(* costs, and the stock its sale takes.                                    *)
(*                                                                         *)
(* Events of the package are taken in by the webhook consumer and by the   *)
(* orders sync, which do not exclude each other; the promote and flush     *)
(* ticks graduate the buffer row; the seller attaches costs; the business  *)
(* day ends.  Postgres runs at Read Committed, so what an intake read in   *)
(* one statement may be stale in the next one.  An upsert is two steps:    *)
(* the read of the watermark, and everything from the INSERT .. ON         *)
(* CONFLICT on, which holds the lock of the order row.                     *)
(***************************************************************************)
EXTENDS Integers, FiniteSets

CONSTANTS
  Events,        (* deliveries of the package                              *)
  Kind,          (* Kind[e]: "open", "cancelled", or "unpacked" (a split)  *)
  Stamp,         (* Stamp[e]: lastModifiedDate                             *)
  Lines,         (* order lines, each of one unit and with a variant       *)
  Intakers,      (* concurrent callers of intakeOrder                      *)
  Graduators,    (* concurrent promote or flush ticks                      *)
  CostMoves,     (* what the seller does: "attach", "detach", "archive"    *)
  MaxAttempts,   (* MAX_ATTEMPTS of the promote backoff                    *)
  MaxDeliveries, (* bound: intakes                                         *)
  MaxFailures    (* bound: interrupted intakes and failed graduations      *)

ASSUME EventsAssumption ==
  /\ Events # {}
  /\ Kind \in [Events -> {"open", "cancelled", "unpacked"}]
  /\ Stamp \in [Events -> Nat \ {0}]
ASSUME BoundsAssumption ==
  /\ MaxAttempts \in Nat /\ MaxDeliveries \in Nat /\ MaxFailures \in Nat
  /\ CostMoves \subseteq {"attach", "detach", "archive"}

VARIABLES
  order,        (* the orders row                                          *)
  buffer,       (* the live_performance_buffer row                         *)
  cost,         (* cost[l]: the newest cost profile linked to the variant  *)
  today,        (* the package's business day has not ended                *)
  units,        (* units per line the package has taken off the stock      *)
  intake,       (* intake[p]: what a caller of intakeOrder is doing        *)
  tick,         (* tick[g]: what a graduation is doing                     *)
  taken,        (* history: events whose intake has returned               *)
  owed,         (* events whose intake began and has not returned          *)
  reaped,       (* history: the reset cron deleted the buffer row          *)
  raced,        (* history: two writers of the order overlapped            *)
  deliveries, failures

books == <<order, buffer>>
world == <<cost, today>>
ledger == <<taken, owed, reaped, raced>>
vars == <<books, world, units, intake, tick, ledger, deliveries, failures>>

(***************************************************************************)
(* The rows.  Of an order: costed, every item has its cost snapshot; fees, *)
(* the estimated fees were written; profit, estimatedNetProfit is not NULL. *)
(***************************************************************************)
Order == [exists : BOOLEAN, stamp : Nat, cancelled : BOOLEAN,
          excluded : {"no", "late", "deadline"},
          costed : BOOLEAN, fees : BOOLEAN, profit : BOOLEAN]
NoOrder == [exists |-> FALSE, stamp |-> 0, cancelled |-> FALSE, excluded |-> "no",
            costed |-> FALSE, fees |-> FALSE, profit |-> FALSE]

Buffer == [status : {"none", "PENDING", "PROMOTING", "FAILED", "PERMANENT_FAILED"},
           event : Events, attempts : Nat, due : BOOLEAN]
NoBuffer == [status |-> "none", event |-> CHOOSE e \in Events : TRUE,
             attempts |-> 0, due |-> FALSE]

Intake == [pc : {"idle", "unpack", "delete", "ghost", "purge", "check", "lookup", "create",
                 "refresh", "rewrite", "begin", "commit"},
           event : Events, excluded : {"no", "late"}, stale : BOOLEAN, readd : BOOLEAN]
Idle == [pc |-> "idle", event |-> CHOOSE e \in Events : TRUE,
         excluded |-> "no", stale |-> FALSE, readd |-> FALSE]

Tick == [pc : {"idle", "commit", "failed", "marking"}, flush : BOOLEAN,
         excluded : {"no", "deadline"}, stale : BOOLEAN, attempts : Nat]
Resting == [pc |-> "idle", flush |-> FALSE, excluded |-> "no",
            stale |-> FALSE, attempts |-> 0]

Init ==
  /\ order = NoOrder
  /\ buffer = NoBuffer
  /\ cost \in [Lines -> {"none", "active"}]
  /\ today = TRUE
  /\ units = 0
  /\ intake = [p \in Intakers |-> Idle]
  /\ tick = [g \in Graduators |-> Resting]
  /\ taken = {}
  /\ owed = {}
  /\ reaped = FALSE
  /\ raced = FALSE
  /\ deliveries = 0
  /\ failures = 0

\* A graduation holds the lock of the buffer row until it commits.
Locked == \E g \in Graduators : tick[g].pc = "commit"

\* Between the read of the watermark and the commit of an upsert.
Writing == \/ \E p \in Intakers : intake[p].pc = "commit"
           \/ Locked
NoteRace == raced' = (raced \/ Writing)

Event(p) == intake[p].event

Go(p, pc) == intake' = [intake EXCEPT ![p] = [@ EXCEPT !.pc = pc]]

GoUpsert(p, excluded) ==
  intake' = [intake EXCEPT ![p] = [@ EXCEPT !.pc = "begin", !.excluded = excluded]]

Return(p) ==
  /\ intake' = [intake EXCEPT ![p] = Idle]
  /\ taken' = taken \cup {Event(p)}
  /\ owed' = owed \ {Event(p)}

Rest(g) == tick' = [tick EXCEPT ![g] = Resting]

-----------------------------------------------------------------------------
(* Faulty forms of some definitions, for the properties to tell apart.     *)
NeverStale(e) == FALSE
StaleUnlessEqual(e) == order.stamp # Stamp[e]
AlsoPromoting == {"PENDING", "PROMOTING", "PERMANENT_FAILED"}
EstimatesExcluded(o) == [o EXCEPT !.fees = TRUE, !.profit = o.costed]
FailedOffEnum(n) == [buffer EXCEPT !.status = "RETRY", !.attempts = n]
FailedWithoutRetry(n) == [buffer EXCEPT !.status = "FAILED", !.attempts = n, !.due = FALSE]
-----------------------------------------------------------------------------
(***************************************************************************)
(* The calculability gate looks for a linked profile, archived or not; the *)
(* snapshot needs one that is not archived.                                *)
(***************************************************************************)
Calculable == \A l \in Lines : cost[l] # "none"
Snapshotable == \A l \in Lines : cost[l] = "active"

\* The out-of-order guard.
Stale(e) == order.exists /\ Stamp[e] < order.stamp

Money(o) == <<o.costed, o.fees, o.profit>>

\* Every item of a new order, once; nothing for an excluded one.
CaptureCostSnapshot(o) ==
  IF o.excluded # "no" THEN o ELSE [o EXCEPT !.costed = Snapshotable]

\* Runs at the end of every upsert.  An order without all its snapshots keeps
\* its estimated fees and no profit; an excluded one is left as it is.
ApplyEstimateOnOrderCreate(o) ==
  IF o.excluded # "no" THEN o ELSE [o EXCEPT !.fees = TRUE, !.profit = o.costed]

\* A writer that excludes skips snapshot and estimate, and the exclusion is
\* written with a new row only; any other runs the estimate whatever the row is.
Upserted(e, excluded) ==
  LET row == IF order.exists THEN order
             ELSE CaptureCostSnapshot([NoOrder EXCEPT !.exists = TRUE, !.excluded = excluded])
      new == [row EXCEPT !.stamp = Stamp[e], !.cancelled = (Kind[e] = "cancelled")]
  IN  IF excluded = "no" THEN ApplyEstimateOnOrderCreate(new) ELSE new

\* A first insert of today takes its units, unless it is born cancelled.
UnitsTaken(e) == IF today /\ ~order.exists /\ Kind[e] # "cancelled" THEN 1 ELSE 0

(***************************************************************************)
(* intakeOrder.                                                            *)
(***************************************************************************)
Deliver(p, e) ==
  /\ intake[p].pc = "idle"
  /\ deliveries < MaxDeliveries
  /\ deliveries' = deliveries + 1
  /\ owed' = owed \cup {e}
  /\ intake' = [intake EXCEPT ![p] = [Idle EXCEPT !.event = e, !.pc =
       CASE Kind[e] = "unpacked"  -> "unpack"
         [] Kind[e] = "cancelled" -> "purge"
         [] OTHER                 -> "check"]]
  /\ UNCHANGED <<books, world, units, tick, taken, reaped, raced, failures>>

\* A split ghost: what the order row took, or else the buffer row, is re-added.
FindGhost(p) ==
  /\ intake[p].pc = "unpack"
  /\ intake' = [intake EXCEPT ![p] = [@ EXCEPT !.pc = "delete",
       !.readd = today /\ (order.exists \/ buffer.status # "none")]]
  /\ UNCHANGED <<books, world, units, tick, ledger, deliveries, failures>>

\* One transaction deletes the order, then the buffer row.  While it holds the
\* order row, a graduation of the package waits for it or fails.
Dematerialize(p) ==
  /\ intake[p].pc = "delete"
  /\ order.exists
  /\ ~Locked
  /\ units' = IF intake[p].readd THEN units - 1 ELSE units
  /\ order' = NoOrder
  /\ buffer' = NoBuffer
  /\ Return(p)
  /\ UNCHANGED <<world, tick, reaped, raced, deliveries, failures>>

\* Without an order row it holds nothing, and a graduation or another intake
\* may write the order before the buffer row is deleted: the ghost stays.
NoOrderToDelete(p) ==
  /\ intake[p].pc = "delete"
  /\ ~order.exists
  /\ Go(p, "ghost")
  /\ UNCHANGED <<books, world, units, tick, ledger, deliveries, failures>>

DeleteBuffered(p) ==
  /\ intake[p].pc = "ghost"
  /\ ~Locked
  /\ units' = IF intake[p].readd THEN units - 1 ELSE units
  /\ buffer' = NoBuffer
  /\ Return(p)
  /\ UNCHANGED <<order, world, tick, reaped, raced, deliveries, failures>>

\* A cancelled order must not wait in the buffer.
Purge(p) ==
  /\ intake[p].pc = "purge"
  /\ ~Locked
  /\ buffer' = NoBuffer
  /\ GoUpsert(p, "no")
  /\ UNCHANGED <<order, world, units, tick, ledger, deliveries, failures>>

Check(p) ==
  /\ intake[p].pc = "check"
  /\ IF Calculable THEN GoUpsert(p, "no")
     ELSE IF ~today THEN GoUpsert(p, "late")
     ELSE Go(p, "lookup")
  /\ UNCHANGED <<books, world, units, tick, ledger, deliveries, failures>>

\* No parallel buffer row for an order that is in the books already.
Lookup(p) ==
  /\ intake[p].pc = "lookup"
  /\ IF order.exists THEN GoUpsert(p, "no") ELSE Go(p, "create")
  /\ UNCHANGED <<books, world, units, tick, ledger, deliveries, failures>>

CreateBuffered(p) ==
  /\ intake[p].pc = "create"
  /\ buffer.status = "none"
  /\ buffer' = [NoBuffer EXCEPT !.status = "PENDING", !.event = Event(p)]
  /\ units' = IF today THEN units + 1 ELSE units
  /\ Return(p)
  /\ UNCHANGED <<order, world, tick, reaped, raced, deliveries, failures>>

\* The unique key refuses the row (P2002).
Deduplicate(p) ==
  /\ intake[p].pc = "create"
  /\ buffer.status # "none"
  /\ Go(p, "refresh")
  /\ UNCHANGED <<books, world, units, tick, ledger, deliveries, failures>>

ReadSnapshot(p) ==
  /\ intake[p].pc = "refresh"
  /\ IF buffer.status = "PENDING" /\ Stamp[buffer.event] < Stamp[Event(p)]
     THEN Go(p, "rewrite") /\ UNCHANGED <<taken, owed>>
     ELSE Return(p)
  /\ UNCHANGED <<books, world, units, tick, reaped, raced, deliveries, failures>>

RefreshSnapshot(p) ==
  /\ intake[p].pc = "rewrite"
  /\ ~Locked
  /\ buffer' = IF buffer.status = "PENDING" THEN [buffer EXCEPT !.event = Event(p)] ELSE buffer
  /\ Return(p)
  /\ UNCHANGED <<order, world, units, tick, reaped, raced, deliveries, failures>>

BeginUpsert(p) ==
  /\ intake[p].pc = "begin"
  /\ intake' = [intake EXCEPT ![p] = [@ EXCEPT !.pc = "commit", !.stale = Stale(Event(p))]]
  /\ NoteRace
  /\ UNCHANGED <<books, world, units, tick, taken, owed, reaped, deliveries, failures>>

CommitUpsert(p) ==
  /\ intake[p].pc = "commit"
  /\ IF intake[p].stale
     THEN UNCHANGED <<order, units>>
     ELSE /\ order' = Upserted(Event(p), intake[p].excluded)
          /\ units' = units + UnitsTaken(Event(p))
  /\ Return(p)
  /\ UNCHANGED <<buffer, world, tick, reaped, raced, deliveries, failures>>

\* The process dies or a statement throws; a transaction rolls back.
Interrupt(p) ==
  /\ intake[p].pc # "idle"
  /\ failures < MaxFailures
  /\ failures' = failures + 1
  /\ intake' = [intake EXCEPT ![p] = Idle]
  /\ UNCHANGED <<books, world, units, tick, ledger, deliveries>>

(***************************************************************************)
(* The promote and flush ticks: FOR UPDATE SKIP LOCKED, eligibility again  *)
(* under the lock, then order and buffer row in one transaction.           *)
(***************************************************************************)
RetryDue == buffer.status = "FAILED" /\ buffer.attempts <= MaxAttempts /\ buffer.due

Graduating(g, flush, excluded) ==
  /\ tick' = [tick EXCEPT ![g] = [Resting EXCEPT !.pc = "commit", !.flush = flush,
                                    !.excluded = excluded, !.stale = Stale(buffer.event)]]
  /\ NoteRace

\* An entry that lost its costs goes back to waiting while its day lasts.
PromoteOne(g) ==
  /\ tick[g].pc = "idle"
  /\ ~Locked
  /\ buffer.status = "PROMOTING" \/ RetryDue
  /\ \/ Calculable /\ Graduating(g, FALSE, "no") /\ UNCHANGED buffer
     \/ ~Calculable /\ ~today /\ Graduating(g, FALSE, "deadline") /\ UNCHANGED buffer
     \/ ~Calculable /\ today /\ buffer' = [buffer EXCEPT !.status = "PENDING"] /\ UNCHANGED <<tick, raced>>
  /\ UNCHANGED <<order, world, units, intake, taken, owed, reaped, deliveries, failures>>

Flushable == {"PENDING", "PERMANENT_FAILED"}

FlushOne(g) ==
  /\ tick[g].pc = "idle"
  /\ ~Locked
  /\ ~today
  /\ buffer.status \in Flushable
  /\ Graduating(g, TRUE, "deadline")
  /\ UNCHANGED <<books, world, units, intake, taken, owed, reaped, deliveries, failures>>

Graduate(g) ==
  /\ tick[g].pc = "commit"
  /\ order' = IF tick[g].stale THEN order ELSE Upserted(buffer.event, tick[g].excluded)
  /\ buffer' = NoBuffer
  /\ Rest(g)
  /\ UNCHANGED <<world, units, intake, ledger, deliveries, failures>>

\* The transaction rolls back; the failure is recorded outside of it.
GraduationFails(g) ==
  /\ tick[g].pc = "commit"
  /\ failures < MaxFailures
  /\ failures' = failures + 1
  /\ tick' = [tick EXCEPT ![g] = [@ EXCEPT !.pc = "failed"]]
  /\ UNCHANGED <<books, world, units, intake, ledger, deliveries>>

\* A flush leaves a PERMANENT_FAILED row as it is.
ReadFailed(g) ==
  /\ tick[g].pc = "failed"
  /\ IF buffer.status = "none" \/ (tick[g].flush /\ buffer.status = "PERMANENT_FAILED")
     THEN Rest(g)
     ELSE tick' = [tick EXCEPT ![g] = [@ EXCEPT !.pc = "marking", !.attempts = buffer.attempts]]
  /\ UNCHANGED <<books, world, units, intake, ledger, deliveries, failures>>

FailedAgain(n) ==
  [buffer EXCEPT !.status = IF n > MaxAttempts THEN "PERMANENT_FAILED" ELSE "FAILED",
                 !.attempts = n, !.due = FALSE]

\* The status is overwritten whatever it is by now; without a row it throws.
MarkFailed(g) ==
  /\ tick[g].pc = "marking"
  /\ ~Locked
  /\ buffer' = IF buffer.status = "none" THEN buffer ELSE FailedAgain(tick[g].attempts + 1)
  /\ Rest(g)
  /\ UNCHANGED <<order, world, units, intake, ledger, deliveries, failures>>

BackoffElapses ==
  /\ buffer.status = "FAILED"
  /\ ~buffer.due
  /\ buffer' = [buffer EXCEPT !.due = TRUE]
  /\ UNCHANGED <<order, world, units, intake, tick, ledger, deliveries, failures>>

\* The nightly cron, a week after the package's day.
ResetBuffer ==
  /\ ~today
  /\ ~Locked
  /\ buffer.status = "PERMANENT_FAILED"
  /\ buffer' = NoBuffer
  /\ reaped' = TRUE
  /\ UNCHANGED <<order, world, units, intake, tick, taken, owed, raced, deliveries, failures>>

(***************************************************************************)
(* The seller and the calendar.                                            *)
(***************************************************************************)
\* Linking a profile flips a waiting entry that has become calculable.
Attach(l) ==
  /\ "attach" \in CostMoves
  /\ cost[l] # "active"
  /\ buffer.status = "PENDING" => ~Locked
  /\ cost' = [cost EXCEPT ![l] = "active"]
  /\ buffer' = IF buffer.status = "PENDING" /\ \A k \in Lines : cost'[k] # "none"
               THEN [buffer EXCEPT !.status = "PROMOTING"] ELSE buffer
  /\ UNCHANGED <<order, today, units, intake, tick, ledger, deliveries, failures>>

Detach(l) ==
  /\ "detach" \in CostMoves
  /\ cost[l] # "none"
  /\ cost' = [cost EXCEPT ![l] = "none"]
  /\ UNCHANGED <<books, today, units, intake, tick, ledger, deliveries, failures>>

ArchiveOrRestore(l) ==
  /\ "archive" \in CostMoves
  /\ \/ cost[l] = "active"   /\ cost' = [cost EXCEPT ![l] = "archived"]
     \/ cost[l] = "archived" /\ cost' = [cost EXCEPT ![l] = "active"]
  /\ UNCHANGED <<books, today, units, intake, tick, ledger, deliveries, failures>>

Midnight ==
  /\ today
  /\ today' = FALSE
  /\ UNCHANGED <<books, cost, units, intake, tick, ledger, deliveries, failures>>

-----------------------------------------------------------------------------
Take(p) ==
  \/ FindGhost(p) \/ Dematerialize(p) \/ NoOrderToDelete(p) \/ DeleteBuffered(p)
  \/ Purge(p) \/ Check(p) \/ Lookup(p)
  \/ CreateBuffered(p) \/ Deduplicate(p) \/ ReadSnapshot(p) \/ RefreshSnapshot(p)
  \/ BeginUpsert(p) \/ CommitUpsert(p)

Promote(g) == PromoteOne(g) \/ Graduate(g) \/ ReadFailed(g) \/ MarkFailed(g)

Next ==
  \/ \E p \in Intakers : (\E e \in Events : Deliver(p, e)) \/ Take(p) \/ Interrupt(p)
  \/ \E g \in Graduators : Promote(g) \/ FlushOne(g) \/ GraduationFails(g)
  \/ \E l \in Lines : Attach(l) \/ Detach(l) \/ ArchiveOrRestore(l)
  \/ BackoffElapses \/ ResetBuffer \/ Midnight

Spec == Init /\ [][Next]_vars

(***************************************************************************)
(* Fairness: what was begun goes on; both ticks fire every 5 s, backoffs   *)
(* and the day end.  Nothing is assumed of the vendor or of the seller.    *)
(***************************************************************************)
Fairness ==
  /\ \A p \in Intakers : WF_vars(Take(p))
  /\ \A g \in Graduators : WF_vars(Promote(g)) /\ WF_vars(FlushOne(g))
  /\ WF_vars(BackoffElapses)
  /\ WF_vars(Midnight)

FairSpec == Spec /\ Fairness

-----------------------------------------------------------------------------
(* Types of all the variables.                                             *)
TypeOK ==
  /\ order \in Order
  /\ buffer \in Buffer
  /\ cost \in [Lines -> {"none", "active", "archived"}]
  /\ today \in BOOLEAN /\ reaped \in BOOLEAN /\ raced \in BOOLEAN
  /\ units \in Int
  /\ intake \in [Intakers -> Intake]
  /\ tick \in [Graduators -> Tick]
  /\ taken \subseteq Events /\ owed \subseteq Events
  /\ deliveries \in Nat /\ failures \in Nat

Settled == owed = {} /\ \A p \in Intakers : intake[p].pc = "idle"
Dissolved == \E e \in taken \cup owed : Kind[e] = "unpacked"

(* Once an event of the package was taken in and no intake is owed, the    *)
(* package is in one of the books, however intakes, purges, graduations    *)
(* and failures interleaved; it leaves them only as a split ghost, or as a *)
(* buffer row the nightly cron reaps.                                      *)
NothingLost ==
  taken # {} /\ Settled /\ ~Dissolved /\ ~reaped => order.exists \/ buffer.status # "none"

(* The freeze of profit: an excluded order stays excluded and never gets a *)
(* cost snapshot, a fee or a profit, although the estimate runs on it      *)
(* again whenever a later event finds its costs attached.                  *)
ExcludedIsFrozen ==
  [][order.exists /\ order.excluded # "no" /\ order'.exists
       => order'.excluded = order.excluded /\ Money(order') = <<FALSE, FALSE, FALSE>>]_vars

(* An order never goes back to an older event, in whatever order the       *)
(* deliveries arrive and are repeated, as long as no two writers of it     *)
(* overlapped between the watermark they read and their commit.            *)
OrderNeverRegresses ==
  [][order.exists /\ order'.exists /\ ~raced => order'.stamp >= order.stamp]_vars

(* The flush never excludes an entry whose costs arrived: as long as it    *)
(* has one in hand, the entry is one that no attach has turned over to the *)
(* promote tick and no failure has scheduled for another try.              *)
FlushedIsUnpromised ==
  \A g \in Graduators : tick[g].pc = "commit" /\ tick[g].flush =>
    buffer.status \in {"PENDING", "PERMANENT_FAILED"}

(* A row that waits in the buffer leaves it: as an order, with or without  *)
(* profit, or at the latest after its day.                                 *)
BufferDrains == buffer.status # "none" ~> buffer.status = "none"

(* What intakeOrder says of the stock: the units of the package drop once  *)
(* over its life in buffer and orders.                                     *)
UnitsDropOnce == units <= 1

=============================================================================

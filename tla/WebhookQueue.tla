---------------------------- MODULE WebhookQueue ----------------------------
(***************************************************************************)
(* The durable webhook queue: the webhook_events table, the receiver route *)
(* that fills it, the consumer tick of the sync worker that drains it, the *)
(* emergency mode in which the route processes an event itself, and the    *)
(* retention tick.                                                         *)
(*                                                                         *)
(* A processor claims an event with one conditional UPDATE, works on it,   *)
(* and stamps it processed; an event whose processing throws is scheduled  *)
(* again with a backoff, and given up after MaxAttempts claims.  Leases    *)
(* are not renewed: Timely says that a claim's work ends before its lease  *)
(* does, which the code asks of its callers and does not enforce.          *)
(***************************************************************************)
EXTENDS Integers, Sequences

CONSTANTS
  Deliveries,     (* distinct events: (taken, status, lastModifiedDate)    *)
  Drops,          (* deliveries the route drops: supplier mismatch, sandbox *)
  UnknownStatuses, (* deliveries with a status the mapping does not know   *)
  DeadEnds,       (* deliveries whose payload some version of the code     *)
                  (* refuses: payload defect, schema drift; a deployment   *)
                  (* may come between two attempts                         *)
  Returns,        (* deliveries with status RETURNED                       *)
  Ticks,          (* worker processes, each with one tick in flight        *)
  Handlers,       (* concurrent requests of the API in inline mode         *)
  Inline,         (* WEBHOOK_INTAKE_INLINE                                 *)
  ScanLimit,      (* SCAN_LIMIT                                            *)
  MaxAttempts,    (* MAX_PROCESS_ATTEMPTS                                  *)
  Timely,         (* work on a claim ends within WEBHOOK_EVENT_LEASE_MS    *)
  MaxInterrupts   (* bound: crashes and errors that escape a processor     *)

Processors == Ticks \cup Handlers

ASSUME LimitsAssumption ==
  /\ ScanLimit \in Nat \ {0} /\ MaxAttempts \in Nat \ {0} /\ MaxInterrupts \in Nat
  /\ Inline \in BOOLEAN /\ Timely \in BOOLEAN
  /\ Ticks \cap Handlers = {}

VARIABLES
  event,      (* event[d]: the webhook_events row of delivery d            *)
  arrival,    (* the rows that were inserted open, in order of received_at *)
  proc,       (* proc[p]: what a processor is doing                        *)
  taken,      (* deliveries whose order intake committed, at least once    *)
  acked,      (* deliveries that were answered 200                         *)
  claims,     (* an active CLAIMS run exists for the store                 *)
  deleted,    (* the store was disconnected                                *)
  interrupts  (* how many crashes and escaped errors there were            *)

vars == <<event, arrival, proc, taken, acked, claims, deleted, interrupts>>

(***************************************************************************)
(* A row, and a processor.  A processor works on the head of its batch.    *)
(***************************************************************************)
Event == [state    : {"absent", "open", "closed", "gone"},
          attempts : Nat,
          due      : BOOLEAN,
          error    : {"none", "transient", "exhausted", "deadend", "dropped"}]

Absent == [state |-> "absent", attempts |-> 0, due |-> TRUE, error |-> "none"]

Processor == [pc       : {"idle", "scan", "leased", "written", "failed", "recording", "claims"},
              batch    : Seq(Deliveries),
              attempts : Nat]

Idle == [pc |-> "idle", batch |-> <<>>, attempts |-> 0]

Init ==
  /\ event = [d \in Deliveries |-> Absent]
  /\ arrival = <<>>
  /\ proc = [p \in Processors |-> Idle]
  /\ taken = {}
  /\ acked = {}
  /\ claims = FALSE
  /\ deleted = FALSE
  /\ interrupts = 0

Exists(d)  == event[d].state \in {"open", "closed"}
Current(p) == Head(proc[p].batch)
Works(p, d) == proc[p].pc \notin {"idle", "scan"} /\ Current(p) = d

\* The processor is done with its current event and turns to the next one.
Rest(p) ==
  IF Len(proc[p].batch) = 1 THEN Idle
  ELSE [pc |-> "scan", batch |-> Tail(proc[p].batch), attempts |-> 0]

\* An inline request answers 200 when it is done.
MoveOn(p) ==
  /\ proc' = [proc EXCEPT ![p] = Rest(p)]
  /\ acked' = IF p \in Handlers THEN acked \cup {Current(p)} ELSE acked

GoTo(p, pc) ==
  /\ proc' = [proc EXCEPT ![p] = [@ EXCEPT !.pc = pc]]
  /\ UNCHANGED acked

-----------------------------------------------------------------------------
(* Faulty forms of some definitions, for the properties to tell apart.     *)
EligibleEvenIfLeased(d) == event[d].state = "open"
EligibleEvenIfProcessed(d) == Exists(d) /\ event[d].due
LeasedUncounted(d) == [event[d] EXCEPT !.due = FALSE]
PrunesOpenRows(d) == Exists(d)
BackoffOffEnum(d) == [event[d] EXCEPT !.error = "retry", !.due = FALSE]
-----------------------------------------------------------------------------
(***************************************************************************)
(* The receiver route.                                                     *)
(***************************************************************************)
\* A new delivery is inserted.  A deterministic drop is inserted closed; an
\* event is left to the consumer and answered at once, or handed to this very
\* request in inline mode.
Receive(d) ==
  /\ ~deleted
  /\ event[d].state = "absent"
  /\ arrival' = IF d \in Drops THEN arrival ELSE Append(arrival, d)
  /\ event' = [event EXCEPT ![d] =
       IF d \in Drops THEN [Absent EXCEPT !.state = "closed", !.error = "dropped"]
       ELSE [Absent EXCEPT !.state = "open"]]
  /\ IF Inline /\ d \notin Drops
     THEN /\ \E h \in Handlers :
               /\ proc[h] = Idle
               /\ proc' = [proc EXCEPT ![h] = [Idle EXCEPT !.pc = "scan", !.batch = <<d>>]]
          /\ UNCHANGED acked
     ELSE acked' = acked \cup {d} /\ UNCHANGED proc
  /\ UNCHANGED <<taken, claims, deleted, interrupts>>

\* The row of a dropped event cannot be written; it is answered 200 all the same.
DropUnrecorded(d) ==
  /\ ~deleted
  /\ d \in Drops
  /\ event[d].state = "absent"
  /\ acked' = acked \cup {d}
  /\ UNCHANGED <<event, arrival, proc, taken, claims, deleted, interrupts>>

\* The vendor repeats a request until it is answered 200; the unique key
\* refuses the insert and the request is only acknowledged.
ReDelivery(d) ==
  /\ ~deleted
  /\ Exists(d)
  /\ d \notin acked
  /\ acked' = acked \cup {d}
  /\ UNCHANGED <<event, arrival, proc, taken, claims, deleted, interrupts>>

(***************************************************************************)
(* The consumer tick: a lock-free scan, then a claim for each row of it.   *)
(***************************************************************************)
Eligible(d) == event[d].state = "open" /\ event[d].due

\* The oldest due rows, as many as the scan reads: their places in the order
\* of arrival.
Due == {i \in DOMAIN arrival : Eligible(arrival[i])}

Oldest(at, n) ==
  /\ \A j, k \in 1 .. n : j < k => at[j] < at[k]
  /\ \A i \in Due : (\E k \in 1 .. n : at[k] = i) \/ (n = ScanLimit /\ at[n] < i)

Scan(p) ==
  /\ p \in Ticks
  /\ proc[p] = Idle
  /\ \E n \in 1 .. ScanLimit : \E at \in [1 .. n -> Due] :
       /\ Oldest(at, n)
       /\ proc' = [proc EXCEPT ![p] =
            [Idle EXCEPT !.pc = "scan", !.batch = [k \in 1 .. n |-> arrival[at[k]]]]]
  /\ UNCHANGED <<event, arrival, taken, acked, claims, deleted, interrupts>>

Leased(d) == [event[d] EXCEPT !.attempts = event[d].attempts + 1, !.due = FALSE]

ClaimWebhookEventLease(p) ==
  /\ proc[p].pc = "scan"
  /\ Eligible(Current(p))
  /\ event' = [event EXCEPT ![Current(p)] = Leased(Current(p))]
  /\ GoTo(p, "leased")
  /\ UNCHANGED <<arrival, taken, claims, deleted, interrupts>>

\* The conditional UPDATE matched no row: another processor owns the event.
NotLeased(p) ==
  /\ proc[p].pc = "scan"
  /\ ~Eligible(Current(p))
  /\ MoveOn(p)
  /\ UNCHANGED <<event, arrival, taken, claims, deleted, interrupts>>

(***************************************************************************)
(* Processing.                                                             *)
(***************************************************************************)
\* The tick reads the store and finds none: its rows are gone too, the closing
\* stamp matches no row and the error ends the tick.
StoreNotFound(p) ==
  /\ p \in Ticks
  /\ proc[p].pc = "leased"
  /\ deleted
  /\ proc' = [proc EXCEPT ![p] = Idle]
  /\ UNCHANGED <<event, arrival, taken, acked, claims, deleted, interrupts>>

\* processed_at is written whatever the row says.
Closed(d, error) == [event[d] EXCEPT !.state = "closed", !.error = error]

\* The tick parses the stored payload once more; a request has just done so.
CloseSchemaDrift(p) ==
  /\ p \in Ticks
  /\ proc[p].pc = "leased"
  /\ Current(p) \in DeadEnds
  /\ Exists(Current(p))
  /\ event' = [event EXCEPT ![Current(p)] = Closed(Current(p), "deadend")]
  /\ MoveOn(p)
  /\ UNCHANGED <<arrival, taken, claims, deleted, interrupts>>

\* An unknown status is stamped processed and nothing more: no order is taken
\* in, and what an earlier failure noted on the row stays there.
IgnoreUnknownStatus(p) ==
  /\ proc[p].pc = "leased"
  /\ Current(p) \in UnknownStatuses
  /\ Exists(Current(p))
  /\ event' = [event EXCEPT ![Current(p)] = Closed(Current(p), @.error)]
  /\ MoveOn(p)
  /\ UNCHANGED <<arrival, taken, claims, deleted, interrupts>>

\* The status is known and the payload cannot be mapped all the same.
CloseUnmappable(p) ==
  /\ proc[p].pc = "leased"
  /\ Current(p) \in DeadEnds \ UnknownStatuses
  /\ Exists(Current(p))
  /\ event' = [event EXCEPT ![Current(p)] = Closed(Current(p), "deadend")]
  /\ MoveOn(p)
  /\ UNCHANGED <<arrival, taken, claims, deleted, interrupts>>

\* intakeOrder commits; what it does to the order is module OrderIntake's.
IntakeOrder(p) ==
  /\ proc[p].pc = "leased"
  /\ Current(p) \notin UnknownStatuses
  /\ ~deleted
  /\ taken' = taken \cup {Current(p)}
  /\ GoTo(p, "written")
  /\ UNCHANGED <<event, arrival, claims, deleted, interrupts>>

\* A faulty form: the event is stamped before its order is taken in.
StampBeforeIntake(p) ==
  /\ proc[p].pc = "leased"
  /\ Exists(Current(p))
  /\ event' = [event EXCEPT ![Current(p)] = Closed(Current(p), "none")]
  /\ MoveOn(p)
  /\ UNCHANGED <<arrival, taken, claims, deleted, interrupts>>

StampProcessed(p) ==
  /\ proc[p].pc = "written"
  /\ Exists(Current(p))
  /\ event' = [event EXCEPT ![Current(p)] = Closed(Current(p), "none")]
  /\ IF Current(p) \in Returns THEN GoTo(p, "claims") ELSE MoveOn(p)
  /\ UNCHANGED <<arrival, taken, claims, deleted, interrupts>>

\* RETURNED accelerates the claims sync; an active run, or a failure to
\* enqueue one, changes nothing.
EnqueueClaims(p) ==
  /\ proc[p].pc = "claims"
  /\ claims' \in IF deleted THEN {claims} ELSE {TRUE, claims}
  /\ MoveOn(p)
  /\ UNCHANGED <<event, arrival, taken, deleted, interrupts>>

ClaimsRunEnds ==
  /\ claims
  /\ claims' = FALSE
  /\ UNCHANGED <<event, arrival, proc, taken, acked, deleted, interrupts>>

(***************************************************************************)
(* A transient fault: recordTransientProcessingFailure reads the attempt   *)
(* counter and writes the row in a second statement.                       *)
(***************************************************************************)
Throws(p) ==
  /\ proc[p].pc \in {"leased", "written"}
  /\ GoTo(p, "failed")
  /\ UNCHANGED <<event, arrival, taken, claims, deleted, interrupts>>

ReadAttempts(p) ==
  /\ proc[p].pc = "failed"
  /\ IF Exists(Current(p))
     THEN /\ proc' = [proc EXCEPT ![p] = [@ EXCEPT !.pc = "recording",
                                                   !.attempts = event[Current(p)].attempts]]
          /\ UNCHANGED acked
     ELSE MoveOn(p)
  /\ UNCHANGED <<event, arrival, taken, claims, deleted, interrupts>>

Exhausted(n) == n >= MaxAttempts

Backoff(d) == [event[d] EXCEPT !.error = "transient", !.due = FALSE]

RecordTransientProcessingFailure(p) ==
  /\ proc[p].pc = "recording"
  /\ Exists(Current(p))
  /\ event' = [event EXCEPT ![Current(p)] =
       IF Exhausted(proc[p].attempts) THEN Closed(Current(p), "exhausted")
       ELSE Backoff(Current(p))]
  /\ MoveOn(p)
  /\ UNCHANGED <<arrival, taken, claims, deleted, interrupts>>

\* The row is gone by now: the update throws, and the tick ends.
RowVanished(p) ==
  /\ proc[p].pc = "recording"
  /\ ~Exists(Current(p))
  /\ proc' = [proc EXCEPT ![p] = Idle]
  /\ UNCHANGED <<event, arrival, taken, acked, claims, deleted, interrupts>>

\* The process dies, or a database error escapes the processor.
Interrupted(p) ==
  /\ proc[p] # Idle
  /\ interrupts < MaxInterrupts
  /\ interrupts' = interrupts + 1
  /\ proc' = [proc EXCEPT ![p] = Idle]
  /\ UNCHANGED <<event, arrival, taken, acked, claims, deleted>>

(***************************************************************************)
(* The clock, the retention tick, and the deletion of the store.           *)
(***************************************************************************)
LeaseOrBackoffElapses(d) ==
  /\ Exists(d)
  /\ ~event[d].due
  /\ Timely => \A p \in Processors : ~Works(p, d)
  /\ event' = [event EXCEPT ![d] = [@ EXCEPT !.due = TRUE]]
  /\ UNCHANGED <<arrival, proc, taken, acked, claims, deleted, interrupts>>

Prunable(d) == event[d].state = "closed"

\* Rows live for months, a claim for minutes: nobody works on a pruned row.
WebhookEventCleanup(d) ==
  /\ Prunable(d)
  /\ \A p \in Processors : ~Works(p, d)
  /\ event' = [event EXCEPT ![d] = [@ EXCEPT !.state = "gone"]]
  /\ UNCHANGED <<arrival, proc, taken, acked, claims, deleted, interrupts>>

DisconnectStore ==
  /\ ~deleted
  /\ deleted' = TRUE
  /\ claims' = FALSE
  /\ event' = [d \in Deliveries |-> IF event[d].state = "absent" THEN event[d]
                                    ELSE [event[d] EXCEPT !.state = "gone"]]
  /\ UNCHANGED <<arrival, proc, taken, acked, interrupts>>

Process(p) ==
  \/ ClaimWebhookEventLease(p) \/ NotLeased(p) \/ StoreNotFound(p)
  \/ CloseSchemaDrift(p) \/ IgnoreUnknownStatus(p) \/ CloseUnmappable(p)
  \/ IntakeOrder(p) \/ StampProcessed(p) \/ EnqueueClaims(p) \/ Throws(p)
  \/ ReadAttempts(p) \/ RecordTransientProcessingFailure(p) \/ RowVanished(p)

Next ==
  \/ \E d \in Deliveries : Receive(d) \/ DropUnrecorded(d) \/ ReDelivery(d)
  \/ \E p \in Processors : Scan(p) \/ Process(p) \/ Interrupted(p)
  \/ \E d \in Deliveries : LeaseOrBackoffElapses(d) \/ WebhookEventCleanup(d)
  \/ ClaimsRunEnds
  \/ DisconnectStore

Spec == Init /\ [][Next]_vars

(***************************************************************************)
(* Fairness: the tick fires every 5 s and finishes its batch, leases and   *)
(* backoffs run out.  The vendor owes us nothing.                          *)
(***************************************************************************)
Fairness ==
  /\ \A p \in Processors : WF_vars(Scan(p)) /\ WF_vars(Process(p))
  /\ \A d \in Deliveries : WF_vars(LeaseOrBackoffElapses(d))

FairSpec == Spec /\ Fairness

-----------------------------------------------------------------------------
(* Types of all the variables.                                             *)
TypeOK ==
  /\ event \in [Deliveries -> Event]
  /\ arrival \in Seq(Deliveries)
  /\ proc \in [Processors -> Processor]
  /\ taken \subseteq Deliveries
  /\ acked \subseteq Deliveries
  /\ claims \in BOOLEAN
  /\ deleted \in BOOLEAN
  /\ interrupts \in Nat

(* At most one processor works on an event, although a tick of another     *)
(* process and an inline request may race for it and its lease may have    *)
(* run out in a crash.                                                     *)
SoleProcessor ==
  \A p, q \in Processors, d \in Deliveries : Works(p, d) /\ Works(q, d) => p = q

(* An event whose row is closed without an error was taken in, unless its  *)
(* status is one the mapping does not know; any other that was not taken   *)
(* in leaves the queue with the reason on the row, whatever crashed, was   *)
(* retried or was claimed by whom.                                         *)
ProcessedWasTakenIn ==
  \A d \in Deliveries :
    event[d].state = "closed" /\ event[d].error = "none" => d \in taken \cup UnknownStatuses

(* The order intake runs for an event only while its row is open and       *)
(* leased: an event that was closed is never taken in again.               *)
IntakeUnderLease ==
  [][\A p \in Processors :
       proc[p].pc = "leased" /\ proc'[p].pc = "written" =>
         event[Current(p)].state = "open" /\ ~event[Current(p)].due]_vars

(* A request answered 200 has its row, unless the event was to be dropped, *)
(* and a row leaves the queue only when it was closed: retention never     *)
(* prunes an event nobody processed.                                       *)
AckedIsDurable ==
  [][\A d \in Deliveries :
       /\ d \in acked' \ Drops => event'[d].state # "absent"
       /\ event[d].state = "open" /\ ~deleted' => event'[d].state \in {"open", "closed"}]_vars

(* What was closed stays closed for the same reason: a late failure never  *)
(* reopens an event, or marks one as exhausted that was processed.         *)
ClosedIsFinal ==
  [][\A d \in Deliveries : event[d].state = "closed" =>
       event'[d].state = "gone" \/ (event'[d].state = "closed" /\ event'[d].error = event[d].error)]_vars

(* Every event that is on the queue is eventually taken off it.            *)
QueueDrains == \A d \in Deliveries : event[d].state = "open" ~> event[d].state # "open"

-----------------------------------------------------------------------------
(* Refinement.                                                             *)
StatusOf(d) ==
  CASE event[d].state = "absent" -> "unseen"
    [] event[d].state = "open"   -> "queued"
    [] event[d].state = "gone"   -> "forgotten"
    [] event[d].state = "closed" -> IF event[d].error = "none" THEN "done" ELSE "gaveUp"

Delivery == INSTANCE EventDelivery WITH
  Ignorable <- UnknownStatuses,
  status    <- [d \in Deliveries |-> StatusOf(d)],
  applied   <- taken

(* The queue delivers: it applies an event only while it is queued, and    *)
(* settles it as done only when it was applied or its status is unknown.   *)
ImplementsDelivery == Delivery!Spec

=============================================================================

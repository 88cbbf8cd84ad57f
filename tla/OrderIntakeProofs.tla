------------------------- MODULE OrderIntakeProofs -------------------------
(***************************************************************************)
(* Theorems about the order intake, for every number of events, lines,     *)
(* intakes and graduations in flight, attempts and failures.               *)
(***************************************************************************)
EXTENDS OrderIntake, TLAPS

-----------------------------------------------------------------------------
(* Types.                                                                  *)
-----------------------------------------------------------------------------
LEMMA Constants ==
  /\ (CHOOSE e \in Events : TRUE) \in Events
  /\ \A e \in Events : Kind[e] \in {"open", "cancelled", "unpacked"} /\ Stamp[e] \in Nat
BY EventsAssumption

LEMMA RestingTypes ==
  NoOrder \in Order /\ NoBuffer \in Buffer /\ Idle \in Intake /\ Resting \in Tick
BY Constants DEF NoOrder, Order, NoBuffer, Buffer, Idle, Intake, Resting, Tick

LEMMA TypesOf ==
  ASSUME TypeOK
  PROVE  /\ \A p \in Intakers : /\ intake[p] \in Intake /\ Event(p) \in Events
                                /\ intake[p].excluded \in {"no", "late"}
         /\ \A g \in Graduators : /\ tick[g] \in Tick /\ tick[g].attempts \in Nat
                                  /\ tick[g].excluded \in {"no", "deadline"}
         /\ buffer.event \in Events /\ buffer.attempts \in Nat
         /\ order.stamp \in Nat
BY DEF TypeOK, Intake, Tick, Buffer, Order, Event

\* One caller of the intake goes on, the others stay where they are.
Apart(p) == \A q \in Intakers \ {p} : intake'[q] = intake[q]

LEMMA Moves ==
  ASSUME TypeOK, NEW p \in Intakers, NEW next \in Intake, intake' = [intake EXCEPT ![p] = next]
  PROVE  intake' \in [Intakers -> Intake] /\ intake'[p] = next /\ Apart(p)
BY DEF TypeOK, Apart

LEMMA Goes ==
  ASSUME TypeOK, NEW p \in Intakers,
         NEW pc \in {"idle", "unpack", "delete", "ghost", "purge", "check", "lookup", "create",
                     "refresh", "rewrite", "begin", "commit"},
         Go(p, pc)
  PROVE  /\ intake' \in [Intakers -> Intake] /\ Apart(p)
         /\ intake'[p].pc = pc /\ intake'[p].event = Event(p)
<1>1. intake[p] \in Intake
  BY TypesOf
<1>2. intake' = [intake EXCEPT ![p] = [intake[p] EXCEPT !.pc = pc]]
  BY DEF Go
<1>3. [intake[p] EXCEPT !.pc = pc] \in Intake
  BY <1>1 DEF Intake
<1>4. [intake[p] EXCEPT !.pc = pc].pc = pc /\ [intake[p] EXCEPT !.pc = pc].event = Event(p)
  BY <1>1 DEF Intake, Event
<1> QED
  BY <1>2, <1>3, <1>4, Moves

LEMMA GoesUpsert ==
  ASSUME TypeOK, NEW p \in Intakers, NEW excluded \in {"no", "late"}, GoUpsert(p, excluded)
  PROVE  /\ intake' \in [Intakers -> Intake] /\ Apart(p)
         /\ intake'[p].pc = "begin" /\ intake'[p].event = Event(p)
<1> DEFINE next == [intake[p] EXCEPT !.pc = "begin", !.excluded = excluded]
<1>1. intake[p] \in Intake
  BY TypesOf
<1>2. intake' = [intake EXCEPT ![p] = next]
  BY DEF GoUpsert
<1>3. next \in Intake /\ next.pc = "begin" /\ next.event = Event(p)
  BY <1>1 DEF Intake, Event
<1> HIDE DEF next
<1> QED
  BY <1>2, <1>3, Moves

LEMMA Returns ==
  ASSUME TypeOK, NEW p \in Intakers, Return(p)
  PROVE  /\ intake' \in [Intakers -> Intake] /\ Apart(p)
         /\ intake'[p].pc = "idle"
         /\ taken' = taken \cup {Event(p)} /\ owed' = owed \ {Event(p)}
         /\ taken' \subseteq Events /\ owed' \subseteq Events
<1>1. Idle \in Intake /\ Idle.pc = "idle" /\ Event(p) \in Events
  BY RestingTypes, TypesOf DEF Idle
<1>2. intake' = [intake EXCEPT ![p] = Idle] /\ taken' = taken \cup {Event(p)} /\ owed' = owed \ {Event(p)}
  BY DEF Return
<1> QED
  BY <1>1, <1>2, Moves DEF TypeOK

Nothing == <<FALSE, FALSE, FALSE>>

\* Snapshot and estimate keep an order's type and the fields that are not money,
\* and leave an excluded order alone.
LEMMA Estimates ==
  ASSUME NEW o \in Order
  PROVE  /\ CaptureCostSnapshot(o) \in Order /\ ApplyEstimateOnOrderCreate(o) \in Order
         /\ \A n \in {CaptureCostSnapshot(o), ApplyEstimateOnOrderCreate(o)} :
              n.exists = o.exists /\ n.stamp = o.stamp /\ n.excluded = o.excluded
         /\ o.excluded # "no" => CaptureCostSnapshot(o) = o /\ ApplyEstimateOnOrderCreate(o) = o
<1>1. Snapshotable \in BOOLEAN
  BY DEF Snapshotable
<1>2. \/ CaptureCostSnapshot(o) = o
      \/ CaptureCostSnapshot(o) = [o EXCEPT !.costed = Snapshotable]
  BY DEF CaptureCostSnapshot
<1>3. \/ ApplyEstimateOnOrderCreate(o) = o
      \/ ApplyEstimateOnOrderCreate(o) = [o EXCEPT !.fees = TRUE, !.profit = o.costed]
  BY DEF ApplyEstimateOnOrderCreate
<1>4. /\ CaptureCostSnapshot(o) \in Order /\ CaptureCostSnapshot(o).exists = o.exists
      /\ CaptureCostSnapshot(o).stamp = o.stamp /\ CaptureCostSnapshot(o).excluded = o.excluded
  BY <1>1, <1>2 DEF Order
<1>5. /\ ApplyEstimateOnOrderCreate(o) \in Order /\ ApplyEstimateOnOrderCreate(o).exists = o.exists
      /\ ApplyEstimateOnOrderCreate(o).stamp = o.stamp
      /\ ApplyEstimateOnOrderCreate(o).excluded = o.excluded
  BY <1>3 DEF Order
<1>6. o.excluded # "no" => CaptureCostSnapshot(o) = o /\ ApplyEstimateOnOrderCreate(o) = o
  BY DEF CaptureCostSnapshot, ApplyEstimateOnOrderCreate
<1> QED
  BY <1>4, <1>5, <1>6

LEMMA Upserts ==
  ASSUME TypeOK, NEW e \in Events, NEW excluded \in {"no", "late", "deadline"}
  PROVE  /\ Upserted(e, excluded) \in Order
         /\ Upserted(e, excluded).exists
         /\ Upserted(e, excluded).stamp = Stamp[e]
         /\ order.exists => Upserted(e, excluded).excluded = order.excluded
         /\ order.exists /\ order.excluded # "no" => Money(Upserted(e, excluded)) = Money(order)
         /\ ~order.exists => Upserted(e, excluded).excluded = excluded
         /\ ~order.exists /\ excluded # "no" => Money(Upserted(e, excluded)) = Nothing
<1> DEFINE base == [NoOrder EXCEPT !.exists = TRUE, !.excluded = excluded]
           row == IF order.exists THEN order ELSE CaptureCostSnapshot(base)
           new == [row EXCEPT !.stamp = Stamp[e], !.cancelled = (Kind[e] = "cancelled")]
<1>1. order \in Order /\ Stamp[e] \in Nat
  BY Constants DEF TypeOK
<1>2. base \in Order /\ base.exists /\ base.excluded = excluded /\ Money(base) = Nothing
  BY DEF NoOrder, Order, Money, Nothing
<1> HIDE DEF base
<1>3. /\ row \in Order /\ row.exists
      /\ order.exists => row = order
      /\ ~order.exists => row.excluded = excluded
      /\ ~order.exists /\ excluded # "no" => Money(row) = Nothing
  BY <1>1, <1>2, Estimates
<1> HIDE DEF row
<1>4. (Kind[e] = "cancelled") \in BOOLEAN
  OBVIOUS
<1>5. /\ new \in Order /\ new.exists /\ new.stamp = Stamp[e]
      /\ new.excluded = row.excluded /\ Money(new) = Money(row)
  BY <1>1, <1>3, <1>4 DEF Order, Money
<1>6. Upserted(e, excluded) = IF excluded = "no" THEN ApplyEstimateOnOrderCreate(new) ELSE new
  BY DEF Upserted, base, row
<1> HIDE DEF new
<1> QED
  BY <1>3, <1>5, <1>6, Estimates

\* An event is delivered to an idle caller.
LEMMA DeliverTypes ==
  ASSUME TypeOK, NEW p \in Intakers, NEW e \in Events, Deliver(p, e)
  PROVE  /\ TypeOK' /\ Apart(p)
         /\ intake'[p].event = e
         /\ intake'[p].pc = CASE Kind[e] = "unpacked"  -> "unpack"
                              [] Kind[e] = "cancelled" -> "purge"
                              [] OTHER                 -> "check"
<1> DEFINE pc == CASE Kind[e] = "unpacked"  -> "unpack"
                   [] Kind[e] = "cancelled" -> "purge"
                   [] OTHER                 -> "check"
<1>1. pc \in {"unpack", "purge", "check"}
  BY Constants
<1> HIDE DEF pc
<1> DEFINE next == [Idle EXCEPT !.event = e, !.pc = pc]
<1>2. next \in Intake /\ next.event = e /\ next.pc = pc
  BY <1>1, RestingTypes DEF Idle, Intake
<1>3. intake' = [intake EXCEPT ![p] = next]
  BY DEF Deliver, pc
<1> HIDE DEF next
<1>4. intake' \in [Intakers -> Intake] /\ intake'[p] = next /\ Apart(p)
  BY <1>2, <1>3, Moves
<1>5. /\ UNCHANGED <<books, world, units, tick, taken, reaped, raced, failures>>
      /\ owed' = owed \cup {e} /\ deliveries' = deliveries + 1
  BY DEF Deliver
<1>6. TypeOK'
  BY <1>4, <1>5 DEF TypeOK, books, world
<1> QED
  BY <1>2, <1>4, <1>6 DEF pc

\* A step of one intake.
LEMMA TakeTypes ==
  ASSUME TypeOK, NEW p \in Intakers, Take(p)
  PROVE  TypeOK' /\ Apart(p)
<1>1. Event(p) \in Events /\ intake[p] \in Intake /\ intake[p].excluded \in {"no", "late"}
  BY TypesOf
<1>2. CASE FindGhost(p)
  <2> DEFINE readd == today /\ (order.exists \/ buffer.status # "none")
             next == [intake[p] EXCEPT !.pc = "delete", !.readd = readd]
  <2>1. readd \in BOOLEAN
    BY DEF TypeOK
  <2> HIDE DEF readd
  <2>2. next \in Intake
    BY <1>1, <2>1 DEF Intake
  <2>3. intake' = [intake EXCEPT ![p] = next]
    BY <1>2 DEF FindGhost, readd
  <2> HIDE DEF next
  <2>4. intake' \in [Intakers -> Intake] /\ Apart(p)
    BY <2>2, <2>3, Moves
  <2> QED
    BY <1>2, <2>4 DEF FindGhost, TypeOK, books, world, ledger
<1>3. CASE Dematerialize(p)
  <2>1. /\ intake' \in [Intakers -> Intake] /\ Apart(p)
        /\ taken' \subseteq Events /\ owed' \subseteq Events
    BY <1>3, Returns DEF Dematerialize
  <2>2. units' \in Int
    BY <1>3 DEF Dematerialize, TypeOK
  <2> QED
    BY <1>3, <2>1, <2>2, RestingTypes DEF Dematerialize, TypeOK, world
<1>12. CASE NoOrderToDelete(p)
  <2>1. intake' \in [Intakers -> Intake] /\ Apart(p)
    BY <1>12, Goes DEF NoOrderToDelete
  <2> QED
    BY <1>12, <2>1 DEF NoOrderToDelete, TypeOK, books, world, ledger
<1>13. CASE DeleteBuffered(p)
  <2>1. /\ intake' \in [Intakers -> Intake] /\ Apart(p)
        /\ taken' \subseteq Events /\ owed' \subseteq Events
    BY <1>13, Returns DEF DeleteBuffered
  <2>2. units' \in Int
    BY <1>13 DEF DeleteBuffered, TypeOK
  <2> QED
    BY <1>13, <2>1, <2>2, RestingTypes DEF DeleteBuffered, TypeOK, world
<1>4. CASE Purge(p)
  <2>1. intake' \in [Intakers -> Intake] /\ Apart(p)
    BY <1>4, GoesUpsert DEF Purge
  <2> QED
    BY <1>4, <2>1, RestingTypes DEF Purge, TypeOK, world, ledger
<1>5. CASE Check(p) \/ Lookup(p)
  <2>1. \/ \E excluded \in {"no", "late"} : GoUpsert(p, excluded)
        \/ \E pc \in {"lookup", "create"} : Go(p, pc)
    BY <1>5 DEF Check, Lookup
  <2>2. intake' \in [Intakers -> Intake] /\ Apart(p)
    BY <2>1, Goes, GoesUpsert
  <2> QED
    BY <1>5, <2>2 DEF Check, Lookup, TypeOK, books, world, ledger
<1>6. CASE CreateBuffered(p)
  <2>1. /\ intake' \in [Intakers -> Intake] /\ Apart(p)
        /\ taken' \subseteq Events /\ owed' \subseteq Events
    BY <1>6, Returns DEF CreateBuffered
  <2>2. units' \in Int
    BY <1>6 DEF CreateBuffered, TypeOK
  <2>3. buffer' \in Buffer
    BY <1>1, <1>6, RestingTypes DEF CreateBuffered, Buffer, NoBuffer
  <2> QED
    BY <1>6, <2>1, <2>2, <2>3 DEF CreateBuffered, TypeOK, world
<1>7. CASE Deduplicate(p)
  <2>1. intake' \in [Intakers -> Intake] /\ Apart(p)
    BY <1>7, Goes DEF Deduplicate
  <2> QED
    BY <1>7, <2>1 DEF Deduplicate, TypeOK, books, world, ledger
<1>8. CASE ReadSnapshot(p)
  <2>1. \/ Go(p, "rewrite") /\ UNCHANGED <<taken, owed>>
        \/ Return(p)
    BY <1>8 DEF ReadSnapshot
  <2>2. /\ intake' \in [Intakers -> Intake] /\ Apart(p)
        /\ taken' \subseteq Events /\ owed' \subseteq Events
    BY <2>1, Goes, Returns DEF TypeOK
  <2> QED
    BY <1>8, <2>2 DEF ReadSnapshot, TypeOK, books, world
<1>9. CASE RefreshSnapshot(p)
  <2>1. /\ intake' \in [Intakers -> Intake] /\ Apart(p)
        /\ taken' \subseteq Events /\ owed' \subseteq Events
    BY <1>9, Returns DEF RefreshSnapshot
  <2>2. [buffer EXCEPT !.event = Event(p)] \in Buffer
    BY <1>1 DEF TypeOK, Buffer
  <2>3. buffer' \in Buffer
    BY <1>9, <2>2 DEF RefreshSnapshot, TypeOK
  <2> QED
    BY <1>9, <2>1, <2>3 DEF RefreshSnapshot, TypeOK, world
<1>10. CASE BeginUpsert(p)
  <2> DEFINE next == [intake[p] EXCEPT !.pc = "commit", !.stale = Stale(Event(p))]
  <2>1. Stale(Event(p)) \in BOOLEAN
    BY DEF Stale
  <2>2. next \in Intake
    BY <1>1, <2>1 DEF Intake
  <2>3. intake' = [intake EXCEPT ![p] = next]
    BY <1>10 DEF BeginUpsert
  <2> HIDE DEF next
  <2>4. intake' \in [Intakers -> Intake] /\ Apart(p)
    BY <2>2, <2>3, Moves
  <2>5. raced' \in BOOLEAN
    BY <1>10 DEF BeginUpsert, NoteRace, TypeOK
  <2> QED
    BY <1>10, <2>4, <2>5 DEF BeginUpsert, TypeOK, books, world
<1>11. CASE CommitUpsert(p)
  <2>1. /\ intake' \in [Intakers -> Intake] /\ Apart(p)
        /\ taken' \subseteq Events /\ owed' \subseteq Events
    BY <1>11, Returns DEF CommitUpsert
  <2>2. units' \in Int
    BY <1>11 DEF CommitUpsert, TypeOK, UnitsTaken
  <2>3. order' \in Order
    BY <1>1, <1>11, Upserts DEF CommitUpsert, TypeOK
  <2> QED
    BY <1>11, <2>1, <2>2, <2>3 DEF CommitUpsert, TypeOK, world
<1> QED
  BY <1>2, <1>3, <1>4, <1>5, <1>6, <1>7, <1>8, <1>9, <1>10, <1>11, <1>12, <1>13 DEF Take

LEMMA InterruptTypes ==
  ASSUME TypeOK, NEW p \in Intakers, Interrupt(p)
  PROVE  TypeOK' /\ Apart(p) /\ intake'[p].pc = "idle"
<1>1. intake' = [intake EXCEPT ![p] = Idle]
  BY DEF Interrupt
<1>2. intake' \in [Intakers -> Intake] /\ intake'[p] = Idle /\ Apart(p)
  BY <1>1, RestingTypes, Moves
<1> QED
  BY <1>2 DEF Interrupt, TypeOK, books, world, ledger, Idle

\* One graduation goes on, the others stay where they are.
Aside(g) == \A h \in Graduators \ {g} : tick'[h] = tick[h]

LEMMA Ticks ==
  ASSUME TypeOK, NEW g \in Graduators, NEW next \in Tick, tick' = [tick EXCEPT ![g] = next]
  PROVE  tick' \in [Graduators -> Tick] /\ tick'[g] = next /\ Aside(g)
BY DEF TypeOK, Aside

LEMMA Rests ==
  ASSUME TypeOK, NEW g \in Graduators, Rest(g)
  PROVE  tick' \in [Graduators -> Tick] /\ tick'[g].pc = "idle" /\ Aside(g)
<1>1. tick' = [tick EXCEPT ![g] = Resting] /\ Resting.pc = "idle"
  BY DEF Rest, Resting
<1> QED
  BY <1>1, RestingTypes, Ticks

LEMMA GraduatingTypes ==
  ASSUME TypeOK, NEW g \in Graduators, NEW flush \in BOOLEAN, NEW excluded \in {"no", "deadline"},
         Graduating(g, flush, excluded)
  PROVE  /\ tick' \in [Graduators -> Tick] /\ Aside(g) /\ raced' \in BOOLEAN
         /\ tick'[g].pc = "commit" /\ tick'[g].flush = flush
         /\ tick'[g].stale = Stale(buffer.event)
         /\ raced' = (raced \/ Writing)
<1> DEFINE next == [Resting EXCEPT !.pc = "commit", !.flush = flush,
                                   !.excluded = excluded, !.stale = Stale(buffer.event)]
<1>1. Stale(buffer.event) \in BOOLEAN
  BY DEF Stale
<1>2. /\ next \in Tick /\ next.pc = "commit" /\ next.flush = flush
      /\ next.stale = Stale(buffer.event)
  BY <1>1 DEF Resting, Tick
<1>3. tick' = [tick EXCEPT ![g] = next]
  BY DEF Graduating
<1> HIDE DEF next
<1> QED
  BY <1>2, <1>3, Ticks DEF Graduating, NoteRace, TypeOK

LEMMA BufferStatus ==
  ASSUME TypeOK, NEW s \in {"none", "PENDING", "PROMOTING", "FAILED", "PERMANENT_FAILED"}, NEW n \in Nat
  PROVE  /\ [buffer EXCEPT !.status = s] \in Buffer
         /\ [buffer EXCEPT !.status = s].status = s
         /\ [buffer EXCEPT !.due = TRUE] \in Buffer
         /\ FailedAgain(n) \in Buffer
         /\ FailedAgain(n).status \in {"FAILED", "PERMANENT_FAILED"}
<1>1. buffer \in Buffer
  BY DEF TypeOK
<1>2. /\ [buffer EXCEPT !.status = s] \in Buffer /\ [buffer EXCEPT !.status = s].status = s
      /\ [buffer EXCEPT !.due = TRUE] \in Buffer
  BY <1>1 DEF Buffer
<1>3. \A t \in {"FAILED", "PERMANENT_FAILED"} :
        LET failed == [buffer EXCEPT !.status = t, !.attempts = n, !.due = FALSE]
        IN failed \in Buffer /\ failed.status = t
  BY <1>1 DEF Buffer
<1>4. \E t \in {"FAILED", "PERMANENT_FAILED"} :
        FailedAgain(n) = [buffer EXCEPT !.status = t, !.attempts = n, !.due = FALSE]
  BY DEF FailedAgain
<1> QED
  BY <1>2, <1>3, <1>4

LEMMA GraduationTypes ==
  ASSUME TypeOK, NEW g \in Graduators, Promote(g) \/ FlushOne(g) \/ GraduationFails(g)
  PROVE  TypeOK' /\ Aside(g)
<1>1. /\ tick[g] \in Tick /\ tick[g].attempts \in Nat /\ tick[g].excluded \in {"no", "deadline"}
      /\ buffer.event \in Events /\ buffer.attempts \in Nat
  BY TypesOf
<1>2. CASE PromoteOne(g)
  <2>1. CASE \E excluded \in {"no", "deadline"} : Graduating(g, FALSE, excluded) /\ UNCHANGED buffer
    <3>1. tick' \in [Graduators -> Tick] /\ Aside(g) /\ raced' \in BOOLEAN
      BY <2>1, GraduatingTypes
    <3> QED
      BY <1>2, <2>1, <3>1 DEF PromoteOne, TypeOK, world
  <2>2. CASE buffer' = [buffer EXCEPT !.status = "PENDING"] /\ UNCHANGED <<tick, raced>>
    <3>1. buffer' \in Buffer
      BY <2>2, BufferStatus
    <3> QED
      BY <1>2, <2>2, <3>1 DEF PromoteOne, TypeOK, world, Aside
  <2> QED
    BY <1>2, <2>1, <2>2 DEF PromoteOne
<1>3. CASE FlushOne(g)
  <2>1. tick' \in [Graduators -> Tick] /\ Aside(g) /\ raced' \in BOOLEAN
    BY <1>3, GraduatingTypes DEF FlushOne
  <2> QED
    BY <1>3, <2>1 DEF FlushOne, TypeOK, books, world
<1>4. CASE Graduate(g)
  <2>1. tick' \in [Graduators -> Tick] /\ Aside(g)
    BY <1>4, Rests DEF Graduate
  <2>2. order' \in Order
    BY <1>1, <1>4, Upserts DEF Graduate, TypeOK
  <2> QED
    BY <1>4, <2>1, <2>2, RestingTypes DEF Graduate, TypeOK, world, ledger
<1>5. CASE GraduationFails(g)
  <2> DEFINE next == [tick[g] EXCEPT !.pc = "failed"]
  <2>1. next \in Tick
    BY <1>1 DEF Tick
  <2>2. tick' = [tick EXCEPT ![g] = next]
    BY <1>5 DEF GraduationFails
  <2> HIDE DEF next
  <2>3. tick' \in [Graduators -> Tick] /\ Aside(g)
    BY <2>1, <2>2, Ticks
  <2> QED
    BY <1>5, <2>3 DEF GraduationFails, TypeOK, books, world, ledger
<1>6. CASE ReadFailed(g)
  <2> DEFINE next == [tick[g] EXCEPT !.pc = "marking", !.attempts = buffer.attempts]
  <2>1. next \in Tick
    BY <1>1 DEF Tick
  <2>2. Rest(g) \/ tick' = [tick EXCEPT ![g] = next]
    BY <1>6 DEF ReadFailed
  <2> HIDE DEF next
  <2>3. tick' \in [Graduators -> Tick] /\ Aside(g)
    BY <2>1, <2>2, Ticks, Rests
  <2> QED
    BY <1>6, <2>3 DEF ReadFailed, TypeOK, books, world, ledger
<1>7. CASE MarkFailed(g)
  <2>1. tick' \in [Graduators -> Tick] /\ Aside(g)
    BY <1>7, Rests DEF MarkFailed
  <2>2. tick[g].attempts + 1 \in Nat
    BY <1>1
  <2>3. buffer' \in Buffer
    BY <1>7, <2>2, BufferStatus DEF MarkFailed, TypeOK
  <2> QED
    BY <1>7, <2>1, <2>3 DEF MarkFailed, TypeOK, world, ledger
<1> QED
  BY <1>2, <1>3, <1>4, <1>5, <1>6, <1>7 DEF Promote

\* Steps of the seller and of the clock.
World ==
  \/ \E l \in Lines : Attach(l) \/ Detach(l) \/ ArchiveOrRestore(l)
  \/ BackoffElapses \/ ResetBuffer \/ Midnight
  \/ UNCHANGED vars

LEMMA WorldTypes ==
  ASSUME TypeOK, World
  PROVE  TypeOK' /\ order' = order /\ intake' = intake /\ tick' = tick
         /\ UNCHANGED <<taken, owed, raced>>
<1>1. CASE \E l \in Lines : Attach(l) \/ Detach(l) \/ ArchiveOrRestore(l)
  <2>1. cost' \in [Lines -> {"none", "active", "archived"}]
    BY <1>1 DEF Attach, Detach, ArchiveOrRestore, TypeOK
  <2>2. buffer' = buffer \/ buffer' = [buffer EXCEPT !.status = "PROMOTING"]
    BY <1>1 DEF Attach, Detach, ArchiveOrRestore, books
  <2>3. buffer' \in Buffer
    BY <2>2, BufferStatus DEF TypeOK
  <2> QED
    BY <1>1, <2>1, <2>3 DEF Attach, Detach, ArchiveOrRestore, TypeOK, books, ledger
<1>2. CASE BackoffElapses
  <2>1. buffer' \in Buffer
    BY <1>2, BufferStatus DEF BackoffElapses
  <2> QED
    BY <1>2, <2>1 DEF BackoffElapses, TypeOK, world, ledger
<1>3. CASE ResetBuffer
  BY <1>3, RestingTypes DEF ResetBuffer, TypeOK, world
<1>4. CASE Midnight
  BY <1>4 DEF Midnight, TypeOK, books, ledger
<1>5. CASE UNCHANGED vars
  BY <1>5 DEF vars, TypeOK, books, world, ledger
<1> QED
  BY <1>1, <1>2, <1>3, <1>4, <1>5 DEF World

\* Every step is one of these.
LEMMA Steps ==
  ASSUME [Next]_vars
  PROVE  \/ \E p \in Intakers : (\E e \in Events : Deliver(p, e)) \/ Take(p) \/ Interrupt(p)
         \/ \E g \in Graduators : Promote(g) \/ FlushOne(g) \/ GraduationFails(g)
         \/ World
BY DEF Next, World

LEMMA TypeStep ==
  ASSUME TypeOK, [Next]_vars
  PROVE  TypeOK'
BY Steps, DeliverTypes, TakeTypes, InterruptTypes, GraduationTypes, WorldTypes

LEMMA TypeInit == Init => TypeOK
<1> SUFFICES ASSUME Init PROVE TypeOK
  OBVIOUS
<1>1. cost \in [Lines -> {"none", "active", "archived"}]
  BY DEF Init
<1>2. intake \in [Intakers -> Intake] /\ tick \in [Graduators -> Tick]
  BY RestingTypes DEF Init
<1>3. order \in Order /\ buffer \in Buffer
  BY RestingTypes DEF Init
<1>4. today \in BOOLEAN /\ reaped \in BOOLEAN /\ raced \in BOOLEAN
  BY Zenon DEF Init
<1>5. units \in Int /\ deliveries \in Nat /\ failures \in Nat
  BY DEF Init
<1>6. taken \subseteq Events /\ owed \subseteq Events
  BY DEF Init
<1> QED
  BY <1>1, <1>2, <1>3, <1>4, <1>5, <1>6 DEF TypeOK

(* All variables of the order intake keep their types.                     *)
THEOREM TypeCorrect == Spec => []TypeOK
BY TypeInit, TypeStep, PTL DEF Spec

-----------------------------------------------------------------------------
(* The order row.                                                          *)
-----------------------------------------------------------------------------
\* Three steps write the order: a split ghost's deletion, the commit of an
\* intake and the commit of a graduation.
LEMMA OrderWritten ==
  ASSUME [Next]_vars
  PROVE  \/ order' = order
         \/ \E p \in Intakers : Dematerialize(p)
         \/ \E p \in Intakers : CommitUpsert(p) /\ ~intake[p].stale
                                  /\ order' = Upserted(Event(p), intake[p].excluded)
         \/ \E g \in Graduators : Graduate(g) /\ ~tick[g].stale
                                    /\ order' = Upserted(buffer.event, tick[g].excluded)
BY DEF Next, Take, Promote, vars, books, Deliver, FindGhost, NoOrderToDelete, DeleteBuffered,
    Purge, Check, Lookup, CreateBuffered, Deduplicate, ReadSnapshot, RefreshSnapshot,
    BeginUpsert, CommitUpsert, Interrupt, PromoteOne, FlushOne, Graduate, GraduationFails,
    ReadFailed, MarkFailed, BackoffElapses, ResetBuffer, Attach, Detach, ArchiveOrRestore,
    Midnight

\* An excluded order has no money on it.
Frozen == order.exists /\ order.excluded # "no" => Money(order) = Nothing

LEMMA FrozenStep ==
  ASSUME TypeOK, Frozen, [Next]_vars
  PROVE  /\ Frozen'
         /\ order.exists /\ order.excluded # "no" /\ order'.exists
              => order'.excluded = order.excluded /\ Money(order') = Nothing
<1>1. CASE order' = order
  BY <1>1 DEF Frozen, Money
<1>2. ASSUME NEW p \in Intakers, Dematerialize(p)
      PROVE  ~order'.exists
  BY <1>2 DEF Dematerialize, NoOrder
<1>3. ASSUME NEW e \in Events, NEW excluded \in {"no", "late", "deadline"},
             order' = Upserted(e, excluded)
      PROVE  /\ Frozen'
             /\ order.exists /\ order.excluded # "no" /\ order'.exists
                  => order'.excluded = order.excluded /\ Money(order') = Nothing
  BY <1>3, Upserts DEF Frozen
<1>4. \/ order' = order \/ ~order'.exists
      \/ \E e \in Events, excluded \in {"no", "late", "deadline"} : order' = Upserted(e, excluded)
  BY <1>2, OrderWritten, TypesOf
<1>5. CASE ~order'.exists
  BY <1>5 DEF Frozen
<1> QED
  BY <1>1, <1>3, <1>4, <1>5

(* An excluded order stays excluded and never gets a cost snapshot, a fee  *)
(* or a profit, although the estimate runs again on every later event.     *)
THEOREM ExclusionIsFinal == Spec => ExcludedIsFrozen
<1>1. Init => TypeOK /\ Frozen
  BY TypeInit DEF Init, Frozen, NoOrder
<1>2. TypeOK /\ Frozen /\ [Next]_vars => (TypeOK /\ Frozen)'
  BY TypeStep, FrozenStep
<1>3. TypeOK /\ Frozen /\ [Next]_vars =>
        [order.exists /\ order.excluded # "no" /\ order'.exists
           => order'.excluded = order.excluded /\ Money(order') = <<FALSE, FALSE, FALSE>>]_vars
  BY FrozenStep DEF Nothing
<1> QED
  BY <1>1, <1>2, <1>3, PTL DEF Spec, ExcludedIsFrozen

-----------------------------------------------------------------------------
(* The lock of the buffer row.                                             *)
-----------------------------------------------------------------------------
(***************************************************************************)
(* One graduation at a time holds the row, and the row is there.  A flush  *)
(* holds one that waits or was given up.                                   *)
(***************************************************************************)
LockInv ==
  /\ \A g, h \in Graduators : tick[g].pc = "commit" /\ tick[h].pc = "commit" => g = h
  /\ \A g \in Graduators : tick[g].pc = "commit" => buffer.status # "none"
  /\ FlushedIsUnpromised

LEMMA HeldRow ==
  ASSUME TypeOK, LockInv, [Next]_vars, NEW g \in Graduators, tick[g].pc = "commit"
  PROVE  \/ Graduate(g)
         \/ buffer'.status = buffer.status /\ buffer'.event = buffer.event
<1>1. Locked /\ buffer.status # "none"
  BY DEF Locked, LockInv
<1>2. CASE buffer' = buffer
  BY <1>2
<1>3. CASE BackoffElapses
  <2>1. buffer' = [buffer EXCEPT !.due = TRUE] /\ buffer \in Buffer
    BY <1>3 DEF BackoffElapses, TypeOK
  <2> QED
    BY <2>1 DEF Buffer
<1>4. ASSUME NEW h \in Graduators, Graduate(h)
      PROVE  Graduate(g)
  BY <1>4 DEF Graduate, LockInv
<1>5. ASSUME NEW l \in Lines, Attach(l)
      PROVE  buffer' = buffer
  BY <1>1, <1>5 DEF Attach
<1> QED
  BY <1>1, <1>2, <1>3, <1>4, <1>5
  DEF Next, Take, Promote, vars, books, Deliver, Dematerialize, NoOrderToDelete, DeleteBuffered,
      FindGhost, Purge, Check, Lookup, CreateBuffered, Deduplicate, ReadSnapshot,
      RefreshSnapshot, BeginUpsert, CommitUpsert, Interrupt, PromoteOne, FlushOne,
      GraduationFails, ReadFailed, MarkFailed, ResetBuffer, Detach, ArchiveOrRestore, Midnight

\* A graduation begins only when none has the row, and reads it as it is.
Begins(g) ==
  /\ ~Locked /\ Aside(g) /\ UNCHANGED <<order, buffer>>
  /\ \/ tick'[g].flush /\ buffer.status \in Flushable
     \/ ~tick'[g].flush /\ buffer.status \in {"PROMOTING", "FAILED"}
  /\ tick'[g].stale = Stale(buffer.event)
  /\ raced' = (raced \/ Writing)
  /\ intake' = intake

LEMMA InHand ==
  ASSUME TypeOK, LockInv, [Next]_vars, NEW g \in Graduators, tick'[g].pc = "commit"
  PROVE  \/ tick[g].pc = "commit" /\ tick'[g] = tick[g] /\ ~Graduate(g)
         \/ Begins(g)
<1>1. CASE tick'[g] = tick[g]
  <2>1. ASSUME Graduate(g)
        PROVE  FALSE
    BY <1>1, <2>1, Rests DEF Graduate
  <2> QED
    BY <1>1, <2>1
<1>2. CASE PromoteOne(g) /\ tick' # tick
  <2>1. PICK excluded \in {"no", "deadline"} : Graduating(g, FALSE, excluded)
    BY <1>2 DEF PromoteOne
  <2>2. /\ Aside(g) /\ ~tick'[g].flush /\ tick'[g].stale = Stale(buffer.event)
        /\ raced' = (raced \/ Writing)
    BY <2>1, GraduatingTypes
  <2> QED
    BY <1>2, <2>2 DEF PromoteOne, RetryDue, Begins
<1>3. CASE FlushOne(g)
  <2>1. /\ Aside(g) /\ tick'[g].flush /\ tick'[g].stale = Stale(buffer.event)
        /\ raced' = (raced \/ Writing)
    BY <1>3, GraduatingTypes DEF FlushOne
  <2> QED
    BY <1>3, <2>1 DEF FlushOne, Begins, books
<1>4. CASE Graduate(g) \/ MarkFailed(g)
  BY <1>4, Rests DEF Graduate, MarkFailed
<1>5. CASE GraduationFails(g)
  <2>1. tick' = [tick EXCEPT ![g] = [tick[g] EXCEPT !.pc = "failed"]]
    BY <1>5 DEF GraduationFails
  <2>2. tick'[g].pc = "failed"
    BY <2>1 DEF TypeOK, Tick
  <2> QED
    BY <2>2
<1>6. CASE ReadFailed(g)
  <2>1. \/ Rest(g)
        \/ tick' = [tick EXCEPT ![g] = [tick[g] EXCEPT !.pc = "marking", !.attempts = buffer.attempts]]
    BY <1>6 DEF ReadFailed
  <2>2. tick'[g].pc \in {"idle", "marking"}
    <3>1. CASE Rest(g)
      BY <3>1, Rests
    <3>2. CASE tick' = [tick EXCEPT ![g] = [tick[g] EXCEPT !.pc = "marking", !.attempts = buffer.attempts]]
      BY <3>2 DEF TypeOK, Tick
    <3> QED
      BY <2>1, <3>1, <3>2
  <2> QED
    BY <2>2
<1>7. tick'[g] = tick[g] \/ Promote(g) \/ FlushOne(g) \/ GraduationFails(g)
  <2>1. \A h \in Graduators \ {g} : Promote(h) \/ FlushOne(h) \/ GraduationFails(h) => tick'[g] = tick[g]
    BY GraduationTypes DEF Aside
  <2>2. \A p \in Intakers : (\E e \in Events : Deliver(p, e)) \/ Take(p) \/ Interrupt(p) => tick' = tick
    BY DEF Deliver, Take, Dematerialize, NoOrderToDelete, DeleteBuffered, FindGhost, Purge,
        Check, Lookup, CreateBuffered, Deduplicate, ReadSnapshot, RefreshSnapshot, BeginUpsert,
        CommitUpsert, Interrupt
  <2> QED
    BY <2>1, <2>2, Steps, WorldTypes
<1> QED
  BY <1>1, <1>2, <1>3, <1>4, <1>5, <1>6, <1>7 DEF Promote

LEMMA LockStep ==
  ASSUME TypeOK, LockInv, [Next]_vars
  PROVE  LockInv'
<1>1. ASSUME NEW g \in Graduators, tick'[g].pc = "commit", tick[g].pc = "commit", tick'[g] = tick[g],
             ~Graduate(g)
      PROVE  buffer'.status = buffer.status
  BY <1>1, HeldRow
<1>2. \A g \in Graduators : tick'[g].pc = "commit" => buffer'.status # "none"
  BY <1>1, InHand DEF LockInv, Begins, Flushable
<1>3. \A g \in Graduators : tick'[g].pc = "commit" /\ tick'[g].flush =>
        buffer'.status \in {"PENDING", "PERMANENT_FAILED"}
  BY <1>1, InHand DEF LockInv, Begins, Flushable, FlushedIsUnpromised
<1>4. ASSUME NEW g \in Graduators, NEW h \in Graduators,
             tick'[g].pc = "commit", tick'[h].pc = "commit", g # h
      PROVE  FALSE
  BY <1>4, InHand DEF LockInv, Begins, Locked, Aside
<1> QED
  BY <1>2, <1>3, <1>4 DEF LockInv, FlushedIsUnpromised

LEMMA LockInit == Init => LockInv
BY DEF Init, LockInv, FlushedIsUnpromised, Resting

(* The flush never has an entry in hand that an attached cost has turned   *)
(* over to the promote tick.                                               *)
THEOREM FlushKeepsItsHands == Spec => []FlushedIsUnpromised
<1>1. TypeOK /\ LockInv /\ [Next]_vars => (TypeOK /\ LockInv)'
  BY TypeStep, LockStep
<1>2. LockInv => FlushedIsUnpromised
  BY DEF LockInv
<1> QED
  BY <1>1, <1>2, TypeInit, LockInit, PTL DEF Spec

-----------------------------------------------------------------------------
(* The watermark.                                                          *)
-----------------------------------------------------------------------------
\* What a step of a caller of the intake can be at its next step.
LEMMA IntakeMoves ==
  ASSUME TypeOK, [Next]_vars, NEW p \in Intakers
  PROVE  \/ intake'[p] = intake[p]
         \/ \E e \in Events : Deliver(p, e)
         \/ Take(p)
         \/ intake'[p].pc = "idle"
<1>1. \A q \in Intakers \ {p} : (\E e \in Events : Deliver(q, e)) \/ Take(q) \/ Interrupt(q) =>
        intake'[p] = intake[p]
  BY DeliverTypes, TakeTypes, InterruptTypes DEF Apart
<1>2. \A g \in Graduators : Promote(g) \/ FlushOne(g) \/ GraduationFails(g) => intake' = intake
  BY DEF Promote, PromoteOne, FlushOne, Graduate, GraduationFails, ReadFailed, MarkFailed
<1> QED
  BY <1>1, <1>2, Steps, InterruptTypes, WorldTypes

\* An upsert begins with the read of the watermark.
Reads(p) ==
  /\ BeginUpsert(p) /\ Apart(p)
  /\ intake'[p].stale = Stale(Event(p)) /\ intake'[p].event = Event(p)
  /\ raced' = (raced \/ Writing)
  /\ UNCHANGED <<order, buffer, tick>>

LEMMA InWriting ==
  ASSUME TypeOK, [Next]_vars, NEW p \in Intakers, intake'[p].pc = "commit"
  PROVE  \/ intake[p].pc = "commit" /\ intake'[p] = intake[p] /\ ~CommitUpsert(p)
         \/ Reads(p)
<1>1. CASE intake'[p] = intake[p]
  <2>1. ASSUME CommitUpsert(p)
        PROVE  FALSE
    BY <1>1, <2>1, Returns DEF CommitUpsert
  <2> QED
    BY <1>1, <2>1
<1>2. ASSUME NEW e \in Events, Deliver(p, e)
      PROVE  FALSE
  BY <1>2, DeliverTypes, Constants
<1>3. CASE BeginUpsert(p)
  <2> DEFINE next == [intake[p] EXCEPT !.pc = "commit", !.stale = Stale(Event(p))]
  <2>1. next \in Intake /\ next.stale = Stale(Event(p)) /\ next.event = Event(p)
    <3>1. Stale(Event(p)) \in BOOLEAN /\ intake[p] \in Intake
      BY TypesOf DEF Stale
    <3> QED
      BY <3>1 DEF Intake, Event
  <2>2. intake' = [intake EXCEPT ![p] = next]
    BY <1>3 DEF BeginUpsert
  <2> HIDE DEF next
  <2>3. intake'[p] = next /\ Apart(p)
    BY <2>1, <2>2, Moves
  <2> QED
    BY <1>3, <2>1, <2>3 DEF BeginUpsert, Reads, NoteRace, books
<1>4. ASSUME Take(p), ~BeginUpsert(p)
      PROVE  intake'[p].pc # "commit"
  <2>1. CASE FindGhost(p)
    <3>1. intake' = [intake EXCEPT ![p] = [intake[p] EXCEPT !.pc = "delete",
            !.readd = today /\ (order.exists \/ buffer.status # "none")]]
      BY <2>1 DEF FindGhost
    <3> QED
      BY <3>1 DEF TypeOK, Intake
  <2>2. CASE ~FindGhost(p)
    <3>1. \/ Return(p)
          \/ \E excluded \in {"no", "late"} : GoUpsert(p, excluded)
          \/ \E pc \in {"ghost", "lookup", "create", "refresh", "rewrite"} : Go(p, pc)
      BY <1>4, <2>2 DEF Take, Dematerialize, NoOrderToDelete, DeleteBuffered, Purge, Check,
          Lookup, CreateBuffered, Deduplicate, ReadSnapshot, RefreshSnapshot, CommitUpsert
    <3> QED
      BY <3>1, Returns, Goes, GoesUpsert
  <2> QED
    BY <2>1, <2>2
<1> QED
  BY <1>1, <1>2, <1>3, <1>4, IntakeMoves

(***************************************************************************)
(* As long as no two writers overlapped, there is at most one, and what it *)
(* read of the order still holds: an event it takes for new is not older   *)
(* than the order.                                                         *)
(***************************************************************************)
SoleWriter ==
  /\ \A p, q \in Intakers : intake[p].pc = "commit" /\ intake[q].pc = "commit" => p = q
  /\ \A p \in Intakers, g \in Graduators : ~(intake[p].pc = "commit" /\ tick[g].pc = "commit")

Current ==
  /\ \A p \in Intakers : intake[p].pc = "commit" /\ ~intake[p].stale /\ order.exists =>
       Stamp[Event(p)] >= order.stamp
  /\ \A g \in Graduators : tick[g].pc = "commit" /\ ~tick[g].stale /\ order.exists =>
       Stamp[buffer.event] >= order.stamp

RaceInv == ~raced => SoleWriter /\ Current

LEMMA RacedStays ==
  ASSUME TypeOK, [Next]_vars, raced
  PROVE  raced'
BY DEF TypeOK, Next, Take, Promote, vars, ledger, Deliver, Dematerialize, NoOrderToDelete,
    DeleteBuffered, FindGhost, Purge, Check, Lookup, CreateBuffered, Deduplicate, ReadSnapshot,
    RefreshSnapshot, BeginUpsert, CommitUpsert, Interrupt, PromoteOne, FlushOne, Graduating,
    NoteRace, Graduate, GraduationFails, ReadFailed, MarkFailed, BackoffElapses, ResetBuffer,
    Attach, Detach, ArchiveOrRestore, Midnight

LEMMA SoleWriterStep ==
  ASSUME TypeOK, LockInv, RaceInv, [Next]_vars, ~raced'
  PROVE  SoleWriter'
<1>1. ~raced /\ SoleWriter
  BY RacedStays DEF RaceInv
<1>2. \A p \in Intakers : Reads(p) =>
        /\ \A q \in Intakers : intake[q].pc # "commit"
        /\ \A g \in Graduators : tick'[g].pc # "commit"
  BY DEF Reads, Writing, Locked
<1>3. \A g \in Graduators : Begins(g) => \A p \in Intakers : intake'[p].pc # "commit"
  BY DEF Begins, Writing
<1>4. ASSUME NEW p \in Intakers, NEW q \in Intakers,
             intake'[p].pc = "commit", intake'[q].pc = "commit", p # q
      PROVE  FALSE
  <2>1. CASE Reads(p)
    BY <1>2, <1>4, <2>1 DEF Reads, Apart
  <2>2. CASE Reads(q)
    BY <1>2, <1>4, <2>2 DEF Reads, Apart
  <2>3. CASE ~Reads(p) /\ ~Reads(q)
    BY <1>1, <1>4, <2>3, InWriting DEF SoleWriter
  <2> QED
    BY <2>1, <2>2, <2>3
<1>5. ASSUME NEW p \in Intakers, NEW g \in Graduators,
             intake'[p].pc = "commit", tick'[g].pc = "commit"
      PROVE  FALSE
  <2>1. ~Reads(p) /\ ~Begins(g)
    BY <1>2, <1>3, <1>5
  <2> QED
    BY <1>1, <1>5, <2>1, InWriting, InHand DEF SoleWriter
<1> QED
  BY <1>4, <1>5 DEF SoleWriter

\* What is not stale is not older than the order.
LEMMA NotStale ==
  ASSUME TypeOK, NEW e \in Events, ~Stale(e), order.exists
  PROVE  Stamp[e] >= order.stamp
BY Constants, TypesOf DEF Stale

LEMMA CurrentStep ==
  ASSUME TypeOK, LockInv, RaceInv, [Next]_vars, ~raced'
  PROVE  Current'
<1>1. SoleWriter /\ Current
  BY RacedStays DEF RaceInv
<1>2. ASSUME NEW p \in Intakers, intake'[p].pc = "commit", ~intake'[p].stale, order'.exists
      PROVE  Stamp[intake'[p].event] >= order'.stamp
  <2>1. CASE Reads(p)
    BY <1>2, <2>1, NotStale, TypesOf DEF Reads
  <2>2. CASE intake[p].pc = "commit" /\ intake'[p] = intake[p] /\ ~CommitUpsert(p)
    <3>1. \A q \in Intakers : ~CommitUpsert(q)
      BY <1>1, <2>2 DEF CommitUpsert, SoleWriter
    <3>2. \A g \in Graduators : ~Graduate(g)
      BY <1>1, <2>2 DEF Graduate, SoleWriter
    <3>3. \A q \in Intakers : ~Dematerialize(q)
      BY <1>2 DEF Dematerialize, NoOrder
    <3>4. order' = order
      BY <3>1, <3>2, <3>3, OrderWritten
    <3> QED
      BY <1>1, <1>2, <2>2, <3>4 DEF Current, Event
  <2> QED
    BY <1>2, <2>1, <2>2, InWriting
<1>3. ASSUME NEW g \in Graduators, tick'[g].pc = "commit", ~tick'[g].stale, order'.exists
      PROVE  Stamp[buffer'.event] >= order'.stamp
  <2>1. CASE Begins(g)
    BY <1>3, <2>1, NotStale, TypesOf DEF Begins
  <2>2. CASE tick[g].pc = "commit" /\ tick'[g] = tick[g] /\ ~Graduate(g)
    <3>1. \A q \in Intakers : ~CommitUpsert(q)
      BY <1>1, <2>2 DEF CommitUpsert, SoleWriter
    <3>2. \A h \in Graduators : ~Graduate(h)
      BY <2>2 DEF Graduate, LockInv
    <3>3. \A q \in Intakers : ~Dematerialize(q)
      BY <1>3 DEF Dematerialize, NoOrder
    <3>4. order' = order
      BY <3>1, <3>2, <3>3, OrderWritten
    <3>5. buffer'.event = buffer.event
      BY <2>2, HeldRow
    <3> QED
      BY <1>1, <1>3, <2>2, <3>4, <3>5 DEF Current
  <2> QED
    BY <1>3, <2>1, <2>2, InHand
<1> QED
  BY <1>2, <1>3 DEF Current, Event

LEMMA RaceStep ==
  ASSUME TypeOK, LockInv, RaceInv, [Next]_vars
  PROVE  RaceInv'
BY SoleWriterStep, CurrentStep DEF RaceInv

LEMMA RaceInit == Init => RaceInv
BY DEF Init, RaceInv, SoleWriter, Current, Idle, Resting

LEMMA WatermarkStep ==
  ASSUME TypeOK, LockInv, RaceInv, [Next]_vars, order.exists, order'.exists, ~raced
  PROVE  order'.stamp >= order.stamp
<1>1. Current /\ order.stamp \in Nat
  BY TypesOf DEF RaceInv
<1>2. CASE order' = order
  BY <1>1, <1>2
<1>3. ASSUME NEW p \in Intakers, Dematerialize(p)
      PROVE  FALSE
  BY <1>3 DEF Dematerialize, NoOrder
<1>4. ASSUME NEW p \in Intakers, CommitUpsert(p), ~intake[p].stale,
             order' = Upserted(Event(p), intake[p].excluded)
      PROVE  order'.stamp >= order.stamp
  <2>1. order'.stamp = Stamp[Event(p)]
    BY <1>4, TypesOf, Upserts
  <2> QED
    BY <1>1, <1>4, <2>1 DEF CommitUpsert, Current
<1>5. ASSUME NEW g \in Graduators, Graduate(g), ~tick[g].stale,
             order' = Upserted(buffer.event, tick[g].excluded)
      PROVE  order'.stamp >= order.stamp
  <2>1. order'.stamp = Stamp[buffer.event]
    BY <1>5, TypesOf, Upserts
  <2> QED
    BY <1>1, <1>5, <2>1 DEF Graduate, Current
<1> QED
  BY <1>2, <1>3, <1>4, <1>5, OrderWritten

(* Unless two writers of it overlapped, an order never goes back to an     *)
(* older event.                                                            *)
THEOREM WatermarkHolds == Spec => OrderNeverRegresses
<1>1. TypeOK /\ LockInv /\ RaceInv /\ [Next]_vars => (TypeOK /\ LockInv /\ RaceInv)'
  BY TypeStep, LockStep, RaceStep
<1>2. TypeOK /\ LockInv /\ RaceInv /\ [Next]_vars =>
        [order.exists /\ order'.exists /\ ~raced => order'.stamp >= order.stamp]_vars
  BY WatermarkStep
<1> QED
  BY <1>1, <1>2, TypeInit, LockInit, RaceInit, PTL DEF Spec, OrderNeverRegresses

-----------------------------------------------------------------------------
(* Nothing is lost.                                                        *)
-----------------------------------------------------------------------------
(***************************************************************************)
(* An event takes the route of its kind, and until it was taken in it is   *)
(* owed.  Only two steps take a package out of the books while it lives: a *)
(* purge, whose cancellation is owed until it has written the order, and   *)
(* the nightly cron.  Whoever finds its event stale has seen an order, and *)
(* a cancellation that was taken in has written one.                       *)
(***************************************************************************)
Routes ==
  \A p \in Intakers :
    /\ intake[p].pc # "idle" => Event(p) \in taken \cup owed
    /\ intake[p].pc \in {"unpack", "delete", "ghost"} => Kind[Event(p)] = "unpacked"
    /\ intake[p].pc = "purge" => Kind[Event(p)] = "cancelled"
    /\ intake[p].pc \in {"check", "lookup", "create", "refresh", "rewrite"} => Kind[Event(p)] = "open"

InBooks == order.exists \/ buffer.status # "none"

\* Somebody has seen the package in the books.
Seen == taken # {} \/ \E p \in Intakers : intake[p].pc \in {"refresh", "rewrite"}

Kept ==
  ~Dissolved =>
    /\ \A p \in Intakers : intake[p].pc = "commit" /\ intake[p].stale => order.exists
    /\ \A g \in Graduators : tick[g].pc = "commit" /\ tick[g].stale => order.exists
    /\ \A e \in taken : Kind[e] = "cancelled" => order.exists
    /\ Seen /\ ~reaped => InBooks \/ \E e \in owed : Kind[e] = "cancelled"

LEMMA EventsKnown ==
  ASSUME TypeOK, [Next]_vars
  PROVE  taken \subseteq taken' /\ taken \cup owed \subseteq taken' \cup owed'
<1>1. ASSUME NEW p \in Intakers, NEW e \in Events, Deliver(p, e)
      PROVE  taken' = taken /\ owed \subseteq owed'
  BY <1>1 DEF Deliver
<1>2. ASSUME NEW p \in Intakers, Return(p)
      PROVE  taken \subseteq taken' /\ taken \cup owed \subseteq taken' \cup owed'
  BY <1>2 DEF Return
<1>3. ASSUME NEW p \in Intakers, Take(p), ~Return(p)
      PROVE  UNCHANGED <<taken, owed>>
  BY <1>3 DEF Take, Dematerialize, NoOrderToDelete, DeleteBuffered, FindGhost, Purge, Check,
      Lookup, CreateBuffered, Deduplicate, ReadSnapshot, RefreshSnapshot, BeginUpsert,
      CommitUpsert, ledger
<1>4. ASSUME NEW p \in Intakers, Interrupt(p)
      PROVE  UNCHANGED <<taken, owed>>
  BY <1>4 DEF Interrupt, ledger
<1>5. ASSUME NEW g \in Graduators, Promote(g) \/ FlushOne(g) \/ GraduationFails(g)
      PROVE  UNCHANGED <<taken, owed>>
  BY <1>5 DEF Promote, PromoteOne, FlushOne, Graduate, GraduationFails, ReadFailed, MarkFailed,
      ledger
<1> QED
  BY <1>1, <1>2, <1>3, <1>4, <1>5, Steps, WorldTypes

LEMMA DissolvedStays ==
  ASSUME TypeOK, [Next]_vars, Dissolved
  PROVE  Dissolved'
BY EventsKnown DEF Dissolved

\* The route of an event through the intake.
OnBuffer == {"check", "lookup", "create", "refresh", "rewrite"}

LEMMA TakeMoves ==
  ASSUME TypeOK, NEW p \in Intakers, Take(p)
  PROVE  \/ intake'[p].pc = "idle" /\ Return(p)
         \/ /\ intake'[p].event = Event(p)
            /\ \/ intake'[p].pc = "delete" /\ intake[p].pc = "unpack"
               \/ intake'[p].pc = "ghost" /\ intake[p].pc = "delete"
               \/ intake'[p].pc \in {"begin", "commit"}
               \/ intake'[p].pc \in OnBuffer /\ intake[p].pc \in OnBuffer
            /\ intake[p].pc # "idle"
<1>1. CASE FindGhost(p)
  <2>1. intake' = [intake EXCEPT ![p] = [intake[p] EXCEPT !.pc = "delete",
          !.readd = today /\ (order.exists \/ buffer.status # "none")]]
    BY <1>1 DEF FindGhost
  <2>2. intake'[p].pc = "delete" /\ intake'[p].event = intake[p].event
    BY <2>1 DEF TypeOK, Intake
  <2> QED
    BY <1>1, <2>2 DEF FindGhost, Event
<1>2. CASE BeginUpsert(p)
  <2>1. intake' = [intake EXCEPT ![p] = [intake[p] EXCEPT !.pc = "commit", !.stale = Stale(Event(p))]]
    BY <1>2 DEF BeginUpsert
  <2>2. intake'[p].pc = "commit" /\ intake'[p].event = intake[p].event
    BY <2>1 DEF TypeOK, Intake
  <2> QED
    BY <1>2, <2>2 DEF BeginUpsert, Event
<1>3. CASE Return(p)
  BY <1>3, Returns
<1>4. CASE \E excluded \in {"no", "late"} : GoUpsert(p, excluded)
  <2>1. intake[p].pc # "idle"
    BY <1>4, GoesUpsert, TypesOf DEF Take, Dematerialize, NoOrderToDelete, DeleteBuffered,
        FindGhost, Purge, Check, Lookup, CreateBuffered, Deduplicate, ReadSnapshot,
        RefreshSnapshot, BeginUpsert, CommitUpsert
  <2> QED
    BY <1>4, <2>1, GoesUpsert
<1>5. CASE \E pc \in {"lookup", "create", "refresh", "rewrite"} : Go(p, pc) /\ intake[p].pc \in OnBuffer
  BY <1>5, Goes DEF OnBuffer
<1>6. CASE NoOrderToDelete(p)
  BY <1>6, Goes DEF NoOrderToDelete
<1> QED
  BY <1>1, <1>2, <1>3, <1>4, <1>5, <1>6 DEF Take, Dematerialize, NoOrderToDelete,
      DeleteBuffered, Purge, Check, Lookup, CreateBuffered, Deduplicate, ReadSnapshot,
      RefreshSnapshot, CommitUpsert, OnBuffer

LEMMA RoutesStep ==
  ASSUME TypeOK, Routes, [Next]_vars
  PROVE  Routes'
<1> SUFFICES ASSUME NEW p \in Intakers, intake'[p].pc # "idle"
             PROVE  /\ intake'[p].event \in taken' \cup owed'
                    /\ intake'[p].pc \in {"unpack", "delete", "ghost"} => Kind[intake'[p].event] = "unpacked"
                    /\ intake'[p].pc = "purge" => Kind[intake'[p].event] = "cancelled"
                    /\ intake'[p].pc \in OnBuffer => Kind[intake'[p].event] = "open"
  BY DEF Routes, Event, OnBuffer
<1>1. CASE intake'[p] = intake[p]
  BY <1>1, EventsKnown DEF Routes, Event, OnBuffer
<1>2. ASSUME NEW e \in Events, Deliver(p, e)
      PROVE  /\ intake'[p].event = e /\ e \in owed'
             /\ intake'[p].pc \in {"unpack", "delete", "ghost"} => Kind[e] = "unpacked"
             /\ intake'[p].pc = "purge" => Kind[e] = "cancelled"
             /\ intake'[p].pc \in OnBuffer => Kind[e] = "open"
  <2>1. /\ intake'[p].event = e
        /\ intake'[p].pc = CASE Kind[e] = "unpacked"  -> "unpack"
                             [] Kind[e] = "cancelled" -> "purge"
                             [] OTHER                 -> "check"
    BY <1>2, DeliverTypes
  <2>2. e \in owed'
    BY <1>2 DEF Deliver
  <2> QED
    BY <2>1, <2>2, Constants DEF OnBuffer
<1>3. CASE Take(p)
  BY <1>3, TakeMoves, EventsKnown DEF Routes, Event, OnBuffer
<1> QED
  BY <1>1, <1>2, <1>3, IntakeMoves

LEMMA NoGhost ==
  ASSUME TypeOK, Routes, [Next]_vars, ~Dissolved', NEW p \in Intakers
  PROVE  ~(Dematerialize(p) \/ NoOrderToDelete(p) \/ DeleteBuffered(p))
<1> SUFFICES ASSUME Dematerialize(p) \/ NoOrderToDelete(p) \/ DeleteBuffered(p) PROVE FALSE
  OBVIOUS
<1>1. Kind[Event(p)] = "unpacked" /\ Event(p) \in taken \cup owed
  BY DEF Dematerialize, NoOrderToDelete, DeleteBuffered, Routes
<1> QED
  BY <1>1, DissolvedStays DEF Dissolved

LEMMA OrderStays ==
  ASSUME TypeOK, Routes, [Next]_vars, ~Dissolved', order.exists
  PROVE  order'.exists
BY OrderWritten, NoGhost, TypesOf, Upserts

\* A commit leaves an order behind: its own, or the one it saw.
LEMMA CommitWrites ==
  ASSUME TypeOK, Kept, ~Dissolved, NEW p \in Intakers, NEW g \in Graduators,
         CommitUpsert(p) \/ Graduate(g)
  PROVE  order'.exists
<1>1. CASE CommitUpsert(p)
  BY <1>1, TypesOf, Upserts DEF CommitUpsert, Kept
<1>2. CASE Graduate(g)
  BY <1>2, TypesOf, Upserts DEF Graduate, Kept
<1> QED
  BY <1>1, <1>2

LEMMA KeptSight ==
  ASSUME TypeOK, LockInv, Routes, Kept, [Next]_vars, ~Dissolved'
  PROVE  /\ \A p \in Intakers : intake'[p].pc = "commit" /\ intake'[p].stale => order'.exists
         /\ \A g \in Graduators : tick'[g].pc = "commit" /\ tick'[g].stale => order'.exists
<1>1. ~Dissolved
  BY DissolvedStays
<1>2. ASSUME NEW p \in Intakers, intake'[p].pc = "commit", intake'[p].stale
      PROVE  order'.exists
  <2>1. CASE Reads(p)
    BY <1>2, <2>1 DEF Reads, Stale
  <2>2. CASE intake[p].pc = "commit" /\ intake'[p] = intake[p]
    BY <1>1, <1>2, <2>2, OrderStays DEF Kept
  <2> QED
    BY <1>2, <2>1, <2>2, InWriting
<1>3. ASSUME NEW g \in Graduators, tick'[g].pc = "commit", tick'[g].stale
      PROVE  order'.exists
  <2>1. CASE Begins(g)
    BY <1>3, <2>1 DEF Begins, Stale
  <2>2. CASE tick[g].pc = "commit" /\ tick'[g] = tick[g]
    BY <1>1, <1>3, <2>2, OrderStays DEF Kept
  <2> QED
    BY <1>3, <2>1, <2>2, InHand
<1> QED
  BY <1>2, <1>3

\* Only the commit of an upsert takes a cancellation in.
LEMMA CancelledReturns ==
  ASSUME TypeOK, Routes, NEW p \in Intakers, Take(p), Return(p), Kind[Event(p)] = "cancelled"
  PROVE  CommitUpsert(p)
<1>1. intake'[p].pc = "idle"
  BY Returns
<1>2. intake[p].pc \notin {"unpack", "delete", "ghost"} \cup OnBuffer
  BY DEF Routes, OnBuffer
<1>3. ~Purge(p)
  BY <1>1, GoesUpsert DEF Purge
<1>4. ~BeginUpsert(p)
  <2> SUFFICES ASSUME BeginUpsert(p) PROVE FALSE
    OBVIOUS
  <2>1. intake' = [intake EXCEPT ![p] = [intake[p] EXCEPT !.pc = "commit", !.stale = Stale(Event(p))]]
    BY DEF BeginUpsert
  <2>2. intake'[p].pc = "commit"
    BY <2>1 DEF TypeOK, Intake
  <2> QED
    BY <1>1, <2>2
<1> QED
  BY <1>2, <1>3, <1>4 DEF Take, Dematerialize, NoOrderToDelete, DeleteBuffered, FindGhost,
      Check, Lookup, CreateBuffered, Deduplicate, ReadSnapshot, RefreshSnapshot, OnBuffer

LEMMA ReturnsOnly ==
  ASSUME TypeOK, [Next]_vars
  PROVE  \/ taken' = taken /\ owed \subseteq owed'
         \/ \E p \in Intakers : Take(p) /\ Return(p)
<1>1. ASSUME NEW p \in Intakers, Take(p), ~Return(p)
      PROVE  UNCHANGED <<taken, owed>>
  BY <1>1 DEF Take, Dematerialize, NoOrderToDelete, DeleteBuffered, FindGhost, Purge, Check,
      Lookup, CreateBuffered, Deduplicate, ReadSnapshot, RefreshSnapshot, BeginUpsert,
      CommitUpsert, ledger
<1>2. ASSUME NEW g \in Graduators, Promote(g) \/ FlushOne(g) \/ GraduationFails(g)
      PROVE  UNCHANGED <<taken, owed>>
  BY <1>2 DEF Promote, PromoteOne, FlushOne, Graduate, GraduationFails, ReadFailed, MarkFailed,
      ledger
<1> QED
  BY <1>1, <1>2, Steps, WorldTypes DEF Deliver, Interrupt, ledger

LEMMA KeptCancellations ==
  ASSUME TypeOK, Routes, Kept, [Next]_vars, ~Dissolved'
  PROVE  \A e \in taken' : Kind[e] = "cancelled" => order'.exists
<1>1. ~Dissolved
  BY DissolvedStays
<1> SUFFICES ASSUME NEW e \in taken', Kind[e] = "cancelled" PROVE order'.exists
  OBVIOUS
<1>2. CASE e \in taken
  BY <1>1, <1>2, OrderStays DEF Kept
<1>3. CASE e \notin taken
  <2>1. PICK p \in Intakers : Take(p) /\ Return(p)
    BY <1>3, ReturnsOnly
  <2>2. e = Event(p)
    BY <1>3, <2>1 DEF Return
  <2>3. CommitUpsert(p)
    BY <2>1, <2>2, CancelledReturns
  <2> QED
    BY <1>1, <2>3, TypesOf, Upserts DEF CommitUpsert, Kept
<1> QED
  BY <1>2, <1>3

Reason == InBooks \/ \E e \in owed : Kind[e] = "cancelled"

\* A step that leaves the package in the books and the cancellations owed.
LEMMA ReasonStays ==
  ASSUME TypeOK, Routes, [Next]_vars, ~Dissolved', owed \subseteq owed',
         buffer.status # "none" => buffer'.status # "none" \/ order'.exists,
         Reason
  PROVE  Reason'
BY OrderStays DEF Reason, InBooks

LEMMA SeenBefore ==
  ASSUME TypeOK, [Next]_vars, Seen', taken' = taken,
         NEW p \in Intakers, Apart(p), intake'[p].pc \notin {"refresh", "rewrite"}
  PROVE  Seen
BY DEF Seen, Apart

LEMMA TakeKeeps ==
  ASSUME TypeOK, Routes, Kept, [Next]_vars, ~Dissolved', NEW p \in Intakers, Take(p), Seen', ~reaped'
  PROVE  Reason'
<1>1. ~Dissolved /\ Apart(p)
  BY DissolvedStays, TakeTypes
<1>2. CASE FindGhost(p)
  <2>1. UNCHANGED <<books, owed, taken, reaped>>
    BY <1>2 DEF FindGhost, ledger
  <2>2. intake' = [intake EXCEPT ![p] = [intake[p] EXCEPT !.pc = "delete",
          !.readd = today /\ (order.exists \/ buffer.status # "none")]]
    BY <1>2 DEF FindGhost
  <2>3. intake'[p].pc = "delete"
    BY <2>2 DEF TypeOK, Intake
  <2>4. Seen
    BY <1>1, <2>1, <2>3, SeenBefore
  <2> QED
    BY <1>1, <2>1, <2>4, ReasonStays DEF Kept, Reason, books
<1>3. CASE Purge(p)
  <2>1. Kind[Event(p)] = "cancelled" /\ Event(p) \in taken \cup owed
    BY <1>3 DEF Purge, Routes
  <2>2. order' = order /\ owed' = owed
    BY <1>3 DEF Purge, ledger
  <2> QED
    BY <1>1, <2>1, <2>2 DEF Kept, Reason, InBooks
<1>4. CASE Check(p) \/ Lookup(p)
  <2>1. UNCHANGED <<books, owed, taken, reaped>>
    BY <1>4 DEF Check, Lookup, ledger
  <2>2. \/ \E excluded \in {"no", "late"} : GoUpsert(p, excluded)
        \/ \E pc \in {"lookup", "create"} : Go(p, pc)
    BY <1>4 DEF Check, Lookup
  <2>3. intake'[p].pc \in {"begin", "lookup", "create"}
    BY <2>2, Goes, GoesUpsert
  <2>4. Seen
    BY <1>1, <2>1, <2>3, SeenBefore
  <2> QED
    BY <1>1, <2>1, <2>4, ReasonStays DEF Kept, Reason, books
<1>5. CASE CreateBuffered(p)
  BY <1>5 DEF CreateBuffered, NoBuffer, Reason, InBooks
<1>6. CASE Deduplicate(p)
  BY <1>6 DEF Deduplicate, books, Reason, InBooks
<1>7. CASE ReadSnapshot(p) \/ RefreshSnapshot(p)
  <2>1. intake[p].pc \in {"refresh", "rewrite"} /\ reaped' = reaped /\ order' = order
    BY <1>7 DEF ReadSnapshot, RefreshSnapshot, books
  <2>2. Reason
    BY <1>1, <2>1 DEF Kept, Seen, Reason
  <2>3. buffer'.status = buffer.status
    <3>1. buffer' = buffer \/ buffer' = [buffer EXCEPT !.event = Event(p)]
      BY <1>7 DEF ReadSnapshot, RefreshSnapshot, books
    <3> QED
      BY <3>1 DEF TypeOK, Buffer
  <2>4. Kind[Event(p)] = "open" /\ owed \ {Event(p)} \subseteq owed'
    BY <1>7, <2>1 DEF ReadSnapshot, RefreshSnapshot, Routes, Return
  <2> QED
    BY <2>1, <2>2, <2>3, <2>4 DEF Reason, InBooks
<1>8. CASE BeginUpsert(p)
  <2>1. UNCHANGED <<books, owed, taken, reaped>>
    BY <1>8 DEF BeginUpsert
  <2>2. intake' = [intake EXCEPT ![p] = [intake[p] EXCEPT !.pc = "commit", !.stale = Stale(Event(p))]]
    BY <1>8 DEF BeginUpsert
  <2>3. intake'[p].pc = "commit"
    BY <2>2 DEF TypeOK, Intake
  <2>4. Seen
    BY <1>1, <2>1, <2>3, SeenBefore
  <2> QED
    BY <1>1, <2>1, <2>4, ReasonStays DEF Kept, Reason, books
<1>9. CASE CommitUpsert(p)
  <2>1. order'.exists
    BY <1>1, <1>9, TypesOf, Upserts DEF CommitUpsert, Kept
  <2> QED
    BY <2>1 DEF Reason, InBooks
<1> QED
  BY <1>2, <1>3, <1>4, <1>5, <1>6, <1>7, <1>8, <1>9, NoGhost DEF Take

LEMMA KeptBooks ==
  ASSUME TypeOK, LockInv, Routes, Kept, [Next]_vars, ~Dissolved', Seen', ~reaped'
  PROVE  Reason'
<1>1. ~Dissolved
  BY DissolvedStays
<1>2. ASSUME NEW p \in Intakers, (\E e \in Events : Deliver(p, e)) \/ Interrupt(p)
      PROVE  Reason'
  <2>1. UNCHANGED <<books, taken, reaped>> /\ owed \subseteq owed'
    BY <1>2 DEF Deliver, Interrupt, ledger
  <2>2. Apart(p) /\ intake'[p].pc \in {"idle", "unpack", "purge", "check"}
    BY <1>2, DeliverTypes, InterruptTypes, Constants
  <2>3. Seen
    BY <2>1, <2>2, SeenBefore
  <2> QED
    BY <1>1, <2>1, <2>3, ReasonStays DEF Kept, Reason, books
<1>3. ASSUME NEW g \in Graduators, Promote(g) \/ FlushOne(g) \/ GraduationFails(g)
      PROVE  Reason'
  <2>1. UNCHANGED <<intake, taken, owed, reaped>>
    BY <1>3 DEF Promote, PromoteOne, FlushOne, Graduate, GraduationFails, ReadFailed,
        MarkFailed, ledger
  <2>2. Reason
    BY <1>1, <2>1 DEF Seen, Kept, Reason
  <2>3. CASE Graduate(g)
    <3>1. order'.exists
      BY <1>1, <2>3, TypesOf, Upserts DEF Graduate, Kept
    <3> QED
      BY <3>1 DEF Reason, InBooks
  <2>4. CASE PromoteOne(g)
    <3>1. buffer' = buffer \/ buffer' = [buffer EXCEPT !.status = "PENDING"]
      BY <2>4 DEF PromoteOne
    <3>2. buffer.status # "none" => buffer'.status # "none"
      BY <3>1, BufferStatus
    <3> QED
      BY <2>1, <2>2, <3>2, ReasonStays
  <2>5. CASE MarkFailed(g)
    <3>1. tick[g].attempts + 1 \in Nat
      BY TypesOf
    <3>2. buffer.status # "none" => buffer'.status # "none"
      BY <2>5, <3>1, BufferStatus DEF MarkFailed
    <3> QED
      BY <2>1, <2>2, <3>2, ReasonStays
  <2>6. CASE buffer' = buffer
    BY <2>1, <2>2, <2>6, ReasonStays
  <2> QED
    BY <1>3, <2>3, <2>4, <2>5, <2>6 DEF Promote, FlushOne, GraduationFails, ReadFailed, books
<1>4. CASE World
  <2>1. UNCHANGED <<intake, taken, owed>> /\ ~reaped
    BY <1>4, WorldTypes DEF World, Attach, Detach, ArchiveOrRestore, BackoffElapses,
        ResetBuffer, Midnight, vars, ledger
  <2>2. Reason
    BY <1>1, <2>1 DEF Seen, Kept, Reason
  <2>3. \/ buffer' = buffer
        \/ buffer' = [buffer EXCEPT !.status = "PROMOTING"]
        \/ buffer' = [buffer EXCEPT !.due = TRUE]
    BY <1>4 DEF World, Attach, Detach, ArchiveOrRestore, BackoffElapses, ResetBuffer, Midnight,
       vars, books
  <2>4. buffer.status # "none" => buffer'.status # "none"
    <3>1. buffer' = [buffer EXCEPT !.due = TRUE] => buffer'.status = buffer.status
      BY DEF TypeOK, Buffer
    <3> QED
      BY <2>3, <3>1, BufferStatus
  <2> QED
    BY <2>1, <2>2, <2>4, ReasonStays
<1> QED
  BY <1>2, <1>3, <1>4, Steps, TakeKeeps

LEMMA KeptStep ==
  ASSUME TypeOK, LockInv, Routes, Kept, [Next]_vars
  PROVE  Kept'
BY KeptSight, KeptCancellations, KeptBooks DEF Kept, Reason, Event

LEMMA KeptInit == Init => Routes /\ Kept
<1> SUFFICES ASSUME Init PROVE Routes /\ Kept
  OBVIOUS
<1>1. /\ \A p \in Intakers : intake[p].pc = "idle"
      /\ \A g \in Graduators : tick[g].pc = "idle"
      /\ taken = {}
  BY DEF Init, Idle, Resting
<1> QED
  BY <1>1 DEF Routes, Kept, Seen

(* Once an event was taken in and no intake is owed, the package is in one *)
(* of the books, unless it was a split ghost or the nightly cron reaped it.*)
THEOREM NothingIsLost == Spec => []NothingLost
<1>1. TypeOK /\ LockInv /\ Routes /\ Kept /\ [Next]_vars => (TypeOK /\ LockInv /\ Routes /\ Kept)'
  BY TypeStep, LockStep, RoutesStep, KeptStep
<1>2. Init => TypeOK /\ LockInv /\ Routes /\ Kept
  BY TypeInit, LockInit, KeptInit
<1>3. Kept => NothingLost
  BY DEF Kept, Seen, NothingLost, Settled, InBooks
<1> QED
  BY <1>1, <1>2, <1>3, PTL DEF Spec

=============================================================================

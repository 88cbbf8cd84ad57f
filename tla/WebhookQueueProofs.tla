------------------------- MODULE WebhookQueueProofs -------------------------
(***************************************************************************)
(* Theorems about the webhook queue, for every number of deliveries,       *)
(* processors and attempts, every scan limit and either intake mode.       *)
(***************************************************************************)
EXTENDS WebhookQueue, SequenceTheorems, TLAPS

-----------------------------------------------------------------------------
(* Types.                                                                  *)
-----------------------------------------------------------------------------
\* A processor that is not idle has a current event.
HasWork == \A p \in Processors : proc[p].pc # "idle" => proc[p].batch # <<>>

LEMMA ProcessorTypes ==
  ASSUME TypeOK, HasWork, NEW p \in Processors
  PROVE  /\ proc[p] \in Processor
         /\ proc[p].pc \in {"idle", "scan", "leased", "written", "failed", "recording", "claims"}
         /\ proc[p].batch \in Seq(Deliveries)
         /\ proc[p].attempts \in Nat
         /\ proc[p].pc # "idle" => /\ Current(p) \in Deliveries
                                   /\ event[Current(p)] \in Event
                                   /\ event[Current(p)].attempts \in Nat
<1>1. proc[p] \in Processor
  BY DEF TypeOK
<1>2. /\ proc[p].pc \in {"idle", "scan", "leased", "written", "failed", "recording", "claims"}
      /\ proc[p].batch \in Seq(Deliveries)
      /\ proc[p].attempts \in Nat
  BY <1>1 DEF Processor
<1>3. ASSUME proc[p].pc # "idle"
      PROVE  /\ Current(p) \in Deliveries
             /\ event[Current(p)] \in Event
             /\ event[Current(p)].attempts \in Nat
  <2>1. proc[p].batch # <<>>
    BY <1>3 DEF HasWork
  <2>2. Current(p) \in Deliveries
    BY <1>2, <2>1 DEF Current
  <2>3. event[Current(p)] \in Event
    BY <2>2 DEF TypeOK
  <2> QED
    BY <2>2, <2>3 DEF Event
<1> QED
  BY <1>1, <1>2, <1>3

\* What a processor is after its current event: idle, or before the next one.
LEMMA RestTypes ==
  ASSUME TypeOK, HasWork, NEW p \in Processors, proc[p].pc # "idle"
  PROVE  /\ Rest(p) \in Processor
         /\ Rest(p).pc \in {"idle", "scan"}
         /\ Rest(p).pc # "idle" => Rest(p).batch # <<>>
<1>1. proc[p].batch \in Seq(Deliveries) /\ proc[p].batch # <<>>
  BY ProcessorTypes DEF HasWork
<1>2. CASE Len(proc[p].batch) = 1
  BY <1>2 DEF Rest, Idle, Processor
<1>3. CASE Len(proc[p].batch) # 1
  <2>1. Tail(proc[p].batch) \in Seq(Deliveries) /\ Len(Tail(proc[p].batch)) = Len(proc[p].batch) - 1
    BY <1>1, HeadTailProperties
  <2>3. Len(proc[p].batch) \in Nat
    BY <1>1, LenProperties
  <2>2. Tail(proc[p].batch) # <<>>
    <3>1. Len(Tail(proc[p].batch)) # 0
      BY <1>3, <2>1, <2>3
    <3> QED
      BY <3>1, EmptySeq
  <2> QED
    BY <1>3, <2>1, <2>2 DEF Rest, Processor
<1> QED
  BY <1>2, <1>3

Unmoved(q) == proc'[q] = proc[q] /\ Current(q)' = Current(q)

\* The two ways in which a processor goes on leave the others alone.
LEMMA MovingOn ==
  ASSUME TypeOK, HasWork, NEW p \in Processors, proc[p].pc # "idle", MoveOn(p)
  PROVE  /\ proc' \in [Processors -> Processor]
         /\ proc'[p].pc \in {"idle", "scan"}
         /\ \A q \in Processors \ {p} : Unmoved(q)
         /\ HasWork'
         /\ acked' \subseteq Deliveries
         /\ acked' \subseteq acked \cup {Current(p)}
         /\ p \notin Handlers => acked' = acked
<1>1. proc' = [proc EXCEPT ![p] = Rest(p)]
  BY DEF MoveOn
<1>2. proc \in [Processors -> Processor]
  BY DEF TypeOK
<1>3. proc' \in [Processors -> Processor] /\ proc'[p] = Rest(p)
  BY <1>1, <1>2, RestTypes
<1>4. \A q \in Processors \ {p} : Unmoved(q)
  BY <1>1, <1>2 DEF Unmoved, Current
<1>5. HasWork'
  BY <1>3, <1>4, RestTypes DEF HasWork, Unmoved
<1>6. Current(p) \in Deliveries
  BY ProcessorTypes
<1>7. /\ acked' \subseteq acked \cup {Current(p)}
      /\ p \notin Handlers => acked' = acked
      /\ acked' \subseteq Deliveries
  BY <1>6 DEF MoveOn, TypeOK
<1> QED
  BY <1>3, <1>4, <1>5, <1>7, RestTypes

LEMMA Going ==
  ASSUME TypeOK, HasWork, NEW p \in Processors, proc[p].pc # "idle",
         NEW to \in {"scan", "leased", "written", "failed", "recording", "claims"}, GoTo(p, to)
  PROVE  /\ proc' \in [Processors -> Processor]
         /\ proc'[p].pc = to
         /\ proc'[p].batch = proc[p].batch
         /\ Current(p)' = Current(p)
         /\ \A q \in Processors \ {p} : Unmoved(q)
         /\ HasWork'
         /\ acked' = acked
<1>1. proc' = [proc EXCEPT ![p] = [proc[p] EXCEPT !.pc = to]]
  BY DEF GoTo
<1>2. proc \in [Processors -> Processor] /\ proc[p] \in Processor
  BY DEF TypeOK
<1>3. [proc[p] EXCEPT !.pc = to] \in Processor
  BY <1>2 DEF Processor
<1>4. proc' \in [Processors -> Processor] /\ proc'[p] = [proc[p] EXCEPT !.pc = to]
  BY <1>1, <1>2, <1>3
<1>5. proc'[p].pc = to /\ proc'[p].batch = proc[p].batch
  BY <1>2, <1>4 DEF Processor
<1>6. Current(p)' = Current(p)
  BY <1>5 DEF Current
<1>7. \A q \in Processors \ {p} : Unmoved(q)
  BY <1>1, <1>2 DEF Unmoved, Current
<1>8. HasWork'
  BY <1>5, <1>7 DEF HasWork, Unmoved
<1> QED
  BY <1>4, <1>5, <1>6, <1>7, <1>8 DEF GoTo

\* A processor that gives up its batch.
LEMMA Stopping ==
  ASSUME TypeOK, HasWork, NEW p \in Processors, proc' = [proc EXCEPT ![p] = Idle]
  PROVE  /\ proc' \in [Processors -> Processor]
         /\ proc'[p] = Idle
         /\ \A q \in Processors \ {p} : Unmoved(q)
         /\ HasWork'
<1>1. proc \in [Processors -> Processor] /\ Idle \in Processor
  BY DEF TypeOK, Idle, Processor
<1>2. proc' \in [Processors -> Processor] /\ proc'[p] = Idle
  BY <1>1
<1>3. \A q \in Processors \ {p} : Unmoved(q)
  BY <1>1 DEF Unmoved, Current
<1>4. HasWork'
  BY <1>2, <1>3 DEF HasWork, Unmoved, Idle
<1> QED
  BY <1>2, <1>3, <1>4

\* A new row.
NewRow(d) == IF d \in Drops THEN [Absent EXCEPT !.state = "closed", !.error = "dropped"]
                            ELSE [Absent EXCEPT !.state = "open"]

LEMMA RowTypes ==
  ASSUME TypeOK, NEW d \in Deliveries, NEW error \in {"none", "transient", "exhausted", "deadend", "dropped"}
  PROVE  /\ event[d] \in Event
         /\ NewRow(d) \in Event
         /\ Leased(d) \in Event
         /\ Closed(d, error) \in Event
         /\ Backoff(d) \in Event
         /\ [event[d] EXCEPT !.due = TRUE] \in Event
         /\ [event[d] EXCEPT !.state = "gone"] \in Event
<1>1. event[d] \in Event
  BY DEF TypeOK
<1>2. event[d].attempts + 1 \in Nat
  BY <1>1 DEF Event
<1>3. NewRow(d) \in Event
  BY DEF NewRow, Absent, Event
<1>4. Leased(d) \in Event
  BY <1>1, <1>2 DEF Leased, Event
<1>5. Closed(d, error) \in Event /\ Backoff(d) \in Event
  BY <1>1 DEF Closed, Backoff, Event
<1>6. [event[d] EXCEPT !.due = TRUE] \in Event /\ [event[d] EXCEPT !.state = "gone"] \in Event
  BY <1>1 DEF Event
<1> QED
  BY <1>1, <1>3, <1>4, <1>5, <1>6

\* The events that are closed without an attempt at their order.
CloseAtOnce(p) == CloseSchemaDrift(p) \/ IgnoreUnknownStatus(p) \/ CloseUnmappable(p)

LEMMA ClosingAtOnce ==
  ASSUME TypeOK, HasWork, NEW p \in Processors, CloseAtOnce(p)
  PROVE  /\ proc[p].pc = "leased" /\ Exists(Current(p)) /\ MoveOn(p)
         /\ UNCHANGED <<arrival, taken, claims, deleted, interrupts>>
         /\ \E row \in {Closed(Current(p), "deadend"), Closed(Current(p), event[Current(p)].error)} :
               /\ row \in Event /\ row.state = "closed"
               /\ row.error = "none" => Current(p) \in UnknownStatuses
               /\ event' = [event EXCEPT ![Current(p)] = row]
<1> DEFINE c == Current(p)
<1>1. /\ proc[p].pc = "leased" /\ Exists(c) /\ MoveOn(p)
      /\ UNCHANGED <<arrival, taken, claims, deleted, interrupts>>
      /\ \/ event' = [event EXCEPT ![c] = Closed(c, "deadend")]
         \/ event' = [event EXCEPT ![c] = Closed(c, event[c].error)] /\ c \in UnknownStatuses
  BY DEF CloseAtOnce, CloseSchemaDrift, IgnoreUnknownStatus, CloseUnmappable
<1>2. c \in Deliveries /\ event[c] \in Event
  BY <1>1, ProcessorTypes
<1>3. event[c].error \in {"none", "transient", "exhausted", "deadend", "dropped"}
  BY <1>2 DEF Event
<1>4. Closed(c, "deadend") \in Event /\ Closed(c, event[c].error) \in Event
  BY <1>2, <1>3, RowTypes
<1>5. /\ Closed(c, "deadend").state = "closed" /\ Closed(c, "deadend").error = "deadend"
      /\ Closed(c, event[c].error).state = "closed"
  BY <1>2 DEF Closed, Event
<1> QED
  BY <1>1, <1>4, <1>5

\* Claims, closing, backoff, the clock and retention write one row.
LEMMA RowWritten ==
  ASSUME TypeOK, NEW d \in Deliveries, NEW row \in Event, event' = [event EXCEPT ![d] = row]
  PROVE  /\ event' \in [Deliveries -> Event]
         /\ event'[d] = row
         /\ \A e \in Deliveries \ {d} : event'[e] = event[e]
BY DEF TypeOK

\* A processor before the first event of its batch.
LEMMA Scanning ==
  ASSUME NEW batch \in Seq(Deliveries)
  PROVE  LET scanning == [Idle EXCEPT !.pc = "scan", !.batch = batch]
         IN scanning \in Processor /\ scanning.pc = "scan" /\ scanning.batch = batch
BY DEF Idle, Processor

LEMMA ReceiveTypes ==
  ASSUME TypeOK, HasWork, NEW d \in Deliveries, Receive(d)
  PROVE  /\ TypeOK' /\ HasWork'
         /\ \A q \in Processors :
              \/ Unmoved(q)
              \/ /\ q \in Handlers
                 /\ proc'[q] = [Idle EXCEPT !.pc = "scan", !.batch = <<d>>]
                 /\ d \notin Drops
<1>1. event' = [event EXCEPT ![d] = NewRow(d)]
  BY DEF Receive, NewRow
<1>2. event' \in [Deliveries -> Event]
  BY <1>1, RowTypes, RowWritten
<1>3. arrival' \in Seq(Deliveries)
  <2>1. arrival' = arrival \/ arrival' = Append(arrival, d)
    BY DEF Receive
  <2> QED
    BY <2>1 DEF TypeOK
<1>4. acked' \subseteq Deliveries
  BY DEF Receive, TypeOK
<1> DEFINE inline == [Idle EXCEPT !.pc = "scan", !.batch = <<d>>]
<1>5. inline \in Processor /\ inline.batch # <<>>
  <2>1. <<d>> \in Seq(Deliveries) /\ <<d>> # <<>>
    OBVIOUS
  <2> QED
    BY <2>1, Scanning
<1> HIDE DEF inline
<1>6. /\ proc' \in [Processors -> Processor]
      /\ \A q \in Processors : Unmoved(q) \/ (q \in Handlers /\ proc'[q] = inline /\ d \notin Drops)
  <2>1. CASE UNCHANGED proc
    BY <2>1 DEF Unmoved, Current, TypeOK
  <2>2. CASE \E h \in Handlers : d \notin Drops /\ proc' = [proc EXCEPT ![h] = inline]
    <3>1. PICK h \in Handlers : d \notin Drops /\ proc' = [proc EXCEPT ![h] = inline]
      BY <2>2
    <3> QED
      BY <1>5, <3>1 DEF Unmoved, Current, TypeOK, Processors
  <2> QED
    BY <2>1, <2>2 DEF Receive, inline
<1>7. HasWork'
  BY <1>5, <1>6 DEF HasWork, Unmoved
<1>8. UNCHANGED <<taken, claims, deleted, interrupts>>
  BY DEF Receive
<1>9. TypeOK'
  BY <1>2, <1>3, <1>4, <1>6, <1>8 DEF TypeOK
<1> QED
  BY <1>6, <1>7, <1>9 DEF inline

LEMMA ScanTypes ==
  ASSUME TypeOK, HasWork, NEW p \in Processors, Scan(p)
  PROVE  /\ TypeOK' /\ HasWork'
         /\ p \in Ticks
         /\ proc'[p].pc = "scan"
         /\ \A q \in Processors \ {p} : Unmoved(q)
<1>1. PICK n \in 1 .. ScanLimit : \E at \in [1 .. n -> Due] :
        proc' = [proc EXCEPT ![p] =
          [Idle EXCEPT !.pc = "scan", !.batch = [k \in 1 .. n |-> arrival[at[k]]]]]
  BY DEF Scan
<1>2. PICK at \in [1 .. n -> Due] :
        proc' = [proc EXCEPT ![p] =
          [Idle EXCEPT !.pc = "scan", !.batch = [k \in 1 .. n |-> arrival[at[k]]]]]
  BY <1>1
<1> DEFINE batch == [k \in 1 .. n |-> arrival[at[k]]]
<1>3. n \in Nat /\ n >= 1
  BY LimitsAssumption
<1>4. \A k \in 1 .. n : arrival[at[k]] \in Deliveries
  <2>1. Due \subseteq DOMAIN arrival
    BY DEF Due
  <2>2. \A i \in DOMAIN arrival : arrival[i] \in Deliveries
    BY ElementOfSeq, LenProperties DEF TypeOK
  <2> QED
    BY <2>1, <2>2
<1>5. batch \in [1 .. n -> Deliveries]
  BY <1>4
<1>6. batch \in Seq(Deliveries)
  BY <1>3, <1>5, SeqDef
<1>7. batch # <<>>
  <2>1. DOMAIN batch = 1 .. n
    OBVIOUS
  <2>2. 1 \in DOMAIN batch
    BY <1>3, <2>1
  <2>3. DOMAIN <<>> = {}
    OBVIOUS
  <2> HIDE DEF batch
  <2> QED
    BY <2>2, <2>3
<1> HIDE DEF batch
<1> DEFINE scanning == [Idle EXCEPT !.pc = "scan", !.batch = batch]
<1>8. scanning \in Processor /\ scanning.pc = "scan" /\ scanning.batch = batch
  BY <1>6, Scanning
<1>9. proc' = [proc EXCEPT ![p] = scanning]
  BY <1>2 DEF scanning, batch
<1> HIDE DEF scanning
<1>10. /\ proc' \in [Processors -> Processor] /\ proc'[p] = scanning
       /\ \A q \in Processors \ {p} : Unmoved(q)
  BY <1>8, <1>9 DEF TypeOK, Unmoved, Current
<1>11. HasWork'
  BY <1>7, <1>8, <1>10 DEF HasWork, Unmoved
<1>12. UNCHANGED <<event, arrival, taken, acked, claims, deleted, interrupts>> /\ p \in Ticks
  BY DEF Scan
<1>13. TypeOK'
  BY <1>10, <1>12 DEF TypeOK
<1> QED
  BY <1>8, <1>10, <1>11, <1>12, <1>13

\* A step of a processor on its current event.
LEMMA ProcessTypes ==
  ASSUME TypeOK, HasWork, NEW p \in Processors, Process(p)
  PROVE  /\ TypeOK' /\ HasWork'
         /\ \A q \in Processors \ {p} : Unmoved(q)
         /\ proc[p].pc # "idle"
<1>1. /\ proc[p].pc # "idle" => Current(p) \in Deliveries
      /\ proc[p].pc # "idle" => event[Current(p)].attempts \in Nat
  BY ProcessorTypes
<1>2. CASE ClaimWebhookEventLease(p)
  <2>1. proc[p].pc = "scan" /\ GoTo(p, "leased")
    BY <1>2 DEF ClaimWebhookEventLease
  <2>2. event' \in [Deliveries -> Event]
    BY <1>1, <1>2, <2>1, RowTypes, RowWritten DEF ClaimWebhookEventLease
  <2>3. /\ proc' \in [Processors -> Processor] /\ HasWork' /\ acked' = acked
        /\ \A q \in Processors \ {p} : Unmoved(q)
    BY <2>1, Going
  <2> QED
    BY <1>2, <2>1, <2>2, <2>3 DEF ClaimWebhookEventLease, TypeOK
<1>3. CASE NotLeased(p)
  <2>1. proc[p].pc = "scan" /\ MoveOn(p)
    BY <1>3 DEF NotLeased
  <2> QED
    BY <1>3, <2>1, MovingOn DEF NotLeased, TypeOK
<1>4. CASE StoreNotFound(p)
  <2>1. proc[p].pc = "leased" /\ proc' = [proc EXCEPT ![p] = Idle]
    BY <1>4 DEF StoreNotFound
  <2> QED
    BY <1>4, <2>1, Stopping DEF StoreNotFound, TypeOK
<1>5. CASE CloseAtOnce(p)
  <2>1. /\ proc[p].pc = "leased" /\ MoveOn(p)
        /\ UNCHANGED <<arrival, taken, claims, deleted, interrupts>>
    BY <1>5, ClosingAtOnce
  <2>2. event' \in [Deliveries -> Event]
    BY <1>1, <1>5, <2>1, ClosingAtOnce, RowWritten
  <2> QED
    BY <2>1, <2>2, MovingOn DEF TypeOK
<1>6. CASE IntakeOrder(p)
  <2>1. proc[p].pc = "leased" /\ GoTo(p, "written")
    BY <1>6 DEF IntakeOrder
  <2>2. taken' \subseteq Deliveries
    BY <1>1, <1>6, <2>1 DEF IntakeOrder, TypeOK
  <2>3. /\ proc' \in [Processors -> Processor] /\ HasWork' /\ acked' = acked
        /\ \A q \in Processors \ {p} : Unmoved(q)
    BY <2>1, Going
  <2> QED
    BY <1>6, <2>1, <2>2, <2>3 DEF IntakeOrder, TypeOK
<1>7. CASE StampProcessed(p)
  <2>1. proc[p].pc = "written" /\ (GoTo(p, "claims") \/ MoveOn(p))
    BY <1>7 DEF StampProcessed
  <2>2. event' \in [Deliveries -> Event]
    BY <1>1, <1>7, <2>1, RowTypes, RowWritten DEF StampProcessed
  <2>3. /\ proc' \in [Processors -> Processor] /\ HasWork' /\ acked' \subseteq Deliveries
        /\ \A q \in Processors \ {p} : Unmoved(q)
    <3>1. CASE GoTo(p, "claims")
      BY <2>1, <3>1, Going DEF TypeOK
    <3>2. CASE MoveOn(p)
      BY <2>1, <3>2, MovingOn
    <3> QED
      BY <2>1, <3>1, <3>2
  <2> QED
    BY <1>7, <2>1, <2>2, <2>3 DEF StampProcessed, TypeOK
<1>8. CASE EnqueueClaims(p)
  <2>1. proc[p].pc = "claims" /\ MoveOn(p)
    BY <1>8 DEF EnqueueClaims
  <2>2. claims' \in BOOLEAN
    BY <1>8 DEF EnqueueClaims, TypeOK
  <2> QED
    BY <1>8, <2>1, <2>2, MovingOn DEF EnqueueClaims, TypeOK
<1>9. CASE Throws(p)
  <2>1. proc[p].pc \in {"leased", "written"} /\ GoTo(p, "failed")
    BY <1>9 DEF Throws
  <2>2. /\ proc' \in [Processors -> Processor] /\ HasWork' /\ acked' = acked
        /\ \A q \in Processors \ {p} : Unmoved(q)
    BY <2>1, Going
  <2> QED
    BY <1>9, <2>1, <2>2 DEF Throws, TypeOK
<1>10. CASE ReadAttempts(p)
  <2>1. proc[p].pc = "failed"
    BY <1>10 DEF ReadAttempts
  <2>2. CASE MoveOn(p)
    BY <1>10, <2>1, <2>2, MovingOn DEF ReadAttempts, TypeOK
  <2>3. CASE ~MoveOn(p)
    <3> DEFINE read == [proc[p] EXCEPT !.pc = "recording", !.attempts = event[Current(p)].attempts]
    <3>1. proc' = [proc EXCEPT ![p] = read] /\ acked' = acked
      BY <1>10, <2>3 DEF ReadAttempts
    <3>2. read \in Processor /\ read.batch = proc[p].batch
      <4>1. proc[p] \in Processor
        BY DEF TypeOK
      <4> QED
        BY <1>1, <2>1, <4>1 DEF Processor
    <3> HIDE DEF read
    <3>3. /\ proc' \in [Processors -> Processor] /\ proc'[p] = read
          /\ \A q \in Processors \ {p} : Unmoved(q)
      BY <3>1, <3>2 DEF TypeOK, Unmoved, Current
    <3>4. HasWork'
      BY <2>1, <3>2, <3>3 DEF HasWork, Unmoved
    <3> QED
      BY <1>10, <2>1, <3>1, <3>3, <3>4 DEF ReadAttempts, TypeOK
  <2> QED
    BY <2>2, <2>3
<1>11. CASE RecordTransientProcessingFailure(p)
  <2>1. proc[p].pc = "recording" /\ MoveOn(p)
    BY <1>11 DEF RecordTransientProcessingFailure
  <2>2. event' \in [Deliveries -> Event]
    <3>1. PICK row \in {Closed(Current(p), "exhausted"), Backoff(Current(p))} :
            event' = [event EXCEPT ![Current(p)] = row]
      BY <1>11 DEF RecordTransientProcessingFailure
    <3>2. row \in Event
      BY <1>1, <2>1, RowTypes
    <3> QED
      BY <1>1, <2>1, <3>1, <3>2, RowWritten
  <2> QED
    BY <1>11, <2>1, <2>2, MovingOn DEF RecordTransientProcessingFailure, TypeOK
<1>12. CASE RowVanished(p)
  <2>1. proc[p].pc = "recording" /\ proc' = [proc EXCEPT ![p] = Idle]
    BY <1>12 DEF RowVanished
  <2> QED
    BY <1>12, <2>1, Stopping DEF RowVanished, TypeOK
<1> QED
  BY <1>2, <1>3, <1>4, <1>5, <1>6, <1>7, <1>8, <1>9, <1>10, <1>11, <1>12
  DEF CloseAtOnce, Process

\* Steps that leave the processors alone.
Outside ==
  \/ \E d \in Deliveries : DropUnrecorded(d) \/ ReDelivery(d)
                             \/ LeaseOrBackoffElapses(d) \/ WebhookEventCleanup(d)
  \/ ClaimsRunEnds
  \/ DisconnectStore
  \/ UNCHANGED vars

LEMMA OutsideTypes ==
  ASSUME TypeOK, HasWork, Outside
  PROVE  TypeOK' /\ HasWork' /\ \A q \in Processors : Unmoved(q)
<1>1. proc' = proc
  BY DEF Outside, DropUnrecorded, ReDelivery, LeaseOrBackoffElapses, WebhookEventCleanup,
         ClaimsRunEnds, DisconnectStore, vars
<1>2. HasWork' /\ \A q \in Processors : Unmoved(q)
  BY <1>1 DEF HasWork, Unmoved, Current
<1>3. ASSUME NEW d \in Deliveries, DropUnrecorded(d) \/ ReDelivery(d)
      PROVE  TypeOK'
  BY <1>1, <1>3 DEF DropUnrecorded, ReDelivery, TypeOK
<1>4. ASSUME NEW d \in Deliveries, LeaseOrBackoffElapses(d) \/ WebhookEventCleanup(d)
      PROVE  TypeOK'
  <2>1. PICK row \in Event : event' = [event EXCEPT ![d] = row]
    BY <1>4, RowTypes DEF LeaseOrBackoffElapses, WebhookEventCleanup
  <2>2. event' \in [Deliveries -> Event]
    BY <2>1, RowWritten
  <2> QED
    BY <1>1, <1>4, <2>2 DEF LeaseOrBackoffElapses, WebhookEventCleanup, TypeOK
<1>5. ASSUME ClaimsRunEnds \/ UNCHANGED vars
      PROVE  TypeOK'
  BY <1>1, <1>5 DEF ClaimsRunEnds, vars, TypeOK
<1>6. ASSUME DisconnectStore
      PROVE  TypeOK'
  <2>1. event' \in [Deliveries -> Event]
    BY <1>6, RowTypes DEF DisconnectStore, TypeOK
  <2> QED
    BY <1>1, <1>6, <2>1 DEF DisconnectStore, TypeOK
<1> QED
  BY <1>2, <1>3, <1>4, <1>5, <1>6 DEF Outside

LEMMA TypeStep ==
  ASSUME TypeOK, HasWork, [Next]_vars
  PROVE  TypeOK' /\ HasWork'
<1>1. ASSUME NEW d \in Deliveries, Receive(d)
      PROVE  TypeOK' /\ HasWork'
  BY <1>1, ReceiveTypes
<1>2. ASSUME NEW p \in Processors, Scan(p)
      PROVE  TypeOK' /\ HasWork'
  BY <1>2, ScanTypes
<1>3. ASSUME NEW p \in Processors, Process(p)
      PROVE  TypeOK' /\ HasWork'
  BY <1>3, ProcessTypes
<1>4. ASSUME NEW p \in Processors, Interrupted(p)
      PROVE  TypeOK' /\ HasWork'
  <2>1. proc' \in [Processors -> Processor] /\ HasWork'
    BY <1>4, Stopping DEF Interrupted
  <2> QED
    BY <1>4, <2>1 DEF Interrupted, TypeOK
<1>5. ASSUME Outside
      PROVE  TypeOK' /\ HasWork'
  BY <1>5, OutsideTypes
<1> QED
  BY <1>1, <1>2, <1>3, <1>4, <1>5 DEF Next, Outside

LEMMA TypeInit == Init => TypeOK /\ HasWork
<1> SUFFICES ASSUME Init PROVE TypeOK /\ HasWork
  OBVIOUS
<1>1. Absent \in Event /\ Idle \in Processor /\ Idle.pc = "idle"
  BY DEF Absent, Event, Idle, Processor
<1>2. <<>> \in Seq(Deliveries)
  OBVIOUS
<1> QED
  BY <1>1, <1>2 DEF Init, TypeOK, HasWork

(* All variables of the queue keep their types.                            *)
THEOREM TypeCorrect == Spec => [](TypeOK /\ HasWork)
<1>1. TypeOK /\ HasWork /\ [Next]_vars => (TypeOK /\ HasWork)'
  BY TypeStep
<1> QED
  BY <1>1, TypeInit, PTL DEF Spec

-----------------------------------------------------------------------------
(* The lease.                                                              *)
-----------------------------------------------------------------------------
(***************************************************************************)
(* A processor that has claimed an event and not yet closed it stands on a *)
(* row that is open and not due, so that no scan or claim sees it, unless  *)
(* the store was disconnected; after the closing stamp the row is closed.  *)
(***************************************************************************)
Owned(p) == proc[p].pc \in {"leased", "written", "failed", "recording"}

Holding(p) ==
  /\ Owned(p) => \/ event[Current(p)].state = "open" /\ ~event[Current(p)].due
                 \/ event[Current(p)].state = "gone" /\ deleted
  /\ proc[p].pc = "claims" => event[Current(p)].state \in {"closed", "gone"}

LeaseHeld == \A p \in Processors : Holding(p)

LeaseInv == LeaseHeld /\ SoleProcessor

\* One that stands where it stood, before a row that is as it was.
LEMMA StillHolding ==
  ASSUME NEW q \in Processors, Unmoved(q), Holding(q), deleted => deleted',
         proc[q].pc \notin {"idle", "scan"} => event'[Current(q)] = event[Current(q)]
  PROVE  Holding(q)'
BY DEF Unmoved, Holding, Owned

\* Nobody begins to work on anything.
LEMMA NoNewWork ==
  ASSUME SoleProcessor, \A q \in Processors, d \in Deliveries : Works(q, d)' => Works(q, d)
  PROVE  SoleProcessor'
BY DEF SoleProcessor

LEMMA UnmovedWorks ==
  ASSUME NEW q \in Processors, NEW d \in Deliveries, Unmoved(q)
  PROVE  Works(q, d)' => Works(q, d)
BY DEF Unmoved, Works

\* What a step after the claim does to its own event, and to no other.
LEMMA ProcessKeeps ==
  ASSUME TypeOK, HasWork, LeaseHeld, NEW p \in Processors, Process(p), ~ClaimWebhookEventLease(p)
  PROVE  /\ \/ proc'[p].pc \in {"idle", "scan"}
            \/ proc[p].pc \notin {"idle", "scan"} /\ Current(p)' = Current(p)
         /\ Holding(p)'
         /\ \A e \in Deliveries \ {Current(p)} : event'[e] = event[e]
         /\ deleted' = deleted
         /\ proc[p].pc = "scan" => event' = event
<1>1. Current(p) \in Deliveries /\ Holding(p)
  BY ProcessorTypes, ProcessTypes DEF LeaseHeld
<1>2. proc'[p].pc \in {"idle", "scan"} => Holding(p)'
  BY DEF Holding, Owned
<1>3. CASE NotLeased(p) \/ EnqueueClaims(p)
  <2>1. MoveOn(p) /\ proc[p].pc # "idle" /\ UNCHANGED <<event, deleted>>
    BY <1>3 DEF NotLeased, EnqueueClaims
  <2> QED
    BY <1>2, <2>1, MovingOn
<1>4. CASE StoreNotFound(p) \/ RowVanished(p)
  <2>1. proc' = [proc EXCEPT ![p] = Idle] /\ UNCHANGED <<event, deleted>> /\ proc[p].pc # "scan"
    BY <1>4 DEF StoreNotFound, RowVanished
  <2>2. proc'[p].pc = "idle"
    BY <2>1, Stopping DEF Idle
  <2> QED
    BY <1>2, <2>1, <2>2
<1>5. CASE CloseAtOnce(p) \/ RecordTransientProcessingFailure(p)
  <2>1. PICK row \in Event : event' = [event EXCEPT ![Current(p)] = row]
    BY <1>1, <1>5, RowTypes, ClosingAtOnce DEF RecordTransientProcessingFailure
  <2>2. MoveOn(p) /\ proc[p].pc \notin {"idle", "scan"} /\ UNCHANGED deleted
    BY <1>5, ClosingAtOnce DEF RecordTransientProcessingFailure
  <2> QED
    BY <1>1, <1>2, <2>1, <2>2, MovingOn, RowWritten
<1>6. CASE StampProcessed(p)
  <2>1. /\ proc[p].pc = "written" /\ (GoTo(p, "claims") \/ MoveOn(p)) /\ UNCHANGED deleted
        /\ event' = [event EXCEPT ![Current(p)] = Closed(Current(p), "none")]
    BY <1>6 DEF StampProcessed
  <2>2. /\ \A e \in Deliveries \ {Current(p)} : event'[e] = event[e]
        /\ event'[Current(p)] = Closed(Current(p), "none")
    BY <1>1, <2>1, RowTypes, RowWritten
  <2>3. CASE MoveOn(p)
    BY <1>2, <2>1, <2>2, <2>3, MovingOn
  <2>4. CASE GoTo(p, "claims")
    <3>1. proc'[p].pc = "claims" /\ Current(p)' = Current(p)
      BY <2>1, <2>4, Going
    <3>2. event'[Current(p)].state = "closed"
      <4>1. event[Current(p)] \in Event
        BY <1>1 DEF TypeOK
      <4> QED
        BY <2>2, <4>1 DEF Closed, Event
    <3>3. Holding(p)'
      BY <3>1, <3>2 DEF Holding, Owned
    <3> QED
      BY <2>1, <2>2, <3>1, <3>3
  <2> QED
    BY <2>1, <2>3, <2>4
<1>7. CASE IntakeOrder(p) \/ Throws(p)
  <2>1. /\ proc[p].pc \in {"leased", "written"} /\ UNCHANGED <<event, deleted>>
        /\ GoTo(p, "written") \/ GoTo(p, "failed")
    BY <1>7 DEF IntakeOrder, Throws
  <2>2. proc'[p].pc \in {"written", "failed"} /\ Current(p)' = Current(p)
    BY <2>1, Going
  <2>3. Holding(p)'
    BY <1>1, <2>1, <2>2 DEF Holding, Owned
  <2> QED
    BY <2>1, <2>2, <2>3
<1>8. CASE ReadAttempts(p)
  <2>1. proc[p].pc = "failed" /\ UNCHANGED <<event, deleted>>
    BY <1>8 DEF ReadAttempts
  <2>2. CASE MoveOn(p)
    BY <1>2, <2>1, <2>2, MovingOn
  <2>3. CASE ~MoveOn(p)
    <3>1. proc' = [proc EXCEPT ![p] = [proc[p] EXCEPT !.pc = "recording",
                                                      !.attempts = event[Current(p)].attempts]]
      BY <1>8, <2>3 DEF ReadAttempts
    <3>2. proc'[p].pc = "recording" /\ proc'[p].batch = proc[p].batch
      BY <3>1 DEF TypeOK, Processor
    <3>3. Current(p)' = Current(p)
      BY <3>2 DEF Current
    <3>4. Holding(p)'
      BY <1>1, <2>1, <3>2, <3>3 DEF Holding, Owned
    <3> QED
      BY <2>1, <3>2, <3>3, <3>4
  <2> QED
    BY <2>2, <2>3
<1> QED
  BY <1>3, <1>4, <1>5, <1>6, <1>7, <1>8 DEF CloseAtOnce, Process

LEMMA ScanningIsIdleWork ==
  ASSUME NEW p \in Processors, proc[p].pc \in {"idle", "scan"}
  PROVE  /\ Holding(p)
         /\ \A d \in Deliveries : ~Works(p, d)
BY DEF Holding, Owned, Works

LEMMA ReceiveLease ==
  ASSUME TypeOK, HasWork, LeaseInv, NEW d \in Deliveries, Receive(d)
  PROVE  LeaseInv'
<1>1. event' = [event EXCEPT ![d] = NewRow(d)] /\ event[d].state = "absent" /\ UNCHANGED deleted
  BY DEF Receive, NewRow
<1>2. \A e \in Deliveries \ {d} : event'[e] = event[e]
  BY <1>1, RowTypes, RowWritten
<1>3. \A q \in Processors : ~Works(q, d)
  <2> SUFFICES ASSUME NEW q \in Processors, Works(q, d) PROVE FALSE
    OBVIOUS
  <2>1. Holding(q) /\ proc[q].pc \in {"leased", "written", "failed", "recording", "claims"}
    BY ProcessorTypes DEF LeaseInv, LeaseHeld, Works
  <2> QED
    BY <1>1, <2>1 DEF Holding, Owned, Works
<1>4. ASSUME NEW q \in Processors
      PROVE  Holding(q)' /\ \A e \in Deliveries : Works(q, e)' => Works(q, e)
  <2>1. CASE Unmoved(q)
    <3>1. proc[q].pc \notin {"idle", "scan"} => event'[Current(q)] = event[Current(q)]
      BY <1>2, <1>3, ProcessorTypes DEF Works
    <3> QED
      BY <1>1, <2>1, <3>1, StillHolding, UnmovedWorks DEF LeaseInv, LeaseHeld
  <2>2. CASE proc'[q] = [Idle EXCEPT !.pc = "scan", !.batch = <<d>>]
    <3>1. <<d>> \in Seq(Deliveries)
      OBVIOUS
    <3>2. proc'[q].pc = "scan"
      BY <2>2, <3>1, Scanning
    <3> QED
      BY <3>2 DEF Holding, Owned, Works
  <2> QED
    BY <2>1, <2>2, ReceiveTypes
<1> QED
  BY <1>4, NoNewWork DEF LeaseInv, LeaseHeld

LEMMA ClaimLease ==
  ASSUME TypeOK, HasWork, LeaseInv, NEW p \in Processors, ClaimWebhookEventLease(p)
  PROVE  LeaseInv'
<1>1. /\ proc[p].pc = "scan" /\ GoTo(p, "leased") /\ UNCHANGED deleted
      /\ event[Current(p)].state = "open" /\ event[Current(p)].due
      /\ event' = [event EXCEPT ![Current(p)] = Leased(Current(p))]
  BY DEF ClaimWebhookEventLease, Eligible
<1>2. Current(p) \in Deliveries /\ event[Current(p)] \in Event
  BY <1>1, ProcessorTypes
<1>3. /\ \A e \in Deliveries \ {Current(p)} : event'[e] = event[e]
      /\ event'[Current(p)] = Leased(Current(p))
  BY <1>1, <1>2, RowTypes, RowWritten
<1>4. event'[Current(p)].state = "open" /\ ~event'[Current(p)].due
  <2>1. Leased(Current(p)).state = event[Current(p)].state /\ ~Leased(Current(p)).due
    BY <1>2 DEF Leased, Event
  <2> QED
    BY <1>1, <1>3, <2>1
<1>5. /\ proc'[p].pc = "leased" /\ Current(p)' = Current(p)
      /\ \A q \in Processors \ {p} : Unmoved(q)
  BY <1>1, Going
<1>6. Holding(p)'
  BY <1>4, <1>5 DEF Holding, Owned
<1>7. \A q \in Processors : ~Works(q, Current(p))
  <2> SUFFICES ASSUME NEW q \in Processors, Works(q, Current(p)) PROVE FALSE
    OBVIOUS
  <2>1. Holding(q) /\ proc[q].pc \in {"leased", "written", "failed", "recording", "claims"}
    BY ProcessorTypes DEF LeaseInv, LeaseHeld, Works
  <2> QED
    BY <1>1, <2>1 DEF Holding, Owned, Works
<1>8. ASSUME NEW q \in Processors \ {p}
      PROVE  Holding(q)'
  <2>1. proc[q].pc \notin {"idle", "scan"} => event'[Current(q)] = event[Current(q)]
    BY <1>3, <1>7, ProcessorTypes DEF Works
  <2> QED
    BY <1>1, <1>5, <2>1, StillHolding DEF LeaseInv, LeaseHeld
<1>9. \A d \in Deliveries : Works(p, d)' => d = Current(p)
  BY <1>5 DEF Works
<1>10. \A q \in Processors \ {p}, d \in Deliveries : Works(q, d)' => Works(q, d)
  BY <1>5, UnmovedWorks
<1>11. SoleProcessor'
  <2> SUFFICES ASSUME NEW q1 \in Processors, NEW q2 \in Processors, NEW d \in Deliveries,
                      Works(q1, d)', Works(q2, d)', q1 # q2
               PROVE  FALSE
    BY DEF SoleProcessor
  <2>1. CASE q1 # p /\ q2 # p
    BY <1>10, <2>1 DEF LeaseInv, SoleProcessor
  <2>2. CASE q1 = p
    BY <1>7, <1>9, <1>10, <2>2
  <2>3. CASE q2 = p
    BY <1>7, <1>9, <1>10, <2>3
  <2> QED
    BY <2>1, <2>2, <2>3
<1> QED
  BY <1>6, <1>8, <1>11 DEF LeaseInv, LeaseHeld

\* A step of one processor that goes on with what it works on, or lets it go.
LEMMA ProcessLease ==
  ASSUME TypeOK, HasWork, LeaseInv, NEW p \in Processors, Process(p), ~ClaimWebhookEventLease(p)
  PROVE  LeaseInv'
<1>1. /\ \/ proc'[p].pc \in {"idle", "scan"}
         \/ proc[p].pc \notin {"idle", "scan"} /\ Current(p)' = Current(p)
      /\ Holding(p)' /\ deleted' = deleted
      /\ \A e \in Deliveries \ {Current(p)} : event'[e] = event[e]
      /\ proc[p].pc = "scan" => event' = event
  BY ProcessKeeps DEF LeaseInv
<1>2. proc[p].pc # "idle" /\ \A q \in Processors \ {p} : Unmoved(q)
  BY ProcessTypes
<1>3. ASSUME NEW q \in Processors \ {p}
      PROVE  Holding(q)'
  <2>1. ASSUME proc[q].pc \notin {"idle", "scan"}
        PROVE  event'[Current(q)] = event[Current(q)]
    <3>1. Current(q) \in Deliveries /\ Current(p) \in Deliveries
      BY <1>2, <2>1, ProcessorTypes
    <3>2. CASE proc[p].pc = "scan"
      BY <1>1, <3>2
    <3>3. CASE proc[p].pc # "scan"
      <4>1. Works(p, Current(p)) /\ Works(q, Current(q))
        BY <1>2, <2>1, <3>3 DEF Works
      <4>2. Current(q) # Current(p)
        BY <3>1, <4>1 DEF LeaseInv, SoleProcessor
      <4> QED
        BY <1>1, <3>1, <4>2
    <3> QED
      BY <3>2, <3>3
  <2> QED
    BY <1>1, <1>2, <2>1, StillHolding DEF LeaseInv, LeaseHeld
<1>4. \A q \in Processors, d \in Deliveries : Works(q, d)' => Works(q, d)
  <2>1. \A d \in Deliveries : Works(p, d)' => Works(p, d)
    BY <1>1 DEF Works
  <2> QED
    BY <1>2, <2>1, UnmovedWorks
<1> QED
  BY <1>1, <1>3, <1>4, NoNewWork DEF LeaseInv, LeaseHeld

\* A tick that scans, or a processor that is interrupted, holds nothing.
LEMMA UnlockedLease ==
  ASSUME TypeOK, HasWork, LeaseInv, NEW p \in Processors, Scan(p) \/ Interrupted(p)
  PROVE  LeaseInv'
<1>1. proc'[p].pc \in {"idle", "scan"} /\ \A q \in Processors \ {p} : Unmoved(q)
  <2>1. CASE Scan(p)
    BY <2>1, ScanTypes
  <2>2. CASE Interrupted(p)
    <3>1. proc'[p] = Idle /\ \A q \in Processors \ {p} : Unmoved(q)
      BY <2>2, Stopping DEF Interrupted
    <3> QED
      BY <3>1 DEF Idle
  <2> QED
    BY <2>1, <2>2
<1>2. UNCHANGED <<event, deleted>>
  BY DEF Scan, Interrupted
<1>3. Holding(p)' /\ \A d \in Deliveries : ~Works(p, d)'
  BY <1>1 DEF Holding, Owned, Works
<1>4. \A q \in Processors \ {p} : Holding(q)'
  BY <1>1, <1>2, StillHolding DEF LeaseInv, LeaseHeld
<1>5. \A q \in Processors, d \in Deliveries : Works(q, d)' => Works(q, d)
  BY <1>1, <1>3, UnmovedWorks
<1> QED
  BY <1>3, <1>4, <1>5, NoNewWork DEF LeaseInv, LeaseHeld

LEMMA OutsideLease ==
  ASSUME Timely, TypeOK, HasWork, LeaseInv, Outside
  PROVE  LeaseInv'
<1>1. \A q \in Processors : Unmoved(q)
  BY OutsideTypes
<1>2. SoleProcessor'
  BY <1>1, UnmovedWorks, NoNewWork DEF LeaseInv
<1>3. ASSUME NEW d \in Deliveries, LeaseOrBackoffElapses(d) \/ WebhookEventCleanup(d)
      PROVE  LeaseHeld'
  <2>1. (\A q \in Processors : ~Works(q, d)) /\ UNCHANGED deleted
    BY <1>3 DEF LeaseOrBackoffElapses, WebhookEventCleanup
  <2>2. PICK row \in Event : event' = [event EXCEPT ![d] = row]
    BY <1>3, RowTypes DEF LeaseOrBackoffElapses, WebhookEventCleanup
  <2>3. \A e \in Deliveries \ {d} : event'[e] = event[e]
    BY <2>2, RowWritten
  <2>4. ASSUME NEW q \in Processors
        PROVE  proc[q].pc \notin {"idle", "scan"} => event'[Current(q)] = event[Current(q)]
    BY <2>1, <2>3, ProcessorTypes DEF Works
  <2> QED
    BY <1>1, <2>1, <2>4, StillHolding DEF LeaseInv, LeaseHeld
<1>4. CASE DisconnectStore
  <2>1. deleted' = TRUE
    BY <1>4 DEF DisconnectStore
  <2>2. ASSUME NEW q \in Processors
        PROVE  Holding(q)'
    <3>1. CASE proc[q].pc \in {"idle", "scan"}
      BY <1>1, <3>1 DEF Unmoved, Holding, Owned
    <3>2. CASE proc[q].pc \notin {"idle", "scan"}
      <4>1. Current(q) \in Deliveries /\ event[Current(q)] \in Event
            /\ proc[q].pc \in {"leased", "written", "failed", "recording", "claims"}
        BY <3>2, ProcessorTypes
      <4>2. event[Current(q)].state # "absent"
        BY <4>1 DEF LeaseInv, LeaseHeld, Holding, Owned
      <4>3. event'[Current(q)] = [event[Current(q)] EXCEPT !.state = "gone"]
        BY <1>4, <4>1, <4>2 DEF DisconnectStore
      <4>4. event'[Current(q)].state = "gone"
        BY <4>1, <4>3 DEF Event
      <4> QED
        BY <1>1, <2>1, <4>4 DEF Unmoved, Holding, Owned
    <3> QED
      BY <3>1, <3>2
  <2> QED
    BY <1>2, <2>2 DEF LeaseInv, LeaseHeld
<1>5. ASSUME UNCHANGED <<event, deleted>>
      PROVE  LeaseHeld'
  BY <1>1, <1>5, StillHolding DEF LeaseInv, LeaseHeld
<1>6. \/ \E d \in Deliveries : LeaseOrBackoffElapses(d) \/ WebhookEventCleanup(d)
      \/ DisconnectStore
      \/ UNCHANGED <<event, deleted>>
  BY DEF Outside, DropUnrecorded, ReDelivery, ClaimsRunEnds, vars
<1> QED
  BY <1>2, <1>3, <1>4, <1>5, <1>6 DEF LeaseInv

LEMMA LeaseStep ==
  ASSUME Timely, TypeOK, HasWork, LeaseInv, [Next]_vars
  PROVE  LeaseInv'
<1>1. ASSUME NEW d \in Deliveries, Receive(d)
      PROVE  LeaseInv'
  BY <1>1, ReceiveLease
<1>2. ASSUME NEW p \in Processors, Scan(p) \/ Interrupted(p)
      PROVE  LeaseInv'
  BY <1>2, UnlockedLease
<1>3. ASSUME NEW p \in Processors, Process(p)
      PROVE  LeaseInv'
  BY <1>3, ClaimLease, ProcessLease
<1>4. ASSUME Outside
      PROVE  LeaseInv'
  BY <1>4, OutsideLease
<1> QED
  BY <1>1, <1>2, <1>3, <1>4 DEF Next, Outside

LEMMA LeaseInit == Init => LeaseInv
<1> SUFFICES ASSUME Init PROVE LeaseInv
  OBVIOUS
<1>1. \A p \in Processors : proc[p].pc = "idle"
  BY DEF Init, Idle
<1> QED
  BY <1>1 DEF LeaseInv, LeaseHeld, Holding, Owned, SoleProcessor, Works

(* When the work on a claim ends before its lease, no two processors ever  *)
(* work on the same event.                                                 *)
THEOREM OneProcessorPerEvent == ASSUME Timely PROVE Spec => []SoleProcessor
<1>1. TypeOK /\ HasWork /\ LeaseInv /\ [Next]_vars => (TypeOK /\ HasWork /\ LeaseInv)'
  BY TypeStep, LeaseStep
<1>2. Init => TypeOK /\ HasWork /\ LeaseInv
  BY TypeInit, LeaseInit
<1>3. LeaseInv => SoleProcessor
  BY DEF LeaseInv
<1> QED
  BY <1>1, <1>2, <1>3, PTL DEF Spec

-----------------------------------------------------------------------------
(* Taken in before processed.                                              *)
-----------------------------------------------------------------------------
\* A processor is past the intake only with an event whose order was taken in.
WrittenWasTakenIn == \A p \in Processors : proc[p].pc = "written" => Current(p) \in taken

TakenInv == WrittenWasTakenIn /\ ProcessedWasTakenIn

LEMMA TakenGrows ==
  ASSUME [Next]_vars
  PROVE  taken \subseteq taken'
BY DEF Next, Process, vars, Receive, DropUnrecorded, ReDelivery, Scan, Interrupted,
       ClaimWebhookEventLease, NotLeased, StoreNotFound, CloseSchemaDrift, IgnoreUnknownStatus,
       CloseUnmappable, IntakeOrder, StampProcessed, EnqueueClaims, Throws, ReadAttempts,
       RecordTransientProcessingFailure, RowVanished, LeaseOrBackoffElapses, WebhookEventCleanup,
       ClaimsRunEnds, DisconnectStore

LEMMA WrittenStep ==
  ASSUME TypeOK, HasWork, WrittenWasTakenIn, [Next]_vars
  PROVE  WrittenWasTakenIn'
<1> SUFFICES ASSUME NEW q \in Processors, proc'[q].pc = "written"
             PROVE  Current(q)' \in taken'
  BY DEF WrittenWasTakenIn
<1>1. CASE Unmoved(q)
  BY <1>1, TakenGrows DEF Unmoved, WrittenWasTakenIn
<1>2. ASSUME NEW d \in Deliveries, Receive(d)
      PROVE  Current(q)' \in taken'
  <2>1. <<d>> \in Seq(Deliveries)
    OBVIOUS
  <2> QED
    BY <1>1, <1>2, <2>1, ReceiveTypes, Scanning
<1>3. ASSUME NEW p \in Processors, Scan(p)
      PROVE  Current(q)' \in taken'
  BY <1>1, <1>3, ScanTypes
<1>4. ASSUME NEW p \in Processors, Interrupted(p)
      PROVE  Current(q)' \in taken'
  BY <1>1, <1>4, Stopping DEF Interrupted, Idle
<1>5. ASSUME NEW p \in Processors, Process(p)
      PROVE  Current(q)' \in taken'
  <2>1. CASE q # p
    BY <1>1, <1>5, <2>1, ProcessTypes
  <2>2. CASE q = p /\ IntakeOrder(p)
    <3>1. proc[p].pc = "leased" /\ GoTo(p, "written") /\ taken' = taken \cup {Current(p)}
      BY <2>2 DEF IntakeOrder
    <3>2. Current(p)' = Current(p)
      BY <3>1, Going
    <3> QED
      BY <2>2, <3>1, <3>2
  <2>3. CASE q = p /\ (MoveOn(p) \/ GoTo(p, "leased") \/ GoTo(p, "claims") \/ GoTo(p, "failed"))
    BY <1>5, <2>3, ProcessTypes, MovingOn, Going
  <2>4. CASE q = p /\ (StoreNotFound(p) \/ RowVanished(p))
    <3>1. proc' = [proc EXCEPT ![p] = Idle]
      BY <2>4 DEF StoreNotFound, RowVanished
    <3> QED
      BY <2>4, <3>1, Stopping DEF Idle
  <2>5. CASE q = p /\ ReadAttempts(p) /\ ~MoveOn(p)
    <3>1. proc' = [proc EXCEPT ![p] = [proc[p] EXCEPT !.pc = "recording",
                                                      !.attempts = event[Current(p)].attempts]]
      BY <2>5 DEF ReadAttempts
    <3>2. proc'[p].pc = "recording"
      BY <3>1 DEF TypeOK, Processor
    <3> QED
      BY <2>5, <3>2
  <2> QED
    BY <1>5, <2>1, <2>2, <2>3, <2>4, <2>5
    DEF Process, ClaimWebhookEventLease, NotLeased, CloseSchemaDrift, IgnoreUnknownStatus,
    CloseUnmappable, StampProcessed, EnqueueClaims, Throws, RecordTransientProcessingFailure
<1>6. CASE Outside
  BY <1>1, <1>6, OutsideTypes
<1> QED
  BY <1>2, <1>3, <1>4, <1>5, <1>6 DEF Next, Outside

(***************************************************************************)
(* What a step does to a row: nothing, or it inserts the row, keeps its    *)
(* state, closes it, or removes it.  Only the stamp closes it with no      *)
(* error.                                                                  *)
(***************************************************************************)
Stamped(d) == event'[d].state = "closed" /\ event'[d].error = "none"

LEMMA StampNeedsIntake ==
  ASSUME TypeOK, HasWork, TakenInv, [Next]_vars, NEW d \in Deliveries, Stamped(d)
  PROVE  d \in taken \cup UnknownStatuses
<1>1. CASE event'[d] = event[d]
  BY <1>1 DEF Stamped, TakenInv, ProcessedWasTakenIn
<1>2. ASSUME NEW e \in Deliveries, Receive(e)
      PROVE  event'[d] = event[d]
  <2>1. event' = [event EXCEPT ![e] = NewRow(e)]
    BY <1>2 DEF Receive, NewRow
  <2>2. e # d
    BY <2>1, RowTypes, RowWritten DEF Stamped, NewRow, Absent
  <2> QED
    BY <2>1, <2>2, RowTypes, RowWritten
<1>3. ASSUME NEW p \in Processors, Process(p), event' # event
      PROVE  d \in taken \cup UnknownStatuses
  <2>1. Current(p) \in Deliveries /\ event[Current(p)] \in Event
    BY <1>3, ProcessTypes, ProcessorTypes
  <2>2. CASE d # Current(p)
    <3>1. PICK row \in Event : event' = [event EXCEPT ![Current(p)] = row]
      BY <1>3, <2>1, RowTypes, ClosingAtOnce DEF Process, ClaimWebhookEventLease, NotLeased,
         StoreNotFound, CloseAtOnce, IntakeOrder, StampProcessed, EnqueueClaims, Throws, ReadAttempts,
         RecordTransientProcessingFailure, RowVanished
    <3> QED
      BY <1>1, <2>1, <2>2, <3>1, RowWritten
  <2>3. CASE d = Current(p) /\ StampProcessed(p)
    BY <2>3 DEF StampProcessed, TakenInv, WrittenWasTakenIn
  <2>4. CASE d = Current(p) /\ ClaimWebhookEventLease(p)
    <3>1. event'[d] = Leased(d)
      BY <2>1, <2>4, RowTypes, RowWritten DEF ClaimWebhookEventLease
    <3>2. event[d].state = "open"
      BY <2>4 DEF ClaimWebhookEventLease, Eligible
    <3> QED
      BY <2>1, <2>4, <3>1, <3>2 DEF Stamped, Leased, Event
  <2>5. CASE d = Current(p) /\ CloseAtOnce(p)
    BY <2>1, <2>5, ClosingAtOnce, RowWritten DEF Stamped
  <2>6. CASE d = Current(p) /\ RecordTransientProcessingFailure(p)
    <3>1. PICK row \in {Closed(d, "exhausted"), Backoff(d)} :
            event' = [event EXCEPT ![d] = row]
      BY <2>6 DEF RecordTransientProcessingFailure
    <3>2. event[d] \in Event
      BY <2>1, <2>6
    <3>3. row \in Event
      BY <3>1, RowTypes
    <3>4. row.error # "none"
      BY <3>1, <3>2 DEF Closed, Backoff, Event
    <3> QED
      BY <3>1, <3>3, <3>4, RowWritten DEF Stamped
  <2> QED
    BY <1>3, <2>2, <2>3, <2>4, <2>5, <2>6 DEF CloseAtOnce, Process, NotLeased, StoreNotFound, IntakeOrder,
       EnqueueClaims, Throws, ReadAttempts, RowVanished
<1>4. ASSUME NEW e \in Deliveries, LeaseOrBackoffElapses(e)
      PROVE  d \in taken \cup UnknownStatuses
  <2>1. event' = [event EXCEPT ![e] = [event[e] EXCEPT !.due = TRUE]]
    BY <1>4 DEF LeaseOrBackoffElapses
  <2>2. CASE e # d
    BY <1>1, <2>1, <2>2, RowTypes, RowWritten
  <2>3. CASE e = d
    <3>1. event'[d] = [event[d] EXCEPT !.due = TRUE] /\ event[d] \in Event
      BY <2>1, <2>3, RowTypes, RowWritten
    <3>2. event[d].state = "closed" /\ event[d].error = "none"
      BY <3>1 DEF Stamped, Event
    <3> QED
      BY <3>2 DEF TakenInv, ProcessedWasTakenIn
  <2> QED
    BY <2>2, <2>3
<1>5. ASSUME NEW e \in Deliveries, WebhookEventCleanup(e)
      PROVE  d \in taken \cup UnknownStatuses
  <2>1. event' = [event EXCEPT ![e] = [event[e] EXCEPT !.state = "gone"]]
    BY <1>5 DEF WebhookEventCleanup
  <2>2. e # d
    <3>1. [event[e] EXCEPT !.state = "gone"] \in Event /\ event[e] \in Event
      BY RowTypes
    <3>2. event'[e].state = "gone"
      BY <2>1, <3>1, RowWritten DEF Event
    <3> QED
      BY <3>2 DEF Stamped
  <2> QED
    BY <1>1, <2>1, <2>2, RowTypes, RowWritten
<1>6. ASSUME DisconnectStore
      PROVE  d \in taken \cup UnknownStatuses
  <2>1. event[d] \in Event
    BY RowTypes
  <2>2. event'[d] = event[d] \/ event'[d] = [event[d] EXCEPT !.state = "gone"]
    BY <1>6 DEF DisconnectStore
  <2>3. event'[d] = event[d]
    BY <2>1, <2>2 DEF Stamped, Event
  <2> QED
    BY <1>1, <2>3
<1>7. CASE event' = event
  BY <1>1, <1>7
<1> QED
  BY <1>1, <1>2, <1>3, <1>4, <1>5, <1>6, <1>7
  DEF Next, vars, DropUnrecorded, ReDelivery, Scan, Interrupted, ClaimsRunEnds

LEMMA TakenStep ==
  ASSUME TypeOK, HasWork, TakenInv, [Next]_vars
  PROVE  TakenInv'
BY WrittenStep, StampNeedsIntake, TakenGrows DEF TakenInv, ProcessedWasTakenIn, Stamped

LEMMA TakenInit == Init => TakenInv
BY DEF Init, TakenInv, WrittenWasTakenIn, ProcessedWasTakenIn, Idle, Absent

(* A row is closed without an error only when its order was taken in or    *)
(* its status is unknown, even when leases run out under their owners.     *)
THEOREM ProcessedAfterIntake == Spec => []ProcessedWasTakenIn
<1>1. TypeOK /\ HasWork /\ TakenInv /\ [Next]_vars => (TypeOK /\ HasWork /\ TakenInv)'
  BY TypeStep, TakenStep
<1>2. Init => TypeOK /\ HasWork /\ TakenInv
  BY TypeInit, TakenInit
<1>3. TakenInv => ProcessedWasTakenIn
  BY DEF TakenInv
<1> QED
  BY <1>1, <1>2, <1>3, PTL DEF Spec

-----------------------------------------------------------------------------
(* One row at a time.                                                      *)
-----------------------------------------------------------------------------
Others(d) == \A e \in Deliveries \ {d} : event'[e] = event[e]

KeepsState(d) ==
  /\ event'[d].state = event[d].state
  /\ event[d].state = "closed" => event'[d].error = event[d].error

Inserts(d) ==
  /\ event[d].state = "absent"
  /\ \/ event'[d].state = "open"
     \/ event'[d].state = "closed" /\ event'[d].error = "dropped"

Closes(d) == event[d].state = "open" /\ event'[d].state = "closed"

Removes(d) == event[d].state = "closed" /\ event'[d].state = "gone"

LEMMA ReceiveRow ==
  ASSUME TypeOK, NEW d \in Deliveries, Receive(d)
  PROVE  Others(d) /\ Inserts(d) /\ taken' = taken
<1>1. event' = [event EXCEPT ![d] = NewRow(d)] /\ event[d].state = "absent" /\ taken' = taken
  BY DEF Receive, NewRow
<1>2. event'[d] = NewRow(d) /\ Others(d)
  BY <1>1, RowTypes, RowWritten DEF Others
<1>3. NewRow(d).state = "open" \/ (NewRow(d).state = "closed" /\ NewRow(d).error = "dropped")
  <2>1. CASE d \in Drops
    BY <2>1 DEF NewRow, Absent
  <2>2. CASE d \notin Drops
    BY <2>2 DEF NewRow, Absent
  <2> QED
    BY <2>1, <2>2
<1> QED
  BY <1>1, <1>2, <1>3 DEF Inserts

\* A processor writes the row it owns, which is open until it closes it.
LEMMA ProcessRow ==
  ASSUME TypeOK, HasWork, LeaseInv, NEW p \in Processors, Process(p)
  PROVE  /\ Current(p) \in Deliveries /\ Others(Current(p))
         /\ KeepsState(Current(p)) \/ Closes(Current(p))
         /\ \/ taken' = taken
            \/ /\ taken' = taken \cup {Current(p)} /\ event' = event
               /\ event[Current(p)].state = "open" /\ ~event[Current(p)].due
<1> DEFINE d == Current(p)
<1>1. d \in Deliveries /\ event[d] \in Event /\ Holding(p)
  BY ProcessTypes, ProcessorTypes DEF LeaseInv, LeaseHeld
<1>2. CASE event' = event /\ taken' = taken
  BY <1>1, <1>2 DEF Others, KeepsState
<1>3. CASE IntakeOrder(p)
  <2>1. proc[p].pc = "leased" /\ ~deleted /\ taken' = taken \cup {d} /\ event' = event
    BY <1>3 DEF IntakeOrder
  <2>2. event[d].state = "open" /\ ~event[d].due
    BY <1>1, <2>1 DEF Holding, Owned
  <2> QED
    BY <1>1, <2>1, <2>2 DEF Others, KeepsState
<1>4. CASE ClaimWebhookEventLease(p)
  <2>1. event' = [event EXCEPT ![d] = Leased(d)] /\ taken' = taken
    BY <1>4 DEF ClaimWebhookEventLease
  <2>2. Others(d) /\ event'[d] = Leased(d)
    BY <1>1, <2>1, RowTypes, RowWritten DEF Others
  <2>3. KeepsState(d)
    BY <1>1, <2>2 DEF KeepsState, Leased, Event
  <2> QED
    BY <1>1, <2>1, <2>2, <2>3
<1>5. CASE CloseAtOnce(p) \/ StampProcessed(p) \/ RecordTransientProcessingFailure(p)
  <2>1. Owned(p) /\ Exists(d) /\ taken' = taken
    BY <1>5, ClosingAtOnce DEF StampProcessed, RecordTransientProcessingFailure, Owned
  <2>2. event[d].state = "open"
    BY <1>1, <2>1 DEF Holding, Exists
  <2>3. PICK row \in {Closed(d, "deadend"), Closed(d, event[d].error), Closed(d, "none"), Closed(d, "exhausted"), Backoff(d)} :
          event' = [event EXCEPT ![d] = row]
    BY <1>5, ClosingAtOnce DEF StampProcessed, RecordTransientProcessingFailure
  <2>4. row \in Event
    <3>1. event[d].error \in {"none", "transient", "exhausted", "deadend", "dropped"}
      BY <1>1 DEF Event
    <3> QED
      BY <1>1, <2>3, <3>1, RowTypes
  <2>5. row.state \in {"open", "closed"}
    BY <1>1, <2>2, <2>3 DEF Closed, Backoff, Event
  <2>6. Others(d) /\ event'[d] = row
    BY <1>1, <2>3, <2>4, RowWritten DEF Others
  <2> QED
    BY <1>1, <2>1, <2>2, <2>5, <2>6 DEF KeepsState, Closes
<1> QED
  BY <1>2, <1>3, <1>4, <1>5 DEF Process, CloseAtOnce, NotLeased, StoreNotFound, EnqueueClaims, Throws,
     ReadAttempts, RowVanished

LEMMA ClockRow ==
  ASSUME TypeOK, NEW d \in Deliveries, LeaseOrBackoffElapses(d) \/ WebhookEventCleanup(d)
  PROVE  Others(d) /\ (KeepsState(d) \/ Removes(d)) /\ taken' = taken
<1>1. event[d] \in Event
  BY RowTypes
<1>2. CASE LeaseOrBackoffElapses(d)
  <2>1. event' = [event EXCEPT ![d] = [event[d] EXCEPT !.due = TRUE]] /\ taken' = taken
    BY <1>2 DEF LeaseOrBackoffElapses
  <2>2. Others(d) /\ event'[d] = [event[d] EXCEPT !.due = TRUE]
    BY <2>1, RowTypes, RowWritten DEF Others
  <2> QED
    BY <1>1, <2>1, <2>2 DEF KeepsState, Event
<1>3. CASE WebhookEventCleanup(d)
  <2>1. /\ event' = [event EXCEPT ![d] = [event[d] EXCEPT !.state = "gone"]] /\ taken' = taken
        /\ event[d].state = "closed"
    BY <1>3 DEF WebhookEventCleanup, Prunable
  <2>2. Others(d) /\ event'[d] = [event[d] EXCEPT !.state = "gone"]
    BY <2>1, RowTypes, RowWritten DEF Others
  <2> QED
    BY <1>1, <2>1, <2>2 DEF Removes, Event
<1> QED
  BY <1>2, <1>3

LEMMA DisconnectRows ==
  ASSUME TypeOK, DisconnectStore, NEW d \in Deliveries
  PROVE  /\ deleted' /\ taken' = taken
         /\ \/ event[d].state = "absent" /\ event'[d] = event[d]
            \/ event[d].state # "absent" /\ event'[d].state = "gone"
<1>1. event[d] \in Event /\ deleted' /\ taken' = taken
  BY RowTypes DEF DisconnectStore
<1>2. CASE event[d].state = "absent"
  BY <1>1, <1>2 DEF DisconnectStore
<1>3. CASE event[d].state # "absent"
  <2>1. event'[d] = [event[d] EXCEPT !.state = "gone"]
    BY <1>3 DEF DisconnectStore
  <2> QED
    BY <1>1, <1>3, <2>1 DEF Event
<1> QED
  BY <1>1, <1>2, <1>3

\* The steps that write no row and take no order in.
LEMMA Elsewhere ==
  ASSUME NEW p \in Processors, NEW d \in Deliveries,
         \/ Scan(p) \/ Interrupted(p) \/ DropUnrecorded(d) \/ ReDelivery(d) \/ ClaimsRunEnds
         \/ UNCHANGED vars
  PROVE  event' = event /\ taken' = taken
BY DEF Scan, Interrupted, DropUnrecorded, ReDelivery, ClaimsRunEnds, vars

LEMMA RowMoves ==
  ASSUME TypeOK, HasWork, LeaseInv, [Next]_vars, NEW d \in Deliveries
  PROVE  \/ KeepsState(d) \/ Inserts(d) \/ Closes(d) \/ Removes(d)
         \/ deleted' /\ event[d].state # "absent" /\ event'[d].state = "gone"
<1>1. CASE event' = event
  BY <1>1 DEF KeepsState
<1>2. ASSUME NEW e \in Deliveries, Receive(e)
      PROVE  KeepsState(d) \/ Inserts(d)
  BY <1>2, ReceiveRow DEF Others, KeepsState
<1>3. ASSUME NEW p \in Processors, Process(p)
      PROVE  KeepsState(d) \/ Closes(d)
  BY <1>3, ProcessRow DEF Others, KeepsState
<1>4. ASSUME NEW e \in Deliveries, LeaseOrBackoffElapses(e) \/ WebhookEventCleanup(e)
      PROVE  KeepsState(d) \/ Removes(d)
  BY <1>4, ClockRow DEF Others, KeepsState
<1>5. ASSUME DisconnectStore
      PROVE  \/ KeepsState(d)
             \/ deleted' /\ event[d].state # "absent" /\ event'[d].state = "gone"
  BY <1>5, DisconnectRows DEF KeepsState
<1> QED
  BY <1>1, <1>2, <1>3, <1>4, <1>5
  DEF Next, vars, DropUnrecorded, ReDelivery, Scan, Interrupted, ClaimsRunEnds

\* No step takes a row back, whether or not leases are held.
Forward(d) ==
  /\ event[d].state # "absent" => event'[d].state # "absent"
  /\ event[d].state = "open" /\ ~deleted' => event'[d].state \in {"open", "closed"}
  /\ event[d].state \in {"closed", "gone"} => event'[d].state \in {"closed", "gone"}
  /\ event[d].state = "gone" => event'[d].state = "gone"
  /\ event[d].state = "absent" /\ deleted => event'[d].state = "absent"

\* A processor writes the state of no row but an existing one, and only to
\* close it.
LEMMA ProcessForward ==
  ASSUME TypeOK, HasWork, NEW p \in Processors, Process(p), NEW d \in Deliveries
  PROVE  \/ event'[d].state = event[d].state
         \/ Exists(d) /\ event'[d].state = "closed"
<1> DEFINE c == Current(p)
<1>1. c \in Deliveries /\ event[c] \in Event
  BY ProcessTypes, ProcessorTypes
<1>2. CASE event' = event
  BY <1>2
<1>3. CASE ClaimWebhookEventLease(p)
  <2>1. event' = [event EXCEPT ![c] = Leased(c)]
    BY <1>3 DEF ClaimWebhookEventLease
  <2>2. Leased(c) \in Event /\ Leased(c).state = event[c].state
    BY <1>1, RowTypes DEF Leased, Event
  <2> QED
    BY <1>1, <2>1, <2>2, RowWritten
<1>4. CASE CloseAtOnce(p) \/ StampProcessed(p) \/ RecordTransientProcessingFailure(p)
  <2>1. Exists(c)
    BY <1>4, ClosingAtOnce DEF StampProcessed, RecordTransientProcessingFailure
  <2>2. PICK row \in {Closed(c, "deadend"), Closed(c, event[c].error), Closed(c, "none"), Closed(c, "exhausted"), Backoff(c)} :
          event' = [event EXCEPT ![c] = row]
    BY <1>4, ClosingAtOnce DEF StampProcessed, RecordTransientProcessingFailure
  <2>3. row \in Event
    <3>1. event[c].error \in {"none", "transient", "exhausted", "deadend", "dropped"}
      BY <1>1 DEF Event
    <3> QED
      BY <1>1, <2>2, <3>1, RowTypes
  <2>4. row.state = event[c].state \/ row.state = "closed"
    BY <1>1, <2>2 DEF Closed, Backoff, Event
  <2> QED
    BY <1>1, <2>1, <2>2, <2>3, <2>4, RowWritten
<1> QED
  BY <1>2, <1>3, <1>4 DEF Process, CloseAtOnce, NotLeased, StoreNotFound, IntakeOrder, EnqueueClaims,
     Throws, ReadAttempts, RowVanished

LEMMA ForwardStep ==
  ASSUME TypeOK, HasWork, [Next]_vars, NEW d \in Deliveries
  PROVE  Forward(d)
<1>1. event[d].state \in {"absent", "open", "closed", "gone"}
  BY RowTypes DEF Event
<1>2. CASE event' = event
  BY <1>1, <1>2 DEF Forward
<1>3. ASSUME NEW e \in Deliveries, Receive(e)
      PROVE  Forward(d)
  <2>1. ~deleted
    BY <1>3 DEF Receive
  <2> QED
    BY <1>1, <1>3, <2>1, ReceiveRow DEF Others, Inserts, Forward
<1>4. ASSUME NEW p \in Processors, Process(p)
      PROVE  Forward(d)
  BY <1>1, <1>4, ProcessForward DEF Exists, Forward
<1>5. ASSUME NEW e \in Deliveries, LeaseOrBackoffElapses(e) \/ WebhookEventCleanup(e)
      PROVE  Forward(d)
  BY <1>1, <1>5, ClockRow DEF Others, KeepsState, Removes, Forward
<1>6. ASSUME DisconnectStore
      PROVE  Forward(d)
  BY <1>1, <1>6, DisconnectRows DEF Forward
<1> QED
  BY <1>2, <1>3, <1>4, <1>5, <1>6
  DEF Next, vars, DropUnrecorded, ReDelivery, Scan, Interrupted, ClaimsRunEnds

(* Even when leases run out under their owners, a row only moves forward:  *)
(* an open one is closed before it goes, unless its store goes, and one    *)
(* that was closed or pruned is never open again; a deleted store gets no  *)
(* rows.                                                                   *)
THEOREM RowsMoveForward == Spec => [][\A d \in Deliveries : Forward(d)]_vars
<1>1. TypeOK /\ HasWork /\ [Next]_vars => [\A d \in Deliveries : Forward(d)]_vars
  BY ForwardStep
<1> QED
  BY <1>1, TypeCorrect, PTL DEF Spec

\* The strengthening that the theorems about the lease share.
QueueInv == TypeOK /\ HasWork /\ LeaseInv /\ TakenInv

LEMMA QueueInvariant == ASSUME Timely PROVE Spec => []QueueInv
<1>1. QueueInv /\ [Next]_vars => QueueInv'
  BY TypeStep, LeaseStep, TakenStep DEF QueueInv
<1>2. Init => QueueInv
  BY TypeInit, LeaseInit, TakenInit DEF QueueInv
<1> QED
  BY <1>1, <1>2, PTL DEF Spec

(* When the work on a claim ends before its lease, what was closed stays   *)
(* closed with its reason.                                                 *)
THEOREM ClosedForGood == ASSUME Timely PROVE Spec => ClosedIsFinal
<1>1. QueueInv /\ [Next]_vars =>
        [\A d \in Deliveries : event[d].state = "closed" =>
           event'[d].state = "gone" \/ (event'[d].state = "closed" /\ event'[d].error = event[d].error)]_vars
  BY RowMoves DEF QueueInv, KeepsState, Inserts, Closes, Removes
<1> QED
  BY <1>1, QueueInvariant, PTL DEF Spec, ClosedIsFinal

\* Only the intake takes a processor from its claim to the closing stamp.
LEMMA IntakeStep ==
  ASSUME QueueInv, [Next]_vars, NEW p \in Processors,
         proc[p].pc = "leased", proc'[p].pc = "written"
  PROVE  event[Current(p)].state = "open" /\ ~event[Current(p)].due
<1>1. TypeOK /\ HasWork /\ LeaseInv
  BY DEF QueueInv
<1>2. ~Unmoved(p)
  BY DEF Unmoved
<1>3. ASSUME NEW d \in Deliveries, Receive(d)
      PROVE  FALSE
  <2>1. <<d>> \in Seq(Deliveries)
    OBVIOUS
  <2> QED
    BY <1>1, <1>2, <1>3, <2>1, ReceiveTypes, Scanning
<1>4. ASSUME NEW q \in Processors, Scan(q)
      PROVE  FALSE
  BY <1>1, <1>2, <1>4, ScanTypes
<1>5. ASSUME NEW q \in Processors, Interrupted(q)
      PROVE  FALSE
  BY <1>1, <1>2, <1>5, Stopping DEF Interrupted, Idle
<1>6. ~Outside
  BY <1>1, <1>2, OutsideTypes
<1>7. PICK q \in Processors : Process(q)
  BY <1>3, <1>4, <1>5, <1>6 DEF Next, Outside
<1>8. q = p
  BY <1>1, <1>2, <1>7, ProcessTypes
<1>9. CASE IntakeOrder(p)
  <2>1. Holding(p) /\ ~deleted
    BY <1>1, <1>9 DEF LeaseInv, LeaseHeld, IntakeOrder
  <2> QED
    BY <2>1 DEF Holding, Owned
<1>10. CASE ~IntakeOrder(p)
  <2>1. StoreNotFound(p) \/ CloseAtOnce(p) \/ Throws(p)
    BY <1>7, <1>8, <1>10 DEF Process, CloseAtOnce, ClaimWebhookEventLease, NotLeased, StampProcessed,
       EnqueueClaims, ReadAttempts, RecordTransientProcessingFailure, RowVanished
  <2>2. CASE StoreNotFound(p)
    <3>1. proc' = [proc EXCEPT ![p] = Idle]
      BY <2>2 DEF StoreNotFound
    <3> QED
      BY <1>1, <3>1, Stopping DEF Idle
  <2>3. CASE CloseAtOnce(p)
    BY <1>1, <2>3, ClosingAtOnce, MovingOn
  <2>4. CASE Throws(p)
    <3>1. GoTo(p, "failed") /\ proc[p].pc # "idle"
      BY <2>4 DEF Throws
    <3> QED
      BY <1>1, <3>1, Going
  <2> QED
    BY <2>1, <2>2, <2>3, <2>4
<1> QED
  BY <1>9, <1>10

(* When the work on a claim ends before its lease, the order intake runs   *)
(* only for an event that is open and leased.                              *)
THEOREM IntakeHoldsTheLease == ASSUME Timely PROVE Spec => IntakeUnderLease
<1>1. QueueInv /\ [Next]_vars =>
        [\A p \in Processors :
           proc[p].pc = "leased" /\ proc'[p].pc = "written" =>
             event[Current(p)].state = "open" /\ ~event[Current(p)].due]_vars
  BY IntakeStep
<1> QED
  BY <1>1, QueueInvariant, PTL DEF Spec, IntakeUnderLease

-----------------------------------------------------------------------------
(* Retries are bounded.                                                    *)
-----------------------------------------------------------------------------
(***************************************************************************)
(* A claim counts, and the count is compared with MaxAttempts only when    *)
(* the work on it has thrown: a claim that dies with its process is never  *)
(* compared.  So an open row that nobody works on is below MaxAttempts by  *)
(* all but the interruptions, and the one that is worked on by one more.   *)
(* The comparison is made on a copy of the counter; it is the row's own    *)
(* while the lease is held.                                                *)
(***************************************************************************)
InFlight(d) == \E p \in Processors : Owned(p) /\ Current(p) = d

Below(d) == event[d].attempts < MaxAttempts + interrupts

Counted(d) ==
  /\ event[d].attempts <= MaxAttempts + interrupts
  /\ event[d].state = "open" /\ ~InFlight(d) => Below(d)

CopyIsCurrent(p) ==
  proc[p].pc = "recording" /\ event[Current(p)].state = "open" =>
    proc[p].attempts = event[Current(p)].attempts

AttemptsInv ==
  /\ \A d \in Deliveries : Counted(d)
  /\ \A p \in Processors : CopyIsCurrent(p)
  /\ deleted => \A d \in Deliveries : event[d].state # "open"

\* Who works on an event and is left alone works on it still.
LEMMA StaysInFlight ==
  ASSUME NEW d \in Deliveries, \A q \in Processors : Owned(q) /\ Current(q) = d => Unmoved(q)
  PROVE  InFlight(d) => InFlight(d)'
BY DEF InFlight, Owned, Unmoved

\* A row that keeps its counter and stays with whom it was with.
LEMMA StaysCounted ==
  ASSUME TypeOK, NEW d \in Deliveries, Counted(d), interrupts' \in Nat, interrupts' >= interrupts,
         event'[d].attempts = event[d].attempts,
         event'[d].state = "open" => event[d].state = "open",
         event'[d].state = "open" /\ InFlight(d) => InFlight(d)' \/ Below(d)'
  PROVE  Counted(d)'
<1>1. event[d].attempts \in Nat /\ interrupts \in Nat /\ MaxAttempts \in Nat
  BY LimitsAssumption, RowTypes DEF TypeOK, Event
<1>2. CASE InFlight(d) /\ event'[d].state = "open"
  BY <1>1, <1>2 DEF Counted, Below
<1>3. CASE ~(InFlight(d) /\ event'[d].state = "open")
  BY <1>1, <1>3 DEF Counted, Below
<1> QED
  BY <1>2, <1>3

\* What a processor that has claimed an event does to the counter: nothing,
\* and it lets an open event go only when the counter leaves room.
LEMMA ProcessCounts ==
  ASSUME TypeOK, HasWork, LeaseInv, AttemptsInv, NEW p \in Processors, Process(p),
         ~ClaimWebhookEventLease(p), NEW d \in Deliveries, d = Current(p)
  PROVE  /\ event'[d].attempts = event[d].attempts
         /\ event'[d].state = "open" /\ Owned(p) => (Owned(p) /\ Current(p) = d)' \/ Below(d)
<1>1. d \in Deliveries /\ event[d] \in Event /\ Holding(p) /\ CopyIsCurrent(p)
  BY ProcessTypes, ProcessorTypes DEF LeaseInv, LeaseHeld, AttemptsInv
<1>2. CASE NotLeased(p) \/ EnqueueClaims(p)
  BY <1>2 DEF NotLeased, EnqueueClaims, Owned
<1>3. CASE StoreNotFound(p) \/ RowVanished(p)
  BY <1>1, <1>3 DEF StoreNotFound, RowVanished, AttemptsInv, Exists
<1>4. CASE CloseAtOnce(p) \/ StampProcessed(p)
  <2>1. PICK error \in {"deadend", "none", event[d].error} : event' = [event EXCEPT ![d] = Closed(d, error)]
    BY <1>4, ClosingAtOnce DEF StampProcessed
  <2>2. event'[d] = Closed(d, error)
    <3>1. event[d].error \in {"none", "transient", "exhausted", "deadend", "dropped"}
      BY <1>1 DEF Event
    <3> QED
      BY <1>1, <2>1, <3>1, RowTypes, RowWritten
  <2> QED
    BY <1>1, <2>2 DEF Closed, Event
<1>5. CASE IntakeOrder(p) \/ Throws(p)
  <2>1. /\ proc[p].pc # "idle" /\ event' = event
        /\ GoTo(p, "written") \/ GoTo(p, "failed")
    BY <1>5 DEF IntakeOrder, Throws
  <2>2. proc'[p].pc \in {"written", "failed"} /\ Current(p)' = Current(p)
    BY <2>1, Going
  <2> QED
    BY <2>1, <2>2 DEF Owned
<1>6. CASE ReadAttempts(p)
  <2>1. event' = event
    BY <1>6 DEF ReadAttempts
  <2>2. CASE ~Exists(d)
    BY <2>1, <2>2 DEF Exists
  <2>3. CASE Exists(d)
    <3>1. proc' = [proc EXCEPT ![p] = [proc[p] EXCEPT !.pc = "recording",
                                                      !.attempts = event[d].attempts]]
      BY <1>6, <2>3 DEF ReadAttempts
    <3>2. proc'[p].pc = "recording" /\ proc'[p].batch = proc[p].batch
      BY <3>1 DEF TypeOK, Processor
    <3> QED
      BY <2>1, <3>2 DEF Owned, Current
  <2> QED
    BY <2>2, <2>3
<1>7. CASE RecordTransientProcessingFailure(p)
  <2>1. proc[p].pc = "recording" /\ Exists(d)
    BY <1>7 DEF RecordTransientProcessingFailure
  <2>2. event[d].state = "open" /\ proc[p].attempts = event[d].attempts
    BY <1>1, <2>1 DEF Holding, Owned, Exists, CopyIsCurrent
  <2>3. event[d].attempts \in Nat /\ MaxAttempts \in Nat /\ interrupts \in Nat
    BY <1>1, LimitsAssumption DEF Event, TypeOK
  <2>4. CASE Exhausted(event[d].attempts)
    <3>1. event' = [event EXCEPT ![d] = Closed(d, "exhausted")]
      BY <1>7, <2>2, <2>4 DEF RecordTransientProcessingFailure
    <3>2. event'[d] = Closed(d, "exhausted")
      BY <1>1, <3>1, RowTypes, RowWritten
    <3> QED
      BY <1>1, <3>2 DEF Closed, Event
  <2>5. CASE ~Exhausted(event[d].attempts)
    <3>1. event' = [event EXCEPT ![d] = Backoff(d)]
      BY <1>7, <2>2, <2>5 DEF RecordTransientProcessingFailure
    <3>2. event'[d] = Backoff(d)
      BY <1>1, <3>1, RowTypes, RowWritten
    <3>3. event'[d].attempts = event[d].attempts
      BY <1>1, <3>2 DEF Backoff, Event
    <3>4. Below(d)
      BY <2>3, <2>5 DEF Exhausted, Below
    <3> QED
      BY <3>3, <3>4
  <2> QED
    BY <2>4, <2>5
<1> QED
  BY <1>2, <1>3, <1>4, <1>5, <1>6, <1>7 DEF CloseAtOnce, Process

\* A claim finds the row with room for one more, and keeps it.
LEMMA ClaimCounts ==
  ASSUME TypeOK, HasWork, LeaseInv, AttemptsInv, NEW p \in Processors,
         ClaimWebhookEventLease(p), NEW d \in Deliveries, d = Current(p)
  PROVE  Counted(d)' /\ \A q \in Processors : ~(Owned(q) /\ Current(q) = d)
<1>1. proc[p].pc = "scan" /\ GoTo(p, "leased") /\ Eligible(d) /\ interrupts' = interrupts
  BY DEF ClaimWebhookEventLease
<1>2. event[d] \in Event /\ Leased(d) \in Event /\ event' = [event EXCEPT ![d] = Leased(d)]
  BY RowTypes DEF ClaimWebhookEventLease
<1>3. event'[d] = Leased(d)
  BY <1>2, RowWritten
<1>4. event'[d].attempts = event[d].attempts + 1
  <2>1. Leased(d).attempts = event[d].attempts + 1
    BY <1>2 DEF Leased, Event
  <2> QED
    BY <1>3, <2>1
<1>5. \A q \in Processors : ~(Owned(q) /\ Current(q) = d)
  BY <1>1 DEF LeaseInv, LeaseHeld, Holding, Eligible
<1>6. Below(d)
  BY <1>1, <1>5 DEF AttemptsInv, Counted, InFlight, Eligible
<1>7. event[d].attempts \in Nat /\ interrupts \in Nat /\ MaxAttempts \in Nat
  BY <1>2, LimitsAssumption DEF Event, TypeOK
<1>8. event'[d].attempts <= MaxAttempts + interrupts'
  BY <1>1, <1>4, <1>6, <1>7 DEF Below
<1>9. (Owned(p) /\ Current(p) = d)'
  BY <1>1, Going DEF Owned
<1>10. InFlight(d)'
  BY <1>9 DEF InFlight
<1> QED
  BY <1>5, <1>8, <1>10 DEF Counted

\* A request takes an idle handler.
LEMMA ReceiveSpares ==
  ASSUME TypeOK, NEW e \in Deliveries, Receive(e), NEW q \in Processors, Owned(q)
  PROVE  Unmoved(q)
<1>1. CASE UNCHANGED proc
  BY <1>1 DEF Unmoved, Current
<1>2. CASE ~UNCHANGED proc
  <2>1. PICK h \in Handlers :
          /\ proc[h] = Idle
          /\ proc' = [proc EXCEPT ![h] = [Idle EXCEPT !.pc = "scan", !.batch = <<e>>]]
    BY <1>2 DEF Receive
  <2>2. h # q
    BY <2>1 DEF Owned, Idle
  <2> QED
    BY <2>1, <2>2 DEF Unmoved, Current, TypeOK
<1> QED
  BY <1>1, <1>2

LEMMA CountedStep ==
  ASSUME QueueInv, AttemptsInv, [Next]_vars, NEW d \in Deliveries
  PROVE  Counted(d)'
<1>1. TypeOK /\ HasWork /\ LeaseInv /\ Counted(d) /\ interrupts \in Nat
  BY DEF QueueInv, AttemptsInv, TypeOK
<1>2. event[d] \in Event /\ MaxAttempts \in Nat \ {0}
  BY <1>1, LimitsAssumption, RowTypes
<1>3. ASSUME event'[d] = event[d], interrupts' = interrupts, \A q \in Processors : Unmoved(q)
      PROVE  Counted(d)'
  BY <1>1, <1>3, StaysInFlight, StaysCounted
<1>4. ASSUME NEW e \in Deliveries, Receive(e)
      PROVE  Counted(d)'
  <2>1. interrupts' = interrupts /\ event' = [event EXCEPT ![e] = NewRow(e)]
    BY <1>4 DEF Receive, NewRow
  <2>2. CASE d = e
    <3>1. event'[d] = NewRow(d)
      BY <1>1, <2>1, <2>2, RowTypes, RowWritten
    <3>2. event'[d].attempts = 0
      BY <3>1 DEF NewRow, Absent
    <3> QED
      BY <1>1, <1>2, <2>1, <3>2 DEF Counted, Below
  <2>3. CASE d # e
    <3>1. event'[d] = event[d]
      BY <1>1, <2>1, <2>3, RowTypes, RowWritten
    <3>2. InFlight(d) => InFlight(d)'
      BY <1>1, <1>4, ReceiveSpares, StaysInFlight
    <3> QED
      BY <1>1, <2>1, <3>1, <3>2, StaysCounted
  <2> QED
    BY <2>2, <2>3
<1>5. ASSUME NEW p \in Processors, Scan(p)
      PROVE  Counted(d)'
  <2>1. \A q \in Processors : Owned(q) => Unmoved(q)
    <3>1. ~Owned(p)
      BY <1>5 DEF Scan, Owned, Idle
    <3> QED
      BY <1>1, <1>5, <3>1, ScanTypes
  <2>2. event'[d] = event[d] /\ interrupts' = interrupts
    BY <1>5 DEF Scan
  <2> QED
    BY <1>1, <2>1, <2>2, StaysInFlight, StaysCounted
<1>6. ASSUME NEW p \in Processors, Process(p)
      PROVE  Counted(d)'
  <2>1. \A q \in Processors \ {p} : Unmoved(q)
    BY <1>1, <1>6, ProcessTypes
  <2>2. interrupts' = interrupts
    BY <1>6 DEF Process, ClaimWebhookEventLease, NotLeased, StoreNotFound, CloseSchemaDrift,
       IgnoreUnknownStatus, CloseUnmappable, IntakeOrder, StampProcessed, EnqueueClaims, Throws, ReadAttempts,
       RecordTransientProcessingFailure, RowVanished
  <2>3. CASE Current(p) # d
    <3>1. event'[d] = event[d]
      BY <1>1, <1>6, <2>3, ProcessRow DEF Others
    <3>2. InFlight(d) => InFlight(d)'
      BY <2>1, <2>3, StaysInFlight
    <3> QED
      BY <1>1, <2>2, <3>1, <3>2, StaysCounted
  <2>4. CASE Current(p) = d /\ ClaimWebhookEventLease(p)
    BY <1>1, <2>4, ClaimCounts
  <2>5. CASE Current(p) = d /\ ~ClaimWebhookEventLease(p)
    <3>1. /\ event'[d].attempts = event[d].attempts
          /\ event'[d].state = "open" /\ Owned(p) => (Owned(p) /\ Current(p) = d)' \/ Below(d)
      BY <1>1, <1>6, <2>5, ProcessCounts
    <3>2. event'[d].state = "open" => event[d].state = "open"
      BY <1>1, <1>6, <2>5, ProcessRow DEF KeepsState, Closes
    <3>3. event'[d].state = "open" /\ InFlight(d) => InFlight(d)' \/ Below(d)'
      <4>1. CASE Owned(p)
        BY <1>1, <2>2, <3>1, <4>1 DEF InFlight, Below
      <4>2. CASE ~Owned(p)
        BY <2>1, <4>2, StaysInFlight
      <4> QED
        BY <4>1, <4>2
    <3> QED
      BY <1>1, <2>2, <3>1, <3>2, <3>3, StaysCounted
  <2> QED
    BY <2>3, <2>4, <2>5
<1>7. ASSUME NEW p \in Processors, Interrupted(p)
      PROVE  Counted(d)'
  <2>1. event'[d] = event[d] /\ interrupts' = interrupts + 1
    BY <1>7 DEF Interrupted
  <2>2. Below(d)'
    BY <1>1, <1>2, <2>1 DEF Counted, Below, Event
  <2> QED
    BY <1>1, <2>1, <2>2, StaysCounted
<1>8. ASSUME NEW e \in Deliveries, LeaseOrBackoffElapses(e) \/ WebhookEventCleanup(e)
      PROVE  Counted(d)'
  <2>1. interrupts' = interrupts /\ \A q \in Processors : Unmoved(q)
    BY <1>8 DEF LeaseOrBackoffElapses, WebhookEventCleanup, Unmoved, Current
  <2>2. CASE d # e
    <3>1. event'[d] = event[d]
      BY <1>1, <1>8, <2>2, ClockRow DEF Others
    <3> QED
      BY <1>3, <2>1, <3>1
  <2>3. CASE d = e
    <3>1. PICK row \in {[event[d] EXCEPT !.due = TRUE], [event[d] EXCEPT !.state = "gone"]} :
            event' = [event EXCEPT ![d] = row]
      BY <1>8, <2>3 DEF LeaseOrBackoffElapses, WebhookEventCleanup
    <3>2. /\ row \in Event /\ row.attempts = event[d].attempts
          /\ row.state = "open" => event[d].state = "open"
      <4>1. CASE row = [event[d] EXCEPT !.due = TRUE]
        BY <1>2, <4>1 DEF Event
      <4>2. CASE row = [event[d] EXCEPT !.state = "gone"]
        BY <1>2, <4>2 DEF Event
      <4> QED
        BY <3>1, <4>1, <4>2
    <3>3. event'[d] = row
      BY <1>1, <3>1, <3>2, RowWritten
    <3>4. InFlight(d) => InFlight(d)'
      BY <2>1, StaysInFlight
    <3> QED
      BY <1>1, <2>1, <3>2, <3>3, <3>4, StaysCounted
  <2> QED
    BY <2>2, <2>3
<1>9. ASSUME DisconnectStore
      PROVE  Counted(d)'
  <2>1. interrupts' = interrupts
    BY <1>9 DEF DisconnectStore
  <2>2. event'[d].attempts = event[d].attempts /\ event'[d].state # "open"
    <3>1. event'[d] = event[d] \/ event'[d] = [event[d] EXCEPT !.state = "gone"]
      BY <1>9 DEF DisconnectStore
    <3>2. event'[d].attempts = event[d].attempts
      BY <1>2, <3>1 DEF Event
    <3> QED
      BY <1>1, <1>9, <3>2, DisconnectRows
  <2> QED
    BY <1>1, <2>1, <2>2, StaysCounted
<1>10. ASSUME UNCHANGED <<event, proc, interrupts>>
      PROVE  Counted(d)'
  BY <1>3, <1>10 DEF Unmoved, Current
<1> QED
  BY <1>4, <1>5, <1>6, <1>7, <1>8, <1>9, <1>10
  DEF Next, vars, DropUnrecorded, ReDelivery, ClaimsRunEnds

\* The copy of the counter is made under the lease, so the row keeps it.
LEMMA CopyStep ==
  ASSUME QueueInv, AttemptsInv, [Next]_vars, NEW p \in Processors
  PROVE  CopyIsCurrent(p)'
<1>1. TypeOK /\ HasWork /\ LeaseInv
  BY DEF QueueInv
<1>2. SUFFICES ASSUME proc'[p].pc = "recording", event'[Current(p)'].state = "open"
               PROVE  proc'[p].attempts = event'[Current(p)'].attempts
  BY DEF CopyIsCurrent
<1>3. ASSUME Unmoved(p), event'[Current(p)] = event[Current(p)]
      PROVE  proc'[p].attempts = event'[Current(p)'].attempts
  BY <1>2, <1>3 DEF Unmoved, AttemptsInv, CopyIsCurrent
<1>4. ASSUME Unmoved(p)
      PROVE  /\ proc[p].pc = "recording" /\ Current(p) \in Deliveries /\ Works(p, Current(p))
             /\ event[Current(p)] \in Event
             /\ \/ event[Current(p)].state = "open" /\ ~event[Current(p)].due
                \/ event[Current(p)].state = "gone"
  BY <1>1, <1>2, <1>4, ProcessorTypes DEF Unmoved, LeaseInv, LeaseHeld, Holding, Owned, Works
<1>5. ASSUME NEW e \in Deliveries, Receive(e)
      PROVE  proc'[p].attempts = event'[Current(p)'].attempts
  <2>1. Unmoved(p)
    <3>1. <<e>> \in Seq(Deliveries)
      OBVIOUS
    <3> QED
      BY <1>1, <1>2, <1>5, <3>1, ReceiveTypes, Scanning
  <2>2. e # Current(p)
    BY <1>4, <1>5, <2>1 DEF Receive
  <2> QED
    BY <1>1, <1>3, <1>4, <1>5, <2>1, <2>2, ReceiveRow DEF Others
<1>6. ASSUME NEW q \in Processors, Scan(q)
      PROVE  proc'[p].attempts = event'[Current(p)'].attempts
  BY <1>1, <1>2, <1>3, <1>6, ScanTypes DEF Scan
<1>7. ASSUME NEW q \in Processors, Process(q)
      PROVE  proc'[p].attempts = event'[Current(p)'].attempts
  <2>1. CASE q # p
    <3>1. Unmoved(p)
      BY <1>1, <1>7, <2>1, ProcessTypes
    <3>2. CASE Current(q) # Current(p)
      BY <1>1, <1>3, <1>4, <1>7, <3>1, <3>2, ProcessRow DEF Others
    <3>3. CASE Current(q) = Current(p)
      <4>1. proc[q].pc = "scan"
        BY <1>1, <1>4, <1>7, <2>1, <3>1, <3>3, ProcessTypes, ProcessorTypes
        DEF LeaseInv, SoleProcessor, Works
      <4>2. ~Eligible(Current(q))
        BY <1>4, <3>1, <3>3 DEF Eligible
      <4>3. event' = event
        BY <1>1, <1>7, <4>1, <4>2, ProcessKeeps DEF LeaseInv, ClaimWebhookEventLease
      <4> QED
        BY <1>3, <3>1, <4>3
    <3> QED
      BY <3>2, <3>3
  <2>2. CASE q = p
    <3>1. proc[p].pc # "idle" /\ ~MoveOn(p) /\ proc' # [proc EXCEPT ![p] = Idle]
      BY <1>1, <1>2, <1>7, <2>2, ProcessTypes, MovingOn, Stopping DEF Idle
    <3>2. \A to \in {"leased", "written", "failed", "claims"} : ~GoTo(p, to)
      BY <1>1, <1>2, <3>1, Going
    <3>3. ReadAttempts(p) /\ event' = event
      BY <1>7, <2>2, <3>1, <3>2 DEF Process, ClaimWebhookEventLease, NotLeased, StoreNotFound,
         CloseSchemaDrift, IgnoreUnknownStatus, CloseUnmappable, IntakeOrder, StampProcessed,
         EnqueueClaims, Throws, ReadAttempts, RecordTransientProcessingFailure, RowVanished
    <3>4. proc' = [proc EXCEPT ![p] = [proc[p] EXCEPT !.pc = "recording",
                                                      !.attempts = event[Current(p)].attempts]]
      BY <3>1, <3>3 DEF ReadAttempts
    <3>5. /\ proc'[p].batch = proc[p].batch
          /\ proc'[p].attempts = event[Current(p)].attempts
      BY <1>1, <3>4 DEF TypeOK, Processor
    <3> QED
      BY <3>3, <3>5 DEF Current
  <2> QED
    BY <2>1, <2>2
<1>8. ASSUME NEW q \in Processors, Interrupted(q)
      PROVE  proc'[p].attempts = event'[Current(p)'].attempts
  BY <1>1, <1>2, <1>3, <1>8, Stopping DEF Interrupted, Idle
<1>9. ASSUME NEW e \in Deliveries, LeaseOrBackoffElapses(e) \/ WebhookEventCleanup(e)
      PROVE  proc'[p].attempts = event'[Current(p)'].attempts
  <2>1. Unmoved(p)
    BY <1>9 DEF LeaseOrBackoffElapses, WebhookEventCleanup, Unmoved, Current
  <2>2. CASE e # Current(p)
    BY <1>1, <1>3, <1>4, <1>9, <2>1, <2>2, ClockRow DEF Others
  <2>3. CASE e = Current(p)
    <3>1. LeaseOrBackoffElapses(e)
      BY <1>4, <1>9, <2>1, <2>3 DEF WebhookEventCleanup
    <3>2. event'[e] = [event[e] EXCEPT !.due = TRUE]
      BY <1>1, <3>1, RowTypes, RowWritten DEF LeaseOrBackoffElapses
    <3>3. event'[e].attempts = event[e].attempts /\ event'[e].state = event[e].state
      BY <1>4, <2>1, <2>3, <3>2 DEF Event
    <3> QED
      BY <1>2, <2>1, <2>3, <3>3 DEF Unmoved, AttemptsInv, CopyIsCurrent
  <2> QED
    BY <2>2, <2>3
<1>10. ASSUME DisconnectStore
       PROVE  proc'[p].attempts = event'[Current(p)'].attempts
  <2>1. Unmoved(p)
    BY <1>10 DEF DisconnectStore, Unmoved, Current
  <2> QED
    BY <1>1, <1>2, <1>4, <1>10, <2>1, DisconnectRows DEF Unmoved
<1>11. CASE UNCHANGED <<event, proc>>
  BY <1>3, <1>11 DEF Unmoved, Current
<1> QED
  BY <1>5, <1>6, <1>7, <1>8, <1>9, <1>10, <1>11
  DEF Next, vars, DropUnrecorded, ReDelivery, ClaimsRunEnds

LEMMA AttemptsStep ==
  ASSUME QueueInv, AttemptsInv, [Next]_vars
  PROVE  AttemptsInv'
<1>1. TypeOK /\ HasWork
  BY DEF QueueInv
<1>2. ASSUME deleted', NEW d \in Deliveries
      PROVE  event'[d].state # "open"
  <2>1. CASE deleted
    <3>1. event[d].state # "open" /\ Forward(d)
      BY <1>1, <2>1, ForwardStep DEF AttemptsInv
    <3>2. event[d].state \in {"absent", "closed", "gone"}
      BY <1>1, <3>1, RowTypes DEF Event
    <3> QED
      BY <2>1, <3>1, <3>2 DEF Forward
  <2>2. CASE ~deleted
    <3>1. DisconnectStore
      BY <1>2, <2>2 DEF Next, vars, Receive, DropUnrecorded, ReDelivery, Scan, Process, Interrupted,
         ClaimWebhookEventLease, NotLeased, StoreNotFound, CloseSchemaDrift, IgnoreUnknownStatus,
         CloseUnmappable, IntakeOrder, StampProcessed, EnqueueClaims, Throws, ReadAttempts,
         RecordTransientProcessingFailure, RowVanished, LeaseOrBackoffElapses,
         WebhookEventCleanup, ClaimsRunEnds
    <3> QED
      BY <1>1, <3>1, DisconnectRows
  <2> QED
    BY <2>1, <2>2
<1> QED
  BY <1>2, CountedStep, CopyStep DEF AttemptsInv

LEMMA AttemptsInit == Init => AttemptsInv
BY LimitsAssumption DEF Init, AttemptsInv, Counted, CopyIsCurrent, Below, Absent, Idle

(* When the work on a claim ends before its lease, no event is claimed     *)
(* more often than MaxAttempts and once for each interruption: a process   *)
(* that dies on an event is not counted against it by anybody else.        *)
THEOREM RetriesAreBounded ==
  ASSUME Timely
  PROVE  Spec => [](\A d \in Deliveries : event[d].attempts <= MaxAttempts + interrupts)
<1>1. QueueInv /\ AttemptsInv /\ [Next]_vars => AttemptsInv'
  BY AttemptsStep
<1>2. AttemptsInv => \A d \in Deliveries : event[d].attempts <= MaxAttempts + interrupts
  BY DEF AttemptsInv, Counted
<1> QED
  BY <1>1, <1>2, AttemptsInit, QueueInvariant, PTL DEF Spec

-----------------------------------------------------------------------------
(* What was acknowledged.                                                  *)
-----------------------------------------------------------------------------
(***************************************************************************)
(* Every row a processor has in its batch was inserted, and so was every   *)
(* event that was answered 200, the dropped ones apart.                    *)
(***************************************************************************)
Inserted(d) == event[d].state # "absent"

Elements(s) == {s[i] : i \in 1 .. Len(s)}

Recorded ==
  /\ \A p \in Processors : \A d \in Elements(proc[p].batch) : Inserted(d)
  /\ \A d \in acked \ Drops : Inserted(d)

LEMMA StaysInserted ==
  ASSUME TypeOK, HasWork, [Next]_vars, NEW d \in Deliveries, Inserted(d)
  PROVE  Inserted(d)'
BY ForwardStep DEF Inserted, Forward

LEMMA BatchElements ==
  ASSUME TypeOK, HasWork, NEW p \in Processors
  PROVE  /\ Elements(proc[p].batch) \subseteq Deliveries
         /\ proc[p].pc # "idle" => /\ Current(p) \in Elements(proc[p].batch)
                                   /\ Elements(Rest(p).batch) \subseteq Elements(proc[p].batch)
         /\ Elements(Idle.batch) = {}
<1>1. proc[p].batch \in Seq(Deliveries)
  BY ProcessorTypes
<1>2. Elements(proc[p].batch) \subseteq Deliveries
  BY <1>1, ElementOfSeq DEF Elements
<1>3. Elements(Idle.batch) = {}
  <2>1. Idle.batch = <<>> /\ Len(<<>>) = 0
    BY DEF Idle
  <2> QED
    BY <2>1 DEF Elements
<1>4. ASSUME proc[p].pc # "idle"
      PROVE  /\ Current(p) \in Elements(proc[p].batch)
             /\ Elements(Rest(p).batch) \subseteq Elements(proc[p].batch)
  <2> DEFINE s == proc[p].batch
  <2>1. s \in Seq(Deliveries) /\ s # <<>>
    BY <1>1, <1>4 DEF HasWork
  <2>2. Len(s) \in Nat /\ Len(s) # 0
    BY <2>1, LenProperties, EmptySeq
  <2>3. Head(s) = s[1]
    BY <2>1, HeadTailProperties
  <2>4. Head(s) \in Elements(s)
    BY <2>2, <2>3 DEF Elements
  <2>5. /\ Len(Tail(s)) = Len(s) - 1
        /\ \A i \in 1 .. Len(Tail(s)) : Tail(s)[i] = s[i + 1]
    BY <2>1, HeadTailProperties
  <2>6. Elements(Tail(s)) \subseteq Elements(s)
    BY <2>2, <2>5 DEF Elements
  <2>7. Rest(p).batch = Idle.batch \/ Rest(p).batch = Tail(s)
    BY DEF Rest
  <2> QED
    BY <1>3, <2>4, <2>6, <2>7 DEF Current
<1> QED
  BY <1>2, <1>3, <1>4

\* The rows a processor has in its batch after a step were in it before, or
\* the scan or the request has just put them there.
LEMMA BatchStep ==
  ASSUME TypeOK, HasWork, Recorded, [Next]_vars, NEW p \in Processors
  PROVE  \A d \in Elements(proc'[p].batch) : d \in Deliveries /\ Inserted(d)'
<1>1. TypeOK /\ HasWork
  OBVIOUS
<1>2. /\ Elements(proc[p].batch) \subseteq Deliveries /\ Elements(Idle.batch) = {}
      /\ proc[p].pc # "idle" => Elements(Rest(p).batch) \subseteq Elements(proc[p].batch)
  BY <1>1, BatchElements
<1>3. \A d \in Elements(proc[p].batch) : d \in Deliveries /\ Inserted(d)'
  BY <1>2, StaysInserted DEF Recorded
<1>4. CASE Elements(proc'[p].batch) \subseteq Elements(proc[p].batch)
  BY <1>3, <1>4
<1>5. CASE Unmoved(p)
  BY <1>4, <1>5 DEF Unmoved
<1>6. CASE proc'[p] = Idle
  BY <1>2, <1>4, <1>6
<1>7. ASSUME NEW d \in Deliveries, Receive(d)
      PROVE  \A e \in Elements(proc'[p].batch) : e \in Deliveries /\ Inserted(e)'
  <2>1. CASE proc'[p] = [Idle EXCEPT !.pc = "scan", !.batch = <<d>>]
    <3>1. <<d>> \in Seq(Deliveries)
      OBVIOUS
    <3>2. proc'[p].batch = <<d>>
      BY <2>1, <3>1, Scanning
    <3>3. Elements(<<d>>) = {d}
      BY DEF Elements
    <3>4. Inserted(d)'
      BY <1>1, <1>7, ReceiveRow DEF Inserts, Inserted
    <3> QED
      BY <3>2, <3>3, <3>4
  <2> QED
    BY <1>1, <1>5, <1>7, <2>1, ReceiveTypes
<1>8. ASSUME Scan(p)
      PROVE  \A e \in Elements(proc'[p].batch) : e \in Deliveries /\ Inserted(e)'
  <2>1. PICK n \in 1 .. ScanLimit : \E at \in [1 .. n -> Due] :
          proc' = [proc EXCEPT ![p] =
            [Idle EXCEPT !.pc = "scan", !.batch = [k \in 1 .. n |-> arrival[at[k]]]]]
    BY <1>8 DEF Scan
  <2>2. PICK at \in [1 .. n -> Due] :
          proc' = [proc EXCEPT ![p] =
            [Idle EXCEPT !.pc = "scan", !.batch = [k \in 1 .. n |-> arrival[at[k]]]]]
    BY <2>1
  <2> DEFINE batch == [k \in 1 .. n |-> arrival[at[k]]]
  <2>3. n \in Nat
    BY LimitsAssumption
  <2>4. \A k \in 1 .. n : arrival[at[k]] \in Deliveries /\ Inserted(arrival[at[k]])
    <3>1. \A i \in Due : i \in DOMAIN arrival /\ event[arrival[i]].state = "open"
      BY DEF Due, Eligible
    <3>2. \A i \in DOMAIN arrival : arrival[i] \in Deliveries
      BY <1>1, ElementOfSeq, LenProperties DEF TypeOK
    <3> QED
      BY <3>1, <3>2 DEF Inserted
  <2>5. batch \in [1 .. n -> Deliveries]
    BY <2>4
  <2>6. batch \in Seq(Deliveries)
    BY <2>3, <2>5, SeqDef
  <2>7. Len(batch) = n
    BY <2>3, <2>5, <2>6, LenProperties
  <2>8. \A k \in 1 .. n : batch[k] = arrival[at[k]]
    OBVIOUS
  <2> HIDE DEF batch
  <2>9. proc'[p].batch = batch
    <3>1. proc' = [proc EXCEPT ![p] = [Idle EXCEPT !.pc = "scan", !.batch = batch]]
      BY <2>2 DEF batch
    <3>2. proc'[p] = [Idle EXCEPT !.pc = "scan", !.batch = batch]
      BY <1>1, <3>1 DEF TypeOK
    <3> QED
      BY <2>6, <3>2, Scanning
  <2>10. event' = event
    BY <1>8 DEF Scan
  <2> QED
    BY <2>4, <2>7, <2>8, <2>9, <2>10 DEF Elements, Inserted
<1>9. ASSUME Process(p)
      PROVE  Elements(proc'[p].batch) \subseteq Elements(proc[p].batch)
  <2>1. proc[p].pc # "idle"
    BY <1>1, <1>9, ProcessTypes
  <2>2. CASE MoveOn(p)
    <3>1. proc'[p] = Rest(p)
      BY <1>1, <2>2 DEF MoveOn, TypeOK
    <3> QED
      BY <1>2, <2>1, <3>1
  <2>3. CASE \E to \in {"leased", "written", "failed", "claims"} : GoTo(p, to)
    <3>1. proc'[p].batch = proc[p].batch
      BY <1>1, <2>1, <2>3, Going
    <3> QED
      BY <3>1
  <2>4. CASE proc' = [proc EXCEPT ![p] = Idle]
    BY <1>1, <1>2, <2>4, Stopping
  <2>5. CASE proc' = [proc EXCEPT ![p] = [proc[p] EXCEPT !.pc = "recording",
                                                         !.attempts = event[Current(p)].attempts]]
    <3>1. proc'[p].batch = proc[p].batch
      BY <1>1, <2>5 DEF TypeOK, Processor
    <3> QED
      BY <3>1
  <2> QED
    BY <1>9, <2>2, <2>3, <2>4, <2>5 DEF Process, ClaimWebhookEventLease, NotLeased,
       StoreNotFound, CloseSchemaDrift, IgnoreUnknownStatus, CloseUnmappable, IntakeOrder,
       StampProcessed, EnqueueClaims, Throws, ReadAttempts, RecordTransientProcessingFailure,
       RowVanished
<1>10. ASSUME NEW q \in Processors, Scan(q) \/ Process(q) \/ Interrupted(q)
       PROVE  \A e \in Elements(proc'[p].batch) : e \in Deliveries /\ Inserted(e)'
  <2>1. CASE q = p
    BY <1>1, <1>4, <1>6, <1>8, <1>9, <1>10, <2>1, Stopping DEF Interrupted
  <2>2. CASE q # p
    BY <1>1, <1>5, <1>10, <2>2, ScanTypes, ProcessTypes, Stopping DEF Interrupted
  <2> QED
    BY <2>1, <2>2
<1>11. CASE Outside
  BY <1>1, <1>5, <1>11, OutsideTypes
<1> QED
  BY <1>7, <1>10, <1>11 DEF Next, Outside

LEMMA AckedStep ==
  ASSUME TypeOK, HasWork, Recorded, [Next]_vars, NEW d \in acked' \ Drops
  PROVE  Inserted(d)'
<1>1. TypeOK /\ HasWork /\ TypeOK'
  BY TypeStep
<1>2. d \in Deliveries
  BY <1>1 DEF TypeOK
<1>3. CASE Inserted(d)
  BY <1>2, <1>3, StaysInserted
<1>4. CASE d \in acked
  BY <1>3, <1>4 DEF Recorded
<1>5. ASSUME NEW e \in Deliveries, Receive(e)
      PROVE  Inserted(d)'
  <2>1. CASE d = e
    BY <1>1, <1>5, <2>1, ReceiveRow DEF Inserts, Inserted
  <2> QED
    BY <1>4, <1>5, <2>1 DEF Receive
<1>6. ASSUME NEW e \in Deliveries, DropUnrecorded(e) \/ ReDelivery(e)
      PROVE  Inserted(d)'
  BY <1>3, <1>4, <1>6 DEF DropUnrecorded, ReDelivery, Exists, Inserted
<1>7. ASSUME NEW p \in Processors, Process(p), acked' # acked
      PROVE  Inserted(d)'
  <2>1. proc[p].pc # "idle"
    BY <1>1, <1>7, ProcessTypes
  <2>2. MoveOn(p)
    BY <1>7 DEF Process, ClaimWebhookEventLease, NotLeased,
       StoreNotFound, CloseSchemaDrift, IgnoreUnknownStatus, CloseUnmappable, IntakeOrder,
       StampProcessed, EnqueueClaims, Throws, ReadAttempts, RecordTransientProcessingFailure,
       RowVanished, GoTo
  <2>3. Inserted(Current(p))
    BY <1>1, <2>1, BatchElements DEF Recorded
  <2> QED
    BY <1>1, <1>3, <1>4, <2>1, <2>2, <2>3, MovingOn
<1> QED
  BY <1>4, <1>5, <1>6, <1>7 DEF Next, vars, Scan, Interrupted, LeaseOrBackoffElapses,
     WebhookEventCleanup, ClaimsRunEnds, DisconnectStore

LEMMA RecordedStep ==
  ASSUME TypeOK, HasWork, Recorded, [Next]_vars
  PROVE  Recorded'
BY BatchStep, AckedStep DEF Recorded

LEMMA RecordedInit == Init => Recorded
<1> SUFFICES ASSUME Init PROVE Recorded
  OBVIOUS
<1>1. \A p \in Processors : Elements(proc[p].batch) = {}
  <2>1. Idle.batch = <<>> /\ Len(<<>>) = 0
    BY DEF Idle
  <2> QED
    BY <2>1 DEF Init, Elements
<1> QED
  BY <1>1 DEF Init, Recorded

(* A delivery that was answered 200 has its row, and an open row leaves    *)
(* the queue only by being closed or with its store, even when leases run  *)
(* out under their owners.                                                 *)
THEOREM AcknowledgedIsKept == Spec => AckedIsDurable
<1>1. TypeOK /\ HasWork /\ Recorded /\ [Next]_vars => Recorded'
  BY RecordedStep
<1>2. TypeOK /\ HasWork /\ Recorded /\ [Next]_vars =>
        [\A d \in Deliveries :
           /\ d \in acked' \ Drops => event'[d].state # "absent"
           /\ event[d].state = "open" /\ ~deleted' => event'[d].state \in {"open", "closed"}]_vars
  <2> SUFFICES ASSUME TypeOK, HasWork, Recorded, [Next]_vars, NEW d \in Deliveries
               PROVE  /\ d \in acked' \ Drops => event'[d].state # "absent"
                      /\ event[d].state = "open" /\ ~deleted' => event'[d].state \in {"open", "closed"}
    OBVIOUS
  <2>1. d \in acked' \ Drops => event'[d].state # "absent"
    BY AckedStep DEF Inserted
  <2>2. event[d].state = "open" /\ ~deleted' => event'[d].state \in {"open", "closed"}
    BY ForwardStep DEF Forward
  <2> QED
    BY <2>1, <2>2
<1> QED
  BY <1>1, <1>2, RecordedInit, TypeCorrect, PTL DEF Spec, AckedIsDurable

-----------------------------------------------------------------------------
(* The queue delivers.                                                     *)
-----------------------------------------------------------------------------
Status == [d \in Deliveries |-> StatusOf(d)]

LEMMA StatusRow ==
  ASSUME NEW d \in Deliveries, Others(d)
  PROVE  Status' = [Status EXCEPT ![d] = StatusOf(d)']
<1>1. \A e \in Deliveries \ {d} : StatusOf(e)' = StatusOf(e)
  BY DEF Others, StatusOf
<1>2. Status' = [e \in Deliveries |-> StatusOf(e)']
  BY DEF Status
<1> QED
  BY <1>1, <1>2 DEF Status

LEMMA StatusKept ==
  ASSUME NEW d \in Deliveries, Others(d), KeepsState(d)
  PROVE  Status' = Status
<1>1. StatusOf(d)' = StatusOf(d)
  BY DEF KeepsState, StatusOf
<1>2. Status' = [Status EXCEPT ![d] = StatusOf(d)]
  BY <1>1, StatusRow
<1> QED
  BY <1>2 DEF Status

LEMMA DeliveryStep ==
  ASSUME QueueInv, [Next]_vars
  PROVE  [Delivery!Next]_(Delivery!vars)
<1>1. TypeOK /\ HasWork /\ LeaseInv /\ TakenInv /\ TakenInv'
  BY TakenStep DEF QueueInv
<1>2. SUFFICES Delivery!Next \/ (Status' = Status /\ taken' = taken)
  BY DEF Delivery!vars, Status
<1>3. CASE event' = event /\ taken' = taken
  BY <1>3 DEF Status, StatusOf
<1>4. ASSUME NEW d \in Deliveries, Receive(d)
      PROVE  Delivery!Accept(d)
  <2>1. Others(d) /\ Inserts(d) /\ taken' = taken
    BY <1>1, <1>4, ReceiveRow
  <2>2. StatusOf(d) = "unseen" /\ StatusOf(d)' \in {"queued", "gaveUp"}
    BY <2>1 DEF Inserts, StatusOf
  <2> QED
    BY <2>1, <2>2, StatusRow DEF Delivery!Accept, Status
<1>5. ASSUME NEW p \in Processors, Process(p)
      PROVE  Delivery!Next \/ (Status' = Status /\ taken' = taken)
  <2>1. PICK d \in Deliveries :
          /\ Others(d) /\ (KeepsState(d) \/ Closes(d))
          /\ \/ taken' = taken
             \/ taken' = taken \cup {d} /\ event' = event /\ event[d].state = "open"
    BY <1>1, <1>5, ProcessRow
  <2>2. CASE taken' = taken \cup {d} /\ event' = event /\ event[d].state = "open"
    <3>1. StatusOf(d) = "queued" /\ Status' = Status
      BY <2>2 DEF StatusOf, Status
    <3>2. Delivery!Apply(d)
      BY <2>1, <2>2, <3>1 DEF Delivery!Apply, Status
    <3> QED
      BY <2>1, <3>2 DEF Delivery!Next
  <2>3. CASE taken' = taken /\ KeepsState(d)
    BY <2>1, <2>3, StatusKept
  <2>4. CASE taken' = taken /\ Closes(d)
    <3>1. StatusOf(d) = "queued" /\ StatusOf(d)' \in {"done", "gaveUp"}
      BY <2>4 DEF Closes, StatusOf
    <3>2. StatusOf(d)' = "done" => d \in taken \cup UnknownStatuses
      BY <1>1, <2>1, <2>4 DEF Closes, StatusOf, TakenInv, ProcessedWasTakenIn
    <3>3. Status' = [Status EXCEPT ![d] = StatusOf(d)']
      BY <2>1, StatusRow
    <3>4. Delivery!Settle(d)
      BY <2>1, <2>4, <3>1, <3>2, <3>3 DEF Delivery!Settle, Status
    <3> QED
      BY <2>1, <3>4 DEF Delivery!Next
  <2> QED
    BY <2>1, <2>2, <2>3, <2>4
<1>6. ASSUME NEW d \in Deliveries, LeaseOrBackoffElapses(d) \/ WebhookEventCleanup(d)
      PROVE  Delivery!Forget(d) \/ (Status' = Status /\ taken' = taken)
  <2>1. Others(d) /\ (KeepsState(d) \/ Removes(d)) /\ taken' = taken
    BY <1>1, <1>6, ClockRow
  <2>2. CASE KeepsState(d)
    BY <2>1, <2>2, StatusKept
  <2>3. CASE Removes(d)
    <3>1. StatusOf(d) \in {"done", "gaveUp"} /\ StatusOf(d)' = "forgotten"
      BY <2>3 DEF Removes, StatusOf
    <3> QED
      BY <2>1, <3>1, StatusRow DEF Delivery!Forget, Status
  <2> QED
    BY <2>1, <2>2, <2>3
<1>7. ASSUME DisconnectStore
      PROVE  Delivery!ForgetAll
  <2>1. \A d \in Deliveries :
          \/ StatusOf(d) = "unseen" /\ StatusOf(d)' = "unseen"
          \/ StatusOf(d) # "unseen" /\ StatusOf(d)' = "forgotten"
    <3> SUFFICES ASSUME NEW d \in Deliveries
                 PROVE  \/ StatusOf(d) = "unseen" /\ StatusOf(d)' = "unseen"
                        \/ StatusOf(d) # "unseen" /\ StatusOf(d)' = "forgotten"
      OBVIOUS
    <3>1. /\ event[d].state \in {"absent", "open", "closed", "gone"}
          /\ \/ event[d].state = "absent" /\ event'[d] = event[d]
             \/ event[d].state # "absent" /\ event'[d].state = "gone"
      BY <1>1, <1>7, DisconnectRows, RowTypes DEF Event
    <3> QED
      BY <3>1 DEF StatusOf
  <2>2. taken' = taken
    BY <1>7 DEF DisconnectStore
  <2> QED
    BY <2>1, <2>2 DEF Delivery!ForgetAll
<1> QED
  BY <1>3, <1>4, <1>5, <1>6, <1>7 DEF Delivery!Next, Next, vars, DropUnrecorded, ReDelivery,
     Scan, Interrupted, ClaimsRunEnds

(* When the work on a claim ends before its lease, the queue implements    *)
(* EventDelivery: an event is applied only while it is queued, settled as  *)
(* done only when it was applied or its status is unknown, and never       *)
(* forgotten unsettled.                                                    *)
THEOREM QueueDelivers == ASSUME Timely PROVE Spec => ImplementsDelivery
<1>1. Init => Delivery!Init
  BY DEF Init, Delivery!Init, StatusOf, Absent
<1>2. QueueInv /\ [Next]_vars => [Delivery!Next]_(Delivery!vars)
  BY DeliveryStep
<1> QED
  BY <1>1, <1>2, QueueInvariant, PTL DEF Spec, ImplementsDelivery, Delivery!Spec

=============================================================================

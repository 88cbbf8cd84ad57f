---------------------------- MODULE OrdersWindow ----------------------------
(***************************************************************************)
(* The window of the orders sync.  A run fixes its end at its first chunk, *)
(* derives its start from the completion time of the last completed run,   *)
(* and walks back from the end in chunks of ChunkDays days, each read in   *)
(* pages through the vendor's stream.  The next run need not look further  *)
(* back than the last one already did.                                     *)
(*                                                                         *)
(* Time is a whole number of units since an epoch; slot t stands for the   *)
(* instants from t up to t + 1, so a window from s to e covers the slots   *)
(* s .. e - 1.  A slot is swept when the vendor's last page of a window    *)
(* that covers it was taken in.  How rows are claimed, retried and fenced  *)
(* is module SyncQueue's; here a run waits, works, or is over.             *)
(***************************************************************************)
EXTENDS Integers

CONSTANTS
  Created,     (* store.createdAt                                          *)
  Day,         (* units per day                                            *)
  ChunkDays,   (* STREAM_CHUNK_DAYS                                        *)
  Overlap,     (* ORDERS_DELTA_OVERLAP_MS                                  *)
  SafetyNet,   (* SYNC_SAFETY_NET_HOURS                                    *)
  BackfillDays,  (* SYNC_HISTORICAL_BACKFILL_DAYS                          *)
  MaxRunTime,  (* how long after its end a run may still be unfinished     *)
  MaxPages,    (* bound: pages of a chunk                                  *)
  MaxTime      (* bound: the clock                                         *)

ASSUME SpansAssumption ==
  /\ Created \in Nat /\ Day \in Nat \ {0} /\ ChunkDays \in Nat \ {0}
  /\ Overlap \in Nat /\ SafetyNet \in Nat /\ BackfillDays \in Nat
ASSUME BoundsAssumption ==
  /\ MaxRunTime \in Nat \ {0} /\ MaxPages \in Nat \ {0} /\ MaxTime \in Nat

VARIABLES
  now,
  run,        (* the store's active ORDERS run, or "none"                  *)
  cursor,     (* its persisted page_cursor                                 *)
  result,     (* what the chunk just processed asks for, not yet written   *)
  completed,  (* completed_at of the newest COMPLETED run, or Never        *)
  swept,      (* slots whose orders were taken in                          *)
  coveredTo,  (* history: the end of the newest completed run's window     *)
  late,       (* history: what lies between the window's end of a          *)
              (* completed run and its completion time less the overlap    *)
  firstEnd    (* history: the end of the first completed run's window      *)

vars == <<now, run, cursor, result, completed, swept, coveredTo, late, firstEnd>>

Never == -1

(***************************************************************************)
(* A cursor.  kind "none" is the NULL of a fresh run, and of a legacy one. *)
(***************************************************************************)
Cursor == [kind : {"none", "stream"}, end : Nat, chunk : Nat, page : Nat]
Fresh  == [kind |-> "none", end |-> 0, chunk |-> 0, page |-> 0]
Stream(end, chunk, page) == [kind |-> "stream", end |-> end, chunk |-> chunk, page |-> page]

Result  == [kind : {"none", "continue", "done"}, cursor : Cursor]
Pending == [kind |-> "none", cursor |-> Fresh]

Init ==
  /\ now \in {Created, Created + 1}
  /\ run = "none"
  /\ cursor = Fresh
  /\ result = Pending
  /\ completed = Never
  /\ swept = {}
  /\ coveredTo = Created
  /\ late = {}
  /\ firstEnd = Created

Larger(a, b)  == IF a >= b THEN a ELSE b
Smaller(a, b) == IF a <= b THEN a ELSE b
CeilDiv(a, b) == (a + b - 1) \div b

ChunkSpan == ChunkDays * Day

\* The slots of a window.
Slots(s, e) == s..(e - 1)

-----------------------------------------------------------------------------
(* Faulty forms of some definitions, for the properties to tell apart.     *)
TrailingCutoff(end) == Larger(Created, end - SafetyNet)
UnclampedBounds(end, chunk) == <<end - (chunk + 1) * ChunkSpan, end - chunk * ChunkSpan>>
NextChunkLegacy(c) == [kind |-> "page-window", end |-> c.end, chunk |-> c.chunk + 1, page |-> 0]
-----------------------------------------------------------------------------
(***************************************************************************)
(* Cutoffs.  Without a completed run the whole life of the store is swept, *)
(* or the last BackfillDays of it if that is not zero; with one, back to   *)
(* its completion less an overlap, and never less than the safety net.     *)
(***************************************************************************)
Backfill == BackfillDays * Day

OrdersCutoff(end) ==
  IF BackfillDays = 0 THEN Created ELSE Larger(Created, end - Backfill)

DeltaCutoff(end) ==
  Larger(Created, Smaller(completed - Overlap, end - SafetyNet))

Cutoff(end) == IF completed = Never THEN OrdersCutoff(end) ELSE DeltaCutoff(end)

StreamChunkCount(end) ==
  LET spanDays == CeilDiv(end - Cutoff(end), Day)
  IN  IF spanDays <= 0 THEN 0 ELSE CeilDiv(spanDays, ChunkDays)

\* The window of a chunk: its start and its end.
ChunkBounds(end, chunk) ==
  LET endMs == end - chunk * ChunkSpan
  IN  <<Larger(endMs - ChunkSpan, Cutoff(end)), endMs>>

(***************************************************************************)
(* The run.                                                                *)
(***************************************************************************)
Enqueue ==
  /\ run = "none"
  /\ run' = "waiting"
  /\ cursor' = Fresh
  /\ UNCHANGED <<now, result, completed, swept, coveredTo, late, firstEnd>>

Claim ==
  /\ run = "waiting"
  /\ run' = "working"
  /\ UNCHANGED <<now, cursor, result, completed, swept, coveredTo, late, firstEnd>>

\* The cursor a chunk works with: the end is now as long as none was written.
Effective == IF cursor.kind = "none" THEN Stream(now, 0, 0) ELSE cursor

NextChunk(c) == Stream(c.end, c.chunk + 1, 0)

AdvanceChunkOrFinish(c) ==
  IF c.chunk >= StreamChunkCount(c.end) - 1
  THEN [kind |-> "done", cursor |-> c]
  ELSE [kind |-> "continue", cursor |-> NextChunk(c)]

\* An empty window: nothing is fetched.
SkipEmptyWindow ==
  /\ run = "working"
  /\ result.kind = "none"
  /\ StreamChunkCount(Effective.end) = 0
  /\ result' = AdvanceChunkOrFinish(Effective)
  /\ UNCHANGED <<now, run, cursor, completed, swept, coveredTo, late, firstEnd>>

\* A page that is not the last one of its chunk.
FetchPage ==
  /\ run = "working"
  /\ result.kind = "none"
  /\ StreamChunkCount(Effective.end) > 0
  /\ Effective.page + 1 < MaxPages
  /\ result' = [kind |-> "continue",
                cursor |-> [Effective EXCEPT !.page = Effective.page + 1]]
  /\ UNCHANGED <<now, run, cursor, completed, swept, coveredTo, late, firstEnd>>

\* The last page, or an empty stream: the chunk's window has been taken in.
FetchLastPage ==
  /\ run = "working"
  /\ result.kind = "none"
  /\ StreamChunkCount(Effective.end) > 0
  /\ LET bounds == ChunkBounds(Effective.end, Effective.chunk)
     IN  swept' = swept \cup Slots(bounds[1], bounds[2])
  /\ result' = AdvanceChunkOrFinish(Effective)
  /\ UNCHANGED <<now, run, cursor, completed, coveredTo, late, firstEnd>>

\* kind = 'continue': the cursor is persisted.
Tick ==
  /\ run = "working"
  /\ result.kind = "continue"
  /\ cursor' = result.cursor
  /\ result' = Pending
  /\ UNCHANGED <<now, run, completed, swept, coveredTo, late, firstEnd>>

\* kind = 'done': completed_at is the time of this write.
Complete ==
  /\ run = "working"
  /\ result.kind = "done"
  /\ run' = "none"
  /\ cursor' = Fresh
  /\ result' = Pending
  /\ completed' = now
  /\ coveredTo' = result.cursor.end
  /\ late' = late \cup Slots(result.cursor.end, now - Overlap)
  /\ firstEnd' = IF completed = Never THEN result.cursor.end ELSE firstEnd
  /\ UNCHANGED <<now, swept>>

\* A crash, a retry, a hand-over: the run goes on from the persisted cursor.
Interrupt ==
  /\ run = "working"
  /\ run' = "waiting"
  /\ result' = Pending
  /\ UNCHANGED <<now, cursor, completed, swept, coveredTo, late, firstEnd>>

\* The attempts are used up, or the vendor refuses the credentials.
Fail ==
  /\ run \in {"waiting", "working"}
  /\ run' = "none"
  /\ cursor' = Fresh
  /\ result' = Pending
  /\ UNCHANGED <<now, completed, swept, coveredTo, late, firstEnd>>

\* The end of the window the run is committed to, if it is to any.
Window ==
  IF run = "none" THEN {}
  ELSE IF result.kind # "none" THEN {result.cursor.end}
  ELSE IF cursor.kind # "none" THEN {cursor.end}
  ELSE {}

\* The clock.  A run with a window is over, one way or the other, before
\* MaxRunTime has passed since the window's end.
Passes ==
  /\ now < MaxTime
  /\ \A end \in Window : now < end + MaxRunTime
  /\ now' = now + 1
  /\ UNCHANGED <<run, cursor, result, completed, swept, coveredTo, late, firstEnd>>

Next ==
  \/ Enqueue \/ Claim \/ SkipEmptyWindow \/ FetchPage \/ FetchLastPage
  \/ Tick \/ Complete \/ Interrupt \/ Fail \/ Passes

Spec == Init /\ [][Next]_vars

-----------------------------------------------------------------------------
(* Types of all the variables.                                             *)
TypeOK ==
  /\ now \in Nat
  /\ run \in {"none", "waiting", "working"}
  /\ cursor \in Cursor
  /\ result \in Result
  /\ completed \in Nat \cup {Never}
  /\ swept \subseteq Int
  /\ coveredTo \in Nat
  /\ late \subseteq Int
  /\ firstEnd \in Nat

\* What completed runs answer for: from the connection of the store, or as
\* far as the first of them was to look back, to the end of the newest window.
Owed == {t \in Slots(Created, coveredTo) : BackfillDays = 0 \/ t >= firstEnd - Backfill}

(* Every instant that completed runs answer for was swept by some run:     *)
(* whatever was interrupted, restarted, failed or late, completed runs     *)
(* leave no gap behind them.                                               *)
NoGap == Owed \subseteq swept

(* What nobody swept lies where a completed run was late: between the end  *)
(* of its window and the moment it was done, less the overlap.  Whatever   *)
(* else is interrupted, restarted, failed or put off leaves no gap.        *)
OnlyLateRunsLeaveGaps == Owed \subseteq swept \cup late

(* Resuming from the persisted cursor loses nothing: what lies between the *)
(* chunk it names and the end of the run's window was swept.               *)
CursorIsSwept ==
  cursor.kind = "stream" =>
    Slots(Larger(Cutoff(cursor.end), cursor.end - cursor.chunk * ChunkSpan), cursor.end)
      \subseteq swept

(* The vendor is never asked for an inverted or over-long window, nor for  *)
(* one that begins before the store was connected.                         *)
WindowIsLegal ==
  run = "working" /\ result.kind = "none" /\ StreamChunkCount(Effective.end) > 0 =>
    LET bounds == ChunkBounds(Effective.end, Effective.chunk)
    IN  /\ Created <= bounds[1]
        /\ bounds[1] < bounds[2]
        /\ bounds[2] - bounds[1] <= ChunkSpan

=============================================================================

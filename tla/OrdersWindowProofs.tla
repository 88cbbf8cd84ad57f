------------------------- MODULE OrdersWindowProofs -------------------------
(***************************************************************************)
(* Proofs about the window of the orders sync, for every length of a day,  *)
(* a chunk, the overlap and the safety net.                                *)
(***************************************************************************)
EXTENDS OrdersWindow, TLAPS

(* Rounding up: the least number of pieces of length b that cover a.       *)
LEMMA CeilDivCovers ==
  ASSUME NEW a \in Int, NEW b \in Nat \ {0}
  PROVE  /\ CeilDiv(a, b) \in Int
         /\ CeilDiv(a, b) * b >= a
         /\ (CeilDiv(a, b) - 1) * b < a
<1>1. (a + b - 1) \div b \in Int
  OBVIOUS
<1>2. ((a + b - 1) \div b) * b <= a + b - 1
  BY SMTT(30)
<1>3. a + b - 1 < ((a + b - 1) \div b) * b + b
  BY SMTT(30)
<1>4. \A q \in Int : (q - 1) * b = q * b - b
  OBVIOUS
<1> QED
  BY <1>1, <1>2, <1>3, <1>4 DEF CeilDiv

LEMMA TimesIsMonotone ==
  ASSUME NEW a \in Int, NEW b \in Int, NEW n \in Nat, a >= b
  PROVE  a * n >= b * n
<1>1. (a - b) * n >= 0
  OBVIOUS
<1>2. (a - b) * n = a * n - b * n
  OBVIOUS
<1>3. a * n \in Int /\ b * n \in Int
  OBVIOUS
<1> QED
  BY <1>1, <1>2, <1>3

LEMMA ChunkSpanPositive == ChunkSpan \in Nat \ {0}
<1>1. Day >= 1 /\ ChunkDays >= 1 /\ Day \in Nat /\ ChunkDays \in Nat
  BY SpansAssumption
<1>2. ChunkDays * Day >= 1 * Day
  BY <1>1, TimesIsMonotone
<1> QED
  BY <1>1, <1>2 DEF ChunkSpan

LEMMA BackfillType ==
  /\ Backfill \in Nat
  /\ BackfillDays # 0 => Backfill > 0
<1>1. Backfill \in Nat
  BY SpansAssumption DEF Backfill
<1>2. ASSUME BackfillDays # 0 PROVE Backfill >= 1 * Day
  BY <1>2, TimesIsMonotone, SpansAssumption DEF Backfill
<1> QED
  BY <1>1, <1>2, SpansAssumption

(* Cutoffs are instants, never before the store was connected.             *)
LEMMA CutoffIsAnInstant ==
  ASSUME NEW end \in Nat, completed \in Nat \cup {Never}
  PROVE  Cutoff(end) \in Nat /\ Created <= Cutoff(end)
BY SpansAssumption, BackfillType DEF Cutoff, OrdersCutoff, DeltaCutoff, Larger, Smaller, Never

(* The chunk count of a run is a number of chunks.                         *)
LEMMA ChunkCountIsANumber ==
  ASSUME NEW end \in Nat, completed \in Nat \cup {Never}
  PROVE  StreamChunkCount(end) \in Int
<1> DEFINE spanDays == CeilDiv(end - Cutoff(end), Day)
<1>1. Cutoff(end) \in Int
  BY CutoffIsAnInstant
<1>2. spanDays \in Int
  BY <1>1, CeilDivCovers, SpansAssumption
<1>3. CeilDiv(spanDays, ChunkDays) \in Int
  BY <1>2, CeilDivCovers, SpansAssumption
<1> QED
  BY <1>2, <1>3 DEF StreamChunkCount

(* The last chunk reaches down to the cutoff: a run that stops after it    *)
(* has walked over its whole window.                                       *)
LEMMA LastChunkReachesCutoff ==
  ASSUME NEW end \in Nat, NEW chunk \in Nat, completed \in Nat \cup {Never},
         chunk >= StreamChunkCount(end) - 1
  PROVE  end - (chunk + 1) * ChunkSpan <= Cutoff(end)
<1> DEFINE span     == end - Cutoff(end)
           spanDays == CeilDiv(span, Day)
           count    == CeilDiv(spanDays, ChunkDays)
<1>1. Cutoff(end) \in Int /\ span \in Int
  BY CutoffIsAnInstant
<1>2. spanDays \in Int /\ spanDays * Day >= span
  BY <1>1, CeilDivCovers, SpansAssumption
<1>3. count \in Int /\ count * ChunkDays >= spanDays
  BY <1>2, CeilDivCovers, SpansAssumption
<1>4. (chunk + 1) * ChunkDays >= spanDays
  <2>1. CASE spanDays <= 0
    <3>1. (chunk + 1) * ChunkDays >= 0
      BY SpansAssumption
    <3>2. (chunk + 1) * ChunkDays \in Int
      BY SpansAssumption
    <3> QED
      BY <2>1, <3>1, <3>2, <1>2
  <2>2. CASE ~(spanDays <= 0)
    <3>1. StreamChunkCount(end) = count
      BY <2>2 DEF StreamChunkCount
    <3>2. chunk + 1 >= count
      BY <3>1, <1>3
    <3>3. (chunk + 1) * ChunkDays >= count * ChunkDays
      BY <3>2, <1>3, TimesIsMonotone, SpansAssumption
    <3>4. (chunk + 1) * ChunkDays \in Int /\ count * ChunkDays \in Int
      BY <1>3, SpansAssumption
    <3> QED
      BY <3>3, <3>4, <1>3, <1>2
  <2> QED
    BY <2>1, <2>2
<1>5. (chunk + 1) * ChunkDays \in Int
  BY SpansAssumption
<1>6. ((chunk + 1) * ChunkDays) * Day >= spanDays * Day
  BY <1>4, <1>5, <1>2, TimesIsMonotone, SpansAssumption
<1>7. (chunk + 1) * ChunkSpan = ((chunk + 1) * ChunkDays) * Day
  BY SpansAssumption DEF ChunkSpan
<1>8. (chunk + 1) * ChunkSpan \in Int /\ spanDays * Day \in Int
  BY ChunkSpanPositive, <1>2, SpansAssumption
<1>9. (chunk + 1) * ChunkSpan >= span
  BY <1>6, <1>7, <1>8, <1>2, <1>1
<1> QED
  BY <1>9, <1>8, <1>1

(* A chunk below the count begins above the cutoff: its window is open.    *)
LEMMA ChunkIsOpen ==
  ASSUME NEW end \in Nat, NEW chunk \in Nat, completed \in Nat \cup {Never},
         chunk < StreamChunkCount(end)
  PROVE  end - chunk * ChunkSpan > Cutoff(end)
<1> DEFINE span     == end - Cutoff(end)
           spanDays == CeilDiv(span, Day)
           count    == CeilDiv(spanDays, ChunkDays)
<1>1. Cutoff(end) \in Int /\ span \in Int
  BY CutoffIsAnInstant
<1>2. spanDays \in Int /\ (spanDays - 1) * Day < span
  BY <1>1, CeilDivCovers, SpansAssumption
<1>3. count \in Int /\ (count - 1) * ChunkDays < spanDays
  BY <1>2, CeilDivCovers, SpansAssumption
<1>4. StreamChunkCount(end) = count
  <2>1. StreamChunkCount(end) # 0
    OBVIOUS
  <2> QED
    BY <2>1 DEF StreamChunkCount
<1>5. chunk * ChunkDays <= (count - 1) * ChunkDays
  <2>1. count - 1 >= chunk
    BY <1>3, <1>4
  <2> QED
    BY <2>1, <1>3, TimesIsMonotone, SpansAssumption
<1>6. chunk * ChunkDays \in Int /\ (count - 1) * ChunkDays \in Int
  BY <1>3, SpansAssumption
<1>7. spanDays - 1 >= chunk * ChunkDays
  BY <1>5, <1>6, <1>3, <1>2
<1>8. (spanDays - 1) * Day >= (chunk * ChunkDays) * Day
  BY <1>7, <1>6, <1>2, TimesIsMonotone, SpansAssumption
<1>9. chunk * ChunkSpan = (chunk * ChunkDays) * Day
  BY SpansAssumption DEF ChunkSpan
<1>10. chunk * ChunkSpan \in Int /\ (spanDays - 1) * Day \in Int
  BY ChunkSpanPositive, <1>2, SpansAssumption
<1>11. chunk * ChunkSpan < span
  BY <1>8, <1>9, <1>10, <1>2, <1>1
<1> QED
  BY <1>11, <1>10, <1>1

-----------------------------------------------------------------------------
(* What has been swept when a run stands at a chunk: everything from there *)
(* up to the end of its window.                                            *)
Down(c) == Slots(Larger(Cutoff(c.end), c.end - c.chunk * ChunkSpan), c.end)

Within(end) == end <= now /\ now <= end + MaxRunTime

CursorIsOpen ==
  cursor.kind = "stream" =>
    run # "none" /\ Within(cursor.end) /\ cursor.chunk < StreamChunkCount(cursor.end)

ResultIsOfTheRun ==
  result.kind # "none" =>
    /\ run = "working"
    /\ Within(result.cursor.end)
    /\ cursor.kind = "stream" => result.cursor.end = cursor.end

ContinueIsSwept ==
  result.kind = "continue" =>
    /\ result.cursor.kind = "stream"
    /\ result.cursor.chunk < StreamChunkCount(result.cursor.end)
    /\ Down(result.cursor) \subseteq swept

DoneIsSwept ==
  result.kind = "done" =>
    Slots(Cutoff(result.cursor.end), result.cursor.end) \subseteq swept

GapsAreLate ==
  /\ OnlyLateRunsLeaveGaps
  /\ completed # Never => Slots(coveredTo, completed - Overlap) \subseteq late

(* The inductive invariant.  OnlyLateRunsLeaveGaps alone is not one: it    *)
(* needs that the run at hand has swept what its cursor has passed, and    *)
(* that whatever the next cutoff, which is taken from the completion time, *)
(* passes over has been called late.                                       *)
Inv ==
  /\ TypeOK
  /\ CursorIsSwept
  /\ CursorIsOpen
  /\ ResultIsOfTheRun
  /\ ContinueIsSwept
  /\ DoneIsSwept
  /\ GapsAreLate

LEMMA InitInv == Init => Inv
<1> SUFFICES ASSUME Init PROVE Inv
  OBVIOUS
<1>1. TypeOK
  BY SpansAssumption DEF Init, TypeOK, Fresh, Pending, Cursor, Result, Never
<1>2. Slots(Created, Created) = {}
  BY SpansAssumption DEF Slots
<1>3. GapsAreLate
  BY <1>2 DEF Init, Owed, GapsAreLate, OnlyLateRunsLeaveGaps
<1> QED
  BY <1>1, <1>3 DEF Init, Inv, Fresh, Pending, CursorIsSwept, CursorIsOpen, ResultIsOfTheRun,
     ContinueIsSwept, DoneIsSwept

(* The cursor a chunk works with stands inside the window, above what was  *)
(* swept.                                                                  *)
LEMMA EffectiveCursor ==
  ASSUME Inv, run = "working", result.kind = "none"
  PROVE  /\ Effective \in Cursor
         /\ Effective.kind = "stream"
         /\ Within(Effective.end)
         /\ cursor.kind = "stream" => Effective = cursor
         /\ StreamChunkCount(Effective.end) > 0 => Effective.chunk < StreamChunkCount(Effective.end)
         /\ Down(Effective) \subseteq swept
<1>1. CASE cursor.kind = "none"
  <2>1. Effective = Stream(now, 0, 0)
    BY <1>1 DEF Effective
  <2>2. /\ Effective = [kind |-> "stream", end |-> now, chunk |-> 0, page |-> 0]
        /\ now \in Nat
    BY <2>1 DEF Stream, Inv, TypeOK
  <2>3. Effective \in Cursor
    BY <2>2 DEF Cursor
  <2>4. /\ Effective.kind = "stream" /\ Effective.end = now /\ Effective.chunk = 0
    BY <2>2
  <2>5. Within(Effective.end)
    BY <2>2, <2>4, BoundsAssumption DEF Within
  <2>6. 0 * ChunkSpan = 0 /\ now - 0 = now
    BY <2>2, ChunkSpanPositive
  <2>7. Down(Effective) = Slots(Larger(Cutoff(now), now), now)
    BY <2>4, <2>6 DEF Down
  <2>8. Cutoff(now) \in Nat
    BY <2>2, CutoffIsAnInstant DEF Inv, TypeOK
  <2>9. Down(Effective) = {}
    BY <2>7, <2>8, <2>2 DEF Slots, Larger
  <2> QED
    BY <2>3, <2>4, <2>5, <2>9, <1>1
<1>2. CASE cursor.kind = "stream"
  <2>1. Effective = cursor
    BY <1>2 DEF Effective
  <2>2. cursor \in Cursor
    BY DEF Inv, TypeOK
  <2>3. Down(cursor) \subseteq swept
    BY <1>2 DEF Inv, CursorIsSwept, Down
  <2> QED
    BY <1>2, <2>1, <2>2, <2>3 DEF Inv, CursorIsOpen
<1> QED
  BY <1>1, <1>2 DEF Inv, TypeOK, Cursor

(* One more chunk is swept.                                                *)
LEMMA NextChunkIsDown ==
  ASSUME NEW end \in Nat, NEW chunk \in Nat, completed \in Nat \cup {Never}
  PROVE  Slots(Larger(Cutoff(end), end - (chunk + 1) * ChunkSpan), end)
           \subseteq Slots(Larger(Cutoff(end), end - chunk * ChunkSpan), end)
                       \cup Slots(ChunkBounds(end, chunk)[1], ChunkBounds(end, chunk)[2])
<1> DEFINE from == end - chunk * ChunkSpan
<1>1. Cutoff(end) \in Int
  BY CutoffIsAnInstant
<1>2. from \in Int /\ chunk * ChunkSpan \in Int
  BY ChunkSpanPositive
<1>3. (chunk + 1) * ChunkSpan = chunk * ChunkSpan + ChunkSpan
  BY ChunkSpanPositive
<1>4. end - (chunk + 1) * ChunkSpan = from - ChunkSpan
  BY <1>2, <1>3, ChunkSpanPositive
<1>5. ChunkBounds(end, chunk) = <<Larger(from - ChunkSpan, Cutoff(end)), from>>
  BY DEF ChunkBounds
<1>6. ASSUME NEW cs \in Int, ChunkSpan = cs
      PROVE  Slots(Larger(Cutoff(end), from - cs), end)
               \subseteq Slots(Larger(Cutoff(end), from), end)
                           \cup Slots(Larger(from - cs, Cutoff(end)), from)
  <2> HIDE DEF from
  <2> QED
    BY <1>1, <1>2 DEF Slots, Larger
<1> QED
  BY <1>4, <1>5, <1>6, ChunkSpanPositive

-----------------------------------------------------------------------------
(* As long as no run completes, cutoffs and chunk counts stay the same.    *)
LEMMA SameCutoffs ==
  ASSUME UNCHANGED completed
  PROVE  /\ \A end \in Nat : Cutoff(end)' = Cutoff(end)
         /\ \A end \in Nat : StreamChunkCount(end)' = StreamChunkCount(end)
BY DEF Cutoff, DeltaCutoff, OrdersCutoff, Backfill, StreamChunkCount

LEMMA EmptyWindow ==
  ASSUME NEW end \in Nat, completed \in Nat \cup {Never}, StreamChunkCount(end) = 0
  PROVE  end <= Cutoff(end)
<1> DEFINE span     == end - Cutoff(end)
           spanDays == CeilDiv(span, Day)
           count    == CeilDiv(spanDays, ChunkDays)
<1>1. Cutoff(end) \in Int /\ span \in Int
  BY CutoffIsAnInstant
<1>2. spanDays \in Int /\ spanDays * Day >= span
  BY <1>1, CeilDivCovers, SpansAssumption
<1>3. count \in Int /\ count * ChunkDays >= spanDays
  BY <1>2, CeilDivCovers, SpansAssumption
<1>4. spanDays <= 0
  <2>1. CASE count = 0
    <3>1. count * ChunkDays = 0
      BY <2>1, SpansAssumption
    <3> QED
      BY <3>1, <1>3
  <2>2. CASE count # 0
    BY <2>2, <1>2 DEF StreamChunkCount
  <2> QED
    BY <2>1, <2>2
<1>5. 0 >= spanDays * Day
  <2>1. 0 * Day >= spanDays * Day
    BY <1>4, <1>2, TimesIsMonotone, SpansAssumption
  <2>2. 0 * Day = 0
    BY SpansAssumption
  <2> QED
    BY <2>1, <2>2
<1>6. spanDays * Day \in Int
  BY <1>2, SpansAssumption
<1> QED
  BY <1>1, <1>2, <1>5, <1>6

LEMMA NoCursorTypes == Fresh \in Cursor /\ Pending \in Result
<1>1. Fresh \in Cursor
  BY DEF Fresh, Cursor
<1>2. Pending \in Result
  BY <1>1 DEF Pending, Result
<1> QED
  BY <1>1, <1>2

(* Steps that write neither the completion nor what was swept keep all     *)
(* that is said of a cursor they leave alone or throw away.                *)
LEMMA KeepsCursor ==
  ASSUME Inv, UNCHANGED <<now, completed, swept>>,
         (cursor' = cursor /\ (run # "none" => run' # "none")) \/ cursor' = Fresh
  PROVE  CursorIsSwept' /\ CursorIsOpen'
<1>1. CASE cursor' = Fresh
  BY <1>1 DEF Fresh, CursorIsSwept, CursorIsOpen
<1>2. CASE cursor' = cursor /\ (run # "none" => run' # "none")
  <2>1. cursor.end \in Nat
    BY DEF Inv, TypeOK, Cursor
  <2>2. CursorIsSwept'
    BY <1>2, <2>1, SameCutoffs DEF Inv, CursorIsSwept, Slots
  <2>3. CursorIsOpen'
    BY <1>2, <2>1, SameCutoffs DEF Inv, CursorIsOpen, Within
  <2> QED
    BY <2>2, <2>3
<1> QED
  BY <1>1, <1>2

LEMMA TimePasses ==
  ASSUME Inv, Passes
  PROVE  Inv'
<1> USE DEF Passes
<1>1. TypeOK'
  BY DEF Inv, TypeOK
<1>2. cursor.end \in Nat /\ result.cursor \in Cursor /\ result.cursor.end \in Nat
  BY DEF Inv, TypeOK, Cursor, Result
<1>3. CursorIsSwept' /\ GapsAreLate'
  BY <1>2, SameCutoffs DEF Inv, CursorIsSwept, Slots, Owed, Backfill, OnlyLateRunsLeaveGaps, GapsAreLate
<1>4. ASSUME cursor.kind = "stream"
      PROVE  now < cursor.end + MaxRunTime
  <2>1. run # "none"
    BY <1>4 DEF Inv, CursorIsOpen
  <2>2. cursor.end \in Window
    BY <2>1, <1>4 DEF Window, Inv, ResultIsOfTheRun
  <2> QED
    BY <2>2
<1>5. ASSUME result.kind # "none"
      PROVE  now < result.cursor.end + MaxRunTime
  <2>1. result.cursor.end \in Window
    BY <1>5 DEF Window, Inv, ResultIsOfTheRun
  <2> QED
    BY <2>1
<1>6. now \in Nat /\ MaxRunTime \in Nat
  BY BoundsAssumption DEF Inv, TypeOK
<1>7. CursorIsOpen'
  BY <1>2, <1>4, <1>6, SameCutoffs DEF Inv, CursorIsOpen, Within
<1>8. ResultIsOfTheRun'
  BY <1>2, <1>5, <1>6 DEF Inv, ResultIsOfTheRun, Within
<1>9. ContinueIsSwept' /\ DoneIsSwept'
  BY <1>2, SameCutoffs DEF Inv, ContinueIsSwept, DoneIsSwept, Down, Slots
<1> QED
  BY <1>1, <1>3, <1>7, <1>8, <1>9 DEF Inv

(* Enqueue, Claim, Interrupt and Fail: the result, if any, is thrown away. *)
LEMMA RunChanges ==
  ASSUME Inv, Enqueue \/ Claim \/ Interrupt \/ Fail
  PROVE  Inv'
<1> USE DEF Enqueue, Claim, Interrupt, Fail
<1>1. TypeOK'
  BY NoCursorTypes DEF Inv, TypeOK
<1>2. UNCHANGED <<now, completed, swept, coveredTo, late, firstEnd>>
  OBVIOUS
<1>3. GapsAreLate'
  BY <1>2 DEF Inv, Owed, Backfill, OnlyLateRunsLeaveGaps, Slots, GapsAreLate
<1>4. (cursor' = cursor /\ (run # "none" => run' # "none")) \/ cursor' = Fresh
  OBVIOUS
<1>5. CursorIsSwept' /\ CursorIsOpen'
  BY <1>2, <1>4, KeepsCursor
<1>6. result'.kind = "none"
  <2>1. result' = Pending \/ (result' = result /\ run # "working")
    OBVIOUS
  <2> QED
    BY <2>1 DEF Pending, Inv, ResultIsOfTheRun
<1>7. ResultIsOfTheRun' /\ ContinueIsSwept' /\ DoneIsSwept'
  BY <1>6 DEF ResultIsOfTheRun, ContinueIsSwept, DoneIsSwept
<1> QED
  BY <1>1, <1>3, <1>5, <1>7 DEF Inv

LEMMA EmptyWindowIsSkipped ==
  ASSUME Inv, SkipEmptyWindow
  PROVE  Inv'
<1> DEFINE c == Effective
<1>1. /\ run = "working" /\ result.kind = "none"
      /\ StreamChunkCount(c.end) = 0
      /\ result' = AdvanceChunkOrFinish(c)
      /\ UNCHANGED <<now, run, cursor, completed, swept, coveredTo, late, firstEnd>>
  BY DEF SkipEmptyWindow
<1>2. /\ c \in Cursor /\ c.kind = "stream" /\ Within(c.end)
      /\ cursor.kind = "stream" => c = cursor
  BY <1>1, EffectiveCursor
<1> HIDE DEF c
<1>3. c.end \in Nat /\ c.chunk \in Nat
  BY <1>2 DEF Cursor
<1>4. result' = [kind |-> "done", cursor |-> c]
  BY <1>1, <1>3 DEF AdvanceChunkOrFinish
<1>5. result' \in Result /\ result'.kind = "done" /\ result'.cursor = c
  BY <1>4, <1>2 DEF Result
<1>6. c.end <= Cutoff(c.end) /\ Cutoff(c.end) \in Int
  BY <1>1, <1>3, EmptyWindow, CutoffIsAnInstant DEF Inv, TypeOK
<1>7. Slots(Cutoff(c.end), c.end) = {}
  BY <1>6, <1>3 DEF Slots
<1>8. DoneIsSwept'
  BY <1>1, <1>3, <1>5, <1>7, SameCutoffs DEF DoneIsSwept, Slots
<1>9. ContinueIsSwept'
  BY <1>5 DEF ContinueIsSwept
<1>10. ResultIsOfTheRun'
  BY <1>1, <1>2, <1>5 DEF ResultIsOfTheRun, Within
<1>11. CursorIsSwept' /\ CursorIsOpen'
  BY <1>1, KeepsCursor
<1>12. TypeOK' /\ GapsAreLate'
  BY <1>1, <1>5 DEF Inv, TypeOK, Owed, Backfill, OnlyLateRunsLeaveGaps, Slots, GapsAreLate
<1> QED
  BY <1>8, <1>9, <1>10, <1>11, <1>12 DEF Inv

LEMMA PageIsFetched ==
  ASSUME Inv, FetchPage
  PROVE  Inv'
<1> DEFINE c == Effective
           d == [c EXCEPT !.page = c.page + 1]
<1>1. /\ run = "working" /\ result.kind = "none"
      /\ StreamChunkCount(c.end) > 0
      /\ result' = [kind |-> "continue", cursor |-> d]
      /\ UNCHANGED <<now, run, cursor, completed, swept, coveredTo, late, firstEnd>>
  BY DEF FetchPage
<1>2. /\ c \in Cursor /\ c.kind = "stream" /\ Within(c.end)
      /\ cursor.kind = "stream" => c = cursor
      /\ c.chunk < StreamChunkCount(c.end)
      /\ Down(c) \subseteq swept
  BY <1>1, EffectiveCursor
<1> HIDE DEF c
<1>3. /\ d \in Cursor /\ d.kind = "stream" /\ d.end = c.end /\ d.chunk = c.chunk
      /\ c.end \in Nat /\ c.chunk \in Nat
  BY <1>2 DEF Cursor
<1> HIDE DEF d
<1>4. result' \in Result /\ result'.kind = "continue" /\ result'.cursor = d
  BY <1>1, <1>3 DEF Result
<1>5. ContinueIsSwept'
  <2>1. Down(d) = Down(c)
    BY <1>3 DEF Down
  <2>2. d.chunk < StreamChunkCount(d.end) /\ Down(d) \subseteq swept
    BY <2>1, <1>2, <1>3
  <2> QED
    BY <1>1, <1>3, <1>4, <2>2, SameCutoffs DEF ContinueIsSwept, Down, Slots
<1>6. DoneIsSwept'
  BY <1>4 DEF DoneIsSwept
<1>7. ResultIsOfTheRun'
  BY <1>1, <1>2, <1>3, <1>4 DEF ResultIsOfTheRun, Within
<1>8. CursorIsSwept' /\ CursorIsOpen'
  BY <1>1, KeepsCursor
<1>9. TypeOK' /\ GapsAreLate'
  BY <1>1, <1>4 DEF Inv, TypeOK, Owed, Backfill, OnlyLateRunsLeaveGaps, Slots, GapsAreLate
<1> QED
  BY <1>5, <1>6, <1>7, <1>8, <1>9 DEF Inv

LEMMA CursorIsPersisted ==
  ASSUME Inv, Tick
  PROVE  Inv'
<1>1. /\ run = "working" /\ result.kind = "continue"
      /\ cursor' = result.cursor /\ result' = Pending
      /\ UNCHANGED <<now, run, completed, swept, coveredTo, late, firstEnd>>
  BY DEF Tick
<1>2. result.cursor \in Cursor /\ result.cursor.end \in Nat
  BY DEF Inv, TypeOK, Result, Cursor
<1>3. CursorIsSwept'
  BY <1>1, <1>2, SameCutoffs DEF Inv, ContinueIsSwept, CursorIsSwept, Down, Slots
<1>4. CursorIsOpen'
  BY <1>1, <1>2, SameCutoffs DEF Inv, ContinueIsSwept, ResultIsOfTheRun, CursorIsOpen, Within
<1>5. ResultIsOfTheRun' /\ ContinueIsSwept' /\ DoneIsSwept'
  BY <1>1 DEF Pending, ResultIsOfTheRun, ContinueIsSwept, DoneIsSwept
<1>6. TypeOK' /\ GapsAreLate'
  BY <1>1, <1>2, NoCursorTypes DEF Inv, TypeOK, Owed, Backfill, OnlyLateRunsLeaveGaps, Slots, GapsAreLate
<1> QED
  BY <1>3, <1>4, <1>5, <1>6 DEF Inv

LEMMA LastPageIsFetched ==
  ASSUME Inv, FetchLastPage
  PROVE  Inv'
<1> DEFINE c == Effective
           b == ChunkBounds(c.end, c.chunk)
<1>1. /\ run = "working" /\ result.kind = "none"
      /\ StreamChunkCount(c.end) > 0
      /\ swept' = swept \cup Slots(b[1], b[2])
      /\ result' = AdvanceChunkOrFinish(c)
      /\ UNCHANGED <<now, run, cursor, completed, coveredTo, late, firstEnd>>
  BY DEF FetchLastPage
<1>2. /\ c \in Cursor /\ c.kind = "stream" /\ Within(c.end)
      /\ cursor.kind = "stream" => c = cursor
      /\ c.chunk < StreamChunkCount(c.end)
      /\ Down(c) \subseteq swept
  BY <1>1, EffectiveCursor
<1> HIDE DEF c
<1>3. /\ c.end \in Nat /\ c.chunk \in Nat
      /\ completed \in Nat \cup {Never}
      /\ StreamChunkCount(c.end) \in Int
      /\ Cutoff(c.end) \in Int
  BY <1>2, ChunkCountIsANumber, CutoffIsAnInstant DEF Cursor, Inv, TypeOK
<1>4. Slots(Larger(Cutoff(c.end), c.end - (c.chunk + 1) * ChunkSpan), c.end) \subseteq swept'
  <2>1. Slots(Larger(Cutoff(c.end), c.end - c.chunk * ChunkSpan), c.end) \subseteq swept
    BY <1>2 DEF Down
  <2> QED
    BY <1>1, <1>3, <2>1, NextChunkIsDown
<1> HIDE DEF b
<1>5. \/ /\ result' = [kind |-> "done", cursor |-> c]
         /\ c.chunk >= StreamChunkCount(c.end) - 1
      \/ /\ result' = [kind |-> "continue", cursor |-> NextChunk(c)]
         /\ ~(c.chunk >= StreamChunkCount(c.end) - 1)
  BY <1>1 DEF AdvanceChunkOrFinish
<1>6. swept \subseteq swept' /\ swept' \subseteq Int
  <2>1. Slots(b[1], b[2]) \subseteq Int
    BY DEF Slots
  <2> QED
    BY <1>1, <2>1 DEF Inv, TypeOK
<1>7. CursorIsSwept' /\ CursorIsOpen'
  <2>1. cursor.end \in Nat
    BY DEF Inv, TypeOK, Cursor
  <2> QED
    BY <1>1, <1>6, <2>1, SameCutoffs DEF Inv, CursorIsSwept, CursorIsOpen, Within, Slots
<1>8. GapsAreLate'
  BY <1>1, <1>6 DEF Inv, Owed, Backfill, OnlyLateRunsLeaveGaps, Slots, GapsAreLate
<1>9. CASE /\ result' = [kind |-> "done", cursor |-> c]
           /\ c.chunk >= StreamChunkCount(c.end) - 1
  <2>1. result' \in Result /\ result'.kind = "done" /\ result'.cursor = c
    BY <1>9, <1>2 DEF Result
  <2>2. c.end - (c.chunk + 1) * ChunkSpan <= Cutoff(c.end)
    BY <1>3, <1>9, LastChunkReachesCutoff
  <2>3. c.end - (c.chunk + 1) * ChunkSpan \in Int
    BY <1>3, ChunkSpanPositive
  <2>4. Larger(Cutoff(c.end), c.end - (c.chunk + 1) * ChunkSpan) = Cutoff(c.end)
    BY <2>2, <2>3, <1>3 DEF Larger
  <2>5. Slots(Cutoff(c.end), c.end) \subseteq swept'
    BY <2>4, <1>4
  <2>6. DoneIsSwept'
    BY <1>1, <1>3, <2>1, <2>5, SameCutoffs DEF DoneIsSwept, Slots
  <2>7. ContinueIsSwept'
    BY <2>1 DEF ContinueIsSwept
  <2>8. ResultIsOfTheRun'
    BY <1>1, <1>2, <2>1 DEF ResultIsOfTheRun, Within
  <2>9. TypeOK'
    BY <1>1, <1>6, <2>1 DEF Inv, TypeOK
  <2> QED
    BY <1>7, <1>8, <2>6, <2>7, <2>8, <2>9 DEF Inv
<1>10. CASE /\ result' = [kind |-> "continue", cursor |-> NextChunk(c)]
            /\ ~(c.chunk >= StreamChunkCount(c.end) - 1)
  <2> DEFINE d == NextChunk(c)
  <2>1. /\ d \in Cursor /\ d.kind = "stream"
        /\ d.end = c.end /\ d.chunk = c.chunk + 1
    BY <1>2, <1>3 DEF NextChunk, Stream, Cursor
  <2> HIDE DEF d
  <2>2. result' \in Result /\ result'.kind = "continue" /\ result'.cursor = d
    BY <1>10, <2>1 DEF Result, d
  <2>3. d.chunk < StreamChunkCount(d.end)
    BY <1>10, <1>3, <2>1
  <2>4. Down(d) \subseteq swept'
    BY <1>4, <2>1 DEF Down
  <2>5. ContinueIsSwept'
    BY <1>1, <1>3, <2>1, <2>2, <2>3, <2>4, SameCutoffs DEF ContinueIsSwept, Down, Slots
  <2>6. DoneIsSwept'
    BY <2>2 DEF DoneIsSwept
  <2>7. ResultIsOfTheRun'
    BY <1>1, <1>2, <2>1, <2>2 DEF ResultIsOfTheRun, Within
  <2>8. TypeOK'
    BY <1>1, <1>6, <2>2 DEF Inv, TypeOK
  <2> QED
    BY <1>7, <1>8, <2>5, <2>6, <2>7, <2>8 DEF Inv
<1> QED
  BY <1>5, <1>9, <1>10

(* The completed run reaches back to the completion time of the one before *)
(* it, less the overlap; what lies between that and the end of the former  *)
(* window was called late when the former one completed.                   *)
LEMMA RunCompletes ==
  ASSUME Inv, Complete
  PROVE  Inv'
<1> DEFINE end == result.cursor.end
<1>1. /\ run = "working" /\ result.kind = "done"
      /\ run' = "none" /\ cursor' = Fresh /\ result' = Pending
      /\ completed' = now /\ coveredTo' = end
      /\ late' = late \cup Slots(end, now - Overlap)
      /\ firstEnd' = IF completed = Never THEN end ELSE firstEnd
      /\ UNCHANGED <<now, swept>>
  BY DEF Complete
<1>2. /\ end \in Nat /\ now \in Nat /\ coveredTo \in Nat /\ firstEnd \in Nat
      /\ completed \in Nat \cup {Never} /\ late \subseteq Int
  BY DEF Inv, TypeOK, Result, Cursor
<1>3. /\ Slots(Created, coveredTo) = Created .. (coveredTo - 1)
      /\ Created \in Nat /\ Overlap \in Nat /\ SafetyNet \in Nat /\ Backfill \in Nat
      /\ BackfillDays \in Nat
  BY SpansAssumption, BackfillType DEF Slots
<1>4. Slots(Cutoff(end), end) \subseteq swept /\ Cutoff(end) \in Nat
  BY <1>1, <1>2, CutoffIsAnInstant DEF Inv, DoneIsSwept
<1> HIDE DEF end
<1>5. ASSUME NEW t \in Int, Created <= t, t < end,
             BackfillDays = 0 \/ t >= firstEnd' - Backfill
      PROVE  t \in swept \cup late
  <2>1. CASE t >= Cutoff(end)
    <3>1. t \in Slots(Cutoff(end), end)
      BY <1>2, <1>4, <1>5, <2>1 DEF Slots
    <3> QED
      BY <3>1, <1>4
  <2>2. CASE t < Cutoff(end) /\ completed = Never
    BY <1>1, <1>2, <1>3, <1>5, <2>2 DEF Cutoff, OrdersCutoff, Larger
  <2>3. CASE t < Cutoff(end) /\ completed # Never
    <3>1. t < completed - Overlap
      BY <1>2, <1>3, <1>5, <2>3 DEF Cutoff, DeltaCutoff, Larger, Smaller
    <3>2. CASE t < coveredTo
      <4>1. t \in Owed
        BY <1>1, <1>2, <1>3, <1>5, <2>3, <3>2 DEF Owed
      <4> QED
        BY <4>1 DEF Inv, GapsAreLate, OnlyLateRunsLeaveGaps
    <3>3. CASE t >= coveredTo
      <4>1. t \in Slots(coveredTo, completed - Overlap)
        BY <1>2, <1>3, <1>5, <2>3, <3>1, <3>3 DEF Slots
      <4> QED
        BY <4>1, <2>3 DEF Inv, GapsAreLate
    <3> QED
      BY <1>2, <1>5, <3>2, <3>3
  <2> QED
    BY <1>4, <1>5, <2>1, <2>2, <2>3
<1>6. GapsAreLate'
  <2>1. ASSUME NEW t \in Owed' PROVE t \in swept' \cup late'
    <3>1. /\ t \in Slots(Created, end)
          /\ BackfillDays = 0 \/ t >= firstEnd' - Backfill
      BY <1>1, <2>1 DEF Owed, Slots, Backfill
    <3>2. t \in Int /\ Created <= t /\ t < end
      BY <1>2, <1>3, <3>1 DEF Slots
    <3> QED
      BY <1>1, <1>5, <3>1, <3>2
  <2>2. Slots(coveredTo', completed' - Overlap) \subseteq late'
    BY <1>1
  <2> QED
    BY <2>1, <2>2 DEF GapsAreLate, OnlyLateRunsLeaveGaps, Slots
<1>7. TypeOK'
  <2>1. Slots(end, now - Overlap) \subseteq Int
    BY <1>2, <1>3 DEF Slots
  <2> QED
    BY <1>1, <1>2, <2>1, NoCursorTypes DEF Inv, TypeOK
<1>8. CursorIsSwept' /\ CursorIsOpen' /\ ResultIsOfTheRun' /\ ContinueIsSwept' /\ DoneIsSwept'
  BY <1>1 DEF Fresh, Pending, CursorIsSwept, CursorIsOpen, ResultIsOfTheRun,
     ContinueIsSwept, DoneIsSwept
<1> QED
  BY <1>6, <1>7, <1>8 DEF Inv

LEMMA StepInv == Inv /\ [Next]_vars => Inv'
<1> SUFFICES ASSUME Inv, [Next]_vars
             PROVE  Inv'
  OBVIOUS
<1>1. CASE UNCHANGED vars
  BY <1>1 DEF vars, Inv, TypeOK, Owed, CursorIsSwept, CursorIsOpen, ResultIsOfTheRun,
     ContinueIsSwept, DoneIsSwept, GapsAreLate, OnlyLateRunsLeaveGaps, Within, Down, Slots, Cutoff,
     OrdersCutoff, DeltaCutoff, Backfill, StreamChunkCount
<1>2. CASE Enqueue \/ Claim \/ Interrupt \/ Fail
  BY <1>2, RunChanges
<1>3. CASE SkipEmptyWindow
  BY <1>3, EmptyWindowIsSkipped
<1>4. CASE FetchPage
  BY <1>4, PageIsFetched
<1>5. CASE FetchLastPage
  BY <1>5, LastPageIsFetched
<1>6. CASE Tick
  BY <1>6, CursorIsPersisted
<1>7. CASE Complete
  BY <1>7, RunCompletes
<1>8. CASE Passes
  BY <1>8, TimePasses
<1> QED
  BY <1>1, <1>2, <1>3, <1>4, <1>5, <1>6, <1>7, <1>8 DEF Next

LEMMA InvImpliesLegal == Inv => WindowIsLegal
<1> SUFFICES ASSUME Inv, run = "working", result.kind = "none",
                    StreamChunkCount(Effective.end) > 0
             PROVE  LET bounds == ChunkBounds(Effective.end, Effective.chunk)
                    IN  /\ Created <= bounds[1]
                        /\ bounds[1] < bounds[2]
                        /\ bounds[2] - bounds[1] <= ChunkSpan
  BY DEF WindowIsLegal
<1> DEFINE c  == Effective
           to == c.end - c.chunk * ChunkSpan
<1>1. c \in Cursor /\ c.chunk < StreamChunkCount(c.end)
  BY EffectiveCursor
<1>2. c.end \in Nat /\ c.chunk \in Nat /\ completed \in Nat \cup {Never}
  BY <1>1 DEF Cursor, Inv, TypeOK
<1>3. to > Cutoff(c.end)
  BY <1>1, <1>2, ChunkIsOpen
<1>4. Cutoff(c.end) \in Nat /\ Created <= Cutoff(c.end) /\ Created \in Nat
  BY <1>2, CutoffIsAnInstant, SpansAssumption
<1>5. to \in Int /\ ChunkSpan \in Nat \ {0}
  BY <1>2, ChunkSpanPositive
<1>6. ChunkBounds(c.end, c.chunk) = <<Larger(to - ChunkSpan, Cutoff(c.end)), to>>
  BY DEF ChunkBounds
<1> HIDE DEF to, c
<1>7. /\ Created <= Larger(to - ChunkSpan, Cutoff(c.end))
      /\ Larger(to - ChunkSpan, Cutoff(c.end)) < to
      /\ to - Larger(to - ChunkSpan, Cutoff(c.end)) <= ChunkSpan
  BY <1>3, <1>4, <1>5 DEF Larger
<1> QED
  BY <1>6, <1>7 DEF c

-----------------------------------------------------------------------------
LEMMA Invariance == Spec => []Inv
BY InitInv, StepInv, PTL DEF Spec

(* All variables keep their types.                                         *)
THEOREM TypeCorrect == Spec => []TypeOK
<1>1. Inv => TypeOK
  BY DEF Inv
<1> QED
  BY <1>1, Invariance, PTL

(* Resuming a run from its persisted cursor loses nothing, whenever it was *)
(* interrupted and however long ago.                                       *)
THEOREM ResumingLosesNothing == Spec => []CursorIsSwept
<1>1. Inv => CursorIsSwept
  BY DEF Inv
<1> QED
  BY <1>1, Invariance, PTL

(* The vendor is asked for legal windows only: open, no longer than the    *)
(* span it serves, and not before the store was connected.                 *)
THEOREM WindowsAreLegal == Spec => []WindowIsLegal
BY InvImpliesLegal, Invariance, PTL

(* However late runs are, completed runs leave no gap but where one of     *)
(* them was late: every instant they answer for was swept, or lies between *)
(* the end of a completed run's window and its completion less the         *)
(* overlap.                                                                *)
THEOREM CompletedRunsLeaveNoGap == Spec => []OnlyLateRunsLeaveGaps
<1>1. Inv => OnlyLateRunsLeaveGaps
  BY DEF Inv, GapsAreLate
<1> QED
  BY <1>1, Invariance, PTL

-----------------------------------------------------------------------------
(* When runs are late.                                                     *)
-----------------------------------------------------------------------------
(***************************************************************************)
(* A run that outlives the overlap moves the next cutoff past the end of   *)
(* its own window by at most its lateness, so what is left between them is *)
(* no longer than that.  The newest window ends with a swept slot, because *)
(* a safety net of zero is refused: it is where a gap that the next run    *)
(* leaves begins.                                                          *)
(***************************************************************************)
Lateness == Larger(MaxRunTime - Overlap, 0)

CompletedInTime == completed # Never => completed <= coveredTo + MaxRunTime

ShortGaps ==
  \A t \in Owed : t + Lateness < coveredTo =>
    \E u \in t .. t + Lateness : u \in swept

EndIsSwept == coveredTo > Created => coveredTo - 1 \in swept

LateInv == CompletedInTime /\ ShortGaps /\ EndIsSwept

LEMMA LateCutoff ==
  ASSUME Inv, LateInv, NEW end \in Nat, SafetyNet > 0
  PROVE  /\ Lateness \in Nat /\ Cutoff(end) \in Nat
         /\ completed = Never => Cutoff(end) = OrdersCutoff(end)
         /\ completed # Never => Cutoff(end) <= Larger(Created, coveredTo + Lateness)
         /\ end > Created => Cutoff(end) < end
<1>1. /\ MaxRunTime \in Nat /\ Overlap \in Nat /\ SafetyNet \in Nat /\ Created \in Nat
      /\ coveredTo \in Nat /\ completed \in Nat \cup {Never}
      /\ Backfill \in Nat /\ (BackfillDays # 0 => Backfill > 0)
      /\ Cutoff(end) \in Nat
  BY SpansAssumption, BoundsAssumption, BackfillType, CutoffIsAnInstant DEF Inv, TypeOK
<1>2. /\ Lateness \in Nat
      /\ MaxRunTime - Overlap <= Lateness
  BY <1>1 DEF Lateness, Larger
<1>3. CASE completed = Never
  BY <1>1, <1>2, <1>3 DEF Cutoff, OrdersCutoff, Larger
<1>4. CASE completed # Never
  <2>1. completed - Overlap <= coveredTo + Lateness
    BY <1>1, <1>2, <1>4 DEF LateInv, CompletedInTime
  <2>2. Cutoff(end) = Larger(Created, Smaller(completed - Overlap, end - SafetyNet))
    BY <1>4 DEF Cutoff, DeltaCutoff
  <2> QED
    BY <1>1, <1>2, <1>4, <2>1, <2>2 DEF Larger, Smaller
<1> QED
  BY <1>3, <1>4

LEMMA LateCompletion ==
  ASSUME Inv, LateInv, Complete, SafetyNet > 0
  PROVE  LateInv'
<1> DEFINE end == result.cursor.end
<1>1. /\ completed' = now /\ coveredTo' = end /\ swept' = swept
      /\ firstEnd' = IF completed = Never THEN end ELSE firstEnd
      /\ now <= end + MaxRunTime
      /\ Slots(Cutoff(end), end) \subseteq swept
  BY DEF Complete, Inv, ResultIsOfTheRun, DoneIsSwept, Within
<1>2. end \in Nat /\ coveredTo \in Nat /\ Created \in Nat /\ firstEnd \in Nat
  BY SpansAssumption DEF Inv, TypeOK, Result, Cursor
<1> HIDE DEF end
<1>3. /\ Lateness \in Nat /\ Cutoff(end) \in Nat
      /\ completed = Never => Cutoff(end) = OrdersCutoff(end)
      /\ completed # Never => Cutoff(end) <= Larger(Created, coveredTo + Lateness)
      /\ end > Created => Cutoff(end) < end
  BY <1>2, LateCutoff
<1>4. EndIsSwept'
  <2>1. end > Created => end - 1 \in Slots(Cutoff(end), end)
    BY <1>2, <1>3 DEF Slots
  <2> QED
    BY <1>1, <2>1 DEF EndIsSwept
<1>5. ASSUME NEW t \in Owed', t + Lateness < end
      PROVE  \E u \in t .. t + Lateness : u \in swept
  <2>1. /\ t \in Slots(Created, end)
        /\ BackfillDays = 0 \/ t >= firstEnd' - Backfill
        /\ Backfill \in Nat
    BY <1>1, <1>5, BackfillType DEF Owed, Slots, Backfill
  <2>2. t \in Int /\ Created <= t /\ t < end
    BY <1>2, <2>1 DEF Slots
  <2>3. CASE t + Lateness >= Cutoff(end)
    <3>1. t + Lateness \in Slots(Cutoff(end), end) /\ t + Lateness \in t .. t + Lateness
      BY <1>2, <1>3, <1>5, <2>2, <2>3 DEF Slots
    <3> QED
      BY <1>1, <3>1
  <2>4. CASE t + Lateness < Cutoff(end)
    <3>1. completed # Never
      BY <1>1, <1>2, <1>3, <2>1, <2>2, <2>4 DEF OrdersCutoff, Larger
    <3>2. t < coveredTo
      BY <1>2, <1>3, <2>2, <2>4, <3>1 DEF Larger
    <3>3. CASE t + Lateness < coveredTo
      <4>1. t \in Owed
        BY <1>1, <1>2, <2>1, <2>2, <3>1, <3>2 DEF Owed, Slots
      <4> QED
        BY <3>3, <4>1 DEF LateInv, ShortGaps
    <3>4. CASE t + Lateness >= coveredTo
      <4>1. coveredTo - 1 \in t .. t + Lateness
        BY <1>2, <1>3, <2>2, <3>2, <3>4
      <4>2. coveredTo - 1 \in swept
        BY <1>2, <2>2, <3>2 DEF LateInv, EndIsSwept
      <4> QED
        BY <4>1, <4>2
    <3> QED
      BY <1>2, <1>3, <2>2, <3>3, <3>4
  <2> QED
    BY <1>3, <2>2, <2>3, <2>4
<1>6. ShortGaps'
  <2>1. Lateness' = Lateness
    BY DEF Lateness, Larger
  <2> QED
    BY <1>1, <1>5, <2>1 DEF ShortGaps
<1>7. CompletedInTime'
  BY <1>1 DEF CompletedInTime
<1> QED
  BY <1>4, <1>6, <1>7 DEF LateInv

LEMMA LateStep ==
  ASSUME Inv, LateInv, [Next]_vars, SafetyNet > 0
  PROVE  LateInv'
<1>1. CASE Complete
  BY <1>1, LateCompletion
<1>2. CASE ~Complete
  <2>1. UNCHANGED <<completed, coveredTo, firstEnd>> /\ swept \subseteq swept'
    BY <1>2 DEF Next, vars, Enqueue, Claim, SkipEmptyWindow, FetchPage, FetchLastPage, Tick,
       Interrupt, Fail, Passes
  <2>2. Lateness' = Lateness
    BY DEF Lateness, Larger
  <2> QED
    BY <2>1, <2>2 DEF LateInv, CompletedInTime, ShortGaps, EndIsSwept, Owed, Slots, Backfill
<1> QED
  BY <1>1, <1>2

LEMMA LateInit == Init => LateInv
<1> SUFFICES ASSUME Init PROVE LateInv
  OBVIOUS
<1>1. Created \in Nat /\ Lateness \in Nat
  BY SpansAssumption, BoundsAssumption DEF Lateness, Larger
<1>2. CompletedInTime /\ EndIsSwept
  BY <1>1 DEF Init, CompletedInTime, EndIsSwept
<1>3. ShortGaps
  BY <1>1 DEF Init, ShortGaps, Owed, Slots
<1> QED
  BY <1>2, <1>3 DEF LateInv

(* However late runs are, no gap that completed runs leave behind them is  *)
(* longer than the time by which a run may outlive the overlap: among any  *)
(* Lateness + 1 successive slots they answer for, one was swept.  The      *)
(* environment refuses a safety net of zero.                               *)
THEOREM GapsAreShort ==
  ASSUME SafetyNet > 0
  PROVE  Spec => []ShortGaps
<1>1. Inv /\ LateInv /\ [Next]_vars => LateInv'
  BY LateStep
<1>2. LateInv => ShortGaps
  BY DEF LateInv
<1> QED
  BY <1>1, <1>2, LateInit, Invariance, PTL DEF Spec

=============================================================================

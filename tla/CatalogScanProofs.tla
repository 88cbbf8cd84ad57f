------------------------- MODULE CatalogScanProofs -------------------------
(***************************************************************************)
(* Proofs about the catalog scan, for every list of contents, page size,   *)
(* page cap, number of tasks and of faults.                                *)
(***************************************************************************)
EXTENDS CatalogScan, FiniteSetTheorems, TLAPS

-----------------------------------------------------------------------------
(* Sets of numbers and the ranks of their members: how many are smaller.   *)
Rank(S, x) == Cardinality({y \in S : y < x})

LEMMA RankIsBounded ==
  ASSUME NEW S \in SUBSET Nat, IsFiniteSet(S), NEW x \in S
  PROVE  /\ Rank(S, x) \in Nat
         /\ Rank(S, x) < Cardinality(S)
<1> DEFINE below == {y \in S : y < x}
<1>1. below \in SUBSET S /\ x \notin below
  OBVIOUS
<1>2. IsFiniteSet(below) /\ Cardinality(below) <= Cardinality(S)
      /\ (Cardinality(S) = Cardinality(below) => S = below)
  BY <1>1, FS_Subset
<1>3. Cardinality(below) \in Nat /\ Cardinality(S) \in Nat
  BY <1>2, FS_CardinalityType
<1>4. Cardinality(S) # Cardinality(below)
  BY <1>1, <1>2
<1> QED
  BY <1>2, <1>3, <1>4 DEF Rank

LEMMA RankIsStrict ==
  ASSUME NEW S \in SUBSET Nat, IsFiniteSet(S), NEW x \in S, NEW z \in S, x < z
  PROVE  Rank(S, x) < Rank(S, z)
<1> DEFINE below == {y \in S : y < z}
<1>1. IsFiniteSet(below) /\ below \in SUBSET Nat /\ x \in below
  BY FS_Subset
<1>2. {y \in below : y < x} = {y \in S : y < x}
  <2>1. \A y \in S : y < x => y < z
    OBVIOUS
  <2> QED
    BY <2>1
<1>3. Rank(below, x) < Cardinality(below)
  BY <1>1, RankIsBounded
<1> QED
  BY <1>2, <1>3 DEF Rank

(* Every rank below the number of members is somebody's.                   *)
LEMMA RankIsOnto ==
  ASSUME NEW S \in SUBSET Nat, IsFiniteSet(S), NEW k \in Nat, k < Cardinality(S)
  PROVE  \E x \in S : Rank(S, x) = k
<1> DEFINE n == Cardinality(S)
           T == 0 .. n - 1
           f == [x \in S |-> Rank(S, x)]
<1>1. n \in Nat
  BY FS_CardinalityType
<1>2. IsFiniteSet(T) /\ Cardinality(T) = n
  <2>1. n - 1 \in Int /\ 0 \in Int
    BY <1>1
  <2>2. IsFiniteSet(0 .. n - 1)
        /\ Cardinality(0 .. n - 1) = IF 0 > n - 1 THEN 0 ELSE (n - 1) - 0 + 1
    BY <2>1, FS_Interval
  <2> QED
    BY <1>1, <2>2
<1>3. \A x \in S : Rank(S, x) \in T
  BY <1>1, RankIsBounded
<1>4. f \in [S -> T]
  BY <1>3
<1>5. \A x, z \in S : f[x] = f[z] => x = z
  <2> SUFFICES ASSUME NEW x \in S, NEW z \in S, Rank(S, x) = Rank(S, z)
               PROVE  x = z
    OBVIOUS
  <2>1. ~(x < z) /\ ~(z < x)
    BY <1>3, RankIsStrict
  <2> QED
    BY <2>1
<1>6. f \in Injection(S, T)
  BY <1>4, <1>5 DEF Injection, IsInjective
<1>7. f \in Surjection(S, T)
  BY <1>2, <1>6, FS_Injection
<1>8. \A j \in T : \E x \in S : f[x] = j
  BY <1>7, Zenon DEF Surjection
<1>9. k \in T
  BY <1>1
<1>10. PICK x \in S : f[x] = k
  BY <1>8, <1>9
<1> QED
  BY <1>10

LEMMA LargestExists ==
  ASSUME NEW S \in SUBSET Nat, IsFiniteSet(S), S # {}
  PROVE  \E x \in S : \A y \in S : y <= x
<1>1. Cardinality(S) \in Nat /\ Cardinality(S) # 0
  BY FS_CardinalityType, FS_EmptySet
<1>2. PICK x \in S : Rank(S, x) = Cardinality(S) - 1
  BY <1>1, RankIsOnto
<1>3. ASSUME NEW y \in S PROVE ~(x < y)
  BY <1>1, <1>2, RankIsBounded, RankIsStrict
<1> QED
  BY <1>3

LEMMA SmallestExists ==
  ASSUME NEW S \in SUBSET Nat, IsFiniteSet(S), S # {}
  PROVE  \E x \in S : \A y \in S : x <= y
<1>1. Cardinality(S) \in Nat /\ Cardinality(S) # 0
  BY FS_CardinalityType, FS_EmptySet
<1>2. PICK x \in S : Rank(S, x) = 0
  BY <1>1, RankIsOnto
<1>3. ASSUME NEW y \in S PROVE ~(y < x)
  BY <1>1, <1>2, RankIsBounded, RankIsStrict
<1> QED
  BY <1>3

(* Two disjoint parts of a finite set.                                     *)
LEMMA PartsAddUp ==
  ASSUME NEW S, IsFiniteSet(S), NEW A \in SUBSET S, NEW B \in SUBSET S, A \cap B = {}
  PROVE  /\ Cardinality(A) \in Nat /\ Cardinality(B) \in Nat /\ Cardinality(S) \in Nat
         /\ Cardinality(A) + Cardinality(B) <= Cardinality(S)
<1>1. IsFiniteSet(A) /\ IsFiniteSet(B)
  BY FS_Subset
<1>2. Cardinality(A) \in Nat /\ Cardinality(B) \in Nat /\ Cardinality(S) \in Nat
  BY <1>1, FS_CardinalityType
<1>3. Cardinality(A \cup B) = Cardinality(A) + Cardinality(B) - Cardinality(A \cap B)
  BY <1>1, FS_Union
<1>4. Cardinality(A \cap B) = 0
  BY FS_EmptySet
<1>5. Cardinality(A \cup B) <= Cardinality(S)
  <2>1. A \cup B \in SUBSET S
    OBVIOUS
  <2> QED
    BY <2>1, FS_Subset
<1> QED
  BY <1>2, <1>3, <1>4, <1>5

-----------------------------------------------------------------------------
(* The vendor's pages.                                                     *)
LEMMA ListIsFinite ==
  ASSUME TypeOK
  PROVE  /\ listed \in SUBSET Nat /\ IsFiniteSet(listed)
         /\ Total \in Nat
<1>1. listed \in SUBSET Contents /\ IsFiniteSet(Contents) /\ Contents \subseteq Nat
  BY CatalogAssumption DEF TypeOK
<1>2. IsFiniteSet(listed)
  BY <1>1, FS_Subset
<1> QED
  BY <1>1, <1>2, FS_CardinalityType DEF Total

LEMMA PagesAreListed ==
  ASSUME TypeOK, NEW c \in Cursor
  PROVE  PageAt(c) \in SUBSET listed /\ IsFiniteSet(PageAt(c))
<1>1. PageAt(c) \in SUBSET listed
  BY DEF PageAt
<1> QED
  BY <1>1, ListIsFinite, FS_Subset

LEMMA LastIsOnThePage ==
  ASSUME NEW page \in SUBSET Nat, IsFiniteSet(page), page # {}
  PROVE  /\ Last(page) \in page
         /\ \A y \in page : y <= Last(page)
<1>1. \E x \in page : \A y \in page : y <= x
  BY LargestExists
<1> QED
  BY <1>1 DEF Last

-----------------------------------------------------------------------------
(* Types.                                                                  *)
LEMMA NextPageTypes ==
  ASSUME TypeOK, NEW c \in Cursor, NEW p \in Nat, NEW more \in BOOLEAN,
         NEW page \in SUBSET listed, page # {}
  PROVE  /\ AfterPage(c, p, page, more) \in Outcome
         /\ p + Cardinality(page) \in Nat
         /\ {EntryOf(x) : x \in page} \in SUBSET Entry
<1>1. page \in SUBSET Nat /\ IsFiniteSet(page)
  BY ListIsFinite, FS_Subset
<1>2. Last(page) \in Nat /\ Cardinality(page) \in Nat
  BY <1>1, LastIsOnThePage, FS_CardinalityType
<1>3. [kind |-> "token", n |-> Last(page)] \in Cursor
  BY <1>2 DEF Cursor
<1>4. c.kind = "page" \/ c.kind = "token"
  BY DEF Cursor
<1>5. [kind |-> "page", n |-> c.n + 1] \in Cursor
  BY DEF Cursor
<1>6. /\ Done("truncated-past-cap") \in Outcome
      /\ Done("reached-end") \in Outcome
  BY DEF Done, Outcome
<1>7. NextCursor(c, p, page, more) \in Outcome
  BY <1>3, <1>5, <1>6 DEF NextCursor, Outcome
<1>8. AfterPage(c, p, page, more) \in Outcome
  BY <1>6, <1>7 DEF AfterPage
<1>9. ASSUME NEW x \in page PROVE EntryOf(x) \in Entry
  BY DEF EntryOf, Entry, TypeOK
<1> QED
  BY <1>2, <1>8, <1>9

LEMMA OpenOutcomesAreCursors ==
  ASSUME NEW next \in Outcome, ~Ended(next)
  PROVE  next \in Cursor
BY DEF Outcome, Ended, Cursor

LEMMA EffectiveIsACursor ==
  ASSUME TypeOK, NEW t \in Tasks
  PROVE  Effective(t) \in Cursor
<1>1. task[t] \in Task
  BY DEF TypeOK
<1>2. task[t].cursor \in Cursor /\ task[t].progress \in Nat
  BY <1>1 DEF Task
<1>3. task[t].progress \div PageSize \in Nat
  BY <1>2, CatalogAssumption
<1> QED
  BY <1>2, <1>3 DEF Effective, Cursor

LEMMA RestingTypes ==
  /\ FirstPage \in Cursor /\ FirstPage \in Outcome
  /\ NoRun \in Run
  /\ IdleTask \in Task
  /\ IdleDelta \in Delta
  /\ NoRow \in Row
<1>1. FirstPage \in Cursor
  BY DEF FirstPage, Cursor
<1>2. FirstPage \in Outcome
  BY <1>1 DEF Outcome
<1>3. NoRun \in Run
  BY <1>1 DEF NoRun, Run
<1>4. IdleTask \in Task
  BY <1>1, <1>2 DEF IdleTask, Task
<1>5. IdleDelta \in Delta
  BY <1>1, <1>2 DEF IdleDelta, Delta
<1>6. NoRow \in Row
  BY DEF NoRow, Row
<1> QED
  BY <1>1, <1>2, <1>3, <1>4, <1>5, <1>6

LEMMA InitTypes == Init => TypeOK
<1> SUFFICES ASSUME Init PROVE TypeOK
  OBVIOUS
<1>1. listed \in SUBSET Contents
  BY CatalogAssumption DEF Init
<1>2. price \in [Contents -> {0, 1}] /\ changes \in Nat /\ faults \in Nat
  BY DEF Init
<1>3. row \in [Contents -> Row] /\ run \in Run /\ task \in [Tasks -> Task]
      /\ delta \in Delta
  BY RestingTypes DEF Init
<1>4. eager \in Entry \cup {None} /\ absent \in SUBSET Contents
  BY DEF Init
<1>5. sound \in BOOLEAN
  BY DEF Init
<1> QED
  BY <1>1, <1>2, <1>3, <1>4, <1>5 DEF TypeOK

LEMMA FaultTypes == ASSUME TypeOK, Faulty PROVE faults' \in Nat
BY DEF TypeOK, Faulty

LEMMA HeldTypes ==
  ASSUME TypeOK, NEW t \in Tasks
  PROVE  /\ task[t] \in Task /\ run \in Run
         /\ task[t].pc \in {"idle", "fetch", "upsert", "write"}
         /\ task[t].cursor \in Cursor /\ task[t].progress \in Nat
         /\ task[t].skipped \in BOOLEAN /\ task[t].todo \in SUBSET Entry
         /\ task[t].next \in Outcome /\ task[t].upTo \in Nat
         /\ run.status \in {"idle", "queued", "running"}
         /\ run.holder \in Tasks \cup {None} /\ run.cursor \in Cursor
         /\ run.progress \in Nat /\ run.skipped \in BOOLEAN
<1>1. task[t] \in Task /\ run \in Run
  BY DEF TypeOK
<1> QED
  BY <1>1 DEF Task, Run

\* Steps on the row of the run.
LEMMA RunTypes ==
  ASSUME TypeOK, Enqueue \/ LoseLease
  PROVE  TypeOK'
<1>0. run \in Run
  BY DEF TypeOK
<1>1. CASE Enqueue
  <2>1. [NoRun EXCEPT !.status = "queued"] \in Run
    BY RestingTypes DEF Run
  <2>2. ASSUME NEW x \in Contents PROVE [row[x] EXCEPT !.seen = FALSE] \in Row
    BY DEF TypeOK, Row
  <2>3. sound' \in BOOLEAN /\ absent' \in SUBSET Contents
    BY <1>1 DEF Enqueue
  <2> QED
    BY <1>1, <2>1, <2>2, <2>3 DEF Enqueue, TypeOK, vendor
<1>2. CASE LoseLease
  <2>1. faults' \in Nat
    BY <1>2, FaultTypes DEF LoseLease
  <2>2. [run EXCEPT !.status = "queued", !.holder = None] \in Run
    BY <1>0 DEF Run
  <2> QED
    BY <1>2, <2>1, <2>2 DEF LoseLease, TypeOK, vendor, history
<1> QED
  BY <1>1, <1>2

LEMMA QueueTypes ==
  ASSUME TypeOK, NEW t \in Tasks,
         \/ Claim(t) \/ Complete(t) \/ Tick(t) \/ GivesUp(t)
         \/ ChunkFails(t) \/ RunFails(t) \/ SkipPage(t)
  PROVE  TypeOK'
<1> USE HeldTypes, RestingTypes
<1>2. CASE Claim(t)
  <2>1. [run EXCEPT !.status = "running", !.holder = t] \in Run
    BY DEF Run
  <2>2. [IdleTask EXCEPT !.pc = "fetch", !.cursor = run.cursor,
           !.progress = run.progress, !.skipped = run.skipped] \in Task
    BY DEF Task
  <2> QED
    BY <1>2, <2>1, <2>2 DEF Claim, TypeOK, vendor, history
<1>3. CASE Complete(t)
  BY <1>3 DEF Complete, TypeOK, vendor, history
<1>4. CASE Tick(t)
  <2>1. task[t].next \in Cursor
    BY <1>4, OpenOutcomesAreCursors DEF Tick
  <2>2. [run EXCEPT !.cursor = task[t].next, !.progress = task[t].upTo] \in Run
    BY <2>1 DEF Run
  <2>3. [IdleTask EXCEPT !.pc = "fetch", !.cursor = task[t].next,
           !.progress = task[t].upTo, !.skipped = task[t].skipped] \in Task
    BY <2>1 DEF Task
  <2> QED
    BY <1>4, <2>2, <2>3 DEF Tick, TypeOK, vendor, history
<1>5. CASE GivesUp(t)
  BY <1>5 DEF GivesUp, TypeOK, vendor, history
<1> DEFINE requeued == [run EXCEPT !.status = "queued", !.holder = None]
<1>6. requeued \in Run
  BY DEF Run
<1>7. CASE ChunkFails(t)
  <2>1. run' \in Run
    BY <1>6, <1>7 DEF ChunkFails
  <2>2. faults' \in Nat
    BY <1>7, FaultTypes DEF ChunkFails
  <2> QED
    BY <1>7, <2>1, <2>2 DEF ChunkFails, TypeOK, vendor, history
<1>8. CASE RunFails(t)
  <2>1. run' \in Run
    BY <1>8 DEF RunFails
  <2>2. faults' \in Nat
    BY <1>8, FaultTypes DEF RunFails, Refused, TypeOK
  <2> QED
    BY <1>8, <2>1, <2>2 DEF RunFails, TypeOK, vendor, history
<1>9. CASE SkipPage(t)
  <2>1. [run.cursor EXCEPT !.n = @ + 1] \in Cursor
    BY DEF Cursor
  <2>2. [run EXCEPT !.status = "queued", !.holder = None,
           !.cursor = [run.cursor EXCEPT !.n = @ + 1], !.skipped = TRUE] \in Run
    BY <2>1 DEF Run
  <2>3. run' = [run EXCEPT !.status = "queued", !.holder = None,
           !.cursor = [run.cursor EXCEPT !.n = @ + 1], !.skipped = TRUE]
    BY <1>9 DEF SkipPage
  <2>4. faults' \in Nat
    BY <1>9, FaultTypes DEF SkipPage, Refused, TypeOK
  <2> QED
    BY <1>9, <2>2, <2>3, <2>4 DEF SkipPage, TypeOK, vendor, history
<1> QED
  BY <1>2, <1>3, <1>4, <1>5, <1>7, <1>8, <1>9

\* Steps on the rows of the catalog.
LEMMA PageTypes ==
  ASSUME TypeOK, NEW t \in Tasks,
         \/ FetchPage(t) \/ FetchBlank(t) \/ FinishChunk(t)
         \/ \E e \in task[t].todo : UpsertContent(t, e) \/ ContentFails(t, e)
  PROVE  TypeOK'
<1> USE HeldTypes
<1>1. ASSUME NEW page, NEW next \in Outcome,
             {EntryOf(x) : x \in page} \in SUBSET Entry,
             task[t].progress + Cardinality(page) \in Nat, Fetched(t, page, next)
      PROVE  task' \in [Tasks -> Task]
  <2>1. [task[t] EXCEPT !.pc = "upsert", !.todo = {EntryOf(x) : x \in page},
           !.next = next, !.upTo = task[t].progress + Cardinality(page)] \in Task
    BY <1>1 DEF Task
  <2> QED
    BY <1>1, <2>1 DEF Fetched, TypeOK
<1>2. ASSUME Fetched(t, {}, Done("empty-page")) PROVE task' \in [Tasks -> Task]
  <2>1. Done("empty-page") \in Outcome
    BY DEF Done, Outcome
  <2>2. task[t].progress + Cardinality({}) \in Nat
    BY FS_EmptySet
  <2> QED
    BY <1>1, <1>2, <2>1, <2>2
<1>3. CASE FetchPage(t)
  <2>1. task' \in [Tasks -> Task]
    <3> DEFINE page == PageAt(Effective(t))
    <3>1. CASE page = {}
      BY <1>2, <1>3, <3>1 DEF FetchPage
    <3>2. CASE page # {}
      <4>1. PICK more \in BOOLEAN :
              Fetched(t, page, AfterPage(Effective(t), task[t].progress, page, more))
        BY <1>3, <3>2 DEF FetchPage
      <4>2. Effective(t) \in Cursor /\ page \in SUBSET listed
        BY EffectiveIsACursor, PagesAreListed
      <4> QED
        BY <1>1, <3>2, <4>1, <4>2, NextPageTypes
    <3> QED
      BY <3>1, <3>2
  <2>2. faults' \in Nat
    BY <1>3, FaultTypes DEF FetchPage, TypeOK
  <2> QED
    BY <1>3, <2>1, <2>2 DEF FetchPage, TypeOK, vendor, history
<1>4. CASE FetchBlank(t)
  <2>1. task' \in [Tasks -> Task]
    BY <1>2, <1>4 DEF FetchBlank
  <2>2. faults' \in Nat
    BY <1>4, FaultTypes DEF FetchBlank
  <2>3. sound' \in BOOLEAN
    BY <1>4 DEF FetchBlank
  <2> QED
    BY <1>4, <2>1, <2>2, <2>3 DEF FetchBlank, TypeOK, vendor
<1>5. CASE FinishChunk(t)
  <2>1. ASSUME NEW x \in Contents PROVE Stamped(row[x]) \in Row
    BY DEF Stamped, Row, TypeOK
  <2>2. row' \in [Contents -> Row]
    BY <1>5, <2>1 DEF FinishChunk, TypeOK
  <2>3. [task[t] EXCEPT !.pc = "write"] \in Task
    BY DEF Task
  <2> QED
    BY <1>5, <2>2, <2>3 DEF FinishChunk, TypeOK, vendor, history
<1>6. ASSUME NEW e \in task[t].todo PROVE [task[t] EXCEPT !.todo = @ \ {e}] \in Task
  BY DEF Task
<1>7. ASSUME NEW e \in task[t].todo, UpsertContent(t, e) PROVE TypeOK'
  <2>1. e \in Entry
    OBVIOUS
  <2>2. Upserted(e) \in Row /\ e.id \in Contents
    BY <2>1 DEF Upserted, Row, Entry
  <2> QED
    BY <1>6, <1>7, <2>2 DEF UpsertContent, TypeOK, vendor, history
<1>8. ASSUME NEW e \in task[t].todo, ContentFails(t, e) PROVE TypeOK'
  <2>1. faults' \in Nat
    BY <1>8, FaultTypes DEF ContentFails
  <2> QED
    BY <1>6, <1>8, <2>1 DEF ContentFails, TypeOK, vendor
<1> QED
  BY <1>3, <1>4, <1>5, <1>7, <1>8

\* Steps of the delta, of the repair and of the vendor.
LEMMA DeltaTypes ==
  ASSUME TypeOK, DeltaStep \/ DeltaFails
  PROVE  TypeOK'
<1>0. delta \in Delta
  BY DEF TypeOK
<1>1. /\ delta.cursor \in Cursor /\ delta.progress \in Nat /\ delta.page \in SUBSET Entry
      /\ delta.next \in Outcome /\ delta.stale \in SUBSET Contents
      /\ delta.pc \in {"fetch", "diff", "write"}
  BY <1>0 DEF Delta
<1> USE <1>1, RestingTypes
<1>2. CASE FetchInventory
  <2> DEFINE page == PageAt(delta.cursor)
             next(more) == AfterPage(delta.cursor, delta.progress, page, more)
  <2>1. page \in SUBSET listed
    BY PagesAreListed
  <2>2. ASSUME NEW more \in BOOLEAN, page # {}
        PROVE  [delta EXCEPT !.pc = "diff", !.page = {EntryOf(x) : x \in page},
                  !.next = next(more), !.progress = @ + Cardinality(page)] \in Delta
    <3>1. next(more) \in Outcome /\ delta.progress + Cardinality(page) \in Nat
          /\ {EntryOf(x) : x \in page} \in SUBSET Entry
      BY <2>1, <2>2, NextPageTypes
    <3> QED
      BY <1>0, <3>1 DEF Delta
  <2>3. \A more \in Tokens(page) : more \in BOOLEAN
    BY DEF Tokens
  <2>4. CASE page = {} \/ ~Served(delta.cursor)
    BY <1>2, <2>4 DEF FetchInventory, TypeOK, vendor, history
  <2>5. CASE ~(page = {} \/ ~Served(delta.cursor))
    <3>1. PICK more \in Tokens(page) :
            delta' = [delta EXCEPT !.pc = "diff", !.page = {EntryOf(x) : x \in page},
                        !.next = next(more), !.progress = @ + Cardinality(page)]
      BY <1>2, <2>5 DEF FetchInventory
    <3>2. delta' \in Delta
      BY <2>2, <2>3, <2>5, <3>1
    <3> QED
      BY <1>2, <3>2 DEF FetchInventory, TypeOK, vendor, history
  <2> QED
    BY <2>4, <2>5
<1>3. CASE ComputeVariantChanges
  <2> DEFINE kept == {e \in delta.page : Drifted(e)}
             found == {e.id : e \in {f \in delta.page : row[f.id].known /\ row[f.id].delisted}}
  <2>1. kept \in SUBSET Entry /\ found \in SUBSET Contents
    BY DEF Entry
  <2>2. [delta EXCEPT !.pc = "write", !.page = kept, !.stale = found] \in Delta
    BY <1>0, <2>1 DEF Delta
  <2>3. delta' = [delta EXCEPT !.pc = "write", !.page = kept, !.stale = found]
    BY <1>3 DEF ComputeVariantChanges
  <2> QED
    BY <1>3, <2>2, <2>3 DEF ComputeVariantChanges, TypeOK, vendor, history
<1>4. CASE WriteChanges
  <2>1. ASSUME NEW x \in Contents PROVE Refreshed(x) \in Row
    <3>1. row[x] \in Row
      BY DEF TypeOK
    <3>2. CASE \E e \in delta.page : e.id = x
      <4> DEFINE new == (CHOOSE e \in delta.page : e.id = x).price
                 stays == row[x].delisted /\ x \notin delta.stale
      <4>1. new \in {0, 1}
        BY <3>2 DEF Entry
      <4>2. Refreshed(x) = [row[x] EXCEPT !.price = new, !.delisted = stays]
        BY <3>2 DEF Refreshed
      <4>3. stays \in BOOLEAN
        OBVIOUS
      <4> HIDE DEF new, stays
      <4> QED
        BY <3>1, <4>1, <4>2, <4>3 DEF Row
    <3>3. CASE ~\E e \in delta.page : e.id = x
      BY <3>1, <3>3 DEF Refreshed
    <3> QED
      BY <3>2, <3>3
  <2>2. delta' \in Delta
    <3>1. ASSUME ~Ended(delta.next)
          PROVE  [IdleDelta EXCEPT !.cursor = delta.next, !.progress = delta.progress] \in Delta
      <4>1. delta.next \in Cursor
        BY <3>1, OpenOutcomesAreCursors
      <4> QED
        BY <4>1 DEF Delta
    <3> QED
      BY <1>4, <3>1 DEF WriteChanges
  <2> QED
    BY <1>4, <2>1, <2>2 DEF WriteChanges, TypeOK, vendor, history
<1>5. CASE DeltaFails
  <2>1. faults' \in Nat
    BY <1>5, FaultTypes DEF DeltaFails
  <2> QED
    BY <1>5, <2>1 DEF DeltaFails, TypeOK, vendor, history
<1> QED
  BY <1>2, <1>3, <1>4, <1>5 DEF DeltaStep

LEMMA OutsideTypes ==
  ASSUME TypeOK,
         WriteEager \/ \E x \in Contents :
           FetchByBarcode(x) \/ List(x) \/ Withdraw(x) \/ Reprice(x)
  PROVE  TypeOK'
<1>1. CASE WriteEager
  <2>1. eager \in Entry
    BY <1>1 DEF WriteEager, TypeOK
  <2>2. Upserted(eager) \in Row
    BY <2>1 DEF Upserted, Row, Entry
  <2> QED
    BY <1>1, <2>2 DEF WriteEager, TypeOK, vendor, history
<1>2. ASSUME NEW x \in Contents, FetchByBarcode(x) PROVE TypeOK'
  <2>1. EntryOf(x) \in Entry
    BY DEF EntryOf, Entry, TypeOK
  <2> QED
    BY <1>2, <2>1 DEF FetchByBarcode, TypeOK, vendor, history
<1>3. ASSUME NEW x \in Contents, List(x) PROVE TypeOK'
  BY <1>3 DEF List, Change, TypeOK, history
<1>4. ASSUME NEW x \in Contents, Withdraw(x) PROVE TypeOK'
  <2>1. sound' \in BOOLEAN /\ absent' \in SUBSET Contents /\ listed' \in SUBSET Contents
    BY <1>4 DEF Withdraw, TypeOK
  <2>2. changes' \in Nat
    BY <1>4 DEF Withdraw, Change, TypeOK
  <2> QED
    BY <1>4, <2>1, <2>2 DEF Withdraw, TypeOK
<1>5. ASSUME NEW x \in Contents, Reprice(x) PROVE TypeOK'
  <2>1. 1 - price[x] \in {0, 1}
    BY DEF TypeOK
  <2> QED
    BY <1>5, <2>1 DEF Reprice, Change, TypeOK, history
<1> QED
  BY <1>1, <1>2, <1>3, <1>4, <1>5

LEMMA StepTypes == TypeOK /\ [Next]_vars => TypeOK'
<1> SUFFICES ASSUME TypeOK, [Next]_vars PROVE TypeOK'
  OBVIOUS
<1>1. CASE UNCHANGED vars
  BY <1>1 DEF TypeOK, vars, vendor, history
<1>2. CASE \E t \in Tasks :
             \/ Claim(t) \/ ScanStep(t) \/ FetchBlank(t)
             \/ ChunkFails(t) \/ RunFails(t) \/ SkipPage(t)
             \/ \E e \in task[t].todo : ContentFails(t, e)
  BY <1>2, QueueTypes, PageTypes DEF ScanStep
<1>3. CASE Enqueue \/ LoseLease
  BY <1>3, RunTypes
<1>4. CASE DeltaStep \/ DeltaFails
  BY <1>4, DeltaTypes
<1>5. CASE WriteEager \/ \E x \in Contents :
             FetchByBarcode(x) \/ List(x) \/ Withdraw(x) \/ Reprice(x)
  BY <1>5, OutsideTypes
<1> QED
  BY <1>1, <1>2, <1>3, <1>4, <1>5 DEF Next

(* The variables keep their types: whatever a zombie, a skip or a lost     *)
(* token leaves in the run's cursor is a cursor, whatever a task, a delta  *)
(* or a repair writes is a row.                                            *)
THEOREM TypeCorrect == Spec => []TypeOK
BY InitTypes, StepTypes, PTL DEF Spec

-----------------------------------------------------------------------------
(* What a page holds, by number and by token.                              *)
LEMMA DivMeaning ==
  ASSUME NEW k \in Nat, NEW n \in Nat, NEW b \in Nat \ {0}
  PROVE  (k \div b = n) <=> (n * b <= k /\ k < (n + 1) * b)
<1> DEFINE q == k \div b
<1>1. q \in Nat
  OBVIOUS
<1>2. q * b <= k /\ k < q * b + b
  BY SMTT(30)
<1>3. (q + 1) * b = q * b + b /\ (n + 1) * b = n * b + b
  OBVIOUS
<1>4. ASSUME NEW i \in Nat, NEW j \in Nat, i < j PROVE (i + 1) * b <= j * b
  <2>1. (j - (i + 1)) * b >= 0
    BY <1>4
  <2>2. (j - (i + 1)) * b = j * b - (i + 1) * b
    OBVIOUS
  <2>3. j * b \in Int /\ (i + 1) * b \in Int
    OBVIOUS
  <2> QED
    BY <2>1, <2>2, <2>3
<1>5. n * b \in Int /\ q * b \in Int
  BY <1>1
<1> HIDE DEF q
<1>6. CASE q < n
  BY <1>1, <1>2, <1>3, <1>4, <1>5, <1>6 DEF q
<1>7. CASE n < q
  BY <1>1, <1>2, <1>3, <1>4, <1>5, <1>7 DEF q
<1>8. CASE q = n
  BY <1>1, <1>2, <1>3, <1>5, <1>8 DEF q
<1> QED
  BY <1>1, <1>6, <1>7, <1>8

\* The contents that a token has not yet named.
Beyond(n) == {y \in listed : n < y}

LEMMA BeforeIsRank ==
  ASSUME TypeOK, NEW x \in Nat, NEW n \in Nat
  PROVE  /\ Before(x, 0) = Rank(listed, x)
         /\ Before(x, n + 1) = Rank(Beyond(n), x)
<1>1. \A y \in listed : y \in Nat
  BY ListIsFinite
<1>2. {y \in listed : 0 <= y /\ y < x} = {y \in listed : y < x}
  BY <1>1
<1>3. {y \in listed : n + 1 <= y /\ y < x} = {y \in Beyond(n) : y < x}
  BY <1>1 DEF Beyond
<1> QED
  BY <1>2, <1>3 DEF Before, Rank

LEMMA PageOfNumber ==
  ASSUME TypeOK, NEW c \in Cursor, c.kind = "page", NEW x \in listed
  PROVE  /\ Rank(listed, x) \in Nat /\ Rank(listed, x) < Total
         /\ x \in PageAt(c) <=> /\ c.n * PageSize <= Rank(listed, x)
                                /\ Rank(listed, x) < (c.n + 1) * PageSize
<1>1. x \in Nat /\ c.n \in Nat /\ PageSize \in Nat \ {0}
  BY ListIsFinite, CatalogAssumption DEF Cursor
<1>2. Before(x, 0) = Rank(listed, x)
  BY <1>1, BeforeIsRank
<1>3. Rank(listed, x) \in Nat /\ Rank(listed, x) < Total
  BY ListIsFinite, RankIsBounded DEF Total
<1>4. x \in PageAt(c) <=> Before(x, 0) \div PageSize = c.n
  BY DEF PageAt
<1> QED
  BY <1>1, <1>2, <1>3, <1>4, DivMeaning

LEMMA PageOfToken ==
  ASSUME TypeOK, NEW c \in Cursor, c.kind = "token", NEW x \in listed
  PROVE  x \in PageAt(c) <=> x \in Beyond(c.n) /\ Rank(Beyond(c.n), x) < PageSize
<1>1. x \in Nat /\ c.n \in Nat
  BY ListIsFinite DEF Cursor
<1>2. Before(x, c.n + 1) = Rank(Beyond(c.n), x)
  BY <1>1, BeforeIsRank
<1> QED
  BY <1>2 DEF PageAt, Beyond

LEMMA PageIsBehindToken ==
  ASSUME TypeOK, NEW c \in Cursor, c.kind = "token", NEW x \in PageAt(c)
  PROVE  x \in listed /\ x \in Nat /\ c.n \in Nat /\ c.n < x
<1>1. x \in listed /\ x \in Nat /\ c.n \in Nat
  BY PagesAreListed, ListIsFinite DEF Cursor
<1> QED
  BY <1>1, PageOfToken DEF Beyond

LEMMA BeyondIsFinite ==
  ASSUME TypeOK, NEW n \in Nat
  PROVE  Beyond(n) \in SUBSET Nat /\ Beyond(n) \in SUBSET listed /\ IsFiniteSet(Beyond(n))
<1>1. Beyond(n) \in SUBSET listed
  BY DEF Beyond
<1> QED
  BY <1>1, ListIsFinite, FS_Subset

LEMMA SpanOfPage ==
  ASSUME NEW n \in Nat
  PROVE  /\ n * PageSize \in Nat /\ (n + 1) * PageSize \in Nat
         /\ (n + 1) * PageSize = n * PageSize + PageSize
         /\ PageSize \in Nat \ {0} /\ 0 * PageSize = 0
BY CatalogAssumption

\* No page is longer than a page.
LEMMA PageIsBounded ==
  ASSUME TypeOK, NEW c \in Cursor, c.kind = "page"
  PROVE  Cardinality(PageAt(c)) \in Nat /\ Cardinality(PageAt(c)) <= PageSize
<1> DEFINE a == c.n * PageSize
           b == (c.n + 1) * PageSize
           f == [x \in PageAt(c) |-> Rank(listed, x)]
<1>0. c.n \in Nat
  BY DEF Cursor
<1>1. /\ a \in Nat /\ b \in Nat /\ b = a + PageSize /\ PageSize \in Nat
      /\ PageSize > 0
  <2>1. PageSize \in Nat /\ PageSize > 0
    BY CatalogAssumption
  <2> QED
    BY <1>0, <2>1, SpanOfPage, Zenon
<1>2. PageAt(c) \in SUBSET listed /\ IsFiniteSet(PageAt(c))
  BY PagesAreListed
<1>3. \A x \in PageAt(c) : Rank(listed, x) \in Nat /\ a <= Rank(listed, x) /\ Rank(listed, x) < b
  BY <1>2, PageOfNumber
<1> HIDE DEF a, b
<1>4. f \in [PageAt(c) -> a .. b - 1]
  BY <1>1, <1>3
<1>5. \A x, z \in PageAt(c) : f[x] = f[z] => x = z
  <2> SUFFICES ASSUME NEW x \in PageAt(c), NEW z \in PageAt(c),
                      Rank(listed, x) = Rank(listed, z)
               PROVE  x = z
    OBVIOUS
  <2>1. x \in Nat /\ z \in Nat /\ x \in listed /\ z \in listed
    BY <1>2, ListIsFinite
  <2>2. ~(x < z) /\ ~(z < x)
    BY <1>3, <2>1, ListIsFinite, RankIsStrict
  <2> QED
    BY <2>1, <2>2
<1>6. f \in Injection(PageAt(c), a .. b - 1)
  BY <1>4, <1>5 DEF Injection, IsInjective
<1>7. IsFiniteSet(a .. b - 1) /\ Cardinality(a .. b - 1) = PageSize
  <2>1. a \in Int /\ b - 1 \in Int
    BY <1>1
  <2>2. IsFiniteSet(a .. b - 1)
        /\ Cardinality(a .. b - 1) = IF a > b - 1 THEN 0 ELSE (b - 1) - a + 1
    BY <2>1, FS_Interval
  <2> QED
    BY <1>1, <2>2
<1>8. Cardinality(PageAt(c)) <= Cardinality(a .. b - 1)
  BY <1>6, <1>7, FS_Injection
<1> QED
  BY <1>2, <1>7, <1>8, FS_CardinalityType

\* A page behind which there are contents is full.
LEMMA PageIsFull ==
  ASSUME TypeOK, NEW c \in Cursor, c.kind = "page",
         c.n * PageSize + Cardinality(PageAt(c)) < Total
  PROVE  Cardinality(PageAt(c)) = PageSize
<1> DEFINE a == c.n * PageSize
           m == Cardinality(PageAt(c))
           X == a .. a + m
           f == [k \in X |-> CHOOSE x \in listed : Rank(listed, x) = k]
<1>0. m \in Nat /\ m <= PageSize /\ PageSize \in Nat
  BY PageIsBounded, CatalogAssumption
<1> SUFFICES ASSUME m < PageSize PROVE FALSE
  BY <1>0
<1>1. /\ a \in Nat /\ m \in Nat /\ (c.n + 1) * PageSize = a + PageSize
      /\ PageSize \in Nat /\ Total \in Nat /\ a + m < Total
  BY SpanOfPage, PageIsBounded, ListIsFinite DEF Cursor
<1>2. ASSUME NEW k \in X
      PROVE  f[k] \in PageAt(c) /\ Rank(listed, f[k]) = k
  <2>1. k \in Nat /\ k < Total /\ a <= k /\ k < a + PageSize
    BY <1>1
  <2>2. \E x \in listed : Rank(listed, x) = k
    BY <2>1, ListIsFinite, RankIsOnto DEF Total
  <2>3. f[k] \in listed /\ Rank(listed, f[k]) = k
    BY <2>2
  <2> QED
    BY <1>1, <2>1, <2>3, PageOfNumber
<1>3. f \in [X -> PageAt(c)]
  BY <1>2
<1>4. f \in Injection(X, PageAt(c))
  BY <1>2, <1>3 DEF Injection, IsInjective
<1>5. Cardinality(X) <= m
  BY <1>4, PagesAreListed, FS_Injection
<1>6. Cardinality(X) = m + 1
  <2>1. a \in Int /\ a + m \in Int
    BY <1>1
  <2>2. Cardinality(X) = IF a > a + m THEN 0 ELSE (a + m) - a + 1
    BY <2>1, FS_Interval
  <2> QED
    BY <1>1, <2>2
<1> QED
  BY <1>1, <1>5, <1>6

-----------------------------------------------------------------------------
(* A walk over the list.                                                   *)
\* What lies before a cursor.
Passed(c) ==
  IF c.kind = "page" THEN {x \in listed : Rank(listed, x) < c.n * PageSize}
                     ELSE {x \in listed : x <= c.n}

\* Progress agrees with the cursor: exactly with a page number, and with a
\* token so far that the token is behind the cap and as many contents precede
\* it.
Aligned(c, p) ==
  /\ c.kind = "page" => p = c.n * PageSize
  /\ c.kind = "token" => Cap <= p /\ p <= Cardinality({x \in listed : x <= c.n})

LEMMA ListedUpTo ==
  ASSUME TypeOK, NEW x \in listed
  PROVE  /\ Cardinality({y \in listed : y <= x}) = Rank(listed, x) + 1
         /\ Rank(listed, x) \in Nat
<1>1. x \in Nat /\ listed \in SUBSET Nat /\ IsFiniteSet(listed)
  BY ListIsFinite
<1>2. IsFiniteSet({y \in listed : y < x})
  <2>1. {y \in listed : y < x} \in SUBSET listed
    OBVIOUS
  <2> QED
    BY <1>1, <2>1, FS_Subset
<1>3. {y \in listed : y <= x} = {y \in listed : y < x} \cup {x}
  <2>1. ASSUME NEW y \in listed PROVE y <= x <=> y < x \/ y = x
    BY <1>1
  <2>2. x <= x
    BY <1>1
  <2> QED
    BY <2>1, <2>2
<1>4. x \notin {y \in listed : y < x}
  BY <1>1
<1>5. Cardinality({y \in listed : y < x} \cup {x}) = Cardinality({y \in listed : y < x}) + 1
  BY <1>2, <1>4, FS_AddElement
<1> QED
  BY <1>1, <1>3, <1>5, RankIsBounded DEF Rank

\* An empty page comes only after everything.
LEMMA EmptyPageIsTheEnd ==
  ASSUME TypeOK, NEW c \in Cursor, PageAt(c) = {}
  PROVE  listed \subseteq Passed(c)
<1>1. CASE c.kind = "page"
  <2>0. c.n \in Nat
    BY DEF Cursor
  <2>1. Cardinality(PageAt(c)) = 0 /\ PageSize # 0 /\ c.n * PageSize \in Nat
    BY <2>0, FS_EmptySet, SpanOfPage
  <2>2. ~(c.n * PageSize + Cardinality(PageAt(c)) < Total)
    BY <1>1, <2>1, PageIsFull
  <2>3. ASSUME NEW x \in listed PROVE Rank(listed, x) < c.n * PageSize
    BY <1>1, <2>1, <2>2, <2>3, PageOfNumber, ListIsFinite
  <2> QED
    BY <1>1, <2>3 DEF Passed
<1>2. CASE c.kind = "token"
  <2>1. c.n \in Nat
    BY DEF Cursor
  <2>2. Beyond(c.n) = {}
    <3> SUFFICES ASSUME Beyond(c.n) # {} PROVE FALSE
      OBVIOUS
    <3>1. Beyond(c.n) \in SUBSET Nat /\ Beyond(c.n) \in SUBSET listed /\ IsFiniteSet(Beyond(c.n))
      BY <2>1, BeyondIsFinite
    <3>2. Cardinality(Beyond(c.n)) \in Nat /\ Cardinality(Beyond(c.n)) # 0
      BY <3>1, FS_CardinalityType, FS_EmptySet
    <3>3. PICK x \in Beyond(c.n) : Rank(Beyond(c.n), x) = 0
      BY <3>1, <3>2, RankIsOnto
    <3>4. x \in PageAt(c)
      BY <1>2, <3>1, <3>3, PageOfToken, CatalogAssumption
    <3> QED
      BY <3>4
  <2>3. ASSUME NEW x \in listed PROVE x <= c.n
    BY <2>1, <2>2, ListIsFinite DEF Beyond
  <2> QED
    BY <1>2, <2>3 DEF Passed
<1> QED
  BY <1>1, <1>2 DEF Cursor

LEMMA TotalPagesMeaning ==
  ASSUME TypeOK, NEW n \in Nat, n + 1 >= TotalPages
  PROVE  Total <= (n + 1) * PageSize
<1> DEFINE k == Total + PageSize - 1
           q == k \div PageSize
<1>1. PageSize \in Nat \ {0} /\ Total \in Nat /\ k \in Nat
  BY ListIsFinite, CatalogAssumption
<1>2. q \in Nat
  BY <1>1
<1>3. k < (q + 1) * PageSize
  BY <1>1, <1>2, DivMeaning
<1>4. q <= n + 1
  BY DEF TotalPages
<1>5. (q + 1) * PageSize <= (n + 2) * PageSize
  <2>1. ((n + 2) - (q + 1)) * PageSize >= 0
    BY <1>1, <1>2, <1>4
  <2>2. ((n + 2) - (q + 1)) * PageSize = (n + 2) * PageSize - (q + 1) * PageSize
    BY <1>1, <1>2
  <2>3. (n + 2) * PageSize \in Int /\ (q + 1) * PageSize \in Int
    BY <1>1, <1>2
  <2> QED
    BY <2>1, <2>2, <2>3
<1>6. (n + 2) * PageSize = (n + 1) * PageSize + PageSize
  BY <1>1
<1>7. (n + 1) * PageSize \in Int /\ (q + 1) * PageSize \in Int
  BY <1>1, <1>2
<1> QED
  BY <1>1, <1>3, <1>5, <1>6, <1>7

\* The walk ends where nothing is left, by page numbers.
LEMMA NumbersReachTheEnd ==
  ASSUME TypeOK, NEW c \in Cursor, c.kind = "page", NEW p \in Nat, Aligned(c, p),
         \/ p + Cardinality(PageAt(c)) >= Total
         \/ IsLastDocumentedPage(c)
  PROVE  listed \subseteq Passed(c) \cup PageAt(c)
<1>0. c.n \in Nat /\ p = c.n * PageSize
  BY DEF Cursor, Aligned
<1>1. /\ p \in Nat /\ (c.n + 1) * PageSize = p + PageSize /\ PageSize \in Nat
      /\ Cardinality(PageAt(c)) \in Nat /\ Cardinality(PageAt(c)) <= PageSize
      /\ Total \in Nat
  BY <1>0, SpanOfPage, PageIsBounded, ListIsFinite
<1>2. Total <= p + PageSize
  <2>1. CASE p + Cardinality(PageAt(c)) >= Total
    BY <1>1, <2>1
  <2>2. CASE IsLastDocumentedPage(c)
    BY <1>0, <1>1, <2>2, TotalPagesMeaning DEF IsLastDocumentedPage
  <2> QED
    BY <2>1, <2>2
<1>3. ASSUME NEW x \in listed PROVE x \in Passed(c) \/ x \in PageAt(c)
  <2>1. /\ Rank(listed, x) \in Nat /\ Rank(listed, x) < Total
        /\ x \in PageAt(c) <=> /\ c.n * PageSize <= Rank(listed, x)
                               /\ Rank(listed, x) < (c.n + 1) * PageSize
    BY PageOfNumber
  <2>2. Rank(listed, x) < (c.n + 1) * PageSize
    BY <1>1, <1>2, <2>1
  <2>3. CASE Rank(listed, x) < c.n * PageSize
    BY <2>3 DEF Passed
  <2>4. CASE ~(Rank(listed, x) < c.n * PageSize)
    BY <1>0, <1>1, <2>1, <2>2, <2>4
  <2> QED
    BY <2>3, <2>4
<1> QED
  BY <1>3

\* The same by tokens.
LEMMA TokensReachTheEnd ==
  ASSUME TypeOK, NEW c \in Cursor, c.kind = "token", NEW p \in Nat, Aligned(c, p),
         p + Cardinality(PageAt(c)) >= Total
  PROVE  listed \subseteq Passed(c) \cup PageAt(c)
<1> DEFINE A == {y \in listed : y <= c.n}
<1> SUFFICES ASSUME NEW x \in listed, x \notin A, x \notin PageAt(c) PROVE FALSE
  BY DEF Passed
<1>0. c.n \in Nat /\ listed \in SUBSET Nat /\ IsFiniteSet(listed)
  BY ListIsFinite DEF Cursor
<1>1. IsFiniteSet(listed \ {x}) /\ Cardinality(listed \ {x}) = Total - 1 /\ Total \in Nat
  BY <1>0, FS_RemoveElement, ListIsFinite DEF Total
<1>2. PageAt(c) \in SUBSET (listed \ {x}) /\ A \in SUBSET (listed \ {x})
  BY PagesAreListed
<1>3. A \cap PageAt(c) = {}
  <2>1. ASSUME NEW y \in PageAt(c) PROVE ~(y <= c.n)
    BY <1>0, PageIsBehindToken
  <2> QED
    BY <2>1
<1>4. /\ Cardinality(A) \in Nat /\ Cardinality(PageAt(c)) \in Nat
      /\ Cardinality(A) + Cardinality(PageAt(c)) <= Cardinality(listed \ {x})
  BY <1>1, <1>2, <1>3, PartsAddUp
<1>5. p <= Cardinality(A)
  BY DEF Aligned
<1> QED
  BY <1>1, <1>4, <1>5

\* While contents follow, the next cursor stands behind the page.
LEMMA NumbersAdvance ==
  ASSUME TypeOK, NEW c \in Cursor, c.kind = "page", NEW p \in Nat, Aligned(c, p),
         NEW more \in BOOLEAN, PageAt(c) # {},
         ~Ended(AfterPage(c, p, PageAt(c), more))
  PROVE  LET next == AfterPage(c, p, PageAt(c), more)
         IN  /\ Aligned(next, p + Cardinality(PageAt(c)))
             /\ Passed(next) \subseteq Passed(c) \cup PageAt(c)
<1> DEFINE page == PageAt(c)
           next == AfterPage(c, p, page, more)
           upTo == p + Cardinality(page)
           L == Last(page)
<1>0. c.n \in Nat /\ p = c.n * PageSize
  BY DEF Cursor, Aligned
<1>1. ~(upTo >= Total) /\ next = NextCursor(c, p, page, more)
  BY DEF AfterPage, Ended, Done
<1>2. /\ Cardinality(page) = PageSize /\ PageSize \in Nat /\ PageSize > 0 /\ Total \in Nat
      /\ upTo = (c.n + 1) * PageSize /\ (c.n + 1) * PageSize = p + PageSize
      /\ upTo < Total
  <2>1. Total \in Nat /\ PageSize \in Nat /\ PageSize > 0 /\ Cardinality(page) \in Nat
        /\ (c.n + 1) * PageSize = p + PageSize
    BY <1>0, ListIsFinite, PageIsBounded, SpanOfPage, CatalogAssumption
  <2>2. c.n * PageSize + Cardinality(page) < Total
    BY <1>0, <1>1, <2>1
  <2>3. Cardinality(page) = PageSize
    BY <2>2, PageIsFull
  <2> QED
    BY <1>0, <2>1, <2>2, <2>3
<1>3. ASSUME NEW x \in listed, Rank(listed, x) < (c.n + 1) * PageSize
      PROVE  x \in Passed(c) \/ x \in page
  BY <1>0, <1>2, <1>3, PageOfNumber DEF Passed
<1>4. p \div PageSize = c.n
  BY <1>0, <1>2, DivMeaning
<1>5. CASE next.kind = "page"
  <2>1. next = [kind |-> "page", n |-> c.n + 1]
    BY <1>1, <1>5 DEF NextCursor, Done
  <2>2. Aligned(next, upTo)
    BY <1>2, <2>1 DEF Aligned
  <2>3. Passed(next) = {x \in listed : Rank(listed, x) < (c.n + 1) * PageSize}
    BY <2>1 DEF Passed
  <2> QED
    BY <1>3, <2>2, <2>3
<1>6. CASE next.kind = "token"
  <2>1. next = [kind |-> "token", n |-> L]
    BY <1>1, <1>6 DEF NextCursor, Done
  <2>2. (c.n + 1) * PageSize >= Cap
    BY <1>1, <1>4, <1>6 DEF NextCursor
  <2>3. L \in page /\ L \in listed /\ \A y \in page : y <= L
    BY PagesAreListed, ListIsFinite, FS_Subset, LastIsOnThePage
  <2>4. Rank(listed, L) \in Nat /\ Rank(listed, L) < (c.n + 1) * PageSize
    BY <2>3, PageOfNumber
  <2>5. Rank(listed, L) >= p + PageSize - 1
    <3>1. p + PageSize - 1 \in Nat /\ p + PageSize - 1 < Total
      BY <1>2
    <3>2. PICK y \in listed : Rank(listed, y) = p + PageSize - 1
      BY <3>1, ListIsFinite, RankIsOnto DEF Total
    <3>3. y \in page
      BY <1>0, <1>2, <3>2, PageOfNumber
    <3>4. y = L \/ y < L
      BY <2>3, <3>3, ListIsFinite
    <3>5. y < L => Rank(listed, y) < Rank(listed, L)
      BY <2>3, ListIsFinite, RankIsStrict
    <3> QED
      BY <1>2, <2>4, <3>1, <3>2, <3>4, <3>5
  <2>6. Aligned(next, upTo)
    BY <1>2, <2>1, <2>2, <2>3, <2>4, <2>5, ListedUpTo DEF Aligned
  <2>7. ASSUME NEW x \in listed, x <= L PROVE x \in Passed(c) \/ x \in page
    <3>1. x = L \/ x < L
      BY <2>3, <2>7, ListIsFinite
    <3>2. x < L => Rank(listed, x) < Rank(listed, L)
      BY <2>3, ListIsFinite, RankIsStrict
    <3>3. Rank(listed, x) < (c.n + 1) * PageSize
      BY <1>2, <2>4, <3>1, <3>2, PageOfNumber
    <3> QED
      BY <1>3, <3>3
  <2>8. Passed(next) = {x \in listed : x <= L}
    BY <2>1 DEF Passed
  <2> QED
    BY <2>6, <2>7, <2>8
<1>7. next.kind = "page" \/ next.kind = "token"
  BY DEF Ended
<1> QED
  BY <1>5, <1>6, <1>7

LEMMA TokensAdvance ==
  ASSUME TypeOK, NEW c \in Cursor, c.kind = "token", NEW p \in Nat, Aligned(c, p),
         NEW more \in BOOLEAN, PageAt(c) # {},
         ~Ended(AfterPage(c, p, PageAt(c), more))
  PROVE  LET next == AfterPage(c, p, PageAt(c), more)
         IN  /\ Aligned(next, p + Cardinality(PageAt(c)))
             /\ Passed(next) \subseteq Passed(c) \cup PageAt(c)
<1> DEFINE page == PageAt(c)
           next == AfterPage(c, p, page, more)
           L == Last(page)
           A == {y \in listed : y <= c.n}
           B == {y \in listed : y <= L}
<1>0. c.n \in Nat /\ listed \in SUBSET Nat /\ IsFiniteSet(listed)
  BY ListIsFinite DEF Cursor
<1>1. next = [kind |-> "token", n |-> L]
  BY DEF AfterPage, NextCursor, Ended, Done
<1>2. L \in page /\ L \in listed /\ (\A y \in page : y <= L) /\ page \in SUBSET listed
  BY PagesAreListed, ListIsFinite, FS_Subset, LastIsOnThePage
<1>3. c.n < L /\ L \in Nat
  BY <1>2, PageIsBehindToken
<1>4. ASSUME NEW y \in listed, y <= c.n PROVE y <= L
  BY <1>0, <1>3, <1>4
<1>5. A \in SUBSET B /\ page \in SUBSET B
  BY <1>2, <1>4
<1>6. A \cap page = {}
  <2>1. ASSUME NEW y \in page PROVE ~(y <= c.n)
    BY <1>0, PageIsBehindToken
  <2> QED
    BY <2>1
<1>7. IsFiniteSet(B)
  <2>1. B \in SUBSET listed
    OBVIOUS
  <2> QED
    BY <1>0, <2>1, FS_Subset
<1>8. /\ Cardinality(A) \in Nat /\ Cardinality(page) \in Nat /\ Cardinality(B) \in Nat
      /\ Cardinality(A) + Cardinality(page) <= Cardinality(B)
  BY <1>5, <1>6, <1>7, PartsAddUp
<1>9. Cap <= p /\ p <= Cardinality(A) /\ Cap \in Nat
  BY CatalogAssumption DEF Aligned
<1>10. Aligned(next, p + Cardinality(page))
  BY <1>1, <1>8, <1>9 DEF Aligned
<1>11. ASSUME NEW x \in listed, x <= L PROVE x \in Passed(c) \/ x \in page
  <2>1. CASE x <= c.n
    BY <2>1 DEF Passed
  <2>2. CASE ~(x <= c.n)
    <3>1. x \in Beyond(c.n) /\ L \in Beyond(c.n)
      BY <1>0, <1>2, <1>3, <2>2 DEF Beyond
    <3>2. Beyond(c.n) \in SUBSET Nat /\ IsFiniteSet(Beyond(c.n))
      BY <1>0, BeyondIsFinite
    <3>3. Rank(Beyond(c.n), L) < PageSize /\ Rank(Beyond(c.n), L) \in Nat
          /\ Rank(Beyond(c.n), x) \in Nat /\ PageSize \in Nat
      BY <1>2, <3>1, <3>2, PageOfToken, RankIsBounded, CatalogAssumption
    <3>4. x = L \/ x < L
      BY <1>0, <1>3, <1>11
    <3>5. x < L => Rank(Beyond(c.n), x) < Rank(Beyond(c.n), L)
      BY <3>1, <3>2, RankIsStrict
    <3> QED
      BY <3>1, <3>3, <3>4, <3>5, PageOfToken
  <2> QED
    BY <2>1, <2>2
<1>12. Passed(next) = B
  BY <1>1 DEF Passed
<1> QED
  BY <1>10, <1>11, <1>12

-----------------------------------------------------------------------------
(* The inductive invariant.  A walk vouches for what lies before its       *)
(* cursor: all of it was unlisted at some time, or has been written, or is *)
(* about to be.                                                            *)
Vouched(x, todo) == x \in absent \/ row[x].seen \/ \E e \in todo : e.id = x

Walk(c, p, todo) ==
  /\ Aligned(c, p)
  /\ \A x \in Passed(c) : Vouched(x, todo)

RunWalk == ~run.skipped => Walk(run.cursor, run.progress, {})

TaskWalk(t) ==
  /\ task[t].pc = "fetch" /\ ~task[t].skipped
       => Walk(task[t].cursor, task[t].progress, {})
  /\ task[t].pc \in {"upsert", "write"} /\ ~task[t].skipped /\ ~Ended(task[t].next)
       => Walk(task[t].next, task[t].upTo, task[t].todo)
  /\ task[t].pc \in {"upsert", "write"} /\ ShouldRunDelistPass(task[t])
       => \A x \in Contents : Vouched(x, task[t].todo)

Walks == RunWalk /\ \A t \in Tasks : TaskWalk(t)

\* The history remembers what is not listed.
Recalled == \A x \in Contents : x \in listed \/ x \in absent

SeenIsKnown == \A x \in Contents : row[x].seen => row[x].known

\* Only a batch that is being written has contents left to write.
TodoInv == \A t \in Tasks : task[t].pc # "upsert" => task[t].todo = {}

\* The holder of the run has not forgotten a skipped page that the run knows.
HolderInv == \A t \in Tasks : Holds(t) /\ task[t].skipped => run.skipped

ScanInv ==
  /\ Recalled /\ SeenIsKnown /\ TodoInv /\ HolderInv
  /\ sound => Walks

\* Nothing that was vouched for is lost.
Grows ==
  /\ listed \subseteq listed' /\ \A x \in listed' : x \in listed \/ x \in absent
  /\ absent' = absent
  /\ \A x \in Contents : row[x].seen => row'[x].seen

LEMMA WalkKept ==
  ASSUME TypeOK, TypeOK', Grows, NEW c \in Cursor, NEW p \in Nat,
         NEW todo, NEW left, Walk(c, p, todo),
         \A x \in Contents : Vouched(x, todo) => Vouched(x, left)'
  PROVE  Walk(c, p, left)'
<1>0. /\ c.n \in Nat /\ Cap \in Nat
      /\ listed \in SUBSET Nat /\ IsFiniteSet(listed)
      /\ listed' \in SUBSET Nat /\ IsFiniteSet(listed')
      /\ listed' \in SUBSET Contents
  <2>1. listed' \in SUBSET Contents /\ IsFiniteSet(Contents) /\ Contents \subseteq Nat
    BY CatalogAssumption DEF TypeOK
  <2> QED
    BY <2>1, ListIsFinite, FS_Subset, CatalogAssumption DEF Cursor
<1>1. ASSUME NEW x \in listed PROVE Rank(listed, x) <= Rank(listed', x)
  <2>1. {y \in listed : y < x} \in SUBSET {y \in listed' : y < x}
    BY DEF Grows
  <2>2. {y \in listed' : y < x} \in SUBSET listed'
    OBVIOUS
  <2>3. IsFiniteSet({y \in listed' : y < x})
    BY <1>0, <2>2, FS_Subset
  <2> QED
    BY <2>1, <2>3, FS_Subset DEF Rank
<1>2. (Aligned(c, p))'
  <2>1. {y \in listed : y <= c.n} \in SUBSET {y \in listed' : y <= c.n}
    BY DEF Grows
  <2>2. {y \in listed' : y <= c.n} \in SUBSET listed'
    OBVIOUS
  <2>3. IsFiniteSet({y \in listed' : y <= c.n})
    BY <1>0, <2>2, FS_Subset
  <2>4. Cardinality({y \in listed : y <= c.n}) <= Cardinality({y \in listed' : y <= c.n})
    BY <2>1, <2>3, FS_Subset
  <2>5. IsFiniteSet({y \in listed : y <= c.n})
    BY <2>1, <2>3, FS_Subset
  <2>6. /\ Cardinality({y \in listed : y <= c.n}) \in Nat
        /\ Cardinality({y \in listed' : y <= c.n}) \in Nat
    BY <2>3, <2>5, FS_CardinalityType
  <2> QED
    BY <2>4, <2>6 DEF Walk, Aligned
<1>3. ASSUME NEW x \in Passed(c)' PROVE Vouched(x, left)'
  <2>1. x \in listed' /\ x \in Contents
    BY <1>0 DEF Passed
  <2>2. CASE x \notin listed
    BY <2>1, <2>2 DEF Grows, Vouched
  <2>3. CASE x \in listed
    <3>1. x \in Passed(c)
      <4>1. CASE c.kind = "page"
        <5>1. Rank(listed', x) < c.n * PageSize
          BY <1>3, <4>1 DEF Passed
        <5>2. Rank(listed, x) \in Nat /\ Rank(listed', x) \in Nat /\ c.n * PageSize \in Nat
          BY <1>0, <2>1, <2>3, RankIsBounded, SpanOfPage
        <5> QED
          BY <1>1, <2>3, <4>1, <5>1, <5>2 DEF Passed
      <4>2. CASE c.kind # "page"
        BY <1>3, <2>3, <4>2 DEF Passed
      <4> QED
        BY <4>1, <4>2
    <3> QED
      BY <2>1, <3>1 DEF Walk
  <2> QED
    BY <2>2, <2>3
<1> QED
  BY <1>2, <1>3 DEF Walk

LEMMA VouchedKept ==
  ASSUME Grows, NEW todo
  PROVE  \A x \in Contents : Vouched(x, todo) => Vouched(x, todo)'
BY DEF Grows, Vouched

LEMMA TaskWalkKept ==
  ASSUME TypeOK, TypeOK', Grows, NEW u \in Tasks, task'[u] = task[u], TaskWalk(u)
  PROVE  TaskWalk(u)'
<1>1. task[u].cursor \in Cursor /\ task[u].progress \in Nat
      /\ task[u].next \in Outcome /\ task[u].upTo \in Nat
  BY HeldTypes
<1>2. ASSUME task[u].pc = "fetch", ~task[u].skipped
      PROVE  Walk(task[u].cursor, task[u].progress, {})'
  <2>1. PICK c \in Cursor, p \in Nat : c = task[u].cursor /\ p = task[u].progress
    BY <1>1
  <2>2. Walk(c, p, {})'
    BY <1>2, <2>1, VouchedKept, WalkKept DEF TaskWalk
  <2> QED
    BY <2>1, <2>2

<1>3. ASSUME task[u].pc \in {"upsert", "write"}, ~task[u].skipped, ~Ended(task[u].next)
      PROVE  Walk(task[u].next, task[u].upTo, task[u].todo)'
  <2>1. task[u].next \in Cursor
    BY <1>1, <1>3, OpenOutcomesAreCursors
  <2>2. PICK c \in Cursor, p \in Nat, todo \in {task[u].todo} :
               c = task[u].next /\ p = task[u].upTo /\ todo = task[u].todo
    BY <1>1, <2>1
  <2>3. Walk(c, p, todo)
    BY <1>3, <2>2 DEF TaskWalk
  <2>4. Walk(c, p, todo)'
    BY <2>3, VouchedKept, WalkKept
  <2>5. c = (task[u].next)' /\ p = (task[u].upTo)' /\ todo = (task[u].todo)'
    BY <2>2
  <2>6. task'[u].next = task[u].next /\ task'[u].upTo = task[u].upTo
        /\ task'[u].todo = task[u].todo
    OBVIOUS
  <2> QED
    BY <2>2, <2>4, <2>6
<1>4. ASSUME task[u].pc \in {"upsert", "write"}, ShouldRunDelistPass(task[u]),
             NEW x \in Contents
      PROVE  Vouched(x, task[u].todo)'
  <2>1. PICK todo \in {task[u].todo} : todo = task[u].todo
    OBVIOUS
  <2>2. Vouched(x, todo)
    BY <1>4, <2>1 DEF TaskWalk
  <2>3. Vouched(x, todo)'
    BY <2>2, VouchedKept
  <2> QED
    BY <2>1, <2>3
<1>5. ShouldRunDelistPass(task[u])' <=> ShouldRunDelistPass(task[u])
  BY DEF ShouldRunDelistPass, Trusted
<1>6. Ended(task[u].next)' <=> Ended(task[u].next)
  BY DEF Ended
<1> QED
  BY <1>2, <1>3, <1>4, <1>5, <1>6 DEF TaskWalk

LEMMA RunWalkKept ==
  ASSUME TypeOK, TypeOK', Grows, RunWalk, ~run.skipped
  PROVE  \E c \in Cursor, p \in Nat :
           c = run.cursor /\ p = run.progress /\ Walk(c, p, {})'
<1>1. run.cursor \in Cursor /\ run.progress \in Nat
  <2>1. run \in Run
    BY DEF TypeOK
  <2> QED
    BY <2>1 DEF Run
<1>2. PICK c \in Cursor, p \in Nat : c = run.cursor /\ p = run.progress
  BY <1>1
<1>3. Walk(c, p, {})
  BY <1>2 DEF RunWalk
<1>4. Walk(c, p, {})'
  BY <1>3, VouchedKept, WalkKept
<1> QED
  BY <1>2, <1>4

\* Before the first page there is nothing.
LEMMA FirstWalk ==
  ASSUME TypeOK'
  PROVE  Walk(FirstPage, 0, {})'
<1>1. listed' \in SUBSET Nat /\ IsFiniteSet(listed')
  <2>1. listed' \in SUBSET Contents
    BY DEF TypeOK
  <2> QED
    BY <2>1, CatalogAssumption, FS_Subset
<1>2. 0 * PageSize = 0
  BY CatalogAssumption
<1>3. ASSUME NEW x \in listed' PROVE ~(Rank(listed', x) < 0)
  <2>1. Rank(listed', x) \in Nat
    BY <1>1, RankIsBounded
  <2> QED
    BY <2>1
<1>4. Passed(FirstPage)' = {}
  BY <1>2, <1>3 DEF Passed, FirstPage
<1> QED
  BY <1>2, <1>4 DEF Walk, Aligned, FirstPage

\* A step that changes neither the list nor a row, or only adds to them.
LEMMA StepsGrow ==
  ASSUME TypeOK, Recalled, SeenIsKnown, NEW t \in Tasks,
         \/ Claim(t) \/ ScanStep(t) \/ FetchBlank(t) \/ ChunkFails(t) \/ RunFails(t)
         \/ SkipPage(t) \/ \E e \in task[t].todo : ContentFails(t, e)
  PROVE  Grows /\ Recalled' /\ SeenIsKnown'
<1>1. CASE listed' = listed /\ absent' = absent /\ row' = row
  BY <1>1 DEF Grows, Recalled, SeenIsKnown
<1>2. ASSUME NEW e \in task[t].todo, UpsertContent(t, e)
      PROVE  Grows /\ Recalled' /\ SeenIsKnown'
  <2>1. listed' = listed /\ absent' = absent /\ row' = [row EXCEPT ![e.id] = Upserted(e)]
    BY <1>2 DEF UpsertContent, vendor, history
  <2>2. ASSUME NEW x \in Contents
        PROVE  row'[x] = row[x] \/ (row'[x].seen /\ row'[x].known)
    BY <2>1 DEF TypeOK, Upserted
  <2> QED
    BY <2>1, <2>2 DEF Grows, Recalled, SeenIsKnown
<1>3. CASE FinishChunk(t)
  <2>1. listed' = listed /\ absent' = absent
        /\ (row' = row \/ row' = [x \in Contents |-> Stamped(row[x])])
    BY <1>3 DEF FinishChunk, vendor, history
  <2>2. ASSUME NEW x \in Contents
        PROVE  row'[x].seen = row[x].seen /\ row'[x].known = row[x].known
    <3>1. row[x] \in Row
      BY DEF TypeOK
    <3> QED
      BY <2>1, <3>1 DEF Stamped, Row
  <2> QED
    BY <2>1, <2>2 DEF Grows, Recalled, SeenIsKnown
<1>4. CASE \/ Claim(t) \/ FetchPage(t) \/ Complete(t) \/ Tick(t) \/ GivesUp(t) \/ FetchBlank(t)
           \/ ChunkFails(t) \/ RunFails(t) \/ SkipPage(t)
           \/ \E e \in task[t].todo : ContentFails(t, e)
  <2>1. listed' = listed /\ absent' = absent /\ row' = row
    BY <1>4 DEF Claim, FetchPage, Complete, Tick, GivesUp, FetchBlank, ChunkFails, RunFails,
                SkipPage, ContentFails, vendor, history
  <2> QED
    BY <1>1, <2>1
<1> QED
  BY <1>2, <1>3, <1>4 DEF ScanStep

LEMMA OutsideGrows ==
  ASSUME TypeOK, Recalled, SeenIsKnown,
         \/ LoseLease \/ DeltaStep \/ DeltaFails \/ WriteEager
         \/ \E x \in Contents : FetchByBarcode(x) \/ List(x) \/ Reprice(x)
  PROVE  Grows /\ Recalled' /\ SeenIsKnown'
<1>1. CASE listed' = listed /\ absent' = absent /\ row' = row
  BY <1>1 DEF Grows, Recalled, SeenIsKnown
<1>2. CASE WriteChanges
  <2>1. listed' = listed /\ absent' = absent /\ row' = [x \in Contents |-> Refreshed(x)]
    BY <1>2 DEF WriteChanges, vendor, history
  <2>2. ASSUME NEW x \in Contents
        PROVE  row'[x].seen = row[x].seen /\ row'[x].known = row[x].known
    <3>1. row[x] \in Row
      BY DEF TypeOK
    <3> DEFINE new == (CHOOSE e \in delta.page : e.id = x).price
               stays == row[x].delisted /\ x \notin delta.stale
    <3>2. \/ Refreshed(x) = [row[x] EXCEPT !.price = new, !.delisted = stays]
          \/ Refreshed(x) = row[x]
      BY DEF Refreshed
    <3> HIDE DEF new, stays
    <3> QED
      BY <2>1, <3>1, <3>2 DEF Row
  <2> QED
    BY <2>1, <2>2 DEF Grows, Recalled, SeenIsKnown
<1>3. CASE WriteEager
  <2>1. listed' = listed /\ absent' = absent /\ row' = [row EXCEPT ![eager.id] = Upserted(eager)]
    BY <1>3 DEF WriteEager, vendor, history
  <2>2. ASSUME NEW x \in Contents
        PROVE  row'[x] = row[x] \/ (row'[x].seen /\ row'[x].known)
    BY <2>1 DEF TypeOK, Upserted
  <2> QED
    BY <2>1, <2>2 DEF Grows, Recalled, SeenIsKnown
<1>4. ASSUME NEW x \in Contents, List(x) PROVE Grows /\ Recalled' /\ SeenIsKnown'
  <2>1. listed' = listed \cup {x} /\ absent' = absent /\ row' = row /\ x \notin listed
    BY <1>4 DEF List, history
  <2> QED
    BY <2>1 DEF Grows, Recalled, SeenIsKnown
<1>5. CASE \/ LoseLease \/ FetchInventory \/ ComputeVariantChanges \/ DeltaFails
           \/ \E x \in Contents : FetchByBarcode(x) \/ Reprice(x)
  <2>1. listed' = listed /\ absent' = absent /\ row' = row
    BY <1>5 DEF LoseLease, FetchInventory, ComputeVariantChanges, DeltaFails, FetchByBarcode,
                Reprice, vendor, history
  <2> QED
    BY <1>1, <2>1
<1> QED
  BY <1>2, <1>3, <1>4, <1>5 DEF DeltaStep

\* A step of one task leaves the walks of the others alone.
LEMMA OthersKept ==
  ASSUME TypeOK, TypeOK', Grows, NEW t \in Tasks, NEW next, task' = [task EXCEPT ![t] = next],
         \A u \in Tasks : TaskWalk(u), TaskWalk(t)'
  PROVE  \A u \in Tasks : TaskWalk(u)'
<1>1. ASSUME NEW u \in Tasks, u # t PROVE TaskWalk(u)'
  <2>1. task'[u] = task[u]
    BY <1>1 DEF TypeOK
  <2> QED
    BY <2>1, TaskWalkKept
<1> QED
  BY <1>1

LEMMA RunKept ==
  ASSUME TypeOK, TypeOK', Grows, RunWalk,
         run'.cursor = run.cursor, run'.progress = run.progress, run'.skipped = run.skipped
  PROVE  RunWalk'
<1> SUFFICES ASSUME ~run.skipped PROVE Walk(run.cursor, run.progress, {})'
  BY DEF RunWalk
<1>1. PICK c \in Cursor, p \in Nat : c = run.cursor /\ p = run.progress /\ Walk(c, p, {})'
  BY RunWalkKept
<1> QED
  BY <1>1

\* An idle task, and a run that is none, claim nothing.
LEMMA IdleWalk ==
  ASSUME NEW t \in Tasks, task'[t] = IdleTask
  PROVE  TaskWalk(t)'
BY DEF TaskWalk, IdleTask

LEMMA NoRunWalk ==
  ASSUME TypeOK', run'.cursor = FirstPage, run'.progress = 0
  PROVE  RunWalk'
BY FirstWalk DEF RunWalk

\* What a request leads to, when nothing was skipped: the page that came is
\* all that lies between the cursor and the next one.
LEMMA FetchedWalk ==
  ASSUME TypeOK, Recalled, NEW t \in Tasks, TaskWalk(t), FetchPage(t), ~task[t].skipped
  PROVE  LET todo == {EntryOf(x) : x \in PageAt(Effective(t))}
         IN  \E next \in Outcome :
               /\ Fetched(t, PageAt(Effective(t)), next)
               /\ ~Ended(next)
                    => Walk(next, task[t].progress + Cardinality(PageAt(Effective(t))), todo)
               /\ next.kind \in {"reached-end", "empty-page"}
                    => \A x \in Contents : Vouched(x, todo)
<1> DEFINE page == PageAt(Effective(t))
           todo == {EntryOf(x) : x \in page}
<1>1. task[t].pc = "fetch"
  BY DEF FetchPage
<1>2. PICK c \in Cursor, p \in Nat :
        /\ c = task[t].cursor /\ p = task[t].progress
        /\ Aligned(c, p) /\ \A x \in Passed(c) : Vouched(x, {})
  BY <1>1, HeldTypes DEF TaskWalk, Walk
<1>3. Effective(t) = c
  <2>1. c.kind = "token" => Cap <= p
    BY <1>2 DEF Aligned
  <2>2. ~(c.kind = "token" /\ p < Cap)
    BY <2>1, CatalogAssumption
  <2> QED
    BY <1>2, <2>2 DEF Effective
<1>4. page \in SUBSET listed /\ IsFiniteSet(page) /\ page = PageAt(c)
  BY <1>3, PagesAreListed
<1>5. ASSUME NEW x \in Passed(c) \cup page PROVE Vouched(x, todo)
  <2>1. CASE x \in page
    <3>1. EntryOf(x) \in todo /\ EntryOf(x).id = x
      BY <2>1 DEF EntryOf
    <3> QED
      BY <3>1 DEF Vouched
  <2>2. CASE x \in Passed(c)
    BY <1>2, <2>2 DEF Vouched
  <2> QED
    BY <1>5, <2>1, <2>2
<1>6. ASSUME listed \subseteq Passed(c) \cup page
      PROVE  \A x \in Contents : Vouched(x, todo)
  BY <1>5, <1>6 DEF Recalled, Vouched
<1>7. CASE page = {}
  <2>1. Fetched(t, page, Done("empty-page")) /\ Done("empty-page") \in Outcome
        /\ Ended(Done("empty-page"))
    BY <1>7 DEF FetchPage, Done, Outcome, Ended
  <2>2. listed \subseteq Passed(c) \cup page
    BY <1>4, <1>7, EmptyPageIsTheEnd
  <2> QED
    BY <1>6, <2>1, <2>2
<1>8. CASE page # {}
  <2>1. PICK more \in BOOLEAN : Fetched(t, page, AfterPage(c, p, page, more))
    BY <1>2, <1>3, <1>8 DEF FetchPage
  <2> DEFINE next == AfterPage(c, p, page, more)
  <2>2. next \in Outcome
    BY <1>4, <1>8, NextPageTypes
  <2>3. ASSUME ~Ended(next)
        PROVE  Walk(next, p + Cardinality(page), todo)
    <3>1. Aligned(next, p + Cardinality(page)) /\ Passed(next) \subseteq Passed(c) \cup page
      <4>1. CASE c.kind = "page"
        BY <1>2, <1>4, <1>8, <2>3, <4>1, NumbersAdvance
      <4>2. CASE c.kind = "token"
        BY <1>2, <1>4, <1>8, <2>3, <4>2, TokensAdvance
      <4> QED
        BY <4>1, <4>2 DEF Cursor
    <3> QED
      BY <1>5, <3>1 DEF Walk
  <2>4. ASSUME next.kind \in {"reached-end", "empty-page"}
        PROVE  \A x \in Contents : Vouched(x, todo)
    <3>1. p + Cardinality(page) >= Total \/ IsLastDocumentedPage(c)
      BY <2>4 DEF AfterPage, NextCursor, Done
    <3>2. listed \subseteq Passed(c) \cup page
      <4>1. CASE c.kind = "page"
        BY <1>2, <1>4, <3>1, <4>1, NumbersReachTheEnd
      <4>2. CASE c.kind = "token"
        BY <1>2, <1>4, <3>1, <4>2, TokensReachTheEnd DEF IsLastDocumentedPage
      <4> QED
        BY <4>1, <4>2 DEF Cursor
    <3> QED
      BY <1>6, <3>2
  <2> QED
    BY <1>2, <2>1, <2>2, <2>3, <2>4
<1> QED
  BY <1>7, <1>8

-----------------------------------------------------------------------------
(* The steps of a task.                                                    *)
LEMMA FetchKeepsWalks ==
  ASSUME TypeOK, TypeOK', Recalled, Grows, Walks, NEW t \in Tasks, FetchPage(t) \/ FetchBlank(t), sound'
  PROVE  Walks'
<1>1. run' = run
  BY DEF FetchPage, FetchBlank
<1>2. RunWalk'
  BY <1>1, RunKept DEF Walks
<1>3. \E page \in SUBSET listed, next \in Outcome : Fetched(t, page, next)
  <2>1. Done("empty-page") \in Outcome
    BY DEF Done, Outcome
  <2>2. CASE FetchBlank(t)
    BY <2>1, <2>2 DEF FetchBlank
  <2>3. CASE FetchPage(t)
    <3> DEFINE page == PageAt(Effective(t))
    <3>1. page \in SUBSET listed /\ Effective(t) \in Cursor /\ task[t].progress \in Nat
      BY EffectiveIsACursor, PagesAreListed, HeldTypes
    <3>2. CASE page = {}
      BY <2>1, <2>3, <3>2 DEF FetchPage
    <3>3. CASE page # {}
      <4>1. PICK more \in BOOLEAN :
              Fetched(t, page, AfterPage(Effective(t), task[t].progress, page, more))
        BY <2>3, <3>3 DEF FetchPage
      <4> QED
        BY <3>1, <3>3, <4>1, NextPageTypes
    <3> QED
      BY <3>2, <3>3
  <2> QED
    BY <2>2, <2>3
<1>4. PICK page \in SUBSET listed, next \in Outcome : Fetched(t, page, next)
  BY <1>3
<1>5. TaskWalk(t)'
  <2> DEFINE Became(left, then, upTo) ==
               task'[t] = [task[t] EXCEPT !.pc = "upsert", !.todo = left,
                                          !.next = then, !.upTo = upTo]
  <2>0. ASSUME NEW some, NEW then, Fetched(t, some, then)
        PROVE  /\ task'[t].pc = "upsert" /\ task'[t].skipped = task[t].skipped
               /\ task'[t].todo = {EntryOf(x) : x \in some} /\ task'[t].next = then
               /\ task'[t].upTo = task[t].progress + Cardinality(some)
               /\ task'[t].progress = task[t].progress
    <3>1. Became({EntryOf(x) : x \in some}, then, task[t].progress + Cardinality(some))
      BY <2>0 DEF Fetched, TypeOK
    <3>2. task[t] \in Task
      BY HeldTypes
    <3> QED
      BY <3>1, <3>2 DEF Task
  <2>1. CASE task[t].skipped
    BY <1>4, <2>0, <2>1 DEF TaskWalk, ShouldRunDelistPass, Trusted
  <2>2. CASE FetchBlank(t)
    <3>1. task[t].progress = 0
      BY <2>2 DEF FetchBlank
    <3>2. task'[t].next.kind = "empty-page" /\ task'[t].progress = 0 /\ task'[t].pc = "upsert"
      BY <2>0, <2>2, <3>1 DEF FetchBlank, Done
    <3> QED
      BY <3>2 DEF TaskWalk, ShouldRunDelistPass, Trusted, Ended
  <2>3. CASE FetchPage(t) /\ ~task[t].skipped
    <3> DEFINE came == PageAt(Effective(t))
               todo == {EntryOf(x) : x \in came}
               upTo == task[t].progress + Cardinality(came)
    <3>1. PICK then \in Outcome :
            /\ Fetched(t, came, then)
            /\ ~Ended(then) => Walk(then, upTo, todo)
            /\ then.kind \in {"reached-end", "empty-page"}
                 => \A x \in Contents : Vouched(x, todo)
      BY <2>3, FetchedWalk DEF Walks
    <3>2. PICK left \in {todo}, sum \in {upTo} : left = todo /\ sum = upTo
      OBVIOUS
    <3>3. task'[t].todo = left /\ task'[t].next = then /\ task'[t].upTo = sum
          /\ task'[t].pc = "upsert"
      BY <2>0, <3>1, <3>2
    <3>4. ASSUME ~Ended(then) PROVE Walk(then, sum, left)'
      <4>1. then \in Cursor
        BY <3>4, OpenOutcomesAreCursors
      <4>2. sum \in Nat
        <5>1. IsFiniteSet(came)
          BY EffectiveIsACursor, PagesAreListed
        <5> QED
          BY <3>2, <5>1, FS_CardinalityType, HeldTypes
      <4>3. Walk(then, sum, left)
        BY <3>1, <3>2, <3>4
      <4> QED
        BY <4>1, <4>2, <4>3, VouchedKept, WalkKept
    <3>5. ASSUME then.kind \in {"reached-end", "empty-page"}, NEW x \in Contents
          PROVE  Vouched(x, left)'
      <4>1. Vouched(x, left)
        BY <3>1, <3>2, <3>5
      <4> QED
        BY <4>1, VouchedKept
    <3> QED
      BY <3>3, <3>4, <3>5 DEF TaskWalk, ShouldRunDelistPass, Ended
  <2> QED
    BY <2>1, <2>2, <2>3
<1> QED
  BY <1>2, <1>4, <1>5, OthersKept DEF Fetched, Walks

LEMMA WriteKeepsWalks ==
  ASSUME TypeOK, TypeOK', Grows, Walks, NEW t \in Tasks,
         FinishChunk(t) \/ \E e \in task[t].todo : UpsertContent(t, e)
  PROVE  Walks'
<1>1. run' = run
  BY DEF FinishChunk, UpsertContent
<1>2. RunWalk'
  BY <1>1, RunKept DEF Walks
<1> DEFINE Moved(pc, left) == [task[t] EXCEPT !.pc = pc, !.todo = left]
<1>3. \E pc \in {"upsert", "write"}, left \in SUBSET task[t].todo :
        /\ task[t].pc = "upsert"
        /\ task' = [task EXCEPT ![t] = Moved(pc, left)]
        /\ \A x \in Contents : Vouched(x, task[t].todo) => Vouched(x, left)'
  <2>0. task[t] \in Task
    BY HeldTypes
  <2>1. CASE FinishChunk(t)
    <3>1. PICK todo \in {task[t].todo} : todo = task[t].todo
      OBVIOUS
    <3>2. [task[t] EXCEPT !.pc = "write"] = Moved("write", todo)
      BY <2>0, <3>1 DEF Task
    <3>3. task' = [task EXCEPT ![t] = Moved("write", todo)] /\ task[t].pc = "upsert"
      BY <2>1, <3>2 DEF FinishChunk
    <3>4. \A x \in Contents : Vouched(x, todo) => Vouched(x, todo)'
      BY VouchedKept
    <3> QED
      BY <3>1, <3>3, <3>4
  <2>2. ASSUME NEW e \in task[t].todo, UpsertContent(t, e)
        PROVE  \E left \in SUBSET task[t].todo :
                 /\ task[t].pc = "upsert"
                 /\ task' = [task EXCEPT ![t] = Moved("upsert", left)]
                 /\ \A x \in Contents : Vouched(x, task[t].todo) => Vouched(x, left)'
    <3>1. PICK left \in SUBSET task[t].todo : left = task[t].todo \ {e}
      OBVIOUS
    <3>2. [task[t] EXCEPT !.todo = left] = Moved("upsert", left) /\ task[t].pc = "upsert"
      BY <2>0, <2>2 DEF Task, UpsertContent
    <3>3. task' = [task EXCEPT ![t].todo = left]
      BY <2>2, <3>1 DEF UpsertContent
    <3>4. task' = [task EXCEPT ![t] = Moved("upsert", left)]
      BY <3>2, <3>3
    <3>5. ASSUME NEW x \in Contents, Vouched(x, task[t].todo) PROVE Vouched(x, left)'
      <4>1. row' = [row EXCEPT ![e.id] = Upserted(e)] /\ absent' = absent
        BY <2>2 DEF UpsertContent, history
      <4>2. CASE x = e.id
        <5>1. row'[x].seen
          BY <4>1, <4>2 DEF TypeOK, Upserted
        <5> QED
          BY <5>1 DEF Vouched
      <4>3. CASE x # e.id
        <5>1. row'[x] = row[x]
          BY <4>1, <4>3 DEF TypeOK
        <5>2. ASSUME NEW f \in task[t].todo, f.id = x PROVE f \in left
          BY <3>1, <4>3, <5>2
        <5> QED
          BY <3>5, <4>1, <5>1, <5>2 DEF Vouched
      <4> QED
        BY <4>2, <4>3
    <3> QED
      BY <3>2, <3>4, <3>5
  <2> QED
    BY <2>1, <2>2
<1>4. PICK pc \in {"upsert", "write"}, left \in SUBSET task[t].todo :
        /\ task[t].pc = "upsert"
        /\ task' = [task EXCEPT ![t] = Moved(pc, left)]
        /\ \A x \in Contents : Vouched(x, task[t].todo) => Vouched(x, left)'
  BY <1>3
<1>5. TaskWalk(t)'
  <2>1. /\ task'[t].pc = pc /\ task'[t].todo = left /\ task'[t].next = task[t].next
        /\ task'[t].upTo = task[t].upTo /\ task'[t].skipped = task[t].skipped
        /\ task'[t].progress = task[t].progress
    <3>1. task[t] \in Task /\ task'[t] = Moved(pc, left)
      BY <1>4, HeldTypes DEF TypeOK
    <3> QED
      BY <3>1 DEF Task
  <2>2. ASSUME ~task[t].skipped, ~Ended(task[t].next)
        PROVE  Walk(task[t].next, task[t].upTo, task[t].todo)'
    <3>1. task[t].next \in Cursor /\ task[t].upTo \in Nat
      BY <2>2, HeldTypes, OpenOutcomesAreCursors
    <3>2. PICK c \in Cursor, p \in Nat, todo \in {task[t].todo} :
            c = task[t].next /\ p = task[t].upTo /\ todo = task[t].todo
      BY <3>1
    <3>3. Walk(c, p, todo)
      BY <1>4, <2>2, <3>2 DEF Walks, TaskWalk
    <3>4. \A x \in Contents : Vouched(x, todo) => Vouched(x, left)'
      BY <1>4, <3>2
    <3>5. Walk(c, p, left)'
      BY <3>3, <3>4, WalkKept
    <3> QED
      BY <2>1, <3>2, <3>5
  <2>3. ASSUME ShouldRunDelistPass(task[t]), NEW x \in Contents
        PROVE  Vouched(x, left)'
    BY <1>4, <2>3 DEF Walks, TaskWalk
  <2>4. ShouldRunDelistPass(task'[t]) <=> ShouldRunDelistPass(task[t])
    BY <2>1 DEF ShouldRunDelistPass, Trusted
  <2> QED
    BY <2>1, <2>2, <2>3, <2>4 DEF TaskWalk
<1> QED
  BY <1>2, <1>4, <1>5, OthersKept DEF Walks

\* Claim and tick copy the cursor between the run and its task.
LEMMA CopiedWalk ==
  ASSUME NEW t \in Tasks, NEW c \in Cursor, NEW p \in Nat, NEW skipped \in BOOLEAN,
         task'[t] = [IdleTask EXCEPT !.pc = "fetch", !.cursor = c,
                                     !.progress = p, !.skipped = skipped],
         ~skipped => Walk(c, p, {})'
  PROVE  TaskWalk(t)'
<1>1. /\ task'[t].pc = "fetch" /\ task'[t].cursor = c /\ task'[t].progress = p
      /\ task'[t].skipped = skipped
  BY DEF IdleTask
<1> QED
  BY <1>1 DEF TaskWalk

LEMMA QueueKeepsWalks ==
  ASSUME TypeOK, TypeOK', Grows, Walks, TodoInv, HolderInv, NEW t \in Tasks,
         \/ Claim(t) \/ Complete(t) \/ Tick(t) \/ GivesUp(t)
         \/ ChunkFails(t) \/ RunFails(t) \/ SkipPage(t)
  PROVE  Walks'
<1> USE HeldTypes, RestingTypes
<1>1. CASE Claim(t)
  <2>1. RunWalk'
    <3>1. run' = [run EXCEPT !.status = "running", !.holder = t] /\ run \in Run
      BY <1>1 DEF Claim
    <3>2. run'.cursor = run.cursor /\ run'.progress = run.progress /\ run'.skipped = run.skipped
      BY <3>1 DEF Run
    <3> QED
      BY <3>2, RunKept DEF Walks
  <2>2. PICK c \in Cursor, p \in Nat, s \in BOOLEAN :
          c = run.cursor /\ p = run.progress /\ s = run.skipped
    OBVIOUS
  <2>3. ~s => Walk(c, p, {})'
    BY <2>2, RunWalkKept DEF Walks
  <2>4. task' = [task EXCEPT ![t] = [IdleTask EXCEPT !.pc = "fetch", !.cursor = c,
                                       !.progress = p, !.skipped = s]]
    BY <1>1, <2>2 DEF Claim
  <2>5. TaskWalk(t)'
    <3>1. task'[t] = [IdleTask EXCEPT !.pc = "fetch", !.cursor = c,
                                      !.progress = p, !.skipped = s]
      BY <2>4 DEF TypeOK
    <3> QED
      BY <2>3, <3>1, CopiedWalk
  <2> QED
    BY <2>1, <2>4, <2>5, OthersKept DEF Walks
<1>2. CASE Tick(t)
  <2>1. task[t].next \in Cursor
    BY <1>2, OpenOutcomesAreCursors DEF Tick
  <2>2. PICK c \in Cursor, p \in Nat, s \in BOOLEAN :
          c = task[t].next /\ p = task[t].upTo /\ s = task[t].skipped
    BY <2>1
  <2>3. ~s => Walk(c, p, {})'
    <3>1. ~s => Walk(c, p, {})
      <4>1. task[t].pc = "write" /\ task[t].todo = {} /\ ~Ended(task[t].next)
        BY <1>2 DEF Tick, TodoInv
      <4> QED
        BY <2>2, <4>1 DEF Walks, TaskWalk
    <3> QED
      BY <3>1, VouchedKept, WalkKept
  <2>4. task' = [task EXCEPT ![t] = [IdleTask EXCEPT !.pc = "fetch", !.cursor = c,
                                       !.progress = p, !.skipped = s]]
    BY <1>2, <2>2 DEF Tick
  <2>5. TaskWalk(t)'
    <3>1. task'[t] = [IdleTask EXCEPT !.pc = "fetch", !.cursor = c,
                                      !.progress = p, !.skipped = s]
      BY <2>4 DEF TypeOK
    <3> QED
      BY <2>3, <3>1, CopiedWalk
  <2>6. RunWalk'
    <3>1. run' = [run EXCEPT !.cursor = c, !.progress = p] /\ run \in Run
      BY <1>2, <2>2 DEF Tick
    <3>2. run'.cursor = c /\ run'.progress = p /\ run'.skipped = run.skipped
      BY <3>1 DEF Run
    <3>3. ~run.skipped => ~s
      BY <1>2, <2>2 DEF Tick, HolderInv
    <3> QED
      BY <2>3, <3>2, <3>3 DEF RunWalk
  <2> QED
    BY <2>4, <2>5, <2>6, OthersKept DEF Walks
<1>3. CASE Complete(t) \/ GivesUp(t) \/ ChunkFails(t) \/ RunFails(t) \/ SkipPage(t)
  <2>1. task' = [task EXCEPT ![t] = IdleTask]
    BY <1>3 DEF Complete, GivesUp, ChunkFails, RunFails, SkipPage
  <2>2. task'[t] = IdleTask
    BY <2>1 DEF TypeOK
  <2>3. \/ run' = NoRun \/ run' = run
        \/ run' = [run EXCEPT !.status = "queued", !.holder = None]
        \/ SkipPage(t)
    BY <1>3 DEF Complete, GivesUp, ChunkFails, RunFails
  <2>4. RunWalk'
    <3>1. CASE run' = NoRun
      BY <3>1, NoRunWalk DEF NoRun
    <3>2. CASE run' = run
      BY <3>2, RunKept DEF Walks
    <3>3. CASE run' = [run EXCEPT !.status = "queued", !.holder = None]
      <4>1. run'.cursor = run.cursor /\ run'.progress = run.progress /\ run'.skipped = run.skipped
        BY <3>3 DEF Run
      <4> QED
        BY <4>1, RunKept DEF Walks
    <3>4. CASE SkipPage(t)
      <4>1. PICK c \in {[run.cursor EXCEPT !.n = @ + 1]} :
              run' = [run EXCEPT !.status = "queued", !.holder = None,
                                 !.cursor = c, !.skipped = TRUE]
        BY <3>4 DEF SkipPage
      <4>2. run'.skipped
        BY <4>1 DEF Run
      <4> QED
        BY <4>2 DEF RunWalk
    <3> QED
      BY <2>3, <3>1, <3>2, <3>3, <3>4
  <2> QED
    BY <2>1, <2>2, <2>4, IdleWalk, OthersKept DEF Walks
<1> QED
  BY <1>1, <1>2, <1>3

LEMMA RestKeepsWalks ==
  ASSUME TypeOK, TypeOK', Grows, Walks, task' = task,
         run' = run \/ run' = [run EXCEPT !.status = "queued", !.holder = None]
  PROVE  Walks'
<1>1. run'.cursor = run.cursor /\ run'.progress = run.progress /\ run'.skipped = run.skipped
  <2>1. run \in Run
    BY DEF TypeOK
  <2> QED
    BY <2>1 DEF Run
<1>2. RunWalk'
  BY <1>1, RunKept DEF Walks
<1>3. ASSUME NEW u \in Tasks PROVE TaskWalk(u)'
  BY <1>3, TaskWalkKept DEF Walks
<1> QED
  BY <1>2, <1>3 DEF Walks

-----------------------------------------------------------------------------
(* What the invariant says of tasks alone.                                 *)
LEMMA EnqueueKeepsInv ==
  ASSUME TypeOK, TypeOK', ScanInv, Enqueue
  PROVE  ScanInv'
<1>1. run' = [NoRun EXCEPT !.status = "queued"] /\ task' = task /\ listed' = listed
      /\ absent' = Contents \ listed /\ row' = [x \in Contents |-> [row[x] EXCEPT !.seen = FALSE]]
  BY DEF Enqueue, vendor
<1>2. run'.cursor = FirstPage /\ run'.progress = 0 /\ run'.status = "queued"
  BY <1>1 DEF NoRun
<1>3. RunWalk'
  BY <1>2, NoRunWalk
<1>4. ASSUME NEW t \in Tasks PROVE TaskWalk(t)'
  <2>1. task[t].pc = "idle"
    BY DEF Enqueue
  <2> QED
    BY <1>1, <2>1 DEF TaskWalk
<1>5. Recalled'
  BY <1>1 DEF Recalled
<1>6. SeenIsKnown'
  <2>1. ASSUME NEW x \in Contents PROVE ~row'[x].seen
    BY <1>1 DEF TypeOK, Row
  <2> QED
    BY <2>1 DEF SeenIsKnown
<1>7. TodoInv' /\ HolderInv'
  BY <1>1, <1>2 DEF ScanInv, TodoInv, HolderInv, Holds
<1> QED
  BY <1>3, <1>4, <1>5, <1>6, <1>7 DEF ScanInv, Walks

\* The lists of contents left to write.
LEMMA TodoKept ==
  ASSUME TypeOK, TodoInv, NEW t \in Tasks,
         \/ Claim(t) \/ ScanStep(t) \/ FetchBlank(t) \/ ChunkFails(t) \/ RunFails(t)
         \/ SkipPage(t) \/ \E e \in task[t].todo : ContentFails(t, e)
  PROVE  TodoInv'
<1>0. task[t] \in Task
  BY HeldTypes
<1>1. \E next : task' = [task EXCEPT ![t] = next]
                /\ (next.pc # "upsert" => next.todo = {})
  <2>1. CASE FetchPage(t) \/ FetchBlank(t)
    <3>1. \E page, next : Fetched(t, page, next)
      BY <2>1 DEF FetchPage, FetchBlank
    <3>2. PICK page, next : Fetched(t, page, next)
      BY <3>1
    <3>3. PICK then : then = [task[t] EXCEPT !.pc = "upsert",
            !.todo = {EntryOf(x) : x \in page}, !.next = next,
            !.upTo = task[t].progress + Cardinality(page)]
      OBVIOUS
    <3>4. task' = [task EXCEPT ![t] = then]
      BY <3>2, <3>3 DEF Fetched
    <3>5. then.pc = "upsert"
      BY <1>0, <3>3 DEF Task
    <3> QED
      BY <3>4, <3>5
  <2>2. CASE FinishChunk(t)
    <3>1. [task[t] EXCEPT !.pc = "write"].todo = {}
      BY <1>0, <2>2 DEF FinishChunk, Task
    <3> QED
      BY <2>2, <3>1 DEF FinishChunk
  <2>3. ASSUME NEW e \in task[t].todo, UpsertContent(t, e) \/ ContentFails(t, e)
        PROVE  \E next : task' = [task EXCEPT ![t] = next]
                         /\ (next.pc # "upsert" => next.todo = {})
    <3>1. [task[t] EXCEPT !.todo = @ \ {e}].pc = "upsert"
      BY <1>0, <2>3 DEF UpsertContent, ContentFails, Task
    <3>2. task' = [task EXCEPT ![t] = [task[t] EXCEPT !.todo = @ \ {e}]]
      BY <2>3 DEF UpsertContent, ContentFails
    <3> QED
      BY <3>1, <3>2
  <2>4. CASE Claim(t)
    <3>1. PICK next : next = [IdleTask EXCEPT !.pc = "fetch", !.cursor = run.cursor,
                                !.progress = run.progress, !.skipped = run.skipped]
      OBVIOUS
    <3>2. next.todo = {}
      BY <3>1 DEF IdleTask
    <3> QED
      BY <2>4, <3>1, <3>2 DEF Claim
  <2>5. CASE Tick(t)
    <3>1. PICK next : next = [IdleTask EXCEPT !.pc = "fetch", !.cursor = task[t].next,
                                !.progress = task[t].upTo, !.skipped = task[t].skipped]
      OBVIOUS
    <3>2. next.todo = {}
      BY <3>1 DEF IdleTask
    <3> QED
      BY <2>5, <3>1, <3>2 DEF Tick
  <2>6. CASE Complete(t) \/ GivesUp(t) \/ ChunkFails(t) \/ RunFails(t) \/ SkipPage(t)
    <3>1. task' = [task EXCEPT ![t] = IdleTask] /\ IdleTask.todo = {}
      BY <2>6 DEF Complete, GivesUp, ChunkFails, RunFails, SkipPage, IdleTask
    <3> QED
      BY <3>1
  <2> QED
    BY <2>1, <2>2, <2>3, <2>4, <2>5, <2>6 DEF ScanStep
<1>2. PICK next : task' = [task EXCEPT ![t] = next]
                  /\ (next.pc # "upsert" => next.todo = {})
  BY <1>1
<1>3. ASSUME NEW u \in Tasks PROVE task'[u] = IF u = t THEN next ELSE task[u]
  BY <1>2 DEF TypeOK
<1> QED
  BY <1>2, <1>3 DEF TodoInv

\* Whoever holds the run after a step held it before and remembers the same,
\* or has just been given it.
LEMMA HolderKept ==
  ASSUME TypeOK, HolderInv, NEW t \in Tasks,
         \/ Claim(t) \/ ScanStep(t) \/ FetchBlank(t) \/ ChunkFails(t) \/ RunFails(t)
         \/ SkipPage(t) \/ \E e \in task[t].todo : ContentFails(t, e)
  PROVE  HolderInv'
<1> USE HeldTypes
<1>1. CASE Claim(t)
  <2>1. run' = [run EXCEPT !.status = "running", !.holder = t] /\ run \in Run
    BY <1>1 DEF Claim
  <2>2. run'.holder = t /\ run'.skipped = run.skipped
    BY <2>1 DEF Run
  <2>3. PICK c \in Cursor, p \in Nat, s \in BOOLEAN :
          c = run.cursor /\ p = run.progress /\ s = run.skipped
    OBVIOUS
  <2>4. task' = [task EXCEPT ![t] = [IdleTask EXCEPT !.pc = "fetch", !.cursor = c,
                                       !.progress = p, !.skipped = s]]
    BY <1>1, <2>3 DEF Claim
  <2>5. task'[t] = [IdleTask EXCEPT !.pc = "fetch", !.cursor = c, !.progress = p, !.skipped = s]
    BY <2>4 DEF TypeOK
  <2>6. task'[t].skipped = s
    BY <2>5 DEF IdleTask
  <2> QED
    BY <2>2, <2>3, <2>6 DEF HolderInv, Holds
<1>2. CASE Tick(t)
  <2>1. run.holder = t /\ run' = [run EXCEPT !.cursor = task[t].next, !.progress = task[t].upTo]
        /\ run \in Run
    BY <1>2 DEF Tick, Holds
  <2>2. run'.holder = t /\ run'.skipped = run.skipped /\ run'.status = run.status
    BY <2>1 DEF Run
  <2>3. PICK c \in Outcome, p \in Nat, s \in BOOLEAN :
          c = task[t].next /\ p = task[t].upTo /\ s = task[t].skipped
    OBVIOUS
  <2>4. task' = [task EXCEPT ![t] = [IdleTask EXCEPT !.pc = "fetch", !.cursor = c,
                                       !.progress = p, !.skipped = s]]
    BY <1>2, <2>3 DEF Tick
  <2>5. task'[t] = [IdleTask EXCEPT !.pc = "fetch", !.cursor = c, !.progress = p, !.skipped = s]
    BY <2>4 DEF TypeOK
  <2>6. task'[t].skipped = s
    BY <2>5 DEF IdleTask
  <2> QED
    BY <1>2, <2>1, <2>2, <2>3, <2>6 DEF HolderInv, Holds, Tick
<1>3. CASE \/ FetchPage(t) \/ FetchBlank(t) \/ FinishChunk(t)
           \/ \E e \in task[t].todo : UpsertContent(t, e) \/ ContentFails(t, e)
  <2>1. run' = run
    BY <1>3 DEF FetchPage, FetchBlank, FinishChunk, UpsertContent, ContentFails
  <2>2. \E then : task' = [task EXCEPT ![t] = then] /\ then.skipped = task[t].skipped
    <3>1. CASE FetchPage(t) \/ FetchBlank(t)
      <4>1. \E page, next : Fetched(t, page, next)
        BY <3>1 DEF FetchPage, FetchBlank
      <4>2. PICK page, next : Fetched(t, page, next)
        BY <4>1
      <4>3. PICK then : then = [task[t] EXCEPT !.pc = "upsert",
              !.todo = {EntryOf(x) : x \in page}, !.next = next,
              !.upTo = task[t].progress + Cardinality(page)]
        OBVIOUS
      <4>4. then.skipped = task[t].skipped
        BY <4>3 DEF Task
      <4> QED
        BY <4>2, <4>3, <4>4 DEF Fetched
    <3>2. CASE FinishChunk(t)
      <4>1. [task[t] EXCEPT !.pc = "write"].skipped = task[t].skipped
        BY DEF Task
      <4> QED
        BY <3>2, <4>1 DEF FinishChunk
    <3>3. ASSUME NEW e \in task[t].todo, UpsertContent(t, e) \/ ContentFails(t, e)
          PROVE  \E then : task' = [task EXCEPT ![t] = then] /\ then.skipped = task[t].skipped
      <4>1. [task[t] EXCEPT !.todo = @ \ {e}].skipped = task[t].skipped
        BY DEF Task
      <4>2. task' = [task EXCEPT ![t] = [task[t] EXCEPT !.todo = @ \ {e}]]
        BY <3>3 DEF UpsertContent, ContentFails
      <4> QED
        BY <4>1, <4>2
    <3> QED
      BY <1>3, <3>1, <3>2, <3>3
  <2>3. ASSUME NEW u \in Tasks PROVE task'[u].skipped = task[u].skipped
    BY <2>2 DEF TypeOK
  <2> QED
    BY <2>1, <2>3 DEF HolderInv, Holds
<1>4. CASE Complete(t) \/ ChunkFails(t) \/ RunFails(t) \/ SkipPage(t) \/ GivesUp(t)
  <2>1. task' = [task EXCEPT ![t] = IdleTask]
    BY <1>4 DEF Complete, GivesUp, ChunkFails, RunFails, SkipPage
  <2>2. ASSUME NEW u \in Tasks PROVE task'[u] = IF u = t THEN IdleTask ELSE task[u]
    BY <2>1 DEF TypeOK
  <2>3. ~IdleTask.skipped
    BY DEF IdleTask
  <2>4. run' = run \/ run'.status # "running"
    <3>0. run \in Run
      BY DEF TypeOK
    <3>1. CASE Complete(t) \/ GivesUp(t) \/ ChunkFails(t) \/ RunFails(t)
      <4>1. PICK r \in {[run EXCEPT !.status = "queued", !.holder = None]} :
              run' = NoRun \/ run' = run \/ run' = r
        BY <3>1 DEF Complete, GivesUp, ChunkFails, RunFails
      <4>2. r.status = "queued"
        BY <3>0 DEF Run
      <4>3. NoRun.status = "idle"
        BY DEF NoRun
      <4> QED
        BY <4>1, <4>2, <4>3
    <3>2. CASE SkipPage(t)
      <4>1. PICK c \in {[run.cursor EXCEPT !.n = @ + 1]} :
              run' = [run EXCEPT !.status = "queued", !.holder = None,
                                 !.cursor = c, !.skipped = TRUE]
        BY <3>2 DEF SkipPage
      <4> QED
        BY <3>0, <4>1 DEF Run
    <3> QED
      BY <1>4, <3>1, <3>2
  <2> QED
    BY <2>2, <2>3, <2>4 DEF HolderInv, Holds
<1> QED
  BY <1>1, <1>2, <1>3, <1>4 DEF ScanStep

-----------------------------------------------------------------------------
(* The invariant, and what follows from it.                                *)
LEMMA InitScan == Init => ScanInv
<1> SUFFICES ASSUME Init PROVE ScanInv
  OBVIOUS
<1>0. TypeOK /\ listed \in SUBSET Nat /\ IsFiniteSet(listed)
  BY InitTypes, ListIsFinite
<1>1. Recalled /\ SeenIsKnown
  BY DEF Init, Recalled, SeenIsKnown, NoRow
<1>2. TodoInv /\ HolderInv
  BY DEF Init, TodoInv, HolderInv, Holds, IdleTask, NoRun
<1>3. Walk(FirstPage, 0, {})
  <2>1. 0 * PageSize = 0
    BY CatalogAssumption
  <2>2. ASSUME NEW x \in listed PROVE ~(Rank(listed, x) < 0)
    <3>1. Rank(listed, x) \in Nat
      BY <1>0, RankIsBounded
    <3> QED
      BY <3>1
  <2>3. Passed(FirstPage) = {}
    BY <2>1, <2>2 DEF Passed, FirstPage
  <2> QED
    BY <2>1, <2>3 DEF Walk, Aligned, FirstPage
<1>4. RunWalk
  BY <1>3 DEF Init, RunWalk, NoRun
<1>5. ASSUME NEW t \in Tasks PROVE TaskWalk(t)
  BY DEF Init, TaskWalk, IdleTask
<1> QED
  BY <1>1, <1>2, <1>4, <1>5 DEF ScanInv, Walks

LEMMA StepKeepsInv == TypeOK /\ ScanInv /\ [Next]_vars => ScanInv'
<1> SUFFICES ASSUME TypeOK, ScanInv, [Next]_vars PROVE ScanInv'
  OBVIOUS
<1>0. TypeOK' /\ Recalled /\ SeenIsKnown /\ TodoInv /\ HolderInv /\ (sound => Walks)
  BY StepTypes DEF ScanInv
<1>1. CASE UNCHANGED vars
  <2>1. Grows
    BY <1>1 DEF Grows, vars, vendor, history
  <2>2. sound => Walks'
    BY <1>0, <1>1, <2>1, RestKeepsWalks DEF vars
  <2>3. Recalled' /\ SeenIsKnown' /\ TodoInv' /\ HolderInv' /\ sound' = sound
    BY <1>0, <1>1 DEF vars, vendor, history, Recalled, SeenIsKnown, TodoInv, HolderInv, Holds
  <2> QED
    BY <2>2, <2>3 DEF ScanInv
<1>2. CASE Enqueue
  BY <1>0, <1>2, EnqueueKeepsInv
<1>3. ASSUME NEW t \in Tasks,
             \/ Claim(t) \/ ScanStep(t) \/ FetchBlank(t) \/ ChunkFails(t) \/ RunFails(t)
             \/ SkipPage(t) \/ \E e \in task[t].todo : ContentFails(t, e)
      PROVE  ScanInv'
  <2>1. Grows /\ Recalled' /\ SeenIsKnown'
    BY <1>0, <1>3, StepsGrow
  <2>2. TodoInv'
    BY <1>0, <1>3, TodoKept
  <2>3. HolderInv'
    BY <1>0, <1>3, HolderKept
  <2>4. ASSUME sound' PROVE Walks'
    <3>1. ASSUME NEW e \in task[t].todo, ContentFails(t, e) PROVE FALSE
      BY <2>4, <3>1 DEF ContentFails
    <3>2. sound
      <4>1. CASE FetchBlank(t)
        BY <2>4, <4>1 DEF FetchBlank
      <4>2. CASE ~FetchBlank(t)
        <5>1. sound' = sound
          BY <1>3, <3>1, <4>2 DEF Claim, ScanStep, FetchPage, FinishChunk, Complete, Tick,
             GivesUp, UpsertContent, ChunkFails, RunFails, SkipPage, history
        <5> QED
          BY <2>4, <5>1
      <4> QED
        BY <4>1, <4>2
    <3>3. CASE FetchPage(t) \/ FetchBlank(t)
      BY <1>0, <2>1, <2>4, <3>2, <3>3, FetchKeepsWalks
    <3>4. CASE FinishChunk(t) \/ \E e \in task[t].todo : UpsertContent(t, e)
      BY <1>0, <2>1, <3>2, <3>4, WriteKeepsWalks
    <3>5. CASE \/ Claim(t) \/ Complete(t) \/ Tick(t) \/ GivesUp(t)
               \/ ChunkFails(t) \/ RunFails(t) \/ SkipPage(t)
      BY <1>0, <2>1, <3>2, <3>5, QueueKeepsWalks
    <3> QED
      BY <1>3, <3>1, <3>3, <3>4, <3>5 DEF ScanStep
  <2> QED
    BY <2>1, <2>2, <2>3, <2>4 DEF ScanInv
<1>4. CASE \/ LoseLease \/ DeltaStep \/ DeltaFails \/ WriteEager
           \/ \E x \in Contents : FetchByBarcode(x) \/ List(x) \/ Reprice(x)
  <2>1. Grows /\ Recalled' /\ SeenIsKnown'
    BY <1>0, <1>4, OutsideGrows
  <2>2. task' = task /\ sound' = sound
        /\ (run' = run \/ run' = [run EXCEPT !.status = "queued", !.holder = None])
    BY <1>4 DEF LoseLease, DeltaStep, FetchInventory, ComputeVariantChanges, WriteChanges,
                DeltaFails, WriteEager, FetchByBarcode, List, Reprice, history
  <2>3. TodoInv'
    BY <1>0, <2>2 DEF TodoInv
  <2>4. HolderInv'
    <3>1. run \in Run
      BY DEF TypeOK
    <3>2. [run EXCEPT !.status = "queued", !.holder = None].status = "queued"
      BY <3>1 DEF Run
    <3> QED
      BY <1>0, <2>2, <3>2 DEF HolderInv, Holds
  <2>5. sound => Walks'
    BY <1>0, <2>1, <2>2, RestKeepsWalks
  <2> QED
    BY <2>1, <2>2, <2>3, <2>4, <2>5 DEF ScanInv
<1>5. ASSUME NEW x \in Contents, Withdraw(x) PROVE ScanInv'
  <2>1. /\ task' = task /\ run' = run /\ row' = row /\ ~sound'
        /\ listed' = listed \ {x} /\ absent' = absent \cup {x}
    BY <1>5 DEF Withdraw
  <2> QED
    BY <1>0, <2>1 DEF ScanInv, Recalled, SeenIsKnown, TodoInv, HolderInv, Holds
<1> QED
  BY <1>1, <1>2, <1>3, <1>4, <1>5 DEF Next

THEOREM ScanInvariant == Spec => [](TypeOK /\ ScanInv)
BY InitTypes, StepTypes, InitScan, StepKeepsInv, PTL DEF Spec

(* No stamp of absence on a content that was listed all the time: the pass *)
(* runs only at the end of a walk that vouches for every content, and      *)
(* what it stamps has neither been written nor is it about to be.          *)
THEOREM StampsAreTrue == Spec => DelistedWasUnlisted
<1>1. TypeOK /\ ScanInv /\ [Next]_vars
        => [\A x \in Contents :
              sound /\ ~row[x].delisted /\ row'[x].delisted => x \in absent]_vars
  <2> SUFFICES ASSUME TypeOK, ScanInv, Next, sound, NEW x \in Contents,
                      ~row[x].delisted, row'[x].delisted
               PROVE  x \in absent
    OBVIOUS
  <2>0. row[x] \in Row
    BY DEF TypeOK
  <2>1. ASSUME NEW t \in Tasks, FinishChunk(t) PROVE x \in absent
    <3>1. ShouldRunDelistPass(task[t]) /\ row'[x] = Stamped(row[x])
          /\ task[t].pc = "upsert" /\ task[t].todo = {}
      BY <2>1 DEF FinishChunk
    <3>2. ~row[x].seen
      BY <3>1 DEF Stamped
    <3>3. Vouched(x, {})
      BY <3>1 DEF ScanInv, Walks, TaskWalk
    <3> QED
      BY <3>2, <3>3 DEF Vouched
  <2>2. ASSUME NEW e \in Entry, row' = [row EXCEPT ![e.id] = Upserted(e)] PROVE FALSE
    BY <2>0, <2>2 DEF Upserted, TypeOK
  <2>3. ASSUME NEW t \in Tasks, NEW e \in task[t].todo, UpsertContent(t, e) PROVE FALSE
    <3>1. e \in Entry
      BY HeldTypes
    <3> QED
      BY <2>2, <2>3, <3>1 DEF UpsertContent
  <2>4. CASE WriteEager
    BY <2>2, <2>4 DEF WriteEager, TypeOK
  <2>5. CASE WriteChanges
    <3> DEFINE new == (CHOOSE e \in delta.page : e.id = x).price
               stays == row[x].delisted /\ x \notin delta.stale
    <3>1. \/ Refreshed(x) = [row[x] EXCEPT !.price = new, !.delisted = stays]
          \/ Refreshed(x) = row[x]
      BY DEF Refreshed
    <3>2. ~stays
      OBVIOUS
    <3>3. row'[x] = Refreshed(x)
      BY <2>5 DEF WriteChanges
    <3> HIDE DEF new, stays
    <3> QED
      BY <2>0, <3>1, <3>2, <3>3 DEF Row
  <2>6. CASE Enqueue
    <3>1. row'[x] = [row[x] EXCEPT !.seen = FALSE]
      BY <2>6 DEF Enqueue
    <3> QED
      BY <2>0, <3>1 DEF Row
  <2>7. row' # row
    OBVIOUS
  <2> QED
    BY <2>1, <2>3, <2>4, <2>5, <2>6, <2>7 DEF Next, ScanStep, DeltaStep, LoseLease, DeltaFails,
       FetchInventory, ComputeVariantChanges, Claim, FetchPage, Complete, Tick, GivesUp,
       FetchBlank, ChunkFails, RunFails, SkipPage, ContentFails, FetchByBarcode, List,
       Withdraw, Reprice
<1> QED
  BY <1>1, ScanInvariant, PTL DEF Spec, DelistedWasUnlisted

(* A scan that ends as complete has read every content that was listed all *)
(* the time: the walk vouches for all of them, and by then there is        *)
(* nothing left to write.                                                  *)
THEOREM CompleteScans == Spec => CompleteScanSawAll
<1>1. TypeOK /\ ScanInv /\ [Next]_vars
        => [\A t \in Tasks :
              Complete(t) /\ sound /\ ShouldRunDelistPass(task[t])
                => \A x \in Contents \ absent : row[x].known /\ row[x].seen]_vars
  <2> SUFFICES ASSUME ScanInv, NEW t \in Tasks, Complete(t), sound,
                      ShouldRunDelistPass(task[t]), NEW x \in Contents \ absent
               PROVE  row[x].known /\ row[x].seen
    OBVIOUS
  <2>1. task[t].pc = "write"
    BY DEF Complete
  <2>2. task[t].todo = {}
    BY <2>1 DEF ScanInv, TodoInv
  <2>3. Vouched(x, task[t].todo)
    BY <2>1 DEF ScanInv, Walks, TaskWalk
  <2> QED
    BY <2>2, <2>3 DEF Vouched, ScanInv, SeenIsKnown
<1> QED
  BY <1>1, ScanInvariant, PTL DEF Spec, CompleteScanSawAll

=============================================================================

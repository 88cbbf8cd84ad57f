---------------------------- MODULE CatalogScan ----------------------------
(***************************************************************************)
(* The product catalog of one store: the daily scan that copies the        *)
(* vendor's list page by page and then infers from what it has not seen    *)
(* what is no longer listed; the hourly delta that walks the same list     *)
(* for stock and prices and takes a stamp of absence back; the eager       *)
(* repair that fetches a single content a webhook asked for.               *)
(*                                                                         *)
(* Every content has one variant.  The vendor lists in the order of        *)
(* creation, which is the order of the numbers in Contents, and may list,  *)
(* withdraw and reprice contents between any two requests.  The queue life *)
(* of a run is SyncQueue's subject; of it there is what a chunk can meet:  *)
(* a retry, a skipped page, a failure, a lease lost while the task works   *)
(* on.                                                                     *)
(***************************************************************************)
EXTENDS Naturals, FiniteSets

CONSTANTS
  Contents,    \* platformContentIds in the order of creation
  Catalogs,    \* what the vendor may list when the store connects
  PageSize,    \* PRODUCTS_PAGE_SIZE
  Cap,         \* APPROVED_PAGE_CAP_ITEMS
  Ordered,     \* contents whose barcode an order may bring before the scan does
  Tasks,       \* worker tasks that may hold, or believe to hold, the run
  None,        \* null
  MaxChanges,  \* bound: changes of the vendor's list and prices
  MaxFaults    \* bound: failed requests and writes, lost leases, false answers

ASSUME CatalogAssumption ==
  /\ Contents \subseteq Nat /\ IsFiniteSet(Contents) /\ None \notin Nat
  /\ Catalogs \subseteq SUBSET Contents /\ Ordered \subseteq Contents
  /\ PageSize \in Nat \ {0} /\ Cap \in Nat
  /\ MaxChanges \in Nat /\ MaxFaults \in Nat

VARIABLES
  listed,   \* the contents the vendor lists
  price,    \* the vendor's stock and price of a content, as a version
  row,      \* the product and variant rows
  run,      \* the newest PRODUCTS row of sync_logs
  task,     \* what each task holds in memory
  delta,    \* the PRODUCTS_DELTA run
  eager,    \* the content an eager repair has fetched
  absent,   \* history: contents unlisted at some time since the run was enqueued
  sound,    \* history: since then nothing was withdrawn, no content failed to be
            \* written, and no answer after the first page was falsely empty
  changes, faults

vendor == <<listed, price, changes>>
history == <<absent, sound>>
vars == <<vendor, row, run, task, delta, eager, history, faults>>

\* seen: lastSyncedAt is not older than the startedAt of the newest run.
Row == [known : BOOLEAN, price : {0, 1}, delisted : BOOLEAN, seen : BOOLEAN]

Cursor == [kind : {"page", "token"}, n : Nat]
Entry == [id : Contents, price : {0, 1}]

\* Where a chunk leads: a cursor, or one of the three ways to be done.
Outcome == Cursor \cup [kind : {"reached-end", "empty-page", "truncated-past-cap"}, n : {0}]

Run == [status : {"idle", "queued", "running"}, holder : Tasks \cup {None},
        cursor : Cursor, progress : Nat, skipped : BOOLEAN]

Task == [pc : {"idle", "fetch", "upsert", "write"}, cursor : Cursor, progress : Nat,
         skipped : BOOLEAN, todo : SUBSET Entry, next : Outcome, upTo : Nat]

Delta == [pc : {"fetch", "diff", "write"}, cursor : Cursor, progress : Nat,
          page : SUBSET Entry, next : Outcome, stale : SUBSET Contents]

FirstPage == [kind |-> "page", n |-> 0]
Done(reason) == [kind |-> reason, n |-> 0]
NoRow == [known |-> FALSE, price |-> 0, delisted |-> FALSE, seen |-> FALSE]
NoRun == [status |-> "idle", holder |-> None, cursor |-> FirstPage,
          progress |-> 0, skipped |-> FALSE]
IdleTask == [pc |-> "idle", cursor |-> FirstPage, progress |-> 0, skipped |-> FALSE,
             todo |-> {}, next |-> FirstPage, upTo |-> 0]
\* The next delta run, which cron starts whenever one has ended.
IdleDelta == [pc |-> "fetch", cursor |-> FirstPage, progress |-> 0,
              page |-> {}, next |-> FirstPage, stale |-> {}]

(* Types of all the variables.                                             *)
TypeOK ==
  /\ listed \in SUBSET Contents
  /\ price \in [Contents -> {0, 1}]
  /\ row \in [Contents -> Row]
  /\ run \in Run
  /\ task \in [Tasks -> Task]
  /\ delta \in Delta
  /\ eager \in Entry \cup {None}
  /\ absent \in SUBSET Contents /\ sound \in BOOLEAN
  /\ changes \in Nat /\ faults \in Nat

Init ==
  /\ listed \in Catalogs
  /\ price = [x \in Contents |-> 0]
  /\ row = [x \in Contents |-> NoRow]
  /\ run = NoRun
  /\ task = [t \in Tasks |-> IdleTask]
  /\ delta = IdleDelta
  /\ eager = None
  /\ absent = Contents \ listed /\ sound = TRUE
  /\ changes = 0 /\ faults = 0

Faulty == faults < MaxFaults /\ faults' = faults + 1

Total == Cardinality(listed)
TotalPages == (Total + PageSize - 1) \div PageSize
-----------------------------------------------------------------------------
(* Faulty forms of some definitions, for the properties to tell apart.     *)
EntryWithoutPrice(id) == [id |-> id, price |-> None]
TrustedDespiteSkips(t) == t.next.kind # "empty-page" \/ t.progress > 0
EndsBeforeLastPage(cursor) == cursor.kind = "page" /\ cursor.n + 2 >= TotalPages
UpsertedUnseen(e) ==
  [known |-> TRUE, price |-> e.price, delisted |-> FALSE, seen |-> FALSE]
-----------------------------------------------------------------------------
(***************************************************************************)
(* The vendor's answers.                                                   *)
(***************************************************************************)
EntryOf(id) == [id |-> id, price |-> price[id]]

Before(x, from) == Cardinality({y \in listed : from <= y /\ y < x})

\* A page number counts contents from the start; a token names the last
\* content that was returned.
PageAt(c) ==
  IF c.kind = "page"
  THEN {x \in listed : Before(x, 0) \div PageSize = c.n}
  ELSE {x \in listed : c.n < x /\ Before(x, c.n + 1) < PageSize}

Last(page) == CHOOSE x \in page : \A y \in page : y <= x

\* Page numbers are served up to the cap, behind it only tokens are; and up to
\* the end of the list, behind it the vendor answers 404.
Served(c) ==
  c.kind = "page" => c.n * PageSize <= Cap /\ (c.n = 0 \/ c.n < TotalPages)

\* Whether the answer comes with a nextPageToken: it does while contents
\* follow, unless the vendor withholds it, and may do so at the end.
Tokens(page) ==
  IF \E x \in listed : x > Last(page) THEN {TRUE} ELSE BOOLEAN

(***************************************************************************)
(* Paging, alike in the scan and in the delta.                             *)
(***************************************************************************)
\* Token or page number of the next request, by progress and not by page.
NextCursor(cursor, progress, page, more) ==
  IF cursor.kind = "token" \/ (progress \div PageSize + 1) * PageSize >= Cap
  THEN IF more THEN [kind |-> "token", n |-> Last(page)] ELSE Done("truncated-past-cap")
  ELSE [kind |-> "page", n |-> cursor.n + 1]

IsLastDocumentedPage(cursor) ==
  cursor.kind = "page" /\ cursor.n + 1 >= TotalPages

AfterPage(cursor, progress, page, more) ==
  IF progress + Cardinality(page) >= Total \/ IsLastDocumentedPage(cursor)
  THEN Done("reached-end")
  ELSE NextCursor(cursor, progress, page, more)

Ended(next) == next.kind \notin {"page", "token"}

(***************************************************************************)
(* The scan.                                                               *)
(***************************************************************************)
\* The slot admits one run.  Bound: tasks of earlier runs have ended.
Enqueue ==
  /\ run.status = "idle"
  /\ \A t \in Tasks : task[t].pc = "idle"
  /\ run' = [NoRun EXCEPT !.status = "queued"]
  /\ row' = [x \in Contents |-> [row[x] EXCEPT !.seen = FALSE]]
  /\ absent' = Contents \ listed /\ sound' = TRUE
  /\ UNCHANGED <<vendor, task, delta, eager, faults>>

Claim(t) ==
  /\ run.status = "queued" /\ task[t].pc = "idle"
  /\ run' = [run EXCEPT !.status = "running", !.holder = t]
  /\ task' = [task EXCEPT ![t] = [IdleTask EXCEPT !.pc = "fetch",
       !.cursor = run.cursor, !.progress = run.progress, !.skipped = run.skipped]]
  /\ UNCHANGED <<vendor, row, delta, eager, history, faults>>

\* A token below the cap is replaced by the page that progress stands at.
Effective(t) ==
  IF task[t].cursor.kind = "token" /\ task[t].progress < Cap
  THEN [kind |-> "page", n |-> task[t].progress \div PageSize]
  ELSE task[t].cursor

Fetched(t, page, next) ==
  task' = [task EXCEPT ![t] = [@ EXCEPT !.pc = "upsert",
    !.todo = {EntryOf(x) : x \in page}, !.next = next,
    !.upTo = task[t].progress + Cardinality(page)]]

FetchPage(t) ==
  /\ task[t].pc = "fetch" /\ Served(Effective(t))
  /\ LET page == PageAt(Effective(t))
     IN \/ page = {} /\ Fetched(t, {}, Done("empty-page")) /\ UNCHANGED faults
        \/ /\ page # {}
           /\ \E more \in BOOLEAN :
                /\ (more \in Tokens(page) /\ UNCHANGED faults) \/ (~more /\ Faulty)
                /\ Fetched(t, page, AfterPage(Effective(t), task[t].progress, page, more))
  /\ UNCHANGED <<vendor, row, run, delta, eager, history>>

\* An empty answer over a catalog that is not.
FetchBlank(t) ==
  /\ task[t].pc = "fetch"
  /\ Faulty
  /\ Fetched(t, {}, Done("empty-page"))
  /\ sound' = (sound /\ task[t].progress = 0)
  /\ UNCHANGED <<vendor, row, run, delta, eager, absent>>

\* A content that is returned is listed again.
Upserted(e) == [known |-> TRUE, price |-> e.price, delisted |-> FALSE, seen |-> TRUE]

\* One transaction per content.
UpsertContent(t, e) ==
  /\ task[t].pc = "upsert" /\ e \in task[t].todo
  /\ task' = [task EXCEPT ![t].todo = @ \ {e}]
  /\ row' = [row EXCEPT ![e.id] = Upserted(e)]
  /\ UNCHANGED <<vendor, run, delta, eager, history, faults>>

\* The error is logged and the batch goes on.
ContentFails(t, e) ==
  /\ task[t].pc = "upsert" /\ e \in task[t].todo
  /\ Faulty
  /\ task' = [task EXCEPT ![t].todo = @ \ {e}]
  /\ sound' = FALSE
  /\ UNCHANGED <<vendor, row, run, delta, eager, absent>>

\* May what the scan ended with be taken for the whole catalog?  An empty page
\* is proof only after another page.
Trusted(t) ==
  /\ ~t.skipped
  /\ t.next.kind # "empty-page" \/ t.progress > 0

ShouldRunDelistPass(t) ==
  t.next.kind \in {"reached-end", "empty-page"} /\ Trusted(t)

Stamped(r) == IF r.known /\ ~r.seen THEN [r EXCEPT !.delisted = TRUE] ELSE r

\* The end of a chunk; the pass is not fenced by the lease.
FinishChunk(t) ==
  /\ task[t].pc = "upsert" /\ task[t].todo = {}
  /\ row' = IF ShouldRunDelistPass(task[t])
            THEN [x \in Contents |-> Stamped(row[x])] ELSE row
  /\ task' = [task EXCEPT ![t].pc = "write"]
  /\ UNCHANGED <<vendor, run, delta, eager, history, faults>>

Holds(t) == run.status = "running" /\ run.holder = t

\* complete and tick, fenced; a task without the lease gives up.
Complete(t) ==
  /\ task[t].pc = "write" /\ Holds(t) /\ Ended(task[t].next)
  /\ run' = NoRun
  /\ task' = [task EXCEPT ![t] = IdleTask]
  /\ UNCHANGED <<vendor, row, delta, eager, history, faults>>

Tick(t) ==
  /\ task[t].pc = "write" /\ Holds(t) /\ ~Ended(task[t].next)
  /\ run' = [run EXCEPT !.cursor = task[t].next, !.progress = task[t].upTo]
  /\ task' = [task EXCEPT ![t] = [IdleTask EXCEPT !.pc = "fetch",
       !.cursor = task[t].next, !.progress = task[t].upTo, !.skipped = task[t].skipped]]
  /\ UNCHANGED <<vendor, row, delta, eager, history, faults>>

GivesUp(t) ==
  /\ task[t].pc = "write" /\ ~Holds(t)
  /\ task' = [task EXCEPT ![t] = IdleTask]
  /\ UNCHANGED <<vendor, row, run, delta, eager, history, faults>>

\* A request or a statement throws, or the process dies: the run is taken up
\* again at its cursor.
ChunkFails(t) ==
  /\ task[t].pc # "idle"
  /\ Faulty
  /\ run' = IF Holds(t) THEN [run EXCEPT !.status = "queued", !.holder = None] ELSE run
  /\ task' = [task EXCEPT ![t] = IdleTask]
  /\ UNCHANGED <<vendor, row, delta, eager, history>>

\* May the run go on behind the page its row names?
Skippable(t) ==
  Holds(t) /\ run.cursor.kind = "page" /\ (run.cursor.n + 1) * PageSize < Cap

\* The attempts are used up.  Bound: those before the last one are faults.
Refused(t) == ~Served(Effective(t)) /\ UNCHANGED faults

RunFails(t) ==
  /\ task[t].pc = "fetch"
  /\ (Refused(t) /\ ~Skippable(t)) \/ Faulty
  /\ run' = IF Holds(t) THEN NoRun ELSE run
  /\ task' = [task EXCEPT ![t] = IdleTask]
  /\ UNCHANGED <<vendor, row, delta, eager, history>>

\* advanceCursorPastBadPage: a page that fails, or one behind the end of the list.
SkipPage(t) ==
  /\ task[t].pc = "fetch" /\ Skippable(t)
  /\ Refused(t) \/ Faulty
  /\ run' = [run EXCEPT !.status = "queued", !.holder = None,
                        !.cursor.n = @ + 1, !.skipped = TRUE]
  /\ task' = [task EXCEPT ![t] = IdleTask]
  /\ UNCHANGED <<vendor, row, delta, eager, history>>

\* The watchdog requeues the row of a task that works on.
LoseLease ==
  /\ run.status = "running"
  /\ Faulty
  /\ run' = [run EXCEPT !.status = "queued", !.holder = None]
  /\ UNCHANGED <<vendor, row, task, delta, eager, history>>

ScanStep(t) ==
  \/ FetchPage(t) \/ FinishChunk(t) \/ Complete(t) \/ Tick(t) \/ GivesUp(t)
  \/ \E e \in task[t].todo : UpsertContent(t, e)

(***************************************************************************)
(* The delta: read a page, compare it with the rows, write what differs.   *)
(***************************************************************************)
FetchInventory ==
  /\ delta.pc = "fetch"
  /\ LET page == PageAt(delta.cursor)
     IN IF page = {} \/ ~Served(delta.cursor) THEN delta' = IdleDelta
        ELSE \E more \in Tokens(page) :
          delta' = [delta EXCEPT !.pc = "diff",
            !.page = {EntryOf(x) : x \in page},
            !.next = AfterPage(delta.cursor, delta.progress, page, more),
            !.progress = @ + Cardinality(page)]
  /\ UNCHANGED <<vendor, row, run, task, eager, history, faults>>

\* Unknown contents are left to the scan.
Drifted(e) == row[e.id].known /\ (row[e.id].price # e.price \/ row[e.id].delisted)

ComputeVariantChanges ==
  /\ delta.pc = "diff"
  /\ delta' = [delta EXCEPT !.pc = "write",
       !.page = {e \in @ : Drifted(e)},
       !.stale = {e.id : e \in {f \in delta.page : row[f.id].known /\ row[f.id].delisted}}]
  /\ UNCHANGED <<vendor, row, run, task, eager, history, faults>>

\* The stamp is taken back where the comparison found one.
Refreshed(x) ==
  IF \E e \in delta.page : e.id = x
  THEN [row[x] EXCEPT !.price = (CHOOSE e \in delta.page : e.id = x).price,
                      !.delisted = @ /\ x \notin delta.stale]
  ELSE row[x]

WriteChanges ==
  /\ delta.pc = "write"
  /\ row' = [x \in Contents |-> Refreshed(x)]
  /\ delta' = IF Ended(delta.next) THEN IdleDelta
              ELSE [IdleDelta EXCEPT !.cursor = delta.next, !.progress = delta.progress]
  /\ UNCHANGED <<vendor, run, task, eager, history, faults>>

DeltaFails ==
  /\ delta # IdleDelta
  /\ Faulty
  /\ delta' = IdleDelta
  /\ UNCHANGED <<vendor, row, run, task, eager, history>>

DeltaStep == FetchInventory \/ ComputeVariantChanges \/ WriteChanges

(***************************************************************************)
(* The eager repair of a barcode the catalog does not know.                *)
(***************************************************************************)
FetchByBarcode(x) ==
  /\ eager = None /\ x \in Ordered \cap listed /\ ~row[x].known
  /\ eager' = EntryOf(x)
  /\ UNCHANGED <<vendor, row, run, task, delta, history, faults>>

WriteEager ==
  /\ eager # None
  /\ row' = [row EXCEPT ![eager.id] = Upserted(eager)]
  /\ eager' = None
  /\ UNCHANGED <<vendor, run, task, delta, history, faults>>

(***************************************************************************)
(* The seller and the vendor.                                              *)
(***************************************************************************)
Change == changes < MaxChanges /\ changes' = changes + 1

List(x) ==
  /\ x \notin listed /\ Change
  /\ listed' = listed \cup {x}
  /\ UNCHANGED <<price, row, run, task, delta, eager, history, faults>>

Withdraw(x) ==
  /\ x \in listed /\ Change
  /\ listed' = listed \ {x}
  /\ absent' = absent \cup {x}
  /\ sound' = FALSE
  /\ UNCHANGED <<price, row, run, task, delta, eager, faults>>

Reprice(x) ==
  /\ x \in listed /\ Change
  /\ price' = [price EXCEPT ![x] = 1 - @]
  /\ UNCHANGED <<listed, row, run, task, delta, eager, history, faults>>

Next ==
  \/ Enqueue \/ LoseLease \/ DeltaStep \/ DeltaFails \/ WriteEager
  \/ \E t \in Tasks :
       \/ Claim(t) \/ ScanStep(t) \/ FetchBlank(t)
       \/ ChunkFails(t) \/ RunFails(t) \/ SkipPage(t)
       \/ \E e \in task[t].todo : ContentFails(t, e)
  \/ \E x \in Contents : FetchByBarcode(x) \/ List(x) \/ Withdraw(x) \/ Reprice(x)

Spec == Init /\ [][Next]_vars

\* Both runs are started again and again by cron, a free worker claims, and
\* what was begun goes on.
FairSpec ==
  /\ Spec
  /\ WF_vars(Enqueue) /\ WF_vars(DeltaStep) /\ WF_vars(WriteEager)
  /\ WF_vars(\E t \in Tasks : Claim(t))
  /\ \A t \in Tasks :
       WF_vars(ScanStep(t)) /\ WF_vars(~Served(Effective(t)) /\ (RunFails(t) \/ SkipPage(t)))

-----------------------------------------------------------------------------
(* A content that gets the stamp of absence was in fact not listed at some *)
(* time since the scan was enqueued: skipped pages, falsely empty first    *)
(* answers, retries, tokens and tasks that lost their lease never make the *)
(* pass take "not read" for "not listed".  Excepted are runs during which  *)
(* the list shrank under the page numbers, a content could not be written, *)
(* or a later page came back falsely empty.                                *)
DelistedWasUnlisted ==
  [][\A x \in Contents :
       sound /\ ~row[x].delisted /\ row'[x].delisted => x \in absent]_vars

(* A scan that ends as complete, without a skipped page and with the same  *)
(* exceptions, has read every content that was listed all the time, on     *)
(* both sides of the page cap.                                             *)
CompleteScanSawAll ==
  [][\A t \in Tasks :
       Complete(t) /\ sound /\ ShouldRunDelistPass(task[t])
         => \A x \in Contents \ absent : row[x].known /\ row[x].seen]_vars

(* When the vendor's list and prices rest, the rows come to agree with     *)
(* them, whatever stale page a scan, a delta or a repair wrote before; a   *)
(* list that has become empty is excepted, because the scan never trusts   *)
(* an empty first answer.                                                  *)
Right(x) ==
  IF x \in listed
  THEN row[x].known /\ ~row[x].delisted /\ row[x].price = price[x]
  ELSE row[x].known => row[x].delisted

Converges == <>[](listed # {} => \A x \in Contents : Right(x))
=============================================================================

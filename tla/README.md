# Verification of PazarSync

TLA+ models, TLC runs and TLAPS proofs for PazarSync, the service that copies a
seller's orders, products, settlements and claims from a marketplace (Trendyol)
and computes the profit of every order. References such as `loop.ts:40` are
lines of the source; `PROJECT.json` holds the full map from definitions to lines.

## 1. The system

Five kinds of actor share one PostgreSQL database (Read Committed) and otherwise
do not talk to each other:

| actor | code | what it does |
|---|---|---|
| sync worker processes | `apps/sync-worker` | claim rows of `sync_logs` and run them chunk by chunk; run the short ticks (watchdog, webhook drain, promote, flush, retention, variant resolution, webhook reconcile) |
| API processes | `apps/api` | the seller's requests (connect, cost profiles, manual sync, price write), and the webhook receiver |
| pg_cron | `supabase/sql/pg-cron-setup.sql` | inserts `sync_logs` rows every hour or day, reaps old buffer rows |
| the vendor | external | pages of orders, products, settlements, claims; webhook deliveries, repeated until answered 200 |
| edge function | `supabase/functions/fx-rates-sync` | daily exchange rates |

Everything that is hard comes from that: two processes hold the same row, a
process dies between two statements, the vendor repeats and reorders, a value
read in one statement is stale in the next.

### Inventory

| component | state | operations | what is hard | what makes it correct |
|---|---|---|---|---|
| **Sync job queue** (`packages/sync-core/src/sync-log.service.ts`, `apps/sync-worker/src/{index,loop,run-error,skip-bad-page,watchdog}.ts`) | `sync_logs`: status, claimed_by, attempts, page_cursor, next_attempt_at, started_at, last_tick_at | acquireSlot, cron fan-out, tryClaimNext, tick, heartbeat, complete, release, markRetryable, fail, page skip, sweep | zombies of a lost lease, crash between work and tick, stale attempt numbers, a pool under one worker id | one active run per slot; the fence admits only the claimer; completed = every page done; every run ends |
| **Webhook queue** (`packages/webhook-ingest`, `apps/api/src/routes/webhooks/`, consumer and retention ticks) | `webhook_events`: processed_at, attempts, next_attempt_at, error | receive, claim lease, process, close, back off, prune | consumer racing inline request, crash between order write and stamp, late failure record | acknowledged events are never lost, one processor at a time, closed stays closed, the queue drains |
| **Order intake** (`packages/order-sync`, promote and flush in `buffer-promote.ts`, cost attachments) | `orders`, `live_performance_buffer`, cost links, stock | intakeOrder, upsert, purge, dematerialize, promote, flush, attach, detach, archive, reset | every check is outside the transaction that acts on it; deliveries out of order | no package is lost between the two tables, exclusion is final, an order never regresses, the buffer drains |
| **Orders window** (`apps/sync-worker/src/handlers/orders.ts`) | the run's cursor, completed_at of the last run | chunk bounds, page, advance, complete | the next window is derived from when the last run ended, not from what it read | no instant is ever left unswept |
| **Settlements** (`handlers/settlements/`, `packages/profit`) | `order_fees`, `reconciliation_status`, settled profit | sale, discount, return, payment order, cargo invoice, finalize, recompute | rows of one order arrive over weeks in any order | the settled number counts each leg once and is never stale |
| **Catalog scan, delta** (`handlers/products*.ts`, `packages/catalog-sync`) | `products`, `product_variants`: price, last_synced_at, delisted_at; the run's cursor | upsert batch, delist pass, delta diff and write, eager repair | absence is inferred from a timestamp; pages move while they are read | only what the vendor no longer lists is delisted; rows converge to the list |
| **Claims** (`handlers/claims.ts`) | `order_claims`, items | upsert, re-anchor | a claim precedes its package | one copy of each claim, on the right package |
| **Variant resolution** (`handlers/variant-resolution.ts`) | item links, back-off tables | link, capture, estimate | races with intake and exclusion | linked items carry cost once |
| **Webhook subscriptions** (`handlers/webhook-reconcile.ts`, connect, self-heal) | `stores.webhook_*`, the vendor's list | register, update, delete, rotate, clear | remote list read once and acted on later | one live subscription per store, secret known |
| **Small services** (manual trigger, price write, members, cost profiles, tariffs, reads) | their tables | one request, mostly one transaction | last-owner check, abandoned price poll | see section 8 |
| **Vendor client, profit arithmetic, libraries, web, scripts** | none | conversions, formulas, screens | decimal arithmetic | unit tests |

Interactions: cron, API and webhook consumer *insert* `sync_logs` rows, workers
*drive* them; the orders handler and the webhook consumer both *call*
`intakeOrder`; intake *fills* the buffer, cost attachments *flip* its rows, the
promote and flush ticks *graduate* them into `orders`; a RETURNED webhook
*enqueues* a claims run; settlements *read and write* the fees that intake
estimated. Disconnecting a store cascades into every one of these tables.

## 2. Modules

| module | models | composes |
|---|---|---|
| `SyncRun` | abstract: a resumable run of pages, one per slot | |
| `SyncQueue` | the job queue, workers, watchdog | implements `SyncRun` |
| `SyncQueueProofs` | theorems about `SyncQueue` | |
| `SyncQueueRefinement` | the proof that `SyncQueue` implements `SyncRun` | |
| `EventDelivery` | abstract: accept once, apply while queued, settle | |
| `WebhookQueue` | receiver, consumer tick, inline mode, retention | implements `EventDelivery` |
| `WebhookQueueProofs` | theorems about `WebhookQueue`, the refinement among them | |
| `OrderIntake` | order row, buffer row, stock, costs, both ticks | |
| `OrderIntakeProofs` | theorems about `OrderIntake` | |
| `OrdersWindow` | windows and cursors of the orders sync | |
| `OrdersWindowProofs` | theorems about `OrdersWindow` | |
| `Settlement` | the fees of one order, the rows that settle it, returns, the settled profit | |
| `SettlementProofs` | theorems about `Settlement` | |
| `WebhookSubscription` | the store rows and the vendor's list of one seller, requests, reconcile tick, receiver's self-heal | |
| `WebhookSubscriptionProofs` | theorems about `WebhookSubscription` | |
| `CatalogScan` | the scan, its delist pass, the delta and the eager repair of one store's catalog | |
| `CatalogScanProofs` | theorems about `CatalogScan` | |
| `MCSyncQueue`, `MCWebhookQueue`, `MCOrderIntake`, `MCWebhookSubscription` | model values and functions for TLC | |

### SyncQueue

`log[r]` is a row of `sync_logs`. Statuses are the enum's, plus UNUSED (not yet
inserted) and DELETED (cascade of a disconnected store). `retryAt`, `started`
and `fresh` keep of next_attempt_at, started_at and last_tick_at only what a
guard compares with now(). `task[t]` is one task of a process's pool and `pc`
says between which statements it stands: `loop` (before the shutdown check),
`chunk` (inside the handler), `write` (the chunk returned, its tick or complete
is not written yet), `skip` (the bad page's cursor was read, the transaction
has not begun). `wstate[w]` is the process; a restarted worker is a new
incarnation with a new WORKER_ID. Three are history variables: `lease`, whose
claim is the latest; `pages`, which pages were written by a chunk of the row; and
`doubled`, the rows that a process claimed while a task of its own was still on them.
Nothing in the code asks for the latter (OwnTaskOn), and on such a row the fence,
which knows the process only, cannot tell the two tasks apart.

| action | code |
|---|---|
| AcquireSlot, CronFanOut | `acquireSlot`, `pg-cron-setup.sql`; the partial unique index is the guard SlotFree |
| Claim | `tryClaimNext` and `spawnJob` |
| StartChunk, ReleaseToPending, ChunkWork, Tick, Complete | the loop of `loop.ts` and the fenced writes of `sync-log.service.ts` |
| Heartbeat | `heartbeat` |
| PermanentFailure, MarkRetryable, GiveUp, ErrorWriteFails, LoseLease | `handleRunError` |
| ReadBadPage, SkipBadPage, NoPageToSkipTo | `advanceCursorPastBadPage`, in its two halves |
| Sweep | `runWatchdog`, both statements at once, over all rows |
| AgeClaim, BackoffElapses, StartTimeArrives | the clock |
| Boot, SigTerm, Drained, Crash | `index.ts` main |
| DisconnectStore | `store.service.ts` |

Business writes of a chunk are *not* fenced in the code; the model has them as `pages` only.

### WebhookQueue

`event[d]` is the `webhook_events` row of delivery d: `open` is processed_at IS
NULL, `due` says that next_attempt_at (which doubles as the lease) has passed.
`proc[p]` is a consumer tick, or an API request in inline mode, and its `pc`
stands between the statements of `processTrendyolWebhookEvent`: scanned, leased,
order written, thrown, attempts read. Three ends of an event take nothing in: a
drop, closed at receipt; a payload this version's schema refuses or its mapper
cannot map, closed with a recorded reason (CloseSchemaDrift, CloseUnmappable), or taken in if
another version is deployed before the next attempt; and a status the mapper does not
know, which is closed *as processed*, without a reason (IgnoreUnknownStatus). So
the processed_at of a row alone does not say that an order was written: that holds
but for UnknownStatuses, and IntakeOrder excludes exactly these. `Timely` states what `lease.ts` asks of
its callers: work on a claim ends before the lease does. Nothing renews a lease,
so without it two processors may overlap; the queue run assumes it, and the proofs
that need it name it.

### OrderIntake

One package. `order` and `buffer` are its rows, `cost` the newest profile linked
to each line's variant, `units` what was taken off the stock. Each step of
`intakeOrder` that is a statement of its own is an action: the calculability
check, the lookup, the insert into the buffer, the dedup's read and rewrite,
the watermark's read (BeginUpsert) and the transaction from the INSERT on
(CommitUpsert). A split ghost is deleted in one transaction when it has an order
(Dematerialize); without one the transaction holds nothing between its two deletes,
and they are two steps (NoOrderToDelete, DeleteBuffered). What an upsert does to the money of
an order is modelled as it is written: CaptureCostSnapshot looks at every item of a
new order, ApplyEstimateOnOrderCreate runs on every upsert, later events included, and
only its own look at `profitExcludedAt` keeps fees and profit off an excluded order.
A graduation holds the buffer row's lock from PromoteOne or
FlushOne to Graduate; `Locked` makes the others wait. `raced` remembers that two
writers of the order overlapped between reading the watermark and committing,
which `upsert-order.ts:329` accepts in so many words.

### OrdersWindow

Time is whole units, slot t the instants from t to t+1. `cursor` is the run's
page_cursor, `result` what the chunk returned and the loop has not yet written,
`completed` the completed_at of the newest COMPLETED row (what the cutoff is
derived from), `swept` the slots whose last page was taken in. Three history
variables: `coveredTo`, the end of the newest completed run's window; `firstEnd`, that of
the first one, from which a backfill is counted; `late`, which collects at each
completion what lies between the window's end and the completion less the overlap.
`Owed` is what completed runs answer for: from the connection of the store (or, with a
backfill, from `firstEnd` less that) to `coveredTo`.

### Settlement

One order with one line. `fees` is its order_fees rows: a set, because the
partial unique indexes of `check-constraints.sql` make (type, transaction),
(invoice, parcel) and (type, ESTIMATE) keys. `units[u]` is a claim item: absent,
open (any status but Accepted) or accepted; one that matched no order item yet is
absent, as it contributes no estimate (`claims.ts:311`). `recent` says that the rows
that pay the order are among the sixty days a run reads: sale, discount and payment
order take effect only while they are, returns and invoices have dates of their own. The
order is not cancelled (a micro export that is would lose its export fee). Amounts are abstracted: the settled
profit is a function of the fees it counts, the commission and the refund, so
`basis` records what it was last computed from; `order.settled` says that it is
not NULL.

| action | code |
|---|---|
| HandleSale, HandleDiscount, HandleReturn, HandlePaymentOrderEntry, HandleCargoInvoiceItem | one row, one transaction (`settlements/*.ts`), with TryFinalizeReconciliation and RecomputeSettledProfit inside |
| BumpReconciliationStatus | the end of a settlements run |
| ClaimOpens, ClaimAccepted | `upsertClaim` of `claims.ts` with `estimateReturnOnClaim` |
| LinkItem | `linkAgainstLocalCatalog` of `variant-resolution.ts` |
| UpsertOrder | a later event of the package, as far as it touches money |
| RowsGrowOld | time: the window of `cron.ts` begins after the rows that pay the order |

A handler is one step although Read Committed lets other transactions commit
between its statements. Rows of a store are assumed not to be handled two at a time: the
slot of SETTLEMENTS admits one run, and only a zombie of a lost lease (see
`SyncQueue`) could work beside it. What claims, links and intake commit
meanwhile are open estimates, a cost, a unit: of these a handler sees all or
nothing at its next statement, which is what one of the two serial orders gives,
with one exception: an OVERSEAS_RETURN_OPERATION estimate that commits between
the confirmation and the finalize of one payment row stays open until the row's
next poll, as if the claim had come first and the row not yet.

Assumed of the inputs: an order that is neither cancelled nor first seen as
returned, a store that includes stoppage in its estimate, sale amounts that are
known, a row whose order was found.

### WebhookSubscription

`remote` is the vendor's list; a hook's `base` says whose address it points at:
this deployment's, one the operator lists as retired, another deployment's.
`row[s]` is the store's webhook_id and webhook_secret, `tick` and `req` what the
reconcile tick and a request hold in memory, `failing` the receiver's map
`authFailures`. Each vendor call and each statement is a step, and a call may be
answered, refused, or carried out with its answer lost.

| action | code |
|---|---|
| ListStores, ReadRemote, Prune, Register, Update, StoreChange, TickEnds | `processWebhookReconcile` and `reconcileSeller`, with `planWebhookReconcile` as PlanReconcile |
| Connect, RotateWebhookSecret, Disconnect; CallVendor, AnswerRequest, Unregister, DropRow | `store.service.ts`: the row first, the vendor next, the row again |
| DeliverySucceeds, DeliveryFails, FailuresLast, ClearSecret | `verify-trendyol-webhook.middleware.ts`; the threshold and the UPDATE are two steps |
| Deactivate, WorkerCrash, ApiCrash | the faults |

Ids and secrets are numbers, the least that nobody holds (Fresh), so the state
space stays finite. Credentials of the stores of a seller are interchangeable,
and half an hour of failing deliveries is longer than a call and the statement
after it (InFlight). The vendor's switch to PASSIVE is a fault, since a hook whose
deliveries authenticate is not switched off.

### CatalogScan

`listed` and `price` are the vendor's, `row` the variant rows, with one bit for
"lastSyncedAt is not older than the startedAt of the newest run". `run` is the
newest PRODUCTS row of sync_logs, `task[t]` what a worker task believes: after
LoseLease it works on, and only its tick or complete tells it. `delta` and
`eager` are the hourly walk and the repair of one barcode.

| action | code |
|---|---|
| Enqueue, Claim, Tick, Complete, GivesUp, ChunkFails, RunFails, LoseLease | what `SyncQueue` does, as far as a chunk notices |
| FetchPage, FetchBlank | `fetchApprovedProducts` up to the yield, and an empty answer over a catalog that is not |
| UpsertContent, ContentFails | the transaction per content of `upsertCatalogBatch` |
| FinishChunk | `runDelistPassIfComplete`, which no lease fences |
| SkipPage | `advanceCursorPastBadPage`: a page that fails, or one that a list that shrank no longer has (the vendor answers 404) |
| FetchInventory, ComputeVariantChanges, WriteChanges, DeltaFails | `processProductsDeltaChunk` in its three parts |
| FetchByBarcode, WriteEager | `ensureBarcodesInCatalog` |
| List, Withdraw, Reprice | the seller |

Assumed of the vendor: it lists in the order of creation, a page number counts
from the start of the list as it is now, a token names the last content. One
clock: the comparison of lastSyncedAt with startedAt is exact.

## 3. Runs

Sizes are distinct states; times are of a two-worker TLC on a small machine.

| run | question | bounds |
|---|---|---|
| `SyncQueue_lease` (897 k) | one run through every crash, signal, retry, skip and sweep: is the lease exclusive and does the cursor only advance but on doubled rows, is nothing left out, does it implement `SyncRun` | 1 row, 2 incarnations of 2 tasks, 3 pages, page cap 2, 2 attempts; incarnations are symmetric |
| `SyncQueue_live` (124 k) | one active run per slot, and under fairness every run finishes | 2 rows of one slot, 2 incarnations, 1 page, 2 attempts |
| `SyncQueue_pool` (violation) | is the fence enough when a process has two tasks | 1 row, 2 processes of 2 tasks |
| `WebhookQueue_drain` (350 k) | exclusivity, no loss, no reopening, and the queue drains | 3 deliveries (a return that a version may refuse, an unknown status, a drop), 1 tick, 1 inline request, scan limit 1, 2 attempts, 1 interrupt |
| `OrderIntake_books` (442 k) | is a package ever in neither table; exclusion; out-of-order deliveries; is the flush fair to entries that got their costs; does the buffer drain | 4 events (two open, a cancellation, a split), 1 line, 2 concurrent intakes, 2 ticks, 2 deliveries of each, 2 failures, 1 retry |
| `OrderIntake_units` (violation) | do the units drop once | 2 events, 1 line, 1 intake |
| `OrdersWindow_nogap` (1.2 M) | is there a gap that no late run explains; legal windows | 14 time units, day 2, chunk of 2 days, overlap 2, safety net 3, backfill 5 days, runs up to 5 units old, hence late by up to 3 |
| `OrdersWindow_outage` (violation) | is there a gap at all | as above, no backfill, run time 8 |
| `Settlement_books` (396 k) | do status, settled profit and fees agree in every order of rows, and is an order settled in the end if its rows were read in time | domestic or micro export, either cargo; 2 returns, one without a commission amount, 2 units, 1 outbound and 1 return parcel |
| `Settlement_returned` (violation) | is an order settled in the end although a return was accepted | as above |
| `WebhookSubscription_heals` (588 k) | does every connected store get its one subscription and secret back, are orphans returned, is another deployment's hook safe | 2 stores, one of them rotates and disconnects, 1 tick, 2 requests, a cap of 3 that the hooks of the start (one retired, one foreign, one store's) exhaust, 1 rotation, 1 fault |
| `CatalogScan_delist` (672 k) | is absence only inferred from a complete scan, does a complete scan see all, do the rows converge | 4 contents of which one to three are listed at first, pages of 1, numbers for the first three and tokens behind, 2 tasks, 1 change of the vendor's list or prices, 1 fault |

Why the bounds are enough to meet the hazards. *Lease*: four tasks are zombies, the
current holder and a third claimer, of one process and of two; with three pages a
stale tick can fall behind the cursor, and a cap of two makes a skip possible and
impossible. *Live*: a slot that is freed and taken again needs two rows. *Drain*:
a scan limit below the number of rows makes starvation possible, two attempts
make retry and exhaustion different. *Books*: two writers, two different stamps
and a purge in flight. *Settlement*: two returns and two units can be crossed, one
invoice of each kind can be first or last; nothing is counted, so the state space
is complete for these rows. *Subscription*: the hooks of the start use up the cap of three, so no store connects before the
retired one is pruned; two requests and a tick are three parties on one row. *Catalog*: with
four contents the switch from numbers to tokens happens inside a scan, a skipped
page can be the first or one behind the end of the list, and two tasks are a zombie and its successor. *Window*: fourteen units are several runs of several
chunks, the overlap shorter and longer than a run. Every bound is a CONSTANT and
a guard: MaxRows, MaxInterrupts, MaxDeliveries, MaxFailures, MaxPages, MaxTime,
MaxRotations, MaxChanges, MaxFaults.
They cut histories short and forbid nothing else; the proofs do without them or
hold for every value. CHECK_DEADLOCK is off because each system may rest: no row
to claim, no delivery to come, the bounded clock at its end.

Every property of a passing run has a mutant in `PROJECT.json`: a faulty form of
a definition (kept in the module, in a section named so) under which the run
finds the property violated.

## 4. Fairness

*SyncQueue*: the poll loop claims while a slot is free (`index.ts`), a running
task takes its next step because vendor calls have timeouts, the watchdog is an
interval timer, the clock runs, the supervisor boots a replacement. Only
*abandoned* claims must go stale: nothing makes a live task miss its heartbeat,
and nothing prevents it. The last incarnation stays up (`CanLose`); without that
no liveness can hold. Heartbeats and signals are not fair, nobody must enqueue.
*WebhookQueue*: the tick fires every 5 s and finishes its batch, leases and
backoffs run out, interruptions are bounded. *OrderIntake*: what was begun goes
on, both ticks fire, backoffs and the business day end; nothing is assumed of
the vendor or the seller. *Settlement*: the vendor pays, and it bills the
outbound parcel of an order it carried itself; for the seller's own cargo no invoice need
come (`payment-order.ts:49-52`). Every run reads sixty days of rows again, so a row
that failed or came too early is handled later, but the days may end at any moment:
`SettlesUnlessReturned` and `NumberCatchesUp` ask nothing of an order whose rows had
not all taken effect by then (a missing invoice excepted, which may come at any
time). Returns, claims, links and further events may never come, and events do not
change the carrier for ever. *WebhookSubscription*: the tick is an interval timer (`index.ts`), a
request runs to its end, the vendor keeps delivering and the receiver answers;
faults are bounded, so the last tick meets none. *CatalogScan*: cron starts both
runs again and again, a free worker claims, what was begun goes on; nothing is
assumed of the seller. All weak fairness, but for the carrier that stops changing.

## 5. What is proved

TLAPS, for every value of the constants that satisfies the named assumptions.

**SyncQueueProofs.** TypeCorrect. OneRunPerSlot: the only step that makes a row
active out of an inactive one is an insert, whose guard is the unique index;
every other step keeps store and type. CompletedRunsCoverTheirScan: coverage is
not inductive by itself, because a tick writes the *task's* cursor. CoverInv adds
that the pages before a task's cursor, and in state `write` the page under it,
are stored or skipped already (TaskCovered), for zombies too; it needs no
assumption on the pool, so this property survives the flaw of
`SyncQueue_pool`. FinishedRunsStay: every write is guarded by a non-terminal
status. RowsAreHeldWhileRunning (HolderInv: also an ended lease has no holder).
FenceAdmitsTheClaimer and CursorsAdvance hold in pools of any size, but on doubled
rows: while no process has taken a row beside a task of its own, a process that holds
the row's claim has exactly one task on it (FenceInv), so a fenced write comes from
the latest claim and carries the row's cursor. SingleTaskPoolsAreSafe: with
`PoolSize = 1` no row is ever doubled; the violation run shows that with two it is.
NoRunIsStranded, for any pool size, is the safety half of RunsFinish: an active
row is worked on, claimable, within the watchdog's reach, or waits for a clock. Its
invariant TimedInv says that a RUNNING or a FAILED_RETRYABLE row has started and that
the latter has a retry time.

**SyncQueueRefinement.** QueueImplementsRuns: in pools of any size every step of the
queue maps to a step of `SyncRun` or a stutter. `SyncRun` does not promise that
progress only advances, which the sibling of `SyncQueue_pool` breaks; it promises that
progress is never noted past a page that is not done with and that a run completes
only when every page is. It rests on CoverInv of `SyncQueueProofs`. One lemma per
statement that writes a row or a page; what leaves status, slot, cursor and pages
alone (heartbeats, crashes) stutters.

**OrdersWindowProofs.** TypeCorrect, WindowsAreLegal, ResumingLosesNothing, and
CompletedRunsLeaveNoGap, and GapsAreShort. Inv is the conjunction of
the types and of six named parts: the persisted cursor, the pending "continue"
and the pending "done" each have the slots between them and the window's end
swept; a committed window is younger than MaxRunTime; behind coveredTo only late
runs left gaps; what lies from coveredTo to completed - Overlap is called late. The
cutoff of a new window is at most completed - Overlap, so the new window meets the old
one or leaves out what is late. Nothing is assumed of how long a run takes: if
runs end within the overlap, `late` is empty and the theorem says there is no gap;
`OrdersWindow_outage` shows one that has a gap. Lemmas on rounding (CeilDiv, chunk starts)
carry the arithmetic. GapsAreShort says how long a gap can be: never longer than
MaxRunTime - Overlap. EndIsSwept (the slot before coveredTo was swept) makes ShortGaps inductive: a late
run's window begins at most Lateness after that slot. It assumes `SafetyNet > 0`,
which `parsePositiveInt` in the worker's `env.ts:75` ensures.

**SettlementProofs.** TypeCorrect, StatusAgreesWithNumber, NumberIsCurrent,
OneReturnPerUnit, SettledForGood, FeesAreWrittenOnce, FeesAreRetained. Inv adds to the properties that a settled
profit was computable (cost known, not excluded) and that a cost belongs to a
linked item: without it a recomputation after the first might be skipped and
leave an old number. The argument rests on two lemmas about sets of fees: open
estimates change nothing that counts and never close what is open
(OpenEstimatesDoNotCount), and linking a row's legs to a unit changes nothing
that counts (LinkingDoesNotCount). OneReturnPerUnit needs no strengthening: a
free unit has no legs, an inherited one has only this row's. Keyed says that no two
fees share type, source and reference: `check-constraints.sql:43` leaves it to
unique indexes, and the proof shows that handlers which run one at a time never meet
them; Retained, that no writer undoes what another one wrote to a fee.

**WebhookQueueProofs.** TypeCorrect, OneProcessorPerEvent, ProcessedAfterIntake,
ClosedForGood, IntakeHoldsTheLease, AcknowledgedIsKept, RowsMoveForward,
RetriesAreBounded and QueueDelivers, which says that the queue implements
`EventDelivery`. OneProcessorPerEvent, ClosedForGood, IntakeHoldsTheLease,
RetriesAreBounded and QueueDelivers assume `Timely`; what was acknowledged is kept,
and rows only move forward, without it. SoleProcessor is not inductive: LeaseInv adds that a processor
past its claim stands on an open row that is not due, so that no scan or claim
sees it, or on one that went with its store. TakenInv remembers, at the statement
between intake and stamp, that the event was taken in. Recorded says that what is
in a batch or was answered 200 has a row. With these, lemmas on what one step
does to *one* row (ReceiveRow, ProcessRow, ClockRow, DisconnectRows) give both
that a closed event stays closed and that each step maps to a step or a stutter.
RetriesAreBounded is not the bound MaxAttempts one expects from `lease.ts`: attempts
are compared with it only when a failure is recorded, so a process that dies after
its claim is counted and not compared. AttemptsInv adds that a processor's copy of the
count is the row's and lets each interruption pay for one claim; without `Timely` a
lease that runs out is a claim nobody pays for, and TLC finds the bound exceeded.

**OrderIntakeProofs.** TypeCorrect, ExclusionIsFinal, FlushKeepsItsHands,
WatermarkHolds, NothingIsLost, from four invariants. Frozen: an excluded order has
no snapshot, no fee and no profit, although the estimate runs on every later write; it
rests on the two guards of the estimate and the snapshot (Estimates, Upserts). LockInv: one graduation holds the buffer row, and the row is there.
RaceInv: as long as no two writers of the order overlapped (`raced`) there is at
most one, and what it read of the order still holds. Kept: whoever finds its
event stale has seen an order, an absorbed cancellation has written one, and a
package once seen is in a table or its cancellation is still owed (Routes says
which branch an event can be in). So only a purge in flight and the nightly
reaper empty both tables.

**WebhookSubscriptionProofs.** HookInvariant, TypeCorrect, RowsKnowTheirOwn,
ForeignStay, StoresStay. HookInv: whatever a row, a request, a plan or a pending
change names as the hook of a store is that store's hook or one that is gone
(Owns), and no plan prunes another deployment's (MayPrune), although all of them
act on lists read long before. It is kept because an id that anybody holds is
never given out again; that a fresh one exists follows from what is held being
finite (a pigeonhole lemma on 1..n+1). RemoteStep says in one place what any call
does to the vendor's list.

**CatalogScanProofs.** TypeCorrect, ScanInvariant, StampsAreTrue, CompleteScans. A
page is a set of ranks, and a rank is a cardinality; lemmas without induction
show that the ranks of a finite set of numbers are exactly 0..n-1 (an injection
between sets of one size is onto). Aligned ties a cursor to its progress: by page
number progress is the number times PageSize; with a token it is at least the cap
and at most what lies before the token, so the cap guard never replaces a token.
Walks says that every content before a run's or a task's cursor was unlisted at
some time, has been stamped, or is about to be; a zombie's walk too. HolderInv:
the holder knows of every page its run skipped. At the end of the list the pass
can then only find what was unlisted.

Some of what is proved is in no run, having no separate fault of the code to break
it: CursorIsCovered, QueuedRowsClaimable, CursorIsSwept, ProcessedWasTakenIn,
HooksKeepTheirStore, NoRunIsStranded, RowsMoveForward, RetriesAreBounded,
GapsAreShort, Keyed and Retained. Conversely only model-checked are the liveness properties
(RunsFinish, QueueDrains, BufferDrains, SettlesUnlessReturned, NumberCatchesUp,
Heals, OrphansReclaimed, Converges), which are out of the prover's reach together
with ENABLED and induction over recursively defined data. Every other property of
a passing run is proved, the two refinements among them.

## 6. Disagreements between code and its documentation

Each is a violation run whose property says what the quoted line says.

1. `SyncQueue_pool`: the fence compares claimed_by with the id of the *process*
   (`sync-log.service.ts:32`). With SYNC_WORKER_CONCURRENCY > 1 a slow task whose
   row was swept and re-claimed by a sibling still passes the fence and moves the
   cursor back.
2. `OrderIntake_units`: a package that is buffered and later written directly (its
   day over, or its costs attached) takes its units off the stock a
   second time; `intake-order.ts:248` says they drop exactly once.
3. `OrdersWindow_outage`: the next window begins after the *completion time* of
   the last run, less an overlap, although that run read only up to the end it
   fixed at its first chunk. `orders.ts:92-94` promises that an outage of any
   length is healed.
4. `Settlement_returned`: an accepted claim writes estimates of the return legs
   (`estimate-return-on-claim.ts:287-340`); the payment order confirms other types
   (`payment-order.ts:42-53`), and no code deletes them when the actual legs land.
   A return that is accepted before the payment order keeps the order from
   FULLY_SETTLED for ever; `finalize-reconciliation.ts:22-23` says that after the
   payment order only a shipping estimate can be open.

## 7. Observations without a run

- A released row has its budget reset although no chunk ran in between
  (`sync-log.service.ts:451`, `loop.ts:32`): signals can keep a failing run alive.
- A sweep to PENDING keeps next_attempt_at, which claims of PENDING rows ignore
  (`claim.ts:53-64`).
- A webhook lease counts attempts, but exhaustion is decided only where a failure
  is *recorded* (`lease.ts:47`, `lease.ts:129`): an event that kills its
  processor is retried for ever.
- The order row and the buffer row of a package can coexist
  (`intake-order.ts:86`, `:191`).
- Under Read Committed the dematerialize of a package that has no order yet
  deletes nothing in its first statement (`intake-order.ts:159`); a graduation or an
  intake that commits before the second one (`:162`) leaves the ghost's order in the
  books, where only the replay of the event would find it.
- A cost attached between the check and the buffer insert flips nothing; the flush
  then excludes a calculable order (`buffer-promote.ts:226`, `:314`).
- Without an exchange rate at snapshot time (`upsert-order.ts:147-155`) an order is
  neither calculated nor excluded either.
- One malformed package makes the whole page of orders throw
  (`packages/marketplace/src/trendyol/orders.ts:628`); orders have no page skip.
- The calculability gate accepts an archived cost profile, the snapshot does not
  (`build-calc-check-lines.ts:33`): such an order is neither calculated nor
  excluded, the "third state" that `intake-order.ts:20` says is gone. In
  `OrderIntake` these are Calculable and Snapshotable.
- A content that fails to upsert is passed over (`upsert-catalog-batch.ts:198`)
  and the delist pass then reads its old timestamp as absence (`products.ts:171`),
  although `products.ts:136` says that every variant a page returned was
  refreshed. So does a list that shrinks while it is walked, because the pages
  move up by one, and an empty answer after the first page, which counts as the
  end. The next scan or delta takes the stamp back: `Converges`.
- `fetchApprovedProducts` ends without a yield on an empty page (`products.ts:178`
  of the client), so the branch `empty-batch` and the test
  `observedTotalElements === 0` of the handler are never reached: a catalog that
  has become empty is never delisted. `Converges` excepts it.
- With two skipped pages the cap guard, which goes by progress, asks for page
  numbers behind the cap, and the run fails; `products.ts:307` says the guard stays
  correct then.
- A tick that listed the stores before a connect prunes the subscription the
  connect has just made; `webhook-reconcile.ts:251` says this cannot be. The next
  tick puts it right.
- Nothing keeps two reconcile ticks from overlapping (`index.ts:264`); two that go
  on crossing each other's rotations can do so for ever. The run has one tick.
- A rotation that finds no webhook_id beside a connect that is still under way
  registers a second subscription; the tick prunes one of the two.
- When a manual rotation's database write fails, nothing knows it
  (`store.service.ts:354`): the row has a secret and an id, so the tick sees
  nothing to do, and only the receiver's half hour of failures heals it.
- Orphans of a seller whose last store was disconnected stay
  (`webhook-reconcile.ts:126`).
- A zombie of a lost settlements lease can handle one Return row while its
  successor handles another: both may pick the same free unit (`return.ts:179`),
  as no constraint forbids it. The model has one handler at a time.
- A positive SYNC_HISTORICAL_BACKFILL_DAYS makes the first run look less far back,
  never further: `orders.ts:85` clamps at the connection of the store, where
  `orders.ts:70` says "walk further back".
- Once a claim has left open estimates behind on a settled order, a later invoice
  no longer reaches its number (`finalize-reconciliation.ts:72`), although the
  comment at :76-78 says it is reabsorbed.
- A shipping estimate of the seller's own cargo that was confirmed before an
  invoice arrives is counted beside it (`payment-order.ts:101-106`).
- An order for which no tariff was found has no shipping estimate and can be
  FULLY_SETTLED without any cargo in its number.
- An item that is linked after the payment row has left the sixty days
  (`cron.ts:66`) never has its order settled: the link does not finalize.
- A cost is captured at the first insert or at the link only; an item linked
  without one keeps its order from being settled.
- While no settled commission has arrived, an event can overwrite the refund that
  a Discount row has written (`upsert-order.ts:582-592`).
- A claim that is re-anchored (`claims.ts:230-252`) after its units were accepted
  leaves the estimates of its return on the former order;
  `estimate-return-on-claim.ts:166` says that no stale leg can arise.
- Two claims runs at once (one of them a zombie) that match one claim to two
  orders both miss the other's copy (`claims.ts:230`) and create two; from then on
  the move violates the key (orderId, trendyolClaimId) at each scan.
- Two owners demoted at once can leave an organization with none
  (`member.service.ts:69`); a price write whose poll gives up stays PENDING
  (`price-write.service.ts:191`).

## 8. What is done, and what is not modelled

| part | model | abstract specification | proofs |
|---|---|---|---|
| job queue | `SyncQueue` | `SyncRun` (checked and proved) | yes |
| webhook queue | `WebhookQueue` | `EventDelivery` (checked and proved) | yes |
| order intake and buffer | `OrderIntake` | | yes |
| orders window | `OrdersWindow` | | yes |
| settlements, return estimates | `Settlement` | | yes |
| webhook subscriptions | `WebhookSubscription` | | yes |
| catalog scan, delist, delta | `CatalogScan` | | yes |

Not modelled:

- *Matching and re-anchoring of claims.* One transaction per claim, decided by
  what it reads; only a second claims run, a zombie, could disturb it. What a
  claim does to the money of its order is in `Settlement`.
- *A variant linked after the order was written.* Lines of `OrderIntake` have a
  variant; the late link captures the snapshot and runs the estimate again
  (`variant-resolution.ts`), behind the guards modelled there. `Settlement` has the link.
- *What variant resolution finds due, and its back-off tables.* They decide when a
  link is tried again; the link is in `Settlement`.
- *The composition of queue and window* (a row of `SyncQueue` whose chunks are the
  pages of `OrdersWindow`). Two rows of two pages exceed three million states
  with liveness. `OrdersWindow` takes from the queue only that a run resumes at
  its persisted cursor, within MaxRunTime; the first is what `SyncQueue` shows,
  and the second is what nothing in the code ensures (`OrdersWindow_outage`).
- *Members, price writes, manual trigger, tariffs, reads*: one request, mostly one
  transaction; the two races seen are in section 7.
- With the reason in `PROJECT.json`: the vendor client (I/O and JSON mapping),
  decimal arithmetic of profits and tariffs (pure functions with worked examples
  in unit tests), spreadsheet import, row-level security and triggers
  (declarative), authentication and routing (stateless per request), exchange
  rates (idempotent upsert by date), the web application (by far the largest part
  of the source: screens, without state of its own that outlives a page), scripts.

## 9. Running it

    tlc -workers 2 -config SyncQueue_lease.cfg MCSyncQueue.tla
    tlapm SyncQueueProofs.tla

The module of each cfg is in `PROJECT.json` under `runs`; `expect` says whether
TLC must pass or find the violation.

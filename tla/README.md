# A TLA+ verification of the Stallorder platform

Stallorder is an ordering platform for market stalls: customers scan a QR code
and order from a web page, staff confirm and prepare, and background jobs
notify, replicate, synchronise and bill. It is a Next.js application, a few
Supabase Edge functions, and a PostgreSQL database whose functions carry most of
the transactional logic.

This directory models the parts where concurrency, retries and crashes decide
whether the system is correct. The specifications are read against the source;
the line ranges are in `PROJECT.json` under `map`. Where several migrations
replace a function, the newest one is the one that is modelled.

## Inventory

| Component | State it keeps | Operations | What makes it correct |
|---|---|---|---|
| Notification outbox (`server/outbox`, `p1_outbox_dispatch` migration) | `notification_outbox` rows: status, attempts, claim, lease, next time | enqueue with a billing transaction; cron cycle: quarantine, claim, deliver, complete or fail | one sender per entry, bounded repetition, every entry settles, terminal rows stay |
| Public order circuit breaker (`public-order-circuit-breaker.ts`, `public-order-client.ts`) | per operation: state, failures, opening time, probe flag | `allowRequest`, `recordSuccess`, `recordInfrastructureFailure`, timeouts, aborts | one probe at a time, half-open ends, recovery when Circuit A is back |
| Public order intake (checkout page, `create-public-order` Edge function, Circuit B service, SQL preflight and creation) | order sessions, orders, idempotency keys; the page's checkout identity | open session, submit, time out, retry, preflight, gates, create, answer; revocation by merchant, schedule or load | one order per session and key, own order in the answer, no false refusal of a committed order |
| Order lifecycle (order, item, item batch, table checkout, fulfillment-time, completed-orders and modules routes, order edits, `lib/kitchen.ts`) | order status, payment status and payment row, item statuses, kitchen tasks, what the platform was told | status request, checkout, item and task changes, batches and their undo, edits by customer and staff, customer present, verification, cancellation, expiry, refund, module change | closed orders stay closed, no completion without payment and pickup check, a decision for every order |
| Fulfilment time (`fulfillment_time_coordination`, two routes) | agreed, requested and proposed time, state, version, deadline | propose, confirm, accept, decline, answer late, customer present | the stall is bound only to a time the customer saw |
| Pickup codes (`daily_pickup_code_allocation`) | a pool of codes per stall and date | allocate under an advisory lock, reconcile, look up, verify | a code names one live order, exhaustion is refused cleanly |
| Product stock (`stall_product_stock`) | stock and version per product, counting epoch, allocations of orders | order, amend, cancel, produce, set, add, lift | no portion lost or sold twice |
| LINE notification jobs (`server/notifications`) | job rows, consent, integration, vault secrets | enqueue, recover, list, claim, send, retry, alert; link, revoke, unfollow | one sender, no push after consent ended, every job ends |
| Staff push jobs (`staff-push-service.ts`) | delivery rows with lease token and expiry | enqueue, sweep, claim, send, settle | bounded sends, only the lease holder settles |
| Delivery platform jobs and webhooks (`server/delivery-platforms`) | webhook events, external order, job rows | receive, claim, fetch, import, complete, fail, retry by hand | one internal order per platform order, success is real |
| Offline POS sync (`src/offline`, `server/offline`) | IndexedDB orders and queue, sync lock, permits; inbox, receipts, conflicts | create, move, upload, apply, renew; import, replay, reject, resolve | one order per key, a settled row is backed by the server, nothing is imported with a permit revoked before |
| Special closures, schedules (SQL) | closures, ordering state | preflight wrapper, catch-up | no order for a closed time |
| Online payments, e-invoices (`server/online-payments`, `server/e-invoice`) | intents, invoices | create, webhook, issue, void | state machines survive reordering |
| Storage replication and flags (`server/resilience`) | replication jobs, deletion intents | copy, delete, verify | a deletion is not undone by a late copy |
| Billing, reservations, waitlist, cash shifts, printing, CRM, workforce, supply, applications, localization, QR contexts, UI | records behind single transactions | create, read, update | mostly single-actor; see "Not modelled" |

How they interact: the page calls `requestPublicOrder`, which goes through the
breaker to Circuit A (Edge function) or Circuit B (Next.js route); both run the
same SQL preflight and the same SQL creation. Creation inserts an order and,
through triggers, refreshes capacity, allocates a pickup code and reconciles
stock. Billing transactions write outbox rows that a cron job of `vercel.json`
dispatches each minute; order triggers write LINE jobs and staff push deliveries,
which two more cron jobs send. A delivery platform's webhook writes an event and a
job, and the job's import creates an order that staff then confirm or reject at the
platform. The offline till uploads orders that may have been created online under
the same key. Merchant actions and schedules change the stall and revoke sessions
under the same row locks.

Hard behaviours: a client that times out while its handler goes on and commits;
two handlers of one session; sessions revoked inside the transaction that uses
them; cron invocations that overlap, die between two statements, use an old clock
reading or outlive their leases; staff requests that read, call a platform and
write later; answers lost on the way to an offline till. The list, each at its
line, is in `PROJECT.json` under `hazards`.

## Modules

| Module | Role |
|---|---|
| `BoundedDelivery` | abstract: what the outbox promises |
| `NotificationOutbox` | outbox rows, cron workers, provider; implements `BoundedDelivery` |
| `PublicOrderCircuit` | one breaker and the calls of one page that share it |
| `OrderBook` | abstract: what intake promises |
| `PublicOrderIntake` | page, handlers and database; implements `OrderBook` |
| `OrderLifecycle` | one order from arrival to its end, with everyone who changes it but the item batches |
| `OrderItemBatches` | the item batches and their undo, beside all of `OrderLifecycle` |
| `FulfillmentTime` | the agreement about the time of one order |
| `PickupCodes` | the codes of one stall |
| `StallStock` | counted stock of the products of a stall |
| `LineNotificationJobs` | LINE jobs of one order, the contact and its consent |
| `StaffPushJobs` | Web Push deliveries to staff |
| `DeliveryOrderImport` | webhooks, jobs and import of one platform order |
| `OfflineSync` | an offline till with its tabs, and the server that imports |
| `OrderPlacementProofs` | theorems about `PublicOrderCircuit`, `PublicOrderIntake` and `StallStock`: what happens when an order is placed |
| `OrderPromiseProofs` | theorems about `FulfillmentTime` and `PickupCodes`: what an order promises |
| other `...Proofs` | theorems about the module of that name |
| `MC...` | the instances that TLC checks; `MCOrderPlacement` and `MCOrderPromise` run two modules in one run, one or the other in each behaviour |

Each component is a module of its own; where one acts on another's state, the
other appears as an action that may happen at any time the code allows it (an
order closing in `PickupCodes`, an agreement about time in `OrderLifecycle`). Modules
that one proof module extends together have specifications with names of their own
(`CircuitSpec`, `StockSpec`, `TimeSpec`), all others `Spec`.

Operators that stand in front of a definition and differ from it in one detail
(`StealsClaims`, `ProbeAllowedEarly`, `InsertUnlinked`, ...) are plausible
mistakes. No specification uses them; each is substituted for the operator it
varies to see that the property it belongs to notices.

### NotificationOutbox

A row's columns are functions over `Entries`. A worker is one cron invocation
with an id of its own (`BeginCycle` takes an id that no row still names). The
dispatcher reads the clock once per cycle and passes that instant to every
statement, so a statement may run with an old "now". Clocks are relative to the
present for that reason: `lease[e]` and `due[e]` count down, `age[w]` is how old
the worker's reading is, and its instant is `-age[w]`. `Claim` is the whole of
`claim_notification_outbox`: release of expired leases, dead-lettering of rows
without attempts left, ordered batch, increment, lease. Entries of a batch are
dispatched concurrently (`Deliver`, then `Complete`, `Fail` or
`RecordingFails`); the provider may take an entry and still look failed.
`Crash` is possible at every step. `Fail` keeps the SQL guard: a row the worker
no longer owns is skipped.

`BoundedDelivery` says what is left when workers, claims, leases and clocks are
forgotten: a message is tried at most `Limit` times and taken at most once per try,
it is confirmed only after it was taken and given up only with its tries used up or
after a final refusal, and a settled message never moves. Status, attempts and the
provider's history map to it as they are; a `Claim` is a `Round`, a failure that
ends in a dead letter is a `Round` of that message alone, and every other step of the
cron invocations stutters.

`skip locked` is abstracted: a row skipped because another claim holds it goes to
that claim, as if it had run first. `created_at`, the tie breaker of the batch
order, is left open. Log lines and the health query change no state.

### PublicOrderCircuit

The breaker's methods are synchronous JavaScript and so are part of one step; a
call is suspended while it awaits the flag, the primary answer or the backup
answer. `BeginClosed`, `BeginProbe` and `BeginDenied` are the three outcomes of
`allowRequest` together with where the call goes next. `pc = "probe"` marks the
request admitted in half-open state, which the code does not distinguish once it
is under way: any outcome is recorded the same way, and that is where late
outcomes interfere. Time is `age` of a request against `Timeout` and
`sinceOpened` against `Cooldown`. `Abort` is the caller's signal, for the calls in
`Abortable` (the order tracker passes one, the checkout page does not), and
`abandoned` remembers that it ended a probe. The availability
flag is a choice from `DualChoices`: its cache only makes answers older.

### PublicOrderIntake

Every handler run is a request; an order row is named by the request whose
transaction inserted it. The page (`OpenSession`, `Submit`, `Retry`, `GiveUp`,
`Receive`) keeps its key while the cart is the same, also when it rotates its
session, and retries with the same body while earlier handlers may still run. The
handler runs `Intake`, `Preflight`, `Gates`, `Create`, `Respond`, and may fail or
die at each of them, after the commit too. `Create` is one transaction under the
session's row lock, with the checks in the order of the SQL: capacity, replay,
session used, session expired, validation, unique key, insertion. Both circuits
share this control; they differ in transport only.

An insertion has two forms. In `CreateInserts` the session becomes CONSUMED and
points at its order. In `CreateInsertsAndPauses` the trigger
`orders_refresh_capacity_after_change` finds the load at the pause threshold and
revokes all ACTIVE sessions of the stall before the creating function links its
own, which then matches no row. `RevokeSessions` is the same effect from outside:
merchant actions, schedules and other orders.

What turns a request down is data (prices, stock, rate limits, opening hours),
so each check may pass or not. A request turned down by the intake flag or the
global gate, ahead of the idempotency lookup, is "declined"; one turned down later
is "refused".

### OrderBook

A set of pairs of session and key; a pair is added only if neither part occurs.
`PublicOrderIntake` maps it to the sessions and keys of the rows in `orders`, linked
or not.

### OrderLifecycle

One order, and up to `Staff` requests about it in flight. A status request of
`orders/[orderId]/route.ts`, or a table checkout, reads the order and passes its
checks (`ReadOrder`), counts unfinished items (`CountItems`), calls the delivery
platform (`TellPlatform`) and writes (`WriteOrder`); other requests come between any
two of these steps, and `EndRequest` is every refusal, conflict and crash. A request
carries what it read (`status`, `pay`) and what it plans (`to`, `pays`, `items`), and
`StillAsSeen` is the `where` clause of its update. Item views (`AdvanceItem`,
`AdvanceItems`), kitchen board, the customer's edit and cancellation, amendment by
staff, the customer who stands at the counter (`CustomerPresent`), expiry job,
completed-orders route, refund and modules route lock the row or are one conditional
update, so each is one action. An edit replaces the items of the order: `kind` holds
the items, and `AmendByStaff` keeps the tasks of those that stay. `grace` is the time
until `confirmation_expires_at`, which `EditByCustomer` sets anew. Of the writers of
`orders.status` in the scope of the module only the item batches are missing; they are
`OrderItemBatches`. Every write goes through `SetStatus`, which contains the trigger
that creates and cancels kitchen tasks. A live task has no status of its own: the trigger
`sync_kds_task_from_order_item` copies that of its item. `Persist` is
`persistExternalOrderTransition`, including the deduplication key that makes a
second job of one type fail the whole transaction. `blocked` stands for the
agreement about time, whose details are `FulfillmentTime`'s.

### OrderItemBatches

`order-items/batch/route.ts` moves selected items forward in one transaction, and a
second transaction takes the last such action back for five seconds. Both lock the
items and not the order: `ApplyBatchUpdate` and `UndoBatchUpdate` write the items,
`DeriveStatus` reads the order and derives its status, `CommitBatch` writes it by id.
The first write to the items of an order that was not in production runs the trigger
`mark_order_stock_consumed`, which does lock the order until the commit (`holds`);
afterwards nothing does, and every action of `OrderLifecycle` may come between
(`OtherRequest`). A staff member has one such transaction open at a time, and the last
action only can be undone.

`ClosedIsFinal` and `FinishedIsReady` are checked, and proved, of every writer except
this route, and this route breaks the first of them (see "Findings"); two batches of different
items of one order can also leave all its items finished and the order below READY,
because each derives the status without seeing the other's items. That is why the route
is a module of its own.

### FulfillmentTime

The columns of the agreement, the page of the customer (`shown`: the version and the
proposal it displays) and the version on each staff page. Commands are single
transactions that compare the version. `Progress` is the order moving on under the
one check the agreement imposes on it.

### PickupCodes

`Place`, `LockDate`, `AssignCode` and `CommitOrder` are the steps of one placing
transaction: until the commit nobody sees its code, so the advisory lock is what
keeps two transactions from the same choice, and `IndexAdmits` is the unique index
behind it. `Legacy` orders have any code and no service date until `Reconcile`
reaches them.

### StallStock

A commit settles an order's allocations (`CommitOrder`, which is
`reconcile_order_stock` in the deferred trigger) and holds every row it touches. What
is older than the commit is `created_at`, so `BeginOrder` records the counting epochs
at that moment and `PlaceOrder` commits later. An allocation counts only in the epoch
it was made in (`Previous`). `Held` counts what orders hold of a product as a set of
numbered portions. Editors act on rows they displayed before (`screen`),
fenced by `stock_version`, which the trigger `version_stall_stock` maintains.

### LineNotificationJobs

Rows without worker id: `Claim` compares only the status that `ListCandidates`
remembered. `loaded` is the attempt count an invocation read at its start; it judges by
that count, not by the row's, whether a failure is retried or alerted (`Retries`,
`NextAttempt`), and after an overrun the two differ. `Check` reads the contact and the integration, `ReadSecrets` the vault,
`LineAnswers` is the provider. A worker that has passed the check but not read the
secrets goes from "checked" to "stale" when somebody deletes the secret. `Write` is
an update by id, under the check constraint on terminal rows. `LinkCustomer`,
`RevokeByCustomer`, `WebhookRevokes`, `DisableIntegration` and `UpsertIntegration`
are the other writers. An unfollow event is stored first and acted on later; between
the two the webhook may die. `due` at its lowest value stands for a null
`next_attempt_at`, which the query treats as due.

### StaffPushJobs

The invocation's lease token is the worker. `CancelExpired`, `RecoverLeases`,
`GiveUp` and `Claim` are the four statements of a cycle; `Finish` is the update
fenced by the token. The lease (120 s) is shorter than an invocation may live, so
workers do lose rows while they send. `sends` counts the pushes that left.

### DeliveryOrderImport

One platform order: its webhook events with distinct replay keys, its two jobs, and
the ledger row in `external_orders`. `ReceiveWebhook` is the signed-event
transaction with its outcomes, the rejected one included, where the insert of an
existing job aborts the transaction. `Claim` is the single claiming transaction with
its sweep; `StageOrder` and `ImportOrder` are the transactions of the two job types;
`CompleteJob` and `FailJob` name the row by id alone, and use the attempt count the
worker read (`taken`). `CompletionFails` is a completing transaction that fails after the
work was done: the catch treats it as a failure of the job, which may end in DEAD_LETTER
although the order was imported. `troubles` bounds crashes, manual retries and pauses.

### OfflineSync

Both sides of the offline till. On the device: `local` and `queue` are two IndexedDB
stores that different transactions write, `lock` is `navigator.locks` or, where the
browser lacks it, a lease (`setup.lease`). `Start` (which reads the permit, before the
lock), `Load`, `MarkAndSend`, `AnswerArrives`, `Apply` and `Finish` are one upload;
`MarkFailed` is its failure. The purge runs inside the upload's `try`: when an accepted
order is due it deletes that order and throws, because `offline_print_jobs` has no index
`local_order_id` (`PurgeThrows`), and the catch marks the batch just synchronised FAILED
(`CatchPurge`). On the wire: `requests`, which the server may still work on after the tab
has given up. On the server: one transaction per record (`Replay`, `Reconcile`,
`Import`), a conflict that rolls it back (`Throw`) and the second transaction that
records the rejection (`RejectRecord`). The hash of a record covers the whole stored
order, so a payload is that record, sync bookkeeping included.

Time is the number of `events` of device and permits. A permit has a `window`: the
event at which the bootstrap request took `issuedAt`, and the one at which it was
revoked. Taking `issuedAt` and the issuing transaction are two steps (`BeginIssue`,
`CommitIssue`): the device may be disabled in between, and two requests may commit in
either order; the answer, with the permit, may never arrive (`SaveBootstrap`). The server
does not see the event at which an order was taken but that time shifted by latency and
by its own delay (`Adjusted`), it compares the shifted time with the window, and counts
the orders of a window by it (`LimitReached`). It reads the revocation once per request
(`ReadContext`). `Setups` lists situations, so that faults, tabs, permits and batches are
not all multiplied with each other. Left out are `expiresAt` of a permit, and a device
clock that is wrong. A failed availability check is an upload that does not start.

## Runs

| Run | Expect | What it shows |
|---|---|---|
| `outbox` | pass | three overlapping invocations that crash at any step and lose answers of the provider: one sender, at most one acceptance per attempt, the refinement of `BoundedDelivery` (dead letters justified, settled rows final), every notification is delivered or dead-lettered |
| `placement` | pass | two parts in one run. The breaker, with four calls, two of them abortable: one probe at most, half-open has its probe unless it was abandoned, and the breaker closes when Circuit A stays up. The stock: portions are conserved, orders hold their lines, consumed portions are gone, and editors do not save over sales they have not seen |
| `intake` | pass | retries, rotated and revoked sessions, dying handlers: sessions match orders, answers are the customer's own order, committed orders are returned, and intake implements `OrderBook` |
| `lifecycle` | pass | racing requests on one order: completion implies payment and pickup check, production implies the platform's acceptance, finished orders are ready, closed orders stay closed, every order is decided unless its customer edits it for ever |
| `lifecycle_collected` | violation | a payment collected in advance is overwritten |
| `lifecycle_undo` | violation | a batch of items reopens a closed order |
| `promise` | pass | two parts in one run. The agreement about time: a customer accepts only the time that the page showed. The pickup codes: a code names one active order, and orders are refused only when the pool is used up |
| `line` | pass | one sender while invocations stay within the lease, no push after a revocation, SENT is final, jobs end |
| `line_expired` | violation | a row whose lease is over is not made retryable |
| `push` | pass | bounded sends and fenced settling with workers that outlive the lease, deliveries end |
| `delivery` | pass | one internal order per platform order, a success is real, jobs end |
| `offline` | pass | what the device calls settled is backed by the server, one order per key, revoked permits import nothing taken later, queued orders are settled |

### Findings

The status request writes `paymentStatus` as it read it before its transaction, and
its update compares the status only. Collecting payment in advance leaves the status
alone, so a payment recorded in between is overwritten with UNPAID, while the row in
`payments` remains, and the order asks for money again (`lifecycle_collected`). The
functional QA list demands that nobody pays twice. A second collection does fail, at
the unique payment of the order.

`docs/KDS_PRODUCTION_BOARD.md` says that every status change is checked against the
backend's allow list, from which nothing leaves COMPLETED, CANCELLED or EXPIRED. The
batch route checks the order before it writes the items, and an undo not at all; either
then derives a status from the items alone and writes it by id. The run
(`lifecycle_undo`) cancels an order between the check and the derivation, and the batch
makes it READY again.

`docs/MONITORING.md` says that a PROCESSING row older than ten minutes is made retryable.
The recovery asks for attempts left, so a row whose invocation died during the last
attempt stays PROCESSING, and no alert is raised (`line_expired`).

### Where the code departs from what one would expect

Met while modelling. The modules contain these behaviours; the properties that
concern them name them as exceptions, and none of them leads to a second order or
payment.

- Outbox: a crash during the last attempt dead-letters an entry that the provider
  may have taken, while `docs/OUTBOX_DISPATCH_ADR.md` calls a crashed row recoverable.
- Circuit: an abort of the half-open probe records no outcome and leaves the flag
  set; `HalfOpenHasProbe` and `BreakerRecovers` except an abandoned probe.
- Intake: the intake flag and the global gate are evaluated before the idempotency
  lookup and can refuse a retry of a committed order ("declined"); capacity can refuse
  a retry that passed preflight before the first request committed; an insertion
  whose own trigger pauses the stall leaves its session REVOKED and unlinked, so that
  a retry does not find the order. `CommittedOrderIsReturned` is about retries sent
  after the commit of a linked order, past the first two checks.
- LINE: an invocation that overran its lease judges by the count it loaded, so it may
  write FAILED with a retry time while another worker begins the last attempt, and the
  job ends without an alert; `EventuallySettled` excepts this case and the row of
  `line_expired`; a
  failure that is not retryable stores a null time, which is due, so the job is tried
  until its attempts are used up; a stale candidate list disregards the backoff; an
  unfollow event whose processing failed is a duplicate when it is delivered again,
  and the consent stays.
- Delivery: a job dead-lettered by the sweep raises no alert; a second event for an
  order whose job exists is rejected because the unique violation aborts its
  transaction; a completion that fails makes a failure of work that was done; a worker that outlives its lease can leave RETRY_PENDING with its
  attempts used up.
- Stock: an order from before the counting began is not counted when it is amended.
- Lifecycle: a rejection that the platform accepted does not stop an order whose write
  then fails; the item view makes an order READY without telling the platform; only
  the step to PREPARING heeds an unresolved time; every edit of the customer postpones
  the deadline of a waiting order, even one already past, without a limit.
- Codes: accepting a new date keeps the code and the service date of the old one.
- Offline: a resent record no longer matches the hash of the first, which covers the
  sync bookkeeping, and becomes a conflict, so that an order that was imported is
  REJECTED on the device (`docs/OFFLINE_SYNC_PROTOCOL.md` expects DUPLICATE):
  `SettledIsReal` promises a conflict for a rejected row, and not that it has no order;
  a purge that throws sends the batch just synchronised on that way; an order taken
  before a permit was issued can be imported with it, because its time is shifted; a
  status change during an upload stays on the device; an offline cash event never parses and blocks every batch, as does an
  order retried more than a hundred times; renewing the permit drops pending cash
  events.

### Bounds

The bound constants are named in each module; the `.cfg` gives their values.

- Outbox: one entry, three workers (a dead one, a running one, one that recovers), two
  attempts (first and last), `LeaseTicks` 3 over `CycleLimit` 2. Entries interact
  through the batch limit only.
- Circuit: threshold 2 (a failure that opens and one that does not), `Cooldown` 3
  over `Timeout` 2, four calls, two of them abortable.
- Intake: two sessions, two keys, four requests, two tries per submission. The code
  tries four times (two calls, two circuits); two give every overtaking pair.
- Lifecycle: a deadline of two ticks, so that an edit meets one that is half over; orders
  of one item with two racing requests, and orders of one or two items, of two one is
  packed, with one request (`Crew`); edits replace the item of the first and give or
  take an item of the second; customer orders of both types, platform orders with all
  and with some capabilities.
- Time: two staff pages, two times, four versions: two proposals and a replacement of
  one that the customer still has on the page.
- Codes: a pool of two, two dates, two new and two legacy orders, so that the pool runs
  out and collides.
- Stock: two products, two orders, one editor; the product at the centre is ordered up
  to twice per order and its count changes three times, so that counting ends and
  begins again; the other shares baskets with it, and being short fails them as a whole.
  The orders are alike, and `o1` is the one begun first.
- LINE: one job, two workers, two attempts, one fault, `CycleLimit` 2 over
  `LeaseTicks` 1, so that workers both stay within and outlive the lease.
- Push: one delivery, two workers, two attempts, one crash, `CycleLimit` 2 over
  `LeaseTicks` 1, expiry after four ticks.
- Delivery: two events in the four combinations of kinds that matter up to order, two
  workers, two attempts, one trouble, a lease that any tick outlives.
- Offline: six situations: two racing tabs with a lease that is lost and an order that
  moves on; the same with two faults; permits renewed and revoked, up to four events,
  with a cash event; permits renewed around an upload that fails; batches of two; the
  limit of a permit. `MaxRetry` 1, so that it is exceeded.
- `promise` and `placement`: the bounds of their two modules; the module that a behaviour
  leaves alone adds no states.

Symmetry is used in the runs without liveness only. Deadlock is not checked in
`intake` (a page that has its order, with all handlers ended, stops), `promise` (the last
date passes and all orders are closed; the customer has answered) and `offline` (everything settled).

### Fairness

- Outbox: time passes; the cron entry keeps starting cycles (`vercel.json`, every
  minute); the platform ends an invocation at its limit. Strong fairness on quarantine
  and claim says that not every cycle for ever dies before its claim. Nothing is
  assumed of delivery, completion or failure.
- Circuit: time passes, every call is carried on, the page keeps calling (the tracker
  polls every three seconds). Strong fairness on a primary answer says that a Circuit A
  that is up is not too slow each time. Aborts are never owed.
- LINE, push, delivery: time passes, cron keeps starting invocations, and one that is
  not killed goes on; deaths are bounded by a constant. Nothing is assumed of the
  provider's answers, of administrators or of customers.
- Lifecycle: time passes, and the expiry job runs (every minute). Nobody owes a
  confirmation. The customer may postpone the deadline without end, so
  `EventuallyDecided` has that alternative: an order that is edited infinitely often.
- Offline: the coordinator of each tab runs every 30 s, uploads and server transactions end, time
  passes, leases that are not renewed expire. Staff, managers and permits owe nothing.

## Proofs

All theorems hold for arbitrary sets and bounds within the named assumptions. Each
`...Proofs` module defines an inductive invariant, proves that it holds initially and
that every action preserves it, and derives the theorems.

**Outbox.** That nobody else sends an entry depends on what its lease says.
`JobsHoldClaims`: a dispatch in progress holds the row's claim, and the lease is exactly
`LeaseTicks - age` of its worker. With `CycleLimit < LeaseTicks` (assumption
`LeaseOutlivesCycle`) a lease of a living worker is positive, while any other worker
judges it by an instant that is not positive. `JobsMatchHistory` ties the stage of a
dispatch to the counters; `UnclaimedUnlessPending` keeps settled rows out of recovery.
Proved beyond the properties of the run: `NoClaimLost` (the error for a lost claim is
unreachable), `DeadLetterJustified`, `DeliveredWasAccepted`, `TerminalIsFinal`. The
refinement of `BoundedDelivery` takes the same invariant: a claim touches only pending
rows with an attempt left or with none (`ClaimTouchesFreeRows`), so it is a round; and
since a dispatch holds its claim and its counted attempt, what the provider does and
what the worker records happen to a pending row that the count covers.

**Circuit.** `OpenedAfterProbe` relates the age of a probe that is still out to the
time since the breaker opened: when late outcomes reopen the breaker, the old probe is
at least as old as the opening, and with `Timeout < Cooldown` (assumption
`TimeoutBelowCooldown`) it is over before a new one is admitted. Also proved:
`HalfOpenIsFlagged`.

**Intake.** `OrdersLinked`: an order closes its session, and a CONSUMED session and its
order point at each other; so a transaction that finds its session ACTIVE finds it
without order. `RequestsSent`, `PageHolds` and `AnswersOwn` carry the rest.
`CommittedOrderIsReturned` rests on `ReplaysAhead`: a request sent after the commit of
its linked order is at a stage from which only a replay, an error or a refusal ahead of
the lookup can follow; a link, once missing, is not made up later (`LinkIsOld`). The
refinement of `OrderBook` follows since only an insertion changes `orders`. Also
proved: `OneOrderPerSession` and `OneOrderPerKey`.

**Lifecycle.** `RequestsAreSound` is about every request in flight. `PlanFits` says what
its plan implies about what it saw (only an order that was not closed; only checkout
completes; items change only with a matching status), and `ReadsLast` which of the facts
it read are still true when it writes: that a payment is on record, that the pickup was
verified, that the platform accepted. These never become false again; the status can,
and is compared by the update. With `PaidIsOnRecord` (the status PAID implies a payment
row) and `WaitingIsUntouched` (nobody works on an unconfirmed order) the three
invariants are inductive, and `ClosedIsFinal` follows from `PlanFits`.

**Time.** `ShownIsOld`: no page is ahead of the row. A proposal takes a new version, so
the versions on pages name older proposals (`VersionNamesProposal`), and an answer with
the current version is about the proposal shown. `RowIsConsistent`, the check constraint
of the table, is part of the invariant: no command runs into it.

**Codes.** `GivenIsFree` covers codes that were chosen but not committed: with
`LockIsHeld`, nobody else chooses for that date in the meantime. Hence the unique index
never refuses and `RefuseOrder` happens only for an empty pool. Also proved:
`CodeIsStable`.

**Stock.** `PagesAreOld` and `OrdersAreOld` say that versions and epochs seen are never
ahead; `ConsumedWasProduced` that amendments end before consumption. For
`PortionsConserved`, `AllocationsAreOld`: no allocation names a later epoch than its
product, so a counting that begins finds nothing held. The sum over all orders is the
cardinality of a set of numbered portions: `HeldSplits` separates the portions of the
order that commits from those of all others, which its commit leaves alone, and what its
allocation grows by is what the product loses. This needs finitely many orders, and no
induction.

**Push.** `SendsAreCounted`: pushes that left plus invocations that may still send are at
most the attempts. It needs no relation between lease and lifetime, so the bound holds
for workers that outlive their lease. Also proved: `SettledIsFinal`.

**LINE.** `LeaseHeld`: until an invocation outlives the lease, the row of a job that is
held is PROCESSING and was updated no earlier than its holder read the clock. The row
names no worker, so this is all that keeps a second one off: recovery takes a row idle
for more than `LeaseTicks`, and a holder within its lease is younger than that. The
property says nothing once an invocation has overrun, and the code does not either.
`CheckedHasConsent` is what makes the vault a guard: every revocation deletes the
secrets, so a worker whose check is older than a revocation finds none.
`HeldWasAttempted` bounds the backoff, an exponent of the attempts. `SentIsFinal` needs
no lease: the constraint on terminal rows holds against workers that lost theirs.

**Delivery.** No relation between lease and lifetime is assumed. `DoneIsReal` speaks of
workers as well as rows: one that is about to complete a job, however late, has done its
work, because `CompleteJob` names the row by id and checks nothing. `EventsAreReal`: the
only event an import gave up is the one its job names, so a later import repairs it, and
no event is left DEAD_LETTER with an imported order. `LedgerHasJob` and
`JobsNameEvents` carry the links between the three tables. `OneInternalOrder` follows
from the ledger row that the importing transaction locks.

**Offline.** The invariant follows a record around the loop. `BatchesAreKnown`: a payload
in a tab or on the wire belongs to an order of the device and keeps its time of creation,
which no later step changes. `AnswersAreTrue`: an answer, complete or not, in a request
or in a tab, is about records of its batch and is already true on the server, where
receipts and conflict rows are never taken back (`ServerGrows`). `OneRequestPerTab`: a
tab that waits has at most one request, the one with its batch; what it abandoned no
longer names it, so it cannot take the answer of an older upload for the current one.
`Ledgers` ties inbox, receipts, conflicts, the canonical order and the count of
insertions together, across the two transactions of a rejection. `SettledIsReal`
and `CreatedOnce` follow, for any number of tabs, with or without a working lock: the
proof nowhere uses that only one tab uploads. `ImportedWithinPermit` has an invariant of
its own, `PermitsHold`. `ReadsHold`: a request that has read an active permit carries
only orders taken before any later revocation of it, since they were in its batch by
then; one that has read a revocation compares each order with it, and the shifted time it
compares is never earlier than the real one. `ImportsHold` keeps that of the orders
created. So neither the stale read nor the shift lets an order in that was taken after
the revocation; the shift does let one in that was taken before the permit was issued,
and the property does not deny it.

Assumptions are stated with the constants and evaluated by TLC. `LeaseOutlivesCycle` is
ten minutes against the hosting platform's limit on a function; `TimeoutBelowCooldown`
is 4 s against 10 s, the defaults (the checkout page's second call has a timeout of
10 s, outside the assumption). `BackoffIsNatural` says that the backoff is a number,
because the provers do not know exponentiation.

Every invariant and every action property of the passing runs is proved, and so are
both refinements. Only model-checked are the liveness properties, which rest on fairness and on
ENABLED, beyond the prover: `EveryEntrySettles`, `BreakerRecovers`, `EventuallyDecided`
and `EventuallySettled` of four modules. The findings' runs are counterexamples and need
no proof.

## Abstractions to keep in mind

- The idempotency lookup of intake also compares a fingerprint of the request. One key
  is only ever sent with one body, so the comparison can differ only after staff changed
  the order's fulfilment time; that conflict is not modelled.
- Errors caught inside the creation (`ORDER_CREATE_ERROR`) are `HandlerErrors`.
- A rotated QR code keeps its old row, so a retry still resolves it.
- A retry of the page stands for a repeated call as well as for the change of circuit
  inside a call; the breaker's choice between them is `PublicOrderCircuit`'s.
- Amounts, prices, discounts and texts do not occur; a check on them may pass or fail.
- Several components keep one row per order or job, and the modules follow one order
  or one job where rows do not influence each other.

## Not modelled

- Orders of the counter, whose completion waits for a printer, and CloudPRNT: the
  printer's protocol is not in the repository beyond the calls it makes.
- Special closures: one decision in a wrapper of preflight, a check that may refuse.
- Online payments, e-invoices: tables of allowed states keyed by idempotency keys. The
  lifecycle sees their result, a payment on record.
- Storage replication: jobs with the claim and lease of the delivery jobs; what is its
  own is the object store behind it.
- Capacity, lottery, rate limits: free refusals of intake. The auto-pause is modelled
  by what it does to sessions.
- Menu, availability and status jobs of the delivery platforms: a call and no state of
  the stall's.
- Cash shifts beyond the refund, PAYG billing, reservations, waitlist, supply,
  workforce, CRM, applications: records behind single transactions or one operator.
- Feature flags and disaster recovery: configuration and operator procedure; flags are
  free choices where they are read.
- User interface, messages, seeds, scripts, localization: most of the repository's
  lines, without state of their own that others share.

Next candidates: the counter orders with their print jobs; storage replication with
deletions racing copies; capacity with auto-pause and auto-resume as a consequence of
load, composed with intake; further refinements, such as the job queues against one
abstract queue.

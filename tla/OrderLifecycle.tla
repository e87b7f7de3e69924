--------------------------- MODULE OrderLifecycle ----------------------------
(***************************************************************************)
(* One order of a stall from its arrival to its end, and the requests that *)
(* staff, kitchen, customer and the expiry job make about it:              *)
(* orders/[orderId]/route.ts, its items and fulfillment-time routes, the   *)
(* table-checkout, completed-orders and modules routes, lib/kitchen.ts,    *)
(* lib/public-order-edit.ts, lib/staff-order-edit.ts,                      *)
(* expire_unconfirmed_orders, the cash refund of lib/cash-shifts.ts and    *)
(* external-order-status-service.ts.                                       *)
(*                                                                         *)
(* A status request reads the order, checks it, tells the delivery         *)
(* platform and only then writes, in four steps that other requests        *)
(* interleave with.  The other operations lock the row of the order before *)
(* they read it, or are one conditional update: each is one step.          *)
(*                                                                         *)
(* Orders of the counter (staff POS), whose completion waits for a printer,*)
(* are not in this module.  The one writer that holds only the items while *)
(* it decides, the order-items/batch route, is in OrderItemBatches.        *)
(***************************************************************************)
EXTENDS Integers, FiniteSets

CONSTANTS
    Staff,          \* requests in flight at the same time
    Items,          \* order items
    PackingItems,   \* items routed to the packing station
    Kinds,          \* the orders considered
    Crew,           \* [Kinds -> the requests about such an order that may be in flight]
    Timeout,        \* unconfirmedOrderTimeoutSeconds, in ticks
    NoRequest

ASSUME LifecycleConstants ==
    /\ PackingItems \subseteq Items
    /\ Kinds \subseteq [channel : {"QR", "EXTERNAL"}, type : {"TAKEOUT", "DINE_IN"},
                       items : (SUBSET Items) \ {{}},
                       capabilities : SUBSET {"ORDER_PREPARING", "ORDER_READY"}]
    /\ Crew \in [Kinds -> SUBSET Staff]
    /\ Timeout \in Nat \ {0}

VARIABLES
    kind,       \* source, fulfillment type and items of the order, and what its platform
                \* lets the stall report
    status,     \* orders.status
    pay,        \* orders.payment_status
    payment,    \* the row of payments: none, PAID or REFUNDED
    verified,   \* pickup_verified_at is set
    grace,      \* time until confirmation_expires_at
    blocked,    \* productionBlocked: time not agreed or date not reached
    item,       \* [lines of the order -> order_items.status]
    task,       \* [lines of the order -> "NONE", "LIVE" (follows its item), "CANCELLED"]
    kds,        \* kds_module_enabled of the stall
    told,       \* actions the delivery platform has accepted
    ledger,     \* external_orders.external_status
    jobs,       \* platform jobs that exist for the order
    req         \* [Staff -> the request a staff member has in flight]

clock == << grace, blocked >>
money == << pay, payment >>
work  == << item, task >>
platform == << told, ledger, jobs >>
vars == << kind, status, money, verified, clock, work, kds, platform, req >>

-----------------------------------------------------------------------------
Closed == {"COMPLETED", "CANCELLED", "EXPIRED"}
Open == {"CONFIRMED", "PREPARING", "PACKING", "READY"}
Statuses == {"WAITING_CONFIRMATION"} \cup Open \cup Closed
Reported == [PREPARING |-> "ORDER_PREPARING", READY |-> "ORDER_READY"]

\* allowedOrderTransitions
Allowed(from, to) ==
    \/ from = "WAITING_CONFIRMATION" /\ to \in {"CONFIRMED", "CANCELLED"}
    \/ from = "CONFIRMED" /\ to \in {"PREPARING", "PACKING", "READY", "CANCELLED"}
    \/ from = "PREPARING" /\ to \in {"PACKING", "READY", "CANCELLED"}
    \/ from = "PACKING" /\ to \in {"READY", "CANCELLED"}
    \/ from = "READY" /\ to \in {"COMPLETED", "CANCELLED"}

External == kind.channel = "EXTERNAL"
CustomerTakeout == ~ External /\ kind.type = "TAKEOUT"
Lines == kind.items

overdue == grace = 0

PayStates == {"UNPAID", "PAID", "REFUNDED", "PENDING_RECONCILIATION"}

\* What a request keeps of what it read: the status it will write, whether it
\* marks the order paid, what becomes of the items, and the status and payment
\* status it saw.
Requests == [phase : {"COUNT", "TELL", "WRITE"}, to : Statuses, pays : BOOLEAN,
             items : {"KEEP", "FINISH", "READY"}, status : Statuses, pay : PayStates]

TypeOK ==
    /\ kind \in Kinds
    /\ status \in Statuses
    /\ pay \in PayStates
    /\ payment \in {"NONE", "PAID", "REFUNDED"}
    /\ {verified, blocked, kds} \subseteq BOOLEAN
    /\ grace \in 0..Timeout
    /\ item \in [Lines -> {"PENDING", "PREPARING", "READY", "SERVED"}]
    /\ task \in [Lines -> {"NONE", "LIVE", "CANCELLED"}]
    /\ told \subseteq {"ACCEPT", "REJECT"}
    /\ ledger \in Statuses
    /\ jobs \subseteq {"ORDER_PREPARING", "ORDER_READY"}
    /\ req \in [Staff -> Requests \cup {NoRequest}]

\* Orders arrive unconfirmed; what the platform was paid is reconciled later.
Init ==
    /\ kind \in Kinds
    /\ status = "WAITING_CONFIRMATION" /\ ledger = status
    /\ pay = IF External THEN "PENDING_RECONCILIATION" ELSE "UNPAID"
    /\ payment = "NONE"
    /\ verified = FALSE /\ grace = Timeout
    /\ blocked \in BOOLEAN /\ kds \in BOOLEAN
    /\ item = [i \in Lines |-> "PENDING"]
    /\ task = [i \in Lines |-> "NONE"]
    /\ told = {} /\ jobs = {}
    /\ req = [s \in Staff |-> NoRequest]

-----------------------------------------------------------------------------
(* SetStatus is a write of orders.status with the trigger                  *)
(* route_confirmed_order_to_kds; items holds the new item statuses.  The   *)
(* deadline is read of orders that wait only, and forgotten by the others. *)
SetStatus(new, items) ==
    /\ status' = new
    /\ grace' = Timeout
    /\ item' = items
    /\ task' = [i \in Lines |->
         CASE new = "CONFIRMED" /\ status # new /\ kds /\ task[i] = "NONE" -> "LIVE"
           [] new = "CANCELLED" /\ status # new /\ task[i] = "LIVE"
                /\ items[i] \in {"PENDING", "PREPARING"} -> "CANCELLED"
           [] OTHER -> task[i]]

ReportOf(new) == {Reported[s] : s \in {new} \cap DOMAIN Reported} \cap kind.capabilities

\* persistExternalOrderTransition.  A second job of the same type violates the
\* deduplication key, and the transaction that asked for it is lost.
Persist(new) ==
    IF External
      THEN /\ ReportOf(new) \cap jobs = {}
           /\ ledger' = new
           /\ jobs' = jobs \cup ReportOf(new)
           /\ UNCHANGED told
      ELSE UNCHANGED platform

PersistTransition(from, new) == IF new # from THEN Persist(new) ELSE UNCHANGED platform

-----------------------------------------------------------------------------
(* The status request of orders/[orderId]/route.ts, and the checkout of a  *)
(* table, which reads, checks and writes in the same way.                  *)

\* shouldKeepQrOrderOpenAfterPayment
PaymentOnly(intent) ==
    intent = "COLLECT_PAYMENT" /\ ~ External /\ pay = "UNPAID" /\ status \in Open

\* getStreamlinedCheckoutPlan: without a kitchen board checkout completes.
Streamlined(next, intent) ==
    /\ intent # "TABLE" /\ ~ PaymentOnly(intent)
    /\ next = "COMPLETED" /\ ~ kds /\ ~ External /\ status \in Open

\* The refusals.
Passes(next, intent) ==
    LET shortcut == PaymentOnly(intent) \/ Streamlined(next, intent) IN
    /\ intent = "COLLECT_PAYMENT" => ~ External /\ pay = "UNPAID"
    /\ shortcut \/ Allowed(status, next)
    /\ shortcut => ~ blocked
    /\ next = "PREPARING" /\ status = "CONFIRMED" => ~ blocked
    /\ next = "COMPLETED" /\ CustomerTakeout => PaymentOnly(intent) \/ verified

PassesTable ==
    /\ kind.type = "DINE_IN" /\ status = "READY" /\ pay = "UNPAID"
    /\ \A i \in Lines : item[i] = "SERVED"

\* What follows the refusals: counting unfinished items, telling the platform.
Counts(next, intent) ==
    intent # "TABLE" /\ next = "COMPLETED" /\ ~ (PaymentOnly(intent) \/ Streamlined(next, intent))
TellsCancellation(next) == External /\ next = "CANCELLED"
Tells(next) == External /\ next \in {"CONFIRMED", "CANCELLED"}

PersistedStatus(next, intent) == IF PaymentOnly(intent) THEN status ELSE next

\* Items follow a checkout without a kitchen board, and a public order that
\* is written as ready without one (manualPublicReady).
ItemsPlan(next, intent) ==
    CASE Streamlined(next, intent) -> "FINISH"
      [] PersistedStatus(next, intent) = "READY" /\ ~ kds /\ CustomerTakeout -> "READY"
      [] OTHER -> "KEEP"

ReadOrder(s) ==
    /\ s \in Crew[kind] /\ req[s] = NoRequest
    /\ \E next \in Open \cup {"COMPLETED", "CANCELLED"},
          intent \in {"STATUS", "COLLECT_PAYMENT", "TABLE"} :
         /\ intent # "STATUS" => next = "COMPLETED"
         /\ IF intent = "TABLE" THEN PassesTable ELSE Passes(next, intent)
         /\ req' = [req EXCEPT ![s] =
              [phase |-> CASE Counts(next, intent) -> "COUNT" [] Tells(next) -> "TELL"
                           [] OTHER -> "WRITE",
               to |-> PersistedStatus(next, intent), pays |-> next = "COMPLETED",
               items |-> ItemsPlan(next, intent), status |-> status, pay |-> pay]]
    /\ UNCHANGED << kind, status, money, verified, clock, work, kds, platform >>

ItemsDone ==
    \A i \in Lines : item[i] \in (IF kind.type = "DINE_IN" THEN {"SERVED"} ELSE {"READY", "SERVED"})

CountItems(s) ==
    /\ req[s] # NoRequest /\ req[s].phase = "COUNT"
    /\ ItemsDone
    /\ req' = [req EXCEPT ![s].phase = "WRITE"]
    /\ UNCHANGED << kind, status, money, verified, clock, work, kds, platform >>

\* acknowledgeExternalOrderBeforeTransition: the platform accepts the call,
\* but its answer may be lost.
TellPlatform(s) ==
    /\ req[s] # NoRequest /\ req[s].phase = "TELL"
    /\ told' = told \cup {IF req[s].to = "CONFIRMED" THEN "ACCEPT" ELSE "REJECT"}
    /\ \/ req' = [req EXCEPT ![s].phase = "WRITE"]
       \/ req' = [req EXCEPT ![s] = NoRequest]
    /\ UNCHANGED << kind, status, money, verified, clock, work, kds, ledger, jobs >>

\* The where clause of the write.
StillAsSeenAnyStatus(r) ==
    /\ r.status = "WAITING_CONFIRMATION" => ~ overdue
    /\ r.pays /\ r.pay = "UNPAID" => pay = "UNPAID"

StillAsSeen(r) ==
    /\ status = r.status
    /\ r.status = "WAITING_CONFIRMATION" => ~ overdue
    /\ r.pays /\ r.pay = "UNPAID" => pay = "UNPAID"

\* payment.create on completion of an unpaid order; orders have one payment.
RecordPaymentAtEnd(r) ==
    IF r.to = "COMPLETED" /\ r.pay = "UNPAID"
      THEN payment = "NONE" /\ payment' = "PAID"
      ELSE UNCHANGED payment

RecordPayment(r) ==
    IF r.pays /\ r.pay = "UNPAID"
      THEN payment = "NONE" /\ payment' = "PAID"
      ELSE UNCHANGED payment

ItemsAfter(r) ==
    [i \in Lines |->
       CASE r.items = "FINISH" -> IF kind.type = "DINE_IN" THEN "SERVED" ELSE "READY"
         [] r.items = "READY" /\ item[i] # "SERVED" -> "READY"
         [] OTHER -> item[i]]

WriteOrder(s) ==
    /\ req[s] # NoRequest /\ req[s].phase = "WRITE"
    /\ StillAsSeen(req[s])
    /\ SetStatus(req[s].to, ItemsAfter(req[s]))
    /\ pay' = IF req[s].pays THEN "PAID" ELSE req[s].pay
    /\ RecordPayment(req[s])
    /\ Persist(req[s].to)
    /\ req' = [req EXCEPT ![s] = NoRequest]
    /\ UNCHANGED << kind, verified, blocked, kds >>

\* A refusal of the platform or of the item count, a conflict, an error or a
\* crash, at any time: the request ends without effect.
EndRequest(s) ==
    /\ req[s] # NoRequest
    /\ req' = [req EXCEPT ![s] = NoRequest]
    /\ UNCHANGED << kind, status, money, verified, clock, work, kds, platform >>

-----------------------------------------------------------------------------
(* The items routes: staff move one item forward, or all items of the      *)
(* order that have the same status, and the status of the order is derived *)
(* from its items.  The platform is not told.                              *)
NextItem == [PENDING |-> "PREPARING", PREPARING |-> "READY", READY |-> "SERVED"]

\* deriveOrderStatusFromItems, for an order that is not waiting.
PackingFirst(items) ==
    IF status = "PACKING" THEN "PACKING"
    ELSE IF \A i \in Lines : items[i] \in {"READY", "SERVED"} THEN "READY"
    ELSE IF \E i \in Lines : items[i] # "PENDING" THEN "PREPARING" ELSE "CONFIRMED"

StatusFromItems(items) ==
    IF \A i \in Lines : items[i] \in {"READY", "SERVED"} THEN "READY"
    ELSE IF status = "PACKING" THEN "PACKING"
    ELSE IF \E i \in Lines : items[i] # "PENDING" THEN "PREPARING" ELSE "CONFIRMED"

Advance(some, from) ==
    /\ status \in Open
    /\ some # {} /\ from \in DOMAIN NextItem
    /\ NextItem[from] = "PREPARING" /\ status = "CONFIRMED" => ~ blocked
    /\ LET items == [i \in Lines |-> IF i \in some THEN NextItem[from] ELSE item[i]]
       IN  SetStatus(StatusFromItems(items), items)
    /\ UNCHANGED << kind, money, verified, blocked, kds, platform, req >>

AdvanceItem(i) == Advance({i}, item[i])
AdvanceItems(from) == Advance({i \in Lines : item[i] = from}, from)

-----------------------------------------------------------------------------
(* The kitchen board (lib/kitchen.ts).  A live task follows its item:      *)
(* sync_kds_task_from_order_item.                                          *)
TaskStatus(i, items) == IF items[i] \in {"READY", "SERVED"} THEN "COMPLETED" ELSE items[i]

\* deriveKitchenOrderStatus
StatusFromTasks(items) ==
    LET live == {i \in Lines : task[i] = "LIVE"}
        all(S) == \A i \in S : TaskStatus(i, items) = "COMPLETED"
    IN  IF all(live) THEN "READY"
        ELSE IF /\ all(live \ PackingItems)
                /\ \E i \in live \cap PackingItems : TaskStatus(i, items) = "PREPARING"
          THEN "PACKING"
        ELSE IF \E i \in live : TaskStatus(i, items) # "PENDING" THEN "PREPARING" ELSE "CONFIRMED"

Rank == [CONFIRMED |-> 0, PREPARING |-> 1, PACKING |-> 2, READY |-> 3]

\* preserveKitchenOrderProgress
KeepsProgress(derived) == IF Rank[derived] < Rank[status] THEN status ELSE derived

\* taskStateToItemState
ItemState(to) == IF to = "COMPLETED" THEN "READY" ELSE to

\* applyKitchenTaskUpdate: start, finish or return a task.
UpdateTask(i, to) ==
    /\ task[i] = "LIVE"
    /\ status \in Open \ {"READY"}
    /\ item[i] # "SERVED"
    /\ \/ to = "PENDING" /\ item[i] \in {"PREPARING", "READY"}
       \/ to = "PREPARING" /\ item[i] = "PENDING"
       \/ to = "COMPLETED" /\ item[i] = "PREPARING"
    /\ to = "PREPARING" /\ status = "CONFIRMED" => ~ blocked
    /\ LET items == [item EXCEPT ![i] = ItemState(to)]
           new == KeepsProgress(StatusFromTasks(items))
       IN  SetStatus(new, items) /\ PersistTransition(status, new)
    /\ UNCHANGED << kind, money, verified, blocked, kds, req >>

\* completeKitchenOrder
CompleteKitchenOrder ==
    /\ status \in Open \ {"READY"}
    /\ status = "CONFIRMED" => ~ blocked
    /\ \E i \in Lines : task[i] = "LIVE"
    /\ \A i \in Lines : item[i] # "SERVED"
    /\ SetStatus("READY", [i \in Lines |-> "READY"])
    /\ Persist("READY")
    /\ UNCHANGED << kind, money, verified, blocked, kds, req >>

-----------------------------------------------------------------------------
(* The other operations on the order.                                      *)

\* cancelTrackedPublicOrder
CancelByCustomer ==
    /\ ~ External
    /\ status = "WAITING_CONFIRMATION" /\ pay = "UNPAID" /\ payment = "NONE"
    /\ SetStatus("CANCELLED", item)
    /\ UNCHANGED << kind, money, verified, blocked, kds, platform, req >>

\* editTrackedPublicOrder: the items are replaced, and the order gets a new
\* deadline, even after the old one: its pickup time if it has one, else the
\* whole timeout again.
EditByCustomer ==
    /\ ~ External
    /\ status = "WAITING_CONFIRMATION" /\ pay = "UNPAID" /\ payment = "NONE"
    /\ \A i \in Lines : item[i] = "PENDING"
    /\ \E k \in Kinds :
         /\ k = [kind EXCEPT !.items = k.items]
         /\ kind' = k
         /\ item' = [i \in k.items |-> "PENDING"]
         /\ task' = [i \in k.items |-> "NONE"]
    /\ grace' \in {Timeout, grace}
    /\ UNCHANGED << status, money, verified, blocked, kds, platform, req >>

\* editStaffOrderItems: staff amend an order to take away that nobody has begun.
\* Items they keep keep their tasks; a new item of a confirmed order goes to the
\* kitchen board (route_new_order_item_to_kds), and with it every item that has
\* no task.  Status and deadline stay.
AmendByStaff ==
    /\ CustomerTakeout
    /\ status \in {"WAITING_CONFIRMATION", "CONFIRMED"} /\ pay = "UNPAID" /\ payment = "NONE"
    /\ \A i \in Lines : item[i] = "PENDING" /\ task[i] # "CANCELLED"
    /\ \E k \in Kinds : \E kept \in SUBSET (Lines \cap k.items) :
         LET routed == status = "CONFIRMED" /\ kds /\ kept # k.items
             before(i) == IF i \in kept THEN task[i] ELSE "NONE"
         IN  /\ k = [kind EXCEPT !.items = k.items]
             /\ kind' = k
             /\ item' = [i \in k.items |-> "PENDING"]
             /\ task' = [i \in k.items |-> IF routed THEN "LIVE" ELSE before(i)]
    /\ UNCHANGED << status, money, verified, clock, kds, platform, req >>

\* CUSTOMER_PRESENT of the fulfillment-time route: the customer stands at the
\* counter while a proposed time is unanswered.  With a kitchen board the order
\* must be finished; without one it becomes so, confirmed or not.
CustomerPresent ==
    /\ CustomerTakeout /\ blocked
    /\ IF kds THEN status = "READY" /\ \A i \in Lines : item[i] \in {"READY", "SERVED"}
              ELSE status \in {"WAITING_CONFIRMATION"} \cup Open
    /\ SetStatus("READY", [i \in Lines |-> IF item[i] = "SERVED" THEN "SERVED" ELSE "READY"])
    /\ blocked' = FALSE
    /\ UNCHANGED << kind, money, verified, kds, platform, req >>

\* expire_unconfirmed_orders
ExpirableQrOnly == status = "WAITING_CONFIRMATION" /\ overdue /\ ~ External
Expirable == status = "WAITING_CONFIRMATION" /\ overdue

Expire ==
    /\ Expirable
    /\ SetStatus("EXPIRED", item)
    /\ UNCHANGED << kind, money, verified, blocked, kds, platform, req >>

\* verifyReadyTakeoutOrder
VerifyPickup ==
    /\ kind.type = "TAKEOUT" /\ status = "READY" /\ ~ verified
    /\ verified' = TRUE
    /\ UNCHANGED << kind, status, money, clock, work, kds, platform, req >>

\* CANCEL_COMPLETED_ORDER of the completed-orders route: no refund.
CancelCompleted ==
    /\ status = "COMPLETED"
    /\ SetStatus("CANCELLED", item)
    /\ UNCHANGED << kind, money, verified, blocked, kds, platform, req >>

\* REFUND of applyCashShiftCommand
Refund ==
    /\ payment = "PAID"
    /\ payment' = "REFUNDED"
    /\ pay' = IF pay = "PAID" THEN "REFUNDED" ELSE pay
    /\ UNCHANGED << kind, status, verified, clock, work, kds, platform, req >>

\* The modules route turns the kitchen board on or off.  When neither it nor
\* the printers remain, paid orders that are ready complete.

Completable ==
    /\ status = "READY" /\ pay = "PAID" /\ ~ External
    /\ kind.type = "TAKEOUT" => verified

ChangeModules ==
    /\ \E k, printers \in BOOLEAN :
         /\ kds' = k
         /\ status' = IF ~ k /\ ~ printers /\ Completable THEN "COMPLETED" ELSE status
         /\ task' = [i \in Lines |->
              IF ~ k /\ task[i] = "LIVE" /\ item[i] \in {"PENDING", "PREPARING"}
                THEN "CANCELLED" ELSE task[i]]
         /\ status' # status \/ kds' # kds
    /\ UNCHANGED << kind, money, verified, clock, item, platform, req >>

-----------------------------------------------------------------------------
(* Time, and the agreement about the time of fulfillment: it can be        *)
(* reopened by a proposal until production starts.                         *)
TimePasses ==
    /\ status = "WAITING_CONFIRMATION" /\ ~ overdue
    /\ grace' = grace - 1
    /\ UNCHANGED << kind, status, money, verified, blocked, work, kds, platform, req >>

TimeAgreed ==
    /\ blocked /\ blocked' = FALSE
    /\ UNCHANGED << kind, status, money, verified, grace, work, kds, platform, req >>

TimeReopened ==
    /\ ~ blocked /\ blocked' = TRUE
    /\ status \in {"WAITING_CONFIRMATION", "CONFIRMED"}
    /\ UNCHANGED << kind, status, money, verified, grace, work, kds, platform, req >>

-----------------------------------------------------------------------------
Next ==
    \/ \E s \in Staff : \/ ReadOrder(s) \/ CountItems(s) \/ TellPlatform(s)
                        \/ WriteOrder(s) \/ EndRequest(s)
    \/ \E i \in Lines : \/ AdvanceItem(i)
                        \/ \E to \in {"PENDING", "PREPARING", "COMPLETED"} : UpdateTask(i, to)
    \/ \E from \in DOMAIN NextItem : AdvanceItems(from)
    \/ CompleteKitchenOrder \/ CancelByCustomer \/ EditByCustomer \/ AmendByStaff
    \/ CustomerPresent \/ Expire \/ VerifyPickup
    \/ CancelCompleted \/ Refund \/ ChangeModules
    \/ TimePasses \/ TimeAgreed \/ TimeReopened

Spec == Init /\ [][Next]_vars

\* Time passes, and expire_unconfirmed_orders is scheduled every minute.
FairSpec == Spec /\ WF_vars(TimePasses) /\ WF_vars(Expire)

-----------------------------------------------------------------------------
(* Properties.                                                             *)

\* A request that read the order before another one closed it cannot revive
\* it: a cancelled or expired order stays so, and a completed one can only
\* be cancelled.
ClosedIsFinal ==
    [][/\ status \in {"CANCELLED", "EXPIRED"} => status' = status
       /\ status = "COMPLETED" => status' \in {"COMPLETED", "CANCELLED"}]_vars

\* An order of a customer is never completed without a payment on record, nor
\* one to take away before its pickup code was verified, whichever of the
\* checkouts, the advance payment or the change of modules completed it, and
\* however long ago the request had read the order.
CompletedIsPaidAndVerified ==
    status = "COMPLETED" /\ ~ External =>
        payment # "NONE" /\ (kind.type = "TAKEOUT" => verified)

\* Whatever interleaves, an order of a platform enters production only after
\* the platform accepted the confirmation.
ProducedIsAccepted == External /\ status \in Open \cup {"COMPLETED"} => "ACCEPT" \in told

\* No order is stuck on the board: when the last of its items is finished, by
\* staff or by the kitchen, it is ready or beyond.
FinishedIsReady ==
    status \in Open \ {"READY"} => \E i \in Lines : item[i] \notin {"READY", "SERVED"}

\* Every order is decided, confirmed, cancelled, expired or handed over, unless
\* its customer edits it again and again: each edit moves the deadline, and
\* nothing limits their number.
EventuallyDecided ==
    \/ []<><<EditByCustomer>>_vars
    \/ status = "WAITING_CONFIRMATION" ~> status # "WAITING_CONFIRMATION"

\* "No double payment" (functional QA list): once a payment is on record the
\* order does not ask for money again.
CollectedIsNotOwed == payment = "PAID" => pay # "UNPAID"
=============================================================================

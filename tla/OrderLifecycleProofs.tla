------------------------- MODULE OrderLifecycleProofs -------------------------
(***************************************************************************)
(* For any number of requests in flight and any items: what a completed    *)
(* order implies, that production waits for the platform, that finished    *)
(* orders are ready, and that closed orders stay closed.                   *)
(*                                                                         *)
(* A request carries what it read over steps of others.  The argument is   *)
(* about which of these facts are still true when it writes: the status    *)
(* because the update compares it, and the rest because it never becomes   *)
(* false again.                                                            *)
(***************************************************************************)
EXTENDS OrderLifecycle, TLAPS

Waiting == "WAITING_CONFIRMATION"
Unready == Open \ {"READY"}
InFlight(s) == req[s] # NoRequest

\* What a request plans fits what it saw: it saw an order that was not closed,
\* and only checkout completes it.
PlanFits(r) ==
    /\ r.status \in {Waiting} \cup Open
    /\ r.status = Waiting => r.to \in {"CONFIRMED", "CANCELLED"}
    /\ r.to \in Unready => r.status # "READY"
    /\ r.to = Waiting => FALSE
    /\ r.to = "EXPIRED" => FALSE
    /\ r.to = "COMPLETED" => r.pays
    /\ r.items = "FINISH" => r.to = "COMPLETED"
    /\ r.items = "READY" => r.to = "READY"
    /\ r.phase = "TELL" => r.to \in {"CONFIRMED", "CANCELLED"}

\* What is still true of the order when a request writes.
ReadsLast(r) ==
    /\ ~ External /\ r.pay # "UNPAID" => payment # "NONE"
    /\ CustomerTakeout /\ r.to = "COMPLETED" => verified
    /\ External /\ r.status = Waiting /\ r.to = "CONFIRMED" /\ r.phase # "TELL" =>
         "ACCEPT" \in told

RequestsAreSound == \A s \in Staff : InFlight(s) => PlanFits(req[s]) /\ ReadsLast(req[s])

\* An order of a customer that is not UNPAID has a payment on record.
PaidIsOnRecord == ~ External /\ pay # "UNPAID" => payment # "NONE"

\* Nobody works on an order that is not confirmed.
WaitingIsUntouched == status = Waiting => \A i \in Lines : item[i] = "PENDING"

\* The inductive invariant.
Inv == /\ TypeOK /\ RequestsAreSound /\ PaidIsOnRecord /\ WaitingIsUntouched
       /\ CompletedIsPaidAndVerified /\ ProducedIsAccepted /\ FinishedIsReady

-----------------------------------------------------------------------------
LEMMA KindFacts ==
    ASSUME NEW k \in Kinds
    PROVE  /\ k.channel \in {"QR", "EXTERNAL"} /\ k.type \in {"TAKEOUT", "DINE_IN"}
           /\ k.items # {} /\ k.capabilities \subseteq {"ORDER_PREPARING", "ORDER_READY"}
           /\ Crew[k] \subseteq Staff
  BY LifecycleConstants

LEMMA InitInv == Init => Inv
  <1> SUFFICES ASSUME Init PROVE Inv
    OBVIOUS
  <1>1. TypeOK
    <2>1. grace \in 0..Timeout
      BY LifecycleConstants DEF Init
    <2> QED
      BY <2>1 DEF Init, TypeOK, Statuses, PayStates, External
  <1>2. RequestsAreSound
    BY DEF Init, RequestsAreSound, InFlight
  <1>3. PaidIsOnRecord /\ WaitingIsUntouched
    BY DEF Init, PaidIsOnRecord, WaitingIsUntouched
  <1>4. CompletedIsPaidAndVerified /\ ProducedIsAccepted /\ FinishedIsReady
    BY DEF Init, CompletedIsPaidAndVerified, ProducedIsAccepted, FinishedIsReady, Open
  <1> QED
    BY <1>1, <1>2, <1>3, <1>4 DEF Inv

-----------------------------------------------------------------------------
(* A request that passes the checks carries a sound plan.                  *)
LEMMA ReadStep ==
    ASSUME Inv, NEW s \in Staff, ReadOrder(s)
    PROVE  \E r \in Requests :
             req' = [req EXCEPT ![s] = r] /\ PlanFits(r) /\ ReadsLast(r)
  <1>0. TypeOK /\ PaidIsOnRecord /\ ProducedIsAccepted
    BY DEF Inv
  <1>1. PICK next \in Open \cup {"COMPLETED", "CANCELLED"},
             intent \in {"STATUS", "COLLECT_PAYMENT", "TABLE"} :
          /\ intent # "STATUS" => next = "COMPLETED"
          /\ IF intent = "TABLE" THEN PassesTable ELSE Passes(next, intent)
          /\ req' = [req EXCEPT ![s] =
               [phase |-> CASE Counts(next, intent) -> "COUNT" [] Tells(next) -> "TELL"
                            [] OTHER -> "WRITE",
                to |-> PersistedStatus(next, intent), pays |-> next = "COMPLETED",
                items |-> ItemsPlan(next, intent), status |-> status, pay |-> pay]]
    BY DEF ReadOrder
  <1> DEFINE phase == CASE Counts(next, intent) -> "COUNT" [] Tells(next) -> "TELL"
                        [] OTHER -> "WRITE"
             to == PersistedStatus(next, intent)
             items == ItemsPlan(next, intent)
             r == [phase |-> phase, to |-> to, pays |-> next = "COMPLETED",
                   items |-> items, status |-> status, pay |-> pay]
  <1>2. status \in Statuses /\ pay \in PayStates
    BY <1>0 DEF TypeOK
  <1>3. to = (IF PaymentOnly(intent) THEN status ELSE next) /\ to \in Statuses
    BY <1>2 DEF PersistedStatus, Statuses, Open, Closed
  <1>4. /\ phase \in {"COUNT", "TELL", "WRITE"}
        /\ phase = "TELL" => External /\ next \in {"CONFIRMED", "CANCELLED"}
        /\ External /\ next = "CONFIRMED" => phase = "TELL"
    BY DEF Tells, Counts
  <1>5. /\ items \in {"KEEP", "FINISH", "READY"}
        /\ items = "FINISH" => next = "COMPLETED" /\ ~ PaymentOnly(intent)
        /\ items = "READY" => to = "READY"
    BY DEF ItemsPlan, Streamlined
  <1>6. r \in Requests
    <2> HIDE DEF phase, to, items
    <2> QED
      BY <1>2, <1>3, <1>4, <1>5 DEF Requests
  <1>7. PaymentOnly(intent) => status \in Open /\ next = "COMPLETED" /\ ~ External
    BY <1>1 DEF PaymentOnly
  <1>8. status \in {Waiting} \cup Open
    BY <1>1, <1>2 DEF Passes, PassesTable, PaymentOnly, Streamlined, Allowed, Open, Waiting
  <1>9. ~ PaymentOnly(intent) =>
          /\ status = Waiting => next \in {"CONFIRMED", "CANCELLED"}
          /\ next \in Unready => status # "READY"
    BY <1>1 DEF Passes, PassesTable, Streamlined, Allowed, Open, Unready, Waiting
  <1>10. CustomerTakeout /\ to = "COMPLETED" => verified
    <2>1. to = "COMPLETED" => ~ PaymentOnly(intent)
      BY <1>3, <1>7 DEF Open
    <2> QED
      BY <1>1, <1>3, <2>1 DEF Passes, PassesTable, CustomerTakeout
  <1>11. PlanFits(r)
    <2> HIDE DEF phase, to, items
    <2> QED
      BY <1>3, <1>4, <1>5, <1>7, <1>8, <1>9 DEF PlanFits, Open, Unready, Waiting
  <1>12. ReadsLast(r)
    <2>1. ~ External /\ r.pay # "UNPAID" => payment # "NONE"
      BY <1>0 DEF PaidIsOnRecord
    <2>2. CustomerTakeout /\ r.to = "COMPLETED" => verified
      BY <1>10
    <2>3. External /\ r.to = "CONFIRMED" /\ r.status = Waiting => r.phase = "TELL"
      <3> HIDE DEF phase, to, items
      <3> QED
        BY <1>3, <1>4, <1>7
    <2> QED
      BY <2>1, <2>2, <2>3 DEF ReadsLast
  <1> QED
    BY <1>1, <1>6, <1>11, <1>12

-----------------------------------------------------------------------------
ItemStates == {"PENDING", "PREPARING", "READY", "SERVED"}

\* The trigger behind every write of the status.
LEMMA StatusType ==
    ASSUME TypeOK, NEW new \in Statuses, NEW items \in [Lines -> ItemStates],
           SetStatus(new, items), kind' = kind
    PROVE  /\ status' = new /\ item' = items /\ grace' \in 0..Timeout
           /\ status' \in Statuses /\ item' \in [Lines' -> ItemStates]
           /\ task' \in [Lines' -> {"NONE", "LIVE", "CANCELLED"}]
  BY LifecycleConstants DEF SetStatus, TypeOK, Lines

LEMMA PersistType ==
    ASSUME TypeOK, NEW new \in Statuses, Persist(new) \/ UNCHANGED platform
    PROVE  /\ told' = told /\ ledger' \in Statuses
           /\ jobs' \subseteq {"ORDER_PREPARING", "ORDER_READY"}
  <1>1. kind.capabilities \subseteq {"ORDER_PREPARING", "ORDER_READY"}
    BY KindFacts DEF TypeOK
  <1>2. ReportOf(new) \subseteq {"ORDER_PREPARING", "ORDER_READY"}
    BY <1>1 DEF ReportOf
  <1> QED
    BY <1>2 DEF Persist, platform, TypeOK

\* Requests stay sound while others pay, verify and tell the platform: none of
\* these is undone.  A request may also end, or go on to its write.
LEMMA RequestsFrame ==
    ASSUME TypeOK, RequestsAreSound, kind'.channel = kind.channel, kind'.type = kind.type,
           payment # "NONE" => payment' # "NONE", verified => verified', told \subseteq told',
           \A s \in Staff :
             \/ req'[s] = req[s]
             \/ req'[s] = NoRequest
             \/ /\ InFlight(s) /\ req'[s] = [req[s] EXCEPT !.phase = "WRITE"]
                /\ req[s].phase # "TELL" \/ req[s].to # "CONFIRMED" \/ "ACCEPT" \in told'
    PROVE  RequestsAreSound'
  <1> SUFFICES ASSUME NEW s \in Staff, InFlight(s)'
               PROVE  (PlanFits(req[s]) /\ ReadsLast(req[s]))'
    BY DEF RequestsAreSound
  <1>1. InFlight(s) /\ req[s] \in Requests
    BY DEF InFlight, TypeOK
  <1>2. PlanFits(req[s]) /\ ReadsLast(req[s])
    BY <1>1 DEF RequestsAreSound
  <1>3. \/ req'[s] = req[s]
        \/ /\ req'[s] = [req[s] EXCEPT !.phase = "WRITE"]
           /\ req[s].phase # "TELL" \/ req[s].to # "CONFIRMED" \/ "ACCEPT" \in told'
    BY DEF InFlight
  <1>4. External' = External /\ CustomerTakeout' = CustomerTakeout
    BY DEF External, CustomerTakeout
  <1>5. CASE req'[s] = req[s]
    BY <1>2, <1>4, <1>5 DEF PlanFits, ReadsLast
  <1>6. CASE /\ req'[s] = [req[s] EXCEPT !.phase = "WRITE"]
             /\ req[s].phase # "TELL" \/ req[s].to # "CONFIRMED" \/ "ACCEPT" \in told'
    <2>1. /\ req'[s].phase = "WRITE" /\ req'[s].to = req[s].to /\ req'[s].pays = req[s].pays
          /\ req'[s].items = req[s].items /\ req'[s].status = req[s].status
          /\ req'[s].pay = req[s].pay
      BY <1>1, <1>6 DEF Requests
    <2>2. PlanFits(req[s])'
      BY <1>2, <2>1 DEF PlanFits
    <2>3. ReadsLast(req[s])'
      BY <1>2, <1>4, <1>6, <2>1 DEF ReadsLast
    <2> QED
      BY <2>2, <2>3
  <1> QED
    BY <1>3, <1>5, <1>6

\* What remains of the invariant when the order itself does not change.
LEMMA OrderFrame ==
    ASSUME Inv, UNCHANGED << kind, status, pay, payment, verified, item >>, told \subseteq told'
    PROVE  /\ PaidIsOnRecord' /\ WaitingIsUntouched' /\ CompletedIsPaidAndVerified'
           /\ ProducedIsAccepted' /\ FinishedIsReady'
  BY DEF Inv, PaidIsOnRecord, WaitingIsUntouched, CompletedIsPaidAndVerified,
         ProducedIsAccepted, FinishedIsReady, External, Lines

\* A write moves the order on without payment, check or platform call.
LEMMA ProductionFrame ==
    ASSUME Inv, UNCHANGED << kind, pay, payment, verified, told >>, status \in Open,
           status' \in Open, item' \in [Lines -> ItemStates],
           status' \in Unready => \E i \in Lines : item'[i] \notin {"READY", "SERVED"}
    PROVE  /\ PaidIsOnRecord' /\ WaitingIsUntouched' /\ CompletedIsPaidAndVerified'
           /\ ProducedIsAccepted' /\ FinishedIsReady'
  BY DEF Inv, PaidIsOnRecord, WaitingIsUntouched, CompletedIsPaidAndVerified, Waiting,
         ProducedIsAccepted, FinishedIsReady, External, Lines, Open, Unready

-----------------------------------------------------------------------------
(* The steps of a request.                                                 *)
LEMMA ReadOrderInv ==
    ASSUME Inv, NEW s \in Staff, ReadOrder(s)
    PROVE  Inv'
  <1>1. PICK r \in Requests : req' = [req EXCEPT ![s] = r] /\ PlanFits(r) /\ ReadsLast(r)
    BY ReadStep
  <1>2. UNCHANGED << kind, status, pay, payment, verified, grace, blocked, item, task, kds,
                     told, ledger, jobs >>
    BY DEF ReadOrder, money, clock, work, platform
  <1>3. TypeOK'
    BY <1>1, <1>2 DEF Inv, TypeOK, Lines
  <1>4. RequestsAreSound'
    <2> SUFFICES ASSUME NEW t \in Staff, InFlight(t)'
                 PROVE  (PlanFits(req[t]) /\ ReadsLast(req[t]))'
      BY DEF RequestsAreSound
    <2>1. req'[t] = IF t = s THEN r ELSE req[t]
      BY <1>1 DEF Inv, TypeOK
    <2>2. PlanFits(req'[t]) /\ ReadsLast(req'[t])
      BY <1>1, <2>1 DEF Inv, RequestsAreSound, InFlight
    <2> QED
      BY <1>2, <2>2 DEF PlanFits, ReadsLast, External, CustomerTakeout
  <1> QED
    BY <1>2, <1>3, <1>4, OrderFrame DEF Inv

LEMMA CountItemsInv ==
    ASSUME Inv, NEW s \in Staff, CountItems(s)
    PROVE  Inv'
  <1>1. UNCHANGED << kind, status, pay, payment, verified, grace, blocked, item, task, kds,
                     told, ledger, jobs >>
    BY DEF CountItems, money, clock, work, platform
  <1>2. /\ req \in [Staff -> Requests \cup {NoRequest}] /\ req[s] \in Requests
        /\ req' = [req EXCEPT ![s] = [req[s] EXCEPT !.phase = "WRITE"]]
        /\ req[s].phase = "COUNT" /\ InFlight(s)
    BY DEF CountItems, Inv, TypeOK, InFlight
  <1>3. [req[s] EXCEPT !.phase = "WRITE"] \in Requests
    BY <1>2 DEF Requests
  <1>4. TypeOK'
    BY <1>1, <1>2, <1>3 DEF Inv, TypeOK, Lines
  <1>5. RequestsAreSound'
    BY <1>1, <1>2, RequestsFrame DEF Inv
  <1> QED
    BY <1>1, <1>4, <1>5, OrderFrame DEF Inv

LEMMA TellPlatformInv ==
    ASSUME Inv, NEW s \in Staff, TellPlatform(s)
    PROVE  Inv'
  <1>1. UNCHANGED << kind, status, pay, payment, verified, grace, blocked, item, task, kds,
                     ledger, jobs >>
    BY DEF TellPlatform, money, clock, work
  <1>2. /\ req \in [Staff -> Requests \cup {NoRequest}] /\ req[s] \in Requests /\ InFlight(s)
        /\ \/ req' = [req EXCEPT ![s] = [req[s] EXCEPT !.phase = "WRITE"]]
           \/ req' = [req EXCEPT ![s] = NoRequest]
    BY DEF TellPlatform, Inv, TypeOK, InFlight
  <1>3. /\ told \subseteq told' /\ told' \subseteq {"ACCEPT", "REJECT"}
        /\ req[s].to = "CONFIRMED" => "ACCEPT" \in told'
    BY DEF TellPlatform, Inv, TypeOK
  <1>4. [req[s] EXCEPT !.phase = "WRITE"] \in Requests
    BY <1>2 DEF Requests
  <1>5. TypeOK'
    BY <1>1, <1>2, <1>3, <1>4 DEF Inv, TypeOK, Lines
  <1>6. RequestsAreSound'
    BY <1>1, <1>2, <1>3, RequestsFrame DEF Inv
  <1> QED
    BY <1>1, <1>3, <1>5, <1>6, OrderFrame DEF Inv

LEMMA EndRequestInv ==
    ASSUME Inv, NEW s \in Staff, EndRequest(s)
    PROVE  Inv'
  <1>1. UNCHANGED << kind, status, pay, payment, verified, grace, blocked, item, task, kds,
                     told, ledger, jobs >>
    BY DEF EndRequest, money, clock, work, platform
  <1>2. /\ req \in [Staff -> Requests \cup {NoRequest}]
        /\ req' = [req EXCEPT ![s] = NoRequest]
    BY DEF EndRequest, Inv, TypeOK
  <1>3. TypeOK'
    BY <1>1, <1>2 DEF Inv, TypeOK, Lines
  <1>4. RequestsAreSound'
    BY <1>1, <1>2, RequestsFrame DEF Inv
  <1> QED
    BY <1>1, <1>3, <1>4, OrderFrame DEF Inv

LEMMA WriteOrderInv ==
    ASSUME Inv, NEW s \in Staff, WriteOrder(s)
    PROVE  Inv'
  <1> DEFINE r == req[s]
             items == ItemsAfter(r)
  <1>0. TypeOK
    BY DEF Inv
  <1>1. /\ r \in Requests /\ InFlight(s) /\ PlanFits(r) /\ ReadsLast(r)
        /\ r.phase = "WRITE" /\ status = r.status
    BY DEF WriteOrder, Inv, TypeOK, InFlight, RequestsAreSound, StillAsSeen
  <1>2. /\ r.to \in Statuses /\ r.pay \in PayStates
        /\ r.items \in {"KEEP", "FINISH", "READY"} /\ r.pays \in BOOLEAN
    BY <1>1 DEF Requests
  <1>3. items \in [Lines -> ItemStates]
    BY <1>0 DEF ItemsAfter, TypeOK, ItemStates
  <1>4. SetStatus(r.to, items) /\ Persist(r.to)
    BY DEF WriteOrder
  <1>5. UNCHANGED << kind, verified, blocked, kds >>
    BY DEF WriteOrder
  <1>6. /\ status' = r.to /\ item' = items /\ grace' \in 0..Timeout
        /\ task' \in [Lines' -> {"NONE", "LIVE", "CANCELLED"}]
        /\ item' \in [Lines' -> ItemStates]
    <2> HIDE DEF items, r
    <2> QED
      BY <1>0, <1>2, <1>3, <1>4, <1>5, StatusType
  <1>7. /\ told' = told /\ ledger' \in Statuses
        /\ jobs' \subseteq {"ORDER_PREPARING", "ORDER_READY"}
    <2> HIDE DEF items, r
    <2> QED
      BY <1>0, <1>2, <1>4, PersistType
  <1>8. /\ payment' \in {"NONE", "PAID", "REFUNDED"}
        /\ payment # "NONE" => payment' # "NONE"
        /\ r.pays /\ r.pay = "UNPAID" => payment' = "PAID"
        /\ pay' = IF r.pays THEN "PAID" ELSE r.pay
    BY <1>0 DEF WriteOrder, RecordPayment, TypeOK
  <1>9. /\ req \in [Staff -> Requests \cup {NoRequest}]
        /\ req' = [req EXCEPT ![s] = NoRequest]
    BY <1>0 DEF WriteOrder, TypeOK
  <1>10. RequestsAreSound'
    <2> HIDE DEF items, r
    <2> QED
      BY <1>0, <1>5, <1>7, <1>8, <1>9, RequestsFrame DEF Inv
  <1> HIDE DEF r, items
  <1>11. TypeOK'
    <2>1. pay' \in PayStates
      BY <1>2, <1>8 DEF PayStates
    <2>2. req' \in [Staff -> Requests \cup {NoRequest}]
      BY <1>9
    <2>3. kind' \in Kinds /\ ({verified, blocked, kds} \subseteq BOOLEAN)'
      BY <1>0, <1>5 DEF TypeOK
    <2>4. told' \subseteq {"ACCEPT", "REJECT"} /\ status' \in Statuses
      BY <1>0, <1>2, <1>6, <1>7 DEF TypeOK
    <2> QED
      BY <1>6, <1>7, <1>8, <2>1, <2>2, <2>3, <2>4 DEF TypeOK, ItemStates
  <1>12. External' = External /\ CustomerTakeout' = CustomerTakeout /\ Lines' = Lines
    BY <1>5 DEF External, CustomerTakeout, Lines
  <1>13. PaidIsOnRecord'
    BY <1>1, <1>2, <1>8, <1>12 DEF PaidIsOnRecord, ReadsLast
  <1>14. WaitingIsUntouched'
    BY <1>1, <1>6 DEF WaitingIsUntouched, PlanFits
  <1>15. CompletedIsPaidAndVerified'
    <2>1. status' = "COMPLETED" /\ ~ External => payment' # "NONE"
      BY <1>1, <1>2, <1>6, <1>8 DEF PlanFits, ReadsLast
    <2>2. status' = "COMPLETED" /\ ~ External /\ kind.type = "TAKEOUT" => verified
      BY <1>1, <1>6 DEF ReadsLast, CustomerTakeout
    <2> QED
      BY <1>5, <1>12, <2>1, <2>2 DEF CompletedIsPaidAndVerified
  <1>16. ProducedIsAccepted'
    <2> SUFFICES ASSUME External, r.to \in Open \cup {"COMPLETED"}
                 PROVE  "ACCEPT" \in told
      BY <1>6, <1>7, <1>12 DEF ProducedIsAccepted
    <2>1. CASE r.status = Waiting
      BY <1>1, <2>1 DEF PlanFits, ReadsLast, Open
    <2>2. CASE r.status \in Open
      BY <1>1, <2>2 DEF Inv, ProducedIsAccepted
    <2> QED
      BY <1>1, <2>1, <2>2 DEF PlanFits
  <1>17. FinishedIsReady'
    <2> SUFFICES ASSUME r.to \in Unready
                 PROVE  \E i \in Lines : items[i] \notin {"READY", "SERVED"}
      BY <1>6, <1>12 DEF FinishedIsReady, Unready
    <2>1. r.items = "KEEP"
      BY <1>1, <1>2 DEF PlanFits, Unready, Open
    <2>2. \A i \in Lines : items[i] = item[i]
      BY <2>1 DEF items, ItemsAfter
    <2>3. CASE r.status = Waiting
      BY <1>0, <1>1, <2>2, <2>3, KindFacts DEF Inv, WaitingIsUntouched, Lines, TypeOK
    <2>4. CASE r.status \in Open
      BY <1>1, <2>2, <2>4 DEF Inv, FinishedIsReady, PlanFits, Unready
    <2> QED
      BY <1>1, <2>3, <2>4 DEF PlanFits
  <1> QED
    BY <1>10, <1>11, <1>13, <1>14, <1>15, <1>16, <1>17 DEF Inv

-----------------------------------------------------------------------------
(* Items and tasks: the status of the order follows them.                  *)
LEMMA ProductionInv ==
    ASSUME Inv, NEW new \in Open, NEW items \in [Lines -> ItemStates],
           SetStatus(new, items), Persist(new) \/ UNCHANGED platform,
           UNCHANGED << kind, pay, payment, verified, blocked, kds, req >>,
           status \in Open,
           new \in Unready => \E i \in Lines : items[i] \notin {"READY", "SERVED"}
    PROVE  Inv'
  <1>0. TypeOK /\ RequestsAreSound /\ new \in Statuses
    BY DEF Inv, Statuses
  <1>1. /\ status' = new /\ item' = items /\ status' \in Statuses /\ grace' \in 0..Timeout
        /\ item' \in [Lines' -> ItemStates]
        /\ task' \in [Lines' -> {"NONE", "LIVE", "CANCELLED"}]
    BY <1>0, StatusType
  <1>2. /\ told' = told /\ ledger' \in Statuses
        /\ jobs' \subseteq {"ORDER_PREPARING", "ORDER_READY"}
    BY <1>0, PersistType
  <1>3. TypeOK'
    BY <1>0, <1>1, <1>2 DEF TypeOK, ItemStates
  <1>4. RequestsAreSound'
    BY <1>0, <1>2, RequestsFrame
  <1> QED
    BY <1>1, <1>2, <1>3, <1>4, ProductionFrame DEF Inv

LEMMA AdvanceInv ==
    ASSUME Inv, NEW some, NEW from, Advance(some, from)
    PROVE  Inv'
  <1> DEFINE items == [i \in Lines |-> IF i \in some THEN NextItem[from] ELSE item[i]]
             new == StatusFromItems(items)
  <1>1. items \in [Lines -> ItemStates]
    BY DEF Advance, NextItem, Inv, TypeOK, ItemStates
  <1>2. /\ SetStatus(new, items) /\ status \in Open
        /\ UNCHANGED << kind, pay, payment, verified, blocked, kds, req >>
        /\ UNCHANGED platform
    BY DEF Advance, money
  <1> HIDE DEF items
  <1>3. /\ new \in Open
        /\ new \in Unready => \E j \in Lines : items[j] \notin {"READY", "SERVED"}
    BY DEF StatusFromItems, Open, Unready
  <1> HIDE DEF new
  <1> QED
    BY <1>1, <1>2, <1>3, ProductionInv

\* A task goes back, but the order does not; and it is ready once no live task
\* is left to do.
LEMMA TasksGiveStatus ==
    ASSUME NEW items, status \in Unready
    PROVE  LET new == KeepsProgress(StatusFromTasks(items))
           IN  /\ new \in Open
               /\ new \in Unready => \E j \in Lines : items[j] \notin {"READY", "SERVED"}
  <1> DEFINE derived == StatusFromTasks(items)
  <1>1. /\ derived \in Open
        /\ derived # "READY" => \E j \in Lines : items[j] \notin {"READY", "SERVED"}
    BY DEF StatusFromTasks, TaskStatus, Open
  <1> HIDE DEF derived
  <1>2. status \in {"CONFIRMED", "PREPARING", "PACKING"}
    BY DEF Unready, Open
  <1>3. derived = "READY" => KeepsProgress(derived) = "READY"
    BY <1>2 DEF KeepsProgress, Rank
  <1>4. KeepsProgress(derived) \in {derived, status}
    BY DEF KeepsProgress
  <1> QED
    BY <1>1, <1>2, <1>3, <1>4 DEF Open, Unready, derived

LEMMA UpdateTaskInv ==
    ASSUME Inv, NEW i \in Lines, NEW to \in {"PENDING", "PREPARING", "COMPLETED"},
           UpdateTask(i, to)
    PROVE  Inv'
  <1> DEFINE items == [item EXCEPT ![i] = ItemState(to)]
             new == KeepsProgress(StatusFromTasks(items))
  <1>1. items \in [Lines -> ItemStates]
    BY DEF ItemState, Inv, TypeOK, ItemStates
  <1>2. /\ SetStatus(new, items) /\ PersistTransition(status, new) /\ status \in Unready
        /\ UNCHANGED << kind, pay, payment, verified, blocked, kds, req >>
    BY DEF UpdateTask, money, clock, Unready
  <1>3. /\ new \in Open
        /\ new \in Unready => \E j \in Lines : items[j] \notin {"READY", "SERVED"}
    BY <1>2, TasksGiveStatus
  <1> HIDE DEF items, new
  <1>4. Persist(new) \/ UNCHANGED platform
    BY <1>2 DEF PersistTransition
  <1>5. status \in Open
    BY <1>2 DEF Unready
  <1> QED
    BY <1>1, <1>2, <1>3, <1>4, <1>5, ProductionInv

LEMMA CompleteKitchenOrderInv ==
    ASSUME Inv, CompleteKitchenOrder
    PROVE  Inv'
  <1> DEFINE items == [i \in Lines |-> "READY"]
  <1>1. items \in [Lines -> ItemStates] /\ "READY" \in Open /\ ~ ("READY" \in Unready)
    BY DEF ItemStates, Open, Unready
  <1>2. /\ SetStatus("READY", items) /\ Persist("READY") /\ status \in Open
        /\ UNCHANGED << kind, pay, payment, verified, blocked, kds, req >>
    BY DEF CompleteKitchenOrder, money, clock
  <1> HIDE DEF items
  <1> QED
    BY <1>1, <1>2, ProductionInv

-----------------------------------------------------------------------------
(* The operations that close the order, and those beside its status.       *)
LEMMA ClosingInv ==
    ASSUME Inv, NEW new \in {"CANCELLED", "EXPIRED"}, SetStatus(new, item),
           UNCHANGED << kind, pay, payment, verified, blocked, kds, req, platform >>
    PROVE  Inv'
  <1>0. TypeOK /\ RequestsAreSound /\ new \in Statuses /\ item \in [Lines -> ItemStates]
    BY DEF Inv, TypeOK, Statuses, Closed, ItemStates
  <1>1. /\ status' = new /\ item' = item /\ status' \in Statuses /\ grace' \in 0..Timeout
        /\ item' \in [Lines' -> ItemStates]
        /\ task' \in [Lines' -> {"NONE", "LIVE", "CANCELLED"}]
    BY <1>0, StatusType
  <1>2. /\ told' = told /\ ledger' \in Statuses
        /\ jobs' \subseteq {"ORDER_PREPARING", "ORDER_READY"}
    BY <1>0, PersistType
  <1>3. TypeOK'
    BY <1>0, <1>1, <1>2 DEF TypeOK, ItemStates
  <1>4. RequestsAreSound'
    BY <1>0, <1>2, RequestsFrame
  <1>5. PaidIsOnRecord'
    BY DEF Inv, PaidIsOnRecord, External
  <1>6. /\ WaitingIsUntouched' /\ CompletedIsPaidAndVerified'
        /\ ProducedIsAccepted' /\ FinishedIsReady'
    BY <1>1 DEF WaitingIsUntouched, CompletedIsPaidAndVerified, ProducedIsAccepted,
                FinishedIsReady, Waiting, Open
  <1> QED
    BY <1>3, <1>4, <1>5, <1>6 DEF Inv

LEMMA VerifyPickupInv ==
    ASSUME Inv, VerifyPickup
    PROVE  Inv'
  <1>1. /\ UNCHANGED << kind, status, pay, payment, grace, blocked, item, task, kds, told,
                        ledger, jobs, req >>
        /\ verified' = TRUE
    BY DEF VerifyPickup, money, clock, work, platform
  <1>2. TypeOK'
    BY <1>1 DEF Inv, TypeOK, Lines
  <1>3. RequestsAreSound'
    BY <1>1, RequestsFrame DEF Inv
  <1>4. /\ PaidIsOnRecord' /\ WaitingIsUntouched' /\ CompletedIsPaidAndVerified'
        /\ ProducedIsAccepted' /\ FinishedIsReady'
    BY <1>1 DEF Inv, PaidIsOnRecord, WaitingIsUntouched, CompletedIsPaidAndVerified,
         ProducedIsAccepted, FinishedIsReady, External, Lines
  <1> QED
    BY <1>2, <1>3, <1>4 DEF Inv

LEMMA RefundInv ==
    ASSUME Inv, Refund
    PROVE  Inv'
  <1>1. /\ UNCHANGED << kind, status, verified, grace, blocked, item, task, kds, told,
                        ledger, jobs, req >>
        /\ payment' = "REFUNDED" /\ payment = "PAID" /\ pay' \in {pay, "REFUNDED"}
    BY DEF Refund, clock, work, platform
  <1>2. TypeOK'
    BY <1>1 DEF Inv, TypeOK, Lines, PayStates
  <1>3. RequestsAreSound'
    BY <1>1, RequestsFrame DEF Inv
  <1>4. /\ PaidIsOnRecord' /\ WaitingIsUntouched' /\ CompletedIsPaidAndVerified'
        /\ ProducedIsAccepted' /\ FinishedIsReady'
    BY <1>1 DEF Inv, PaidIsOnRecord, WaitingIsUntouched, CompletedIsPaidAndVerified,
         ProducedIsAccepted, FinishedIsReady, External, Lines
  <1> QED
    BY <1>2, <1>3, <1>4 DEF Inv

LEMMA ChangeModulesInv ==
    ASSUME Inv, ChangeModules
    PROVE  Inv'
  <1>1. /\ UNCHANGED << kind, pay, payment, verified, grace, blocked, item, told,
                        ledger, jobs, req >>
        /\ kds' \in BOOLEAN
        /\ status' = status \/ (status' = "COMPLETED" /\ Completable)
    BY DEF ChangeModules, money, clock, platform
  <1>2. task' \in [Lines -> {"NONE", "LIVE", "CANCELLED"}]
    BY DEF ChangeModules, Inv, TypeOK
  <1>3. TypeOK'
    BY <1>1, <1>2 DEF Inv, TypeOK, Lines, Statuses, Closed
  <1>4. RequestsAreSound'
    BY <1>1, RequestsFrame DEF Inv
  <1>5. PaidIsOnRecord' /\ WaitingIsUntouched' /\ FinishedIsReady'
    BY <1>1 DEF Inv, PaidIsOnRecord, WaitingIsUntouched, FinishedIsReady, External, Lines,
                Waiting, Open
  <1>6. CompletedIsPaidAndVerified' /\ ProducedIsAccepted'
    BY <1>1 DEF Inv, PaidIsOnRecord, CompletedIsPaidAndVerified, ProducedIsAccepted,
                Completable, External
  <1> QED
    BY <1>3, <1>4, <1>5, <1>6 DEF Inv

LEMMA ClockInv ==
    ASSUME Inv,
           UNCHANGED << kind, status, pay, payment, verified, item, task, kds, told,
                        ledger, jobs, req >>,
           grace' \in 0..Timeout, blocked' \in BOOLEAN
    PROVE  Inv'
  <1>1. TypeOK'
    BY DEF Inv, TypeOK, Lines
  <1>2. RequestsAreSound'
    BY RequestsFrame DEF Inv
  <1> QED
    BY <1>1, <1>2, OrderFrame DEF Inv

\* The items are new, and nobody has begun with them.
LEMMA NewItemsInv ==
    ASSUME Inv, NEW k \in Kinds, k = [kind EXCEPT !.items = k.items], kind' = k,
           item' = [i \in k.items |-> "PENDING"],
           task' \in [k.items -> {"NONE", "LIVE", "CANCELLED"}],
           status \in {Waiting, "CONFIRMED"}, grace' \in {Timeout, grace},
           UNCHANGED << status, pay, payment, verified, blocked, kds, told, ledger, jobs, req >>
    PROVE  Inv'
  <1>1. /\ kind'.channel = kind.channel /\ kind'.type = kind.type
        /\ Lines' = k.items /\ k.items # {}
    BY LifecycleConstants DEF Inv, TypeOK, Lines
  <1>2. TypeOK'
    <2>1. grace' \in 0..Timeout
      BY LifecycleConstants DEF Inv, TypeOK
    <2> QED
      BY <1>1, <2>1 DEF Inv, TypeOK
  <1>3. RequestsAreSound'
    BY <1>1, RequestsFrame DEF Inv
  <1>4. PaidIsOnRecord' /\ ProducedIsAccepted'
    BY <1>1 DEF Inv, PaidIsOnRecord, ProducedIsAccepted, External
  <1>5. WaitingIsUntouched' /\ FinishedIsReady'
    BY <1>1 DEF WaitingIsUntouched, FinishedIsReady
  <1>6. CompletedIsPaidAndVerified'
    BY DEF CompletedIsPaidAndVerified, Waiting
  <1> QED
    BY <1>2, <1>3, <1>4, <1>5, <1>6 DEF Inv

LEMMA EditByCustomerInv ==
    ASSUME Inv, EditByCustomer
    PROVE  Inv'
  <1>1. PICK k \in Kinds :
          /\ k = [kind EXCEPT !.items = k.items]
          /\ kind' = k
          /\ item' = [i \in k.items |-> "PENDING"]
          /\ task' = [i \in k.items |-> "NONE"]
    BY DEF EditByCustomer
  <1>2. /\ UNCHANGED << status, pay, payment, verified, blocked, kds, told, ledger, jobs, req >>
        /\ status = Waiting /\ grace' \in {Timeout, grace}
    BY DEF EditByCustomer, money, platform, Waiting
  <1> QED
    BY <1>1, <1>2, NewItemsInv

LEMMA AmendByStaffInv ==
    ASSUME Inv, AmendByStaff
    PROVE  Inv'
  <1>1. PICK k \in Kinds, kept \in SUBSET Lines :
          /\ k = [kind EXCEPT !.items = k.items]
          /\ kind' = k
          /\ item' = [i \in k.items |-> "PENDING"]
          /\ task' = [i \in k.items |->
               IF status = "CONFIRMED" /\ kds /\ kept # k.items THEN "LIVE"
               ELSE IF i \in kept THEN task[i] ELSE "NONE"]
    BY DEF AmendByStaff
  <1>2. task' \in [k.items -> {"NONE", "LIVE", "CANCELLED"}]
    BY <1>1 DEF Inv, TypeOK
  <1>3. /\ UNCHANGED << status, pay, payment, verified, grace, blocked, kds, told, ledger,
                        jobs, req >>
        /\ status \in {Waiting, "CONFIRMED"}
    BY DEF AmendByStaff, money, clock, platform, Waiting
  <1> QED
    BY <1>1, <1>2, <1>3, NewItemsInv

\* A customer at the counter: the order is ready, and it is not a platform's.
LEMMA CustomerPresentInv ==
    ASSUME Inv, CustomerPresent
    PROVE  Inv'
  <1> DEFINE items == [i \in Lines |-> IF item[i] = "SERVED" THEN "SERVED" ELSE "READY"]
  <1>0. TypeOK /\ "READY" \in Statuses /\ items \in [Lines -> ItemStates]
    BY DEF Inv, Statuses, Open, ItemStates
  <1>1. /\ SetStatus("READY", items) /\ ~ External /\ blocked' = FALSE
        /\ UNCHANGED << kind, pay, payment, verified, kds, told, ledger, jobs, req >>
    BY DEF CustomerPresent, CustomerTakeout, money, platform
  <1> HIDE DEF items
  <1>2. /\ status' = "READY" /\ grace' \in 0..Timeout /\ item' \in [Lines' -> ItemStates]
        /\ task' \in [Lines' -> {"NONE", "LIVE", "CANCELLED"}]
    BY <1>0, <1>1, StatusType
  <1>3. TypeOK'
    BY <1>0, <1>1, <1>2 DEF TypeOK, ItemStates
  <1>4. RequestsAreSound'
    BY <1>0, <1>1, RequestsFrame DEF Inv
  <1>5. PaidIsOnRecord' /\ ProducedIsAccepted'
    BY <1>1 DEF Inv, PaidIsOnRecord, ProducedIsAccepted, External
  <1>6. WaitingIsUntouched' /\ CompletedIsPaidAndVerified' /\ FinishedIsReady'
    BY <1>2 DEF WaitingIsUntouched, CompletedIsPaidAndVerified, FinishedIsReady, Waiting
  <1> QED
    BY <1>3, <1>4, <1>5, <1>6 DEF Inv

-----------------------------------------------------------------------------
LEMMA Invariance == Inv /\ [Next]_vars => Inv'
  <1> SUFFICES ASSUME Inv, [Next]_vars PROVE Inv'
    OBVIOUS
  <1>1. ASSUME NEW s \in Staff,
               \/ ReadOrder(s) \/ CountItems(s) \/ TellPlatform(s)
               \/ WriteOrder(s) \/ EndRequest(s)
        PROVE  Inv'
    BY <1>1, ReadOrderInv, CountItemsInv, TellPlatformInv, WriteOrderInv, EndRequestInv
  <1>2. ASSUME NEW some, NEW from, Advance(some, from)
        PROVE  Inv'
    BY <1>2, AdvanceInv
  <1>3. ASSUME NEW i \in Lines, NEW to \in {"PENDING", "PREPARING", "COMPLETED"},
               UpdateTask(i, to)
        PROVE  Inv'
    BY <1>3, UpdateTaskInv
  <1>4. CASE CompleteKitchenOrder
    BY <1>4, CompleteKitchenOrderInv
  <1>5. CASE CancelByCustomer \/ Expire \/ CancelCompleted
    <2>1. PICK new \in {"CANCELLED", "EXPIRED"} : SetStatus(new, item)
      BY <1>5 DEF CancelByCustomer, Expire, CancelCompleted
    <2>2. UNCHANGED << kind, pay, payment, verified, blocked, kds, req, platform >>
      BY <1>5 DEF CancelByCustomer, Expire, CancelCompleted, money
    <2> QED
      BY <2>1, <2>2, ClosingInv
  <1>6. CASE VerifyPickup
    BY <1>6, VerifyPickupInv
  <1>7. CASE Refund
    BY <1>7, RefundInv
  <1>8. CASE ChangeModules
    BY <1>8, ChangeModulesInv
  <1>9. CASE TimePasses \/ TimeAgreed \/ TimeReopened
    <2>1. grace \in 0..Timeout /\ blocked \in BOOLEAN
      BY DEF Inv, TypeOK
    <2>2. UNCHANGED << kind, status, pay, payment, verified, item, task, kds, told,
                       ledger, jobs, req >>
      BY <1>9 DEF TimePasses, TimeAgreed, TimeReopened, money, work, platform
    <2>3. grace' \in 0..Timeout
      BY <1>9, <2>1, LifecycleConstants DEF TimePasses, TimeAgreed, TimeReopened, overdue
    <2>4. blocked' \in BOOLEAN
      BY <1>9, <2>1 DEF TimePasses, TimeAgreed, TimeReopened
    <2> QED
      BY <2>2, <2>3, <2>4, ClockInv
  <1>10. CASE UNCHANGED vars
    <2>1. grace \in 0..Timeout /\ blocked \in BOOLEAN
      BY DEF Inv, TypeOK
    <2>2. /\ UNCHANGED << kind, status, pay, payment, verified, item, task, kds, told,
                          ledger, jobs, req >>
          /\ grace' \in 0..Timeout /\ blocked' \in BOOLEAN
      BY <1>10, <2>1 DEF vars, money, clock, work, platform
    <2> QED
      BY <2>2, ClockInv
  <1>11. CASE EditByCustomer \/ AmendByStaff \/ CustomerPresent
    BY <1>11, EditByCustomerInv, AmendByStaffInv, CustomerPresentInv
  <1> QED
    BY <1>1, <1>2, <1>3, <1>4, <1>5, <1>6, <1>7, <1>8, <1>9, <1>10, <1>11
    DEF Next, AdvanceItem, AdvanceItems

LEMMA InvHolds == Spec => []Inv
  BY InitInv, Invariance, PTL DEF Spec

\* Every variable keeps its type.
THEOREM TypeCorrect == Spec => []TypeOK
  <1>1. Inv => TypeOK
    BY DEF Inv
  <1> QED
    BY <1>1, InvHolds, PTL

\* A completed order of a customer has its payment on record, and one to take
\* away its verification, for any number of requests that read the order at
\* any time before they write.
THEOREM CompletedIsPaidAndVerifiedHolds == Spec => []CompletedIsPaidAndVerified
  <1>1. Inv => CompletedIsPaidAndVerified
    BY DEF Inv
  <1> QED
    BY <1>1, InvHolds, PTL

\* An order of a platform is produced only after the platform accepted.
THEOREM ProducedIsAcceptedHolds == Spec => []ProducedIsAccepted
  <1>1. Inv => ProducedIsAccepted
    BY DEF Inv
  <1> QED
    BY <1>1, InvHolds, PTL

\* An order whose items are all finished is ready or beyond.
THEOREM FinishedIsReadyHolds == Spec => []FinishedIsReady
  <1>1. Inv => FinishedIsReady
    BY DEF Inv
  <1> QED
    BY <1>1, InvHolds, PTL

\* A closed order stays closed: no request that read it before writes.
THEOREM ClosedIsFinalHolds == Spec => ClosedIsFinal
  <1> DEFINE A == /\ status \in {"CANCELLED", "EXPIRED"} => status' = status
                  /\ status = "COMPLETED" => status' \in {"COMPLETED", "CANCELLED"}
  <1>1. Inv /\ [Next]_vars => [A]_vars
    <2> SUFFICES ASSUME Inv, Next, status \in Closed PROVE A
      BY DEF Closed
    <2>1. ASSUME NEW s \in Staff, WriteOrder(s) PROVE FALSE
      BY <2>1 DEF Inv, RequestsAreSound, PlanFits, InFlight, WriteOrder, StillAsSeen,
                  Closed, Open, Waiting
    <2>2. ASSUME NEW s \in Staff,
                 ReadOrder(s) \/ CountItems(s) \/ TellPlatform(s) \/ EndRequest(s)
          PROVE  status' = status
      BY <2>2 DEF ReadOrder, CountItems, TellPlatform, EndRequest
    <2>3. ASSUME NEW some, NEW from, Advance(some, from)
          PROVE  FALSE
      BY <2>3 DEF Advance, Open, Closed
    <2>8. ASSUME NEW i \in Lines, NEW to \in {"PENDING", "PREPARING", "COMPLETED"},
                 UpdateTask(i, to)
          PROVE  FALSE
      BY <2>8 DEF UpdateTask, Open, Closed
    <2>4. CASE \/ CompleteKitchenOrder \/ CancelByCustomer \/ Expire
               \/ EditByCustomer \/ AmendByStaff \/ CustomerPresent
      BY <2>4 DEF CompleteKitchenOrder, CancelByCustomer, Expire, Expirable, EditByCustomer,
                  AmendByStaff, CustomerPresent, Open, Closed
    <2>5. CASE CancelCompleted
      BY <2>5 DEF CancelCompleted, SetStatus
    <2>6. CASE ChangeModules
      BY <2>6 DEF ChangeModules, Completable, Closed
    <2>7. CASE VerifyPickup \/ Refund \/ TimePasses \/ TimeAgreed \/ TimeReopened
      BY <2>7 DEF VerifyPickup, Refund, TimePasses, TimeAgreed, TimeReopened
    <2> QED
      BY <2>1, <2>2, <2>3, <2>4, <2>5, <2>6, <2>7, <2>8 DEF Next, AdvanceItem, AdvanceItems
  <1> QED
    BY <1>1, InvHolds, PTL DEF Spec, ClosedIsFinal
=============================================================================

----------------------------- MODULE PickupCodes -----------------------------
(***************************************************************************)
(* The three-digit codes of the takeaway orders of one stall:              *)
(* assign_daily_pickup_code, its use at the end of the transaction that    *)
(* places an order, and reconcile_active_pickup_codes_targeted             *)
(* (20260826170000), and the lookup and verification of                    *)
(* orders/pickup-verification-service.ts.                                  *)
(*                                                                         *)
(* A transaction that places an order takes the advisory lock of its date, *)
(* then chooses a code among committed orders, then commits.  Every other  *)
(* operation is one step.                                                  *)
(***************************************************************************)
EXTENDS Integers, FiniteSets, FiniteSetsExt

CONSTANTS
    Orders,
    Legacy,         \* orders from before the migration, without a service date
    PoolSize,       \* codes per date, 999
    LastDate,       \* bound: business dates considered
    None

ASSUME PickupConstants ==
    /\ Legacy \subseteq Orders
    /\ PoolSize \in Nat \ {0} /\ LastDate \in Nat \ {0}
    /\ None \notin Int \cup Orders

VARIABLES
    today,          \* the business date
    phase,          \* [Orders -> where the order is]
    due,            \* [Orders -> date of the requested, else creation, time]
    served,         \* [Orders -> pickup_code_service_date, or None]
    code,           \* [Orders -> pickup_code_display, or None]
    verified,       \* [Orders -> pickup_verified_at is set]
    lock            \* [Dates -> transaction that holds the advisory lock]

vars == << today, phase, due, served, code, verified, lock >>

Dates == 1..LastDate
Codes == 1..PoolSize

TypeOK ==
    /\ today \in Dates
    /\ phase \in [Orders -> {"ABSENT", "PLACING", "LOCKED", "CODED", "ACTIVE", "READY", "CLOSED",
                             "REFUSED"}]
    /\ due \in [Orders -> Dates]
    /\ served \in [Orders -> Dates \cup {None}]
    /\ code \in [Orders -> Codes \cup {None}]
    /\ verified \in [Orders -> BOOLEAN]
    /\ lock \in [Dates -> Orders \cup {None}]

\* Legacy orders are active, with codes that may collide or are of another length.
Init ==
    /\ today = 1
    /\ phase = [o \in Orders |-> IF o \in Legacy THEN "ACTIVE" ELSE "ABSENT"]
    /\ due \in {d \in [Orders -> Dates] : \A o \in Orders \ Legacy : d[o] = 1}
    /\ code \in {c \in [Orders -> Codes \cup {None}] :
                    \A o \in Orders \ Legacy : c[o] = None}
    /\ served = [o \in Orders |-> None]
    /\ verified = [o \in Orders |-> FALSE]
    /\ lock = [d \in Dates |-> None]

-----------------------------------------------------------------------------
\* Committed orders that still hold their code.
ActiveBeforeReady(o) == phase[o] = "ACTIVE" /\ ~ verified[o]
Active(o) == phase[o] \in {"ACTIVE", "READY"} /\ ~ verified[o]

\* coalesce(pickup_code_service_date, the date of the order itself)
DateOf(o) == IF served[o] = None THEN due[o] ELSE served[o]

Taken(o, date) == {code[p] : p \in {q \in Orders \ {o} : Active(q) /\ DateOf(q) = date}} \ {None}

FreeCodes(o, date) == Codes \ Taken(o, date)

\* orders_active_pickup_code_service_date_key
IndexAdmits(o, date, c) ==
    ~ \E p \in Orders \ {o} : Active(p) /\ served[p] = date /\ code[p] = c

-----------------------------------------------------------------------------
(* Placing an order.                                                       *)
Place(o) ==
    /\ phase[o] = "ABSENT"
    /\ \E d \in today..LastDate : due' = [due EXCEPT ![o] = d]
    /\ phase' = [phase EXCEPT ![o] = "PLACING"]
    /\ UNCHANGED << today, served, code, verified, lock >>

\* pg_advisory_xact_lock
LockFreeAlways(d) == TRUE
LockFree(d) == lock[d] = None

LockDate(o) ==
    /\ phase[o] = "PLACING" /\ LockFree(due[o])
    /\ lock' = [lock EXCEPT ![due[o]] = o]
    /\ phase' = [phase EXCEPT ![o] = "LOCKED"]
    /\ UNCHANGED << today, due, served, code, verified >>

AssignCode(o) ==
    /\ phase[o] = "LOCKED" /\ FreeCodes(o, due[o]) # {}
    /\ code' = [code EXCEPT ![o] = Min(FreeCodes(o, due[o]))]
    /\ served' = [served EXCEPT ![o] = due[o]]
    /\ phase' = [phase EXCEPT ![o] = "CODED"]
    /\ UNCHANGED << today, due, verified, lock >>

CommitOrder(o) ==
    /\ phase[o] = "CODED" /\ IndexAdmits(o, served[o], code[o])
    /\ phase' = [phase EXCEPT ![o] = "ACTIVE"]
    /\ lock' = [lock EXCEPT ![due[o]] = None]
    /\ UNCHANGED << today, due, served, code, verified >>

\* PICKUP_CODE_CAPACITY_EXCEEDED or the unique index: the order is rolled back.
RefuseOrder(o) ==
    /\ \/ phase[o] = "LOCKED" /\ FreeCodes(o, due[o]) = {}
       \/ phase[o] = "CODED" /\ ~ IndexAdmits(o, served[o], code[o])
    /\ phase' = [phase EXCEPT ![o] = "REFUSED"]
    /\ code' = [code EXCEPT ![o] = None]
    /\ served' = [served EXCEPT ![o] = None]
    /\ lock' = [lock EXCEPT ![due[o]] = None]
    /\ UNCHANGED << today, due, verified >>

\* reconcile_active_pickup_codes_targeted, one order of its date at a time:
\* it keeps its code unless another active order has it.
KeepsCode(o) == code[o] \in FreeCodes(o, due[o])

Reconcile(o) ==
    /\ Active(o) /\ lock[due[o]] = None
    /\ LET c == IF KeepsCode(o) THEN code[o] ELSE Min(FreeCodes(o, due[o]))
       IN  /\ FreeCodes(o, due[o]) # {}
           /\ IndexAdmits(o, due[o], c)
           /\ code' = [code EXCEPT ![o] = c]
    /\ served' = [served EXCEPT ![o] = due[o]]
    /\ UNCHANGED << today, phase, due, verified, lock >>

-----------------------------------------------------------------------------
(* The life of an order, as far as codes are concerned.                    *)

MakeReady(o) ==
    /\ phase[o] = "ACTIVE"
    /\ phase' = [phase EXCEPT ![o] = "READY"]
    /\ UNCHANGED << today, due, served, code, verified, lock >>

Close(o) ==
    /\ phase[o] \in {"ACTIVE", "READY"}
    /\ phase' = [phase EXCEPT ![o] = "CLOSED"]
    /\ UNCHANGED << today, due, served, code, verified, lock >>

\* findReadyPickupOrdersByCode
Lookup(c) == {o \in Orders : /\ served[o] = today /\ phase[o] = "READY"
                             /\ ~ verified[o] /\ code[o] = c}

\* Staff enter a code and one order answers: verifyReadyTakeoutOrder.
VerifyByCode(c) ==
    /\ Cardinality(Lookup(c)) = 1
    /\ verified' = [o \in Orders |-> verified[o] \/ o \in Lookup(c)]
    /\ UNCHANGED << today, phase, due, served, code, lock >>

\* Or they confirm the number of the order.
VerifyByNumber(o) ==
    /\ phase[o] = "READY" /\ ~ verified[o]
    /\ verified' = [verified EXCEPT ![o] = TRUE]
    /\ UNCHANGED << today, phase, due, served, code, lock >>

NextDate ==
    /\ today < LastDate /\ today' = today + 1
    /\ UNCHANGED << phase, due, served, code, verified, lock >>

-----------------------------------------------------------------------------
Next ==
    \/ \E o \in Orders : \/ Place(o) \/ LockDate(o) \/ AssignCode(o) \/ CommitOrder(o)
                         \/ RefuseOrder(o) \/ Reconcile(o) \/ MakeReady(o)
                         \/ Close(o) \/ VerifyByNumber(o)
    \/ \E c \in Codes : VerifyByCode(c)
    \/ NextDate

Spec == Init /\ [][Next]_vars

-----------------------------------------------------------------------------
(* Properties.                                                             *)

\* Transactions that place orders at the same time never choose the same code:
\* at most one active order of a service date answers to a code.
CodeNamesOneOrder ==
    \A o, p \in {q \in Orders : phase[q] \in {"ACTIVE", "READY"} /\ ~ verified[q]} :
        o # p /\ served[o] # None /\ served[o] = served[p] => code[o] # code[p]

\* An order is refused only when every code of its date is held by another
\* order that is still to be picked up, never because two orders collided.
RefusedOnlyWhenFull ==
    [][\A o \in Orders : phase[o] # "REFUSED" /\ phase'[o] = "REFUSED"
         => Taken(o, due[o]) = Codes]_vars

\* A code that a customer was given is not changed, also by reconciliation,
\* which may only move orders from before the migration.
CodeIsStable ==
    [][\A o \in Orders : phase[o] \in {"ACTIVE", "READY"} /\ served[o] # None
         => code'[o] = code[o]]_vars
=============================================================================

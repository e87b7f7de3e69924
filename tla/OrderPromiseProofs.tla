------------------------- MODULE OrderPromiseProofs -------------------------
(***************************************************************************)
(* What an order promises the customer, for any number of staff pages,     *)
(* times, versions, orders, dates and codes: its time (FulfillmentTime) and*)
(* its pickup code (PickupCodes).                                          *)
(***************************************************************************)
EXTENDS FulfillmentTime, PickupCodes, WellFoundedInduction, TLAPS

(***************************************************************************)
(* The time: every command leaves a row that the table accepts, a version  *)
(* names one proposal, and what the customer accepts is what the page      *)
(* showed.                                                                 *)
(***************************************************************************)

\* The page of the customer is never ahead of the row, which is what makes a
\* fresh version of a proposal differ from every version shown before.
ShownIsOld == shown.version <= version

\* The inductive invariant.
TimeInv == TimeTypeOK /\ RowIsConsistent /\ VersionNamesProposal /\ ShownIsOld

-----------------------------------------------------------------------------
\* The new order, with or without a requested time.
LEMMA TimeInitInv == TimeInit => TimeInv
  <1> SUFFICES ASSUME TimeInit PROVE TimeInv
    OBVIOUS
  <1>1. TimeTypeOK
    BY TimeConstants DEF TimeInit, TimeTypeOK, States, Versions, TimeOrNone
  <1>2. RowIsConsistent /\ VersionNamesProposal
    BY DEF TimeInit, RowIsConsistent, VersionNamesProposal
  <1>3. ShownIsOld
    BY <1>1 DEF TimeInit, ShownIsOld, TimeTypeOK, Versions
  <1> QED
    BY <1>1, <1>2, <1>3 DEF TimeInv

\* The proposal of staff and the arrival of the customer move to a version
\* that the table admits and no page has shown.
LEMMA VersionMoves ==
    ASSUME TimeInv, VersionLeft
    PROVE  /\ NextVersion \in Versions /\ NextVersion >= 1
           /\ shown.version < NextVersion /\ NextVersion # version
  BY TimeConstants DEF TimeInv, TimeTypeOK, ShownIsOld, VersionLeft, NextVersion, Versions

LEMMA TimeTypeStep == TimeInv /\ [TimeNext]_timeVars => TimeTypeOK'
  <1> SUFFICES ASSUME TimeInv, [TimeNext]_timeVars PROVE TimeTypeOK'
    OBVIOUS
  <1> USE DEF TimeTypeOK, TimeInv
  <1>1. CASE CustomerLoads
    BY <1>1 DEF CustomerLoads, agreement
  <1>2. CASE Accept
    BY <1>2 DEF Accept, PendingAfter, TimeOrNone, States
  <1>3. CASE Decline
    BY <1>3 DEF Decline, PendingAfter, TimeOrNone, States
  <1>4. CASE AnswerLate
    BY <1>4 DEF AnswerLate, TimeOrNone, States
  <1>5. CASE DeadlinePasses
    BY <1>5 DEF DeadlinePasses
  <1>6. ASSUME NEW s \in Staff, StaffLoads(s) PROVE TimeTypeOK'
    BY <1>6 DEF StaffLoads, agreement
  <1>7. ASSUME NEW s \in Staff, Propose(s) PROVE TimeTypeOK'
    <2>1. VersionLeft
      BY <1>7 DEF Propose
    <2> QED
      BY <1>7, <2>1, VersionMoves DEF Propose, TimeOrNone, States
  <1>8. ASSUME NEW s \in Staff, ConfirmRequested(s) PROVE TimeTypeOK'
    BY <1>8 DEF ConfirmRequested, TimeOrNone, States
  <1>9. ASSUME NEW s \in Staff, CustomerPresent(s) PROVE TimeTypeOK'
    <2>1. VersionLeft
      BY <1>9 DEF CustomerPresent
    <2> QED
      BY <1>9, <2>1, VersionMoves DEF CustomerPresent, TimeOrNone, States
  <1>10. ASSUME NEW new \in {"CONFIRMED", "STARTED", "READY", "CLOSED"}, Progress(new)
         PROVE  TimeTypeOK'
    BY <1>10 DEF Progress, agreement
  <1>11. CASE UNCHANGED timeVars
    BY <1>11 DEF timeVars, agreement
  <1> QED
    BY <1>1, <1>2, <1>3, <1>4, <1>5, <1>6, <1>7, <1>8, <1>9, <1>10, <1>11 DEF TimeNext

\* One step per command: which state it starts from, and what it leaves.
LEMMA RowStep == TimeInv /\ [TimeNext]_timeVars => RowIsConsistent'
  <1> SUFFICES ASSUME TimeInv, [TimeNext]_timeVars PROVE RowIsConsistent'
    OBVIOUS
  <1>0. TimeTypeOK /\ RowIsConsistent
    BY DEF TimeInv
  <1> USE <1>0, TimeConstants DEF RowIsConsistent
  <1>1. CASE CustomerLoads
    BY <1>1 DEF CustomerLoads, agreement
  <1>2. CASE Accept
    BY <1>2 DEF Accept, Answerable, PendingAfter
  <1>3. CASE Decline
    BY <1>3 DEF Decline, Answerable, PendingAfter
  <1>4. CASE AnswerLate
    BY <1>4 DEF AnswerLate, Answerable
  <1>5. CASE DeadlinePasses
    BY <1>5 DEF DeadlinePasses, TimeTypeOK, States
  <1>6. ASSUME NEW s \in Staff, StaffLoads(s) PROVE RowIsConsistent'
    BY <1>6 DEF StaffLoads, agreement
  <1>7. ASSUME NEW s \in Staff, Propose(s) PROVE RowIsConsistent'
    <2>1. VersionLeft
      BY <1>7 DEF Propose
    <2> QED
      BY <1>7, <2>1, VersionMoves DEF Propose
  <1>8. ASSUME NEW s \in Staff, ConfirmRequested(s) PROVE RowIsConsistent'
    BY <1>8 DEF ConfirmRequested
  <1>9. ASSUME NEW s \in Staff, CustomerPresent(s) PROVE RowIsConsistent'
    <2>1. VersionLeft
      BY <1>9 DEF CustomerPresent
    <2> QED
      BY <1>9, <2>1, VersionMoves DEF CustomerPresent
  <1>10. ASSUME NEW new \in {"CONFIRMED", "STARTED", "READY", "CLOSED"}, Progress(new)
         PROVE  RowIsConsistent'
    BY <1>10 DEF Progress, agreement
  <1>11. CASE UNCHANGED timeVars
    BY <1>11 DEF timeVars, agreement
  <1> QED
    BY <1>1, <1>2, <1>3, <1>4, <1>5, <1>6, <1>7, <1>8, <1>9, <1>10, <1>11 DEF TimeNext

\* Only Propose and CustomerPresent change the version, and only Propose opens
\* a proposal.
LEMMA PageStep == TimeInv /\ [TimeNext]_timeVars => (VersionNamesProposal /\ ShownIsOld)'
  <1> SUFFICES ASSUME TimeInv, [TimeNext]_timeVars PROVE (VersionNamesProposal /\ ShownIsOld)'
    OBVIOUS
  <1>0. VersionNamesProposal /\ ShownIsOld /\ TimeTypeOK
    BY DEF TimeInv
  <1> USE <1>0 DEF VersionNamesProposal, ShownIsOld
  <1>1. CASE CustomerLoads
    BY <1>1 DEF CustomerLoads, agreement, TimeTypeOK, Versions
  <1>2. CASE Accept \/ Decline \/ AnswerLate
    BY <1>2 DEF Accept, Decline, AnswerLate
  <1>3. CASE DeadlinePasses
    BY <1>3 DEF DeadlinePasses
  <1>4. ASSUME NEW s \in Staff, StaffLoads(s) \/ ConfirmRequested(s)
        PROVE  (VersionNamesProposal /\ ShownIsOld)'
    BY <1>4 DEF StaffLoads, ConfirmRequested, agreement
  <1>5. ASSUME NEW s \in Staff, Propose(s) \/ CustomerPresent(s)
        PROVE  (VersionNamesProposal /\ ShownIsOld)'
    <2>1. VersionLeft /\ version' = NextVersion /\ shown' = shown
      BY <1>5 DEF Propose, CustomerPresent
    <2>2. shown.version < NextVersion /\ NextVersion \in Versions
      BY <2>1, VersionMoves
    <2> QED
      BY <2>1, <2>2 DEF TimeTypeOK, Versions
  <1>6. ASSUME NEW new \in {"CONFIRMED", "STARTED", "READY", "CLOSED"}, Progress(new)
        PROVE  (VersionNamesProposal /\ ShownIsOld)'
    BY <1>6 DEF Progress, agreement
  <1>7. CASE UNCHANGED timeVars
    BY <1>7 DEF timeVars, agreement
  <1> QED
    BY <1>1, <1>2, <1>3, <1>4, <1>5, <1>6, <1>7 DEF TimeNext

LEMMA TimeInvariance == TimeSpec => []TimeInv
  <1>1. TimeInv /\ [TimeNext]_timeVars => TimeInv'
    BY TimeTypeStep, RowStep, PageStep DEF TimeInv
  <1> QED
    BY <1>1, TimeInitInv, PTL DEF TimeSpec

-----------------------------------------------------------------------------
\* The variables keep their types, the version included, which the table
\* limits.
THEOREM TimeTypeCorrect == TimeSpec => []TimeTypeOK
  <1>1. TimeInv => TimeTypeOK
    BY DEF TimeInv
  <1> QED
    BY <1>1, TimeInvariance, PTL

\* orders_fulfillment_time_consistency_check refuses no command: every one
\* that passes its own conditions leaves a row the check accepts.
THEOREM RowIsConsistentHolds == TimeSpec => []RowIsConsistent
  <1>1. TimeInv => RowIsConsistent
    BY DEF TimeInv
  <1> QED
    BY <1>1, TimeInvariance, PTL

\* A page with the current version of an open proposal shows that proposal.
THEOREM VersionNamesProposalHolds == TimeSpec => []VersionNamesProposal
  <1>1. TimeInv => VersionNamesProposal
    BY DEF TimeInv
  <1> QED
    BY <1>1, TimeInvariance, PTL

\* respond_to_fulfillment_time commits the time on the page of the customer.
THEOREM AcceptedAsShownHolds == TimeSpec => AcceptedAsShown
  <1> DEFINE Kept == state = "CUSTOMER_ACTION_REQUIRED" /\ state' = "CONFIRMED"
                       /\ version' = version => committed' = shown.pending
  <1>1. TimeInv /\ [TimeNext]_timeVars => [Kept]_timeVars
    <2> SUFFICES ASSUME TimeInv, [TimeNext]_timeVars, state = "CUSTOMER_ACTION_REQUIRED",
                        state' = "CONFIRMED", version' = version
                 PROVE  committed' = shown.pending
      OBVIOUS
    <2>1. CASE Accept
      BY <2>1 DEF Accept, Answerable, TimeInv, VersionNamesProposal
    <2>2. ASSUME NEW s \in Staff, CustomerPresent(s) PROVE FALSE
      <3>1. VersionLeft /\ version' = NextVersion
        BY <2>2 DEF CustomerPresent
      <3> QED
        BY <3>1, VersionMoves
    <2>3. CASE CustomerLoads \/ Decline \/ AnswerLate \/ DeadlinePasses
      BY <2>3 DEF CustomerLoads, Decline, AnswerLate, DeadlinePasses, agreement
    <2>4. ASSUME NEW s \in Staff, StaffLoads(s) \/ Propose(s) \/ ConfirmRequested(s) PROVE FALSE
      BY <2>4 DEF StaffLoads, Propose, ConfirmRequested, agreement
    <2>5. ASSUME NEW new \in {"CONFIRMED", "STARTED", "READY", "CLOSED"}, Progress(new)
          PROVE  FALSE
      BY <2>5 DEF Progress, agreement
    <2>6. CASE UNCHANGED timeVars
      BY <2>6 DEF timeVars, agreement
    <2> QED
      BY <2>1, <2>2, <2>3, <2>4, <2>5, <2>6 DEF TimeNext
  <1> QED
    BY <1>1, TimeInvariance, PTL DEF TimeSpec, AcceptedAsShown

(***************************************************************************)
(* The code: it names one active order of a date, the unique index never   *)
(* refuses a transaction, and reconciliation changes no code that a        *)
(* customer was given.                                                     *)
(***************************************************************************)

\* The service date, once there is one, is the date of the order, and orders
\* without a code have none.
ServedIsDue ==
    \A o \in Orders :
        /\ served[o] \in {None, due[o]}
        /\ phase[o] = "CODED" => served[o] = due[o]
        /\ phase[o] \in {"ABSENT", "PLACING", "LOCKED"} => served[o] = None

\* A transaction keeps the advisory lock of its date until it ends.
LockIsHeld == \A o \in Orders : phase[o] \in {"LOCKED", "CODED"} => lock[due[o]] = o

\* Orders with a code from the pool of their date, committed or not.
Given(o) == phase[o] = "CODED" \/ (Active(o) /\ served[o] # None)

\* Such a code is one of the pool, and no other active order of the date has
\* it, one from before the migration included.
GivenIsFree ==
    \A o \in Orders : Given(o) =>
        /\ code[o] \in Codes
        /\ \A q \in Orders \ {o} : Active(q) /\ due[q] = due[o] => code[q] # code[o]

\* The inductive invariant.
Inv == TypeOK /\ ServedIsDue /\ LockIsHeld /\ GivenIsFree

-----------------------------------------------------------------------------
\* min(code) of the free codes is one of them.
LEMMA MinIsMember ==
    ASSUME NEW S \in SUBSET Codes, S # {}
    PROVE  Min(S) \in S
  <1>1. S \in SUBSET Nat
    BY PickupConstants DEF Codes
  <1> DEFINE Less == {ss \in Nat \X Nat : ss[1] < ss[2]}
  <1>2. IsWellFoundedOn(Less, Nat)
    BY NatLessThanWellFounded, Zenon DEF OpToRel
  <1>3. \E x \in S : \A y \in S : ~ (<<y, x>> \in Less)
    <2> HIDE DEF Less
    <2> QED
      BY <1>1, <1>2, WFMin
  <1>4. \A x, y \in Nat : ~ (<<y, x>> \in Less) => x <= y
    OBVIOUS
  <1> QED
    BY <1>1, <1>3, <1>4 DEF Min

\* coalesce(...) in assign_daily_pickup_code is the date of the order itself.
LEMMA DateIsDue ==
    ASSUME ServedIsDue, NEW o \in Orders
    PROVE  DateOf(o) = due[o]
  BY DEF ServedIsDue, DateOf

\* What it means that a code is free for an order.
LEMMA FreeMeans ==
    ASSUME ServedIsDue, NEW o \in Orders, NEW c \in Codes
    PROVE  c \in FreeCodes(o, due[o]) <=>
             \A q \in Orders \ {o} : Active(q) /\ due[q] = due[o] => code[q] # c
  <1>1. c # None
    BY PickupConstants DEF Codes
  <1> QED
    BY <1>1, DateIsDue DEF FreeCodes, Taken

LEMMA InitInv == Init => Inv
  <1> SUFFICES ASSUME Init PROVE Inv
    OBVIOUS
  <1>1. TypeOK
    BY PickupConstants DEF Init, TypeOK, Dates
  <1>2. ServedIsDue /\ LockIsHeld /\ GivenIsFree
    BY DEF Init, ServedIsDue, LockIsHeld, GivenIsFree, Given
  <1> QED
    BY <1>1, <1>2 DEF Inv

-----------------------------------------------------------------------------
LEMMA TypeStep == Inv /\ [Next]_vars => TypeOK'
  <1> SUFFICES ASSUME Inv, [Next]_vars PROVE TypeOK'
    OBVIOUS
  <1> USE PickupConstants DEF Inv, TypeOK
  <1>1. ASSUME NEW o \in Orders, Place(o) PROVE TypeOK'
    BY <1>1 DEF Place, Dates
  <1>2. ASSUME NEW o \in Orders, LockDate(o) PROVE TypeOK'
    BY <1>2 DEF LockDate
  <1>3. ASSUME NEW o \in Orders, AssignCode(o) PROVE TypeOK'
    <2>0. FreeCodes(o, due[o]) # {} /\ FreeCodes(o, due[o]) \in SUBSET Codes
      BY <1>3 DEF AssignCode, FreeCodes
    <2>1. Min(FreeCodes(o, due[o])) \in Codes
      BY <2>0, MinIsMember
    <2> QED
      BY <1>3, <2>1 DEF AssignCode
  <1>4. ASSUME NEW o \in Orders, CommitOrder(o) PROVE TypeOK'
    BY <1>4 DEF CommitOrder
  <1>5. ASSUME NEW o \in Orders, RefuseOrder(o) PROVE TypeOK'
    BY <1>5 DEF RefuseOrder
  <1>6. ASSUME NEW o \in Orders, Reconcile(o) PROVE TypeOK'
    <2>0. FreeCodes(o, due[o]) # {} /\ FreeCodes(o, due[o]) \in SUBSET Codes
      BY <1>6 DEF Reconcile, FreeCodes
    <2>1. Min(FreeCodes(o, due[o])) \in Codes
      BY <2>0, MinIsMember
    <2> QED
      BY <1>6, <2>1 DEF Reconcile
  <1>7. ASSUME NEW o \in Orders, MakeReady(o) \/ Close(o) \/ VerifyByNumber(o) PROVE TypeOK'
    BY <1>7 DEF MakeReady, Close, VerifyByNumber
  <1>8. ASSUME NEW c \in Codes, VerifyByCode(c) PROVE TypeOK'
    BY <1>8 DEF VerifyByCode
  <1>9. CASE NextDate
    BY <1>9 DEF NextDate, Dates
  <1>10. CASE UNCHANGED vars
    BY <1>10 DEF vars
  <1> QED
    BY <1>1, <1>2, <1>3, <1>4, <1>5, <1>6, <1>7, <1>8, <1>9, <1>10 DEF Next

LEMMA LockStep == Inv /\ [Next]_vars => (ServedIsDue /\ LockIsHeld)'
  <1> SUFFICES ASSUME Inv, [Next]_vars PROVE (ServedIsDue /\ LockIsHeld)'
    OBVIOUS
  <1> USE PickupConstants DEF Inv, TypeOK, ServedIsDue, LockIsHeld
  <1>1. ASSUME NEW o \in Orders, Place(o) PROVE (ServedIsDue /\ LockIsHeld)'
    BY <1>1 DEF Place
  <1>2. ASSUME NEW o \in Orders, LockDate(o) PROVE (ServedIsDue /\ LockIsHeld)'
    BY <1>2 DEF LockDate, LockFree
  <1>3. ASSUME NEW o \in Orders, AssignCode(o) PROVE (ServedIsDue /\ LockIsHeld)'
    BY <1>3 DEF AssignCode
  <1>4. ASSUME NEW o \in Orders, CommitOrder(o) PROVE (ServedIsDue /\ LockIsHeld)'
    BY <1>4 DEF CommitOrder
  <1>5. ASSUME NEW o \in Orders, RefuseOrder(o) PROVE (ServedIsDue /\ LockIsHeld)'
    BY <1>5 DEF RefuseOrder
  <1>6. ASSUME NEW o \in Orders, Reconcile(o) PROVE (ServedIsDue /\ LockIsHeld)'
    BY <1>6 DEF Reconcile, Active
  <1>7. ASSUME NEW o \in Orders, MakeReady(o) \/ Close(o) \/ VerifyByNumber(o)
        PROVE  (ServedIsDue /\ LockIsHeld)'
    BY <1>7 DEF MakeReady, Close, VerifyByNumber
  <1>8. ASSUME NEW c \in Codes, VerifyByCode(c) PROVE (ServedIsDue /\ LockIsHeld)'
    BY <1>8 DEF VerifyByCode
  <1>9. CASE NextDate
    BY <1>9 DEF NextDate
  <1>10. CASE UNCHANGED vars
    BY <1>10 DEF vars
  <1> QED
    BY <1>1, <1>2, <1>3, <1>4, <1>5, <1>6, <1>7, <1>8, <1>9, <1>10 DEF Next

\* A code is chosen among the committed orders while the lock of the date is
\* held, and nobody commits or reconciles an order of that date meanwhile.
LEMMA FreeStep == Inv /\ [Next]_vars => GivenIsFree'
  <1> SUFFICES ASSUME Inv, [Next]_vars PROVE GivenIsFree'
    OBVIOUS
  <1>0. TypeOK /\ ServedIsDue /\ LockIsHeld /\ GivenIsFree
    BY DEF Inv
  <1> USE <1>0, PickupConstants DEF TypeOK
  <1>1. ASSUME NEW o \in Orders, Place(o) PROVE GivenIsFree'
    BY <1>1 DEF Place, GivenIsFree, Given, Active
  <1>2. ASSUME NEW o \in Orders, LockDate(o) PROVE GivenIsFree'
    BY <1>2 DEF LockDate, GivenIsFree, Given, Active
  <1>3. ASSUME NEW o \in Orders, AssignCode(o) PROVE GivenIsFree'
    <2>1. code'[o] \in FreeCodes(o, due[o]) /\ code'[o] \in Codes
      BY <1>3, MinIsMember DEF AssignCode, FreeCodes
    <2>2. \A q \in Orders \ {o} : Active(q) /\ due[q] = due[o] => code[q] # code'[o]
      BY <2>1, FreeMeans
    <2> QED
      BY <1>3, <2>1, <2>2 DEF AssignCode, GivenIsFree, Given, Active
  <1>4. ASSUME NEW o \in Orders, CommitOrder(o) PROVE GivenIsFree'
    <2>1. Given(o) /\ due' = due /\ code' = code
      BY <1>4 DEF CommitOrder, Given
    <2>2. \A q \in Orders \ {o} : Given(q)' => Given(q)
      BY <1>4 DEF CommitOrder, Given, Active
    <2>3. \A q \in Orders \ {o} : Active(q)' => Active(q)
      BY <1>4 DEF CommitOrder, Active
    <2>4. \A q \in Orders \ {o} : phase[q] = "CODED" => due[q] # due[o]
      BY <1>4 DEF CommitOrder, LockIsHeld
    <2>5. ASSUME NEW q \in Orders \ {o}, Given(q), due[q] = due[o] PROVE code[q] # code[o]
      BY <2>1, <2>4, <2>5 DEF GivenIsFree, Given
    <2> QED
      BY <2>1, <2>2, <2>3, <2>5 DEF GivenIsFree
  <1>5. ASSUME NEW o \in Orders, RefuseOrder(o) PROVE GivenIsFree'
    BY <1>5 DEF RefuseOrder, GivenIsFree, Given, Active
  <1>6. ASSUME NEW o \in Orders, Reconcile(o) PROVE GivenIsFree'
    <2>1. code'[o] \in FreeCodes(o, due[o]) /\ code'[o] \in Codes
      BY <1>6, MinIsMember DEF Reconcile, KeepsCode, FreeCodes
    <2>2. \A q \in Orders \ {o} : Active(q) /\ due[q] = due[o] => code[q] # code'[o]
      BY <2>1, FreeMeans
    <2>3. \A q \in Orders : phase[q] = "CODED" => due[q] # due[o]
      BY <1>6 DEF Reconcile, LockIsHeld
    <2> QED
      BY <1>6, <2>1, <2>2, <2>3 DEF Reconcile, GivenIsFree, Given, Active
  <1>7. ASSUME NEW o \in Orders, MakeReady(o) \/ Close(o) \/ VerifyByNumber(o)
        PROVE  GivenIsFree'
    BY <1>7 DEF MakeReady, Close, VerifyByNumber, GivenIsFree, Given, Active
  <1>8. ASSUME NEW c \in Codes, VerifyByCode(c) PROVE GivenIsFree'
    BY <1>8 DEF VerifyByCode, GivenIsFree, Given, Active
  <1>9. CASE NextDate
    BY <1>9 DEF NextDate, GivenIsFree, Given, Active
  <1>10. CASE UNCHANGED vars
    BY <1>10 DEF vars, GivenIsFree, Given, Active
  <1> QED
    BY <1>1, <1>2, <1>3, <1>4, <1>5, <1>6, <1>7, <1>8, <1>9, <1>10 DEF Next

LEMMA Invariance == Spec => []Inv
  <1>1. Inv /\ [Next]_vars => Inv'
    BY TypeStep, LockStep, FreeStep DEF Inv
  <1> QED
    BY <1>1, InitInv, PTL DEF Spec

-----------------------------------------------------------------------------
\* The variables keep their types: in particular, every code is one of the
\* pool.
THEOREM TypeCorrect == Spec => []TypeOK
  <1>1. Inv => TypeOK
    BY DEF Inv
  <1> QED
    BY <1>1, Invariance, PTL

\* At most one active order of a service date answers to a code.
THEOREM CodeNamesOneOrderHolds == Spec => []CodeNamesOneOrder
  <1>1. Inv => CodeNamesOneOrder
    BY DEF Inv, ServedIsDue, GivenIsFree, Given, Active, CodeNamesOneOrder
  <1> QED
    BY <1>1, Invariance, PTL

\* assign_daily_pickup_code refuses an order only when the pool of its date is
\* used up; the unique index behind it never does.
THEOREM RefusedOnlyWhenFullHolds == Spec => RefusedOnlyWhenFull
  <1> DEFINE Justified == \A o \in Orders : phase[o] # "REFUSED" /\ phase'[o] = "REFUSED"
                              => Taken(o, due[o]) = Codes
  <1>1. Inv /\ [Next]_vars => [Justified]_vars
    <2> SUFFICES ASSUME Inv, [Next]_vars, NEW p \in Orders,
                        phase[p] # "REFUSED", phase'[p] = "REFUSED"
                 PROVE  Taken(p, due[p]) = Codes
      OBVIOUS
    <2> USE PickupConstants DEF Inv, TypeOK
    <2>1. RefuseOrder(p)
      <3>1. ASSUME NEW o \in Orders, RefuseOrder(o) PROVE o = p
        BY <3>1 DEF RefuseOrder
      <3>2. ASSUME NEW o \in Orders,
                   \/ Place(o) \/ LockDate(o) \/ AssignCode(o) \/ CommitOrder(o)
                   \/ Reconcile(o) \/ MakeReady(o) \/ Close(o) \/ VerifyByNumber(o)
            PROVE  FALSE
        BY <3>2 DEF Place, LockDate, AssignCode, CommitOrder, Reconcile, MakeReady, Close,
                    VerifyByNumber
      <3>3. ASSUME NEW c \in Codes, VerifyByCode(c) PROVE FALSE
        BY <3>3 DEF VerifyByCode
      <3>4. ~ NextDate /\ ~ UNCHANGED vars
        BY DEF NextDate, vars
      <3> QED
        BY <3>1, <3>2, <3>3, <3>4 DEF Next
    <2>2. ASSUME phase[p] = "CODED" PROVE IndexAdmits(p, served[p], code[p])
      <3>1. Given(p) /\ served[p] = due[p] /\ served[p] # None
        BY <2>2 DEF Given, ServedIsDue, Dates
      <3>2. \A q \in Orders : served[q] = due[p] => due[q] = due[p]
        BY <3>1 DEF ServedIsDue
      <3> QED
        BY <3>1, <3>2 DEF IndexAdmits, GivenIsFree
    <2>3. FreeCodes(p, due[p]) = {}
      BY <2>1, <2>2 DEF RefuseOrder
    <2>4. Taken(p, due[p]) \subseteq Codes
      BY DEF Taken
    <2> QED
      BY <2>3, <2>4 DEF FreeCodes
  <1> QED
    BY <1>1, Invariance, PTL DEF Spec, RefusedOnlyWhenFull

\* reconcile_active_pickup_codes_targeted may visit an order that has a service
\* date, and leaves its code alone.
THEOREM CodeIsStableHolds == Spec => CodeIsStable
  <1> DEFINE Stable == \A o \in Orders : phase[o] \in {"ACTIVE", "READY"} /\ served[o] # None
                           => code'[o] = code[o]
  <1>1. Inv /\ [Next]_vars => [Stable]_vars
    <2> SUFFICES ASSUME Inv, [Next]_vars, NEW p \in Orders,
                        phase[p] \in {"ACTIVE", "READY"}, served[p] # None
                 PROVE  code'[p] = code[p]
      OBVIOUS
    <2> USE DEF Inv, TypeOK
    <2>1. ASSUME NEW o \in Orders,
                 \/ Place(o) \/ LockDate(o) \/ AssignCode(o) \/ CommitOrder(o) \/ RefuseOrder(o)
                 \/ MakeReady(o) \/ Close(o) \/ VerifyByNumber(o)
          PROVE  code'[p] = code[p]
      BY <2>1 DEF Place, LockDate, AssignCode, CommitOrder, RefuseOrder, MakeReady, Close,
                  VerifyByNumber
    <2>2. ASSUME NEW o \in Orders, Reconcile(o) PROVE code'[p] = code[p]
      <3>1. CASE o # p
        BY <2>2, <3>1 DEF Reconcile
      <3>2. CASE o = p
        <4>1. Given(p)
          BY <2>2, <3>2 DEF Reconcile, Given
        <4>2. code[p] \in FreeCodes(p, due[p])
          BY <4>1, FreeMeans DEF GivenIsFree
        <4> QED
          BY <2>2, <3>2, <4>2 DEF Reconcile, KeepsCode
      <3> QED
        BY <3>1, <3>2
    <2>3. ASSUME NEW c \in Codes, VerifyByCode(c) PROVE code'[p] = code[p]
      BY <2>3 DEF VerifyByCode
    <2>4. CASE NextDate \/ UNCHANGED vars
      BY <2>4 DEF NextDate, vars
    <2> QED
      BY <2>1, <2>2, <2>3, <2>4 DEF Next
  <1> QED
    BY <1>1, Invariance, PTL DEF Spec, CodeIsStable
=============================================================================

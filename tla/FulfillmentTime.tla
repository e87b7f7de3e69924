--------------------------- MODULE FulfillmentTime ---------------------------
(***************************************************************************)
(* The agreement between a stall and a customer about when an order is     *)
(* fulfilled: stalls/.../fulfillment-time/route.ts for staff,              *)
(* public/orders/.../fulfillment-time/route.ts and                         *)
(* respond_to_fulfillment_time (20260805161751) for the customer.          *)
(*                                                                         *)
(* Both sides act on a page they loaded earlier and send the version it    *)
(* showed.  Every command is one transaction that checks the version and   *)
(* writes under the same condition, so it is one step.                     *)
(***************************************************************************)
EXTENDS Integers

CONSTANTS
    Staff, Times,
    NoTime,         \* a time that is null
    MaxVersion      \* the limit of versions, 10000

ASSUME TimeConstants ==
    /\ NoTime \notin Times \cup {"AHEAD", "PASSED"}
    /\ MaxVersion \in Nat \ {0}

VARIABLES
    status,         \* of the order; "STARTED" is PREPARING or PACKING, "CLOSED" a final status
    state,          \* fulfillment_time_state
    version,        \* fulfillment_time_version
    requested,      \* requested_fulfillment_at
    committed,      \* committed_fulfillment_at
    pending,        \* pending_fulfillment_at
    deadline,       \* response_expires_at: NoTime, "AHEAD" or "PASSED"
    kds,            \* kds_module_enabled
    shown,          \* what the page of the customer shows
    page            \* [Staff -> the version on the page of a staff member]

agreement == << state, version, committed, pending, deadline >>
timeVars == << status, agreement, requested, kds, shown, page >>

TimeOrNone == Times \cup {NoTime}
States == {"NOT_REQUESTED", "REQUESTED", "CONFIRMED", "CUSTOMER_ACTION_REQUIRED",
           "DECLINED", "EXPIRED"}
Versions == 0..MaxVersion

TimeTypeOK ==
    /\ status \in {"WAITING_CONFIRMATION", "CONFIRMED", "STARTED", "READY", "CLOSED"}
    /\ state \in States
    /\ version \in Versions
    /\ {requested, committed, pending} \subseteq TimeOrNone
    /\ deadline \in {NoTime, "AHEAD", "PASSED"}
    /\ kds \in BOOLEAN
    /\ shown \in [version : Versions, pending : TimeOrNone]
    /\ page \in [Staff -> Versions]

\* An order with a requested time, or one from before times were requested.
TimeInit ==
    /\ status \in {"WAITING_CONFIRMATION", "CONFIRMED"}
    /\ requested \in TimeOrNone
    /\ IF requested = NoTime THEN state = "NOT_REQUESTED" /\ version = 0
                             ELSE state = "REQUESTED" /\ version = 1
    /\ committed = NoTime /\ pending = NoTime /\ deadline = NoTime
    /\ kds \in BOOLEAN
    /\ shown = [version |-> version, pending |-> NoTime]
    /\ page = [s \in Staff |-> version]

-----------------------------------------------------------------------------
CustomerLoads ==
    /\ shown' = [version |-> version, pending |-> pending]
    /\ UNCHANGED << status, agreement, requested, kds, page >>

StaffLoads(s) ==
    /\ page' = [page EXCEPT ![s] = version]
    /\ UNCHANGED << status, agreement, requested, kds, shown >>

-----------------------------------------------------------------------------
(* Commands of staff.                                                      *)
\* orders_fulfillment_time_version_check
VersionLeft == version < MaxVersion

NextVersion == version + 1

\* PROPOSE: another time, to be answered before a deadline.
Propose(s) ==
    /\ status \in {"WAITING_CONFIRMATION", "CONFIRMED"}
    /\ page[s] = version /\ VersionLeft
    /\ pending' \in Times
    /\ state' = "CUSTOMER_ACTION_REQUIRED"
    /\ version' = NextVersion
    /\ deadline' = "AHEAD"
    /\ UNCHANGED << status, committed, requested, kds, shown, page >>

\* CONFIRM_REQUESTED
ConfirmRequested(s) ==
    /\ status \in {"WAITING_CONFIRMATION", "CONFIRMED"}
    /\ page[s] = version /\ state = "REQUESTED"
    /\ committed' = requested
    /\ state' = "CONFIRMED"
    /\ pending' = NoTime /\ deadline' = NoTime
    /\ UNCHANGED << status, version, requested, kds, shown, page >>

\* CUSTOMER_PRESENT: the customer came while a proposal was open.
CustomerPresent(s) ==
    /\ page[s] = version /\ VersionLeft
    /\ state = "CUSTOMER_ACTION_REQUIRED"
    /\ IF kds THEN status = "READY" ELSE status # "CLOSED"
    /\ status' = "READY"
    /\ committed' \in Times
    /\ state' = "CONFIRMED" /\ version' = NextVersion
    /\ pending' = NoTime /\ deadline' = NoTime
    /\ UNCHANGED << requested, kds, shown, page >>

-----------------------------------------------------------------------------
(* respond_to_fulfillment_time                                             *)
AnswerableAnyVersion == status # "CLOSED" /\ state = "CUSTOMER_ACTION_REQUIRED"
Answerable ==
    status # "CLOSED" /\ state = "CUSTOMER_ACTION_REQUIRED" /\ shown.version = version

\* What is left of the proposal after an answer.
PendingAfter(accepted) == NoTime

Accept ==
    /\ Answerable /\ deadline = "AHEAD"
    /\ committed' = pending
    /\ state' = "CONFIRMED"
    /\ pending' = PendingAfter(TRUE) /\ deadline' = NoTime
    /\ UNCHANGED << status, version, requested, kds, shown, page >>

Decline ==
    /\ Answerable /\ deadline = "AHEAD"
    /\ state' = "DECLINED"
    /\ pending' = PendingAfter(FALSE) /\ deadline' = NoTime
    /\ UNCHANGED << status, version, committed, requested, kds, shown, page >>

\* An answer after the deadline: the proposal expires instead.
AnswerLate ==
    /\ Answerable /\ deadline = "PASSED"
    /\ state' = "EXPIRED"
    /\ pending' = NoTime /\ deadline' = NoTime
    /\ UNCHANGED << status, version, committed, requested, kds, shown, page >>

-----------------------------------------------------------------------------
(* The order and the clock.                                                *)
DeadlinePasses ==
    /\ deadline = "AHEAD" /\ deadline' = "PASSED"
    /\ UNCHANGED << status, state, version, committed, pending, requested, kds, shown, page >>

\* fulfillmentTimeBlocksProduction holds back PREPARING, and nothing else.
Progress(new) ==
    /\ \/ status = "WAITING_CONFIRMATION" /\ new = "CONFIRMED"
       \/ status = "CONFIRMED" /\ new \in {"STARTED", "READY"}
       \/ status = "STARTED" /\ new = "READY"
       \/ status # "CLOSED" /\ new = "CLOSED"
    /\ new = "STARTED" => state \notin {"REQUESTED", "CUSTOMER_ACTION_REQUIRED"}
    /\ status' = new
    /\ UNCHANGED << agreement, requested, kds, shown, page >>

-----------------------------------------------------------------------------
TimeNext ==
    \/ CustomerLoads \/ Accept \/ Decline \/ AnswerLate \/ DeadlinePasses
    \/ \E s \in Staff : StaffLoads(s) \/ Propose(s) \/ ConfirmRequested(s) \/ CustomerPresent(s)
    \/ \E new \in {"CONFIRMED", "STARTED", "READY", "CLOSED"} : Progress(new)

TimeSpec == TimeInit /\ [][TimeNext]_timeVars

-----------------------------------------------------------------------------
(* Properties.                                                             *)

\* The stall is bound only to a time that the customer saw: when a proposal
\* becomes the commitment by an answer, it is the one on the page of the
\* customer, however many proposals staff made in the meantime.
AcceptedAsShown ==
    [][state = "CUSTOMER_ACTION_REQUIRED" /\ state' = "CONFIRMED" /\ version' = version
         => committed' = shown.pending]_timeVars

\* A version names one proposal: a page with the current version of an open
\* proposal shows that proposal.
VersionNamesProposal ==
    state = "CUSTOMER_ACTION_REQUIRED" /\ shown.version = version => shown.pending = pending

\* No command ends in a row that the table refuses
\* (orders_fulfillment_time_consistency_check).
RowIsConsistent ==
    /\ state = "NOT_REQUESTED" => requested = NoTime /\ version = 0
    /\ state # "NOT_REQUESTED" => version >= 1
    /\ state = "REQUESTED" => requested # NoTime
    /\ state = "CONFIRMED" => committed # NoTime
    /\ state = "CUSTOMER_ACTION_REQUIRED" => pending # NoTime /\ deadline # NoTime
    /\ state # "CUSTOMER_ACTION_REQUIRED" => pending = NoTime
    /\ state \in {"CONFIRMED", "DECLINED", "EXPIRED"} => deadline = NoTime
=============================================================================

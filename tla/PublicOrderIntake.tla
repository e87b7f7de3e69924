-------------------------- MODULE PublicOrderIntake --------------------------
(***************************************************************************)
(* Public order intake: a customer's page that submits a cart, times out   *)
(* and retries with the same idempotency key, over Circuit A or B; the     *)
(* request handlers behind both circuits, which run to their end whether   *)
(* or not the page still waits; and the database transaction that creates  *)
(* the order under a lock on its session.                                  *)
(*                                                                         *)
(* Each handler run is a request.  An order row is named by the request    *)
(* whose transaction inserted it, so its key and session are that          *)
(* request's.                                                              *)
(***************************************************************************)
EXTENDS Naturals, FiniteSets

CONSTANTS
    Sessions,       \* order sessions the page may be issued
    Keys,           \* idempotency keys
    Requests,       \* handler runs
    NoSession, NoKey, NoRequest,
    MaxTries        \* requests of one submission: two calls of two circuits each

ASSUME IntakeConstants ==
    /\ NoSession \notin Sessions
    /\ NoKey \notin Keys
    /\ NoRequest \notin Requests
    /\ MaxTries \in Nat \ {0}

VARIABLES
    session,        \* order_sessions.status; "ABSENT" before it is issued
    overdue,        \* the sessions whose expires_at has passed
    orderOf,        \* order_sessions.order_id
    orders,         \* rows of orders
    stage,          \* [Requests -> where the handler stands]
    reqSession,     \* orderSessionToken of the request
    reqKey,         \* idempotencyKey of the request
    answer,         \* the order an answered request names
    afterCommit,    \* history: requests sent when their order was committed
    phase,          \* page: what submitQrOrderCheckout is doing
    pageSession,    \* page: the session it holds
    pageKey,        \* page: key of currentCheckoutIdentity
    awaiting,       \* page: the request whose answer it waits for
    tries           \* page: requests sent for this submission

database == << session, overdue, orderOf, orders >>
handlers == << stage, reqSession, reqKey, answer, afterCommit >>
page == << phase, pageSession, pageKey, awaiting, tries >>
vars == << database, handlers, page >>

SessionStates == {"ABSENT", "ACTIVE", "CONSUMED", "EXPIRED", "REVOKED"}
Stages == {"unused", "arrived", "declined", "admitted", "preflighted", "cleared",
           "stored", "answered", "refused", "errored"}
Phases == {"opening", "ready", "waiting", "confirmed", "failed"}

TypeOK ==
    /\ session \in [Sessions -> SessionStates]
    /\ overdue \subseteq Sessions
    /\ orderOf \in [Sessions -> Requests \cup {NoRequest}]
    /\ orders \subseteq Requests
    /\ stage \in [Requests -> Stages]
    /\ reqSession \in [Requests -> Sessions \cup {NoSession}]
    /\ reqKey \in [Requests -> Keys \cup {NoKey}]
    /\ answer \in [Requests -> Requests \cup {NoRequest}]
    /\ afterCommit \subseteq Requests
    /\ phase \in Phases
    /\ pageSession \in Sessions \cup {NoSession}
    /\ pageKey \in Keys \cup {NoKey}
    /\ awaiting \in Requests \cup {NoRequest}
    /\ tries \in 0..MaxTries

Init ==
    /\ session = [s \in Sessions |-> "ABSENT"]
    /\ overdue = {}
    /\ orderOf = [s \in Sessions |-> NoRequest]
    /\ orders = {}
    /\ stage = [r \in Requests |-> "unused"]
    /\ reqSession = [r \in Requests |-> NoSession]
    /\ reqKey = [r \in Requests |-> NoKey]
    /\ answer = [r \in Requests |-> NoRequest]
    /\ afterCommit = {}
    /\ phase = "opening"
    /\ pageSession = NoSession
    /\ pageKey = NoKey
    /\ awaiting = NoRequest
    /\ tries = 0

-----------------------------------------------------------------------------
(* The page                                                                 *)

\* The session controller obtains a session, at first or after the customer
\* rotates an old one.  The checkout identity survives the rotation.
OpenSession(s) ==
    /\ phase \in {"opening", "ready", "failed"}
    /\ session[s] = "ABSENT"
    /\ session' = [session EXCEPT ![s] = "ACTIVE"]
    /\ pageSession' = s
    /\ phase' = "ready"
    /\ UNCHANGED << overdue, orderOf, orders, handlers, pageKey, awaiting, tries >>

MatchesAnyKey(o, s, k) == o \in orders /\ orderOf[s] = o
\* The order that a request with this session and key would find already
\* committed: lookup_public_order_idempotency.
Matches(o, s, k) == o \in orders /\ orderOf[s] = o /\ reqKey[o] = k
HasOrder(s, k) == \E o \in Requests : Matches(o, s, k)

\* Whether the order of this session and key is committed, found or not.
Committed(s, k) == \E o \in orders : reqSession[o] = s /\ reqKey[o] = k

Send(r, s, k) ==
    /\ stage[r] = "unused"
    /\ stage' = [stage EXCEPT ![r] = "arrived"]
    /\ reqSession' = [reqSession EXCEPT ![r] = s]
    /\ reqKey' = [reqKey EXCEPT ![r] = k]
    /\ afterCommit' = IF Committed(s, k) THEN afterCommit \cup {r} ELSE afterCommit
    /\ awaiting' = r
    /\ UNCHANGED answer

\* resolveQrCheckoutIdentity: the key is kept while the cart is the same, and
\* is a fresh one otherwise or after clearCheckoutIdentity.
FreshKeys == {k \in Keys : k # pageKey /\ \A r \in Requests : reqKey[r] # k}

Submit(r, k) ==
    /\ phase \in {"ready", "failed"}
    /\ k \in FreshKeys \/ (k = pageKey /\ k # NoKey)
    /\ Cardinality({q \in Requests : stage[q] = "unused"}) >= MaxTries
    /\ Send(r, pageSession, k)
    /\ phase' = "waiting"
    /\ pageKey' = k
    /\ tries' = 1
    /\ UNCHANGED << database, pageSession >>

\* The page stops waiting (timeout, transport failure, or an infrastructure
\* answer) and sends the same body again: requestCircuitB, or the second call
\* of defaultRequestOrder.  The earlier request may still be running, and its
\* answer, if one comes, is dropped.
Retry(r) ==
    /\ phase = "waiting"
    /\ tries < MaxTries
    /\ stage[awaiting] \notin {"declined", "refused"}
    /\ Send(r, pageSession, pageKey)
    /\ tries' = tries + 1
    /\ UNCHANGED << database, phase, pageSession, pageKey >>

\* The last request failed without an answer: networkError is shown.
GiveUp ==
    /\ phase = "waiting"
    /\ tries = MaxTries
    /\ phase' = "failed"
    /\ awaiting' = NoRequest
    /\ tries' = 0
    /\ UNCHANGED << database, handlers, pageSession, pageKey >>

\* A refusal, or an infrastructure error when there is no dual intake, ends the
\* submission with a localized error; an order is navigated to.
Receive ==
    /\ phase = "waiting"
    /\ stage[awaiting] \in {"answered", "declined", "refused", "errored"}
    /\ phase' = IF stage[awaiting] = "answered" THEN "confirmed" ELSE "failed"
    /\ awaiting' = NoRequest
    /\ tries' = 0
    /\ UNCHANGED << database, handlers, pageSession, pageKey >>

-----------------------------------------------------------------------------
(* The handler                                                              *)

Become(r, st) == stage' = [stage EXCEPT ![r] = st]

\* What is decided before the idempotency lookup: the intake flag, the global
\* request gate, and Circuit B's own flag.
Intake(r) ==
    /\ stage[r] = "arrived"
    /\ Become(r, "admitted") \/ Become(r, "declined")
    /\ UNCHANGED << database, reqSession, reqKey, answer, afterCommit, page >>

PreflightAlwaysPasses(r) ==
    /\ stage[r] = "admitted"
    /\ Become(r, "preflighted") \/ Become(r, "refused")
    /\ UNCHANGED << database, reqSession, reqKey, answer, afterCommit, page >>
\* public_order_preflight: a committed order of this session and key is to be
\* replayed; only then come the schedule, capacity and other denials.
Preflight(r) ==
    /\ stage[r] = "admitted"
    /\ \/ \E o \in Requests :
            /\ Matches(o, reqSession[r], reqKey[r])
            /\ answer' = [answer EXCEPT ![r] = o]
            /\ Become(r, "stored")
       \/ /\ ~HasOrder(reqSession[r], reqKey[r])
          /\ Become(r, "preflighted") \/ Become(r, "refused")
          /\ UNCHANGED answer
    /\ UNCHANGED << database, reqSession, reqKey, afterCommit, page >>

\* Customer details, submission gate and Turnstile.
Gates(r) ==
    /\ stage[r] = "preflighted"
    /\ Become(r, "cleared") \/ Become(r, "refused")
    /\ UNCHANGED << database, reqSession, reqKey, answer, afterCommit, page >>

-----------------------------------------------------------------------------
(* create_public_order_with_daily_pickup_code_targeted: one transaction that
   holds the session's row lock from its first statement to its commit.      *)

CreateRefusedByCapacity(r) ==
    /\ Become(r, "refused")
    /\ UNCHANGED << session, orderOf, orders, answer >>

CreateReplays(r) ==
    /\ \E o \in Requests :
        /\ Matches(o, reqSession[r], reqKey[r])
        /\ answer' = [answer EXCEPT ![r] = o]
    /\ Become(r, "stored")
    /\ UNCHANGED << session, orderOf, orders >>

\* SESSION_REPLAYED: the session has been used by another submission.
CreateFindsSessionUsed(r) ==
    /\ ~HasOrder(reqSession[r], reqKey[r])
    /\ session[reqSession[r]] # "ACTIVE"
    /\ Become(r, "refused")
    /\ UNCHANGED << session, orderOf, orders, answer >>

Usable(s) == session[s] = "ACTIVE" /\ s \notin overdue

CreateExpires(r) ==
    /\ ~HasOrder(reqSession[r], reqKey[r])
    /\ session[reqSession[r]] = "ACTIVE" /\ reqSession[r] \in overdue
    /\ session' = [session EXCEPT ![reqSession[r]] = "EXPIRED"]
    /\ Become(r, "refused")
    /\ UNCHANGED << orderOf, orders, answer >>

\* Everything from QR_NOT_ACTIVE to RATE_LIMITED, and the exceptions that roll
\* the transaction back (stock, pickup code capacity).
CreateFailsValidation(r) ==
    /\ ~HasOrder(reqSession[r], reqKey[r])
    /\ Usable(reqSession[r])
    /\ Become(r, "refused")
    /\ UNCHANGED << session, orderOf, orders, answer >>

\* unique (stall_id, idempotency_key)
KeyTaken(k) == \E o \in orders : reqKey[o] = k

\* ORDER_CONFLICT: the key belongs to an order of another session.
CreateConflicts(r) ==
    /\ ~HasOrder(reqSession[r], reqKey[r])
    /\ Usable(reqSession[r])
    /\ KeyTaken(reqKey[r])
    /\ Become(r, "refused")
    /\ UNCHANGED << session, orderOf, orders, answer >>

InsertIgnoringKeys(r) ==
    /\ ~HasOrder(reqSession[r], reqKey[r])
    /\ Usable(reqSession[r])
    /\ orders' = orders \cup {r}
    /\ session' = [session EXCEPT ![reqSession[r]] = "CONSUMED"]
    /\ orderOf' = [orderOf EXCEPT ![reqSession[r]] = r]
    /\ answer' = [answer EXCEPT ![r] = r]
    /\ Become(r, "stored")
InsertUnlinked(r) ==
    /\ ~HasOrder(reqSession[r], reqKey[r])
    /\ Usable(reqSession[r])
    /\ ~KeyTaken(reqKey[r])
    /\ orders' = orders \cup {r}
    /\ session' = [session EXCEPT ![reqSession[r]] = "CONSUMED"]
    /\ answer' = [answer EXCEPT ![r] = r]
    /\ Become(r, "stored")
    /\ UNCHANGED orderOf
CreateInserts(r) ==
    /\ ~HasOrder(reqSession[r], reqKey[r])
    /\ Usable(reqSession[r])
    /\ ~KeyTaken(reqKey[r])
    /\ orders' = orders \cup {r}
    /\ session' = [session EXCEPT ![reqSession[r]] = "CONSUMED"]
    /\ orderOf' = [orderOf EXCEPT ![reqSession[r]] = r]
    /\ answer' = [answer EXCEPT ![r] = r]
    /\ Become(r, "stored")

RevokeActive(revoked) ==
    session' = [s \in Sessions |-> IF s \in revoked THEN "REVOKED" ELSE session[s]]

ActiveSessions == {s \in Sessions : session[s] = "ACTIVE"}

\* orders_refresh_capacity_after_change runs inside the insertion.  When it
\* pauses the stall it revokes every ACTIVE session, the order's own among them,
\* and the update that follows, "where status = 'ACTIVE'", links nothing.
CreateInsertsAndPauses(r) ==
    /\ ~HasOrder(reqSession[r], reqKey[r])
    /\ Usable(reqSession[r])
    /\ ~KeyTaken(reqKey[r])
    /\ orders' = orders \cup {r}
    /\ RevokeActive(ActiveSessions)
    /\ answer' = [answer EXCEPT ![r] = r]
    /\ Become(r, "stored")
    /\ UNCHANGED orderOf

Create(r) ==
    /\ stage[r] = "cleared"
    /\ \/ CreateRefusedByCapacity(r)
       \/ CreateReplays(r)
       \/ CreateFindsSessionUsed(r)
       \/ CreateExpires(r)
       \/ CreateFailsValidation(r)
       \/ CreateConflicts(r)
       \/ CreateInserts(r)
       \/ CreateInsertsAndPauses(r)
    /\ UNCHANGED << overdue, reqSession, reqKey, afterCommit, page >>

-----------------------------------------------------------------------------
\* The pickup code display is rewritten outside the transaction, and then the
\* request is answered.
Respond(r) ==
    /\ stage[r] = "stored"
    /\ Become(r, "answered")
    /\ UNCHANGED << database, reqSession, reqKey, answer, afterCommit, page >>

\* Any call of the handler fails: ORDER_CREATE_ERROR, also after the commit.  (A
\* handler that dies takes no further step, and an answer that is lost is one
\* the page does not wait for: Retry and GiveUp.)
HandlerErrors(r) ==
    /\ stage[r] \in {"arrived", "admitted", "preflighted", "cleared", "stored"}
    /\ Become(r, "errored")
    /\ UNCHANGED << database, reqSession, reqKey, answer, afterCommit, page >>

SessionOverdue(s) ==
    /\ session[s] # "ABSENT" /\ s \notin overdue
    /\ overdue' = overdue \cup {s}
    /\ UNCHANGED << session, orderOf, orders, handlers, page >>

\* The merchant pauses, closes or sells out the stall, or revokes or rotates a QR
\* code; a schedule closes the stall; the load of other orders pauses it.
RevokeSessions ==
    /\ \E revoked \in SUBSET ActiveSessions :
        /\ revoked # {}
        /\ RevokeActive(revoked)
    /\ UNCHANGED << overdue, orderOf, orders, handlers, page >>

Handle(r) == Intake(r) \/ Preflight(r) \/ Gates(r) \/ Create(r) \/ Respond(r)

Next ==
    \/ \E s \in Sessions : OpenSession(s) \/ SessionOverdue(s)
    \/ \E r \in Requests :
        \/ \E k \in Keys : Submit(r, k)
        \/ Retry(r) \/ Handle(r) \/ HandlerErrors(r)
    \/ RevokeSessions
    \/ GiveUp
    \/ Receive

Spec == Init /\ [][Next]_vars

-----------------------------------------------------------------------------
\* Retries, late requests and rotated sessions never give a session two orders.
OneOrderPerSession ==
    \A o, p \in orders : reqSession[o] = reqSession[p] => o = p

\* A submission is taken once, even when its key is sent again under another
\* session after the first answer was lost.
OneOrderPerKey == \A o, p \in orders : reqKey[o] = reqKey[p] => o = p

\* A session is never used up without an order that points back at it, and is
\* never usable again after one, also when the insertion itself revoked it.
SessionMatchesOrder ==
    \A s \in Sessions :
        /\ session[s] = "CONSUMED" => \E o \in orders : orderOf[s] = o /\ reqSession[o] = s
        /\ (\E o \in orders : reqSession[o] = s) => session[s] \in {"CONSUMED", "REVOKED"}

\* The order a customer is sent to is a committed one, taken in the session and
\* under the key of the request that is answered.
AnswerIsOwnOrder ==
    \A r \in Requests :
        stage[r] = "answered" =>
            /\ answer[r] \in orders
            /\ reqKey[answer[r]] = reqKey[r]
            /\ reqSession[answer[r]] = reqSession[r]

\* "If the first response was lost after the database commit, the trusted
\* endpoint returns the committed order instead of creating a duplicate or
\* showing a false error" (qr-order-checkout-controller.ts): a request that is
\* sent when its order is committed may be declined ahead of the lookup (intake
\* flag, global gate), but is not refused by anything after it.  The promise is
\* not kept for a session that its own insertion revoked: the order is not
\* linked, and the lookup misses it.
CommittedOrderIsReturned ==
    \A r \in afterCommit : orderOf[reqSession[r]] # NoRequest => stage[r] # "refused"

\* Seen from outside, intake is a book that takes one order per session and
\* each submission once.
booked == {<< reqSession[o], reqKey[o] >> : o \in orders}
Book == INSTANCE OrderBook WITH Sessions <- Sessions, Keys <- Keys, booked <- booked
ImplementsOrderBook == Book!Spec
=============================================================================

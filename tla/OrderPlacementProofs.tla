------------------------ MODULE OrderPlacementProofs ------------------------
(***************************************************************************)
(* What happens when a customer places an order, for any number of calls,  *)
(* sessions, requests, products and orders: the breaker of the browser     *)
(* (PublicOrderCircuit), the intake that commits the order                 *)
(* (PublicOrderIntake) and the portions it takes (StallStock).             *)
(***************************************************************************)
EXTENDS PublicOrderCircuit, PublicOrderIntake, StallStock, FiniteSetTheorems, TLAPS

(***************************************************************************)
(* The breaker, for every threshold and every timeout below the cooldown.  *)
(*                                                                         *)
(* The argument: whatever opened the breaker while a probe was out did so  *)
(* after the probe had started, so the breaker has been open for at most   *)
(* the probe's age.  A second probe needs the breaker to be open for       *)
(* Cooldown, and no primary request lives that long.                       *)
(***************************************************************************)

OpenedAfterProbe ==
    \A c \in Calls : pc[c] = "probe" /\ state = "OPEN" => sinceOpened <= age[c]

CircuitInv ==
    /\ CircuitTypeOK
    /\ HalfOpenIsFlagged
    /\ AtMostOneProbe
    /\ OpenedAfterProbe

\* When the breaker admits a probe, no earlier probe is in flight.
LEMMA ProbeAllowedMeansNone ==
    ASSUME CircuitInv, ProbeAllowed, NEW c \in Calls
    PROVE  pc[c] # "probe"
  BY CircuitConstants, TimeoutBelowCooldown
     DEF CircuitInv, CircuitTypeOK, ProbeAllowed, HalfOpenIsFlagged, OpenedAfterProbe

LEMMA CircuitInitInv == CircuitInit => CircuitInv
  <1>. SUFFICES ASSUME CircuitInit PROVE CircuitInv
    OBVIOUS
  <1>1. /\ failureCount \in 0..FailureThreshold /\ sinceOpened \in 0..Cooldown
        /\ state \in States
        /\ pc \in [Calls -> CircuitStages] /\ age \in [Calls -> 0..Timeout]
    BY CircuitConstants DEF CircuitInit, States, CircuitStages
  <1>2. probeInFlight \in BOOLEAN /\ edgeUp \in BOOLEAN /\ abandoned \in BOOLEAN
    BY Zenon DEF CircuitInit
  <1>3. HalfOpenIsFlagged /\ AtMostOneProbe /\ OpenedAfterProbe
    BY DEF CircuitInit, HalfOpenIsFlagged, AtMostOneProbe, OpenedAfterProbe
  <1>. QED
    BY <1>1, <1>2, <1>3 DEF CircuitInv, CircuitTypeOK

\* Recording a failure reopens the breaker from now on, or leaves it closed.
LEMMA FailureOpens ==
    ASSUME CircuitTypeOK, RecordInfrastructureFailure
    PROVE  /\ state' \in {"CLOSED", "OPEN"}
           /\ failureCount' \in 0..FailureThreshold
           /\ sinceOpened' \in 0..Cooldown
           /\ state' = "OPEN" => sinceOpened' = 0
           /\ probeInFlight' = FALSE
  <1>. USE CircuitConstants DEF CircuitTypeOK, States, RecordInfrastructureFailure
  <1>1. failureCount' \in 0..FailureThreshold
    OBVIOUS
  <1>2. CASE state = "OPEN"
    <2>1. failureCount \in Nat
      OBVIOUS
    <2>2. state' \in {"OPEN", state}
      OBVIOUS
    <2>. QED
      BY <1>1, <1>2, <2>2
  <1>3. CASE state # "OPEN"
    BY <1>1, <1>3
  <1>. QED
    BY <1>2, <1>3

\* A call that is not a probe afterwards, in a breaker that has not been
\* touched or has been reset, disturbs nothing.
LEMMA CircuitStepInv ==
    ASSUME CircuitInv, NEW c \in Calls, Step(c) \/ Abort(c)
    PROVE  CircuitInv'
  <1>. USE CircuitConstants
  <1>1. CASE BeginClosed(c)
    BY <1>1 DEF BeginClosed, breaker, CircuitInv, CircuitTypeOK, CircuitStages, HalfOpenIsFlagged, AtMostOneProbe,
                OpenedAfterProbe
  <1>2. CASE BeginProbe(c)
    <2>1. \A d \in Calls : pc[d] # "probe"
      BY <1>2, ProbeAllowedMeansNone DEF BeginProbe
    <2>0. probeInFlight' \in BOOLEAN /\ edgeUp' \in BOOLEAN /\ abandoned' \in BOOLEAN
      BY <1>2, Zenon DEF BeginProbe, CircuitInv, CircuitTypeOK
    <2>2. CircuitTypeOK'
      BY <1>2, <2>0 DEF BeginProbe, CircuitInv, CircuitTypeOK, States, CircuitStages
    <2>3. HalfOpenIsFlagged' /\ AtMostOneProbe' /\ OpenedAfterProbe'
      BY <1>2, <2>1 DEF BeginProbe, CircuitInv, CircuitTypeOK, HalfOpenIsFlagged, AtMostOneProbe,
                        OpenedAfterProbe
    <2>. QED
      BY <2>2, <2>3 DEF CircuitInv
  <1>3. CASE BeginDenied(c) \/ BackupEnds(c)
    BY <1>3 DEF BeginDenied, BackupEnds, breaker, CircuitInv, CircuitTypeOK, CircuitStages,
                HalfOpenIsFlagged, AtMostOneProbe, OpenedAfterProbe
  <1>4. CASE ResolveDenied(c) \/ ResolveFailed(c)
    BY <1>4 DEF ResolveDenied, ResolveFailed, breaker, CircuitInv, CircuitTypeOK, CircuitStages,
                HalfOpenIsFlagged, AtMostOneProbe, OpenedAfterProbe
  <1>5. CASE PrimaryAnswers(c)
    <2>1. probeInFlight' \in BOOLEAN /\ edgeUp' \in BOOLEAN /\ abandoned' \in BOOLEAN
      BY <1>5, Zenon DEF PrimaryAnswers, RecordSuccess, CircuitInv, CircuitTypeOK
    <2>2. CircuitTypeOK'
      BY <1>5, <2>1 DEF PrimaryAnswers, RecordSuccess, CircuitInv, CircuitTypeOK, States, CircuitStages
    <2>3. HalfOpenIsFlagged' /\ AtMostOneProbe' /\ OpenedAfterProbe'
      BY <1>5 DEF PrimaryAnswers, RecordSuccess, CircuitInv, CircuitTypeOK, HalfOpenIsFlagged, AtMostOneProbe,
                  OpenedAfterProbe
    <2>. QED
      BY <2>2, <2>3 DEF CircuitInv
  <1>6. CASE PrimaryFails(c)
    <2>1. /\ state' \in {"CLOSED", "OPEN"}
          /\ failureCount' \in 0..FailureThreshold
          /\ sinceOpened' \in 0..Cooldown
          /\ state' = "OPEN" => sinceOpened' = 0
          /\ probeInFlight' = FALSE
      BY <1>6, FailureOpens DEF PrimaryFails, CircuitInv
    <2>2. /\ pc' = [pc EXCEPT ![c] = "failed"]
          /\ age' = [age EXCEPT ![c] = 0]
          /\ edgeUp' = edgeUp /\ abandoned' = abandoned
      BY <1>6 DEF PrimaryFails
    <2>3. probeInFlight' \in BOOLEAN /\ edgeUp' \in BOOLEAN /\ abandoned' \in BOOLEAN
      BY <2>1, <2>2, Zenon DEF CircuitInv, CircuitTypeOK
    <2>4. CircuitTypeOK'
      BY <2>1, <2>2, <2>3 DEF CircuitInv, CircuitTypeOK, States, CircuitStages
    <2>5. HalfOpenIsFlagged' /\ AtMostOneProbe' /\ OpenedAfterProbe'
      BY <2>1, <2>2 DEF CircuitInv, CircuitTypeOK, HalfOpenIsFlagged, AtMostOneProbe, OpenedAfterProbe
    <2>. QED
      BY <2>4, <2>5 DEF CircuitInv
  <1>7. CASE Abort(c)
    <2>1. abandoned' \in BOOLEAN
      BY <1>7, Zenon DEF Abort
    <2>2. /\ pc' = [pc EXCEPT ![c] = "idle"]
          /\ age' = [age EXCEPT ![c] = 0]
          /\ UNCHANGED << state, failureCount, sinceOpened, probeInFlight, edgeUp >>
      BY <1>7 DEF Abort, breaker
    <2>. QED
      BY <2>1, <2>2 DEF CircuitInv, CircuitTypeOK, CircuitStages, HalfOpenIsFlagged, AtMostOneProbe, OpenedAfterProbe
  <1>. QED
    BY <1>1, <1>2, <1>3, <1>4, <1>5, <1>6, <1>7 DEF Step

\* The open breaker and the probe grow old together.
LEMMA CircuitTickInv ==
    ASSUME CircuitInv, Tick
    PROVE  CircuitInv'
  <1>. USE CircuitConstants DEF Tick, AtPrimary, CircuitInv, CircuitTypeOK
  <1>1. CircuitTypeOK'
    OBVIOUS
  <1>2. HalfOpenIsFlagged' /\ AtMostOneProbe'
    BY DEF HalfOpenIsFlagged, AtMostOneProbe
  <1>3. OpenedAfterProbe'
    BY DEF OpenedAfterProbe
  <1>. QED
    BY <1>1, <1>2, <1>3

LEMMA CircuitInvariance == CircuitSpec => []CircuitInv
  <1>1. CircuitInv /\ [CircuitNext]_circuitVars => CircuitInv'
    <2>. SUFFICES ASSUME CircuitInv, [CircuitNext]_circuitVars
                  PROVE  CircuitInv'
      OBVIOUS
    <2>1. CASE EdgeChanges
      BY <2>1 DEF EdgeChanges, breaker, CircuitInv, CircuitTypeOK, HalfOpenIsFlagged, AtMostOneProbe,
                  OpenedAfterProbe
    <2>2. CASE UNCHANGED circuitVars
      BY <2>2 DEF circuitVars, breaker, CircuitInv, CircuitTypeOK, HalfOpenIsFlagged, AtMostOneProbe,
                  OpenedAfterProbe
    <2>. QED
      BY <2>1, <2>2, CircuitStepInv, CircuitTickInv DEF CircuitNext
  <1>. QED
    BY CircuitInitInv, <1>1, PTL DEF CircuitSpec

\* The breaker, the calls and their timers keep their types.
THEOREM CircuitTypeCorrect == CircuitSpec => []CircuitTypeOK
  BY CircuitInvariance, PTL DEF CircuitInv

\* Two half-open probes are never in flight, whatever older calls record
\* meanwhile and whether or not callers abort.
THEOREM AtMostOneProbeHolds == CircuitSpec => []AtMostOneProbe
  BY CircuitInvariance, PTL DEF CircuitInv

\* Half-open state is always flagged, so the branch of allowRequest that admits
\* a probe in half-open state is never taken.
THEOREM HalfOpenIsFlaggedHolds == CircuitSpec => []HalfOpenIsFlagged
  BY CircuitInvariance, PTL DEF CircuitInv

\* Half-open state has a probe in flight whose outcome will end it, unless the
\* caller aborted that probe.
THEOREM HalfOpenHasProbeHolds == CircuitSpec => []HalfOpenHasProbe
  <1>1. CircuitInit => HalfOpenHasProbe
    BY DEF CircuitInit, HalfOpenHasProbe
  <1>2. CircuitInv /\ HalfOpenHasProbe /\ [CircuitNext]_circuitVars => HalfOpenHasProbe'
    <2>. SUFFICES ASSUME CircuitInv, HalfOpenHasProbe, [CircuitNext]_circuitVars, state' = "HALF_OPEN",
                         ~abandoned'
                  PROVE  \E c \in Calls : pc'[c] = "probe"
      BY DEF HalfOpenHasProbe
    <2>1. CASE EdgeChanges \/ Tick \/ UNCHANGED circuitVars
      BY <2>1 DEF EdgeChanges, Tick, circuitVars, breaker, HalfOpenHasProbe
    <2>2. ASSUME NEW c \in Calls, BeginProbe(c)
          PROVE  \E d \in Calls : pc'[d] = "probe"
      BY <2>2 DEF BeginProbe, CircuitInv, CircuitTypeOK
    <2>3. ASSUME NEW c \in Calls, PrimaryAnswers(c) \/ PrimaryFails(c)
          PROVE  FALSE
      BY <2>3, FailureOpens DEF PrimaryAnswers, RecordSuccess, PrimaryFails, CircuitInv
    <2>4. ASSUME NEW c \in Calls,
                 \/ BeginClosed(c) \/ BeginDenied(c) \/ ResolveDenied(c)
                 \/ ResolveFailed(c) \/ BackupEnds(c)
          PROVE  \E d \in Calls : pc'[d] = "probe"
      <3>1. state = "HALF_OPEN" /\ pc[c] # "probe" /\ \A d \in Calls \ {c} : pc'[d] = pc[d]
        BY <2>4 DEF BeginClosed, BeginDenied, ResolveDenied, ResolveFailed, BackupEnds, breaker,
                    CircuitInv, CircuitTypeOK
      <3>2. ~abandoned
        BY <2>4, Zenon DEF BeginClosed, BeginDenied, ResolveDenied, ResolveFailed, BackupEnds
      <3>. QED
        BY <3>1, <3>2 DEF HalfOpenHasProbe
    <2>5. ASSUME NEW c \in Calls, Abort(c)
          PROVE  \E d \in Calls : pc'[d] = "probe"
      <3>1. ~abandoned /\ pc[c] # "probe" /\ state = "HALF_OPEN"
        BY <2>5, Zenon DEF Abort, breaker
      <3>. QED
        BY <3>1, <2>5 DEF Abort, HalfOpenHasProbe, CircuitInv, CircuitTypeOK
    <2>. QED
      BY <2>1, <2>2, <2>3, <2>4, <2>5 DEF CircuitNext, Step
  <1>. QED
    BY CircuitInvariance, <1>1, <1>2, PTL DEF CircuitSpec

(***************************************************************************)
(* The intake, for any number of retries.                                  *)
(*                                                                         *)
(* The argument: a session that has taken an order is CONSUMED and points  *)
(* at it, or was REVOKED by the insertion; it is never ACTIVE again.  A    *)
(* request that finds no order of its own therefore either finds the       *)
(* session closed, or finds an ACTIVE session that no order names.         *)
(***************************************************************************)

\* An order closes its session, and a CONSUMED session and its order point at
\* each other.
OrdersLinked ==
    /\ \A o \in orders : /\ stage[o] # "unused"
                         /\ session[reqSession[o]] \in {"CONSUMED", "REVOKED"}
    /\ \A s \in Sessions : orderOf[s] # NoRequest =>
           /\ orderOf[s] \in orders
           /\ reqSession[orderOf[s]] = s
           /\ session[s] = "CONSUMED"
    /\ \A s \in Sessions : session[s] = "CONSUMED" => orderOf[s] # NoRequest

\* A request that has been sent carries an issued session and a key.
RequestsSent ==
    \A r \in Requests : stage[r] # "unused" =>
        /\ reqSession[r] \in Sessions
        /\ reqKey[r] \in Keys

\* A page that may submit holds a session; one that waits also has sent
\* something under a key.
PageHolds ==
    /\ phase # "opening" => pageSession \in Sessions
    /\ phase = "waiting" => pageKey \in Keys /\ awaiting \in Requests

\* What AnswerIsOwnOrder says, from the moment the order is known.
AnswersOwn ==
    \A r \in Requests : stage[r] \in {"stored", "answered"} =>
        /\ answer[r] \in orders
        /\ reqKey[answer[r]] = reqKey[r]
        /\ reqSession[answer[r]] = reqSession[r]

IInv ==
    /\ TypeOK
    /\ OrdersLinked
    /\ RequestsSent
    /\ PageHolds
    /\ OneOrderPerSession
    /\ OneOrderPerKey
    /\ AnswersOwn

LEMMA InitIInv == Init => IInv
  BY IntakeConstants
     DEF Init, IInv, TypeOK, SessionStates, Stages, Phases, OrdersLinked, RequestsSent,
         PageHolds, OneOrderPerSession, OneOrderPerKey, AnswersOwn

\* Steps that move one sent request forward and touch no table.
LEMMA HandlerStepIInv ==
    ASSUME IInv, NEW r \in Requests,
           Intake(r) \/ Gates(r) \/ Respond(r) \/ HandlerErrors(r)
    PROVE  IInv'
  <1>1. /\ stage[r] # "unused"
        /\ \E st \in Stages :
              /\ stage' = [stage EXCEPT ![r] = st]
              /\ st # "unused"
              /\ st \in {"stored", "answered"} => stage[r] \in {"stored", "answered"}
        /\ UNCHANGED << database, reqSession, reqKey, answer, afterCommit, page >>
    BY DEF Intake, Gates, Respond, HandlerErrors, Become, Stages
  <1>2. TypeOK'
    BY <1>1 DEF database, page, IInv, TypeOK
  <1>3. /\ OrdersLinked' /\ RequestsSent' /\ PageHolds'
        /\ OneOrderPerSession' /\ OneOrderPerKey' /\ AnswersOwn'
    BY <1>1 DEF database, page, IInv, TypeOK, OrdersLinked, RequestsSent, PageHolds,
                OneOrderPerSession, OneOrderPerKey, AnswersOwn
  <1>. QED
    BY <1>2, <1>3 DEF IInv

\* Steps of the page that send nothing, and the clock.
LEMMA PageStepIInv ==
    ASSUME IInv, GiveUp \/ Receive \/ \E s \in Sessions : SessionOverdue(s)
    PROVE  IInv'
  <1>1. UNCHANGED << session, orderOf, orders, handlers, pageSession, pageKey >>
    BY DEF GiveUp, Receive, SessionOverdue, database, page
  <1>2. /\ overdue' \subseteq Sessions
        /\ phase' \in Phases
        /\ awaiting' \in Requests \cup {NoRequest}
        /\ tries' \in 0..MaxTries
        /\ phase' = "waiting" => phase = "waiting" /\ awaiting' = awaiting
        /\ phase' # "opening" => phase # "opening"
    BY IntakeConstants DEF GiveUp, Receive, SessionOverdue, database, page, IInv, TypeOK, Phases
  <1>. QED
    BY <1>1, <1>2 DEF handlers, IInv, TypeOK, OrdersLinked, RequestsSent, PageHolds,
                      OneOrderPerSession, OneOrderPerKey, AnswersOwn

\* A session that is issued had no order, and gets none by being issued.
LEMMA OpenSessionIInv ==
    ASSUME IInv, NEW s \in Sessions, OpenSession(s)
    PROVE  IInv'
  <1>1. TypeOK'
    BY DEF OpenSession, handlers, IInv, TypeOK, SessionStates, Phases
  <1>2. OrdersLinked'
    BY DEF OpenSession, handlers, IInv, TypeOK, OrdersLinked
  <1>3. RequestsSent' /\ PageHolds' /\ OneOrderPerSession' /\ OneOrderPerKey' /\ AnswersOwn'
    BY DEF OpenSession, handlers, IInv, RequestsSent, PageHolds, OneOrderPerSession,
           OneOrderPerKey, AnswersOwn
  <1>. QED
    BY <1>1, <1>2, <1>3 DEF IInv

\* Only ACTIVE sessions are revoked, and those have no order.
LEMMA RevokeSessionsIInv ==
    ASSUME IInv, RevokeSessions
    PROVE  IInv'
  <1>1. PICK revoked \in SUBSET ActiveSessions : RevokeActive(revoked)
    BY DEF RevokeSessions
  <1>2. UNCHANGED << overdue, orderOf, orders, handlers, page >>
    BY DEF RevokeSessions
  <1>3. \A s \in Sessions :
           /\ session'[s] \in {session[s], "REVOKED"}
           /\ session'[s] # session[s] => session[s] = "ACTIVE"
    BY <1>1 DEF RevokeActive, ActiveSessions
  <1>4. TypeOK'
    BY <1>1, <1>2 DEF RevokeActive, handlers, page, IInv, TypeOK, SessionStates
  <1>5. OrdersLinked'
    BY <1>2, <1>3 DEF handlers, IInv, TypeOK, OrdersLinked, RequestsSent
  <1>6. RequestsSent' /\ PageHolds' /\ OneOrderPerSession' /\ OneOrderPerKey' /\ AnswersOwn'
    BY <1>2 DEF handlers, page, IInv, RequestsSent, PageHolds, OneOrderPerSession,
                OneOrderPerKey, AnswersOwn
  <1>. QED
    BY <1>4, <1>5, <1>6 DEF IInv

\* Sending gives an unused request its session and key.  No order is unused,
\* so no order changes its session or key.
LEMMA SendIInv ==
    ASSUME IInv, NEW r \in Requests, NEW k \in Keys, Send(r, pageSession, k),
           phase' = "waiting", pageKey' = k, tries' \in 0..MaxTries, pageSession \in Sessions,
           UNCHANGED << database, pageSession >>
    PROVE  IInv'
  <1>1. /\ stage[r] = "unused" /\ r \notin orders
        /\ stage' = [stage EXCEPT ![r] = "arrived"]
        /\ reqSession' = [reqSession EXCEPT ![r] = pageSession]
        /\ reqKey' = [reqKey EXCEPT ![r] = k]
        /\ awaiting' = r /\ answer' = answer
        /\ UNCHANGED << session, overdue, orderOf, orders, pageSession >>
    BY DEF Send, database, IInv, OrdersLinked
  <1>2. afterCommit' \subseteq Requests
    BY DEF Send, IInv, TypeOK
  <1>3. \A o \in orders : /\ o # r
                          /\ stage'[o] = stage[o]
                          /\ reqSession'[o] = reqSession[o]
                          /\ reqKey'[o] = reqKey[o]
    BY <1>1 DEF IInv, TypeOK
  <1>4. TypeOK'
    BY <1>1, <1>2 DEF IInv, TypeOK, Stages, Phases
  <1>5. OrdersLinked' /\ OneOrderPerSession' /\ OneOrderPerKey'
    BY <1>1, <1>3 DEF IInv, TypeOK, OrdersLinked, OneOrderPerSession,
                      OneOrderPerKey
  <1>6. RequestsSent' /\ PageHolds'
    BY <1>1 DEF IInv, TypeOK, RequestsSent, PageHolds
  <1>7. AnswersOwn'
    BY <1>1, <1>3 DEF IInv, TypeOK, AnswersOwn
  <1>. QED
    BY <1>4, <1>5, <1>6, <1>7 DEF IInv

LEMMA SubmitRetryIInv ==
    ASSUME IInv, NEW r \in Requests, Retry(r) \/ \E k \in Keys : Submit(r, k)
    PROVE  IInv'
  <1>1. CASE Retry(r)
    <2>1. /\ pageKey \in Keys /\ pageSession \in Sessions
          /\ tries' \in 0..MaxTries
      BY <1>1, IntakeConstants DEF Retry, IInv, TypeOK, PageHolds
    <2>. QED
      BY <1>1, <2>1, SendIInv DEF Retry
  <1>2. ASSUME NEW k \in Keys, Submit(r, k)
        PROVE  IInv'
    <2>1. pageSession \in Sessions /\ tries' \in 0..MaxTries
      BY <1>2, IntakeConstants DEF Submit, IInv, PageHolds
    <2>. QED
      BY <1>2, <2>1, SendIInv DEF Submit
  <1>. QED
    BY <1>1, <1>2

\* Preflight answers only with the order that the request's session names.
LEMMA PreflightIInv ==
    ASSUME IInv, NEW r \in Requests, Preflight(r)
    PROVE  IInv'
  <1>1. /\ UNCHANGED << session, overdue, orderOf, orders, reqSession, reqKey, afterCommit >>
        /\ UNCHANGED << phase, pageSession, pageKey, awaiting, tries >>
        /\ stage[r] = "admitted"
    BY DEF Preflight, database, page
  <1>2. CASE \E o \in Requests : /\ Matches(o, reqSession[r], reqKey[r])
                                 /\ answer' = [answer EXCEPT ![r] = o]
                                 /\ Become(r, "stored")
    <2>1. PICK o \in Requests : /\ Matches(o, reqSession[r], reqKey[r])
                                /\ answer' = [answer EXCEPT ![r] = o]
                                /\ Become(r, "stored")
      BY <1>2
    <2>2. /\ o \in orders
          /\ reqKey[o] = reqKey[r]
          /\ reqSession[o] = reqSession[r]
      BY <1>1, <2>1, IntakeConstants DEF Matches, IInv, OrdersLinked, RequestsSent
    <2>3. TypeOK'
      BY <1>1, <2>1 DEF Become, IInv, TypeOK, Stages
    <2>4. OrdersLinked' /\ RequestsSent' /\ PageHolds' /\ OneOrderPerSession' /\ OneOrderPerKey'
      BY <1>1, <2>1 DEF Become, IInv, TypeOK, OrdersLinked, RequestsSent, PageHolds,
                        OneOrderPerSession, OneOrderPerKey
    <2>5. AnswersOwn'
      BY <1>1, <2>1, <2>2 DEF Become, IInv, TypeOK, AnswersOwn
    <2>. QED
      BY <2>3, <2>4, <2>5 DEF IInv
  <1>3. CASE /\ Become(r, "preflighted") \/ Become(r, "refused")
             /\ UNCHANGED answer
    <2>1. TypeOK'
      BY <1>1, <1>3 DEF Become, IInv, TypeOK, Stages
    <2>2. /\ OrdersLinked' /\ RequestsSent' /\ PageHolds'
          /\ OneOrderPerSession' /\ OneOrderPerKey' /\ AnswersOwn'
      BY <1>1, <1>3 DEF Become, IInv, TypeOK, OrdersLinked, RequestsSent, PageHolds,
                        OneOrderPerSession, OneOrderPerKey, AnswersOwn
    <2>. QED
      BY <2>1, <2>2 DEF IInv
  <1>. QED
    BY <1>2, <1>3 DEF Preflight

\* What the transaction's insertion relies on: its session has no order.
LEMMA UsableHasNoOrder ==
    ASSUME IInv, NEW s \in Sessions, Usable(s)
    PROVE  /\ orderOf[s] = NoRequest
           /\ \A o \in orders : reqSession[o] # s
  <1>1. orderOf[s] = NoRequest
    BY DEF Usable, IInv, OrdersLinked
  <1>2. \A o \in orders : reqSession[o] # s
    BY DEF Usable, IInv, OrdersLinked
  <1>. QED
    BY <1>1, <1>2

LEMMA CreateInsertsIInv ==
    ASSUME IInv, NEW r \in Requests, stage[r] = "cleared", CreateInserts(r),
           UNCHANGED << overdue, reqSession, reqKey, afterCommit, page >>
    PROVE  IInv'
  <1>1. /\ orders' = orders \cup {r}
        /\ session' = [session EXCEPT ![reqSession[r]] = "CONSUMED"]
        /\ orderOf' = [orderOf EXCEPT ![reqSession[r]] = r]
        /\ answer' = [answer EXCEPT ![r] = r]
        /\ stage' = [stage EXCEPT ![r] = "stored"]
        /\ UNCHANGED << overdue, reqSession, reqKey, afterCommit >>
        /\ UNCHANGED << phase, pageSession, pageKey, awaiting, tries >>
    BY DEF CreateInserts, Become, page
  <1>2. /\ reqSession[r] \in Sessions
        /\ reqKey[r] \in Keys
    BY DEF IInv, RequestsSent
  <1>3. /\ orderOf[reqSession[r]] = NoRequest
        /\ \A o \in orders : reqSession[o] # reqSession[r]
    BY <1>2, UsableHasNoOrder DEF CreateInserts
  <1>4. \A o \in orders : reqKey[o] # reqKey[r]
    BY DEF CreateInserts, KeyTaken
  <1>5. TypeOK'
    BY <1>1, <1>2 DEF IInv, TypeOK, SessionStates, Stages
  <1>6. OrdersLinked'
    <2>1. \A o \in orders' : /\ stage'[o] # "unused"
                             /\ session'[reqSession'[o]] \in {"CONSUMED", "REVOKED"}
      BY <1>1, <1>2, <1>3 DEF IInv, TypeOK, OrdersLinked, RequestsSent
    <2>2. \A s \in Sessions : orderOf'[s] # NoRequest =>
             orderOf'[s] \in orders' /\ reqSession'[orderOf'[s]] = s /\ session'[s] = "CONSUMED"
      BY <1>1, <1>2 DEF IInv, TypeOK, OrdersLinked
    <2>3. \A s \in Sessions : session'[s] = "CONSUMED" => orderOf'[s] # NoRequest
      BY <1>1, <1>2, IntakeConstants DEF IInv, TypeOK, OrdersLinked
    <2>. QED
      BY <2>1, <2>2, <2>3 DEF OrdersLinked
  <1>7. OneOrderPerSession' /\ OneOrderPerKey'
    BY <1>1, <1>3, <1>4 DEF IInv, OneOrderPerSession, OneOrderPerKey
  <1>8. RequestsSent' /\ PageHolds'
    BY <1>1 DEF IInv, TypeOK, RequestsSent, PageHolds
  <1>9. AnswersOwn'
    BY <1>1 DEF IInv, TypeOK, AnswersOwn
  <1>. QED
    BY <1>5, <1>6, <1>7, <1>8, <1>9 DEF IInv

\* The same when the insertion revokes its own session instead of linking it.
LEMMA CreateInsertsAndPausesIInv ==
    ASSUME IInv, NEW r \in Requests, stage[r] = "cleared", CreateInsertsAndPauses(r),
           UNCHANGED << overdue, reqSession, reqKey, afterCommit, page >>
    PROVE  IInv'
  <1>1. /\ orders' = orders \cup {r}
        /\ RevokeActive(ActiveSessions)
        /\ answer' = [answer EXCEPT ![r] = r]
        /\ stage' = [stage EXCEPT ![r] = "stored"]
        /\ UNCHANGED << orderOf, overdue, reqSession, reqKey, afterCommit >>
        /\ UNCHANGED << phase, pageSession, pageKey, awaiting, tries >>
    BY DEF CreateInsertsAndPauses, Become, page
  <1>2. reqSession[r] \in Sessions /\ reqKey[r] \in Keys
    BY DEF IInv, RequestsSent
  <1>3. /\ session[reqSession[r]] = "ACTIVE"
        /\ \A o \in orders : reqSession[o] # reqSession[r]
    BY <1>2, UsableHasNoOrder DEF CreateInsertsAndPauses, Usable
  <1>4. \A o \in orders : reqKey[o] # reqKey[r]
    BY DEF CreateInsertsAndPauses, KeyTaken
  <1>5. \A s \in Sessions :
           session'[s] = IF session[s] = "ACTIVE" THEN "REVOKED" ELSE session[s]
    BY <1>1 DEF RevokeActive, ActiveSessions
  <1>6. TypeOK'
    BY <1>1 DEF RevokeActive, IInv, TypeOK, SessionStates, Stages
  <1>7. OrdersLinked'
    BY <1>1, <1>2, <1>3, <1>5 DEF IInv, TypeOK, OrdersLinked, RequestsSent
  <1>8. OneOrderPerSession' /\ OneOrderPerKey'
    BY <1>1, <1>3, <1>4 DEF IInv, OneOrderPerSession, OneOrderPerKey
  <1>9. RequestsSent' /\ PageHolds'
    BY <1>1 DEF IInv, TypeOK, RequestsSent, PageHolds
  <1>10. AnswersOwn'
    BY <1>1 DEF IInv, TypeOK, AnswersOwn
  <1>. QED
    BY <1>6, <1>7, <1>8, <1>9, <1>10 DEF IInv

LEMMA CreateIInv ==
    ASSUME IInv, NEW r \in Requests, Create(r)
    PROVE  IInv'
  <1>1. /\ stage[r] = "cleared"
        /\ UNCHANGED << overdue, reqSession, reqKey, afterCommit, page >>
    BY DEF Create
  <1>2. reqSession[r] \in Sessions /\ reqKey[r] \in Keys
    BY <1>1 DEF IInv, RequestsSent
  <1>3. CASE /\ Become(r, "refused")
             /\ UNCHANGED << session, orderOf, orders, answer >>
    <2>1. TypeOK'
      BY <1>1, <1>3 DEF Become, page, IInv, TypeOK, Stages
    <2>2. /\ OrdersLinked' /\ RequestsSent' /\ PageHolds'
          /\ OneOrderPerSession' /\ OneOrderPerKey' /\ AnswersOwn'
      BY <1>1, <1>3 DEF Become, page, IInv, TypeOK, OrdersLinked, RequestsSent, PageHolds,
                        OneOrderPerSession, OneOrderPerKey, AnswersOwn
    <2>. QED
      BY <2>1, <2>2 DEF IInv
  <1>4. CASE CreateReplays(r)
    <2>1. PICK o \in Requests : /\ Matches(o, reqSession[r], reqKey[r])
                                /\ answer' = [answer EXCEPT ![r] = o]
      BY <1>4 DEF CreateReplays
    <2>2. /\ stage' = [stage EXCEPT ![r] = "stored"]
          /\ UNCHANGED << session, orderOf, orders >>
      BY <1>4 DEF CreateReplays, Become
    <2>3. /\ o \in orders
          /\ reqKey[o] = reqKey[r]
          /\ reqSession[o] = reqSession[r]
      BY <1>2, <2>1, IntakeConstants DEF Matches, IInv, OrdersLinked
    <2>4. TypeOK'
      BY <1>1, <2>1, <2>2 DEF page, IInv, TypeOK, Stages
    <2>5. OrdersLinked' /\ RequestsSent' /\ PageHolds' /\ OneOrderPerSession' /\ OneOrderPerKey'
      BY <1>1, <2>2 DEF page, IInv, TypeOK, OrdersLinked, RequestsSent, PageHolds,
                        OneOrderPerSession, OneOrderPerKey
    <2>6. AnswersOwn'
      BY <1>1, <2>1, <2>2, <2>3 DEF IInv, TypeOK, AnswersOwn
    <2>. QED
      BY <2>4, <2>5, <2>6 DEF IInv
  <1>5. CASE CreateExpires(r)
    <2>1. /\ session' = [session EXCEPT ![reqSession[r]] = "EXPIRED"]
          /\ session[reqSession[r]] = "ACTIVE"
          /\ stage' = [stage EXCEPT ![r] = "refused"]
          /\ UNCHANGED << orderOf, orders, answer >>
      BY <1>5 DEF CreateExpires, Become
    <2>2. TypeOK'
      BY <1>1, <1>2, <2>1 DEF page, IInv, TypeOK, SessionStates, Stages
    <2>3. OrdersLinked'
      BY <1>1, <1>2, <2>1 DEF IInv, TypeOK, OrdersLinked
    <2>4. RequestsSent' /\ PageHolds' /\ OneOrderPerSession' /\ OneOrderPerKey' /\ AnswersOwn'
      BY <1>1, <2>1 DEF page, IInv, TypeOK, RequestsSent, PageHolds,
                        OneOrderPerSession, OneOrderPerKey, AnswersOwn
    <2>. QED
      BY <2>2, <2>3, <2>4 DEF IInv
  <1>6. CASE CreateInserts(r)
    BY <1>1, <1>6, CreateInsertsIInv
  <1>7. CASE CreateInsertsAndPauses(r)
    BY <1>1, <1>7, CreateInsertsAndPausesIInv
  <1>. QED
    BY <1>3, <1>4, <1>5, <1>6, <1>7
       DEF Create, CreateRefusedByCapacity, CreateFindsSessionUsed, CreateFailsValidation,
           CreateConflicts

LEMMA NextIInv == IInv /\ [Next]_vars => IInv'
  <1>1. SUFFICES ASSUME IInv, [Next]_vars
                 PROVE  IInv'
    OBVIOUS
  <1>2. CASE UNCHANGED vars
    BY <1>1, <1>2 DEF vars, database, handlers, page, IInv, TypeOK, OrdersLinked, RequestsSent,
                      PageHolds, OneOrderPerSession, OneOrderPerKey, AnswersOwn
  <1>3. ASSUME NEW s \in Sessions, OpenSession(s) \/ SessionOverdue(s)
        PROVE  IInv'
    BY <1>1, <1>3, OpenSessionIInv, PageStepIInv
  <1>4. ASSUME NEW r \in Requests, Retry(r) \/ \E k \in Keys : Submit(r, k)
        PROVE  IInv'
    BY <1>1, <1>4, SubmitRetryIInv
  <1>5. ASSUME NEW r \in Requests, Handle(r) \/ HandlerErrors(r)
        PROVE  IInv'
    BY <1>1, <1>5, HandlerStepIInv, PreflightIInv, CreateIInv DEF Handle
  <1>6. CASE GiveUp \/ Receive \/ RevokeSessions
    BY <1>1, <1>6, PageStepIInv, RevokeSessionsIInv
  <1>. QED
    BY <1>1, <1>2, <1>3, <1>4, <1>5, <1>6 DEF Next

LEMMA Invariance == Spec => []IInv
  BY InitIInv, NextIInv, PTL DEF Spec

-----------------------------------------------------------------------------
\* Every reachable state of intake has its type.
THEOREM TypeCorrect == Spec => []TypeOK
  <1>1. IInv => TypeOK
    BY DEF IInv
  <1>. QED
    BY <1>1, Invariance, PTL

\* The row lock and the session's status let a session take one order, however
\* many requests carry it.
THEOREM OneOrderPerSessionHolds == Spec => []OneOrderPerSession
  <1>1. IInv => OneOrderPerSession
    BY DEF IInv
  <1>. QED
    BY <1>1, Invariance, PTL

\* The unique index takes an idempotency key once, across sessions.
THEOREM OneOrderPerKeyHolds == Spec => []OneOrderPerKey
  <1>1. IInv => OneOrderPerKey
    BY DEF IInv
  <1>. QED
    BY <1>1, Invariance, PTL

\* No session is used up without an order, and none with an order is usable.
THEOREM SessionMatchesOrderHolds == Spec => []SessionMatchesOrder
  <1>1. IInv => SessionMatchesOrder
    BY IntakeConstants DEF IInv, TypeOK, OrdersLinked, SessionMatchesOrder
  <1>. QED
    BY <1>1, Invariance, PTL

\* A customer is never shown somebody else's order.
THEOREM AnswerIsOwnOrderHolds == Spec => []AnswerIsOwnOrder
  <1>1. IInv => AnswerIsOwnOrder
    BY DEF IInv, AnswersOwn, AnswerIsOwnOrder
  <1>. QED
    BY <1>1, Invariance, PTL

-----------------------------------------------------------------------------
(* Nothing that is committed is ever changed.                               *)

\* Orders, their sessions and their keys are permanent.
OrdersKept ==
    \A o \in orders : /\ o \in orders'
                      /\ reqSession'[o] = reqSession[o]
                      /\ reqKey'[o] = reqKey[o]

\* An insertion, with or without the auto-pause.
Insertion(r) ==
    /\ stage[r] = "cleared"
    /\ CreateInserts(r) \/ CreateInsertsAndPauses(r)
    /\ UNCHANGED << reqSession, reqKey >>

\* The only step that changes what a session has taken is an insertion.
LEMMA StepKeepsOrders ==
    ASSUME IInv, [Next]_vars
    PROVE  \/ UNCHANGED << orders, orderOf >> /\ OrdersKept
           \/ \E r \in Requests : Insertion(r)
  <1>1. ASSUME NEW r \in Requests, NEW s, NEW k, Send(r, s, k), UNCHANGED orders
        PROVE  OrdersKept
    BY <1>1 DEF Send, OrdersKept, IInv, TypeOK, OrdersLinked
  <1>2. ASSUME NEW r \in Requests, Retry(r) \/ \E k \in Keys : Submit(r, k)
        PROVE  UNCHANGED << orders, orderOf >> /\ OrdersKept
    BY <1>1, <1>2 DEF Retry, Submit, database
  <1>3. ASSUME NEW r \in Requests, Handle(r) \/ HandlerErrors(r)
        PROVE  UNCHANGED << orders, orderOf, reqSession, reqKey >> \/ Insertion(r)
    BY <1>3 DEF Handle, HandlerErrors, Intake, Preflight, Gates, Respond, Create,
                CreateRefusedByCapacity, CreateReplays, CreateFindsSessionUsed, CreateExpires,
                CreateFailsValidation, CreateConflicts, Insertion, database
  <1>4. CASE \/ GiveUp \/ Receive \/ RevokeSessions
             \/ \E s \in Sessions : OpenSession(s) \/ SessionOverdue(s)
    BY <1>4 DEF GiveUp, Receive, RevokeSessions, OpenSession, SessionOverdue, OrdersKept,
                database, handlers
  <1>5. CASE UNCHANGED vars
    BY <1>5 DEF vars, database, handlers, OrdersKept
  <1>. QED
    BY <1>2, <1>3, <1>4, <1>5 DEF Next, OrdersKept

\* The lookup finds what is committed, as long as the session is linked.
LEMMA LookupFindsCommitted ==
    ASSUME IInv, NEW s \in Sessions, NEW k, Committed(s, k), orderOf[s] # NoRequest
    PROVE  HasOrder(s, k)
  BY DEF Committed, HasOrder, Matches, IInv, TypeOK, OrdersLinked, OneOrderPerSession

\* A session that has taken an order is not linked later.
LEMMA LinkIsOld ==
    ASSUME IInv, [Next]_vars, NEW s \in Sessions, NEW k, Committed(s, k),
           orderOf'[s] # NoRequest
    PROVE  orderOf[s] # NoRequest
  <1>1. CASE UNCHANGED orderOf
    BY <1>1
  <1>2. ASSUME NEW r \in Requests, Insertion(r)
        PROVE  orderOf'[s] = orderOf[s]
    <2>1. reqSession[r] \in Sessions /\ Usable(reqSession[r])
      BY <1>2 DEF Insertion, CreateInserts, CreateInsertsAndPauses, IInv, RequestsSent
    <2>2. reqSession[r] # s
      BY <2>1, UsableHasNoOrder DEF Committed
    <2>. QED
      BY <1>2, <2>2 DEF Insertion, CreateInserts, CreateInsertsAndPauses, IInv, TypeOK
  <1>. QED
    BY <1>1, <1>2, StepKeepsOrders

\* A request sent after its order was committed is ahead of the preflight that
\* replays it, or done.
AheadOrDone == {"arrived", "declined", "admitted", "stored", "answered", "errored"}
ReplaysAhead ==
    \A r \in afterCommit :
        /\ stage[r] # "unused"
        /\ Committed(reqSession[r], reqKey[r])
        /\ orderOf[reqSession[r]] # NoRequest => stage[r] \in AheadOrDone

LEMMA ReplaysAheadStep ==
    ASSUME IInv, ReplaysAhead, [Next]_vars
    PROVE  ReplaysAhead'
  <1>0. ASSUME NEW r \in afterCommit, orderOf'[reqSession[r]] # NoRequest
        PROVE  orderOf[reqSession[r]] # NoRequest
    <2>1. reqSession[r] \in Sessions
      BY DEF IInv, TypeOK, OrdersLinked, RequestsSent, ReplaysAhead, Committed
    <2>. QED
      BY <1>0, <2>1, LinkIsOld DEF ReplaysAhead
  <1>1. OrdersKept
    <2>1. ASSUME NEW r \in Requests, Insertion(r)
          PROVE  OrdersKept
      BY <2>1 DEF Insertion, CreateInserts, CreateInsertsAndPauses, OrdersKept
    <2>. QED
      BY <2>1, StepKeepsOrders
  <1>2. ASSUME NEW s, NEW k, Committed(s, k)
        PROVE  \E o \in orders' : reqSession'[o] = s /\ reqKey'[o] = k
    BY <1>1, <1>2 DEF Committed, OrdersKept
  <1>3. ASSUME NEW q \in Requests, NEW k, Send(q, pageSession, k)
        PROVE  ReplaysAhead'
    <2>1. SUFFICES ASSUME NEW r \in afterCommit'
                   PROVE  /\ stage'[r] # "unused"
                          /\ Committed(reqSession[r], reqKey[r])'
                          /\ orderOf'[reqSession'[r]] # NoRequest => stage'[r] \in AheadOrDone
      BY DEF ReplaysAhead
    <2>2. CASE r = q
      <3>1. Committed(pageSession, k)
        BY <1>3, <2>1, <2>2 DEF Send, ReplaysAhead
      <3>2. /\ reqSession'[r] = pageSession
            /\ reqKey'[r] = k
            /\ stage'[r] = "arrived"
        BY <1>3, <2>2 DEF Send, IInv, TypeOK
      <3>. QED
        BY <1>2, <3>1, <3>2 DEF Committed, AheadOrDone
    <2>3. CASE r # q
      <3>1. /\ r \in afterCommit
            /\ stage'[r] = stage[r]
            /\ reqSession'[r] = reqSession[r]
            /\ reqKey'[r] = reqKey[r]
        BY <1>3, <2>1, <2>3 DEF Send, IInv, TypeOK
      <3>2. orderOf'[reqSession[r]] # NoRequest => orderOf[reqSession[r]] # NoRequest
        BY <1>0, <3>1
      <3>. QED
        BY <1>2, <3>1, <3>2 DEF ReplaysAhead, Committed
    <2>. QED
      BY <2>2, <2>3
  <1>4. ASSUME NEW q \in Requests, Retry(q) \/ \E k \in Keys : Submit(q, k)
        PROVE  ReplaysAhead'
    BY <1>3, <1>4 DEF Retry, Submit
  <1>5. ASSUME NEW q \in Requests, Handle(q) \/ HandlerErrors(q)
        PROVE  ReplaysAhead'
    <2>1. UNCHANGED << reqSession, reqKey, afterCommit >>
      BY <1>5 DEF Handle, HandlerErrors, Intake, Preflight, Gates, Respond, Create
    <2>2. stage'[q] # "unused" /\ \A r \in Requests : r # q => stage'[r] = stage[r]
      BY <1>5 DEF Handle, HandlerErrors, Intake, Preflight, Gates, Respond, Create,
                  CreateRefusedByCapacity, CreateReplays, CreateFindsSessionUsed, CreateExpires,
                  CreateFailsValidation, CreateConflicts, CreateInserts, CreateInsertsAndPauses,
                  Become, IInv, TypeOK
    <2>3. q \in afterCommit /\ orderOf'[reqSession[q]] # NoRequest => stage'[q] \in AheadOrDone
      <3>1. SUFFICES ASSUME q \in afterCommit, orderOf'[reqSession[q]] # NoRequest
                     PROVE  stage'[q] \in AheadOrDone
        OBVIOUS
      <3>2. reqSession[q] \in Sessions
        BY <3>1 DEF IInv, TypeOK, OrdersLinked, RequestsSent, ReplaysAhead, Committed
      <3>3. /\ stage[q] \in AheadOrDone
            /\ HasOrder(reqSession[q], reqKey[q])
        BY <1>0, <3>1, <3>2, LookupFindsCommitted DEF ReplaysAhead
      <3>. QED
        BY <1>5, <3>3 DEF AheadOrDone, Handle, HandlerErrors, Intake, Preflight, Gates, Respond,
                          Create, Become, IInv, TypeOK
    <2>4. \A r \in afterCommit : Committed(reqSession[r], reqKey[r])'
      BY <1>2, <2>1 DEF ReplaysAhead, Committed
    <2>. QED
      BY <1>0, <2>1, <2>2, <2>3, <2>4 DEF ReplaysAhead, IInv, TypeOK
  <1>6. ASSUME UNCHANGED << stage, reqSession, reqKey, afterCommit >>
        PROVE  ReplaysAhead'
    BY <1>0, <1>2, <1>6 DEF ReplaysAhead, Committed
  <1>7. CASE \/ GiveUp \/ Receive \/ RevokeSessions
             \/ \E s \in Sessions : OpenSession(s) \/ SessionOverdue(s)
    BY <1>6, <1>7 DEF GiveUp, Receive, RevokeSessions, OpenSession, SessionOverdue, handlers
  <1>8. CASE UNCHANGED vars
    BY <1>6, <1>8 DEF vars, handlers
  <1>. QED
    BY <1>4, <1>5, <1>7, <1>8 DEF Next

\* A retry that is sent after the commit, in a session that the insertion has
\* linked, is never refused by a check behind the idempotency lookup.
THEOREM CommittedOrderIsReturnedHolds == Spec => []CommittedOrderIsReturned
  <1>1. Init => ReplaysAhead
    BY DEF Init, ReplaysAhead
  <1>2. IInv /\ ReplaysAhead /\ [Next]_vars => ReplaysAhead'
    BY ReplaysAheadStep
  <1>3. ReplaysAhead => CommittedOrderIsReturned
    BY DEF ReplaysAhead, AheadOrDone, CommittedOrderIsReturned
  <1>. QED
    BY <1>1, <1>2, <1>3, Invariance, PTL DEF Spec

-----------------------------------------------------------------------------
(* Intake implements the order book: an insertion books, the rest stutters. *)

LEMMA InsertBooks ==
    ASSUME IInv, NEW r \in Requests, Insertion(r)
    PROVE  Book!Next
  <1>1. /\ reqSession[r] \in Sessions
        /\ reqKey[r] \in Keys
    BY DEF Insertion, IInv, RequestsSent
  <1>2. /\ Usable(reqSession[r])
        /\ \A o \in orders : reqKey[o] # reqKey[r]
        /\ orders' = orders \cup {r}
        /\ UNCHANGED << reqSession, reqKey >>
    BY DEF Insertion, CreateInserts, CreateInsertsAndPauses, KeyTaken
  <1>3. \A o \in orders : reqSession[o] # reqSession[r]
    BY <1>1, <1>2, UsableHasNoOrder
  <1>4. \A b \in booked : b[1] # reqSession[r] /\ b[2] # reqKey[r]
    BY <1>2, <1>3 DEF booked
  <1>5. booked' = booked \cup {<< reqSession[r], reqKey[r] >>}
    BY <1>2 DEF booked
  <1>6. Book!Book(reqSession[r], reqKey[r])
    BY <1>4, <1>5 DEF Book!Book
  <1>. QED
    BY <1>1, <1>6 DEF Book!Next

\* Every behaviour of the page, the handlers and the database, with all their
\* retries, crashes and lost answers, is a behaviour of the order book.
THEOREM IntakeImplementsOrderBook == Spec => ImplementsOrderBook
  <1>1. Init => Book!Init
    BY DEF Init, Book!Init, booked
  <1>2. IInv /\ [Next]_vars => [Book!Next]_booked
    <2>1. SUFFICES ASSUME IInv, [Next]_vars
                   PROVE  [Book!Next]_booked
      OBVIOUS
    <2>2. CASE UNCHANGED << orders, orderOf >> /\ OrdersKept
      BY <2>2 DEF booked, OrdersKept
    <2>3. ASSUME NEW r \in Requests, Insertion(r)
          PROVE  Book!Next
      BY <2>1, <2>3, InsertBooks
    <2>. QED
      BY <2>1, <2>2, <2>3, StepKeepsOrders
  <1>. QED
    BY <1>1, <1>2, Invariance, PTL DEF Spec, ImplementsOrderBook, Book!Spec

(***************************************************************************)
(* The stock: a current editor page shows the current stock, orders hold   *)
(* the portions of their lines, portions that went into production do not  *)
(* come back, and none is lost or sold twice.                              *)
(*                                                                         *)
(* Versions on pages, counting epochs in orders and the epochs of their    *)
(* allocations are never ahead of the product; so an allocation that still *)
(* counts was made under the supply in force.  The portions held are a     *)
(* finite set, which an order changes by the difference of its own lines.  *)
(***************************************************************************)

\* Versions on editor pages, and counting epochs in orders, are never ahead
\* of the product.
PagesAreOld == \A m \in Editors, p \in Products : screen[m][p].version <= version[p]
OrdersAreOld == \A o \in Orders, p \in Products : born[o][p] <= epoch[p]

\* Counting has begun for every product that is counted.
CountingBegan == \A p \in Products : Counted(p) => epoch[p] > 0

\* stock_consumed is set by production, which comes after the last amendment.
ConsumedWasProduced ==
    \A o \in Orders : consumed[o] => status[o] \in {"PREPARING", "COMPLETED", "CANCELLED"}

\* The inductive invariant.
StockInv == /\ StockTypeOK /\ PagesAreOld /\ OrdersAreOld /\ CountingBegan /\ ConsumedWasProduced
            /\ VersionIdentifiesStock /\ OrdersHoldTheirLines

-----------------------------------------------------------------------------
LEMMA MaxOfTwo ==
    ASSUME NEW a \in Nat, NEW b \in Nat
    PROVE  Max({a, b}) \in Nat /\ Max({a, b}) >= a /\ Max({a, b}) >= b
  <1>1. \E x \in {a, b} : \A y \in {a, b} : x >= y
    OBVIOUS
  <1> QED
    BY <1>1 DEF Max

LEMMA BasketType == Baskets \subseteq [Products -> Nat]
  BY StockConstants DEF Baskets

LEMMA PreviousType ==
    ASSUME StockTypeOK, NEW o \in Orders, NEW p \in Products
    PROVE  Previous(o, p) \in Nat
  BY DEF StockTypeOK, Previous

\* What reconcile_order_stock wants to hold for an order.
LEMMA DesiredType ==
    ASSUME StockTypeOK, NEW o \in Orders, NEW p \in Products, NEW s,
           NEW l \in [Products -> Nat], NEW c \in BOOLEAN
    PROVE  /\ Desired(o, p, s, l, c) \in Nat
           /\ s # "CANCELLED" => Desired(o, p, s, l, c) >= l[p]
           /\ s = "CANCELLED" /\ ~ c => Desired(o, p, s, l, c) = 0
           /\ c => Desired(o, p, s, l, c) >= Previous(o, p)
  <1>1. Previous(o, p) \in Nat /\ l[p] \in Nat
    BY PreviousType
  <1>2. /\ Max({Previous(o, p), l[p]}) \in Nat
        /\ Max({Previous(o, p), l[p]}) >= Previous(o, p)
        /\ Max({Previous(o, p), l[p]}) >= l[p]
    BY <1>1, MaxOfTwo
  <1> QED
    BY <1>1, <1>2 DEF Desired

\* The statuses that the transactions write.
Written == {"WAITING_CONFIRMATION", "CONFIRMED", "PREPARING", "COMPLETED", "CANCELLED"}

\* The transactions that place, amend, confirm, produce, complete and cancel
\* an order are commits of one form: one that was in production stays so.
LEMMA OrderSteps ==
    ASSUME StockInv, NEW o \in Orders,
           \/ PlaceOrder(o) \/ AmendOrder(o) \/ ConfirmOrder(o)
           \/ StartProduction(o) \/ CompleteOrder(o) \/ CancelOrder(o)
    PROVE  \E s \in Written, l \in [Products -> Nat], c \in BOOLEAN :
             /\ CommitOrder(o, s, l, c)
             /\ consumed[o] => c
             /\ c => s \in {"PREPARING", "COMPLETED", "CANCELLED"}
  <1>0. StockTypeOK /\ ConsumedWasProduced
    BY DEF StockInv
  <1>1. lines[o] \in [Products -> Nat] /\ consumed[o] \in BOOLEAN
    BY <1>0 DEF StockTypeOK
  <1>2. CASE PlaceOrder(o)
    BY <1>0, <1>2, BasketType DEF PlaceOrder, Written, ConsumedWasProduced
  <1>3. CASE AmendOrder(o)
    BY <1>0, <1>3, BasketType DEF AmendOrder, Written, ConsumedWasProduced
  <1>4. CASE ConfirmOrder(o)
    BY <1>0, <1>1, <1>4 DEF ConfirmOrder, Written, ConsumedWasProduced
  <1>5. CASE StartProduction(o)
    BY <1>1, <1>5 DEF StartProduction, Written
  <1>6. CASE CompleteOrder(o)
    BY <1>1, <1>6 DEF CompleteOrder, Written
  <1>7. CASE CancelOrder(o)
    BY <1>0, <1>1, <1>7 DEF CancelOrder, Written, ConsumedWasProduced
  <1> QED
    BY <1>2, <1>3, <1>4, <1>5, <1>6, <1>7

LEMMA StockInitInv == StockInit => StockInv
  <1> SUFFICES ASSUME StockInit PROVE StockInv
    OBVIOUS
  <1>1. StockTypeOK
    BY DEF StockInit, StockTypeOK, None
  <1>2. PagesAreOld /\ OrdersAreOld /\ CountingBegan /\ ConsumedWasProduced
    BY DEF StockInit, PagesAreOld, OrdersAreOld, CountingBegan, ConsumedWasProduced, Counted
  <1>3. VersionIdentifiesStock /\ OrdersHoldTheirLines
    BY DEF StockInit, VersionIdentifiesStock, OrdersHoldTheirLines, Counted
  <1> QED
    BY <1>1, <1>2, <1>3 DEF StockInv

-----------------------------------------------------------------------------
(* The version trigger: what every write of stock_remaining guarantees.    *)
LEMMA TriggerStep ==
    ASSUME StockTypeOK, NEW new \in [Products -> Nat \cup {Unlimited}], SetRemaining(new)
    PROVE  /\ remaining' = new
           /\ version' \in [Products -> Nat] /\ epoch' \in [Products -> Nat]
           /\ \A p \in Products :
                /\ version'[p] >= version[p]
                /\ version'[p] = version[p] => new[p] = remaining[p]
                /\ epoch'[p] = IF remaining[p] = Unlimited /\ new[p] # Unlimited
                                 THEN epoch[p] + 1 ELSE epoch[p]
  BY DEF StockTypeOK, SetRemaining, Bumps

\* The invariants about pages and epochs follow from the trigger alone.
LEMMA PagesStep ==
    ASSUME StockInv, NEW new \in [Products -> Nat \cup {Unlimited}], SetRemaining(new),
           UNCHANGED << born, screen >>
    PROVE  (PagesAreOld /\ OrdersAreOld /\ CountingBegan /\ VersionIdentifiesStock)'
  <1>0. StockTypeOK /\ PagesAreOld /\ OrdersAreOld /\ CountingBegan /\ VersionIdentifiesStock
    BY DEF StockInv
  <1>1. /\ remaining' = new
        /\ \A p \in Products :
             /\ version'[p] \in Nat /\ version'[p] >= version[p]
             /\ version'[p] = version[p] => new[p] = remaining[p]
             /\ epoch'[p] = IF remaining[p] = Unlimited /\ new[p] # Unlimited
                              THEN epoch[p] + 1 ELSE epoch[p]
    BY <1>0, TriggerStep
  <1>2. \A p \in Products : epoch[p] \in Nat /\ version[p] \in Nat
    BY <1>0 DEF StockTypeOK
  <1>3. \A m \in Editors, p \in Products : screen[m][p].version \in Nat
    BY <1>0 DEF StockTypeOK
  <1>4. \A o \in Orders, p \in Products : born[o][p] \in Nat
    BY <1>0 DEF StockTypeOK
  <1>5. PagesAreOld'
    BY <1>0, <1>1, <1>2, <1>3 DEF PagesAreOld
  <1>6. OrdersAreOld'
    BY <1>0, <1>1, <1>2, <1>4 DEF OrdersAreOld
  <1>7. CountingBegan'
    BY <1>0, <1>1, <1>2 DEF CountingBegan, Counted
  <1>8. VersionIdentifiesStock'
    BY <1>0, <1>1, <1>2, <1>3 DEF VersionIdentifiesStock, Fresh, PagesAreOld
  <1> QED
    BY <1>5, <1>6, <1>7, <1>8

\* The stock after a commit: enough was left for every product.
LEMMA CommitStock ==
    ASSUME StockTypeOK, NEW o \in Orders, NEW s \in Written, NEW l \in [Products -> Nat],
           NEW c \in BOOLEAN, CommitOrder(o, s, l, c)
    PROVE  [p \in Products |-> IF Counted(p) THEN remaining[p] - Delta(o, p, s, l, c)
                                             ELSE Unlimited]
             \in [Products -> Nat \cup {Unlimited}]
  <1> SUFFICES ASSUME NEW p \in Products, Counted(p)
               PROVE  remaining[p] - Delta(o, p, s, l, c) \in Nat
    OBVIOUS
  <1>1. remaining[p] \in Nat
    BY DEF StockTypeOK, Counted
  <1>2. Delta(o, p, s, l, c) \in Int
    BY DesiredType, PreviousType DEF Delta
  <1>3. Delta(o, p, s, l, c) <= remaining[p]
    BY DEF CommitOrder, Sufficient
  <1> QED
    BY <1>1, <1>2, <1>3

LEMMA CommitInv ==
    ASSUME StockInv, NEW o \in Orders, NEW s \in Written, NEW l \in [Products -> Nat],
           NEW c \in BOOLEAN, CommitOrder(o, s, l, c),
           c => s \in {"PREPARING", "COMPLETED", "CANCELLED"}
    PROVE  StockInv'
  <1> DEFINE new == [p \in Products |-> IF Counted(p) THEN remaining[p] - Delta(o, p, s, l, c)
                                                     ELSE Unlimited]
  <1>0. /\ StockTypeOK /\ PagesAreOld /\ OrdersAreOld /\ CountingBegan /\ ConsumedWasProduced
             /\ VersionIdentifiesStock /\ OrdersHoldTheirLines
    BY DEF StockInv
  <1>1. new \in [Products -> Nat \cup {Unlimited}] /\ SetRemaining(new)
    <2>1. new \in [Products -> Nat \cup {Unlimited}]
      BY <1>0, CommitStock
    <2>2. SetRemaining(new)
      BY Zenon DEF CommitOrder
    <2> QED
      BY <2>1, <2>2
  <1>2. UNCHANGED << born, screen, supplied >>
    BY DEF CommitOrder
  <1>3. (PagesAreOld /\ OrdersAreOld /\ CountingBegan /\ VersionIdentifiesStock)'
    <2> HIDE DEF new
    <2> QED
      BY <1>1, <1>2, PagesStep
  <1>4. /\ remaining' \in [Products -> Nat \cup {Unlimited}]
        /\ version' \in [Products -> Nat] /\ epoch' \in [Products -> Nat]
        /\ epoch' = epoch
        /\ \A p \in Products : remaining'[p] # Unlimited => Counted(p)
    <2>1. remaining' = new /\ version' \in [Products -> Nat] /\ epoch' \in [Products -> Nat]
      <3> HIDE DEF new
      <3> QED
        BY <1>0, <1>1, TriggerStep
    <2>2. \A p \in Products : new[p] # Unlimited => Counted(p)
      OBVIOUS
    <2>3. \A p \in Products : epoch'[p] = epoch[p]
      <3> HIDE DEF new
      <3> QED
        BY <1>0, <1>1, <2>2, TriggerStep DEF Counted
    <2>4. epoch' = epoch
      BY <1>0, <2>1, <2>3 DEF StockTypeOK
    <2> HIDE DEF new
    <2> QED
      BY <1>1, <2>1, <2>2, <2>4
  <1>5. \A p \in Products : Desired(o, p, s, l, c) \in Nat
    BY <1>0, DesiredType
  <1>6. StockTypeOK'
    <2>1. alloc' \in [Orders -> [Products -> [quantity : Nat, epoch : Nat]]]
      BY <1>0, <1>5 DEF CommitOrder, StockTypeOK, None
    <2>2. status' \in [Orders -> {"ABSENT", "BEGUN", "COMPLETED", "CANCELLED"} \cup Active]
      BY <1>0 DEF CommitOrder, StockTypeOK, Written, Active
    <2>3. lines' \in [Orders -> [Products -> Nat]] /\ consumed' \in [Orders -> BOOLEAN]
      BY <1>0 DEF CommitOrder, StockTypeOK
    <2> QED
      BY <1>0, <1>2, <1>4, <2>1, <2>2, <2>3 DEF StockTypeOK
  <1>7. ConsumedWasProduced'
    BY <1>0 DEF CommitOrder, ConsumedWasProduced, StockTypeOK
  <1>8. OrdersHoldTheirLines'
    <2> SUFFICES ASSUME NEW q \in Orders, NEW p \in Products,
                        Counted(p)', (born[q][p] = epoch[p])'
                 PROVE  /\ (status[q] \in Active => Previous(q, p) >= lines[q][p])'
                        /\ (status[q] = "CANCELLED" /\ ~ consumed[q] => Previous(q, p) = 0)'
      BY DEF OrdersHoldTheirLines
    <2>1. Counted(p) /\ born[q][p] = epoch[p] /\ epoch'[p] = epoch[p] /\ epoch[p] > 0
      BY <1>0, <1>2, <1>4 DEF Counted, CountingBegan
    <2>2. CASE q # o
      <3>1. /\ status'[q] = status[q] /\ lines'[q] = lines[q]
            /\ consumed'[q] = consumed[q] /\ alloc'[q] = alloc[q]
        BY <1>0, <2>2 DEF CommitOrder, StockTypeOK
      <3>2. Previous(q, p)' = Previous(q, p)
        BY <1>4, <3>1 DEF Previous, SameEpoch
      <3> QED
        BY <1>0, <2>1, <3>1, <3>2 DEF OrdersHoldTheirLines
    <2>3. CASE q = o
      <3>1. status'[o] = s /\ lines'[o] = l /\ consumed'[o] = c
        BY <1>0 DEF CommitOrder, StockTypeOK
      <3>2. CASE Untouched(o, p, l)
        <4>1. l[p] = 0 /\ alloc[o][p] = None
          BY <2>1, <2>3, <3>2, <1>0 DEF Untouched, StockTypeOK
        <4>2. alloc'[o][p] = None
          BY <1>0, <2>1, <3>2, <4>1 DEF CommitOrder, StockTypeOK
        <4>3. Previous(o, p)' = 0
          BY <1>4, <2>1, <4>2 DEF Previous, SameEpoch, None
        <4> QED
          BY <2>3, <3>1, <4>1, <4>3
      <3>3. CASE ~ Untouched(o, p, l)
        <4>1. alloc'[o][p] = [quantity |-> Desired(o, p, s, l, c), epoch |-> epoch[p]]
          BY <1>0, <2>1, <3>3 DEF CommitOrder, StockTypeOK
        <4>2. Previous(o, p)' = Desired(o, p, s, l, c)
          BY <1>4, <2>1, <4>1 DEF Previous, SameEpoch
        <4>3. /\ s # "CANCELLED" => Desired(o, p, s, l, c) >= l[p]
              /\ s = "CANCELLED" /\ ~ c => Desired(o, p, s, l, c) = 0
          BY <1>0, DesiredType
        <4> QED
          BY <2>3, <3>1, <4>2, <4>3 DEF Active
      <3> QED
        BY <3>2, <3>3
    <2> QED
      BY <2>2, <2>3
  <1> QED
    BY <1>3, <1>6, <1>7, <1>8 DEF StockInv

LEMMA SaveInv ==
    ASSUME StockInv, NEW m \in Editors, NEW p \in Products, SaveStock(m, p)
    PROVE  StockInv'
  <1>0. /\ StockTypeOK /\ PagesAreOld /\ OrdersAreOld /\ CountingBegan /\ ConsumedWasProduced
             /\ VersionIdentifiesStock /\ OrdersHoldTheirLines
    BY DEF StockInv
  <1>1. PICK q \in Nat \cup {Unlimited} :
          /\ SetRemaining([remaining EXCEPT ![p] = q])
          /\ supplied' = [supplied EXCEPT ![p] =
                CASE q = Unlimited -> 0
                  [] q # Unlimited /\ ~ Counted(p) -> q
                  [] OTHER -> supplied[p] + q - remaining[p]]
    <2>1. PICK n \in 0..MaxSupply :
            \E q \in {n, Unlimited} \cup (IF Counted(p) THEN {remaining[p] + n} ELSE {}) :
              /\ SetRemaining([remaining EXCEPT ![p] = q])
              /\ supplied' = [supplied EXCEPT ![p] =
                    CASE q = Unlimited -> 0
                      [] q # Unlimited /\ ~ Counted(p) -> q
                      [] OTHER -> supplied[p] + q - remaining[p]]
      BY Zenon DEF SaveStock
    <2>2. n \in Nat /\ (Counted(p) => remaining[p] + n \in Nat)
      BY <1>0, StockConstants DEF StockTypeOK, Counted
    <2>3. {n, Unlimited} \cup (IF Counted(p) THEN {remaining[p] + n} ELSE {})
            \subseteq Nat \cup {Unlimited}
      BY <2>2
    <2> QED
      BY <2>1, <2>3, Zenon
  <1> DEFINE new == [remaining EXCEPT ![p] = q]
  <1>2. new \in [Products -> Nat \cup {Unlimited}]
    BY <1>0 DEF StockTypeOK
  <1>3. UNCHANGED << status, consumed, lines, alloc, born, screen >>
    BY DEF SaveStock, order
  <1>4. (PagesAreOld /\ OrdersAreOld /\ CountingBegan /\ VersionIdentifiesStock)'
    <2> HIDE DEF new
    <2>1. SetRemaining(new)
      BY <1>1 DEF new
    <2> QED
      BY <1>2, <1>3, <2>1, PagesStep
  <1>5. /\ remaining' = new
        /\ version' \in [Products -> Nat] /\ epoch' \in [Products -> Nat]
        /\ \A r \in Products : epoch'[r] = IF remaining[r] = Unlimited /\ new[r] # Unlimited
                                             THEN epoch[r] + 1 ELSE epoch[r]
    <2> HIDE DEF new
    <2>1. SetRemaining(new)
      BY <1>1 DEF new
    <2> QED
      BY <1>0, <1>2, <2>1, TriggerStep
  <1>6. supplied' \in [Products -> Int]
    <2>1. supplied[p] \in Int /\ (Counted(p) => remaining[p] \in Nat)
      BY <1>0 DEF StockTypeOK, Counted
    <2>2. (CASE q = Unlimited -> 0
             [] q # Unlimited /\ ~ Counted(p) -> q
             [] OTHER -> supplied[p] + q - remaining[p]) \in Int
      BY <2>1
    <2> QED
      BY <1>0, <1>1, <2>2 DEF StockTypeOK
  <1>7. StockTypeOK'
    <2> HIDE DEF new
    <2> QED
      BY <1>0, <1>2, <1>3, <1>5, <1>6 DEF StockTypeOK
  <1>8. OrdersHoldTheirLines'
    <2> SUFFICES ASSUME NEW o \in Orders, NEW r \in Products,
                        Counted(r)', (born[o][r] = epoch[r])'
                 PROVE  /\ (status[o] \in Active => Previous(o, r) >= lines[o][r])'
                        /\ (status[o] = "CANCELLED" /\ ~ consumed[o] => Previous(o, r) = 0)'
      BY DEF OrdersHoldTheirLines
    <2>1. born[o][r] \in Nat /\ epoch[r] \in Nat /\ born[o][r] <= epoch[r]
      BY <1>0 DEF StockTypeOK, OrdersAreOld
    <2>2. epoch'[r] = epoch[r] /\ Counted(r)
      <3> HIDE DEF new
      <3> QED
        BY <1>3, <1>5, <2>1 DEF Counted
    <2>3. Previous(o, r)' = Previous(o, r)
      BY <1>3, <2>2 DEF Previous, SameEpoch
    <2> QED
      BY <1>0, <1>3, <2>2, <2>3 DEF OrdersHoldTheirLines
  <1>9. ConsumedWasProduced'
    BY <1>0, <1>3 DEF ConsumedWasProduced
  <1> QED
    BY <1>4, <1>7, <1>8, <1>9 DEF StockInv

LEMMA BeginInv ==
    ASSUME StockInv, NEW o \in Orders, BeginOrder(o)
    PROVE  StockInv'
  <1> USE DEF StockInv
  <1>1. StockTypeOK'
    BY DEF BeginOrder, StockTypeOK, stock
  <1>2. (PagesAreOld /\ OrdersAreOld /\ CountingBegan /\ VersionIdentifiesStock)'
    BY DEF BeginOrder, StockTypeOK, stock, PagesAreOld, OrdersAreOld, CountingBegan, Counted,
           VersionIdentifiesStock, Fresh
  <1>3. ConsumedWasProduced'
    BY DEF BeginOrder, StockTypeOK, ConsumedWasProduced
  <1>4. OrdersHoldTheirLines'
    BY DEF BeginOrder, StockTypeOK, stock, OrdersHoldTheirLines, Counted, Previous, SameEpoch, Active
  <1> QED
    BY <1>1, <1>2, <1>3, <1>4

LEMMA OpenInv ==
    ASSUME StockInv, NEW m \in Editors, OpenEditor(m)
    PROVE  StockInv'
  <1> USE DEF StockInv
  <1>1. StockTypeOK'
    BY DEF OpenEditor, StockTypeOK, stock, order
  <1>2. (PagesAreOld /\ OrdersAreOld /\ CountingBegan /\ VersionIdentifiesStock)'
    BY DEF OpenEditor, StockTypeOK, stock, order, PagesAreOld, OrdersAreOld, CountingBegan, Counted,
           VersionIdentifiesStock, Fresh
  <1>3. (ConsumedWasProduced /\ OrdersHoldTheirLines)'
    BY DEF OpenEditor, stock, order, ConsumedWasProduced, OrdersHoldTheirLines, Counted,
           Previous, SameEpoch
  <1> QED
    BY <1>1, <1>2, <1>3

LEMMA StockInvariance == StockSpec => []StockInv
  <1>1. StockInv /\ [StockNext]_stockVars => StockInv'
    <2> SUFFICES ASSUME StockInv, [StockNext]_stockVars PROVE StockInv'
      OBVIOUS
    <2>1. ASSUME NEW o \in Orders,
                 \/ PlaceOrder(o) \/ AmendOrder(o) \/ ConfirmOrder(o)
                 \/ StartProduction(o) \/ CompleteOrder(o) \/ CancelOrder(o)
          PROVE  StockInv'
      BY <2>1, OrderSteps, CommitInv
    <2>2. CASE UNCHANGED stockVars
      BY <2>2 DEF StockInv, stockVars, stock, order, StockTypeOK, PagesAreOld, OrdersAreOld, CountingBegan,
                  ConsumedWasProduced, VersionIdentifiesStock, OrdersHoldTheirLines, Counted,
                  Fresh, Previous, SameEpoch
    <2> QED
      BY <2>1, <2>2, BeginInv, OpenInv, SaveInv DEF StockNext
  <1> QED
    BY <1>1, StockInitInv, PTL DEF StockSpec

-----------------------------------------------------------------------------
\* The variables keep their types; in particular, stock_remaining is never
\* negative.
THEOREM StockTypeCorrect == StockSpec => []StockTypeOK
  <1>1. StockInv => StockTypeOK
    BY DEF StockInv
  <1> QED
    BY <1>1, StockInvariance, PTL

\* A save of the stock editor that names the current version has seen the
\* current stock.
THEOREM VersionIdentifiesStockHolds == StockSpec => []VersionIdentifiesStock
  <1>1. StockInv => VersionIdentifiesStock
    BY DEF StockInv
  <1> QED
    BY <1>1, StockInvariance, PTL

\* Through amendments, cancellations and restocking, reconcile_order_stock
\* keeps a portion for every portion of an active order placed since counting
\* began, and none for one cancelled before production.
THEOREM OrdersHoldTheirLinesHolds == StockSpec => []OrdersHoldTheirLines
  <1>1. StockInv => OrdersHoldTheirLines
    BY DEF StockInv
  <1> QED
    BY <1>1, StockInvariance, PTL

\* Portions that were marked consumed are not given back.
THEOREM ConsumedIsGoneHolds == StockSpec => ConsumedIsGone
  <1> DEFINE Gone == \A o \in Orders, p \in Products :
                        consumed[o] /\ SameEpoch(o, p) /\ remaining'[p] # Unlimited =>
                            /\ consumed'[o]
                            /\ alloc'[o][p].quantity >= alloc[o][p].quantity
  <1>1. StockInv /\ [StockNext]_stockVars => [Gone]_stockVars
    <2> SUFFICES ASSUME StockInv, [StockNext]_stockVars, NEW o \in Orders, NEW p \in Products,
                        consumed[o], SameEpoch(o, p), remaining'[p] # Unlimited
                 PROVE  consumed'[o] /\ alloc'[o][p].quantity >= alloc[o][p].quantity
      BY DEF Gone
    <2>0. StockTypeOK /\ alloc[o][p].quantity \in Nat
      BY DEF StockInv, StockTypeOK
    <2>1. ASSUME NEW q \in Orders,
                 \/ PlaceOrder(q) \/ AmendOrder(q) \/ ConfirmOrder(q)
                 \/ StartProduction(q) \/ CompleteOrder(q) \/ CancelOrder(q)
          PROVE  consumed'[o] /\ alloc'[o][p].quantity >= alloc[o][p].quantity
      <3>1. PICK s \in Written, l \in [Products -> Nat], c \in BOOLEAN :
              CommitOrder(q, s, l, c) /\ (consumed[q] => c)
        BY <2>1, OrderSteps
      <3>2. CASE q # o
        <4>1. consumed'[o] = consumed[o] /\ alloc'[o] = alloc[o]
          BY <2>0, <3>1, <3>2 DEF CommitOrder, StockTypeOK
        <4> QED
          BY <2>0, <4>1
      <3>3. CASE q = o
        <4>1. consumed'[o] = c /\ c
          BY <2>0, <3>1, <3>3 DEF CommitOrder, StockTypeOK
        <4>2. Counted(p)
          BY <3>1, <2>0 DEF CommitOrder, SetRemaining
        <4>3. Previous(o, p) = alloc[o][p].quantity
          BY DEF Previous
        <4>4. Desired(o, p, s, l, c) >= Previous(o, p)
          BY <2>0, <4>1, DesiredType
        <4>5. CASE Untouched(o, p, l)
          <5>1. alloc'[o][p] = alloc[o][p]
            BY <2>0, <3>1, <3>3, <4>2, <4>5 DEF CommitOrder, StockTypeOK
          <5> QED
            BY <2>0, <4>1, <5>1
        <4>6. CASE ~ Untouched(o, p, l)
          <5>1. alloc'[o][p] = [quantity |-> Desired(o, p, s, l, c), epoch |-> epoch[p]]
            BY <2>0, <3>1, <3>3, <4>2, <4>6 DEF CommitOrder, StockTypeOK
          <5>2. alloc'[o][p].quantity >= alloc[o][p].quantity
            BY <4>3, <4>4, <5>1
          <5> QED
            BY <4>1, <5>2, Zenon
        <4> QED
          BY <4>5, <4>6
      <3> QED
        BY <3>2, <3>3
    <2>2. ASSUME NEW q \in Orders, BeginOrder(q)
          PROVE  consumed'[o] /\ alloc'[o][p].quantity >= alloc[o][p].quantity
      BY <2>0, <2>2 DEF BeginOrder
    <2>3. ASSUME NEW m \in Editors, OpenEditor(m)
          PROVE  consumed'[o] /\ alloc'[o][p].quantity >= alloc[o][p].quantity
      BY <2>0, <2>3 DEF OpenEditor, order
    <2>4. ASSUME NEW m \in Editors, NEW r \in Products, SaveStock(m, r)
          PROVE  consumed'[o] /\ alloc'[o][p].quantity >= alloc[o][p].quantity
      BY <2>0, <2>4 DEF SaveStock, order
    <2>5. CASE UNCHANGED stockVars
      BY <2>0, <2>5 DEF stockVars, order
    <2> QED
      BY <2>1, <2>2, <2>3, <2>4, <2>5 DEF StockNext
  <1> QED
    BY <1>1, StockInvariance, PTL DEF StockSpec, ConsumedIsGone

-----------------------------------------------------------------------------
(* Conservation.  Portions are counted as a set of numbered portions per   *)
(* order, so that the portions of the order that commits can be separated  *)
(* from those of all the others.                                           *)

\* An allocation never names a later counting than the product's: a new
\* counting starts with no portion held.
AllocationsAreOld == \A o \in Orders, p \in Products : alloc[o][p].epoch <= epoch[p]

Portions(o, n) == {o} \X (1..n)

PortionsOfOthers(o, p) == UNION {Portions(q, Previous(q, p)) : q \in Orders \ {o}}

LEMMA PortionsOfOne ==
    ASSUME NEW o, NEW n \in Nat
    PROVE  IsFiniteSet(Portions(o, n)) /\ Cardinality(Portions(o, n)) = n
  <1>1. IsFiniteSet({o}) /\ Cardinality({o}) = 1
    BY FS_Singleton
  <1>2. IsFiniteSet(1..n) /\ Cardinality(1..n) = n
    BY FS_Interval
  <1>3. /\ IsFiniteSet({o} \X (1..n))
        /\ Cardinality({o} \X (1..n)) = Cardinality({o}) * Cardinality(1..n)
    BY <1>1, <1>2, FS_Product, Zenon
  <1> QED
    BY <1>1, <1>2, <1>3 DEF Portions

LEMMA OthersFinite ==
    ASSUME StockTypeOK, NEW o \in Orders, NEW p \in Products
    PROVE  IsFiniteSet(PortionsOfOthers(o, p))
  <1> DEFINE f == [q \in Orders \ {o} |-> Portions(q, Previous(q, p))]
             S == {Portions(q, Previous(q, p)) : q \in Orders \ {o}}
  <1>1. IsFiniteSet(Orders \ {o})
    BY StockConstants, FS_Difference
  <1>2. f \in Surjection(Orders \ {o}, S)
    BY DEF Surjection
  <1>3. IsFiniteSet(S)
    <2> HIDE DEF f, S
    <2> QED
      BY <1>1, <1>2, FS_Surjection
  <1>4. \A T \in S : IsFiniteSet(T)
    BY PortionsOfOne, PreviousType
  <1> QED
    BY <1>3, <1>4, FS_UNION DEF PortionsOfOthers

\* What orders hold is what one of them holds plus what the others hold.
LEMMA HeldSplits ==
    ASSUME StockTypeOK, NEW o \in Orders, NEW p \in Products
    PROVE  /\ Cardinality(PortionsOfOthers(o, p)) \in Nat
           /\ Held(p) = Previous(o, p) + Cardinality(PortionsOfOthers(o, p))
  <1> DEFINE mine == Portions(o, Previous(o, p))
             rest == PortionsOfOthers(o, p)
  <1>1. Previous(o, p) \in Nat
    BY PreviousType
  <1>2. IsFiniteSet(mine) /\ Cardinality(mine) = Previous(o, p)
    BY <1>1, PortionsOfOne
  <1>3. IsFiniteSet(rest) /\ Cardinality(rest) \in Nat
    BY OthersFinite, FS_CardinalityType
  <1>4. HeldPortions(p) = mine \cup rest
    BY DEF HeldPortions, PortionsOfOthers, Portions
  <1>5. mine \cap rest = {}
    BY DEF PortionsOfOthers, Portions
  <1>6. Cardinality(mine \cup rest) = Cardinality(mine) + Cardinality(rest)
                                        - Cardinality(mine \cap rest)
    <2> HIDE DEF mine, rest
    <2> QED
      BY <1>2, <1>3, FS_Union
  <1>7. Cardinality(mine \cap rest) = 0
    BY <1>5, FS_EmptySet
  <1> HIDE DEF mine, rest
  <1>8. Held(p) = Previous(o, p) + Cardinality(rest)
    BY <1>1, <1>2, <1>3, <1>4, <1>6, <1>7 DEF Held
  <1> QED
    BY <1>3, <1>8 DEF rest

LEMMA HeldSplitsAfter ==
    ASSUME NEW o \in Orders, NEW p \in Products
    PROVE  StockTypeOK' => (Held(p) = Previous(o, p) + Cardinality(PortionsOfOthers(o, p)))'
  <1>1. StockTypeOK => Held(p) = Previous(o, p) + Cardinality(PortionsOfOthers(o, p))
    BY HeldSplits
  <1> QED
    BY <1>1, PTL

LEMMA HeldType ==
    ASSUME StockTypeOK, NEW p \in Products
    PROVE  Held(p) \in Nat
  <1>1. CASE Orders = {}
    BY <1>1, FS_EmptySet DEF Held, HeldPortions
  <1>2. ASSUME NEW o \in Orders PROVE Held(p) \in Nat
    BY HeldSplits, PreviousType
  <1> QED
    BY <1>1, <1>2

\* A commit moves portions between the stock and the order that commits, and
\* leaves what the others hold as it is.
LEMMA CommitConserves ==
    ASSUME StockInv, StockInv', AllocationsAreOld, PortionsConserved,
           NEW o \in Orders, NEW s \in Written, NEW l \in [Products -> Nat],
           NEW c \in BOOLEAN, CommitOrder(o, s, l, c)
    PROVE  (AllocationsAreOld /\ PortionsConserved)'
  <1>0. StockTypeOK /\ StockTypeOK' /\ CountingBegan
    BY DEF StockInv
  <1>1. \A p \in Products : remaining'[p] = IF Counted(p) THEN remaining[p] - Delta(o, p, s, l, c)
                                                          ELSE Unlimited
    BY DEF CommitOrder, SetRemaining
  <1>2. \A p \in Products : epoch'[p] = epoch[p]
    BY <1>1 DEF CommitOrder, SetRemaining, Counted
  <1>3. supplied' = supplied
    BY DEF CommitOrder
  <1>4. \A q \in Orders : q # o => alloc'[q] = alloc[q]
    BY <1>0 DEF CommitOrder, StockTypeOK
  <1>5. \A p \in Products : alloc'[o][p] =
           CASE ~ Counted(p) -> None
             [] Counted(p) /\ Untouched(o, p, l) -> alloc[o][p]
             [] OTHER -> [quantity |-> Desired(o, p, s, l, c), epoch |-> epoch[p]]
    BY <1>0 DEF CommitOrder, StockTypeOK
  <1>6. AllocationsAreOld'
    <2> SUFFICES ASSUME NEW q \in Orders, NEW p \in Products
                 PROVE  alloc'[q][p].epoch <= epoch'[p]
      BY DEF AllocationsAreOld
    <2>1. epoch[p] \in Nat /\ alloc[q][p].epoch <= epoch[p]
      BY <1>0 DEF StockTypeOK, AllocationsAreOld
    <2>2. CASE q # o
      BY <1>2, <1>4, <2>1, <2>2
    <2>3. CASE q = o
      <3>1. \/ alloc'[o][p] = None
            \/ alloc'[o][p] = alloc[o][p]
            \/ alloc'[o][p] = [quantity |-> Desired(o, p, s, l, c), epoch |-> epoch[p]]
        BY <1>5
      <3> QED
        BY <1>2, <2>1, <2>3, <3>1 DEF None
    <2> QED
      BY <2>2, <2>3
  <1>7. PortionsConserved'
    <2> SUFFICES ASSUME NEW p \in Products, Counted(p)'
                 PROVE  remaining'[p] >= 0 /\ remaining'[p] + Held(p)' = supplied'[p]
      BY DEF PortionsConserved
    <2>1. Counted(p) /\ epoch[p] > 0 /\ remaining'[p] = remaining[p] - Delta(o, p, s, l, c)
      BY <1>0, <1>1 DEF Counted, CountingBegan
    <2>2. PortionsOfOthers(o, p)' = PortionsOfOthers(o, p)
      <3>1. \A q \in Orders \ {o} : Previous(q, p)' = Previous(q, p)
        BY <1>2, <1>4 DEF Previous, SameEpoch
      <3> QED
        BY <3>1 DEF PortionsOfOthers
    <2>3. Previous(o, p)' = Previous(o, p) + Delta(o, p, s, l, c)
      <3>0. Previous(o, p) \in Nat /\ Desired(o, p, s, l, c) \in Nat
        BY <1>0, PreviousType, DesiredType
      <3>1. CASE Untouched(o, p, l)
        <4>1. alloc'[o][p] = alloc[o][p]
          BY <1>5, <2>1, <3>1
        <4>2. Previous(o, p)' = Previous(o, p)
          BY <1>2, <4>1 DEF Previous, SameEpoch
        <4> QED
          BY <3>0, <3>1, <4>2 DEF Delta
      <3>2. CASE ~ Untouched(o, p, l)
        <4>1. alloc'[o][p] = [quantity |-> Desired(o, p, s, l, c), epoch |-> epoch[p]]
          BY <1>5, <2>1, <3>2
        <4>2. Previous(o, p)' = Desired(o, p, s, l, c)
          BY <1>2, <2>1, <4>1 DEF Previous, SameEpoch
        <4> QED
          BY <2>1, <3>0, <3>2, <4>2 DEF Delta
      <3> QED
        BY <3>1, <3>2
    <2>4. /\ Cardinality(PortionsOfOthers(o, p)) \in Nat
          /\ Held(p) = Previous(o, p) + Cardinality(PortionsOfOthers(o, p))
      BY <1>0, HeldSplits
    <2>5. Held(p)' = Previous(o, p)' + Cardinality(PortionsOfOthers(o, p)')
      BY <1>0, HeldSplitsAfter
    <2>6. /\ remaining[p] \in Nat /\ supplied[p] \in Int /\ remaining'[p] \in Nat
          /\ Previous(o, p) \in Nat /\ Delta(o, p, s, l, c) \in Int
      <3>1. remaining[p] \in Nat /\ supplied[p] \in Int
        BY <1>0, <2>1 DEF StockTypeOK, Counted
      <3>2. remaining'[p] \in Nat
        BY <1>0 DEF StockTypeOK, Counted
      <3>3. Previous(o, p) \in Nat /\ Delta(o, p, s, l, c) \in Int
        BY <1>0, PreviousType, DesiredType DEF Delta
      <3> QED
        BY <3>1, <3>2, <3>3
    <2>7. remaining[p] + Held(p) = supplied[p]
      BY <2>1 DEF PortionsConserved
    <2> QED
      BY <1>3, <2>1, <2>2, <2>3, <2>4, <2>5, <2>6, <2>7
  <1> QED
    BY <1>6, <1>7

\* A save changes the stock and what was supplied alike; one that starts to
\* count finds no portion held, because all allocations are older.
LEMMA SaveConserves ==
    ASSUME StockInv, StockInv', AllocationsAreOld, PortionsConserved,
           NEW m \in Editors, NEW p \in Products, SaveStock(m, p)
    PROVE  (AllocationsAreOld /\ PortionsConserved)'
  <1>0. StockTypeOK /\ StockTypeOK'
    BY DEF StockInv
  <1>1. PICK q :
          /\ SetRemaining([remaining EXCEPT ![p] = q])
          /\ supplied' = [supplied EXCEPT ![p] =
                CASE q = Unlimited -> 0
                  [] q # Unlimited /\ ~ Counted(p) -> q
                  [] OTHER -> supplied[p] + q - remaining[p]]
    BY Zenon DEF SaveStock
  <1>2. alloc' = alloc
    BY DEF SaveStock, order
  <1>3. /\ remaining' = [remaining EXCEPT ![p] = q]
        /\ \A r \in Products : epoch'[r] = IF remaining[r] = Unlimited /\ remaining'[r] # Unlimited
                                             THEN epoch[r] + 1 ELSE epoch[r]
    BY <1>1 DEF SetRemaining
  <1>4. \A r \in Products : epoch[r] \in Nat
    BY <1>0 DEF StockTypeOK
  <1>5. \A o \in Orders, r \in Products : alloc[o][r].epoch \in Nat /\ alloc[o][r].epoch <= epoch[r]
    BY <1>0 DEF StockTypeOK, AllocationsAreOld
  <1>6. AllocationsAreOld'
    BY <1>2, <1>3, <1>4, <1>5 DEF AllocationsAreOld
  <1>7. PortionsConserved'
    <2> SUFFICES ASSUME NEW r \in Products, Counted(r)'
                 PROVE  remaining'[r] >= 0 /\ remaining'[r] + Held(r)' = supplied'[r]
      BY DEF PortionsConserved
    <2>1. remaining'[r] \in Nat /\ supplied[r] \in Int
      BY <1>0 DEF StockTypeOK, Counted
    <2>2. CASE Counted(r)
      <3>1. epoch'[r] = epoch[r]
        BY <1>3, <2>2 DEF Counted
      <3>2. \A o \in Orders : Previous(o, r)' = Previous(o, r)
        BY <1>2, <3>1 DEF Previous, SameEpoch
      <3>3. Held(r)' = Held(r)
        BY <3>2 DEF Held, HeldPortions
      <3>4. remaining[r] \in Nat /\ remaining[r] + Held(r) = supplied[r]
        BY <1>0, <2>2 DEF StockTypeOK, Counted, PortionsConserved
      <3>5. Held(r) \in Nat
        BY <1>0, HeldType
      <3>6. CASE r # p
        <4>1. remaining'[r] = remaining[r] /\ supplied'[r] = supplied[r]
          BY <1>0, <1>1, <1>3, <3>6 DEF StockTypeOK
        <4> QED
          BY <2>1, <3>3, <3>4, <4>1
      <3>7. CASE r = p
        <4>1. remaining'[p] = q /\ q # Unlimited
          BY <1>0, <1>3, <3>7 DEF StockTypeOK, Counted
        <4>2. supplied'[p] = supplied[p] + q - remaining[p]
          BY <1>0, <1>1, <2>2, <3>7, <4>1 DEF StockTypeOK
        <4> QED
          BY <2>1, <3>3, <3>4, <3>5, <3>7, <4>1, <4>2
      <3> QED
        BY <3>6, <3>7
    <2>3. CASE ~ Counted(r)
      <3>1. r = p
        BY <1>0, <1>3, <2>3 DEF StockTypeOK, Counted
      <3>2. supplied'[p] = q /\ remaining'[p] = q
        <4>1. remaining'[p] = q /\ q # Unlimited
          BY <1>0, <1>3, <3>1 DEF StockTypeOK, Counted
        <4> QED
          BY <1>0, <1>1, <2>3, <3>1, <4>1 DEF StockTypeOK
      <3>3. epoch'[p] = epoch[p] + 1
        BY <1>3, <2>3, <3>1 DEF Counted
      <3>4. \A o \in Orders : Previous(o, p)' = 0
        BY <1>2, <1>4, <1>5, <3>3 DEF Previous, SameEpoch
      <3>5. HeldPortions(p)' = {}
        BY <3>4 DEF HeldPortions
      <3>6. Held(p)' = 0
        BY <3>5, FS_EmptySet DEF Held
      <3> QED
        BY <2>1, <3>1, <3>2, <3>6
    <2> QED
      BY <2>2, <2>3
  <1> QED
    BY <1>6, <1>7

\* Through every order, amendment, cancellation and restocking, the portions
\* on sale since the counting began are the portions left plus those that
\* orders hold: none is lost and none is sold twice.
THEOREM PortionsConservedHolds == StockSpec => []PortionsConserved
  <1>1. StockInit => AllocationsAreOld /\ PortionsConserved
    BY DEF StockInit, AllocationsAreOld, PortionsConserved, Counted, None
  <1>2. StockInv /\ StockInv' /\ AllocationsAreOld /\ PortionsConserved /\ [StockNext]_stockVars
          => (AllocationsAreOld /\ PortionsConserved)'
    <2> SUFFICES ASSUME StockInv, StockInv', AllocationsAreOld, PortionsConserved, [StockNext]_stockVars
                 PROVE  (AllocationsAreOld /\ PortionsConserved)'
      OBVIOUS
    <2>1. ASSUME NEW o \in Orders,
                 \/ PlaceOrder(o) \/ AmendOrder(o) \/ ConfirmOrder(o)
                 \/ StartProduction(o) \/ CompleteOrder(o) \/ CancelOrder(o)
          PROVE  (AllocationsAreOld /\ PortionsConserved)'
      BY <2>1, OrderSteps, CommitConserves
    <2>2. ASSUME UNCHANGED << stock, alloc >>
          PROVE  (AllocationsAreOld /\ PortionsConserved)'
      BY <2>2 DEF stock, AllocationsAreOld, PortionsConserved, Counted, Held, HeldPortions,
                  Previous, SameEpoch
    <2>3. ASSUME NEW o \in Orders, BeginOrder(o) PROVE UNCHANGED << stock, alloc >>
      BY <2>3 DEF BeginOrder
    <2>4. ASSUME NEW m \in Editors, OpenEditor(m) PROVE UNCHANGED << stock, alloc >>
      BY <2>4 DEF OpenEditor, order
    <2>5. CASE UNCHANGED stockVars
      BY <2>2, <2>5 DEF stockVars, order
    <2> QED
      BY <2>1, <2>2, <2>3, <2>4, <2>5, SaveConserves DEF StockNext
  <1> QED
    BY <1>1, <1>2, StockInvariance, PTL DEF StockSpec
=============================================================================

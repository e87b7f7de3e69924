------------------------- MODULE PublicOrderCircuit -------------------------
(***************************************************************************)
(* The browser's circuit breaker for one public-order operation and the    *)
(* calls of requestPublicOrder that share it: Circuit A is the Supabase    *)
(* Edge function, Circuit B the Next.js route that takes over when A's     *)
(* infrastructure fails and the device has dual intake.                    *)
(*                                                                         *)
(* The breaker's methods are synchronous, so each is part of one step; a   *)
(* call is suspended while it awaits the availability flag, the primary    *)
(* response or the backup response.  openedAt is kept as sinceOpened, the  *)
(* time that has passed since, which stops counting at Cooldown.           *)
(***************************************************************************)
EXTENDS Integers, FiniteSets

CONSTANTS
    Calls,              \* concurrent requests of one page for one operation
    FailureThreshold,   \* failureThreshold
    Cooldown,           \* cooldownMs
    Timeout,            \* timeoutMs of the primary request
    DualChoices,        \* the answers the availability flag may give
    Abortable           \* the calls whose caller passes an abort signal

ASSUME CircuitConstants ==
    /\ FailureThreshold \in Nat \ {0}
    /\ Cooldown \in Nat
    /\ Timeout \in Nat
    /\ DualChoices \subseteq BOOLEAN
    /\ Abortable \subseteq Calls

\* 4 s against 10 s
ASSUME TimeoutBelowCooldown == Timeout < Cooldown

VARIABLES
    state,          \* breaker: state
    failureCount,   \* breaker: failureCount, which only matters up to the threshold
    sinceOpened,    \* breaker: now - openedAt
    probeInFlight,  \* breaker: halfOpenProbeInFlight
    pc,             \* [Calls -> where requestPublicOrder stands]
    age,            \* time since the primary request of the call started
    edgeUp,         \* environment: Circuit A answers
    abandoned       \* history: the latest half-open probe was aborted

breaker == << state, failureCount, sinceOpened, probeInFlight >>
circuitVars == << breaker, pc, age, edgeUp, abandoned >>

States == {"CLOSED", "OPEN", "HALF_OPEN"}

\* "probe" is a primary request that the breaker admitted in half-open state,
\* "primary" any other one.
CircuitStages == {"idle", "denied", "primary", "probe", "failed", "backup"}
AtPrimary(c) == pc[c] \in {"primary", "probe"}

CircuitTypeOK ==
    /\ state \in States
    /\ failureCount \in 0..FailureThreshold
    /\ sinceOpened \in 0..Cooldown
    /\ probeInFlight \in BOOLEAN
    /\ pc \in [Calls -> CircuitStages]
    /\ age \in [Calls -> 0..Timeout]
    /\ edgeUp \in BOOLEAN
    /\ abandoned \in BOOLEAN

CircuitInit ==
    /\ state = "CLOSED"
    /\ failureCount = 0
    /\ sinceOpened = 0
    /\ probeInFlight = FALSE
    /\ pc = [c \in Calls |-> "idle"]
    /\ age = [c \in Calls |-> 0]
    /\ edgeUp = TRUE
    /\ abandoned = FALSE

-----------------------------------------------------------------------------
\* The three answers of allowRequest, each with the step of the call it leads to.
BeginClosed(c) ==
    /\ pc[c] = "idle"
    /\ state = "CLOSED"
    /\ pc' = [pc EXCEPT ![c] = "primary"]
    /\ age' = [age EXCEPT ![c] = 0]
    /\ UNCHANGED << breaker, edgeUp, abandoned >>

ProbeAllowedEarly ==
    \/ state = "OPEN" /\ sinceOpened + 1 >= Timeout
    \/ state = "HALF_OPEN" /\ probeInFlight = FALSE
ProbeAllowed ==
    \/ state = "OPEN" /\ sinceOpened >= Cooldown
    \/ state = "HALF_OPEN" /\ probeInFlight = FALSE

BeginProbe(c) ==
    /\ pc[c] = "idle"
    /\ ProbeAllowed
    /\ state' = "HALF_OPEN"
    /\ probeInFlight' = TRUE
    /\ pc' = [pc EXCEPT ![c] = "probe"]
    /\ age' = [age EXCEPT ![c] = 0]
    /\ abandoned' = FALSE
    /\ UNCHANGED << failureCount, sinceOpened, edgeUp >>

BeginDeniedRestarting(c) ==
    /\ pc[c] = "idle"
    /\ state # "CLOSED" /\ ~ProbeAllowed
    /\ pc' = [pc EXCEPT ![c] = "denied"]
    /\ sinceOpened' = 0
    /\ UNCHANGED << state, failureCount, probeInFlight, age, edgeUp, abandoned >>
BeginDenied(c) ==
    /\ pc[c] = "idle"
    /\ state # "CLOSED" /\ ~ProbeAllowed
    /\ pc' = [pc EXCEPT ![c] = "denied"]
    /\ UNCHANGED << breaker, age, edgeUp, abandoned >>

\* A denied call awaits the availability flag.  With dual intake it goes to
\* Circuit B; without, it tries the primary all the same.
ResolveDenied(c) ==
    /\ pc[c] = "denied"
    /\ \E dual \in DualChoices :
           pc' = [pc EXCEPT ![c] = IF dual THEN "backup" ELSE "primary"]
    /\ age' = [age EXCEPT ![c] = 0]
    /\ UNCHANGED << breaker, edgeUp, abandoned >>

-----------------------------------------------------------------------------
RecordSuccess ==
    /\ state' = "CLOSED"
    /\ failureCount' = 0
    /\ sinceOpened' = 0
    /\ probeInFlight' = FALSE

\* Any answer that infrastructureResponse does not blame on infrastructure:
\* success, a business refusal, or a 5xx with one of NO_FALLBACK_CODES.
PrimaryAnswers(c) ==
    /\ AtPrimary(c)
    /\ edgeUp
    /\ RecordSuccess
    /\ pc' = [pc EXCEPT ![c] = "idle"]
    /\ age' = [age EXCEPT ![c] = 0]
    /\ UNCHANGED << edgeUp, abandoned >>

RecordFailureWithoutOpen ==
    /\ failureCount' = IF state = "HALF_OPEN" THEN failureCount
                       ELSE IF failureCount < FailureThreshold THEN failureCount + 1
                       ELSE failureCount
    /\ probeInFlight' = FALSE
    /\ state' = IF state # "HALF_OPEN" /\ failureCount' >= FailureThreshold
                THEN "OPEN" ELSE state
    /\ sinceOpened' = IF state' = "OPEN" THEN 0 ELSE sinceOpened
\* recordInfrastructureFailure, with open() inside.
RecordInfrastructureFailure ==
    /\ failureCount' = IF state = "HALF_OPEN" THEN failureCount
                       ELSE IF failureCount < FailureThreshold THEN failureCount + 1
                       ELSE failureCount
    /\ probeInFlight' = FALSE
    /\ state' = IF state = "HALF_OPEN" \/ failureCount' >= FailureThreshold
                THEN "OPEN" ELSE state
    /\ sinceOpened' = IF state' = "OPEN" THEN 0 ELSE sinceOpened

\* Transport error, timeout, 408 or an infrastructure 5xx.
PrimaryFails(c) ==
    /\ AtPrimary(c)
    /\ ~edgeUp \/ age[c] = Timeout
    /\ RecordInfrastructureFailure
    /\ pc' = [pc EXCEPT ![c] = "failed"]
    /\ age' = [age EXCEPT ![c] = 0]
    /\ UNCHANGED << edgeUp, abandoned >>

\* After the failure is recorded the call awaits the flag: Circuit B, or an error.
ResolveFailed(c) ==
    /\ pc[c] = "failed"
    /\ \E dual \in DualChoices :
           pc' = [pc EXCEPT ![c] = IF dual THEN "backup" ELSE "idle"]
    /\ UNCHANGED << breaker, age, edgeUp, abandoned >>

\* Circuit B answers or fails: the breaker does not hear of it.
BackupEnds(c) ==
    /\ pc[c] = "backup"
    /\ pc' = [pc EXCEPT ![c] = "idle"]
    /\ UNCHANGED << breaker, age, edgeUp, abandoned >>

\* throwIfAborted: the caller's signal ends the call before anything is
\* recorded in the breaker.
Abort(c) ==
    /\ c \in Abortable
    /\ pc[c] # "idle"
    /\ pc' = [pc EXCEPT ![c] = "idle"]
    /\ age' = [age EXCEPT ![c] = 0]
    /\ abandoned' = (abandoned \/ pc[c] = "probe")
    /\ UNCHANGED << breaker, edgeUp >>

-----------------------------------------------------------------------------
EdgeChanges ==
    /\ edgeUp' = ~edgeUp
    /\ UNCHANGED << breaker, pc, age, abandoned >>

\* Time passes; AbortSignal.timeout has ended every primary request that is
\* older than Timeout.
Tick ==
    /\ \A c \in Calls : AtPrimary(c) => age[c] < Timeout
    /\ age' = [c \in Calls |-> IF AtPrimary(c) THEN age[c] + 1 ELSE age[c]]
    /\ sinceOpened' = IF state = "OPEN" /\ sinceOpened < Cooldown
                      THEN sinceOpened + 1 ELSE sinceOpened
    /\ UNCHANGED << state, failureCount, probeInFlight, pc, edgeUp, abandoned >>

Step(c) ==
    \/ BeginClosed(c) \/ BeginProbe(c) \/ BeginDenied(c) \/ ResolveDenied(c)
    \/ PrimaryAnswers(c) \/ PrimaryFails(c) \/ ResolveFailed(c) \/ BackupEnds(c)

CircuitNext ==
    \/ Tick
    \/ EdgeChanges
    \/ \E c \in Calls : Step(c) \/ Abort(c)

CircuitSpec == CircuitInit /\ [][CircuitNext]_circuitVars

\* Time passes, every call is carried on, and the page keeps calling (the order
\* tracker polls every three seconds).  A Circuit A that is up may be slow, but
\* not each time.  Aborts are nobody's obligation.
CircuitFairSpec ==
    /\ CircuitSpec
    /\ WF_circuitVars(Tick)
    /\ \A c \in Calls : WF_circuitVars(Step(c))
    /\ SF_circuitVars(\E c \in Calls : PrimaryAnswers(c))

-----------------------------------------------------------------------------
\* "10 秒冷卻後只允許 1 次 half-open 探測" (docs/DUAL_ORDER_INTAKE.md): late
\* failures and late successes of older calls may reopen or close the breaker
\* while the probe is still out, and yet two probes are never in flight.
AtMostOneProbe == \A c, d \in Calls : pc[c] = "probe" /\ pc[d] = "probe" => c = d

\* Half-open state always has its probe flagged, so allowRequest admits nobody
\* else until the outcome of a primary request has been recorded.
HalfOpenIsFlagged == state = "HALF_OPEN" => probeInFlight = TRUE

\* Half-open state ends with its probe: the call that will record the outcome
\* is in flight, unless its caller aborted it.  (An aborted probe records
\* nothing, and the flag it leaves behind admits nobody.)
HalfOpenHasProbe == state = "HALF_OPEN" => abandoned \/ \E c \in Calls : pc[c] = "probe"

\* Once Circuit A stays up the breaker closes again, and does so after every
\* later opening, although with dual intake only probes ever reach A.  Only a
\* half-open state whose probe was aborted may last.
BreakerRecovers ==
    <>[]edgeUp => []<>(state = "CLOSED" \/ (state = "HALF_OPEN" /\ abandoned))
=============================================================================

--------------------- MODULE LineNotificationJobsProofs ----------------------
(***************************************************************************)
(* For any number of jobs and workers: the lease keeps two workers off one *)
(* job until an invocation outlives it, a job that was sent stays so, and  *)
(* no push is started once consent or integration are gone.                *)
(***************************************************************************)
EXTENDS LineNotificationJobs, TLAPS

\* A worker that remembers or holds a job is in the part of its cycle that
\* claims and processes.
WorkInCycle ==
    \A w \in Workers, j \in Jobs :
        work[w][j] # "none" => cycle[w] \in {"claiming", "processing"}

\* Secrets that a worker may still read belong to a link that is in force:
\* every revocation takes them away.
CheckedHasConsent ==
    \A w \in Workers, j \in Jobs :
        work[w][j] = "checked" => consent = "GRANTED" /\ integration = "ACTIVE"

\* The lease: until an invocation overruns, the row of a job that is held is
\* in PROCESSING and was updated no earlier than its holder read the clock.
LeaseHeld ==
    ~ overrun =>
        /\ \A w \in Workers : age[w] <= LeaseTicks
        /\ \A w \in Workers, j \in Jobs :
             work[w][j] \in Holding => status[j] = "PROCESSING" /\ idle[j] <= age[w]

\* The inductive invariant.
Inv == /\ TypeOK /\ WorkInCycle /\ CheckedHasConsent /\ LeaseHeld
       /\ SingleSender

-----------------------------------------------------------------------------
LEMMA MaxOfTwo ==
    ASSUME NEW a \in Int, NEW b \in Int
    PROVE  Max({a, b}) = IF a >= b THEN a ELSE b
  <1>1. \E x \in {a, b} : \A y \in {a, b} : x >= y
    OBVIOUS
  <1> QED
    BY <1>1 DEF Max

LEMMA MinOfTwo ==
    ASSUME NEW a \in Int, NEW b \in Int
    PROVE  Min({a, b}) = IF a <= b THEN a ELSE b
  <1>1. \E x \in {a, b} : \A y \in {a, b} : x <= y
    OBVIOUS
  <1> QED
    BY <1>1 DEF Min

LEMMA InitInv == Init => Inv
  <1> SUFFICES ASSUME Init PROVE Inv
    OBVIOUS
  <1>1. TypeOK
    <2>1. alerted \in BOOLEAN /\ overrun \in BOOLEAN
      BY Zenon DEF Init
    <2>2. /\ attempts \in [Jobs -> 0..MaxAttempts] /\ due \in [Jobs -> Always..MaxDelay]
          /\ idle \in [Jobs -> 0..IdleCap] /\ age \in [Workers -> 0..CycleLimit]
          /\ faults \in 0..MaxFaults
      BY LineJobConstants DEF Init, Always, IdleCap
    <2>3. /\ status \in [Jobs -> Statuses] /\ recipient \in [Jobs -> {"none", "stored", "deleted"}]
          /\ cycle \in [Workers -> {"idle", "started", "recovered", "claiming", "processing"}]
          /\ work \in [Workers -> [Jobs -> Stages]]
      BY DEF Init, Statuses, Stages
    <2>4. loaded \in [Workers -> [Jobs -> 0..MaxAttempts]]
      BY LineJobConstants DEF Init
    <2> QED
      BY <2>1, <2>2, <2>3, <2>4 DEF Init, TypeOK
  <1>2. WorkInCycle /\ CheckedHasConsent /\ LeaseHeld /\ SingleSender
    BY LineJobConstants DEF Init, WorkInCycle, CheckedHasConsent, LeaseHeld,
                            SingleSender, Holding
  <1> QED
    BY <1>1, <1>2 DEF Inv

-----------------------------------------------------------------------------
(* Steps of others: they leave rows in PROCESSING alone, and take secrets  *)
(* away from workers.                                                      *)
LEMMA OutsideInv ==
    ASSUME Inv, TypeOK', UNCHANGED << attempts, cycle, age, overrun >>,
           \A j \in Jobs : status[j] = "PROCESSING" => status'[j] = "PROCESSING" /\ idle'[j] = idle[j],
           \A w \in Workers, j \in Jobs :
               work'[w][j] = work[w][j] \/ (work[w][j] = "checked" /\ work'[w][j] = "stale"),
           CheckedHasConsent'
    PROVE  Inv'
  <1>0. TypeOK /\ WorkInCycle /\ LeaseHeld /\ SingleSender
    BY DEF Inv
  <1>1. \A w \in Workers, j \in Jobs : /\ work'[w][j] \in Holding => work[w][j] \in Holding
                                       /\ work'[w][j] # "none" => work[w][j] # "none"
    BY DEF Holding
  <1>2. WorkInCycle'
    BY <1>0, <1>1 DEF WorkInCycle
  <1>3. (LeaseHeld /\ SingleSender)'
    BY <1>0, <1>1 DEF LeaseHeld, SingleSender
  <1> QED
    BY <1>2, <1>3 DEF Inv

LEMMA InvalidatedStep ==
    ASSUME TypeOK, work' = Invalidated(Jobs)
    PROVE  /\ work' \in [Workers -> [Jobs -> Stages]]
           /\ \A w \in Workers, j \in Jobs :
                /\ work'[w][j] = work[w][j] \/ (work[w][j] = "checked" /\ work'[w][j] = "stale")
                /\ work'[w][j] # "checked"
  <1>1. work \in [Workers -> [Jobs -> Stages]]
    BY DEF TypeOK
  <1> QED
    BY <1>1 DEF Invalidated, Stages

LEMMA EnqueueInv ==
    ASSUME Inv, NEW j \in Jobs, Enqueue(j)
    PROVE  Inv'
  <1>0. TypeOK /\ CheckedHasConsent
    BY DEF Inv
  <1>1. UNCHANGED << attempts, consent, integration, hook, cycle, age, work, loaded, overrun, alerted,
                     faults >>
    BY DEF Enqueue, linkage, workers
  <1>2. /\ status' = [status EXCEPT ![j] = "PENDING"] /\ due' = [due EXCEPT ![j] = 0]
        /\ idle' = [idle EXCEPT ![j] = 0] /\ recipient' = [recipient EXCEPT ![j] = "stored"]
        /\ status[j] = "ABSENT"
    BY DEF Enqueue
  <1>3. /\ status \in [Jobs -> Statuses] /\ due \in [Jobs -> Always..MaxDelay]
        /\ idle \in [Jobs -> 0..IdleCap] /\ recipient \in [Jobs -> {"none", "stored", "deleted"}]
    BY <1>0 DEF TypeOK
  <1>4. /\ status' \in [Jobs -> Statuses] /\ due' \in [Jobs -> Always..MaxDelay]
        /\ idle' \in [Jobs -> 0..IdleCap] /\ recipient' \in [Jobs -> {"none", "stored", "deleted"}]
    BY <1>2, <1>3, LineJobConstants DEF Statuses, Always, IdleCap
  <1>5. TypeOK'
    BY <1>0, <1>1, <1>4 DEF TypeOK
  <1>6. \A i \in Jobs : status[i] = "PROCESSING" => status'[i] = "PROCESSING" /\ idle'[i] = idle[i]
    BY <1>2, <1>3
  <1>7. CheckedHasConsent'
    BY <1>0, <1>1 DEF CheckedHasConsent
  <1> QED
    BY <1>1, <1>5, <1>6, <1>7, OutsideInv

LEMMA LinkInv ==
    ASSUME Inv, NEW templates \in SUBSET Jobs, LinkCustomer(templates)
    PROVE  Inv'
  <1> DEFINE new == {j \in templates : status[j] = "ABSENT"}
  <1>0. TypeOK
    BY DEF Inv
  <1>1. UNCHANGED << attempts, integration, hook, cycle, age, alerted, faults, loaded, overrun >>
    BY DEF LinkCustomer
  <1>2. /\ consent' = "GRANTED"
        /\ status' = [j \in Jobs |-> IF j \in new THEN "PENDING" ELSE status[j]]
        /\ due' = [j \in Jobs |-> IF j \in new THEN 0 ELSE due[j]]
        /\ idle' = [j \in Jobs |-> IF j \in new THEN 0 ELSE idle[j]]
        /\ recipient' = [j \in Jobs |->
                            CASE recipient[j] = "stored" -> "deleted"
                              [] j \in new -> "stored"
                              [] OTHER -> recipient[j]]
        /\ work' = Invalidated(Jobs)
    BY Zenon DEF LinkCustomer
  <1>3. /\ status \in [Jobs -> Statuses] /\ due \in [Jobs -> Always..MaxDelay]
        /\ idle \in [Jobs -> 0..IdleCap] /\ recipient \in [Jobs -> {"none", "stored", "deleted"}]
    BY <1>0 DEF TypeOK
  <1>4. /\ work' \in [Workers -> [Jobs -> Stages]]
        /\ \A w \in Workers, j \in Jobs :
             /\ work'[w][j] = work[w][j] \/ (work[w][j] = "checked" /\ work'[w][j] = "stale")
             /\ work'[w][j] # "checked"
    BY <1>0, <1>2, InvalidatedStep
  <1>5. \A j \in Jobs : j \in new => status[j] = "ABSENT"
    OBVIOUS
  <1> HIDE DEF new
  <1>6. /\ status' \in [Jobs -> Statuses] /\ due' \in [Jobs -> Always..MaxDelay]
        /\ idle' \in [Jobs -> 0..IdleCap]
    BY <1>2, <1>3, LineJobConstants DEF Statuses, Always, IdleCap
  <1>7. recipient' \in [Jobs -> {"none", "stored", "deleted"}]
    BY <1>2, <1>3
  <1>8. TypeOK'
    BY <1>0, <1>1, <1>2, <1>4, <1>6, <1>7 DEF TypeOK
  <1>9. \A i \in Jobs : status[i] = "PROCESSING" => status'[i] = "PROCESSING" /\ idle'[i] = idle[i]
    BY <1>2, <1>5
  <1>10. CheckedHasConsent'
    BY <1>4 DEF CheckedHasConsent
  <1> QED
    BY <1>1, <1>4, <1>8, <1>9, <1>10, OutsideInv

LEMMA CancelWaitingStep ==
    ASSUME TypeOK, CancelWaiting
    PROVE  /\ status' \in [Jobs -> Statuses] /\ due' \in [Jobs -> Always..MaxDelay]
           /\ idle' \in [Jobs -> 0..IdleCap]
           /\ \A i \in Jobs : status[i] = "PROCESSING" => status'[i] = "PROCESSING" /\ idle'[i] = idle[i]
           /\ \A i \in Jobs : status[i] = "SENT" => status'[i] = "SENT"
  <1> DEFINE waiting == {j \in Jobs : status[j] \in {"PENDING", "FAILED"}}
  <1>1. /\ status \in [Jobs -> Statuses] /\ due \in [Jobs -> Always..MaxDelay]
        /\ idle \in [Jobs -> 0..IdleCap]
    BY DEF TypeOK
  <1>2. /\ status' = [j \in Jobs |-> IF j \in waiting THEN "CANCELLED" ELSE status[j]]
        /\ due' = [j \in Jobs |-> IF j \in waiting THEN Always ELSE due[j]]
        /\ idle' = [j \in Jobs |-> IF j \in waiting THEN 0 ELSE idle[j]]
    BY Zenon DEF CancelWaiting
  <1>3. \A j \in Jobs : j \in waiting => status[j] \in {"PENDING", "FAILED"}
    OBVIOUS
  <1>4. Always \in Always..MaxDelay /\ 0 \in 0..IdleCap
    BY LineJobConstants DEF Always, IdleCap
  <1> HIDE DEF waiting
  <1> QED
    BY <1>1, <1>2, <1>3, <1>4 DEF Statuses

LEMMA RevokeInv ==
    ASSUME Inv, RevokeContacts, hook' \in {"none", "sent", "stored"},
           UNCHANGED << attempts, integration, cycle, age, alerted, faults, loaded, overrun >>
    PROVE  Inv'
  <1>0. TypeOK /\ CheckedHasConsent
    BY DEF Inv
  <1>1. CASE consent = "GRANTED"
    <2>1. /\ consent' = "REVOKED" /\ CancelWaiting
          /\ recipient' = [j \in Jobs |-> IF recipient[j] = "stored" THEN "deleted" ELSE recipient[j]]
          /\ work' = Invalidated(Jobs)
      BY <1>1 DEF RevokeContacts
    <2>2. /\ work' \in [Workers -> [Jobs -> Stages]]
          /\ \A w \in Workers, j \in Jobs :
               /\ work'[w][j] = work[w][j] \/ (work[w][j] = "checked" /\ work'[w][j] = "stale")
               /\ work'[w][j] # "checked"
      BY <1>0, <2>1, InvalidatedStep
    <2>3. /\ status' \in [Jobs -> Statuses] /\ due' \in [Jobs -> Always..MaxDelay]
          /\ idle' \in [Jobs -> 0..IdleCap]
          /\ \A i \in Jobs : status[i] = "PROCESSING" => status'[i] = "PROCESSING" /\ idle'[i] = idle[i]
      BY <1>0, <2>1, CancelWaitingStep
    <2>4. recipient' \in [Jobs -> {"none", "stored", "deleted"}]
      BY <1>0, <2>1 DEF TypeOK
    <2>5. TypeOK'
      BY <1>0, <2>1, <2>2, <2>3, <2>4 DEF TypeOK
    <2>6. CheckedHasConsent'
      BY <2>2 DEF CheckedHasConsent
    <2> QED
      BY <2>2, <2>3, <2>5, <2>6, OutsideInv
  <1>2. CASE consent # "GRANTED"
    <2>1. UNCHANGED << consent, status, due, idle, recipient, work >>
      BY <1>2 DEF RevokeContacts
    <2>2. TypeOK' /\ CheckedHasConsent'
      BY <1>0, <2>1 DEF TypeOK, CheckedHasConsent
    <2> QED
      BY <2>1, <2>2, OutsideInv
  <1> QED
    BY <1>1, <1>2

LEMMA HookInv ==
    ASSUME Inv, RevokeByCustomer \/ Unfollow \/ WebhookStores \/ WebhookRevokes \/ WebhookFails
    PROVE  Inv'
  <1>0. TypeOK /\ CheckedHasConsent
    BY DEF Inv
  <1>1. CASE RevokeByCustomer
    BY <1>0, <1>1, RevokeInv DEF RevokeByCustomer, TypeOK
  <1>2. CASE WebhookRevokes
    BY <1>2, RevokeInv DEF WebhookRevokes
  <1>3. CASE Unfollow \/ WebhookStores \/ WebhookFails
    <2>1. UNCHANGED << status, attempts, due, idle, recipient, consent, integration, cycle, age,
                       work, loaded, overrun, alerted >>
      BY <1>3 DEF Unfollow, WebhookStores, WebhookFails, rows, workers
    <2>2. hook' \in {"none", "sent", "stored"} /\ faults' \in 0..MaxFaults
      BY <1>0, <1>3, LineJobConstants DEF Unfollow, WebhookStores, WebhookFails, TypeOK
    <2>3. TypeOK' /\ CheckedHasConsent'
      BY <1>0, <2>1, <2>2 DEF TypeOK, CheckedHasConsent
    <2> QED
      BY <2>1, <2>3, OutsideInv
  <1> QED
    BY <1>1, <1>2, <1>3

LEMMA IntegrationInv ==
    ASSUME Inv, DisableIntegration \/ UpsertIntegration
    PROVE  Inv'
  <1>0. TypeOK
    BY DEF Inv
  <1>1. /\ UNCHANGED << attempts, recipient, consent, hook, cycle, age, alerted, faults, loaded, overrun >>
        /\ work' = Invalidated(Jobs) /\ integration' \in {"ACTIVE", "DISABLED"}
        /\ CancelWaiting \/ UNCHANGED << status, due, idle >>
    BY DEF DisableIntegration, UpsertIntegration, rows
  <1>2. /\ work' \in [Workers -> [Jobs -> Stages]]
        /\ \A w \in Workers, j \in Jobs :
             /\ work'[w][j] = work[w][j] \/ (work[w][j] = "checked" /\ work'[w][j] = "stale")
             /\ work'[w][j] # "checked"
    BY <1>0, <1>1, InvalidatedStep
  <1>3. /\ status' \in [Jobs -> Statuses] /\ due' \in [Jobs -> Always..MaxDelay]
        /\ idle' \in [Jobs -> 0..IdleCap]
        /\ \A i \in Jobs : status[i] = "PROCESSING" => status'[i] = "PROCESSING" /\ idle'[i] = idle[i]
    <2>1. CASE CancelWaiting
      BY <1>0, <2>1, CancelWaitingStep
    <2>2. CASE UNCHANGED << status, due, idle >>
      BY <1>0, <2>2 DEF TypeOK
    <2> QED
      BY <1>1, <2>1, <2>2
  <1>4. TypeOK'
    BY <1>0, <1>1, <1>2, <1>3 DEF TypeOK
  <1>5. CheckedHasConsent'
    BY <1>2 DEF CheckedHasConsent
  <1> QED
    BY <1>1, <1>2, <1>3, <1>4, <1>5, OutsideInv

\* Steps that at most empty hands.
LEMMA EmptyHandsInv ==
    ASSUME Inv, TypeOK', UNCHANGED << status, attempts, idle, consent, integration, cycle, age, overrun >>,
           \A w \in Workers, j \in Jobs : work'[w][j] = work[w][j] \/ work'[w][j] = "none"
    PROVE  Inv'
  <1>1. \A w \in Workers, j \in Jobs : work'[w][j] \in Holding => work[w][j] \in Holding
    BY DEF Holding
  <1>2. (WorkInCycle /\ CheckedHasConsent)'
    BY <1>1 DEF Inv, WorkInCycle, CheckedHasConsent
  <1>3. (LeaseHeld /\ SingleSender)'
    BY <1>1 DEF Inv, LeaseHeld, SingleSender
  <1> QED
    BY <1>2, <1>3 DEF Inv

-----------------------------------------------------------------------------
(* Steps of a worker with a job it holds.  The row of that job may change, *)
(* because nobody else holds it.                                           *)
LEMMA HolderInv ==
    ASSUME Inv, TypeOK', NEW w \in Workers, NEW j \in Jobs,
           work[w][j] \in Holding \cup {"alerting"},
           UNCHANGED << attempts, consent, integration, cycle, age, overrun >>,
           \A i \in Jobs : i # j => status'[i] = status[i] /\ idle'[i] = idle[i],
           \A v \in Workers, i \in Jobs : (v # w \/ i # j) => work'[v][i] = work[v][i],
           \/ status'[j] = status[j] /\ idle'[j] = idle[j]
           \/ work[w][j] \in Holding /\ work'[w][j] \notin Holding,
           work'[w][j] \in Holding => work[w][j] \in Holding,
           work'[w][j] = "checked" => consent = "GRANTED" /\ integration = "ACTIVE"
    PROVE  Inv'
  <1>0. TypeOK /\ WorkInCycle /\ LeaseHeld /\ SingleSender /\ CheckedHasConsent
    BY DEF Inv
  <1>1. work[w][j] # "none"
    BY DEF Holding
  <1>2. WorkInCycle'
    BY <1>0, <1>1 DEF WorkInCycle
  <1>3. \A v \in Workers, i \in Jobs : work'[v][i] \in Holding => work[v][i] \in Holding
    OBVIOUS
  <1>5. CheckedHasConsent'
    BY <1>0 DEF CheckedHasConsent
  <1>6. SingleSender'
    BY <1>0, <1>3 DEF SingleSender
  <1>7. LeaseHeld'
    <2> SUFFICES ASSUME ~ overrun, NEW v \in Workers, NEW i \in Jobs, work'[v][i] \in Holding
                 PROVE  status'[i] = "PROCESSING" /\ idle'[i] <= age[v]
      BY <1>0 DEF LeaseHeld
    <2>1. status[i] = "PROCESSING" /\ idle[i] <= age[v] /\ work[v][i] \in Holding
      BY <1>0, <1>3 DEF LeaseHeld
    <2>2. CASE i # j
      BY <2>1, <2>2
    <2>3. CASE i = j
      BY <1>0, <2>1, <2>3 DEF SingleSender
    <2> QED
      BY <2>2, <2>3
  <1> QED
    BY <1>2, <1>5, <1>6, <1>7 DEF Inv

LEMMA MoveStep ==
    ASSUME TypeOK, NEW w \in Workers, NEW j \in Jobs, NEW s \in Stages, MoveTo(w, j, s)
    PROVE  /\ work' \in [Workers -> [Jobs -> Stages]]
           /\ work'[w][j] = s
           /\ \A v \in Workers, i \in Jobs : (v # w \/ i # j) => work'[v][i] = work[v][i]
  BY DEF TypeOK, MoveTo

\* ReadSecrets, LineAnswers, RecordSentFails and RaiseAlert move a job on
\* without touching its row.
LEMMA MoveInv ==
    ASSUME Inv, NEW w \in Workers, NEW j \in Jobs,
           ReadSecrets(w, j) \/ LineAnswers(w, j) \/ RecordSentFails(w, j) \/ RaiseAlert(w, j)
    PROVE  Inv'
  <1>0. TypeOK
    BY DEF Inv
  <1>1. UNCHANGED << status, attempts, due, idle, recipient, consent, integration, hook, cycle,
                     age, loaded, overrun >>
    BY DEF ReadSecrets, LineAnswers, RecordSentFails, RaiseAlert, rows, linkage
  <1>2. PICK s \in {"none", "sending", "ok", "retryable", "fatal"} :
          /\ MoveTo(w, j, s)
          /\ work[w][j] \in Holding \cup {"alerting"}
          /\ work[w][j] = "alerting" => s = "none"
    BY DEF ReadSecrets, LineAnswers, RecordSentFails, RaiseAlert, Holding
  <1>3. faults' \in 0..MaxFaults
    BY <1>0, LineJobConstants DEF ReadSecrets, LineAnswers, RecordSentFails, RaiseAlert, TypeOK
  <1>4. alerted' \in BOOLEAN
    BY <1>0, Zenon DEF ReadSecrets, LineAnswers, RecordSentFails, RaiseAlert, TypeOK
  <1>5. /\ work' \in [Workers -> [Jobs -> Stages]]
        /\ work'[w][j] = s
        /\ \A v \in Workers, i \in Jobs : (v # w \/ i # j) => work'[v][i] = work[v][i]
    BY <1>0, <1>2, MoveStep DEF Stages
  <1>6. TypeOK'
    BY <1>0, <1>1, <1>3, <1>4, <1>5 DEF TypeOK
  <1>7. work'[w][j] \in Holding => work[w][j] \in Holding
    BY <1>2, <1>5 DEF Holding
  <1> QED
    BY <1>1, <1>2, <1>5, <1>6, <1>7, HolderInv

LEMMA WriteStep ==
    ASSUME TypeOK, NEW j \in Jobs, NEW s \in Statuses, NEW next \in Always..MaxDelay,
           Write(j, s, next)
    PROVE  /\ status' \in [Jobs -> Statuses] /\ due' \in [Jobs -> Always..MaxDelay]
           /\ idle' \in [Jobs -> 0..IdleCap]
           /\ \A i \in Jobs : i # j => status'[i] = status[i] /\ idle'[i] = idle[i]
           /\ \A i \in Jobs : status[i] = "SENT" => status'[i] = "SENT"
  <1>1. /\ status \in [Jobs -> Statuses] /\ due \in [Jobs -> Always..MaxDelay]
        /\ idle \in [Jobs -> 0..IdleCap] /\ 0 \in 0..IdleCap
    BY LineJobConstants DEF TypeOK, IdleCap
  <1> QED
    BY <1>1 DEF Write, TerminalCheck

LEMMA NextAttemptType ==
    ASSUME TypeOK, NEW w \in Workers, NEW j \in Jobs
    PROVE  NextAttempt(w, j) \in Always..MaxDelay
  <1> DEFINE doublings == Max({0, loaded[w][j] - 1})
             delay == 2 ^ doublings
             until == Min({MaxDelay, delay}) - age[w]
  <1>1. loaded[w][j] - 1 \in Int /\ age[w] \in Nat /\ Always \in Int /\ MaxDelay \in Nat
        /\ Always <= MaxDelay
    BY LineJobConstants DEF TypeOK, Always
  <1>2. delay \in Int
    <2>1. doublings = IF 0 >= loaded[w][j] - 1 THEN 0 ELSE loaded[w][j] - 1
      BY <1>1, MaxOfTwo
    <2>2. doublings \in Nat
      BY <1>1, <2>1
    <2> HIDE DEF doublings
    <2> QED
      BY <2>2
  <1> HIDE DEF delay
  <1>3. Min({MaxDelay, delay}) = IF MaxDelay <= delay THEN MaxDelay ELSE delay
    BY <1>1, <1>2, MinOfTwo
  <1>4. until \in Int /\ until <= MaxDelay
    BY <1>1, <1>2, <1>3
  <1> HIDE DEF until
  <1>5. Max({Always, until}) = IF Always >= until THEN Always ELSE until
    BY <1>1, <1>4, MaxOfTwo
  <1>6. NextAttempt(w, j) = Max({Always, until}) \/ NextAttempt(w, j) = Always
    BY DEF NextAttempt, until, delay, doublings
  <1> QED
    BY <1>1, <1>4, <1>5, <1>6

\* Check, RecordSent and RecordFailed end with a write that names the row by
\* its id, and with the job out of the worker's hands.
LEMMA FinishInv ==
    ASSUME Inv, NEW w \in Workers, NEW j \in Jobs,
           Check(w, j) \/ RecordSent(w, j) \/ RecordFailed(w, j)
    PROVE  Inv'
  <1>0. TypeOK
    BY DEF Inv
  <1>1. UNCHANGED << attempts, recipient, consent, integration, hook, cycle, age, alerted, faults,
                     overrun >>
    BY DEF Check, RecordSent, RecordFailed, linkage
  <1>2. work[w][j] \in Holding
    BY DEF Check, RecordSent, RecordFailed, Holding
  <1>3. due[j] \in Always..MaxDelay /\ NextAttempt(w, j) \in Always..MaxDelay
    BY <1>0, NextAttemptType DEF TypeOK
  <1>4. \/ /\ MoveTo(w, j, "none") \/ MoveTo(w, j, "alerting")
           /\ \E s \in Statuses, next \in Always..MaxDelay : Write(j, s, next)
        \/ /\ MoveTo(w, j, "none") \/ MoveTo(w, j, "stale")
           /\ UNCHANGED << status, due, idle >>
        \/ /\ MoveTo(w, j, "checked") /\ consent = "GRANTED" /\ integration = "ACTIVE"
           /\ UNCHANGED << status, due, idle >>
    <2>1. CASE Check(w, j)
      BY <1>3, <2>1 DEF Check, Statuses
    <2>2. CASE RecordSent(w, j)
      BY <1>3, <2>2 DEF RecordSent, Statuses
    <2>3. CASE RecordFailed(w, j)
      BY <1>3, <2>3 DEF RecordFailed, Statuses
    <2> QED
      BY <2>1, <2>2, <2>3
  <1>5. PICK t \in Stages :
          /\ MoveTo(w, j, t)
          /\ t = "checked" => consent = "GRANTED" /\ integration = "ACTIVE"
          /\ \/ UNCHANGED << status, due, idle >>
             \/ /\ t \notin Holding
                /\ \E s \in Statuses, next \in Always..MaxDelay : Write(j, s, next)
    BY <1>4 DEF Stages, Holding
  <1>6. /\ work' \in [Workers -> [Jobs -> Stages]]
        /\ work'[w][j] = t
        /\ \A v \in Workers, i \in Jobs : (v # w \/ i # j) => work'[v][i] = work[v][i]
    BY <1>0, <1>5, MoveStep
  <1>7. /\ status' \in [Jobs -> Statuses] /\ due' \in [Jobs -> Always..MaxDelay]
        /\ idle' \in [Jobs -> 0..IdleCap]
        /\ \A i \in Jobs : i # j => status'[i] = status[i] /\ idle'[i] = idle[i]
    <2>1. CASE UNCHANGED << status, due, idle >>
      BY <1>0, <2>1 DEF TypeOK
    <2>2. CASE \E s \in Statuses, next \in Always..MaxDelay : Write(j, s, next)
      BY <1>0, <2>2, WriteStep
    <2> QED
      BY <1>5, <2>1, <2>2
  <1>10. loaded' \in [Workers -> [Jobs -> 0..MaxAttempts]]
    <2>1. loaded \in [Workers -> [Jobs -> 0..MaxAttempts]] /\ 0 \in 0..MaxAttempts
          /\ attempts[j] \in 0..MaxAttempts
      BY <1>0, LineJobConstants DEF TypeOK
    <2>2. \/ loaded' = loaded
          \/ \E n \in {0, attempts[j]} : loaded' = [loaded EXCEPT ![w][j] = n]
      BY DEF Check, RecordSent, RecordFailed, Forget
    <2> QED
      BY <2>1, <2>2
  <1>8. TypeOK'
    BY <1>0, <1>1, <1>6, <1>7, <1>10 DEF TypeOK
  <1>9. \/ status'[j] = status[j] /\ idle'[j] = idle[j]
        \/ work[w][j] \in Holding /\ work'[w][j] \notin Holding
    BY <1>2, <1>5, <1>6
  <1> QED
    BY <1>1, <1>2, <1>5, <1>6, <1>7, <1>8, <1>9, HolderInv

\* The compare-and-set: whoever claims a job finds it out of PROCESSING, so
\* nobody holds it.
LEMMA ClaimInv ==
    ASSUME Inv, NEW w \in Workers, NEW j \in Jobs, Claim(w, j)
    PROVE  Inv'
  <1>0. TypeOK /\ WorkInCycle /\ LeaseHeld /\ SingleSender /\ CheckedHasConsent
    BY DEF Inv
  <1>1. UNCHANGED << recipient, consent, integration, hook, cycle, age, alerted, faults, loaded, overrun >>
    BY DEF Claim, linkage
  <1>2. /\ status \in [Jobs -> Statuses] /\ due \in [Jobs -> Always..MaxDelay]
        /\ idle \in [Jobs -> 0..IdleCap] /\ attempts \in [Jobs -> 0..MaxAttempts]
        /\ work \in [Workers -> [Jobs -> Stages]] /\ age \in [Workers -> 0..CycleLimit]
    BY <1>0 DEF TypeOK
  <1>3. Always \in Always..MaxDelay /\ 0 \in 0..IdleCap /\ MaxAttempts \in Nat
    BY LineJobConstants DEF Always, IdleCap
  <1>4. cycle[w] = "claiming" /\ work[w][j] \in {"sawPENDING", "sawFAILED"}
    BY DEF Claim
  <1>5. CASE SawStatus(w, j) /\ HasAttemptsLeft(j)
    <2>1. /\ status' = [status EXCEPT ![j] = "PROCESSING"]
          /\ attempts' = [attempts EXCEPT ![j] = @ + 1]
          /\ due' = [due EXCEPT ![j] = Always]
          /\ idle' = [idle EXCEPT ![j] = 0]
          /\ work' = [work EXCEPT ![w][j] = "claimed"]
      BY <1>5 DEF Claim
    <2>2. status[j] # "PROCESSING" /\ attempts[j] < MaxAttempts
      BY <1>5 DEF SawStatus, HasAttemptsLeft
    <2>3. /\ status' \in [Jobs -> Statuses] /\ due' \in [Jobs -> Always..MaxDelay]
          /\ idle' \in [Jobs -> 0..IdleCap]
      BY <1>2, <1>3, <2>1 DEF Statuses
    <2>4. attempts' \in [Jobs -> 0..MaxAttempts] /\ \A i \in Jobs : attempts'[i] >= attempts[i]
      BY <1>2, <1>3, <2>1, <2>2
    <2>5. /\ work' \in [Workers -> [Jobs -> Stages]] /\ work'[w][j] = "claimed"
          /\ \A v \in Workers, i \in Jobs : (v # w \/ i # j) => work'[v][i] = work[v][i]
      BY <1>2, <2>1 DEF Stages
    <2>6. TypeOK'
      BY <1>0, <1>1, <2>3, <2>4, <2>5 DEF TypeOK
    <2>7. (WorkInCycle /\ CheckedHasConsent)'
      BY <1>0, <1>1, <1>4, <2>5 DEF WorkInCycle, CheckedHasConsent
    <2>9. LeaseHeld'
      <3> SUFFICES ASSUME ~ overrun, NEW v \in Workers, NEW i \in Jobs, work'[v][i] \in Holding
                   PROVE  status'[i] = "PROCESSING" /\ idle'[i] <= age[v]
        BY <1>0, <1>1 DEF LeaseHeld
      <3>1. CASE i = j
        BY <1>2, <2>1, <3>1
      <3>2. CASE i # j
        BY <1>0, <1>2, <2>1, <2>5, <3>2 DEF LeaseHeld
      <3> QED
        BY <3>1, <3>2
    <2>10. SingleSender'
      <3> SUFFICES ASSUME ~ overrun, NEW i \in Jobs, NEW u \in Workers, NEW v \in Workers,
                          work'[u][i] \in Holding, work'[v][i] \in Holding
                   PROVE  u = v
        BY <1>1 DEF SingleSender
      <3>1. CASE i # j
        BY <1>0, <2>5, <3>1 DEF SingleSender
      <3>2. CASE i = j
        <4>1. \A x \in Workers : work[x][j] \notin Holding
          BY <1>0, <2>2 DEF LeaseHeld
        <4> QED
          BY <2>5, <3>2, <4>1
      <3> QED
        BY <3>1, <3>2
    <2> QED
      BY <2>6, <2>7, <2>9, <2>10 DEF Inv
  <1>6. CASE ~ (SawStatus(w, j) /\ HasAttemptsLeft(j))
    <2>1. work' = [work EXCEPT ![w][j] = "none"] /\ UNCHANGED << status, attempts, due, idle >>
      BY <1>6 DEF Claim
    <2>2. /\ work' \in [Workers -> [Jobs -> Stages]]
          /\ \A v \in Workers, i \in Jobs : work'[v][i] = work[v][i] \/ work'[v][i] = "none"
      BY <1>2, <2>1 DEF Stages
    <2>3. TypeOK'
      BY <1>0, <1>1, <2>1, <2>2 DEF TypeOK
    <2> QED
      BY <1>1, <2>1, <2>2, <2>3, EmptyHandsInv
  <1> QED
    BY <1>5, <1>6

-----------------------------------------------------------------------------
(* The cycle of an invocation, and time.                                   *)

\* Without work, a cycle may begin, move on to the candidates, end or die.
LEMMA CycleInv ==
    ASSUME Inv, NEW w \in Workers, BeginCycle(w) \/ EndCycle(w) \/ Crash(w) \/ StartProcessing(w)
    PROVE  Inv'
  <1>0. TypeOK /\ WorkInCycle /\ LeaseHeld /\ SingleSender /\ CheckedHasConsent
    BY DEF Inv
  <1>1. UNCHANGED << status, attempts, due, idle, recipient, consent, integration, hook, alerted,
                     overrun >>
    BY DEF BeginCycle, EndCycle, Crash, StartProcessing, rows, linkage
  <1>2. /\ cycle \in [Workers -> {"idle", "started", "recovered", "claiming", "processing"}]
        /\ work \in [Workers -> [Jobs -> Stages]] /\ age \in [Workers -> 0..CycleLimit]
        /\ faults \in 0..MaxFaults /\ CycleLimit \in Nat /\ LeaseTicks \in Nat /\ MaxFaults \in Nat
    BY <1>0, LineJobConstants DEF TypeOK
  <1>3. faults' \in 0..MaxFaults
    BY <1>2 DEF BeginCycle, EndCycle, Crash, StartProcessing
  <1>4. /\ cycle' \in [Workers -> {"idle", "started", "recovered", "claiming", "processing"}]
        /\ age' \in [Workers -> 0..CycleLimit]
        /\ \A v \in Workers : v # w => cycle'[v] = cycle[v]
        /\ \A v \in Workers : age'[v] <= age[v]
    <2>1. \E c \in {"idle", "started", "processing"} : cycle' = [cycle EXCEPT ![w] = c]
      BY DEF BeginCycle, EndCycle, Crash, StartProcessing
    <2>2. age' = age \/ age' = [age EXCEPT ![w] = 0]
      BY DEF BeginCycle, EndCycle, Crash, StartProcessing
    <2>3. age' \in [Workers -> 0..CycleLimit] /\ \A v \in Workers : age'[v] <= age[v]
      BY <1>2, <2>2
    <2> QED
      BY <1>2, <2>1, <2>3
  <1>5. work' \in [Workers -> [Jobs -> Stages]] /\ loaded' \in [Workers -> [Jobs -> 0..MaxAttempts]]
    <2>1. loaded \in [Workers -> [Jobs -> 0..MaxAttempts]] /\ 0 \in 0..MaxAttempts
      BY <1>0, LineJobConstants DEF TypeOK
    <2>2. loaded' = loaded \/ loaded' = [loaded EXCEPT ![w] = [j \in Jobs |-> 0]]
      BY DEF BeginCycle, EndCycle, Crash, StartProcessing
    <2>3. loaded' \in [Workers -> [Jobs -> 0..MaxAttempts]]
      BY <2>1, <2>2
    <2> QED
      BY <1>2, <2>3 DEF BeginCycle, EndCycle, Crash, StartProcessing, Stages
  <1>6. TypeOK'
    BY <1>0, <1>1, <1>3, <1>4, <1>5 DEF TypeOK
  <1>7. \A v \in Workers, i \in Jobs :
           work'[v][i] = "none"
           \/ (work'[v][i] = work[v][i] /\ age'[v] = age[v]
                 /\ cycle'[v] \in {"claiming", "processing"})
    <2>1. CASE BeginCycle(w)
      BY <1>0, <1>2, <2>1 DEF BeginCycle, WorkInCycle
    <2>2. CASE EndCycle(w)
      BY <1>0, <1>2, <2>2 DEF EndCycle, WorkInCycle
    <2>3. CASE Crash(w)
      BY <1>0, <1>2, <2>3 DEF Crash, WorkInCycle
    <2>4. CASE StartProcessing(w)
      BY <1>0, <1>2, <2>4 DEF StartProcessing, WorkInCycle
    <2> QED
      BY <2>1, <2>2, <2>3, <2>4
  <1>8. \A v \in Workers, i \in Jobs :
           work'[v][i] \in Holding => work[v][i] \in Holding /\ age'[v] = age[v]
    BY <1>7 DEF Holding
  <1>9. (WorkInCycle /\ CheckedHasConsent)'
    BY <1>0, <1>1, <1>7, <1>8 DEF WorkInCycle, CheckedHasConsent
  <1>10. LeaseHeld'
    BY <1>0, <1>1, <1>2, <1>4, <1>8 DEF LeaseHeld
  <1>11. SingleSender'
    BY <1>0, <1>1, <1>8 DEF SingleSender
  <1> QED
    BY <1>6, <1>9, <1>10, <1>11 DEF Inv

\* The heart of the lease: what a recovery takes away has been idle for longer
\* than the lease, and nobody who started within the lease holds such a row.
LEMMA RecoverInv ==
    ASSUME Inv, NEW w \in Workers, RecoverExpired(w)
    PROVE  Inv'
  <1> DEFINE expired == Recoverable(w)
  <1>0. TypeOK /\ WorkInCycle /\ LeaseHeld /\ SingleSender /\ CheckedHasConsent
    BY DEF Inv
  <1>1. UNCHANGED << attempts, recipient, consent, integration, hook, age, work, alerted, faults,
                     loaded, overrun >>
    BY DEF RecoverExpired, linkage
  <1>2. /\ status' = [j \in Jobs |-> IF j \in expired THEN "FAILED" ELSE status[j]]
        /\ due' = [j \in Jobs |-> IF j \in expired THEN 0 - age[w] ELSE due[j]]
        /\ idle' = [j \in Jobs |-> IF j \in expired THEN 0 ELSE idle[j]]
        /\ cycle' = [cycle EXCEPT ![w] = "recovered"] /\ cycle[w] = "started"
    BY Zenon DEF RecoverExpired
  <1>3. /\ status \in [Jobs -> Statuses] /\ due \in [Jobs -> Always..MaxDelay]
        /\ idle \in [Jobs -> 0..IdleCap] /\ age \in [Workers -> 0..CycleLimit]
        /\ cycle \in [Workers -> {"idle", "started", "recovered", "claiming", "processing"}]
    BY <1>0 DEF TypeOK
  <1>4. \A j \in expired : idle[j] > LeaseTicks + age[w]
    BY DEF Recoverable
  <1>5. 0 - age[w] \in Always..MaxDelay /\ 0 \in 0..IdleCap
    BY <1>3, LineJobConstants DEF Always, IdleCap
  <1> HIDE DEF expired
  <1>6. /\ status' \in [Jobs -> Statuses] /\ due' \in [Jobs -> Always..MaxDelay]
        /\ idle' \in [Jobs -> 0..IdleCap]
    BY <1>2, <1>3, <1>5 DEF Statuses
  <1>7. cycle' \in [Workers -> {"idle", "started", "recovered", "claiming", "processing"}]
    BY <1>2, <1>3
  <1>8. TypeOK'
    BY <1>0, <1>1, <1>6, <1>7 DEF TypeOK
  <1>9. (WorkInCycle /\ CheckedHasConsent /\ SingleSender)'
    BY <1>0, <1>1, <1>2, <1>3 DEF WorkInCycle, CheckedHasConsent, SingleSender
  <1>10. LeaseHeld'
    <2> SUFFICES ASSUME ~ overrun, NEW v \in Workers, NEW j \in Jobs, work[v][j] \in Holding
                 PROVE  status'[j] = "PROCESSING" /\ idle'[j] <= age[v]
      BY <1>0, <1>1 DEF LeaseHeld
    <2>1. status[j] = "PROCESSING" /\ idle[j] <= age[v] /\ age[v] <= LeaseTicks
      BY <1>0 DEF LeaseHeld
    <2>2. j \notin expired
      BY <1>3, <1>4, <2>1, LineJobConstants DEF IdleCap
    <2> QED
      BY <1>2, <2>1, <2>2
  <1> QED
    BY <1>8, <1>9, <1>10 DEF Inv

LEMMA ListInv ==
    ASSUME Inv, NEW w \in Workers, ListCandidates(w)
    PROVE  Inv'
  <1>0. TypeOK /\ WorkInCycle /\ LeaseHeld /\ SingleSender /\ CheckedHasConsent
    BY DEF Inv
  <1>1. UNCHANGED << status, attempts, due, idle, recipient, consent, integration, hook, age, alerted,
                     faults, loaded, overrun >>
    BY DEF ListCandidates, rows, linkage
  <1>2. /\ work \in [Workers -> [Jobs -> Stages]]
        /\ cycle \in [Workers -> {"idle", "started", "recovered", "claiming", "processing"}]
    BY <1>0 DEF TypeOK
  <1>3. cycle' = [cycle EXCEPT ![w] = "claiming"]
    BY DEF ListCandidates
  <1>4. /\ work' \in [Workers -> [Jobs -> Stages]]
        /\ \A j \in Jobs : work'[w][j] \in {"none", "sawPENDING", "sawFAILED"}
        /\ \A v \in Workers : v # w => work'[v] = work[v]
    BY <1>2 DEF ListCandidates, Stages
  <1>5. \A v \in Workers, j \in Jobs : work'[v][j] \in Holding => work[v][j] \in Holding
    BY <1>4 DEF Holding
  <1>6. TypeOK'
    BY <1>0, <1>1, <1>2, <1>3, <1>4 DEF TypeOK
  <1>7. (WorkInCycle /\ CheckedHasConsent)'
    BY <1>0, <1>1, <1>2, <1>3, <1>4, <1>5 DEF WorkInCycle, CheckedHasConsent
  <1>8. (LeaseHeld /\ SingleSender)'
    BY <1>0, <1>1, <1>5 DEF LeaseHeld, SingleSender
  <1> QED
    BY <1>6, <1>7, <1>8 DEF Inv

LEMMA TickInv ==
    ASSUME Inv, Tick
    PROVE  Inv'
  <1>0. TypeOK /\ WorkInCycle /\ LeaseHeld /\ SingleSender /\ CheckedHasConsent
    BY DEF Inv
  <1>1. UNCHANGED << status, attempts, recipient, consent, integration, hook, cycle, work, loaded,
                     alerted, faults >>
    BY DEF Tick, linkage
  <1>2. /\ due \in [Jobs -> Always..MaxDelay] /\ idle \in [Jobs -> 0..IdleCap]
        /\ age \in [Workers -> 0..CycleLimit] /\ CycleLimit \in Nat /\ LeaseTicks \in Nat
        /\ Always \in Int /\ MaxDelay \in Nat /\ IdleCap \in Nat /\ Always <= MaxDelay
    BY <1>0, LineJobConstants DEF TypeOK, Always, IdleCap
  <1>3. /\ \A w \in Workers : cycle[w] # "idle" => age[w] < CycleLimit
        /\ age' = [w \in Workers |-> IF cycle[w] = "idle" THEN 0 ELSE age[w] + 1]
        /\ due' = [j \in Jobs |-> IF due[j] > Always THEN due[j] - 1 ELSE Always]
        /\ idle' = [j \in Jobs |-> IF status[j] = "PROCESSING"
                                     THEN Min({idle[j] + 1, IdleCap}) ELSE 0]
    BY DEF Tick
  <1>4. \A j \in Jobs : Min({idle[j] + 1, IdleCap}) = IF idle[j] + 1 <= IdleCap THEN idle[j] + 1 ELSE IdleCap
    BY <1>2, MinOfTwo
  <1>5. age' \in [Workers -> 0..CycleLimit]
    BY <1>2, <1>3
  <1>6. due' \in [Jobs -> Always..MaxDelay]
    BY <1>2, <1>3
  <1>7. idle' \in [Jobs -> 0..IdleCap] /\ \A j \in Jobs : idle'[j] <= idle[j] + 1
    BY <1>2, <1>3, <1>4
  <1>8. overrun' \in BOOLEAN
    BY Zenon DEF Tick
  <1>9. TypeOK'
    BY <1>0, <1>1, <1>5, <1>6, <1>7, <1>8 DEF TypeOK
  <1>10. ~ overrun' => ~ overrun /\ \A w \in Workers : ~ (age'[w] > LeaseTicks)
    BY Zenon DEF Tick
  <1>11. (WorkInCycle /\ CheckedHasConsent)'
    BY <1>0, <1>1 DEF WorkInCycle, CheckedHasConsent
  <1>12. SingleSender'
    BY <1>0, <1>1, <1>10 DEF SingleSender
  <1>13. LeaseHeld'
    <2> SUFFICES ASSUME ~ overrun'
                 PROVE  /\ \A w \in Workers : age'[w] <= LeaseTicks
                        /\ \A w \in Workers, j \in Jobs :
                             work[w][j] \in Holding => status[j] = "PROCESSING" /\ idle'[j] <= age'[w]
      BY <1>1 DEF LeaseHeld
    <2>1. \A w \in Workers : age'[w] <= LeaseTicks
      BY <1>2, <1>5, <1>10
    <2>2. ASSUME NEW w \in Workers, NEW j \in Jobs, work[w][j] \in Holding
          PROVE  status[j] = "PROCESSING" /\ idle'[j] <= age'[w]
      <3>1. status[j] = "PROCESSING" /\ idle[j] <= age[w]
        BY <1>0, <1>10, <2>2 DEF LeaseHeld
      <3>2. cycle[w] # "idle"
        BY <1>0, <2>2 DEF WorkInCycle, Holding
      <3>3. age'[w] = age[w] + 1
        BY <1>3, <3>2
      <3> QED
        BY <1>2, <1>7, <3>1, <3>3
    <2> QED
      BY <2>1, <2>2
  <1> QED
    BY <1>9, <1>11, <1>12, <1>13 DEF Inv

LEMMA Invariance == Spec => []Inv
  <1>1. Inv /\ [Next]_vars => Inv'
    <2> SUFFICES ASSUME Inv, [Next]_vars PROVE Inv'
      OBVIOUS
    <2>1. ASSUME NEW w \in Workers, WorkerStep(w) PROVE Inv'
      BY <2>1, RecoverInv, ListInv, CycleInv, ClaimInv, MoveInv, FinishInv DEF WorkerStep
    <2>2. CASE Faults
      BY <2>2, HookInv, CycleInv, MoveInv DEF Faults
    <2>3. ASSUME NEW t \in {{}} \cup {{j} : j \in Jobs}, LinkCustomer(t) PROVE Inv'
      BY <2>3, LinkInv
    <2>4. CASE UNCHANGED vars
      <3>1. UNCHANGED << status, attempts, due, idle, recipient, consent, integration, hook, cycle,
                         age, work, loaded, overrun, alerted, faults >>
        BY <2>4 DEF vars, rows, linkage, workers
      <3>2. TypeOK'
        BY <3>1 DEF Inv, TypeOK
      <3> QED
        BY <3>1, <3>2, EmptyHandsInv
    <2> QED
      BY <2>1, <2>2, <2>3, <2>4, EnqueueInv, HookInv, IntegrationInv, CycleInv, TickInv DEF Next
  <1> QED
    BY <1>1, InitInv, PTL DEF Spec

-----------------------------------------------------------------------------
\* The variables keep their types: no job is attempted more than MAX_ATTEMPTS
\* times, and no retry is planned beyond the cap of the backoff.
THEOREM TypeCorrect == Spec => []TypeOK
  <1>1. Inv => TypeOK
    BY DEF Inv
  <1> QED
    BY <1>1, Invariance, PTL

\* processDueNotificationJobs stores no worker id, and still no two workers
\* hold one job before an invocation has outlived the lease.
THEOREM SingleSenderHolds == Spec => []SingleSender
  <1>1. Inv => SingleSender
    BY DEF Inv
  <1> QED
    BY <1>1, Invariance, PTL

\* No writer of notification_jobs takes a job out of SENT.
THEOREM SentIsFinalHolds == Spec => SentIsFinal
  <1> DEFINE Final == \A j \in Jobs : status[j] = "SENT" => status'[j] = "SENT"
  <1>1. Inv /\ [Next]_vars => [Final]_vars
    <2> SUFFICES ASSUME Inv, Next PROVE Final
      OBVIOUS
    <2>0. TypeOK /\ status \in [Jobs -> Statuses]
      BY DEF Inv, TypeOK
    <2>1. ASSUME status' = status PROVE Final
      BY <2>1
    <2>2. ASSUME NEW j \in Jobs, Enqueue(j) PROVE Final
      BY <2>0, <2>2 DEF Enqueue
    <2>3. ASSUME NEW t \in {{}} \cup {{j} : j \in Jobs}, LinkCustomer(t) PROVE Final
      BY <2>0, <2>3 DEF LinkCustomer
    <2>4. ASSUME RevokeContacts PROVE Final
      BY <2>0, <2>1, <2>4, CancelWaitingStep DEF RevokeContacts
    <2>5. CASE RevokeByCustomer \/ WebhookRevokes
      BY <2>4, <2>5 DEF RevokeByCustomer, WebhookRevokes
    <2>6. CASE DisableIntegration
      BY <2>0, <2>6, CancelWaitingStep DEF DisableIntegration
    <2>7. CASE Unfollow \/ WebhookStores \/ UpsertIntegration \/ Tick
      BY <2>1, <2>7 DEF Unfollow, WebhookStores, UpsertIntegration, Tick, rows
    <2>8. ASSUME NEW w \in Workers, BeginCycle(w) \/ EndCycle(w) \/ Crash(w) \/ StartProcessing(w)
                                      \/ ListCandidates(w)
          PROVE  Final
      BY <2>1, <2>8 DEF BeginCycle, EndCycle, Crash, StartProcessing, ListCandidates, rows
    <2>9. ASSUME NEW w \in Workers, RecoverExpired(w) PROVE Final
      BY <2>0, <2>9 DEF RecoverExpired, Recoverable
    <2>10. ASSUME NEW w \in Workers, NEW j \in Jobs, Claim(w, j) PROVE Final
      BY <2>0, <2>10 DEF Claim, SawStatus
    <2>11. ASSUME NEW w \in Workers, NEW j \in Jobs,
                  Check(w, j) \/ RecordSent(w, j) \/ RecordFailed(w, j)
           PROVE  Final
      <3>1. status' = status \/ \E s, next : Write(j, s, next)
        BY <2>11 DEF Check, RecordSent, RecordFailed
      <3> QED
        BY <2>0, <2>1, <3>1 DEF Write, TerminalCheck
    <2>12. ASSUME NEW w \in Workers, NEW j \in Jobs,
                  ReadSecrets(w, j) \/ LineAnswers(w, j) \/ RecordSentFails(w, j) \/ RaiseAlert(w, j)
           PROVE  Final
      BY <2>1, <2>12 DEF ReadSecrets, LineAnswers, RecordSentFails, RaiseAlert, rows
    <2>13. CASE WebhookFails
      BY <2>1, <2>13 DEF WebhookFails, rows
    <2> QED
      BY <2>2, <2>3, <2>5, <2>6, <2>7, <2>8, <2>9, <2>10, <2>11, <2>12, <2>13
         DEF Next, WorkerStep, Faults
  <1> QED
    BY <1>1, Invariance, PTL DEF Spec, SentIsFinal

\* Deleting the secrets reaches a worker that passed the consent check: after
\* a revocation no push is started.
THEOREM NoPushWithoutConsentHolds == Spec => NoPushWithoutConsent
  <1> DEFINE NoNewPush ==
        \A j \in Jobs :
          (/\ consent' # "GRANTED" \/ integration' # "ACTIVE"
           /\ \A w \in Workers : work[w][j] # "sending")
            => \A w \in Workers : work'[w][j] # "sending"
  <1>1. Inv /\ [Next]_vars => [NoNewPush]_vars
    <2> SUFFICES ASSUME Inv, Next PROVE NoNewPush
      OBVIOUS
    <2>0. TypeOK /\ CheckedHasConsent /\ work \in [Workers -> [Jobs -> Stages]]
      BY DEF Inv, TypeOK
    <2>1. ASSUME \A w \in Workers, j \in Jobs :
                   work'[w][j] = work[w][j] \/ work'[w][j] # "sending"
          PROVE  NoNewPush
      BY <2>1
    <2>2. ASSUME work' = work \/ work' = Invalidated(Jobs) PROVE NoNewPush
      BY <2>0, <2>1, <2>2, InvalidatedStep
    <2>3. CASE \/ \E j \in Jobs : Enqueue(j)
               \/ \E t \in {{}} \cup {{j} : j \in Jobs} : LinkCustomer(t)
               \/ RevokeByCustomer \/ Unfollow \/ WebhookStores \/ WebhookRevokes
               \/ DisableIntegration \/ UpsertIntegration \/ WebhookFails \/ Tick
      BY <2>2, <2>3 DEF Enqueue, LinkCustomer, RevokeByCustomer, Unfollow, WebhookStores,
                        WebhookRevokes, RevokeContacts, DisableIntegration, UpsertIntegration,
                        WebhookFails, Tick, workers
    <2>4. ASSUME NEW w \in Workers, BeginCycle(w) \/ EndCycle(w) \/ StartProcessing(w)
                                      \/ RecoverExpired(w)
          PROVE  NoNewPush
      BY <2>2, <2>4 DEF BeginCycle, EndCycle, StartProcessing, RecoverExpired
    <2>5. ASSUME NEW w \in Workers, Crash(w) \/ ListCandidates(w) PROVE NoNewPush
      BY <2>0, <2>1, <2>5 DEF Crash, ListCandidates
    <2>6. ASSUME NEW w \in Workers, NEW j \in Jobs, Claim(w, j) PROVE NoNewPush
      BY <2>0, <2>1, <2>6 DEF Claim
    <2>7. ASSUME NEW w \in Workers, NEW j \in Jobs,
                 Check(w, j) \/ LineAnswers(w, j) \/ RecordSent(w, j) \/ RecordSentFails(w, j)
                 \/ RecordFailed(w, j) \/ RaiseAlert(w, j)
          PROVE  NoNewPush
      <3>1. \E s \in {"none", "checked", "stale", "ok", "retryable", "fatal", "alerting"} :
               MoveTo(w, j, s)
        BY <2>7 DEF Check, LineAnswers, RecordSent, RecordSentFails, RecordFailed, RaiseAlert
      <3> QED
        BY <2>0, <2>1, <3>1 DEF MoveTo
    <2>8. ASSUME NEW w \in Workers, NEW j \in Jobs, ReadSecrets(w, j) PROVE NoNewPush
      <3>1. CASE work[w][j] = "checked"
        <4>1. consent' = "GRANTED" /\ integration' = "ACTIVE"
          BY <2>0, <2>8, <3>1 DEF ReadSecrets, linkage, CheckedHasConsent
        <4> QED
          BY <4>1
      <3>2. CASE work[w][j] # "checked"
        BY <2>0, <2>1, <2>8, <3>2 DEF ReadSecrets, MoveTo
      <3> QED
        BY <3>1, <3>2
    <2> QED
      BY <2>3, <2>4, <2>5, <2>6, <2>7, <2>8 DEF Next, WorkerStep, Faults
  <1> QED
    BY <1>1, Invariance, PTL DEF Spec, NoPushWithoutConsent
=============================================================================

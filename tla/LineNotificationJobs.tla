------------------------ MODULE LineNotificationJobs ------------------------
(***************************************************************************)
(* The LINE notification jobs of one customer order: rows of               *)
(* public.notification_jobs, the cron worker of                            *)
(* src/server/notifications/notification-job-processor.ts, and the three   *)
(* other writers of these rows: the order triggers that insert them, the   *)
(* LINE callback that links a customer, and the revocations (the customer  *)
(* unfollows, the merchant disables the integration).                      *)
(*                                                                         *)
(* A claim carries no worker id.  What keeps two workers apart is the      *)
(* compare-and-set on the status a worker saw, and a lease of ten minutes  *)
(* since updated_at.  Completions name the row by id alone.                *)
(*                                                                         *)
(* Clocks are relative to the present, as in NotificationOutbox: due[j] is *)
(* the time until next_attempt_at, idle[j] the time since updated_at,      *)
(* age[w] the time since the invocation w read the clock; the instant w    *)
(* works with is -age[w].  next_attempt_at null is due at every instant,   *)
(* and so is the lowest value of due, which stands for both.               *)
(***************************************************************************)
EXTENDS Integers, FiniteSets, FiniteSetsExt

CONSTANTS
    Jobs,           \* one row per template of the order
    Workers,        \* cron invocations that may overlap
    MaxAttempts,    \* MAX_ATTEMPTS
    LeaseTicks,     \* ten minutes
    CycleLimit,     \* longest life of an invocation, enforced by the platform
    MaxDelay,       \* the thirty minutes that cap the backoff
    MaxFaults       \* bound: crashes of workers and of the webhook

ASSUME LineJobConstants ==
    /\ MaxAttempts \in Nat \ {0}
    /\ LeaseTicks \in Nat
    /\ CycleLimit \in Nat
    /\ MaxDelay \in Nat \ {0}
    /\ MaxFaults \in Nat

VARIABLES
    status,         \* [Jobs -> row status]; "ABSENT" before the insert
    attempts,       \* attempt_count
    due,            \* next_attempt_at, relative
    idle,           \* updated_at, relative
    recipient,      \* [Jobs -> does recipient_reference still resolve in the vault]
    consent,        \* consent_status of the contact link
    integration,    \* status of the LINE integration
    cycle,          \* [Workers -> where processDueNotificationJobs stands]
    age,
    work,           \* [Workers -> [Jobs -> where the worker stands with the job]]
    loaded,         \* [Workers -> [Jobs -> job.attemptCount as the worker loaded it]]
    alerted,        \* a LINE_NOTIFICATION_FAILURE alert was raised
    hook,           \* the unfollow event: delivery and processing by the webhook
    faults,         \* crashes so far
    overrun         \* history: an invocation has run for longer than the lease

rows    == << status, attempts, due, idle, recipient >>
linkage == << consent, integration, hook >>
workers == << cycle, age, work, loaded, overrun >>
vars    == << rows, linkage, workers, alerted, faults >>

Always   == 0 - CycleLimit
IdleCap  == LeaseTicks + CycleLimit + 1
Statuses == {"ABSENT", "PENDING", "PROCESSING", "SENT", "FAILED", "CANCELLED"}
Stages   == {"none", "sawPENDING", "sawFAILED", "claimed", "checked", "stale",
             "sending", "ok", "retryable", "fatal", "alerting"}

TypeOK ==
    /\ status \in [Jobs -> Statuses]
    /\ attempts \in [Jobs -> 0..MaxAttempts]
    /\ due \in [Jobs -> Always..MaxDelay]
    /\ idle \in [Jobs -> 0..IdleCap]
    /\ recipient \in [Jobs -> {"none", "stored", "deleted"}]
    /\ consent \in {"NONE", "GRANTED", "REVOKED"}
    /\ integration \in {"ACTIVE", "DISABLED"}
    /\ cycle \in [Workers -> {"idle", "started", "recovered", "claiming", "processing"}]
    /\ age \in [Workers -> 0..CycleLimit]
    /\ work \in [Workers -> [Jobs -> Stages]]
    /\ loaded \in [Workers -> [Jobs -> 0..MaxAttempts]]
    /\ alerted \in BOOLEAN
    /\ hook \in {"none", "sent", "stored"}
    /\ faults \in 0..MaxFaults
    /\ overrun \in BOOLEAN

Init ==
    /\ status = [j \in Jobs |-> "ABSENT"]
    /\ attempts = [j \in Jobs |-> 0]
    /\ due = [j \in Jobs |-> 0]
    /\ idle = [j \in Jobs |-> 0]
    /\ recipient = [j \in Jobs |-> "none"]
    /\ consent = "NONE"
    /\ integration = "ACTIVE"
    /\ cycle = [w \in Workers |-> "idle"]
    /\ age = [w \in Workers |-> 0]
    /\ work = [w \in Workers |-> [j \in Jobs |-> "none"]]
    /\ loaded = [w \in Workers |-> [j \in Jobs |-> 0]]
    /\ alerted = FALSE
    /\ hook = "none"
    /\ faults = 0
    /\ overrun = FALSE

-----------------------------------------------------------------------------
(* Writers of the rows other than the worker.                              *)

\* A secret reference a worker has loaded but not yet read stops resolving.
Invalidated(refs) ==
    [w \in Workers |-> [j \in Jobs |->
        IF j \in refs /\ work[w][j] = "checked" THEN "stale" ELSE work[w][j]]]

\* enqueue_order_notification_job and its sibling for proposed times: a trigger
\* of the order update, on conflict do nothing.
Enqueue(j) ==
    /\ consent = "GRANTED" /\ integration = "ACTIVE"
    /\ status[j] = "ABSENT"
    /\ status' = [status EXCEPT ![j] = "PENDING"]
    /\ due' = [due EXCEPT ![j] = 0]
    /\ idle' = [idle EXCEPT ![j] = 0]
    /\ recipient' = [recipient EXCEPT ![j] = "stored"]
    /\ UNCHANGED << attempts, linkage, workers, alerted, faults >>

\* The LINE callback: consent, a recipient secret of its own, the job of the
\* order's present status if it has a template (update: {} when the job exists),
\* and the deletion of the secret of the previous link, which older jobs still
\* reference.
LinkCustomer(templates) ==
    LET new == {j \in templates : status[j] = "ABSENT"} IN
    /\ integration = "ACTIVE"
    /\ hook = "none"
    /\ consent' = "GRANTED"
    /\ status' = [j \in Jobs |-> IF j \in new THEN "PENDING" ELSE status[j]]
    /\ due' = [j \in Jobs |-> IF j \in new THEN 0 ELSE due[j]]
    /\ idle' = [j \in Jobs |-> IF j \in new THEN 0 ELSE idle[j]]
    /\ recipient' = [j \in Jobs |->
                        CASE recipient[j] = "stored" -> "deleted"
                          [] j \in new -> "stored"
                          [] OTHER -> recipient[j]]
    /\ work' = Invalidated(Jobs)
    /\ UNCHANGED << attempts, integration, hook, cycle, age, alerted, faults, loaded, overrun >>

\* What every revocation does to the rows: waiting ones are cancelled, one in
\* PROCESSING is left to its worker.
CancelWaiting ==
    LET waiting == {j \in Jobs : status[j] \in {"PENDING", "FAILED"}}
    IN  /\ status' = [j \in Jobs |-> IF j \in waiting THEN "CANCELLED" ELSE status[j]]
        /\ due' = [j \in Jobs |-> IF j \in waiting THEN Always ELSE due[j]]
        /\ idle' = [j \in Jobs |-> IF j \in waiting THEN 0 ELSE idle[j]]

RevokeKeepingSecret ==
    IF consent = "GRANTED"
      THEN consent' = "REVOKED" /\ CancelWaiting /\ UNCHANGED << recipient, work >>
      ELSE UNCHANGED << consent, status, due, idle, recipient, work >>

\* revokeProviderContacts and revoke_line_contact_link.
RevokeContacts ==
    IF consent = "GRANTED"
      THEN /\ consent' = "REVOKED"
           /\ CancelWaiting
           /\ recipient' = [j \in Jobs |-> IF recipient[j] = "stored" THEN "deleted"
                                                                      ELSE recipient[j]]
           /\ work' = Invalidated(Jobs)
      ELSE UNCHANGED << consent, status, due, idle, recipient, work >>

\* The customer opts out on the order page.
RevokeByCustomer ==
    /\ consent = "GRANTED"
    /\ RevokeContacts
    /\ UNCHANGED << attempts, integration, hook, cycle, age, alerted, faults, loaded, overrun >>

\* The customer unfollows the account, and LINE delivers the event.
Unfollow ==
    /\ consent = "GRANTED" /\ hook = "none"
    /\ hook' = "sent"
    /\ UNCHANGED << rows, consent, integration, workers, alerted, faults >>

\* lineWebhookEvent.create commits on its own.
WebhookStores ==
    /\ hook = "sent"
    /\ hook' = "stored"
    /\ UNCHANGED << rows, consent, integration, workers, alerted, faults >>

WebhookRevokes ==
    /\ hook = "stored"
    /\ RevokeContacts
    /\ hook' = "none"
    /\ UNCHANGED << attempts, integration, cycle, age, alerted, faults, loaded, overrun >>

\* The revocation fails or the function dies: there is no 200, LINE delivers the
\* event again, and the second delivery meets the row of the first: a duplicate,
\* which is skipped and answered with 200.  The consent stays.
WebhookFails ==
    /\ hook = "stored" /\ faults < MaxFaults
    /\ hook' = "none"
    /\ faults' = faults + 1
    /\ UNCHANGED << rows, consent, integration, workers, alerted >>

DisableIntegration ==
    /\ integration = "ACTIVE"
    /\ integration' = "DISABLED"
    /\ CancelWaiting
    /\ work' = Invalidated(Jobs)
    /\ UNCHANGED << attempts, recipient, consent, hook, cycle, age, alerted, faults, loaded, overrun >>

\* upsertLineIntegration stores new credentials and deletes the old ones.
UpsertIntegration ==
    /\ integration' = "ACTIVE"
    /\ work' = Invalidated(Jobs)
    /\ << integration', work' >> # << integration, work >>
    /\ UNCHANGED << rows, consent, hook, cycle, age, alerted, faults, loaded, overrun >>

-----------------------------------------------------------------------------
(* The worker.                                                             *)

BeginCycle(w) ==
    /\ cycle[w] = "idle"
    /\ cycle' = [cycle EXCEPT ![w] = "started"]
    /\ age' = [age EXCEPT ![w] = 0]
    /\ UNCHANGED << rows, linkage, work, alerted, faults, loaded, overrun >>

AttemptsLeftOrNot(j) == attempts[j] <= MaxAttempts
HasAttemptsLeft(j) == attempts[j] < MaxAttempts

\* The rows whose lease is over at the worker's instant.
RecoverableEarly(w) ==
    {j \in Jobs : status[j] = "PROCESSING" /\ idle[j] + 1 >= LeaseTicks /\ HasAttemptsLeft(j)}
RecoverableBeforeLast(w) ==
    {j \in Jobs : status[j] = "PROCESSING" /\ idle[j] > LeaseTicks + age[w]
                  /\ attempts[j] + 1 < MaxAttempts}
Recoverable(w) ==
    {j \in Jobs : status[j] = "PROCESSING" /\ idle[j] > LeaseTicks + age[w] /\ HasAttemptsLeft(j)}

RecoverExpired(w) ==
    /\ cycle[w] = "started"
    /\ cycle' = [cycle EXCEPT ![w] = "recovered"]
    /\ LET expired == Recoverable(w)
       IN  /\ status' = [j \in Jobs |-> IF j \in expired THEN "FAILED" ELSE status[j]]
           /\ due' = [j \in Jobs |-> IF j \in expired THEN 0 - age[w] ELSE due[j]]
           /\ idle' = [j \in Jobs |-> IF j \in expired THEN 0 ELSE idle[j]]
    /\ UNCHANGED << attempts, recipient, linkage, age, work, alerted, faults, loaded, overrun >>

\* The candidates a worker remembers with the status it saw.  The limit of
\* twenty rows lies above the rows of the model.
ListCandidates(w) ==
    /\ cycle[w] = "recovered"
    /\ cycle' = [cycle EXCEPT ![w] = "claiming"]
    /\ work' = [work EXCEPT ![w] = [j \in Jobs |->
           LET waiting(s) == status[j] = s /\ HasAttemptsLeft(j) /\ due[j] <= 0 - age[w]
           IN  CASE waiting("PENDING") -> "sawPENDING"
                 [] waiting("FAILED") -> "sawFAILED"
                 [] OTHER -> "none"]]
    /\ UNCHANGED << rows, linkage, age, alerted, faults, loaded, overrun >>

SawStatus(w, j) ==
    \/ work[w][j] = "sawPENDING" /\ status[j] = "PENDING"
    \/ work[w][j] = "sawFAILED" /\ status[j] = "FAILED"

\* The conditional update of one candidate; a lost race drops it.
Claim(w, j) ==
    /\ cycle[w] = "claiming"
    /\ work[w][j] \in {"sawPENDING", "sawFAILED"}
    /\ IF SawStatus(w, j) /\ HasAttemptsLeft(j)
         THEN /\ status' = [status EXCEPT ![j] = "PROCESSING"]
              /\ attempts' = [attempts EXCEPT ![j] = @ + 1]
              /\ due' = [due EXCEPT ![j] = Always]
              /\ idle' = [idle EXCEPT ![j] = 0]
              /\ work' = [work EXCEPT ![w][j] = "claimed"]
         ELSE /\ work' = [work EXCEPT ![w][j] = "none"]
              /\ UNCHANGED << status, attempts, due, idle >>
    /\ UNCHANGED << recipient, linkage, cycle, age, alerted, faults, loaded, overrun >>

\* All candidates were tried: the claimed ones are processed concurrently.
StartProcessing(w) ==
    /\ cycle[w] = "claiming"
    /\ \A j \in Jobs : work[w][j] \in {"none", "claimed"}
    /\ cycle' = [cycle EXCEPT ![w] = "processing"]
    /\ UNCHANGED << rows, linkage, age, work, alerted, faults, loaded, overrun >>

\* An update of the row by id alone.  notification_jobs_terminal_check rejects
\* the one that takes a row out of SENT with sent_at still set.
NoTerminalCheck(j, s) == TRUE
TerminalCheck(j, s) == status[j] = "SENT" => s = "SENT"

Write(j, s, next) ==
    IF TerminalCheck(j, s)
      THEN /\ status' = [status EXCEPT ![j] = s]
           /\ due' = [due EXCEPT ![j] = next]
           /\ idle' = [idle EXCEPT ![j] = 0]
      ELSE UNCHANGED << status, due, idle >>

MoveTo(w, j, stage) == work' = [work EXCEPT ![w][j] = stage]
Forget(w, j) == loaded' = [loaded EXCEPT ![w][j] = 0]

\* The worker reads the row again with its integration and contact link; the
\* attempt count it loads here serves until the job is recorded.
Check(w, j) ==
    /\ cycle[w] = "processing" /\ work[w][j] = "claimed"
    /\ \/ /\ status[j] # "PROCESSING"
          /\ MoveTo(w, j, "none")
          /\ UNCHANGED << status, due, idle, loaded >>
       \/ /\ status[j] = "PROCESSING"
          /\ consent # "GRANTED" \/ integration # "ACTIVE"
          /\ MoveTo(w, j, "none")
          /\ Write(j, "CANCELLED", due[j])
          /\ UNCHANGED loaded
       \/ /\ status[j] = "PROCESSING"
          /\ consent = "GRANTED" /\ integration = "ACTIVE"
          /\ MoveTo(w, j, IF recipient[j] = "stored" THEN "checked" ELSE "stale")
          /\ loaded' = [loaded EXCEPT ![w][j] = attempts[j]]
          /\ UNCHANGED << status, due, idle >>
    /\ UNCHANGED << attempts, recipient, linkage, cycle, age, alerted, faults, overrun >>

\* readNotificationSecret of both references: a deleted one throws
\* NOTIFICATION_SECRET_NOT_FOUND, which is not retryable.
ReadSecrets(w, j) ==
    /\ work[w][j] \in {"checked", "stale"}
    /\ MoveTo(w, j, IF work[w][j] = "checked" THEN "sending" ELSE "fatal")
    /\ UNCHANGED << rows, linkage, cycle, age, alerted, faults, loaded, overrun >>

\* The push request (external): accepted, an outage or the timeout of eight
\* seconds, or a refusal, which is also what a retry key gets that LINE has
\* accepted before.
LineAnswers(w, j) ==
    /\ work[w][j] = "sending"
    /\ \E answer \in {"ok", "retryable", "fatal"} : MoveTo(w, j, answer)
    /\ UNCHANGED << rows, linkage, cycle, age, alerted, faults, loaded, overrun >>

RecordSent(w, j) ==
    /\ work[w][j] = "ok"
    /\ Write(j, "SENT", due[j])
    /\ MoveTo(w, j, "none") /\ Forget(w, j)
    /\ UNCHANGED << attempts, recipient, linkage, cycle, age, alerted, faults, overrun >>

\* The update itself fails: the catch block records a failure that is not
\* retryable.
RecordSentFails(w, j) ==
    /\ work[w][j] = "ok" /\ faults < MaxFaults
    /\ faults' = faults + 1
    /\ MoveTo(w, j, "fatal")
    /\ UNCHANGED << rows, linkage, cycle, age, alerted, loaded, overrun >>

\* notificationRetry of the count the worker loaded, which after an overrun is
\* older than the row's: null, or now + min(30, 2 ** (attempt - 1)) minutes.
Retries(w, j) == work[w][j] = "retryable" /\ loaded[w][j] < MaxAttempts

NextAttempt(w, j) ==
    IF Retries(w, j)
      THEN Max({Always, Min({MaxDelay, 2 ^ Max({0, loaded[w][j] - 1})}) - age[w]})
      ELSE Always

\* The catch block.  A write the terminal check rejects throws out of it, and
\* no alert follows.
RecordFailed(w, j) ==
    /\ work[w][j] \in {"retryable", "fatal"}
    /\ Write(j, "FAILED", NextAttempt(w, j))
    /\ MoveTo(w, j, IF TerminalCheck(j, "FAILED") /\ ~ Retries(w, j)
                      THEN "alerting" ELSE "none")
    /\ Forget(w, j)
    /\ UNCHANGED << attempts, recipient, linkage, cycle, age, alerted, faults, overrun >>

RaiseAlert(w, j) ==
    /\ work[w][j] = "alerting"
    /\ alerted' = TRUE
    /\ MoveTo(w, j, "none")
    /\ UNCHANGED << rows, linkage, cycle, age, faults, loaded, overrun >>

EndCycle(w) ==
    /\ cycle[w] = "processing"
    /\ \A j \in Jobs : work[w][j] = "none"
    /\ cycle' = [cycle EXCEPT ![w] = "idle"]
    /\ age' = [age EXCEPT ![w] = 0]
    /\ UNCHANGED << rows, linkage, work, alerted, faults, loaded, overrun >>

\* The invocation dies between two statements.
Crash(w) ==
    /\ cycle[w] # "idle" /\ faults < MaxFaults
    /\ faults' = faults + 1
    /\ cycle' = [cycle EXCEPT ![w] = "idle"]
    /\ age' = [age EXCEPT ![w] = 0]
    /\ work' = [work EXCEPT ![w] = [j \in Jobs |-> "none"]]
    /\ loaded' = [loaded EXCEPT ![w] = [j \in Jobs |-> 0]]
    /\ UNCHANGED << rows, linkage, alerted, overrun >>

Tick ==
    /\ \A w \in Workers : cycle[w] # "idle" => age[w] < CycleLimit
    /\ age' = [w \in Workers |-> IF cycle[w] = "idle" THEN 0 ELSE age[w] + 1]
    /\ due' = [j \in Jobs |-> IF due[j] > Always THEN due[j] - 1 ELSE Always]
    /\ idle' = [j \in Jobs |-> IF status[j] = "PROCESSING"
                                  THEN Min({idle[j] + 1, IdleCap}) ELSE 0]
    /\ overrun' = (overrun \/ \E w \in Workers : age'[w] > LeaseTicks)
    /\ UNCHANGED << status, attempts, recipient, linkage, cycle, work, loaded, alerted, faults >>

-----------------------------------------------------------------------------
WorkerStep(w) ==
    \/ RecoverExpired(w) \/ ListCandidates(w) \/ StartProcessing(w) \/ EndCycle(w)
    \/ \E j \in Jobs : \/ Claim(w, j) \/ Check(w, j) \/ ReadSecrets(w, j)
                       \/ LineAnswers(w, j) \/ RecordSent(w, j) \/ RecordFailed(w, j)
                       \/ RaiseAlert(w, j)

Faults ==
    \/ WebhookFails
    \/ \E w \in Workers : Crash(w) \/ \E j \in Jobs : RecordSentFails(w, j)

Next ==
    \/ \E j \in Jobs : Enqueue(j)
    \/ \E templates \in {{}} \cup {{j} : j \in Jobs} : LinkCustomer(templates)
    \/ RevokeByCustomer \/ Unfollow \/ WebhookStores \/ WebhookRevokes
    \/ DisableIntegration \/ UpsertIntegration
    \/ \E w \in Workers : BeginCycle(w) \/ WorkerStep(w)
    \/ Faults
    \/ Tick

Spec == Init /\ [][Next]_vars

\* Time passes, pg_cron starts an invocation every minute, and an invocation
\* that is not killed runs on; LINE answers or the request times out.
Fairness ==
    /\ WF_vars(Tick)
    /\ \A w \in Workers : WF_vars(BeginCycle(w)) /\ WF_vars(WorkerStep(w))

FairSpec == Spec /\ Fairness

-----------------------------------------------------------------------------
(* Properties.                                                             *)

Holding == {"claimed", "checked", "stale", "sending", "ok", "retryable", "fatal"}

\* No two workers hold the same job, although a claim stores no worker id: the
\* compare-and-set and the lease suffice as long as no invocation has run for
\* longer than the lease.
SingleSender ==
    ~ overrun =>
        \A j \in Jobs, v, w \in Workers :
            work[v][j] \in Holding /\ work[w][j] \in Holding => v = w

\* Once the customer has withdrawn the consent, or the merchant has disabled
\* the integration, no new push is started, whatever a worker read before:
\* deleting the secrets stops a worker that passed the consent check.
NoPushWithoutConsent ==
    [][\A j \in Jobs :
        /\ consent' # "GRANTED" \/ integration' # "ACTIVE"
        /\ \A w \in Workers : work[w][j] # "sending"
        => \A w \in Workers : work'[w][j] # "sending"]_vars

\* A job recorded as SENT stays SENT, even when an invocation outlives the
\* lease and a second one finishes the same job.
SentIsFinal ==
    [][\A j \in Jobs : status[j] = "SENT" => status'[j] = "SENT"]_vars

\* docs/MONITORING.md: a row in PROCESSING for longer than the lease is taken
\* back and can be retried.  It holds of the rows that have attempts left; a
\* worker that dies during the last attempt leaves one that stays PROCESSING,
\* and no alert follows.
ExpiredIsRetryable ==
    [][\A w \in Workers, j \in Jobs :
        /\ cycle[w] = "started" /\ cycle'[w] = "recovered"
        /\ status[j] = "PROCESSING" /\ idle[j] > LeaseTicks + age[w]
        => status'[j] = "FAILED" /\ HasAttemptsLeft(j)]_vars

Abandoned(j) ==
    /\ status[j] = "PROCESSING" /\ attempts[j] = MaxAttempts
    /\ \A w \in Workers : work[w][j] \notin Holding

\* Every job is settled in the end: sent, cancelled, or failed with its
\* attempts used up and the operational alert of docs/MONITORING.md raised.
\* Without deaths and overruns there is no exception.  A worker that dies may
\* leave the row of a last attempt in PROCESSING or an alert unraised; one that
\* overruns the lease judges by the count it loaded and may write FAILED before
\* the last attempt of another worker begins, so that nobody raises the alert.
EventuallySettled ==
    \A j \in Jobs :
        status[j] # "ABSENT" ~>
            \/ status[j] \in {"SENT", "CANCELLED"}
            \/ /\ status[j] = "FAILED" /\ attempts[j] = MaxAttempts
               /\ alerted \/ faults > 0 \/ overrun
            \/ Abandoned(j) /\ faults > 0
=============================================================================

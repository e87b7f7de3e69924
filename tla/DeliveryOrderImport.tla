------------------------- MODULE DeliveryOrderImport -------------------------
(***************************************************************************)
(* How an order of a delivery platform becomes an order of the stall:      *)
(* the signed webhook (webhook-service.ts), the jobs ORDER_FETCH and       *)
(* ORDER_IMPORT and their workers (sync-job-service.ts), and the import    *)
(* transaction (external-order-service.ts), all under                      *)
(* src/server/delivery-platforms/.                                         *)
(*                                                                         *)
(* One external order on one connection.  Its two jobs have one row each,  *)
(* because their deduplication keys are made of connection and order.      *)
(* Clocks are relative to the present: due is "time until next_attempt_at",*)
(* idle is "time since updated_at" of a row in PROCESSING, age is "time    *)
(* since the invocation read the clock".                                   *)
(***************************************************************************)
EXTENDS Integers, FiniteSets, FiniteSetsExt

CONSTANTS
    Events,         \* webhook deliveries with distinct replay keys
    Kinds,          \* what the adapter may find in the events: functions on Events
    Workers,        \* cron invocations
    NoEvent,        \* the job names no event yet
    MaxAttempts,    \* max_attempts, 5
    LeaseTicks,     \* ten minutes
    CycleLimit,     \* longest life of an invocation, enforced by the platform
    RetryTicks,     \* 1 minute and more, abstracted to one delay
    MaxTroubles     \* bound: deaths, failed completions, manual retries and pauses together

Jobs == {"ORDER_FETCH", "ORDER_IMPORT"}

ASSUME DeliveryConstants ==
    /\ NoEvent \notin Events
    /\ Kinds \subseteq [Events -> {"REFERENCE", "ORDER", "OTHER"}]
    /\ MaxAttempts \in Nat \ {0}
    /\ {LeaseTicks, CycleLimit, RetryTicks, MaxTroubles} \subseteq Nat

VARIABLES
    kind,           \* [Events -> what the adapter finds in it]
    event,          \* [Events -> processing_status]; "ABSENT" before, "REJECTED" ledger
    ledger,         \* external_orders.processing_status of the order
    orders,         \* how many internal orders were created for it
    status,         \* [Jobs -> delivery_sync_jobs.status]; "ABSENT" before the insert
    attempts,
    due,
    idle,
    jobEvent,       \* [Jobs -> input_json.webhookEventId]
    mapped,         \* store, menu and modifier mappings cover the order
    active,         \* the connection is ACTIVE
    age,            \* [Workers -> ticks since the clock was read]
    work,           \* [Workers -> [Jobs -> where it stands with the job]]
    taken,          \* [Workers -> [Jobs -> attempt_count in the row it read]]
    troubles,       \* deaths, failed completions, manual retries and pauses so far
    overrun         \* history: an invocation has outlived its lease

job     == << status, attempts, due, idle, jobEvent >>
order   == << event, ledger, orders, kind >>
setup   == << mapped, active >>
workers == << age, work, taken >>
bounds  == << troubles, overrun >>
vars    == << job, order, setup, workers, bounds >>

Open == {"PENDING", "RETRY_PENDING", "PROCESSING"}
Busy(w) == \E j \in Jobs : work[w][j] # "none"

TypeOK ==
    /\ kind \in Kinds
    /\ event \in [Events -> {"ABSENT", "REJECTED", "VERIFIED", "PROCESSING",
                             "PROCESSED", "DEAD_LETTER"}]
    /\ ledger \in {"ABSENT", "READY_FOR_IMPORT", "MAPPING_REQUIRED", "IMPORTED"}
    /\ orders \in Nat
    /\ status \in [Jobs -> {"ABSENT", "SUCCEEDED", "DEAD_LETTER"} \cup Open]
    /\ attempts \in [Jobs -> 0..MaxAttempts]
    /\ due \in [Jobs -> 0..RetryTicks]
    /\ idle \in [Jobs -> 0..LeaseTicks + 1]
    /\ jobEvent \in [Jobs -> Events \cup {NoEvent}]
    /\ mapped \in BOOLEAN /\ active \in BOOLEAN
    /\ age \in [Workers -> 0..CycleLimit]
    /\ work \in [Workers -> [Jobs -> {"none", "claimed", "checked", "fetched",
                                      "done", "retryable", "fatal"}]]
    /\ taken \in [Workers -> [Jobs -> 0..MaxAttempts]]
    /\ troubles \in 0..MaxTroubles
    /\ overrun \in BOOLEAN

Init ==
    /\ kind \in Kinds
    /\ event = [e \in Events |-> "ABSENT"]
    /\ ledger = "ABSENT" /\ orders = 0
    /\ status = [j \in Jobs |-> "ABSENT"]
    /\ attempts = [j \in Jobs |-> 0]
    /\ due = [j \in Jobs |-> 0]
    /\ idle = [j \in Jobs |-> 0]
    /\ jobEvent = [j \in Jobs |-> NoEvent]
    /\ mapped \in BOOLEAN /\ active = TRUE
    /\ age = [w \in Workers |-> 0]
    /\ work = [w \in Workers |-> [j \in Jobs |-> "none"]]
    /\ taken = [w \in Workers |-> [j \in Jobs |-> 0]]
    /\ troubles = 0 /\ overrun = FALSE

-----------------------------------------------------------------------------
(* enqueueDeliverySyncJob.  A second insert breaks the unique key, and in  *)
(* a transaction of PostgreSQL nothing can follow that: the lookup of the  *)
(* row that is there fails too and the caller's transaction is lost.       *)
CanEnqueue(j) == status[j] = "ABSENT"

Enqueue(j, e) ==
    /\ status' = [status EXCEPT ![j] = "PENDING"]
    /\ jobEvent' = [jobEvent EXCEPT ![j] = e]

\* existingOrder?.internalOrderId, not just a row in the ledger.
LedgerHasImport == ledger = "IMPORTED"

\* A signed event, received for the first time or after it was rejected; a
\* replay key that is in the ledger is acknowledged without effect.
ReceiveWebhook(e) ==
    /\ event[e] \in {"ABSENT", "REJECTED"}
    /\ active
    /\ \/ /\ kind[e] = "OTHER"
          /\ event' = [event EXCEPT ![e] = "PROCESSED"]
          /\ UNCHANGED << ledger, status, jobEvent >>
       \/ /\ kind[e] = "REFERENCE" /\ CanEnqueue("ORDER_FETCH")
          /\ event' = [event EXCEPT ![e] = "VERIFIED"]
          /\ Enqueue("ORDER_FETCH", e)
          /\ UNCHANGED ledger
       \/ /\ kind[e] = "ORDER" /\ LedgerHasImport
          /\ event' = [event EXCEPT ![e] = "PROCESSED"]
          /\ UNCHANGED << ledger, status, jobEvent >>
       \/ /\ kind[e] = "ORDER" /\ ~ LedgerHasImport /\ CanEnqueue("ORDER_IMPORT")
          /\ event' = [event EXCEPT ![e] = "VERIFIED"]
          /\ ledger' = IF ledger = "ABSENT" THEN "READY_FOR_IMPORT" ELSE ledger
          /\ Enqueue("ORDER_IMPORT", e)
       \/ /\ \/ kind[e] = "REFERENCE" /\ ~ CanEnqueue("ORDER_FETCH")
             \/ kind[e] = "ORDER" /\ ~ LedgerHasImport /\ ~ CanEnqueue("ORDER_IMPORT")
          /\ event' = [event EXCEPT ![e] = "REJECTED"]
          /\ UNCHANGED << ledger, status, jobEvent >>
    /\ UNCHANGED << kind, orders, attempts, due, idle, setup, workers, bounds >>

Trouble == troubles < MaxTroubles /\ troubles' = troubles + 1

\* Administrators complete the mappings, pause the connection and resume it.
CompleteMapping ==
    /\ ~ mapped
    /\ mapped' = TRUE
    /\ UNCHANGED << job, order, active, workers, bounds >>

SetConnectionStatus ==
    /\ active' = ~ active
    /\ IF active THEN Trouble ELSE UNCHANGED troubles
    /\ UNCHANGED << job, order, mapped, workers, overrun >>

\* retryDeliverySyncJob, by an administrator.
Retryable == {"DEAD_LETTER"}
RetryJob(j) ==
    /\ status[j] \in Retryable /\ Trouble
    /\ status' = [status EXCEPT ![j] = "RETRY_PENDING"]
    /\ attempts' = [attempts EXCEPT ![j] = 0]
    /\ due' = [due EXCEPT ![j] = 0]
    /\ UNCHANGED << idle, jobEvent, order, setup, workers, overrun >>

-----------------------------------------------------------------------------
(* claimDeliverySyncJobs: one transaction gives back what other            *)
(* invocations left behind and claims what is due.                         *)
LostWithAttemptsLeft(j) ==
    status[j] = "PROCESSING" /\ idle[j] > LeaseTicks /\ attempts[j] < MaxAttempts
Lost(j) == status[j] = "PROCESSING" /\ idle[j] > LeaseTicks

StatusAfterSweep(j) ==
    CASE Lost(j) /\ attempts[j] >= MaxAttempts -> "DEAD_LETTER"
      [] Lost(j) /\ attempts[j] < MaxAttempts -> "RETRY_PENDING"
      [] OTHER -> status[j]

IsDue(j) ==
    /\ attempts[j] < MaxAttempts
    /\ \/ StatusAfterSweep(j) = "PENDING"
       \/ StatusAfterSweep(j) = "RETRY_PENDING" /\ (Lost(j) \/ due[j] = 0)

Claim(w) ==
    /\ ~ Busy(w)
    /\ \E j \in Jobs : Lost(j) \/ IsDue(j)
    /\ status' = [j \in Jobs |-> IF IsDue(j) THEN "PROCESSING" ELSE StatusAfterSweep(j)]
    /\ attempts' = [j \in Jobs |-> IF IsDue(j) THEN attempts[j] + 1 ELSE attempts[j]]
    /\ due' = [j \in Jobs |-> IF IsDue(j) \/ Lost(j) THEN 0 ELSE due[j]]
    /\ idle' = [j \in Jobs |-> IF IsDue(j) \/ Lost(j) THEN 0 ELSE idle[j]]
    /\ work' = [work EXCEPT ![w] = [j \in Jobs |-> IF IsDue(j) THEN "claimed" ELSE "none"]]
    /\ taken' = [taken EXCEPT ![w] = [j \in Jobs |-> IF IsDue(j) THEN attempts'[j] ELSE 0]]
    /\ age' = [age EXCEPT ![w] = 0]
    /\ UNCHANGED << jobEvent, order, setup, bounds >>

\* Feature access and the state of the connection.
CheckConnection(w, j) ==
    /\ work[w][j] = "claimed"
    /\ work' = [work EXCEPT ![w][j] = IF active THEN "checked" ELSE "fatal"]
    /\ UNCHANGED << job, order, setup, age, taken, bounds >>

\* The adapter's fetchOrderDetails (external): an answer, an outage, a refusal.
ProviderAnswers(w) ==
    /\ work[w]["ORDER_FETCH"] = "checked"
    /\ \E answer \in {"fetched", "retryable", "fatal"} :
           work' = [work EXCEPT ![w]["ORDER_FETCH"] = answer]
    /\ UNCHANGED << job, order, setup, age, taken, bounds >>

\* The transaction of fetchAndStageExternalOrder.
StageOrder(w) ==
    /\ work[w]["ORDER_FETCH"] = "fetched"
    /\ \/ /\ ledger = "IMPORTED"
          /\ event' = [event EXCEPT ![jobEvent["ORDER_FETCH"]] = "PROCESSED"]
          /\ work' = [work EXCEPT ![w]["ORDER_FETCH"] = "done"]
          /\ UNCHANGED << ledger, status, jobEvent >>
       \/ /\ ledger # "IMPORTED" /\ CanEnqueue("ORDER_IMPORT")
          /\ ledger' = "READY_FOR_IMPORT"
          /\ Enqueue("ORDER_IMPORT", jobEvent["ORDER_FETCH"])
          /\ event' = [event EXCEPT ![jobEvent["ORDER_FETCH"]] = "PROCESSING"]
          /\ work' = [work EXCEPT ![w]["ORDER_FETCH"] = "done"]
       \/ /\ ledger # "IMPORTED" /\ ~ CanEnqueue("ORDER_IMPORT")
          /\ work' = [work EXCEPT ![w]["ORDER_FETCH"] = "retryable"]
          /\ UNCHANGED << event, ledger, status, jobEvent >>
    /\ UNCHANGED << kind, orders, attempts, due, idle, setup, age, taken, bounds >>

\* The transaction of importExternalOrderFromJob, which holds the ledger row.
AlreadyImportedUnchecked == FALSE
AlreadyImported == ledger = "IMPORTED"

\* A commit of MAPPING_REQUIRED is followed by an error that is not retryable.
MappingIgnored == "done"
MappingError == "fatal"

ImportOrder(w) ==
    /\ work[w]["ORDER_IMPORT"] = "checked"
    /\ \/ /\ AlreadyImported
          /\ work' = [work EXCEPT ![w]["ORDER_IMPORT"] = "done"]
          /\ UNCHANGED << event, ledger, orders >>
       \/ /\ ~ AlreadyImported /\ mapped /\ active
          /\ ledger' = "IMPORTED"
          /\ orders' = orders + 1
          /\ event' = [event EXCEPT ![jobEvent["ORDER_IMPORT"]] = "PROCESSED"]
          /\ work' = [work EXCEPT ![w]["ORDER_IMPORT"] = "done"]
       \/ /\ ~ AlreadyImported /\ ~ (mapped /\ active)
          /\ ledger' = "MAPPING_REQUIRED"
          /\ event' = [event EXCEPT ![jobEvent["ORDER_IMPORT"]] = "DEAD_LETTER"]
          /\ work' = [work EXCEPT ![w]["ORDER_IMPORT"] = MappingError]
          /\ UNCHANGED orders
       \/ /\ work' = [work EXCEPT ![w]["ORDER_IMPORT"] = "retryable"]
          /\ UNCHANGED << event, ledger, orders >>  \* the database fails, or a serialization conflict
    /\ UNCHANGED << job, kind, setup, age, taken, bounds >>

\* The invocation is through with the jobs.
LetGo(w, js) ==
    /\ work' = [work EXCEPT ![w] = [j \in Jobs |-> IF j \in js THEN "none" ELSE @[j]]]
    /\ taken' = [taken EXCEPT ![w] = [j \in Jobs |-> IF j \in js THEN 0 ELSE @[j]]]
    /\ age' = [age EXCEPT ![w] = IF \A j \in Jobs \ js : work[w][j] = "none" THEN 0 ELSE @]

\* The last update of the row names the row alone, not its holder.
CompleteJob(w, j) ==
    /\ work[w][j] = "done"
    /\ status' = [status EXCEPT ![j] = "SUCCEEDED"]
    /\ idle' = [idle EXCEPT ![j] = 0]
    /\ LetGo(w, {j})
    /\ UNCHANGED << attempts, due, jobEvent, order, setup, bounds >>

\* The transaction of the completion fails: the catch block treats the work
\* that is done like an outage.
CompletionFails(w, j) ==
    /\ work[w][j] = "done" /\ Trouble
    /\ work' = [work EXCEPT ![w][j] = "retryable"]
    /\ UNCHANGED << job, order, setup, age, taken, overrun >>

Retries(w, j) == work[w][j] = "retryable" /\ taken[w][j] < MaxAttempts

\* deliveryRetryAt counts from the clock the invocation read when it started.
DueAfterNow(w) == RetryTicks + age[w]
DueAfter(w) == Max({0, RetryTicks - age[w]})

FailJob(w, j) ==
    /\ work[w][j] \in {"retryable", "fatal"}
    /\ IF Retries(w, j)
         THEN /\ status' = [status EXCEPT ![j] = "RETRY_PENDING"]
              /\ due' = [due EXCEPT ![j] = DueAfter(w)]
         ELSE /\ status' = [status EXCEPT ![j] = "DEAD_LETTER"]
              /\ due' = [due EXCEPT ![j] = 0]
    /\ idle' = [idle EXCEPT ![j] = 0]
    /\ LetGo(w, {j})
    /\ UNCHANGED << attempts, jobEvent, order, setup, bounds >>

\* The invocation dies, or is fenced off the primary database half way.
Crash(w) ==
    /\ Busy(w) /\ Trouble
    /\ LetGo(w, Jobs)
    /\ UNCHANGED << job, order, setup, overrun >>

Tick ==
    /\ \A w \in Workers : Busy(w) => age[w] < CycleLimit
    /\ age' = [w \in Workers |-> IF Busy(w) THEN age[w] + 1 ELSE 0]
    /\ due' = [j \in Jobs |-> Max({0, due[j] - 1})]
    /\ idle' = [j \in Jobs |-> IF status[j] = "PROCESSING"
                                 THEN Min({LeaseTicks + 1, idle[j] + 1}) ELSE 0]
    /\ overrun' = (overrun \/ \E w \in Workers : age'[w] > LeaseTicks)
    /\ UNCHANGED << status, attempts, jobEvent, order, setup, work, taken, troubles >>

-----------------------------------------------------------------------------
WorkerStep(w) ==
    \/ ProviderAnswers(w) \/ StageOrder(w) \/ ImportOrder(w)
    \/ \E j \in Jobs : CheckConnection(w, j) \/ CompleteJob(w, j) \/ FailJob(w, j)

Next ==
    \/ \E e \in Events : ReceiveWebhook(e)
    \/ CompleteMapping \/ SetConnectionStatus
    \/ \E j \in Jobs : RetryJob(j)
    \/ \E w \in Workers : \/ Claim(w) \/ WorkerStep(w) \/ Crash(w)
                          \/ \E j \in Jobs : CompletionFails(w, j)
    \/ Tick

Spec == Init /\ [][Next]_vars

\* Time passes, cron claims, and an invocation that is not killed runs on.
Fairness ==
    /\ WF_vars(Tick)
    /\ WF_vars(\E w \in Workers : Claim(w))
    /\ \A w \in Workers : WF_vars(WorkerStep(w))

FairSpec == Spec /\ Fairness

-----------------------------------------------------------------------------
(* Properties.                                                             *)

\* However often an order is announced, fetched, retried or given up half
\* way, and even when two workers hold its job at once, at most one order of
\* the stall comes of it, and exactly one when the ledger says so.
OneInternalOrder == orders = IF ledger = "IMPORTED" THEN 1 ELSE 0

\* An import job is reported as succeeded only when the order is there, a
\* fetch only when the import was at least queued, an event as processed only
\* if it carried no order or the order was imported, and as dead only with an
\* order whose mapping is missing: an operator who sees a green job or event
\* never has an order missing behind it.
SuccessIsReal ==
    /\ status["ORDER_IMPORT"] = "SUCCEEDED" => orders >= 1
    /\ status["ORDER_FETCH"] = "SUCCEEDED" => status["ORDER_IMPORT"] # "ABSENT"
    /\ \A e \in Events :
         /\ event[e] = "PROCESSED" /\ kind[e] # "OTHER" => ledger = "IMPORTED"
         /\ event[e] = "DEAD_LETTER" => ledger = "MAPPING_REQUIRED"

\* Every job ends as succeeded or as a dead letter, crashes included, as long as
\* no invocation outlives its lease.  (One that does may put a row back to
\* RETRY_PENDING with its attempts used up, which nobody claims or buries.)
EventuallySettled ==
    \A j \in Jobs :
        status[j] \in Open ~> status[j] \in {"SUCCEEDED", "DEAD_LETTER"} \/ overrun
=============================================================================

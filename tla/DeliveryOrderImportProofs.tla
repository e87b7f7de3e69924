---------------------- MODULE DeliveryOrderImportProofs ----------------------
(***************************************************************************)
(* For any number of webhook events and workers, whatever they find, and   *)
(* whether or not an invocation outlives its lease: one external order     *)
(* becomes at most one order of the stall, and what the jobs and events    *)
(* report about it is true.                                                *)
(***************************************************************************)
EXTENDS DeliveryOrderImport, TLAPS

Fetch == "ORDER_FETCH"
Import == "ORDER_IMPORT"

\* A job that was inserted names the event it is about, and only inserted
\* jobs are held.
JobsNameEvents ==
    /\ \A j \in Jobs : status[j] # "ABSENT" => jobEvent[j] \in Events
    /\ \A w \in Workers, j \in Jobs : work[w][j] # "none" => status[j] # "ABSENT"

\* What an import left in the ledger came from an import job.
LedgerHasJob == ledger \in {"IMPORTED", "MAPPING_REQUIRED"} => status[Import] # "ABSENT"

\* A worker that is done with a job, and a job that succeeded, did its work.
DoneIsReal ==
    /\ \A w \in Workers : work[w][Import] = "done" => ledger = "IMPORTED"
    /\ \A w \in Workers : work[w][Fetch] = "done" => status[Import] # "ABSENT"
    /\ status[Import] = "SUCCEEDED" => ledger = "IMPORTED"
    /\ status[Fetch] = "SUCCEEDED" => status[Import] # "ABSENT"

\* The only event that an import gave up is the one its job names, so that a
\* later import that succeeds repairs it.
EventsAreReal ==
    \A e \in Events :
        /\ event[e] = "PROCESSED" /\ kind[e] # "OTHER" => ledger = "IMPORTED"
        /\ event[e] = "DEAD_LETTER" => ledger = "MAPPING_REQUIRED" /\ e = jobEvent[Import]

\* The inductive invariant.
Inv == /\ TypeOK /\ OneInternalOrder /\ JobsNameEvents /\ LedgerHasJob
       /\ DoneIsReal /\ EventsAreReal

-----------------------------------------------------------------------------
LEMMA MaxOfTwo ==
    ASSUME NEW a \in Int, NEW b \in Int
    PROVE  Max({a, b}) = IF a >= b THEN a ELSE b
  <1>1. \E x \in {a, b} : \A y \in {a, b} : x >= y
    OBVIOUS
  <1> QED
    BY <1>1 DEF Max

LEMMA MinOfTwo ==
    ASSUME NEW a \in Int, NEW b \in Int
    PROVE  Min({a, b}) = IF a <= b THEN a ELSE b
  <1>1. \E x \in {a, b} : \A y \in {a, b} : x <= y
    OBVIOUS
  <1> QED
    BY <1>1 DEF Min

LEMMA JobNames == Fetch \in Jobs /\ Import \in Jobs /\ Fetch # Import
  BY DEF Jobs, Fetch, Import

LEMMA InitInv == Init => Inv
  <1> SUFFICES ASSUME Init PROVE Inv
    OBVIOUS
  <1>1. TypeOK
    <2>1. mapped \in BOOLEAN /\ active \in BOOLEAN /\ overrun \in BOOLEAN
      BY Zenon DEF Init
    <2>2. /\ attempts \in [Jobs -> 0..MaxAttempts] /\ due \in [Jobs -> 0..RetryTicks]
          /\ idle \in [Jobs -> 0..LeaseTicks + 1] /\ age \in [Workers -> 0..CycleLimit]
          /\ taken \in [Workers -> [Jobs -> 0..MaxAttempts]] /\ troubles \in 0..MaxTroubles
      BY DeliveryConstants DEF Init
    <2>3. /\ status \in [Jobs -> {"ABSENT", "SUCCEEDED", "DEAD_LETTER"} \cup Open]
          /\ jobEvent \in [Jobs -> Events \cup {NoEvent}]
          /\ work \in [Workers -> [Jobs -> {"none", "claimed", "checked", "fetched",
                                            "done", "retryable", "fatal"}]]
      BY DEF Init
    <2> QED
      BY <2>1, <2>2, <2>3 DEF Init, TypeOK
  <1>2. OneInternalOrder /\ JobsNameEvents /\ LedgerHasJob /\ DoneIsReal /\ EventsAreReal
    BY JobNames DEF Init, OneInternalOrder, JobsNameEvents, LedgerHasJob, DoneIsReal, EventsAreReal
  <1> QED
    BY <1>1, <1>2 DEF Inv

-----------------------------------------------------------------------------
LEMMA ReceiveInv ==
    ASSUME Inv, NEW e \in Events, ReceiveWebhook(e)
    PROVE  Inv'
  <1>0. TypeOK /\ OneInternalOrder /\ JobsNameEvents /\ LedgerHasJob /\ DoneIsReal /\ EventsAreReal
    BY DEF Inv
  <1>1. UNCHANGED << kind, orders, attempts, due, idle, mapped, active, age, work, taken,
                     troubles, overrun >>
    BY DEF ReceiveWebhook, setup, workers, bounds
  <1>2. \/ /\ UNCHANGED << ledger, status, jobEvent >>
           /\ \/ event' = [event EXCEPT ![e] = "PROCESSED"] /\ (kind[e] = "OTHER" \/ ledger = "IMPORTED")
              \/ event' = [event EXCEPT ![e] = "REJECTED"]
        \/ /\ \E j \in Jobs :
                /\ status[j] = "ABSENT"
                /\ status' = [status EXCEPT ![j] = "PENDING"]
                /\ jobEvent' = [jobEvent EXCEPT ![j] = e]
                /\ ledger # "IMPORTED" \/ j = Fetch
                /\ ledger' = ledger \/ (j = Import /\ ledger = "ABSENT" /\ ledger' = "READY_FOR_IMPORT")
           /\ event' = [event EXCEPT ![e] = "VERIFIED"]
    BY DEF ReceiveWebhook, CanEnqueue, Enqueue, LedgerHasImport, Jobs, Fetch, Import
  <1>3. event[e] \in {"ABSENT", "REJECTED"}
    BY DEF ReceiveWebhook
  <1>4. TypeOK'
    <2>1. /\ event' \in [Events -> {"ABSENT", "REJECTED", "VERIFIED", "PROCESSING",
                                    "PROCESSED", "DEAD_LETTER"}]
          /\ ledger' \in {"ABSENT", "READY_FOR_IMPORT", "MAPPING_REQUIRED", "IMPORTED"}
          /\ status' \in [Jobs -> {"ABSENT", "SUCCEEDED", "DEAD_LETTER"} \cup Open]
          /\ jobEvent' \in [Jobs -> Events \cup {NoEvent}]
      <3>1. /\ event \in [Events -> {"ABSENT", "REJECTED", "VERIFIED", "PROCESSING",
                                     "PROCESSED", "DEAD_LETTER"}]
            /\ ledger \in {"ABSENT", "READY_FOR_IMPORT", "MAPPING_REQUIRED", "IMPORTED"}
            /\ status \in [Jobs -> {"ABSENT", "SUCCEEDED", "DEAD_LETTER"} \cup Open]
            /\ jobEvent \in [Jobs -> Events \cup {NoEvent}]
        BY <1>0 DEF TypeOK
      <3> QED
        BY <1>2, <3>1 DEF Open
    <2> QED
      BY <1>0, <1>1, <2>1 DEF TypeOK
  <1>5. OneInternalOrder'
    BY <1>0, <1>1, <1>2 DEF OneInternalOrder
  <1>6. JobsNameEvents'
    BY <1>0, <1>1, <1>2 DEF JobsNameEvents, TypeOK
  <1>7. (LedgerHasJob /\ DoneIsReal)'
    BY <1>0, <1>1, <1>2, JobNames DEF LedgerHasJob, DoneIsReal, TypeOK
  <1>8. EventsAreReal'
    BY <1>0, <1>1, <1>2, <1>3, JobNames DEF EventsAreReal, LedgerHasJob, TypeOK
  <1> QED
    BY <1>4, <1>5, <1>6, <1>7, <1>8 DEF Inv

\* Steps that leave ledger, events, orders and their jobs' events alone need
\* only be checked for what they do to statuses and workers.
LEMMA BookkeepingInv ==
    ASSUME Inv, TypeOK', UNCHANGED << kind, event, ledger, orders, jobEvent >>,
           \A j \in Jobs : status'[j] = "ABSENT" <=> status[j] = "ABSENT",
           \A j \in Jobs : status'[j] = "SUCCEEDED" =>
                             status[j] = "SUCCEEDED" \/ \E w \in Workers : work[w][j] = "done",
           \A w \in Workers, j \in Jobs : work'[w][j] # "none" => status[j] # "ABSENT",
           \A w \in Workers, j \in Jobs : work'[w][j] = "done" => work[w][j] = "done"
    PROVE  Inv'
  <1>0. TypeOK /\ OneInternalOrder /\ JobsNameEvents /\ LedgerHasJob /\ DoneIsReal /\ EventsAreReal
    BY DEF Inv
  <1>1. (OneInternalOrder /\ JobsNameEvents /\ LedgerHasJob)'
    BY <1>0, JobNames DEF OneInternalOrder, JobsNameEvents, LedgerHasJob
  <1>2. DoneIsReal'
    BY <1>0, JobNames DEF DoneIsReal
  <1>3. EventsAreReal'
    BY <1>0 DEF EventsAreReal
  <1> QED
    BY <1>1, <1>2, <1>3 DEF Inv

LEMMA SetupInv ==
    ASSUME Inv, CompleteMapping \/ SetConnectionStatus
    PROVE  Inv'
  <1>0. TypeOK /\ JobsNameEvents
    BY DEF Inv
  <1>1. UNCHANGED << status, attempts, due, idle, jobEvent, event, ledger, orders, kind,
                     age, work, taken, overrun >>
    BY DEF CompleteMapping, SetConnectionStatus, job, order, workers, bounds
  <1>2. mapped' \in BOOLEAN /\ active' \in BOOLEAN /\ troubles' \in 0..MaxTroubles
    <2>0. mapped \in BOOLEAN /\ active \in BOOLEAN /\ troubles \in 0..MaxTroubles
      BY <1>0 DEF TypeOK
    <2>1. CASE CompleteMapping
      BY <2>0, <2>1, Zenon DEF CompleteMapping, bounds
    <2>2. CASE SetConnectionStatus
      <3>1. mapped' \in BOOLEAN /\ active' \in BOOLEAN
        BY <2>0, <2>2, Zenon DEF SetConnectionStatus
      <3>2. troubles' = troubles \/ (troubles < MaxTroubles /\ troubles' = troubles + 1)
        BY <2>2, Zenon DEF SetConnectionStatus, Trouble
      <3>3. troubles' \in 0..MaxTroubles
        BY <2>0, <3>2, DeliveryConstants
      <3> QED
        BY <3>1, <3>3
    <2> QED
      BY <2>1, <2>2
  <1>3. TypeOK'
    BY <1>0, <1>1, <1>2 DEF TypeOK
  <1> QED
    BY <1>0, <1>1, <1>3, BookkeepingInv DEF JobsNameEvents

LEMMA RetryInv ==
    ASSUME Inv, NEW j \in Jobs, RetryJob(j)
    PROVE  Inv'
  <1>0. TypeOK /\ JobsNameEvents
    BY DEF Inv
  <1>1. /\ UNCHANGED << idle, jobEvent, event, ledger, orders, kind, mapped, active,
                        age, work, taken, overrun >>
        /\ status[j] = "DEAD_LETTER" /\ status' = [status EXCEPT ![j] = "RETRY_PENDING"]
        /\ attempts' = [attempts EXCEPT ![j] = 0] /\ due' = [due EXCEPT ![j] = 0]
        /\ troubles' \in 0..MaxTroubles
    BY <1>0, DeliveryConstants DEF RetryJob, Retryable, Trouble, order, setup, workers, TypeOK
  <1>2. TypeOK'
    BY <1>0, <1>1, DeliveryConstants DEF TypeOK, Open
  <1> QED
    BY <1>0, <1>1, <1>2, BookkeepingInv DEF JobsNameEvents, TypeOK

LEMMA ClaimInv ==
    ASSUME Inv, NEW w \in Workers, Claim(w)
    PROVE  Inv'
  <1>0. TypeOK /\ JobsNameEvents
    BY DEF Inv
  <1>1. UNCHANGED << jobEvent, event, ledger, orders, kind, mapped, active, troubles, overrun >>
    BY DEF Claim, order, setup, bounds
  <1>2. \A j \in Jobs : IsDue(j) => status[j] # "ABSENT" /\ attempts[j] + 1 \in 0..MaxAttempts
    BY <1>0, DeliveryConstants DEF IsDue, StatusAfterSweep, Lost, TypeOK
  <1>3. \A j \in Jobs : StatusAfterSweep(j) = status[j]
                        \/ (StatusAfterSweep(j) \in {"DEAD_LETTER", "RETRY_PENDING"}
                              /\ status[j] = "PROCESSING")
    BY DEF StatusAfterSweep, Lost
  <1>4. status' \in [Jobs -> {"ABSENT", "SUCCEEDED", "DEAD_LETTER"} \cup Open]
    BY <1>0, <1>3 DEF Claim, TypeOK, Open
  <1>5. attempts' \in [Jobs -> 0..MaxAttempts]
    BY <1>0, <1>2 DEF Claim, TypeOK
  <1>6. due' \in [Jobs -> 0..RetryTicks] /\ idle' \in [Jobs -> 0..LeaseTicks + 1]
    BY <1>0, DeliveryConstants DEF Claim, TypeOK
  <1>7. work' \in [Workers -> [Jobs -> {"none", "claimed", "checked", "fetched",
                                        "done", "retryable", "fatal"}]]
    BY <1>0 DEF Claim, TypeOK
  <1>8. taken' \in [Workers -> [Jobs -> 0..MaxAttempts]] /\ age' \in [Workers -> 0..CycleLimit]
    BY <1>0, <1>5, DeliveryConstants DEF Claim, TypeOK
  <1>9. TypeOK'
    BY <1>0, <1>1, <1>4, <1>5, <1>6, <1>7, <1>8 DEF TypeOK
  <1>10. \A j \in Jobs : /\ status'[j] = "ABSENT" <=> status[j] = "ABSENT"
                         /\ status'[j] = "SUCCEEDED" => status[j] = "SUCCEEDED"
    BY <1>2, <1>3 DEF Claim
  <1>11. \A v \in Workers, j \in Jobs : /\ work'[v][j] # "none" => status[j] # "ABSENT"
                                        /\ work'[v][j] = "done" => work[v][j] = "done"
    BY <1>0, <1>2 DEF Claim, TypeOK, JobsNameEvents
  <1> QED
    BY <1>1, <1>9, <1>10, <1>11, BookkeepingInv

-----------------------------------------------------------------------------
(* What workers do with the jobs they hold.                                *)
Stands == {"none", "claimed", "checked", "fetched", "done", "retryable", "fatal"}

LEMMA CheckInv ==
    ASSUME Inv, NEW w \in Workers, NEW j \in Jobs, CheckConnection(w, j)
    PROVE  Inv'
  <1>0. TypeOK /\ JobsNameEvents
    BY DEF Inv
  <1>1. UNCHANGED << status, attempts, due, idle, jobEvent, event, ledger, orders, kind,
                     mapped, active, age, taken, troubles, overrun >>
    BY DEF CheckConnection, job, order, setup, bounds
  <1>2. \E x \in {"checked", "fatal"} : work' = [work EXCEPT ![w][j] = x]
    BY DEF CheckConnection
  <1>3. work[w][j] = "claimed"
    BY DEF CheckConnection
  <1>4. work \in [Workers -> [Jobs -> Stands]]
    BY <1>0 DEF TypeOK, Stands
  <1>5. work' \in [Workers -> [Jobs -> Stands]]
    BY <1>2, <1>4 DEF Stands
  <1>6. TypeOK'
    BY <1>0, <1>1, <1>5 DEF TypeOK, Stands
  <1>7. \A v \in Workers, i \in Jobs : /\ work'[v][i] # "none" => status[i] # "ABSENT"
                                       /\ work'[v][i] = "done" => work[v][i] = "done"
    BY <1>0, <1>2, <1>3, <1>4 DEF JobsNameEvents
  <1> QED
    BY <1>1, <1>6, <1>7, BookkeepingInv

LEMMA CompletionFailsInv ==
    ASSUME Inv, NEW w \in Workers, NEW j \in Jobs, CompletionFails(w, j)
    PROVE  Inv'
  <1>0. TypeOK /\ JobsNameEvents
    BY DEF Inv
  <1>1. UNCHANGED << status, attempts, due, idle, jobEvent, event, ledger, orders, kind,
                     mapped, active, age, taken, overrun >>
    BY DEF CompletionFails, job, order, setup
  <1>2. work[w][j] = "done" /\ work' = [work EXCEPT ![w][j] = "retryable"]
    BY DEF CompletionFails
  <1>3. work \in [Workers -> [Jobs -> Stands]]
    BY <1>0 DEF TypeOK, Stands
  <1>4. troubles' \in 0..MaxTroubles
    BY <1>0, DeliveryConstants DEF CompletionFails, Trouble, TypeOK
  <1>5. work' \in [Workers -> [Jobs -> Stands]]
    BY <1>2, <1>3 DEF Stands
  <1>6. TypeOK'
    BY <1>0, <1>1, <1>4, <1>5 DEF TypeOK, Stands
  <1>7. \A v \in Workers, i \in Jobs : /\ work'[v][i] # "none" => status[i] # "ABSENT"
                                       /\ work'[v][i] = "done" => work[v][i] = "done"
    BY <1>0, <1>2, <1>3 DEF JobsNameEvents
  <1> QED
    BY <1>1, <1>6, <1>7, BookkeepingInv

LEMMA ProviderInv ==
    ASSUME Inv, NEW w \in Workers, ProviderAnswers(w)
    PROVE  Inv'
  <1>0. TypeOK /\ JobsNameEvents
    BY DEF Inv
  <1>1. UNCHANGED << status, attempts, due, idle, jobEvent, event, ledger, orders, kind,
                     mapped, active, age, taken, troubles, overrun >>
    BY DEF ProviderAnswers, job, order, setup, bounds
  <1>2. \E x \in {"fetched", "retryable", "fatal"} : work' = [work EXCEPT ![w][Fetch] = x]
    BY DEF ProviderAnswers, Fetch
  <1>3. work[w][Fetch] = "checked"
    BY DEF ProviderAnswers, Fetch
  <1>4. work \in [Workers -> [Jobs -> Stands]]
    BY <1>0 DEF TypeOK, Stands
  <1>5. work' \in [Workers -> [Jobs -> Stands]]
    BY <1>2, <1>4, JobNames DEF Stands
  <1>6. TypeOK'
    BY <1>0, <1>1, <1>5 DEF TypeOK, Stands
  <1>7. \A v \in Workers, i \in Jobs : /\ work'[v][i] # "none" => status[i] # "ABSENT"
                                       /\ work'[v][i] = "done" => work[v][i] = "done"
    BY <1>0, <1>2, <1>3, <1>4, JobNames DEF JobsNameEvents
  <1> QED
    BY <1>1, <1>6, <1>7, BookkeepingInv

\* Staging finds an import, queues one, or loses its transaction.
LEMMA StageInv ==
    ASSUME Inv, NEW w \in Workers, StageOrder(w)
    PROVE  Inv'
  <1> DEFINE e == jobEvent[Fetch]
  <1>0. TypeOK /\ OneInternalOrder /\ JobsNameEvents /\ LedgerHasJob /\ DoneIsReal /\ EventsAreReal
    BY DEF Inv
  <1>1. UNCHANGED << kind, orders, attempts, due, idle, mapped, active, age, taken,
                     troubles, overrun >>
    BY DEF StageOrder, setup, bounds
  <1>2. \/ /\ ledger = "IMPORTED"
           /\ event' = [event EXCEPT ![e] = "PROCESSED"]
           /\ work' = [work EXCEPT ![w][Fetch] = "done"]
           /\ UNCHANGED << ledger, status, jobEvent >>
        \/ /\ ledger # "IMPORTED" /\ status[Import] = "ABSENT"
           /\ ledger' = "READY_FOR_IMPORT"
           /\ status' = [status EXCEPT ![Import] = "PENDING"]
           /\ jobEvent' = [jobEvent EXCEPT ![Import] = e]
           /\ event' = [event EXCEPT ![e] = "PROCESSING"]
           /\ work' = [work EXCEPT ![w][Fetch] = "done"]
        \/ /\ work' = [work EXCEPT ![w][Fetch] = "retryable"]
           /\ UNCHANGED << event, ledger, status, jobEvent >>
    BY DEF StageOrder, CanEnqueue, Enqueue, Fetch, Import
  <1>3. e \in Events /\ status[Fetch] # "ABSENT"
    BY <1>0, JobNames DEF JobsNameEvents, StageOrder, Fetch
  <1>4. /\ event \in [Events -> {"ABSENT", "REJECTED", "VERIFIED", "PROCESSING",
                                 "PROCESSED", "DEAD_LETTER"}]
        /\ status \in [Jobs -> {"ABSENT", "SUCCEEDED", "DEAD_LETTER"} \cup Open]
        /\ jobEvent \in [Jobs -> Events \cup {NoEvent}]
        /\ work \in [Workers -> [Jobs -> Stands]]
    BY <1>0 DEF TypeOK, Stands
  <1> HIDE DEF e
  <1>5. TypeOK'
    <2>1. /\ event' \in [Events -> {"ABSENT", "REJECTED", "VERIFIED", "PROCESSING",
                                    "PROCESSED", "DEAD_LETTER"}]
          /\ ledger' \in {"ABSENT", "READY_FOR_IMPORT", "MAPPING_REQUIRED", "IMPORTED"}
          /\ status' \in [Jobs -> {"ABSENT", "SUCCEEDED", "DEAD_LETTER"} \cup Open]
          /\ jobEvent' \in [Jobs -> Events \cup {NoEvent}]
      <3>1. ledger \in {"ABSENT", "READY_FOR_IMPORT", "MAPPING_REQUIRED", "IMPORTED"}
        BY <1>0 DEF TypeOK
      <3> QED
        BY <1>2, <1>3, <1>4, <3>1, JobNames DEF Open
    <2>2. work' \in [Workers -> [Jobs -> Stands]]
      BY <1>2, <1>4, JobNames DEF Stands
    <2> QED
      BY <1>0, <1>1, <2>1, <2>2 DEF TypeOK, Stands
  <1>6. OneInternalOrder'
    BY <1>0, <1>1, <1>2 DEF OneInternalOrder
  <1>7. JobsNameEvents'
    <2>1. \A v \in Workers, i \in Jobs : work'[v][i] = work[v][i] \/ i = Fetch
      <3>1. \E x \in {"done", "retryable"} : work' = [work EXCEPT ![w][Fetch] = x]
        BY <1>2
      <3> QED
        BY <1>4, <3>1, JobNames
    <2>2. \A i \in Jobs : /\ status[i] # "ABSENT" => status'[i] # "ABSENT"
                          /\ status'[i] # "ABSENT" => \/ jobEvent'[i] = e
                                                      \/ (jobEvent'[i] = jobEvent[i] /\ status[i] # "ABSENT")
      BY <1>2, <1>4, JobNames
    <2> QED
      BY <1>0, <1>3, <2>1, <2>2, JobNames DEF JobsNameEvents
  <1>8. (LedgerHasJob /\ DoneIsReal)'
    BY <1>0, <1>2, <1>4, JobNames DEF LedgerHasJob, DoneIsReal
  <1>9. EventsAreReal'
    BY <1>0, <1>1, <1>2, <1>3, <1>4, JobNames DEF EventsAreReal, LedgerHasJob
  <1> QED
    BY <1>5, <1>6, <1>7, <1>8, <1>9 DEF Inv

\* The import transaction holds the ledger row: it creates an order only
\* where the ledger has none.
LEMMA ImportInv ==
    ASSUME Inv, NEW w \in Workers, ImportOrder(w)
    PROVE  Inv'
  <1> DEFINE e == jobEvent[Import]
  <1>0. TypeOK /\ OneInternalOrder /\ JobsNameEvents /\ LedgerHasJob /\ DoneIsReal /\ EventsAreReal
    BY DEF Inv
  <1>1. UNCHANGED << status, attempts, due, idle, jobEvent, kind, mapped, active, age, taken,
                     troubles, overrun >>
    BY DEF ImportOrder, job, setup, bounds
  <1>2. \/ /\ ledger = "IMPORTED"
           /\ work' = [work EXCEPT ![w][Import] = "done"]
           /\ UNCHANGED << event, ledger, orders >>
        \/ /\ ledger # "IMPORTED"
           /\ ledger' = "IMPORTED"
           /\ orders' = orders + 1
           /\ event' = [event EXCEPT ![e] = "PROCESSED"]
           /\ work' = [work EXCEPT ![w][Import] = "done"]
        \/ /\ ledger # "IMPORTED"
           /\ ledger' = "MAPPING_REQUIRED"
           /\ event' = [event EXCEPT ![e] = "DEAD_LETTER"]
           /\ work' = [work EXCEPT ![w][Import] = "fatal"]
           /\ UNCHANGED orders
        \/ /\ work' = [work EXCEPT ![w][Import] = "retryable"]
           /\ UNCHANGED << event, ledger, orders >>
    BY DEF ImportOrder, AlreadyImported, MappingError, Import
  <1>3. e \in Events /\ status[Import] # "ABSENT"
    BY <1>0, JobNames DEF JobsNameEvents, ImportOrder, Import
  <1>4. /\ event \in [Events -> {"ABSENT", "REJECTED", "VERIFIED", "PROCESSING",
                                 "PROCESSED", "DEAD_LETTER"}]
        /\ work \in [Workers -> [Jobs -> Stands]] /\ orders \in Nat
        /\ ledger \in {"ABSENT", "READY_FOR_IMPORT", "MAPPING_REQUIRED", "IMPORTED"}
    BY <1>0 DEF TypeOK, Stands
  <1>e. e = jobEvent[Import]
    OBVIOUS
  <1> HIDE DEF e
  <1>5. TypeOK'
    <2>1. /\ event' \in [Events -> {"ABSENT", "REJECTED", "VERIFIED", "PROCESSING",
                                    "PROCESSED", "DEAD_LETTER"}]
          /\ ledger' \in {"ABSENT", "READY_FOR_IMPORT", "MAPPING_REQUIRED", "IMPORTED"}
          /\ orders' \in Nat
      BY <1>2, <1>3, <1>4
    <2>2. work' \in [Workers -> [Jobs -> Stands]]
      BY <1>2, <1>4, JobNames DEF Stands
    <2> QED
      BY <1>0, <1>1, <2>1, <2>2 DEF TypeOK, Stands
  <1>6. OneInternalOrder'
    BY <1>0, <1>2, <1>4 DEF OneInternalOrder
  <1>7. JobsNameEvents'
    <2>1. \A v \in Workers, i \in Jobs : work'[v][i] = work[v][i] \/ i = Import
      BY <1>2, <1>4, JobNames
    <2> QED
      BY <1>0, <1>1, <1>3, <2>1 DEF JobsNameEvents
  <1>8. (LedgerHasJob /\ DoneIsReal)'
    BY <1>0, <1>1, <1>2, <1>3, <1>4, JobNames DEF LedgerHasJob, DoneIsReal
  <1>9. EventsAreReal'
    BY <1>0, <1>1, <1>2, <1>3, <1>4, <1>e DEF EventsAreReal
  <1> QED
    BY <1>5, <1>6, <1>7, <1>8, <1>9 DEF Inv

\* Letting jobs go only empties hands.
LEMMA LetGoStep ==
    ASSUME TypeOK, NEW w \in Workers, NEW js \in SUBSET Jobs, LetGo(w, js)
    PROVE  /\ work' \in [Workers -> [Jobs -> Stands]]
           /\ taken' \in [Workers -> [Jobs -> 0..MaxAttempts]]
           /\ age' \in [Workers -> 0..CycleLimit]
           /\ \A v \in Workers, i \in Jobs : work'[v][i] = "none" \/ work'[v][i] = work[v][i]
  <1>1. /\ work \in [Workers -> [Jobs -> Stands]]
        /\ taken \in [Workers -> [Jobs -> 0..MaxAttempts]] /\ age \in [Workers -> 0..CycleLimit]
    BY DEF TypeOK, Stands
  <1>2. work' \in [Workers -> [Jobs -> Stands]]
        /\ \A v \in Workers, i \in Jobs : work'[v][i] = "none" \/ work'[v][i] = work[v][i]
    BY <1>1 DEF LetGo, Stands
  <1>3. taken' \in [Workers -> [Jobs -> 0..MaxAttempts]]
    BY <1>1, DeliveryConstants DEF LetGo
  <1>4. age' \in [Workers -> 0..CycleLimit]
    BY <1>1, DeliveryConstants DEF LetGo
  <1> QED
    BY <1>2, <1>3, <1>4

LEMMA FinishInv ==
    ASSUME Inv, NEW w \in Workers, NEW j \in Jobs, CompleteJob(w, j) \/ FailJob(w, j)
    PROVE  Inv'
  <1>0. TypeOK /\ JobsNameEvents
    BY DEF Inv
  <1>1. UNCHANGED << attempts, jobEvent, event, ledger, orders, kind, mapped, active,
                     troubles, overrun >>
    BY DEF CompleteJob, FailJob, order, setup, bounds
  <1>2. LetGo(w, {j})
    BY DEF CompleteJob, FailJob
  <1>3. /\ work' \in [Workers -> [Jobs -> Stands]]
        /\ taken' \in [Workers -> [Jobs -> 0..MaxAttempts]]
        /\ age' \in [Workers -> 0..CycleLimit]
        /\ \A v \in Workers, i \in Jobs : work'[v][i] = "none" \/ work'[v][i] = work[v][i]
    BY <1>0, <1>2, LetGoStep
  <1>4. work[w][j] # "none" /\ \E x \in {"SUCCEEDED", "RETRY_PENDING", "DEAD_LETTER"} :
                                   /\ status' = [status EXCEPT ![j] = x]
                                   /\ x = "SUCCEEDED" => work[w][j] = "done"
    BY DEF CompleteJob, FailJob
  <1>5. DueAfter(w) \in 0..RetryTicks
    <2>1. age[w] \in Nat /\ RetryTicks \in Nat
      BY <1>0, DeliveryConstants DEF TypeOK
    <2>2. Max({0, RetryTicks - age[w]}) = IF 0 >= RetryTicks - age[w] THEN 0 ELSE RetryTicks - age[w]
      BY <2>1, MaxOfTwo
    <2> QED
      BY <2>1, <2>2 DEF DueAfter
  <1>6. due' \in [Jobs -> 0..RetryTicks] /\ idle' \in [Jobs -> 0..LeaseTicks + 1]
    <2>1. due \in [Jobs -> 0..RetryTicks] /\ idle \in [Jobs -> 0..LeaseTicks + 1]
      BY <1>0 DEF TypeOK
    <2>2. /\ due' = due \/ \E t \in {0, DueAfter(w)} : due' = [due EXCEPT ![j] = t]
          /\ idle' = [idle EXCEPT ![j] = 0]
      BY DEF CompleteJob, FailJob
    <2> QED
      BY <1>5, <2>1, <2>2, DeliveryConstants
  <1>7. status' \in [Jobs -> {"ABSENT", "SUCCEEDED", "DEAD_LETTER"} \cup Open]
    BY <1>0, <1>4 DEF TypeOK, Open
  <1>8. TypeOK'
    BY <1>0, <1>1, <1>3, <1>6, <1>7 DEF TypeOK, Stands
  <1>9. \A i \in Jobs : /\ status'[i] = "ABSENT" <=> status[i] = "ABSENT"
                        /\ status'[i] = "SUCCEEDED" => status[i] = "SUCCEEDED" \/ work[w][i] = "done"
    BY <1>0, <1>4 DEF TypeOK, JobsNameEvents
  <1>10. \A v \in Workers, i \in Jobs : /\ work'[v][i] # "none" => status[i] # "ABSENT"
                                        /\ work'[v][i] = "done" => work[v][i] = "done"
    BY <1>0, <1>3 DEF JobsNameEvents
  <1> QED
    BY <1>1, <1>8, <1>9, <1>10, BookkeepingInv

LEMMA CrashInv ==
    ASSUME Inv, NEW w \in Workers, Crash(w)
    PROVE  Inv'
  <1>0. TypeOK /\ JobsNameEvents
    BY DEF Inv
  <1>1. UNCHANGED << status, attempts, due, idle, jobEvent, event, ledger, orders, kind,
                     mapped, active, overrun >>
    BY DEF Crash, job, order, setup
  <1>2. LetGo(w, Jobs) /\ troubles' \in 0..MaxTroubles
    BY <1>0, DeliveryConstants DEF Crash, Trouble, TypeOK
  <1>3. /\ work' \in [Workers -> [Jobs -> Stands]]
        /\ taken' \in [Workers -> [Jobs -> 0..MaxAttempts]]
        /\ age' \in [Workers -> 0..CycleLimit]
        /\ \A v \in Workers, i \in Jobs : work'[v][i] = "none" \/ work'[v][i] = work[v][i]
    BY <1>0, <1>2, LetGoStep
  <1>4. TypeOK'
    BY <1>0, <1>1, <1>2, <1>3 DEF TypeOK, Stands
  <1> QED
    BY <1>0, <1>1, <1>3, <1>4, BookkeepingInv DEF JobsNameEvents

LEMMA TickInv ==
    ASSUME Inv, Tick
    PROVE  Inv'
  <1>0. TypeOK /\ JobsNameEvents
    BY DEF Inv
  <1>1. UNCHANGED << status, attempts, jobEvent, event, ledger, orders, kind, mapped, active,
                     work, taken, troubles >>
    BY DEF Tick, order, setup
  <1>2. age' \in [Workers -> 0..CycleLimit]
    BY <1>0, DeliveryConstants DEF Tick, TypeOK
  <1>3. due' \in [Jobs -> 0..RetryTicks]
    <2>1. ASSUME NEW j \in Jobs PROVE Max({0, due[j] - 1}) \in 0..RetryTicks
      <3>1. due[j] \in 0..RetryTicks
        BY <1>0 DEF TypeOK
      <3>2. Max({0, due[j] - 1}) = IF 0 >= due[j] - 1 THEN 0 ELSE due[j] - 1
        BY <3>1, MaxOfTwo, DeliveryConstants
      <3> QED
        BY <3>1, <3>2, DeliveryConstants
    <2> QED
      BY <2>1 DEF Tick
  <1>4. idle' \in [Jobs -> 0..LeaseTicks + 1]
    <2>1. ASSUME NEW j \in Jobs PROVE Min({LeaseTicks + 1, idle[j] + 1}) \in 0..LeaseTicks + 1
      <3>1. idle[j] \in 0..LeaseTicks + 1
        BY <1>0 DEF TypeOK
      <3>2. Min({LeaseTicks + 1, idle[j] + 1})
              = IF LeaseTicks + 1 <= idle[j] + 1 THEN LeaseTicks + 1 ELSE idle[j] + 1
        BY <3>1, MinOfTwo, DeliveryConstants
      <3> QED
        BY <3>1, <3>2, DeliveryConstants
    <2> QED
      BY <2>1, DeliveryConstants DEF Tick
  <1>5. overrun' \in BOOLEAN
    BY Zenon DEF Tick
  <1>6. TypeOK'
    BY <1>0, <1>1, <1>2, <1>3, <1>4, <1>5 DEF TypeOK
  <1> QED
    BY <1>0, <1>1, <1>6, BookkeepingInv DEF JobsNameEvents

LEMMA Invariance == Spec => []Inv
  <1>1. Inv /\ [Next]_vars => Inv'
    <2> SUFFICES ASSUME Inv, [Next]_vars PROVE Inv'
      OBVIOUS
    <2>1. ASSUME NEW w \in Workers, WorkerStep(w) PROVE Inv'
      BY <2>1, ProviderInv, StageInv, ImportInv, CheckInv, FinishInv DEF WorkerStep
    <2>2. CASE UNCHANGED vars
      <3>1. UNCHANGED << status, attempts, due, idle, jobEvent, event, ledger, orders, kind,
                         mapped, active, age, work, taken, troubles, overrun >>
        BY <2>2 DEF vars, job, order, setup, workers, bounds
      <3> QED
        BY <3>1 DEF Inv, TypeOK, OneInternalOrder, JobsNameEvents, LedgerHasJob, DoneIsReal,
                    EventsAreReal
    <2> QED
      BY <2>1, <2>2, ReceiveInv, SetupInv, RetryInv, ClaimInv, CompletionFailsInv, CrashInv,
         TickInv DEF Next
  <1> QED
    BY <1>1, InitInv, PTL DEF Spec

-----------------------------------------------------------------------------
\* The variables keep their types: in particular, no job is attempted more
\* often than max_attempts between two manual retries.
THEOREM TypeCorrect == Spec => []TypeOK
  <1>1. Inv => TypeOK
    BY DEF Inv
  <1> QED
    BY <1>1, Invariance, PTL

\* importExternalOrderFromJob creates one order however often the external
\* order is announced, fetched, retried or taken over, even by workers that
\* outlived their lease.
THEOREM OneInternalOrderHolds == Spec => []OneInternalOrder
  <1>1. Inv => OneInternalOrder
    BY DEF Inv
  <1> QED
    BY <1>1, Invariance, PTL

\* What jobs and webhook events report as done or dead agrees with the
\* ledger of external orders.
THEOREM SuccessIsRealHolds == Spec => []SuccessIsReal
  <1>1. Inv => SuccessIsReal
    BY DEF Inv, SuccessIsReal, OneInternalOrder, DoneIsReal, EventsAreReal, Import, Fetch
  <1> QED
    BY <1>1, Invariance, PTL
=============================================================================

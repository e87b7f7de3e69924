---------------------------- MODULE StaffPushJobs ----------------------------
(***************************************************************************)
(* Web Push deliveries to the staff of a stall: the rows of                *)
(* public.staff_push_deliveries, inserted by the order trigger or by a     *)
(* test request, and the worker processStaffPushJobs of                    *)
(* src/server/notifications/staff-push-service.ts.                         *)
(*                                                                         *)
(* An invocation takes a fresh lease token, which is the worker here.  The *)
(* lease of 120 seconds is shorter than an invocation may live, so a       *)
(* worker can lose a row while it sends; its last update names the token.  *)
(* Clocks are relative to the present: avail and ttl are "time until       *)
(* available_at / expires_at", held is "time since claimed_at", age is     *)
(* "time since the invocation read the clock".                             *)
(***************************************************************************)
EXTENDS Integers, FiniteSets, FiniteSetsExt

CONSTANTS
    Deliveries,     \* rows
    Workers,        \* invocations, each with its own lease token
    NoLease,        \* lease_token is null
    DeadLease,      \* the token of an invocation that died
    MaxAttempts,    \* 4
    BatchLimit,     \* limit 10
    LeaseTicks,     \* 120 seconds
    ExpiryTicks,    \* five minutes from insert to expires_at
    TestDelay,      \* thirty seconds before a test notification
    RetryBase,      \* 15 seconds, doubled with every attempt
    RetryCap,       \* 60 seconds
    CycleLimit,     \* longest life of an invocation, enforced by the platform
    MaxCrashes      \* bound: invocations that die

ASSUME StaffPushConstants ==
    /\ NoLease \notin Workers /\ DeadLease \notin Workers /\ NoLease # DeadLease
    /\ MaxAttempts \in Nat \ {0}
    /\ BatchLimit \in Nat \ {0}
    /\ {LeaseTicks, ExpiryTicks, TestDelay, RetryBase, RetryCap,
        CycleLimit, MaxCrashes} \subseteq Nat
    /\ IsFiniteSet(Workers)

\* Stated because the provers do not know exponentiation.
ASSUME BackoffIsNatural == \A n \in 0..MaxAttempts : RetryBase * 2 ^ n \in Nat

VARIABLES
    status,         \* [Deliveries -> row status]; "ABSENT" before the insert
    attempts,
    avail,          \* available_at, relative
    ttl,            \* expires_at, relative
    lease,          \* lease_token
    held,           \* claimed_at, relative
    enabled,        \* the subscription is enabled and its session still valid
    orderOpen,      \* [Deliveries -> the order is neither cancelled nor finished]
    cycle,          \* [Workers -> where the invocation stands]
    age,
    work,           \* [Workers -> [Deliveries -> where it stands with the row]]
    sends,          \* history: how often a push left for the row
    crashes

rows    == << status, attempts, avail, ttl, lease, held >>
facts   == << enabled, orderOpen >>
workers == << cycle, age, work >>
vars    == << rows, facts, workers, sends, crashes >>

Floor == 0 - CycleLimit
AvailCap == Max({TestDelay, RetryCap})
HeldCap == LeaseTicks + CycleLimit + 1

TypeOK ==
    /\ status \in [Deliveries ->
            {"ABSENT", "PENDING", "PROCESSING", "SENT", "FAILED", "CANCELLED"}]
    /\ attempts \in [Deliveries -> 0..MaxAttempts]
    /\ avail \in [Deliveries -> Floor..AvailCap]
    /\ ttl \in [Deliveries -> Floor..ExpiryTicks]
    /\ lease \in [Deliveries -> Workers \cup {NoLease, DeadLease}]
    /\ held \in [Deliveries -> 0..HeldCap]
    /\ enabled \in BOOLEAN
    /\ orderOpen \in [Deliveries -> BOOLEAN]
    /\ cycle \in [Workers -> {"idle", "expire", "recover", "giveUp", "claim", "process"}]
    /\ age \in [Workers -> 0..CycleLimit]
    /\ work \in [Workers -> [Deliveries ->
            {"none", "claimed", "sending", "sent", "gone", "retryable", "fatal"}]]
    /\ sends \in [Deliveries -> Nat]
    /\ crashes \in 0..MaxCrashes

Init ==
    /\ status = [d \in Deliveries |-> "ABSENT"]
    /\ attempts = [d \in Deliveries |-> 0]
    /\ avail = [d \in Deliveries |-> 0]
    /\ ttl = [d \in Deliveries |-> 0]
    /\ lease = [d \in Deliveries |-> NoLease]
    /\ held = [d \in Deliveries |-> 0]
    /\ enabled = TRUE
    /\ orderOpen = [d \in Deliveries |-> TRUE]
    /\ cycle = [w \in Workers |-> "idle"]
    /\ age = [w \in Workers |-> 0]
    /\ work = [w \in Workers |-> [d \in Deliveries |-> "none"]]
    /\ sends = [d \in Deliveries |-> 0]
    /\ crashes = 0

-----------------------------------------------------------------------------
\* enqueue_staff_new_order_push, or the TEST command with its delay.
Enqueue(d) ==
    /\ enabled /\ orderOpen[d]
    /\ status[d] = "ABSENT"
    /\ \E wait \in {0, TestDelay} : avail' = [avail EXCEPT ![d] = wait]
    /\ status' = [status EXCEPT ![d] = "PENDING"]
    /\ ttl' = [ttl EXCEPT ![d] = ExpiryTicks]
    /\ UNCHANGED << attempts, lease, held, facts, workers, sends, crashes >>

\* UNSUBSCRIBE, a logout or a lost role; SUBSCRIBE enables the row again.
Unsubscribe ==
    /\ enabled
    /\ enabled' = FALSE
    /\ UNCHANGED << rows, orderOpen, workers, sends, crashes >>

Subscribe ==
    /\ ~ enabled
    /\ enabled' = TRUE
    /\ UNCHANGED << rows, orderOpen, workers, sends, crashes >>

CloseOrder(d) ==
    /\ orderOpen[d]
    /\ orderOpen' = [orderOpen EXCEPT ![d] = FALSE]
    /\ UNCHANGED << rows, enabled, workers, sends, crashes >>

-----------------------------------------------------------------------------
(* One invocation, under a token of its own.                               *)
BeginCycle(w) ==
    /\ cycle[w] = "idle"
    /\ cycle' = [cycle EXCEPT ![w] = "expire"]
    /\ age' = [age EXCEPT ![w] = 0]
    /\ UNCHANGED << rows, facts, work, sends, crashes >>

Advance(w, from, to) ==
    /\ cycle[w] = from
    /\ cycle' = [cycle EXCEPT ![w] = to]

SetStatus(ds, s) == status' = [d \in Deliveries |-> IF d \in ds THEN s ELSE status[d]]

ExpiredInProcess(w) == {d \in Deliveries : status[d] = "PROCESSING" /\ ttl[d] <= 0 - age[w]}
Expired(w) == {d \in Deliveries : status[d] \in {"PENDING", "PROCESSING"} /\ ttl[d] <= 0 - age[w]}

CancelExpired(w) ==
    /\ Advance(w, "expire", "recover")
    /\ SetStatus(Expired(w), "CANCELLED")
    /\ UNCHANGED << attempts, avail, ttl, lease, held, facts, age, work, sends, crashes >>

LostLeases(w) == {d \in Deliveries : status[d] = "PROCESSING" /\ held[d] > LeaseTicks + age[w]}

RecoverLeases(w) ==
    /\ Advance(w, "recover", "giveUp")
    /\ SetStatus(LostLeases(w), "PENDING")
    /\ lease' = [d \in Deliveries |-> IF d \in LostLeases(w) THEN NoLease ELSE lease[d]]
    /\ UNCHANGED << attempts, avail, ttl, held, facts, age, work, sends, crashes >>

GiveUp(w) ==
    /\ Advance(w, "giveUp", "claim")
    /\ SetStatus({d \in Deliveries : status[d] = "PENDING" /\ attempts[d] >= MaxAttempts},
                 "FAILED")
    /\ UNCHANGED << attempts, avail, ttl, lease, held, facts, age, work, sends, crashes >>

Claimable(w) ==
    {d \in Deliveries : /\ status[d] = "PENDING"
                        /\ avail[d] <= 0 - age[w] /\ ttl[d] > 0 - age[w]
                        /\ attempts[d] < MaxAttempts}

\* attempts = attempts + 1.
CountsOnce(d) == 1
Counted(d) == attempts[d] + 1

\* order by available_at limit 10 for update skip locked.
Claim(w) ==
    /\ Advance(w, "claim", "process")
    /\ \E batch \in SUBSET Claimable(w) :
         /\ Cardinality(batch) = Min({BatchLimit, Cardinality(Claimable(w))})
         /\ \A d \in batch, e \in Claimable(w) \ batch : avail[d] <= avail[e]
         /\ SetStatus(batch, "PROCESSING")
         /\ lease' = [d \in Deliveries |-> IF d \in batch THEN w ELSE lease[d]]
         /\ attempts' = [d \in Deliveries |-> IF d \in batch THEN Counted(d) ELSE attempts[d]]
         /\ held' = [d \in Deliveries |-> IF d \in batch THEN age[w] ELSE held[d]]
         /\ work' = [work EXCEPT ![w] = [d \in Deliveries |->
                                            IF d \in batch THEN "claimed" ELSE "none"]]
    /\ UNCHANGED << avail, ttl, facts, age, sends, crashes >>

\* finish: the update names the row, the token and PROCESSING.
Unfenced(w, d) == status[d] = "PROCESSING"
Fence(w, d) == lease[d] = w /\ status[d] = "PROCESSING"

Finish(w, d, s, next) ==
    /\ work' = [work EXCEPT ![w][d] = "none"]
    /\ IF Fence(w, d)
         THEN /\ status' = [status EXCEPT ![d] = s]
              /\ avail' = [avail EXCEPT ![d] = next]
         ELSE UNCHANGED << status, avail >>

\* The session, role, key and order checks before the send.
CheckAndSend(w, d) ==
    /\ work[w][d] = "claimed"
    /\ IF enabled /\ orderOpen[d]
         THEN /\ work' = [work EXCEPT ![w][d] = "sending"]
              /\ sends' = [sends EXCEPT ![d] = @ + 1]
              /\ UNCHANGED << status, avail >>
         ELSE /\ Finish(w, d, "CANCELLED", avail[d])
              /\ UNCHANGED sends
    /\ UNCHANGED << attempts, ttl, lease, held, facts, cycle, age, crashes >>

\* The push service answers or the request times out (external).
ServiceAnswers(w, d) ==
    /\ work[w][d] = "sending"
    /\ \E answer \in {"sent", "gone", "retryable", "fatal"} :
           work' = [work EXCEPT ![w][d] = answer]
    /\ UNCHANGED << rows, facts, cycle, age, sends, crashes >>

\* Min(60 s, 15 s * 2 ** (attempts - 1)) from the present; attempts is the
\* value the worker read, which is the row's unless the lease was lost.
RetryAt(d) == Min({RetryCap, RetryBase * 2 ^ (attempts[d] - 1)})

RecordOutcome(w, d) ==
    /\ \/ /\ work[w][d] = "sent"
          /\ Finish(w, d, "SENT", avail[d])
          /\ UNCHANGED enabled
       \/ /\ work[w][d] = "gone"
          /\ enabled' = FALSE
          /\ Finish(w, d, "CANCELLED", avail[d])
       \/ /\ work[w][d] = "retryable"
          /\ IF attempts[d] < MaxAttempts /\ RetryAt(d) < ttl[d]
               THEN Finish(w, d, "PENDING", RetryAt(d))
               ELSE Finish(w, d, "FAILED", avail[d])
          /\ UNCHANGED enabled
       \/ /\ work[w][d] = "fatal"
          /\ Finish(w, d, "FAILED", avail[d])
          /\ UNCHANGED enabled
    /\ UNCHANGED << attempts, ttl, lease, held, orderOpen, cycle, age, sends, crashes >>

EndCycle(w) ==
    /\ \A d \in Deliveries : work[w][d] = "none"
    /\ Advance(w, "process", "idle")
    /\ age' = [age EXCEPT ![w] = 0]
    /\ UNCHANGED << rows, facts, work, sends, crashes >>

\* The invocation dies; rows it held keep a token nobody has any more.
Crash(w) ==
    /\ cycle[w] # "idle" /\ crashes < MaxCrashes
    /\ crashes' = crashes + 1
    /\ cycle' = [cycle EXCEPT ![w] = "idle"]
    /\ age' = [age EXCEPT ![w] = 0]
    /\ work' = [work EXCEPT ![w] = [d \in Deliveries |-> "none"]]
    /\ lease' = [d \in Deliveries |-> IF lease[d] = w THEN DeadLease ELSE lease[d]]
    /\ UNCHANGED << status, attempts, avail, ttl, held, facts, sends >>

Tick ==
    /\ \A w \in Workers : cycle[w] # "idle" => age[w] < CycleLimit
    /\ age' = [w \in Workers |-> IF cycle[w] = "idle" THEN 0 ELSE age[w] + 1]
    /\ avail' = [d \in Deliveries |-> IF status[d] \in {"PENDING", "PROCESSING"}
                                        THEN Max({Floor, avail[d] - 1}) ELSE avail[d]]
    /\ ttl' = [d \in Deliveries |-> IF status[d] \in {"PENDING", "PROCESSING"}
                                      THEN Max({Floor, ttl[d] - 1}) ELSE ttl[d]]
    /\ held' = [d \in Deliveries |-> IF status[d] = "PROCESSING"
                                       THEN Min({HeldCap, held[d] + 1}) ELSE 0]
    /\ UNCHANGED << status, attempts, lease, facts, cycle, work, sends, crashes >>

-----------------------------------------------------------------------------
WorkerStep(w) ==
    \/ CancelExpired(w) \/ RecoverLeases(w) \/ GiveUp(w) \/ Claim(w) \/ EndCycle(w)
    \/ \E d \in Deliveries : CheckAndSend(w, d) \/ ServiceAnswers(w, d) \/ RecordOutcome(w, d)

Next ==
    \/ \E d \in Deliveries : Enqueue(d) \/ CloseOrder(d)
    \/ Subscribe \/ Unsubscribe
    \/ \E w \in Workers : BeginCycle(w) \/ WorkerStep(w) \/ Crash(w)
    \/ Tick

Spec == Init /\ [][Next]_vars

\* Time passes, cron starts invocations, and one that is not killed runs on.
Fairness ==
    /\ WF_vars(Tick)
    /\ \A w \in Workers : WF_vars(BeginCycle(w)) /\ WF_vars(WorkerStep(w))

FairSpec == Spec /\ Fairness

-----------------------------------------------------------------------------
(* Properties.                                                             *)

Settled(d) == status[d] \in {"SENT", "FAILED", "CANCELLED"}

\* A row that is being processed is settled only by the invocation that holds
\* its lease, or by the sweep of expired rows: the late answer of an
\* invocation that lost the row changes nothing.
OnlyHolderSettles ==
    [][\A d \in Deliveries :
        status[d] = "PROCESSING" /\ status'[d] \in {"SENT", "FAILED", "PENDING"} =>
            \/ lease'[d] = NoLease
            \/ lease[d] \in Workers /\ work'[lease[d]][d] # work[lease[d]][d]]_vars

\* No more than four pushes leave for a row, however invocations overlap, lose
\* their leases or die.
SendsBounded == \A d \in Deliveries : sends[d] <= MaxAttempts

\* A row that is settled stays as it is: a device is not alerted again.
SettledIsFinal ==
    [][\A d \in Deliveries : Settled(d) => status'[d] = status[d]]_vars

\* Every delivery is settled in the end, crashes included: five minutes after
\* the order at the latest the next sweep cancels it.
EventuallySettled ==
    \A d \in Deliveries : status[d] # "ABSENT" ~> Settled(d)
=============================================================================

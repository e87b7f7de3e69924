------------------------- MODULE NotificationOutbox -------------------------
(***************************************************************************)
(* The billing notification outbox: the rows of public.notification_outbox,*)
(* the SQL functions claim / complete / fail of the p1_outbox_dispatch     *)
(* migration, and the cron-driven dispatcher of                            *)
(* src/server/outbox/outbox-dispatcher.ts that calls them.                 *)
(*                                                                         *)
(* Every cron invocation is a worker with an id of its own.  A worker      *)
(* reads the clock once, when its cycle starts, and uses that instant for  *)
(* the claim, for the lease and for the retry times; by the time a         *)
(* statement runs, that instant may lie in the past.  Clocks are therefore *)
(* kept relative to the present: due[e] and lease[e] are "how long until", *)
(* age[w] is "how long since the cycle of w read the clock", and the       *)
(* instant a worker uses is -age[w].                                       *)
(***************************************************************************)
EXTENDS Integers, FiniteSets, Sequences

CONSTANTS
    Entries,        \* rows of the outbox
    Workers,        \* ids of cron invocations
    NoWorker,       \* claimed_by_worker is null
    MaxAttempts,    \* max_attempts
    BatchLimit,     \* limit of a claim
    LeaseTicks,     \* p_lease_seconds
    CycleLimit,     \* longest life of an invocation, enforced by the platform
    RetryDelays     \* delaysMinutes of outboxRetryAt

ASSUME OutboxConstants ==
    /\ NoWorker \notin Workers
    /\ MaxAttempts \in Nat \ {0}
    /\ BatchLimit \in Nat \ {0}
    /\ CycleLimit \in Nat
    /\ LeaseTicks \in Nat
    /\ RetryDelays \in Seq(Nat)
    /\ RetryDelays # << >>

\* The lease outlives every invocation: ten minutes against the run time the
\* hosting platform grants to a function.
ASSUME LeaseOutlivesCycle == CycleLimit < LeaseTicks

VARIABLES
    status,         \* [Entries -> row status]; "ABSENT" before the insert
    attempts,       \* attempt_count
    claimedBy,      \* claimed_by_worker
    lease,          \* lease_expires_at, relative; 0 when unclaimed
    due,            \* available_at, relative
    cycle,          \* [Workers -> where processOutboxDispatchCycle stands]
    age,            \* time since the cycle read the clock
    job,            \* [Workers -> [Entries -> state of the dispatch of the entry]]
    domainStatus,   \* status of the legacy rows of domain_outbox
    accepted,       \* history: how often the provider accepted the entry
    rejected,       \* history: the entries the provider refused for good
    claimLost       \* history: entries whose dispatch threw NOTIFICATION_OUTBOX_CLAIM_LOST

rows    == << status, attempts, claimedBy, lease, due >>
workers == << cycle, age, job >>
history == << accepted, rejected, claimLost >>
vars    == << rows, workers, domainStatus, history >>

Statuses  == {"ABSENT", "PENDING", "DELIVERED", "FAILED"}
Cycles    == {"idle", "started", "quarantined", "dispatching"}
JobStates == {"none", "sending", "accepted", "retryable", "fatal"}

TypeOK ==
    /\ status \in [Entries -> Statuses]
    /\ attempts \in [Entries -> 0..MaxAttempts]
    /\ claimedBy \in [Entries -> Workers \cup {NoWorker}]
    /\ lease \in [Entries -> Int]
    /\ due \in [Entries -> Int]
    /\ cycle \in [Workers -> Cycles]
    /\ age \in [Workers -> 0..CycleLimit]
    /\ job \in [Workers -> [Entries -> JobStates]]
    /\ domainStatus \in {"PENDING", "CANCELLED"}
    /\ accepted \in [Entries -> 0..MaxAttempts]
    /\ rejected \subseteq Entries
    /\ claimLost \subseteq Entries

Init ==
    /\ status = [e \in Entries |-> "ABSENT"]
    /\ attempts = [e \in Entries |-> 0]
    /\ claimedBy = [e \in Entries |-> NoWorker]
    /\ lease = [e \in Entries |-> 0]
    /\ due = [e \in Entries |-> 0]
    /\ cycle = [w \in Workers |-> "idle"]
    /\ age = [w \in Workers |-> 0]
    /\ job = [w \in Workers |-> [e \in Entries |-> "none"]]
    /\ domainStatus \in {"PENDING", "CANCELLED"}
    /\ accepted = [e \in Entries |-> 0]
    /\ rejected = {}
    /\ claimLost = {}

-----------------------------------------------------------------------------
\* A billing transaction commits its notification and the outbox row with it.
Enqueue(e) ==
    /\ status[e] = "ABSENT"
    /\ status' = [status EXCEPT ![e] = "PENDING"]
    /\ due' = [due EXCEPT ![e] = 0]
    /\ UNCHANGED << attempts, claimedBy, lease, workers, domainStatus, history >>

\* The cron route starts a cycle under a fresh worker id: one that no row of
\* the table still names.
BeginCycle(w) ==
    /\ cycle[w] = "idle"
    /\ \A e \in Entries : claimedBy[e] # w
    /\ cycle' = [cycle EXCEPT ![w] = "started"]
    /\ age' = [age EXCEPT ![w] = 0]
    /\ UNCHANGED << rows, job, domainStatus, history >>

\* quarantine_dormant_domain_outbox: every nonterminal domain event is cancelled.
QuarantineDomainOutbox(w) ==
    /\ cycle[w] = "started"
    /\ cycle' = [cycle EXCEPT ![w] = "quarantined"]
    /\ domainStatus' = "CANCELLED"
    /\ UNCHANGED << rows, age, job, history >>

\* What one call of claim_notification_outbox finds: claims whose lease is over
\* at the worker's instant, unclaimed pending rows, and of both the ones that
\* have used up their attempts.
UnclaimedOfAnyStatus == {e \in Entries : status[e] # "ABSENT" /\ claimedBy[e] = NoWorker}
Unclaimed == {e \in Entries : status[e] = "PENDING" /\ claimedBy[e] = NoWorker}
StealsClaims(now) ==
    {e \in Entries : status[e] = "PENDING" /\ claimedBy[e] # NoWorker}
NeverExpires(now) == {}
ExpiredAt(now) ==
    {e \in Entries : status[e] = "PENDING" /\ claimedBy[e] # NoWorker /\ lease[e] <= now}
ExhaustedAt(now) ==
    {e \in ExpiredAt(now) \cup Unclaimed : attempts[e] >= MaxAttempts}
RecoveredAt(now) == ExpiredAt(now) \ ExhaustedAt(now)

DueAt(now) == [e \in Entries |-> IF e \in RecoveredAt(now) THEN now ELSE due[e]]

CandidatesAt(now) ==
    {e \in (RecoveredAt(now) \cup Unclaimed) \ ExhaustedAt(now) : DueAt(now)[e] <= now}

\* order by available_at, created_at, id for update skip locked limit p_limit.
\* created_at is abstracted, so ties on available_at leave the choice open.  A
\* row that is skipped because a concurrent claim holds it locked goes to that
\* claim, as if it had run first.
Batches(now) ==
    {batch \in SUBSET CandidatesAt(now) :
        /\ \/ Cardinality(batch) = BatchLimit
           \/ batch = CandidatesAt(now) /\ Cardinality(batch) < BatchLimit
        /\ \A e \in batch, f \in CandidatesAt(now) \ batch :
               DueAt(now)[e] <= DueAt(now)[f]}

ClaimUncounted(w) ==
    LET now == -age[w] IN
    /\ cycle[w] = "quarantined"
    /\ \E batch \in Batches(now) :
        /\ attempts' = [e \in Entries |->
               IF e \in batch \ RecoveredAt(now) THEN attempts[e] + 1 ELSE attempts[e]]
        /\ claimedBy' = [e \in Entries |->
               IF e \in batch THEN w
               ELSE IF e \in ExpiredAt(now) THEN NoWorker ELSE claimedBy[e]]
        /\ lease' = [e \in Entries |->
               IF e \in batch THEN now + LeaseTicks
               ELSE IF e \in ExpiredAt(now) THEN 0 ELSE lease[e]]
        /\ job' = [job EXCEPT ![w] =
               [e \in Entries |-> IF e \in batch THEN "sending" ELSE "none"]]
    /\ status' = [e \in Entries |->
           IF e \in ExhaustedAt(now) THEN "FAILED" ELSE status[e]]
    /\ due' = DueAt(now)
    /\ cycle' = [cycle EXCEPT ![w] = "dispatching"]
    /\ UNCHANGED << age, domainStatus, history >>

\* claim_notification_outbox, one statement sequence in one transaction:
\* expired leases are released (or dead-lettered when the attempts are used
\* up), exhausted rows are dead-lettered, and a batch of due rows is claimed.
Claim(w) ==
    LET now == -age[w] IN
    /\ cycle[w] = "quarantined"
    /\ \E batch \in Batches(now) :
        /\ attempts' = [e \in Entries |->
               IF e \in batch THEN attempts[e] + 1 ELSE attempts[e]]
        /\ claimedBy' = [e \in Entries |->
               IF e \in batch THEN w
               ELSE IF e \in ExpiredAt(now) THEN NoWorker ELSE claimedBy[e]]
        /\ lease' = [e \in Entries |->
               IF e \in batch THEN now + LeaseTicks
               ELSE IF e \in ExpiredAt(now) THEN 0 ELSE lease[e]]
        /\ job' = [job EXCEPT ![w] =
               [e \in Entries |-> IF e \in batch THEN "sending" ELSE "none"]]
    /\ status' = [e \in Entries |->
           IF e \in ExhaustedAt(now) THEN "FAILED" ELSE status[e]]
    /\ due' = DueAt(now)
    /\ cycle' = [cycle EXCEPT ![w] = "dispatching"]
    /\ UNCHANGED << age, domainStatus, history >>

-----------------------------------------------------------------------------
\* deliverNotificationOutbox: the provider takes the entry, refuses it for
\* now, refuses it for good, or fails after having taken it (a timeout).
\* The entries of a batch are dispatched concurrently (Promise.all).
Deliver(w, e) ==
    /\ job[w][e] = "sending"
    /\ \/ /\ job' = [job EXCEPT ![w][e] = "accepted"]
          /\ accepted' = [accepted EXCEPT ![e] = @ + 1]
          /\ UNCHANGED rejected
       \/ /\ job' = [job EXCEPT ![w][e] = "retryable"]
          /\ accepted' \in {accepted, [accepted EXCEPT ![e] = @ + 1]}
          /\ UNCHANGED rejected
       \/ /\ job' = [job EXCEPT ![w][e] = "fatal"]
          /\ rejected' = rejected \cup {e}
          /\ UNCHANGED accepted
    /\ UNCHANGED << rows, cycle, age, domainStatus, claimLost >>

\* The claim that complete and fail demand: still pending, still ours.
OwnsClaim(w, e) == status[e] = "PENDING" /\ claimedBy[e] = w

\* complete_notification_outbox, and the CLAIM_LOST error of the dispatcher
\* when it returns false.
Complete(w, e) ==
    /\ job[w][e] = "accepted"
    /\ status' = IF OwnsClaim(w, e) THEN [status EXCEPT ![e] = "DELIVERED"] ELSE status
    /\ claimedBy' = IF OwnsClaim(w, e) THEN [claimedBy EXCEPT ![e] = NoWorker] ELSE claimedBy
    /\ lease' = IF OwnsClaim(w, e) THEN [lease EXCEPT ![e] = 0] ELSE lease
    /\ claimLost' = IF status[e] = "DELIVERED" \/ OwnsClaim(w, e)
                    THEN claimLost ELSE claimLost \cup {e}
    /\ job' = [job EXCEPT ![w][e] = "none"]
    /\ UNCHANGED << attempts, due, cycle, age, domainStatus, accepted, rejected >>

\* delaysMinutes[min(max(attemptCount - 1, 0), length - 1)]
RetryDelay(n) ==
    RetryDelays[IF n < 1 THEN 1 ELSE IF n > Len(RetryDelays) THEN Len(RetryDelays) ELSE n]

\* outboxRetryAt followed by fail_notification_outbox.  A row the worker no
\* longer owns is skipped.
Fail(w, e) ==
    LET retry == job[w][e] = "retryable" /\ attempts[e] < MaxAttempts IN
    /\ job[w][e] \in {"retryable", "fatal"}
    /\ IF OwnsClaim(w, e)
       THEN /\ status' = [status EXCEPT ![e] = IF retry THEN "PENDING" ELSE "FAILED"]
            /\ due' = [due EXCEPT ![e] =
                   IF retry THEN RetryDelay(attempts[e]) - age[w] ELSE @]
            /\ claimedBy' = [claimedBy EXCEPT ![e] = NoWorker]
            /\ lease' = [lease EXCEPT ![e] = 0]
       ELSE UNCHANGED << status, due, claimedBy, lease >>
    /\ job' = [job EXCEPT ![w][e] = "none"]
    /\ UNCHANGED << attempts, cycle, age, domainStatus, history >>

\* The call that would record the outcome fails: the dispatch of this entry
\* ends with an exception and the row keeps its lease.
RecordingFails(w, e) ==
    /\ job[w][e] \in {"accepted", "retryable", "fatal"}
    /\ job' = [job EXCEPT ![w][e] = "none"]
    /\ UNCHANGED << rows, cycle, age, domainStatus, history >>

EndCycle(w) ==
    /\ cycle[w] = "dispatching"
    /\ \A e \in Entries : job[w][e] = "none"
    /\ cycle' = [cycle EXCEPT ![w] = "idle"]
    /\ age' = [age EXCEPT ![w] = 0]
    /\ UNCHANGED << rows, job, domainStatus, history >>

\* The process stops between two of its steps.
Crash(w) ==
    /\ cycle[w] # "idle"
    /\ cycle' = [cycle EXCEPT ![w] = "idle"]
    /\ age' = [age EXCEPT ![w] = 0]
    /\ job' = [job EXCEPT ![w] = [e \in Entries |-> "none"]]
    /\ UNCHANGED << rows, domainStatus, history >>

\* The platform ends an invocation that has used up its time.
KillAtLimit(w) == age[w] = CycleLimit /\ Crash(w)

\* Time passes.  An instant at or before -CycleLimit is "past" for every
\* worker, so the relative clocks stop there.
Elapse(t) == IF t > -CycleLimit THEN t - 1 ELSE t

Tick ==
    /\ \A w \in Workers : cycle[w] # "idle" => age[w] < CycleLimit
    /\ age' = [w \in Workers |-> IF cycle[w] = "idle" THEN age[w] ELSE age[w] + 1]
    /\ due' = [e \in Entries |-> Elapse(due[e])]
    /\ lease' = [e \in Entries |-> IF claimedBy[e] = NoWorker THEN 0 ELSE Elapse(lease[e])]
    /\ UNCHANGED << status, attempts, claimedBy, cycle, job, domainStatus, history >>

Next ==
    \/ Tick
    \/ \E e \in Entries : Enqueue(e)
    \/ \E w \in Workers :
        \/ BeginCycle(w) \/ QuarantineDomainOutbox(w) \/ Claim(w) \/ EndCycle(w) \/ Crash(w)
        \/ \E e \in Entries :
            Deliver(w, e) \/ Complete(w, e) \/ Fail(w, e) \/ RecordingFails(w, e)

Spec == Init /\ [][Next]_vars

\* The cron entry of vercel.json fires every minute for ever, time passes, the
\* platform ends overdue invocations, and not every cycle dies before its claim.
FairSpec ==
    /\ Spec
    /\ WF_vars(Tick)
    /\ WF_vars(\E w \in Workers : BeginCycle(w))
    /\ \A w \in Workers : WF_vars(KillAtLimit(w))
    /\ SF_vars(\E w \in Workers : QuarantineDomainOutbox(w))
    /\ SF_vars(\E w \in Workers : Claim(w))

-----------------------------------------------------------------------------
\* A lease excludes: while an invocation is dispatching an entry nobody else
\* dispatches it, although leases are recovered by workers whose clock reading
\* is older than the recovery ("Concurrent workers cannot claim the same
\* active lease", docs/OUTBOX_DISPATCH_ADR.md).
SingleSender ==
    \A e \in Entries, v, w \in Workers :
        job[v][e] # "none" /\ job[w][e] # "none" => v = w

\* NOTIFICATION_OUTBOX_CLAIM_LOST is unreachable: whoever finishes a dispatch
\* still holds the claim under which it was sent.
NoClaimLost == claimLost = {}

\* Whatever crashes, timeouts and lost answers happen, the provider takes an
\* entry at most once per counted attempt, hence at most MaxAttempts times.
AcceptedBounded == \A e \in Entries : accepted[e] <= attempts[e]

\* An entry is dead-lettered only when its attempts are used up or the provider
\* refused it for good: a crash before that leaves the row recoverable.
DeadLetterJustified ==
    \A e \in Entries : status[e] = "FAILED" => attempts[e] = MaxAttempts \/ e \in rejected

\* A row says DELIVERED only if the provider took the entry.
DeliveredWasAccepted ==
    \A e \in Entries : status[e] = "DELIVERED" => accepted[e] > 0

\* DELIVERED and FAILED are terminal: no claim, completion, failure or
\* recovery moves such a row again.
TerminalIsFinal ==
    [][\A e \in Entries :
           status[e] \in {"DELIVERED", "FAILED"} => status'[e] = status[e]]_vars

\* Every committed notification ends as DELIVERED or as a dead letter, whatever
\* cycles crash on the way.
EveryEntrySettles ==
    \A e \in Entries :
        status[e] = "PENDING" ~> status[e] \in {"DELIVERED", "FAILED"}

\* Seen from the provider and the rows, the outbox is bounded delivery, however
\* its invocations overlap, crash and recover each other's claims.
Delivery == INSTANCE BoundedDelivery
            WITH Messages <- Entries, Limit <- MaxAttempts, state <- status,
                 tries <- attempts, taken <- accepted, refused <- rejected
ImplementsBoundedDelivery == Delivery!Spec
=============================================================================

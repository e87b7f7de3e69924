---------------------- MODULE NotificationOutboxProofs ----------------------
(***************************************************************************)
(* Proofs about NotificationOutbox for every number of rows and workers    *)
(* and every lease that outlives a cycle.                                  *)
(*                                                                         *)
(* The argument: a worker that still dispatches an entry reads the clock   *)
(* at most CycleLimit before now, and wrote the lease as that reading plus *)
(* LeaseTicks.  So the lease lies in the future of the present, hence in   *)
(* the future of every clock reading a claim can use, and no claim takes   *)
(* the entry away (JobsHoldClaims).  Everything else follows from that.    *)
(***************************************************************************)
EXTENDS NotificationOutbox, TLAPS

\* A dispatch in flight is covered by a claim of its worker, and by a lease
\* counted from the clock reading of the worker's cycle.
JobsHoldClaims ==
    \A w \in Workers, e \in Entries :
        job[w][e] # "none" =>
            /\ cycle[w] = "dispatching"
            /\ status[e] = "PENDING"
            /\ claimedBy[e] = w
            /\ lease[e] = LeaseTicks - age[w]

\* What the history says of a dispatch: the send still to come has been counted,
\* an accepted one has been taken, a fatal one has been refused.
JobsMatchHistory ==
    \A w \in Workers, e \in Entries :
        /\ job[w][e] = "sending" => accepted[e] < attempts[e]
        /\ job[w][e] = "accepted" => accepted[e] > 0
        /\ job[w][e] = "fatal" => e \in rejected

\* Only a pending row carries a claim.
UnclaimedUnlessPending ==
    \A e \in Entries : status[e] # "PENDING" => claimedBy[e] = NoWorker

IInv ==
    /\ TypeOK
    /\ JobsHoldClaims
    /\ JobsMatchHistory
    /\ UnclaimedUnlessPending
    /\ NoClaimLost
    /\ AcceptedBounded
    /\ DeadLetterJustified
    /\ DeliveredWasAccepted

\* The delay outboxRetryAt looks up is always an entry of the table: the
\* attempt count is clamped at both ends.
LEMMA RetryDelayIsNat ==
    ASSUME NEW n \in Nat
    PROVE  RetryDelay(n) \in Nat
  BY OutboxConstants DEF RetryDelay

\* No claim, at whatever clock reading of a running worker, sees the lease of
\* an entry in flight as expired.
LEMMA LeaseCoversJob ==
    ASSUME TypeOK, JobsHoldClaims,
           NEW v \in Workers, NEW w \in Workers, NEW e \in Entries,
           job[w][e] # "none"
    PROVE  e \notin ExpiredAt(-age[v]) /\ e \notin Unclaimed
  BY OutboxConstants, LeaseOutlivesCycle
     DEF TypeOK, JobsHoldClaims, ExpiredAt, Unclaimed

\* What a claim touches was free, and has attempts left exactly when it is
\* claimed rather than dead-lettered.
LEMMA ClaimTouchesFreeRows ==
    ASSUME TypeOK, NEW now \in Int, NEW e \in Entries
    PROVE  /\ e \in CandidatesAt(now) => /\ e \in ExpiredAt(now) \cup Unclaimed
                                         /\ e \notin ExhaustedAt(now)
                                         /\ status[e] = "PENDING"
                                         /\ attempts[e] + 1 \in 0..MaxAttempts
           /\ e \in ExhaustedAt(now) => /\ e \in ExpiredAt(now) \cup Unclaimed
                                        /\ status[e] = "PENDING"
                                        /\ attempts[e] = MaxAttempts
           /\ DueAt(now)[e] \in Int
  BY OutboxConstants
     DEF TypeOK, CandidatesAt, ExhaustedAt, RecoveredAt, ExpiredAt, Unclaimed, DueAt

LEMMA InitIInv == Init => IInv
  BY OutboxConstants
     DEF Init, IInv, TypeOK, Statuses, Cycles, JobStates, JobsHoldClaims, JobsMatchHistory,
         UnclaimedUnlessPending, NoClaimLost, AcceptedBounded, DeadLetterJustified,
         DeliveredWasAccepted

LEMMA EnqueueIInv ==
    ASSUME IInv, NEW e \in Entries, Enqueue(e)
    PROVE  IInv'
  BY OutboxConstants
     DEF Enqueue, workers, history, IInv, TypeOK, Statuses, JobsHoldClaims, JobsMatchHistory,
         UnclaimedUnlessPending, NoClaimLost, AcceptedBounded, DeadLetterJustified,
         DeliveredWasAccepted

\* Starting, ending or losing a cycle changes no row.  A worker that leaves
\* "dispatching", or whose clock reading is renewed, has nothing in flight.
LEMMA CycleIInv ==
    ASSUME IInv, NEW w \in Workers,
           BeginCycle(w) \/ QuarantineDomainOutbox(w) \/ EndCycle(w) \/ Crash(w)
    PROVE  IInv'
  <1>. USE OutboxConstants DEF IInv, rows, history
  <1>1. \/ cycle[w] # "dispatching" /\ job' = job
        \/ \A e \in Entries : job[w][e] = "none" /\ job' = job
        \/ job' = [job EXCEPT ![w] = [e \in Entries |-> "none"]]
    BY DEF BeginCycle, QuarantineDomainOutbox, EndCycle, Crash
  <1>2. TypeOK'
    <2>1. CASE BeginCycle(w)
      BY <2>1 DEF BeginCycle, TypeOK, Cycles
    <2>2. CASE QuarantineDomainOutbox(w)
      BY <2>2 DEF QuarantineDomainOutbox, TypeOK, Cycles
    <2>3. CASE EndCycle(w)
      BY <2>3 DEF EndCycle, TypeOK, Cycles
    <2>4. CASE Crash(w)
      BY <2>4 DEF Crash, TypeOK, Cycles, JobStates
    <2>. QED
      BY <2>1, <2>2, <2>3, <2>4
  <1>3. /\ \A e \in Entries : job'[w][e] = "none"
        /\ \A v \in Workers \ {w} : job'[v] = job[v] /\ cycle'[v] = cycle[v] /\ age'[v] = age[v]
        /\ UNCHANGED << rows, history >>
    BY <1>1 DEF BeginCycle, QuarantineDomainOutbox, EndCycle, Crash, TypeOK, JobsHoldClaims
  <1>4. JobsHoldClaims'
    BY <1>3 DEF JobsHoldClaims
  <1>5. JobsMatchHistory'
    BY <1>3 DEF JobsMatchHistory
  <1>6. /\ UnclaimedUnlessPending' /\ NoClaimLost' /\ AcceptedBounded'
        /\ DeadLetterJustified' /\ DeliveredWasAccepted'
    BY <1>3 DEF UnclaimedUnlessPending, NoClaimLost, AcceptedBounded, DeadLetterJustified,
                DeliveredWasAccepted
  <1>. QED
    BY <1>2, <1>4, <1>5, <1>6

\* A claim takes only rows that are free or whose lease is over, and those are
\* not in flight; it counts an attempt for each row it takes.
LEMMA ClaimIInv ==
    ASSUME IInv, NEW w \in Workers, Claim(w)
    PROVE  IInv'
  <1>. DEFINE now == -age[w]
  <1>0. now \in Int
    BY OutboxConstants DEF IInv, TypeOK
  <1>. PICK batch \in SUBSET CandidatesAt(now) :
          /\ attempts' = [e \in Entries |->
                 IF e \in batch THEN attempts[e] + 1 ELSE attempts[e]]
          /\ claimedBy' = [e \in Entries |->
                 IF e \in batch THEN w
                 ELSE IF e \in ExpiredAt(now) THEN NoWorker ELSE claimedBy[e]]
          /\ lease' = [e \in Entries |->
                 IF e \in batch THEN now + LeaseTicks
                 ELSE IF e \in ExpiredAt(now) THEN 0 ELSE lease[e]]
          /\ job' = [job EXCEPT ![w] =
                 [e \in Entries |-> IF e \in batch THEN "sending" ELSE "none"]]
    BY DEF Claim, Batches
  <1>1. /\ status' = [e \in Entries |->
               IF e \in ExhaustedAt(now) THEN "FAILED" ELSE status[e]]
        /\ due' = DueAt(now)
        /\ cycle[w] = "quarantined"
        /\ cycle' = [cycle EXCEPT ![w] = "dispatching"]
        /\ UNCHANGED << age, domainStatus, accepted, rejected, claimLost >>
    BY DEF Claim, history
  <1>2. \A e \in Entries :
           /\ e \in batch => /\ e \in ExpiredAt(now) \cup Unclaimed
                             /\ e \notin ExhaustedAt(now)
                             /\ status[e] = "PENDING"
                             /\ attempts[e] + 1 \in 0..MaxAttempts
           /\ e \in ExhaustedAt(now) => /\ e \in ExpiredAt(now) \cup Unclaimed
                                        /\ status[e] = "PENDING"
                                        /\ attempts[e] = MaxAttempts
           /\ DueAt(now)[e] \in Int
    BY <1>0, ClaimTouchesFreeRows DEF IInv
  <1>3. \A v \in Workers, e \in Entries :
           job[v][e] # "none" => e \notin ExpiredAt(now) /\ e \notin Unclaimed
    BY LeaseCoversJob DEF IInv
  <1>4. \A e \in Entries : job[w][e] = "none"
    BY <1>1 DEF IInv, JobsHoldClaims
  <1>5. TypeOK'
    <2>1. due' \in [Entries -> Int]
      BY <1>1, <1>2 DEF DueAt
    <2>. QED
      BY <1>0, <1>1, <1>2, <2>1, OutboxConstants DEF IInv, TypeOK, Statuses, Cycles, JobStates
  <1>6. JobsHoldClaims'
    <2>. SUFFICES ASSUME NEW v \in Workers, NEW e \in Entries, job'[v][e] # "none"
                  PROVE  /\ cycle'[v] = "dispatching"
                         /\ status'[e] = "PENDING"
                         /\ claimedBy'[e] = v
                         /\ lease'[e] = LeaseTicks - age'[v]
      BY DEF JobsHoldClaims
    <2>1. CASE v = w
      BY <2>1, <1>1, <1>2, OutboxConstants DEF IInv, TypeOK
    <2>2. CASE v # w
      <3>1. job[v][e] # "none"
        BY <2>2 DEF IInv, TypeOK
      <3>2. e \notin batch /\ e \notin ExpiredAt(now) /\ e \notin ExhaustedAt(now)
        BY <3>1, <1>2, <1>3
      <3>. QED
        BY <2>2, <3>1, <3>2, <1>1 DEF IInv, TypeOK, JobsHoldClaims
    <2>. QED
      BY <2>1, <2>2
  <1>7. JobsMatchHistory'
    <2>. SUFFICES ASSUME NEW v \in Workers, NEW e \in Entries
                  PROVE  /\ job'[v][e] = "sending" => accepted'[e] < attempts'[e]
                         /\ job'[v][e] = "accepted" => accepted'[e] > 0
                         /\ job'[v][e] = "fatal" => e \in rejected'
      BY DEF JobsMatchHistory
    <2>1. CASE v = w
      BY <2>1, <1>1, OutboxConstants DEF IInv, TypeOK, AcceptedBounded
    <2>2. CASE v # w
      BY <2>2, <1>1, OutboxConstants DEF IInv, TypeOK, JobsMatchHistory
    <2>. QED
      BY <2>1, <2>2
  <1>8. UnclaimedUnlessPending'
    BY <1>1, <1>2 DEF IInv, TypeOK, UnclaimedUnlessPending, Unclaimed
  <1>9. NoClaimLost' /\ AcceptedBounded'
    BY <1>1, OutboxConstants DEF IInv, TypeOK, NoClaimLost, AcceptedBounded
  <1>10. DeadLetterJustified' /\ DeliveredWasAccepted'
    BY <1>1, <1>2, OutboxConstants DEF IInv, TypeOK, DeadLetterJustified, DeliveredWasAccepted
  <1>. QED
    BY <1>5, <1>6, <1>7, <1>8, <1>9, <1>10 DEF IInv

\* Deliver changes only the dispatch of one entry by its worker and the history.
LEMMA DeliverIInv ==
    ASSUME IInv, NEW w \in Workers, NEW e \in Entries, Deliver(w, e)
    PROVE  IInv'
  <1>. USE OutboxConstants
  <1>1. /\ job[w][e] = "sending"
        /\ UNCHANGED << status, attempts, claimedBy, lease, due, cycle, age, domainStatus, claimLost >>
    BY DEF Deliver, rows
  <1>2. \E s \in {"accepted", "retryable", "fatal"} :
           /\ job' = [job EXCEPT ![w][e] = s]
           /\ s = "accepted" => accepted' = [accepted EXCEPT ![e] = @ + 1]
           /\ s = "fatal" => e \in rejected'
    BY DEF Deliver
  <1>3. /\ accepted' \in {accepted, [accepted EXCEPT ![e] = @ + 1]}
        /\ rejected' \in {rejected, rejected \cup {e}}
    BY DEF Deliver
  <1>4. accepted[e] < attempts[e] /\ \A v \in Workers \ {w} : job[v][e] = "none"
    BY <1>1 DEF IInv, JobsMatchHistory, JobsHoldClaims
  <1>5. /\ accepted' \in [Entries -> 0..MaxAttempts]
        /\ accepted'[e] \in {accepted[e], accepted[e] + 1}
        /\ \A f \in Entries \ {e} : accepted'[f] = accepted[f]
    <2>1. CASE accepted' = accepted
      BY <2>1 DEF IInv, TypeOK
    <2>2. CASE accepted' = [accepted EXCEPT ![e] = @ + 1]
      BY <2>2, <1>4 DEF IInv, TypeOK
    <2>. QED
      BY <1>3, <2>1, <2>2
  <1>6. job' \in [Workers -> [Entries -> JobStates]]
    BY <1>2 DEF IInv, TypeOK, JobStates
  <1>7. rejected \subseteq rejected' /\ rejected' \subseteq Entries
    BY <1>3 DEF IInv, TypeOK
  <1>8. TypeOK'
    BY <1>1, <1>5, <1>6, <1>7 DEF IInv, TypeOK
  <1>9. JobsHoldClaims'
    BY <1>1, <1>2 DEF IInv, TypeOK, JobsHoldClaims
  <1>10. JobsMatchHistory'
    BY <1>1, <1>2, <1>3, <1>4 DEF IInv, TypeOK, JobsMatchHistory
  <1>11. \A f \in Entries : accepted'[f] >= accepted[f] /\ accepted'[f] <= attempts[f]
    <2>. SUFFICES ASSUME NEW f \in Entries
                  PROVE  accepted'[f] >= accepted[f] /\ accepted'[f] <= attempts[f]
      OBVIOUS
    <2>. accepted[f] \in Int /\ attempts[f] \in Int /\ accepted[f] <= attempts[f]
      BY DEF IInv, TypeOK, AcceptedBounded
    <2>. QED
      BY <1>4, <1>5
  <1>12. UnclaimedUnlessPending' /\ NoClaimLost' /\ AcceptedBounded'
    BY <1>1, <1>11 DEF IInv, TypeOK, UnclaimedUnlessPending, NoClaimLost, AcceptedBounded
  <1>13. DeadLetterJustified'
    BY <1>1, <1>7 DEF IInv, DeadLetterJustified
  <1>14. DeliveredWasAccepted'
    <2>. SUFFICES ASSUME NEW f \in Entries, status[f] = "DELIVERED"
                  PROVE  accepted'[f] > 0
      BY <1>1 DEF DeliveredWasAccepted
    <2>. accepted[f] \in Int /\ accepted'[f] \in Int /\ accepted[f] > 0
      BY <1>5 DEF IInv, TypeOK, DeliveredWasAccepted
    <2>. QED
      BY <1>11
  <1>. QED
    BY <1>8, <1>9, <1>10, <1>12, <1>13, <1>14 DEF IInv

\* The three ways a dispatch ends.  The worker still owns the claim, so the
\* row takes the outcome, and nobody else has the entry in flight.
LEMMA SettleIInv ==
    ASSUME IInv, NEW w \in Workers, NEW e \in Entries,
           Complete(w, e) \/ Fail(w, e) \/ RecordingFails(w, e)
    PROVE  IInv'
  <1>. USE OutboxConstants
  <1>1. /\ job[w][e] # "none"
        /\ job' = [job EXCEPT ![w][e] = "none"]
        /\ UNCHANGED << attempts, cycle, age, domainStatus, accepted, rejected >>
    BY DEF Complete, Fail, RecordingFails, history, rows
  <1>2. OwnsClaim(w, e) /\ \A v \in Workers \ {w} : job[v][e] = "none"
    BY <1>1 DEF IInv, JobsHoldClaims, OwnsClaim
  <1>3. /\ claimLost' = claimLost
        /\ \A f \in Entries \ {e} :
               status'[f] = status[f] /\ claimedBy'[f] = claimedBy[f] /\ lease'[f] = lease[f]
    BY <1>2 DEF Complete, Fail, RecordingFails, history, rows, IInv, TypeOK
  <1>4. \/ UNCHANGED << status, claimedBy >>
        \/ claimedBy'[e] = NoWorker /\ status'[e] = "PENDING"
        \/ claimedBy'[e] = NoWorker /\ status'[e] = "DELIVERED" /\ accepted[e] > 0
        \/ /\ claimedBy'[e] = NoWorker /\ status'[e] = "FAILED"
           /\ attempts[e] = MaxAttempts \/ e \in rejected
    BY <1>2 DEF Complete, Fail, RecordingFails, rows, IInv, TypeOK, JobsMatchHistory
  <1>5. TypeOK'
    <2>1. RetryDelay(attempts[e]) \in Nat
      BY RetryDelayIsNat DEF IInv, TypeOK
    <2>2. job' \in [Workers -> [Entries -> JobStates]]
      BY <1>1 DEF IInv, TypeOK, JobStates
    <2>3. CASE Complete(w, e)
      BY <2>2, <2>3, <1>1, <1>2, <1>3 DEF Complete, IInv, TypeOK, Statuses
    <2>4. CASE Fail(w, e)
      <3>1. due' \in [Entries -> Int]
        BY <2>1, <2>4, <1>2 DEF Fail, IInv, TypeOK
      <3>2. \/ status' = [status EXCEPT ![e] = "PENDING"]
            \/ status' = [status EXCEPT ![e] = "FAILED"]
        BY <2>4, <1>2 DEF Fail
      <3>3. status' \in [Entries -> Statuses]
        BY <3>2 DEF IInv, TypeOK, Statuses
      <3>4. /\ claimedBy' = [claimedBy EXCEPT ![e] = NoWorker]
            /\ lease' = [lease EXCEPT ![e] = 0]
        BY <2>4, <1>2 DEF Fail
      <3>5. /\ claimedBy' \in [Entries -> Workers \cup {NoWorker}]
            /\ lease' \in [Entries -> Int]
        BY <3>4 DEF IInv, TypeOK
      <3>. QED
        BY <2>2, <3>1, <3>5, <3>3, <1>1, <1>3 DEF IInv, TypeOK
    <2>5. CASE RecordingFails(w, e)
      BY <2>2, <2>5, <1>1, <1>3 DEF RecordingFails, rows, IInv, TypeOK
    <2>. QED
      BY <2>3, <2>4, <2>5
  <1>6. JobsHoldClaims'
    BY <1>1, <1>2, <1>3 DEF IInv, TypeOK, JobsHoldClaims
  <1>7. JobsMatchHistory'
    BY <1>1 DEF IInv, TypeOK, JobsMatchHistory
  <1>8. UnclaimedUnlessPending' /\ NoClaimLost' /\ AcceptedBounded'
    BY <1>1, <1>3, <1>4 DEF IInv, UnclaimedUnlessPending, NoClaimLost, AcceptedBounded
  <1>9. DeadLetterJustified' /\ DeliveredWasAccepted'
    BY <1>1, <1>3, <1>4 DEF IInv, DeadLetterJustified, DeliveredWasAccepted
  <1>. QED
    BY <1>5, <1>6, <1>7, <1>8, <1>9 DEF IInv

\* Time passes for leases and for clock readings alike.
LEMMA TickIInv ==
    ASSUME IInv, Tick
    PROVE  IInv'
  <1>. USE OutboxConstants, LeaseOutlivesCycle
  <1>1. UNCHANGED << status, attempts, claimedBy, cycle, job, domainStatus,
                     accepted, rejected, claimLost >>
    BY DEF Tick, history
  <1>2. TypeOK'
    BY <1>1 DEF Tick, Elapse, IInv, TypeOK
  <1>3. JobsHoldClaims'
    BY <1>1 DEF Tick, Elapse, IInv, TypeOK, JobsHoldClaims
  <1>4. /\ JobsMatchHistory' /\ UnclaimedUnlessPending' /\ NoClaimLost'
        /\ AcceptedBounded' /\ DeadLetterJustified' /\ DeliveredWasAccepted'
    BY <1>1 DEF IInv, JobsMatchHistory, UnclaimedUnlessPending, NoClaimLost, AcceptedBounded,
                DeadLetterJustified, DeliveredWasAccepted
  <1>. QED
    BY <1>2, <1>3, <1>4 DEF IInv

\* The inductive invariant of the outbox.
LEMMA Invariance == Spec => []IInv
  <1>1. IInv /\ [Next]_vars => IInv'
    <2>. SUFFICES ASSUME IInv, [Next]_vars
                  PROVE  IInv'
      OBVIOUS
    <2>1. CASE Next
      BY <2>1, TickIInv, EnqueueIInv, CycleIInv, ClaimIInv, DeliverIInv, SettleIInv DEF Next
    <2>2. CASE UNCHANGED vars
      BY <2>2 DEF vars, rows, workers, history, IInv, TypeOK, JobsHoldClaims, JobsMatchHistory,
                  UnclaimedUnlessPending, NoClaimLost, AcceptedBounded, DeadLetterJustified,
                  DeliveredWasAccepted
    <2>. QED
      BY <2>1, <2>2
  <1>. QED
    BY InitIInv, <1>1, PTL DEF Spec

\* The rows, the workers and the history keep their types; in particular
\* attempt_count never passes max_attempts.
THEOREM TypeCorrect == Spec => []TypeOK
  BY Invariance, PTL DEF IInv

\* Concurrent invocations never dispatch the same entry at the same time.
THEOREM SingleSenderHolds == Spec => []SingleSender
  <1>1. IInv => SingleSender
    BY DEF IInv, JobsHoldClaims, SingleSender
  <1>. QED
    BY Invariance, <1>1, PTL

\* completeNotificationOutbox never finds its claim gone.
THEOREM ClaimNeverLost == Spec => []NoClaimLost
  BY Invariance, PTL DEF IInv

\* The provider takes an entry at most once per counted attempt.
THEOREM AcceptedBoundedHolds == Spec => []AcceptedBounded
  BY Invariance, PTL DEF IInv

\* No entry is dead-lettered before its attempts are used up or it is refused.
THEOREM DeadLetterJustifiedHolds == Spec => []DeadLetterJustified
  BY Invariance, PTL DEF IInv

\* No row is marked delivered that the provider never took.
THEOREM DeliveredWasAcceptedHolds == Spec => []DeliveredWasAccepted
  BY Invariance, PTL DEF IInv

\* DELIVERED and FAILED rows never change status again.
THEOREM TerminalIsFinalHolds == Spec => TerminalIsFinal
  <1>. DEFINE Final == \A e \in Entries :
                 status[e] \in {"DELIVERED", "FAILED"} => status'[e] = status[e]
  <1>1. IInv /\ [Next]_vars => [Final]_vars
    <2>. SUFFICES ASSUME IInv, Next, NEW e \in Entries, status[e] \in {"DELIVERED", "FAILED"}
                  PROVE  status'[e] = status[e]
      BY DEF Final
    <2>1. \A w \in Workers : job[w][e] = "none"
      BY DEF IInv, JobsHoldClaims
    <2>2. CASE Tick \/ \E f \in Entries : Enqueue(f)
      BY <2>2 DEF Tick, Enqueue, IInv, TypeOK
    <2>3. ASSUME NEW w \in Workers,
                 BeginCycle(w) \/ QuarantineDomainOutbox(w) \/ EndCycle(w) \/ Crash(w)
          PROVE  status'[e] = status[e]
      BY <2>3 DEF BeginCycle, QuarantineDomainOutbox, EndCycle, Crash, rows
    <2>4. ASSUME NEW w \in Workers, Claim(w)
          PROVE  status'[e] = status[e]
      BY <2>4 DEF Claim, ExhaustedAt, ExpiredAt, Unclaimed
    <2>5. ASSUME NEW w \in Workers, NEW f \in Entries,
                 Deliver(w, f) \/ Complete(w, f) \/ Fail(w, f) \/ RecordingFails(w, f)
          PROVE  status'[e] = status[e]
      BY <2>1, <2>5 DEF Deliver, Complete, Fail, RecordingFails, rows, IInv, TypeOK
    <2>. QED
      BY <2>2, <2>3, <2>4, <2>5 DEF Next
  <1>. QED
    BY Invariance, <1>1, PTL DEF Spec, TerminalIsFinal, Final

-----------------------------------------------------------------------------
(* The outbox implements bounded delivery.                                 *)

\* A claim is a round: what it dead-letters has used up its attempts, and what
\* it takes has one left.
LEMMA ClaimIsRound ==
    ASSUME IInv, NEW w \in Workers, Claim(w)
    PROVE  \E hopeless, batch \in SUBSET Entries : Delivery!Round(hopeless, batch)
  <1>. DEFINE now == -age[w]
  <1>0. TypeOK /\ now \in Int
    BY OutboxConstants DEF IInv, TypeOK
  <1>1. PICK batch \in Batches(now) :
          attempts' = [e \in Entries |-> IF e \in batch THEN attempts[e] + 1 ELSE attempts[e]]
    BY DEF Claim
  <1>2. /\ status' = [e \in Entries |-> IF e \in ExhaustedAt(now) THEN "FAILED" ELSE status[e]]
        /\ UNCHANGED << accepted, rejected >>
    BY DEF Claim, history
  <1>3. batch \subseteq CandidatesAt(now) /\ CandidatesAt(now) \subseteq Entries
    BY DEF Batches, CandidatesAt, RecoveredAt, ExpiredAt, Unclaimed
  <1>4. ExhaustedAt(now) \subseteq Entries
    BY DEF ExhaustedAt, ExpiredAt, Unclaimed
  <1>. HIDE DEF now
  <1>5. \A e \in ExhaustedAt(now) : status[e] = "PENDING" /\ attempts[e] = MaxAttempts
    BY <1>0, <1>4, ClaimTouchesFreeRows
  <1>6. \A e \in batch : /\ status[e] = "PENDING" /\ attempts[e] < MaxAttempts
                         /\ e \notin ExhaustedAt(now)
    <2>1. \A e \in batch : attempts[e] \in Nat
      BY <1>0, <1>3 DEF TypeOK
    <2>. QED
      BY <1>0, <1>3, <2>1, ClaimTouchesFreeRows, OutboxConstants
  <1>7. Delivery!Round(ExhaustedAt(now), batch)
    BY <1>1, <1>2, <1>5, <1>6 DEF Delivery!Round
  <1>. QED
    BY <1>3, <1>4, <1>7

\* Every dispatch is covered by its claim, so what the provider does happens to
\* a pending row that has been counted.
LEMMA DispatchIsDelivery ==
    ASSUME IInv, NEW w \in Workers, NEW e \in Entries,
           Deliver(w, e) \/ Complete(w, e) \/ Fail(w, e)
    PROVE  Delivery!Next \/ UNCHANGED << status, attempts, accepted, rejected >>
  <1>0. /\ TypeOK /\ attempts[e] \in 0..MaxAttempts /\ accepted[e] \in 0..MaxAttempts
        /\ job[w][e] # "none" => status[e] = "PENDING" /\ OwnsClaim(w, e)
        /\ job[w][e] = "sending" => accepted[e] < attempts[e]
        /\ job[w][e] = "accepted" => accepted[e] > 0
        /\ job[w][e] = "fatal" => e \in rejected
    BY DEF IInv, TypeOK, JobsHoldClaims, JobsMatchHistory, OwnsClaim
  <1>1. CASE Deliver(w, e)
    <2>1. UNCHANGED << status, attempts >> /\ job[w][e] = "sending"
      BY <1>1 DEF Deliver, rows
    <2>2. \/ UNCHANGED << accepted, rejected >>
          \/ accepted' = [accepted EXCEPT ![e] = @ + 1] /\ UNCHANGED rejected
          \/ rejected' = rejected \cup {e} /\ UNCHANGED accepted
      BY <1>1 DEF Deliver
    <2>. QED
      BY <1>0, <2>1, <2>2 DEF Delivery!Next, Delivery!Take, Delivery!Refuse
  <1>2. CASE Complete(w, e)
    <2>1. /\ status' = [status EXCEPT ![e] = "DELIVERED"] /\ job[w][e] = "accepted"
          /\ UNCHANGED << attempts, accepted, rejected >>
      BY <1>0, <1>2 DEF Complete
    <2>. QED
      BY <1>0, <2>1 DEF Delivery!Next, Delivery!Confirm
  <1>3. CASE Fail(w, e)
    <2>. DEFINE retry == job[w][e] = "retryable" /\ attempts[e] < MaxAttempts
    <2>1. /\ status' = [status EXCEPT ![e] = IF retry THEN "PENDING" ELSE "FAILED"]
          /\ job[w][e] \in {"retryable", "fatal"}
          /\ UNCHANGED << attempts, accepted, rejected >>
      BY <1>0, <1>3 DEF Fail, history
    <2>2. status \in [Entries -> Statuses] /\ attempts \in [Entries -> 0..MaxAttempts]
      BY <1>0 DEF TypeOK
    <2>3. CASE retry
      BY <1>0, <2>1, <2>2, <2>3
    <2>4. CASE ~ retry
      <3>1. attempts[e] = MaxAttempts \/ e \in rejected
        BY <1>0, <2>1, <2>4, OutboxConstants
      <3>2. /\ status' = [f \in Entries |-> IF f \in {e} THEN "FAILED" ELSE status[f]]
            /\ attempts' = [f \in Entries |-> IF f \in {} THEN attempts[f] + 1 ELSE attempts[f]]
        BY <2>1, <2>2, <2>4
      <3>3. Delivery!Round({e}, {})
        BY <1>0, <2>1, <3>1, <3>2 DEF Delivery!Round
      <3>. QED
        BY <3>3 DEF Delivery!Next
    <2>. QED
      BY <2>3, <2>4
  <1>. QED
    BY <1>1, <1>2, <1>3

\* Every behaviour of overlapping, crashing and recovering invocations is a
\* behaviour of bounded delivery.
THEOREM OutboxImplementsBoundedDelivery == Spec => ImplementsBoundedDelivery
  <1>1. Init => Delivery!Init
    BY DEF Init, Delivery!Init
  <1>2. IInv /\ [Next]_vars => [Delivery!Next]_<< status, attempts, accepted, rejected >>
    <2>. SUFFICES ASSUME IInv, [Next]_vars
                  PROVE  Delivery!Next \/ UNCHANGED << status, attempts, accepted, rejected >>
      OBVIOUS
    <2>1. CASE Tick \/ UNCHANGED vars
      BY <2>1 DEF Tick, history, vars, rows
    <2>2. ASSUME NEW e \in Entries, Enqueue(e) PROVE Delivery!Next
      BY <2>2 DEF Enqueue, history, Delivery!Next, Delivery!Commit
    <2>3. ASSUME NEW w \in Workers,
                 \/ BeginCycle(w) \/ QuarantineDomainOutbox(w) \/ EndCycle(w) \/ Crash(w)
                 \/ \E e \in Entries : RecordingFails(w, e)
          PROVE  UNCHANGED << status, attempts, accepted, rejected >>
      BY <2>3 DEF BeginCycle, QuarantineDomainOutbox, EndCycle, Crash, RecordingFails, rows, history
    <2>4. ASSUME NEW w \in Workers, Claim(w) PROVE Delivery!Next
      BY <2>4, ClaimIsRound DEF Delivery!Next
    <2>. QED
      BY <2>1, <2>2, <2>3, <2>4, DispatchIsDelivery DEF Next
  <1>. QED
    BY <1>1, <1>2, Invariance, PTL DEF Spec, ImplementsBoundedDelivery, Delivery!Spec
=============================================================================

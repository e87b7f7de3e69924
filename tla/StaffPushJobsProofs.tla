------------------------- MODULE StaffPushJobsProofs --------------------------
(***************************************************************************)
(* For any number of deliveries, invocations and attempts, and with no     *)
(* bound on how long an invocation outlives its lease: a push leaves at    *)
(* most once per counted attempt, and the late answer of an invocation     *)
(* that lost a row changes nothing.                                        *)
(***************************************************************************)
EXTENDS StaffPushJobs, FiniteSetTheorems, TLAPS

\* Invocations that have claimed a row and not yet sent for it.
Claimers(d) == {w \in Workers : work[w][d] = "claimed"}

\* Every push that left, or that a claimer may still send, was counted.
SendsAreCounted ==
    \A d \in Deliveries : sends[d] + Cardinality(Claimers(d)) <= attempts[d]

ProcessingWasCounted == \A d \in Deliveries : status[d] = "PROCESSING" => attempts[d] >= 1

\* The inductive invariant.
Inv == TypeOK /\ ProcessingWasCounted /\ SendsAreCounted

-----------------------------------------------------------------------------
LEMMA MaxOfTwo ==
    ASSUME NEW a \in Int, NEW b \in Int
    PROVE  Max({a, b}) = IF a >= b THEN a ELSE b
  <1>1. \E x \in {a, b} : \A y \in {a, b} : x >= y
    OBVIOUS
  <1> QED
    BY <1>1 DEF Max

LEMMA MinOfTwo ==
    ASSUME NEW a \in Int, NEW b \in Int
    PROVE  Min({a, b}) = IF a <= b THEN a ELSE b
  <1>1. \E x \in {a, b} : \A y \in {a, b} : x <= y
    OBVIOUS
  <1> QED
    BY <1>1 DEF Min

LEMMA ConstantTypes ==
    /\ MaxAttempts \in Nat /\ BatchLimit \in Nat
    /\ LeaseTicks \in Nat /\ ExpiryTicks \in Nat /\ TestDelay \in Nat /\ RetryCap \in Nat
    /\ CycleLimit \in Nat /\ MaxCrashes \in Nat
    /\ Floor \in Int /\ Floor <= 0
    /\ HeldCap \in Nat /\ HeldCap >= CycleLimit
    /\ AvailCap \in Nat /\ AvailCap >= TestDelay /\ AvailCap >= RetryCap
  <1>1. /\ MaxAttempts \in Nat /\ BatchLimit \in Nat
        /\ LeaseTicks \in Nat /\ ExpiryTicks \in Nat /\ TestDelay \in Nat /\ RetryCap \in Nat
        /\ CycleLimit \in Nat /\ MaxCrashes \in Nat
    BY StaffPushConstants
  <1> QED
    BY <1>1, MaxOfTwo DEF Floor, HeldCap, AvailCap

\* The backoff of a row that has been claimed.
LEMMA RetryType ==
    ASSUME TypeOK, NEW d \in Deliveries, attempts[d] >= 1
    PROVE  RetryAt(d) \in Floor..AvailCap
  <1>1. attempts[d] - 1 \in 0..MaxAttempts
    BY ConstantTypes DEF TypeOK
  <1> DEFINE backoff == RetryBase * 2 ^ (attempts[d] - 1)
  <1>2. backoff \in Nat
    BY <1>1, BackoffIsNatural
  <1>3. RetryAt(d) = Min({RetryCap, backoff})
    BY DEF RetryAt
  <1> HIDE DEF backoff
  <1> QED
    <2>1. RetryCap \in Int /\ backoff \in Int
      BY <1>2, ConstantTypes
    <2>2. Min({RetryCap, backoff}) = IF RetryCap <= backoff THEN RetryCap ELSE backoff
      BY <2>1, MinOfTwo, Zenon
    <2> QED
      BY <1>2, <1>3, <2>2, ConstantTypes

\* The set of claimers of a row is finite, and what one claimer more or less
\* means for their number.
LEMMA ClaimersFinite ==
    ASSUME NEW d \in Deliveries
    PROVE  IsFiniteSet(Claimers(d)) /\ Cardinality(Claimers(d)) \in Nat
  BY StaffPushConstants, FS_Subset, FS_CardinalityType DEF Claimers

LEMMA InitInv == Init => Inv
  <1> SUFFICES ASSUME Init PROVE Inv
    OBVIOUS
  <1>1. TypeOK
    BY ConstantTypes DEF Init, TypeOK
  <1>2. \A d \in Deliveries : Claimers(d) = {}
    BY DEF Init, Claimers
  <1>3. SendsAreCounted
    BY <1>2, FS_EmptySet DEF Init, SendsAreCounted
  <1>4. ProcessingWasCounted
    BY DEF Init, ProcessingWasCounted
  <1> QED
    BY <1>1, <1>3, <1>4 DEF Inv

-----------------------------------------------------------------------------
Statuses == {"ABSENT", "PENDING", "PROCESSING", "SENT", "FAILED", "CANCELLED"}

\* The update of finish, fenced or not.
LEMMA FinishStep ==
    ASSUME TypeOK, NEW w \in Workers, NEW d \in Deliveries, NEW s \in Statuses, NEW next,
           status[d] = "PROCESSING" => next \in Floor..AvailCap,
           Finish(w, d, s, next)
    PROVE  /\ status' \in [Deliveries -> Statuses]
           /\ avail' \in [Deliveries -> Floor..AvailCap]
           /\ work' = [work EXCEPT ![w][d] = "none"]
           /\ \A e \in Deliveries : status'[e] # status[e] =>
                e = d /\ lease[d] = w /\ status[d] = "PROCESSING" /\ status'[e] = s
  BY DEF Finish, Fence, TypeOK, Statuses

\* RecordOutcome ends in one of four ways.
LEMMA OutcomeStep ==
    ASSUME Inv, NEW w \in Workers, NEW d \in Deliveries, RecordOutcome(w, d)
    PROVE  \E s \in {"SENT", "CANCELLED", "PENDING", "FAILED"}, next \in Int :
             /\ Finish(w, d, s, next)
             /\ status[d] = "PROCESSING" => next \in Floor..AvailCap
             /\ work[w][d] \in {"sent", "gone", "retryable", "fatal"}
             /\ enabled' \in BOOLEAN
  <1>0. TypeOK /\ ProcessingWasCounted
    BY DEF Inv
  <1>1. /\ avail[d] \in Floor..AvailCap /\ avail[d] \in Int
        /\ enabled \in BOOLEAN
    BY <1>0, ConstantTypes DEF TypeOK
  <1>2. status[d] = "PROCESSING" => RetryAt(d) \in Floor..AvailCap
    BY <1>0, RetryType DEF ProcessingWasCounted
  <1>3. CASE work[w][d] = "retryable" /\ Finish(w, d, "PENDING", RetryAt(d)) /\ UNCHANGED enabled
    <2>1. CASE status[d] = "PROCESSING"
      BY <1>1, <1>2, <1>3, <2>1
    <2>2. CASE status[d] # "PROCESSING"
      <3>1. Finish(w, d, "PENDING", avail[d])
        BY <1>3, <2>2 DEF Finish, Fence
      <3> QED
        BY <1>1, <1>3, <2>2, <3>1
    <2> QED
      BY <2>1, <2>2
  <1>4. CASE work[w][d] = "sent" /\ Finish(w, d, "SENT", avail[d]) /\ UNCHANGED enabled
    BY <1>1, <1>4
  <1>5. CASE work[w][d] = "gone" /\ Finish(w, d, "CANCELLED", avail[d]) /\ enabled' = FALSE
    BY <1>1, <1>5
  <1>6. CASE /\ work[w][d] \in {"retryable", "fatal"}
             /\ Finish(w, d, "FAILED", avail[d]) /\ UNCHANGED enabled
    BY <1>1, <1>6
  <1> QED
    BY <1>3, <1>4, <1>5, <1>6 DEF RecordOutcome

LEMMA TypeStep == Inv /\ [Next]_vars => TypeOK'
  <1> SUFFICES ASSUME Inv, [Next]_vars PROVE TypeOK'
    OBVIOUS
  <1>0. TypeOK
    BY DEF Inv
  <1> USE <1>0, ConstantTypes
  <1>1. ASSUME NEW d \in Deliveries, Enqueue(d) PROVE TypeOK'
    BY <1>1 DEF Enqueue, TypeOK, facts, workers
  <1>2. ASSUME NEW d \in Deliveries, CloseOrder(d) PROVE TypeOK'
    BY <1>2 DEF CloseOrder, TypeOK, rows, workers
  <1>3. CASE Subscribe \/ Unsubscribe
    BY <1>3 DEF Subscribe, Unsubscribe, TypeOK, rows, workers
  <1>4. ASSUME NEW w \in Workers, BeginCycle(w) \/ EndCycle(w) PROVE TypeOK'
    <2>1. /\ age' = [age EXCEPT ![w] = 0] /\ UNCHANGED << rows, facts, work, sends, crashes >>
          /\ \E c \in {"expire", "idle"} : cycle' = [cycle EXCEPT ![w] = c]
      BY <1>4 DEF BeginCycle, EndCycle, Advance
    <2>2. age' \in [Workers -> 0..CycleLimit]
      BY <2>1 DEF TypeOK
    <2>3. cycle' \in [Workers -> {"idle", "expire", "recover", "giveUp", "claim", "process"}]
      BY <2>1 DEF TypeOK
    <2> QED
      BY <2>1, <2>2, <2>3 DEF TypeOK, rows, facts
  <1>5. ASSUME NEW w \in Workers, CancelExpired(w) \/ RecoverLeases(w) \/ GiveUp(w) PROVE TypeOK'
    BY <1>5 DEF CancelExpired, RecoverLeases, GiveUp, Advance, SetStatus, TypeOK, facts
  <1>6. ASSUME NEW w \in Workers, Claim(w) PROVE TypeOK'
    <2>1. PICK batch \in SUBSET Claimable(w) :
            /\ SetStatus(batch, "PROCESSING")
            /\ lease' = [d \in Deliveries |-> IF d \in batch THEN w ELSE lease[d]]
            /\ attempts' = [d \in Deliveries |-> IF d \in batch THEN Counted(d) ELSE attempts[d]]
            /\ held' = [d \in Deliveries |-> IF d \in batch THEN age[w] ELSE held[d]]
            /\ work' = [work EXCEPT ![w] = [d \in Deliveries |->
                                               IF d \in batch THEN "claimed" ELSE "none"]]
      BY <1>6 DEF Claim
    <2>2. attempts' \in [Deliveries -> 0..MaxAttempts]
      BY <2>1 DEF Claimable, Counted, TypeOK
    <2>3. held' \in [Deliveries -> 0..HeldCap]
      BY <2>1 DEF TypeOK
    <2>4. /\ status' \in [Deliveries -> Statuses]
          /\ lease' \in [Deliveries -> Workers \cup {NoLease, DeadLease}]
      BY <2>1 DEF SetStatus, TypeOK, Statuses
    <2>5. work' \in [Workers -> [Deliveries ->
                     {"none", "claimed", "sending", "sent", "gone", "retryable", "fatal"}]]
      BY <2>1 DEF TypeOK
    <2> QED
      BY <1>6, <2>2, <2>3, <2>4, <2>5 DEF Claim, Advance, TypeOK, Statuses, facts
  <1>7. ASSUME NEW w \in Workers, NEW d \in Deliveries, CheckAndSend(w, d) PROVE TypeOK'
    <2>1. CASE enabled /\ orderOpen[d]
      <3>1. sends' \in [Deliveries -> Nat]
        BY <1>7, <2>1 DEF CheckAndSend, TypeOK
      <3>2. work' \in [Workers -> [Deliveries ->
                       {"none", "claimed", "sending", "sent", "gone", "retryable", "fatal"}]]
        BY <1>7, <2>1 DEF CheckAndSend, TypeOK
      <3> QED
        BY <1>7, <2>1, <3>1, <3>2 DEF CheckAndSend, TypeOK, facts
    <2>2. CASE ~ (enabled /\ orderOpen[d])
      <3>1. Finish(w, d, "CANCELLED", avail[d]) /\ sends' = sends
        BY <1>7, <2>2 DEF CheckAndSend
      <3>2. /\ status' \in [Deliveries -> Statuses]
            /\ avail' \in [Deliveries -> Floor..AvailCap]
            /\ work' = [work EXCEPT ![w][d] = "none"]
        BY <3>1, FinishStep DEF TypeOK, Statuses
      <3> QED
        BY <1>7, <3>1, <3>2 DEF CheckAndSend, TypeOK, Statuses, facts
    <2> QED
      BY <2>1, <2>2
  <1>8. ASSUME NEW w \in Workers, NEW d \in Deliveries, ServiceAnswers(w, d) PROVE TypeOK'
    BY <1>8 DEF ServiceAnswers, TypeOK, rows, facts
  <1>9. ASSUME NEW w \in Workers, NEW d \in Deliveries, RecordOutcome(w, d) PROVE TypeOK'
    <2>1. PICK s \in {"SENT", "CANCELLED", "PENDING", "FAILED"}, next \in Int :
            /\ Finish(w, d, s, next)
            /\ status[d] = "PROCESSING" => next \in Floor..AvailCap
            /\ enabled' \in BOOLEAN
      BY <1>9, OutcomeStep
    <2>2. s \in Statuses
      BY DEF Statuses
    <2>3. /\ status' \in [Deliveries -> Statuses]
          /\ avail' \in [Deliveries -> Floor..AvailCap]
          /\ work' = [work EXCEPT ![w][d] = "none"]
      BY <2>1, <2>2, FinishStep
    <2> QED
      BY <1>9, <2>1, <2>3 DEF RecordOutcome, TypeOK, Statuses
  <1>10. ASSUME NEW w \in Workers, Crash(w) PROVE TypeOK'
    BY <1>10 DEF Crash, TypeOK, facts
  <1>11. CASE Tick
    <2>2. avail' \in [Deliveries -> Floor..AvailCap]
      <3>1. ASSUME NEW d \in Deliveries PROVE Max({Floor, avail[d] - 1}) \in Floor..AvailCap
        <4>1. avail[d] \in Floor..AvailCap /\ avail[d] - 1 \in Int /\ Floor \in Int
          BY DEF TypeOK
        <4>2. Max({Floor, avail[d] - 1}) = IF Floor >= avail[d] - 1 THEN Floor ELSE avail[d] - 1
          BY <4>1, MaxOfTwo, Zenon
        <4> QED
          BY <4>1, <4>2
      <3> QED
        BY <1>11, <3>1 DEF Tick, TypeOK
    <2>3. ttl' \in [Deliveries -> Floor..ExpiryTicks]
      <3>1. ASSUME NEW d \in Deliveries PROVE Max({Floor, ttl[d] - 1}) \in Floor..ExpiryTicks
        <4>1. ttl[d] \in Floor..ExpiryTicks /\ ttl[d] - 1 \in Int /\ Floor \in Int
          BY DEF TypeOK
        <4>2. Max({Floor, ttl[d] - 1}) = IF Floor >= ttl[d] - 1 THEN Floor ELSE ttl[d] - 1
          BY <4>1, MaxOfTwo, Zenon
        <4> QED
          BY <4>1, <4>2
      <3> QED
        BY <1>11, <3>1 DEF Tick, TypeOK
    <2>4. held' \in [Deliveries -> 0..HeldCap]
      <3>1. ASSUME NEW d \in Deliveries PROVE Min({HeldCap, held[d] + 1}) \in 0..HeldCap
        <4>1. held[d] \in 0..HeldCap /\ held[d] + 1 \in Int /\ HeldCap \in Int
          BY DEF TypeOK
        <4>2. Min({HeldCap, held[d] + 1}) = IF HeldCap <= held[d] + 1 THEN HeldCap ELSE held[d] + 1
          BY <4>1, MinOfTwo, Zenon
        <4> QED
          BY <4>1, <4>2
      <3> QED
        BY <1>11, <3>1 DEF Tick, TypeOK
    <2>5. age' \in [Workers -> 0..CycleLimit]
      BY <1>11 DEF Tick, TypeOK
    <2> QED
      BY <1>11, <2>2, <2>3, <2>4, <2>5 DEF Tick, TypeOK, facts
  <1>12. CASE UNCHANGED vars
    BY <1>12 DEF vars, rows, facts, workers, TypeOK
  <1> QED
    BY <1>1, <1>2, <1>3, <1>4, <1>5, <1>6, <1>7, <1>8, <1>9, <1>10, <1>11, <1>12
       DEF Next, WorkerStep

-----------------------------------------------------------------------------
\* A row whose claimers do not become more keeps its count.
LEMMA FewerClaimers ==
    ASSUME Inv, NEW d \in Deliveries, Claimers(d)' \subseteq Claimers(d),
           sends'[d] = sends[d], attempts'[d] \in Nat, attempts'[d] >= attempts[d]
    PROVE  sends'[d] + Cardinality(Claimers(d)') <= attempts'[d]
  <1>1. /\ sends[d] \in Nat /\ attempts[d] \in Nat
        /\ sends[d] + Cardinality(Claimers(d)) <= attempts[d]
    BY ConstantTypes DEF Inv, TypeOK, SendsAreCounted
  <1>2. IsFiniteSet(Claimers(d)) /\ Cardinality(Claimers(d)) \in Nat
    BY ClaimersFinite
  <1>3. Cardinality(Claimers(d)') <= Cardinality(Claimers(d))
    BY <1>2, FS_Subset
  <1>4. Cardinality(Claimers(d)') \in Nat
    BY <1>2, FS_Subset, FS_CardinalityType
  <1> QED
    BY <1>1, <1>2, <1>3, <1>4

\* What every step but a claim and a send leaves: nobody starts to claim.
LEMMA QuietStep ==
    ASSUME Inv, UNCHANGED << sends, attempts >>,
           \A w \in Workers, d \in Deliveries : work'[w][d] = "claimed" => work[w][d] = "claimed"
    PROVE  SendsAreCounted'
  <1>1. \A d \in Deliveries : Claimers(d)' \subseteq Claimers(d)
    BY DEF Claimers
  <1>2. \A d \in Deliveries : attempts[d] \in Nat
    BY ConstantTypes DEF Inv, TypeOK
  <1> QED
    BY <1>1, <1>2, FewerClaimers DEF SendsAreCounted

LEMMA CountStep == Inv /\ [Next]_vars => SendsAreCounted'
  <1> SUFFICES ASSUME Inv, [Next]_vars PROVE SendsAreCounted'
    OBVIOUS
  <1>0. TypeOK
    BY DEF Inv
  <1>1. ASSUME NEW w \in Workers, Claim(w) PROVE SendsAreCounted'
    <2> SUFFICES ASSUME NEW d \in Deliveries
                 PROVE  sends'[d] + Cardinality(Claimers(d)') <= attempts'[d]
      BY DEF SendsAreCounted
    <2>1. PICK batch \in SUBSET Claimable(w) :
            /\ attempts' = [e \in Deliveries |-> IF e \in batch THEN Counted(e) ELSE attempts[e]]
            /\ work' = [work EXCEPT ![w] = [e \in Deliveries |->
                                               IF e \in batch THEN "claimed" ELSE "none"]]
      BY <1>1 DEF Claim
    <2>2. sends' = sends /\ sends[d] \in Nat /\ attempts[d] \in Nat
      BY <1>0, <1>1, ConstantTypes DEF Claim, TypeOK
    <2>3. CASE d \notin batch
      <3>1. Claimers(d)' \subseteq Claimers(d) /\ attempts'[d] = attempts[d]
        BY <1>0, <2>1, <2>3 DEF Claimers, TypeOK
      <3> QED
        BY <2>2, <3>1, FewerClaimers
    <2>4. CASE d \in batch
      <3>1. Claimers(d)' = Claimers(d) \cup {w} /\ attempts'[d] = attempts[d] + 1
        BY <1>0, <2>1, <2>4 DEF Claimers, TypeOK, Counted
      <3>2. IsFiniteSet(Claimers(d)) /\ Cardinality(Claimers(d)) \in Nat
        BY ClaimersFinite
      <3>3. Cardinality(Claimers(d)') <= Cardinality(Claimers(d)) + 1
            /\ Cardinality(Claimers(d)') \in Nat
        <4>1. Cardinality(Claimers(d) \cup {w}) =
                IF w \in Claimers(d) THEN Cardinality(Claimers(d)) ELSE Cardinality(Claimers(d)) + 1
          BY <3>2, FS_AddElement, Zenon
        <4> QED
          BY <3>1, <3>2, <4>1
      <3>4. sends[d] + Cardinality(Claimers(d)) <= attempts[d]
        BY DEF Inv, SendsAreCounted
      <3> QED
        BY <2>2, <3>1, <3>2, <3>3, <3>4
    <2> QED
      BY <2>3, <2>4
  <1>2. ASSUME NEW w \in Workers, NEW d \in Deliveries, CheckAndSend(w, d)
        PROVE  SendsAreCounted'
    <2>1. CASE ~ (enabled /\ orderOpen[d])
      <3>1. UNCHANGED << sends, attempts >> /\ work' = [work EXCEPT ![w][d] = "none"]
        BY <1>2, <2>1 DEF CheckAndSend, Finish
      <3> QED
        BY <1>0, <3>1, QuietStep DEF TypeOK
    <2>2. CASE enabled /\ orderOpen[d]
      <3>1. /\ work[w][d] = "claimed" /\ work' = [work EXCEPT ![w][d] = "sending"]
            /\ sends' = [sends EXCEPT ![d] = @ + 1] /\ attempts' = attempts
        BY <1>2, <2>2 DEF CheckAndSend
      <3> SUFFICES ASSUME NEW e \in Deliveries
                   PROVE  sends'[e] + Cardinality(Claimers(e)') <= attempts'[e]
        BY DEF SendsAreCounted
      <3>2. sends[e] \in Nat /\ attempts[e] \in Nat
        BY <1>0, ConstantTypes DEF TypeOK
      <3>3. CASE e # d
        <4>1. Claimers(e)' \subseteq Claimers(e) /\ sends'[e] = sends[e]
          BY <1>0, <3>1, <3>3 DEF Claimers, TypeOK
        <4> QED
          BY <3>1, <3>2, <4>1, FewerClaimers
      <3>4. CASE e = d
        <4>1. /\ Claimers(e)' = Claimers(e) \ {w} /\ w \in Claimers(e)
              /\ sends'[e] = sends[e] + 1
          BY <1>0, <3>1, <3>4 DEF Claimers, TypeOK
        <4>2. IsFiniteSet(Claimers(e)) /\ Cardinality(Claimers(e)) \in Nat
          BY ClaimersFinite
        <4>3. Cardinality(Claimers(e)') = Cardinality(Claimers(e)) - 1
          BY <4>1, <4>2, FS_RemoveElement
        <4>4. sends[e] + Cardinality(Claimers(e)) <= attempts[e]
          BY DEF Inv, SendsAreCounted
        <4> QED
          BY <3>1, <3>2, <4>1, <4>2, <4>3, <4>4
      <3> QED
        BY <3>3, <3>4
    <2> QED
      BY <2>1, <2>2
  <1>3. ASSUME NEW w \in Workers, NEW d \in Deliveries, ServiceAnswers(w, d)
        PROVE  SendsAreCounted'
    <2>1. /\ UNCHANGED << sends, attempts >>
          /\ \E a \in {"sent", "gone", "retryable", "fatal"} : work' = [work EXCEPT ![w][d] = a]
      BY <1>3 DEF ServiceAnswers, rows
    <2> QED
      BY <1>0, <2>1, QuietStep DEF TypeOK
  <1>4. ASSUME NEW w \in Workers, NEW d \in Deliveries, RecordOutcome(w, d)
        PROVE  SendsAreCounted'
    <2>1. UNCHANGED << sends, attempts >> /\ work' = [work EXCEPT ![w][d] = "none"]
      BY <1>4 DEF RecordOutcome, Finish
    <2> QED
      BY <1>0, <2>1, QuietStep DEF TypeOK
  <1>5. ASSUME NEW w \in Workers, Crash(w) PROVE SendsAreCounted'
    <2>1. /\ UNCHANGED << sends, attempts >>
          /\ work' = [work EXCEPT ![w] = [d \in Deliveries |-> "none"]]
      BY <1>5 DEF Crash
    <2> QED
      BY <1>0, <2>1, QuietStep DEF TypeOK
  <1>6. ASSUME UNCHANGED << sends, attempts, work >> PROVE SendsAreCounted'
    BY <1>6, QuietStep
  <1>7. ASSUME NEW w \in Workers,
               \/ BeginCycle(w) \/ EndCycle(w) \/ CancelExpired(w) \/ RecoverLeases(w)
               \/ GiveUp(w)
        PROVE  UNCHANGED << sends, attempts, work >>
    BY <1>7 DEF BeginCycle, EndCycle, CancelExpired, RecoverLeases, GiveUp, rows
  <1>8. ASSUME NEW d \in Deliveries, Enqueue(d) \/ CloseOrder(d)
        PROVE  UNCHANGED << sends, attempts, work >>
    BY <1>8 DEF Enqueue, CloseOrder, rows, workers
  <1>9. CASE Subscribe \/ Unsubscribe \/ Tick \/ UNCHANGED vars
    BY <1>6, <1>9 DEF Subscribe, Unsubscribe, Tick, vars, rows, workers
  <1> QED
    BY <1>1, <1>2, <1>3, <1>4, <1>5, <1>6, <1>7, <1>8, <1>9 DEF Next, WorkerStep

\* A claim counts before it marks a row PROCESSING; no count is taken back.
LEMMA ProcessingStep == Inv /\ [Next]_vars => ProcessingWasCounted'
  <1> SUFFICES ASSUME Inv, [Next]_vars, NEW d \in Deliveries, status'[d] = "PROCESSING"
               PROVE  attempts'[d] >= 1
    BY DEF ProcessingWasCounted
  <1>0. TypeOK /\ attempts[d] \in Nat /\ (status[d] = "PROCESSING" => attempts[d] >= 1)
    BY ConstantTypes DEF Inv, TypeOK, ProcessingWasCounted
  <1>1. ASSUME attempts' = attempts, status'[d] = status[d] PROVE attempts'[d] >= 1
    BY <1>0, <1>1
  <1>2. ASSUME NEW w \in Workers, Claim(w) PROVE attempts'[d] >= 1
    <2>1. PICK batch \in SUBSET Claimable(w) :
            /\ SetStatus(batch, "PROCESSING")
            /\ attempts' = [e \in Deliveries |-> IF e \in batch THEN Counted(e) ELSE attempts[e]]
      BY <1>2 DEF Claim
    <2> QED
      BY <1>0, <2>1 DEF SetStatus, Counted
  <1>3. ASSUME NEW w \in Workers, CancelExpired(w) \/ RecoverLeases(w) \/ GiveUp(w)
        PROVE  attempts'[d] >= 1
    BY <1>0, <1>3 DEF CancelExpired, RecoverLeases, GiveUp, SetStatus
  <1>4. ASSUME NEW w \in Workers, NEW e \in Deliveries, CheckAndSend(w, e)
        PROVE  attempts'[d] >= 1
    <2>1. attempts' = attempts /\ status'[d] = status[d]
      BY <1>0, <1>4 DEF CheckAndSend, Finish, TypeOK
    <2> QED
      BY <1>1, <2>1
  <1>5. ASSUME NEW w \in Workers, NEW e \in Deliveries, RecordOutcome(w, e)
        PROVE  attempts'[d] >= 1
    <2>1. attempts' = attempts
      BY <1>5 DEF RecordOutcome
    <2>2. status'[d] = status[d]
      BY <1>0, <1>5 DEF RecordOutcome, Finish, TypeOK
    <2> QED
      BY <1>1, <2>1, <2>2
  <1>6. ASSUME NEW e \in Deliveries, Enqueue(e) PROVE attempts'[d] >= 1
    <2>1. attempts' = attempts /\ status'[d] = status[d]
      BY <1>0, <1>6 DEF Enqueue, TypeOK
    <2> QED
      BY <1>1, <2>1
  <1>7. ASSUME NEW w \in Workers,
               BeginCycle(w) \/ EndCycle(w) \/ Crash(w) \/ \E e \in Deliveries : ServiceAnswers(w, e)
        PROVE  attempts'[d] >= 1
    BY <1>1, <1>7 DEF BeginCycle, EndCycle, Crash, ServiceAnswers, rows
  <1>8. ASSUME NEW e \in Deliveries, CloseOrder(e) PROVE attempts'[d] >= 1
    BY <1>1, <1>8 DEF CloseOrder, rows
  <1>9. CASE Subscribe \/ Unsubscribe \/ Tick \/ UNCHANGED vars
    BY <1>1, <1>9 DEF Subscribe, Unsubscribe, Tick, vars, rows
  <1> QED
    BY <1>2, <1>3, <1>4, <1>5, <1>6, <1>7, <1>8, <1>9 DEF Next, WorkerStep

LEMMA Invariance == Spec => []Inv
  <1>1. Inv /\ [Next]_vars => Inv'
    BY TypeStep, CountStep, ProcessingStep DEF Inv
  <1> QED
    BY <1>1, InitInv, PTL DEF Spec

-----------------------------------------------------------------------------
\* The rows keep their types; in particular attempts stays within its check.
THEOREM TypeCorrect == Spec => []TypeOK
  <1>1. Inv => TypeOK
    BY DEF Inv
  <1> QED
    BY <1>1, Invariance, PTL

\* No more pushes leave for a row than it may have attempts, although a lease
\* may be lost while its holder is still sending.
THEOREM SendsBoundedHolds == Spec => []SendsBounded
  <1>1. Inv => SendsBounded
    <2> SUFFICES ASSUME Inv, NEW d \in Deliveries PROVE sends[d] <= MaxAttempts
      BY DEF SendsBounded
    <2>1. /\ sends[d] \in Nat /\ attempts[d] \in Nat /\ attempts[d] <= MaxAttempts
          /\ sends[d] + Cardinality(Claimers(d)) <= attempts[d]
      BY ConstantTypes DEF Inv, TypeOK, SendsAreCounted
    <2>2. Cardinality(Claimers(d)) \in Nat
      BY ClaimersFinite
    <2> QED
      BY <2>1, <2>2, ConstantTypes
  <1> QED
    BY <1>1, Invariance, PTL

\* Which step changes the status of a row that was claimed or settled: one that
\* moves no settled row, and a claimed one only for the holder of its lease, by
\* recovery, or by the sweep of expired rows.
LEMMA StatusStep ==
    ASSUME Inv, [Next]_vars, NEW d \in Deliveries, status'[d] # status[d]
    PROVE  /\ ~ Settled(d)
           /\ status[d] = "PROCESSING" /\ status'[d] # "CANCELLED" =>
                \/ lease'[d] = NoLease
                \/ lease[d] \in Workers /\ work'[lease[d]][d] # work[lease[d]][d]
  <1> DEFINE Goal == /\ ~ Settled(d)
                     /\ status[d] = "PROCESSING" /\ status'[d] # "CANCELLED" =>
                          \/ lease'[d] = NoLease
                          \/ lease[d] \in Workers /\ work'[lease[d]][d] # work[lease[d]][d]
  <1>0. TypeOK
    BY DEF Inv
  <1>1. ASSUME NEW w \in Workers, CancelExpired(w) PROVE Goal
    BY <1>0, <1>1 DEF CancelExpired, SetStatus, Expired, Settled, TypeOK
  <1>2. ASSUME NEW w \in Workers, RecoverLeases(w) PROVE Goal
    BY <1>0, <1>2 DEF RecoverLeases, SetStatus, LostLeases, Settled, TypeOK
  <1>3. ASSUME NEW w \in Workers, GiveUp(w) PROVE Goal
    BY <1>0, <1>3 DEF GiveUp, SetStatus, Settled, TypeOK
  <1>4. ASSUME NEW w \in Workers, Claim(w) PROVE Goal
    <2>1. status[d] = "PENDING"
      BY <1>0, <1>4 DEF Claim, SetStatus, Claimable, TypeOK
    <2> QED
      BY <2>1 DEF Settled
  <1>5. ASSUME NEW w \in Workers, NEW e \in Deliveries, CheckAndSend(w, e) PROVE Goal
    <2>1. status[d] = "PROCESSING" /\ status'[d] = "CANCELLED"
      BY <1>0, <1>5 DEF CheckAndSend, Finish, Fence, TypeOK
    <2> QED
      BY <2>1 DEF Settled
  <1>6. ASSUME NEW w \in Workers, NEW e \in Deliveries, RecordOutcome(w, e) PROVE Goal
    <2>1. PICK s \in {"SENT", "CANCELLED", "PENDING", "FAILED"}, next \in Int :
            /\ Finish(w, e, s, next)
            /\ work[w][e] \in {"sent", "gone", "retryable", "fatal"}
      BY <1>6, OutcomeStep
    <2>2. e = d /\ lease[d] = w /\ status[d] = "PROCESSING"
      BY <1>0, <2>1 DEF Finish, Fence, TypeOK
    <2>3. work'[w][d] = "none"
      BY <1>0, <2>1, <2>2 DEF Finish, TypeOK
    <2> QED
      BY <2>1, <2>2, <2>3 DEF Settled
  <1>7. ASSUME NEW e \in Deliveries, Enqueue(e) PROVE Goal
    <2>1. status[d] = "ABSENT"
      BY <1>0, <1>7 DEF Enqueue, TypeOK
    <2> QED
      BY <2>1 DEF Settled
  <1>8. ASSUME NEW w \in Workers,
               BeginCycle(w) \/ EndCycle(w) \/ Crash(w) \/ \E e \in Deliveries : ServiceAnswers(w, e)
        PROVE  FALSE
    BY <1>8 DEF BeginCycle, EndCycle, Crash, ServiceAnswers, rows
  <1>9. ASSUME NEW e \in Deliveries, CloseOrder(e) PROVE FALSE
    BY <1>9 DEF CloseOrder, rows
  <1>10. ~ (Subscribe \/ Unsubscribe \/ Tick \/ UNCHANGED vars)
    BY DEF Subscribe, Unsubscribe, Tick, vars, rows
  <1> HIDE DEF Goal
  <1>11. Goal
    BY <1>1, <1>2, <1>3, <1>4, <1>5, <1>6, <1>7, <1>8, <1>9, <1>10 DEF Next, WorkerStep
  <1> QED
    BY <1>11 DEF Goal

\* finish names the lease token: a row that is being processed is settled or
\* put back only by the invocation that holds it, or after its lease was taken.
THEOREM OnlyHolderSettlesHolds == Spec => OnlyHolderSettles
  <1> DEFINE ByHolder == \A d \in Deliveries :
                status[d] = "PROCESSING" /\ status'[d] \in {"SENT", "FAILED", "PENDING"} =>
                    \/ lease'[d] = NoLease
                    \/ lease[d] \in Workers /\ work'[lease[d]][d] # work[lease[d]][d]
  <1>1. Inv /\ [Next]_vars => [ByHolder]_vars
    BY StatusStep
  <1> QED
    BY <1>1, Invariance, PTL DEF Spec, OnlyHolderSettles

\* A row that is SENT, FAILED or CANCELLED stays so: no device is alerted
\* again by a late invocation.
THEOREM SettledIsFinalHolds == Spec => SettledIsFinal
  <1> DEFINE Final == \A d \in Deliveries : Settled(d) => status'[d] = status[d]
  <1>1. Inv /\ [Next]_vars => [Final]_vars
    BY StatusStep
  <1> QED
    BY <1>1, Invariance, PTL DEF Spec, SettledIsFinal
=============================================================================

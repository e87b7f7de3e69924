-------------------------- MODULE OfflineSyncProofs --------------------------
(***************************************************************************)
(* For any number of orders, tabs, permits and faults: what the device     *)
(* calls settled is so on the server, a key gets one canonical order, and  *)
(* no order is imported with a permit revoked before it was taken.         *)
(***************************************************************************)
EXTENDS OfflineSync, TLAPS

\* The records behind TypeOK.
SentBatches == UNION {[S -> Payloads] : S \in SUBSET Orders}
Answers == UNION {[S -> Outcomes] : S \in SUBSET Orders}
TabStates == [phase : Phases, permit : Nat,
              batch : SentBatches, answer : Answers]
Requests == [tab : Tabs \cup {NoTab}, permit : Nat, batch : SentBatches, left : SUBSET Orders,
             out : Answers, thrown : Orders \cup {NoOrder}, revoked : BOOLEAN, read : BOOLEAN]

ServerTypes ==
    /\ inbox \in [Orders -> [status : {"NONE", "PROCESSED", "REJECTED"}, hash : Payloads]]
    /\ created \in [Orders -> Nat] /\ permitUsed \in [Orders -> Nat]
WireTypes == tab \in [Tabs -> TabStates] /\ requests \subseteq Requests

\* A tab waits for at most one request, the one with its batch.
OneRequestPerTab ==
    /\ \A r \in requests : r.tab \in Tabs => tab[r.tab].phase = "SENT" /\ r.batch = tab[r.tab].batch
    /\ \A r, q \in requests : r.tab = q.tab /\ r.tab \in Tabs => r = q

\* A payload on its way belongs to an order of the device, which keeps the
\* time of its creation.
Known(b) ==
    \A k \in DOMAIN b : /\ b[k].state \in States
                        /\ local[k].state # "NONE" /\ b[k].era = local[k].era
BatchesAreKnown ==
    /\ \A t \in Tabs : Known(tab[t].batch)
    /\ \A r \in requests : Known(r.batch)

\* An answer on its way is about its batch and is already true on the server.
Truthful(out) == \A k \in DOMAIN out : IF out[k] = "REJECTED" THEN k \in refused ELSE k \in receipts
AnswersAreTrue ==
    /\ \A t \in Tabs : Truthful(tab[t].answer) /\ DOMAIN tab[t].answer \subseteq DOMAIN tab[t].batch
    /\ \A r \in requests :
         /\ Truthful(r.out) /\ DOMAIN r.out \subseteq DOMAIN r.batch
         /\ r.left \subseteq DOMAIN r.batch /\ r.thrown \in r.left \cup {NoOrder}

\* Inbox, receipts, conflicts and the canonical order agree.
Ledgers ==
    \A k \in Orders :
        /\ created[k] = IF order[k] = "NONE" THEN 0 ELSE 1
        /\ k \in receipts => order[k] # "NONE"
        /\ inbox[k].status = "PROCESSED" <=> k \in receipts
        /\ inbox[k].status = "REJECTED" => k \in refused
        /\ flag[k] = "OPEN" <=> open[k] # {}
        /\ order[k] \in States => local[k].state # "NONE"

QueueIsReal ==
    \A k \in Orders : /\ queue[k] \in Synced => k \in receipts
                      /\ queue[k] = "REJECTED" => k \in refused

\* The inductive invariant.
Inv == /\ TypeOK /\ ServerTypes /\ WireTypes
       /\ OneRequestPerTab /\ BatchesAreKnown /\ AnswersAreTrue /\ Ledgers /\ QueueIsReal

-----------------------------------------------------------------------------
(* Batches and answers are partial functions on the orders.                *)
LEMMA BatchFacts ==
    /\ \A b \in SentBatches : DOMAIN b \subseteq Orders /\ \A k \in DOMAIN b : b[k] \in Payloads
    /\ \A S \in SUBSET Orders : \A f \in [S -> Payloads] : f \in SentBatches
  BY DEF SentBatches

LEMMA AnswerFacts ==
    /\ \A a \in Answers : DOMAIN a \subseteq Orders /\ \A k \in DOMAIN a : a[k] \in Outcomes
    /\ \A S \in SUBSET Orders : \A f \in [S -> Outcomes] : f \in Answers
  BY DEF Answers

LEMMA EmptyFacts == << >> \in SentBatches /\ << >> \in Answers /\ DOMAIN << >> = {}
  <1>1. DOMAIN << >> = {} /\ << >> = [k \in {} |-> k]
    OBVIOUS
  <1>2. [k \in {} |-> k] \in [{} -> Payloads] /\ [k \in {} |-> k] \in [{} -> Outcomes]
    OBVIOUS
  <1> QED
    BY <1>1, <1>2, BatchFacts, AnswerFacts

LEMMA PayloadFacts ==
    /\ NoPayload \in Payloads /\ NoPayload.state = "NONE" /\ NoPayload.era = 0
    /\ \A p \in Payloads : /\ p.state \in States \cup {"NONE", "PURGED"} /\ p.sync \in SyncStates
                           /\ p.retry \in 0..(MaxRetry + 1) /\ p.stamp \in Nat /\ p.permit \in Nat
                           /\ p.era \in Nat
  BY SyncConstants DEF NoPayload, Payloads, SyncStates, Syncable

LEMMA StateNames == "NONE" \notin States /\ "ONLINE" \notin States /\ "PURGED" \notin States
  BY DEF States

LEMMA InitInv == Init => Inv
  <1> SUFFICES ASSUME Init PROVE Inv
    OBVIOUS
  <1>1. TypeOK
    <2>1. due \in [Orders -> BOOLEAN]
      BY Zenon DEF Init
    <2>2. /\ events \in 0..setup.permits /\ issued \in 0..events /\ held \in 0..issued
          /\ window \in [1..issued -> [from : 0..events, till : 0..events]]
      BY SyncConstants DEF Init
    <2>3. local \in [Orders -> Payloads] /\ queue \in [Orders -> SyncStates \cup {"NONE"}]
      BY PayloadFacts DEF Init
    <2>4. \A t \in Tabs : /\ tab[t].phase \in Phases
                          /\ DOMAIN tab[t].batch \subseteq Orders
                          /\ DOMAIN tab[t].answer \subseteq DOMAIN tab[t].batch
      BY EmptyFacts DEF Init, Idle, Phases
    <2>5. \A k \in Orders : inbox[k].status \in {"NONE", "PROCESSED", "REJECTED"}
      BY DEF Init, NoInbox
    <2> QED
      BY <2>1, <2>2, <2>3, <2>4, <2>5 DEF Init, TypeOK
  <1>2. ServerTypes
    BY PayloadFacts DEF Init, ServerTypes, NoInbox
  <1>3. WireTypes
    BY EmptyFacts DEF Init, WireTypes, TabStates, Idle, Phases
  <1>4. OneRequestPerTab /\ BatchesAreKnown /\ AnswersAreTrue
    BY EmptyFacts DEF Init, OneRequestPerTab, BatchesAreKnown, AnswersAreTrue, Known, Truthful, Idle
  <1>5. Ledgers
    BY StateNames DEF Init, Ledgers, NoInbox
  <1>6. QueueIsReal
    BY DEF Init, QueueIsReal, Synced
  <1> QED
    BY <1>1, <1>2, <1>3, <1>4, <1>5, <1>6 DEF Inv

-----------------------------------------------------------------------------
(* Orders of the device are never forgotten and keep their time of         *)
(* creation; receipts and refusals are never taken back.                   *)
LocalGrows ==
    \A k \in Orders : local[k].state # "NONE" => local'[k].state # "NONE" /\ local'[k].era = local[k].era
ServerGrows == receipts \subseteq receipts' /\ refused \subseteq refused'

\* Steps that leave tabs and requests alone.
LEMMA WireFrame ==
    ASSUME Inv, UNCHANGED << tab, requests >>, LocalGrows, ServerGrows
    PROVE  (WireTypes /\ OneRequestPerTab /\ BatchesAreKnown /\ AnswersAreTrue)'
  <1>0. WireTypes /\ OneRequestPerTab /\ BatchesAreKnown /\ AnswersAreTrue
    BY DEF Inv
  <1>1. /\ \A t \in Tabs : DOMAIN tab[t].batch \subseteq Orders
        /\ \A r \in requests : DOMAIN r.batch \subseteq Orders
    BY <1>0, BatchFacts DEF WireTypes, TabStates, Requests
  <1>2. (WireTypes /\ OneRequestPerTab)'
    BY <1>0 DEF WireTypes, OneRequestPerTab
  <1>3. BatchesAreKnown'
    BY <1>0, <1>1 DEF BatchesAreKnown, Known, LocalGrows
  <1>4. AnswersAreTrue'
    BY <1>0 DEF AnswersAreTrue, Truthful, ServerGrows
  <1> QED
    BY <1>2, <1>3, <1>4

\* Steps that leave the server alone.
LEMMA ServerFrame ==
    ASSUME Inv, UNCHANGED server, LocalGrows
    PROVE  (ServerTypes /\ Ledgers)' /\ ServerGrows
  <1>1. UNCHANGED << order, inbox, receipts, open, flag, refused, created, takenAt, permitUsed >>
    BY DEF server
  <1>2. (ServerTypes /\ Ledgers)'
    BY <1>1 DEF Inv, ServerTypes, Ledgers, LocalGrows
  <1> QED
    BY <1>1, <1>2 DEF ServerGrows

\* Permits, the lock and the clock.
LEMMA QuietInv ==
    ASSUME Inv, TypeOK', UNCHANGED << local, queue, tab, requests, server >>
    PROVE  Inv'
  <1>1. LocalGrows
    BY DEF LocalGrows
  <1>2. (ServerTypes /\ Ledgers)' /\ ServerGrows
    BY <1>1, ServerFrame
  <1>3. (WireTypes /\ OneRequestPerTab /\ BatchesAreKnown /\ AnswersAreTrue)'
    BY <1>1, <1>2, WireFrame
  <1>4. QueueIsReal'
    BY DEF Inv, QueueIsReal, server
  <1> QED
    BY <1>2, <1>3, <1>4 DEF Inv

\* The clock and the permits as a permit event leaves them.
PermitTypes ==
    /\ events \in 0..setup.permits /\ issued \in 0..events /\ held \in 0..issued
    /\ window \in [1..issued -> [from : 0..events, till : 0..events]]
    /\ bootstraps \subseteq [at : 0..events, permit : 0..issued]

LEMMA PermitTypesNext ==
    ASSUME Inv, \/ BeginIssue \/ (\E on \in BOOLEAN : SetLeader(on))
                \/ \E b \in bootstraps : CommitIssue(b) \/ SaveBootstrap(b)
    PROVE  PermitTypes' /\ UNCHANGED setup
  <1>0. PermitTypes /\ setup.permits \in Nat
    BY SyncConstants DEF Inv, TypeOK, PermitTypes
  <1> DEFINE Times(n) == [from : 0..n, till : 0..n]
  <1>1. /\ events \in Nat /\ issued \in Nat /\ held \in Nat
        /\ \A p \in 1..issued : window[p] \in Times(events) /\ window[p] \in Times(events + 1)
    BY <1>0 DEF PermitTypes
  <1>2. events < setup.permits => \A p \in 1..issued : Revoked(p) \in Times(events + 1)
    BY <1>1 DEF Revoked
  <1>3. CASE BeginIssue
    <2>1. window' \in [1..issued -> Times(events + 1)]
      BY <1>0, <1>1, <1>3 DEF BeginIssue, PermitTypes
    <2>2. bootstraps' \subseteq [at : 0..(events + 1), permit : 0..issued]
      BY <1>0, <1>1, <1>3 DEF BeginIssue, PermitTypes
    <2> QED
      BY <1>0, <1>1, <1>3, <2>1, <2>2 DEF BeginIssue, PermitTypes, device
  <1>4. CASE \E on \in BOOLEAN : SetLeader(on)
    <2>1. window' \in [1..issued -> Times(events + 1)]
      BY <1>2, <1>4 DEF SetLeader
    <2>2. bootstraps' \subseteq [at : 0..(events + 1), permit : 0..issued]
      BY <1>0, <1>1, <1>4 DEF SetLeader, PermitTypes
    <2> QED
      BY <1>0, <1>1, <1>4, <2>1, <2>2 DEF SetLeader, PermitTypes, device
  <1>5. ASSUME NEW b \in bootstraps, CommitIssue(b) PROVE PermitTypes' /\ UNCHANGED setup
    <2>0. b.at \in 0..events /\ events < setup.permits
      BY <1>0, <1>5 DEF PermitTypes, CommitIssue
    <2>1. [from |-> b.at, till |-> 0] \in Times(events + 1)
      BY <1>1, <2>0
    <2>2. window' \in [1..(issued + 1) -> Times(events + 1)]
      BY <1>1, <1>2, <1>5, <2>0, <2>1 DEF CommitIssue
    <2>3. bootstraps' \subseteq [at : 0..(events + 1), permit : 0..(issued + 1)]
      BY <1>0, <1>1, <1>5 DEF CommitIssue, PermitTypes
    <2> QED
      BY <1>0, <1>1, <1>5, <2>2, <2>3 DEF CommitIssue, PermitTypes, device
  <1>6. ASSUME NEW b \in bootstraps, SaveBootstrap(b) PROVE PermitTypes' /\ UNCHANGED setup
    BY <1>0, <1>1, <1>6 DEF SaveBootstrap, PermitTypes
  <1> QED
    BY <1>3, <1>4, <1>5, <1>6

LEMMA PermitInv ==
    ASSUME Inv, \/ BeginIssue \/ RecordCashEvent \/ (\E on \in BOOLEAN : SetLeader(on))
                \/ \E b \in bootstraps : CommitIssue(b) \/ SaveBootstrap(b)
    PROVE  Inv'
  <1>0. TypeOK
    BY DEF Inv
  <1>1. /\ UNCHANGED << setup, local, queue, due, expiring, tab, lock, faults, online, requests, server >>
        /\ cash' \in {"NONE", "PENDING"}
    BY <1>0 DEF BeginIssue, CommitIssue, SaveBootstrap, RecordCashEvent, SetLeader, device, permits,
                TypeOK
  <1>2. PermitTypes'
    <2>1. CASE RecordCashEvent
      BY <1>0, <2>1 DEF RecordCashEvent, PermitTypes, TypeOK, permits
    <2> QED
      BY <2>1, PermitTypesNext
  <1>3. TypeOK'
    BY <1>0, <1>1, <1>2 DEF TypeOK, PermitTypes, server
  <1> QED
    BY <1>1, <1>3, QuietInv

LEMMA ClockInv ==
    ASSUME Inv, Clock \/ LeaseExpires \/ LeaseLost \/ \E k \in Orders : PostOnline(k)
    PROVE  Inv'
  <1>0. TypeOK
    BY DEF Inv
  <1>1. UNCHANGED << setup, local, queue, cash, expiring, held, permits, tab, requests, server >>
    BY DEF Clock, Tick, LeaseExpires, LeaseLost, PostOnline, device, permits
  <1>2. due' \in [Orders -> BOOLEAN]
    <2>1. due \in [Orders -> BOOLEAN]
      BY <1>0 DEF TypeOK
    <2>2. due' = due \/ \E k \in Orders : due' = [due EXCEPT ![k] = TRUE]
      BY DEF Clock, Tick, LeaseExpires, LeaseLost, PostOnline, device
    <2> QED
      BY <2>1, <2>2, Zenon
  <1>3. lock' \in Tabs \cup {NoTab}
    BY <1>0 DEF Clock, Tick, LeaseExpires, LeaseLost, PostOnline, TypeOK
  <1>4. online' \in [Orders -> {"NOT_SENT", "IN_FLIGHT", "OVER"}]
    <2>1. online \in [Orders -> {"NOT_SENT", "IN_FLIGHT", "OVER"}]
      BY <1>0 DEF TypeOK
    <2> QED
      BY <2>1 DEF Clock, Tick, LeaseExpires, LeaseLost, PostOnline
  <1>5. TypeOK'
    BY <1>0, <1>1, <1>2, <1>3, <1>4 DEF TypeOK, server, permits
  <1> QED
    BY <1>1, <1>5, QuietInv

-----------------------------------------------------------------------------
(* Steps of the device and of its tabs, which leave the server alone.      *)
LEMMA WireTypesSuffice ==
    WireTypes /\ AnswersAreTrue =>
        /\ \A t \in Tabs : /\ tab[t].phase \in Phases
                           /\ DOMAIN tab[t].batch \subseteq Orders
                           /\ DOMAIN tab[t].answer \subseteq DOMAIN tab[t].batch
        /\ \A r \in requests : /\ r.left \subseteq DOMAIN r.batch
                               /\ \A k \in DOMAIN r.out : r.out[k] \in Outcomes
                               /\ r.thrown \in r.left \cup {NoOrder}
  BY BatchFacts, AnswerFacts DEF WireTypes, AnswersAreTrue, TabStates, Requests

DeviceTypes ==
    /\ local \in [Orders -> Payloads]
    /\ queue \in [Orders -> SyncStates \cup {"NONE"}]
    /\ due \in [Orders -> BOOLEAN]
Wire == WireTypes /\ OneRequestPerTab /\ BatchesAreKnown /\ AnswersAreTrue

LEMMA DeviceStepInv ==
    ASSUME Inv, UNCHANGED << setup, cash, held, online, permits, server >>,
           expiring' \subseteq Orders, LocalGrows, DeviceTypes', lock' \in Tabs \cup {NoTab},
           Wire', QueueIsReal'
    PROVE  Inv'
  <1>1. (ServerTypes /\ Ledgers)'
    BY ServerFrame
  <1>2. (WireTypes /\ AnswersAreTrue)'
    BY DEF Wire
  <1>3. (/\ \A t \in Tabs : /\ tab[t].phase \in Phases
                            /\ DOMAIN tab[t].batch \subseteq Orders
                            /\ DOMAIN tab[t].answer \subseteq DOMAIN tab[t].batch
         /\ \A r \in requests : /\ r.left \subseteq DOMAIN r.batch
                                /\ \A k \in DOMAIN r.out : r.out[k] \in Outcomes
                                /\ r.thrown \in r.left \cup {NoOrder})'
    BY <1>2, WireTypesSuffice, PTL
  <1>4. TypeOK'
    BY <1>3 DEF Inv, TypeOK, DeviceTypes, permits, server
  <1> QED
    BY <1>1, <1>4 DEF Inv, Wire

LEMMA DeviceInv ==
    ASSUME Inv, NEW k \in Orders,
           CreateOffline(k) \/ \E s \in setup.moves : Transition(k, s)
    PROVE  Inv'
  <1>0. TypeOK /\ QueueIsReal
    BY DEF Inv
  <1>1. /\ UNCHANGED << setup, cash, expiring, held, online, permits, server, tab, lock, requests >>
        /\ lock \in Tabs \cup {NoTab} /\ expiring \subseteq Orders
    BY <1>0 DEF CreateOffline, Transition, TypeOK
  <1>2. local \in [Orders -> Payloads] /\ local[k] \in Payloads
    BY <1>0 DEF TypeOK
  <1>3. \E p \in Payloads : /\ local' = [local EXCEPT ![k] = p] /\ p.state # "NONE"
                            /\ local[k].state # "NONE" => p.era = local[k].era
    <2>1. CASE CreateOffline(k)
      <3> DEFINE p == [NoPayload EXCEPT !.state = "CONFIRMED", !.permit = held, !.era = events]
      <3>1. held \in Nat /\ events \in Nat
        BY <1>0, SyncConstants DEF TypeOK
      <3>2. "CONFIRMED" \in States
        BY DEF States
      <3>3. \A q \in Payloads :
              LET new == [q EXCEPT !.state = "CONFIRMED", !.permit = held, !.era = events]
              IN  new \in Payloads /\ new.state # "NONE"
        BY <3>1, <3>2 DEF Payloads
      <3>4. p \in Payloads /\ p.state # "NONE"
        BY <3>3, PayloadFacts
      <3> QED
        BY <2>1, <3>4 DEF CreateOffline
    <2>3. CASE \E s \in setup.moves : Transition(k, s)
      <3>0. PICK s \in setup.moves : Transition(k, s)
        BY <2>3
      <3> DEFINE p == [local[k] EXCEPT !.state = s, !.sync = "PENDING"]
      <3>1. s \in States
        <4>1. setup \in Setups
          BY <1>0 DEF TypeOK
        <4> QED
          BY <4>1, SyncConstants DEF States
      <3>2. p \in Payloads /\ p.state # "NONE" /\ p.era = local[k].era
        BY <1>2, <3>1, StateNames DEF Payloads, SyncStates, Syncable
      <3>3. local' = [local EXCEPT ![k] = p]
        BY <3>0, <1>2 DEF Transition
      <3> QED
        BY <3>2, <3>3
    <2> QED
      BY <2>1, <2>3
  <1>4. LocalGrows /\ local' \in [Orders -> Payloads]
    <2>1. PICK p \in Payloads : /\ local' = [local EXCEPT ![k] = p] /\ p.state # "NONE"
                                /\ local[k].state # "NONE" => p.era = local[k].era
      BY <1>3
    <2>2. local' \in [Orders -> Payloads]
      BY <1>2, <2>1
    <2>3. \A j \in Orders : local'[j] = IF j = k THEN p ELSE local[j]
      BY <1>2, <2>1
    <2> QED
      BY <2>1, <2>2, <2>3 DEF LocalGrows
  <1>5. queue' \in [Orders -> SyncStates \cup {"NONE"}] /\ QueueIsReal'
    <2>1. queue' = queue \/ queue' = [queue EXCEPT ![k] = "PENDING"]
      BY DEF CreateOffline, Transition
    <2>2. queue \in [Orders -> SyncStates \cup {"NONE"}]
      BY <1>0 DEF TypeOK
    <2> QED
      BY <1>0, <1>1, <2>1, <2>2 DEF QueueIsReal, SyncStates, Syncable, Synced, server
  <1>6. due' \in [Orders -> BOOLEAN]
    <2>1. due \in [Orders -> BOOLEAN]
      BY <1>0 DEF TypeOK
    <2>2. due' = due \/ due' = [due EXCEPT ![k] = TRUE]
      BY DEF CreateOffline, Transition
    <2> QED
      BY <2>1, <2>2, Zenon
  <1>7. ServerGrows
    BY <1>1 DEF server, ServerGrows
  <1>8. Wire'
    BY <1>1, <1>4, <1>7, WireFrame DEF Wire
  <1> QED
    BY <1>1, <1>4, <1>5, <1>6, <1>8, DeviceStepInv DEF DeviceTypes

\* Marking an attempt settles nothing.
LEMMA StampFacts ==
    ASSUME Inv, UNCHANGED server, NEW K, NEW s \in {"PROCESSING", "FAILED"}, NEW n \in {0, 1},
           Stamp(K, s, n)
    PROVE  DeviceTypes' /\ LocalGrows /\ QueueIsReal'
  <1>0. TypeOK /\ QueueIsReal
    BY DEF Inv
  <1>1. due' \in [Orders -> BOOLEAN]
    <2>1. due' = [k \in Orders |-> due[k] /\ k \notin K]
      BY DEF Stamp
    <2> QED
      BY <2>1, Zenon
  <1>2. queue' \in [Orders -> SyncStates \cup {"NONE"}]
    BY <1>0 DEF Stamp, TypeOK, SyncStates, Syncable
  <1>3. QueueIsReal'
    BY <1>0 DEF Stamp, QueueIsReal, Synced, server
  <1>4. local' \in [Orders -> Payloads] /\ LocalGrows
    <2>1. ASSUME NEW k \in Orders
          PROVE  /\ local'[k] \in Payloads /\ local'[k].state = local[k].state
                 /\ local'[k].era = local[k].era
      <3>1. local[k] \in Payloads
        BY <1>0 DEF TypeOK
      <3>2. \/ local'[k] = local[k]
            \/ /\ local[k].retry <= MaxRetry
               /\ local'[k] = [local[k] EXCEPT !.sync = s, !.retry = @ + n, !.stamp = @ + 1]
        BY DEF Stamp, Parses
      <3>3. s \in SyncStates
        BY DEF SyncStates, Syncable
      <3>4. ASSUME local[k].retry <= MaxRetry
            PROVE  local[k].retry + n \in 0..(MaxRetry + 1) /\ local[k].stamp + 1 \in Nat
        BY <3>1, <3>4, PayloadFacts, SyncConstants
      <3>5. CASE local'[k] = local[k]
        BY <3>1, <3>5
      <3>6. CASE /\ local[k].retry <= MaxRetry
                 /\ local'[k] = [local[k] EXCEPT !.sync = s, !.retry = @ + n, !.stamp = @ + 1]
        BY <3>1, <3>3, <3>4, <3>6 DEF Payloads
      <3> QED
        BY <3>2, <3>5, <3>6
    <2>2. DOMAIN local' = Orders /\ local' = [k \in Orders |-> local'[k]]
      BY DEF Stamp
    <2> QED
      BY <2>1, <2>2 DEF LocalGrows
  <1> QED
    BY <1>1, <1>2, <1>3, <1>4 DEF DeviceTypes

\* A tab moves on without a new request; the one it waited for is answered,
\* abandoned or gone.
LEMMA TabMoves ==
    ASSUME Inv, UNCHANGED server, LocalGrows, NEW t \in Tabs, NEW x \in TabStates,
           tab' = [tab EXCEPT ![t] = x],
           \A k \in DOMAIN x.batch : /\ x.batch[k].state \in States
                                     /\ local[k].state # "NONE" /\ x.batch[k].era = local[k].era,
           Truthful(x.answer), DOMAIN x.answer \subseteq DOMAIN x.batch,
           \A r \in requests' : /\ r.tab # t
                                /\ \E q \in requests : r = q \/ r = [q EXCEPT !.tab = NoTab]
    PROVE  Wire'
  <1>0. WireTypes /\ OneRequestPerTab /\ BatchesAreKnown /\ AnswersAreTrue
    BY DEF Inv
  <1>1. /\ tab' \in [Tabs -> TabStates] /\ tab'[t] = x
        /\ \A u \in Tabs : u # t => tab'[u] = tab[u]
    BY <1>0 DEF WireTypes
  <1>2. \A r \in requests' :
          /\ r \in Requests /\ r.tab # t
          /\ r.tab \in Tabs => r \in requests
          /\ \E q \in requests : /\ r.batch = q.batch /\ r.out = q.out /\ r.left = q.left
                                 /\ r.thrown = q.thrown
    <2>1. ASSUME NEW r \in requests'
          PROVE  /\ r \in Requests /\ r.tab # t
                 /\ r.tab \in Tabs => r \in requests
                 /\ \E q \in requests : /\ r.batch = q.batch /\ r.out = q.out /\ r.left = q.left
                                        /\ r.thrown = q.thrown
      <3>1. PICK q \in requests : r = q \/ r = [q EXCEPT !.tab = NoTab]
        OBVIOUS
      <3>2. q \in Requests
        BY <1>0 DEF WireTypes
      <3>3. CASE r = q
        BY <3>2, <3>3
      <3>4. CASE r = [q EXCEPT !.tab = NoTab]
        <4>1. /\ r \in Requests /\ r.tab = NoTab
              /\ r.batch = q.batch /\ r.out = q.out /\ r.left = q.left /\ r.thrown = q.thrown
          BY <3>2, <3>4 DEF Requests
        <4> QED
          BY <4>1, SyncConstants
      <3> QED
        BY <3>1, <3>3, <3>4
    <2> QED
      BY <2>1
  <1>3. WireTypes'
    BY <1>1, <1>2 DEF WireTypes
  <1>4. OneRequestPerTab'
    BY <1>0, <1>1, <1>2 DEF OneRequestPerTab
  <1>5. /\ DOMAIN x.batch \subseteq Orders
        /\ \A u \in Tabs : DOMAIN tab[u].batch \subseteq Orders
        /\ \A r \in requests : DOMAIN r.batch \subseteq Orders
    BY <1>0, BatchFacts DEF WireTypes, TabStates, Requests
  <1>6. BatchesAreKnown'
    <2>1. ASSUME NEW u \in Tabs PROVE Known(tab[u].batch)'
      <3>1. CASE u = t
        BY <1>1, <1>5, <3>1 DEF Known, LocalGrows
      <3>2. CASE u # t
        BY <1>0, <1>1, <1>5, <3>2 DEF BatchesAreKnown, Known, LocalGrows
      <3> QED
        BY <3>1, <3>2
    <2>2. ASSUME NEW r \in requests'
          PROVE  \A k \in DOMAIN r.batch : /\ r.batch[k].state \in States
                                           /\ local'[k].state # "NONE" /\ r.batch[k].era = local'[k].era
      BY <1>0, <1>2, <1>5 DEF BatchesAreKnown, Known, LocalGrows
    <2> QED
      BY <2>1, <2>2 DEF BatchesAreKnown, Known
  <1>7. AnswersAreTrue'
    <2>0. UNCHANGED << refused, receipts >>
      BY DEF server
    <2>1. \A u \in Tabs : (Truthful(tab[u].answer) /\ DOMAIN tab[u].answer \subseteq DOMAIN tab[u].batch)'
      BY <1>0, <1>1, <2>0 DEF AnswersAreTrue, Truthful
    <2>2. ASSUME NEW r \in requests'
          PROVE  /\ \A k \in DOMAIN r.out : IF r.out[k] = "REJECTED" THEN k \in refused' ELSE k \in receipts'
                 /\ DOMAIN r.out \subseteq DOMAIN r.batch
                 /\ r.left \subseteq DOMAIN r.batch /\ r.thrown \in r.left \cup {NoOrder}
      BY <1>0, <1>2, <2>0 DEF AnswersAreTrue, Truthful
    <2> QED
      BY <2>1, <2>2 DEF AnswersAreTrue, Truthful
  <1> QED
    BY <1>3, <1>4, <1>6, <1>7 DEF Wire

LEMMA ReleaseFacts == ASSUME Inv, NEW t, Release(t) PROVE lock' \in Tabs \cup {NoTab}
  BY DEF Inv, TypeOK, Release

\* What remains of the requests when tab t stops waiting.
LEMMA DisownedFacts ==
    ASSUME Inv, NEW t \in Tabs
    PROVE  \A r \in Disowned(t) : /\ r.tab # t
                                  /\ \E q \in requests : r = q \/ r = [q EXCEPT !.tab = NoTab]
  <1>1. NoTab # t
    BY SyncConstants
  <1>2. \A q \in requests : q \in Requests
    BY DEF Inv, WireTypes
  <1>3. \A q \in requests : [q EXCEPT !.tab = NoTab].tab = NoTab
    BY <1>2 DEF Requests
  <1> SUFFICES ASSUME NEW r \in Disowned(t)
               PROVE  r.tab # t /\ \E q \in requests : r = q \/ r = [q EXCEPT !.tab = NoTab]
    OBVIOUS
  <1>4. (r \in requests /\ r.tab # t) \/ \E q \in requests : r = [q EXCEPT !.tab = NoTab]
    BY DEF Disowned
  <1> QED
    BY <1>1, <1>3, <1>4

\* A tab becomes idle.
LEMMA IdleTab ==
    ASSUME Inv, UNCHANGED server, LocalGrows, NEW t \in Tabs, tab' = [tab EXCEPT ![t] = Idle],
           \A r \in requests' : /\ r.tab # t
                                /\ \E q \in requests : r = q \/ r = [q EXCEPT !.tab = NoTab]
    PROVE  Wire'
  <1>1. /\ Idle \in TabStates /\ DOMAIN Idle.batch = {} /\ Truthful(Idle.answer)
        /\ DOMAIN Idle.answer = {}
    BY EmptyFacts DEF Idle, TabStates, Truthful, Phases
  <1> QED
    BY <1>1, TabMoves

\* A tab starts without a request and without news for the device.
LEMMA StartInv == ASSUME Inv, NEW t \in Tabs, Start(t) PROVE Inv'
  <1> DEFINE x == [Idle EXCEPT !.phase = "STARTED", !.permit = held]
  <1>0. TypeOK /\ QueueIsReal /\ OneRequestPerTab
    BY DEF Inv
  <1>1. /\ UNCHANGED << setup, device, lock, online, requests, permits, server >>
        /\ tab' = [tab EXCEPT ![t] = x] /\ tab[t].phase = "IDLE"
    BY DEF Start
  <1>2. LocalGrows /\ DeviceTypes' /\ QueueIsReal' /\ lock' \in Tabs \cup {NoTab}
    BY <1>0, <1>1 DEF LocalGrows, DeviceTypes, QueueIsReal, TypeOK, device, server
  <1>3. held \in Nat
    BY <1>0, SyncConstants DEF TypeOK
  <1>4. /\ x \in TabStates /\ DOMAIN x.batch = {} /\ Truthful(x.answer) /\ DOMAIN x.answer = {}
    BY <1>3, EmptyFacts DEF TabStates, Idle, Phases, Truthful
  <1>5. \A r \in requests' : r.tab # t /\ \E q \in requests : r = q \/ r = [q EXCEPT !.tab = NoTab]
    BY <1>0, <1>1 DEF OneRequestPerTab
  <1> HIDE DEF x
  <1>6. Wire'
    BY <1>1, <1>2, <1>4, <1>5, TabMoves
  <1>7. expiring' \subseteq Orders
    BY <1>0, <1>1 DEF TypeOK, device
  <1> QED
    BY <1>1, <1>2, <1>6, <1>7, DeviceStepInv DEF device

LEMMA EndsInv == ASSUME Inv, NEW t \in Tabs, Stop(t) \/ Finish(t) PROVE Inv'
  <1>0. TypeOK /\ QueueIsReal /\ OneRequestPerTab
    BY DEF Inv
  <1>1. /\ UNCHANGED << setup, device, online, requests, permits, server >>
        /\ tab' = [tab EXCEPT ![t] = Idle] /\ tab[t].phase # "SENT"
        /\ lock' \in Tabs \cup {NoTab}
    BY <1>0, ReleaseFacts DEF Stop, Finish, TypeOK
  <1>2. LocalGrows /\ DeviceTypes' /\ QueueIsReal' /\ expiring' \subseteq Orders
    BY <1>0, <1>1 DEF LocalGrows, DeviceTypes, QueueIsReal, TypeOK, device, server
  <1>3. \A r \in requests' : r.tab # t /\ \E q \in requests : r = q \/ r = [q EXCEPT !.tab = NoTab]
    BY <1>0, <1>1 DEF OneRequestPerTab
  <1>4. Wire'
    BY <1>1, <1>2, <1>3, IdleTab
  <1> QED
    BY <1>1, <1>2, <1>4, DeviceStepInv DEF device

LEMMA LoadInv == ASSUME Inv, NEW t \in Tabs, Load(t) PROVE Inv'
  <1> DEFINE b == [k \in Selected |-> local[k]]
             x == [Idle EXCEPT !.phase = "LOADED", !.permit = tab[t].permit, !.batch = b]
  <1>0. TypeOK /\ QueueIsReal /\ OneRequestPerTab /\ WireTypes
    BY DEF Inv
  <1>1. /\ UNCHANGED << setup, device, faults, online, requests, permits, server >>
        /\ tab' = [tab EXCEPT ![t] = x] /\ tab[t].phase = "STARTED" /\ lock' = t
    BY DEF Load
  <1>2. LocalGrows /\ DeviceTypes' /\ QueueIsReal' /\ expiring' \subseteq Orders
    BY <1>0, <1>1 DEF LocalGrows, DeviceTypes, QueueIsReal, TypeOK, device, server
  <1>3. \A k \in Selected : k \in Orders /\ local[k] \in Payloads /\ local[k].state \in States
    BY <1>0 DEF Selected, TypeOK
  <1>4. b \in SentBatches
    <2>1. Selected \in SUBSET Orders /\ b \in [Selected -> Payloads]
      BY <1>3
    <2> QED
      BY <2>1, BatchFacts
  <1>5. tab[t].permit \in Nat
    BY <1>0 DEF WireTypes, TabStates
  <1>6. x \in TabStates /\ x.batch = b /\ x.answer = << >>
    <2> HIDE DEF b
    <2> QED
      BY <1>4, <1>5, EmptyFacts DEF TabStates, Idle, Phases
  <1>7. \A k \in DOMAIN x.batch : /\ x.batch[k].state \in States
                                  /\ local[k].state # "NONE" /\ x.batch[k].era = local[k].era
    <2> HIDE DEF x
    <2> QED
      BY <1>3, <1>6, StateNames
  <1>8. \A r \in requests' : r.tab # t /\ \E q \in requests : r = q \/ r = [q EXCEPT !.tab = NoTab]
    BY <1>0, <1>1 DEF OneRequestPerTab
  <1>9. Truthful(x.answer) /\ DOMAIN x.answer \subseteq DOMAIN x.batch
    <2> HIDE DEF x
    <2> QED
      BY <1>6, EmptyFacts DEF Truthful
  <1> HIDE DEF x
  <1>10. Wire'
    BY <1>1, <1>2, <1>6, <1>7, <1>8, <1>9, TabMoves
  <1> QED
    BY <1>1, <1>2, <1>10, DeviceStepInv DEF device

LEMMA MarkAndSendInv == ASSUME Inv, NEW t \in Tabs, MarkAndSend(t) PROVE Inv'
  <1> DEFINE b == tab[t].batch
             new == [tab |-> t, permit |-> tab[t].permit, batch |-> b, left |-> DOMAIN b,
                     out |-> << >>, thrown |-> NoOrder, revoked |-> FALSE, read |-> FALSE]
  <1>0. TypeOK /\ WireTypes /\ OneRequestPerTab /\ BatchesAreKnown /\ AnswersAreTrue
    BY DEF Inv
  <1>1. /\ UNCHANGED << setup, cash, expiring, held, lock, faults, online, permits, server >>
        /\ tab' = [tab EXCEPT ![t].phase = "SENT"] /\ tab[t].phase = "LOADED"
        /\ requests' = requests \cup {new} /\ Stamp(DOMAIN tab[t].batch, "PROCESSING", 0)
    BY DEF MarkAndSend
  <1>2. LocalGrows /\ DeviceTypes' /\ QueueIsReal'
    BY <1>1, StampFacts
  <1>3. /\ tab' \in [Tabs -> TabStates]
        /\ tab'[t].phase = "SENT" /\ tab'[t].batch = b /\ tab'[t].answer = tab[t].answer
        /\ \A u \in Tabs : u # t => tab'[u] = tab[u]
    <2>1. tab \in [Tabs -> TabStates] /\ tab[t] \in TabStates
      BY <1>0 DEF WireTypes
    <2> QED
      BY <1>1, <2>1 DEF TabStates, Phases
  <1>4. /\ \A u \in Tabs : tab[u].batch \in SentBatches /\ DOMAIN tab[u].batch \subseteq Orders
        /\ tab[t].permit \in Nat
        /\ \A r \in requests : r \in Requests /\ r.batch \in SentBatches /\ DOMAIN r.batch \subseteq Orders
    BY <1>0, BatchFacts DEF WireTypes, TabStates, Requests
  <1>5. /\ new \in Requests /\ new.tab = t /\ new.batch = b /\ new.left = DOMAIN b
        /\ new.out = << >> /\ new.thrown = NoOrder
    <2>1. b \in SentBatches /\ DOMAIN b \in SUBSET Orders
      BY <1>4
    <2> HIDE DEF b
    <2> QED
      BY <1>4, <2>1, EmptyFacts DEF Requests
  <1> HIDE DEF new, b
  <1>6. WireTypes'
    BY <1>0, <1>1, <1>3, <1>5 DEF WireTypes
  <1>7. \A r \in requests : r.tab # t
    BY <1>0, <1>1 DEF OneRequestPerTab
  <1>8. OneRequestPerTab'
    <2>1. \A r \in requests' : r.tab \in Tabs => tab'[r.tab].phase = "SENT" /\ r.batch = tab'[r.tab].batch
      BY <1>0, <1>1, <1>3, <1>5, <1>7 DEF OneRequestPerTab
    <2>2. \A r, q \in requests' : r.tab = q.tab /\ r.tab \in Tabs => r = q
      BY <1>0, <1>1, <1>5, <1>7 DEF OneRequestPerTab
    <2> QED
      BY <2>1, <2>2 DEF OneRequestPerTab
  <1>9. BatchesAreKnown'
    <2>1. \A u \in Tabs : tab'[u].batch = tab[u].batch
      BY <1>3 DEF b
    <2>2. \A u \in Tabs : Known(tab[u].batch)'
      BY <1>0, <1>2, <1>4, <2>1 DEF BatchesAreKnown, Known, LocalGrows
    <2>3. \A r \in requests' : r \in requests \/ r.batch = tab[t].batch
      BY <1>1, <1>5 DEF b
    <2>4. \A r \in requests' : \A k \in DOMAIN r.batch :
              r.batch[k].state \in States /\ local'[k].state # "NONE" /\ r.batch[k].era = local'[k].era
      BY <1>0, <1>2, <1>4, <2>3 DEF BatchesAreKnown, Known, LocalGrows
    <2> QED
      BY <2>2, <2>4 DEF BatchesAreKnown, Known
  <1>10. AnswersAreTrue'
    <2>0. UNCHANGED << refused, receipts >>
      BY <1>1 DEF server
    <2>1. \A u \in Tabs : tab'[u].batch = tab[u].batch /\ tab'[u].answer = tab[u].answer
      BY <1>3 DEF b
    <2>2. \A u \in Tabs : (Truthful(tab[u].answer) /\ DOMAIN tab[u].answer \subseteq DOMAIN tab[u].batch)'
      BY <1>0, <2>0, <2>1 DEF AnswersAreTrue, Truthful
    <2>3. \A r \in requests' : r \in requests \/ r = new
      BY <1>1
    <2>4. \A r \in requests' :
             /\ \A k \in DOMAIN r.out : IF r.out[k] = "REJECTED" THEN k \in refused' ELSE k \in receipts'
             /\ DOMAIN r.out \subseteq DOMAIN r.batch
             /\ r.left \subseteq DOMAIN r.batch /\ r.thrown \in r.left \cup {NoOrder}
      BY <1>0, <1>5, <2>0, <2>3, EmptyFacts DEF AnswersAreTrue, Truthful
    <2> QED
      BY <2>2, <2>4 DEF AnswersAreTrue, Truthful
  <1>11. lock' \in Tabs \cup {NoTab} /\ expiring' \subseteq Orders
    BY <1>0, <1>1 DEF TypeOK
  <1> QED
    BY <1>1, <1>2, <1>6, <1>8, <1>9, <1>10, <1>11, DeviceStepInv DEF Wire

LEMMA FailedUploadInv ==
    ASSUME Inv, NEW t \in Tabs, NetworkFails(t) \/ ErrorArrives(t) \/ CatchPurge(t)
    PROVE  Inv'
  <1>0. TypeOK /\ OneRequestPerTab
    BY DEF Inv
  <1>1. /\ UNCHANGED << setup, cash, expiring, held, online, permits, server >> /\ MarkFailed(t)
        /\ \A r \in requests' : r \in Disowned(t)
    BY <1>0 DEF NetworkFails, ErrorArrives, CatchPurge, Disowned, OneRequestPerTab
  <1>2. LocalGrows /\ DeviceTypes' /\ QueueIsReal'
    BY <1>1, StampFacts DEF MarkFailed
  <1>3. Wire'
    BY <1>1, <1>2, DisownedFacts, IdleTab DEF MarkFailed
  <1>4. lock' \in Tabs \cup {NoTab}
    BY <1>1, ReleaseFacts DEF MarkFailed
  <1>5. expiring' \subseteq Orders
    BY <1>0, <1>1 DEF TypeOK
  <1> QED
    BY <1>1, <1>2, <1>3, <1>4, <1>5, DeviceStepInv

LEMMA CrashTabInv == ASSUME Inv, NEW t \in Tabs, CrashTab(t) PROVE Inv'
  <1>0. TypeOK /\ QueueIsReal
    BY DEF Inv
  <1>1. /\ UNCHANGED << setup, device, online, permits, server >>
        /\ tab' = [tab EXCEPT ![t] = Idle] /\ requests' = Disowned(t)
    BY DEF CrashTab
  <1>2. LocalGrows /\ DeviceTypes' /\ QueueIsReal' /\ expiring' \subseteq Orders
    BY <1>0, <1>1 DEF LocalGrows, DeviceTypes, QueueIsReal, TypeOK, device, server
  <1>3. Wire'
    BY <1>1, <1>2, DisownedFacts, IdleTab
  <1>4. lock' \in Tabs \cup {NoTab}
    BY <1>0, ReleaseFacts DEF CrashTab, TypeOK
  <1> QED
    BY <1>1, <1>2, <1>3, <1>4, DeviceStepInv DEF device

LEMMA AnswerArrivesInv == ASSUME Inv, NEW t \in Tabs, AnswerArrives(t) PROVE Inv'
  <1>0. /\ TypeOK /\ QueueIsReal /\ WireTypes /\ OneRequestPerTab /\ BatchesAreKnown
        /\ AnswersAreTrue
    BY DEF Inv
  <1>1. PICK r \in requests :
          /\ r.tab = t
          /\ tab' = [tab EXCEPT ![t].phase = "ANSWERED", ![t].answer = r.out]
          /\ requests' = requests \ {r}
    BY DEF AnswerArrives
  <1>2. UNCHANGED << setup, device, lock, faults, online, permits, server >>
    BY DEF AnswerArrives
  <1>3. /\ LocalGrows /\ DeviceTypes' /\ QueueIsReal' /\ lock' \in Tabs \cup {NoTab}
        /\ expiring' \subseteq Orders
    BY <1>0, <1>2 DEF LocalGrows, DeviceTypes, QueueIsReal, TypeOK, device, server
  <1> DEFINE x == [tab[t] EXCEPT !.phase = "ANSWERED", !.answer = r.out]
  <1>4. tab \in [Tabs -> TabStates] /\ tab[t] \in TabStates /\ r.out \in Answers
    BY <1>0 DEF WireTypes, Requests
  <1>5. x \in TabStates /\ x.batch = tab[t].batch /\ x.answer = r.out
    BY <1>4 DEF TabStates, Phases
  <1>6. tab' = [tab EXCEPT ![t] = x]
    BY <1>1, <1>4
  <1> HIDE DEF x
  <1>7. \A k \in DOMAIN x.batch : /\ x.batch[k].state \in States
                                  /\ local[k].state # "NONE" /\ x.batch[k].era = local[k].era
    BY <1>0, <1>5 DEF BatchesAreKnown, Known
  <1>8. Truthful(x.answer) /\ DOMAIN x.answer \subseteq DOMAIN x.batch
    BY <1>0, <1>1, <1>5 DEF AnswersAreTrue, OneRequestPerTab
  <1>9. \A q \in requests' : q.tab # t /\ \E p \in requests : q = p \/ q = [p EXCEPT !.tab = NoTab]
    BY <1>0, <1>1 DEF OneRequestPerTab
  <1>10. Wire'
    BY <1>2, <1>3, <1>5, <1>6, <1>7, <1>8, <1>9, TabMoves
  <1> QED
    BY <1>2, <1>3, <1>10, DeviceStepInv DEF device

\* An answer settles the row as the server settled the order.
LEMMA StatusFacts ==
    ASSUME NEW outcome \in Outcomes
    PROVE  /\ LocalStatus(outcome) \in Synced \cup {"REJECTED"}
           /\ LocalStatus(outcome) \in SyncStates
           /\ LocalStatus(outcome) = "REJECTED" <=> outcome = "REJECTED"
  BY DEF LocalStatus, Outcomes, Synced, SyncStates

\* A tab goes on with its batch and its answer.
LEMMA SameBatch ==
    ASSUME Inv, UNCHANGED server, LocalGrows, NEW t \in Tabs, NEW phase \in Phases,
           tab' = [tab EXCEPT ![t].phase = phase],
           \A r \in requests' : /\ r.tab # t
                                /\ \E q \in requests : r = q \/ r = [q EXCEPT !.tab = NoTab]
    PROVE  Wire'
  <1> DEFINE x == [tab[t] EXCEPT !.phase = phase]
  <1>0. WireTypes /\ BatchesAreKnown /\ AnswersAreTrue
    BY DEF Inv
  <1>1. tab \in [Tabs -> TabStates] /\ tab[t] \in TabStates
    BY <1>0 DEF WireTypes
  <1>2. x \in TabStates /\ x.batch = tab[t].batch /\ x.answer = tab[t].answer
    BY <1>1 DEF TabStates
  <1>3. tab' = [tab EXCEPT ![t] = x]
    BY <1>1
  <1> HIDE DEF x
  <1>4. \A k \in DOMAIN x.batch : /\ x.batch[k].state \in States
                                  /\ local[k].state # "NONE" /\ x.batch[k].era = local[k].era
    BY <1>0, <1>2 DEF BatchesAreKnown, Known
  <1>5. Truthful(x.answer) /\ DOMAIN x.answer \subseteq DOMAIN x.batch
    BY <1>0, <1>2 DEF AnswersAreTrue
  <1> QED
    BY <1>2, <1>3, <1>4, <1>5, TabMoves

LEMMA ApplyInv == ASSUME Inv, NEW t \in Tabs, Apply(t) PROVE Inv'
  <1> DEFINE answer == tab[t].answer
  <1>0. /\ TypeOK /\ QueueIsReal /\ WireTypes /\ OneRequestPerTab /\ BatchesAreKnown
        /\ AnswersAreTrue
    BY DEF Inv
  <1>1. /\ UNCHANGED << setup, cash, held, lock, faults, online, requests, permits, server >>
        /\ tab[t].phase = "ANSWERED" /\ tab' = [tab EXCEPT ![t].phase = "APPLIED"]
        /\ expiring' \subseteq Orders
        /\ queue' = [k \in Orders |-> IF k \in DOMAIN answer THEN LocalStatus(answer[k])
                                                              ELSE queue[k]]
        /\ local' = [k \in Orders |->
                      IF k \in DOMAIN answer /\ local[k].state # "PURGED"
                      THEN [local[k] EXCEPT !.sync = LocalStatus(answer[k])] ELSE local[k]]
        /\ due' = [k \in Orders |-> due[k] \/ k \in DOMAIN answer]
    BY DEF Apply
  <1>2. /\ Truthful(answer)
        /\ \A k \in DOMAIN answer : k \in Orders /\ answer[k] \in Outcomes
    BY <1>0, AnswerFacts DEF AnswersAreTrue, WireTypes, TabStates
  <1> HIDE DEF answer
  <1>3. due' \in [Orders -> BOOLEAN]
    BY <1>1, Zenon
  <1>4. queue' \in [Orders -> SyncStates \cup {"NONE"}]
    BY <1>0, <1>1, <1>2, StatusFacts DEF TypeOK
  <1>5. QueueIsReal'
    <2>1. UNCHANGED << receipts, refused >>
      BY <1>1 DEF server
    <2>2. ASSUME NEW k \in Orders
          PROVE  /\ queue'[k] \in Synced => k \in receipts
                 /\ queue'[k] = "REJECTED" => k \in refused
      <3>1. CASE k \in DOMAIN answer
        <4>1. queue'[k] = LocalStatus(answer[k]) /\ answer[k] \in Outcomes
          BY <1>1, <1>2, <3>1
        <4>2. "REJECTED" \notin Synced
          BY DEF Synced
        <4> QED
          BY <1>2, <3>1, <4>1, <4>2, StatusFacts DEF Truthful
      <3>2. CASE k \notin DOMAIN answer
        BY <1>0, <1>1, <3>2 DEF QueueIsReal
      <3> QED
        BY <3>1, <3>2
    <2> QED
      BY <2>1, <2>2 DEF QueueIsReal
  <1>6. local' \in [Orders -> Payloads] /\ LocalGrows
    <2>1. ASSUME NEW k \in Orders
          PROVE  /\ local'[k] \in Payloads /\ local'[k].state = local[k].state
                 /\ local'[k].era = local[k].era
      <3>1. local[k] \in Payloads
        BY <1>0 DEF TypeOK
      <3>2. \/ local'[k] = local[k]
            \/ \E s \in SyncStates : local'[k] = [local[k] EXCEPT !.sync = s]
        BY <1>1, <1>2, StatusFacts
      <3> QED
        BY <3>1, <3>2 DEF Payloads
    <2>2. local' = [k \in Orders |-> local'[k]]
      BY <1>1
    <2> QED
      BY <2>1, <2>2 DEF LocalGrows
  <1>7. \A r \in requests' : r.tab # t /\ \E q \in requests : r = q \/ r = [q EXCEPT !.tab = NoTab]
    BY <1>0, <1>1 DEF OneRequestPerTab
  <1>8. Wire'
    BY <1>0, <1>1, <1>6, <1>7, SameBatch DEF Phases
  <1>9. lock' \in Tabs \cup {NoTab}
    BY <1>0, <1>1 DEF TypeOK
  <1> QED
    BY <1>1, <1>3, <1>4, <1>5, <1>6, <1>8, <1>9, DeviceStepInv DEF DeviceTypes

\* purgeExpiredOfflinePayloads forgets one order.
LEMMA PurgeInv ==
    ASSUME Inv, NEW t \in Tabs, NEW k \in Orders, PurgeThrows(t, k) \/ PurgeWhenEmpty(t, k)
    PROVE  Inv'
  <1>0. TypeOK /\ QueueIsReal /\ OneRequestPerTab
    BY DEF Inv
  <1>1. /\ UNCHANGED << setup, queue, due, cash, held, lock, faults, online, requests, permits, server >>
        /\ local' = [local EXCEPT ![k].state = "PURGED"] /\ expiring' = expiring \ {k}
        /\ tab[t].phase # "SENT"
        /\ tab' = [tab EXCEPT ![t] = Idle] \/ tab' = [tab EXCEPT ![t].phase = "THROWN"]
    BY DEF PurgeThrows, PurgeWhenEmpty, PurgeFirst
  <1>2. local \in [Orders -> Payloads] /\ local[k] \in Payloads
    BY <1>0 DEF TypeOK
  <1> DEFINE p == [local[k] EXCEPT !.state = "PURGED"]
  <1>3. p \in Payloads /\ p.state # "NONE" /\ p.era = local[k].era
    BY <1>2 DEF Payloads
  <1>4. local' = [local EXCEPT ![k] = p]
    BY <1>1, <1>2
  <1> HIDE DEF p
  <1>5. local' \in [Orders -> Payloads] /\ LocalGrows
    BY <1>2, <1>3, <1>4 DEF LocalGrows
  <1>6. DeviceTypes' /\ QueueIsReal' /\ expiring' \subseteq Orders /\ lock' \in Tabs \cup {NoTab}
    BY <1>0, <1>1, <1>5 DEF DeviceTypes, QueueIsReal, TypeOK, server
  <1>7. \A r \in requests' : r.tab # t /\ \E q \in requests : r = q \/ r = [q EXCEPT !.tab = NoTab]
    BY <1>0, <1>1 DEF OneRequestPerTab
  <1>8. Wire'
    BY <1>1, <1>5, <1>7, IdleTab, SameBatch DEF Phases
  <1> QED
    BY <1>1, <1>5, <1>6, <1>8, DeviceStepInv

-----------------------------------------------------------------------------
(* Steps of the server.                                                    *)
ServerStates ==
    /\ order \in [Orders -> States \cup {"NONE", "ONLINE"}]
    /\ open \in [Orders -> SUBSET Kinds]
    /\ flag \in [Orders -> {"NONE", "OPEN", "RESOLVED"}]

LEMMA ServerStepInv ==
    ASSUME Inv, UNCHANGED << setup, device, tab, lock, permits >>, ServerGrows,
           online' \in [Orders -> {"NOT_SENT", "IN_FLIGHT", "OVER"}],
           Wire', (ServerTypes /\ Ledgers /\ ServerStates)'
    PROVE  Inv'
  <1>1. (WireTypes /\ AnswersAreTrue)'
    BY DEF Wire
  <1>2. (/\ \A t \in Tabs : /\ tab[t].phase \in Phases
                            /\ DOMAIN tab[t].batch \subseteq Orders
                            /\ DOMAIN tab[t].answer \subseteq DOMAIN tab[t].batch
         /\ \A r \in requests : /\ r.left \subseteq DOMAIN r.batch
                                /\ \A k \in DOMAIN r.out : r.out[k] \in Outcomes
                                /\ r.thrown \in r.left \cup {NoOrder})'
    BY <1>1, WireTypesSuffice, PTL
  <1>3. (\A k \in Orders : inbox[k].status \in {"NONE", "PROCESSED", "REJECTED"})'
    BY DEF ServerTypes
  <1>4. TypeOK'
    BY <1>2, <1>3 DEF Inv, TypeOK, ServerStates, device, permits
  <1>5. QueueIsReal'
    BY DEF Inv, QueueIsReal, ServerGrows, device
  <1> QED
    BY <1>4, <1>5 DEF Inv, Wire

\* A request of the server: what is known of it.
LEMMA RequestFacts ==
    ASSUME Inv, NEW r \in requests
    PROVE  /\ r \in Requests /\ Known(r.batch) /\ DOMAIN r.batch \subseteq Orders
           /\ Truthful(r.out) /\ DOMAIN r.out \subseteq DOMAIN r.batch
           /\ r.left \subseteq DOMAIN r.batch /\ r.thrown \in r.left \cup {NoOrder}
  BY BatchFacts DEF Inv, WireTypes, BatchesAreKnown, AnswersAreTrue, Requests

\* The server works on one request, for the same tab and the same batch.
LEMMA ReplaceRequest ==
    ASSUME Inv, UNCHANGED << local, tab >>, ServerGrows, NEW r \in requests,
           NEW Q \in SUBSET Requests, requests' = (requests \ {r}) \cup Q,
           \A p, q \in Q : p = q,
           \A q \in Q :
             /\ q.tab = r.tab /\ q.batch = r.batch
             /\ \A k \in DOMAIN q.out : IF q.out[k] = "REJECTED" THEN k \in refused' ELSE k \in receipts'
             /\ DOMAIN q.out \subseteq DOMAIN q.batch
             /\ q.left \subseteq DOMAIN q.batch /\ q.thrown \in q.left \cup {NoOrder}
    PROVE  Wire'
  <1>0. WireTypes /\ OneRequestPerTab /\ BatchesAreKnown /\ AnswersAreTrue
    BY DEF Inv
  <1>1. WireTypes'
    BY <1>0 DEF WireTypes
  <1>2. OneRequestPerTab'
    <2>1. \A q \in requests' : q.tab \in Tabs => tab'[q.tab].phase = "SENT" /\ q.batch = tab'[q.tab].batch
      BY <1>0 DEF OneRequestPerTab
    <2>2. \A p, q \in requests' : p.tab = q.tab /\ p.tab \in Tabs => p = q
      BY <1>0 DEF OneRequestPerTab
    <2> QED
      BY <2>1, <2>2 DEF OneRequestPerTab
  <1>3. BatchesAreKnown'
    BY <1>0 DEF BatchesAreKnown, Known
  <1>4. AnswersAreTrue'
    <2>1. \A t \in Tabs : (Truthful(tab[t].answer) /\ DOMAIN tab[t].answer \subseteq DOMAIN tab[t].batch)'
      BY <1>0 DEF AnswersAreTrue, Truthful, ServerGrows
    <2>2. ASSUME NEW q \in requests'
          PROVE  /\ \A k \in DOMAIN q.out : IF q.out[k] = "REJECTED" THEN k \in refused' ELSE k \in receipts'
                 /\ DOMAIN q.out \subseteq DOMAIN q.batch
                 /\ q.left \subseteq DOMAIN q.batch /\ q.thrown \in q.left \cup {NoOrder}
      BY <1>0 DEF AnswersAreTrue, Truthful, ServerGrows
    <2> QED
      BY <2>1, <2>2 DEF AnswersAreTrue, Truthful
  <1> QED
    BY <1>1, <1>2, <1>3, <1>4 DEF Wire

\* The answer for one record.
LEMMA ReplyWire ==
    ASSUME Inv, UNCHANGED << local, tab >>, ServerGrows, NEW r \in requests, NEW k \in r.left,
           NEW outcome \in Outcomes, Reply(r, k, outcome),
           IF outcome = "REJECTED" THEN k \in refused' ELSE k \in receipts'
    PROVE  Wire'
  <1> DEFINE out == [j \in DOMAIN r.out \cup {k} |-> IF j = k THEN outcome ELSE r.out[j]]
             q == [r EXCEPT !.left = @ \ {k}, !.thrown = NoOrder, !.out = out]
  <1>1. /\ r \in Requests /\ DOMAIN r.batch \subseteq Orders /\ Truthful(r.out)
        /\ DOMAIN r.out \subseteq DOMAIN r.batch /\ r.left \subseteq DOMAIN r.batch
    BY RequestFacts
  <1>2. DOMAIN out = DOMAIN r.out \cup {k} /\ DOMAIN out \subseteq DOMAIN r.batch
    BY <1>1
  <1>3. out \in Answers
    <2>1. r.out \in Answers
      BY <1>1 DEF Requests
    <2>2. \A j \in DOMAIN r.out : r.out[j] \in Outcomes
      BY <2>1, AnswerFacts
    <2>3. DOMAIN out \in SUBSET Orders
      BY <1>1, <1>2
    <2>4. out \in [DOMAIN out -> Outcomes]
      BY <1>2, <2>2
    <2> QED
      BY <2>3, <2>4, AnswerFacts
  <1>4. \A j \in DOMAIN out : IF out[j] = "REJECTED" THEN j \in refused' ELSE j \in receipts'
    BY <1>1 DEF Truthful, ServerGrows
  <1> HIDE DEF out
  <1>5. /\ q \in Requests /\ q.tab = r.tab /\ q.batch = r.batch /\ q.out = out
        /\ q.left = r.left \ {k} /\ q.thrown = NoOrder
    BY <1>1, <1>3 DEF Requests
  <1> DEFINE Q == {q}
  <1>6. requests' = (requests \ {r}) \cup Q
    BY DEF Reply, out
  <1> HIDE DEF q
  <1>7. Q \in SUBSET Requests /\ \A p \in Q : p = q
    BY <1>5
  <1> HIDE DEF Q
  <1>8. \A p \in Q :
          /\ p.tab = r.tab /\ p.batch = r.batch
          /\ \A j \in DOMAIN p.out : IF p.out[j] = "REJECTED" THEN j \in refused' ELSE j \in receipts'
          /\ DOMAIN p.out \subseteq DOMAIN p.batch
          /\ p.left \subseteq DOMAIN p.batch /\ p.thrown \in p.left \cup {NoOrder}
    BY <1>1, <1>2, <1>4, <1>5, <1>7
  <1> QED
    BY <1>6, <1>7, <1>8, ReplaceRequest

\* The steps that write nothing on the server.
LEMMA ReadingInv ==
    ASSUME Inv, UNCHANGED << setup, device, tab, lock, online, permits, server >>, Wire'
    PROVE  Inv'
  <1>1. /\ LocalGrows /\ DeviceTypes' /\ QueueIsReal' /\ lock' \in Tabs \cup {NoTab}
        /\ expiring' \subseteq Orders
    BY DEF Inv, LocalGrows, DeviceTypes, QueueIsReal, TypeOK, device, server
  <1> QED
    BY <1>1, DeviceStepInv DEF device

LEMMA GoneInv ==
    ASSUME Inv, NEW r \in requests, requests' = requests \ {r},
           UNCHANGED << setup, device, tab, lock, online, permits, server >>
    PROVE  Inv'
  <1> DEFINE Q == {}
  <1>1. ServerGrows /\ UNCHANGED << local, tab >>
    BY DEF ServerGrows, server, device
  <1>2. Q \in SUBSET Requests /\ requests' = (requests \ {r}) \cup Q /\ \A q \in Q : FALSE
    OBVIOUS
  <1> HIDE DEF Q
  <1>3. Wire'
    BY <1>1, <1>2, ReplaceRequest
  <1> QED
    BY <1>3, ReadingInv

\* A request changes nothing but what it has read or thrown.
LEMMA NotedInv ==
    ASSUME Inv, NEW r \in requests, NEW b \in BOOLEAN, NEW c \in BOOLEAN,
           NEW thrown \in r.left \cup {NoOrder},
           requests' = (requests \ {r}) \cup {[r EXCEPT !.read = b, !.revoked = c, !.thrown = thrown]},
           UNCHANGED << setup, device, tab, lock, online, permits, server >>
    PROVE  Inv'
  <1> DEFINE q == [r EXCEPT !.read = b, !.revoked = c, !.thrown = thrown]
             Q == {q}
  <1>1. ServerGrows /\ UNCHANGED << local, tab, receipts, refused >>
    BY DEF ServerGrows, server, device
  <1>2. /\ r \in Requests /\ DOMAIN r.batch \subseteq Orders /\ Truthful(r.out)
        /\ DOMAIN r.out \subseteq DOMAIN r.batch /\ r.left \subseteq DOMAIN r.batch
    BY RequestFacts
  <1>3. thrown \in Orders \cup {NoOrder}
    BY <1>2
  <1>4. /\ q \in Requests /\ q.tab = r.tab /\ q.batch = r.batch /\ q.out = r.out
        /\ q.left = r.left /\ q.thrown = thrown
    BY <1>2, <1>3 DEF Requests
  <1>5. requests' = (requests \ {r}) \cup Q
    OBVIOUS
  <1> HIDE DEF q
  <1>6. Q \in SUBSET Requests /\ \A p \in Q : p = q
    BY <1>4
  <1> HIDE DEF Q
  <1>7. \A p \in Q :
          /\ p.tab = r.tab /\ p.batch = r.batch
          /\ \A k \in DOMAIN p.out : IF p.out[k] = "REJECTED" THEN k \in refused' ELSE k \in receipts'
          /\ DOMAIN p.out \subseteq DOMAIN p.batch
          /\ p.left \subseteq DOMAIN p.batch /\ p.thrown \in p.left \cup {NoOrder}
    BY <1>1, <1>2, <1>4, <1>6 DEF Truthful
  <1>8. Wire'
    BY <1>1, <1>5, <1>6, <1>7, ReplaceRequest
  <1> QED
    BY <1>8, ReadingInv

LEMMA ReadContextInv == ASSUME Inv, NEW r \in requests, ReadContext(r) PROVE Inv'
  <1> DEFINE late == window[r.permit].till # 0
  <1>1. UNCHANGED << setup, device, tab, lock, faults, online, permits, server >>
    BY DEF ReadContext
  <1>2. r \in Requests /\ r.thrown \in r.left \cup {NoOrder}
    BY RequestFacts
  <1>3. CASE enabled
    <2>1. requests' = (requests \ {r}) \cup {[r EXCEPT !.read = TRUE, !.revoked = late]}
      BY <1>3 DEF ReadContext
    <2> HIDE DEF late
    <2>2. late \in BOOLEAN
      BY DEF late
    <2>3. [r EXCEPT !.read = TRUE, !.revoked = late]
            = [r EXCEPT !.read = TRUE, !.revoked = late, !.thrown = r.thrown]
      BY <1>2 DEF Requests
    <2> QED
      BY <1>1, <1>2, <2>1, <2>2, <2>3, NotedInv
  <1>4. CASE ~enabled
    <2>1. requests' = requests \ {r}
      BY <1>4 DEF ReadContext
    <2> QED
      BY <1>1, <2>1, GoneInv
  <1> QED
    BY <1>3, <1>4

LEMMA ThrowInv == ASSUME Inv, NEW r \in requests, NEW k \in Orders, Throw(r, k) PROVE Inv'
  <1>1. /\ UNCHANGED << setup, device, tab, lock, faults, online, permits, server >>
        /\ k \in r.left /\ requests' = (requests \ {r}) \cup {[r EXCEPT !.thrown = k]}
    BY DEF Throw, Working
  <1>2. r \in Requests
    BY RequestFacts
  <1>3. r.read \in BOOLEAN /\ r.revoked \in BOOLEAN
    BY <1>2 DEF Requests
  <1>4. [r EXCEPT !.thrown = k] = [r EXCEPT !.read = r.read, !.revoked = r.revoked, !.thrown = k]
    BY <1>2 DEF Requests
  <1> QED
    BY <1>1, <1>3, <1>4, NotedInv

LEMMA ReplayInv == ASSUME Inv, NEW r \in requests, NEW k \in Orders, Replay(r, k) PROVE Inv'
  <1> DEFINE outcome == IF inbox[k].status = "REJECTED" THEN "REJECTED" ELSE "DUPLICATE"
  <1>1. /\ UNCHANGED << setup, device, tab, lock, faults, online, permits, server >>
        /\ k \in r.left /\ inbox[k].status # "NONE" /\ Reply(r, k, outcome)
    BY DEF Replay, Working
  <1>2. ServerGrows /\ UNCHANGED << local, tab, refused, receipts >>
    BY <1>1 DEF ServerGrows, server, device
  <1>3. outcome \in Outcomes /\ IF outcome = "REJECTED" THEN k \in refused' ELSE k \in receipts'
    BY <1>1, <1>2 DEF Outcomes, Inv, Ledgers, TypeOK
  <1> HIDE DEF outcome
  <1>4. Wire'
    BY <1>1, <1>2, <1>3, ReplyWire
  <1> QED
    BY <1>1, <1>4, ReadingInv

\* The steps that write.
LEMMA ReconcileInv == ASSUME Inv, NEW r \in requests, NEW k \in Orders, Reconcile(r, k) PROVE Inv'
  <1>0. TypeOK /\ ServerTypes /\ Ledgers
    BY DEF Inv
  <1>1. /\ UNCHANGED << setup, device, tab, lock, faults, online, permits,
                        order, open, flag, refused, created, takenAt, permitUsed >>
        /\ k \in r.left /\ Reply(r, k, "DUPLICATE") /\ order[k] = "ONLINE"
        /\ receipts' = receipts \cup {k}
        /\ inbox' = [inbox EXCEPT ![k] = [status |-> "PROCESSED", hash |-> r.batch[k]]]
    BY DEF Reconcile, Working
  <1>2. ServerGrows /\ UNCHANGED << local, tab >>
    BY <1>1 DEF ServerGrows, device
  <1>3. "DUPLICATE" \in Outcomes /\ k \in receipts'
    BY <1>1 DEF Outcomes
  <1>4. Wire'
    BY <1>1, <1>2, <1>3, ReplyWire
  <1>5. r.batch[k] \in Payloads
    BY <1>1, RequestFacts, BatchFacts DEF Requests
  <1>6. ServerTypes'
    BY <1>0, <1>1, <1>5 DEF ServerTypes
  <1>7. Ledgers'
    BY <1>0, <1>1, <1>2 DEF Ledgers, ServerTypes
  <1>8. ServerStates' /\ online' \in [Orders -> {"NOT_SENT", "IN_FLIGHT", "OVER"}]
    BY <1>0, <1>1 DEF ServerStates, TypeOK
  <1> QED
    BY <1>1, <1>2, <1>4, <1>6, <1>7, <1>8, ServerStepInv

LEMMA ImportInv == ASSUME Inv, NEW r \in requests, NEW k \in Orders, Import(r, k) PROVE Inv'
  <1>0. TypeOK /\ ServerTypes /\ Ledgers
    BY DEF Inv
  <1>1. /\ UNCHANGED << setup, device, tab, lock, faults, online, permits, refused >>
        /\ k \in r.left /\ order[k] = "NONE"
        /\ order' = [order EXCEPT ![k] = r.batch[k].state]
        /\ created' = [created EXCEPT ![k] = @ + 1]
        /\ permitUsed' = [permitUsed EXCEPT ![k] = r.permit]
        /\ receipts' = receipts \cup {k}
        /\ inbox' = [inbox EXCEPT ![k] = [status |-> "PROCESSED", hash |-> r.batch[k]]]
    BY DEF Import, Working, KeyIsFree
  <1>2. PICK conflicts \in ConflictSets(r) :
          /\ open' = [open EXCEPT ![k] = conflicts]
          /\ flag' = [flag EXCEPT ![k] = IF conflicts = {} THEN "NONE" ELSE "OPEN"]
          /\ Reply(r, k, IF conflicts = {} THEN "ACCEPTED" ELSE "ACCEPTED_WITH_CONFLICT")
    BY DEF Import
  <1> DEFINE outcome == IF conflicts = {} THEN "ACCEPTED" ELSE "ACCEPTED_WITH_CONFLICT"
  <1>3. ServerGrows /\ UNCHANGED << local, tab >>
    BY <1>1 DEF ServerGrows, device
  <1>4. Wire'
    <2>1. outcome \in Outcomes /\ outcome # "REJECTED" /\ k \in receipts' /\ Reply(r, k, outcome)
      BY <1>1, <1>2 DEF Outcomes
    <2> HIDE DEF outcome
    <2> QED
      BY <1>1, <1>3, <2>1, ReplyWire
  <1>5. /\ r.batch[k] \in Payloads /\ r.batch[k].state \in States /\ r.permit \in Nat
        /\ local[k].state # "NONE"
    BY <1>1, RequestFacts, BatchFacts DEF Requests, Known
  <1>6. ServerTypes'
    BY <1>0, <1>1, <1>5 DEF ServerTypes
  <1>7. Ledgers'
    <2>1. /\ order \in [Orders -> States \cup {"NONE", "ONLINE"}]
          /\ flag \in [Orders -> {"NONE", "OPEN", "RESOLVED"}] /\ open \in [Orders -> SUBSET Kinds]
      BY <1>0 DEF TypeOK
    <2>2. /\ order'[k] = r.batch[k].state /\ order'[k] # "NONE" /\ created'[k] = created[k] + 1
          /\ permitUsed'[k] = r.permit /\ k \in receipts' /\ inbox'[k].status = "PROCESSED"
          /\ open'[k] = conflicts /\ flag'[k] = IF conflicts = {} THEN "NONE" ELSE "OPEN"
      BY <1>0, <1>1, <1>2, <1>5, <2>1, StateNames DEF ServerTypes
    <2>3. \A j \in Orders : j # k =>
            /\ order'[j] = order[j] /\ created'[j] = created[j] /\ permitUsed'[j] = permitUsed[j]
            /\ inbox'[j] = inbox[j] /\ open'[j] = open[j] /\ flag'[j] = flag[j]
            /\ (j \in receipts' <=> j \in receipts)
      BY <1>0, <1>1, <1>2, <2>1 DEF ServerTypes
    <2>4. created[k] = 0
      BY <1>0, <1>1 DEF Ledgers
    <2>5. ASSUME NEW j \in Orders
          PROVE  (/\ created[j] = IF order[j] = "NONE" THEN 0 ELSE 1
                  /\ j \in receipts => order[j] # "NONE"
                  /\ inbox[j].status = "PROCESSED" <=> j \in receipts
                  /\ inbox[j].status = "REJECTED" => j \in refused
                  /\ flag[j] = "OPEN" <=> open[j] # {}
                  /\ order[j] \in States => local[j].state # "NONE")'
      <3>1. CASE j = k
        BY <1>3, <1>5, <2>2, <2>4, <3>1
      <3>2. CASE j # k
        BY <1>0, <1>1, <1>3, <2>3, <3>2 DEF Ledgers
      <3> QED
        BY <3>1, <3>2
    <2> QED
      BY <2>5 DEF Ledgers
  <1>8. ServerStates'
    <2>1. conflicts \in SUBSET Kinds
      BY DEF ConflictSets, Kinds
    <2> QED
      BY <1>0, <1>1, <1>2, <1>5, <2>1 DEF ServerStates, TypeOK
  <1>9. online' \in [Orders -> {"NOT_SENT", "IN_FLIGHT", "OVER"}]
    BY <1>0, <1>1 DEF TypeOK
  <1> QED
    BY <1>1, <1>3, <1>4, <1>6, <1>7, <1>8, <1>9, ServerStepInv

LEMMA RejectRecordInv == ASSUME Inv, NEW r \in requests, RejectRecord(r) PROVE Inv'
  <1> DEFINE k == r.thrown
  <1>0. TypeOK /\ ServerTypes /\ Ledgers
    BY DEF Inv
  <1>1. k \in r.left /\ k \in Orders /\ r.batch[k] \in Payloads
    BY RequestFacts, BatchFacts DEF RejectRecord, Requests
  <1>2. /\ UNCHANGED << setup, device, tab, lock, faults, online, permits,
                        order, receipts, open, flag, created, takenAt, permitUsed >>
        /\ inbox' = [inbox EXCEPT ![k] = InboxAfterRejection(k, r.batch[k])]
        /\ refused' = refused \cup {k} /\ Reply(r, k, "REJECTED")
    BY DEF RejectRecord, Refused
  <1> HIDE DEF k
  <1>3. ServerGrows /\ UNCHANGED << local, tab >>
    BY <1>2 DEF ServerGrows, device
  <1>4. "REJECTED" \in Outcomes /\ k \in refused'
    BY <1>2 DEF Outcomes
  <1>5. Wire'
    BY <1>1, <1>2, <1>3, <1>4, ReplyWire
  <1>6. ServerTypes'
    BY <1>0, <1>1, <1>2 DEF ServerTypes, InboxAfterRejection
  <1>7. Ledgers'
    <2>1. /\ \A j \in Orders : j # k => inbox'[j] = inbox[j]
          /\ inbox'[k] = inbox[k] \/ (inbox[k].status = "NONE" /\ inbox'[k].status = "REJECTED")
      BY <1>0, <1>1, <1>2 DEF ServerTypes, InboxAfterRejection
    <2> QED
      BY <1>0, <1>2, <1>3, <1>4, <2>1 DEF Ledgers
  <1>8. ServerStates' /\ online' \in [Orders -> {"NOT_SENT", "IN_FLIGHT", "OVER"}]
    BY <1>0, <1>2 DEF ServerStates, TypeOK
  <1> QED
    BY <1>2, <1>3, <1>5, <1>6, <1>7, <1>8, ServerStepInv

LEMMA OnlineEndsInv == ASSUME Inv, NEW k \in Orders, OnlineEnds(k) PROVE Inv'
  <1>0. TypeOK /\ ServerTypes /\ Ledgers
    BY DEF Inv
  <1>1. /\ UNCHANGED << setup, device, tab, lock, faults, requests, permits,
                        inbox, receipts, open, flag, refused, takenAt, permitUsed >>
        /\ online' = [online EXCEPT ![k] = "OVER"]
        /\ \/ /\ order[k] = "NONE" /\ order' = [order EXCEPT ![k] = "ONLINE"]
              /\ created' = [created EXCEPT ![k] = @ + 1]
           \/ UNCHANGED << order, created >>
    BY DEF OnlineEnds, KeyIsFree
  <1>2. ServerGrows /\ LocalGrows /\ UNCHANGED local
    BY <1>1 DEF ServerGrows, LocalGrows, device
  <1>3. Wire'
    BY <1>1, <1>2, WireFrame DEF Wire
  <1>4. ServerTypes'
    BY <1>0, <1>1 DEF ServerTypes
  <1>5. order \in [Orders -> States \cup {"NONE", "ONLINE"}]
    BY <1>0 DEF TypeOK
  <1>6. Ledgers'
    BY <1>0, <1>1, <1>2, <1>5, StateNames DEF Ledgers, ServerTypes
  <1>7. ServerStates'
    BY <1>0, <1>1 DEF ServerStates, TypeOK
  <1>8. online' \in [Orders -> {"NOT_SENT", "IN_FLIGHT", "OVER"}]
    BY <1>0, <1>1 DEF TypeOK
  <1> QED
    BY <1>1, <1>2, <1>3, <1>4, <1>6, <1>7, <1>8, ServerStepInv

LEMMA ResolveConflictInv == ASSUME Inv, NEW k \in Orders, NEW c, ResolveConflict(k, c) PROVE Inv'
  <1>0. TypeOK /\ ServerTypes /\ Ledgers
    BY DEF Inv
  <1>1. /\ UNCHANGED << setup, device, tab, lock, faults, online, requests, permits,
                        order, inbox, receipts, refused, created, takenAt, permitUsed >>
        /\ c \in open[k] /\ open' = [open EXCEPT ![k] = @ \ {c}]
        /\ flag' = [flag EXCEPT ![k] = IF open[k] = {c} THEN "RESOLVED" ELSE flag[k]]
    BY DEF ResolveConflict, ResolvedFlag
  <1>2. ServerGrows /\ LocalGrows /\ UNCHANGED local
    BY <1>1 DEF ServerGrows, LocalGrows, device
  <1>3. Wire'
    BY <1>1, <1>2, WireFrame DEF Wire
  <1>4. ServerTypes'
    BY <1>0, <1>1 DEF ServerTypes
  <1>5. flag \in [Orders -> {"NONE", "OPEN", "RESOLVED"}] /\ open \in [Orders -> SUBSET Kinds]
    BY <1>0 DEF TypeOK
  <1>6. \A j \in Orders : flag'[j] = "OPEN" <=> open'[j] # {}
    BY <1>0, <1>1, <1>5 DEF Ledgers
  <1>7. Ledgers'
    BY <1>0, <1>1, <1>2, <1>6 DEF Ledgers
  <1>8. ServerStates' /\ online' \in [Orders -> {"NOT_SENT", "IN_FLIGHT", "OVER"}]
    BY <1>0, <1>1, <1>5 DEF ServerStates, TypeOK
  <1> QED
    BY <1>1, <1>2, <1>3, <1>4, <1>7, <1>8, ServerStepInv

-----------------------------------------------------------------------------
LEMMA NextInv == ASSUME Inv, [Next]_vars PROVE Inv'
  <1>1. CASE UNCHANGED vars
    <2>1. Wire'
      BY <1>1 DEF vars, Inv, Wire, WireTypes, OneRequestPerTab, BatchesAreKnown, AnswersAreTrue, Known,
                  Truthful, device, server
    <2> QED
      BY <1>1, <2>1, ReadingInv DEF vars
  <1>2. CASE \E t \in Tabs : Upload(t)
    BY <1>2, StartInv, EndsInv, LoadInv, MarkAndSendInv, AnswerArrivesInv, ApplyInv, FailedUploadInv
       DEF Upload
  <1>3. CASE Serve
    <2>1. PICK r \in requests :
            \/ ReadContext(r) \/ RejectRecord(r) \/ DropAnswer(r)
            \/ \E k \in Orders : Replay(r, k) \/ Reconcile(r, k) \/ Import(r, k) \/ Throw(r, k)
      BY <1>3 DEF Serve
    <2>2. CASE DropAnswer(r)
      BY <2>2, GoneInv DEF DropAnswer
    <2> QED
      BY <2>1, <2>2, ReadContextInv, RejectRecordInv, ReplayInv, ReconcileInv, ImportInv, ThrowInv
  <1>4. CASE Clock \/ LeaseExpires \/ LeaseLost \/ \E k \in Orders : PostOnline(k)
    BY <1>4, ClockInv
  <1>5. CASE \E t \in Tabs : \/ NetworkFails(t) \/ CrashTab(t)
                             \/ \E k \in Orders : PurgeThrows(t, k) \/ PurgeWhenEmpty(t, k)
    BY <1>5, FailedUploadInv, CrashTabInv, PurgeInv
  <1>6. CASE \E r \in requests : ServerFails(r)
    BY <1>6, GoneInv DEF ServerFails
  <1>7. CASE \/ BeginIssue \/ RecordCashEvent \/ (\E on \in BOOLEAN : SetLeader(on))
             \/ \E b \in bootstraps : CommitIssue(b) \/ SaveBootstrap(b)
    BY <1>7, PermitInv
  <1>8. CASE \E k \in Orders : \/ OnlineEnds(k) \/ CreateOffline(k)
                               \/ \E s \in setup.moves : Transition(k, s)
                               \/ \E c \in Kinds : ResolveConflict(k, c)
    BY <1>8, OnlineEndsInv, DeviceInv, ResolveConflictInv
  <1> QED
    BY <1>1, <1>2, <1>3, <1>4, <1>5, <1>6, <1>7, <1>8 DEF Next

LEMMA Invariance == Spec => []Inv
  <1>1. Inv /\ [Next]_vars => Inv'
    BY NextInv
  <1> QED
    BY InitInv, <1>1, PTL DEF Spec

\* The records of device, wire and server are well formed; so every answer is
\* about records of the batch it answers.
THEOREM TypeCorrect == Spec => []TypeOK
  <1>1. Inv => TypeOK
    BY DEF Inv
  <1> QED
    BY <1>1, Invariance, PTL

\* applyOfflineSyncResponse writes only what importOfflineSyncBatch and
\* rejectRecordWithConflict have committed, however late the answer is.
THEOREM SettledIsRealHolds == Spec => []SettledIsReal
  <1>1. Inv => SettledIsReal
    BY DEF Inv, SettledIsReal, QueueIsReal, Ledgers
  <1> QED
    BY <1>1, Invariance, PTL

\* The composer online and the import create one order for a key.
THEOREM CreatedOnceHolds == Spec => []CreatedOnce
  <1>1. Inv => CreatedOnce
    BY DEF Inv, CreatedOnce, Ledgers
  <1> QED
    BY <1>1, Invariance, PTL

-----------------------------------------------------------------------------
(* Permits: no order is imported with a permit that was revoked before the *)
(* order was taken.  What a request has read of its permit may be old, but *)
(* its orders are older.                                                   *)
NotRevokedBefore(p, era) == window[p].till = 0 \/ era < window[p].till

ErasArePast == \A k \in Orders : local[k].era <= events
PermitsAreIssued ==
    /\ \A t \in Tabs : tab[t].phase # "IDLE" => tab[t].permit \in 1..issued
    /\ \A r \in requests : r.permit \in 1..issued
ReadsHold ==
    \A r \in requests : r.read /\ ~r.revoked =>
        \A k \in DOMAIN r.batch : NotRevokedBefore(r.permit, r.batch[k].era)
ImportsHold ==
    \A k \in Orders : order[k] \in States =>
        permitUsed[k] \in 1..issued /\ NotRevokedBefore(permitUsed[k], local[k].era)

PermitsHold == ErasArePast /\ PermitsAreIssued /\ ReadsHold /\ ImportsHold

\* The facts about types used below.
LEMMA PermitFacts ==
    ASSUME Inv
    PROVE  /\ events \in Nat /\ issued \in Nat /\ held \in 0..issued
           /\ \A p \in 1..issued : /\ window[p].from \in Nat /\ window[p].till \in Nat
                                   /\ window[p].till <= events
           /\ \A k \in Orders : local[k].era \in Nat
           /\ \A r \in requests : DOMAIN r.batch \subseteq Orders /\
                \A k \in DOMAIN r.batch : /\ r.batch[k].era = local[k].era
                                          /\ local[k].state # "NONE"
  <1>0. TypeOK
    BY DEF Inv
  <1>1. setup.permits \in Nat
    BY <1>0, SyncConstants DEF TypeOK
  <1>2. events \in Nat /\ issued \in Nat /\ held \in 0..issued
    BY <1>0, <1>1 DEF TypeOK
  <1>3. \A p \in 1..issued : window[p] \in [from : 0..events, till : 0..events]
    BY <1>0 DEF TypeOK
  <1>4. \A k \in Orders : local[k].era \in Nat
    BY <1>0, PayloadFacts DEF TypeOK
  <1> QED
    BY <1>2, <1>3, <1>4, RequestFacts DEF Known

\* A permit event comes after everything that was taken.
LEMMA PermitEventHolds ==
    ASSUME Inv, PermitsHold, \/ BeginIssue \/ (\E on \in BOOLEAN : SetLeader(on))
                             \/ \E b \in bootstraps : CommitIssue(b)
    PROVE  PermitsHold'
  <1>1. /\ UNCHANGED << local, tab, requests, order, permitUsed >>
        /\ events' = events + 1
        /\ issued' \in {issued, issued + 1}
        /\ \A p \in 1..issued : window'[p] \in {window[p], Revoked(p)}
    BY PermitFacts DEF BeginIssue, SetLeader, CommitIssue, device, server
  <1>2. ASSUME NEW p \in 1..issued, NEW era \in Nat, era <= events, NotRevokedBefore(p, era)
        PROVE  NotRevokedBefore(p, era)'
    <2>1. window[p] \in [from : 0..events, till : 0..events]
      BY DEF Inv, TypeOK
    <2>2. window'[p] = window[p] \/ window'[p].till = events + 1
      BY <1>1, <2>1 DEF Revoked
    <2> QED
      BY <1>2, <2>2, PermitFacts DEF NotRevokedBefore
  <1>3. (ErasArePast /\ PermitsAreIssued)'
    BY <1>1, PermitFacts DEF PermitsHold, ErasArePast, PermitsAreIssued
  <1>4. ReadsHold'
    <2> SUFFICES ASSUME NEW r \in requests, r.read, ~r.revoked, NEW k \in DOMAIN r.batch
                 PROVE  NotRevokedBefore(r.permit, r.batch[k].era)'
      BY <1>1 DEF ReadsHold
    <2> QED
      BY <1>2, PermitFacts DEF PermitsHold, ErasArePast, PermitsAreIssued, ReadsHold
  <1>5. ImportsHold'
    <2> SUFFICES ASSUME NEW k \in Orders, order[k] \in States
                 PROVE  /\ permitUsed[k] \in 1..issued'
                        /\ (NotRevokedBefore(permitUsed[k], local[k].era))'
      BY <1>1 DEF ImportsHold
    <2>1. permitUsed[k] \in 1..issued /\ NotRevokedBefore(permitUsed[k], local[k].era)
      BY DEF PermitsHold, ImportsHold
    <2>2. local[k].era \in Nat /\ local[k].era <= events
      BY PermitFacts DEF PermitsHold, ErasArePast
    <2>3. NotRevokedBefore(permitUsed[k], local[k].era)'
      BY <1>1, <1>2, <2>1, <2>2 DEF NotRevokedBefore
    <2> QED
      BY <1>1, <2>1, <2>3, PermitFacts
  <1> QED
    BY <1>3, <1>4, <1>5 DEF PermitsHold

\* What any other step does to the orders of the device, to tabs and requests, and to the
\* canonical orders.
ErasStay ==
    \A k \in Orders : \/ local'[k].era = local[k].era
                      \/ local[k].state = "NONE" /\ local'[k].era = events
TabsKeepPermits ==
    \A t \in Tabs : tab'[t].phase # "IDLE" =>
        \/ tab[t].phase # "IDLE" /\ tab'[t].permit = tab[t].permit
        \/ held > 0 /\ tab'[t].permit = held
RequestsKeepPermits ==
    \A r \in requests' :
        \/ \E q \in requests :
             /\ r.permit = q.permit /\ r.batch = q.batch
             /\ r.read /\ ~r.revoked => (q.read /\ ~q.revoked) \/ window[q.permit].till = 0
        \/ \E t \in Tabs : tab[t].phase # "IDLE" /\ r.permit = tab[t].permit /\ ~r.read
ImportsChecked ==
    \A k \in Orders : order'[k] \in States =>
        \/ order[k] \in States /\ permitUsed'[k] = permitUsed[k]
        \/ \E r \in requests : \E at \in r.batch[k].era..events :
             k \in DOMAIN r.batch /\ r.read /\ permitUsed'[k] = r.permit /\ InScope(r, at)

LEMMA OtherStepHolds ==
    ASSUME Inv, PermitsHold, UNCHANGED << events, issued, window >>,
           ErasStay, TabsKeepPermits, RequestsKeepPermits, ImportsChecked
    PROVE  PermitsHold'
  <1>1. ErasArePast'
    BY PermitFacts DEF PermitsHold, ErasArePast, ErasStay
  <1>2. PermitsAreIssued'
    BY PermitFacts DEF PermitsHold, PermitsAreIssued, TabsKeepPermits, RequestsKeepPermits
  <1>3. ReadsHold'
    <2> SUFFICES ASSUME NEW r \in requests', r.read, ~r.revoked, NEW k \in DOMAIN r.batch
                 PROVE  NotRevokedBefore(r.permit, r.batch[k].era)'
      BY DEF ReadsHold
    <2>1. PICK q \in requests :
            /\ r.permit = q.permit /\ r.batch = q.batch
            /\ (q.read /\ ~q.revoked) \/ window[q.permit].till = 0
      BY DEF RequestsKeepPermits
    <2> QED
      BY <2>1 DEF PermitsHold, ReadsHold, NotRevokedBefore
  <1>4. ImportsHold'
    <2> SUFFICES ASSUME NEW k \in Orders, order'[k] \in States
                 PROVE  /\ permitUsed'[k] \in 1..issued
                        /\ window[permitUsed'[k]].till = 0 \/ local'[k].era < window[permitUsed'[k]].till
      BY DEF ImportsHold, NotRevokedBefore
    <2>1. CASE order[k] \in States /\ permitUsed'[k] = permitUsed[k]
      <3>1. local[k].state # "NONE"
        BY <2>1 DEF Inv, Ledgers
      <3> QED
        BY <2>1, <3>1 DEF ErasStay, PermitsHold, ImportsHold, NotRevokedBefore
    <2>2. ASSUME NEW r \in requests, NEW at \in r.batch[k].era..events, k \in DOMAIN r.batch,
                 r.read, permitUsed'[k] = r.permit, InScope(r, at)
          PROVE  /\ permitUsed'[k] \in 1..issued
                 /\ window[permitUsed'[k]].till = 0 \/ local'[k].era < window[permitUsed'[k]].till
      <3>1. /\ r.batch[k].era = local[k].era /\ local'[k].era = local[k].era
            /\ local[k].era \in Nat /\ r.permit \in 1..issued /\ window[r.permit].till \in Nat
        BY <2>2, PermitFacts DEF ErasStay, PermitsHold, PermitsAreIssued
      <3>2. CASE r.revoked
        BY <2>2, <3>1, <3>2, PermitFacts DEF InScope
      <3>3. CASE ~r.revoked
        BY <2>2, <3>1, <3>3 DEF PermitsHold, ReadsHold, NotRevokedBefore
      <3> QED
        BY <3>2, <3>3
    <2> QED
      BY <2>1, <2>2 DEF ImportsChecked
  <1> QED
    BY <1>1, <1>2, <1>3, <1>4 DEF PermitsHold

\* Orders, tabs and requests that stay as they are.
LEMMA UnchangedMoves ==
    /\ UNCHANGED local => ErasStay
    /\ UNCHANGED tab => TabsKeepPermits
    /\ UNCHANGED requests => RequestsKeepPermits
    /\ UNCHANGED << order, permitUsed >> => ImportsChecked
  BY DEF ErasStay, TabsKeepPermits, RequestsKeepPermits, ImportsChecked

\* The staff, the clock and the manager.
LEMMA QuietMoves ==
    ASSUME Inv, PermitsHold,
           \/ Clock \/ LeaseExpires \/ LeaseLost \/ RecordCashEvent \/ UNCHANGED vars
           \/ \E b \in bootstraps : SaveBootstrap(b)
           \/ \E k \in Orders : \/ PostOnline(k) \/ OnlineEnds(k) \/ CreateOffline(k)
                                \/ \E s \in setup.moves : Transition(k, s)
                                \/ \E c \in Kinds : ResolveConflict(k, c)
    PROVE  PermitsHold'
  <1>0. local \in [Orders -> Payloads] /\ order \in [Orders -> States \cup {"NONE", "ONLINE"}]
    BY DEF Inv, TypeOK
  <1>1. UNCHANGED << events, issued, window, tab, requests, permitUsed >>
    BY DEF Clock, Tick, LeaseExpires, LeaseLost, RecordCashEvent, SaveBootstrap, PostOnline, OnlineEnds,
           CreateOffline, Transition, ResolveConflict, permits, server, vars
  <1>2. \/ UNCHANGED local
        \/ \E k \in Orders : CreateOffline(k) \/ \E s \in setup.moves : Transition(k, s)
    BY DEF Clock, Tick, LeaseExpires, LeaseLost, RecordCashEvent, SaveBootstrap, PostOnline, OnlineEnds,
           ResolveConflict, device, vars
  <1>3. ASSUME NEW k \in Orders, CreateOffline(k) PROVE ErasStay
    BY <1>0, <1>3 DEF CreateOffline, ErasStay, NoPayload
  <1>4. ASSUME NEW k \in Orders, NEW s, Transition(k, s) PROVE ErasStay
    <2>1. local[k] \in Payloads /\ local' = [local EXCEPT ![k].state = s, ![k].sync = "PENDING"]
      BY <1>0, <1>4 DEF Transition
    <2> QED
      BY <1>0, <2>1 DEF ErasStay, Payloads
  <1>5. ErasStay
    BY <1>2, <1>3, <1>4, UnchangedMoves
  <1>6. \/ UNCHANGED order
        \/ \E k \in Orders : order' = [order EXCEPT ![k] = "ONLINE"]
    BY DEF Clock, Tick, LeaseExpires, LeaseLost, RecordCashEvent, SaveBootstrap, PostOnline, OnlineEnds,
           CreateOffline, Transition, ResolveConflict, server, vars
  <1>7. ImportsChecked
    BY <1>0, <1>1, <1>6, StateNames DEF ImportsChecked
  <1> QED
    BY <1>1, <1>5, <1>7, UnchangedMoves, OtherStepHolds

\* Tabs mark, send and purge.
LEMMA StampKeepsEras == ASSUME Inv, NEW K, NEW s, NEW n, Stamp(K, s, n) PROVE ErasStay
  <1> SUFFICES ASSUME NEW k \in Orders PROVE local'[k].era = local[k].era
    BY DEF ErasStay
  <1>1. local[k] \in Payloads
    BY DEF Inv, TypeOK
  <1>2. \/ local'[k] = local[k]
        \/ local'[k] = [local[k] EXCEPT !.sync = s, !.retry = @ + n, !.stamp = @ + 1]
    BY DEF Stamp
  <1> QED
    BY <1>1, <1>2 DEF Payloads

LEMMA UploadMoves ==
    ASSUME Inv, PermitsHold, NEW t \in Tabs,
           \/ Upload(t) \/ NetworkFails(t) \/ CrashTab(t)
           \/ \E k \in Orders : PurgeThrows(t, k) \/ PurgeWhenEmpty(t, k)
    PROVE  PermitsHold'
  <1>0. /\ tab \in [Tabs -> TabStates] /\ tab[t] \in TabStates /\ requests \subseteq Requests
        /\ local \in [Orders -> Payloads]
    BY DEF Inv, WireTypes, TypeOK
  <1>1. /\ UNCHANGED << events, issued, window, order, permitUsed >>
    BY DEF Upload, Start, Load, Stop, MarkAndSend, AnswerArrives, Apply, Finish, ErrorArrives, CatchPurge,
           NetworkFails, CrashTab, PurgeThrows, PurgeWhenEmpty, PurgeFirst, permits, server
  <1>2. ErasStay
    <2>1. ASSUME Apply(t) PROVE ErasStay
      <3> SUFFICES ASSUME NEW k \in Orders PROVE local'[k].era = local[k].era
        BY DEF ErasStay
      <3>1. local[k] \in Payloads
        BY <1>0
      <3>2. local'[k] = local[k] \/ \E x : local'[k] = [local[k] EXCEPT !.sync = x]
        BY <2>1 DEF Apply
      <3> QED
        BY <3>1, <3>2 DEF Payloads
    <2>2. ASSUME NEW k \in Orders, PurgeFirst(k) PROVE ErasStay
      <3>1. local[k] \in Payloads /\ local' = [local EXCEPT ![k].state = "PURGED"]
        BY <1>0, <2>2 DEF PurgeFirst
      <3> QED
        BY <1>0, <3>1 DEF ErasStay, Payloads
    <2>3. CASE MarkAndSend(t) \/ NetworkFails(t) \/ ErrorArrives(t) \/ CatchPurge(t)
      BY <2>3, StampKeepsEras DEF MarkAndSend, NetworkFails, ErrorArrives, CatchPurge, MarkFailed
    <2>4. CASE Start(t) \/ Load(t) \/ Stop(t) \/ AnswerArrives(t) \/ Finish(t) \/ CrashTab(t)
      BY <2>4, UnchangedMoves DEF Start, Load, Stop, AnswerArrives, Finish, CrashTab, device
    <2> QED
      BY <2>1, <2>2, <2>3, <2>4 DEF Upload, PurgeThrows, PurgeWhenEmpty
  <1>3. TabsKeepPermits
    <2>1. CASE Start(t)
      BY <1>0, <2>1 DEF Start, TabsKeepPermits, Idle
    <2>2. CASE Load(t)
      <3>1. tab[t].phase # "IDLE" /\ tab'[t].permit = tab[t].permit /\ \A u \in Tabs \ {t} : tab'[u] = tab[u]
        BY <1>0, <2>2 DEF Load, Idle
      <3> QED
        BY <3>1 DEF TabsKeepPermits
    <2>3. CASE \/ Stop(t) \/ Finish(t) \/ NetworkFails(t) \/ ErrorArrives(t) \/ CatchPurge(t) \/ CrashTab(t)
               \/ \E k \in Orders : PurgeWhenEmpty(t, k)
      <3>1. tab' = [tab EXCEPT ![t] = Idle]
        BY <2>3 DEF Stop, Finish, NetworkFails, ErrorArrives, CatchPurge, CrashTab, PurgeWhenEmpty, MarkFailed
      <3> QED
        BY <1>0, <3>1 DEF TabsKeepPermits, Idle
    <2>4. CASE \/ MarkAndSend(t) \/ AnswerArrives(t) \/ Apply(t)
               \/ \E k \in Orders : PurgeThrows(t, k)
      <3>1. /\ tab[t].phase # "IDLE"
            /\ \E x, y : \/ tab' = [tab EXCEPT ![t].phase = x]
                         \/ tab' = [tab EXCEPT ![t].phase = x, ![t].answer = y]
        BY <2>4 DEF MarkAndSend, AnswerArrives, Apply, PurgeThrows
      <3>2. tab'[t].permit = tab[t].permit /\ \A u \in Tabs \ {t} : tab'[u] = tab[u]
        BY <1>0, <3>1 DEF TabStates
      <3> QED
        BY <3>1, <3>2 DEF TabsKeepPermits
    <2> QED
      BY <2>1, <2>2, <2>3, <2>4 DEF Upload
  <1>4. RequestsKeepPermits
    <2>1. CASE MarkAndSend(t)
      <3>1. \A r \in requests' : r \in requests \/ (r.permit = tab[t].permit /\ r.read = FALSE)
        BY <2>1 DEF MarkAndSend
      <3>2. tab[t].phase # "IDLE"
        BY <2>1 DEF MarkAndSend
      <3> QED
        BY <3>1, <3>2 DEF RequestsKeepPermits
    <2>2. CASE NetworkFails(t) \/ CrashTab(t)
      <3>1. requests' \subseteq requests \cup Disowned(t)
        BY <2>2 DEF NetworkFails, CrashTab
      <3>2. ASSUME NEW r \in Disowned(t)
            PROVE  \E q \in requests : /\ r.permit = q.permit /\ r.batch = q.batch
                                       /\ r.read = q.read /\ r.revoked = q.revoked
        <4>1. PICK q \in requests : r = q \/ r = [q EXCEPT !.tab = NoTab]
          BY <3>2, DisownedFacts
        <4>2. q \in Requests
          BY <1>0
        <4> QED
          BY <4>1, <4>2 DEF Requests
      <3> QED
        BY <3>1, <3>2 DEF RequestsKeepPermits
    <2>3. CASE \/ Start(t) \/ Load(t) \/ Stop(t) \/ AnswerArrives(t) \/ Apply(t) \/ Finish(t)
               \/ ErrorArrives(t) \/ CatchPurge(t)
               \/ \E k \in Orders : PurgeThrows(t, k) \/ PurgeWhenEmpty(t, k)
      <3>1. requests' \subseteq requests
        BY <2>3 DEF Start, Load, Stop, AnswerArrives, Apply, Finish, ErrorArrives, CatchPurge, PurgeThrows,
                    PurgeWhenEmpty, PurgeFirst
      <3> QED
        BY <3>1 DEF RequestsKeepPermits
    <2> QED
      BY <2>1, <2>2, <2>3 DEF Upload
  <1> QED
    BY <1>1, <1>2, <1>3, <1>4, UnchangedMoves, OtherStepHolds

\* The server.
LEMMA ServeMoves ==
    ASSUME Inv, PermitsHold, NEW r \in requests,
           \/ ReadContext(r) \/ RejectRecord(r) \/ DropAnswer(r) \/ ServerFails(r)
           \/ \E k \in Orders : Replay(r, k) \/ Reconcile(r, k) \/ Import(r, k) \/ Throw(r, k)
    PROVE  PermitsHold'
  <1>0. r \in Requests
    BY RequestFacts
  <1>1. UNCHANGED << events, issued, window, local, tab >>
    BY DEF ReadContext, RejectRecord, DropAnswer, ServerFails, Replay, Reconcile, Import, Throw,
           permits, device
  <1>2. RequestsKeepPermits
    <2>1. ASSUME NEW k, NEW outcome, Reply(r, k, outcome) PROVE RequestsKeepPermits
      <3> DEFINE out == [j \in DOMAIN r.out \cup {k} |-> IF j = k THEN outcome ELSE r.out[j]]
                 q == [r EXCEPT !.left = @ \ {k}, !.thrown = NoOrder, !.out = out]
      <3>1. requests' = (requests \ {r}) \cup {q}
        BY <2>1 DEF Reply
      <3> HIDE DEF out
      <3>2. q.permit = r.permit /\ q.batch = r.batch /\ q.read = r.read /\ q.revoked = r.revoked
        BY <1>0 DEF Requests
      <3> HIDE DEF q
      <3> QED
        BY <3>1, <3>2 DEF RequestsKeepPermits
    <2>2. CASE RejectRecord(r)
      BY <2>1, <2>2 DEF RejectRecord
    <2>3. CASE \E k \in Orders : Replay(r, k) \/ Reconcile(r, k) \/ Import(r, k)
      BY <2>1, <2>3 DEF Replay, Reconcile, Import
    <2>4. CASE DropAnswer(r) \/ ServerFails(r)
      BY <2>4 DEF DropAnswer, ServerFails, RequestsKeepPermits
    <2>5. CASE \E k \in Orders : Throw(r, k)
      <3>1. PICK k \in Orders : requests' = (requests \ {r}) \cup {[r EXCEPT !.thrown = k]}
        BY <2>5 DEF Throw
      <3>2. LET q == [r EXCEPT !.thrown = k]
            IN  q.permit = r.permit /\ q.batch = r.batch /\ q.read = r.read /\ q.revoked = r.revoked
        BY <1>0 DEF Requests
      <3> QED
        BY <3>1, <3>2 DEF RequestsKeepPermits
    <2>6. CASE ReadContext(r)
      <3> DEFINE q == [r EXCEPT !.read = TRUE, !.revoked = window[r.permit].till # 0]
      <3>1. requests' \subseteq requests \cup {q}
        BY <2>6 DEF ReadContext
      <3>2. /\ q.permit = r.permit /\ q.batch = r.batch
            /\ ~q.revoked => window[r.permit].till = 0
        BY <1>0 DEF Requests
      <3> HIDE DEF q
      <3> QED
        BY <3>1, <3>2 DEF RequestsKeepPermits
    <2> QED
      BY <2>2, <2>3, <2>4, <2>5, <2>6
  <1>3. ImportsChecked
    <2>1. ASSUME NEW k \in Orders, Import(r, k) PROVE ImportsChecked
      <3>1. /\ order \in [Orders -> States \cup {"NONE", "ONLINE"}] /\ permitUsed \in [Orders -> Nat]
        BY DEF Inv, TypeOK, ServerTypes
      <3>2. /\ order' = [order EXCEPT ![k] = r.batch[k].state]
            /\ permitUsed' = [permitUsed EXCEPT ![k] = r.permit]
            /\ r.read /\ k \in r.left
            /\ \E at \in r.batch[k].era..events : InScope(r, at)
        BY <2>1 DEF Import, Working, Adjusted
      <3>3. k \in DOMAIN r.batch
        BY <3>2, RequestFacts
      <3>4. /\ permitUsed'[k] = r.permit
            /\ \A j \in Orders \ {k} : order'[j] = order[j] /\ permitUsed'[j] = permitUsed[j]
        BY <3>1, <3>2
      <3> QED
        BY <3>2, <3>3, <3>4 DEF ImportsChecked
    <2>2. CASE \/ ReadContext(r) \/ RejectRecord(r) \/ DropAnswer(r) \/ ServerFails(r)
               \/ \E k \in Orders : Replay(r, k) \/ Reconcile(r, k) \/ Throw(r, k)
      BY <2>2, UnchangedMoves DEF ReadContext, RejectRecord, DropAnswer, ServerFails, Replay, Reconcile,
                                  Throw, server
    <2> QED
      BY <2>1, <2>2
  <1> QED
    BY <1>1, <1>2, <1>3, UnchangedMoves, OtherStepHolds

LEMMA PermitsHoldNext == ASSUME Inv, PermitsHold, [Next]_vars PROVE PermitsHold'
  <1>1. CASE Serve \/ \E r \in requests : ServerFails(r)
    BY <1>1, ServeMoves DEF Serve
  <1>2. CASE \E t \in Tabs : \/ Upload(t) \/ NetworkFails(t) \/ CrashTab(t)
                             \/ \E k \in Orders : PurgeThrows(t, k) \/ PurgeWhenEmpty(t, k)
    BY <1>2, UploadMoves
  <1>3. CASE \/ BeginIssue \/ (\E on \in BOOLEAN : SetLeader(on))
             \/ \E b \in bootstraps : CommitIssue(b)
    BY <1>3, PermitEventHolds
  <1>4. CASE \/ Clock \/ LeaseExpires \/ LeaseLost \/ RecordCashEvent \/ UNCHANGED vars
             \/ \E b \in bootstraps : SaveBootstrap(b)
             \/ \E k \in Orders : \/ PostOnline(k) \/ OnlineEnds(k) \/ CreateOffline(k)
                                  \/ \E s \in setup.moves : Transition(k, s)
                                  \/ \E c \in Kinds : ResolveConflict(k, c)
    BY <1>4, QuietMoves
  <1> QED
    BY <1>1, <1>2, <1>3, <1>4 DEF Next

\* An order taken after the revocation of its permit is not imported with it, however old
\* what the server has read of the permit is, and whatever its look at the clock adds to the
\* time of creation.
THEOREM ImportedWithinPermitHolds == Spec => []ImportedWithinPermit
  <1>1. Init => PermitsHold
    BY StateNames, EmptyFacts
       DEF Init, PermitsHold, ErasArePast, PermitsAreIssued, ReadsHold, ImportsHold, NoPayload, Idle
  <1>2. Inv /\ PermitsHold /\ [Next]_vars => PermitsHold'
    BY PermitsHoldNext
  <1>3. PermitsHold => ImportedWithinPermit
    BY DEF PermitsHold, ImportsHold, NotRevokedBefore, ImportedWithinPermit
  <1> QED
    BY <1>1, <1>2, <1>3, Invariance, PTL DEF Spec
=============================================================================

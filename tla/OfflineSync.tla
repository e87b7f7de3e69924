----------------------------- MODULE OfflineSync -----------------------------
(***************************************************************************)
(* Offline POS: one leader device with several tabs takes orders into its  *)
(* IndexedDB (offline-operations.ts), uploads them in batches              *)
(* (sync-engine.ts, offline-sync-lock.ts), and the server imports them     *)
(* (offline-sync-service.ts, offline-sync-replay.ts) beside the order the  *)
(* composer may already have created online under the same key             *)
(* (staff-order-composer.tsx, staff-order-create.ts).                      *)
(*                                                                         *)
(* An IndexedDB transaction is one step and a PostgreSQL transaction is    *)
(* one step; tabs, requests on the wire and the server interleave between  *)
(* them.  The server hashes the whole record, so a payload is the stored   *)
(* order with its sync bookkeeping.  Time is counted in permit events: a   *)
(* permit requested, a permit issued, the leader of the stall set.         *)
(***************************************************************************)
EXTENDS Integers, FiniteSets

CONSTANTS
    Orders,         \* the idempotency keys of the composer, one offline order each
    Tabs, NoTab, NoOrder,
    MaxRetry,       \* the largest retryCount the order schema parses, 100
    Setups          \* the situations considered, records with the fields
                    \*   orders   the orders taken
                    \*   tabs     the tabs that are open
                    \*   lease    no navigator.locks: the lock is an IndexedDB lease
                    \*   cash     the cash board is used offline
                    \*   moves    the states staff move an offline order to
                    \*   edited   products may have changed since the permit's menu snapshot
                    \*   pending  maxPendingOrders of the permit
                    \*   faults   bound on network failures, server errors and tab crashes
                    \*   permits  bound on permit events, the clock

ASSUME SyncConstants ==
    /\ NoTab \notin Tabs /\ NoOrder \notin Orders /\ MaxRetry \in Nat
    /\ Setups \subseteq [orders : SUBSET Orders, tabs : SUBSET Tabs, lease : BOOLEAN,
                        cash : BOOLEAN,
                        moves : SUBSET {"PREPARING", "READY", "COMPLETED", "CANCELLED"},
                        edited : BOOLEAN, pending : Nat, faults : Nat, permits : Nat]

VARIABLES
    setup,      \* the situation
    local,      \* offline_orders: the stored payload of every order
    queue,      \* sync_queue: the status of its row
    due,        \* its next_attempt_at has passed
    cash,       \* a cash event in cash_shift_snapshot.pending_events
    expiring,   \* orders with a purge_after
    held,       \* the permit in use, the stored one with the latest issued_at; 0 for none
    tab,        \* what every tab is doing
    lock,       \* the tab holding the sync lock
    faults,     \* faults so far
    online,     \* the composer's POST of the order
    requests,   \* uploads the server has not finished
    events,     \* permit events so far
    issued,     \* the permits issued are 1..issued
    window,     \* issued_at and revoked_at of every permit, revoked_at 0 for ACTIVE
    bootstraps, \* bootstrap requests: when they took issuedAt, the permit once committed
    enabled,    \* the device is the enabled offline leader
    order,      \* the canonical order with the key: "NONE", "ONLINE" or the state imported
    inbox,      \* domain_inbox
    receipts,   \* orders with a row in offline_order_sync_receipts
    open,       \* OPEN conflicts that name the canonical order
    flag,       \* offlineConflictStatus of the canonical order
    refused,    \* orders with a conflict row from a rejection
    created,    \* how many canonical orders were inserted with the key
    takenAt,    \* deviceCreatedAt of the imported order
    permitUsed  \* the permit the order was imported with

device == << local, queue, due, cash, expiring, held >>
permits == << events, issued, window, bootstraps, enabled >>
server == << order, inbox, receipts, open, flag, refused, created, takenAt, permitUsed >>
vars == << setup, device, tab, lock, faults, online, requests, permits, server >>

States == {"CONFIRMED", "PREPARING", "READY", "COMPLETED", "CANCELLED"}
Syncable == {"PENDING", "PROCESSING", "FAILED"}
Synced == {"SYNCED", "SYNCED_WITH_CONFLICT"}
SyncStates == Syncable \cup Synced \cup {"REJECTED"}
Outcomes == {"ACCEPTED", "ACCEPTED_WITH_CONFLICT", "DUPLICATE", "REJECTED"}
Kinds == {"CATALOGUE", "DEVICE_REVOKED"}
Phases == {"IDLE", "STARTED", "LOADED", "SENT", "ANSWERED", "APPLIED", "THROWN"}

\* A local order; stamp is lastRetryAt, era the time of creation, permit the one held then.
NoPayload == [state |-> "NONE", sync |-> "PENDING", retry |-> 0,
              stamp |-> 0, permit |-> 0, era |-> 0]
Payloads == [state : States \cup {"NONE", "PURGED"}, sync : SyncStates,
             retry : 0..(MaxRetry + 1), stamp : Nat, permit : Nat, era : Nat]
Idle == [phase |-> "IDLE", permit |-> 0, batch |-> << >>, answer |-> << >>]
NoInbox == [status |-> "NONE", hash |-> NoPayload]

TypeOK ==
    /\ setup \in Setups
    /\ local \in [Orders -> Payloads]
    /\ queue \in [Orders -> SyncStates \cup {"NONE"}]
    /\ due \in [Orders -> BOOLEAN]
    /\ cash \in {"NONE", "PENDING"}
    /\ expiring \subseteq Orders
    /\ events \in 0..setup.permits /\ issued \in 0..events /\ held \in 0..issued
    /\ window \in [1..issued -> [from : 0..events, till : 0..events]]
    /\ bootstraps \subseteq [at : 0..events, permit : 0..issued]
    /\ \A t \in Tabs :
        /\ tab[t].phase \in Phases
        /\ DOMAIN tab[t].batch \subseteq Orders
        /\ DOMAIN tab[t].answer \subseteq DOMAIN tab[t].batch
    /\ lock \in Tabs \cup {NoTab}
    /\ online \in [Orders -> {"NOT_SENT", "IN_FLIGHT", "OVER"}]
    /\ \A r \in requests :
        /\ r.left \subseteq DOMAIN r.batch
        /\ \A k \in DOMAIN r.out : r.out[k] \in Outcomes
        /\ r.thrown \in r.left \cup {NoOrder}
    /\ order \in [Orders -> States \cup {"NONE", "ONLINE"}]
    /\ \A k \in Orders : inbox[k].status \in {"NONE", "PROCESSED", "REJECTED"}
    /\ open \in [Orders -> SUBSET Kinds]
    /\ flag \in [Orders -> {"NONE", "OPEN", "RESOLVED"}]

Init ==
    /\ setup \in Setups
    /\ local = [k \in Orders |-> NoPayload]
    /\ queue = [k \in Orders |-> "NONE"]
    /\ due = [k \in Orders |-> FALSE]
    /\ cash = "NONE" /\ expiring = {} /\ held = 0
    /\ tab = [t \in Tabs |-> Idle]
    /\ lock = NoTab /\ faults = 0
    /\ online = [k \in Orders |-> "NOT_SENT"]
    /\ requests = {}
    /\ events = 0 /\ issued = 0 /\ window = << >> /\ bootstraps = {} /\ enabled = TRUE
    /\ order = [k \in Orders |-> "NONE"]
    /\ inbox = [k \in Orders |-> NoInbox]
    /\ receipts = {} /\ refused = {}
    /\ open = [k \in Orders |-> {}]
    /\ flag = [k \in Orders |-> "NONE"]
    /\ created = [k \in Orders |-> 0]
    /\ takenAt = [k \in Orders |-> 0]
    /\ permitUsed = [k \in Orders |-> 0]

(***************************************************************************)
(* Permits: issueOfflineBootstrap, applyOfflineManagementCommand and the   *)
(* bootstrap control of the device.                                        *)
(***************************************************************************)

\* The bootstrap request finds device and policy enabled and takes issuedAt.
BeginIssue ==
    /\ enabled /\ events < setup.permits
    /\ events' = events + 1
    /\ bootstraps' = bootstraps \cup {[at |-> events', permit |-> 0]}
    /\ UNCHANGED << setup, device, tab, lock, faults, online, requests, issued, window, enabled,
                    server >>

\* The ACTIVE permits are REVOKED at this event.
Revoked(p) == IF window[p].till = 0 THEN [window[p] EXCEPT !.till = events + 1] ELSE window[p]

\* Its transaction revokes the permits before and creates the new one, whatever became of the
\* device since.
CommitIssue(b) ==
    /\ b.permit = 0 /\ events < setup.permits
    /\ events' = events + 1 /\ issued' = issued + 1
    /\ window' = [p \in 1..(issued + 1) |->
                    IF p <= issued THEN Revoked(p) ELSE [from |-> b.at, till |-> 0]]
    /\ bootstraps' = (bootstraps \ {b}) \cup {[b EXCEPT !.permit = issued + 1]}
    /\ UNCHANGED << setup, device, tab, lock, faults, online, requests, enabled, server >>

\* The device stores the answer, if it arrives; the cash snapshot is replaced by one without
\* pending events.
SaveBootstrap(b) ==
    /\ b.permit # 0
    /\ held' = IF held = 0 \/ b.at > window[held].from THEN b.permit ELSE held
    /\ cash' = "NONE"
    /\ bootstraps' = bootstraps \ {b}
    /\ UNCHANGED << setup, local, queue, due, expiring, tab, lock, faults, online, requests,
                    events, issued, window, enabled, server >>

\* A manager disables the device, or assigns it as leader (again): either revokes permits.
SetLeader(on) ==
    /\ events < setup.permits /\ (on \/ enabled)
    /\ events' = events + 1 /\ enabled' = on
    /\ window' = [p \in 1..issued |-> Revoked(p)]
    /\ UNCHANGED << setup, device, tab, lock, faults, online, requests, issued, bootstraps,
                    server >>

(***************************************************************************)
(* The staff at the device.                                                *)
(***************************************************************************)

PostOnline(k) ==
    /\ k \in setup.orders /\ online[k] = "NOT_SENT"
    /\ online' = [online EXCEPT ![k] = "IN_FLIGHT"]
    /\ UNCHANGED << setup, device, tab, lock, faults, requests, permits, server >>

\* orders_stall_id_idempotency_key_key
KeyIsFreeAnyway(k) == TRUE
KeyIsFree(k) == order[k] = "NONE"

\* createStaffOrder commits, or finds the key taken; or the request is lost.
OnlineEnds(k) ==
    /\ online[k] = "IN_FLIGHT"
    /\ online' = [online EXCEPT ![k] = "OVER"]
    /\ \/ /\ KeyIsFree(k)
          /\ order' = [order EXCEPT ![k] = "ONLINE"]
          /\ created' = [created EXCEPT ![k] = @ + 1]
       \/ UNCHANGED << order, created >>
    /\ UNCHANGED << setup, device, tab, lock, faults, requests, permits,
                    inbox, receipts, open, flag, refused, takenAt, permitUsed >>

Unsynchronized == {k \in Orders : /\ local[k].state \in States
                                  /\ local[k].sync \in Syncable \cup {"REJECTED"}}

\* The composer saw no answer and falls back to createOfflineOrder with the same key.
CreateOffline(k) ==
    /\ online[k] # "NOT_SENT" /\ local[k].state = "NONE"
    /\ held > 0
    /\ Cardinality(Unsynchronized) < setup.pending
    /\ local' = [local EXCEPT ![k] = [NoPayload EXCEPT
                    !.state = "CONFIRMED", !.permit = held, !.era = events]]
    /\ queue' = [queue EXCEPT ![k] = "PENDING"]
    /\ due' = [due EXCEPT ![k] = TRUE]
    /\ UNCHANGED << setup, cash, expiring, held, tab, lock, faults, online, requests, permits,
                    server >>

CanTransition == {<< "CONFIRMED", "PREPARING" >>, << "CONFIRMED", "READY" >>,
                  << "PREPARING", "READY" >>, << "READY", "COMPLETED" >>,
                  << "CONFIRMED", "CANCELLED" >>, << "PREPARING", "CANCELLED" >>,
                  << "READY", "CANCELLED" >>}

\* The payload parses: retryCount is at most MaxRetry.
ParsesAnything(k) == TRUE
Parses(k) == local[k].retry <= MaxRetry

\* transitionOfflineOrder: the row of the queue is left alone.  An order that is not paid is
\* not completed: the choice of the staff to complete it stands for that too.
Transition(k, s) ==
    /\ k \in Unsynchronized /\ Parses(k)
    /\ << local[k].state, s >> \in CanTransition
    /\ local' = [local EXCEPT ![k].state = s, ![k].sync = "PENDING"]
    /\ UNCHANGED << setup, queue, due, cash, expiring, held, tab, lock, faults, online, requests,
                    permits, server >>

RecordCashEvent ==
    /\ setup.cash /\ held > 0 /\ cash = "NONE"
    /\ cash' = "PENDING"
    /\ UNCHANGED << setup, local, queue, due, expiring, held, tab, lock, faults, online, requests,
                    permits, server >>

\* Time passes: the backoff or the processing lease of a row ends.
Tick(k) ==
    /\ queue[k] \in Syncable /\ ~due[k]
    /\ due' = [due EXCEPT ![k] = TRUE]
    /\ UNCHANGED << setup, local, queue, cash, expiring, held, tab, lock, faults, online, requests,
                    permits, server >>

(***************************************************************************)
(* A tab uploads: synchronizeOfflineQueue.                                 *)
(***************************************************************************)

SelectedUnclaimed == {k \in Orders : /\ queue[k] \in {"PENDING", "FAILED"} /\ due[k]
                                     /\ local[k].state \in States}
Selected == {k \in Orders : queue[k] \in Syncable /\ due[k] /\ local[k].state \in States}

\* getOfflineSyncContext reads the permit before the lock is taken and the batch loaded.
Start(t) ==
    /\ t \in setup.tabs /\ tab[t].phase = "IDLE" /\ held > 0
    /\ tab' = [tab EXCEPT ![t] = [Idle EXCEPT !.phase = "STARTED", !.permit = held]]
    /\ UNCHANGED << setup, device, lock, faults, online, requests, permits, server >>

\* loadOfflineSyncBatch parses every selected record and throws when one does not parse: an
\* order retried more than MaxRetry times, or a cash event, which is stored with sync_status
\* and queue_id and parsed by a strict schema.
Loads == cash # "PENDING" /\ \A k \in Selected : Parses(k)

Load(t) ==
    /\ tab[t].phase = "STARTED" /\ lock = NoTab
    /\ Selected # {} /\ Loads
    /\ lock' = t
    /\ tab' = [tab EXCEPT ![t] = [Idle EXCEPT !.phase = "LOADED", !.permit = tab[t].permit,
                                              !.batch = [k \in Selected |-> local[k]]]]
    /\ UNCHANGED << setup, device, faults, online, requests, permits, server >>

\* Another tab has the lock, there is nothing to upload or purge, or the batch throws.
Stop(t) ==
    /\ tab[t].phase = "STARTED"
    /\ lock # NoTab \/ Selected = {} \/ ~Loads
    /\ tab' = [tab EXCEPT ![t] = Idle]
    /\ UNCHANGED << setup, device, lock, faults, online, requests, permits, server >>

\* markOfflineSyncAttempt: whatever the row says by now.
Stamp(K, s, n) ==
    /\ queue' = [k \in Orders |-> IF k \in K THEN s ELSE queue[k]]
    /\ due' = [k \in Orders |-> due[k] /\ k \notin K]
    /\ local' = [k \in Orders |->
                  IF k \notin K \/ local[k].state = "PURGED" \/ ~Parses(k) THEN local[k]
                  ELSE [local[k] EXCEPT !.sync = s, !.retry = @ + n, !.stamp = @ + 1]]

MarkAndSend(t) ==
    /\ tab[t].phase = "LOADED"
    /\ Stamp(DOMAIN tab[t].batch, "PROCESSING", 0)
    /\ tab' = [tab EXCEPT ![t].phase = "SENT"]
    /\ requests' = requests \cup
         {[tab |-> t, permit |-> tab[t].permit, batch |-> tab[t].batch,
           left |-> DOMAIN tab[t].batch, out |-> << >>, thrown |-> NoOrder,
           revoked |-> FALSE, read |-> FALSE]}
    /\ UNCHANGED << setup, cash, expiring, held, lock, faults, online, permits, server >>

Release(t) == lock' = IF lock = t THEN NoTab ELSE lock

\* The upload fails: FAILED, with backoff.  The server may still be working on it.
MarkFailed(t) ==
    /\ Stamp(DOMAIN tab[t].batch, "FAILED", 1)
    /\ tab' = [tab EXCEPT ![t] = Idle]
    /\ Release(t)

Disowned(t) == {r \in requests : r.tab # t} \cup
               {[r EXCEPT !.tab = NoTab] : r \in {q \in requests : q.tab = t}}

NetworkFails(t) ==
    /\ tab[t].phase = "SENT" /\ faults < setup.faults
    /\ faults' = faults + 1
    /\ MarkFailed(t)
    /\ requests' \in {Disowned(t), {r \in requests : r.tab # t}}
    /\ UNCHANGED << setup, cash, expiring, held, online, permits, server >>

\* The server answered with an error: the request is gone.
ErrorArrives(t) ==
    /\ tab[t].phase = "SENT" /\ \A r \in requests : r.tab # t
    /\ MarkFailed(t)
    /\ UNCHANGED << setup, cash, expiring, held, faults, online, requests, permits, server >>

AnswerArrives(t) ==
    /\ tab[t].phase = "SENT"
    /\ \E r \in requests :
        /\ r.tab = t /\ r.left = {}
        /\ tab' = [tab EXCEPT ![t].phase = "ANSWERED", ![t].answer = r.out]
        /\ requests' = requests \ {r}
    /\ UNCHANGED << setup, device, lock, faults, online, permits, server >>

LocalStatus(outcome) ==
    CASE outcome = "REJECTED" -> "REJECTED"
      [] outcome = "ACCEPTED_WITH_CONFLICT" -> "SYNCED_WITH_CONFLICT"
      [] OTHER -> "SYNCED"

\* applyOfflineSyncResponse: the stored order keeps its state and takes the status; an accepted
\* one is to be purged, seven days later.
Apply(t) ==
    /\ tab[t].phase = "ANSWERED"
    /\ LET answer == tab[t].answer IN
        /\ queue' = [k \in Orders |-> IF k \in DOMAIN answer THEN LocalStatus(answer[k])
                                                              ELSE queue[k]]
        /\ local' = [k \in Orders |->
                      IF k \in DOMAIN answer /\ local[k].state # "PURGED"
                      THEN [local[k] EXCEPT !.sync = LocalStatus(answer[k])] ELSE local[k]]
        /\ due' = [k \in Orders |-> due[k] \/ k \in DOMAIN answer]
        /\ expiring' = {k \in Orders :
                          IF k \in DOMAIN answer
                          THEN LocalStatus(answer[k]) \in Synced /\ local[k].state # "PURGED"
                          ELSE k \in expiring}
    /\ tab' = [tab EXCEPT ![t].phase = "APPLIED"]
    /\ UNCHANGED << setup, cash, held, lock, faults, online, requests, permits, server >>

\* purgeExpiredOfflinePayloads finds no order whose seven days are over.
Finish(t) ==
    /\ tab[t].phase = "APPLIED"
    /\ tab' = [tab EXCEPT ![t] = Idle]
    /\ Release(t)
    /\ UNCHANGED << setup, device, faults, online, requests, permits, server >>

\* Or it deletes the first such order and throws: it asks offline_print_jobs for an index that
\* store does not have.  The deletion commits.
PurgeFirst(k) ==
    /\ k \in expiring
    /\ local' = [local EXCEPT ![k].state = "PURGED"]
    /\ expiring' = expiring \ {k}
    /\ UNCHANGED << setup, queue, due, cash, held, lock, faults, online, requests, permits,
                    server >>

PurgeThrows(t, k) ==
    /\ tab[t].phase = "APPLIED" /\ k \notin DOMAIN tab[t].answer
    /\ tab' = [tab EXCEPT ![t].phase = "THROWN"]
    /\ PurgeFirst(k)

\* The catch of the upload: the batch just synchronised is FAILED.
CatchPurge(t) ==
    /\ tab[t].phase = "THROWN"
    /\ MarkFailed(t)
    /\ UNCHANGED << setup, cash, expiring, held, faults, online, requests, permits, server >>

\* The purge of a run that finds nothing to upload; nobody catches what it throws.
PurgeWhenEmpty(t, k) ==
    /\ tab[t].phase = "STARTED" /\ lock = NoTab
    /\ Selected = {} /\ Loads
    /\ tab' = [tab EXCEPT ![t] = Idle]
    /\ PurgeFirst(k)

Uploading(t) == tab[t].phase \notin {"IDLE", "STARTED"}

\* A tab is closed or crashes; the browser frees its lock, a lease stays until it expires.
CrashTab(t) ==
    /\ Uploading(t) /\ faults < setup.faults
    /\ faults' = faults + 1
    /\ tab' = [tab EXCEPT ![t] = Idle]
    /\ requests' = Disowned(t)
    /\ IF setup.lease THEN UNCHANGED lock ELSE Release(t)
    /\ UNCHANGED << setup, device, online, permits, server >>

\* The lease of a tab that crashed expires.
LeaseExpires ==
    /\ setup.lease /\ lock # NoTab /\ ~Uploading(lock)
    /\ lock' = NoTab
    /\ UNCHANGED << setup, device, tab, faults, online, requests, permits, server >>

\* A frozen tab does not renew its lease, and goes on later.
LeaseLost ==
    /\ setup.lease /\ lock # NoTab /\ Uploading(lock) /\ faults < setup.faults
    /\ lock' = NoTab
    /\ faults' = faults + 1
    /\ UNCHANGED << setup, device, tab, online, requests, permits, server >>

(***************************************************************************)
(* The server: importOfflineSyncBatch.                                     *)
(***************************************************************************)

\* resolveSharedSyncContext reads the permit and the device once for the whole request.
ReadContext(r) ==
    /\ ~r.read
    /\ requests' = (requests \ {r}) \cup
         IF enabled THEN {[r EXCEPT !.read = TRUE, !.revoked = window[r.permit].till # 0]}
         ELSE {}
    /\ UNCHANGED << setup, device, tab, lock, faults, online, permits, server >>

\* An error that is not a conflict ends the request; what was imported stays.
ServerFails(r) ==
    /\ faults < setup.faults
    /\ faults' = faults + 1
    /\ requests' = requests \ {r}
    /\ UNCHANGED << setup, device, tab, lock, online, permits, server >>

Working(r, k) == r.read /\ r.thrown = NoOrder /\ k \in r.left
Reply(r, k, outcome) ==
    requests' = (requests \ {r}) \cup
        {[r EXCEPT !.left = @ \ {k}, !.thrown = NoOrder,
                   !.out = [j \in DOMAIN r.out \cup {k} |->
                            IF j = k THEN outcome ELSE r.out[j]]]}

\* adjustedDeviceTime: the time of creation, shifted by what passed between clientSentAt and
\* the server's look at the record.
Adjusted(r, k) == r.batch[k].era..events

\* assertRecordScope and the revocation check: not before the permit was issued and, where
\* resolveSharedSyncContext read a revocation, before it.
InScopeThoughRevoked(r, at) == at >= window[r.permit].from
InScope(r, at) ==
    /\ at >= window[r.permit].from
    /\ r.revoked => at < window[r.permit].till

\* The inbox holds this key with another payload.
Mismatch(r, k) == inbox[k].status # "NONE" /\ inbox[k].hash # r.batch[k]

\* As many orders as the permit allows were imported with a deviceCreatedAt in its window.
LimitReached(r) ==
    Cardinality({j \in Orders : order[j] \in States /\ takenAt[j] >= window[r.permit].from}) + 1
        > setup.pending

\* Replays inside the transaction: a rejected inbox row, then a receipt.
Replay(r, k) ==
    /\ Working(r, k) /\ ~Mismatch(r, k)
    /\ \E at \in Adjusted(r, k) : InScope(r, at)
    /\ inbox[k].status # "NONE"
    /\ Reply(r, k, IF inbox[k].status = "REJECTED" THEN "REJECTED" ELSE "DUPLICATE")
    /\ UNCHANGED << setup, device, tab, lock, faults, online, permits, server >>

\* matchesExistingOrderReplay: the composer's online order has the key.
Reconcile(r, k) ==
    /\ Working(r, k)
    /\ \E at \in Adjusted(r, k) : InScope(r, at)
    /\ inbox[k].status = "NONE" /\ order[k] = "ONLINE"
    /\ receipts' = receipts \cup {k}
    /\ inbox' = [inbox EXCEPT ![k] = [status |-> "PROCESSED", hash |-> r.batch[k]]]
    /\ Reply(r, k, "DUPLICATE")
    /\ UNCHANGED << setup, device, tab, lock, faults, online, permits,
                    order, open, flag, refused, created, takenAt, permitUsed >>

\* currentProductConflicts may find the products changed; a revoked permit is one too.
ConflictSets(r) ==
    {found \cup (IF r.revoked THEN {"DEVICE_REVOKED"} ELSE {}) :
        found \in SUBSET (IF setup.edited THEN {"CATALOGUE"} ELSE {})}

\* The order is created, with the conflicts found on the way.
Import(r, k) ==
    /\ Working(r, k)
    /\ \E at \in Adjusted(r, k) :
        /\ InScope(r, at)
        /\ takenAt' = [takenAt EXCEPT ![k] = at]
    /\ inbox[k].status = "NONE" /\ KeyIsFree(k) /\ ~LimitReached(r)
    /\ \E conflicts \in ConflictSets(r) :
        /\ open' = [open EXCEPT ![k] = conflicts]
        /\ flag' = [flag EXCEPT ![k] = IF conflicts = {} THEN "NONE" ELSE "OPEN"]
        /\ Reply(r, k, IF conflicts = {} THEN "ACCEPTED" ELSE "ACCEPTED_WITH_CONFLICT")
    /\ order' = [order EXCEPT ![k] = r.batch[k].state]
    /\ created' = [created EXCEPT ![k] = @ + 1]
    /\ permitUsed' = [permitUsed EXCEPT ![k] = r.permit]
    /\ receipts' = receipts \cup {k}
    /\ inbox' = [inbox EXCEPT ![k] = [status |-> "PROCESSED", hash |-> r.batch[k]]]
    /\ UNCHANGED << setup, device, tab, lock, faults, online, permits, refused >>

\* OfflineRecordConflictError: the transaction rolls back.  A permit with another menu
\* version than the order's throws as well.
Throw(r, k) ==
    /\ Working(r, k)
    /\ \/ \E at \in Adjusted(r, k) : ~InScope(r, at)
       \/ r.batch[k].permit # r.permit
       \/ Mismatch(r, k)
       \/ inbox[k].status = "NONE" /\ KeyIsFree(k) /\ LimitReached(r)
    /\ requests' = (requests \ {r}) \cup {[r EXCEPT !.thrown = k]}
    /\ UNCHANGED << setup, device, tab, lock, faults, online, permits, server >>

\* rejectRecordWithConflict, in a transaction of its own: an inbox row is never replaced.
InboxAfterRejection(k, p) ==
    IF inbox[k].status = "NONE" THEN [status |-> "REJECTED", hash |-> p] ELSE inbox[k]

\* findOrCreateConflict: the manager's row.
RefusedOnce(k) == IF inbox[k].status = "NONE" THEN refused \cup {k} ELSE refused
Refused(k) == refused \cup {k}

RejectRecord(r) ==
    /\ r.thrown # NoOrder
    /\ inbox' = [inbox EXCEPT ![r.thrown] =
                   InboxAfterRejection(r.thrown, r.batch[r.thrown])]
    /\ refused' = Refused(r.thrown)
    /\ Reply(r, r.thrown, "REJECTED")
    /\ UNCHANGED << setup, device, tab, lock, faults, online, permits,
                    order, receipts, open, flag, created, takenAt, permitUsed >>

\* Nobody waits for the answer of an abandoned request.
DropAnswer(r) ==
    /\ r.tab = NoTab /\ r.left = {}
    /\ requests' = requests \ {r}
    /\ UNCHANGED << setup, device, tab, lock, faults, online, permits, server >>

\* resolveOfflineSyncConflict: the order is RESOLVED with its last open conflict.
ResolvedFlag(k, c) == IF open[k] = {c} THEN "RESOLVED" ELSE flag[k]

ResolveConflict(k, c) ==
    /\ c \in open[k]
    /\ open' = [open EXCEPT ![k] = @ \ {c}]
    /\ flag' = [flag EXCEPT ![k] = ResolvedFlag(k, c)]
    /\ UNCHANGED << setup, device, tab, lock, faults, online, requests, permits,
                    order, inbox, receipts, refused, created, takenAt, permitUsed >>

Upload(t) == \/ Start(t) \/ Load(t) \/ Stop(t) \/ MarkAndSend(t) \/ AnswerArrives(t) \/ Apply(t)
             \/ Finish(t) \/ ErrorArrives(t) \/ CatchPurge(t)
Serve == \E r \in requests :
            \/ ReadContext(r) \/ RejectRecord(r) \/ DropAnswer(r)
            \/ \E k \in Orders : Replay(r, k) \/ Reconcile(r, k) \/ Import(r, k) \/ Throw(r, k)
Clock == \E k \in Orders : Tick(k)

Next ==
    \/ Serve \/ Clock
    \/ \E t \in Tabs : \/ Upload(t) \/ NetworkFails(t) \/ CrashTab(t)
                       \/ \E k \in Orders : PurgeThrows(t, k) \/ PurgeWhenEmpty(t, k)
    \/ \E r \in requests : ServerFails(r)
    \/ LeaseExpires \/ LeaseLost
    \/ BeginIssue \/ RecordCashEvent
    \/ \E b \in bootstraps : CommitIssue(b) \/ SaveBootstrap(b)
    \/ \E on \in BOOLEAN : SetLeader(on)
    \/ \E k \in Orders : \/ PostOnline(k) \/ OnlineEnds(k) \/ CreateOffline(k)
                         \/ \E s \in setup.moves : Transition(k, s)
                         \/ \E c \in Kinds : ResolveConflict(k, c)

Spec == Init /\ [][Next]_vars

\* The coordinator of every tab runs every 30 seconds, uploads end, the server answers, time
\* passes and a lease that is not renewed expires.
FairSpec ==
    /\ Spec /\ \A t \in Tabs : WF_vars(Upload(t))
    /\ WF_vars(Serve) /\ WF_vars(Clock) /\ WF_vars(LeaseExpires)

(***************************************************************************)
(* What synchronisation promises.                                          *)
(***************************************************************************)

\* A settled row is backed by the server: an order the device calls synced has a canonical
\* order and a receipt, one it calls rejected has a conflict for the manager to see, the inbox
\* and the receipts agree about which records were taken, although a rejection is written in a
\* later transaction than the one that threw, and an order shows OPEN as long as it has an open
\* conflict.  It is not said that a rejected row has no canonical order: a resend differs from
\* the record that was imported by its retry count and is rejected as a mismatch.
SettledIsReal ==
    \A k \in Orders :
        /\ queue[k] \in Synced => k \in receipts /\ order[k] # "NONE"
        /\ queue[k] = "REJECTED" => k \in refused
        /\ (inbox[k].status = "PROCESSED") <=> (k \in receipts)
        /\ (flag[k] = "OPEN") <=> (open[k] # {})

\* Whatever is lost, resent or abandoned, one canonical order is created for a key, by the
\* composer online or by the import.
CreatedOnce == \A k \in Orders : created[k] <= 1

\* An order taken after its permit was revoked is not imported with it, although the device may
\* never have heard of the revocation, the server reads it once per request, may be revoking
\* meanwhile, and sees the time of creation shifted.
ImportedWithinPermit ==
    \A k \in Orders : order[k] \in States =>
        LET revokedAt == window[permitUsed[k]].till
        IN  revokedAt = 0 \/ local[k].era < revokedAt

\* Every queued order is settled, unless a record that does not parse, an offline cash event
\* or an order retried too often, keeps every batch from being loaded.
BatchThrows == cash = "PENDING" \/ \E k \in Orders : queue[k] \in Syncable /\ ~Parses(k)

EventuallySettled ==
    \A k \in Orders : (queue[k] = "PENDING") ~> (queue[k] \notin Syncable \/ BatchThrows)
=============================================================================

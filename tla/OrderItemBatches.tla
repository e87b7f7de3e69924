-------------------------- MODULE OrderItemBatches ---------------------------
(***************************************************************************)
(* The order-items/batch route beside the requests of OrderLifecycle.      *)
(* Staff move selected items forward, and may take that back for five      *)
(* seconds.  The transaction locks the items and not the order: it reads   *)
(* the status of the order, derives a new one from the items and writes it *)
(* by id, while others change the order.  Only the items that start the    *)
(* production of an order hold it: a trigger marks its stock consumed.     *)
(***************************************************************************)
EXTENDS OrderLifecycle

CONSTANT NoBatch

VARIABLES
    consumed,   \* orders.stock_consumed
    batch,      \* [Staff -> the transaction of the route a staff member has open]
    undoable    \* [Staff -> the last action of the staff member, to be taken back]

batchVars == << vars, consumed, batch, undoable >>

\* Items a transaction holds; the new status of each waits for the commit.
Locked(s) == IF batch[s] = NoBatch THEN {} ELSE DOMAIN batch[s].items

\* The items as the transaction of s sees them: its own writes included.
Seen(s) == [i \in Lines |-> IF i \in Locked(s) THEN batch[s].items[i] ELSE item[i]]

\* The transaction of s has written orders.stock_consumed and not committed.
OrderHeld == \E s \in Staff : batch[s] # NoBatch /\ batch[s].holds

BatchInit ==
    /\ Init
    /\ consumed = FALSE
    /\ batch = [s \in Staff |-> NoBatch]
    /\ undoable = [s \in Staff |-> NoBatch]

-----------------------------------------------------------------------------
Begin(s, items, undo) ==
    /\ batch[s] = NoBatch
    /\ \A t \in Staff : Locked(t) \cap DOMAIN items = {}
    /\ batch' = [batch EXCEPT ![s] =
         [phase |-> "DERIVE", items |-> items, before |-> [i \in DOMAIN items |-> item[i]],
          undo |-> undo, holds |-> FALSE,
          read |-> status, to |-> status]]
    /\ UNCHANGED << vars, undoable >>

\* applyBatchUpdate, up to the item updates.
ApplyBatchUpdate(s) ==
    /\ \E from \in DOMAIN NextItem : \E some \in SUBSET {i \in Lines : item[i] = from} :
         /\ some # {} /\ status \in Open
         /\ NextItem[from] = "PREPARING" /\ status = "CONFIRMED" => ~ blocked
         /\ Begin(s, [i \in some |-> NextItem[from]], FALSE)

\* undoBatchUpdate, up to the item updates: the items must be as the action
\* left them, and the order is not asked.  An item put in another's place keeps
\* its name here; it has not been produced within five seconds of its order.
UndoBatchUpdate(s) ==
    /\ undoable[s] # NoBatch
    /\ \A i \in DOMAIN undoable[s].items : i \in Lines /\ item[i] = undoable[s].items[i]
    /\ Begin(s, undoable[s].before, TRUE)

\* The item updates with their trigger, then refreshOrderStatuses: the read,
\* and what deriveOrderStatusFromItems says.
DeriveStatus(s) ==
    /\ batch[s] # NoBatch /\ batch[s].phase = "DERIVE"
    /\ ~ OrderHeld
    /\ batch' = [batch EXCEPT ![s].phase = "COMMIT", ![s].holds = ~ consumed,
                              ![s].read = status, ![s].to = StatusFromItems(Seen(s))]
    /\ UNCHANGED << vars, undoable >>

\* The update by id, when the derived status is another one, and the commit.
CommitBatch(s) ==
    /\ batch[s] # NoBatch /\ batch[s].phase = "COMMIT"
    /\ IF batch[s].to # batch[s].read
         THEN SetStatus(batch[s].to, Seen(s))
         ELSE item' = Seen(s) /\ UNCHANGED << status, grace, task >>
    /\ undoable' = [undoable EXCEPT ![s] = IF batch[s].undo THEN NoBatch ELSE batch[s]]
    /\ batch' = [batch EXCEPT ![s] = NoBatch]
    /\ UNCHANGED << kind, money, verified, blocked, kds, platform, req >>

\* A crash or a conflict: the transaction is rolled back.
RollBack(s) ==
    /\ batch[s] # NoBatch
    /\ batch' = [batch EXCEPT ![s] = NoBatch]
    /\ UNCHANGED << vars, undoable >>

\* Five seconds have passed.
UndoExpires(s) ==
    /\ undoable[s] # NoBatch
    /\ undoable' = [undoable EXCEPT ![s] = NoBatch]
    /\ UNCHANGED << vars, batch >>

\* The other requests wait for the items that a transaction holds, and for
\* the order; one that replaces items waits for all of them.
OtherRequest ==
    /\ Next
    /\ \A s \in Staff : Locked(s) # {} => kind' = kind /\ \A i \in Locked(s) : item'[i] = item[i]
    /\ OrderHeld => UNCHANGED << status, pay, verified, item >>
    /\ UNCHANGED << batch, undoable >>

\* mark_order_stock_consumed
Produced ==
    \/ status \in {"PREPARING", "PACKING", "READY", "COMPLETED"}
    \/ \E i \in Lines : item[i] # "PENDING"

BatchNext ==
    /\ \/ OtherRequest
       \/ \E s \in Staff : \/ ApplyBatchUpdate(s) \/ UndoBatchUpdate(s) \/ DeriveStatus(s)
                           \/ CommitBatch(s) \/ RollBack(s) \/ UndoExpires(s)
    /\ consumed' = (consumed \/ Produced')

BatchSpec == BatchInit /\ [][BatchNext]_batchVars
=============================================================================

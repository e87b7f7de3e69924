---------------------------- MODULE MCOfflineSync ----------------------------
(* Instances of OfflineSync for TLC.                                         *)
EXTENDS OfflineSync, TLC

CONSTANTS k1, k2, t1, t2

TwoOrders == {k1, k2}
TwoTabs == {t1, t2}

\* Two tabs whose lease may be lost, and one order that goes on while it is sent.
TabsRace == [orders |-> {k1}, tabs |-> TwoTabs, lease |-> TRUE, cash |-> FALSE,
             moves |-> {"READY"}, edited |-> TRUE, pending |-> 1, faults |-> 1, permits |-> 2]

\* Two faults: a lease that is lost and an upload that fails.
TwoFaults == [TabsRace EXCEPT !.moves = {}, !.edited = FALSE, !.faults = 2]

\* Permits renewed twice or revoked while an order waits or is being imported, and a cash event.
PermitsChange == [orders |-> {k1}, tabs |-> {t1}, lease |-> FALSE, cash |-> TRUE,
                  moves |-> {}, edited |-> TRUE, pending |-> 1, faults |-> 0, permits |-> 4]

\* Permits renewed around an upload that fails.
PermitAndFault == [PermitsChange EXCEPT !.cash = FALSE, !.edited = FALSE, !.faults = 1]

\* Batches of two orders.
Batches == [orders |-> TwoOrders, tabs |-> {t1}, lease |-> FALSE, cash |-> FALSE,
            moves |-> {}, edited |-> FALSE, pending |-> 2, faults |-> 1, permits |-> 2]

\* A second order over the limit of the permit.
LimitIsMet == [Batches EXCEPT !.pending = 1, !.faults = 0]

AllSetups == {TabsRace, TwoFaults, PermitsChange, PermitAndFault, Batches, LimitIsMet}
=============================================================================

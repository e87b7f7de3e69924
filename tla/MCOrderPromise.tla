---------------------------- MODULE MCOrderPromise ----------------------------
(* Instances of FulfillmentTime and PickupCodes for TLC: a behaviour runs one *)
(* of the two, which share no state, and leaves the other as it was.          *)
EXTENDS FulfillmentTime, PickupCodes, TLC

CONSTANTS s1, s2, t1, t2, o1, o2, l1, l2

TwoStaff == {s1, s2}
TwoTimes == {t1, t2}
FourOrders == {o1, o2, l1, l2}
TwoLegacy == {l1, l2}

VARIABLE promise    \* "TIME" or "CODE"

\* What a behaviour leaves as it was starts in one way only.
PromiseInit ==
    /\ promise \in {"TIME", "CODE"}
    /\ TimeInit /\ Init
    /\ promise = "TIME" => /\ due = [o \in Orders |-> 1]
                           /\ code = [o \in Orders |-> None]
    /\ promise = "CODE" => status = "CONFIRMED" /\ requested = NoTime /\ ~ kds

PromiseNext ==
    /\ UNCHANGED promise
    /\ \/ promise = "TIME" /\ TimeNext /\ UNCHANGED vars
       \/ promise = "CODE" /\ Next /\ UNCHANGED timeVars

PromiseSpec == PromiseInit /\ [][PromiseNext]_<< promise, timeVars, vars >>

Symmetry == Permutations(TwoStaff) \cup Permutations(TwoTimes)
            \cup Permutations({o1, o2}) \cup Permutations(TwoLegacy)
=============================================================================

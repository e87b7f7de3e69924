--------------------------- MODULE MCOrderPlacement ---------------------------
(* Instances of PublicOrderCircuit and StallStock for TLC: a behaviour runs   *)
(* one of the two, which share no state, and leaves the other as it was.  c3  *)
(* and c4 are calls of the composer, which passes no abort signal; the others *)
(* may be aborted.                                                            *)
EXTENDS PublicOrderCircuit, StallStock

CONSTANTS c1, c2, c3, c4, p1, p2, o1, o2, m1

FourCalls == {c1, c2, c3, c4}
TrackerCalls == {c1, c2}
EitherIntake == BOOLEAN

TwoProducts == {p1, p2}
TwoOrders == {o1, o2}
OneEditor == {m1}

\* p1 is the product whose stock is counted, amended and restocked at length; p2
\* shares baskets with it.
Quantities == [p \in TwoProducts |-> IF p = p1 THEN 2 ELSE 1]
Versions == [p \in TwoProducts |-> IF p = p1 THEN 3 ELSE 1]

VARIABLE placement    \* "CIRCUIT" or "STOCK"

PlacementInit == placement \in {"CIRCUIT", "STOCK"} /\ CircuitInit /\ StockInit

\* A step of the breaker or of its calls, in a behaviour that runs them.
OfCircuit(A) == placement = "CIRCUIT" /\ A

\* The orders are alike: o1 is the one that is begun first.
OfStock(A) == placement = "STOCK" /\ A /\ (status[o1] = "ABSENT" => status'[o2] = "ABSENT")

PlacementNext ==
    /\ UNCHANGED placement
    /\ \/ OfCircuit(CircuitNext) /\ UNCHANGED stockVars
       \/ OfStock(StockNext) /\ UNCHANGED circuitVars

\* The fairness of CircuitFairSpec.
PlacementSpec ==
    /\ PlacementInit
    /\ [][PlacementNext]_<< placement, circuitVars, stockVars >>
    /\ WF_circuitVars(OfCircuit(Tick))
    /\ \A c \in Calls : WF_circuitVars(OfCircuit(Step(c)))
    /\ SF_circuitVars(OfCircuit(\E c \in Calls : PrimaryAnswers(c)))
=============================================================================

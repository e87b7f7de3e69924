------------------------ MODULE MCDeliveryOrderImport ------------------------
(* An instance of DeliveryOrderImport for TLC.                              *)
EXTENDS DeliveryOrderImport

CONSTANTS e1, e2, w1, w2

TwoEvents == {e1, e2}
TwoWorkers == {w1, w2}

\* Up to the order of the events: two references, a reference and an order, two
\* orders, and an order beside an event that carries none.
KindPairs ==
    {[e \in TwoEvents |-> IF e = e1 THEN "REFERENCE" ELSE second] : second \in {"REFERENCE", "ORDER"}}
    \cup {[e \in TwoEvents |-> IF e = e1 THEN "ORDER" ELSE second] : second \in {"ORDER", "OTHER"}}
=============================================================================

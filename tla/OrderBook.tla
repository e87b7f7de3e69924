------------------------------ MODULE OrderBook ------------------------------
(***************************************************************************)
(* What public order intake promises, without requests, retries or         *)
(* crashes: a table session takes at most one order, a submission (an      *)
(* idempotency key) is taken at most once, and what is booked stays.       *)
(***************************************************************************)
CONSTANTS Sessions, Keys

VARIABLE booked     \* the pairs of a session and the key it took an order for

Init == booked = {}

Book(s, k) ==
    /\ \A b \in booked : b[1] # s /\ b[2] # k
    /\ booked' = booked \cup {<< s, k >>}

Next == \E s \in Sessions, k \in Keys : Book(s, k)

Spec == Init /\ [][Next]_booked
=============================================================================

--------------------------- MODULE BoundedDelivery ---------------------------
(***************************************************************************)
(* What the notification outbox promises, without workers, claims, leases  *)
(* or clocks: a message is tried Limit times at most and taken at most     *)
(* once per try; it is called delivered only after it was taken, and given *)
(* up only when its tries are used up or it was refused for good; and what *)
(* is settled stays so.                                                    *)
(***************************************************************************)
EXTENDS Naturals

CONSTANTS Messages, Limit

VARIABLES
    state,      \* [Messages -> "ABSENT", "PENDING", "DELIVERED" or "FAILED"]
    tries,      \* how often it was tried
    taken,      \* how often the provider took it
    refused     \* the messages the provider refused for good

Init ==
    /\ state = [m \in Messages |-> "ABSENT"]
    /\ tries = [m \in Messages |-> 0]
    /\ taken = [m \in Messages |-> 0]
    /\ refused = {}

Commit(m) ==
    /\ state[m] = "ABSENT"
    /\ state' = [state EXCEPT ![m] = "PENDING"]
    /\ UNCHANGED << tries, taken, refused >>

\* Some messages are given up and others are tried.
Round(hopeless, batch) ==
    /\ \A m \in hopeless : state[m] = "PENDING" /\ (tries[m] = Limit \/ m \in refused)
    /\ \A m \in batch : state[m] = "PENDING" /\ tries[m] < Limit /\ m \notin hopeless
    /\ state' = [m \in Messages |-> IF m \in hopeless THEN "FAILED" ELSE state[m]]
    /\ tries' = [m \in Messages |-> IF m \in batch THEN tries[m] + 1 ELSE tries[m]]
    /\ UNCHANGED << taken, refused >>

Take(m) ==
    /\ state[m] = "PENDING" /\ taken[m] < tries[m]
    /\ taken' = [taken EXCEPT ![m] = @ + 1]
    /\ UNCHANGED << state, tries, refused >>

Refuse(m) ==
    /\ state[m] = "PENDING" /\ taken[m] < tries[m]
    /\ refused' = refused \cup {m}
    /\ UNCHANGED << state, tries, taken >>

Confirm(m) ==
    /\ state[m] = "PENDING" /\ taken[m] > 0
    /\ state' = [state EXCEPT ![m] = "DELIVERED"]
    /\ UNCHANGED << tries, taken, refused >>

Next ==
    \/ \E m \in Messages : Commit(m) \/ Take(m) \/ Refuse(m) \/ Confirm(m)
    \/ \E hopeless, batch \in SUBSET Messages : Round(hopeless, batch)

Spec == Init /\ [][Next]_<< state, tries, taken, refused >>
=============================================================================

------------------------ MODULE MCNotificationOutbox ------------------------
(* An instance of NotificationOutbox for TLC.                               *)
EXTENDS NotificationOutbox

CONSTANTS e1, w1, w2, w3

MCEntries == {e1}
MCWorkers == {w1, w2, w3}
MCRetryDelays == << 1, 2 >>
=============================================================================

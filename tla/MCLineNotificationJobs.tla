----------------------- MODULE MCLineNotificationJobs -----------------------
(* An instance of LineNotificationJobs for TLC.                             *)
EXTENDS LineNotificationJobs

CONSTANTS j1, w1, w2

OneJob == {j1}
TwoWorkers == {w1, w2}
=============================================================================

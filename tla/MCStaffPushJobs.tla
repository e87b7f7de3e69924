--------------------------- MODULE MCStaffPushJobs ---------------------------
(* An instance of StaffPushJobs for TLC.                                    *)
EXTENDS StaffPushJobs

CONSTANTS d1, w1, w2

OneDelivery == {d1}
TwoWorkers == {w1, w2}
=============================================================================

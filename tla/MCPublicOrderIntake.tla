------------------------ MODULE MCPublicOrderIntake -------------------------
(* An instance of PublicOrderIntake for TLC.                                *)
EXTENDS PublicOrderIntake, TLC

CONSTANTS s1, s2, k1, k2, r1, r2, r3, r4

TwoSessions == {s1, s2}
TwoKeys == {k1, k2}
FourRequests == {r1, r2, r3, r4}

Symmetry == Permutations(TwoSessions) \cup Permutations(TwoKeys) \cup Permutations(FourRequests)
=============================================================================

---------------------------- MODULE MCRecoveryLane ----------------------------
(***************************************************************************)
(* Small instances of RecoveryLane for TLC.                                *)
(***************************************************************************)
EXTENDS RecoveryLane, TLC

CONSTANTS r1, r2, r3, r4, w1, w2, i1, ambiguity

MCSymmetry == Permutations(Workers)

=============================================================================

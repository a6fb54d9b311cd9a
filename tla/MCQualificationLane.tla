------------------------- MODULE MCQualificationLane -------------------------
(***************************************************************************)
(* Instances of QualificationLane for TLC: one canary, one attended close  *)
(* and the processes of the qualification command line.                    *)
(***************************************************************************)
EXTENDS QualificationLane

=============================================================================

-------------------------- MODULE MCEntryDispatch --------------------------
(***************************************************************************)
(* Small instances of EntryDispatch for TLC.                               *)
(***************************************************************************)
EXTENDS EntryDispatch, TLC

CONSTANTS c1, w1, w2, i1, i2

Leg(s, q) == [status |-> s, filled |-> q]

MCLegReports ==
    {Leg("filled", Quantity), Leg("resting", 0), Leg("absent", 0)}

MCVenueReports == MCLegReports \ {Leg("absent", 0)}

MCLoss == [c \in Commands |-> 1]

MCExpiry == [c \in Commands |-> 3]

MCSymmetry == Permutations(Workers) \cup Permutations(IncidentIds)

=============================================================================

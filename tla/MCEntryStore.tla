---------------------------- MODULE MCEntryStore ----------------------------
(***************************************************************************)
(* Small instances of EntryStore for TLC.                                  *)
(***************************************************************************)
EXTENDS EntryStore, TLC

CONSTANTS c1, c2, w1, w2, i1, i2

Leg(s, q) == [status |-> s, filled |-> q]

\* A fill, a resting order and an end without a fill.
MCFewReports == {Leg("filled", Quantity), Leg("resting", 0), Leg("canceled", 0)}

\* The same with an end after a partial fill, which leaves a stop of the wrong
\* size and a position that needs one.
MCPartialReports == {Leg("filled", Quantity), Leg("resting", 0), Leg("canceled", 1)}

MCPositions == {-1, 0, 2}

MCLoss == [c \in Commands |-> IF c = c1 THEN 2 ELSE 1]

MCTicketExpiry == [c \in Commands |-> 3]

MCEffectiveExpiry == [c \in Commands |-> 2]

MCSymmetry == Permutations({w1, w2}) \cup Permutations(IncidentIds)

=============================================================================

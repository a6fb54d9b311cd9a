--------------------------- MODULE MCNonceAllocator ---------------------------
(***************************************************************************)
(* Two plain calls and three qualification calls: two for one phase with   *)
(* different authorities, and one for another phase that reuses one.       *)
(***************************************************************************)
EXTENDS NonceAllocator

CONSTANTS r1, r2, q1, q2, q3, place, close, a1, a2

MCPhase == [r \in Calls \ Plain |-> IF r = q3 THEN close ELSE place]

MCAuthority == [r \in Calls \ Plain |-> IF r = q1 THEN a1 ELSE a2]

MCIssued == [a \in Authorities |-> 0]

MCExpiresAfter == [a \in Authorities |-> 2]

=============================================================================

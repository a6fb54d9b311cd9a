------------------------- MODULE NonceAllocatorProofs -------------------------
(***************************************************************************)
(* Proofs about NonceAllocator, for any number of calls, any clock and any *)
(* signing authorities.                                                    *)
(***************************************************************************)
EXTENDS NonceAllocator, TLAPS

\* Every committed nonce is at most the watermark.
CommittedBelowWatermark ==
    \A r \in Calls :
       call[r].nonce # Unused => last # Unused /\ call[r].nonce <= last

\* Every qualification call that committed left its row, whatever became of it.
CommittedIsRecorded ==
    \A r \in Calls \ Plain :
       call[r].nonce # Unused =>
          \E row \in reservation : row.phase = Phase[r] /\ row.authority = Authority[r]

NonceInv ==
    /\ NonceTypeOK
    /\ CommittedBelowWatermark
    /\ CommittedIsRecorded
    /\ NoncesUnique
    /\ OneNoncePerPhase
    /\ ReservationsBelowWatermark

\* The empty nonce database satisfies the invariant.
LEMMA NonceInitInv == NonceInit => NonceInv
  BY NonceAssumption
     DEF NonceInit, NonceInv, NonceTypeOK, CommittedBelowWatermark, CommittedIsRecorded,
         NoncesUnique, OneNoncePerPhase, ReservationsBelowWatermark, Unused, Steps

\* A step that only moves one call along and keeps its nonce keeps the invariant.
LEMMA MoveInv ==
    ASSUME NonceInv, NEW r \in Calls,
           call' \in [Calls -> [step : Steps, at : Nat, nonce : Nat \cup {Unused}]],
           \A s \in Calls : call'[s].nonce = call[s].nonce,
           last' = last, reservation' = reservation
    PROVE  NonceInv'
  BY DEF NonceInv, NonceTypeOK, CommittedBelowWatermark, CommittedIsRecorded,
         NoncesUnique, OneNoncePerPhase, ReservationsBelowWatermark

\* The next nonce is a natural number above the watermark.
LEMMA NextNonceGrows ==
    ASSUME last \in Nat \cup {Unused}, NEW t \in Nat
    PROVE  /\ NextNonce(t) \in Nat
           /\ last # Unused => last < NextNonce(t)
  BY DEF NextNonce, Unused

\* _allocate_locked keeps what the invariant says of the watermark and of the
\* calls, with or without the reservation row of the same transaction.
LEMMA AllocateLockedInv ==
    ASSUME NonceInv, NEW r \in Calls, NEW n \in Nat, AllocateLocked(r, n)
    PROVE  /\ last' = n
           /\ last # Unused => last < n
           /\ call'[r].nonce = n
           /\ \A s \in Calls \ {r} : call'[s] = call[s]
           /\ call' \in [Calls -> [step : Steps, at : Nat, nonce : Nat \cup {Unused}]]
           /\ CommittedBelowWatermark'
           /\ NoncesUnique'
  <1>1. /\ last \in Nat \cup {Unused}
        /\ call \in [Calls -> [step : Steps, at : Nat, nonce : Nat \cup {Unused}]]
        /\ call[r].at \in Nat
    BY DEF NonceInv, NonceTypeOK
  <1>2. last' = n /\ (last # Unused => last < n)
    BY <1>1, NextNonceGrows DEF AllocateLocked
  <1>3. /\ call'[r].nonce = n
        /\ \A s \in Calls \ {r} : call'[s] = call[s]
        /\ call' \in [Calls -> [step : Steps, at : Nat, nonce : Nat \cup {Unused}]]
    BY <1>1, ZenonT(60) DEF AllocateLocked, Steps
  <1>4. \A s \in Calls \ {r} : call[s].nonce # Unused => call[s].nonce < n
    BY <1>1, <1>2 DEF NonceInv, CommittedBelowWatermark, Unused
  <1>5. CommittedBelowWatermark'
    BY <1>1, <1>2, <1>3, <1>4 DEF CommittedBelowWatermark, Unused
  <1>6. NoncesUnique'
    <2> SUFFICES ASSUME NEW a \in Calls, NEW b \in Calls, a # b,
                        call'[a].nonce # Unused
                 PROVE  call'[a].nonce # call'[b].nonce
      BY DEF NoncesUnique
    <2>1. CASE a = r
      BY <1>1, <1>3, <1>4, <2>1 DEF Unused
    <2>2. CASE b = r
      BY <1>1, <1>3, <1>4, <2>2 DEF Unused
    <2>3. CASE a # r /\ b # r
      BY <1>3, <2>3 DEF NonceInv, NoncesUnique
    <2> QED
      BY <2>1, <2>2, <2>3
  <1> QED
    BY <1>2, <1>3, <1>5, <1>6

\* allocate: the new nonce is above all others and belongs to no phase.
LEMMA AllocateInv ==
    ASSUME NonceInv, NEW r \in Calls, Allocate(r)
    PROVE  NonceInv'
  <1> DEFINE n == NextNonce(call[r].at)
  <1>1. n \in Nat /\ AllocateLocked(r, n) /\ reservation' = reservation /\ r \in Plain
    BY NextNonceGrows DEF Allocate, NonceInv, NonceTypeOK
  <1> HIDE DEF n
  <1>2. /\ last' = n
        /\ last # Unused => last < n
        /\ \A s \in Calls \ {r} : call'[s] = call[s]
        /\ call' \in [Calls -> [step : Steps, at : Nat, nonce : Nat \cup {Unused}]]
        /\ CommittedBelowWatermark'
        /\ NoncesUnique'
    BY <1>1, AllocateLockedInv
  <1>3. NonceTypeOK' /\ ReservationsBelowWatermark'
    BY <1>1, <1>2 DEF NonceInv, NonceTypeOK, ReservationsBelowWatermark, Unused
  <1>4. CommittedIsRecorded' /\ OneNoncePerPhase'
    BY <1>1, <1>2 DEF NonceInv, CommittedIsRecorded, OneNoncePerPhase
  <1> QED
    BY <1>2, <1>3, <1>4 DEF NonceInv

\* allocate_qualification: no earlier row has the phase or the authority, so no
\* earlier call committed for either.
LEMMA AllocateQualificationInv ==
    ASSUME NonceInv, NEW r \in Calls, AllocateQualification(r)
    PROVE  NonceInv'
  <1> DEFINE n == NextNonce(call[r].at)
             row == [phase |-> Phase[r], authority |-> Authority[r], nonce |-> n]
  <1>1. /\ n \in Nat
        /\ AllocateLocked(r, n)
        /\ reservation' = reservation \cup {row}
        /\ r \in Calls \ Plain
        /\ ~Reserved(r)
    BY NextNonceGrows DEF AllocateQualification, NonceInv, NonceTypeOK
  <1>2. /\ Phase[r] \in Phases
        /\ Authority[r] \in Authorities
        /\ row.phase = Phase[r] /\ row.authority = Authority[r] /\ row.nonce = n
        /\ row \in [phase : Phases, authority : Authorities, nonce : Nat]
    BY <1>1, NonceAssumption
  <1> HIDE DEF n, row
  <1>3. /\ last' = n
        /\ last # Unused => last < n
        /\ \A s \in Calls \ {r} : call'[s] = call[s]
        /\ call' \in [Calls -> [step : Steps, at : Nat, nonce : Nat \cup {Unused}]]
        /\ CommittedBelowWatermark'
        /\ NoncesUnique'
    BY <1>1, AllocateLockedInv
  <1>4. NonceTypeOK'
    BY <1>1, <1>2, <1>3 DEF NonceInv, NonceTypeOK
  <1>5. ReservationsBelowWatermark'
    <2>1. \A x \in reservation : x.nonce \in Nat
      BY DEF NonceInv, NonceTypeOK
    <2> QED
      BY <1>1, <1>2, <1>3, <2>1
         DEF NonceInv, NonceTypeOK, ReservationsBelowWatermark, Unused
  <1>6. CommittedIsRecorded'
    BY <1>1, <1>2, <1>3 DEF NonceInv, CommittedIsRecorded
  <1>7. \A s \in Calls \ Plain :
           s # r /\ call[s].nonce # Unused =>
              Phase[r] # Phase[s] /\ Authority[r] # Authority[s]
    BY <1>1 DEF NonceInv, CommittedIsRecorded, Reserved
  <1>8. OneNoncePerPhase'
    BY <1>3, <1>7 DEF NonceInv, OneNoncePerPhase
  <1> QED
    BY <1>3, <1>4, <1>5, <1>6, <1>8 DEF NonceInv

\* Every step of the allocator keeps the invariant.
LEMMA NonceNextInv == NonceInv /\ [NonceNext]_nonceVars => NonceInv'
  <1> SUFFICES ASSUME NonceInv, [NonceNext]_nonceVars
               PROVE  NonceInv'
    OBVIOUS
  <1>0. call \in [Calls -> [step : Steps, at : Nat, nonce : Nat \cup {Unused}]]
    BY DEF NonceInv, NonceTypeOK
  <1>1. ASSUME NEW r \in Calls, NEW t \in Instants, ReadClock(r, t)
        PROVE  NonceInv'
    BY <1>0, <1>1, MoveInv, NonceAssumption DEF ReadClock, Steps
  <1>2. ASSUME NEW r \in Calls, Allocate(r)
        PROVE  NonceInv'
    BY <1>2, AllocateInv
  <1>3. ASSUME NEW r \in Calls, AllocateQualification(r)
        PROVE  NonceInv'
    BY <1>3, AllocateQualificationInv
  <1>4. ASSUME NEW r \in Calls, Raise(r) \/ Return(r) \/ Crash(r)
        PROVE  NonceInv'
    BY <1>0, <1>4, MoveInv DEF Raise, Return, Crash, Steps
  <1>5. CASE UNCHANGED nonceVars
    BY <1>5 DEF nonceVars, NonceInv, NonceTypeOK, CommittedBelowWatermark,
                CommittedIsRecorded, NoncesUnique, OneNoncePerPhase,
                ReservationsBelowWatermark
  <1> QED
    BY <1>1, <1>2, <1>3, <1>4, <1>5 DEF NonceNext

\* The inductive invariant holds in every reachable state of the nonce database.
THEOREM NonceInvariant == NonceSpec => []NonceInv
  BY NonceInitInv, NonceNextInv, PTL DEF NonceSpec

\* The rows of nonce.py keep their types.
THEOREM NonceTypeCorrect == NonceSpec => []NonceTypeOK
  BY NonceInvariant, PTL DEF NonceInv

\* No two calls of PersistentNonceAllocator ever get the same nonce.
THEOREM NoncesAlwaysUnique == NonceSpec => []NoncesUnique
  BY NonceInvariant, PTL DEF NonceInv

\* A qualification phase and a signing authority get at most one nonce ever.
THEOREM PhasesNumberedOnce == NonceSpec => []OneNoncePerPhase
  BY NonceInvariant, PTL DEF NonceInv

\* The start-up verification of the nonce database never fails on a database
\* that only its own operations wrote.
THEOREM StartupVerificationPasses == NonceSpec => []ReservationsBelowWatermark
  BY NonceInvariant, PTL DEF NonceInv

=============================================================================

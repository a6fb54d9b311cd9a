---------------------------- MODULE NonceAllocator ----------------------------
(***************************************************************************)
(* PersistentNonceAllocator (nonce.py): the durable nonce watermark of one *)
(* signer on one network, shared by every process that signs for it.       *)
(*                                                                         *)
(* A call reads the wall clock first and waits for the write lock after    *)
(* that, so calls commit in any order of their readings, and the clock may *)
(* step either way between two readings.  A call may die at any point; a   *)
(* nonce that was committed and never returned is burned.                  *)
(***************************************************************************)
EXTENDS Integers

CONSTANTS
    Calls,        \* calls of allocate and allocate_qualification, ever
    Plain,        \* the calls of allocate
    Phases,       \* (command, phase) pairs of the qualification lane
    Authorities,  \* signing authorities of the qualification lane
    Phase,        \* the phase each qualification call signs for
    Authority,    \* the signing authority it presents
    Issued,       \* when an authority was issued
    ExpiresAfter, \* when the action it authorizes expires
    Instants,     \* bound: readings of the wall clock
    MaxFutureDrift

ASSUME NonceAssumption ==
    /\ Plain \subseteq Calls
    /\ Phase \in [Calls \ Plain -> Phases]
    /\ Authority \in [Calls \ Plain -> Authorities]
    /\ Issued \in [Authorities -> Nat]
    /\ ExpiresAfter \in [Authorities -> Nat]
    /\ Instants \subseteq Nat
    /\ MaxFutureDrift \in Nat

VARIABLES
    last,         \* hyperliquid_signer_nonces.last_nonce, or Unused
    reservation,  \* hyperliquid_qualification_nonce_reservations
    call          \* each call: its step, clock reading and committed nonce

nonceVars == <<last, reservation, call>>

Unused == -1

NonceInit ==
    /\ last = Unused
    /\ reservation = {}
    /\ call = [r \in Calls |-> [step |-> "idle", at |-> 0, nonce |-> Unused]]

ReadClock(r, t) ==
    /\ call[r].step = "idle"
    /\ call' = [call EXCEPT ![r].step = "waiting", ![r].at = t]
    /\ UNCHANGED <<last, reservation>>

\* Mutant: the previous nonce itself is taken when the clock is behind it.
NextNonceRepeats(t) == IF last = Unused \/ last < t THEN t ELSE last

\* max(previous + 1, now), or now for the first nonce of the signer.
NextNonce(t) == IF last = Unused \/ last < t THEN t ELSE last + 1

Plausible(t) == last = Unused \/ last <= t + MaxFutureDrift

\* Mutant: the qualification path writes its row but not the watermark.
AllocateLockedKeepingLast(r, n) ==
    /\ n = NextNonce(call[r].at)
    /\ last' = IF r \in Plain THEN n ELSE last
    /\ call' = [call EXCEPT ![r].step = "committed", ![r].nonce = n]

AllocateLocked(r, n) ==
    /\ n = NextNonce(call[r].at)
    /\ last' = n
    /\ call' = [call EXCEPT ![r].step = "committed", ![r].nonce = n]

Allocate(r) ==
    /\ r \in Plain
    /\ call[r].step = "waiting"
    /\ Plausible(call[r].at)
    /\ AllocateLocked(r, NextNonce(call[r].at))
    /\ UNCHANGED reservation

\* Mutant: only the exact same binding counts as reserved before.
ReservedExactly(r) ==
    \E row \in reservation : row.phase = Phase[r] /\ row.authority = Authority[r]

\* A row with the same phase or the same authority exists; an equal binding
\* has both.
Reserved(r) ==
    \E row \in reservation : row.phase = Phase[r] \/ row.authority = Authority[r]

WithinAuthority(r) ==
    /\ Issued[Authority[r]] <= call[r].at
    /\ call[r].at < ExpiresAfter[Authority[r]]

AllocateQualification(r) ==
    /\ r \in Calls \ Plain
    /\ call[r].step = "waiting"
    /\ ~Reserved(r)
    /\ Plausible(call[r].at)
    /\ WithinAuthority(r)
    /\ AllocateLocked(r, NextNonce(call[r].at))
    /\ reservation' = reservation \cup {[phase |-> Phase[r], authority |-> Authority[r],
                                         nonce |-> NextNonce(call[r].at)]}

\* An exception before the commit rolls everything back.
Raise(r) ==
    /\ call[r].step = "waiting"
    /\ \/ ~Plausible(call[r].at)
       \/ r \in Calls \ Plain /\ (Reserved(r) \/ ~WithinAuthority(r))
    /\ call' = [call EXCEPT ![r].step = "raised"]
    /\ UNCHANGED <<last, reservation>>

Return(r) ==
    /\ call[r].step = "committed"
    /\ call' = [call EXCEPT ![r].step = "returned"]
    /\ UNCHANGED <<last, reservation>>

\* The process dies; what it committed stays.
Crash(r) ==
    /\ call[r].step \in {"waiting", "committed"}
    /\ call' = [call EXCEPT ![r].step = "dead"]
    /\ UNCHANGED <<last, reservation>>

NonceNext ==
    \E r \in Calls :
       \/ \E t \in Instants : ReadClock(r, t)
       \/ Allocate(r)
       \/ AllocateQualification(r)
       \/ Raise(r)
       \/ Return(r)
       \/ Crash(r)

NonceSpec == NonceInit /\ [][NonceNext]_nonceVars

(***************************************************************************)
(* Properties.                                                             *)
(***************************************************************************)

Steps == {"idle", "waiting", "committed", "returned", "raised", "dead"}

\* Types of the watermark, the reservation table and the calls.
NonceTypeOK ==
    /\ last \in Nat \cup {Unused}
    /\ reservation \subseteq [phase : Phases, authority : Authorities, nonce : Nat]
    /\ call \in [Calls -> [step : Steps, at : Nat, nonce : Nat \cup {Unused}]]

\* No nonce is committed for two calls of the signer, whatever the order in
\* which processes read the clock, get the lock, crash and restart, and
\* however the clock steps.
NoncesUnique ==
    \A r, s \in Calls :
       r # s /\ call[r].nonce # Unused => call[r].nonce # call[s].nonce

\* A phase of a qualification command, and a signing authority, get at most
\* one nonce ever: also when the call that got it died before it returned, or
\* a fresh authority was issued for the same phase.
OneNoncePerPhase ==
    \A r, s \in Calls \ Plain :
       /\ r # s
       /\ call[r].nonce # Unused
       /\ call[s].nonce # Unused
       => /\ Phase[r] # Phase[s]
          /\ Authority[r] # Authority[s]

\* What _verify_qualification_reservations demands at start-up holds after
\* every commit, so a crash never leaves a store that refuses to open.
ReservationsBelowWatermark ==
    \A row \in reservation : last # Unused /\ row.nonce <= last

=============================================================================

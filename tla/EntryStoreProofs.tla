-------------------------- MODULE EntryStoreProofs --------------------------
(***************************************************************************)
(* Proofs about the entry lane of ExecutionStore, for every number of      *)
(* commands, workers, incidents and legs, and every clock bound.           *)
(***************************************************************************)
EXTENDS EntryStore, FiniteSetTheorems, TLAPS

(***************************************************************************)
(* The inductive invariant: the invariants the runs check, and two facts   *)
(* they rest on.  A submission authority names an attempt, and only a      *)
(* claimed or reconciling outbox row names a worker.                       *)
(***************************************************************************)

AuthorityNeedsAttempt ==
    \A c \in Commands : authority[c] # NoAuthority => attempt[c].state # "none"

OnlyClaimsNameWorkers ==
    \A c \in Commands :
       outbox[c].state \notin {"claimed", "reconciling"} => outbox[c].worker = NoWorker

EntryInv ==
    /\ TypeOK
    /\ RowsAgree
    /\ OneNonterminalCommand
    /\ ReservationExact
    /\ AttemptBelongsToClaim
    /\ AuthorizedIsNeverUnsent
    /\ AuthorityNeedsAttempt
    /\ OnlyClaimsNameWorkers

(***************************************************************************)
(* Lemmas about the operators the actions are built from.                  *)
(***************************************************************************)

\* Releasing an outbox row keeps its fence and clears its holder.
LEMMA ReleasedRow ==
    ASSUME TypeOK, NEW c \in Commands, NEW s \in CommandStates
    PROVE  /\ Released(c, s) \in OutboxRow
           /\ Released(c, s).state = s
           /\ Released(c, s).worker = NoWorker
           /\ Released(c, s).token = outbox[c].token
  BY DEF TypeOK, OutboxRow, Released, NoClaim

\* The legs of an expired entry, and of one presumed unknown, are leg rows.
LEMMA LegRows ==
    ASSUME TypeOK, NEW c \in Commands
    PROVE  /\ ExpiredLegs \in [Roles -> LegRow]
           /\ UnknownLegs(c) \in [Roles -> LegRow]
  <1>1. 0 \in 0..Quantity
    BY ConstantsAssumption
  <1>2. ExpiredLegs \in [Roles -> LegRow]
    BY <1>1 DEF ExpiredLegs, LegRow, LegStates
  <1>3. UnknownLegs(c) \in [Roles -> LegRow]
    BY DEF TypeOK, UnknownLegs, LegRow, LegStates
  <1> QED
    BY <1>2, <1>3

\* The three records that stand for an absent row have the type of the row.
LEMMA AbsentRows ==
    /\ FreeOutbox \in OutboxRow
    /\ NoAttempt \in AttemptRow
    /\ NoAttestation \in AttestationRow
    /\ NoAuthority \in AuthorityRow
  BY DEF FreeOutbox, NoAttempt, NoAttestation, NoAuthority, OutboxRow, AttemptRow,
         AttestationRow, AuthorityRow, CommandStates, NoClaim, Never

\* The empty store satisfies the inductive invariant.
LEMMA InitInv == EntryInit => EntryInv
  <1> SUFFICES ASSUME EntryInit PROVE EntryInv
    OBVIOUS
  <1>1. TypeOK
    <2>1. 0 \in 0..Quantity
      BY ConstantsAssumption
    <2>2. legs \in [Commands -> [Roles -> LegRow]]
      BY <2>1 DEF EntryInit, LegRow, LegStates
    <2>3. /\ protection \in [Commands -> ProtectionRow]
          /\ incident \in [IncidentIds -> IncidentRow]
          /\ position \in [quantity : Int, at : Int]
      BY DEF EntryInit, ProtectionRow, IncidentRow, Codes, Never
    <2>4. /\ outbox \in [Commands -> OutboxRow]
          /\ preKey \in [Commands -> AttestationRow]
          /\ attempt \in [Commands -> AttemptRow]
          /\ authority \in [Commands -> AuthorityRow]
      BY AbsentRows DEF EntryInit
    <2> QED
      BY <2>2, <2>3, <2>4 DEF EntryInit, TypeOK, CommandStates, RecoveryStates, Never
  <1>2. RowsAgree /\ OneNonterminalCommand /\ ReservationExact
    BY ConstantsAssumption DEF EntryInit, RowsAgree, OneNonterminalCommand,
       ReservationExact, Nonterminal, FreeOutbox
  <1>3. AttemptBelongsToClaim /\ AuthorizedIsNeverUnsent
    BY DEF EntryInit, AttemptBelongsToClaim, AuthorizedIsNeverUnsent, NoAttempt
  <1>4. AuthorityNeedsAttempt /\ OnlyClaimsNameWorkers
    BY DEF EntryInit, AuthorityNeedsAttempt, OnlyClaimsNameWorkers, FreeOutbox
  <1> QED
    BY <1>1, <1>2, <1>3, <1>4 DEF EntryInv

(***************************************************************************)
(* Steps that disturb one table.                                           *)
(***************************************************************************)

\* The conjuncts of EntryInv besides TypeOK read these variables only.
LEMMA FrameInv ==
    ASSUME EntryInv, TypeOK',
           UNCHANGED <<ticket, approval, command, outbox, attempt, authority, legs,
                       reserved, qualification>>
    PROVE  EntryInv'
  <1>1. RowsAgree' /\ OneNonterminalCommand' /\ ReservationExact'
    BY DEF EntryInv, RowsAgree, OneNonterminalCommand, ReservationExact, Nonterminal
  <1>2. AttemptBelongsToClaim' /\ AuthorizedIsNeverUnsent'
    BY DEF EntryInv, AttemptBelongsToClaim, AuthorizedIsNeverUnsent
  <1>3. AuthorityNeedsAttempt' /\ OnlyClaimsNameWorkers'
    BY DEF EntryInv, AuthorityNeedsAttempt, OnlyClaimsNameWorkers
  <1> QED
    BY <1>1, <1>2, <1>3 DEF EntryInv

\* register_infrastructure_grant writes no row the invariant reads.
LEMMA GrantInv ==
    ASSUME EntryInv, UNCHANGED now, NEW at, RegisterInfrastructureGrant(at)
    PROVE  EntryInv'
  <1>1. TypeOK'
    BY DEF EntryInv, TypeOK, RegisterInfrastructureGrant
  <1> QED
    BY <1>1, FrameInv DEF RegisterInfrastructureGrant

\* Paperwork: no command exists yet, so only RowsAgree has something to show.
LEMMA PaperworkInv ==
    ASSUME EntryInv, UNCHANGED now, NEW at, NEW c \in Commands,
           RegisterTicket(c, at) \/ RegisterApproval(c) \/ RevokeApproval(c)
    PROVE  EntryInv'
  <1>1. /\ UNCHANGED <<now, grant, command, outbox, preflight, preKey, attempt, preSend,
                       authority, legs, position, protection, incident, reserved,
                       qualification, recovery>>
        /\ ticket' \in [Commands -> {"none", "awaiting_approval", "consumed", "terminal"}]
        /\ approval' \in [Commands -> {"none", "issued", "revoked", "consumed"}]
    BY DEF EntryInv, TypeOK, RegisterTicket, RegisterApproval, RevokeApproval
  <1>2. TypeOK'
    BY <1>1 DEF EntryInv, TypeOK
  <1>3. RowsAgree'
    BY <1>1 DEF EntryInv, TypeOK, RowsAgree, RegisterTicket, RegisterApproval,
       RevokeApproval
  <1>4. OneNonterminalCommand' /\ ReservationExact'
    BY <1>1 DEF EntryInv, OneNonterminalCommand, ReservationExact, Nonterminal
  <1>5. AttemptBelongsToClaim' /\ AuthorizedIsNeverUnsent'
    BY <1>1 DEF EntryInv, AttemptBelongsToClaim, AuthorizedIsNeverUnsent
  <1>6. AuthorityNeedsAttempt' /\ OnlyClaimsNameWorkers'
    BY <1>1 DEF EntryInv, AuthorityNeedsAttempt, OnlyClaimsNameWorkers
  <1> QED
    BY <1>2, <1>3, <1>4, <1>5, <1>6 DEF EntryInv

\* Both admissions: the account is empty, so exactly this loss is reserved.
LEMMA AdmissionInv ==
    ASSUME EntryInv, UNCHANGED now, NEW at, NEW c \in Commands,
           Admit(c, at) \/ AdmitChatHandoff(c, at)
    PROVE  EntryInv'
  <1>1. /\ NewRiskAllowed(c)
        /\ Queue(c)
        /\ ticket[c] = "awaiting_approval"
    BY DEF Admit, AdmitChatHandoff
  <1>0. /\ Released(c, "queued") \in OutboxRow
        /\ Released(c, "queued").state = "queued"
        /\ Released(c, "queued").worker = NoWorker
    BY ReleasedRow DEF EntryInv, CommandStates
  <1>2. /\ qualification = "idle"
        /\ \A d \in Commands : ~Nonterminal(d)
        /\ reserved = 0
        /\ command[c] = "none"
        /\ attempt[c].state = "none"
        /\ authority[c] = NoAuthority
        /\ outbox[c].worker = NoWorker
    BY <1>1 DEF NewRiskAllowed, EntryInv, ReservationExact, RowsAgree,
       AttemptBelongsToClaim, AuthorizedIsNeverUnsent, OnlyClaimsNameWorkers
  <1>3. TypeOK'
    <2>1. outbox' \in [Commands -> OutboxRow]
      BY <1>0, <1>1 DEF Queue, EntryInv, TypeOK
    <2>2. reserved' \in Nat
      BY <1>1, <1>2, ConstantsAssumption DEF Queue
    <2> QED
      BY <1>1, <2>1, <2>2 DEF Queue, EntryInv, TypeOK, CommandStates
  <1>4. RowsAgree'
    BY <1>0, <1>1 DEF Queue, EntryInv, TypeOK, RowsAgree
  <1>5. OneNonterminalCommand' /\ ReservationExact'
    <2>1. \A d \in Commands : Nonterminal(d)' <=> d = c
      BY <1>1, <1>2 DEF Queue, EntryInv, TypeOK, Nonterminal
    <2>2. reserved' = Loss[c] /\ qualification' = "idle"
      BY <1>1, <1>2, ConstantsAssumption DEF Queue
    <2> QED
      BY <2>1, <2>2 DEF OneNonterminalCommand, ReservationExact
  <1>6. AttemptBelongsToClaim'
    BY <1>0, <1>1, <1>2 DEF Queue, EntryInv, TypeOK, AttemptBelongsToClaim
  <1>7. AuthorizedIsNeverUnsent'
    BY <1>1, <1>2 DEF Queue, EntryInv, TypeOK, AuthorizedIsNeverUnsent
  <1>8. AuthorityNeedsAttempt' /\ OnlyClaimsNameWorkers'
    BY <1>0, <1>1, <1>2 DEF Queue, EntryInv, TypeOK, AuthorityNeedsAttempt,
       OnlyClaimsNameWorkers
  <1> QED
    BY <1>3, <1>4, <1>5, <1>6, <1>7, <1>8 DEF EntryInv

\* Preflight and role attestations are evidence rows the invariant does not read.
LEMMA EvidenceInv ==
    ASSUME EntryInv, UNCHANGED now, NEW c \in Commands, NEW w \in Workers,
           NEW k \in Nat, NEW at \in Nat, NEW t \in Nat,
           \/ RegisterPreflight(c, at, t)
           \/ RecordPreKey(c, w, k, at, t)
           \/ RecordPreSend(c, w, k, at, t)
    PROVE  EntryInv'
  <1>1. [worker |-> w, token |-> k, at |-> t] \in AttestationRow
    BY DEF AttestationRow
  <1>2. CASE RegisterPreflight(c, at, t)
    BY <1>2, FrameInv DEF RegisterPreflight, EntryInv, TypeOK
  <1>3. CASE RecordPreKey(c, w, k, at, t)
    BY <1>1, <1>3, FrameInv DEF RecordPreKey, EntryInv, TypeOK
  <1>4. CASE RecordPreSend(c, w, k, at, t)
    BY <1>4, FrameInv DEF RecordPreSend, EntryInv, TypeOK
  <1> QED
    BY <1>2, <1>3, <1>4

(***************************************************************************)
(* Steps under a claim.                                                    *)
(***************************************************************************)

\* A step that rewrites only outbox rows keeps the invariant when it keeps
\* their states and fences.
LEMMA RenewInv ==
    ASSUME EntryInv, UNCHANGED now, NEW c \in Commands, NEW w \in Workers,
           NEW k \in Nat, NEW at \in Nat, NEW l \in Nat, RenewClaim(c, w, k, at, l)
    PROVE  EntryInv'
  <1>1. /\ outbox[c] \in OutboxRow
        /\ outbox' = [outbox EXCEPT ![c] = [outbox[c] EXCEPT !.lease = at + l]]
    BY DEF RenewClaim, EntryInv, TypeOK
  <1>2. [outbox[c] EXCEPT !.lease = at + l] \in OutboxRow
    BY <1>1 DEF OutboxRow
  <1>3. \A d \in Commands : /\ outbox'[d].state = outbox[d].state
                            /\ outbox'[d].worker = outbox[d].worker
                            /\ outbox'[d].token = outbox[d].token
    BY <1>1 DEF EntryInv, TypeOK, OutboxRow
  <1>4. TypeOK'
    BY <1>1, <1>2 DEF RenewClaim, EntryInv, TypeOK
  <1>5. RowsAgree' /\ OnlyClaimsNameWorkers' /\ AttemptBelongsToClaim'
    BY <1>3 DEF RenewClaim, EntryInv, RowsAgree, OnlyClaimsNameWorkers,
       AttemptBelongsToClaim
  <1>6. OneNonterminalCommand' /\ ReservationExact'
    BY DEF RenewClaim, EntryInv, OneNonterminalCommand, ReservationExact, Nonterminal
  <1>7. AuthorizedIsNeverUnsent' /\ AuthorityNeedsAttempt'
    BY DEF RenewClaim, EntryInv, AuthorizedIsNeverUnsent, AuthorityNeedsAttempt
  <1> QED
    BY <1>4, <1>5, <1>6, <1>7 DEF EntryInv

\* A deferred claim goes back to the queue: it has no attempt.
LEMMA DeferInv ==
    ASSUME EntryInv, UNCHANGED now, NEW c \in Commands, NEW w, NEW k, NEW at,
           DeferUnsentClaim(c, w, k, at)
    PROVE  EntryInv'
  <1>1. /\ Released(c, "queued") \in OutboxRow
        /\ Released(c, "queued").state = "queued"
        /\ Released(c, "queued").worker = NoWorker
    BY ReleasedRow DEF EntryInv, CommandStates
  <1>2. command[c] = "claimed"
    BY DEF DeferUnsentClaim, HasClaim, EntryInv, RowsAgree
  <1>3. TypeOK'
    BY <1>1 DEF DeferUnsentClaim, EntryInv, TypeOK, CommandStates
  <1>4. RowsAgree' /\ OnlyClaimsNameWorkers'
    BY <1>1, <1>2 DEF DeferUnsentClaim, EntryInv, TypeOK, RowsAgree, OnlyClaimsNameWorkers
  <1>5. AttemptBelongsToClaim'
    BY <1>1 DEF DeferUnsentClaim, EntryInv, TypeOK, AttemptBelongsToClaim
  <1>6. OneNonterminalCommand' /\ ReservationExact'
    <2>1. \A d \in Commands : Nonterminal(d)' <=> Nonterminal(d)
      BY <1>2 DEF DeferUnsentClaim, EntryInv, TypeOK, Nonterminal
    <2> QED
      BY <2>1 DEF DeferUnsentClaim, EntryInv, OneNonterminalCommand, ReservationExact
  <1>7. AuthorizedIsNeverUnsent' /\ AuthorityNeedsAttempt'
    BY DEF DeferUnsentClaim, EntryInv, TypeOK, AuthorizedIsNeverUnsent,
       AuthorityNeedsAttempt
  <1> QED
    BY <1>3, <1>4, <1>5, <1>6, <1>7 DEF EntryInv

\* Every way to end an entry that was never sent.
LEMMA TerminateUnsentInv ==
    ASSUME EntryInv, UNCHANGED now, NEW c \in Commands, NEW w, NEW k, NEW at,
           ExpireNextQueuedUnsent(c, at) \/ VoidUnsentCommand(c, w, k, at)
    PROVE  EntryInv'
  <1>1. /\ Released(c, "terminal") \in OutboxRow
        /\ Released(c, "terminal").state = "terminal"
        /\ Released(c, "terminal").worker = NoWorker
    BY ReleasedRow DEF EntryInv, CommandStates
  <1>2. /\ TerminateUnsent(c)
        /\ command[c] \in {"queued", "claimed"}
        /\ authority[c] = NoAuthority
        /\ UNCHANGED <<grant, approval, preflight, preKey, attempt, preSend, authority,
                       position, protection, incident, qualification, recovery>>
    BY DEF ExpireNextQueuedUnsent, VoidUnsentCommand, HasClaim, EntryInv, RowsAgree
  <1>3. /\ Nonterminal(c)
        /\ reserved' = 0
        /\ qualification' = "idle"
        /\ \A d \in Commands : ~Nonterminal(d)'
    <2>1. Nonterminal(c)
      BY <1>2 DEF Nonterminal
    <2>2. reserved = Loss[c] /\ qualification = "idle"
      BY <2>1 DEF EntryInv, ReservationExact, OneNonterminalCommand
    <2>3. reserved' = 0
      BY <1>2, <2>2, ConstantsAssumption DEF TerminateUnsent
    <2>4. \A d \in Commands : ~Nonterminal(d)'
      BY <1>2, <2>1 DEF TerminateUnsent, EntryInv, TypeOK, OneNonterminalCommand, Nonterminal
    <2> QED
      BY <1>2, <2>1, <2>2, <2>3, <2>4
  <1>4. TypeOK'
    <2>1. legs' \in [Commands -> [Roles -> LegRow]]
      BY <1>2, LegRows DEF TerminateUnsent, EntryInv, TypeOK
    <2> QED
      BY <1>1, <1>2, <1>3, <2>1 DEF TerminateUnsent, EntryInv, TypeOK, CommandStates
  <1>5. RowsAgree' /\ OnlyClaimsNameWorkers'
    BY <1>1, <1>2 DEF TerminateUnsent, EntryInv, TypeOK, RowsAgree, OnlyClaimsNameWorkers
  <1>6. OneNonterminalCommand' /\ ReservationExact'
    BY <1>3 DEF OneNonterminalCommand, ReservationExact
  <1>7. AttemptBelongsToClaim'
    BY <1>1, <1>2 DEF TerminateUnsent, EntryInv, TypeOK, AttemptBelongsToClaim
  <1>8. AuthorizedIsNeverUnsent' /\ AuthorityNeedsAttempt'
    BY <1>2 DEF TerminateUnsent, EntryInv, TypeOK, AuthorizedIsNeverUnsent,
       AuthorityNeedsAttempt
  <1> QED
    BY <1>4, <1>5, <1>6, <1>7, <1>8 DEF EntryInv

\* The attempt row is created for the claim that is active.
LEMMA PrepareInv ==
    ASSUME EntryInv, UNCHANGED now, NEW c \in Commands, NEW w \in Workers,
           NEW k \in Nat, NEW at \in Nat, NEW e \in Nat, PrepareAttempt(c, w, k, at, e)
    PROVE  EntryInv'
  <1> DEFINE row == [state |-> "prepared", worker |-> w, token |-> k, at |-> at,
                     expires |-> e]
  <1>1. row \in AttemptRow
    BY DEF AttemptRow
  <1>2. /\ command[c] = "claimed"
        /\ outbox[c].worker = w
        /\ outbox[c].token = k
        /\ attempt[c].state = "none"
    BY DEF PrepareAttempt, HasClaim, EntryInv, RowsAgree
  <1>3. /\ attempt' = [attempt EXCEPT ![c] = row]
        /\ UNCHANGED <<grant, ticket, approval, command, outbox, preflight, preKey, preSend,
                       authority, legs, position, protection, incident, reserved,
                       qualification, recovery>>
    BY DEF PrepareAttempt
  <1>4. TypeOK'
    BY <1>1, <1>3 DEF EntryInv, TypeOK
  <1>5. AttemptBelongsToClaim'
    BY <1>2, <1>3 DEF EntryInv, TypeOK, AttemptBelongsToClaim
  <1>6. AuthorizedIsNeverUnsent' /\ AuthorityNeedsAttempt'
    BY <1>2, <1>3 DEF EntryInv, TypeOK, AuthorizedIsNeverUnsent, AuthorityNeedsAttempt
  <1>7. RowsAgree' /\ OnlyClaimsNameWorkers' /\ OneNonterminalCommand' /\ ReservationExact'
    BY <1>3 DEF EntryInv, RowsAgree, OnlyClaimsNameWorkers, OneNonterminalCommand,
       ReservationExact, Nonterminal
  <1> QED
    BY <1>4, <1>5, <1>6, <1>7 DEF EntryInv

\* The authority is consumed by the claim whose attempt is prepared.
LEMMA AuthorityInv ==
    ASSUME EntryInv, UNCHANGED now, NEW c \in Commands, NEW w, NEW k, NEW at \in Nat,
           NEW u \in Nat, RequireSubmissionAuthority(c, w, k, at, u)
    PROVE  EntryInv'
  <1> DEFINE row == [at |-> at, until |-> u]
  <1>1. row \in AuthorityRow
    BY DEF AuthorityRow
  <1>2. command[c] = "claimed" /\ attempt[c].state = "prepared"
    BY DEF RequireSubmissionAuthority, HasClaim, EntryInv, RowsAgree
  <1>3. /\ authority' = [authority EXCEPT ![c] = row]
        /\ UNCHANGED <<grant, ticket, approval, command, outbox, preflight, preKey, attempt,
                       preSend, legs, position, protection, incident, reserved,
                       qualification, recovery>>
    BY DEF RequireSubmissionAuthority
  <1>4. TypeOK'
    BY <1>1, <1>3 DEF EntryInv, TypeOK
  <1>5. AuthorizedIsNeverUnsent' /\ AuthorityNeedsAttempt'
    BY <1>2, <1>3 DEF EntryInv, TypeOK, AuthorizedIsNeverUnsent, AuthorityNeedsAttempt
  <1>6. RowsAgree' /\ OnlyClaimsNameWorkers' /\ OneNonterminalCommand' /\ ReservationExact'
        /\ AttemptBelongsToClaim'
    BY <1>3 DEF EntryInv, RowsAgree, OnlyClaimsNameWorkers, OneNonterminalCommand,
       ReservationExact, Nonterminal, AttemptBelongsToClaim
  <1> QED
    BY <1>4, <1>5, <1>6 DEF EntryInv

\* What the three outcome operations have in common: a claim whose authority
\* was consumed gives way to an open outcome.
LEMMA OutcomeInv ==
    ASSUME EntryInv, UNCHANGED now, NEW c \in Commands,
           NEW s \in {"submitted_unknown", "reconciling"},
           NEW a \in {"unknown", "response_received"},
           command[c] = "claimed",
           authority[c] # NoAuthority,
           attempt' = [attempt EXCEPT ![c].state = a],
           outbox' = [outbox EXCEPT ![c] = Released(c, s)],
           command' = [command EXCEPT ![c] = s],
           legs' \in [Commands -> [Roles -> LegRow]],
           \A d \in Commands \ {c} : legs'[d] = legs[d],
           protection' \in [Commands -> ProtectionRow],
           incident' \in [IncidentIds -> IncidentRow],
           UNCHANGED <<grant, ticket, approval, preflight, preKey, preSend, authority,
                       position, reserved, qualification, recovery>>
    PROVE  EntryInv'
  <1>1. /\ Released(c, s) \in OutboxRow
        /\ Released(c, s).state = s
        /\ Released(c, s).worker = NoWorker
    BY ReleasedRow DEF EntryInv, CommandStates
  <1>2. /\ attempt' \in [Commands -> AttemptRow]
        /\ attempt'[c].state = a
        /\ \A d \in Commands \ {c} : attempt'[d] = attempt[d]
    <2>1. attempt[c] \in AttemptRow
      BY DEF EntryInv, TypeOK
    <2>2. /\ [attempt[c] EXCEPT !.state = a] \in AttemptRow
          /\ [attempt[c] EXCEPT !.state = a].state = a
      BY <2>1 DEF AttemptRow
    <2> QED
      BY <2>2 DEF EntryInv, TypeOK
  <1>3. TypeOK'
    BY <1>1, <1>2 DEF EntryInv, TypeOK, CommandStates
  <1>4. RowsAgree' /\ OnlyClaimsNameWorkers'
    BY <1>1 DEF EntryInv, TypeOK, RowsAgree, OnlyClaimsNameWorkers
  <1>5. AttemptBelongsToClaim'
    BY <1>1, <1>2 DEF EntryInv, TypeOK, AttemptBelongsToClaim
  <1>6. OneNonterminalCommand' /\ ReservationExact'
    <2>1. \A d \in Commands : Nonterminal(d)' <=> Nonterminal(d)
      BY DEF EntryInv, TypeOK, Nonterminal
    <2> QED
      BY <2>1 DEF EntryInv, OneNonterminalCommand, ReservationExact
  <1>7. AuthorizedIsNeverUnsent' /\ AuthorityNeedsAttempt'
    BY <1>2 DEF EntryInv, TypeOK, AuthorizedIsNeverUnsent, AuthorityNeedsAttempt
  <1> QED
    BY <1>3, <1>4, <1>5, <1>6, <1>7 DEF EntryInv

\* mark_submitted_unknown needs a consumed authority and leaves the reservation alone.
LEMMA MarkUnknownInv ==
    ASSUME EntryInv, UNCHANGED now, NEW c \in Commands, NEW w, NEW k, NEW at, NEW t,
           MarkSubmittedUnknown(c, w, k, at, t)
    PROVE  EntryInv'
  <1>1. command[c] = "claimed" /\ authority[c] # NoAuthority
    BY DEF MarkSubmittedUnknown, HasClaim, OutcomeAuthority, EntryInv, RowsAgree
  <1>2. /\ legs' \in [Commands -> [Roles -> LegRow]]
        /\ \A d \in Commands \ {c} : legs'[d] = legs[d]
    BY LegRows DEF MarkSubmittedUnknown, EntryInv, TypeOK
  <1>3. /\ protection' \in [Commands -> ProtectionRow]
        /\ incident' \in [IncidentIds -> IncidentRow]
    BY DEF MarkSubmittedUnknown, EntryInv, TypeOK
  <1> QED
    BY <1>1, <1>2, <1>3, OutcomeInv DEF MarkSubmittedUnknown

\* A response without leg statuses moves the command exactly as an unknown outcome does.
LEMMA EmptyResponseInv ==
    ASSUME EntryInv, UNCHANGED now, NEW c \in Commands, NEW w, NEW k, NEW at, NEW t,
           RecordEmptyResponse(c, w, k, at, t)
    PROVE  EntryInv'
  <1>1. command[c] = "claimed" /\ authority[c] # NoAuthority
    BY DEF RecordEmptyResponse, HasClaim, OutcomeAuthority, EntryInv, RowsAgree
  <1>2. /\ legs' \in [Commands -> [Roles -> LegRow]]
        /\ \A d \in Commands \ {c} : legs'[d] = legs[d]
        /\ protection' \in [Commands -> ProtectionRow]
        /\ incident' \in [IncidentIds -> IncidentRow]
    BY DEF RecordEmptyResponse, EntryInv, TypeOK
  <1> QED
    BY <1>1, <1>2, OutcomeInv DEF RecordEmptyResponse

\* A protection state is one of the five the table declares.
LEMMA ProtectionStateType ==
    ASSUME NEW p, NEW q, NEW failed
    PROVE  ProtectionState(p, q, failed) \in {"flat", "protected"} \cup BadProtection
  BY DEF ProtectionState, BadProtection

\* Every leg state the venue reports is a leg row of the store.
LEMMA ReportRows == LegReports \subseteq LegRow
  BY ReportsAssumption DEF LegRow

\* record_submission_response keeps the invariant, whether or not it opens a hazard.
LEMMA ResponseInv ==
    ASSUME EntryInv, UNCHANGED now, NEW c \in Commands, NEW w, NEW k, NEW at \in Nat, NEW t,
           NEW response \in [Roles -> ResponseReports], NEW i \in IncidentIds,
           RecordSubmissionResponse(c, w, k, at, t, response, i)
    PROVE  EntryInv'
  <1>1. command[c] = "claimed" /\ authority[c] # NoAuthority
    BY DEF RecordSubmissionResponse, HasClaim, OutcomeAuthority, EntryInv, RowsAgree
  <1>2. /\ legs' \in [Commands -> [Roles -> LegRow]]
        /\ \A d \in Commands \ {c} : legs'[d] = legs[d]
    <2>1. response \in [Roles -> LegRow]
      BY ReportRows DEF ResponseReports
    <2> QED
      BY <2>1 DEF RecordSubmissionResponse, EntryInv, TypeOK
  <1>3. /\ protection' \in [Commands -> ProtectionRow]
        /\ incident' \in [IncidentIds -> IncidentRow]
    <2>1. [state |-> "open", command |-> c, code |-> "hazard"] \in IncidentRow
      BY DEF IncidentRow, Codes
    <2>2. \A f : [state |-> ProtectionState(response["entry"].filled, 0, f), at |-> at]
                   \in ProtectionRow
      BY ProtectionStateType DEF ProtectionRow
    <2>3. \/ UNCHANGED <<protection, incident>>
          \/ /\ incident' = Opened(i, c, "hazard")
             /\ \E f : protection' = [protection EXCEPT ![c] =
                     [state |-> ProtectionState(response["entry"].filled, 0, f), at |-> at]]
      BY DEF RecordSubmissionResponse
    <2>4. Opened(i, c, "hazard") \in [IncidentIds -> IncidentRow]
      BY <2>1 DEF Opened, EntryInv, TypeOK
    <2>5. CASE UNCHANGED <<protection, incident>>
      BY <2>5 DEF EntryInv, TypeOK
    <2>6. CASE ~UNCHANGED <<protection, incident>>
      <3>1. PICK f : protection' = [protection EXCEPT ![c] =
                        [state |-> ProtectionState(response["entry"].filled, 0, f), at |-> at]]
        BY <2>3, <2>6
      <3>2. protection' \in [Commands -> ProtectionRow]
        BY <2>2, <3>1 DEF EntryInv, TypeOK
      <3> QED
        BY <2>3, <2>4, <2>6, <3>2
    <2> QED
      BY <2>5, <2>6
  <1> QED
    BY <1>1, <1>2, <1>3, OutcomeInv DEF RecordSubmissionResponse

(***************************************************************************)
(* Reconciliation, incidents and the qualification lane.                   *)
(***************************************************************************)

\* Giving the reconciliation claim back leaves an unheld reconciling row.
LEMMA ReleaseInv ==
    ASSUME EntryInv, UNCHANGED now, NEW c \in Commands, NEW w, NEW k, NEW at,
           ReleaseReconciliationClaim(c, w, k, at)
    PROVE  EntryInv'
  <1>1. /\ Released(c, "reconciling") \in OutboxRow
        /\ Released(c, "reconciling").state = "reconciling"
        /\ Released(c, "reconciling").worker = NoWorker
    BY ReleasedRow DEF EntryInv, CommandStates
  <1>2. command[c] = "reconciling"
    BY DEF ReleaseReconciliationClaim, EntryInv, RowsAgree
  <1>3. TypeOK'
    BY <1>1 DEF ReleaseReconciliationClaim, EntryInv, TypeOK
  <1>4. RowsAgree' /\ OnlyClaimsNameWorkers' /\ AttemptBelongsToClaim'
    BY <1>1, <1>2 DEF ReleaseReconciliationClaim, EntryInv, TypeOK, RowsAgree,
       OnlyClaimsNameWorkers, AttemptBelongsToClaim
  <1>5. OneNonterminalCommand' /\ ReservationExact'
    BY DEF ReleaseReconciliationClaim, EntryInv, OneNonterminalCommand, ReservationExact,
       Nonterminal
  <1>6. AuthorizedIsNeverUnsent' /\ AuthorityNeedsAttempt'
    BY DEF ReleaseReconciliationClaim, EntryInv, AuthorizedIsNeverUnsent,
       AuthorityNeedsAttempt
  <1> QED
    BY <1>3, <1>4, <1>5, <1>6 DEF EntryInv

\* The evidence rows a reconciliation writes have the types of their tables.
LEMMA ReconcileTypes ==
    ASSUME TypeOK, NEW c \in Commands, NEW w, NEW k, NEW at, NEW observed \in Int,
           NEW complete \in BOOLEAN, NEW covered \in SUBSET Roles,
           NEW report \in [covered -> LegRow], NEW p \in Int, NEW q,
           NEW new \in SUBSET IncidentIds,
           Reconcile(c, w, k, at, observed, complete, covered, report, p, q, new)
    PROVE  /\ LegsAfter(c, covered, report) \in [Roles -> LegRow]
           /\ legs' \in [Commands -> [Roles -> LegRow]]
           /\ position' \in [quantity : Int, at : Int]
           /\ protection' \in [Commands -> ProtectionRow]
           /\ incident' \in [IncidentIds -> IncidentRow]
  <1>1. LegsAfter(c, covered, report) \in [Roles -> LegRow]
    BY DEF LegsAfter, TypeOK
  <1>2. legs' \in [Commands -> [Roles -> LegRow]]
    BY <1>1 DEF Reconcile, TypeOK
  <1>3. position' \in [quantity : Int, at : Int]
    BY DEF Reconcile
  <1>4. protection' \in [Commands -> ProtectionRow]
    <2>1. \A f : [state |-> ProtectionState(p, q, f), at |-> observed] \in ProtectionRow
      BY ProtectionStateType DEF ProtectionRow
    <2> QED
      BY <2>1 DEF Reconcile, TypeOK
  <1>5. incident' \in [IncidentIds -> IncidentRow]
    <2>1. [state |-> "open", command |-> c, code |-> "hazard"] \in IncidentRow
      BY DEF IncidentRow, Codes
    <2>2. \A i \in IncidentIds : /\ incident[i] \in IncidentRow
                                 /\ [incident[i] EXCEPT !.state = "closed"] \in IncidentRow
      BY DEF TypeOK, IncidentRow
    <2>3. IncidentsAfter(c, new) \in [IncidentIds -> IncidentRow]
      BY <2>1, <2>2 DEF IncidentsAfter
    <2> QED
      BY <2>2, <2>3 DEF Reconcile, Finish
  <1> QED
    BY <1>1, <1>2, <1>3, <1>4, <1>5

\* Reconciliation that leaves the command alive only rewrites evidence; one that
\* ends it gives back exactly its loss, with every leg terminal.
LEMMA ReconcileInv ==
    ASSUME EntryInv, UNCHANGED now, NEW c \in Commands, NEW w, NEW k, NEW at,
           NEW observed \in Int, NEW complete \in BOOLEAN, NEW covered \in SUBSET Roles,
           NEW report \in [covered -> LegRow], NEW p \in Int, NEW q,
           NEW new \in SUBSET IncidentIds,
           Reconcile(c, w, k, at, observed, complete, covered, report, p, q, new)
    PROVE  EntryInv'
  <1> DEFINE rows == LegsAfter(c, covered, report)
  <1>1. /\ rows \in [Roles -> LegRow]
        /\ legs' \in [Commands -> [Roles -> LegRow]]
        /\ position' \in [quantity : Int, at : Int]
        /\ protection' \in [Commands -> ProtectionRow]
        /\ incident' \in [IncidentIds -> IncidentRow]
    BY ReconcileTypes, ZenonT(60) DEF EntryInv
  <1>2. /\ command[c] = "reconciling"
        /\ attempt[c].state \in {"unknown", "response_received"}
        /\ authority[c] # NoAuthority
        /\ legs' = [legs EXCEPT ![c] = rows]
        /\ UNCHANGED <<grant, approval, preflight, preKey, attempt, preSend, authority,
                       qualification, recovery>>
    BY DEF Reconcile, EntryInv, AttemptBelongsToClaim, AuthorizedIsNeverUnsent
  <1>3. CASE EndsCommand(complete, rows, p, q)
    <2>1. Finish(c)
      BY <1>3 DEF Reconcile
    <2>2. /\ Released(c, "terminal") \in OutboxRow
          /\ Released(c, "terminal").state = "terminal"
          /\ Released(c, "terminal").worker = NoWorker
      BY ReleasedRow DEF EntryInv, CommandStates
    <2>3. /\ reserved' = 0
          /\ qualification' = "idle"
          /\ \A d \in Commands : ~Nonterminal(d)'
      <3>1. Nonterminal(c)
        BY <1>2 DEF Nonterminal
      <3>2. reserved = Loss[c] /\ qualification = "idle"
        BY <3>1 DEF EntryInv, ReservationExact, OneNonterminalCommand
      <3>3. reserved' = 0
        BY <2>1, <3>2, ConstantsAssumption DEF Finish
      <3>4. \A d \in Commands : ~Nonterminal(d)'
        BY <2>1, <3>1 DEF Finish, EntryInv, TypeOK, OneNonterminalCommand, Nonterminal
      <3> QED
        BY <1>2, <3>2, <3>3, <3>4
    <2>4. TypeOK'
      BY <1>1, <1>2, <2>1, <2>2, <2>3 DEF Finish, EntryInv, TypeOK, CommandStates
    <2>5. RowsAgree' /\ OnlyClaimsNameWorkers' /\ AttemptBelongsToClaim'
      BY <1>2, <2>1, <2>2 DEF Finish, EntryInv, TypeOK, RowsAgree, OnlyClaimsNameWorkers,
         AttemptBelongsToClaim
    <2>6. OneNonterminalCommand' /\ ReservationExact'
      BY <2>3 DEF OneNonterminalCommand, ReservationExact
    <2>7. AuthorizedIsNeverUnsent' /\ AuthorityNeedsAttempt'
      BY <1>2, <1>3, <2>1 DEF Finish, EndsCommand, EntryInv, TypeOK,
         AuthorizedIsNeverUnsent, AuthorityNeedsAttempt
    <2> QED
      BY <2>4, <2>5, <2>6, <2>7 DEF EntryInv
  <1>4. CASE ~EndsCommand(complete, rows, p, q)
    <2>1. /\ outbox' = [outbox EXCEPT ![c] = Released(c, "reconciling")]
          /\ UNCHANGED <<ticket, command, reserved>>
      BY <1>4 DEF Reconcile
    <2>2. /\ Released(c, "reconciling") \in OutboxRow
          /\ Released(c, "reconciling").state = "reconciling"
          /\ Released(c, "reconciling").worker = NoWorker
      BY ReleasedRow DEF EntryInv, CommandStates
    <2>3. TypeOK'
      BY <1>1, <1>2, <2>1, <2>2 DEF EntryInv, TypeOK
    <2>4. RowsAgree' /\ OnlyClaimsNameWorkers' /\ AttemptBelongsToClaim'
      BY <1>2, <2>1, <2>2 DEF EntryInv, TypeOK, RowsAgree, OnlyClaimsNameWorkers,
         AttemptBelongsToClaim
    <2>5. OneNonterminalCommand' /\ ReservationExact'
      BY <1>2, <2>1 DEF EntryInv, OneNonterminalCommand, ReservationExact, Nonterminal
    <2>6. AuthorizedIsNeverUnsent' /\ AuthorityNeedsAttempt'
      BY <1>2, <2>1 DEF EntryInv, TypeOK, AuthorizedIsNeverUnsent, AuthorityNeedsAttempt
    <2> QED
      BY <2>3, <2>4, <2>5, <2>6 DEF EntryInv
  <1> QED
    BY <1>3, <1>4

\* record_incident keeps the invariant: incidents are outside of it but for their type.
LEMMA IncidentInv ==
    ASSUME EntryInv, UNCHANGED now, NEW i \in IncidentIds,
           NEW c \in Commands \cup {NoCommand}, NEW code \in Codes,
           RecordIncident(i, c, code)
    PROVE  EntryInv'
  <1>1. [state |-> "open", command |-> c, code |-> code] \in IncidentRow
    BY DEF IncidentRow
  <1>2. incident' \in [IncidentIds -> IncidentRow]
    BY <1>1 DEF RecordIncident, Opened, EntryInv, TypeOK
  <1>3. TypeOK'
    BY <1>2 DEF RecordIncident, EntryInv, TypeOK
  <1> QED
    BY <1>3, FrameInv DEF RecordIncident

\* The qualification lane enters an empty account and leaves it empty.
LEMMA QualificationInv ==
    ASSUME EntryInv, UNCHANGED now, QualificationStep
    PROVE  EntryInv'
  <1>1. /\ UNCHANGED <<grant, ticket, approval, command, outbox, preflight, preKey, attempt,
                       preSend, authority, legs, position, protection, incident, recovery>>
        /\ qualification' \in {"idle", "active", "retained"}
    BY DEF QualificationStep, QualificationAdmit, QualificationClose, QualificationHalt,
       QualificationRelease
  <1>2. /\ reserved' \in Nat
        /\ \A c \in Commands : ~Nonterminal(c)
        /\ qualification' # "idle" => reserved' = QualificationLoss
        /\ qualification' = "idle" => reserved' = 0
    <2>1. CASE QualificationAdmit
      BY <2>1, ConstantsAssumption DEF QualificationAdmit, EntryInv, ReservationExact
    <2>2. CASE QualificationClose
      BY <2>2, ConstantsAssumption DEF QualificationClose, EntryInv, ReservationExact
    <2>3. CASE QualificationHalt
      BY <2>3, ConstantsAssumption DEF QualificationHalt, EntryInv, ReservationExact,
         OneNonterminalCommand
    <2>4. CASE QualificationRelease
      BY <2>4, ConstantsAssumption DEF QualificationRelease, EntryInv, ReservationExact,
         OneNonterminalCommand
    <2> QED
      BY <2>1, <2>2, <2>3, <2>4 DEF QualificationStep
  <1>3. \A c \in Commands : ~Nonterminal(c)'
    BY <1>1, <1>2 DEF Nonterminal
  <1>4. TypeOK'
    BY <1>1, <1>2 DEF EntryInv, TypeOK
  <1>5. OneNonterminalCommand' /\ ReservationExact'
    BY <1>2, <1>3 DEF OneNonterminalCommand, ReservationExact
  <1>6. RowsAgree' /\ OnlyClaimsNameWorkers' /\ AttemptBelongsToClaim'
        /\ AuthorizedIsNeverUnsent' /\ AuthorityNeedsAttempt'
    BY <1>1 DEF EntryInv, RowsAgree, OnlyClaimsNameWorkers, AttemptBelongsToClaim,
       AuthorizedIsNeverUnsent, AuthorityNeedsAttempt
  <1> QED
    BY <1>4, <1>5, <1>6 DEF EntryInv

(***************************************************************************)
(* Normalization of expired claims, alone and at the head of a claim.      *)
(***************************************************************************)

\* What normalization makes of each row, branch by branch.
NormalizedRow(c, at) ==
    /\ ~ClaimExpired(c, at) =>
          /\ ticket'[c] = ticket[c]
          /\ legs'[c] = legs[c]
          /\ attempt'[c] = attempt[c]
          /\ NormalCommand(at)[c] = command[c]
          /\ NormalOutbox(at)[c] = outbox[c]
    /\ ClaimExpired(c, at) =>
          /\ command[c] = "claimed"
          /\ NormalCommand(at)[c] = NormalState(c)
          /\ NormalOutbox(at)[c] = Released(c, NormalState(c))
          /\ \/ /\ NormalState(c) = "queued"
                /\ attempt[c].state = "none"
                /\ ticket'[c] = ticket[c]
                /\ legs'[c] = legs[c]
                /\ attempt'[c] = attempt[c]
             \/ /\ NormalState(c) = "terminal"
                /\ authority[c] = NoAuthority
                /\ c \in Unsent(at)
                /\ ticket'[c] = "terminal"
                /\ legs'[c] = ExpiredLegs
                /\ attempt'[c] = attempt[c]
             \/ /\ NormalState(c) = "submitted_unknown"
                /\ authority[c] # NoAuthority
                /\ ticket'[c] = ticket[c]
                /\ legs'[c] = UnknownLegs(c)
                /\ attempt'[c] = [attempt[c] EXCEPT !.state = "unknown"]

\* What _normalize_expired_claims_locked leaves in each command's rows: unchanged without an
\* expired claim, and otherwise the rows of one of its three branches.
LEMMA NormalizedRows ==
    ASSUME EntryInv, NEW at, NormalizeRows(at), NEW c \in Commands
    PROVE  NormalizedRow(c, at)
  <1>1. CASE ~ClaimExpired(c, at)
    BY <1>1 DEF NormalizeRows, NormalCommand, NormalOutbox, Unsent, NormalizedRow
  <1>2. CASE ClaimExpired(c, at)
    <2>1. /\ command[c] = "claimed"
          /\ NormalCommand(at)[c] = NormalState(c)
          /\ NormalOutbox(at)[c] = Released(c, NormalState(c))
      BY <1>2 DEF ClaimExpired, NormalCommand, NormalOutbox, EntryInv, RowsAgree
    <2>2. CASE attempt[c].state = "none"
      <3>1. NormalState(c) = "queued"
        BY <2>2 DEF NormalState
      <3> QED
        BY <1>2, <2>1, <2>2, <3>1 DEF NormalizeRows, Unsent, NormalizedRow
    <2>3. CASE attempt[c].state # "none" /\ authority[c] = NoAuthority
      <3>1. NormalState(c) = "terminal"
        BY <2>3 DEF NormalState
      <3> QED
        BY <1>2, <2>1, <2>3, <3>1 DEF NormalizeRows, Unsent, NormalizedRow
    <2>4. CASE attempt[c].state # "none" /\ authority[c] # NoAuthority
      <3>1. NormalState(c) = "submitted_unknown"
        BY <2>4 DEF NormalState
      <3> QED
        BY <1>2, <2>1, <2>4, <3>1 DEF NormalizeRows, Unsent, NormalizedRow
    <2> QED
      BY <2>2, <2>3, <2>4
  <1> QED
    BY <1>1, <1>2

\* The outbox and command rows after normalization have their types, agree and
\* name a worker only where a claim survives.
LEMMA NormalizedClaims ==
    ASSUME EntryInv, NEW at
    PROVE  /\ NormalCommand(at) \in [Commands -> CommandStates]
           /\ NormalOutbox(at) \in [Commands -> OutboxRow]
           /\ \A c \in Commands :
                 /\ NormalOutbox(at)[c].state = NormalCommand(at)[c]
                 /\ NormalOutbox(at)[c].token = outbox[c].token
                 /\ NormalOutbox(at)[c].state \notin {"claimed", "reconciling"} =>
                       NormalOutbox(at)[c].worker = NoWorker
  <1>1. \A c \in Commands : NormalState(c) \in CommandStates
    BY DEF NormalState, CommandStates
  <1>2. \A c \in Commands : /\ Released(c, NormalState(c)) \in OutboxRow
                            /\ Released(c, NormalState(c)).state = NormalState(c)
                            /\ Released(c, NormalState(c)).worker = NoWorker
                            /\ Released(c, NormalState(c)).token = outbox[c].token
    BY <1>1, ReleasedRow DEF EntryInv
  <1>3. NormalCommand(at) \in [Commands -> CommandStates]
    BY <1>1 DEF NormalCommand, EntryInv, TypeOK
  <1>4. NormalOutbox(at) \in [Commands -> OutboxRow]
    BY <1>2 DEF NormalOutbox, EntryInv, TypeOK
  <1> QED
    BY <1>2, <1>3, <1>4 DEF NormalCommand, NormalOutbox, EntryInv, RowsAgree,
       OnlyClaimsNameWorkers

\* The loop over expired claims meets at most one presumed-unsent command, and
\* then gives back the whole reservation.
LEMMA NormalizedReservation ==
    ASSUME EntryInv, NEW at
    PROVE  \/ Unsent(at) = {} /\ NormalReserved(at) = reserved
           \/ \E u \in Unsent(at) : /\ NormalReserved(at) = 0
                                    /\ Nonterminal(u)
                                    /\ \A d \in Commands : d # u => ~Nonterminal(d)
  <1>1. CASE Unsent(at) = {}
    BY <1>1 DEF NormalReserved
  <1>2. CASE Unsent(at) # {}
    <2> DEFINE u == CHOOSE c \in Unsent(at) : TRUE
    <2>1. u \in Unsent(at)
      BY <1>2
    <2>2. u \in Commands /\ Nonterminal(u)
      BY <2>1 DEF Unsent, ClaimExpired, Nonterminal, EntryInv, RowsAgree
    <2>3. reserved = Loss[u]
      BY <2>2 DEF EntryInv, ReservationExact
    <2>4. NormalReserved(at) = 0
      <3>1. NormalReserved(at) = reserved - Loss[u]
        BY <1>2 DEF NormalReserved
      <3> QED
        BY <2>2, <2>3, <3>1, ConstantsAssumption
    <2>5. \A d \in Commands : d # u => ~Nonterminal(d)
      BY <2>2 DEF EntryInv, OneNonterminalCommand
    <2> HIDE DEF u
    <2> QED
      BY <2>1, <2>2, <2>4, <2>5
  <1> QED
    BY <1>1, <1>2

\* Normalization, followed in the same transaction by at most the claim of a
\* queued or of an open command, preserves the invariant.
LEMMA NormalizedInv ==
    ASSUME EntryInv, UNCHANGED now, NEW at, NormalizeRows(at),
           UNCHANGED <<grant, approval, preflight, preKey, preSend, authority,
                       position, protection, incident, qualification, recovery>>,
           command' \in [Commands -> CommandStates],
           outbox' \in [Commands -> OutboxRow],
           \A c \in Commands :
              /\ outbox'[c].state = command'[c]
              /\ outbox'[c].state \notin {"claimed", "reconciling"} =>
                    outbox'[c].worker = NoWorker
              /\ \/ command'[c] = NormalCommand(at)[c] /\ outbox'[c] = NormalOutbox(at)[c]
                 \/ NormalCommand(at)[c] = "queued" /\ command'[c] = "claimed"
                 \/ /\ NormalCommand(at)[c] \in {"submitted_unknown", "reconciling"}
                    /\ command'[c] = "reconciling"
    PROVE  EntryInv'
  <1>0. \A c \in Commands : NormalizedRow(c, at)
    BY NormalizedRows
  <1>1. \A c \in Commands : attempt[c] \in AttemptRow /\ attempt'[c] \in AttemptRow
    <2> SUFFICES ASSUME NEW c \in Commands
                 PROVE  attempt[c] \in AttemptRow /\ attempt'[c] \in AttemptRow
      OBVIOUS
    <2>1. attempt[c] \in AttemptRow
      BY DEF EntryInv, TypeOK
    <2>2. [attempt[c] EXCEPT !.state = "unknown"] \in AttemptRow
      BY <2>1 DEF AttemptRow
    <2> QED
      BY <1>0, <2>1, <2>2 DEF NormalizedRow
  <1>2. TypeOK'
    <2>1. attempt' \in [Commands -> AttemptRow]
      BY <1>1 DEF NormalizeRows
    <2>2. legs' \in [Commands -> [Roles -> LegRow]]
      <3>1. \A c \in Commands : legs'[c] \in [Roles -> LegRow]
        <4> SUFFICES ASSUME NEW c \in Commands PROVE legs'[c] \in [Roles -> LegRow]
          OBVIOUS
        <4>1. /\ UnknownLegs(c) \in [Roles -> LegRow]
              /\ ExpiredLegs \in [Roles -> LegRow]
          BY LegRows DEF EntryInv
        <4>2. legs[c] \in [Roles -> LegRow]
          BY DEF EntryInv, TypeOK
        <4> QED
          BY <1>0, <4>1, <4>2 DEF NormalizedRow
      <3> QED
        BY <3>1 DEF NormalizeRows
    <2>3. ticket' \in [Commands -> {"none", "awaiting_approval", "consumed", "terminal"}]
      BY DEF NormalizeRows, EntryInv, TypeOK
    <2>4. reserved' \in Nat
      <3>1. NormalReserved(at) \in {0, reserved}
        BY NormalizedReservation
      <3> QED
        BY <3>1 DEF NormalizeRows, EntryInv, TypeOK
    <2> QED
      BY <2>1, <2>2, <2>3, <2>4 DEF EntryInv, TypeOK
  <1>3. RowsAgree'
    <2> SUFFICES ASSUME NEW c \in Commands
                 PROVE  /\ outbox'[c].state = command'[c]
                        /\ command'[c] = "none" <=> ticket'[c] \in {"none", "awaiting_approval"}
                        /\ command'[c] = "terminal" <=> ticket'[c] = "terminal"
                        /\ command'[c] = "none" <=> approval'[c] # "consumed"
      BY DEF RowsAgree
    <2> QED
      BY <1>0, ZenonT(60) DEF NormalizedRow, EntryInv, RowsAgree
  <1>4. OneNonterminalCommand' /\ ReservationExact'
    <2>1. \A c \in Commands :
             Nonterminal(c)' <=> Nonterminal(c) /\ c \notin Unsent(at)
      BY <1>0 DEF NormalizedRow, Nonterminal, Unsent
    <2>2. CASE Unsent(at) = {} /\ NormalReserved(at) = reserved
      BY <2>1, <2>2 DEF NormalizeRows, EntryInv, OneNonterminalCommand, ReservationExact
    <2>3. CASE \E u \in Unsent(at) : /\ NormalReserved(at) = 0
                                     /\ Nonterminal(u)
                                     /\ \A d \in Commands : d # u => ~Nonterminal(d)
      <3>1. PICK u \in Unsent(at) : /\ NormalReserved(at) = 0
                                    /\ Nonterminal(u)
                                    /\ \A d \in Commands : d # u => ~Nonterminal(d)
        BY <2>3
      <3>2. \A c \in Commands : ~Nonterminal(c)'
        BY <2>1, <3>1
      <3>3. u \in Commands
        BY DEF Unsent
      <3>4. reserved' = 0 /\ qualification' = "idle"
        BY <3>1, <3>3 DEF NormalizeRows, EntryInv, OneNonterminalCommand
      <3> QED
        BY <3>2, <3>4 DEF OneNonterminalCommand, ReservationExact
    <2> QED
      BY <2>2, <2>3, NormalizedReservation
  <1>5. AttemptBelongsToClaim'
    <2> SUFFICES ASSUME NEW c \in Commands
                 PROVE  /\ command'[c] \in {"none", "queued"} => attempt'[c].state = "none"
                        /\ command'[c] = "claimed" /\ attempt'[c].state # "none" =>
                              /\ attempt'[c].state = "prepared"
                              /\ attempt'[c].worker = outbox'[c].worker
                              /\ attempt'[c].token = outbox'[c].token
                        /\ command'[c] \in {"submitted_unknown", "reconciling"} =>
                              attempt'[c].state \in {"unknown", "response_received"}
      BY DEF AttemptBelongsToClaim
    <2>1. [attempt[c] EXCEPT !.state = "unknown"].state = "unknown"
      BY <1>1 DEF AttemptRow
    <2>2. CASE ClaimExpired(c, at)
      BY <1>0, <2>1, <2>2 DEF NormalizedRow
    <2>3. CASE ~ClaimExpired(c, at)
      <3>1. /\ attempt'[c] = attempt[c]
            /\ NormalCommand(at)[c] = command[c]
            /\ NormalOutbox(at)[c] = outbox[c]
        BY <1>0, <2>3 DEF NormalizedRow
      <3> QED
        BY <3>1 DEF EntryInv, AttemptBelongsToClaim
    <2> QED
      BY <2>2, <2>3
  <1>6. AuthorizedIsNeverUnsent' /\ AuthorityNeedsAttempt'
    <2> SUFFICES ASSUME NEW c \in Commands
                 PROVE  /\ authority[c] # NoAuthority => command'[c] \notin {"none", "queued"}
                        /\ command'[c] = "terminal" /\ authority[c] # NoAuthority =>
                              /\ attempt'[c].state \in {"unknown", "response_received"}
                              /\ \A r \in Roles : legs'[c][r].status \in TerminalLegStates
                        /\ attempt'[c].state \in {"unknown", "response_received"} =>
                              authority[c] # NoAuthority
                        /\ authority[c] # NoAuthority => attempt'[c].state # "none"
      BY DEF AuthorizedIsNeverUnsent, AuthorityNeedsAttempt
    <2>1. [attempt[c] EXCEPT !.state = "unknown"].state = "unknown"
      BY <1>1 DEF AttemptRow
    <2> QED
      BY <1>0, <2>1, ZenonT(60)
         DEF NormalizedRow, EntryInv, AuthorizedIsNeverUnsent, AuthorityNeedsAttempt
  <1>7. OnlyClaimsNameWorkers'
    BY DEF OnlyClaimsNameWorkers
  <1> QED
    BY <1>2, <1>3, <1>4, <1>5, <1>6, <1>7 DEF EntryInv

\* normalize_expired_entry_claims keeps the invariant; its presumed-unsent branch gives a loss back once.
LEMMA NormalizeInv ==
    ASSUME EntryInv, UNCHANGED now, NEW at, NormalizeExpiredEntryClaims(at)
    PROVE  EntryInv'
  <1>1. /\ NormalCommand(at) \in [Commands -> CommandStates]
        /\ NormalOutbox(at) \in [Commands -> OutboxRow]
        /\ \A c \in Commands :
              /\ NormalOutbox(at)[c].state = NormalCommand(at)[c]
              /\ NormalOutbox(at)[c].state \notin {"claimed", "reconciling"} =>
                    NormalOutbox(at)[c].worker = NoWorker
    BY NormalizedClaims
  <1>2. /\ NormalizeRows(at)
        /\ command' = NormalCommand(at)
        /\ outbox' = NormalOutbox(at)
        /\ UNCHANGED <<grant, approval, preflight, preKey, preSend, authority,
                       position, protection, incident, qualification, recovery>>
    BY DEF NormalizeExpiredEntryClaims
  <1> QED
    BY <1>1, <1>2, NormalizedInv

\* Either claim operation hands out the next fence over the normalized rows.
LEMMA ClaimInv ==
    ASSUME EntryInv, UNCHANGED now, NEW c \in Commands, NEW w \in Workers,
           NEW at \in Nat, NEW l \in Nat,
           ClaimNext(c, w, at, l) \/ ClaimReconciliation(c, w, at, l)
    PROVE  EntryInv'
  <1>1. /\ NormalCommand(at) \in [Commands -> CommandStates]
        /\ NormalOutbox(at) \in [Commands -> OutboxRow]
        /\ \A d \in Commands :
              /\ NormalOutbox(at)[d].state = NormalCommand(at)[d]
              /\ NormalOutbox(at)[d].state \notin {"claimed", "reconciling"} =>
                    NormalOutbox(at)[d].worker = NoWorker
    BY NormalizedClaims
  <1>2. outbox[c].token \in Nat
    BY DEF EntryInv, TypeOK, OutboxRow
  <1>3. PICK s \in {"claimed", "reconciling"} :
          /\ NormalizeRows(at)
          /\ UNCHANGED <<grant, approval, preflight, preKey, preSend, authority,
                         position, protection, incident, qualification, recovery>>
          /\ command' = [NormalCommand(at) EXCEPT ![c] = s]
          /\ outbox' = [NormalOutbox(at) EXCEPT
                           ![c] = [state |-> s, worker |-> w, token |-> outbox[c].token + 1,
                                   claimedAt |-> at, lease |-> at + l]]
          /\ \/ s = "claimed" /\ NormalOutbox(at)[c].state = "queued"
             \/ /\ s = "reconciling"
                /\ NormalOutbox(at)[c].state \in {"submitted_unknown", "reconciling"}
    BY DEF ClaimNext, ClaimReconciliation
  <1> DEFINE row == [state |-> s, worker |-> w, token |-> outbox[c].token + 1,
                     claimedAt |-> at, lease |-> at + l]
  <1>4. row \in OutboxRow /\ row.state = s
    BY <1>2 DEF OutboxRow, CommandStates
  <1>5. outbox' = [NormalOutbox(at) EXCEPT ![c] = row]
    BY <1>3
  <1> HIDE DEF row
  <1>6. /\ command' \in [Commands -> CommandStates]
        /\ outbox' \in [Commands -> OutboxRow]
    BY <1>1, <1>3, <1>4, <1>5 DEF CommandStates
  <1>7. ASSUME NEW d \in Commands
        PROVE  /\ outbox'[d].state = command'[d]
               /\ outbox'[d].state \notin {"claimed", "reconciling"} =>
                     outbox'[d].worker = NoWorker
               /\ \/ /\ command'[d] = NormalCommand(at)[d]
                     /\ outbox'[d] = NormalOutbox(at)[d]
                  \/ NormalCommand(at)[d] = "queued" /\ command'[d] = "claimed"
                  \/ /\ NormalCommand(at)[d] \in {"submitted_unknown", "reconciling"}
                     /\ command'[d] = "reconciling"
    <2>1. CASE d = c
      BY <1>1, <1>3, <1>4, <1>5, <2>1
    <2>2. CASE d # c
      BY <1>1, <1>3, <1>5, <2>2
    <2> QED
      BY <2>1, <2>2
  <1> QED
    BY <1>3, <1>6, <1>7, NormalizedInv

(***************************************************************************)
(* The invariant is inductive.                                             *)
(***************************************************************************)

\* Clock readings, tokens and leases are natural numbers.
LEMMA InputTypes ==
    ASSUME TypeOK
    PROVE  /\ Readings \subseteq Nat
           /\ Times \subseteq Nat
           /\ 1..MaxToken \subseteq Nat
           /\ Leases \subseteq Nat
  BY ConstantsAssumption DEF TypeOK, Readings, Times

\* The passage of time changes no row.
LEMMA TickInv ==
    ASSUME EntryInv, Tick
    PROVE  EntryInv'
  <1>1. TypeOK'
    BY DEF Tick, storeVars, EntryInv, TypeOK
  <1> QED
    BY <1>1, FrameInv DEF Tick, storeVars

\* Every step of the entry lane keeps the inductive invariant.
LEMMA NextInv == EntryInv /\ [EntryNext]_entryVars => EntryInv'
  <1> SUFFICES ASSUME EntryInv, [EntryNext]_entryVars PROVE EntryInv'
    OBVIOUS
  <1>0. /\ Readings \subseteq Nat
        /\ Times \subseteq Nat
        /\ 1..MaxToken \subseteq Nat
        /\ Leases \subseteq Nat
    BY InputTypes DEF EntryInv
  <1>1. CASE UNCHANGED entryVars
    <2>1. TypeOK'
      BY <1>1 DEF entryVars, storeVars, EntryInv, TypeOK
    <2> QED
      BY <1>1, <2>1, FrameInv DEF entryVars, storeVars
  <1>2. CASE Tick
    BY <1>2, TickInv
  <1>3. ASSUME UNCHANGED now, AdmissionStep PROVE EntryInv'
    BY <1>3, GrantInv, PaperworkInv, AdmissionInv DEF AdmissionStep
  <1>4. ASSUME UNCHANGED now, MaintenanceStep PROVE EntryInv'
    BY <1>4, NormalizeInv, TerminateUnsentInv DEF MaintenanceStep
  <1>5. ASSUME UNCHANGED now, ClaimStep PROVE EntryInv'
    BY <1>0, <1>5, ClaimInv, RenewInv, DeferInv, TerminateUnsentInv, ReleaseInv DEF ClaimStep
  <1>6. ASSUME UNCHANGED now, DispatchStep PROVE EntryInv'
    BY <1>0, <1>6, EvidenceInv, PrepareInv, AuthorityInv DEF DispatchStep
  <1>7. ASSUME UNCHANGED now, OutcomeStep PROVE EntryInv'
    BY <1>0, <1>7, MarkUnknownInv, EmptyResponseInv, ResponseInv DEF OutcomeStep
  <1>8. ASSUME UNCHANGED now, ReconcileStep PROVE EntryInv'
    <2>1. /\ Positions \subseteq Int
          /\ \A covered : [covered -> LegReports] \subseteq [covered -> LegRow]
      BY ReportRows, ConstantsAssumption
    <2> QED
      BY <1>0, <1>8, <2>1, ReconcileInv DEF ReconcileStep
  <1>9. ASSUME UNCHANGED now, IncidentStep PROVE EntryInv'
    BY <1>9, IncidentInv DEF IncidentStep
  <1> QED
    BY <1>1, <1>2, <1>3, <1>4, <1>5, <1>6, <1>7, <1>8, <1>9, QualificationInv
       DEF EntryNext, EntryStep

\* The inductive invariant holds in every state of the entry lane.
THEOREM EntryInvariant == EntrySpec => []EntryInv
  BY InitInv, NextInv, PTL DEF EntrySpec

\* Rows keep their shape and the exposure never goes negative (TypeOK).
THEOREM TypeCorrect == EntrySpec => []TypeOK
  <1>1. EntryInv => TypeOK
    BY DEF EntryInv
  <1> QED
    BY <1>1, EntryInvariant, PTL

\* Ticket, approval, command and outbox rows agree after every transaction.
THEOREM RowsAlwaysAgree == EntrySpec => []RowsAgree
  <1>1. EntryInv => RowsAgree
    BY DEF EntryInv
  <1> QED
    BY <1>1, EntryInvariant, PTL

\* Admission serializes new risk across both lanes.
THEOREM RiskIsSerialized == EntrySpec => []OneNonterminalCommand
  <1>1. EntryInv => OneNonterminalCommand
    BY DEF EntryInv
  <1> QED
    BY <1>1, EntryInvariant, PTL

\* The account's exposure row is exact: no loss is given back twice or kept.
THEOREM ReservationIsExact == EntrySpec => []ReservationExact
  <1>1. EntryInv => ReservationExact
    BY DEF EntryInv
  <1> QED
    BY <1>1, EntryInvariant, PTL

\* A prepared attempt is visible only to the claim that prepared it.
THEOREM AttemptStaysWithClaim == EntrySpec => []AttemptBelongsToClaim
  <1>1. EntryInv => AttemptBelongsToClaim
    BY DEF EntryInv
  <1> QED
    BY <1>1, EntryInvariant, PTL

\* A command whose submission authority was consumed is never treated as unsent.
THEOREM AuthorizedNeverUnsent == EntrySpec => []AuthorizedIsNeverUnsent
  <1>1. EntryInv => AuthorizedIsNeverUnsent
    BY DEF EntryInv
  <1> QED
    BY <1>1, EntryInvariant, PTL

(***************************************************************************)
(* Critical incidents.                                                     *)
(***************************************************************************)

\* Steps other than a response, a reconciliation or an incident report leave
\* protection and incidents alone.
LEMMA QuietSteps ==
    ASSUME AdmissionStep \/ MaintenanceStep \/ ClaimStep \/ DispatchStep \/ QualificationStep
    PROVE  UNCHANGED <<protection, incident, position>>
  <1>1. CASE AdmissionStep
    BY <1>1 DEF AdmissionStep, RegisterInfrastructureGrant, RegisterTicket,
       RegisterApproval, RevokeApproval, Admit, AdmitChatHandoff, Queue
  <1>2. CASE MaintenanceStep
    BY <1>2 DEF MaintenanceStep, NormalizeExpiredEntryClaims, ExpireNextQueuedUnsent
  <1>3. CASE ClaimStep
    BY <1>3 DEF ClaimStep, ClaimNext, ClaimReconciliation, RenewClaim, DeferUnsentClaim,
       VoidUnsentCommand, ReleaseReconciliationClaim
  <1>4. CASE DispatchStep
    BY <1>4 DEF DispatchStep, RegisterPreflight, RecordPreKey, PrepareAttempt,
       RecordPreSend, RequireSubmissionAuthority
  <1>5. CASE QualificationStep
    BY <1>5 DEF QualificationStep, QualificationAdmit, QualificationClose,
       QualificationHalt, QualificationRelease
  <1> QED
    BY <1>1, <1>2, <1>3, <1>4, <1>5

\* A response that leaves a position short of protection opens an incident.
LEMMA ResponseHalts ==
    ASSUME TypeOK, BadProtectionHalts, NEW c \in Commands, NEW w, NEW k, NEW at, NEW t,
           NEW response, NEW i \in IncidentIds,
           RecordSubmissionResponse(c, w, k, at, t, response, i)
    PROVE  BadProtectionHalts'
  <1>1. CASE UNCHANGED <<protection, incident>>
    BY <1>1 DEF BadProtectionHalts
  <1>2. CASE ~UNCHANGED <<protection, incident>>
    <2>1. /\ incident[i].state = "none"
          /\ incident' = Opened(i, c, "hazard")
          /\ \A d \in Commands \ {c} : protection'[d] = protection[d]
      BY <1>2 DEF RecordSubmissionResponse, FreshIncident, TypeOK
    <2>2. /\ incident'[i].command = c
          /\ incident'[i].state = "open"
          /\ \A j \in IncidentIds \ {i} : incident'[j] = incident[j]
      BY <2>1 DEF Opened, TypeOK
    <2> QED
      BY <2>1, <2>2 DEF BadProtectionHalts
  <1> QED
    BY <1>1, <1>2

\* A reconciliation opens an incident for every position the stop does not
\* cover exactly, and closes incidents only when it finds the account flat.
LEMMA ReconcileHalts ==
    ASSUME TypeOK, BadProtectionHalts, NEW c \in Commands, NEW w, NEW k, NEW at,
           NEW observed, NEW complete, NEW covered, NEW report, NEW p \in Positions,
           NEW q \in 0..Quantity, NEW new \in SUBSET IncidentIds,
           Reconcile(c, w, k, at, observed, complete, covered, report, p, q, new)
    PROVE  BadProtectionHalts'
  <1> DEFINE rows == LegsAfter(c, covered, report)
             failed == rows["protective_stop"].status \in FailedStopStates
             state == ProtectionState(p, q, failed)
  <1>1. /\ protection'[c].state = state
        /\ \A d \in Commands \ {c} : protection'[d] = protection[d]
        /\ Cardinality(new) = HazardCount(state, p)
        /\ \A i \in new : incident[i].state = "none"
    BY DEF Reconcile, FreshIncident, TypeOK
  <1>2. CASE EndsCommand(complete, rows, p, q)
    <2>1. state = "flat"
      <3>1. p = 0 /\ q = 0
        BY <1>2 DEF EndsCommand
      <3>2. \A f \in BOOLEAN : ProtectionState(0, 0, f) = "flat"
        BY DEF ProtectionState, Abs
      <3>3. failed \in BOOLEAN
        OBVIOUS
      <3> HIDE DEF failed
      <3> QED
        BY <3>1, <3>2, <3>3
    <2>2. \A i \in IncidentIds : incident[i].command # c => incident'[i] = incident[i]
      BY <1>2 DEF Reconcile, Finish, Settled
    <2> QED
      BY <1>1, <2>1, <2>2 DEF BadProtectionHalts, BadProtection
  <1>3. CASE ~EndsCommand(complete, rows, p, q)
    <2>1. incident' = IncidentsAfter(c, new)
      BY <1>3 DEF Reconcile
    <2>2. \A i \in IncidentIds :
             /\ i \in new => incident'[i].command = c /\ incident'[i].state = "open"
             /\ i \notin new => incident'[i] = incident[i]
      BY <2>1 DEF IncidentsAfter
    <2>3. ASSUME state \in BadProtection PROVE \E i \in new : TRUE
      <3>1. HazardCount(state, p) # 0
        BY <2>3, ConstantsAssumption DEF HazardCount
      <3> QED
        BY <1>1, <3>1, FS_EmptySet
    <2> QED
      BY <1>1, <2>2, <2>3 DEF BadProtectionHalts
  <1> QED
    BY <1>2, <1>3

\* record_incident closes nothing: every halt that was there is still there.
LEMMA ReportHalts ==
    ASSUME TypeOK, BadProtectionHalts, NEW i \in IncidentIds, NEW c, NEW code,
           RecordIncident(i, c, code)
    PROVE  BadProtectionHalts'
  <1>1. /\ incident[i].state = "none"
        /\ \A j \in IncidentIds \ {i} : incident'[j] = incident[j]
        /\ protection' = protection
    BY DEF RecordIncident, FreshIncident, Opened, TypeOK
  <1> QED
    BY <1>1 DEF BadProtectionHalts

\* A position the protective stop does not cover exactly keeps the account halted.
THEOREM BadProtectionAlwaysHalts == EntrySpec => []BadProtectionHalts
  <1>1. EntryInit => BadProtectionHalts
    BY DEF EntryInit, BadProtectionHalts, BadProtection
  <1>2. TypeOK /\ BadProtectionHalts /\ [EntryNext]_entryVars => BadProtectionHalts'
    <2> SUFFICES ASSUME TypeOK, BadProtectionHalts, [EntryNext]_entryVars
                 PROVE  BadProtectionHalts'
      OBVIOUS
    <2>1. ASSUME UNCHANGED <<protection, incident>> PROVE BadProtectionHalts'
      BY <2>1 DEF BadProtectionHalts
    <2>2. CASE UNCHANGED entryVars \/ Tick
      BY <2>1, <2>2 DEF entryVars, storeVars, Tick
    <2>3. CASE AdmissionStep \/ MaintenanceStep \/ ClaimStep \/ DispatchStep \/ QualificationStep
      BY <2>1, <2>3, QuietSteps
    <2>4. CASE OutcomeStep
      BY <2>1, <2>4, ResponseHalts DEF OutcomeStep, MarkSubmittedUnknown, RecordEmptyResponse
    <2>5. CASE ReconcileStep
      BY <2>5, ReconcileHalts DEF ReconcileStep
    <2>6. CASE IncidentStep
      BY <2>6, ReportHalts DEF IncidentStep
    <2> QED
      BY <2>2, <2>3, <2>4, <2>5, <2>6 DEF EntryNext, EntryStep
  <1> QED
    BY <1>1, <1>2, TypeCorrect, PTL DEF EntrySpec

(***************************************************************************)
(* Action properties.                                                      *)
(***************************************************************************)

\* A command row whose authority was consumed ends in no step but Finish.
LEMMA EndsOnlyInReconcile ==
    ASSUME EntryInv, EntryStep, NEW c \in Commands, authority[c] # NoAuthority,
           command[c] # "terminal", command'[c] = "terminal"
    PROVE  ReconcileStep
  <1>0. command \in [Commands -> CommandStates]
    BY DEF EntryInv, TypeOK
  <1>1. ASSUME NEW d \in Commands, TerminateUnsent(d), authority[d] = NoAuthority
        PROVE  FALSE
    BY <1>0, <1>1 DEF TerminateUnsent
  <1>2. ASSUME NEW at, NormalizeRows(at),
               \/ command'[c] = NormalCommand(at)[c]
               \/ command'[c] \in {"claimed", "reconciling"}
        PROVE  FALSE
    <2>1. NormalizedRow(c, at)
      BY <1>2, NormalizedRows
    <2> QED
      BY <1>2, <2>1 DEF NormalizedRow
  <1>3. ~AdmissionStep
    BY <1>0 DEF AdmissionStep, RegisterInfrastructureGrant, RegisterTicket,
       RegisterApproval, RevokeApproval, Admit, AdmitChatHandoff, Queue
  <1>4. ~MaintenanceStep
    BY <1>1, <1>2 DEF MaintenanceStep, NormalizeExpiredEntryClaims, ExpireNextQueuedUnsent
  <1>5. ~ClaimStep
    <2>1. \A at : NormalCommand(at) \in [Commands -> CommandStates]
      BY NormalizedClaims
    <2>2. ASSUME NEW d \in Commands, NEW w, NEW at, NEW l,
                 ClaimNext(d, w, at, l) \/ ClaimReconciliation(d, w, at, l)
          PROVE  FALSE
      <3>1. /\ NormalizeRows(at)
            /\ \/ command' = [NormalCommand(at) EXCEPT ![d] = "claimed"]
               \/ command' = [NormalCommand(at) EXCEPT ![d] = "reconciling"]
        BY <2>2 DEF ClaimNext, ClaimReconciliation
      <3> QED
        BY <1>2, <2>1, <3>1
    <2> QED
      BY <1>0, <1>1, <2>2 DEF ClaimStep, RenewClaim, DeferUnsentClaim, VoidUnsentCommand,
         ReleaseReconciliationClaim
  <1>6. ~DispatchStep
    BY DEF DispatchStep, RegisterPreflight, RecordPreKey, PrepareAttempt,
       RecordPreSend, RequireSubmissionAuthority
  <1>7. ~OutcomeStep
    BY <1>0 DEF OutcomeStep, MarkSubmittedUnknown, RecordEmptyResponse,
       RecordSubmissionResponse
  <1>8. ~IncidentStep /\ ~QualificationStep
    BY DEF IncidentStep, RecordIncident, QualificationStep, QualificationAdmit,
       QualificationClose, QualificationHalt, QualificationRelease
  <1> QED
    BY <1>3, <1>4, <1>5, <1>6, <1>7, <1>8 DEF EntryStep

\* What a reconciliation that ends its command has seen.
LEMMA FinishFacts ==
    ASSUME TypeOK, NEW c \in Commands, NEW w, NEW k, NEW at, NEW observed, NEW complete,
           NEW covered, NEW report, NEW p, NEW q, NEW new,
           Reconcile(c, w, k, at, observed, complete, covered, report, p, q, new),
           EndsCommand(complete, LegsAfter(c, covered, report), p, q)
    PROVE  /\ command[c] = "reconciling"
           /\ command'[c] = "terminal"
           /\ position'.quantity = 0
           /\ protection'[c].state = "flat"
           /\ \A r \in Roles : legs'[c][r].status \in TerminalLegStates
           /\ \A d \in Commands \ {c} : command'[d] = command[d]
           /\ \A i \in IncidentIds : incident[i].command # c => incident'[i] = incident[i]
  <1> DEFINE rows == LegsAfter(c, covered, report)
             failed == rows["protective_stop"].status \in FailedStopStates
  <1>1. /\ p = 0
        /\ q = 0
        /\ \A r \in Roles : rows[r].status \in TerminalLegStates
    BY DEF EndsCommand
  <1>2. /\ command[c] = "reconciling"
        /\ position' = [quantity |-> p, at |-> observed]
        /\ protection' = [protection EXCEPT ![c] =
                             [state |-> ProtectionState(p, q, failed), at |-> observed]]
        /\ legs' = [legs EXCEPT ![c] = rows]
        /\ Finish(c)
    BY DEF Reconcile
  <1>3. ProtectionState(p, q, failed) = "flat"
    <2>1. \A f \in BOOLEAN : ProtectionState(0, 0, f) = "flat"
      BY DEF ProtectionState, Abs
    <2>2. failed \in BOOLEAN
      OBVIOUS
    <2> HIDE DEF failed
    <2> QED
      BY <1>1, <2>1, <2>2
  <1> HIDE DEF rows, failed
  <1>4. legs'[c] = rows /\ protection'[c].state = "flat" /\ position'.quantity = 0
    BY <1>1, <1>2, <1>3 DEF TypeOK
  <1>5. /\ command'[c] = "terminal"
        /\ \A d \in Commands \ {c} : command'[d] = command[d]
        /\ \A i \in IncidentIds : incident[i].command # c => incident'[i] = incident[i]
    BY <1>2 DEF Finish, Settled, TypeOK
  <1> QED
    BY <1>1, <1>2, <1>4, <1>5

\* A sent entry ends only out of reconciliation, flat and with every leg terminal.
THEOREM SentEndsOnlyFlat == EntrySpec => OnlyFlatEvidenceEndsSent
  <1>1. EntryInv /\ [EntryNext]_entryVars => [SentEndsFlat]_entryVars
    <2> SUFFICES ASSUME EntryInv, EntryNext, NEW c \in Commands,
                        authority[c] # NoAuthority, command[c] # "terminal",
                        command'[c] = "terminal"
                 PROVE  /\ command[c] = "reconciling"
                        /\ position'.quantity = 0
                        /\ protection'[c].state = "flat"
                        /\ \A r \in Roles : legs'[c][r].status \in TerminalLegStates
      BY DEF SentEndsFlat
    <2>1. EntryStep
      BY DEF EntryNext, Tick, storeVars
    <2>2. ReconcileStep
      BY <2>1, EndsOnlyInReconcile
    <2>3. PICK at \in Readings, observed \in Readings, d \in Commands, w \in Workers,
               k \in 1..MaxToken, complete \in BOOLEAN, covered \in SUBSET Roles,
               p \in Positions, q \in 0..Quantity, new \in SUBSET IncidentIds :
               \E report \in [covered -> LegReports] :
                  Reconcile(d, w, k, at, observed, complete, covered, report, p, q, new)
      BY <2>2 DEF ReconcileStep
    <2>4. PICK report \in [covered -> LegReports] :
               Reconcile(d, w, k, at, observed, complete, covered, report, p, q, new)
      BY <2>3
    <2>5. EndsCommand(complete, LegsAfter(d, covered, report), p, q)
      BY <2>4 DEF Reconcile
    <2>6. TypeOK
      BY DEF EntryInv
    <2>7. c = d
      BY <2>4, <2>5, <2>6, FinishFacts
    <2> QED
      BY <2>4, <2>5, <2>6, <2>7, FinishFacts
  <1> QED
    BY <1>1, EntryInvariant, PTL DEF EntrySpec, OnlyFlatEvidenceEndsSent

\* A critical incident is closed only with its entry ended and the account flat.
THEOREM HaltsLiftOnlyFlat == EntrySpec => HaltLiftsOnlyFlat
  <1>1. TypeOK /\ [EntryNext]_entryVars => [IncidentClosesFlat]_entryVars
    <2> SUFFICES ASSUME TypeOK, EntryNext, NEW i \in IncidentIds,
                        incident[i].state \in {"open", "contained"},
                        incident'[i].state = "closed"
                 PROVE  /\ incident[i].command # NoCommand
                        /\ command'[incident[i].command] = "terminal"
                        /\ position'.quantity = 0
                        /\ \A r \in Roles :
                              legs'[incident[i].command][r].status \in TerminalLegStates
      BY DEF IncidentClosesFlat
    <2>1. EntryStep
      BY DEF EntryNext, Tick, storeVars
    <2>2. ~OutcomeStep
      BY SMTT(30) DEF OutcomeStep, MarkSubmittedUnknown, RecordEmptyResponse,
         RecordSubmissionResponse, Opened, TypeOK
    <2>3. ~IncidentStep
      BY DEF IncidentStep, RecordIncident, Opened, TypeOK
    <2>4. ReconcileStep
      BY <2>1, <2>2, <2>3, QuietSteps DEF EntryStep
    <2>5. PICK at \in Readings, observed \in Readings, d \in Commands, w \in Workers,
               k \in 1..MaxToken, complete \in BOOLEAN, covered \in SUBSET Roles,
               p \in Positions, q \in 0..Quantity, new \in SUBSET IncidentIds :
               \E report \in [covered -> LegReports] :
                  Reconcile(d, w, k, at, observed, complete, covered, report, p, q, new)
      BY <2>4 DEF ReconcileStep
    <2>6. PICK report \in [covered -> LegReports] :
               Reconcile(d, w, k, at, observed, complete, covered, report, p, q, new)
      BY <2>5
    <2>7. EndsCommand(complete, LegsAfter(d, covered, report), p, q)
      <3>1. \A j \in IncidentIds : IncidentsAfter(d, new)[j].state # "closed"
                                   \/ IncidentsAfter(d, new)[j] = incident[j]
        BY DEF IncidentsAfter
      <3> QED
        BY <2>6, <3>1 DEF Reconcile
    <2>8. incident[i].command = d
      BY <2>6, <2>7, FinishFacts
    <2>9. d # NoCommand
      BY ConstantsAssumption
    <2> QED
      BY <2>6, <2>7, <2>8, <2>9, FinishFacts
  <1> QED
    BY <1>1, TypeCorrect, PTL DEF EntrySpec, HaltLiftsOnlyFlat

\* Steps that hand out no fence keep every token and install no new worker.
FencesKept ==
    \A c \in Commands : /\ outbox'[c].token = outbox[c].token
                        /\ outbox'[c].worker \in {NoWorker, outbox[c].worker}

\* A step that changes no token and hands no claim to another worker respects the fencing rule.
LEMMA FencesKeptSuffice ==
    ASSUME TypeOK, FencesKept
    PROVE  ClaimLapsesOrStays
  <1>1. \A c \in Commands : outbox[c].token \in Nat
    BY DEF TypeOK, OutboxRow
  <1> QED
    BY <1>1 DEF FencesKept, ClaimLapsesOrStays

\* A step that only releases one claim, keeping its token, respects the fencing rule.
LEMMA ReleaseKeepsFences ==
    ASSUME TypeOK, NEW d \in Commands, NEW s \in CommandStates,
           outbox' = [outbox EXCEPT ![d] = Released(d, s)]
    PROVE  FencesKept
  <1>1. /\ Released(d, s).worker = NoWorker
        /\ Released(d, s).token = outbox[d].token
    BY ReleasedRow
  <1> QED
    BY <1>1 DEF FencesKept, TypeOK

\* A claim operation takes over a row only when no worker held it any more or
\* its lease had run out.
LEMMA ClaimTakesLapsed ==
    ASSUME EntryInv, NEW c \in Commands, NEW w \in Workers, NEW at \in Readings, NEW l,
           ClaimNext(c, w, at, l) \/ ClaimReconciliation(c, w, at, l)
    PROVE  ClaimLapsesOrStays
  <1>1. /\ NormalOutbox(at) \in [Commands -> OutboxRow]
        /\ \A d \in Commands :
              /\ NormalOutbox(at)[d].token = outbox[d].token
              /\ NormalOutbox(at)[d].state \notin {"claimed", "reconciling"} =>
                    NormalOutbox(at)[d].worker = NoWorker
    BY NormalizedClaims
  <1>2. \A d \in Commands : \/ NormalOutbox(at)[d] = outbox[d]
                            \/ /\ outbox[d].lease <= at
                               /\ NormalOutbox(at)[d].worker = NoWorker
    BY DEF NormalOutbox, ClaimExpired, Released
  <1>3. at <= now /\ at \in Nat /\ now \in Nat
    BY DEF Readings, EntryInv, TypeOK
  <1>4. \A d \in Commands : outbox[d].token \in Nat /\ outbox[d].lease \in Int
    BY DEF EntryInv, TypeOK, OutboxRow
  <1>5. /\ outbox'[c].token = outbox[c].token + 1
        /\ \A d \in Commands \ {c} : outbox'[d] = NormalOutbox(at)[d]
        /\ NormalOutbox(at)[c].worker = NoWorker \/ NormalOutbox(at)[c].lease <= at
    BY <1>1 DEF ClaimNext, ClaimReconciliation
  <1>6. outbox[c].worker # NoWorker => outbox[c].lease <= now
    BY <1>2, <1>3, <1>4, <1>5
  <1>7. \A d \in Commands \ {c} : /\ outbox'[d].token = outbox[d].token
                                  /\ outbox'[d].worker \in {NoWorker, outbox[d].worker}
    BY <1>1, <1>2, <1>5
  <1> QED
    BY <1>4, <1>5, <1>6, <1>7 DEF ClaimLapsesOrStays

\* A claim moves to another worker only after its lease ran out, with a higher
\* fencing token.
THEOREM ClaimsMoveOnlyWhenLapsed == EntrySpec => ClaimsLapseBeforeTheyMove
  <1>1. EntryInv /\ [EntryNext]_entryVars => [ClaimLapsesOrStays]_entryVars
    <2> SUFFICES ASSUME EntryInv, EntryNext PROVE ClaimLapsesOrStays
      OBVIOUS
    <2>1. TypeOK
      BY DEF EntryInv
    <2>2. ASSUME outbox' = outbox PROVE ClaimLapsesOrStays
      BY <2>1, <2>2, FencesKeptSuffice DEF FencesKept
    <2>3. ASSUME NEW d \in Commands, NEW s \in CommandStates,
                 outbox' = [outbox EXCEPT ![d] = Released(d, s)]
          PROVE  ClaimLapsesOrStays
      BY <2>1, <2>3, ReleaseKeepsFences, FencesKeptSuffice
    <2>4. /\ "queued" \in CommandStates
          /\ "terminal" \in CommandStates
          /\ "submitted_unknown" \in CommandStates
          /\ "reconciling" \in CommandStates
      BY DEF CommandStates
    <2>5. CASE Tick
      BY <2>2, <2>5 DEF Tick, storeVars
    <2>6. CASE AdmissionStep
      BY <2>2, <2>3, <2>4, <2>6 DEF AdmissionStep, RegisterInfrastructureGrant,
         RegisterTicket, RegisterApproval, RevokeApproval, Admit, AdmitChatHandoff, Queue
    <2>7. CASE MaintenanceStep
      <3>1. ASSUME NEW at, outbox' = NormalOutbox(at) PROVE ClaimLapsesOrStays
        <4>1. FencesKept
          BY <3>1 DEF FencesKept, NormalOutbox, Released
        <4> QED
          BY <2>1, <4>1, FencesKeptSuffice
      <3> QED
        BY <2>3, <2>4, <2>7, <3>1 DEF MaintenanceStep, NormalizeExpiredEntryClaims,
           ExpireNextQueuedUnsent, TerminateUnsent
    <2>8. CASE ClaimStep
      <3>1. ASSUME NEW c \in Commands, NEW w, NEW k, NEW at, NEW l,
                   RenewClaim(c, w, k, at, l)
            PROVE  ClaimLapsesOrStays
        <4>1. FencesKept
          BY <2>1, <3>1 DEF RenewClaim, FencesKept, TypeOK, OutboxRow
        <4> QED
          BY <2>1, <4>1, FencesKeptSuffice
      <3> QED
        BY <2>3, <2>4, <2>8, <3>1, ClaimTakesLapsed DEF ClaimStep, DeferUnsentClaim,
           VoidUnsentCommand, TerminateUnsent, ReleaseReconciliationClaim
    <2>9. CASE DispatchStep
      BY <2>2, <2>9 DEF DispatchStep, RegisterPreflight, RecordPreKey, PrepareAttempt,
         RecordPreSend, RequireSubmissionAuthority
    <2>10. CASE OutcomeStep
      BY <2>3, <2>4, <2>10 DEF OutcomeStep, MarkSubmittedUnknown, RecordEmptyResponse,
         RecordSubmissionResponse
    <2>11. CASE ReconcileStep
      BY <2>3, <2>4, <2>11 DEF ReconcileStep, Reconcile, Finish
    <2>12. CASE IncidentStep \/ QualificationStep
      BY <2>2, <2>12 DEF IncidentStep, RecordIncident, QualificationStep,
         QualificationAdmit, QualificationClose, QualificationHalt, QualificationRelease
    <2> QED
      BY <2>5, <2>6, <2>7, <2>8, <2>9, <2>10, <2>11, <2>12 DEF EntryNext, EntryStep
  <1> QED
    BY <1>1, EntryInvariant, PTL DEF EntrySpec, ClaimsLapseBeforeTheyMove

=============================================================================

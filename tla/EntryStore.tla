------------------------------ MODULE EntryStore ------------------------------
(***************************************************************************)
(* The entry lane of ExecutionStore (execution_store.py): the durable      *)
(* life of one protected entry, from infrastructure grant and risk ticket  *)
(* through approval, admission, fenced dispatch, the single submission and *)
(* reconciliation, to the release of its risk reservation.                 *)
(*                                                                         *)
(* Every operation of the store is one SQLite transaction, so it is one    *)
(* action here, and an operation that raises leaves no trace, so a raise   *)
(* is a disabled action.  The callers are open: any worker may call any    *)
(* operation with any fencing token it has ever seen, at any clock reading *)
(* that is at most MaxSkew old when the write lock is granted.             *)
(*                                                                         *)
(* A ticket, its plan, its approval and its command determine each other   *)
(* (each is UNIQUE in the schema), so one member of Commands names all     *)
(* four.                                                                   *)
(***************************************************************************)
EXTENDS Integers, FiniteSets

CONSTANTS
    Commands,         \* tickets, and the commands they are admitted as
    Workers,          \* worker ids that claim, dispatch and reconcile
    Recoveries,       \* recovery command ids (rows of the recovery lane)
    IncidentIds,      \* bound: critical incident rows that can be opened
    Roles,            \* legs of a protected plan
    LegReports,       \* leg states (status, cumulative fill) the venue reports
    Positions,        \* signed positions an account snapshot can show
    Quantity,         \* requested quantity of every leg
    Loss,             \* reserved (stressed) loss of each command
    QualificationLoss,\* loss reserved by a qualification command
    MaxReservedLoss,  \* immutable account cap of the store
    GrantExpiry,      \* end of the infrastructure grant
    TicketExpiry,     \* end of each ticket (and of its approval)
    EffectiveExpiry,  \* min of the ticket's and its three legs' expiries
    Leases,           \* lease lengths a claim or a renewal can ask for
    PreflightTTL,     \* validity of a dispatch preflight
    RoleTTL,          \* validity of an entry role attestation
    MaxSkew,          \* bound: age of a caller's clock reading
    MaxTime,          \* bound: last instant of the clock
    MaxToken,         \* bound: fencing tokens handed out per command
    NoWorker,         \* worker_id IS NULL
    NoCommand         \* an incident row that is not open for any command

\* Positions are signed for a buying entry; a position of the other sign
\* contradicts the entry's direction.
ASSUME ConstantsAssumption ==
    /\ {"entry", "protective_stop"} \subseteq Roles
    /\ Quantity \in Nat \ {0}
    /\ Positions \subseteq Int
    /\ Loss \in [Commands -> Nat \ {0}]
    /\ QualificationLoss \in Nat \ {0}
    /\ MaxReservedLoss \in Nat
    /\ GrantExpiry \in Nat
    /\ TicketExpiry \in [Commands -> Nat]
    /\ EffectiveExpiry \in [Commands -> Nat]
    /\ \A c \in Commands : EffectiveExpiry[c] <= TicketExpiry[c]
    /\ Leases \subseteq Nat \ {0}
    /\ PreflightTTL \in Nat \ {0}
    /\ RoleTTL \in Nat \ {0}
    /\ MaxSkew \in Nat
    /\ MaxTime \in Nat
    /\ MaxToken \in Nat
    /\ NoWorker \notin Workers
    /\ NoCommand \notin Commands

LegStates == {"queued", "submitted_unknown", "resting", "partially_filled",
              "filled", "canceled", "rejected", "expired", "triggered", "absent"}

TerminalLegStates == {"filled", "canceled", "rejected", "expired", "absent"}

\* Statuses of a protective stop that can no longer protect a position.
FailedStopStates == {"rejected", "expired", "absent"}

CommandStates == {"none", "queued", "claimed", "submitted_unknown",
                  "reconciling", "terminal"}

RecoveryStates == {"none", "queued", "claimed", "signing",
                   "submitted_unknown", "reconciling", "terminal"}

\* Incident codes, told apart only as far as the store does: the ambiguity
\* UNKNOWN_SUBMISSION_ALL_CLOIDS_MISSING against every other critical code.
Codes == {"ambiguity", "hazard"}

ASSUME ReportsAssumption ==
    LegReports \subseteq [status : LegStates \ {"queued", "submitted_unknown"},
                          filled : 0..Quantity]

VARIABLES
    now,        \* the wall clock
    grant,      \* infrastructure grant registered
    ticket,     \* execution_tickets.state
    approval,   \* execution_approvals.state
    command,    \* execution_commands.state
    outbox,     \* execution_outbox: state, claim and fence
    preflight,  \* observed_at of the registered dispatch preflight, or -1
    preKey,     \* PRE_KEY role attestation: its fence and collection time
    attempt,    \* execution_attempts row: state, its fence, signed expiry
    preSend,    \* PRE_SEND role attestation collection time, or -1
    authority,  \* submission authority: issued_at and last sending instant
    legs,       \* execution_command_legs
    position,   \* execution_positions: signed quantity and observed_at
    protection, \* execution_protection: state and observed_at
    incident,   \* critical rows of execution_incidents
    reserved,   \* aggregate reserved loss of the account
    qualification, \* the qualification lane: idle, active or reservation retained
    recovery    \* execution_recovery_commands.state

storeVars == <<grant, ticket, approval, command, outbox, preflight, preKey,
               attempt, preSend, authority, legs, position, protection,
               incident, reserved, qualification, recovery>>

entryVars == <<now, storeVars>>

NoClaim == -1

Never == -1

FreeOutbox == [state |-> "none", worker |-> NoWorker, token |-> 0,
               claimedAt |-> NoClaim, lease |-> NoClaim]

NoAttempt == [state |-> "none", worker |-> NoWorker, token |-> 0,
              at |-> Never, expires |-> Never]

NoAttestation == [worker |-> NoWorker, token |-> 0, at |-> Never]

NoAuthority == [at |-> Never, until |-> Never]

EntryInit ==
    /\ now = 0
    /\ grant = FALSE
    /\ ticket = [c \in Commands |-> "none"]
    /\ approval = [c \in Commands |-> "none"]
    /\ command = [c \in Commands |-> "none"]
    /\ outbox = [c \in Commands |-> FreeOutbox]
    /\ preflight = [c \in Commands |-> Never]
    /\ preKey = [c \in Commands |-> NoAttestation]
    /\ attempt = [c \in Commands |-> NoAttempt]
    /\ preSend = [c \in Commands |-> Never]
    /\ authority = [c \in Commands |-> NoAuthority]
    /\ legs = [c \in Commands |->
                  [r \in Roles |-> [status |-> "queued", filled |-> 0]]]
    /\ position = [quantity |-> 0, at |-> Never]
    /\ protection = [c \in Commands |-> [state |-> "none", at |-> Never]]
    /\ incident = [i \in IncidentIds |->
                      [state |-> "none", command |-> NoCommand, code |-> "hazard"]]
    /\ reserved = 0
    /\ qualification = "idle"
    /\ recovery = [r \in Recoveries |-> "none"]

(***************************************************************************)
(* State formulae shared by the operations.                                *)
(***************************************************************************)

\* Clock readings a caller may bring to a transaction that runs now.
Readings == {t \in 0..now : now - MaxSkew <= t}

Nonterminal(c) == command[c] \notin {"none", "terminal"}

CriticalIncident == \E i \in IncidentIds : incident[i].state \in {"open", "contained"}

RecoveryActive == \E r \in Recoveries : recovery[r] \notin {"none", "terminal"}

\* _require_claim_locked: the exact active fence in one of the given states.
HasClaim(c, w, k, at, states) ==
    /\ outbox[c].state \in states
    /\ outbox[c].worker = w
    /\ outbox[c].token = k
    /\ outbox[c].claimedAt # NoClaim
    /\ outbox[c].claimedAt <= at
    /\ at < outbox[c].lease

\* _set_outbox_locked with worker_id, claimed_at and lease_expires_at NULL.
Released(c, state) ==
    [state |-> state, worker |-> NoWorker, token |-> outbox[c].token,
     claimedAt |-> NoClaim, lease |-> NoClaim]

ExpiredLegs == [r \in Roles |-> [status |-> "expired", filled |-> 0]]

Untouched(c) == \A r \in Roles : legs[c][r].filled = 0

\* An unused incident row; the store derives a fresh id from the evidence.
FreshIncident(i) == incident[i].state = "none"

Opened(i, c, code) ==
    [incident EXCEPT ![i] = [state |-> "open", command |-> c, code |-> code]]

\* Mutant: the ticket row is forgotten.
TerminateUnsentKeepingTicket(c) ==
    /\ Untouched(c)
    /\ legs' = [legs EXCEPT ![c] = ExpiredLegs]
    /\ reserved' = reserved - Loss[c]
    /\ command' = [command EXCEPT ![c] = "terminal"]
    /\ outbox' = [outbox EXCEPT ![c] = Released(c, "terminal")]
    /\ UNCHANGED ticket

\* Terminalize a command that was never sent: legs expired, reservation
\* given back, ticket, command and outbox terminal.
TerminateUnsent(c) ==
    /\ Untouched(c)
    /\ legs' = [legs EXCEPT ![c] = ExpiredLegs]
    /\ reserved' = reserved - Loss[c]
    /\ command' = [command EXCEPT ![c] = "terminal"]
    /\ outbox' = [outbox EXCEPT ![c] = Released(c, "terminal")]
    /\ ticket' = [ticket EXCEPT ![c] = "terminal"]

(***************************************************************************)
(* Grant, ticket, approval.                                                *)
(***************************************************************************)

RegisterInfrastructureGrant(at) ==
    /\ ~grant
    /\ at < GrantExpiry
    /\ grant' = TRUE
    /\ UNCHANGED <<ticket, approval, command, outbox, preflight, preKey, attempt,
                   preSend, authority, legs, position, protection, incident,
                   reserved, qualification, recovery>>

RegisterTicket(c, at) ==
    /\ ticket[c] = "none"
    /\ grant
    /\ at < TicketExpiry[c]
    /\ TicketExpiry[c] <= GrantExpiry
    /\ Loss[c] <= MaxReservedLoss
    /\ ticket' = [ticket EXCEPT ![c] = "awaiting_approval"]
    /\ UNCHANGED <<grant, approval, command, outbox, preflight, preKey, attempt,
                   preSend, authority, legs, position, protection, incident,
                   reserved, qualification, recovery>>

\* One approval row per ticket, ever: a revoked one is not replaced.
RegisterApproval(c) ==
    /\ ticket[c] = "awaiting_approval"
    /\ approval[c] = "none"
    /\ approval' = [approval EXCEPT ![c] = "issued"]
    /\ UNCHANGED <<grant, ticket, command, outbox, preflight, preKey, attempt,
                   preSend, authority, legs, position, protection, incident,
                   reserved, qualification, recovery>>

RevokeApproval(c) ==
    /\ approval[c] = "issued"
    /\ approval' = [approval EXCEPT ![c] = "revoked"]
    /\ UNCHANGED <<grant, ticket, command, outbox, preflight, preKey, attempt,
                   preSend, authority, legs, position, protection, incident,
                   reserved, qualification, recovery>>

(***************************************************************************)
(* Admission.                                                              *)
(***************************************************************************)

\* Mutant: the two lanes are fenced but not the commands of the entry lane.
NewRiskBesideCommands(c) ==
    /\ ~CriticalIncident
    /\ ~RecoveryActive
    /\ qualification = "idle"
    /\ reserved + Loss[c] <= MaxReservedLoss

\* The account-wide gate both admission paths evaluate in their transaction.
NewRiskAllowed(c) ==
    /\ ~CriticalIncident
    /\ ~RecoveryActive
    /\ qualification = "idle"
    /\ \A d \in Commands : ~Nonterminal(d)
    /\ reserved + Loss[c] <= MaxReservedLoss

\* Consume ticket and approval, queue the command, reserve its loss.
Queue(c) ==
    /\ approval' = [approval EXCEPT ![c] = "consumed"]
    /\ ticket' = [ticket EXCEPT ![c] = "consumed"]
    /\ command' = [command EXCEPT ![c] = "queued"]
    /\ outbox' = [outbox EXCEPT ![c] = Released(c, "queued")]
    /\ reserved' = reserved + Loss[c]
    /\ UNCHANGED <<grant, preflight, preKey, attempt, preSend, authority, legs,
                   position, protection, incident, qualification, recovery>>

Admit(c, at) ==
    /\ approval[c] = "issued"
    /\ ticket[c] = "awaiting_approval"
    /\ at < TicketExpiry[c]
    /\ NewRiskAllowed(c)
    /\ Queue(c)

\* A chat handoff brings its own authorization row; a ticket that already
\* has an approval, even a revoked one, is not available to it.
AdmitChatHandoff(c, at) ==
    /\ ticket[c] = "awaiting_approval"
    /\ approval[c] = "none"
    /\ at < TicketExpiry[c]
    /\ NewRiskAllowed(c)
    /\ Queue(c)

(***************************************************************************)
(* Claims.                                                                 *)
(***************************************************************************)

ClaimExpired(c, at) == outbox[c].state = "claimed" /\ outbox[c].lease <= at

\* Mutant: a prepared attempt that was not authorized is queued again.
NormalStateRequeues(c) ==
    IF authority[c] = NoAuthority THEN "queued" ELSE "submitted_unknown"

\* What _normalize_expired_claims_locked makes of an expired claim: without
\* an attempt the command may be claimed again; with an attempt and no
\* submission authority it was provably never sent; with an authority its
\* venue outcome is unknown and it is never sent again.
NormalState(c) ==
    CASE attempt[c].state = "none" -> "queued"
      [] attempt[c].state # "none" /\ authority[c] = NoAuthority -> "terminal"
      [] OTHER -> "submitted_unknown"

Unsent(at) == {c \in Commands : ClaimExpired(c, at) /\ NormalState(c) = "terminal"}

UnknownLegs(c) ==
    [r \in Roles |-> IF legs[c][r].status = "queued"
                     THEN [status |-> "submitted_unknown", filled |-> legs[c][r].filled]
                     ELSE legs[c][r]]

NormalCommand(at) ==
    [c \in Commands |-> IF ClaimExpired(c, at) THEN NormalState(c) ELSE command[c]]

NormalOutbox(at) ==
    [c \in Commands |-> IF ClaimExpired(c, at) THEN Released(c, NormalState(c))
                                               ELSE outbox[c]]

\* Mutant: the presumed-unsent branch forgets the exposure row.
NormalReservedKept(at) == reserved

\* Admission keeps at most one command nonterminal, so the code's loop over
\* expired claims meets at most one row (checked: OneNonterminalCommand).
NormalReserved(at) ==
    IF Unsent(at) = {} THEN reserved
                       ELSE reserved - Loss[CHOOSE c \in Unsent(at) : TRUE]

\* The rows of normalization that no claim in the same transaction rewrites.
NormalizeRows(at) ==
    /\ \A c \in Unsent(at) : Untouched(c)
    /\ ticket' = [c \in Commands |->
                     IF c \in Unsent(at) THEN "terminal" ELSE ticket[c]]
    /\ legs' = [c \in Commands |->
                   CASE ~ClaimExpired(c, at) -> legs[c]
                     [] c \in Unsent(at) -> ExpiredLegs
                     [] ClaimExpired(c, at) /\ NormalState(c) = "queued" -> legs[c]
                     [] OTHER -> UnknownLegs(c)]
    /\ attempt' = [c \in Commands |->
                      IF ClaimExpired(c, at) /\ NormalState(c) = "submitted_unknown"
                      THEN [attempt[c] EXCEPT !.state = "unknown"]
                      ELSE attempt[c]]
    /\ reserved' = NormalReserved(at)

NormalizeExpiredEntryClaims(at) ==
    /\ \E c \in Commands : ClaimExpired(c, at)
    /\ NormalizeRows(at)
    /\ command' = NormalCommand(at)
    /\ outbox' = NormalOutbox(at)
    /\ UNCHANGED <<grant, approval, preflight, preKey, preSend, authority,
                   position, protection, incident, qualification, recovery>>

\* claim_next normalizes first and claims in the same transaction.  A critical
\* incident raises, which rolls the normalization back as well; the other
\* blocks return None and only commit the normalization, which is the step
\* NormalizeExpiredEntryClaims.
ClaimNext(c, w, at, lease) ==
    /\ ~CriticalIncident
    /\ ~RecoveryActive
    /\ qualification = "idle"
    /\ \A d \in Commands :
          NormalCommand(at)[d] \notin {"submitted_unknown", "reconciling"}
    /\ NormalOutbox(at)[c].state = "queued"
    /\ at < EffectiveExpiry[c]
    /\ outbox[c].token < MaxToken
    /\ NormalizeRows(at)
    /\ command' = [NormalCommand(at) EXCEPT ![c] = "claimed"]
    /\ outbox' = [NormalOutbox(at) EXCEPT
                     ![c] = [state |-> "claimed", worker |-> w,
                             token |-> outbox[c].token + 1,
                             claimedAt |-> at, lease |-> at + lease]]
    /\ UNCHANGED <<grant, approval, preflight, preKey, preSend, authority,
                   position, protection, incident, qualification, recovery>>

RenewClaim(c, w, k, at, lease) ==
    /\ HasClaim(c, w, k, at, {"claimed", "reconciling"})
    /\ outbox' = [outbox EXCEPT ![c].lease = at + lease]
    /\ UNCHANGED <<grant, ticket, approval, command, preflight, preKey, attempt,
                   preSend, authority, legs, position, protection, incident,
                   reserved, qualification, recovery>>

\* Put an unsent claim back: fence and reservation are kept.
DeferUnsentClaim(c, w, k, at) ==
    /\ HasClaim(c, w, k, at, {"claimed"})
    /\ attempt[c].state = "none"
    /\ authority[c] = NoAuthority
    /\ Untouched(c)
    /\ at < EffectiveExpiry[c]
    /\ command' = [command EXCEPT ![c] = "queued"]
    /\ outbox' = [outbox EXCEPT ![c] = Released(c, "queued")]
    /\ UNCHANGED <<grant, ticket, approval, preflight, preKey, attempt, preSend,
                   authority, legs, position, protection, incident, reserved,
                   qualification, recovery>>

\* Mutant: expiry waits until no critical incident blocks the account.
ExpireWhenClear(c, at) ==
    /\ ~CriticalIncident
    /\ command[c] = "queued"
    /\ attempt[c].state = "none"
    /\ EffectiveExpiry[c] <= at
    /\ TerminateUnsent(c)
    /\ UNCHANGED <<grant, approval, preflight, preKey, attempt, preSend, authority,
                   position, protection, incident, qualification, recovery>>

ExpireNextQueuedUnsent(c, at) ==
    /\ command[c] = "queued"
    /\ attempt[c].state = "none"
    /\ authority[c] = NoAuthority
    /\ EffectiveExpiry[c] <= at
    /\ TerminateUnsent(c)
    /\ UNCHANGED <<grant, approval, preflight, preKey, attempt, preSend, authority,
                   position, protection, incident, qualification, recovery>>

\* Mutant: the consumed authority is not looked up.
VoidIgnoringAuthority(c, w, k, at) ==
    /\ \/ command[c] = "queued" /\ w = NoWorker
       \/ HasClaim(c, w, k, at, {"claimed"})
    /\ attempt[c].state \in {"none", "prepared"}
    /\ TerminateUnsent(c)
    /\ UNCHANGED <<grant, approval, preflight, preKey, attempt, preSend, authority,
                   position, protection, incident, qualification, recovery>>

\* A queued command is voided without a fence, a claimed one only by the
\* holder of its active fence, and neither once an authority was consumed.
VoidUnsentCommand(c, w, k, at) ==
    /\ \/ command[c] = "queued" /\ w = NoWorker
       \/ HasClaim(c, w, k, at, {"claimed"})
    /\ attempt[c].state \in {"none", "prepared"}
    /\ authority[c] = NoAuthority
    /\ TerminateUnsent(c)
    /\ UNCHANGED <<grant, approval, preflight, preKey, attempt, preSend, authority,
                   position, protection, incident, qualification, recovery>>

(***************************************************************************)
(* Evidence of one send, gathered under the claim.                         *)
(***************************************************************************)

\* Mutant: the preflight need not be newer than the claim.
RegisterEarlierPreflight(c, at, observed) ==
    /\ command[c] = "claimed"
    /\ outbox[c].state = "claimed"
    /\ outbox[c].claimedAt <= at
    /\ observed <= at
    /\ at < outbox[c].lease
    /\ at < observed + PreflightTTL
    /\ attempt[c].state = "none"
    /\ preflight[c] = Never
    /\ preflight' = [preflight EXCEPT ![c] = observed]
    /\ UNCHANGED <<grant, ticket, approval, command, outbox, preKey, attempt,
                   preSend, authority, legs, position, protection, incident,
                   reserved, qualification, recovery>>

\* One preflight per command, ever: a later claim can never swap it.
RegisterPreflight(c, at, observed) ==
    /\ command[c] = "claimed"
    /\ outbox[c].state = "claimed"
    /\ outbox[c].claimedAt <= observed
    /\ observed <= at
    /\ at < outbox[c].lease
    /\ at < observed + PreflightTTL
    /\ attempt[c].state = "none"
    /\ preflight[c] = Never
    /\ preflight' = [preflight EXCEPT ![c] = observed]
    /\ UNCHANGED <<grant, ticket, approval, command, outbox, preKey, attempt,
                   preSend, authority, legs, position, protection, incident,
                   reserved, qualification, recovery>>

PreflightFresh(c, at) ==
    /\ preflight[c] # Never
    /\ preflight[c] <= at
    /\ at < preflight[c] + PreflightTTL

\* record_entry_role_attestation, stage PRE_KEY, collected at instant t.
RecordPreKey(c, w, k, at, t) ==
    /\ HasClaim(c, w, k, at, {"claimed"})
    /\ PreflightFresh(c, at)
    /\ outbox[c].claimedAt <= t
    /\ preflight[c] <= t
    /\ t <= at
    /\ at < t + RoleTTL
    /\ attempt[c].state = "none"
    /\ preKey[c] = NoAttestation
    /\ preKey' = [preKey EXCEPT ![c] = [worker |-> w, token |-> k, at |-> t]]
    /\ UNCHANGED <<grant, ticket, approval, command, outbox, preflight, attempt,
                   preSend, authority, legs, position, protection, incident,
                   reserved, qualification, recovery>>

\* The signed envelope, valid until e, becomes the command's only attempt.
PrepareAttempt(c, w, k, at, e) ==
    /\ HasClaim(c, w, k, at, {"claimed"})
    /\ PreflightFresh(c, at)
    /\ preKey[c].worker = w
    /\ preKey[c].token = k
    /\ preKey[c].at <= at
    /\ at < preKey[c].at + RoleTTL
    /\ at < e
    /\ e <= preflight[c] + PreflightTTL
    /\ attempt[c].state = "none"
    /\ attempt' = [attempt EXCEPT ![c] = [state |-> "prepared", worker |-> w,
                                          token |-> k, at |-> at, expires |-> e]]
    /\ UNCHANGED <<grant, ticket, approval, command, outbox, preflight, preKey,
                   preSend, authority, legs, position, protection, incident,
                   reserved, qualification, recovery>>

\* record_entry_role_attestation, stage PRE_SEND, collected at instant t.
RecordPreSend(c, w, k, at, t) ==
    /\ HasClaim(c, w, k, at, {"claimed"})
    /\ PreflightFresh(c, at)
    /\ attempt[c].state # "none"
    /\ attempt[c].worker = w
    /\ attempt[c].token = k
    /\ attempt[c].at <= t
    /\ t <= at
    /\ at < t + RoleTTL
    /\ preSend[c] = Never
    /\ preSend' = [preSend EXCEPT ![c] = t]
    /\ UNCHANGED <<grant, ticket, approval, command, outbox, preflight, preKey,
                   attempt, authority, legs, position, protection, incident,
                   reserved, qualification, recovery>>

\* Consume the sole submission authority.  The venue request may leave before
\* instant u, the least of the signed, role, route and lease expiries (only
\* the route's is free).
RequireSubmissionAuthority(c, w, k, at, u) ==
    /\ HasClaim(c, w, k, at, {"claimed"})
    /\ attempt[c].state = "prepared"
    /\ attempt[c].worker = w
    /\ attempt[c].token = k
    /\ preSend[c] # Never
    /\ preSend[c] <= at
    /\ at < u
    /\ u <= attempt[c].expires
    /\ u <= preSend[c] + RoleTTL
    /\ u <= outbox[c].lease
    /\ authority[c] = NoAuthority
    /\ authority' = [authority EXCEPT ![c] = [at |-> at, until |-> u]]
    /\ UNCHANGED <<grant, ticket, approval, command, outbox, preflight, preKey,
                   attempt, preSend, legs, position, protection, incident,
                   reserved, qualification, recovery>>

(***************************************************************************)
(* The outcome of the send.                                                *)
(***************************************************************************)

\* _require_entry_outcome_authority_locked for a request sent at instant t.
OutcomeAuthority(c, at, t) ==
    /\ attempt[c].state = "prepared"
    /\ authority[c] # NoAuthority
    /\ authority[c].at <= t
    /\ t < authority[c].until
    /\ attempt[c].at <= t
    /\ t <= at

MarkSubmittedUnknown(c, w, k, at, t) ==
    /\ HasClaim(c, w, k, at, {"claimed"})
    /\ OutcomeAuthority(c, at, t)
    /\ attempt' = [attempt EXCEPT ![c].state = "unknown"]
    /\ outbox' = [outbox EXCEPT ![c] = Released(c, "submitted_unknown")]
    /\ command' = [command EXCEPT ![c] = "submitted_unknown"]
    /\ legs' = [legs EXCEPT ![c] = UnknownLegs(c)]
    /\ UNCHANGED <<grant, ticket, approval, preflight, preKey, preSend, authority,
                   position, protection, incident, reserved, qualification,
                   recovery>>

\* _update_leg_locked accepts the report l for a leg that is now in state m.
LegUpdate(m, l) ==
    /\ m.filled <= l.filled
    /\ l.filled <= Quantity
    /\ m.status \in TerminalLegStates => l.status = m.status
    /\ l.status = "filled" => l.filled = Quantity
    /\ l.status = "partially_filled" => 0 < l.filled /\ l.filled < Quantity

\* Leg results a synchronous venue response can carry.
ResponseReports ==
    {l \in LegReports : \/ l.status \in {"rejected", "resting"} /\ l.filled = 0
                        \/ l.status \in {"filled", "partially_filled"}}

Abs(q) == IF q < 0 THEN -q ELSE q

\* _upsert_protection_locked for a position p guarded for quantity q.
ProtectionState(p, q, failed) ==
    CASE failed /\ p # 0 -> "failed"
      [] ~(failed /\ p # 0) /\ p = 0 /\ q = 0 -> "flat"
      [] ~(failed /\ p # 0) /\ ~(p = 0 /\ q = 0) /\ q = Abs(p) -> "protected"
      [] ~(failed /\ p # 0) /\ q < Abs(p) -> "under_protected"
      [] OTHER -> "over_protected"

\* A response that covers no leg: only the attempt's outcome is recorded.
RecordEmptyResponse(c, w, k, at, t) ==
    /\ HasClaim(c, w, k, at, {"claimed"})
    /\ OutcomeAuthority(c, at, t)
    /\ attempt' = [attempt EXCEPT ![c].state = "response_received"]
    /\ outbox' = [outbox EXCEPT ![c] = Released(c, "reconciling")]
    /\ command' = [command EXCEPT ![c] = "reconciling"]
    /\ UNCHANGED <<grant, ticket, approval, preflight, preKey, preSend, authority,
                   legs, position, protection, incident, reserved, qualification,
                   recovery>>

\* A partial entry, or a filled entry without a resting stop, is a hazard:
\* provisional protection is written and a critical incident opened.
RecordSubmissionResponse(c, w, k, at, t, response, i) ==
    LET stop == response["protective_stop"]
        naked == response["entry"].filled > 0 /\ stop.status # "resting"
        hazard == naked \/ response["entry"].status = "partially_filled"
    IN
    /\ HasClaim(c, w, k, at, {"claimed"})
    /\ OutcomeAuthority(c, at, t)
    /\ \A r \in Roles : LegUpdate(legs[c][r], response[r])
    /\ legs' = [legs EXCEPT ![c] = response]
    /\ IF hazard
       THEN /\ FreshIncident(i)
            /\ protection[c].at <= at
            /\ protection' = [protection EXCEPT ![c] =
                   [state |-> ProtectionState(response["entry"].filled, 0, naked),
                    at |-> at]]
            /\ incident' = Opened(i, c, "hazard")
       ELSE UNCHANGED <<protection, incident>>
    /\ attempt' = [attempt EXCEPT ![c].state = "response_received"]
    /\ outbox' = [outbox EXCEPT ![c] = Released(c, "reconciling")]
    /\ command' = [command EXCEPT ![c] = "reconciling"]
    /\ UNCHANGED <<grant, ticket, approval, preflight, preKey, preSend, authority,
                   position, reserved, qualification, recovery>>

(***************************************************************************)
(* Reconciliation.                                                         *)
(***************************************************************************)

\* Mutant: the running lease of another worker is not honoured.
StealReconciliation(c, w, at, lease) ==
    /\ NormalOutbox(at)[c].state \in {"submitted_unknown", "reconciling"}
    /\ outbox[c].token < MaxToken
    /\ NormalizeRows(at)
    /\ command' = [NormalCommand(at) EXCEPT ![c] = "reconciling"]
    /\ outbox' = [NormalOutbox(at) EXCEPT
                     ![c] = [state |-> "reconciling", worker |-> w,
                             token |-> outbox[c].token + 1,
                             claimedAt |-> at, lease |-> at + lease]]
    /\ UNCHANGED <<grant, approval, preflight, preKey, preSend, authority,
                   position, protection, incident, qualification, recovery>>

\* Mutant: a command that ended may be reconciled again.
ReconcileFinished(c, w, at, lease) ==
    /\ NormalOutbox(at)[c].state \in {"submitted_unknown", "reconciling", "terminal"}
    /\ \/ NormalOutbox(at)[c].worker = NoWorker
       \/ NormalOutbox(at)[c].lease <= at
    /\ outbox[c].token < MaxToken
    /\ NormalizeRows(at)
    /\ command' = [NormalCommand(at) EXCEPT ![c] = "reconciling"]
    /\ outbox' = [NormalOutbox(at) EXCEPT
                     ![c] = [state |-> "reconciling", worker |-> w,
                             token |-> outbox[c].token + 1,
                             claimedAt |-> at, lease |-> at + lease]]
    /\ UNCHANGED <<grant, approval, preflight, preKey, preSend, authority,
                   position, protection, incident, qualification, recovery>>

\* claim_reconciliation normalizes first.  An active claim of the same worker
\* is returned as it is (the step NormalizeExpiredEntryClaims, or no step);
\* an active claim of another worker raises.
ClaimReconciliation(c, w, at, lease) ==
    /\ NormalOutbox(at)[c].state \in {"submitted_unknown", "reconciling"}
    /\ \/ NormalOutbox(at)[c].worker = NoWorker
       \/ NormalOutbox(at)[c].lease <= at
    /\ outbox[c].token < MaxToken
    /\ NormalizeRows(at)
    /\ command' = [NormalCommand(at) EXCEPT ![c] = "reconciling"]
    /\ outbox' = [NormalOutbox(at) EXCEPT
                     ![c] = [state |-> "reconciling", worker |-> w,
                             token |-> outbox[c].token + 1,
                             claimedAt |-> at, lease |-> at + lease]]
    /\ UNCHANGED <<grant, approval, preflight, preKey, preSend, authority,
                   position, protection, incident, qualification, recovery>>

\* The leg rows after a report that covers the given roles.
LegsAfter(c, covered, report) ==
    [r \in Roles |-> IF r \in covered THEN report[r] ELSE legs[c][r]]

\* Mutant: a flat account ends the command although a leg may still rest.
EndsWithLiveLegs(complete, rows, p, q) ==
    /\ complete
    /\ p = 0
    /\ q = 0

\* A reconciliation ends the command only on complete, flat, unprotected
\* evidence with every leg terminal.
EndsCommand(complete, rows, p, q) ==
    /\ complete
    /\ p = 0
    /\ q = 0
    /\ \A r \in Roles : rows[r].status \in TerminalLegStates

\* Incidents a terminal flat reconciliation of c closes.
Settled(i, c) ==
    /\ incident[i].command = c
    /\ \/ incident[i].state = "contained"
       \/ incident[i].state = "open" /\ incident[i].code = "ambiguity"

BadProtection == {"failed", "under_protected", "over_protected"}

\* Mutant: only a failed stop is reported, not a position it covers in part.
HazardCountFailedOnly(state, p) ==
    (IF state = "failed" THEN 1 ELSE 0) + (IF p < 0 THEN 1 ELSE 0)

\* Critical rows one reconciliation opens: one for the protection, one for a
\* position on the wrong side of the entry.
HazardCount(state, p) ==
    (IF state \in BadProtection THEN 1 ELSE 0) + (IF p < 0 THEN 1 ELSE 0)

\* Mutant: what settles an incident is any reconciliation, not a terminal one.
IncidentsSettledEarly(c, new) ==
    [i \in IncidentIds |->
        CASE i \in new -> [state |-> "open", command |-> c, code |-> "hazard"]
          [] i \notin new /\ Settled(i, c) -> [incident[i] EXCEPT !.state = "closed"]
          [] OTHER -> incident[i]]

\* A reconciliation that leaves the command alive only opens incidents.
IncidentsAfter(c, new) ==
    [i \in IncidentIds |->
        IF i \in new THEN [state |-> "open", command |-> c, code |-> "hazard"]
                     ELSE incident[i]]

\* Give the reservation back and retire ticket, command and outbox.
Finish(c) ==
    /\ reserved' = reserved - Loss[c]
    /\ command' = [command EXCEPT ![c] = "terminal"]
    /\ outbox' = [outbox EXCEPT ![c] = Released(c, "terminal")]
    /\ ticket' = [ticket EXCEPT ![c] = "terminal"]
    /\ incident' = [i \in IncidentIds |->
                       IF Settled(i, c) THEN [incident[i] EXCEPT !.state = "closed"]
                                        ELSE incident[i]]

\* reconcile: evidence observed at instant observed, covering some roles (all
\* three when complete), with the account's position p and the protected
\* quantity q.  The rows of new are the incidents it opens.
Reconcile(c, w, k, at, observed, complete, covered, report, p, q, new) ==
    LET rows == LegsAfter(c, covered, report)
        failed == rows["protective_stop"].status \in FailedStopStates
        state == ProtectionState(p, q, failed)
    IN
    /\ HasClaim(c, w, k, at, {"reconciling"})
    /\ command[c] = "reconciling"
    /\ complete => covered = Roles
    /\ covered # {}
    /\ \A r \in covered : LegUpdate(legs[c][r], report[r])
    /\ \/ position.at < observed
       \/ position.at = observed /\ position.quantity = p
    /\ protection[c].at <= observed
    /\ legs' = [legs EXCEPT ![c] = rows]
    /\ position' = [quantity |-> p, at |-> observed]
    /\ protection' = [protection EXCEPT ![c] = [state |-> state, at |-> observed]]
    /\ Cardinality(new) = HazardCount(state, p)
    /\ \A i \in new : FreshIncident(i)
    /\ IF EndsCommand(complete, rows, p, q)
       THEN Finish(c)
       ELSE /\ incident' = IncidentsAfter(c, new)
            /\ outbox' = [outbox EXCEPT ![c] = Released(c, "reconciling")]
            /\ UNCHANGED <<ticket, command, reserved>>
    /\ UNCHANGED <<grant, approval, preflight, preKey, attempt, preSend, authority,
                   qualification, recovery>>

\* Also the replay of a reconciliation already recorded, which only drops the
\* claim.  The lease need not be active.
ReleaseReconciliationClaim(c, w, k, at) ==
    /\ outbox[c].state = "reconciling"
    /\ outbox[c].worker = w
    /\ outbox[c].token = k
    /\ outbox[c].claimedAt # NoClaim
    /\ outbox[c].claimedAt <= at
    /\ outbox' = [outbox EXCEPT ![c] = Released(c, "reconciling")]
    /\ UNCHANGED <<grant, ticket, approval, command, preflight, preKey, attempt,
                   preSend, authority, legs, position, protection, incident,
                   reserved, qualification, recovery>>

\* record_incident for a registered command, or for the account as a whole.
RecordIncident(i, c, code) ==
    /\ FreshIncident(i)
    /\ c # NoCommand => command[c] # "none"
    /\ incident' = Opened(i, c, code)
    /\ UNCHANGED <<grant, ticket, approval, command, outbox, preflight, preKey,
                   attempt, preSend, authority, legs, position, protection,
                   reserved, qualification, recovery>>

(***************************************************************************)
(* The qualification lane, as far as it shares the account's exposure row  *)
(* and blocks the entry lane.                                              *)
(***************************************************************************)

\* qualification_store.admit of a resting canary.
QualificationAdmit ==
    /\ ~CriticalIncident
    /\ ~RecoveryActive
    /\ \A c \in Commands : ~Nonterminal(c)
    /\ qualification = "idle"
    /\ reserved + QualificationLoss <= MaxReservedLoss
    /\ qualification' = "active"
    /\ reserved' = reserved + QualificationLoss
    /\ UNCHANGED <<grant, ticket, approval, command, outbox, preflight, preKey,
                   attempt, preSend, authority, legs, position, protection,
                   incident, recovery>>

\* admit of an attended close for the one canary whose reservation is
\* unresolved; the close reserves nothing itself.
QualificationClose ==
    /\ ~CriticalIncident
    /\ ~RecoveryActive
    /\ \A c \in Commands : ~Nonterminal(c)
    /\ qualification = "retained"
    /\ qualification' = "active"
    /\ UNCHANGED <<grant, ticket, approval, command, outbox, preflight, preKey,
                   attempt, preSend, authority, legs, position, protection,
                   incident, reserved, recovery>>

\* A halted qualification command keeps its reservation.
QualificationHalt ==
    /\ qualification = "active"
    /\ qualification' = "retained"
    /\ UNCHANGED <<grant, ticket, approval, command, outbox, preflight, preKey,
                   attempt, preSend, authority, legs, position, protection,
                   incident, reserved, recovery>>

QualificationRelease ==
    /\ qualification \in {"active", "retained"}
    /\ qualification' = "idle"
    /\ reserved' = reserved - QualificationLoss
    /\ UNCHANGED <<grant, ticket, approval, command, outbox, preflight, preKey,
                   attempt, preSend, authority, legs, position, protection,
                   incident, recovery>>

(***************************************************************************)
(* The specification.                                                      *)
(***************************************************************************)

Tick ==
    /\ now < MaxTime
    /\ now' = now + 1
    /\ UNCHANGED storeVars

Times == 0..MaxTime

AdmissionStep ==
    \E at \in Readings :
       \/ RegisterInfrastructureGrant(at)
       \/ \E c \in Commands :
             \/ RegisterTicket(c, at)
             \/ RegisterApproval(c)
             \/ RevokeApproval(c)
             \/ Admit(c, at)
             \/ AdmitChatHandoff(c, at)

MaintenanceStep ==
    \E at \in Readings :
       \/ NormalizeExpiredEntryClaims(at)
       \/ \E c \in Commands : ExpireNextQueuedUnsent(c, at)

ClaimStep ==
    \E at \in Readings, c \in Commands, w \in Workers, k \in 1..MaxToken :
       \/ \E l \in Leases : ClaimNext(c, w, at, l)
       \/ \E l \in Leases : ClaimReconciliation(c, w, at, l)
       \/ \E l \in Leases : RenewClaim(c, w, k, at, l)
       \/ DeferUnsentClaim(c, w, k, at)
       \/ VoidUnsentCommand(c, w, k, at)
       \/ VoidUnsentCommand(c, NoWorker, k, at)
       \/ ReleaseReconciliationClaim(c, w, k, at)

DispatchStep ==
    \E at \in Readings, c \in Commands, w \in Workers, k \in 1..MaxToken :
       \/ \E t \in Readings : RegisterPreflight(c, at, t)
       \/ \E t \in Readings : RecordPreKey(c, w, k, at, t)
       \/ \E e \in Times : PrepareAttempt(c, w, k, at, e)
       \/ \E t \in Readings : RecordPreSend(c, w, k, at, t)
       \/ \E u \in Times : RequireSubmissionAuthority(c, w, k, at, u)

OutcomeStep ==
    \E at \in Readings, t \in Times, c \in Commands, w \in Workers, k \in 1..MaxToken :
       \/ MarkSubmittedUnknown(c, w, k, at, t)
       \/ RecordEmptyResponse(c, w, k, at, t)
       \/ /\ OutcomeAuthority(c, at, t)
          /\ \E response \in [Roles -> ResponseReports], i \in IncidentIds :
                RecordSubmissionResponse(c, w, k, at, t, response, i)

ReconcileStep ==
    \E at \in Readings, observed \in Readings, c \in Commands, w \in Workers,
       k \in 1..MaxToken :
       /\ observed <= at
       /\ HasClaim(c, w, k, at, {"reconciling"})  \* prunes the search for evidence
       /\ \E complete \in BOOLEAN, covered \in SUBSET Roles, p \in Positions,
             q \in 0..Quantity, new \in SUBSET {i \in IncidentIds : FreshIncident(i)} :
             \E report \in [covered -> LegReports] :
                Reconcile(c, w, k, at, observed, complete, covered, report, p, q, new)

IncidentStep ==
    \E i \in IncidentIds, c \in Commands \cup {NoCommand}, code \in Codes :
       RecordIncident(i, c, code)

QualificationStep ==
    \/ QualificationAdmit
    \/ QualificationClose
    \/ QualificationHalt
    \/ QualificationRelease

EntryStep ==
    \/ AdmissionStep
    \/ MaintenanceStep
    \/ ClaimStep
    \/ DispatchStep
    \/ OutcomeStep
    \/ ReconcileStep
    \/ IncidentStep
    \/ QualificationStep

EntryNext == Tick \/ (EntryStep /\ UNCHANGED now)

EntrySpec == EntryInit /\ [][EntryNext]_entryVars

(***************************************************************************)
(* Properties.                                                             *)
(***************************************************************************)

OutboxRow == [state : CommandStates, worker : Workers \cup {NoWorker},
              token : Nat, claimedAt : Int, lease : Int]

AttestationRow == [worker : Workers \cup {NoWorker}, token : Nat, at : Int]

AttemptRow == [state : {"none", "prepared", "unknown", "response_received"},
               worker : Workers \cup {NoWorker}, token : Nat, at : Int, expires : Int]

AuthorityRow == [at : Int, until : Int]

LegRow == [status : LegStates, filled : 0..Quantity]

ProtectionRow == [state : {"none", "flat", "protected"} \cup BadProtection, at : Int]

IncidentRow == [state : {"none", "open", "contained", "closed"},
                command : Commands \cup {NoCommand}, code : Codes]

\* Every row of the store has the shape its table declares, and the account's
\* exposure is never negative.
TypeOK ==
    /\ now \in Nat
    /\ grant \in BOOLEAN
    /\ ticket \in [Commands -> {"none", "awaiting_approval", "consumed", "terminal"}]
    /\ approval \in [Commands -> {"none", "issued", "revoked", "consumed"}]
    /\ command \in [Commands -> CommandStates]
    /\ outbox \in [Commands -> OutboxRow]
    /\ preflight \in [Commands -> Int]
    /\ preKey \in [Commands -> AttestationRow]
    /\ attempt \in [Commands -> AttemptRow]
    /\ preSend \in [Commands -> Int]
    /\ authority \in [Commands -> AuthorityRow]
    /\ legs \in [Commands -> [Roles -> LegRow]]
    /\ position \in [quantity : Int, at : Int]
    /\ protection \in [Commands -> ProtectionRow]
    /\ incident \in [IncidentIds -> IncidentRow]
    /\ reserved \in Nat
    /\ qualification \in {"idle", "active", "retained"}
    /\ recovery \in [Recoveries -> RecoveryStates]

\* The four rows that name one entry move together: a command exists exactly
\* when its ticket and approval are consumed, is terminal exactly when the
\* ticket is, and its outbox mirrors its state in every transaction.
RowsAgree ==
    \A c \in Commands :
       /\ outbox[c].state = command[c]
       /\ command[c] = "none" <=> ticket[c] \in {"none", "awaiting_approval"}
       /\ command[c] = "terminal" <=> ticket[c] = "terminal"
       /\ command[c] = "none" <=> approval[c] # "consumed"

\* New risk is serialized: no two protected entries are ever alive together,
\* and none is alive while the qualification lane holds its reservation,
\* whichever lane was admitted first and however often claims lapse.
OneNonterminalCommand ==
    \A c, d \in Commands :
       Nonterminal(c) => /\ Nonterminal(d) => c = d
                         /\ qualification = "idle"

\* The account's exposure row holds exactly the losses of the work still
\* alive: each of the ways to end an entry gives its loss back once.
ReservationExact ==
    /\ \A c \in Commands : Nonterminal(c) => reserved = Loss[c]
    /\ qualification # "idle" => reserved = QualificationLoss
    /\ (qualification = "idle" /\ \A c \in Commands : ~Nonterminal(c)) => reserved = 0

\* A command that can still be claimed has never been prepared, and a prepared
\* attempt is only ever visible to the claim that prepared it: no second
\* worker can send an envelope that another one signed.
AttemptBelongsToClaim ==
    \A c \in Commands :
       /\ command[c] \in {"none", "queued"} => attempt[c].state = "none"
       /\ command[c] = "claimed" /\ attempt[c].state # "none" =>
             /\ attempt[c].state = "prepared"
             /\ attempt[c].worker = outbox[c].worker
             /\ attempt[c].token = outbox[c].token
       /\ command[c] \in {"submitted_unknown", "reconciling"} =>
             attempt[c].state \in {"unknown", "response_received"}

\* Once the sole submission authority is consumed the request may be on the
\* wire, so the reservation is not given back on the word of the store alone:
\* the command ends only after an outcome was recorded or presumed unknown,
\* and with evidence that every leg ended.
AuthorizedIsNeverUnsent ==
    \A c \in Commands :
       /\ authority[c] # NoAuthority => command[c] \notin {"none", "queued"}
       /\ command[c] = "terminal" /\ authority[c] # NoAuthority =>
             /\ attempt[c].state \in {"unknown", "response_received"}
             /\ \A r \in Roles : legs[c][r].status \in TerminalLegStates
       /\ attempt[c].state \in {"unknown", "response_received"} =>
             authority[c] # NoAuthority

\* A position that the protective stop does not cover exactly is never left
\* without a critical incident that keeps the account halted.
BadProtectionHalts ==
    \A c \in Commands :
       protection[c].state \in BadProtection =>
          \E i \in IncidentIds : /\ incident[i].command = c
                                 /\ incident[i].state \in {"open", "contained"}

\* One step of ClaimsLapseBeforeTheyMove.
ClaimLapsesOrStays ==
    \A c \in Commands :
       /\ outbox[c].token <= outbox'[c].token
       /\ outbox'[c].token # outbox[c].token /\ outbox[c].worker # NoWorker =>
             outbox[c].lease <= now
       /\ outbox'[c].worker \notin {NoWorker, outbox[c].worker} =>
             outbox[c].token < outbox'[c].token

\* A claim changes hands only after the holder's lease has run out on the wall
\* clock, and always with a higher fencing token, so the old holder's writes
\* are refused from then on.
ClaimsLapseBeforeTheyMove == [][ClaimLapsesOrStays]_entryVars

\* One step of OnlyFlatEvidenceEndsSent.
SentEndsFlat ==
    \A c \in Commands :
       authority[c] # NoAuthority /\ command[c] # "terminal" /\ command'[c] = "terminal"
       => /\ command[c] = "reconciling"
          /\ position'.quantity = 0
          /\ protection'[c].state = "flat"
          /\ \A r \in Roles : legs'[c][r].status \in TerminalLegStates

\* After the submission authority is consumed, the command and its reservation
\* end in one way only: out of reconciliation, with every leg terminal and the
\* account observed flat and without a resting stop.
OnlyFlatEvidenceEndsSent == [][SentEndsFlat]_entryVars

\* One step of HaltLiftsOnlyFlat.
IncidentClosesFlat ==
    \A i \in IncidentIds :
       incident[i].state \in {"open", "contained"} /\ incident'[i].state = "closed"
       => LET c == incident[i].command IN
          /\ c # NoCommand
          /\ command'[c] = "terminal"
          /\ position'.quantity = 0
          /\ \A r \in Roles : legs'[c][r].status \in TerminalLegStates

\* A critical incident of an entry is never closed while its command lives,
\* while a leg may still trade or while the account shows a position.
HaltLiftsOnlyFlat == [][IncidentClosesFlat]_entryVars

(***************************************************************************)
(* Liveness.  The service runs normalize_expired_entry_claims and          *)
(* expire_next_queued_unsent at the top of every tick, whatever the state  *)
(* of the route, and the clock advances.                                   *)
(***************************************************************************)

Fairness ==
    /\ WF_entryVars(Tick)
    /\ WF_entryVars(\E at \in Readings : NormalizeExpiredEntryClaims(at) /\ UNCHANGED now)
    /\ \A c \in Commands :
          WF_entryVars(\E at \in Readings : ExpireNextQueuedUnsent(c, at) /\ UNCHANGED now)

FairEntrySpec == EntrySpec /\ Fairness

\* No holder can act for c any more, and its window to trade has passed.
Abandoned(c) ==
    /\ EffectiveExpiry[c] <= now
    /\ \/ command[c] = "queued"
       \/ command[c] = "claimed" /\ outbox[c].lease <= now

\* Risk that was reserved and never sent is given back even when no worker
\* ever claims again: neither a critical incident nor a dead worker can make
\* an abandoned entry hold the account's only slot.  A holder with an old clock
\* reading may still consume the authority; then it was not unsent.
UnsentRiskIsReleased ==
    \A c \in Commands :
       (Abandoned(c) /\ authority[c] = NoAuthority)
          ~> (command[c] = "terminal" \/ authority[c] # NoAuthority)

=============================================================================

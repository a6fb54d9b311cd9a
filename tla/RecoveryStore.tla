---------------------------- MODULE RecoveryStore ----------------------------
(***************************************************************************)
(* The recovery lane of the execution store (execution_store.py): permits, *)
(* recovery commands with their outbox row, the signing and submission     *)
(* authorities, the outcome of the one send, and reconciliations that      *)
(* contain the incident they answer.                                       *)
(*                                                                         *)
(* One action is one transaction.  A method that raises rolls back and is  *)
(* a disabled action.  A recovery command has exactly one permit, outbox   *)
(* row, signing authority and attempt (each UNIQUE in the schema), so one  *)
(* member of Recoveries names all of them; command and outbox are written  *)
(* together and always carry the same state, so they are one row.          *)
(*                                                                         *)
(* The entry being recovered from, the parent, is seen as this lane sees   *)
(* it: whether its submission ended unknown, whether it is terminal, its   *)
(* incidents, and the position and protection rows both lanes write.       *)
(***************************************************************************)
EXTENDS Integers, FiniteSets

CONSTANTS
    Recoveries,       \* recovery command ids
    Incidents,        \* critical incidents of the parent
    Ambiguity,        \* the one coded UNKNOWN_SUBMISSION_ALL_CLOIDS_MISSING
    Workers,          \* worker ids
    Positions,        \* signed position quantities
    Leases,           \* claim lengths
    PermitTTL,        \* lifetime of a permit
    MaxSkew,          \* how old a caller's clock reading may be
    MaxTime,          \* bound on the clock
    MaxToken,         \* bound on fencing tokens
    NoWorker,
    NoIncident

ASSUME RecoveryAssumption ==
    /\ Ambiguity \in Incidents
    /\ 0 \in Positions /\ Positions \subseteq Int
    /\ Leases \subseteq Nat \ {0}
    /\ PermitTTL \in Nat \ {0}
    /\ MaxSkew \in Nat /\ MaxTime \in Nat /\ MaxToken \in Nat
    /\ NoWorker \notin Workers /\ NoIncident \notin Incidents

Kinds == {"noop_fence", "cancel_by_cloid", "reduce_only_close"}

JobStates == {"none", "queued", "claimed", "signing", "submitted_unknown",
              "reconciling", "terminal"}

AttemptStates == {"none", "prepared", "sending", "unknown", "response_received"}

Never == -1

Times == 0..(MaxTime + PermitTTL)

VARIABLES
    now,
    parent,     \* outcome of the parent's submission, and whether it is terminal
    incident,   \* execution_incidents.state
    account,    \* execution_positions and execution_protection of the parent
    permit,     \* execution_recovery_permits
    job,        \* execution_recovery_commands and execution_recovery_outbox
    attempt,    \* execution_recovery_attempts with signed expiry and evidence
    proof       \* the complete reconciliation of a recovery, if any

parentVars == <<parent, incident, account>>

laneVars == <<permit, job, attempt, proof>>

recoveryVars == <<now, parentVars, laneVars>>

NoPermit == [state |-> "none", kind |-> "noop_fence", incident |-> NoIncident,
             original |-> 0, size |-> 0, issued |-> Never, expires |-> Never]

NoJob == [state |-> "none", worker |-> NoWorker, token |-> 0,
          claimedAt |-> Never, lease |-> Never]

NoAttempt == [state |-> "none", expires |-> Never, refused |-> FALSE]

\* The submission's outcome is recorded before any incident of the parent can
\* open, and the outcome row never changes afterwards.
RecoveryInit ==
    /\ now = 0
    /\ parent \in [outcome : {"unknown", "response_received"}, terminal : {FALSE}]
    /\ incident = [i \in Incidents |-> "none"]
    /\ account = [position |-> 0, protection |-> "none", at |-> Never]
    /\ permit = [r \in Recoveries |-> NoPermit]
    /\ job = [r \in Recoveries |-> NoJob]
    /\ attempt = [r \in Recoveries |-> NoAttempt]
    /\ proof = [r \in Recoveries |-> "none"]

Abs(q) == IF q < 0 THEN -q ELSE q

Quantities == {Abs(p) : p \in Positions}

MaxOf(a, b) == IF a < b THEN b ELSE a

\* Clock readings a transaction may carry: taken before the lock was granted.
Readings == {t \in 0..now : now - t <= MaxSkew}

Active(r) == job[r].state \notin {"none", "terminal"}

RecoveryActive == \E r \in Recoveries : Active(r)

Fenced ==
    \E r \in Recoveries : /\ permit[r].kind = "noop_fence"
                          /\ job[r].state = "terminal"
                          /\ proof[r] = "succeeded"

(***************************************************************************)
(* The parent and the clock.                                               *)
(***************************************************************************)

Tick ==
    /\ now < MaxTime
    /\ now' = now + 1
    /\ UNCHANGED <<parentVars, laneVars>>

\* The all-missing ambiguity is recorded only while the outcome is unknown;
\* its id is a hash of the attempt, so a second one is the same row.
OpenIncident(i) ==
    /\ incident[i] = "none"
    /\ i = Ambiguity => parent.outcome = "unknown" /\ ~parent.terminal
    /\ incident' = [incident EXCEPT ![i] = "open"]
    /\ UNCHANGED <<now, parent, account, laneVars>>

ProtectionState(p, q) ==
    CASE p = 0 /\ q = 0 -> "flat"
      [] ~(p = 0 /\ q = 0) /\ q = Abs(p) -> "protected"
      [] q < Abs(p) -> "under_protected"
      [] OTHER -> "over_protected"

\* _upsert_position_locked and _upsert_protection_locked: observations never
\* move backwards, and one instant has one position.  The last instant of the
\* bounded clock stands for all later ones.
Observed(p, q, seen) ==
    /\ account.at <= seen
    /\ account.at = seen /\ seen < MaxTime => account.position = p
    /\ account' = [position |-> p, protection |-> ProtectionState(p, q), at |-> seen]

\* Mutant: a terminal parent closes everything.
ClosedWithParent(i) == incident[i] # "none"

\* A terminal parent closes what is contained, and an open ambiguity.
ClosedByParent(i) ==
    \/ incident[i] = "contained"
    \/ i = Ambiguity /\ incident[i] = "open"

\* The parent's own reconciliation: observes, opens a critical incident of its
\* own for a badly protected position, and may end the parent when flat.
ReconcileParent(p, q, seen, ends, i) ==
    LET hazard == ProtectionState(p, q) \in {"under_protected", "over_protected"} IN
    /\ ~parent.terminal
    /\ seen <= now
    /\ Observed(p, q, seen)
    /\ ends => p = 0 /\ q = 0
    /\ hazard => i # Ambiguity /\ incident[i] = "none"
    /\ parent' = [parent EXCEPT !.terminal = ends]
    /\ incident' = [j \in Incidents |->
                      CASE hazard /\ j = i -> "open"
                        [] ends /\ ClosedByParent(j) -> "closed"
                        [] OTHER -> incident[j]]
    /\ UNCHANGED <<now, laneVars>>

(***************************************************************************)
(* Permits and queueing.                                                   *)
(***************************************************************************)

\* Mutant: the fence is not demanded before other actions.
PermitAllowedUnfenced(k) == k = "noop_fence" => parent.outcome = "unknown"

\* A parent of unknown outcome is fenced before anything else may act for it.
PermitAllowed(k) ==
    IF k = "noop_fence" THEN parent.outcome = "unknown"
    ELSE parent.outcome = "unknown" => Fenced

RegisterPermit(r, k, i, original, size, at) ==
    /\ permit[r].state = "none"
    /\ incident[i] = "open"
    /\ PermitAllowed(k)
    /\ IF k = "reduce_only_close" THEN size \in 1..Abs(original)
       ELSE original = 0 /\ size = 0
    /\ permit' = [permit EXCEPT ![r] =
                    [state |-> "issued", kind |-> k, incident |-> i,
                     original |-> original, size |-> size,
                     issued |-> at, expires |-> at + PermitTTL]]
    /\ UNCHANGED <<now, parentVars, job, attempt, proof>>

QueueRecovery(r, at) ==
    /\ permit[r].state = "issued"
    /\ permit[r].issued <= at /\ at < permit[r].expires
    /\ incident[permit[r].incident] = "open"
    /\ ~RecoveryActive
    /\ permit' = [permit EXCEPT ![r].state = "consumed"]
    /\ job' = [job EXCEPT ![r] = [NoJob EXCEPT !.state = "queued"]]
    /\ UNCHANGED <<now, parentVars, attempt, proof>>

(***************************************************************************)
(* Claims and their expiry.                                                *)
(***************************************************************************)

Released(r, s) ==
    [state |-> s, worker |-> NoWorker, token |-> job[r].token,
     claimedAt |-> Never, lease |-> Never]

Lapsed(r, at) == job[r].state \in {"claimed", "signing"} /\ job[r].lease <= at

\* Mutant: the attempt's new state is written to the outbox.
LapsedStateOfAttempt(r) ==
    CASE attempt[r].state = "sending" -> "unknown"
      [] attempt[r].state = "none" /\ job[r].state = "claimed" -> "queued"
      [] OTHER -> "terminal"

\* What a lapsed claim becomes.  Without a consumed submission authority
\* nothing was sent; with one nobody knows.
LapsedState(r) ==
    CASE attempt[r].state = "sending" -> "submitted_unknown"
      [] attempt[r].state = "none" /\ job[r].state = "claimed" -> "queued"
      [] OTHER -> "terminal"

NormalJob(at) ==
    [r \in Recoveries |-> IF Lapsed(r, at) THEN Released(r, LapsedState(r)) ELSE job[r]]

NormalAttempt(at) ==
    [r \in Recoveries |->
        IF Lapsed(r, at) /\ attempt[r].state = "sending"
        THEN [attempt[r] EXCEPT !.state = "unknown"] ELSE attempt[r]]

\* A queued command whose permit has run out ends unsent.
RetiredJob(at) ==
    [r \in Recoveries |->
        IF NormalJob(at)[r].state = "queued" /\ permit[r].expires <= at
        THEN Released(r, "terminal") ELSE NormalJob(at)[r]]

NormalizeExpired(at) ==
    /\ RetiredJob(at) # job
    /\ job' = RetiredJob(at)
    /\ attempt' = NormalAttempt(at)
    /\ UNCHANGED <<now, parentVars, permit, proof>>

Claimed(r, s, w, at, l) ==
    [state |-> s, worker |-> w, token |-> job[r].token + 1,
     claimedAt |-> at, lease |-> at + l]

ClaimNextRecovery(r, w, at, l) ==
    /\ RetiredJob(at)[r].state = "queued"
    /\ job[r].token < MaxToken
    /\ job' = [RetiredJob(at) EXCEPT ![r] = Claimed(r, "claimed", w, at, l)]
    /\ attempt' = NormalAttempt(at)
    /\ UNCHANGED <<now, parentVars, permit, proof>>

\* _require_recovery_claim_locked
HasClaim(r, w, k, at, states) ==
    /\ job[r].state \in states
    /\ job[r].worker = w /\ job[r].token = k
    /\ job[r].claimedAt <= at /\ at < job[r].lease

(***************************************************************************)
(* Signing and the one send.                                               *)
(***************************************************************************)

RequireSigningAuthority(r, w, k, at) ==
    /\ HasClaim(r, w, k, at, {"claimed"})
    /\ attempt[r].state = "none"
    /\ at < permit[r].expires
    /\ incident[permit[r].incident] = "open"
    /\ permit[r].kind = "noop_fence" => parent.outcome = "unknown"
    /\ job' = [job EXCEPT ![r].state = "signing"]
    /\ UNCHANGED <<now, parentVars, permit, attempt, proof>>

PrepareAttempt(r, w, k, at, e) ==
    /\ HasClaim(r, w, k, at, {"signing"})
    /\ attempt[r].state = "none"
    /\ at < permit[r].expires /\ e <= permit[r].expires
    /\ attempt' = [attempt EXCEPT ![r] = [state |-> "prepared", expires |-> e,
                                          refused |-> FALSE]]
    /\ UNCHANGED <<now, parentVars, permit, job, proof>>

RequireSubmissionAuthority(r, w, k, at) ==
    /\ HasClaim(r, w, k, at, {"signing"})
    /\ attempt[r].state = "prepared"
    /\ attempt' = [attempt EXCEPT ![r].state = "sending"]
    /\ UNCHANGED <<now, parentVars, permit, job, proof>>

\* answer: "lost" (timeout or error), "ok" (a response; for a fence exactly the
\* canonical one), "refused" (a fence answered otherwise, kept as unknown).
RecordOutcome(r, w, k, at, answer) ==
    /\ HasClaim(r, w, k, at, {"signing"})
    /\ attempt[r].state = "sending"
    /\ answer = "refused" => permit[r].kind = "noop_fence"
    /\ attempt' = [attempt EXCEPT
          ![r].state = IF answer = "ok" THEN "response_received" ELSE "unknown",
          ![r].refused = answer = "refused"]
    /\ job' = [job EXCEPT ![r] =
          Released(r, IF answer = "ok" THEN "reconciling" ELSE "submitted_unknown")]
    /\ UNCHANGED <<now, parentVars, permit, proof>>

(***************************************************************************)
(* Reconciliation.                                                         *)
(***************************************************************************)

\* Mutant: an active claim is taken over.
StealReconciliation(r, w, at, l) ==
    /\ NormalJob(at)[r].state \in {"submitted_unknown", "reconciling"}
    /\ job[r].token < MaxToken
    /\ job' = [NormalJob(at) EXCEPT ![r] = Claimed(r, "reconciling", w, at, l)]
    /\ attempt' = NormalAttempt(at)
    /\ UNCHANGED <<now, parentVars, permit, proof>>

ClaimReconciliation(r, w, at, l) ==
    /\ NormalJob(at)[r].state \in {"submitted_unknown", "reconciling"}
    /\ \/ NormalJob(at)[r].worker = NoWorker
       \/ NormalJob(at)[r].lease <= at
    /\ job[r].token < MaxToken
    /\ job' = [NormalJob(at) EXCEPT ![r] = Claimed(r, "reconciling", w, at, l)]
    /\ attempt' = NormalAttempt(at)
    /\ UNCHANGED <<now, parentVars, permit, proof>>

\* What a success must show, by kind.  A cancel shows that no requested order
\* is open, a fence that the original nonce is resolved: both are part of the
\* evidence, not of a row here.
SuccessShown(r, p) ==
    LET o == permit[r].original IN
    permit[r].kind = "reduce_only_close" =>
        /\ ~(o > 0 /\ p < 0) /\ ~(o < 0 /\ p > 0)
        /\ Abs(p) <= MaxOf(Abs(o) - permit[r].size, 0)

\* Incomplete evidence only gives the claim back; so does a replayed one.
ReconcileIncomplete(r, w, k, at) ==
    /\ HasClaim(r, w, k, at, {"reconciling"})
    /\ job' = [job EXCEPT ![r] = Released(r, "reconciling")]
    /\ UNCHANGED <<now, parentVars, permit, attempt, proof>>

\* The resolution is allowed by what was just observed.
Resolvable(resolution, p) ==
    /\ resolution = "contained" => p = 0 \/ account'.protection = "protected"
    /\ resolution = "closed" => parent.terminal /\ account'.protection = "flat"

\* Complete evidence: rows are updated, the incident is overwritten with the
\* resolution whatever its state, and the recovery ends.
ReconcileRecovery(r, w, k, at, seen, p, q, success, resolution) ==
    /\ HasClaim(r, w, k, at, {"reconciling"})
    /\ Observed(p, q, seen)
    /\ success => SuccessShown(r, p)
    /\ resolution # "none" => success
    /\ Resolvable(resolution, p)
    /\ proof' = [proof EXCEPT ![r] = IF success THEN "succeeded" ELSE "failed"]
    /\ incident' = IF resolution = "none" THEN incident
                   ELSE [incident EXCEPT ![permit[r].incident] = resolution]
    /\ job' = [job EXCEPT ![r] = Released(r, "terminal")]
    /\ UNCHANGED <<now, parent, permit, attempt>>

ReleaseReconciliationClaim(r, w, k, at) ==
    /\ job[r].state = "reconciling"
    /\ job[r].worker = w /\ job[r].token = k
    /\ job[r].claimedAt <= at
    /\ job' = [job EXCEPT ![r] = Released(r, "reconciling")]
    /\ UNCHANGED <<now, parentVars, permit, attempt, proof>>

\* require_terminal_noop_fence: one successful fence, answered canonically,
\* whose incident it contained.
TerminalFence(r) ==
    /\ permit[r].kind = "noop_fence" /\ job[r].state = "terminal"
    /\ {s \in Recoveries : permit[s].kind = "noop_fence" /\ job[s].state = "terminal"
                           /\ proof[s] = "succeeded"} = {r}
    /\ parent.outcome = "unknown"
    /\ attempt[r].state = "response_received"
    /\ incident[permit[r].incident] \in {"contained", "closed"}

CloseFencedIncident(r) ==
    /\ TerminalFence(r)
    /\ parent.terminal
    /\ account.position = 0 /\ account.protection = "flat"
    /\ ~RecoveryActive
    /\ incident[permit[r].incident] = "contained"
    /\ incident' = [incident EXCEPT ![permit[r].incident] = "closed"]
    /\ UNCHANGED <<now, parent, account, laneVars>>

(***************************************************************************)
(* The store alone: any worker may call anything at any time.  The signed  *)
(* expiry is not read again by the store, so one value stands for all.     *)
(***************************************************************************)

ParentSteps ==
    \/ \E i \in Incidents : OpenIncident(i)
    \/ \E p \in Positions, seen \in Readings, ends \in BOOLEAN :
          \E q \in Quantities, i \in Incidents : ReconcileParent(p, q, seen, ends, i)

AuthoritySteps ==
    \/ \E r \in Recoveries, k \in Kinds, i \in Incidents, o \in Positions, at \in Readings :
          \E size \in 0..Abs(o) : RegisterPermit(r, k, i, o, size, at)
    \/ \E r \in Recoveries, at \in Readings : QueueRecovery(r, at)
    \/ \E at \in Readings : NormalizeExpired(at)
    \/ \E r \in Recoveries : CloseFencedIncident(r)

ClaimSteps ==
    \E r \in Recoveries, w \in Workers, at \in Readings, l \in Leases :
       \/ ClaimNextRecovery(r, w, at, l)
       \/ ClaimReconciliation(r, w, at, l)

HolderSteps ==
    \E r \in Recoveries, w \in Workers, k \in 1..MaxToken, at \in Readings :
       \/ RequireSigningAuthority(r, w, k, at)
       \/ PrepareAttempt(r, w, k, at, permit[r].expires)
       \/ RequireSubmissionAuthority(r, w, k, at)
       \/ \E answer \in {"ok", "lost", "refused"} : RecordOutcome(r, w, k, at, answer)
       \/ ReconcileIncomplete(r, w, k, at)
       \/ ReleaseReconciliationClaim(r, w, k, at)
       \/ \E p \in Positions, seen \in Readings, success \in BOOLEAN,
             resolution \in {"none", "contained", "closed"} :
             \E q \in Quantities :
                ReconcileRecovery(r, w, k, at, seen, p, q, success, resolution)

RecoveryNext == Tick \/ ParentSteps \/ AuthoritySteps \/ ClaimSteps \/ HolderSteps

RecoverySpec == RecoveryInit /\ [][RecoveryNext]_recoveryVars

(***************************************************************************)
(* Properties of the store.                                                *)
(***************************************************************************)

Permit == [state : {"none", "issued", "consumed"}, kind : Kinds,
           incident : Incidents \cup {NoIncident}, original : Int, size : Nat,
           issued : Int, expires : Int]

Job == [state : JobStates, worker : Workers \cup {NoWorker}, token : Nat,
        claimedAt : Int, lease : Int]

Attempt == [state : AttemptStates, expires : Int, refused : BOOLEAN]

\* The rows of the recovery tables keep their columns' types.
RecoveryTypeOK ==
    /\ now \in Nat
    /\ parent \in [outcome : {"unknown", "response_received"}, terminal : BOOLEAN]
    /\ incident \in [Incidents -> {"none", "open", "contained", "closed"}]
    /\ account \in [position : Int, at : Int,
                    protection : {"none", "flat", "protected", "under_protected",
                                  "over_protected"}]
    /\ permit \in [Recoveries -> Permit]
    /\ job \in [Recoveries -> Job]
    /\ attempt \in [Recoveries -> Attempt]
    /\ proof \in [Recoveries -> {"none", "failed", "succeeded"}]

\* A close or cancel is prepared for a parent of unknown outcome only after a
\* fence of its nonce ended successfully, even though the fence is looked up
\* once, when the permit is registered, and not again when the command is
\* queued, signed or sent (register_recovery_permit, prepare_recovery_attempt).
FencedBeforeOtherActions ==
    \A r \in Recoveries :
        attempt[r].state # "none" /\ parent.outcome = "unknown"
            /\ permit[r].kind # "noop_fence" => Fenced

\* A recovery passes to another holder only after the lease of the last one has
\* run out, and to nobody once it ended: no stale worker, late answer or
\* normalization revives it, consumes its authority or rewrites its attempt or
\* its proof (claim_recovery_reconciliation, _normalize_expired_recovery_locked).
RecoveryPassesWhileAlive ==
    [][\A r \in Recoveries :
         /\ job'[r].token # job[r].token => job[r].worker = NoWorker \/ job[r].lease <= now
         /\ job[r].state = "terminal" =>
               job'[r] = job[r] /\ attempt'[r] = attempt[r] /\ proof'[r] = proof[r]
      ]_recoveryVars

=============================================================================

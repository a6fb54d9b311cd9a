-------------------------- MODULE QualificationLane --------------------------
(***************************************************************************)
(* The attended TESTNET qualification lane: a canary order that is placed, *)
(* queried and canceled, the one attended successor of a cancel that was   *)
(* never sent, and the attended close of what a canary filled              *)
(* (qualification_store.py, qualification_cancel_store.py,                 *)
(* testnet_qualification.py, qualification_transport.py and the worker of  *)
(* qualification_cli.py), over an unreliable network and a moving venue.   *)
(*                                                                         *)
(* An action is one transaction of the store or one call to the venue.     *)
(* Workers are processes of the `run` command; reads, halts and            *)
(* normalization may be made by any process, so those actions name no      *)
(* worker.  A step that the store calls response_received or unknown is    *)
(* "presumed_sent" here: nothing tells the two apart.  The outbox row      *)
(* repeats the command row, so its state is not kept twice, and the fence  *)
(* of a finished command is forgotten: it is not claimed again.  The venue *)
(* and the processes share one clock.  Account safety appears as an        *)
(* incident that may be open and a recovery that may be alive.             *)
(***************************************************************************)
EXTENDS Integers, FiniteSets

CONSTANTS
    Canaries,     \* commands of kind gtc_place_query_cancel
    Closes,       \* commands of kind attended_reduce_only_close
    Workers,      \* processes of the qualification CLI
    Size,         \* the quantity of a canary
    ActionTTL,    \* ACTION_TTL_MS
    LeaseTime,    \* lease_seconds
    MaxAge,       \* MAX_EVIDENCE_AGE_MS
    MaxReserved,  \* the account's cap, in canary reservations
    MaxTime,      \* bound: the clock
    LastCanary,   \* bound: the last instant at which a canary is admitted
    NoWorker

Commands == Canaries \cup Closes

ASSUME QualificationAssumption ==
    /\ Canaries \cap Closes = {}
    /\ {Size, ActionTTL, LeaseTime, MaxAge, MaxReserved, MaxTime, LastCanary}
          \subseteq Nat
    /\ Size > 0
    /\ NoWorker \notin Workers

VARIABLES
    now,       \* the clock
    cmd,       \* execution_qualification_commands and their workflow
    step,      \* execution_qualification_steps with their authorities; sent is
               \* the instant of the send, until its result that of its authority
    claim,     \* the claim columns of execution_qualification_outbox
    query,     \* execution_qualification_queries that are not yet consumed
    reauth,    \* execution_qualification_cancel_reauthorizations, by source
    exposure,  \* the account's reserved exposure, in canaries
    incident,  \* a critical incident is open
    recovery,  \* a recovery command is not terminal
    proc,      \* each worker: what it is sending, and its claim
    net,       \* requests on their way to the venue
    order,     \* the venue's state of each command's order
    position   \* the venue's position

storeVars == <<cmd, step, claim, query, reauth, exposure>>
safetyVars == <<incident, recovery>>
venueVars == <<net, order, position>>
qualVars == <<now, storeVars, safetyVars, proc, venueVars>>

Never == -1
Phases == {"place", "cancel", "close"}
Kinds == Phases \cup {"reauth"}   \* what a request to the venue is about
QueryKinds == {"cloid", "oid", "terminal"}
NoClaim == [worker |-> NoWorker, token |-> 0, lease |-> 0]
NoStep == [state |-> "none", expiry |-> 0, signing |-> FALSE, sent |-> Never]
NoReport == [status |-> "none", fill |-> 0, at |-> 0, position |-> 0, open |-> FALSE]
NoReauth == [state |-> "none", expiry |-> 0, signing |-> FALSE, sent |-> Never,
             claim |-> NoClaim]
Idle == [pc |-> "idle", kind |-> "none", cmd |-> NoWorker, token |-> 0,
         at |-> 0, until |-> 0]

QualInit ==
    /\ now = 0
    /\ cmd = [c \in Commands |-> [state |-> "none", phase |-> "none", wf |-> "none",
                                  released |-> TRUE, quantity |-> 0]]
    /\ step = [c \in Commands |-> [p \in Phases |-> NoStep]]
    /\ claim = [c \in Commands |-> NoClaim]
    /\ query = [c \in Commands |-> [k \in QueryKinds |-> NoReport]]
    /\ reauth = [c \in Canaries |-> NoReauth]
    /\ exposure = 0
    /\ incident = FALSE
    /\ recovery = FALSE
    /\ proc = [w \in Workers |-> Idle]
    /\ net = {}
    /\ order = [c \in Commands |-> [status |-> "none", fill |-> 0, at |-> 0]]
    /\ position = 0

Active(c) == cmd[c].state \in {"queued", "claimed", "reconciling"}

ReauthActive(c) == reauth[c].state \notin {"none", "terminal", "halted"}

Unresolved(c) == c \in Canaries /\ ~cmd[c].released

OpenOrders == {c \in Commands : order[c].status = "open"}

\* The new incarnation of the current step.
StepTo(c, s) == [step EXCEPT ![c][cmd[c].phase].state = s]

Step(c) == step[c][cmd[c].phase]

(***************************************************************************)
(* Attended admission.  The reads behind it are a few seconds old; what    *)
(* the venue does between a read and the transaction commutes with the     *)
(* transaction, so the two are one step.                                   *)
(***************************************************************************)

\* Mutant: an active successor does not keep new commands out.
AccountIsFreeButForSuccessors ==
    /\ ~incident /\ ~recovery
    /\ \A c \in Commands : ~Active(c)

\* What admit refuses for both kinds of command.
AccountIsFree ==
    /\ ~incident /\ ~recovery
    /\ \A c \in Commands : ~Active(c)
    /\ \A c \in Canaries : ~ReauthActive(c)

Queue(c, p, quantity, released) ==
    /\ cmd[c].state = "none"
    /\ cmd' = [cmd EXCEPT ![c] = [state |-> "queued", phase |-> p, wf |-> "authorized",
                                  released |-> released, quantity |-> quantity]]
    /\ step' = [step EXCEPT ![c][p] =
                  [NoStep EXCEPT !.state = "ready", !.expiry = now + ActionTTL]]

\* authorize_canary: a flat account without orders, and no reservation left.
AdmitCanary(c) ==
    /\ c \in Canaries
    /\ now <= LastCanary
    /\ AccountIsFree
    /\ position = 0 /\ OpenOrders = {}
    /\ \A d \in Commands : ~Unresolved(d)
    /\ exposure < MaxReserved
    /\ Queue(c, "place", Size, FALSE)
    /\ exposure' = exposure + 1
    /\ UNCHANGED <<now, claim, query, reauth, safetyVars, proc, venueVars>>

\* authorize_close: one position, no order that could add to it, and exactly
\* one canary whose reservation it resolves.  A close reserves nothing.
AdmitClose(c) ==
    /\ c \in Closes
    /\ AccountIsFree
    /\ position > 0 /\ OpenOrders = {}
    /\ Cardinality({d \in Commands : Unresolved(d)}) = 1
    /\ Queue(c, "close", position, TRUE)
    /\ UNCHANGED <<now, claim, query, reauth, exposure, safetyVars, proc, venueVars>>

(***************************************************************************)
(* One dispatch: claim, signing authority, attempt, submission authority,  *)
(* POST and its result.                                                    *)
(***************************************************************************)

Claim(w, c) ==
    /\ proc[w].pc = "idle"
    /\ cmd[c].state = "queued"
    /\ ~incident /\ ~recovery
    /\ \A d \in Canaries : ~ReauthActive(d)
    /\ Step(c).state = "ready" /\ now < Step(c).expiry
    /\ claim' = [claim EXCEPT ![c] = [worker |-> w, token |-> @.token + 1,
                                      lease |-> now + LeaseTime]]
    /\ cmd' = [cmd EXCEPT ![c].state = "claimed"]
    /\ step' = StepTo(c, "claimed")
    /\ proc' = [proc EXCEPT ![w] = [Idle EXCEPT !.pc = "working", !.cmd = c,
                                                !.kind = cmd[c].phase,
                                                !.token = claim[c].token + 1]]
    /\ UNCHANGED <<now, query, reauth, exposure, safetyVars, venueVars>>

Works(w, c) == proc[w].pc = "working" /\ proc[w].cmd = c /\ proc[w].kind = cmd[c].phase

\* _require_claim_locked.
HoldsClaim(w, c) ==
    /\ cmd[c].state = "claimed"
    /\ claim[c].worker = w
    /\ claim[c].token = proc[w].token
    /\ now < claim[c].lease

RequireSigning(w, c) ==
    /\ Works(w, c)
    /\ HoldsClaim(w, c)
    /\ ~incident
    /\ Step(c).state = "claimed" /\ now < Step(c).expiry
    /\ ~Step(c).signing
    /\ step' = [step EXCEPT ![c][cmd[c].phase].signing = TRUE]
    /\ UNCHANGED <<now, cmd, claim, query, reauth, exposure, safetyVars, proc, venueVars>>

\* sign: the authority is loaded again, the nonce is bound, and the verified
\* envelope becomes the attempt.
Prepare(w, c) ==
    /\ Works(w, c)
    /\ HoldsClaim(w, c)
    /\ ~incident
    /\ Step(c).state = "claimed" /\ Step(c).signing
    /\ now < Step(c).expiry
    /\ step' = StepTo(c, "prepared")
    /\ UNCHANGED <<now, cmd, claim, query, reauth, exposure, safetyVars, proc, venueVars>>

SmallerOf(a, b) == IF a < b THEN a ELSE b

\* require_submission_authority: the point of no return.  An incident is not
\* looked at again: only the preemption of a recovery stops a prepared step.
Authorize(w, c) ==
    /\ Works(w, c)
    /\ HoldsClaim(w, c)
    /\ Step(c).state = "prepared" /\ now < Step(c).expiry
    /\ step' = [step EXCEPT ![c][cmd[c].phase] = [@ EXCEPT !.state = "sending", !.sent = now]]
    /\ proc' = [proc EXCEPT ![w] = [@ EXCEPT !.pc = "sending", !.at = now,
                                     !.until = SmallerOf(Step(c).expiry, claim[c].lease)]]
    /\ UNCHANGED <<now, cmd, claim, query, reauth, exposure, safetyVars, venueVars>>

\* submit_qualification_once: the one POST, while its authority is current.
Post(w) ==
    /\ proc[w].pc = "sending"
    /\ now < proc[w].until
    /\ net' = net \cup {<<proc[w].kind, proc[w].cmd>>}
    /\ proc' = [proc EXCEPT ![w] = [@ EXCEPT !.pc = "posted", !.at = now, !.until = 0]]
    /\ UNCHANGED <<now, storeVars, safetyVars, order, position>>

\* The authority or the route lapsed before the POST: the same "unknown"
\* result is frozen at the instant of the authority.
SkipPost(w) ==
    /\ proc[w].pc = "sending"
    /\ proc' = [proc EXCEPT ![w] = [@ EXCEPT !.pc = "posted", !.until = 0]]
    /\ UNCHANGED <<now, storeVars, safetyVars, venueVars>>

\* Mutant: the phase stands for the state of the workflow.
PendingQueryAsPhase(p) == p

PendingQuery(p) == CASE p = "place"  -> "place_pending_query"
                     [] p = "cancel" -> "cancel_pending_query"
                     [] p = "close"  -> "close_pending_query"

\* The step is presumed sent at `at`, and the command waits for reads.
Presume(c, at) ==
    /\ step' = [step EXCEPT ![c][cmd[c].phase] =
                  [@ EXCEPT !.state = "presumed_sent", !.sent = at]]
    /\ cmd' = [cmd EXCEPT ![c] = [@ EXCEPT !.state = "reconciling",
                                           !.wf = PendingQuery(cmd[c].phase)]]
    /\ claim' = [claim EXCEPT ![c] = [NoClaim EXCEPT !.token = claim[c].token]]

\* record_transport_result: refused once normalization or a preemption has
\* moved the command on.
Record(w, c) ==
    /\ proc[w].pc = "posted" /\ proc[w].cmd = c /\ proc[w].kind \in Phases
    /\ \/ /\ cmd[c].state = "claimed" /\ cmd[c].phase = proc[w].kind
          /\ Step(c).state = "sending"
          /\ Presume(c, proc[w].at)
       \/ /\ cmd[c].state # "claimed" \/ cmd[c].phase # proc[w].kind
          /\ UNCHANGED <<cmd, step, claim>>
    /\ proc' = [proc EXCEPT ![w] = Idle]
    /\ UNCHANGED <<now, query, reauth, exposure, safetyVars, venueVars>>

Crash(w) ==
    /\ proc[w].pc # "idle"
    /\ proc' = [proc EXCEPT ![w] = Idle]
    /\ UNCHANGED <<now, storeVars, safetyVars, venueVars>>

(***************************************************************************)
(* Steps that are proven unsent, and claims that lapsed.                   *)
(***************************************************************************)

\* Mutant: the release does not look at whether there is something to release.
ExposureWithoutAsking(c) == exposure - 1

\* _release_reservation_locked; a released reservation is not released twice.
ExposureWithout(c) == IF cmd[c].released THEN exposure ELSE exposure - 1

\* Mutant: a cancel that was never sent gives the reservation back as well.
ConsumeUnsentFreely(c) ==
    /\ step' = StepTo(c, "terminal_unsent")
    /\ cmd' = [cmd EXCEPT ![c] = [@ EXCEPT !.state = "halted", !.phase = "halted",
                                           !.released = TRUE]]
    /\ claim' = [claim EXCEPT ![c] = NoClaim]
    /\ exposure' = ExposureWithout(c)

\* An unsent place or close gives its reservation back; an unsent cancel
\* leaves a live order, so its reservation stays.
ConsumeUnsent(c) ==
    LET frees == cmd[c].phase # "cancel"
    IN  /\ step' = StepTo(c, "terminal_unsent")
        /\ cmd' = [cmd EXCEPT ![c] = [cmd[c] EXCEPT !.state = "halted", !.phase = "halted",
                                                    !.released = @ \/ frees]]
        /\ claim' = [claim EXCEPT ![c] = NoClaim]
        /\ exposure' = IF frees THEN ExposureWithout(c) ELSE exposure

\* halt_unused_signing_authority and halt_prepared_attempt_for_missing_envelope.
HaltUnsent(w, c) ==
    /\ Works(w, c)
    /\ HoldsClaim(w, c)
    /\ \/ Step(c).state = "claimed" /\ Step(c).signing
       \/ Step(c).state = "prepared"
    /\ ConsumeUnsent(c)
    /\ proc' = [proc EXCEPT ![w] = Idle]
    /\ UNCHANGED <<now, query, reauth, safetyVars, venueVars>>

\* halt_for_reconciliation_deadline: `run` gives up on a queued command.
HaltQueued(c) ==
    /\ cmd[c].state = "queued" /\ ~Step(c).signing
    /\ ConsumeUnsent(c)
    /\ UNCHANGED <<now, query, reauth, safetyVars, proc, venueVars>>

\* Mutant: a lapsed claim is taken for unsent even past its send authority.
NormalizeAsUnsent(c) ==
    /\ \/ cmd[c].state = "queued" /\ Step(c).expiry <= now
       \/ cmd[c].state = "claimed" /\ claim[c].lease <= now
    /\ ConsumeUnsent(c)
    /\ UNCHANGED <<now, query, reauth, safetyVars, proc, venueVars>>

\* Mutant: only lapsed claims are normalized, not queued steps that expired.
NormalizeClaimsOnly(c) ==
    /\ cmd[c].state = "claimed" /\ claim[c].lease <= now
    /\ Step(c).state # "sending"
    /\ ConsumeUnsent(c)
    /\ UNCHANGED <<now, query, reauth, safetyVars, proc, venueVars>>

\* normalize_expired_claims on one command.
Normalize(c) ==
    /\ \/ /\ cmd[c].state = "queued" /\ Step(c).expiry <= now
          /\ ConsumeUnsent(c)
       \/ /\ cmd[c].state = "claimed" /\ claim[c].lease <= now
          /\ \/ /\ Step(c).state = "claimed" /\ ~Step(c).signing
                /\ now < Step(c).expiry
                /\ step' = StepTo(c, "ready")
                /\ cmd' = [cmd EXCEPT ![c].state = "queued"]
                /\ claim' = [claim EXCEPT ![c] = [NoClaim EXCEPT !.token = claim[c].token]]
                /\ UNCHANGED exposure
             \/ /\ Step(c).state = "sending"
                /\ Presume(c, Step(c).sent)
                /\ UNCHANGED exposure
             \/ /\ Step(c).state = "claimed" => Step(c).signing \/ Step(c).expiry <= now
                /\ Step(c).state # "sending"
                /\ ConsumeUnsent(c)
    /\ UNCHANGED <<now, query, reauth, safetyVars, proc, venueVars>>

(***************************************************************************)
(* Reads and what they decide.                                             *)
(***************************************************************************)

\* The account snapshot beside a status matters for the terminal read only.
Report(c, k) ==
    LET status == [NoReport EXCEPT !.status = order[c].status, !.fill = order[c].fill]
    IN  IF k # "terminal" THEN status
        ELSE [status EXCEPT !.at = now, !.position = position, !.open = OpenOrders # {}]

\* record_query_evidence: each kind is bound once, to a status that the venue
\* stamped no earlier than the send it is about.
Retain(c, k) ==
    /\ cmd[c].state = "reconciling"
    /\ query[c][k].status = "none"
    /\ order[c].status # "none"
    /\ order[c].at >= Step(c).sent
    /\ query' = [query EXCEPT ![c][k] = Report(c, k)]
    /\ UNCHANGED <<now, cmd, step, claim, reauth, exposure, safetyVars, proc, venueVars>>

\* reconcile_open reads by CLOID, then by the OID that it found.
ReadByCloid(c) == cmd[c].wf = "place_pending_query" /\ Retain(c, "cloid")

ReadByOid(c) ==
    /\ cmd[c].wf = "place_pending_query" /\ query[c]["cloid"].status # "none"
    /\ Retain(c, "oid")

\* reconcile_terminal: a status that is not terminal is not retained.
ReadTerminal(c) ==
    /\ cmd[c].wf \in {"cancel_pending_query", "close_pending_query"}
    /\ order[c].status # "open"
    /\ Retain(c, "terminal")

\* QualificationOrderStatusEvidence.filled.
Filled(r) == r.status = "filled" \/ r.fill > 0

\* record_canary_open_queries.
OpenVerdict(a, b) ==
    IF Filled(a) \/ Filled(b) THEN "unexpected_fill"
    ELSE IF a.status = "open" /\ b.status = "open" THEN "open_verified"
    ELSE "halted_unresolved"

\* prepare_canary_cancel refuses reads that disagree about the remainder.
Cancelable(a, b) == a.status = "open" /\ b.status = "open" /\ a.fill = b.fill

\* The command row after the last verdict on it.
Ended(row, verdict) ==
    LET halts == verdict = "halted_unresolved"
    IN  [row EXCEPT !.state = IF halts THEN "halted" ELSE "terminal",
                    !.phase = IF halts THEN "halted" ELSE "complete",
                    !.wf = verdict]

\* advance_and_queue_canary_cancel.
AdvanceOpen(c) ==
    LET a == query[c]["cloid"]
        b == query[c]["oid"]
        placed == [step EXCEPT ![c]["place"].state = "reconciled"]
    IN  /\ cmd[c].state = "reconciling" /\ cmd[c].wf = "place_pending_query"
        /\ a.status # "none" /\ b.status # "none"
        /\ \/ /\ Cancelable(a, b)
              /\ cmd' = [cmd EXCEPT ![c] = [@ EXCEPT !.state = "queued", !.phase = "cancel",
                                                     !.wf = "cancel_ready"]]
              /\ step' = [placed EXCEPT ![c]["cancel"] =
                            [NoStep EXCEPT !.state = "ready", !.expiry = now + ActionTTL]]
           \/ /\ ~Cancelable(a, b)
              /\ cmd' = [cmd EXCEPT ![c] = Ended(@, OpenVerdict(a, b))]
              /\ step' = placed
        /\ query' = [query EXCEPT ![c] = [k \in QueryKinds |-> NoReport]]
        /\ UNCHANGED <<now, claim, reauth, exposure, safetyVars, proc, venueVars>>

\* reconcile_canary_terminal.
CanaryVerdict(r, held, working) ==
    IF Filled(r) \/ held > 0 THEN "unexpected_fill"
    ELSE IF r.status = "canceled" /\ ~working THEN "complete"
    ELSE "halted_unresolved"

\* reconcile_attended_close.
CloseVerdict(c, r, held, working) ==
    CASE r.status = "filled" /\ held = 0 /\ ~working -> "complete"
      [] held > 0 /\ held < cmd[c].quantity         -> "partial_requires_reauthorization"
      [] OTHER                                      -> "halted_unresolved"

\* The verdict on the retained snapshot while it is fresh and on a newer one
\* afterwards (refresh_terminal_query_snapshot).
TerminalVerdict(c) ==
    LET r == query[c]["terminal"]
        fresh == now - r.at <= MaxAge
        held == IF fresh THEN r.position ELSE position
        working == IF fresh THEN r.open ELSE OpenOrders # {}
    IN  IF c \in Canaries THEN CanaryVerdict(r, held, working)
                          ELSE CloseVerdict(c, r, held, working)

\* The reservations that a finished command gives back: its own, or that of
\* the canary whose position it closed.
Frees(c) ==
    IF TerminalVerdict(c) # "complete" THEN {}
    ELSE IF c \in Canaries THEN {c}
    ELSE {d \in Canaries : Unresolved(d)}

\* finish_terminal_reconciliation.
Finish(c) ==
    /\ cmd[c].state = "reconciling"
    /\ cmd[c].wf \in {"cancel_pending_query", "close_pending_query"}
    /\ query[c]["terminal"].status # "none"
    /\ c \in Closes /\ TerminalVerdict(c) = "complete" => Cardinality(Frees(c)) = 1
    /\ step' = StepTo(c, "reconciled")
    /\ query' = [query EXCEPT ![c]["terminal"] = NoReport]
    /\ exposure' = exposure - Cardinality({d \in Frees(c) : ~cmd[d].released})
    /\ cmd' = [d \in Commands |->
         LET row == [cmd[d] EXCEPT !.released = @ \/ d \in Frees(c)]
         IN  IF d = c THEN Ended(row, TerminalVerdict(c)) ELSE row]
    /\ claim' = [claim EXCEPT ![c] = NoClaim]
    /\ UNCHANGED <<now, reauth, safetyVars, proc, venueVars>>

(***************************************************************************)
(* The one attended successor of a cancel that was never sent.             *)
(***************************************************************************)

\* Mutant: the prior cancel need not be proven unsent.
AdmitReauthOfAnyCancel(c) ==
    /\ cmd[c].state = "halted" /\ ~cmd[c].released
    /\ cmd[c].wf = "cancel_ready"
    /\ order[c].status = "open"
    /\ reauth[c].state = "none"
    /\ ~recovery
    /\ \A d \in Commands : ~Active(d)
    /\ \A d \in Canaries : ~ReauthActive(d)
    /\ reauth' = [reauth EXCEPT ![c] = [NoReauth EXCEPT !.state = "queued",
                                                        !.expiry = now + ActionTTL]]
    /\ UNCHANGED <<now, cmd, step, claim, query, exposure, safetyVars, proc, venueVars>>

\* admit: both reads show the source's order open.  An open incident does not
\* keep a safety cancel out; a recovery does.
AdmitReauth(c) ==
    /\ cmd[c].state = "halted" /\ ~cmd[c].released
    /\ cmd[c].wf = "cancel_ready"
    /\ step[c]["cancel"].state = "terminal_unsent"
    /\ step[c]["cancel"].sent = Never
    /\ order[c].status = "open"
    /\ reauth[c].state = "none"
    /\ ~recovery
    /\ \A d \in Commands : ~Active(d)
    /\ \A d \in Canaries : ~ReauthActive(d)
    /\ reauth' = [reauth EXCEPT ![c] = [NoReauth EXCEPT !.state = "queued",
                                                        !.expiry = now + ActionTTL]]
    /\ UNCHANGED <<now, cmd, step, claim, query, exposure, safetyVars, proc, venueVars>>

ReauthClaim(w, c) ==
    /\ proc[w].pc = "idle"
    /\ reauth[c].state = "queued" /\ now < reauth[c].expiry
    /\ ~recovery
    /\ \A d \in Commands \ {c} : ~Active(d)
    /\ reauth' = [reauth EXCEPT ![c] =
                   [reauth[c] EXCEPT !.state = "claimed",
                                     !.claim = [worker |-> w, token |-> @.token + 1,
                                                lease |-> now + LeaseTime]]]
    /\ proc' = [proc EXCEPT ![w] = [Idle EXCEPT !.pc = "working", !.cmd = c,
                                                !.kind = "reauth",
                                                !.token = reauth[c].claim.token + 1]]
    /\ UNCHANGED <<now, cmd, step, claim, query, exposure, safetyVars, venueVars>>

HoldsReauth(w, c) ==
    /\ proc[w].pc = "working" /\ proc[w].cmd = c /\ proc[w].kind = "reauth"
    /\ reauth[c].claim.worker = w /\ reauth[c].claim.token = proc[w].token
    /\ now < reauth[c].claim.lease /\ now < reauth[c].expiry

ReauthSigning(w, c) ==
    /\ HoldsReauth(w, c)
    /\ reauth[c].state = "claimed" /\ ~reauth[c].signing
    /\ reauth' = [reauth EXCEPT ![c].signing = TRUE]
    /\ UNCHANGED <<now, cmd, step, claim, query, exposure, safetyVars, proc, venueVars>>

ReauthPrepare(w, c) ==
    /\ HoldsReauth(w, c)
    /\ reauth[c].state = "claimed" /\ reauth[c].signing
    /\ ~recovery
    /\ reauth' = [reauth EXCEPT ![c].state = "prepared"]
    /\ UNCHANGED <<now, cmd, step, claim, query, exposure, safetyVars, proc, venueVars>>

ReauthAuthorize(w, c) ==
    /\ HoldsReauth(w, c)
    /\ reauth[c].state = "prepared"
    /\ ~recovery
    /\ reauth' = [reauth EXCEPT ![c] = [@ EXCEPT !.state = "sending", !.sent = now]]
    /\ proc' = [proc EXCEPT ![w] = [@ EXCEPT !.pc = "sending", !.at = now,
                    !.until = SmallerOf(reauth[c].expiry, reauth[c].claim.lease)]]
    /\ UNCHANGED <<now, cmd, step, claim, query, exposure, safetyVars, venueVars>>

\* A successor gives its claim up; it is not claimed again.
ReauthTo(c, s, at) ==
    [reauth EXCEPT ![c] = [@ EXCEPT !.state = s, !.sent = at, !.claim = NoClaim]]

ReauthRecord(w, c) ==
    /\ proc[w].pc = "posted" /\ proc[w].cmd = c /\ proc[w].kind = "reauth"
    /\ \/ /\ reauth[c].state = "sending"
          /\ reauth' = ReauthTo(c, "reconciling", proc[w].at)
       \/ /\ reauth[c].state # "sending"
          /\ UNCHANGED reauth
    /\ proc' = [proc EXCEPT ![w] = Idle]
    /\ UNCHANGED <<now, cmd, step, claim, query, exposure, safetyVars, venueVars>>

\* normalize_expired.
ReauthNormalize(c) ==
    /\ \/ /\ \/ reauth[c].state = "queued" /\ reauth[c].expiry <= now
             \/ /\ reauth[c].state \in {"claimed", "prepared"}
                /\ reauth[c].claim.lease <= now
          /\ reauth' = ReauthTo(c, "halted", reauth[c].sent)
       \/ /\ reauth[c].state = "sending" /\ reauth[c].claim.lease <= now
          /\ reauth' = ReauthTo(c, "reconciling", reauth[c].sent)
    /\ UNCHANGED <<now, cmd, step, claim, query, exposure, safetyVars, proc, venueVars>>

\* halt_proven_unsent_for_deadline: any process may give up an unsent
\* successor, also one that another process has prepared.
ReauthHalt(c) ==
    /\ reauth[c].state \in {"queued", "claimed", "prepared"}
    /\ reauth' = ReauthTo(c, "halted", reauth[c].sent)
    /\ UNCHANGED <<now, cmd, step, claim, query, exposure, safetyVars, proc, venueVars>>

\* finish_terminal_reconciliation of the successor.
ReauthFinish(c) ==
    LET success == order[c].status = "canceled" /\ position = 0 /\ OpenOrders = {}
    IN  /\ reauth[c].state = "reconciling"
        /\ order[c].status # "open"
        /\ order[c].at >= reauth[c].sent
        /\ cmd[c].state = "halted" /\ ~cmd[c].released
        /\ success => order[c].fill = 0
        /\ reauth' = [reauth EXCEPT ![c].state = IF success THEN "terminal" ELSE "halted"]
        /\ cmd' = [cmd EXCEPT ![c].released = success]
        /\ exposure' = IF success THEN ExposureWithout(c) ELSE exposure
        /\ UNCHANGED <<now, step, claim, query, safetyVars, proc, venueVars>>

(***************************************************************************)
(* Account safety.                                                         *)
(***************************************************************************)

OpenIncident ==
    /\ ~incident
    /\ incident' = TRUE
    /\ UNCHANGED <<now, storeVars, recovery, proc, venueVars>>

CloseIncident ==
    /\ incident
    /\ incident' = FALSE
    /\ UNCHANGED <<now, storeVars, recovery, proc, venueVars>>

\* _preempt_for_account_safety_locked: an attempt, sent or not, is presumed
\* sent; the reservation stays whatever the step was.
PreemptedStep(c, p) ==
    IF Active(c) /\ p = cmd[c].phase
    THEN [step[c][p] EXCEPT !.state =
            IF @ \in {"ready", "claimed"} THEN "terminal_unsent" ELSE "presumed_sent"]
    ELSE step[c][p]

\* queue_recovery: preemption and queueing are one transaction.
QueueRecovery ==
    /\ incident /\ ~recovery
    /\ recovery' = TRUE
    /\ step' = [c \in Commands |-> [p \in Phases |-> PreemptedStep(c, p)]]
    /\ cmd' = [c \in Commands |->
                 IF Active(c) THEN [cmd[c] EXCEPT !.state = "halted", !.phase = "halted"]
                              ELSE cmd[c]]
    /\ claim' = [c \in Commands |-> IF Active(c) THEN NoClaim ELSE claim[c]]
    /\ reauth' = [c \in Canaries |->
                    IF ReauthActive(c) THEN ReauthTo(c, "halted", reauth[c].sent)[c]
                                       ELSE reauth[c]]
    /\ UNCHANGED <<now, query, exposure, incident, proc, venueVars>>

\* The recovery lane, in RecoveryLane, closes the position or leaves it.
EndRecovery ==
    /\ recovery
    /\ recovery' = FALSE
    /\ position' \in {0, position}
    /\ UNCHANGED <<now, storeVars, incident, proc, net, order>>

(***************************************************************************)
(* The venue and the clock.                                                *)
(***************************************************************************)

ExpiryOf(k, c) == IF k = "reauth" THEN reauth[c].expiry ELSE step[c][k].expiry

\* A request arrives.  A cancel that finds no open order
\* changes nothing.
Deliver(k, c) ==
    /\ <<k, c>> \in net
    /\ net' = net \ {<<k, c>>}
    /\ \/ /\ k = "place"
          /\ \E s \in {"open", "rejected"} :
                order' = [order EXCEPT ![c] = [status |-> s, fill |-> 0, at |-> now]]
          /\ UNCHANGED position
       \/ /\ k \in {"cancel", "reauth"}
          /\ order' = IF order[c].status # "open" THEN order
                      ELSE [order EXCEPT ![c] = [@ EXCEPT !.status = "canceled", !.at = now]]
          /\ UNCHANGED position
       \/ /\ k = "close"
          /\ \E fill \in 0 .. SmallerOf(position, cmd[c].quantity) :
                /\ order' = [order EXCEPT ![c] =
                     [status |-> IF fill = 0 THEN "rejected"
                                 ELSE IF fill = cmd[c].quantity THEN "filled" ELSE "canceled",
                      fill |-> fill, at |-> now]]
                /\ position' = position - fill
    /\ UNCHANGED <<now, storeVars, safetyVars, proc>>

Drop(k, c) ==
    /\ <<k, c>> \in net
    /\ net' = net \ {<<k, c>>}
    /\ UNCHANGED <<now, storeVars, safetyVars, proc, order, position>>

\* The resting canary trades one unit.  An order that stays open keeps the
\* instant of its status.
Fill(c) ==
    /\ c \in Canaries /\ order[c].status = "open"
    /\ position' = position + 1
    /\ order' = [order EXCEPT ![c] =
                   IF order[c].fill + 1 = Size
                   THEN [status |-> "filled", fill |-> Size, at |-> now]
                   ELSE [order[c] EXCEPT !.fill = @ + 1]]
    /\ UNCHANGED <<now, storeVars, safetyVars, proc, net>>

\* The venue, or a person at its own screen, cancels the canary.
VenueCancel(c) ==
    /\ order[c].status = "open"
    /\ order' = [order EXCEPT ![c] = [@ EXCEPT !.status = "canceled", !.at = now]]
    /\ UNCHANGED <<now, storeVars, safetyVars, proc, net, position>>

\* The venue refuses a request whose expiry has passed.
Tick ==
    /\ now < MaxTime
    /\ now' = now + 1
    /\ net' = {m \in net : now + 1 < ExpiryOf(m[1], m[2])}
    /\ UNCHANGED <<storeVars, safetyVars, proc, order, position>>

QualNext ==
    \/ Tick
    \/ OpenIncident \/ CloseIncident \/ QueueRecovery \/ EndRecovery
    \/ \E c \in Commands :
         \/ AdmitCanary(c) \/ AdmitClose(c)
         \/ HaltQueued(c) \/ Normalize(c)
         \/ ReadByCloid(c) \/ ReadByOid(c) \/ AdvanceOpen(c)
         \/ ReadTerminal(c) \/ Finish(c)
         \/ Fill(c) \/ VenueCancel(c)
         \/ \E k \in Kinds : Deliver(k, c) \/ Drop(k, c)
         \/ \E w \in Workers :
              \/ Claim(w, c) \/ RequireSigning(w, c) \/ Prepare(w, c)
              \/ Authorize(w, c) \/ Record(w, c) \/ HaltUnsent(w, c)
    \/ \E c \in Canaries :
         \/ AdmitReauth(c) \/ ReauthNormalize(c) \/ ReauthHalt(c) \/ ReauthFinish(c)
         \/ \E w \in Workers :
              \/ ReauthClaim(w, c) \/ ReauthSigning(w, c) \/ ReauthPrepare(w, c)
              \/ ReauthAuthorize(w, c) \/ ReauthRecord(w, c)
    \/ \E w \in Workers : Post(w) \/ SkipPost(w) \/ Crash(w)

\* `recover`, and every `run`, normalizes; the clock goes on.
QualFairness ==
    /\ WF_qualVars(Tick)
    /\ \A c \in Canaries : WF_qualVars(Normalize(c))

QualSpec == QualInit /\ [][QualNext]_qualVars /\ QualFairness

(***************************************************************************)
(* Properties.                                                             *)
(***************************************************************************)

Time == 0 .. MaxTime
Deadline == 0 .. MaxTime + ActionTTL + LeaseTime
Stamp == Time \cup {Never}
Claims == [worker : Workers \cup {NoWorker}, token : Nat, lease : Deadline]
SendStates == {"none", "ready", "claimed", "prepared", "sending", "presumed_sent",
               "terminal_unsent", "reconciled"}
Workflows == {"none", "authorized", "place_pending_query", "cancel_ready",
              "cancel_pending_query", "close_pending_query", "unexpected_fill",
              "halted_unresolved", "complete", "partial_requires_reauthorization"}
Statuses == {"none", "open", "filled", "canceled", "rejected"}

CommandRow ==
    [state : {"none", "queued", "claimed", "reconciling", "terminal", "halted"},
     phase : Phases \cup {"none", "halted", "complete"},
     wf : Workflows, released : BOOLEAN, quantity : Nat]
StepRow == [state : SendStates, expiry : Deadline, signing : BOOLEAN, sent : Stamp]
ReportRow == [status : Statuses, fill : Nat, at : Time, position : Nat, open : BOOLEAN]
ReauthRow ==
    [state : {"none", "queued", "claimed", "prepared", "sending", "reconciling",
              "terminal", "halted"},
     expiry : Deadline, signing : BOOLEAN, sent : Stamp, claim : Claims]
Process ==
    [pc : {"idle", "working", "sending", "posted"}, kind : Kinds \cup {"none"},
     cmd : Commands \cup {NoWorker}, token : Nat, at : Time, until : Deadline]
OrderRow == [status : Statuses, fill : Nat, at : Time]

\* The type of every row of the lane and of the venue's answer to it.
QualTypeOK ==
    /\ now \in Time
    /\ cmd \in [Commands -> CommandRow]
    /\ step \in [Commands -> [Phases -> StepRow]]
    /\ claim \in [Commands -> Claims]
    /\ query \in [Commands -> [QueryKinds -> ReportRow]]
    /\ reauth \in [Canaries -> ReauthRow]
    /\ exposure \in 0 .. MaxReserved
    /\ incident \in BOOLEAN /\ recovery \in BOOLEAN
    /\ proc \in [Workers -> Process]
    /\ net \subseteq Kinds \X Commands
    /\ order \in [Commands -> OrderRow]
    /\ position \in Nat

\* A process is about to send it, or it is on its way.
InFlight(k, c) ==
    \/ <<k, c>> \in net
    \/ \E w \in Workers : proc[w].pc = "sending" /\ proc[w].kind = k /\ proc[w].cmd = c
                          /\ now < proc[w].until

\* The reservation of a canary outlives every way in which it can still hurt:
\* an order that rests, a place that a process may yet send or the venue may
\* yet accept, and a position.  Every release in the code is a claim about
\* requests of other processes that this states outright.
ReservedWhileExposed ==
    /\ \A c \in Canaries :
          order[c].status = "open" \/ InFlight("place", c) => ~cmd[c].released
    /\ position > 0 => \E c \in Canaries : ~cmd[c].released

\* The account's reserved exposure is the sum of the reservations that are not
\* released: no path releases twice, or a reservation that is not its own.
ExposureExact == exposure = Cardinality({c \in Canaries : ~cmd[c].released})

\* Commands, successors and recoveries exclude one another on the account.
OneMutationAtATime ==
    Cardinality({c \in Commands : Active(c)})
      + Cardinality({c \in Canaries : ReauthActive(c)})
      + (IF recovery THEN 1 ELSE 0) <= 1

\* A step recorded as terminal_unsent is not on its way to the venue, was
\* never authorized, and no process is about to send it.
UnsentWasNeverSent ==
    \A c \in Commands : \A p \in Phases :
        step[c][p].state = "terminal_unsent" =>
            step[c][p].sent = Never /\ ~InFlight(p, c)

\* The point of no return is passed at most once: no crash, lapsed claim, halt,
\* preemption or second process leads to a second submission authority of a
\* step, nor to one of a canary's cancel and one of its successor.
GrantedOnce ==
    [][\A c \in Commands :
         /\ \A p \in Phases :
               step[c][p].state # "sending" /\ step'[c][p].state = "sending" =>
                  /\ step[c][p].sent = Never
                  /\ c \in Canaries /\ p = "cancel" => reauth[c].sent = Never
         /\ c \in Canaries =>
               (reauth[c].state # "sending" /\ reauth'[c].state = "sending" =>
                  reauth[c].sent = Never /\ step[c]["cancel"].sent = Never)
      ]_qualVars

\* A canary that is never authorized to be sent does not keep its reservation:
\* queued, claimed or prepared, it is normalized when its time is over.  A
\* recovery that preempts it is the exception.
UnsentCanaryIsFreed ==
    \A c \in Canaries :
        cmd[c].state \in {"queued", "claimed"} /\ cmd[c].phase = "place"
          ~> cmd[c].released \/ step[c]["place"].sent # Never \/ recovery

\* A command that the lane calls finished leaves no order of its own working
\* at the venue: what the docstring of advance_and_queue_canary_cancel says of
\* the results it does not cancel.
NoLiveOrderLeftBehind ==
    \A c \in Canaries : cmd[c].state = "terminal" => order[c].status # "open"

=============================================================================

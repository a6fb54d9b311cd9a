----------------------------- MODULE RecoveryLane -----------------------------
(***************************************************************************)
(* The processes that drive the recovery lane, over RecoveryStore: the     *)
(* account safety controller, the recovery dispatcher with its transport,  *)
(* the recovery reconciliation and the parent reconciliation, in the       *)
(* priority order of the executor's tick, with the network and the venue   *)
(* (external) that hold the original request and the recovery requests.    *)
(*                                                                         *)
(* A worker is an executor process.  It runs one handler at a time; after  *)
(* a takeover an old process may still be in a handler, so there may be    *)
(* two.  Fail ends a handler at any step: a killed process and an          *)
(* exception that reaches the tick loop leave the store as it is.          *)
(*                                                                         *)
(* The account snapshot and the order statuses are read one after the      *)
(* other, but a status or fill stamped later than the snapshot is refused, *)
(* so what a handler gets is the venue at the snapshot's instant.          *)
(***************************************************************************)
EXTENDS RecoveryStore

CONSTANTS
    OriginalExpiry,   \* until when the venue may take the original request
    Settlement,       \* how long after its expiry a request may still show up
    MaxEvidenceAge,   \* oldest snapshot a handler may act on
    MaxFailures,      \* bound on handlers that end early
    LastFailure,      \* no failure after this instant
    NoRecovery

ASSUME LaneAssumption ==
    /\ OriginalExpiry \in Nat /\ Settlement \in Nat /\ MaxEvidenceAge \in Nat
    /\ MaxFailures \in Nat /\ LastFailure \in Nat
    /\ NoRecovery \notin Recoveries

VARIABLES
    pc,         \* the step each worker is at
    held,       \* the recovery and fence its handler works on
    view,       \* the venue as it last read it
    original,   \* the parent's request: flying, landed or dead
    book,       \* what the parent's orders have become at the venue
    wire,       \* each recovery request
    sends,      \* how often it was posted
    failures

processVars == <<pc, held, view, failures>>

venueVars == <<original, book, wire, sends>>

vars == <<recoveryVars, processVars, venueVars>>

\* resting: flat, entry working.  orphan: flat, only exits left.  naked: a
\* position without its exact stop.
Books == {"absent", "resting", "naked", "protected", "orphan", "done"}

HasPosition(b) == b \in {"naked", "protected"}

HasOrders(b) == b \in {"resting", "protected", "orphan"}

PositionOf(b) == IF HasPosition(b) THEN 1 ELSE 0

\* The stop's coverage; an orphaned stop still counts.
CoverageOf(b) == IF b = "protected" THEN 1 ELSE 0

Quiet == [book |-> "absent", wire |-> [r \in Recoveries |-> "unsent"], at |-> Never]

Idle == [recovery |-> NoRecovery, token |-> 0]

LaneInit ==
    /\ RecoveryInit
    /\ pc = [w \in Workers |-> "idle"]
    /\ held = [w \in Workers |-> Idle]
    /\ view = [w \in Workers |-> Quiet]
    /\ failures = 0
    /\ wire = [r \in Recoveries |-> "unsent"]
    /\ sends = [r \in Recoveries |-> 0]
    /\ \/ parent.outcome = "unknown" /\ original = "flying" /\ book = "absent"
       \/ original = "landed" /\ book \in {"resting", "naked", "protected", "done"}

Goto(w, step) == pc' = [pc EXCEPT ![w] = step]

Return(w) ==
    /\ Goto(w, "idle")
    /\ held' = [held EXCEPT ![w] = Idle]
    /\ view' = [view EXCEPT ![w] = Quiet]
    /\ UNCHANGED failures

Rec(w) == held[w].recovery

Fence(w) == held[w].token

Fresh(w) == now - view[w].at <= MaxEvidenceAge

\* The rows take an observation that is not older and does not contradict them.
ObservationFits(v) ==
    /\ account.at <= v.at
    /\ account.at = v.at /\ v.at < MaxTime => account.position = PositionOf(v.book)

MayFail == failures < MaxFailures /\ now <= LastFailure

Fail(w) ==
    /\ pc[w] # "idle"
    /\ MayFail
    /\ Goto(w, "idle")
    /\ held' = [held EXCEPT ![w] = Idle]
    /\ view' = [view EXCEPT ![w] = Quiet]
    /\ failures' = failures + 1
    /\ UNCHANGED <<recoveryVars, venueVars>>

(***************************************************************************)
(* The tick: one handler by priority, on a fresh read of the venue.        *)
(***************************************************************************)

\* The kinds of work the scanner derives from the recovery rows and incidents.
ReconcileWork ==
    \E r \in Recoveries : \/ job[r].state \in {"submitted_unknown", "reconciling"}
                          \/ Lapsed(r, now) /\ attempt[r].state # "none"

InFlight ==
    \E r \in Recoveries : job[r].state \in {"claimed", "signing"} /\ ~Lapsed(r, now)

OpenWork == \E i \in Incidents : incident[i] = "open"

Snapshot == [book |-> book, wire |-> wire, at |-> now]

\* The tick scans the store and then reads the venue: the safety controller
\* comes first when an incident is open, otherwise the parent reconciliation.
\* Nothing at the top of the tick normalizes recovery claims.
ReadVenue(w) ==
    /\ pc[w] = "idle"
    /\ ~ReconcileWork /\ ~InFlight
    /\ OpenWork \/ ~parent.terminal
    /\ view' = [view EXCEPT ![w] = Snapshot]
    /\ Goto(w, IF OpenWork THEN "read" ELSE "parent")
    /\ UNCHANGED <<recoveryVars, held, failures, venueVars>>

(***************************************************************************)
(* The account safety controller.                                          *)
(***************************************************************************)

\* Mutant: any terminal fence may be replaced.
SuppressesActive(r) == Active(r)

\* A fence stands in the way of another one unless it is terminal and proven
\* never submitted.
Suppresses(r) ==
    /\ permit[r].kind = "noop_fence" /\ job[r].state # "none"
    /\ ~(job[r].state = "terminal" /\ attempt[r].state \in {"none", "prepared"})

FenceWanted(b) ==
    /\ ~HasPosition(b) /\ ~HasOrders(b)
    /\ incident[Ambiguity] = "open"
    /\ parent.outcome = "unknown"
    /\ ~\E r \in Recoveries : Suppresses(r)

\* The action the controller derives from a snapshot with book b, and the
\* incident it answers: fence, then flatten, then clean up.
Choices(b) ==
    IF RecoveryActive THEN {}
    ELSE IF FenceWanted(b) THEN {<<"noop_fence", Ambiguity>>}
    ELSE LET hazards == {i \in Incidents \ {Ambiguity} : incident[i] = "open"}
         IN IF HasPosition(b)
            THEN {<<"reduce_only_close", i>> : i \in {j \in hazards : b = "naked"}}
            ELSE {<<"cancel_by_cloid", i>> : i \in {j \in hazards : HasOrders(b)}}

\* What the store then accepts; a refusal leaves the account halted.
Allowed(b) == {c \in Choices(b) : PermitAllowed(c[1])}

\* Command ids are hashes: which unused one comes next does not matter.
FreshRecovery == CHOOSE r \in Recoveries : permit[r].state = "none"

\* Mutant: every process decides on its own.
Unlocked == TRUE

\* The file lock that one evaluation holds, until it ends or its process dies.
AccountLockFree == \A w \in Workers : pc[w] # "permitted"

IssuePermit(w) ==
    /\ pc[w] = "read" /\ Fresh(w)
    /\ AccountLockFree
    /\ \E r \in Recoveries : permit[r].state = "none"
    /\ \E c \in Allowed(view[w].book) :
          LET size == IF c[1] = "reduce_only_close" THEN 1 ELSE 0
              r == FreshRecovery
          IN /\ RegisterPermit(r, c[1], c[2], size, size, now)
             /\ held' = [held EXCEPT ![w].recovery = r]
    /\ Goto(w, "permitted")
    /\ UNCHANGED <<view, failures, venueVars>>

\* The preparation is kept in the process's memory for the dispatch that
\* follows in the same tick.
Queue(w) ==
    /\ pc[w] = "permitted"
    /\ QueueRecovery(Rec(w), permit[Rec(w)].issued)
    /\ Goto(w, "dispatch")
    /\ UNCHANGED <<held, view, failures, venueVars>>

\* Mutant: a lapsed claim is left alone as well.
RetirableQueued(r) ==
    /\ permit[r].expires <= now /\ attempt[r].state = "none"
    /\ job[r].state = "queued"

\* An active command that ran out unsent is normalized by the controller, but
\* only out of these two states.
Retirable(r) ==
    /\ permit[r].expires <= now /\ attempt[r].state = "none"
    /\ \/ job[r].state = "queued"
       \/ job[r].state = "claimed" /\ Lapsed(r, now)

Retire(w) ==
    /\ pc[w] = "read" /\ Fresh(w)
    /\ AccountLockFree
    /\ \E r \in Recoveries : Retirable(r)
    /\ NormalizeExpired(now)
    /\ UNCHANGED <<processVars, venueVars>>

\* A queued fence can be prepared again by any process: its evidence is the
\* stored attempt.  A close or cancel cannot: its evidence is the snapshot it
\* was derived from, which died with the process.
ResumeFence(w) ==
    /\ pc[w] = "read" /\ Fresh(w)
    /\ AccountLockFree
    /\ \E r \in Recoveries :
          /\ job[r].state = "queued" /\ permit[r].kind = "noop_fence"
          /\ now < permit[r].expires
          /\ held' = [held EXCEPT ![w].recovery = r]
    /\ Goto(w, "dispatch")
    /\ UNCHANGED <<recoveryVars, view, failures, venueVars>>

(***************************************************************************)
(* The recovery dispatcher and its one-shot transport.                     *)
(***************************************************************************)

Dispatch(w) ==
    /\ pc[w] = "dispatch"
    /\ \E l \in Leases : ClaimNextRecovery(Rec(w), w, now, l)
    /\ held' = [held EXCEPT ![w].token = job'[Rec(w)].token]
    /\ view' = [view EXCEPT ![w] = Quiet]
    /\ Goto(w, "claimed")
    /\ UNCHANGED <<failures, venueVars>>

\* Nothing is left to claim, but the lapsed rows were normalized.
DispatchNone(w) ==
    /\ pc[w] = "dispatch"
    /\ RetiredJob(now)[Rec(w)].state # "queued"
    /\ NormalizeExpired(now)
    /\ Return(w)
    /\ UNCHANGED venueVars

\* With nothing else to do the tick dispatches what is left of a recovery whose
\* incident is no longer open: no preparation is cached, so only the
\* normalization has an effect.
DispatchLeft(w) ==
    /\ pc[w] = "idle"
    /\ ~ReconcileWork /\ ~InFlight /\ ~OpenWork /\ parent.terminal
    /\ NormalizeExpired(now)
    /\ UNCHANGED <<processVars, venueVars>>

Sign(w) ==
    /\ pc[w] = "claimed"
    /\ RequireSigningAuthority(Rec(w), w, Fence(w), now)
    /\ Goto(w, "signed")
    /\ UNCHANGED <<held, view, failures, venueVars>>

Prepare(w) ==
    /\ pc[w] = "signed"
    /\ PrepareAttempt(Rec(w), w, Fence(w), now, permit[Rec(w)].expires)
    /\ Goto(w, "prepared")
    /\ UNCHANGED <<held, view, failures, venueVars>>

Authorize(w) ==
    /\ pc[w] = "prepared"
    /\ RequireSubmissionAuthority(Rec(w), w, Fence(w), now)
    /\ Goto(w, "authorized")
    /\ UNCHANGED <<held, view, failures, venueVars>>

\* The send's time was read before the authority was consumed: a process
\* delayed here posts as late as it likes.
Post(w) ==
    /\ pc[w] = "authorized"
    /\ wire' = [wire EXCEPT ![Rec(w)] = "flying"]
    /\ sends' = [sends EXCEPT ![Rec(w)] = @ + 1]
    /\ Goto(w, "posted")
    /\ UNCHANGED <<recoveryVars, held, view, failures, original, book>>

\* What the poster is told.  A fence that lost the nonce gets an error body.
AnswerTo(r) ==
    CASE wire[r] = "refused" -> "refused"
      [] wire[r] = "dead" -> "lost"
      [] OTHER -> "ok"

Recorded(w, answer) ==
    /\ pc[w] = "posted"
    /\ RecordOutcome(Rec(w), w, Fence(w), now, answer)
    /\ Goto(w, "idle")
    /\ held' = [held EXCEPT ![w] = Idle]
    /\ UNCHANGED <<view, venueVars>>

Record(w) ==
    /\ pc[w] = "posted" /\ wire[Rec(w)] # "flying"
    /\ Recorded(w, AnswerTo(Rec(w)))
    /\ UNCHANGED failures

\* Mutant: whatever came back counts as an answer.
TimeoutIsAnswer(w) ==
    /\ MayFail /\ failures' = failures + 1
    /\ Recorded(w, "ok")

\* The answer does not arrive in time, whatever became of the request.
Timeout(w) ==
    /\ MayFail /\ failures' = failures + 1
    /\ Recorded(w, "lost")

(***************************************************************************)
(* Recovery reconciliation: read, claim, apply.                            *)
(***************************************************************************)

\* A lapsed claim with an attempt is normalized first: a consumed submission
\* authority leaves an unknown outcome, none a command that ended unsent (and
\* a handler that raises, which ends the tick).
NormalizeLapsed(w) ==
    /\ pc[w] = "idle"
    /\ \E r \in Recoveries : Lapsed(r, now) /\ attempt[r].state # "none"
    /\ NormalizeExpired(now)
    /\ UNCHANGED <<processVars, venueVars>>

\* A poll that would read what an incomplete one just read is left out: it
\* would only spend a fencing token.
ReadRecovery(w) ==
    /\ pc[w] = "idle"
    /\ view[w] # Snapshot
    /\ \E r \in Recoveries :
          /\ job[r].state \in {"submitted_unknown", "reconciling"}
          /\ held' = [held EXCEPT ![w].recovery = r]
    /\ view' = [view EXCEPT ![w] = Snapshot]
    /\ Goto(w, "evidence")
    /\ UNCHANGED <<recoveryVars, failures, venueVars>>

ClaimForReconciliation(w) ==
    /\ pc[w] = "evidence" /\ Fresh(w)
    /\ \E l \in Leases : ClaimReconciliation(Rec(w), w, now, l)
    /\ held' = [held EXCEPT ![w].token = job'[Rec(w)].token]
    /\ Goto(w, "apply")
    /\ UNCHANGED <<view, failures, venueVars>>

\* Mutant: a close that is not found counts as gone once it expired.
CloseGoneAtExpiry(r, v) ==
    \/ v.wire[r] \in {"filled", "unfilled"}
    \/ v.at >= attempt[r].expires

\* A close is decided when the venue shows it, or shows nothing although its
\* signed expiry and the settlement time have passed.
CloseDecided(r, v) ==
    \/ v.wire[r] \in {"filled", "unfilled"}
    \/ v.at >= attempt[r].expires + Settlement

\* An open order is not definitive, and neither is an unanswered fence.
Complete(r, v) ==
    CASE permit[r].kind = "reduce_only_close" -> CloseDecided(r, v)
      [] permit[r].kind = "cancel_by_cloid" -> ~HasOrders(v.book)
      [] OTHER -> /\ attempt[r].state = "response_received" \/ attempt[r].refused
                  /\ ~HasOrders(v.book)

Succeeded(r, v) ==
    CASE permit[r].kind = "reduce_only_close" ->
            v.wire[r] = "filled" /\ ~HasPosition(v.book)
      [] permit[r].kind = "cancel_by_cloid" -> ~HasPosition(v.book)
      [] OTHER -> attempt[r].state = "response_received" /\ v.book = "absent"

Apply(w) ==
    LET r == Rec(w)
        v == view[w]
        success == Complete(r, v) /\ Succeeded(r, v)
    IN /\ pc[w] = "apply" /\ Fresh(w)
       /\ \/ /\ ~Complete(r, v)
             /\ ReconcileIncomplete(r, w, Fence(w), now)
             /\ UNCHANGED view
          \/ /\ Complete(r, v)
             /\ ReconcileRecovery(r, w, Fence(w), now, v.at, PositionOf(v.book),
                   CoverageOf(v.book), success, IF success THEN "contained" ELSE "none")
             /\ view' = [view EXCEPT ![w] = Quiet]
       /\ Goto(w, "idle")
       /\ held' = [held EXCEPT ![w] = Idle]
       /\ UNCHANGED <<failures, venueVars>>

\* Evidence that turned stale, or an observation the store refuses, gives the
\* claim back when it is still this worker's.
GiveBack(w) ==
    /\ pc[w] = "apply"
    /\ \/ ~Fresh(w)
       \/ now >= job[Rec(w)].lease
       \/ Complete(Rec(w), view[w]) /\ ~ObservationFits(view[w])
    /\ ReleaseReconciliationClaim(Rec(w), w, Fence(w), now)
    /\ Return(w)
    /\ UNCHANGED venueVars

(***************************************************************************)
(* The parent reconciliation: two transactions.                            *)
(***************************************************************************)

\* All legs missing and nothing open: absent for certain only behind a fence.
ParentEnds(b) ==
    \/ b = "done"
    \/ b = "absent" /\ \E r \in Recoveries : TerminalFence(r)

\* The safety controller has nothing it may do now.
Waiting(w) ==
    \/ ~Fresh(w)
    \/ /\ Allowed(view[w].book) = {}
       /\ \A r \in Recoveries : /\ ~Retirable(r)
                                /\ job[r].state = "queued" => permit[r].kind # "noop_fence"

\* The safety controller did nothing: the parent is read afresh.
TurnToParent(w) ==
    /\ pc[w] = "read" /\ ~parent.terminal
    /\ Waiting(w)
    /\ view' = [view EXCEPT ![w] = Snapshot]
    /\ Goto(w, "parent")
    /\ UNCHANGED <<recoveryVars, held, failures, venueVars>>

\* Recoveries are not looked at again: the scan is all that keeps the two apart.
\* close_noop_fenced_incident finds the incident already closed by the store.
ReconcileEntry(w) ==
    LET b == view[w].book IN
    /\ pc[w] = "parent" /\ Fresh(w)
    /\ \E i \in Incidents :
          /\ b = "naked" \/ i = Ambiguity
          /\ ReconcileParent(PositionOf(b), CoverageOf(b), view[w].at, ParentEnds(b), i)
    /\ Goto(w, "reconciled")
    /\ UNCHANGED <<held, view, failures, venueVars>>

\* Mutant: only the first reconciliation looks for the ambiguity.
AmbiguousAtFirst(w) ==
    /\ ~parent.terminal /\ parent.outcome = "unknown"
    /\ view[w].book = "absent" /\ account.at = 0
    /\ incident[Ambiguity] \in {"none", "closed"}

Ambiguous(w) ==
    /\ ~parent.terminal /\ parent.outcome = "unknown"
    /\ view[w].book = "absent"
    /\ incident[Ambiguity] \in {"none", "closed"}

RecordAmbiguity(w) ==
    /\ pc[w] = "reconciled" /\ Ambiguous(w)
    /\ OpenIncident(Ambiguity)
    /\ Return(w)
    /\ UNCHANGED venueVars

\* The recorded answer to the entry already showed a fill without a resting
\* stop: its incident is there before the first tick.
AnswerShowsHazard(i) ==
    /\ parent.outcome = "response_received" /\ book \in {"naked", "protected"}
    /\ now = 0 /\ account.at = Never /\ \A w \in Workers : pc[w] = "idle"
    /\ i # Ambiguity
    /\ OpenIncident(i)
    /\ UNCHANGED <<processVars, venueVars>>

(***************************************************************************)
(* A handler that finds nothing to do or is refused returns to the tick.   *)
(***************************************************************************)

HoldsClaim(w, states) == HasClaim(Rec(w), w, Fence(w), now, states)

Refused(w) ==
    CASE pc[w] = "read" -> parent.terminal /\ Waiting(w)
      [] pc[w] = "parent" -> \/ parent.terminal \/ ~Fresh(w) \/ ~ObservationFits(view[w])
                             \/ /\ view[w].book = "naked"
                                /\ \A i \in Incidents \ {Ambiguity} : incident[i] # "none"
      [] pc[w] = "permitted" -> \/ RecoveryActive
                                \/ incident[permit[Rec(w)].incident] # "open"
      [] pc[w] = "dispatch" -> RetiredJob(now)[Rec(w)].state # "queued" /\ RetiredJob(now) = job
      [] pc[w] = "claimed" -> \/ ~HoldsClaim(w, {"claimed"})
                              \/ now >= permit[Rec(w)].expires
                              \/ incident[permit[Rec(w)].incident] # "open"
      [] pc[w] = "signed" -> \/ ~HoldsClaim(w, {"signing"})
                             \/ now >= permit[Rec(w)].expires
      [] pc[w] \in {"prepared", "posted"} -> ~HoldsClaim(w, {"signing"})
      [] pc[w] = "evidence" -> \/ ~Fresh(w)
                               \/ ~(job[Rec(w)].state \in {"submitted_unknown", "reconciling"})
                               \/ job[Rec(w)].worker # NoWorker /\ now < job[Rec(w)].lease
      [] pc[w] = "apply" -> ~(job[Rec(w)].worker = w /\ job[Rec(w)].token = Fence(w))
      [] pc[w] = "reconciled" -> ~Ambiguous(w)
      [] OTHER -> FALSE

GiveUp(w) ==
    /\ Refused(w)
    /\ Return(w)
    /\ UNCHANGED <<recoveryVars, venueVars>>

(***************************************************************************)
(* The network and the venue (external).                                   *)
(***************************************************************************)

NonceUsed ==
    \/ original = "landed"
    \/ \E r \in Recoveries : wire[r] = "accepted"

LandOriginal ==
    /\ original = "flying" /\ now < OriginalExpiry /\ ~NonceUsed
    /\ original' = "landed"
    /\ book' \in {"resting", "naked", "protected", "done"}
    /\ UNCHANGED <<recoveryVars, processVars, wire, sends>>

LoseOriginal ==
    /\ original = "flying"
    /\ original' = "dead"
    /\ UNCHANGED <<recoveryVars, processVars, book, wire, sends>>

Arrives(r) == wire[r] = "flying" /\ now < attempt[r].expires + Settlement

LandFence(r) ==
    /\ Arrives(r) /\ permit[r].kind = "noop_fence"
    /\ wire' = [wire EXCEPT ![r] = IF NonceUsed THEN "refused" ELSE "accepted"]
    /\ UNCHANGED <<recoveryVars, processVars, original, book, sends>>

\* Reduce-only: without a position there is nothing to fill.
LandClose(r) ==
    /\ Arrives(r) /\ permit[r].kind = "reduce_only_close"
    /\ \/ /\ HasPosition(book)
          /\ wire' = [wire EXCEPT ![r] = "filled"]
          /\ book' = IF book = "naked" THEN "done" ELSE "orphan"
          /\ UNCHANGED failures
       \/ /\ HasPosition(book) => MayFail
          /\ wire' = [wire EXCEPT ![r] = "unfilled"]
          /\ failures' = IF HasPosition(book) THEN failures + 1 ELSE failures
          /\ UNCHANGED book
    /\ UNCHANGED <<recoveryVars, pc, held, view, original, sends>>

LandCancel(r) ==
    /\ Arrives(r) /\ permit[r].kind = "cancel_by_cloid"
    /\ wire' = [wire EXCEPT ![r] = "canceled"]
    /\ book' = CASE book \in {"resting", "orphan"} -> "done"
                 [] book = "protected" -> "naked"
                 [] OTHER -> book
    /\ UNCHANGED <<recoveryVars, processVars, original, sends>>

LoseRecovery(r) ==
    /\ wire[r] = "flying"
    /\ Arrives(r) => MayFail
    /\ wire' = [wire EXCEPT ![r] = "dead"]
    /\ failures' = IF Arrives(r) THEN failures + 1 ELSE failures
    /\ UNCHANGED <<recoveryVars, pc, held, view, original, book, sends>>

Moves == [resting |-> {"naked", "protected", "done"}, orphan |-> {"done"},
          protected |-> {"naked", "orphan", "done"}, naked |-> {"orphan", "done"}]

VenueMoves ==
    /\ book \in DOMAIN Moves
    /\ book' \in Moves[book]
    /\ UNCHANGED <<recoveryVars, processVars, original, wire, sends>>

(***************************************************************************)
(* The composition.                                                        *)
(***************************************************************************)

Step(w) ==
    \/ ReadVenue(w) \/ IssuePermit(w) \/ Queue(w) \/ Retire(w) \/ ResumeFence(w)
    \/ Dispatch(w) \/ DispatchNone(w) \/ DispatchLeft(w)
    \/ Sign(w) \/ Prepare(w) \/ Authorize(w) \/ Post(w) \/ Record(w)
    \/ NormalizeLapsed(w) \/ ReadRecovery(w) \/ ClaimForReconciliation(w)
    \/ Apply(w) \/ GiveBack(w)
    \/ TurnToParent(w) \/ ReconcileEntry(w) \/ RecordAmbiguity(w) \/ GiveUp(w)

Clock == Tick /\ UNCHANGED <<processVars, venueVars>>

Delivery(r) == LandFence(r) \/ LandClose(r) \/ LandCancel(r) \/ LoseRecovery(r)

LaneNext ==
    \/ Clock
    \/ \E w \in Workers : Step(w) \/ Timeout(w) \/ Fail(w)
    \/ \E r \in Recoveries : Delivery(r)
    \/ \E i \in Incidents : AnswerShowsHazard(i)
    \/ LandOriginal \/ LoseOriginal \/ VenueMoves

LaneSpec == LaneInit /\ [][LaneNext]_vars

\* The service loop ticks again after every tick; requests are delivered or
\* expire, and time passes.
FairLaneSpec ==
    /\ LaneSpec
    /\ WF_vars(Clock)
    /\ \A w \in Workers : WF_vars(Step(w))
    /\ \A r \in Recoveries : WF_vars(Delivery(r))

(***************************************************************************)
(* Refinement.  A consumed submission authority commits a recovery.  A     *)
(* cancel takes no effect that could come late: client order ids are never *)
(* used again, so a cancel finds the orders it names or nothing.           *)
(***************************************************************************)

StageOf(r) ==
    LET sendable == attempt[r].state \in {"none", "prepared"} IN
    CASE job[r].state = "none" -> "none"
      [] Active(r) -> IF sendable THEN "open" ELSE "committed"
      [] OTHER -> IF sendable THEN "void" ELSE "settled"

OneShot == INSTANCE OneShotSubmission WITH
    Commands <- Recoveries,
    stage <- [r \in Recoveries |-> StageOf(r)],
    acted <- [r \in Recoveries |-> wire[r] \in {"accepted", "filled"}]

(***************************************************************************)
(* Properties.                                                             *)
(***************************************************************************)

\* The recovery lane keeps the promise of OneShotSubmission: recoveries are
\* serial, only a consumed authority lets a request act, a recovery that ended
\* unsent never acts, and neither does one whose reconciliation is over, even
\* when a process delayed past its lease posts late (submit_signed_action,
\* _close_proof).  trading_harness_spec.md: "No replacement send until the first
\* action is confirmed terminal or cryptographically/temporally incapable of
\* arriving".
ImplementsOneShot == OneShot!ShotSpec

\* A successful fence decides the race for the nonce: the original request has
\* left nothing at the venue and never will, although it may still be in the
\* network when the fence's proof is applied (_noop_proof).
FenceIsFinal ==
    Fenced => book = "absent" /\ original # "landed"

\* One nonce is fenced by at most one request, ever, and no recovery is sent
\* twice: a fence whose outcome is unknown is never replaced, whatever crashed
\* or lapsed (dispatch_next: "never retry it").
OneFencePerNonce ==
    /\ \A r \in Recoveries : sends[r] <= 1
    /\ Cardinality({r \in Recoveries : permit[r].kind = "noop_fence" /\ sends[r] > 0}) <= 1

\* An incident that was closed stays closed, although the store itself would
\* let a late recovery reconciliation overwrite it (_reconcile_recovery).
ClosedStaysClosed ==
    [][\A i \in Incidents : incident[i] = "closed" => incident'[i] = "closed"]_vars

\* A process died, or took too long, between the signing authority and the
\* attempt: the lapsed command is unsent, but see SigningEnds.
Stranded ==
    \E r \in Recoveries : /\ job[r].state = "signing" /\ attempt[r].state = "none"
                          /\ Lapsed(r, now)

\* An unknown submission that left nothing at the venue gets its one fence: the
\* incident that asks for the fence is recorded in a transaction of its own,
\* after the reconciliation that saw the absence, and a process may die in
\* between (apply_bundle).  A stranded command is the exception.
UnknownIsFenced ==
    (parent.outcome = "unknown") ~>
        \/ book # "absent" \/ Stranded
        \/ \E r \in Recoveries : /\ permit[r].kind = "noop_fence"
                                 /\ attempt[r].state \notin {"none", "prepared"}

\* A position without its exact stop is flattened, through lost requests,
\* unfilled closes, lapsed claims and killed processes, when the submission
\* that opened it was answered and no command is stranded.
NakedIsFlattened ==
    (parent.outcome = "response_received" /\ book = "naked") ~>
        ~HasPosition(book) \/ Stranded

\* The same of every submission, as trading_harness_spec.md says of a partial
\* fill: "an emergency state requiring an immediate bounded reduce-only flatten".
EveryNakedIsFlattened == (book = "naked") ~> ~HasPosition(book) \/ Stranded

\* What the store says of a command whose signing lapsed without an attempt:
\* "Terminalize this exact authority and let safety issue a fresh short-lived
\* one" (_normalize_expired_recovery_locked).
SigningEnds == Stranded ~> ~Stranded

=============================================================================

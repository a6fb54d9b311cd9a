---------------------------- MODULE EntryDispatch ----------------------------
(***************************************************************************)
(* The processes that drive the entry lane, over the store of EntryStore:  *)
(* ExecutionDispatcher.dispatch_next with the one-shot transport           *)
(* (dispatcher.py, hyperliquid_transport.py), the parent reconciliation    *)
(* handler with its coordinator (executor_handlers.py,                     *)
(* reconciliation_coordinator.py, hyperliquid_reconcile.py), the network   *)
(* between them and the venue, and the venue itself (external).            *)
(*                                                                         *)
(* A worker runs one call at a time.  Between any two of its steps the     *)
(* clock, the other workers, the network and the venue may move, and the   *)
(* worker may fail: an exception that reaches the caller and a killed      *)
(* process both leave the store as it is and the worker idle.              *)
(***************************************************************************)
EXTENDS EntryStore

CONSTANTS
    MaxEvidenceAge,   \* oldest account snapshot a reconciliation may apply
    VenueReports      \* leg states the venue's book can move through

ASSUME EvidenceAssumption ==
    /\ MaxEvidenceAge \in Nat
    /\ VenueReports \subseteq LegReports
    /\ Roles \subseteq {"entry", "protective_stop", "take_profit"}

VARIABLES
    pc,       \* the step each worker is at
    held,     \* the command and fence a worker's call is about
    view,     \* the account snapshot and order statuses a worker has read
    wire,     \* the one signed request: unsent, flying, landed, refused, lost
    sends,    \* how many times it was posted
    reply,    \* the venue's synchronous answer
    book,     \* the venue's order states; "absent" until the request lands
    stamp     \* when the venue last changed each order

processVars == <<pc, held, view>>

venueVars == <<wire, sends, reply, book, stamp>>

dispatchVars == <<entryVars, processVars, venueVars>>

AbsentLegs == [r \in Roles |-> [status |-> "absent", filled |-> 0]]

NoView == [position |-> 0, covered |-> 0, orphan |-> FALSE, at |-> Never,
           legs |-> AbsentLegs, complete |-> FALSE]

NoHold == [command |-> NoCommand, token |-> 0]

DispatchInit ==
    /\ EntryInit
    /\ pc = [w \in Workers |-> "idle"]
    /\ held = [w \in Workers |-> NoHold]
    /\ view = [w \in Workers |-> NoView]
    /\ wire = [c \in Commands |-> "unsent"]
    /\ sends = [c \in Commands |-> 0]
    /\ reply = [c \in Commands |-> AbsentLegs]
    /\ book = [c \in Commands |-> AbsentLegs]
    /\ stamp = [c \in Commands |-> [r \in Roles |-> Never]]

Goto(w, step) == pc' = [pc EXCEPT ![w] = step]

\* The call of w ends and forgets what it read.
Return(w) ==
    /\ Goto(w, "idle")
    /\ held' = [held EXCEPT ![w] = NoHold]
    /\ view' = [view EXCEPT ![w] = NoView]

Cmd(w) == held[w].command

Fence(w) == held[w].token

(***************************************************************************)
(* dispatch_next                                                           *)
(***************************************************************************)

BeginDispatch(w) ==
    /\ pc[w] = "idle"
    /\ \E c \in Commands, l \in Leases :
          /\ ClaimNext(c, w, now, l)
          /\ held' = [held EXCEPT ![w] = [command |-> c, token |-> outbox'[c].token]]
    /\ Goto(w, "claimed")
    /\ UNCHANGED <<view, venueVars>>

Preflight(w) ==
    /\ pc[w] = "claimed"
    /\ \E observed \in 0..now : RegisterPreflight(Cmd(w), now, observed)
    /\ Goto(w, "preflighted")
    /\ UNCHANGED <<held, view, venueVars>>

\* A transient route denial puts the unsent claim back.
DeferRoute(w) ==
    /\ pc[w] = "claimed"
    /\ DeferUnsentClaim(Cmd(w), w, Fence(w), now)
    /\ Return(w)
    /\ UNCHANGED venueVars

AttestKey(w) ==
    /\ pc[w] = "preflighted"
    /\ \E t \in 0..now : RecordPreKey(Cmd(w), w, Fence(w), now, t)
    /\ Goto(w, "keyed")
    /\ UNCHANGED <<held, view, venueVars>>

\* The envelope is signed and the claim renewed for the send.
SignAndRenew(w) ==
    /\ pc[w] = "keyed"
    /\ \E l \in Leases : RenewClaim(Cmd(w), w, Fence(w), now, l)
    /\ Goto(w, "signed")
    /\ UNCHANGED <<held, view, venueVars>>

Prepare(w) ==
    /\ pc[w] = "signed"
    /\ \E e \in Times : PrepareAttempt(Cmd(w), w, Fence(w), now, e)
    /\ Goto(w, "prepared")
    /\ UNCHANGED <<held, view, venueVars>>

AttestSend(w) ==
    /\ pc[w] = "prepared"
    /\ \E t \in 0..now : RecordPreSend(Cmd(w), w, Fence(w), now, t)
    /\ Goto(w, "attested")
    /\ UNCHANGED <<held, view, venueVars>>

\* Any failure before the authority is consumed ends in void_unsent_command:
\* a permanent preflight denial, a signing, renewal or attestation failure,
\* a preflight that expired while signing, a revoked submission capability.
GiveUpUnsent(w) ==
    /\ pc[w] \in {"claimed", "preflighted", "keyed", "signed", "prepared", "attested"}
    /\ VoidUnsentCommand(Cmd(w), w, Fence(w), now)
    /\ Return(w)
    /\ UNCHANGED venueVars

ConsumeAuthority(w) ==
    /\ pc[w] = "attested"
    /\ \E u \in Times : RequireSubmissionAuthority(Cmd(w), w, Fence(w), now, u)
    /\ Goto(w, "authorized")
    /\ UNCHANGED <<held, view, venueVars>>

\* Mutant: a timeout is answered by posting the same bytes again.
PostOrRetry(w) ==
    /\ pc[w] \in {"authorized", "posted"}
    /\ now < authority[Cmd(w)].until
    /\ sends[Cmd(w)] < 2
    /\ wire' = [wire EXCEPT ![Cmd(w)] = "flying"]
    /\ sends' = [sends EXCEPT ![Cmd(w)] = @ + 1]
    /\ Goto(w, "posted")
    /\ UNCHANGED <<storeVars, held, view, reply, book, stamp>>

\* The single POST, after the last check of clock, route, lease and roles.
Post(w) ==
    /\ pc[w] = "authorized"
    /\ now < authority[Cmd(w)].until
    /\ wire' = [wire EXCEPT ![Cmd(w)] = "flying"]
    /\ sends' = [sends EXCEPT ![Cmd(w)] = @ + 1]
    /\ Goto(w, "posted")
    /\ UNCHANGED <<storeVars, held, view, reply, book, stamp>>

\* That last check failed: nothing leaves, and the outcome is unknown.
SkipPost(w) ==
    /\ pc[w] = "authorized"
    /\ Goto(w, "posted")
    /\ UNCHANGED <<storeVars, held, view, venueVars>>

\* No usable answer in time: timeout, transport error, bad status or body, or
\* an answer the store refused.
RecordUnknown(w) ==
    /\ pc[w] = "posted"
    /\ \E t \in 0..now : MarkSubmittedUnknown(Cmd(w), w, Fence(w), now, t)
    /\ Return(w)
    /\ UNCHANGED venueVars

RecordResponse(w) ==
    /\ pc[w] = "posted"
    /\ \/ /\ wire[Cmd(w)] = "landed"
          /\ \E t \in 0..now, i \in IncidentIds :
                RecordSubmissionResponse(Cmd(w), w, Fence(w), now, t, reply[Cmd(w)], i)
       \/ /\ wire[Cmd(w)] = "refused"
          /\ \E t \in 0..now : RecordEmptyResponse(Cmd(w), w, Fence(w), now, t)
    /\ Return(w)
    /\ UNCHANGED venueVars

(***************************************************************************)
(* The parent reconciliation handler: read the account, read the orders,   *)
(* claim, apply, record the ambiguity.                                     *)
(***************************************************************************)

\* Signed position the fills of the given orders leave: the entry buys, the
\* other legs are reduce-only.
Net(rows) ==
    rows["entry"].filled - rows["protective_stop"].filled
       - (IF "take_profit" \in Roles THEN rows["take_profit"].filled ELSE 0)

StopOpen(rows) == rows["protective_stop"].status \in {"resting", "partially_filled"}

\* protection_coverage: what a resting stop still covers of an open position.
Covered(rows) ==
    IF Net(rows) # 0 /\ StopOpen(rows)
    THEN Quantity - rows["protective_stop"].filled
    ELSE 0

\* reconcile_next picks a command whose outcome is open and takes the account
\* snapshot first, before any mutation lease.
ReadAccount(w) ==
    /\ pc[w] = "idle"
    /\ \E c \in Commands :
          /\ command[c] \in {"submitted_unknown", "reconciling"}
          /\ held' = [held EXCEPT ![w] = [command |-> c, token |-> 0]]
          /\ view' = [view EXCEPT ![w] =
                 [position |-> Net(book[c]), covered |-> Covered(book[c]),
                  orphan |-> Net(book[c]) = 0 /\ StopOpen(book[c]), at |-> now,
                  legs |-> AbsentLegs, complete |-> FALSE]]
    /\ Goto(w, "account_read")
    /\ UNCHANGED <<storeVars, venueVars>>

\* Mutant: an order the venue does not know counts as settled.
CompleteWhenMissing(c, v) ==
    /\ \A r \in Roles : stamp[c][r] <= v.at
    /\ Net(book[c]) = v.position
    /\ v.position # 0 => v.covered >= Abs(v.position)
    /\ ~v.orphan

\* The order reads come after the account snapshot v, so the two may show
\* different moments.  The evidence is complete when every order is known, no
\* order changed after the snapshot, the fills lead to its position, and the
\* position is covered and leaves no stop behind.
EvidenceComplete(c, v) ==
    /\ \A r \in Roles : book[c][r].status # "absent"
    /\ \A r \in Roles : stamp[c][r] <= v.at
    /\ Net(book[c]) = v.position
    /\ v.position # 0 => v.covered >= Abs(v.position)
    /\ ~v.orphan

ReadOrders(w) ==
    /\ pc[w] = "account_read"
    /\ view' = [view EXCEPT ![w] =
           [@ EXCEPT !.legs = book[Cmd(w)], !.complete = EvidenceComplete(Cmd(w), view[w])]]
    /\ Goto(w, "orders_read")
    /\ UNCHANGED <<storeVars, held, venueVars>>

ClaimForEvidence(w) ==
    /\ pc[w] = "orders_read"
    /\ \E l \in Leases : ClaimReconciliation(Cmd(w), w, now, l)
    /\ held' = [held EXCEPT ![w].token = outbox'[Cmd(w)].token]
    /\ Goto(w, "reconciling")
    /\ UNCHANGED <<view, venueVars>>

\* The protected quantity the evidence states; the coordinator refuses it when
\* the snapshot covers a position whose stop is no longer open.
Protected(v) == IF StopOpen(v.legs) THEN v.covered ELSE 0

ApplyEvidence(w) ==
    /\ pc[w] = "reconciling"
    /\ now - view[w].at <= MaxEvidenceAge
    /\ Protected(view[w]) = view[w].covered
    /\ \E new \in SUBSET {i \in IncidentIds : FreshIncident(i)} :
          Reconcile(Cmd(w), w, Fence(w), now, view[w].at, view[w].complete, Roles,
                    view[w].legs, view[w].position, view[w].covered, new)
    /\ Goto(w, "applied")
    /\ UNCHANGED <<held, view, venueVars>>

\* The evidence was refused: the claim is given back.
RefuseEvidence(w) ==
    /\ pc[w] = "reconciling"
    /\ ReleaseReconciliationClaim(Cmd(w), w, Fence(w), now)
    /\ Return(w)
    /\ UNCHANGED venueVars

\* A second transaction: an unknown submission of which the venue shows no
\* trace becomes a critical ambiguity, once.
Ambiguous(w) ==
    /\ command[Cmd(w)] = "reconciling"
    /\ attempt[Cmd(w)].state = "unknown"
    /\ \A r \in Roles : view[w].legs[r].status = "absent"
    /\ view[w].position = 0
    /\ \A i \in IncidentIds :
          incident[i].command = Cmd(w) => incident[i].code # "ambiguity"

RecordAmbiguity(w) ==
    /\ pc[w] = "applied"
    /\ Ambiguous(w)
    /\ \E i \in IncidentIds : RecordIncident(i, Cmd(w), "ambiguity")
    /\ Return(w)
    /\ UNCHANGED venueVars

FinishReconcile(w) ==
    /\ pc[w] = "applied"
    /\ ~Ambiguous(w)
    /\ Return(w)
    /\ UNCHANGED <<storeVars, venueVars>>

\* The process dies, or an exception reaches the tick loop.
Fail(w) ==
    /\ pc[w] # "idle"
    /\ Return(w)
    /\ UNCHANGED <<storeVars, venueVars>>

(***************************************************************************)
(* The network and the venue (external).                                   *)
(***************************************************************************)

\* The request reaches the matching engine before the expiry it carries.
Land(c) ==
    /\ wire[c] = "flying"
    /\ now < attempt[c].expires
    /\ \E answer \in [Roles -> VenueReports \cap ResponseReports] :
          /\ \A r \in Roles : LegUpdate([status |-> "queued", filled |-> 0], answer[r])
          /\ 0 <= Net(answer)
          /\ book' = [book EXCEPT ![c] = answer]
          /\ reply' = [reply EXCEPT ![c] = answer]
    /\ wire' = [wire EXCEPT ![c] = "landed"]
    /\ stamp' = [stamp EXCEPT ![c] = [r \in Roles |-> now]]
    /\ UNCHANGED <<storeVars, processVars, sends>>

\* It never arrives, arrives after its expiry, or is refused as a whole.
Drop(c) ==
    /\ wire[c] = "flying"
    /\ \E end \in {"lost", "refused"} : wire' = [wire EXCEPT ![c] = end]
    /\ UNCHANGED <<storeVars, processVars, sends, reply, book, stamp>>

\* An order that is still live trades, is canceled or is triggered.
VenueMoves(c) ==
    /\ wire[c] = "landed"
    /\ \E r \in Roles, l \in VenueReports :
          /\ book[c][r].status \notin TerminalLegStates
          /\ l # book[c][r]
          /\ l.status \notin {"absent", "rejected"}
          /\ LegUpdate(book[c][r], l)
          /\ 0 <= Net([book[c] EXCEPT ![r] = l])
          /\ book' = [book EXCEPT ![c][r] = l]
          /\ stamp' = [stamp EXCEPT ![c][r] = now]
    /\ UNCHANGED <<storeVars, processVars, wire, sends, reply>>

(***************************************************************************)
(* The specification.                                                      *)
(***************************************************************************)

\* Tickets, approvals and the maintenance at the top of every service tick.
ServiceStep ==
    /\ \/ RegisterInfrastructureGrant(now)
       \/ NormalizeExpiredEntryClaims(now)
       \/ \E c \in Commands :
             \/ RegisterTicket(c, now)
             \/ RegisterApproval(c)
             \/ Admit(c, now)
             \/ ExpireNextQueuedUnsent(c, now)
    /\ UNCHANGED <<processVars, venueVars>>

WorkerStep(w) ==
    \/ BeginDispatch(w)
    \/ Preflight(w)
    \/ DeferRoute(w)
    \/ AttestKey(w)
    \/ SignAndRenew(w)
    \/ Prepare(w)
    \/ AttestSend(w)
    \/ GiveUpUnsent(w)
    \/ ConsumeAuthority(w)
    \/ Post(w)
    \/ SkipPost(w)
    \/ RecordUnknown(w)
    \/ RecordResponse(w)
    \/ ReadAccount(w)
    \/ ReadOrders(w)
    \/ ClaimForEvidence(w)
    \/ ApplyEvidence(w)
    \/ RefuseEvidence(w)
    \/ RecordAmbiguity(w)
    \/ FinishReconcile(w)
    \/ Fail(w)

VenueStep == \E c \in Commands : Land(c) \/ Drop(c) \/ VenueMoves(c)

DispatchNext ==
    \/ Tick /\ UNCHANGED <<processVars, venueVars>>
    \/ /\ UNCHANGED now
       /\ \/ ServiceStep
          \/ \E w \in Workers : WorkerStep(w)
          \/ VenueStep

DispatchSpec == DispatchInit /\ [][DispatchNext]_dispatchVars

(***************************************************************************)
(* Refinement: the submission authority commits an entry, and its request  *)
(* acts when the venue takes it.                                           *)
(***************************************************************************)

StageOf(c) ==
    CASE command[c] = "none" -> "none"
      [] command[c] = "terminal" -> IF authority[c] = NoAuthority THEN "void" ELSE "settled"
      [] OTHER -> IF authority[c] = NoAuthority THEN "open" ELSE "committed"

OneShot == INSTANCE OneShotSubmission WITH
    stage <- [c \in Commands |-> StageOf(c)],
    acted <- [c \in Commands |-> wire[c] = "landed"]

(***************************************************************************)
(* Properties.                                                             *)
(***************************************************************************)

\* The entry lane keeps the promise of OneShotSubmission: entries are serial,
\* and a request acts at most once, between the consumption of its authority
\* and the end of its command, whatever lapses, crashes or is read late.
ImplementsOneShot == OneShot!ShotSpec

\* However workers crash, lose their lease or race, the signed bytes of a
\* command are posted at most once, and only after the store recorded the
\* authority to do so.
AtMostOneSend ==
    \A c \in Commands : /\ sends[c] <= 1
                        /\ sends[c] = 1 => authority[c] # NoAuthority

\* The reservation of an entry is released only when its request can no
\* longer trade: no worker is about to post it, it is not on the wire, and
\* what it left at the venue is over and flat, even when the account and the
\* orders were read at different moments and applied later.
ReleasedRiskCannotTrade ==
    \A c \in Commands :
       command[c] = "terminal" =>
          /\ \A w \in Workers : Cmd(w) = c => pc[w] # "authorized"
          /\ wire[c] # "flying"
          /\ wire[c] = "landed" =>
                /\ \A r \in Roles : book[c][r].status \in TerminalLegStates
                /\ Net(book[c]) = 0

\* The preflight that justifies a prepared attempt was observed under the very
\* claim that sends it, not under an earlier claim that lapsed or was deferred.
PreflightObservedUnderClaim ==
    \A c \in Commands :
       command[c] = "claimed" /\ attempt[c].state = "prepared" =>
          outbox[c].claimedAt <= preflight[c]

\* Every command whose submission outcome is open can be reconciled from the
\* venue's present state of its orders.
OutcomeIsReconcilable ==
    \A c \in Commands :
       command[c] \in {"submitted_unknown", "reconciling"} =>
          \A r \in Roles : LegUpdate(legs[c][r], book[c][r])

=============================================================================

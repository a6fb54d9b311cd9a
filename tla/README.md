# A formal model of the HyperGrok trading desk

The repository is a trading harness for one Hyperliquid account. Its core is a
durable execution store (SQLite) through which a human-approved, protected
entry (an entry order with a protective stop and a take-profit, submitted as
one signed action) is admitted, dispatched **once**, reconciled with the venue
and retired. Around it stand an executor service, a chat approval chain, a
qualification lane, a recovery lane for accidents, research and learning
ledgers, and route and role attestation.

This directory holds TLA+ modules that model that core, TLC configurations
that check small instances of them, and TLAPS proofs. `PROJECT.json` maps every
definition to the source lines it stands for and lists components, runs,
mutants, hazards, findings and theorems. Paths below are relative to
`src/src/trading_harness/` unless they begin with `src/`.

## 1. Inventory

### The execution store, entry lane (`execution_store.py`)

*State.* Infrastructure grants, tickets, approvals, commands, the outbox (state,
worker, fencing token, lease), preflights, role attestations (PRE_KEY and
PRE_SEND), submission attempts, submission authorities, legs, positions,
protection, incidents and one exposure row per account.

*Operations.* Register grant, ticket and approval; revoke an approval; admit
(directly or by chat handoff); claim, renew, defer, expire, void; register a
preflight, attest roles, prepare the attempt, consume the submission authority;
record the outcome (unknown, or a response); claim, apply or release a
reconciliation; open incidents; normalize expired claims.

*Hard behaviour.* Every operation is one transaction, but an entry's life
takes a dozen of them, made by workers that may die or lose their lease in
between. Claims lapse and are handed on, and old holders keep calling with old
tokens. Four different operations give a reservation back. Between the
consumption of the submission authority and the recorded outcome nobody knows
whether the request left.

*Correct when* new risk is serialized; the exposure row is exact; what may have
been sent is never treated as unsent; a claim changes hands only when it has
lapsed; a badly protected position always halts the account, and the halt lifts
only when the account is flat; abandoned risk is given back.

### Dispatcher and one-shot transport (`dispatcher.py`, `hyperliquid_transport.py`)

`dispatch_next` claims a command, gathers the preflight, attests roles, signs,
renews the claim, prepares the attempt, attests again, consumes the authority,
posts once and records the outcome. Every failure before the authority voids
the command; every failure after it makes the outcome unknown. *Hard:* crash at
any step, a timeout while the request is on the wire, expiry of the lease
between the authority and the POST. *Correct when* the bytes leave at most once.

### Parent reconciliation (`executor_handlers.py`, `reconciliation_coordinator.py`, `hyperliquid_reconcile.py`, `hyperliquid_account.py`)

Reads the account, then the orders, then claims, then applies the evidence, and
in a further transaction records an ambiguity. *Hard:* the two reads see
different moments of the venue, the evidence may be stale when applied, the
process may die between the transactions, and the request it inquires about may
still be on its way. *Correct when* a reservation is released only if the
request can no longer trade.

### The other lanes and services

| Component | State and operations | Hard behaviour and what makes it correct |
|---|---|---|
| Recovery lane (`execution_store.py` from line 12024, `recovery_dispatcher.py`, `recovery_reconciliation.py`, `hyperliquid_recovery*.py`) | permits, recovery commands with claims, signing and submission authority, a no-op fence that spends the nonce of an unknown request, cancels, reduce-only closes, containment of incidents | one accident action at a time; a fence or close whose own outcome is unknown; a request posted late by a process past its lease; an incident closed only after it is contained and flat |
| Account safety (`account_safety_controller.py`, `account_risk.py`) | under a file lock, chooses the one safety action from a frozen snapshot | acts on stale snapshots; must fence an unknown parent before anything else; must not be blocked for good by a dead process |
| Runtime store (`executor_runtime_store.py`) | one row: owner, fencing token, lease, process state, risk gate, manual halt; acquire, heartbeat, transition, halt and unhalt, stop, release | two processes on one state directory, a halted owner that dies; ownership moves only after the lease, a halt outlives its owner |
| Runtime and service (`executor_runtime.py`, `executor_service.py`, `executor_cli.py`) | start-up, tick with a priority of lanes, the gate, the entry submission guard, halts, signals, shutdown drain | a signal or a takeover while an entry is about to be sent; a halt that cannot be written; a send only under one's own reconciled token; a process told to stop ends |
| Nonces (`nonce.py`) | last nonce of a signer, reservations per qualification phase; two allocation paths | crash after the commit, wall clock stepping back; no nonce twice, one nonce per phase |
| Qualification lane (`qualification_store.py`, `qualification_cancel_store.py`, `testnet_qualification.py`, `qualification_transport.py`, `qualification_cli.py`) | canary commands (place, query, cancel), the one attended successor of an unsent cancel, the attended close, preemption by a recovery; shares the account's exposure row and gate with the entry lane | two reads of a moving order; a POST that begins after its command was preempted; five ways to release a reservation; the reservation outlives every exposure |
| Chat approval and handoff (`testnet_chat_*.py`, `executor_chat_*.py`) | proposals, one-time approvals, deliveries, handoff rows across processes | duplicated and late deliveries; one approval admits at most one command |
| Daily loss (`daily_loss.py`, `hyperliquid_loss_sync.py`) | loss ledger per day | day boundary; a partial sync must not read as no loss |
| Paper OMS and local store (`paper.py`, `store.py`) | paper orders, fills, events | replay of the same event |
| Research, staging, shadow (`research_store.py`, `node.py`, `staging_inbox.py`, `shadow_store.py`) | work items, an inbox of files, shadow decisions | claims on work items; files replaced between check and use |
| Learning ledger (`learning_ledger.py`, `execution_learning_sync.py`) | append-only projections of execution events | catching up after a crash without gaps or duplicates |
| Artefacts and checks (`execution_grant.py`, `approval.py`, `dispatch_preflight.py`, signers, wire encoding, route and VPN health) | immutable records, cryptography, OS probes | pure; they appear in the models as guards or free choices |

*Interactions.* The dispatcher, the reconciler, the qualification lane and the
recovery lane meet only in the store: its tables, its account-wide admission
gate and its fencing tokens are their shared state. The service calls the lanes
in a fixed priority order once per tick and runs the store's maintenance first.
The venue is reached through one POST per command and through read-only queries.

## 2. Modules

| Module | Models |
|---|---|
| `EntryStore` | the store's entry lane; one action per operation |
| `EntryStoreProofs` | the inductive invariant of `EntryStore` and the theorems |
| `MCEntryStore` | values for TLC: runs `entry_pair`, `entry_claims` |
| `EntryDispatch` | extends `EntryStore` with the workers that drive it, the network and the venue |
| `EntryDispatchProofs` | the invariant of `EntryDispatch`, its theorems and the refinement of `OneShotSubmission` |
| `MCEntryDispatch` | values for TLC: runs `entry_dispatch`, `late_acceptance` |
| `OneShotSubmission` | the abstract promise of a send; `EntryDispatch` and `RecoveryLane` implement it |
| `RecoveryStore` | the store's recovery lane; one action per transaction |
| `RecoveryStoreProofs` | the invariant of `RecoveryStore` under arbitrary callers |
| `RecoveryLane`, `MCRecoveryLane` | extends `RecoveryStore` with safety controller, recovery dispatcher, both reconciliations, network and venue; runs `recovery_lane`, `recovery_live`, `unknown_naked`, `lost_signing` |
| `RecoveryLaneProofs` | the invariant of `RecoveryLane`, its theorems and the refinement of `OneShotSubmission` |
| `RuntimeStore` | the runtime row of `executor_runtime_store.py` |
| `RuntimeStoreProofs` | the invariant of `RuntimeStore` and its theorems |
| `ExecutorRuntime`, `MCExecutorRuntime` | extends `RuntimeStore` with the processes of `executor_runtime.py` and `executor_cli.py`; run `executor` |
| `ExecutorRuntimeProofs` | the executor as a caller of the runtime store, and what its processes know |
| `NonceAllocator`, `MCNonceAllocator` | the nonce allocator of `nonce.py`; run `nonces` |
| `NonceAllocatorProofs` | the invariant of `NonceAllocator` and its theorems |
| `QualificationLane`, `MCQualificationLane` | the qualification lane with its processes, network and venue; runs `qualification`, `live_remainder` |
| `QualificationLaneProofs` | the invariant of `QualificationLane` and its theorems |

`NonceAllocator` stands alone: it models a database of its own, whose only tie
to the lanes is that their signers call it. The lanes of the execution store
each carry the others as far as they meet in the store: `EntryStore` has the
reservation and the gate of the qualification lane and the recovery rows it
reads, `RecoveryStore` the parent as its own operations see it, and
`QualificationLane` an incident that may be open and a recovery that may be alive.

### EntryStore: state and actions

A ticket, its plan, its approval and its command determine one another (each
reference is UNIQUE in the schema), so one member of `Commands` names all four.
The variables are the tables: `ticket`, `approval`, `command` and `outbox` hold
the state columns, `outbox` also worker, token, claim time and lease;
`preflight`, `preKey`, `preSend`, `attempt` and `authority` the evidence of the
one send; `legs`, `position`, `protection` and `incident` what is known of the
venue; `reserved` is the exposure row; `qualification` is the other lane as far
as it shares that row and the gate.

A method that raises rolls its transaction back, so a raise is a disabled
action; a method that returns without writing is a stutter. `claim_next` and
`claim_reconciliation` normalize expired claims and claim in the same
transaction, and so do `ClaimNext` and `ClaimReconciliation` (through
`NormalizeRows`, `NormalCommand` and `NormalOutbox`). `TerminateUnsent` is the
common write of expiry and void; `Finish` that of a terminal reconciliation;
`Reconcile` covers the whole method: leg updates, position, protection, hazards,
terminal decision, closing of incidents and release of the claim.

Time is a natural number. Callers read the clock before the write lock is
granted, so an operation may bring a reading up to `MaxSkew` old (`Readings`).
Callers are open: any worker may call any operation with any token. That makes
`EntryStore` a claim about the store alone, whatever its callers do.

*Data abstraction.* A leg is a status and a cumulative fill between 0 and
`Quantity`; a position is a signed number; a loss is a natural number (the
notional cap repeats the loss cap and is not modelled twice). Incident codes are told apart only as far as
the store tells them apart: the all-missing ambiguity and everything else.
Canonical JSON, hashes, hash chains and signatures are identities that either
match or raise.

*Left out of the store.* The append-only fill ledger (`_put_fill_locked`) and
non-critical incidents (`update_incident`), which decide nothing here; the
gate on an active cancel reauthorization (it is in `QualificationLane`); the
recovery lane, whose rows are read as a gate (`recovery`, `RecoveryActive`).
Incidents in state "contained" arise only in that lane; `Settled` treats them
already.

### EntryDispatch: processes, network, venue

Each worker has a program counter (`pc`), the command and fence its call is
about (`held`) and the evidence it has read (`view`). One action is one step of
`dispatch_next`, `submit_signed_action` or the reconciliation handler: each
either is a store transaction or a read or the POST. Between any two steps the
clock, the other worker, the network and the venue may move, and `Fail` may end
the call: a killed process and an exception that reaches the tick loop look the
same to the store. The venue (`Land`, `Drop`, `VenueMoves`) is external: it
accepts a request until the signed expiry, may refuse or never see it, and then
moves its orders freely within what `LegUpdate` calls legal. `ReadAccount` and
`ReadOrders` are two actions, as in the code, so torn reads are possible;
`EvidenceComplete` holds the code's tests for them. Order statuses and fills are
read in one action, while the code also bounds the fills by the snapshot's time.

### OneShotSubmission: what a lane promises

Commands of an account are alive one at a time; a command is committed to its
send by one transaction, or ends void; its request takes effect at most once,
after the commitment and before the command is settled. There are no leases,
clocks, processes or networks in it. In both lanes the refinement maps a
consumed submission authority to the commitment and the venue's acceptance to
the effect, so `ImplementsOneShot` contains: a command voided or settled while
its request can still act is a behaviour the abstract specification does not have.

### RecoveryStore and RecoveryLane

A recovery has exactly one permit, outbox row, signing authority and attempt, so
one member of `Recoveries` names all of them. `parent`, `incident` and `account`
are the rows that the entry lane and the recovery lane share. `RecoveryLane` adds
the executor processes: `pc`, the recovery and fence a handler works on (`held`)
and what it has read (`view`). A tick evaluates safety under the account's file
lock, then runs the parent reconciliation, the recovery reconciliation and the
recovery dispatch in the priority order of `executor_runtime.py`; each store
transaction, read and POST is a step of its own. The venue is a *book*, one
of six classes of what the parent's orders have become (absent, resting, naked,
protected, orphan, done), because the controller, the proofs and the
reconciliations tell no more apart. `original` is the parent's request, which may
still be on its way when recovery begins; `wire` is each recovery request.
`Fail` ends a handler at any step, `Timeout` loses an answer. A close may be
filled or not; a request is taken until its signed expiry and may show up for
`Settlement` after it.

### RuntimeStore and ExecutorRuntime

`row` is the single row of `executor_runtime_state`; a row with lease
`not_started` stands for its absence, as in the read model. Each operation that
writes the row is an action with all its guards, in terms of any instance,
token, revision and clock reading a caller may bring; a raise is a disabled
action, and so is a call that returns the lease unchanged. `LeaseAuthority` is
`_lease_authority`, `NotBackwards` the refusal of a clock reading older than the
row. `RowReadable` states the checks of `_state_from_row`, which the store runs
on what it has just written; the model does not use them as guards, so that the
property says the operations' own guards are enough. The event journal, its hash
chain and the configuration binding are left out.

`ExecutorRuntime` puts the processes on top: `exe` holds each one's program
counter and the attributes of its `ExecutorRuntime` object (lease token,
start-up flag, shutdown flag, lock and active flag of the submission guard) and
the stop event of `_run`. A tick is a sequence of actions, so a signal, a crash, an
operator's halt or acknowledgement and another process can come between any two
store calls. Scanner, loss ledger, route and handlers give any answer at any time,
and any store call may fail whatever the row says: that is how a refused halt,
a lost lease and a full disk enter. `reconciled` and `failed` are history.

### NonceAllocator

`last` is the watermark, `reservation` the reservation table, and `call` the
step, clock reading and committed nonce of each call that is ever made. A call
reads the clock before it waits for the write lock, so `ReadClock` and the two
allocations are different actions; `Instants` is a set from which every reading
is chosen freely, which includes a clock that steps back. `Crash` may end a call
before or after its commit. One signer on one network is modelled, since no
statement of the code relates two.

### QualificationLane

`cmd` is the command row with its workflow, `step` a step per phase with its
signing and submission authority, `claim` the outbox claim, `query` the retained
reads, `reauth` the successor of a canary's cancel, `exposure` the shared row
counted in canaries. Processes of the `run` command (`proc`) claim, sign, prepare,
authorize, post and record; everything that any process may do (reads, advance,
finish, halts, normalization) names no process. The venue opens, fills unit by
unit, cancels and rejects orders by itself. `PreemptedStep` and `QueueRecovery`
are the one transaction in which account safety takes the lane over.

Four simplifications. `response_received` and `unknown` are one state, because
no statement tells them apart. The admission reads and the transaction that
uses them are one step: what the venue does in between commutes with it. Query
rows are forgotten once consumed and so is the fence of a finished command,
because neither is looked at again. The venue and the processes share one clock.

## 3. Runs

| Run | Instance | Shows |
|---|---|---|
| `entry_pair` | 2 tickets, 1 worker, quantity 2, partial fills, wrong-side positions, qualification lane, clock to 2 | `RowsAgree`, `OneNonterminalCommand`, `ReservationExact`, `AttemptBelongsToClaim`, `AuthorizedIsNeverUnsent`, `BadProtectionHalts`, `HaltLiftsOnlyFlat` |
| `entry_claims` | 1 ticket, 2 workers, stale clock readings (`MaxSkew` 1), 3 tokens, clock to 4, fairness | `ClaimsLapseBeforeTheyMove`, `OnlyFlatEvidenceEndsSent`, `UnsentRiskIsReleased` |
| `entry_dispatch` | 1 ticket, 2 workers, network and venue, crashes, 3 tokens, a preflight that outlives its claim | `AtMostOneSend`, `ReleasedRiskCannotTrade`, `PreflightObservedUnderClaim`, `ImplementsOneShot` |
| `late_acceptance` | as `entry_dispatch`, with a signed expiry that outlives the POST | a violation of `OutcomeIsReconcilable`; see section 5 |
| `recovery_lane` | 2 recoveries, 2 incidents, 2 processes in handlers at once, network and venue, clock to 2 | `RecoveryTypeOK`, `OneFencePerNonce`, `FencedBeforeOtherActions`, `ClosedStaysClosed`, `RecoveryPassesWhileAlive`, `ImplementsOneShot` |
| `recovery_live` | 4 recoveries, 1 process, 1 failure at any step, fairness | `FenceIsFinal`, `UnknownIsFenced`, `NakedIsFlattened` |
| `unknown_naked` | as `recovery_live`, no failure | a violation of `EveryNakedIsFlattened` |
| `lost_signing` | as `recovery_live` | a violation of `SigningEnds` |
| `executor` | 2 processes, 2 acquisitions of the row, leases of 1, drain of 1 step, crashes, signals, failing calls, fairness | `ExecutorTypeOK`, `RowReadable`, `ReadyWasReconciled`, `HaltOutlivesOwners`, `RuntimeMovesWhenLapsed`, `SendsUnderOwnAuthority`, `StopEndsProcess` |
| `nonces` | 2 plain and 3 qualification calls, 2 phases, 2 authorities, 3 instants | `NoncesUnique`, `OneNoncePerPhase`, `ReservationsBelowWatermark` |
| `qualification` | 1 canary of 2 units, 1 attended close, 1 process, clock to 2, fairness | `QualTypeOK`, `ReservedWhileExposed`, `ExposureExact`, `OneMutationAtATime`, `UnsentWasNeverSent`, `GrantedOnce`, `UnsentCanaryIsFreed` |
| `live_remainder` | as `qualification` | a violation of `NoLiveOrderLeftBehind` |

The type invariants `TypeOK`, `RuntimeTypeOK` and `NonceTypeOK` are proved and not
run.

*Deadlock* is not checked: the clock, the tokens and the number of tickets,
recoveries, calls and starts are bounded, so a model can come to a natural end,
and the store may really be idle for ever.

*Bounds.* `MaxTime`, `MaxToken`, `MaxSkew`, `IncidentIds`, `MaxFailures`,
`MaxStarts` and `LastCanary` bound the search.

* Two tickets are enough for the account gate, which compares pairs. Two workers
  are enough for fencing, which compares the holder with one other. Three tokens
  let a command be claimed, lapse, be claimed again and be reconciled. The clock
  runs past the lease, the preflight and the entry's expiry in every run that
  needs it: with a lease of one instant and a clock to 2 every timer expires. Two
  roles (entry and protective stop) stand for the three of a plan, because the
  take-profit is treated exactly as the stop is by every rule except protection.
* The recovery lane is searched twice. In `recovery_lane` two processes
  interleave, and a process that never moves again takes the place of a failure
  (`MaxFailures` 0); two recoveries are enough for a fence and what follows
  it. In `recovery_live` four recoveries let closes go unfilled or get lost and
  be replaced until the clock ends, and the one failure may hit any step of any
  handler at the first instant (`LastFailure` 0), so that the recovery from it
  fits before the end of time.
* In `executor` processes never stop ticking, so the row's revision has no bound
  worth naming. Its value decides nothing but an equality that the operator's
  acknowledgement reads from the row itself, and the run's `VIEW` leaves it out;
  states that differ only there have the same steps. Two acquisitions let one
  process be held up anywhere while the other goes all the way to a send.
* In `qualification` one canary, its successor and one close are all the mutations
  that can follow one another before the reservation is decided. One process is
  enough because a step can only be held by one claim at a time, a crash makes
  the process available again, and everything that other processes may do to the
  command names no process. A canary is admitted at instant 0 only
  (`LastCanary`), so that its lease and expiry pass before the clock ends. Size 2
  gives partial fills. `MaxReserved` 1 is the cap of one canary.
* Three qualification calls of the nonce allocator give every way two of them can
  share a phase or an authority.

Workers, and incident rows of the entry lane, are symmetric in the runs without
fairness that have several.

*Fairness.*

* `entry_claims`: weak fairness of `Tick`, `NormalizeExpiredEntryClaims` and
  `ExpireNextQueuedUnsent`: `ActiveTestnetExecutorService.tick`
  (`executor_service.py:626`) runs both maintenance calls first in every tick,
  "independently of route health". No worker, reconciler or operator is
  assumed to do anything.
* `recovery_live`, `unknown_naked`, `lost_signing`: weak fairness of the clock, of
  the one process's next step (the loop ticks again after every tick, and the
  supervisor restarts it) and of the delivery of each recovery request, which
  may be a loss. Nothing is assumed of the venue's own moves or the original request.
* `executor`: weak fairness of each started process's next step, since every
  call returns or raises. No start, operator, signal or clock is fair.
* `qualification`: weak fairness of the clock and of `Normalize`, which `recover`
  and every `run` make first (`qualification_cli.py`). No send is fair.

*Mutants.* Each property has a mutated definition that breaks it (marked
"Mutant" in the modules): a dropped guard, a forgotten row, a retried POST.

## 4. Proofs

Every safety property that a run checks is also a theorem, for every value of the
constants that satisfies the assumptions named below: any number of tickets,
recoveries, canaries, workers and processes, any clock, lease, skew and bound.
The assumptions are types of the constants, distinct model values, and the sets
that reports and positions are taken from; TLC evaluates them in every run.

Each module first states an inductive invariant (`EntryInv`, `RuntimeInv`,
`ExecutorInv`, `DispatchInv`, `RecoveryInv`, `RecoveryLaneInv`, `QualInv`), shows in
one lemma per operation that it is kept, joins the lemmas for the next-state
relation, and derives the properties. The invariants were checked with TLC on the
instances of section 3 before they were proved.

### The entry store (`EntryStoreProofs`)

From `ConstantsAssumption` and `ReportsAssumption`:

* `TypeCorrect`, `RowsAlwaysAgree`, `RiskIsSerialized`, `ReservationIsExact`,
  `AttemptStaysWithClaim`, `AuthorizedNeverUnsent`: types and the invariants of the runs;
* `BadProtectionAlwaysHalts`, an invariant of its own on top of `TypeOK`;
* `SentEndsOnlyFlat`, `HaltsLiftOnlyFlat`, `ClaimsMoveOnlyWhenLapsed`: the
  action properties.

*The inductive invariant* `EntryInv` is the conjunction of the first six with
two facts no run names. None of the parts is inductive alone. That the exposure
is a natural number needs `ReservationExact`, since a release subtracts;
`ReservationExact` needs `OneNonterminalCommand`, since a release subtracts one
command's loss from a sum, and `RowsAgree`, since the operations look at
different rows of the same entry. `AuthorizedIsNeverUnsent` needs
`AuthorityNeedsAttempt` (an authority exists only beside an attempt): an expired
claim *without* an attempt is queued again, so an authority without one would
let a sent command be sent twice. `OnlyClaimsNameWorkers` (a free outbox row
names no worker) is what the claim-lapse property rests on.

Normalization is the hard case, since it rewrites every expired claim at once:
`NormalizedRow` states its effect on one command branch by branch,
`NormalizedRows` proves it, and the two claiming operations build on that.

### The entry dispatcher (`EntryDispatchProofs`)

From `EvidenceAssumption` besides: `SentAtMostOnce`, `PreflightUnderOwnClaim`,
`ReleasedCannotTrade`, and the refinement `DispatchImplementsOneShot`.

`DispatchInv` is `EntryInv`, which the workers keep because each of their steps is
an operation of the store or leaves it alone, and `LaneInv`:

* `PosterIsAlone` and `WireFollowsSends`: a worker about to post holds the consumed
  authority alone, and nothing was posted. `AtMostOneSend` needs them, because
  the store's rows do not say who holds an authority in memory.
* `FenceIssued` and `PreflightHeld`: a worker's fence is never ahead of the row's, so a
  worker whose claim is the row's claim is the one that observed the preflight.
  Without the bound a stale worker could match a later claim by accident.
* `EvidenceStands`: what complete evidence shows as terminal is still so. This makes
  torn and late reads harmless: only terminal legs and their sum decide an end.
* `EndedIsOver`: a command that ended was never posted, or its orders are over and
  add up to nothing. This is what the refinement and `ReleasedRiskCannotTrade` rest on.

*The refinement* goes through one lemma per kind of step about the *stages* of the
abstract specification: `OneStageMoves` turns a step that moves the stage of one
command into a step of `OneShotSubmission`, `NoStageMoves` the others into stutters.

### The recovery store (`RecoveryStoreProofs`)

From `RecoveryAssumption`, for callers that may do anything: `RecoveryTypeCorrect`,
`OtherActionsFenced`, `RecoveryPassesOn`. `RecoveryInv` adds `RowAgrees` (permit, row
and attempt of a recovery), `Serial`, and `PermittedBehindFence`: the gate is looked
at when the permit is given and not again when the action is queued, so the property
about actions is inductive only as one about permits. `RowKept` is what each
transaction leaves alone; the action properties follow from it.

### The recovery lane (`RecoveryLaneProofs`)

From `LaneAssumption` besides: `LaneTypeCorrect`, `LaneFencesFirst` and `LanePassesOn`
(the store's properties in the lane), `FencedOnce`, `FenceDecides`,
`IncidentsStayClosed`, and the refinement `LaneImplementsOneShot`. The parts of
`LaneInv` beside the types and the workers' places:

* `OneLiveFence` with `PermitLock`. The store tests for a fence in the way before the
  permit and not at insertion; between the two one process holds the lock, no
  recovery is alive and no fence suppresses the one that was permitted. This is the
  argument why the file lock is enough.
* `WireFollows` and `BookFollows`: a fence that was accepted, or recorded or proved as
  successful, was decided by the venue while the original request had not landed.
  `FenceIsFinal` follows, because one nonce takes effect once.
* `EndedIsOver`: a recovery that ended while its request may still be about ended after
  the request's expiry and settlement time. The refinement needs it for the process
  that posts past its lease.
* `IncidentHeld`: an incident stays open while its recovery is alive, except the
  ambiguity under a fence whose original did land. `ClosedStaysClosed` needs it.
* `ViewPast`: what a worker read was true at an earlier moment, and the parts of it
  that are acted on stay true.

### The runtime store and the executor (`RuntimeStoreProofs`, `ExecutorRuntimeProofs`)

From `RuntimeAssumption`: `RowAlwaysReadable`, `RuntimeTypeCorrect`,
`HaltsOutliveOwners` and `RuntimeHandsOverWhenLapsed`. Types and `RowReadable`
together are inductive. The action properties rest on one lemma about a write of
the row, `WriteKeepsOrHandsOver`, which needs `RowReadable`: that lifting a halt
leaves the gate shut holds only because a halted row always has its gate shut.

From `ExecutorAssumption` besides: `ExecutorImplementsStore` shows every step of the
processes to be an operation of the runtime store or none, and carries its theorems
over (`ExecutorRowReadable`, `ExecutorHaltsOutliveOwners`,
`ExecutorHandsOverWhenLapsed`). `ExecutorTypeCorrect`, `ReadyOnlyReconciled` and
`SendsAuthorised` rest on `ExecutorInv`: `Fenced` says that a process's token was
issued and that, while it is the row's, the process remembers only a reconciliation
done under it; `Sound` that a failure leads only to the shutdown and that every tick
after a signal knows of it. Without `Fenced` a process that lost the row and the
flag of an earlier start could open the gate under a token it never reconciled.

### The nonce allocator (`NonceAllocatorProofs`)

From `NonceAssumption`: `NonceTypeCorrect`, `NoncesAlwaysUnique`,
`PhasesNumberedOnce` and `StartupVerificationPasses`. The invariant adds two facts:
every committed nonce is at most the watermark (`CommittedBelowWatermark`), without
which a larger watermark would say nothing about older nonces, and every committed
qualification nonce has its row (`CommittedIsRecorded`), without which the test for
an earlier reservation would say nothing about older calls.

### The qualification lane (`QualificationLaneProofs`)

From `QualificationAssumption`: `QualTypeCorrect`, `ReservationOutlivesExposure`,
`ExposureIsExact`, `MutationsExclude`, `UnsentNeverSent` and the action property
`AuthorizedOnce`. The parts of `QualInv`:

* `CommandSound`, `StepSound`, `SuccessorSound`: the rows of a command, its current
  step and its successor agree, and what was not authorized has no instant of a send.
* `Exclusive` and `OneReservation`: the two counting properties without cardinalities;
  the sums follow from them.
* `WireSound`: what is away, in the network or in the memory of a process that holds an
  authority, was authorized, and a place is away only until the venue has its order.
  It speaks of any process that holds an authority, while the runs' `InFlight` asks
  whether it can still post in time, so it does not depend on the clock.
* `Covered`, `PositionCovered`: who is exposed is reserved. Releases after a terminal
  read need `ReadSound` (the order cannot work again and a flat position stays flat
  until the read is consumed) and `CloseSound` (while a close is alive the reserved
  canary's order has come to its end), since these reads are older than the
  transactions that use them.

The attempt to prove `QualInv` also corrected the model: `OpenVerdict` and
`CanaryVerdict` had been written as `CASE` with overlapping guards, of which TLA+
chooses any and TLC the first. They are now decided in the code's order.

### Only model-checked

The five liveness properties (`UnsentRiskIsReleased`, `UnknownIsFenced`,
`NakedIsFlattened`, `StopEndsProcess`, `UnsentCanaryIsFreed`): fairness and `ENABLED`
are outside the prover. The properties of section 5 do not hold, so there is
nothing to prove of them.

## 5. Findings

### `late_acceptance`

`src/README.md:470` says "Unknown submission outcomes are
reconciled; they are never blindly retried." The evidence reader maps an order
the venue does not know yet to the leg status `absent`
(`hyperliquid_reconcile.py:1208`), also in incomplete evidence, and the store
accepts it. `absent` is a terminal leg status, and `_update_leg_locked`
(`execution_store.py:10226`) refuses every later status of a terminal leg. In
the run's trace a POST fails at the client while the request is still on its
way, a reconciliation stores all legs as absent, and the venue then accepts the
request within its signed expiry. Every later reconciliation from the venue's
state is refused, and the outcome is never reconciled by this path.

The window is small: the signed expiry is a few seconds
(`dispatch_preflight.py:21`) and the transport waits longer than that for an
answer, so it takes a connection that fails fast, or a venue whose read side
lags. The refusal is fail-closed: the reservation stays, the ambiguity incident
keeps the account halted, and `AtMostOneSend` and `ReleasedRiskCannotTrade` hold.

### `unknown_naked`

`src/docs/trading_harness_spec.md:630` says "Any partial fill is an emergency
state requiring an immediate bounded reduce-only flatten". When the submission
that left the fill has no recorded answer, `register_recovery_permit`
(`execution_store.py:12074`) refuses the close until a no-op fence is
reconciled; the controller asks for a fence only on a flat account without
orders, and a fence's proof succeeds only if every leg is absent. In the trace
an answer is lost, the venue holds a position without a stop, and no action of
the executor is available. The incident stays open and the account halted.
`NakedIsFlattened` shows that with a recorded answer the close does come.

### `lost_signing`

The comment at `execution_store.py:12734` says of a lapsed claim without an
attempt: "Terminalize this exact authority and let safety issue a fresh
short-lived one." The safety controller (`account_safety_controller.py:665`)
normalizes only the states queued and claimed, the tick returns from the parent
reconciliation before it reaches the recovery dispatch that would normalize, and
the service's maintenance normalizes entries only. In the trace a process dies
between the signing authority and the attempt while the parent is not terminal:
the command stays in signing, and every later recovery waits for it. The window
is the time of one signature. The other liveness properties exclude this case
by name (`Stranded`).

### `live_remainder`

The docstring at `qualification_store.py:6033` says that results without a cancel
use the ordinary advance "because no live remainder can be canceled". In the
trace the canary fills in part between the read by CLOID and the read by OID.
Both say open, the remainders differ, `prepare_canary_cancel` raises, and the
ordinary advance commits the command as terminal while the remainder is open and
without a cancel step. The reservation stays (`ReservedWhileExposed` holds) and
the attended close is refused until the remainder is gone.

## 6. Plan

What would add most from here:

1. The chat approval chain as a protocol between processes with duplicated and
   late messages, refining a one-time approval.
2. The entry lane and the qualification lane over one exposure row, in place of
   each lane's picture of the other; the proofs of both use the other only through
   the reservation and the account gate.
3. The daily loss ledger with its day boundary and its partial syncs.

## 7. Not modelled

`PROJECT.json` lists every component with the reason.

* Cryptography, wire encoding, parsing, immutable artefacts and their integrity
  checks, OS probes, market analysis, planning arithmetic, command lines and
  installers have no state a model checker would explore. Their verdicts enter
  the models as guards or as free choices.
* The chat approval chain is a protocol of its own; only its last step, the
  admission of a handoff, is an action (`EntryStore`).
* Daily loss, research and staging, the learning ledger and the paper order
  management keep records that the lanes only read as a verdict, or not at all.
* `src/plugins/trading-desk/runtime/` is a copy of the package, written by
  `src/scripts/sync_plugin_runtime.py`; what is modelled is the original.

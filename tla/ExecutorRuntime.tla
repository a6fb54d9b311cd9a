---------------------------- MODULE ExecutorRuntime ----------------------------
(***************************************************************************)
(* ExecutorRuntime (executor_runtime.py) in the process that runs it       *)
(* (executor_cli.py _run, executor_service.py tick): one serialized loop   *)
(* per process over the shared row of RuntimeStore.                        *)
(*                                                                         *)
(* A process acquires the row, reconciles, opens the gate one step per     *)
(* tick, dispatches entries under a lock, and on a signal or an exception  *)
(* drains, stops and releases.  The supervisor restarts it; SIGTERM comes  *)
(* at any point of it, on the same thread; it may crash at any point.      *)
(*                                                                         *)
(* What the scanner, the loss ledger and the handlers report is open: any  *)
(* answer at any time.  A store call may also fail, whatever the row says  *)
(* (the lease is gone, the reading is behind the row, the disk is full).   *)
(***************************************************************************)
EXTENDS RuntimeStore

CONSTANTS
    LeaseSeconds,  \* lease_seconds of every process
    MaxDrainSteps, \* max_drain_steps of a shutdown
    MaxStarts      \* bound: times the row is acquired

ASSUME ExecutorAssumption ==
    /\ LeaseSeconds \in Durations
    /\ MaxDrainSteps \in Nat
    /\ MaxStarts \in Nat
    /\ "internal_error" \in Reasons

VARIABLES
    exe,        \* the processes: program counter and the attributes of the runtime
    reconciled  \* the startup reconciliation completed under the row's token (history)

executorVars == <<now, row, exe, reconciled>>

\* lease: self._lease.fencing_token.  stop: _shutdown_requested.  event: the
\* stop_event of _run.  lock, active: _entry_submission_lock and _active.
\* lane, eligible, permitted: what this tick found.  last: in the shutdown of the
\* finally.  failed: a check or handler raised in this process (history).
Idle == [pc |-> "down", lease |-> 0, startup |-> FALSE, stop |-> FALSE, event |-> FALSE,
         lock |-> FALSE, active |-> FALSE, permitted |-> FALSE, lane |-> "idle",
         eligible |-> FALSE, drained |-> 0, last |-> FALSE, failed |-> FALSE]

ExecutorInit == RuntimeInit /\ exe = [i \in Instances |-> Idle] /\ reconciled = FALSE

At(i, pc) == exe[i].pc = pc

\* The attributes of process i are now e.
Becomes(i, e) == exe' = [exe EXCEPT ![i] = e]

Goto(i, pc) == Becomes(i, [exe[i] EXCEPT !.pc = pc])

\* The tick returns to the loop; what it found is gone.
Return(i) ==
    Becomes(i, [exe[i] EXCEPT !.pc = "loop", !.lock = FALSE, !.active = FALSE,
                              !.permitted = FALSE, !.lane = "idle", !.eligible = FALSE])

\* An exception or the end of the loop: shutdown() is next, the last one in the
\* finally of _run.
Leave(i, last, failed) ==
    Becomes(i, [Idle EXCEPT !.pc = "shutdown", !.lease = exe[i].lease,
                            !.stop = exe[i].stop, !.event = exe[i].event,
                            !.last = last, !.failed = failed])

Quiet == UNCHANGED <<now, reconciled>>

\* read(): the gate another reader may rely on.
EffectiveReady(at) ==
    /\ row.gate = "ready" /\ row.halt = NoReason /\ row.process = "running"
    /\ row.updated <= at /\ row.lease = "active" /\ at < row.expires
    /\ row.beatExpires # Never /\ at < row.beatExpires

(***************************************************************************)
(* start                                                                   *)
(***************************************************************************)

\* The supervisor starts a process; while another holds the row it exits again.
Start(i) ==
    /\ At(i, "down") /\ row.token < MaxStarts
    /\ \E at \in Readings : Acquire(i, at, LeaseSeconds)
    /\ Becomes(i, [Idle EXCEPT !.pc = "acquired", !.lease = row.token + 1])
    /\ reconciled' = FALSE /\ UNCHANGED now

\* A failure before the third write leaves _lease unset: the process exits
\* without a shutdown and the row keeps the lease until it lapses.
StartFails(i) ==
    /\ exe[i].pc \in {"acquired", "beating"}
    /\ Becomes(i, Idle)
    /\ UNCHANGED row /\ Quiet

StartBeat(i) ==
    /\ At(i, "acquired")
    /\ \E at \in Readings : Heartbeat(i, exe[i].lease, at, LeaseSeconds)
    /\ Goto(i, "beating")
    /\ Quiet

\* Refused while a halt is engaged.  The flag a signal set so far is cleared.
StartRun(i) ==
    /\ At(i, "beating")
    /\ \E at \in Readings : Transition(i, exe[i].lease, at, "running", "reconciling")
    /\ Becomes(i, [exe[i] EXCEPT !.pc = "loop", !.startup = FALSE, !.stop = FALSE])
    /\ Quiet

(***************************************************************************)
(* The loop of _run, the service's tick, the runtime's tick                *)
(***************************************************************************)

\* dry_run previews an entry; only then may the refresh of losses, learning and
\* route permit one, and only when all three succeed.
PreviewsEntry(i) ==
    exe[i].startup /\ row.halt = NoReason /\ (exe[i].stop \/ row.gate = "ready")

Loop(i) ==
    /\ At(i, "loop")
    /\ \/ exe[i].event /\ Leave(i, FALSE, exe[i].failed)
       \/ /\ ~exe[i].event
          /\ \E allowed \in BOOLEAN :
                /\ allowed => PreviewsEntry(i)
                /\ Becomes(i, [exe[i] EXCEPT !.pc = "tick", !.permitted = allowed])
    /\ UNCHANGED row /\ Quiet

\* _halt_gate: nothing to do when the row already says halted.
HaltGate(i) ==
    \/ row.gate = "halted" /\ UNCHANGED row
    \/ \E at \in Readings : Transition(i, exe[i].lease, at, row.process, "halted")

TickBegin(i) ==
    /\ At(i, "tick")
    /\ \/ exe[i].stop /\ HaltGate(i) /\ Return(i)
       \/ /\ ~exe[i].stop
          /\ \E at \in Readings : Heartbeat(i, exe[i].lease, at, LeaseSeconds)
          /\ Goto(i, "assess")
    /\ Quiet

\* "safety" stands for the lanes before startup (recovery and parent
\* reconciliation, protection, safety, recovery dispatch), with or without a
\* loss block; the gate is shut when work is incompatible or losses block.
Lanes == {"integrity", "safety", "safety_loss", "loss", "entry", "idle"}

Blocking == {"integrity", "safety_loss", "loss"}

\* _assess_local: what the scan saw, kept for the rest of the tick.
Assess(i) ==
    /\ At(i, "assess")
    /\ \E lane \in Lanes :
          /\ IF lane \in Blocking THEN HaltGate(i) ELSE UNCHANGED row
          /\ Becomes(i, [exe[i] EXCEPT !.pc = "act", !.lane = lane,
                                       !.eligible = lane \in {"entry", "idle"} /\ ~exe[i].stop])
    /\ Quiet

\* The lanes that end the tick without a word to the gate: incompatible work,
\* safety work, and losses once the startup reconciliation is behind.
ActLane(i) ==
    /\ At(i, "act")
    /\ \/ exe[i].lane \in {"integrity", "safety", "safety_loss"}
       \/ exe[i].lane = "loss" /\ exe[i].startup
    /\ Return(i)
    /\ UNCHANGED row /\ Quiet

\* The startup reconciler completes or asks to be called again.
ActStartup(i) ==
    /\ At(i, "act") /\ exe[i].lane \in {"loss", "entry", "idle"} /\ ~exe[i].startup
    /\ \E complete \in BOOLEAN :
          /\ Becomes(i, [exe[i] EXCEPT !.pc = "loop", !.startup = complete,
                                       !.permitted = FALSE, !.lane = "idle", !.eligible = FALSE])
          /\ reconciled' = (reconciled \/ (complete /\ row.token = exe[i].lease))
    /\ UNCHANGED <<now, row>>

\* The last check of the flag and setting _active are under the lock.
ActEntry(i) ==
    /\ At(i, "act") /\ exe[i].lane = "entry" /\ exe[i].startup
    /\ \E at \in Readings : EffectiveReady(at)
    /\ IF exe[i].eligible /\ exe[i].permitted /\ ~exe[i].stop
       THEN Becomes(i, [exe[i] EXCEPT !.pc = "dispatch", !.active = TRUE])
       ELSE Return(i)
    /\ UNCHANGED row /\ Quiet

\* Mutant: the gate does not wait for the startup reconciliation.
ActGateEarly(i) ==
    /\ At(i, "act") /\ exe[i].lane \in {"entry", "idle"}
    /\ \/ /\ ~exe[i].eligible \/ row.halt # NoReason \/ row.gate = "ready"
          /\ UNCHANGED row
       \/ /\ exe[i].eligible /\ row.halt = NoReason /\ row.gate # "ready"
          /\ \E at \in Readings :
                Transition(i, exe[i].lease, at, row.process,
                           IF row.gate = "halted" THEN "reconciling" ELSE "ready")
    /\ Return(i) /\ Quiet

\* Nothing more urgent: one step of the gate, unless halted or not eligible.
ActGate(i) ==
    /\ At(i, "act") /\ exe[i].startup
    /\ \/ exe[i].lane = "idle"
       \/ exe[i].lane = "entry" /\ \E at \in Readings : ~EffectiveReady(at)
    /\ \/ /\ ~exe[i].eligible \/ row.halt # NoReason \/ row.gate = "ready"
          /\ UNCHANGED row
       \/ /\ exe[i].eligible /\ row.halt = NoReason /\ row.gate # "ready"
          /\ \E at \in Readings :
                Transition(i, exe[i].lease, at, row.process,
                           IF row.gate = "halted" THEN "reconciling" ELSE "ready")
    /\ Return(i) /\ Quiet

(***************************************************************************)
(* The entry dispatcher and the guard around its one send                  *)
(***************************************************************************)

\* Denied, nothing to dispatch, or ready to send: the guard takes the lock.
Dispatch(i) ==
    /\ At(i, "dispatch")
    /\ Return(i) \/ Becomes(i, [exe[i] EXCEPT !.pc = "guard", !.lock = TRUE])
    /\ UNCHANGED row /\ Quiet

\* Mutant: the guard trusts the row, whoever owns it.
GuardUnowned(i) ==
    /\ At(i, "guard")
    /\ \E at \in Readings :
          IF exe[i].active /\ ~exe[i].stop /\ EffectiveReady(at)
          THEN Goto(i, "sending")
          ELSE Return(i)
    /\ UNCHANGED row /\ Quiet

\* entry_submission_guard: revoked unless the row is this process's own and
\* ready, and no stop was asked for.  A revoked send is voided.
Guard(i) ==
    /\ At(i, "guard")
    /\ \E at \in Readings :
          IF /\ exe[i].active /\ ~exe[i].stop
             /\ row.token = exe[i].lease /\ row.instance = i
             /\ EffectiveReady(at)
          THEN Goto(i, "sending")
          ELSE Return(i)
    /\ UNCHANGED row /\ Quiet

\* The bounded transport returns.
Sent(i) ==
    /\ At(i, "sending")
    /\ Return(i)
    /\ UNCHANGED row /\ Quiet

(***************************************************************************)
(* Failures and shutdown                                                   *)
(***************************************************************************)

\* _engage_halt swallows a refusal, and an engaged halt stays as it is.
EngageHalt ==
    \/ \E at \in Readings : EngageManualHalt(at, "internal_error")
    \/ UNCHANGED row

\* Where an exception of a check, handler or dispatcher engages a halt.
Guarded == {"assess", "act", "dispatch", "guard", "sending"}

\* The exception leaves the loop of _run for its finally.
HandlerFails(i) ==
    /\ exe[i].pc \in Guarded
    /\ EngageHalt
    /\ Leave(i, TRUE, TRUE)
    /\ Quiet

\* A preview, a heartbeat or a write of the gate that raises engages no halt.
TickFails(i) ==
    /\ exe[i].pc \in {"loop", "tick", "assess", "act"}
    /\ Leave(i, TRUE, exe[i].failed)
    /\ UNCHANGED row /\ Quiet

\* shutdown: request_shutdown, then the gate.
ShutdownBegin(i) ==
    /\ At(i, "shutdown")
    /\ HaltGate(i)
    /\ Becomes(i, [exe[i] EXCEPT !.pc = "drain", !.stop = TRUE])
    /\ Quiet

\* Mutant: one turn too many.
DrainOnceMore(i) ==
    /\ At(i, "drain") /\ exe[i].drained <= MaxDrainSteps
    /\ \E at \in Readings : Heartbeat(i, exe[i].lease, at, LeaseSeconds)
    /\ Goto(i, "draining")
    /\ Quiet

\* One turn of the drain: a heartbeat, then safety work if any is left.
Drain(i) ==
    /\ At(i, "drain") /\ exe[i].drained < MaxDrainSteps
    /\ \E at \in Readings : Heartbeat(i, exe[i].lease, at, LeaseSeconds)
    /\ Goto(i, "draining")
    /\ Quiet

\* The turn's work: done, none left, or failed behind a halt.  Only the first
\* asks for another turn.
DrainWork(i) ==
    /\ At(i, "draining")
    /\ \/ Becomes(i, [exe[i] EXCEPT !.pc = "drain", !.drained = @ + 1]) /\ UNCHANGED row
       \/ Goto(i, "final") /\ UNCHANGED row
       \/ Becomes(i, [exe[i] EXCEPT !.pc = "final", !.failed = TRUE]) /\ EngageHalt
    /\ Quiet

FinalBeat(i) ==
    /\ At(i, "final") \/ (At(i, "drain") /\ exe[i].drained = MaxDrainSteps)
    /\ \E at \in Readings : Heartbeat(i, exe[i].lease, at, LeaseSeconds)
    /\ Goto(i, "stopping")
    /\ Quiet

\* A second shutdown repeats what the first already wrote without writing.
Stop(i) ==
    /\ At(i, "stopping")
    /\ \/ \E at \in Readings : RequestStop(i, exe[i].lease, at)
       \/ row.token = exe[i].lease /\ row.process \in {"stopping", "stopped"} /\ UNCHANGED row
    /\ Goto(i, "stopped")
    /\ Quiet

Stopped(i) ==
    /\ At(i, "stopped")
    /\ \/ \E at \in Readings : MarkStopped(i, exe[i].lease, at)
       \/ row.token = exe[i].lease /\ row.process = "stopped" /\ UNCHANGED row
    /\ Goto(i, "releasing")
    /\ Quiet

\* The read that follows the release may still fail the shutdown.
ReleaseLease(i) ==
    /\ At(i, "releasing")
    /\ \E at \in Readings : Release(i, exe[i].lease, at)
    /\ Becomes(i, Idle) \/ (~exe[i].last /\ Leave(i, TRUE, exe[i].failed))
    /\ Quiet

\* Where a call of the shutdown may raise.
ShuttingDown == {"shutdown", "drain", "draining", "final", "stopping", "stopped", "releasing"}

\* Mutant: a shutdown that fails is tried again, however often.
ShutdownRetries(i) ==
    /\ exe[i].pc \in ShuttingDown
    /\ Leave(i, FALSE, exe[i].failed)
    /\ UNCHANGED row /\ Quiet

\* Any call of the shutdown may raise: _run tries once more in its finally,
\* then exits and leaves the lease to lapse.
ShutdownFails(i) ==
    /\ exe[i].pc \in ShuttingDown
    /\ IF exe[i].last THEN Becomes(i, Idle) ELSE Leave(i, TRUE, exe[i].failed)
    /\ UNCHANGED row /\ Quiet

(***************************************************************************)
(* Signals, crashes, the operator, the clock                               *)
(***************************************************************************)

\* request_shutdown in the signal handler never waits for the lock.
Signal(i) ==
    /\ ~At(i, "down") /\ ~exe[i].event
    /\ Becomes(i, [exe[i] EXCEPT !.event = TRUE, !.stop = TRUE, !.active = @ /\ exe[i].lock])
    /\ UNCHANGED row /\ Quiet

Crash(i) ==
    /\ ~At(i, "down")
    /\ Becomes(i, Idle)
    /\ UNCHANGED row /\ Quiet

\* acknowledge-halt: the operator reads the row and confirms what it says.
Acknowledge ==
    /\ \E at \in Readings, reason \in Reasons :
          AcknowledgeStaleManualHalt(row.revision, reason, at)
    /\ UNCHANGED exe /\ Quiet

ClockTick == Tick /\ UNCHANGED <<exe, reconciled>>

\* What a process does by itself, once started.
Run(i) ==
    \/ StartFails(i) \/ StartBeat(i) \/ StartRun(i)
    \/ Loop(i) \/ TickBegin(i) \/ Assess(i)
    \/ ActLane(i) \/ ActStartup(i) \/ ActEntry(i) \/ ActGate(i)
    \/ Dispatch(i) \/ Guard(i) \/ Sent(i)
    \/ HandlerFails(i) \/ TickFails(i)
    \/ ShutdownBegin(i) \/ Drain(i) \/ DrainWork(i) \/ FinalBeat(i)
    \/ Stop(i) \/ Stopped(i) \/ ReleaseLease(i) \/ ShutdownFails(i)

ExecutorNext ==
    \/ \E i \in Instances : Start(i) \/ Run(i) \/ Signal(i) \/ Crash(i)
    \/ Acknowledge
    \/ ClockTick

\* Every call of a process returns or raises, so a started process goes on.
ExecutorSpec ==
    /\ ExecutorInit /\ [][ExecutorNext]_executorVars
    /\ \A i \in Instances : WF_executorVars(Run(i))

(***************************************************************************)
(* Properties.                                                             *)
(***************************************************************************)

Counters == {"down", "acquired", "beating", "loop", "tick", "assess", "act", "dispatch",
             "guard", "sending", "shutdown", "drain", "draining", "final", "stopping",
             "stopped", "releasing"}

Attributes ==
    [pc : Counters, lease : Nat, startup : BOOLEAN, stop : BOOLEAN, event : BOOLEAN,
     lock : BOOLEAN, active : BOOLEAN, permitted : BOOLEAN, lane : Lanes, eligible : BOOLEAN,
     drained : 0..MaxDrainSteps, last : BOOLEAN, failed : BOOLEAN]

\* The attributes of every process.
ExecutorTypeOK == exe \in [Instances -> Attributes] /\ reconciled \in BOOLEAN

\* The row says ready only under a fencing token whose own owner completed its
\* startup reconciliation: no restart, takeover, lifted halt or lost reply lets
\* an owner inherit the readiness of another, whoever shares its instance id.
ReadyWasReconciled == row.gate = "ready" => reconciled

\* One step of SendsUnderOwnAuthority.
SendNeedsAuthority ==
    \A i \in Instances :
       ~At(i, "sending") /\ exe'[i].pc = "sending" =>
          /\ row.token = exe[i].lease /\ row.instance = i
          /\ reconciled /\ ~exe[i].failed
          /\ row.halt = NoReason
          /\ ~exe[i].event

\* A send begins only in the process that owns the row, after its own startup
\* reconciliation, with no halt engaged, before any signal to stop reached the
\* process (start() clears the runtime's flag, not the event), and never after a
\* handler or a check failed under its token, even when the halt that failure
\* asks for was refused and the refusal swallowed.
SendsUnderOwnAuthority == [][SendNeedsAuthority]_executorVars

\* A process told to stop ends, wherever the signal found it (the handler runs
\* on the thread that may hold the submission lock), and whatever its drain,
\* its heartbeats or its release run into.
StopEndsProcess == \A i \in Instances : exe[i].event ~> At(i, "down")

=============================================================================

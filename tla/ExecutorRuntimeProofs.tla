------------------------ MODULE ExecutorRuntimeProofs ------------------------
(***************************************************************************)
(* Proofs about ExecutorRuntime, for any number of processes, restarts and *)
(* drain steps.  The processes are shown to be callers of RuntimeStore, so *)
(* what is proved of the store holds of the row they share; the rest is an *)
(* invariant that ties what a process remembers to the row's token.        *)
(***************************************************************************)
EXTENDS ExecutorRuntime, RuntimeStoreProofs

\* Where a tick is under way.
Ticking == {"tick", "assess", "act", "dispatch", "guard", "sending"}

\* One process by itself: a failure is followed by nothing but the shutdown, a
\* signal is seen by every tick that begins after it, and a drain is bounded.
Sound(e) ==
    /\ e \in Attributes
    /\ e.failed => e.pc \in ShuttingDown
    /\ e.event /\ e.pc \in Ticking => e.stop
    /\ e.pc = "draining" => e.drained < MaxDrainSteps

\* A process and the row: its token was issued, and while it is the row's the
\* process remembers only the reconciliation done under it.
Fenced(e) == e.lease <= row.token /\ (e.startup /\ e.lease = row.token => reconciled)

ExecutorInv ==
    /\ RuntimeInv
    /\ ExecutorTypeOK
    /\ ReadyWasReconciled
    /\ \A i \in Instances : Sound(exe[i]) /\ Fenced(exe[i])

(***************************************************************************)
(* Processes                                                               *)
(***************************************************************************)

\* What a process may become by itself: it keeps its lease or gives it up, and
\* learns of no reconciliation.
Follows(r, e) ==
    /\ Sound(e)
    /\ e.lease = r.lease \/ e.lease = 0
    /\ e.startup => r.startup /\ e.lease = r.lease

\* A step of process i that no other process sees.
LocalStep(i) == \E e : Becomes(i, e) /\ Follows(exe[i], e)

\* A process that is down.
LEMMA IdleSound ==
    /\ Sound(Idle) /\ Idle \in Attributes
    /\ Idle.lease = 0 /\ ~Idle.startup /\ ~Idle.event /\ ~Idle.failed
  <1>1. 0 \in 0..MaxDrainSteps
    BY ExecutorAssumption
  <1>2. /\ Idle \in Attributes /\ Idle.pc = "down" /\ Idle.lease = 0 /\ ~Idle.startup
        /\ ~Idle.event /\ ~Idle.failed
    BY <1>1 DEF Idle, Attributes, Lanes, Counters
  <1> QED
    BY <1>2 DEF Sound, Ticking

\* The invariant, for one process.
LEMMA ProcessSound ==
    ASSUME ExecutorInv, NEW i \in Instances
    PROVE  Sound(exe[i]) /\ exe[i] \in Attributes
  BY DEF ExecutorInv, Sound

\* Where the program counter may go.
LEMMA GotoFollows ==
    ASSUME NEW r, Sound(r), NEW pc \in Counters,
           r.failed => pc \in ShuttingDown,
           r.event /\ pc \in Ticking => r.stop,
           pc = "draining" => r.drained < MaxDrainSteps
    PROVE  Follows(r, [r EXCEPT !.pc = pc])
  BY DEF Follows, Sound, Attributes

\* The end of a tick.
LEMMA ReturnFollows ==
    ASSUME NEW r, Sound(r), ~r.failed
    PROVE  Follows(r, [r EXCEPT !.pc = "loop", !.lock = FALSE, !.active = FALSE,
                                !.permitted = FALSE, !.lane = "idle", !.eligible = FALSE])
  BY DEF Follows, Sound, Attributes, Lanes, Counters, Ticking

\* An exception, or the end of the loop.
LEMMA LeaveLocal ==
    ASSUME ExecutorInv, NEW i \in Instances, NEW last \in BOOLEAN, NEW failed \in BOOLEAN,
           Leave(i, last, failed)
    PROVE  LocalStep(i)
  <1> DEFINE e == [Idle EXCEPT !.pc = "shutdown", !.lease = exe[i].lease,
                               !.stop = exe[i].stop, !.event = exe[i].event,
                               !.last = last, !.failed = failed]
  <1>1. /\ exe[i].lease \in Nat /\ exe[i].stop \in BOOLEAN /\ exe[i].event \in BOOLEAN
    BY ProcessSound DEF Attributes
  <1>2. Idle \in Attributes /\ ~Idle.startup
    BY IdleSound
  <1>3. e \in Attributes /\ e.pc = "shutdown" /\ e.lease = exe[i].lease /\ ~e.startup
    BY <1>1, <1>2 DEF Attributes, Counters
  <1>4. Becomes(i, e)
    BY DEF Leave
  <1> HIDE DEF e
  <1> QED
    BY <1>3, <1>4 DEF LocalStep, Follows, Sound, ShuttingDown, Ticking

\* A process that ends.
LEMMA DownLocal ==
    ASSUME NEW i \in Instances, Becomes(i, Idle)
    PROVE  LocalStep(i)
  BY IdleSound DEF LocalStep, Follows

\* The end of a tick, and the moves of the program counter.
LEMMA ReturnLocal ==
    ASSUME ExecutorInv, NEW i \in Instances, ~exe[i].failed, Return(i)
    PROVE  LocalStep(i)
  BY ProcessSound, ReturnFollows, Zenon DEF Return, LocalStep

\* The same for a step that only moves on.
LEMMA GotoLocal ==
    ASSUME ExecutorInv, NEW i \in Instances, NEW pc \in Counters,
           exe[i].failed => pc \in ShuttingDown,
           exe[i].event /\ pc \in Ticking => exe[i].stop,
           pc = "draining" => exe[i].drained < MaxDrainSteps,
           Goto(i, pc)
    PROVE  LocalStep(i)
  BY ProcessSound, GotoFollows, Zenon DEF Goto, LocalStep

\* What start() and the tick write into the attributes.
LEMMA TickFollows ==
    ASSUME NEW r, Sound(r), ~r.failed, NEW b \in BOOLEAN, NEW l \in Lanes
    PROVE  /\ Follows(r, [r EXCEPT !.pc = "loop", !.startup = FALSE, !.stop = FALSE])
           /\ ~r.event => Follows(r, [r EXCEPT !.pc = "tick", !.permitted = b])
           /\ r.pc \in Ticking =>
                 /\ Follows(r, [r EXCEPT !.pc = "act", !.lane = l, !.eligible = b])
                 /\ Follows(r, [r EXCEPT !.pc = "dispatch", !.active = TRUE])
                 /\ Follows(r, [r EXCEPT !.pc = "guard", !.lock = TRUE])
  <1>1. Follows(r, [r EXCEPT !.pc = "loop", !.startup = FALSE, !.stop = FALSE])
    BY DEF Follows, Sound, Attributes, Counters, Ticking
  <1>2. ~r.event => Follows(r, [r EXCEPT !.pc = "tick", !.permitted = b])
    BY DEF Follows, Sound, Attributes, Counters
  <1>3. r.pc \in Ticking => Follows(r, [r EXCEPT !.pc = "act", !.lane = l, !.eligible = b])
    BY DEF Follows, Sound, Attributes, Counters
  <1>4. r.pc \in Ticking => Follows(r, [r EXCEPT !.pc = "dispatch", !.active = TRUE])
    BY DEF Follows, Sound, Attributes, Counters
  <1>5. r.pc \in Ticking => Follows(r, [r EXCEPT !.pc = "guard", !.lock = TRUE])
    BY DEF Follows, Sound, Attributes, Counters
  <1> QED
    BY <1>1, <1>2, <1>3, <1>4, <1>5

\* What a shutdown and a signal write into them.
LEMMA StopFollows ==
    ASSUME NEW r, Sound(r), NEW a \in BOOLEAN, NEW b \in BOOLEAN
    PROVE  /\ Follows(r, [r EXCEPT !.pc = "drain", !.stop = TRUE])
           /\ r.pc = "draining" => Follows(r, [r EXCEPT !.pc = "drain", !.drained = @ + 1])
           /\ Follows(r, [r EXCEPT !.pc = "final", !.failed = TRUE])
           /\ Follows(r, [r EXCEPT !.event = TRUE, !.stop = TRUE, !.active = a /\ b])
  <1>1. Follows(r, [r EXCEPT !.pc = "drain", !.stop = TRUE])
    BY DEF Follows, Sound, Attributes, Counters, Ticking, ShuttingDown
  <1>2. r.pc = "draining" => Follows(r, [r EXCEPT !.pc = "drain", !.drained = @ + 1])
    <2>1. r.drained \in 0..MaxDrainSteps /\ MaxDrainSteps \in Nat
      BY ExecutorAssumption DEF Sound, Attributes
    <2> SUFFICES ASSUME r.pc = "draining"
                 PROVE  Follows(r, [r EXCEPT !.pc = "drain", !.drained = @ + 1])
      OBVIOUS
    <2>2. r.drained + 1 \in 0..MaxDrainSteps
      BY <2>1 DEF Sound
    <2> QED
      BY <2>2 DEF Follows, Sound, Attributes, Counters, Ticking, ShuttingDown
  <1>3. Follows(r, [r EXCEPT !.pc = "final", !.failed = TRUE])
    BY DEF Follows, Sound, Attributes, Counters, Ticking, ShuttingDown
  <1>4. Follows(r, [r EXCEPT !.event = TRUE, !.stop = TRUE, !.active = a /\ b])
    BY DEF Follows, Sound, Attributes
  <1> QED
    BY <1>1, <1>2, <1>3, <1>4

(***************************************************************************)
(* The row                                                                 *)
(***************************************************************************)

\* A call of the store under the same owner that does not open the gate.
RowKept ==
    /\ RuntimeStep \/ UNCHANGED row
    /\ row'.token = row.token
    /\ row'.gate = "ready" => row.gate = "ready"

\* A caller with authority presents a token that was issued.
LEMMA OwnLease ==
    ASSUME RuntimeInv, NEW i, NEW k, NEW at, LeaseAuthority(i, k, at)
    PROVE  k \in 1..row.token
  BY DEF RuntimeInv, RuntimeTypeOK, RowReadable, Started, LeaseAuthority, RuntimeRow

\* A heartbeat is a call of the store.
LEMMA BeatRow ==
    ASSUME RuntimeInv, NEW i \in Instances, NEW k, NEW at \in Readings,
           Heartbeat(i, k, at, LeaseSeconds)
    PROVE  RowKept
  <1>1. k \in 1..row.token /\ LeaseSeconds \in Durations
    BY OwnLease, ExecutorAssumption DEF Heartbeat
  <1>2. RuntimeStep
    BY <1>1 DEF RuntimeStep
  <1>3. row'.token = row.token /\ row'.gate = row.gate
    BY DEF Heartbeat, RuntimeInv, RuntimeTypeOK, RuntimeRow
  <1> QED
    BY <1>2, <1>3 DEF RowKept

\* A transition is a call of the store.
LEMMA TransitionRow ==
    ASSUME RuntimeInv, NEW i \in Instances, NEW k, NEW at \in Readings,
           NEW g \in Gates, NEW p \in Processes, Transition(i, k, at, p, g)
    PROVE  RuntimeStep /\ row'.token = row.token /\ row'.gate = g
  <1>1. k \in 1..row.token
    BY OwnLease DEF Transition
  <1>2. RuntimeStep
    BY <1>1 DEF RuntimeStep
  <1>3. row'.token = row.token /\ row'.gate = g
    BY DEF Transition, RuntimeInv, RuntimeTypeOK, RuntimeRow
  <1> QED
    BY <1>2, <1>3

\* _halt_gate shuts the gate or leaves it shut.
LEMMA HaltGateRow ==
    ASSUME RuntimeInv, NEW i \in Instances, HaltGate(i)
    PROVE  RowKept
  <1>1. row.process \in Processes /\ "halted" \in Gates
    BY DEF RuntimeInv, RuntimeTypeOK, RuntimeRow, Gates
  <1> QED
    BY <1>1, TransitionRow DEF HaltGate, RowKept

\* The halt of a failed handler, engaged or refused.
LEMMA EngageRow ==
    ASSUME RuntimeInv, EngageHalt
    PROVE  RowKept
  <1>1. CASE UNCHANGED row
    BY <1>1 DEF RowKept
  <1>2. ASSUME NEW at \in Readings, EngageManualHalt(at, "internal_error")
        PROVE  RowKept
    <2>1. RuntimeStep
      BY <1>2, ExecutorAssumption DEF RuntimeStep
    <2>2. row'.token = row.token /\ row'.gate = "halted"
      BY <1>2 DEF EngageManualHalt, RuntimeInv, RuntimeTypeOK, RuntimeRow
    <2> QED
      BY <2>1, <2>2 DEF RowKept
  <1> QED
    BY <1>1, <1>2 DEF EngageHalt

\* The three writes of a graceful stop.
LEMMA StopRow ==
    ASSUME RuntimeInv, NEW i \in Instances, NEW k, NEW at \in Readings,
           RequestStop(i, k, at) \/ MarkStopped(i, k, at) \/ Release(i, k, at)
    PROVE  RowKept
  <1>1. k \in 1..row.token
    BY OwnLease DEF RequestStop, MarkStopped, Release
  <1>2. RuntimeStep
    BY <1>1 DEF RuntimeStep
  <1>3. row'.token = row.token /\ (row'.gate = row.gate \/ row'.gate = "halted")
    BY DEF RequestStop, MarkStopped, Release, RuntimeInv, RuntimeTypeOK, RuntimeRow
  <1> QED
    BY <1>2, <1>3 DEF RowKept

(***************************************************************************)
(* Steps                                                                   *)
(***************************************************************************)

\* A step of one process that neither opens the gate nor reconciles.
PlainStep(i) == LocalStep(i) /\ RowKept /\ Quiet

\* A step that leaves the row alone.
LEMMA RowAlone == UNCHANGED row => RowKept
  BY DEF RowKept

\* start().
LEMMA StartSteps ==
    ASSUME ExecutorInv, NEW i \in Instances, StartFails(i) \/ StartBeat(i) \/ StartRun(i)
    PROVE  PlainStep(i)
  <1>1. RuntimeInv /\ Sound(exe[i])
    BY ProcessSound DEF ExecutorInv
  <1>2. CASE StartFails(i)
    BY <1>2, DownLocal, RowAlone DEF StartFails, PlainStep
  <1>3. CASE StartBeat(i)
    <2>1. LocalStep(i)
      BY <1>1, <1>3, GotoLocal DEF StartBeat, At, Sound, Counters, Ticking, ShuttingDown
    <2> QED
      BY <1>1, <1>3, <2>1, BeatRow DEF StartBeat, PlainStep
  <1>4. CASE StartRun(i)
    <2>1. ~exe[i].failed
      BY <1>1, <1>4 DEF StartRun, At, Sound, ShuttingDown
    <2>2. Follows(exe[i], [exe[i] EXCEPT !.pc = "loop", !.startup = FALSE, !.stop = FALSE])
      BY <1>1, <2>1, TickFollows DEF Lanes
    <2>3. LocalStep(i)
      BY <1>4, <2>2, Zenon DEF StartRun, LocalStep
    <2>4. RowKept
      BY <1>1, <1>4, TransitionRow DEF StartRun, RowKept, Gates, Processes
    <2> QED
      BY <1>4, <2>3, <2>4 DEF StartRun, PlainStep
  <1> QED
    BY <1>2, <1>3, <1>4

\* The loop of _run and the beginning of a tick.
LEMMA LoopSteps ==
    ASSUME ExecutorInv, NEW i \in Instances, Loop(i) \/ TickBegin(i) \/ Assess(i)
    PROVE  PlainStep(i)
  <1>1. RuntimeInv /\ Sound(exe[i])
    BY ProcessSound DEF ExecutorInv
  <1>2. ~exe[i].failed
    BY <1>1 DEF Loop, TickBegin, Assess, At, Sound, ShuttingDown
  <1>3. CASE Loop(i)
    <2>1. CASE exe[i].event
      <3>1. Leave(i, FALSE, exe[i].failed) /\ exe[i].failed \in BOOLEAN
        BY <1>1, <1>3, <2>1 DEF Loop, Sound, Attributes
      <3> QED
        BY <1>3, <3>1, LeaveLocal, RowAlone DEF Loop, PlainStep
    <2>2. CASE ~exe[i].event
      <3>1. PICK allowed \in BOOLEAN :
               Becomes(i, [exe[i] EXCEPT !.pc = "tick", !.permitted = allowed])
        BY <1>3, <2>2 DEF Loop
      <3>2. Follows(exe[i], [exe[i] EXCEPT !.pc = "tick", !.permitted = allowed])
        BY <1>1, <1>2, <2>2, TickFollows DEF Lanes
      <3>3. LocalStep(i)
        BY <3>1, <3>2, Zenon DEF LocalStep
      <3> QED
        BY <1>3, <3>3, RowAlone DEF Loop, PlainStep
    <2> QED
      BY <2>1, <2>2
  <1>4. CASE TickBegin(i)
    <2>1. CASE exe[i].stop
      BY <1>1, <1>2, <1>4, <2>1, HaltGateRow, ReturnLocal DEF TickBegin, PlainStep
    <2>2. CASE ~exe[i].stop
      <3>1. LocalStep(i)
        BY <1>1, <1>2, <1>4, <2>2, GotoLocal DEF TickBegin, At, Sound, Counters, Ticking
      <3> QED
        BY <1>1, <1>4, <2>2, <3>1, BeatRow DEF TickBegin, PlainStep
    <2> QED
      BY <2>1, <2>2
  <1>5. CASE Assess(i)
    <2>1. PICK lane \in Lanes :
             /\ IF lane \in Blocking THEN HaltGate(i) ELSE UNCHANGED row
             /\ Becomes(i, [exe[i] EXCEPT !.pc = "act", !.lane = lane,
                               !.eligible = lane \in {"entry", "idle"} /\ ~exe[i].stop])
      BY <1>5 DEF Assess
    <2>2. exe[i].pc \in Ticking
      BY <1>5 DEF Assess, At, Ticking
    <2>3. Follows(exe[i], [exe[i] EXCEPT !.pc = "act", !.lane = lane,
                             !.eligible = lane \in {"entry", "idle"} /\ ~exe[i].stop])
      BY <1>1, <1>2, <2>2 DEF Follows, Sound, Attributes, Counters
    <2>4. LocalStep(i)
      BY <2>1, <2>3, Zenon DEF LocalStep
    <2>5. RowKept
      BY <1>1, <2>1, HaltGateRow, RowAlone
    <2> QED
      BY <1>5, <2>4, <2>5 DEF Assess, PlainStep
  <1> QED
    BY <1>3, <1>4, <1>5

\* The lanes of a tick and the send.
LEMMA ActSteps ==
    ASSUME ExecutorInv, NEW i \in Instances,
           ActLane(i) \/ ActEntry(i) \/ Dispatch(i) \/ Guard(i) \/ Sent(i)
    PROVE  PlainStep(i)
  <1>1. RuntimeInv /\ Sound(exe[i])
    BY ProcessSound DEF ExecutorInv
  <1>2. /\ exe[i].pc \in Ticking /\ UNCHANGED row /\ Quiet
    BY DEF ActLane, ActEntry, Dispatch, Guard, Sent, At, Ticking
  <1>3. ~exe[i].failed /\ (exe[i].event => exe[i].stop)
    BY <1>1, <1>2 DEF Sound, Ticking, ShuttingDown
  <1>4. CASE Return(i)
    BY <1>3, <1>4, ReturnLocal, <1>2, RowAlone DEF PlainStep
  <1>5. CASE Becomes(i, [exe[i] EXCEPT !.pc = "dispatch", !.active = TRUE])
    <2>1. Follows(exe[i], [exe[i] EXCEPT !.pc = "dispatch", !.active = TRUE])
      BY <1>1, <1>2, <1>3, TickFollows DEF Lanes
    <2>2. LocalStep(i)
      BY <1>5, <2>1, Zenon DEF LocalStep
    <2> QED
      BY <1>2, <2>2, RowAlone DEF PlainStep
  <1>6. CASE Becomes(i, [exe[i] EXCEPT !.pc = "guard", !.lock = TRUE])
    <2>1. Follows(exe[i], [exe[i] EXCEPT !.pc = "guard", !.lock = TRUE])
      BY <1>1, <1>2, <1>3, TickFollows DEF Lanes
    <2>2. LocalStep(i)
      BY <1>6, <2>1, Zenon DEF LocalStep
    <2> QED
      BY <1>2, <2>2, RowAlone DEF PlainStep
  <1>7. CASE Goto(i, "sending")
    <2>1. LocalStep(i)
      BY <1>3, <1>7, GotoLocal DEF Counters
    <2> QED
      BY <1>2, <2>1, RowAlone DEF PlainStep
  <1>8. \/ Return(i) \/ Goto(i, "sending")
        \/ Becomes(i, [exe[i] EXCEPT !.pc = "dispatch", !.active = TRUE])
        \/ Becomes(i, [exe[i] EXCEPT !.pc = "guard", !.lock = TRUE])
    BY Zenon DEF ActLane, ActEntry, Dispatch, Guard, Sent
  <1> QED
    BY <1>4, <1>5, <1>6, <1>7, <1>8

\* Failures, and the shutdown they lead to.
LEMMA FailureSteps ==
    ASSUME ExecutorInv, NEW i \in Instances,
           HandlerFails(i) \/ TickFails(i) \/ ShutdownFails(i) \/ ReleaseLease(i)
    PROVE  PlainStep(i)
  <1>1. RuntimeInv /\ Sound(exe[i]) /\ exe[i].failed \in BOOLEAN
    BY ProcessSound DEF ExecutorInv, Sound, Attributes
  <1>2. CASE HandlerFails(i)
    BY <1>1, <1>2, EngageRow, LeaveLocal DEF HandlerFails, PlainStep
  <1>3. CASE TickFails(i)
    BY <1>1, <1>3, RowAlone, LeaveLocal DEF TickFails, PlainStep
  <1>4. CASE ShutdownFails(i)
    BY <1>1, <1>4, RowAlone, LeaveLocal, DownLocal DEF ShutdownFails, PlainStep
  <1>5. CASE ReleaseLease(i)
    BY <1>1, <1>5, StopRow, LeaveLocal, DownLocal DEF ReleaseLease, PlainStep
  <1> QED
    BY <1>2, <1>3, <1>4, <1>5

\* The steps of a shutdown.
LEMMA ShutdownSteps ==
    ASSUME ExecutorInv, NEW i \in Instances,
           \/ ShutdownBegin(i) \/ Drain(i) \/ DrainWork(i)
           \/ FinalBeat(i) \/ Stop(i) \/ Stopped(i)
    PROVE  PlainStep(i)
  <1>1. RuntimeInv /\ Sound(exe[i])
    BY ProcessSound DEF ExecutorInv
  <1>2. CASE ShutdownBegin(i)
    <2>1. Follows(exe[i], [exe[i] EXCEPT !.pc = "drain", !.stop = TRUE])
      BY <1>1, StopFollows
    <2>2. LocalStep(i)
      BY <1>2, <2>1, Zenon DEF ShutdownBegin, LocalStep
    <2> QED
      BY <1>1, <1>2, <2>2, HaltGateRow DEF ShutdownBegin, PlainStep
  <1>3. CASE Drain(i)
    <2>1. LocalStep(i)
      BY <1>1, <1>3, GotoLocal DEF Drain, Counters, Ticking, ShuttingDown
    <2> QED
      BY <1>1, <1>3, <2>1, BeatRow DEF Drain, PlainStep
  <1>4. CASE DrainWork(i)
    <2>1. exe[i].pc = "draining" /\ Quiet
      BY <1>4 DEF DrainWork, At
    <2>2. CASE Becomes(i, [exe[i] EXCEPT !.pc = "drain", !.drained = @ + 1]) /\ UNCHANGED row
      <3>1. Follows(exe[i], [exe[i] EXCEPT !.pc = "drain", !.drained = @ + 1])
        BY <1>1, <2>1, StopFollows
      <3>2. LocalStep(i)
        BY <2>2, <3>1, Zenon DEF LocalStep
      <3> QED
        BY <2>1, <2>2, <3>2, RowAlone DEF PlainStep
    <2>3. CASE Goto(i, "final") /\ UNCHANGED row
      <3>1. LocalStep(i)
        BY <2>3, GotoLocal DEF Counters, Ticking, ShuttingDown
      <3> QED
        BY <2>1, <2>3, <3>1, RowAlone DEF PlainStep
    <2>4. CASE Becomes(i, [exe[i] EXCEPT !.pc = "final", !.failed = TRUE]) /\ EngageHalt
      <3>1. Follows(exe[i], [exe[i] EXCEPT !.pc = "final", !.failed = TRUE])
        BY <1>1, StopFollows
      <3>2. LocalStep(i)
        BY <2>4, <3>1, Zenon DEF LocalStep
      <3> QED
        BY <1>1, <2>1, <2>4, <3>2, EngageRow DEF PlainStep
    <2> QED
      BY <1>4, <2>2, <2>3, <2>4, Zenon DEF DrainWork
  <1>5. CASE FinalBeat(i)
    <2>1. LocalStep(i)
      BY <1>5, GotoLocal DEF FinalBeat, Counters, Ticking, ShuttingDown
    <2> QED
      BY <1>1, <1>5, <2>1, BeatRow DEF FinalBeat, PlainStep
  <1>6. CASE Stop(i)
    <2>1. LocalStep(i)
      BY <1>6, GotoLocal DEF Stop, Counters, Ticking, ShuttingDown
    <2> QED
      BY <1>1, <1>6, <2>1, StopRow, RowAlone DEF Stop, PlainStep
  <1>7. CASE Stopped(i)
    <2>1. LocalStep(i)
      BY <1>7, GotoLocal DEF Stopped, Counters, Ticking, ShuttingDown
    <2> QED
      BY <1>1, <1>7, <2>1, StopRow, RowAlone DEF Stopped, PlainStep
  <1> QED
    BY <1>2, <1>3, <1>4, <1>5, <1>6, <1>7

\* A signal sets two flags; a crash loses everything.
LEMMA SignalSteps ==
    ASSUME ExecutorInv, NEW i \in Instances, Signal(i) \/ Crash(i)
    PROVE  PlainStep(i)
  <1>1. Sound(exe[i]) /\ exe[i].active \in BOOLEAN /\ exe[i].lock \in BOOLEAN
    BY ProcessSound DEF Attributes
  <1>2. CASE Signal(i)
    <2>1. Follows(exe[i], [exe[i] EXCEPT !.event = TRUE, !.stop = TRUE,
                                         !.active = @ /\ exe[i].lock])
      BY <1>1 DEF Follows, Sound, Attributes
    <2>2. LocalStep(i)
      BY <1>2, <2>1, Zenon DEF Signal, LocalStep
    <2> QED
      BY <1>2, <2>2, RowAlone DEF Signal, PlainStep
  <1>3. CASE Crash(i)
    BY <1>3, DownLocal, RowAlone DEF Crash, PlainStep
  <1> QED
    BY <1>2, <1>3

\* A call of the store keeps the store's invariant.
LEMMA StepKeepsRuntimeInv ==
    ASSUME RuntimeInv, UNCHANGED now, RuntimeStep \/ UNCHANGED row
    PROVE  RuntimeInv'
  BY RuntimeNextInv DEF RuntimeNext, runtimeVars

\* Plain steps keep the invariant.
LEMMA PlainKeepsInv ==
    ASSUME ExecutorInv, NEW i \in Instances, PlainStep(i)
    PROVE  ExecutorInv'
  <1>1. RuntimeInv'
    BY StepKeepsRuntimeInv DEF ExecutorInv, PlainStep, RowKept, Quiet
  <1>2. PICK e : Becomes(i, e) /\ Follows(exe[i], e)
    BY DEF PlainStep, LocalStep
  <1>3. e \in Attributes /\ exe \in [Instances -> Attributes]
    BY <1>2 DEF Follows, Sound, ExecutorInv, ExecutorTypeOK
  <1>4. /\ exe' \in [Instances -> Attributes] /\ exe'[i] = e
        /\ \A j \in Instances : j # i => exe'[j] = exe[j]
    BY <1>2, <1>3 DEF Becomes
  <1>5. ExecutorTypeOK' /\ ReadyWasReconciled'
    BY <1>4 DEF ExecutorInv, ExecutorTypeOK, ReadyWasReconciled, PlainStep, RowKept, Quiet
  <1>6. ASSUME NEW j \in Instances
        PROVE  (Sound(exe[j]) /\ Fenced(exe[j]))'
    <2>1. /\ Sound(exe[j]) /\ Fenced(exe[j]) /\ Fenced(exe[i])
          /\ row'.token = row.token /\ reconciled' = reconciled
      BY DEF ExecutorInv, PlainStep, RowKept, Quiet
    <2>2. row.token \in Nat /\ Attributes' = Attributes
      BY DEF ExecutorInv, RuntimeInv, RuntimeTypeOK, RuntimeRow, Attributes
    <2>3. CASE j = i
      BY <1>2, <1>4, <2>1, <2>2, <2>3 DEF Follows, Sound, Fenced
    <2>4. CASE j # i
      BY <1>4, <2>1, <2>2, <2>4 DEF Sound, Fenced
    <2> QED
      BY <2>3, <2>4
  <1> QED
    BY <1>1, <1>5, <1>6 DEF ExecutorInv

\* A process that completes the startup reconciliation completes it under the
\* token it holds, which is or is not the row's.
LEMMA ActStartupInv ==
    ASSUME ExecutorInv, NEW i \in Instances, ActStartup(i)
    PROVE  ExecutorInv'
  <1>1. RuntimeInv'
    BY StepKeepsRuntimeInv DEF ExecutorInv, ActStartup
  <1>2. PICK complete \in BOOLEAN :
           /\ Becomes(i, [exe[i] EXCEPT !.pc = "loop", !.startup = complete,
                             !.permitted = FALSE, !.lane = "idle", !.eligible = FALSE])
           /\ reconciled' = (reconciled \/ (complete /\ row.token = exe[i].lease))
    BY DEF ActStartup
  <1>3. Sound(exe[i]) /\ exe[i].pc = "act" /\ exe \in [Instances -> Attributes]
    BY ProcessSound DEF ActStartup, At, ExecutorInv, ExecutorTypeOK
  <1> DEFINE e == [exe[i] EXCEPT !.pc = "loop", !.startup = complete,
                     !.permitted = FALSE, !.lane = "idle", !.eligible = FALSE]
  <1>4. Sound(e) /\ e.lease = exe[i].lease /\ e.startup = complete
    BY <1>3 DEF Sound, Attributes, Counters, Lanes, Ticking, ShuttingDown
  <1>5. Becomes(i, e)
    BY <1>2
  <1> HIDE DEF e
  <1>6. /\ exe' \in [Instances -> Attributes] /\ exe'[i] = e
        /\ \A j \in Instances : j # i => exe'[j] = exe[j]
    BY <1>3, <1>4, <1>5 DEF Becomes, Sound
  <1>7. row' = row /\ (reconciled => reconciled') /\ reconciled' \in BOOLEAN
    BY <1>2 DEF ActStartup
  <1>8. ExecutorTypeOK' /\ ReadyWasReconciled'
    BY <1>6, <1>7 DEF ExecutorInv, ExecutorTypeOK, ReadyWasReconciled
  <1>9. ASSUME NEW j \in Instances
        PROVE  (Sound(exe[j]) /\ Fenced(exe[j]))'
    <2>1. Sound(exe[j]) /\ Fenced(exe[j]) /\ Fenced(exe[i])
      BY DEF ExecutorInv
    <2>2. CASE j = i
      BY <1>2, <1>4, <1>6, <1>7, <2>1, <2>2 DEF Sound, Fenced
    <2>3. CASE j # i
      BY <1>6, <1>7, <2>1, <2>3 DEF Sound, Fenced
    <2> QED
      BY <2>2, <2>3
  <1> QED
    BY <1>1, <1>8, <1>9 DEF ExecutorInv

\* The gate opens for the owner of the row that reconciled under its token.
LEMMA ActGateInv ==
    ASSUME ExecutorInv, NEW i \in Instances, ActGate(i)
    PROVE  ExecutorInv'
  <1>1. RuntimeInv /\ Sound(exe[i]) /\ Fenced(exe[i])
    BY DEF ExecutorInv
  <1>2. LocalStep(i)
    BY <1>1, ReturnLocal DEF ActGate, At, Sound, ShuttingDown
  <1>3. CASE UNCHANGED row
    BY <1>2, <1>3, RowAlone, PlainKeepsInv DEF ActGate, PlainStep
  <1>4. CASE row' # row
    <2>1. PICK at \in Readings :
             Transition(i, exe[i].lease, at, row.process,
                        IF row.gate = "halted" THEN "reconciling" ELSE "ready")
      BY <1>4 DEF ActGate
    <2> DEFINE g == IF row.gate = "halted" THEN "reconciling" ELSE "ready"
    <2>2. g \in Gates /\ row.process \in Processes
      BY <1>1 DEF Gates, RuntimeInv, RuntimeTypeOK, RuntimeRow
    <2>3. RuntimeStep /\ row'.token = row.token
      BY <1>1, <2>1, <2>2, TransitionRow
    <2>4. exe[i].lease = row.token /\ reconciled
      BY <1>1, <2>1 DEF ActGate, Transition, LeaseAuthority, Fenced
    <2>5. RuntimeInv'
      BY <1>1, <2>3, StepKeepsRuntimeInv DEF ActGate, Quiet
    <2>6. PICK e : Becomes(i, e) /\ Follows(exe[i], e)
      BY <1>2 DEF LocalStep
    <2>7. e \in Attributes /\ exe \in [Instances -> Attributes]
      BY <2>6 DEF Follows, Sound, ExecutorInv, ExecutorTypeOK
    <2>8. /\ exe' \in [Instances -> Attributes] /\ exe'[i] = e
          /\ \A j \in Instances : j # i => exe'[j] = exe[j]
      BY <2>6, <2>7 DEF Becomes
    <2>9. reconciled' = reconciled
      BY DEF ActGate, Quiet
    <2>10. ExecutorTypeOK' /\ ReadyWasReconciled'
      BY <2>4, <2>8, <2>9 DEF ExecutorInv, ExecutorTypeOK, ReadyWasReconciled
    <2>11. ASSUME NEW j \in Instances
           PROVE  (Sound(exe[j]) /\ Fenced(exe[j]))'
      <3>1. Sound(exe[j]) /\ Fenced(exe[j]) /\ row.token \in Nat
        BY DEF ExecutorInv, RuntimeInv, RuntimeTypeOK, RuntimeRow
      <3>2. CASE j = i
        BY <1>1, <2>3, <2>4, <2>6, <2>8, <2>9, <3>1, <3>2 DEF Follows, Sound, Fenced
      <3>3. CASE j # i
        BY <2>3, <2>8, <2>9, <3>1, <3>3 DEF Sound, Fenced
      <3> QED
        BY <3>2, <3>3
    <2> QED
      BY <2>5, <2>10, <2>11 DEF ExecutorInv
  <1> QED
    BY <1>3, <1>4

\* A new owner has a token no process ever had, and has reconciled nothing.
LEMMA StartInv ==
    ASSUME ExecutorInv, NEW i \in Instances, Start(i)
    PROVE  ExecutorInv' /\ RuntimeStep
  <1>1. /\ RuntimeInv /\ row.token \in Nat
        /\ exe \in [Instances -> Attributes] /\ now' = now
    BY DEF ExecutorInv, ExecutorTypeOK, RuntimeInv, RuntimeTypeOK, RuntimeRow, Start
  <1>2. PICK at \in Readings : Acquire(i, at, LeaseSeconds)
    BY DEF Start
  <1>3. RuntimeStep
    BY <1>2, ExecutorAssumption DEF RuntimeStep
  <1>4. RuntimeInv'
    BY <1>1, <1>3, StepKeepsRuntimeInv
  <1>5. row'.token = row.token + 1 /\ row'.gate = "halted"
    BY <1>2 DEF Acquire
  <1> DEFINE e == [Idle EXCEPT !.pc = "acquired", !.lease = row.token + 1]
  <1>6. Idle \in Attributes /\ ~Idle.startup /\ ~Idle.failed
    BY IdleSound
  <1>7. Sound(e) /\ ~e.startup /\ e.lease = row.token + 1
    <2>1. row.token + 1 \in Nat
      BY <1>1
    <2>2. /\ e \in Attributes /\ e.pc = "acquired" /\ e.lease = row.token + 1
          /\ ~e.startup /\ ~e.failed
      BY <1>6, <2>1 DEF Attributes, Counters
    <2> QED
      BY <2>2 DEF Sound, Ticking
  <1>8. Becomes(i, e)
    BY DEF Start
  <1> HIDE DEF e
  <1>9. /\ exe' \in [Instances -> Attributes] /\ exe'[i] = e
        /\ \A j \in Instances : j # i => exe'[j] = exe[j]
    BY <1>1, <1>7, <1>8 DEF Becomes, Sound
  <1>10. ExecutorTypeOK' /\ ReadyWasReconciled'
    BY <1>5, <1>9 DEF Start, ExecutorTypeOK, ReadyWasReconciled
  <1>11. ASSUME NEW j \in Instances
         PROVE  (Sound(exe[j]) /\ Fenced(exe[j]))'
    <2>1. Sound(exe[j]) /\ Fenced(exe[j]) /\ exe[j].lease \in Nat
      BY DEF ExecutorInv, Sound, Attributes
    <2>2. CASE j = i
      BY <1>1, <1>5, <1>7, <1>9, <2>2 DEF Sound, Fenced
    <2>3. CASE j # i
      BY <1>1, <1>5, <1>9, <2>1, <2>3 DEF Sound, Fenced
    <2> QED
      BY <2>2, <2>3
  <1> QED
    BY <1>3, <1>4, <1>10, <1>11 DEF ExecutorInv

\* The operator lifts a halt; the gate stays shut.
LEMMA AcknowledgeInv ==
    ASSUME ExecutorInv, Acknowledge
    PROVE  ExecutorInv' /\ RuntimeStep
  <1>1. RuntimeInv /\ UNCHANGED <<exe, now, reconciled>>
    BY DEF ExecutorInv, Acknowledge, Quiet
  <1>2. PICK at \in Readings, reason \in Reasons :
           AcknowledgeStaleManualHalt(row.revision, reason, at)
    BY DEF Acknowledge
  <1>3. row.revision \in 1..row.revision
    BY <1>1, <1>2 DEF AcknowledgeStaleManualHalt, RuntimeInv, RuntimeTypeOK, RuntimeRow,
                      RowReadable
  <1>4. RuntimeStep
    BY <1>2, <1>3 DEF RuntimeStep
  <1>5. RuntimeInv'
    BY <1>1, <1>4, StepKeepsRuntimeInv
  <1>6. row'.token = row.token /\ row'.gate = row.gate
    BY <1>1, <1>2 DEF AcknowledgeStaleManualHalt, Unhalt, RuntimeInv, RuntimeTypeOK, RuntimeRow
  <1>7. ExecutorTypeOK' /\ ReadyWasReconciled'
    BY <1>1, <1>6 DEF ExecutorInv, ExecutorTypeOK, ReadyWasReconciled
  <1>8. (\A i \in Instances : Sound(exe[i]) /\ Fenced(exe[i]))'
    BY <1>1, <1>6 DEF ExecutorInv, Sound, Fenced
  <1> QED
    BY <1>4, <1>5, <1>7, <1>8 DEF ExecutorInv

\* Every step of the processes keeps the invariant, and is a step of the store
\* or leaves the row and the clock alone.
LEMMA ExecutorNextInv ==
    ASSUME ExecutorInv, [ExecutorNext]_executorVars
    PROVE  ExecutorInv' /\ [RuntimeNext]_runtimeVars
  <1>1. CASE UNCHANGED executorVars
    BY <1>1 DEF executorVars, runtimeVars, ExecutorInv, RuntimeInv, RuntimeTypeOK, RowReadable,
                Started, ExecutorTypeOK, ReadyWasReconciled, Sound, Fenced
  <1>2. CASE ClockTick
    <2>1. [RuntimeNext]_runtimeVars /\ RuntimeInv'
      BY <1>2, RuntimeNextInv DEF ClockTick, RuntimeNext, ExecutorInv
    <2> QED
      BY <1>2, <2>1 DEF ClockTick, Tick, ExecutorInv, ExecutorTypeOK, ReadyWasReconciled,
                        Sound, Fenced
  <1>3. CASE Acknowledge
    BY <1>3, AcknowledgeInv DEF RuntimeNext, Acknowledge, Quiet
  <1>4. ASSUME NEW i \in Instances, Start(i)
        PROVE  ExecutorInv' /\ [RuntimeNext]_runtimeVars
    BY <1>4, StartInv DEF RuntimeNext, Start
  <1>5. ASSUME NEW i \in Instances, PlainStep(i)
        PROVE  ExecutorInv' /\ [RuntimeNext]_runtimeVars
    BY <1>5, PlainKeepsInv DEF PlainStep, RowKept, Quiet, RuntimeNext, runtimeVars
  <1>6. ASSUME NEW i \in Instances, ActStartup(i)
        PROVE  ExecutorInv' /\ [RuntimeNext]_runtimeVars
    BY <1>6, ActStartupInv DEF ActStartup, runtimeVars
  <1>7. ASSUME NEW i \in Instances, ActGate(i)
        PROVE  ExecutorInv' /\ [RuntimeNext]_runtimeVars
    <2>1. RuntimeInv /\ row.process \in Processes /\ {"reconciling", "ready"} \subseteq Gates
      BY DEF ExecutorInv, RuntimeInv, RuntimeTypeOK, RuntimeRow, Gates
    <2>2. RuntimeStep \/ UNCHANGED row
      BY <1>7, <2>1, TransitionRow DEF ActGate
    <2> QED
      BY <1>7, <2>2, ActGateInv DEF ActGate, Quiet, RuntimeNext, runtimeVars
  <1>8. ASSUME NEW i \in Instances, Run(i) \/ Signal(i) \/ Crash(i)
        PROVE  PlainStep(i) \/ ActStartup(i) \/ ActGate(i)
    BY <1>8, StartSteps, LoopSteps, ActSteps, FailureSteps, ShutdownSteps, SignalSteps DEF Run
  <1> QED
    BY <1>1, <1>2, <1>3, <1>4, <1>5, <1>6, <1>7, <1>8 DEF ExecutorNext

\* Nothing runs yet.
LEMMA ExecutorInitInv == ExecutorInit => ExecutorInv
  <1> SUFFICES ASSUME ExecutorInit
               PROVE  ExecutorInv
    OBVIOUS
  <1>1. RuntimeInv
    BY RuntimeInitInv DEF ExecutorInit
  <1>2. row.token = 0 /\ row.gate = "halted"
    BY DEF ExecutorInit, RuntimeInit, NoRow
  <1>3. ExecutorTypeOK
    BY IdleSound DEF ExecutorInit, ExecutorTypeOK
  <1>4. ASSUME NEW i \in Instances
        PROVE  Sound(exe[i]) /\ Fenced(exe[i])
    <2>1. exe[i] = Idle
      BY DEF ExecutorInit
    <2> QED
      BY <1>2, <2>1, IdleSound DEF Fenced
  <1> QED
    BY <1>1, <1>2, <1>3, <1>4 DEF ExecutorInv, ReadyWasReconciled

(***************************************************************************)
(* Theorems                                                                *)
(***************************************************************************)

\* The inductive invariant holds whatever the processes, the supervisor, the
\* signals, the operator and the clock do.
THEOREM ExecutorInvariant == ExecutorSpec => []ExecutorInv
  BY ExecutorInitInv, ExecutorNextInv, PTL DEF ExecutorSpec

\* The attributes of every process keep their types, and a shutdown drains at
\* most max_drain_steps times.
THEOREM ExecutorTypeCorrect == ExecutorSpec => []ExecutorTypeOK
  BY ExecutorInvariant, PTL DEF ExecutorInv

\* The row says ready only under a token whose own owner completed the startup
\* reconciliation.
THEOREM ReadyOnlyReconciled == ExecutorSpec => []ReadyWasReconciled
  BY ExecutorInvariant, PTL DEF ExecutorInv

\* The processes implement the runtime store: nothing they do to the row is
\* anything but a call of the store with a token and a revision it issued.
THEOREM ExecutorImplementsStore == ExecutorSpec => RuntimeSpec
  <1>1. ExecutorInit => RuntimeInit
    BY DEF ExecutorInit
  <1> QED
    BY <1>1, ExecutorInvariant, ExecutorNextInv, PTL DEF ExecutorSpec, RuntimeSpec

\* No process ever writes a row that _state_from_row refuses.
THEOREM ExecutorRowReadable == ExecutorSpec => []RowReadable
  BY ExecutorImplementsStore, RowAlwaysReadable, PTL

\* A manual halt survives crashes, restarts and takeovers of the processes.
THEOREM ExecutorHaltsOutliveOwners == ExecutorSpec => HaltOutlivesOwners
  BY ExecutorImplementsStore, HaltsOutliveOwners, PTL

\* Among the processes, too, the row changes hands only after the lease.
THEOREM ExecutorHandsOverWhenLapsed == ExecutorSpec => RuntimeMovesWhenLapsed
  BY ExecutorImplementsStore, RuntimeHandsOverWhenLapsed, PTL

\* A step of one process changes its attributes and nobody else's.
LEMMA BecomesOne ==
    ASSUME ExecutorInv, NEW i \in Instances, NEW e, Becomes(i, e)
    PROVE  exe'[i] = e /\ \A j \in Instances : j # i => exe'[j] = exe[j]
  BY DEF ExecutorInv, ExecutorTypeOK, Becomes

\* Where the common steps lead.
LEMMA NextCounter ==
    ASSUME ExecutorInv, NEW i \in Instances
    PROVE  /\ Return(i) => exe'[i].pc = "loop"
           /\ \A pc : Goto(i, pc) => exe'[i].pc = pc
           /\ \A last, failed : Leave(i, last, failed) => exe'[i].pc = "shutdown"
           /\ Becomes(i, Idle) => exe'[i].pc = "down"
  <1>1. exe[i] \in Attributes /\ Idle \in Attributes
    BY ProcessSound, IdleSound
  <1>2. Return(i) => exe'[i].pc = "loop"
    <2>1. [exe[i] EXCEPT !.pc = "loop", !.lock = FALSE, !.active = FALSE,
             !.permitted = FALSE, !.lane = "idle", !.eligible = FALSE].pc = "loop"
      BY <1>1 DEF Attributes
    <2> QED
      BY <2>1, BecomesOne, Zenon DEF Return
  <1>3. ASSUME NEW pc, Goto(i, pc)
        PROVE  exe'[i].pc = pc
    <2>1. [exe[i] EXCEPT !.pc = pc].pc = pc
      BY <1>1 DEF Attributes
    <2> QED
      BY <1>3, <2>1, BecomesOne, Zenon DEF Goto
  <1>4. ASSUME NEW last, NEW failed, Leave(i, last, failed)
        PROVE  exe'[i].pc = "shutdown"
    <2>1. [Idle EXCEPT !.pc = "shutdown", !.lease = exe[i].lease, !.stop = exe[i].stop,
             !.event = exe[i].event, !.last = last, !.failed = failed].pc = "shutdown"
      BY <1>1 DEF Attributes
    <2> QED
      BY <1>4, <2>1, BecomesOne, Zenon DEF Leave
  <1>5. Becomes(i, Idle) => exe'[i].pc = "down"
    BY BecomesOne DEF Idle
  <1> QED
    BY <1>2, <1>3, <1>4, <1>5

\* Only the guard leads to the send.
LEMMA OnlyGuardSends ==
    ASSUME ExecutorInv, NEW i \in Instances, ~At(i, "sending"), exe'[i].pc = "sending",
           Start(i) \/ Run(i) \/ Signal(i) \/ Crash(i)
    PROVE  Guard(i) /\ Goto(i, "sending")
  <1>1. exe[i] \in Attributes /\ Idle \in Attributes
    BY ProcessSound, IdleSound
  <1>2. ~Return(i) /\ ~Becomes(i, Idle) /\ (\A pc : Goto(i, pc) => pc = "sending")
        /\ (\A last, failed : ~Leave(i, last, failed))
    BY NextCounter
  <1>3. ~Start(i)
    <2>1. [Idle EXCEPT !.pc = "acquired", !.lease = row.token + 1].pc = "acquired"
      BY <1>1 DEF Attributes
    <2> QED
      BY <2>1, BecomesOne DEF Start
  <1>4. ~StartRun(i)
    <2>1. [exe[i] EXCEPT !.pc = "loop", !.startup = FALSE, !.stop = FALSE].pc = "loop"
      BY <1>1 DEF Attributes
    <2> QED
      BY <2>1, BecomesOne DEF StartRun
  <1>5. ~Loop(i)
    <2>1. \A allowed : [exe[i] EXCEPT !.pc = "tick", !.permitted = allowed].pc = "tick"
      BY <1>1 DEF Attributes
    <2> QED
      BY <1>2, <2>1, BecomesOne DEF Loop
  <1>6. ~Assess(i)
    <2>1. ASSUME NEW l
          PROVE  [exe[i] EXCEPT !.pc = "act", !.lane = l,
                    !.eligible = l \in {"entry", "idle"} /\ ~exe[i].stop].pc = "act"
      BY <1>1 DEF Attributes
    <2> QED
      BY <2>1, BecomesOne, Zenon DEF Assess
  <1>7. ~ActStartup(i)
    <2>1. \A b : [exe[i] EXCEPT !.pc = "loop", !.startup = b, !.permitted = FALSE,
                    !.lane = "idle", !.eligible = FALSE].pc = "loop"
      BY <1>1 DEF Attributes
    <2> QED
      BY <2>1, BecomesOne DEF ActStartup
  <1>8. ~ActEntry(i) /\ ~Dispatch(i)
    <2>1. /\ [exe[i] EXCEPT !.pc = "dispatch", !.active = TRUE].pc = "dispatch"
          /\ [exe[i] EXCEPT !.pc = "guard", !.lock = TRUE].pc = "guard"
      BY <1>1 DEF Attributes
    <2> QED
      BY <1>2, <2>1, BecomesOne DEF ActEntry, Dispatch
  <1>9. ~ShutdownBegin(i) /\ ~DrainWork(i)
    <2>1. /\ [exe[i] EXCEPT !.pc = "drain", !.stop = TRUE].pc = "drain"
          /\ \A n : [exe[i] EXCEPT !.pc = "drain", !.drained = n].pc = "drain"
          /\ [exe[i] EXCEPT !.pc = "final", !.failed = TRUE].pc = "final"
      BY <1>1 DEF Attributes
    <2> QED
      BY <1>2, <2>1, BecomesOne DEF ShutdownBegin, DrainWork
  <1>10. ~Signal(i)
    <2>1. [exe[i] EXCEPT !.event = TRUE, !.stop = TRUE,
                         !.active = @ /\ exe[i].lock].pc = exe[i].pc
      BY <1>1 DEF Attributes
    <2> QED
      BY <2>1, BecomesOne, Zenon DEF Signal, At
  <1>11. ~StartFails(i) /\ ~StartBeat(i) /\ ~TickBegin(i) /\ ~ActLane(i) /\ ~ActGate(i)
         /\ ~Sent(i) /\ ~Crash(i)
    BY <1>2 DEF StartFails, StartBeat, TickBegin, ActLane, ActGate, Sent, Crash
  <1>12. ~HandlerFails(i) /\ ~TickFails(i) /\ ~Drain(i) /\ ~FinalBeat(i) /\ ~Stop(i)
         /\ ~Stopped(i) /\ ~ReleaseLease(i) /\ ~ShutdownFails(i)
    BY <1>2 DEF HandlerFails, TickFails, Drain, FinalBeat, Stop, Stopped, ReleaseLease,
                ShutdownFails
  <1>13. Guard(i)
    BY <1>3, <1>4, <1>5, <1>6, <1>7, <1>8, <1>9, <1>10, <1>11, <1>12 DEF Run
  <1> QED
    BY <1>2, <1>13 DEF Guard

\* A send begins only with authority: the process owns the row, reconciled under
\* its token, saw no halt, no signal and no failure.
THEOREM SendsAuthorised == ExecutorSpec => SendsUnderOwnAuthority
  <1>1. ASSUME ExecutorInv, ExecutorNext
        PROVE  SendNeedsAuthority
    <2> SUFFICES ASSUME NEW i \in Instances, ~At(i, "sending"), exe'[i].pc = "sending"
                 PROVE  /\ row.token = exe[i].lease /\ row.instance = i
                        /\ reconciled /\ ~exe[i].failed
                        /\ row.halt = NoReason
                        /\ ~exe[i].event
      BY DEF SendNeedsAuthority
    <2>1. PICK j \in Instances : Start(j) \/ Run(j) \/ Signal(j) \/ Crash(j)
      BY <1>1 DEF ExecutorNext, Acknowledge, ClockTick, At
    <2>2. \E e : Becomes(j, e)
      BY <2>1, Zenon
         DEF Start, Run, StartFails, StartBeat, StartRun, Loop, TickBegin, Assess, ActLane,
             ActStartup, ActEntry, ActGate, Dispatch, Guard, Sent, HandlerFails, TickFails,
             ShutdownBegin, Drain, DrainWork, FinalBeat, Stop, Stopped, ReleaseLease,
             ShutdownFails, Signal, Crash, Goto, Return, Leave
    <2>3. j = i
      BY <1>1, <2>2, BecomesOne DEF At
    <2>4. Guard(i) /\ Goto(i, "sending")
      BY <1>1, <2>1, <2>3, OnlyGuardSends
    <2>5. ~Return(i)
      BY <1>1, NextCounter
    <2>6. /\ exe[i].pc = "guard" /\ ~exe[i].stop /\ row.token = exe[i].lease
          /\ row.instance = i /\ row.gate = "ready" /\ row.halt = NoReason
      BY <2>4, <2>5 DEF Guard, At, EffectiveReady
    <2> QED
      BY <1>1, <2>6 DEF ExecutorInv, ReadyWasReconciled, Sound, Ticking, ShuttingDown
  <1>2. ExecutorInv /\ [ExecutorNext]_executorVars => [SendNeedsAuthority]_executorVars
    BY <1>1
  <1> QED
    BY <1>2, ExecutorInvariant, PTL DEF ExecutorSpec, SendsUnderOwnAuthority

=============================================================================

-------------------------- MODULE RuntimeStoreProofs --------------------------
(***************************************************************************)
(* Proofs about RuntimeStore, for any number of instances, any leases and  *)
(* any age of the clock readings.                                          *)
(***************************************************************************)
EXTENDS RuntimeStore, TLAPS

RuntimeInv == RuntimeTypeOK /\ RowReadable

\* A store without a row satisfies the invariant.
LEMMA RuntimeInitInv == RuntimeInit => RuntimeInv
  BY DEF RuntimeInit, RuntimeInv, RuntimeTypeOK, RowReadable, RuntimeRow, NoRow, Started,
         Processes, Gates, Never

\* acquire writes a complete fresh row.
LEMMA AcquireInv ==
    ASSUME RuntimeInv, NEW i \in Instances, NEW at \in Nat, NEW d \in Durations,
           Acquire(i, at, d), UNCHANGED now
    PROVE  RuntimeInv'
  <1>1. d \in Nat \ {0}
    BY RuntimeAssumption
  <1>2. RuntimeTypeOK'
    BY <1>1 DEF Acquire, RuntimeInv, RuntimeTypeOK, RuntimeRow, Processes, Gates, Never
  <1>3. row.halt # NoReason => row'.gate = "halted"
    BY DEF Acquire
  <1>4. RowReadable'
    BY <1>1, <1>3 DEF Acquire, RuntimeInv, RuntimeTypeOK, RuntimeRow, RowReadable, Started, Never
  <1> QED
    BY <1>2, <1>4 DEF RuntimeInv

\* The columns the operations write keep the type of the row.
LEMMA HeartbeatColumns ==
    ASSUME NEW r \in RuntimeRow, NEW n \in Nat, NEW at \in Int, NEW until \in Int
    PROVE  [r EXCEPT !.renewed = at, !.expires = until, !.beat = at,
                     !.beatExpires = until, !.revision = n, !.updated = at] \in RuntimeRow
  BY DEF RuntimeRow

\* A transition writes the process state and the gate.
LEMMA TransitionColumns ==
    ASSUME NEW r \in RuntimeRow, NEW n \in Nat, NEW at \in Int,
           NEW p \in Processes, NEW g \in Gates
    PROVE  [r EXCEPT !.process = p, !.gate = g, !.revision = n, !.updated = at] \in RuntimeRow
  BY DEF RuntimeRow

\* Engaging a halt writes its reason and the gate, lifting it the reason only.
LEMMA HaltColumns ==
    ASSUME NEW r \in RuntimeRow, NEW n \in Nat, NEW at \in Int,
           NEW h \in Reasons \cup {NoReason}, NEW g \in Gates
    PROVE  /\ [r EXCEPT !.halt = h, !.gate = g, !.revision = n, !.updated = at] \in RuntimeRow
           /\ [r EXCEPT !.halt = h, !.revision = n, !.updated = at] \in RuntimeRow
  BY DEF RuntimeRow

\* The three steps of a stop.
LEMMA StopColumns ==
    ASSUME NEW r \in RuntimeRow, NEW n \in Nat, NEW at \in Int,
           NEW p \in Processes, NEW g \in Gates,
           NEW l \in {"not_started", "active", "released"}
    PROVE  /\ [r EXCEPT !.process = p, !.gate = g, !.stopAt = at,
                        !.revision = n, !.updated = at] \in RuntimeRow
           /\ [r EXCEPT !.process = p, !.revision = n, !.updated = at] \in RuntimeRow
           /\ [r EXCEPT !.lease = l, !.gate = g, !.releasedAt = at,
                        !.revision = n, !.updated = at] \in RuntimeRow
  BY DEF RuntimeRow

\* The next revision is a number.
LEMMA NextRevision == RuntimeTypeOK => row.revision + 1 \in Nat
  BY DEF RuntimeTypeOK, RuntimeRow

\* heartbeat extends the lease and the heartbeat to the same instant.
LEMMA HeartbeatInv ==
    ASSUME RuntimeInv, NEW i \in Instances, NEW k, NEW at \in Nat, NEW d \in Durations,
           Heartbeat(i, k, at, d), UNCHANGED now
    PROVE  RuntimeInv'
  <1>1. d \in Nat \ {0}
    BY RuntimeAssumption
  <1>2. RuntimeTypeOK'
    <2>1. row.revision + 1 \in Nat /\ at \in Int /\ at + d \in Int
      BY <1>1, NextRevision DEF RuntimeInv
    <2> QED
      BY <2>1, HeartbeatColumns, Zenon DEF Heartbeat, RuntimeInv, RuntimeTypeOK
  <1>3. RowReadable'
    BY <1>1 DEF Heartbeat, LeaseAuthority, NotBackwards, RuntimeInv, RuntimeTypeOK,
                RuntimeRow, RowReadable, Started, Never
  <1> QED
    BY <1>2, <1>3 DEF RuntimeInv

\* transition opens the gate only for a running process with a heartbeat.
LEMMA TransitionInv ==
    ASSUME RuntimeInv, NEW i \in Instances, NEW k, NEW at \in Nat,
           NEW p \in Processes, NEW g \in Gates,
           Transition(i, k, at, p, g), UNCHANGED now
    PROVE  RuntimeInv'
  <1>1. RuntimeTypeOK'
    <2>1. row.revision + 1 \in Nat /\ at \in Int
      BY NextRevision DEF RuntimeInv
    <2> QED
      BY <2>1, TransitionColumns, Zenon DEF Transition, RuntimeInv, RuntimeTypeOK
  <1>2. row.process \notin {"stopping", "stopped"}
    BY DEF Transition, RuntimeInv, RuntimeTypeOK, RuntimeRow, Processes, ProcessTransitions
  <1>3. RowReadable'
    BY <1>2 DEF Transition, LeaseAuthority, NotBackwards, RuntimeInv, RuntimeTypeOK,
                RuntimeRow, RowReadable, Started, Never
  <1> QED
    BY <1>1, <1>3 DEF RuntimeInv

\* A manual halt shuts the gate.
LEMMA EngageInv ==
    ASSUME RuntimeInv, NEW at \in Nat, NEW reason \in Reasons, UNCHANGED now,
           EngageManualHalt(at, reason)
    PROVE  RuntimeInv'
  <1>1. /\ row.revision + 1 \in Nat /\ at \in Int
        /\ "halted" \in Gates /\ reason \in Reasons \cup {NoReason}
    BY NextRevision DEF RuntimeInv, Gates
  <1>2. RuntimeTypeOK'
    BY <1>1, HaltColumns, Zenon DEF EngageManualHalt, RuntimeInv, RuntimeTypeOK
  <1>3. /\ row'.halt = reason /\ row'.gate = "halted" /\ row'.updated = at
        /\ row'.revision = row.revision + 1
        /\ row'.token = row.token /\ row'.lease = row.lease /\ row'.process = row.process
        /\ row'.acquired = row.acquired /\ row'.renewed = row.renewed
        /\ row'.expires = row.expires /\ row'.beat = row.beat
        /\ row'.beatExpires = row.beatExpires /\ row'.stopAt = row.stopAt
        /\ row'.releasedAt = row.releasedAt
    BY DEF EngageManualHalt, RuntimeInv, RuntimeTypeOK, RuntimeRow
  <1>4. RowReadable'
    BY <1>3 DEF EngageManualHalt, NotBackwards, RuntimeInv, RuntimeTypeOK, RuntimeRow,
                RowReadable, Started, Never
  <1> QED
    BY <1>2, <1>4 DEF RuntimeInv

\* Lifting a manual halt leaves the gate shut.
LEMMA UnhaltInv ==
    ASSUME RuntimeInv, NEW at \in Nat, Started, UNCHANGED now, Unhalt(at)
    PROVE  RuntimeInv'
  <1>1. row.revision + 1 \in Nat /\ at \in Int /\ NoReason \in Reasons \cup {NoReason}
        /\ "halted" \in Gates
    BY NextRevision DEF RuntimeInv, Gates
  <1>2. RuntimeTypeOK'
    BY <1>1, HaltColumns, Zenon DEF Unhalt, RuntimeInv, RuntimeTypeOK
  <1>3. RowReadable'
    BY DEF Unhalt, NotBackwards, RuntimeInv, RuntimeTypeOK, RuntimeRow,
           RowReadable, Started, Never
  <1> QED
    BY <1>2, <1>3 DEF RuntimeInv

\* The graceful stop: stopping, stopped, released, in this order.
LEMMA StopInv ==
    ASSUME RuntimeInv, NEW i \in Instances, NEW k, NEW at \in Nat, UNCHANGED now,
           RequestStop(i, k, at) \/ MarkStopped(i, k, at) \/ Release(i, k, at)
    PROVE  RuntimeInv'
  <1>1. /\ row.revision + 1 \in Nat /\ at \in Int
        /\ "halted" \in Gates /\ "stopping" \in Processes /\ "stopped" \in Processes
        /\ "released" \in {"not_started", "active", "released"}
    BY NextRevision DEF RuntimeInv, Gates, Processes
  <1>2. CASE RequestStop(i, k, at)
    <2>1. RuntimeTypeOK'
      BY <1>1, <1>2, StopColumns, Zenon DEF RequestStop, RuntimeInv, RuntimeTypeOK
    <2>2. RowReadable'
      BY <1>2 DEF RequestStop, LeaseAuthority, NotBackwards, RuntimeInv, RuntimeTypeOK,
                  RuntimeRow, RowReadable, Started, Never
    <2> QED
      BY <2>1, <2>2 DEF RuntimeInv
  <1>3. CASE MarkStopped(i, k, at)
    <2>1. RuntimeTypeOK'
      BY <1>1, <1>3, StopColumns, Zenon DEF MarkStopped, RuntimeInv, RuntimeTypeOK
    <2>2. RowReadable'
      BY <1>3 DEF MarkStopped, LeaseAuthority, NotBackwards, RuntimeInv, RuntimeTypeOK,
                  RuntimeRow, RowReadable, Started, Never
    <2> QED
      BY <2>1, <2>2 DEF RuntimeInv
  <1>4. CASE Release(i, k, at)
    <2>1. RuntimeTypeOK'
      BY <1>1, <1>4, StopColumns, Zenon DEF Release, RuntimeInv, RuntimeTypeOK
    <2>2. RowReadable'
      BY <1>4 DEF Release, LeaseAuthority, NotBackwards, RuntimeInv, RuntimeTypeOK,
                  RuntimeRow, RowReadable, Started, Never
    <2> QED
      BY <2>1, <2>2 DEF RuntimeInv
  <1> QED
    BY <1>2, <1>3, <1>4

\* Every step of the runtime store keeps the invariant.
LEMMA RuntimeNextInv == RuntimeInv /\ [RuntimeNext]_runtimeVars => RuntimeInv'
  <1> SUFFICES ASSUME RuntimeInv, [RuntimeNext]_runtimeVars
               PROVE  RuntimeInv'
    OBVIOUS
  <1>1. CASE Tick \/ UNCHANGED runtimeVars
    BY <1>1 DEF Tick, runtimeVars, RuntimeInv, RuntimeTypeOK, RowReadable, Started
  <1>2. CASE RuntimeStep /\ UNCHANGED now
    <2>1. PICK at \in Readings :
             \/ \E i \in Instances, d \in Durations : Acquire(i, at, d)
             \/ \E reason \in Reasons : EngageManualHalt(at, reason)
             \/ \E reason \in Reasons, v \in 1..row.revision :
                   AcknowledgeStaleManualHalt(v, reason, at)
             \/ \E i \in Instances, k \in 1..row.token :
                   \/ \E d \in Durations : Heartbeat(i, k, at, d)
                   \/ \E p \in Processes, g \in Gates : Transition(i, k, at, p, g)
                   \/ \E v \in 1..row.revision : ClearManualHalt(i, k, v, at)
                   \/ RequestStop(i, k, at)
                   \/ MarkStopped(i, k, at)
                   \/ Release(i, k, at)
      BY <1>2 DEF RuntimeStep
    <2>2. at \in Nat
      BY DEF Readings
    <2>3. CASE \E i \in Instances, d \in Durations : Acquire(i, at, d)
      BY <1>2, <2>2, <2>3, AcquireInv
    <2>4. CASE \E reason \in Reasons : EngageManualHalt(at, reason)
      BY <1>2, <2>2, <2>4, EngageInv
    <2>5. CASE \E reason \in Reasons, v \in 1..row.revision :
                  AcknowledgeStaleManualHalt(v, reason, at)
      BY <1>2, <2>2, <2>5, UnhaltInv DEF AcknowledgeStaleManualHalt
    <2>6. ASSUME NEW i \in Instances, NEW k \in 1..row.token,
                 \/ \E d \in Durations : Heartbeat(i, k, at, d)
                 \/ \E p \in Processes, g \in Gates : Transition(i, k, at, p, g)
                 \/ \E v \in 1..row.revision : ClearManualHalt(i, k, v, at)
                 \/ RequestStop(i, k, at)
                 \/ MarkStopped(i, k, at)
                 \/ Release(i, k, at)
          PROVE  RuntimeInv'
      <3>1. CASE \E d \in Durations : Heartbeat(i, k, at, d)
        BY <1>2, <2>2, <3>1, HeartbeatInv
      <3>2. CASE \E p \in Processes, g \in Gates : Transition(i, k, at, p, g)
        BY <1>2, <2>2, <3>2, TransitionInv
      <3>3. CASE \E v \in 1..row.revision : ClearManualHalt(i, k, v, at)
        BY <1>2, <2>2, <3>3, UnhaltInv DEF ClearManualHalt, LeaseAuthority, Started
      <3>4. CASE RequestStop(i, k, at) \/ MarkStopped(i, k, at) \/ Release(i, k, at)
        BY <1>2, <2>2, <3>4, StopInv
      <3> QED
        BY <2>6, <3>1, <3>2, <3>3, <3>4
    <2> QED
      BY <2>1, <2>3, <2>4, <2>5, <2>6
  <1> QED
    BY <1>1, <1>2 DEF RuntimeNext

\* The inductive invariant holds in every reachable state of the runtime store.
THEOREM RuntimeInvariant == RuntimeSpec => []RuntimeInv
  BY RuntimeInitInv, RuntimeNextInv, PTL DEF RuntimeSpec

\* The columns of executor_runtime_state keep their types.
THEOREM RuntimeTypeCorrect == RuntimeSpec => []RuntimeTypeOK
  BY RuntimeInvariant, PTL DEF RuntimeInv

\* No operation of the runtime store writes a row that _state_from_row refuses.
THEOREM RowAlwaysReadable == RuntimeSpec => []RowReadable
  BY RuntimeInvariant, PTL DEF RuntimeInv

\* What one write of the row does to the halt, the gate and the owner: a new
\* owner keeps the halt and starts with the gate shut; every other write keeps
\* the owner, and changes a halt only by lifting it.
LEMMA WriteKeepsOrHandsOver ==
    ASSUME RuntimeInv, RuntimeStep
    PROVE  \/ /\ row.lease = "active" => row.expires <= now
              /\ row'.token = row.token + 1
              /\ row'.gate = "halted"
              /\ row'.halt = row.halt
           \/ /\ row'.token = row.token
              /\ row'.instance = row.instance
              /\ row.halt # NoReason =>
                    row'.halt = row.halt \/ (row'.halt = NoReason /\ row'.gate = "halted")
  <1>1. row \in RuntimeRow /\ now \in Nat
    BY DEF RuntimeInv, RuntimeTypeOK
  <1>2. Started /\ row.halt # NoReason => row.gate = "halted"
    BY DEF RuntimeInv, RowReadable
  <1>3. PICK at \in Readings :
           \/ \E i \in Instances, d \in Durations : Acquire(i, at, d)
           \/ \E reason \in Reasons : EngageManualHalt(at, reason)
           \/ \E reason \in Reasons, v \in 1..row.revision :
                 AcknowledgeStaleManualHalt(v, reason, at)
           \/ \E i \in Instances, k \in 1..row.token :
                 \/ \E d \in Durations : Heartbeat(i, k, at, d)
                 \/ \E p \in Processes, g \in Gates : Transition(i, k, at, p, g)
                 \/ \E v \in 1..row.revision : ClearManualHalt(i, k, v, at)
                 \/ RequestStop(i, k, at)
                 \/ MarkStopped(i, k, at)
                 \/ Release(i, k, at)
    BY DEF RuntimeStep
  <1>4. at \in Nat /\ at <= now
    BY <1>1 DEF Readings
  <1>5. CASE \E i \in Instances, d \in Durations : Acquire(i, at, d)
    BY <1>1, <1>4, <1>5 DEF Acquire, RuntimeRow
  <1>6. CASE \E reason \in Reasons : EngageManualHalt(at, reason)
    BY <1>1, <1>6 DEF EngageManualHalt, RuntimeRow
  <1>7. CASE Started /\ Unhalt(at)
    BY <1>1, <1>2, <1>7 DEF Unhalt, RuntimeRow
  <1>8. ASSUME NEW i \in Instances, NEW k \in 1..row.token,
               \/ \E d \in Durations : Heartbeat(i, k, at, d)
               \/ \E p \in Processes, g \in Gates : Transition(i, k, at, p, g)
               \/ RequestStop(i, k, at)
               \/ MarkStopped(i, k, at)
               \/ Release(i, k, at)
        PROVE  /\ row'.token = row.token
               /\ row'.instance = row.instance
               /\ row'.halt = row.halt
    BY <1>1, <1>8 DEF Heartbeat, Transition, RequestStop, MarkStopped, Release, RuntimeRow
  <1>9. (\E reason \in Reasons, v \in 1..row.revision : AcknowledgeStaleManualHalt(v, reason, at))
           => Started /\ Unhalt(at)
    BY DEF AcknowledgeStaleManualHalt
  <1>10. ASSUME NEW i \in Instances, NEW k \in 1..row.token,
                \E v \in 1..row.revision : ClearManualHalt(i, k, v, at)
         PROVE  Started /\ Unhalt(at)
    BY <1>10 DEF ClearManualHalt, LeaseAuthority, Started
  <1> QED
    BY <1>3, <1>5, <1>6, <1>7, <1>8, <1>9, <1>10

\* A manual halt survives takeovers and restarts and lifts with the gate shut.
THEOREM HaltsOutliveOwners == RuntimeSpec => HaltOutlivesOwners
  <1>1. RuntimeInv /\ [RuntimeNext]_runtimeVars => [HaltStaysOrIsLifted]_runtimeVars
    <2> SUFFICES ASSUME RuntimeInv, RuntimeNext
                 PROVE  HaltStaysOrIsLifted \/ UNCHANGED runtimeVars
      OBVIOUS
    <2>1. CASE Tick
      BY <2>1 DEF Tick, HaltStaysOrIsLifted
    <2>2. CASE RuntimeStep
      BY <2>2, WriteKeepsOrHandsOver DEF HaltStaysOrIsLifted
    <2> QED
      BY <2>1, <2>2 DEF RuntimeNext
  <1> QED
    BY <1>1, RuntimeInvariant, PTL DEF RuntimeSpec, HaltOutlivesOwners

\* The runtime changes hands only with a higher token, after the lease.
THEOREM RuntimeHandsOverWhenLapsed == RuntimeSpec => RuntimeMovesWhenLapsed
  <1>1. RuntimeInv /\ [RuntimeNext]_runtimeVars => [OwnerLapsesOrStays]_runtimeVars
    <2> SUFFICES ASSUME RuntimeInv, RuntimeNext
                 PROVE  OwnerLapsesOrStays \/ UNCHANGED runtimeVars
      OBVIOUS
    <2>1. row.token \in Nat
      BY DEF RuntimeInv, RuntimeTypeOK, RuntimeRow
    <2>2. CASE Tick
      BY <2>1, <2>2 DEF Tick, OwnerLapsesOrStays
    <2>3. CASE RuntimeStep
      BY <2>1, <2>3, WriteKeepsOrHandsOver DEF OwnerLapsesOrStays
    <2> QED
      BY <2>2, <2>3 DEF RuntimeNext
  <1> QED
    BY <1>1, RuntimeInvariant, PTL DEF RuntimeSpec, RuntimeMovesWhenLapsed

=============================================================================

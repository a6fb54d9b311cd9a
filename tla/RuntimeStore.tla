----------------------------- MODULE RuntimeStore -----------------------------
(***************************************************************************)
(* ExecutorRuntimeStore (executor_runtime_store.py): the single row that   *)
(* says which executor instance owns the runtime, how it is doing, whether *)
(* it may take risk, and whether an operator or a failure halted it.       *)
(*                                                                         *)
(* Every operation is one transaction that reads the row, decides, and     *)
(* writes it with the next revision.  Callers are open: any instance may   *)
(* call with any fencing token and revision it ever saw, and with a clock  *)
(* reading taken before the write lock was granted.                        *)
(***************************************************************************)
EXTENDS Integers

CONSTANTS
    Instances,    \* executor processes, by instance id
    Reasons,      \* manual halt reasons
    Durations,    \* lease lengths a call can ask for
    MaxSkew,      \* bound: age of a caller's clock reading
    MaxTime,      \* bound: last instant of the clock
    NoInstance,
    NoReason

ASSUME RuntimeAssumption ==
    /\ Durations \subseteq Nat \ {0}
    /\ MaxSkew \in Nat
    /\ MaxTime \in Nat
    /\ NoInstance \notin Instances
    /\ NoReason \notin Reasons

VARIABLES
    now,  \* the wall clock
    row   \* executor_runtime_state

runtimeVars == <<now, row>>

Never == -1

\* Before the first acquisition there is no row.
NoRow == [token |-> 0, lease |-> "not_started", instance |-> NoInstance,
          process |-> "stopped", gate |-> "halted", halt |-> NoReason,
          acquired |-> Never, renewed |-> Never, expires |-> Never,
          beat |-> Never, beatExpires |-> Never, stopAt |-> Never,
          releasedAt |-> Never, revision |-> 0, updated |-> Never]

RuntimeInit == now = 0 /\ row = NoRow

ProcessTransitions ==
    [starting |-> {"running", "degraded", "stopping"},
     running  |-> {"degraded", "stopping"},
     degraded |-> {"running", "stopping"},
     stopping |-> {"stopped"},
     stopped  |-> {}]

RiskTransitions ==
    [halted      |-> {"reconciling"},
     reconciling |-> {"halted", "ready"},
     ready       |-> {"halted", "reconciling"}]

Readings == {t \in 0..now : now - MaxSkew <= t}

Started == row.lease # "not_started"

\* _lease_authority: the caller is the owner and its lease has not run out.
LeaseAuthority(i, k, at) ==
    /\ row.lease = "active"
    /\ row.token = k
    /\ row.instance = i
    /\ at < row.expires

\* A write at a reading older than the row is refused: the clock moved back.
NotBackwards(at) == row.updated <= at

\* Mutant: a new owner starts with a clean slate.
AcquireClearingHalt(i, at, d) ==
    /\ Started => NotBackwards(at)
    /\ row.lease = "active" => row.expires <= at
    /\ row' = [token |-> row.token + 1, lease |-> "active", instance |-> i,
               process |-> "starting", gate |-> "halted", halt |-> NoReason,
               acquired |-> at, renewed |-> at, expires |-> at + d,
               beat |-> Never, beatExpires |-> Never, stopAt |-> Never,
               releasedAt |-> Never, revision |-> row.revision + 1, updated |-> at]

\* First start, restart after a release, or takeover of a lapsed lease; a
\* manual halt of the previous owner stays.
Acquire(i, at, d) ==
    /\ Started => NotBackwards(at)
    /\ row.lease = "active" => row.expires <= at
    /\ row' = [token |-> row.token + 1, lease |-> "active", instance |-> i,
               process |-> "starting", gate |-> "halted", halt |-> row.halt,
               acquired |-> at, renewed |-> at, expires |-> at + d,
               beat |-> Never, beatExpires |-> Never, stopAt |-> Never,
               releasedAt |-> Never, revision |-> row.revision + 1, updated |-> at]

\* Mutant: a heartbeat need not come from the current owner.
HeartbeatUnfenced(i, k, at, d) ==
    /\ row.lease = "active"
    /\ NotBackwards(at)
    /\ row' = [row EXCEPT !.instance = i, !.renewed = at, !.expires = at + d, !.beat = at,
                          !.beatExpires = at + d, !.revision = @ + 1, !.updated = at]

Heartbeat(i, k, at, d) ==
    /\ LeaseAuthority(i, k, at)
    /\ NotBackwards(at)
    /\ row' = [row EXCEPT !.renewed = at, !.expires = at + d, !.beat = at,
                          !.beatExpires = at + d, !.revision = @ + 1, !.updated = at]

\* transition to process state p and risk gate g; either may be the present
\* one.  The call that changes neither returns the lease and writes nothing.
Transition(i, k, at, p, g) ==
    /\ LeaseAuthority(i, k, at)
    /\ p # row.process => p \in ProcessTransitions[row.process]
    /\ g # row.gate => g \in RiskTransitions[row.gate]
    /\ row.halt # NoReason => g = "halted"
    /\ g = "ready" => p = "running" /\ row.beatExpires # Never /\ at < row.beatExpires
    /\ p \notin {"stopping", "stopped"}
    /\ <<p, g>> # <<row.process, row.gate>>
    /\ NotBackwards(at)
    /\ row' = [row EXCEPT !.process = p, !.gate = g, !.revision = @ + 1, !.updated = at]

\* Needs no lease: whoever finds a reason may halt.  A halt that is already
\* engaged keeps its reason.
EngageManualHalt(at, reason) ==
    /\ Started
    /\ row.halt = NoReason
    /\ NotBackwards(at)
    /\ row' = [row EXCEPT !.halt = reason, !.gate = "halted",
                          !.revision = @ + 1, !.updated = at]

Unhalt(at) ==
    /\ row.halt # NoReason
    /\ NotBackwards(at)
    /\ row' = [row EXCEPT !.halt = NoReason, !.revision = @ + 1, !.updated = at]

ClearManualHalt(i, k, revision, at) ==
    /\ LeaseAuthority(i, k, at)
    /\ row.revision = revision
    /\ Unhalt(at)

\* The attended way, when no live owner could clear its own halt.
AcknowledgeStaleManualHalt(revision, reason, at) ==
    /\ Started
    /\ row.revision = revision
    /\ row.halt = reason
    /\ row.process = "stopped" \/ row.expires <= at
    /\ Unhalt(at)

RequestStop(i, k, at) ==
    /\ LeaseAuthority(i, k, at)
    /\ row.process \notin {"stopping", "stopped"}
    /\ NotBackwards(at)
    /\ row' = [row EXCEPT !.process = "stopping", !.gate = "halted", !.stopAt = at,
                          !.revision = @ + 1, !.updated = at]

MarkStopped(i, k, at) ==
    /\ LeaseAuthority(i, k, at)
    /\ row.process = "stopping"
    /\ NotBackwards(at)
    /\ row' = [row EXCEPT !.process = "stopped", !.revision = @ + 1, !.updated = at]

\* Mutant: the release does not record when it happened.
ReleaseUnstamped(i, k, at) ==
    /\ LeaseAuthority(i, k, at)
    /\ row.process = "stopped"
    /\ NotBackwards(at)
    /\ row' = [row EXCEPT !.lease = "released", !.gate = "halted",
                          !.revision = @ + 1, !.updated = at]

Release(i, k, at) ==
    /\ LeaseAuthority(i, k, at)
    /\ row.process = "stopped"
    /\ NotBackwards(at)
    /\ row' = [row EXCEPT !.lease = "released", !.gate = "halted", !.releasedAt = at,
                          !.revision = @ + 1, !.updated = at]

Processes == {"starting", "running", "degraded", "stopping", "stopped"}

Gates == {"halted", "reconciling", "ready"}

RuntimeStep ==
    \E at \in Readings :
       \/ \E i \in Instances, d \in Durations : Acquire(i, at, d)
       \/ \E reason \in Reasons : EngageManualHalt(at, reason)
       \/ \E reason \in Reasons, v \in 1..row.revision :
             AcknowledgeStaleManualHalt(v, reason, at)
       \/ \E i \in Instances, k \in 1..row.token :
             \/ \E d \in Durations : Heartbeat(i, k, at, d)
             \/ \E p \in Processes, g \in Gates : Transition(i, k, at, p, g)
             \/ \E v \in 1..row.revision : ClearManualHalt(i, k, v, at)
             \/ RequestStop(i, k, at)
             \/ MarkStopped(i, k, at)
             \/ Release(i, k, at)

Tick == now < MaxTime /\ now' = now + 1 /\ UNCHANGED row

RuntimeNext ==
    \/ Tick
    \/ RuntimeStep /\ UNCHANGED now

RuntimeSpec == RuntimeInit /\ [][RuntimeNext]_runtimeVars

(***************************************************************************)
(* Properties.                                                             *)
(***************************************************************************)

RuntimeRow ==
    [token : Nat, lease : {"not_started", "active", "released"},
     instance : Instances \cup {NoInstance}, process : Processes, gate : Gates,
     halt : Reasons \cup {NoReason}, acquired : Int, renewed : Int, expires : Int,
     beat : Int, beatExpires : Int, stopAt : Int, releasedAt : Int,
     revision : Nat, updated : Int]

\* The clock and the columns of the row.
RuntimeTypeOK == now \in Nat /\ row \in RuntimeRow

\* Every row an operation writes passes the checks of _state_from_row, which
\* runs inside the same transaction and before every later call: no sequence of
\* accepted calls ends in a call (a heartbeat, a halt, a stop, a takeover) whose
\* guards pass and which the store then rolls back as corrupt.
RowReadable ==
    Started =>
       /\ 0 < row.token /\ 0 < row.revision
       /\ 0 <= row.acquired /\ row.acquired <= row.renewed /\ row.renewed <= row.expires
       /\ (row.beat = Never) <=> (row.beatExpires = Never)
       /\ row.beat # Never => /\ row.acquired <= row.beat
                              /\ row.beat <= row.beatExpires
                              /\ row.beatExpires <= row.expires
       /\ row.halt # NoReason => row.gate = "halted"
       /\ row.gate = "ready" => row.process = "running" /\ row.beatExpires # Never
       /\ row.lease = "released" => row.releasedAt # Never /\ row.process = "stopped"
       /\ row.lease = "active" => row.releasedAt = Never
       /\ row.process \in {"stopping", "stopped"} =>
             row.stopAt # Never /\ row.gate = "halted"
       /\ row.process \notin {"stopping", "stopped"} => row.stopAt = Never
       /\ row.acquired <= row.updated
       /\ row.stopAt # Never => row.acquired <= row.stopAt /\ row.stopAt <= row.updated
       /\ row.releasedAt # Never => /\ row.stopAt # Never
                                    /\ row.stopAt <= row.releasedAt
                                    /\ row.releasedAt <= row.updated

\* One step of HaltOutlivesOwners.
HaltStaysOrIsLifted ==
    row.halt # NoReason =>
       \/ row'.halt = row.halt
       \/ /\ row'.halt = NoReason
          /\ row'.token = row.token
          /\ row'.gate = "halted"

\* A manual halt survives the death of its owner, the takeover by another
\* instance and a restart, with its reason; what lifts it leaves the gate shut,
\* so the owner has to reconcile again before it may take risk.
HaltOutlivesOwners == [][HaltStaysOrIsLifted]_runtimeVars

\* One step of RuntimeMovesWhenLapsed.
OwnerLapsesOrStays ==
    /\ row.token <= row'.token
    /\ row'.instance # row.instance => row.token < row'.token
    /\ row'.token # row.token => /\ row.lease = "active" => row.expires <= now
                                 /\ row'.gate = "halted"

\* The runtime changes hands only with a higher fencing token, after the lease
\* of the old owner ran out on the wall clock or was released, and the new
\* owner starts with the gate shut.
RuntimeMovesWhenLapsed == [][OwnerLapsesOrStays]_runtimeVars

=============================================================================

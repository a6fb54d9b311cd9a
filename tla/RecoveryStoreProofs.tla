-------------------------- MODULE RecoveryStoreProofs --------------------------
(***************************************************************************)
(* Proofs about RecoveryStore, for any number of recoveries, incidents and *)
(* workers, any clock bound and any skew.  One lemma per operation shows   *)
(* that it keeps the inductive invariant and the promise of                *)
(* RecoveryPassesWhileAlive; the operations take any reading and any       *)
(* observation, so that the lemmas serve the processes of the lane too.    *)
(***************************************************************************)
EXTENDS RecoveryStore, TLAPS

\* The permit, the row and the attempt of one recovery agree.
RowAgrees(r) ==
    /\ (job[r].state = "none") <=> (permit[r].state # "consumed")
    /\ job[r].worker # NoWorker => job[r].state \in {"claimed", "signing", "reconciling"}
    /\ job[r].state \in {"none", "queued", "claimed"} => attempt[r].state = "none"
    /\ job[r].state = "signing" => attempt[r].state \in {"none", "prepared", "sending"}
    /\ job[r].state \in {"submitted_unknown", "reconciling"} =>
          attempt[r].state \in {"unknown", "response_received"}
    /\ attempt[r].state = "sending" => job[r].state = "signing"
    /\ proof[r] # "none" => job[r].state = "terminal"

\* Recoveries of one parent are alive one at a time.
Serial == \A r, s \in Recoveries : Active(r) /\ Active(s) => r = s

\* A permit of another kind than the fence was given behind a fence.
PermittedBehindFence ==
    \A r \in Recoveries :
        permit[r].kind # "noop_fence" /\ parent.outcome = "unknown" => Fenced

RecoveryInv ==
    /\ RecoveryTypeOK
    /\ \A r \in Recoveries : RowAgrees(r)
    /\ Serial
    /\ PermittedBehindFence

\* What no transaction may do to a recovery: change the kind of a permit it
\* gave, pass a live claim on, or touch what has ended.
RowKept(r) ==
    /\ permit[r].state # "none" => permit'[r].kind = permit[r].kind
    /\ job'[r].token # job[r].token => job[r].worker = NoWorker \/ job[r].lease <= now
    /\ job[r].state = "terminal" =>
          job'[r] = job[r] /\ attempt'[r] = attempt[r] /\ proof'[r] = proof[r]

RowSame(r) ==
    permit'[r] = permit[r] /\ job'[r] = job[r] /\ attempt'[r] = attempt[r]
        /\ proof'[r] = proof[r]

(***************************************************************************)
(* The rows an operation writes.                                           *)
(***************************************************************************)

\* A recovery's rows have their types.
LEMMA RowTypes ==
    ASSUME RecoveryTypeOK, NEW r \in Recoveries
    PROVE  /\ permit[r] \in Permit
           /\ job[r] \in Job
           /\ job[r].token \in Nat
           /\ attempt[r] \in Attempt
  BY DEF RecoveryTypeOK, Job

\* A released row names nobody and keeps its fencing token.
LEMMA ReleasedRow ==
    ASSUME RecoveryTypeOK, NEW r \in Recoveries, NEW s \in JobStates
    PROVE  /\ Released(r, s) \in Job
           /\ Released(r, s).state = s
           /\ Released(r, s).worker = NoWorker
           /\ Released(r, s).token = job[r].token
  <1>1. job[r].token \in Nat
    BY RowTypes
  <1> QED
    BY <1>1 DEF Released, Job, Never

\* A claimed row names the claimant under the next token.
LEMMA ClaimedRow ==
    ASSUME RecoveryTypeOK, NEW r \in Recoveries, NEW s \in JobStates, NEW w \in Workers,
           NEW at \in Int, NEW l \in Int
    PROVE  /\ Claimed(r, s, w, at, l) \in Job
           /\ Claimed(r, s, w, at, l).state = s
           /\ Claimed(r, s, w, at, l).worker = w
           /\ Claimed(r, s, w, at, l).token = job[r].token + 1
  <1>1. job[r].token \in Nat /\ at + l \in Int
    BY RowTypes
  <1> QED
    BY <1>1 DEF Claimed, Job

\* Moving a row to another state keeps the claim on it.
LEMMA StateMoved ==
    ASSUME NEW j \in Job, NEW s \in JobStates
    PROVE  /\ [j EXCEPT !.state = s] \in Job
           /\ [j EXCEPT !.state = s].state = s
           /\ [j EXCEPT !.state = s].worker = j.worker
           /\ [j EXCEPT !.state = s].token = j.token
  BY DEF Job

\* Moving an attempt to another state keeps the rest of it.
LEMMA AttemptMoved ==
    ASSUME NEW a \in Attempt, NEW s \in AttemptStates
    PROVE  /\ [a EXCEPT !.state = s] \in Attempt
           /\ [a EXCEPT !.state = s].state = s
           /\ [a EXCEPT !.state = s].expires = a.expires
           /\ [a EXCEPT !.state = s].refused = a.refused
  BY DEF Attempt

\* What a normalization makes of one row: nothing, a queued command again, a
\* command that ended unsent, or an unknown outcome.
Normalized(r, at, j, a) ==
    \/ j = job[r] /\ a = attempt[r]
    \/ /\ job[r].state = "claimed" /\ job[r].lease <= at
       /\ j = Released(r, "queued") /\ a = attempt[r]
    \/ /\ job[r].state \in {"queued", "claimed", "signing"}
       /\ attempt[r].state \in {"none", "prepared"}
       /\ j = Released(r, "terminal") /\ a = attempt[r]
    \/ /\ job[r].state = "signing" /\ attempt[r].state = "sending" /\ job[r].lease <= at
       /\ j = Released(r, "submitted_unknown")
       /\ a = [attempt[r] EXCEPT !.state = "unknown"]

\* The lapse of claims is such a normalization, and leaves submitted rows alone.
LEMMA LapseNormalizes ==
    ASSUME RecoveryInv, NEW r \in Recoveries, NEW at \in Int
    PROVE  /\ Normalized(r, at, NormalJob(at)[r], NormalAttempt(at)[r])
           /\ job[r].state \in {"submitted_unknown", "reconciling"} =>
                 NormalJob(at)[r] = job[r]
           /\ NormalJob(at)[r].state = "queued" =>
                 job[r].state = "queued" \/ (job[r].state = "claimed" /\ job[r].lease <= at)
           /\ NormalJob(at)[r].state \in {"submitted_unknown", "reconciling"} =>
                 \/ NormalJob(at)[r] = job[r]
                 \/ job[r].state = "signing" /\ job[r].lease <= at
  <1>1. RowAgrees(r) /\ job[r] \in Job /\ RecoveryTypeOK
    BY RowTypes DEF RecoveryInv
  <1>2. CASE ~Lapsed(r, at)
    <2>1. NormalJob(at)[r] = job[r] /\ NormalAttempt(at)[r] = attempt[r]
      BY <1>2 DEF NormalJob, NormalAttempt
    <2> QED
      BY <2>1 DEF Normalized
  <1>3. CASE Lapsed(r, at)
    <2>1. /\ NormalJob(at)[r] = Released(r, LapsedState(r))
          /\ NormalAttempt(at)[r] = IF attempt[r].state = "sending"
                                    THEN [attempt[r] EXCEPT !.state = "unknown"]
                                    ELSE attempt[r]
      BY <1>3 DEF NormalJob, NormalAttempt
    <2>2. job[r].state \in {"claimed", "signing"} /\ job[r].lease <= at
      BY <1>3 DEF Lapsed
    <2>3. CASE attempt[r].state = "sending"
      <3>1. LapsedState(r) = "submitted_unknown"
        BY <2>3 DEF LapsedState
      <3>2. NormalJob(at)[r].state = "submitted_unknown"
        BY <1>1, <2>1, <3>1, ReleasedRow DEF JobStates
      <3> QED
        BY <1>1, <2>1, <2>2, <2>3, <3>1, <3>2 DEF Normalized, RowAgrees
    <2>4. CASE attempt[r].state = "none" /\ job[r].state = "claimed"
      <3>1. LapsedState(r) = "queued"
        BY <2>4 DEF LapsedState
      <3>2. NormalJob(at)[r].state = "queued"
        BY <1>1, <2>1, <3>1, ReleasedRow DEF JobStates
      <3> QED
        BY <1>1, <2>1, <2>2, <2>4, <3>1, <3>2 DEF Normalized, RowAgrees
    <2>5. CASE attempt[r].state # "sending" /\ ~(attempt[r].state = "none" /\ job[r].state = "claimed")
      <3>1. LapsedState(r) = "terminal"
        BY <2>5 DEF LapsedState
      <3>2. NormalJob(at)[r].state = "terminal"
        BY <1>1, <2>1, <3>1, ReleasedRow DEF JobStates
      <3>3. attempt[r].state \in {"none", "prepared"}
        BY <1>1, <2>2, <2>5 DEF RowAgrees
      <3> QED
        BY <1>1, <2>1, <2>2, <2>5, <3>1, <3>2, <3>3 DEF Normalized
    <2> QED
      BY <2>3, <2>4, <2>5
  <1> QED
    BY <1>2, <1>3

\* So is the lapse of claims together with the retirement of expired permits.
LEMMA RetireNormalizes ==
    ASSUME RecoveryInv, NEW r \in Recoveries, NEW at \in Int
    PROVE  /\ Normalized(r, at, RetiredJob(at)[r], NormalAttempt(at)[r])
           /\ RetiredJob(at)[r].state = "queued" =>
                 job[r].state = "queued" \/ (job[r].state = "claimed" /\ job[r].lease <= at)
  <1>1. RowAgrees(r) /\ job[r] \in Job /\ RecoveryTypeOK
    BY RowTypes DEF RecoveryInv
  <1>2. CASE ~(NormalJob(at)[r].state = "queued" /\ permit[r].expires <= at)
    <2>1. RetiredJob(at)[r] = NormalJob(at)[r]
      BY <1>2 DEF RetiredJob
    <2> QED
      BY <2>1, LapseNormalizes
  <1>3. CASE NormalJob(at)[r].state = "queued" /\ permit[r].expires <= at
    <2>1. RetiredJob(at)[r] = Released(r, "terminal")
      BY <1>3 DEF RetiredJob
    <2>2. RetiredJob(at)[r].state = "terminal"
      BY <1>1, <2>1, ReleasedRow DEF JobStates
    <2>3. job[r].state \in {"queued", "claimed"}
      BY <1>3, LapseNormalizes
    <2>4. attempt[r].state = "none"
      BY <1>1, <2>3 DEF RowAgrees
    <2>5. NormalAttempt(at)[r] = attempt[r]
      BY <2>4 DEF NormalAttempt
    <2> QED
      BY <2>1, <2>2, <2>3, <2>4, <2>5 DEF Normalized
  <1> QED
    BY <1>2, <1>3

(***************************************************************************)
(* Putting the invariant together again.                                   *)
(***************************************************************************)

\* A step that keeps the rows keeps a fence that succeeded, and so the invariant.
LEMMA Recompose ==
    ASSUME RecoveryInv, RecoveryTypeOK', parent'.outcome = parent.outcome, Serial',
           \A r \in Recoveries : RowKept(r) /\ RowAgrees(r)',
           \A r \in Recoveries :
              permit'[r].kind # "noop_fence" /\ parent.outcome = "unknown" =>
                 permit'[r].kind = permit[r].kind \/ Fenced
    PROVE  RecoveryInv'
  <1>1. Fenced => Fenced'
    <2> SUFFICES ASSUME Fenced PROVE Fenced'
      OBVIOUS
    <2>1. PICK r \in Recoveries : /\ permit[r].kind = "noop_fence"
                                  /\ job[r].state = "terminal" /\ proof[r] = "succeeded"
      BY DEF Fenced
    <2>2. permit[r].state # "none"
      BY <2>1 DEF RecoveryInv, RowAgrees
    <2>3. permit'[r].kind = "noop_fence" /\ job'[r].state = "terminal" /\ proof'[r] = "succeeded"
      BY <2>1, <2>2 DEF RowKept
    <2> QED
      BY <2>3 DEF Fenced
  <1>2. PermittedBehindFence'
    BY <1>1 DEF PermittedBehindFence, RecoveryInv
  <1> QED
    BY <1>2 DEF RecoveryInv

\* A step that leaves the lane's rows alone keeps the invariant.
LEMMA LaneFrame ==
    ASSUME RecoveryInv, RecoveryTypeOK', parent'.outcome = parent.outcome, UNCHANGED laneVars
    PROVE  RecoveryInv' /\ \A r \in Recoveries : RowKept(r)
  <1>1. \A r \in Recoveries : RowKept(r) /\ RowAgrees(r)'
    BY DEF laneVars, RowKept, RowAgrees, RecoveryInv
  <1>2. Serial'
    BY DEF laneVars, Serial, Active, RecoveryInv
  <1>3. \A r \in Recoveries : permit'[r].kind = permit[r].kind
    BY DEF laneVars
  <1> QED
    BY <1>1, <1>2, <1>3, Recompose

\* A step that writes the rows of one recovery keeps the invariant when that
\* recovery's rows agree again and it was alive or nothing was.
LEMMA OneRow ==
    ASSUME RecoveryInv, RecoveryTypeOK', parent'.outcome = parent.outcome,
           NEW r \in Recoveries,
           \A s \in Recoveries \ {r} : RowSame(s),
           RowKept(r), RowAgrees(r)',
           Active(r)' => Active(r) \/ ~RecoveryActive,
           permit'[r].kind # "noop_fence" /\ parent.outcome = "unknown" =>
              permit'[r].kind = permit[r].kind \/ Fenced
    PROVE  RecoveryInv' /\ \A s \in Recoveries : RowKept(s)
  <1>1. \A s \in Recoveries \ {r} : RowKept(s) /\ RowAgrees(s)' /\ (Active(s)' <=> Active(s))
                                    /\ permit'[s].kind = permit[s].kind
    BY DEF RowSame, RowKept, RowAgrees, RecoveryInv, Active
  <1>2. Serial'
    <2> SUFFICES ASSUME NEW a \in Recoveries, NEW b \in Recoveries, Active(a)', Active(b)'
                 PROVE  a = b
      BY DEF Serial
    <2>1. Active(a) /\ Active(b) => a = b
      BY DEF RecoveryInv, Serial
    <2> QED
      BY <1>1, <2>1 DEF RecoveryActive
  <1> QED
    BY <1>1, <1>2, Recompose

(***************************************************************************)
(* The parent's operations.                                                *)
(***************************************************************************)

\* The passing of time keeps the store's invariant.
LEMMA TickKeeps ==
    ASSUME RecoveryInv, Tick
    PROVE  RecoveryInv' /\ \A r \in Recoveries : RowKept(r)
  <1>1. RecoveryTypeOK' /\ parent' = parent /\ UNCHANGED laneVars
    BY DEF RecoveryInv, RecoveryTypeOK, Tick, parentVars, laneVars
  <1> QED
    BY <1>1, LaneFrame

\* Opening an incident keeps the store's invariant.
LEMMA OpenIncidentKeeps ==
    ASSUME RecoveryInv, NEW i \in Incidents, OpenIncident(i)
    PROVE  RecoveryInv' /\ \A r \in Recoveries : RowKept(r)
  <1>1. RecoveryTypeOK' /\ parent' = parent /\ UNCHANGED laneVars
    BY DEF RecoveryInv, RecoveryTypeOK, OpenIncident, laneVars
  <1> QED
    BY <1>1, LaneFrame

\* The observed position and protection have their types.
LEMMA ObservedTypes ==
    ASSUME NEW p \in Int, NEW q \in Int, NEW seen \in Int, Observed(p, q, seen)
    PROVE  account' \in [position : Int, at : Int,
                         protection : {"none", "flat", "protected", "under_protected",
                                       "over_protected"}]
  <1>1. ProtectionState(p, q) \in {"none", "flat", "protected", "under_protected",
                                   "over_protected"}
    BY DEF ProtectionState
  <1> QED
    BY <1>1 DEF Observed

\* The parent's reconciliation, with the incidents it closes, keeps the store's invariant.
LEMMA ReconcileParentKeeps ==
    ASSUME RecoveryInv, NEW p \in Int, NEW q \in Int, NEW seen \in Int, NEW ends \in BOOLEAN,
           NEW i \in Incidents, ReconcileParent(p, q, seen, ends, i)
    PROVE  RecoveryInv' /\ \A r \in Recoveries : RowKept(r)
  <1>1. UNCHANGED <<now, permit, job, attempt, proof>>
    BY DEF ReconcileParent, laneVars
  <1>2. parent' = [parent EXCEPT !.terminal = ends]
    BY DEF ReconcileParent
  <1>3. /\ parent' \in [outcome : {"unknown", "response_received"}, terminal : BOOLEAN]
        /\ parent'.outcome = parent.outcome
    BY <1>2 DEF RecoveryInv, RecoveryTypeOK
  <1>4. incident' \in [Incidents -> {"none", "open", "contained", "closed"}]
    BY DEF ReconcileParent, RecoveryInv, RecoveryTypeOK
  <1>5. RecoveryTypeOK'
    BY <1>1, <1>3, <1>4, ObservedTypes DEF RecoveryInv, RecoveryTypeOK, ReconcileParent
  <1> QED
    BY <1>1, <1>3, <1>5, LaneFrame DEF laneVars

(***************************************************************************)
(* Permits and queueing.                                                   *)
(***************************************************************************)

\* A registered permit keeps the store's invariant: its guard is the fence rule.
LEMMA RegisterPermitKeeps ==
    ASSUME RecoveryInv, NEW r \in Recoveries, NEW k \in Kinds, NEW i \in Incidents,
           NEW original \in Int, NEW size \in Nat, NEW at \in Int,
           RegisterPermit(r, k, i, original, size, at)
    PROVE  RecoveryInv' /\ \A s \in Recoveries : RowKept(s)
  <1> DEFINE row == [state |-> "issued", kind |-> k, incident |-> i,
                     original |-> original, size |-> size,
                     issued |-> at, expires |-> at + PermitTTL]
  <1>1. permit' = [permit EXCEPT ![r] = row] /\ permit[r].state = "none"
    BY DEF RegisterPermit
  <1>2. row \in Permit /\ row.state = "issued" /\ row.kind = k
    <2>1. at + PermitTTL \in Int
      BY RecoveryAssumption
    <2> QED
      BY <2>1 DEF Permit
  <1> HIDE DEF row
  <1>3. UNCHANGED <<now, parent, incident, account, job, attempt, proof>>
    BY DEF RegisterPermit, parentVars
  <1>4. RecoveryTypeOK'
    BY <1>1, <1>2, <1>3 DEF RecoveryInv, RecoveryTypeOK
  <1>5. permit'[r] = row
    BY <1>1 DEF RecoveryInv, RecoveryTypeOK
  <1>6. \A s \in Recoveries \ {r} : RowSame(s)
    BY <1>1, <1>3 DEF RecoveryInv, RecoveryTypeOK, RowSame
  <1>7. RowKept(r) /\ RowAgrees(r)'
    BY <1>1, <1>2, <1>3, <1>5 DEF RowKept, RowAgrees, RecoveryInv
  <1>8. k # "noop_fence" /\ parent.outcome = "unknown" => Fenced
    BY DEF RegisterPermit, PermitAllowed
  <1>9. Active(r)' => Active(r)
    BY <1>3 DEF Active
  <1> QED
    BY <1>2, <1>3, <1>4, <1>5, <1>6, <1>7, <1>8, <1>9, OneRow

\* Consuming a permit changes its state only.
LEMMA PermitMoved ==
    ASSUME NEW p \in Permit, NEW s \in {"none", "issued", "consumed"}
    PROVE  /\ [p EXCEPT !.state = s] \in Permit
           /\ [p EXCEPT !.state = s].state = s
           /\ [p EXCEPT !.state = s].kind = p.kind
           /\ [p EXCEPT !.state = s].incident = p.incident
           /\ [p EXCEPT !.state = s].expires = p.expires
  BY DEF Permit

\* The row of a recovery that was just queued.
LEMMA QueuedJob ==
    /\ [NoJob EXCEPT !.state = "queued"] \in Job
    /\ [NoJob EXCEPT !.state = "queued"].state = "queued"
    /\ [NoJob EXCEPT !.state = "queued"].worker = NoWorker
    /\ [NoJob EXCEPT !.state = "queued"].token = 0
  <1>1. NoJob \in Job /\ NoJob.worker = NoWorker /\ NoJob.token = 0
    BY DEF NoJob, Job, JobStates, Never
  <1> QED
    BY <1>1, StateMoved DEF JobStates

\* What queueing writes.
LEMMA QueueWrites ==
    ASSUME RecoveryInv, NEW r \in Recoveries, NEW at \in Int, QueueRecovery(r, at)
    PROVE  /\ job[r].state = "none" /\ attempt[r].state = "none" /\ ~RecoveryActive
           /\ permit'[r] = [permit[r] EXCEPT !.state = "consumed"]
           /\ job'[r] = [NoJob EXCEPT !.state = "queued"]
           /\ \A s \in Recoveries \ {r} : RowSame(s)
           /\ UNCHANGED <<now, parent, incident, account, attempt, proof>>
           /\ RecoveryTypeOK'
  <1>1. /\ permit' = [permit EXCEPT ![r] = [permit[r] EXCEPT !.state = "consumed"]]
        /\ job' = [job EXCEPT ![r] = [NoJob EXCEPT !.state = "queued"]]
        /\ UNCHANGED <<now, parent, incident, account, attempt, proof>>
        /\ permit[r].state = "issued" /\ ~RecoveryActive
    BY DEF QueueRecovery, parentVars
  <1>2. permit[r] \in Permit /\ permit \in [Recoveries -> Permit] /\ job \in [Recoveries -> Job]
    BY DEF RecoveryInv, RecoveryTypeOK
  <1>3. permit' \in [Recoveries -> Permit] /\ job' \in [Recoveries -> Job]
    BY <1>1, <1>2, PermitMoved, QueuedJob
  <1>4. RecoveryTypeOK'
    BY <1>1, <1>3 DEF RecoveryInv, RecoveryTypeOK
  <1>5. job[r].state = "none" /\ attempt[r].state = "none"
    BY <1>1 DEF RecoveryInv, RowAgrees
  <1>6. \A s \in Recoveries \ {r} : RowSame(s)
    BY <1>1, <1>2 DEF RowSame
  <1> QED
    BY <1>1, <1>2, <1>4, <1>5, <1>6

\* Queueing keeps the store's invariant: its guard is that no recovery is alive.
LEMMA QueueKeeps ==
    ASSUME RecoveryInv, NEW r \in Recoveries, NEW at \in Int, QueueRecovery(r, at)
    PROVE  RecoveryInv' /\ \A s \in Recoveries : RowKept(s)
  <1>1. permit[r] \in Permit /\ RowAgrees(r) /\ job[r].state = "none"
    BY QueueWrites, RowTypes DEF RecoveryInv
  <1>2. permit'[r].kind = permit[r].kind /\ permit'[r].state = "consumed"
    <2>1. permit'[r] = [permit[r] EXCEPT !.state = "consumed"]
      BY QueueWrites
    <2> QED
      BY <1>1, <2>1, PermitMoved
  <1>3. job'[r].state = "queued" /\ job'[r].worker = NoWorker
    BY QueueWrites, QueuedJob
  <1>4. attempt[r].state = "none" /\ UNCHANGED <<now, parent, attempt, proof>>
    BY QueueWrites
  <1>5. RowKept(r)
    BY <1>1, <1>2, <1>3 DEF RowKept, RowAgrees
  <1>6. RowAgrees(r)'
    BY <1>1, <1>2, <1>3, <1>4 DEF RowAgrees
  <1> QED
    BY <1>2, <1>4, <1>5, <1>6, QueueWrites, OneRow

(***************************************************************************)
(* Claims and their expiry.                                                *)
(***************************************************************************)

\* A normalized row has its types and keeps its token, and moves only when it
\* was waiting, claimed or signing.
LEMMA NormalizedRow ==
    ASSUME RecoveryInv, NEW r \in Recoveries, NEW at \in Int, NEW j, NEW a,
           Normalized(r, at, j, a)
    PROVE  /\ j \in Job /\ a \in Attempt
           /\ j.token = job[r].token
           /\ a.expires = attempt[r].expires /\ a.refused = attempt[r].refused
           /\ \/ j = job[r] /\ a = attempt[r]
              \/ /\ job[r].state \in {"queued", "claimed", "signing"}
                 /\ j.worker = NoWorker
                 /\ \/ /\ a = attempt[r]
                       /\ j.state = "queued" /\ job[r].state = "claimed"
                    \/ /\ a = attempt[r] /\ a.state \in {"none", "prepared"}
                       /\ j.state = "terminal"
                    \/ /\ attempt[r].state = "sending" /\ a.state = "unknown"
                       /\ j.state = "submitted_unknown"
  <1>1. RecoveryTypeOK /\ job[r] \in Job /\ attempt[r] \in Attempt
    BY RowTypes DEF RecoveryInv
  <1>2. \A s \in JobStates : /\ Released(r, s) \in Job
                             /\ Released(r, s).state = s
                             /\ Released(r, s).worker = NoWorker
                             /\ Released(r, s).token = job[r].token
    BY <1>1, ReleasedRow
  <1>3. {"queued", "terminal", "submitted_unknown"} \subseteq JobStates
    BY DEF JobStates
  <1>4. CASE j = job[r] /\ a = attempt[r]
    BY <1>1, <1>4
  <1>5. CASE job[r].state = "claimed" /\ j = Released(r, "queued") /\ a = attempt[r]
    BY <1>1, <1>2, <1>3, <1>5
  <1>6. CASE /\ job[r].state \in {"queued", "claimed", "signing"}
             /\ attempt[r].state \in {"none", "prepared"}
             /\ j = Released(r, "terminal") /\ a = attempt[r]
    BY <1>1, <1>2, <1>3, <1>6
  <1>7. CASE /\ job[r].state = "signing" /\ attempt[r].state = "sending"
             /\ j = Released(r, "submitted_unknown")
             /\ a = [attempt[r] EXCEPT !.state = "unknown"]
    <2>1. a \in Attempt /\ a.state = "unknown" /\ a.expires = attempt[r].expires
          /\ a.refused = attempt[r].refused
      BY <1>1, <1>7, AttemptMoved DEF AttemptStates
    <2>2. /\ j \in Job /\ j.token = job[r].token /\ j.worker = NoWorker
          /\ j.state = "submitted_unknown"
      BY <1>2, <1>3, <1>7
    <2> QED
      BY <1>7, <2>1, <2>2
  <1> QED
    BY <1>4, <1>5, <1>6, <1>7 DEF Normalized

\* While one recovery is alive, a normalization touches no other.
LEMMA NormalizesOnlyActive ==
    ASSUME RecoveryInv, NEW r \in Recoveries, Active(r), NEW s \in Recoveries \ {r},
           NEW at \in Int, NEW j, NEW a, Normalized(s, at, j, a)
    PROVE  j = job[s] /\ a = attempt[s]
  <1>1. ~Active(s)
    BY DEF RecoveryInv, Serial
  <1> QED
    BY <1>1 DEF Normalized, Active

\* A step that only normalizes keeps the invariant.
LEMMA NormalizationKeeps ==
    ASSUME RecoveryInv, NEW at \in Int,
           DOMAIN job' = Recoveries, DOMAIN attempt' = Recoveries,
           job' = [r \in Recoveries |-> job'[r]], attempt' = [r \in Recoveries |-> attempt'[r]],
           \A r \in Recoveries : Normalized(r, at, job'[r], attempt'[r]),
           UNCHANGED <<now, parentVars, permit, proof>>
    PROVE  RecoveryInv' /\ \A r \in Recoveries : RowKept(r)
  <1>1. \A r \in Recoveries : job'[r] \in Job /\ attempt'[r] \in Attempt
    BY NormalizedRow
  <1>2. UNCHANGED <<now, parent, incident, account, permit, proof>>
    BY DEF parentVars
  <1>3. job' \in [Recoveries -> Job] /\ attempt' \in [Recoveries -> Attempt]
    BY <1>1
  <1>4. RecoveryTypeOK'
    BY <1>2, <1>3 DEF RecoveryInv, RecoveryTypeOK
  <1>5. ASSUME NEW r \in Recoveries
        PROVE  RowKept(r) /\ RowAgrees(r)' /\ (Active(r)' => Active(r))
    <2>1. RowAgrees(r) /\ job'[r].token = job[r].token
      BY NormalizedRow DEF RecoveryInv
    <2>2. CASE job'[r] = job[r] /\ attempt'[r] = attempt[r]
      BY <1>2, <2>1, <2>2 DEF RowKept, RowAgrees, Active
    <2>3. CASE job'[r] # job[r] \/ attempt'[r] # attempt[r]
      <3>1. /\ job[r].state \in {"queued", "claimed", "signing"}
            /\ job'[r].worker = NoWorker
            /\ \/ /\ attempt'[r] = attempt[r]
                  /\ job'[r].state = "queued" /\ job[r].state = "claimed"
               \/ /\ attempt'[r] = attempt[r] /\ attempt[r].state \in {"none", "prepared"}
                  /\ job'[r].state = "terminal"
               \/ /\ attempt[r].state = "sending" /\ attempt'[r].state = "unknown"
                  /\ job'[r].state = "submitted_unknown"
        BY <2>3, NormalizedRow
      <3>2. RowAgrees(r)'
        BY <1>2, <2>1, <3>1 DEF RowAgrees
      <3> QED
        BY <1>2, <2>1, <3>1, <3>2 DEF RowKept, Active
    <2> QED
      BY <2>2, <2>3
  <1>6. Serial'
    BY <1>5 DEF RecoveryInv, Serial
  <1> QED
    BY <1>2, <1>4, <1>5, <1>6, Recompose

\* normalize_expired_recovery_claims keeps the store's invariant.
LEMMA NormalizeExpiredKeeps ==
    ASSUME RecoveryInv, NEW at \in Int, NormalizeExpired(at)
    PROVE  /\ RecoveryInv'
           /\ \A r \in Recoveries : RowKept(r) /\ Normalized(r, at, job'[r], attempt'[r])
  <1>1. job' = RetiredJob(at) /\ attempt' = NormalAttempt(at)
    BY DEF NormalizeExpired
  <1>2. \A r \in Recoveries : Normalized(r, at, job'[r], attempt'[r])
    BY <1>1, RetireNormalizes
  <1>3. /\ DOMAIN job' = Recoveries /\ DOMAIN attempt' = Recoveries
        /\ job' = [r \in Recoveries |-> job'[r]] /\ attempt' = [r \in Recoveries |-> attempt'[r]]
    BY <1>1 DEF RetiredJob, NormalAttempt
  <1> QED
    BY <1>2, <1>3, NormalizationKeeps DEF NormalizeExpired

\* What a claim of a queued command writes.
LEMMA ClaimNextWrites ==
    ASSUME RecoveryInv, NEW r \in Recoveries, NEW w \in Workers, NEW at \in Int, NEW l \in Int,
           ClaimNextRecovery(r, w, at, l)
    PROVE  /\ \/ job[r].state = "queued"
              \/ job[r].state = "claimed" /\ job[r].lease <= at
           /\ job'[r] = Claimed(r, "claimed", w, at, l)
           /\ attempt'[r] = attempt[r]
           /\ \A s \in Recoveries \ {r} : RowSame(s)
           /\ UNCHANGED <<now, parent, incident, account, permit, proof>>
           /\ RecoveryTypeOK'
  <1>1. /\ job' = [RetiredJob(at) EXCEPT ![r] = Claimed(r, "claimed", w, at, l)]
        /\ attempt' = NormalAttempt(at)
        /\ RetiredJob(at)[r].state = "queued"
        /\ UNCHANGED <<now, parent, incident, account, permit, proof>>
    BY DEF ClaimNextRecovery, parentVars
  <1>2. \/ job[r].state = "queued"
        \/ job[r].state = "claimed" /\ job[r].lease <= at
    BY <1>1, RetireNormalizes
  <1>3. Active(r) /\ attempt[r].state = "none"
    BY <1>2 DEF Active, RecoveryInv, RowAgrees
  <1>4. \A s \in Recoveries \ {r} : RetiredJob(at)[s] = job[s] /\ NormalAttempt(at)[s] = attempt[s]
    BY <1>3, RetireNormalizes, NormalizesOnlyActive
  <1>5. /\ RetiredJob(at) = [s \in Recoveries |-> RetiredJob(at)[s]]
        /\ NormalAttempt(at) = [s \in Recoveries |-> NormalAttempt(at)[s]]
    BY DEF RetiredJob, NormalAttempt
  <1>6. job'[r] = Claimed(r, "claimed", w, at, l) /\ \A s \in Recoveries \ {r} : job'[s] = job[s]
    BY <1>1, <1>4, <1>5
  <1>7. NormalAttempt(at)[r] = attempt[r]
    BY <1>3 DEF NormalAttempt
  <1>8. \A s \in Recoveries : attempt'[s] = attempt[s]
    BY <1>1, <1>4, <1>7
  <1>9. Claimed(r, "claimed", w, at, l) \in Job
    BY ClaimedRow DEF RecoveryInv, JobStates
  <1>10. RetiredJob(at) \in [Recoveries -> Job]
    <2>1. \A s \in Recoveries : RetiredJob(at)[s] \in Job
      BY RetireNormalizes, NormalizedRow
    <2> QED
      BY <1>5, <2>1
  <1>11. job' \in [Recoveries -> Job]
    BY <1>1, <1>9, <1>10
  <1>12. attempt' \in [Recoveries -> Attempt]
    BY <1>1, <1>5, <1>8 DEF RecoveryInv, RecoveryTypeOK
  <1>13. RecoveryTypeOK'
    BY <1>1, <1>11, <1>12 DEF RecoveryInv, RecoveryTypeOK
  <1> QED
    BY <1>1, <1>2, <1>6, <1>8, <1>13 DEF RowSame

\* claim_next_recovery keeps the store's invariant.
LEMMA ClaimNextKeeps ==
    ASSUME RecoveryInv, NEW r \in Recoveries, NEW w \in Workers, NEW at \in Int, NEW l \in Int,
           at <= now, ClaimNextRecovery(r, w, at, l)
    PROVE  RecoveryInv' /\ \A s \in Recoveries : RowKept(s)
  <1>1. /\ \/ job[r].state = "queued"
           \/ job[r].state = "claimed" /\ job[r].lease <= at
        /\ job'[r] = Claimed(r, "claimed", w, at, l)
        /\ attempt'[r] = attempt[r]
        /\ \A s \in Recoveries \ {r} : RowSame(s)
        /\ UNCHANGED <<now, parent, incident, account, permit, proof>>
        /\ RecoveryTypeOK'
    BY ClaimNextWrites
  <1>2. job'[r].state = "claimed" /\ job'[r].worker = w
    BY <1>1, ClaimedRow DEF RecoveryInv, JobStates
  <1>3. RowAgrees(r) /\ job[r] \in Job /\ now \in Int
    BY RowTypes DEF RecoveryInv, RecoveryTypeOK
  <1>4. Active(r)
    BY <1>1 DEF Active
  <1>5. job[r].worker = NoWorker \/ job[r].lease <= now
    BY <1>1, <1>3 DEF RowAgrees, Job
  <1>6. RowKept(r)
    BY <1>1, <1>5 DEF RowKept
  <1>7. RowAgrees(r)'
    BY <1>1, <1>2, <1>3 DEF RowAgrees
  <1> QED
    BY <1>1, <1>4, <1>6, <1>7, OneRow

\* What a claim for reconciliation writes.
LEMMA ClaimReconciliationWrites ==
    ASSUME RecoveryInv, NEW r \in Recoveries, NEW w \in Workers, NEW at \in Int, NEW l \in Int,
           ClaimReconciliation(r, w, at, l)
    PROVE  /\ \/ /\ job[r].state \in {"submitted_unknown", "reconciling"}
                 /\ job[r].worker = NoWorker \/ job[r].lease <= at
                 /\ attempt'[r] = attempt[r]
              \/ /\ job[r].state = "signing" /\ job[r].lease <= at
                 /\ attempt[r].state = "sending"
                 /\ attempt'[r] = [attempt[r] EXCEPT !.state = "unknown"]
           /\ job'[r] = Claimed(r, "reconciling", w, at, l)
           /\ \A s \in Recoveries \ {r} : RowSame(s)
           /\ UNCHANGED <<now, parent, incident, account, permit, proof>>
           /\ RecoveryTypeOK'
  <1>1. /\ job' = [NormalJob(at) EXCEPT ![r] = Claimed(r, "reconciling", w, at, l)]
        /\ attempt' = NormalAttempt(at)
        /\ NormalJob(at)[r].state \in {"submitted_unknown", "reconciling"}
        /\ NormalJob(at)[r].worker = NoWorker \/ NormalJob(at)[r].lease <= at
        /\ UNCHANGED <<now, parent, incident, account, permit, proof>>
    BY DEF ClaimReconciliation, parentVars
  <1>2. /\ Normalized(r, at, NormalJob(at)[r], NormalAttempt(at)[r])
        /\ \/ NormalJob(at)[r] = job[r]
           \/ job[r].state = "signing" /\ job[r].lease <= at
    BY <1>1, LapseNormalizes
  <1>3. \/ /\ job[r].state \in {"submitted_unknown", "reconciling"}
           /\ job[r].worker = NoWorker \/ job[r].lease <= at
           /\ attempt'[r] = attempt[r]
        \/ /\ job[r].state = "signing" /\ job[r].lease <= at
           /\ attempt[r].state = "sending"
           /\ attempt'[r] = [attempt[r] EXCEPT !.state = "unknown"]
    <2>1. CASE NormalJob(at)[r] = job[r]
      <3>1. ~Lapsed(r, at)
        BY <1>1, <2>1 DEF Lapsed
      <3>2. NormalAttempt(at)[r] = attempt[r]
        BY <3>1 DEF NormalAttempt
      <3> QED
        BY <1>1, <2>1, <3>2
    <2>2. CASE job[r].state = "signing" /\ job[r].lease <= at /\ NormalJob(at)[r] # job[r]
      <3>1. Released(r, "queued").state = "queued" /\ Released(r, "terminal").state = "terminal"
        BY ReleasedRow DEF RecoveryInv, JobStates
      <3> QED
        BY <1>1, <1>2, <2>2, <3>1 DEF Normalized
    <2> QED
      BY <1>2, <2>1, <2>2
  <1>4. Active(r)
    BY <1>3 DEF Active
  <1>5. \A s \in Recoveries \ {r} : NormalJob(at)[s] = job[s] /\ NormalAttempt(at)[s] = attempt[s]
    BY <1>4, LapseNormalizes, NormalizesOnlyActive
  <1>6. /\ NormalJob(at) = [s \in Recoveries |-> NormalJob(at)[s]]
        /\ NormalAttempt(at) = [s \in Recoveries |-> NormalAttempt(at)[s]]
    BY DEF NormalJob, NormalAttempt
  <1>7. job'[r] = Claimed(r, "reconciling", w, at, l) /\ \A s \in Recoveries \ {r} : job'[s] = job[s]
    BY <1>1, <1>5, <1>6
  <1>8. Claimed(r, "reconciling", w, at, l) \in Job
    BY ClaimedRow DEF RecoveryInv, JobStates
  <1>9. NormalJob(at) \in [Recoveries -> Job] /\ NormalAttempt(at) \in [Recoveries -> Attempt]
    <2>1. \A s \in Recoveries : NormalJob(at)[s] \in Job /\ NormalAttempt(at)[s] \in Attempt
      BY LapseNormalizes, NormalizedRow
    <2> QED
      BY <1>6, <2>1
  <1>10. job' \in [Recoveries -> Job] /\ attempt' \in [Recoveries -> Attempt]
    BY <1>1, <1>8, <1>9
  <1>11. RecoveryTypeOK'
    BY <1>1, <1>10 DEF RecoveryInv, RecoveryTypeOK
  <1>12. \A s \in Recoveries \ {r} : RowSame(s)
    BY <1>1, <1>5, <1>7 DEF RowSame
  <1> QED
    BY <1>1, <1>3, <1>7, <1>11, <1>12

\* claim_recovery_reconciliation keeps the store's invariant.
LEMMA ClaimReconciliationKeeps ==
    ASSUME RecoveryInv, NEW r \in Recoveries, NEW w \in Workers, NEW at \in Int, NEW l \in Int,
           at <= now, ClaimReconciliation(r, w, at, l)
    PROVE  RecoveryInv' /\ \A s \in Recoveries : RowKept(s)
  <1>1. /\ \/ /\ job[r].state \in {"submitted_unknown", "reconciling"}
              /\ job[r].worker = NoWorker \/ job[r].lease <= at
              /\ attempt'[r] = attempt[r]
           \/ /\ job[r].state = "signing" /\ job[r].lease <= at
              /\ attempt[r].state = "sending"
              /\ attempt'[r] = [attempt[r] EXCEPT !.state = "unknown"]
        /\ job'[r] = Claimed(r, "reconciling", w, at, l)
        /\ \A s \in Recoveries \ {r} : RowSame(s)
        /\ UNCHANGED <<now, parent, incident, account, permit, proof>>
        /\ RecoveryTypeOK'
    BY ClaimReconciliationWrites
  <1>2. job'[r].state = "reconciling" /\ job'[r].worker = w
    BY <1>1, ClaimedRow DEF RecoveryInv, JobStates
  <1>3. RowAgrees(r) /\ job[r] \in Job /\ attempt[r] \in Attempt /\ now \in Int
    BY RowTypes DEF RecoveryInv, RecoveryTypeOK
  <1>4. Active(r)
    BY <1>1 DEF Active
  <1>5. job[r].worker = NoWorker \/ job[r].lease <= now
    BY <1>1, <1>3 DEF Job
  <1>6. attempt'[r].state \in {"unknown", "response_received"}
    <2>1. [attempt[r] EXCEPT !.state = "unknown"].state = "unknown"
      BY <1>3, AttemptMoved DEF AttemptStates
    <2> QED
      BY <1>1, <1>3, <2>1 DEF RowAgrees
  <1>7. RowKept(r)
    BY <1>1, <1>5 DEF RowKept
  <1>8. RowAgrees(r)'
    BY <1>1, <1>2, <1>3, <1>6 DEF RowAgrees
  <1> QED
    BY <1>1, <1>4, <1>7, <1>8, OneRow

(***************************************************************************)
(* Signing, the one send, and reconciliation.                              *)
(***************************************************************************)

\* The signing authority keeps the store's invariant.
LEMMA SigningKeeps ==
    ASSUME RecoveryInv, NEW r \in Recoveries, NEW w \in Workers, NEW k, NEW at \in Int,
           RequireSigningAuthority(r, w, k, at)
    PROVE  RecoveryInv' /\ \A s \in Recoveries : RowKept(s)
  <1>1. /\ job' = [job EXCEPT ![r] = [job[r] EXCEPT !.state = "signing"]]
        /\ job[r].state = "claimed" /\ attempt[r].state = "none"
        /\ UNCHANGED <<now, parent, incident, account, permit, attempt, proof>>
    BY DEF RequireSigningAuthority, HasClaim, parentVars
  <1>2. RowAgrees(r) /\ job[r] \in Job /\ job \in [Recoveries -> Job]
    BY DEF RecoveryInv, RecoveryTypeOK
  <1>3. PICK j \in Job : /\ j = [job[r] EXCEPT !.state = "signing"]
                         /\ j.state = "signing" /\ j.token = job[r].token
                         /\ j.worker = job[r].worker
    <2>1. "signing" \in JobStates
      BY DEF JobStates
    <2> DEFINE j == [job[r] EXCEPT !.state = "signing"]
    <2>2. /\ j \in Job /\ j.state = "signing" /\ j.token = job[r].token
          /\ j.worker = job[r].worker
      BY <1>2, <2>1, StateMoved
    <2> QED
      BY <2>2
  <1>4. job' = [job EXCEPT ![r] = j]
    BY <1>1, <1>3
  <1>5. /\ job' \in [Recoveries -> Job]
        /\ job'[r] = j /\ \A s \in Recoveries \ {r} : job'[s] = job[s]
    BY <1>2, <1>4
  <1>6. RecoveryTypeOK'
    BY <1>1, <1>5 DEF RecoveryInv, RecoveryTypeOK
  <1>7. \A s \in Recoveries \ {r} : RowSame(s)
    BY <1>1, <1>5 DEF RowSame
  <1>8. RowKept(r) /\ Active(r)
    BY <1>1, <1>3, <1>5 DEF RowKept, Active
  <1>9. RowAgrees(r)'
    BY <1>1, <1>2, <1>3, <1>5 DEF RowAgrees
  <1> QED
    BY <1>1, <1>6, <1>7, <1>8, <1>9, OneRow

\* prepare_recovery_attempt keeps the store's invariant.
LEMMA PrepareKeeps ==
    ASSUME RecoveryInv, NEW r \in Recoveries, NEW w \in Workers, NEW k, NEW at \in Int,
           NEW e \in Int, PrepareAttempt(r, w, k, at, e)
    PROVE  RecoveryInv' /\ \A s \in Recoveries : RowKept(s)
  <1> DEFINE a == [state |-> "prepared", expires |-> e, refused |-> FALSE]
  <1>1. /\ attempt' = [attempt EXCEPT ![r] = a]
        /\ job[r].state = "signing" /\ attempt[r].state = "none"
        /\ UNCHANGED <<now, parent, incident, account, permit, job, proof>>
    BY DEF PrepareAttempt, HasClaim, parentVars
  <1>2. a \in Attempt /\ a.state = "prepared"
    BY DEF Attempt, AttemptStates
  <1> HIDE DEF a
  <1>3. RowAgrees(r) /\ attempt \in [Recoveries -> Attempt]
    BY DEF RecoveryInv, RecoveryTypeOK
  <1>4. attempt'[r] = a /\ \A s \in Recoveries \ {r} : attempt'[s] = attempt[s]
    BY <1>1, <1>3
  <1>5. RecoveryTypeOK'
    BY <1>1, <1>2 DEF RecoveryInv, RecoveryTypeOK
  <1>6. \A s \in Recoveries \ {r} : RowSame(s)
    BY <1>1, <1>4 DEF RowSame
  <1>7. RowKept(r) /\ Active(r)
    BY <1>1 DEF RowKept, Active
  <1>8. RowAgrees(r)'
    BY <1>1, <1>2, <1>3, <1>4 DEF RowAgrees
  <1> QED
    BY <1>1, <1>5, <1>6, <1>7, <1>8, OneRow

\* The submission authority keeps the store's invariant.
LEMMA SubmissionKeeps ==
    ASSUME RecoveryInv, NEW r \in Recoveries, NEW w \in Workers, NEW k, NEW at \in Int,
           RequireSubmissionAuthority(r, w, k, at)
    PROVE  RecoveryInv' /\ \A s \in Recoveries : RowKept(s)
  <1>1. /\ attempt' = [attempt EXCEPT ![r] = [attempt[r] EXCEPT !.state = "sending"]]
        /\ job[r].state = "signing" /\ attempt[r].state = "prepared"
        /\ UNCHANGED <<now, parent, incident, account, permit, job, proof>>
    BY DEF RequireSubmissionAuthority, HasClaim, parentVars
  <1>2. RowAgrees(r) /\ attempt[r] \in Attempt /\ attempt \in [Recoveries -> Attempt]
    BY DEF RecoveryInv, RecoveryTypeOK
  <1>3. PICK a \in Attempt : /\ a = [attempt[r] EXCEPT !.state = "sending"]
                             /\ a.state = "sending"
    BY <1>2, AttemptMoved DEF AttemptStates
  <1>4. attempt' = [attempt EXCEPT ![r] = a]
    BY <1>1, <1>3
  <1>5. /\ attempt' \in [Recoveries -> Attempt]
        /\ attempt'[r] = a /\ \A s \in Recoveries \ {r} : attempt'[s] = attempt[s]
    BY <1>2, <1>4
  <1>6. RecoveryTypeOK'
    BY <1>1, <1>5 DEF RecoveryInv, RecoveryTypeOK
  <1>7. \A s \in Recoveries \ {r} : RowSame(s)
    BY <1>1, <1>5 DEF RowSame
  <1>8. RowKept(r) /\ Active(r)
    BY <1>1 DEF RowKept, Active
  <1>9. RowAgrees(r)'
    BY <1>1, <1>2, <1>3, <1>5 DEF RowAgrees
  <1> QED
    BY <1>1, <1>6, <1>7, <1>8, <1>9, OneRow

\* What recording the outcome of the send writes.
LEMMA OutcomeWrites ==
    ASSUME RecoveryInv, NEW r \in Recoveries, NEW w \in Workers, NEW k, NEW at \in Int,
           NEW answer, RecordOutcome(r, w, k, at, answer)
    PROVE  /\ job[r].state = "signing" /\ attempt[r].state = "sending"
           /\ job'[r] = Released(r, IF answer = "ok" THEN "reconciling" ELSE "submitted_unknown")
           /\ attempt'[r].state = IF answer = "ok" THEN "response_received" ELSE "unknown"
           /\ attempt'[r].refused <=> answer = "refused"
           /\ attempt'[r].expires = attempt[r].expires
           /\ \A s \in Recoveries \ {r} : RowSame(s)
           /\ UNCHANGED <<now, parent, incident, account, permit, proof>>
           /\ RecoveryTypeOK'
  <1> DEFINE st == IF answer = "ok" THEN "response_received" ELSE "unknown"
             js == IF answer = "ok" THEN "reconciling" ELSE "submitted_unknown"
             no == answer = "refused"
  <1>1. /\ attempt' = [attempt EXCEPT ![r].state = st, ![r].refused = no]
        /\ job' = [job EXCEPT ![r] = Released(r, js)]
        /\ job[r].state = "signing" /\ attempt[r].state = "sending"
        /\ UNCHANGED <<now, parent, incident, account, permit, proof>>
    BY DEF RecordOutcome, HasClaim, parentVars
  <1>2. st \in AttemptStates /\ js \in JobStates /\ no \in BOOLEAN
    BY DEF AttemptStates, JobStates
  <1>3. /\ attempt[r] \in Attempt /\ attempt \in [Recoveries -> Attempt]
        /\ job \in [Recoveries -> Job]
    BY DEF RecoveryInv, RecoveryTypeOK
  <1> HIDE DEF st, js, no
  <1>4. PICK a \in Attempt : /\ a = [attempt[r] EXCEPT !.state = st, !.refused = no]
                             /\ a.state = st /\ a.refused = no
                             /\ a.expires = attempt[r].expires
    <2>1. \A x \in Attempt : /\ [x EXCEPT !.state = st, !.refused = no] \in Attempt
                              /\ [x EXCEPT !.state = st, !.refused = no].state = st
                              /\ [x EXCEPT !.state = st, !.refused = no].refused = no
                              /\ [x EXCEPT !.state = st, !.refused = no].expires = x.expires
      BY <1>2 DEF Attempt
    <2> QED
      BY <1>3, <2>1
  <1>5. attempt' = [attempt EXCEPT ![r] = a]
    BY <1>1, <1>3, <1>4
  <1>6. PICK j \in Job : j = Released(r, js)
    BY <1>2, ReleasedRow DEF RecoveryInv
  <1>7. /\ attempt' \in [Recoveries -> Attempt] /\ job' \in [Recoveries -> Job]
        /\ attempt'[r] = a /\ job'[r] = j
        /\ \A s \in Recoveries \ {r} : attempt'[s] = attempt[s] /\ job'[s] = job[s]
    BY <1>1, <1>3, <1>5, <1>6
  <1>8. RecoveryTypeOK'
    BY <1>1, <1>7 DEF RecoveryInv, RecoveryTypeOK
  <1>9. \A s \in Recoveries \ {r} : RowSame(s)
    BY <1>1, <1>7 DEF RowSame
  <1> QED
    BY <1>1, <1>4, <1>6, <1>7, <1>8, <1>9 DEF st, js, no

\* A recorded outcome, an answer or its absence, keeps the store's invariant.
LEMMA OutcomeKeeps ==
    ASSUME RecoveryInv, NEW r \in Recoveries, NEW w \in Workers, NEW k, NEW at \in Int,
           NEW answer, RecordOutcome(r, w, k, at, answer)
    PROVE  RecoveryInv' /\ \A s \in Recoveries : RowKept(s)
  <1>1. /\ job[r].state = "signing" /\ attempt[r].state = "sending"
        /\ job'[r] = Released(r, IF answer = "ok" THEN "reconciling" ELSE "submitted_unknown")
        /\ attempt'[r].state = IF answer = "ok" THEN "response_received" ELSE "unknown"
        /\ \A s \in Recoveries \ {r} : RowSame(s)
        /\ UNCHANGED <<now, parent, incident, account, permit, proof>>
        /\ RecoveryTypeOK'
    BY OutcomeWrites
  <1>2. /\ job'[r].state \in {"reconciling", "submitted_unknown"}
        /\ job'[r].worker = NoWorker /\ job'[r].token = job[r].token
    BY <1>1, ReleasedRow DEF RecoveryInv, JobStates
  <1>3. RowAgrees(r)
    BY DEF RecoveryInv
  <1>4. attempt'[r].state \in {"unknown", "response_received"}
    BY <1>1
  <1>5. RowKept(r) /\ Active(r)
    BY <1>1, <1>2 DEF RowKept, Active
  <1>6. RowAgrees(r)'
    BY <1>1, <1>2, <1>3, <1>4 DEF RowAgrees
  <1> QED
    BY <1>1, <1>5, <1>6, OneRow

\* Giving a reconciliation claim back only clears the claim.
LEMMA GivenBack ==
    ASSUME RecoveryInv, NEW r \in Recoveries, job[r].state = "reconciling",
           job' = [job EXCEPT ![r] = Released(r, "reconciling")],
           UNCHANGED <<now, parentVars, permit, attempt, proof>>
    PROVE  /\ RecoveryInv' /\ \A s \in Recoveries : RowKept(s)
           /\ \A s \in Recoveries : job'[s].state = job[s].state
  <1>1. UNCHANGED <<now, parent, incident, account, permit, attempt, proof>>
    BY DEF parentVars
  <1>2. PICK j \in Job : /\ j = Released(r, "reconciling") /\ j.state = "reconciling"
                         /\ j.worker = NoWorker /\ j.token = job[r].token
    BY ReleasedRow DEF RecoveryInv, JobStates
  <1>3. RowAgrees(r) /\ job \in [Recoveries -> Job]
    BY DEF RecoveryInv, RecoveryTypeOK
  <1>4. /\ job' \in [Recoveries -> Job] /\ job'[r] = j
        /\ \A s \in Recoveries \ {r} : job'[s] = job[s]
    BY <1>2, <1>3
  <1>5. RecoveryTypeOK'
    BY <1>1, <1>4 DEF RecoveryInv, RecoveryTypeOK
  <1>6. \A s \in Recoveries \ {r} : RowSame(s)
    BY <1>1, <1>4 DEF RowSame
  <1>7. RowKept(r) /\ Active(r)
    BY <1>1, <1>2, <1>4 DEF RowKept, Active
  <1>8. RowAgrees(r)'
    BY <1>1, <1>2, <1>3, <1>4 DEF RowAgrees
  <1> QED
    BY <1>1, <1>2, <1>4, <1>5, <1>6, <1>7, <1>8, OneRow

\* Recovery r, and no other, is ended by a complete reconciliation.
Ends(r, success) ==
    /\ job[r].state = "reconciling"
    /\ job'[r] = Released(r, "terminal")
    /\ proof'[r] = IF success THEN "succeeded" ELSE "failed"
    /\ \A s \in Recoveries \ {r} : RowSame(s)
    /\ UNCHANGED <<now, parent, permit, attempt>>

\* What a complete reconciliation writes.
LEMMA ReconcileWrites ==
    ASSUME RecoveryInv, NEW r \in Recoveries, NEW w \in Workers, NEW k, NEW at \in Int,
           NEW seen \in Int, NEW p \in Int, NEW q \in Int, NEW success,
           NEW resolution \in {"none", "contained", "closed"},
           ReconcileRecovery(r, w, k, at, seen, p, q, success, resolution)
    PROVE  /\ Ends(r, success)
           /\ incident' = IF resolution = "none" THEN incident
                          ELSE [incident EXCEPT ![permit[r].incident] = resolution]
           /\ RecoveryTypeOK'
  <1>1. /\ proof' = [proof EXCEPT ![r] = IF success THEN "succeeded" ELSE "failed"]
        /\ incident' = IF resolution = "none" THEN incident
                       ELSE [incident EXCEPT ![permit[r].incident] = resolution]
        /\ job' = [job EXCEPT ![r] = Released(r, "terminal")]
        /\ UNCHANGED <<now, parent, permit, attempt>>
        /\ job[r].state = "reconciling"
        /\ Observed(p, q, seen)
    BY DEF ReconcileRecovery, HasClaim
  <1>2. PICK j \in Job : j = Released(r, "terminal")
    BY ReleasedRow DEF RecoveryInv, JobStates
  <1>3. /\ job \in [Recoveries -> Job]
        /\ proof \in [Recoveries -> {"none", "failed", "succeeded"}]
        /\ incident \in [Incidents -> {"none", "open", "contained", "closed"}]
    BY DEF RecoveryInv, RecoveryTypeOK
  <1>4. /\ job' \in [Recoveries -> Job] /\ job'[r] = j
        /\ proof' \in [Recoveries -> {"none", "failed", "succeeded"}]
        /\ proof'[r] = IF success THEN "succeeded" ELSE "failed"
        /\ \A s \in Recoveries \ {r} : job'[s] = job[s] /\ proof'[s] = proof[s]
    BY <1>1, <1>2, <1>3
  <1>5. incident' \in [Incidents -> {"none", "open", "contained", "closed"}]
    BY <1>1, <1>3
  <1>6. RecoveryTypeOK'
    BY <1>1, <1>4, <1>5, ObservedTypes DEF RecoveryInv, RecoveryTypeOK
  <1>7. \A s \in Recoveries \ {r} : RowSame(s)
    BY <1>1, <1>4 DEF RowSame
  <1> QED
    BY <1>1, <1>2, <1>4, <1>6, <1>7 DEF Ends

\* reconcile_recovery keeps the store's invariant.
LEMMA ReconcileKeeps ==
    ASSUME RecoveryInv, NEW r \in Recoveries, NEW w \in Workers, NEW k, NEW at \in Int,
           NEW seen \in Int, NEW p \in Int, NEW q \in Int, NEW success,
           NEW resolution \in {"none", "contained", "closed"},
           ReconcileRecovery(r, w, k, at, seen, p, q, success, resolution)
    PROVE  RecoveryInv' /\ \A s \in Recoveries : RowKept(s)
  <1>0. Ends(r, success) /\ RecoveryTypeOK'
    BY ReconcileWrites
  <1>1. /\ job[r].state = "reconciling"
        /\ job'[r] = Released(r, "terminal")
        /\ \A s \in Recoveries \ {r} : RowSame(s)
        /\ UNCHANGED <<now, parent, permit, attempt>>
        /\ RecoveryTypeOK'
    BY <1>0 DEF Ends
  <1>2. /\ job'[r].state = "terminal" /\ job'[r].worker = NoWorker
        /\ job'[r].token = job[r].token
    BY <1>1, ReleasedRow DEF RecoveryInv, JobStates
  <1>3. RowAgrees(r)
    BY DEF RecoveryInv
  <1>4. RowKept(r) /\ Active(r)
    BY <1>1, <1>2 DEF RowKept, Active
  <1>5. RowAgrees(r)'
    BY <1>1, <1>2, <1>3 DEF RowAgrees
  <1> QED
    BY <1>1, <1>4, <1>5, OneRow

\* Closing a fenced parent keeps the store's invariant.
LEMMA CloseFencedKeeps ==
    ASSUME RecoveryInv, NEW r \in Recoveries, CloseFencedIncident(r)
    PROVE  RecoveryInv' /\ \A s \in Recoveries : RowKept(s)
  <1>1. RecoveryTypeOK' /\ parent' = parent /\ UNCHANGED laneVars
    BY DEF RecoveryInv, RecoveryTypeOK, CloseFencedIncident, laneVars
  <1> QED
    BY <1>1, LaneFrame

(***************************************************************************)
(* The store alone.                                                        *)
(***************************************************************************)

\* The empty store satisfies the invariant.
LEMMA RecoveryInitInv ==
    RecoveryInit => RecoveryInv
  <1> SUFFICES ASSUME RecoveryInit PROVE RecoveryInv
    OBVIOUS
  <1>1. NoPermit \in Permit /\ NoPermit.state = "none" /\ NoPermit.kind = "noop_fence"
    BY DEF NoPermit, Permit, Kinds, Never
  <1>2. NoJob \in Job /\ NoJob.state = "none" /\ NoJob.worker = NoWorker
    BY DEF NoJob, Job, JobStates, Never
  <1>3. NoAttempt \in Attempt /\ NoAttempt.state = "none"
    BY DEF NoAttempt, Attempt, AttemptStates, Never
  <1>4. RecoveryTypeOK
    <2>1. /\ permit \in [Recoveries -> Permit] /\ job \in [Recoveries -> Job]
          /\ attempt \in [Recoveries -> Attempt]
          /\ proof \in [Recoveries -> {"none", "failed", "succeeded"}]
          /\ incident \in [Incidents -> {"none", "open", "contained", "closed"}]
      BY <1>1, <1>2, <1>3 DEF RecoveryInit
    <2>2. account \in [position : Int, at : Int,
                       protection : {"none", "flat", "protected", "under_protected",
                                     "over_protected"}]
      BY DEF RecoveryInit, Never
    <2>3. now \in Nat /\ parent \in [outcome : {"unknown", "response_received"}, terminal : BOOLEAN]
      BY DEF RecoveryInit
    <2> QED
      BY <2>1, <2>2, <2>3 DEF RecoveryTypeOK
  <1>5. \A r \in Recoveries : /\ permit[r] = NoPermit /\ job[r] = NoJob
                              /\ attempt[r] = NoAttempt /\ proof[r] = "none"
    BY DEF RecoveryInit
  <1>6. \A r \in Recoveries : RowAgrees(r) /\ ~Active(r)
    BY <1>1, <1>2, <1>3, <1>5 DEF RowAgrees, Active
  <1> QED
    BY <1>1, <1>4, <1>5, <1>6 DEF RecoveryInv, Serial, PermittedBehindFence

\* The inputs the store is exercised with have their types.
LEMMA StoreInputs ==
    ASSUME RecoveryTypeOK
    PROVE  /\ \A at \in Readings : at \in Int /\ at <= now
           /\ Positions \subseteq Int /\ Quantities \subseteq Int /\ Leases \subseteq Int
           /\ \A o \in Positions : Abs(o) \in Nat /\ 0..Abs(o) \subseteq Nat
  <1>1. \A o \in Int : Abs(o) \in Nat
    BY DEF Abs
  <1> QED
    BY <1>1, RecoveryAssumption DEF Readings, RecoveryTypeOK, Quantities

\* Every step of the store keeps the invariant and the rows.
LEMMA RecoveryNextKeeps ==
    ASSUME RecoveryInv, [RecoveryNext]_recoveryVars
    PROVE  RecoveryInv' /\ \A r \in Recoveries : RowKept(r)
  <1>1. RecoveryTypeOK
    BY DEF RecoveryInv
  <1>2. CASE UNCHANGED recoveryVars
    <2>1. RecoveryTypeOK' /\ parent' = parent /\ UNCHANGED laneVars
      BY <1>1, <1>2 DEF RecoveryTypeOK, recoveryVars, parentVars, laneVars
    <2> QED
      BY <2>1, LaneFrame
  <1>3. CASE ParentSteps
    BY <1>1, <1>3, StoreInputs, OpenIncidentKeeps, ReconcileParentKeeps DEF ParentSteps
  <1>4. CASE AuthoritySteps
    BY <1>1, <1>4, StoreInputs, RegisterPermitKeeps, QueueKeeps, NormalizeExpiredKeeps,
       CloseFencedKeeps DEF AuthoritySteps
  <1>5. CASE ClaimSteps
    BY <1>1, <1>5, StoreInputs, ClaimNextKeeps, ClaimReconciliationKeeps DEF ClaimSteps
  <1>6. CASE HolderSteps
    <2>1. PICK r \in Recoveries, w \in Workers, k \in 1..MaxToken, at \in Readings :
             \/ RequireSigningAuthority(r, w, k, at)
             \/ PrepareAttempt(r, w, k, at, permit[r].expires)
             \/ RequireSubmissionAuthority(r, w, k, at)
             \/ \E answer \in {"ok", "lost", "refused"} : RecordOutcome(r, w, k, at, answer)
             \/ ReconcileIncomplete(r, w, k, at)
             \/ ReleaseReconciliationClaim(r, w, k, at)
             \/ \E p \in Positions, seen \in Readings, success \in BOOLEAN,
                   resolution \in {"none", "contained", "closed"} :
                   \E q \in Quantities :
                      ReconcileRecovery(r, w, k, at, seen, p, q, success, resolution)
      BY <1>6 DEF HolderSteps
    <2>2. at \in Int
      BY <1>1, StoreInputs
    <2>3. CASE RequireSigningAuthority(r, w, k, at)
      BY <2>2, <2>3, SigningKeeps
    <2>4. CASE PrepareAttempt(r, w, k, at, permit[r].expires)
      <3>1. permit[r].expires \in Int
        BY <1>1 DEF RecoveryTypeOK, Permit
      <3> QED
        BY <2>2, <2>4, <3>1, PrepareKeeps
    <2>5. CASE RequireSubmissionAuthority(r, w, k, at)
      BY <2>2, <2>5, SubmissionKeeps
    <2>6. CASE \E answer \in {"ok", "lost", "refused"} : RecordOutcome(r, w, k, at, answer)
      BY <2>2, <2>6, OutcomeKeeps
    <2>7. CASE ReconcileIncomplete(r, w, k, at) \/ ReleaseReconciliationClaim(r, w, k, at)
      BY <2>7, GivenBack DEF ReconcileIncomplete, ReleaseReconciliationClaim, HasClaim
    <2>8. CASE \E p \in Positions, seen \in Readings, success \in BOOLEAN,
                  resolution \in {"none", "contained", "closed"} :
                  \E q \in Quantities :
                     ReconcileRecovery(r, w, k, at, seen, p, q, success, resolution)
      <3>1. PICK p \in Positions, seen \in Readings, success \in BOOLEAN,
                 resolution \in {"none", "contained", "closed"}, q \in Quantities :
                 ReconcileRecovery(r, w, k, at, seen, p, q, success, resolution)
        BY <2>8
      <3>2. p \in Int /\ seen \in Int /\ q \in Int
        BY <1>1, StoreInputs
      <3> QED
        BY <2>2, <3>1, <3>2, ReconcileKeeps
    <2> QED
      BY <2>1, <2>3, <2>4, <2>5, <2>6, <2>7, <2>8
  <1> QED
    BY <1>2, <1>3, <1>4, <1>5, <1>6, TickKeeps DEF RecoveryNext

(***************************************************************************)
(* Theorems.                                                               *)
(***************************************************************************)

\* The inductive invariant of the recovery tables: typed rows that agree with
\* each other, one recovery alive at a time, and no permit of another kind than
\* the fence for a parent of unknown outcome unless a fence succeeded.
THEOREM RecoveryInvariant == RecoverySpec => []RecoveryInv
  <1>1. RecoveryInv /\ [RecoveryNext]_recoveryVars => RecoveryInv'
    BY RecoveryNextKeeps
  <1> QED
    BY <1>1, RecoveryInitInv, PTL DEF RecoverySpec

\* The columns of the recovery tables keep their types, whoever calls the store
\* with whatever reading of the clock.
THEOREM RecoveryTypeCorrect == RecoverySpec => []RecoveryTypeOK
  <1>1. RecoveryInv => RecoveryTypeOK
    BY DEF RecoveryInv
  <1> QED
    BY <1>1, RecoveryInvariant, PTL

\* A close or cancel of a parent of unknown outcome is prepared only behind a
\* fence that succeeded: the fence looked up when the permit is registered can
\* not be undone before the command is queued, signed or sent.
THEOREM OtherActionsFenced == RecoverySpec => []FencedBeforeOtherActions
  <1>1. RecoveryInv => FencedBeforeOtherActions
    BY DEF RecoveryInv, PermittedBehindFence, FencedBeforeOtherActions
  <1> QED
    BY <1>1, RecoveryInvariant, PTL

\* In the store alone, a claim passes on only after its lease has run out, and
\* nothing touches a recovery that has ended.
THEOREM RecoveryPassesOn == RecoverySpec => RecoveryPassesWhileAlive
  <1>1. RecoveryInv /\ [RecoveryNext]_recoveryVars =>
          [\A r \in Recoveries :
             /\ job'[r].token # job[r].token => job[r].worker = NoWorker \/ job[r].lease <= now
             /\ job[r].state = "terminal" =>
                   job'[r] = job[r] /\ attempt'[r] = attempt[r] /\ proof'[r] = proof[r]
          ]_recoveryVars
    BY RecoveryNextKeeps DEF RowKept
  <1> QED
    BY <1>1, RecoveryInvariant, PTL DEF RecoverySpec, RecoveryPassesWhileAlive
=============================================================================

------------------------ MODULE QualificationLaneProofs ------------------------
(***************************************************************************)
(* Proofs about QualificationLane, for any canaries, closes and processes, *)
(* any size, lease, age of evidence and cap: the reservation of a canary   *)
(* is counted exactly and outlives every way in which it can be exposed,   *)
(* one mutation at a time is alive, and no step is sent twice.             *)
(***************************************************************************)
EXTENDS QualificationLane, FiniteSetTheorems, TLAPS

\* A process holds the submission authority of phase p of c in memory.
Sender(w, p, c) == proc[w].pc = "sending" /\ proc[w].kind = p /\ proc[w].cmd = c

\* The request of phase p of c may still reach the venue.
Away(p, c) == <<p, c>> \in net \/ \E w \in Workers : Sender(w, p, c)

PhasesOf(c) == IF c \in Canaries THEN {"place", "cancel"} ELSE {"close"}

Unsent == {"none", "ready", "claimed", "prepared", "terminal_unsent"}

\* The phase belongs to the kind of command, the workflow waits for the reads of
\* that phase, and only canaries reserve.
CommandSound(c) ==
    /\ c \in Closes => cmd[c].released
    /\ cmd[c].state = "reconciling" => cmd[c].wf = PendingQuery(cmd[c].phase)
    /\ Active(c) => cmd[c].phase \in PhasesOf(c) /\ (c \in Canaries => ~cmd[c].released)

\* The current step follows the command; a step that was not authorized has no
\* instant of a send.
StepSound(c) ==
    /\ cmd[c].state = "queued" => Step(c).state = "ready"
    /\ cmd[c].state = "claimed" => Step(c).state \in {"claimed", "prepared", "sending"}
    /\ cmd[c].state = "reconciling" => Step(c).state = "presumed_sent"
    /\ \A p \in Phases :
          \/ step[c][p].state \in Unsent
          \/ cmd[c].state = "none"
          \/ p \notin PhasesOf(c)
          \/ p = "cancel" /\ Active(c) /\ cmd[c].phase = "place"
          => step[c][p].sent = Never

\* A successor exists beside a halted command whose cancel was never sent.
SuccessorSound(c) ==
    /\ reauth[c].state # "none" =>
          cmd[c].state = "halted" /\ step[c]["cancel"].sent = Never
    /\ reauth[c].state \in {"none", "queued", "claimed", "prepared"} =>
          reauth[c].sent = Never

ProcessSound(w) ==
    proc[w].pc # "idle" => proc[w].cmd \in Commands /\ proc[w].kind \in Kinds

\* OneMutationAtATime without cardinalities.
Exclusive ==
    /\ \A c, d \in Commands : Active(c) /\ Active(d) => c = d
    /\ \A c, d \in Canaries : ReauthActive(c) /\ ReauthActive(d) => c = d
    /\ \A c \in Commands, d \in Canaries : ~(Active(c) /\ ReauthActive(d))
    /\ recovery => /\ \A c \in Commands : ~Active(c)
                   /\ \A c \in Canaries : ~ReauthActive(c)

\* One canary at a time holds a reservation, and the account counts it.
OneReservation ==
    /\ \A c, d \in Canaries : ~cmd[c].released /\ ~cmd[d].released => c = d
    /\ exposure = IF \E c \in Canaries : ~cmd[c].released THEN 1 ELSE 0

\* What is away was authorized; the place is in one place at a time, and away
\* only until the venue has its order.
WireSound(c) ==
    /\ \A p \in Phases : Away(p, c) => step[c][p].sent # Never
    /\ \A v, w \in Workers : Sender(v, "place", c) /\ Sender(w, "place", c) => v = w
    /\ \A w \in Workers : Sender(w, "place", c) => <<"place", c>> \notin net
    /\ Away("place", c) => order[c].status = "none"
    /\ order[c].status # "none" /\ c \in Canaries => step[c]["place"].sent # Never
    /\ c \in Closes => order[c].status # "open"

\* A canary whose place is away or whose order rests is reserved.
Covered(c) == Away("place", c) \/ order[c].status = "open" => ~cmd[c].released

\* A position comes from the order of the canary that is still reserved.
PositionCovered ==
    position > 0 => \E c \in Canaries : ~cmd[c].released /\ order[c].status # "none"

\* While a close is alive the reserved canary has come to its end at the venue.
CloseSound(c) ==
    c \in Closes /\ Active(c) =>
       \A d \in Canaries : ~cmd[d].released => order[d].status \notin {"none", "open"}

\* A terminal read stays true: the order cannot work again, and a position that
\* was flat stays flat.
ReadSound(c) ==
    LET r == query[c]["terminal"]
    IN  r.status # "none" =>
          /\ cmd[c].state \notin {"none", "queued", "claimed"}
          /\ cmd[c].state = "reconciling" =>
                /\ order[c].status \notin {"none", "open"}
                /\ r.position = 0 => position = 0

QualInv ==
    /\ QualTypeOK
    /\ \A c \in Commands : CommandSound(c) /\ StepSound(c)
    /\ \A c \in Canaries : SuccessorSound(c)
    /\ \A w \in Workers : ProcessSound(w)
    /\ Exclusive
    /\ OneReservation
    /\ \A c \in Commands : WireSound(c)
    /\ \A c \in Canaries : Covered(c)
    /\ PositionCovered
    /\ \A c \in Commands : CloseSound(c)
    /\ \A c \in Commands : ReadSound(c)

(***************************************************************************)
(* How the parts of the state may move.                                    *)
(***************************************************************************)

\* No command begins, and what was authorized stays so.
RowKept(c) ==
    /\ Active(c)' => Active(c)
    /\ \A p \in Phases : step[c][p].sent # Never => step'[c][p].sent # Never

\* Besides, no reservation is taken or given back.
RowQuiet(c) == RowKept(c) /\ cmd'[c].released = cmd[c].released

\* No process comes to hold a submission authority.
NoNewSender ==
    \A w \in Workers, p \in Phases, c \in Commands : Sender(w, p, c)' => Sender(w, p, c)

\* No order appears or comes back to work.
OrderQuiet(c) ==
    /\ (order'[c].status = "none") <=> (order[c].status = "none")
    /\ order'[c].status = "open" => order[c].status = "open"

\* The rows of one command and its reads, and the successors.
RowsSound ==
    /\ \A c \in Commands : CommandSound(c) /\ StepSound(c) /\ ReadSound(c)
    /\ \A c \in Canaries : SuccessorSound(c)

\* The phases as the proofs use them.
LEMMA PhaseFacts ==
    /\ "place" \in Phases /\ "cancel" \in Phases /\ "close" \in Phases
    /\ \A c : PhasesOf(c) \subseteq Phases
    /\ Phases \subseteq Kinds
    /\ Canaries \subseteq Commands /\ Closes \subseteq Commands
    /\ \A c \in Commands : c \notin Canaries => c \in Closes
    /\ \A c \in Canaries : c \notin Closes
  BY QualificationAssumption DEF Phases, PhasesOf, Kinds, Commands

\* The rows of the state.
LEMMA Rows ==
    ASSUME QualTypeOK, NEW c \in Commands
    PROVE  /\ cmd[c] \in CommandRow /\ claim[c] \in Claims /\ order[c] \in OrderRow
           /\ \A p \in Phases : step[c][p] \in StepRow
           /\ \A k \in QueryKinds : query[c][k] \in ReportRow
  BY DEF QualTypeOK

\* Nothing is away that was not away before.
LEMMA NothingNewAway ==
    ASSUME NoNewSender, net' \subseteq net, NEW p \in Phases, NEW c \in Commands
    PROVE  Away(p, c)' => Away(p, c)
  BY DEF NoNewSender, Away

\* A step at which no command is admitted and nothing is released, sent or
\* accepted keeps the invariant when it keeps the rows sound and exclusive.
LEMMA QuietRows ==
    ASSUME QualInv, QualTypeOK', RowsSound', \A w \in Workers : ProcessSound(w)', Exclusive',
           \A c \in Commands : RowQuiet(c) /\ OrderQuiet(c), exposure' = exposure,
           NoNewSender, net' \subseteq net, position' <= position
    PROVE  QualInv'
  <1>2. OneReservation'
    BY PhaseFacts DEF QualInv, OneReservation, RowQuiet, RowKept
  <1>3. ASSUME NEW c \in Commands PROVE WireSound(c)'
    <2>1. WireSound(c) /\ RowQuiet(c) /\ OrderQuiet(c)
      BY DEF QualInv
    <2>2. \A p \in Phases : Away(p, c)' => Away(p, c)
      BY NothingNewAway
    <2>3. \A w \in Workers : Sender(w, "place", c)' => Sender(w, "place", c)
      BY PhaseFacts DEF NoNewSender
    <2> QED
      BY <2>1, <2>2, <2>3, PhaseFacts DEF WireSound, RowQuiet, RowKept, OrderQuiet
  <1>4. ASSUME NEW c \in Canaries PROVE Covered(c)'
    <2>1. Covered(c) /\ RowQuiet(c) /\ OrderQuiet(c)
      BY PhaseFacts DEF QualInv
    <2>2. Away("place", c)' => Away("place", c)
      BY NothingNewAway, PhaseFacts
    <2> QED
      BY <2>1, <2>2 DEF Covered, RowQuiet, RowKept, OrderQuiet
  <1>5. PositionCovered'
    <2>1. position \in Nat /\ position' \in Nat
      BY DEF QualInv, QualTypeOK
    <2> QED
      BY <2>1, PhaseFacts DEF QualInv, PositionCovered, RowQuiet, RowKept, OrderQuiet
  <1>6. ASSUME NEW c \in Commands PROVE CloseSound(c)'
    BY PhaseFacts DEF QualInv, CloseSound, RowQuiet, RowKept, OrderQuiet
  <1> QED
    BY <1>2, <1>3, <1>4, <1>5, <1>6 DEF QualInv, RowsSound

\* The same when no successor or recovery begins either.
LEMMA QuietStep ==
    ASSUME QualInv, QualTypeOK', RowsSound', \A w \in Workers : ProcessSound(w)',
           \A c \in Commands : RowQuiet(c) /\ OrderQuiet(c),
           \A c \in Canaries : ReauthActive(c)' => ReauthActive(c),
           recovery' => recovery, exposure' = exposure,
           NoNewSender, net' \subseteq net, position' <= position
    PROVE  QualInv'
  <1>1. Exclusive
    BY DEF QualInv
  <1>2. /\ \A c \in Commands : Active(c)' => Active(c)
        /\ \A c \in Canaries : ReauthActive(c)' => ReauthActive(c)
        /\ recovery' => recovery
    BY DEF RowQuiet, RowKept
  <1>3. Exclusive'
    BY <1>1, <1>2 DEF Exclusive
  <1> QED
    BY <1>3, QuietRows

\* The rows are sound after a step that does not touch them.
LEMMA RowsAlone ==
    ASSUME QualInv, UNCHANGED <<cmd, step, query, reauth>>,
           \A c \in Commands : OrderQuiet(c), position' = 0 \/ position' = position
    PROVE  RowsSound' /\ \A c \in Commands : RowQuiet(c)
  <1>1. ASSUME NEW c \in Commands PROVE CommandSound(c)' /\ StepSound(c)' /\ RowQuiet(c)
    BY DEF QualInv, CommandSound, StepSound, RowQuiet, RowKept, Active, Step
  <1>2. ASSUME NEW c \in Commands PROVE ReadSound(c)'
    BY DEF QualInv, ReadSound, OrderQuiet
  <1>3. ASSUME NEW c \in Canaries PROVE SuccessorSound(c)'
    BY DEF QualInv, SuccessorSound
  <1> QED
    BY <1>1, <1>2, <1>3 DEF RowsSound

\* Writing one command row.
LEMMA CommandWritten ==
    ASSUME QualTypeOK, NEW c \in Commands, NEW x \in CommandRow, cmd' = [cmd EXCEPT ![c] = x]
    PROVE  /\ cmd' \in [Commands -> CommandRow] /\ cmd'[c] = x
           /\ \A d \in Commands \ {c} : cmd'[d] = cmd[d]
  BY DEF QualTypeOK

\* Writing one step of one command.
LEMMA StepWritten ==
    ASSUME QualTypeOK, NEW c \in Commands, NEW p \in Phases, NEW y \in StepRow,
           step' = [step EXCEPT ![c][p] = y]
    PROVE  /\ step' \in [Commands -> [Phases -> StepRow]] /\ step'[c][p] = y
           /\ \A q \in Phases \ {p} : step'[c][q] = step[c][q]
           /\ \A d \in Commands \ {c} : step'[d] = step[d]
  BY DEF QualTypeOK

\* Command row x and step y of phase p may follow those of an unsent command c.
Follows(c, p, x, y) ==
    /\ cmd[c].state \in {"queued", "claimed"} /\ cmd[c].phase = p
    /\ x \in CommandRow /\ x.phase = p /\ x.released = cmd[c].released
    /\ y \in StepRow
    /\ \/ x.state = "queued" /\ y.state = "ready"
       \/ x.state = "claimed" /\ y.state \in {"claimed", "prepared", "sending"}
       \/ x.state = "reconciling" /\ y.state = "presumed_sent" /\ x.wf = PendingQuery(p)
    /\ y.state \in Unsent => y.sent = Never
    /\ step[c][p].sent # Never => y.sent # Never

\* A command that stays alive in its phase, with its step.
LEMMA ActiveMove ==
    ASSUME QualInv, NEW c \in Commands, NEW p \in Phases, NEW x, NEW y, Follows(c, p, x, y),
           cmd' = [cmd EXCEPT ![c] = x], step' = [step EXCEPT ![c][p] = y],
           UNCHANGED <<query, reauth, order, position>>
    PROVE  /\ RowsSound' /\ \A d \in Commands : RowQuiet(d)
           /\ cmd' \in [Commands -> CommandRow] /\ step' \in [Commands -> [Phases -> StepRow]]
           /\ step'[c][p] = y /\ \A q \in Phases \ {p} : step'[c][q] = step[c][q]
           /\ \A d \in Commands \ {c} : step'[d] = step[d]
  <1> USE DEF Follows
  <1>1. QualTypeOK
    BY DEF QualInv
  <1>2. /\ cmd' \in [Commands -> CommandRow] /\ cmd'[c] = x
        /\ \A d \in Commands \ {c} : cmd'[d] = cmd[d]
    BY <1>1, CommandWritten
  <1>3. /\ step' \in [Commands -> [Phases -> StepRow]] /\ step'[c][p] = y
        /\ \A q \in Phases \ {p} : step'[c][q] = step[c][q]
        /\ \A d \in Commands \ {c} : step'[d] = step[d]
    BY <1>1, StepWritten
  <1>4. Active(c) /\ Active(c)' /\ CommandSound(c) /\ StepSound(c) /\ ReadSound(c)
    BY <1>2 DEF QualInv, Active
  <1>5. ASSUME NEW d \in Commands \ {c}
        PROVE  CommandSound(d)' /\ StepSound(d)' /\ ReadSound(d)' /\ RowQuiet(d)
    <2>1. CommandSound(d) /\ StepSound(d) /\ ReadSound(d)
      BY DEF QualInv
    <2>2. cmd'[d] = cmd[d] /\ step'[d] = step[d] /\ query' = query /\ order' = order
          /\ position' = position
      BY <1>2, <1>3
    <2> QED
      BY <2>1, <2>2 DEF CommandSound, StepSound, ReadSound, RowQuiet, RowKept, Active, Step
  <1>6. CommandSound(c)' /\ RowQuiet(c)
    BY <1>2, <1>3, <1>4 DEF CommandSound, RowQuiet, RowKept
  <1>7. StepSound(c)'
    <2>1. Step(c)' = y
      BY <1>2, <1>3 DEF Step
    <2>2. cmd'[c].state # "none"
      BY <1>2
    <2>3. ASSUME NEW q \in Phases,
                 \/ step'[c][q].state \in Unsent
                 \/ q \notin PhasesOf(c)
                 \/ q = "cancel" /\ p = "place"
          PROVE  step'[c][q].sent = Never
      <3>1. p \in PhasesOf(c)
        BY <1>4 DEF CommandSound
      <3>2. CASE q = p
        BY <1>3, <2>3, <3>1, <3>2
      <3>3. CASE q # p
        BY <1>3, <1>4, <2>3, <3>3 DEF StepSound
      <3> QED
        BY <3>2, <3>3
    <2> QED
      BY <1>2, <2>1, <2>2, <2>3 DEF StepSound
  <1>8. ReadSound(c)'
    BY <1>4 DEF ReadSound
  <1>9. ASSUME NEW d \in Canaries PROVE SuccessorSound(d)'
    <2>1. SuccessorSound(d) /\ d \in Commands
      BY PhaseFacts DEF QualInv
    <2>2. CASE d # c
      BY <1>2, <1>3, <2>1, <2>2 DEF SuccessorSound
    <2>3. CASE d = c
      BY <1>4, <2>1, <2>3 DEF SuccessorSound
    <2> QED
      BY <2>2, <2>3
  <1> QED
    BY <1>2, <1>3, <1>5, <1>6, <1>7, <1>8, <1>9 DEF RowsSound

(***************************************************************************)
(* Time, account safety and the processes.                                 *)
(***************************************************************************)

\* Time passes, and requests die with their expiry.
LEMMA TickKeeps ==
    ASSUME QualInv, Tick
    PROVE  QualInv'
  <1>1. UNCHANGED <<cmd, step, claim, query, reauth, exposure, incident, recovery, proc, order,
                    position>>
    BY DEF Tick, storeVars, safetyVars
  <1>2. QualTypeOK /\ position \in Nat
    BY DEF QualInv, QualTypeOK
  <1>3. now' \in Time /\ net' \subseteq net
    BY <1>2, QualificationAssumption DEF QualTypeOK, Tick, Time
  <1>4. QualTypeOK'
    BY <1>1, <1>2, <1>3 DEF QualTypeOK
  <1>5. \A c \in Commands : OrderQuiet(c)
    BY <1>1 DEF OrderQuiet
  <1>6. RowsSound' /\ \A c \in Commands : RowQuiet(c)
    BY <1>1, <1>5, RowsAlone
  <1>7. (\A w \in Workers : ProcessSound(w)') /\ NoNewSender
    BY <1>1 DEF QualInv, ProcessSound, NoNewSender, Sender
  <1>8. \A c \in Canaries : ReauthActive(c)' => ReauthActive(c)
    BY <1>1 DEF ReauthActive
  <1> QED
    BY <1>1, <1>2, <1>3, <1>4, <1>5, <1>6, <1>7, <1>8, QuietStep

\* Incidents come and go, and a recovery ends, with the position or without.
LEMMA SafetyKeeps ==
    ASSUME QualInv, OpenIncident \/ CloseIncident \/ EndRecovery
    PROVE  QualInv'
  <1>1. /\ UNCHANGED <<now, cmd, step, claim, query, reauth, exposure, proc, net, order>>
        /\ incident' \in BOOLEAN /\ recovery' \in BOOLEAN /\ (recovery' => recovery)
        /\ position' = 0 \/ position' = position
    <2>1. incident \in BOOLEAN /\ recovery \in BOOLEAN
      BY DEF QualInv, QualTypeOK
    <2>2. CASE OpenIncident
      BY <2>1, <2>2 DEF OpenIncident, storeVars, venueVars
    <2>3. CASE CloseIncident
      BY <2>1, <2>3 DEF CloseIncident, storeVars, venueVars
    <2>4. CASE EndRecovery
      BY <2>1, <2>4 DEF EndRecovery, storeVars
    <2> QED
      BY <2>2, <2>3, <2>4
  <1>2. QualTypeOK /\ position \in Nat
    BY DEF QualInv, QualTypeOK
  <1>3. QualTypeOK'
    BY <1>1, <1>2 DEF QualTypeOK
  <1>4. \A c \in Commands : OrderQuiet(c)
    BY <1>1 DEF OrderQuiet
  <1>5. RowsSound' /\ \A c \in Commands : RowQuiet(c)
    BY <1>1, <1>4, RowsAlone
  <1>6. (\A w \in Workers : ProcessSound(w)') /\ NoNewSender
    BY <1>1 DEF QualInv, ProcessSound, NoNewSender, Sender
  <1>7. \A c \in Canaries : ReauthActive(c)' => ReauthActive(c)
    BY <1>1 DEF ReauthActive
  <1>8. net' \subseteq net /\ position' <= position
    BY <1>1, <1>2
  <1> QED
    BY <1>1, <1>3, <1>4, <1>5, <1>6, <1>7, <1>8, QuietStep

\* A process that has nothing to do.
LEMMA IdleProcess == Idle \in Process /\ Idle.pc = "idle"
  <1>1. 0 \in Time /\ 0 \in Deadline /\ 0 \in Nat
    BY QualificationAssumption DEF Time, Deadline
  <1> QED
    BY <1>1 DEF Idle, Process

\* A process after its POST, or after it let the POST be.
LEMMA PostedProcess ==
    ASSUME NEW x \in Process
    PROVE  LET y == [x EXCEPT !.pc = "posted", !.until = 0]
           IN  y \in Process /\ y.pc = "posted" /\ y.cmd = x.cmd /\ y.kind = x.kind
  <1>1. 0 \in Deadline
    BY QualificationAssumption DEF Deadline
  <1> QED
    BY <1>1 DEF Process

\* One process moves and does not come to hold a submission authority.
LEMMA ProcessMove ==
    ASSUME QualInv, NEW w \in Workers, NEW x \in Process,
           x.pc # "idle" => x.cmd \in Commands /\ x.kind \in Kinds,
           x.pc # "sending" \/ x.kind \notin Phases,
           proc' = [proc EXCEPT ![w] = x]
    PROVE  /\ proc' \in [Workers -> Process]
           /\ \A v \in Workers : ProcessSound(v)'
           /\ NoNewSender
  <1>1. /\ proc' \in [Workers -> Process] /\ proc'[w] = x
        /\ \A v \in Workers \ {w} : proc'[v] = proc[v]
    BY DEF QualInv, QualTypeOK
  <1>2. \A v \in Workers : ProcessSound(v)'
    BY <1>1 DEF QualInv, ProcessSound
  <1>3. NoNewSender
    BY <1>1 DEF NoNewSender, Sender
  <1> QED
    BY <1>1, <1>2, <1>3

\* A process moves and nothing else does.
LEMMA ProcessStep ==
    ASSUME QualInv, NEW w \in Workers, NEW x \in Process,
           x.pc # "idle" => x.cmd \in Commands /\ x.kind \in Kinds,
           x.pc # "sending" \/ x.kind \notin Phases,
           proc' = [proc EXCEPT ![w] = x],
           UNCHANGED <<now, storeVars, safetyVars, venueVars>>
    PROVE  QualInv'
  <1>1. UNCHANGED <<now, cmd, step, claim, query, reauth, exposure, incident, recovery, net,
                    order, position>>
    BY DEF storeVars, safetyVars, venueVars
  <1>2. QualTypeOK /\ position \in Nat
    BY DEF QualInv, QualTypeOK
  <1>3. proc' \in [Workers -> Process] /\ NoNewSender /\ \A v \in Workers : ProcessSound(v)'
    BY ProcessMove
  <1>4. QualTypeOK'
    BY <1>1, <1>2, <1>3 DEF QualTypeOK
  <1>5. \A c \in Commands : OrderQuiet(c)
    BY <1>1 DEF OrderQuiet
  <1>6. RowsSound' /\ \A c \in Commands : RowQuiet(c)
    BY <1>1, <1>5, RowsAlone
  <1>7. \A c \in Canaries : ReauthActive(c)' => ReauthActive(c)
    BY <1>1 DEF ReauthActive
  <1> QED
    BY <1>1, <1>2, <1>3, <1>4, <1>5, <1>6, <1>7, QuietStep

\* A process dies, or does not post.
LEMMA CrashKeeps ==
    ASSUME QualInv, NEW w \in Workers, Crash(w) \/ SkipPost(w)
    PROVE  QualInv'
  <1>1. CASE Crash(w)
    BY <1>1, IdleProcess, ProcessStep DEF Crash
  <1>2. CASE SkipPost(w)
    <2>1. proc[w] \in Process /\ ProcessSound(w)
      BY DEF QualInv, QualTypeOK
    <2>2. PICK x \in Process : x = [proc[w] EXCEPT !.pc = "posted", !.until = 0] /\ x.pc = "posted"
                               /\ x.cmd = proc[w].cmd /\ x.kind = proc[w].kind
      BY <2>1, PostedProcess
    <2>3. proc' = [proc EXCEPT ![w] = x]
      BY <1>2, <2>2 DEF SkipPost
    <2>4. x.cmd \in Commands /\ x.kind \in Kinds
      BY <1>2, <2>1, <2>2 DEF SkipPost, ProcessSound
    <2> QED
      BY <1>2, <2>2, <2>3, <2>4, ProcessStep DEF SkipPost
  <1> QED
    BY <1>1, <1>2

(***************************************************************************)
(* One dispatch.                                                           *)
(***************************************************************************)

\* A command that stays alive in its phase, when nothing is sent.
LEMMA ActiveStep ==
    ASSUME QualInv, NEW c \in Commands, NEW p \in Phases, NEW x, NEW y, Follows(c, p, x, y),
           cmd' = [cmd EXCEPT ![c] = x], step' = [step EXCEPT ![c][p] = y],
           claim' \in [Commands -> Claims], proc' \in [Workers -> Process],
           NoNewSender, \A w \in Workers : ProcessSound(w)',
           UNCHANGED <<now, query, reauth, exposure, incident, recovery, net, order, position>>
    PROVE  QualInv'
  <1>1. QualTypeOK /\ position \in Nat
    BY DEF QualInv, QualTypeOK
  <1>2. /\ RowsSound' /\ \A d \in Commands : RowQuiet(d)
        /\ cmd' \in [Commands -> CommandRow] /\ step' \in [Commands -> [Phases -> StepRow]]
    BY ActiveMove
  <1>3. QualTypeOK'
    BY <1>1, <1>2 DEF QualTypeOK
  <1>4. \A d \in Commands : OrderQuiet(d)
    BY DEF OrderQuiet
  <1>5. \A d \in Canaries : ReauthActive(d)' => ReauthActive(d)
    BY DEF ReauthActive
  <1> QED
    BY <1>1, <1>2, <1>3, <1>4, <1>5, QuietStep

\* Processes that do nothing.
LEMMA ProcessesAlone ==
    ASSUME QualInv, proc' = proc
    PROVE  /\ proc' \in [Workers -> Process]
           /\ NoNewSender /\ \A w \in Workers : ProcessSound(w)'
  BY DEF QualInv, QualTypeOK, NoNewSender, Sender, ProcessSound

\* The fields of a row of which the state, or the state and the send, is written.
LEMMA CommandTo ==
    ASSUME NEW x \in CommandRow, NEW s \in {"queued", "claimed", "reconciling", "halted", "terminal"}
    PROVE  LET y == [x EXCEPT !.state = s]
           IN  y \in CommandRow /\ y.state = s /\ y.phase = x.phase /\ y.released = x.released
  BY DEF CommandRow

\* A step that only changes its state.
LEMMA StepMovedTo ==
    ASSUME NEW x \in StepRow, NEW s \in SendStates
    PROVE  LET y == [x EXCEPT !.state = s]
           IN  y \in StepRow /\ y.state = s /\ y.sent = x.sent /\ y.signing = x.signing
  BY DEF StepRow

\* The step row after a send, or after a send is presumed.
SentStep(x, s, t) == [x EXCEPT !.state = s, !.sent = t]

\* SentStep is a step row.
LEMMA StepSentTo ==
    ASSUME NEW x \in StepRow, NEW s \in SendStates, NEW t \in Stamp
    PROVE  /\ SentStep(x, s, t) \in StepRow
           /\ SentStep(x, s, t).state = s /\ SentStep(x, s, t).sent = t
  BY DEF StepRow, SentStep

\* The rows behind a command that is alive.
LEMMA ActiveRow ==
    ASSUME QualInv, NEW c \in Commands, Active(c)
    PROVE  /\ cmd[c].phase \in Phases /\ cmd[c].phase \in PhasesOf(c)
           /\ Step(c) = step[c][cmd[c].phase] /\ Step(c) \in StepRow /\ cmd[c] \in CommandRow
           /\ step[c] \in [Phases -> StepRow]
           /\ CommandSound(c) /\ StepSound(c)
           /\ Step(c).state \in Unsent => Step(c).sent = Never
  <1>1. CommandSound(c) /\ StepSound(c) /\ QualTypeOK
    BY DEF QualInv
  <1>2. cmd[c].phase \in PhasesOf(c) /\ cmd[c].phase \in Phases
    BY <1>1, PhaseFacts DEF CommandSound
  <1>3. Step(c) = step[c][cmd[c].phase] /\ Step(c) \in StepRow /\ cmd[c] \in CommandRow
        /\ step[c] \in [Phases -> StepRow]
    BY <1>1, <1>2 DEF Step, QualTypeOK
  <1> QED
    BY <1>1, <1>2, <1>3 DEF StepSound

\* The row of a claim.
LEMMA ClaimRow ==
    ASSUME QualTypeOK, NEW w \in Workers, NEW k \in Nat
    PROVE  [worker |-> w, token |-> k + 1, lease |-> now + LeaseTime] \in Claims
  BY QualificationAssumption DEF QualTypeOK, Claims, Time, Deadline

\* A claim that is given back.
LEMMA FreeClaim ==
    /\ NoClaim \in Claims
    /\ \A k \in Nat : [NoClaim EXCEPT !.token = k] \in Claims
  <1>1. 0 \in Deadline
    BY QualificationAssumption DEF Deadline
  <1> QED
    BY <1>1 DEF NoClaim, Claims

\* A process that has claimed request k of c.
Claimant(c, k, n) == [Idle EXCEPT !.pc = "working", !.cmd = c, !.kind = k, !.token = n]

\* Claimant is a process row.
LEMMA ClaimantProcess ==
    ASSUME NEW c \in Commands, NEW k \in Kinds, NEW n \in Nat
    PROVE  /\ Claimant(c, k, n) \in Process /\ Claimant(c, k, n).pc = "working"
           /\ Claimant(c, k, n).cmd = c /\ Claimant(c, k, n).kind = k
  BY IdleProcess DEF Process, Claimant

\* claim_next.
LEMMA ClaimKeeps ==
    ASSUME QualInv, NEW w \in Workers, NEW c \in Commands, Claim(w, c)
    PROVE  QualInv'
  <1>1. QualTypeOK /\ cmd[c].state = "queued" /\ Active(c)
    BY DEF QualInv, Claim, Active
  <1>2. PICK p \in Phases : cmd[c].phase = p /\ Step(c) = step[c][p] /\ p \in Kinds
    BY <1>1, ActiveRow, PhaseFacts
  <1>3. /\ cmd[c] \in CommandRow /\ step[c][p] \in StepRow /\ claim[c].token \in Nat
        /\ step[c][p].state = "ready" /\ step[c][p].sent = Never
    BY <1>1, <1>2, ActiveRow DEF Claim, Unsent, QualTypeOK, Claims
  <1>4. PICK x \in CommandRow : /\ x = [cmd[c] EXCEPT !.state = "claimed"] /\ x.state = "claimed"
                                /\ x.phase = p /\ x.released = cmd[c].released
    <2> DEFINE x == [cmd[c] EXCEPT !.state = "claimed"]
    <2>1. x \in CommandRow /\ x.state = "claimed" /\ x.phase = p /\ x.released = cmd[c].released
      BY <1>2, <1>3 DEF CommandRow
    <2> QED
      BY <2>1
  <1>5. PICK y \in StepRow : /\ y = [step[c][p] EXCEPT !.state = "claimed"]
                             /\ y.state = "claimed" /\ y.sent = Never
    <2>1. "claimed" \in SendStates
      BY DEF SendStates
    <2> QED
      BY <1>3, <2>1, StepMovedTo
  <1>6. cmd' = [cmd EXCEPT ![c] = x] /\ step' = [step EXCEPT ![c][p] = y]
    BY <1>2, <1>4, <1>5 DEF Claim, StepTo
  <1>7. Follows(c, p, x, y)
    BY <1>1, <1>2, <1>3, <1>4, <1>5 DEF Follows
  <1>8. claim' \in [Commands -> Claims]
    BY <1>1, <1>3, ClaimRow DEF Claim, QualTypeOK
  <1>9. claim[c].token + 1 \in Nat
    BY <1>3
  <1>10. proc' = [proc EXCEPT ![w] = Claimant(c, p, claim[c].token + 1)]
    BY <1>2 DEF Claim, Claimant
  <1>11. proc' \in [Workers -> Process] /\ NoNewSender /\ \A v \in Workers : ProcessSound(v)'
    <2>1. PICK z \in Process : /\ z = Claimant(c, p, claim[c].token + 1)
                               /\ z.pc = "working" /\ z.cmd = c /\ z.kind = p
      BY <1>2, <1>9, ClaimantProcess
    <2> QED
      BY <1>2, <1>10, <2>1, ProcessMove
  <1>12. UNCHANGED <<now, query, reauth, exposure, incident, recovery, net, order, position>>
    BY DEF Claim, safetyVars, venueVars
  <1> QED
    BY <1>6, <1>7, <1>8, <1>11, <1>12, ActiveStep

\* A step that only the step row of a claimed command shows.
LEMMA StepStep ==
    ASSUME QualInv, NEW c \in Commands, cmd[c].state = "claimed",
           NEW p \in Phases, cmd[c].phase = p, NEW y \in StepRow,
           y.state \in {"claimed", "prepared"}, y.sent = Never, step[c][p].sent = Never,
           step' = [step EXCEPT ![c][p] = y],
           UNCHANGED <<now, cmd, claim, query, reauth, exposure, safetyVars, proc, venueVars>>
    PROVE  QualInv'
  <1>1. QualTypeOK /\ cmd[c] \in CommandRow
    BY DEF QualInv, QualTypeOK
  <1>2. cmd' = [cmd EXCEPT ![c] = cmd[c]] /\ claim' \in [Commands -> Claims]
    BY <1>1 DEF QualTypeOK
  <1>3. Follows(c, p, cmd[c], y)
    BY <1>1 DEF Follows
  <1>4. proc' \in [Workers -> Process] /\ NoNewSender /\ \A w \in Workers : ProcessSound(w)'
    BY ProcessesAlone
  <1>5. UNCHANGED <<now, query, reauth, exposure, incident, recovery, net, order, position>>
    BY DEF safetyVars, venueVars
  <1> QED
    BY <1>2, <1>3, <1>4, <1>5, ActiveStep

\* A step whose signing authority was taken.
LEMMA StepSigned ==
    ASSUME NEW x \in StepRow
    PROVE  LET y == [x EXCEPT !.signing = TRUE]
           IN  y \in StepRow /\ y.state = x.state /\ y.sent = x.sent
  BY DEF StepRow

\* require_signing_authority and sign.
LEMMA SigningKeeps ==
    ASSUME QualInv, NEW w \in Workers, NEW c \in Commands,
           RequireSigning(w, c) \/ Prepare(w, c)
    PROVE  QualInv'
  <1>1. cmd[c].state = "claimed" /\ Step(c).state = "claimed" /\ Active(c)
    BY DEF RequireSigning, Prepare, HoldsClaim, Active
  <1>2. PICK p \in Phases : cmd[c].phase = p /\ Step(c) = step[c][p]
    BY <1>1, ActiveRow
  <1>3. step[c][p] \in StepRow /\ step[c][p].state = "claimed" /\ step[c][p].sent = Never
    BY <1>1, <1>2, ActiveRow DEF Unsent
  <1>4. CASE RequireSigning(w, c)
    <2>1. PICK y \in StepRow : /\ y = [step[c][p] EXCEPT !.signing = TRUE]
                               /\ y.state = "claimed" /\ y.sent = Never
      BY <1>3, StepSigned
    <2>2. step' = [step EXCEPT ![c][p] = y]
      BY <1>2, <1>4, <2>1 DEF RequireSigning
    <2>3. UNCHANGED <<now, cmd, claim, query, reauth, exposure, safetyVars, proc, venueVars>>
      BY <1>4 DEF RequireSigning
    <2> QED
      BY <1>1, <1>2, <1>3, <2>1, <2>2, <2>3, StepStep
  <1>5. CASE Prepare(w, c)
    <2>1. "prepared" \in SendStates
      BY DEF SendStates
    <2>2. PICK y \in StepRow : /\ y = [step[c][p] EXCEPT !.state = "prepared"]
                               /\ y.state = "prepared" /\ y.sent = Never
      BY <1>3, <2>1, StepMovedTo
    <2>3. step' = [step EXCEPT ![c][p] = y]
      BY <1>2, <1>5, <2>2 DEF Prepare, StepTo
    <2>4. UNCHANGED <<now, cmd, claim, query, reauth, exposure, safetyVars, proc, venueVars>>
      BY <1>5 DEF Prepare
    <2> QED
      BY <1>1, <1>2, <1>3, <2>2, <2>3, <2>4, StepStep
  <1> QED
    BY <1>4, <1>5

\* The workflow's state after a send.
LEMMA PendingWorkflow == \A p \in Phases : PendingQuery(p) \in Workflows
  BY DEF PendingQuery, Phases, Workflows

\* A command that waits for the reads of workflow f.
LEMMA CommandPending ==
    ASSUME NEW x \in CommandRow, NEW f \in Workflows
    PROVE  \E y \in CommandRow :
              /\ y = [x EXCEPT !.state = "reconciling", !.wf = f] /\ y.state = "reconciling"
              /\ y.phase = x.phase /\ y.released = x.released /\ y.wf = f
  <1> DEFINE y == [x EXCEPT !.state = "reconciling", !.wf = f]
  <1>1. /\ y \in CommandRow /\ y.state = "reconciling"
        /\ y.phase = x.phase /\ y.released = x.released /\ y.wf = f
    BY DEF CommandRow
  <1> QED
    BY <1>1

\* A step that is presumed sent.
LEMMA PresumeStep ==
    ASSUME QualInv, NEW c \in Commands, cmd[c].state = "claimed", NEW at \in Stamp,
           Step(c).sent # Never => at # Never, Presume(c, at),
           proc' \in [Workers -> Process], NoNewSender, \A w \in Workers : ProcessSound(w)',
           UNCHANGED <<now, query, reauth, exposure, safetyVars, venueVars>>
    PROVE  QualInv'
  <1>1. Active(c) /\ QualTypeOK
    BY DEF Active, QualInv
  <1>2. PICK p \in Phases : cmd[c].phase = p /\ Step(c) = step[c][p]
    BY <1>1, ActiveRow
  <1>3. cmd[c] \in CommandRow /\ step[c][p] \in StepRow /\ claim[c].token \in Nat
    BY <1>1, <1>2, ActiveRow DEF QualTypeOK, Claims
  <1>f. PICK f \in Workflows : f = PendingQuery(p)
    BY PendingWorkflow
  <1>4. PICK x \in CommandRow :
           /\ x = [cmd[c] EXCEPT !.state = "reconciling", !.wf = f] /\ x.state = "reconciling"
           /\ x.phase = cmd[c].phase /\ x.released = cmd[c].released /\ x.wf = f
    BY <1>3, CommandPending
  <1>5. PICK y \in StepRow : /\ y = SentStep(step[c][p], "presumed_sent", at)
                             /\ y.state = "presumed_sent" /\ y.sent = at
    <2>1. "presumed_sent" \in SendStates
      BY DEF SendStates
    <2> QED
      BY <1>3, <2>1, StepSentTo
  <1>6. cmd' = [cmd EXCEPT ![c] = x] /\ step' = [step EXCEPT ![c][p] = y]
    BY <1>2, <1>f, <1>4, <1>5 DEF Presume, SentStep
  <1>7. Follows(c, p, x, y)
    BY <1>2, <1>f, <1>4, <1>5 DEF Follows, Unsent
  <1>8. claim' \in [Commands -> Claims]
    BY <1>1, <1>3, FreeClaim DEF Presume, QualTypeOK
  <1>9. UNCHANGED <<now, query, reauth, exposure, incident, recovery, net, order, position>>
    BY DEF safetyVars, venueVars
  <1> QED
    BY <1>6, <1>7, <1>8, <1>9, ActiveStep

\* record_transport_result.
LEMMA RecordKeeps ==
    ASSUME QualInv, NEW w \in Workers, NEW c \in Commands, Record(w, c)
    PROVE  QualInv'
  <1>1. proc' \in [Workers -> Process] /\ NoNewSender /\ \A v \in Workers : ProcessSound(v)'
    BY IdleProcess, ProcessMove DEF Record
  <1>2. CASE UNCHANGED <<cmd, step, claim>>
    BY <1>2, IdleProcess, ProcessStep DEF Record, storeVars
  <1>3. CASE cmd[c].state = "claimed" /\ Presume(c, proc[w].at)
    <2>1. PICK at \in Stamp : at = proc[w].at /\ at # Never
      BY DEF QualInv, QualTypeOK, Process, Stamp, Time, Never
    <2>2. UNCHANGED <<now, query, reauth, exposure, safetyVars, venueVars>>
      BY DEF Record
    <2> QED
      BY <1>1, <1>3, <2>1, <2>2, PresumeStep
  <1> QED
    BY <1>2, <1>3 DEF Record

(***************************************************************************)
(* Reservations that are given back.                                       *)
(***************************************************************************)

\* A reservation is given back when nothing of the canary is left.
LEMMA ReleaseStep ==
    ASSUME QualInv, QualTypeOK', RowsSound', \A w \in Workers : ProcessSound(w)',
           NEW f \in Canaries, ~cmd[f].released, cmd'[f].released,
           \A d \in Canaries \ {f} : cmd'[d].released = cmd[d].released,
           exposure' = exposure - 1,
           ~Away("place", f), order[f].status # "open", position = 0,
           \A c \in Commands : RowKept(c),
           \A c \in Canaries : ReauthActive(c)' => ReauthActive(c),
           NoNewSender, UNCHANGED <<recovery, net, order, position>>
    PROVE  QualInv'
  <1>1. Exclusive'
    <2>1. Exclusive
      BY DEF QualInv
    <2>2. \A c \in Commands : Active(c)' => Active(c)
      BY DEF RowKept
    <2> QED
      BY <2>1, <2>2 DEF Exclusive
  <1>2. OneReservation'
    <2>1. \A d \in Canaries \ {f} : cmd[d].released
      BY DEF QualInv, OneReservation
    <2>2. exposure = 1
      BY DEF QualInv, OneReservation
    <2>3. \A d \in Canaries : cmd'[d].released
      BY <2>1
    <2>4. exposure' = 0
      BY <2>2
    <2> QED
      BY <2>3, <2>4 DEF OneReservation
  <1>3. ASSUME NEW c \in Commands PROVE WireSound(c)'
    <2>1. WireSound(c) /\ RowKept(c)
      BY DEF QualInv
    <2>2. \A p \in Phases : Away(p, c)' => Away(p, c)
      BY NothingNewAway
    <2>3. \A w \in Workers : Sender(w, "place", c)' => Sender(w, "place", c)
      BY PhaseFacts DEF NoNewSender
    <2> QED
      BY <2>1, <2>2, <2>3, PhaseFacts DEF WireSound, RowKept
  <1>4. ASSUME NEW c \in Canaries PROVE Covered(c)'
    <2>1. Covered(c)
      BY DEF QualInv
    <2>2. Away("place", c)' => Away("place", c)
      BY NothingNewAway, PhaseFacts
    <2>3. CASE c = f
      BY <2>2, <2>3 DEF Covered
    <2>4. CASE c # f
      BY <2>1, <2>2, <2>4 DEF Covered
    <2> QED
      BY <2>3, <2>4
  <1>5. PositionCovered'
    BY DEF PositionCovered
  <1>6. ASSUME NEW c \in Commands PROVE CloseSound(c)'
    <2>1. CloseSound(c) /\ RowKept(c)
      BY DEF QualInv
    <2>2. \A d \in Canaries : ~cmd'[d].released => ~cmd[d].released
      OBVIOUS
    <2> QED
      BY <2>1, <2>2 DEF CloseSound, RowKept
  <1> QED
    BY <1>1, <1>2, <1>3, <1>4, <1>5, <1>6 DEF QualInv, RowsSound

\* The row of a command that was halted unsent.
HaltedRow(x, frees) ==
    [x EXCEPT !.state = "halted", !.phase = "halted", !.released = @ \/ frees]

\* HaltedRow is a command row.
LEMMA Halted ==
    ASSUME NEW x \in CommandRow, NEW frees \in BOOLEAN
    PROVE  /\ HaltedRow(x, frees) \in CommandRow /\ HaltedRow(x, frees).state = "halted"
           /\ HaltedRow(x, frees).released = (x.released \/ frees)
  BY DEF CommandRow, HaltedRow

\* The rows after ConsumeUnsent.
LEMMA ConsumeRows ==
    ASSUME QualInv, NEW c \in Commands, Active(c), Step(c).state \in Unsent,
           ConsumeUnsent(c), UNCHANGED <<query, reauth, order, position>>
    PROVE  /\ RowsSound' /\ \A d \in Commands : RowKept(d)
           /\ cmd' \in [Commands -> CommandRow] /\ step' \in [Commands -> [Phases -> StepRow]]
           /\ claim' \in [Commands -> Claims]
           /\ cmd'[c].released = (cmd[c].released \/ cmd[c].phase # "cancel")
           /\ \A d \in Commands \ {c} : cmd'[d] = cmd[d]
           /\ exposure' = IF cmd[c].phase # "cancel" THEN ExposureWithout(c) ELSE exposure
  <1>1. QualTypeOK /\ ReadSound(c)
    BY DEF QualInv
  <1>2. PICK p \in Phases : cmd[c].phase = p /\ Step(c) = step[c][p]
    BY ActiveRow
  <1>3. /\ cmd[c] \in CommandRow /\ step[c][p] \in StepRow /\ step[c][p].sent = Never
        /\ CommandSound(c) /\ StepSound(c)
    BY <1>2, ActiveRow
  <1>4. PICK y \in StepRow : /\ y = [step[c][p] EXCEPT !.state = "terminal_unsent"]
                             /\ y.state = "terminal_unsent" /\ y.sent = Never
    <2>1. "terminal_unsent" \in SendStates
      BY DEF SendStates
    <2> QED
      BY <1>3, <2>1, StepMovedTo
  <1>5. PICK x \in CommandRow : /\ x = HaltedRow(cmd[c], p # "cancel") /\ x.state = "halted"
                                /\ x.released = (cmd[c].released \/ p # "cancel")
    BY <1>3, Halted
  <1>6. cmd' = [cmd EXCEPT ![c] = x] /\ step' = [step EXCEPT ![c][p] = y]
    <2>1. cmd' = [cmd EXCEPT ![c] = HaltedRow(cmd[c], cmd[c].phase # "cancel")]
      BY Zenon DEF ConsumeUnsent, HaltedRow
    <2>2. cmd' = [cmd EXCEPT ![c] = x]
      BY <1>2, <1>5, <2>1, Zenon
    <2>3. step' = [step EXCEPT ![c][p] = y]
      BY <1>2, <1>4 DEF ConsumeUnsent, StepTo
    <2> QED
      BY <2>2, <2>3
  <1>7. /\ cmd' \in [Commands -> CommandRow] /\ cmd'[c] = x
        /\ \A d \in Commands \ {c} : cmd'[d] = cmd[d]
    BY <1>1, <1>6, CommandWritten
  <1>8. /\ step' \in [Commands -> [Phases -> StepRow]] /\ step'[c][p] = y
        /\ \A q \in Phases \ {p} : step'[c][q] = step[c][q]
        /\ \A d \in Commands \ {c} : step'[d] = step[d]
    BY <1>1, <1>6, StepWritten
  <1>9. claim' \in [Commands -> Claims]
    BY <1>1, FreeClaim DEF ConsumeUnsent, QualTypeOK
  <1>10. ~Active(c)'
    BY <1>5, <1>7 DEF Active
  <1>11. ASSUME NEW d \in Commands \ {c}
         PROVE  CommandSound(d)' /\ StepSound(d)' /\ ReadSound(d)' /\ RowKept(d)
    <2>1. CommandSound(d) /\ StepSound(d) /\ ReadSound(d)
      BY DEF QualInv
    <2>2. cmd'[d] = cmd[d] /\ step'[d] = step[d] /\ query' = query /\ order' = order
          /\ position' = position
      BY <1>7, <1>8
    <2> QED
      BY <2>1, <2>2 DEF CommandSound, StepSound, ReadSound, RowKept, Active, Step
  <1>12. CommandSound(c)' /\ ReadSound(c)'
    BY <1>3, <1>5, <1>7, <1>10 DEF CommandSound, ReadSound
  <1>13. StepSound(c)' /\ RowKept(c)
    <2>1. \A q \in Phases : step'[c][q].sent = step[c][q].sent
      BY <1>3, <1>4, <1>8
    <2>2. \A q \in Phases : step'[c][q].state \in Unsent => step[c][q].sent = Never
      BY <1>3, <1>8 DEF StepSound
    <2> QED
      BY <1>3, <1>5, <1>7, <1>10, <2>1, <2>2 DEF StepSound, RowKept
  <1>14. ASSUME NEW d \in Canaries PROVE SuccessorSound(d)'
    <2>1. SuccessorSound(d) /\ d \in Commands
      BY PhaseFacts DEF QualInv
    <2>2. CASE d # c
      BY <1>7, <1>8, <2>1, <2>2 DEF SuccessorSound
    <2>3. CASE d = c
      BY <2>1, <2>3 DEF SuccessorSound, Active
    <2> QED
      BY <2>2, <2>3
  <1>15. exposure' = IF cmd[c].phase # "cancel" THEN ExposureWithout(c) ELSE exposure
    BY DEF ConsumeUnsent
  <1> QED
    BY <1>2, <1>5, <1>7, <1>8, <1>9, <1>11, <1>12, <1>13, <1>14, <1>15 DEF RowsSound

\* A command that is halted unsent keeps the invariant: of a place that was
\* never authorized there is no request, no order and no position.
LEMMA ConsumeStep ==
    ASSUME QualInv, NEW c \in Commands, Active(c), Step(c).state \in Unsent,
           ConsumeUnsent(c), proc' \in [Workers -> Process], NoNewSender,
           \A w \in Workers : ProcessSound(w)',
           UNCHANGED <<now, query, reauth, safetyVars, venueVars>>
    PROVE  QualInv'
  <1>1. UNCHANGED <<now, query, reauth, incident, recovery, net, order, position>>
    BY DEF safetyVars, venueVars
  <1>2. /\ RowsSound' /\ \A d \in Commands : RowKept(d)
        /\ cmd' \in [Commands -> CommandRow] /\ step' \in [Commands -> [Phases -> StepRow]]
        /\ claim' \in [Commands -> Claims]
        /\ cmd'[c].released = (cmd[c].released \/ cmd[c].phase # "cancel")
        /\ \A d \in Commands \ {c} : cmd'[d] = cmd[d]
        /\ exposure' = IF cmd[c].phase # "cancel" THEN ExposureWithout(c) ELSE exposure
    BY <1>1, ConsumeRows
  <1>3. /\ QualTypeOK /\ CommandSound(c) /\ cmd[c].phase \in PhasesOf(c)
        /\ cmd[c].released \in BOOLEAN
        /\ step[c][cmd[c].phase].sent = Never
    BY ActiveRow DEF QualInv, CommandRow
  <1>4. \A d \in Canaries : ReauthActive(d)' => ReauthActive(d)
    BY <1>1 DEF ReauthActive
  <1>5. CASE c \in Canaries /\ cmd[c].phase = "place"
    <2>1. ~cmd[c].released /\ cmd'[c].released /\ exposure' = exposure - 1
      BY <1>2, <1>3, <1>5 DEF CommandSound, ExposureWithout
    <2>2. WireSound(c) /\ step[c]["place"].sent = Never
      BY <1>3, <1>5 DEF QualInv
    <2>3. ~Away("place", c) /\ order[c].status = "none"
      BY <1>5, <2>2, PhaseFacts DEF WireSound
    <2>4. position = 0
      <3>1. position > 0 => order[c].status # "none"
        BY <1>5, <2>1 DEF QualInv, PositionCovered, OneReservation
      <3> QED
        BY <1>3, <2>3, <3>1 DEF QualTypeOK
    <2>5. exposure' \in 0 .. MaxReserved
      <3>1. exposure = 1
        BY <1>5, <2>1 DEF QualInv, OneReservation
      <3> QED
        BY <2>1, <3>1, QualificationAssumption
    <2>6. QualTypeOK'
      BY <1>1, <1>2, <1>3, <2>5 DEF QualTypeOK
    <2>7. \A d \in Canaries \ {c} : cmd'[d].released = cmd[d].released
      BY <1>2, PhaseFacts
    <2> QED
      BY <1>1, <1>2, <1>4, <1>5, <2>1, <2>3, <2>4, <2>6, <2>7, ReleaseStep
  <1>6. CASE ~(c \in Canaries /\ cmd[c].phase = "place")
    <2>1. cmd[c].phase = "cancel" \/ c \in Closes
      BY <1>3, <1>6, PhaseFacts DEF PhasesOf
    <2>2. cmd'[c].released = cmd[c].released /\ exposure' = exposure
      <3>1. CASE cmd[c].phase = "cancel"
        BY <1>2, <1>3, <3>1
      <3>2. CASE c \in Closes
        BY <1>2, <1>3, <3>2 DEF CommandSound, ExposureWithout
      <3> QED
        BY <2>1, <3>1, <3>2
    <2>3. \A d \in Commands : RowQuiet(d)
      BY <1>2, <2>2 DEF RowQuiet
    <2>4. QualTypeOK'
      BY <1>1, <1>2, <1>3, <2>2 DEF QualTypeOK
    <2>5. \A d \in Commands : OrderQuiet(d)
      BY <1>1 DEF OrderQuiet
    <2>6. position' <= position /\ net' \subseteq net /\ (recovery' => recovery)
      BY <1>1, <1>3 DEF QualTypeOK
    <2> QED
      BY <1>1, <1>2, <1>4, <2>2, <2>3, <2>4, <2>5, <2>6, QuietStep
  <1> QED
    BY <1>5, <1>6

\* halt_unused_signing_authority, halt_prepared_attempt_for_missing_envelope
\* and halt_for_reconciliation_deadline.
LEMMA HaltKeeps ==
    ASSUME QualInv, NEW c \in Commands,
           HaltQueued(c) \/ \E w \in Workers : HaltUnsent(w, c)
    PROVE  QualInv'
  <1>1. CASE HaltQueued(c)
    <2>1. Active(c) /\ cmd[c].state = "queued"
      BY <1>1 DEF HaltQueued, Active
    <2>2. Step(c).state \in Unsent
      BY <2>1, ActiveRow DEF StepSound, Unsent
    <2>3. proc' \in [Workers -> Process] /\ NoNewSender /\ \A w \in Workers : ProcessSound(w)'
      BY <1>1, ProcessesAlone DEF HaltQueued
    <2> QED
      BY <1>1, <2>1, <2>2, <2>3, ConsumeStep DEF HaltQueued
  <1>2. ASSUME NEW w \in Workers, HaltUnsent(w, c) PROVE QualInv'
    <2>1. Active(c) /\ Step(c).state \in Unsent
      BY <1>2 DEF HaltUnsent, HoldsClaim, Active, Unsent
    <2>2. proc' \in [Workers -> Process] /\ NoNewSender /\ \A v \in Workers : ProcessSound(v)'
      BY <1>2, IdleProcess, ProcessMove DEF HaltUnsent
    <2> QED
      BY <1>2, <2>1, <2>2, ConsumeStep DEF HaltUnsent
  <1> QED
    BY <1>1, <1>2

\* normalize_expired_claims: requeue, presume, or consume.
LEMMA NormalizeKeeps ==
    ASSUME QualInv, NEW c \in Commands, Normalize(c)
    PROVE  QualInv'
  <1>1. /\ UNCHANGED <<now, query, reauth, safetyVars, venueVars, proc>>
        /\ cmd[c].state \in {"queued", "claimed"} /\ Active(c) /\ QualTypeOK
    BY DEF Normalize, Active, QualInv
  <1>2. proc' \in [Workers -> Process] /\ NoNewSender /\ \A w \in Workers : ProcessSound(w)'
    BY <1>1, ProcessesAlone
  <1>3. StepSound(c)
    BY DEF QualInv
  <1>4. CASE Step(c).state \in Unsent /\ ConsumeUnsent(c)
    BY <1>1, <1>2, <1>4, ConsumeStep
  <1>5. CASE cmd[c].state = "claimed" /\ Step(c).state = "sending" /\ Presume(c, Step(c).sent)
             /\ UNCHANGED exposure
    <2>1. Step(c).sent \in Stamp
      BY <1>1, ActiveRow DEF StepRow
    <2> QED
      BY <1>1, <1>2, <1>5, <2>1, PresumeStep
  <1>6. CASE /\ cmd[c].state = "claimed" /\ Step(c).state = "claimed"
             /\ step' = StepTo(c, "ready") /\ cmd' = [cmd EXCEPT ![c].state = "queued"]
             /\ claim' = [claim EXCEPT ![c] = [NoClaim EXCEPT !.token = claim[c].token]]
             /\ UNCHANGED exposure
    <2>1. PICK p \in Phases : cmd[c].phase = p /\ Step(c) = step[c][p]
      BY <1>1, ActiveRow
    <2>2. /\ cmd[c] \in CommandRow /\ step[c][p] \in StepRow /\ claim[c].token \in Nat
          /\ step[c][p].sent = Never
      BY <1>1, <1>6, <2>1, ActiveRow DEF Unsent, QualTypeOK, Claims
    <2>3. PICK x \in CommandRow : /\ x = [cmd[c] EXCEPT !.state = "queued"] /\ x.state = "queued"
                                  /\ x.phase = p /\ x.released = cmd[c].released
      BY <2>1, <2>2, CommandTo
    <2>4. PICK y \in StepRow : /\ y = [step[c][p] EXCEPT !.state = "ready"]
                               /\ y.state = "ready" /\ y.sent = Never
      <3>1. "ready" \in SendStates
        BY DEF SendStates
      <3> QED
        BY <2>2, <3>1, StepMovedTo
    <2>5. cmd' = [cmd EXCEPT ![c] = x] /\ step' = [step EXCEPT ![c][p] = y]
      BY <1>6, <2>1, <2>3, <2>4 DEF StepTo
    <2>6. Follows(c, p, x, y)
      BY <1>6, <2>1, <2>2, <2>3, <2>4 DEF Follows
    <2>7. claim' \in [Commands -> Claims]
      BY <1>1, <1>6, <2>2, FreeClaim DEF QualTypeOK
    <2>8. UNCHANGED <<now, query, reauth, exposure, incident, recovery, net, order, position>>
      BY <1>1, <1>6 DEF safetyVars, venueVars
    <2> QED
      BY <1>2, <2>5, <2>6, <2>7, <2>8, ActiveStep
  <1>7. "ready" \in Unsent /\ "claimed" \in Unsent /\ "prepared" \in Unsent
    BY DEF Unsent
  <1> QED
    BY <1>3, <1>4, <1>5, <1>6, <1>7 DEF Normalize, StepSound

(***************************************************************************)
(* The point of no return.                                                 *)
(***************************************************************************)

\* A process that holds a submission authority, and one that has posted.
SendingProcess(x, t, u) == [x EXCEPT !.pc = "sending", !.at = t, !.until = u]

\* SendingProcess is a process row.
LEMMA SendingRow ==
    ASSUME NEW x \in Process, NEW t \in Time, NEW u \in Deadline
    PROVE  /\ SendingProcess(x, t, u) \in Process /\ SendingProcess(x, t, u).pc = "sending"
           /\ SendingProcess(x, t, u).cmd = x.cmd /\ SendingProcess(x, t, u).kind = x.kind
  BY DEF Process, SendingProcess

\* require_submission_authority: the step was never authorized before, so its
\* request is nowhere and, of a place, there is no order.
LEMMA AuthorizeKeeps ==
    ASSUME QualInv, NEW w \in Workers, NEW c \in Commands, Authorize(w, c)
    PROVE  QualInv'
  <1>1. /\ QualTypeOK /\ cmd[c].state = "claimed" /\ Step(c).state = "prepared" /\ Active(c)
        /\ proc[w].pc = "working" /\ proc[w].cmd = c /\ proc[w].kind = cmd[c].phase
    BY DEF QualInv, Authorize, HoldsClaim, Active, Works
  <1>2. PICK p \in Phases : cmd[c].phase = p /\ Step(c) = step[c][p] /\ p \in PhasesOf(c)
    BY <1>1, ActiveRow
  <1>3. /\ cmd[c] \in CommandRow /\ step[c][p] \in StepRow /\ step[c][p].sent = Never
        /\ claim[c].lease \in Deadline /\ step[c][p].expiry \in Deadline /\ CommandSound(c)
        /\ now \in Time /\ now \in Stamp /\ now # Never /\ proc[w] \in Process
    BY <1>1, <1>2, ActiveRow DEF Unsent, QualTypeOK, Claims, StepRow, Stamp, Time, Never
  <1>4. PICK y \in StepRow : /\ y = SentStep(step[c][p], "sending", now)
                             /\ y.state = "sending" /\ y.sent = now
    <2>1. "sending" \in SendStates
      BY DEF SendStates
    <2> QED
      BY <1>3, <2>1, StepSentTo
  <1>5. cmd' = [cmd EXCEPT ![c] = cmd[c]] /\ step' = [step EXCEPT ![c][p] = y]
    BY <1>1, <1>2, <1>4 DEF Authorize, SentStep, QualTypeOK
  <1>6. Follows(c, p, cmd[c], y)
    BY <1>1, <1>2, <1>3, <1>4 DEF Follows, Unsent
  <1>7. UNCHANGED <<now, cmd, claim, query, reauth, exposure, incident, recovery, net, order, position>>
    BY DEF Authorize, safetyVars, venueVars
  <1>8. /\ RowsSound' /\ \A d \in Commands : RowQuiet(d)
        /\ cmd' \in [Commands -> CommandRow] /\ step' \in [Commands -> [Phases -> StepRow]]
        /\ step'[c][p] = y /\ \A q \in Phases \ {p} : step'[c][q] = step[c][q]
        /\ \A d \in Commands \ {c} : step'[d] = step[d]
    BY <1>5, <1>6, <1>7, ActiveMove
  <1>9. PICK z \in Process : /\ z = SendingProcess(proc[w], now, SmallerOf(Step(c).expiry, claim[c].lease))
                             /\ z.pc = "sending" /\ z.cmd = c /\ z.kind = p
    <2>1. SmallerOf(Step(c).expiry, claim[c].lease) \in Deadline
      BY <1>2, <1>3 DEF SmallerOf
    <2> QED
      BY <1>1, <1>2, <1>3, <2>1, SendingRow
  <1>10. proc' = [proc EXCEPT ![w] = z]
    BY <1>9 DEF Authorize, SendingProcess
  <1>11. /\ proc' \in [Workers -> Process] /\ proc'[w] = z
         /\ \A v \in Workers \ {w} : proc'[v] = proc[v]
    BY <1>1, <1>10 DEF QualTypeOK
  <1>12. QualTypeOK'
    BY <1>1, <1>7, <1>8, <1>11 DEF QualTypeOK
  <1>13. \A v \in Workers : ProcessSound(v)'
    BY <1>2, <1>9, <1>11, PhaseFacts DEF QualInv, ProcessSound
  <1>14. \A q \in Phases, d \in Commands : Away(q, d)' => Away(q, d) \/ (q = p /\ d = c)
    BY <1>7, <1>9, <1>11 DEF Away, Sender
  <1>15. ~Away(p, c)
    BY <1>3 DEF QualInv, WireSound
  <1>16. Exclusive' /\ OneReservation' /\ PositionCovered'
    BY <1>7 DEF QualInv, Exclusive, OneReservation, PositionCovered, Active, ReauthActive
  <1>17. ASSUME NEW d \in Commands PROVE WireSound(d)' /\ CloseSound(d)'
    <2>1. WireSound(d) /\ CloseSound(d) /\ RowQuiet(d)
      BY <1>8 DEF QualInv
    <2>2. CloseSound(d)'
      BY <1>7, <2>1 DEF CloseSound, Active
    <2>3. \A q \in Phases : Away(q, d)' => step'[d][q].sent # Never
      <3>1. \A q \in Phases : step[d][q].sent # Never => step'[d][q].sent # Never
        BY <2>1 DEF RowQuiet, RowKept
      <3>2. step'[c][p].sent # Never
        BY <1>3, <1>4, <1>8
      <3> QED
        BY <1>14, <2>1, <3>1, <3>2 DEF WireSound
    <2>4. \A v \in Workers : Sender(v, "place", d)' =>
              Sender(v, "place", d) \/ (v = w /\ d = c /\ p = "place")
      BY <1>9, <1>11 DEF Sender
    <2>5. CASE d = c /\ p = "place"
      <3>1. \A v \in Workers : ~Sender(v, "place", d)
        BY <1>15, <2>5 DEF Away
      <3>2. <<"place", d>> \notin net
        BY <1>15, <2>5 DEF Away
      <3>3. d \in Canaries
        BY <1>2, <2>5 DEF PhasesOf
      <3>4. order[d].status = "none"
        BY <1>3, <2>1, <2>5, <3>3 DEF WireSound
      <3>5. \A v, u \in Workers : Sender(v, "place", d)' /\ Sender(u, "place", d)' => v = u
        BY <2>4, <3>1
      <3> QED
        BY <1>7, <2>1, <2>2, <2>3, <3>2, <3>4, <3>5 DEF WireSound
    <2>6. CASE ~(d = c /\ p = "place")
      <3>1. \A v \in Workers : Sender(v, "place", d)' => Sender(v, "place", d)
        BY <2>4, <2>6
      <3>2. Away("place", d)' => Away("place", d)
        BY <1>14, <2>6, PhaseFacts
      <3> QED
        BY <1>7, <2>1, <2>2, <2>3, <3>1, <3>2, PhaseFacts DEF WireSound, RowQuiet, RowKept
    <2> QED
      BY <2>5, <2>6
  <1>18. ASSUME NEW d \in Canaries PROVE Covered(d)'
    <2>1. Covered(d) /\ d \in Commands
      BY PhaseFacts DEF QualInv
    <2>2. CASE d = c
      BY <1>1, <1>3, <1>7, <2>2 DEF Covered, CommandSound
    <2>3. CASE d # c
      BY <1>7, <1>14, <2>1, <2>3, PhaseFacts DEF Covered
    <2> QED
      BY <2>2, <2>3
  <1> QED
    BY <1>8, <1>12, <1>13, <1>16, <1>17, <1>18 DEF QualInv, RowsSound

\* The process that posts is the one holder of the authority, and holds it no
\* longer.
LEMMA PostKeeps ==
    ASSUME QualInv, NEW w \in Workers, Post(w)
    PROVE  QualInv'
  <1>1. UNCHANGED <<now, cmd, step, claim, query, reauth, exposure, incident, recovery, order,
                    position>>
    BY DEF Post, storeVars, safetyVars
  <1>2. QualTypeOK /\ proc[w] \in Process /\ ProcessSound(w) /\ proc[w].pc = "sending"
    BY DEF QualInv, QualTypeOK, Post
  <1>3. /\ proc[w].kind \in Kinds /\ proc[w].cmd \in Commands
        /\ net' = net \cup {<<proc[w].kind, proc[w].cmd>>}
    BY <1>2 DEF ProcessSound, Post
  <1>4. PICK x \in Process : /\ x = [proc[w] EXCEPT !.pc = "posted", !.at = now, !.until = 0]
                             /\ x.pc = "posted" /\ x.cmd = proc[w].cmd /\ x.kind = proc[w].kind
    <2>1. 0 \in Deadline /\ now \in Time
      BY <1>2, QualificationAssumption DEF Deadline, QualTypeOK
    <2> DEFINE y == [proc[w] EXCEPT !.pc = "posted", !.at = now, !.until = 0]
    <2>2. y \in Process /\ y.pc = "posted" /\ y.cmd = proc[w].cmd /\ y.kind = proc[w].kind
      BY <1>2, <2>1 DEF Process
    <2> QED
      BY <2>2
  <1>5. proc' = [proc EXCEPT ![w] = x]
    BY <1>4 DEF Post
  <1>6. proc' \in [Workers -> Process] /\ NoNewSender /\ \A v \in Workers : ProcessSound(v)'
    BY <1>3, <1>4, <1>5, ProcessMove
  <1>7. QualTypeOK'
    BY <1>1, <1>2, <1>3, <1>6 DEF QualTypeOK
  <1>8. \A c \in Commands : OrderQuiet(c)
    BY <1>1 DEF OrderQuiet
  <1>9. RowsSound'
    BY <1>1, <1>8, RowsAlone
  <1>10. Exclusive' /\ OneReservation' /\ PositionCovered' /\ \A c \in Commands : CloseSound(c)'
    BY <1>1 DEF QualInv, Exclusive, OneReservation, PositionCovered, CloseSound, Active,
                ReauthActive
  <1>11. proc'[w].pc = "posted"
    BY <1>2, <1>4, <1>5 DEF QualTypeOK
  <1>12. \A p \in Phases, c \in Commands : Away(p, c)' => Away(p, c)
    BY <1>2, <1>3, <1>6 DEF Away, NoNewSender, Sender
  <1>13. ASSUME NEW c \in Commands PROVE WireSound(c)'
    <2>1. WireSound(c)
      BY DEF QualInv
    <2>2. \A v \in Workers : Sender(v, "place", c)' => Sender(v, "place", c) /\ v # w
      BY <1>6, <1>11, PhaseFacts DEF NoNewSender, Sender
    <2>3. \A v \in Workers : Sender(v, "place", c)' => <<"place", c>> \notin net'
      <3> SUFFICES ASSUME NEW v \in Workers, Sender(v, "place", c)' PROVE <<"place", c>> \notin net'
        OBVIOUS
      <3>1. <<"place", c>> \notin net /\ ~Sender(w, "place", c)
        BY <2>1, <2>2 DEF WireSound
      <3>2. <<"place", c>> # <<proc[w].kind, proc[w].cmd>>
        BY <1>2, <3>1 DEF Sender
      <3> QED
        BY <1>3, <3>1, <3>2
    <2> QED
      BY <1>1, <1>12, <2>1, <2>2, <2>3, PhaseFacts DEF WireSound
  <1>14. ASSUME NEW c \in Canaries PROVE Covered(c)'
    BY <1>1, <1>12, PhaseFacts DEF QualInv, Covered
  <1> QED
    BY <1>6, <1>7, <1>9, <1>10, <1>13, <1>14 DEF QualInv, RowsSound

(***************************************************************************)
(* The venue.                                                              *)
(***************************************************************************)

\* A request is lost, or finds nothing to do.
LEMMA NetStep ==
    ASSUME QualInv, net' \subseteq net, UNCHANGED <<now, storeVars, safetyVars, proc, order, position>>
    PROVE  QualInv'
  <1>1. UNCHANGED <<now, cmd, step, claim, query, reauth, exposure, incident, recovery, proc,
                    order, position>>
    BY DEF storeVars, safetyVars
  <1>2. QualTypeOK /\ position \in Nat
    BY DEF QualInv, QualTypeOK
  <1>3. QualTypeOK'
    BY <1>1, <1>2 DEF QualTypeOK
  <1>4. \A c \in Commands : OrderQuiet(c)
    BY <1>1 DEF OrderQuiet
  <1>5. RowsSound' /\ \A c \in Commands : RowQuiet(c)
    BY <1>1, <1>4, RowsAlone
  <1>6. (\A w \in Workers : ProcessSound(w)') /\ NoNewSender
    BY <1>1, ProcessesAlone
  <1>7. \A c \in Canaries : ReauthActive(c)' => ReauthActive(c)
    BY <1>1 DEF ReauthActive
  <1> QED
    BY <1>1, <1>2, <1>3, <1>4, <1>5, <1>6, <1>7, QuietStep

\* The order of c moves: only from an order that rests, or from none when it was
\* covered, does one that rests come; only an order that rests adds to the
\* position.
LEMMA OrderStep ==
    ASSUME QualInv, NEW c \in Commands, NEW x \in OrderRow, order' = [order EXCEPT ![c] = x],
           x.status # "none", net' \subseteq net, ~Away("place", c)',
           c \in Canaries => step[c]["place"].sent # Never,
           x.status = "open" => /\ c \in Canaries /\ ~cmd[c].released
                                /\ order[c].status \in {"none", "open"},
           position' \in Nat,
           position' <= position \/ (c \in Canaries /\ order[c].status = "open"),
           UNCHANGED <<now, storeVars, safetyVars, proc>>
    PROVE  QualInv'
  <1>1. UNCHANGED <<now, cmd, step, claim, query, reauth, exposure, incident, recovery, proc>>
    BY DEF storeVars, safetyVars
  <1>2. QualTypeOK /\ position \in Nat
    BY DEF QualInv, QualTypeOK
  <1>3. /\ order' \in [Commands -> OrderRow] /\ order'[c] = x
        /\ \A d \in Commands \ {c} : order'[d] = order[d]
    BY <1>2 DEF QualTypeOK
  <1>4. QualTypeOK'
    BY <1>1, <1>2, <1>3 DEF QualTypeOK
  <1>5. (\A w \in Workers : ProcessSound(w)') /\ NoNewSender
    BY <1>1, ProcessesAlone
  <1>6. \A p \in Phases, d \in Commands : Away(p, d)' => Away(p, d)
    BY <1>5, NothingNewAway
  <1>7. \A d \in Commands : CommandSound(d)' /\ StepSound(d)'
    BY <1>1 DEF QualInv, CommandSound, StepSound, Active, Step
  <1>8. \A d \in Canaries : SuccessorSound(d)'
    BY <1>1 DEF QualInv, SuccessorSound
  <1>9. Exclusive' /\ OneReservation'
    BY <1>1 DEF QualInv, Exclusive, OneReservation, Active, ReauthActive
  <1>10. ASSUME NEW d \in Commands PROVE WireSound(d)'
    <2>1. WireSound(d) /\ \A w \in Workers : Sender(w, "place", d)' => Sender(w, "place", d)
      BY <1>5, PhaseFacts DEF QualInv, NoNewSender
    <2>2. CASE d = c
      BY <1>1, <1>3, <1>6, <2>1, <2>2, PhaseFacts DEF WireSound
    <2>3. CASE d # c
      BY <1>1, <1>3, <1>6, <2>1, <2>3, PhaseFacts DEF WireSound
    <2> QED
      BY <2>2, <2>3
  <1>11. ASSUME NEW d \in Canaries PROVE Covered(d)'
    <2>1. Covered(d) /\ (Away("place", d)' => Away("place", d)) /\ d \in Commands
      BY <1>6, PhaseFacts DEF QualInv
    <2>2. CASE d = c
      BY <1>1, <1>3, <2>2 DEF Covered
    <2>3. CASE d # c
      BY <1>1, <1>3, <2>1, <2>3 DEF Covered
    <2> QED
      BY <2>2, <2>3
  <1>12. PositionCovered'
    <2> SUFFICES ASSUME position' > 0
                 PROVE  \E d \in Canaries : ~cmd[d].released /\ order'[d].status # "none"
      BY <1>1 DEF PositionCovered
    <2>1. CASE position' <= position
      <3>1. position > 0
        BY <1>2, <2>1
      <3>2. PICK d \in Canaries : ~cmd[d].released /\ order[d].status # "none"
        BY <3>1 DEF QualInv, PositionCovered
      <3>3. order'[d].status # "none"
        BY <1>3, <3>2, PhaseFacts
      <3> QED
        BY <3>2, <3>3
    <2>2. CASE c \in Canaries /\ order[c].status = "open"
      <3>1. ~cmd[c].released
        BY <2>2 DEF QualInv, Covered
      <3> QED
        BY <1>3, <2>2, <3>1
    <2> QED
      BY <2>1, <2>2
  <1>13. ASSUME NEW d \in Commands PROVE CloseSound(d)'
    <2>1. CloseSound(d)
      BY DEF QualInv
    <2> SUFFICES ASSUME d \in Closes, Active(d), NEW e \in Canaries, ~cmd[e].released
                 PROVE  order'[e].status \notin {"none", "open"}
      BY <1>1 DEF CloseSound, Active
    <2>2. order[e].status \notin {"none", "open"}
      BY <2>1 DEF CloseSound
    <2> QED
      BY <1>3, <2>2, PhaseFacts
  <1>14. ASSUME NEW d \in Commands PROVE ReadSound(d)'
    <2>1. ReadSound(d) /\ CloseSound(d) /\ CommandSound(d)
      BY DEF QualInv
    <2> SUFFICES ASSUME query[d]["terminal"].status # "none", cmd[d].state = "reconciling"
                 PROVE  /\ order'[d].status \notin {"none", "open"}
                        /\ query[d]["terminal"].position = 0 => position' = 0
      BY <1>1, <2>1 DEF ReadSound
    <2>2. order[d].status \notin {"none", "open"}
      BY <2>1 DEF ReadSound
    <2>3. order'[d].status \notin {"none", "open"}
      BY <1>3, <2>2
    <2>4. query[d]["terminal"].position = 0 => position = 0
      BY <2>1 DEF ReadSound
    <2>5. ~(c \in Canaries /\ order[c].status = "open")
      <3> SUFFICES ASSUME c \in Canaries, order[c].status = "open" PROVE FALSE
        OBVIOUS
      <3>1. ~cmd[c].released /\ Active(d)
        BY DEF QualInv, Covered, Active
      <3>2. CASE d \in Canaries
        BY <2>1, <2>2, <3>1, <3>2 DEF QualInv, OneReservation, CommandSound
      <3>3. CASE d \notin Canaries
        BY <2>1, <3>1, <3>3, PhaseFacts DEF CloseSound
      <3> QED
        BY <3>2, <3>3
    <2> QED
      BY <1>2, <2>3, <2>4, <2>5
  <1> QED
    BY <1>4, <1>5, <1>7, <1>8, <1>9, <1>10, <1>11, <1>12, <1>13, <1>14 DEF QualInv

\* What is on its way belongs to the command's kind; of a place there is no order yet.
LEMMA Arriving ==
    ASSUME QualInv, NEW c \in Commands, NEW p \in Phases, <<p, c>> \in net
    PROVE  /\ p \in PhasesOf(c) /\ step[c][p].sent # Never
           /\ p = "place" => order[c].status = "none" /\ \A w \in Workers : ~Sender(w, "place", c)
  <1>1. WireSound(c) /\ StepSound(c) /\ Away(p, c)
    BY DEF QualInv, Away
  <1> QED
    BY <1>1 DEF WireSound, StepSound

\* The order after it was canceled, and after it traded one unit and rests on.
CanceledOrder(x) == [x EXCEPT !.status = "canceled", !.at = now]

TradedOrder(x) == [x EXCEPT !.fill = @ + 1]

\* They are orders.
LEMMA OrderRows ==
    ASSUME QualTypeOK, NEW x \in OrderRow
    PROVE  /\ CanceledOrder(x) \in OrderRow /\ CanceledOrder(x).status = "canceled"
           /\ TradedOrder(x) \in OrderRow /\ TradedOrder(x).status = x.status
  <1>1. now \in Time /\ "canceled" \in Statuses /\ x.fill \in Nat /\ x.fill + 1 \in Nat
    BY DEF QualTypeOK, Statuses, OrderRow
  <1>2. CanceledOrder(x) \in OrderRow /\ CanceledOrder(x).status = "canceled"
    BY <1>1 DEF OrderRow, CanceledOrder
  <1>3. TradedOrder(x) = [x EXCEPT !.fill = x.fill + 1]
    BY DEF TradedOrder, OrderRow
  <1>4. TradedOrder(x) \in OrderRow /\ TradedOrder(x).status = x.status
    BY <1>1, <1>3 DEF OrderRow
  <1> QED
    BY <1>2, <1>4

\* The order of a venue's answer.
LEMMA AnsweredOrder ==
    ASSUME QualTypeOK, NEW s \in Statuses, NEW f \in Nat
    PROVE  [status |-> s, fill |-> f, at |-> now] \in OrderRow
  BY DEF OrderRow, QualTypeOK

\* A resting order is canceled, by its own request, by the venue or by a person.
LEMMA CancelOrder ==
    ASSUME QualInv, NEW c \in Commands, order[c].status = "open", net' \subseteq net,
           order' = [order EXCEPT ![c] = CanceledOrder(order[c])],
           UNCHANGED <<now, storeVars, safetyVars, proc, position>>
    PROVE  QualInv'
  <1>1. QualTypeOK /\ WireSound(c) /\ order[c] \in OrderRow /\ position \in Nat
    BY DEF QualInv, QualTypeOK
  <1>2. PICK x \in OrderRow : x = CanceledOrder(order[c]) /\ x.status = "canceled"
    BY <1>1, OrderRows
  <1>3. order' = [order EXCEPT ![c] = x]
    BY <1>2
  <1>4. ~Away("place", c)'
    <2>1. Away("place", c)' => Away("place", c)
      BY ProcessesAlone, NothingNewAway, PhaseFacts
    <2> QED
      BY <1>1, <2>1 DEF WireSound
  <1>5. c \in Canaries => step[c]["place"].sent # Never
    BY <1>1 DEF WireSound
  <1>6. position' \in Nat /\ position' <= position
    BY <1>1
  <1> QED
    BY <1>2, <1>3, <1>4, <1>5, <1>6, OrderStep

\* VenueCancel.
LEMMA VenueCancelKeeps ==
    ASSUME QualInv, NEW c \in Commands, VenueCancel(c)
    PROVE  QualInv'
  <1>1. order' = [order EXCEPT ![c] = CanceledOrder(order[c])]
    BY DEF VenueCancel, CanceledOrder
  <1> QED
    BY <1>1, CancelOrder DEF VenueCancel

\* A resting canary trades; it is covered, and no read or close relies on its end.
LEMMA FillKeeps ==
    ASSUME QualInv, NEW c \in Commands, Fill(c)
    PROVE  QualInv'
  <1>1. /\ QualTypeOK /\ WireSound(c) /\ Covered(c) /\ order[c] \in OrderRow /\ position \in Nat
        /\ c \in Canaries /\ order[c].status = "open"
    BY DEF QualInv, QualTypeOK, Fill
  <1>2. PICK x \in OrderRow : order' = [order EXCEPT ![c] = x] /\ x.status \in {"open", "filled"}
    <2>1. CASE order[c].fill + 1 = Size
      <3>1. [status |-> "filled", fill |-> Size, at |-> now] \in OrderRow
        <4>1. "filled" \in Statuses /\ Size \in Nat
          BY QualificationAssumption DEF Statuses
        <4> QED
          BY <1>1, <4>1, AnsweredOrder
      <3>2. order' = [order EXCEPT ![c] = [status |-> "filled", fill |-> Size, at |-> now]]
        BY <2>1 DEF Fill
      <3> QED
        BY <3>1, <3>2
    <2>2. CASE order[c].fill + 1 # Size
      <3>1. TradedOrder(order[c]) \in OrderRow /\ TradedOrder(order[c]).status = "open"
        BY <1>1, OrderRows
      <3>2. order' = [order EXCEPT ![c] = TradedOrder(order[c])]
        BY <2>2 DEF Fill, TradedOrder
      <3> QED
        BY <3>1, <3>2
    <2> QED
      BY <2>1, <2>2
  <1>3. UNCHANGED <<now, storeVars, safetyVars, proc>> /\ net' \subseteq net
    BY DEF Fill
  <1>4. ~Away("place", c)'
    <2>1. Away("place", c)' => Away("place", c)
      BY <1>3, ProcessesAlone, NothingNewAway, PhaseFacts
    <2> QED
      BY <1>1, <2>1 DEF WireSound
  <1>5. step[c]["place"].sent # Never /\ ~cmd[c].released
    BY <1>1 DEF WireSound, Covered
  <1>6. position' \in Nat
    BY <1>1 DEF Fill
  <1> QED
    BY <1>1, <1>2, <1>3, <1>4, <1>5, <1>6, OrderStep

\* A request arrives at the venue.
LEMMA DeliverKeeps ==
    ASSUME QualInv, NEW c \in Commands, NEW k \in Kinds, Deliver(k, c)
    PROVE  QualInv'
  <1>1. /\ <<k, c>> \in net /\ net' = net \ {<<k, c>>} /\ net' \subseteq net
        /\ UNCHANGED <<now, storeVars, safetyVars, proc>>
    BY DEF Deliver
  <1>2. QualTypeOK /\ WireSound(c) /\ order[c] \in OrderRow /\ position \in Nat
        /\ cmd[c].quantity \in Nat
    BY DEF QualInv, QualTypeOK, CommandRow
  <1>3. NoNewSender /\ \A p \in Phases : Away(p, c)' => Away(p, c)
    BY <1>1, ProcessesAlone, NothingNewAway
  <1>4. CASE k = "place"
    <2>1. /\ c \in Canaries /\ step[c]["place"].sent # Never /\ order[c].status = "none"
          /\ \A w \in Workers : ~Sender(w, "place", c)
      BY <1>1, <1>4, Arriving, PhaseFacts DEF PhasesOf
    <2>2. ~cmd[c].released
      BY <1>1, <1>4, <2>1 DEF QualInv, Covered, Away
    <2>3. PICK s \in {"open", "rejected"} :
             order' = [order EXCEPT ![c] = [status |-> s, fill |-> 0, at |-> now]]
      BY <1>4 DEF Deliver
    <2>4. PICK x \in OrderRow : x = [status |-> s, fill |-> 0, at |-> now] /\ x.status = s
      <3>1. s \in Statuses /\ 0 \in Nat
        BY DEF Statuses
      <3>2. [status |-> s, fill |-> 0, at |-> now] \in OrderRow
        BY <1>2, <3>1, AnsweredOrder
      <3> QED
        BY <3>2
    <2>5. ~Away("place", c)'
      BY <1>1, <1>3, <1>4, <2>1, PhaseFacts DEF Away, NoNewSender
    <2>6. position' \in Nat /\ position' <= position
      BY <1>2, <1>4 DEF Deliver
    <2>7. order' = [order EXCEPT ![c] = x] /\ x.status # "none"
      BY <2>3, <2>4
    <2> QED
      BY <1>1, <2>1, <2>2, <2>5, <2>6, <2>7, OrderStep
  <1>5. CASE k \in {"cancel", "reauth"}
    <2>1. position' = position
      BY <1>5 DEF Deliver
    <2>2. CASE order[c].status # "open"
      <3>1. order' = order
        BY <1>5, <2>2 DEF Deliver
      <3> QED
        BY <1>1, <2>1, <3>1, NetStep
    <2>3. CASE order[c].status = "open"
      <3>1. order' = [order EXCEPT ![c] = CanceledOrder(order[c])]
        BY <1>5, <2>3 DEF Deliver, CanceledOrder
      <3> QED
        BY <1>1, <2>1, <2>3, <3>1, CancelOrder
    <2> QED
      BY <2>2, <2>3
  <1>6. CASE k = "close"
    <2>1. c \notin Canaries
      BY <1>1, <1>6, Arriving, PhaseFacts DEF PhasesOf
    <2>2. PICK fill \in 0 .. SmallerOf(position, cmd[c].quantity) :
             /\ order' = [order EXCEPT ![c] =
                  [status |-> IF fill = 0 THEN "rejected"
                              ELSE IF fill = cmd[c].quantity THEN "filled" ELSE "canceled",
                   fill |-> fill, at |-> now]]
             /\ position' = position - fill
      BY <1>6 DEF Deliver
    <2>3. fill \in Nat /\ position' \in Nat /\ position' <= position
      BY <1>2, <2>2 DEF SmallerOf
    <2>4. PICK s \in Statuses : s = IF fill = 0 THEN "rejected"
                                    ELSE IF fill = cmd[c].quantity THEN "filled" ELSE "canceled"
      BY DEF Statuses
    <2>5. s \notin {"none", "open"}
      BY <2>4
    <2>6. PICK x \in OrderRow : x = [status |-> s, fill |-> fill, at |-> now] /\ x.status = s
      BY <1>2, <2>3, AnsweredOrder
    <2>7. order' = [order EXCEPT ![c] = x]
      BY <2>2, <2>4, <2>6
    <2>8. ~Away("place", c)'
      <3>1. step[c]["place"].sent = Never
        BY <2>1, PhaseFacts DEF QualInv, StepSound, PhasesOf
      <3> QED
        BY <1>2, <1>3, <3>1, PhaseFacts DEF WireSound
    <2> QED
      BY <1>1, <2>1, <2>3, <2>5, <2>6, <2>7, <2>8, OrderStep
  <1> QED
    BY <1>4, <1>5, <1>6 DEF Deliver

\* A request is lost.
LEMMA DropKeeps ==
    ASSUME QualInv, NEW c \in Commands, NEW k \in Kinds, Drop(k, c)
    PROVE  QualInv'
  BY NetStep DEF Drop
(***************************************************************************)
(* Reads and what they decide.                                             *)
(***************************************************************************)

\* While one command is alive or admitted, the rows of the others only give
\* reservations back.
LEMMA CommandMove ==
    ASSUME QualInv, NEW c \in Commands, cmd[c].state # "halted",
           \A d \in Commands \ {c} :
              /\ ~Active(d) /\ cmd'[d].state = cmd[d].state
              /\ cmd[d].released => cmd'[d].released
              /\ step'[d] = step[d] /\ query'[d] = query[d],
           UNCHANGED <<reauth, order, position>>,
           CommandSound(c)', StepSound(c)', ReadSound(c)'
    PROVE  RowsSound' /\ \A d \in Commands \ {c} : RowKept(d) /\ ~Active(d)'
  <1>1. ASSUME NEW d \in Commands \ {c}
        PROVE  CommandSound(d)' /\ StepSound(d)' /\ ReadSound(d)' /\ RowKept(d) /\ ~Active(d)'
    <2>1. CommandSound(d) /\ StepSound(d) /\ ReadSound(d) /\ ~Active(d) /\ ~Active(d)'
      BY DEF QualInv, Active
    <2>2. cmd[d].state \notin {"queued", "claimed", "reconciling"}
      BY <2>1 DEF Active
    <2>3. CommandSound(d)'
      BY <2>1, <2>2 DEF CommandSound
    <2>4. StepSound(d)'
      BY <2>1, <2>2 DEF StepSound
    <2>5. ReadSound(d)' /\ RowKept(d)
      BY <2>1, <2>2 DEF ReadSound, RowKept
    <2> QED
      BY <2>1, <2>3, <2>4, <2>5
  <1>2. ASSUME NEW d \in Canaries PROVE SuccessorSound(d)'
    <2>1. SuccessorSound(d) /\ d \in Commands
      BY PhaseFacts DEF QualInv
    <2>2. CASE d # c
      BY <2>1, <2>2 DEF SuccessorSound
    <2>3. CASE d = c
      BY <2>1, <2>3 DEF SuccessorSound
    <2> QED
      BY <2>2, <2>3
  <1> QED
    BY <1>1, <1>2 DEF RowsSound

\* A command that is alive is the only one.
LEMMA Alone ==
    ASSUME QualInv, NEW c \in Commands, Active(c)
    PROVE  \A d \in Commands \ {c} : ~Active(d)
  BY DEF QualInv, Exclusive

\* What a read retains of a status, and the account snapshot beside it.
Status(r, s, f) == [r EXCEPT !.status = s, !.fill = f]

Snapshot(r, t, n, b) == [r EXCEPT !.at = t, !.position = n, !.open = b]

\* No read yet.
LEMMA EmptyReport == NoReport \in ReportRow /\ NoReport.status = "none"
  <1>1. 0 \in Time /\ "none" \in Statuses
    BY QualificationAssumption DEF Time, Statuses
  <1> QED
    BY <1>1 DEF NoReport, ReportRow

\* A read with its status.
LEMMA StatusRow ==
    ASSUME NEW r \in ReportRow, NEW s \in Statuses, NEW f \in Nat
    PROVE  Status(r, s, f) \in ReportRow /\ Status(r, s, f).status = s
  BY DEF ReportRow, Status

\* What a read retains.
LEMMA Reports ==
    ASSUME QualTypeOK, NEW c \in Commands, NEW k \in QueryKinds
    PROVE  /\ Report(c, k) \in ReportRow /\ Report(c, k).status = order[c].status
           /\ k = "terminal" => Report(c, k).position = position
  <1>1. /\ order[c].status \in Statuses /\ order[c].fill \in Nat /\ now \in Time /\ 0 \in Time
        /\ position \in Nat
    BY QualificationAssumption DEF QualTypeOK, OrderRow, Time
  <1>2. PICK r \in ReportRow :
           /\ r = [NoReport EXCEPT !.status = order[c].status, !.fill = order[c].fill]
           /\ r.status = order[c].status
    <2>1. Status(NoReport, order[c].status, order[c].fill) \in ReportRow
          /\ Status(NoReport, order[c].status, order[c].fill).status = order[c].status
      BY <1>1, EmptyReport, StatusRow
    <2> QED
      BY <2>1 DEF Status
  <1>3. PICK b \in BOOLEAN : b = (OpenOrders # {})
    BY Zenon
  <1>4. /\ Snapshot(r, now, position, b) \in ReportRow
        /\ Snapshot(r, now, position, b).status = r.status
        /\ Snapshot(r, now, position, b).position = position
    BY <1>1 DEF ReportRow, Snapshot
  <1>5. CASE k = "terminal"
    <2>1. Report(c, k) = Snapshot(r, now, position, OpenOrders # {})
      BY <1>2, <1>5, Zenon DEF Report, Snapshot
    <2>2. Report(c, k) = Snapshot(r, now, position, b)
      BY <1>3, <2>1, Zenon
    <2> QED
      BY <1>2, <1>4, <2>2
  <1>6. CASE k # "terminal"
    <2>1. Report(c, k) = r
      BY <1>2, <1>6 DEF Report
    <2> QED
      BY <1>2, <1>6, <2>1
  <1> QED
    BY <1>5, <1>6

\* record_query_evidence.
LEMMA RetainKeeps ==
    ASSUME QualInv, NEW c \in Commands, NEW k \in QueryKinds, Retain(c, k),
           k = "terminal" => order[c].status # "open"
    PROVE  QualInv'
  <1>1. UNCHANGED <<now, cmd, step, claim, reauth, exposure, incident, recovery, proc, net, order,
                    position>>
    BY DEF Retain, safetyVars, venueVars
  <1>2. /\ QualTypeOK /\ position \in Nat /\ cmd[c].state = "reconciling" /\ Active(c)
        /\ order[c].status # "none"
    BY DEF QualInv, QualTypeOK, Retain, Active
  <1>3. PICK r \in ReportRow : /\ r = Report(c, k) /\ r.status = order[c].status
                               /\ k = "terminal" => r.position = position
    BY <1>2, Reports
  <1>4. query' = [query EXCEPT ![c][k] = r]
    BY <1>3 DEF Retain
  <1>5. /\ query' \in [Commands -> [QueryKinds -> ReportRow]] /\ query'[c][k] = r
        /\ \A j \in QueryKinds \ {k} : query'[c][j] = query[c][j]
        /\ \A d \in Commands \ {c} : query'[d] = query[d]
    BY <1>2, <1>4 DEF QualTypeOK
  <1>6. QualTypeOK'
    BY <1>1, <1>2, <1>5 DEF QualTypeOK
  <1>7. CommandSound(c)' /\ StepSound(c)'
    BY <1>1 DEF QualInv, CommandSound, StepSound, Active, Step
  <1>8. ReadSound(c)'
    <2>1. "terminal" \in QueryKinds /\ ReadSound(c)
      BY DEF QueryKinds, QualInv
    <2>2. CASE k = "terminal"
      BY <1>1, <1>2, <1>3, <1>5, <2>2 DEF ReadSound
    <2>3. CASE k # "terminal"
      BY <1>1, <1>5, <2>1, <2>3 DEF ReadSound
    <2> QED
      BY <2>2, <2>3
  <1>9. \A d \in Commands \ {c} : ~Active(d)
    BY <1>2, Alone
  <1>10. RowsSound'
    BY <1>1, <1>2, <1>5, <1>7, <1>8, <1>9, CommandMove
  <1>11. \A d \in Commands : RowQuiet(d) /\ OrderQuiet(d)
    BY <1>1 DEF RowQuiet, RowKept, Active, OrderQuiet
  <1>12. (\A w \in Workers : ProcessSound(w)') /\ NoNewSender
    BY <1>1, ProcessesAlone
  <1>13. \A d \in Canaries : ReauthActive(d)' => ReauthActive(d)
    BY <1>1 DEF ReauthActive
  <1> QED
    BY <1>1, <1>2, <1>6, <1>10, <1>11, <1>12, <1>13, QuietStep

\* ReadByCloid, ReadByOid and ReadTerminal.
LEMMA ReadKeeps ==
    ASSUME QualInv, NEW c \in Commands, ReadByCloid(c) \/ ReadByOid(c) \/ ReadTerminal(c)
    PROVE  QualInv'
  <1>1. "cloid" \in QueryKinds /\ "oid" \in QueryKinds /\ "terminal" \in QueryKinds
    BY DEF QueryKinds
  <1>2. CASE ReadByCloid(c)
    BY <1>1, <1>2, RetainKeeps DEF ReadByCloid
  <1>3. CASE ReadByOid(c)
    BY <1>1, <1>3, RetainKeeps DEF ReadByOid
  <1>4. CASE ReadTerminal(c)
    BY <1>1, <1>4, RetainKeeps DEF ReadTerminal
  <1> QED
    BY <1>2, <1>3, <1>4

\* The row of a command after its last verdict.
LEMMA EndedRow ==
    ASSUME NEW x \in CommandRow, NEW v \in Workflows
    PROVE  /\ Ended(x, v) \in CommandRow /\ Ended(x, v).state \in {"halted", "terminal"}
           /\ Ended(x, v).released = x.released
  <1>1. CASE v = "halted_unresolved"
    BY <1>1 DEF CommandRow, Ended
  <1>2. CASE v # "halted_unresolved"
    BY <1>2 DEF CommandRow, Ended
  <1> QED
    BY <1>1, <1>2

\* The row of a canary whose cancel is queued.
CancelReady(x) == [x EXCEPT !.state = "queued", !.phase = "cancel", !.wf = "cancel_ready"]

\* It is a command row.
LEMMA CancelReadyRow ==
    ASSUME NEW x \in CommandRow
    PROVE  /\ CancelReady(x) \in CommandRow /\ CancelReady(x).state = "queued"
           /\ CancelReady(x).phase = "cancel" /\ CancelReady(x).released = x.released
  <1>1. "cancel_ready" \in Workflows /\ "cancel" \in Phases
    BY DEF Workflows, Phases
  <1> QED
    BY <1>1 DEF CommandRow, CancelReady

\* The row of a step that begins.
Ready == [NoStep EXCEPT !.state = "ready", !.expiry = now + ActionTTL]

\* It was never sent.
LEMMA ReadyRow ==
    ASSUME QualTypeOK
    PROVE  Ready \in StepRow /\ Ready.state = "ready" /\ Ready.sent = Never
  <1>1. now + ActionTTL \in Deadline /\ "ready" \in SendStates /\ Never \in Stamp
    BY QualificationAssumption DEF QualTypeOK, Time, Deadline, SendStates, Stamp
  <1> QED
    BY <1>1 DEF Ready, NoStep, StepRow

\* Writing one step of a table of steps.
LEMMA TableWritten ==
    ASSUME NEW f \in [Commands -> [Phases -> StepRow]], NEW c \in Commands, NEW p \in Phases,
           NEW y \in StepRow
    PROVE  LET g == [f EXCEPT ![c][p] = y]
           IN  /\ g \in [Commands -> [Phases -> StepRow]] /\ g[c][p] = y
               /\ \A q \in Phases \ {p} : g[c][q] = f[c][q]
               /\ \A d \in Commands \ {c} : g[d] = f[d]
  OBVIOUS

\* Reads that both show an open order and are not cancelable show a fill.
LEMMA OpenVerdicts ==
    ASSUME NEW a \in ReportRow, NEW b \in ReportRow, ~Cancelable(a, b)
    PROVE  OpenVerdict(a, b) \in Workflows
  <1>1. CASE Filled(a) \/ Filled(b)
    <2>1. OpenVerdict(a, b) = "unexpected_fill"
      BY <1>1 DEF OpenVerdict, Filled
    <2> QED
      BY <2>1 DEF Workflows
  <1>2. CASE ~(Filled(a) \/ Filled(b))
    <2>1. a.fill \in Nat /\ b.fill \in Nat
      BY DEF ReportRow
    <2>2. a.fill = 0 /\ b.fill = 0
      BY <1>2, <2>1 DEF Filled
    <2>3. ~(a.status = "open" /\ b.status = "open")
      BY <2>2 DEF Cancelable
    <2>4. OpenVerdict(a, b) = "halted_unresolved"
      BY <1>2, <2>3 DEF OpenVerdict
    <2> QED
      BY <2>4 DEF Workflows
  <1> QED
    BY <1>1, <1>2

\* advance_and_queue_canary_cancel: the cancel's step is new.
LEMMA AdvanceKeeps ==
    ASSUME QualInv, NEW c \in Commands, AdvanceOpen(c)
    PROVE  QualInv'
  <1> DEFINE a == query[c]["cloid"]
             b == query[c]["oid"]
             placed == [step EXCEPT ![c]["place"].state = "reconciled"]
  <1>1. UNCHANGED <<now, claim, reauth, exposure, incident, recovery, proc, net, order, position>>
    BY DEF AdvanceOpen, safetyVars, venueVars
  <1>2. /\ QualTypeOK /\ position \in Nat /\ cmd[c].state = "reconciling" /\ Active(c)
        /\ cmd[c].wf = "place_pending_query" /\ cmd[c] \in CommandRow
        /\ CommandSound(c) /\ StepSound(c)
    BY DEF QualInv, QualTypeOK, AdvanceOpen, Active
  <1>3. cmd[c].phase = "place" /\ c \in Canaries
    <2>1. cmd[c].phase \in PhasesOf(c) /\ PendingQuery(cmd[c].phase) = "place_pending_query"
      BY <1>2 DEF CommandSound
    <2> QED
      BY <2>1 DEF PendingQuery, PhasesOf
  <1>4. a \in ReportRow /\ b \in ReportRow
    BY <1>2, Rows DEF QueryKinds
  <1>5. step[c]["place"] \in StepRow /\ step[c]["cancel"] \in StepRow
        /\ step[c]["cancel"].sent = Never
        /\ step[c]["place"].state = "presumed_sent"
    BY <1>2, <1>3, Rows, PhaseFacts DEF StepSound, Step
  <1>6. PICK y \in StepRow : /\ y = [step[c]["place"] EXCEPT !.state = "reconciled"]
                             /\ y.state = "reconciled" /\ y.sent = step[c]["place"].sent
    <2>1. "reconciled" \in SendStates
      BY DEF SendStates
    <2>2. PICK z \in StepRow : z = step[c]["place"]
      BY <1>5
    <2>3. PICK y \in StepRow : /\ y = [z EXCEPT !.state = "reconciled"]
                               /\ y.state = "reconciled" /\ y.sent = z.sent
      BY <2>1, StepMovedTo
    <2> QED
      BY <2>2, <2>3
  <1>7. PICK g \in [Commands -> [Phases -> StepRow]] :
           /\ g = placed /\ g[c]["place"] = y
           /\ \A q \in Phases \ {"place"} : g[c][q] = step[c][q]
           /\ \A d \in Commands \ {c} : g[d] = step[d]
    <2>1. step \in [Commands -> [Phases -> StepRow]] /\ "place" \in Phases
      BY <1>2, PhaseFacts DEF QualTypeOK
    <2>2. placed = [step EXCEPT ![c]["place"] = y]
      BY <1>6
    <2>3. /\ placed \in [Commands -> [Phases -> StepRow]] /\ placed[c]["place"] = y
          /\ \A q \in Phases \ {"place"} : placed[c][q] = step[c][q]
          /\ \A d \in Commands \ {c} : placed[d] = step[d]
      BY <2>1, <2>2
    <2> QED
      BY <2>2, <2>3
  <1>8. PICK x \in CommandRow :
           /\ cmd' = [cmd EXCEPT ![c] = x] /\ x.released = cmd[c].released
           /\ \/ x.state = "queued" /\ x.phase = "cancel" /\ step' = [g EXCEPT ![c]["cancel"] = Ready]
              \/ x.state \in {"halted", "terminal"} /\ step' = g
    <2>1. CASE Cancelable(a, b)
      <3>1. cmd' = [cmd EXCEPT ![c] = CancelReady(cmd[c])]
        BY <2>1 DEF AdvanceOpen, CancelReady
      <3>2. step' = [g EXCEPT ![c]["cancel"] = Ready]
        BY <1>7, <2>1 DEF AdvanceOpen, Ready
      <3> QED
        BY <1>2, <3>1, <3>2, CancelReadyRow
    <2>2. CASE ~Cancelable(a, b)
      <3>1. cmd' = [cmd EXCEPT ![c] = Ended(cmd[c], OpenVerdict(a, b))] /\ step' = g
        BY <1>7, <2>2 DEF AdvanceOpen
      <3>2. OpenVerdict(a, b) \in Workflows
        BY <1>4, <2>2, OpenVerdicts
      <3> QED
        BY <1>2, <3>1, <3>2, EndedRow
    <2> QED
      BY <2>1, <2>2
  <1>9. /\ cmd' \in [Commands -> CommandRow] /\ cmd'[c] = x
        /\ \A d \in Commands \ {c} : cmd'[d] = cmd[d]
    BY <1>2, <1>8, CommandWritten
  <1>10. /\ step' \in [Commands -> [Phases -> StepRow]] /\ step'[c]["place"] = y
         /\ step'[c]["close"] = step[c]["close"] /\ step'[c]["cancel"].sent = Never
         /\ x.state = "queued" => step'[c]["cancel"].state = "ready"
         /\ x.state # "queued" => step'[c]["cancel"] = step[c]["cancel"]
         /\ \A d \in Commands \ {c} : step'[d] = step[d]
    <2>1. "cancel" \in Phases \ {"place"} /\ "close" \in Phases \ {"place"} /\ "cancel" # "close"
      BY PhaseFacts
    <2>2. CASE x.state = "queued" /\ step' = [g EXCEPT ![c]["cancel"] = Ready]
      <3>1. /\ step' \in [Commands -> [Phases -> StepRow]] /\ step'[c]["cancel"] = Ready
            /\ \A q \in Phases \ {"cancel"} : step'[c][q] = g[c][q]
            /\ \A d \in Commands \ {c} : step'[d] = g[d]
        BY <1>2, <2>1, <2>2, ReadyRow, TableWritten
      <3> QED
        BY <1>2, <1>7, <2>1, <2>2, <3>1, ReadyRow, PhaseFacts
    <2>3. CASE x.state \in {"halted", "terminal"} /\ step' = g
      BY <1>5, <1>7, <2>1, <2>3
    <2> QED
      BY <1>8, <2>2, <2>3
  <1>11. /\ query' \in [Commands -> [QueryKinds -> ReportRow]]
         /\ query'[c]["terminal"].status = "none"
         /\ \A d \in Commands \ {c} : query'[d] = query[d]
    <2>1. query' = [query EXCEPT ![c] = [k \in QueryKinds |-> NoReport]]
      BY DEF AdvanceOpen
    <2> QED
      BY <1>2, <2>1, EmptyReport DEF QualTypeOK, QueryKinds
  <1>12. QualTypeOK'
    BY <1>1, <1>2, <1>9, <1>10, <1>11 DEF QualTypeOK
  <1>13. CommandSound(c)'
    BY <1>2, <1>3, <1>8, <1>9, PhaseFacts DEF CommandSound, Active, PhasesOf
  <1>14. StepSound(c)'
    <2>1. \A q \in Phases : step'[c][q].state \in Unsent => step'[c][q].sent = Never
      <3>1. step'[c]["place"].state \notin Unsent
        BY <1>6, <1>10 DEF Unsent
      <3>2. step'[c]["close"].state \in Unsent => step'[c]["close"].sent = Never
        BY <1>2, <1>10, PhaseFacts DEF StepSound
      <3> QED
        BY <1>10, <3>1, <3>2 DEF Phases
    <2>2. step'[c]["close"].sent = Never
      BY <1>2, <1>3, <1>10, PhaseFacts DEF StepSound, PhasesOf
    <2>3. x.state = "queued" => Step(c)'.state = "ready"
      BY <1>8, <1>9, <1>10 DEF Step
    <2>4. \A q \in Phases : q \notin PhasesOf(c) => q = "close"
      BY <1>3 DEF Phases, PhasesOf
    <2>5. ~(Active(c)' /\ cmd'[c].phase = "place")
      BY <1>8, <1>9 DEF Active
    <2>6. cmd'[c].state \in {"queued", "halted", "terminal"}
      BY <1>8, <1>9
    <2> QED
      BY <1>9, <2>1, <2>2, <2>3, <2>4, <2>5, <2>6 DEF StepSound
  <1>15. ReadSound(c)'
    BY <1>11 DEF ReadSound
  <1>16. RowsSound' /\ \A d \in Commands \ {c} : RowKept(d)
    <2>1. \A d \in Commands \ {c} : ~Active(d)
      BY <1>2, Alone
    <2> QED
      BY <1>1, <1>2, <1>9, <1>10, <1>11, <1>13, <1>14, <1>15, <2>1, CommandMove
  <1>17. \A d \in Commands : RowQuiet(d) /\ OrderQuiet(d)
    <2>1. RowKept(c)
      <3>1. \A q \in Phases : step[c][q].sent # Never => step'[c][q].sent # Never
        <4>1. step'[c]["place"].sent = step[c]["place"].sent
          BY <1>6, <1>10
        <4> QED
          BY <1>5, <1>10, <4>1 DEF Phases
      <3> QED
        BY <1>2, <3>1 DEF RowKept
    <2>2. cmd'[c].released = cmd[c].released
      BY <1>8, <1>9
    <2> QED
      BY <1>1, <1>9, <1>16, <2>1, <2>2 DEF RowQuiet, OrderQuiet
  <1>18. (\A w \in Workers : ProcessSound(w)') /\ NoNewSender
    BY <1>1, ProcessesAlone
  <1>19. \A d \in Canaries : ReauthActive(d)' => ReauthActive(d)
    BY <1>1 DEF ReauthActive
  <1> QED
    BY <1>1, <1>2, <1>12, <1>16, <1>17, <1>18, <1>19, QuietStep

\* A verdict of the terminal read; when it is complete, the account is flat.
LEMMA TerminalVerdicts ==
    ASSUME QualInv, NEW c \in Commands, cmd[c].state = "reconciling",
           query[c]["terminal"].status # "none"
    PROVE  /\ TerminalVerdict(c) \in Workflows
           /\ TerminalVerdict(c) = "complete" => position = 0
           /\ order[c].status \notin {"none", "open"}
  <1> DEFINE r == query[c]["terminal"]
             fresh == now - r.at <= MaxAge
             held == IF fresh THEN r.position ELSE position
             working == IF fresh THEN r.open ELSE OpenOrders # {}
  <1>1. QualTypeOK /\ ReadSound(c) /\ position \in Nat
    BY DEF QualInv, QualTypeOK
  <1>2. r.position \in Nat
    BY <1>1, Rows DEF QueryKinds, ReportRow
  <1>3. order[c].status \notin {"none", "open"} /\ (r.position = 0 => position = 0)
    BY <1>1 DEF ReadSound
  <1>4. held \in Nat /\ (held = 0 => position = 0)
    <2>1. CASE fresh
      BY <1>2, <1>3, <2>1
    <2>2. CASE ~fresh
      BY <1>1, <2>2
    <2> QED
      BY <2>1, <2>2
  <1>5. CASE c \in Canaries
    <2>1. TerminalVerdict(c) = CanaryVerdict(r, held, working)
      BY <1>5, Zenon DEF TerminalVerdict
    <2> HIDE DEF held, working, r
    <2>2. CanaryVerdict(r, held, working) \in {"unexpected_fill", "complete", "halted_unresolved"}
      BY Zenon DEF CanaryVerdict
    <2>3. CanaryVerdict(r, held, working) = "complete" => held = 0
      BY <1>4 DEF CanaryVerdict
    <2> QED
      BY <1>3, <1>4, <2>1, <2>2, <2>3 DEF Workflows
  <1>6. CASE c \notin Canaries
    <2>1. TerminalVerdict(c) = CloseVerdict(c, r, held, working)
      BY <1>6, Zenon DEF TerminalVerdict
    <2> HIDE DEF held, working, r
    <2>2. CloseVerdict(c, r, held, working) \in {"complete", "partial_requires_reauthorization", "halted_unresolved"}
      BY DEF CloseVerdict
    <2>3. CloseVerdict(c, r, held, working) = "complete" => held = 0
      BY <1>4 DEF CloseVerdict
    <2> QED
      BY <1>3, <1>4, <2>1, <2>2, <2>3 DEF Workflows
  <1> QED
    BY <1>5, <1>6

\* A finished command frees nothing, or the one reservation whose canary has
\* come to its end.
LEMMA FinishFrees ==
    ASSUME QualInv, NEW c \in Commands, Finish(c)
    PROVE  \/ Frees(c) = {}
           \/ \E f \in Canaries : /\ Frees(c) = {f} /\ ~cmd[f].released
                                  /\ order[f].status \notin {"none", "open"} /\ position = 0
  <1>1. /\ cmd[c].state = "reconciling" /\ query[c]["terminal"].status # "none" /\ Active(c)
        /\ CommandSound(c) /\ CloseSound(c)
    BY DEF QualInv, Finish, Active
  <1>2. CASE TerminalVerdict(c) # "complete"
    BY <1>2 DEF Frees
  <1>3. CASE TerminalVerdict(c) = "complete" /\ c \in Canaries
    <2>1. Frees(c) = {c} /\ ~cmd[c].released
      BY <1>1, <1>3 DEF Frees, CommandSound
    <2>2. position = 0 /\ order[c].status \notin {"none", "open"}
      BY <1>1, <1>3, TerminalVerdicts
    <2> QED
      BY <1>3, <2>1, <2>2
  <1>4. CASE TerminalVerdict(c) = "complete" /\ c \notin Canaries
    <2>1. c \in Closes /\ Frees(c) = {d \in Canaries : ~cmd[d].released}
      BY <1>4, PhaseFacts DEF Frees, Unresolved
    <2>2. position = 0
      BY <1>1, <1>4, TerminalVerdicts
    <2>3. Frees(c) # {}
      <3>1. Cardinality(Frees(c)) = 1
        BY <1>4, <2>1 DEF Finish
      <3> QED
        BY <3>1, FS_EmptySet
    <2>4. PICK f \in Canaries : ~cmd[f].released
      BY <2>1, <2>3
    <2>5. Frees(c) = {f}
      BY <2>1, <2>4 DEF QualInv, OneReservation
    <2>6. order[f].status \notin {"none", "open"}
      BY <1>1, <2>1, <2>4 DEF CloseSound
    <2> QED
      BY <2>2, <2>4, <2>5, <2>6
  <1> QED
    BY <1>2, <1>3, <1>4

\* A row whose reservation may be given back.
FreedRow(x, b) == [x EXCEPT !.released = @ \/ b]

\* It is a command row with its old state.
LEMMA Freed ==
    ASSUME NEW x \in CommandRow, NEW b \in BOOLEAN
    PROVE  /\ FreedRow(x, b) \in CommandRow /\ FreedRow(x, b).state = x.state
           /\ FreedRow(x, b).released = (x.released \/ b)
  BY DEF CommandRow, FreedRow

\* The rows after finish_terminal_reconciliation.
LEMMA FinishRows ==
    ASSUME QualInv, NEW c \in Commands, Finish(c)
    PROVE  /\ RowsSound' /\ \A d \in Commands : RowKept(d)
           /\ cmd' \in [Commands -> CommandRow] /\ step' \in [Commands -> [Phases -> StepRow]]
           /\ claim' \in [Commands -> Claims] /\ query' \in [Commands -> [QueryKinds -> ReportRow]]
           /\ \A d \in Commands : cmd'[d].released = (cmd[d].released \/ d \in Frees(c))
  <1>1. /\ QualTypeOK /\ cmd[c].state = "reconciling" /\ Active(c)
        /\ query[c]["terminal"].status # "none" /\ CommandSound(c) /\ StepSound(c)
    BY DEF QualInv, Finish, Active
  <1>2. PICK p \in Phases : cmd[c].phase = p /\ Step(c) = step[c][p] /\ step[c][p] \in StepRow
    BY <1>1, ActiveRow
  <1>3. PICK v \in Workflows : v = TerminalVerdict(c)
    BY <1>1, TerminalVerdicts
  <1>4. ASSUME NEW d \in Commands \ {c}
        PROVE  /\ cmd'[d] \in CommandRow /\ cmd'[d].state = cmd[d].state
               /\ cmd'[d].released = (cmd[d].released \/ d \in Frees(c))
    <2>1. cmd[d] \in CommandRow
      BY <1>1 DEF QualTypeOK
    <2>2. PICK b \in BOOLEAN : b = (d \in Frees(c))
      <3>1. (d \in Frees(c)) \in BOOLEAN
        OBVIOUS
      <3> QED
        BY <3>1, Zenon
    <2>3. cmd'[d] = FreedRow(cmd[d], d \in Frees(c))
      BY Zenon DEF Finish, FreedRow
    <2>4. cmd'[d] = FreedRow(cmd[d], b)
      BY <2>2, <2>3, Zenon
    <2>5. /\ cmd'[d] \in CommandRow /\ cmd'[d].state = cmd[d].state
          /\ cmd'[d].released = (cmd[d].released \/ b)
      BY <2>1, <2>4, Freed
    <2> QED
      BY <2>2, <2>5, Zenon
  <1>5. /\ cmd'[c] \in CommandRow /\ cmd'[c].state \in {"halted", "terminal"}
        /\ cmd'[c].released = (cmd[c].released \/ c \in Frees(c))
    <2>1. cmd[c] \in CommandRow
      BY <1>1 DEF QualTypeOK
    <2>2. PICK b \in BOOLEAN : b = (c \in Frees(c))
      <3>1. (c \in Frees(c)) \in BOOLEAN
        OBVIOUS
      <3> QED
        BY <3>1, Zenon
    <2>3. cmd'[c] = Ended(FreedRow(cmd[c], c \in Frees(c)), TerminalVerdict(c))
      BY Zenon DEF Finish, FreedRow
    <2>4. cmd'[c] = Ended(FreedRow(cmd[c], b), v)
      BY <1>3, <2>2, <2>3, Zenon
    <2>5. PICK x \in CommandRow : x = FreedRow(cmd[c], b) /\ x.released = (cmd[c].released \/ b)
      BY <2>1, Freed
    <2>6. /\ cmd'[c] \in CommandRow /\ cmd'[c].state \in {"halted", "terminal"}
          /\ cmd'[c].released = (cmd[c].released \/ b)
      BY <2>4, <2>5, EndedRow
    <2> QED
      BY <2>2, <2>6, Zenon
  <1>6. cmd' \in [Commands -> CommandRow]
    <2>1. \A d \in Commands : cmd'[d] \in CommandRow
      BY <1>4, <1>5
    <2>2. cmd' = [d \in Commands |-> cmd'[d]]
      BY DEF Finish
    <2> QED
      BY <2>1, <2>2
  <1>7. PICK y \in StepRow : /\ y = [step[c][p] EXCEPT !.state = "reconciled"]
                             /\ y.state = "reconciled" /\ y.sent = step[c][p].sent
    <2>1. "reconciled" \in SendStates
      BY DEF SendStates
    <2> DEFINE y == [step[c][p] EXCEPT !.state = "reconciled"]
    <2>2. y \in StepRow /\ y.state = "reconciled" /\ y.sent = step[c][p].sent
      BY <1>2, <2>1 DEF StepRow
    <2> QED
      BY <2>2
  <1>8. step' = [step EXCEPT ![c][p] = y]
    BY <1>2, <1>7 DEF Finish, StepTo
  <1>9. /\ step' \in [Commands -> [Phases -> StepRow]] /\ step'[c][p] = y
        /\ \A q \in Phases \ {p} : step'[c][q] = step[c][q]
        /\ \A d \in Commands \ {c} : step'[d] = step[d]
    BY <1>1, <1>8, StepWritten
  <1>10. /\ query' \in [Commands -> [QueryKinds -> ReportRow]]
         /\ query'[c]["terminal"].status = "none"
         /\ \A d \in Commands \ {c} : query'[d] = query[d]
    <2>1. query' = [query EXCEPT ![c]["terminal"] = NoReport]
      BY DEF Finish
    <2> QED
      BY <1>1, <2>1, EmptyReport DEF QualTypeOK, QueryKinds
  <1>11. claim' \in [Commands -> Claims]
    BY <1>1, FreeClaim DEF Finish, QualTypeOK
  <1>12. CommandSound(c)' /\ ReadSound(c)'
    BY <1>1, <1>5, <1>10 DEF CommandSound, ReadSound, Active
  <1>13. StepSound(c)' /\ RowKept(c)
    <2>1. \A q \in Phases : step'[c][q].sent = step[c][q].sent
      BY <1>7, <1>9
    <2>2. \A q \in Phases : step'[c][q].state \in Unsent => step[c][q].sent = Never
      <3>1. step'[c][p].state \notin Unsent
        BY <1>7, <1>9 DEF Unsent
      <3>2. \A q \in Phases \ {p} : step'[c][q].state \in Unsent => step[c][q].sent = Never
        BY <1>1, <1>9 DEF StepSound
      <3> QED
        BY <3>1, <3>2
    <2>3. ~Active(c)'
      BY <1>5 DEF Active
    <2> QED
      BY <1>1, <1>5, <2>1, <2>2, <2>3 DEF StepSound, RowKept
  <1>14. UNCHANGED <<reauth, order, position>>
    BY DEF Finish, venueVars
  <1>15. \A d \in Commands \ {c} : ~Active(d)
    BY <1>1, Alone
  <1>16. RowsSound' /\ \A d \in Commands \ {c} : RowKept(d)
    <2>1. \A d \in Commands \ {c} :
              /\ ~Active(d) /\ cmd'[d].state = cmd[d].state
              /\ cmd[d].released => cmd'[d].released
              /\ step'[d] = step[d] /\ query'[d] = query[d]
      BY <1>4, <1>9, <1>10, <1>15
    <2> QED
      BY <1>1, <1>12, <1>13, <1>14, <2>1, CommandMove
  <1> QED
    BY <1>4, <1>5, <1>6, <1>9, <1>10, <1>11, <1>13, <1>16

\* finish_terminal_reconciliation.
LEMMA FinishKeeps ==
    ASSUME QualInv, NEW c \in Commands, Finish(c)
    PROVE  QualInv'
  <1>1. UNCHANGED <<now, reauth, incident, recovery, proc, net, order, position>>
    BY DEF Finish, safetyVars, venueVars
  <1>2. QualTypeOK /\ position \in Nat /\ exposure \in 0 .. MaxReserved
    BY DEF QualInv, QualTypeOK
  <1>3. /\ RowsSound' /\ \A d \in Commands : RowKept(d)
        /\ cmd' \in [Commands -> CommandRow] /\ step' \in [Commands -> [Phases -> StepRow]]
        /\ claim' \in [Commands -> Claims] /\ query' \in [Commands -> [QueryKinds -> ReportRow]]
        /\ \A d \in Commands : cmd'[d].released = (cmd[d].released \/ d \in Frees(c))
    BY FinishRows
  <1>4. exposure' = exposure - Cardinality({d \in Frees(c) : ~cmd[d].released})
    BY DEF Finish
  <1>5. (\A w \in Workers : ProcessSound(w)') /\ NoNewSender
    BY <1>1, ProcessesAlone
  <1>6. \A d \in Canaries : ReauthActive(d)' => ReauthActive(d)
    BY <1>1 DEF ReauthActive
  <1>7. CASE Frees(c) = {}
    <2>1. exposure' = exposure
      <3>1. {d \in Frees(c) : ~cmd[d].released} = {}
        BY <1>7
      <3>2. Cardinality({d \in Frees(c) : ~cmd[d].released}) = 0
        BY <3>1, FS_EmptySet
      <3> QED
        BY <1>2, <1>4, <3>2
    <2>2. \A d \in Commands : RowQuiet(d) /\ OrderQuiet(d)
      <3> SUFFICES ASSUME NEW d \in Commands PROVE RowQuiet(d) /\ OrderQuiet(d)
        OBVIOUS
      <3>1. cmd[d].released \in BOOLEAN
        BY <1>2, Rows DEF CommandRow
      <3>2. cmd'[d].released = cmd[d].released
        BY <1>3, <1>7, <3>1
      <3> QED
        BY <1>1, <1>3, <3>2 DEF RowQuiet, OrderQuiet
    <2>3. QualTypeOK'
      BY <1>1, <1>2, <1>3, <2>1 DEF QualTypeOK
    <2> QED
      BY <1>1, <1>2, <1>3, <1>5, <1>6, <2>1, <2>2, <2>3, QuietStep
  <1>8. ASSUME NEW f \in Canaries, Frees(c) = {f}, ~cmd[f].released,
               order[f].status \notin {"none", "open"}, position = 0
        PROVE  QualInv'
    <2>1. exposure' = exposure - 1
      <3>1. {d \in Frees(c) : ~cmd[d].released} = {f}
        BY <1>8
      <3>2. Cardinality({d \in Frees(c) : ~cmd[d].released}) = 1
        BY <3>1, FS_Singleton
      <3> QED
        BY <1>4, <3>2
    <2>2. exposure' \in 0 .. MaxReserved
      <3>1. exposure = 1
        BY <1>8 DEF QualInv, OneReservation
      <3> QED
        BY <2>1, <3>1, QualificationAssumption
    <2>3. QualTypeOK'
      BY <1>1, <1>2, <1>3, <2>2 DEF QualTypeOK
    <2>4. f \in Commands /\ WireSound(f)
      BY PhaseFacts DEF QualInv
    <2>5. ~Away("place", f)
      BY <1>8, <2>4 DEF WireSound
    <2>6. cmd'[f].released
      BY <1>3, <1>8, <2>4
    <2>7. \A d \in Canaries \ {f} : cmd'[d].released = cmd[d].released
      <3> SUFFICES ASSUME NEW d \in Canaries \ {f} PROVE cmd'[d].released = cmd[d].released
        OBVIOUS
      <3>1. d \in Commands /\ cmd[d].released \in BOOLEAN
        BY <1>2, Rows, PhaseFacts DEF CommandRow
      <3> QED
        BY <1>3, <1>8, <3>1
    <2> QED
      BY <1>1, <1>3, <1>5, <1>6, <1>8, <2>1, <2>3, <2>5, <2>6, <2>7, ReleaseStep
  <1> QED
    BY <1>7, <1>8, FinishFrees
(***************************************************************************)
(* Attended admission.                                                     *)
(***************************************************************************)

\* The row of a command that is queued.
QueuedRow(p, n, b) ==
    [state |-> "queued", phase |-> p, wf |-> "authorized", released |-> b, quantity |-> n]

\* Its fields.
LEMMA QueuedRows ==
    ASSUME NEW p \in Phases, NEW n \in Nat, NEW b \in BOOLEAN
    PROVE  /\ QueuedRow(p, n, b) \in CommandRow /\ QueuedRow(p, n, b).state = "queued"
           /\ QueuedRow(p, n, b).phase = p /\ QueuedRow(p, n, b).released = b
  <1>1. "authorized" \in Workflows
    BY DEF Workflows
  <1> QED
    BY <1>1 DEF CommandRow, QueuedRow

\* A command is queued on a free account.
LEMMA AdmitRows ==
    ASSUME QualInv, NEW c \in Commands, NEW p \in PhasesOf(c), p # "cancel",
           NEW n \in Nat, NEW b \in BOOLEAN, b <=> c \notin Canaries,
           AccountIsFree, Queue(c, p, n, b),
           UNCHANGED <<query, reauth, order, position, recovery>>
    PROVE  /\ RowsSound' /\ Exclusive'
           /\ \A d \in Commands \ {c} : ~Active(d)' /\ cmd'[d] = cmd[d] /\ step'[d] = step[d]
           /\ \A q \in Phases : step[c][q].sent = Never
           /\ cmd' \in [Commands -> CommandRow] /\ step' \in [Commands -> [Phases -> StepRow]]
           /\ cmd'[c].state = "queued" /\ cmd'[c].released = b
  <1>1. /\ QualTypeOK /\ StepSound(c) /\ ReadSound(c) /\ cmd[c].state = "none" /\ p \in Phases
    BY PhaseFacts DEF QualInv, Queue
  <1>2. PICK x \in CommandRow : /\ x = QueuedRow(p, n, b) /\ x.state = "queued" /\ x.phase = p
                                /\ x.released = b
    BY <1>1, QueuedRows
  <1>3. /\ cmd' = [cmd EXCEPT ![c] = x] /\ step' = [step EXCEPT ![c][p] = Ready]
    <2>1. cmd' = [cmd EXCEPT ![c] = QueuedRow(p, n, b)]
      BY Zenon DEF Queue, QueuedRow
    <2>2. step' = [step EXCEPT ![c][p] = Ready]
      BY Zenon DEF Queue, Ready
    <2> QED
      BY <1>2, <2>1, <2>2
  <1>4. /\ cmd' \in [Commands -> CommandRow] /\ cmd'[c] = x
        /\ \A d \in Commands \ {c} : cmd'[d] = cmd[d]
    BY <1>1, <1>3, CommandWritten
  <1>5. /\ step' \in [Commands -> [Phases -> StepRow]] /\ step'[c][p] = Ready
        /\ \A q \in Phases \ {p} : step'[c][q] = step[c][q]
        /\ \A d \in Commands \ {c} : step'[d] = step[d]
    BY <1>1, <1>3, ReadyRow, StepWritten
  <1>6. \A q \in Phases : step[c][q].sent = Never /\ step'[c][q].sent = Never
    <2>1. \A q \in Phases : step[c][q].sent = Never
      BY <1>1 DEF StepSound
    <2> QED
      BY <1>1, <1>5, <2>1, ReadyRow
  <1>7. CommandSound(c)'
    BY <1>2, <1>4, PhaseFacts DEF CommandSound, Active
  <1>8. StepSound(c)'
    <2>1. Step(c)' = Ready /\ Ready.state = "ready"
      BY <1>1, <1>2, <1>4, <1>5, ReadyRow DEF Step
    <2> QED
      BY <1>2, <1>4, <1>6, <2>1 DEF StepSound
  <1>9. ReadSound(c)'
    BY <1>1 DEF ReadSound
  <1>10. \A d \in Commands : ~Active(d)
    BY DEF AccountIsFree
  <1>11. \A d \in Commands \ {c} :
              /\ ~Active(d) /\ cmd'[d].state = cmd[d].state
              /\ cmd[d].released => cmd'[d].released
              /\ step'[d] = step[d] /\ query'[d] = query[d]
    BY <1>4, <1>5, <1>10
  <1>12. RowsSound' /\ \A d \in Commands \ {c} : ~Active(d)'
    BY <1>1, <1>7, <1>8, <1>9, <1>11, CommandMove
  <1>13. Exclusive'
    <2>1. \A d \in Canaries : ~ReauthActive(d)'
      BY DEF AccountIsFree, ReauthActive
    <2>2. ~recovery'
      BY DEF AccountIsFree
    <2> QED
      BY <1>12, <2>1, <2>2 DEF Exclusive
  <1> QED
    BY <1>2, <1>4, <1>5, <1>6, <1>12, <1>13

\* A canary is admitted when nothing is reserved and the account is flat.
LEMMA AdmitCanaryKeeps ==
    ASSUME QualInv, NEW c \in Commands, AdmitCanary(c)
    PROVE  QualInv'
  <1>1. /\ c \in Canaries /\ position = 0 /\ AccountIsFree /\ Queue(c, "place", Size, FALSE)
        /\ exposure < MaxReserved /\ exposure' = exposure + 1
        /\ \A d \in Canaries : cmd[d].released
        /\ UNCHANGED <<now, claim, query, reauth, incident, recovery, proc, net, order, position>>
    BY PhaseFacts DEF AdmitCanary, Unresolved, safetyVars, venueVars
  <1>2. QualTypeOK
    BY DEF QualInv
  <1>3. /\ RowsSound' /\ Exclusive'
        /\ \A d \in Commands \ {c} : ~Active(d)' /\ cmd'[d] = cmd[d] /\ step'[d] = step[d]
        /\ \A q \in Phases : step[c][q].sent = Never
        /\ cmd' \in [Commands -> CommandRow] /\ step' \in [Commands -> [Phases -> StepRow]]
        /\ cmd'[c].state = "queued" /\ cmd'[c].released = FALSE
    <2>1. "place" \in PhasesOf(c) /\ "place" # "cancel" /\ Size \in Nat
      BY <1>1, QualificationAssumption DEF PhasesOf
    <2>2. PICK b \in BOOLEAN : b = FALSE
      OBVIOUS
    <2>3. (b <=> c \notin Canaries) /\ Queue(c, "place", Size, b)
      BY <1>1, <2>2, Zenon
    <2> QED
      BY <1>1, <2>1, <2>2, <2>3, AdmitRows
  <1>4. exposure = 0
    BY <1>1 DEF QualInv, OneReservation
  <1>5. QualTypeOK'
    <2>1. exposure' \in 0 .. MaxReserved
      BY <1>1, <1>4, QualificationAssumption
    <2> QED
      BY <1>1, <1>2, <1>3, <2>1 DEF QualTypeOK
  <1>6. (\A w \in Workers : ProcessSound(w)') /\ NoNewSender
    BY <1>1, ProcessesAlone
  <1>7. ~cmd'[c].released /\ \A d \in Canaries \ {c} : cmd'[d].released
    BY <1>1, <1>3, PhaseFacts
  <1>8. OneReservation'
    BY <1>1, <1>4, <1>7 DEF OneReservation
  <1>9. ASSUME NEW d \in Commands PROVE WireSound(d)'
    <2>1. WireSound(d) /\ \A q \in Phases : step[d][q].sent # Never => step'[d][q].sent # Never
      BY <1>3 DEF QualInv
    <2>2. \A q \in Phases : Away(q, d)' <=> Away(q, d)
      BY <1>1 DEF Away, Sender
    <2>3. \A w \in Workers : Sender(w, "place", d)' <=> Sender(w, "place", d)
      BY <1>1 DEF Sender
    <2> QED
      BY <1>1, <2>1, <2>2, <2>3, PhaseFacts DEF WireSound
  <1>10. ASSUME NEW d \in Canaries PROVE Covered(d)'
    <2>1. Covered(d) /\ cmd[d].released /\ (Away("place", d)' <=> Away("place", d))
      BY <1>1 DEF QualInv, Away, Sender
    <2> QED
      BY <1>1, <2>1 DEF Covered
  <1>11. PositionCovered'
    BY <1>1 DEF PositionCovered
  <1>12. ASSUME NEW d \in Commands PROVE CloseSound(d)'
    BY <1>1, <1>3, PhaseFacts DEF CloseSound
  <1> QED
    BY <1>3, <1>5, <1>6, <1>8, <1>9, <1>10, <1>11, <1>12 DEF QualInv, RowsSound

\* A close is admitted when the canary behind the position has come to its end.
LEMMA AdmitCloseKeeps ==
    ASSUME QualInv, NEW c \in Commands, AdmitClose(c)
    PROVE  QualInv'
  <1>1. /\ c \in Closes /\ position > 0 /\ OpenOrders = {} /\ AccountIsFree
        /\ Queue(c, "close", position, TRUE)
        /\ UNCHANGED <<now, claim, query, reauth, exposure, incident, recovery, proc, net, order,
                       position>>
    BY DEF AdmitClose, safetyVars, venueVars
  <1>2. QualTypeOK /\ position \in Nat /\ c \notin Canaries
    BY <1>1, PhaseFacts DEF QualInv, QualTypeOK
  <1>3. /\ RowsSound' /\ Exclusive'
        /\ \A d \in Commands \ {c} : ~Active(d)' /\ cmd'[d] = cmd[d] /\ step'[d] = step[d]
        /\ \A q \in Phases : step[c][q].sent = Never
        /\ cmd' \in [Commands -> CommandRow] /\ step' \in [Commands -> [Phases -> StepRow]]
    <2>1. "close" \in PhasesOf(c) /\ "close" # "cancel"
      BY <1>2 DEF PhasesOf
    <2>2. PICK b \in BOOLEAN : b = TRUE
      OBVIOUS
    <2>3. (b <=> c \notin Canaries) /\ Queue(c, "close", position, b)
      BY <1>1, <1>2, <2>2, Zenon
    <2> QED
      BY <1>1, <1>2, <2>1, <2>3, AdmitRows
  <1>4. QualTypeOK'
    BY <1>1, <1>2, <1>3 DEF QualTypeOK
  <1>5. (\A w \in Workers : ProcessSound(w)') /\ NoNewSender
    BY <1>1, ProcessesAlone
  <1>6. \A d \in Canaries : cmd'[d] = cmd[d]
    BY <1>2, <1>3, PhaseFacts
  <1>7. OneReservation' /\ PositionCovered'
    BY <1>1, <1>6 DEF QualInv, OneReservation, PositionCovered
  <1>8. ASSUME NEW d \in Commands PROVE WireSound(d)'
    <2>1. WireSound(d) /\ \A q \in Phases : step[d][q].sent # Never => step'[d][q].sent # Never
      BY <1>3 DEF QualInv
    <2>2. \A q \in Phases : Away(q, d)' <=> Away(q, d)
      BY <1>1 DEF Away, Sender
    <2>3. \A w \in Workers : Sender(w, "place", d)' <=> Sender(w, "place", d)
      BY <1>1 DEF Sender
    <2> QED
      BY <1>1, <2>1, <2>2, <2>3, PhaseFacts DEF WireSound
  <1>9. ASSUME NEW d \in Canaries PROVE Covered(d)'
    <2>1. Covered(d) /\ (Away("place", d)' <=> Away("place", d))
      BY <1>1 DEF QualInv, Away, Sender
    <2> QED
      BY <1>1, <1>6, <2>1 DEF Covered
  <1>10. ASSUME NEW d \in Commands PROVE CloseSound(d)'
    <2> SUFFICES ASSUME NEW e \in Canaries, ~cmd[e].released
                 PROVE  order[e].status \notin {"none", "open"}
      BY <1>1, <1>6 DEF CloseSound
    <2>1. order[e].status # "open"
      BY <1>1, PhaseFacts DEF OpenOrders
    <2>2. order[e].status # "none"
      BY <1>1 DEF QualInv, PositionCovered, OneReservation
    <2> QED
      BY <2>1, <2>2
  <1> QED
    BY <1>3, <1>4, <1>5, <1>7, <1>8, <1>9, <1>10 DEF QualInv, RowsSound

(***************************************************************************)
(* The successor of a cancel that was never sent.                          *)
(***************************************************************************)

\* The successor of c moves beside the halted command.
LEMMA ReauthRows ==
    ASSUME QualInv, NEW c \in Canaries, NEW x \in ReauthRow,
           x.state \in {"none", "queued", "claimed", "prepared"} => x.sent = Never,
           cmd[c].state = "halted", step[c]["cancel"].sent = Never,
           reauth' = [reauth EXCEPT ![c] = x], UNCHANGED <<cmd, step, query, order, position>>
    PROVE  /\ RowsSound' /\ \A d \in Commands : RowQuiet(d) /\ OrderQuiet(d)
           /\ reauth' \in [Canaries -> ReauthRow] /\ reauth'[c] = x
           /\ \A d \in Canaries \ {c} : reauth'[d] = reauth[d]
  <1>1. /\ reauth' \in [Canaries -> ReauthRow] /\ reauth'[c] = x
        /\ \A d \in Canaries \ {c} : reauth'[d] = reauth[d]
    BY DEF QualInv, QualTypeOK
  <1>2. ASSUME NEW d \in Commands
        PROVE  CommandSound(d)' /\ StepSound(d)' /\ ReadSound(d)' /\ RowQuiet(d) /\ OrderQuiet(d)
    BY DEF QualInv, CommandSound, StepSound, ReadSound, RowQuiet, RowKept, OrderQuiet, Active, Step
  <1>3. ASSUME NEW d \in Canaries PROVE SuccessorSound(d)'
    <2>1. SuccessorSound(d)
      BY DEF QualInv
    <2>2. CASE d = c
      BY <1>1, <2>2 DEF SuccessorSound
    <2>3. CASE d # c
      BY <1>1, <2>1, <2>3 DEF SuccessorSound
    <2> QED
      BY <2>2, <2>3
  <1> QED
    BY <1>1, <1>2, <1>3 DEF RowsSound

\* A successor that is alive moves on.
LEMMA ReauthStep ==
    ASSUME QualInv, NEW c \in Canaries, ReauthActive(c), NEW x \in ReauthRow,
           x.state \in {"none", "queued", "claimed", "prepared"} => x.sent = Never,
           reauth' = [reauth EXCEPT ![c] = x],
           proc' \in [Workers -> Process], NoNewSender, \A w \in Workers : ProcessSound(w)',
           UNCHANGED <<now, cmd, step, claim, query, exposure, safetyVars, venueVars>>
    PROVE  QualInv'
  <1>1. UNCHANGED <<now, cmd, step, claim, query, exposure, incident, recovery, net, order,
                    position>>
    BY DEF safetyVars, venueVars
  <1>2. QualTypeOK /\ position \in Nat
    BY DEF QualInv, QualTypeOK
  <1>3. cmd[c].state = "halted" /\ step[c]["cancel"].sent = Never
    BY DEF QualInv, SuccessorSound, ReauthActive
  <1>4. /\ RowsSound' /\ \A d \in Commands : RowQuiet(d) /\ OrderQuiet(d)
        /\ reauth' \in [Canaries -> ReauthRow] /\ reauth'[c] = x
        /\ \A d \in Canaries \ {c} : reauth'[d] = reauth[d]
    BY <1>1, <1>3, ReauthRows
  <1>5. QualTypeOK'
    BY <1>1, <1>2, <1>4 DEF QualTypeOK
  <1>6. \A d \in Canaries : ReauthActive(d)' => ReauthActive(d)
    BY <1>4 DEF ReauthActive
  <1> QED
    BY <1>1, <1>2, <1>4, <1>5, <1>6, QuietStep

\* The successor rows that are written.
NewReauth == [NoReauth EXCEPT !.state = "queued", !.expiry = now + ActionTTL]

ReauthHeld(x, k) == [x EXCEPT !.state = "claimed", !.claim = k]

ReauthMoved(x, s) == [x EXCEPT !.state = s]

ReauthSent(x, t) == [x EXCEPT !.state = "sending", !.sent = t]

ReauthLeft(x, s, t) == [x EXCEPT !.state = s, !.sent = t, !.claim = NoClaim]

ReauthStates == {"queued", "claimed", "prepared", "sending", "reconciling", "terminal", "halted"}

\* The first of them.
LEMMA NewReauthRow ==
    ASSUME QualTypeOK
    PROVE  NewReauth \in ReauthRow /\ NewReauth.state = "queued" /\ NewReauth.sent = Never
  <1>1. now + ActionTTL \in Deadline /\ Never \in Stamp
    BY QualificationAssumption DEF QualTypeOK, Time, Deadline, Stamp
  <1> QED
    BY <1>1, FreeClaim DEF NewReauth, NoReauth, ReauthRow

\* The others.
LEMMA ReauthWritten ==
    ASSUME NEW x \in ReauthRow, NEW s \in ReauthStates, NEW t \in Stamp, NEW k \in Claims
    PROVE  /\ ReauthHeld(x, k) \in ReauthRow /\ ReauthHeld(x, k).state = "claimed"
           /\ ReauthHeld(x, k).sent = x.sent
           /\ ReauthMoved(x, s) \in ReauthRow /\ ReauthMoved(x, s).state = s
           /\ ReauthMoved(x, s).sent = x.sent
           /\ ReauthSent(x, t) \in ReauthRow /\ ReauthSent(x, t).state = "sending"
           /\ ReauthSent(x, t).sent = t
           /\ ReauthLeft(x, s, t) \in ReauthRow /\ ReauthLeft(x, s, t).state = s
           /\ ReauthLeft(x, s, t).sent = t
  <1>1. ReauthHeld(x, k) \in ReauthRow /\ ReauthHeld(x, k).state = "claimed" /\ ReauthHeld(x, k).sent = x.sent
    BY DEF ReauthHeld, ReauthRow
  <1>2. ReauthMoved(x, s) \in ReauthRow /\ ReauthMoved(x, s).state = s /\ ReauthMoved(x, s).sent = x.sent
    BY DEF ReauthMoved, ReauthRow, ReauthStates
  <1>3. ReauthSent(x, t) \in ReauthRow /\ ReauthSent(x, t).state = "sending" /\ ReauthSent(x, t).sent = t
    BY DEF ReauthSent, ReauthRow
  <1>4. ReauthLeft(x, s, t) \in ReauthRow /\ ReauthLeft(x, s, t).state = s /\ ReauthLeft(x, s, t).sent = t
    BY FreeClaim DEF ReauthLeft, ReauthRow, ReauthStates
  <1> QED
    BY <1>1, <1>2, <1>3, <1>4

\* A successor that has its signing authority.
LEMMA ReauthSigned ==
    ASSUME NEW x \in ReauthRow
    PROVE  LET y == [x EXCEPT !.signing = TRUE]
           IN  y \in ReauthRow /\ y.state = x.state /\ y.sent = x.sent
  BY DEF ReauthRow

\* admit: the one successor is the only mutation on the account.
LEMMA AdmitReauthKeeps ==
    ASSUME QualInv, NEW c \in Canaries, AdmitReauth(c)
    PROVE  QualInv'
  <1>1. /\ UNCHANGED <<now, cmd, step, claim, query, exposure, incident, recovery, proc, net, order,
                       position>>
        /\ cmd[c].state = "halted" /\ step[c]["cancel"].sent = Never /\ ~recovery
        /\ \A d \in Commands : ~Active(d)
        /\ \A d \in Canaries : ~ReauthActive(d)
    BY DEF AdmitReauth, safetyVars, venueVars
  <1>2. QualTypeOK /\ position \in Nat
    BY DEF QualInv, QualTypeOK
  <1>3. PICK x \in ReauthRow : x = NewReauth /\ x.state = "queued" /\ x.sent = Never
    BY <1>2, NewReauthRow
  <1>4. reauth' = [reauth EXCEPT ![c] = x]
    BY <1>3 DEF AdmitReauth, NewReauth
  <1>5. /\ RowsSound' /\ \A d \in Commands : RowQuiet(d) /\ OrderQuiet(d)
        /\ reauth' \in [Canaries -> ReauthRow] /\ reauth'[c] = x
        /\ \A d \in Canaries \ {c} : reauth'[d] = reauth[d]
    BY <1>1, <1>3, <1>4, ReauthRows
  <1>6. QualTypeOK'
    BY <1>1, <1>2, <1>5 DEF QualTypeOK
  <1>7. Exclusive'
    <2>1. \A d \in Commands : ~Active(d)'
      BY <1>1 DEF Active
    <2>2. \A d \in Canaries \ {c} : ~ReauthActive(d)'
      BY <1>1, <1>5 DEF ReauthActive
    <2> QED
      BY <1>1, <2>1, <2>2 DEF Exclusive
  <1>8. (\A w \in Workers : ProcessSound(w)') /\ NoNewSender
    BY <1>1, ProcessesAlone
  <1> QED
    BY <1>1, <1>2, <1>5, <1>6, <1>7, <1>8, QuietRows

\* claim, require_signing_authority, sign and require_submission_authority.
LEMMA ReauthSendKeeps ==
    ASSUME QualInv, NEW w \in Workers, NEW c \in Canaries,
           ReauthClaim(w, c) \/ ReauthSigning(w, c) \/ ReauthPrepare(w, c) \/ ReauthAuthorize(w, c)
    PROVE  QualInv'
  <1>1. /\ QualTypeOK /\ reauth[c] \in ReauthRow /\ SuccessorSound(c) /\ c \in Commands
        /\ reauth[c].claim \in Claims /\ reauth[c].expiry \in Deadline
        /\ reauth[c].claim.token \in Nat /\ reauth[c].claim.lease \in Deadline
        /\ now \in Time /\ now \in Stamp /\ proc[w] \in Process
    BY PhaseFacts DEF QualInv, QualTypeOK, ReauthRow, Claims, Stamp
  <1>2. reauth[c].state \in {"queued", "claimed", "prepared"}
    BY DEF ReauthClaim, ReauthSigning, ReauthPrepare, ReauthAuthorize
  <1>3. ReauthActive(c) /\ reauth[c].sent = Never
    BY <1>1, <1>2 DEF ReauthActive, SuccessorSound
  <1>4. CASE ReauthClaim(w, c)
    <2>1. PICK k \in Claims : k = [worker |-> w, token |-> reauth[c].claim.token + 1,
                                   lease |-> now + LeaseTime]
      BY <1>1, ClaimRow
    <2>2. PICK x \in ReauthRow : x = ReauthHeld(reauth[c], k) /\ x.state = "claimed" /\ x.sent = Never
      <3>1. "claimed" \in ReauthStates
        BY DEF ReauthStates
      <3> QED
        BY <1>1, <1>3, <3>1, ReauthWritten
    <2>3. reauth' = [reauth EXCEPT ![c] = x]
      BY <1>4, <2>1, <2>2 DEF ReauthClaim, ReauthHeld
    <2>4. PICK z \in Process : /\ z = Claimant(c, "reauth", reauth[c].claim.token + 1)
                               /\ z.pc = "working" /\ z.cmd = c /\ z.kind = "reauth"
      <3>1. "reauth" \in Kinds /\ reauth[c].claim.token + 1 \in Nat
        BY <1>1 DEF Kinds
      <3> QED
        BY <1>1, <3>1, ClaimantProcess
    <2>5. proc' = [proc EXCEPT ![w] = z]
      BY <1>4, <2>4 DEF ReauthClaim, Claimant
    <2>6. "reauth" \in Kinds
      BY DEF Kinds
    <2>7. proc' \in [Workers -> Process] /\ NoNewSender /\ \A v \in Workers : ProcessSound(v)'
      BY <1>1, <2>4, <2>5, <2>6, ProcessMove
    <2>8. UNCHANGED <<now, cmd, step, claim, query, exposure, safetyVars, venueVars>>
      BY <1>4 DEF ReauthClaim
    <2> QED
      BY <1>3, <2>2, <2>3, <2>7, <2>8, ReauthStep
  <1>5. CASE ReauthSigning(w, c)
    <2>1. PICK x \in ReauthRow : /\ x = [reauth[c] EXCEPT !.signing = TRUE]
                                 /\ x.state = reauth[c].state /\ x.sent = Never
      BY <1>1, <1>3, ReauthSigned
    <2>2. reauth' = [reauth EXCEPT ![c] = x]
      BY <1>5, <2>1 DEF ReauthSigning
    <2>3. proc' \in [Workers -> Process] /\ NoNewSender /\ \A v \in Workers : ProcessSound(v)'
      BY <1>5, ProcessesAlone DEF ReauthSigning
    <2>4. UNCHANGED <<now, cmd, step, claim, query, exposure, safetyVars, venueVars>>
      BY <1>5 DEF ReauthSigning
    <2> QED
      BY <1>3, <2>1, <2>2, <2>3, <2>4, ReauthStep
  <1>6. CASE ReauthPrepare(w, c)
    <2>1. PICK x \in ReauthRow : /\ x = ReauthMoved(reauth[c], "prepared")
                                 /\ x.state = "prepared" /\ x.sent = Never
      <3>1. "prepared" \in ReauthStates
        BY DEF ReauthStates
      <3> QED
        BY <1>1, <1>3, <3>1, ReauthWritten
    <2>2. reauth' = [reauth EXCEPT ![c] = x]
      BY <1>6, <2>1 DEF ReauthPrepare, ReauthMoved
    <2>3. proc' \in [Workers -> Process] /\ NoNewSender /\ \A v \in Workers : ProcessSound(v)'
      BY <1>6, ProcessesAlone DEF ReauthPrepare
    <2>4. UNCHANGED <<now, cmd, step, claim, query, exposure, safetyVars, venueVars>>
      BY <1>6 DEF ReauthPrepare
    <2> QED
      BY <1>3, <2>1, <2>2, <2>3, <2>4, ReauthStep
  <1>7. CASE ReauthAuthorize(w, c)
    <2>1. PICK x \in ReauthRow : x = ReauthSent(reauth[c], now) /\ x.state = "sending"
      <3>1. "sending" \in ReauthStates
        BY DEF ReauthStates
      <3> QED
        BY <1>1, <3>1, ReauthWritten
    <2>2. reauth' = [reauth EXCEPT ![c] = x]
      BY <1>7, <2>1 DEF ReauthAuthorize, ReauthSent
    <2>3. PICK u \in Deadline : u = SmallerOf(reauth[c].expiry, reauth[c].claim.lease)
      BY <1>1 DEF SmallerOf
    <2>4. PICK z \in Process : /\ z = SendingProcess(proc[w], now, u)
                               /\ z.pc = "sending" /\ z.cmd = c /\ z.kind = "reauth"
      <3>1. proc[w].cmd = c /\ proc[w].kind = "reauth"
        BY <1>7 DEF ReauthAuthorize, HoldsReauth
      <3> QED
        BY <1>1, <3>1, SendingRow
    <2>5. proc' = [proc EXCEPT ![w] = z]
      BY <1>7, <2>3, <2>4 DEF ReauthAuthorize, SendingProcess
    <2>6. "reauth" \in Kinds /\ "reauth" \notin Phases
      BY DEF Kinds, Phases
    <2>7. proc' \in [Workers -> Process] /\ NoNewSender /\ \A v \in Workers : ProcessSound(v)'
      BY <1>1, <2>4, <2>5, <2>6, ProcessMove
    <2>8. UNCHANGED <<now, cmd, step, claim, query, exposure, safetyVars, venueVars>>
      BY <1>7 DEF ReauthAuthorize
    <2> QED
      BY <1>3, <2>1, <2>2, <2>7, <2>8, ReauthStep
  <1> QED
    BY <1>4, <1>5, <1>6, <1>7

\* A successor that gives its claim up, halted or to be reconciled.
LEMMA ReauthLeaves ==
    ASSUME QualInv, NEW c \in Canaries, ReauthActive(c), NEW s \in {"halted", "reconciling"},
           NEW t \in Stamp, reauth' = ReauthTo(c, s, t),
           proc' \in [Workers -> Process], NoNewSender, \A w \in Workers : ProcessSound(w)',
           UNCHANGED <<now, cmd, step, claim, query, exposure, safetyVars, venueVars>>
    PROVE  QualInv'
  <1>1. reauth[c] \in ReauthRow /\ s \in ReauthStates
    BY DEF QualInv, QualTypeOK, ReauthStates
  <1>2. PICK x \in ReauthRow : x = ReauthLeft(reauth[c], s, t) /\ x.state = s
    BY <1>1, FreeClaim, ReauthWritten
  <1>3. reauth' = [reauth EXCEPT ![c] = x]
    BY <1>2 DEF ReauthTo, ReauthLeft
  <1> QED
    BY <1>2, <1>3, ReauthStep

\* record_transport_result, normalize_expired and halt_proven_unsent_for_deadline.
LEMMA ReauthLeaveKeeps ==
    ASSUME QualInv, NEW c \in Canaries,
           ReauthNormalize(c) \/ ReauthHalt(c) \/ \E w \in Workers : ReauthRecord(w, c)
    PROVE  QualInv'
  <1>1. reauth[c].sent \in Stamp
    BY DEF QualInv, QualTypeOK, ReauthRow
  <1>2. CASE ReauthNormalize(c)
    <2>1. /\ ReauthActive(c)
          /\ UNCHANGED <<now, cmd, step, claim, query, exposure, safetyVars, venueVars>>
      BY <1>2 DEF ReauthNormalize, ReauthActive
    <2>2. proc' \in [Workers -> Process] /\ NoNewSender /\ \A v \in Workers : ProcessSound(v)'
      BY <1>2, ProcessesAlone DEF ReauthNormalize
    <2>3. PICK s \in {"halted", "reconciling"} : reauth' = ReauthTo(c, s, reauth[c].sent)
      BY <1>2 DEF ReauthNormalize
    <2> QED
      BY <1>1, <2>1, <2>2, <2>3, ReauthLeaves
  <1>3. CASE ReauthHalt(c)
    <2>1. /\ ReauthActive(c) /\ reauth' = ReauthTo(c, "halted", reauth[c].sent)
          /\ UNCHANGED <<now, cmd, step, claim, query, exposure, safetyVars, venueVars>>
      BY <1>3 DEF ReauthHalt, ReauthActive
    <2>2. proc' \in [Workers -> Process] /\ NoNewSender /\ \A v \in Workers : ProcessSound(v)'
      BY <1>3, ProcessesAlone DEF ReauthHalt
    <2> QED
      BY <1>1, <2>1, <2>2, ReauthLeaves
  <1>4. ASSUME NEW w \in Workers, ReauthRecord(w, c) PROVE QualInv'
    <2>1. proc' \in [Workers -> Process] /\ NoNewSender /\ \A v \in Workers : ProcessSound(v)'
      BY <1>4, IdleProcess, ProcessMove DEF ReauthRecord
    <2>2. UNCHANGED <<now, cmd, step, claim, query, exposure, safetyVars, venueVars>>
      BY <1>4 DEF ReauthRecord
    <2>3. CASE reauth[c].state = "sending"
      <3>1. ReauthActive(c) /\ reauth' = ReauthTo(c, "reconciling", proc[w].at)
        BY <1>4, <2>3 DEF ReauthRecord, ReauthActive
      <3>2. proc[w].at \in Stamp
        BY DEF QualInv, QualTypeOK, Process, Stamp
      <3> QED
        BY <2>1, <2>2, <3>1, <3>2, ReauthLeaves
    <2>4. CASE reauth[c].state # "sending"
      <3>1. reauth' = reauth /\ proc' = [proc EXCEPT ![w] = Idle]
        BY <1>4, <2>4 DEF ReauthRecord
      <3> QED
        BY <2>2, <3>1, IdleProcess, ProcessStep DEF storeVars
    <2> QED
      BY <2>3, <2>4
  <1> QED
    BY <1>2, <1>3, <1>4

\* finish_terminal_reconciliation of the successor.
LEMMA ReauthFinishKeeps ==
    ASSUME QualInv, NEW c \in Canaries, ReauthFinish(c)
    PROVE  QualInv'
  <1> DEFINE success == order[c].status = "canceled" /\ position = 0 /\ OpenOrders = {}
  <1>1. /\ UNCHANGED <<now, step, claim, query, incident, recovery, proc, net, order, position>>
        /\ reauth[c].state = "reconciling" /\ cmd[c].state = "halted" /\ ~cmd[c].released
    BY DEF ReauthFinish, safetyVars, venueVars
  <1>2. /\ QualTypeOK /\ position \in Nat /\ c \in Commands /\ cmd[c] \in CommandRow
        /\ reauth[c] \in ReauthRow /\ SuccessorSound(c) /\ WireSound(c)
        /\ exposure \in 0 .. MaxReserved
    BY PhaseFacts DEF QualInv, QualTypeOK
  <1>3. ReauthActive(c) /\ step[c]["cancel"].sent = Never
    BY <1>1, <1>2 DEF ReauthActive, SuccessorSound
  <1>4. PICK s \in {"terminal", "halted"} : reauth' = [reauth EXCEPT ![c] = ReauthMoved(reauth[c], s)]
    <2>1. CASE success
      <3>1. reauth' = [reauth EXCEPT ![c] = ReauthMoved(reauth[c], "terminal")]
        BY <2>1 DEF ReauthFinish, ReauthMoved
      <3> QED
        BY <3>1
    <2>2. CASE ~success
      <3>1. reauth' = [reauth EXCEPT ![c] = ReauthMoved(reauth[c], "halted")]
        BY <2>2 DEF ReauthFinish, ReauthMoved
      <3> QED
        BY <3>1
    <2> QED
      BY <2>1, <2>2
  <1>5. PICK x \in ReauthRow : x = ReauthMoved(reauth[c], s) /\ x.state = s
    <2>1. s \in ReauthStates /\ Never \in Stamp
      BY DEF ReauthStates, Stamp
    <2> QED
      BY <1>2, <2>1, FreeClaim, ReauthWritten
  <1>6. /\ reauth' \in [Canaries -> ReauthRow] /\ reauth'[c] = x
        /\ \A d \in Canaries \ {c} : reauth'[d] = reauth[d]
    BY <1>2, <1>4, <1>5 DEF QualTypeOK
  <1>7. \A d \in Canaries : ReauthActive(d)' => ReauthActive(d)
    BY <1>3, <1>6 DEF ReauthActive
  <1>8. (\A w \in Workers : ProcessSound(w)') /\ NoNewSender
    BY <1>1, ProcessesAlone
  <1>9. CASE ~success
    <2>1. cmd' = [cmd EXCEPT ![c].released = FALSE] /\ exposure' = exposure
      BY <1>9, Zenon DEF ReauthFinish
    <2>2. cmd' = cmd
      <3>1. cmd[c].released = FALSE
        BY <1>1, <1>2 DEF CommandRow
      <3>2. [cmd[c] EXCEPT !.released = FALSE] = cmd[c]
        BY <1>2, <3>1 DEF CommandRow
      <3> QED
        BY <1>2, <2>1, <3>2 DEF QualTypeOK
    <2>3. reauth' = [reauth EXCEPT ![c] = x]
      BY <1>4, <1>5
    <2>4. proc' \in [Workers -> Process]
      BY <1>1, <1>2 DEF QualTypeOK
    <2>5. UNCHANGED <<now, cmd, step, claim, query, exposure, safetyVars, venueVars>>
      BY <1>1, <2>1, <2>2 DEF safetyVars, venueVars
    <2> QED
      BY <1>3, <1>5, <1>8, <2>3, <2>4, <2>5, ReauthStep
  <1>10. CASE success
    <2>1. cmd' = [cmd EXCEPT ![c].released = TRUE] /\ exposure' = ExposureWithout(c)
      BY <1>10, Zenon DEF ReauthFinish
    <2>2. exposure' = exposure - 1
      BY <1>1, <2>1 DEF ExposureWithout
    <2>3. PICK y \in CommandRow : /\ y = FreedRow(cmd[c], TRUE) /\ y.state = "halted"
                                  /\ y.released = TRUE
      <3>1. TRUE \in BOOLEAN
        OBVIOUS
      <3>2. /\ FreedRow(cmd[c], TRUE) \in CommandRow /\ FreedRow(cmd[c], TRUE).state = "halted"
            /\ FreedRow(cmd[c], TRUE).released = (cmd[c].released \/ TRUE)
        BY <1>1, <1>2, <3>1, Freed
      <3> QED
        BY <3>2
    <2>4. cmd' = [cmd EXCEPT ![c] = y]
      BY <2>1, <2>3 DEF FreedRow
    <2>5. /\ cmd' \in [Commands -> CommandRow] /\ cmd'[c] = y
          /\ \A d \in Commands \ {c} : cmd'[d] = cmd[d]
      BY <1>2, <2>4, CommandWritten
    <2>6. exposure' \in 0 .. MaxReserved
      <3>1. exposure = 1
        BY <1>1 DEF QualInv, OneReservation
      <3> QED
        BY <2>2, <3>1, QualificationAssumption
    <2>7. QualTypeOK'
      BY <1>1, <1>2, <1>6, <2>5, <2>6 DEF QualTypeOK
    <2>8. \A d \in Commands : Active(d)' <=> Active(d)
      BY <1>1, <2>3, <2>5 DEF Active
    <2>9. ASSUME NEW d \in Commands
          PROVE  CommandSound(d)' /\ StepSound(d)' /\ ReadSound(d)' /\ RowKept(d)
      <3>1. CommandSound(d) /\ StepSound(d) /\ ReadSound(d)
        BY DEF QualInv
      <3>2. CASE d # c
        BY <1>1, <2>5, <3>1, <3>2 DEF CommandSound, StepSound, ReadSound, RowKept, Active, Step
      <3>3. CASE d = c
        <4>1. cmd'[c].state = "halted" /\ cmd'[c].released
          BY <2>3, <2>5
        <4> QED
          BY <1>1, <2>8, <3>1, <3>3, <4>1 DEF CommandSound, StepSound, ReadSound, RowKept, Active
      <3> QED
        BY <3>2, <3>3
    <2>10. ASSUME NEW d \in Canaries PROVE SuccessorSound(d)'
      <3>1. SuccessorSound(d) /\ d \in Commands
        BY PhaseFacts DEF QualInv
      <3>2. CASE d # c
        BY <1>1, <1>6, <2>5, <3>1, <3>2 DEF SuccessorSound
      <3>3. CASE d = c
        BY <1>1, <1>3, <1>5, <1>6, <2>3, <2>5, <3>3 DEF SuccessorSound
      <3> QED
        BY <3>2, <3>3
    <2>11. RowsSound' /\ \A d \in Commands : RowKept(d)
      BY <2>9, <2>10 DEF RowsSound
    <2>12. ~Away("place", c) /\ order[c].status # "open" /\ position = 0
      BY <1>2, <1>10 DEF WireSound
    <2>13. \A d \in Canaries \ {c} : cmd'[d].released = cmd[d].released
      BY <2>5, PhaseFacts
    <2>14. cmd'[c].released
      BY <2>3, <2>5
    <2> QED
      BY <1>1, <1>7, <1>8, <2>2, <2>7, <2>11, <2>12, <2>13, <2>14, ReleaseStep
  <1> QED
    BY <1>9, <1>10

(***************************************************************************)
(* A recovery preempts what is alive.                                      *)
(***************************************************************************)

\* The row of a preempted command.
PreemptedRow(x) == [x EXCEPT !.state = "halted", !.phase = "halted"]

\* Its fields.
LEMMA PreemptedRows ==
    ASSUME NEW x \in CommandRow
    PROVE  /\ PreemptedRow(x) \in CommandRow /\ PreemptedRow(x).state = "halted"
           /\ PreemptedRow(x).released = x.released
  BY DEF CommandRow, PreemptedRow

\* A preempted step keeps the instant of its send, and is called unsent only
\* when it was not authorized.
LEMMA PreemptedSteps ==
    ASSUME QualInv, NEW c \in Commands, NEW p \in Phases
    PROVE  /\ PreemptedStep(c, p) \in StepRow /\ PreemptedStep(c, p).sent = step[c][p].sent
           /\ PreemptedStep(c, p).state \in Unsent => step[c][p].state \in Unsent
  <1>1. step[c][p] \in StepRow
    BY Rows DEF QualInv
  <1>2. CASE ~(Active(c) /\ p = cmd[c].phase)
    <2>1. PreemptedStep(c, p) = step[c][p]
      BY <1>2 DEF PreemptedStep
    <2> QED
      BY <1>1, <2>1
  <1>3. CASE Active(c) /\ p = cmd[c].phase
    <2>1. CASE step[c][p].state \in {"ready", "claimed"}
      <3>1. PICK y \in StepRow : /\ y = [step[c][p] EXCEPT !.state = "terminal_unsent"]
                                 /\ y.sent = step[c][p].sent
        <4>1. "terminal_unsent" \in SendStates
          BY DEF SendStates
        <4> QED
          BY <1>1, <4>1, StepMovedTo
      <3>2. PreemptedStep(c, p) = y
        BY <1>1, <1>3, <2>1, <3>1 DEF PreemptedStep, StepRow
      <3>3. step[c][p].state \in Unsent
        BY <2>1 DEF Unsent
      <3> QED
        BY <3>1, <3>2, <3>3
    <2>2. CASE step[c][p].state \notin {"ready", "claimed"}
      <3>1. PICK y \in StepRow : /\ y = [step[c][p] EXCEPT !.state = "presumed_sent"]
                                 /\ y.state = "presumed_sent" /\ y.sent = step[c][p].sent
        <4>1. "presumed_sent" \in SendStates
          BY DEF SendStates
        <4> QED
          BY <1>1, <4>1, StepMovedTo
      <3>2. PreemptedStep(c, p) = y
        BY <1>1, <1>3, <2>2, <3>1 DEF PreemptedStep, StepRow
      <3>3. y.state \notin Unsent
        BY <3>1 DEF Unsent
      <3> QED
        BY <3>1, <3>2, <3>3
    <2> QED
      BY <2>1, <2>2
  <1> QED
    BY <1>2, <1>3

\* queue_recovery.
LEMMA QueueRecoveryKeeps ==
    ASSUME QualInv, QueueRecovery
    PROVE  QualInv'
  <1>1. UNCHANGED <<now, query, exposure, incident, proc, net, order, position>> /\ recovery' = TRUE
    BY DEF QueueRecovery, venueVars
  <1>2. QualTypeOK /\ position \in Nat
    BY DEF QualInv, QualTypeOK
  <1>3. ASSUME NEW c \in Commands
        PROVE  /\ cmd'[c] \in CommandRow /\ cmd'[c].released = cmd[c].released
               /\ Active(c) => cmd'[c].state = "halted"
               /\ ~Active(c) => cmd'[c] = cmd[c]
    <2>1. CASE Active(c)
      <3>1. cmd'[c] = PreemptedRow(cmd[c])
        BY <2>1 DEF QueueRecovery, PreemptedRow
      <3> QED
        BY <1>2, <2>1, <3>1, Rows, PreemptedRows
    <2>2. CASE ~Active(c)
      <3>1. cmd'[c] = cmd[c]
        BY <2>2 DEF QueueRecovery
      <3> QED
        BY <1>2, <2>2, <3>1, Rows
    <2> QED
      BY <2>1, <2>2
  <1>4. ASSUME NEW c \in Commands, NEW p \in Phases
        PROVE  /\ step'[c][p] \in StepRow /\ step'[c][p].sent = step[c][p].sent
               /\ step'[c][p].state \in Unsent => step[c][p].state \in Unsent
    <2>1. step'[c][p] = PreemptedStep(c, p)
      BY DEF QueueRecovery
    <2> QED
      BY <2>1, PreemptedSteps
  <1>5. ASSUME NEW c \in Canaries
        PROVE  /\ reauth'[c] \in ReauthRow
               /\ ReauthActive(c) => reauth'[c].state = "halted"
               /\ ~ReauthActive(c) => reauth'[c] = reauth[c]
    <2>1. reauth[c] \in ReauthRow /\ reauth[c].sent \in Stamp
      BY <1>2 DEF QualTypeOK, ReauthRow
    <2>2. CASE ReauthActive(c)
      <3>1. ReauthTo(c, "halted", reauth[c].sent)[c] = ReauthLeft(reauth[c], "halted", reauth[c].sent)
        BY <1>2 DEF ReauthTo, ReauthLeft, QualTypeOK
      <3>2. reauth'[c] = ReauthLeft(reauth[c], "halted", reauth[c].sent)
        BY <2>2, <3>1 DEF QueueRecovery
      <3>3. "halted" \in ReauthStates
        BY DEF ReauthStates
      <3> QED
        BY <2>1, <2>2, <3>2, <3>3, FreeClaim, ReauthWritten
    <2>3. CASE ~ReauthActive(c)
      <3>1. reauth'[c] = reauth[c]
        BY <2>3 DEF QueueRecovery
      <3> QED
        BY <2>1, <2>3, <3>1
    <2> QED
      BY <2>2, <2>3
  <1>6. QualTypeOK'
    <2>1. cmd' \in [Commands -> CommandRow]
      <3>1. cmd' = [c \in Commands |-> cmd'[c]]
        BY DEF QueueRecovery
      <3> QED
        BY <1>3, <3>1
    <2>2. step' \in [Commands -> [Phases -> StepRow]]
      <3>1. step' = [c \in Commands |-> [p \in Phases |-> PreemptedStep(c, p)]]
        BY DEF QueueRecovery
      <3> QED
        BY <3>1, PreemptedSteps
    <2>3. claim' \in [Commands -> Claims]
      BY <1>2, FreeClaim DEF QueueRecovery, QualTypeOK
    <2>4. reauth' \in [Canaries -> ReauthRow]
      <3>1. reauth' = [c \in Canaries |-> reauth'[c]]
        BY DEF QueueRecovery
      <3> QED
        BY <1>5, <3>1
    <2> QED
      BY <1>1, <1>2, <2>1, <2>2, <2>3, <2>4 DEF QualTypeOK
  <1>7. \A c \in Commands : ~Active(c)'
    BY <1>3 DEF Active
  <1>8. \A c \in Canaries : ~ReauthActive(c)'
    BY <1>5 DEF ReauthActive
  <1>9. Exclusive'
    BY <1>7, <1>8 DEF Exclusive
  <1>10. ASSUME NEW c \in Commands
         PROVE  CommandSound(c)' /\ StepSound(c)' /\ ReadSound(c)' /\ RowQuiet(c) /\ OrderQuiet(c)
    <2>1. CommandSound(c) /\ StepSound(c) /\ ReadSound(c)
      BY DEF QualInv
    <2>2. cmd'[c].state \notin {"queued", "claimed", "reconciling"}
      BY <1>7 DEF Active
    <2>3. cmd'[c].state = "none" => cmd[c].state = "none"
      BY <1>3
    <2>4. CommandSound(c)'
      BY <1>3, <1>7, <2>1, <2>2 DEF CommandSound
    <2>5. StepSound(c)'
      BY <1>4, <1>7, <2>1, <2>2, <2>3 DEF StepSound
    <2>6. ReadSound(c)'
      BY <1>1, <2>1, <2>2, <2>3 DEF ReadSound
    <2>7. RowQuiet(c) /\ OrderQuiet(c)
      BY <1>1, <1>3, <1>4, <1>7 DEF RowQuiet, RowKept, OrderQuiet
    <2> QED
      BY <2>4, <2>5, <2>6, <2>7
  <1>11. ASSUME NEW c \in Canaries PROVE SuccessorSound(c)'
    <2>1. SuccessorSound(c) /\ c \in Commands
      BY PhaseFacts DEF QualInv
    <2>2. step'[c]["cancel"].sent = step[c]["cancel"].sent
      BY <1>4, <2>1, PhaseFacts
    <2>3. cmd[c].state = "halted" => cmd'[c].state = "halted"
      BY <1>3, <2>1
    <2> QED
      BY <1>5, <2>1, <2>2, <2>3 DEF SuccessorSound, ReauthActive
  <1>12. RowsSound'
    BY <1>10, <1>11 DEF RowsSound
  <1>13. (\A w \in Workers : ProcessSound(w)') /\ NoNewSender
    BY <1>1, ProcessesAlone
  <1> QED
    BY <1>1, <1>2, <1>6, <1>9, <1>10, <1>12, <1>13, QuietRows

(***************************************************************************)
(* The invariant, and what it says of the lane.                            *)
(***************************************************************************)

\* Nothing is admitted, sent or held at first.
LEMMA QualInitInv == QualInit => QualInv
  <1> SUFFICES ASSUME QualInit PROVE QualInv
    OBVIOUS
  <1>1. /\ \A c \in Commands : cmd[c].state = "none" /\ cmd[c].phase = "none" /\ cmd[c].released = TRUE
        /\ \A c \in Commands : \A p \in Phases : step[c][p] = NoStep
        /\ \A c \in Commands : query[c]["terminal"] = NoReport
        /\ \A c \in Canaries : reauth[c] = NoReauth
        /\ \A w \in Workers : proc[w] = Idle
        /\ \A c \in Commands : order[c].status = "none"
        /\ exposure = 0 /\ recovery = FALSE /\ net = {} /\ position = 0
    BY DEF QualInit, QueryKinds
  <1>2. /\ NoStep.sent = Never /\ NoReport.status = "none" /\ NoReauth.state = "none"
        /\ NoReauth.sent = Never /\ Idle.pc = "idle"
    BY EmptyReport, IdleProcess DEF NoStep, NoReauth
  <1>3. QualTypeOK
    <2>1. 0 \in Time /\ 0 \in Deadline /\ 0 \in 0 .. MaxReserved /\ Never \in Stamp
      BY QualificationAssumption DEF Time, Deadline, Stamp
    <2>2. /\ "none" \in Workflows /\ "none" \in SendStates /\ "none" \in Statuses
          /\ FALSE \in BOOLEAN /\ TRUE \in BOOLEAN
      BY DEF Workflows, SendStates, Statuses
    <2>3. NoStep \in StepRow
      BY <2>1, <2>2 DEF NoStep, StepRow
    <2>4. NoReauth \in ReauthRow
      BY <2>1, FreeClaim DEF NoReauth, ReauthRow
    <2>5. cmd \in [Commands -> CommandRow]
      <3>1. [state |-> "none", phase |-> "none", wf |-> "none", released |-> TRUE, quantity |-> 0]
              \in CommandRow
        BY <2>2 DEF CommandRow
      <3> QED
        BY <3>1 DEF QualInit
    <2>6. order \in [Commands -> OrderRow]
      BY <2>1, <2>2 DEF QualInit, OrderRow
    <2> QED
      BY <2>1, <2>2, <2>3, <2>4, <2>5, <2>6, FreeClaim, EmptyReport, IdleProcess
         DEF QualInit, QualTypeOK
  <1>4. \A c \in Commands : ~Active(c)
    BY <1>1 DEF Active
  <1>5. \A c \in Canaries : ~ReauthActive(c)
    BY <1>1, <1>2 DEF ReauthActive
  <1>6. \A c \in Commands : CommandSound(c) /\ StepSound(c) /\ ReadSound(c) /\ CloseSound(c)
    BY <1>1, <1>2, <1>4 DEF CommandSound, StepSound, ReadSound, CloseSound
  <1>7. \A c \in Canaries : SuccessorSound(c)
    BY <1>1, <1>2 DEF SuccessorSound
  <1>8. \A p, c : ~Away(p, c) /\ \A w \in Workers : ~Sender(w, p, c)
    BY <1>1, <1>2 DEF Away, Sender
  <1>9. \A c \in Commands : WireSound(c)
    BY <1>1, <1>8 DEF WireSound
  <1>10. (\A c \in Canaries : Covered(c)) /\ PositionCovered /\ OneReservation
    BY <1>1, <1>8, PhaseFacts DEF Covered, PositionCovered, OneReservation
  <1>11. \A w \in Workers : ProcessSound(w)
    BY <1>1, <1>2 DEF ProcessSound
  <1>12. Exclusive
    BY <1>1, <1>4, <1>5 DEF Exclusive
  <1> QED
    BY <1>3, <1>6, <1>7, <1>9, <1>10, <1>11, <1>12 DEF QualInv

\* A step that changes nothing.
LEMMA QualStutter ==
    ASSUME QualInv, UNCHANGED qualVars
    PROVE  QualInv'
  BY NetStep DEF qualVars, venueVars

\* Every step keeps the invariant.
LEMMA QualNextInv ==
    ASSUME QualInv, [QualNext]_qualVars
    PROVE  QualInv'
  <1>1. CASE Tick \/ QueueRecovery \/ OpenIncident \/ CloseIncident \/ EndRecovery
    BY <1>1, TickKeeps, QueueRecoveryKeeps, SafetyKeeps
  <1>2. ASSUME NEW c \in Commands,
               \/ AdmitCanary(c) \/ AdmitClose(c) \/ HaltQueued(c) \/ Normalize(c)
               \/ ReadByCloid(c) \/ ReadByOid(c) \/ AdvanceOpen(c)
               \/ ReadTerminal(c) \/ Finish(c) \/ Fill(c) \/ VenueCancel(c)
               \/ \E k \in Kinds : Deliver(k, c) \/ Drop(k, c)
        PROVE  QualInv'
    BY <1>2, AdmitCanaryKeeps, AdmitCloseKeeps, HaltKeeps, NormalizeKeeps, ReadKeeps, AdvanceKeeps,
       FinishKeeps, FillKeeps, VenueCancelKeeps, DeliverKeeps, DropKeeps
  <1>3. ASSUME NEW c \in Commands, NEW w \in Workers,
               \/ Claim(w, c) \/ RequireSigning(w, c) \/ Prepare(w, c)
               \/ Authorize(w, c) \/ Record(w, c) \/ HaltUnsent(w, c)
        PROVE  QualInv'
    BY <1>3, ClaimKeeps, SigningKeeps, AuthorizeKeeps, RecordKeeps, HaltKeeps
  <1>4. ASSUME NEW c \in Canaries,
               AdmitReauth(c) \/ ReauthNormalize(c) \/ ReauthHalt(c) \/ ReauthFinish(c)
        PROVE  QualInv'
    BY <1>4, AdmitReauthKeeps, ReauthLeaveKeeps, ReauthFinishKeeps
  <1>5. ASSUME NEW c \in Canaries, NEW w \in Workers,
               \/ ReauthClaim(w, c) \/ ReauthSigning(w, c) \/ ReauthPrepare(w, c)
               \/ ReauthAuthorize(w, c) \/ ReauthRecord(w, c)
        PROVE  QualInv'
    BY <1>5, ReauthSendKeeps, ReauthLeaveKeeps
  <1>6. ASSUME NEW w \in Workers, Post(w) \/ SkipPost(w) \/ Crash(w)
        PROVE  QualInv'
    BY <1>6, PostKeeps, CrashKeeps
  <1>7. CASE UNCHANGED qualVars
    BY <1>7, QualStutter
  <1> QED
    BY <1>1, <1>2, <1>3, <1>4, <1>5, <1>6, <1>7 DEF QualNext

\* The inductive invariant holds.
THEOREM QualInvariant == QualSpec => []QualInv
  BY QualInitInv, QualNextInv, PTL DEF QualSpec

\* The rows of the lane and of the venue keep their types.
THEOREM QualTypeCorrect == QualSpec => []QualTypeOK
  <1>1. QualInv => QualTypeOK
    BY DEF QualInv
  <1> QED
    BY <1>1, QualInvariant, PTL

\* What is in flight is away.
LEMMA FlightIsAway ==
    ASSUME NEW k, NEW c, InFlight(k, c)
    PROVE  Away(k, c)
  BY DEF InFlight, Away, Sender

\* The reservation of a canary outlives every way in which it can still hurt,
\* for any number of canaries, closes and processes.
THEOREM ReservationOutlivesExposure == QualSpec => []ReservedWhileExposed
  <1>1. QualInv => ReservedWhileExposed
    <2> SUFFICES ASSUME QualInv PROVE ReservedWhileExposed
      OBVIOUS
    <2>1. ASSUME NEW c \in Canaries, order[c].status = "open" \/ InFlight("place", c)
          PROVE  ~cmd[c].released
      BY <2>1, FlightIsAway DEF QualInv, Covered
    <2>2. position > 0 => \E c \in Canaries : ~cmd[c].released
      BY DEF QualInv, PositionCovered
    <2> QED
      BY <2>1, <2>2 DEF ReservedWhileExposed
  <1> QED
    BY <1>1, QualInvariant, PTL

\* The account's reserved exposure is the sum of the reservations that are not
\* released.
THEOREM ExposureIsExact == QualSpec => []ExposureExact
  <1>1. QualInv => ExposureExact
    <2> SUFFICES ASSUME QualInv PROVE ExposureExact
      OBVIOUS
    <2> DEFINE S == {c \in Canaries : ~cmd[c].released}
    <2>1. OneReservation
      BY DEF QualInv
    <2>2. CASE S = {}
      <3>1. exposure = 0
        BY <2>1, <2>2 DEF OneReservation
      <3>2. Cardinality(S) = 0
        BY <2>2, FS_EmptySet
      <3> QED
        BY <3>1, <3>2 DEF ExposureExact
    <2>3. CASE S # {}
      <3>1. PICK c \in Canaries : ~cmd[c].released
        BY <2>3
      <3>2. S = {c} /\ exposure = 1
        BY <2>1, <3>1 DEF OneReservation
      <3>3. Cardinality(S) = 1
        BY <3>2, FS_Singleton
      <3> QED
        BY <3>2, <3>3 DEF ExposureExact
    <2> QED
      BY <2>2, <2>3
  <1> QED
    BY <1>1, QualInvariant, PTL

\* A set of at most one element.
LEMMA AtMostOne ==
    ASSUME NEW S, \A x, y \in S : x = y
    PROVE  Cardinality(S) = IF S = {} THEN 0 ELSE 1
  <1>1. CASE S = {}
    BY <1>1, FS_EmptySet
  <1>2. CASE S # {}
    <2>1. PICK x \in S : TRUE
      BY <1>2
    <2>2. S = {x}
      BY <2>1
    <2>3. Cardinality({x}) = 1
      BY FS_Singleton
    <2> QED
      BY <1>2, <2>2, <2>3
  <1> QED
    BY <1>1, <1>2

\* Commands, successors and recoveries exclude one another.
THEOREM MutationsExclude == QualSpec => []OneMutationAtATime
  <1>1. QualInv => OneMutationAtATime
    <2> SUFFICES ASSUME QualInv PROVE OneMutationAtATime
      OBVIOUS
    <2> DEFINE A == {c \in Commands : Active(c)}
               R == {c \in Canaries : ReauthActive(c)}
    <2>1. /\ \A x, y \in A : x = y
          /\ \A x, y \in R : x = y
          /\ A = {} \/ R = {}
          /\ recovery => A = {} /\ R = {}
      BY DEF QualInv, Exclusive
    <2>2. Cardinality(A) = (IF A = {} THEN 0 ELSE 1) /\ Cardinality(R) = (IF R = {} THEN 0 ELSE 1)
      <3> HIDE DEF A, R
      <3> QED
        BY <2>1, AtMostOne
    <2>3. Cardinality(A) + Cardinality(R) + (IF recovery THEN 1 ELSE 0) <= 1
      <3> HIDE DEF A, R
      <3> QED
        BY <2>1, <2>2
    <2> QED
      BY <2>3 DEF OneMutationAtATime
  <1> QED
    BY <1>1, QualInvariant, PTL

\* What is recorded unsent was never authorized and is nowhere.
THEOREM UnsentNeverSent == QualSpec => []UnsentWasNeverSent
  <1>1. QualInv => UnsentWasNeverSent
    <2> SUFFICES ASSUME QualInv, NEW c \in Commands, NEW p \in Phases,
                        step[c][p].state = "terminal_unsent"
                 PROVE  step[c][p].sent = Never /\ ~InFlight(p, c)
      BY DEF UnsentWasNeverSent
    <2>1. step[c][p].state \in Unsent
      BY DEF Unsent
    <2>2. step[c][p].sent = Never
      BY <2>1 DEF QualInv, StepSound
    <2>3. ~Away(p, c)
      BY <2>2 DEF QualInv, WireSound
    <2> QED
      BY <2>2, <2>3, FlightIsAway
  <1> QED
    BY <1>1, QualInvariant, PTL

(***************************************************************************)
(* The point of no return is passed once.                                  *)
(***************************************************************************)

\* No step, and no successor, comes to its submission authority.
NoGrant == \A c \in Commands, p \in Phases :
    step'[c][p].state = "sending" => step[c][p].state = "sending"

NoReauthGrant == \A c \in Canaries :
    reauth'[c].state = "sending" => reauth[c].state = "sending"

\* A step that is written grants nothing unless it is written as sending.
LEMMA StepGrants ==
    ASSUME QualTypeOK, NEW c \in Commands, NEW p \in Phases, NEW y \in StepRow,
           y.state # "sending" \/ y.state = step[c][p].state,
           step' = [step EXCEPT ![c][p] = y]
    PROVE  NoGrant
  <1>1. /\ step'[c][p] = y
        /\ \A q \in Phases \ {p} : step'[c][q] = step[c][q]
        /\ \A d \in Commands \ {c} : step'[d] = step[d]
    BY StepWritten
  <1> QED
    BY <1>1 DEF NoGrant

\* The same of the current step.
LEMMA StateGrants ==
    ASSUME QualInv, NEW c \in Commands, Active(c), NEW s \in SendStates, s # "sending",
           step' = StepTo(c, s)
    PROVE  NoGrant
  <1>1. PICK p \in Phases : cmd[c].phase = p /\ step[c][p] \in StepRow
    BY ActiveRow
  <1>2. PICK y \in StepRow : y = [step[c][p] EXCEPT !.state = s] /\ y.state = s
    <2>1. /\ [step[c][p] EXCEPT !.state = s] \in StepRow
          /\ [step[c][p] EXCEPT !.state = s].state = s
      BY <1>1 DEF StepRow
    <2> QED
      BY <2>1
  <1>3. step' = [step EXCEPT ![c][p] = y]
    BY <1>1, <1>2 DEF StepTo
  <1>4. QualTypeOK /\ y.state # "sending"
    BY <1>2 DEF QualInv
  <1> QED
    BY <1>3, <1>4, StepGrants

\* A step that is presumed sent was not granted again.
LEMMA PresumeGrants ==
    ASSUME QualInv, NEW c \in Commands, Active(c), NEW t \in Stamp, Presume(c, t)
    PROVE  NoGrant
  <1>1. PICK p \in Phases : cmd[c].phase = p /\ step[c][p] \in StepRow
    BY ActiveRow
  <1>2. PICK y \in StepRow : y = SentStep(step[c][p], "presumed_sent", t) /\ y.state = "presumed_sent"
    <2>1. "presumed_sent" \in SendStates
      BY DEF SendStates
    <2> QED
      BY <1>1, <2>1, StepSentTo
  <1>3. step' = [step EXCEPT ![c][p] = y]
    BY <1>1, <1>2 DEF Presume, SentStep
  <1> QED
    BY <1>2, <1>3, StepGrants DEF QualInv

\* Admission and the paired reads grant nothing.
LEMMA AdmissionGrants ==
    ASSUME QualInv, NEW c \in Commands, AdmitCanary(c) \/ AdmitClose(c) \/ AdvanceOpen(c)
    PROVE  NoGrant
  <1>1. QualTypeOK /\ step \in [Commands -> [Phases -> StepRow]]
    BY DEF QualInv, QualTypeOK
  <1>2. ASSUME NEW p \in Phases, step' = [step EXCEPT ![c][p] = Ready]
        PROVE  NoGrant
    BY <1>1, <1>2, ReadyRow, StepGrants
  <1>3. CASE AdmitCanary(c)
    BY <1>2, <1>3, PhaseFacts DEF AdmitCanary, Queue, Ready
  <1>4. CASE AdmitClose(c)
    BY <1>2, <1>4, PhaseFacts DEF AdmitClose, Queue, Ready
  <1>5. CASE AdvanceOpen(c)
    <2> DEFINE placed == [step EXCEPT ![c]["place"].state = "reconciled"]
    <2>1. \A d \in Commands, q \in Phases :
             placed[d][q].state = "sending" => step[d][q].state = "sending"
      BY <1>1, PhaseFacts DEF StepRow
    <2>2. placed \in [Commands -> [Phases -> StepRow]]
      BY <1>1, PhaseFacts DEF StepRow, SendStates
    <2>3. step' = placed \/ step' = [placed EXCEPT ![c]["cancel"] = Ready]
      BY <1>5, Zenon DEF AdvanceOpen, Ready
    <2> HIDE DEF placed
    <2>4. CASE step' = placed
      BY <2>1, <2>4 DEF NoGrant
    <2>5. CASE step' = [placed EXCEPT ![c]["cancel"] = Ready]
      <3>1. Ready.state = "ready" /\ "cancel" \in Phases
        BY <1>1, ReadyRow, PhaseFacts
      <3>2. \A d \in Commands, q \in Phases :
               step'[d][q].state = "sending" => placed[d][q].state = "sending"
        BY <2>2, <2>5, <3>1
      <3> QED
        BY <2>1, <3>2 DEF NoGrant
    <2> QED
      BY <2>3, <2>4, <2>5
  <1> QED
    BY <1>3, <1>4, <1>5

\* Halts, normalization and finishing grant nothing.
LEMMA EndingGrants ==
    ASSUME QualInv, NEW c \in Commands,
           HaltQueued(c) \/ Normalize(c) \/ Finish(c) \/ \E w \in Workers : HaltUnsent(w, c)
    PROVE  NoGrant
  <1>1. Active(c)
    BY DEF HaltQueued, Normalize, Finish, HaltUnsent, HoldsClaim, Active
  <1>2. Step(c).sent \in Stamp
    BY <1>1, ActiveRow DEF StepRow
  <1>3. /\ "terminal_unsent" \in SendStates /\ "ready" \in SendStates /\ "reconciled" \in SendStates
        /\ "terminal_unsent" # "sending" /\ "ready" # "sending" /\ "reconciled" # "sending"
    BY DEF SendStates
  <1>4. \/ step' = StepTo(c, "terminal_unsent") \/ step' = StepTo(c, "ready")
        \/ step' = StepTo(c, "reconciled") \/ Presume(c, Step(c).sent)
    <2>1. CASE HaltQueued(c)
      BY <2>1, Zenon DEF HaltQueued, ConsumeUnsent
    <2>2. CASE Normalize(c)
      BY <2>2, Zenon DEF Normalize, ConsumeUnsent
    <2>3. CASE Finish(c)
      BY <2>3, Zenon DEF Finish
    <2>4. CASE \E w \in Workers : HaltUnsent(w, c)
      BY <2>4, Zenon DEF HaltUnsent, ConsumeUnsent
    <2> QED
      BY <2>1, <2>2, <2>3, <2>4
  <1> QED
    BY <1>1, <1>2, <1>3, <1>4, StateGrants, PresumeGrants

\* Of the steps of one dispatch, only the submission authority grants.
LEMMA DispatchGrants ==
    ASSUME QualInv, NEW c \in Commands, NEW w \in Workers,
           Claim(w, c) \/ RequireSigning(w, c) \/ Prepare(w, c) \/ Record(w, c)
    PROVE  NoGrant
  <1>1. CASE Claim(w, c) \/ Prepare(w, c)
    <2>1. Active(c)
      BY <1>1 DEF Claim, Prepare, HoldsClaim, Active
    <2>2. /\ "claimed" \in SendStates /\ "prepared" \in SendStates
          /\ "claimed" # "sending" /\ "prepared" # "sending"
      BY DEF SendStates
    <2>3. step' = StepTo(c, "claimed") \/ step' = StepTo(c, "prepared")
      BY <1>1, Zenon DEF Claim, Prepare
    <2> QED
      BY <2>1, <2>2, <2>3, StateGrants
  <1>2. CASE RequireSigning(w, c)
    <2>1. Active(c)
      BY <1>2 DEF RequireSigning, HoldsClaim, Active
    <2>2. PICK p \in Phases : cmd[c].phase = p /\ step[c][p] \in StepRow
      BY <2>1, ActiveRow
    <2>3. PICK y \in StepRow : y = [step[c][p] EXCEPT !.signing = TRUE] /\ y.state = step[c][p].state
      BY <2>2, StepSigned
    <2>4. step' = [step EXCEPT ![c][p] = y]
      BY <1>2, <2>2, <2>3 DEF RequireSigning
    <2> QED
      BY <2>3, <2>4, StepGrants DEF QualInv
  <1>3. CASE Record(w, c)
    <2>1. CASE step' = step
      BY <2>1 DEF NoGrant
    <2>2. CASE cmd[c].state = "claimed" /\ Presume(c, proc[w].at)
      <3>1. Active(c) /\ proc[w].at \in Stamp
        BY <2>2 DEF Active, QualInv, QualTypeOK, Process, Stamp
      <3> QED
        BY <2>2, <3>1, PresumeGrants
    <2> QED
      BY <1>3, <2>1, <2>2 DEF Record
  <1> QED
    BY <1>1, <1>2, <1>3

\* A recovery that preempts grants nothing.
LEMMA PreemptionGrants ==
    ASSUME QualInv, QueueRecovery
    PROVE  NoGrant /\ NoReauthGrant
  <1>1. \A c \in Commands, p \in Phases : step[c][p] \in StepRow
    BY Rows DEF QualInv
  <1>2. NoGrant
    <2> SUFFICES ASSUME NEW c \in Commands, NEW p \in Phases, step'[c][p].state = "sending"
                 PROVE  step[c][p].state = "sending"
      BY DEF NoGrant
    <2>1. step'[c][p] = PreemptedStep(c, p)
      BY DEF QueueRecovery
    <2> QED
      BY <1>1, <2>1 DEF PreemptedStep, StepRow
  <1>3. NoReauthGrant
    <2> SUFFICES ASSUME NEW c \in Canaries, ReauthActive(c) PROVE reauth'[c].state = "halted"
      BY DEF NoReauthGrant, QueueRecovery
    <2>1. reauth \in [Canaries -> ReauthRow] /\ reauth[c] \in ReauthRow
      BY DEF QualInv, QualTypeOK
    <2> QED
      BY <2>1 DEF QueueRecovery, ReauthTo, ReauthRow
  <1> QED
    BY <1>2, <1>3

\* Of the steps of a successor, only its submission authority grants.
LEMMA SuccessorGrants ==
    ASSUME QualInv, NEW c \in Canaries,
           \/ AdmitReauth(c) \/ ReauthNormalize(c) \/ ReauthHalt(c) \/ ReauthFinish(c)
           \/ \E w \in Workers : \/ ReauthClaim(w, c) \/ ReauthSigning(w, c)
                                 \/ ReauthPrepare(w, c) \/ ReauthRecord(w, c)
    PROVE  NoReauthGrant
  <1>1. reauth \in [Canaries -> ReauthRow] /\ reauth[c] \in ReauthRow
    BY DEF QualInv, QualTypeOK
  <1>2. ASSUME NEW x, reauth' = [reauth EXCEPT ![c] = x],
               x.state # "sending" \/ x.state = reauth[c].state
        PROVE  NoReauthGrant
    BY <1>1, <1>2 DEF NoReauthGrant
  <1>3. CASE AdmitReauth(c)
    <2>1. reauth' = [reauth EXCEPT ![c] = NewReauth] /\ NewReauth.state = "queued"
      BY <1>3, NewReauthRow DEF AdmitReauth, NewReauth, QualInv
    <2> QED
      BY <1>2, <2>1
  <1>4. ASSUME NEW s \in {"halted", "reconciling"}, NEW t, reauth' = ReauthTo(c, s, t)
        PROVE  NoReauthGrant
    BY <1>1, <1>4 DEF NoReauthGrant, ReauthTo, ReauthRow
  <1>5. CASE ReauthNormalize(c) \/ ReauthHalt(c)
    BY <1>4, <1>5 DEF ReauthNormalize, ReauthHalt
  <1>6. CASE ReauthFinish(c)
    BY <1>1, <1>6 DEF ReauthFinish, NoReauthGrant, ReauthRow
  <1>7. ASSUME NEW w \in Workers, ReauthRecord(w, c) PROVE NoReauthGrant
    <2>1. reauth' = reauth \/ reauth' = ReauthTo(c, "reconciling", proc[w].at)
      BY <1>7 DEF ReauthRecord
    <2>2. CASE reauth' = reauth
      BY <2>2 DEF NoReauthGrant
    <2> QED
      BY <1>4, <2>1, <2>2
  <1>8. ASSUME NEW w \in Workers, ReauthSigning(w, c) \/ ReauthPrepare(w, c) PROVE NoReauthGrant
    BY <1>1, <1>8 DEF ReauthSigning, ReauthPrepare, NoReauthGrant, ReauthRow
  <1>9. ASSUME NEW w \in Workers, ReauthClaim(w, c) PROVE NoReauthGrant
    BY <1>1, <1>9 DEF ReauthClaim, NoReauthGrant, ReauthRow
  <1> QED
    BY <1>3, <1>5, <1>6, <1>7, <1>8, <1>9

\* What GrantedOnce says of one step.
Granted ==
    \A c \in Commands :
      /\ \A p \in Phases :
            step[c][p].state # "sending" /\ step'[c][p].state = "sending" =>
               /\ step[c][p].sent = Never
               /\ c \in Canaries /\ p = "cancel" => reauth[c].sent = Never
      /\ c \in Canaries =>
            (reauth[c].state # "sending" /\ reauth'[c].state = "sending" =>
               reauth[c].sent = Never /\ step[c]["cancel"].sent = Never)

\* The grant of a step: it was never sent, and there is no successor.
LEMMA AuthorizeGrants ==
    ASSUME QualInv, NEW w \in Workers, NEW c \in Commands, Authorize(w, c)
    PROVE  Granted
  <1>1. /\ QualTypeOK /\ cmd[c].state = "claimed" /\ Step(c).state = "prepared" /\ Active(c)
        /\ reauth' = reauth
    BY DEF QualInv, Authorize, HoldsClaim, Active
  <1>2. PICK p \in Phases : cmd[c].phase = p /\ Step(c) = step[c][p] /\ step[c][p] \in StepRow
    BY <1>1, ActiveRow
  <1>3. step[c][p].sent = Never
    BY <1>1, <1>2, ActiveRow DEF Unsent
  <1>4. c \in Canaries => reauth[c].sent = Never
    BY <1>1 DEF QualInv, SuccessorSound
  <1>5. \A d \in Commands, q \in Phases : d # c \/ q # p => step'[d][q] = step[d][q]
    BY <1>1, <1>2 DEF Authorize, QualTypeOK
  <1> QED
    BY <1>1, <1>3, <1>4, <1>5 DEF Granted

\* The grant of a successor: neither it nor the cancel it replaces was sent.
LEMMA ReauthAuthorizeGrants ==
    ASSUME QualInv, NEW w \in Workers, NEW c \in Canaries, ReauthAuthorize(w, c)
    PROVE  Granted
  <1>1. /\ reauth[c].state = "prepared" /\ SuccessorSound(c) /\ step' = step
        /\ \A d \in Canaries \ {c} : reauth'[d] = reauth[d]
    BY DEF QualInv, QualTypeOK, ReauthAuthorize
  <1>2. reauth[c].sent = Never /\ step[c]["cancel"].sent = Never
    BY <1>1 DEF SuccessorSound
  <1> QED
    BY <1>1, <1>2 DEF Granted

\* Every other step grants nothing.
LEMMA OneGrant ==
    ASSUME QualInv, [QualNext]_qualVars
    PROVE  Granted
  <1>1. ASSUME NoGrant, NoReauthGrant PROVE Granted
    BY <1>1 DEF NoGrant, NoReauthGrant, Granted
  <1>2. ASSUME step' = step PROVE NoGrant
    BY <1>2 DEF NoGrant
  <1>3. ASSUME reauth' = reauth PROVE NoReauthGrant
    BY <1>3 DEF NoReauthGrant
  <1>4. CASE Tick \/ OpenIncident \/ CloseIncident \/ EndRecovery \/ UNCHANGED qualVars
    <2>1. step' = step /\ reauth' = reauth
      BY <1>4 DEF Tick, OpenIncident, CloseIncident, EndRecovery, qualVars, storeVars
    <2> QED
      BY <1>1, <1>2, <1>3, <2>1
  <1>5. CASE QueueRecovery
    BY <1>1, <1>5, PreemptionGrants
  <1>6. ASSUME NEW c \in Commands,
               \/ AdmitCanary(c) \/ AdmitClose(c) \/ AdvanceOpen(c)
               \/ HaltQueued(c) \/ Normalize(c) \/ Finish(c)
        PROVE  Granted
    <2>1. reauth' = reauth
      BY <1>6 DEF AdmitCanary, AdmitClose, AdvanceOpen, HaltQueued, Normalize, Finish
    <2> QED
      BY <1>1, <1>3, <1>6, <2>1, AdmissionGrants, EndingGrants
  <1>7. ASSUME NEW c \in Commands,
               \/ ReadByCloid(c) \/ ReadByOid(c) \/ ReadTerminal(c) \/ Fill(c) \/ VenueCancel(c)
               \/ \E k \in Kinds : Deliver(k, c) \/ Drop(k, c)
        PROVE  Granted
    <2>1. step' = step /\ reauth' = reauth
      BY <1>7 DEF ReadByCloid, ReadByOid, ReadTerminal, Retain, Fill, VenueCancel, Deliver, Drop,
                  storeVars
    <2> QED
      BY <1>1, <1>2, <1>3, <2>1
  <1>8. ASSUME NEW c \in Commands, NEW w \in Workers,
               \/ Claim(w, c) \/ RequireSigning(w, c) \/ Prepare(w, c)
               \/ Record(w, c) \/ HaltUnsent(w, c)
        PROVE  Granted
    <2>1. reauth' = reauth
      BY <1>8 DEF Claim, RequireSigning, Prepare, Record, HaltUnsent
    <2> QED
      BY <1>1, <1>3, <1>8, <2>1, DispatchGrants, EndingGrants
  <1>9. ASSUME NEW c \in Canaries,
               \/ AdmitReauth(c) \/ ReauthNormalize(c) \/ ReauthHalt(c) \/ ReauthFinish(c)
               \/ \E w \in Workers : \/ ReauthClaim(w, c) \/ ReauthSigning(w, c)
                                     \/ ReauthPrepare(w, c) \/ ReauthRecord(w, c)
        PROVE  Granted
    <2>1. step' = step
      BY <1>9 DEF AdmitReauth, ReauthNormalize, ReauthHalt, ReauthFinish, ReauthClaim,
                  ReauthSigning, ReauthPrepare, ReauthRecord
    <2> QED
      BY <1>1, <1>2, <1>9, <2>1, SuccessorGrants
  <1>10. ASSUME NEW w \in Workers, Post(w) \/ SkipPost(w) \/ Crash(w)
         PROVE  Granted
    <2>1. step' = step /\ reauth' = reauth
      BY <1>10 DEF Post, SkipPost, Crash, storeVars
    <2> QED
      BY <1>1, <1>2, <1>3, <2>1
  <1> QED
    BY <1>4, <1>5, <1>6, <1>7, <1>8, <1>9, <1>10, AuthorizeGrants, ReauthAuthorizeGrants DEF QualNext

\* No crash, lapsed claim, halt, preemption or second process leads to a second
\* submission authority of a step, nor of a canary's cancel and its successor.
THEOREM AuthorizedOnce == QualSpec => GrantedOnce
  <1>1. QualInv /\ [QualNext]_qualVars => [Granted]_qualVars
    BY OneGrant
  <1> QED
    BY <1>1, QualInvariant, PTL DEF QualSpec, GrantedOnce, Granted
=============================================================================

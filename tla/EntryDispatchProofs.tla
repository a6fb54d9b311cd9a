------------------------- MODULE EntryDispatchProofs -------------------------
(***************************************************************************)
(* Proofs about EntryDispatch, for any number of commands, workers and     *)
(* incidents and any clock bound: the invariant of the store still holds   *)
(* under the dispatcher, and a second invariant relates the steps of the   *)
(* workers, the wire and the venue's book to the rows of the store.        *)
(***************************************************************************)
EXTENDS EntryDispatch, EntryStoreProofs

DispatchSteps ==
    {"idle", "claimed", "preflighted", "keyed", "signed", "prepared", "attested",
     "authorized", "posted", "account_read", "orders_read", "reconciling", "applied"}

HoldRow == [command : Commands \cup {NoCommand}, token : Nat]

ViewRow == [position : Int, covered : Int, orphan : BOOLEAN, at : Int,
            legs : [Roles -> LegRow], complete : BOOLEAN]

DispatchTypeOK ==
    /\ pc \in [Workers -> DispatchSteps]
    /\ held \in [Workers -> HoldRow]
    /\ view \in [Workers -> ViewRow]
    /\ wire \in [Commands -> {"unsent", "flying", "landed", "refused", "lost"}]
    /\ sends \in [Commands -> Nat]
    /\ reply \in [Commands -> [Roles -> LegRow]]
    /\ book \in [Commands -> [Roles -> LegRow]]

\* A call is about a command, under a fence the store has issued for it.
FenceIssued(w) ==
    pc[w] # "idle" => Cmd(w) \in Commands /\ Fence(w) <= outbox[Cmd(w)].token

\* The claim of w is still the command's claim.
HoldsClaim(w) ==
    outbox[Cmd(w)].state = "claimed" /\ outbox[Cmd(w)].token = Fence(w)

\* A worker that goes on to sign observed the preflight under its own claim.
PreflightHeld(w) ==
    pc[w] \in {"preflighted", "keyed", "signed"} =>
       /\ preflight[Cmd(w)] # Never
       /\ HoldsClaim(w) => outbox[Cmd(w)].claimedAt <= preflight[Cmd(w)]

\* Complete evidence was read after the request landed, adds up, and what it
\* shows to be over has not changed since.
EvidenceStands(w) ==
    pc[w] \in {"orders_read", "reconciling"} /\ view[w].complete =>
       /\ wire[Cmd(w)] = "landed"
       /\ Net(view[w].legs) = view[w].position
       /\ \A r \in Roles : view[w].legs[r].status \in TerminalLegStates =>
                              book[Cmd(w)][r] = view[w].legs[r]

Placed(w) == FenceIssued(w) /\ PreflightHeld(w) /\ EvidenceStands(w)

\* The worker about to post consumed the authority, is alone, and nobody posted.
PosterIsAlone ==
    \A w \in Workers :
       pc[w] = "authorized" =>
          /\ authority[Cmd(w)] # NoAuthority
          /\ wire[Cmd(w)] = "unsent"
          /\ \A v \in Workers : pc[v] = "authorized" /\ Cmd(v) = Cmd(w) => v = w

\* The wire follows the posts: nothing is on it before the first, and the
\* venue has an answer and orders for a request that landed, and no other.
WireFollowsSends ==
    \A c \in Commands :
       /\ sends[c] = IF wire[c] = "unsent" THEN 0 ELSE 1
       /\ wire[c] # "unsent" => authority[c] # NoAuthority
       /\ wire[c] = "landed" => reply[c] \in [Roles -> ResponseReports]
       /\ \A r \in Roles : (book[c][r].status = "absent") <=> (wire[c] # "landed")

\* A command that ended was never posted, or what it left at the venue is over.
EndedIsOver ==
    \A c \in Commands :
       command[c] = "terminal" =>
          \/ authority[c] = NoAuthority
          \/ /\ wire[c] = "landed"
             /\ \A r \in Roles : book[c][r].status \in TerminalLegStates
             /\ Net(book[c]) = 0

LaneInv ==
    /\ DispatchTypeOK
    /\ \A w \in Workers : Placed(w)
    /\ PosterIsAlone
    /\ WireFollowsSends
    /\ PreflightObservedUnderClaim
    /\ EndedIsOver

DispatchInv == EntryInv /\ LaneInv

(***************************************************************************)
(* The store's invariant under the dispatcher.                             *)
(***************************************************************************)

\* What a worker holds has its types, and a call is about a command.
LEMMA HeldTypes ==
    ASSUME LaneInv, NEW w \in Workers
    PROVE  /\ Fence(w) \in Nat
           /\ view[w] \in ViewRow
           /\ pc[w] # "idle" => Cmd(w) \in Commands /\ Fence(w) <= outbox[Cmd(w)].token
  BY DEF LaneInv, DispatchTypeOK, HoldRow, Placed, FenceIssued, Cmd, Fence

\* Tickets, approvals and maintenance keep the store's invariant.
LEMMA ServiceEntryInv ==
    ASSUME EntryInv, UNCHANGED now, ServiceStep
    PROVE  EntryInv'
  BY GrantInv, NormalizeInv, PaperworkInv, AdmissionInv, TerminateUnsentInv DEF ServiceStep

\* Every step of a worker keeps the store's invariant.
LEMMA WorkerEntryInv ==
    ASSUME DispatchInv, UNCHANGED now, NEW w \in Workers, WorkerStep(w)
    PROVE  EntryInv'
  <1>1. /\ EntryInv
        /\ now \in Nat
        /\ 0..now \subseteq Nat
        /\ Fence(w) \in Nat
        /\ view[w] \in ViewRow
        /\ pc[w] # "idle" => Cmd(w) \in Commands
    BY HeldTypes DEF DispatchInv, EntryInv, TypeOK
  <1>2. Times \subseteq Nat /\ Leases \subseteq Nat
    BY <1>1, InputTypes DEF EntryInv
  <1>3. ASSUME UNCHANGED storeVars PROVE EntryInv'
    <2>1. TypeOK'
      BY <1>1, <1>3 DEF storeVars, EntryInv, TypeOK
    <2> QED
      BY <1>1, <1>3, <2>1, FrameInv DEF storeVars
  <1>4. CASE BeginDispatch(w)
    BY <1>1, <1>2, <1>4, ClaimInv DEF BeginDispatch
  <1>5. CASE Preflight(w) \/ AttestKey(w) \/ AttestSend(w)
    BY <1>1, <1>5, EvidenceInv DEF Preflight, AttestKey, AttestSend
  <1>6. CASE DeferRoute(w)
    BY <1>1, <1>6, DeferInv DEF DeferRoute
  <1>7. CASE SignAndRenew(w)
    BY <1>1, <1>2, <1>7, RenewInv DEF SignAndRenew
  <1>8. CASE Prepare(w)
    BY <1>1, <1>2, <1>8, PrepareInv DEF Prepare
  <1>9. CASE GiveUpUnsent(w)
    BY <1>1, <1>9, TerminateUnsentInv DEF GiveUpUnsent
  <1>10. CASE ConsumeAuthority(w)
    BY <1>1, <1>2, <1>10, AuthorityInv DEF ConsumeAuthority
  <1>11. CASE RecordUnknown(w)
    BY <1>1, <1>11, MarkUnknownInv DEF RecordUnknown
  <1>12. CASE RecordResponse(w)
    <2>1. Cmd(w) \in Commands
      BY <1>1, <1>12 DEF RecordResponse
    <2>2. wire[Cmd(w)] = "landed" => reply[Cmd(w)] \in [Roles -> ResponseReports]
      BY <2>1 DEF DispatchInv, LaneInv, WireFollowsSends
    <2> QED
      BY <1>1, <1>12, <2>1, <2>2, EmptyResponseInv, ResponseInv DEF RecordResponse
  <1>13. CASE ClaimForEvidence(w)
    BY <1>1, <1>2, <1>13, ClaimInv DEF ClaimForEvidence
  <1>14. CASE ApplyEvidence(w)
    <2>1. /\ view[w].at \in Int
          /\ view[w].complete \in BOOLEAN
          /\ view[w].legs \in [Roles -> LegRow]
          /\ view[w].position \in Int
      BY <1>1 DEF ViewRow
    <2>2. Cmd(w) \in Commands
      BY <1>1, <1>14 DEF ApplyEvidence
    <2>3. PICK new \in SUBSET IncidentIds :
             Reconcile(Cmd(w), w, Fence(w), now, view[w].at, view[w].complete, Roles,
                       view[w].legs, view[w].position, view[w].covered, new)
      BY <1>14 DEF ApplyEvidence
    <2> QED
      BY <1>1, <2>1, <2>2, <2>3, ReconcileInv
  <1>15. CASE RefuseEvidence(w)
    BY <1>1, <1>15, ReleaseInv DEF RefuseEvidence
  <1>16. CASE RecordAmbiguity(w)
    BY <1>1, <1>16, IncidentInv DEF RecordAmbiguity, Codes
  <1>17. CASE \/ Post(w) \/ SkipPost(w) \/ ReadAccount(w) \/ ReadOrders(w)
              \/ FinishReconcile(w) \/ Fail(w)
    BY <1>3, <1>17 DEF Post, SkipPost, ReadAccount, ReadOrders, FinishReconcile, Fail
  <1> QED
    BY <1>4, <1>5, <1>6, <1>7, <1>8, <1>9, <1>10, <1>11, <1>12, <1>13, <1>14, <1>15, <1>16,
       <1>17 DEF WorkerStep

\* Whatever the workers, the network and the venue do, the store's invariant holds.
LEMMA DispatchEntryInv ==
    ASSUME DispatchInv, [DispatchNext]_dispatchVars
    PROVE  EntryInv'
  <1>1. EntryInv
    BY DEF DispatchInv
  <1>2. ASSUME UNCHANGED now, UNCHANGED storeVars PROVE EntryInv'
    <2>1. TypeOK'
      BY <1>1, <1>2 DEF storeVars, EntryInv, TypeOK
    <2> QED
      BY <1>1, <1>2, <2>1, FrameInv DEF storeVars
  <1>3. CASE UNCHANGED dispatchVars
    BY <1>2, <1>3 DEF dispatchVars, entryVars
  <1>4. CASE Tick
    BY <1>1, <1>4, TickInv
  <1>5. CASE UNCHANGED now /\ VenueStep
    BY <1>2, <1>5 DEF VenueStep, Land, Drop, VenueMoves
  <1> QED
    BY <1>1, <1>3, <1>4, <1>5, ServiceEntryInv, WorkerEntryInv DEF DispatchNext

(***************************************************************************)
(* What the lane needs to know of a transaction of the store.              *)
(***************************************************************************)

\* A claimed row is the row it was, or was claimed anew under a later fence.
ClaimKept(c) ==
    outbox'[c].state = "claimed" =>
       \/ /\ outbox[c].state = "claimed"
          /\ outbox'[c].token = outbox[c].token
          /\ outbox'[c].claimedAt = outbox[c].claimedAt
       \/ outbox[c].token < outbox'[c].token

\* A preflight is registered once, and then under the present claim.
PreflightKept(c) ==
    \/ preflight'[c] = preflight[c]
    \/ /\ preflight[c] = Never
       /\ preflight'[c] # Never
       /\ outbox'[c].claimedAt <= preflight'[c]

\* An authority is consumed once, while the command lives.
AuthorityKept(c) ==
    \/ authority'[c] = authority[c]
    \/ /\ authority[c] = NoAuthority
       /\ authority'[c] # NoAuthority
       /\ command'[c] # "terminal"

StoreMoves ==
    \A c \in Commands :
       /\ outbox[c].token <= outbox'[c].token
       /\ ClaimKept(c)
       /\ PreflightKept(c)
       /\ AuthorityKept(c)

\* The attempt prepared under a claim is still that claim's.
AttemptKept(c) ==
    command'[c] = "claimed" /\ attempt'[c].state = "prepared" =>
       attempt[c].state = "prepared" /\ outbox'[c].token = outbox[c].token

\* Only a command without an authority ends on the word of the store.
EndsUnsent(c) ==
    command'[c] = "terminal" => command[c] = "terminal" \/ authority[c] = NoAuthority

\* A transaction of one of the plain kinds: it prepares nothing and ends only
\* what was never sent.
PlainMoves == StoreMoves /\ \A c \in Commands : AttemptKept(c) /\ EndsUnsent(c)

\* The tokens of the outbox are numbers.
LEMMA TokenTypes ==
    ASSUME EntryInv
    PROVE  \A c \in Commands : outbox[c].token \in Nat /\ outbox[c].claimedAt \in Int
  BY DEF EntryInv, TypeOK, OutboxRow

\* Transactions that leave the command's own rows alone.
LEMMA QuietMoves ==
    ASSUME EntryInv, UNCHANGED <<command, outbox, preflight, attempt, authority>>
    PROVE  PlainMoves
  <1>1. \A c \in Commands : outbox[c].token \in Nat
    BY TokenTypes
  <1> QED
    BY <1>1 DEF PlainMoves, StoreMoves, ClaimKept, PreflightKept, AuthorityKept, AttemptKept,
       EndsUnsent

\* Transactions that release the row of one command, in state s.
LEMMA ReleaseMoves ==
    ASSUME EntryInv, EntryInv', NEW c \in Commands, NEW s \in CommandStates, s # "claimed",
           s = "terminal" => authority[c] = NoAuthority,
           outbox' = [outbox EXCEPT ![c] = Released(c, s)],
           \A d \in Commands : d # c => attempt'[d] = attempt[d],
           UNCHANGED <<preflight, authority>>
    PROVE  PlainMoves
  <1>1. /\ Released(c, s).state = s
        /\ Released(c, s).token = outbox[c].token
    BY ReleasedRow DEF EntryInv
  <1>2. \A d \in Commands : /\ outbox[d].token \in Nat
                            /\ command[d] = outbox[d].state
                            /\ command'[d] = outbox'[d].state
    BY TokenTypes DEF EntryInv, RowsAgree
  <1>3. /\ outbox'[c].state = s
        /\ outbox'[c].token = outbox[c].token
        /\ \A d \in Commands : d # c => outbox'[d] = outbox[d]
    BY <1>1 DEF EntryInv, TypeOK
  <1> QED
    BY <1>2, <1>3 DEF PlainMoves, StoreMoves, ClaimKept, PreflightKept, AuthorityKept,
       AttemptKept, EndsUnsent

\* Normalization, alone or followed by a claim under the next fence.
LEMMA NormalizeMoves ==
    ASSUME EntryInv, EntryInv', NEW at, NormalizeRows(at), NEW S \in SUBSET Commands,
           \A d \in Commands \ S : outbox'[d] = NormalOutbox(at)[d],
           \A d \in S : /\ outbox'[d].token = outbox[d].token + 1
                        /\ outbox'[d].state = "claimed" =>
                              NormalOutbox(at)[d].state = "queued"
                        /\ outbox'[d].state # "terminal",
           UNCHANGED <<preflight, authority>>
    PROVE  PlainMoves
  <1>1. ASSUME NEW d \in Commands
        PROVE  /\ outbox[d].token \in Nat
               /\ NormalOutbox(at)[d].token = outbox[d].token
               /\ NormalOutbox(at)[d].state = NormalCommand(at)[d]
               /\ NormalizedRow(d, at)
               /\ command[d] = outbox[d].state
               /\ command'[d] = outbox'[d].state
               /\ command[d] = "queued" => attempt[d].state = "none"
    BY TokenTypes, NormalizedClaims, NormalizedRows DEF EntryInv, RowsAgree,
       AttemptBelongsToClaim
  <1>2. ASSUME NEW d \in S PROVE ClaimKept(d) /\ AttemptKept(d) /\ EndsUnsent(d)
    <2>1. outbox[d].token < outbox'[d].token
      BY <1>1
    <2>2. AttemptKept(d)
      <3>1. d \in Commands
        OBVIOUS
      <3>2. NormalCommand(at)[d] = "queued" => attempt'[d].state = "none"
        <4>1. CASE ClaimExpired(d, at)
          BY <1>1, <3>1, <4>1, ZenonT(60) DEF NormalizedRow
        <4>2. CASE ~ClaimExpired(d, at)
          BY <1>1, <3>1, <4>2, ZenonT(60) DEF NormalizedRow
        <4> QED
          BY <4>1, <4>2
      <3> QED
        BY <1>1, <3>1, <3>2 DEF AttemptKept
    <2>3. EndsUnsent(d)
      BY <1>1 DEF EndsUnsent
    <2> QED
      BY <2>1, <2>2, <2>3 DEF ClaimKept
  <1>3. ASSUME NEW d \in Commands \ S PROVE ClaimKept(d) /\ AttemptKept(d) /\ EndsUnsent(d)
    <2>1. CASE ClaimExpired(d, at)
      <3>1. /\ outbox'[d].state = NormalState(d)
            /\ NormalState(d) \in {"queued", "terminal", "submitted_unknown"}
            /\ NormalState(d) = "terminal" => authority[d] = NoAuthority
        BY <1>1, <2>1, ZenonT(60) DEF NormalizedRow
      <3> QED
        BY <1>1, <3>1 DEF ClaimKept, AttemptKept, EndsUnsent
    <2>2. CASE ~ClaimExpired(d, at)
      <3>1. outbox'[d] = outbox[d] /\ attempt'[d] = attempt[d]
        BY <1>1, <2>2 DEF NormalizedRow
      <3> QED
        BY <1>1, <3>1 DEF ClaimKept, AttemptKept, EndsUnsent
    <2> QED
      BY <2>1, <2>2
  <1> QED
    BY <1>1, <1>2, <1>3 DEF PlainMoves, StoreMoves, PreflightKept, AuthorityKept

\* Both claim operations are plain.
LEMMA ClaimMoves ==
    ASSUME EntryInv, EntryInv', NEW c \in Commands, NEW w, NEW at, NEW l,
           ClaimNext(c, w, at, l) \/ ClaimReconciliation(c, w, at, l)
    PROVE  PlainMoves
  <1>1. NormalOutbox(at) \in [Commands -> OutboxRow]
    BY NormalizedClaims
  <1>2. /\ NormalizeRows(at)
        /\ UNCHANGED <<preflight, authority>>
        /\ \A d \in Commands \ {c} : outbox'[d] = NormalOutbox(at)[d]
        /\ outbox'[c].token = outbox[c].token + 1
        /\ outbox'[c].state = "claimed" => NormalOutbox(at)[c].state = "queued"
        /\ outbox'[c].state # "terminal"
    BY <1>1 DEF ClaimNext, ClaimReconciliation
  <1>3. {c} \in SUBSET Commands
    OBVIOUS
  <1> QED
    BY <1>2, <1>3, NormalizeMoves, ZenonT(60)

(***************************************************************************)
(* The lane's invariant, for steps that leave the wire and the venue alone. *)
(***************************************************************************)

\* No plain transaction puts a prepared attempt before an older preflight.
LEMMA PreflightStays ==
    ASSUME EntryInv, EntryInv', PreflightObservedUnderClaim, PlainMoves
    PROVE  PreflightObservedUnderClaim'
  <1> SUFFICES ASSUME NEW c \in Commands, command'[c] = "claimed",
                      attempt'[c].state = "prepared"
               PROVE  outbox'[c].claimedAt <= preflight'[c]
    BY DEF PreflightObservedUnderClaim
  <1>1. /\ outbox'[c].state = "claimed"
        /\ attempt[c].state = "prepared"
        /\ outbox'[c].token = outbox[c].token
        /\ outbox[c].token \in Nat
    BY TokenTypes DEF PlainMoves, AttemptKept, EntryInv, RowsAgree
  <1>2. /\ command[c] = "claimed"
        /\ outbox'[c].claimedAt = outbox[c].claimedAt
    BY <1>1 DEF PlainMoves, StoreMoves, ClaimKept, EntryInv, RowsAgree
  <1>3. outbox[c].claimedAt <= preflight[c]
    BY <1>1, <1>2 DEF PreflightObservedUnderClaim
  <1> QED
    BY <1>2, <1>3 DEF PlainMoves, StoreMoves, PreflightKept

\* No plain transaction ends a command that was sent.
LEMMA EndedStays ==
    ASSUME EndedIsOver, PlainMoves, UNCHANGED <<wire, book>>
    PROVE  EndedIsOver'
  <1> SUFFICES ASSUME NEW c \in Commands, command'[c] = "terminal"
               PROVE  \/ authority'[c] = NoAuthority
                      \/ /\ wire[c] = "landed"
                         /\ \A r \in Roles : book[c][r].status \in TerminalLegStates
                         /\ Net(book[c]) = 0
    BY DEF EndedIsOver, Net
  <1>1. authority'[c] = authority[c]
    BY DEF PlainMoves, StoreMoves, AuthorityKept
  <1>2. command[c] = "terminal" \/ authority[c] = NoAuthority
    BY DEF PlainMoves, EndsUnsent
  <1> QED
    BY <1>1, <1>2 DEF EndedIsOver

Stays(v) == pc'[v] = pc[v] /\ held'[v] = held[v] /\ view'[v] = view[v]

\* The worker v comes to a new step; it is the only one that moves when it has
\* just consumed the authority.
Arrives(v) ==
    /\ Placed(v)'
    /\ pc'[v] = "authorized" =>
          /\ held'[v].command \in Commands
          /\ authority[held'[v].command] = NoAuthority
          /\ authority'[held'[v].command] # NoAuthority
          /\ \A u \in Workers \ {v} : Stays(u)

\* A transaction leaves a worker that does not move where it was.
LEMMA StaysPlaced ==
    ASSUME EntryInv, EntryInv', StoreMoves, NEW v \in Workers,
           held[v] \in HoldRow, Placed(v), Stays(v), UNCHANGED venueVars
    PROVE  Placed(v)'
  <1>1. \A c \in Commands : /\ outbox[c].token \in Nat
                            /\ outbox'[c].token \in Nat
    BY TokenTypes DEF EntryInv, TypeOK, OutboxRow
  <1>2. Fence(v) \in Nat
    BY DEF HoldRow, Fence
  <1>3. FenceIssued(v)'
    BY <1>1, <1>2 DEF Placed, FenceIssued, Stays, Cmd, Fence, StoreMoves
  <1>4. PreflightHeld(v)'
    <2> SUFFICES ASSUME pc[v] \in {"preflighted", "keyed", "signed"}
                 PROVE  /\ preflight'[Cmd(v)] # Never
                        /\ (outbox'[Cmd(v)].state = "claimed"
                              /\ outbox'[Cmd(v)].token = Fence(v)) =>
                              outbox'[Cmd(v)].claimedAt <= preflight'[Cmd(v)]
      BY DEF PreflightHeld, HoldsClaim, Stays, Cmd, Fence
    <2>1. /\ Cmd(v) \in Commands
          /\ Fence(v) <= outbox[Cmd(v)].token
          /\ preflight[Cmd(v)] # Never
          /\ HoldsClaim(v) => outbox[Cmd(v)].claimedAt <= preflight[Cmd(v)]
      BY DEF Placed, FenceIssued, PreflightHeld
    <2>2. preflight'[Cmd(v)] = preflight[Cmd(v)]
      BY <2>1 DEF StoreMoves, PreflightKept
    <2>3. ASSUME outbox'[Cmd(v)].state = "claimed", outbox'[Cmd(v)].token = Fence(v)
          PROVE  HoldsClaim(v) /\ outbox'[Cmd(v)].claimedAt = outbox[Cmd(v)].claimedAt
      BY <1>1, <1>2, <2>1, <2>3 DEF StoreMoves, ClaimKept, HoldsClaim
    <2> QED
      BY <2>1, <2>2, <2>3
  <1>5. EvidenceStands(v)'
    BY DEF Placed, EvidenceStands, Stays, Cmd, venueVars, Net
  <1> QED
    BY <1>3, <1>4, <1>5 DEF Placed

\* The lane's invariant after a transaction and the moves of workers.
LEMMA LaneStep ==
    ASSUME DispatchInv, EntryInv', StoreMoves, DispatchTypeOK', UNCHANGED venueVars,
           PreflightObservedUnderClaim', EndedIsOver',
           \A v \in Workers : Stays(v) \/ Arrives(v)
    PROVE  LaneInv'
  <1>1. EntryInv /\ LaneInv
    BY DEF DispatchInv
  <1>2. \A v \in Workers : Placed(v)'
    BY <1>1, StaysPlaced DEF LaneInv, DispatchTypeOK, Arrives
  <1>3. WireFollowsSends'
    BY <1>1 DEF LaneInv, WireFollowsSends, venueVars, StoreMoves, AuthorityKept, ResponseReports
  <1>4. PosterIsAlone'
    <2> SUFFICES ASSUME NEW w \in Workers, pc'[w] = "authorized"
                 PROVE  /\ authority'[held'[w].command] # NoAuthority
                        /\ wire'[held'[w].command] = "unsent"
                        /\ \A v \in Workers :
                              pc'[v] = "authorized" /\ held'[v].command = held'[w].command
                                 => v = w
      BY DEF PosterIsAlone, Cmd
    <2>1. ASSUME NEW v \in Workers, pc'[v] = "authorized", Stays(v)
          PROVE  /\ held'[v].command = Cmd(v)
                 /\ Cmd(v) \in Commands
                 /\ pc[v] = "authorized"
                 /\ authority[Cmd(v)] # NoAuthority
                 /\ wire[Cmd(v)] = "unsent"
      BY <1>1, <2>1 DEF Stays, LaneInv, PosterIsAlone, Placed, FenceIssued, Cmd
    <2>2. CASE Stays(w)
      <3>1. /\ authority'[held'[w].command] # NoAuthority
            /\ wire'[held'[w].command] = "unsent"
        BY <2>1, <2>2 DEF StoreMoves, AuthorityKept, venueVars
      <3>2. ASSUME NEW v \in Workers, pc'[v] = "authorized",
                   held'[v].command = held'[w].command
            PROVE  v = w
        <4>1. CASE Stays(v)
          BY <1>1, <2>1, <2>2, <3>2, <4>1 DEF LaneInv, PosterIsAlone
        <4>2. CASE Arrives(v)
          BY <2>1, <2>2, <3>2, <4>2 DEF Arrives
        <4> QED
          BY <4>1, <4>2
      <3> QED
        BY <3>1, <3>2
    <2>3. CASE Arrives(w)
      <3>1. /\ held'[w].command \in Commands
            /\ authority[held'[w].command] = NoAuthority
            /\ authority'[held'[w].command] # NoAuthority
            /\ \A u \in Workers \ {w} : Stays(u)
        BY <2>3 DEF Arrives
      <3>2. wire'[held'[w].command] = "unsent"
        BY <1>1, <3>1 DEF LaneInv, WireFollowsSends, venueVars
      <3> QED
        BY <2>1, <3>1, <3>2
    <2> QED
      BY <2>2, <2>3
  <1> QED
    BY <1>2, <1>3, <1>4 DEF LaneInv

\* The absent view and hold have the types of the rows.
LEMMA AbsentHolds ==
    /\ NoView \in ViewRow
    /\ NoHold \in HoldRow
    /\ AbsentLegs \in [Roles -> LegRow]
  <1>1. 0 \in 0..Quantity
    BY ConstantsAssumption
  <1>2. AbsentLegs \in [Roles -> LegRow]
    BY <1>1 DEF AbsentLegs, LegRow, LegStates
  <1>3. NoHold \in HoldRow
    BY DEF NoHold, HoldRow
  <1> QED
    BY <1>2, <1>3 DEF NoView, ViewRow, Never

\* The call of a worker ends after a plain transaction.
LEMMA ReturnStep ==
    ASSUME DispatchInv, EntryInv', PlainMoves, UNCHANGED venueVars, NEW w \in Workers, Return(w)
    PROVE  LaneInv'
  <1>1. EntryInv /\ LaneInv
    BY DEF DispatchInv
  <1>2. DispatchTypeOK'
    BY <1>1, AbsentHolds DEF LaneInv, DispatchTypeOK, venueVars, Return, Goto, DispatchSteps
  <1>3. /\ pc'[w] = "idle"
        /\ \A v \in Workers \ {w} : Stays(v)
    BY <1>1 DEF LaneInv, DispatchTypeOK, Return, Goto, Stays
  <1>4. Arrives(w)
    BY <1>3 DEF Arrives, Placed, FenceIssued, PreflightHeld, EvidenceStands
  <1>5. PreflightObservedUnderClaim' /\ EndedIsOver'
    BY <1>1, PreflightStays, EndedStays DEF LaneInv, venueVars
  <1>6. \A v \in Workers : Stays(v) \/ Arrives(v)
    BY <1>3, <1>4
  <1> QED
    BY <1>2, <1>5, <1>6, LaneStep DEF PlainMoves

\* A worker in the middle of a call goes to its next step of dispatch_next, or
\* past the reconciliation, with the same hold and view.
LEMMA GotoStep ==
    ASSUME DispatchInv, EntryInv', StoreMoves, UNCHANGED <<held, view, venueVars>>,
           PreflightObservedUnderClaim', EndedIsOver', NEW w \in Workers, pc[w] # "idle",
           NEW step \in DispatchSteps \ {"orders_read", "reconciling"}, Goto(w, step),
           step \in {"preflighted", "keyed", "signed"} => PreflightHeld(w)',
           step = "authorized" => /\ authority[Cmd(w)] = NoAuthority
                                  /\ authority'[Cmd(w)] # NoAuthority
    PROVE  LaneInv'
  <1>1. EntryInv /\ LaneInv
    BY DEF DispatchInv
  <1>2. DispatchTypeOK'
    BY <1>1 DEF LaneInv, DispatchTypeOK, venueVars, Goto
  <1>3. /\ pc'[w] = step
        /\ \A v \in Workers \ {w} : Stays(v)
    BY <1>1 DEF LaneInv, DispatchTypeOK, Goto, Stays
  <1>4. Cmd(w) \in Commands /\ Fence(w) \in Nat /\ Fence(w) <= outbox[Cmd(w)].token
    BY <1>1, HeldTypes
  <1>5. FenceIssued(w)'
    <2>1. outbox[Cmd(w)].token \in Nat /\ outbox'[Cmd(w)].token \in Nat
      BY <1>1, <1>4 DEF EntryInv, TypeOK, OutboxRow
    <2> QED
      BY <1>4, <2>1 DEF FenceIssued, StoreMoves, Cmd, Fence
  <1>6. PreflightHeld(w)'
    BY <1>3 DEF PreflightHeld
  <1>7. EvidenceStands(w)'
    BY <1>3 DEF EvidenceStands
  <1>8. Arrives(w)
    BY <1>3, <1>4, <1>5, <1>6, <1>7 DEF Arrives, Placed, Cmd
  <1> QED
    BY <1>2, <1>3, <1>8, LaneStep

(***************************************************************************)
(* dispatch_next.                                                          *)
(***************************************************************************)

\* claim_next: the worker holds the fence it was just given.
LEMMA BeginLane ==
    ASSUME DispatchInv, EntryInv', NEW w \in Workers, BeginDispatch(w)
    PROVE  LaneInv'
  <1>1. EntryInv /\ LaneInv
    BY DEF DispatchInv
  <1>2. PICK c \in Commands, l \in Leases :
           /\ ClaimNext(c, w, now, l)
           /\ held' = [held EXCEPT ![w] = [command |-> c, token |-> outbox'[c].token]]
    BY DEF BeginDispatch
  <1>3. PlainMoves
    BY <1>1, <1>2, ClaimMoves
  <1>4. PreflightObservedUnderClaim' /\ EndedIsOver'
    BY <1>1, <1>3, PreflightStays, EndedStays DEF LaneInv, venueVars, BeginDispatch
  <1>5. outbox'[c].token \in Nat
    BY DEF EntryInv, TypeOK, OutboxRow
  <1>6. [command |-> c, token |-> outbox'[c].token] \in HoldRow
    BY <1>5 DEF HoldRow
  <1>7. DispatchTypeOK'
    BY <1>1, <1>2, <1>6 DEF LaneInv, DispatchTypeOK, venueVars, BeginDispatch, Goto, DispatchSteps
  <1>8. /\ pc'[w] = "claimed"
        /\ held'[w].command = c
        /\ held'[w].token = outbox'[c].token
        /\ \A v \in Workers \ {w} : Stays(v)
    BY <1>1, <1>2 DEF LaneInv, DispatchTypeOK, BeginDispatch, Goto, Stays
  <1>9. Arrives(w)
    BY <1>5, <1>8 DEF Arrives, Placed, FenceIssued, PreflightHeld, EvidenceStands, Cmd, Fence
  <1> QED
    BY <1>3, <1>4, <1>7, <1>8, <1>9, LaneStep DEF PlainMoves, BeginDispatch

\* The preflight, the role attestations and the renewal.
LEMMA EvidenceLane ==
    ASSUME DispatchInv, EntryInv', NEW w \in Workers,
           Preflight(w) \/ AttestKey(w) \/ SignAndRenew(w) \/ AttestSend(w)
    PROVE  LaneInv'
  <1>1. EntryInv /\ LaneInv
    BY DEF DispatchInv
  <1>2. pc[w] # "idle" /\ Cmd(w) \in Commands /\ Placed(w)
    BY <1>1 DEF LaneInv, Placed, FenceIssued, Preflight, AttestKey, SignAndRenew, AttestSend
  <1>3. UNCHANGED <<held, view, venueVars>>
    BY DEF Preflight, AttestKey, SignAndRenew, AttestSend
  <1>4. ASSUME PlainMoves PROVE StoreMoves /\ PreflightObservedUnderClaim' /\ EndedIsOver'
    BY <1>1, <1>3, <1>4, PreflightStays, EndedStays DEF PlainMoves, LaneInv, venueVars
  <1>5. CASE Preflight(w)
    <2>1. PICK observed \in 0..now : RegisterPreflight(Cmd(w), now, observed)
      BY <1>5 DEF Preflight
    <2>2. /\ preflight[Cmd(w)] = Never
          /\ preflight' = [preflight EXCEPT ![Cmd(w)] = observed]
          /\ outbox[Cmd(w)].claimedAt <= observed
          /\ UNCHANGED <<command, outbox, attempt, authority>>
      BY <2>1 DEF RegisterPreflight
    <2>3. /\ preflight'[Cmd(w)] = observed
          /\ \A d \in Commands : d # Cmd(w) => preflight'[d] = preflight[d]
          /\ observed # Never
      BY <1>1, <1>2, <2>2 DEF EntryInv, TypeOK, Never
    <2>4. PlainMoves
      <3>1. \A c \in Commands : outbox[c].token \in Nat
        BY <1>1, TokenTypes
      <3> QED
        BY <2>2, <2>3, <3>1 DEF PlainMoves, StoreMoves, ClaimKept, PreflightKept,
           AuthorityKept, AttemptKept, EndsUnsent
    <2>5. PreflightHeld(w)'
      BY <1>3, <2>2, <2>3 DEF PreflightHeld, HoldsClaim, Cmd, Fence
    <2> QED
      BY <1>2, <1>3, <1>4, <1>5, <2>4, <2>5, GotoStep DEF Preflight, DispatchSteps
  <1>6. CASE AttestKey(w)
    <2>1. UNCHANGED <<command, outbox, preflight, attempt, authority>>
      BY <1>6 DEF AttestKey, RecordPreKey
    <2>2. PreflightHeld(w)'
      BY <1>2, <1>3, <1>6, <2>1 DEF AttestKey, Placed, PreflightHeld, HoldsClaim, Cmd, Fence
    <2> QED
      BY <1>1, <1>2, <1>3, <1>4, <1>6, <2>1, <2>2, QuietMoves, GotoStep DEF AttestKey, DispatchSteps
  <1>7. CASE SignAndRenew(w)
    <2>1. PICK l \in Leases : RenewClaim(Cmd(w), w, Fence(w), now, l)
      BY <1>7 DEF SignAndRenew
    <2>2. /\ \A d \in Commands : /\ outbox'[d].state = outbox[d].state
                                 /\ outbox'[d].token = outbox[d].token
                                 /\ outbox'[d].claimedAt = outbox[d].claimedAt
                                 /\ outbox[d].token \in Nat
          /\ UNCHANGED <<command, preflight, attempt, authority>>
      BY <1>1, <1>2, <2>1 DEF RenewClaim, EntryInv, TypeOK, OutboxRow
    <2>3. PlainMoves
      BY <2>2 DEF PlainMoves, StoreMoves, ClaimKept, PreflightKept, AuthorityKept, AttemptKept,
         EndsUnsent
    <2>4. PreflightHeld(w)'
      BY <1>2, <1>3, <1>7, <2>2 DEF SignAndRenew, Placed, PreflightHeld, HoldsClaim, Cmd, Fence
    <2> QED
      BY <1>2, <1>3, <1>4, <1>7, <2>3, <2>4, GotoStep DEF SignAndRenew, DispatchSteps
  <1>8. CASE AttestSend(w)
    <2>1. UNCHANGED <<command, outbox, preflight, attempt, authority>>
      BY <1>8 DEF AttestSend, RecordPreSend
    <2> QED
      BY <1>1, <1>2, <1>3, <1>4, <1>8, <2>1, QuietMoves, GotoStep DEF AttestSend, DispatchSteps
  <1> QED
    BY <1>5, <1>6, <1>7, <1>8

\* prepare_attempt: the holder of the claim is the one whose preflight it was.
LEMMA PrepareLane ==
    ASSUME DispatchInv, EntryInv', NEW w \in Workers, Prepare(w)
    PROVE  LaneInv'
  <1>1. EntryInv /\ LaneInv
    BY DEF DispatchInv
  <1>2. /\ pc[w] = "signed"
        /\ Cmd(w) \in Commands
        /\ Placed(w)
        /\ UNCHANGED <<held, view, venueVars>>
    BY <1>1 DEF LaneInv, Placed, FenceIssued, Prepare
  <1>3. PICK e \in Times : PrepareAttempt(Cmd(w), w, Fence(w), now, e)
    BY DEF Prepare
  <1>4. /\ HoldsClaim(w)
        /\ \A d \in Commands : d # Cmd(w) => attempt'[d] = attempt[d]
        /\ UNCHANGED <<command, outbox, preflight, authority>>
    BY <1>1, <1>3 DEF PrepareAttempt, HasClaim, HoldsClaim, EntryInv, TypeOK
  <1>5. StoreMoves /\ \A c \in Commands : EndsUnsent(c)
    <2>1. \A c \in Commands : outbox[c].token \in Nat
      BY <1>1, TokenTypes
    <2> QED
      BY <1>4, <2>1 DEF StoreMoves, ClaimKept, PreflightKept, AuthorityKept, EndsUnsent
  <1>6. PreflightObservedUnderClaim'
    <2>1. outbox[Cmd(w)].claimedAt <= preflight[Cmd(w)]
      BY <1>2, <1>4 DEF Placed, PreflightHeld
    <2> QED
      BY <1>1, <1>4, <2>1 DEF LaneInv, PreflightObservedUnderClaim
  <1>7. EndedIsOver'
    BY <1>1, <1>2, <1>4 DEF LaneInv, EndedIsOver, venueVars, Net
  <1> QED
    BY <1>2, <1>5, <1>6, <1>7, GotoStep DEF Prepare, DispatchSteps

\* require_submission_authority: the authority was not consumed before.
LEMMA ConsumeLane ==
    ASSUME DispatchInv, EntryInv', NEW w \in Workers, ConsumeAuthority(w)
    PROVE  LaneInv'
  <1>1. EntryInv /\ LaneInv
    BY DEF DispatchInv
  <1>2. /\ pc[w] # "idle"
        /\ Cmd(w) \in Commands
        /\ UNCHANGED <<held, view, venueVars>>
    BY <1>1 DEF LaneInv, Placed, FenceIssued, ConsumeAuthority
  <1>3. PICK u \in Times : RequireSubmissionAuthority(Cmd(w), w, Fence(w), now, u)
    BY DEF ConsumeAuthority
  <1>4. now \in Nat
    BY <1>1 DEF EntryInv, TypeOK
  <1>5. [at |-> now, until |-> u] # NoAuthority
    BY <1>4 DEF NoAuthority, Never
  <1>6. /\ authority[Cmd(w)] = NoAuthority
        /\ authority'[Cmd(w)] # NoAuthority
        /\ \A d \in Commands : d # Cmd(w) => authority'[d] = authority[d]
        /\ command[Cmd(w)] = "claimed"
        /\ UNCHANGED <<command, outbox, preflight, attempt>>
    BY <1>1, <1>2, <1>3, <1>5 DEF RequireSubmissionAuthority, HasClaim, EntryInv, TypeOK, RowsAgree
  <1>7. PlainMoves
    <2>1. \A c \in Commands : outbox[c].token \in Nat
      BY <1>1, TokenTypes
    <2> QED
      BY <1>6, <2>1 DEF PlainMoves, StoreMoves, ClaimKept, PreflightKept, AuthorityKept,
         AttemptKept, EndsUnsent
  <1>8. PreflightObservedUnderClaim' /\ EndedIsOver'
    BY <1>1, <1>2, <1>7, PreflightStays, EndedStays DEF LaneInv, venueVars
  <1> QED
    BY <1>2, <1>6, <1>7, <1>8, GotoStep DEF ConsumeAuthority, DispatchSteps, PlainMoves

\* The calls that end with their transaction, and those that just end.
LEMMA ReturnLane ==
    ASSUME DispatchInv, EntryInv', NEW w \in Workers,
           \/ DeferRoute(w) \/ GiveUpUnsent(w) \/ RecordUnknown(w) \/ RecordResponse(w)
           \/ RefuseEvidence(w) \/ RecordAmbiguity(w) \/ FinishReconcile(w) \/ Fail(w)
    PROVE  LaneInv'
  <1>1. EntryInv /\ LaneInv
    BY DEF DispatchInv
  <1>2. Return(w) /\ UNCHANGED venueVars
    BY DEF DeferRoute, GiveUpUnsent, RecordUnknown, RecordResponse, RefuseEvidence,
       RecordAmbiguity, FinishReconcile, Fail
  <1>3. SUFFICES PlainMoves
    BY <1>2, ReturnStep
  <1>4. pc[w] # "idle" => Cmd(w) \in Commands
    BY <1>1, HeldTypes
  <1>5. /\ "queued" \in CommandStates
        /\ "terminal" \in CommandStates
        /\ "submitted_unknown" \in CommandStates
        /\ "reconciling" \in CommandStates
    BY DEF CommandStates
  <1>6. CASE DeferRoute(w)
    BY <1>1, <1>4, <1>5, <1>6, ReleaseMoves DEF DeferRoute, DeferUnsentClaim
  <1>7. CASE GiveUpUnsent(w)
    BY <1>1, <1>4, <1>5, <1>7, ReleaseMoves DEF GiveUpUnsent, VoidUnsentCommand, TerminateUnsent
  <1>8. CASE RecordUnknown(w)
    <2>1. Cmd(w) \in Commands
      BY <1>4, <1>8 DEF RecordUnknown
    <2>2. /\ outbox' = [outbox EXCEPT ![Cmd(w)] = Released(Cmd(w), "submitted_unknown")]
          /\ attempt' = [attempt EXCEPT ![Cmd(w)].state = "unknown"]
          /\ UNCHANGED <<preflight, authority>>
      BY <1>8 DEF RecordUnknown, MarkSubmittedUnknown
    <2>3. \A d \in Commands : d # Cmd(w) => attempt'[d] = attempt[d]
      BY <1>1, <2>2 DEF EntryInv, TypeOK
    <2> QED
      BY <1>1, <1>5, <2>1, <2>2, <2>3, ReleaseMoves
  <1>9. CASE RecordResponse(w)
    <2>1. Cmd(w) \in Commands
      BY <1>4, <1>9 DEF RecordResponse
    <2>2. /\ outbox' = [outbox EXCEPT ![Cmd(w)] = Released(Cmd(w), "reconciling")]
          /\ attempt' = [attempt EXCEPT ![Cmd(w)].state = "response_received"]
          /\ UNCHANGED <<preflight, authority>>
      BY <1>9 DEF RecordResponse, RecordSubmissionResponse, RecordEmptyResponse
    <2>3. \A d \in Commands : d # Cmd(w) => attempt'[d] = attempt[d]
      BY <1>1, <2>2 DEF EntryInv, TypeOK
    <2> QED
      BY <1>1, <1>5, <2>1, <2>2, <2>3, ReleaseMoves
  <1>10. CASE RefuseEvidence(w)
    BY <1>1, <1>4, <1>5, <1>10, ReleaseMoves DEF RefuseEvidence, ReleaseReconciliationClaim
  <1>11. CASE RecordAmbiguity(w) \/ FinishReconcile(w) \/ Fail(w)
    BY <1>1, <1>11, QuietMoves DEF RecordAmbiguity, RecordIncident, FinishReconcile, Fail,
       storeVars
  <1> QED
    BY <1>6, <1>7, <1>8, <1>9, <1>10, <1>11

\* The last check failed and nothing leaves: only the worker moves.
LEMMA SkipLane ==
    ASSUME DispatchInv, EntryInv', NEW w \in Workers, SkipPost(w)
    PROVE  LaneInv'
  <1>1. EntryInv /\ LaneInv
    BY DEF DispatchInv
  <1>2. PlainMoves
    BY <1>1, QuietMoves DEF SkipPost, storeVars
  <1>3. PreflightObservedUnderClaim' /\ EndedIsOver'
    BY <1>1, <1>2, PreflightStays, EndedStays DEF LaneInv, venueVars, SkipPost
  <1> QED
    BY <1>2, <1>3, GotoStep DEF SkipPost, DispatchSteps, PlainMoves

\* A placed worker is placed still when the store is as it was and the book
\* moved only rows that are not over.
LEMMA VenuePlaced ==
    ASSUME NEW v \in Workers, Placed(v), Stays(v), UNCHANGED <<outbox, preflight>>,
           pc[v] \in {"orders_read", "reconciling"} /\ view[v].complete =>
              /\ wire[Cmd(v)] = "landed" => wire'[Cmd(v)] = "landed"
              /\ \A r \in Roles : book[Cmd(v)][r].status \in TerminalLegStates =>
                                     book'[Cmd(v)][r] = book[Cmd(v)][r]
    PROVE  Placed(v)'
  <1>1. FenceIssued(v)' /\ PreflightHeld(v)'
    BY DEF Placed, FenceIssued, PreflightHeld, HoldsClaim, Stays, Cmd, Fence
  <1>2. EvidenceStands(v)'
    BY DEF Placed, EvidenceStands, Stays, Cmd, Net
  <1> QED
    BY <1>1, <1>2 DEF Placed

\* The single POST: nobody posted before, and nobody else is about to.
LEMMA PostLane ==
    ASSUME DispatchInv, NEW w \in Workers, Post(w)
    PROVE  LaneInv'
  <1> DEFINE c == Cmd(w)
  <1>1. EntryInv /\ LaneInv
    BY DEF DispatchInv
  <1>2. /\ pc[w] = "authorized"
        /\ c \in Commands
        /\ authority[c] # NoAuthority
        /\ wire[c] = "unsent"
        /\ \A v \in Workers : pc[v] = "authorized" /\ Cmd(v) = c => v = w
    BY <1>1 DEF LaneInv, Placed, FenceIssued, PosterIsAlone, Post
  <1>3. /\ wire' = [wire EXCEPT ![c] = "flying"]
        /\ sends' = [sends EXCEPT ![c] = sends[c] + 1]
        /\ pc' = [pc EXCEPT ![w] = "posted"]
        /\ UNCHANGED <<storeVars, held, view, reply, book, stamp>>
    BY DEF Post, Goto
  <1> HIDE DEF c
  <1>4. sends[c] = 0
    BY <1>1, <1>2 DEF LaneInv, WireFollowsSends
  <1>5. DispatchTypeOK'
    BY <1>1, <1>2, <1>3, <1>4 DEF LaneInv, DispatchTypeOK, DispatchSteps
  <1>6. ASSUME NEW v \in Workers PROVE Placed(v)'
    <2>1. CASE v = w
      <3>1. pc'[v] = "posted" /\ pc[v] # "idle"
        BY <1>1, <1>2, <1>3, <2>1 DEF LaneInv, DispatchTypeOK
      <3> QED
        BY <1>1, <1>3, <3>1 DEF LaneInv, Placed, FenceIssued, PreflightHeld, EvidenceStands,
           Cmd, Fence, storeVars
    <2>2. CASE v # w
      <3>1. Stays(v) /\ Placed(v) /\ UNCHANGED <<outbox, preflight, book>>
        BY <1>1, <1>3, <2>2 DEF LaneInv, DispatchTypeOK, Stays, storeVars
      <3>2. pc[v] \in {"orders_read", "reconciling"} => Cmd(v) \in Commands
        BY <3>1 DEF Placed, FenceIssued
      <3>3. pc[v] \in {"orders_read", "reconciling"} /\ wire[Cmd(v)] = "landed" =>
               wire'[Cmd(v)] = "landed"
        BY <1>1, <1>2, <1>3, <3>2 DEF LaneInv, DispatchTypeOK
      <3> QED
        BY <3>1, <3>3, VenuePlaced
    <2> QED
      BY <2>1, <2>2
  <1>7. PosterIsAlone'
    <2> SUFFICES ASSUME NEW x \in Workers, pc'[x] = "authorized"
                 PROVE  /\ authority[Cmd(x)] # NoAuthority
                        /\ wire'[Cmd(x)] = "unsent"
                        /\ \A v \in Workers : pc'[v] = "authorized" /\ Cmd(v) = Cmd(x) => v = x
      BY <1>3 DEF PosterIsAlone, Cmd, storeVars
    <2>1. /\ x # w
          /\ pc[x] = "authorized"
          /\ \A v \in Workers : pc'[v] = "authorized" => pc[v] = "authorized"
      BY <1>1, <1>3 DEF LaneInv, DispatchTypeOK
    <2>2. /\ authority[Cmd(x)] # NoAuthority
          /\ wire[Cmd(x)] = "unsent"
          /\ \A v \in Workers : pc[v] = "authorized" /\ Cmd(v) = Cmd(x) => v = x
          /\ Cmd(x) \in Commands
      BY <1>1, <2>1 DEF LaneInv, PosterIsAlone, Placed, FenceIssued
    <2>3. wire'[Cmd(x)] = "unsent"
      BY <1>1, <1>2, <1>3, <2>1, <2>2 DEF LaneInv, DispatchTypeOK
    <2> QED
      BY <2>1, <2>2, <2>3
  <1>8. WireFollowsSends'
    BY <1>1, <1>2, <1>3, <1>4 DEF LaneInv, DispatchTypeOK, WireFollowsSends, storeVars,
       ResponseReports
  <1>9. PreflightObservedUnderClaim'
    BY <1>1, <1>3 DEF LaneInv, PreflightObservedUnderClaim, storeVars
  <1>10. EndedIsOver'
    <2>1. command[c] # "terminal"
      BY <1>1, <1>2 DEF LaneInv, EndedIsOver
    <2> QED
      BY <1>1, <1>3, <2>1 DEF LaneInv, DispatchTypeOK, EndedIsOver, storeVars, Net
  <1> QED
    BY <1>5, <1>6, <1>7, <1>8, <1>9, <1>10 DEF LaneInv

(***************************************************************************)
(* The reconciliation handler.                                             *)
(***************************************************************************)

\* What the fills of leg rows leave is an integer.
LEMMA NetType ==
    ASSUME NEW rows \in [Roles -> LegRow]
    PROVE  Net(rows) \in Int
  <1>1. \A r \in Roles : rows[r].filled \in Int
    BY ConstantsAssumption DEF LegRow
  <1> QED
    BY <1>1, ConstantsAssumption DEF Net

\* The fills alone decide what they leave.
LEMMA NetOfRows ==
    ASSUME NEW rows, NEW others, \A r \in Roles : rows[r] = others[r]
    PROVE  Net(rows) = Net(others)
  BY ConstantsAssumption DEF Net

\* The account snapshot: the worker holds a command and no fence yet.
LEMMA AccountLane ==
    ASSUME DispatchInv, EntryInv', NEW w \in Workers, ReadAccount(w)
    PROVE  LaneInv'
  <1>1. EntryInv /\ LaneInv
    BY DEF DispatchInv
  <1>2. PICK c \in Commands :
           /\ held' = [held EXCEPT ![w] = [command |-> c, token |-> 0]]
           /\ view' = [view EXCEPT ![w] =
                  [position |-> Net(book[c]), covered |-> Covered(book[c]),
                   orphan |-> Net(book[c]) = 0 /\ StopOpen(book[c]), at |-> now,
                   legs |-> AbsentLegs, complete |-> FALSE]]
    BY DEF ReadAccount
  <1>3. PlainMoves
    BY <1>1, QuietMoves DEF ReadAccount, storeVars
  <1>4. PreflightObservedUnderClaim' /\ EndedIsOver'
    BY <1>1, <1>3, PreflightStays, EndedStays DEF LaneInv, venueVars, ReadAccount
  <1>5. Net(book[c]) \in Int /\ Covered(book[c]) \in Int /\ now \in Int
    <2>1. book[c] \in [Roles -> LegRow]
      BY <1>1 DEF LaneInv, DispatchTypeOK
    <2>2. book[c]["protective_stop"].filled \in Int
      BY <2>1, ConstantsAssumption DEF LegRow
    <2> QED
      BY <1>1, <2>1, <2>2, NetType, ConstantsAssumption DEF Covered, EntryInv, TypeOK
  <1>6. view'[w] \in ViewRow
    <2> DEFINE o == Net(book[c]) = 0 /\ StopOpen(book[c])
    <2>1. o \in BOOLEAN
      BY DEF StopOpen
    <2>2. \A b \in BOOLEAN :
             [position |-> Net(book[c]), covered |-> Covered(book[c]), orphan |-> b,
              at |-> now, legs |-> AbsentLegs, complete |-> FALSE] \in ViewRow
      BY <1>5, AbsentHolds DEF ViewRow
    <2>3. view'[w] = [position |-> Net(book[c]), covered |-> Covered(book[c]), orphan |-> o,
                      at |-> now, legs |-> AbsentLegs, complete |-> FALSE]
      BY <1>1, <1>2 DEF LaneInv, DispatchTypeOK
    <2> HIDE DEF o
    <2> QED
      BY <2>1, <2>2, <2>3
  <1>7. [command |-> c, token |-> 0] \in HoldRow
    BY DEF HoldRow
  <1>8. DispatchTypeOK'
    BY <1>1, <1>2, <1>6, <1>7 DEF LaneInv, DispatchTypeOK, venueVars, ReadAccount, Goto,
       DispatchSteps
  <1>9. /\ pc'[w] = "account_read"
        /\ held'[w].command = c
        /\ held'[w].token = 0
        /\ \A v \in Workers \ {w} : Stays(v)
    BY <1>1, <1>2 DEF LaneInv, DispatchTypeOK, ReadAccount, Goto, Stays
  <1>10. outbox'[c].token \in Nat
    BY DEF EntryInv, TypeOK, OutboxRow
  <1>11. Arrives(w)
    BY <1>9, <1>10 DEF Arrives, Placed, FenceIssued, PreflightHeld, EvidenceStands, Cmd, Fence
  <1> QED
    BY <1>3, <1>4, <1>8, <1>9, <1>11, LaneStep DEF PlainMoves, ReadAccount

\* The order reads: complete evidence shows the book as it is.
LEMMA OrdersLane ==
    ASSUME DispatchInv, EntryInv', NEW w \in Workers, ReadOrders(w)
    PROVE  LaneInv'
  <1> DEFINE c == Cmd(w)
             b == EvidenceComplete(c, view[w])
  <1>1. EntryInv /\ LaneInv
    BY DEF DispatchInv
  <1>2. /\ pc[w] # "idle"
        /\ c \in Commands
        /\ Placed(w)
        /\ pc' = [pc EXCEPT ![w] = "orders_read"]
        /\ view' = [view EXCEPT ![w] = [view[w] EXCEPT !.legs = book[c], !.complete = b]]
        /\ UNCHANGED <<storeVars, held, venueVars>>
    BY <1>1 DEF LaneInv, Placed, FenceIssued, ReadOrders, Goto
  <1>3. b \in BOOLEAN
    BY DEF EvidenceComplete
  <1>4. b => /\ wire[c] = "landed"
             /\ Net(book[c]) = view[w].position
    BY <1>1, <1>2, ConstantsAssumption DEF EvidenceComplete, LaneInv, WireFollowsSends
  <1>5. view[w] \in ViewRow /\ book[c] \in [Roles -> LegRow]
    BY <1>1, <1>2 DEF LaneInv, DispatchTypeOK
  <1>6. PlainMoves
    BY <1>1, <1>2, QuietMoves DEF storeVars
  <1>7. PreflightObservedUnderClaim' /\ EndedIsOver'
    BY <1>1, <1>2, <1>6, PreflightStays, EndedStays DEF LaneInv, venueVars
  <1> HIDE DEF b, c
  <1>8. /\ view'[w] \in ViewRow
        /\ view'[w].legs = book[c]
        /\ view'[w].complete = b
        /\ view'[w].position = view[w].position
    <2>1. view'[w] = [view[w] EXCEPT !.legs = book[c], !.complete = b]
      BY <1>1, <1>2 DEF LaneInv, DispatchTypeOK
    <2> QED
      BY <1>3, <1>5, <2>1 DEF ViewRow
  <1>9. DispatchTypeOK'
    BY <1>1, <1>2, <1>8 DEF LaneInv, DispatchTypeOK, venueVars, DispatchSteps
  <1>10. /\ pc'[w] = "orders_read"
         /\ \A v \in Workers \ {w} : Stays(v)
    BY <1>1, <1>2 DEF LaneInv, DispatchTypeOK, Stays
  <1>11. Placed(w)'
    <2>1. FenceIssued(w)' /\ PreflightHeld(w)'
      BY <1>2, <1>10 DEF Placed, FenceIssued, PreflightHeld, Cmd, Fence, storeVars
    <2>2. EvidenceStands(w)'
      BY <1>2, <1>4, <1>8 DEF EvidenceStands, Cmd, venueVars, Net, c
    <2> QED
      BY <2>1, <2>2 DEF Placed
  <1> QED
    BY <1>2, <1>6, <1>7, <1>9, <1>10, <1>11, LaneStep DEF PlainMoves, Arrives

\* claim_reconciliation: the evidence read before the claim stands after it.
LEMMA ClaimLane ==
    ASSUME DispatchInv, EntryInv', NEW w \in Workers, ClaimForEvidence(w)
    PROVE  LaneInv'
  <1> DEFINE c == Cmd(w)
  <1>1. EntryInv /\ LaneInv
    BY DEF DispatchInv
  <1>2. /\ pc[w] = "orders_read"
        /\ c \in Commands
        /\ Placed(w)
        /\ held[w] \in HoldRow
        /\ pc' = [pc EXCEPT ![w] = "reconciling"]
        /\ held' = [held EXCEPT ![w] = [held[w] EXCEPT !.token = outbox'[c].token]]
        /\ UNCHANGED <<view, venueVars>>
    BY <1>1 DEF LaneInv, DispatchTypeOK, Placed, FenceIssued, ClaimForEvidence, Goto
  <1>3. PICK l \in Leases : ClaimReconciliation(c, w, now, l)
    BY DEF ClaimForEvidence
  <1>4. PlainMoves
    BY <1>1, <1>2, <1>3, ClaimMoves
  <1>5. PreflightObservedUnderClaim' /\ EndedIsOver'
    BY <1>1, <1>2, <1>4, PreflightStays, EndedStays DEF LaneInv, venueVars
  <1>6. outbox'[c].token \in Nat
    BY <1>2 DEF EntryInv, TypeOK, OutboxRow
  <1>7. held[w].command = c
    BY DEF Cmd
  <1> HIDE DEF c
  <1>8. /\ held'[w] \in HoldRow
        /\ held'[w].command = c
        /\ held'[w].token = outbox'[c].token
    <2>1. held'[w] = [held[w] EXCEPT !.token = outbox'[c].token]
      BY <1>1, <1>2 DEF LaneInv, DispatchTypeOK
    <2> QED
      BY <1>2, <1>6, <1>7, <2>1 DEF HoldRow
  <1>9. DispatchTypeOK'
    BY <1>1, <1>2, <1>8 DEF LaneInv, DispatchTypeOK, venueVars, DispatchSteps
  <1>10. /\ pc'[w] = "reconciling"
         /\ \A v \in Workers \ {w} : Stays(v)
    BY <1>1, <1>2 DEF LaneInv, DispatchTypeOK, Stays
  <1>11. Placed(w)'
    <2>1. FenceIssued(w)' /\ PreflightHeld(w)'
      BY <1>2, <1>6, <1>8, <1>10 DEF FenceIssued, PreflightHeld, Cmd, Fence
    <2>2. EvidenceStands(w)'
      BY <1>2, <1>7, <1>8 DEF Placed, EvidenceStands, Cmd, venueVars, Net
    <2> QED
      BY <2>1, <2>2 DEF Placed
  <1> QED
    BY <1>2, <1>4, <1>5, <1>9, <1>10, <1>11, LaneStep DEF PlainMoves, Arrives

\* Evidence that ends a command shows what the venue's book still shows.
LEMMA EndingEvidence ==
    ASSUME LaneInv, NEW w \in Workers, pc[w] = "reconciling", Cmd(w) \in Commands,
           EndsCommand(view[w].complete, LegsAfter(Cmd(w), Roles, view[w].legs),
                       view[w].position, view[w].covered)
    PROVE  /\ wire[Cmd(w)] = "landed"
           /\ \A r \in Roles : book[Cmd(w)][r].status \in TerminalLegStates
           /\ Net(book[Cmd(w)]) = 0
  <1>1. /\ view[w].complete
        /\ view[w].position = 0
        /\ \A r \in Roles : view[w].legs[r].status \in TerminalLegStates
    BY DEF EndsCommand, LegsAfter
  <1>2. EvidenceStands(w)
    BY DEF LaneInv, Placed
  <1>3. /\ wire[Cmd(w)] = "landed"
        /\ Net(view[w].legs) = 0
        /\ \A r \in Roles : book[Cmd(w)][r] = view[w].legs[r]
    BY <1>1, <1>2 DEF EvidenceStands
  <1>4. Net(book[Cmd(w)]) = 0
    BY <1>3, NetOfRows
  <1> QED
    BY <1>1, <1>3, <1>4

\* reconcile: a command ends only on evidence that is still true of the venue.
LEMMA ApplyLane ==
    ASSUME DispatchInv, EntryInv', NEW w \in Workers, ApplyEvidence(w)
    PROVE  LaneInv'
  <1> DEFINE c == Cmd(w)
             rows == LegsAfter(c, Roles, view[w].legs)
             ends == EndsCommand(view[w].complete, rows, view[w].position, view[w].covered)
  <1>1. EntryInv /\ LaneInv
    BY DEF DispatchInv
  <1>2. /\ pc[w] = "reconciling"
        /\ c \in Commands
        /\ UNCHANGED <<held, view, venueVars>>
    BY <1>1 DEF LaneInv, Placed, FenceIssued, ApplyEvidence
  <1>3. PICK new \in SUBSET IncidentIds :
           Reconcile(c, w, Fence(w), now, view[w].at, view[w].complete, Roles,
                     view[w].legs, view[w].position, view[w].covered, new)
    BY DEF ApplyEvidence
  <1>4. PICK s \in {"reconciling", "terminal"} :
           /\ outbox' = [outbox EXCEPT ![c] = Released(c, s)]
           /\ s = "terminal" => ends
           /\ UNCHANGED <<preflight, attempt, authority>>
    BY <1>3 DEF Reconcile, Finish
  <1>5. /\ Released(c, s).state = s
        /\ Released(c, s).token = outbox[c].token
    BY <1>1, <1>2, ReleasedRow DEF EntryInv, CommandStates
  <1>6. ASSUME NEW d \in Commands
        PROVE  /\ outbox[d].token \in Nat
               /\ outbox'[d].token = outbox[d].token
               /\ outbox'[d].state # "claimed" \/ outbox'[d] = outbox[d]
               /\ command[d] = outbox[d].state
               /\ command'[d] = outbox'[d].state
               /\ d # c => outbox'[d] = outbox[d]
    BY <1>1, <1>2, <1>4, <1>5, TokenTypes DEF EntryInv, TypeOK, RowsAgree
  <1>7. StoreMoves /\ \A d \in Commands : AttemptKept(d)
    BY <1>4, <1>6 DEF StoreMoves, ClaimKept, PreflightKept, AuthorityKept, AttemptKept
  <1>8. EndedIsOver'
    <2>1. ends => /\ wire[c] = "landed"
                  /\ \A r \in Roles : book[c][r].status \in TerminalLegStates
                  /\ Net(book[c]) = 0
      BY <1>1, <1>2, EndingEvidence
    <2>2. outbox'[c].state = "terminal" => ends
      BY <1>1, <1>2, <1>4, <1>5 DEF EntryInv, TypeOK
    <2> HIDE DEF ends, c
    <2> QED
      BY <1>1, <1>2, <1>4, <1>6, <2>1, <2>2 DEF LaneInv, EndedIsOver, venueVars, Net
  <1>9. PreflightObservedUnderClaim'
    BY <1>1, <1>4, <1>6 DEF LaneInv, PreflightObservedUnderClaim
  <1> QED
    BY <1>2, <1>7, <1>8, <1>9, GotoStep DEF ApplyEvidence, DispatchSteps

(***************************************************************************)
(* The service tick, the clock, the network and the venue.                 *)
(***************************************************************************)

\* The transactions of the service tick are plain.
LEMMA ServiceMoves ==
    ASSUME EntryInv, EntryInv', ServiceStep
    PROVE  PlainMoves
  <1>1. "queued" \in CommandStates /\ "terminal" \in CommandStates
    BY DEF CommandStates
  <1>2. CASE RegisterInfrastructureGrant(now)
    BY <1>2, QuietMoves DEF RegisterInfrastructureGrant
  <1>3. CASE NormalizeExpiredEntryClaims(now)
    <2>1. /\ NormalizeRows(now)
          /\ \A d \in Commands \ {} : outbox'[d] = NormalOutbox(now)[d]
          /\ UNCHANGED <<preflight, authority>>
      BY <1>3 DEF NormalizeExpiredEntryClaims
    <2>2. {} \in SUBSET Commands
      OBVIOUS
    <2> QED
      BY <2>1, <2>2, NormalizeMoves
  <1>4. ASSUME NEW c \in Commands, RegisterTicket(c, now) \/ RegisterApproval(c)
        PROVE  PlainMoves
    BY <1>4, QuietMoves DEF RegisterTicket, RegisterApproval
  <1>5. ASSUME NEW c \in Commands, Admit(c, now) PROVE PlainMoves
    BY <1>1, <1>5, ReleaseMoves DEF Admit, Queue
  <1>6. ASSUME NEW c \in Commands, ExpireNextQueuedUnsent(c, now) PROVE PlainMoves
    BY <1>1, <1>6, ReleaseMoves DEF ExpireNextQueuedUnsent, TerminateUnsent
  <1> QED
    BY <1>2, <1>3, <1>4, <1>5, <1>6 DEF ServiceStep

\* A step in which no worker and nothing at the venue moves.
LEMMA IdleLane ==
    ASSUME DispatchInv, EntryInv', PlainMoves, UNCHANGED <<processVars, venueVars>>
    PROVE  LaneInv'
  <1>1. EntryInv /\ LaneInv
    BY DEF DispatchInv
  <1>2. PreflightObservedUnderClaim' /\ EndedIsOver'
    BY <1>1, PreflightStays, EndedStays DEF LaneInv, venueVars
  <1>3. DispatchTypeOK'
    BY <1>1 DEF LaneInv, DispatchTypeOK, processVars, venueVars
  <1>4. \A v \in Workers : Stays(v)
    BY DEF Stays, processVars
  <1> QED
    BY <1>2, <1>3, <1>4, LaneStep DEF PlainMoves

\* What the network and the venue change of one command: its wire, its answer
\* and rows of its book that are not over.
LEMMA VenueLane ==
    ASSUME DispatchInv, DispatchTypeOK', WireFollowsSends', NEW c \in Commands,
           UNCHANGED <<storeVars, processVars, sends>>,
           \A d \in Commands : d # c => wire'[d] = wire[d] /\ book'[d] = book[d],
           wire[c] \in {"flying", "landed"},
           wire[c] = "landed" => wire'[c] = "landed",
           wire[c] = "landed" =>
              \A r \in Roles : book[c][r].status \in TerminalLegStates =>
                                  book'[c][r] = book[c][r]
    PROVE  LaneInv'
  <1>1. EntryInv /\ LaneInv
    BY DEF DispatchInv
  <1>2. ASSUME NEW v \in Workers PROVE Placed(v)'
    <2>1. Stays(v) /\ Placed(v) /\ UNCHANGED <<outbox, preflight>>
      BY <1>1 DEF LaneInv, Stays, processVars, storeVars
    <2>2. ASSUME pc[v] \in {"orders_read", "reconciling"}, view[v].complete
          PROVE  /\ wire[Cmd(v)] = "landed" => wire'[Cmd(v)] = "landed"
                 /\ \A r \in Roles : book[Cmd(v)][r].status \in TerminalLegStates =>
                                        book'[Cmd(v)][r] = book[Cmd(v)][r]
      BY <2>1, <2>2 DEF Placed, FenceIssued, EvidenceStands
    <2> QED
      BY <2>1, <2>2, VenuePlaced
  <1>3. PosterIsAlone'
    <2>1. \A w \in Workers : pc[w] = "authorized" => Cmd(w) \in Commands /\ Cmd(w) # c
      BY <1>1 DEF LaneInv, PosterIsAlone, Placed, FenceIssued
    <2> QED
      BY <1>1, <2>1 DEF LaneInv, PosterIsAlone, Cmd, processVars, storeVars
  <1>4. PreflightObservedUnderClaim'
    BY <1>1 DEF LaneInv, PreflightObservedUnderClaim, storeVars
  <1>5. EndedIsOver'
    <2> SUFFICES ASSUME NEW d \in Commands, command[d] = "terminal",
                        authority[d] # NoAuthority
                 PROVE  /\ wire'[d] = "landed"
                        /\ \A r \in Roles : book'[d][r].status \in TerminalLegStates
                        /\ Net(book'[d]) = 0
      BY DEF EndedIsOver, storeVars, Net
    <2>1. /\ wire[d] = "landed"
          /\ \A r \in Roles : book[d][r].status \in TerminalLegStates
          /\ Net(book[d]) = 0
      BY <1>1 DEF LaneInv, EndedIsOver
    <2>2. \A r \in Roles : book'[d][r] = book[d][r]
      BY <2>1
    <2> QED
      BY <2>1, <2>2, NetOfRows
  <1> QED
    BY <1>2, <1>3, <1>4, <1>5 DEF LaneInv

\* The request reaches the matching engine.
LEMMA LandLane ==
    ASSUME DispatchInv, NEW c \in Commands, Land(c)
    PROVE  LaneInv'
  <1>1. LaneInv
    BY DEF DispatchInv
  <1>2. PICK answer \in [Roles -> VenueReports \cap ResponseReports] :
           /\ book' = [book EXCEPT ![c] = answer]
           /\ reply' = [reply EXCEPT ![c] = answer]
    BY DEF Land
  <1>3. /\ answer \in [Roles -> ResponseReports]
        /\ answer \in [Roles -> LegRow]
        /\ \A r \in Roles : answer[r].status # "absent"
    BY ReportRows DEF ResponseReports
  <1>4. /\ wire[c] = "flying"
        /\ wire' = [wire EXCEPT ![c] = "landed"]
        /\ UNCHANGED <<storeVars, processVars, sends>>
    BY DEF Land
  <1>5. DispatchTypeOK'
    BY <1>1, <1>2, <1>3, <1>4 DEF LaneInv, DispatchTypeOK, processVars
  <1>6. WireFollowsSends'
    BY <1>1, <1>2, <1>3, <1>4 DEF LaneInv, DispatchTypeOK, WireFollowsSends, storeVars,
       ResponseReports
  <1>7. \A d \in Commands : d # c => wire'[d] = wire[d] /\ book'[d] = book[d]
    BY <1>1, <1>2, <1>4 DEF LaneInv, DispatchTypeOK
  <1> QED
    BY <1>4, <1>5, <1>6, <1>7, VenueLane

\* The request is lost or refused.
LEMMA DropLane ==
    ASSUME DispatchInv, NEW c \in Commands, Drop(c)
    PROVE  LaneInv'
  <1>1. LaneInv
    BY DEF DispatchInv
  <1>2. PICK end \in {"lost", "refused"} : wire' = [wire EXCEPT ![c] = end]
    BY DEF Drop
  <1>3. /\ wire[c] = "flying"
        /\ UNCHANGED <<storeVars, processVars, sends, reply, book, stamp>>
    BY DEF Drop
  <1>4. DispatchTypeOK'
    BY <1>1, <1>2, <1>3 DEF LaneInv, DispatchTypeOK, processVars
  <1>5. WireFollowsSends'
    BY <1>1, <1>2, <1>3 DEF LaneInv, DispatchTypeOK, WireFollowsSends, storeVars,
       ResponseReports
  <1>6. \A d \in Commands : d # c => wire'[d] = wire[d] /\ book'[d] = book[d]
    BY <1>1, <1>2, <1>3 DEF LaneInv, DispatchTypeOK
  <1> QED
    BY <1>3, <1>4, <1>5, <1>6, VenueLane

\* A live order moves: what is over stays as it is.
LEMMA MarketLane ==
    ASSUME DispatchInv, NEW c \in Commands, VenueMoves(c)
    PROVE  LaneInv'
  <1>1. LaneInv
    BY DEF DispatchInv
  <1>2. PICK r \in Roles, l \in VenueReports :
           /\ book[c][r].status \notin TerminalLegStates
           /\ l.status # "absent"
           /\ book' = [book EXCEPT ![c] = [book[c] EXCEPT ![r] = l]]
    BY DEF VenueMoves
  <1>3. /\ wire[c] = "landed"
        /\ UNCHANGED <<storeVars, processVars, wire, sends, reply>>
    BY DEF VenueMoves
  <1>4. l \in LegRow
    BY ReportRows, EvidenceAssumption
  <1>5. DispatchTypeOK'
    BY <1>1, <1>2, <1>3, <1>4 DEF LaneInv, DispatchTypeOK, processVars
  <1>6. /\ \A d \in Commands : d # c => wire'[d] = wire[d] /\ book'[d] = book[d]
        /\ book'[c][r] = l
        /\ \A q \in Roles : q # r => book'[c][q] = book[c][q]
    BY <1>1, <1>2, <1>3 DEF LaneInv, DispatchTypeOK
  <1>7. WireFollowsSends'
    BY <1>1, <1>2, <1>3, <1>6 DEF LaneInv, WireFollowsSends, storeVars, ResponseReports
  <1> QED
    BY <1>2, <1>3, <1>5, <1>6, <1>7, VenueLane

(***************************************************************************)
(* The invariant, and what it says of the lane.                            *)
(***************************************************************************)

\* The invariant holds before the first command.
LEMMA DispatchInitInv == DispatchInit => DispatchInv
  <1> SUFFICES ASSUME DispatchInit PROVE DispatchInv
    OBVIOUS
  <1>1. EntryInv
    BY InitInv DEF DispatchInit
  <1>2. DispatchTypeOK
    BY AbsentHolds DEF DispatchInit, DispatchTypeOK, DispatchSteps
  <1>3. \A w \in Workers : pc[w] = "idle"
    BY DEF DispatchInit
  <1>4. (\A w \in Workers : Placed(w)) /\ PosterIsAlone
    BY <1>3 DEF Placed, FenceIssued, PreflightHeld, EvidenceStands, PosterIsAlone
  <1>5. WireFollowsSends
    BY DEF DispatchInit, WireFollowsSends, AbsentLegs
  <1>6. PreflightObservedUnderClaim /\ EndedIsOver
    BY DEF DispatchInit, EntryInit, PreflightObservedUnderClaim, EndedIsOver
  <1> QED
    BY <1>1, <1>2, <1>4, <1>5, <1>6 DEF DispatchInv, LaneInv

\* Every step of the composed lane keeps the invariant.
LEMMA DispatchNextInv == DispatchInv /\ [DispatchNext]_dispatchVars => DispatchInv'
  <1> SUFFICES ASSUME DispatchInv, [DispatchNext]_dispatchVars PROVE DispatchInv'
    OBVIOUS
  <1>1. EntryInv /\ EntryInv'
    BY DispatchEntryInv DEF DispatchInv
  <1>2. SUFFICES LaneInv'
    BY <1>1 DEF DispatchInv
  <1>3. CASE UNCHANGED dispatchVars
    <2>1. PlainMoves
      BY <1>1, <1>3, QuietMoves DEF dispatchVars, entryVars, storeVars
    <2> QED
      BY <1>1, <1>3, <2>1, IdleLane DEF dispatchVars
  <1>4. CASE Tick /\ UNCHANGED <<processVars, venueVars>>
    <2>1. PlainMoves
      BY <1>1, <1>4, QuietMoves DEF Tick, storeVars
    <2> QED
      BY <1>1, <1>4, <2>1, IdleLane
  <1>5. CASE ServiceStep
    BY <1>1, <1>5, ServiceMoves, IdleLane DEF ServiceStep
  <1>6. ASSUME NEW w \in Workers, WorkerStep(w) PROVE LaneInv'
    BY <1>1, <1>6, BeginLane, EvidenceLane, PrepareLane, ConsumeLane, ReturnLane, SkipLane,
       PostLane, AccountLane, OrdersLane, ClaimLane, ApplyLane DEF WorkerStep
  <1>7. CASE VenueStep
    BY <1>7, LandLane, DropLane, MarketLane DEF VenueStep
  <1> QED
    BY <1>3, <1>4, <1>5, <1>6, <1>7 DEF DispatchNext

\* The inductive invariant of the composed lane: the store's, and the places of
\* workers, wire and book.
THEOREM DispatchInvariant == DispatchSpec => []DispatchInv
  BY DispatchInitInv, DispatchNextInv, PTL DEF DispatchSpec

\* However workers crash, lapse or race, a command's signed bytes are posted at
\* most once, and only after the store recorded the authority to do so.
THEOREM SentAtMostOnce == DispatchSpec => []AtMostOneSend
  <1>1. DispatchInv => AtMostOneSend
    BY DEF DispatchInv, LaneInv, WireFollowsSends, AtMostOneSend
  <1> QED
    BY <1>1, DispatchInvariant, PTL

\* The preflight behind a prepared attempt was observed under the claim that
\* sends it.
THEOREM PreflightUnderOwnClaim == DispatchSpec => []PreflightObservedUnderClaim
  <1>1. DispatchInv => PreflightObservedUnderClaim
    BY DEF DispatchInv, LaneInv
  <1> QED
    BY <1>1, DispatchInvariant, PTL

\* The reservation of an entry is released only when its request can no longer
\* trade, although account and orders are read at different moments and applied
\* later.
THEOREM ReleasedCannotTrade == DispatchSpec => []ReleasedRiskCannotTrade
  <1>1. DispatchInv => ReleasedRiskCannotTrade
    <2> SUFFICES ASSUME DispatchInv, NEW c \in Commands, command[c] = "terminal"
                 PROVE  /\ \A w \in Workers : Cmd(w) = c => pc[w] # "authorized"
                        /\ wire[c] # "flying"
                        /\ wire[c] = "landed" =>
                              /\ \A r \in Roles : book[c][r].status \in TerminalLegStates
                              /\ Net(book[c]) = 0
      BY DEF ReleasedRiskCannotTrade
    <2>1. EndedIsOver /\ WireFollowsSends /\ PosterIsAlone
      BY DEF DispatchInv, LaneInv
    <2> QED
      BY <2>1 DEF EndedIsOver, WireFollowsSends, PosterIsAlone
  <1> QED
    BY <1>1, DispatchInvariant, PTL

(***************************************************************************)
(* Refinement: each step is a step of OneShotSubmission, or none.          *)
(***************************************************************************)

\* The stages a step may take one command through.
StageMoves(c) ==
    \/ StageOf(c)' = StageOf(c)
    \/ /\ StageOf(c) = "none"
       /\ StageOf(c)' = "open"
       /\ \A d \in Commands : StageOf(d) \notin {"open", "committed"}
    \/ StageOf(c) = "open" /\ StageOf(c)' \in {"committed", "void"}
    \/ StageOf(c) = "committed" /\ StageOf(c)' = "settled"

\* One command moves and nothing lands: a step of the abstract specification.
LEMMA OneStageMoves ==
    ASSUME NEW c \in Commands, StageMoves(c), UNCHANGED wire,
           \A d \in Commands : d # c => StageOf(d)' = StageOf(d)
    PROVE  [OneShot!ShotNext]_(OneShot!shotVars)
  <1> DEFINE f == [d \in Commands |-> StageOf(d)]
             g == [d \in Commands |-> wire[d] = "landed"]
  <1>1. g' = g
    OBVIOUS
  <1>2. f' = [f EXCEPT ![c] = StageOf(c)']
    OBVIOUS
  <1>3. CASE StageOf(c)' = StageOf(c)
    <2>1. f' = f
      BY <1>3
    <2> QED
      BY <1>1, <2>1 DEF OneShot!shotVars
  <1>4. CASE /\ StageOf(c) = "none"
             /\ StageOf(c)' = "open"
             /\ \A d \in Commands : StageOf(d) \notin {"open", "committed"}
    <2>1. OneShot!Open(c)
      BY <1>1, <1>2, <1>4 DEF OneShot!Open, OneShot!Alive, OneShot!Enter
    <2> QED
      BY <2>1 DEF OneShot!ShotNext
  <1>5. CASE StageOf(c) = "open" /\ StageOf(c)' \in {"committed", "void"}
    <2>1. OneShot!Commit(c) \/ OneShot!Void(c)
      BY <1>1, <1>2, <1>5 DEF OneShot!Commit, OneShot!Void, OneShot!Enter
    <2> QED
      BY <2>1 DEF OneShot!ShotNext
  <1>6. CASE StageOf(c) = "committed" /\ StageOf(c)' = "settled"
    <2>1. OneShot!Settle(c)
      BY <1>1, <1>2, <1>6 DEF OneShot!Settle, OneShot!Enter
    <2> QED
      BY <2>1 DEF OneShot!ShotNext
  <1> QED
    BY <1>3, <1>4, <1>5, <1>6 DEF StageMoves

\* No command moves and nothing lands: the abstract specification stutters.
LEMMA NoStageMoves ==
    ASSUME \A d \in Commands : StageOf(d)' = StageOf(d),
           \A d \in Commands : (wire'[d] = "landed") = (wire[d] = "landed")
    PROVE  [OneShot!ShotNext]_(OneShot!shotVars)
  <1> DEFINE f == [d \in Commands |-> StageOf(d)]
             g == [d \in Commands |-> wire[d] = "landed"]
  <1>1. g' = g
    BY Zenon
  <1>2. f' = f
    OBVIOUS
  <1> QED
    BY <1>1, <1>2 DEF OneShot!shotVars

\* The stage of a command in terms of its rows.
LEMMA Stages ==
    ASSUME NEW c \in Commands
    PROVE  /\ command[c] = "none" => StageOf(c) = "none"
           /\ command[c] = "terminal" /\ authority[c] = NoAuthority => StageOf(c) = "void"
           /\ command[c] = "terminal" /\ authority[c] # NoAuthority => StageOf(c) = "settled"
           /\ command[c] \notin {"none", "terminal"} /\ authority[c] = NoAuthority =>
                 StageOf(c) = "open"
           /\ command[c] \notin {"none", "terminal"} /\ authority[c] # NoAuthority =>
                 StageOf(c) = "committed"
  BY DEF StageOf

\* The same after a step.
LEMMA StagesAfter ==
    ASSUME NEW c \in Commands
    PROVE  /\ command'[c] = "none" => StageOf(c)' = "none"
           /\ command'[c] = "terminal" /\ authority'[c] = NoAuthority => StageOf(c)' = "void"
           /\ command'[c] = "terminal" /\ authority'[c] # NoAuthority => StageOf(c)' = "settled"
           /\ command'[c] \notin {"none", "terminal"} /\ authority'[c] = NoAuthority =>
                 StageOf(c)' = "open"
           /\ command'[c] \notin {"none", "terminal"} /\ authority'[c] # NoAuthority =>
                 StageOf(c)' = "committed"
  BY DEF StageOf

\* A command that stays alive, or keeps its state, keeps its stage while its
\* authority is what it was.
LEMMA StageKept ==
    ASSUME NEW c \in Commands, authority'[c] = authority[c],
           \/ command'[c] = command[c]
           \/ command[c] \notin {"none", "terminal"} /\ command'[c] \notin {"none", "terminal"}
    PROVE  StageOf(c)' = StageOf(c)
  BY Stages, StagesAfter

\* A release moves the stage of its own command only: it opens it, ends it
\* unsent or settled, or leaves it alive.
LEMMA ReleaseShot ==
    ASSUME EntryInv, EntryInv', NEW c \in Commands, NEW s \in CommandStates, s # "none",
           outbox' = [outbox EXCEPT ![c] = Released(c, s)], UNCHANGED <<authority, wire>>,
           \/ s = "queued" /\ command[c] = "none" /\ \A d \in Commands : ~Nonterminal(d)
           \/ Nonterminal(c)
    PROVE  [OneShot!ShotNext]_(OneShot!shotVars)
  <1>1. /\ Released(c, s).state = s
        /\ \A d \in Commands : /\ command[d] = outbox[d].state
                               /\ command'[d] = outbox'[d].state
    BY ReleasedRow DEF EntryInv, RowsAgree
  <1>2. command'[c] = s /\ \A d \in Commands : d # c => command'[d] = command[d]
    BY <1>1 DEF EntryInv, TypeOK
  <1>3. \A d \in Commands : d # c => StageOf(d)' = StageOf(d)
    BY <1>2, StageKept
  <1>4. CASE Nonterminal(c)
    BY <1>2, <1>3, <1>4, Stages, StagesAfter, OneStageMoves DEF StageMoves, Nonterminal
  <1>5. CASE s = "queued" /\ command[c] = "none" /\ \A d \in Commands : ~Nonterminal(d)
    <2>1. authority[c] = NoAuthority
      BY <1>5 DEF EntryInv, AuthorizedIsNeverUnsent
    <2>2. \A d \in Commands : StageOf(d) \notin {"open", "committed"}
      <3> SUFFICES ASSUME NEW d \in Commands PROVE StageOf(d) \in {"none", "void", "settled"}
        OBVIOUS
      <3> QED
        BY <1>5, Stages DEF Nonterminal
    <2> QED
      BY <1>2, <1>3, <1>5, <2>1, <2>2, Stages, StagesAfter, OneStageMoves DEF StageMoves
  <1> QED
    BY <1>4, <1>5

\* Normalization, with or without a claim after it, voids at most one command.
LEMMA NormalizeShot ==
    ASSUME EntryInv, EntryInv', NEW at, NormalizeRows(at), UNCHANGED <<authority, wire>>,
           \A d \in Commands : \/ outbox'[d] = NormalOutbox(at)[d]
                               \/ /\ outbox'[d].state \in {"claimed", "reconciling"}
                                  /\ NormalOutbox(at)[d].state \in
                                        {"queued", "submitted_unknown", "reconciling"}
    PROVE  [OneShot!ShotNext]_(OneShot!shotVars)
  <1>1. ASSUME NEW d \in Commands
        PROVE  /\ NormalizedRow(d, at)
               /\ NormalOutbox(at)[d].state = NormalCommand(at)[d]
               /\ command'[d] = outbox'[d].state
    BY NormalizedRows, NormalizedClaims DEF EntryInv, RowsAgree
  <1>2. ASSUME NEW d \in Commands
        PROVE  \/ StageOf(d)' = StageOf(d)
               \/ /\ Nonterminal(d)
                  /\ StageOf(d) = "open"
                  /\ StageOf(d)' = "void"
    <2>1. CASE ClaimExpired(d, at)
      <3>1. /\ command[d] = "claimed"
            /\ \/ command'[d] \in {"queued", "submitted_unknown", "claimed", "reconciling"}
               \/ command'[d] = "terminal" /\ authority[d] = NoAuthority
        <4>1. /\ command[d] = "claimed"
              /\ \/ NormalCommand(at)[d] \in {"queued", "submitted_unknown"}
                 \/ NormalCommand(at)[d] = "terminal" /\ authority[d] = NoAuthority
          BY <1>1, <2>1 DEF NormalizedRow
        <4> QED
          BY <1>1, <4>1
      <3> QED
        BY <3>1, StageKept, Stages, StagesAfter DEF Nonterminal
    <2>2. CASE ~ClaimExpired(d, at)
      <3>1. \/ command'[d] = command[d]
            \/ /\ command'[d] \in {"claimed", "reconciling"}
               /\ command[d] \in {"queued", "submitted_unknown", "reconciling"}
        <4>1. NormalCommand(at)[d] = command[d]
          BY <1>1, <2>2 DEF NormalizedRow
        <4> QED
          BY <1>1, <4>1
      <3> QED
        BY <3>1, StageKept
    <2> QED
      BY <2>1, <2>2
  <1>3. CASE \A d \in Commands : StageOf(d)' = StageOf(d)
    BY <1>3, NoStageMoves
  <1>4. ASSUME NEW c \in Commands, StageOf(c)' # StageOf(c)
        PROVE  [OneShot!ShotNext]_(OneShot!shotVars)
    <2>1. Nonterminal(c) /\ StageMoves(c)
      BY <1>2, <1>4 DEF StageMoves
    <2>2. \A d \in Commands : d # c => StageOf(d)' = StageOf(d)
      BY <1>2, <2>1 DEF EntryInv, OneNonterminalCommand
    <2> QED
      BY <2>1, <2>2, OneStageMoves
  <1> QED
    BY <1>3, <1>4

\* Steps of the store that touch neither a command row nor an authority, and
\* steps beside the store that land nothing.
LEMMA QuietShot ==
    ASSUME UNCHANGED <<command, authority>>,
           \A d \in Commands : (wire'[d] = "landed") = (wire[d] = "landed")
    PROVE  [OneShot!ShotNext]_(OneShot!shotVars)
  BY StageKept, NoStageMoves

\* The transactions of the service tick open a command, void one, or move none.
LEMMA ServiceShot ==
    ASSUME EntryInv, EntryInv', ServiceStep
    PROVE  [OneShot!ShotNext]_(OneShot!shotVars)
  <1>1. "queued" \in CommandStates /\ "terminal" \in CommandStates
    BY DEF CommandStates
  <1>2. wire' = wire
    BY DEF ServiceStep, venueVars
  <1>3. CASE RegisterInfrastructureGrant(now)
    BY <1>2, <1>3, QuietShot DEF RegisterInfrastructureGrant
  <1>4. CASE NormalizeExpiredEntryClaims(now)
    BY <1>2, <1>4, NormalizeShot DEF NormalizeExpiredEntryClaims
  <1>5. ASSUME NEW c \in Commands, RegisterTicket(c, now) \/ RegisterApproval(c)
        PROVE  [OneShot!ShotNext]_(OneShot!shotVars)
    BY <1>2, <1>5, QuietShot DEF RegisterTicket, RegisterApproval
  <1>6. ASSUME NEW c \in Commands, Admit(c, now)
        PROVE  [OneShot!ShotNext]_(OneShot!shotVars)
    <2>1. command[c] = "none"
      BY <1>6 DEF Admit, EntryInv, RowsAgree
    <2> QED
      BY <1>1, <1>2, <1>6, <2>1, ReleaseShot DEF Admit, NewRiskAllowed, Queue
  <1>7. ASSUME NEW c \in Commands, ExpireNextQueuedUnsent(c, now)
        PROVE  [OneShot!ShotNext]_(OneShot!shotVars)
    BY <1>1, <1>2, <1>7, ReleaseShot DEF ExpireNextQueuedUnsent, TerminateUnsent, Nonterminal
  <1> QED
    BY <1>3, <1>4, <1>5, <1>6, <1>7 DEF ServiceStep

\* The steps of a worker commit a command, void or settle one, or move none.
LEMMA WorkerShot ==
    ASSUME DispatchInv, EntryInv', NEW w \in Workers, WorkerStep(w)
    PROVE  [OneShot!ShotNext]_(OneShot!shotVars)
  <1>1. EntryInv /\ LaneInv
    BY DEF DispatchInv
  <1>2. pc[w] # "idle" => Cmd(w) \in Commands
    BY <1>1, HeldTypes
  <1>3. /\ "queued" \in CommandStates
        /\ "terminal" \in CommandStates
        /\ "submitted_unknown" \in CommandStates
        /\ "reconciling" \in CommandStates
    BY DEF CommandStates
  <1>4. ASSUME NEW c \in Commands, outbox[c].state \in {"claimed", "reconciling"}
        PROVE  Nonterminal(c)
    BY <1>1, <1>4 DEF EntryInv, RowsAgree, Nonterminal
  <1>5. ASSUME NEW c \in Commands, NEW l,
               ClaimNext(c, w, now, l) \/ ClaimReconciliation(c, w, now, l), wire' = wire
        PROVE  [OneShot!ShotNext]_(OneShot!shotVars)
    <2>1. NormalOutbox(now) \in [Commands -> OutboxRow]
      BY <1>1, NormalizedClaims
    <2>2. /\ NormalizeRows(now)
          /\ authority' = authority
          /\ \A d \in Commands \ {c} : outbox'[d] = NormalOutbox(now)[d]
          /\ outbox'[c].state \in {"claimed", "reconciling"}
          /\ NormalOutbox(now)[c].state \in {"queued", "submitted_unknown", "reconciling"}
      BY <1>5, <2>1 DEF ClaimNext, ClaimReconciliation
    <2> QED
      BY <1>1, <1>5, <2>2, NormalizeShot
  <1>6. CASE BeginDispatch(w)
    BY <1>5, <1>6 DEF BeginDispatch, venueVars
  <1>7. CASE ClaimForEvidence(w)
    BY <1>2, <1>5, <1>7 DEF ClaimForEvidence, venueVars
  <1>8. CASE \/ Preflight(w) \/ AttestKey(w) \/ SignAndRenew(w) \/ Prepare(w) \/ AttestSend(w)
             \/ RecordAmbiguity(w) \/ SkipPost(w) \/ ReadAccount(w) \/ ReadOrders(w)
             \/ FinishReconcile(w) \/ Fail(w)
    <2>1. UNCHANGED <<command, authority, wire>>
      BY <1>8 DEF Preflight, AttestKey, SignAndRenew, Prepare, AttestSend, RecordAmbiguity,
         SkipPost, ReadAccount, ReadOrders, FinishReconcile, Fail, RegisterPreflight,
         RecordPreKey, RenewClaim, PrepareAttempt, RecordPreSend, RecordIncident, venueVars,
         storeVars
    <2> QED
      BY <2>1, QuietShot
  <1>9. CASE DeferRoute(w)
    BY <1>1, <1>2, <1>3, <1>4, <1>9, ReleaseShot DEF DeferRoute, DeferUnsentClaim, HasClaim,
       venueVars
  <1>10. CASE GiveUpUnsent(w)
    BY <1>1, <1>2, <1>3, <1>4, <1>10, ReleaseShot DEF GiveUpUnsent, VoidUnsentCommand,
       TerminateUnsent, HasClaim, Nonterminal, venueVars
  <1>11. CASE ConsumeAuthority(w)
    <2>0. PICK c \in Commands : c = Cmd(w)
      BY <1>2, <1>11 DEF ConsumeAuthority
    <2>1. PICK u \in Times : RequireSubmissionAuthority(c, w, Fence(w), now, u)
      BY <1>11, <2>0 DEF ConsumeAuthority
    <2>2. wire' = wire /\ now \in Nat
      BY <1>1, <1>11 DEF ConsumeAuthority, venueVars, EntryInv, TypeOK
    <2>3. [at |-> now, until |-> u] # NoAuthority
      BY <2>2 DEF NoAuthority, Never
    <2>4. /\ authority[c] = NoAuthority
          /\ authority'[c] # NoAuthority
          /\ \A d \in Commands : d # c => authority'[d] = authority[d]
          /\ command[c] = "claimed"
          /\ command' = command
      BY <1>1, <2>1, <2>2, <2>3 DEF RequireSubmissionAuthority, HasClaim, EntryInv, TypeOK,
         RowsAgree
    <2>5. StageMoves(c)
      BY <2>4, Stages, StagesAfter DEF StageMoves
    <2>6. \A d \in Commands : d # c => StageOf(d)' = StageOf(d)
      BY <2>4, StageKept
    <2> QED
      BY <2>2, <2>5, <2>6, OneStageMoves
  <1>12. CASE Post(w)
    <2> DEFINE c == Cmd(w)
    <2>1. /\ c \in Commands
          /\ wire[c] = "unsent"
          /\ wire' = [wire EXCEPT ![c] = "flying"]
          /\ UNCHANGED <<command, authority>>
      BY <1>1, <1>12 DEF Post, LaneInv, PosterIsAlone, Placed, FenceIssued, storeVars
    <2>2. \A d \in Commands : (wire'[d] = "landed") = (wire[d] = "landed")
      <3> HIDE DEF c
      <3>1. \A d \in Commands : \/ wire'[d] = wire[d]
                                \/ wire'[d] # "landed" /\ wire[d] # "landed"
        BY <1>1, <2>1 DEF LaneInv, DispatchTypeOK
      <3> QED
        BY <3>1
    <2> QED
      BY <2>1, <2>2, QuietShot
  <1>13. CASE RecordUnknown(w)
    BY <1>1, <1>2, <1>3, <1>4, <1>13, ReleaseShot DEF RecordUnknown, MarkSubmittedUnknown,
       HasClaim, venueVars
  <1>14. CASE RecordResponse(w)
    <2>1. /\ outbox[Cmd(w)].state = "claimed"
          /\ outbox' = [outbox EXCEPT ![Cmd(w)] = Released(Cmd(w), "reconciling")]
          /\ UNCHANGED <<authority, wire>>
          /\ Cmd(w) \in Commands
      BY <1>2, <1>14 DEF RecordResponse, RecordSubmissionResponse, RecordEmptyResponse,
         HasClaim, venueVars
    <2> QED
      BY <1>1, <1>3, <1>4, <2>1, ReleaseShot
  <1>15. CASE ApplyEvidence(w)
    <2>1. /\ Cmd(w) \in Commands
          /\ outbox[Cmd(w)].state = "reconciling"
          /\ \/ outbox' = [outbox EXCEPT ![Cmd(w)] = Released(Cmd(w), "reconciling")]
             \/ outbox' = [outbox EXCEPT ![Cmd(w)] = Released(Cmd(w), "terminal")]
          /\ UNCHANGED <<authority, wire>>
      BY <1>2, <1>15 DEF ApplyEvidence, Reconcile, Finish, HasClaim, venueVars
    <2> QED
      BY <1>1, <1>3, <1>4, <2>1, ReleaseShot
  <1>16. CASE RefuseEvidence(w)
    BY <1>1, <1>2, <1>3, <1>4, <1>16, ReleaseShot DEF RefuseEvidence,
       ReleaseReconciliationClaim, venueVars
  <1> QED
    BY <1>6, <1>7, <1>8, <1>9, <1>10, <1>11, <1>12, <1>13, <1>14, <1>15, <1>16 DEF WorkerStep

\* The request acts when it lands, under an authority and before its command ends.
LEMMA LandShot ==
    ASSUME DispatchInv, NEW c \in Commands, Land(c)
    PROVE  [OneShot!ShotNext]_(OneShot!shotVars)
  <1> DEFINE f == [d \in Commands |-> StageOf(d)]
             g == [d \in Commands |-> wire[d] = "landed"]
  <1>1. EntryInv /\ LaneInv
    BY DEF DispatchInv
  <1>2. /\ wire[c] = "flying"
        /\ wire' = [wire EXCEPT ![c] = "landed"]
        /\ UNCHANGED <<command, authority>>
    BY DEF Land, storeVars
  <1>3. authority[c] # NoAuthority
    BY <1>1, <1>2 DEF LaneInv, WireFollowsSends
  <1>4. command[c] \notin {"none", "terminal"}
    BY <1>1, <1>2, <1>3 DEF LaneInv, EndedIsOver, EntryInv, AuthorizedIsNeverUnsent
  <1>5. f' = f
    BY <1>2, StageKept
  <1>6. f[c] = "committed"
    BY <1>3, <1>4, Stages
  <1>7. g' = [g EXCEPT ![c] = TRUE]
    <2>1. wire'[c] = "landed" /\ \A d \in Commands : d # c => wire'[d] = wire[d]
      BY <1>1, <1>2 DEF LaneInv, DispatchTypeOK
    <2>2. \A d \in Commands : g'[d] = [g EXCEPT ![c] = TRUE][d]
      BY <2>1
    <2> QED
      BY <2>2
  <1>8. ~g[c]
    BY <1>2
  <1>9. OneShot!Act(c)
    BY <1>5, <1>6, <1>7, <1>8 DEF OneShot!Act
  <1> QED
    BY <1>9 DEF OneShot!ShotNext

\* The dispatcher, its store, the network and the venue implement the one-shot
\* promise: entries are serial, and a request acts at most once, between the
\* consumption of its authority and the end of its command.
THEOREM DispatchImplementsOneShot == DispatchSpec => ImplementsOneShot
  <1>1. DispatchInit => OneShot!ShotInit
    <2> SUFFICES ASSUME DispatchInit PROVE OneShot!ShotInit
      OBVIOUS
    <2>1. \A c \in Commands : StageOf(c) = "none" /\ wire[c] # "landed"
      BY Stages DEF DispatchInit, EntryInit
    <2>2. [c \in Commands |-> wire[c] = "landed"] = [c \in Commands |-> FALSE]
      BY <2>1
    <2> QED
      BY <2>1, <2>2 DEF OneShot!ShotInit
  <1>2. DispatchInv /\ [DispatchNext]_dispatchVars => [OneShot!ShotNext]_(OneShot!shotVars)
    <2> SUFFICES ASSUME DispatchInv, [DispatchNext]_dispatchVars
                 PROVE  [OneShot!ShotNext]_(OneShot!shotVars)
      OBVIOUS
    <2>1. EntryInv /\ EntryInv'
      BY DispatchEntryInv DEF DispatchInv
    <2>2. CASE UNCHANGED dispatchVars \/ (Tick /\ UNCHANGED <<processVars, venueVars>>)
      <3>1. UNCHANGED <<command, authority, wire>>
        BY <2>2 DEF dispatchVars, entryVars, storeVars, venueVars, Tick
      <3> QED
        BY <3>1, QuietShot
    <2>3. CASE ServiceStep
      BY <2>1, <2>3, ServiceShot
    <2>4. ASSUME NEW w \in Workers, WorkerStep(w) PROVE [OneShot!ShotNext]_(OneShot!shotVars)
      BY <2>1, <2>4, WorkerShot
    <2>5. ASSUME NEW c \in Commands, Drop(c) PROVE [OneShot!ShotNext]_(OneShot!shotVars)
      <3>1. \A d \in Commands : \/ wire'[d] = wire[d]
                                \/ wire'[d] # "landed" /\ wire[d] # "landed"
        BY <2>5 DEF Drop, DispatchInv, LaneInv, DispatchTypeOK
      <3>2. \A d \in Commands : (wire'[d] = "landed") = (wire[d] = "landed")
        BY <3>1
      <3> QED
        BY <2>5, <3>2, QuietShot DEF Drop, storeVars
    <2>6. ASSUME NEW c \in Commands, VenueMoves(c)
          PROVE  [OneShot!ShotNext]_(OneShot!shotVars)
      BY <2>6, QuietShot DEF VenueMoves, storeVars
    <2> QED
      BY <2>2, <2>3, <2>4, <2>5, <2>6, LandShot DEF DispatchNext, VenueStep
  <1> QED
    BY <1>1, <1>2, DispatchInvariant, PTL DEF DispatchSpec, ImplementsOneShot, OneShot!ShotSpec

=============================================================================

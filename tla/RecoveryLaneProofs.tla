--------------------------- MODULE RecoveryLaneProofs ---------------------------
(***************************************************************************)
(* Proofs about RecoveryLane, for any number of recoveries, incidents and  *)
(* workers, any lease and settlement time: the store's invariant holds     *)
(* under the processes, and a second invariant relates their steps, the    *)
(* requests in the network and the venue's book to the rows of the store.  *)
(***************************************************************************)
EXTENDS RecoveryLane, RecoveryStoreProofs, FiniteSetTheorems

LaneSteps ==
    {"idle", "read", "parent", "permitted", "dispatch", "claimed", "signed", "prepared",
     "authorized", "posted", "evidence", "apply", "reconciled"}

\* The steps at which a handler works on a recovery.
Holding ==
    {"permitted", "dispatch", "claimed", "signed", "prepared", "authorized", "posted",
     "evidence", "apply"}

WireStates ==
    {"unsent", "flying", "accepted", "refused", "filled", "unfilled", "canceled", "dead"}

HeldRow == [recovery : Recoveries \cup {NoRecovery}, token : Nat]

ViewRow == [book : Books, wire : [Recoveries -> WireStates], at : Int]

LaneTypeOK ==
    /\ pc \in [Workers -> LaneSteps]
    /\ held \in [Workers -> HeldRow]
    /\ view \in [Workers -> ViewRow]
    /\ original \in {"flying", "landed", "dead"}
    /\ book \in Books
    /\ wire \in [Recoveries -> WireStates]
    /\ sends \in [Recoveries -> Nat]

\* The submission authority of r was consumed.
Sent(r) == attempt[r].state \notin {"none", "prepared"}

\* What a worker read is past: an order it saw exists, a close it saw decided is.
ViewPast(w) ==
    /\ view[w].at <= now
    /\ view[w].book # "absent" => original = "landed"
    /\ \A r \in Recoveries :
          view[w].wire[r] \in {"filled", "unfilled"} => wire[r] = view[w].wire[r]

\* The worker about to post consumed the authority and nobody has posted.
Placed(w) ==
    /\ pc[w] \in Holding => Rec(w) \in Recoveries
    /\ pc[w] = "authorized" => Sent(Rec(w)) /\ wire[Rec(w)] = "unsent"
    /\ pc[w] = "posted" => wire[Rec(w)] # "unsent"
    /\ ViewPast(w)

PosterIsAlone ==
    \A v, w \in Workers :
       pc[v] = "authorized" /\ pc[w] = "authorized" /\ Rec(v) = Rec(w) => v = w

\* Between the permit and the queueing, one process holds the account's lock,
\* no recovery is alive, and no fence stands in the way of the one permitted.
PermitLock ==
    \A w \in Workers :
       pc[w] = "permitted" =>
          /\ ~RecoveryActive
          /\ permit[Rec(w)].state # "none"
          /\ permit[Rec(w)].kind = "noop_fence" => \A r \in Recoveries : ~Suppresses(r)
          /\ \A v \in Workers : pc[v] = "permitted" => v = w

OneLiveFence == \A r, s \in Recoveries : Suppresses(r) /\ Suppresses(s) => r = s

\* The wire follows the posts, a request gets the answer of its kind, and what
\* the store has recorded of a fence is what the venue decided.
WireFollows(r) ==
    /\ sends[r] = IF wire[r] = "unsent" THEN 0 ELSE 1
    /\ wire[r] # "unsent" \/ attempt[r].refused => Sent(r)
    /\ wire[r] = "accepted" => permit[r].kind = "noop_fence" /\ original # "landed"
    /\ wire[r] = "refused" => permit[r].kind = "noop_fence"
    /\ wire[r] \in {"filled", "unfilled"} => permit[r].kind = "reduce_only_close"
    /\ wire[r] = "canceled" => permit[r].kind = "cancel_by_cloid"
    /\ permit[r].kind = "noop_fence" =>
          /\ attempt[r].state = "response_received" => wire[r] = "accepted"
          /\ attempt[r].refused => wire[r] = "refused"
          /\ proof[r] = "succeeded" => wire[r] = "accepted"

BookFollows == (book = "absent") <=> (original # "landed")

\* A fence or close that was reconciled and may still be posted or in the
\* network comes too late to take effect.
EndedIsOver(r) ==
    job[r].state = "terminal" /\ Sent(r) /\ permit[r].kind # "cancel_by_cloid" =>
       \/ now >= attempt[r].expires + Settlement
       \/ /\ wire[r] # "flying"
          /\ \A w \in Workers : pc[w] = "authorized" => Rec(w) # r

\* While a recovery is alive its incident stays open, except that the parent may
\* close the ambiguity under a fence when the original request did land.
IncidentHeld(r) ==
    /\ permit[r].state # "none" =>
          /\ permit[r].incident \in Incidents
          /\ (permit[r].kind = "noop_fence") <=> (permit[r].incident = Ambiguity)
    /\ Active(r) =>
          \/ incident[permit[r].incident] = "open"
          \/ permit[r].kind = "noop_fence" /\ incident[Ambiguity] = "closed" /\ original = "landed"

LaneInv ==
    /\ LaneTypeOK
    /\ \A w \in Workers : Placed(w)
    /\ PosterIsAlone
    /\ PermitLock
    /\ OneLiveFence
    /\ \A r \in Recoveries : WireFollows(r)
    /\ BookFollows
    /\ \A r \in Recoveries : EndedIsOver(r)
    /\ \A r \in Recoveries : IncidentHeld(r)

RecoveryLaneInv == RecoveryInv /\ LaneInv

(***************************************************************************)
(* How the parts of the state may move.                                    *)
(***************************************************************************)

\* A worker does nothing.
Stays(v) == pc'[v] = pc[v] /\ held'[v] = held[v] /\ view'[v] = view[v]

\* A worker goes to a step that is neither side of the post.
Turns(v) ==
    /\ pc'[v] \notin {"authorized", "posted"}
    /\ pc'[v] \in Holding => held'[v].recovery \in Recoveries
    /\ ViewPast(v)'

\* No worker begins an evaluation of the safety controller.
NoNewPermit ==
    \A v \in Workers : pc'[v] = "permitted" => pc[v] = "permitted" /\ held'[v] = held[v]

\* Most transactions do not let a recovery begin, be sent, be answered or end.
RowAdvances(r) ==
    /\ permit[r].state # "none" =>
          /\ permit'[r].state # "none" /\ permit'[r].kind = permit[r].kind
          /\ permit'[r].incident = permit[r].incident
    /\ Sent(r)' <=> Sent(r)
    /\ Sent(r) => attempt'[r].expires = attempt[r].expires
    /\ attempt'[r].state = "response_received" => attempt[r].state = "response_received"
    /\ attempt'[r].refused => attempt[r].refused
    /\ proof'[r] = "succeeded" => proof[r] = "succeeded"
    /\ (job'[r].state = "none") <=> (job[r].state = "none")
    /\ Active(r)' => Active(r)
    /\ Suppresses(r)' => Suppresses(r)
    /\ job'[r].state = "terminal" => job[r].state = "terminal" \/ ~Sent(r)'

\* An incident that a live recovery answers stays as IncidentHeld says.
IncidentKept(r) ==
    Active(r) =>
       \/ incident'[permit[r].incident] = incident[permit[r].incident]
       \/ permit[r].kind = "noop_fence" /\ incident'[Ambiguity] = "closed" /\ original = "landed"

\* Requests move on from the network only, and what landed stays.
VenueAdvances ==
    /\ original = "landed" => original' = "landed"
    /\ \A r \in Recoveries :
          \/ wire'[r] = wire[r]
          \/ wire[r] = "flying" /\ wire'[r] \notin {"unsent", "flying"}

(***************************************************************************)
(* Each part of the invariant under such moves.                            *)
(***************************************************************************)

\* A worker that stays where it is, or turns to something harmless, keeps its place.
LEMMA PlacesKept ==
    ASSUME LaneInv, RecoveryTypeOK, now' >= now, now' \in Nat, VenueAdvances,
           \A r \in Recoveries : Sent(r) => Sent(r)',
           NEW v \in Workers, Stays(v) \/ Turns(v)
    PROVE  Placed(v)'
  <1>1. Placed(v) /\ view[v].at \in Int /\ now \in Nat
    BY DEF LaneInv, LaneTypeOK, ViewRow, RecoveryTypeOK
  <1>2. CASE Stays(v)
    <2>1. ViewPast(v)'
      BY <1>1, <1>2 DEF Placed, ViewPast, Stays, VenueAdvances
    <2>2. pc[v] \in Holding => Rec(v) \in Recoveries
      BY <1>1 DEF Placed
    <2>3. {"authorized", "posted"} \subseteq Holding
      BY DEF Holding
    <2>4. Rec(v)' = Rec(v) /\ pc'[v] = pc[v]
      BY <1>2 DEF Stays, Rec
    <2>5. ASSUME pc[v] = "authorized" PROVE Sent(Rec(v))' /\ wire'[Rec(v)'] = "unsent"
      <3>1. PICK r \in Recoveries : r = Rec(v)
        BY <2>2, <2>3, <2>5
      <3>2. Sent(r) /\ wire[r] = "unsent"
        BY <1>1, <2>5, <3>1 DEF Placed
      <3>3. Sent(r)' /\ wire'[r] = "unsent"
        BY <3>2 DEF VenueAdvances
      <3>4. Rec(v)' = r
        BY <2>4, <3>1
      <3> QED
        BY <3>3, <3>4 DEF Sent
    <2>6. ASSUME pc[v] = "posted" PROVE wire'[Rec(v)'] # "unsent"
      BY <1>1, <2>2, <2>3, <2>4, <2>6 DEF Placed, VenueAdvances
    <2> QED
      BY <2>1, <2>2, <2>4, <2>5, <2>6 DEF Placed
  <1>3. CASE Turns(v)
    BY <1>3 DEF Turns, Placed, Rec
  <1> QED
    BY <1>2, <1>3

\* Nobody joins the worker at the post unless somebody comes to it.
LEMMA AloneKept ==
    ASSUME LaneInv, \A v \in Workers : Stays(v) \/ Turns(v)
    PROVE  PosterIsAlone'
  BY DEF LaneInv, PosterIsAlone, Stays, Turns, Rec

\* The holder of a fresh permit stays alone when no permit is added and rows only advance.
LEMMA LockKept ==
    ASSUME RecoveryInv, LaneInv, NoNewPermit, \A r \in Recoveries : RowAdvances(r)
    PROVE  PermitLock'
  <1> SUFFICES ASSUME NEW w \in Workers, pc'[w] = "permitted"
               PROVE  /\ ~RecoveryActive'
                      /\ permit'[Rec(w)'].state # "none"
                      /\ permit'[Rec(w)'].kind = "noop_fence" =>
                            \A r \in Recoveries : ~Suppresses(r)'
                      /\ \A v \in Workers : pc'[v] = "permitted" => v = w
    BY DEF PermitLock
  <1>1. pc[w] = "permitted" /\ Rec(w)' = Rec(w)
    BY DEF NoNewPermit, Rec
  <1>2. Rec(w) \in Recoveries
    BY <1>1 DEF LaneInv, Placed, Holding
  <1>3. /\ ~RecoveryActive
        /\ permit[Rec(w)].state # "none"
        /\ permit[Rec(w)].kind = "noop_fence" => \A r \in Recoveries : ~Suppresses(r)
        /\ \A v \in Workers : pc[v] = "permitted" => v = w
    BY <1>1 DEF LaneInv, PermitLock
  <1>4. ~RecoveryActive'
    BY <1>3 DEF RecoveryActive, RowAdvances
  <1>5. permit'[Rec(w)].state # "none" /\ permit'[Rec(w)].kind = permit[Rec(w)].kind
    BY <1>2, <1>3 DEF RowAdvances
  <1>6. permit[Rec(w)].kind = "noop_fence" => \A r \in Recoveries : ~Suppresses(r)'
    BY <1>3 DEF RowAdvances
  <1> QED
    BY <1>1, <1>3, <1>4, <1>5, <1>6 DEF NoNewPermit

\* Rows that only advance make no second live fence.
LEMMA FenceKept ==
    ASSUME LaneInv, \A r \in Recoveries : RowAdvances(r)
    PROVE  OneLiveFence'
  BY DEF LaneInv, OneLiveFence, RowAdvances

\* A recovery whose authority was consumed has its permit.
LEMMA SentWasPermitted ==
    ASSUME RecoveryInv, NEW r \in Recoveries, attempt[r].state # "none" \/ proof[r] # "none"
    PROVE  job[r].state # "none" /\ permit[r].state = "consumed"
  BY DEF RecoveryInv, RowAgrees

\* What is on the wire still follows the rows when the wire does not move.
LEMMA WireKept ==
    ASSUME RecoveryInv, LaneInv, NEW r \in Recoveries, RowAdvances(r),
           original' = original, wire'[r] = wire[r], sends'[r] = sends[r]
    PROVE  WireFollows(r)'
  <1>1. WireFollows(r)
    BY DEF LaneInv
  <1>2. Sent(r) \/ proof[r] # "none" => permit[r].state # "none"
    BY SentWasPermitted DEF Sent
  <1>3. attempt[r].state = "response_received" => Sent(r)
    BY DEF Sent
  <1>4. proof[r] = "succeeded" => proof[r] # "none"
    OBVIOUS
  <1> QED
    BY <1>1, <1>2, <1>3, <1>4 DEF WireFollows, RowAdvances

\* A recovery that is over stays over when rows only advance.
LEMMA EndedKept ==
    ASSUME RecoveryInv, LaneInv, NEW r \in Recoveries, RowAdvances(r), now' >= now, now' \in Nat,
           wire'[r] = "flying" => wire[r] = "flying",
           \A w \in Workers : Stays(w) \/ Turns(w)
    PROVE  EndedIsOver(r)'
  <1> SUFFICES ASSUME job'[r].state = "terminal", Sent(r)', permit'[r].kind # "cancel_by_cloid"
               PROVE  \/ now' >= attempt'[r].expires + Settlement
                      \/ /\ wire'[r] # "flying"
                         /\ \A w \in Workers : pc'[w] = "authorized" => Rec(w)' # r
    BY DEF EndedIsOver
  <1>1. job[r].state = "terminal" /\ Sent(r) /\ attempt'[r].expires = attempt[r].expires
    BY DEF RowAdvances
  <1>2. permit[r].kind # "cancel_by_cloid"
    BY <1>1, SentWasPermitted DEF RowAdvances, Sent
  <1>3. \/ now >= attempt[r].expires + Settlement
        \/ /\ wire[r] # "flying"
           /\ \A w \in Workers : pc[w] = "authorized" => Rec(w) # r
    BY <1>1, <1>2 DEF LaneInv, EndedIsOver
  <1>4. attempt[r].expires \in Int /\ Settlement \in Int /\ now \in Nat
    BY LaneAssumption DEF RecoveryInv, RecoveryTypeOK, Attempt
  <1>5. CASE now >= attempt[r].expires + Settlement
    BY <1>1, <1>4, <1>5
  <1>6. CASE wire[r] # "flying" /\ \A w \in Workers : pc[w] = "authorized" => Rec(w) # r
    BY <1>6 DEF Stays, Turns, Rec
  <1> QED
    BY <1>3, <1>5, <1>6

\* The incident a recovery stands for is still held when incidents only settle.
LEMMA IncidentsKept ==
    ASSUME RecoveryInv, RecoveryInv', LaneInv, NEW r \in Recoveries, RowAdvances(r),
           permit'[r] = permit[r], IncidentKept(r),
           original = "landed" => original' = "landed",
           incident[Ambiguity] = "closed" => incident'[Ambiguity] = "closed"
    PROVE  IncidentHeld(r)'
  <1>1. IncidentHeld(r)
    BY DEF LaneInv
  <1> QED
    BY <1>1 DEF IncidentHeld, IncidentKept, RowAdvances

\* A step at which no recovery begins, is sent, answered or ended, the venue does
\* nothing and no worker comes to the post keeps the invariant.
LEMMA PlainStep ==
    ASSUME RecoveryLaneInv, RecoveryInv', LaneTypeOK', now' >= now,
           UNCHANGED venueVars,
           \A r \in Recoveries : RowAdvances(r) /\ IncidentHeld(r)',
           \A v \in Workers : Stays(v) \/ Turns(v),
           PermitLock'
    PROVE  RecoveryLaneInv'
  <1>1. RecoveryInv /\ LaneInv /\ RecoveryTypeOK /\ now' \in Nat
    BY DEF RecoveryLaneInv, RecoveryInv, RecoveryTypeOK
  <1>2. original' = original /\ book' = book /\ wire' = wire /\ sends' = sends
    BY DEF venueVars
  <1>3. VenueAdvances
    BY <1>2 DEF VenueAdvances
  <1>4. \A r \in Recoveries : Sent(r) => Sent(r)'
    BY DEF RowAdvances
  <1>5. \A v \in Workers : Placed(v)'
    BY <1>1, <1>3, <1>4, PlacesKept
  <1>6. \A r \in Recoveries : WireFollows(r)' /\ EndedIsOver(r)'
    BY <1>1, <1>2, WireKept, EndedKept
  <1>7. BookFollows'
    BY <1>1, <1>2 DEF LaneInv, BookFollows
  <1>8. PosterIsAlone' /\ OneLiveFence'
    BY <1>1, AloneKept, FenceKept
  <1> QED
    BY <1>5, <1>6, <1>7, <1>8 DEF RecoveryLaneInv, LaneInv

\* The same when incidents and permits are left alone.
LEMMA QuietStep ==
    ASSUME RecoveryLaneInv, RecoveryInv', LaneTypeOK', now' = now,
           UNCHANGED <<incident, permit>>, UNCHANGED venueVars,
           \A r \in Recoveries : RowAdvances(r),
           \A v \in Workers : Stays(v) \/ Turns(v),
           NoNewPermit
    PROVE  RecoveryLaneInv'
  <1>1. RecoveryInv /\ LaneInv /\ now \in Nat
    BY DEF RecoveryLaneInv, RecoveryInv, RecoveryTypeOK
  <1>2. original' = original
    BY DEF venueVars
  <1>3. \A r \in Recoveries : IncidentHeld(r)'
    BY <1>1, <1>2, IncidentsKept DEF IncidentKept
  <1>4. PermitLock'
    BY <1>1, LockKept
  <1> QED
    BY <1>1, <1>3, <1>4, PlainStep

\* The network and the venue change no row and no process.
LEMMA VenueStep ==
    ASSUME RecoveryLaneInv, LaneTypeOK', UNCHANGED <<recoveryVars, pc, held, view, sends>>,
           VenueAdvances, BookFollows', \A r \in Recoveries : WireFollows(r)'
    PROVE  RecoveryLaneInv'
  <1>1. RecoveryInv /\ LaneInv /\ RecoveryTypeOK /\ now \in Nat
    BY DEF RecoveryLaneInv, RecoveryInv, RecoveryTypeOK
  <1>2. UNCHANGED <<now, parent, incident, account, permit, job, attempt, proof, pc, held, view>>
    BY DEF recoveryVars, parentVars, laneVars
  <1>3. RecoveryInv'
    <2>1. RecoveryTypeOK'
      BY <1>1, <1>2 DEF RecoveryTypeOK
    <2> QED
      BY <1>1, <1>2, <2>1, LaneFrame DEF laneVars
  <1>4. \A v \in Workers : Stays(v)
    BY <1>2 DEF Stays
  <1>5. \A r \in Recoveries : RowAdvances(r) /\ (Sent(r) => Sent(r)')
    <2>1. \A r \in Recoveries : /\ Sent(r)' <=> Sent(r)
                                /\ Active(r)' <=> Active(r)
                                /\ Suppresses(r)' <=> Suppresses(r)
      BY <1>2 DEF Sent, Active, Suppresses
    <2> QED
      BY <1>2, <2>1 DEF RowAdvances
  <1>6. \A v \in Workers : Placed(v)'
    BY <1>1, <1>2, <1>4, <1>5, PlacesKept
  <1>7. \A r \in Recoveries : EndedIsOver(r)'
    BY <1>1, <1>2, <1>4, <1>5, EndedKept DEF VenueAdvances
  <1>8. \A r \in Recoveries : IncidentHeld(r)'
    BY <1>1, <1>2, <1>3, <1>5, IncidentsKept DEF IncidentKept, VenueAdvances
  <1>9. PosterIsAlone' /\ OneLiveFence'
    BY <1>1, <1>4, <1>5, AloneKept, FenceKept
  <1>10. PermitLock'
    BY <1>1, <1>2, <1>5, LockKept DEF NoNewPermit
  <1> QED
    BY <1>3, <1>6, <1>7, <1>8, <1>9, <1>10 DEF RecoveryLaneInv, LaneInv

(***************************************************************************)
(* The transactions under which rows merely advance.                       *)
(***************************************************************************)

\* Untouched rows advance.
LEMMA SameAdvances ==
    ASSUME NEW r \in Recoveries, RowSame(r)
    PROVE  RowAdvances(r)
  <1>1. (Sent(r)' <=> Sent(r)) /\ (Active(r)' <=> Active(r)) /\ (Suppresses(r)' <=> Suppresses(r))
    BY DEF RowSame, Sent, Active, Suppresses
  <1> QED
    BY <1>1 DEF RowAdvances, RowSame

\* A row moves on without beginning or ending, and without a send or an answer.
LEMMA RowMoves ==
    ASSUME NEW r \in Recoveries, permit'[r] = permit[r], proof'[r] = proof[r],
           Active(r), job'[r].state # "none",
           \/ Active(r)' \/ ~Sent(r)',
           Sent(r)' <=> Sent(r),
           Sent(r) => attempt'[r].expires = attempt[r].expires,
           attempt'[r].state = "response_received" => attempt[r].state = "response_received",
           attempt'[r].refused => attempt[r].refused
    PROVE  RowAdvances(r)
  <1>1. Suppresses(r)' => Suppresses(r)
    BY DEF Suppresses, Active
  <1>2. /\ job'[r].state = "terminal" => job[r].state = "terminal" \/ ~Sent(r)'
        /\ (job'[r].state = "none") <=> (job[r].state = "none")
    BY DEF Active
  <1> QED
    BY <1>1, <1>2 DEF RowAdvances

\* A normalization lets rows advance.
LEMMA NormalizedAdvances ==
    ASSUME RecoveryInv, NEW r \in Recoveries, NEW at \in Int,
           permit'[r] = permit[r], proof'[r] = proof[r],
           Normalized(r, at, job'[r], attempt'[r])
    PROVE  RowAdvances(r)
  <1>1. /\ attempt'[r].expires = attempt[r].expires /\ attempt'[r].refused = attempt[r].refused
        /\ \/ job'[r] = job[r] /\ attempt'[r] = attempt[r]
           \/ /\ job[r].state \in {"queued", "claimed", "signing"}
              /\ \/ /\ attempt'[r] = attempt[r]
                    /\ job'[r].state = "queued" /\ job[r].state = "claimed"
                 \/ /\ attempt'[r] = attempt[r] /\ attempt'[r].state \in {"none", "prepared"}
                    /\ job'[r].state = "terminal"
                 \/ /\ attempt[r].state = "sending" /\ attempt'[r].state = "unknown"
                    /\ job'[r].state = "submitted_unknown"
    BY NormalizedRow
  <1>2. CASE job'[r] = job[r] /\ attempt'[r] = attempt[r]
    BY <1>2, SameAdvances DEF RowSame
  <1>3. CASE /\ job[r].state \in {"queued", "claimed", "signing"}
             /\ \/ /\ attempt'[r] = attempt[r]
                   /\ job'[r].state = "queued" /\ job[r].state = "claimed"
                \/ /\ attempt'[r] = attempt[r] /\ attempt'[r].state \in {"none", "prepared"}
                   /\ job'[r].state = "terminal"
                \/ /\ attempt[r].state = "sending" /\ attempt'[r].state = "unknown"
                   /\ job'[r].state = "submitted_unknown"
    <2>1. Active(r) /\ job'[r].state # "none" /\ (Active(r)' \/ ~Sent(r)') /\ (Sent(r)' <=> Sent(r))
      BY <1>3 DEF Active, Sent
    <2>2. attempt'[r].state = "response_received" => attempt[r].state = "response_received"
      BY <1>3
    <2> QED
      BY <1>1, <2>1, <2>2, RowMoves
  <1> QED
    BY <1>1, <1>2, <1>3

\* A dispatch claim only advances rows.
LEMMA ClaimNextAdvances ==
    ASSUME RecoveryInv, NEW r \in Recoveries, NEW w \in Workers, NEW at \in Int, NEW l \in Int,
           ClaimNextRecovery(r, w, at, l), NEW s \in Recoveries
    PROVE  RowAdvances(s)
  <1>1. /\ job[r].state \in {"queued", "claimed"}
        /\ job'[r] = Claimed(r, "claimed", w, at, l)
        /\ attempt'[r] = attempt[r]
        /\ \A x \in Recoveries \ {r} : RowSame(x)
        /\ UNCHANGED <<permit, proof>>
    BY ClaimNextWrites
  <1>2. job'[r].state = "claimed"
    BY <1>1, ClaimedRow DEF RecoveryInv, JobStates
  <1>3. Active(r) /\ Active(r)' /\ (Sent(r)' <=> Sent(r))
    BY <1>1, <1>2 DEF Active, Sent
  <1>4. RowAdvances(r)
    BY <1>1, <1>2, <1>3, RowMoves
  <1> QED
    BY <1>1, <1>4, SameAdvances

\* A reconciliation claim only advances rows.
LEMMA ClaimReconciliationAdvances ==
    ASSUME RecoveryInv, NEW r \in Recoveries, NEW w \in Workers, NEW at \in Int, NEW l \in Int,
           ClaimReconciliation(r, w, at, l), NEW s \in Recoveries
    PROVE  RowAdvances(s)
  <1>1. /\ \/ /\ job[r].state \in {"submitted_unknown", "reconciling"}
              /\ attempt'[r] = attempt[r]
           \/ /\ job[r].state = "signing"
              /\ attempt[r].state = "sending"
              /\ attempt'[r] = [attempt[r] EXCEPT !.state = "unknown"]
        /\ job'[r] = Claimed(r, "reconciling", w, at, l)
        /\ \A x \in Recoveries \ {r} : RowSame(x)
        /\ UNCHANGED <<permit, proof>>
    BY ClaimReconciliationWrites
  <1>2. job'[r].state = "reconciling"
    BY <1>1, ClaimedRow DEF RecoveryInv, JobStates
  <1>3. attempt[r] \in Attempt
    BY RowTypes DEF RecoveryInv
  <1>4. \/ attempt'[r] = attempt[r]
        \/ /\ attempt[r].state = "sending" /\ attempt'[r].state = "unknown"
           /\ attempt'[r].expires = attempt[r].expires /\ attempt'[r].refused = attempt[r].refused
    <2>1. PICK a \in Attempt :
             /\ a = [attempt[r] EXCEPT !.state = "unknown"] /\ a.state = "unknown"
             /\ a.expires = attempt[r].expires /\ a.refused = attempt[r].refused
      BY <1>3, AttemptMoved DEF AttemptStates
    <2>2. attempt'[r] = attempt[r] \/ (attempt[r].state = "sending" /\ attempt'[r] = a)
      BY <1>1, <2>1
    <2> QED
      BY <2>1, <2>2
  <1>5. Active(r) /\ Active(r)' /\ (Sent(r)' <=> Sent(r))
    BY <1>1, <1>2, <1>4 DEF Active, Sent
  <1>6. RowAdvances(r)
    BY <1>1, <1>2, <1>4, <1>5, RowMoves
  <1> QED
    BY <1>1, <1>6, SameAdvances

\* A signing authority only advances rows.
LEMMA SigningAdvances ==
    ASSUME RecoveryInv, NEW r \in Recoveries, NEW w, NEW k, NEW at,
           RequireSigningAuthority(r, w, k, at), NEW s \in Recoveries
    PROVE  RowAdvances(s)
  <1>1. /\ job' = [job EXCEPT ![r] = [job[r] EXCEPT !.state = "signing"]]
        /\ job[r].state = "claimed"
        /\ UNCHANGED <<permit, attempt, proof>>
    BY DEF RequireSigningAuthority, HasClaim
  <1>2. job[r] \in Job /\ job \in [Recoveries -> Job]
    BY DEF RecoveryInv, RecoveryTypeOK
  <1>3. PICK j \in Job : j = [job[r] EXCEPT !.state = "signing"] /\ j.state = "signing"
    <2>1. "signing" \in JobStates
      BY DEF JobStates
    <2>2. /\ [job[r] EXCEPT !.state = "signing"] \in Job
          /\ [job[r] EXCEPT !.state = "signing"].state = "signing"
      BY <1>2, <2>1, StateMoved
    <2> QED
      BY <2>2
  <1>4. job' = [job EXCEPT ![r] = j]
    BY <1>1, <1>3
  <1>5. job'[r].state = "signing" /\ \A x \in Recoveries \ {r} : job'[x] = job[x]
    BY <1>2, <1>3, <1>4
  <1>6. Active(r) /\ Active(r)' /\ (Sent(r)' <=> Sent(r))
    BY <1>1, <1>5 DEF Active, Sent
  <1>7. RowAdvances(r)
    BY <1>1, <1>5, <1>6, RowMoves
  <1> QED
    BY <1>1, <1>5, <1>7, SameAdvances DEF RowSame

\* A prepared attempt only advances rows.
LEMMA PrepareAdvances ==
    ASSUME RecoveryInv, NEW r \in Recoveries, NEW w, NEW k, NEW at, NEW e \in Int,
           PrepareAttempt(r, w, k, at, e), NEW s \in Recoveries
    PROVE  RowAdvances(s)
  <1> DEFINE a == [state |-> "prepared", expires |-> e, refused |-> FALSE]
  <1>1. /\ attempt' = [attempt EXCEPT ![r] = a]
        /\ job[r].state = "signing" /\ attempt[r].state = "none"
        /\ UNCHANGED <<permit, job, proof>>
    BY DEF PrepareAttempt, HasClaim
  <1>2. a.state = "prepared" /\ ~a.refused
    OBVIOUS
  <1> HIDE DEF a
  <1>3. attempt'[r] = a /\ \A x \in Recoveries \ {r} : attempt'[x] = attempt[x]
    BY <1>1 DEF RecoveryInv, RecoveryTypeOK
  <1>4. Active(r) /\ Active(r)' /\ ~Sent(r) /\ ~Sent(r)'
    BY <1>1, <1>2, <1>3 DEF Active, Sent
  <1>5. RowAdvances(r)
    BY <1>1, <1>2, <1>3, <1>4, RowMoves DEF Active
  <1> QED
    BY <1>1, <1>3, <1>5, SameAdvances DEF RowSame

\* A reconciliation that is given back only advances rows.
LEMMA GivenBackAdvances ==
    ASSUME RecoveryInv, NEW r \in Recoveries, job[r].state = "reconciling",
           job' = [job EXCEPT ![r] = Released(r, "reconciling")],
           UNCHANGED <<now, parentVars, permit, attempt, proof>>, NEW s \in Recoveries
    PROVE  RowAdvances(s)
  <1>1. job'[s].state = job[s].state
    BY GivenBack
  <1>2. UNCHANGED <<permit, attempt, proof>>
    OBVIOUS
  <1>3. (Sent(s)' <=> Sent(s)) /\ (Active(s)' <=> Active(s)) /\ (Suppresses(s)' <=> Suppresses(s))
    BY <1>1, <1>2 DEF Sent, Active, Suppresses
  <1> QED
    BY <1>1, <1>2, <1>3 DEF RowAdvances

(***************************************************************************)
(* The steps of a worker that come neither to a permit nor to the post.    *)
(***************************************************************************)

\* What a handler may hold: nothing, or the venue as it is now.
LEMMA ViewTypes ==
    ASSUME RecoveryTypeOK, LaneTypeOK
    PROVE  /\ Quiet \in ViewRow /\ Quiet.book = "absent" /\ Quiet.at <= now
           /\ \A r \in Recoveries : Quiet.wire[r] = "unsent"
           /\ Snapshot \in ViewRow /\ Snapshot.book = book /\ Snapshot.at = now
           /\ Snapshot.wire = wire
           /\ Idle \in HeldRow
  <1>1. now \in Nat /\ book \in Books /\ wire \in [Recoveries -> WireStates]
    BY DEF RecoveryTypeOK, LaneTypeOK
  <1>2. [r \in Recoveries |-> "unsent"] \in [Recoveries -> WireStates]
    BY DEF WireStates
  <1>3. "absent" \in Books
    BY DEF Books
  <1> QED
    BY <1>1, <1>2, <1>3 DEF Quiet, Snapshot, Idle, ViewRow, HeldRow, Never

\* Only w moves, to a step that is neither a permit nor a side of the post.
LEMMA MoveWorker ==
    ASSUME RecoveryLaneInv, now' = now, UNCHANGED venueVars,
           NEW w \in Workers, NEW step \in LaneSteps \ {"permitted", "authorized", "posted"},
           NEW h \in HeldRow, NEW x \in ViewRow,
           x = view[w] \/ x = Quiet \/ x = Snapshot,
           step \in Holding => h.recovery \in Recoveries,
           pc' = [pc EXCEPT ![w] = step], held' = [held EXCEPT ![w] = h],
           view' = [view EXCEPT ![w] = x]
    PROVE  LaneTypeOK' /\ NoNewPermit /\ \A v \in Workers : Stays(v) \/ Turns(v)
  <1>1. LaneTypeOK /\ RecoveryTypeOK /\ BookFollows /\ Placed(w) /\ now \in Nat
    BY DEF RecoveryLaneInv, LaneInv, RecoveryInv, RecoveryTypeOK
  <1>2. UNCHANGED <<original, book, wire, sends>>
    BY DEF venueVars
  <1>3. LaneTypeOK'
    BY <1>1, <1>2 DEF LaneTypeOK
  <1>4. /\ pc'[w] = step /\ held'[w] = h /\ view'[w] = x
        /\ \A v \in Workers \ {w} : Stays(v)
    BY <1>1 DEF LaneTypeOK, Stays
  <1>5. x.at <= now /\ (x.book # "absent" => original = "landed")
        /\ \A r \in Recoveries : x.wire[r] \in {"filled", "unfilled"} => wire[r] = x.wire[r]
    <2>1. CASE x = view[w]
      BY <1>1, <2>1 DEF Placed, ViewPast
    <2>2. CASE x = Quiet
      BY <1>1, <2>2, ViewTypes
    <2>3. CASE x = Snapshot
      BY <1>1, <2>3, ViewTypes DEF BookFollows
    <2> QED
      BY <2>1, <2>2, <2>3
  <1>6. ViewPast(w)'
    BY <1>2, <1>4, <1>5 DEF ViewPast
  <1>7. Turns(w)
    BY <1>4, <1>6 DEF Turns
  <1>8. NoNewPermit
    BY <1>4 DEF NoNewPermit, Stays
  <1> QED
    BY <1>3, <1>4, <1>7, <1>8

\* The same, for a step of one worker to a place before the post.
LEMMA QuietMove ==
    ASSUME RecoveryLaneInv, RecoveryInv', now' = now, UNCHANGED venueVars,
           UNCHANGED <<incident, permit>>, \A r \in Recoveries : RowAdvances(r),
           NEW w \in Workers, NEW step \in LaneSteps \ {"permitted", "authorized", "posted"},
           NEW h \in HeldRow, NEW x \in ViewRow,
           x = view[w] \/ x = Quiet \/ x = Snapshot,
           step \in Holding => h.recovery \in Recoveries,
           pc' = [pc EXCEPT ![w] = step], held' = [held EXCEPT ![w] = h],
           view' = [view EXCEPT ![w] = x]
    PROVE  RecoveryLaneInv'
  <1>1. LaneTypeOK' /\ NoNewPermit /\ \A v \in Workers : Stays(v) \/ Turns(v)
    BY MoveWorker
  <1> QED
    BY <1>1, QuietStep

\* The rows stay as they are.
LEMMA RowsSame ==
    ASSUME RecoveryInv, UNCHANGED recoveryVars
    PROVE  /\ RecoveryInv' /\ now' = now /\ UNCHANGED <<incident, permit>>
           /\ \A r \in Recoveries : RowAdvances(r)
  <1>1. UNCHANGED <<now, parent, incident, account, permit, job, attempt, proof>>
    BY DEF recoveryVars, parentVars, laneVars
  <1>2. RecoveryTypeOK'
    BY <1>1 DEF RecoveryInv, RecoveryTypeOK
  <1>3. RecoveryInv'
    BY <1>1, <1>2, LaneFrame DEF laneVars
  <1> QED
    BY <1>1, <1>3, SameAdvances DEF RowSame

\* A handler returns to the tick while the rows advance.
LEMMA ReturnStep ==
    ASSUME RecoveryLaneInv, RecoveryInv', now' = now, UNCHANGED venueVars,
           UNCHANGED <<incident, permit>>, \A r \in Recoveries : RowAdvances(r),
           NEW w \in Workers, Goto(w, "idle"), held' = [held EXCEPT ![w] = Idle],
           view' = [view EXCEPT ![w] = Quiet] \/ UNCHANGED view
    PROVE  RecoveryLaneInv'
  <1>1. LaneTypeOK /\ RecoveryTypeOK
    BY DEF RecoveryLaneInv, LaneInv, RecoveryInv
  <1>2. PICK x \in ViewRow : /\ x = view[w] \/ x = Quiet
                             /\ view' = [view EXCEPT ![w] = x]
    <2>1. view[w] \in ViewRow /\ view = [view EXCEPT ![w] = view[w]] /\ Quiet \in ViewRow
      BY <1>1, ViewTypes DEF LaneTypeOK
    <2> QED
      BY <2>1
  <1>3. PICK h \in HeldRow : h = Idle
    BY <1>1, ViewTypes
  <1>4. "idle" \in LaneSteps \ {"permitted", "authorized", "posted"} /\ "idle" \notin Holding
    BY DEF LaneSteps, Holding
  <1> QED
    BY <1>2, <1>3, <1>4, QuietMove DEF Goto

\* A handler takes a recovery up, or notes the token of its claim.
LEMMA HeldMoved ==
    ASSUME NEW h \in HeldRow, NEW r \in Recoveries, NEW n \in Nat
    PROVE  /\ [h EXCEPT !.recovery = r] \in HeldRow
           /\ [h EXCEPT !.recovery = r].recovery = r
           /\ [h EXCEPT !.recovery = r].token = h.token
           /\ [h EXCEPT !.token = n] \in HeldRow
           /\ [h EXCEPT !.token = n].recovery = h.recovery
  BY DEF HeldRow

\* What a worker holds is its entry in the tables, which may be written again.
LEMMA WorkerRows ==
    ASSUME RecoveryLaneInv, NEW w \in Workers
    PROVE  /\ held[w] \in HeldRow /\ held = [held EXCEPT ![w] = held[w]]
           /\ view[w] \in ViewRow /\ view = [view EXCEPT ![w] = view[w]]
           /\ pc[w] \in Holding => Rec(w) \in Recoveries /\ held[w].recovery \in Recoveries
           /\ Quiet \in ViewRow /\ Snapshot \in ViewRow /\ Idle \in HeldRow
           /\ Fence(w) \in Nat
           /\ RecoveryInv /\ RecoveryTypeOK /\ LaneTypeOK /\ now \in Nat
  <1>1. LaneTypeOK /\ RecoveryTypeOK /\ RecoveryInv /\ Placed(w) /\ now \in Nat
    BY DEF RecoveryLaneInv, LaneInv, RecoveryInv, RecoveryTypeOK
  <1> QED
    BY <1>1, ViewTypes DEF LaneTypeOK, Placed, Rec, Fence, HeldRow

\* The tick reads the venue, or turns to the parent.
LEMMA ReadStep ==
    ASSUME RecoveryLaneInv, NEW w \in Workers, ReadVenue(w) \/ TurnToParent(w)
    PROVE  RecoveryLaneInv'
  <1>1. PICK step \in {"read", "parent"} : pc' = [pc EXCEPT ![w] = step]
    BY DEF ReadVenue, TurnToParent, Goto
  <1>2. /\ UNCHANGED recoveryVars /\ UNCHANGED venueVars
        /\ view' = [view EXCEPT ![w] = Snapshot] /\ UNCHANGED held
    BY DEF ReadVenue, TurnToParent
  <1>3. PICK x \in ViewRow : x = Snapshot
    BY WorkerRows
  <1>4. PICK h \in HeldRow : h = held[w] /\ held' = [held EXCEPT ![w] = h]
    BY <1>2, WorkerRows
  <1>5. step \in LaneSteps \ {"permitted", "authorized", "posted"} /\ step \notin Holding
    BY DEF LaneSteps, Holding
  <1>6. /\ RecoveryInv' /\ now' = now /\ UNCHANGED <<incident, permit>>
        /\ \A r \in Recoveries : RowAdvances(r)
    BY <1>2, RowsSame DEF RecoveryLaneInv
  <1> QED
    BY <1>1, <1>2, <1>3, <1>4, <1>5, <1>6, QuietMove

\* A handler takes up a queued fence, or a recovery to reconcile.
LEMMA TakeUpStep ==
    ASSUME RecoveryLaneInv, NEW w \in Workers, ResumeFence(w) \/ ReadRecovery(w)
    PROVE  RecoveryLaneInv'
  <1>1. PICK step \in {"dispatch", "evidence"} : pc' = [pc EXCEPT ![w] = step]
    BY DEF ResumeFence, ReadRecovery, Goto
  <1>2. /\ UNCHANGED recoveryVars /\ UNCHANGED venueVars
        /\ view' = [view EXCEPT ![w] = Snapshot] \/ UNCHANGED view
    BY DEF ResumeFence, ReadRecovery
  <1>3. PICK r \in Recoveries : held' = [held EXCEPT ![w].recovery = r]
    BY DEF ResumeFence, ReadRecovery
  <1>4. PICK h \in HeldRow : /\ h = [held[w] EXCEPT !.recovery = r] /\ h.recovery = r
    <2>1. held[w] \in HeldRow /\ 0 \in Nat
      BY WorkerRows
    <2>2. /\ [held[w] EXCEPT !.recovery = r] \in HeldRow
          /\ [held[w] EXCEPT !.recovery = r].recovery = r
      BY <2>1, HeldMoved
    <2> QED
      BY <2>2
  <1>5. held' = [held EXCEPT ![w] = h]
    BY <1>3, <1>4
  <1>6. PICK x \in ViewRow : /\ x = Snapshot \/ x = view[w]
                             /\ view' = [view EXCEPT ![w] = x]
    BY <1>2, WorkerRows
  <1>7. step \in LaneSteps \ {"permitted", "authorized", "posted"}
    BY DEF LaneSteps
  <1>8. /\ RecoveryInv' /\ now' = now /\ UNCHANGED <<incident, permit>>
        /\ \A s \in Recoveries : RowAdvances(s)
    BY <1>2, RowsSame DEF RecoveryLaneInv
  <1> QED
    BY <1>1, <1>2, <1>4, <1>5, <1>6, <1>7, <1>8, QuietMove

\* What a normalization of the rows leaves for the lane.
LEMMA NormalizeAdvances ==
    ASSUME RecoveryLaneInv, NormalizeExpired(now)
    PROVE  /\ RecoveryInv' /\ now' = now /\ UNCHANGED <<incident, permit>>
           /\ \A r \in Recoveries : RowAdvances(r)
  <1>1. RecoveryInv /\ now \in Int
    BY DEF RecoveryLaneInv, RecoveryInv, RecoveryTypeOK
  <1>2. /\ RecoveryInv'
        /\ \A r \in Recoveries : Normalized(r, now, job'[r], attempt'[r])
    BY <1>1, NormalizeExpiredKeeps
  <1>3. UNCHANGED <<now, incident, permit, proof>>
    BY DEF NormalizeExpired, parentVars
  <1> QED
    BY <1>1, <1>2, <1>3, NormalizedAdvances

\* Normalization keeps the lane's invariant.
LEMMA MaintenanceStep ==
    ASSUME RecoveryLaneInv, NormalizeExpired(now), UNCHANGED <<processVars, venueVars>>
    PROVE  RecoveryLaneInv'
  <1>1. UNCHANGED <<pc, held, view, original, book, wire, sends>>
    BY DEF processVars, venueVars
  <1>2. LaneTypeOK'
    BY <1>1 DEF RecoveryLaneInv, LaneInv, LaneTypeOK
  <1>3. NoNewPermit /\ \A v \in Workers : Stays(v)
    BY <1>1 DEF NoNewPermit, Stays
  <1> QED
    BY <1>2, <1>3, NormalizeAdvances, QuietStep

\* Claiming for dispatch keeps the lane's invariant.
LEMMA DispatchStep ==
    ASSUME RecoveryLaneInv, NEW w \in Workers, Dispatch(w)
    PROVE  RecoveryLaneInv'
  <1>1. PICK r \in Recoveries : r = Rec(w)
    BY WorkerRows DEF Dispatch, Holding
  <1>2. PICK l \in Leases : ClaimNextRecovery(r, w, now, l)
    BY <1>1 DEF Dispatch
  <1>3. RecoveryInv /\ now \in Int /\ l \in Int /\ now <= now
    BY WorkerRows, RecoveryAssumption
  <1>4. RecoveryInv' /\ \A s \in Recoveries : RowAdvances(s)
    BY <1>2, <1>3, ClaimNextKeeps, ClaimNextAdvances
  <1>5. UNCHANGED <<now, incident, permit>> /\ UNCHANGED venueVars
    BY <1>2 DEF ClaimNextRecovery, parentVars, Dispatch
  <1>6. job'[r].token \in Nat
    BY <1>4 DEF RecoveryInv, RecoveryTypeOK, Job
  <1>7. PICK h \in HeldRow : h = [held[w] EXCEPT !.token = job'[r].token] /\ h.recovery = r
    <2>1. held[w] \in HeldRow
      BY WorkerRows
    <2> QED
      BY <1>1, <1>6, <2>1, HeldMoved DEF Rec
  <1>8. held' = [held EXCEPT ![w] = h]
    BY <1>1, <1>7 DEF Dispatch
  <1>9. PICK x \in ViewRow : x = Quiet
    BY WorkerRows
  <1>10. view' = [view EXCEPT ![w] = x] /\ pc' = [pc EXCEPT ![w] = "claimed"]
    BY <1>9 DEF Dispatch, Goto
  <1>11. "claimed" \in LaneSteps \ {"permitted", "authorized", "posted"}
    BY DEF LaneSteps
  <1> QED
    BY <1>4, <1>5, <1>7, <1>8, <1>9, <1>10, <1>11, QuietMove

\* Claiming for reconciliation keeps the lane's invariant.
LEMMA ClaimReconciliationStep ==
    ASSUME RecoveryLaneInv, NEW w \in Workers, ClaimForReconciliation(w)
    PROVE  RecoveryLaneInv'
  <1>1. PICK r \in Recoveries : r = Rec(w)
    BY WorkerRows DEF ClaimForReconciliation, Holding
  <1>2. PICK l \in Leases : ClaimReconciliation(r, w, now, l)
    BY <1>1 DEF ClaimForReconciliation
  <1>3. RecoveryInv /\ now \in Int /\ l \in Int /\ now <= now
    BY WorkerRows, RecoveryAssumption
  <1>4. RecoveryInv' /\ \A s \in Recoveries : RowAdvances(s)
    BY <1>2, <1>3, ClaimReconciliationKeeps, ClaimReconciliationAdvances
  <1>5. UNCHANGED <<now, incident, permit>> /\ UNCHANGED venueVars
    BY <1>2 DEF ClaimReconciliation, parentVars, ClaimForReconciliation
  <1>6. job'[r].token \in Nat
    BY <1>4 DEF RecoveryInv, RecoveryTypeOK, Job
  <1>7. PICK h \in HeldRow : h = [held[w] EXCEPT !.token = job'[r].token] /\ h.recovery = r
    <2>1. held[w] \in HeldRow
      BY WorkerRows
    <2> QED
      BY <1>1, <1>6, <2>1, HeldMoved DEF Rec
  <1>8. held' = [held EXCEPT ![w] = h]
    BY <1>1, <1>7 DEF ClaimForReconciliation
  <1>9. PICK x \in ViewRow : x = view[w] /\ view' = [view EXCEPT ![w] = x]
    BY WorkerRows DEF ClaimForReconciliation
  <1>10. pc' = [pc EXCEPT ![w] = "apply"]
    BY DEF ClaimForReconciliation, Goto
  <1>11. "apply" \in LaneSteps \ {"permitted", "authorized", "posted"}
    BY DEF LaneSteps
  <1> QED
    BY <1>4, <1>5, <1>7, <1>8, <1>9, <1>10, <1>11, QuietMove

\* Signing keeps the lane's invariant.
LEMMA SignStep ==
    ASSUME RecoveryLaneInv, NEW w \in Workers, Sign(w) \/ Prepare(w)
    PROVE  RecoveryLaneInv'
  <1>1. PICK r \in Recoveries : r = Rec(w)
    BY WorkerRows DEF Sign, Prepare, Holding
  <1>2. RecoveryInv /\ now \in Int /\ permit[r].expires \in Int
    BY WorkerRows DEF RecoveryTypeOK, Permit
  <1>3. \/ RequireSigningAuthority(r, w, Fence(w), now)
        \/ PrepareAttempt(r, w, Fence(w), now, permit[r].expires)
    BY <1>1 DEF Sign, Prepare
  <1>4. RecoveryInv' /\ \A s \in Recoveries : RowAdvances(s)
    BY <1>2, <1>3, SigningKeeps, SigningAdvances, PrepareKeeps, PrepareAdvances
  <1>5. UNCHANGED <<now, incident, permit>> /\ UNCHANGED venueVars
    BY <1>3 DEF RequireSigningAuthority, PrepareAttempt, parentVars, Sign, Prepare
  <1>6. PICK step \in {"signed", "prepared"} : pc' = [pc EXCEPT ![w] = step]
    BY DEF Sign, Prepare, Goto
  <1>7. PICK h \in HeldRow, x \in ViewRow : /\ h = held[w] /\ held' = [held EXCEPT ![w] = h]
                                           /\ x = view[w] /\ view' = [view EXCEPT ![w] = x]
    BY WorkerRows DEF Sign, Prepare
  <1>8. step \in LaneSteps \ {"permitted", "authorized", "posted"} /\ h.recovery \in Recoveries
    BY <1>1, <1>7 DEF LaneSteps, Rec
  <1> QED
    BY <1>4, <1>5, <1>6, <1>7, <1>8, QuietMove

\* A handler that gives its claim back, finds nothing to do, or dies.
LEMMA GiveUpStep ==
    ASSUME RecoveryLaneInv, NEW w \in Workers,
           \/ GiveUp(w) \/ Fail(w) \/ GiveBack(w) \/ DispatchNone(w)
           \/ Apply(w) /\ ~Complete(Rec(w), view[w])
    PROVE  RecoveryLaneInv'
  <1>1. RecoveryInv /\ now \in Int
    BY WorkerRows
  <1>2. CASE GiveUp(w) \/ Fail(w)
    <2>1. /\ UNCHANGED recoveryVars /\ UNCHANGED venueVars
          /\ Goto(w, "idle") /\ held' = [held EXCEPT ![w] = Idle]
          /\ view' = [view EXCEPT ![w] = Quiet]
      BY <1>2 DEF GiveUp, Fail, Return
    <2> QED
      BY <1>1, <2>1, RowsSame, ReturnStep
  <1>3. CASE DispatchNone(w)
    <2>1. /\ NormalizeExpired(now) /\ UNCHANGED venueVars
          /\ Goto(w, "idle") /\ held' = [held EXCEPT ![w] = Idle]
          /\ view' = [view EXCEPT ![w] = Quiet]
      BY <1>3 DEF DispatchNone, Return
    <2> QED
      BY <2>1, NormalizeAdvances, ReturnStep
  <1>4. CASE GiveBack(w) \/ (Apply(w) /\ ~Complete(Rec(w), view[w]))
    <2>1. PICK r \in Recoveries : r = Rec(w)
      BY <1>4, WorkerRows DEF GiveBack, Apply, Holding
    <2>2. /\ \/ ReleaseReconciliationClaim(r, w, Fence(w), now)
             \/ ReconcileIncomplete(r, w, Fence(w), now)
          /\ UNCHANGED venueVars
          /\ Goto(w, "idle") /\ held' = [held EXCEPT ![w] = Idle]
          /\ view' = [view EXCEPT ![w] = Quiet] \/ UNCHANGED view
      BY <1>4, <2>1 DEF GiveBack, Apply, Return
    <2>3. /\ job[r].state = "reconciling"
          /\ job' = [job EXCEPT ![r] = Released(r, "reconciling")]
          /\ UNCHANGED <<now, parentVars, permit, attempt, proof>>
      BY <2>2 DEF ReleaseReconciliationClaim, ReconcileIncomplete, HasClaim
    <2>4. RecoveryInv' /\ \A s \in Recoveries : RowAdvances(s)
      BY <1>1, <2>3, GivenBack, GivenBackAdvances
    <2>5. now' = now /\ UNCHANGED <<incident, permit>>
      BY <2>3 DEF parentVars
    <2> QED
      BY <2>2, <2>4, <2>5, ReturnStep
  <1> QED
    BY <1>2, <1>3, <1>4

(***************************************************************************)
(* Permits and queueing.                                                   *)
(***************************************************************************)

\* What the safety controller chooses: a fence only when none stands in the way,
\* and every kind for an incident of its own.
LEMMA ChoiceKinds ==
    ASSUME NEW b, NEW c \in Choices(b)
    PROVE  /\ ~RecoveryActive
           /\ \/ c[1] = "noop_fence" /\ c[2] = Ambiguity /\ \A r \in Recoveries : ~Suppresses(r)
              \/ c[1] \in {"reduce_only_close", "cancel_by_cloid"} /\ c[2] \in Incidents \ {Ambiguity}
  <1>1. ~RecoveryActive
    BY DEF Choices
  <1>2. CASE FenceWanted(b)
    <2>1. c = <<"noop_fence", Ambiguity>>
      BY <1>1, <1>2 DEF Choices
    <2> QED
      BY <1>1, <1>2, <2>1 DEF FenceWanted
  <1>3. CASE ~FenceWanted(b)
    <2>1. PICK i \in Incidents \ {Ambiguity} :
             c = <<"reduce_only_close", i>> \/ c = <<"cancel_by_cloid", i>>
      BY <1>1, <1>3 DEF Choices
    <2> QED
      BY <1>1, <2>1
  <1> QED
    BY <1>2, <1>3

\* A permit, issued under the account's lock, keeps the lane's invariant.
LEMMA IssuePermitStep ==
    ASSUME RecoveryLaneInv, NEW w \in Workers, IssuePermit(w)
    PROVE  RecoveryLaneInv'
  <1>1. PICK r \in Recoveries : r = FreshRecovery /\ permit[r].state = "none"
    BY DEF IssuePermit, FreshRecovery
  <1>2. PICK c \in Choices(view[w].book) :
           LET size == IF c[1] = "reduce_only_close" THEN 1 ELSE 0
           IN /\ RegisterPermit(r, c[1], c[2], size, size, now)
              /\ held' = [held EXCEPT ![w].recovery = r]
    BY <1>1 DEF IssuePermit, Allowed
  <1>3. PICK k \in Kinds, i \in Incidents : k = c[1] /\ i = c[2]
    BY <1>2, ChoiceKinds, RecoveryAssumption DEF Kinds
  <1>4. PICK size \in {0, 1} : RegisterPermit(r, k, i, size, size, now)
    BY <1>2, <1>3
  <1>5. /\ ~RecoveryActive
        /\ (k = "noop_fence") <=> (i = Ambiguity)
        /\ k = "noop_fence" => \A s \in Recoveries : ~Suppresses(s)
    BY <1>2, <1>3, ChoiceKinds
  <1>6. /\ RecoveryInv /\ LaneInv /\ RecoveryTypeOK /\ LaneTypeOK
        /\ now \in Nat /\ now \in Int /\ size \in Int /\ size \in Nat
    BY WorkerRows DEF RecoveryLaneInv
  <1>7. RecoveryInv'
    BY <1>4, <1>6, RegisterPermitKeeps
  <1> DEFINE row == [state |-> "issued", kind |-> k, incident |-> i,
                     original |-> size, size |-> size,
                     issued |-> now, expires |-> now + PermitTTL]
  <1>8. permit' = [permit EXCEPT ![r] = row] /\ row.state = "issued" /\ row.kind = k
        /\ row.incident = i
    BY <1>4 DEF RegisterPermit
  <1> HIDE DEF row
  <1>9. permit'[r] = row /\ \A s \in Recoveries \ {r} : permit'[s] = permit[s]
    BY <1>6, <1>8 DEF RecoveryTypeOK
  <1>10. UNCHANGED <<now, parent, incident, account, job, attempt, proof>>
    BY <1>4 DEF RegisterPermit, parentVars
  <1>11. UNCHANGED <<original, book, wire, sends>> /\ UNCHANGED venueVars
    BY DEF IssuePermit, venueVars
  <1>12. job[r].state = "none"
    BY <1>1, <1>6 DEF RecoveryInv, RowAgrees
  <1>13. \A s \in Recoveries : RowAdvances(s)
    <2>1. \A s \in Recoveries \ {r} : RowAdvances(s)
      BY <1>9, <1>10, SameAdvances DEF RowSame
    <2>2. RowAdvances(r)
      <3>1. (Sent(r)' <=> Sent(r)) /\ ~Active(r)' /\ ~Suppresses(r)'
        BY <1>10, <1>12 DEF Sent, Active, Suppresses
      <3> QED
        BY <1>1, <1>10, <1>12, <3>1 DEF RowAdvances
    <2> QED
      BY <2>1, <2>2
  <1>14. PICK h \in HeldRow : h = [held[w] EXCEPT !.recovery = r] /\ h.recovery = r
    <2>1. held[w] \in HeldRow /\ 0 \in Nat
      BY WorkerRows
    <2>2. /\ [held[w] EXCEPT !.recovery = r] \in HeldRow
          /\ [held[w] EXCEPT !.recovery = r].recovery = r
      BY <2>1, HeldMoved
    <2> QED
      BY <2>2
  <1>15. held' = [held EXCEPT ![w] = h] /\ pc' = [pc EXCEPT ![w] = "permitted"] /\ view' = view
    BY <1>2, <1>14 DEF IssuePermit, Goto
  <1>16. /\ held'[w] = h /\ pc'[w] = "permitted"
         /\ \A v \in Workers \ {w} : held'[v] = held[v] /\ pc'[v] = pc[v]
    BY <1>6, <1>15 DEF LaneTypeOK
  <1>17. LaneTypeOK'
    <2>1. "permitted" \in LaneSteps
      BY DEF LaneSteps
    <2> QED
      BY <1>6, <1>11, <1>15, <2>1 DEF LaneTypeOK
  <1>18. \A v \in Workers : Stays(v) \/ Turns(v)
    <2>1. ViewPast(w)'
      BY <1>6, <1>10, <1>11, <1>15 DEF LaneInv, Placed, ViewPast
    <2>2. Turns(w)
      BY <1>14, <1>16, <2>1 DEF Turns
    <2> QED
      BY <1>15, <1>16, <2>2 DEF Stays
  <1>19. \A s \in Recoveries : IncidentHeld(s)'
    <2>1. IncidentHeld(r)'
      BY <1>5, <1>8, <1>9, <1>10, <1>12 DEF IncidentHeld, Active
    <2>2. \A s \in Recoveries \ {r} : IncidentHeld(s)'
      BY <1>6, <1>9, <1>10, <1>11 DEF LaneInv, IncidentHeld, Active
    <2> QED
      BY <2>1, <2>2
  <1>20. PermitLock'
    <2>1. \A v \in Workers : pc'[v] = "permitted" => v = w
      BY <1>16 DEF IssuePermit, AccountLockFree
    <2>2. ~RecoveryActive'
      BY <1>5, <1>10 DEF RecoveryActive, Active
    <2>3. Rec(w)' = r
      BY <1>14, <1>16 DEF Rec
    <2>4. k = "noop_fence" => \A s \in Recoveries : ~Suppresses(s)'
      BY <1>5, <1>13 DEF RowAdvances
    <2> QED
      BY <1>8, <1>9, <2>1, <2>2, <2>3, <2>4 DEF PermitLock
  <1> QED
    BY <1>7, <1>10, <1>6, <1>11, <1>13, <1>17, <1>18, <1>19, <1>20, PlainStep

\* Queueing what was permitted keeps the lane's invariant.
LEMMA QueueStep ==
    ASSUME RecoveryLaneInv, NEW w \in Workers, Queue(w)
    PROVE  RecoveryLaneInv'
  <1>1. PICK r \in Recoveries : r = Rec(w)
    BY WorkerRows DEF Queue, Holding
  <1>2. RecoveryInv /\ LaneInv /\ RecoveryTypeOK /\ LaneTypeOK /\ now \in Nat
    BY WorkerRows DEF RecoveryLaneInv
  <1>3. QueueRecovery(r, permit[r].issued) /\ permit[r].issued \in Int /\ permit[r] \in Permit
    BY <1>1, <1>2 DEF Queue, RecoveryTypeOK, Permit
  <1>4. RecoveryInv'
    BY <1>2, <1>3, QueueKeeps
  <1>5. /\ job[r].state = "none" /\ attempt[r].state = "none" /\ ~RecoveryActive
        /\ permit'[r] = [permit[r] EXCEPT !.state = "consumed"]
        /\ job'[r] = [NoJob EXCEPT !.state = "queued"]
        /\ \A s \in Recoveries \ {r} : RowSame(s)
        /\ UNCHANGED <<now, parent, incident, account, attempt, proof>>
    BY <1>2, <1>3, QueueWrites
  <1>6. job'[r].state = "queued"
    BY <1>5, QueuedJob
  <1>7. /\ permit'[r].kind = permit[r].kind /\ permit'[r].state = "consumed"
        /\ permit'[r].incident = permit[r].incident
    BY <1>3, <1>5, PermitMoved
  <1>8. UNCHANGED <<original, book, wire, sends, held, view>> /\ UNCHANGED venueVars
    BY DEF Queue, venueVars
  <1>9. PICK h \in HeldRow, x \in ViewRow : /\ h = held[w] /\ held' = [held EXCEPT ![w] = h]
                                           /\ x = view[w] /\ view' = [view EXCEPT ![w] = x]
    BY <1>8, WorkerRows
  <1>10. pc' = [pc EXCEPT ![w] = "dispatch"] /\ h.recovery = r
    BY <1>1, <1>9 DEF Queue, Goto, Rec
  <1>11. LaneTypeOK' /\ \A v \in Workers : Stays(v) \/ Turns(v)
    <2>1. "dispatch" \in LaneSteps \ {"permitted", "authorized", "posted"}
      BY DEF LaneSteps
    <2>2. now' = now /\ UNCHANGED venueVars /\ h.recovery \in Recoveries
      BY <1>5, <1>8, <1>10
    <2>3. /\ x = view[w] /\ held' = [held EXCEPT ![w] = h] /\ view' = [view EXCEPT ![w] = x]
          /\ pc' = [pc EXCEPT ![w] = "dispatch"]
      BY <1>9, <1>10
    <2> QED
      BY <2>1, <2>2, <2>3, MoveWorker
  <1>12. /\ pc'[w] = "dispatch"
         /\ \A v \in Workers \ {w} : pc'[v] = pc[v]
    BY <1>2, <1>10 DEF LaneTypeOK
  <1>13. /\ \A v \in Workers : pc[v] = "permitted" => v = w
         /\ permit[r].kind = "noop_fence" => \A s \in Recoveries : ~Suppresses(s)
    BY <1>1, <1>2 DEF LaneInv, PermitLock, Queue
  <1>14. PermitLock'
    BY <1>12, <1>13 DEF PermitLock
  <1>15. \A s \in Recoveries \ {r} : Suppresses(s)' <=> Suppresses(s)
    BY <1>5 DEF RowSame, Suppresses
  <1>16. OneLiveFence'
    <2>1. permit'[r].kind # "noop_fence" => ~Suppresses(r)'
      BY DEF Suppresses
    <2> QED
      BY <1>2, <1>7, <1>13, <1>15, <2>1 DEF LaneInv, OneLiveFence
  <1>17. \A s \in Recoveries : Sent(s)' <=> Sent(s)
    BY <1>5 DEF Sent
  <1>18. \A v \in Workers : Placed(v)'
    BY <1>2, <1>5, <1>8, <1>11, <1>17, PlacesKept DEF VenueAdvances
  <1>19. \A s \in Recoveries \ {r} : WireFollows(s)' /\ EndedIsOver(s)'
    BY <1>2, <1>5, <1>8, <1>11, SameAdvances, WireKept, EndedKept
  <1>20. WireFollows(r)'
    BY <1>2, <1>5, <1>7, <1>8, <1>17 DEF LaneInv, WireFollows
  <1>21. EndedIsOver(r)'
    BY <1>6 DEF EndedIsOver
  <1>22. \A s \in Recoveries \ {r} : IncidentHeld(s)'
    BY <1>2, <1>5, <1>8 DEF LaneInv, IncidentHeld, Active, RowSame
  <1>23. IncidentHeld(r)'
    <2>1. IncidentHeld(r) /\ permit[r].state # "none" /\ incident[permit[r].incident] = "open"
      BY <1>2, <1>3 DEF LaneInv, QueueRecovery
    <2> QED
      BY <1>5, <1>7, <2>1 DEF IncidentHeld
  <1>24. PosterIsAlone' /\ BookFollows'
    BY <1>2, <1>8, <1>11, AloneKept DEF LaneInv, BookFollows
  <1> QED
    BY <1>4, <1>11, <1>14, <1>16, <1>18, <1>19, <1>20, <1>21, <1>22, <1>23, <1>24
       DEF RecoveryLaneInv, LaneInv

(***************************************************************************)
(* The send and its outcome.                                               *)
(***************************************************************************)

\* While a recovery is alive nobody is between a permit and the queueing.
LEMMA NobodyPermitted ==
    ASSUME LaneInv, NEW r \in Recoveries, Active(r), NoNewPermit
    PROVE  PermitLock'
  BY DEF LaneInv, PermitLock, RecoveryActive, NoNewPermit

\* A live recovery is written, and its permit stays: the fences, the incidents
\* and the other recoveries are as before.
LEMMA LiveRowKeeps ==
    ASSUME RecoveryInv, LaneInv, NEW r \in Recoveries, Active(r), Active(r)',
           permit'[r] = permit[r], \A s \in Recoveries \ {r} : RowSame(s),
           UNCHANGED <<incident, original>>
    PROVE  OneLiveFence' /\ \A s \in Recoveries : IncidentHeld(s)'
  <1>1. \A s \in Recoveries \ {r} : /\ Suppresses(s)' <=> Suppresses(s)
                                    /\ Active(s)' <=> Active(s)
                                    /\ permit'[s] = permit[s]
    BY DEF RowSame, Suppresses, Active
  <1>2. Suppresses(r)' => Suppresses(r)
    BY DEF Suppresses, Active
  <1>3. OneLiveFence'
    BY <1>1, <1>2 DEF LaneInv, OneLiveFence
  <1>4. \A s \in Recoveries : IncidentHeld(s)'
    BY <1>1 DEF LaneInv, IncidentHeld
  <1> QED
    BY <1>3, <1>4

\* Consuming the submission authority keeps the lane's invariant.
LEMMA AuthorizeStep ==
    ASSUME RecoveryLaneInv, NEW w \in Workers, Authorize(w)
    PROVE  RecoveryLaneInv'
  <1>1. PICK r \in Recoveries : r = Rec(w)
    BY WorkerRows DEF Authorize, Holding
  <1>2. RecoveryInv /\ LaneInv /\ RecoveryTypeOK /\ LaneTypeOK /\ now \in Nat
    BY WorkerRows DEF RecoveryLaneInv
  <1>3. RequireSubmissionAuthority(r, w, Fence(w), now) /\ now \in Int
    BY <1>1, <1>2 DEF Authorize
  <1>4. RecoveryInv'
    BY <1>2, <1>3, SubmissionKeeps
  <1>5. /\ attempt' = [attempt EXCEPT ![r] = [attempt[r] EXCEPT !.state = "sending"]]
        /\ job[r].state = "signing" /\ attempt[r].state = "prepared"
        /\ UNCHANGED <<now, parent, incident, account, permit, job, proof>>
    BY <1>3 DEF RequireSubmissionAuthority, HasClaim, parentVars
  <1>6. PICK a \in Attempt : /\ a = [attempt[r] EXCEPT !.state = "sending"] /\ a.state = "sending"
                             /\ a.refused = attempt[r].refused
    <2>1. attempt[r] \in Attempt
      BY <1>2, RowTypes
    <2> QED
      BY <2>1, AttemptMoved DEF AttemptStates
  <1>7. attempt'[r] = a /\ \A s \in Recoveries \ {r} : attempt'[s] = attempt[s]
    <2>1. attempt' = [attempt EXCEPT ![r] = a]
      BY <1>5, <1>6
    <2> QED
      BY <1>2, <2>1 DEF RecoveryTypeOK
  <1>8. /\ UNCHANGED <<original, book, wire, sends, held, view>> /\ UNCHANGED venueVars
        /\ pc' = [pc EXCEPT ![w] = "authorized"]
    BY DEF Authorize, venueVars, Goto
  <1>9. pc'[w] = "authorized" /\ \A v \in Workers \ {w} : Stays(v)
    BY <1>2, <1>8 DEF LaneTypeOK, Stays
  <1>10. LaneTypeOK'
    <2>1. "authorized" \in LaneSteps
      BY DEF LaneSteps
    <2> QED
      BY <1>2, <1>8, <2>1 DEF LaneTypeOK
  <1>11. \A s \in Recoveries \ {r} : RowSame(s)
    BY <1>5, <1>7 DEF RowSame
  <1>12. ~Sent(r) /\ Sent(r)' /\ Active(r) /\ Active(r)'
    BY <1>5, <1>6, <1>7 DEF Sent, Active
  <1>13. WireFollows(r)
    BY <1>2 DEF LaneInv
  <1>14. wire[r] = "unsent" /\ ~attempt[r].refused
    BY <1>12, <1>13 DEF WireFollows
  <1>15. WireFollows(r)'
    <2>1. proof[r] = "none"
      BY <1>2, <1>5 DEF RecoveryInv, RowAgrees
    <2> QED
      BY <1>5, <1>6, <1>7, <1>8, <1>12, <1>13, <1>14, <2>1 DEF WireFollows
  <1>16. Rec(w)' = r
    BY <1>1, <1>8 DEF Rec
  <1>17. \A v \in Workers : Placed(v)'
    <2>1. \A s \in Recoveries : Sent(s) => Sent(s)'
      BY <1>7, <1>12 DEF Sent
    <2>2. VenueAdvances
      BY <1>8 DEF VenueAdvances
    <2>3. \A v \in Workers \ {w} : Placed(v)'
      BY <1>2, <1>5, <1>9, <2>1, <2>2, PlacesKept
    <2>4. ViewPast(w)'
      BY <1>2, <1>5, <1>8 DEF LaneInv, Placed, ViewPast
    <2>5. Placed(w)'
      <3>1. Sent(Rec(w))'
        BY <1>12, <1>16 DEF Sent
      <3> QED
        BY <1>8, <1>9, <1>14, <1>16, <2>4, <3>1 DEF Placed
    <2> QED
      BY <2>3, <2>5
  <1>18. PosterIsAlone'
    <2>1. \A v \in Workers \ {w} : pc'[v] = "authorized" => Rec(v)' # r
      <3> SUFFICES ASSUME NEW v \in Workers \ {w}, pc'[v] = "authorized" PROVE Rec(v)' # r
        OBVIOUS
      <3>1. pc[v] = "authorized" /\ Rec(v)' = Rec(v)
        BY <1>9 DEF Stays, Rec
      <3>2. Sent(Rec(v))
        BY <1>2, <3>1 DEF LaneInv, Placed
      <3> QED
        BY <1>12, <3>1, <3>2
    <2>2. \A v \in Workers \ {w} : pc'[v] = pc[v] /\ Rec(v)' = Rec(v)
      BY <1>9 DEF Stays, Rec
    <2> QED
      BY <1>2, <1>16, <2>1, <2>2 DEF LaneInv, PosterIsAlone
  <1>19. PermitLock'
    <2>1. NoNewPermit
      BY <1>9 DEF NoNewPermit, Stays
    <2> QED
      BY <1>2, <1>12, <2>1, NobodyPermitted
  <1>20. OneLiveFence' /\ \A s \in Recoveries : IncidentHeld(s)'
    BY <1>2, <1>5, <1>8, <1>11, <1>12, LiveRowKeeps
  <1>21. EndedIsOver(r)'
    BY <1>5 DEF EndedIsOver
  <1>22. ASSUME NEW s \in Recoveries \ {r} PROVE WireFollows(s)' /\ EndedIsOver(s)'
    <2>1. WireFollows(s)'
      BY <1>2, <1>8, <1>11, SameAdvances, WireKept
    <2>2. \A v \in Workers : pc'[v] = "authorized" /\ Rec(v)' = s => pc[v] = "authorized" /\ Rec(v) = s
      BY <1>9, <1>16 DEF Stays, Rec
    <2>3. EndedIsOver(s)
      BY <1>2 DEF LaneInv
    <2> QED
      BY <1>5, <1>7, <1>8, <2>1, <2>2, <2>3 DEF EndedIsOver, Sent
  <1>23. BookFollows'
    BY <1>2, <1>8 DEF LaneInv, BookFollows
  <1> QED
    BY <1>4, <1>10, <1>15, <1>17, <1>18, <1>19, <1>20, <1>21, <1>22, <1>23
       DEF RecoveryLaneInv, LaneInv

\* The one POST keeps the lane's invariant.
LEMMA PostStep ==
    ASSUME RecoveryLaneInv, NEW w \in Workers, Post(w)
    PROVE  RecoveryLaneInv'
  <1>1. PICK r \in Recoveries : r = Rec(w)
    BY WorkerRows DEF Post, Holding
  <1>2. RecoveryInv /\ LaneInv /\ RecoveryTypeOK /\ LaneTypeOK /\ now \in Nat
    BY WorkerRows DEF RecoveryLaneInv
  <1>3. /\ UNCHANGED recoveryVars /\ UNCHANGED <<held, view, original, book>>
        /\ wire' = [wire EXCEPT ![r] = "flying"]
        /\ sends' = [sends EXCEPT ![r] = sends[r] + 1]
        /\ pc' = [pc EXCEPT ![w] = "posted"] /\ pc[w] = "authorized"
    BY <1>1 DEF Post, Goto
  <1>4. UNCHANGED <<now, parent, incident, account, permit, job, attempt, proof>>
    BY <1>3 DEF recoveryVars, parentVars, laneVars
  <1>5. RecoveryInv' /\ \A s \in Recoveries : RowAdvances(s)
    BY <1>2, <1>3, RowsSame
  <1>6. /\ wire'[r] = "flying" /\ \A s \in Recoveries \ {r} : wire'[s] = wire[s]
        /\ sends'[r] = sends[r] + 1 /\ \A s \in Recoveries \ {r} : sends'[s] = sends[s]
        /\ pc'[w] = "posted" /\ \A v \in Workers \ {w} : pc'[v] = pc[v]
    BY <1>2, <1>3 DEF LaneTypeOK
  <1>7. LaneTypeOK'
    <2>1. "posted" \in LaneSteps /\ "flying" \in WireStates /\ sends[r] + 1 \in Nat
      BY <1>2 DEF LaneSteps, WireStates, LaneTypeOK
    <2> QED
      BY <1>2, <1>3, <2>1 DEF LaneTypeOK
  <1>8. Sent(r) /\ wire[r] = "unsent" /\ WireFollows(r)
    BY <1>1, <1>2, <1>3 DEF LaneInv, Placed
  <1>9. \A v \in Workers : Rec(v)' = Rec(v)
    BY <1>3 DEF Rec
  <1>10. \A v \in Workers \ {w} : pc[v] = "authorized" => Rec(v) # r
    BY <1>1, <1>2, <1>3 DEF LaneInv, PosterIsAlone
  <1>11. \A v \in Workers : Placed(v)'
    <2> SUFFICES ASSUME NEW v \in Workers PROVE Placed(v)'
      OBVIOUS
    <2>1. Placed(v)
      BY <1>2 DEF LaneInv
    <2>2. ViewPast(v)'
      BY <1>3, <1>4, <1>6, <1>8, <2>1 DEF Placed, ViewPast
    <2>3. CASE v = w
      BY <1>1, <1>6, <1>9, <2>2, <2>3 DEF Placed
    <2>4. CASE v # w
      <3>1. pc'[v] = pc[v]
        BY <1>6, <2>4
      <3>2. pc[v] \in {"authorized", "posted"} => Rec(v) \in Recoveries
        BY <2>1 DEF Placed, Holding
      <3>3. pc[v] = "authorized" => Sent(Rec(v))' /\ wire'[Rec(v)] = "unsent"
        <4> SUFFICES ASSUME pc[v] = "authorized" PROVE Sent(Rec(v))' /\ wire'[Rec(v)] = "unsent"
          OBVIOUS
        <4>1. PICK s \in Recoveries : s = Rec(v)
          BY <3>2
        <4>2. Sent(s) /\ wire[s] = "unsent" /\ s # r
          BY <1>10, <2>1, <2>4, <4>1 DEF Placed
        <4>3. Rec(v)' = s
          BY <1>9, <4>1
        <4> QED
          BY <1>4, <1>6, <4>1, <4>2, <4>3 DEF Sent
      <3>4. pc[v] = "posted" => wire'[Rec(v)] # "unsent"
        BY <1>6, <2>1, <3>2 DEF Placed
      <3> QED
        BY <1>9, <2>1, <2>2, <3>1, <3>3, <3>4 DEF Placed
    <2> QED
      BY <2>3, <2>4
  <1>12. PosterIsAlone'
    BY <1>2, <1>6, <1>9 DEF LaneInv, PosterIsAlone
  <1>13. PermitLock' /\ OneLiveFence'
    <2>1. NoNewPermit
      BY <1>3, <1>6 DEF NoNewPermit
    <2> QED
      BY <1>2, <1>5, <2>1, LockKept, FenceKept
  <1>14. WireFollows(r)'
    <2>1. Sent(r)'
      BY <1>4, <1>8 DEF Sent
    <2> QED
      BY <1>3, <1>4, <1>6, <1>8, <2>1 DEF WireFollows
  <1>15. \A s \in Recoveries \ {r} : WireFollows(s)'
    BY <1>2, <1>3, <1>5, <1>6, WireKept
  <1>16. \A s \in Recoveries : EndedIsOver(s)'
    <2> SUFFICES ASSUME NEW s \in Recoveries PROVE EndedIsOver(s)'
      OBVIOUS
    <2>1. EndedIsOver(s) /\ (Sent(s)' <=> Sent(s))
      BY <1>2, <1>4 DEF LaneInv, Sent
    <2>2. CASE s = r
      BY <1>1, <1>3, <1>4, <2>1, <2>2 DEF EndedIsOver
    <2>3. CASE s # r
      <3>1. \A v \in Workers : pc'[v] = "authorized" => pc[v] = "authorized"
        BY <1>6
      <3> QED
        BY <1>4, <1>6, <1>9, <2>1, <2>3, <3>1 DEF EndedIsOver
    <2> QED
      BY <2>2, <2>3
  <1>17. \A s \in Recoveries : IncidentHeld(s)'
    BY <1>2, <1>3, <1>4 DEF LaneInv, IncidentHeld, Active
  <1>18. BookFollows'
    BY <1>2, <1>3 DEF LaneInv, BookFollows
  <1> QED
    BY <1>5, <1>7, <1>11, <1>12, <1>13, <1>14, <1>15, <1>16, <1>17, <1>18
       DEF RecoveryLaneInv, LaneInv

\* Whatever is recorded of the send, a fence is recorded as answered only with
\* what the venue decided.
LEMMA RecordedStep ==
    ASSUME RecoveryLaneInv, NEW w \in Workers, NEW answer, Recorded(w, answer),
           permit[Rec(w)].kind = "noop_fence" =>
              /\ answer = "ok" => wire[Rec(w)] = "accepted"
              /\ answer = "refused" => wire[Rec(w)] = "refused"
    PROVE  RecoveryLaneInv'
  <1>1. PICK r \in Recoveries : r = Rec(w)
    BY WorkerRows DEF Recorded, Holding
  <1>2. RecoveryInv /\ LaneInv /\ RecoveryTypeOK /\ LaneTypeOK /\ now \in Nat /\ now \in Int
    BY WorkerRows DEF RecoveryLaneInv
  <1>3. RecordOutcome(r, w, Fence(w), now, answer)
    BY <1>1 DEF Recorded
  <1>4. RecoveryInv'
    BY <1>2, <1>3, OutcomeKeeps
  <1>5. /\ job[r].state = "signing" /\ attempt[r].state = "sending"
        /\ job'[r] = Released(r, IF answer = "ok" THEN "reconciling" ELSE "submitted_unknown")
        /\ attempt'[r].state = IF answer = "ok" THEN "response_received" ELSE "unknown"
        /\ attempt'[r].refused <=> answer = "refused"
        /\ attempt'[r].expires = attempt[r].expires
        /\ \A s \in Recoveries \ {r} : RowSame(s)
        /\ UNCHANGED <<now, parent, incident, account, permit, proof>>
    BY <1>2, <1>3, OutcomeWrites
  <1>6. job'[r].state \in {"reconciling", "submitted_unknown"}
    BY <1>2, <1>5, ReleasedRow DEF JobStates
  <1>7. Sent(r) /\ Sent(r)' /\ Active(r) /\ Active(r)'
    BY <1>5, <1>6 DEF Sent, Active
  <1>8. UNCHANGED <<original, book, wire, sends>> /\ UNCHANGED venueVars /\ view' = view
    BY DEF Recorded, venueVars
  <1>9. LaneTypeOK' /\ NoNewPermit /\ \A v \in Workers : Stays(v) \/ Turns(v)
    <2>1. "idle" \in LaneSteps \ {"permitted", "authorized", "posted"} /\ "idle" \notin Holding
      BY DEF LaneSteps, Holding
    <2>2. PICK h \in HeldRow, x \in ViewRow : /\ h = Idle
                                             /\ x = view[w] /\ view' = [view EXCEPT ![w] = x]
      BY <1>8, WorkerRows
    <2>3. held' = [held EXCEPT ![w] = h] /\ pc' = [pc EXCEPT ![w] = "idle"]
      BY <2>2 DEF Recorded, Goto
    <2>4. now' = now /\ UNCHANGED venueVars
      BY <1>5, <1>8
    <2> QED
      BY <2>1, <2>2, <2>3, <2>4, MoveWorker
  <1>10. \A v \in Workers : Placed(v)'
    <2>1. \A s \in Recoveries : Sent(s) => Sent(s)'
      BY <1>5, <1>7 DEF RowSame, Sent
    <2>2. VenueAdvances
      BY <1>8 DEF VenueAdvances
    <2> QED
      BY <1>2, <1>5, <1>9, <2>1, <2>2, PlacesKept
  <1>11. WireFollows(r)'
    <2>1. WireFollows(r) /\ proof[r] = "none"
      BY <1>2, <1>5 DEF LaneInv, RecoveryInv, RowAgrees
    <2>2. permit[r].kind = "noop_fence" =>
              /\ answer = "ok" => wire[r] = "accepted"
              /\ answer = "refused" => wire[r] = "refused"
      BY <1>1
    <2> QED
      BY <1>5, <1>7, <1>8, <2>1, <2>2 DEF WireFollows
  <1>12. EndedIsOver(r)'
    BY <1>6 DEF EndedIsOver
  <1>13. \A s \in Recoveries \ {r} : WireFollows(s)' /\ EndedIsOver(s)'
    BY <1>2, <1>5, <1>8, <1>9, SameAdvances, WireKept, EndedKept
  <1>14. OneLiveFence' /\ \A s \in Recoveries : IncidentHeld(s)'
    BY <1>2, <1>5, <1>7, <1>8, LiveRowKeeps
  <1>15. PermitLock' /\ PosterIsAlone'
    BY <1>2, <1>7, <1>9, NobodyPermitted, AloneKept
  <1>16. BookFollows'
    BY <1>2, <1>8 DEF LaneInv, BookFollows
  <1> QED
    BY <1>4, <1>9, <1>10, <1>11, <1>12, <1>13, <1>14, <1>15, <1>16 DEF RecoveryLaneInv, LaneInv

\* Recording what became of the POST keeps the lane's invariant.
LEMMA RecordStep ==
    ASSUME RecoveryLaneInv, NEW w \in Workers, Record(w) \/ Timeout(w)
    PROVE  RecoveryLaneInv'
  <1>1. CASE Timeout(w)
    BY <1>1, RecordedStep DEF Timeout
  <1>2. CASE Record(w)
    <2>1. PICK r \in Recoveries : r = Rec(w)
      BY <1>2, WorkerRows DEF Record, Holding
    <2>2. /\ pc[w] = "posted" /\ wire[r] # "flying"
          /\ Recorded(w, AnswerTo(r))
      BY <1>2, <2>1 DEF Record
    <2>3. WireFollows(r) /\ wire[r] # "unsent" /\ wire[r] \in WireStates
      BY <2>1, <2>2 DEF RecoveryLaneInv, LaneInv, Placed, LaneTypeOK
    <2>4. /\ permit[r].kind = "noop_fence" /\ AnswerTo(r) = "ok" => wire[r] = "accepted"
          /\ AnswerTo(r) = "refused" => wire[r] = "refused"
      BY <2>2, <2>3 DEF AnswerTo, WireFollows, WireStates
    <2> QED
      BY <2>1, <2>2, <2>4, RecordedStep
  <1> QED
    BY <1>1, <1>2

(***************************************************************************)
(* Reconciliation of a recovery with complete evidence.                    *)
(***************************************************************************)

\* What the lane has to know of a complete reconciliation.
LEMMA ApplyFacts ==
    ASSUME RecoveryLaneInv, NEW w \in Workers, Apply(w), Complete(Rec(w), view[w]),
           NEW r \in Recoveries, r = Rec(w)
    PROVE  /\ \E success \in BOOLEAN :
                /\ success = (Complete(r, view[w]) /\ Succeeded(r, view[w]))
                /\ ReconcileRecovery(r, w, Fence(w), now, view[w].at, PositionOf(view[w].book),
                      CoverageOf(view[w].book), success,
                      IF success THEN "contained" ELSE "none")
           /\ view[w].at \in Int /\ PositionOf(view[w].book) \in Int
           /\ CoverageOf(view[w].book) \in Int
           /\ pc' = [pc EXCEPT ![w] = "idle"] /\ held' = [held EXCEPT ![w] = Idle]
           /\ view' = [view EXCEPT ![w] = Quiet] /\ UNCHANGED venueVars
  <1>1. view[w].at \in Int /\ PositionOf(view[w].book) \in Int /\ CoverageOf(view[w].book) \in Int
    BY WorkerRows DEF ViewRow, PositionOf, CoverageOf
  <1>2. /\ pc' = [pc EXCEPT ![w] = "idle"] /\ held' = [held EXCEPT ![w] = Idle]
        /\ view' = [view EXCEPT ![w] = Quiet] /\ UNCHANGED venueVars
    BY DEF Apply, Goto
  <1> DEFINE good == Complete(r, view[w]) /\ Succeeded(r, view[w])
  <1>3. ReconcileRecovery(r, w, Fence(w), now, view[w].at, PositionOf(view[w].book),
           CoverageOf(view[w].book), good, IF good THEN "contained" ELSE "none")
    BY DEF Apply
  <1>4. good \in BOOLEAN
    OBVIOUS
  <1> QED
    BY <1>1, <1>2, <1>3, <1>4

\* A fence or close whose evidence is complete can take no effect any more.
LEMMA CompleteIsOver ==
    ASSUME RecoveryLaneInv, NEW w \in Workers, pc[w] = "apply", NEW r \in Recoveries, r = Rec(w),
           Complete(r, view[w]), permit[r].kind # "cancel_by_cloid"
    PROVE  \/ now >= attempt[r].expires + Settlement
           \/ wire[r] \notin {"flying", "unsent"}
  <1>1. WireFollows(r) /\ Placed(w) /\ permit[r] \in Permit
    BY DEF RecoveryLaneInv, LaneInv, RecoveryInv, RecoveryTypeOK
  <1>2. CASE permit[r].kind = "reduce_only_close"
    <2>1. CloseDecided(r, view[w])
      BY <1>2 DEF Complete
    <2>2. view[w].at \in Int /\ attempt[r].expires \in Int /\ Settlement \in Int /\ now \in Int
      BY WorkerRows, LaneAssumption DEF ViewRow, RecoveryTypeOK, Attempt
    <2> QED
      BY <1>1, <2>1, <2>2 DEF CloseDecided, Placed, ViewPast
  <1>3. CASE permit[r].kind = "noop_fence"
    <2>1. attempt[r].state = "response_received" \/ attempt[r].refused
      BY <1>3 DEF Complete
    <2> QED
      BY <1>1, <1>3, <2>1 DEF WireFollows
  <1> QED
    BY <1>1, <1>2, <1>3 DEF Permit, Kinds

\* Applying the evidence of a recovery keeps the lane's invariant.
LEMMA ApplyStep ==
    ASSUME RecoveryLaneInv, NEW w \in Workers, Apply(w), Complete(Rec(w), view[w])
    PROVE  RecoveryLaneInv'
  <1>1. PICK r \in Recoveries : r = Rec(w)
    BY WorkerRows DEF Apply, Holding
  <1>2. RecoveryInv /\ LaneInv /\ RecoveryTypeOK /\ LaneTypeOK /\ now \in Nat /\ now \in Int
    BY WorkerRows DEF RecoveryLaneInv
  <1>3. PICK success \in BOOLEAN :
           /\ success = (Complete(r, view[w]) /\ Succeeded(r, view[w]))
           /\ ReconcileRecovery(r, w, Fence(w), now, view[w].at, PositionOf(view[w].book),
                 CoverageOf(view[w].book), success, IF success THEN "contained" ELSE "none")
    BY <1>1, ApplyFacts
  <1>4. view[w].at \in Int /\ PositionOf(view[w].book) \in Int /\ CoverageOf(view[w].book) \in Int
    BY <1>1, ApplyFacts
  <1>5. PICK resolution \in {"none", "contained", "closed"} :
           ReconcileRecovery(r, w, Fence(w), now, view[w].at, PositionOf(view[w].book),
                 CoverageOf(view[w].book), success, resolution)
    BY <1>3
  <1>6. RecoveryInv'
    BY <1>2, <1>4, <1>5, ReconcileKeeps
  <1>7. /\ job[r].state = "reconciling"
        /\ job'[r] = Released(r, "terminal")
        /\ proof'[r] = IF success THEN "succeeded" ELSE "failed"
        /\ \A s \in Recoveries \ {r} : RowSame(s)
        /\ UNCHANGED <<now, parent, permit, attempt>>
    <2>1. Ends(r, success)
      BY <1>2, <1>4, <1>5, ReconcileWrites
    <2> QED
      BY <2>1 DEF Ends
  <1>8. job'[r].state = "terminal"
    BY <1>2, <1>7, ReleasedRow DEF JobStates
  <1>9. Active(r) /\ ~Active(r)'
    BY <1>7, <1>8 DEF Active
  <1>10. \A s \in Recoveries : ~Active(s)'
    <2>1. \A s \in Recoveries \ {r} : ~Active(s) /\ (Active(s)' <=> Active(s))
      BY <1>2, <1>7, <1>9 DEF RecoveryInv, Serial, RowSame, Active
    <2> QED
      BY <1>9, <2>1
  <1>11. Sent(r) /\ \A s \in Recoveries : Sent(s)' <=> Sent(s)
    BY <1>2, <1>7 DEF Sent, RecoveryInv, RowAgrees
  <1>12. UNCHANGED <<original, book, wire, sends>> /\ UNCHANGED venueVars
    BY <1>1, ApplyFacts DEF venueVars
  <1>13. LaneTypeOK' /\ NoNewPermit /\ \A v \in Workers : Stays(v) \/ Turns(v)
    <2>1. "idle" \in LaneSteps \ {"permitted", "authorized", "posted"} /\ "idle" \notin Holding
      BY DEF LaneSteps, Holding
    <2>2. PICK h \in HeldRow, x \in ViewRow : h = Idle /\ x = Quiet
      BY WorkerRows
    <2>3. /\ held' = [held EXCEPT ![w] = h] /\ pc' = [pc EXCEPT ![w] = "idle"]
          /\ view' = [view EXCEPT ![w] = x]
      BY <1>1, <2>2, ApplyFacts
    <2>4. now' = now /\ UNCHANGED venueVars
      BY <1>7, <1>12
    <2> QED
      BY <2>1, <2>2, <2>3, <2>4, MoveWorker
  <1>14. \A v \in Workers : Placed(v)'
    <2>1. VenueAdvances
      BY <1>12 DEF VenueAdvances
    <2> QED
      BY <1>2, <1>7, <1>11, <1>13, <2>1, PlacesKept
  <1>15. WireFollows(r)'
    <2>1. WireFollows(r)
      BY <1>2 DEF LaneInv
    <2>2. permit[r].kind = "noop_fence" /\ success => attempt[r].state = "response_received"
      BY <1>3 DEF Succeeded
    <2> QED
      BY <1>7, <1>11, <1>12, <2>1, <2>2 DEF WireFollows
  <1>16. EndedIsOver(r)'
    <2> SUFFICES ASSUME permit[r].kind # "cancel_by_cloid"
                 PROVE  \/ now >= attempt[r].expires + Settlement
                        \/ /\ wire[r] # "flying"
                           /\ \A v \in Workers : pc'[v] = "authorized" => Rec(v)' # r
      BY <1>7, <1>12 DEF EndedIsOver
    <2>1. \/ now >= attempt[r].expires + Settlement
          \/ wire[r] \notin {"flying", "unsent"}
      BY <1>1, CompleteIsOver DEF Apply
    <2>2. \A v \in Workers : pc'[v] = "authorized" => wire[Rec(v)'] = "unsent"
      BY <1>12, <1>14 DEF Placed
    <2> QED
      BY <2>1, <2>2
  <1>17. \A s \in Recoveries \ {r} : WireFollows(s)' /\ EndedIsOver(s)'
    BY <1>2, <1>7, <1>12, <1>13, SameAdvances, WireKept, EndedKept
  <1>18. OneLiveFence'
    <2>1. \A s \in Recoveries \ {r} : Suppresses(s)' <=> Suppresses(s)
      BY <1>7 DEF RowSame, Suppresses
    <2>2. Suppresses(r)' => Suppresses(r)
      BY <1>7 DEF Suppresses
    <2> QED
      BY <1>2, <2>1, <2>2 DEF LaneInv, OneLiveFence
  <1>19. \A s \in Recoveries : IncidentHeld(s)'
    BY <1>2, <1>7, <1>10 DEF LaneInv, IncidentHeld
  <1>20. PermitLock' /\ PosterIsAlone'
    BY <1>2, <1>9, <1>13, NobodyPermitted, AloneKept
  <1>21. BookFollows'
    BY <1>2, <1>12 DEF LaneInv, BookFollows
  <1> QED
    BY <1>6, <1>13, <1>14, <1>15, <1>16, <1>17, <1>18, <1>19, <1>20, <1>21
       DEF RecoveryLaneInv, LaneInv

(***************************************************************************)
(* The parent, the clock, the network and the venue.                       *)
(***************************************************************************)

\* The lane's rows are left alone, only incidents change.
LEMMA IncidentStep ==
    ASSUME RecoveryLaneInv, RecoveryInv', LaneTypeOK', now' = now, UNCHANGED laneVars,
           UNCHANGED venueVars, NoNewPermit, \A v \in Workers : Stays(v) \/ Turns(v),
           \A r \in Recoveries : IncidentKept(r),
           incident[Ambiguity] = "closed" => incident'[Ambiguity] = "closed"
    PROVE  RecoveryLaneInv'
  <1>1. RecoveryInv /\ LaneInv /\ now \in Nat
    BY DEF RecoveryLaneInv, RecoveryInv, RecoveryTypeOK
  <1>2. UNCHANGED <<permit, job, attempt, proof>> /\ original' = original
    BY DEF laneVars, venueVars
  <1>3. \A r \in Recoveries : RowAdvances(r)
    BY <1>2, SameAdvances DEF RowSame
  <1>4. \A r \in Recoveries : IncidentHeld(r)'
    BY <1>1, <1>2, <1>3, IncidentsKept
  <1>5. PermitLock'
    BY <1>1, <1>3, LockKept
  <1> QED
    BY <1>1, <1>3, <1>4, <1>5, PlainStep

\* Opening an incident touches no incident that a live recovery answers.
LEMMA OpenIncidentFacts ==
    ASSUME RecoveryLaneInv, NEW i \in Incidents, OpenIncident(i)
    PROVE  /\ RecoveryInv' /\ now' = now /\ UNCHANGED laneVars
           /\ \A r \in Recoveries : IncidentKept(r)
           /\ \A j \in Incidents : incident[j] # "none" => incident'[j] = incident[j]
           /\ incident[Ambiguity] = "closed" => incident'[Ambiguity] = "closed"
  <1>1. RecoveryInv /\ LaneInv
    BY DEF RecoveryLaneInv
  <1>2. RecoveryInv'
    BY <1>1, OpenIncidentKeeps
  <1>3. now' = now /\ UNCHANGED laneVars
    BY DEF OpenIncident
  <1>4. \A j \in Incidents : incident[j] # "none" => incident'[j] = incident[j]
    BY <1>1 DEF OpenIncident, RecoveryInv, RecoveryTypeOK
  <1>5. ASSUME NEW r \in Recoveries, Active(r) PROVE IncidentKept(r)
    <2>1. permit[r].state # "none"
      BY <1>1, <1>5 DEF RecoveryInv, RowAgrees, Active
    <2>2. /\ permit[r].incident \in Incidents /\ incident[permit[r].incident] # "none"
      BY <1>1, <1>5, <2>1 DEF LaneInv, IncidentHeld
    <2> QED
      BY <1>4, <2>2 DEF IncidentKept
  <1>6. \A r \in Recoveries : IncidentKept(r)
    BY <1>5 DEF IncidentKept
  <1> QED
    BY <1>2, <1>3, <1>4, <1>6, RecoveryAssumption

\* Recording the ambiguity incident keeps the lane's invariant.
LEMMA AmbiguityStep ==
    ASSUME RecoveryLaneInv, NEW w \in Workers, RecordAmbiguity(w)
    PROVE  RecoveryLaneInv'
  <1>1. OpenIncident(Ambiguity) /\ Return(w) /\ UNCHANGED venueVars
    BY DEF RecordAmbiguity
  <1>2. /\ RecoveryInv' /\ now' = now /\ UNCHANGED laneVars
        /\ \A r \in Recoveries : IncidentKept(r)
        /\ incident[Ambiguity] = "closed" => incident'[Ambiguity] = "closed"
    BY <1>1, OpenIncidentFacts, RecoveryAssumption
  <1>3. LaneTypeOK' /\ NoNewPermit /\ \A v \in Workers : Stays(v) \/ Turns(v)
    <2>1. "idle" \in LaneSteps \ {"permitted", "authorized", "posted"} /\ "idle" \notin Holding
      BY DEF LaneSteps, Holding
    <2>2. PICK h \in HeldRow, x \in ViewRow : h = Idle /\ x = Quiet
      BY WorkerRows
    <2>3. /\ held' = [held EXCEPT ![w] = h] /\ pc' = [pc EXCEPT ![w] = "idle"]
          /\ view' = [view EXCEPT ![w] = x]
      BY <1>1, <2>2 DEF Return, Goto
    <2> QED
      BY <1>1, <1>2, <2>1, <2>2, <2>3, MoveWorker
  <1> QED
    BY <1>1, <1>2, <1>3, IncidentStep

\* Opening a hazard incident keeps the lane's invariant.
LEMMA HazardStep ==
    ASSUME RecoveryLaneInv, NEW i \in Incidents, AnswerShowsHazard(i)
    PROVE  RecoveryLaneInv'
  <1>1. OpenIncident(i) /\ UNCHANGED <<pc, held, view, original, book, wire, sends>>
    BY DEF AnswerShowsHazard, processVars, venueVars
  <1>2. LaneTypeOK' /\ NoNewPermit /\ \A v \in Workers : Stays(v)
    BY <1>1 DEF RecoveryLaneInv, LaneInv, LaneTypeOK, NoNewPermit, Stays
  <1>3. UNCHANGED venueVars
    BY <1>1 DEF venueVars
  <1> QED
    BY <1>1, <1>2, <1>3, OpenIncidentFacts, IncidentStep

\* The parent's reconciliation closes no incident under a live recovery, but the
\* ambiguity when the original request landed; a closed incident stays closed.
LEMMA ParentFacts ==
    ASSUME RecoveryLaneInv, NEW w \in Workers, ReconcileEntry(w)
    PROVE  /\ RecoveryInv' /\ now' = now /\ UNCHANGED laneVars
           /\ \A r \in Recoveries : IncidentKept(r)
           /\ \A j \in Incidents : incident[j] = "closed" => incident'[j] = "closed"
  <1> DEFINE b == view[w].book
  <1>1. RecoveryInv /\ LaneInv
    BY DEF RecoveryLaneInv
  <1>2. PICK i \in Incidents :
           ReconcileParent(PositionOf(b), CoverageOf(b), view[w].at, ParentEnds(b), i)
    BY DEF ReconcileEntry
  <1>3. view[w].at \in Int /\ PositionOf(b) \in Int /\ CoverageOf(b) \in Int
    BY WorkerRows DEF ViewRow, PositionOf, CoverageOf
  <1>4. PICK hazard \in BOOLEAN, ends \in BOOLEAN :
           /\ ends <=> ParentEnds(b)
           /\ hazard => i # Ambiguity /\ incident[i] = "none"
           /\ incident' = [j \in Incidents |->
                             CASE hazard /\ j = i -> "open"
                               [] ends /\ ClosedByParent(j) -> "closed"
                               [] OTHER -> incident[j]]
    <2> DEFINE hz == ProtectionState(PositionOf(b), CoverageOf(b))
                        \in {"under_protected", "over_protected"}
               en == ParentEnds(b)
    <2>1. /\ hz => i # Ambiguity /\ incident[i] = "none"
          /\ incident' = [j \in Incidents |->
                             CASE hz /\ j = i -> "open"
                               [] en /\ ClosedByParent(j) -> "closed"
                               [] OTHER -> incident[j]]
      BY <1>2 DEF ReconcileParent
    <2>2. hz \in BOOLEAN /\ en \in BOOLEAN
      BY DEF ParentEnds
    <2> QED
      BY <2>1, <2>2
  <1>5. RecoveryInv'
    <2>1. ParentEnds(b) \in BOOLEAN
      BY DEF ParentEnds
    <2> QED
      BY <1>1, <1>2, <1>3, <2>1, ReconcileParentKeeps
  <1>6. now' = now /\ UNCHANGED laneVars
    BY <1>2 DEF ReconcileParent
  <1>7. \A j \in Incidents :
           /\ incident[j] = "closed" => incident'[j] = "closed"
           /\ incident[j] # "none" /\ incident'[j] # incident[j] =>
                 ends /\ ClosedByParent(j) /\ incident'[j] = "closed"
    BY <1>4 DEF ClosedByParent
  <1>8. ASSUME NEW r \in Recoveries, Active(r) PROVE IncidentKept(r)
    <2>1. permit[r].state # "none"
      BY <1>1, <1>8 DEF RecoveryInv, RowAgrees, Active
    <2>2. /\ permit[r].incident \in Incidents
          /\ (permit[r].kind = "noop_fence") <=> (permit[r].incident = Ambiguity)
          /\ \/ incident[permit[r].incident] = "open"
             \/ /\ permit[r].kind = "noop_fence" /\ incident[Ambiguity] = "closed"
                /\ original = "landed"
      BY <1>1, <1>8, <2>1 DEF LaneInv, IncidentHeld
    <2>3. CASE incident'[permit[r].incident] = incident[permit[r].incident]
      BY <2>3 DEF IncidentKept
    <2>4. CASE incident'[permit[r].incident] # incident[permit[r].incident]
      <3>1. /\ ends /\ ClosedByParent(permit[r].incident)
            /\ incident'[permit[r].incident] = "closed"
        BY <1>7, <2>2, <2>4
      <3>2. incident[permit[r].incident] = "open"
        BY <1>7, <2>2, <2>4
      <3>3. permit[r].incident = Ambiguity /\ permit[r].kind = "noop_fence"
        BY <2>2, <3>1, <3>2 DEF ClosedByParent
      <3>4. ~\E t \in Recoveries : TerminalFence(t)
        <4> SUFFICES ASSUME NEW t \in Recoveries, TerminalFence(t) PROVE FALSE
          OBVIOUS
        <4>1. Suppresses(t) /\ job[t].state = "terminal"
          BY DEF TerminalFence, Suppresses
        <4>2. Suppresses(r) /\ job[r].state # "terminal"
          BY <1>8, <3>3 DEF Suppresses, Active
        <4> QED
          BY <1>1, <4>1, <4>2 DEF LaneInv, OneLiveFence
      <3>5. b # "absent"
        BY <1>4, <3>1, <3>4 DEF ParentEnds
      <3>6. original = "landed"
        BY <1>1, <3>5 DEF LaneInv, Placed, ViewPast
      <3> QED
        BY <3>1, <3>3, <3>6 DEF IncidentKept
    <2> QED
      BY <2>3, <2>4
  <1>9. \A r \in Recoveries : IncidentKept(r)
    BY <1>8 DEF IncidentKept
  <1> QED
    BY <1>5, <1>6, <1>7, <1>9

\* Applying the parent's evidence keeps the lane's invariant.
LEMMA ParentStep ==
    ASSUME RecoveryLaneInv, NEW w \in Workers, ReconcileEntry(w)
    PROVE  RecoveryLaneInv'
  <1>1. /\ RecoveryInv' /\ now' = now /\ UNCHANGED laneVars
        /\ \A r \in Recoveries : IncidentKept(r)
        /\ incident[Ambiguity] = "closed" => incident'[Ambiguity] = "closed"
    BY ParentFacts, RecoveryAssumption
  <1>2. UNCHANGED venueVars /\ UNCHANGED <<held, view>> /\ pc' = [pc EXCEPT ![w] = "reconciled"]
    BY DEF ReconcileEntry, Goto
  <1>3. LaneTypeOK' /\ NoNewPermit /\ \A v \in Workers : Stays(v) \/ Turns(v)
    <2>1. /\ "reconciled" \in LaneSteps \ {"permitted", "authorized", "posted"}
          /\ "reconciled" \notin Holding
      BY DEF LaneSteps, Holding
    <2>2. PICK h \in HeldRow, x \in ViewRow : /\ h = held[w] /\ held' = [held EXCEPT ![w] = h]
                                             /\ x = view[w] /\ view' = [view EXCEPT ![w] = x]
      BY <1>2, WorkerRows
    <2>3. pc' = [pc EXCEPT ![w] = "reconciled"] /\ UNCHANGED venueVars
      BY <1>2
    <2> QED
      BY <1>1, <2>1, <2>2, <2>3, MoveWorker
  <1> QED
    BY <1>1, <1>2, <1>3, IncidentStep

\* The passing of time keeps the lane's invariant.
LEMMA ClockStep ==
    ASSUME RecoveryLaneInv, Clock
    PROVE  RecoveryLaneInv'
  <1>1. RecoveryInv /\ LaneInv /\ now \in Nat
    BY DEF RecoveryLaneInv, RecoveryInv, RecoveryTypeOK
  <1>2. /\ now' = now + 1
        /\ UNCHANGED <<incident, permit, job, attempt, proof>>
        /\ UNCHANGED <<pc, held, view, original, book, wire, sends>>
    BY DEF Clock, Tick, parentVars, laneVars, processVars, venueVars
  <1>3. RecoveryInv'
    BY <1>1, TickKeeps DEF Clock
  <1>4. LaneTypeOK' /\ NoNewPermit /\ \A v \in Workers : Stays(v)
    BY <1>1, <1>2 DEF LaneInv, LaneTypeOK, NoNewPermit, Stays
  <1>5. \A r \in Recoveries : RowAdvances(r)
    BY <1>2, SameAdvances DEF RowSame
  <1>6. \A r \in Recoveries : IncidentHeld(r)'
    BY <1>1, <1>2, <1>3, <1>5, IncidentsKept DEF IncidentKept
  <1>7. PermitLock'
    BY <1>1, <1>4, <1>5, LockKept
  <1>8. UNCHANGED venueVars /\ now' >= now
    BY <1>1, <1>2 DEF venueVars
  <1> QED
    BY <1>3, <1>4, <1>5, <1>6, <1>7, <1>8, PlainStep

\* A recovery request leaves the network with an outcome of its kind.
LEMMA LandsStep ==
    ASSUME RecoveryLaneInv, UNCHANGED <<recoveryVars, pc, held, view, sends, original>>,
           NEW r \in Recoveries, wire[r] = "flying",
           NEW x \in WireStates \ {"unsent", "flying"}, wire' = [wire EXCEPT ![r] = x],
           x = "accepted" => permit[r].kind = "noop_fence" /\ original # "landed",
           x = "refused" => permit[r].kind = "noop_fence",
           x \in {"filled", "unfilled"} => permit[r].kind = "reduce_only_close",
           x = "canceled" => permit[r].kind = "cancel_by_cloid",
           book' \in Books, (book' = "absent") <=> (book = "absent")
    PROVE  RecoveryLaneInv'
  <1>1. RecoveryInv /\ LaneInv /\ LaneTypeOK
    BY DEF RecoveryLaneInv, LaneInv
  <1>2. UNCHANGED <<now, parent, incident, account, permit, job, attempt, proof>>
    BY DEF recoveryVars, parentVars, laneVars
  <1>3. LaneTypeOK'
    BY <1>1 DEF LaneTypeOK
  <1>4. wire'[r] = x /\ \A s \in Recoveries \ {r} : wire'[s] = wire[s]
    BY <1>1 DEF LaneTypeOK
  <1>5. VenueAdvances
    BY <1>4 DEF VenueAdvances
  <1>6. BookFollows'
    BY <1>1 DEF LaneInv, BookFollows
  <1>7. WireFollows(r)'
    <2>1. WireFollows(r) /\ (Sent(r)' <=> Sent(r))
      BY <1>1, <1>2 DEF LaneInv, Sent
    <2> QED
      BY <1>2, <1>4, <2>1 DEF WireFollows
  <1>8. \A s \in Recoveries \ {r} : WireFollows(s)'
    <2>1. \A s \in Recoveries : RowAdvances(s)
      BY <1>1, RowsSame
    <2> QED
      BY <1>1, <1>4, <2>1, WireKept
  <1> QED
    BY <1>3, <1>5, <1>6, <1>7, <1>8, VenueStep

\* The arrival or loss of a recovery request keeps the lane's invariant.
LEMMA DeliveryStep ==
    ASSUME RecoveryLaneInv, NEW r \in Recoveries, Delivery(r)
    PROVE  RecoveryLaneInv'
  <1>1. BookFollows /\ book \in Books /\ wire[r] = "flying"
    BY DEF RecoveryLaneInv, LaneInv, LaneTypeOK, Delivery, LandFence, LandClose, LandCancel,
           LoseRecovery, Arrives
  <1>2. UNCHANGED <<recoveryVars, pc, held, view, sends, original>>
    BY DEF Delivery, LandFence, LandClose, LandCancel, LoseRecovery, processVars
  <1>3. CASE LandFence(r)
    <2>1. permit[r].kind = "noop_fence" /\ book' = book
      BY <1>3 DEF LandFence
    <2>2. "refused" \in WireStates \ {"unsent", "flying"}
          /\ "accepted" \in WireStates \ {"unsent", "flying"}
      BY DEF WireStates
    <2>3. CASE NonceUsed
      <3>1. wire' = [wire EXCEPT ![r] = "refused"]
        BY <1>3, <2>3 DEF LandFence
      <3> QED
        BY <1>1, <1>2, <2>1, <2>2, <3>1, LandsStep
    <2>4. CASE ~NonceUsed
      <3>1. wire' = [wire EXCEPT ![r] = "accepted"]
        BY <1>3, <2>4 DEF LandFence
      <3>2. original # "landed"
        BY <2>4 DEF NonceUsed
      <3> QED
        BY <1>1, <1>2, <2>1, <2>2, <3>1, <3>2, LandsStep
    <2> QED
      BY <2>3, <2>4
  <1>4. CASE LandClose(r)
    <2>1. PICK x \in {"filled", "unfilled"} : wire' = [wire EXCEPT ![r] = x]
      BY <1>4 DEF LandClose
    <2>2. book' \in Books /\ ((book' = "absent") <=> (book = "absent"))
      BY <1>1, <1>4 DEF LandClose, Books, HasPosition
    <2>3. permit[r].kind = "reduce_only_close"
      BY <1>4 DEF LandClose
    <2>4. x \in WireStates \ {"unsent", "flying"}
      BY DEF WireStates
    <2> QED
      BY <1>1, <1>2, <2>1, <2>2, <2>3, <2>4, LandsStep
  <1>5. CASE LandCancel(r)
    <2>1. book' \in Books /\ ((book' = "absent") <=> (book = "absent"))
      BY <1>1, <1>5 DEF LandCancel, Books
    <2>2. permit[r].kind = "cancel_by_cloid" /\ wire' = [wire EXCEPT ![r] = "canceled"]
      BY <1>5 DEF LandCancel
    <2>3. "canceled" \in WireStates \ {"unsent", "flying"}
      BY DEF WireStates
    <2> QED
      BY <1>1, <1>2, <2>1, <2>2, <2>3, LandsStep
  <1>6. CASE LoseRecovery(r)
    <2>1. wire' = [wire EXCEPT ![r] = "dead"] /\ book' = book
      BY <1>6 DEF LoseRecovery
    <2>2. "dead" \in WireStates \ {"unsent", "flying"}
      BY DEF WireStates
    <2> QED
      BY <1>1, <1>2, <2>1, <2>2, LandsStep
  <1> QED
    BY <1>3, <1>4, <1>5, <1>6 DEF Delivery

\* The original request lands or is lost, or its orders move.
LEMMA OriginalStep ==
    ASSUME RecoveryLaneInv, LandOriginal \/ LoseOriginal \/ VenueMoves
    PROVE  RecoveryLaneInv'
  <1>1. RecoveryInv /\ LaneInv /\ LaneTypeOK
    BY DEF RecoveryLaneInv, LaneInv
  <1>2. /\ UNCHANGED <<recoveryVars, pc, held, view, sends>> /\ wire' = wire
    BY DEF LandOriginal, LoseOriginal, VenueMoves, processVars
  <1>3. UNCHANGED <<now, parent, incident, account, permit, job, attempt, proof>>
    BY <1>2 DEF recoveryVars, parentVars, laneVars
  <1>4. /\ original = "landed" => original' = "landed"
        /\ original' \in {"flying", "landed", "dead"}
        /\ original' = "landed" /\ original # "landed" => \A r \in Recoveries : wire[r] # "accepted"
    BY <1>1 DEF LandOriginal, LoseOriginal, VenueMoves, NonceUsed, LaneTypeOK
  <1>5. BookFollows' /\ book' \in Books
    <2>1. BookFollows /\ book \in Books
      BY <1>1 DEF LaneInv, LaneTypeOK
    <2>2. CASE LandOriginal
      BY <2>2 DEF LandOriginal, BookFollows, Books
    <2>3. CASE LoseOriginal
      BY <2>1, <2>3 DEF LoseOriginal, BookFollows
    <2>4. CASE VenueMoves
      <3>1. book \in {"resting", "orphan", "protected", "naked"}
        BY <2>4 DEF VenueMoves, Moves
      <3>2. book' \in {"naked", "protected", "orphan", "done"}
        BY <2>4, <3>1 DEF VenueMoves, Moves
      <3> QED
        BY <2>1, <2>4, <3>1, <3>2 DEF VenueMoves, BookFollows, Books
    <2> QED
      BY <2>2, <2>3, <2>4
  <1>6. LaneTypeOK'
    BY <1>1, <1>2, <1>4, <1>5 DEF LaneTypeOK
  <1>7. VenueAdvances
    BY <1>2, <1>4 DEF VenueAdvances
  <1>8. ASSUME NEW r \in Recoveries PROVE WireFollows(r)'
    <2>1. WireFollows(r) /\ (Sent(r)' <=> Sent(r))
      BY <1>1, <1>3 DEF LaneInv, Sent
    <2> QED
      BY <1>2, <1>3, <1>4, <2>1 DEF WireFollows
  <1> QED
    BY <1>2, <1>5, <1>6, <1>7, <1>8, VenueStep

(***************************************************************************)
(* The composition.                                                        *)
(***************************************************************************)

\* Every step of a worker keeps the lane's invariant.
LEMMA WorkerStepInv ==
    ASSUME RecoveryLaneInv, NEW w \in Workers, Step(w) \/ Timeout(w) \/ Fail(w)
    PROVE  RecoveryLaneInv'
  <1>1. CASE Retire(w) \/ DispatchLeft(w) \/ NormalizeLapsed(w)
    BY <1>1, MaintenanceStep DEF Retire, DispatchLeft, NormalizeLapsed
  <1>2. CASE Apply(w)
    BY <1>2, ApplyStep, GiveUpStep
  <1> QED
    BY <1>1, <1>2, ReadStep, IssuePermitStep, QueueStep, TakeUpStep, DispatchStep, GiveUpStep,
       SignStep, AuthorizeStep, PostStep, RecordStep, ClaimReconciliationStep, ParentStep,
       AmbiguityStep DEF Step

\* The invariant holds at the start.
LEMMA LaneInitInv ==
    LaneInit => RecoveryLaneInv
  <1> SUFFICES ASSUME LaneInit PROVE RecoveryLaneInv
    OBVIOUS
  <1>1. RecoveryInv
    BY RecoveryInitInv DEF LaneInit
  <1>2. /\ pc = [w \in Workers |-> "idle"] /\ held = [w \in Workers |-> Idle]
        /\ view = [w \in Workers |-> Quiet]
        /\ wire = [r \in Recoveries |-> "unsent"] /\ sends = [r \in Recoveries |-> 0]
        /\ \/ original = "flying" /\ book = "absent"
           \/ original = "landed" /\ book \in {"resting", "naked", "protected", "done"}
    BY DEF LaneInit
  <1>3. /\ now = 0
        /\ \A r \in Recoveries : /\ permit[r] = NoPermit /\ job[r] = NoJob
                                 /\ attempt[r] = NoAttempt /\ proof[r] = "none"
    BY DEF LaneInit, RecoveryInit
  <1>4. /\ NoPermit.state = "none" /\ NoJob.state = "none" /\ NoAttempt.state = "none"
        /\ NoAttempt.refused = FALSE
    BY DEF NoPermit, NoJob, NoAttempt
  <1>5. LaneTypeOK
    <2>1. Quiet \in ViewRow /\ Idle \in HeldRow
      <3>1. [r \in Recoveries |-> "unsent"] \in [Recoveries -> WireStates] /\ "absent" \in Books
        BY DEF WireStates, Books
      <3> QED
        BY <3>1 DEF Quiet, Idle, ViewRow, HeldRow, Never
    <2> QED
      BY <1>2, <2>1 DEF LaneTypeOK, LaneSteps, WireStates, Books
  <1>6. \A r \in Recoveries : /\ ~Active(r) /\ ~Suppresses(r) /\ ~Sent(r)
                              /\ WireFollows(r) /\ EndedIsOver(r) /\ IncidentHeld(r)
    <2> SUFFICES ASSUME NEW r \in Recoveries
                 PROVE  /\ ~Active(r) /\ ~Suppresses(r) /\ ~Sent(r)
                        /\ WireFollows(r) /\ EndedIsOver(r) /\ IncidentHeld(r)
      OBVIOUS
    <2>1. /\ permit[r].state = "none" /\ job[r].state = "none" /\ attempt[r].state = "none"
          /\ attempt[r].refused = FALSE /\ proof[r] = "none" /\ wire[r] = "unsent" /\ sends[r] = 0
      BY <1>2, <1>3, <1>4
    <2>2. ~Active(r) /\ ~Suppresses(r) /\ ~Sent(r)
      BY <2>1 DEF Active, Suppresses, Sent
    <2> QED
      BY <2>1, <2>2 DEF WireFollows, EndedIsOver, IncidentHeld
  <1>7. \A w \in Workers : Placed(w)
    <2>1. Quiet.book = "absent" /\ Quiet.at <= 0 /\ \A r \in Recoveries : Quiet.wire[r] = "unsent"
      BY DEF Quiet, Never
    <2>2. \A w \in Workers : view[w] = Quiet /\ pc[w] = "idle"
      BY <1>2
    <2> QED
      BY <1>3, <2>1, <2>2 DEF Placed, ViewPast, Holding
  <1>8. PosterIsAlone /\ PermitLock /\ OneLiveFence /\ BookFollows
    BY <1>2, <1>6 DEF PosterIsAlone, PermitLock, OneLiveFence, BookFollows
  <1> QED
    BY <1>1, <1>5, <1>6, <1>7, <1>8 DEF RecoveryLaneInv, LaneInv

\* Every step keeps the invariant.
LEMMA LaneNextInv ==
    ASSUME RecoveryLaneInv, [LaneNext]_vars
    PROVE  RecoveryLaneInv'
  <1>1. CASE UNCHANGED vars
    <2>1. /\ UNCHANGED <<recoveryVars, pc, held, view, original, book, wire, sends>>
          /\ UNCHANGED venueVars
      BY <1>1 DEF vars, processVars, venueVars
    <2>2. LaneTypeOK' /\ NoNewPermit /\ \A v \in Workers : Stays(v)
      BY <2>1 DEF RecoveryLaneInv, LaneInv, LaneTypeOK, NoNewPermit, Stays
    <2>3. /\ RecoveryInv' /\ now' = now /\ UNCHANGED <<incident, permit>>
          /\ \A r \in Recoveries : RowAdvances(r)
      BY <2>1, RowsSame DEF RecoveryLaneInv
    <2> QED
      BY <2>1, <2>2, <2>3, QuietStep
  <1> QED
    BY <1>1, ClockStep, WorkerStepInv, DeliveryStep, HazardStep, OriginalStep DEF LaneNext

(***************************************************************************)
(* Theorems: the invariant and what follows from it.                       *)
(***************************************************************************)

\* The inductive invariant of the recovery lane: the store's own, and how the
\* processes, the requests and the venue's book agree with its rows.
THEOREM LaneInvariant == LaneSpec => []RecoveryLaneInv
  <1>1. RecoveryLaneInv /\ [LaneNext]_vars => RecoveryLaneInv'
    BY LaneNextInv
  <1> QED
    BY <1>1, LaneInitInv, PTL DEF LaneSpec

\* The rows of the recovery tables keep their types under the processes.
THEOREM LaneTypeCorrect == LaneSpec => []RecoveryTypeOK
  <1>1. RecoveryLaneInv => RecoveryTypeOK
    BY DEF RecoveryLaneInv, RecoveryInv
  <1> QED
    BY <1>1, LaneInvariant, PTL

\* No process prepares a close or cancel for a parent of unknown outcome before
\* a fence of its nonce succeeded.
THEOREM LaneFencesFirst == LaneSpec => []FencedBeforeOtherActions
  <1>1. RecoveryLaneInv => FencedBeforeOtherActions
    BY DEF RecoveryLaneInv, RecoveryInv, PermittedBehindFence, FencedBeforeOtherActions
  <1> QED
    BY <1>1, LaneInvariant, PTL

\* No recovery is posted twice, and at most one fence is ever posted, whatever
\* processes die, lose answers or are delayed: a posted fence stands in the way
\* of every other.
THEOREM FencedOnce == LaneSpec => []OneFencePerNonce
  <1>1. RecoveryLaneInv => OneFencePerNonce
    <2> SUFFICES ASSUME RecoveryLaneInv PROVE OneFencePerNonce
      OBVIOUS
    <2>1. ASSUME NEW r \in Recoveries
          PROVE  /\ sends[r] <= 1
                 /\ permit[r].kind = "noop_fence" /\ sends[r] > 0 => Suppresses(r)
      <3>1. WireFollows(r) /\ RecoveryInv
        BY DEF RecoveryLaneInv, LaneInv
      <3>2. sends[r] = 0 \/ (sends[r] = 1 /\ wire[r] # "unsent")
        BY <3>1 DEF WireFollows
      <3>3. sends[r] > 0 => Sent(r)
        BY <3>1, <3>2 DEF WireFollows
      <3>4. Sent(r) => job[r].state # "none"
        BY <3>1, SentWasPermitted DEF Sent
      <3>5. permit[r].kind = "noop_fence" /\ Sent(r) => Suppresses(r)
        BY <3>4 DEF Suppresses, Sent
      <3> QED
        BY <3>2, <3>3, <3>5
    <2> DEFINE F == {r \in Recoveries : permit[r].kind = "noop_fence" /\ sends[r] > 0}
    <2>2. \A r, s \in F : r = s
      BY <2>1 DEF RecoveryLaneInv, LaneInv, OneLiveFence
    <2>3. Cardinality(F) <= 1
      <3>1. CASE F = {}
        BY <3>1, FS_EmptySet
      <3>2. ASSUME NEW r \in F PROVE Cardinality(F) <= 1
        <4>1. F = {r}
          BY <2>2, <3>2
        <4> HIDE DEF F
        <4> QED
          BY <4>1, FS_Singleton
      <3> HIDE DEF F
      <3> QED
        BY <3>1, <3>2
    <2> QED
      BY <2>1, <2>3 DEF OneFencePerNonce
  <1> QED
    BY <1>1, LaneInvariant, PTL

\* Behind a successful fence the original request has left nothing at the venue
\* and never will: the venue took the fence's nonce before the answer that the
\* fence's proof rests on.
THEOREM FenceDecides == LaneSpec => []FenceIsFinal
  <1>1. RecoveryLaneInv => FenceIsFinal
    <2> SUFFICES ASSUME RecoveryLaneInv, Fenced PROVE book = "absent" /\ original # "landed"
      BY DEF FenceIsFinal
    <2>1. PICK r \in Recoveries : permit[r].kind = "noop_fence" /\ proof[r] = "succeeded"
      BY DEF Fenced
    <2>2. WireFollows(r) /\ BookFollows
      BY DEF RecoveryLaneInv, LaneInv
    <2> QED
      BY <2>1, <2>2 DEF WireFollows, BookFollows
  <1> QED
    BY <1>1, LaneInvariant, PTL

(***************************************************************************)
(* What a step of the lane does to the rows.                               *)
(***************************************************************************)

\* The maintenance of claims, the claims themselves, the steps up to the
\* submission authority and the return of a claim.
AdvancingStep(w) ==
    \/ Retire(w) \/ DispatchNone(w) \/ DispatchLeft(w) \/ NormalizeLapsed(w)
    \/ Dispatch(w) \/ ClaimForReconciliation(w)
    \/ Sign(w) \/ Prepare(w)
    \/ GiveBack(w) \/ (Apply(w) /\ ~Complete(Rec(w), view[w]))

\* The steps that leave the tables alone.
IdleStep(w) ==
    \/ ReadVenue(w) \/ ResumeFence(w) \/ Post(w) \/ ReadRecovery(w)
    \/ TurnToParent(w) \/ GiveUp(w) \/ Fail(w)

\* An advancing step keeps the rows, and begins, sends and answers nothing.
LEMMA AdvancingKeeps ==
    ASSUME RecoveryLaneInv, NEW w \in Workers, AdvancingStep(w)
    PROVE  /\ \A r \in Recoveries : RowAdvances(r) /\ RowKept(r)
           /\ UNCHANGED <<incident, wire>>
  <1>1. RecoveryInv /\ RecoveryTypeOK /\ now \in Int /\ now <= now
    BY WorkerRows
  <1>2. wire' = wire
    BY DEF AdvancingStep, Retire, DispatchNone, DispatchLeft, NormalizeLapsed, Dispatch,
           ClaimForReconciliation, Sign, Prepare, GiveBack, Apply, venueVars
  <1>3. CASE Retire(w) \/ DispatchNone(w) \/ DispatchLeft(w) \/ NormalizeLapsed(w)
    <2>1. NormalizeExpired(now)
      BY <1>3 DEF Retire, DispatchNone, DispatchLeft, NormalizeLapsed
    <2> QED
      BY <1>1, <1>2, <2>1, NormalizeAdvances, NormalizeExpiredKeeps
  <1>4. CASE Dispatch(w)
    <2>1. PICK r \in Recoveries : r = Rec(w)
      BY <1>4, WorkerRows DEF Dispatch, Holding
    <2>2. PICK l \in Leases : ClaimNextRecovery(r, w, now, l)
      BY <1>4, <2>1 DEF Dispatch
    <2>3. l \in Int
      BY RecoveryAssumption
    <2>4. \A s \in Recoveries : RowAdvances(s) /\ RowKept(s)
      BY <1>1, <2>2, <2>3, ClaimNextKeeps, ClaimNextAdvances
    <2>5. incident' = incident
      BY <2>2 DEF ClaimNextRecovery, parentVars
    <2> QED
      BY <1>2, <2>4, <2>5
  <1>5. CASE ClaimForReconciliation(w)
    <2>1. PICK r \in Recoveries : r = Rec(w)
      BY <1>5, WorkerRows DEF ClaimForReconciliation, Holding
    <2>2. PICK l \in Leases : ClaimReconciliation(r, w, now, l)
      BY <1>5, <2>1 DEF ClaimForReconciliation
    <2>3. l \in Int
      BY RecoveryAssumption
    <2>4. \A s \in Recoveries : RowAdvances(s) /\ RowKept(s)
      BY <1>1, <2>2, <2>3, ClaimReconciliationKeeps, ClaimReconciliationAdvances
    <2>5. incident' = incident
      BY <2>2 DEF ClaimReconciliation, parentVars
    <2> QED
      BY <1>2, <2>4, <2>5
  <1>6. CASE Sign(w) \/ Prepare(w)
    <2>1. PICK r \in Recoveries : r = Rec(w)
      BY <1>6, WorkerRows DEF Sign, Prepare, Holding
    <2>2. permit[r].expires \in Int
      BY <1>1 DEF RecoveryTypeOK, Permit
    <2>3. \/ RequireSigningAuthority(r, w, Fence(w), now)
          \/ PrepareAttempt(r, w, Fence(w), now, permit[r].expires)
      BY <1>6, <2>1 DEF Sign, Prepare
    <2>4. \A s \in Recoveries : RowAdvances(s) /\ RowKept(s)
      BY <1>1, <2>2, <2>3, SigningKeeps, SigningAdvances, PrepareKeeps, PrepareAdvances
    <2>5. incident' = incident
      BY <2>3 DEF RequireSigningAuthority, PrepareAttempt, parentVars
    <2> QED
      BY <1>2, <2>4, <2>5
  <1>7. CASE GiveBack(w) \/ (Apply(w) /\ ~Complete(Rec(w), view[w]))
    <2>1. PICK r \in Recoveries : r = Rec(w)
      BY <1>7, WorkerRows DEF GiveBack, Apply, Holding
    <2>2. \/ ReleaseReconciliationClaim(r, w, Fence(w), now)
          \/ ReconcileIncomplete(r, w, Fence(w), now)
      BY <1>7, <2>1 DEF GiveBack, Apply
    <2>3. /\ job[r].state = "reconciling"
          /\ job' = [job EXCEPT ![r] = Released(r, "reconciling")]
          /\ UNCHANGED <<now, parentVars, permit, attempt, proof>>
      BY <2>2 DEF ReleaseReconciliationClaim, ReconcileIncomplete, HasClaim
    <2>4. \A s \in Recoveries : RowAdvances(s) /\ RowKept(s)
      BY <1>1, <2>3, GivenBack, GivenBackAdvances
    <2>5. incident' = incident
      BY <2>3 DEF parentVars
    <2> QED
      BY <1>2, <2>4, <2>5
  <1> QED
    BY <1>3, <1>4, <1>5, <1>6, <1>7 DEF AdvancingStep

\* A permit is registered: no row begins or ends.
LEMMA PermitKeeps ==
    ASSUME RecoveryLaneInv, NEW w \in Workers, IssuePermit(w)
    PROVE  (\A r \in Recoveries : RowKept(r)) /\ UNCHANGED <<incident, job, attempt, wire>>
  <1>1. PICK r \in Recoveries : r = FreshRecovery
    BY DEF IssuePermit, FreshRecovery
  <1>2. PICK c \in Choices(view[w].book) :
           LET size == IF c[1] = "reduce_only_close" THEN 1 ELSE 0
           IN RegisterPermit(r, c[1], c[2], size, size, now)
    BY <1>1 DEF IssuePermit, Allowed
  <1>3. PICK k \in Kinds, i \in Incidents : k = c[1] /\ i = c[2]
    BY <1>2, ChoiceKinds, RecoveryAssumption DEF Kinds
  <1>4. PICK size \in {0, 1} : RegisterPermit(r, k, i, size, size, now)
    BY <1>2, <1>3
  <1>5. RecoveryInv /\ now \in Int /\ size \in Int /\ size \in Nat
    BY WorkerRows
  <1>6. \A s \in Recoveries : RowKept(s)
    BY <1>4, <1>5, RegisterPermitKeeps
  <1>7. UNCHANGED <<incident, job, attempt>>
    BY <1>4 DEF RegisterPermit, parentVars
  <1> QED
    BY <1>6, <1>7 DEF IssuePermit, venueVars

\* A complete reconciliation closes no incident again: a successful fence proves
\* that the original did not land, so its ambiguity was not closed under it.
LEMMA ApplyKeeps ==
    ASSUME RecoveryLaneInv, NEW w \in Workers, Apply(w), Complete(Rec(w), view[w])
    PROVE  /\ \A r \in Recoveries : RowKept(r)
           /\ \A i \in Incidents : incident[i] = "closed" => incident'[i] = "closed"
  <1>1. PICK r \in Recoveries : r = Rec(w)
    BY WorkerRows DEF Apply, Holding
  <1>2. RecoveryInv /\ LaneInv /\ RecoveryTypeOK /\ now \in Int
    BY WorkerRows DEF RecoveryLaneInv
  <1>3. PICK success \in BOOLEAN :
           /\ success = (Complete(r, view[w]) /\ Succeeded(r, view[w]))
           /\ ReconcileRecovery(r, w, Fence(w), now, view[w].at, PositionOf(view[w].book),
                 CoverageOf(view[w].book), success, IF success THEN "contained" ELSE "none")
    BY <1>1, ApplyFacts
  <1>4. view[w].at \in Int /\ PositionOf(view[w].book) \in Int /\ CoverageOf(view[w].book) \in Int
    BY <1>1, ApplyFacts
  <1>5. PICK resolution \in {"none", "contained", "closed"} :
           /\ resolution = IF success THEN "contained" ELSE "none"
           /\ ReconcileRecovery(r, w, Fence(w), now, view[w].at, PositionOf(view[w].book),
                 CoverageOf(view[w].book), success, resolution)
    BY <1>3
  <1>6. \A s \in Recoveries : RowKept(s)
    BY <1>2, <1>4, <1>5, ReconcileKeeps
  <1>7. /\ job[r].state = "reconciling"
        /\ incident' = IF resolution = "none" THEN incident
                       ELSE [incident EXCEPT ![permit[r].incident] = resolution]
    <2>1. Ends(r, success)
          /\ incident' = IF resolution = "none" THEN incident
                         ELSE [incident EXCEPT ![permit[r].incident] = resolution]
      BY <1>2, <1>4, <1>5, ReconcileWrites
    <2> QED
      BY <2>1 DEF Ends
  <1>8. ASSUME NEW i \in Incidents, incident[i] = "closed" PROVE incident'[i] = "closed"
    <2>1. CASE ~success
      BY <1>5, <1>7, <1>8, <2>1
    <2>2. CASE success
      <3>1. incident[permit[r].incident] = "open"
        <4>1. \/ incident[permit[r].incident] = "open"
              \/ permit[r].kind = "noop_fence" /\ original = "landed"
          BY <1>2, <1>7 DEF LaneInv, IncidentHeld, Active
        <4>2. permit[r].kind = "noop_fence" => attempt[r].state = "response_received"
          BY <1>3, <2>2 DEF Succeeded
        <4>3. WireFollows(r)
          BY <1>2 DEF LaneInv
        <4> QED
          BY <4>1, <4>2, <4>3 DEF WireFollows
      <3>2. i # permit[r].incident
        BY <1>8, <3>1
      <3> QED
        BY <1>2, <1>5, <1>7, <1>8, <2>2, <3>2 DEF RecoveryTypeOK
    <2> QED
      BY <2>1, <2>2
  <1> QED
    BY <1>6, <1>8

\* Every step of the lane keeps the rows of the store and what is closed.
LEMMA LaneKeeps ==
    ASSUME RecoveryLaneInv, [LaneNext]_vars
    PROVE  /\ \A r \in Recoveries : RowKept(r)
           /\ \A i \in Incidents : incident[i] = "closed" => incident'[i] = "closed"
  <1>1. RecoveryInv /\ RecoveryTypeOK
    BY DEF RecoveryLaneInv, RecoveryInv
  <1>2. ASSUME UNCHANGED recoveryVars
        PROVE  (\A r \in Recoveries : RowKept(r)) /\ incident' = incident
    <2>1. RecoveryTypeOK' /\ parent' = parent /\ UNCHANGED laneVars /\ incident' = incident
      BY <1>1, <1>2 DEF RecoveryTypeOK, recoveryVars, parentVars, laneVars
    <2> QED
      BY <1>1, <2>1, LaneFrame
  <1>3. CASE UNCHANGED vars
    BY <1>2, <1>3 DEF vars
  <1>4. CASE Clock
    <2>1. Tick /\ incident' = incident
      BY <1>4 DEF Clock, Tick, parentVars
    <2> QED
      BY <1>1, <2>1, TickKeeps
  <1>5. ASSUME NEW w \in Workers, Step(w) \/ Timeout(w) \/ Fail(w)
        PROVE  /\ \A r \in Recoveries : RowKept(r)
               /\ \A i \in Incidents : incident[i] = "closed" => incident'[i] = "closed"
    <2>1. CASE AdvancingStep(w)
      BY <2>1, AdvancingKeeps
    <2>2. CASE IdleStep(w)
      <3>1. UNCHANGED recoveryVars
        BY <2>2 DEF IdleStep, ReadVenue, ResumeFence, Post, ReadRecovery, TurnToParent, GiveUp, Fail
      <3> QED
        BY <1>2, <3>1
    <2>3. CASE IssuePermit(w)
      BY <2>3, PermitKeeps
    <2>4. CASE Apply(w) /\ Complete(Rec(w), view[w])
      BY <2>4, ApplyKeeps
    <2>5. CASE ReconcileEntry(w)
      <3>1. UNCHANGED laneVars /\ \A i \in Incidents : incident[i] = "closed" => incident'[i] = "closed"
        BY <2>5, ParentFacts
      <3>2. \A r \in Recoveries : RowKept(r)
        BY <3>1 DEF laneVars, RowKept
      <3> QED
        BY <3>1, <3>2
    <2>6. CASE RecordAmbiguity(w)
      <3>1. OpenIncident(Ambiguity) /\ Ambiguity \in Incidents
        BY <2>6, RecoveryAssumption DEF RecordAmbiguity
      <3> QED
        BY <1>1, <3>1, OpenIncidentKeeps, OpenIncidentFacts
    <2>7. CASE Queue(w)
      <3>1. PICK r \in Recoveries : r = Rec(w)
        BY <2>7, WorkerRows DEF Queue, Holding
      <3>2. QueueRecovery(r, permit[r].issued) /\ permit[r].issued \in Int
        BY <1>1, <2>7, <3>1 DEF Queue, RecoveryTypeOK, Permit
      <3>3. incident' = incident
        BY <3>2 DEF QueueRecovery, parentVars
      <3> QED
        BY <1>1, <3>2, <3>3, QueueKeeps
    <2>8. CASE Authorize(w)
      <3>1. PICK r \in Recoveries : r = Rec(w)
        BY <2>8, WorkerRows DEF Authorize, Holding
      <3>2. RequireSubmissionAuthority(r, w, Fence(w), now) /\ now \in Int
        BY <2>8, <3>1, WorkerRows DEF Authorize
      <3>3. incident' = incident
        BY <3>2 DEF RequireSubmissionAuthority, parentVars
      <3> QED
        BY <1>1, <3>2, <3>3, SubmissionKeeps
    <2>9. CASE Record(w) \/ Timeout(w)
      <3>1. PICK r \in Recoveries : r = Rec(w)
        BY <2>9, WorkerRows DEF Record, Timeout, Recorded, Holding
      <3>2. PICK answer : RecordOutcome(r, w, Fence(w), now, answer)
        BY <2>9, <3>1 DEF Record, Timeout, Recorded
      <3>3. incident' = incident /\ now \in Int
        BY <3>2, WorkerRows DEF RecordOutcome, parentVars
      <3> QED
        BY <1>1, <3>2, <3>3, OutcomeKeeps
    <2> QED
      BY <1>5, <2>1, <2>2, <2>3, <2>4, <2>5, <2>6, <2>7, <2>8, <2>9
         DEF Step, AdvancingStep, IdleStep
  <1>6. ASSUME NEW r \in Recoveries, Delivery(r) PROVE UNCHANGED recoveryVars
    BY <1>6 DEF Delivery, LandFence, LandClose, LandCancel, LoseRecovery
  <1>7. ASSUME NEW i \in Incidents, AnswerShowsHazard(i)
        PROVE  /\ \A r \in Recoveries : RowKept(r)
               /\ \A j \in Incidents : incident[j] = "closed" => incident'[j] = "closed"
    <2>1. OpenIncident(i)
      BY <1>7 DEF AnswerShowsHazard
    <2> QED
      BY <1>1, <2>1, OpenIncidentKeeps, OpenIncidentFacts
  <1>8. CASE LandOriginal \/ LoseOriginal \/ VenueMoves
    BY <1>2, <1>8 DEF LandOriginal, LoseOriginal, VenueMoves
  <1> QED
    BY <1>2, <1>3, <1>4, <1>5, <1>6, <1>7, <1>8 DEF LaneNext

\* Under the processes of the lane a claim passes on only after its lease has
\* run out, and a recovery that ended keeps its row, attempt and proof.
THEOREM LanePassesOn == LaneSpec => RecoveryPassesWhileAlive
  <1>1. RecoveryLaneInv /\ [LaneNext]_vars =>
          [\A r \in Recoveries :
             /\ job'[r].token # job[r].token => job[r].worker = NoWorker \/ job[r].lease <= now
             /\ job[r].state = "terminal" =>
                   job'[r] = job[r] /\ attempt'[r] = attempt[r] /\ proof'[r] = proof[r]
          ]_recoveryVars
    BY LaneKeeps DEF RowKept
  <1> QED
    BY <1>1, LaneInvariant, PTL DEF LaneSpec, RecoveryPassesWhileAlive

\* A closed incident stays closed: no late reconciliation of a recovery, which
\* overwrites its incident whatever state that is in, reopens it.
THEOREM IncidentsStayClosed == LaneSpec => ClosedStaysClosed
  <1>1. RecoveryLaneInv /\ [LaneNext]_vars =>
          [\A i \in Incidents : incident[i] = "closed" => incident'[i] = "closed"]_vars
    BY LaneKeeps
  <1> QED
    BY <1>1, LaneInvariant, PTL DEF LaneSpec, ClosedStaysClosed

(***************************************************************************)
(* Refinement: each step is a step of OneShotSubmission, or none.          *)
(***************************************************************************)

\* The stage of a recovery in terms of its row and its attempt.
LEMMA Stages ==
    ASSUME NEW r \in Recoveries
    PROVE  /\ job[r].state = "none" => StageOf(r) = "none"
           /\ job[r].state = "terminal" /\ ~Sent(r) => StageOf(r) = "void"
           /\ job[r].state = "terminal" /\ Sent(r) => StageOf(r) = "settled"
           /\ Active(r) /\ ~Sent(r) => StageOf(r) = "open"
           /\ Active(r) /\ Sent(r) => StageOf(r) = "committed"
  BY DEF StageOf, Sent, Active

\* The same after a step.
LEMMA StagesAfter ==
    ASSUME NEW r \in Recoveries
    PROVE  /\ job'[r].state = "none" => StageOf(r)' = "none"
           /\ job'[r].state = "terminal" /\ ~Sent(r)' => StageOf(r)' = "void"
           /\ job'[r].state = "terminal" /\ Sent(r)' => StageOf(r)' = "settled"
           /\ Active(r)' /\ ~Sent(r)' => StageOf(r)' = "open"
           /\ Active(r)' /\ Sent(r)' => StageOf(r)' = "committed"
  BY DEF StageOf, Sent, Active

\* The stages a step may take one recovery through.
StageMoves(r) ==
    \/ StageOf(r)' = StageOf(r)
    \/ /\ StageOf(r) = "none" /\ StageOf(r)' = "open"
       /\ \A s \in Recoveries : StageOf(s) \notin {"open", "committed"}
    \/ StageOf(r) = "open" /\ StageOf(r)' \in {"committed", "void"}
    \/ StageOf(r) = "committed" /\ StageOf(r)' = "settled"

\* Whether a request has taken an effect that could come too late.
Acted(r) == wire[r] \in {"accepted", "filled"}

\* One recovery moves and no request acts: a step of the abstract specification.
LEMMA OneStageMoves ==
    ASSUME NEW r \in Recoveries, StageMoves(r), UNCHANGED wire,
           \A s \in Recoveries : s # r => StageOf(s)' = StageOf(s)
    PROVE  [OneShot!ShotNext]_(OneShot!shotVars)
  <1> DEFINE f == [s \in Recoveries |-> StageOf(s)]
             g == [s \in Recoveries |-> wire[s] \in {"accepted", "filled"}]
  <1>1. g' = g
    OBVIOUS
  <1>2. f' = [f EXCEPT ![r] = StageOf(r)']
    OBVIOUS
  <1>3. CASE StageOf(r)' = StageOf(r)
    <2>1. f' = f
      BY <1>3
    <2> QED
      BY <1>1, <2>1 DEF OneShot!shotVars
  <1>4. CASE /\ StageOf(r) = "none" /\ StageOf(r)' = "open"
             /\ \A s \in Recoveries : StageOf(s) \notin {"open", "committed"}
    <2>1. OneShot!Open(r)
      BY <1>1, <1>2, <1>4 DEF OneShot!Open, OneShot!Alive, OneShot!Enter
    <2> QED
      BY <2>1 DEF OneShot!ShotNext
  <1>5. CASE StageOf(r) = "open" /\ StageOf(r)' \in {"committed", "void"}
    <2>1. OneShot!Commit(r) \/ OneShot!Void(r)
      BY <1>1, <1>2, <1>5 DEF OneShot!Commit, OneShot!Void, OneShot!Enter
    <2> QED
      BY <2>1 DEF OneShot!ShotNext
  <1>6. CASE StageOf(r) = "committed" /\ StageOf(r)' = "settled"
    <2>1. OneShot!Settle(r)
      BY <1>1, <1>2, <1>6 DEF OneShot!Settle, OneShot!Enter
    <2> QED
      BY <2>1 DEF OneShot!ShotNext
  <1> QED
    BY <1>3, <1>4, <1>5, <1>6 DEF StageMoves

\* Rows and attempts stay and no request acts: the abstract specification stutters.
LEMMA QuietShot ==
    ASSUME UNCHANGED <<job, attempt>>,
           \A s \in Recoveries : Acted(s)' <=> Acted(s)
    PROVE  [OneShot!ShotNext]_(OneShot!shotVars)
  <1> DEFINE f == [s \in Recoveries |-> StageOf(s)]
             g == [s \in Recoveries |-> wire[s] \in {"accepted", "filled"}]
  <1>1. \A s \in Recoveries :
           (wire'[s] \in {"accepted", "filled"}) = (wire[s] \in {"accepted", "filled"})
    BY DEF Acted
  <1>2. g' = g
    BY <1>1, Zenon
  <1>3. \A s \in Recoveries : StageOf(s)' = StageOf(s)
    BY DEF StageOf, Active
  <1>4. f' = f
    BY <1>3
  <1> QED
    BY <1>2, <1>4 DEF OneShot!shotVars

\* Rows that advance void at most the one recovery that is alive.
LEMMA AdvancingShot ==
    ASSUME RecoveryInv, UNCHANGED wire, \A r \in Recoveries : RowAdvances(r)
    PROVE  [OneShot!ShotNext]_(OneShot!shotVars)
  <1>1. ASSUME NEW r \in Recoveries
        PROVE  \/ StageOf(r)' = StageOf(r)
               \/ Active(r) /\ StageOf(r) = "open" /\ StageOf(r)' = "void"
    <2>1. /\ Sent(r)' <=> Sent(r)
          /\ (job'[r].state = "none") <=> (job[r].state = "none")
          /\ Active(r)' => Active(r)
          /\ job'[r].state = "terminal" => job[r].state = "terminal" \/ ~Sent(r)'
      BY DEF RowAdvances
    <2>2. /\ job[r].state = "none" \/ job[r].state = "terminal" \/ Active(r)
          /\ job'[r].state = "none" \/ job'[r].state = "terminal" \/ Active(r)'
          /\ Active(r) => job[r].state \notin {"none", "terminal"}
      BY DEF Active
    <2>3. CASE job'[r].state = "none"
      BY <2>1, <2>3, Stages, StagesAfter
    <2>4. CASE Active(r)'
      BY <2>1, <2>4, Stages, StagesAfter
    <2>5. CASE job'[r].state = "terminal"
      BY <2>1, <2>2, <2>5, Stages, StagesAfter
    <2> QED
      BY <2>2, <2>3, <2>4, <2>5
  <1>2. ASSUME NEW r \in Recoveries, StageOf(r)' # StageOf(r)
        PROVE  [OneShot!ShotNext]_(OneShot!shotVars)
    <2>1. Active(r) /\ StageMoves(r)
      BY <1>1, <1>2 DEF StageMoves
    <2>2. \A s \in Recoveries : s # r => StageOf(s)' = StageOf(s)
      BY <1>1, <2>1 DEF RecoveryInv, Serial
    <2> QED
      BY <2>1, <2>2, OneStageMoves
  <1>3. CASE \A r \in Recoveries : StageOf(r)' = StageOf(r)
    <2>1. [s \in Recoveries |-> StageOf(s)]' = [s \in Recoveries |-> StageOf(s)]
      BY <1>3
    <2>2. [s \in Recoveries |-> wire[s] \in {"accepted", "filled"}]'
             = [s \in Recoveries |-> wire[s] \in {"accepted", "filled"}]
      OBVIOUS
    <2> QED
      BY <2>1, <2>2 DEF OneShot!shotVars
  <1> QED
    BY <1>2, <1>3

\* The rows of one recovery are written, and its stage moves.
LEMMA WrittenShot ==
    ASSUME NEW r \in Recoveries, \A s \in Recoveries \ {r} : RowSame(s),
           StageMoves(r), UNCHANGED wire
    PROVE  [OneShot!ShotNext]_(OneShot!shotVars)
  <1>1. \A s \in Recoveries : s # r => StageOf(s)' = StageOf(s)
    BY DEF RowSame, StageOf, Active
  <1> QED
    BY <1>1, OneStageMoves

\* Queueing opens a recovery when none is alive.
LEMMA QueueShot ==
    ASSUME RecoveryLaneInv, NEW w \in Workers, Queue(w)
    PROVE  [OneShot!ShotNext]_(OneShot!shotVars)
  <1>1. PICK r \in Recoveries : r = Rec(w)
    BY WorkerRows DEF Queue, Holding
  <1>2. RecoveryInv /\ RecoveryTypeOK
    BY WorkerRows
  <1>3. QueueRecovery(r, permit[r].issued) /\ permit[r].issued \in Int
    BY <1>1, <1>2 DEF Queue, RecoveryTypeOK, Permit
  <1>4. /\ job[r].state = "none" /\ attempt[r].state = "none" /\ ~RecoveryActive
        /\ job'[r] = [NoJob EXCEPT !.state = "queued"]
        /\ \A s \in Recoveries \ {r} : RowSame(s)
        /\ attempt' = attempt
    BY <1>2, <1>3, QueueWrites
  <1>5. job'[r].state = "queued"
    BY <1>4, QueuedJob
  <1>6. Active(r)' /\ ~Sent(r)'
    BY <1>4, <1>5 DEF Active, Sent
  <1>7. \A s \in Recoveries : StageOf(s) \notin {"open", "committed"}
    <2> SUFFICES ASSUME NEW s \in Recoveries PROVE StageOf(s) \in {"none", "void", "settled"}
      OBVIOUS
    <2>1. job[s].state = "none" \/ job[s].state = "terminal"
      BY <1>4 DEF RecoveryActive, Active
    <2> QED
      BY <2>1, Stages
  <1>8. StageOf(r) = "none" /\ StageOf(r)' = "open"
    BY <1>4, <1>6, Stages, StagesAfter
  <1>9. StageMoves(r) /\ wire' = wire
    BY <1>7, <1>8 DEF StageMoves, Queue, venueVars
  <1> QED
    BY <1>4, <1>9, WrittenShot

\* The submission authority commits its recovery.
LEMMA AuthorizeShot ==
    ASSUME RecoveryLaneInv, NEW w \in Workers, Authorize(w)
    PROVE  [OneShot!ShotNext]_(OneShot!shotVars)
  <1>1. PICK r \in Recoveries : r = Rec(w)
    BY WorkerRows DEF Authorize, Holding
  <1>2. RecoveryInv /\ RecoveryTypeOK /\ attempt[r] \in Attempt
    BY WorkerRows, RowTypes
  <1>3. RequireSubmissionAuthority(r, w, Fence(w), now)
    BY <1>1 DEF Authorize
  <1>4. /\ attempt' = [attempt EXCEPT ![r] = [attempt[r] EXCEPT !.state = "sending"]]
        /\ job[r].state = "signing" /\ attempt[r].state = "prepared"
        /\ UNCHANGED <<permit, job, proof>>
    BY <1>3 DEF RequireSubmissionAuthority, HasClaim
  <1>5. PICK a \in Attempt : a = [attempt[r] EXCEPT !.state = "sending"] /\ a.state = "sending"
    BY <1>2, AttemptMoved DEF AttemptStates
  <1>6. attempt'[r] = a /\ \A s \in Recoveries \ {r} : attempt'[s] = attempt[s]
    <2>1. attempt' = [attempt EXCEPT ![r] = a]
      BY <1>4, <1>5
    <2> QED
      BY <1>2, <2>1 DEF RecoveryTypeOK
  <1>7. Active(r) /\ ~Sent(r) /\ Active(r)' /\ Sent(r)'
    BY <1>4, <1>5, <1>6 DEF Active, Sent
  <1>8. StageMoves(r) /\ wire' = wire
    BY <1>7, Stages, StagesAfter DEF StageMoves, Authorize, venueVars
  <1>9. \A s \in Recoveries \ {r} : RowSame(s)
    BY <1>4, <1>6 DEF RowSame
  <1> QED
    BY <1>8, <1>9, WrittenShot

\* An answer leaves its recovery committed, a complete reconciliation settles it.
LEMMA OutcomeShot ==
    ASSUME RecoveryLaneInv, NEW w \in Workers,
           Record(w) \/ Timeout(w) \/ (Apply(w) /\ Complete(Rec(w), view[w]))
    PROVE  [OneShot!ShotNext]_(OneShot!shotVars)
  <1>1. PICK r \in Recoveries : r = Rec(w)
    BY WorkerRows DEF Record, Timeout, Recorded, Apply, Holding
  <1>2. RecoveryInv /\ RecoveryTypeOK /\ now \in Int
    BY WorkerRows
  <1>3. wire' = wire
    BY DEF Record, Timeout, Recorded, Apply, venueVars
  <1>4. CASE Record(w) \/ Timeout(w)
    <2>1. PICK answer : RecordOutcome(r, w, Fence(w), now, answer)
      BY <1>1, <1>4 DEF Record, Timeout, Recorded
    <2>2. /\ job[r].state = "signing" /\ attempt[r].state = "sending"
          /\ job'[r] = Released(r, IF answer = "ok" THEN "reconciling" ELSE "submitted_unknown")
          /\ attempt'[r].state = IF answer = "ok" THEN "response_received" ELSE "unknown"
          /\ \A s \in Recoveries \ {r} : RowSame(s)
      BY <1>2, <2>1, OutcomeWrites
    <2>3. job'[r].state \in {"reconciling", "submitted_unknown"}
      BY <1>2, <2>2, ReleasedRow DEF JobStates
    <2>4. Active(r) /\ Sent(r) /\ Active(r)' /\ Sent(r)'
      BY <2>2, <2>3 DEF Active, Sent
    <2>5. StageMoves(r)
      BY <2>4, Stages, StagesAfter DEF StageMoves
    <2> QED
      BY <1>3, <2>2, <2>5, WrittenShot
  <1>5. CASE Apply(w) /\ Complete(Rec(w), view[w])
    <2>1. PICK success \in BOOLEAN :
             ReconcileRecovery(r, w, Fence(w), now, view[w].at, PositionOf(view[w].book),
                CoverageOf(view[w].book), success, IF success THEN "contained" ELSE "none")
      BY <1>1, <1>5, ApplyFacts
    <2>2. /\ view[w].at \in Int /\ PositionOf(view[w].book) \in Int
          /\ CoverageOf(view[w].book) \in Int
      BY <1>1, <1>5, ApplyFacts
    <2>3. PICK resolution \in {"none", "contained", "closed"} :
             ReconcileRecovery(r, w, Fence(w), now, view[w].at, PositionOf(view[w].book),
                CoverageOf(view[w].book), success, resolution)
      BY <2>1
    <2>4. /\ job[r].state = "reconciling"
          /\ job'[r] = Released(r, "terminal")
          /\ \A s \in Recoveries \ {r} : RowSame(s)
          /\ UNCHANGED <<now, parent, permit, attempt>>
      <3>1. Ends(r, success)
        BY <1>2, <2>2, <2>3, ReconcileWrites
      <3> QED
        BY <3>1 DEF Ends
    <2>5. job'[r].state = "terminal"
      BY <1>2, <2>4, ReleasedRow DEF JobStates
    <2>6. Active(r) /\ Sent(r) /\ Sent(r)'
      BY <1>2, <2>4 DEF Active, Sent, RecoveryInv, RowAgrees
    <2>7. StageMoves(r)
      BY <2>5, <2>6, Stages, StagesAfter DEF StageMoves
    <2> QED
      BY <1>3, <2>4, <2>7, WrittenShot
  <1> QED
    BY <1>4, <1>5

\* A fence that takes the nonce or a close that fills acts once, while committed:
\* a recovery that was reconciled is over.
LEMMA ActShot ==
    ASSUME RecoveryLaneInv, NEW r \in Recoveries, Arrives(r),
           permit[r].kind # "cancel_by_cloid", UNCHANGED <<job, attempt>>,
           NEW x \in {"accepted", "filled"}, wire' = [wire EXCEPT ![r] = x]
    PROVE  [OneShot!ShotNext]_(OneShot!shotVars)
  <1> DEFINE f == [s \in Recoveries |-> StageOf(s)]
             g == [s \in Recoveries |-> wire[s] \in {"accepted", "filled"}]
  <1>1. wire[r] = "flying" /\ now < attempt[r].expires + Settlement
    BY DEF Arrives
  <1>2. RecoveryInv /\ WireFollows(r) /\ EndedIsOver(r) /\ wire \in [Recoveries -> WireStates]
    BY DEF RecoveryLaneInv, LaneInv, LaneTypeOK
  <1>3. Sent(r)
    BY <1>1, <1>2 DEF WireFollows
  <1>4. Active(r)
    <2>1. job[r].state # "none"
      BY <1>2, <1>3, SentWasPermitted DEF Sent
    <2>2. now \in Int /\ attempt[r].expires \in Int /\ Settlement \in Int
      BY <1>2, LaneAssumption DEF RecoveryInv, RecoveryTypeOK, Attempt
    <2>3. job[r].state # "terminal"
      BY <1>1, <1>2, <1>3, <2>2 DEF EndedIsOver
    <2> QED
      BY <2>1, <2>3 DEF Active
  <1>5. f[r] = "committed"
    BY <1>3, <1>4, Stages
  <1>6. f' = f
    <2>1. \A s \in Recoveries : StageOf(s)' = StageOf(s)
      BY DEF StageOf, Active
    <2> QED
      BY <2>1
  <1>7. g' = [g EXCEPT ![r] = TRUE]
    <2>1. wire'[r] = x /\ \A s \in Recoveries : s # r => wire'[s] = wire[s]
      BY <1>2
    <2>2. (wire'[r] \in {"accepted", "filled"}) = TRUE
      BY <2>1
    <2>3. \A s \in Recoveries : s # r =>
             (wire'[s] \in {"accepted", "filled"}) = (wire[s] \in {"accepted", "filled"})
      BY <2>1
    <2> QED
      BY <2>2, <2>3, Zenon
  <1>8. ~g[r]
    BY <1>1
  <1>9. OneShot!Act(r)
    BY <1>5, <1>6, <1>7, <1>8 DEF OneShot!Act
  <1> QED
    BY <1>9 DEF OneShot!ShotNext

\* A delivery acts, or leaves every request as little acted as before.
LEMMA DeliveryShot ==
    ASSUME RecoveryLaneInv, NEW r \in Recoveries, Delivery(r)
    PROVE  [OneShot!ShotNext]_(OneShot!shotVars)
  <1>1. UNCHANGED <<job, attempt>>
    BY DEF Delivery, LandFence, LandClose, LandCancel, LoseRecovery, recoveryVars, laneVars
  <1>2. wire[r] = "flying" /\ wire \in [Recoveries -> WireStates]
    BY DEF Delivery, LandFence, LandClose, LandCancel, LoseRecovery, Arrives,
           RecoveryLaneInv, LaneInv, LaneTypeOK
  <1>3. ASSUME NEW x \in {"refused", "unfilled", "canceled", "dead"},
               wire' = [wire EXCEPT ![r] = x]
        PROVE  [OneShot!ShotNext]_(OneShot!shotVars)
    <2>1. \A s \in Recoveries : Acted(s)' <=> Acted(s)
      BY <1>2, <1>3 DEF Acted
    <2> QED
      BY <1>1, <2>1, QuietShot
  <1>4. CASE LandFence(r)
    <2>1. Arrives(r) /\ permit[r].kind = "noop_fence"
      BY <1>4 DEF LandFence
    <2>2. CASE NonceUsed
      BY <1>3, <1>4, <2>2 DEF LandFence
    <2>3. CASE ~NonceUsed
      <3>1. wire' = [wire EXCEPT ![r] = "accepted"]
        BY <1>4, <2>3 DEF LandFence
      <3> QED
        BY <1>1, <2>1, <3>1, ActShot
    <2> QED
      BY <2>2, <2>3
  <1>5. CASE LandClose(r)
    <2>1. Arrives(r) /\ permit[r].kind = "reduce_only_close"
      BY <1>5 DEF LandClose
    <2>2. CASE wire' = [wire EXCEPT ![r] = "filled"]
      BY <1>1, <2>1, <2>2, ActShot
    <2>3. CASE wire' = [wire EXCEPT ![r] = "unfilled"]
      BY <1>3, <2>3
    <2> QED
      BY <1>5, <2>2, <2>3 DEF LandClose
  <1>6. CASE LandCancel(r) \/ LoseRecovery(r)
    BY <1>3, <1>6 DEF LandCancel, LoseRecovery
  <1> QED
    BY <1>4, <1>5, <1>6 DEF Delivery

\* A post puts an unsent request into the network: nothing acts.
LEMMA PostShot ==
    ASSUME RecoveryLaneInv, NEW w \in Workers, Post(w)
    PROVE  [OneShot!ShotNext]_(OneShot!shotVars)
  <1>1. PICK r \in Recoveries : r = Rec(w)
    BY WorkerRows DEF Post, Holding
  <1>2. wire' = [wire EXCEPT ![r] = "flying"] /\ UNCHANGED <<job, attempt>>
    BY <1>1 DEF Post, recoveryVars, laneVars
  <1>3. wire[r] = "unsent" /\ wire \in [Recoveries -> WireStates]
    BY <1>1 DEF Post, RecoveryLaneInv, LaneInv, LaneTypeOK, Placed
  <1>4. \A s \in Recoveries : Acted(s)' <=> Acted(s)
    BY <1>2, <1>3 DEF Acted
  <1> QED
    BY <1>2, <1>4, QuietShot

\* The recovery lane implements the one-shot promise: recoveries are serial, a
\* fence or close acts at most once, only between the consumption of its
\* authority and the reconciliation that ends it, however late a delayed process
\* posts or the network delivers.
THEOREM LaneImplementsOneShot == LaneSpec => ImplementsOneShot
  <1>1. LaneInit => OneShot!ShotInit
    <2> SUFFICES ASSUME LaneInit PROVE OneShot!ShotInit
      OBVIOUS
    <2>1. \A r \in Recoveries : job[r].state = "none" /\ wire[r] = "unsent"
      BY DEF LaneInit, RecoveryInit, NoJob
    <2>2. \A r \in Recoveries : StageOf(r) = "none" /\ wire[r] \notin {"accepted", "filled"}
      BY <2>1, Stages
    <2>3. \A r \in Recoveries : (wire[r] \in {"accepted", "filled"}) = FALSE
      BY <2>2
    <2>4. [r \in Recoveries |-> wire[r] \in {"accepted", "filled"}] = [r \in Recoveries |-> FALSE]
      BY <2>3, Zenon
    <2> QED
      BY <2>2, <2>4 DEF OneShot!ShotInit
  <1>2. RecoveryLaneInv /\ [LaneNext]_vars => [OneShot!ShotNext]_(OneShot!shotVars)
    <2> SUFFICES ASSUME RecoveryLaneInv, [LaneNext]_vars
                 PROVE  [OneShot!ShotNext]_(OneShot!shotVars)
      OBVIOUS
    <2>1. ASSUME UNCHANGED <<job, attempt, wire>> PROVE [OneShot!ShotNext]_(OneShot!shotVars)
      <3>1. \A s \in Recoveries : Acted(s)' <=> Acted(s)
        BY <2>1 DEF Acted
      <3> QED
        BY <2>1, <3>1, QuietShot
    <2>2. CASE UNCHANGED vars \/ Clock
      BY <2>1, <2>2 DEF vars, Clock, Tick, recoveryVars, laneVars, venueVars
    <2>3. ASSUME NEW w \in Workers, Step(w) \/ Timeout(w) \/ Fail(w)
          PROVE  [OneShot!ShotNext]_(OneShot!shotVars)
      <3>1. CASE AdvancingStep(w)
        <4>1. RecoveryInv
          BY DEF RecoveryLaneInv
        <4> QED
          BY <3>1, <4>1, AdvancingKeeps, AdvancingShot
      <3>2. CASE IdleStep(w) /\ ~Post(w)
        <4>1. UNCHANGED <<job, attempt, wire>>
          BY <3>2 DEF IdleStep, ReadVenue, ResumeFence, ReadRecovery, TurnToParent, GiveUp, Fail,
                      recoveryVars, laneVars, venueVars
        <4> QED
          BY <2>1, <4>1
      <3>3. CASE IssuePermit(w)
        BY <2>1, <3>3, PermitKeeps
      <3>4. CASE ReconcileEntry(w) \/ RecordAmbiguity(w)
        <4>1. UNCHANGED <<job, attempt, wire>>
          BY <3>4 DEF ReconcileEntry, ReconcileParent, RecordAmbiguity, OpenIncident, laneVars,
                      venueVars
        <4> QED
          BY <2>1, <4>1
      <3> QED
        BY <2>3, <3>1, <3>2, <3>3, <3>4, PostShot, QueueShot, AuthorizeShot, OutcomeShot
           DEF Step, AdvancingStep, IdleStep
    <2>4. ASSUME NEW i \in Incidents, AnswerShowsHazard(i)
          PROVE  [OneShot!ShotNext]_(OneShot!shotVars)
      BY <2>1, <2>4 DEF AnswerShowsHazard, OpenIncident, laneVars, venueVars
    <2>5. CASE LandOriginal \/ LoseOriginal \/ VenueMoves
      BY <2>1, <2>5 DEF LandOriginal, LoseOriginal, VenueMoves, recoveryVars, laneVars
    <2> QED
      BY <2>2, <2>3, <2>4, <2>5, DeliveryShot DEF LaneNext
  <1> QED
    BY <1>1, <1>2, LaneInvariant, PTL DEF LaneSpec, ImplementsOneShot, OneShot!ShotSpec
=============================================================================

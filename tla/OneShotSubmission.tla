-------------------------- MODULE OneShotSubmission --------------------------
(***************************************************************************)
(* What both lanes of the execution store promise of the requests they     *)
(* send, without leases, clocks, processes or a network: commands of one   *)
(* account are alive one at a time, a command is committed to its send by  *)
(* one transaction or ends void, and its request takes effect at the venue *)
(* at most once, after the commitment and before the command is settled.   *)
(***************************************************************************)
CONSTANT Commands

VARIABLES
    stage,   \* none, open, committed, void or settled
    acted    \* whether the request has taken effect

shotVars == <<stage, acted>>

ShotInit ==
    /\ stage = [c \in Commands |-> "none"]
    /\ acted = [c \in Commands |-> FALSE]

Alive(c) == stage[c] \in {"open", "committed"}

Enter(c, s) == stage' = [stage EXCEPT ![c] = s] /\ UNCHANGED acted

Open(c) ==
    /\ stage[c] = "none"
    /\ \A d \in Commands : ~Alive(d)
    /\ Enter(c, "open")

Commit(c) == stage[c] = "open" /\ Enter(c, "committed")

Void(c) == stage[c] = "open" /\ Enter(c, "void")

Act(c) ==
    /\ stage[c] = "committed" /\ ~acted[c]
    /\ acted' = [acted EXCEPT ![c] = TRUE]
    /\ UNCHANGED stage

Settle(c) == stage[c] = "committed" /\ Enter(c, "settled")

ShotNext ==
    \E c \in Commands : Open(c) \/ Commit(c) \/ Void(c) \/ Act(c) \/ Settle(c)

ShotSpec == ShotInit /\ [][ShotNext]_shotVars

=============================================================================

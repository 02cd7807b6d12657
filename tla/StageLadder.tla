----------------------------- MODULE StageLadder -----------------------------
(***************************************************************************)
(* What the lifecycle promises, with no database under it: an initiative   *)
(* climbs the stages one at a time, never while it is held, and no policy  *)
(* but only a person takes it to the last stage.  Every move is remembered *)
(* with the authority it was made under.                                   *)
(*                                                                         *)
(* The promise is written in docs/adr/0003-transition-readiness-policy.md  *)
(* and docs/04-Oliver-Lifecycle-Restructure-Plan.html (movement authority  *)
(* and HOLD semantics); module Lifecycle is shown to implement it.         *)
(***************************************************************************)
EXTENDS Naturals

CONSTANTS Initiatives, LastStage

VARIABLES
    stage,      \* the stage each initiative stands on
    held,       \* is it on hold?
    authority   \* who let it enter each stage

ladderVars == <<stage, held, authority>>

Authorities == {"none", "policy", "human"}

LadderInit ==
    /\ stage = [i \in Initiatives |-> 1]
    /\ held = [i \in Initiatives |-> FALSE]
    /\ authority = [i \in Initiatives |-> [s \in 2..LastStage |-> "none"]]

Climb(i, who) ==
    /\ ~held[i]
    /\ stage[i] < LastStage
    /\ stage' = [stage EXCEPT ![i] = @ + 1]
    /\ authority' = [authority EXCEPT ![i][stage[i] + 1] = who]
    /\ UNCHANGED held

ClimbByPolicy(i) == stage[i] + 1 < LastStage /\ Climb(i, "policy")

ClimbByHuman(i) == Climb(i, "human")

SetHold(i) ==
    /\ held' = [held EXCEPT ![i] = ~@]
    /\ UNCHANGED <<stage, authority>>

LadderNext == \E i \in Initiatives : ClimbByPolicy(i) \/ ClimbByHuman(i) \/ SetHold(i)

LadderSpec == LadderInit /\ [][LadderNext]_ladderVars
=============================================================================

--------------------------- MODULE RolloutHistory ---------------------------
(***************************************************************************)
(* FleetRollout with history variables, for the properties that relate a   *)
(* state to how it was reached.  They record, never constrain.             *)
(***************************************************************************)
EXTENDS FleetRollout

VARIABLES
    released,   \* nodes whose pod was ungated on plan.hash under this plan
    gatesPassed \* waves whose own gate was evaluated healthy under this plan

hvars == <<vars, released, gatesPassed>>

HInit == released = {} /\ gatesPassed = 0 .. plan.gatedWaves - 1

SamePlan == plan'.hash = plan.hash /\ plan'.gen = plan.gen

Kept(S) == IF SamePlan THEN S ELSE {}

Record ==
    /\ released' = Kept(released) \union
         {x \in Nodes : /\ PodGatedOn(x, plan'.hash)
                        /\ pod'[x] = [st |-> "pending", hash |-> plan'.hash]}
    /\ gatesPassed' = Kept(gatesPassed) \union
         {w \in {plan'.gatedWaves - 1} :
            plan'.gatedWaves > (IF SamePlan THEN plan.gatedWaves ELSE 0)}

HNext == Next /\ Record

HSpec == Init /\ HInit /\ [][HNext]_hvars

-----------------------------------------------------------------------------
(* The controller's central promise.  Under a health gate, a node of wave w *)
(* has had its pod released only if some gate at or after wave w-1 of THIS   *)
(* plan has passed, and a node outside the plan only once the last gate has; *)
(* whatever nodes flap, leave, join or come back and however the spec was    *)
(* edited before (plan snapshot, latch and act step of reconcileForward).    *)
(* It holds as long as no pass is interrupted.                               *)
WaveBounded ==
    spec.healthGate /\ plan.gen = generation /\ crashes = 0 =>
      \A x \in released :
        IF x \in plan.nodes THEN WaveOf(plan, x) <= plan.gatedWaves
                            ELSE plan.gatedWaves >= TotalWaves(plan)

(* "gatedWaves is the high-water mark: health gates for waves               *)
(* [0, gatedWaves) of THIS plan have passed" (RolloutPlan.GatedWaves).      *)
EveryGateBelowMarkPassed == \A w \in 0 .. plan.gatedWaves - 1 : w \in gatesPassed
=============================================================================

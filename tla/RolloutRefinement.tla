-------------------------- MODULE RolloutRefinement -------------------------
(***************************************************************************)
(* FleetRollout implements Lifecycle.  The plan is seen without the clock  *)
(* of the gate being evaluated.                                            *)
(***************************************************************************)
EXTENDS FleetRollout

wantSeen == [hash |-> CurrentHash, gen |-> generation, gate |-> spec.healthGate]
planSeen == [hash |-> plan.hash, gen |-> plan.gen, waveSize |-> plan.waveSize,
             nodes |-> plan.nodes, gatedWaves |-> plan.gatedWaves]

L == INSTANCE Lifecycle WITH want <- wantSeen, plan <- planSeen, Waves <- TotalWaves

(* The persisted status moves only as Lifecycle allows, whatever passes die, *)
(* nodes flap and edits arrive (finish, gate, onGateHold, reconcileForward). *)
StatusKeepsPromise == L!Spec
=============================================================================

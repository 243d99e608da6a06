------------------------------ MODULE Lifecycle -----------------------------
(***************************************************************************)
(* What the status of a FleetRollout promises to its reader, without the   *)
(* cluster: a generation of the spec is planned once, the mark of passed   *)
(* gates only climbs, a template becomes last-good when its last gate has  *)
(* passed, and a template is given up for an older last-good one only.     *)
(*                                                                         *)
(* The reader sees no clock, no pods and no passes.  One step is whatever  *)
(* one persisted status changes: it may plan, pass a gate and complete.    *)
(***************************************************************************)
EXTENDS Naturals

CONSTANTS
    Nodes, Hashes, None,
    Waves(_)   \* the number of waves of a plan

VARIABLES
    want,      \* the submitted spec: template hash, generation, gated or not
    plan,      \* the rollout of one (hash, generation) and its passed gates
    lastGood,  \* the template a rollback restores, or None
    rollback   \* the template given up, or None

lvars == <<want, plan, lastGood, rollback>>

Init ==
    /\ want \in [hash : Hashes, gen : Nat, gate : BOOLEAN]
    /\ plan.gen < want.gen
    /\ lastGood = plan.hash
    /\ lastGood # want.hash
    /\ rollback = None

\* A rollback stands while the submitted template is the failed one.
Standing == rollback = want.hash /\ lastGood # None

\* p is the plan of the submitted generation: the existing one if there is
\* one, with gates passed since, or a new one with perhaps a first gate passed.
Continues(p) ==
    /\ p.hash = want.hash /\ p.gen = want.gen
    /\ IF plan.hash = want.hash /\ plan.gen = want.gen
         THEN /\ p.nodes = plan.nodes /\ p.waveSize = plan.waveSize
              /\ p.gatedWaves >= plan.gatedWaves
         ELSE /\ p.nodes \in (SUBSET Nodes) \ {{}}
              /\ p.waveSize \in Nat \ {0}
    /\ p.gatedWaves > 0 => p = plan \/ (want.gate /\ p.gatedWaves <= Waves(p))

\* The user submits a spec.
Submit ==
    /\ want'.gen = want.gen + 1
    /\ UNCHANGED <<plan, lastGood, rollback>>

\* A rollback that the spec has moved away from is forgotten.
Abandon ==
    /\ ~Standing
    /\ rollback' = None
    /\ UNCHANGED <<want, plan, lastGood>>

Progress ==
    /\ ~Standing
    /\ Continues(plan')
    /\ rollback' = None
    /\ UNCHANGED <<want, lastGood>>

Succeed ==
    /\ ~Standing
    /\ Continues(plan')
    /\ want.gate => plan'.gatedWaves >= Waves(plan')
    /\ lastGood' = want.hash
    /\ rollback' = None
    /\ UNCHANGED want

\* A gate that has not passed gives the template up.
Fail ==
    /\ ~Standing
    /\ want.gate
    /\ lastGood \notin {None, want.hash}
    /\ Continues(plan')
    /\ plan'.gatedWaves < Waves(plan')
    /\ rollback' = want.hash
    /\ UNCHANGED <<want, lastGood>>

Next == Submit \/ Abandon \/ Progress \/ Succeed \/ Fail

Spec == Init /\ [][Next]_lvars
=============================================================================

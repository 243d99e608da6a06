-------------------------- MODULE StatusConditions --------------------------
(***************************************************************************)
(* FleetRollout with status.conditions.  Each condition is set by some     *)
(* branches of Reconcile only and keeps its value through the others, so a *)
(* reader has to look at the generation it is stamped with.                *)
(*                                                                         *)
(* A condition is its status (for Degraded: its reason) and its            *)
(* observedGeneration; messages and transition times are left out, and so  *)
(* are WaveReady and HealthGateConfigValid, which are only ever set False. *)
(***************************************************************************)
EXTENDS FleetRollout

VARIABLE cond

svars == <<vars, cond>>

CondTypes == {"Ready", "Progressing", "RollingBack", "HealthGatePassed", "Degraded"}

NeverSet == [is |-> "unset", gen |-> 0]

\* Variant with a bug: an update stamps every condition.
SetCondAll(c, t, s) ==
    [u \in CondTypes |-> [is |-> IF u = t THEN s ELSE c[u].is, gen |-> generation]]

\* setCond: upsert one condition, stamped with the generation of the spec read.
SetCond(c, t, s) == [c EXCEPT ![t] = [is |-> s, gen |-> generation]]

\* Planned nodes that are not Ready and not updated.
Skipped(p) == {x \in p.nodes \ ReadyTargets : ~Updated(x, p.hash)}

\* setDegraded.  A pod that has been Terminating for longer than the threshold
\* comes first; how long it has been is not modelled.
NodeTrouble(p) ==
    {"PodStuckTerminating" : x \in {y \in p.nodes : pod[y] = Terminating}} \union
    {IF Skipped(p) # {} THEN "NodesSkipped" ELSE "AllNodesReady"}

\* What reconcileForward sets before it looks at any gate.
Surveyed ==
    LET p == PlanNow
        planned == IF p.hash = plan.hash /\ p.gen = plan.gen THEN cond
                   ELSE SetCond(cond, "Progressing", "True")
    IN  {SetCond(planned, "Degraded", why) : why \in NodeTrouble(p)}

\* A gate that passes in this pass says so.
Promoted(c) ==
    IF plan'.gatedWaves > PlanNow.gatedWaves
      THEN SetCond(c, "HealthGatePassed", "True") ELSE c

RolledBackConds ==
    SetCond(SetCond(SetCond(cond, "RollingBack", "False"),
                    "Ready", "False"),
            "Degraded", "RolledBack")

CompleteConds(c) ==
    SetCond(SetCond(Promoted(c), "Ready", "True"), "Progressing", "False")

\* A gate that waits has been told something other than healthy, or could not
\* be asked.
WaitConds(c) ==
    LET p == PlanNow  k == CurWave(p)
    IN  {IF obs = "configError" THEN SetCond(c, "Degraded", "ConfigError")
         ELSE SetCond(c, "HealthGatePassed", "False") :
           obs \in {o \in GateObs[p.hash] : GateDecision(p, k, o) = "gateWait"}}

CPass ==
    \/ NoTargets /\ cond' = SetCond(cond, "Degraded", "NoTargetNodes")
    \/ DeleteStaleGated /\ UNCHANGED cond
    \/ /\ RollBack
       /\ cond' = IF phase' = "RolledBack" THEN RolledBackConds
                  ELSE SetCond(cond, "RollingBack", "True")
    \/ GateWait /\ \E c \in Surveyed : cond' \in WaitConds(c)
    \/ GatePause /\ \E c \in Surveyed : cond' = SetCond(c, "HealthGatePassed", "False")
    \/ GateRollback /\ \E c \in Surveyed : cond' = SetCond(c, "RollingBack", "True")
    \/ Complete /\ \E c \in Surveyed : cond' = CompleteConds(c)
    \/ /\ DeleteWave \/ UngateWave
       /\ \E c \in Surveyed : cond' = SetCond(Promoted(c), "Progressing", "True")
    \/ AwaitWave /\ \E c \in Surveyed : cond' = Promoted(c)

CInit ==
    \/ FirstDeploy /\ cond = [t \in CondTypes |-> NeverSet]
    \/ /\ Upgrade
       /\ cond = [Ready            |-> [is |-> "True", gen |-> 1],
                  Progressing      |-> [is |-> "False", gen |-> 1],
                  RollingBack      |-> NeverSet,
                  HealthGatePassed |-> [is |-> "True", gen |-> 1],
                  Degraded         |-> [is |-> "AllNodesReady", gen |-> 1]]

CNext == CPass \/ ((Interrupted \/ Env) /\ UNCHANGED cond)

CSpec == CInit /\ [][CNext]_svars

\* As in FleetRollout.
CFairness ==
    /\ WF_svars(CPass) /\ WF_svars(Tick /\ UNCHANGED cond)
    /\ \A x \in Nodes :
         WF_svars(/\ DSCreate(x) \/ Schedule(x) \/ PodBecomesReady(x) \/ PodGone(x)
                  /\ UNCHANGED cond)

-----------------------------------------------------------------------------
(* A condition stamped with the generation of the spec tells the truth about *)
(* it, although no branch resets the ones it does not set: Ready=True and    *)
(* Progressing=False mean that this very template has completed and is not   *)
(* being rolled back, HealthGatePassed=True that a gate of this very plan    *)
(* has passed, RollingBack=True and Degraded=RolledBack that this template   *)
(* is the one given up.                                                      *)
StampsAreTrue ==
    LET says(t, s) == cond[t] = [is |-> s, gen |-> generation]
    IN  /\ says("Ready", "True") \/ says("Progressing", "False") =>
             lastGood = CurrentHash /\ rollback # CurrentHash
        /\ says("HealthGatePassed", "True") =>
             plan.hash = CurrentHash /\ plan.gen = generation /\ plan.gatedWaves > 0
        /\ says("RollingBack", "True") \/ says("Degraded", "RolledBack") =>
             rollback = CurrentHash

(* Every rollout comes to rest, whatever failed, was edited or was cut short *)
(* before (finitely often), unless no Ready node is left.  Its outcome is    *)
(*  - Done, Ready, every Ready planned node on the template, if its gate     *)
(*    answers healthy;                                                       *)
(*  - RolledBack, not Ready and Degraded, every Ready node - planned or not  *)
(*    - on last-good, once a gate that answers unhealthy has started that;   *)
(*  - Paused, only if there is no last-good template or the policy is Never. *)
Settles ==
    LET says(t, s) == cond[t].is = s
        done == /\ phase = "Done" /\ says("Ready", "True")
                /\ observedGeneration = generation /\ plan.gen = generation
                /\ \A x \in plan.nodes \intersect ReadyTargets : Updated(x, CurrentHash)
        rolledBack == /\ phase = "RolledBack" /\ says("Ready", "False")
                      /\ says("Degraded", "RolledBack") /\ rollback = CurrentHash
                      /\ \A x \in ReadyTargets : Updated(x, lastGood)
        paused == /\ phase = "Paused" /\ says("HealthGatePassed", "False")
                  /\ lastGood = None \/ spec.rollbackPolicy = "Never"
    IN  <>[](ReadyTargets # {} =>
               IF "healthy" \in GateObs[CurrentHash] THEN done
               ELSE rolledBack \/ paused)
=============================================================================

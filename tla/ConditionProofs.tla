--------------------------- MODULE ConditionProofs --------------------------
(***************************************************************************)
(* Conditions that carry the current generation are true, for every fleet. *)
(***************************************************************************)
EXTENDS StatusConditions, FleetRolloutProofs

(* The values conditions take; none is stamped beyond generation g.        *)
CondStates == {"unset", "True", "False", "PodStuckTerminating", "NodesSkipped",
               "AllNodesReady", "RolledBack", "NoTargetNodes", "ConfigError"}

Conds(g) == [CondTypes -> [is : CondStates, gen : 0 .. g]]

CondsOK == cond \in Conds(generation)

(* What the conditions c claim about generation g.                         *)
SaysDone(c, g) == \/ c["Ready"] = [is |-> "True", gen |-> g]
                  \/ c["Progressing"] = [is |-> "False", gen |-> g]
SaysGated(c, g) == c["HealthGatePassed"] = [is |-> "True", gen |-> g]
SaysFailed(c, g) == \/ c["RollingBack"] = [is |-> "True", gen |-> g]
                    \/ c["Degraded"] = [is |-> "RolledBack", gen |-> g]

(* The conditions d claim nothing about g that c does not.                  *)
NoNewClaim(c, d, g) ==
    /\ SaysDone(d, g) => SaysDone(c, g)
    /\ SaysGated(d, g) => SaysGated(c, g)
    /\ SaysFailed(d, g) => SaysFailed(c, g)

(* The three promises of StampsAreTrue, by claim.                          *)
DoneTrue   == lastGood = CurrentHash /\ rollback # CurrentHash
GatedTrue  == plan.hash = CurrentHash /\ plan.gen = generation /\ plan.gatedWaves > 0
FailedTrue == rollback = CurrentHash

(* StampsAreTrue says that each of the three kinds of claim is true.        *)
LEMMA StampsByClaim ==
    StampsAreTrue <=> /\ SaysDone(cond, generation) => DoneTrue
                      /\ SaysGated(cond, generation) => GatedTrue
                      /\ SaysFailed(cond, generation) => FailedTrue
BY DEF StampsAreTrue, SaysDone, SaysGated, SaysFailed, DoneTrue, GatedTrue, FailedTrue

(* setCond changes one condition and stamps it.                            *)
LEMMA SetCondEffect ==
    ASSUME generation \in Nat, NEW c \in Conds(generation), NEW t \in CondTypes,
           NEW s \in CondStates
    PROVE  /\ SetCond(c, t, s) \in Conds(generation)
           /\ SetCond(c, t, s)[t] = [is |-> s, gen |-> generation]
           /\ \A u \in CondTypes \ {t} : SetCond(c, t, s)[u] = c[u]
BY DEF Conds, SetCond

(* A condition that is set makes a claim with one value at most.           *)
LEMMA SetCondClaims ==
    ASSUME generation \in Nat, NEW c \in Conds(generation), NEW t \in CondTypes,
           NEW s \in CondStates
    PROVE  /\ <<t, s>> \notin {<<"Ready", "True">>, <<"Progressing", "False">>} =>
                (SaysDone(SetCond(c, t, s), generation) => SaysDone(c, generation))
           /\ <<t, s>> # <<"HealthGatePassed", "True">> =>
                (SaysGated(SetCond(c, t, s), generation) => SaysGated(c, generation))
           /\ <<t, s>> \notin {<<"RollingBack", "True">>, <<"Degraded", "RolledBack">>} =>
                (SaysFailed(SetCond(c, t, s), generation) => SaysFailed(c, generation))
<1> DEFINE d == SetCond(c, t, s)
<1>1. d[t] = [is |-> s, gen |-> generation] /\ \A u \in CondTypes \ {t} : d[u] = c[u]
  BY SetCondEffect
<1> HIDE DEF d
<1>2. \A u \in CondTypes : d[u] = c[u] \/ (u = t /\ d[u].is = s)
  BY <1>1
<1>3. {"Ready", "Progressing", "HealthGatePassed", "RollingBack", "Degraded"} = CondTypes
  BY DEF CondTypes
<1>4. <<t, s>> \notin {<<"Ready", "True">>, <<"Progressing", "False">>} =>
        (SaysDone(d, generation) => SaysDone(c, generation))
  BY <1>2, <1>3 DEF SaysDone
<1>5. <<t, s>> # <<"HealthGatePassed", "True">> =>
        (SaysGated(d, generation) => SaysGated(c, generation))
  BY <1>2, <1>3 DEF SaysGated
<1>6. <<t, s>> \notin {<<"RollingBack", "True">>, <<"Degraded", "RolledBack">>} =>
        (SaysFailed(d, generation) => SaysFailed(c, generation))
  BY <1>2, <1>3 DEF SaysFailed
<1> QED BY <1>4, <1>5, <1>6 DEF d

(* The survey of the nodes (setDegraded) and a new plan claim nothing.     *)
LEMMA SurveyedSilent ==
    ASSUME TypeOK, CondsOK, NEW c \in Surveyed
    PROVE  c \in Conds(generation) /\ NoNewClaim(cond, c, generation)
<1> DEFINE planned == IF PlanNow.hash = plan.hash /\ PlanNow.gen = plan.gen THEN cond
                      ELSE SetCond(cond, "Progressing", "True")
<1>0. generation \in Nat /\ cond \in Conds(generation)
  BY DEF TypeOK, CondsOK
<1>1. planned \in Conds(generation) /\ NoNewClaim(cond, planned, generation)
  <2>1. "Progressing" \in CondTypes /\ "True" \in CondStates
    BY DEF CondTypes, CondStates
  <2>2. NoNewClaim(cond, cond, generation)
    BY DEF NoNewClaim
  <2>3. NoNewClaim(cond, SetCond(cond, "Progressing", "True"), generation)
    BY <1>0, <2>1, SetCondClaims DEF NoNewClaim
  <2> QED BY <1>0, <2>1, <2>2, <2>3, SetCondEffect
<1>2. PICK why \in NodeTrouble(PlanNow) : c = SetCond(planned, "Degraded", why)
  BY DEF Surveyed
<1>3. why \in CondStates /\ why # "RolledBack"
  BY DEF NodeTrouble, CondStates
<1> HIDE DEF planned
<1>4. "Degraded" \in CondTypes
  BY DEF CondTypes
<1>5. c \in Conds(generation)
  BY <1>0, <1>1, <1>2, <1>3, <1>4, SetCondEffect
<1>6. NoNewClaim(planned, c, generation)
  BY <1>0, <1>1, <1>2, <1>3, <1>4, SetCondClaims DEF NoNewClaim
<1> QED BY <1>1, <1>5, <1>6 DEF NoNewClaim

-----------------------------------------------------------------------------
(* What is true stays true through a pass.                                 *)

(* A pass reads the spec and does not write it.                            *)
LEMMA PassKeepsSpec ==
    ASSUME Pass
    PROVE  generation' = generation /\ CurrentHash' = CurrentHash
<1>1. UNCHANGED <<spec, generation>>
  BY DEF Pass, NoTargets, DeleteStaleGated, RollBack, GateWait, GatePause,
     GateRollback, GateHolds, Complete, DeleteWave, UngateWave, AwaitWave, Advance,
     Ensure, resource
<1> QED BY <1>1 DEF CurrentHash

(* A rollback that is decided is decided for the current template, and not  *)
(* if that is last-good.                                                    *)
LEMMA RollbackDecided ==
    ASSUME TypeOK, GateRollback
    PROVE  rollback' = CurrentHash /\ lastGood # CurrentHash
<1> DEFINE p == PlanNow  k == CurWave(p)
<1>1. PICK obs \in Answers : /\ GateHolds(p, k, obs)
                             /\ GateDecision(p, k, obs) = "gateRollback"
                             /\ rollback' = p.hash
  BY DEF GateRollback
<1>2. p.hash = CurrentHash
  BY <1>1, PlanNowType DEF GateHolds, Forward
<1>3. lastGood # p.hash
  <2> HIDE DEF p, k
  <2> QED BY <1>1 DEF GateDecision, DecideGate
<1> QED BY <1>1, <1>2, <1>3

(* No pass takes back what a condition says: Done stands, the mark stays,   *)
(* and a rollback is forgotten only when the spec has moved.                *)
LEMMA PassKeepsTruth ==
    ASSUME TypeOK, RollbackTarget, Pass
    PROVE  /\ DoneTrue => DoneTrue'
           /\ GatedTrue => GatedTrue'
           /\ FailedTrue => FailedTrue'
<1>0. generation' = generation /\ CurrentHash' = CurrentHash /\ CurrentHash # None
  BY PassKeepsSpec, HashesType
<1>1. GatedTrue => GatedTrue'
  <2> SUFFICES ASSUME GatedTrue PROVE GatedTrue'
    OBVIOUS
  <2>1. CASE plan' = plan
    BY <1>0, <2>1 DEF GatedTrue
  <2>2. CASE Forward /\ PlanStep(PlanNow, plan')
    <3>1. PlanNow = plan
      BY DEF PlanNow, GatedTrue
    <3>2. plan \in PlanType
      BY <2>2, <3>1, ForwardPlan
    <3>3. plan.gatedWaves \in Nat /\ plan'.gatedWaves \in Nat
      BY <2>2, <3>2 DEF PlanStep, PlanType
    <3> QED BY <1>0, <2>2, <3>1, <3>3 DEF GatedTrue, PlanStep
  <2> QED BY <2>1, <2>2, PassPlan
<1>2. CASE NoTargets \/ DeleteStaleGated \/ RollBack
  <2>1. lastGood' = lastGood /\ rollback' \in {RollbackNow, rollback}
    BY <1>2 DEF NoTargets, DeleteStaleGated, RollBack
  <2>2. FailedTrue => RollbackNow = rollback
    BY <1>0 DEF FailedTrue, RollbackNow, RollbackTarget
  <2>3. DoneTrue => DoneTrue'
    BY <1>0, <2>1 DEF DoneTrue, RollbackNow
  <2>4. FailedTrue => FailedTrue'
    BY <1>0, <2>1, <2>2 DEF FailedTrue
  <2> QED BY <1>1, <2>3, <2>4
<1>3. CASE GateWait \/ GatePause \/ GateRollback \/ Complete
           \/ DeleteWave \/ UngateWave \/ AwaitWave
  <2>1. Forward
    BY <1>3 DEF GateWait, GatePause, GateRollback, GateHolds, Complete, DeleteWave,
                UngateWave, AwaitWave, Advance
  <2>2. ~FailedTrue
    BY <1>0, <2>1 DEF Forward, FailedTrue, RollbackNow, RollbackTarget
  <2>3. lastGood' \in {lastGood, CurrentHash}
    <3>1. PlanNow.hash = CurrentHash
      BY <2>1, PlanNowType DEF Forward
    <3> QED BY <1>3, <3>1 DEF GateWait, GatePause, GateRollback, GateHolds, Complete,
                DeleteWave, UngateWave, AwaitWave, Advance
  <2>4. ~GateRollback => rollback' = None
    BY <1>3 DEF GateWait, GatePause, Complete, DeleteWave, UngateWave, AwaitWave, Advance
  <2>5. DoneTrue => DoneTrue'
    BY <1>0, <2>3, <2>4, RollbackDecided DEF DoneTrue
  <2> QED BY <1>1, <2>2, <2>5
<1> QED BY <1>2, <1>3 DEF Pass

-----------------------------------------------------------------------------
(* What a pass newly claims is true.                                       *)

(* The conditions d that a pass may save: well formed, and every claim is   *)
(* an old one or true after the pass.                                       *)
Honest(d) ==
    /\ d \in Conds(generation)
    /\ SaysDone(d, generation) => SaysDone(cond, generation) \/ DoneTrue'
    /\ SaysGated(d, generation) => SaysGated(cond, generation) \/ GatedTrue'
    /\ SaysFailed(d, generation) => SaysFailed(cond, generation) \/ FailedTrue'

(* setCond on such conditions gives such conditions, if what it claims is   *)
(* true.                                                                    *)
LEMMA SetCondHonest ==
    ASSUME generation \in Nat, NEW c, Honest(c), NEW t \in CondTypes, NEW s \in CondStates,
           <<t, s>> \in {<<"Ready", "True">>, <<"Progressing", "False">>} => DoneTrue',
           <<t, s>> = <<"HealthGatePassed", "True">> => GatedTrue',
           <<t, s>> \in {<<"RollingBack", "True">>, <<"Degraded", "RolledBack">>} =>
             FailedTrue'
    PROVE  Honest(SetCond(c, t, s))
<1> DEFINE d == SetCond(c, t, s)
<1>1. c \in Conds(generation) /\ d \in Conds(generation)
  BY SetCondEffect DEF Honest
<1>2. SaysDone(d, generation) => SaysDone(c, generation) \/ DoneTrue'
  BY <1>1, SetCondClaims
<1>3. SaysGated(d, generation) => SaysGated(c, generation) \/ GatedTrue'
  BY <1>1, SetCondClaims
<1>4. SaysFailed(d, generation) => SaysFailed(c, generation) \/ FailedTrue'
  BY <1>1, SetCondClaims
<1> HIDE DEF d
<1> SUFFICES Honest(d)
  BY DEF d
<1> QED BY <1>1, <1>2, <1>3, <1>4 DEF Honest

(* The members of CondTypes and CondStates.                                *)
LEMMA CondNames ==
    /\ "Ready" \in CondTypes /\ "Progressing" \in CondTypes
    /\ "RollingBack" \in CondTypes /\ "HealthGatePassed" \in CondTypes
    /\ "Degraded" \in CondTypes
    /\ "True" \in CondStates /\ "False" \in CondStates /\ "RolledBack" \in CondStates
    /\ "NoTargetNodes" \in CondStates /\ "ConfigError" \in CondStates
BY DEF CondTypes, CondStates

(* A gate that passes in this pass has passed for the plan it leaves.      *)
LEMMA PromotedHonest ==
    ASSUME TypeOK, Pass, Forward, plan' \in PastGate(PlanNow, CurWave(PlanNow)),
           NEW c, Honest(c)
    PROVE  Honest(Promoted(c))
<1>1. CASE plan'.gatedWaves > PlanNow.gatedWaves
  <2>1. PlanStep(PlanNow, plan') /\ PlanNow \in PlanType
    BY ForwardPlan, PastGateStep
  <2>2. plan'.hash = CurrentHash /\ plan'.gen = generation
    BY <2>1, PlanNowType DEF PlanStep, Forward
  <2>3. plan'.gatedWaves \in Nat /\ PlanNow.gatedWaves \in Nat
    BY <2>1 DEF PlanStep, PlanType
  <2>4. GatedTrue'
    BY <1>1, <2>2, <2>3, PassKeepsSpec DEF GatedTrue
  <2>5. Honest(SetCond(c, "HealthGatePassed", "True"))
    BY <2>4, CondNames, SetCondHonest DEF TypeOK
  <2> QED BY <1>1, <2>5 DEF Promoted
<1>2. CASE ~(plan'.gatedWaves > PlanNow.gatedWaves)
  BY <1>2 DEF Promoted
<1> QED BY <1>1, <1>2

(* Every branch of Reconcile saves honest conditions.                      *)
LEMMA PassHonest ==
    ASSUME TypeOK, RollbackTarget, CondsOK, CPass
    PROVE  Honest(cond')
<1>0. Pass
  BY DEF CPass, Pass
<1>1. generation \in Nat /\ generation' = generation /\ CurrentHash' = CurrentHash
      /\ CurrentHash # None
  BY <1>0, PassKeepsSpec, HashesType DEF TypeOK
<1>2. Honest(cond)
  BY DEF Honest, CondsOK
<1>3. \A c \in Surveyed : Honest(c)
  BY SurveyedSilent DEF Honest, NoNewClaim
<1>4. CASE NoTargets /\ cond' = SetCond(cond, "Degraded", "NoTargetNodes")
  BY <1>1, <1>2, <1>4, CondNames, SetCondHonest
<1>5. CASE DeleteStaleGated /\ UNCHANGED cond
  BY <1>2, <1>5
<1>6. CASE RollBack /\ cond' = IF phase' = "RolledBack" THEN RolledBackConds
                               ELSE SetCond(cond, "RollingBack", "True")
  <2>1. FailedTrue'
    BY <1>1, <1>6 DEF RollBack, RollsBack, RollbackNow, FailedTrue
  <2>2. Honest(SetCond(cond, "RollingBack", "True"))
    BY <1>1, <1>2, <2>1, CondNames, SetCondHonest
  <2>3. Honest(SetCond(cond, "RollingBack", "False"))
    BY <1>1, <1>2, CondNames, SetCondHonest
  <2>4. Honest(SetCond(SetCond(cond, "RollingBack", "False"), "Ready", "False"))
    BY <1>1, <2>3, CondNames, SetCondHonest
  <2>5. Honest(RolledBackConds)
    BY <1>1, <2>1, <2>4, CondNames, SetCondHonest DEF RolledBackConds
  <2> QED BY <1>6, <2>2, <2>5
<1>7. CASE GateWait /\ \E c \in Surveyed : cond' \in WaitConds(c)
  <2>1. PICK c \in Surveyed : cond' \in WaitConds(c)
    BY <1>7
  <2>2. cond' \in {SetCond(c, "Degraded", "ConfigError"),
                   SetCond(c, "HealthGatePassed", "False")}
    BY <2>1 DEF WaitConds
  <2>3. Honest(SetCond(c, "Degraded", "ConfigError"))
    BY <1>1, <1>3, CondNames, SetCondHonest
  <2>4. Honest(SetCond(c, "HealthGatePassed", "False"))
    BY <1>1, <1>3, CondNames, SetCondHonest
  <2> QED BY <2>2, <2>3, <2>4
<1>8. CASE GatePause /\ \E c \in Surveyed : cond' = SetCond(c, "HealthGatePassed", "False")
  BY <1>1, <1>3, <1>8, CondNames, SetCondHonest
<1>9. CASE GateRollback /\ \E c \in Surveyed : cond' = SetCond(c, "RollingBack", "True")
  <2>1. FailedTrue'
    BY <1>1, <1>9, RollbackDecided DEF FailedTrue
  <2> QED BY <1>1, <1>3, <1>9, <2>1, CondNames, SetCondHonest
<1>10. CASE Complete /\ \E c \in Surveyed : cond' = CompleteConds(c)
  <2>1. PICK c \in Surveyed : cond' = CompleteConds(c)
    BY <1>10
  <2>2. Forward /\ plan' \in PastGate(PlanNow, CurWave(PlanNow))
    BY <1>10 DEF Complete
  <2>3. DoneTrue'
    <3>1. PlanNow.hash = CurrentHash
      BY <2>2, PlanNowType DEF Forward
    <3> QED BY <1>1, <1>10, <3>1 DEF Complete, DoneTrue
  <2>4. Honest(Promoted(c))
    BY <1>0, <1>3, <2>2, PromotedHonest
  <2>5. Honest(SetCond(Promoted(c), "Ready", "True"))
    BY <1>1, <2>3, <2>4, CondNames, SetCondHonest
  <2>6. Honest(CompleteConds(c))
    BY <1>1, <2>3, <2>5, CondNames, SetCondHonest DEF CompleteConds
  <2> QED BY <2>1, <2>6
<1>11. CASE /\ DeleteWave \/ UngateWave
            /\ \E c \in Surveyed : cond' = SetCond(Promoted(c), "Progressing", "True")
  <2>1. PICK c \in Surveyed : cond' = SetCond(Promoted(c), "Progressing", "True")
    BY <1>11
  <2>2. Forward /\ plan' \in PastGate(PlanNow, CurWave(PlanNow))
    BY <1>11 DEF DeleteWave, UngateWave, Advance
  <2>3. Honest(Promoted(c))
    BY <1>0, <1>3, <2>2, PromotedHonest
  <2> QED BY <1>1, <2>1, <2>3, CondNames, SetCondHonest
<1>12. CASE AwaitWave /\ \E c \in Surveyed : cond' = Promoted(c)
  <2>1. Forward /\ plan' \in PastGate(PlanNow, CurWave(PlanNow))
    BY <1>12 DEF AwaitWave, Advance
  <2> QED BY <1>0, <1>3, <1>12, <2>1, PromotedHonest
<1> QED BY <1>4, <1>5, <1>6, <1>7, <1>8, <1>9, <1>10, <1>11, <1>12 DEF CPass

-----------------------------------------------------------------------------
(* The invariant.                                                          *)

StampInv == TypeOK /\ RollbackTarget /\ CondsOK /\ StampsAreTrue

(* A pass keeps it.                                                        *)
LEMMA StampPass ==
    ASSUME StampInv, CPass
    PROVE  CondsOK' /\ StampsAreTrue'
<1>1. Pass /\ TypeOK /\ RollbackTarget
  BY DEF CPass, Pass, StampInv
<1>2. generation' = generation
  BY <1>1, PassKeepsSpec
<1>3. Honest(cond')
  BY PassHonest DEF StampInv
<1>4. CondsOK'
  BY <1>2, <1>3 DEF Honest, CondsOK
<1>5. SaysDone(cond', generation) => DoneTrue'
  BY <1>1, <1>3, PassKeepsTruth, StampsByClaim DEF Honest, StampInv
<1>6. SaysGated(cond', generation) => GatedTrue'
  BY <1>1, <1>3, PassKeepsTruth, StampsByClaim DEF Honest, StampInv
<1>7. SaysFailed(cond', generation) => FailedTrue'
  BY <1>1, <1>3, PassKeepsTruth, StampsByClaim DEF Honest, StampInv
<1>8. StampsAreTrue'
  BY <1>2, <1>5, <1>6, <1>7 DEF StampsAreTrue, SaysDone, SaysGated, SaysFailed,
     DoneTrue, GatedTrue, FailedTrue
<1> QED BY <1>4, <1>8

(* An edit outdates every condition; nothing else outside a pass matters.   *)
LEMMA StampOthers ==
    ASSUME StampInv, Interrupted \/ Env \/ UNCHANGED vars, UNCHANGED cond
    PROVE  CondsOK' /\ StampsAreTrue'
<1>0. /\ generation \in Nat /\ cond \in Conds(generation)
      /\ plan \in PlanType \union {NoPlan}
  BY DEF StampInv, TypeOK, CondsOK
<1>1. CASE EditSpec
  <2>1. generation' = generation + 1
    BY <1>1 DEF EditSpec
  <2>2. \A t \in CondTypes : cond[t].gen \in 0 .. generation
    BY <1>0 DEF Conds
  <2>3. \A t \in CondTypes : cond'[t].gen # generation'
    BY <1>0, <2>1, <2>2
  <2>4. CondsOK'
    BY <1>0, <2>1 DEF CondsOK, Conds
  <2>5. /\ ~SaysDone(cond', generation') /\ ~SaysGated(cond', generation')
        /\ ~SaysFailed(cond', generation')
    BY <2>3, CondNames DEF SaysDone, SaysGated, SaysFailed
  <2> QED BY <2>4, <2>5 DEF StampsAreTrue, SaysDone, SaysGated, SaysFailed
<1>2. CASE ~EditSpec
  <2>1. UNCHANGED <<spec, generation, lastGood, rollback>> /\ plan'.hash = plan.hash
        /\ plan'.gen = plan.gen /\ plan'.gatedWaves = plan.gatedWaves
    <3>1. CASE Tick
      BY <1>0, <3>1 DEF Tick, resource, PlanType, NoPlan
    <3>2. CASE Interrupted \/ UNCHANGED vars
      BY <3>2 DEF Interrupted, vars, status, resource
    <3>3. CASE Env /\ ~Tick
      BY <1>2, <3>3 DEF Env, DSCreate, Schedule, PodBecomesReady, PodBecomesUnready,
         Evict, PodGone, SetPod, NodeDown, NodeLeaves, NodeUp, NodeJoins, SetNode,
         status, resource
    <3> QED BY <3>1, <3>2, <3>3
  <2>2. CurrentHash' = CurrentHash
    BY <2>1 DEF CurrentHash
  <2> QED BY <2>1, <2>2 DEF StampInv, CondsOK, StampsAreTrue
<1> QED BY <1>1, <1>2

(* Initially the conditions belong to an older generation, or to none.     *)
LEMMA StampInit == CInit => StampInv
<1> SUFFICES ASSUME CInit PROVE StampInv
  OBVIOUS
<1>1. TypeOK /\ RollbackTarget
  BY TypeOKInit, RollbackTargetInit DEF CInit, Init
<1>2. CondsOK /\ \A t \in CondTypes : cond[t].gen # generation
  <2>1. CASE FirstDeploy /\ cond = [t \in CondTypes |-> NeverSet]
    <3>1. generation = 1
      BY <2>1, Zenon DEF FirstDeploy
    <3> QED BY <2>1, <3>1 DEF CondsOK, Conds, NeverSet, CondStates
  <2>2. CASE /\ Upgrade
             /\ cond = [Ready            |-> [is |-> "True", gen |-> 1],
                        Progressing      |-> [is |-> "False", gen |-> 1],
                        RollingBack      |-> NeverSet,
                        HealthGatePassed |-> [is |-> "True", gen |-> 1],
                        Degraded         |-> [is |-> "AllNodesReady", gen |-> 1]]
    <3>1. generation = 2
      BY <2>2 DEF Upgrade
    <3> QED BY <2>2, <3>1 DEF CondsOK, Conds, NeverSet, CondStates, CondTypes
  <2> QED BY <2>1, <2>2 DEF CInit
<1>3. StampsAreTrue
  BY <1>2, CondNames DEF StampsAreTrue
<1> QED BY <1>1, <1>2, <1>3 DEF StampInv

(* Whatever the order of edits, failures, rollbacks and interrupted passes, *)
(* a condition stamped with the current generation tells the truth, although *)
(* setCond is called on some branches only.                                  *)
THEOREM ConditionsAreTrue == CSpec => []StampsAreTrue
<1>1. StampInv /\ [CNext]_svars => StampInv'
  <2> SUFFICES ASSUME StampInv, [CNext]_svars PROVE StampInv'
    OBVIOUS
  <2>1. [Next]_vars
    BY DEF CNext, CPass, Next, Pass, svars
  <2>2. TypeOK' /\ RollbackTarget'
    BY <2>1, TypeOKStep, RollbackTargetStep DEF StampInv
  <2>3. CondsOK' /\ StampsAreTrue'
    BY StampPass, StampOthers DEF CNext, svars
  <2> QED BY <2>2, <2>3 DEF StampInv
<1>2. StampInv => StampsAreTrue
  BY DEF StampInv
<1> QED BY <1>1, <1>2, StampInit, PTL DEF CSpec
=============================================================================

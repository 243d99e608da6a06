-------------------------- MODULE RefinementProofs --------------------------
(***************************************************************************)
(* FleetRollout implements Lifecycle, for every value of the constants, and *)
(* so does CachedRollout, where passes read caches that lag behind; what   *)
(* the status owes to its reader survives stale reads with it.             *)
(***************************************************************************)
EXTENDS CachedRollout, FleetRolloutProofs

(* The current wave never exceeds the number of waves of the plan.         *)
LEMMA CurWaveBound ==
    ASSUME NEW p \in PlanType
    PROVE  CurWave(p) <= TotalWaves(p)
<1> DEFINE all  == 0 .. TotalWaves(p) - 1
           done == {w \in all : \A v \in 0 .. w : WaveFullyUpdated(p, v)}
<1>1. TotalWaves(p) \in Nat /\ TotalWaves(p) >= 1
  BY TotalWavesPositive
<1>2. IsFiniteSet(all) /\ Cardinality(all) = TotalWaves(p)
  <2>1. 0 \in Int /\ TotalWaves(p) - 1 \in Int /\ 0 <= TotalWaves(p) - 1
    BY <1>1
  <2>2. IsFiniteSet(all) /\ Cardinality(all) = (TotalWaves(p) - 1) - 0 + 1
    BY <2>1, FS_Interval
  <2> QED BY <1>1, <2>2
<1>3. Cardinality(done) <= Cardinality(all)
  BY <1>2, FS_Subset
<1> QED BY <1>2, <1>3 DEF CurWave

(* A pass raises the mark of passed gates only under a health gate, and    *)
(* never past the last wave.                                               *)
MarkStep(p, q) ==
    q.gatedWaves = p.gatedWaves \/ (spec.healthGate /\ q.gatedWaves <= TotalWaves(p))

(* A plan a pass may work with: the saved one if it is of the current hash *)
(* and generation, else one without passed gates.                          *)
Works(p) ==
    /\ p \in PlanType /\ p.hash = CurrentHash /\ p.gen = generation
    /\ IF plan.hash = CurrentHash /\ plan.gen = generation
         THEN p = plan ELSE p.gatedWaves = 0

(* The forward path works with such a plan.                                *)
LEMMA ForwardWorks ==
    ASSUME TypeOK, Forward
    PROVE  Works(PlanNow)
BY PlanNowType DEF Forward, Works, PlanNow, NewPlan

(* What a pass makes of the plan it works with is what Lifecycle lets it   *)
(* make of it.                                                             *)
LEMMA WorkContinues ==
    ASSUME NEW p, Works(p), PlanStep(p, plan'), MarkStep(p, plan')
    PROVE  L!Continues(planSeen')
<1> DEFINE q == planSeen'
<1> SUFFICES L!Continues(q)
  OBVIOUS
<1>1. p \in PlanType /\ p.hash = CurrentHash /\ p.gen = generation
  BY DEF Works
<1>2. /\ q.hash = CurrentHash /\ q.gen = generation
      /\ q.nodes = p.nodes /\ q.waveSize = p.waveSize
      /\ q.gatedWaves = plan'.gatedWaves /\ q.gatedWaves >= p.gatedWaves
  BY <1>1 DEF PlanStep, planSeen
<1>3. TotalWaves(q) = TotalWaves(p)
  BY <1>2 DEF TotalWaves
<1>4. CASE plan.hash = CurrentHash /\ plan.gen = generation
  <2>1. p = plan
    BY <1>4 DEF Works
  <2>2. q.gatedWaves = plan.gatedWaves => q = planSeen
    BY <1>2, <1>4, <2>1 DEF planSeen
  <2>3. q.gatedWaves = plan.gatedWaves \/ (spec.healthGate /\ q.gatedWaves <= TotalWaves(q))
    BY <1>2, <1>3, <2>1 DEF MarkStep
  <2> HIDE DEF q
  <2> QED BY <1>2, <1>4, <2>1, <2>2, <2>3 DEF L!Continues, wantSeen, planSeen
<1>5. CASE ~(plan.hash = CurrentHash /\ plan.gen = generation)
  <2>1. /\ p.nodes \in (SUBSET Nodes) \ {{}}
        /\ p.waveSize \in Nat \ {0}
        /\ p.gatedWaves = 0
    BY <1>1, <1>5 DEF Works, PlanType
  <2>2. q.gatedWaves > 0 => spec.healthGate /\ q.gatedWaves <= TotalWaves(q)
    BY <1>2, <1>3, <2>1 DEF MarkStep
  <2> HIDE DEF q
  <2> QED BY <1>2, <1>5, <2>1, <2>2 DEF L!Continues, wantSeen, planSeen
<1> QED BY <1>4, <1>5

(* Passing the gate raises the mark to a wave of the plan.                 *)
LEMMA PastGateMark ==
    ASSUME NEW p \in PlanType, NEW k \in Nat, k <= TotalWaves(p), NEW q \in PastGate(p, k)
    PROVE  MarkStep(p, q)
<1>2. CASE GateOpen(p, k)
  BY <1>2 DEF PastGate, MarkStep
<1>3. CASE ~GateOpen(p, k)
  <2>1. q = Latched(p, k)
    BY <1>3 DEF PastGate
  <2>2. q.gatedWaves = k
    BY <2>1 DEF Latched, PlanType
  <2>3. spec.healthGate
    BY <1>3 DEF GateOpen
  <2> QED BY <2>2, <2>3 DEF MarkStep
<1> QED BY <1>2, <1>3

-----------------------------------------------------------------------------
(* What a pass may do to the status, in terms of what is stored.            *)

\* Short of the plan: only an abandoned rollback is dropped.
Keeps == /\ plan' = plan /\ lastGood' = lastGood /\ rollback' = RollbackNow
         /\ phase' \in {"Progressing", "RollingBack", "RolledBack"}

\* The gate of wave k - 1 of plan p holds on the answer obs.
Holds(p, k, obs) ==
    /\ ~GateOpen(p, k) /\ obs \in GateObs[p.hash]
    /\ plan' = Armed(p, k) /\ lastGood' = lastGood
    /\ \/ /\ GateDecision(p, k, obs) = "gateWait"
          /\ rollback' = None /\ phase' \in {phase, "Progressing"}
       \/ /\ GateDecision(p, k, obs) = "gatePauseTimeout"
          /\ rollback' = None /\ phase' = "Paused"
       \/ /\ GateDecision(p, k, obs) = "gateRollback"
          /\ rollback' = p.hash /\ phase' = "RollingBack"

\* The gate of wave k - 1 of plan p is open or passes.
Passes(p, k) ==
    /\ plan' \in PastGate(p, k) /\ rollback' = None
    /\ \/ phase' = "Progressing" /\ lastGood' = lastGood
       \/ phase' = "Done" /\ lastGood' = p.hash /\ k = TotalWaves(p)

Decides ==
    /\ RollbackNow = None
    /\ \E p : /\ Works(p)
              /\ \E k \in 0 .. TotalWaves(p) : (\E obs : Holds(p, k, obs)) \/ Passes(p, k)

StatusStep ==
    /\ UNCHANGED resource
    /\ \/ UNCHANGED status
       \/ /\ observedGeneration' = generation
          /\ Keeps \/ Decides

(* With fresh reads a pass takes such a step.                               *)
LEMMA PassStatus ==
    ASSUME TypeOK, Pass
    PROVE  StatusStep
<1>1. Ensure
  BY DEF Pass, NoTargets, DeleteStaleGated, RollBack, GateWait, GatePause,
         GateRollback, GateHolds, Complete, DeleteWave, UngateWave, AwaitWave, Advance
<1>2. UNCHANGED resource /\ observedGeneration' = generation
  BY <1>1 DEF Ensure
<1>3. CASE NoTargets \/ DeleteStaleGated \/ RollBack
  BY <1>2, <1>3 DEF NoTargets, DeleteStaleGated, RollBack, RollsBack, RollbackNow,
                    StatusStep, Keeps
<1> DEFINE p == PlanNow  k == CurWave(p)
<1>4. ASSUME Forward PROVE RollbackNow = None /\ Works(p) /\ k \in 0 .. TotalWaves(p)
  BY <1>4, ForwardWorks, ForwardPlan, CurWaveBound, TotalWavesPositive DEF Forward
<1>5. CASE GateWait \/ GatePause \/ GateRollback
  <2>1. Forward
    BY <1>5 DEF GateWait, GatePause, GateRollback, GateHolds
  <2>2. \E obs : Holds(p, k, obs)
    BY <1>5 DEF GateWait, GatePause, GateRollback, GateHolds, Holds
  <2> HIDE DEF p, k
  <2> QED
    BY <1>2, <1>4, <2>1, <2>2 DEF StatusStep, Decides
<1>6. CASE Complete \/ DeleteWave \/ UngateWave \/ AwaitWave
  <2>1. Forward
    BY <1>6 DEF Complete, DeleteWave, UngateWave, AwaitWave, Advance
  <2>2. Pending(p) = {} => k = TotalWaves(p)
    BY <2>1, ForwardPlan, CurWaveComplete
  <2>3. Passes(p, k)
    BY <1>6, <2>2 DEF Complete, DeleteWave, UngateWave, AwaitWave, Advance, Passes
  <2> HIDE DEF p, k
  <2> QED
    BY <1>2, <1>4, <2>1, <2>3 DEF StatusStep, Decides
<1> QED
  BY <1>3, <1>5, <1>6 DEF Pass

(* What such a step makes of the plan it works with.                        *)
LEMMA DecidedPlan ==
    ASSUME TypeOK, NEW p, Works(p), NEW k \in 0 .. TotalWaves(p)
    PROVE  /\ k \in Nat /\ p \in PlanType
           /\ \A obs : Holds(p, k, obs) =>
                /\ PlanStep(p, plan') /\ plan'.gatedWaves = p.gatedWaves
                /\ spec.healthGate /\ p.gatedWaves < k
           /\ Passes(p, k) =>
                /\ PlanStep(p, plan') /\ MarkStep(p, plan')
                /\ GateOpen(p, k) \/ "healthy" \in GateObs[p.hash]
                /\ k = 0 \/ ~spec.healthGate \/ plan'.gatedWaves >= k
<1>1. p \in PlanType /\ TotalWaves(p) \in Nat /\ TotalWaves(p) >= 1
  BY TotalWavesPositive DEF Works
<1>2. k \in Nat /\ k <= TotalWaves(p)
  BY <1>1
<1>3. ASSUME NEW obs, Holds(p, k, obs)
      PROVE  /\ PlanStep(p, plan') /\ plan'.gatedWaves = p.gatedWaves
             /\ spec.healthGate /\ p.gatedWaves < k
  <2>1. ~GateOpen(p, k) /\ plan' = Armed(p, k)
    BY <1>3 DEF Holds
  <2>2. PlanStep(p, plan')
    BY <1>1, <1>2, <2>1, ArmedStep
  <2>3. plan'.gatedWaves = p.gatedWaves
    BY <1>1, <2>1 DEF Armed, PlanType
  <2>4. spec.healthGate /\ p.gatedWaves < k
    BY <1>1, <1>2, <2>1 DEF GateOpen, PlanType
  <2> QED
    BY <2>2, <2>3, <2>4
<1>4. ASSUME Passes(p, k)
      PROVE  /\ PlanStep(p, plan') /\ MarkStep(p, plan')
             /\ GateOpen(p, k) \/ "healthy" \in GateObs[p.hash]
             /\ k = 0 \/ ~spec.healthGate \/ plan'.gatedWaves >= k
  BY <1>1, <1>2, <1>4, PastGateStep, PastGateMark DEF Passes
<1> QED
  BY <1>1, <1>2, <1>3, <1>4

(* Every step a pass may take is a step of Lifecycle.                       *)
LEMMA StatusRefines ==
    ASSUME TypeOK, StatusStep
    PROVE  [L!Next]_(L!lvars)
<1>1. wantSeen' = wantSeen
  BY DEF StatusStep, resource, wantSeen, CurrentHash
<1>2. CASE UNCHANGED status
  BY <1>1, <1>2 DEF status, planSeen, L!lvars
<1>3. CASE Keeps
  <2>1. planSeen' = planSeen /\ lastGood' = lastGood /\ rollback' = RollbackNow
    BY <1>3 DEF Keeps, planSeen
  <2>2. CASE L!Standing
    BY <1>1, <2>1, <2>2 DEF L!Standing, L!lvars, RollbackNow, wantSeen
  <2>3. CASE ~L!Standing
    BY <1>1, <2>1, <2>3 DEF L!Standing, L!Abandon, L!Next, RollbackNow, wantSeen
  <2> QED
    BY <2>2, <2>3
<1>4. CASE Decides
  <2>1. ~L!Standing
    BY <1>4, HashesType DEF Decides, L!Standing, RollbackNow, wantSeen
  <2>2. PICK p : /\ Works(p)
                 /\ \E k \in 0 .. TotalWaves(p) :
                      (\E obs : Holds(p, k, obs)) \/ Passes(p, k)
    BY <1>4 DEF Decides
  <2>3. PICK k \in 0 .. TotalWaves(p) : (\E obs : Holds(p, k, obs)) \/ Passes(p, k)
    BY <2>2
  <2>4. k \in Nat /\ p \in PlanType /\ TotalWaves(p) \in Nat /\ TotalWaves(p) >= 1
        /\ k <= TotalWaves(p)
    BY <2>2, DecidedPlan, TotalWavesPositive
  <2>5. p.hash = CurrentHash
    BY <2>2 DEF Works
  <2>6. ASSUME NEW obs, Holds(p, k, obs) PROVE [L!Next]_(L!lvars)
    <3>1. /\ PlanStep(p, plan') /\ plan'.gatedWaves = p.gatedWaves
          /\ spec.healthGate /\ p.gatedWaves < k
      BY <2>2, <2>6, DecidedPlan
    <3>2. L!Continues(planSeen')
      BY <2>2, <3>1, WorkContinues DEF MarkStep
    <3>3. planSeen'.gatedWaves < TotalWaves(planSeen')
      <4>1. TotalWaves(planSeen') = TotalWaves(p)
        BY <3>1 DEF PlanStep, planSeen, TotalWaves
      <4>2. planSeen'.gatedWaves = p.gatedWaves /\ p.gatedWaves \in Nat
        BY <2>4, <3>1 DEF planSeen, PlanType
      <4> QED
        BY <2>4, <3>1, <4>1, <4>2
    <3>4. CASE rollback' = None
      BY <1>1, <2>1, <2>6, <3>2, <3>4 DEF Holds, L!Progress, L!Next
    <3>5. CASE GateDecision(p, k, obs) = "gateRollback" /\ rollback' = p.hash
      <4>1. lastGood \notin {None, p.hash}
        BY <3>5 DEF GateDecision, DecideGate
      <4> QED
        BY <1>1, <2>1, <2>5, <2>6, <3>1, <3>2, <3>3, <3>5, <4>1
           DEF Holds, L!Fail, L!Next, wantSeen
    <3> QED
      BY <2>6, <3>4, <3>5 DEF Holds
  <2>7. ASSUME Passes(p, k) PROVE [L!Next]_(L!lvars)
    <3>1. /\ PlanStep(p, plan') /\ MarkStep(p, plan')
          /\ k = 0 \/ ~spec.healthGate \/ plan'.gatedWaves >= k
      BY <2>2, <2>7, DecidedPlan
    <3>2. L!Continues(planSeen')
      BY <2>2, <3>1, WorkContinues
    <3>3. CASE lastGood' = lastGood
      BY <1>1, <2>1, <2>7, <3>2, <3>3 DEF Passes, L!Progress, L!Next
    <3>4. CASE lastGood' = p.hash /\ k = TotalWaves(p)
      <4>1. TotalWaves(planSeen') = TotalWaves(p) /\ planSeen'.gatedWaves = plan'.gatedWaves
        BY <3>1 DEF PlanStep, planSeen, TotalWaves
      <4>2. spec.healthGate => planSeen'.gatedWaves >= TotalWaves(planSeen')
        BY <2>4, <3>1, <3>4, <4>1
      <4> QED
        BY <1>1, <2>1, <2>5, <2>7, <3>2, <3>4, <4>2 DEF Passes, L!Succeed, L!Next, wantSeen
    <3> QED
      BY <2>7, <3>3, <3>4 DEF Passes
  <2> QED
    BY <2>3, <2>6, <2>7
<1> QED
  BY <1>2, <1>3, <1>4 DEF StatusStep

(* Every other step submits a spec or changes nothing a reader sees.       *)
LEMMA OthersRefine ==
    ASSUME TypeOK, Interrupted \/ Env \/ UNCHANGED vars
    PROVE  [L!Next]_(L!lvars)
<1>1. CASE EditSpec
  <2>1. planSeen' = planSeen /\ lastGood' = lastGood /\ rollback' = rollback
    BY <1>1 DEF EditSpec, status, planSeen
  <2>2. wantSeen'.gen = wantSeen.gen + 1
    BY <1>1 DEF EditSpec, wantSeen
  <2> QED BY <2>1, <2>2 DEF L!Submit, L!Next
<1>2. CASE Tick
  <2>1. plan \in PlanType \union {NoPlan}
    BY DEF TypeOK
  <2>2. planSeen' = planSeen
    BY <1>2, <2>1 DEF Tick, planSeen, PlanType, NoPlan
  <2>3. wantSeen' = wantSeen /\ lastGood' = lastGood /\ rollback' = rollback
    BY <1>2 DEF Tick, wantSeen, CurrentHash, resource
  <2> QED BY <2>2, <2>3 DEF L!lvars
<1>3. CASE Interrupted \/ UNCHANGED vars
  BY <1>3 DEF Interrupted, vars, status, resource, wantSeen, planSeen, CurrentHash, L!lvars
<1>4. CASE Env /\ ~EditSpec /\ ~Tick
  <2>1. UNCHANGED <<resource, status>>
    BY <1>4 DEF Env, DSCreate, Schedule, PodBecomesReady, PodBecomesUnready,
       Evict, PodGone, SetPod, NodeDown, NodeLeaves, NodeUp, NodeJoins, SetNode
  <2> QED BY <2>1 DEF status, resource, wantSeen, planSeen, CurrentHash, L!lvars
<1> QED BY <1>1, <1>2, <1>3, <1>4

(* A new resource, and one whose previous rollout is complete, are initial *)
(* states of Lifecycle.                                                    *)
LEMMA InitRefines == Init => L!Init
<1> SUFFICES ASSUME Init PROVE L!Init
  OBVIOUS
<1>1. TypeOK
  BY TypeOKInit
<1>2. wantSeen \in [hash : Hashes, gen : Nat, gate : BOOLEAN]
  <2>1. spec \in SpecType /\ generation \in Nat
    BY <1>1, SpecsAssumption DEF TypeOK
  <2> QED BY <1>1, <2>1, HashesType DEF wantSeen, SpecType
<1>3. CASE FirstDeploy
  <2>1. plan = NoPlan /\ lastGood = None /\ rollback = None /\ generation = 1
    BY <1>3, Zenon DEF FirstDeploy
  <2> QED BY <1>1, <1>2, <2>1, HashesType DEF L!Init, wantSeen, planSeen, NoPlan
<1>4. CASE Upgrade
  <2>1. plan.hash = lastGood /\ plan.gen = 1 /\ generation = 2 /\ rollback = None
    BY <1>4 DEF Upgrade, NoPlan
  <2>2. lastGood # CurrentHash
    BY <1>4 DEF Upgrade
  <2> QED BY <1>2, <2>1, <2>2 DEF L!Init, wantSeen, planSeen
<1> QED BY <1>3, <1>4 DEF Init

(* The controller implements Lifecycle: seen through its status, every     *)
(* behaviour of passes, crashes, edits and the cluster is one Lifecycle    *)
(* allows.                                                                 *)
THEOREM StatusRefinesLifecycle == Spec => StatusKeepsPromise
<1>1. TypeOK /\ [Next]_vars => [L!Next]_(L!lvars)
  BY PassStatus, StatusRefines, OthersRefine DEF Next
<1> QED BY <1>1, InitRefines, TypeCorrect, PTL DEF Spec, StatusKeepsPromise, L!Spec

-----------------------------------------------------------------------------
(* Behind caches: a pass decides from what it has read, and its status      *)
(* update is accepted only if the resource has not changed since.           *)

(* Counting is the same in both views.                                      *)
LEMMA ViewCounts == \A S : V!Cardinality(S) = Cardinality(S)
BY DEF V!Cardinality, Cardinality

(* A fresh resource means the same to the pass as to the store; nodes and   *)
(* pods may still be stale.                                                 *)
LEMMA FreshView ==
    ASSUME cfr = Stored
    PROVE  /\ V!CurrentHash = CurrentHash /\ V!RollbackNow = RollbackNow
           /\ V!PlanNow = IF plan.hash = CurrentHash /\ plan.gen = generation
                            THEN plan ELSE V!NewPlan
           /\ \A p, k : /\ V!GateOpen(p, k) = GateOpen(p, k)
                        /\ V!Armed(p, k) = Armed(p, k)
                        /\ V!PastGate(p, k) = PastGate(p, k)
                        /\ \A obs : V!GateDecision(p, k, obs) = GateDecision(p, k, obs)
<1>1. /\ cfr.spec = spec /\ cfr.generation = generation /\ cfr.plan = plan
      /\ cfr.lastGood = lastGood /\ cfr.rollback = rollback
  BY DEF Stored
<1>2. V!CurrentHash = CurrentHash /\ V!RollbackNow = RollbackNow
  BY <1>1 DEF V!CurrentHash, CurrentHash, V!RollbackNow, RollbackNow
<1>3. ASSUME NEW p, NEW k
      PROVE  /\ V!GateOpen(p, k) = GateOpen(p, k)
             /\ V!Armed(p, k) = Armed(p, k)
             /\ \A obs : V!GateDecision(p, k, obs) = GateDecision(p, k, obs)
  BY <1>1 DEF V!GateOpen, GateOpen, V!Armed, Armed, V!GateDecision, GateDecision,
              V!DecideGate, DecideGate
<1>4. ASSUME NEW p, NEW k PROVE V!PastGate(p, k) = PastGate(p, k)
  BY <1>3 DEF V!PastGate, PastGate, V!Latched, Latched, V!NoWave, NoWave
<1>5. V!PlanNow = IF plan.hash = CurrentHash /\ plan.gen = generation
                    THEN plan ELSE V!NewPlan
  BY <1>1, <1>2 DEF V!PlanNow
<1> QED
  BY <1>2, <1>3, <1>4, <1>5

(* With a fresh resource a pass works with a proper plan, be the nodes it   *)
(* froze out of date.                                                       *)
LEMMA FreshWorks ==
    ASSUME TypeOK, cfr = Stored, V!Forward
    PROVE  Works(V!PlanNow)
<1>1. CASE plan.hash = CurrentHash /\ plan.gen = generation
  <2>1. plan # NoPlan
    BY <1>1, HashesType DEF NoPlan
  <2> QED
    BY <1>1, <2>1, FreshView DEF Works, TypeOK
<1>2. CASE ~(plan.hash = CurrentHash /\ plan.gen = generation)
  <2> DEFINE R == V!ReadyTargets
  <2>1. R \subseteq Nodes /\ R # {}
    BY DEF V!ReadyTargets, V!Forward
  <2>2. IsFiniteSet(R)
    BY <2>1, NodesAssumption, FS_Subset
  <2>3. Cardinality(R) \in Nat /\ Cardinality(R) >= 1
    BY <2>1, <2>2, FS_CardinalityType, FS_EmptySet
  <2>4. cfr.spec = spec /\ cfr.generation = generation
    BY DEF Stored
  <2>5. spec.waveSize \in [percent : BOOLEAN, val : Nat]
    BY SpecsAssumption DEF TypeOK, SpecType
  <2>6. V!ResolveWaveSize(spec.waveSize, Cardinality(R))
          = ResolveWaveSize(spec.waveSize, Cardinality(R))
    BY DEF V!ResolveWaveSize, ResolveWaveSize
  <2>7. ResolveWaveSize(spec.waveSize, Cardinality(R)) \in Nat \ {0}
    BY <2>3, <2>5, ResolveWaveSizeRange
  <2>8. V!NewPlan = [hash |-> CurrentHash, gen |-> generation,
                     waveSize |-> ResolveWaveSize(spec.waveSize, Cardinality(R)),
                     nodes |-> R, gatedWaves |-> 0, evaluatingWave |-> NoWave, age |-> 0]
    BY <2>4, <2>6, FreshView, ViewCounts DEF V!NewPlan, V!NoWave, NoWave
  <2> HIDE DEF R
  <2>9. V!NewPlan \in PlanType
    BY <2>1, <2>7, <2>8, HashesType, BoundAssumption DEF PlanType, TypeOK
  <2> QED
    BY <1>2, <2>8, <2>9, FreshView DEF Works
<1> QED
  BY <1>1, <1>2

(* The current wave a pass derives from stale pods is still a wave of the   *)
(* plan or the number of waves, and the latter when nothing is pending.     *)
LEMMA StaleCurWave ==
    ASSUME NEW p \in PlanType
    PROVE  /\ V!CurWave(p) \in 0 .. TotalWaves(p)
           /\ V!Pending(p) = {} => V!CurWave(p) = TotalWaves(p)
<1> DEFINE T == TotalWaves(p)
           F == {v \in 0 .. T : V!WaveFullyUpdated(p, v)}
<1>1. T \in Nat
  BY TotalWavesPositive
<1>2. V!CurWave(p) = Cardinality(Leading(T, F))
  <2>1. \A w \in 0 .. T - 1 : 0 .. w \subseteq 0 .. T
    BY <1>1
  <2>2. V!TotalWaves(p) = T
    BY ViewCounts DEF V!TotalWaves, TotalWaves
  <2>3. Leading(T, F) = {w \in 0 .. T - 1 : \A v \in 0 .. w : V!WaveFullyUpdated(p, v)}
    <3> HIDE DEF T
    <3> QED
      BY <2>1 DEF Leading
  <2> QED
    BY <2>2, <2>3, ViewCounts DEF V!CurWave
<1>3. V!Pending(p) = {} => \A v \in 0 .. T : v \in F
  BY DEF V!WaveFullyUpdated
<1> HIDE DEF T, F
<1>4. /\ Cardinality(Leading(T, F)) \in 0 .. T
      /\ \A w \in 0 .. T : (\A v \in 0 .. w - 1 : v \in F)
                             => w <= Cardinality(Leading(T, F))
  BY <1>1, LeadingWaves
<1>5. V!CurWave(p) \in 0 .. T /\ (V!Pending(p) = {} => V!CurWave(p) = T)
  <2>1. T \in 0 .. T /\ \A v \in 0 .. T - 1 : v \in 0 .. T
    BY <1>1
  <2> QED
    BY <1>1, <1>2, <1>3, <1>4, <2>1
<1> QED
  BY <1>5 DEF T

(* The status a pass asks for is saved from a fresh resource or not at all. *)
LEMMA CallsSave ==
    ASSUME NEW ungated, NEW U, NEW D, NEW s, NEW wake, Calls(ungated, U, D, s, wake)
    PROVE  /\ UNCHANGED resource
           /\ \/ UNCHANGED status
              \/ /\ cfr = Stored /\ observedGeneration' = generation
                 /\ phase' = s.phase /\ plan' = s.plan
                 /\ lastGood' = s.lastGood /\ rollback' = s.rollback
BY DEF Calls, Save

(* A pass behind caches, stale or not, takes such a step.                   *)
LEMMA LPassStatus ==
    ASSUME TypeOK, LPass
    PROVE  StatusStep
<1> SUFFICES ASSUME cfr = Stored, ~UNCHANGED status
             PROVE  StatusStep
  <2>1. \E ungated, U, D, s, wake : Calls(ungated, U, D, s, wake)
    BY DEF LPass, LNoTargets, LDeleteStaleGated, LRollBack, LGateHolds, LComplete,
           LAdvance, Deletes, Ungates
  <2>2. UNCHANGED resource /\ (UNCHANGED status \/ cfr = Stored)
    BY <2>1, CallsSave
  <2> QED
    BY <2>2 DEF StatusStep
<1>1. cfr.plan = plan /\ cfr.lastGood = lastGood /\ cfr.phase = phase
  BY DEF Stored
<1>2. CASE LNoTargets \/ LDeleteStaleGated \/ LRollBack
  <2>1. PICK ph \in {"Progressing", "RollingBack", "RolledBack"} :
             \E ungated, U, D, wake : Calls(ungated, U, D, Keep(ph), wake)
    BY <1>2 DEF LNoTargets, LDeleteStaleGated, LRollBack, Deletes
  <2>2. /\ UNCHANGED resource /\ observedGeneration' = generation
        /\ phase' = ph /\ plan' = cfr.plan /\ lastGood' = cfr.lastGood
        /\ rollback' = V!RollbackNow
    BY <2>1, CallsSave DEF Keep, Verdict
  <2> QED
    BY <1>1, <2>1, <2>2, FreshView DEF StatusStep, Keeps
<1>3. ASSUME V!Forward
      PROVE  /\ RollbackNow = None /\ Works(V!PlanNow)
             /\ V!CurWave(V!PlanNow) \in 0 .. TotalWaves(V!PlanNow)
  BY <1>3, FreshView, FreshWorks, StaleCurWave DEF V!Forward, Works
<1>4. CASE LGateHolds
  <2> DEFINE p == V!PlanNow  k == V!CurWave(p)
  <2>1. V!Forward
    BY <1>4 DEF LGateHolds
  <2>2. PICK obs, ph, back, wake :
             /\ obs \in GateObs[p.hash]
             /\ ~V!GateOpen(p, k)
             /\ Deletes({}, Verdict(ph, V!Armed(p, k), cfr.lastGood, back), wake)
             /\ \/ /\ V!GateDecision(p, k, obs) = "gateWait"
                   /\ back = None /\ ph \in {cfr.phase, "Progressing"}
                \/ /\ V!GateDecision(p, k, obs) = "gatePauseTimeout"
                   /\ back = None /\ ph = "Paused"
                \/ /\ V!GateDecision(p, k, obs) = "gateRollback"
                   /\ back = p.hash /\ ph = "RollingBack"
    BY <1>4, Zenon DEF LGateHolds
  <2>3. /\ UNCHANGED resource /\ observedGeneration' = generation
        /\ phase' = ph /\ plan' = V!Armed(p, k) /\ lastGood' = cfr.lastGood
        /\ rollback' = back
    BY <2>2, CallsSave DEF Deletes, Verdict
  <2> HIDE DEF p, k
  <2>4. Holds(p, k, obs)
    BY <1>1, <2>2, <2>3, FreshView DEF Holds
  <2>5. RollbackNow = None /\ Works(p) /\ k \in 0 .. TotalWaves(p)
    BY <1>3, <2>1 DEF p, k
  <2> QED
    BY <2>3, <2>4, <2>5 DEF StatusStep, Decides
<1>5. CASE LComplete \/ LAdvance
  <2> DEFINE p == V!PlanNow  k == V!CurWave(p)
  <2>1. V!Forward
    BY <1>5 DEF LComplete, LAdvance
  <2>2. PICK q, ph, good, ungated, U, D, wake :
             /\ q \in V!PastGate(p, k)
             /\ Calls(ungated, U, D, Verdict(ph, q, good, None), wake)
             /\ \/ ph = "Progressing" /\ good = cfr.lastGood
                \/ ph = "Done" /\ good = p.hash /\ V!Pending(p) = {}
    BY <1>5 DEF LComplete, LAdvance, Deletes, Ungates
  <2>3. /\ UNCHANGED resource /\ observedGeneration' = generation
        /\ phase' = ph /\ plan' = q /\ lastGood' = good /\ rollback' = None
    BY <2>2, CallsSave DEF Verdict
  <2>4. RollbackNow = None /\ Works(p) /\ k \in 0 .. TotalWaves(p)
    BY <1>3, <2>1
  <2>5. V!Pending(p) = {} => k = TotalWaves(p)
    BY <2>4, StaleCurWave DEF Works
  <2> HIDE DEF p, k
  <2>6. Passes(p, k)
    BY <1>1, <2>2, <2>3, <2>5, FreshView DEF Passes
  <2> QED
    BY <2>3, <2>4, <2>6 DEF StatusStep, Decides
<1> QED
  BY <1>2, <1>4, <1>5 DEF LPass

-----------------------------------------------------------------------------
(* The types, behind caches.                                               *)

(* The cached resource is a resource.                                      *)
CacheOK ==
    cfr \in [spec : Specs, generation : Nat, phase : Phases, observedGeneration : Nat,
             plan : PlanType \union {NoPlan}, lastGood : Hashes \union {None},
             rollback : Hashes \union {None}]

(* Time makes a plan no other plan.                                        *)
LEMMA AgedType ==
    ASSUME NEW p \in PlanType \union {NoPlan}
    PROVE  Aged(p) \in PlanType \union {NoPlan}
<1>1. CASE p.evaluatingWave # NoWave /\ p.age < Timeout
  <2>1. p \in PlanType
    BY <1>1 DEF NoPlan
  <2>2. p.age + 1 \in 0 .. Timeout
    BY <1>1, <2>1, BoundAssumption DEF PlanType
  <2>3. [p EXCEPT !.age = p.age + 1] \in PlanType
    BY <2>1, <2>2 DEF PlanType
  <2> QED
    BY <1>1, <2>3 DEF Aged
<1>2. CASE ~(p.evaluatingWave # NoWave /\ p.age < Timeout)
  BY <1>2 DEF Aged
<1> QED
  BY <1>1, <1>2

(* A step is a pass, a restart, or seen from the store a step of the        *)
(* environment or none.                                                     *)
LEMMA LStepKinds ==
    ASSUME [LNext]_cvars
    PROVE  LPass \/ Restart \/ Env \/ UNCHANGED vars
<1>1. CASE LTick
  <2>1. CASE Aged(plan) = plan
    BY <1>1, <2>1 DEF LTick, vars, status
  <2>2. CASE Aged(plan) # plan
    BY <1>1, <2>2 DEF LTick, Aged, Env, Tick
  <2> QED
    BY <2>1, <2>2
<1>2. CASE LEnv /\ ~LTick
  BY <1>2 DEF LEnv, InCluster, Env
<1>3. CASE SyncResource \/ SyncDaemonSet \/ SyncNodes \/ SyncPods \/ TimerFires \/ Resync
  BY <1>3 DEF SyncResource, SyncDaemonSet, SyncNodes, SyncPods, TimerFires, Resync,
              Delivered
<1>4. CASE UNCHANGED cvars
  BY <1>4 DEF cvars
<1> QED
  BY <1>1, <1>2, <1>3, <1>4 DEF LNext

(* A pass ungates pods that are gated in the store: one that has changed    *)
(* since it was read is a conflict, one that is gone is skipped.            *)
LEMMA LPassPods ==
    ASSUME TypeOK, LPass
    PROVE  pod' \in [Nodes -> PodType]
<1>1. PICK U, ungated, D, s, wake :
           /\ Calls(ungated, U, D, s, wake)
           /\ \A x \in U : cpod[x].st = "gated"
           /\ ungated \subseteq U \ Conflicts(U)
  <2>1. ASSUME NEW U, NEW ungated \in InOrder(U), U \subseteq Nodes
        PROVE  ungated \subseteq U \ Conflicts(U)
    <3>1. \A x \in U : x \in Nat /\ ~(x < x)
      BY <2>1, NodesAssumption
    <3> QED
      BY <3>1 DEF InOrder
  <2>2. ASSUME NEW U, NEW ungated \in AnyOrder(U)
        PROVE  ungated \subseteq U \ Conflicts(U)
    BY <2>2 DEF AnyOrder
  <2>3. CASE LNoTargets \/ LDeleteStaleGated \/ LGateHolds
    <3>1. \E D, s, wake : Calls({}, {}, D, s, wake)
      BY <2>3 DEF LNoTargets, LDeleteStaleGated, LGateHolds, Deletes
    <3> QED
      BY <3>1
  <2>4. CASE LRollBack
    <3>1. /\ V!RollbackUngates \subseteq Nodes
          /\ \A x \in V!RollbackUngates : cpod[x].st = "gated"
      BY DEF V!RollbackUngates, V!ReadyTargets, V!PodGatedOn
    <3>2. \E ungated \in InOrder(V!RollbackUngates) : \E D, s, wake :
            Calls(ungated, V!RollbackUngates, D, s, wake)
      BY <2>4 DEF LRollBack
    <3> QED
      BY <2>1, <3>1, <3>2
  <2>5. CASE LComplete
    <3>1. \A p : \A x \in V!Adoptable(p) : cpod[x].st = "gated"
      BY DEF V!Adoptable, V!PodGatedOn
    <3>2. \E p, s, wake : \E ungated \in AnyOrder(V!Adoptable(p)) :
            Calls(ungated, V!Adoptable(p), {}, s, wake)
      BY <2>5 DEF LComplete
    <3> QED
      BY <2>2, <3>1, <3>2
  <2>6. CASE LAdvance
    <3>1. \A p : /\ V!WaveUngate(p) \subseteq Nodes
                 /\ \A x \in V!WaveUngate(p) : cpod[x].st = "gated"
      BY DEF V!WaveUngate, V!ReadyTargets, V!PodGatedOn
    <3>2. \/ \E D, s, wake : Calls({}, {}, D, s, wake)
          \/ \E p, s, wake : \E ungated \in InOrder(V!WaveUngate(p)) :
               Calls(ungated, V!WaveUngate(p), {}, s, wake)
      BY <2>6 DEF LAdvance, Deletes, Ungates
    <3> QED
      BY <2>1, <3>1, <3>2
  <2> QED
    BY <2>3, <2>4, <2>5, <2>6 DEF LPass
<1>2. CASE pod' = pod
  BY <1>2 DEF TypeOK
<1>3. CASE pod' = UngatePods(ungated \ gone)
  <2>1. \A x \in (ungated \ gone) \intersect Nodes : pod[x].st = "gated"
    BY <1>1 DEF Conflicts
  <2> QED
    BY <1>3, <2>1, UngatePodsType
<1>4. CASE Conflicts(U) = {} /\ pod' = ApplyRollback(U \ gone, D \ gone)
  <2>1. \A x \in (U \ gone) \intersect Nodes : pod[x].st = "gated"
    BY <1>1, <1>4 DEF Conflicts
  <2> QED
    BY <1>4, <2>1, ApplyRollbackType
<1> QED
  BY <1>1, <1>2, <1>3, <1>4 DEF Calls

(* Every step keeps the types of the store and of the cached resource.      *)
LEMMA LTypeStep == TypeOK /\ CacheOK /\ [LNext]_cvars => TypeOK' /\ CacheOK'
<1> SUFFICES ASSUME TypeOK, CacheOK, [LNext]_cvars PROVE TypeOK' /\ CacheOK'
  OBVIOUS
<1>1. ASSUME LPass PROVE TypeOK'
  <2>1. PICK ungated, U, D, s, wake : Calls(ungated, U, D, s, wake)
    BY <1>1 DEF LPass, LNoTargets, LDeleteStaleGated, LRollBack, LGateHolds, LComplete,
                LAdvance, Deletes, Ungates
  <2>2. V!DesiredHash \in Hashes
    <3>1. cfr.spec \in SpecType
      BY SpecsAssumption DEF CacheOK
    <3>2. V!CurrentHash \in Hashes
      BY <3>1, HashAssumption DEF V!CurrentHash, SpecType
    <3> QED
      BY <3>2, HashAssumption DEF CacheOK, V!RollbackNow, V!DesiredHash
  <2>3. /\ spec' \in Specs /\ generation' \in Nat /\ ds' \in Hashes \union {None}
        /\ node' \in [Nodes -> {"absent", "notReady", "ready"}]
        /\ faults' \in 0 .. MaxFaults /\ crashes' \in 0 .. MaxCrashes
    BY <2>1, <2>2 DEF Calls, TypeOK, resource, cluster
  <2>4. StatusStep
    BY <1>1, LPassStatus
  <2>5. /\ phase' \in Phases /\ observedGeneration' \in Nat
        /\ plan' \in PlanType \union {NoPlan} /\ lastGood' \in Hashes \union {None}
        /\ rollback' \in Hashes \union {None}
    <3>1. CASE UNCHANGED status
      BY <3>1 DEF status, TypeOK
    <3>2. CASE observedGeneration' = generation /\ Keeps
      BY <3>2, HashesType DEF Keeps, TypeOK, Phases
    <3>3. CASE observedGeneration' = generation /\ Decides
      <4>1. PICK p : /\ Works(p)
                     /\ \E k \in 0 .. TotalWaves(p) :
                          (\E obs : Holds(p, k, obs)) \/ Passes(p, k)
        BY <3>3 DEF Decides
      <4>2. PlanStep(p, plan')
        BY <4>1, DecidedPlan
      <4>3. p.hash \in Hashes
        BY <4>1 DEF Works, PlanType
      <4> QED
        BY <3>3, <4>1, <4>2, <4>3 DEF PlanStep, Holds, Passes, TypeOK, Phases
    <3> QED
      BY <2>4, <3>1, <3>2, <3>3 DEF StatusStep
  <2> QED
    BY <1>1, <2>3, <2>5, LPassPods DEF TypeOK
<1>2. ASSUME Restart PROVE TypeOK'
  BY <1>2, BoundAssumption DEF Restart, TypeOK, resource, status, cluster
<1>3. TypeOK'
  BY <1>1, <1>2, TypeOKStep, LStepKinds DEF Next
<1>4. Stored \in [spec : Specs, generation : Nat, phase : Phases,
                  observedGeneration : Nat, plan : PlanType \union {NoPlan},
                  lastGood : Hashes \union {None}, rollback : Hashes \union {None}]
  BY DEF Stored, TypeOK
<1>5. CacheOK'
  <2>1. CASE cfr' = cfr
    BY <2>1 DEF CacheOK
  <2>2. CASE cfr' = Stored
    BY <1>4, <2>2 DEF CacheOK
  <2>3. CASE cfr' = [cfr EXCEPT !.plan = Aged(cfr.plan)]
    <3>1. Aged(cfr.plan) \in PlanType \union {NoPlan}
      BY AgedType DEF CacheOK
    <3> QED
      BY <2>3, <3>1 DEF CacheOK
  <2>4. cfr' = cfr \/ cfr' = Stored \/ cfr' = [cfr EXCEPT !.plan = Aged(cfr.plan)]
    <3>1. CASE LPass
      BY <3>1 DEF LPass, LNoTargets, LDeleteStaleGated, LRollBack, LGateHolds, LComplete,
                  LAdvance, Deletes, Ungates, Calls, caches
    <3>2. CASE ~LPass
      BY <3>2 DEF LNext, LEnv, LTick, InCluster, SyncResource, SyncDaemonSet, SyncNodes,
                  SyncPods, TimerFires, Resync, Restart, cvars, caches
    <3> QED
      BY <3>1, <3>2
  <2> QED
    BY <2>1, <2>2, <2>3, <2>4
<1> QED
  BY <1>3, <1>5

(* Behind caches every reachable state is well typed: conflicts keep stale  *)
(* passes from ungating or labelling a pod that is not the one they read.   *)
THEOREM CachedTypeCorrect == LSpec => [](TypeOK /\ CacheOK)
<1>1. LInit => TypeOK /\ CacheOK
  BY TypeOKInit DEF LInit, Stored, CacheOK, TypeOK
<1> QED
  BY <1>1, LTypeStep, PTL DEF LSpec

-----------------------------------------------------------------------------
(* What survives stale reads.                                              *)

(* What is neither a pass nor the environment leaves the status alone.      *)
LEMMA RestartKeepsStatus ==
    ASSUME Restart \/ UNCHANGED vars
    PROVE  UNCHANGED <<resource, status>>
BY DEF Restart, vars

(* Behind caches the status still implements Lifecycle: a pass that reads   *)
(* an old plan, latch or rollback and decides from it cannot save what it   *)
(* decided, so a generation is planned once, marks never fall and a         *)
(* rollback is never written over.                                          *)
THEOREM CachedRefinesLifecycle == LSpec => StatusKeepsPromise
<1>1. TypeOK /\ [LNext]_cvars => [L!Next]_(L!lvars)
  <2> SUFFICES ASSUME TypeOK, [LNext]_cvars PROVE [L!Next]_(L!lvars)
    OBVIOUS
  <2>1. CASE Restart
    BY <2>1, RestartKeepsStatus
       DEF resource, status, wantSeen, planSeen, CurrentHash, L!lvars
  <2> QED
    BY <2>1, LStepKinds, LPassStatus, StatusRefines, OthersRefine
<1>2. LInit => L!Init
  BY InitRefines DEF LInit
<1> QED
  BY <1>1, <1>2, CachedTypeCorrect, PTL DEF LSpec, StatusKeepsPromise, L!Spec

(* Every step behind caches keeps LastGoodEarned.                           *)
LEMMA LEarnedStep == TypeOK /\ LastGoodEarned /\ [LNext]_cvars => LastGoodEarned'
<1> DEFINE Latch(p) == p.gatedWaves > 0 => "healthy" \in GateObs[p.hash]
<1> DEFINE Good(h)  == h # None => "healthy" \in GateObs[h]
<1> SUFFICES ASSUME TypeOK, [LNext]_cvars, Latch(plan), Good(lastGood),
                    \A s \in Specs : s.healthGate
             PROVE  Latch(plan') /\ Good(lastGood')
  BY DEF LastGoodEarned
<1>1. CASE LPass
  <2>1. CASE UNCHANGED status \/ Keeps
    BY <2>1 DEF status, Keeps
  <2>2. CASE Decides
    <3>1. PICK p : /\ Works(p)
                   /\ \E k \in 0 .. TotalWaves(p) :
                        (\E obs : Holds(p, k, obs)) \/ Passes(p, k)
      BY <2>2 DEF Decides
    <3>2. PICK k \in 0 .. TotalWaves(p) : (\E obs : Holds(p, k, obs)) \/ Passes(p, k)
      BY <3>1
    <3>3. /\ p \in PlanType /\ k \in Nat /\ TotalWaves(p) \in Nat /\ TotalWaves(p) >= 1
          /\ spec.healthGate
      BY <3>1, DecidedPlan, TotalWavesPositive DEF TypeOK
    <3>4. Latch(p)
      BY <3>1 DEF Works
    <3>5. PlanStep(p, plan')
      BY <3>1, <3>2, DecidedPlan
    <3>6. Latch(plan')
      <4>1. p.gatedWaves \in Nat /\ plan'.gatedWaves \in Nat
        BY <3>3, <3>5 DEF PlanType, PlanStep
      <4> QED
        BY <3>4, <3>5, <4>1 DEF PlanStep
    <3>7. CASE lastGood' = lastGood
      BY <3>6, <3>7
    <3>8. CASE lastGood' # lastGood
      <4>1. Passes(p, k) /\ lastGood' = p.hash /\ k = TotalWaves(p)
        BY <3>2, <3>8 DEF Holds, Passes
      <4>2. GateOpen(p, k) \/ "healthy" \in GateObs[p.hash]
        BY <3>1, <4>1, DecidedPlan
      <4>3. GateOpen(p, k) => p.gatedWaves > 0
        BY <3>3, <4>1 DEF GateOpen, PlanType
      <4> QED
        BY <3>4, <3>6, <4>1, <4>2, <4>3
    <3> QED
      BY <3>7, <3>8
  <2> QED
    BY <1>1, <2>1, <2>2, LPassStatus DEF StatusStep
<1>2. CASE Restart \/ UNCHANGED vars
  BY <1>2, RestartKeepsStatus DEF status
<1>3. CASE Env
  BY <1>3, EnvKeepsStatus
<1> QED
  BY <1>1, <1>2, <1>3, LStepKinds

(* With gates everywhere, a template no gate calls healthy never becomes    *)
(* last-good and is never latched, however far the caches lag: Done and the *)
(* latch are saved only over the plan that was read.                        *)
THEOREM CachedLastGoodIsEarned == LSpec => []LastGoodEarned
<1>1. LInit => LastGoodEarned
  BY EarnedInit DEF LInit
<1> QED
  BY <1>1, LEarnedStep, CachedTypeCorrect, PTL DEF LSpec

(* Every step behind caches keeps NoDataNeverEscalates.                     *)
LEMMA LNoDataStep ==
    TypeOK /\ NoDataNeverEscalates /\ [LNext]_cvars => NoDataNeverEscalates'
<1> SUFFICES ASSUME TypeOK, [LNext]_cvars, phase # "Paused", rollback = None,
                    \A h \in Hashes :
                      GateObs[h] \subseteq {"healthy", "unreachable", "configError"}
             PROVE  phase' # "Paused" /\ rollback' = None
  BY DEF NoDataNeverEscalates
<1>1. CASE LPass
  <2>1. CASE UNCHANGED status \/ Keeps
    BY <2>1 DEF status, Keeps, RollbackNow
  <2>2. CASE Decides
    <3>1. PICK p : /\ Works(p)
                   /\ \E k \in 0 .. TotalWaves(p) :
                        (\E obs : Holds(p, k, obs)) \/ Passes(p, k)
      BY <2>2 DEF Decides
    <3>2. p.hash \in Hashes
      BY <3>1 DEF Works, PlanType
    <3>3. ASSUME NEW k, NEW obs, Holds(p, k, obs)
          PROVE  GateDecision(p, k, obs) \in {"gatePass", "gateWait"}
      <4>1. obs \in {"healthy", "unreachable", "configError"}
        BY <3>2, <3>3 DEF Holds
      <4> QED
        BY <4>1 DEF GateDecision, DecideGate
    <3>4. ASSUME NEW k, NEW obs, Holds(p, k, obs)
          PROVE  phase' # "Paused" /\ rollback' = None
      BY <3>3, <3>4 DEF Holds
    <3>5. ASSUME NEW k, Passes(p, k)
          PROVE  phase' # "Paused" /\ rollback' = None
      BY <3>5 DEF Passes
    <3> QED
      BY <3>1, <3>4, <3>5
  <2> QED
    BY <1>1, <2>1, <2>2, LPassStatus DEF StatusStep
<1>2. CASE Restart \/ UNCHANGED vars
  BY <1>2, RestartKeepsStatus DEF status
<1>3. CASE Env
  BY <1>3, EnvKeepsStatus
<1> QED
  BY <1>1, <1>2, <1>3, LStepKinds

(* An outage never pauses a rollout or rolls it back, whatever the pass     *)
(* that meets it has read.                                                  *)
THEOREM CachedNoDataIsSafe == LSpec => []NoDataNeverEscalates
<1>1. Init => NoDataNeverEscalates
  <2>1. FirstDeploy => phase = "" /\ rollback = None
    BY Zenon DEF FirstDeploy
  <2>2. "" # "Paused"
    BY Zenon
  <2> QED
    BY <2>1, <2>2 DEF Init, Upgrade, NoDataNeverEscalates
<1>2. LInit => NoDataNeverEscalates
  BY <1>1 DEF LInit
<1> QED
  BY <1>2, LNoDataStep, CachedTypeCorrect, PTL DEF LSpec

(* Every step behind caches keeps RollbackTarget.                           *)
LEMMA LRollbackTargetStep ==
    TypeOK /\ RollbackTarget /\ [LNext]_cvars => RollbackTarget'
<1> SUFFICES ASSUME TypeOK, RollbackTarget, [LNext]_cvars PROVE RollbackTarget'
  OBVIOUS
<1>1. CASE LPass
  <2>1. CASE UNCHANGED status \/ Keeps
    BY <2>1 DEF status, Keeps, RollbackNow, RollbackTarget
  <2>2. CASE Decides
    <3>1. PICK p : /\ Works(p)
                   /\ \E k \in 0 .. TotalWaves(p) :
                        (\E obs : Holds(p, k, obs)) \/ Passes(p, k)
      BY <2>2 DEF Decides
    <3>2. PICK k \in 0 .. TotalWaves(p) : (\E obs : Holds(p, k, obs)) \/ Passes(p, k)
      BY <3>1
    <3>3. ASSUME NEW obs, Holds(p, k, obs) PROVE RollbackTarget'
      <4>1. plan'.hash = p.hash
        BY <3>1, <3>3, DecidedPlan DEF PlanStep
      <4>2. GateDecision(p, k, obs) = "gateRollback" => lastGood \notin {None, p.hash}
        BY DEF GateDecision, DecideGate
      <4> QED
        BY <3>3, <4>1, <4>2 DEF Holds, RollbackTarget
    <3>4. ASSUME Passes(p, k) PROVE RollbackTarget'
      BY <3>4 DEF Passes, RollbackTarget
    <3> QED
      BY <3>2, <3>3, <3>4
  <2> QED
    BY <1>1, <2>1, <2>2, LPassStatus DEF StatusStep
<1>2. CASE Restart \/ UNCHANGED vars
  BY <1>2, RestartKeepsStatus DEF status, RollbackTarget
<1>3. CASE Env
  BY <1>3, EnvKeepsStatus DEF RollbackTarget
<1> QED
  BY <1>1, <1>2, <1>3, LStepKinds

(* A recorded rollback has somewhere to go also when the pass that recorded *)
(* it, and those that carry it out, read stale nodes and pods.              *)
THEOREM CachedRollbackHasTarget == LSpec => []RollbackTarget
<1>1. LInit => RollbackTarget
  BY RollbackTargetInit DEF LInit
<1> QED
  BY <1>1, LRollbackTargetStep, CachedTypeCorrect, PTL DEF LSpec

-----------------------------------------------------------------------------
(* A controller at rest has its DaemonSet right.                            *)

(* The cached resource agrees with the stored one in what the template of   *)
(* the DaemonSet depends on.                                                *)
Fresh == cfr.generation = generation /\ cfr.rollback = rollback /\ cfr.lastGood = lastGood

(* Why the DaemonSet follows: the cache is the DaemonSet unless an event is *)
(* on its way, the cached spec is the stored one unless an older generation *)
(* was read, and only a pass on a fresh resource, which sets the DaemonSet  *)
(* right, takes the last request from the queue.                            *)
DSInv ==
    /\ ~dsDirty => cds = ds
    /\ cfr.generation <= generation
    /\ cfr.generation = generation => cfr.spec = spec
    /\ Fresh /\ ~queued /\ ~dsDirty => ds = DesiredHash

(* A pass leaves an event behind or the template it has read to be right.   *)
LEMMA LPassDSInv ==
    ASSUME DSInv, LPass
    PROVE  DSInv'
<1>1. PICK ungated, U, D, s, wake : Calls(ungated, U, D, s, wake)
  BY DEF LPass, LNoTargets, LDeleteStaleGated, LRollBack, LGateHolds, LComplete,
         LAdvance, Deletes, Ungates
<1>2. /\ cfr' = cfr /\ cds' = cds /\ spec' = spec /\ generation' = generation
      /\ dsDirty' = (dsDirty \/ ds' # ds \/ (ds # None /\ DSCounts' # DSCounts))
  BY <1>1 DEF Calls, caches, resource, Watched
<1>3. ASSUME ~dsDirty' PROVE cds' = ds' /\ ds' = V!DesiredHash
  <2>1. ~dsDirty /\ ds' = ds /\ cds = ds
    BY <1>2, <1>3 DEF DSInv
  <2>2. ds' = IF DSMaySkip THEN ds ELSE V!DesiredHash
    BY <1>1, <2>1 DEF Calls, DSConflict
  <2> QED
    BY <1>2, <2>1, <2>2 DEF DSMaySkip
<1>4. Fresh' => V!DesiredHash = DesiredHash'
  BY <1>2 DEF DSInv, Fresh, V!DesiredHash, V!RollbackNow, V!CurrentHash,
              DesiredHash, RollbackNow, CurrentHash
<1> QED
  BY <1>2, <1>3, <1>4 DEF DSInv, Fresh

(* Every step behind caches keeps it.                                       *)
LEMMA DSInvStep == TypeOK /\ CacheOK /\ DSInv /\ [LNext]_cvars => DSInv'
<1> SUFFICES ASSUME TypeOK, CacheOK, DSInv, [LNext]_cvars PROVE DSInv'
  OBVIOUS
<1>1. generation \in Nat /\ cfr.generation \in Nat
  BY DEF TypeOK, CacheOK
<1>2. CASE SyncResource
  BY <1>1, <1>2 DEF SyncResource, Delivered, vars, resource, status, Stored, DSInv, Fresh
<1>3. CASE SyncDaemonSet
  BY <1>3 DEF SyncDaemonSet, Delivered, vars, resource, status, DSInv, Fresh
<1>4. CASE SyncNodes \/ TimerFires \/ Resync
  BY <1>4 DEF SyncNodes, TimerFires, Resync, Delivered, vars, resource, status, caches,
              DSInv, Fresh
<1>5. CASE SyncPods \/ UNCHANGED cvars
  BY <1>5 DEF SyncPods, cvars, vars, resource, status, caches, queue, DSInv, Fresh,
              DesiredHash, RollbackNow, CurrentHash
<1>6. CASE Restart
  BY <1>1, <1>6 DEF Restart, resource, status, Stored, DSInv, Fresh
<1>7. CASE LTick
  <2>1. /\ cfr'.generation = cfr.generation /\ cfr'.spec = cfr.spec
        /\ cfr'.rollback = cfr.rollback /\ cfr'.lastGood = cfr.lastGood
    BY <1>7 DEF LTick, CacheOK
  <2> QED
    BY <1>7, <2>1 DEF LTick, resource, queue, DSInv, Fresh, DesiredHash, RollbackNow,
                      CurrentHash
<1>8. CASE InCluster(EditSpec)
  <2>1. /\ generation' = generation + 1 /\ cfr' = cfr /\ cds' = cds /\ ds' = ds
        /\ ~dsDirty' => ~dsDirty
    BY <1>8 DEF InCluster, EditSpec, Watched, caches
  <2> QED
    BY <1>1, <2>1 DEF DSInv, Fresh
<1>9. CASE LEnv /\ ~LTick /\ ~InCluster(EditSpec)
  <2>1. /\ UNCHANGED <<spec, generation, rollback, lastGood, ds, cfr, cds, queued>>
        /\ ~dsDirty' => ~dsDirty
    BY <1>9 DEF LEnv, InCluster, Watched, caches, queue, resource, status, DSCreate,
       Schedule, PodBecomesReady, PodBecomesUnready, Evict, PodGone, SetPod, NodeDown,
       NodeLeaves, NodeUp, NodeJoins, SetNode
  <2> QED
    BY <2>1 DEF DSInv, Fresh, DesiredHash, RollbackNow, CurrentHash
<1> QED
  BY <1>2, <1>3, <1>4, <1>5, <1>6, <1>7, <1>8, <1>9, LPassDSInv DEF LNext, LEnv

(* Edits, rollback decisions and passes that read an old resource or an old *)
(* DaemonSet never leave the DaemonSet on another template than the stored  *)
(* resource asks for with nobody due to repair it.                          *)
THEOREM DaemonSetAlwaysFollows == LSpec => []DaemonSetFollows
<1>1. LInit => DSInv
  BY TypeOKInit DEF LInit, DSInv, Fresh, Stored, TypeOK
<1>2. DSInv => DaemonSetFollows
  BY DEF DSInv, Fresh, DaemonSetFollows, Stored
<1> QED
  BY <1>1, <1>2, DSInvStep, CachedTypeCorrect, PTL DEF LSpec
=============================================================================

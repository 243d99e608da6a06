------------------------- MODULE FleetRolloutProofs -------------------------
(***************************************************************************)
(* Theorems about FleetRollout, for every fleet, every set of templates    *)
(* and specs, every gate behaviour and every bound.                        *)
(***************************************************************************)
EXTENDS FleetRollout, WavePlanProofs

-----------------------------------------------------------------------------
(* Facts about the operators.                                              *)

(* A plan freezes a finite node list, so it has a number of waves, and at  *)
(* least one.                                                              *)
LEMMA TotalWavesPositive ==
    ASSUME NEW p \in PlanType
    PROVE  TotalWaves(p) \in Nat /\ TotalWaves(p) >= 1
<1>1. p.nodes \subseteq Nodes /\ p.nodes # {} /\ p.waveSize \in Nat /\ p.waveSize >= 1
  BY DEF PlanType
<1>2. IsFiniteSet(p.nodes)
  BY <1>1, NodesAssumption, FS_Subset
<1>3. Cardinality(p.nodes) \in Nat /\ Cardinality(p.nodes) # 0
  BY <1>1, <1>2, FS_CardinalityType, FS_EmptySet
<1> DEFINE c == Cardinality(p.nodes)  s == p.waveSize
<1>4. (c + s - 1) \div s \in Nat /\ (c + s - 1) \div s >= 1
  <2> HIDE DEF c, s
  <2>1. c \in Nat /\ c >= 1 /\ s \in Nat /\ s >= 1
    BY <1>1, <1>3 DEF c, s
  <2> QED BY <2>1
<1> QED BY <1>4 DEF TotalWaves

(* The current wave is a wave number of the plan, or TotalWaves.           *)
LEMMA CurWaveType ==
    ASSUME NEW p \in PlanType
    PROVE  CurWave(p) \in Nat
<1> DEFINE all == 0 .. TotalWaves(p) - 1
<1>1. IsFiniteSet(all)
  BY TotalWavesPositive, FS_Interval
<1>2. IsFiniteSet({w \in all : \A v \in 0 .. w : WaveFullyUpdated(p, v)})
  BY <1>1, FS_Subset
<1> QED BY <1>2, FS_CardinalityType DEF CurWave

(* With nothing pending, every wave is complete: the gate that guards Done *)
(* is the one of the last wave.                                            *)
LEMMA CurWaveComplete ==
    ASSUME NEW p \in PlanType, Pending(p) = {}
    PROVE  CurWave(p) = TotalWaves(p)
<1> DEFINE all == 0 .. TotalWaves(p) - 1
<1>1. TotalWaves(p) \in Nat /\ TotalWaves(p) >= 1
  BY TotalWavesPositive
<1>2. {w \in all : \A v \in 0 .. w : WaveFullyUpdated(p, v)} = all
  BY DEF WaveFullyUpdated
<1>3. Cardinality(all) = TotalWaves(p)
  <2>1. 0 <= TotalWaves(p) - 1 /\ TotalWaves(p) - 1 \in Int
    BY <1>1
  <2>2. Cardinality(all) = (TotalWaves(p) - 1) - 0 + 1
    BY <2>1, FS_Interval
  <2> QED BY <1>1, <2>2
<1> QED BY <1>2, <1>3 DEF CurWave

-----------------------------------------------------------------------------
(* Facts about what a pass reads and writes.                               *)

(* The hashes a pass computes (Reconcile, desiredHash) are hashes.         *)
LEMMA HashesType ==
    ASSUME TypeOK
    PROVE  /\ CurrentHash \in Hashes
           /\ DesiredHash \in Hashes
           /\ RollbackNow \in Hashes \union {None}
           /\ CurrentHash # None
<1>1. spec \in SpecType
  BY SpecsAssumption DEF TypeOK
<1>2. CurrentHash \in Hashes
  BY <1>1, HashAssumption DEF CurrentHash, SpecType
<1> QED BY <1>2, HashAssumption DEF TypeOK, RollbackNow, DesiredHash

(* The Ready nodes are finitely many, and counted.                         *)
LEMMA ReadyTargetsFinite ==
    /\ ReadyTargets \subseteq Nodes
    /\ IsFiniteSet(ReadyTargets)
    /\ Cardinality(ReadyTargets) \in Nat
    /\ ReadyTargets # {} => Cardinality(ReadyTargets) >= 1
<1>1. ReadyTargets \subseteq Nodes
  BY DEF ReadyTargets
<1>2. IsFiniteSet(ReadyTargets)
  BY <1>1, NodesAssumption, FS_Subset
<1>3. Cardinality(ReadyTargets) \in Nat
  BY <1>2, FS_CardinalityType
<1>4. ReadyTargets # {} => Cardinality(ReadyTargets) # 0
  BY <1>2, FS_EmptySet
<1> QED BY <1>1, <1>2, <1>3, <1>4

(* The plan a forward pass works with is a plan, for the current hash and  *)
(* generation.                                                             *)
LEMMA PlanNowType ==
    ASSUME TypeOK, ReadyTargets # {}
    PROVE  /\ PlanNow \in PlanType
           /\ PlanNow.hash = CurrentHash
           /\ PlanNow.gen = generation
<1>1. CurrentHash \in Hashes /\ CurrentHash # None
  BY HashesType
<1>2. CASE plan.hash = CurrentHash /\ plan.gen = generation
  <2>1. plan # NoPlan
    BY <1>1, <1>2 DEF NoPlan
  <2> QED BY <1>2, <2>1 DEF PlanNow, TypeOK
<1>3. CASE ~(plan.hash = CurrentHash /\ plan.gen = generation)
  <2>1. spec.waveSize \in [percent : BOOLEAN, val : Nat]
    BY SpecsAssumption DEF TypeOK, SpecType
  <2>2. ResolveWaveSize(spec.waveSize, Cardinality(ReadyTargets)) \in Nat \ {0}
    BY <2>1, ReadyTargetsFinite, ResolveWaveSizeRange
  <2>3. NewPlan \in PlanType
    BY <1>1, <2>2, ReadyTargetsFinite, BoundAssumption
       DEF NewPlan, PlanType, TypeOK, NoWave
  <2>4. NewPlan.hash = CurrentHash /\ NewPlan.gen = generation
    BY DEF NewPlan
  <2> QED BY <1>3, <2>3, <2>4 DEF PlanNow
<1> QED BY <1>2, <1>3

(* Deleting pods leaves well-formed pods.                                  *)
LEMMA DeletePodsType ==
    ASSUME TypeOK, NEW S
    PROVE  DeletePods(S) \in [Nodes -> PodType]
BY DEF TypeOK, DeletePods, PodType, NoPod, Terminating

(* ungate keeps the label, so ungating gated pods yields pods.             *)
LEMMA UngatePodsType ==
    ASSUME TypeOK, NEW S, \A x \in S \intersect Nodes : pod[x].st = "gated"
    PROVE  UngatePods(S) \in [Nodes -> PodType]
<1> SUFFICES ASSUME NEW x \in Nodes
             PROVE  (IF x \in S THEN [pod[x] EXCEPT !.st = "pending"] ELSE pod[x])
                      \in PodType
  BY DEF UngatePods
<1>1. pod[x] \in PodType
  BY DEF TypeOK
<1>2. CASE x \in S
  <2>1. pod[x].st = "gated"
    BY <1>2
  <2>2. pod[x] \in [st : {"gated", "pending", "bound", "ready"}, hash : Hashes]
    BY <1>1, <2>1 DEF PodType, NoPod, Terminating
  <2>3. [pod[x] EXCEPT !.st = "pending"] \in
          [st : {"gated", "pending", "bound", "ready"}, hash : Hashes]
    BY <2>2
  <2> QED BY <1>2, <2>3 DEF PodType
<1>3. CASE x \notin S
  BY <1>1, <1>3
<1> QED BY <1>2, <1>3

(* A rollback pass (reconcileRollback) leaves well-formed pods.            *)
LEMMA ApplyRollbackType ==
    ASSUME TypeOK, NEW U, NEW D, \A x \in U \intersect Nodes : pod[x].st = "gated"
    PROVE  ApplyRollback(U, D) \in [Nodes -> PodType]
BY DeletePodsType, UngatePodsType DEF ApplyRollback

(* What a pass may do to the plan p it works with: the identity, the node  *)
(* list and the wave size stay, the latch only rises, and it rises only on *)
(* a healthy answer.                                                       *)
PlanStep(p, q) ==
    /\ q \in PlanType
    /\ q.hash = p.hash /\ q.gen = p.gen
    /\ q.nodes = p.nodes /\ q.waveSize = p.waveSize
    /\ q.gatedWaves >= p.gatedWaves
    /\ q.gatedWaves > p.gatedWaves => "healthy" \in GateObs[p.hash]

(* Arming the gate's clock is such a step.                                 *)
LEMMA ArmedStep ==
    ASSUME NEW p \in PlanType, NEW k \in Nat, ~GateOpen(p, k)
    PROVE  PlanStep(p, Armed(p, k))
<1>1. k - 1 \in Nat
  BY DEF GateOpen
<1>0. 0 \in 0 .. Timeout
  BY BoundAssumption
<1>2. Armed(p, k) \in PlanType
  <2>1. CASE p.evaluatingWave = k - 1
    BY <2>1 DEF Armed
  <2>2. CASE p.evaluatingWave # k - 1
    <3>1. Armed(p, k) = [[p EXCEPT !.evaluatingWave = k - 1] EXCEPT !.age = 0]
      BY <2>2 DEF Armed
    <3>2. [p EXCEPT !.evaluatingWave = k - 1] \in PlanType
      BY <1>1 DEF PlanType
    <3> QED BY <1>0, <3>1, <3>2 DEF PlanType
  <2> QED BY <2>1, <2>2
<1> QED BY <1>2 DEF PlanStep, Armed, PlanType

(* So is getting past the gate; and then either the gate was open before   *)
(* or Prometheus has just called the template healthy.                     *)
LEMMA PastGateStep ==
    ASSUME NEW p \in PlanType, NEW k \in Nat, NEW q \in PastGate(p, k)
    PROVE  /\ PlanStep(p, q)
           /\ GateOpen(p, k) \/ "healthy" \in GateObs[p.hash]
           /\ k = 0 \/ ~spec.healthGate \/ q.gatedWaves >= k
<1>1. CASE GateOpen(p, k)
  <2>1. q = p
    BY <1>1 DEF PastGate
  <2> QED BY <1>1, <2>1 DEF PlanStep, PlanType, GateOpen
<1>2. CASE ~GateOpen(p, k)
  <2>1. PICK obs \in GateObs[p.hash] :
             GateDecision(p, k, obs) = "gatePass" /\ q = Latched(p, k)
    BY <1>2 DEF PastGate
  <2>2. obs = "healthy"
    BY <2>1 DEF GateDecision, DecideGate
  <2>3. q \in PlanType
    <3>1. 0 \in 0 .. Timeout
      BY BoundAssumption
    <3>2. [p EXCEPT !.gatedWaves = k] \in PlanType
      BY DEF PlanType
    <3>3. [[p EXCEPT !.gatedWaves = k] EXCEPT !.evaluatingWave = NoWave] \in PlanType
      BY <3>2 DEF PlanType
    <3>4. q = [[[p EXCEPT !.gatedWaves = k] EXCEPT !.evaluatingWave = NoWave]
                  EXCEPT !.age = 0]
      BY <2>1 DEF Latched
    <3> QED BY <3>1, <3>3, <3>4 DEF PlanType
  <2>4. k >= p.gatedWaves
    BY <1>2 DEF GateOpen, PlanType
  <2> QED BY <2>1, <2>2, <2>3, <2>4 DEF PlanStep, Latched, PlanType
<1> QED BY <1>1, <1>2

-----------------------------------------------------------------------------
(* Every step, seen from the plan.                                         *)

(* The forward path always works with a proper plan and wave number.       *)
LEMMA ForwardPlan ==
    ASSUME TypeOK, Forward
    PROVE  PlanNow \in PlanType /\ CurWave(PlanNow) \in Nat
BY PlanNowType, CurWaveType DEF Forward

(* A gate that holds (onGateHold) changes the clock of the plan only.      *)
LEMMA GateHoldsStep ==
    ASSUME TypeOK, NEW obs \in Answers,
           GateHolds(PlanNow, CurWave(PlanNow), obs)
    PROVE  PlanStep(PlanNow, plan')
<1>1. Forward /\ ~GateOpen(PlanNow, CurWave(PlanNow))
  BY DEF GateHolds
<1>2. PlanStep(PlanNow, Armed(PlanNow, CurWave(PlanNow)))
  BY <1>1, ForwardPlan, ArmedStep
<1> QED BY <1>2 DEF GateHolds

(* A pass leaves the plan alone or takes the forward path, past or short   *)
(* of the gate.                                                            *)
LEMMA PassPlan ==
    ASSUME TypeOK, Pass
    PROVE  plan' = plan \/ (Forward /\ PlanStep(PlanNow, plan'))
<1>1. CASE NoTargets \/ DeleteStaleGated \/ RollBack
  BY <1>1 DEF NoTargets, DeleteStaleGated, RollBack
<1>2. CASE GateWait \/ GatePause \/ GateRollback
  <2>1. PICK obs \in Answers : GateHolds(PlanNow, CurWave(PlanNow), obs)
    BY <1>2 DEF GateWait, GatePause, GateRollback
  <2> QED BY <2>1, GateHoldsStep DEF GateHolds
<1>3. CASE Complete \/ DeleteWave \/ UngateWave \/ AwaitWave
  <2>1. Forward /\ plan' \in PastGate(PlanNow, CurWave(PlanNow))
    BY <1>3 DEF Complete, DeleteWave, UngateWave, AwaitWave, Advance
  <2> QED BY <2>1, ForwardPlan, PastGateStep
<1> QED BY <1>1, <1>2, <1>3 DEF Pass

(* The pods a pass leaves behind are pods.                                 *)
LEMMA PassPods ==
    ASSUME TypeOK, Pass
    PROVE  pod' \in [Nodes -> PodType]
<1>1. CASE NoTargets
  BY <1>1 DEF NoTargets, TypeOK
<1>2. CASE DeleteStaleGated
  BY <1>2, DeletePodsType DEF DeleteStaleGated
<1>3. CASE RollBack
  BY <1>3, ApplyRollbackType DEF RollBack, RollbackUngates, PodGatedOn
<1>4. CASE GateWait \/ GatePause \/ GateRollback
  BY <1>4 DEF GateWait, GatePause, GateRollback, GateHolds, TypeOK
<1>5. CASE Complete
  BY <1>5, UngatePodsType DEF Complete, Adoptable, PodGatedOn
<1>6. CASE DeleteWave
  BY <1>6, DeletePodsType DEF DeleteWave, Advance
<1>7. CASE UngateWave
  BY <1>7, UngatePodsType DEF UngateWave, Advance, WaveUngate, PodGatedOn
<1>8. CASE AwaitWave
  BY <1>8 DEF AwaitWave, Advance, TypeOK
<1> QED BY <1>1, <1>2, <1>3, <1>4, <1>5, <1>6, <1>7, <1>8 DEF Pass

(* A pass that stops anywhere leaves well-formed pods.                     *)
LEMMA InterruptedPods ==
    ASSUME TypeOK, Interrupted
    PROVE  pod' \in [Nodes -> PodType]
<1> DEFINE p == PlanNow
<1>1. CASE pod' = pod
  BY <1>1 DEF TypeOK
<1>2. ASSUME NEW S, pod' = DeletePods(S)
      PROVE  pod' \in [Nodes -> PodType]
  BY <1>2, DeletePodsType
<1>3. ASSUME NEW U \in SUBSET RollbackUngates, NEW D, pod' = ApplyRollback(U, D)
      PROVE  pod' \in [Nodes -> PodType]
  BY <1>3, ApplyRollbackType DEF RollbackUngates, PodGatedOn
<1>4. ASSUME NEW S \in SUBSET Adoptable(p), pod' = UngatePods(S)
      PROVE  pod' \in [Nodes -> PodType]
  BY <1>4, UngatePodsType DEF Adoptable, PodGatedOn
<1>5. ASSUME NEW S \in SUBSET WaveUngate(p), pod' = UngatePods(S)
      PROVE  pod' \in [Nodes -> PodType]
  BY <1>5, UngatePodsType DEF WaveUngate, PodGatedOn
<1> HIDE DEF p
<1>6. \/ pod' = pod
      \/ \E S : pod' = DeletePods(S)
      \/ \E U \in SUBSET RollbackUngates : \E D : pod' = ApplyRollback(U, D)
      \/ \E S \in SUBSET Adoptable(p) : pod' = UngatePods(S)
      \/ \E S \in SUBSET WaveUngate(p) : pod' = UngatePods(S)
  BY DEF Interrupted, Prefixes, p
<1> QED BY <1>1, <1>2, <1>3, <1>4, <1>5, <1>6

-----------------------------------------------------------------------------
(* Type correctness.                                                       *)

(* The completed plan an upgrade starts from is a proper plan.             *)
LEMMA UpgradePlanType ==
    ASSUME Upgrade
    PROVE  plan \in PlanType
<1>1. Cardinality(Nodes) \in Nat
  BY NodesAssumption, FS_CardinalityType
<1>2. lastGood \in Hashes /\ Nodes # {}
  BY DEF Upgrade
<1>3. plan = [hash |-> lastGood, gen |-> 1, waveSize |-> 1, nodes |-> Nodes,
              gatedWaves |-> Cardinality(Nodes), evaluatingWave |-> NoWave,
              age |-> 0]
  BY DEF Upgrade, NoPlan
<1> QED BY <1>1, <1>2, <1>3, BoundAssumption DEF PlanType

(* The initial states are well typed.                                      *)
LEMMA TypeOKInit == Init => TypeOK
<1>1. ASSUME FirstDeploy PROVE TypeOK
  <2>1. phase \in Phases
    BY <1>1, Zenon DEF FirstDeploy, Phases
  <2>2. NoPod \in PodType
    BY DEF PodType
  <2>3. pod \in [Nodes -> PodType]
    BY <1>1, <2>2 DEF FirstDeploy
  <2>4. /\ spec \in Specs /\ generation = 1 /\ observedGeneration = 0
        /\ plan = NoPlan /\ lastGood = None /\ rollback = None /\ ds = None
        /\ node \in [Nodes -> {"absent", "notReady", "ready"}]
        /\ faults = 0 /\ crashes = 0
    BY <1>1, Zenon DEF FirstDeploy
  <2> QED BY <2>1, <2>3, <2>4, BoundAssumption DEF TypeOK
<1>2. ASSUME Upgrade PROVE TypeOK
  BY <1>2, UpgradePlanType, BoundAssumption DEF Upgrade, TypeOK, Phases, PodType
<1> QED BY <1>1, <1>2 DEF Init

(* A pass that saves its status keeps the types.                           *)
LEMMA TypeOKPass ==
    ASSUME TypeOK, Pass
    PROVE  TypeOK'
<1>1. plan' \in PlanType \union {NoPlan}
  BY PassPlan DEF PlanStep, TypeOK
<1>2. pod' \in [Nodes -> PodType]
  BY PassPods
<1>3. Ensure
  BY DEF Pass, NoTargets, DeleteStaleGated, RollBack, GateWait, GatePause,
         GateRollback, GateHolds, Complete, DeleteWave, UngateWave, AwaitWave, Advance
<1>4. /\ spec' \in Specs /\ generation' \in Nat /\ observedGeneration' \in Nat
      /\ ds' \in Hashes \union {None}
      /\ node' \in [Nodes -> {"absent", "notReady", "ready"}]
      /\ faults' \in 0 .. MaxFaults /\ crashes' \in 0 .. MaxCrashes
  BY <1>3, HashesType DEF Ensure, TypeOK, resource, cluster
<1>5. phase' \in Phases /\ lastGood' \in Hashes \union {None}
                        /\ rollback' \in Hashes \union {None}
  <2>1. CASE NoTargets \/ DeleteStaleGated \/ RollBack
    BY <2>1, HashesType DEF NoTargets, DeleteStaleGated, RollBack, TypeOK, Phases
  <2>2. CASE GateWait \/ GatePause \/ GateRollback
    <3>1. Forward /\ lastGood' = lastGood
      BY <2>2 DEF GateWait, GatePause, GateRollback, GateHolds
    <3>2. PlanNow.hash \in Hashes
      BY <3>1, ForwardPlan DEF PlanType
    <3> QED BY <2>2, <3>1, <3>2 DEF GateWait, GatePause, GateRollback, TypeOK, Phases
  <2>3. CASE Complete \/ DeleteWave \/ UngateWave \/ AwaitWave
    <3>1. Forward
      BY <2>3 DEF Complete, DeleteWave, UngateWave, AwaitWave, Advance
    <3>2. PlanNow.hash \in Hashes
      BY <3>1, ForwardPlan DEF PlanType
    <3> QED BY <2>3, <3>2
            DEF Complete, DeleteWave, UngateWave, AwaitWave, Advance, TypeOK, Phases
  <2> QED BY <2>1, <2>2, <2>3 DEF Pass
<1> QED BY <1>1, <1>2, <1>4, <1>5 DEF TypeOK

(* A pass that does not save its status keeps the types.                   *)
LEMMA TypeOKInterrupted ==
    ASSUME TypeOK, Interrupted
    PROVE  TypeOK'
<1>1. pod' \in [Nodes -> PodType]
  BY InterruptedPods
<1>2. ds' \in Hashes \union {None}
  BY HashesType DEF Interrupted
<1>3. crashes' \in 0 .. MaxCrashes
  BY BoundAssumption DEF Interrupted, TypeOK
<1> QED BY <1>1, <1>2, <1>3 DEF Interrupted, TypeOK, resource, status, cluster

(* A step of the environment changes one thing, and changes it within type. *)
LEMMA TypeOKEnv ==
    ASSUME TypeOK, Env
    PROVE  TypeOK'
<1>1. CASE EditSpec
  BY <1>1 DEF EditSpec, TypeOK, status, cluster
<1>2. CASE Tick
  <2>1. plan \in PlanType
    BY <1>2 DEF Tick, TypeOK, NoPlan
  <2>2. plan.age + 1 \in 0 .. Timeout
    BY <1>2, <2>1, BoundAssumption DEF Tick, PlanType
  <2>3. plan' \in PlanType
    BY <1>2, <2>1, <2>2 DEF Tick, PlanType
  <2> QED BY <1>2, <2>3 DEF Tick, TypeOK, resource, cluster
<1>3. ASSUME NEW x \in Nodes, DSCreate(x) PROVE TypeOK'
  <2>1. [st |-> "gated", hash |-> ds] \in PodType
    BY <1>3 DEF DSCreate, TypeOK, PodType
  <2> QED BY <1>3, <2>1 DEF DSCreate, SetPod, TypeOK, resource, status
<1>4. ASSUME NEW x \in Nodes, pod[x].st \in {"pending", "bound", "ready"},
             NEW st \in {"bound", "ready"}
      PROVE  [pod[x] EXCEPT !.st = st] \in PodType
  <2>1. pod[x] \in [st : {"gated", "pending", "bound", "ready"}, hash : Hashes]
    BY <1>4 DEF TypeOK, PodType, NoPod, Terminating
  <2>2. [pod[x] EXCEPT !.st = st]
          \in [st : {"gated", "pending", "bound", "ready"}, hash : Hashes]
    BY <2>1
  <2> QED BY <2>2 DEF PodType
<1>5. ASSUME NEW x \in Nodes, Schedule(x) \/ PodBecomesReady(x) PROVE TypeOK'
  <2>1. PICK st \in {"bound", "ready"} :
             /\ pod[x].st \in {"pending", "bound", "ready"}
             /\ SetPod(x, [pod[x] EXCEPT !.st = st]) /\ UNCHANGED faults
    BY <1>5 DEF Schedule, PodBecomesReady
  <2>2. [pod[x] EXCEPT !.st = st] \in PodType
    BY <1>4, <2>1
  <2> QED BY <2>1, <2>2 DEF SetPod, TypeOK, resource, status
<1>6. ASSUME NEW x \in Nodes, PodBecomesUnready(x) PROVE TypeOK'
  <2>1. [pod[x] EXCEPT !.st = "bound"] \in PodType
    BY <1>4, <1>6 DEF PodBecomesUnready
  <2>2. faults' \in 0 .. MaxFaults
    BY <1>6, BoundAssumption DEF PodBecomesUnready, TypeOK
  <2> QED BY <1>6, <2>1, <2>2 DEF PodBecomesUnready, SetPod, TypeOK, resource, status
<1>7. ASSUME NEW x \in Nodes, Evict(x) \/ PodGone(x) PROVE TypeOK'
  <2>1. faults' \in 0 .. MaxFaults
    BY <1>7, BoundAssumption DEF Evict, PodGone, TypeOK
  <2>2. NoPod \in PodType /\ Terminating \in PodType
    BY DEF PodType
  <2> QED BY <1>7, <2>1, <2>2 DEF Evict, PodGone, SetPod, TypeOK, resource, status
<1>8. ASSUME NEW x \in Nodes,
             NodeDown(x) \/ NodeLeaves(x) \/ NodeUp(x) \/ NodeJoins(x)
      PROVE  TypeOK'
  <2>1. faults' \in 0 .. MaxFaults
    BY <1>8, BoundAssumption DEF NodeDown, NodeLeaves, NodeUp, NodeJoins, TypeOK
  <2>2. /\ node' \in [Nodes -> {"absent", "notReady", "ready"}]
        /\ UNCHANGED <<resource, status, ds, pod, crashes>>
    BY <1>8 DEF NodeDown, NodeLeaves, NodeUp, NodeJoins, SetNode, TypeOK
  <2> QED BY <2>1, <2>2 DEF TypeOK, resource, status
<1> QED BY <1>1, <1>2, <1>3, <1>5, <1>6, <1>7, <1>8 DEF Env

(* Every step keeps the types.                                             *)
LEMMA TypeOKStep == TypeOK /\ [Next]_vars => TypeOK'
<1>1. ASSUME TypeOK, UNCHANGED vars PROVE TypeOK'
  BY <1>1 DEF TypeOK, vars, resource, status, cluster
<1> QED BY <1>1, TypeOKPass, TypeOKInterrupted, TypeOKEnv DEF Next

(* Every reachable state is well typed: in particular status.plan is nil or *)
(* a non-empty node list with a positive wave size, and a pod never carries  *)
(* a label no template has.                                                  *)
THEOREM TypeCorrect == Spec => []TypeOK
<1> QED BY TypeOKInit, TypeOKStep, PTL DEF Spec

-----------------------------------------------------------------------------
(* The plan snapshot is immutable.                                         *)

(* A step that keeps (templateHash, generation) keeps the plan.            *)
LEMMA PlanFrozenStep ==
    ASSUME TypeOK, [Next]_vars, plan'.hash = plan.hash, plan'.gen = plan.gen
    PROVE  /\ plan'.nodes = plan.nodes
           /\ plan'.waveSize = plan.waveSize
           /\ plan'.gatedWaves >= plan.gatedWaves
<1>0. plan.gatedWaves \in Nat
  BY DEF TypeOK, PlanType, NoPlan
<1>1. CASE Pass
  <2>1. CASE plan' = plan
    BY <1>0, <2>1
  <2>2. CASE Forward /\ PlanStep(PlanNow, plan')
    <3>1. PlanNow.hash = CurrentHash /\ PlanNow.gen = generation
      BY <2>2, PlanNowType DEF Forward
    <3>2. PlanNow = plan
      BY <2>2, <3>1 DEF PlanStep, PlanNow
    <3> QED BY <2>2, <3>2 DEF PlanStep
  <2> QED BY <1>1, <2>1, <2>2, PassPlan
<1>2. CASE Tick
  <2>1. plan' = [plan EXCEPT !.age = plan.age + 1]
    BY <1>2 DEF Tick
  <2>2. plan \in PlanType \union {NoPlan}
    BY DEF TypeOK
  <2> QED BY <1>0, <2>1, <2>2 DEF PlanType, NoPlan
<1>3. CASE Interrupted \/ UNCHANGED vars
  BY <1>0, <1>3 DEF Interrupted, vars, status
<1>4. CASE Env /\ ~Tick
  <2>1. plan' = plan
    BY <1>4 DEF Env, EditSpec, DSCreate, Schedule, PodBecomesReady, PodBecomesUnready,
       Evict, PodGone, SetPod, NodeDown, NodeLeaves, NodeUp, NodeJoins, SetNode, status
  <2> QED BY <1>0, <2>1
<1> QED BY <1>1, <1>2, <1>3, <1>4 DEF Next

(* A plan keeps its node list, its wave size and its latch for as long as   *)
(* its (templateHash, generation) is current, whatever the fleet does.      *)
THEOREM PlanIsFrozen == Spec => PlanFrozen
<1>1. TypeOK /\ [Next]_vars =>
        [plan'.hash = plan.hash /\ plan'.gen = plan.gen =>
           /\ plan'.nodes = plan.nodes
           /\ plan'.waveSize = plan.waveSize
           /\ plan'.gatedWaves >= plan.gatedWaves]_vars
  BY PlanFrozenStep
<1> QED BY <1>1, TypeCorrect, PTL DEF Spec, PlanFrozen

-----------------------------------------------------------------------------
(* Rollback has a target.                                                  *)

(* The environment writes no status but the passing of time.               *)
LEMMA EnvKeepsStatus ==
    ASSUME TypeOK, Env
    PROVE  /\ UNCHANGED <<phase, lastGood, rollback>>
           /\ plan'.hash = plan.hash /\ plan'.gatedWaves = plan.gatedWaves
<1>1. CASE Tick
  <2>1. plan \in PlanType \union {NoPlan}
    BY DEF TypeOK
  <2> QED BY <1>1, <2>1 DEF Tick, PlanType, NoPlan
<1>2. CASE ~Tick
  BY <1>2 DEF Env, EditSpec, DSCreate, Schedule, PodBecomesReady, PodBecomesUnready,
       Evict, PodGone, SetPod, NodeDown, NodeLeaves, NodeUp, NodeJoins, SetNode, status
<1> QED BY <1>1, <1>2

(* Every step keeps RollbackTarget: gate checks it, edits abandon it.      *)
LEMMA RollbackTargetStep == TypeOK /\ RollbackTarget /\ [Next]_vars => RollbackTarget'
<1> SUFFICES ASSUME TypeOK, RollbackTarget, [Next]_vars PROVE RollbackTarget'
  OBVIOUS
<1>1. CASE NoTargets \/ DeleteStaleGated \/ RollBack
  BY <1>1 DEF NoTargets, DeleteStaleGated, RollBack, RollbackNow, RollbackTarget
<1>2. CASE GateRollback
  <2> DEFINE p == PlanNow  k == CurWave(p)
  <2>1. PICK obs \in Answers : /\ GateHolds(p, k, obs)
                               /\ GateDecision(p, k, obs) = "gateRollback"
                               /\ rollback' = p.hash
    BY <1>2 DEF GateRollback
  <2>2. lastGood' = lastGood /\ plan'.hash = p.hash
    BY <2>1, GateHoldsStep DEF GateHolds, PlanStep
  <2>3. lastGood \notin {None, p.hash}
    <3> HIDE DEF p, k
    <3> QED BY <2>1 DEF GateDecision, DecideGate
  <2> QED BY <2>1, <2>2, <2>3 DEF RollbackTarget
<1>3. CASE GateWait \/ GatePause \/ Complete \/ DeleteWave \/ UngateWave \/ AwaitWave
  BY <1>3 DEF GateWait, GatePause, Complete, DeleteWave, UngateWave, AwaitWave,
              Advance, RollbackTarget
<1>4. CASE Interrupted \/ UNCHANGED vars
  BY <1>4 DEF Interrupted, vars, status, RollbackTarget
<1>5. CASE Env
  BY <1>5, EnvKeepsStatus DEF RollbackTarget
<1> QED BY <1>1, <1>2, <1>3, <1>4, <1>5 DEF Next, Pass

(* No rollback is recorded initially.                                      *)
LEMMA RollbackTargetInit == Init => RollbackTarget
BY DEF Init, FirstDeploy, Upgrade, RollbackTarget

(* A rollback always has a last-good template other than the failed one to  *)
(* go to, and the plan it belongs to.                                        *)
THEOREM RollbackHasTarget == Spec => []RollbackTarget
<1> QED BY RollbackTargetInit, RollbackTargetStep, TypeCorrect, PTL DEF Spec

-----------------------------------------------------------------------------
(* What becomes last-good has passed a gate.                               *)

(* Every step keeps LastGoodEarned: Done and the latch need a passed gate. *)
LEMMA EarnedStep == TypeOK /\ LastGoodEarned /\ [Next]_vars => LastGoodEarned'
<1> DEFINE Latch(p) == p.gatedWaves > 0 => "healthy" \in GateObs[p.hash]
<1> DEFINE Good(h)  == h # None => "healthy" \in GateObs[h]
<1> SUFFICES ASSUME TypeOK, [Next]_vars, Latch(plan), Good(lastGood),
                    \A s \in Specs : s.healthGate
             PROVE  Latch(plan') /\ Good(lastGood')
  BY DEF LastGoodEarned
<1>1. ASSUME Forward PROVE Latch(PlanNow)
  BY <1>1 DEF PlanNow, NewPlan
<1>2. ASSUME Pass PROVE Latch(plan')
  <2>1. CASE plan' = plan
    BY <2>1
  <2>2. CASE Forward /\ PlanStep(PlanNow, plan')
    <3>1. PlanNow.gatedWaves \in Nat /\ plan'.gatedWaves \in Nat
      BY <2>2, ForwardPlan DEF PlanType, PlanStep
    <3> QED BY <1>1, <2>2, <3>1 DEF PlanStep
  <2> QED BY <1>2, <2>1, <2>2, PassPlan
<1>3. ASSUME Complete PROVE Good(lastGood')
  <2> DEFINE p == PlanNow  k == CurWave(p)
  <2>1. Forward /\ Pending(p) = {} /\ plan' \in PastGate(p, k) /\ lastGood' = p.hash
    BY <1>3 DEF Complete
  <2>2. p \in PlanType /\ k \in Nat
    BY <2>1, ForwardPlan
  <2>3. k >= 1
    BY <2>1, <2>2, CurWaveComplete, TotalWavesPositive
  <2>4. GateOpen(p, k) \/ "healthy" \in GateObs[p.hash]
    BY <2>1, <2>2, PastGateStep
  <2>5. GateOpen(p, k) => p.gatedWaves > 0
    <3>1. spec.healthGate
      BY DEF TypeOK
    <3>2. p.gatedWaves \in Nat
      BY <2>2 DEF PlanType
    <3> HIDE DEF p, k
    <3> QED BY <2>2, <2>3, <3>1, <3>2 DEF GateOpen
  <2> QED BY <1>1, <2>1, <2>4, <2>5
<1>4. ASSUME Pass, ~Complete PROVE lastGood' = lastGood
  BY <1>4 DEF Pass, NoTargets, DeleteStaleGated, RollBack, GateWait, GatePause,
       GateRollback, GateHolds, DeleteWave, UngateWave, AwaitWave, Advance
<1>5. CASE Pass
  BY <1>2, <1>3, <1>4, <1>5
<1>6. CASE Interrupted \/ UNCHANGED vars
  BY <1>6 DEF Interrupted, vars, status
<1>7. CASE Env
  BY <1>7, EnvKeepsStatus
<1> QED BY <1>5, <1>6, <1>7 DEF Next

(* The last-good template an upgrade starts from has passed its gate.      *)
LEMMA EarnedInit == Init => LastGoodEarned
<1>1. ASSUME FirstDeploy PROVE LastGoodEarned
  <2>1. lastGood = None /\ plan = NoPlan
    BY <1>1, Zenon DEF FirstDeploy
  <2> QED BY <2>1 DEF LastGoodEarned, NoPlan
<1>2. ASSUME Upgrade PROVE LastGoodEarned
  <2>1. "healthy" \in GateObs[lastGood]
    BY <1>2 DEF Upgrade
  <2>2. plan.hash = lastGood
    BY <1>2 DEF Upgrade, NoPlan
  <2> QED BY <2>1, <2>2 DEF LastGoodEarned
<1> QED BY <1>1, <1>2 DEF Init

(* If every spec has a health gate, whatever becomes status.lastGood has     *)
(* been called healthy by its gate, through any faults, edits and crashes.   *)
THEOREM LastGoodIsEarned == Spec => []LastGoodEarned
<1> QED BY EarnedInit, EarnedStep, TypeCorrect, PTL DEF Spec

-----------------------------------------------------------------------------
(* Missing data never escalates.                                           *)

(* Every step keeps NoDataNeverEscalates: decideGate waits without data.   *)
LEMMA NoDataStep ==
    TypeOK /\ NoDataNeverEscalates /\ [Next]_vars => NoDataNeverEscalates'
<1> SUFFICES ASSUME TypeOK, [Next]_vars, phase # "Paused", rollback = None,
                    \A h \in Hashes :
                      GateObs[h] \subseteq {"healthy", "unreachable", "configError"}
             PROVE  phase' # "Paused" /\ rollback' = None
  BY DEF NoDataNeverEscalates
<1>1. CASE NoTargets \/ DeleteStaleGated \/ RollBack
  BY <1>1 DEF NoTargets, DeleteStaleGated, RollBack, RollbackNow
<1>2. CASE GateWait
  BY <1>2 DEF GateWait
<1>3. CASE GatePause \/ GateRollback
  <2> DEFINE p == PlanNow  k == CurWave(p)
  <2>1. PICK obs \in Answers :
             /\ GateHolds(p, k, obs)
             /\ GateDecision(p, k, obs) \in {"gatePauseTimeout", "gateRollback"}
    BY <1>3 DEF GatePause, GateRollback
  <2>2. p.hash \in Hashes
    BY <2>1, ForwardPlan DEF GateHolds, PlanType
  <2>3. obs \in {"healthy", "unreachable", "configError"}
    BY <2>1, <2>2 DEF GateHolds
  <2>4. GateDecision(p, k, obs) \in {"gatePass", "gateWait"}
    <3> HIDE DEF p, k
    <3> QED BY <2>3 DEF GateDecision, DecideGate
  <2> QED BY <2>1, <2>4
<1>4. CASE Complete \/ DeleteWave \/ UngateWave \/ AwaitWave
  BY <1>4 DEF Complete, DeleteWave, UngateWave, AwaitWave, Advance
<1>5. CASE Interrupted \/ UNCHANGED vars
  BY <1>5 DEF Interrupted, vars, status
<1>6. CASE Env
  BY <1>6, EnvKeepsStatus
<1> QED BY <1>1, <1>2, <1>3, <1>4, <1>5, <1>6 DEF Next, Pass

(* A monitoring outage or a gate misconfiguration, however long, never      *)
(* pauses the rollout or rolls it back.                                      *)
THEOREM NoDataIsSafe == Spec => []NoDataNeverEscalates
<1>1. Init => NoDataNeverEscalates
  <2>1. FirstDeploy => phase = "" /\ rollback = None
    BY Zenon DEF FirstDeploy
  <2>2. "" # "Paused"
    BY Zenon
  <2> QED BY <2>1, <2>2 DEF Init, Upgrade, NoDataNeverEscalates
<1> QED BY <1>1, NoDataStep, TypeCorrect, PTL DEF Spec

-----------------------------------------------------------------------------
(* A failed template is not released while its rollback stands.            *)

(* While the rollback stands, a pass that rolls back wants another hash     *)
(* than the failed one, and so does a forward pass: it has found that the   *)
(* spec has moved on.                                                       *)
LEMMA NotTheFailedHash ==
    ASSUME TypeOK, RollbackTarget, rollback # None
    PROVE  DesiredHash # rollback
BY HashesType DEF RollbackTarget, DesiredHash, RollbackNow

(* Ungating pods of one hash releases no pod of another.                    *)
LEMMA UngateOther ==
    ASSUME TypeOK, NEW S, NEW h, NEW b, h # b,
           \A y \in S \intersect Nodes : PodGatedOn(y, h),
           NEW x \in Nodes, PodGatedOn(x, b)
    PROVE  UngatePods(S)[x] # [st |-> "pending", hash |-> b]
<1>1. x \notin S
  BY DEF PodGatedOn
<1> QED BY <1>1 DEF UngatePods, PodGatedOn

(* Deleting pods releases none of them.                                    *)
LEMMA DeleteReleasesNothing ==
    ASSUME TypeOK, NEW S, NEW b, NEW x \in Nodes, PodGatedOn(x, b)
    PROVE  DeletePods(S)[x] # [st |-> "pending", hash |-> b]
BY DEF DeletePods, PodGatedOn, NoPod, Terminating

(* Only the controller removes the scheduling gate.                         *)
LEMMA EnvReleasesNothing ==
    ASSUME TypeOK, Env, NEW b, NEW x \in Nodes, PodGatedOn(x, b)
    PROVE  pod'[x] # [st |-> "pending", hash |-> b]
<1>1. pod[x].st = "gated" /\ pod \in [Nodes -> PodType]
  BY DEF PodGatedOn, TypeOK
<1>2. CASE pod' = pod
  BY <1>1, <1>2
<1>3. ASSUME NEW y \in Nodes, NEW q, pod' = [pod EXCEPT ![y] = q], q.st # "pending"
      PROVE  pod'[x] # [st |-> "pending", hash |-> b]
  BY <1>1, <1>3
<1>4. ASSUME NEW y \in Nodes, NEW st \in {"bound", "ready"},
             pod[y].st # "gated", pod' = [pod EXCEPT ![y] = [pod[y] EXCEPT !.st = st]]
      PROVE  pod'[x] # [st |-> "pending", hash |-> b]
  BY <1>1, <1>4
<1>5. \/ pod' = pod
      \/ \E y \in Nodes : \E q \in {NoPod, Terminating, [st |-> "gated", hash |-> ds]} :
           pod' = [pod EXCEPT ![y] = q]
      \/ \E y \in Nodes : \E st \in {"bound", "ready"} :
           pod[y].st # "gated" /\ pod' = [pod EXCEPT ![y] = [pod[y] EXCEPT !.st = st]]
  BY DEF Env, EditSpec, Tick, DSCreate, Schedule, PodBecomesReady,
     PodBecomesUnready, Evict, PodGone, SetPod, NodeDown, NodeLeaves, NodeUp,
     NodeJoins, SetNode
<1> QED BY <1>2, <1>3, <1>4, <1>5 DEF NoPod, Terminating

(* A rollback pass releases pods of last-good only.                        *)
LEMMA RollbackReleasesOther ==
    ASSUME TypeOK, RollbackTarget, rollback # None,
           NEW U \in SUBSET RollbackUngates, NEW D,
           NEW x \in Nodes, PodGatedOn(x, rollback)
    PROVE  ApplyRollback(U, D)[x] # [st |-> "pending", hash |-> rollback]
<1>1. UngatePods(U)[x] # [st |-> "pending", hash |-> rollback]
  BY NotTheFailedHash, UngateOther DEF RollbackUngates
<1>2. DeletePods(D)[x] # [st |-> "pending", hash |-> rollback]
  BY DeleteReleasesNothing
<1> QED BY <1>1, <1>2 DEF ApplyRollback

(* No step releases a pod of the template being rolled back.               *)
LEMMA FailedStaysGatedStep ==
    ASSUME TypeOK, RollbackTarget, [Next]_vars, rollback # None, rollback' # None,
           NEW x \in Nodes, PodGatedOn(x, rollback)
    PROVE  pod'[x] # [st |-> "pending", hash |-> rollback]
<1>0. pod[x] # [st |-> "pending", hash |-> rollback]
  BY DEF PodGatedOn
<1>1. CASE NoTargets \/ GateRollback \/ UNCHANGED vars
  BY <1>0, <1>1 DEF NoTargets, GateRollback, GateHolds, vars
<1>2. CASE DeleteStaleGated
  BY <1>2, DeleteReleasesNothing DEF DeleteStaleGated
<1>3. CASE RollBack
  BY <1>3, RollbackReleasesOther DEF RollBack
<1>4. CASE GateWait \/ GatePause \/ Complete \/ DeleteWave \/ UngateWave \/ AwaitWave
  BY <1>4 DEF GateWait, GatePause, Complete, DeleteWave, UngateWave, AwaitWave, Advance
<1>5. CASE Interrupted
  <2> DEFINE p == PlanNow
  <2>1. ASSUME NEW S, pod' = DeletePods(S)
        PROVE  pod'[x] # [st |-> "pending", hash |-> rollback]
    BY <2>1, DeleteReleasesNothing
  <2>2. ASSUME NEW U \in SUBSET RollbackUngates, NEW D, pod' = ApplyRollback(U, D)
        PROVE  pod'[x] # [st |-> "pending", hash |-> rollback]
    BY <2>2, RollbackReleasesOther
  <2>3. ASSUME Forward, NEW S \in SUBSET (Adoptable(p) \union WaveUngate(p)),
               pod' = UngatePods(S)
        PROVE  pod'[x] # [st |-> "pending", hash |-> rollback]
    <3>1. p.hash = CurrentHash
      BY <2>3, PlanNowType DEF Forward
    <3>2. CurrentHash # rollback
      BY <2>3, NotTheFailedHash DEF Forward, DesiredHash
    <3> HIDE DEF p
    <3>3. \A y \in S \intersect Nodes : PodGatedOn(y, p.hash)
      BY <2>3 DEF Adoptable, WaveUngate
    <3> QED BY <2>3, <3>1, <3>2, <3>3, UngateOther
  <2> HIDE DEF p
  <2>4. \/ pod' = pod
        \/ \E S : pod' = DeletePods(S)
        \/ \E U \in SUBSET RollbackUngates : \E D : pod' = ApplyRollback(U, D)
        \/ Forward /\ \E S \in SUBSET (Adoptable(p) \union WaveUngate(p)) :
                        pod' = UngatePods(S)
    BY <1>5 DEF Interrupted, Prefixes, p
  <2> QED BY <1>0, <2>1, <2>2, <2>3, <2>4
<1>6. CASE Env
  BY <1>6, EnvReleasesNothing
<1> QED BY <1>1, <1>2, <1>3, <1>4, <1>5, <1>6 DEF Next, Pass

(* While a rollback stands, no pass, complete or interrupted, ungates a pod  *)
(* of the template that failed.                                              *)
THEOREM FailedTemplateStaysGated == Spec => FailedStaysGated
<1>1. TypeOK /\ RollbackTarget /\ [Next]_vars =>
        [rollback # None /\ rollback' # None =>
           \A x \in Nodes : PodGatedOn(x, rollback) =>
             pod'[x] # [st |-> "pending", hash |-> rollback]]_vars
  BY FailedStaysGatedStep
<1> QED BY <1>1, TypeCorrect, RollbackHasTarget, PTL DEF Spec, FailedStaysGated
=============================================================================

------------------------ MODULE RolloutHistoryProofs ------------------------
(***************************************************************************)
(* The central promise, proved: without interrupted passes, releases never *)
(* run ahead of the health gate.                                           *)
(***************************************************************************)
EXTENDS RolloutHistory, FleetRolloutProofs

(* A plan is never newer than the spec.                                    *)
PlanNotNewer == plan.gen <= generation

(* The nodes a step releases on the hash of the plan it leaves.            *)
NewlyReleased ==
    {x \in Nodes : /\ PodGatedOn(x, plan'.hash)
                   /\ pod'[x] = [st |-> "pending", hash |-> plan'.hash]}

(* What WaveBounded says about one set of nodes under one plan.            *)
Within(p, S) ==
    \A x \in S : IF x \in p.nodes THEN WaveOf(p, x) <= p.gatedWaves
                                  ELSE p.gatedWaves >= TotalWaves(p)

(* Every step keeps PlanNotNewer: a new plan takes the current generation. *)
LEMMA PlanNotNewerStep == TypeOK /\ PlanNotNewer /\ [Next]_vars => PlanNotNewer'
<1> SUFFICES ASSUME TypeOK, PlanNotNewer, [Next]_vars PROVE PlanNotNewer'
  OBVIOUS
<1>0. plan.gen \in Nat /\ generation \in Nat
  BY DEF TypeOK, PlanType, NoPlan
<1>1. CASE Pass
  <2>1. generation' = generation
    BY <1>1 DEF Pass, NoTargets, DeleteStaleGated, RollBack, GateWait, GatePause,
       GateRollback, GateHolds, Complete, DeleteWave, UngateWave, AwaitWave, Advance,
       Ensure, resource
  <2>2. CASE plan' = plan
    BY <2>1, <2>2 DEF PlanNotNewer
  <2>3. CASE Forward /\ PlanStep(PlanNow, plan')
    <3>1. plan'.gen = generation
      BY <2>3, PlanNowType DEF Forward, PlanStep
    <3> QED BY <1>0, <2>1, <3>1 DEF PlanNotNewer
  <2> QED BY <1>1, <2>2, <2>3, PassPlan
<1>2. CASE EditSpec
  BY <1>0, <1>2 DEF EditSpec, status, PlanNotNewer
<1>3. CASE Tick
  <2>1. plan \in PlanType \union {NoPlan}
    BY DEF TypeOK
  <2> QED BY <1>3, <2>1 DEF Tick, resource, PlanNotNewer, PlanType, NoPlan
<1>4. CASE Interrupted \/ UNCHANGED vars
  BY <1>4 DEF Interrupted, vars, status, resource, PlanNotNewer
<1>5. CASE Env /\ ~Tick /\ ~EditSpec
  BY <1>5 DEF Env, DSCreate, Schedule, PodBecomesReady, PodBecomesUnready, Evict,
     PodGone, SetPod, NodeDown, NodeLeaves, NodeUp, NodeJoins, SetNode, status,
     resource, PlanNotNewer
<1> QED BY <1>1, <1>2, <1>3, <1>4, <1>5 DEF Next

-----------------------------------------------------------------------------
(* What a step releases.                                                   *)

(* Ungating a set of pods (ungate) releases no others.                     *)
LEMMA UngateReleases ==
    ASSUME NEW S, pod' = UngatePods(S)
    PROVE  NewlyReleased \subseteq S
BY DEF NewlyReleased, UngatePods, PodGatedOn

(* A forward pass releases nodes of the wave its gate has opened, or, past  *)
(* the last gate, nodes that are not planned.                               *)
LEMMA ForwardReleases ==
    ASSUME TypeOK, spec.healthGate, Complete \/ UngateWave
    PROVE  Within(plan', NewlyReleased)
<1> DEFINE p == PlanNow  k == CurWave(p)
<1>1. Forward /\ plan' \in PastGate(p, k)
  BY DEF Complete, UngateWave, Advance
<1>2. p \in PlanType /\ k \in Nat
  BY <1>1, ForwardPlan
<1>3. PlanStep(p, plan') /\ (k = 0 \/ plan'.gatedWaves >= k)
  BY <1>1, <1>2, PastGateStep
<1>4. /\ plan'.nodes = p.nodes /\ plan'.waveSize = p.waveSize
      /\ plan'.gatedWaves \in Nat
  BY <1>3 DEF PlanStep, PlanType
<1>5. CASE Complete
  <2>1. Pending(p) = {} /\ pod' = UngatePods(Adoptable(p))
    BY <1>5 DEF Complete
  <2>2. NewlyReleased \subseteq Adoptable(p)
    BY <2>1, UngateReleases
  <2>3. \A x \in Adoptable(p) : x \notin p.nodes
    BY <2>1 DEF Adoptable, Pending, PodGatedOn, Updated
  <2>4. k = TotalWaves(p) /\ TotalWaves(p) \in Nat /\ TotalWaves(p) >= 1
    BY <1>2, <2>1, CurWaveComplete, TotalWavesPositive
  <2>5. plan'.gatedWaves >= TotalWaves(plan')
    BY <1>3, <1>4, <2>4 DEF TotalWaves
  <2> QED BY <1>4, <2>2, <2>3, <2>5 DEF Within
<1>6. CASE UngateWave
  <2>1. pod' = UngatePods(WaveUngate(p))
    BY <1>6 DEF UngateWave, Advance
  <2>2. \A x \in NewlyReleased : x \in p.nodes /\ WaveOf(p, x) = k
    BY <2>1, UngateReleases DEF WaveUngate, WaveNodes
  <2>3. \A x : WaveOf(plan', x) = WaveOf(p, x)
    BY <1>4 DEF WaveOf
  <2>4. k <= plan'.gatedWaves
    BY <1>2, <1>3, <1>4
  <2> QED BY <1>4, <2>2, <2>3, <2>4 DEF Within
<1> QED BY <1>5, <1>6

(* No other step releases a pod of the plan: a rollback releases last-good, *)
(* which is not the planned hash, and the cluster never ungates.            *)
LEMMA OthersReleaseNothing ==
    ASSUME TypeOK, RollbackTarget, Pass \/ Env, ~Complete, ~UngateWave
    PROVE  NewlyReleased = {}
<1> SUFFICES ASSUME NEW x \in Nodes, PodGatedOn(x, plan'.hash)
             PROVE  pod'[x] # [st |-> "pending", hash |-> plan'.hash]
  BY DEF NewlyReleased
<1>1. CASE NoTargets \/ GateWait \/ GatePause \/ GateRollback \/ AwaitWave
  <2>1. pod' = pod
    BY <1>1 DEF NoTargets, GateWait, GatePause, GateRollback, GateHolds, AwaitWave, Advance
  <2> QED BY <2>1 DEF PodGatedOn
<1>2. CASE DeleteStaleGated \/ DeleteWave
  <2>1. PICK S : pod' = DeletePods(S)
    BY <1>2 DEF DeleteStaleGated, DeleteWave, Advance
  <2> QED BY <2>1, DeleteReleasesNothing
<1>3. CASE RollBack
  <2>1. rollback # None /\ plan' = plan /\ plan.hash = rollback
    BY <1>3 DEF RollBack, RollsBack, RollbackNow, RollbackTarget
  <2>2. pod' = ApplyRollback(RollbackUngates, RollbackDeletes)
    BY <1>3 DEF RollBack
  <2> QED BY <2>1, <2>2, RollbackReleasesOther
<1>4. CASE Env
  BY <1>4, EnvReleasesNothing
<1> QED BY <1>1, <1>2, <1>3, <1>4 DEF Pass

(* Wave counts and wave numbers are integers.                              *)
LEMMA WaveNumbers ==
    ASSUME NEW p, p.nodes \subseteq Nodes, p.waveSize \in Nat \ {0}, NEW x
    PROVE  TotalWaves(p) \in Int /\ WaveOf(p, x) \in Int
<1>1. IsFiniteSet(p.nodes) /\ IsFiniteSet({y \in p.nodes : y < x})
  BY NodesAssumption, FS_Subset
<1>2. Cardinality(p.nodes) \in Nat /\ Cardinality({y \in p.nodes : y < x}) \in Nat
  BY <1>1, FS_CardinalityType
<1> QED BY <1>2 DEF TotalWaves, WaveOf, Rank

(* What was within the waves of a plan stays so while the plan is current.  *)
LEMMA WithinKept ==
    ASSUME TypeOK, [Next]_vars, SamePlan, Within(plan, released), released \subseteq Nodes
    PROVE  Within(plan', released)
<1>1. /\ plan'.nodes = plan.nodes /\ plan'.waveSize = plan.waveSize
      /\ plan'.gatedWaves >= plan.gatedWaves
  BY PlanFrozenStep DEF SamePlan
<1>2. /\ plan.nodes \subseteq Nodes /\ plan.waveSize \in Nat \ {0}
      /\ plan.gatedWaves \in Nat
  BY DEF TypeOK, PlanType, NoPlan
<1>3. plan'.gatedWaves \in Nat
  <2>1. TypeOK'
    BY TypeOKStep
  <2> QED BY <2>1 DEF TypeOK, PlanType, NoPlan
<1>4. \A x : /\ WaveOf(plan', x) = WaveOf(plan, x) /\ WaveOf(plan, x) \in Int
             /\ TotalWaves(plan') = TotalWaves(plan) /\ TotalWaves(plan) \in Int
  BY <1>1, <1>2, WaveNumbers DEF WaveOf, TotalWaves
<1> QED BY <1>1, <1>2, <1>3, <1>4 DEF Within

(* Every step keeps WaveBounded; an interrupted pass ends what it promises. *)
LEMMA WaveBoundedStep ==
    ASSUME TypeOK, RollbackTarget, PlanNotNewer,
           released \subseteq Nodes, WaveBounded, [HNext]_hvars
    PROVE  WaveBounded' /\ released' \subseteq Nodes
<1>1. CASE UNCHANGED hvars
  <2>1. /\ spec' = spec /\ plan' = plan /\ generation' = generation
        /\ released' = released
    BY <1>1 DEF hvars, vars, resource, status
  <2>2. crashes' = crashes
    BY <1>1 DEF hvars, vars
  <2> QED BY <2>1, <2>2 DEF WaveBounded, TotalWaves, WaveOf, Rank
<1>2. CASE HNext
  <2>1. /\ Next
        /\ released' = Kept(released) \union NewlyReleased
    BY <1>2 DEF HNext, Record, NewlyReleased
  <2>2. released' \subseteq Nodes
    BY <2>1 DEF Kept, NewlyReleased
  <2>3. ASSUME crashes' = 0 PROVE (Pass \/ Env) /\ crashes = 0
    <3>1. ~Interrupted
      BY <2>3 DEF Interrupted, TypeOK
    <3>2. Pass => crashes' = crashes
      BY DEF Pass, NoTargets, DeleteStaleGated, RollBack, GateWait, GatePause,
         GateRollback, GateHolds, Complete, DeleteWave, UngateWave, AwaitWave,
         Advance, Ensure
    <3>3. Env => crashes' = crashes
      BY DEF Env, EditSpec, Tick, DSCreate, Schedule, PodBecomesReady,
         PodBecomesUnready, Evict, PodGone, SetPod, NodeDown, NodeLeaves, NodeUp,
         NodeJoins, SetNode
    <3> QED BY <2>1, <2>3, <3>1, <3>2, <3>3 DEF Next
  <2>4. ASSUME spec'.healthGate, plan'.gen = generation', crashes' = 0
        PROVE  Within(plan', released')
    <3>1. spec' = spec /\ generation' = generation
      <4>1. ~EditSpec
        BY <2>4 DEF EditSpec, status, PlanNotNewer, TypeOK
      <4>2. CASE Pass
        BY <4>2 DEF Pass, NoTargets, DeleteStaleGated, RollBack, GateWait, GatePause,
           GateRollback, GateHolds, Complete, DeleteWave, UngateWave, AwaitWave,
           Advance, Ensure, resource
      <4>3. CASE Env
        BY <4>1, <4>3 DEF Env, Tick, DSCreate, Schedule, PodBecomesReady,
           PodBecomesUnready, Evict, PodGone, SetPod, NodeDown, NodeLeaves, NodeUp,
           NodeJoins, SetNode, resource
      <4> QED BY <2>3, <2>4, <4>2, <4>3
    <3>2. Within(plan', Kept(released))
      <4>1. CASE SamePlan
        <5>1. Within(plan, released)
          BY <2>3, <2>4, <3>1, <4>1 DEF SamePlan, WaveBounded, Within
        <5> QED BY <2>1, <4>1, <5>1, WithinKept DEF Kept
      <4>2. CASE ~SamePlan
        BY <4>2 DEF Kept, Within
      <4> QED BY <4>1, <4>2
    <3>3. Within(plan', NewlyReleased)
      <4>1. CASE Complete \/ UngateWave
        BY <2>4, <3>1, <4>1, ForwardReleases
      <4>2. CASE ~(Complete \/ UngateWave)
        BY <2>3, <2>4, <4>2, OthersReleaseNothing DEF Within
      <4> QED BY <4>1, <4>2
    <3> QED BY <2>1, <3>2, <3>3 DEF Within
  <2>5. WaveBounded'
    BY <2>4 DEF WaveBounded, Within, TotalWaves, WaveOf, Rank
  <2> QED BY <2>2, <2>5
<1> QED BY <1>1, <1>2

(* For every fleet, wave size, sequence of edits and pattern of node and    *)
(* pod failures: as long as every pass persists its status, no pod is       *)
(* released ahead of the health gate.                                        *)
THEOREM ReleasesFollowTheGate == HSpec => []WaveBounded
<1> DEFINE Inv == PlanNotNewer /\ released \subseteq Nodes /\ WaveBounded
<1>1. Init /\ HInit => Inv
  <2>1. FirstDeploy => plan = NoPlan /\ generation = 1
    BY Zenon DEF FirstDeploy
  <2>2. Upgrade => plan.gen = 1 /\ generation = 2
    BY DEF Upgrade, NoPlan
  <2>3. Init => PlanNotNewer
    BY <2>1, <2>2 DEF Init, PlanNotNewer, NoPlan
  <2> QED BY <2>3 DEF HInit, WaveBounded
<1>2. TypeOK /\ RollbackTarget /\ Inv /\ [HNext]_hvars => Inv'
  <2> SUFFICES ASSUME TypeOK, RollbackTarget, Inv, [HNext]_hvars PROVE Inv'
    OBVIOUS
  <2>1. [Next]_vars
    BY DEF HNext, hvars
  <2> QED BY <2>1, PlanNotNewerStep, WaveBoundedStep
<1>3. HSpec => Spec
  <2>1. [HNext]_hvars => [Next]_vars
    BY DEF HNext, hvars
  <2> QED BY <2>1, PTL DEF HSpec, Spec
<1>4. HSpec => [](TypeOK /\ RollbackTarget)
  BY <1>3, TypeCorrect, RollbackHasTarget, PTL
<1>5. HSpec => []Inv
  BY <1>1, <1>2, <1>4, PTL DEF HSpec
<1>6. Inv => WaveBounded
  OBVIOUS
<1> QED BY <1>5, <1>6, PTL
=============================================================================

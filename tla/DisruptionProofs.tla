-------------------------- MODULE DisruptionProofs --------------------------
(***************************************************************************)
(* One wave at a time: during an upgrade without failures and edits, the   *)
(* planned nodes that have lost their old pod and do not run the new one   *)
(* yet are all of one wave, for every fleet, every waveSize and every      *)
(* behaviour of the gate.  Passes may crash if no node is late; nodes may  *)
(* be late if no pass crashes.  With both it fails: the plan is saved after *)
(* the pods of its first wave are deleted, so a crash in that pass and a   *)
(* node that turns Ready lead to other waves.                              *)
(***************************************************************************)
EXTENDS FleetRolloutProofs

UpgradeSpec == Upgrade /\ [][Next]_vars

\* The same, of a fleet whose nodes are all Ready.
ReadyUpgradeSpec == Upgrade /\ ReadyTargets = Nodes /\ [][Next]_vars

\* No failures, no edit since the upgrade began, no rollback.
Calm == MaxFaults = 0 /\ generation = 2 /\ rollback = None

\* Every node still runs the old template.
AllOld == \A x \in Nodes : node[x] # "absent" /\ x \in StaleBound(CurrentHash)

\* Wave w divides the plan: the waves before it run the new template, the
\* waves after it the old one.
Divides(p, w) ==
    \A x \in p.nodes : /\ WaveOf(p, x) < w => Updated(x, p.hash)
                       /\ WaveOf(p, x) > w => x \in StaleBound(p.hash)

Frontier(p) ==
    /\ p.nodes \subseteq ReadyTargets
    /\ \E w \in 0 .. TotalWaves(p) - 1 : Divides(p, w)

\* The inductive invariant while no pass crashes: the plan of the upgrade has
\* not been frozen and nothing has been touched, or some wave divides it.
DisruptInv ==
    Calm /\ crashes = 0 =>
      \/ plan.gen = 1 /\ AllOld
      \/ plan.gen = 2 /\ plan.hash = CurrentHash /\ Frontier(plan)

\* The inductive invariant while no node is late: the plan the next pass works
\* with, saved or not, is divided by one of its waves.
ReadyInv ==
    Calm => /\ ReadyTargets = Nodes /\ Nodes # {} /\ Frontier(PlanNow)
            /\ plan.gen = 2 => plan.hash = CurrentHash

-----------------------------------------------------------------------------
(* A plan of the state machine is a plan for the lemmas about waves.        *)
LEMMA PlanIsPlan ==
    ASSUME NEW p \in PlanType
    PROVE  /\ IsPlan(p)
           /\ \A x \in p.nodes : WaveOf(p, x) \in 0 .. TotalWaves(p) - 1
<1>1. IsPlan(p)
  <2>1. p.nodes \subseteq Nodes /\ p.nodes # {} /\ p.waveSize \in Nat /\ p.waveSize >= 1
    BY DEF PlanType
  <2>2. IsFiniteSet(p.nodes)
    BY <2>1, NodesAssumption, FS_Subset
  <2>3. p.nodes \subseteq Nat
    BY <2>1, NodesAssumption
  <2> QED
    BY <2>1, <2>2, <2>3, Zenon DEF IsPlan
<1> QED
  BY <1>1, WaveIsSlice

(* CurWave counts the leading waves that are fully updated; it is a wave of *)
(* the plan while some node is pending.                                     *)
LEMMA CurWaveLeads ==
    ASSUME NEW p \in PlanType
    PROVE  /\ CurWave(p) \in 0 .. TotalWaves(p)
           /\ \A v \in 0 .. CurWave(p) - 1 : WaveFullyUpdated(p, v)
           /\ \A w \in 0 .. TotalWaves(p) :
                (\A v \in 0 .. w - 1 : WaveFullyUpdated(p, v)) => w <= CurWave(p)
           /\ Pending(p) # {} => CurWave(p) \in 0 .. TotalWaves(p) - 1
<1> DEFINE T == TotalWaves(p)
           F == {v \in 0 .. T : WaveFullyUpdated(p, v)}
           D == Leading(T, F)
<1>1. T \in Nat
  BY TotalWavesPositive
<1>2. CurWave(p) = Cardinality(D)
  <2>1. \A w \in 0 .. T - 1 : 0 .. w \subseteq 0 .. T
    BY <1>1
  <2>2. D = {w \in 0 .. T - 1 : \A v \in 0 .. w : WaveFullyUpdated(p, v)}
    <3> HIDE DEF T
    <3> QED
      BY <2>1 DEF Leading
  <2> QED
    BY <2>2 DEF CurWave
<1>3. /\ CurWave(p) \in 0 .. T
      /\ \A v \in 0 .. CurWave(p) - 1 : v \in F
      /\ \A w \in 0 .. T : (\A v \in 0 .. w - 1 : v \in F) => w <= CurWave(p)
  <2> HIDE DEF T, F
  <2>1. /\ Cardinality(D) \in 0 .. T
        /\ \A v \in 0 .. Cardinality(D) - 1 : v \in F
        /\ \A w \in 0 .. T : (\A v \in 0 .. w - 1 : v \in F) => w <= Cardinality(D)
    BY <1>1, LeadingWaves
  <2> QED
    BY <1>2, <2>1
<1>4. \A w \in 0 .. T : \A v \in 0 .. w - 1 : v \in 0 .. T
  BY <1>1
<1>5. ASSUME NEW x \in Pending(p) PROVE CurWave(p) # T
  <2>1. x \in p.nodes
    BY DEF Pending
  <2>2. WaveOf(p, x) \in 0 .. T - 1 /\ x \in WaveNodes(p, WaveOf(p, x))
    BY <2>1, PlanIsPlan DEF WaveNodes
  <2>3. ~WaveFullyUpdated(p, WaveOf(p, x))
    BY <2>2 DEF WaveFullyUpdated
  <2> QED
    BY <1>3, <2>2, <2>3
<1>6. Pending(p) # {} => CurWave(p) \in 0 .. T - 1
  BY <1>1, <1>3, <1>5
<1> QED
  BY <1>3, <1>4, <1>6

(* The plan an undisturbed pass works with is divided by its current wave,  *)
(* and the pass of Reconcile that acts leaves the other waves alone.        *)
LEMMA CurWaveDivides ==
    ASSUME NEW p \in PlanType, Frontier(p), Pending(p) # {}
    PROVE  CurWave(p) \in 0 .. TotalWaves(p) - 1 /\ Divides(p, CurWave(p))
<1> DEFINE k == CurWave(p)
<1>1. k \in 0 .. TotalWaves(p) - 1 /\ TotalWaves(p) \in Nat
  BY CurWaveLeads, TotalWavesPositive
<1>2. PICK w \in 0 .. TotalWaves(p) - 1 : Divides(p, w)
  BY DEF Frontier
<1>3. \A x \in p.nodes : WaveOf(p, x) \in 0 .. TotalWaves(p) - 1
  BY PlanIsPlan
<1>4. w <= k
  <2>1. ASSUME NEW v \in 0 .. w - 1 PROVE WaveFullyUpdated(p, v)
    <3>1. \A x \in WaveNodes(p, v) : x \in p.nodes /\ WaveOf(p, x) < w
      BY <1>1, <1>2 DEF WaveNodes
    <3> QED
      BY <3>1, <1>2 DEF Divides, WaveFullyUpdated, Pending
  <2>2. w \in 0 .. TotalWaves(p)
    BY <1>1, <1>2
  <2> QED
    BY <2>1, <2>2, CurWaveLeads
<1>5. ASSUME NEW x \in p.nodes, WaveOf(p, x) < k PROVE Updated(x, p.hash)
  <2>1. WaveOf(p, x) \in 0 .. k - 1
    BY <1>1, <1>3, <1>5
  <2>2. WaveFullyUpdated(p, WaveOf(p, x))
    BY <2>1, CurWaveLeads
  <2> QED
    BY <2>2 DEF WaveFullyUpdated, WaveNodes, Pending, Frontier
<1>6. ASSUME NEW x \in p.nodes, WaveOf(p, x) > k PROVE x \in StaleBound(p.hash)
  <2>1. WaveOf(p, x) > w
    BY <1>1, <1>2, <1>3, <1>4, <1>6
  <2> QED
    BY <2>1, <1>2 DEF Divides
<1> QED
  BY <1>1, <1>5, <1>6 DEF Divides

-----------------------------------------------------------------------------
(* What a step may do to the pods.                                          *)

(* A step that takes no Ready node away, no new pod from a Ready node and   *)
(* no old pod from any node.                                                *)
Undisturbed(h) ==
    \A x \in Nodes : node[x] # "absent" =>
        /\ node'[x] # "absent"
        /\ x \in StaleBound(h) => x \in StaleBound(h)'
        /\ node[x] = "ready" => /\ node'[x] = "ready"
                                /\ Updated(x, h) => Updated(x, h)'

(* Without failures the cluster only brings pods and nodes up, and takes    *)
(* pods down on nodes that were never in a plan.                            *)
LEMMA EnvUndisturbed ==
    ASSUME TypeOK, MaxFaults = 0, Env, NEW CONSTANT h
    PROVE  Undisturbed(h)
<1>1. faults = 0 /\ ~(faults < MaxFaults)
  BY DEF TypeOK
<1>2. CASE node' = node /\ pod' = pod
  BY <1>2 DEF Undisturbed, StaleBound, Updated
<1>3. ASSUME NEW y \in Nodes, NEW q, node' = node, pod' = [pod EXCEPT ![y] = q],
             pod[y].st \in {"bound", "ready"} => q.hash = pod[y].hash,
             pod[y].st \in {"bound", "ready"} => q.st \in {"bound", "ready"},
             node[y] = "ready" => pod[y].st # "ready"
      PROVE  Undisturbed(h)
  <2>1. pod \in [Nodes -> PodType]
    BY DEF TypeOK
  <2> QED
    BY <1>3, <2>1 DEF Undisturbed, StaleBound, Updated
<1>4. ASSUME NEW y \in Nodes, NEW q, node' = node, pod' = [pod EXCEPT ![y] = q],
             node[y] = "absent"
      PROVE  Undisturbed(h)
  <2>1. pod \in [Nodes -> PodType]
    BY DEF TypeOK
  <2> QED
    BY <1>4, <2>1 DEF Undisturbed, StaleBound, Updated
<1>5. ASSUME NEW y \in Nodes, NEW q, node' = [node EXCEPT ![y] = q], pod' = pod,
             q # "absent", node[y] # "ready"
      PROVE  Undisturbed(h)
  <2>1. node \in [Nodes -> {"absent", "notReady", "ready"}]
    BY DEF TypeOK
  <2> QED
    BY <1>5, <2>1 DEF Undisturbed, StaleBound, Updated
<1>6. CASE EditSpec \/ Tick
  BY <1>2, <1>6 DEF EditSpec, Tick, cluster
<1>7. ASSUME NEW y \in Nodes, DSCreate(y) PROVE Undisturbed(h)
  <2>1. pod[y].st \notin {"bound", "ready"}
    BY <1>7 DEF DSCreate, NoPod
  <2>2. PICK q : pod' = [pod EXCEPT ![y] = q] /\ node' = node
    BY <1>7 DEF DSCreate, SetPod
  <2> QED
    BY <1>3, <2>1, <2>2
<1>8. ASSUME NEW y \in Nodes, Schedule(y) \/ PodBecomesReady(y) \/ PodBecomesUnready(y)
      PROVE  Undisturbed(h)
  <2>1. PICK st \in {"bound", "ready"} :
             /\ pod[y].st \in {"pending", "bound", "ready"}
             /\ pod' = [pod EXCEPT ![y] = [pod[y] EXCEPT !.st = st]] /\ node' = node
             /\ node[y] = "ready" => pod[y].st # "ready"
    BY <1>1, <1>8 DEF Schedule, PodBecomesReady, PodBecomesUnready, SetPod
  <2>2. pod[y] \in [st : {"gated", "pending", "bound", "ready"}, hash : Hashes]
    BY <2>1 DEF TypeOK, PodType, NoPod, Terminating
  <2> DEFINE q == [pod[y] EXCEPT !.st = st]
  <2>3. q.hash = pod[y].hash /\ q.st = st
    BY <2>2
  <2> HIDE DEF q
  <2>4. pod' = [pod EXCEPT ![y] = q]
    BY <2>1 DEF q
  <2> QED
    BY <1>3, <2>1, <2>3, <2>4
<1>9. ASSUME NEW y \in Nodes, PodGone(y) PROVE Undisturbed(h)
  <2>1. CASE node[y] = "absent"
    BY <1>4, <1>9, <2>1 DEF PodGone, SetPod
  <2>2. CASE node[y] # "absent"
    <3>1. pod[y].st \notin {"bound", "ready"}
      BY <1>9, <2>2 DEF PodGone, Terminating
    <3>2. PICK q : pod' = [pod EXCEPT ![y] = q] /\ node' = node
      BY <1>9 DEF PodGone, SetPod
    <3> QED
      BY <1>3, <3>1, <3>2
  <2> QED
    BY <2>1, <2>2
<1>10. ASSUME NEW y \in Nodes, Evict(y) \/ NodeDown(y) \/ NodeLeaves(y) PROVE FALSE
  BY <1>1, <1>10 DEF Evict, NodeDown, NodeLeaves
<1>11. ASSUME NEW y \in Nodes, NodeUp(y) \/ NodeJoins(y) PROVE Undisturbed(h)
  BY <1>5, <1>11 DEF NodeUp, NodeJoins, SetNode
<1> QED
  BY <1>6, <1>7, <1>8, <1>9, <1>10, <1>11 DEF Env

(* Deleting or releasing gated pods touches no pod that is on a node.       *)
LEMMA GatedUndisturbed ==
    ASSUME TypeOK, NEW CONSTANT h, node' = node, NEW S,
           \A x \in S \intersect Nodes : pod[x].st = "gated",
           pod' = DeletePods(S) \/ pod' = UngatePods(S)
    PROVE  Undisturbed(h)
<1>1. ASSUME NEW x \in Nodes
      PROVE  pod[x].st \in {"bound", "ready"} => pod'[x] = pod[x]
  BY <1>1 DEF DeletePods, UngatePods
<1> QED
  BY <1>1 DEF Undisturbed, StaleBound, Updated


\* The pass acts on the current wave of the plan it works with.
ActsOnWave ==
    /\ Forward /\ Pending(PlanNow) # {} /\ node' = node
    /\ \A x \in Nodes \ WaveNodes(PlanNow, CurWave(PlanNow)) : pod'[x] = pod[x]

(* While all is calm, a step, an interrupted pass included, disturbs        *)
(* nothing or acts on the current wave; a pass that acts saves its plan or  *)
(* has crashed.                                                             *)
LEMMA PodStep ==
    ASSUME TypeOK, Calm, Calm', [Next]_vars, NEW CONSTANT h
    PROVE  \/ Undisturbed(h)
           \/ ActsOnWave /\ (PlanStep(PlanNow, plan') \/ crashes' # 0)
<1>1. ASSUME pod' = pod, node' = node PROVE Undisturbed(h)
  BY <1>1 DEF Undisturbed, StaleBound, Updated
<1>2. RollbackNow = None
  BY DEF RollbackNow, Calm
<1>3. CASE NoTargets \/ GateWait \/ GatePause \/ UNCHANGED vars
  BY <1>1, <1>3 DEF NoTargets, GateWait, GatePause, GateHolds, Ensure, vars, cluster
<1>4. CASE DeleteStaleGated
  BY <1>4, GatedUndisturbed DEF DeleteStaleGated, Ensure, cluster, StaleGated
<1>5. CASE RollBack \/ GateRollback
  <2>1. ~RollBack
    BY <1>2 DEF RollBack, RollsBack
  <2>2. ASSUME GateRollback PROVE rollback' # None
    <3>1. Forward /\ rollback' = PlanNow.hash
      BY <2>2 DEF GateRollback, GateHolds
    <3> QED
      BY <3>1, PlanNowType, HashesType DEF Forward
  <2> QED
    BY <1>5, <2>1, <2>2 DEF Calm
<1>6. CASE Complete
  <2>1. pod' = UngatePods(Adoptable(PlanNow)) /\ node' = node
    BY <1>6 DEF Complete, Ensure, cluster
  <2>2. \A x \in Adoptable(PlanNow) \intersect Nodes : pod[x].st = "gated"
    BY DEF Adoptable, PodGatedOn
  <2> QED
    BY <2>1, <2>2, GatedUndisturbed
<1>7. ASSUME NEW S \in SUBSET (WaveStale(PlanNow) \union WaveUngate(PlanNow)),
             pod' = DeletePods(S) \/ pod' = UngatePods(S),
             NEW x \in Nodes \ WaveNodes(PlanNow, CurWave(PlanNow))
      PROVE  pod'[x] = pod[x]
  BY <1>7 DEF DeletePods, UngatePods, WaveStale, WaveUngate
<1>8. CASE DeleteWave \/ UngateWave \/ AwaitWave
  <2>1. /\ Forward /\ Pending(PlanNow) # {} /\ node' = node
        /\ plan' \in PastGate(PlanNow, CurWave(PlanNow))
    BY <1>8 DEF DeleteWave, UngateWave, AwaitWave, Advance, Ensure, cluster
  <2>2. PlanStep(PlanNow, plan')
    BY <2>1, ForwardPlan, PastGateStep
  <2>3. \/ pod' = pod
        \/ pod' = DeletePods(WaveStale(PlanNow))
        \/ pod' = UngatePods(WaveUngate(PlanNow))
    BY <1>8 DEF DeleteWave, UngateWave, AwaitWave, Advance
  <2> QED
    BY <1>7, <2>1, <2>2, <2>3 DEF ActsOnWave
<1>9. CASE Interrupted
  <2>1. node' = node /\ crashes' # 0
    BY <1>9, BoundAssumption DEF Interrupted, TypeOK, cluster
  <2>2. \/ pod' = pod
        \/ \E S \in SUBSET StaleGated(DesiredHash) : pod' = DeletePods(S)
        \/ \E S \in SUBSET Adoptable(PlanNow) : pod' = UngatePods(S)
        \/ /\ Forward /\ Pending(PlanNow) # {}
           /\ \E S \in SUBSET (WaveStale(PlanNow) \union WaveUngate(PlanNow)) :
                pod' = DeletePods(S) \/ pod' = UngatePods(S)
    BY <1>2, <1>9 DEF Interrupted, Prefixes, RollsBack
  <2>3. CASE \E S \in SUBSET StaleGated(DesiredHash) : pod' = DeletePods(S)
    BY <2>1, <2>3, GatedUndisturbed DEF StaleGated
  <2>4. CASE \E S \in SUBSET Adoptable(PlanNow) : pod' = UngatePods(S)
    BY <2>1, <2>4, GatedUndisturbed DEF Adoptable, PodGatedOn
  <2> QED
    BY <1>1, <1>7, <2>1, <2>2, <2>3, <2>4 DEF ActsOnWave
<1>10. CASE Env
  BY <1>10, EnvUndisturbed DEF Calm
<1> QED
  BY <1>3, <1>4, <1>5, <1>6, <1>8, <1>9, <1>10 DEF Next, Pass

(* A step keeps the divided plan p divided, as the q it becomes, if it      *)
(* disturbs nothing or acts on the current wave of p.                       *)
LEMMA FrontierKept ==
    ASSUME NEW CONSTANT p \in PlanType, NEW CONSTANT q, PlanStep(p, q), Frontier(p),
           \/ Undisturbed(p.hash)
           \/ p = PlanNow /\ ActsOnWave
    PROVE  Frontier(q)'
<1>1. /\ q.nodes = p.nodes /\ q.waveSize = p.waveSize /\ q.hash = p.hash
      /\ TotalWaves(q) = TotalWaves(p) /\ TotalWaves(p) \in Nat
  BY TotalWavesPositive DEF PlanStep, TotalWaves
<1>2. \A x \in p.nodes : WaveOf(q, x) = WaveOf(p, x) /\ WaveOf(p, x) \in Nat
  <2>1. \A x \in p.nodes : WaveOf(p, x) \in Nat
    BY <1>1, PlanIsPlan
  <2> QED
    BY <1>1, <2>1 DEF WaveOf
<1>3. \E k \in 0 .. TotalWaves(p) - 1 :
        /\ Divides(p, k)
        /\ \A x \in p.nodes : WaveOf(p, x) # k =>
             /\ Updated(x, p.hash) => Updated(x, p.hash)'
             /\ x \in StaleBound(p.hash) => x \in StaleBound(p.hash)'
  <2>1. CASE Undisturbed(p.hash)
    BY <2>1 DEF Undisturbed, Frontier, ReadyTargets
  <2>2. CASE p = PlanNow /\ ActsOnWave
    <3>1. CurWave(p) \in 0 .. TotalWaves(p) - 1 /\ Divides(p, CurWave(p))
      BY <2>2, CurWaveDivides DEF ActsOnWave
    <3>2. \A x \in p.nodes : WaveOf(p, x) # CurWave(p) => pod'[x] = pod[x]
      BY <2>2 DEF ActsOnWave, WaveNodes, Frontier, ReadyTargets
    <3> QED
      BY <3>1, <3>2 DEF Updated, StaleBound
  <2> QED
    BY <2>1, <2>2
<1>4. PICK k \in 0 .. TotalWaves(p) - 1 :
        /\ Divides(p, k)
        /\ \A x \in p.nodes : WaveOf(p, x) # k =>
             /\ Updated(x, p.hash) => Updated(x, p.hash)'
             /\ x \in StaleBound(p.hash) => x \in StaleBound(p.hash)'
  BY <1>3
<1>5. ASSUME NEW x \in p.nodes
      PROVE  /\ WaveOf(q, x) < k => Updated(x, p.hash)'
             /\ WaveOf(q, x) > k => x \in StaleBound(p.hash)'
  <2>1. WaveOf(q, x) < k \/ WaveOf(q, x) > k => WaveOf(p, x) # k
    BY <1>1, <1>2
  <2> QED
    BY <1>2, <1>4, <2>1 DEF Divides
<1>6. Divides(q, k)'
  BY <1>1, <1>5 DEF Divides
<1>7. q.nodes \subseteq ReadyTargets'
  BY <1>1 DEF Undisturbed, ActsOnWave, Frontier, ReadyTargets
<1>8. k \in 0 .. TotalWaves(q) - 1
  BY <1>1
<1> QED
  BY <1>6, <1>7, <1>8 DEF Frontier

-----------------------------------------------------------------------------
(* While the upgrade's generation stands, a recorded rollback is the one of *)
(* its template and has a target, so it is never abandoned.                 *)
Settled ==
    /\ generation >= 2
    /\ generation = 2 => rollback \in {None, CurrentHash} /\ lastGood # None

(* Calm cannot come back once it has gone, and within it the spec stands.   *)
LEMMA CalmStep ==
    ASSUME TypeOK, Settled, [Next]_vars
    PROVE  /\ Settled'
           /\ Calm' => Calm /\ UNCHANGED <<spec, generation>>
           /\ crashes' = 0 => crashes = 0
<1>1. CurrentHash \in Hashes /\ CurrentHash # None
  BY HashesType
<1>2. generation = 2 => RollbackNow = rollback
  BY DEF Settled, RollbackNow
<1>3. CASE Pass
  <2>1. Ensure
    BY <1>3 DEF Pass, NoTargets, DeleteStaleGated, RollBack, GateWait, GatePause,
         GateRollback, GateHolds, Complete, DeleteWave, UngateWave, AwaitWave, Advance
  <2>2. UNCHANGED <<spec, generation, crashes>> /\ CurrentHash' = CurrentHash
    BY <2>1 DEF Ensure, resource, CurrentHash
  <2>3. \/ rollback' \in {RollbackNow, rollback} /\ lastGood' = lastGood
        \/ /\ Forward /\ rollback' \in {None, CurrentHash}
           /\ lastGood' \in {lastGood, CurrentHash}
    <3>1. CASE NoTargets \/ DeleteStaleGated \/ RollBack
      BY <3>1 DEF NoTargets, DeleteStaleGated, RollBack
    <3>2. CASE GateWait \/ GatePause \/ GateRollback
      <4>1. Forward /\ lastGood' = lastGood
        BY <3>2 DEF GateWait, GatePause, GateRollback, GateHolds
      <4>2. PlanNow.hash = CurrentHash
        BY <4>1, PlanNowType DEF Forward
      <4> QED
        BY <3>2, <4>1, <4>2 DEF GateWait, GatePause, GateRollback
    <3>3. CASE Complete \/ DeleteWave \/ UngateWave \/ AwaitWave
      <4>1. Forward /\ rollback' = None
        BY <3>3 DEF Complete, DeleteWave, UngateWave, AwaitWave, Advance
      <4>2. PlanNow.hash = CurrentHash
        BY <4>1, PlanNowType DEF Forward
      <4> QED
        BY <3>3, <4>1, <4>2 DEF Complete, DeleteWave, UngateWave, AwaitWave, Advance
    <3> QED
      BY <1>3, <3>1, <3>2, <3>3 DEF Pass
  <2>4. generation = 2 /\ rollback' = None => rollback = None
    BY <1>1, <1>2, <2>3 DEF Forward
  <2> QED
    BY <1>1, <1>2, <2>2, <2>3, <2>4 DEF Settled, Calm
<1>4. CASE Interrupted
  <2>1. UNCHANGED <<resource, status>> /\ crashes' = crashes + 1 /\ crashes \in Nat
    BY <1>4, BoundAssumption DEF Interrupted, TypeOK
  <2> QED
    BY <2>1 DEF resource, status, Settled, Calm, CurrentHash
<1>5. CASE EditSpec
  <2>1. generation' = generation + 1 /\ generation \in Nat /\ crashes' = crashes
    BY <1>5 DEF EditSpec, TypeOK
  <2> QED
    BY <2>1 DEF Settled, Calm
<1>6. CASE Env /\ ~EditSpec
  <2>1. UNCHANGED <<resource, rollback, lastGood, crashes>>
    BY <1>6 DEF Env, Tick, DSCreate, Schedule, PodBecomesReady, PodBecomesUnready,
       Evict, PodGone, SetPod, NodeDown, NodeLeaves, NodeUp, NodeJoins, SetNode, status
  <2> QED
    BY <2>1 DEF resource, Settled, Calm, CurrentHash
<1>7. CASE UNCHANGED vars
  BY <1>7 DEF vars, resource, status, Settled, Calm, CurrentHash
<1> QED
  BY <1>3, <1>4, <1>5, <1>6, <1>7 DEF Next
-----------------------------------------------------------------------------
(* The invariants.                                                          *)

(* The plan a pass works with, frozen before or in this pass, is divided by *)
(* one of its waves.                                                        *)
LEMMA FrontierNow ==
    ASSUME TypeOK, Calm, crashes = 0, DisruptInv, ReadyTargets # {}
    PROVE  Frontier(PlanNow)
<1>1. CASE plan.gen = 1 /\ AllOld
  <2>1. PlanNow = NewPlan
    BY <1>1 DEF PlanNow, Calm
  <2>2. PlanNow \in PlanType /\ PlanNow.hash = CurrentHash /\ PlanNow.nodes = ReadyTargets
    BY <2>1, PlanNowType DEF NewPlan
  <2> DEFINE p == PlanNow
  <2> HIDE DEF p
  <2>3. /\ 0 \in 0 .. TotalWaves(p) - 1
        /\ \A x \in p.nodes : ~(WaveOf(p, x) < 0)
    <3>1. TotalWaves(p) \in Nat /\ TotalWaves(p) >= 1
      BY <2>2, TotalWavesPositive DEF p
    <3>2. \A x \in p.nodes : WaveOf(p, x) \in 0 .. TotalWaves(p) - 1
      BY <2>2, PlanIsPlan DEF p
    <3> QED
      BY <3>1, <3>2
  <2>4. \A x \in p.nodes : x \in StaleBound(p.hash)
    BY <1>1, <2>2, ReadyTargetsFinite DEF AllOld, p
  <2>5. Divides(p, 0)
    BY <2>3, <2>4 DEF Divides
  <2> QED
    BY <2>2, <2>3, <2>5 DEF Frontier, p
<1>2. CASE plan.gen = 2 /\ plan.hash = CurrentHash /\ Frontier(plan)
  BY <1>2 DEF PlanNow, Calm
<1> QED
  BY <1>1, <1>2 DEF DisruptInv

(* The plan of the status moves by a pass that works with it, or only its   *)
(* clock does.                                                              *)
LEMMA PlanMoves ==
    ASSUME TypeOK, TypeOK', [Next]_vars
    PROVE  \/ Forward /\ PlanStep(PlanNow, plan')
           \/ plan = NoPlan /\ plan' = NoPlan
           \/ plan \in PlanType /\ PlanStep(plan, plan')
<1>1. \/ Forward /\ PlanStep(PlanNow, plan')
      \/ plan' = plan
      \/ Tick
  <2>1. CASE Pass
    BY <2>1, PassPlan
  <2>2. CASE Interrupted \/ UNCHANGED vars
    BY <2>2 DEF Interrupted, vars, status
  <2>3. CASE Env /\ ~Tick
    BY <2>3 DEF Env, EditSpec, DSCreate, Schedule, PodBecomesReady, PodBecomesUnready,
       Evict, PodGone, SetPod, NodeDown, NodeLeaves, NodeUp, NodeJoins, SetNode, status
  <2> QED
    BY <2>1, <2>2, <2>3 DEF Next
<1>2. CASE plan' = plan
  BY <1>2 DEF TypeOK, PlanStep, PlanType
<1>3. CASE Tick
  <2>1. plan \in PlanType /\ plan' = [plan EXCEPT !.age = plan.age + 1]
    BY <1>3 DEF Tick, TypeOK, NoPlan
  <2>2. plan' # NoPlan
    BY <2>1, HashAssumption DEF PlanType, NoPlan
  <2>3. plan' \in PlanType
    BY <2>2 DEF TypeOK
  <2> QED
    BY <2>1, <2>3 DEF PlanStep, PlanType
<1> QED
  BY <1>1, <1>2, <1>3

(* Every step keeps DisruptInv.                                             *)
LEMMA DisruptInvStep == TypeOK /\ Settled /\ DisruptInv /\ [Next]_vars => DisruptInv'
<1> SUFFICES ASSUME TypeOK, Settled, DisruptInv, [Next]_vars, Calm', crashes' = 0
             PROVE  DisruptInv'
  BY DEF DisruptInv
<1>1. /\ Calm /\ crashes = 0 /\ generation' = generation /\ spec' = spec
      /\ TypeOK' /\ CurrentHash' = CurrentHash
  BY CalmStep, TypeOKStep DEF CurrentHash
<1>2. PICK h : h = CurrentHash
  OBVIOUS
<1>3. PICK q : q = plan'
  OBVIOUS
<1>4. ASSUME NEW CONSTANT p \in PlanType, PlanStep(p, q), Frontier(p), p.hash = h, p.gen = 2,
             Undisturbed(h) \/ (p = PlanNow /\ ActsOnWave)
      PROVE  DisruptInv'
  <2>1. Frontier(q)'
    BY <1>4, FrontierKept
  <2>2. Frontier(plan)'
    BY <1>3, <2>1 DEF Frontier, Divides, Updated, StaleBound
  <2>3. plan'.gen = 2 /\ plan'.hash = CurrentHash'
    BY <1>1, <1>2, <1>3, <1>4 DEF PlanStep
  <2> QED
    BY <2>2, <2>3 DEF DisruptInv
<1>5. CASE Forward /\ PlanStep(PlanNow, plan')
  <2>1. PICK p : p = PlanNow
    OBVIOUS
  <2>2. /\ p \in PlanType /\ p.hash = h /\ p.gen = 2 /\ Frontier(p) /\ PlanStep(p, q)
    BY <1>1, <1>2, <1>3, <1>5, <2>1, PlanNowType, FrontierNow DEF Forward, Calm
  <2>3. Undisturbed(h) \/ (p = PlanNow /\ ActsOnWave)
    BY <1>1, <2>1, PodStep
  <2> QED
    BY <1>4, <2>2, <2>3
<1>6. CASE ~(Forward /\ PlanStep(PlanNow, plan'))
  <2>1. Undisturbed(h)
    BY <1>1, <1>6, PodStep DEF ActsOnWave
  <2>2. CASE plan.gen = 1 /\ AllOld
    <3>1. \A x \in Nodes : node'[x] # "absent" /\ x \in StaleBound(h)'
      BY <1>2, <2>1, <2>2 DEF Undisturbed, AllOld
    <3>2. AllOld'
      BY <1>1, <1>2, <3>1 DEF AllOld, StaleBound
    <3>3. plan'.gen = 1
      BY <1>1, <1>6, <2>2, PlanMoves DEF PlanStep, NoPlan
    <3> QED
      BY <3>2, <3>3 DEF DisruptInv
  <2>3. CASE plan.gen = 2 /\ plan.hash = CurrentHash /\ Frontier(plan)
    <3>1. PICK p : p = plan
      OBVIOUS
    <3>2. p \in PlanType /\ PlanStep(p, q)
      BY <1>1, <1>3, <1>6, <2>3, <3>1, PlanMoves DEF NoPlan
    <3>3. Frontier(p) /\ p.hash = h /\ p.gen = 2
      BY <1>2, <2>3, <3>1
    <3> QED
      BY <1>4, <2>1, <3>2, <3>3
  <2> QED
    BY <1>1, <2>2, <2>3 DEF DisruptInv
<1> QED
  BY <1>5, <1>6

(* Every step keeps ReadyInv: the plan a pass would make now stays the plan *)
(* it would make next, so a pass that crashes after it has deleted pods is  *)
(* repeated on the same waves.                                              *)
LEMMA ReadyInvStep == TypeOK /\ Settled /\ ReadyInv /\ [Next]_vars => ReadyInv'
<1> SUFFICES ASSUME TypeOK, Settled, ReadyInv, [Next]_vars, Calm'
             PROVE  ReadyInv'
  BY DEF ReadyInv
<1>1. /\ Calm /\ UNCHANGED <<spec, generation>> /\ TypeOK' /\ CurrentHash' = CurrentHash
  BY CalmStep, TypeOKStep DEF CurrentHash
<1>2. /\ ReadyTargets = Nodes /\ Nodes # {} /\ Frontier(PlanNow)
      /\ plan.gen = 2 => plan.hash = CurrentHash
  BY <1>1 DEF ReadyInv
<1>3. PICK p : p = PlanNow
  OBVIOUS
<1>4. PICK q : q = PlanNow'
  OBVIOUS
<1>5. p \in PlanType /\ p.hash = CurrentHash /\ p.gen = generation
  BY <1>2, <1>3, PlanNowType
<1>6. Undisturbed(p.hash) \/ (p = PlanNow /\ ActsOnWave)
  BY <1>1, <1>3, PodStep
<1>7. ReadyTargets' = Nodes
  BY <1>2, <1>6 DEF Undisturbed, ActsOnWave, ReadyTargets
<1>8. PlanStep(p, q)
  <2>1. NewPlan' = NewPlan
    BY <1>1, <1>2, <1>7 DEF NewPlan
  <2>2. PlanStep(p, p)
    BY <1>5 DEF PlanStep, PlanType
  <2>3. CASE PlanStep(PlanNow, plan')
    <3>1. plan'.hash = CurrentHash' /\ plan'.gen = generation'
      BY <1>1, <1>3, <1>5, <2>3 DEF PlanStep
    <3>2. q = plan'
      BY <1>4, <3>1 DEF PlanNow
    <3> QED
      BY <1>3, <2>3, <3>2
  <2>4. CASE plan = NoPlan /\ plan' = NoPlan
    <3>1. q = p
      BY <1>1, <1>3, <1>4, <2>1, <2>4 DEF PlanNow
    <3> QED
      BY <2>2, <3>1
  <2>5. CASE plan \in PlanType /\ PlanStep(plan, plan') /\ PlanNow # plan
    <3>1. ~(plan.hash = CurrentHash /\ plan.gen = generation) /\ PlanNow = NewPlan
      BY <2>5 DEF PlanNow
    <3>2. ~(plan'.hash = CurrentHash' /\ plan'.gen = generation')
      BY <1>1, <2>5, <3>1 DEF PlanStep
    <3>3. q = p
      BY <1>3, <1>4, <2>1, <3>1, <3>2 DEF PlanNow
    <3> QED
      BY <2>2, <3>3
  <2> QED
    BY <1>1, <2>3, <2>4, <2>5, PlanMoves
<1>9. Frontier(q)'
  BY <1>2, <1>3, <1>5, <1>6, <1>8, FrontierKept
<1>10. Frontier(PlanNow)'
  BY <1>4, <1>9 DEF Frontier, Divides, Updated, StaleBound
<1>11. plan'.gen = 2 => plan'.hash = CurrentHash'
  BY <1>1, <1>2, <1>3, <1>5, PlanMoves DEF PlanStep, NoPlan
<1> QED
  BY <1>2, <1>7, <1>10, <1>11 DEF ReadyInv

(* An upgrade starts with the old template on every node.                   *)
LEMMA UpgradeInit ==
    Upgrade => /\ Settled /\ DisruptInv
               /\ ReadyTargets = Nodes => ReadyInv
<1> SUFFICES ASSUME Upgrade
             PROVE  /\ Settled /\ DisruptInv
                    /\ ReadyTargets = Nodes => ReadyInv
  OBVIOUS
<1>1. /\ lastGood \in Hashes /\ lastGood # CurrentHash /\ generation = 2
      /\ rollback = None /\ pod = [x \in Nodes |-> [st |-> "ready", hash |-> lastGood]]
      /\ node \in [Nodes -> {"notReady", "ready"}]
  BY DEF Upgrade
<1>2. plan.gen = 1
  BY DEF Upgrade, NoPlan
<1>3. AllOld
  BY <1>1 DEF AllOld, StaleBound
<1>4. Settled /\ DisruptInv
  BY <1>1, <1>2, <1>3, HashAssumption DEF Settled, DisruptInv
<1>5. ASSUME ReadyTargets = Nodes, Calm PROVE Frontier(PlanNow)
  <2>1. TypeOK /\ Nodes # {} /\ crashes = 0
    BY TypeOKInit DEF Init, Upgrade
  <2> QED
    BY <1>4, <1>5, <2>1, FrontierNow
<1>6. Nodes # {}
  BY DEF Upgrade
<1> QED
  BY <1>2, <1>4, <1>5, <1>6 DEF ReadyInv

(* What a divided plan says of the disturbed nodes.                         *)
LEMMA FrontierMeans ==
    ASSUME plan \in PlanType, Frontier(plan)
    PROVE  OneWaveDisrupted
<1>1. PICK w \in 0 .. TotalWaves(plan) - 1 : Divides(plan, w)
  BY DEF Frontier
<1>2. TotalWaves(plan) \in Nat /\ \A x \in plan.nodes : WaveOf(plan, x) \in Nat
  BY TotalWavesPositive, PlanIsPlan
<1>3. \A x \in plan.nodes : WaveOf(plan, x) = w \/ WaveOf(plan, x) < w \/ WaveOf(plan, x) > w
  BY <1>1, <1>2
<1>4. \A x \in plan.nodes : \/ WaveOf(plan, x) = w \/ Updated(x, plan.hash)
                            \/ x \in StaleBound(plan.hash)
  BY <1>1, <1>3 DEF Divides
<1> QED
  BY <1>4 DEF WaveNodes, OneWaveDisrupted

(* Both invariants say that the saved plan of the upgrade is divided.       *)
LEMMA InvMeans ==
    ASSUME TypeOK, generation = 2, (DisruptInv /\ crashes = 0) \/ ReadyInv
    PROVE  OneWaveDisrupted
<1> SUFFICES ASSUME MaxFaults = 0, plan.gen = 2, rollback = None
             PROVE  OneWaveDisrupted
  BY DEF OneWaveDisrupted
<1>1. plan \in PlanType
  BY DEF TypeOK, NoPlan
<1>2. Frontier(plan)
  BY DEF DisruptInv, ReadyInv, Calm, PlanNow
<1> QED
  BY <1>1, <1>2, FrontierMeans

(* During an upgrade without failures, until the spec is edited again, a    *)
(* pass crashes or a rollback starts, the planned nodes that have lost      *)
(* their old pod and do not run the new one yet are all of one wave: with   *)
(* any fleet, of which some nodes may become Ready late, any waveSize, any  *)
(* gate answers and any order of the cluster's steps.                       *)
THEOREM OneWaveAtATime ==
    UpgradeSpec => [](generation = 2 /\ crashes = 0 => OneWaveDisrupted)
<1>1. Upgrade => TypeOK
  BY TypeOKInit DEF Init
<1>2. TypeOK /\ Settled /\ DisruptInv /\ [Next]_vars =>
        TypeOK' /\ Settled' /\ DisruptInv'
  BY TypeOKStep, CalmStep, DisruptInvStep
<1>3. TypeOK /\ DisruptInv => (generation = 2 /\ crashes = 0 => OneWaveDisrupted)
  BY InvMeans
<1> QED
  BY <1>1, <1>2, <1>3, UpgradeInit, PTL DEF UpgradeSpec

(* The same when the nodes are Ready from the start and passes may crash    *)
(* anywhere, any number of times: what a crashed pass has deleted is in the *)
(* wave the next pass works on, its plan saved or not.                      *)
THEOREM OneWaveDespiteCrashes ==
    ReadyUpgradeSpec => [](generation = 2 => OneWaveDisrupted)
<1>1. Upgrade => TypeOK
  BY TypeOKInit DEF Init
<1>2. TypeOK /\ Settled /\ ReadyInv /\ [Next]_vars =>
        TypeOK' /\ Settled' /\ ReadyInv'
  BY TypeOKStep, CalmStep, ReadyInvStep
<1>3. TypeOK /\ ReadyInv => (generation = 2 => OneWaveDisrupted)
  BY InvMeans
<1>4. Upgrade /\ ReadyTargets = Nodes => TypeOK /\ Settled /\ ReadyInv
  BY <1>1, UpgradeInit
<1> QED
  BY <1>2, <1>3, <1>4, PTL DEF ReadyUpgradeSpec
=============================================================================

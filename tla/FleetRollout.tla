---------------------------- MODULE FleetRollout ----------------------------
(***************************************************************************)
(* The FleetRollout controller, its custom resource and the cluster it     *)
(* rolls a pod template over.                                              *)
(*                                                                         *)
(* One reconcile pass is one step: it reads the resource, the nodes and    *)
(* the pods, makes its API calls and persists the status.  Every branch of *)
(* Reconcile is an action (NoTargets ... AwaitWave).  A pass that fails or *)
(* is killed before it persists the status is Interrupted: its writes to   *)
(* the DaemonSet and to some of the pods stay, its status is lost.         *)
(*                                                                         *)
(* The cluster (DaemonSet controller, scheduler, kubelet, nodes, the user  *)
(* who edits the spec) is the environment.  A DaemonSet with the OnDelete  *)
(* strategy keeps at most one pod per node.                                *)
(*                                                                         *)
(* Not in this module: conditions (StatusConditions), the work queue and   *)
(* stale caches (CachedRollout), counters and messages of the status,      *)
(* metrics, the deletion of the resource.                                  *)
(***************************************************************************)
EXTENDS WavePlan

CONSTANTS
    Nodes,          \* names of the nodes that can match spec.targetSelector
    Artifacts,      \* values of spec.image / spec.template
    Hashes,         \* template hashes
    HashOf,         \* computeTemplateHash of the rendered base template
    None,           \* an absent hash (nil)
    Specs,          \* the specs the user may submit
    GateObs,        \* what the gate may be told while a hash rolls
    Unschedulable,  \* hashes whose pods the scheduler cannot place
    Timeout,        \* healthGate.timeoutSeconds, in ticks of the clock
    MaxGen,         \* bound: generations of the spec
    MaxFaults,      \* bound: node and pod failures
    MaxCrashes      \* bound: passes that do not persist their status

NoWave == -1

Answers == {"healthy", "unhealthy", "unreachable", "configError"}

SpecType == [artifact : Artifacts, waveSize : [percent : BOOLEAN, val : Nat],
             healthGate : BOOLEAN, rollbackPolicy : {"OnFailure", "Never"}]

ASSUME NodesAssumption == Nodes \subseteq Nat /\ IsFiniteSet(Nodes)
ASSUME HashAssumption  == HashOf \in [Artifacts -> Hashes] /\ None \notin Hashes
ASSUME SpecsAssumption == Specs \subseteq SpecType
ASSUME GateAssumption  == GateObs \in [Hashes -> SUBSET Answers]
ASSUME BoundAssumption == /\ Timeout \in Nat \ {0}
                          /\ MaxGen \in Nat /\ MaxFaults \in Nat
                          /\ MaxCrashes \in Nat

VARIABLES
    spec,                \* the resource's spec
    generation,          \* its metadata.generation
    phase,               \* status.phase ("" before the first pass)
    observedGeneration,  \* status.observedGeneration
    plan,                \* status.plan
    lastGood,            \* status.lastGood.templateHash, or None
    rollback,            \* status.rollback.fromHash, or None
    ds,                  \* template hash of the DaemonSet, None before it exists
    node,                \* each node: absent, notReady or ready
    pod,                 \* each node's daemon pod
    faults,              \* node and pod failures so far
    crashes              \* interrupted passes so far

resource == <<spec, generation>>
status   == <<phase, observedGeneration, plan, lastGood, rollback>>
cluster  == <<node, faults>>
vars     == <<resource, status, ds, cluster, pod, crashes>>

Phases == {"", "Progressing", "Paused", "RollingBack", "RolledBack", "Done"}

(***************************************************************************)
(* A pod is gated (it carries the wave scheduling gate), pending (ungated, *)
(* not bound), bound (spec.nodeName set, not Ready), ready, or terminating *)
(* (bound, deletionTimestamp set).  Its hash is its template-hash label;   *)
(* nothing reads the label of a terminating pod.                           *)
(***************************************************************************)
NoPod       == [st |-> "none", hash |-> None]
Terminating == [st |-> "terminating", hash |-> None]
PodType     == {NoPod, Terminating} \union
               [st : {"gated", "pending", "bound", "ready"}, hash : Hashes]

\* A nil plan has hash None, so it is never the plan of a current hash.
NoPlan == [hash |-> None, gen |-> 0, waveSize |-> 1, nodes |-> {},
           gatedWaves |-> 0, evaluatingWave |-> NoWave, age |-> 0]

\* age is the time since gateStartedAt, up to Timeout.
PlanType == [hash : Hashes, gen : Nat, waveSize : Nat \ {0},
             nodes : (SUBSET Nodes) \ {{}}, gatedWaves : Nat,
             evaluatingWave : Nat \union {NoWave}, age : 0 .. Timeout]

TypeOK ==
    /\ spec \in Specs
    /\ generation \in Nat
    /\ phase \in Phases
    /\ observedGeneration \in Nat
    /\ plan \in PlanType \union {NoPlan}
    /\ lastGood \in Hashes \union {None}
    /\ rollback \in Hashes \union {None}
    /\ ds \in Hashes \union {None}
    /\ node \in [Nodes -> {"absent", "notReady", "ready"}]
    /\ pod \in [Nodes -> PodType]
    /\ faults \in 0 .. MaxFaults
    /\ crashes \in 0 .. MaxCrashes

-----------------------------------------------------------------------------
(* What a pass derives from what it reads.                                 *)

CurrentHash == HashOf[spec.artifact]

\* status.rollback after the pass has looked at it: abandoned when the spec
\* has moved to another template or there is nothing to roll back to.
RollbackNow == IF rollback = CurrentHash /\ lastGood # None THEN rollback ELSE None

\* Variant with a bug: the rollback target is ignored.
DesiredHashForward == CurrentHash

DesiredHash == IF RollbackNow # None THEN lastGood ELSE CurrentHash

ReadyTargets == {x \in Nodes : node[x] = "ready"}

Updated(x, h) == pod[x] = [st |-> "ready", hash |-> h]

PodGatedOn(x, h) == pod[x] = [st |-> "gated", hash |-> h]

\* Live pods carrying another hash than h: gated, or already on a node.
StaleGated(h) == {x \in Nodes : pod[x].st = "gated" /\ pod[x].hash # h}
StaleBound(h) == {x \in Nodes : pod[x].st \in {"bound", "ready"} /\ pod[x].hash # h}

\* A deleted pod that was never bound is gone at once; a bound one lingers
\* until its kubelet confirms.
DeletePods(S) ==
    [x \in Nodes |-> IF x \notin S THEN pod[x]
                     ELSE IF pod[x].st \in {"gated", "pending"} THEN NoPod
                     ELSE Terminating]

\* ungate removes the scheduling gate and nothing else.
UngatePods(S) ==
    [x \in Nodes |-> IF x \in S THEN [pod[x] EXCEPT !.st = "pending"] ELSE pod[x]]

\* The plan the forward path works with: the persisted one if it belongs to
\* this (hash, generation), else a fresh snapshot of the Ready nodes.
NewPlan ==
    [hash |-> CurrentHash, gen |-> generation,
     waveSize |-> ResolveWaveSize(spec.waveSize, Cardinality(ReadyTargets)),
     nodes |-> ReadyTargets,
     gatedWaves |-> 0, evaluatingWave |-> NoWave, age |-> 0]

\* Variant with a bug: the node list follows the live fleet.
PlanNowLive ==
    IF plan.hash = CurrentHash /\ plan.gen = generation
      THEN [plan EXCEPT !.nodes = ReadyTargets] ELSE NewPlan

PlanNow ==
    IF plan.hash = CurrentHash /\ plan.gen = generation THEN plan ELSE NewPlan

\* Variant with a bug: a node without a pod is not pending.
PendingWithPod(p) == {x \in p.nodes \intersect ReadyTargets :
                        pod[x] # NoPod /\ ~Updated(x, p.hash)}

\* Planned nodes that are Ready and do not run the template yet.
Pending(p) == {x \in p.nodes \intersect ReadyTargets : ~Updated(x, p.hash)}

WaveFullyUpdated(p, w) == WaveNodes(p, w) \intersect Pending(p) = {}

\* The number of leading waves that are fully updated.  It is the current
\* wave while some node is pending and TotalWaves when none is; in both cases
\* the gate that must be open is the one of the wave before it.
CurWave(p) ==
    Cardinality({w \in 0 .. TotalWaves(p) - 1 :
                   \A v \in 0 .. w : WaveFullyUpdated(p, v)})

-----------------------------------------------------------------------------
(* The health gate of wave k-1, which guards wave k (or Done).             *)

\* Variant with a bug: the latch of the wave before is enough.
GateOpenEarly(p, k) == k = 0 \/ ~spec.healthGate \/ p.gatedWaves >= k - 1

GateOpen(p, k) == k = 0 \/ ~spec.healthGate \/ p.gatedWaves >= k

\* Evaluation starts the clock, unless this wave's clock already runs.
Armed(p, k) ==
    IF p.evaluatingWave = k - 1 THEN p
    ELSE [p EXCEPT !.evaluatingWave = k - 1, !.age = 0]

\* Variant with a bug: a rollback needs no last-good template.
GateDecisionNoTarget(p, k, obs) ==
    IF obs = "configError" THEN "gateWait"
    ELSE DecideGate(obs # "unreachable", obs = "healthy",
                    Armed(p, k).age >= Timeout,
                    spec.rollbackPolicy = "OnFailure", TRUE)

\* A config error (bad secret, CA or query template) never reaches
\* decideGate and holds.
GateDecision(p, k, obs) ==
    IF obs = "configError" THEN "gateWait"
    ELSE DecideGate(obs # "unreachable", obs = "healthy",
                    Armed(p, k).age >= Timeout,
                    spec.rollbackPolicy = "OnFailure",
                    lastGood \notin {None, p.hash})

\* The latch: a passed gate is a high-water mark in the plan.
Latched(p, k) ==
    [p EXCEPT !.gatedWaves = k, !.evaluatingWave = NoWave, !.age = 0]

\* The plans with which a pass may go past the gate of wave k-1.
PastGate(p, k) ==
    IF GateOpen(p, k) THEN {p}
    ELSE {Latched(p, k) : obs \in {o \in GateObs[p.hash] :
                                     GateDecision(p, k, o) = "gatePass"}}

-----------------------------------------------------------------------------
(* A pass that persists its status.                                        *)

\* Every pass ensures the DaemonSet and stamps the generation.
Ensure ==
    /\ ds' = DesiredHash
    /\ observedGeneration' = generation
    /\ UNCHANGED <<resource, cluster, crashes>>

\* No Ready node matches the selector.
NoTargets ==
    /\ ReadyTargets = {}
    /\ Ensure
    /\ phase' = "Progressing"
    /\ rollback' = RollbackNow
    /\ UNCHANGED <<plan, lastGood, pod>>

\* Rule A: gated pods on another template are deleted, fleet-wide.
DeleteStaleGated ==
    /\ ReadyTargets # {}
    /\ StaleGated(DesiredHash) # {}
    /\ Ensure
    /\ pod' = DeletePods(StaleGated(DesiredHash))
    /\ phase' = "Progressing"
    /\ rollback' = RollbackNow
    /\ UNCHANGED <<plan, lastGood>>

\* The pass gets past Rule A; the last-good or the current template is rolled.
RollsBack == ReadyTargets # {} /\ StaleGated(DesiredHash) = {} /\ RollbackNow # None
Forward   == ReadyTargets # {} /\ StaleGated(DesiredHash) = {} /\ RollbackNow = None

\* What one rollback pass ungates and deletes.
RollbackUngates == {x \in ReadyTargets : PodGatedOn(x, DesiredHash)}
RollbackDeletes ==
    FirstOf(ReadyTargets \intersect StaleBound(DesiredHash),
            ResolveWaveSize(spec.waveSize, Cardinality(ReadyTargets)))

ApplyRollback(U, D) == [x \in Nodes |-> IF x \in U THEN UngatePods(U)[x]
                                                   ELSE DeletePods(D)[x]]

\* reconcileRollback: release last-good pods, delete stale ones wave-bounded.
RollBack ==
    /\ RollsBack
    /\ Ensure
    /\ pod' = ApplyRollback(RollbackUngates, RollbackDeletes)
    /\ phase' = IF /\ RollbackUngates \union RollbackDeletes = {}
                   /\ \A x \in ReadyTargets : Updated(x, DesiredHash)
                  THEN "RolledBack" ELSE "RollingBack"
    /\ UNCHANGED <<plan, lastGood, rollback>>

\* A closed gate that does not pass.  With nothing pending the code has not
\* touched the phase when it gets here.
GateHolds(p, k, obs) ==
    /\ Forward
    /\ ~GateOpen(p, k)
    /\ obs \in GateObs[p.hash]
    /\ Ensure
    /\ plan' = Armed(p, k)
    /\ UNCHANGED <<lastGood, pod>>

GateWait ==
    LET p == PlanNow  k == CurWave(p)
    IN  \E obs \in Answers :
          /\ GateHolds(p, k, obs)
          /\ GateDecision(p, k, obs) = "gateWait"
          /\ phase' = IF Pending(p) = {} THEN phase ELSE "Progressing"
          /\ rollback' = None

GatePause ==
    LET p == PlanNow  k == CurWave(p)
    IN  \E obs \in Answers :
          /\ GateHolds(p, k, obs)
          /\ GateDecision(p, k, obs) = "gatePauseTimeout"
          /\ phase' = "Paused"
          /\ rollback' = None

GateRollback ==
    LET p == PlanNow  k == CurWave(p)
    IN  \E obs \in Answers :
          /\ GateHolds(p, k, obs)
          /\ GateDecision(p, k, obs) = "gateRollback"
          /\ phase' = "RollingBack"
          /\ rollback' = p.hash

\* Joined nodes whose pod is gated on the current template.
Adoptable(p) == {x \in ReadyTargets : PodGatedOn(x, p.hash)}

\* Nothing pending and the last gate passed: adopt late nodes, declare Done.
Complete ==
    LET p == PlanNow
    IN  /\ Forward
        /\ Pending(p) = {}
        /\ plan' \in PastGate(p, CurWave(p))
        /\ Ensure
        /\ pod' = UngatePods(Adoptable(p))
        /\ phase' = "Done"
        /\ lastGood' = p.hash
        /\ rollback' = None

\* What the current wave has to delete, and what it has to release.
WaveStale(p)  == WaveNodes(p, CurWave(p)) \intersect ReadyTargets
                   \intersect StaleBound(p.hash)

\* Variant with a bug: a node without a pod is released.
WaveUngateNil(p) == {x \in WaveNodes(p, CurWave(p)) \intersect ReadyTargets :
                       PodGatedOn(x, p.hash) \/ pod[x] = NoPod}

WaveUngate(p) == {x \in WaveNodes(p, CurWave(p)) \intersect ReadyTargets :
                    PodGatedOn(x, p.hash)}

\* Past the promotion gate, the pass acts on the current wave.
Advance(p, podNext) ==
    /\ Forward
    /\ Pending(p) # {}
    /\ plan' \in PastGate(p, CurWave(p))
    /\ Ensure
    /\ pod' = podNext
    /\ phase' = "Progressing"
    /\ rollback' = None
    /\ UNCHANGED lastGood

DeleteWave ==
    /\ WaveStale(PlanNow) # {}
    /\ Advance(PlanNow, DeletePods(WaveStale(PlanNow)))

UngateWave ==
    /\ WaveStale(PlanNow) = {}
    /\ WaveUngate(PlanNow) # {}
    /\ Advance(PlanNow, UngatePods(WaveUngate(PlanNow)))

AwaitWave ==
    /\ WaveStale(PlanNow) = {}
    /\ WaveUngate(PlanNow) = {}
    /\ Advance(PlanNow, pod)

Pass == \/ NoTargets \/ DeleteStaleGated \/ RollBack
        \/ GateWait \/ GatePause \/ GateRollback \/ Complete
        \/ DeleteWave \/ UngateWave \/ AwaitWave

-----------------------------------------------------------------------------
(* A pass whose status write (or an earlier call) fails, or whose process   *)
(* dies: what it wrote before stays, the status does not change.            *)

\* The calls made so far when a loop over T in name order stops.
Prefixes(T) == {S \in SUBSET T : \A x \in S, y \in T : y < x => y \in S}

\* Rule A and adoption go through the pods in no particular order, the other
\* loops in name order.  A pass whose gate passed acts before the latch is saved.
Interrupted ==
    LET p == PlanNow
        past == Forward /\ PastGate(p, CurWave(p)) # {}
    IN  /\ crashes < MaxCrashes
        /\ crashes' = crashes + 1
        /\ ds' = DesiredHash
        /\ UNCHANGED <<resource, status, cluster>>
        /\ \/ pod' = pod
           \/ /\ ReadyTargets # {}
              /\ \E S \in SUBSET StaleGated(DesiredHash) : pod' = DeletePods(S)
           \/ /\ RollsBack
              /\ \E U \in Prefixes(RollbackUngates) : pod' = ApplyRollback(U, {})
           \/ /\ RollsBack
              /\ \E D \in Prefixes(RollbackDeletes) :
                    pod' = ApplyRollback(RollbackUngates, D)
           \/ /\ past /\ Pending(p) = {}
              /\ \E S \in SUBSET Adoptable(p) : pod' = UngatePods(S)
           \/ /\ past /\ Pending(p) # {}
              /\ \E S \in Prefixes(WaveStale(p)) : pod' = DeletePods(S)
           \/ /\ past /\ Pending(p) # {} /\ WaveStale(p) = {}
              /\ \E S \in Prefixes(WaveUngate(p)) : pod' = UngatePods(S)

-----------------------------------------------------------------------------
(* The environment.                                                        *)

\* The user submits another spec.
EditSpec ==
    /\ generation < MaxGen
    /\ spec' \in Specs \ {spec}
    /\ generation' = generation + 1
    /\ UNCHANGED <<status, ds, cluster, pod, crashes>>

\* Time passes while a gate is being evaluated.
Tick ==
    /\ plan.evaluatingWave # NoWave
    /\ plan.age < Timeout
    /\ plan' = [plan EXCEPT !.age = @ + 1]
    /\ UNCHANGED <<resource, phase, observedGeneration, lastGood, rollback,
                   ds, cluster, pod, crashes>>

SetPod(x, p) ==
    /\ pod' = [pod EXCEPT ![x] = p]
    /\ UNCHANGED <<resource, status, ds, node, crashes>>

\* The DaemonSet controller creates the missing pod of a matching node, NotReady
\* nodes included; the template carries the gate, so the pod is born gated.
DSCreate(x) ==
    /\ node[x] # "absent" /\ ds # None /\ pod[x] = NoPod
    /\ SetPod(x, [st |-> "gated", hash |-> ds])
    /\ UNCHANGED faults

\* The scheduler binds an ungated pod (daemon pods tolerate NotReady nodes).
Schedule(x) ==
    /\ node[x] # "absent" /\ pod[x].st = "pending" /\ pod[x].hash \notin Unschedulable
    /\ SetPod(x, [pod[x] EXCEPT !.st = "bound"])
    /\ UNCHANGED faults

PodBecomesReady(x) ==
    /\ node[x] = "ready" /\ pod[x].st = "bound"
    /\ SetPod(x, [pod[x] EXCEPT !.st = "ready"])
    /\ UNCHANGED faults

\* A Ready pod stops being Ready: a failure, or its node has gone NotReady.
PodBecomesUnready(x) ==
    /\ pod[x].st = "ready"
    /\ IF node[x] = "ready" THEN faults < MaxFaults /\ faults' = faults + 1
                            ELSE UNCHANGED faults
    /\ SetPod(x, [pod[x] EXCEPT !.st = "bound"])

\* Somebody else deletes a bound pod (drain, eviction, kubectl delete).
Evict(x) ==
    /\ faults < MaxFaults
    /\ faults' = faults + 1
    /\ pod[x].st \in {"bound", "ready"}
    /\ SetPod(x, Terminating)

\* The kubelet confirms a deletion; the pods of an absent node are collected.
PodGone(x) ==
    /\ \/ pod[x] = Terminating /\ node[x] = "ready"
       \/ pod[x] # NoPod /\ node[x] = "absent"
    /\ SetPod(x, NoPod)
    /\ UNCHANGED faults

SetNode(x, s) ==
    /\ node' = [node EXCEPT ![x] = s]
    /\ UNCHANGED <<resource, status, ds, pod, crashes>>

NodeDown(x) ==
    /\ faults < MaxFaults
    /\ faults' = faults + 1
    /\ node[x] = "ready"
    /\ SetNode(x, "notReady")

\* The node is deleted or loses the label the selector matches.
NodeLeaves(x) ==
    /\ faults < MaxFaults
    /\ faults' = faults + 1
    /\ node[x] # "absent"
    /\ SetNode(x, "absent")

NodeUp(x) ==
    /\ node[x] = "notReady"
    /\ SetNode(x, "ready")
    /\ UNCHANGED faults

NodeJoins(x) ==
    /\ node[x] = "absent"
    /\ SetNode(x, "notReady")
    /\ UNCHANGED faults

Env == \/ EditSpec \/ Tick
       \/ \E x \in Nodes :
            \/ DSCreate(x) \/ Schedule(x) \/ PodBecomesReady(x)
            \/ PodBecomesUnready(x) \/ Evict(x) \/ PodGone(x)
            \/ NodeDown(x) \/ NodeLeaves(x) \/ NodeUp(x) \/ NodeJoins(x)

-----------------------------------------------------------------------------
(* Initial states: the resource has just been created, or a gated rollout   *)
(* (one node per wave) has completed on every node and the spec has been     *)
(* edited since.                                                             *)

FirstDeploy ==
    /\ spec \in Specs /\ generation = 1
    /\ phase = "" /\ observedGeneration = 0
    /\ plan = NoPlan /\ lastGood = None /\ rollback = None /\ ds = None
    /\ node \in [Nodes -> {"absent", "notReady", "ready"}]
    /\ pod = [x \in Nodes |-> NoPod]
    /\ faults = 0 /\ crashes = 0

Upgrade ==
    /\ spec \in Specs /\ generation = 2
    /\ phase = "Done" /\ observedGeneration = 1
    /\ lastGood \in {h \in Hashes \ {CurrentHash} : "healthy" \in GateObs[h]}
    /\ rollback = None /\ ds = lastGood
    /\ Nodes # {}
    /\ plan = [NoPlan EXCEPT !.hash = lastGood, !.gen = 1, !.nodes = Nodes,
                             !.gatedWaves = Cardinality(Nodes)]
    /\ node \in [Nodes -> {"notReady", "ready"}]
    /\ pod = [x \in Nodes |-> [st |-> "ready", hash |-> lastGood]]
    /\ faults = 0 /\ crashes = 0

Init == FirstDeploy \/ Upgrade

Next == Pass \/ Interrupted \/ Env

Spec == Init /\ [][Next]_vars

\* A pass is requeued while it waits and re-triggered by watches; the cluster's
\* own controllers retry, and time passes.  Failures, edits, node arrivals and
\* interrupted passes are never promised.
Fairness ==
    /\ WF_vars(Pass) /\ WF_vars(Tick)
    /\ \A x \in Nodes : /\ WF_vars(DSCreate(x)) /\ WF_vars(Schedule(x))
                        /\ WF_vars(PodBecomesReady(x)) /\ WF_vars(PodGone(x))

FairSpec == Spec /\ Fairness

-----------------------------------------------------------------------------
(* Safety.                                                                 *)

(* A recorded rollback always has somewhere else to go: a last-good template *)
(* exists and is not the one that failed, and the plan still names the       *)
(* failed one.  It is decided in gate (hasLastGood) and relied on many       *)
(* passes, crashes and edits later, when Reconcile renders the DaemonSet     *)
(* from status.lastGood.                                                     *)
RollbackTarget ==
    rollback # None => lastGood \notin {None, rollback} /\ plan.hash = rollback

(* When every spec carries a health gate, a template the gate never calls    *)
(* healthy never becomes status.lastGood, so it is never what a rollback     *)
(* restores; and no latch is ever recorded for it.  Done, the latch and      *)
(* re-planning (gate, reconcileForward) must agree for this.                 *)
LastGoodEarned ==
    (\A s \in Specs : s.healthGate) =>
      /\ lastGood # None => "healthy" \in GateObs[lastGood]
      /\ plan.gatedWaves > 0 => "healthy" \in GateObs[plan.hash]

(* A plan is immutable for its (templateHash, generation): no pass, crash or *)
(* fleet change moves a wave boundary, and the latch never goes back.        *)
PlanFrozen ==
    [][plan'.hash = plan.hash /\ plan'.gen = plan.gen =>
         /\ plan'.nodes = plan.nodes
         /\ plan'.waveSize = plan.waveSize
         /\ plan'.gatedWaves >= plan.gatedWaves]_vars

(* A failed template is not released again while its rollback stands: no     *)
(* step ungates a pod carrying rollback.fromHash.                            *)
FailedStaysGated ==
    [][rollback # None /\ rollback' # None =>
         \A x \in Nodes : PodGatedOn(x, rollback) =>
           pod'[x] # [st |-> "pending", hash |-> rollback]]_vars

(* Missing data never escalates: if every gate evaluation is unanswered or a *)
(* configuration error, the rollout neither pauses nor rolls back, however   *)
(* long that lasts (evalPromQL, onGateConfigError, decideGate).              *)
NoDataNeverEscalates ==
    (\A h \in Hashes : GateObs[h] \subseteq {"healthy", "unreachable", "configError"})
      => phase # "Paused" /\ rollback = None

(* Waves bound the disruption of an upgrade: while nodes and pods do not     *)
(* fail by themselves and the spec is not edited, the planned nodes whose    *)
(* old pod is gone and whose new one is not Ready yet all belong to one      *)
(* wave, until a rollback starts: a fleet "rolls one wave at a time"         *)
(* (README.md:146).  The delete, recreate, release and Ready steps of one    *)
(* wave must all be over before the next wave is touched (curWave, act       *)
(* step).  When a pass dies after deleting pods and before it has saved the  *)
(* plan, and nodes become Ready late, it does not hold (run lost_plan).      *)
OneWaveDisrupted ==
    MaxFaults = 0 /\ plan.gen = generation /\ rollback = None =>
      \E w \in 0 .. TotalWaves(plan) - 1 :
        {x \in plan.nodes \ StaleBound(plan.hash) : ~Updated(x, plan.hash)}
          \subseteq WaveNodes(plan, w)

-----------------------------------------------------------------------------
(* Liveness, under FairSpec: failures, edits and crashes are finite.         *)

(* With a gate that answers healthy, every rollout ends: the last submitted  *)
(* spec becomes Done with every Ready planned node on its template, and      *)
(* stays so - unless no Ready node is left.  Deleting, recreating, ungating, *)
(* binding and gating have to hand over to each other across passes.         *)
Converges ==
    <>[](ReadyTargets # {} =>
           /\ phase = "Done" /\ observedGeneration = generation
           /\ plan.hash = CurrentHash /\ plan.gen = generation
           /\ \A x \in plan.nodes \intersect ReadyTargets : Updated(x, CurrentHash))

-----------------------------------------------------------------------------
(* What the documentation says and the code does not keep; each has a run   *)
(* that shows the counterexample.                                           *)

(* "Every target node's pod matches current template and is Ready" is the    *)
(* condition for Done (docs/reconcile-design.md:101): with a healthy gate    *)
(* and a fleet that settles, all Ready nodes end up on the new template.     *)
EveryTargetUpdated == <>[](\A x \in ReadyTargets : Updated(x, CurrentHash))

(* A wave advances by ungating its pods "and deleting any left on an old     *)
(* template hash" (README.md:79): no Ready planned node keeps a pod of       *)
(* another template for ever.                                                *)
OldTemplatesDeleted ==
    <>[](\A x \in plan.nodes \intersect ReadyTargets :
           pod[x].hash \in {None, CurrentHash})
=============================================================================

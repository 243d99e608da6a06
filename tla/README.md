# FleetRollout: specification, model checking and proofs

FleetRollout is a Kubernetes operator that rolls a pod template over a fleet of
edge nodes in waves. Each wave has to pass a PromQL health gate before the next
one starts, and a gate that stays unhealthy pauses the rollout or rolls it back.
This directory holds TLA+ modules for its controller, the TLC configurations
that check them and TLAPS proofs of the main safety properties. Paths below are
relative to the repository; FC is `internal/controller/fleetrollout_controller.go`,
"types" is `api/v1alpha1/fleetrollout_types.go`.

## 1. The system

| Component | State | Operations | Hard because |
|---|---|---|---|
| Reconcile loop (FC `Reconcile`, `reconcileForward`) | `status` of the resource; the DaemonSet; scheduling gates of the pods | ensure the DaemonSet, Rule A (delete gated stale pods), plan, gate, delete or release the current wave, Done | one pass makes several API calls and saves its status last; everything it reads can change before the next pass |
| Wave planning (FC `resolveWaveSize`, types `RolloutPlan`) | `status.plan`: frozen node list, wave size | snapshot, slice into waves | rounding, last short wave, nodes that come and go after the snapshot |
| Health gate (FC `gate`, `decideGate`, `onGateHold`) | `gatedWaves`, `evaluatingWave`, `gateStartedAt` | evaluate, latch, wait, pause, roll back | a timeout that runs across restarts; missing data against bad data |
| Gate query evaluation (FC `evalPromQL`, `evalOneQuery`; `gatequery.go`) | none | normalise, render, query, compare | every way a response can be bad |
| Gate credentials and TLS (`gateauth.go`) | none | read Secret or ConfigMap, build client | a misconfiguration must not look like an outage or a failure |
| Rollback (FC `reconcileRollback`) | `status.rollback`, `status.lastGood` | release last-good pods, delete bad ones, complete | sticky, superseded by edits, bounded per pass |
| Template and hash (`template.go`) | none | render, hash, inject gate and labels | identity of a rollout is a 32-bit hash |
| Status conditions and counters (FC `setCond`, `setDegraded`) | `conditions`, `currentWave`, ... | set | written on some paths and kept on the others |
| Watches, predicates, cache, queue (FC `SetupWithManager`, `nodePredicate`, `ScopedCacheOptions`) | informer caches, work queue | enqueue, requeue | a pass may read a state older than its own last write; three phases ask for no requeue; pods are cached and not watched |
| Metrics, manager setup, generated code | counters | | not modelled |
| DaemonSet controller, scheduler, kubelet, nodes (external) | pods, nodes | create, bind, become Ready, fail | independent actors |

The reconciler and the cluster interact through shared objects only. The
reconciler deletes pods and removes their scheduling gate; the DaemonSet
controller (strategy OnDelete) recreates deleted pods from the current template,
gated; the scheduler binds ungated pods; kubelets report readiness and confirm
deletions; nodes appear, fail and return; the user edits the spec. `hazards` in
`PROJECT.json` lists where this is hard to test, by source line.

What makes it correct: no node is released ahead of the gates of its plan; a
plan does not move under its waves; missing data never escalates; a rollback has
a target, the target has earned it, and the failed template is not let out again;
an upgrade disrupts one wave at a time; what the status says is true of the
generation it is stamped with; a pass on stale reads cannot corrupt it; rollouts
and rollbacks end, and something wakes the controller until they have.

## 2. Modules

| Module | Models |
|---|---|
| `WavePlan` | `resolveWaveSize`, wave membership, `decideGate`: pure operators used by all others |
| `WaveSlices`, `MCWaveSlices` | the index arithmetic of the slices the controller and `waveNodesRegex` cut, tied to the operators of `WavePlan` |
| `FleetRollout`, `MCFleetRollout` | the reconcile loop, the resource, the cluster |
| `RolloutHistory`, `MCHistory` | `FleetRollout` with two history variables: who was released, whose gate passed |
| `GateSignal`, `MCSignal` | `FleetRollout` with a history of what the gate was told |
| `StatusConditions`, `MCConditions` | `FleetRollout` with `status.conditions` |
| `Lifecycle` | abstract specification: what the persisted status promises its reader |
| `RolloutRefinement` | the mapping under which `FleetRollout` implements `Lifecycle` |
| `CachedRollout`, `MCCached` | the reconciler behind informer caches and the work queue |
| `GateEval`, `MCGateEval` | one gate evaluation, from credentials to verdict |
| `WavePlanProofs` | lemmas about ranks and waves, for the next two |
| `WaveSlicesProofs`, `GateEvalProofs` | theorems about `WaveSlices` and `GateEval` |
| `FleetRolloutProofs`, `DisruptionProofs`, `RolloutHistoryProofs`, `ConditionProofs` | theorems about `FleetRollout` and its extensions |
| `RefinementProofs` | theorems about the refinement, with fresh reads and behind caches |

### FleetRollout

`spec`, `generation` are the resource; `phase`, `observedGeneration`, `plan`,
`lastGood`, `rollback` its status; `ds` is the hash of the DaemonSet's template;
`node` and `pod` the cluster. Templates are represented by their hash (`HashOf`),
node names by numbers whose order is the order `slices.Sort` gives the names, so
the frozen sorted list of a plan is a set. A pod is gated, pending (ungated,
unbound), bound, ready or terminating.

One reconcile pass that saves its status is one action, chosen by the code's
own branch conditions:

| Action | Code |
|---|---|
| `NoTargets` | no Ready node, FC 200-207 |
| `DeleteStaleGated` | Rule A, FC 230-245 |
| `RollBack` | `reconcileRollback`, FC 439-507 |
| `GateWait`, `GatePause`, `GateRollback` | `gate` and `onGateHold`, FC 593-618, 738-752 |
| `Complete` | nothing pending, final gate, adoption, Done, FC 319-362 |
| `DeleteWave`, `UngateWave`, `AwaitWave` | the act step, FC 383-433 |

All of them ensure the DaemonSet and stamp `observedGeneration` (`Ensure`) and
abandon a superseded rollback (`RollbackNow`). A gate that passes latches and the
same pass goes on to act, as in the code (`PastGate`). The gate's answer is a
free choice from `GateObs[hash]`: healthy, unhealthy, unreachable or a
configuration error.

`Interrupted` is a pass that returns an error, loses the race for the status
update or dies: the DaemonSet and any prefix of the pod writes stay (any subset
where the code iterates over a list or map in no defined order), and the status
does not change. Since the controller keeps nothing in memory, this is also its
restart.

`Tick` advances the age of a running gate, cut off at `Timeout` because the code
compares it with the timeout only. Initial states are a resource that was just
created (`FirstDeploy`), or a fleet on which an earlier template is Done and
whose spec has just been edited (`Upgrade`).

### StatusConditions

`cond` holds the conditions Ready, Progressing, RollingBack, HealthGatePassed and
Degraded, each with its status (for Degraded its reason) and the generation
`setCond` stamps. `CPass` repeats the branches of `Pass` and adds what each one
sets; everything a branch does not set keeps its value, which is the point.

### GateSignal

`badFor` is how long the running evaluation has been told nothing but unhealthy,
`brief` whether a rollback or a pause was ever decided on a younger signal than
`Timeout`. Both only record.

### Lifecycle and RolloutRefinement

`Lifecycle` has no pods, passes or clock: a generation is planned once, its mark
of passed gates climbs, Done makes a template last-good if all gates are behind
it, and a failing gate gives the template up for an older last-good one until the
spec moves away. `RolloutRefinement` maps the status of `FleetRollout` onto it,
dropping the evaluation clock from the plan, and `StatusKeepsPromise` says that
every step maps to a step of `Lifecycle` or changes nothing there. A single pass
may plan, latch a gate and complete, so the abstract steps are that coarse too.

### CachedRollout

The variables of `FleetRollout` are what the API server stores. `V` instantiates
the same module a second time, over the caches `cfr`, `cds`, `cnode` and `cpod`:
a pass decides with `V` and writes to the store.

- Each kind has its own watch, and `SyncResource`, `SyncDaemonSet`, `SyncNodes`,
  `SyncPods` may each lag for any time. The first three put a request in the
  queue (`For`, `Owns`, `Watches`). `SyncPods` does not: pods are in the cache only
  because passes list them (`ScopedCacheOptions`).
- Every pass updates the DaemonSet: `CreateOrUpdate` overwrites the template with
  a rendered one that lacks the API server's defaults, so it always finds a
  difference - unless the user has spelled all the defaults out and the cached
  hash is the wanted one (`DSMaySkip`). Both are possible in the model.
- An update carries the resource version it read: the DaemonSet conflicts if it
  has changed, its status included (`DSConflict`), and the pass ends there;
  ungating conflicts pod by pod
  (`Conflicts`) and leaves the pods before the first conflict ungated; the status
  conflicts if the resource has changed (`Save`). A conflict is an error, and the
  request stays queued.
- A delete goes by name without a precondition. The DaemonSet never reuses a
  name, so it hits the pod that was read or, if that is gone (`gone`), nothing.
- `queued` and `timer` are the work queue, which holds a resource at most once, and
  a running `RequeueAfter`. Events do not stop a timer; it only adds a request.
- `Restart` relists everything. `Resync` is the informers' periodic resync.

### GateEval

The steps of `gate` before `decideGate`: `ResolveAuth`, `BuildTLSClient`,
`RenderQueries`, then one `EvalPromQL` step per query. What Secrets, CA bundles
and Prometheus return is chosen freely at every step. `verdict` is the answer
`FleetRollout` receives. Samples are integers, NaN (with IEEE comparison) or
malformed; a response may fail in each of the ways `evalOneQuery` tells apart.

## 3. Runs

| Run | Shows | Instance |
|---|---|---|
| `waves` | `TypeOK`, `WaveBounded`, `PlanFrozen` | upgrade of 3 nodes; one edit between waves of 1 and of 2; one failure; all answers |
| `settle` | `RollbackTarget`, `LastGoodEarned`, `StampsAreTrue`, `FailedStaysGated`, `StatusKeepsPromise` (refinement), `Settles` (liveness) | first deploys and upgrades on 2 nodes, one of them Ready at the start and one in any state, to a template whose gate answers unhealthy; one edit (two after a first deploy), one failure, one pass interrupted anywhere |
| `lag` | `OneWaveDisrupted`, `NoDataNeverEscalates`, `Converges` (liveness) | caches; upgrade of 3 Ready nodes in waves of 1 or 2 (gated) or 1 (ungated); answers healthy, unreachable or configuration error |
| `stale_reads` | `DaemonSetFollows`, `StatusKeepsPromise` (refinement), `Recovers` (liveness) | caches; upgrade of 1 node; one edit (back to the first template, or of the policy to Never), one failure, one restart, resync; the second template always fails its gate |
| `slices` | `SlicesAreWaves`, `GateJudgesItsWave`, `WaveCountBounded` | every subset of 7 names, 9 counts and 10 percentages |
| `gate_eval` | `HealthyIsProven`, `UnhealthyIsProven`, `NothingSentUnconfigured` | one and two queries, every operator, up to 2 samples of 0, 1, NaN, malformed |

Why these bounds: three nodes in waves of one give a wave before, at and after
the one a gate judges, and with waves of two a short last wave. Two templates
suffice for a rollout, its rollback and going back; the generations (`MaxGen`)
allow an edit in the middle of either. One failure (`MaxFaults`) allows a node to
leave a wave and return, which takes no further failure. `Timeout` is one or two
ticks, so that both "before" and "past" occur. In `stale_reads` one node is enough
because what its properties relate - the status, the DaemonSet, one pod and the
caches of each - exists once per node or once at all: Rule A on a pod that has been
bound since it was read, a failed template's pod released once more, and every
conflict between two writers of one object already occur; waves over several nodes
behind caches are the subject of `lag`. In `settle`, two nodes in waves of one leave
one wave behind the failing gate and one before it. The safety theorems of section 5
do not depend on any of this.

Deadlock is checked except in `slices` and `gate_eval`, which describe
computations that end.

### Fairness

`CFairness` (run `settle`, and `Fairness` for the two findings about liveness)
assumes weak fairness of passes, of time, and of the cluster's controllers
creating, binding, readying and collecting pods. It takes for granted that passes
keep coming.

`LFairness` (run `lag`) does not: a pass runs only when it is queued, and what is
assumed is that a queued request is worked on, a started timer fires, watches
deliver, and the cluster's controllers act. Strong fairness of the two branches
behind the gate says that a gate which may answer healthy each time it is asked
will not answer otherwise for ever. Nothing is promised of a pass that may run into
a conflict on the DaemonSet; it is retried, and the watch delivers the newer
DaemonSet in the end. The periodic resync (hours apart) is not assumed. So
`Converges` in `lag` shows that timers and events are enough in every non-terminal
phase, which `CFairness` relies on.

`ResyncFairness` (run `stale_reads`) adds the resync, time, and that no watch is
delayed for ever by the others. `Recovers` needs the resync for the reason
`missed_wakeup` shows: a pass that has read pods from before a failure may declare
Done, and the pod cache catching up wakes nobody.

Nothing is assumed about failures, edits, interrupted passes, or nodes coming
back; all but the last are finite by their bounds, so the liveness properties
speak about a system that is eventually left alone. A node that stays NotReady
for ever is allowed.

## 4. Where the code and its documentation disagree

Each has a run (`expect: violation`) whose trace is the evidence.

| Run | Documentation | What happens |
|---|---|---|
| `late_node` | Done means "Every target node's pod matches current template and is Ready" (`docs/reconcile-design.md:101`) | a node that was NotReady when the plan was frozen returns with its old pod: it is in no wave, the adoption step looks for gated pods only, and the rollout is Done |
| `unschedulable` | a wave deletes pods "left on an old template hash" (`README.md:79`) | a pod released on the first template that cannot be scheduled is neither gated (Rule A) nor bound (act step), so the corrected template never reaches its node |
| `skipped_gate` | "health gates for waves [0, gatedWaves) of THIS plan have passed" (types 240) | a wave that is complete because its nodes are NotReady is passed over; only the gate of the latest complete wave runs |
| `missed_wakeup` | "watch on Pods will retrigger us" (`docs/reconcile-design.md:150`) | no pods are watched: if the DaemonSet's event is handled before the new pod is in the pod cache, a completed rollout does not adopt the pod of a joined node until something else happens |
| `brief_signal` | only an unhealthy signal "that persists past the timeout" escalates (FC 632) | the clock starts with the evaluation and runs through an outage, so one unhealthy answer after it rolls back at once |
| `lost_plan` | a fleet "rolls one wave at a time" (`README.md:146`); a restart costs at worst "a duplicate no-op pod-hash check or a re-run PromQL query" (`docs/reconcile-design.md:269`) | a pass deletes the pods of its first wave and dies before the plan is saved; a node becomes Ready, the next pass freezes another plan, and nodes of two of its waves are down |

Further remarks, which the modules model as the code has them:

- A rollback deletes at most `size` pods per pass (FC 461), which does not bound
  the pods that are down at once, since the next pass counts afresh.
- A rollback that is "sticky until spec changes" (FC 490) ends only with a change
  of the template (FC 159), not with an edit of the wave size, gate or policy.
- Going back to the last-good template while its gate does not answer leaves the
  phase at RolledBack with `rollback` nil until it answers, since the branch with
  nothing pending sets no phase (FC 320).
- A wave is released before its latch is saved. If that pass is interrupted, the
  wave runs unlatched and the gate may still hold it. `WaveBounded` therefore
  speaks of executions without an interrupted pass (`crashes = 0`); it is also
  stated so that it holds in spite of `skipped_gate` ("some gate at or after wave
  w-1").
- Rule A deletes gated pods because they are "unscheduled" and so have "zero
  workload impact" (FC 230). It picks them from the cache and deletes them by name,
  without a precondition: one that has been released and bound since it was cached
  is deleted while it starts or runs. The act step (FC 406) deletes in the same way.
  In `stale_reads` this happens, and `Recovers` shows that the rollout gets over it.
- Behind lagging caches a pass that does not see the rollback yet may release a pod
  of the failed template once more (`FailedStaysGated` is a property of fresh
  reads). The status stays right, since the pass's update conflicts
  (`StatusKeepsPromise`), and the rollback still ends with every Ready node on
  last-good (`Recovers`).
- `OneWaveDisrupted` fails only when a plan is lost and a node becomes Ready late
  (`lost_plan`). It holds with either of the two alone: each is proved, and behind
  caches `lag` checks it for Ready nodes.
- `StampsAreTrue` gives the conditions weaker meanings than
  `docs/reconcile-design.md:251-254`: Ready means that this template has completed,
  not that the phase is still Done (only a completed rollback sets it to False, FC 495,
  so a completed rollout that loses a pod is Progressing and Ready), and HealthGatePassed that some
  gate of this plan has passed, not that of the most recent wave.

## 5. Proofs

All theorems hold for every finite set of nodes, every set of templates, specs
and gate behaviours, and every bound. They rest on named assumptions, which TLC
evaluates in every run: those of `FleetRollout` (node names are naturals, `HashOf`
is a function into the hashes, specs are well formed, bounds are naturals), of
`GateEval` (a gate has at least one query, which the API server requires, and
`MaxSamples` is a natural) and of `WaveSlices` (names are naturals, a wave size is a
count or a positive percentage, the validation rule at types 59).

| Theorem | Statement |
|---|---|
| `TypeCorrect` | `Spec => []TypeOK` |
| `PlanIsFrozen` | `Spec => PlanFrozen` |
| `RollbackHasTarget` | `Spec => []RollbackTarget` |
| `LastGoodIsEarned` | `Spec => []LastGoodEarned` |
| `NoDataIsSafe` | `Spec => []NoDataNeverEscalates` |
| `FailedTemplateStaysGated` | `Spec => FailedStaysGated` |
| `OneWaveAtATime` | `UpgradeSpec => [](generation = 2 /\ crashes = 0 => OneWaveDisrupted)` |
| `OneWaveDespiteCrashes` | `ReadyUpgradeSpec => [](generation = 2 => OneWaveDisrupted)` |
| `ReleasesFollowTheGate` | `HSpec => []WaveBounded` |
| `StatusRefinesLifecycle` | `Spec => StatusKeepsPromise`, that is, `FleetRollout` implements `Lifecycle` |
| `ConditionsAreTrue` | `CSpec => []StampsAreTrue` |
| `CachedTypeCorrect` | `LSpec => [](TypeOK /\ CacheOK)` |
| `CachedRefinesLifecycle` | `LSpec => StatusKeepsPromise`: `CachedRollout` implements `Lifecycle` |
| `CachedLastGoodIsEarned` | `LSpec => []LastGoodEarned` |
| `CachedNoDataIsSafe` | `LSpec => []NoDataNeverEscalates` |
| `CachedRollbackHasTarget` | `LSpec => []RollbackTarget` |
| `DaemonSetAlwaysFollows` | `LSpec => []DaemonSetFollows` |
| `SlicesAlwaysWaves` | `SliceSpec => []SlicesAreWaves` |
| `GateAlwaysJudgesItsWave` | `SliceSpec => []GateJudgesItsWave` |
| `WaveCountAlwaysBounded` | `SliceSpec => []WaveCountBounded` |
| `HealthyAlwaysProven` | `Spec => []HealthyIsProven` (of `GateEval`, also the next two) |
| `UnhealthyAlwaysProven` | `Spec => []UnhealthyIsProven` |
| `NothingSentBeforeConfigured` | `Spec => []NothingSentUnconfigured` |

- `TypeOK` needs lemmas about the arithmetic (`ResolveWaveSizeRange`,
  `TotalWavesPositive`, `CurWaveType`) and about what `DeletePods`, `UngatePods`
  and `ApplyRollback` do to pods; a release keeps types only because the released
  pods are gated.
- `PassPlan` describes once what a pass can do to the plan: leave it, or move
  `PlanNow` by `PlanStep` (same identity, nodes and size; latch not lower). Plan
  immutability and the other plan facts follow from it.
- `RollbackTarget` is inductive together with `TypeOK`. Its conjunct
  `plan.hash = rollback` is what survives the many passes between the decision
  and its execution, since the forward path never runs while a rollback stands.
- `LastGoodEarned` is inductive only with its second conjunct, about latches:
  Done may rest on a latch set by an earlier pass. The step needs
  `TotalWavesPositive` and `CurWaveComplete`: with nothing pending the gate
  consulted is the one of the last wave, never none.
- `FailedStaysGated` uses `RollbackTarget`: every release of a pass is on
  `DesiredHash`, which is not the failed hash (`NotTheFailedHash`).
- `WaveBounded` is strengthened by `plan.gen <= generation` (an old plan cannot
  come to match a later generation) and `released \subseteq Nodes`. Releases
  happen in `Complete` and `UngateWave` only (`OthersReleaseNothing`), both behind
  `PastGate` (`ForwardReleases`), and `PlanFrozen` carries earlier releases over.
  An interrupted pass makes the hypothesis `crashes = 0` false for good.
- `OneWaveDisrupted` is far from inductive: it does not say that the waves before
  the disrupted one are finished and the ones after it untouched. `Divides(p, w)`
  says so, and `Frontier` that some wave divides the plan. Without crashes
  (`DisruptInv`) either the plan of the upgrade has not been frozen and every node
  still has its old pod, or `Frontier(plan)`. With crashes (`ReadyInv`) the plan may
  be lost after pods were deleted, so the invariant is about `PlanNow`, the plan the
  next pass will work with; it is the same plan again because `ReadyTargets` does
  not change. A pass acts on `CurWave`, which divides the plan (`CurWaveDivides`,
  from `CurWaveLeads`: the complete waves are a prefix); the cluster's own steps and
  Rule A touch neither updated nor old running pods (`EnvUndisturbed`,
  `GatedUndisturbed`). TLC checked both invariants on a fleet of three nodes
  before they were proved.
- Both refinement theorems go through `StatusStep`, a description of what one pass
  may do to the status: leave it (`Keeps`), or take a plan it may work on (`Works`)
  and either be held by the gate (`Holds`) or get past it (`Passes`).
  `StatusRefines` maps it to `Lifecycle`, using `TypeOK` only, with the mark within
  the number of waves on either side of the gate (`PastGateMark`, `CurWaveBound`).
  `PassStatus` shows it for a pass that reads the store. Behind caches
  `LPassStatus` shows it too: `Save` takes effect only if the cached resource is the
  stored one (`CallsSave`), and then the pass has decided from the current spec,
  plan and latch (`FreshView`, `FreshWorks`). Its nodes and pods may still be old;
  `StaleCurWave` bounds the wave it believes in, whatever they are. The other
  `Cached` theorems rest on the same lemmas.
- `DaemonSetFollows` says what happens when nothing is due. `DSInv` adds why: the
  cached DaemonSet is the stored one unless an event is on its way, the cached spec is
  the stored one unless it is of an older generation, and a pass that takes the last
  request from the queue has seen both as they are (`LPassDSInv`). It compares the
  generation, rollback and last-good of the cached resource (`Fresh`) and not all of
  it, because the clock in `plan` is cut off and two ages may become equal.
- `SliceInv`: the plan is the one frozen for some set of Ready nodes, and the walk
  has acted on the waves below the one it has reached. `SortedIsSorted` says what
  position a name has in the sorted list (`Sorted` is also compared with the
  library's `SetToSortSeq` by an assumption of `MCWaveSlices`), `SliceIsRanks` what a
  slice of it contains, `WaveSliceIsWave` and `RegexIsWave` that the two computations
  of start and end agree with `WaveOf`. `PercentCovers` is the arithmetic behind the
  number of waves: ceil(100/p) slices of ceil(p*n/100) nodes cover n nodes.
- `GateInv` records what holds between two steps of an evaluation: nothing was
  asked before the queries are rendered, every answer so far carried data, and
  `allPass` tells whether all samples so far met their thresholds (`Collected`).
  `EvalOneQueryMeans` states the outcome of one query for any number of samples.
- `StampsAreTrue` is inductive with `TypeOK`, `RollbackTarget` and `CondsOK` (no
  condition is stamped beyond the current generation, so an edit outdates all of
  them). The step has two halves: what a condition claims stays true through a pass
  (`PassKeepsTruth`; for a rollback because `RollbackTarget` keeps it from being
  abandoned), and what a pass newly claims is true (`PassHonest`, branch by branch).

Only model-checked: `OneWaveDisrupted` behind caches (run `lag`), and the liveness
properties `Settles`, `Converges` and `Recovers`, since liveness under fairness is outside the
prover's reach.

## 6. Not modelled

- Counters, messages and transition times of the status. The conditions WaveReady
  and HealthGateConfigValid are left out because the code only ever sets them to
  False, so they say nothing after the first time. How long a pod has been
  Terminating (stuck-pod detection) is a free choice.
- Operator metrics: copied from the status after it is saved, read by nobody in
  the controller. Manager setup, generated code and manifests.
- Deletion of the resource and the one-time stripping of legacy annotations.
- Label selectors: a node matches or does not, for the reconciler and the
  DaemonSet alike. `renderDSTemplate` copies `matchLabels` only (`template.go:86`);
  a selector with `matchExpressions` would select fewer nodes than the DaemonSet.
- Several FleetRollouts over one fleet (documented as unsupported), collisions of
  the 32-bit template hash, secret contents and certificate checks.
- What NaN should mean: `GateEval` compares it as Go does, so `ne` accepts it.
- A pass of `CachedRollout` reads its caches at one moment, although they may move
  between two lists of one pass; errors other than conflicts are in
  `FleetRollout` (`Interrupted`), not here.

## 7. Plan

Done: the modules of section 2 and the theorems of section 5. Next, in this order:

1. `OneWaveDisrupted` behind caches, for a fleet that is Ready from the start: the
   invariant has to relate the pods a pass has read to the stored ones.
2. `LSpec => PlanFrozen`, and what is left of `FailedStaysGated` behind caches: the
   release of a failed template's pod needs a resource cache from before the rollback.

---------------------------- MODULE CachedRollout ---------------------------
(***************************************************************************)
(* The controller behind its informers and its work queue.  FleetRollout   *)
(* lets a pass read the API server; here it reads caches that lag behind   *)
(* it, and it runs only when something has put a request in the queue.     *)
(*                                                                         *)
(* The variables of FleetRollout are what the API server stores.  V is the *)
(* same module read through the caches: what a pass believes.              *)
(*                                                                         *)
(* Each kind has its own watch; a cache is the store at some earlier       *)
(* moment and a Sync brings it up to date.  Writes go to the store:        *)
(*  - an update (DaemonSet, pod, status) carries the resource version that *)
(*    was read and fails with a conflict if the object has changed since;  *)
(*  - a delete names a pod.  The DaemonSet never reuses a name, so it hits *)
(*    the pod that was read or, if that one is gone, nothing.              *)
(* A pass that gets an error leaves what it has written and is retried.    *)
(***************************************************************************)
EXTENDS RolloutRefinement

VARIABLES
    cfr,      \* the cached resource, spec and status
    cds,      \* the cached DaemonSet: its template hash
    cnode,    \* the cached nodes
    cpod,     \* the cached pods
    gone,     \* nodes whose cached pod no longer exists
    dsDirty,  \* a change of the DaemonSet that has not been delivered
    queued,   \* a request is in the work queue
    timer     \* a RequeueAfter is running

caches == <<cfr, cds, cnode, cpod>>
queue  == <<queued, timer>>
cvars  == <<vars, caches, gone, dsDirty, queue>>

V == INSTANCE FleetRollout WITH
       spec <- cfr.spec, generation <- cfr.generation, phase <- cfr.phase,
       observedGeneration <- cfr.observedGeneration, plan <- cfr.plan,
       lastGood <- cfr.lastGood, rollback <- cfr.rollback,
       ds <- cds, node <- cnode, pod <- cpod

\* The resource as the API server has it.
Stored == [spec |-> spec, generation |-> generation, phase |-> phase,
           observedGeneration |-> observedGeneration, plan |-> plan,
           lastGood |-> lastGood, rollback |-> rollback]

\* The counts in the DaemonSet's status.
DSCounts == << Cardinality({x \in Nodes : node[x] # "absent"}),
               Cardinality({x \in Nodes : pod[x] # NoPod}),
               Cardinality({x \in Nodes : pod[x].hash = ds}),
               Cardinality({x \in Nodes : pod[x].st = "ready"}) >>

\* What the store's changes mean for the watches.
Watched ==
    /\ gone' = gone \union {x \in Nodes : cpod[x] # NoPod /\ pod'[x] = NoPod}
    /\ dsDirty' = (dsDirty \/ ds' # ds \/ (ds # None /\ DSCounts' # DSCounts))

-----------------------------------------------------------------------------
(* The writes of a pass.                                                   *)

\* CreateOrUpdate of the DaemonSet compares the rendered template with the
\* cached one.  It lacks the API server's defaults, so every pass sends an
\* update, unless the user has spelled them all out and the hash is right.
DSMaySkip == cds = V!DesiredHash

\* An update conflicts (a create: AlreadyExists) if the stored one has moved on,
\* be it only in its status.
DSConflict == dsDirty

\* Pods a pass wants to ungate that have changed since they were read.  One
\* that is gone is NotFound, which is ignored.
Conflicts(U) == {x \in U \ gone : pod[x] # cpod[x]}

\* The pods ungated when the loop over U meets its first conflict.
InOrder(U)  == {{x \in U : \A y \in Conflicts(U) : x < y}}
AnyOrder(U) == IF Conflicts(U) = {} THEN {U} ELSE SUBSET (U \ Conflicts(U))

\* How a pass asks to run again: after a delay, having acted, waiting for pods
\* or polling the gate.
RequeueActed      == "later"
NoRequeue         == "none"
RequeueConverging == "later"
RequeueGate       == "later"

\* Variant with a bug: the status is written over whatever is stored.
SaveBlind(s, wake) ==
    /\ phase' = s.phase /\ plan' = s.plan /\ lastGood' = s.lastGood
    /\ rollback' = s.rollback /\ observedGeneration' = cfr.generation
    /\ queued' = (wake = "now")
    /\ timer' = (timer \/ wake = "later")

\* finish: the status update, then the result.  A conflict is an error, and an
\* error puts the request back.
Save(s, wake) ==
    IF cfr = Stored
      THEN /\ phase' = s.phase /\ plan' = s.plan /\ lastGood' = s.lastGood
           /\ rollback' = s.rollback /\ observedGeneration' = generation
           /\ queued' = (wake = "now")
           /\ timer' = (timer \/ wake = "later")
      ELSE UNCHANGED <<status, queue>>

\* The API calls of a pass: the DaemonSet, the pods to ungate (in one of the
\* ways the loop may stop), the pods to delete, the status s.
Calls(ungated, U, D, s, wake) ==
    /\ UNCHANGED <<resource, cluster, crashes, caches>>
    /\ \/ DSConflict /\ UNCHANGED <<ds, pod, status, queue>>
       \/ /\ DSMaySkip \/ ~DSConflict
          /\ ds' = IF DSMaySkip THEN ds ELSE V!DesiredHash
          /\ IF Conflicts(U) # {}
               THEN /\ pod' = UngatePods(ungated \ gone)
                    /\ UNCHANGED <<status, queue>>
               ELSE /\ pod' = ApplyRollback(U \ gone, D \ gone)
                    /\ Save(s, wake)
    /\ Watched

Ungates(U, s, wake) == \E ungated \in InOrder(U) : Calls(ungated, U, {}, s, wake)
Deletes(D, s, wake) == Calls({}, {}, D, s, wake)

Verdict(ph, p, good, back) ==
    [phase |-> ph, plan |-> p, lastGood |-> good, rollback |-> back]

Keep(ph) == Verdict(ph, cfr.plan, cfr.lastGood, V!RollbackNow)

-----------------------------------------------------------------------------
(* One action per branch of Reconcile, on what the caches show.  The plan   *)
(* is bound by \E so that it is evaluated once.                             *)

LNoTargets ==
    /\ queued /\ V!ReadyTargets = {}
    /\ Deletes({}, Keep("Progressing"), RequeueConverging)

LDeleteStaleGated ==
    LET D == V!StaleGated(V!DesiredHash)
    IN  /\ queued /\ V!ReadyTargets # {}
        /\ D # {}
        /\ Deletes(D, Keep("Progressing"), RequeueActed)

LRollBack ==
    LET U == V!RollbackUngates
        D == V!RollbackDeletes
        over == /\ U \union D = {}
                /\ \A x \in V!ReadyTargets : V!Updated(x, V!DesiredHash)
    IN  /\ queued /\ V!RollsBack
        /\ \E ungated \in InOrder(U) :
             \/ over /\ Calls(ungated, U, D, Keep("RolledBack"), "none")
             \/ /\ ~over /\ U \union D = {}
                /\ Calls(ungated, U, D, Keep("RollingBack"), RequeueConverging)
             \/ /\ U \union D # {}
                /\ Calls(ungated, U, D, Keep("RollingBack"), RequeueActed)

\* A closed gate that does not pass.
LGateHolds ==
    /\ queued /\ V!Forward
    /\ \E p \in {V!PlanNow} : \E k \in {V!CurWave(p)} : \E obs \in GateObs[p.hash] :
         LET held(ph, back) == Verdict(ph, V!Armed(p, k), cfr.lastGood, back)
         IN  /\ ~V!GateOpen(p, k)
             /\ \/ /\ V!GateDecision(p, k, obs) = "gateWait"
                   /\ Deletes({}, held(IF V!Pending(p) = {} THEN cfr.phase
                                       ELSE "Progressing", None), RequeueGate)
                \/ /\ V!GateDecision(p, k, obs) = "gatePauseTimeout"
                   /\ Deletes({}, held("Paused", None), "none")
                \/ /\ V!GateDecision(p, k, obs) = "gateRollback"
                   /\ Deletes({}, held("RollingBack", p.hash), "now")

LComplete ==
    /\ queued /\ V!Forward
    /\ \E p \in {V!PlanNow} :
         /\ V!Pending(p) = {}
         /\ \E q \in V!PastGate(p, V!CurWave(p)), ungated \in AnyOrder(V!Adoptable(p)) :
              Calls(ungated, V!Adoptable(p), {}, Verdict("Done", q, p.hash, None), "none")

LAdvance ==
    /\ queued /\ V!Forward
    /\ \E p \in {V!PlanNow} :
         /\ V!Pending(p) # {}
         /\ \E q \in V!PastGate(p, V!CurWave(p)) :
              LET s == Verdict("Progressing", q, cfr.lastGood, None)
              IN  \/ /\ V!WaveStale(p) # {}
                     /\ Deletes(V!WaveStale(p), s, RequeueActed)
                  \/ /\ V!WaveStale(p) = {} /\ V!WaveUngate(p) # {}
                     /\ Ungates(V!WaveUngate(p), s, RequeueActed)
                  \/ /\ V!WaveStale(p) \union V!WaveUngate(p) = {}
                     /\ Deletes({}, s, RequeueConverging)

LPass == \/ LNoTargets \/ LDeleteStaleGated \/ LRollBack
         \/ LGateHolds \/ LComplete \/ LAdvance

-----------------------------------------------------------------------------
(* Watches, timers and restarts.                                           *)

Delivered == UNCHANGED <<vars, timer>> /\ queued' = TRUE

\* For(FleetRollout): every change, the controller's own status writes included.
SyncResource ==
    /\ cfr # Stored
    /\ cfr' = Stored
    /\ Delivered /\ UNCHANGED <<cds, cnode, cpod, gone, dsDirty>>

\* Variant with a bug: the DaemonSet is cached and not watched.
SyncDaemonSetUnwatched ==
    /\ cds # ds \/ dsDirty
    /\ cds' = ds /\ dsDirty' = FALSE
    /\ UNCHANGED <<vars, queue, cfr, cnode, cpod, gone>>

\* Owns(DaemonSet): template and status.
SyncDaemonSet ==
    /\ cds # ds \/ dsDirty
    /\ cds' = ds /\ dsDirty' = FALSE
    /\ Delivered /\ UNCHANGED <<cfr, cnode, cpod, gone>>

\* Watches(Node) with nodePredicate: readiness and labels, arrivals, departures.
SyncNodes ==
    /\ cnode # node
    /\ cnode' = node
    /\ Delivered /\ UNCHANGED <<cfr, cds, cpod, gone, dsDirty>>

\* Pods are cached because passes list them, and not watched: nothing is queued.
SyncPods ==
    /\ cpod # pod \/ gone # {}
    /\ cpod' = pod /\ gone' = {}
    /\ UNCHANGED <<vars, cfr, cds, cnode, dsDirty, queue>>

TimerFires ==
    /\ timer
    /\ timer' = FALSE /\ queued' = TRUE
    /\ UNCHANGED <<vars, caches, gone, dsDirty>>

\* The periodic resync of the informers.
Resync ==
    /\ ~queued
    /\ Delivered /\ UNCHANGED <<caches, gone, dsDirty>>

\* The process restarts: it lists everything and queues every resource.
Restart ==
    /\ crashes < MaxCrashes
    /\ crashes' = crashes + 1
    /\ cfr' = Stored /\ cds' = ds /\ cnode' = node /\ cpod' = pod
    /\ gone' = {} /\ dsDirty' = FALSE
    /\ queued' = TRUE /\ timer' = FALSE
    /\ UNCHANGED <<resource, status, ds, cluster, pod>>

Aged(p) == IF p.evaluatingWave # NoWave /\ p.age < Timeout
             THEN [p EXCEPT !.age = @ + 1] ELSE p

\* gateStartedAt is a time stamp: it ages in the store and in the cache.
LTick ==
    /\ Aged(plan) # plan \/ Aged(cfr.plan) # cfr.plan
    /\ plan' = Aged(plan)
    /\ cfr' = [cfr EXCEPT !.plan = Aged(@)]
    /\ UNCHANGED <<resource, phase, observedGeneration, lastGood, rollback, ds,
                   cluster, pod, crashes, cds, cnode, cpod, gone, dsDirty, queue>>

InCluster(A) == A /\ Watched /\ UNCHANGED <<caches, queue>>

LEnv ==
    \/ LTick
    \/ InCluster(EditSpec)
    \/ \E x \in Nodes :
         \/ InCluster(DSCreate(x)) \/ InCluster(Schedule(x))
         \/ InCluster(PodBecomesReady(x)) \/ InCluster(PodBecomesUnready(x))
         \/ InCluster(Evict(x)) \/ InCluster(PodGone(x))
         \/ InCluster(NodeDown(x)) \/ InCluster(NodeLeaves(x))
         \/ InCluster(NodeUp(x)) \/ InCluster(NodeJoins(x))

\* The informers have synced before the first pass; the resource's own
\* creation or edit is the first event.
LInit ==
    /\ Init
    /\ cfr = Stored /\ cds = ds /\ cnode = node /\ cpod = pod
    /\ gone = {} /\ dsDirty = FALSE
    /\ queued = TRUE /\ timer = FALSE

LNext == \/ LPass \/ LEnv
         \/ SyncResource \/ SyncDaemonSet \/ SyncNodes \/ SyncPods
         \/ TimerFires \/ Resync \/ Restart

LSpec == LInit /\ [][LNext]_cvars

Sync      == SyncResource \/ SyncDaemonSet \/ SyncNodes \/ SyncPods
Kubelets  == \E x \in Nodes : InCluster(\/ DSCreate(x) \/ Schedule(x)
                                        \/ PodBecomesReady(x) \/ PodGone(x))

\* Workers, watches, timers and the cluster's controllers get their turn, and a
\* gate that would pass again and again is asked at such a moment.  Nothing is
\* promised of a pass that may run into a conflict on the DaemonSet.  The
\* periodic resync (hours apart) is not relied on.
LFairness ==
    /\ WF_cvars(LPass /\ ~DSConflict) /\ WF_cvars(TimerFires)
    /\ WF_cvars(Sync) /\ WF_cvars(Kubelets)
    /\ SF_cvars((LAdvance \/ LComplete) /\ ~DSConflict)

\* With the resync, a clock that goes on, and no watch delayed for ever by the
\* others.
ResyncFairness ==
    /\ LFairness /\ WF_cvars(Resync) /\ WF_cvars(LTick)
    /\ WF_cvars(SyncResource) /\ WF_cvars(SyncDaemonSet)
    /\ WF_cvars(SyncNodes) /\ WF_cvars(SyncPods)

-----------------------------------------------------------------------------
(* A controller at rest has its DaemonSet right: when the stored resource    *)
(* asks for another template than the DaemonSet has - after an edit, a       *)
(* rollback decision, or a pass that took a stale DaemonSet for the wanted   *)
(* one - a pass is queued or an event that queues one is on its way.         *)
(* Nothing else repairs it: Done, Paused and RolledBack ask for no requeue.  *)
DaemonSetFollows ==
    ds # DesiredHash => queued \/ dsDirty \/ cfr # Stored

(* Whatever was decided from stale caches - a running pod deleted as gated,  *)
(* a failed template's pod released once more, a DaemonSet left on the       *)
(* wrong template - and whatever failed, was edited or restarted before, the *)
(* rollout comes to rest: Done on its template if its gate answers healthy,  *)
(* and else RolledBack, with every Ready node on last-good, unless there is  *)
(* no last-good or no policy to return to it.                                *)
Recovers ==
    LET done == /\ phase = "Done" /\ ds = CurrentHash
                /\ \A x \in plan.nodes \intersect ReadyTargets : Updated(x, CurrentHash)
        rolledBack == /\ phase = "RolledBack" /\ rollback = CurrentHash /\ ds = lastGood
                      /\ \A x \in ReadyTargets : Updated(x, lastGood)
        paused == /\ phase = "Paused"
                  /\ lastGood = None \/ spec.rollbackPolicy = "Never"
    IN  <>[](ReadyTargets # {} =>
               /\ observedGeneration = generation
               /\ IF "healthy" \in GateObs[CurrentHash] THEN done
                  ELSE rolledBack \/ paused)

-----------------------------------------------------------------------------
(* What the documentation and comments say and the code does not keep.       *)

(* "watch on Pods will retrigger us" (docs/reconcile-design.md:150): when    *)
(* everything has been delivered and a completed rollout has a joined node's *)
(* pod to adopt, a pass is on its way.  SetupWithManager watches no pods.    *)
PodsRetrigger ==
    /\ cfr = Stored /\ cds = ds /\ cnode = node /\ cpod = pod /\ ~dsDirty
    /\ phase = "Done" /\ plan.gen = generation /\ Adoptable(plan) # {}
    => queued \/ timer
=============================================================================

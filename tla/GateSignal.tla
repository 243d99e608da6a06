----------------------------- MODULE GateSignal -----------------------------
(***************************************************************************)
(* FleetRollout with a history of what the gate was told, to relate the    *)
(* decision to roll back or pause to the answers before it.                *)
(***************************************************************************)
EXTENDS FleetRollout

VARIABLES
    badFor,  \* how long the gate in evaluation has answered unhealthy only
    brief    \* some decision was taken on a signal younger than the timeout

gvars == <<vars, badFor, brief>>

NoSignal == -1

GInit == badFor = NoSignal /\ brief = FALSE

\* The unhealthy signal, after an answer to the evaluation that plan' records.
Signal(obs) ==
    IF obs # "unhealthy" THEN NoSignal
    ELSE IF badFor = NoSignal \/ plan'.evaluatingWave # plan.evaluatingWave THEN 0
    ELSE badFor

Heard ==
    LET p == PlanNow  k == CurWave(p)
    IN  \E obs \in GateObs[p.hash] :
          /\ \/ GateWait     /\ GateDecision(p, k, obs) = "gateWait"
             \/ GatePause    /\ GateDecision(p, k, obs) = "gatePauseTimeout"
             \/ GateRollback /\ GateDecision(p, k, obs) = "gateRollback"
          /\ badFor' = Signal(obs)
          /\ brief' = (brief \/ (/\ GateDecision(p, k, obs) # "gateWait"
                                 /\ Signal(obs) < Timeout))

Elapsed ==
    /\ Tick
    /\ badFor' = IF badFor \in {NoSignal, Timeout} THEN badFor ELSE badFor + 1
    /\ UNCHANGED brief

Unheard ==
    /\ \/ NoTargets \/ DeleteStaleGated \/ RollBack \/ Complete
       \/ DeleteWave \/ UngateWave \/ AwaitWave \/ Interrupted
       \/ EditSpec
       \/ \E x \in Nodes :
            \/ DSCreate(x) \/ Schedule(x) \/ PodBecomesReady(x)
            \/ PodBecomesUnready(x) \/ Evict(x) \/ PodGone(x)
            \/ NodeDown(x) \/ NodeLeaves(x) \/ NodeUp(x) \/ NodeJoins(x)
    /\ UNCHANGED <<badFor, brief>>

GNext == Heard \/ Elapsed \/ Unheard

GSpec == Init /\ GInit /\ [][GNext]_gvars

(* "only a reachable, definitively-unhealthy signal that persists past the   *)
(* timeout does" escalate (comment of decideGate): a rollback or a pause     *)
(* follows a signal that has been unhealthy for the whole timeout.  The      *)
(* clock, however, starts with the evaluation and runs through an outage.    *)
SignalPersists == ~brief
=============================================================================

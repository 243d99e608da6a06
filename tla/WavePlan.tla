------------------------------ MODULE WavePlan ------------------------------
(***************************************************************************)
(* The pure arithmetic of a rollout: how spec.waveSize becomes a node      *)
(* count, how the frozen, name-sorted node list is cut into waves, and the *)
(* health-gate decision.                                                   *)
(*                                                                         *)
(* A node name is a natural number; the order of the numbers stands for    *)
(* the order slices.Sort gives the names.  A sorted list without repeats   *)
(* is therefore a set, and the index of a name in it is its rank.          *)
(***************************************************************************)
EXTENDS Integers, FiniteSets

\* The 0-based index of name x in the sorted list of the names of S.
Rank(S, x) == Cardinality({y \in S : y < x})

\* Variant with a bug: stops one short.
FirstOfShort(S, n) == {x \in S : Rank(S, x) < n - 1}

\* The first n names of S, in name order.
FirstOf(S, n) == {x \in S : Rank(S, x) < n}

\* Variant with a bug: percentages round down.
ResolveWaveSizeFloor(ws, n) ==
    LET given == IF ~ws.percent /\ ws.val = 0
                   THEN [percent |-> TRUE, val |-> 20] ELSE ws
        size  == IF given.percent THEN (given.val * n) \div 100 ELSE given.val
    IN  IF size < 1 THEN 1 ELSE IF size > n THEN n ELSE size

\* spec.waveSize, an int-or-percent: 0 means unset and defaults to 20%;
\* percentages round up; the result is clamped to [1, n].
ResolveWaveSize(ws, n) ==
    LET given == IF ~ws.percent /\ ws.val = 0
                   THEN [percent |-> TRUE, val |-> 20] ELSE ws
        size  == IF given.percent THEN (given.val * n + 99) \div 100
                                  ELSE given.val
    IN  IF size < 1 THEN 1 ELSE IF size > n THEN n ELSE size

\* The number of waves of plan p: ceil(len(nodes) / waveSize).
TotalWaves(p) == (Cardinality(p.nodes) + p.waveSize - 1) \div p.waveSize

\* Variant with a bug: 1-based index.
WaveOfShifted(p, x) == (Rank(p.nodes, x) + 1) \div p.waveSize

\* The wave of planned node x: wave w is nodes[w*size : (w+1)*size].
WaveOf(p, x) == Rank(p.nodes, x) \div p.waveSize

WaveNodes(p, w) == {x \in p.nodes : WaveOf(p, x) = w}

\* Variant with a bug: an unanswered evaluation counts as unhealthy.
DecideGateNoReach(reachable, healthy, timedOut, onFailure, hasLastGood) ==
    IF healthy THEN "gatePass"
    ELSE IF ~timedOut THEN "gateWait"
    ELSE IF onFailure /\ hasLastGood THEN "gateRollback"
    ELSE "gatePauseTimeout"

\* The health-gate decision: no data never escalates, and only an answered,
\* unhealthy evaluation after the timeout rolls back or pauses.
DecideGate(reachable, healthy, timedOut, onFailure, hasLastGood) ==
    IF healthy THEN "gatePass"
    ELSE IF ~reachable \/ ~timedOut THEN "gateWait"
    ELSE IF onFailure /\ hasLastGood THEN "gateRollback"
    ELSE "gatePauseTimeout"
=============================================================================

----------------------------- MODULE WaveSlices -----------------------------
(***************************************************************************)
(* The same waves as the code walks them: list slices with computed start  *)
(* and end indices, over a node list sorted by name.  A behaviour freezes  *)
(* one plan and walks its waves from 0, collecting the nodes each wave     *)
(* acts on.  The properties tie the slices to the operators of WavePlan    *)
(* that the state machine FleetRollout is written with.                    *)
(***************************************************************************)
EXTENDS WavePlan, Sequences, Functions

CONSTANTS Names,        \* node names that can be Ready at plan time
          WaveSizes     \* values of spec.waveSize

\* waveSize is a count that is not negative or a positive percentage (the CEL
\* rule on spec.waveSize).
ASSUME NamesAssumption     == Names \subseteq Nat /\ IsFiniteSet(Names)
ASSUME WaveSizesAssumption ==
    \A s \in WaveSizes :
        /\ s \in [percent : BOOLEAN, val : Nat]
        /\ s.percent => s.val >= 1

VARIABLES ws,           \* spec.waveSize of the planned generation
          plan,         \* [nodes: the frozen name list, waveSize]
          wave,         \* the wave the walk has reached
          acted         \* the nodes of the waves before it, as walked

sliceVars == <<ws, plan, wave, acted>>

\* slices.Sort(nodeNames): the i-th name is the one with i names up to it.
Sorted(S) == [i \in 1 .. Cardinality(S) |->
                CHOOSE x \in S : Cardinality({y \in S : y <= x}) = i]

\* plan.Nodes[w*size : min((w+1)*size, len(plan.Nodes))]
WaveSlice(nodes, size, w) ==
    SubSeq(nodes, w * size + 1, IF (w + 1) * size < Len(nodes)
                                  THEN (w + 1) * size ELSE Len(nodes))

\* Variant with a bug: the end index of the slice is exclusive twice.
WaveNodesRegexShort(nodes, waveSize, w) ==
    Range(SubSeq(nodes, w * waveSize + 1,
                 IF w * waveSize + waveSize < Len(nodes)
                   THEN w * waveSize + waveSize - 1 ELSE Len(nodes)))

\* The names in the alternation waveNodesRegex renders for a gate query.
WaveNodesRegex(nodes, waveSize, w) ==
    LET size  == IF waveSize < 1 THEN 1 ELSE waveSize
        start == w * size
        end   == IF start + size < Len(nodes) THEN start + size ELSE Len(nodes)
    IN  IF start >= Len(nodes) \/ start < 0 THEN {}
        ELSE Range(SubSeq(nodes, start + 1, end))

SlicePlan == [nodes |-> Range(plan.nodes), waveSize |-> plan.waveSize]

\* Freezing the plan for the Ready nodes S.
Planned(S, w) == [nodes    |-> Sorted(S),
                  waveSize |-> ResolveWaveSize(w, Cardinality(S))]

SliceInit ==
    /\ ws \in WaveSizes
    /\ \E S \in (SUBSET Names) \ {{}} : plan = Planned(S, ws)
    /\ wave = 0
    /\ acted = {}

\* for w := range total: the slice of wave w is walked.
WalkWave ==
    /\ wave < TotalWaves(SlicePlan)
    /\ acted' = acted \union Range(WaveSlice(plan.nodes, plan.waveSize, wave))
    /\ wave' = wave + 1
    /\ UNCHANGED <<ws, plan>>

SliceSpec == SliceInit /\ [][WalkWave]_sliceVars

-----------------------------------------------------------------------------
(* The slices the controller walks are exactly the waves WaveOf assigns: a  *)
(* walk up to wave w has acted on the nodes of the waves below w, every     *)
(* wave adds at least one node, none more than waveSize, and the last wave  *)
(* leaves no planned node out.                                              *)
SlicesAreWaves ==
    /\ acted = {x \in SlicePlan.nodes : WaveOf(SlicePlan, x) < wave}
    /\ wave < TotalWaves(SlicePlan) =>
         Cardinality(WaveNodes(SlicePlan, wave)) \in 1 .. plan.waveSize
    /\ wave = TotalWaves(SlicePlan) => acted = SlicePlan.nodes

(* The nodes a wave's gate query selects are the nodes of that wave and no  *)
(* others: the gate of wave w judges exactly what wave w released.          *)
GateJudgesItsWave ==
    wave < TotalWaves(SlicePlan) =>
      WaveNodesRegex(plan.nodes, plan.waveSize, wave) = WaveNodes(SlicePlan, wave)

(* Rounding never makes a rollout longer than the percentage says: p% per   *)
(* wave needs at most ceil(100/p) waves however small the fleet is, and a   *)
(* count of c needs ceil(n/c); an unset (0) waveSize behaves as 20%.        *)
WaveCountBounded ==
    LET n == Len(plan.nodes)
    IN  TotalWaves(SlicePlan) <=
          CASE ws.percent               -> (100 + ws.val - 1) \div ws.val
            [] ~ws.percent /\ ws.val = 0 -> 5
            [] ~ws.percent /\ ws.val > 0 -> (n + ws.val - 1) \div ws.val
=============================================================================

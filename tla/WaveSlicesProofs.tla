-------------------------- MODULE WaveSlicesProofs --------------------------
(***************************************************************************)
(* Theorems about module WaveSlices: for every set of node names and every *)
(* value of spec.waveSize the API server admits, the slices the controller *)
(* walks and the node lists its gate queries select are the waves of       *)
(* WavePlan, and rounding never adds a wave.                               *)
(***************************************************************************)
EXTENDS WaveSlices, WavePlanProofs, SequenceTheorems

\* The plan is the one frozen for some Ready set.
Frozen == /\ ws \in WaveSizes
          /\ \E S \in (SUBSET Names) \ {{}} : plan = Planned(S, ws)

\* The inductive invariant: the walk has acted on the waves before the one it
\* has reached.
SliceInv ==
    /\ Frozen
    /\ wave \in 0 .. TotalWaves(SlicePlan)
    /\ acted = {x \in SlicePlan.nodes : WaveOf(SlicePlan, x) < wave}

-----------------------------------------------------------------------------
(* Sorted lists every name once, in name order: the name at index i has     *)
(* rank i - 1 (slices.Sort).                                                *)
LEMMA SortedIsSorted ==
    ASSUME NEW S, S \subseteq Nat, IsFiniteSet(S)
    PROVE  /\ Sorted(S) \in Seq(S)
           /\ Len(Sorted(S)) = Cardinality(S)
           /\ \A i \in 1 .. Cardinality(S) : Rank(S, Sorted(S)[i]) = i - 1
           /\ \A x \in S : \E i \in 1 .. Cardinality(S) : Sorted(S)[i] = x
<1> DEFINE n == Cardinality(S)
           upTo(x) == {y \in S : y <= x}
           L == Sorted(S)
<1>1. n \in Nat
  BY FS_CardinalityType
<1>2. ASSUME NEW x \in S PROVE Cardinality(upTo(x)) = Rank(S, x) + 1
  <2> DEFINE below == {y \in S : y < x}
  <2>1. upTo(x) = below \union {x} /\ x \notin below /\ below \subseteq S
    <3>1. \A y \in S : y <= x <=> y < x \/ y = x
      OBVIOUS
    <3>2. ~(x < x)
      OBVIOUS
    <3> QED
      BY <3>1, <3>2
  <2> HIDE DEF below, upTo
  <2>2. IsFiniteSet(below)
    BY <2>1, FS_Subset
  <2>3. Cardinality(below \union {x}) = Cardinality(below) + 1
    BY <2>1, <2>2, FS_AddElement
  <2> QED
    BY <2>1, <2>3 DEF Rank, below
<1>3. ASSUME NEW i \in 1 .. n
      PROVE  /\ (CHOOSE x \in S : Cardinality(upTo(x)) = i) \in S
             /\ Rank(S, CHOOSE x \in S : Cardinality(upTo(x)) = i) = i - 1
  <2>1. i - 1 \in 0 .. n - 1
    BY <1>1
  <2>2. PICK x \in S : Rank(S, x) = i - 1
    BY <2>1, RankOnto
  <2>3. Cardinality(upTo(x)) = i
    BY <1>1, <1>2, <2>2
  <2>4. PICK z \in S : /\ z = (CHOOSE y \in S : Cardinality(upTo(y)) = i)
                       /\ Cardinality(upTo(z)) = i
    BY <2>3
  <2>5. Rank(S, z) \in 0 .. n - 1 /\ Rank(S, z) + 1 = i
    BY <1>2, <2>4, RankRange
  <2> QED
    BY <2>4, <2>5, <1>1
<1>4. L = [i \in 1 .. n |-> CHOOSE x \in S : Cardinality(upTo(x)) = i]
  BY DEF Sorted
<1>5. \A i \in 1 .. n : L[i] \in S /\ Rank(S, L[i]) = i - 1
  BY <1>3, <1>4
<1>6. L \in [1 .. n -> S]
  BY <1>4, <1>5
<1>7. L \in Seq(S) /\ Len(L) = n
  <2> HIDE DEF L, n
  <2>1. L \in Seq(S)
    BY <1>1, <1>6, SeqDef
  <2>2. 1 .. Len(L) = 1 .. n /\ Len(L) \in Nat
    BY <1>6, <2>1, LenProperties
  <2> QED
    BY <1>1, <2>1, <2>2
<1>8. \A x \in S : \E i \in 1 .. n : L[i] = x
  <2> SUFFICES ASSUME NEW x \in S PROVE \E i \in 1 .. n : L[i] = x
    OBVIOUS
  <2>1. Rank(S, x) \in 0 .. n - 1
    BY RankRange
  <2>2. Rank(S, x) + 1 \in 1 .. n /\ (Rank(S, x) + 1) - 1 = Rank(S, x)
    BY <1>1, <2>1
  <2>3. L[Rank(S, x) + 1] \in S /\ Rank(S, L[Rank(S, x) + 1]) = Rank(S, x)
    BY <1>5, <2>2
  <2>4. L[Rank(S, x) + 1] = x
    BY <2>1, <2>3, RankOnto
  <2> QED
    BY <2>2, <2>4
<1> QED
  BY <1>5, <1>7, <1>8

(* A slice nodes[lo:hi] of the sorted list is the names of ranks lo to      *)
(* hi - 1.                                                                  *)
LEMMA SliceIsRanks ==
    ASSUME NEW S, S \subseteq Nat, IsFiniteSet(S),
           NEW lo \in Nat, NEW hi \in 0 .. Cardinality(S)
    PROVE  \A x : x \in Range(SubSeq(Sorted(S), lo + 1, hi)) <=>
                    x \in S /\ lo <= Rank(S, x) /\ Rank(S, x) < hi
<1> DEFINE n == Cardinality(S)
           L == Sorted(S)
           sub == SubSeq(L, lo + 1, hi)
<1>1. n \in Nat
  BY FS_CardinalityType
<1>2. /\ L \in Seq(S) /\ Len(L) = n
      /\ \A i \in 1 .. n : L[i] \in S /\ Rank(S, L[i]) = i - 1
      /\ \A x \in S : \E i \in 1 .. n : L[i] = x
  BY SortedIsSorted, LenProperties
<1> HIDE DEF L, n
<1>3. /\ sub \in Seq(S)
      /\ Len(sub) = IF lo + 1 <= hi THEN hi - lo ELSE 0
      /\ \A i \in 1 .. hi - lo : sub[i] = L[lo + i]
  <2>1. lo + 1 \in Int /\ hi \in Int /\ \A i \in lo + 1 .. hi : L[i] \in S
    BY <1>1, <1>2 DEF n
  <2>2. /\ sub \in Seq(S)
        /\ Len(sub) = IF lo + 1 <= hi THEN hi - (lo + 1) + 1 ELSE 0
        /\ \A i \in 1 .. hi - (lo + 1) + 1 : sub[i] = L[(lo + 1) + i - 1]
    BY <2>1, SubSeqProperties
  <2>3. hi - (lo + 1) + 1 = hi - lo
    BY <2>1
  <2>4. \A i \in 1 .. hi - lo : (lo + 1) + i - 1 = lo + i
    BY <2>1
  <2> QED
    BY <2>2, <2>3, <2>4
<1>4. DOMAIN sub = 1 .. hi - lo
  <2>1. DOMAIN sub = 1 .. Len(sub)
    BY <1>3, LenProperties
  <2> HIDE DEF sub
  <2> QED
    BY <2>1, <1>1, <1>3 DEF n
<1> HIDE DEF sub
<1>5. Range(sub) = {L[lo + i] : i \in 1 .. hi - lo}
  BY <1>3, <1>4 DEF Range
<1>6. ASSUME NEW i \in 1 .. hi - lo
      PROVE  L[lo + i] \in S /\ lo <= Rank(S, L[lo + i]) /\ Rank(S, L[lo + i]) < hi
  <2>1. lo + i \in 1 .. n /\ (lo + i) - 1 >= lo /\ (lo + i) - 1 < hi
    BY <1>1 DEF n
  <2> QED
    BY <1>2, <2>1
<1>7. ASSUME NEW x \in S, lo <= Rank(S, x), Rank(S, x) < hi
      PROVE  \E i \in 1 .. hi - lo : x = L[lo + i]
  <2>1. PICK k \in 1 .. n : L[k] = x
    BY <1>2
  <2>2. Rank(S, x) = k - 1
    BY <1>2, <2>1
  <2>3. k - lo \in 1 .. hi - lo /\ lo + (k - lo) = k
    BY <1>1, <1>7, <2>2
  <2> QED
    BY <2>1, <2>3
<1> QED
  BY <1>5, <1>6, <1>7 DEF L, sub

(* The slice the controller walks for wave w is wave w                      *)
(* (reconcileForward's start and end).                                      *)
LEMMA WaveSliceIsWave ==
    ASSUME NEW p, IsPlan(p), NEW w \in Nat
    PROVE  Range(WaveSlice(Sorted(p.nodes), p.waveSize, w)) = WaveNodes(p, w)
<1> DEFINE S  == p.nodes
           n  == Cardinality(S)
           lo == w * p.waveSize
           up == (w + 1) * p.waveSize
           hi == IF up < n THEN up ELSE n
<1>1. S \subseteq Nat /\ IsFiniteSet(S) /\ n \in Nat /\ p.waveSize \in Nat
  BY FS_CardinalityType DEF IsPlan
<1>2. lo \in Nat /\ up \in Nat
  <2> HIDE DEF n, S
  <2> QED
    BY <1>1
<1>3. WaveSlice(Sorted(S), p.waveSize, w) = SubSeq(Sorted(S), lo + 1, hi)
  <2>1. Len(Sorted(S)) = n
    BY <1>1, SortedIsSorted
  <2> QED
    BY <2>1 DEF WaveSlice
<1>4. \A x \in S : /\ Rank(S, x) \in 0 .. n - 1
                   /\ WaveOf(p, x) = w <=> lo <= Rank(S, x) /\ Rank(S, x) < up
  BY <1>1, RankRange, WaveIsSlice
<1> HIDE DEF lo, up, n, S
<1>5. hi \in 0 .. n
  BY <1>1, <1>2
<1>6. \A x : x \in Range(SubSeq(Sorted(S), lo + 1, hi)) <=>
               x \in S /\ lo <= Rank(S, x) /\ Rank(S, x) < hi
  <2> HIDE DEF hi
  <2>1. hi \in 0 .. Cardinality(S)
    BY <1>5 DEF n
  <2>2. S \subseteq Nat /\ IsFiniteSet(S)
    BY <1>1
  <2> QED
    BY <1>2, <2>1, <2>2, SliceIsRanks
<1>7. \A x \in S : Rank(S, x) < hi <=> Rank(S, x) < up
  BY <1>1, <1>2, <1>4
<1>8. Range(WaveSlice(Sorted(S), p.waveSize, w)) = {x \in S : WaveOf(p, x) = w}
  <2> HIDE DEF hi
  <2> QED
    BY <1>3, <1>4, <1>6, <1>7
<1> QED
  BY <1>8 DEF WaveNodes, S

(* The names the gate query of wave w selects are wave w (waveNodesRegex).  *)
LEMMA RegexIsWave ==
    ASSUME NEW p, IsPlan(p), NEW w \in 0 .. TotalWaves(p) - 1
    PROVE  WaveNodesRegex(Sorted(p.nodes), p.waveSize, w) = WaveNodes(p, w)
<1> DEFINE n  == Cardinality(p.nodes)
           s  == p.waveSize
           lo == w * s
<1>1. n \in Nat /\ n >= 1 /\ s \in Nat /\ s >= 1 /\ Len(Sorted(p.nodes)) = n
  BY FS_CardinalityType, FS_EmptySet, SortedIsSorted DEF IsPlan
<1>2. w \in Nat /\ w < (n + s - 1) \div s
  BY <1>1, CeilLess DEF TotalWaves
<1>3. lo \in Nat /\ lo < n /\ (w + 1) * s = lo + s
  <2> HIDE DEF n, s
  <2> QED
    BY <1>1, <1>2, CeilLess
<1>4. WaveNodesRegex(Sorted(p.nodes), s, w)
        = Range(SubSeq(Sorted(p.nodes), lo + 1, IF lo + s < n THEN lo + s ELSE n))
  <2>1. ~(s < 1) /\ ~(lo >= n) /\ ~(lo < 0)
    BY <1>1, <1>3
  <2> QED
    BY <1>1, <2>1 DEF WaveNodesRegex
<1>5. WaveSlice(Sorted(p.nodes), s, w)
        = SubSeq(Sorted(p.nodes), lo + 1, IF lo + s < n THEN lo + s ELSE n)
  BY <1>1, <1>3 DEF WaveSlice
<1> QED
  BY <1>2, <1>4, <1>5, WaveSliceIsWave

-----------------------------------------------------------------------------
(* A percentage v of n nodes, rounded up and clamped, needs at most         *)
(* ceil(100/v) waves to cover the n nodes.                                  *)
LEMMA PercentCovers ==
    ASSUME NEW v \in Nat, v >= 1, NEW n \in Nat, n >= 1,
           NEW size, size = (v * n + 99) \div 100,
           NEW K, K = (100 + v - 1) \div v
    PROVE  /\ K \in Nat
           /\ n <= K * (IF size < 1 THEN 1 ELSE IF size > n THEN n ELSE size)
<1>1. K \in Nat /\ K >= 1 /\ K * v >= 100
  <2>1. /\ \A w \in Nat : w < K <=> w * v < 100
        /\ K \in Nat
    BY CeilLess
  <2> QED
    BY <2>1
<1>2. v * n \in Nat /\ v * n >= 1
  BY TimesMonotone
<1>3. size \in Nat /\ size >= 1 /\ v * n <= size * 100
  <2> DEFINE a == v * n + 99
  <2>1. a \in Nat
    BY <1>2
  <2>2. size \in Nat /\ a < size * 100 + 100
    <3> HIDE DEF a
    <3>1. size = a \div 100
      BY DEF a
    <3> QED
      BY <2>1, <3>1, DivBounds
  <2> QED
    BY <1>2, <2>2
<1>4. CASE size > n
  <2>1. 1 * n <= K * n
    BY <1>1, TimesMonotone
  <2> QED
    BY <1>1, <1>3, <1>4, <2>1
<1>5. CASE size <= n
  <2>1. (v * n) * K <= (size * 100) * K
    BY <1>1, <1>2, <1>3
  <2>2. 100 * n <= (K * v) * n
    BY <1>1, TimesMonotone
  <2>3. (v * n) * K = (K * v) * n /\ (size * 100) * K = 100 * (K * size)
    BY <1>1, <1>3
  <2>4. K * size \in Nat /\ (K * v) * n \in Nat
    BY <1>1, <1>3
  <2>5. n <= K * size
    BY <2>1, <2>2, <2>3, <2>4
  <2> QED
    BY <1>1, <1>3, <1>5, <2>5
<1> QED
  BY <1>3, <1>4, <1>5

(* The number of waves of a fleet of n nodes, for every admitted waveSize:  *)
(* the bound that WaveCountBounded states (resolveWaveSize, totalWaves).    *)
LEMMA WaveCountBound ==
    ASSUME NEW w \in WaveSizes, NEW n \in Nat, n >= 1,
           NEW s, s = ResolveWaveSize(w, n)
    PROVE  (n + s - 1) \div s <=
             CASE w.percent              -> (100 + w.val - 1) \div w.val
               [] ~w.percent /\ w.val = 0 -> 5
               [] ~w.percent /\ w.val > 0 -> (n + w.val - 1) \div w.val
<1>1. w \in [percent : BOOLEAN, val : Nat] /\ (w.percent => w.val >= 1)
  BY WaveSizesAssumption
<1>2. s \in Nat /\ s >= 1
  BY <1>1, ResolveWaveSizeRange
<1>3. ASSUME NEW K \in Nat, n <= K * s
      PROVE  (n + s - 1) \div s <= K
  <2>1. K * s \in Nat
    BY <1>2, <1>3
  <2>2. (n + s - 1) \div s \in Nat /\ (K < (n + s - 1) \div s <=> K * s < n)
    BY <1>2, CeilLess
  <2> QED
    BY <1>3, <2>1, <2>2
<1>4. CASE w.percent
  <2> DEFINE v == w.val
             size == (v * n + 99) \div 100
             K == (100 + v - 1) \div v
  <2>1. s = IF size < 1 THEN 1 ELSE IF size > n THEN n ELSE size
    BY <1>4 DEF ResolveWaveSize
  <2>2. v \in Nat /\ v >= 1
    BY <1>1, <1>4
  <2> HIDE DEF v
  <2>3. K \in Nat /\ n <= K * s
    BY <2>1, <2>2, PercentCovers
  <2>4. (n + s - 1) \div s <= K
    BY <2>3, <1>3
  <2> QED
    BY <1>4, <2>4 DEF v
<1>5. CASE ~w.percent /\ w.val = 0
  <2> DEFINE size == (20 * n + 99) \div 100
             K == (100 + 20 - 1) \div 20
  <2>1. s = IF size < 1 THEN 1 ELSE IF size > n THEN n ELSE size
    BY <1>5 DEF ResolveWaveSize
  <2>2. K \in Nat /\ n <= K * s
    BY <2>1, PercentCovers
  <2>3. K = 5
    OBVIOUS
  <2>4. (n + s - 1) \div s <= 5
    BY <2>2, <2>3, <1>3
  <2> QED
    BY <1>5, <2>4
<1>6. CASE ~w.percent /\ w.val > 0
  <2> DEFINE v == w.val
             K == (n + v - 1) \div v
  <2>1. s = IF v < 1 THEN 1 ELSE IF v > n THEN n ELSE v
    BY <1>1, <1>6 DEF ResolveWaveSize
  <2>2. v \in Nat /\ v >= 1
    BY <1>1, <1>6
  <2> HIDE DEF v
  <2>3. /\ K \in Nat
        /\ \A u \in Nat : u < K <=> u * v < n
    BY <2>2, CeilLess
  <2>4. K >= 1 /\ K * v >= n /\ K * n >= n
    <3>1. 0 < K /\ ~(K * v < n)
      BY <2>2, <2>3
    <3> HIDE DEF K
    <3>2. 1 * n <= K * n
      BY <2>3, <3>1, TimesMonotone
    <3> QED
      BY <2>2, <2>3, <3>1, <3>2
  <2>5. n <= K * s
    BY <2>1, <2>2, <2>4
  <2>6. (n + s - 1) \div s <= K
    BY <2>3, <2>5, <1>3
  <2> QED
    BY <1>6, <2>6 DEF v
<1> QED
  BY <1>1, <1>4, <1>5, <1>6

-----------------------------------------------------------------------------
(* The frozen list is the sorted list of a plan, and SlicePlan is that      *)
(* plan.                                                                    *)
LEMMA SlicePlanIsPlan ==
    ASSUME Frozen
    PROVE  /\ IsPlan(SlicePlan)
           /\ plan.nodes = Sorted(SlicePlan.nodes)
           /\ plan.waveSize = SlicePlan.waveSize
           /\ Len(plan.nodes) = Cardinality(SlicePlan.nodes)
           /\ SlicePlan.waveSize = ResolveWaveSize(ws, Cardinality(SlicePlan.nodes))
<1>1. PICK S \in (SUBSET Names) \ {{}} : plan = Planned(S, ws)
  BY DEF Frozen
<1>2. S \subseteq Nat /\ IsFiniteSet(S) /\ S # {}
  BY <1>1, NamesAssumption, FS_Subset
<1>3. Cardinality(S) \in Nat /\ Cardinality(S) >= 1
  BY <1>2, FS_CardinalityType, FS_EmptySet
<1>4. plan.nodes = Sorted(S) /\ plan.waveSize = ResolveWaveSize(ws, Cardinality(S))
  BY <1>1 DEF Planned
<1>5. Range(Sorted(S)) = S
  <2>1. /\ DOMAIN Sorted(S) = 1 .. Cardinality(S)
        /\ \A i \in 1 .. Cardinality(S) : Sorted(S)[i] \in S
        /\ \A x \in S : \E i \in 1 .. Cardinality(S) : Sorted(S)[i] = x
    BY <1>2, SortedIsSorted, LenProperties
  <2> QED
    BY <2>1 DEF Range
<1>6. SlicePlan.nodes = S /\ SlicePlan.waveSize = plan.waveSize
  BY <1>4, <1>5 DEF SlicePlan
<1>7. plan.waveSize \in 1 .. Cardinality(S)
  <2>1. ws \in [percent : BOOLEAN, val : Nat]
    BY WaveSizesAssumption DEF Frozen
  <2> QED
    BY <2>1, <1>3, <1>4, ResolveWaveSizeRange
<1>8. IsPlan(SlicePlan)
  BY <1>2, <1>3, <1>6, <1>7 DEF IsPlan
<1> QED
  BY <1>2, <1>4, <1>6, <1>8, SortedIsSorted

(* The number of waves of the frozen plan is a natural number.              *)
LEMMA TotalWavesNat ==
    ASSUME Frozen
    PROVE  TotalWaves(SlicePlan) \in Nat
<1>1. Cardinality(SlicePlan.nodes) \in Nat /\ Cardinality(SlicePlan.nodes) >= 1
  BY SlicePlanIsPlan, FS_CardinalityType, FS_EmptySet DEF IsPlan
<1>2. SlicePlan.waveSize \in Nat /\ SlicePlan.waveSize >= 1
  BY SlicePlanIsPlan DEF IsPlan
<1> QED
  BY <1>1, <1>2, CeilLess DEF TotalWaves

(* Freezing a plan establishes the invariant.                               *)
LEMMA SliceInvInit == SliceInit => SliceInv
<1> SUFFICES ASSUME SliceInit PROVE SliceInv
  OBVIOUS
<1>1. Frozen
  BY DEF SliceInit, Frozen
<1>2. wave = 0 /\ acted = {}
  BY DEF SliceInit
<1>3. wave \in 0 .. TotalWaves(SlicePlan)
  BY <1>1, <1>2, TotalWavesNat
<1>4. ASSUME NEW x \in SlicePlan.nodes PROVE ~(WaveOf(SlicePlan, x) < 0)
  <2>1. WaveOf(SlicePlan, x) \in 0 .. TotalWaves(SlicePlan) - 1
    BY <1>1, SlicePlanIsPlan, WaveIsSlice
  <2> QED
    BY <2>1, <1>1, TotalWavesNat
<1> QED
  BY <1>1, <1>2, <1>3, <1>4 DEF SliceInv

(* Walking a wave keeps the invariant: the slice added is the wave.         *)
LEMMA SliceInvStep == SliceInv /\ [WalkWave]_sliceVars => SliceInv'
<1> SUFFICES ASSUME SliceInv, [WalkWave]_sliceVars PROVE SliceInv'
  OBVIOUS
<1>1. CASE UNCHANGED sliceVars
  BY <1>1 DEF SliceInv, Frozen, sliceVars, SlicePlan
<1>2. CASE WalkWave
  <2>1. Frozen /\ wave \in 0 .. TotalWaves(SlicePlan) /\ TotalWaves(SlicePlan) \in Nat
    BY TotalWavesNat DEF SliceInv
  <2>2. Frozen' /\ SlicePlan' = SlicePlan
    BY <1>2, <2>1 DEF WalkWave, Frozen, SlicePlan
  <2>3. wave \in Nat /\ wave' \in 0 .. TotalWaves(SlicePlan)
    BY <1>2, <2>1 DEF WalkWave
  <2>4. acted' = acted \union WaveNodes(SlicePlan, wave)
    BY <1>2, <2>1, <2>3, SlicePlanIsPlan, WaveSliceIsWave DEF WalkWave
  <2>5. \A x \in SlicePlan.nodes : WaveOf(SlicePlan, x) \in 0 .. TotalWaves(SlicePlan) - 1
    BY <2>1, SlicePlanIsPlan, WaveIsSlice
  <2>6. \A x \in SlicePlan.nodes : WaveOf(SlicePlan, x) < wave + 1 <=>
          WaveOf(SlicePlan, x) < wave \/ WaveOf(SlicePlan, x) = wave
    BY <2>1, <2>3, <2>5
  <2>7. acted' = {x \in SlicePlan.nodes : WaveOf(SlicePlan, x) < wave + 1}
    BY <2>4, <2>6 DEF SliceInv, WaveNodes
  <2>8. wave' = wave + 1
    BY <1>2 DEF WalkWave
  <2> QED
    BY <2>2, <2>3, <2>7, <2>8 DEF SliceInv
<1> QED
  BY <1>1, <1>2

(* Along every walk the invariant holds.                                    *)
LEMMA SliceInvAlways == SliceSpec => []SliceInv
BY SliceInvInit, SliceInvStep, PTL DEF SliceSpec

-----------------------------------------------------------------------------
(* The slices the controller walks are exactly the waves of WavePlan: none  *)
(* is empty, none is larger than waveSize and no planned node is left out,  *)
(* for every fleet and every waveSize (reconcileForward).                   *)
THEOREM SlicesAlwaysWaves == SliceSpec => []SlicesAreWaves
<1>1. ASSUME SliceInv PROVE SlicesAreWaves
  <2>1. Frozen /\ wave \in 0 .. TotalWaves(SlicePlan) /\ TotalWaves(SlicePlan) \in Nat
    BY <1>1, TotalWavesNat DEF SliceInv
  <2>2. IsPlan(SlicePlan) /\ plan.waveSize = SlicePlan.waveSize
    BY <2>1, SlicePlanIsPlan
  <2>3. acted = {x \in SlicePlan.nodes : WaveOf(SlicePlan, x) < wave}
    BY <1>1 DEF SliceInv
  <2>4. ASSUME wave < TotalWaves(SlicePlan)
        PROVE  Cardinality(WaveNodes(SlicePlan, wave)) \in 1 .. plan.waveSize
    <3>1. wave \in 0 .. TotalWaves(SlicePlan) - 1
      BY <2>1, <2>4
    <3> QED
      BY <2>2, <3>1, WaveSizeBound
  <2>5. ASSUME wave = TotalWaves(SlicePlan) PROVE acted = SlicePlan.nodes
    <3>1. \A x \in SlicePlan.nodes : WaveOf(SlicePlan, x) \in 0 .. TotalWaves(SlicePlan) - 1
      BY <2>2, WaveIsSlice
    <3>2. \A x \in SlicePlan.nodes : WaveOf(SlicePlan, x) < wave
      BY <2>1, <2>5, <3>1
    <3> QED
      BY <2>3, <3>2
  <2> QED
    BY <2>3, <2>4, <2>5 DEF SlicesAreWaves
<1> QED
  BY <1>1, SliceInvAlways, PTL

(* The gate of wave w judges exactly the nodes wave w released: the query's *)
(* node list is computed apart from the walk and agrees with it             *)
(* (waveNodesRegex).                                                        *)
THEOREM GateAlwaysJudgesItsWave == SliceSpec => []GateJudgesItsWave
<1>1. ASSUME SliceInv PROVE GateJudgesItsWave
  <2>1. Frozen /\ wave \in 0 .. TotalWaves(SlicePlan) /\ TotalWaves(SlicePlan) \in Nat
    BY <1>1, TotalWavesNat DEF SliceInv
  <2>2. /\ IsPlan(SlicePlan) /\ plan.waveSize = SlicePlan.waveSize
        /\ plan.nodes = Sorted(SlicePlan.nodes)
    BY <2>1, SlicePlanIsPlan
  <2>3. wave < TotalWaves(SlicePlan) => wave \in 0 .. TotalWaves(SlicePlan) - 1
    BY <2>1
  <2> QED
    BY <2>2, <2>3, RegexIsWave DEF GateJudgesItsWave
<1> QED
  BY <1>1, SliceInvAlways, PTL

(* No rounding makes a rollout longer than its waveSize says, for every     *)
(* fleet size (resolveWaveSize, totalWaves).                                *)
THEOREM WaveCountAlwaysBounded == SliceSpec => []WaveCountBounded
<1>1. ASSUME SliceInv PROVE WaveCountBounded
  <2> DEFINE n == Len(plan.nodes)
             s == SlicePlan.waveSize
  <2>1. Frozen /\ ws \in WaveSizes
    BY <1>1 DEF SliceInv, Frozen
  <2>2. /\ n = Cardinality(SlicePlan.nodes) /\ IsPlan(SlicePlan)
        /\ s = ResolveWaveSize(ws, n)
    BY <2>1, SlicePlanIsPlan
  <2>3. n \in Nat /\ n >= 1
    BY <2>2, FS_CardinalityType, FS_EmptySet DEF IsPlan
  <2>4. TotalWaves(SlicePlan) = (n + s - 1) \div s
    BY <2>2 DEF TotalWaves
  <2> HIDE DEF n, s
  <2>5. (n + s - 1) \div s <=
          CASE ws.percent               -> (100 + ws.val - 1) \div ws.val
            [] ~ws.percent /\ ws.val = 0 -> 5
            [] ~ws.percent /\ ws.val > 0 -> (n + ws.val - 1) \div ws.val
    BY <2>1, <2>2, <2>3, WaveCountBound
  <2> QED
    BY <2>4, <2>5 DEF WaveCountBounded, n
<1> QED
  BY <1>1, SliceInvAlways, PTL
=============================================================================

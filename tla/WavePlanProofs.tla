--------------------------- MODULE WavePlanProofs ---------------------------
(***************************************************************************)
(* Facts about the arithmetic of waves (module WavePlan): division as the  *)
(* code's integer division, the rank of a name in the sorted list, and the *)
(* bounds of a wave.  The theorems of the other modules rest on them.      *)
(***************************************************************************)
EXTENDS WavePlan, FiniteSetTheorems, TLAPS

-----------------------------------------------------------------------------
(* Integer division brackets its dividend.                                  *)
LEMMA DivBounds ==
    ASSUME NEW a \in Nat, NEW s \in Nat, s >= 1
    PROVE  /\ a \div s \in Nat
           /\ (a \div s) * s <= a
           /\ a < (a \div s) * s + s
OBVIOUS

(* Products of naturals grow with their factors.                            *)
LEMMA TimesMonotone ==
    ASSUME NEW v \in Nat, NEW w \in Nat, NEW s \in Nat, v <= w
    PROVE  v * s <= w * s
OBVIOUS

(* A position lies below wave w exactly if it lies below the wave's start.  *)
LEMMA DivLess ==
    ASSUME NEW a \in Nat, NEW s \in Nat, s >= 1, NEW w \in Nat
    PROVE  a \div s < w <=> a < w * s
<1> DEFINE q == a \div s
<1>1. q \in Nat /\ q * s <= a /\ a < q * s + s
  BY DivBounds
<1> HIDE DEF q
<1>2. w * s \in Nat /\ q * s \in Nat /\ (q + 1) * s = q * s + s
  BY <1>1
<1>3. ASSUME q < w PROVE a < w * s
  <2>1. (q + 1) * s <= w * s
    BY <1>1, <1>3, TimesMonotone
  <2> QED
    BY <1>1, <1>2, <2>1
<1>4. ASSUME w <= q PROVE w * s <= a
  <2>1. w * s <= q * s
    BY <1>1, <1>4, TimesMonotone
  <2> QED
    BY <1>1, <1>2, <2>1
<1>5. q < w <=> a < w * s
  BY <1>1, <1>2, <1>3, <1>4
<1> QED
  BY <1>5 DEF q

(* A position lies in wave w exactly if it lies in the wave's slice.        *)
LEMMA DivEqual ==
    ASSUME NEW a \in Nat, NEW s \in Nat, s >= 1, NEW w \in Nat
    PROVE  a \div s = w <=> w * s <= a /\ a < (w + 1) * s
<1>1. a \div s < w <=> a < w * s
  BY DivLess
<1>2. a \div s < w + 1 <=> a < (w + 1) * s
  BY DivLess
<1>3. a \div s \in Nat /\ w * s \in Nat
  BY DivBounds
<1> QED
  BY <1>1, <1>2, <1>3

(* Rounding up: there is a wave w exactly if its start is in the list.      *)
LEMMA CeilLess ==
    ASSUME NEW n \in Nat, n >= 1, NEW s \in Nat, s >= 1, NEW w \in Nat
    PROVE  /\ (n + s - 1) \div s \in Nat
           /\ w < (n + s - 1) \div s <=> w * s < n
<1>1. n + s - 1 \in Nat
  OBVIOUS
<1>2. (n + s - 1) \div s < w + 1 <=> n + s - 1 < (w + 1) * s
  BY <1>1, DivLess
<1>3. (w + 1) * s = w * s + s /\ w * s \in Nat
  OBVIOUS
<1>4. (n + s - 1) \div s \in Nat
  BY <1>1, DivBounds
<1> QED
  BY <1>2, <1>3, <1>4

-----------------------------------------------------------------------------
(* resolveWaveSize returns a count in [1, n] whatever the spec asks for.    *)
LEMMA ResolveWaveSizeRange ==
    ASSUME NEW ws \in [percent : BOOLEAN, val : Nat], NEW n \in Nat, n >= 1
    PROVE  ResolveWaveSize(ws, n) \in 1 .. n
<1> DEFINE given == IF ~ws.percent /\ ws.val = 0
                      THEN [percent |-> TRUE, val |-> 20] ELSE ws
<1> DEFINE size == IF given.percent THEN (given.val * n + 99) \div 100 ELSE given.val
<1>1. given.val \in Nat
  OBVIOUS
<1>2. given.val * n \in Int
  BY <1>1
<1>3. (given.val * n + 99) \div 100 \in Int
  <2> HIDE DEF given
  <2> QED BY <1>2
<1>4. size \in Int
  BY <1>1, <1>3
<1>5. ResolveWaveSize(ws, n) = IF size < 1 THEN 1 ELSE IF size > n THEN n ELSE size
  BY DEF ResolveWaveSize
<1> HIDE DEF size
<1> QED BY <1>4, <1>5

-----------------------------------------------------------------------------
(* The rank of a listed name is an index of the list.                       *)
LEMMA RankRange ==
    ASSUME NEW S, S \subseteq Nat, IsFiniteSet(S), NEW x \in S
    PROVE  Rank(S, x) \in 0 .. Cardinality(S) - 1
<1> DEFINE below == {y \in S : y < x}
<1>1. below \subseteq S /\ x \notin below
  OBVIOUS
<1> HIDE DEF below
<1>2. IsFiniteSet(below) /\ Cardinality(below) <= Cardinality(S) /\ below # S
  BY <1>1, FS_Subset
<1>3. Cardinality(below) # Cardinality(S)
  BY <1>1, <1>2, FS_Subset
<1>4. Cardinality(below) \in Nat /\ Cardinality(S) \in Nat
  BY <1>2, FS_CardinalityType
<1> QED
  BY <1>2, <1>3, <1>4 DEF Rank, below

(* Ranks follow the order of the names.                                     *)
LEMMA RankMonotone ==
    ASSUME NEW S, S \subseteq Nat, IsFiniteSet(S), NEW x \in S, NEW y \in S, x < y
    PROVE  Rank(S, x) < Rank(S, y)
<1> DEFINE U == {z \in S : z < y}
<1>1. U \subseteq Nat /\ U \subseteq S /\ x \in U
  OBVIOUS
<1>2. {z \in U : z < x} = {z \in S : z < x}
  <2>1. \A z \in S : z < x => z < y
    OBVIOUS
  <2> QED
    BY <2>1
<1> HIDE DEF U
<1>3. IsFiniteSet(U)
  BY <1>1, FS_Subset
<1>4. Cardinality({z \in U : z < x}) \in 0 .. Cardinality(U) - 1
  BY <1>1, <1>3, RankRange DEF Rank
<1>5. Cardinality(U) \in Nat
  BY <1>3, FS_CardinalityType
<1>6. Rank(S, x) = Cardinality({z \in U : z < x}) /\ Rank(S, y) = Cardinality(U)
  BY <1>2 DEF Rank, U
<1> QED
  BY <1>4, <1>5, <1>6

(* Every index of the list is the rank of exactly one name.                 *)
LEMMA RankOnto ==
    ASSUME NEW S, S \subseteq Nat, IsFiniteSet(S),
           NEW r \in 0 .. Cardinality(S) - 1
    PROVE  /\ \E x \in S : Rank(S, x) = r
           /\ \A x, y \in S : Rank(S, x) = Rank(S, y) => x = y
<1> DEFINE n == Cardinality(S)
           f == [x \in S |-> Rank(S, x)]
<1>1. n \in Nat
  BY FS_CardinalityType
<1>2. IsFiniteSet(0 .. n - 1) /\ Cardinality(0 .. n - 1) = n
  BY <1>1, FS_Interval
<1>3. f \in [S -> 0 .. n - 1]
  BY RankRange
<1>4. \A x, y \in S : Rank(S, x) = Rank(S, y) => x = y
  <2> SUFFICES ASSUME NEW x \in S, NEW y \in S, Rank(S, x) = Rank(S, y), x # y
               PROVE  FALSE
    OBVIOUS
  <2>1. x < y \/ y < x
    OBVIOUS
  <2>2. Rank(S, x) < Rank(S, y) \/ Rank(S, y) < Rank(S, x)
    BY <2>1, RankMonotone
  <2>3. Rank(S, x) \in 0 .. n - 1 /\ Rank(S, y) \in 0 .. n - 1
    BY RankRange
  <2> QED
    BY <2>2, <2>3, <1>1
<1>5. f \in Injection(S, 0 .. n - 1)
  BY <1>3, <1>4 DEF Injection, IsInjective
<1>6. f \in Surjection(S, 0 .. n - 1)
  BY <1>2, <1>5, FS_Injection
<1>7. \E x \in S : f[x] = r
  BY <1>6 DEF Surjection
<1> QED
  BY <1>4, <1>7

-----------------------------------------------------------------------------
(* A plan the controller freezes: a finite list of names that is not empty  *)
(* and a wave size of at least one.                                         *)
IsPlan(p) == /\ p.nodes \subseteq Nat /\ IsFiniteSet(p.nodes) /\ p.nodes # {}
             /\ p.waveSize \in Nat /\ p.waveSize >= 1

(* Wave w of a plan is its slice of ranks, and every planned node is in one *)
(* of the plan's waves.                                                     *)
LEMMA WaveIsSlice ==
    ASSUME NEW p, IsPlan(p), NEW x \in p.nodes
    PROVE  /\ WaveOf(p, x) \in 0 .. TotalWaves(p) - 1
           /\ \A w \in Nat :
                /\ WaveOf(p, x) < w <=> Rank(p.nodes, x) < w * p.waveSize
                /\ WaveOf(p, x) = w <=> /\ w * p.waveSize <= Rank(p.nodes, x)
                                        /\ Rank(p.nodes, x) < (w + 1) * p.waveSize
<1> DEFINE n == Cardinality(p.nodes)
           s == p.waveSize
           a == Rank(p.nodes, x)
           t == (n + s - 1) \div s
<1>1. n \in Nat /\ s \in Nat /\ s >= 1 /\ a \in 0 .. n - 1
  BY FS_CardinalityType, RankRange DEF IsPlan
<1> HIDE DEF n, s, a
<1>2. \A w \in Nat : /\ a \div s < w <=> a < w * s
                     /\ a \div s = w <=> w * s <= a /\ a < (w + 1) * s
  BY <1>1, DivLess, DivEqual
<1>3. t \in Nat /\ ~(t * s < n)
  <2>1. t \in Nat
    BY <1>1, CeilLess
  <2> QED
    BY <1>1, <2>1, CeilLess
<1> HIDE DEF t
<1>4. a < t * s
  BY <1>1, <1>3
<1>5. a \div s \in 0 .. t - 1
  BY <1>1, <1>2, <1>3, <1>4, DivBounds
<1> QED
  BY <1>2, <1>5 DEF WaveOf, TotalWaves, n, s, a, t

(* Every wave of a plan has at least one node, and no more than waveSize.   *)
LEMMA WaveSizeBound ==
    ASSUME NEW p, IsPlan(p), NEW w \in 0 .. TotalWaves(p) - 1
    PROVE  /\ IsFiniteSet(WaveNodes(p, w))
           /\ Cardinality(WaveNodes(p, w)) \in 1 .. p.waveSize
<1> DEFINE n == Cardinality(p.nodes)
           s == p.waveSize
           lo == w * s
           W == WaveNodes(p, w)
           f == [x \in W |-> Rank(p.nodes, x)]
<1>1. n \in Nat /\ n >= 1 /\ s \in Nat /\ s >= 1
  BY FS_CardinalityType, FS_EmptySet DEF IsPlan
<1>2. w \in Nat /\ w < (n + s - 1) \div s
  BY <1>1, CeilLess DEF TotalWaves
<1>3. lo \in Nat /\ lo < n /\ (w + 1) * s = lo + s
  <2> HIDE DEF n, s
  <2> QED
    BY <1>1, <1>2, CeilLess
<1>4. \A x \in p.nodes : x \in W <=> Rank(p.nodes, x) \in lo .. lo + s - 1
  <2> SUFFICES ASSUME NEW x \in p.nodes
               PROVE  x \in W <=> Rank(p.nodes, x) \in lo .. lo + s - 1
    OBVIOUS
  <2>1. Rank(p.nodes, x) \in Nat
    BY <1>1, RankRange DEF IsPlan
  <2>2. WaveOf(p, x) = w <=> lo <= Rank(p.nodes, x) /\ Rank(p.nodes, x) < lo + s
    BY <1>2, <1>3, WaveIsSlice
  <2> QED
    BY <2>1, <2>2, <1>1, <1>3 DEF WaveNodes
<1>5. W \subseteq p.nodes /\ IsFiniteSet(W)
  BY FS_Subset DEF WaveNodes, IsPlan
<1>6. W # {}
  <2>1. PICK x \in p.nodes : Rank(p.nodes, x) = lo
    BY <1>1, <1>3, RankOnto DEF IsPlan
  <2> QED
    BY <2>1, <1>1, <1>3, <1>4
<1>7. f \in Injection(W, lo .. lo + s - 1)
  <2>1. \A x, y \in p.nodes : Rank(p.nodes, x) = Rank(p.nodes, y) => x = y
    BY <1>1, <1>3, RankOnto DEF IsPlan
  <2> QED
    BY <2>1, <1>4, <1>5 DEF Injection, IsInjective
<1>8. IsFiniteSet(lo .. lo + s - 1) /\ Cardinality(lo .. lo + s - 1) = s
  <2> DEFINE hi == lo + s - 1
  <2>1. lo \in Int /\ hi \in Int /\ lo <= hi /\ hi - lo + 1 = s
    BY <1>1, <1>3
  <2> HIDE DEF lo, s, hi
  <2>2. IsFiniteSet(lo .. hi) /\ Cardinality(lo .. hi) = s
    BY <2>1, FS_Interval
  <2> QED
    BY <2>2 DEF hi
<1>9. Cardinality(W) <= s
  BY <1>7, <1>8, FS_Injection
<1> QED
  BY <1>5, <1>6, <1>9, FS_CardinalityType, FS_EmptySet

-----------------------------------------------------------------------------
(* Counting leading waves: with F the waves that are finished, the number   *)
(* of leading finished waves is a wave number, every wave before it is      *)
(* finished, and it is not smaller than any run of finished waves from 0.   *)
Leading(T, F) == {w \in 0 .. T - 1 : \A v \in 0 .. w : v \in F}

LEMMA LeadingWaves ==
    ASSUME NEW T \in Nat, NEW F
    PROVE  /\ Cardinality(Leading(T, F)) \in 0 .. T
           /\ \A v \in 0 .. Cardinality(Leading(T, F)) - 1 : v \in F
           /\ \A w \in 0 .. T : (\A v \in 0 .. w - 1 : v \in F)
                                  => w <= Cardinality(Leading(T, F))
<1> DEFINE D == Leading(T, F)
<1>0. D = {w \in 0 .. T - 1 : \A v \in 0 .. w : v \in F}
  BY DEF Leading
<1> HIDE DEF D
<1>1. ASSUME NEW b \in Nat
      PROVE  IsFiniteSet(0 .. b - 1) /\ Cardinality(0 .. b - 1) = b
  <2>1. b - 1 \in Int /\ (0 > b - 1 => b = 0)
    OBVIOUS
  <2>2. /\ IsFiniteSet(0 .. b - 1)
        /\ Cardinality(0 .. b - 1) = IF 0 > b - 1 THEN 0 ELSE (b - 1) - 0 + 1
    BY <2>1, FS_Interval
  <2> QED
    BY <2>1, <2>2
<1>2. D \subseteq 0 .. T - 1
  BY <1>0
<1>3. IsFiniteSet(D) /\ Cardinality(D) <= T
  <2>1. IsFiniteSet(0 .. T - 1) /\ Cardinality(0 .. T - 1) = T
    BY <1>1
  <2>2. IsFiniteSet(D) /\ Cardinality(D) <= Cardinality(0 .. T - 1)
    BY <1>2, <2>1, FS_Subset
  <2> QED
    BY <2>1, <2>2
<1>4. Cardinality(D) \in 0 .. T
  BY <1>3, FS_CardinalityType
<1>5. ASSUME NEW v \in 0 .. Cardinality(D) - 1 PROVE v \in F
  <2>1. SUFFICES ASSUME v \notin F PROVE FALSE
    OBVIOUS
  <2>2. v \in Nat /\ v < Cardinality(D)
    BY <1>4
  <2>3. D \subseteq 0 .. v - 1
    BY <1>0, <2>1, <2>2
  <2>4. IsFiniteSet(0 .. v - 1) /\ Cardinality(0 .. v - 1) = v
    BY <1>1, <2>2
  <2>5. Cardinality(D) <= Cardinality(0 .. v - 1)
    BY <2>3, <2>4, FS_Subset
  <2> QED
    BY <1>4, <2>2, <2>4, <2>5
<1>6. ASSUME NEW w \in 0 .. T, \A v \in 0 .. w - 1 : v \in F
      PROVE  w <= Cardinality(D)
  <2>1. 0 .. w - 1 \subseteq D
    BY <1>0, <1>6
  <2>2. Cardinality(0 .. w - 1) <= Cardinality(D)
    BY <1>3, <2>1, FS_Subset
  <2> QED
    BY <1>1, <2>2
<1> QED
  BY <1>4, <1>5, <1>6 DEF D
=============================================================================

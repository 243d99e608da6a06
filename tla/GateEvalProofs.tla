--------------------------- MODULE GateEvalProofs ---------------------------
(***************************************************************************)
(* Theorems about one evaluation of a health gate (module GateEval): for   *)
(* every set of gates, samples and response sizes, a healthy verdict means *)
(* proof, an unhealthy one means evidence, and nothing is sent before the  *)
(* configuration is known to be good.                                      *)
(***************************************************************************)
EXTENDS GateEval, SequenceTheorems, WellFoundedInduction, TLAPS

\* What is known about the responses collected so far: each has data; while
\* the accumulator holds, every sample of every one is good, and once it does
\* not, one of them has a number that fails its threshold.
AllGood  == \A i \in 1 .. Len(asked) : GoodSamples(i) = 1 .. Len(asked[i].result)
Evidence == \E i \in 1 .. Len(asked) : \E j \in 1 .. Len(asked[i].result) :
              asked[i].result[j] # Malformed /\ j \notin GoodSamples(i)

Collected ==
    /\ \A i \in 1 .. Len(asked) : HasData(i)
    /\ allPass => AllGood
    /\ ~allPass => Evidence

\* What every request needs: the credentials are the gate's and every query
\* renders.
HeaderSet  == gate.auth # "none" => header = gate.auth
AllRender  == \A i \in 1 .. Len(gate.queries) : gate.queries[i].renders

\* The inductive invariant.
GateInv ==
    /\ gate \in Gates
    /\ asked \in Seq(Responses)
    /\ allPass \in BOOLEAN
    /\ step \in {"auth", "tls", "render", "query", "done"}
    /\ step # "done" => verdict = "none"
    /\ step \in {"auth", "tls", "render"} => asked = <<>> /\ allPass
    /\ step \in {"tls", "render", "query"} => HeaderSet
    /\ step = "query" => AllRender /\ Len(asked) < Len(gate.queries) /\ Collected
    /\ HealthyIsProven
    /\ UnhealthyIsProven
    /\ NothingSentUnconfigured

-----------------------------------------------------------------------------
(* A set of natural numbers that is not empty has a least element.          *)
LEMMA NatLeast ==
    ASSUME NEW T, T \subseteq Nat, T # {}
    PROVE  \E x \in T : \A y \in T : x <= y
<1>1. PICK x \in T : \A y \in T : ~ (<<y, x>> \in OpToRel(<, Nat))
  BY NatLessThanWellFounded, WFMin
<1>2. \A y \in T : ~ (y < x)
  BY <1>1 DEF OpToRel
<1> QED
  BY <1>2

(* The samples of a response form a finite list.                            *)
LEMMA ResultIsList ==
    ASSUME NEW resp \in Responses
    PROVE  Len(resp.result) \in Nat
<1>1. CASE resp.result = <<>>
  BY <1>1
<1>2. CASE \E n \in 0 .. MaxSamples :
             resp.result \in [1 .. n -> Samples \union {NaN, Malformed}]
  <2>1. PICK n \in 0 .. MaxSamples :
          resp.result \in [1 .. n -> Samples \union {NaN, Malformed}]
    BY <1>2
  <2>2. n \in Nat
    BY MaxSamplesAssumption
  <2> QED
    BY <2>1, <2>2, IsASeq, LenProperties
<1> QED
  BY <1>1, <1>2 DEF Responses

(* A response passes only if all its samples are good, and one that answers *)
(* without passing holds a number that fails: the first bad sample decides  *)
(* (evalOneQuery returns at it), so an answer means it was not malformed.   *)
LEMMA EvalOneQueryMeans ==
    ASSUME NEW resp \in Responses, NEW q
    PROVE  LET r == EvalOneQuery(resp, q)
               n == Len(resp.result)
           IN  /\ r.answered => resp.status = "success" /\ resp.result # <<>>
               /\ r.pass \in BOOLEAN
               /\ r.pass => \A j \in 1 .. n : Good(resp.result, j, q)
               /\ r.answered /\ ~r.pass =>
                    \E j \in 1 .. n : resp.result[j] # Malformed /\ ~Good(resp.result, j, q)
<1> DEFINE r   == EvalOneQuery(resp, q)
           n   == Len(resp.result)
           bad == {j \in 1 .. n : ~Good(resp.result, j, q)}
<1>1. n \in Nat
  BY ResultIsList
<1>2. /\ r.answered => resp.status = "success" /\ resp.result # <<>>
      /\ r.pass \in BOOLEAN
      /\ r.pass => \A j \in 1 .. n : Good(resp.result, j, q)
  BY DEF EvalOneQuery
<1>3. ASSUME r.answered, ~r.pass
      PROVE  \E j \in 1 .. n : resp.result[j] # Malformed /\ ~Good(resp.result, j, q)
  <2>1. bad # {}
    BY <1>3 DEF EvalOneQuery
  <2>2. bad \subseteq Nat
    BY <1>1
  <2>3. PICK x \in bad : \A y \in bad : x <= y
    <3> HIDE DEF bad
    <3> QED BY <2>1, <2>2, NatLeast
  <2>4. \A i \in 1 .. x - 1 : Good(resp.result, i, q)
    BY <2>3, <1>1
  <2>5. resp.result[x] # Malformed
    BY <1>3, <2>3, <2>4 DEF EvalOneQuery
  <2> QED
    BY <2>3, <2>5
<1> QED
  BY <1>2, <1>3

(* One more response: what was collected stays collected, provided the      *)
(* accumulator took its outcome in (evalPromQL's allPass).                  *)
LEMMA CollectedStep ==
    ASSUME GateInv, step = "query",
           NEW resp \in Responses,
           NEW CONSTANT n, n = Len(asked),
           NEW CONSTANT r, r = EvalOneQuery(resp, Normalize(gate, n + 1)),
           r.answered,
           asked' = Append(asked, resp), gate' = gate,
           allPass' = (allPass /\ r.pass)
    PROVE  Collected' /\ allPass' \in BOOLEAN /\ Len(asked') = n + 1
<1>1. /\ n \in Nat
      /\ Len(asked') = n + 1
      /\ \A i \in 1 .. n : asked'[i] = asked[i]
      /\ asked'[n + 1] = resp
  BY AppendProperties, LenProperties DEF GateInv
<1>2. Collected /\ allPass \in BOOLEAN
  BY DEF GateInv
<1>3. /\ \A i \in 1 .. n : HasData(i)' = HasData(i)
      /\ \A i \in 1 .. n : GoodSamples(i)' = GoodSamples(i)
  BY <1>1 DEF HasData, GoodSamples, Normalize
<1>4. /\ HasData(n + 1)'
      /\ r.pass => GoodSamples(n + 1)' = 1 .. Len(asked'[n + 1].result)
      /\ ~r.pass => \E j \in 1 .. Len(asked'[n + 1].result) :
                      /\ asked'[n + 1].result[j] # Malformed
                      /\ j \notin GoodSamples(n + 1)'
      /\ r.pass \in BOOLEAN
  <2> DEFINE q == Normalize(gate, n + 1)
  <2>1. /\ resp.status = "success" /\ resp.result # <<>>
        /\ r.pass \in BOOLEAN
        /\ r.pass => \A j \in 1 .. Len(resp.result) : Good(resp.result, j, q)
        /\ ~r.pass => \E j \in 1 .. Len(resp.result) :
                        resp.result[j] # Malformed /\ ~Good(resp.result, j, q)
    BY EvalOneQueryMeans
  <2>2. GoodSamples(n + 1)' = {j \in 1 .. Len(resp.result) : Good(resp.result, j, q)}
    BY <1>1 DEF GoodSamples, Normalize, Good
  <2> QED
    BY <1>1, <2>1, <2>2 DEF HasData
<1>5. \A i \in 1 .. n + 1 : i \in 1 .. n \/ i = n + 1
  BY <1>1
<1>6. n + 1 \in 1 .. n + 1 /\ 1 .. n \subseteq 1 .. n + 1
  BY <1>1
<1>7. \A i \in 1 .. Len(asked') : HasData(i)'
  BY <1>1, <1>2, <1>3, <1>4, <1>5 DEF Collected
<1>8. allPass' => AllGood'
  BY <1>1, <1>2, <1>3, <1>4, <1>5 DEF Collected, AllGood
<1>9. ~allPass' => Evidence'
  <2>1. CASE ~allPass
    BY <2>1, <1>1, <1>2, <1>3, <1>6 DEF Collected, Evidence
  <2>2. CASE ~r.pass
    BY <2>2, <1>1, <1>4, <1>6 DEF Evidence
  <2> QED
    BY <2>1, <2>2
<1> QED
  BY <1>1, <1>2, <1>4, <1>7, <1>8, <1>9 DEF Collected

-----------------------------------------------------------------------------
(* The invariant holds of the initial states.                               *)
LEMMA GateInvInit == Init => GateInv
BY EmptySeq DEF Init, GateInv, HealthyIsProven, UnhealthyIsProven, NothingSentUnconfigured

(* Every step of the evaluation preserves the invariant.                    *)
LEMMA GateInvStep == GateInv /\ [Next]_vars => GateInv'
<1> SUFFICES ASSUME GateInv, [Next]_vars PROVE GateInv'
  OBVIOUS
<1>1. ASSUME ConfigError, asked = <<>>, gate' = gate PROVE GateInv'
  BY <1>1 DEF ConfigError, Finish, GateInv, HealthyIsProven, UnhealthyIsProven,
       NothingSentUnconfigured
<1>2. CASE ResolveAuth
  BY <1>1, <1>2 DEF ResolveAuth, GateInv, HeaderSet, HealthyIsProven,
       UnhealthyIsProven, NothingSentUnconfigured, ConfigError
<1>3. CASE BuildTLSClient
  BY <1>1, <1>3 DEF BuildTLSClient, GateInv, HeaderSet, HealthyIsProven,
       UnhealthyIsProven, NothingSentUnconfigured, ConfigError
<1>4. CASE RenderQueries
  <2>1. step = "render" /\ asked = <<>> /\ allPass /\ HeaderSet
    BY <1>4 DEF RenderQueries, GateInv
  <2>2. CASE ConfigError
    BY <2>1, <2>2, <1>1 DEF ConfigError
  <2>3. CASE /\ AllRender
             /\ step' = "query"
             /\ UNCHANGED <<gate, header, asked, allPass, verdict>>
    <3>1. Len(asked') = 0 /\ Len(gate'.queries) > 0
      <4>1. gate.queries \in Seq(QueryType) /\ gate.queries # <<>>
        BY GatesAssumption DEF GateInv, GateType
      <4> QED
        BY <2>1, <2>3, <4>1, EmptySeq, LenProperties
    <3>2. Collected' /\ AllRender' /\ HeaderSet'
      BY <2>1, <2>3, <3>1 DEF Collected, AllGood, AllRender, HeaderSet
    <3> QED
      BY <2>1, <2>3, <3>1, <3>2 DEF GateInv, HealthyIsProven, UnhealthyIsProven,
           NothingSentUnconfigured
  <2> QED
    BY <1>4, <2>2, <2>3 DEF RenderQueries, AllRender
<1>5. CASE EvalPromQL
  <2>1. step = "query" /\ verdict = "none" /\ HeaderSet /\ AllRender
    BY <1>5 DEF EvalPromQL, GateInv
  <2>2. PICK resp \in Responses :
          LET i == Len(asked) + 1
              r == EvalOneQuery(resp, Normalize(gate, i))
          IN  /\ asked' = Append(asked, resp)
              /\ allPass' = (allPass /\ r.pass)
              /\ \/ ~r.answered /\ Finish("unreachable")
                 \/ /\ r.answered /\ i < Len(gate.queries)
                    /\ UNCHANGED <<step, verdict>>
                 \/ /\ r.answered /\ i = Len(gate.queries)
                    /\ Finish(IF allPass' THEN "healthy" ELSE "unhealthy")
    BY <1>5 DEF EvalPromQL
  <2>3. PICK n : n = Len(asked)
    OBVIOUS
  <2>4. PICK r : r = EvalOneQuery(resp, Normalize(gate, n + 1))
    OBVIOUS
  <2>5. UNCHANGED <<gate, header>>
    BY <1>5 DEF EvalPromQL
  <2>6. asked' \in Seq(Responses) /\ gate' \in Gates
    BY <2>2, <2>5, AppendProperties DEF GateInv
  <2>7. HeaderSet' /\ AllRender'
    BY <2>1, <2>5 DEF HeaderSet, AllRender
  <2>8. allPass' \in BOOLEAN
    BY <2>2
  <2>9. CASE ~r.answered /\ Finish("unreachable")
    BY <2>9, <2>6, <2>7, <2>8 DEF GateInv, Finish, HealthyIsProven,
         UnhealthyIsProven, NothingSentUnconfigured, HeaderSet, AllRender
  <2>10. CASE r.answered /\ n + 1 < Len(gate.queries) /\ UNCHANGED <<step, verdict>>
    <3>1. Collected' /\ Len(asked') = n + 1
      BY <2>1, <2>2, <2>3, <2>4, <2>5, <2>10, CollectedStep
    <3> QED
      BY <3>1, <2>1, <2>5, <2>6, <2>7, <2>8, <2>10 DEF GateInv, HealthyIsProven,
           UnhealthyIsProven, NothingSentUnconfigured, HeaderSet, AllRender
  <2>11. CASE /\ r.answered /\ n + 1 = Len(gate.queries)
              /\ Finish(IF allPass' THEN "healthy" ELSE "unhealthy")
    <3>1. Collected' /\ Len(asked') = n + 1
      BY <2>1, <2>2, <2>3, <2>4, <2>5, <2>11, CollectedStep
    <3>2. Len(asked') = Len(gate'.queries)
      BY <3>1, <2>5, <2>11
    <3>3. CASE allPass'
      <4>1. step' = "done" /\ verdict' = "healthy"
        BY <2>11, <3>3 DEF Finish
      <4>2. HealthyIsProven'
        BY <3>1, <3>2, <3>3 DEF HealthyIsProven, Collected, AllGood
      <4> QED
        BY <4>1, <4>2, <2>6, <2>7, <2>8 DEF GateInv, UnhealthyIsProven,
             NothingSentUnconfigured, HeaderSet, AllRender
    <3>4. CASE ~allPass'
      <4>1. step' = "done" /\ verdict' = "unhealthy"
        BY <2>11, <3>4 DEF Finish
      <4>2. UnhealthyIsProven'
        BY <3>1, <3>2, <3>4 DEF UnhealthyIsProven, Collected, Evidence
      <4> QED
        BY <4>1, <4>2, <2>6, <2>7, <2>8 DEF GateInv, HealthyIsProven,
             NothingSentUnconfigured, HeaderSet, AllRender
    <3> QED
      BY <3>3, <3>4
  <2> QED
    BY <2>2, <2>3, <2>4, <2>9, <2>10, <2>11
<1>6. CASE UNCHANGED vars
  BY <1>6 DEF vars, GateInv, HeaderSet, AllRender, Collected, AllGood, Evidence,
       HasData, GoodSamples, HealthyIsProven, UnhealthyIsProven, NothingSentUnconfigured
<1> QED
  BY <1>2, <1>3, <1>4, <1>5, <1>6 DEF Next

(* Along every evaluation the invariant holds.                              *)
LEMMA GateInvAlways == Spec => []GateInv
BY GateInvInit, GateInvStep, PTL DEF Spec

-----------------------------------------------------------------------------
(* Healthy means proof, for every gate and every sequence of responses:     *)
(* each query was answered with samples and every sample is good            *)
(* (evalPromQL, evalOneQuery).                                              *)
THEOREM HealthyAlwaysProven == Spec => []HealthyIsProven
<1>1. GateInv => HealthyIsProven
  BY DEF GateInv
<1> QED
  BY <1>1, GateInvAlways, PTL

(* Unhealthy means evidence: an outage, an empty vector, an error or a      *)
(* malformed sample in front never reads as unhealthy (evalPromQL,          *)
(* evalOneQuery).                                                           *)
THEOREM UnhealthyAlwaysProven == Spec => []UnhealthyIsProven
<1>1. GateInv => UnhealthyIsProven
  BY DEF GateInv
<1> QED
  BY <1>1, GateInvAlways, PTL

(* Nothing is sent without the gate's credentials, and no query is sent     *)
(* before all of them render (resolveGateTransport, renderQueries, gate).   *)
THEOREM NothingSentBeforeConfigured == Spec => []NothingSentUnconfigured
<1>1. GateInv => NothingSentUnconfigured
  BY DEF GateInv
<1> QED
  BY <1>1, GateInvAlways, PTL
=============================================================================

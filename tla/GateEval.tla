------------------------------ MODULE GateEval ------------------------------
(***************************************************************************)
(* One evaluation of a health gate: resolve credentials and TLS, render    *)
(* the queries, ask Prometheus one query after the other, aggregate.  Its  *)
(* verdict is one of the answers FleetRollout's gate is given.             *)
(*                                                                         *)
(* Secrets, CA bundles and Prometheus are external: what a read or a       *)
(* request returns is chosen freely at the moment it is made.              *)
(***************************************************************************)
EXTENDS Integers, Sequences

CONSTANTS
    Gates,      \* spec.healthGate, see GateType
    Samples,    \* integers a sample may be
    NaN,        \* a sample that parses as not-a-number
    Malformed,  \* a sample that is not a pair, not a string or not a number
    Unset,      \* an optional field that is absent
    MaxSamples  \* bound: samples in one response

\* A query is its op, its threshold and whether its text renders.  A bare gate
\* has the one query of spec.healthGate.query; ca says that tls.caRef is set.
QueryType == [op : {"gt", "ge", "lt", "le", "eq", "ne", Unset},
              threshold : Int \union {Unset}, renders : BOOLEAN]
GateType  == [auth : {"none", "bearer", "basic"}, ca : BOOLEAN,
              bare : BOOLEAN, queries : Seq(QueryType)]

ASSUME GatesAssumption == \A g \in Gates : g \in GateType /\ g.queries # <<>>

ASSUME MaxSamplesAssumption == MaxSamples \in Nat

VARIABLES
    gate,       \* the gate being evaluated
    step,       \* auth, tls, render, query or done
    header,     \* "" or the scheme of the Authorization header
    asked,      \* the responses so far, one per query sent
    allPass,    \* evalPromQL's accumulator
    verdict     \* the result, once done

vars == <<gate, step, header, asked, allPass, verdict>>

\* A response fails (transport error or timeout, a status other than 200, a
\* body that is oversized or no JSON, an API status other than "success"), or
\* it is a vector of samples.
Responses ==
    [status : {"transport", "non200", "oversized", "unparsable", "error"}, result : {<<>>}]
    \union
    [status : {"success"},
     result : UNION {[1 .. n -> Samples \union {NaN, Malformed}] : n \in 0 .. MaxSamples}]

\* normalizeQueries: the bare query is "> 0"; unset fields take the defaults.
Normalize(g, i) ==
    LET q == g.queries[i]
    IN  IF g.bare THEN [op |-> "gt", threshold |-> 0]
        ELSE [op        |-> IF q.op = Unset THEN "gt" ELSE q.op,
              threshold |-> IF q.threshold = Unset THEN 0 ELSE q.threshold]

\* compare, with IEEE semantics for NaN: it differs from everything.
Compare(v, op, t) ==
    IF v = NaN THEN op = "ne"
    ELSE CASE op = "ge" -> v >= t
           [] op = "lt" -> v < t
           [] op = "le" -> v <= t
           [] op = "eq" -> v = t
           [] op = "ne" -> v # t
           [] OTHER     -> v > t

\* Sample j of a result parses and satisfies query q.
Good(result, j, q) ==
    result[j] # Malformed /\ Compare(result[j], q.op, q.threshold)

\* Variant with a bug: an empty vector reads as unhealthy.
EvalOneQueryEmptyFails(resp, q) ==
    LET all == \A j \in 1 .. Len(resp.result) : Good(resp.result, j, q)
    IN  [answered |-> resp.status = "success",
         pass     |-> resp.status = "success" /\ resp.result # <<>> /\ all]

\* evalOneQuery reads the samples in order; the first that is malformed or
\* fails the threshold decides.  No sample at all is no answer.
EvalOneQuery(resp, q) ==
    LET r == resp.result
        decides(j) == ~Good(r, j, q) /\ \A i \in 1 .. j - 1 : Good(r, i, q)
        got == resp.status = "success" /\ r # <<>>
    IN  [answered |-> got /\ \A j \in 1 .. Len(r) : decides(j) => r[j] # Malformed,
         pass     |-> got /\ \A j \in 1 .. Len(r) : Good(r, j, q)]

Init ==
    /\ gate \in Gates
    /\ step = "auth" /\ header = "" /\ asked = <<>> /\ allPass = TRUE
    /\ verdict = "none"

Finish(v) == step' = "done" /\ verdict' = v

\* A config error ends the evaluation before anything is sent.
ConfigError == Finish("configError") /\ UNCHANGED <<gate, header, asked, allPass>>

\* Variant with a bug: a Secret that cannot be read means no credentials.
ResolveAuthLenient ==
    /\ step = "auth"
    /\ step' = "tls"
    /\ header' \in {"", IF gate.auth = "none" THEN "" ELSE gate.auth}
    /\ UNCHANGED <<gate, asked, allPass, verdict>>

\* resolveAuthHeader: the Secret has the keys of the scheme, or it is missing or
\* lacks one.
ResolveAuth ==
    /\ step = "auth"
    /\ \/ /\ step' = "tls"
          /\ header' = IF gate.auth = "none" THEN "" ELSE gate.auth
          /\ UNCHANGED <<gate, asked, allPass, verdict>>
       \/ gate.auth # "none" /\ ConfigError

\* buildTLSClient: a CA bundle is read and parsed if one is referenced.
BuildTLSClient ==
    /\ step = "tls"
    /\ \/ /\ step' = "render"
          /\ UNCHANGED <<gate, header, asked, allPass, verdict>>
       \/ gate.ca /\ ConfigError

\* renderQueries renders every query before the first is sent.
RenderQueries ==
    LET valid == \A i \in 1 .. Len(gate.queries) : gate.queries[i].renders
    IN  /\ step = "render"
        /\ \/ /\ valid
              /\ step' = "query"
              /\ UNCHANGED <<gate, header, asked, allPass, verdict>>
           \/ ~valid /\ ConfigError

\* Variant with a bug: the last query decides.
EvalPromQLLast ==
    /\ step = "query"
    /\ \E resp \in Responses :
         LET i == Len(asked) + 1
             r == EvalOneQuery(resp, Normalize(gate, i))
         IN  /\ asked' = Append(asked, resp)
             /\ allPass' = r.pass
             /\ IF ~r.answered THEN Finish("unreachable")
                ELSE IF i = Len(gate.queries)
                  THEN Finish(IF r.pass THEN "healthy" ELSE "unhealthy")
                  ELSE UNCHANGED <<step, verdict>>
    /\ UNCHANGED <<gate, header>>

\* evalPromQL: the first unanswered query ends it; a failed one does not.
EvalPromQL ==
    /\ step = "query"
    /\ \E resp \in Responses :
         LET i == Len(asked) + 1
             r == EvalOneQuery(resp, Normalize(gate, i))
         IN  /\ asked' = Append(asked, resp)
             /\ allPass' = (allPass /\ r.pass)
             /\ \/ ~r.answered /\ Finish("unreachable")
                \/ /\ r.answered /\ i < Len(gate.queries)
                   /\ UNCHANGED <<step, verdict>>
                \/ /\ r.answered /\ i = Len(gate.queries)
                   /\ Finish(IF allPass' THEN "healthy" ELSE "unhealthy")
    /\ UNCHANGED <<gate, header>>

Next == ResolveAuth \/ BuildTLSClient \/ RenderQueries \/ EvalPromQL

Spec == Init /\ [][Next]_vars

-----------------------------------------------------------------------------
\* The samples of response i that are good for query i, and whether it has any.
GoodSamples(i) ==
    {j \in 1 .. Len(asked[i].result) : Good(asked[i].result, j, Normalize(gate, i))}
HasData(i) == asked[i].status = "success" /\ asked[i].result # <<>>

(* Healthy means proof: every query was answered with at least one sample,   *)
(* and every sample of every query satisfies its threshold ("healthy only    *)
(* when ALL of them pass", HealthGate.Queries; evalPromQL, evalOneQuery).    *)
HealthyIsProven ==
    verdict = "healthy" =>
      /\ Len(asked) = Len(gate.queries)
      /\ \A i \in 1 .. Len(asked) :
           HasData(i) /\ GoodSamples(i) = 1 .. Len(asked[i].result)

(* Unhealthy means evidence, never missing data: all queries were answered   *)
(* with samples, and one sample is a number that fails its threshold.  Only  *)
(* this verdict can pause or roll back, so it is where an outage, an empty   *)
(* vector or a 5xx would do harm (evalPromQL, evalOneQuery).                 *)
UnhealthyIsProven ==
    verdict = "unhealthy" =>
      /\ Len(asked) = Len(gate.queries)
      /\ \A i \in 1 .. Len(asked) : HasData(i)
      /\ \E i \in 1 .. Len(asked) : \E j \in 1 .. Len(asked[i].result) :
           asked[i].result[j] # Malformed /\ j \notin GoodSamples(i)

(* A gate with credentials is never asked without them, and a                *)
(* misconfiguration is found before the first request, so an unreadable      *)
(* Secret or a bad query template behind a good one cannot turn into an      *)
(* answer of any kind (resolveGateTransport, renderQueries, gate).           *)
NothingSentUnconfigured ==
    /\ asked # <<>> => /\ gate.auth # "none" => header = gate.auth
                      /\ \A i \in 1 .. Len(gate.queries) : gate.queries[i].renders
    /\ verdict = "configError" => asked = <<>>
=============================================================================

--------------------------- MODULE MCFleetRollout ---------------------------
(***************************************************************************)
(* Instances of FleetRollout for TLC.                                      *)
(***************************************************************************)
EXTENDS RolloutRefinement

MCArtifacts == {"t1", "t2"}
MCHashes    == {"h1", "h2"}
MCHashOf    == [a \in MCArtifacts |-> IF a = "t2" THEN "h2" ELSE "h1"]

SpecOf(a, ws, gate, policy) ==
    [artifact |-> a, waveSize |-> ws, healthGate |-> gate, rollbackPolicy |-> policy]

One   == [percent |-> FALSE, val |-> 1]
Two   == [percent |-> FALSE, val |-> 2]
Unset == [percent |-> FALSE, val |-> 0]

T1Gated   == SpecOf("t1", One, TRUE, "OnFailure")
T2Gated   == SpecOf("t2", One, TRUE, "OnFailure")
T2Wide    == SpecOf("t2", Two, TRUE, "OnFailure")
T2Never   == SpecOf("t2", One, TRUE, "Never")
T2Ungated == SpecOf("t2", Unset, FALSE, "OnFailure")

T2Only        == {T2Gated}
AllWaves      == {T2Gated, T2Wide, T2Ungated}
TwoSpecs      == {T1Gated, T2Gated}
T2OrWide      == {T2Gated, T2Wide}
PolicySpecs   == {T1Gated, T2Gated, T2Never}

\* What the gate may answer while each of the two templates rolls.
Obs(t1, t2)   == [h \in MCHashes |-> IF h = "h1" THEN t1 ELSE t2]
AnyAnswer     == Obs(Answers, Answers)
AlwaysHealthy == Obs({"healthy"}, {"healthy"})
T2Bad         == Obs({"healthy"}, {"unhealthy"})
T2Outage      == Obs({"healthy"}, {"unreachable", "unhealthy"})
NoData        == Obs(Answers \ {"unhealthy"}, Answers \ {"unhealthy"})

UpgradeSpec == Upgrade /\ [][Next]_vars
FairUpgrade == UpgradeSpec /\ Fairness
FairDeploy  == FirstDeploy /\ [][Next]_vars /\ Fairness
=============================================================================

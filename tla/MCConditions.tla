---------------------------- MODULE MCConditions ----------------------------
(***************************************************************************)
(* Instances of StatusConditions for TLC.                                  *)
(***************************************************************************)
EXTENDS MCFleetRollout, StatusConditions

\* At the start the first node is Ready, the others are in any state, and the
\* second template is wanted, on a new fleet or one that runs the first.
SettleInit == CInit /\ node[1] = "ready" /\ spec = T2Gated

SettleSpec == SettleInit /\ [][CNext]_svars /\ CFairness
=============================================================================

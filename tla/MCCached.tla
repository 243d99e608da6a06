------------------------------ MODULE MCCached ------------------------------
(***************************************************************************)
(* Instances of CachedRollout for TLC.                                     *)
(***************************************************************************)
EXTENDS MCFleetRollout, CachedRollout

\* An upgrade of a fleet whose nodes are all Ready.
ReadyInit == LInit /\ Upgrade /\ node = [x \in Nodes |-> "ready"]

LReady == ReadyInit /\ [][LNext]_cvars

LagSpec == LReady /\ LFairness

\* An upgrade that may be rolled back until its policy or template is edited.
StaleInit == ReadyInit /\ spec = T2Gated

StaleSpec == StaleInit /\ [][LNext]_cvars /\ ResyncFairness
=============================================================================

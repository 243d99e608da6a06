----------------------------- MODULE MCHistory ------------------------------
(***************************************************************************)
(* Instances of RolloutHistory for TLC.                                    *)
(***************************************************************************)
EXTENDS MCFleetRollout, RolloutHistory

HUpgrade == Upgrade /\ HInit

HSpecUpgrade == HUpgrade /\ [][HNext]_hvars
=============================================================================

------------------------------ MODULE MCSignal ------------------------------
(***************************************************************************)
(* An instance of GateSignal for TLC.                                      *)
(***************************************************************************)
EXTENDS MCFleetRollout, GateSignal
=============================================================================

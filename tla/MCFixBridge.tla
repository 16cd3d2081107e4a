----------------------------- MODULE MCFixBridge ----------------------------
(***************************************************************************)
(* FixBridge with two connections and two strategies.                      *)
(***************************************************************************)
EXTENDS FixBridge, TLC

StrategySymmetry == Permutations(StrategyIds)
=============================================================================

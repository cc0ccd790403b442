----------------------------- MODULE MC_RollingState -----------------------------
(* Constants of the rolling_* runs. *)
EXTENDS RollingState, TLC
MC_Product == {"refresh", "set_regime", "reset", "run"}
Symmetry == Permutations(Workers)
================================================================================

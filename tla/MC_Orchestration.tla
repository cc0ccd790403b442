---------------------------- MODULE MC_Orchestration ----------------------------
(* Constants of the orchestration runs. *)
EXTENDS Orchestration
================================================================================

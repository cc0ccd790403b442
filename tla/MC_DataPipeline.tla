---------------------------- MODULE MC_DataPipeline ----------------------------
(***************************************************************************)
(* A small instance of DataPipeline: a public feed and a sample feed that  *)
(* the startup loads.  Requests refresh the public one, and may take it    *)
(* out of the snapshots.                                                   *)
(***************************************************************************)
EXTENDS DataPipeline, TLC

MC_Feeds == {"elexon_system", "battery_telemetry_sample"}
MC_Overrides == [f \in MC_Feeds |-> IF f = "elexon_system" THEN {"none", "out"} ELSE {}]
================================================================================

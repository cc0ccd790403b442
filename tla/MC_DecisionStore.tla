---------------------------- MODULE MC_DecisionStore ----------------------------
(***************************************************************************)
(* Small instances of DecisionStore.  Volumes of 4 grid steps make every   *)
(* outcome of a fill possible: 2 executed leaves 2 (partial), 3 executed   *)
(* leaves 1, which is within the tolerance (full).                         *)
(***************************************************************************)
EXTENDS DecisionStore

MC_Orders == {[buy |-> 4, sell |-> 0, limit |-> 0], [buy |-> 0, sell |-> 3, limit |-> 0],
              [buy |-> 0, sell |-> 0, limit |-> 0]}
MC_Gates == {NoGate, 2}
MC_Figures == {-1, 2}
================================================================================

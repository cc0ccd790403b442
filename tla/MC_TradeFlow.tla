------------------------------ MODULE MC_TradeFlow ------------------------------
(***************************************************************************)
(* Small instances of TradeFlow.  A market day is 4 instants: Gate Closure *)
(* at 1, delivery over at 2, the daily auction at 3.                       *)
(***************************************************************************)
EXTENDS TradeFlow, TLC

CONSTANTS d1, k1

MC_Orders == {[buy |-> 4, sell |-> 0, limit |-> 0], [buy |-> 0, sell |-> 4, limit |-> 0]}
MC_OneOrder == {[buy |-> 4, sell |-> 0, limit |-> 0]}
MC_Gates == {1}
MC_Figures == {0}
MC_All == {"submit", "deliver", "settle", "evaluate", "process"}
MC_SubmitOnly == {"submit"}
MC_Retried == {"submit", "process"}
MC_Guards == {"none", "version"}
MC_NoGuard == {"none"}
MC_OwnKey == [k \in Keys |-> {d1}]
MC_NoKeys == [k \in Keys |-> {}]

Symmetry == Permutations(Threads)
================================================================================

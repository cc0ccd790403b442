---------------------------- MODULE MC_TraderSessions ----------------------------
(***************************************************************************)
(* Small instances of TraderSessions: a recommendation to buy, which a     *)
(* trader may turn into a sale.                                            *)
(***************************************************************************)
EXTENDS TraderSessions

MC_Orders == {[buy |-> 4, sell |-> 0, limit |-> 0], [buy |-> 0, sell |-> 3, limit |-> 0]}
MC_Gates == {NoGate, 2}
MC_Figures == {0}
================================================================================

----------------------------- MODULE MC_Dispatch -----------------------------
(* Constants of the dispatch run: a day of four periods, then one of three. *)
EXTENDS Dispatch, TLC
MC_Auctions == {1, 5, 8, 12}
MC_Midnights == {0, 3, 7, 10, 13}
================================================================================

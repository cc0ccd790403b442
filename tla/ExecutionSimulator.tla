---------------------------- MODULE ExecutionSimulator ----------------------------
(***************************************************************************)
(* execution_simulator.simulate and liquidity.executable_price: what the   *)
(* visible order book makes of one order.  There are no variables here.    *)
(*                                                                         *)
(* A book is a sequence of levels [price, volume], best first.  Volumes    *)
(* are grid steps, prices whole pence, and what rounding loses below those *)
(* is left out; the execution cash of an order (its notional) stands for   *)
(* the average price, which the code keeps to four digits.                 *)
(***************************************************************************)
EXTENDS Integers, Sequences

Tolerance == 1    \* tolerance_mwh and _TOL: one grid step
FeeRate   == 15   \* fee_gbp_per_mwh = 0.15

\* _mode_params: tenths of the depth that others have taken, and pence against us at every level
DepthHaircut == [IDEAL |-> 0, REALISTIC |-> 1, STRESS |-> 4]
AdversePrice == [IDEAL |-> 0, REALISTIC |-> 0, STRESS |-> 800]

Least(x, y)   == IF x < y THEN x ELSE y
NotBelow(x)   == IF x < 0 THEN 0 ELSE x

Depth(levels) ==
  LET upTo[n \in 0..Len(levels)] == IF n = 0 THEN 0 ELSE upTo[n - 1] + levels[n].volume
  IN upTo[Len(levels)]

Untouched(volume) == [left |-> volume, filled |-> 0, notional |-> 0]

Take(so_far, volume, price) ==
  [left     |-> so_far.left - volume,
   filled   |-> so_far.filled + volume,
   notional |-> so_far.notional + volume * price]

\* a level as the mode sees it: the depth that is left of it, at the price that is paid
Offered(level, side, mode) ==
  [volume |-> (level.volume * (10 - DepthHaircut[mode])) \div 10,
   price  |-> IF side = "BUY" THEN level.price + AdversePrice[mode]
                              ELSE level.price - AdversePrice[mode]]

\* Mutant: a level gives its whole depth, however little is left of the order
SweepWholeLevel(so_far, level, side, mode) ==
  LET offered == Offered(level, side, mode)
  IN IF so_far.left <= Tolerance \/ offered.volume <= Tolerance THEN so_far
     ELSE Take(so_far, offered.volume, offered.price)

\* one level: nothing more is taken when the order is full, and nothing from an empty level
Sweep(so_far, level, side, mode) ==
  LET offered == Offered(level, side, mode)
  IN IF so_far.left <= Tolerance \/ offered.volume <= Tolerance THEN so_far
     ELSE Take(so_far, Least(so_far.left, offered.volume), offered.price)

\* the levels are used up from the best one on; the orders of a replay carry no limit price
Walk(levels, side, volume, mode) ==
  LET after[n \in 0..Len(levels)] ==
        IF n = 0 THEN Untouched(volume) ELSE Sweep(after[n - 1], levels[n], side, mode)
  IN after[Len(levels)]

StatusOf(volume, filled) ==
  IF filled <= Tolerance THEN "EXPIRED"
  ELSE IF volume - filled > Tolerance THEN "PARTIALLY_FILLED" ELSE "FILLED"

\* IDEAL fills everything at the best visible price; the other modes walk the book
Simulate(levels, side, volume, mode) ==
  LET done == IF levels = <<>> THEN Untouched(volume)
              ELSE IF mode = "IDEAL" THEN Take(Untouched(volume), volume, Head(levels).price)
              ELSE Walk(levels, side, volume, mode)
  IN [filled   |-> done.filled,
      unfilled |-> NotBelow(volume - done.filled),
      cash     |-> IF side = "BUY" THEN -done.notional ELSE done.notional,
      fees     |-> FeeRate * done.filled,
      status   |-> StatusOf(volume, done.filled)]

\* what a sweep of the visible book would execute, and how far its price is from the best one,
\* in pence over the whole volume
Executable(levels, volume) == Least(volume, Depth(levels))

Slippage(levels, side, volume) ==
  LET swept == Walk(levels, side, volume, "IDEAL")
  IN IF levels = <<>> THEN 0
     ELSE IF side = "BUY" THEN swept.notional - swept.filled * Head(levels).price
                          ELSE swept.filled * Head(levels).price - swept.notional
================================================================================

-------------------------------- MODULE RealisedPnl --------------------------------
(***************************************************************************)
(* pnl_attribution and benchmarks: the money of one delivered period.      *)
(* There are no variables here.  An input record holds the realised        *)
(* generation gen, the position q before the decision, the executed        *)
(* volumes buy and sell, their execution cash and fees, the reference      *)
(* price ref and the two imbalance prices.  The cash is the volume times   *)
(* the average price; rounding is left out.                                *)
(***************************************************************************)
EXTENDS Integers

\* the imbalance after a hedge, and what it is settled at: surplus sells, shortage buys
Imbalance(in, buy, sell) == in.gen - (in.q + buy - sell)

ImbalancePrice(in, imbalance) == IF imbalance >= 0 THEN in.imbSell ELSE in.imbBuy

ImbalanceCash(in, imbalance) == imbalance * ImbalancePrice(in, imbalance)

\* the cash of a hedge, and what it earned compared with no hedge at all
TotalCash(in, buy, sell, cash, fees) == cash + ImbalanceCash(in, Imbalance(in, buy, sell)) - fees

NoActionCash(in) == ImbalanceCash(in, Imbalance(in, 0, 0))

Incremental(in, buy, sell, cash, fees) == TotalCash(in, buy, sell, cash, fees) - NoActionCash(in)

\* compute_settlement
Settled(in) == Incremental(in, in.buy, in.sell, in.cash, in.fees)

\* Mutant: the volume effect is valued at the price of the case without a hedge
AttributionOldPrice(in) ==
  LET dec == ImbalancePrice(in, Imbalance(in, in.buy, in.sell))
      na  == ImbalancePrice(in, Imbalance(in, 0, 0))
  IN [price     |-> in.cash,
      fees      |-> -in.fees,
      reduction |-> -(in.buy - in.sell) * na,
      residual  |-> Imbalance(in, 0, 0) * (dec - na)]

\* compute_attribution: execution, fees, volume and price regime
Attribution(in) ==
  LET dec == ImbalancePrice(in, Imbalance(in, in.buy, in.sell))
      na  == ImbalancePrice(in, Imbalance(in, 0, 0))
  IN [price     |-> in.cash,
      fees      |-> -in.fees,
      reduction |-> -(in.buy - in.sell) * dec,
      residual  |-> Imbalance(in, 0, 0) * (dec - na)]

AttributedTotal(in) ==
  LET a == Attribution(in) IN a.price + a.fees + a.reduction + a.residual

\* a benchmark that trades at the reference price
AtReference(in, buy, sell, feeRate) ==
  Incremental(in, buy, sell, (sell - buy) * in.ref, feeRate * (buy + sell))

\* perfect_foresight_benchmark: the hedge that leaves no imbalance
Foresight(in, feeRate) ==
  LET needed == in.gen - in.q
  IN IF needed > 0 THEN AtReference(in, needed, 0, feeRate) ELSE AtReference(in, 0, -needed, feeRate)

\* compute_benchmarks, with the recommended volumes
Benchmarks(in, modelBuy, modelSell, feeRate) ==
  [NO_ACTION            |-> Incremental(in, 0, 0, 0, 0),
   MODEL_RECOMMENDATION |-> AtReference(in, modelBuy, modelSell, feeRate),
   TRADER_INSTRUCTION   |-> Incremental(in, in.buy, in.sell, in.cash, in.fees),
   PERFECT_FORESIGHT    |-> Foresight(in, feeRate)]
================================================================================

-------------------------------- MODULE HedgeTiming --------------------------------
(***************************************************************************)
(* hedge_timing.assess_timing and the market view it is given              *)
(* (decision_prioritisation.build_timing_market_view): whether to hedge a  *)
(* decision now.  Time is counted in units of five minutes.  The priority  *)
(* score, which orders the trader's list and decides nothing, is left out. *)
(***************************************************************************)
EXTENDS ExecutionSimulator

CONSTANTS
  GateNear,           \* gate_closure_near_minutes
  ExposureTolerance,  \* exposure_tolerance_mwh
  MaxSpread,          \* max_spread_gbp_per_mwh, in pence
  MaxSlippage         \* max_slippage_gbp_per_mwh, in pence

ASSUME TimingAssumption ==
  GateNear \in Nat /\ ExposureTolerance \in Nat /\ MaxSpread \in Nat /\ MaxSlippage \in Nat

Magnitude(x) == IF x < 0 THEN -x ELSE x

\* the hedge of a recommendation: the larger side, less the other one
SideOf(rec) ==
  IF rec.buy > rec.sell + Tolerance THEN "BUY"
  ELSE IF rec.sell > rec.buy + Tolerance THEN "SELL" ELSE "NONE"

Required(rec) == IF SideOf(rec) = "NONE" THEN 0 ELSE Magnitude(rec.buy - rec.sell)

Levels(offer, side) == IF side = "BUY" THEN offer.asks ELSE offer.bids

\* the book against the recommendation; offer is the period's entry in the market
MarketView(offer, rec) ==
  LET side   == SideOf(rec)
      levels == Levels(offer, side)
  IN [tradeable  |-> offer.tradeable,
      executable |-> IF side = "NONE" THEN 0 ELSE Executable(levels, Required(rec)),
      clean      |-> /\ offer.bids # <<>> /\ offer.asks # <<>>
                     /\ Head(offer.asks).price - Head(offer.bids).price <= MaxSpread
                     /\ side # "NONE" =>
                          Slippage(levels, side, Required(rec))
                            <= MaxSlippage * Executable(levels, Required(rec))]

Verdicts == {"HEDGE_NOW", "PARTIAL_HEDGE_NOW", "WAIT", "NO_ACTION"}

\* the first rule that applies; a book that covers nine tenths of the volume is enough, one that
\* covers a tenth is enough for a part
Verdict(trusted, exposure, required, market, untilGate) ==
  IF \/ ~trusted
     \/ ~market.tradeable \/ untilGate < 0
     \/ required <= Tolerance
     \/ Magnitude(exposure) <= ExposureTolerance
  THEN "NO_ACTION"
  ELSE IF 4 * required < Magnitude(exposure) \/ untilGate > GateNear THEN "WAIT"
  ELSE IF 10 * market.executable >= 9 * required /\ market.clean THEN "HEDGE_NOW"
  ELSE IF 10 * market.executable >= required THEN "PARTIAL_HEDGE_NOW"
  ELSE "WAIT"

\* the volume to hedge now
NowVolume(verdict, required, market) ==
  CASE verdict = "HEDGE_NOW"         -> required
    [] verdict = "PARTIAL_HEDGE_NOW" -> Least(market.executable, required)
    [] OTHER                         -> 0
================================================================================

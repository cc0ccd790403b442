\* The replay, and what its policy says of a waiting decision.
SPECIFICATION Spec
CONSTANTS
  NoBatch = NoBatch
  PeriodCount = 3
  Offers <- MCOffers
  Policies = {"NO_ACTION", "MODEL_FOLLOW", "TIMING_POLICY"}
  Modes = {"IDEAL", "REALISTIC", "STRESS"}
  GateNear = 9
  ExposureTolerance = 5
  MaxSpread = 600
  MaxSlippage = 400
INVARIANT
  FollowsCurrentVerdict
CHECK_DEADLOCK FALSE

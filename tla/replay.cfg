\* Three periods of every kind, all policies and modes, from every start of the window.
SPECIFICATION Spec
CONSTANTS
  NoBatch = NoBatch
  PeriodCount = 3
  Offers <- MCOffers
  Policies = {"NO_ACTION", "MODEL_FOLLOW", "TIMING_POLICY"}
  Modes = {"IDEAL", "REALISTIC", "STRESS"}
  GateNear = 9
  ExposureTolerance = 5
  MaxSpread = 600
  MaxSlippage = 400
INVARIANTS
  EveryMoveLegal
  PointInTime
  AllResolved
  HedgeWithinAdvice
  OrdersFollowVerdicts
  WaitingIsReassessed
  ReportsAgree
CHECK_DEADLOCK FALSE

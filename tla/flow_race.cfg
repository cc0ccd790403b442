\* Two threads, one decision, every operation with and without a version, within one market day.
CONSTANTS
  NoBatch = NoBatch
  NoKey = NoKey
  d1 = d1
  k1 = k1
  Ids = {d1}
  BatchIds = {b1}
  Orders <- MC_Orders
  Gates <- MC_Gates
  Figures <- MC_Figures
  MaxTime = 2
  MaxBatch = 1
  MaxDelayLog = 0
  Threads = {t1, t2}
  Keys = {}
  Operations <- MC_All
  GuardKinds <- MC_Guards
  KeyOwner <- MC_NoKeys
  Day = 4
  Gate = 1
  Auction = 3
SPECIFICATION FlowSpec
SYMMETRY Symmetry
INVARIANTS
  LedgersMatchDecisions
  OrderFollowsTrader
  OutcomeOfWhatWasTraded

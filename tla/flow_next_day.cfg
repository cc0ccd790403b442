\* The settlement period number comes back with the next market day.
CONSTANTS
  NoBatch = NoBatch
  NoKey = NoKey
  d1 = d1
  k1 = k1
  Ids = {d1}
  BatchIds = {b1}
  Orders <- MC_OneOrder
  Gates <- MC_Gates
  Figures <- MC_Figures
  MaxTime = 3
  MaxBatch = 1
  MaxDelayLog = 0
  Threads = {t1}
  Keys = {}
  Operations <- MC_SubmitOnly
  GuardKinds <- MC_NoGuard
  KeyOwner <- MC_NoKeys
  Day = 4
  Gate = 1
  Auction = 3
SPECIFICATION FlowSpec
INVARIANTS
  GateRespected

\* Requests carry status and sequence, as the frontend sends them.
CONSTANTS
  NoBatch = NoBatch
  Ids = {d1}
  BatchIds = {}
  Orders <- MC_Orders
  Gates <- MC_Gates
  Figures <- MC_Figures
  MaxTime = 2
  MaxBatch = 1
  MaxDelayLog = 4
  GuardKind = "version"
  MaxRequests = 4
SPECIFICATION SessionSpec
INVARIANTS
  NoStaleWrite
CHECK_DEADLOCK FALSE

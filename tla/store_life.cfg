\* One decision through every operation, with deadlines and stale requests.
CONSTANTS
  NoBatch = NoBatch
  Ids = {d1}
  BatchIds = {b1}
  Orders <- MC_Orders
  Gates <- MC_Gates
  Figures <- MC_Figures
  MaxTime = 3
  MaxBatch = 1
  MaxDelayLog = 4
SPECIFICATION Spec
INVARIANTS
  TypeOK
  AuditTrail
  StageRecordsMatchLog
  OneApprovedOrder
  FillConservation
  IndexesAgree
PROPERTIES
  AppendOnly
  OutcomeFinal
  TicketSpec

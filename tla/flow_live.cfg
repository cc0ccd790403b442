\* Every call returns and every order resolves; retries with a key, two requests at a time, until
\* the auction has listed the next day.
CONSTANTS
  NoBatch = NoBatch
  NoKey = NoKey
  d1 = d1
  k1 = k1
  Ids = {d1}
  BatchIds = {b1}
  Orders <- MC_OneOrder
  Gates <- MC_Gates
  Figures <- MC_Figures
  MaxTime = 3
  MaxBatch = 1
  MaxDelayLog = 0
  Threads = {t1, t2}
  Keys = {k1}
  Operations <- MC_Retried
  GuardKinds <- MC_NoGuard
  KeyOwner <- MC_OwnKey
  Day = 4
  Gate = 1
  Auction = 3
SPECIFICATION FlowSpec
INVARIANTS
  RetryFindsRecord
  LateOnlyAfterAuction
PROPERTIES
  CallsReturn
  SubmittedResolves

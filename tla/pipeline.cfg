\* Two refreshes after the startup's, one rolling publication after the startup's, derived values of
\* one snapshot, one tick, after which every feed is stale.
CONSTANTS
  Feeds <- MC_Feeds
  Overrides <- MC_Overrides
  Clients = {c1, c2}
  Main = main
  TickSeconds = 181
  MaxClock = 1
  MaxRequests = 3
  MaxPublications = 2
  MaxDerived = 1
SPECIFICATION PipelineSpec
INVARIANTS
  ShownHonestly
  OneAttemptRuns
  NewestSnapshotResolves
PROPERTIES
  FeedSnapshotsFrozen
  RefreshReturns
CHECK_DEADLOCK FALSE

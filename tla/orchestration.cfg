\* One refresher; four publications: an advance over an auction, or an advance, a reset and another.
CONSTANTS
  NoWorker = NoWorker
  Workers = {w1}
  Refreshers = {r1}
  RollingOps = {"set_regime", "reset", "advance"}
  Regimes = {"normal"}
  Normal = "normal"
  Day = 3
  Auction = 0
  MaxVintages = 2
  MaxClock = 0
  MaxPublications = 4
  MaxMaterial = 1
SPECIFICATION OrchestrationSpec
INVARIANTS
  OneDecisionPerRevision
  ConsecutiveVintages
  DuplicateIsGenuine
  CoherentReadsMatchPeriods

\* Two refreshers.
CONSTANTS
  NoWorker = NoWorker
  Workers = {w1}
  Refreshers = {r1, r2}
  RollingOps = {"set_regime", "reset", "advance"}
  Regimes = {"normal"}
  Normal = "normal"
  Day = 3
  Auction = 0
  MaxVintages = 2
  MaxClock = 0
  MaxPublications = 2
  MaxMaterial = 1
SPECIFICATION OrchestrationSpec
INVARIANTS
  OneDecisionPerRevision

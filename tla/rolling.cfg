\* Two workers, two vintages kept, three publications after which a half hour, and then a day, is over.
CONSTANTS
  NoWorker = NoWorker
  Workers = {w1, w2}
  RollingOps = {"refresh", "set_regime", "reset", "advance", "run"}
  Regimes = {"normal"}
  Normal = "normal"
  Day = 2
  Auction = 1
  MaxVintages = 2
  MaxClock = 2
  MaxPublications = 3
SPECIFICATION RollingSpec
SYMMETRY Symmetry
INVARIANTS
  RollingTypeOK
  ActionsAppliedOnce
  NewestVintagesRetained
  VintageIdsDistinct

\* Five levels of SoC, a target two periods of charging above the initial one, a long and a
\* short day, every horizon mode.
CONSTANTS
  EMin = 1
  EMax = 5
  ChargeMax = 1
  DischargeMax = 1
  Gain = 1
  Loss = 1
  UpReserved = 0
  DownReserved = 0
  ReservePeriods = 0
  Auctions <- MC_Auctions
  Midnights <- MC_Midnights
  Modes = {"next_auction", "next_8_periods", "end_of_day"}
  Lookahead = 2
  Initial = 2
  Target = 4
  Cadence = 2
  Start = 2
  MaxClock = 5
  MaxAdvances = 2
SPECIFICATION DispatchSpec
INVARIANTS
  RefreshSucceeds
  ActionsFollowed
  TargetAtHorizonEnd
CHECK_DEADLOCK FALSE

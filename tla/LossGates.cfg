SPECIFICATION GatesFairSpec
CONSTANTS
  DailyLoss = 80
  LockLoss = 72
  WeeklyLoss = 100
  Drawdown = 130
  Lookback = 0
  HistKept = 1
  PerTrade = 60
  HardCap = 60
  LotRisk = 20
  Losing = {20}
  Winning = {20}
  MaxLots = 3
  Tolerance = 1
  Floor = FALSE
  Multipliers = {100, 110}
  Cost = 1
  StreakLimit = 2
  PauseLen = 2
  SwitchLen = 1
  LateTicks = TRUE
  SaveFaults = {"unwritten", "torn"}
  DaysPerWeek = 2
  MaxDays = 3
  MaxTrades = 3
  MaxLaunches = 3
  MaxFaults = 2
INVARIANTS GatesExact
PROPERTIES LossLocks
CHECK_DEADLOCK FALSE

SPECIFICATION GuardsSpec
CONSTANTS
  RejectLimit = 3
  ValidNeeded = 3
  WideLimit = 3
  HighLimit = 4
  LowNeeded = 2
  FreezeLimit = 2
  Keep = 2
  Cooldown = 2
  MaxLosses = 1
  Ratios = {85, 130}
  Ranges = {4, 12}
  Spreads = {90, 140, 240}
  Trigger = 1
  ThinVolume = 90
  VolumeBack = 110
  Still = 5
  MovingAgain = 10
  Span = 2
  Far = 1
  Near = 0
  ShortLen = 2
  Rsis = {30, 40, 50, 60, 70}
  Levels = {0, 60, 100}
  Volatilities = {0, 10, 25, 40}
  Severities = {0, 50}
  Utilizations = {0, 100}
  Reductions = {50, 100}
  Budgets = {0, 96, 97, 120, 900}
  DayBudgets = {0, 240, 2700}
  Capitals = {3200, 40000}
  Floors = {TRUE, FALSE}
INVARIANTS BadDataStops ModeHonest TrendFair SizeHonest
PROPERTIES StaleLiftedByProof KillRecovers
CHECK_DEADLOCK FALSE

SPECIFICATION FairLadderSpec
CONSTANTS
  HardSL = 3
  Rungs <- TwoRungs
  Target = 5
  EarlyCuts = {1, 2}
  EarlyTime = 1
  SoftTime = 2
  SoftLoss = 1
  RsiGain = 2
  ReversalGain = 1
  FloorGain = 1
  HoldWin = 4
  HoldLose = 3
  Closes = {2, 5}
  MaxLoss = 3
  Half = 6
  Reach = 8
  Move = 2
  Spread = 1
  Slippage = 1
INVARIANTS
  StopHonoured
PROPERTIES
  StopNeverLoosens
  TradeEnds
CHECK_DEADLOCK FALSE

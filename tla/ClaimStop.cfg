SPECIFICATION Spec
CONSTANTS
  MaxSent = 3
  MaxBots = 2
  MaxCrashes = 0
INVARIANTS
  StopStands
CHECK_DEADLOCK FALSE

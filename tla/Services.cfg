SPECIFICATION SvcFairSpec
CONSTANTS
  MaxRows = 3
  Symbols = {ce, pe}
  Cap = 2
  MaxAge = 2
  MaxStarts = 2
  QueueMax = 2
  MaxTicks = 3
  MaxBuckets = 2
  MaxSessions = 2
  MaxSent = 3
  MaxBots = 2
  MaxCrashes = 1
INVARIANTS BookExact RecordComplete UpdatesKept
PROPERTIES TrackedEnds Drained Answered
CHECK_DEADLOCK FALSE

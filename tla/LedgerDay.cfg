SPECIFICATION FairSpec
CONSTANTS
  MaxTradesPerDay = 3
  MaxTradesPerHour = 2
  Amounts <- MCAmounts
  MaxRows = 3
  MaxStarts = 3
INVARIANTS DayExact
PROPERTIES BlocksEnd
CHECK_DEADLOCK FALSE

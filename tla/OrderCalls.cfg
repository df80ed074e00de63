SPECIFICATION FairSpec
CONSTANTS
  LimitTries = 2
  Polls = 2
  ExitTries = 2
  MaxEntries = 2
  MaxExits = 1
INVARIANTS
  OrdersAccounted
PROPERTIES
  CallReturns
  SlotImplemented
CHECK_DEADLOCK FALSE

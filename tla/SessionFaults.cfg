SPECIFICATION FairSpec
CONSTANTS
  MaxOrders = 2
  MaxSells = 2
  MaxLaunches = 2
  MaxReconnects = 2
  MaxTradesPerDay = 2
  Faults = {"interrupt", "crash", "exception", "lostfill", "latefill", "resend", "dbfail", "logfail", "unreadable"}
INVARIANTS LedgerMatches StopLeaksOneOrder
PROPERTIES StopFlattens
CHECK_DEADLOCK FALSE

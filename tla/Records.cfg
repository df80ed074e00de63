SPECIFICATION RecSpec
CONSTANTS
  MaxOrders = 3
  MaxSells = 4
  MaxLaunches = 3
  MaxReconnects = 2
  MaxTradesPerDay = 2
  Faults = {"crash", "exception", "lostfill", "latefill", "resend"}
  Options = {ce}
  Prices = {100}
  Quotes = {"around"}
  Late = 0
  DayLen = 5
  CollectedDays = 1
  DaysPerMonth = 1
  MaxBuffer = 2
  Interval = 2
  RefAge = 1
  MaxGap = 2
  MinRows = 2
  MaxSpacing = 3
  MinQuotes = 3
  None = None
  MaxEvents = 7
  MaxStarts = 2
  ImportDays = 2
  ImportPerDay = 2
  Window = 1
  RowCap = 1
  Backoffs = 1
  MaxJobs = 2
  Bars = 4
  Warmup = 1
  Sessions = 2
  MaxTrades = 0
  OptionPrices = {2, 3}
  HalfSpread = 1
  LeastPrice = 1
  Strikes <- MCStrikes
  Premiums = {1, 3, 4}
  Lowest = 2
  Highest = 5
  Middle = 3
  Tokens = {t1, t2}
  Threshold = 2
  BreakerCooldown = 2
  Ttl = 2
  Tries = 2
  RetryWaits <- MCWaits
  MaxTime = 3
  MaxErrors = 3
  ReportDays = 3
  Week = 2
  MonthDays = 3
  Retention = 2
  DecisionsADay = 2
  LoggedOrders = {a, b}
  Pnls <- MCPnls
  MaxLines = 5
  LastDay = 20
  ExpiryWeekday = 2
  MayShut = {8, 9, 16}
  Waits = 9
  HandsOn = {16}
  Wanted = {7, 10}
  Tick = 5
  Candles = 6
  PerDay = 3
  Closes = {4, 12, 21, 24, 60}
  SignalLine = 15
  Reference = 10
  Floor = 5
  Ceiling = 20
  Quantities = {1, 2}
  Capital = 50
  Side = 1
  Slippage = 1
  MaxPerDay = 1
  LastSec = 4
  MaxDecisions = 3
  LinkSec = 1
  GapSec = 1
  StreamSec = 1
  BucketSec = 2
  Rejections = {"cooldown", "floor"}
  Backfills = {4}
  Sides = {CE, PE}
  NoSide = NoSide
SYMMETRY Interchangeable
INVARIANTS TradesAccounted OpenTradesGuarded MarketDataHonest FiguresHonest RestHonest CalendarHonest AsOfHonest
PROPERTIES SlotImplemented
CHECK_DEADLOCK FALSE

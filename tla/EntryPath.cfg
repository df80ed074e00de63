SPECIFICATION PathSpec
CONSTANTS
  Contracts = {ce, pe}
  First = ce
  None = none
  Sim = sim
  Paper = TRUE
  MaxJobs = 3
  MaxJoins = 1
  Strikes = {s1, s2}
  Type = "CE"
  CrossStrike = TRUE
  Ttl = 2
  MaxAge = 1
  Fresh = 1
  Gap = 2
  Needed = 2
  Warm = 1
  Nothing = Nothing
  MaxNow = 3
  ScanPremiums = {0, 60, 80, 210, 310, 350, 900}
  MinPremium = 70
  MaxPremium = 350
  WindowMax = 4
  Enough = 2
INVARIANTS FeedHonest OrderOnItsSignal DirectionsAlike ScansExplained
PROPERTIES WorseNotRatedBetter
SYMMETRY StrikeSymmetry
CHECK_DEADLOCK FALSE

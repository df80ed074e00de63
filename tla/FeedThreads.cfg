SPECIFICATION FairSpec
CONSTANTS
  Main = main
  Beat = beat
  Workers = {w1, w2}
  MaxAttempts = 2
  MaxSessions = 2
  MaxFaults = 2
INVARIANTS ThreadsHonest
PROPERTIES LogoutEnds
CHECK_DEADLOCK FALSE

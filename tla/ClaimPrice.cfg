SPECIFICATION Spec
CONSTANTS
  Contracts = {ce, pe}
  First = ce
  None = none
  Sim = sim
  Paper = TRUE
  MaxJobs = 3
  MaxJoins = 1
INVARIANTS
  EntryPriced
CHECK_DEADLOCK FALSE

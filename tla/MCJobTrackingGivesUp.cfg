CONSTANTS
  Jobs = {a}
  NoJob = nojob
  LogBound = 3
  MaxRetries = 1
  MaxProgress = 2
  MaxFailures = 2
  MaxOpens = 1
  MaxInFlight = 1
SPECIFICATION FairSpec

PROPERTIES EndIsShown

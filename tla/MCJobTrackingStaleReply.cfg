CONSTANTS
  Jobs = {a, b}
  NoJob = nojob
  LogBound = 3
  MaxRetries = 1
  MaxProgress = 2
  MaxFailures = 0
  MaxOpens = 2
  MaxInFlight = 1
SPECIFICATION Spec
INVARIANTS ViewIsHonest

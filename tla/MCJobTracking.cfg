CONSTANTS
  Jobs = {a}
  NoJob = nojob
  LogBound = 3
  MaxRetries = 1
  MaxProgress = 2
  MaxFailures = 3
  MaxOpens = 2
  MaxInFlight = 1
SPECIFICATION FairSpec
INVARIANTS ViewIsHonest
PROPERTIES NeitherLostNorRepeated TrackedEndIsShown

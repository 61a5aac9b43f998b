CONSTANTS
  GenIds = {gen}
  ReasonId = rsn
  Cold = cold
  Runner = runner
  Streams = {s1}
  Cancellers = {c1, c2}
  IdleTask = idle
  Nobody = nobody
  KeepWarm = TRUE
  Faults = {"crash"}
  Jobs = {j1, j2}
  NoJob = nojob
  MaxProgress = 1
SPECIFICATION JobsFairSpec
INVARIANTS AtMostOnePlane WarmPlaneIsTimed EventsMatchStatus
PROPERTIES EveryRequestIsAnswered IdlePlaneIsReclaimed ImplementsJobLifecycle EveryJobEnds AcceptedCancelWins

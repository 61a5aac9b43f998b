CONSTANTS
  MaxJobs = 2
  Keys = {k}
  NoKey = nokey
  Limits <- MCLimits
  CheckpointLabel = "unset"
  Requests <- MCRequests
  MaxTasks = 2
  TaskRequests <- MCTasks
  Steps = 1
  WantLatents = TRUE
SPECIFICATION EnginesSpec
INVARIANTS EngineGetsWholeMedia
CHECK_DEADLOCK FALSE

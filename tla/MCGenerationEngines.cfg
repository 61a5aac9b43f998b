CONSTANTS
  MaxJobs = 2
  Keys = {k}
  NoKey = nokey
  Limits <- MCLimits
  CheckpointLabel = "unset"
  Requests <- MCRequests
  MaxTasks = 2
  TaskRequests <- MCTasks
  Steps = 1
  WantLatents = TRUE
SPECIFICATION EnginesFairSpec
INVARIANTS TypeOK MetersAgree KeyNamesOneJob SucceededAsAsked OrphansAreSpared AcceptedIsServed FormsAgree
INVARIANTS ConnectsToIdleWorker EachFaultCostsOneJob NamedFilesAreThere
PROPERTIES BarIsHonest RunEndsCounted EveryJobEnds EveryTaskEnds
CHECK_DEADLOCK FALSE

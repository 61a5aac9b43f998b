CONSTANTS
  GenIds = {gen}
  ReasonId = rsn
  Cold = cold
  Runner = runner
  Streams = {s1, s2}
  Cancellers = {c1, c2}
  IdleTask = idle
  Nobody = nobody
  KeepWarm = TRUE
  Faults = {"crash", "unclean_stop", "disconnect", "restart", "blind"}
  Jobs = {j1, j2}
  NoJob = nojob
  MaxProgress = 0
SPECIFICATION JobsSpec
INVARIANTS RunningJobKeepsItsPlane CancelFreesTheSlot StreamKeepsItsSlot
PROPERTIES ImplementsGpuSlot
SYMMETRY Interchangeable

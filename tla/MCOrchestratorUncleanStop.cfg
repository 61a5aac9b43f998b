CONSTANTS
  GenIds = {gen}
  ReasonId = rsn
  Cold = cold
  Runner = runner
  Streams = {s1, s2}
  Cancellers = {c1, c2}
  IdleTask = idle
  Nobody = nobody
  KeepWarm = TRUE
  Faults = {"unclean_stop"}
SPECIFICATION Spec
PROPERTIES LoadsIntoFreeVram

SPECIFICATION Spec
CONSTANTS
  Procs = {1, 2, 3}
  Pid <- DistinctPids
  Host <- OneHost
  MaxCrashes = 0
  Nil = Nil
INVARIANTS
  MutualExclusion
  SomeoneGetsIn
PROPERTIES
  LockNotStolen
CHECK_DEADLOCK FALSE

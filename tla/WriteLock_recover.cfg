SPECIFICATION Spec
CONSTANTS
  Procs = {1, 2, 3}
  Pid <- ReusedPid
  Host <- OneHost
  MaxCrashes = 2
  Nil = Nil
INVARIANTS
  LonerGetsIn
CHECK_DEADLOCK FALSE

SPECIFICATION Spec
CONSTANTS
  Procs = {p}
  Layouts <- OneSource
  MaxNumber = 3
  MaxJournals = 1
  MaxCrashes = 0
  MaxEvents = 4
  Stale = Stale
  Nil = Nil
INVARIANT
  Retryable

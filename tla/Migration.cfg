SPECIFICATION Spec
CONSTANTS
  Procs = {p, q}
  Layouts <- EveryLayout
  MaxNumber = 3
  MaxJournals = 3
  MaxCrashes = 2
  MaxEvents = 3
  Stale = Stale
  Nil = Nil
INVARIANTS
  ActiveUsable
  NumbersFollow
  ReceiptTrue
PROPERTIES
  SourcePreserved
  Recovered

SPECIFICATION Spec
CONSTANTS
  Roots <- TwoRoots
  Default = "near"
  MaxPlans = 2
  MaxCommands = 2
  MaxCrashes = 2
  Nil = Nil
INVARIANTS
  BoundFirst
  ReportTrue
PROPERTIES
  RecordsInSight
  InitCompletes

SPECIFICATION Spec
CONSTANTS
  Procs = {w1}
  Components <- ExamplesAndQuestions
  Inputs <- GoodAndBad
  Commands <- UserCommands
  MaxPlans = 2
  MaxVersion = 3
  MaxCrashes = 1
  Nil = Nil
INVARIANTS
  LinksResolve
  ShapedIsShaped
  OrphansPerCrash
  SnapshotsNested
PROPERTIES
  RecordKept
  CancelledStays
  PlanFromReady

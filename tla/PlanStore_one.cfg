SPECIFICATION Spec
CONSTANTS
  Procs = {w1}
  Components <- QuestionsAndTodos
  Inputs <- GoodAndDraft
  Commands <- EveryCommand
  MinResolved = 1
  MaxVersion = 3
  MaxCrashes = 0
  Nil = Nil
  Torn = Torn
INVARIANTS
  VersionsComplete
  DoneIsReady
  HandoffMatchesSnapshot
  LatestIsCurrent
PROPERTIES
  ImplementsVersionedPlan

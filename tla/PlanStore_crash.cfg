SPECIFICATION Spec
CONSTANTS
  Procs = {w1}
  Components <- QuestionsAndTodos
  Inputs <- GoodAndDraft
  Commands <- CrashCommands
  MinResolved = 1
  MaxVersion = 3
  MaxCrashes = 2
  Nil = Nil
  Torn = Torn
INVARIANTS
  SnapshotConsistent
  OneGapPerCrash
  HandoffSound
PROPERTIES
  HistoryAppendOnly
  SnapshotsImmutable

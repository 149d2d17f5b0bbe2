SPECIFICATION Spec
CONSTANTS
  Procs = {w1, w2}
  Components <- TodosOnly
  Inputs <- GoodOnly
  Commands <- RaceCommands
  MinResolved = 0
  MaxVersion = 3
  MaxCrashes = 0
  Nil = Nil
  Torn = Torn
PROPERTIES
  HistoryAppendOnly

SPECIFICATION Spec
CONSTANTS
  Procs = {a, b, c}
  a = a b = b c = c
  Imported <- ImportedWorkshop
  Tombstones <- RetiredPlan
  MaxAttempts = 2
  MaxId <- ThreePlans
  MaxCrashes = 1
SYMMETRY Alike
INVARIANTS
  OneOrphan
  ActiveExists
PROPERTIES
  IdsIncrease
  AbandonedBlocks
  ContentionNeedsRivals

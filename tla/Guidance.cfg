SPECIFICATION Spec
CONSTANTS
  Topics <- TopicNames
  Lowered <- LowerCase
  Taggable <- TopicNames
  Phrases = {"shape"}
  Configs <- Tables
  DefaultMax = 2
  OldStatuses = {"rework", "done", "cancelled"}
  Sections = 2
  MaxCount = 2
  MaxPlans = 4
  MaxMeddling = 2
  Invalid = Invalid
  Untagged = Untagged
  Nil = Nil
INVARIANTS
  TypeOK
  SuggestionAccepted
PROPERTIES
  HandoffReached
  ShapedIsPlanned
CHECK_DEADLOCK FALSE

\* Four sequence numbers, which wrap: four SDUs.
CONSTANTS
  SeqSize = 4
  Splits = {2}
  MaxSent = 4
  Flight = 2
  Length = 2
  MaxStrays = 1
SPECIFICATION Spec
CHECK_DEADLOCK FALSE
INVARIANTS
  TypeOK
  NothingMissingBelowEdge
  DuplicateOnlyAfterGap
  LastFrameTaken
PROPERTY
  StreamSpec

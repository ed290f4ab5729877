\* Sequence numbers do not wrap here.
CONSTANTS
  SeqSize = 8
  Splits = {2, 4}
  MaxSent = 3
  Flight = 2
  Length = 2
  MaxStrays = 0
SPECIFICATION Spec
CHECK_DEADLOCK FALSE
INVARIANT
  NeverReleasedTwice

\* One thread at a time uses the manager; four ids.
CONSTANTS
  NumCnt = 4
  Callers = {c1}
SPECIFICATION FairSpec
INVARIANTS
  TypeOK
  NextFit
PROPERTIES
  OverflowOnlyWhenTaken
  PoolSpec
  AllocateReturns

\* Allocating one id after another until none is free.
CONSTANTS
  NumCnt = 3
  Callers = {c1}
SPECIFICATION FairSpec
PROPERTY
  EveryCallReturns

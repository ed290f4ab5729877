\* Two threads, no double release: the semaphore alone should suffice.
CONSTANTS
  Threads = {t1, t2}
  Descs = {d1, d2}
  DoubleReleasers = {}
  Counter = 8
  NDebug = TRUE
  MaxFailed = 2
SPECIFICATION Spec
SYMMETRY Symmetry
CHECK_DEADLOCK FALSE
INVARIANT
  BufferAfterSem

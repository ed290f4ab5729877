\* Three threads share two buffers.
CONSTANTS
  Threads = {t1, t2, t3}
  Descs = {d1, d2}
  DoubleReleasers = {}
  Counter = 8
  NDebug = TRUE
  MaxFailed = 1
SPECIFICATION Spec
SYMMETRY Symmetry
CHECK_DEADLOCK FALSE
INVARIANTS
  TypeOK
  DescriptorAfterSem
  SingleOwner
  NothingLeaks
  PayloadsCounted
  AdmittedUntilOverlap
PROPERTIES
  DescriptorPool

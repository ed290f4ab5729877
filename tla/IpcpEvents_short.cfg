\* The queue is shorter than the number of buffers, as in the code.
CONSTANTS
  Drivers = {d1}
  Apps = {a1, a2}
  Ipcp = ipcp
  Length = 2
  Buffers = 4
  Leftovers = 1
  Controls = 2
  MaxTaken = 2
SPECIFICATION Spec
CHECK_DEADLOCK FALSE
INVARIANTS
  
  FullOnlyUnderLoad

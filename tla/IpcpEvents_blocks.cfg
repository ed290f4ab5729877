\* The sizes of the code: 10 places for 20 buffers.
CONSTANTS
  Drivers = {d1}
  Apps = {}
  Ipcp = ipcp
  Length = 10
  Buffers = 20
  Leftovers = 0
  Controls = 0
  MaxTaken = 1
SPECIFICATION Spec
CHECK_DEADLOCK FALSE
INVARIANT
  IpcpNeverBlocks

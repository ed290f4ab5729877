\* The queue is as long as configSensor.h asks: buffers, and spare places.
CONSTANTS
  Drivers = {d1}
  Apps = {a1}
  Ipcp = ipcp
  Length = 5
  Buffers = 3
  Leftovers = 1
  Controls = 1
  MaxTaken = 2
SPECIFICATION FairSpec
CHECK_DEADLOCK FALSE
INVARIANT
  TypeOK
PROPERTY
  ControlHandled

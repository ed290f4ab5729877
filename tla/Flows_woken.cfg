\* One thread allocates a flow and reads from it.
CONSTANTS
  NoPort = NoPort
  Ports = {p1}
  PeerCepIds = {1, 2}
  FlowRows = 1
  HandlerRows = 2
  RibRows = 3
  Length = 2
SPECIFICATION Spec
CHECK_DEADLOCK FALSE
INVARIANT ReceiveWaited

\* Three threads allocate flows; every table can fill up.
CONSTANTS
  NoPort = NoPort
  Ports = {p1, p2, p3}
  PeerCepIds = {1, 2}
  FlowRows = 2
  HandlerRows = 3
  RibRows = 4
  Length = 2
SPECIFICATION FairSpec
CHECK_DEADLOCK FALSE
INVARIANTS
  TypeOK
  ReadFindsHandle
  BoundFirst
  SoleFlowConnected
  CallbackUntilFull
  NoEarlyData
PROPERTY BindReturns

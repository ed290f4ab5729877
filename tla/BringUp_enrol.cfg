\* Both shims, a node that connects or waits, a peer that may connect too.
CONSTANTS
  Peer = peer
  Hosts = {peer, other}
  ArpRows = 4
  ESP_MAXIMUM_RETRY = 2
  RibRows = 4
  ConnRows = 2
  HandlerRows = 2
  NeighborRows = 2
  INSTANCES_IPCP_ENTRIES = 2
  MaxInvoke = 4
  MaxArp = 2
  MaxLinkChanges = 3
SPECIFICATION FairSpec
CHECK_DEADLOCK FALSE
INVARIANTS
  TypeOK
  AddressesAgree
  DestinationAnswered
  AnswersAsked
  StartsOnce
  SurvivesPeer
  ReadersTold
  SomeoneReads
PROPERTIES
  AssociationSpec
  ConnectReturns
  Enrols

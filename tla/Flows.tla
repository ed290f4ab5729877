------------------------------- MODULE Flows -------------------------------
(***************************************************************************)
(* Allocation of flows: application threads call the flow API              *)
(* (rina_api.c); the IPCP task binds their ports (IPCP_ops.c), starts a    *)
(* flow allocator instance and a connection for each request               *)
(* (flowAllocator.c, efcp.c), sends M_CREATE through the RIB daemon        *)
(* (ribd.c, rib.c) and handles the answers of the peer, which come late,   *)
(* more than once, or never.                                               *)
(*                                                                         *)
(* Each thread allocates one flow, on a port of its own.  Tables that are  *)
(* only ever filled are a sequence or a set with a size.                   *)
(***************************************************************************)
EXTENDS RinaName, FiniteSets

CONSTANTS Ports,        \* port ids of the applications' flows
          NoPort,
          PeerCepIds,   \* the cep-ids that the peer may give a connection
          FlowRows,     \* FLOWS_REQUEST
          HandlerRows,  \* RESPONSE_HANDLER_TABLE_SIZE
          RibRows,      \* RIB_TABLE_SIZE
          Length        \* uxQueueLength of the event queue

CepId == 1              \* the cep-id of every connection
CEP_ID_WRONG == 255     \* (cepId_t)-1

ASSUME FlowsAssumption ==
         /\ NoPort \notin Ports
         /\ PeerCepIds \subseteq 0 .. CEP_ID_WRONG
         /\ FlowRows \in Nat /\ HandlerRows \in Nat
         /\ RibRows \in Nat /\ RibRows >= 2
         /\ Length \in Nat \ {0}

VARIABLES
  pc,               \* where a thread is in the flow API
  nEventBits,       \* of its flow allocate handle
  queue,            \* xStackEventQueue
  xFlowsList,       \* eState of the flow on each port, "none" without one
  xActive,          \* ports whose flow has been given a cep-id
  xFlowRequestTable,\* ports of the flow allocator instances, by row
  eFaiAllocated,    \* ports whose instance is eFAI_ALLOCATED
  xEfcpImapTable,   \* its first row: the connection's port and peer cep-id
  handlers,         \* invoke ids in xPendingResponseHandlersTable
  xRibObjectTable,  \* objects in it
  invoke_id,        \* the next invoke id
  requests,         \* the M_START and M_CREATE messages sent
  neighbor,         \* the neighbour is known
  waiting,          \* ports with packets in xListWaitingPackets
  fault             \* what has ended the program

api == <<pc, nEventBits>>
flows == <<xFlowsList, xActive>>
fa == <<xFlowRequestTable, eFaiAllocated>>
rib == <<handlers, xRibObjectTable, invoke_id, requests, neighbor>>
vars == <<api, queue, flows, fa, xEfcpImapTable, rib, waiting, fault>>

Bits == {"eFLOW_BOUND", "eFLOW_RECEIVE"}

(* The events of the flow API; any other leaves flows alone. *)
Events == [kind : {"bind", "allocate", "other"}, port : Ports \cup {NoPort}]
Event(k, p) == [kind |-> k, port |-> p]
Other == Event("other", NoPort)

Connections == [port : Ports, dst : 0 .. CEP_ID_WRONG]
NoConnection == [port |-> NoPort, dst |-> 0]

TypeOK ==
  /\ pc \in [Ports -> {"idle", "wait", "bound", "asked", "returned", "reading", "woken"}]
  /\ nEventBits \in [Ports -> SUBSET Bits]
  /\ queue \in Seq(Events) /\ Len(queue) <= Length
  /\ xFlowsList \in [Ports -> {"none", "pending", "allocated"}]
  /\ xActive \subseteq Ports
  /\ xFlowRequestTable \in Seq(Ports) /\ Len(xFlowRequestTable) <= FlowRows
  /\ eFaiAllocated \subseteq Ports
  /\ xEfcpImapTable \in Connections \cup {NoConnection}
  /\ handlers \subseteq Nat
  /\ xRibObjectTable \in Seq(Ports \cup {NoPort}) /\ Len(xRibObjectTable) <= RibRows
  /\ invoke_id \in Nat
  /\ requests \subseteq (Ports \cup {NoPort}) \X Nat
  /\ neighbor \in BOOLEAN
  /\ waiting \subseteq Ports
  /\ fault \in {"none", "name", "read", "buffer", "callback", "object"}

-----------------------------------------------------------------------------
(* The stack is up: vEnrollmentInit has created its two objects. *)
Init == /\ pc = [p \in Ports |-> "idle"]
        /\ nEventBits = [p \in Ports |-> {}]
        /\ queue = <<>>
        /\ xFlowsList = [p \in Ports |-> "none"]
        /\ xActive = {}
        /\ xFlowRequestTable = <<>>
        /\ eFaiAllocated = {}
        /\ xEfcpImapTable = NoConnection
        /\ handlers = {}
        /\ xRibObjectTable = <<NoPort, NoPort>>
        /\ invoke_id = 1
        /\ requests = {}
        /\ neighbor = FALSE
        /\ waiting = {}
        /\ fault = "none"

At(p, l) == fault = "none" /\ pc[p] = l
Goto(p, l) == pc' = [pc EXCEPT ![p] = l]

(* xSendEventStructToIPCPTask, when the queue has a place. *)
Send(e) == /\ Len(queue) < Length
           /\ queue' = Append(queue, e)

(* Mutant of AddRow: the loop runs one row too far. *)
AddRowBeyond(table, row, size) == IF Len(table) <= size THEN Append(table, row) ELSE table

(* A row is added at the end of a table, or dropped when it is full. *)
AddRow(table, row, size) == IF Len(table) < size THEN Append(table, row) ELSE table

Wake(p, bit) == nEventBits' = [nEventBits EXCEPT ![p] = @ \cup {bit}]

(* prvWaitForBit; to clear the bit it sets every other one. *)
WaitForBit(p, bit) == /\ bit \in nEventBits[p]
                      /\ nEventBits' = [nEventBits EXCEPT ![p] = @ \cup (Bits \ {bit})]

(* prvNormalFindFlow *)
FlowFound(p) == xFlowsList[p] # "none"

(* xNormalIsFlowAllocated *)
IsFlowAllocated(p) == xFlowsList[p] = "allocated"

(* pxFAFindInstance, pxFAFindFlowHandle: whichever valid row the loop      *)
(* tests, it reads the first.                                              *)
FAFound(p) == xFlowRequestTable # <<>> /\ xFlowRequestTable[1] = p

(* xEfcpImapAdd overwrites the first row, and leaves its loop. *)
ImapAdd(c) == xEfcpImapTable' = c

(* pxEfcpImapFind: all other rows hold key 0 and no instance. *)
ImapFound(cep) == xEfcpImapTable # NoConnection /\ cep = CepId

-----------------------------------------------------------------------------
(* What an application gives for the names of the DIF, of its own and of   *)
(* the other application: a text, or none.                                 *)
Texts == {NoText, <<"name">>}
Given == [dif : Texts, local : Texts, remote : Texts]

(* prvRINACreateFlowRequest makes a request of three names. *)
FlowRequested(given) == \A which \in DOMAIN given : NameFromString(given[which]).done

(* Without a request, RINA_flow_alloc finds xRINA_bind to fail, and goes   *)
(* on to read the request through NULL.                                    *)
BindNothing(p) == /\ At(p, "idle")
                  /\ \E given \in Given : ~FlowRequested(given)
                  /\ fault' = "name"
                  /\ UNCHANGED <<pc, nEventBits, queue, flows, fa, xEfcpImapTable, rib, waiting>>

(* RINA_flow_alloc: a request on a fresh port is bound; when the event is  *)
(* refused no request is made, and the call returns the port all the same. *)
Bind(p) == /\ At(p, "idle")
           /\ \E given \in Given : FlowRequested(given)
           /\ \/ Send(Event("bind", p)) /\ Goto(p, "wait")
              \/ Len(queue) = Length /\ Goto(p, "returned") /\ UNCHANGED queue
           /\ UNCHANGED <<nEventBits, flows, fa, xEfcpImapTable, rib, waiting, fault>>

(* Mutant of WaitBound: xRINA_bind does not wait. *)
WaitBoundNot(p) == /\ At(p, "wait")
                   /\ Goto(p, "bound")
                   /\ UNCHANGED <<nEventBits, queue, flows, fa, xEfcpImapTable, rib,
                                  waiting, fault>>

WaitBound(p) == /\ At(p, "wait")
                /\ WaitForBit(p, "eFLOW_BOUND")
                /\ Goto(p, "bound")
                /\ UNCHANGED <<queue, flows, fa, xEfcpImapTable, rib, waiting, fault>>

(* prvConnect asks for the allocation, with a timeout so long that the     *)
(* call may give up only on a queue that stays full.                       *)
AskAllocation(p) ==
  /\ At(p, "bound")
  /\ \/ Send(Event("allocate", p)) /\ Goto(p, "asked")
     \/ Len(queue) = Length /\ Goto(p, "returned") /\ UNCHANGED queue
  /\ UNCHANGED <<nEventBits, flows, fa, xEfcpImapTable, rib, waiting, fault>>

(* eFATimerEvent, without waiting; RINA_flow_alloc returns the port,       *)
(* whatever has become of the flow: its loop ends on the first turn.       *)
AskTimer(p) == /\ At(p, "asked")
               /\ \/ Send(Other)
                  \/ Len(queue) = Length /\ UNCHANGED queue
               /\ Goto(p, "returned")
               /\ UNCHANGED <<nEventBits, flows, fa, xEfcpImapTable, rib, waiting, fault>>

(* Taking a packet, RINA_flow_read dereferences the owner of the list's    *)
(* head, which is NULL.                                                    *)
TakePacket(p) == /\ p \in waiting
                 /\ fault' = "read"
                 /\ UNCHANGED pc

(* RINA_flow_read on an allocated flow; without a handle for the port it   *)
(* dereferences NULL.                                                      *)
Read(p) == /\ At(p, "returned")
           /\ IsFlowAllocated(p)
           /\ IF FAFound(p)
              THEN \/ TakePacket(p)
                   \/ p \notin waiting /\ Goto(p, "reading") /\ UNCHANGED fault
              ELSE fault' = "read" /\ UNCHANGED pc
           /\ UNCHANGED <<nEventBits, queue, flows, fa, xEfcpImapTable, rib, waiting>>

WaitReceive(p) == /\ At(p, "reading")
                  /\ WaitForBit(p, "eFLOW_RECEIVE")
                  /\ Goto(p, "woken")
                  /\ UNCHANGED <<queue, flows, fa, xEfcpImapTable, rib, waiting, fault>>

(* The loop looks at the list again, however much time has passed. *)
ReadAgain(p) == /\ At(p, "woken")
                /\ \/ TakePacket(p)
                   \/ p \notin waiting /\ Goto(p, "reading") /\ UNCHANGED fault
                /\ UNCHANGED <<nEventBits, queue, flows, fa, xEfcpImapTable, rib, waiting>>

(* Frames, writes, RINA_close and the other events take places too. *)
SendOther == /\ fault = "none"
             /\ Send(Other)
             /\ UNCHANGED <<api, flows, fa, xEfcpImapTable, rib, waiting, fault>>

-----------------------------------------------------------------------------
(* The IPCP task takes the next event. *)
Handling(e) == /\ fault = "none"
               /\ queue # <<>> /\ Head(queue) = e
               /\ queue' = Tail(queue)

OtherEvent == /\ Handling(Other)
              /\ UNCHANGED <<api, flows, fa, xEfcpImapTable, rib, waiting, fault>>

(* Mutant of BindEvent: the thread is not woken. *)
BindEventNoWake(p) == /\ Handling(Event("bind", p))
                      /\ xFlowsList' = [xFlowsList EXCEPT ![p] = "pending"]
                      /\ UNCHANGED <<api, xActive, fa, xEfcpImapTable, rib, waiting, fault>>

(* eFlowBindEvent: xNormalFlowPrebind, and the thread is woken. *)
BindEvent(p) == /\ Handling(Event("bind", p))
                /\ xFlowsList' = [xFlowsList EXCEPT ![p] = "pending"]
                /\ Wake(p, "eFLOW_BOUND")
                /\ UNCHANGED <<pc, xActive, fa, xEfcpImapTable, rib, waiting, fault>>

(* Mutant of AddHandler: the loop stops before the last row. *)
AddHandlerShort(id) == IF Cardinality(handlers) < HandlerRows - 1
                       THEN handlers \cup {id} ELSE handlers

(* vRibdAddResponseHandler; no row is ever freed. *)
AddHandler(id) == IF Cardinality(handlers) < HandlerRows
                  THEN handlers \cup {id} ELSE handlers

(* prvRibdFillCommon: a message takes the next invoke id. *)
FillCommon(p) == <<p, invoke_id>>

(* xRibdSendRequest; without a network buffer the encoder dereferences      *)
(* NULL.  A request for NoPort is the M_START of enrolment.                *)
SendRequest(p) == /\ handlers' = AddHandler(invoke_id)
                  /\ invoke_id' = invoke_id + 1
                  /\ \/ requests' = requests \cup {FillCommon(p)} /\ UNCHANGED fault
                     \/ fault' = "buffer" /\ UNCHANGED requests

(* The one cube there is, whatever the application asks for *)
SelectQoSCube == "QoS_CUBE_ID"

(* prvFlowAllocatorNewFlow, and the port that it is given next *)
NewFlow(p) == [xSourcePortId |-> p, xQosId |-> SelectQoSCube]

(* pxSerdesMsgFlowEncode: of what the message carries, cep-ids and cube    *)
(* are the same for every flow; its answers depend on the port.            *)
FlowEncode(flow) == flow.xSourcePortId

(* The connection that xEfcpConnectionCreate fills in *)
Connection(p, cep) == [port |-> p, dst |-> cep]

(* xEfcpConnectionCreate: with a DTP, under the cep-id that is always given *)
ConnectionCreate(p, cep) == ImapAdd(Connection(p, cep))

(* xNormalConnectionCreateRequest: the peer's cep-id is not known yet. *)
ConnectionCreateRequest(p) == ConnectionCreate(p, CEP_ID_WRONG)

(* xNormalUpdateCepIdFlow *)
UpdateCepIdFlow(p) == xActive' = IF FlowFound(p) THEN xActive \cup {p} ELSE xActive

(* pxRibCreateObject; no row is ever freed. *)
CreateObject(o) == xRibObjectTable' = AddRow(xRibObjectTable, o, RibRows)

(* eStackFlowAllocateEvent, vFlowAllocatorFlowRequest: an instance, and,   *)
(* if the neighbour is known, a connection, a RIB object and the request   *)
(* to the peer.                                                            *)
FlowRequest(p) ==
  /\ Handling(Event("allocate", p))
  /\ xFlowRequestTable' = AddRow(xFlowRequestTable, p, FlowRows)
  /\ IF neighbor
     THEN /\ ConnectionCreateRequest(p)
          /\ UpdateCepIdFlow(p)
          /\ CreateObject(p)
          /\ SendRequest(FlowEncode(NewFlow(p)))
     ELSE UNCHANGED <<xEfcpImapTable, xActive, handlers, xRibObjectTable, invoke_id,
                      requests, fault>>
  /\ UNCHANGED <<api, xFlowsList, eFaiAllocated, neighbor, waiting>>

-----------------------------------------------------------------------------
(* What a frame brings: another event of the queue.                        *)
(* M_CONNECT_R: the neighbour is stored and sent M_START; only once, since *)
(* the connection is eCONNECTED from then on.                              *)
Enrol == /\ Handling(Other)
         /\ ~neighbor
         /\ neighbor' = TRUE
         /\ SendRequest(NoPort)
         /\ UNCHANGED <<api, flows, fa, xEfcpImapTable, xRibObjectTable, waiting>>

(* M_CREATE of the peer *)
RemoteCreate == /\ Handling(Other)
                /\ CreateObject(NoPort)
                /\ UNCHANGED <<api, flows, fa, xEfcpImapTable, handlers, invoke_id,
                               requests, neighbor, waiting, fault>>

(* M_DELETE within a_data: xFlowAllocatorHandleDelete does nothing, but it *)
(* is called through the object.                                           *)
RemoteDelete(p) == /\ Handling(Other)
                   /\ \E id \in 1 .. invoke_id : <<p, id>> \in requests
                   /\ ~\E i \in 1 .. Len(xRibObjectTable) : xRibObjectTable[i] = p
                   /\ fault' = "object"
                   /\ UNCHANGED <<api, flows, fa, xEfcpImapTable, rib, waiting>>

(* Any answer without a pending handler calls through NULL. *)
Unexpected(p, id) == /\ Handling(Other)
                     /\ <<p, id>> \in requests
                     /\ id \notin handlers
                     /\ fault' = "callback"
                     /\ UNCHANGED <<api, flows, fa, xEfcpImapTable, rib, waiting>>

(* What the handler takes from the flow of an answer: our port, and two    *)
(* cep-ids, in the order in which the peer sees them.                      *)
FlowMessages == [xDestinationPortId : Ports, xSource : PeerCepIds, xDestination : PeerCepIds]

(* The answer of the peer to a request for its port. *)
Answers(m, id) == /\ Handling(Other)
                  /\ <<m.xDestinationPortId, id>> \in requests /\ id \in handlers

(* xNormalConnectionModify sets addresses, of a connection that it finds.  *)
ConnectionModify(m) == ImapFound(m.xDestination)

(* xEfcpConnectionUpdate *)
ConnectionUpdate(from, to) ==
  /\ from # CEP_ID_WRONG /\ to # CEP_ID_WRONG
  /\ ImapFound(from)
  /\ xEfcpImapTable' = [xEfcpImapTable EXCEPT !.dst = to]

(* Mutant of NormalConnectionUpdate: the connection is not updated. *)
NormalConnectionUpdateNot(m) ==
  /\ ImapFound(m.xSource)
  /\ xFlowsList' = [xFlowsList EXCEPT ![m.xDestinationPortId] = "allocated"]
  /\ UNCHANGED xEfcpImapTable

(* xNormalConnectionUpdate, for a flow that is there (BoundFirst). *)
NormalConnectionUpdate(m) ==
  /\ ConnectionUpdate(m.xSource, m.xDestination)
  /\ xFlowsList' = [xFlowsList EXCEPT ![m.xDestinationPortId] = "allocated"]

(* The instance takes data, and the thread of the port is woken. *)
Grant(p) == /\ eFaiAllocated' = eFaiAllocated \cup {p}
            /\ Wake(p, "eFLOW_BOUND")

(* Mutant of Accepted: the instance is not looked up. *)
AcceptedUnchecked(m, id) ==
  /\ Answers(m, id)
  /\ ConnectionModify(m) /\ NormalConnectionUpdate(m)
  /\ Grant(m.xDestinationPortId)
  /\ UNCHANGED <<pc, xActive, xFlowRequestTable, rib, waiting, fault>>

(* xFlowAllocatorHandleCreateR, for a positive M_CREATE_R; it may come     *)
(* again.  An answer that fails a lookup changes nothing.                  *)
Accepted(m, id) ==
  /\ Answers(m, id)
  /\ FAFound(m.xDestinationPortId)
  /\ ConnectionModify(m) /\ NormalConnectionUpdate(m)
  /\ Grant(m.xDestinationPortId)
  /\ UNCHANGED <<pc, xActive, xFlowRequestTable, rib, waiting, fault>>

(* Mutant of DuPost: the state of the instance is not tested. *)
DuPostAnyState(p) == /\ FAFound(p)
                     /\ waiting' = waiting \cup {p}
                     /\ Wake(p, "eFLOW_RECEIVE")

(* xFlowAllocatorDuPost *)
DuPost(p) == /\ FAFound(p) /\ p \in eFaiAllocated
             /\ waiting' = waiting \cup {p}
             /\ Wake(p, "eFLOW_RECEIVE")

(* A data PDU for the connection: xEfcpContainerReceive sets a peer's      *)
(* cep-id that is set already, to the PDU's destination, which is ours;    *)
(* the DTP drops the PDU or posts it.                                      *)
DataPdu == /\ Handling(Other)
           /\ xEfcpImapTable # NoConnection
           /\ xEfcpImapTable' = [xEfcpImapTable EXCEPT
                                   !.dst = IF @ # CEP_ID_WRONG THEN CepId ELSE @]
           /\ \/ DuPost(xEfcpImapTable.port)
              \/ UNCHANGED <<nEventBits, waiting>>
           /\ UNCHANGED <<pc, flows, fa, rib, fault>>

-----------------------------------------------------------------------------
Thread(p) == \/ BindNothing(p) \/ Bind(p) \/ WaitBound(p) \/ AskAllocation(p) \/ AskTimer(p)
             \/ Read(p) \/ WaitReceive(p) \/ ReadAgain(p)

Task == \/ OtherEvent
        \/ \E p \in Ports : BindEvent(p) \/ FlowRequest(p)
        \/ Enrol \/ RemoteCreate \/ DataPdu
        \/ \E p \in Ports : RemoteDelete(p)
        \/ \E p \in Ports \cup {NoPort}, id \in 1 .. invoke_id : Unexpected(p, id)
        \/ \E m \in FlowMessages, id \in 1 .. invoke_id : Accepted(m, id)

Next == \/ \E p \in Ports : Thread(p)
        \/ SendOther
        \/ Task

Spec == Init /\ [][Next]_vars

(* The IPCP task turns its loop, and a thread that is woken goes on. *)
FairSpec == Spec /\ WF_vars(Task) /\ \A p \in Ports : WF_vars(WaitBound(p))

-----------------------------------------------------------------------------
(* An allocated flow has a flow allocator instance that the lookup finds:  *)
(* RINA_flow_read never dereferences NULL for want of a handle.            *)
ReadFindsHandle == \A p \in Ports : xFlowsList[p] = "allocated" => FAFound(p)

(* A flow is pre-bound before the flow allocator hears of it, so that the  *)
(* answer of the peer has a flow to update.                                *)
BoundFirst ==
  \A p \in Ports :
    \/ \E i \in 1 .. Len(queue) : queue[i] = Event("allocate", p)
    \/ \E i \in 1 .. Len(xFlowRequestTable) : xFlowRequestTable[i] = p
    => xFlowsList[p] # "none"

(* As long as one flow only has asked for a connection, it is the flow     *)
(* that is allocated: the table of connections leads to it and has the     *)
(* cep-id of the peer, and its instance takes data.                        *)
SoleFlowConnected ==
  \A p \in Ports :
    xFlowsList[p] = "allocated" /\ xActive = {p} =>
      xEfcpImapTable = [port |-> p, dst |-> CepId] /\ p \in eFaiAllocated

(* An answer is without a callback only when the table of pending handlers *)
(* has been filled.                                                        *)
CallbackUntilFull == fault = "callback" => Cardinality(handlers) = HandlerRows

(* No packet waits at a flow that is not allocated, though the peer may    *)
(* send data before its answer has come.                                   *)
NoEarlyData == \A p \in waiting : xFlowsList[p] = "allocated"

(* xRINA_bind returns, whatever else is in the queue, unless the program   *)
(* ends.                                                                   *)
BindReturns == \A p \in Ports : pc[p] = "wait" ~> pc[p] # "wait" \/ fault # "none"

(* "Wait until we get the actual bit we want" (rina_api.c:44): a reader    *)
(* goes on for a packet.  The code breaks it: clearing eFLOW_BOUND has set *)
(* eFLOW_RECEIVE.                                                          *)
ReceiveWaited == \A p \in Ports : pc[p] = "woken" => p \in waiting
=============================================================================

-------------------------------- MODULE Cdap --------------------------------
(***************************************************************************)
(* Enrolment: the CDAP messages by which the node joins its neighbour's    *)
(* DIF, with the tables behind them: application connections and pending   *)
(* response handlers (ribd.c), RIB objects (rib.c), neighbours             *)
(* (enrollment.c).  Tables that are only ever filled are sequences with a  *)
(* size.                                                                   *)
(*                                                                         *)
(* The peer is external: it answers as this protocol asks.  The network    *)
(* between may lose, reorder and repeat: a message that was sent may be    *)
(* handled at any later time, again or never.                              *)
(***************************************************************************)
EXTENDS ShimFlows

CONSTANTS RibRows,      \* RIB_TABLE_SIZE
          ConnRows,     \* APP_CONNECTION_TABLE_SIZE
          HandlerRows,  \* RESPONSE_HANDLER_TABLE_SIZE
          NeighborRows, \* NEIGHBOR_TABLE_SIZE
          MaxInvoke     \* bound: no message is repeated past this invoke id

ASSUME CdapAssumption == /\ RibRows \in Nat \ {0, 1}
                         /\ ConnRows \in Nat \ {0}
                         /\ HandlerRows \in Nat \ {0}
                         /\ NeighborRows \in Nat \ {0}
                         /\ MaxInvoke \in Nat

VARIABLES
  connects,      \* ieee802154_COORDINATOR == 1: the node sends M_CONNECT
  peerConnects,  \* the peer may send one too
  peerToken,     \* the peer's M_STOP brings a token
  xRibObjectTable, xAppConnectionTable,
  xPendingResponseHandlersTable,         \* invoke ids of M_START requests
  xNeighborsTable,                       \* of the peer: state and token, which is
                                         \* NULL, "token", or what malloc left
  invoke_id,
  toPeer,        \* messages that have gone out to the peer
  taken,         \* messages of the peer that have been handled
  fault          \* what has ended the program

tables == <<xRibObjectTable, xAppConnectionTable, xPendingResponseHandlersTable, xNeighborsTable>>
cdapVars == <<tables, invoke_id, toPeer, taken>>

(* A message as it travels: fields that may be missing are sets. *)
Msg(op, id, name, value) ==
  [op |-> op, invokeID |-> id, objName |-> name, objValue |-> value]
NULL == Missing
Unset == "unset"
ObjNames == {"/difm/enr", "/difm/ops", "other"}

(* prvRibdEncodeCDAP: what is NULL is not written. *)
Encoded(op, id, name, value) == Msg(op, id, {name} \ {NULL}, value)

(* prvRibdFillDecodeMessage: a field that did not come is never set. *)
IsSet(m) == m.objName # {}
ObjName(m) == CHOOSE name \in m.objName : TRUE

(* pxSerdesMsgEnrollmentEncode: LOCAL_ADDRESS, and never a token *)
EnrollmentEncode == {"address"}

(* prvSerdesMsgDecodeEnrollment: a token that did not come is never set. *)
EnrollmentDecode(value) == IF "token" \in value THEN "token" ELSE Unset

(* pxSerdesMsgNeighborEncode: the names, which are always there, and the token *)
NeighborEncode(token) == {token} \ {NULL}

(* prvRibMessageCdapInit: invoke id 1 "by default", and no object *)
Connect == Encoded("M_CONNECT", 1, NULL, {})
ConnectR == Encoded("M_CONNECT_R", 1, NULL, {})

(* The peer's requests, under its own ids *)
StopWith(value) == Encoded("M_STOP", 1, "/difm/enr", value)
Stop == StopWith(IF peerToken THEN {"token"} ELSE {})
OperationalStart == Encoded("M_START", 2, "/difm/ops", {})
Create == Encoded("M_CREATE", 3, "other", {})

(* What the peer sends after a message. *)
Answers(m) ==
  CASE m.op = "M_CONNECT" -> {ConnectR}
    [] m.op = "M_START" -> {Encoded("M_START_R", m.invokeID, "/difm/enr", {}), Create, Stop}
    [] m.op = "M_STOP_R" -> {OperationalStart}
    [] OTHER -> {}

FromPeer == (UNION {Answers(m) : m \in toPeer}) \cup (IF peerConnects THEN {Connect} ELSE {})

Ops == {"M_CONNECT", "M_CONNECT_R", "M_START", "M_START_R", "M_STOP", "M_STOP_R", "M_CREATE"}
Faults == {"none", "port", "name", "connection", "object", "callback", "neighbor", "token"}
Messages == [op : Ops, invokeID : Nat, objName : SUBSET ObjNames,
             objValue : SUBSET {"address", "token"}]

CdapTypeOK ==
  /\ connects \in BOOLEAN /\ peerConnects \in BOOLEAN /\ peerToken \in BOOLEAN
  /\ xRibObjectTable \in Seq(ObjNames)
  /\ Len(xRibObjectTable) <= RibRows
  /\ xAppConnectionTable \in Seq([xN1portId : Nat, xStatus : {"IN_PROGRESS", "CONNECTED"}])
  /\ Len(xAppConnectionTable) <= ConnRows
  /\ xPendingResponseHandlersTable \in Seq(Nat)
  /\ Len(xPendingResponseHandlersTable) <= HandlerRows
  /\ xNeighborsTable \in
       Seq([eEnrollmentState : {"eENROLLMENT_NONE", "eENROLLMENT_IN_PROGRESS", "eENROLLED"},
            pcToken : {NULL, "token", Unset}])
  /\ Len(xNeighborsTable) <= NeighborRows
  /\ invoke_id \in Nat
  /\ toPeer \subseteq Messages
  /\ taken \subseteq Messages
  /\ fault \in Faults

CdapInit == /\ connects \in BOOLEAN /\ peerConnects \in BOOLEAN
            /\ peerToken \in BOOLEAN
            /\ xRibObjectTable = <<>>
            /\ xAppConnectionTable = <<>>
            /\ xPendingResponseHandlersTable = <<>>
            /\ xNeighborsTable = <<>>
            /\ invoke_id = 1
            /\ toPeer = {}
            /\ taken = {}
            /\ fault = "none"

-----------------------------------------------------------------------------
(* Mutant of AddRow: the loop runs one row too far. *)
AddRowBeyond(table, row, size) == IF Len(table) <= size THEN Append(table, row) ELSE table

(* A row is added at the end of a table, or dropped when it is full. *)
AddRow(table, row, size) == IF Len(table) < size THEN Append(table, row) ELSE table

Objects == {xRibObjectTable[i] : i \in 1 .. Len(xRibObjectTable)}
Handlers == {xPendingResponseHandlersTable[i] : i \in 1 .. Len(xPendingResponseHandlersTable)}
Connections(port) == {i \in 1 .. Len(xAppConnectionTable) :
                         xAppConnectionTable[i].xN1portId = port}

(* Mutant of Found: the last connection of the port is taken. *)
FoundLast(port) == LastOf(Connections(port))

(* pxRibdFindAppConnection, when there is one *)
Found(port) == FirstOf(Connections(port))
Status(port) == xAppConnectionTable[Found(port)].xStatus

(* vRibdSentCdapMsg, xNormalMgmtDuWrite under port 1 *)
Send(m) == toPeer' = IF ReachesPeer THEN toPeer \cup {m} ELSE toPeer

(* Frames come under port 1, whatever port the flow has: eStackRxEvent. *)
RxPort == 1

(* pxRibCreateObject, prvRibdAddObjectEntry *)
AddObject(table, name) == AddRow(table, name, RibRows)

(* prvRibCreateConnection *)
NewConnection(port) == [xN1portId |-> port, xStatus |-> "IN_PROGRESS"]

(* xRibdConnectToIpcp, with the N-1 port as it is after the step; nothing  *)
(* is sent under port 0.                                                   *)
ConnectToIpcp(port) ==
  /\ xAppConnectionTable' = AddRow(xAppConnectionTable, NewConnection(port), ConnRows)
  /\ toPeer' = IF port # 0 /\ ReachesPeer' THEN toPeer \cup {Connect} ELSE toPeer

(* vEnrollmentInit: the two objects of enrolment, and M_CONNECT.           *)
EnrollmentInit(port) ==
  /\ xRibObjectTable' = AddObject(AddObject(xRibObjectTable, "/difm/enr"), "/difm/ops")
  /\ IF connects THEN ConnectToIpcp(port) ELSE UNCHANGED <<xAppConnectionTable, toPeer>>
  /\ UNCHANGED <<xPendingResponseHandlersTable, xNeighborsTable, invoke_id, taken>>

Ends(f) == fault' = f /\ UNCHANGED <<tables, invoke_id, toPeer>>
Ignored == UNCHANGED <<tables, invoke_id, toPeer, fault>>

-----------------------------------------------------------------------------
(* The handlers of vRibHandleMessage.  M_CONNECT and M_CONNECT_R name no   *)
(* object, yet the object is looked up first.                              *)
UnsetName(m) == /\ ~IsSet(m)
                /\ xRibObjectTable # <<>>
                /\ Ends("name")

(* Without a connection it is read through NULL, with one there is nothing *)
(* to do: xEnrollmentHandleConnect is out of reach.                        *)
HandleConnect(m) == /\ m.op = "M_CONNECT"
                    /\ IF Connections(RxPort) = {} THEN Ends("connection") ELSE Ignored

(* get_next_invoke_id, called n times *)
NextInvokeId(n) == invoke_id' = invoke_id + n

(* prvRibdFillEnrollMsg takes the next invoke id. *)
FillEnrollMsg(op, name, value) == Encoded(op, invoke_id, name, value)

(* vRibdAddResponseHandler *)
AddResponseHandler(id) ==
  xPendingResponseHandlersTable' = AddRow(xPendingResponseHandlersTable, id, HandlerRows)

(* xRibdSendRequest for M_START *)
SendStart == /\ AddResponseHandler(invoke_id)
             /\ Send(FillEnrollMsg("M_START", "/difm/enr", EnrollmentEncode))
             /\ NextInvokeId(1)

(* pxEnrollmentCreateNeighInfo *)
NeighInfo == [eEnrollmentState |-> "eENROLLMENT_NONE", pcToken |-> NULL]

(* vEnrollmentAddNeighborEntry *)
AddNeighborEntry(table, info) == AddRow(table, info, NeighborRows)

(* pxEnrollmentFindNeighbor *)
Known == xNeighborsTable # <<>>

(* xEnrollmentHandleConnectR: the neighbour is known from now on. *)
EnrolNeighbor ==
  /\ LET table == IF Known THEN xNeighborsTable ELSE AddNeighborEntry(xNeighborsTable, NeighInfo)
     IN xNeighborsTable' = [table EXCEPT ![1].eEnrollmentState = "eENROLLMENT_IN_PROGRESS"]
  /\ SendStart

(* Mutant of HandleConnectR: the state of the connection is not tested. *)
HandleConnectRAnyState(m) ==
  /\ m.op = "M_CONNECT_R"
  /\ IF Connections(RxPort) = {} THEN Ends("connection")
     ELSE /\ xAppConnectionTable' =
               [xAppConnectionTable EXCEPT ![Found(RxPort)].xStatus = "CONNECTED"]
          /\ EnrolNeighbor
          /\ UNCHANGED <<xRibObjectTable, fault>>

(* M_CONNECT_R: of a connection that is not yet connected *)
HandleConnectR(m) ==
  /\ m.op = "M_CONNECT_R"
  /\ IF Connections(RxPort) = {} THEN Ends("connection")
     ELSE IF Status(RxPort) # "IN_PROGRESS" THEN Ignored
     ELSE /\ xAppConnectionTable' =
               [xAppConnectionTable EXCEPT ![Found(RxPort)].xStatus = "CONNECTED"]
          /\ EnrolNeighbor
          /\ UNCHANGED <<xRibObjectTable, fault>>

(* xEnrollmentHandleStartR does nothing. *)
StartResponse == Ignored

(* M_START_R: through a handler *)
HandleStartR(m) == /\ m.op = "M_START_R"
                   /\ IF m.invokeID \notin Handlers THEN Ends("callback")
                      ELSE IF Connections(RxPort) = {} THEN Ends("connection")
                      ELSE StartResponse

(* M_CREATE: one more object each time it comes. *)
HandleCreate(m) == /\ m.op = "M_CREATE"
                   /\ xRibObjectTable' = AddObject(xRibObjectTable, ObjName(m))
                   /\ UNCHANGED <<xAppConnectionTable, xPendingResponseHandlersTable,
                                  xNeighborsTable, invoke_id, toPeer, fault>>

(* What M_STOP and M_START need: the object, and the name of a connected   *)
(* peer.                                                                   *)
Requestable(m) == IF ObjName(m) \notin Objects THEN "object"
                  ELSE IF Connections(RxPort) = {} THEN "connection"
                  ELSE IF Status(RxPort) # "CONNECTED" THEN "name"
                  ELSE "none"

(* prvRibdFillEnrollMsgStop: the invoke id that was taken gives way to     *)
(* that of the request.                                                    *)
FillEnrollMsgStop(op, name, value, id) ==
  [FillEnrollMsg(op, name, value) EXCEPT !.invokeID = id]

(* prvRibdFillEnrollMsgStart does the same, and its M_START_R falls        *)
(* through and is filled again: two invoke ids are taken.                  *)
Fills(op) == IF op = "M_START_R" THEN 2 ELSE 1

(* Mutant of Respond: the answer keeps the invoke id it was filled with. *)
RespondOwnId(op, m, value) ==
  /\ Send(FillEnrollMsg(op, ObjName(m), value))
  /\ NextInvokeId(Fills(op))

(* xRibdSendResponse sends it. *)
Respond(op, m, value) ==
  /\ Send(FillEnrollMsgStop(op, ObjName(m), value, m.invokeID))
  /\ NextInvokeId(Fills(op))

(* xEnrollmentHandleStop *)
HandleStop(m) ==
  /\ m.op = "M_STOP"
  /\ IF Requestable(m) # "none" THEN Ends(Requestable(m))
     ELSE IF ~Known THEN Ignored
     ELSE /\ xNeighborsTable' =
               [xNeighborsTable EXCEPT ![1] = [eEnrollmentState |-> "eENROLLED",
                                               pcToken |-> EnrollmentDecode(m.objValue)]]
          /\ Respond("M_STOP_R", m, {})
          /\ UNCHANGED <<xRibObjectTable, xAppConnectionTable,
                         xPendingResponseHandlersTable, fault>>

(* xEnrollmentHandleOperationalStart reads the token of a neighbour that   *)
(* it does not check, and a token that may never have been set: that ends  *)
(* the program, unless it happens to be NULL.                              *)
HandleStart(m) ==
  /\ m.op = "M_START"
  /\ IF Requestable(m) # "none" THEN Ends(Requestable(m))
     ELSE IF ~Known THEN Ends("neighbor")
     ELSE LET token == xNeighborsTable[1].pcToken IN
          \/ token = Unset /\ Ends("token")
          \/ /\ Respond("M_START_R", m, NeighborEncode(token) \ {Unset})
             /\ UNCHANGED <<tables, fault>>

(* vRibHandleMessage *)
HandleMessage(m) == \/ UnsetName(m)
                    \/ HandleConnect(m) \/ HandleConnectR(m) \/ HandleStartR(m)
                    \/ HandleCreate(m) \/ HandleStop(m) \/ HandleStart(m)

(* xRibdProcessLayerManagementPDU: what the peer has encoded is decoded.   *)
ProcessLayerManagementPDU(m) == HandleMessage(m) /\ taken' = taken \cup {m}

(* xNormalMgmtDuPost *)
MgmtDuPost(m) == /\ fault = "none"
                 /\ m \notin taken \/ invoke_id < MaxInvoke
                 /\ ProcessLayerManagementPDU(m)

-----------------------------------------------------------------------------
(* An answer of the node carries the invoke id and the object of a request *)
(* that has been handled, though it was filled with another id; and a      *)
(* token is one that the peer has given.                                   *)
AnswersAsked ==
  \A m \in toPeer :
    /\ m.op = "M_STOP_R" =>
         \E n \in taken : n.op = "M_STOP" /\ n.invokeID = m.invokeID /\ n.objName = m.objName
    /\ m.op = "M_START_R" =>
         \E n \in taken : n.op = "M_START" /\ n.invokeID = m.invokeID /\ n.objName = m.objName
    /\ "token" \in m.objValue => \E n \in taken : n.op = "M_STOP" /\ "token" \in n.objValue

(* However often M_CONNECT_R comes, and however often enrolment has been   *)
(* initiated, one M_START is sent.                                         *)
StartsOnce == \A m, n \in toPeer : m.op = "M_START" /\ n.op = "M_START" => m = n
=============================================================================

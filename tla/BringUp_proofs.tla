--------------------------- MODULE BringUp_proofs ---------------------------
(***************************************************************************)
(* Proofs about BringUp, for tables of any size.                           *)
(***************************************************************************)
EXTENDS BringUp, ArpCache_proofs

Rows1 == [xN1portId : Nat, xStatus : {"IN_PROGRESS", "CONNECTED"}]
Neighbors == [eEnrollmentState : {"eENROLLMENT_NONE", "eENROLLMENT_IN_PROGRESS", "eENROLLED"},
              pcToken : {NULL, "token", Unset}]

(* Without a connection that has been answered nothing has been started    *)
(* and no neighbour is known.                                              *)
Answered == Connections(RxPort) # {} /\ Status(RxPort) = "CONNECTED"
Joined == Known \/ (\E m \in toPeer : m.op = "M_START") => Answered

(* The token of the neighbour has come with an M_STOP.                     *)
Given == Known /\ xNeighborsTable[1].pcToken = "token" =>
           \E n \in taken : n.op = "M_STOP" /\ "token" \in n.objValue

IInv == CdapTypeOK /\ xN1PortId \in 0 .. 2 /\ Joined /\ Given /\ AnswersAsked /\ StartsOnce

(* What a step does to the tables of enrolment.                            *)
Starts == \E port \in 0 .. 2 : EnrollmentInit(port) /\ fault' = fault
Handles == \E m \in FromPeer : HandleMessage(m) /\ taken' = taken \cup {m}

-----------------------------------------------------------------------------
LEMMA FirstIs ==
  ASSUME NEW S \in SUBSET Nat, NEW i \in S, \A j \in S : i <= j
  PROVE  FirstOf(S) = i
<1>1. FirstOf(S) \in S /\ FirstOf(S) <= i  BY First
<1>2. i <= FirstOf(S) /\ i \in Nat /\ FirstOf(S) \in Nat  BY <1>1
<1> QED BY <1>1, <1>2

LEMMA FoundRow ==
  ASSUME xAppConnectionTable \in Seq(Rows1), NEW port, Connections(port) # {}
  PROVE  /\ Found(port) \in 1 .. Len(xAppConnectionTable)
         /\ Found(port) \in Connections(port)
         /\ \A j \in Connections(port) : Found(port) <= j
<1>1. Connections(port) \in SUBSET Nat  BY DEF Connections
<1> QED BY <1>1, First DEF Found, Connections

(* A table is added to at its end. *)
LEMMA Added ==
  ASSUME NEW S, NEW table \in Seq(S), NEW row \in S, NEW size \in Nat, Len(table) <= size
  PROVE  /\ AddRow(table, row, size) \in Seq(S)
         /\ Len(AddRow(table, row, size)) <= size
         /\ Len(table) <= Len(AddRow(table, row, size))
         /\ Len(AddRow(table, row, size)) <= Len(table) + 1
         /\ \A i \in 1 .. Len(table) : AddRow(table, row, size)[i] = table[i]
         /\ Len(AddRow(table, row, size)) = Len(table) + 1 =>
              AddRow(table, row, size)[Len(table) + 1] = row
BY DEF AddRow

LEMMA Replaced ==
  ASSUME NEW S, NEW table \in Seq(S), NEW i \in 1 .. Len(table), NEW row \in S
  PROVE  /\ [table EXCEPT ![i] = row] \in Seq(S)
         /\ Len([table EXCEPT ![i] = row]) = Len(table)
OBVIOUS

-----------------------------------------------------------------------------
LEMMA Steps ==
  ASSUME xN1PortId \in 0 .. 2, [Next]_vars
  PROVE  /\ xN1PortId' \in 0 .. 2
         /\ UNCHANGED build
         /\ \/ UNCHANGED cdapVars /\ (fault' = fault \/ (fault = "none" /\ fault' = "port"))
            \/ fault = "none" /\ Starts
            \/ fault = "none" /\ Handles
<1> USE DEF build, stack
<1>1. CASE UNCHANGED vars  BY <1>1 DEF vars, cdapVars
<1>2. CASE Manager
  BY <1>2 DEF Manager, CreateStack, EnrollToDIF802154, EnrollToDIF, Connected, EnrollToDIFTap,
              ConnectTap, SendEvent, cdapVars
<1>3. CASE WifiEvent \/ TapStep \/ TakePort
  BY <1>3 DEF WifiEvent, TapStep, TakePort, cdapVars
<1>4. CASE NotRegistered \/ NoN1Port \/ NotAllocated
  BY <1>4 DEF NotRegistered, NoN1Port, NotAllocated, Handling, cdapVars
<1>5. CASE EnrolledEvent
  BY <1>5 DEF EnrolledEvent, Handling, NextPort, Starts, cdapVars
<1>6. CASE AllocatedEvent
  BY <1>6 DEF AllocatedEvent, Handling, Starts
<1>7. CASE \E op \in {"ARP_REQUEST", "ARP_REPLY"}, h \in Hosts, k \in {1, 2} :
              ArpPacket(op, h, k)
  BY <1>7 DEF ArpPacket, cdapVars
<1>8. CASE \E m \in FromPeer : ManagementPdu(m)
  BY <1>8 DEF ManagementPdu, MgmtDuPost, ProcessLayerManagementPDU, Handles
<1> QED BY <1>1, <1>2, <1>3, <1>4, <1>5, <1>6, <1>7, <1>8 DEF Next, Event

(* What the peer sends *)
LEMMA Sent ==
  ASSUME toPeer \subseteq Messages, NEW m \in FromPeer
  PROVE  /\ m \in Messages
         /\ m.op = "M_STOP" => m.objName = {"/difm/enr"}
         /\ m.op = "M_START" => m.objName = {"/difm/ops"}
         /\ m.op = "M_CREATE" => m.objName = {"other"}
<1> USE DEF Encoded, Msg, NULL, Missing, Messages, Ops, ObjNames
<1>1. CASE m = Connect  BY <1>1 DEF Connect
<1>2. ASSUME NEW n \in toPeer, m \in Answers(n)
      PROVE  \/ m = ConnectR \/ m = Stop \/ m = OperationalStart \/ m = Create
             \/ m = Encoded("M_START_R", n.invokeID, "/difm/enr", {})
  BY <1>2 DEF Answers, ConnectR, Stop, OperationalStart, Create
<1>3. CASE m = ConnectR  BY <1>3 DEF ConnectR
<1>4. CASE m = Stop
  <2>1. CASE peerToken  BY <1>4, <2>1 DEF Stop, StopWith
  <2>2. CASE ~peerToken  BY <1>4, <2>2 DEF Stop, StopWith
  <2> QED BY <2>1, <2>2
<1>5. CASE m = OperationalStart  BY <1>5 DEF OperationalStart
<1>6. CASE m = Create  BY <1>6 DEF Create
<1>7. ASSUME NEW n \in toPeer, m = Encoded("M_START_R", n.invokeID, "/difm/enr", {})
      PROVE  m \in Messages /\ m.op = "M_START_R"
  BY <1>7
<1>8. m = Connect \/ \E n \in toPeer : m \in Answers(n)  BY DEF FromPeer
<1> QED BY <1>1, <1>2, <1>3, <1>4, <1>5, <1>6, <1>7, <1>8

-----------------------------------------------------------------------------
(* The ways in which a message may be handled                              *)
Refuses == \E f \in Faults \ {"none"} : Ends(f)

Joins ==
  /\ Connections(RxPort) # {} /\ Status(RxPort) = "IN_PROGRESS"
  /\ xAppConnectionTable' = [xAppConnectionTable EXCEPT ![Found(RxPort)].xStatus = "CONNECTED"]
  /\ EnrolNeighbor
  /\ UNCHANGED <<xRibObjectTable, fault>>

Creates(m) ==
  /\ m.op = "M_CREATE"
  /\ xRibObjectTable' = AddObject(xRibObjectTable, "other")
  /\ UNCHANGED <<xAppConnectionTable, xPendingResponseHandlersTable, xNeighborsTable,
                 invoke_id, toPeer, fault>>

Sends(m, op, value) == toPeer' \subseteq toPeer \cup {Msg(op, m.invokeID, m.objName, value)}

Stops(m) ==
  /\ m.op = "M_STOP" /\ Answered /\ Known
  /\ xNeighborsTable' = [xNeighborsTable EXCEPT ![1] =
                           [eEnrollmentState |-> "eENROLLED",
                            pcToken |-> EnrollmentDecode(m.objValue)]]
  /\ Sends(m, "M_STOP_R", {})
  /\ invoke_id' \in Nat
  /\ UNCHANGED <<xRibObjectTable, xAppConnectionTable, xPendingResponseHandlersTable, fault>>

Operates(m) ==
  /\ m.op = "M_START" /\ Answered /\ Known
  /\ Sends(m, "M_START_R", {xNeighborsTable[1].pcToken} \ {NULL, Unset})
  /\ invoke_id' \in Nat
  /\ UNCHANGED <<tables, fault>>

LEMMA Responds ==
  ASSUME invoke_id \in Nat, NEW m \in Messages, NEW op \in {"M_STOP_R", "M_START_R"}, NEW value,
         m.objName = {"/difm/enr"} \/ m.objName = {"/difm/ops"}, Respond(op, m, value)
  PROVE  Sends(m, op, value) /\ invoke_id' \in Nat
<1>1. {ObjName(m)} \ {NULL} = m.objName  BY DEF ObjName, NULL, Missing
<1>2. FillEnrollMsgStop(op, ObjName(m), value, m.invokeID) = Msg(op, m.invokeID, m.objName, value)
  BY <1>1 DEF FillEnrollMsgStop, FillEnrollMsg, Encoded, Msg
<1>3. Sends(m, op, value)  BY <1>2 DEF Respond, Send, Sends
<1> QED BY <1>3 DEF Respond, NextInvokeId, Fills

LEMMA Effects ==
  ASSUME CdapTypeOK, NEW m \in FromPeer, HandleMessage(m)
  PROVE  Refuses \/ Ignored \/ Joins \/ Creates(m) \/ Stops(m) \/ Operates(m)
<1>0. /\ m \in Messages /\ invoke_id \in Nat
      /\ m.op = "M_STOP" => m.objName = {"/difm/enr"}
      /\ m.op = "M_START" => m.objName = {"/difm/ops"}
      /\ m.op = "M_CREATE" => m.objName = {"other"}
  BY Sent DEF CdapTypeOK
<1>1. CASE UnsetName(m)  BY <1>1 DEF UnsetName, Refuses, Faults
<1>2. CASE HandleConnect(m)  BY <1>2 DEF HandleConnect, Refuses, Faults
<1>3. CASE HandleConnectR(m)
  <2>1. Connections(RxPort) # {} =>
          xAppConnectionTable[Found(RxPort)] \in Rows1
    <3>1. xAppConnectionTable \in Seq(Rows1)  BY DEF CdapTypeOK, Rows1
    <3> QED BY <3>1, FoundRow
  <2> QED BY <1>3, <2>1 DEF HandleConnectR, Refuses, Faults, Joins, Status, Rows1
<1>4. CASE HandleStartR(m)  BY <1>4 DEF HandleStartR, StartResponse, Refuses, Faults
<1>5. CASE HandleCreate(m)
  <2>1. ObjName(m) = "other"  BY <1>0, <1>5 DEF HandleCreate, ObjName
  <2> QED BY <1>5, <2>1 DEF HandleCreate, Creates
<1>6. /\ Requestable(m) \in {"object", "connection", "name", "none"}
      /\ Requestable(m) = "none" => Answered
  BY DEF Requestable, Answered
<1>7. CASE HandleStop(m)
  <2>1. CASE Requestable(m) # "none"  BY <1>6, <1>7, <2>1 DEF HandleStop, Refuses, Faults
  <2>2. CASE Requestable(m) = "none" /\ Known
    BY <1>0, <1>6, <1>7, <2>2, Responds DEF HandleStop, Stops
  <2> QED BY <1>7, <2>1, <2>2 DEF HandleStop
<1>8. CASE HandleStart(m)
  <2>1. CASE Requestable(m) # "none"  BY <1>6, <1>8, <2>1 DEF HandleStart, Refuses, Faults
  <2>2. CASE Requestable(m) = "none" /\ ~Known
    BY <1>8, <2>2 DEF HandleStart, Refuses, Faults
  <2>3. CASE Requestable(m) = "none" /\ Known /\ Ends("token")
    BY <2>3 DEF Refuses, Faults
  <2>4. CASE /\ Requestable(m) = "none" /\ Known
             /\ Respond("M_START_R", m, NeighborEncode(xNeighborsTable[1].pcToken) \ {Unset})
             /\ UNCHANGED <<tables, fault>>
    <3>1. NeighborEncode(xNeighborsTable[1].pcToken) \ {Unset}
            = {xNeighborsTable[1].pcToken} \ {NULL, Unset}
      BY DEF NeighborEncode
    <3>2. m.op = "M_START"  BY <1>8 DEF HandleStart
    <3> QED BY <1>0, <1>6, <2>4, <3>1, <3>2, Responds DEF Operates
  <2> QED BY <1>8, <2>1, <2>2, <2>3, <2>4 DEF HandleStart
<1> QED BY <1>1, <1>2, <1>3, <1>4, <1>5, <1>7, <1>8 DEF HandleMessage

-----------------------------------------------------------------------------
LEMMA StartTyped ==
  ASSUME CdapTypeOK, UNCHANGED build, Starts
  PROVE  CdapTypeOK'
<1> USE CdapAssumption DEF CdapTypeOK, build
<1>0. PICK port \in 0 .. 2 : EnrollmentInit(port) /\ fault' = fault  BY DEF Starts
<1>1. xRibObjectTable' \in Seq(ObjNames) /\ Len(xRibObjectTable') <= RibRows
  <2> DEFINE one == AddObject(xRibObjectTable, "/difm/enr")
  <2>0. "/difm/enr" \in ObjNames /\ "/difm/ops" \in ObjNames /\ RibRows \in Nat  BY DEF ObjNames
  <2>1. one \in Seq(ObjNames) /\ Len(one) <= RibRows  BY <2>0, Added DEF AddObject
  <2>2. xRibObjectTable' = AddObject(one, "/difm/ops")  BY <1>0 DEF EnrollmentInit
  <2> HIDE DEF one
  <2> QED BY <2>0, <2>1, <2>2, Added DEF AddObject
<1>2. /\ xAppConnectionTable' \in Seq(Rows1) /\ Len(xAppConnectionTable') <= ConnRows
      /\ toPeer' \subseteq toPeer \cup {Connect}
  <2>1. xAppConnectionTable \in Seq(Rows1) /\ NewConnection(port) \in Rows1
    BY DEF Rows1, NewConnection
  <2> QED BY <1>0, <2>1, Added DEF EnrollmentInit, ConnectToIpcp
<1>3. Connect \in Messages
  BY DEF Connect, Encoded, Msg, Messages, Ops, ObjNames, NULL, Missing
<1>4. toPeer' \subseteq Messages  BY <1>2, <1>3
<1> QED BY <1>0, <1>1, <1>2, <1>4 DEF EnrollmentInit, Rows1

LEMMA HandleTyped ==
  ASSUME CdapTypeOK, UNCHANGED build, Handles
  PROVE  CdapTypeOK'
<1> USE CdapAssumption
<1>0. PICK m \in FromPeer : HandleMessage(m) /\ taken' = taken \cup {m}  BY DEF Handles
<1>1. m \in Messages  BY Sent DEF CdapTypeOK
<1>2. connects' = connects /\ peerConnects' = peerConnects /\ peerToken' = peerToken
  BY DEF build
<1>3. taken' \subseteq Messages  BY <1>0, <1>1 DEF CdapTypeOK
<1>10. /\ xRibObjectTable \in Seq(ObjNames) /\ Len(xRibObjectTable) <= RibRows
       /\ xAppConnectionTable \in Seq(Rows1)
       /\ xPendingResponseHandlersTable \in Seq(Nat)
       /\ Len(xPendingResponseHandlersTable) <= HandlerRows
       /\ xNeighborsTable \in Seq(Neighbors) /\ Len(xNeighborsTable) <= NeighborRows
       /\ invoke_id \in Nat
       /\ {RibRows, ConnRows, HandlerRows, NeighborRows} \subseteq Nat \ {0}
  BY DEF CdapTypeOK, Rows1, Neighbors
<1>4. CASE Refuses
  <2>1. PICK f \in Faults : fault' = f /\ UNCHANGED <<tables, invoke_id, toPeer>>
    BY <1>4 DEF Refuses, Ends
  <2> QED BY <1>2, <1>3, <2>1 DEF CdapTypeOK, tables
<1>5. CASE Ignored  BY <1>2, <1>3, <1>5 DEF CdapTypeOK, Ignored, tables
<1>6. CASE Joins
  <2>1. /\ xAppConnectionTable' \in Seq(Rows1)
        /\ Len(xAppConnectionTable') = Len(xAppConnectionTable)
    <3>1. Found(RxPort) \in 1 .. Len(xAppConnectionTable)  BY <1>6, <1>10, FoundRow DEF Joins
    <3>2. xAppConnectionTable[Found(RxPort)] \in Rows1  BY <1>10, <3>1
    <3>3. [xAppConnectionTable[Found(RxPort)] EXCEPT !.xStatus = "CONNECTED"] \in Rows1
      BY <3>2 DEF Rows1
    <3>4. xAppConnectionTable' =
            [xAppConnectionTable EXCEPT
               ![Found(RxPort)] = [xAppConnectionTable[Found(RxPort)] EXCEPT !.xStatus = "CONNECTED"]]
      BY <1>6 DEF Joins
    <3> QED BY <1>10, <3>1, <3>3, <3>4, Replaced
  <2>2. xNeighborsTable' \in Seq(Neighbors) /\ Len(xNeighborsTable') <= NeighborRows
    <3> DEFINE table == IF Known THEN xNeighborsTable
                        ELSE AddNeighborEntry(xNeighborsTable, NeighInfo)
    <3>1. NeighInfo \in Neighbors  BY DEF Neighbors, NeighInfo
    <3>2. table \in Seq(Neighbors) /\ Len(table) <= NeighborRows
      BY <1>10, <3>1, Added DEF AddNeighborEntry
    <3>3. xNeighborsTable' = [table EXCEPT ![1].eEnrollmentState = "eENROLLMENT_IN_PROGRESS"]
      BY <1>6 DEF Joins, EnrolNeighbor
    <3>4. 1 \in 1 .. Len(table)  BY <1>10, Added DEF Known, AddNeighborEntry, AddRow
    <3> HIDE DEF table
    <3>5. table[1] \in Neighbors  BY <3>2, <3>4
    <3>6. [table[1] EXCEPT !.eEnrollmentState = "eENROLLMENT_IN_PROGRESS"] \in Neighbors
      BY <3>5 DEF Neighbors
    <3>7. xNeighborsTable' =
            [table EXCEPT ![1] = [table[1] EXCEPT !.eEnrollmentState = "eENROLLMENT_IN_PROGRESS"]]
      BY <3>3
    <3> QED BY <3>2, <3>4, <3>6, <3>7, Replaced
  <2>3. /\ xPendingResponseHandlersTable' \in Seq(Nat)
        /\ Len(xPendingResponseHandlersTable') <= HandlerRows
        /\ invoke_id' \in Nat
    <3>1. /\ xPendingResponseHandlersTable' =
               AddRow(xPendingResponseHandlersTable, invoke_id, HandlerRows)
          /\ invoke_id' = invoke_id + 1
      BY <1>6 DEF Joins, EnrolNeighbor, SendStart, AddResponseHandler, NextInvokeId
    <3>2. HandlerRows \in Nat  BY <1>10
    <3>3. /\ AddRow(xPendingResponseHandlersTable, invoke_id, HandlerRows) \in Seq(Nat)
          /\ Len(AddRow(xPendingResponseHandlersTable, invoke_id, HandlerRows)) <= HandlerRows
      BY <1>10, <3>2, Added
    <3> QED BY <1>10, <3>1, <3>3
  <2>4. FillEnrollMsg("M_START", "/difm/enr", EnrollmentEncode) \in Messages
    BY DEF CdapTypeOK, FillEnrollMsg, EnrollmentEncode, Encoded, Msg, Messages, Ops, ObjNames
  <2>5. toPeer' \subseteq Messages
    BY <1>6, <2>4 DEF CdapTypeOK, Joins, EnrolNeighbor, SendStart, Send
  <2>6. UNCHANGED <<xRibObjectTable, fault>>  BY <1>6 DEF Joins
  <2> QED BY <1>2, <1>3, <2>1, <2>2, <2>3, <2>5, <2>6 DEF CdapTypeOK, Rows1, Neighbors
<1>7. CASE Creates(m)
  <2>1. xRibObjectTable' \in Seq(ObjNames) /\ Len(xRibObjectTable') <= RibRows
    <3>1. "other" \in ObjNames  BY DEF ObjNames
    <3> QED BY <1>7, <1>10, <3>1, Added DEF Creates, AddObject
  <2> QED BY <1>2, <1>3, <1>7, <2>1 DEF CdapTypeOK, Creates
<1>8. CASE Stops(m)
  <2>1. EnrollmentDecode(m.objValue) \in {NULL, "token", Unset}  BY DEF EnrollmentDecode
  <2>2. /\ xNeighborsTable' \in Seq(Neighbors)
        /\ Len(xNeighborsTable') = Len(xNeighborsTable)
    <3>1. [eEnrollmentState |-> "eENROLLED", pcToken |-> EnrollmentDecode(m.objValue)]
            \in Neighbors
      BY <2>1 DEF Neighbors
    <3>2. 1 \in 1 .. Len(xNeighborsTable)  BY <1>8, <1>10 DEF Stops, Known
    <3> QED BY <1>8, <1>10, <3>1, <3>2, Replaced DEF Stops
  <2>3. Msg("M_STOP_R", m.invokeID, m.objName, {}) \in Messages
    BY <1>1 DEF Msg, Messages, Ops
  <2>4. toPeer' \subseteq Messages  BY <1>8, <2>3 DEF CdapTypeOK, Stops, Sends
  <2> QED BY <1>2, <1>3, <1>8, <2>2, <2>4 DEF CdapTypeOK, Stops, Neighbors
<1>9. CASE Operates(m)
  <2>1. xNeighborsTable[1] \in Neighbors  BY <1>9, <1>10 DEF Operates, Known
  <2>2. {xNeighborsTable[1].pcToken} \ {NULL, Unset} \subseteq {"address", "token"}
    BY <2>1 DEF Neighbors
  <2>3. Msg("M_START_R", m.invokeID, m.objName, {xNeighborsTable[1].pcToken} \ {NULL, Unset})
          \in Messages
    BY <1>1, <2>2 DEF Msg, Messages, Ops
  <2>4. toPeer' \subseteq Messages  BY <1>9, <2>3 DEF CdapTypeOK, Operates, Sends
  <2> QED BY <1>2, <1>3, <1>9, <2>4 DEF CdapTypeOK, Operates, tables
<1> QED BY <1>0, <1>4, <1>5, <1>6, <1>7, <1>8, <1>9, Effects

-----------------------------------------------------------------------------
(* A connection that enrolment adds comes after those of the same port.    *)
LEMMA StartConnections ==
  ASSUME CdapTypeOK, CdapTypeOK', Starts
  PROVE  /\ Connections(RxPort) # {} =>
              /\ Connections(RxPort)' # {}
              /\ Status(RxPort)' = Status(RxPort)
         /\ Connections(RxPort) = {} /\ Connections(RxPort)' # {} =>
              Status(RxPort)' = "IN_PROGRESS"
<1> DEFINE n == Len(xAppConnectionTable)
           table == xAppConnectionTable'
<1>1. xAppConnectionTable \in Seq(Rows1) /\ table \in Seq(Rows1) /\ n \in Nat
  BY DEF CdapTypeOK, Rows1
<1>2. /\ n <= Len(table) /\ Len(table) <= n + 1
      /\ \A i \in 1 .. n : table[i] = xAppConnectionTable[i]
      /\ Len(table) = n + 1 => table[n + 1].xStatus = "IN_PROGRESS"
  <2>1. PICK port \in 0 .. 2 : EnrollmentInit(port)  BY DEF Starts
  <2>2. CASE UNCHANGED xAppConnectionTable  BY <1>1, <2>2
  <2>3. CASE table = AddRow(xAppConnectionTable, NewConnection(port), ConnRows)
    <3>1. NewConnection(port) \in Rows1 /\ NewConnection(port).xStatus = "IN_PROGRESS"
      BY DEF NewConnection, Rows1
    <3>2. n <= ConnRows /\ ConnRows \in Nat  BY CdapAssumption DEF CdapTypeOK
    <3> DEFINE more == AddRow(xAppConnectionTable, NewConnection(port), ConnRows)
    <3>3. /\ n <= Len(more) /\ Len(more) <= n + 1
          /\ \A i \in 1 .. n : more[i] = xAppConnectionTable[i]
          /\ Len(more) = n + 1 => more[n + 1] = NewConnection(port)
      BY <1>1, <3>1, <3>2, Added
    <3> HIDE DEF more
    <3>4. table = more  BY <2>3 DEF more
    <3> QED BY <3>1, <3>3, <3>4
  <2> QED BY <2>1, <2>2, <2>3 DEF EnrollmentInit, ConnectToIpcp
<1>3. /\ Connections(RxPort) \subseteq Connections(RxPort)'
      /\ Connections(RxPort)' \subseteq Connections(RxPort) \cup {n + 1}
      /\ n + 1 \in Connections(RxPort)' => Len(table) = n + 1
      /\ Connections(RxPort)' \in SUBSET Nat /\ Connections(RxPort) \in SUBSET (1 .. n)
  BY <1>1, <1>2 DEF Connections
<1> HIDE DEF table
<1>4. CASE Connections(RxPort) # {}
  <2>1. Found(RxPort) \in Connections(RxPort) /\ \A j \in Connections(RxPort) : Found(RxPort) <= j
    BY <1>1, <1>4, FoundRow
  <2>2. \A j \in Connections(RxPort)' : Found(RxPort) <= j  BY <1>1, <1>3, <2>1
  <2>3. FirstOf(Connections(RxPort)') = Found(RxPort)  BY <1>3, <2>1, <2>2, FirstIs
  <2>4. Found(RxPort)' = Found(RxPort)  BY <2>3 DEF Found
  <2>5. xAppConnectionTable'[Found(RxPort)] = xAppConnectionTable[Found(RxPort)]
    BY <1>2, <1>3, <2>1 DEF table
  <2> QED BY <1>3, <1>4, <2>4, <2>5 DEF Status
<1>5. CASE Connections(RxPort) = {} /\ Connections(RxPort)' # {}
  <2>1. Connections(RxPort)' = {n + 1} /\ Len(table) = n + 1  BY <1>3, <1>5
  <2>2. FirstOf(Connections(RxPort)') = n + 1  BY <1>1, <1>3, <2>1, FirstIs
  <2>3. Found(RxPort)' = n + 1  BY <2>2 DEF Found
  <2> QED BY <1>2, <1>5, <2>1, <2>3 DEF Status, table
<1> QED BY <1>4, <1>5

LEMMA JoinConnections ==
  ASSUME CdapTypeOK, Joins
  PROVE  Answered'
<1>1. xAppConnectionTable \in Seq(Rows1) /\ Connections(RxPort) # {}
  BY DEF CdapTypeOK, Rows1, Joins
<1>2. Found(RxPort) \in 1 .. Len(xAppConnectionTable)  BY <1>1, FoundRow
<1>3. /\ Len(xAppConnectionTable') = Len(xAppConnectionTable)
      /\ xAppConnectionTable'[Found(RxPort)].xStatus = "CONNECTED"
      /\ \A i \in 1 .. Len(xAppConnectionTable) :
            xAppConnectionTable'[i].xN1portId = xAppConnectionTable[i].xN1portId
  <2>1. xAppConnectionTable' =
            [xAppConnectionTable EXCEPT
               ![Found(RxPort)] = [xAppConnectionTable[Found(RxPort)] EXCEPT !.xStatus = "CONNECTED"]]
    BY DEF Joins
  <2>2. xAppConnectionTable[Found(RxPort)] \in Rows1  BY <1>1, <1>2
  <2> QED BY <1>1, <1>2, <2>1, <2>2 DEF Rows1
<1>4. Connections(RxPort)' = Connections(RxPort)  BY <1>3 DEF Connections, RxPort
<1>5. Found(RxPort)' = Found(RxPort)  BY <1>4 DEF Found
<1> QED BY <1>1, <1>3, <1>4, <1>5 DEF Answered, Status

-----------------------------------------------------------------------------
LEMMA StartKeeps ==
  ASSUME IInv, CdapTypeOK', Starts
  PROVE  Joined' /\ Given' /\ AnswersAsked' /\ StartsOnce'
<1>1. /\ toPeer' \subseteq toPeer \cup {Connect}
      /\ UNCHANGED <<xNeighborsTable, taken>>
  BY DEF Starts, EnrollmentInit, ConnectToIpcp
<1>2. Connect.op = "M_CONNECT" /\ Connect.objValue = {}  BY DEF Connect, Encoded, Msg
<1>3. Joined'
  <2>1. Answered => Answered'  BY StartConnections DEF IInv, Answered
  <2> QED BY <1>1, <1>2, <2>1 DEF IInv, Joined, Known
<1>4. Given'  BY <1>1 DEF IInv, Given, Known
<1>5. AnswersAsked'  BY <1>1, <1>2 DEF IInv, AnswersAsked
<1>6. StartsOnce'  BY <1>1, <1>2 DEF IInv, StartsOnce
<1> QED BY <1>3, <1>4, <1>5, <1>6

LEMMA HandleKeeps ==
  ASSUME IInv, Handles
  PROVE  Joined' /\ Given' /\ AnswersAsked' /\ StartsOnce'
<1>0. PICK m \in FromPeer : HandleMessage(m) /\ taken' = taken \cup {m}  BY DEF Handles
<1>1. /\ xNeighborsTable \in Seq(Neighbors)
      /\ m \in taken' /\ taken \subseteq taken'
      /\ CdapTypeOK
  BY <1>0 DEF IInv, CdapTypeOK, Neighbors
<1>2. CASE Refuses \/ Ignored \/ Creates(m)
  <2>1. UNCHANGED <<xAppConnectionTable, xNeighborsTable, toPeer>>
    BY <1>2 DEF Refuses, Ends, Ignored, Creates, tables
  <2>2. Answered' = Answered  BY <2>1 DEF Answered, Status, Found, Connections, RxPort
  <2>3. Joined'  BY <2>1, <2>2 DEF IInv, Joined, Known
  <2>4. Given'  BY <1>1, <2>1 DEF IInv, Given, Known
  <2>5. AnswersAsked'  BY <1>1, <2>1 DEF IInv, AnswersAsked
  <2>6. StartsOnce'  BY <2>1 DEF IInv, StartsOnce
  <2> QED BY <2>3, <2>4, <2>5, <2>6
<1>3. CASE Joins
  <2> DEFINE start == FillEnrollMsg("M_START", "/difm/enr", EnrollmentEncode)
  <2>1. toPeer' \subseteq toPeer \cup {start}
    BY <1>3 DEF Joins, EnrolNeighbor, SendStart, Send
  <2>2. start.op = "M_START" /\ "token" \notin start.objValue
    BY DEF FillEnrollMsg, EnrollmentEncode, Encoded, Msg
  <2>3. ~Known /\ \A n \in toPeer : n.op # "M_START"
    BY <1>3 DEF IInv, Joined, Joins, Answered
  <2>4. Joined'  BY <1>1, <1>3, JoinConnections DEF Joined
  <2>5. xNeighborsTable'[1].pcToken # "token"
    <3>1. xNeighborsTable = <<>>  BY <2>3 DEF Known
    <3>2. AddNeighborEntry(xNeighborsTable, NeighInfo) = <<NeighInfo>>
      BY <3>1, CdapAssumption DEF AddNeighborEntry, AddRow
    <3>3. xNeighborsTable' =
            [<<NeighInfo>> EXCEPT ![1] =
               [NeighInfo EXCEPT !.eEnrollmentState = "eENROLLMENT_IN_PROGRESS"]]
      BY <1>3, <2>3, <3>2 DEF Joins, EnrolNeighbor
    <3>4. xNeighborsTable'[1] = [NeighInfo EXCEPT !.eEnrollmentState = "eENROLLMENT_IN_PROGRESS"]
      BY <3>3
    <3> QED BY <3>4 DEF NeighInfo, NULL, Missing
  <2>6. Given'  BY <2>5 DEF Given
  <2> HIDE DEF start
  <2>7. AnswersAsked'  BY <1>1, <2>1, <2>2 DEF IInv, AnswersAsked
  <2>8. StartsOnce'  BY <2>1, <2>2, <2>3 DEF StartsOnce
  <2> QED BY <2>4, <2>6, <2>7, <2>8
<1>4. CASE Stops(m)
  <2> DEFINE answer == Msg("M_STOP_R", m.invokeID, m.objName, {})
  <2>1. toPeer' \subseteq toPeer \cup {answer}  BY <1>4 DEF Stops, Sends
  <2>2. /\ answer.op = "M_STOP_R" /\ answer.invokeID = m.invokeID
        /\ answer.objName = m.objName /\ answer.objValue = {}
    BY DEF Msg
  <2> HIDE DEF answer
  <2>3. Answered'
    <3>1. UNCHANGED xAppConnectionTable /\ Answered  BY <1>4 DEF Stops
    <3> QED BY <3>1 DEF Answered, Status, Found, Connections, RxPort
  <2>4. Joined'  BY <2>3 DEF Joined
  <2>5. xNeighborsTable'[1].pcToken = EnrollmentDecode(m.objValue)
    <3>1. 1 \in 1 .. Len(xNeighborsTable)  BY <1>1, <1>4 DEF Stops, Known
    <3>2. xNeighborsTable'[1] = [eEnrollmentState |-> "eENROLLED",
                                 pcToken |-> EnrollmentDecode(m.objValue)]
      BY <1>1, <1>4, <3>1 DEF Stops
    <3> QED BY <3>2
  <2>6. xNeighborsTable'[1].pcToken = "token" => "token" \in m.objValue
    BY <2>5 DEF EnrollmentDecode, Unset
  <2>7. m.op = "M_STOP"  BY <1>4 DEF Stops
  <2>8. Given'  BY <1>1, <2>6, <2>7 DEF Given
  <2>9. AnswersAsked'  BY <1>1, <2>1, <2>2, <2>7 DEF IInv, AnswersAsked
  <2>10. StartsOnce'  BY <2>1, <2>2 DEF IInv, StartsOnce
  <2> QED BY <2>4, <2>8, <2>9, <2>10
<1>5. CASE Operates(m)
  <2> DEFINE answer == Msg("M_START_R", m.invokeID, m.objName,
                           {xNeighborsTable[1].pcToken} \ {NULL, Unset})
  <2>1. toPeer' \subseteq toPeer \cup {answer}  BY <1>5 DEF Operates, Sends
  <2>2. /\ answer.op = "M_START_R" /\ answer.invokeID = m.invokeID
        /\ answer.objName = m.objName
        /\ "token" \in answer.objValue => xNeighborsTable[1].pcToken = "token"
    BY DEF Msg
  <2> HIDE DEF answer
  <2>3. UNCHANGED <<xAppConnectionTable, xNeighborsTable>> /\ Answered /\ Known /\ m.op = "M_START"
    BY <1>5 DEF Operates, tables
  <2>4. Joined'  BY <2>3 DEF Joined, Answered, Status, Found, Connections, RxPort
  <2>5. Given'  BY <1>1, <2>3 DEF IInv, Given, Known
  <2>6. "token" \in answer.objValue => \E n \in taken : n.op = "M_STOP" /\ "token" \in n.objValue
    BY <2>2, <2>3 DEF IInv, Given
  <2>7. AnswersAsked'  BY <1>1, <2>1, <2>2, <2>3, <2>6 DEF IInv, AnswersAsked
  <2>8. StartsOnce'  BY <2>1, <2>2 DEF IInv, StartsOnce
  <2> QED BY <2>4, <2>5, <2>7, <2>8
<1> QED BY <1>0, <1>1, <1>2, <1>3, <1>4, <1>5, Effects

LEMMA Inductive == ASSUME IInv, [Next]_vars PROVE IInv'
<1>1. xN1PortId \in 0 .. 2  BY DEF IInv
<1>2. xN1PortId' \in 0 .. 2 /\ UNCHANGED build  BY <1>1, Steps
<1>3. CASE UNCHANGED cdapVars /\ (fault' = fault \/ fault' = "port")
  <2>1. UNCHANGED <<tables, invoke_id, toPeer, taken>> /\ fault' \in Faults
    BY <1>3 DEF cdapVars, IInv, CdapTypeOK, Faults
  <2>2. CdapTypeOK'  BY <1>2, <2>1 DEF IInv, CdapTypeOK, tables, build
  <2>3. Answered' = Answered  BY <2>1 DEF Answered, Status, Found, Connections, RxPort, tables
  <2>4. Joined'  BY <2>1, <2>3 DEF IInv, Joined, Known, tables
  <2>5. Given'  BY <2>1 DEF IInv, Given, Known, tables
  <2>6. AnswersAsked' /\ StartsOnce'  BY <2>1 DEF IInv, AnswersAsked, StartsOnce
  <2> QED BY <1>2, <2>2, <2>4, <2>5, <2>6 DEF IInv
<1>4. CASE Starts
  <2>1. CdapTypeOK'  BY <1>2, <1>4, StartTyped DEF IInv
  <2> QED BY <1>2, <1>4, <2>1, StartKeeps DEF IInv
<1>5. CASE Handles
  <2>1. CdapTypeOK'  BY <1>2, <1>5, HandleTyped DEF IInv
  <2> QED BY <1>2, <1>5, <2>1, HandleKeeps DEF IInv
<1> QED BY <1>1, <1>3, <1>4, <1>5, Steps

LEMMA Initially == Init => IInv
<1> SUFFICES ASSUME Init PROVE IInv  OBVIOUS
<1>1. CdapInit /\ xN1PortId = 0  BY DEF Init
<1>2. CdapTypeOK  BY <1>1, CdapAssumption DEF CdapInit, CdapTypeOK, Faults
<1>3. ~Known /\ toPeer = {}  BY <1>1 DEF CdapInit, Known
<1> QED BY <1>1, <1>2, <1>3 DEF IInv, Joined, Given, AnswersAsked, StartsOnce

LEMMA Invariant == Spec => []IInv
BY Initially, Inductive, PTL DEF Spec

(* Every answer is one to a request that has been handled, with its invoke *)
(* id and object, though xRibdSendResponse fills it with another id first, *)
(* and a token that goes out has come in, whatever the size of the tables. *)
THEOREM RequestsAnswered == Spec => []AnswersAsked
<1>1. IInv => AnswersAsked  BY DEF IInv
<1> QED BY <1>1, Invariant, PTL

(* xEnrollmentHandleConnectR sends M_START for the first answer of a       *)
(* connection only, however often it comes and enrolment is initiated.     *)
THEOREM StartedOnce == Spec => []StartsOnce
<1>1. IInv => StartsOnce  BY DEF IInv
<1> QED BY <1>1, Invariant, PTL

-----------------------------------------------------------------------------
LEMMA StartPhase ==
  ASSUME IInv, IInv', Starts, fault = "none"
  PROVE  UNCHANGED Phase \/ (Phase = "down" /\ Phase' = "connecting")
<1>1. UNCHANGED <<fault, xNeighborsTable>>  BY DEF Starts, EnrollmentInit
<1>2. Enrolled' = Enrolled  BY <1>1 DEF Enrolled, Known
<1>3. CASE Enrolled  BY <1>1, <1>2, <1>3 DEF Phase
<1>4. CASE ~Enrolled /\ Connections(RxPort) # {}
  <2>1. Connections(RxPort)' # {} /\ Status(RxPort)' = Status(RxPort)
    BY <1>4, StartConnections DEF IInv
  <2> QED BY <1>1, <1>2, <1>4, <2>1 DEF Phase
<1>5. CASE ~Enrolled /\ Connections(RxPort) = {}
  <2>1. Connections(RxPort)' = {} \/ Status(RxPort)' = "IN_PROGRESS"
    BY <1>5, StartConnections DEF IInv
  <2> QED BY <1>1, <1>2, <1>5, <2>1 DEF Phase
<1> QED BY <1>3, <1>4, <1>5

LEMMA HandlePhase ==
  ASSUME IInv, IInv', Handles, fault = "none"
  PROVE  \/ UNCHANGED Phase
         \/ Phase = "connecting" /\ Phase' = "connected"
         \/ Phase = "connected" /\ Phase' = "enrolled"
         \/ Phase # "ended" /\ Phase' = "ended"
<1>0. PICK m \in FromPeer : HandleMessage(m)  BY DEF Handles
<1>1. xNeighborsTable \in Seq(Neighbors) /\ CdapTypeOK  BY DEF IInv, CdapTypeOK, Neighbors
<1>2. CASE Refuses
  <2>1. fault' # "none"  BY <1>2 DEF Refuses, Ends
  <2>2. Phase' = "ended"  BY <2>1 DEF Phase
  <2>3. Phase # "ended"  BY DEF Phase
  <2> QED BY <2>2, <2>3
<1>3. CASE Ignored \/ Creates(m) \/ Operates(m)
  <2>1. UNCHANGED <<xAppConnectionTable, xNeighborsTable, fault>>
    BY <1>3 DEF Ignored, Creates, Operates, tables
  <2> QED BY <2>1 DEF Phase, Enrolled, Known, Status, Found, Connections, RxPort
<1>4. CASE Joins
  <2>1. Answered'  BY <1>1, <1>4, JoinConnections
  <2>2. ~Known  BY <1>4 DEF IInv, Joined, Joins, Answered
  <2>3. xNeighborsTable'[1].eEnrollmentState = "eENROLLMENT_IN_PROGRESS"
    <3>1. xNeighborsTable = <<>>  BY <2>2 DEF Known
    <3>2. AddNeighborEntry(xNeighborsTable, NeighInfo) = <<NeighInfo>>
      BY <3>1, CdapAssumption DEF AddNeighborEntry, AddRow
    <3>3. xNeighborsTable' =
            [<<NeighInfo>> EXCEPT ![1] =
               [NeighInfo EXCEPT !.eEnrollmentState = "eENROLLMENT_IN_PROGRESS"]]
      BY <1>4, <2>2, <3>2 DEF Joins, EnrolNeighbor
    <3>4. xNeighborsTable'[1] = [NeighInfo EXCEPT !.eEnrollmentState = "eENROLLMENT_IN_PROGRESS"]
      BY <3>3
    <3> QED BY <3>4 DEF NeighInfo
  <2>4. ~Enrolled /\ ~Enrolled'  BY <2>2, <2>3 DEF Enrolled
  <2>5. fault' = "none"  BY <1>4 DEF Joins
  <2>6. Phase = "connecting"  BY <1>4, <2>4 DEF Phase, Joins
  <2>7. Phase' = "connected"  BY <2>1, <2>4, <2>5 DEF Phase, Answered
  <2> QED BY <2>6, <2>7
<1>5. CASE Stops(m)
  <2>1. Phase \in {"connected", "enrolled"}  BY <1>5 DEF Phase, Stops, Answered
  <2>2. xNeighborsTable' # <<>> /\ xNeighborsTable'[1].eEnrollmentState = "eENROLLED"
    <3>1. 1 \in 1 .. Len(xNeighborsTable)  BY <1>1, <1>5 DEF Stops, Known
    <3>2. /\ xNeighborsTable'[1] = [eEnrollmentState |-> "eENROLLED",
                                    pcToken |-> EnrollmentDecode(m.objValue)]
          /\ Len(xNeighborsTable') = Len(xNeighborsTable)
      BY <1>1, <1>5, <3>1 DEF Stops
    <3> QED BY <1>1, <3>1, <3>2
  <2>3. Phase' = "enrolled"  BY <1>5, <2>2 DEF Phase, Enrolled, Known, Stops
  <2> QED BY <2>1, <2>3
<1> QED BY <1>0, <1>1, <1>2, <1>3, <1>4, <1>5, Effects

LEMMA PhaseStep ==
  ASSUME IInv, IInv', [Next]_vars
  PROVE  [Abstract!Next]_Phase
<1> USE DEF Abstract!Next, Abstract!Initiate, Abstract!Establish, Abstract!Complete,
            Abstract!End
<1>1. xN1PortId \in 0 .. 2  BY DEF IInv
<1>2. CASE UNCHANGED cdapVars /\ fault' = fault
  BY <1>2 DEF cdapVars, tables, Phase, Enrolled, Known, Status, Found, Connections, RxPort
<1>3. CASE fault = "none" /\ fault' = "port"  BY <1>3 DEF Phase
<1>4. CASE fault = "none" /\ Starts  BY <1>4, StartPhase
<1>5. CASE fault = "none" /\ Handles  BY <1>5, HandlePhase
<1> QED BY <1>1, <1>2, <1>3, <1>4, <1>5, Steps

(* Enrolment implements Association: no message, repeated or late, and no  *)
(* further vEnrollmentInit skips a phase or sets one back.                 *)
THEOREM PhasesInOrder == Spec => AssociationSpec
<1>1. Init => Abstract!Init
  <2> SUFFICES ASSUME Init PROVE Abstract!Init  OBVIOUS
  <2>1. fault = "none" /\ xNeighborsTable = <<>> /\ xAppConnectionTable = <<>>
    BY DEF Init, CdapInit
  <2>2. Connections(RxPort) = {}  BY <2>1 DEF Connections
  <2> QED BY <2>1, <2>2 DEF Abstract!Init, Phase, Enrolled, Known
<1> QED BY <1>1, Invariant, PhaseStep, PTL DEF Spec, AssociationSpec, Abstract!Spec

-----------------------------------------------------------------------------
(* The threads of the TAP interface                                        *)
Early == {"init", "task", "thread", "shim", "enrol", "start"}
Late == {"event", "done", "unheard"}

(* The pipe that a read thread looks at, or will                           *)
PipeOf(i) == IF readers[i].pc = "starting" THEN Len(readers) ELSE readers[i].pipe
Running == ~missed /\ (pc = "started" \/ xIsInterfaceConnected)

(* A thread that listens, listens to the latest pipe, the one that will be *)
(* told; and there is one, or none, as the link was last known to be.      *)
TapInv ==
  /\ TapTypeOK
  /\ pc \in Early => readers = <<>>
  /\ xIsInterfaceConnected => pc \in Late
  /\ monitor = "notifyDown" => ~nCurrentIffFlags
  /\ monitor = "notifyUp" => nCurrentIffFlags
  /\ ~missed /\ pc = "started" => monitor \notin {"notifyUp", "notifyDown"}
  /\ Running =>
       /\ \A i \in 1 .. Len(readers) : Listens(i) => PipeOf(i) = Len(readers)
       /\ (~nCurrentIffFlags /\ monitor # "notifyDown") \/ monitor = "notifyUp" =>
            \A i \in 1 .. Len(readers) : ~Listens(i)
       /\ nCurrentIffFlags /\ monitor # "notifyUp" /\ nTapFD =>
            \E i \in 1 .. Len(readers) : Listens(i)

LEMMA TapSteps ==
  ASSUME TapInv, [Next]_vars
  PROVE  /\ UNCHANGED device
         /\ \/ /\ UNCHANGED tapVars
               /\ \/ pc' = pc
                  \/ /\ pc \notin {"start", "started"} /\ pc' \notin {"start", "started"}
                     /\ pc' \in Early => pc \in Early
                     /\ pc \in Late => pc' \in Late
            \/ pc = "enrol" /\ pc' = "start" /\ Initialise
            \/ pc = "start" /\ pc' = "started" /\ ConnectStarts
            \/ pc = "start" /\ pc' = "failed" /\ ConnectStarts
            \/ pc = "started" /\ pc' = "event" /\ ConnectEnds
            \/ pc' = pc /\ TapThreads
            \/ pc' = pc /\ \E i \in 1 .. MaxLinkChanges + 1 : ReaderReads(i)
<1> USE DEF build, stack, managerVars, Early, Late
<1>1. CASE UNCHANGED vars  BY <1>1 DEF vars
<1>2. CASE CreateStack
  BY <1>2 DEF CreateStack, CreateNormal, IpcpInit, RsQueueCreate, CreateThread, CreateShim, StartTask
<1>3. CASE EnrollToDIF802154 \/ EnrollToDIF \/ Connected \/ SendEvent
  BY <1>3 DEF EnrollToDIF802154, EnrollToDIF, Connected, SendEvent, SendEnrolled, At, GoesTo
<1>4. CASE EnrollToDIFTap
  BY <1>4 DEF EnrollToDIFTap, At, GoesTo
<1>5. CASE ConnectTap
  BY <1>5 DEF ConnectTap, At, GoesTo
<1>6. CASE WifiEvent \/ TapStep \/ TakePort
  BY <1>6 DEF WifiEvent, TapStep, TakePort
<1>7. CASE Event
  BY <1>7 DEF Event, NotRegistered, EnrolledEvent, NoN1Port, NotAllocated, AllocatedEvent, Handling
<1>8. CASE \E op \in {"ARP_REQUEST", "ARP_REPLY"}, h \in Hosts, k \in {1, 2} :
              ArpPacket(op, h, k)
  BY <1>8 DEF ArpPacket, NetworkInterfaceInput
<1>9. CASE \E m \in FromPeer : ManagementPdu(m)
  BY <1>9 DEF ManagementPdu
<1> QED BY <1>1, <1>2, <1>3, <1>4, <1>5, <1>6, <1>7, <1>8, <1>9 DEF Next, Manager

Threads == [pc : {"starting", "polling", "reading", "gone"}, pipe : Nat]

(* A thread that goes on listens to the same pipe as before.               *)
LEMMA ReaderKeeps ==
  ASSUME TapInv, NEW i \in 1 .. Len(readers), NEW r \in Threads,
         readers' = [readers EXCEPT ![i] = r],
         \/ readers[i].pc # "starting" /\ r.pc # "starting" /\ r.pipe = readers[i].pipe
            /\ (r.pc = "gone" \/ readers[i].pc = "gone" => ~Listens(i) /\ r.pc = "gone")
         \/ readers[i].pc = "starting" /\ r.pc = "polling" /\ r.pipe = Len(readers),
         UNCHANGED <<device, pc, nTapFD, linkUp, linkChanges, newLinks, monitor, nCurrentIffFlags,
                     xIsInterfaceConnected, told, missed>>
  PROVE  TapInv'
<1>1. readers \in Seq(Threads)  BY DEF TapInv, TapTypeOK, Threads
<1>2. readers' \in Seq(Threads) /\ Len(readers') = Len(readers)  BY <1>1, Replaced
<1>3. \A j \in 1 .. Len(readers) : readers'[j] = IF j = i THEN r ELSE readers[j]  BY <1>1
<1>4. \A j \in 1 .. Len(readers) : Listens(j)' = Listens(j)  BY <1>2, <1>3 DEF Listens
<1>5. \A j \in 1 .. Len(readers) : Listens(j) => PipeOf(j)' = PipeOf(j)
  BY <1>2, <1>3 DEF Listens, PipeOf
<1>6. TapTypeOK'  BY <1>2 DEF TapInv, TapTypeOK, Threads
<1>7. pc \notin Early  BY <1>1 DEF TapInv
<1>8. Running' = Running  BY DEF Running
<1> QED BY <1>2, <1>4, <1>5, <1>6, <1>7, <1>8 DEF TapInv

LEMMA TapThreadKeeps ==
  ASSUME TapInv, UNCHANGED <<device, pc>>, TapThreads
  PROVE  TapInv'
<1>1. /\ readers \in Seq(Threads) /\ TapTypeOK
      /\ newLinks \in Seq(BOOLEAN) /\ told \subseteq 1 .. Len(readers)
  BY DEF TapInv, TapTypeOK, Threads
<1>2. ASSUME UNCHANGED <<readers, told>>
      PROVE  \A i \in 1 .. Len(readers) : Listens(i)' = Listens(i) /\ PipeOf(i)' = PipeOf(i)
  BY <1>2 DEF Listens, PipeOf
<1>3. CASE LinkChange
  <2>1. TapTypeOK'
    <3>1. linkUp' \in BOOLEAN  BY <1>3 DEF LinkChange
    <3>2. newLinks' = newLinks \/ newLinks' = Append(newLinks, linkUp')  BY <1>3 DEF LinkChange
    <3>3. newLinks' \in Seq(BOOLEAN)  BY <1>1, <3>1, <3>2
    <3>4. missed' \in BOOLEAN  BY <1>3 DEF LinkChange
    <3>5. linkChanges' \in 0 .. MaxLinkChanges
      BY <1>1, <1>3, TapAssumption DEF LinkChange, TapTypeOK
    <3>6. UNCHANGED <<device, nTapFD, monitor, nCurrentIffFlags, xIsInterfaceConnected, readers, told>>
      BY <1>3 DEF LinkChange
    <3> QED BY <1>1, <3>1, <3>3, <3>4, <3>5, <3>6 DEF TapTypeOK
  <2>2. Running' => Running  BY <1>3 DEF LinkChange, Running
  <2>3. UNCHANGED <<readers, told>>  BY <1>3 DEF LinkChange
  <2> QED BY <1>2, <1>3, <2>1, <2>2, <2>3 DEF LinkChange, TapInv
<1>4. CASE Bind
  <2>1. TapTypeOK'  BY <1>1, <1>4 DEF Bind, TapTypeOK
  <2>2. Running' => Running  BY <1>4 DEF Bind, Running
  <2>3. UNCHANGED <<readers, told>>  BY <1>4 DEF Bind
  <2> QED BY <1>2, <1>4, <2>1, <2>2, <2>3 DEF Bind, TapInv
<1>5. CASE ParseNewLink
  <2>1. Head(newLinks) \in BOOLEAN /\ Tail(newLinks) \in Seq(BOOLEAN)
    BY <1>1, <1>5 DEF ParseNewLink, Receives
  <2>2. /\ monitor = "bound" /\ monitor' \in {"bound", "notifyUp", "notifyDown"}
        /\ monitor' = "bound" => nCurrentIffFlags' = nCurrentIffFlags
        /\ monitor' = "notifyUp" => nCurrentIffFlags' /\ ~nCurrentIffFlags
        /\ monitor' = "notifyDown" => ~nCurrentIffFlags' /\ nCurrentIffFlags
        /\ ~missed' /\ pc = "started" => nCurrentIffFlags' = nCurrentIffFlags
    <3>1. nCurrentIffFlags \in BOOLEAN  BY <1>1 DEF TapTypeOK
    <3> QED BY <1>5, <2>1, <3>1 DEF ParseNewLink, Receives, Transition
  <2>3. TapTypeOK'  BY <1>1, <1>5, <2>1, <2>2 DEF ParseNewLink, Receives, TapTypeOK
  <2>4. Running' => Running  BY <1>5 DEF ParseNewLink, Running
  <2>5. UNCHANGED <<readers, told, nTapFD, xIsInterfaceConnected>>  BY <1>5 DEF ParseNewLink
  <2> QED BY <1>2, <2>2, <2>3, <2>4, <2>5 DEF TapInv
<1>6. CASE NotifyIFDown
  <2>1. TapTypeOK'
    <3>1. readers # <<>> => Len(readers) \in 1 .. Len(readers)  BY <1>1
    <3>2. told' \subseteq 1 .. Len(readers)  BY <1>1, <1>6, <3>1 DEF NotifyIFDown
    <3> QED BY <1>1, <1>6, <3>2 DEF NotifyIFDown, TapTypeOK
  <2>2. UNCHANGED <<nTapFD, nCurrentIffFlags, xIsInterfaceConnected, readers, missed>>
        /\ monitor = "notifyDown" /\ monitor' = "bound"
    BY <1>6 DEF NotifyIFDown
  <2>3. ASSUME Running', NEW i \in 1 .. Len(readers) PROVE ~Listens(i)'
    <3>1. Running /\ xIsInterfaceConnected  BY <2>2, <2>3 DEF Running, TapInv
    <3>2. told' = told \cup {Len(readers)}  BY <1>1, <1>6, <3>1 DEF NotifyIFDown
    <3>3. Listens(i) => PipeOf(i) = Len(readers)  BY <3>1 DEF TapInv
    <3> QED BY <2>2, <3>2, <3>3 DEF Listens, PipeOf
  <2> QED BY <2>1, <2>2, <2>3 DEF TapInv
<1>7. CASE NotifyIFUp
  <2>1. UNCHANGED <<nTapFD, nCurrentIffFlags, xIsInterfaceConnected, told, missed>>
        /\ monitor = "notifyUp" /\ monitor' = "bound"
    BY <1>7 DEF NotifyIFUp
  <2>2. CASE UNCHANGED readers
    <3>1. TapTypeOK'  BY <1>1, <1>7, <2>2 DEF NotifyIFUp, TapTypeOK
    <3>2. Running' => ~nTapFD
      <4>1. Running' => xIsInterfaceConnected  BY <2>1 DEF Running, TapInv
      <4>2. xIsInterfaceConnected /\ nTapFD => readers' # readers
        BY <1>1, <1>7 DEF NotifyIFUp, StartReadThread
      <4> QED BY <2>2, <4>1, <4>2
    <3>3. Running' => Running  BY <2>1 DEF Running
    <3>4. nCurrentIffFlags'  BY <2>1 DEF TapInv
    <3> QED BY <1>2, <2>1, <2>2, <3>1, <3>2, <3>3, <3>4 DEF TapInv
  <2>3. CASE xIsInterfaceConnected /\ readers' = Append(readers, [pc |-> "starting", pipe |-> 0])
    <3>0. PICK n \in Nat : n = Len(readers)  BY <1>1
    <3>1. /\ readers' \in Seq(Threads) /\ Len(readers') = n + 1
          /\ readers'[n + 1].pc = "starting"
          /\ \A i \in 1 .. n : readers'[i] = readers[i]
      BY <1>1, <2>3, <3>0 DEF Threads
    <3>2. TapTypeOK'
      <4>1. told' \subseteq 1 .. n + 1  BY <1>1, <2>1, <3>0
      <4> QED BY <1>1, <1>7, <3>1, <4>1 DEF NotifyIFUp, TapTypeOK, Threads
    <3>3. n + 1 \notin told'  BY <1>1, <2>1, <3>0
    <3>4. Listens(n + 1)'  BY <3>1, <3>3 DEF Listens
    <3>5. ASSUME Running', NEW i \in 1 .. n + 1, Listens(i)' PROVE PipeOf(i)' = n + 1
      <4>1. CASE readers'[i].pc = "starting"  BY <3>1, <4>1 DEF PipeOf
      <4>2. CASE readers'[i].pc # "starting"
        <5>1. i \in 1 .. n  BY <3>1, <4>2
        <5>2. ~Listens(i)  BY <2>1, <3>0, <3>5, <5>1 DEF Running, TapInv
        <5> QED BY <2>1, <3>1, <3>5, <4>2, <5>1, <5>2 DEF Listens
      <4> QED BY <4>1, <4>2
    <3>6. pc \notin Early /\ nCurrentIffFlags'  BY <2>1, <2>3 DEF TapInv, Early, Late
    <3>7. n + 1 \in 1 .. Len(readers')  BY <3>1
    <3> QED BY <2>1, <3>1, <3>2, <3>4, <3>5, <3>6, <3>7 DEF TapInv
  <2> QED BY <1>7, <2>2, <2>3 DEF NotifyIFUp, StartReadThread
<1>8. ASSUME NEW i, ReaderStarts(i) PROVE TapInv'
  <2>1. [pc |-> "polling", pipe |-> Len(readers)] \in Threads  BY <1>1 DEF Threads
  <2> QED BY <1>8, <2>1, ReaderKeeps DEF ReaderStarts
<1>9. ASSUME NEW i, ReaderPolls(i) \/ ReaderReads(i) \/ ReaderLeaves(i) PROVE TapInv'
  <2>1. PICK to \in {"polling", "reading", "gone"} :
          /\ i \in 1 .. Len(readers) /\ readers[i].pc \in {"polling", "reading"}
          /\ readers' = [readers EXCEPT ![i] = [readers[i] EXCEPT !.pc = to]]
          /\ to = "gone" => readers[i].pipe \in told
          /\ UNCHANGED <<nTapFD, linkUp, linkChanges, newLinks, monitor, nCurrentIffFlags,
                         xIsInterfaceConnected, told, missed>>
    BY <1>9 DEF ReaderPolls, ReaderReads, ReaderLeaves, ReaderGoes
  <2> DEFINE r == [readers[i] EXCEPT !.pc = to]
  <2>2. readers[i] \in Threads  BY <1>1, <2>1
  <2>3. r \in Threads /\ r.pc = to /\ r.pipe = readers[i].pipe  BY <2>2 DEF Threads
  <2>4. to = "gone" => ~Listens(i)  BY <2>1 DEF Listens
  <2> HIDE DEF r
  <2> QED BY <2>1, <2>3, <2>4, ReaderKeeps DEF r
<1> QED BY <1>3, <1>4, <1>5, <1>6, <1>7, <1>8, <1>9 DEF TapThreads

LEMMA TapInductive == ASSUME TapInv, [Next]_vars PROVE TapInv'
<1>1. UNCHANGED device  BY TapSteps
<1>2. readers \in Seq(Threads)  BY DEF TapInv, TapTypeOK, Threads
<1>3. CASE UNCHANGED <<tapVars, pc>> \/
           (/\ UNCHANGED tapVars
            /\ pc \notin {"start", "started"} /\ pc' \notin {"start", "started"}
            /\ pc' \in Early => pc \in Early
            /\ pc \in Late => pc' \in Late)
  <2>1. UNCHANGED tapVars  BY <1>3
  <2>2. TapTypeOK'  BY <1>1, <2>1 DEF TapInv, TapTypeOK, tapVars
  <2>3. \A i \in 1 .. Len(readers) : Listens(i)' = Listens(i) /\ PipeOf(i)' = PipeOf(i)
    BY <2>1 DEF Listens, PipeOf, tapVars
  <2>4. Running' => Running  BY <1>3 DEF Running, tapVars
  <2>5. (pc' \in Early => pc \in Early) /\ (pc \in Late => pc' \in Late)
        /\ (pc' = "started" => pc = "started")
    BY <1>3
  <2> QED BY <2>1, <2>2, <2>3, <2>4, <2>5 DEF TapInv, tapVars
<1>4. CASE pc = "enrol" /\ pc' = "start" /\ Initialise
  <2>1. TapTypeOK'
    <3>1. nCurrentIffFlags' \in BOOLEAN /\ nTapFD' \in BOOLEAN /\ monitor' = "starting"
      BY <1>4 DEF TapInv, TapTypeOK, Initialise, LinuxTapOpen, GetFlags, StartMonitorThread
    <3> QED BY <1>1, <1>4, <3>1 DEF TapInv, TapTypeOK, Initialise
  <2>2. readers = <<>> /\ ~xIsInterfaceConnected  BY <1>4 DEF TapInv, Early, Late
  <2>3. ~Running'  BY <1>4, <2>2 DEF Running, Initialise
  <2> QED BY <1>4, <2>1, <2>2, <2>3 DEF TapInv, Initialise, StartMonitorThread
<1>5. CASE pc = "start" /\ pc' \in {"started", "failed"} /\ ConnectStarts
  <2>1. readers = <<>> /\ ~xIsInterfaceConnected /\ told = {}
    BY <1>5 DEF TapInv, TapTypeOK, Early, Late
  <2>2. UNCHANGED <<nTapFD, linkUp, linkChanges, newLinks, monitor, nCurrentIffFlags,
                    xIsInterfaceConnected, told>>
    BY <1>5 DEF ConnectStarts
  <2>3. readers' = IF nCurrentIffFlags /\ nTapFD THEN <<[pc |-> "starting", pipe |-> 0]>> ELSE <<>>
    BY <1>5, <2>1 DEF ConnectStarts, StartReadThread, CheckFlags
  <2>4. readers' \in Seq(Threads) /\ Len(readers') \in {0, 1}
    <3>1. [pc |-> "starting", pipe |-> 0] \in Threads  BY DEF Threads
    <3>2. <<>> \in Seq(Threads) /\ <<[pc |-> "starting", pipe |-> 0]>> \in Seq(Threads)
      BY <3>1
    <3> QED BY <2>3, <3>2
  <2>5. missed' \in BOOLEAN /\ (~missed' => monitor \notin {"notifyUp", "notifyDown"})
    BY <1>5 DEF ConnectStarts
  <2>6. TapTypeOK'  BY <1>1, <2>1, <2>2, <2>4, <2>5 DEF TapInv, TapTypeOK, Threads
  <2>7. \A i \in 1 .. Len(readers') : i = 1 /\ readers'[i].pc = "starting" /\ PipeOf(i)' = 1
    BY <2>3 DEF PipeOf
  <2>8. ~nCurrentIffFlags \/ ~nTapFD => Len(readers') = 0  BY <2>3
  <2>9. nCurrentIffFlags /\ nTapFD => 1 \in 1 .. Len(readers') /\ Listens(1)'
    BY <2>1, <2>2, <2>3 DEF Listens
  <2>10. Running' => ~missed'  BY DEF Running
  <2>11. \A i \in 1 .. Len(readers') : PipeOf(i)' = Len(readers')  BY <2>4, <2>7
  <2> QED BY <1>5, <2>1, <2>2, <2>4, <2>5, <2>6, <2>8, <2>9, <2>10, <2>11 DEF TapInv, Early, Late
<1>6. CASE pc = "started" /\ pc' = "event" /\ ConnectEnds
  <2>1. UNCHANGED <<nTapFD, linkUp, linkChanges, newLinks, monitor, nCurrentIffFlags, readers,
                    told, missed>> /\ xIsInterfaceConnected' = TRUE
    BY <1>6 DEF ConnectEnds
  <2>2. TapTypeOK'  BY <1>1, <2>1 DEF TapInv, TapTypeOK
  <2>3. \A i \in 1 .. Len(readers) : Listens(i)' = Listens(i) /\ PipeOf(i)' = PipeOf(i)
    BY <2>1 DEF Listens, PipeOf
  <2>4. Running' => Running  BY <1>6, <2>1 DEF Running
  <2> QED BY <1>6, <2>1, <2>2, <2>3, <2>4 DEF TapInv, Early, Late
<1>7. CASE pc' = pc /\ (TapThreads \/ \E i \in 1 .. MaxLinkChanges + 1 : ReaderReads(i))
  BY <1>1, <1>7, TapThreadKeeps DEF TapThreads
<1> QED BY <1>3, <1>4, <1>5, <1>6, <1>7, TapSteps

LEMMA TapInitially == Init => TapInv
<1> SUFFICES ASSUME Init PROVE TapInv  OBVIOUS
<1>1. TapInit /\ pc = "init"  BY DEF Init, ManagerInit
<1>2. linkUp \in BOOLEAN  BY <1>1 DEF TapInit
<1>3. TapTypeOK
  <2>1. device \in {"esp32", "tap"} /\ linkChanges = 0 /\ monitor = "off"  BY <1>1 DEF TapInit
  <2>2. {nTapFD, linkUp, nCurrentIffFlags, xIsInterfaceConnected, missed} \subseteq BOOLEAN
    BY <1>1, <1>2 DEF TapInit
  <2>3. readers = <<>> /\ newLinks = <<>> /\ told = {}  BY <1>1 DEF TapInit
  <2>4. readers \in Seq(Threads) /\ newLinks \in Seq(BOOLEAN)  BY <2>3
  <2> QED BY <2>1, <2>2, <2>3, <2>4, TapAssumption DEF TapTypeOK, Threads
<1>4. ~Running  BY <1>1 DEF TapInit, Running
<1> QED BY <1>1, <1>3, <1>4 DEF TapInv, TapInit

LEMMA TapInvariant == Spec => []TapInv
BY TapInitially, TapInductive, PTL DEF Spec

(* However the changes of the link fall among the steps of the threads, no *)
(* thread started by vNetworkNotifyIFUp goes on reading a device that is   *)
(* known to be down, because each looks at the latest pipe of its time.    *)
THEOREM ThreadsTold == Spec => []ReadersTold
<1>1. TapInv => ReadersTold
  BY DEF TapInv, ReadersTold, Followed, Running
<1> QED BY <1>1, TapInvariant, PTL

(* And while the link is known to be up, one goes on reading it.           *)
THEOREM DeviceIsRead == Spec => []SomeoneReads
<1>1. TapInv => SomeoneReads
  BY DEF TapInv, SomeoneReads, Followed, Running
<1> QED BY <1>1, TapInvariant, PTL

-----------------------------------------------------------------------------
(* The port of the task is chosen once, and connections are made under it, *)
(* or under 0 before.                                                      *)
PortChosen ==
  /\ xN1PortId # 0 => xN1PortId = NextPort
  /\ \A i \in 1 .. Len(xAppConnectionTable) :
        xAppConnectionTable[i].xN1portId \in {0, xN1PortId}

(* What enrolment needs is there before a message can go out.              *)
Ready ==
  /\ xRibObjectTable = <<>> \/ {"/difm/enr", "/difm/ops"} \subseteq Objects
  /\ toPeer # {} => xAppConnectionTable # <<>>
  /\ xAppConnectionTable # <<>> => xRibObjectTable # <<>>
  /\ connects /\ shim = "802154" /\ pxN1Port = "allocated" => xAppConnectionTable # <<>>

(* What the first M_CONNECT_R leaves                                       *)
Started ==
  /\ ~Known => /\ xPendingResponseHandlersTable = <<>>
               /\ \A i \in 1 .. Len(xAppConnectionTable) :
                     xAppConnectionTable[i].xStatus = "IN_PROGRESS"
  /\ \A m \in toPeer : m.op = "M_START" => m.invokeID \in Handlers
  /\ Known /\ xNeighborsTable[1].pcToken = Unset => ~peerToken

Survival == shim \in {"802154", "wifi"} /\ IInv /\ PortChosen /\ Ready /\ Started /\ SurvivesPeer

(* What a step does to the port and to the tables                          *)
EnrolledStep ==
  /\ fault = "none" /\ fault' = fault
  /\ xN1PortId' = NextPort
  /\ UNCHANGED appFirst
  /\ \/ shim = "802154" /\ EnrollmentInit(NextPort)
     \/ shim = "wifi" /\ UNCHANGED cdapVars

AllocatedStep ==
  /\ fault = "none" /\ fault' = fault
  /\ EnrollmentInit(xN1PortId)
  /\ UNCHANGED <<appFirst, xN1PortId, pxN1Port>>

PduStep ==
  /\ fault = "none" /\ pxN1Port = "allocated"
  /\ Handles
  /\ UNCHANGED <<appFirst, xN1PortId, pxN1Port>>

OtherStep ==
  /\ UNCHANGED <<xN1PortId, cdapVars>>
  /\ fault' = fault \/ (fault = "none" /\ fault' = "port")
  /\ appFirst' = appFirst \/ xN1PortId = 0
  /\ pxN1Port' = pxN1Port \/ shim = "wifi"

LEMMA PortSteps ==
  ASSUME shim \in {"802154", "wifi"}, [Next]_vars
  PROVE  UNCHANGED build /\ (EnrolledStep \/ AllocatedStep \/ PduStep \/ OtherStep)
<1> USE DEF build, stack, shimVars
<1>1. CASE UNCHANGED vars  BY <1>1 DEF vars, OtherStep
<1>2. CASE Manager
  BY <1>2 DEF Manager, CreateStack, EnrollToDIF802154, EnrollToDIF, Connected, EnrollToDIFTap,
              ConnectTap, SendEvent, OtherStep
<1>3. CASE WifiEvent \/ TapStep
  BY <1>3 DEF WifiEvent, TapStep, OtherStep
<1>4. CASE TakePort  BY <1>4 DEF TakePort, OtherStep
<1>5. CASE NotRegistered \/ NoN1Port \/ NotAllocated
  BY <1>5 DEF NotRegistered, NoN1Port, NotAllocated, Handling, OtherStep
<1>6. CASE EnrolledEvent
  BY <1>6 DEF EnrolledEvent, Handling, EnrolledStep
<1>7. CASE AllocatedEvent
  BY <1>7 DEF AllocatedEvent, Handling, AllocatedStep
<1>8. CASE \E op \in {"ARP_REQUEST", "ARP_REPLY"}, h \in Hosts, k \in {1, 2} :
              ArpPacket(op, h, k)
  BY <1>8 DEF ArpPacket, Receiving, OtherStep
<1>9. CASE \E m \in FromPeer : ManagementPdu(m)
  BY <1>9 DEF ManagementPdu, MgmtDuPost, ProcessLayerManagementPDU, PduStep, Handles
<1> QED BY <1>1, <1>2, <1>3, <1>4, <1>5, <1>6, <1>7, <1>8, <1>9 DEF Next, Event

(* What a message of the peer answers                                      *)
LEMMA Asked ==
  ASSUME NEW m \in FromPeer
  PROVE  /\ \/ m.op = "M_CONNECT" /\ peerConnects
            \/ \E n \in toPeer : m.op = "M_START_R" => n.op = "M_START" /\ m.invokeID = n.invokeID
         /\ m.op = "M_STOP" /\ peerToken => "token" \in m.objValue
<1>1. (m = Connect /\ peerConnects) \/ \E n \in toPeer : m \in Answers(n)
  <2>1. CASE peerConnects  BY <2>1 DEF FromPeer
  <2>2. CASE ~peerConnects  BY <2>2 DEF FromPeer
  <2> QED BY <2>1, <2>2
<1>2. Connect.op = "M_CONNECT"  BY DEF Connect, Encoded, Msg
<1>3. ASSUME NEW n \in toPeer, m \in Answers(n)
      PROVE  /\ m.op = "M_START_R" => n.op = "M_START" /\ m.invokeID = n.invokeID
             /\ m.op = "M_STOP" /\ peerToken => "token" \in m.objValue
  <2>1. CASE n.op = "M_CONNECT"
    BY <1>3, <2>1 DEF Answers, ConnectR, Encoded, Msg
  <2>2. CASE n.op = "M_START"
    <3>1. m \in {Encoded("M_START_R", n.invokeID, "/difm/enr", {}), Create, Stop}
      BY <1>3, <2>2 DEF Answers
    <3>2. m = Stop /\ peerToken => "token" \in m.objValue  BY DEF Stop, StopWith, Encoded, Msg
    <3>3. Stop.op = "M_STOP" /\ Create.op = "M_CREATE"
      BY DEF Stop, StopWith, Create, Encoded, Msg
    <3> QED BY <2>2, <3>1, <3>2, <3>3 DEF Encoded, Msg
  <2>3. CASE n.op = "M_STOP_R"
    BY <1>3, <2>3 DEF Answers, OperationalStart, Encoded, Msg
  <2> QED BY <1>3, <2>1, <2>2, <2>3 DEF Answers
<1> QED BY <1>1, <1>2, <1>3

(* The faults that a message may still cause                               *)
LEMMA Refusal ==
  ASSUME Survival, fault = "none", pxN1Port = "allocated",
         NEW m \in FromPeer, HandleMessage(m), fault' # "none",
         connects, xN1PortId = 1, Connections(0) = {}, shim = "802154" \/ ~peerConnects
  PROVE  fault' = "name" \/ (fault' = "token" /\ ~peerToken)
<1>1. xAppConnectionTable # <<>>  BY Asked DEF Survival, Ready
<1>2. Connections(RxPort) # {}
  <2>1. 1 \in 1 .. Len(xAppConnectionTable)
    BY <1>1 DEF Survival, IInv, CdapTypeOK
  <2>2. xAppConnectionTable[1].xN1portId = 1
    BY <2>1 DEF Survival, PortChosen, Connections
  <2> QED BY <2>1, <2>2 DEF Connections, RxPort
<1>3. m.op \in {"M_STOP", "M_START"} => ObjName(m) \in Objects
  <2> SUFFICES ASSUME m.op \in {"M_STOP", "M_START"} PROVE ObjName(m) \in Objects
    OBVIOUS
  <2>1. toPeer # {}  BY Asked
  <2>2. ObjName(m) \in {"/difm/enr", "/difm/ops"}
    BY Sent DEF ObjName, Survival, IInv, CdapTypeOK
  <2> QED BY <2>1, <2>2 DEF Survival, Ready
<1>4. m.op \in {"M_STOP", "M_START"} => Requestable(m) \in {"name", "none"}
  BY <1>2, <1>3 DEF Requestable
<1>5. m.op = "M_START_R" => m.invokeID \in Handlers
  BY Asked DEF Survival, Started
<1>6. Answered => Known
  <2> SUFFICES ASSUME Answered, ~Known PROVE FALSE  OBVIOUS
  <2>1. Found(RxPort) \in 1 .. Len(xAppConnectionTable)
    <3>1. xAppConnectionTable \in Seq(Rows1)  BY DEF Survival, IInv, CdapTypeOK, Rows1
    <3> QED BY <1>2, <3>1, FoundRow
  <2> QED BY <2>1 DEF Survival, Started, Answered, Status
<1>7. CASE UnsetName(m)  BY <1>7 DEF UnsetName, Ends
<1>8. CASE HandleConnect(m)  BY <1>2, <1>8 DEF HandleConnect, Ignored
<1>9. CASE HandleConnectR(m)  BY <1>2, <1>9 DEF HandleConnectR, Ignored
<1>10. CASE HandleStartR(m)  BY <1>2, <1>5, <1>10 DEF HandleStartR, StartResponse, Ignored
<1>11. CASE HandleCreate(m)  BY <1>11 DEF HandleCreate
<1>12. CASE HandleStop(m)  BY <1>4, <1>12 DEF HandleStop, Ends, Ignored
<1>13. CASE HandleStart(m)
  <2>1. CASE Requestable(m) # "none"  BY <1>4, <1>13, <2>1 DEF HandleStart, Ends
  <2>2. CASE Requestable(m) = "none"
    <3>1. Known  BY <1>6, <2>2 DEF Requestable, Answered
    <3>2. fault' = "token" /\ xNeighborsTable[1].pcToken = Unset
      BY <1>13, <2>2, <3>1 DEF HandleStart, Ends
    <3> QED BY <3>1, <3>2 DEF Survival, Started
  <2> QED BY <2>1, <2>2
<1> QED BY <1>7, <1>8, <1>9, <1>10, <1>11, <1>12, <1>13 DEF HandleMessage

LEMMA InitSurvives ==
  ASSUME Survival, CdapTypeOK', UNCHANGED build, xN1PortId' \in {0, 1, 2}, fault' = "none",
         xN1PortId = 0 \/ xN1PortId' = xN1PortId,
         xN1PortId' # 0 => xN1PortId' = NextPort', EnrollmentInit(xN1PortId'), IInv'
  PROVE  Survival'
<1> USE CdapAssumption
<1>1. /\ xRibObjectTable \in Seq(ObjNames) /\ Len(xRibObjectTable) <= RibRows
      /\ xAppConnectionTable \in Seq(Rows1) /\ Len(xAppConnectionTable) <= ConnRows
  BY DEF Survival, IInv, CdapTypeOK, Rows1
<1>2. {"/difm/enr", "/difm/ops"} \subseteq Objects' /\ xRibObjectTable' # <<>>
  <2> DEFINE one == AddObject(xRibObjectTable, "/difm/enr")
             two == AddObject(one, "/difm/ops")
  <2>1. xRibObjectTable' = two  BY DEF EnrollmentInit
  <2>2. CASE xRibObjectTable = <<>>
    <3>0. "/difm/enr" \in ObjNames /\ "/difm/ops" \in ObjNames  BY DEF ObjNames
    <3>1. one = Append(xRibObjectTable, "/difm/enr") /\ Len(xRibObjectTable) = 0
      BY <2>2 DEF AddObject, AddRow
    <3> HIDE DEF one
    <3>2. one \in Seq(ObjNames) /\ Len(one) = 1 /\ one[1] = "/difm/enr"
      BY <1>1, <3>0, <3>1
    <3>4. two = Append(one, "/difm/ops")  BY <3>2 DEF AddObject, AddRow
    <3> HIDE DEF two
    <3>3. Len(two) = 2 /\ two[1] = "/difm/enr" /\ two[2] = "/difm/ops"  BY <3>0, <3>2, <3>4
    <3> QED BY <2>1, <3>3 DEF Objects
  <2>3. CASE {"/difm/enr", "/difm/ops"} \subseteq Objects
    <3>0. {"/difm/enr", "/difm/ops"} \subseteq ObjNames /\ RibRows \in Nat  BY DEF ObjNames
    <3>1. /\ one \in Seq(ObjNames) /\ Len(one) <= RibRows
          /\ Len(xRibObjectTable) <= Len(one)
          /\ \A i \in 1 .. Len(xRibObjectTable) : one[i] = xRibObjectTable[i]
      BY <1>1, <3>0, Added DEF AddObject
    <3> HIDE DEF one
    <3>2. /\ two \in Seq(ObjNames) /\ Len(one) <= Len(two)
          /\ \A i \in 1 .. Len(one) : two[i] = one[i]
      BY <3>0, <3>1, Added DEF AddObject
    <3> HIDE DEF two
    <3>3. /\ Len(xRibObjectTable) <= Len(two)
          /\ \A i \in 1 .. Len(xRibObjectTable) : two[i] = xRibObjectTable[i]
      BY <1>1, <3>1, <3>2
    <3>4. Objects \subseteq Objects'  BY <1>1, <2>1, <3>2, <3>3 DEF Objects
    <3>5. {"/difm/enr", "/difm/ops"} \subseteq Objects'  BY <2>3, <3>4
    <3>6. xRibObjectTable' = <<>> => Objects' = {}  BY DEF Objects
    <3> QED BY <3>5, <3>6
  <2> QED BY <2>2, <2>3 DEF Survival, Ready
<1>3. /\ \A i \in 1 .. Len(xAppConnectionTable') :
            /\ xAppConnectionTable'[i].xN1portId \in {0, xN1PortId'}
            /\ ~Known => xAppConnectionTable'[i].xStatus = "IN_PROGRESS"
      /\ connects => xAppConnectionTable' # <<>>
      /\ toPeer' \subseteq toPeer \cup {Connect}
      /\ ~connects => toPeer' = toPeer /\ xAppConnectionTable' = xAppConnectionTable
  <2>1. \A i \in 1 .. Len(xAppConnectionTable) :
            /\ xAppConnectionTable[i].xN1portId \in {0, xN1PortId'}
            /\ ~Known => xAppConnectionTable[i].xStatus = "IN_PROGRESS"
    BY DEF Survival, PortChosen, Started
  <2>2. CASE ~connects  BY <2>1, <2>2 DEF EnrollmentInit
  <2>3. CASE connects
    <3> DEFINE row == NewConnection(xN1PortId')
               more == AddRow(xAppConnectionTable, row, ConnRows)
    <3>1. row \in Rows1 /\ row.xN1portId = xN1PortId' /\ row.xStatus = "IN_PROGRESS"
      BY DEF NewConnection, Rows1
    <3>2. xAppConnectionTable' = more /\ toPeer' \subseteq toPeer \cup {Connect}
      BY <2>3 DEF EnrollmentInit, ConnectToIpcp
    <3> HIDE DEF row
    <3>3. /\ Len(more) <= Len(xAppConnectionTable) + 1
          /\ \A i \in 1 .. Len(xAppConnectionTable) : more[i] = xAppConnectionTable[i]
          /\ Len(more) = Len(xAppConnectionTable) + 1 => more[Len(xAppConnectionTable) + 1] = row
          /\ more \in Seq(Rows1)
      BY <1>1, <3>1, Added
    <3>4. more # <<>>  BY <1>1 DEF AddRow
    <3> HIDE DEF more
    <3>5. ASSUME NEW i \in 1 .. Len(more)
          PROVE  /\ more[i].xN1portId \in {0, xN1PortId'}
                 /\ ~Known => more[i].xStatus = "IN_PROGRESS"
      <4>1. CASE i \in 1 .. Len(xAppConnectionTable)  BY <2>1, <3>3, <4>1
      <4>2. CASE i \notin 1 .. Len(xAppConnectionTable)
        <5>1. i = Len(xAppConnectionTable) + 1 /\ Len(more) = i  BY <1>1, <3>3, <4>2
        <5> QED BY <3>1, <3>3, <5>1
      <4> QED BY <4>1, <4>2
    <3> QED BY <2>3, <3>2, <3>4, <3>5
  <2> QED BY <2>2, <2>3
<1>4. UNCHANGED <<xNeighborsTable, xPendingResponseHandlersTable, connects, shim, peerToken>>
  BY DEF EnrollmentInit, build
<1>5. Connect.op = "M_CONNECT"  BY DEF Connect, Encoded, Msg
<1>6. PortChosen'  BY <1>3 DEF PortChosen
<1>7. Ready'  BY <1>2, <1>3, <1>4 DEF Survival, Ready
<1>8. Started'  BY <1>3, <1>4, <1>5 DEF Survival, Started, Known, Handlers
<1>9. SurvivesPeer'  BY DEF SurvivesPeer
<1> QED BY <1>4, <1>6, <1>7, <1>8, <1>9 DEF Survival

LEMMA PduSurvives ==
  ASSUME Survival, IInv', UNCHANGED build, PduStep
  PROVE  Survival'
<1> USE CdapAssumption
<1>0. PICK m \in FromPeer : HandleMessage(m)  BY DEF PduStep, Handles
<1>1. /\ UNCHANGED <<connects, peerConnects, peerToken, shim>>
      /\ UNCHANGED <<appFirst, xN1PortId, pxN1Port, NextPort>>
      /\ fault = "none"
  BY DEF PduStep, build, NextPort
<1>2. /\ xAppConnectionTable \in Seq(Rows1) /\ xNeighborsTable \in Seq(Neighbors)
      /\ xRibObjectTable \in Seq(ObjNames) /\ Len(xRibObjectTable) <= RibRows
      /\ CdapTypeOK
  BY DEF Survival, IInv, CdapTypeOK, Rows1, Neighbors
<1>3. CASE Refuses
  <2>1. UNCHANGED <<tables, toPeer>>  BY <1>3 DEF Refuses, Ends
  <2>2. PortChosen' /\ Ready' /\ Started'
    BY <1>1, <2>1 DEF Survival, PortChosen, Ready, Started, Objects, Handlers, Known, tables
  <2>3. SurvivesPeer'
    <3> SUFFICES ASSUME connects', xN1PortId' = 1, Connections(0)' = {},
                        shim' = "802154" \/ ~peerConnects', fault' # "none"
                 PROVE  fault' = "name" \/ (fault' = "token" /\ ~peerToken')
      BY <1>1 DEF SurvivesPeer
    <3>1. Connections(0) = {}  BY <2>1 DEF Connections, tables
    <3> QED BY <1>0, <1>1, <3>1, Refusal DEF PduStep
  <2> QED BY <1>1, <2>2, <2>3 DEF Survival
<1>4. CASE ~Refuses
  <2>0. fault' = "none"
    <3>1. fault' = fault
      BY <1>0, <1>2, <1>4, Effects DEF Ignored, Joins, Creates, Stops, Operates
    <3> QED BY <1>1, <3>1
  <2>1. SurvivesPeer'  BY <2>0 DEF SurvivesPeer
  <2>2. CASE Ignored \/ Operates(m)
    <3>1. UNCHANGED tables  BY <2>2 DEF Ignored, Operates
    <3>2. toPeer' # {} => xAppConnectionTable # <<>>
      <4>1. toPeer' = toPeer \/ Answered  BY <2>2 DEF Ignored, Operates
      <4> QED BY <4>1 DEF Survival, Ready, Answered, Connections
    <3>3. \A n \in toPeer' : n.op = "M_START" => n \in toPeer
      <4>1. CASE Ignored  BY <4>1 DEF Ignored
      <4>2. CASE Operates(m)  BY <4>2 DEF Operates, Sends, Msg
      <4> QED BY <2>2, <4>1, <4>2
    <3>4. PortChosen'  BY <1>1, <3>1 DEF Survival, PortChosen, tables
    <3>5. Ready'  BY <1>1, <3>1, <3>2 DEF Survival, Ready, Objects, tables
    <3>6. Started'  BY <1>1, <3>1, <3>3 DEF Survival, Started, Handlers, Known, tables
    <3> QED BY <1>1, <2>1, <3>4, <3>5, <3>6 DEF Survival
  <2>3. CASE Creates(m)
    <3>1. UNCHANGED <<xAppConnectionTable, xPendingResponseHandlersTable, xNeighborsTable, toPeer>>
      BY <2>3 DEF Creates
    <3>2. toPeer # {}  BY <2>3, Asked DEF Creates
    <3>3. {"/difm/enr", "/difm/ops"} \subseteq Objects  BY <3>2 DEF Survival, Ready
    <3>4. /\ "other" \in ObjNames
          /\ xRibObjectTable' = AddRow(xRibObjectTable, "other", RibRows)
      BY <2>3 DEF Creates, AddObject, ObjNames
    <3>5. /\ xRibObjectTable' \in Seq(ObjNames)
          /\ Len(xRibObjectTable) <= Len(xRibObjectTable')
          /\ \A i \in 1 .. Len(xRibObjectTable) : xRibObjectTable'[i] = xRibObjectTable[i]
      <4> DEFINE more == AddRow(xRibObjectTable, "other", RibRows)
      <4>1. /\ more \in Seq(ObjNames) /\ Len(xRibObjectTable) <= Len(more)
            /\ \A i \in 1 .. Len(xRibObjectTable) : more[i] = xRibObjectTable[i]
        BY <1>2, <3>4, Added
      <4> HIDE DEF more
      <4>2. xRibObjectTable' = more  BY <3>4 DEF more
      <4> QED BY <4>1, <4>2
    <3>6. Objects \subseteq Objects'  BY <1>2, <3>5 DEF Objects
    <3>7. xRibObjectTable' = <<>> => Objects' = {}  BY DEF Objects
    <3>8. PortChosen'  BY <1>1, <3>1 DEF Survival, PortChosen
    <3>9. Ready'  BY <1>1, <3>1, <3>3, <3>6, <3>7 DEF Survival, Ready
    <3>10. Started'  BY <1>1, <3>1 DEF Survival, Started, Handlers, Known
    <3> QED BY <1>1, <2>1, <3>8, <3>9, <3>10 DEF Survival
  <2>4. CASE Joins
    <3> DEFINE start == FillEnrollMsg("M_START", "/difm/enr", EnrollmentEncode)
    <3>1. /\ toPeer' \subseteq toPeer \cup {start}
          /\ xPendingResponseHandlersTable' =
               AddRow(xPendingResponseHandlersTable, invoke_id, HandlerRows)
          /\ UNCHANGED xRibObjectTable
          /\ Connections(RxPort) # {} /\ Status(RxPort) = "IN_PROGRESS"
      BY <2>4 DEF Joins, EnrolNeighbor, SendStart, Send, AddResponseHandler
    <3>2. start.invokeID = invoke_id  BY DEF FillEnrollMsg, Encoded, Msg
    <3> HIDE DEF start
    <3>3. ~Known /\ \A n \in toPeer : n.op # "M_START"
      BY <3>1 DEF Survival, IInv, Joined, Answered
    <3>4. invoke_id \in Handlers'
      <4>1. xPendingResponseHandlersTable = <<>>  BY <3>3 DEF Survival, Started
      <4>2. xPendingResponseHandlersTable' = <<invoke_id>>  BY <3>1, <4>1 DEF AddRow
      <4>3. Len(xPendingResponseHandlersTable') = 1 /\ xPendingResponseHandlersTable'[1] = invoke_id
        BY <4>2
      <4> QED BY <4>3 DEF Handlers
    <3>5. xNeighborsTable' # <<>> /\ xNeighborsTable'[1].pcToken = NULL
      <4>1. xNeighborsTable = <<>>  BY <3>3 DEF Known
      <4>2. AddNeighborEntry(xNeighborsTable, NeighInfo) = <<NeighInfo>>
        BY <4>1 DEF AddNeighborEntry, AddRow
      <4>3. xNeighborsTable' =
              [<<NeighInfo>> EXCEPT ![1] =
                 [NeighInfo EXCEPT !.eEnrollmentState = "eENROLLMENT_IN_PROGRESS"]]
        BY <2>4, <3>3, <4>2 DEF Joins, EnrolNeighbor
      <4>4. /\ xNeighborsTable'[1] = [NeighInfo EXCEPT !.eEnrollmentState = "eENROLLMENT_IN_PROGRESS"]
            /\ xNeighborsTable' # <<>>
        BY <4>3
      <4> QED BY <4>4 DEF NeighInfo
    <3>6. /\ Len(xAppConnectionTable') = Len(xAppConnectionTable)
          /\ xAppConnectionTable' # <<>>
          /\ \A i \in 1 .. Len(xAppConnectionTable) :
                xAppConnectionTable'[i].xN1portId = xAppConnectionTable[i].xN1portId
      <4>1. Found(RxPort) \in 1 .. Len(xAppConnectionTable)  BY <1>2, <3>1, FoundRow
      <4>2. xAppConnectionTable' =
              [xAppConnectionTable EXCEPT
                 ![Found(RxPort)] = [xAppConnectionTable[Found(RxPort)] EXCEPT !.xStatus = "CONNECTED"]]
        BY <2>4 DEF Joins
      <4>3. xAppConnectionTable[Found(RxPort)] \in Rows1  BY <1>2, <4>1
      <4> QED BY <1>2, <4>1, <4>2, <4>3 DEF Rows1
    <3>7. xAppConnectionTable # <<>>  BY <3>1 DEF Connections
    <3>8. PortChosen'  BY <1>1, <3>6 DEF Survival, PortChosen
    <3>9. Ready'  BY <1>1, <3>1, <3>6, <3>7 DEF Survival, Ready, Objects
    <3>10. Started'  BY <3>1, <3>2, <3>3, <3>4, <3>5 DEF Started, Known, NULL, Missing, Unset
    <3> QED BY <1>1, <2>1, <3>8, <3>9, <3>10 DEF Survival
  <2>5. CASE Stops(m)
    <3>1. /\ UNCHANGED <<xRibObjectTable, xAppConnectionTable, xPendingResponseHandlersTable>>
          /\ Answered /\ Known /\ m.op = "M_STOP"
      BY <2>5 DEF Stops
    <3>2. \A n \in toPeer' : n.op = "M_START" => n \in toPeer
      BY <2>5 DEF Stops, Sends, Msg
    <3>3. xNeighborsTable' # <<>> /\ xNeighborsTable'[1].pcToken = EnrollmentDecode(m.objValue)
      <4>1. 1 \in 1 .. Len(xNeighborsTable)  BY <1>2, <3>1 DEF Known
      <4>2. /\ xNeighborsTable'[1] = [eEnrollmentState |-> "eENROLLED",
                                      pcToken |-> EnrollmentDecode(m.objValue)]
            /\ Len(xNeighborsTable') = Len(xNeighborsTable)
        BY <1>2, <2>5, <4>1 DEF Stops
      <4> QED BY <1>2, <4>1, <4>2
    <3>4. EnrollmentDecode(m.objValue) = Unset => ~peerToken
      BY <3>1, Asked DEF EnrollmentDecode, Unset
    <3>5. xAppConnectionTable # <<>>  BY <3>1 DEF Answered, Connections
    <3>6. PortChosen'  BY <1>1, <3>1 DEF Survival, PortChosen
    <3>7. Ready'  BY <1>1, <3>1, <3>5 DEF Survival, Ready, Objects
    <3>8. Started'  BY <1>1, <3>1, <3>2, <3>3, <3>4 DEF Survival, Started, Known, Handlers
    <3> QED BY <1>1, <2>1, <3>6, <3>7, <3>8 DEF Survival
  <2> QED BY <1>0, <1>2, <1>4, <2>2, <2>3, <2>4, <2>5, Effects
<1> QED BY <1>3, <1>4

LEMMA SurvivalInductive == ASSUME Survival, [Next]_vars PROVE Survival'
<1>1. shim \in {"802154", "wifi"} /\ IInv  BY DEF Survival
<1>2. IInv' /\ CdapTypeOK' /\ xN1PortId' \in {0, 1, 2}
  BY <1>1, Inductive DEF IInv
<1>3. UNCHANGED build  BY <1>1, PortSteps
<1>4. CASE EnrolledStep
  <2>1. /\ xN1PortId' = NextPort' /\ xN1PortId' = NextPort /\ fault' = "none"
        /\ xN1PortId = 0 \/ xN1PortId' = xN1PortId
    BY <1>4 DEF EnrolledStep, NextPort, Survival, PortChosen
  <2>2. CASE EnrollmentInit(NextPort)  BY <1>2, <1>3, <2>1, <2>2, InitSurvives
  <2>3. CASE shim = "wifi" /\ UNCHANGED cdapVars
    <3>1. UNCHANGED <<tables, toPeer, shim, connects, peerToken>>  BY <1>3, <2>3 DEF cdapVars, build
    <3>2. PortChosen'  BY <2>1, <3>1 DEF Survival, PortChosen, tables
    <3>3. Ready'  BY <2>3, <3>1 DEF Survival, Ready, Objects, tables
    <3>4. Started'  BY <3>1 DEF Survival, Started, Known, Handlers, tables
    <3>5. SurvivesPeer'  BY <2>1 DEF SurvivesPeer
    <3> QED BY <1>1, <1>2, <3>1, <3>2, <3>3, <3>4, <3>5 DEF Survival
  <2> QED BY <1>4, <2>2, <2>3 DEF EnrolledStep
<1>5. CASE AllocatedStep
  <2>1. UNCHANGED <<xN1PortId, NextPort>> /\ fault' = "none" /\ EnrollmentInit(xN1PortId)
    BY <1>5 DEF AllocatedStep, NextPort
  <2>2. xN1PortId' # 0 => xN1PortId' = NextPort'  BY <2>1 DEF Survival, PortChosen
  <2>3. EnrollmentInit(xN1PortId')  BY <2>1
  <2> QED BY <1>2, <1>3, <2>1, <2>2, <2>3, InitSurvives
<1>6. CASE PduStep  BY <1>2, <1>3, <1>6, PduSurvives
<1>7. CASE OtherStep
  <2>1. UNCHANGED <<tables, toPeer, xN1PortId, shim, connects, peerConnects, peerToken>>
    BY <1>3, <1>7 DEF OtherStep, cdapVars, build
  <2>2. PortChosen'  BY <1>7, <2>1 DEF OtherStep, Survival, PortChosen, NextPort, tables
  <2>3. Ready'  BY <1>7, <2>1 DEF OtherStep, Survival, Ready, Objects, tables
  <2>4. Started'  BY <2>1 DEF Survival, Started, Known, Handlers, tables
  <2>5. SurvivesPeer'
    <3>1. Connections(0)' = Connections(0)  BY <2>1 DEF Connections, tables
    <3>2. fault' = fault \/ fault' = "port"  BY <1>7 DEF OtherStep
    <3> QED BY <2>1, <3>1, <3>2 DEF Survival, SurvivesPeer
  <2> QED BY <1>1, <1>2, <2>1, <2>2, <2>3, <2>4, <2>5 DEF Survival
<1> QED BY <1>1, <1>4, <1>5, <1>6, <1>7, PortSteps

LEMMA SurvivalInitially == Init => Survival
<1> SUFFICES ASSUME Init PROVE Survival  OBVIOUS
<1>1. CdapInit /\ xN1PortId = 0 /\ shim \in {"802154", "wifi"} /\ RmtCreate
  BY DEF Init, ManagerInit, ShimInit
<1>2. IInv  BY Initially
<1>3. /\ xRibObjectTable = <<>> /\ xAppConnectionTable = <<>> /\ toPeer = {} /\ fault = "none"
      /\ xPendingResponseHandlersTable = <<>> /\ xNeighborsTable = <<>>
  BY <1>1 DEF CdapInit
<1> QED BY <1>1, <1>2, <1>3 DEF Survival, PortChosen, Ready, Started, SurvivesPeer, Known, RmtCreate

LEMMA SurvivalInvariant == Spec => []Survival
BY SurvivalInitially, SurvivalInductive, PTL DEF Spec

(* No message of the peer, in whatever order and however often it comes,   *)
(* makes ribd.c or enrollment.c use a connection, an object, a callback or *)
(* a neighbour that is not there, whatever the size of the tables.         *)
THEOREM PeerSurvived == Spec => []SurvivesPeer
<1>1. Survival => SurvivesPeer  BY DEF Survival
<1> QED BY <1>1, SurvivalInvariant, PTL

-----------------------------------------------------------------------------
(* The shim's flow and the cache of addresses                              *)
Queued(e) == \E i \in 1 .. Len(xStackEventQueue) : xStackEventQueue[i] = e
Events == {"enrolled", "allocated"}
ShimFlow == [port : Nat, ePortIdState : {"eNULL", "ePENDING", "eALLOCATED"},
             pxDestHa : Macs \cup {NoMac}]

(* The normal IPCP registers once, and asks for the flow when it has.      *)
RegisteredOnce ==
  /\ xStackEventQueue \in Seq(Events)
  /\ pc # "done" => registered = "no" /\ ~Queued("enrolled")
  /\ Queued("enrolled") => registered = "no"
  /\ \A i, j \in 1 .. Len(xStackEventQueue) :
        xStackEventQueue[i] = "enrolled" /\ xStackEventQueue[j] = "enrolled" => i = j
  /\ registered = "no" => xShimFlow = NoFlow /\ Strange(xARPCache)

CacheInv ==
  /\ Shaped(xARPCache)
  /\ Invalid(xARPCache) # {} => Good(xARPCache)
  /\ FromReplies(xARPCache, answered)

FlowInv ==
  /\ registered \in {"no", "yes", "failed"} /\ answered \subseteq Hosts
  /\ xShimFlow \in ShimFlow
  /\ shim = "wifi" /\ Allocated =>
       /\ answered # {}
       /\ answered = {Peer} /\ Invalid(xARPCache) # {} => xShimFlow.pxDestHa \in MacsOf(Peer)

AddressInv == RegisteredOnce /\ CacheInv /\ FlowInv

EnrolStep ==
  /\ pc # "done" /\ pc' # "done"
  /\ xARPCache' \in {xARPCache, InitCache}
  /\ UNCHANGED <<xStackEventQueue, registered, xShimFlow, answered>>

SendStep ==
  /\ pc # "done" /\ pc' = "done"
  /\ xStackEventQueue' = Append(xStackEventQueue, "enrolled")
  /\ UNCHANGED shimVars

RegisterStep ==
  /\ pc' = pc
  /\ xStackEventQueue # <<>> /\ Head(xStackEventQueue) = "enrolled"
  /\ xStackEventQueue' = Tail(xStackEventQueue)
  /\ \E memory \in BOOLEAN : ApplicationRegister(memory)
  /\ UNCHANGED answered
  /\ \/ UNCHANGED xShimFlow
     \/ \E port \in 1 .. 2 : LET f == Requested(xShimFlow, port) IN
          IF shim = "wifi" THEN xShimFlow' = f ELSE xShimFlow' = Responded(f, port, xARPCache)

ArpStep ==
  /\ pc' = pc /\ shim = "wifi"
  /\ xStackEventQueue' \in {xStackEventQueue, Append(xStackEventQueue, "allocated")}
  /\ \E op \in {"ARP_REQUEST", "ARP_REPLY"}, h \in Hosts, k \in {1, 2} : EthernetPacket(op, h, k)

QuietStep ==
  /\ pc' = pc
  /\ xStackEventQueue' = xStackEventQueue
     \/ (xStackEventQueue # <<>> /\ xStackEventQueue' = Tail(xStackEventQueue))
  /\ UNCHANGED <<registered, xARPCache, xShimFlow, answered>>

LEMMA ShimSteps ==
  ASSUME [Next]_vars
  PROVE  UNCHANGED shim /\ (EnrolStep \/ SendStep \/ RegisterStep \/ ArpStep \/ QuietStep)
<1> USE DEF build, stack, shimVars, managerVars
<1>1. CASE UNCHANGED vars  BY <1>1 DEF vars, QuietStep
<1>2. CASE CreateStack
  BY <1>2 DEF CreateStack, CreateNormal, IpcpInit, RsQueueCreate, CreateThread, CreateShim,
              StartTask, EnrolStep, QuietStep
<1>3. CASE EnrollToDIF802154 \/ EnrollToDIF \/ Connected \/ EnrollToDIFTap \/ ConnectTap
  BY <1>3 DEF EnrollToDIF802154, EnrollToDIF, Connected, EnrollToDIFTap, ConnectTap, At, GoesTo,
              EnrolStep
<1>4. CASE SendEvent
  BY <1>4 DEF SendEvent, SendEnrolled, At, SendStep, EnrolStep
<1>5. CASE WifiEvent \/ TapStep \/ TakePort
  BY <1>5 DEF WifiEvent, TapStep, TakePort, QuietStep
<1>6. CASE NotRegistered
  BY <1>6 DEF NotRegistered, Handling, Registering, RegisterStep
<1>7. CASE EnrolledEvent
  <2>1. NextPort \in 1 .. 2  BY DEF NextPort
  <2>2. LET f == Requested(xShimFlow, NextPort) IN
          IF shim = "wifi" THEN xShimFlow' = f ELSE xShimFlow' = Responded(f, NextPort, xARPCache)
    BY <1>7 DEF EnrolledEvent, FlowRequest, AllocateRequest
  <2> QED BY <1>7, <2>1, <2>2 DEF EnrolledEvent, Handling, Registering, RegisterStep
<1>8. CASE NoN1Port \/ NotAllocated \/ AllocatedEvent
  BY <1>8 DEF NoN1Port, NotAllocated, AllocatedEvent, Handling, QuietStep
<1>9. CASE \E op \in {"ARP_REQUEST", "ARP_REPLY"}, h \in Hosts, k \in {1, 2} :
              ArpPacket(op, h, k)
  BY <1>9 DEF ArpPacket, ArpStep
<1>10. CASE \E m \in FromPeer : ManagementPdu(m)
  BY <1>10 DEF ManagementPdu, QuietStep
<1> QED BY <1>1, <1>2, <1>3, <1>4, <1>5, <1>6, <1>7, <1>8, <1>9, <1>10 DEF Next, Manager, Event

LEMMA CacheRegistered ==
  ASSUME NEW c, Shaped(c), Strange(c), Invalid(c) # {} => Good(c), NEW hosts, FromReplies(c, hosts),
         NEW S, NEW r, r = Registered(c, S)
  PROVE  Shaped(r) /\ (Invalid(r) # {} => Good(r)) /\ FromReplies(r, hosts)
<1>1. PICK one : one = ARPAdd(c, App)  OBVIOUS
<1>2. /\ Shaped(one) /\ FromReplies(one, hosts)
      /\ Good(c) => Good(one)
      /\ Invalid(c) = {} => one = c
  BY <1>1, OwnAdded
<1>3. r = ARPAdd(one, Daf) \/ r = ARPRemove(one, App)  BY <1>1 DEF Registered
<1>4. CASE r = ARPAdd(one, Daf)
  <2>1. /\ Shaped(r) /\ FromReplies(r, hosts)
        /\ Good(one) => Good(r)
        /\ Invalid(one) = {} => r = one
    BY <1>2, <1>4, OwnAdded
  <2> QED BY <1>2, <2>1
<1>5. CASE r = ARPRemove(one, App)
  <2>1. /\ Shaped(r) /\ FromReplies(r, hosts)
        /\ Good(one) => Good(r)
        /\ Strange(one) => r = one
    BY <1>2, <1>5, AppRemoved
  <2> QED BY <1>2, <2>1
<1> QED BY <1>3, <1>4, <1>5

LEMMA FlowTyped ==
  ASSUME NEW f \in ShimFlow, NEW port \in Nat, Shaped(xARPCache), FromReplies(xARPCache, answered)
  PROVE  /\ Requested(f, port) \in ShimFlow
         /\ Responded(f, port, xARPCache) \in ShimFlow
         /\ NoFlow \in ShimFlow
<1>1. LookupGHA(xARPCache) \in Macs \cup {NoMac}  BY LookedUp
<1>2. PeerMac \in Macs  BY ArpAssumption, Name DEF PeerMac
<1> QED BY <1>1, <1>2 DEF Requested, Responded, NoFlow, ShimFlow

LEMMA AddressInitially == Init => AddressInv
<1> SUFFICES ASSUME Init PROVE AddressInv  OBVIOUS
<1>1. /\ ShimInit /\ pc = "init" /\ xStackEventQueue = <<>>
  BY DEF Init, ManagerInit
<1>2. RegisteredOnce  BY <1>1, InitShaped DEF RegisteredOnce, Queued, ShimInit
<1>3. CacheInv  BY <1>1, InitShaped DEF CacheInv, ShimInit
<1>4. FlowInv  BY <1>1 DEF FlowInv, ShimInit, NoFlow, ShimFlow, Allocated
<1> QED BY <1>2, <1>3, <1>4 DEF AddressInv

LEMMA AddressInductive == ASSUME AddressInv, [Next]_vars PROVE AddressInv'
<1>0. /\ xStackEventQueue \in Seq(Events) /\ UNCHANGED shim
      /\ Shaped(xARPCache) /\ FromReplies(xARPCache, answered)
      /\ xShimFlow \in ShimFlow
  BY ShimSteps DEF AddressInv, RegisteredOnce, CacheInv, FlowInv
<1>1. CASE EnrolStep
  <2>1. /\ registered = "no" /\ xShimFlow = NoFlow /\ xShimFlow.ePortIdState = "eNULL"
        /\ Strange(xARPCache)
    BY <1>1 DEF EnrolStep, AddressInv, RegisteredOnce, NoFlow
  <2>2. RegisteredOnce'
    BY <1>1, <2>1, InitShaped DEF EnrolStep, AddressInv, RegisteredOnce, Queued
  <2>3. CacheInv'  BY <1>1, InitShaped DEF EnrolStep, AddressInv, CacheInv
  <2>4. FlowInv'  BY <1>1, <2>1 DEF EnrolStep, AddressInv, FlowInv, Allocated
  <2> QED BY <2>2, <2>3, <2>4 DEF AddressInv
<1>2. CASE SendStep
  <2>1. registered = "no" /\ ~Queued("enrolled")  BY <1>2 DEF SendStep, AddressInv, RegisteredOnce
  <2>2. UNCHANGED <<registered, xARPCache, xShimFlow, answered>>  BY <1>2 DEF SendStep, shimVars
  <2>3. RegisteredOnce'
    <3>1. /\ xStackEventQueue' \in Seq(Events)
          /\ Len(xStackEventQueue') = Len(xStackEventQueue) + 1
          /\ \A i \in 1 .. Len(xStackEventQueue) : xStackEventQueue'[i] # "enrolled"
      BY <1>0, <1>2, <2>1 DEF SendStep, Events, Queued
    <3>2. \A i, j \in 1 .. Len(xStackEventQueue') :
            xStackEventQueue'[i] = "enrolled" /\ xStackEventQueue'[j] = "enrolled" => i = j
      BY <1>0, <3>1
    <3> QED BY <1>2, <2>1, <2>2, <3>1, <3>2 DEF SendStep, AddressInv, RegisteredOnce
  <2>4. CacheInv' /\ FlowInv'
    BY <1>0, <2>2 DEF AddressInv, CacheInv, FlowInv, Allocated
  <2> QED BY <2>3, <2>4 DEF AddressInv
<1>3. CASE RegisterStep
  <2>1. /\ registered = "no" /\ pc = "done" /\ xShimFlow = NoFlow /\ Strange(xARPCache)
    <3>1. Queued("enrolled")  BY <1>0, <1>3 DEF RegisterStep, Queued
    <3> QED BY <3>1 DEF AddressInv, RegisteredOnce
  <2>2. /\ registered' \in {"yes", "failed"} /\ UNCHANGED answered
        /\ xARPCache' = xARPCache \/ \E S : xARPCache' = Registered(xARPCache, S)
    BY <1>3 DEF RegisterStep, ApplicationRegister
  <2>3. RegisteredOnce'
    <3> DEFINE q == xStackEventQueue
               n == Len(q)
    <3>1. /\ q[1] = "enrolled" /\ 1 \in 1 .. n /\ n \in Nat
          /\ xStackEventQueue' \in Seq(Events)
          /\ Len(xStackEventQueue') = n - 1
          /\ \A i \in 1 .. n - 1 : xStackEventQueue'[i] = q[i + 1]
      BY <1>0, <1>3 DEF RegisterStep
    <3>2. \A i \in 1 .. n - 1 : q[i + 1] # "enrolled"
      BY <3>1 DEF AddressInv, RegisteredOnce
    <3> HIDE DEF n, q
    <3>3. ~Queued("enrolled")'  BY <3>1, <3>2 DEF Queued
    <3>4. pc' = "done"  BY <1>3, <2>1 DEF RegisterStep
    <3> QED BY <2>2, <3>1, <3>2, <3>3, <3>4 DEF RegisteredOnce
  <2>4. CacheInv'
    <3>1. CASE xARPCache' = xARPCache  BY <2>2, <3>1 DEF AddressInv, CacheInv
    <3>2. ASSUME NEW S, xARPCache' = Registered(xARPCache, S) PROVE CacheInv'
      BY <2>1, <2>2, <3>2, CacheRegistered DEF AddressInv, CacheInv
    <3> QED BY <2>2, <3>1, <3>2
  <2>5. FlowInv'
    <3>1. xShimFlow' \in ShimFlow
      <4>1. ASSUME NEW port \in 1 .. 2
            PROVE  LET f == Requested(xShimFlow, port) IN
                   f \in ShimFlow /\ Responded(f, port, xARPCache) \in ShimFlow
        BY <1>0, FlowTyped
      <4> QED BY <1>0, <1>3, <4>1 DEF RegisterStep
    <3>2. shim = "wifi" => xShimFlow'.ePortIdState # "eALLOCATED"
      <4>1. NoFlow.ePortIdState = "eNULL"  BY DEF NoFlow
      <4>2. ASSUME NEW port \in 1 .. 2
            PROVE  Requested(NoFlow, port).ePortIdState # "eALLOCATED"
        BY DEF Requested, Listed, NoFlow
      <4>3. shim = "wifi" =>
              xShimFlow' = NoFlow \/ \E port \in 1 .. 2 : xShimFlow' = Requested(NoFlow, port)
        BY <1>3, <2>1 DEF RegisterStep
      <4> QED BY <4>1, <4>2, <4>3
    <3> QED BY <1>0, <2>2, <3>1, <3>2 DEF AddressInv, FlowInv, Allocated
  <2> QED BY <2>3, <2>4, <2>5 DEF AddressInv
<1>4. CASE ArpStep
  <2>0. PICK op \in {"ARP_REQUEST", "ARP_REPLY"}, h \in Hosts, k \in {1, 2} : EthernetPacket(op, h, k)
    BY <1>4 DEF ArpStep
  <2>1. UNCHANGED registered
        /\ xARPCache' = ProcessPacket(xARPCache, op, h, <<h, k>>)
        /\ (op = "ARP_REQUEST" => UNCHANGED <<xShimFlow, answered>>)
        /\ (op = "ARP_REPLY" => /\ xShimFlow' = Responded(xShimFlow, 1, xARPCache')
                               /\ answered' = answered \cup {h})
    BY <2>0 DEF EthernetPacket
  <2>2. /\ Shaped(xARPCache') /\ FromReplies(xARPCache', answered')
        /\ Invalid(xARPCache') \subseteq Invalid(xARPCache)
        /\ Invalid(xARPCache) # {} /\ Good(xARPCache) => Good(xARPCache')
        /\ Strange(xARPCache) => Strange(xARPCache')
        /\ op = "ARP_REPLY" /\ Invalid(xARPCache) # {} => \E i \in Rows : xARPCache'.row[i].ucAge = 3
    <3>1. CASE op = "ARP_REPLY"
      <4>1. xARPCache' = AddCacheEntry(xARPCache, h, NullCell, <<h, k>>, 3)
        BY <2>1, <3>1 DEF ProcessPacket
      <4>2. PICK c : c = xARPCache  OBVIOUS
      <4>4. PICK r : r = AddCacheEntry(c, h, NullCell, <<h, k>>, 3)  OBVIOUS
      <4>5. Shaped(c) /\ FromReplies(c, answered)  BY <1>0, <4>2
      <4>6. /\ Shaped(r) /\ Invalid(r) \subseteq Invalid(c)
            /\ Good(c) => Good(r)
            /\ FromReplies(r, answered \cup {h})
            /\ Strange(c) => Strange(r)
            /\ Invalid(c) # {} => \E i \in Rows : r.row[i].ucAge = 3
        BY <4>4, <4>5, ReplyAdded
      <4>7. r = xARPCache'  BY <4>1, <4>2, <4>4
      <4>3. answered' = answered \cup {h}  BY <2>1, <3>1
      <4> QED BY <4>2, <4>3, <4>6, <4>7
    <3>2. CASE op = "ARP_REQUEST"
      <4>1. CASE xARPCache' = xARPCache  BY <1>0, <2>1, <3>2, <4>1
      <4>2. CASE xARPCache' = RefreshCacheEntry(xARPCache, h, <<h, k>>)
        BY <1>0, <2>1, <3>2, <4>2, RefreshKept
      <4> QED BY <2>1, <3>2, <4>1, <4>2 DEF ProcessPacket
    <3> QED BY <3>1, <3>2
  <2>3. CacheInv'  BY <2>2 DEF AddressInv, CacheInv
  <2>4. RegisteredOnce'
    <3>1. /\ xStackEventQueue' \in Seq(Events)
          /\ Queued("enrolled")' => Queued("enrolled")
          /\ \A i, j \in 1 .. Len(xStackEventQueue') :
               xStackEventQueue'[i] = "enrolled" /\ xStackEventQueue'[j] = "enrolled" => i = j
      <4>1. CASE xStackEventQueue' = xStackEventQueue
        BY <1>0, <4>1 DEF AddressInv, RegisteredOnce, Queued
      <4>2. CASE xStackEventQueue' = Append(xStackEventQueue, "allocated")
        <5>1. /\ xStackEventQueue' \in Seq(Events)
              /\ \A i \in 1 .. Len(xStackEventQueue') : xStackEventQueue'[i] = "enrolled" =>
                    i \in 1 .. Len(xStackEventQueue) /\ xStackEventQueue[i] = "enrolled"
          BY <1>0, <4>2 DEF Events
        <5> QED BY <5>1 DEF AddressInv, RegisteredOnce, Queued
      <4> QED BY <1>4, <4>1, <4>2 DEF ArpStep
    <3>2. registered = "no" => xShimFlow' = NoFlow
      <4>1. Responded(NoFlow, 1, xARPCache') = NoFlow
        BY DEF Responded, Answerable, Listed, NoFlow
      <4> QED BY <2>1, <4>1 DEF AddressInv, RegisteredOnce
    <3> QED BY <1>4, <2>1, <2>2, <3>1, <3>2 DEF ArpStep, AddressInv, RegisteredOnce
  <2>5. FlowInv'
    <3>0. /\ answered' \subseteq Hosts /\ answered \subseteq answered'
          /\ registered' \in {"no", "yes", "failed"}
      BY <2>1 DEF AddressInv, FlowInv
    <3>1. CASE UNCHANGED xShimFlow
      <4>1. answered # {} /\ answered' = {Peer} => answered = {Peer}  BY <3>0
      <4> QED BY <1>0, <2>2, <3>0, <3>1, <4>1 DEF AddressInv, FlowInv, Allocated
    <3>2. CASE /\ op = "ARP_REPLY"
               /\ xShimFlow' = [xShimFlow EXCEPT !.ePortIdState = "eALLOCATED",
                                                 !.pxDestHa = LookupGHA(xARPCache')]
      <4>1. LookupGHA(xARPCache') \in Macs \cup {NoMac}  BY <2>2, LookedUp
      <4>2. xShimFlow' \in ShimFlow /\ xShimFlow'.pxDestHa = LookupGHA(xARPCache')
        BY <1>0, <3>2, <4>1 DEF ShimFlow
      <4>3. answered' # {}  BY <2>1, <3>2
      <4>4. ASSUME answered' = {Peer}, Invalid(xARPCache') # {}
            PROVE  LookupGHA(xARPCache') \in MacsOf(Peer)
        <5>1. Good(xARPCache') /\ \E i \in Rows : xARPCache'.row[i].ucAge = 3
          BY <2>2, <3>2, <4>4 DEF AddressInv, CacheInv
        <5>2. \E g \in answered' : LookupGHA(xARPCache') \in MacsOf(g)  BY <2>2, <5>1, LookedUp
        <5> QED BY <4>4, <5>2
      <4> QED BY <3>0, <4>2, <4>3, <4>4 DEF FlowInv
    <3>3. UNCHANGED xShimFlow \/
          (/\ op = "ARP_REPLY"
           /\ xShimFlow' = [xShimFlow EXCEPT !.ePortIdState = "eALLOCATED",
                                             !.pxDestHa = LookupGHA(xARPCache')])
      BY <1>4, <2>1 DEF ArpStep, Responded
    <3> QED BY <3>1, <3>2, <3>3
  <2> QED BY <2>3, <2>4, <2>5 DEF AddressInv
<1>5. CASE QuietStep
  <2>1. UNCHANGED <<registered, xARPCache, xShimFlow, answered, pc>>  BY <1>5 DEF QuietStep
  <2>2. RegisteredOnce'
    <3>1. /\ xStackEventQueue' \in Seq(Events)
          /\ Queued("enrolled")' => Queued("enrolled")
          /\ \A i, j \in 1 .. Len(xStackEventQueue') :
               xStackEventQueue'[i] = "enrolled" /\ xStackEventQueue'[j] = "enrolled" => i = j
      <4>1. CASE xStackEventQueue' = xStackEventQueue
        BY <1>0, <4>1 DEF AddressInv, RegisteredOnce, Queued
      <4>2. CASE xStackEventQueue # <<>> /\ xStackEventQueue' = Tail(xStackEventQueue)
        <5>1. /\ xStackEventQueue' \in Seq(Events)
              /\ \A i \in 1 .. Len(xStackEventQueue') :
                    i + 1 \in 1 .. Len(xStackEventQueue) /\
                    xStackEventQueue'[i] = xStackEventQueue[i + 1]
          BY <1>0, <4>2
        <5>2. Queued("enrolled")' => Queued("enrolled")  BY <5>1 DEF Queued
        <5>3. ASSUME NEW i \in 1 .. Len(xStackEventQueue'), NEW j \in 1 .. Len(xStackEventQueue'),
                     xStackEventQueue'[i] = "enrolled", xStackEventQueue'[j] = "enrolled"
              PROVE  i = j
          <6>1. i + 1 = j + 1  BY <5>1, <5>3 DEF AddressInv, RegisteredOnce
          <6> QED BY <6>1
        <5> QED BY <5>1, <5>2, <5>3
      <4> QED BY <1>5, <4>1, <4>2 DEF QuietStep
    <3> QED BY <2>1, <3>1 DEF AddressInv, RegisteredOnce
  <2>3. CacheInv' /\ FlowInv'
    BY <1>0, <2>1 DEF AddressInv, CacheInv, FlowInv, Allocated
  <2> QED BY <2>2, <2>3 DEF AddressInv
<1> QED BY <1>1, <1>2, <1>3, <1>4, <1>5, ShimSteps

LEMMA AddressInvariant == Spec => []AddressInv
BY AddressInitially, AddressInductive, PTL DEF Spec

(* A row that is not on the shared cell bears an address of its host, in   *)
(* whatever order replies, requests and registrations reach vARPAdd and    *)
(* vARPRefreshCacheEntry, until the table is full.                         *)
THEOREM CacheAgrees == Spec => []AddressesAgree
<1>1. AddressInv => AddressesAgree
  BY DEF AddressInv, CacheInv, Good, AddressesAgree, Agrees
<1> QED BY <1>1, AddressInvariant, PTL

(* pxARPLookupGHA ignores the name it is given, yet finds the peer while   *)
(* no other host has answered and the table has room.                      *)
THEOREM PeerAddressed == Spec => []DestinationAnswered
<1>1. AddressInv => DestinationAnswered
  BY DEF AddressInv, FlowInv, DestinationAnswered, Allocated
<1> QED BY <1>1, AddressInvariant, PTL

-----------------------------------------------------------------------------
(* The variables of the manager, the WiFi driver and the IPCP task; those  *)
(* of the others have their types in the invariants above.                 *)
ShimOwn == pxN1Port \in {"unset", "null", "allocated"} /\ asked \in BOOLEAN
TaskOwn == appFirst \in BOOLEAN /\ arpPackets \in 0 .. MaxArp
OwnInv == ManagerTypeOK /\ WifiTypeOK /\ ShimOwn /\ TaskOwn

LEMMA OwnInductive == ASSUME OwnInv, [Next]_vars PROVE OwnInv'
<1> USE DEF build, stack, shimVars, managerVars, wifiVars
<1>1. CASE UNCHANGED vars
  BY <1>1 DEF vars, OwnInv, ManagerTypeOK, WifiTypeOK, ShimOwn, TaskOwn
<1>2. CASE CreateStack
  <2>1. xInstanceTable' = xInstanceTable \/ \E t \in Types : AddInstanceEntry(t)
    BY <1>2 DEF CreateStack, CreateNormal, IpcpInit, CreateShim, StartTask, Types, ShimType
  <2>2. xInstanceTable' \in Seq(Types) /\ Len(xInstanceTable') <= INSTANCES_IPCP_ENTRIES
    BY <2>1, InstancesAssumption DEF OwnInv, ManagerTypeOK, AddInstanceEntry
  <2>3. ManagerTypeOK'
    BY <1>2, <2>2 DEF CreateStack, CreateNormal, IpcpInit, RsQueueCreate, CreateThread, CreateShim,
                      StartTask, OwnInv, ManagerTypeOK
  <2> QED BY <1>2, <2>3 DEF CreateStack, OwnInv, WifiTypeOK, ShimOwn, TaskOwn
<1>3. CASE EnrollToDIF802154 \/ EnrollToDIF \/ Connected \/ EnrollToDIFTap \/ ConnectTap
  <2>1. ManagerTypeOK'
    BY <1>3 DEF EnrollToDIF802154, EnrollToDIF, Connected, EnrollToDIFTap, ConnectTap, At, GoesTo,
                OwnInv, ManagerTypeOK
  <2>2. WifiTypeOK'
    BY <1>3 DEF EnrollToDIF802154, EnrollToDIF, Connected, EnrollToDIFTap, ConnectTap, StartWifi,
                StopListening, OwnInv, WifiTypeOK
  <2> QED BY <1>3, <2>1, <2>2 DEF EnrollToDIF802154, EnrollToDIF, Connected, EnrollToDIFTap,
                                  ConnectTap, OwnInv, ShimOwn, TaskOwn
<1>4. CASE SendEvent
  BY <1>4 DEF SendEvent, SendEnrolled, At, OwnInv, ManagerTypeOK, WifiTypeOK, ShimOwn, TaskOwn
<1>5. CASE WifiEvent
  <2>1. WifiTypeOK'
    <3> USE RetryAssumption DEF OwnInv, WifiTypeOK
    <3>1. CASE Disconnects \/ StaStart  BY <3>1 DEF Disconnects, StaStart
    <3>2. CASE StaDisconnected
      <4>1. CASE s_retry_num < ESP_MAXIMUM_RETRY
        <5>1. s_retry_num' = s_retry_num + 1 /\ driver' = "connecting"
              /\ s_wifi_event_group' = s_wifi_event_group
          BY <3>2, <4>1 DEF StaDisconnected
        <5>2. s_retry_num' \in 0 .. ESP_MAXIMUM_RETRY  BY <4>1, <5>1
        <5> QED BY <5>1, <5>2
      <4>2. CASE ~(s_retry_num < ESP_MAXIMUM_RETRY)  BY <3>2, <4>2 DEF StaDisconnected, SetBit
      <4> QED BY <4>1, <4>2
    <3>3. CASE OtherWifiEvent
      <4>1. driver' \in {driver, "idle"} /\ s_retry_num' = 0
        BY <3>3 DEF OtherWifiEvent
      <4>2. s_wifi_event_group' = s_wifi_event_group \cup {"WIFI_CONNECTED_BIT"}
        BY <3>3 DEF OtherWifiEvent, SetBit
      <4> QED BY <4>1, <4>2
    <3> QED BY <1>5, <3>1, <3>2, <3>3 DEF WifiEvent, EventHandler
  <2> QED BY <1>5, <2>1 DEF WifiEvent, OwnInv, ManagerTypeOK, ShimOwn, TaskOwn
<1>6. CASE TapStep \/ TakePort
  BY <1>6 DEF TapStep, TakePort, OwnInv, ManagerTypeOK, WifiTypeOK, ShimOwn, TaskOwn
<1>7. CASE NotRegistered \/ NoN1Port \/ NotAllocated \/ AllocatedEvent
  <2>1. xStackEventQueue' \in Seq({"enrolled", "allocated"})
    <3>1. xStackEventQueue # <<>> /\ xStackEventQueue' = Tail(xStackEventQueue)
      BY <1>7 DEF NotRegistered, NoN1Port, NotAllocated, AllocatedEvent, Handling
    <3>2. xStackEventQueue \in Seq({"enrolled", "allocated"})  BY DEF OwnInv, ManagerTypeOK
    <3> QED BY <3>1, <3>2
  <2>2. UNCHANGED <<shim, pc, xInstanceTable, xIpcpTaskInitialised, wifiVars, pxN1Port, asked,
                    appFirst, arpPackets>>
    BY <1>7 DEF NotRegistered, NoN1Port, NotAllocated, AllocatedEvent, Handling
  <2> QED BY <2>1, <2>2 DEF OwnInv, ManagerTypeOK, WifiTypeOK, ShimOwn, TaskOwn
<1>8. CASE EnrolledEvent
  <2>1. asked' \in BOOLEAN
    BY <1>8 DEF EnrolledEvent, FlowRequest, AllocateRequest, ResolveGPA, OwnInv, ShimOwn
  <2>2. pxN1Port' \in {pxN1Port, "allocated"}
    BY <1>8 DEF EnrolledEvent, FlowRequest, AllocateRequest, BindN1
  <2>3. ManagerTypeOK'
    BY <1>8 DEF EnrolledEvent, Handling, OwnInv, ManagerTypeOK
  <2> QED BY <1>8, <2>1, <2>2, <2>3 DEF EnrolledEvent, OwnInv, WifiTypeOK, ShimOwn, TaskOwn
<1>9. CASE \E op \in {"ARP_REQUEST", "ARP_REPLY"}, h \in Hosts, k \in {1, 2} :
              ArpPacket(op, h, k)
  <2>1. PICK op \in {"ARP_REQUEST", "ARP_REPLY"}, h \in Hosts, k \in {1, 2} : ArpPacket(op, h, k)
    BY <1>9
  <2>2. asked' \in BOOLEAN  BY <2>1 DEF ArpPacket, EthernetPacket, OwnInv, ShimOwn
  <2>3. pxN1Port' \in {pxN1Port, "allocated"}  BY <2>1 DEF ArpPacket, EthernetPacket, BindN1
  <2>4. ManagerTypeOK'  BY <2>1 DEF ArpPacket, OwnInv, ManagerTypeOK
  <2>5. arpPackets' \in 0 .. MaxArp  BY <2>1, BringUpAssumption DEF ArpPacket, OwnInv, TaskOwn
  <2> QED BY <2>1, <2>2, <2>3, <2>4, <2>5 DEF ArpPacket, OwnInv, WifiTypeOK, ShimOwn, TaskOwn
<1>10. CASE \E m \in FromPeer : ManagementPdu(m)
  BY <1>10 DEF ManagementPdu, OwnInv, ManagerTypeOK, WifiTypeOK, ShimOwn, TaskOwn
<1> QED BY <1>1, <1>2, <1>3, <1>4, <1>5, <1>6, <1>7, <1>8, <1>9, <1>10 DEF Next, Manager, Event

LEMMA OwnInvariant == Spec => []OwnInv
<1>1. Init => OwnInv
  <2> SUFFICES ASSUME Init PROVE OwnInv  OBVIOUS
  <2>1. ManagerTypeOK
    <3>1. /\ shim \in {"802154", "wifi"} /\ pc = "init" /\ xInstanceTable = <<>>
          /\ xIpcpTaskInitialised = FALSE /\ xStackEventQueue = <<>>
      BY DEF Init, ManagerInit
    <3>2. xIpcpTaskInitialised \in BOOLEAN  BY <3>1
    <3>3. Len(xInstanceTable) <= INSTANCES_IPCP_ENTRIES  BY <3>1, InstancesAssumption
    <3> QED BY <3>1, <3>2, <3>3 DEF ManagerTypeOK
  <2>2. WifiTypeOK  BY RetryAssumption DEF Init, WifiInit, WifiTypeOK
  <2>3. ShimOwn  BY DEF Init, ShimInit, RmtCreate, ShimOwn
  <2>4. TaskOwn
    <3>1. appFirst = FALSE /\ arpPackets = 0  BY DEF Init
    <3>2. appFirst \in BOOLEAN  BY <3>1
    <3>3. arpPackets \in 0 .. MaxArp  BY <3>1, BringUpAssumption
    <3> QED BY <3>2, <3>3 DEF TaskOwn
  <2> QED BY <2>1, <2>2, <2>3, <2>4 DEF OwnInv
<1> QED BY <1>1, OwnInductive, PTL DEF Spec

(* No step of RINA_init, of the IPCP task, of the driver or of a read      *)
(* thread leaves a variable outside its type: no table outgrows its size,  *)
(* and no retry is made beyond ESP_MAXIMUM_RETRY.                          *)
THEOREM TypeCorrect == Spec => []TypeOK
<1>1. IInv /\ TapInv /\ AddressInv /\ OwnInv => TypeOK
  BY DEF IInv, TapInv, AddressInv, CacheInv, FlowInv, ShimFlow, Shaped, OwnInv, ShimOwn, TaskOwn,
         TypeOK, ShimTypeOK
<1> QED BY <1>1, Invariant, TapInvariant, AddressInvariant, OwnInvariant, PTL

-----------------------------------------------------------------------------
(* Something is left to be done until the node is enrolled: the safety     *)
(* half of Enrols.  The table of instances has room for both IPCPs.        *)
ShimFits == INSTANCES_IPCP_ENTRIES >= 2

(* The shim is in the table, and the task will register with it.           *)
TaskUp ==
  /\ pc = "init" => xInstanceTable = <<>>
  /\ pc \in {"task", "thread", "shim"} => Len(xInstanceTable) <= 1
  /\ pc \notin {"init", "task", "thread", "shim", "failed"} => ActiveShimInstance
  /\ pc = "done" => xIpcpTaskInitialised
  /\ pc = "done" /\ registered = "no" => Queued("enrolled")

(* A later event does not take another one's place.                        *)
LEMMA Waits ==
  ASSUME xStackEventQueue \in Seq(Events), NEW e, Queued(e),
         \/ xStackEventQueue' = xStackEventQueue
         \/ \E other \in Events : xStackEventQueue' = Append(xStackEventQueue, other)
         \/ /\ xStackEventQueue # <<>> /\ Head(xStackEventQueue) # e
            /\ xStackEventQueue' = Tail(xStackEventQueue)
  PROVE  Queued(e)'
<1>1. PICK i \in 1 .. Len(xStackEventQueue) : xStackEventQueue[i] = e  BY DEF Queued
<1>2. CASE xStackEventQueue' = xStackEventQueue  BY <1>1, <1>2 DEF Queued
<1>3. CASE \E other \in Events : xStackEventQueue' = Append(xStackEventQueue, other)
  BY <1>1, <1>3 DEF Queued
<1>4. CASE /\ xStackEventQueue # <<>> /\ Head(xStackEventQueue) # e
           /\ xStackEventQueue' = Tail(xStackEventQueue)
  <2>1. i # 1  BY <1>1, <1>4
  <2>2. i - 1 \in 1 .. Len(xStackEventQueue') /\ xStackEventQueue'[i - 1] = e
    BY <1>1, <1>4, <2>1
  <2> QED BY <2>2 DEF Queued
<1> QED BY <1>2, <1>3, <1>4

LEMMA TaskUpKept ==
  ASSUME ShimFits, OwnInv, AddressInv, TaskUp, [Next]_vars
  PROVE  TaskUp'
<1> USE DEF build, stack, shimVars, managerVars
<1>0. /\ xInstanceTable \in Seq(Types) /\ xStackEventQueue \in Seq(Events)
      /\ shim \in {"802154", "wifi"}
      /\ INSTANCES_IPCP_ENTRIES \in Nat /\ INSTANCES_IPCP_ENTRIES >= 2
  BY InstancesAssumption DEF ShimFits, OwnInv, ManagerTypeOK, AddressInv, RegisteredOnce
<1>1. CASE UNCHANGED vars
  BY <1>1 DEF vars, TaskUp, ActiveShimInstance, FindInstanceByType, ShimType, Queued
<1>2. CASE CreateStack
  <2>0. UNCHANGED <<shim, registered>>  BY <1>2 DEF CreateStack
  <2>1. CASE CreateNormal
    <3>1. pc = "init" /\ pc' \in {"failed", "task"}  BY <2>1 DEF CreateNormal
    <3>2. Len(xInstanceTable) = 0  BY <3>1 DEF TaskUp
    <3>3. pc' = "task" => xInstanceTable' = Append(xInstanceTable, "eNormal")
      <4>1. pc' = "task" => AddInstanceEntry("eNormal")  BY <2>1 DEF CreateNormal
      <4> QED BY <1>0, <3>2, <4>1 DEF AddInstanceEntry
    <3>4. Len(Append(xInstanceTable, "eNormal")) = Len(xInstanceTable) + 1
      <4>1. "eNormal" \in Types  BY DEF Types
      <4> QED BY <1>0, <4>1
    <3>5. pc' = "task" => Len(xInstanceTable') <= 1  BY <3>2, <3>3, <3>4
    <3> QED BY <3>1, <3>5 DEF TaskUp
  <2>2. CASE IpcpInit
    <3>1. /\ pc \in {"task", "thread"} /\ pc' \in {"thread", "shim", "failed"}
          /\ UNCHANGED xInstanceTable
      BY <2>2 DEF IpcpInit, RsQueueCreate, CreateThread
    <3> QED BY <3>1 DEF TaskUp
  <2>3. CASE CreateShim
    <3>1. pc' = "enrol" /\ xInstanceTable' = Append(xInstanceTable, ShimType)
      BY <1>0, <2>3 DEF CreateShim, AddInstanceEntry, TaskUp
    <3>2. ShimType \in Types  BY DEF ShimType, Types
    <3>3. /\ Len(xInstanceTable) + 1 \in 1 .. Len(xInstanceTable')
          /\ xInstanceTable'[Len(xInstanceTable) + 1] = ShimType
      BY <1>0, <3>1, <3>2
    <3>4. ShimType' = ShimType  BY <2>0 DEF ShimType
    <3>5. ActiveShimInstance'  BY <3>3, <3>4 DEF ActiveShimInstance, FindInstanceByType
    <3> QED BY <3>1, <3>5 DEF TaskUp
  <2>4. CASE StartTask
    <3>1. UNCHANGED <<pc, xInstanceTable, xStackEventQueue>> /\ xIpcpTaskInitialised' = TRUE
      BY <2>4 DEF StartTask
    <3> QED BY <2>0, <3>1 DEF TaskUp, ActiveShimInstance, FindInstanceByType, ShimType, Queued
  <2> QED BY <1>2, <2>1, <2>2, <2>3, <2>4 DEF CreateStack
<1>3. CASE EnrollToDIF802154 \/ EnrollToDIF \/ Connected \/ EnrollToDIFTap \/ ConnectTap
  <2>1. /\ pc \in {"enrol", "wait", "start", "started"}
        /\ pc' \in {"event", "wait", "start", "started", "failed"}
        /\ UNCHANGED <<xInstanceTable, shim>>
    BY <1>3 DEF EnrollToDIF802154, EnrollToDIF, Connected, EnrollToDIFTap, ConnectTap, At, GoesTo
  <2>2. ActiveShimInstance' = ActiveShimInstance
    BY <2>1 DEF ActiveShimInstance, FindInstanceByType, ShimType
  <2> QED BY <2>1, <2>2 DEF TaskUp
<1>4. CASE SendEvent
  <2>1. /\ pc = "event" /\ pc' \in {"done", "unheard"}
        /\ UNCHANGED <<xInstanceTable, xIpcpTaskInitialised, shim>>
        /\ pc' = "done" => /\ xIpcpTaskInitialised
                           /\ xStackEventQueue' = Append(xStackEventQueue, "enrolled")
    BY <1>4 DEF SendEvent, SendEnrolled, At
  <2>2. ActiveShimInstance' = ActiveShimInstance
    BY <2>1 DEF ActiveShimInstance, FindInstanceByType, ShimType
  <2>3. pc' = "done" => Queued("enrolled")'
    <3>1. "enrolled" \in Events  BY DEF Events
    <3>2. pc' = "done" => /\ Len(xStackEventQueue) + 1 \in 1 .. Len(xStackEventQueue')
                          /\ xStackEventQueue'[Len(xStackEventQueue) + 1] = "enrolled"
      BY <1>0, <2>1, <3>1
    <3> QED BY <3>2 DEF Queued
  <2> QED BY <2>1, <2>2, <2>3 DEF TaskUp
<1>5. CASE WifiEvent \/ TapStep \/ TakePort \/ \E m \in FromPeer : ManagementPdu(m)
  <2>1. UNCHANGED <<managerVars, shim, registered>>
    BY <1>5 DEF WifiEvent, TapStep, TakePort, ManagementPdu
  <2> QED BY <2>1 DEF TaskUp, ActiveShimInstance, FindInstanceByType, ShimType, Queued
<1>6. CASE NotRegistered \/ EnrolledEvent
  <2>1. registered' # "no" /\ UNCHANGED <<pc, xInstanceTable, xIpcpTaskInitialised, shim>>
    BY <1>6 DEF NotRegistered, EnrolledEvent, Handling, Registering, ApplicationRegister
  <2> QED BY <2>1 DEF TaskUp, ActiveShimInstance, FindInstanceByType, ShimType
<1>7. CASE NoN1Port \/ NotAllocated \/ AllocatedEvent
  <2>1. /\ UNCHANGED <<pc, xInstanceTable, xIpcpTaskInitialised, shim, registered>>
        /\ xStackEventQueue # <<>> /\ Head(xStackEventQueue) = "allocated"
        /\ xStackEventQueue' = Tail(xStackEventQueue)
    BY <1>7 DEF NoN1Port, NotAllocated, AllocatedEvent, Handling
  <2>2. Queued("enrolled") => Queued("enrolled")'  BY <1>0, <2>1, Waits
  <2> QED BY <2>1, <2>2 DEF TaskUp, ActiveShimInstance, FindInstanceByType, ShimType
<1>8. CASE \E op \in {"ARP_REQUEST", "ARP_REPLY"}, h \in Hosts, k \in {1, 2} :
              ArpPacket(op, h, k)
  <2>1. /\ UNCHANGED <<pc, xInstanceTable, xIpcpTaskInitialised, shim, registered>>
        /\ xStackEventQueue' \in {xStackEventQueue, Append(xStackEventQueue, "allocated")}
    BY <1>8 DEF ArpPacket, EthernetPacket
  <2>2. Queued("enrolled") => Queued("enrolled")'
    <3>1. "allocated" \in Events  BY DEF Events
    <3> QED BY <1>0, <2>1, <3>1, Waits
  <2> QED BY <2>1, <2>2 DEF TaskUp, ActiveShimInstance, FindInstanceByType, ShimType
<1> QED BY <1>1, <1>2, <1>3, <1>4, <1>5, <1>6, <1>7, <1>8 DEF Next, Manager, Event

-----------------------------------------------------------------------------
(* The program and the registration are well, no other host has answered   *)
(* and the cache has room.                                                 *)
Unhindered == ~Hindered /\ Invalid(xARPCache) # {}

(* The flow to the neighbour is asked for, unless it is there.             *)
FlowAsked ==
  /\ device = "tap" => ~connects
  /\ pxN1Port = "allocated" <=> Allocated
  /\ registered = "no" => xN1PortId = 0
  /\ registered = "yes" /\ ~appFirst =>
       /\ xN1PortId = 1 /\ xShimFlow.port = 1 /\ xShimFlow.ePortIdState # "eNULL"
       /\ pxN1Port # "null" /\ connects /\ ~Allocated => asked /\ shim = "wifi"

(* The address of a peer that was replaced has never come in.              *)
FirstMacs(c) == \A k \in Cells : c.mac[k] # <<Peer, 2>>

RightAddress ==
  /\ FirstMacs(xARPCache) /\ xShimFlow.pxDestHa # <<Peer, 2>>
  /\ shim = "802154" /\ Allocated => xShimFlow.pxDestHa = PeerMac

(* What leaves the flow and enrolment alone                                *)
Elsewhere ==
  /\ UNCHANGED <<registered, xShimFlow, pxN1Port, asked, answered, xN1PortId, cdapVars, fault>>
  /\ xARPCache' = xARPCache \/ (pc # "done" /\ xARPCache' = InitCache)
  /\ appFirst' = appFirst \/ appFirst' = TRUE
  /\ xStackEventQueue' \in {xStackEventQueue, Append(xStackEventQueue, "enrolled")}
  /\ pc = "done" => pc' = "done"

LEMMA FlowSteps ==
  ASSUME [Next]_vars
  PROVE  /\ UNCHANGED build
         /\ \/ Elsewhere
            \/ NotRegistered \/ EnrolledEvent
            \/ NoN1Port \/ NotAllocated \/ AllocatedEvent
            \/ \E op \in {"ARP_REQUEST", "ARP_REPLY"}, h \in Hosts, k \in {1, 2} :
                  ArpPacket(op, h, k)
            \/ \E m \in FromPeer : ManagementPdu(m)
<1> USE DEF build, stack, shimVars, managerVars, Elsewhere
<1>1. CASE UNCHANGED vars  BY <1>1 DEF vars
<1>2. CASE CreateStack
  BY <1>2 DEF CreateStack, CreateNormal, IpcpInit, RsQueueCreate, CreateThread, CreateShim,
              StartTask
<1>3. CASE EnrollToDIF802154 \/ EnrollToDIF \/ Connected \/ EnrollToDIFTap \/ ConnectTap
  BY <1>3 DEF EnrollToDIF802154, EnrollToDIF, Connected, EnrollToDIFTap, ConnectTap, At, GoesTo
<1>4. CASE SendEvent  BY <1>4 DEF SendEvent, SendEnrolled, At
<1>5. CASE WifiEvent \/ TapStep \/ TakePort
  BY <1>5 DEF WifiEvent, TapStep, TakePort
<1>6. CASE Event
  BY <1>6 DEF Event, NotRegistered, EnrolledEvent, NoN1Port, NotAllocated, AllocatedEvent
<1>7. CASE \E op \in {"ARP_REQUEST", "ARP_REPLY"}, h \in Hosts, k \in {1, 2} :
              ArpPacket(op, h, k)
  BY <1>7 DEF ArpPacket
<1>8. CASE \E m \in FromPeer : ManagementPdu(m)  BY <1>8 DEF ManagementPdu
<1> QED BY <1>1, <1>2, <1>3, <1>4, <1>5, <1>6, <1>7, <1>8 DEF Next, Manager

(* The request for the flow is made once, for a flow that is not there.    *)
LEMMA AskedOnce ==
  ASSUME AddressInv, NEW e \in {"enrolled"}, Handling(e)
  PROVE  registered = "no" /\ pc = "done" /\ xShimFlow = NoFlow
<1>1. xStackEventQueue \in Seq(Events)  BY DEF AddressInv, RegisteredOnce
<1>2. Queued("enrolled")  BY <1>1 DEF Handling, Queued
<1> QED BY <1>2 DEF AddressInv, RegisteredOnce

LEMMA FlowAskedKept ==
  ASSUME AddressInv, OwnInv, TaskUp, FlowAsked, [Next]_vars
  PROVE  FlowAsked'
<1>0. /\ UNCHANGED <<shim, device, connects>>
      /\ shim \in {"802154", "wifi"} /\ pxN1Port \in {"unset", "null", "allocated"}
      /\ xShimFlow \in ShimFlow /\ asked \in BOOLEAN /\ appFirst \in BOOLEAN
  BY FlowSteps DEF build, OwnInv, ManagerTypeOK, ShimOwn, TaskOwn, AddressInv, FlowInv
<1>1. CASE Elsewhere
  BY <1>0, <1>1 DEF Elsewhere, FlowAsked, Allocated
<1>2. CASE NotRegistered
  <2>1. registered' = "failed" /\ UNCHANGED <<xShimFlow, pxN1Port>>
    BY <1>2 DEF NotRegistered, Registering, ApplicationRegister, NameDup
  <2> QED BY <1>0, <2>1 DEF FlowAsked, Allocated
<1>3. CASE EnrolledEvent
  <2>1. registered = "no" /\ pc = "done" /\ xShimFlow = NoFlow
    BY <1>3, AskedOnce DEF EnrolledEvent
  <2>2. /\ registered' \in {"yes", "failed"}
        /\ xN1PortId' = NextPort /\ UNCHANGED appFirst
        /\ ~appFirst => NextPort = 1
    BY <1>3 DEF EnrolledEvent, Registering, ApplicationRegister, NextPort
  <2>3. NextPort \in {1, 2}  BY DEF NextPort
  <2> DEFINE f == Requested(NoFlow, NextPort)
  <2>4. f \in ShimFlow /\ f.port = NextPort /\ f.ePortIdState = "ePENDING"
    <3>1. NoFlow \in ShimFlow /\ f \in ShimFlow
      <4>1. Shaped(xARPCache) /\ FromReplies(xARPCache, answered)  BY DEF AddressInv, CacheInv
      <4> QED BY <1>0, <2>1, <2>3, <4>1, FlowTyped
    <3>2. NoFlow.port # NextPort  BY <2>3 DEF NoFlow
    <3>3. f = [NoFlow EXCEPT !.port = NextPort, !.ePortIdState = "ePENDING"]
      BY <3>2 DEF Requested, Listed
    <3> QED BY <3>1, <3>3 DEF ShimFlow
  <2>5. pxN1Port # "allocated"  BY <2>1 DEF FlowAsked, Allocated, NoFlow
  <2> HIDE DEF f
  <2>6. CASE shim = "wifi"
    <3>1. xShimFlow' = f /\ UNCHANGED pxN1Port /\ asked' = (asked \/ NetworkInterfaceOutput)
      BY <1>3, <2>1, <2>6 DEF EnrolledEvent, FlowRequest, AllocateRequest, ResolveGPA, f
    <3>2. connects => NetworkInterfaceOutput  BY DEF FlowAsked, NetworkInterfaceOutput
    <3> QED BY <1>0, <2>2, <2>4, <2>5, <2>6, <3>1, <3>2 DEF FlowAsked, Allocated
  <2>7. CASE shim = "802154"
    <3>1. /\ xShimFlow' = Responded(f, NextPort, xARPCache)
          /\ pxN1Port' = IF Answerable(f, NextPort) THEN "allocated" ELSE pxN1Port
      BY <1>3, <2>1, <2>7 DEF EnrolledEvent, FlowRequest, AllocateRequest, BindN1, f
    <3>2. Answerable(f, NextPort) <=> pxN1Port # "null"
      BY <2>1, <2>4 DEF Answerable, TaskUp, Listed, Binds
    <3>3. CASE pxN1Port = "null"
      <4>1. xShimFlow' = f /\ pxN1Port' = "null"  BY <3>1, <3>2, <3>3 DEF Responded
      <4> QED BY <1>0, <2>2, <2>4, <4>1 DEF FlowAsked, Allocated
    <3>4. CASE pxN1Port # "null"
      <4>1. /\ xShimFlow' = [f EXCEPT !.ePortIdState = "eALLOCATED", !.pxDestHa = PeerMac]
            /\ pxN1Port' = "allocated"
        BY <2>7, <3>1, <3>2, <3>4 DEF Responded
      <4>2. xShimFlow'.ePortIdState = "eALLOCATED" /\ xShimFlow'.port = NextPort
        BY <2>4, <4>1 DEF ShimFlow
      <4> QED BY <1>0, <2>2, <4>1, <4>2 DEF FlowAsked, Allocated
    <3> QED BY <3>3, <3>4
  <2> QED BY <1>0, <2>6, <2>7
<1>4. CASE \E op \in {"ARP_REQUEST", "ARP_REPLY"}, h \in Hosts, k \in {1, 2} :
              ArpPacket(op, h, k)
  <2>1. PICK op \in {"ARP_REQUEST", "ARP_REPLY"}, h \in Hosts, k \in {1, 2} : ArpPacket(op, h, k)
    BY <1>4
  <2>2. /\ UNCHANGED <<pc, registered, appFirst, xN1PortId>>
        /\ RadioOn /\ shim = "wifi"
        /\ asked' = (asked /\ ~(op = "ARP_REPLY" /\ h = Peer))
        /\ op = "ARP_REQUEST" => UNCHANGED <<xShimFlow, pxN1Port>>
        /\ op = "ARP_REPLY" =>
             /\ xShimFlow' = Responded(xShimFlow, 1, xARPCache')
             /\ pxN1Port' = IF Answerable(xShimFlow, 1) THEN "allocated" ELSE pxN1Port
    BY <2>1 DEF ArpPacket, Receiving, EthernetPacket, BindN1
  <2>3. CASE op = "ARP_REPLY" /\ Answerable(xShimFlow, 1)
    <3>1. /\ pxN1Port' = "allocated" /\ pxN1Port # "null"
          /\ xShimFlow' = [xShimFlow EXCEPT !.ePortIdState = "eALLOCATED",
                                            !.pxDestHa = LookupGHA(xARPCache')]
          /\ xShimFlow.port = 1
      BY <2>2, <2>3 DEF Responded, Answerable, Binds, Listed
    <3>2. xShimFlow'.ePortIdState = "eALLOCATED" /\ xShimFlow'.port = 1
      BY <1>0, <3>1 DEF ShimFlow
    <3> QED BY <1>0, <2>2, <3>1, <3>2 DEF FlowAsked, Allocated
  <2>4. CASE ~(op = "ARP_REPLY" /\ Answerable(xShimFlow, 1))
    <3>1. UNCHANGED <<xShimFlow, pxN1Port>>  BY <2>2, <2>4 DEF Responded
    <3>2. ActiveShimInstance  BY <2>2 DEF TaskUp, RadioOn
    <3>3. registered = "yes" /\ ~appFirst /\ pxN1Port # "null" /\ ~Allocated =>
            Answerable(xShimFlow, 1)
      BY <1>0, <3>2 DEF FlowAsked, Answerable, Listed, Binds, Allocated, ShimFlow
    <3> QED BY <1>0, <2>2, <2>4, <3>1, <3>3 DEF FlowAsked, Allocated
  <2> QED BY <2>3, <2>4
<1>5. CASE NoN1Port \/ NotAllocated \/ AllocatedEvent \/ \E m \in FromPeer : ManagementPdu(m)
  <2>1. UNCHANGED <<registered, xShimFlow, pxN1Port, asked, xN1PortId, appFirst>>
    BY <1>5 DEF NoN1Port, NotAllocated, AllocatedEvent, ManagementPdu, stack, shimVars
  <2> QED BY <1>0, <2>1 DEF FlowAsked, Allocated
<1> QED BY <1>1, <1>2, <1>3, <1>4, <1>5, FlowSteps

LEMMA CellSet ==
  ASSUME NEW c \in Caches, FirstMacs(c), NEW k \in Cells, NEW m, m # <<Peer, 2>>, NEW r,
         r.mac = [c.mac EXCEPT ![k] = m]
  PROVE  FirstMacs(r)
<1>1. DOMAIN c.mac = Cells  BY DEF Caches
<1> QED BY <1>1 DEF FirstMacs

LEMMA FirstOnly ==
  ASSUME NEW c \in Caches, FirstMacs(c)
  PROVE  /\ \A g, m : \A k \in {NullCell, OwnCell}, age \in {1, 3} :
              m # <<Peer, 2>> => FirstMacs(AddCacheEntry(c, g, k, m, age))
         /\ \A g, m : m # <<Peer, 2>> => FirstMacs(RefreshCacheEntry(c, g, m))
         /\ \A g : FirstMacs(ARPRemove(c, g))
         /\ LookupGHA(c) # <<Peer, 2>>
<1>1. ASSUME NEW g, NEW m, m # <<Peer, 2>>, NEW k \in {NullCell, OwnCell}, NEW age \in {1, 3}
      PROVE  FirstMacs(AddCacheEntry(c, g, k, m, age))
  <2>1. CASE Invalid(c) = {}  BY <2>1 DEF AddCacheEntry
  <2>2. CASE Invalid(c) # {}
    <3> DEFINE i == FirstOf(Invalid(c))
               cell == IF k = OwnCell THEN OwnCell ELSE i
    <3>1. i \in Rows  BY <2>2, Cell, First DEF Invalid
    <3>2. cell \in Cells  BY <3>1, Cell
    <3>3. AddCacheEntry(c, g, k, m, age).mac = [c.mac EXCEPT ![cell] = m]
      BY <2>2 DEF AddCacheEntry
    <3> QED BY <1>1, <3>2, <3>3, CellSet
  <2> QED BY <2>1, <2>2
<1>2. ASSUME NEW g, NEW m, m # <<Peer, 2>> PROVE FirstMacs(RefreshCacheEntry(c, g, m))
  <2>1. RefreshRow(c, m) \in Rows  BY Refreshed
  <2>2. c.row[RefreshRow(c, m)].cell \in Cells  BY <2>1, Row
  <2>3. RefreshCacheEntry(c, g, m).mac = [c.mac EXCEPT ![c.row[RefreshRow(c, m)].cell] = m]
    BY DEF RefreshCacheEntry
  <2> QED BY <1>2, <2>2, <2>3, CellSet
<1>3. ASSUME NEW g PROVE FirstMacs(ARPRemove(c, g))
  <2>1. CASE ARPRemove(c, g) = c  BY <2>1
  <2>2. CASE Named(c, g) # {} /\ ARPRemove(c, g) = RemoveCacheEntry(c, g)
    <3>1. FirstOf(Named(c, g)) \in Cells  BY <2>2, Cell, First DEF Named
    <3>2. ARPRemove(c, g).mac = [c.mac EXCEPT ![FirstOf(Named(c, g))] = Unknown]
      BY <2>2 DEF RemoveCacheEntry
    <3>3. Unknown # <<Peer, 2>>  BY DEF Unknown
    <3> QED BY <3>1, <3>2, <3>3, CellSet
  <2> QED BY <2>1, <2>2 DEF ARPRemove, RemoveCacheEntry
<1>4. LookupGHA(c) # <<Peer, 2>>
  <2> DEFINE found == {i \in Rows : c.row[i].ucAge = 3}
  <2>1. CASE found = {}
    <3>1. LookupGHA(c) = <<>>  BY <2>1 DEF LookupGHA, NoMac
    <3>2. Len(<<>>) = 0 /\ Len(<<Peer, 2>>) = 2  OBVIOUS
    <3> QED BY <3>1, <3>2
  <2>2. CASE found # {}
    <3>1. FirstOf(found) \in Rows  BY <2>2, Cell, First
    <3>2. LookupGHA(c) = MacAt(c, FirstOf(found))  BY <2>2 DEF LookupGHA
    <3> QED BY <3>1, <3>2, Row DEF FirstMacs, MacAt
  <2> QED BY <2>1, <2>2
<1> QED BY <1>1, <1>2, <1>3, <1>4

LEMMA RightAddressKept ==
  ASSUME AddressInv, AddressInv', OwnInv, RightAddress, [Next]_vars
  PROVE  RightAddress'
<1>0. /\ UNCHANGED shim /\ xShimFlow \in ShimFlow
      /\ xARPCache \in Caches /\ xARPCache' \in Caches
  BY FlowSteps DEF build, AddressInv, CacheInv, FlowInv, Shaped
<1>1. FirstMacs(InitCache)
  <2>1. Unknown # <<Peer, 2>>  BY DEF Unknown
  <2> QED BY <2>1 DEF InitCache, FirstMacs
<1>2. CASE Elsewhere
  BY <1>0, <1>1, <1>2 DEF Elsewhere, RightAddress, Allocated
<1>3. CASE NotRegistered \/ EnrolledEvent
  <2>1. FirstMacs(xARPCache')
    <3>1. ASSUME NEW S, xARPCache' = Registered(xARPCache, S) PROVE FirstMacs(xARPCache')
      <4>1. PICK one : one = ARPAdd(xARPCache, App)  OBVIOUS
      <4>2. OwnMac # <<Peer, 2>>  BY DEF OwnMac
      <4>3. FirstMacs(one)  BY <1>0, <4>1, <4>2, FirstOnly DEF ARPAdd, RightAddress
      <4>4. one \in Caches  BY <4>1, OwnAdded DEF AddressInv, CacheInv, Shaped
      <4>5. xARPCache' = ARPAdd(one, Daf) \/ xARPCache' = ARPRemove(one, App)
        BY <3>1, <4>1 DEF Registered
      <4> QED BY <4>2, <4>3, <4>4, <4>5, FirstOnly DEF ARPAdd
    <3>2. xARPCache' = xARPCache \/ \E S : xARPCache' = Registered(xARPCache, S)
      BY <1>3 DEF NotRegistered, EnrolledEvent, Registering, ApplicationRegister
    <3> QED BY <3>1, <3>2 DEF RightAddress
  <2>2. CASE NotRegistered
    BY <1>0, <2>1, <2>2 DEF NotRegistered, RightAddress, Allocated
  <2>3. CASE EnrolledEvent
    <3>1. xShimFlow = NoFlow  BY <2>3, AskedOnce DEF EnrolledEvent
    <3>2. /\ NoFlow.pxDestHa # <<Peer, 2>> /\ NoFlow.ePortIdState # "eALLOCATED"
          /\ PeerMac # <<Peer, 2>>
      BY <3>1 DEF RightAddress, NoFlow, PeerMac
    <3> DEFINE f == Requested(NoFlow, NextPort)
    <3>3. f \in ShimFlow
      <4>1. Shaped(xARPCache) /\ FromReplies(xARPCache, answered)  BY DEF AddressInv, CacheInv
      <4> QED BY <1>0, <3>1, <4>1, FlowTyped DEF NextPort
    <3>4. f.pxDestHa = NoFlow.pxDestHa /\ f.ePortIdState # "eALLOCATED"
      BY <3>2 DEF Requested, NoFlow
    <3> HIDE DEF f
    <3>5. CASE xShimFlow' = f
      BY <1>0, <2>1, <3>2, <3>4, <3>5 DEF RightAddress, Allocated
    <3>6. CASE shim = "802154" /\ xShimFlow' =
                 [f EXCEPT !.ePortIdState = "eALLOCATED", !.pxDestHa = PeerMac]
      <4>1. xShimFlow'.pxDestHa = PeerMac  BY <3>3, <3>6 DEF ShimFlow
      <4> QED BY <1>0, <2>1, <3>2, <4>1 DEF RightAddress, PeerMac
    <3>7. xShimFlow' = f \/ (shim = "802154" /\ xShimFlow' =
                 [f EXCEPT !.ePortIdState = "eALLOCATED", !.pxDestHa = PeerMac])
      <4>1. shim = "wifi" \/ shim = "802154"  BY DEF OwnInv, ManagerTypeOK
      <4> QED BY <2>3, <3>1, <4>1 DEF EnrolledEvent, FlowRequest, AllocateRequest, Responded, f
    <3> QED BY <3>5, <3>6, <3>7
  <2> QED BY <1>3, <2>2, <2>3
<1>4. CASE \E op \in {"ARP_REQUEST", "ARP_REPLY"}, h \in Hosts, k \in {1, 2} :
              ArpPacket(op, h, k)
  <2>1. PICK op \in {"ARP_REQUEST", "ARP_REPLY"}, h \in Hosts, k \in {1, 2} : ArpPacket(op, h, k)
    BY <1>4
  <2>2. /\ shim = "wifi" /\ <<h, k>> # <<Peer, 2>>
        /\ xARPCache' = ProcessPacket(xARPCache, op, h, <<h, k>>)
        /\ \/ UNCHANGED xShimFlow
           \/ xShimFlow' = [xShimFlow EXCEPT !.ePortIdState = "eALLOCATED",
                                             !.pxDestHa = LookupGHA(xARPCache')]
    <3>1. h = Peer => k = 1  BY <2>1 DEF ArpPacket
    <3> QED BY <2>1, <3>1 DEF ArpPacket, EthernetPacket, Responded
  <2>3. FirstMacs(xARPCache')
    <3>1. \/ xARPCache' = xARPCache
          \/ xARPCache' = AddCacheEntry(xARPCache, h, NullCell, <<h, k>>, 3)
          \/ xARPCache' = RefreshCacheEntry(xARPCache, h, <<h, k>>)
      BY <2>2 DEF ProcessPacket
    <3>2. FirstMacs(xARPCache)  BY DEF RightAddress
    <3> QED BY <1>0, <2>2, <3>1, <3>2, FirstOnly
  <2>4. LookupGHA(xARPCache') # <<Peer, 2>>  BY <1>0, <2>3, FirstOnly
  <2>5. xShimFlow'.pxDestHa # <<Peer, 2>>
    BY <1>0, <2>2, <2>4 DEF RightAddress, ShimFlow
  <2> QED BY <1>0, <2>2, <2>3, <2>5 DEF RightAddress
<1>5. CASE NoN1Port \/ NotAllocated \/ AllocatedEvent \/ \E m \in FromPeer : ManagementPdu(m)
  <2>1. UNCHANGED <<xShimFlow, xARPCache>>
    BY <1>5 DEF NoN1Port, NotAllocated, AllocatedEvent, ManagementPdu, stack, shimVars
  <2> QED BY <1>0, <2>1 DEF RightAddress, Allocated
<1> QED BY <1>2, <1>3, <1>4, <1>5, FlowSteps

(* While the road is clear, what is sent gets to the peer.                 *)
LEMMA Reaches ==
  ASSUME AddressInv, OwnInv, FlowAsked, RightAddress, Unhindered, Allocated
  PROVE  ReachesPeer
<1>1. xShimFlow.pxDestHa = PeerMac
  <2>1. CASE shim = "802154"  BY <2>1 DEF RightAddress
  <2>2. CASE shim = "wifi"
    <3>1. answered = {Peer}
      BY <2>2 DEF AddressInv, FlowInv, Unhindered, Hindered
    <3>2. xShimFlow.pxDestHa \in MacsOf(Peer)
      BY <2>2, <3>1 DEF AddressInv, FlowInv, Unhindered
    <3>3. MacsOf(Peer) = {Peer} \X {1, 2}  BY Name, ArpAssumption DEF MacsOf
    <3>4. xShimFlow.pxDestHa = <<Peer, 1>> \/ xShimFlow.pxDestHa = <<Peer, 2>>
      BY <3>2, <3>3
    <3> QED BY <3>4 DEF RightAddress, PeerMac
  <2> QED BY <2>1, <2>2 DEF OwnInv, ManagerTypeOK
<1>2. PeerMac # NoMac
  <2>1. Len(<<Peer, 1>>) = 2 /\ Len(<<>>) = 0  OBVIOUS
  <2> QED BY <2>1 DEF PeerMac, NoMac
<1> QED BY <1>1, <1>2 DEF ReachesPeer, HasN1Port, Addressed, FlowAsked

LEMMA PeerArp ==
  ASSUME AddressInv, NEW op \in {"ARP_REQUEST", "ARP_REPLY"}, NEW h \in Hosts, NEW k \in {1, 2},
         ArpPacket(op, h, k)
  PROVE  /\ UNCHANGED <<pc, registered, appFirst, fault>> /\ fault = "none"
         /\ answered \subseteq answered'
         /\ Invalid(xARPCache') \subseteq Invalid(xARPCache)
<1>1. /\ xARPCache' = ProcessPacket(xARPCache, op, h, <<h, k>>)
      /\ answered' \in {answered, answered \cup {h}}
      /\ UNCHANGED <<pc, registered, appFirst, fault>> /\ fault = "none"
  BY DEF ArpPacket, Receiving, EthernetPacket
<1>2. PICK c : c = xARPCache  OBVIOUS
<1>3. PICK r : r = xARPCache'  OBVIOUS
<1>4. Shaped(c)  BY <1>2 DEF AddressInv, CacheInv
<1>5. CASE r = AddCacheEntry(c, h, NullCell, <<h, k>>, 3)
  <2>1. Invalid(r) \subseteq Invalid(c)  BY <1>4, <1>5, ReplyAdded
  <2> QED BY <1>1, <1>2, <1>3, <2>1
<1>6. CASE r = RefreshCacheEntry(c, h, <<h, k>>)
  <2>1. Invalid(r) \subseteq Invalid(c)  BY <1>4, <1>6, RefreshKept
  <2> QED BY <1>1, <1>2, <1>3, <2>1
<1> QED BY <1>1, <1>2, <1>3, <1>5, <1>6 DEF ProcessPacket

(* What hinders the node stays.                                            *)
LEMMA UnhinderedBefore ==
  ASSUME AddressInv, FlowAsked, registered # "no", [Next]_vars, Unhindered'
  PROVE  Unhindered
<1>0. pc = "done"  BY DEF AddressInv, RegisteredOnce
<1>1. CASE Elsewhere
  BY <1>0, <1>1 DEF Elsewhere, Unhindered, Hindered
<1>2. CASE NotRegistered \/ EnrolledEvent
  BY <1>2, AskedOnce DEF NotRegistered, EnrolledEvent
<1>3. CASE NoN1Port  BY <1>3 DEF NoN1Port, Unhindered, Hindered
<1>4. CASE NotAllocated \/ AllocatedEvent
  BY <1>0, <1>4 DEF NotAllocated, AllocatedEvent, Handling, shimVars, Unhindered, Hindered
<1>5. CASE \E op \in {"ARP_REQUEST", "ARP_REPLY"}, h \in Hosts, k \in {1, 2} :
              ArpPacket(op, h, k)
  <2>1. PICK op \in {"ARP_REQUEST", "ARP_REPLY"}, h \in Hosts, k \in {1, 2} : ArpPacket(op, h, k)
    BY <1>5
  <2>2. pxN1Port = "null" => pxN1Port' = "null"
    BY <2>1 DEF ArpPacket, EthernetPacket, BindN1, Answerable, Binds
  <2>3. /\ UNCHANGED <<pc, registered, appFirst, fault>> /\ fault = "none"
        /\ answered \subseteq answered'
        /\ Invalid(xARPCache') \subseteq Invalid(xARPCache)
    BY <2>1, PeerArp
  <2>4. Invalid(xARPCache)' = Invalid(xARPCache')  BY DEF Invalid
  <2> QED BY <1>0, <2>2, <2>3, <2>4 DEF Unhindered, Hindered
<1>6. CASE \E m \in FromPeer : ManagementPdu(m)
  BY <1>0, <1>6 DEF ManagementPdu, MgmtDuPost, stack, managerVars, shimVars, Unhindered, Hindered
<1> QED BY <1>1, <1>2, <1>3, <1>4, <1>5, <1>6, FlowSteps

LEMMA SentStays ==
  ASSUME [Next]_vars
  PROVE  toPeer \subseteq toPeer'
<1>1. ASSUME NEW port, EnrollmentInit(port) PROVE toPeer \subseteq toPeer'
  BY <1>1 DEF EnrollmentInit, ConnectToIpcp
<1>2. ASSUME NEW m, HandleMessage(m) PROVE toPeer \subseteq toPeer'
  BY <1>2 DEF HandleMessage, UnsetName, HandleConnect, HandleConnectR, HandleStartR, HandleCreate,
              HandleStop, HandleStart, StartResponse, Ends, Ignored, EnrolNeighbor, SendStart,
              Respond, Send
<1>3. CASE Elsewhere  BY <1>3 DEF Elsewhere, cdapVars
<1>4. CASE NotRegistered \/ NoN1Port \/ NotAllocated
  BY <1>4 DEF NotRegistered, NoN1Port, NotAllocated, cdapVars
<1>5. CASE EnrolledEvent  BY <1>1, <1>5 DEF EnrolledEvent, cdapVars
<1>6. CASE AllocatedEvent  BY <1>1, <1>6 DEF AllocatedEvent
<1>7. CASE \E op \in {"ARP_REQUEST", "ARP_REPLY"}, h \in Hosts, k \in {1, 2} :
              ArpPacket(op, h, k)
  BY <1>7 DEF ArpPacket, cdapVars
<1>8. CASE \E m \in FromPeer : ManagementPdu(m)
  BY <1>2, <1>8 DEF ManagementPdu, MgmtDuPost, ProcessLayerManagementPDU
<1> QED BY <1>3, <1>4, <1>5, <1>6, <1>7, <1>8, FlowSteps

(* Once the flow is there, M_CONNECT has been sent, or will be.            *)
Initiated ==
  Unhindered /\ connects /\ Allocated => Queued("allocated") \/ Connect \in toPeer

LEMMA InitiatedKept ==
  ASSUME AddressInv, OwnInv, FlowAsked, RightAddress, FlowAsked', RightAddress', Initiated,
         [Next]_vars
  PROVE  Initiated'
<1> SUFFICES ASSUME Unhindered', connects', Allocated'
             PROVE  Queued("allocated")' \/ Connect \in toPeer'
  BY DEF Initiated
<1>0. /\ connects /\ xStackEventQueue \in Seq(Events) /\ "allocated" \in Events
      /\ "enrolled" \in Events
      /\ toPeer \subseteq toPeer'
      /\ registered = "no" => ~Allocated
      /\ registered # "no" => Unhindered
  <2>1. connects  BY FlowSteps DEF build
  <2>2. xStackEventQueue \in Seq(Events) /\ "allocated" \in Events /\ "enrolled" \in Events
    BY DEF AddressInv, RegisteredOnce, Events
  <2>3. registered = "no" => ~Allocated
    <3>1. NoFlow.ePortIdState # "eALLOCATED"  BY DEF NoFlow
    <3> QED BY <3>1 DEF AddressInv, RegisteredOnce, Allocated
  <2> QED BY <2>1, <2>2, <2>3, SentStays, UnhinderedBefore
<1>1. CASE Elsewhere
  <2>1. Allocated  BY <1>1 DEF Elsewhere, Allocated
  <2>2. Queued("allocated") => Queued("allocated")'  BY <1>0, <1>1, Waits DEF Elsewhere
  <2> QED BY <1>0, <2>1, <2>2 DEF Initiated
<1>2. CASE NotRegistered
  <2>1. Allocated  BY <1>2 DEF NotRegistered, Allocated
  <2>2. registered = "no"  BY <1>2, AskedOnce DEF NotRegistered
  <2> QED BY <1>0, <2>1, <2>2
<1>3. CASE EnrolledEvent
  <2>1. xShimFlow = NoFlow  BY <1>3, AskedOnce DEF EnrolledEvent
  <2>2. shim = "802154"
    <3>1. CASE shim = "wifi"
      <4>1. xShimFlow' = Requested(NoFlow, NextPort)
        BY <1>3, <2>1, <3>1 DEF EnrolledEvent, FlowRequest, AllocateRequest
      <4>2. ~Allocated'  BY <4>1 DEF Requested, NoFlow, Allocated
      <4> QED BY <4>2
    <3> QED BY <3>1 DEF OwnInv, ManagerTypeOK
  <2>3. EnrollmentInit(NextPort)  BY <1>3, <2>2 DEF EnrolledEvent
  <2>4. ReachesPeer'
    <3>1. UNCHANGED shim  BY FlowSteps DEF build
    <3>2. xShimFlow'.pxDestHa = PeerMac  BY <2>2, <3>1 DEF RightAddress, PeerMac
    <3>3. PeerMac # NoMac
      <4>1. Len(<<Peer, 1>>) = 2 /\ Len(<<>>) = 0  OBVIOUS
      <4> QED BY <4>1 DEF PeerMac, NoMac
    <3> QED BY <3>2, <3>3 DEF FlowAsked, ReachesPeer, HasN1Port, Addressed, PeerMac, NoMac
  <2>5. NextPort # 0  BY DEF NextPort
  <2> QED BY <1>0, <2>3, <2>4, <2>5 DEF EnrollmentInit, ConnectToIpcp
<1>4. CASE NoN1Port  BY <1>4 DEF NoN1Port, Unhindered, Hindered
<1>5. CASE NotAllocated
  BY <1>5 DEF NotAllocated, shimVars, FlowAsked, Allocated
<1>6. CASE AllocatedEvent
  <2>1. /\ UNCHANGED shimVars /\ EnrollmentInit(xN1PortId) /\ Allocated
    BY <1>6 DEF AllocatedEvent, shimVars, Allocated
  <2>2. registered \in {"no", "yes", "failed"}  BY DEF AddressInv, FlowInv
  <2>3. xN1PortId = 1
    BY <1>0, <2>1, <2>2 DEF FlowAsked, Unhindered, Hindered
  <2>4. ReachesPeer'
    <3>1. ReachesPeer  BY <1>0, <2>1, Reaches
    <3> QED BY <2>1, <3>1 DEF shimVars, ReachesPeer, HasN1Port, Allocated, Addressed
  <2> QED BY <1>0, <2>1, <2>3, <2>4 DEF EnrollmentInit, ConnectToIpcp
<1>7. CASE \E op \in {"ARP_REQUEST", "ARP_REPLY"}, h \in Hosts, k \in {1, 2} :
              ArpPacket(op, h, k)
  <2>1. PICK op \in {"ARP_REQUEST", "ARP_REPLY"}, h \in Hosts, k \in {1, 2} : ArpPacket(op, h, k)
    BY <1>7
  <2>2. CASE op = "ARP_REPLY"
    <3>1. xStackEventQueue' = Append(xStackEventQueue, "allocated")
      BY <2>1, <2>2 DEF ArpPacket
    <3>2. /\ Len(xStackEventQueue) + 1 \in 1 .. Len(xStackEventQueue')
          /\ xStackEventQueue'[Len(xStackEventQueue) + 1] = "allocated"
      BY <1>0, <3>1
    <3> QED BY <3>2 DEF Queued
  <2>3. CASE op # "ARP_REPLY"
    <3>1. UNCHANGED <<xShimFlow, xStackEventQueue>>
      BY <2>1, <2>3 DEF ArpPacket, EthernetPacket
    <3> QED BY <1>0, <3>1 DEF Initiated, Allocated, Queued
  <2> QED BY <2>2, <2>3
<1>8. CASE \E m \in FromPeer : ManagementPdu(m)
  <2>1. UNCHANGED <<xShimFlow, xStackEventQueue>>
    BY <1>8 DEF ManagementPdu, stack, managerVars, shimVars
  <2> QED BY <1>0, <2>1 DEF Initiated, Allocated, Queued
<1> QED BY <1>1, <1>2, <1>3, <1>4, <1>5, <1>6, <1>7, <1>8, FlowSteps

(* An answer that was taken has had its effect.                            *)
Heard ==
  /\ fault = "none" /\ ConnectR \in taken => Answered
  /\ fault = "none" /\ Stop \in taken => Enrolled
  /\ Unhindered /\ Answered => \E m \in toPeer : m.op = "M_START"

LEMMA AnsweredKnown == ASSUME Survival, Answered PROVE Known
<1> SUFFICES ASSUME ~Known PROVE FALSE  OBVIOUS
<1>1. Found(RxPort) \in 1 .. Len(xAppConnectionTable)
  <2>1. xAppConnectionTable \in Seq(Rows1)  BY DEF Survival, IInv, CdapTypeOK, Rows1
  <2> QED BY <2>1, FoundRow DEF Answered
<1> QED BY <1>1 DEF Survival, Started, Answered, Status

(* M_CONNECT_R ends in a connection, and M_STOP in enrolment.              *)
LEMMA ConnectTaken ==
  ASSUME Survival, NEW m, m.op = "M_CONNECT_R", HandleMessage(m), fault' = "none"
  PROVE  Answered'
<1>1. CdapTypeOK /\ xAppConnectionTable \in Seq(Rows1)
  BY DEF Survival, IInv, CdapTypeOK, Rows1
<1>2. HandleConnectR(m)
  BY DEF HandleMessage, UnsetName, Ends, HandleConnect, HandleStartR, HandleCreate, HandleStop,
         HandleStart
<1>3. Connections(RxPort) # {}  BY <1>2 DEF HandleConnectR, Ends
<1>4. CASE Status(RxPort) # "IN_PROGRESS"
  <2>1. xAppConnectionTable[Found(RxPort)] \in Rows1  BY <1>1, <1>3, FoundRow
  <2>2. Answered  BY <1>3, <1>4, <2>1 DEF Answered, Status, Rows1
  <2>3. UNCHANGED tables  BY <1>2, <1>3, <1>4 DEF HandleConnectR, Ignored
  <2> QED BY <2>2, <2>3 DEF Answered, Status, Found, Connections, RxPort, tables
<1>5. CASE Status(RxPort) = "IN_PROGRESS"
  <2>1. Joins  BY <1>2, <1>3, <1>5 DEF HandleConnectR, Joins
  <2> QED BY <1>1, <2>1, JoinConnections
<1> QED BY <1>4, <1>5

LEMMA StopTaken ==
  ASSUME Survival, NEW m, m.op = "M_STOP", HandleMessage(m), fault' = "none"
  PROVE  Enrolled'
<1>1. xNeighborsTable \in Seq(Neighbors)  BY DEF Survival, IInv, CdapTypeOK, Neighbors
<1>2. HandleStop(m)
  BY DEF HandleMessage, UnsetName, Ends, HandleConnect, HandleConnectR, HandleStartR, HandleCreate,
         HandleStart
<1>3. Requestable(m) = "none"  BY <1>2 DEF HandleStop, Ends
<1>4. Known
  <2>1. Answered  BY <1>3 DEF Requestable, Answered
  <2> QED BY <2>1, AnsweredKnown
<1>5. xNeighborsTable' = [xNeighborsTable EXCEPT ![1] = [eEnrollmentState |-> "eENROLLED",
                                               pcToken |-> EnrollmentDecode(m.objValue)]]
  BY <1>2, <1>3, <1>4 DEF HandleStop
<1>6. 1 \in 1 .. Len(xNeighborsTable)  BY <1>1, <1>4 DEF Known
<1>7. /\ xNeighborsTable'[1] = [eEnrollmentState |-> "eENROLLED",
                                pcToken |-> EnrollmentDecode(m.objValue)]
      /\ Len(xNeighborsTable') = Len(xNeighborsTable)
  BY <1>1, <1>5, <1>6
<1> QED BY <1>1, <1>6, <1>7 DEF Enrolled, Known

(* What was reached stays; and a connection is answered only by joining.   *)
LEMMA ReachedStays ==
  ASSUME Survival, CdapTypeOK', [Next]_vars
  PROVE  /\ Answered => Answered'
         /\ Enrolled => Enrolled'
         /\ Answered' => Answered \/ (PduStep /\ Joins)
<1>1. CdapTypeOK /\ IInv /\ shim \in {"802154", "wifi"}  BY DEF Survival, IInv
<1>2. CASE EnrolledStep \/ AllocatedStep
  <2>1. CASE UNCHANGED cdapVars
    <3>1. UNCHANGED <<xAppConnectionTable, xNeighborsTable>>  BY <2>1 DEF cdapVars, tables
    <3> QED BY <3>1 DEF Answered, Status, Found, Connections, RxPort, Enrolled, Known
  <2>2. CASE Starts
    <3>1. UNCHANGED xNeighborsTable  BY <2>2 DEF Starts, EnrollmentInit
    <3>2. Enrolled' = Enrolled  BY <3>1 DEF Enrolled, Known
    <3>3. Answered' <=> Answered  BY <1>1, <2>2, StartConnections DEF Answered
    <3> QED BY <3>2, <3>3
  <2>3. UNCHANGED cdapVars \/ Starts
    <3>1. xN1PortId \in 0 .. 2 /\ NextPort \in 0 .. 2  BY <1>1 DEF IInv, NextPort
    <3> QED BY <1>2, <3>1 DEF EnrolledStep, AllocatedStep, Starts
  <2> QED BY <2>1, <2>2, <2>3
<1>3. CASE OtherStep
  <2>1. UNCHANGED <<xAppConnectionTable, xNeighborsTable>>  BY <1>3 DEF OtherStep, cdapVars, tables
  <2> QED BY <2>1 DEF Answered, Status, Found, Connections, RxPort, Enrolled, Known
<1>4. CASE PduStep
  <2>0. PICK m \in FromPeer : HandleMessage(m)  BY <1>4 DEF PduStep, Handles
  <2>1. CASE Refuses \/ Ignored \/ Creates(m) \/ Operates(m)
    <3>1. UNCHANGED <<xAppConnectionTable, xNeighborsTable>>
      BY <2>1 DEF Refuses, Ends, Ignored, Creates, Operates, tables
    <3> QED BY <3>1 DEF Answered, Status, Found, Connections, RxPort, Enrolled, Known
  <2>2. CASE Joins
    <3>1. ~Known  BY <1>1, <2>2 DEF IInv, Joined, Joins, Answered
    <3> QED BY <1>1, <1>4, <2>2, <3>1, JoinConnections DEF Enrolled
  <2>3. CASE Stops(m)
    <3>1. Answered' = Answered
      <4>1. UNCHANGED xAppConnectionTable  BY <2>3 DEF Stops
      <4> QED BY <4>1 DEF Answered, Status, Found, Connections, RxPort
    <3>2. Enrolled'
      <4>1. xNeighborsTable \in Seq(Neighbors)  BY <1>1 DEF CdapTypeOK, Neighbors
      <4>2. 1 \in 1 .. Len(xNeighborsTable)  BY <2>3, <4>1 DEF Stops, Known
      <4>3. /\ xNeighborsTable'[1] = [eEnrollmentState |-> "eENROLLED",
                                      pcToken |-> EnrollmentDecode(m.objValue)]
            /\ Len(xNeighborsTable') = Len(xNeighborsTable)
        BY <2>3, <4>1, <4>2 DEF Stops
      <4> QED BY <4>1, <4>2, <4>3 DEF Enrolled, Known
    <3> QED BY <3>1, <3>2
  <2> QED BY <1>1, <2>0, <2>1, <2>2, <2>3, Effects
<1> QED BY <1>1, <1>2, <1>3, <1>4, PortSteps

LEMMA HeardKept ==
  ASSUME Survival, CdapTypeOK', AddressInv, OwnInv, FlowAsked, RightAddress, Heard, [Next]_vars
  PROVE  Heard'
<1>1. /\ fault' = "none" => fault = "none"
      /\ UNCHANGED peerToken
      /\ taken' = taken \/ \E m \in FromPeer : HandleMessage(m) /\ taken' = taken \cup {m}
  <2>1. xN1PortId \in 0 .. 2  BY DEF Survival, IInv
  <2> QED BY <2>1, Steps DEF build, cdapVars, Starts, EnrollmentInit, Handles
<1>2. fault' = "none" /\ ConnectR \in taken' => Answered'
  <2> SUFFICES ASSUME fault' = "none", ConnectR \in taken' PROVE Answered'  OBVIOUS
  <2>1. CASE ConnectR \in taken  BY <1>1, <2>1, ReachedStays DEF Heard
  <2>2. CASE HandleMessage(ConnectR)
    <3>1. ConnectR.op = "M_CONNECT_R"  BY DEF ConnectR, Encoded, Msg
    <3> QED BY <2>2, <3>1, ConnectTaken
  <2> QED BY <1>1, <2>1, <2>2 DEF ConnectR
<1>3. fault' = "none" /\ Stop' \in taken' => Enrolled'
  <2> SUFFICES ASSUME fault' = "none", Stop' \in taken' PROVE Enrolled'  OBVIOUS
  <2>0. Stop' = Stop  BY <1>1 DEF Stop
  <2>1. CASE Stop \in taken  BY <1>1, <2>1, ReachedStays DEF Heard
  <2>2. CASE HandleMessage(Stop)
    <3>1. Stop.op = "M_STOP"  BY DEF Stop, StopWith, Encoded, Msg
    <3> QED BY <2>2, <3>1, StopTaken
  <2> QED BY <1>1, <2>0, <2>1, <2>2
<1>4. Unhindered' /\ Answered' => \E m \in toPeer' : m.op = "M_START"
  <2> SUFFICES ASSUME Unhindered', Answered' PROVE \E m \in toPeer' : m.op = "M_START"  OBVIOUS
  <2>1. CASE Answered
    <3>1. xN1PortId # 0
      <4>1. Found(RxPort) \in Connections(RxPort)
        <5>1. xAppConnectionTable \in Seq(Rows1)  BY DEF Survival, IInv, CdapTypeOK, Rows1
        <5> QED BY <2>1, <5>1, FoundRow DEF Answered
      <4> QED BY <4>1 DEF Survival, PortChosen, Connections, RxPort
    <3>2. Unhindered  BY <3>1, UnhinderedBefore DEF FlowAsked
    <3> QED BY <2>1, <3>2, SentStays DEF Heard
  <2>2. CASE PduStep /\ Joins
    <3>1. Allocated  BY <2>2 DEF PduStep, FlowAsked
    <3>2. registered # "no"
      <4>1. NoFlow.ePortIdState # "eALLOCATED"  BY DEF NoFlow
      <4> QED BY <3>1, <4>1 DEF AddressInv, RegisteredOnce, Allocated
    <3>3. ReachesPeer  BY <3>1, <3>2, UnhinderedBefore, Reaches
    <3>4. FillEnrollMsg("M_START", "/difm/enr", EnrollmentEncode) \in toPeer'
      BY <2>2, <3>3 DEF Joins, EnrolNeighbor, SendStart, Send
    <3>5. FillEnrollMsg("M_START", "/difm/enr", EnrollmentEncode).op = "M_START"
      BY DEF FillEnrollMsg, Encoded, Msg
    <3> QED BY <3>4, <3>5
  <2> QED BY <2>1, <2>2, ReachedStays
<1> QED BY <1>2, <1>3, <1>4 DEF Heard, ConnectR

Progress == TaskUp /\ FlowAsked /\ RightAddress /\ Initiated /\ Heard

LEMMA ProgressInitially == Init => Progress
<1> SUFFICES ASSUME Init PROVE Progress  OBVIOUS
<1>1. /\ pc = "init" /\ xInstanceTable = <<>> /\ registered = "no" /\ xN1PortId = 0
      /\ xShimFlow = NoFlow /\ pxN1Port # "allocated" /\ xARPCache = InitCache
      /\ toPeer = {} /\ taken = {} /\ xAppConnectionTable = <<>>
  BY DEF Init, ManagerInit, ShimInit, CdapInit, RmtCreate
<1>2. device = "tap" => ~connects  BY DEF Init, Quiet
<1>3. NoFlow.ePortIdState # "eALLOCATED" /\ NoFlow.pxDestHa = NoMac  BY DEF NoFlow
<1>4. TaskUp  BY <1>1 DEF TaskUp
<1>5. FlowAsked  BY <1>1, <1>2, <1>3 DEF FlowAsked, Allocated
<1>6. RightAddress
  <2>1. Unknown # <<Peer, 2>>  BY DEF Unknown
  <2>2. NoMac # <<Peer, 2>>
    <3>1. Len(<<>>) = 0 /\ Len(<<Peer, 2>>) = 2  OBVIOUS
    <3> QED BY <3>1 DEF NoMac
  <2> QED BY <1>1, <1>3, <2>1, <2>2 DEF RightAddress, FirstMacs, InitCache, Allocated
<1>7. Initiated  BY <1>1, <1>3 DEF Initiated, Allocated
<1>8. Heard
  <2>1. Connections(RxPort) = {}  BY <1>1 DEF Connections
  <2> QED BY <1>1, <2>1 DEF Heard, Answered
<1> QED BY <1>4, <1>5, <1>6, <1>7, <1>8 DEF Progress

LEMMA ProgressInductive ==
  ASSUME ShimFits, Survival, AddressInv, OwnInv, Progress, [Next]_vars
  PROVE  Progress'
<1>1. AddressInv' /\ CdapTypeOK'
  BY AddressInductive, SurvivalInductive DEF Survival, IInv
<1>2. TaskUp'  BY TaskUpKept DEF Progress
<1>3. FlowAsked'  BY FlowAskedKept DEF Progress
<1>4. RightAddress'  BY <1>1, RightAddressKept DEF Progress
<1>5. Initiated'  BY <1>3, <1>4, InitiatedKept DEF Progress
<1>6. Heard'  BY <1>1, HeardKept DEF Progress
<1> QED BY <1>2, <1>3, <1>4, <1>5, <1>6 DEF Progress

LEMMA ProgressInvariant == ShimFits => (Spec => []Progress)
<1> SUFFICES ASSUME ShimFits PROVE Spec => []Progress  OBVIOUS
<1>1. Survival /\ AddressInv /\ OwnInv /\ Progress /\ [Next]_vars => Progress'
  BY ProgressInductive
<1> QED BY <1>1, ProgressInitially, SurvivalInvariant, AddressInvariant, OwnInvariant, PTL DEF Spec

(* Who goes on: RINA_init with the event, the IPCP task with its queue, or *)
(* the peer, with the ARP reply, M_CONNECT_R or M_STOP, none of which has  *)
(* been handled.                                                           *)
Comes(m) == Receiving /\ pxN1Port = "allocated" /\ m \in FromPeer \ taken

GoesOn ==
  \/ pc = "event"
  \/ fault = "none" /\ xStackEventQueue # <<>>
  \/ Receiving /\ asked /\ shim = "wifi" /\ device = "esp32"
  \/ Comes(ConnectR) /\ Phase \in {"down", "connecting"}
  \/ Comes(Stop) /\ Phase = "connected"

NoDeadEnd == RadioOn /\ connects /\ ~Enrolled /\ Unhindered => GoesOn

LEMMA PeerGoesOn ==
  ASSUME Heard, Connect \in toPeer, Unhindered, ~Enrolled, pc = "done", xIpcpTaskInitialised,
         pxN1Port = "allocated"
  PROVE  GoesOn
<1>1. fault = "none" /\ Receiving  BY DEF Unhindered, Hindered, Receiving, RadioOn
<1>2. CASE Answered
  <2>1. Phase = "connected"  BY <1>1, <1>2 DEF Answered, Phase
  <2>2. PICK m \in toPeer : m.op = "M_START"  BY <1>2 DEF Heard
  <2>3. Stop \in Answers(m)  BY <2>2 DEF Answers
  <2>4. Stop \in FromPeer  BY <2>3 DEF FromPeer
  <2>5. Stop \notin taken  BY <1>1 DEF Heard
  <2> QED BY <1>1, <2>1, <2>4, <2>5 DEF GoesOn, Comes
<1>3. CASE ~Answered
  <2>1. Phase \in {"down", "connecting"}  BY <1>1, <1>3 DEF Answered, Phase
  <2>2. Connect.op = "M_CONNECT"  BY DEF Connect, Encoded, Msg
  <2>3. ConnectR \in Answers(Connect)  BY <2>2 DEF Answers
  <2>4. ConnectR \in FromPeer  BY <2>3 DEF FromPeer
  <2>5. ConnectR \notin taken  BY <1>1, <1>3 DEF Heard
  <2> QED BY <1>1, <2>1, <2>4, <2>5 DEF GoesOn, Comes
<1> QED BY <1>2, <1>3

(* While the node is not enrolled, and nothing of what Hindered lists has  *)
(* happened, the stack never waits for the peer while the peer waits for   *)
(* it: an event is in the queue of the task, or an answer to what has been *)
(* sent is still to come, or the ARP request is out.                       *)
THEOREM BringUpGoesOn == ShimFits => (Spec => []NoDeadEnd)
<1> SUFFICES ASSUME ShimFits PROVE Spec => []NoDeadEnd  OBVIOUS
<1>1. Progress /\ AddressInv /\ TapInv => NoDeadEnd
  <2> SUFFICES ASSUME Progress, AddressInv, TapInv, RadioOn, connects, ~Enrolled, Unhindered,
                      pc # "event", xStackEventQueue = <<>>
               PROVE  GoesOn
    BY DEF NoDeadEnd, GoesOn, Unhindered, Hindered
  <2>1. pc = "done" /\ ~appFirst /\ pxN1Port # "null" /\ fault = "none" /\ registered # "failed"
    BY DEF RadioOn, Unhindered, Hindered
  <2>2. \A e : ~Queued(e)  BY DEF Queued
  <2>3. xIpcpTaskInitialised /\ registered = "yes"
    BY <2>1, <2>2 DEF Progress, TaskUp, AddressInv, FlowInv
  <2>4. CASE Allocated
    <3>1. pxN1Port = "allocated"  BY <2>4 DEF Progress, FlowAsked
    <3>2. Connect \in toPeer  BY <2>2, <2>4 DEF Progress, Initiated
    <3> QED BY <2>1, <2>3, <3>1, <3>2, PeerGoesOn DEF Progress
  <2>5. CASE ~Allocated
    <3>1. asked /\ shim = "wifi"  BY <2>1, <2>3, <2>5 DEF Progress, FlowAsked
    <3>2. device = "esp32"  BY DEF Progress, FlowAsked, TapInv, TapTypeOK
    <3> QED BY <2>1, <2>3, <3>1, <3>2 DEF GoesOn, Receiving, RadioOn
  <2> QED BY <2>4, <2>5
<1> QED BY <1>1, ProgressInvariant, AddressInvariant, TapInvariant, PTL

(* And each of these answers advances enrolment, or ends the program.      *)
Advances ==
  /\ ManagementPdu(ConnectR) => Phase' \in {"connected", "enrolled", "ended"}
  /\ ManagementPdu(Stop) => Phase' \in {"enrolled", "ended"}

(* xEnrollmentHandleConnectR and xEnrollmentHandleStop drop no answer that *)
(* the protocol waits for: M_CONNECT_R makes the connection, M_STOP ends   *)
(* enrolment, from whatever state and however often they come, unless a    *)
(* name that was never set or a missing object ends the program.           *)
THEOREM AnswersAdvance == Spec => [][Advances]_vars
<1>1. Survival /\ [Next]_vars => Advances
  <2> SUFFICES ASSUME Survival, [Next]_vars PROVE Advances  OBVIOUS
  <2>1. ASSUME ManagementPdu(ConnectR), fault' = "none"
        PROVE  Phase' \in {"connected", "enrolled"}
    <3>1. ConnectR.op = "M_CONNECT_R"  BY DEF ConnectR, Encoded, Msg
    <3>2. Answered'
      BY <2>1, <3>1, ConnectTaken DEF ManagementPdu, MgmtDuPost, ProcessLayerManagementPDU
    <3> QED BY <2>1, <3>2 DEF Answered, Phase
  <2>2. ASSUME ManagementPdu(Stop), fault' = "none"
        PROVE  Phase' = "enrolled"
    <3>1. Stop.op = "M_STOP"  BY DEF Stop, StopWith, Encoded, Msg
    <3>2. Enrolled'
      BY <2>2, <3>1, StopTaken DEF ManagementPdu, MgmtDuPost, ProcessLayerManagementPDU
    <3> QED BY <2>2, <3>2 DEF Phase
  <2>3. fault' # "none" => Phase' = "ended"  BY DEF Phase
  <2> QED BY <2>1, <2>2, <2>3 DEF Advances
<1> QED BY <1>1, SurvivalInvariant, PTL DEF Spec

-----------------------------------------------------------------------------
(* Waiting for the access point: the safety half of ConnectReturns         *)
Reporting == pc = "wait" => BitsSet \/ driver \in {"started", "connecting", "disconnected"}

(* The reports that are left until a bit is set                            *)
ReportsLeft == 2 * (ESP_MAXIMUM_RETRY - s_retry_num)
                 + (CASE driver = "started" -> 2 [] driver = "connecting" -> 1 [] OTHER -> 0)

ReportsFewer == WifiEvent /\ ~BitsSet' => ReportsLeft \in Nat /\ ReportsLeft' \in Nat
                                          /\ ReportsLeft' < ReportsLeft

(* xNetworkInterfaceConnect waits without a timeout, but never for nothing *)
(* (NetworkInterface.c:184): until a bit is set the driver has still to    *)
(* report, and each report that sets none brings the last retry nearer.    *)
THEOREM ReportsEnd == Spec => []Reporting /\ [][ReportsFewer]_vars
<1> USE RetryAssumption
<1>1. Init => Reporting  BY DEF Init, ManagerInit, Reporting
<1>2. Reporting /\ [Next]_vars => Reporting'
  <2> SUFFICES ASSUME Reporting, [Next]_vars, pc' = "wait"
               PROVE  BitsSet' \/ driver' \in {"started", "connecting", "disconnected"}
    BY DEF Reporting
  <2> USE DEF build, stack, managerVars, wifiVars
  <2>1. CASE UNCHANGED <<pc, wifiVars>>  BY <2>1 DEF Reporting, BitsSet
  <2>2. CASE WifiEvent
    <3>1. CASE OtherWifiEvent
      <4>1. s_wifi_event_group' # {}  BY <3>1 DEF OtherWifiEvent, SetBit
      <4> QED BY <4>1 DEF BitsSet
    <3>2. CASE StaDisconnected
      <4>1. driver' = "connecting" \/ s_wifi_event_group' # {}
        BY <3>2 DEF StaDisconnected, SetBit
      <4> QED BY <4>1 DEF BitsSet
    <3>3. CASE Disconnects \/ StaStart  BY <3>3 DEF Disconnects, StaStart
    <3> QED BY <2>2, <3>1, <3>2, <3>3 DEF WifiEvent, EventHandler
  <2>3. CASE EnrollToDIF  BY <2>3 DEF EnrollToDIF, StartWifi
  <2>4. CASE Manager /\ ~EnrollToDIF
    <3>1. pc' # "wait" \/ UNCHANGED <<pc, wifiVars>>
      BY <2>4 DEF Manager, CreateStack, CreateNormal, IpcpInit, RsQueueCreate, CreateThread,
                  CreateShim, StartTask, EnrollToDIF802154, Connected, EnrollToDIFTap, ConnectTap,
                  SendEvent, SendEnrolled, At, GoesTo
    <3> QED BY <2>1, <3>1
  <2>5. CASE \/ UNCHANGED vars \/ TapStep \/ TakePort \/ Event
             \/ \E op \in {"ARP_REQUEST", "ARP_REPLY"}, h \in Hosts, k \in {1, 2} :
                  ArpPacket(op, h, k)
             \/ \E m \in FromPeer : ManagementPdu(m)
    <3>1. UNCHANGED <<pc, wifiVars>>
      BY <2>5 DEF vars, TapStep, TakePort, Event, NotRegistered, EnrolledEvent, NoN1Port,
                  NotAllocated, AllocatedEvent, Handling, ArpPacket, ManagementPdu
    <3> QED BY <2>1, <3>1
  <2> QED BY <2>2, <2>3, <2>4, <2>5 DEF Next
<1>3. OwnInv /\ [Next]_vars => ReportsFewer
  <2> SUFFICES ASSUME OwnInv, WifiEvent, ~BitsSet'
               PROVE  ReportsLeft \in Nat /\ ReportsLeft' \in Nat /\ ReportsLeft' < ReportsLeft
    BY DEF ReportsFewer
  <2>1. s_retry_num \in 0 .. ESP_MAXIMUM_RETRY  BY DEF OwnInv, WifiTypeOK
  <2>2. ~OtherWifiEvent
    <3>1. OtherWifiEvent => s_wifi_event_group' # {}  BY DEF OtherWifiEvent, SetBit
    <3> QED BY <3>1 DEF BitsSet
  <2>3. CASE StaStart  BY <2>1, <2>3 DEF StaStart, ReportsLeft
  <2>4. CASE Disconnects  BY <2>1, <2>4 DEF Disconnects, ReportsLeft
  <2>5. CASE StaDisconnected
    <3>1. /\ driver = "disconnected" /\ driver' = "connecting"
          /\ s_retry_num < ESP_MAXIMUM_RETRY /\ s_retry_num' = s_retry_num + 1
      <4>1. ~SetBit("WIFI_FAIL_BIT")  BY DEF SetBit, BitsSet
      <4> QED BY <2>5, <4>1 DEF StaDisconnected
    <3> QED BY <2>1, <3>1 DEF ReportsLeft
  <2> QED BY <2>2, <2>3, <2>4, <2>5 DEF WifiEvent, EventHandler
<1> QED BY <1>1, <1>2, <1>3, OwnInvariant, PTL DEF Spec
=============================================================================

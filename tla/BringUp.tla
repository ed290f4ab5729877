------------------------------ MODULE BringUp ------------------------------
(***************************************************************************)
(* The stack is brought up: the manager creates the IPCPs, enrols the shim *)
(* in its DIF and tells the IPCP task (IPCP_manager.c), which registers    *)
(* with the shim, requests the N-1 flow and starts enrolment               *)
(* (IPCP_task.c), while frames come in and applications begin to take port *)
(* ids.  It puts together WifiConnect, ShimFlows and Cdap.                 *)
(***************************************************************************)
EXTENDS Cdap, WifiConnect

CONSTANT MaxArp     \* bound: ARP packets, the answer to a request excepted

ASSUME BringUpAssumption == MaxArp \in Nat

VARIABLES
  appFirst,    \* an application has taken port id 1
  xN1PortId,   \* static, of the IPCP task
  arpPackets

stack == <<managerVars, appFirst, xN1PortId, arpPackets>>
build == <<shim, device, connects, peerConnects, peerToken>>
vars == <<stack, build, tapVars, wifiVars, shimVars, cdapVars, fault>>

TypeOK == /\ ManagerTypeOK /\ ShimTypeOK /\ CdapTypeOK /\ WifiTypeOK /\ TapTypeOK
          /\ appFirst \in BOOLEAN
          /\ xN1PortId \in 0 .. 2
          /\ arpPackets \in 0 .. MaxArp

(* Bound: over a TAP device the node waits and the peer is silent. *)
Quiet == ~connects /\ ~peerConnects /\ ~peerToken

Init == /\ ManagerInit /\ ShimInit /\ CdapInit /\ WifiInit /\ TapInit
        /\ device = "tap" => Quiet
        /\ appFirst = FALSE
        /\ xN1PortId = 0
        /\ arpPackets = 0

At(l) == fault = "none" /\ pc = l
GoesTo(l) == /\ pc' = l
             /\ UNCHANGED <<xInstanceTable, xIpcpTaskInitialised, xStackEventQueue>>

-----------------------------------------------------------------------------
(* xIpcMngrInitRinaStack up to the shim, and the thread of the task *)
CreateStack == /\ fault = "none"
               /\ CreateNormal \/ IpcpInit \/ CreateShim \/ StartTask
               /\ UNCHANGED <<appFirst, xN1PortId, arpPackets, build, tapVars, wifiVars, shimVars,
                              cdapVars, fault>>

(* xShim802154EnrollToDIF: the radio is set up, there is nothing to wait   *)
(* for.                                                                    *)
EnrollToDIF802154 == /\ At("enrol") /\ shim = "802154"
                     /\ GoesTo("event")
                     /\ UNCHANGED <<appFirst, xN1PortId, arpPackets, build, tapVars, wifiVars,
                                    shimVars, cdapVars, fault>>

(* xShimEnrollToDIF: the cache is initialised and the interface connected. *)
EnrollToDIF == /\ At("enrol") /\ shim = "wifi" /\ device = "esp32"
               /\ GoesTo("wait")
               /\ xARPCache' = InitCache
               /\ StartWifi
               /\ UNCHANGED <<appFirst, xN1PortId, arpPackets, build, tapVars, registered,
                              xShimFlow, pxN1Port, asked, answered, cdapVars, fault>>

Connected == /\ At("wait") /\ BitsSet
             /\ GoesTo(IF InterfaceUp THEN "event" ELSE "failed")
             /\ StopListening
             /\ UNCHANGED <<appFirst, xN1PortId, arpPackets, build, tapVars, shimVars,
                            cdapVars, fault>>

(* The same over a TAP device *)
EnrollToDIFTap == /\ At("enrol") /\ device = "tap"
                  /\ \/ GoesTo("failed") /\ UNCHANGED <<xARPCache, tapVars>>
                     \/ GoesTo("start") /\ Initialise /\ xARPCache' = InitCache
                  /\ UNCHANGED <<appFirst, xN1PortId, arpPackets, build, wifiVars, registered,
                                 xShimFlow, pxN1Port, asked, answered, cdapVars, fault>>

(* xNetworkInterfaceConnect of the TAP device *)
ConnectTap == /\ \/ At("start") /\ GoesTo(IF ConnectStartsFails THEN "failed" ELSE "started")
                    /\ ConnectStarts
                 \/ At("started") /\ GoesTo("event") /\ ConnectEnds
              /\ UNCHANGED <<appFirst, xN1PortId, arpPackets, build, wifiVars, shimVars,
                             cdapVars, fault>>

(* The kernel, the monitor thread and the read threads *)
TapStep == /\ fault = "none"
           /\ TapThreads
           /\ UNCHANGED <<stack, build, wifiVars, shimVars, cdapVars, fault>>

(* The handler hears the driver until the wait is over. *)
WifiEvent == /\ At("wait")
             /\ Disconnects \/ EventHandler
             /\ UNCHANGED <<stack, build, tapVars, shimVars, cdapVars, fault>>

(* eShimEnrolledEvent is sent. *)
SendEvent == /\ At("event")
             /\ SendEnrolled
             /\ UNCHANGED <<appFirst, xN1PortId, arpPackets, build, tapVars, wifiVars,
                            shimVars, cdapVars, fault>>

(* RINA_flow_alloc takes a port id before the task does. *)
TakePort == /\ fault = "none" /\ pc \in {"done", "unheard"}
            /\ xN1PortId = 0
            /\ ~appFirst /\ appFirst' = TRUE
            /\ UNCHANGED <<managerVars, xN1PortId, arpPackets, build, tapVars, wifiVars, shimVars,
                           cdapVars, fault>>

-----------------------------------------------------------------------------
Handling(e) == /\ fault = "none"
               /\ xStackEventQueue # <<>> /\ Head(xStackEventQueue) = e
               /\ xStackEventQueue' = Tail(xStackEventQueue)
               /\ UNCHANGED <<pc, xInstanceTable, xIpcpTaskInitialised>>

(* xNormalRegistering: the application of the shim is the normal IPCP. *)
Registering(memory) == ApplicationRegister(memory)

NotRegistered == /\ Handling("enrolled")
                 /\ Registering(FALSE)
                 /\ UNCHANGED <<appFirst, xN1PortId, arpPackets, build, tapVars, wifiVars, xShimFlow,
                                pxN1Port, asked, answered, cdapVars, fault>>

(* prvIpcpFlowRequest: to the configured neighbour *)
FlowRequest(port) == AllocateRequest(port)

(* xIpcMngrAllocatePortId *)
NextPort == IF appFirst THEN 2 ELSE 1

(* Mutant of EnrolledEvent: the port is allocated after its use. *)
EnrolledEventOldPort ==
  /\ Handling("enrolled")
  /\ Registering(TRUE)
  /\ xN1PortId' = NextPort
  /\ FlowRequest(xN1PortId)
  /\ IF shim = "802154" THEN EnrollmentInit(xN1PortId) ELSE UNCHANGED cdapVars
  /\ UNCHANGED <<appFirst, arpPackets, build, tapVars, wifiVars, answered, fault>>

(* eShimEnrolledEvent: registration, a port id, the N-1 flow; over         *)
(* 802.15.4 enrolment is initiated at once, bound or not.                  *)
EnrolledEvent ==
  /\ Handling("enrolled")
  /\ Registering(TRUE)
  /\ xN1PortId' = NextPort
  /\ FlowRequest(NextPort)
  /\ IF shim = "802154" THEN EnrollmentInit(NextPort) ELSE UNCHANGED cdapVars
  /\ UNCHANGED <<appFirst, arpPackets, build, tapVars, wifiVars, answered, fault>>

(* eShimFlowAllocatedEvent looks at the state of an N-1 port that may not  *)
(* be there.                                                               *)
NoN1Port == /\ Handling("allocated")
            /\ pxN1Port # "allocated"
            /\ fault' = "port"
            /\ UNCHANGED <<appFirst, xN1PortId, arpPackets, build, tapVars, wifiVars, shimVars,
                           cdapVars>>

NotAllocated == /\ Handling("allocated")
                /\ pxN1Port = "unset"
                /\ UNCHANGED <<appFirst, xN1PortId, arpPackets, build, tapVars, wifiVars, shimVars,
                               cdapVars, fault>>

AllocatedEvent == /\ Handling("allocated")
                  /\ pxN1Port # "null"
                  /\ UNCHANGED shimVars
                  /\ EnrollmentInit(xN1PortId)
                  /\ UNCHANGED <<appFirst, xN1PortId, arpPackets, build, tapVars, wifiVars, fault>>

(* xIeee802154NetworkInterfaceConnect, and the WiFi driver's connection *)
RadioOn == pc \in {"event", "done", "unheard"}

(* A frame is an event, too. *)
Receiving == fault = "none" /\ RadioOn /\ xIpcpTaskInitialised

(* xNetworkInterfaceInput is called by the WiFi driver, or by a thread     *)
(* that reads the TAP device.                                              *)
NetworkInterfaceInput ==
  \/ device = "esp32" /\ UNCHANGED tapVars
  \/ device = "tap" /\ \E i \in 1 .. MaxLinkChanges + 1 : ReaderReads(i)

(* An ARP packet; only hosts other than the peer come back replaced.       *)
(* Bound: over a TAP device only the answer to a request.                  *)
ArpPacket(op, h, k) ==
  /\ Receiving /\ shim = "wifi"
  /\ NetworkInterfaceInput
  /\ h = Peer => k = 1
  /\ \/ device = "esp32" /\ arpPackets < MaxArp /\ arpPackets' = arpPackets + 1
     \/ op = "ARP_REPLY" /\ h = Peer /\ asked /\ UNCHANGED arpPackets
  /\ EthernetPacket(op, h, k)
  /\ xStackEventQueue' = IF op = "ARP_REPLY" THEN Append(xStackEventQueue, "allocated")
                         ELSE xStackEventQueue
  /\ UNCHANGED <<pc, xInstanceTable, xIpcpTaskInitialised, appFirst, xN1PortId, build, wifiVars,
                 cdapVars, fault>>

(* xRmtReceive drops the message without an N-1 port. *)
ManagementPdu(m) == /\ Receiving
                    /\ pxN1Port = "allocated"
                    /\ MgmtDuPost(m)
                    /\ UNCHANGED <<stack, build, tapVars, wifiVars, shimVars>>

-----------------------------------------------------------------------------
Manager == \/ CreateStack \/ EnrollToDIF802154 \/ EnrollToDIF \/ Connected
           \/ EnrollToDIFTap \/ ConnectTap
           \/ SendEvent

Event == \/ NotRegistered \/ EnrolledEvent
         \/ NoN1Port \/ NotAllocated \/ AllocatedEvent

Next == \/ Manager \/ WifiEvent \/ TapStep \/ TakePort
        \/ Event
        \/ \E op \in {"ARP_REQUEST", "ARP_REPLY"}, h \in Hosts, k \in {1, 2} :
              ArpPacket(op, h, k)
        \/ \E m \in FromPeer : ManagementPdu(m)

Spec == Init /\ [][Next]_vars

PeerAnswers == asked /\ ArpPacket("ARP_REPLY", Peer, 1)

(* The messages of the peer, whichever of them have been asked for. *)
PeerMessages == {Connect, ConnectR, StopWith({}), StopWith({"token"}), OperationalStart, Create}
                  \cup {Encoded("M_START_R", id, "/difm/enr", {}) : id \in 1 .. MaxInvoke}

(* Manager, IPCP task and WiFi driver go on.  The peer answers an ARP      *)
(* request, and no message is lost for good: only for Enrols.              *)
FairSpec == /\ Spec
            /\ WF_vars(Manager) /\ WF_vars(WifiEvent) /\ WF_vars(Event)
            /\ WF_vars(PeerAnswers)
            /\ \A m \in PeerMessages : WF_vars(m \in FromPeer /\ ManagementPdu(m))

-----------------------------------------------------------------------------
(* Nothing the peer sends in the course of enrolment ends the program for  *)
(* want of a connection, an object, a callback or a neighbour, in any      *)
(* order and however often; provided that the N-1 port is 1, and that over *)
(* WiFi the peer waits for our M_CONNECT and no unsolicited ARP reply has  *)
(* put a connection under port 0.  What was never set can end it, though:  *)
(* a name, the N-1 port, and the token of a peer that gives none.          *)
SurvivesPeer ==
  /\ connects /\ xN1PortId = 1 /\ Connections(0) = {}
  /\ shim = "802154" \/ ~peerConnects
  => fault \in {"none", "name", "port"} \cup (IF peerToken THEN {} ELSE {"token"})

Enrolled == Known /\ xNeighborsTable[1].eEnrollmentState = "eENROLLED"

Phase == IF fault # "none" THEN "ended"
         ELSE IF Enrolled THEN "enrolled"
         ELSE IF Connections(RxPort) = {} THEN "down"
         ELSE IF Status(RxPort) = "CONNECTED" THEN "connected"
         ELSE "connecting"

(* Enrolment implements the abstract association: no message, repeated or  *)
(* late, skips a phase or sets one back.                                   *)
Abstract == INSTANCE Association WITH phase <- Phase
AssociationSpec == Abstract!Spec

(* What keeps the node from joining: the ways in which the program or the  *)
(* registration can fail, an event sent before the task is ready, a port   *)
(* taken by an application first, and another host's answer to the ARP     *)
(* request.                                                                *)
Hindered == \/ fault # "none"
            \/ pc = "unheard"
            \/ registered = "failed"
            \/ pxN1Port = "null"
            \/ appFirst
            \/ \E h \in answered : h # Peer

(* Once the stack is up, a node that connects is enrolled in the end.      *)
Enrols == RadioOn /\ connects ~> Enrolled \/ Hindered

(* RINA_init does not wait for ever for the access point, though it waits  *)
(* without a timeout (NetworkInterface.c:184).                             *)
ConnectReturns == pc = "wait" ~> pc # "wait"
=============================================================================

----------------------------- MODULE ShimFlows -----------------------------
(***************************************************************************)
(* The shim IPCP under the normal one: it is registered with, keeps the    *)
(* one flow to the neighbour (shim_IPCP_flow.c) and binds it to the RMT    *)
(* (rmt.c).  The shim over IEEE 802.15.4 (ieee802154_IPCP_ops.c) has its   *)
(* destination configured; the one over WiFi (wifi_IPCP_ops.c,             *)
(* wifi_IPCP_ethernet.c) asks for it with ARP and gets the flow allocated  *)
(* by the reply.                                                           *)
(***************************************************************************)
EXTENDS ArpCache, TapInterface

VARIABLES
  registered,   \* the normal IPCP's registration: "no", "yes" or "failed"
  xARPCache,
  xShimFlow,    \* the flow in xShimFlowsList: port, ePortIdState, pxDestHa
  pxN1Port,     \* of the RMT: "unset" and "null" are what malloc may have left
  asked,        \* an ARP request for the peer's name is out
  answered      \* hosts whose ARP replies have been processed

shimVars == <<registered, xARPCache, xShimFlow, pxN1Port, asked, answered>>

NoFlow == [port |-> 0, ePortIdState |-> "eNULL", pxDestHa |-> NoMac]
PeerMac == <<Peer, 1>>   \* and ieee802154_SHORT_ADDRESS_DESTINATION

ShimTypeOK ==
  /\ registered \in {"no", "yes", "failed"}
  /\ xARPCache \in Caches
  /\ xShimFlow \in [port : Nat, ePortIdState : {"eNULL", "ePENDING", "eALLOCATED"},
                    pxDestHa : Macs \cup {NoMac}]
  /\ pxN1Port \in {"unset", "null", "allocated"}
  /\ asked \in BOOLEAN
  /\ answered \subseteq Hosts

(* pxRmtCreate never sets the N-1 port. *)
RmtCreate == pxN1Port \in {"unset", "null"}

ShimInit == /\ registered = "no"
            /\ xARPCache = InitCache
            /\ xShimFlow = NoFlow
            /\ RmtCreate
            /\ asked = FALSE
            /\ answered = {}

-----------------------------------------------------------------------------
(* What registering makes of the cache: of the names that are given, not   *)
(* of the copies, which are empty.  The app's is withdrawn without the     *)
(* DAF's copy.                                                             *)
Registered(c, pxDafName) ==
  LET withApp == ARPAdd(c, App) IN
  IF pxDafName # {} THEN ARPAdd(withApp, Daf) ELSE ARPRemove(withApp, App)

(* xShim802154ApplicationRegister, xShimApplicationRegister.  A failure    *)
(* frees pxAppName and leaves it set, so that nobody can try again.        *)
ApplicationRegister(memory) ==
  LET pxDafName == NameDup(DafName, memory) IN
  /\ registered' = IF pxDafName # {} THEN "yes" ELSE "failed"
  /\ xARPCache' = IF shim = "wifi" THEN Registered(xARPCache, pxDafName) ELSE xARPCache

(* prvShimFindFlowByPortId *)
Listed(f, port) == f.port = port

(* FlowAllocateRequest: a flow that is not in the list yet is pending. *)
Requested(f, port) == IF Listed(f, port) THEN f
                      ELSE [NoFlow EXCEPT !.port = port, !.ePortIdState = "ePENDING"]

(* xNormalFlowBinding, xRmtN1PortBind: "This RMT has already an N-1 Port   *)
(* binded" is what it says when pxN1Port happens to be NULL.               *)
Binds == pxN1Port # "null"

(* FlowAllocateResponse looks for the shim, and for a pending flow with    *)
(* the port, and binds it.                                                 *)
Answerable(f, port) == /\ ActiveShimInstance
                       /\ Listed(f, port) /\ f.ePortIdState = "ePENDING"
                       /\ Binds

(* The rest of FlowAllocateResponse *)
Responded(f, port, c) ==
  IF Answerable(f, port)
  THEN [f EXCEPT !.ePortIdState = "eALLOCATED",
                 !.pxDestHa = IF shim = "wifi" THEN LookupGHA(c) ELSE PeerMac]
  ELSE f

BindN1(f, port) == pxN1Port' = IF Answerable(f, port) THEN "allocated" ELSE pxN1Port

(* xNetworkInterfaceOutput, whose result vARPSendRequest does not look at *)
NetworkInterfaceOutput == device = "tap" => TapOutput

(* xARPResolveGPA, vARPSendRequest: a request for the peer is broadcast. *)
ResolveGPA == asked' = (asked \/ NetworkInterfaceOutput)

(* The request of the normal IPCP; over 802.15.4 the IPCP task answers it  *)
(* itself, over WiFi an ARP request goes out.                              *)
AllocateRequest(port) ==
  LET f == Requested(xShimFlow, port) IN
  IF shim = "wifi"
  THEN /\ xShimFlow' = f /\ ResolveGPA
       /\ UNCHANGED pxN1Port
  ELSE /\ xShimFlow' = Responded(f, port, xARPCache)
       /\ BindN1(f, port)
       /\ UNCHANGED asked

(* Mutant of EthernetPacket: the flow is answered before the cache is      *)
(* filled.                                                                 *)
EthernetPacketEarly(op, h, k) ==
  /\ xARPCache' = ProcessPacket(xARPCache, op, h, <<h, k>>)
  /\ IF op = "ARP_REPLY"
     THEN /\ xShimFlow' = Responded(xShimFlow, 1, xARPCache)
          /\ BindN1(xShimFlow, 1)
          /\ answered' = answered \cup {h}
     ELSE UNCHANGED <<xShimFlow, pxN1Port, answered>>
  /\ asked' = (asked /\ ~(op = "ARP_REPLY" /\ h = Peer))
  /\ UNCHANGED registered

(* prvHandleEthernetPacket, for an ARP packet of host h; after a reply     *)
(* prxHandleAllocateResponse answers the flow on port 1, and says it has.  *)
EthernetPacket(op, h, k) ==
  /\ xARPCache' = ProcessPacket(xARPCache, op, h, <<h, k>>)
  /\ IF op = "ARP_REPLY"
     THEN /\ xShimFlow' = Responded(xShimFlow, 1, xARPCache')
          /\ BindN1(xShimFlow, 1)
          /\ answered' = answered \cup {h}
     ELSE UNCHANGED <<xShimFlow, pxN1Port, answered>>
  /\ asked' = (asked /\ ~(op = "ARP_REPLY" /\ h = Peer))
  /\ UNCHANGED registered

(* xRmtSendPortId: the RMT knows one port, which is the flow's. *)
HasN1Port == pxN1Port = "allocated"

(* xShim802154SDUWrite and xShimSDUWrite write over an allocated flow; the *)
(* latter needs a destination.                                             *)
Allocated == xShimFlow.ePortIdState = "eALLOCATED"
Addressed == xShimFlow.pxDestHa # NoMac

(* Whether a message that is sent gets to the peer *)
ReachesPeer == /\ HasN1Port
               /\ Allocated /\ Addressed
               /\ xShimFlow.pxDestHa = PeerMac

-----------------------------------------------------------------------------
(* The address resolved for a name is one of its host (Arp826.c:175-305).  *)
AddressesAgree == Agrees(xARPCache)

(* Though the lookup of an address ignores the name, the flow over WiFi    *)
(* has the peer's as long as the peer alone has answered and the table has *)
(* had room: requests that refresh its row in between do not matter.       *)
DestinationAnswered ==
  /\ shim = "wifi" /\ xShimFlow.ePortIdState = "eALLOCATED"
  /\ answered = {Peer} /\ Invalid(xARPCache) # {}
  => xShimFlow.pxDestHa \in MacsOf(Peer)
=============================================================================

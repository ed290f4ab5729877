---------------------------- MODULE DataTransfer ----------------------------
(***************************************************************************)
(* Data transfer over one direction of a flow: the DTP of the sender       *)
(* numbers SDUs and hands them to the RMT and to the shim; the radio loses *)
(* frames; at the receiver an interrupt puts each frame into one static    *)
(* buffer, a task copies that buffer and sends the copy to the IPCP task,  *)
(* which passes it through RMT and EFCP to DTP, and on to the list of      *)
(* packets that wait for the application.                                  *)
(*                                                                         *)
(* A PDU of the flow is known by its ordinal n: the code sees the number   *)
(* SN(n).  A copy that an interrupt has torn inside the bytes of the       *)
(* number has the header of no PDU.  Between the PDUs the radio brings     *)
(* strays, frames that are not data of this flow: for other hosts,         *)
(* management, or PDUs that are refused.                                   *)
(* The peer runs this program.  Network buffers are counted in IpcpEvents. *)
(***************************************************************************)
EXTENDS Integers, Sequences, SequencesExt

CONSTANTS SeqSize,   \* sequence numbers: 2^32 in the code
          Splits,    \* where a number can tear, between bytes: {2^8, 2^16, 2^24}
          MaxSent,   \* bound: SDUs that are numbered
          Flight,    \* bound: frames between the two DTPs
          MaxStrays, \* bound: stray frames
          Length     \* uxQueueLength of the receiver's event queue

ASSUME DataTransferAssumption ==
         /\ SeqSize \in Nat \ {0} /\ MaxSent \in Nat
         /\ Flight \in Nat \ {0} /\ Length \in Nat \ {0}
         /\ MaxStrays \in Nat /\ Splits \subseteq Nat \ {0}

VARIABLES
  eState,                \* of the sender's flow
  local,                 \* its connection leads to the sender's own address
  xNextSeqNumberToSend,  \* as an ordinal: SDUs numbered so far
  out,                   \* frames in the sender's event queue and in the air
  strays,                \* stray frames so far
  rx_temp_buffer,        \* the frame in it
  notified,              \* the notification count of the receive task is not 0
  rxPc, frame,           \* where the receive task is, and the copy it makes
  torn,                  \* history: a number has been torn
  queue,                 \* frames in the receiver's event queue
  xDrfRequired, xRcvLeftWindowEdge,
  allocated,             \* eFaiState is eFAI_ALLOCATED at the receiver
  xListWaitingPackets,   \* the packets that wait, first to last
  fault                  \* what has ended the receiver

driver == <<strays, rx_temp_buffer, notified, rxPc, frame, torn>>
dtp == <<xDrfRequired, xRcvLeftWindowEdge>>
sender == <<eState, local, xNextSeqNumberToSend>>
vars == <<sender, out, driver, queue, dtp, allocated,
          xListWaitingPackets, fault>>

Ordinals == 1 .. MaxSent
Stray == 0  \* a frame that is not data of this flow

(* A torn number x, as the header of no PDU. *)
Torn(x) == -1 - x
TornHeaders == -SeqSize .. -1

(* The copy of a frame: the PDU of its header, and the PDU of its data. *)
Copies == [n : Ordinals \cup {Stray} \cup TornHeaders, sdu : Ordinals \cup {Stray}]

TypeOK == /\ eState \in {"pending", "allocated"}
          /\ local \in BOOLEAN
          /\ xNextSeqNumberToSend \in 0 .. MaxSent
          /\ out \in Seq(Ordinals) /\ Len(out) <= Flight
          /\ strays \in 0 .. MaxStrays
          /\ rx_temp_buffer \in Ordinals \cup {Stray}
          /\ notified \in BOOLEAN
          /\ rxPc \in {"wait", "input", "header", "copy"}
          /\ frame \in Copies /\ torn \in BOOLEAN
          /\ queue \in Seq(Copies) /\ Len(queue) <= Length
          /\ xDrfRequired \in BOOLEAN
          /\ xRcvLeftWindowEdge \in 0 .. SeqSize - 1
          /\ allocated \in BOOLEAN
          /\ xListWaitingPackets \in Seq(Copies)
          /\ fault \in {"none", "released twice", "null"}

-----------------------------------------------------------------------------
StateVectorInit == /\ xNextSeqNumberToSend = 0
                   /\ xDrfRequired = TRUE
                   /\ xRcvLeftWindowEdge = 0

(* The connections of both ends have their DTPs, and the interface is up. *)
Init == /\ StateVectorInit
        /\ eState = "pending"
        /\ local = FALSE
        /\ out = <<>>
        /\ strays = 0
        /\ rx_temp_buffer = Stray
        /\ notified = FALSE
        /\ rxPc = "wait"
        /\ frame = [n |-> Stray, sdu |-> Stray]
        /\ torn = FALSE
        /\ queue = <<>>
        /\ allocated = FALSE
        /\ xListWaitingPackets = <<>>
        /\ fault = "none"

(* Mutant of SN: the number is wider than its field. *)
SNWide(n) == IF n < 0 THEN Torn(n) ELSE n

(* The sequence number of the n-th PDU, or in a torn header. *)
SN(n) == IF n < 0 THEN Torn(n) ELSE n % SeqSize

(* xNormalUpdateFlowStatus: the peer has accepted the flow, and its answer *)
(* has set the addresses of the connection.                                *)
UpdateFlowStatus == /\ eState = "pending"
                    /\ eState' = "allocated"
                    /\ local' \in BOOLEAN
                    /\ UNCHANGED <<xNextSeqNumberToSend, out, driver, queue, dtp,
                                   allocated, xListWaitingPackets, fault>>

(* The flow is found and allocated; any other SDU is destroyed. *)
FlowFound == eState = "allocated"

(* The N-1 port is idle and enabled, so that a PDU goes to the shim.  It   *)
(* may drop it: too large, no buffer, its event refused; the RMT reports   *)
(* success all the same.                                                   *)
RmtSend(n) == \/ Len(out) < Flight /\ out' = Append(out, n)
              \/ UNCHANGED out

(* xDtpPduSend: a PDU for the own address is destroyed, because xDuDecap   *)
(* finds nothing wrong with it.                                            *)
PduSend(n) == \/ ~local /\ RmtSend(n)
              \/ local /\ UNCHANGED out

(* xDuEncap gets a buffer; without one the SDU has no number when it is    *)
(* destroyed.                                                              *)
Sequencing == /\ xNextSeqNumberToSend < MaxSent
              /\ xNextSeqNumberToSend' = xNextSeqNumberToSend + 1

(* No window, no rate and no copy to retransmit. *)
DtpWrite == Sequencing /\ PduSend(xNextSeqNumberToSend')

(* xNormalDuWrite: the connection of the flow, which is never deallocated, *)
(* writes the SDU whole.                                                   *)
DuWrite == /\ FlowFound
           /\ DtpWrite
           /\ UNCHANGED <<eState, local, driver, queue, dtp, allocated,
                          xListWaitingPackets, fault>>

(* esp_ieee802154_transmit fails, or nobody receives the frame. *)
Lose == /\ out # <<>>
        /\ out' = Tail(out)
        /\ UNCHANGED <<sender, driver, queue, dtp, allocated,
                       xListWaitingPackets, fault>>

-----------------------------------------------------------------------------
(* esp_ieee802154_receive_done, the interrupt: whatever the receive task   *)
(* has not copied yet is overwritten.                                      *)
ReceiveDone(f) == /\ fault = "none"
                  /\ rx_temp_buffer' = f
                  /\ notified' = TRUE
                  /\ UNCHANGED <<sender, rxPc, frame, torn, queue, dtp, allocated,
                                 xListWaitingPackets, fault>>

ReceiveData == /\ out # <<>>
               /\ ReceiveDone(Head(out))
               /\ out' = Tail(out)
               /\ UNCHANGED strays

ReceiveStray == /\ strays < MaxStrays
                /\ strays' = strays + 1
                /\ ReceiveDone(Stray)
                /\ UNCHANGED out

At(l) == fault = "none" /\ rxPc = l

(* vShimRxTask: ulTaskNotifyTake clears the count. *)
Take == /\ At("wait")
        /\ notified
        /\ notified' = FALSE
        /\ rxPc' = "input"
        /\ UNCHANGED <<sender, out, strays, rx_temp_buffer, frame, torn, queue,
                       dtp, allocated, xListWaitingPackets, fault>>

(* vIeee802154NetworkInterfaceInput copies the frame, byte by byte, while  *)
(* interrupts overwrite it: first what lies before the number.             *)
CopyHeader == /\ At("input")
              /\ frame' = [n |-> rx_temp_buffer, sdu |-> rx_temp_buffer]
              /\ rxPc' = "header"
              /\ UNCHANGED <<sender, out, strays, rx_temp_buffer, notified, torn,
                             queue, dtp, allocated, xListWaitingPackets, fault>>

(* The low bytes of the number of a, which come first, and the high bytes  *)
(* of the number of b; a stray may have any bytes.                         *)
Mixes(a, b) ==
  {x \in 0 .. SeqSize - 1 :
     \/ Stray \in {a, b}
     \/ /\ x \notin {SN(a), SN(b)}
        /\ \E s \in Splits : x % s = SN(a) % s /\ x \div s = SN(b) \div s}

(* The header of a, the rest of which is copied from b: all data PDUs of   *)
(* the flow have the same but for the number.                              *)
Headers(a, b) == IF a = b THEN {a} ELSE {a, b} \cup {Torn(x) : x \in Mixes(a, b)}

(* ... then the number; an interrupt may have come before it, or in it. *)
CopyNumber == /\ At("header")
              /\ \E h \in Headers(frame.n, rx_temp_buffer) :
                   frame' = [n |-> h, sdu |-> rx_temp_buffer]
              /\ torn' = (torn \/ frame'.n < 0)
              /\ rxPc' \in {"header", "copy"}
              /\ UNCHANGED <<sender, out, strays, rx_temp_buffer, notified,
                             queue, dtp, allocated, xListWaitingPackets, fault>>

(* Mutant of CopyRest: the end of the frame is copied before its header. *)
CopyHeaderLast == /\ At("copy")
                  /\ frame' = [frame EXCEPT !.n = rx_temp_buffer]
                  /\ queue' = IF Len(queue) < Length THEN Append(queue, frame') ELSE queue
                  /\ rxPc' = "wait"
                  /\ UNCHANGED <<sender, out, strays, rx_temp_buffer, notified, torn,
                                 dtp, allocated, xListWaitingPackets, fault>>

(* Mutant of CopyRest: the count is cleared when the copy is done. *)
CopyRestClears == /\ At("copy")
                  /\ frame' = [frame EXCEPT !.sdu = rx_temp_buffer]
                  /\ queue' = IF Len(queue) < Length THEN Append(queue, frame') ELSE queue
                  /\ notified' = FALSE
                  /\ rxPc' = "wait"
                  /\ UNCHANGED <<sender, out, strays, rx_temp_buffer, torn, dtp,
                                 allocated, xListWaitingPackets, fault>>

(* ... then the data, and sends its event, which a full queue refuses. *)
CopyRest == /\ At("copy")
            /\ frame' = [frame EXCEPT !.sdu = rx_temp_buffer]
            /\ queue' = IF Len(queue) < Length THEN Append(queue, frame') ELSE queue
            /\ rxPc' = "wait"
            /\ UNCHANGED <<sender, out, strays, rx_temp_buffer, notified, torn,
                           dtp, allocated, xListWaitingPackets, fault>>

-----------------------------------------------------------------------------
(* vRsListInsert puts the item after the first one of the list. *)
Insert(list, p) == IF list = <<>> THEN <<p>> ELSE <<Head(list), p>> \o Tail(list)

(* xFlowAllocatorDuPost *)
DuPost(p) == xListWaitingPackets' =
               IF allocated THEN Insert(xListWaitingPackets, p)
                            ELSE xListWaitingPackets

(* No reassembly; DTP ignores a failure, so that nobody releases again the *)
(* buffer of a packet that could not be posted.                            *)
EfcpEnqueue(p) == DuPost(p) /\ UNCHANGED fault

(* The IPCP task takes the event of a frame; the shim and xNormalDuEnqueue *)
(* hand its PDU to xRmtReceive.                                            *)
Received(p) == /\ fault = "none"
               /\ queue # <<>>
               /\ p = Head(queue)
               /\ queue' = Tail(queue)
               /\ UNCHANGED <<sender, out, driver, allocated>>

(* A data PDU of this flow comes as far as xDtpReceive. *)
Receive(p) == Received(p) /\ p.n # Stray

(* What a PCI says, as far as the way of its PDU depends on it: the        *)
(* address may be nobody's (0), the cep-id of no connection; a wrong QoS   *)
(* counts as a wrong type.                                                 *)
Pcis == [dst : {"local", "other", "nobody", "wrong"},
         type : {"data", "control", "mgmt", "wrong"},
         cep : {"ours", "unbound", "wrong"}]

(* xEfcpReceive: no connection has a DTCP to take a control PDU. *)
EfcpReceive(pci) == IF pci.type = "control" THEN "destroyed" ELSE "data"

(* xEfcpContainerReceive looks the connection up. *)
ContainerReceive(pci) == IF pci.cep = "ours" THEN EfcpReceive(pci) ELSE "destroyed"

(* xRmtProcessDtPdu *)
ProcessDtPdu(pci) == IF pci.cep = "wrong" THEN "destroyed" ELSE ContainerReceive(pci)

(* xRmtReceive, for a PDU that xDuDecap finds to have a type: destroyed,   *)
(* handed to the RIB daemon, or left to the caller, if not data of the     *)
(* flow.                                                                   *)
RmtReceive(pci) ==
  CASE pci.type = "wrong" \/ pci.dst = "wrong" -> "destroyed"
    [] pci.dst = "other" -> "left"
    [] pci.dst = "nobody" \/ pci.type = "mgmt" -> "managed"
    [] OTHER -> ProcessDtPdu(pci)

(* Who refuses a PDU destroys it, and the handler of frames releases the   *)
(* buffer once more; it releases also what the RMT has left.               *)
StrayPdu(p) == /\ Received(p)
               /\ p.n = Stray
               /\ \E pci \in Pcis :
                    \/ RmtReceive(pci) = "destroyed" /\ fault' = "released twice"
                    \/ RmtReceive(pci) \in {"left", "managed"} /\ UNCHANGED fault
               /\ UNCHANGED <<dtp, xListWaitingPackets>>

(* The first PDU, which has the data run flag as all PDUs of the peer. *)
ReceiveFirst(p) == /\ Receive(p)
                   /\ xDrfRequired
                   /\ xDrfRequired' = FALSE
                   /\ xRcvLeftWindowEdge' = SN(p.n)
                   /\ EfcpEnqueue(p)

(* A PDU below the window: DTP destroys it and returns 0, on which the     *)
(* handler of frames releases the buffer once more.                        *)
ReceiveOld(p) == /\ Receive(p)
                 /\ ~xDrfRequired
                 /\ SN(p.n) <= xRcvLeftWindowEdge
                 /\ fault' = "released twice"
                 /\ UNCHANGED <<dtp, xListWaitingPackets>>

(* Mutant of ReceiveNew: the edge follows every PDU. *)
ReceiveNewMoves(p) == /\ Receive(p)
                      /\ ~xDrfRequired
                      /\ SN(p.n) > xRcvLeftWindowEdge
                      /\ xRcvLeftWindowEdge' = SN(p.n)
                      /\ EfcpEnqueue(p)
                      /\ UNCHANGED xDrfRequired

(* Mutant of ReceiveNew: the PDU at the edge passes for a new one. *)
ReceiveNewAtEdge(p) == /\ Receive(p)
                       /\ ~xDrfRequired
                       /\ SN(p.n) >= xRcvLeftWindowEdge
                       /\ xRcvLeftWindowEdge' = IF SN(p.n) = xRcvLeftWindowEdge + 1
                                                THEN SN(p.n) ELSE xRcvLeftWindowEdge
                       /\ EfcpEnqueue(p)
                       /\ UNCHANGED xDrfRequired

(* A PDU past the edge; the edge moves only to the next number. *)
ReceiveNew(p) == /\ Receive(p)
                 /\ ~xDrfRequired
                 /\ SN(p.n) > xRcvLeftWindowEdge
                 /\ xRcvLeftWindowEdge' = IF SN(p.n) = xRcvLeftWindowEdge + 1
                                          THEN SN(p.n) ELSE xRcvLeftWindowEdge
                 /\ EfcpEnqueue(p)
                 /\ UNCHANGED xDrfRequired

(* xFlowAllocatorHandleCreateR: the flow is allocated. *)
Allocate == /\ fault = "none"
            /\ ~allocated
            /\ allocated' = TRUE
            /\ UNCHANGED <<sender, out, driver, queue, dtp,
                           xListWaitingPackets, fault>>

(* RINA_flow_read takes the owner of the head of the list for a packet; it *)
(* is NULL.                                                                *)
FlowRead == /\ fault = "none"
            /\ allocated
            /\ xListWaitingPackets # <<>>
            /\ fault' = "null"
            /\ UNCHANGED <<sender, out, driver, queue, dtp, allocated,
                           xListWaitingPackets>>

Next == \/ UpdateFlowStatus \/ DuWrite \/ Lose
        \/ ReceiveData \/ ReceiveStray \/ Take \/ CopyHeader \/ CopyNumber \/ CopyRest
        \/ \E p \in Copies : StrayPdu(p) \/ ReceiveFirst(p) \/ ReceiveOld(p) \/ ReceiveNew(p)
        \/ Allocate \/ FlowRead

Spec == Init /\ [][Next]_vars

-----------------------------------------------------------------------------
(* The packets that wait, in the order in which they arrived. *)
Arrived == LET list == xListWaitingPackets
           IN IF list = <<>> THEN <<>> ELSE <<Head(list)>> \o Reverse(Tail(list))

Posted == {Arrived[i].n : i \in DOMAIN Arrived}

(* The window covers what has arrived: numbers have not wrapped, no packet *)
(* has a torn header, and the first lies at or below the edge.             *)
InWindow == /\ xListWaitingPackets # <<>>
            /\ xNextSeqNumberToSend < SeqSize
            /\ Posted \subseteq Ordinals
            /\ Arrived[1].n <= xRcvLeftWindowEdge

(* Whatever the interrupt overwrites and the radio loses, and even as the  *)
(* numbers wrap: packets arrive in order, in at most two copies; one with  *)
(* a torn header may come between them, no earlier than its data allows.   *)
Stream == INSTANCE LossyStream WITH sent <- xNextSeqNumberToSend, got <- Arrived
StreamSpec == Stream!Spec

(* Until a torn header passes for a PDU, the left edge of the window never *)
(* passes a PDU that has not arrived.                                      *)
NothingMissingBelowEdge ==
  InWindow => Arrived[1].n .. xRcvLeftWindowEdge \subseteq Posted

(* As long as no header is torn and no PDU is missing none is delivered a  *)
(* second time.                                                            *)
DuplicateOnlyAfterGap ==
  InWindow => \A i, j \in DOMAIN Arrived :
                i < j /\ Arrived[i].n = Arrived[j].n
                  => ~(Arrived[1].n .. Arrived[i].n \subseteq Posted)

(* A receive task that waits has copied the last frame it was given, and   *)
(* copied it whole: no wake-up is lost, though several interrupts give one.*)
LastFrameTaken == rxPc = "wait" /\ ~notified
                    => frame = [n |-> rx_temp_buffer, sdu |-> rx_temp_buffer]

(* BufferManagement.c:375: a double release is fatal, don't do it any more. *)
NeverReleasedTwice == fault # "released twice"
=============================================================================

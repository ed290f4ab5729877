----------------------------- MODULE IpcpEvents -----------------------------
(***************************************************************************)
(* The event queue of the IPCP task (IPCP_task.c over posix_rsqueue.c) and *)
(* the threads around it: the receive task of the driver, which wraps each *)
(* frame in a network buffer, the applications, which write SDUs and call  *)
(* the flow API, and the IPCP task, which empties the queue and, for most  *)
(* events, writes an SDU of its own into the queue it reads.               *)
(*                                                                         *)
(* An event stands for the buffer it points to; network buffers are        *)
(* counted here, and detailed in NetBuffers.                               *)
(***************************************************************************)
EXTENDS Integers, Sequences, FiniteSets

CONSTANTS Drivers,     \* receive tasks of network interfaces
          Apps,        \* threads that use the RINA API, the main thread too
          Ipcp,        \* the IPCP task
          Length,      \* uxQueueLength of the event queue
          Buffers,     \* NUM_NETWORK_BUFFER_DESCRIPTORS
          Leftovers,   \* bound: events that an earlier run has left
          Controls,    \* bound: events without a buffer that are under way
          MaxTaken     \* bound: buffers taken while one event is handled

Threads == Drivers \cup Apps \cup {Ipcp}

ASSUME IpcpEventsAssumption ==
         /\ IsFiniteSet(Threads)
         /\ Drivers \cap Apps = {} /\ Ipcp \notin Drivers \cup Apps
         /\ Length \in Nat \ {0} /\ Buffers \in Nat
         /\ Leftovers \in 0 .. Length
         /\ Controls \in Nat /\ MaxTaken \in Nat

VARIABLES
  xIpcpTaskInitialised,
  queue,     \* xStackEventQueue: the kinds of the events in it
  free,      \* free network buffers
  lost,      \* network buffers that nothing points to any more
  unread,    \* network buffers in the lists of packets that wait for a reader
  controls,  \* events without a buffer that are under way
  pc, ev,    \* where a thread is in sending, and the event it sends
  handled,   \* the event that the IPCP task handles
  held,      \* other buffers that it works with, to encapsulate and to write
  taken,     \* how many it has taken so far for that event
  crashed    \* NULL was dereferenced, or a buffer released twice

counts == <<lost, unread, held, taken>>
vars == <<xIpcpTaskInitialised, queue, free, counts, controls, pc, ev, handled,
          crashed>>

(* eNetworkRxEvent, eStackTxEvent, eNetworkTxEvent, and the events of the  *)
(* flow API and of the IPC manager, which carry no network buffer.         *)
Kinds == {"rx", "sdu", "tx", "control"}

(* What may be in the queue: events, and those of an earlier run.          *)
Messages == Kinds \cup {"stale"}

(* What the IPCP task handles: an event; the PDU found in a received frame. *)
Handled == Messages \cup {"pdu", "none"}

TypeOK == /\ xIpcpTaskInitialised \in BOOLEAN
          /\ queue \in Seq(Messages)
          /\ free \in 0 .. Buffers
          /\ lost \in 0 .. Buffers /\ unread \in 0 .. Buffers
          /\ held \in 0 .. MaxTaken /\ taken \in held .. MaxTaken
          /\ handled = "none" => taken = 0
          /\ controls \in 0 .. Controls
          /\ pc \in [Threads -> {"idle", "ready?", "getattr", "send", "timed"}]
          /\ ev \in [Threads -> Kinds \cup {"none"}]
          /\ handled \in Handled
          /\ crashed \in BOOLEAN

-----------------------------------------------------------------------------
(* The message queue of the platform (FreeRTOS_POSIX_mqueue.c), which is   *)
(* opened once and never closed: a bounded FIFO.                           *)
CreateNewMessageQueue == queue = <<>>

(* A queue that an earlier run of the program has left: nobody removes it, *)
(* and where it is the kernel's (Linux) it outlives the program.  Its      *)
(* events point into the memory of that run.                               *)
LeftQueue == \E n \in 1 .. Leftovers : queue = [i \in 1 .. n |-> "stale"]

(* mq_open, without O_EXCL: a queue of this name is opened as it is.       *)
MqOpen == CreateNewMessageQueue \/ LeftQueue

(* mq_getattr: mq_curmsgs is mq_maxmsg;                                    *)
Full == Len(queue) = Length

(* mq_timedsend, without a time mq_send, waits for a place;                *)
MqSend(k) == Len(queue) < Length /\ queue' = Append(queue, k)

(* mq_timedreceive, without a time mq_receive, waits for a message.        *)
MqReceive(k) == queue # <<>> /\ k = Head(queue) /\ queue' = Tail(queue)

(* xIpcpInit has created the queue and the thread of the IPCP task. *)
Init == /\ xIpcpTaskInitialised = FALSE
        /\ MqOpen
        /\ free = Buffers
        /\ lost = 0 /\ unread = 0 /\ held = 0 /\ taken = 0
        /\ controls = 0
        /\ pc = [t \in Threads |-> "idle"]
        /\ ev = [t \in Threads |-> "none"]
        /\ handled = "none"
        /\ crashed = FALSE

In(t, l) == ~crashed /\ pc[t] = l

(* xSendEventStructToIPCPTask is called with an event of kind k. *)
Post(t, k) == /\ pc' = [pc EXCEPT ![t] = "ready?"]
              /\ ev' = [ev EXCEPT ![t] = k]

(* It returns to its caller. *)
Returned(t) == /\ pc' = [pc EXCEPT ![t] = "idle"]
               /\ ev' = [ev EXCEPT ![t] = "none"]

(* Mutant of Refused: the writer of an SDU forgets its buffer too. *)
RefusedLeaks(t) == /\ Returned(t)
                   /\ lost' = lost + IF ev[t] = "rx" THEN 1 ELSE 0
                   /\ controls' = controls - IF ev[t] = "control" THEN 1 ELSE 0
                   /\ UNCHANGED <<xIpcpTaskInitialised, queue, free, unread, held,
                                  taken, handled, crashed>>

(* It returns false.  Who writes an SDU releases the buffer; the driver    *)
(* only logs, and its buffer is lost.                                      *)
Refused(t) == /\ Returned(t)
              /\ free' = free + IF ev[t] \in {"sdu", "tx"} THEN 1 ELSE 0
              /\ lost' = lost + IF ev[t] = "rx" THEN 1 ELSE 0
              /\ controls' = controls - IF ev[t] = "control" THEN 1 ELSE 0
              /\ UNCHANGED <<xIpcpTaskInitialised, queue, unread, held, taken, handled,
                             crashed>>

(* Mutant of Queued: the event overtakes those in the queue. *)
QueuedFirst(t) == /\ ~Full
                  /\ queue' = <<ev[t]>> \o queue
                  /\ Returned(t)
                  /\ UNCHANGED <<xIpcpTaskInitialised, free, counts, controls, handled,
                                 crashed>>

(* The event is in the queue. *)
Queued(t) == /\ MqSend(ev[t])
             /\ Returned(t)
             /\ UNCHANGED <<xIpcpTaskInitialised, free, counts, controls, handled,
                            crashed>>

-----------------------------------------------------------------------------
(* vIeee802154NetworkInterfaceInput: a frame is copied to a new buffer.    *)
(* With no buffer, NULL is released and dereferenced.                      *)
Input(d) == /\ In(d, "idle")
            /\ IF free = 0
               THEN crashed' = TRUE /\ UNCHANGED <<free, pc, ev>>
               ELSE /\ free' = free - 1
                    /\ Post(d, "rx")
                    /\ UNCHANGED crashed
            /\ UNCHANGED <<xIpcpTaskInitialised, queue, counts, controls, handled>>

(* RINA_flow_write, after it has got a buffer. *)
FlowWrite(a) == /\ In(a, "idle")
                /\ free > 0
                /\ free' = free - 1
                /\ Post(a, "sdu")
                /\ UNCHANGED <<xIpcpTaskInitialised, queue, counts, controls, handled,
                               crashed>>

(* A call of xRINA_bind, prvConnect, RINA_close or xIpcMngrInitRinaStack   *)
(* sends an event that carries no buffer.                                  *)
Control(a) == /\ In(a, "idle")
              /\ controls < Controls
              /\ controls' = controls + 1
              /\ Post(a, "control")
              /\ UNCHANGED <<xIpcpTaskInitialised, queue, free, counts, handled,
                             crashed>>

(* As it handles an event the IPCP task takes buffers: to encapsulate an    *)
(* SDU (xDuEncap), for a message of the RIB daemon, for a frame.           *)
Take == /\ In(Ipcp, "idle")
        /\ handled \in {"control", "stale", "pdu", "sdu"}
        /\ taken < MaxTaken
        /\ free > 0
        /\ free' = free - 1
        /\ held' = held + 1
        /\ taken' = taken + 1
        /\ UNCHANGED <<xIpcpTaskInitialised, queue, lost, unread, controls, pc, ev,
                       handled, crashed>>

(* It releases one of them (xDuDestroy, or the old buffer in xDuEncap). *)
GiveBack == /\ In(Ipcp, "idle")
            /\ held > 0
            /\ free' = free + 1
            /\ held' = held - 1
            /\ UNCHANGED <<xIpcpTaskInitialised, queue, lost, unread, taken, controls,
                           pc, ev, handled, crashed>>

(* xShimIEEE802154SDUWrite sends the frame it has made to its own queue. *)
SDUWrite == /\ In(Ipcp, "idle")
            /\ held > 0
            /\ held' = held - 1
            /\ Post(Ipcp, "tx")
            /\ UNCHANGED <<xIpcpTaskInitialised, queue, free, lost, unread, taken,
                           controls, handled, crashed>>

(* How a thread may send: drivers and some API calls ask not to wait, and  *)
(* of the time of RINA_flow_write xRsTimeCheckTimeOut may leave 0.         *)
Ways(t) == {"getattr"} \cup (IF t \in Apps THEN {"timed"} ELSE {})

(* xSendEventStructToIPCPTask: refused before the task is ready; the IPCP  *)
(* task never waits.                                                       *)
CheckReady(t) ==
  /\ In(t, "ready?")
  /\ IF ~xIpcpTaskInitialised
     THEN Refused(t)
     ELSE /\ \E l \in Ways(t) : pc' = [pc EXCEPT ![t] = l]
          /\ UNCHANGED <<xIpcpTaskInitialised, queue, free, counts, controls, ev,
                         handled, crashed>>

(* xRsQueueSendToBack without timeout: mq_getattr, and only then mq_send. *)
GetAttr(t) == /\ In(t, "getattr")
              /\ IF Full
                 THEN Refused(t)
                 ELSE /\ pc' = [pc EXCEPT ![t] = "send"]
                      /\ UNCHANGED <<xIpcpTaskInitialised, queue, free, counts,
                                     controls, ev, handled, crashed>>

Send(t) == In(t, "send") /\ Queued(t)

(* The absolute time that rstime_waitnsec has made of the timeout comes,   *)
(* or has already come when prvCalculateTickTimeout looks at the clock:    *)
(* the event is refused even if there is a place (module Timespec says     *)
(* when).                                                                  *)
Expires(t) == In(t, "timed") /\ Refused(t)

(* With a timeout: mq_timedsend. *)
TimedSend(t) == \/ Expires(t)
                \/ In(t, "timed") /\ Queued(t)

-----------------------------------------------------------------------------
(* The IPCP task enters its loop. *)
Start == /\ ~crashed
         /\ ~xIpcpTaskInitialised
         /\ xIpcpTaskInitialised' = TRUE
         /\ UNCHANGED <<queue, free, counts, controls, pc, ev, handled, crashed>>

(* xRsQueueReceive, which waits for an event whatever its timeout. *)
Receive == /\ In(Ipcp, "idle")
           /\ xIpcpTaskInitialised
           /\ handled = "none"
           /\ \E k \in Messages : MqReceive(k) /\ handled' = k
           /\ UNCHANGED <<xIpcpTaskInitialised, free, counts, controls, pc, ev, crashed>>

(* Nothing is left to do for the event. *)
Handling(e) == In(Ipcp, "idle") /\ handled = e
Finished == held = 0 /\ handled' = "none" /\ taken' = 0 /\ UNCHANGED held

(* Mutant of Done: the task releases a frame after its output too. *)
DoneTwice == /\ In(Ipcp, "idle") /\ handled \notin {"none", "stale"}
             /\ free' = free + CASE handled = "control" -> 0
                                 [] handled = "tx" -> 2
                                 [] OTHER -> 1
             /\ controls' = controls - IF handled = "control" THEN 1 ELSE 0
             /\ Finished
             /\ UNCHANGED <<xIpcpTaskInitialised, queue, lost, unread, pc, ev, crashed>>

(* The event is dealt with, and its buffer has been released: by the       *)
(* filter of frames, by the RIB daemon, for a PDU of another address, after *)
(* the output of a frame, when an SDU was encapsulated or dropped.         *)
Done == /\ In(Ipcp, "idle") /\ handled \notin {"none", "stale"}
        /\ free' = free + IF handled = "control" THEN 0 ELSE 1
        /\ controls' = controls - IF handled = "control" THEN 1 ELSE 0
        /\ Finished
        /\ UNCHANGED <<xIpcpTaskInitialised, queue, lost, unread, pc, ev, crashed>>

(* What an event of an earlier run points to is not there any more; one    *)
(* that points to nothing passes for a new one.                            *)
Stale == /\ Handling("stale")
         /\ \/ crashed' = TRUE /\ UNCHANGED <<held, taken, handled>>
            \/ Finished /\ UNCHANGED crashed
         /\ UNCHANGED <<xIpcpTaskInitialised, queue, free, lost, unread, controls, pc, ev>>

(* The answer to an acknowledgement of the link forgets the frame. *)
DropFrame == /\ Handling("rx")
             /\ lost' = lost + 1
             /\ Finished
             /\ UNCHANGED <<xIpcpTaskInitialised, queue, free, unread, controls, pc, ev,
                            crashed>>

(* xDuDecap finds the PDU in a frame.  It takes a buffer that it neither   *)
(* uses nor releases; without one it reports success, but has set no PCI.  *)
Decap == /\ Handling("rx")
         /\ IF free = 0
            THEN crashed' = TRUE /\ UNCHANGED <<free, lost, handled>>
            ELSE /\ free' = free - 1
                 /\ lost' = lost + 1
                 /\ handled' = "pdu"
                 /\ UNCHANGED crashed
         /\ UNCHANGED <<xIpcpTaskInitialised, queue, unread, held, taken, controls, pc, ev>>

(* A module of the stack refuses the PDU: it destroys it and reports       *)
(* failure, and the frame is released again.                               *)
RefuseFrame == /\ Handling("rx") \/ Handling("pdu")
               /\ crashed' = TRUE
               /\ UNCHANGED <<xIpcpTaskInitialised, queue, free, counts, controls, pc, ev,
                              handled>>

(* xFlowAllocatorDuPost: the packet waits for a reader of its flow. *)
Deliver == /\ Handling("pdu")
           /\ unread' = unread + 1
           /\ Finished
           /\ UNCHANGED <<xIpcpTaskInitialised, queue, free, lost, controls, pc, ev,
                          crashed>>

(* RINA_flow_read takes the owner of the head of the list of packets, which *)
(* has none, for the first packet.                                         *)
FlowRead(a) == /\ In(a, "idle")
               /\ unread > 0
               /\ crashed' = TRUE
               /\ UNCHANGED <<xIpcpTaskInitialised, queue, free, counts, controls, pc, ev,
                              handled>>

SendStep(t) == CheckReady(t) \/ GetAttr(t) \/ Send(t) \/ TimedSend(t)
TaskStep == Start \/ Receive \/ GiveBack \/ Done \/ Stale \/ DropFrame \/ Decap \/ RefuseFrame
              \/ Deliver

Next == \/ \E d \in Drivers : Input(d)
        \/ \E a \in Apps : FlowWrite(a) \/ Control(a) \/ FlowRead(a)
        \/ Take \/ SDUWrite
        \/ \E t \in Threads : SendStep(t)
        \/ TaskStep

Spec == Init /\ [][Next]_vars

(* Threads run: the IPCP task turns its loop, and a call of anyone that    *)
(* can go on goes on.                                                      *)
FairSpec == Spec /\ WF_vars(TaskStep) /\ \A t \in Threads : WF_vars(SendStep(t))

-----------------------------------------------------------------------------
(* The threads between the start of an event and its being in the queue. *)
Sending == {t \in Threads : pc[t] # "idle"}

(* The buffers of the events that are sent, queued or handled. *)
InFlight == Buffers - (free + lost + unread + held)

(* A sender finds the queue full only when more events than it has places  *)
(* are under way, those with a buffer, those without and those that an     *)
(* earlier run may have left.  In the queue of the code, of 10 places for  *)
(* 20 buffers, this takes a burst; in one as long as configSensor.h:77-78  *)
(* asks for it cannot be.                                                  *)
FullOnlyUnderLoad == Sending # {} /\ Full => Length < (InFlight + controls) + Leftovers

(* When nothing is under way, every buffer is free but those that wait for *)
(* a reader, and those lost by the driver (a refused frame), by an         *)
(* acknowledgement or by xDuDecap: no other path keeps a buffer back.      *)
NothingKeptBack == (Sending = {} /\ queue = <<>> /\ handled = "none")
                     => free + lost + unread = Buffers

(* An event of the flow API that is in the queue gets its turn, whatever   *)
(* the traffic of frames and SDUs around it.                               *)
ControlHandled == (\E i \in DOMAIN queue : queue[i] = "control")
                    ~> (handled = "control" \/ crashed)

(* IPCP_task.c:177: the task cannot block itself while waiting for itself  *)
(* to respond.                                                             *)
IpcpNeverBlocks == ~(pc[Ipcp] = "send" /\ Len(queue) = Length)

=============================================================================

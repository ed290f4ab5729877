-------------------------- MODULE IpcpEvents_proofs --------------------------
(***************************************************************************)
(* Proofs about IpcpEvents, for any threads, queue and number of buffers.  *)
(***************************************************************************)
EXTENDS IpcpEvents, FiniteSetTheorems, TLAPS

Types == /\ queue \in Seq(Messages)
         /\ free \in Nat /\ lost \in Nat
         /\ unread \in Nat /\ held \in Nat
         /\ controls \in Int /\ controls <= Controls
         /\ pc \in [Threads -> {"idle", "ready?", "getattr", "send", "timed"}]
         /\ ev \in [Threads -> Kinds \cup {"none"}]
         /\ \A t \in Threads : pc[t] = "idle" <=> ev[t] = "none"
         /\ handled \in Handled

Busy == IF handled = "none" THEN 0 ELSE 1

(* The buffers that no event stands for. *)
Rest == (free + lost) + (unread + held)

(* Each event that is being sent, queued or handled has either a network   *)
(* buffer, which is then none of the others, or a place in controls, or is *)
(* one that an earlier run has left.                                       *)
Places == Buffers + Leftovers
Balance == (Len(queue) + Cardinality(Sending)) + (Busy + Rest) <= Places + controls

IInv == Types /\ Balance

-----------------------------------------------------------------------------
LEMMA Bounds == Buffers \in Nat /\ Controls \in Nat /\ Leftovers \in Nat /\ Places \in Nat
BY IpcpEventsAssumption DEF Places

LEMMA SendingFinite == IsFiniteSet(Sending) /\ Cardinality(Sending) \in Nat
BY IpcpEventsAssumption, FS_Subset, FS_CardinalityType DEF Sending

(* A thread that begins to send is one more that sends. *)
LEMMA SendingBegins ==
  ASSUME Types, NEW t \in Threads, pc[t] = "idle", pc' = [pc EXCEPT ![t] = "ready?"]
  PROVE  Cardinality(Sending') = Cardinality(Sending) + 1
<1>1. Sending' = Sending \cup {t} /\ t \notin Sending  BY DEF Sending, Types
<1> QED  BY <1>1, SendingFinite, FS_AddElement

(* A thread that goes on sending is no new one. *)
LEMMA SendingGoesOn ==
  ASSUME Types, NEW t \in Threads, pc[t] # "idle",
         NEW l \in {"getattr", "send", "timed"}, pc' = [pc EXCEPT ![t] = l]
  PROVE  Sending' = Sending
BY DEF Sending, Types

(* A thread whose send returns is one less that sends. *)
LEMMA SendingEnds ==
  ASSUME Types, NEW t \in Threads, pc[t] # "idle", Returned(t)
  PROVE  /\ Cardinality(Sending') = Cardinality(Sending) - 1
         /\ ev[t] \in Kinds
         /\ pc' \in [Threads -> {"idle", "ready?", "getattr", "send", "timed"}]
         /\ ev' \in [Threads -> Kinds \cup {"none"}]
         /\ \A u \in Threads : pc'[u] = "idle" <=> ev'[u] = "none"
<1>1. Sending' = Sending \ {t} /\ t \in Sending  BY DEF Sending, Types, Returned
<1>2. Cardinality(Sending') = Cardinality(Sending) - 1
  BY <1>1, SendingFinite, FS_RemoveElement
<1> QED  BY <1>2 DEF Types, Returned

(* A refused event gives back its buffer or its place, or loses the buffer. *)
LEMMA RefusedIInv ==
  ASSUME IInv, NEW t \in Threads, pc[t] # "idle", Refused(t)
  PROVE  IInv'
<1>1. Returned(t)  BY DEF Refused
<1>2. /\ Cardinality(Sending') = Cardinality(Sending) - 1
      /\ ev[t] \in {"rx", "sdu", "tx", "control"}
  BY <1>1, SendingEnds DEF IInv, Kinds
<1>3. /\ free' \in Nat /\ lost' \in Nat /\ controls' \in Int
      /\ controls' <= controls
      /\ (free' + lost') - controls' = ((free + lost) - controls) + 1
      /\ queue' = queue /\ handled' = handled
      /\ unread' = unread /\ held' = held
  <2>1. free \in Nat /\ lost \in Nat /\ controls \in Int  BY DEF IInv, Types
  <2> QED  BY <1>2, <2>1 DEF Refused
<1>4. Types'
  <2>1. controls' <= Controls  BY <1>3, Bounds DEF IInv, Types
  <2> QED  BY <1>1, <1>3, <2>1, SendingEnds DEF IInv, Types
<1>5. Balance'
  <2> DEFINE q == Len(queue)   s == Cardinality(Sending)   h == Busy
             f == Rest         g == Rest'                  d == controls'
  <2>1. h' = h /\ q' = q  BY <1>3 DEF Busy
  <2>2. s' = s - 1  BY <1>2
  <2>3. f \in Int /\ g \in Int /\ d \in Int /\ controls \in Int
    BY <1>3 DEF IInv, Types, Rest
  <2>4. g - d = (f - controls) + 1
    <3> DEFINE a == free + lost  b == free' + lost'  c == unread + held
    <3>1. f = a + c /\ g = b + c  BY <1>3 DEF Rest
    <3>2. a \in Int /\ b \in Int /\ c \in Int  BY <1>3 DEF IInv, Types
    <3>3. b - d = (a - controls) + 1  BY <1>3
    <3> HIDE DEF a, b, c, d, f, g
    <3> QED  BY <2>3, <3>1, <3>2, <3>3
  <2>5. q \in Int /\ s \in Int /\ h \in Int
    BY SendingFinite DEF IInv, Types, Busy
  <2>6. (q + s) + (h + f) <= Places + controls  BY DEF IInv, Balance
  <2>7. Balance' <=> (q' + s') + (h' + g) <= Places + d  BY DEF Balance
  <2> HIDE DEF q, s, h, f, g, d
  <2>8. (q + (s - 1)) + (h + g) <= Places + d  BY <2>3, <2>4, <2>5, <2>6, Bounds
  <2> QED  BY <2>1, <2>2, <2>7, <2>8
<1> QED  BY <1>4, <1>5 DEF IInv

(* An event that is queued counts in the queue instead of as being sent. *)
LEMMA QueuedIInv ==
  ASSUME IInv, NEW t \in Threads, pc[t] # "idle", Queued(t)
  PROVE  IInv'
<1>1. Returned(t)  BY DEF Queued
<1>2. Cardinality(Sending') = Cardinality(Sending) - 1 /\ ev[t] \in Kinds
  BY <1>1, SendingEnds DEF IInv
<1>3. queue' \in Seq(Messages) /\ Len(queue') = Len(queue) + 1
  <2>1. queue' = Append(queue, ev[t]) /\ queue \in Seq(Messages) /\ ev[t] \in Messages
    BY <1>2 DEF Queued, MqSend, IInv, Types, Messages
  <2> QED  BY <2>1
<1>4. Types'  BY <1>1, <1>3, SendingEnds DEF IInv, Types, Queued, MqSend, counts
<1>5. Balance'
  BY <1>2, <1>3, SendingFinite, IpcpEventsAssumption
     DEF IInv, Types, Balance, Queued, MqSend, Busy, Rest, counts
<1> QED  BY <1>4, <1>5 DEF IInv

(* A thread on its way to the queue changes nothing that is counted. *)
LEMMA GoesOnIInv ==
  ASSUME IInv, NEW t \in Threads, pc[t] # "idle",
         NEW l \in {"getattr", "send", "timed"}, pc' = [pc EXCEPT ![t] = l],
         UNCHANGED <<queue, free, counts, controls, ev, handled>>
  PROVE  IInv'
<1>1. Sending' = Sending  BY SendingGoesOn DEF IInv
<1>2. Types'  BY DEF IInv, Types, counts
<1>3. Balance'  BY <1>1 DEF IInv, Balance, Busy, Rest, counts
<1> QED  BY <1>2, <1>3 DEF IInv

(* A thread begins to send: a free buffer, a place, or a buffer it held. *)
LEMMA BeginsIInv ==
  ASSUME IInv, NEW t \in Threads, pc[t] = "idle", NEW k \in Kinds, Post(t, k),
         UNCHANGED <<queue, lost, unread, handled>>,
         \/ free > 0 /\ free' = free - 1 /\ UNCHANGED <<held, controls>>
         \/ controls < Controls /\ controls' = controls + 1 /\ UNCHANGED <<free, held>>
         \/ held > 0 /\ held' = held - 1 /\ UNCHANGED <<free, controls>>
  PROVE  IInv'
<1>1. Cardinality(Sending') = Cardinality(Sending) + 1
  BY SendingBegins DEF IInv, Post
<1>2. Types'  BY IpcpEventsAssumption DEF IInv, Types, Post, Kinds
<1>3. Balance'
  <2> DEFINE q == Len(queue)   s == Cardinality(Sending)   h == Busy
             f == Rest         g == Rest'                  d == controls'
  <2>1. h' = h /\ q' = q  BY DEF Busy
  <2>2. s' = s + 1  BY <1>1
  <2>3. g - d = (f - controls) - 1 /\ f \in Int /\ g \in Int /\ d \in Int
        /\ controls \in Int
    <3>1. /\ free \in Int /\ lost \in Int /\ unread \in Int /\ held \in Int
          /\ controls \in Int /\ lost' = lost /\ unread' = unread
      BY DEF IInv, Types
    <3>2. CASE free' = free - 1 /\ held' = held /\ controls' = controls
      BY <3>1, <3>2 DEF Rest
    <3>3. CASE free' = free /\ held' = held /\ controls' = controls + 1
      BY <3>1, <3>3 DEF Rest
    <3>4. CASE free' = free /\ held' = held - 1 /\ controls' = controls
      BY <3>1, <3>4 DEF Rest
    <3> QED  BY <3>2, <3>3, <3>4
  <2>4. q \in Int /\ s \in Int /\ h \in Int
    BY SendingFinite DEF IInv, Types, Busy
  <2>5. (q + s) + (h + f) <= Places + controls  BY DEF IInv, Balance
  <2>6. Balance' <=> (q' + s') + (h' + g) <= Places + d  BY DEF Balance
  <2> HIDE DEF q, s, h, f, g, d
  <2>7. (q + (s + 1)) + (h + g) <= Places + d  BY <2>3, <2>4, <2>5, Bounds
  <2> QED  BY <2>1, <2>2, <2>6, <2>7
<1> QED  BY <1>2, <1>3 DEF IInv

-----------------------------------------------------------------------------
LEMMA InitIInv == Init => IInv
<1> SUFFICES ASSUME Init PROVE IInv  OBVIOUS
<1>0. queue \in Seq(Messages) /\ Len(queue) <= Leftovers
  <2>1. CASE CreateNewMessageQueue  BY <2>1, Bounds DEF CreateNewMessageQueue
  <2>2. CASE LeftQueue  BY <2>2, Bounds DEF LeftQueue, Messages
  <2> QED  BY <2>1, <2>2 DEF Init, MqOpen
<1>1. Sending = {}  BY DEF Init, Sending
<1>2. Cardinality(Sending) = 0  BY <1>1, FS_EmptySet
<1>3. Types  BY <1>0, IpcpEventsAssumption DEF Init, Types, Messages, Kinds, Handled
<1>4. Len(queue) \in Nat /\ Busy = 0  BY <1>0 DEF Init, Busy
<1>5. Balance  BY <1>0, <1>2, <1>4, Bounds DEF Init, Balance, Rest, Places
<1> QED  BY <1>3, <1>5 DEF IInv

(* Steps of the IPCP task that send nothing: what leaves Rest was handled. *)
LEMMA TaskIInv ==
  ASSUME IInv, Types', UNCHANGED <<pc, queue>>,
         \/ (Busy' + Rest') - controls' = (Busy + Rest) - controls
         \/ (Busy' + Rest') - controls' = ((Busy + Rest) - controls) - 1
  PROVE  IInv'
<1> DEFINE q == Len(queue)   s == Cardinality(Sending)
           f == Busy + Rest  g == Busy' + Rest'  d == controls'
<1>1. q' = q /\ s' = s  BY DEF Sending
<1>2. f \in Int /\ g \in Int /\ d \in Int /\ controls \in Int
  <2>1. /\ Rest \in Int /\ Rest' \in Int /\ controls' \in Int /\ controls \in Int
    BY DEF IInv, Types, Rest
  <2>2. Busy \in Int /\ Busy' \in Int  BY DEF Busy
  <2> QED  BY <2>1, <2>2
<1>3. q \in Int /\ s \in Int  BY SendingFinite DEF IInv, Types
<1>4. (q + s) + f <= Places + controls  BY DEF IInv, Balance
<1>5. g - d = f - controls \/ g - d = (f - controls) - 1  OBVIOUS
<1>6. Balance' <=> (q' + s') + g <= Places + d  BY DEF Balance
<1> HIDE DEF q, s, f, g, d
<1>7. (q + s) + g <= Places + d  BY <1>2, <1>3, <1>4, <1>5, Bounds
<1> QED  BY <1>1, <1>6, <1>7 DEF IInv

LEMMA NextIInv == ASSUME IInv, [Next]_vars PROVE IInv'
<1>0. /\ free \in Nat /\ lost \in Nat /\ unread \in Nat /\ held \in Nat
      /\ controls \in Int /\ controls <= Controls /\ handled \in Handled
  BY DEF IInv, Types
<1>1. CASE UNCHANGED vars
  BY <1>1 DEF vars, counts, IInv, Types, Balance, Busy, Rest, Sending
<1>2. ASSUME NEW d \in Drivers, Input(d) PROVE IInv'
  <2>1. d \in Threads /\ pc[d] = "idle"  BY <1>2 DEF Threads, Input, In
  <2>2. CASE free = 0
    BY <1>2, <2>2 DEF Input, counts, IInv, Types, Balance, Busy, Rest, Sending
  <2>3. CASE free # 0
    BY <1>0, <1>2, <2>1, <2>3, BeginsIInv DEF Input, counts, Kinds
  <2> QED  BY <2>2, <2>3
<1>3. ASSUME NEW a \in Apps, FlowWrite(a) \/ Control(a) PROVE IInv'
  BY <1>3, BeginsIInv DEF FlowWrite, Control, counts, In, Threads, Kinds
<1>4. CASE SDUWrite
  BY <1>4, BeginsIInv DEF SDUWrite, In, Threads, Kinds
<1>5. ASSUME NEW t \in Threads, SendStep(t) PROVE IInv'
  <2>1. CASE CheckReady(t)
    BY <2>1, RefusedIInv, GoesOnIInv DEF CheckReady, Ways, In
  <2>2. CASE GetAttr(t)
    BY <2>2, RefusedIInv, GoesOnIInv DEF GetAttr, In
  <2>3. CASE Send(t)
    BY <2>3, QueuedIInv DEF Send, In
  <2>4. CASE TimedSend(t)
    BY <2>4, QueuedIInv, RefusedIInv DEF TimedSend, Expires, In
  <2> QED  BY <1>5, <2>1, <2>2, <2>3, <2>4 DEF SendStep
<1>6. CASE Start \/ RefuseFrame \/ \E a \in Apps : FlowRead(a)
  BY <1>6 DEF Start, RefuseFrame, FlowRead, counts, IInv, Types, Balance, Busy, Rest,
              Sending
<1>7. CASE Receive
  <2>1. /\ Head(queue) \in Messages /\ Tail(queue) \in Seq(Messages)
        /\ Len(Tail(queue)) = Len(queue) - 1
    BY <1>7 DEF Receive, MqReceive, IInv, Types
  <2>2. Busy = 0 /\ Busy' = 1  BY <1>7, <2>1 DEF Receive, MqReceive, Busy, Messages, Kinds
  <2>3. Types'  BY <1>7, <2>1 DEF Receive, MqReceive, IInv, Types, counts, Handled
  <2>4. Sending' = Sending /\ Rest' = Rest /\ controls' = controls
    BY <1>7 DEF Receive, MqReceive, Sending, Rest, counts
  <2>5. Rest \in Int /\ Len(queue) \in Int  BY <1>0 DEF Rest, IInv, Types
  <2>6. Len(queue') = Len(queue) - 1  BY <1>7, <2>1 DEF Receive, MqReceive
  <2>7. Balance'
    BY <1>0, <2>2, <2>4, <2>5, <2>6, SendingFinite, Bounds DEF IInv, Balance
  <2> QED  BY <2>3, <2>7 DEF IInv
<1>8. CASE Take \/ GiveBack
  <2>1. Types'  BY <1>0, <1>8 DEF Take, GiveBack, IInv, Types
  <2>2. Busy' + Rest' = Busy + Rest /\ Busy + Rest \in Int /\ controls' = controls
    BY <1>0, <1>8 DEF Take, GiveBack, Busy, Rest
  <2> QED  BY <1>8, <2>1, <2>2, TaskIInv DEF Take, GiveBack
<1>9. CASE Done
  <2>1. Types'
    <3>1. free' \in Nat /\ controls' \in Int /\ controls' <= Controls
      BY <1>0, <1>9, Bounds DEF Done
    <3> QED  BY <1>9, <3>1 DEF Done, Finished, IInv, Types, Handled
  <2>2. Busy = 1 /\ Busy' = 0  BY <1>9 DEF Done, Finished, Busy
  <2>3. Rest' - controls' = (Rest - controls) + 1
    <3>1. /\ lost' = lost /\ unread' = unread /\ held' = held
      BY <1>9 DEF Done, Finished
    <3>2. \/ free' = free /\ controls' = controls - 1
          \/ free' = free + 1 /\ controls' = controls
      <4>1. CASE handled = "control"  BY <1>0, <1>9, <4>1 DEF Done
      <4>2. CASE handled # "control"  BY <1>0, <1>9, <4>2 DEF Done
      <4> QED  BY <4>1, <4>2
    <3>3. CASE free' = free /\ controls' = controls - 1
      BY <1>0, <3>1, <3>3 DEF Rest
    <3>4. CASE free' = free + 1 /\ controls' = controls
      BY <1>0, <3>1, <3>4 DEF Rest
    <3> QED  BY <3>2, <3>3, <3>4
  <2>4. Rest \in Int /\ Rest' \in Int /\ controls' \in Int
    BY <1>0, <2>1 DEF Rest, Types
  <2>5. (Busy' + Rest') - controls' = (Busy + Rest) - controls
    <3> DEFINE a == Rest  b == Rest'  c == controls  d == controls'
    <3>1. a \in Int /\ b \in Int /\ c \in Int /\ d \in Int  BY <1>0, <2>4
    <3>2. b - d = (a - c) + 1  BY <2>3
    <3> HIDE DEF a, b, c, d
    <3>3. (0 + b) - d = (1 + a) - c  BY <3>1, <3>2
    <3> QED  BY <2>2, <3>3 DEF a, b, c, d
  <2>6. UNCHANGED <<pc, queue>>  BY <1>9 DEF Done
  <2> QED  BY <2>1, <2>5, <2>6, TaskIInv
<1>12. CASE Stale
  <2>1. Types'  BY <1>0, <1>12 DEF Stale, Finished, IInv, Types, Handled
  <2>2. /\ controls' = controls /\ Rest' = Rest /\ Rest \in Int
        /\ UNCHANGED <<pc, queue>>
    BY <1>0, <1>12 DEF Stale, Finished, Rest
  <2>3. Busy = 1 /\ (Busy' = 1 \/ Busy' = 0)
    BY <1>12 DEF Stale, Handling, Finished, Busy
  <2>4. CASE Busy' = 1  BY <2>1, <2>2, <2>3, <2>4, TaskIInv
  <2>5. CASE Busy' = 0
    <3>1. (0 + Rest) - controls = ((1 + Rest) - controls) - 1  BY <1>0, <2>2
    <3> QED  BY <2>1, <2>2, <2>3, <2>5, <3>1, TaskIInv
  <2> QED  BY <2>3, <2>4, <2>5
<1>10. CASE DropFrame \/ Deliver
  <2>1. Types'  BY <1>0, <1>10 DEF DropFrame, Deliver, Finished, IInv, Types, Handled
  <2>2. Busy = 1 /\ Busy' = 0 /\ controls' = controls
    BY <1>10 DEF DropFrame, Deliver, Handling, Finished, Busy
  <2>3. Rest' = Rest + 1 /\ Rest \in Int
    BY <1>0, <1>10 DEF DropFrame, Deliver, Finished, Rest
  <2> QED  BY <1>0, <1>10, <2>1, <2>2, <2>3, TaskIInv DEF DropFrame, Deliver
<1>11. CASE Decap
  <2>1. Types'  BY <1>0, <1>11 DEF Decap, IInv, Types, Handled
  <2>2. Busy' = Busy /\ Busy \in Int /\ controls' = controls
    BY <1>11 DEF Decap, Handling, Busy
  <2>3. Rest' = Rest /\ Rest \in Int  BY <1>0, <1>11 DEF Decap, Rest
  <2> QED  BY <1>0, <1>11, <2>1, <2>2, <2>3, TaskIInv DEF Decap
<1> QED
  BY <1>1, <1>2, <1>3, <1>4, <1>5, <1>6, <1>7, <1>8, <1>9, <1>10, <1>11, <1>12
     DEF Next, TaskStep

(* Whatever the length of the queue, the threads and the interleaving, a   *)
(* sender finds it full only while more events are under way than it has   *)
(* places.                                                                 *)
THEOREM QueueFullUnderLoad == Spec => []FullOnlyUnderLoad
<1>1. Spec => []IInv  BY InitIInv, NextIInv, PTL DEF Spec
<1>2. ASSUME IInv, Sending # {}, Full PROVE Length < (InFlight + controls) + Leftovers
  <2>1. Cardinality(Sending) >= 1
    BY <1>2, SendingFinite, FS_EmptySet
  <2> QED
    BY <1>2, <2>1, SendingFinite, IpcpEventsAssumption
       DEF IInv, Types, Balance, Busy, Rest, Places, InFlight, Full
<1>3. IInv => FullOnlyUnderLoad  BY <1>2 DEF FullOnlyUnderLoad
<1> QED  BY <1>1, <1>3, PTL

-----------------------------------------------------------------------------
(* Events that carry a buffer and events that do not, counted apart: those *)
(* in the queue, those being sent, and the one that is handled.            *)
Carriers == {"rx", "sdu", "tx"}
InQueue(K) == {i \in DOMAIN queue : queue[i] \in K}
Senders(K) == {t \in Threads : ev[t] \in K}
UnderWay(K) == Cardinality(InQueue(K)) + Cardinality(Senders(K))

Worked == IF handled \in Carriers \cup {"pdu"} THEN 1 ELSE 0
Asked == IF handled = "control" THEN 1 ELSE 0

(* No buffer is counted twice or not at all; likewise places of events     *)
(* without one.                                                            *)
Counted == /\ UnderWay(Carriers) + (Worked + Rest) = Buffers
           /\ UnderWay({"control"}) + Asked = controls

TakenTypes == /\ taken \in Nat /\ held <= taken /\ taken <= MaxTaken
              /\ handled = "none" => taken = 0
              /\ xIpcpTaskInitialised \in BOOLEAN /\ crashed \in BOOLEAN

LEMMA UnderWayType ==
  ASSUME Types, NEW K
  PROVE  /\ IsFiniteSet(InQueue(K)) /\ Cardinality(InQueue(K)) \in Nat
         /\ IsFiniteSet(Senders(K)) /\ Cardinality(Senders(K)) \in Nat
         /\ UnderWay(K) \in Nat
<1>1. IsFiniteSet(InQueue(K))
  <2>1. InQueue(K) \subseteq 1 .. Len(queue)  BY DEF InQueue, Types
  <2>2. IsFiniteSet(1 .. Len(queue))  BY FS_Interval DEF Types
  <2> QED  BY <2>1, <2>2, FS_Subset
<1>2. IsFiniteSet(Senders(K))  BY IpcpEventsAssumption, FS_Subset DEF Senders
<1> QED  BY <1>1, <1>2, FS_CardinalityType DEF UnderWay

(* An event is sent. *)
LEMMA PostUnderWay ==
  ASSUME Types, NEW K \in SUBSET Kinds, NEW t \in Threads, pc[t] = "idle",
         NEW k \in Kinds, Post(t, k), queue' = queue
  PROVE  UnderWay(K)' = UnderWay(K) + IF k \in K THEN 1 ELSE 0
<1>1. InQueue(K)' = InQueue(K)  BY DEF InQueue
<1>2. t \notin Senders(K)  BY DEF Senders, Types, Kinds
<1>3. Senders(K)' = IF k \in K THEN Senders(K) \cup {t} ELSE Senders(K)
  BY <1>2 DEF Senders, Post, Types
<1>4. Cardinality(Senders(K)') = Cardinality(Senders(K)) + IF k \in K THEN 1 ELSE 0
  <2>1. IsFiniteSet(Senders(K)) /\ Cardinality(Senders(K)) \in Nat  BY UnderWayType
  <2>2. Cardinality(Senders(K) \cup {t}) = Cardinality(Senders(K)) + 1
    BY <1>2, <2>1, FS_AddElement
  <2> QED  BY <1>3, <2>1, <2>2
<1> QED  BY <1>1, <1>4, UnderWayType DEF UnderWay

(* A send returns. *)
LEMMA ReturnSenders ==
  ASSUME Types, NEW K \in SUBSET Kinds, NEW t \in Threads, Returned(t)
  PROVE  Cardinality(Senders(K)') = Cardinality(Senders(K)) - IF ev[t] \in K THEN 1 ELSE 0
<1>1. Senders(K)' = Senders(K) \ {t}  BY DEF Senders, Returned, Types, Kinds
<1>2. ev[t] \in K <=> t \in Senders(K)  BY DEF Senders
<1>3. IsFiniteSet(Senders(K)) /\ Cardinality(Senders(K)) \in Nat  BY UnderWayType
<1>4. Cardinality(Senders(K) \ {t}) = IF t \in Senders(K) THEN Cardinality(Senders(K)) - 1
                                                        ELSE Cardinality(Senders(K))
  BY <1>3, FS_RemoveElement
<1> QED  BY <1>1, <1>2, <1>3, <1>4

LEMMA QueuedUnderWay ==
  ASSUME Types, NEW K \in SUBSET Kinds, NEW t \in Threads, pc[t] # "idle", Queued(t)
  PROVE  UnderWay(K)' = UnderWay(K)
<1> DEFINE l == Len(queue) + 1
<1>1. /\ queue \in Seq(Messages) /\ ev[t] \in Messages /\ queue' = Append(queue, ev[t])
  BY DEF Queued, MqSend, Types, Messages
<1>2. /\ DOMAIN queue = 1 .. Len(queue) /\ DOMAIN queue' = 1 .. l /\ Len(queue) \in Nat
      /\ queue'[l] = ev[t] /\ \A i \in DOMAIN queue : queue'[i] = queue[i]
  BY <1>1
<1>3. l \notin InQueue(K)  BY <1>2 DEF InQueue
<1>4. InQueue(K)' = IF ev[t] \in K THEN InQueue(K) \cup {l} ELSE InQueue(K)
  <2>1. \A i : i \in DOMAIN queue' <=> i \in DOMAIN queue \/ i = l  BY <1>2
  <2> QED  BY <1>2, <2>1 DEF InQueue
<1> HIDE DEF l
<1>5. Cardinality(InQueue(K)') = Cardinality(InQueue(K)) + IF ev[t] \in K THEN 1 ELSE 0
  <2>1. IsFiniteSet(InQueue(K)) /\ Cardinality(InQueue(K)) \in Nat  BY UnderWayType
  <2>2. Cardinality(InQueue(K) \cup {l}) = Cardinality(InQueue(K)) + 1
    BY <1>3, <2>1, FS_AddElement
  <2> QED  BY <1>4, <2>1, <2>2
<1>6. Cardinality(Senders(K)') = Cardinality(Senders(K)) - IF ev[t] \in K THEN 1 ELSE 0
  BY ReturnSenders DEF Queued
<1> QED  BY <1>5, <1>6, UnderWayType DEF UnderWay

(* The first event leaves the queue; the others move up. *)
LEMMA ReceiveUnderWay ==
  ASSUME Types, NEW K \in SUBSET Kinds, queue # <<>>, queue' = Tail(queue), ev' = ev
  PROVE  UnderWay(K)' = UnderWay(K) - IF Head(queue) \in K THEN 1 ELSE 0
<1> DEFINE R == InQueue(K) \ {1}
           f == [i \in R |-> i - 1]
<1>1. /\ queue \in Seq(Messages) /\ Len(queue) \in Nat \ {0}
      /\ DOMAIN queue = 1 .. Len(queue) /\ DOMAIN queue' = 1 .. Len(queue) - 1
      /\ Head(queue) = queue[1]
      /\ \A i \in 1 .. Len(queue) - 1 : queue'[i] = queue[i + 1]
  BY DEF Types
<1>2. f \in Bijection(R, InQueue(K)')
  <2>1. \A i \in R : i \in Int /\ i - 1 \in InQueue(K)'
    BY <1>1 DEF InQueue
  <2>2. f \in [R -> InQueue(K)']  BY <2>1
  <2>3. \A i, j \in R : f[i] = f[j] => i = j  BY <2>1
  <2>4. \A i \in InQueue(K)' : i + 1 \in R /\ f[i + 1] = i
    BY <1>1 DEF InQueue
  <2> QED  BY <2>2, <2>3, <2>4 DEF Bijection, Injection, IsInjective, Surjection
<1>3. IsFiniteSet(R)
      /\ Cardinality(R) = Cardinality(InQueue(K)) - IF 1 \in InQueue(K) THEN 1 ELSE 0
  BY UnderWayType, FS_RemoveElement
<1>4. Cardinality(InQueue(K)') = Cardinality(R)
  BY <1>2, <1>3, FS_Bijection DEF ExistsBijection
<1>5. 1 \in InQueue(K) <=> Head(queue) \in K  BY <1>1 DEF InQueue
<1>6. Senders(K)' = Senders(K)  BY DEF Senders
<1> HIDE DEF R
<1> QED  BY <1>3, <1>4, <1>5, <1>6, UnderWayType DEF UnderWay

(* What arrives on one side has left another. *)
LEMMA CountedKept ==
  ASSUME Types, Types', Counted, NEW a \in Int, NEW b \in Int,
         UnderWay(Carriers)' = UnderWay(Carriers) + a,
         Worked' + Rest' = (Worked + Rest) - a,
         UnderWay({"control"})' = UnderWay({"control"}) + b,
         Asked' - controls' = (Asked - controls) - b
  PROVE  Counted'
<1> DEFINE u == UnderWay(Carriers)  w == Worked + Rest  u2 == UnderWay(Carriers)'
           w2 == Worked' + Rest'    v == UnderWay({"control"})
           v2 == UnderWay({"control"})'  x == Asked  x2 == Asked'  c2 == controls'
<1>1. u \in Int /\ v \in Int  BY UnderWayType
<1>2. w \in Int /\ x \in Int /\ controls \in Int
  BY DEF Worked, Rest, Asked, Types
<1>3. x2 \in Int /\ c2 \in Int  BY DEF Asked, Types
<1>4. u + w = Buffers /\ v + x = controls  BY DEF Counted
<1>5. u2 = u + a /\ w2 = w - a /\ v2 = v + b /\ x2 - c2 = (x - controls) - b
  OBVIOUS
<1>6. Counted' <=> u2 + w2 = Buffers /\ v2 + x2 = c2  BY DEF Counted
<1> HIDE DEF u, v, w, u2, v2, w2, x, x2, c2
<1>7. u2 + w2 = Buffers  BY <1>1, <1>2, <1>4, <1>5, Bounds
<1>8. v2 + x2 = c2  BY <1>1, <1>2, <1>3, <1>4, <1>5
<1> QED  BY <1>6, <1>7, <1>8

(* Nothing is sent, queued or received. *)
LEMMA UnderWaySame ==
  ASSUME Types, UNCHANGED <<queue, ev>>
  PROVE  \A K : UnderWay(K)' = UnderWay(K) + 0
<1> SUFFICES ASSUME NEW K PROVE UnderWay(K)' = UnderWay(K) + 0  OBVIOUS
<1>1. InQueue(K)' = InQueue(K) /\ Senders(K)' = Senders(K)  BY DEF InQueue, Senders
<1> QED  BY <1>1, UnderWayType DEF UnderWay

LEMMA InitCounted == Init => TakenTypes /\ Counted
<1> SUFFICES ASSUME Init PROVE TakenTypes /\ Counted  OBVIOUS
<1>1. \A K \in SUBSET Kinds : UnderWay(K) = 0
  <2> SUFFICES ASSUME NEW K \in SUBSET Kinds PROVE UnderWay(K) = 0  OBVIOUS
  <2>1. \A i \in DOMAIN queue : queue[i] = "stale"
    BY DEF Init, MqOpen, CreateNewMessageQueue, LeftQueue
  <2>2. InQueue(K) = {}  BY <2>1 DEF InQueue, Kinds
  <2>3. Senders(K) = {}  BY DEF Init, Senders, Kinds
  <2> QED  BY <2>2, <2>3, FS_EmptySet DEF UnderWay
<1>2. UnderWay(Carriers) = 0 /\ UnderWay({"control"}) = 0
  BY <1>1 DEF Carriers, Kinds
<1>3. Worked = 0 /\ Asked = 0 /\ Rest = Buffers
  BY Bounds DEF Init, Worked, Asked, Rest, Carriers
<1>4. Counted  BY <1>2, <1>3, Bounds DEF Counted, Init
<1>5. taken \in Nat /\ held <= taken /\ taken <= MaxTaken
  BY IpcpEventsAssumption DEF Init
<1>6. TakenTypes  BY <1>5 DEF Init, TakenTypes
<1> QED  BY <1>4, <1>6

(* A step that sends, queues and receives nothing keeps the counts if what *)
(* it does with buffers and places adds up.                                *)
LEMMA TaskCounted ==
  ASSUME Types, Types', Counted, UNCHANGED <<queue, ev>>,
         Worked' + Rest' = Worked + Rest,
         Asked' - controls' = Asked - controls
  PROVE  Counted'
<1>1. Worked + Rest \in Int /\ Asked - controls \in Int
  BY DEF Worked, Rest, Asked, Types
<1>2. /\ UnderWay(Carriers)' = UnderWay(Carriers) + 0
      /\ UnderWay({"control"})' = UnderWay({"control"}) + 0
  BY UnderWaySame
<1>3. Worked' + Rest' = (Worked + Rest) - 0 /\ Asked' - controls' = (Asked - controls) - 0
  BY <1>1
<1> QED  BY <1>2, <1>3, CountedKept

(* An event with a buffer is sent. *)
LEMMA CarrierBegins ==
  ASSUME Types, Types', Counted, NEW t \in Threads, pc[t] = "idle",
         NEW k \in Carriers, Post(t, k), UNCHANGED <<queue, lost, unread, controls, handled>>,
         \/ free' = free - 1 /\ held' = held
         \/ free' = free /\ held' = held - 1
  PROVE  Counted'
<1>1. /\ UnderWay(Carriers)' = UnderWay(Carriers) + 1
      /\ UnderWay({"control"})' = UnderWay({"control"}) + 0
  BY PostUnderWay, UnderWayType DEF Carriers, Kinds
<1>2. Rest' = Rest - 1 /\ Rest \in Int
  <2>1. /\ free \in Int /\ lost \in Int /\ unread \in Int /\ held \in Int
        /\ lost' = lost /\ unread' = unread
    BY DEF Types
  <2> QED  BY <2>1 DEF Rest
<1>3. Worked' = Worked /\ Worked \in Int  BY DEF Worked
<1>4. Asked' = Asked /\ Asked - controls \in Int /\ controls' = controls
  BY DEF Asked, Types
<1>5. Worked' + Rest' = (Worked + Rest) - 1  BY <1>2, <1>3
<1>6. Asked' - controls' = (Asked - controls) - 0  BY <1>4
<1> QED  BY <1>1, <1>5, <1>6, CountedKept

LEMMA ControlBegins ==
  ASSUME Types, Types', Counted, NEW a \in Apps, Control(a)
  PROVE  Counted'
<1>1. /\ UnderWay(Carriers)' = UnderWay(Carriers) + 0
      /\ UnderWay({"control"})' = UnderWay({"control"}) + 1
  BY PostUnderWay, UnderWayType DEF Carriers, Kinds, Control, In, Threads
<1>2. Worked' + Rest' = (Worked + Rest) - 0
  BY DEF Control, Worked, Rest, counts, Types
<1>3. Asked' - controls' = (Asked - controls) - 1
  BY DEF Control, Asked, counts, Types
<1> QED  BY <1>1, <1>2, <1>3, CountedKept

LEMMA RefusedCounted ==
  ASSUME Types, Types', Counted, NEW t \in Threads, pc[t] # "idle", Refused(t)
  PROVE  Counted'
<1> DEFINE a == IF ev[t] \in Carriers THEN 1 ELSE 0
           b == IF ev[t] \in {"control"} THEN 1 ELSE 0
<1>1. ev[t] \in {"rx", "sdu", "tx", "control"}  BY DEF Types, Kinds
<1>2. ASSUME NEW K \in SUBSET Kinds
      PROVE  UnderWay(K)' = UnderWay(K) + (0 - IF ev[t] \in K THEN 1 ELSE 0)
  <2>1. InQueue(K)' = InQueue(K)  BY DEF InQueue, Refused
  <2>2. Cardinality(Senders(K)') = Cardinality(Senders(K)) - IF ev[t] \in K THEN 1 ELSE 0
    BY ReturnSenders DEF Refused
  <2> QED  BY <2>1, <2>2, UnderWayType DEF UnderWay
<1>3. /\ UnderWay(Carriers)' = UnderWay(Carriers) + (0 - a)
      /\ UnderWay({"control"})' = UnderWay({"control"}) + (0 - b)
  BY <1>2 DEF Carriers, Kinds
<1>4. Rest' = Rest + a /\ Rest \in Int
  <2>1. /\ free \in Int /\ lost \in Int /\ unread \in Int /\ held \in Int
        /\ unread' = unread /\ held' = held
    BY DEF Types, Refused
  <2>2. (free' + lost') = (free + lost) + a  BY <1>1, <2>1 DEF Refused, Carriers
  <2>3. free' \in Int /\ lost' \in Int /\ a \in Int  BY DEF Types
  <2> DEFINE x == free + lost  y == unread + held  x2 == free' + lost'
  <2>4. Rest = x + y /\ Rest' = x2 + y /\ x2 = x + a  BY <2>1, <2>2 DEF Rest
  <2>5. x \in Int /\ y \in Int /\ a \in Int  BY <2>1, <2>3
  <2> HIDE DEF a, x, y, x2
  <2> QED  BY <2>4, <2>5
<1>5. Worked' = Worked /\ Worked \in Int /\ Asked' = Asked /\ Asked \in Int
  BY DEF Worked, Asked, Refused
<1>6. controls' = controls - b /\ controls \in Int  BY <1>1 DEF Refused, Types
<1>7. a \in Int /\ b \in Int  OBVIOUS
<1> HIDE DEF a, b
<1>8. Worked' + Rest' = (Worked + Rest) - (0 - a)  BY <1>4, <1>5, <1>7
<1>9. Asked' - controls' = (Asked - controls) - (0 - b)  BY <1>5, <1>6, <1>7
<1>10. 0 - a \in Int /\ 0 - b \in Int  BY <1>7
<1> QED  BY <1>3, <1>8, <1>9, <1>10, CountedKept

LEMMA QueuedCounted ==
  ASSUME Types, Types', Counted, NEW t \in Threads, pc[t] # "idle", Queued(t)
  PROVE  Counted'
<1>1. /\ UnderWay(Carriers)' = UnderWay(Carriers)
      /\ UnderWay({"control"})' = UnderWay({"control"})
  BY QueuedUnderWay DEF Carriers, Kinds
<1>2. Worked' = Worked /\ Rest' = Rest /\ Asked' = Asked /\ controls' = controls
  BY DEF Queued, Worked, Rest, Asked, counts
<1> QED  BY <1>1, <1>2 DEF Counted

LEMMA GoesOnCounted ==
  ASSUME Counted, UNCHANGED <<queue, ev, free, counts, controls, handled>>
  PROVE  Counted'
<1>1. \A K : UnderWay(K)' = UnderWay(K)  BY DEF UnderWay, InQueue, Senders
<1>2. Worked' = Worked /\ Rest' = Rest /\ Asked' = Asked /\ controls' = controls
  BY DEF Worked, Rest, Asked, counts
<1> QED  BY <1>1, <1>2 DEF Counted

LEMMA ReceiveCounted ==
  ASSUME Types, Types', Counted, Receive
  PROVE  Counted'
<1> DEFINE a == IF Head(queue) \in Carriers THEN 1 ELSE 0
           b == IF Head(queue) \in {"control"} THEN 1 ELSE 0
<1>1. /\ queue # <<>> /\ queue' = Tail(queue) /\ handled' = Head(queue)
      /\ Head(queue) \in Messages /\ handled = "none" /\ ev' = ev
      /\ free' = free /\ counts' = counts /\ controls' = controls
  BY DEF Receive, MqReceive
<1>2. /\ UnderWay(Carriers)' = UnderWay(Carriers) - a
      /\ UnderWay({"control"})' = UnderWay({"control"}) - b
  BY <1>1, ReceiveUnderWay DEF Carriers, Kinds
<1>3. Worked = 0 /\ Asked = 0  BY <1>1 DEF Worked, Asked, Carriers
<1>4. Worked' = a /\ Asked' = b
  BY <1>1 DEF Worked, Asked, Carriers, Messages, Kinds
<1>5. Rest' = Rest /\ Rest \in Int /\ controls \in Int
  BY <1>1 DEF Rest, counts, Types
<1>6. UnderWay(Carriers) \in Int /\ UnderWay({"control"}) \in Int  BY UnderWayType
<1>7. a \in Int /\ b \in Int  OBVIOUS
<1> HIDE DEF a, b
<1>8. Worked' + Rest' = (Worked + Rest) - (0 - a)  BY <1>3, <1>4, <1>5, <1>7
<1>9. Asked' - controls' = (Asked - controls) - (0 - b)
  BY <1>1, <1>3, <1>4, <1>5, <1>7
<1>10. 0 - a \in Int /\ 0 - b \in Int  BY <1>7
<1>11. /\ UnderWay(Carriers)' = UnderWay(Carriers) + (0 - a)
       /\ UnderWay({"control"})' = UnderWay({"control"}) + (0 - b)
  BY <1>2, <1>6, <1>7
<1> QED  BY <1>8, <1>9, <1>10, <1>11, CountedKept

LEMMA NextCounted == ASSUME Types, Types', Counted, [Next]_vars PROVE Counted'
<1>0. /\ free \in Nat /\ lost \in Nat /\ unread \in Nat /\ held \in Nat
      /\ controls \in Int
  BY DEF Types
<1>1. CASE UNCHANGED vars
  BY <1>1, GoesOnCounted DEF vars, counts
<1>2. ASSUME NEW d \in Drivers, Input(d) PROVE Counted'
  <2>1. CASE free = 0  BY <1>2, <2>1, GoesOnCounted DEF Input
  <2>2. CASE free # 0
    BY <1>2, <2>2, CarrierBegins DEF Input, In, counts, Carriers, Threads
  <2> QED  BY <2>1, <2>2
<1>3. ASSUME NEW a \in Apps, FlowWrite(a) PROVE Counted'
  BY <1>3, CarrierBegins DEF FlowWrite, In, counts, Carriers, Threads
<1>4. ASSUME NEW a \in Apps, Control(a) PROVE Counted'
  BY <1>4, ControlBegins
<1>5. CASE SDUWrite
  BY <1>5, CarrierBegins DEF SDUWrite, In, Carriers, Threads
<1>6. ASSUME NEW t \in Threads, SendStep(t) PROVE Counted'
  <2>1. CASE CheckReady(t)
    BY <2>1, RefusedCounted, GoesOnCounted DEF CheckReady, In
  <2>2. CASE GetAttr(t)
    BY <2>2, RefusedCounted, GoesOnCounted DEF GetAttr, In
  <2>3. CASE Send(t)  BY <2>3, QueuedCounted DEF Send, In
  <2>4. CASE TimedSend(t)
    BY <2>4, QueuedCounted, RefusedCounted DEF TimedSend, Expires, In
  <2> QED  BY <1>6, <2>1, <2>2, <2>3, <2>4 DEF SendStep
<1>7. CASE Start \/ RefuseFrame \/ \E a \in Apps : FlowRead(a)
  BY <1>7, GoesOnCounted DEF Start, RefuseFrame, FlowRead
<1>8. CASE Receive  BY <1>8, ReceiveCounted
<1>9. CASE Take \/ GiveBack
  <2>1. /\ Rest' = Rest /\ Worked' = Worked /\ Asked' = Asked /\ controls' = controls
        /\ UNCHANGED <<queue, ev>>
    BY <1>0, <1>9 DEF Take, GiveBack, Rest, Worked, Asked
  <2> QED  BY <2>1, TaskCounted
<1>10. CASE Done
  <2>1. /\ handled \notin {"none", "stale"} /\ handled' = "none"
        /\ lost' = lost /\ unread' = unread /\ held' = held /\ UNCHANGED <<queue, ev>>
    BY <1>10 DEF Done, Finished
  <2>2. Worked' = 0 /\ Asked' = 0  BY <2>1 DEF Worked, Asked, Carriers
  <2>3. CASE handled = "control"
    <3>1. free' = free /\ controls' = controls - 1  BY <1>0, <1>10, <2>3 DEF Done
    <3>2. Worked = 0 /\ Asked = 1  BY <2>3 DEF Worked, Asked, Carriers
    <3>3. Rest' = Rest  BY <2>1, <3>1 DEF Rest
    <3>4. Asked' - controls' = Asked - controls  BY <1>0, <2>2, <3>1, <3>2
    <3> QED  BY <2>1, <2>2, <3>2, <3>3, <3>4, TaskCounted
  <2>4. CASE handled # "control"
    <3>1. free' = free + 1 /\ controls' = controls  BY <1>0, <1>10, <2>4 DEF Done
    <3>2. handled \in {"rx", "sdu", "tx", "pdu"}
      BY <2>1, <2>4 DEF Types, Handled, Messages, Kinds
    <3>3. Worked = 1 /\ Asked = 0  BY <3>2 DEF Worked, Asked, Carriers
    <3>4. Rest' = Rest + 1 /\ Rest \in Int  BY <1>0, <2>1, <3>1 DEF Rest
    <3>5. Worked' + Rest' = Worked + Rest  BY <2>2, <3>3, <3>4
    <3> QED  BY <2>1, <2>2, <3>1, <3>3, <3>5, TaskCounted
  <2> QED  BY <2>3, <2>4
<1>11. CASE Stale
  <2>1. /\ Rest' = Rest /\ controls' = controls /\ UNCHANGED <<queue, ev>>
    BY <1>0, <1>11 DEF Stale, Finished, Rest
  <2>2. handled = "stale" /\ handled' \in {"stale", "none"}
    BY <1>11 DEF Stale, Handling, Finished
  <2>3. Worked' = Worked /\ Asked' = Asked  BY <2>2 DEF Worked, Asked, Carriers
  <2> QED  BY <2>1, <2>3, TaskCounted
<1>12. CASE DropFrame \/ Deliver
  <2>1. /\ handled \in {"rx", "pdu"} /\ handled' = "none" /\ controls' = controls
        /\ UNCHANGED <<queue, ev>>
    BY <1>12 DEF DropFrame, Deliver, Handling, Finished
  <2>2. Worked = 1 /\ Worked' = 0 /\ Asked' = Asked
    BY <2>1 DEF Worked, Asked, Carriers
  <2>3. Rest' = Rest + 1 /\ Rest \in Int
    BY <1>0, <1>12 DEF DropFrame, Deliver, Finished, Rest
  <2>4. Worked' + Rest' = Worked + Rest  BY <2>2, <2>3
  <2> QED  BY <2>1, <2>2, <2>4, TaskCounted
<1>13. CASE Decap
  <2>1. /\ handled = "rx" /\ handled' \in {"rx", "pdu"} /\ controls' = controls
        /\ UNCHANGED <<queue, ev>>
    BY <1>13 DEF Decap, Handling
  <2>2. Worked' = Worked /\ Asked' = Asked  BY <2>1 DEF Worked, Asked, Carriers
  <2>3. Rest' = Rest
    <3>1. CASE free = 0  BY <1>13, <3>1 DEF Decap, Rest
    <3>2. CASE free # 0
      <4>1. /\ free' = free - 1 /\ lost' = lost + 1 /\ unread' = unread /\ held' = held
        BY <1>13, <3>2 DEF Decap
      <4> QED  BY <1>0, <4>1 DEF Rest
    <3> QED  BY <3>1, <3>2
  <2> QED  BY <2>1, <2>2, <2>3, TaskCounted
<1> QED
  BY <1>1, <1>2, <1>3, <1>4, <1>5, <1>6, <1>7, <1>8, <1>9, <1>10, <1>11, <1>12, <1>13
     DEF Next, TaskStep

(* What the IPCP task holds it has taken for the event that it handles.    *)
LEMMA NextTaken == ASSUME Types, Types', TakenTypes, [Next]_vars PROVE TakenTypes'
<1>0. /\ held \in Nat /\ taken \in Nat /\ held <= taken /\ taken <= MaxTaken
      /\ held' \in Nat /\ MaxTaken \in Nat
  BY IpcpEventsAssumption DEF Types, TakenTypes
<1>1. /\ taken' \in Nat /\ held' <= taken' /\ taken' <= MaxTaken
      /\ handled' = "none" => taken' = 0
  <2>1. CASE Take
    BY <1>0, <2>1 DEF Take
  <2>2. CASE GiveBack \/ SDUWrite
    BY <1>0, <2>2 DEF GiveBack, SDUWrite, TakenTypes
  <2>3. CASE Done \/ Stale \/ DropFrame \/ Deliver
    BY <1>0, <2>3 DEF Done, Stale, DropFrame, Deliver, Finished, TakenTypes, Handling
  <2>4. CASE UNCHANGED <<held, taken, handled>>
    BY <1>0, <2>4 DEF TakenTypes
  <2>5. CASE Decap  BY <1>0, <2>5 DEF Decap, Handling
  <2>6. CASE Receive
    BY <1>0, <2>6 DEF Receive, MqReceive, TakenTypes, counts
  <2>7. ASSUME NEW d \in Drivers, Input(d) PROVE UNCHANGED <<held, taken, handled>>
    BY <2>7 DEF Input, counts
  <2>8. ASSUME NEW a \in Apps, FlowWrite(a) \/ Control(a) \/ FlowRead(a)
        PROVE  UNCHANGED <<held, taken, handled>>
    BY <2>8 DEF FlowWrite, Control, FlowRead, counts
  <2>9. ASSUME NEW t \in Threads, SendStep(t) PROVE UNCHANGED <<held, taken, handled>>
    BY <2>9 DEF SendStep, CheckReady, GetAttr, Send, TimedSend, Expires, Refused, Queued,
                counts
  <2>10. CASE Start \/ RefuseFrame  BY <2>4, <2>10 DEF Start, RefuseFrame, counts
  <2>11. CASE UNCHANGED vars  BY <2>4, <2>11 DEF vars, counts
  <2> QED
    BY <2>1, <2>2, <2>3, <2>4, <2>5, <2>6, <2>7, <2>8, <2>9, <2>10, <2>11
       DEF Next, TaskStep
<1>2. xIpcpTaskInitialised' \in BOOLEAN /\ crashed' \in BOOLEAN
  BY DEF TakenTypes, Next, vars, Input, FlowWrite, Control, FlowRead, Take, GiveBack,
         SDUWrite, SendStep, CheckReady, GetAttr, Send, TimedSend, Expires, Refused,
         Queued, TaskStep, Start, Receive, Done, Stale, DropFrame, Decap, RefuseFrame,
         Deliver
<1> QED  BY <1>1, <1>2 DEF TakenTypes

AllHolds == IInv /\ TakenTypes /\ Counted

LEMMA AllHoldsAlways == Spec => []AllHolds
<1>1. Init => AllHolds  BY InitIInv, InitCounted DEF AllHolds
<1>2. AllHolds /\ [Next]_vars => AllHolds'
  <2> SUFFICES ASSUME AllHolds, [Next]_vars PROVE AllHolds'  OBVIOUS
  <2>1. IInv'  BY NextIInv DEF AllHolds
  <2>2. TakenTypes' /\ Counted'
    BY <2>1, NextTaken, NextCounted DEF AllHolds, IInv
  <2> QED  BY <2>1, <2>2 DEF AllHolds
<1> QED  BY <1>1, <1>2, PTL DEF Spec

(* Every variable keeps its type.  The bounds are the balance of buffers:  *)
(* no counter passes the number of buffers, none goes below 0, however the *)
(* threads interleave and whatever the task refuses, loses or releases.    *)
THEOREM EventsTyped == Spec => []TypeOK
<1>1. ASSUME AllHolds PROVE TypeOK
  <2>1. Types /\ TakenTypes /\ Counted  BY <1>1 DEF AllHolds, IInv
  <2>2. /\ UnderWay(Carriers) \in Nat /\ UnderWay({"control"}) \in Nat
        /\ Worked \in Nat /\ Asked \in Nat
    BY <2>1, UnderWayType DEF Worked, Asked
  <2>3. /\ free \in Nat /\ lost \in Nat /\ unread \in Nat /\ held \in Nat
        /\ controls \in Int /\ controls <= Controls
    BY <2>1 DEF Types
  <2>4. free + lost + unread + held <= Buffers
    <3> DEFINE u == UnderWay(Carriers)
    <3>1. u + (Worked + Rest) = Buffers /\ u \in Nat  BY <2>1, <2>2 DEF Counted
    <3> HIDE DEF u
    <3> QED  BY <2>2, <2>3, <3>1 DEF Rest
  <2>5. controls >= 0  BY <2>1, <2>2, <2>3 DEF Counted
  <2>6. /\ free \in 0 .. Buffers /\ lost \in 0 .. Buffers /\ unread \in 0 .. Buffers
        /\ controls \in 0 .. Controls
    BY <2>3, <2>4, <2>5, Bounds
  <2>7. held \in 0 .. MaxTaken /\ taken \in held .. MaxTaken
    BY <2>1, <2>3, IpcpEventsAssumption DEF TakenTypes
  <2> QED  BY <2>1, <2>6, <2>7 DEF TypeOK, Types, TakenTypes
<1> QED  BY <1>1, AllHoldsAlways, PTL

(* When no thread sends, the queue is empty and no event is handled, every *)
(* buffer is free, waits for a reader, or is one of those that the code    *)
(* forgets: in any run with any threads, no other path keeps one back or   *)
(* releases one twice.                                                     *)
THEOREM BuffersAccounted == Spec => []NothingKeptBack
<1>1. ASSUME AllHolds, Sending = {}, queue = <<>>, handled = "none"
      PROVE  free + lost + unread = Buffers
  <2>1. Types /\ TakenTypes /\ Counted  BY <1>1 DEF AllHolds, IInv
  <2>2. Senders(Carriers) = {}  BY <1>1, <2>1 DEF Senders, Sending, Types, Carriers
  <2>3. InQueue(Carriers) = {}  BY <1>1 DEF InQueue
  <2>4. UnderWay(Carriers) = 0  BY <2>2, <2>3, FS_EmptySet DEF UnderWay
  <2>5. Worked = 0  BY <1>1 DEF Worked, Carriers
  <2>6. /\ free \in Nat /\ lost \in Nat /\ unread \in Nat /\ held \in Nat
        /\ taken \in Nat /\ held <= taken /\ taken = 0
    BY <1>1, <2>1 DEF Types, TakenTypes
  <2>7. Rest = Buffers
    BY <2>1, <2>4, <2>5, <2>6, Bounds DEF Counted, Rest
  <2> QED  BY <2>6, <2>7 DEF Rest
<1>2. AllHolds => NothingKeptBack  BY <1>1 DEF NothingKeptBack
<1> QED  BY <1>2, AllHoldsAlways, PTL

-----------------------------------------------------------------------------
(* Towards the turn of every event: the queue keeps its order, the task    *)
(* needs only so many steps for the event that it handles, and in a queue  *)
(* that is long enough nothing holds it up.                                *)

(* Each event stays where it is, or moves up by one place as the first is  *)
(* taken to be handled.                                                    *)
InTurn == \A i \in DOMAIN queue :
            \/ i \in DOMAIN queue' /\ queue'[i] = queue[i]
            \/ /\ handled = "none" /\ handled' = Head(queue)
               /\ i = 1 \/ (i - 1 \in DOMAIN queue' /\ queue'[i - 1] = queue[i])

(* The IPCP task sends only while it handles an event, which it does not   *)
(* before its loop; what it sends are frames, and it never waits a time.   *)
TaskSends == /\ handled # "none" => xIpcpTaskInitialised
             /\ (held > 0 \/ pc[Ipcp] # "idle") => handled # "none"
             /\ pc[Ipcp] # "idle" => ev[Ipcp] = "tx"
             /\ pc[Ipcp] # "timed"

(* A frame of the task is refused, or waits for a place, only by a queue   *)
(* that is full, and only under load.                                      *)
OwnFramesPass == pc[Ipcp] # "idle" =>
                   /\ xIpcpTaskInitialised /\ ev[Ipcp] = "tx" /\ pc[Ipcp] # "timed"
                   /\ Full => Length + 1 < (InFlight + controls) + Leftovers

(* How far the task is from its next event.  For each buffer it still may  *)
(* take there is a frame that it may send, in three steps.                 *)
Stage == CASE pc[Ipcp] = "idle" -> 0
           [] pc[Ipcp] = "send" -> 1
           [] pc[Ipcp] = "getattr" -> 2
           [] OTHER -> 3
Pass == IF handled = "rx" THEN 2 ELSE 1
TurnLeft == IF handled = "none" THEN 0
            ELSE (5 * (MaxTaken - taken) + 4 * held) + (Stage + Pass)

TurnAdvances == handled # "none" =>
                  UNCHANGED <<pc[Ipcp], handled, held, taken>> \/ TurnLeft' < TurnLeft

(* The steps of the others leave the event of the IPCP task to it.         *)
LEMMA OthersStep ==
  ASSUME Types, [Next]_vars,
         ~(\/ Take \/ SDUWrite \/ SendStep(Ipcp) \/ Receive \/ GiveBack \/ Done
           \/ Stale \/ DropFrame \/ Decap \/ Deliver)
  PROVE  UNCHANGED <<pc[Ipcp], ev[Ipcp], handled, held, taken>>
<1>1. ASSUME NEW d \in Drivers, Input(d)
      PROVE  UNCHANGED <<pc[Ipcp], ev[Ipcp], handled, held, taken>>
  BY <1>1, IpcpEventsAssumption DEF Input, Post, counts, Types, Threads
<1>2. ASSUME NEW a \in Apps, FlowWrite(a) \/ Control(a) \/ FlowRead(a)
      PROVE  UNCHANGED <<pc[Ipcp], ev[Ipcp], handled, held, taken>>
  BY <1>2, IpcpEventsAssumption
     DEF FlowWrite, Control, FlowRead, Post, counts, Types, Threads
<1>3. ASSUME NEW t \in Threads \ {Ipcp}, SendStep(t)
      PROVE  UNCHANGED <<pc[Ipcp], ev[Ipcp], handled, held, taken>>
  BY <1>3 DEF SendStep, CheckReady, GetAttr, Send, TimedSend, Expires, Refused, Queued,
              Returned, counts, Types, Threads
<1>4. CASE Start \/ RefuseFrame \/ UNCHANGED vars
  BY <1>4 DEF Start, RefuseFrame, vars, counts
<1> QED  BY <1>1, <1>2, <1>3, <1>4 DEF Next, TaskStep

(* A step of the task on its way to the queue. *)
LEMMA OwnStep ==
  ASSUME Types, TaskSends, SendStep(Ipcp)
  PROVE  /\ UNCHANGED <<xIpcpTaskInitialised, handled, held, taken>>
         /\ \/ /\ pc[Ipcp] = "ready?" /\ pc'[Ipcp] = "getattr" /\ ev'[Ipcp] = ev[Ipcp]
            \/ /\ pc[Ipcp] = "getattr" /\ pc'[Ipcp] = "send" /\ ev'[Ipcp] = ev[Ipcp]
            \/ /\ pc[Ipcp] \in {"ready?", "getattr", "send"}
               /\ pc'[Ipcp] = "idle"
<1>1. Ipcp \in Threads /\ Ipcp \notin Apps  BY IpcpEventsAssumption DEF Threads
<1>2. CASE CheckReady(Ipcp)
  BY <1>1, <1>2 DEF CheckReady, Ways, In, Refused, Returned, counts, Types
<1>3. CASE GetAttr(Ipcp)
  BY <1>1, <1>3 DEF GetAttr, In, Refused, Returned, counts, Types
<1>4. CASE Send(Ipcp)
  BY <1>1, <1>4 DEF Send, In, Queued, Returned, counts, Types
<1>5. ~TimedSend(Ipcp)  BY DEF TimedSend, Expires, In, TaskSends
<1> QED  BY <1>2, <1>3, <1>4, <1>5 DEF SendStep

LEMMA TaskSendsKept ==
  ASSUME Types, TaskSends, [Next]_vars
  PROVE  TaskSends'
<1>0. Ipcp \in Threads /\ held \in Nat  BY DEF Threads, Types
<1>1. CASE Take \/ GiveBack
  BY <1>0, <1>1 DEF Take, GiveBack, In, TaskSends
<1>2. CASE SDUWrite
  BY <1>0, <1>2 DEF SDUWrite, In, Post, counts, Types, TaskSends
<1>3. CASE SendStep(Ipcp)
  BY <1>0, <1>3, OwnStep DEF TaskSends
<1>4. CASE Receive
  BY <1>0, <1>4 DEF Receive, MqReceive, In, counts, TaskSends, Messages, Kinds
<1>5. CASE Done \/ Stale \/ DropFrame \/ Deliver
  BY <1>0, <1>5 DEF Done, Stale, DropFrame, Deliver, Finished, Handling, In, TaskSends
<1>6. CASE Decap
  BY <1>0, <1>6 DEF Decap, Handling, In, TaskSends
<1>7. CASE ~(\/ Take \/ SDUWrite \/ SendStep(Ipcp) \/ Receive \/ GiveBack \/ Done
             \/ Stale \/ DropFrame \/ Decap \/ Deliver)
  <2>1. UNCHANGED <<pc[Ipcp], ev[Ipcp], handled, held, taken>>  BY <1>7, OthersStep
  <2>2. xIpcpTaskInitialised => xIpcpTaskInitialised'
    BY <1>7 DEF Next, vars, Input, FlowWrite, Control, FlowRead, SendStep, CheckReady,
                GetAttr, Send, TimedSend, Expires, Refused, Queued, TaskStep, Start,
                RefuseFrame
  <2> QED  BY <2>1, <2>2 DEF TaskSends
<1> QED  BY <1>1, <1>2, <1>3, <1>4, <1>5, <1>6, <1>7

LEMMA TaskSendsAlways == Spec => [](AllHolds /\ TaskSends)
<1>1. Init => TaskSends  BY DEF Init, TaskSends, Threads
<1>2. AllHolds /\ TaskSends /\ [Next]_vars => TaskSends'
  BY TaskSendsKept DEF AllHolds, IInv
<1> QED  BY <1>1, <1>2, AllHoldsAlways, PTL DEF Spec

(* No event overtakes another, none is lost and none is taken twice: one   *)
(* that xSendEventStructToIPCPTask has put into the queue moves up by one  *)
(* place for each event that the IPCP task takes, until it is its turn to  *)
(* be handled, whoever sends meanwhile.                                    *)
THEOREM EventsInTurn == Spec => [][InTurn]_vars
<1>1. ASSUME AllHolds, [Next]_vars PROVE InTurn
  <2>0. Types  BY <1>1 DEF AllHolds, IInv
  <2>1. CASE queue' = queue  BY <2>1 DEF InTurn
  <2>2. ASSUME NEW t \in Threads, pc[t] # "idle", Queued(t) PROVE InTurn
    <3>1. /\ queue \in Seq(Messages) /\ queue' = Append(queue, ev[t])
      BY <2>0, <2>2 DEF Queued, MqSend, Types
    <3>2. ev[t] \in Messages  BY <2>0, <2>2, SendingEnds DEF Queued, Messages
    <3>3. \A i \in DOMAIN queue : i \in DOMAIN queue' /\ queue'[i] = queue[i]
      BY <3>1, <3>2
    <3> QED  BY <3>3 DEF InTurn
  <2>3. CASE Receive
    <3>1. /\ queue \in Seq(Messages) /\ Len(queue) \in Nat \ {0}
          /\ queue' = Tail(queue) /\ handled = "none" /\ handled' = Head(queue)
      BY <2>0, <2>3 DEF Receive, MqReceive, Types
    <3>2. /\ DOMAIN queue = 1 .. Len(queue) /\ DOMAIN queue' = 1 .. Len(queue) - 1
          /\ \A i \in 1 .. Len(queue) - 1 : queue'[i] = queue[i + 1]
      BY <3>1
    <3>3. \A i \in DOMAIN queue :
            i = 1 \/ (i - 1 \in DOMAIN queue' /\ queue'[i - 1] = queue[i])
      <4> SUFFICES ASSUME NEW i \in 2 .. Len(queue)
                   PROVE  i - 1 \in DOMAIN queue' /\ queue'[i - 1] = queue[i]
        BY <3>1, <3>2
      <4>1. i - 1 \in 1 .. Len(queue) - 1 /\ (i - 1) + 1 = i  BY <3>1
      <4> QED  BY <3>2, <4>1
    <3> QED  BY <3>1, <3>3 DEF InTurn
  <2>4. ASSUME NEW t \in Threads, SendStep(t) PROVE InTurn
    <3>1. queue' = queue \/ (pc[t] # "idle" /\ Queued(t))
      BY <2>4 DEF SendStep, CheckReady, GetAttr, Send, TimedSend, Expires, Refused, In
    <3> QED  BY <2>1, <2>2, <3>1
  <2>5. ASSUME NEW d \in Drivers, Input(d) PROVE queue' = queue  BY <2>5 DEF Input
  <2>6. ASSUME NEW a \in Apps, FlowWrite(a) \/ Control(a) \/ FlowRead(a)
        PROVE  queue' = queue
    BY <2>6 DEF FlowWrite, Control, FlowRead
  <2>7. CASE Take \/ SDUWrite \/ UNCHANGED vars
    BY <2>1, <2>7 DEF Take, SDUWrite, vars
  <2>8. CASE TaskStep
    BY <2>1, <2>3, <2>8 DEF TaskStep, Start, GiveBack, Done, Stale, DropFrame, Decap,
                            RefuseFrame, Deliver
  <2> QED  BY <1>1, <2>1, <2>4, <2>5, <2>6, <2>7, <2>8 DEF Next
<1>2. AllHolds /\ [Next]_vars => [InTurn]_vars  BY <1>1
<1> QED  BY <1>2, AllHoldsAlways, PTL DEF Spec

(* The IPCP task writes frames into its own queue                          *)
(* (xShimIEEE802154SDUWrite) only when it is ready, and finds the queue    *)
(* full, so that the frame is refused or the task waits for itself against *)
(* IPCP_task.c:177, only while, besides the frame and the event that it    *)
(* handles, more events are under way than the rest of the queue has       *)
(* places for, whatever its length.                                        *)
THEOREM OwnFramesRefusedUnderLoad == Spec => []OwnFramesPass
<1>1. ASSUME AllHolds, TaskSends, pc[Ipcp] # "idle", Full
      PROVE  Length + 1 < (InFlight + controls) + Leftovers
  <2>1. Ipcp \in Sending  BY <1>1 DEF Sending, Threads
  <2>2. Cardinality(Sending) >= 1  BY <2>1, SendingFinite, FS_EmptySet
  <2>3. Busy = 1  BY <1>1 DEF Busy, TaskSends
  <2> QED
    BY <1>1, <2>2, <2>3, SendingFinite, IpcpEventsAssumption
       DEF AllHolds, IInv, Types, Balance, Rest, Places, InFlight, Full
<1>2. AllHolds /\ TaskSends => OwnFramesPass  BY <1>1 DEF OwnFramesPass, TaskSends
<1> QED  BY <1>2, TaskSendsAlways, PTL

(* The IPCP task gets done with every event: each step that it takes for   *)
(* it, and each step of a send of its own, refused or not, leaves it fewer *)
(* to take, and no step of another thread gives it more.                   *)
THEOREM TurnsEnd == Spec => /\ [](TurnLeft \in Nat)
                            /\ [][TurnAdvances]_vars
<1>0. Stage \in 0 .. 3 /\ Pass \in 1 .. 2  BY DEF Stage, Pass
<1>1. ASSUME AllHolds PROVE TurnLeft \in Nat
  <2>1. MaxTaken - taken \in Nat /\ held \in Nat
    BY <1>1, IpcpEventsAssumption DEF AllHolds, IInv, Types, TakenTypes
  <2> DEFINE a == MaxTaken - taken
  <2> HIDE DEF a
  <2>2. (5 * a + 4 * held) + (Stage + Pass) \in Nat  BY <1>0, <2>1 DEF a
  <2> QED  BY <2>2 DEF TurnLeft, a
<1>2. ASSUME AllHolds, TaskSends, [Next]_vars, handled # "none"
      PROVE  UNCHANGED <<pc[Ipcp], handled, held, taken>> \/ TurnLeft' < TurnLeft
  <2>0. /\ Types /\ Ipcp \in Threads /\ held \in Nat /\ taken \in Nat
        /\ MaxTaken \in Nat /\ taken <= MaxTaken
    BY <1>2, IpcpEventsAssumption DEF AllHolds, IInv, Types, TakenTypes, Threads
  <2> DEFINE a == 5 * (MaxTaken - taken) + 4 * held
             b == 5 * (MaxTaken - taken') + 4 * held'
             s == Stage  r == Stage'  p == Pass  q == Pass'
  <2>1. s \in 0 .. 3 /\ r \in 0 .. 3 /\ p \in 1 .. 2 /\ q \in 1 .. 2
    BY DEF Stage, Pass
  <2>2. a \in Nat
    <3>1. MaxTaken - taken \in Nat  BY <2>0
    <3> QED  BY <2>0, <3>1
  <2>3. TurnLeft = a + (s + p)  BY <1>2 DEF TurnLeft
  <2>4. TurnLeft' = IF handled' = "none" THEN 0 ELSE b + (r + q)  BY DEF TurnLeft
  <2>5. handled' = handled => q = p  BY DEF Pass
  <2>6. pc'[Ipcp] = pc[Ipcp] => r = s  BY DEF Stage
  <2>7. CASE Take
    <3>1. b = a - 1  BY <2>0, <2>7 DEF Take
    <3>2. handled' = handled /\ pc' = pc  BY <2>7 DEF Take
    <3> HIDE DEF a, b, s, r, p, q
    <3> QED  BY <1>2, <2>1, <2>2, <2>3, <2>4, <2>5, <2>6, <3>1, <3>2
  <2>8. CASE GiveBack
    <3>1. b = a - 4  BY <2>0, <2>8 DEF GiveBack
    <3>2. handled' = handled /\ pc' = pc  BY <2>8 DEF GiveBack
    <3> HIDE DEF a, b, s, r, p, q
    <3> QED  BY <1>2, <2>1, <2>2, <2>3, <2>4, <2>5, <2>6, <3>1, <3>2
  <2>9. CASE SDUWrite
    <3>1. b = a - 4  BY <2>0, <2>9 DEF SDUWrite
    <3>2. handled' = handled /\ pc[Ipcp] = "idle"  BY <2>9 DEF SDUWrite, In
    <3>3. s = 0  BY <3>2 DEF Stage
    <3> HIDE DEF a, b, s, r, p, q
    <3> QED  BY <1>2, <2>1, <2>2, <2>3, <2>4, <2>5, <3>1, <3>2, <3>3
  <2>10. CASE SendStep(Ipcp)
    <3>1. UNCHANGED <<handled, held, taken>>  BY <1>2, <2>0, <2>10, OwnStep
    <3>2. b = a  BY <3>1
    <3>3. r < s  BY <1>2, <2>0, <2>10, OwnStep DEF Stage
    <3> HIDE DEF a, b, s, r, p, q
    <3> QED  BY <1>2, <2>1, <2>2, <2>3, <2>4, <2>5, <3>1, <3>2, <3>3
  <2>11. CASE Done \/ Stale \/ DropFrame \/ Deliver
    <3>1. UNCHANGED <<pc, handled, held, taken>> \/ handled' = "none"
      BY <2>11 DEF Done, Stale, DropFrame, Deliver, Finished
    <3> HIDE DEF a, b, s, r, p, q
    <3> QED  BY <2>1, <2>2, <2>3, <2>4, <3>1
  <2>12. CASE Decap
    <3>1. UNCHANGED <<pc, held, taken>>  BY <2>12 DEF Decap
    <3>2. handled' = handled \/ (handled = "rx" /\ handled' = "pdu")
      BY <2>12 DEF Decap, Handling
    <3>3. b = a  BY <3>1
    <3>4. CASE handled' = handled  BY <3>1, <3>4
    <3>5. CASE handled = "rx" /\ handled' = "pdu"
      <4>1. p = 2 /\ q = 1  BY <3>5 DEF Pass
      <4>2. r = s /\ handled' # "none"  BY <2>6, <3>1, <3>5
      <4> HIDE DEF a, b, s, r, p, q
      <4> QED  BY <2>1, <2>2, <2>3, <2>4, <3>3, <4>1, <4>2
    <3> QED  BY <3>2, <3>4, <3>5
  <2>13. CASE Receive  BY <1>2, <2>13 DEF Receive
  <2>14. CASE ~(\/ Take \/ SDUWrite \/ SendStep(Ipcp) \/ Receive \/ GiveBack \/ Done
                \/ Stale \/ DropFrame \/ Decap \/ Deliver)
    BY <1>2, <2>0, <2>14, OthersStep
  <2> QED
    BY <2>7, <2>8, <2>9, <2>10, <2>11, <2>12, <2>13, <2>14
<1>3. AllHolds => TurnLeft \in Nat  BY <1>1
<1>4. AllHolds /\ TaskSends /\ [Next]_vars => [TurnAdvances]_vars
  BY <1>2 DEF TurnAdvances
<1> QED  BY <1>3, <1>4, TaskSendsAlways, PTL DEF Spec
=============================================================================

---------------------------- MODULE Flows_proofs ----------------------------
(***************************************************************************)
(* Proofs about Flows, for any ports, tables and length of the queue.      *)
(***************************************************************************)
EXTENDS Flows, FiniteSetTheorems, TLAPS

In(e) == \E i \in 1 .. Len(queue) : queue[i] = e
Once(e) == \A i, j \in 1 .. Len(queue) : queue[i] = e /\ queue[j] = e => i = j
Row(p) == \E i \in 1 .. Len(xFlowRequestTable) : xFlowRequestTable[i] = p

Early == {"idle", "wait", "bound"}

(* Each thread asks for its flow once, and binds it first. *)
Asked ==
  \A p \in Ports :
    /\ Once(Event("bind", p)) /\ Once(Event("allocate", p))
    /\ In(Event("bind", p)) => pc[p] = "wait" /\ xFlowsList[p] = "none"
    /\ In(Event("allocate", p)) => pc[p] \notin Early /\ xFlowsList[p] # "none" /\ ~Row(p)
    /\ Row(p) => pc[p] \notin Early /\ xFlowsList[p] # "none"
    /\ pc[p] = "idle" => xFlowsList[p] = "none"
    /\ pc[p] \in {"bound", "reading", "woken"} => xFlowsList[p] # "none"
    /\ "eFLOW_BOUND" \in nEventBits[p] => xFlowsList[p] # "none"

(* What only an accepted request has. *)
Granted ==
  \A p \in Ports :
    /\ xFlowsList[p] = "allocated" <=> p \in eFaiAllocated
    /\ xFlowsList[p] = "allocated" => FAFound(p)
    /\ p \in waiting => xFlowsList[p] = "allocated"

(* The row of connections belongs to a flow that has asked for one. *)
Connected ==
  /\ xEfcpImapTable = NoConnection <=> xActive = {}
  /\ xEfcpImapTable # NoConnection => xEfcpImapTable.port \in xActive
  /\ \A p \in Ports : xFlowsList[p] = "allocated" /\ xActive = {p} =>
                        xEfcpImapTable.dst = CepId

(* A request has a callback, or was made when the table was full. *)
Pending ==
  /\ IsFiniteSet(handlers)
  /\ \A id \in handlers : id < invoke_id
  /\ \A r \in requests : r[2] \in handlers \/ Cardinality(handlers) = HandlerRows
  /\ Cardinality(handlers) <= HandlerRows
  /\ fault = "callback" => Cardinality(handlers) = HandlerRows

IInv == TypeOK /\ Asked /\ Granted /\ Connected /\ Pending

-----------------------------------------------------------------------------
LEMMA EventsDiffer ==
  ASSUME NEW k, NEW l, NEW p, NEW q, Event(k, p) = Event(l, q)
  PROVE  k = l /\ p = q
BY DEF Event

LEMMA EventsTyped == /\ Other \in Events
                     /\ \A p \in Ports : Event("bind", p) \in Events
                                         /\ Event("allocate", p) \in Events
BY DEF Other, Event, Events

LEMMA Sent ==
  ASSUME queue \in Seq(Events), NEW e \in Events, Send(e)
  PROVE  /\ queue' \in Seq(Events) /\ Len(queue') <= Length
         /\ \A f : In(f)' <=> In(f) \/ f = e
         /\ \A f : Once(f) /\ (f = e => ~In(e)) => Once(f)'
<1>1. Len(queue) \in Nat /\ Length \in Nat  BY FlowsAssumption
<1>2. /\ queue' \in Seq(Events) /\ Len(queue') = Len(queue) + 1
      /\ \A i \in 1 .. Len(queue) : queue'[i] = queue[i]
      /\ queue'[Len(queue) + 1] = e
  BY DEF Send
<1>3. Len(queue') <= Length  BY <1>1, <1>2 DEF Send
<1>4. ASSUME NEW f  PROVE In(f)' <=> In(f) \/ f = e
  BY <1>1, <1>2 DEF In
<1>5. ASSUME NEW f, Once(f), f = e => ~In(e)  PROVE Once(f)'
  BY <1>1, <1>2, <1>5 DEF In, Once
<1> QED  BY <1>2, <1>3, <1>4, <1>5

LEMMA Taken ==
  ASSUME queue \in Seq(Events), Len(queue) <= Length, NEW e, Handling(e)
  PROVE  /\ queue' \in Seq(Events) /\ Len(queue') <= Length
         /\ In(e)
         /\ \A f : In(f)' => In(f)
         /\ \A f : Once(f) => Once(f)'
         /\ Once(e) => ~In(e)'
<1>1. /\ Len(queue) \in Nat /\ Len(queue) > 0 /\ Length \in Nat /\ queue[1] = e
  BY FlowsAssumption DEF Handling
<1>2. /\ queue' \in Seq(Events) /\ Len(queue') = Len(queue) - 1
      /\ \A i \in 1 .. Len(queue') : queue'[i] = queue[i + 1]
  BY DEF Handling
<1>3. Len(queue') <= Length  BY <1>1, <1>2
<1>4. In(e)  BY <1>1 DEF In
<1>5. ASSUME NEW f, In(f)'  PROVE In(f)
  <2>1. PICK i \in 1 .. Len(queue') : queue'[i] = f  BY <1>5 DEF In
  <2>2. i + 1 \in 1 .. Len(queue) /\ queue[i + 1] = f  BY <2>1, <1>1, <1>2
  <2> QED  BY <2>2 DEF In
<1>6. ASSUME NEW f, Once(f)  PROVE Once(f)'
  BY <1>1, <1>2, <1>6 DEF Once
<1>7. ASSUME Once(e), In(e)'  PROVE FALSE
  <2>1. PICK i \in 1 .. Len(queue') : queue'[i] = e  BY <1>7 DEF In
  <2>2. i + 1 \in 1 .. Len(queue) /\ queue[i + 1] = e /\ i + 1 # 1
    BY <2>1, <1>1, <1>2
  <2> QED  BY <1>1, <1>7, <2>2 DEF Once
<1> QED  BY <1>2, <1>3, <1>4, <1>5, <1>6, <1>7

LEMMA RowAdded ==
  ASSUME TypeOK, NEW p \in Ports,
         xFlowRequestTable' = AddRow(xFlowRequestTable, p, FlowRows)
  PROVE  /\ xFlowRequestTable' \in Seq(Ports) /\ Len(xFlowRequestTable') <= FlowRows
         /\ \A q : Row(q)' => Row(q) \/ q = p
         /\ \A q : FAFound(q) => FAFound(q)'
<1>1. /\ xFlowRequestTable \in Seq(Ports) /\ Len(xFlowRequestTable) \in Nat
      /\ FlowRows \in Nat /\ Len(xFlowRequestTable) <= FlowRows
  BY FlowsAssumption DEF TypeOK
<1>2. CASE Len(xFlowRequestTable) < FlowRows
  <2>1. xFlowRequestTable' = Append(xFlowRequestTable, p)  BY <1>2 DEF AddRow
  <2>2. /\ xFlowRequestTable' \in Seq(Ports)
        /\ Len(xFlowRequestTable') = Len(xFlowRequestTable) + 1
        /\ \A i \in 1 .. Len(xFlowRequestTable) : xFlowRequestTable'[i] = xFlowRequestTable[i]
        /\ xFlowRequestTable'[Len(xFlowRequestTable) + 1] = p
    BY <1>1, <2>1
  <2>3. \A q : Row(q)' => Row(q) \/ q = p  BY <1>1, <2>2 DEF Row
  <2>4. \A q : FAFound(q) => FAFound(q)'  BY <1>1, <2>2 DEF FAFound
  <2> QED  BY <1>1, <1>2, <2>2, <2>3, <2>4
<1>3. CASE ~(Len(xFlowRequestTable) < FlowRows)
  <2>1. xFlowRequestTable' = xFlowRequestTable  BY <1>3 DEF AddRow
  <2> QED  BY <1>1, <2>1 DEF Row, FAFound
<1> QED  BY <1>2, <1>3

LEMMA FoundHasRow == ASSUME TypeOK, NEW p, FAFound(p)  PROVE Row(p)
BY DEF TypeOK, FAFound, Row

LEMMA ObjectAdded ==
  ASSUME TypeOK, NEW p \in Ports \cup {NoPort},
         xRibObjectTable' = AddRow(xRibObjectTable, p, RibRows)
  PROVE  xRibObjectTable' \in Seq(Ports \cup {NoPort}) /\ Len(xRibObjectTable') <= RibRows
<1>1. RibRows \in Nat /\ Len(xRibObjectTable) \in Nat  BY FlowsAssumption DEF TypeOK
<1>2. CASE Len(xRibObjectTable) < RibRows  BY <1>1, <1>2 DEF TypeOK, AddRow
<1>3. CASE ~(Len(xRibObjectTable) < RibRows)  BY <1>3 DEF TypeOK, AddRow
<1> QED  BY <1>2, <1>3

(* vRibdAddResponseHandler for the request that is being made. *)
LEMMA HandlerAdded ==
  ASSUME TypeOK, Pending, fault = "none", NEW p \in Ports \cup {NoPort}, SendRequest(p)
  PROVE  /\ handlers' \subseteq Nat /\ invoke_id' \in Nat
         /\ requests' \subseteq (Ports \cup {NoPort}) \X Nat
         /\ fault' \in {"none", "buffer"}
         /\ Pending'
<1> DEFINE c == Cardinality(handlers)
<1>1. /\ handlers \subseteq Nat /\ invoke_id \in Nat /\ HandlerRows \in Nat
      /\ requests \subseteq (Ports \cup {NoPort}) \X Nat
      /\ IsFiniteSet(handlers) /\ invoke_id \notin handlers /\ c <= HandlerRows
  BY FlowsAssumption DEF TypeOK, Pending
<1>2. c \in Nat  BY <1>1, FS_CardinalityType
<1>3. /\ invoke_id' = invoke_id + 1 /\ fault' \in {"none", "buffer"}
      /\ requests' \subseteq requests \cup {<<p, invoke_id>>}
  BY DEF SendRequest, FillCommon
<1>4. requests' \subseteq (Ports \cup {NoPort}) \X Nat  BY <1>1, <1>3
<1>5. handlers' = AddHandler(invoke_id)  BY DEF SendRequest
<1>6. CASE c < HandlerRows
  <2>1. handlers' = handlers \cup {invoke_id}  BY <1>5, <1>6 DEF AddHandler
  <2>2. IsFiniteSet(handlers') /\ Cardinality(handlers') = c + 1
    BY <1>1, <2>1, FS_AddElement
  <2>3. c < HandlerRows /\ c # HandlerRows /\ c + 1 <= HandlerRows
    BY <1>1, <1>2, <1>6
  <2>4. \A id \in handlers' : id < invoke_id'
    BY <1>1, <1>3, <2>1 DEF Pending
  <2>5. \A r \in requests' : r[2] \in handlers'
    BY <1>3, <2>1, <2>3 DEF Pending
  <2>6. handlers' \subseteq Nat /\ invoke_id' \in Nat  BY <1>1, <1>3, <2>1
  <2>7. Cardinality(handlers') <= HandlerRows  BY <2>2, <2>3
  <2>8. Pending'  BY <1>3, <2>2, <2>4, <2>5, <2>7 DEF Pending
  <2> QED  BY <1>3, <1>4, <2>6, <2>8
<1>7. CASE ~(c < HandlerRows)
  <2>1. handlers' = handlers  BY <1>5, <1>7 DEF AddHandler
  <2>2. c = HandlerRows  BY <1>1, <1>2, <1>7
  <2>3. \A id \in handlers' : id < invoke_id'
    BY <1>1, <1>3, <2>1 DEF Pending
  <2>4. handlers' \subseteq Nat /\ invoke_id' \in Nat  BY <1>1, <1>3, <2>1
  <2>5. IsFiniteSet(handlers') /\ Cardinality(handlers') = HandlerRows
    BY <1>1, <2>1, <2>2
  <2>6. Cardinality(handlers') <= HandlerRows  BY <1>1, <2>5
  <2>7. Pending'  BY <2>3, <2>5, <2>6 DEF Pending
  <2> QED  BY <1>3, <1>4, <2>4, <2>7
<1> QED  BY <1>6, <1>7

-----------------------------------------------------------------------------
THEOREM InitIInv == Init => IInv
<1> SUFFICES ASSUME Init  PROVE IInv  OBVIOUS
<1>1. TypeOK
  <2>1. NoConnection \in Connections \cup {NoConnection}  OBVIOUS
  <2>2. <<NoPort, NoPort>> \in Seq(Ports \cup {NoPort}) /\ Len(<<NoPort, NoPort>>) = 2
    OBVIOUS
  <2>3. /\ <<>> \in Seq(Events) /\ <<>> \in Seq(Ports) /\ Len(<<>>) = 0
        /\ 0 <= Length /\ 0 <= FlowRows /\ 2 <= RibRows
    BY FlowsAssumption
  <2>4. /\ queue \in Seq(Events) /\ Len(queue) <= Length
        /\ xFlowRequestTable \in Seq(Ports) /\ Len(xFlowRequestTable) <= FlowRows
        /\ xRibObjectTable \in Seq(Ports \cup {NoPort}) /\ Len(xRibObjectTable) <= RibRows
    BY <2>2, <2>3 DEF Init
  <2> QED  BY <2>1, <2>4 DEF Init, TypeOK
<1>2. \A e : ~In(e) /\ Once(e)  BY DEF Init, In, Once
<1>3. \A p : ~Row(p)  BY DEF Init, Row
<1>4. Asked  BY <1>2, <1>3 DEF Init, Asked
<1>5. Granted  BY DEF Init, Granted
<1>6. Connected  BY DEF Init, Connected
<1>7. Pending
  BY FS_EmptySet, FlowsAssumption DEF Init, Pending
<1> QED  BY <1>1, <1>4, <1>5, <1>6, <1>7 DEF IInv

(* A thread moves on, and may have set event bits. *)
LEMMA ThreadTypes ==
  ASSUME TypeOK, NEW p \in Ports, Thread(p)
  PROVE  TypeOK'
<1> USE EventsTyped
<1>1. /\ UNCHANGED <<flows, fa, xEfcpImapTable, rib, waiting>>
      /\ fault' \in {fault, "name", "read"}
  BY DEF Thread, BindNothing, Bind, WaitBound, AskAllocation, AskTimer, Read, WaitReceive, ReadAgain,
         TakePacket
<1>2. pc' \in [Ports -> {"idle", "wait", "bound", "asked", "returned", "reading", "woken"}]
  BY DEF Thread, BindNothing, Bind, WaitBound, AskAllocation, AskTimer, Read, WaitReceive, ReadAgain,
         TakePacket, Goto, TypeOK
<1>3. nEventBits' \in [Ports -> SUBSET Bits]
  BY DEF Thread, BindNothing, Bind, WaitBound, AskAllocation, AskTimer, Read, WaitReceive, ReadAgain,
         WaitForBit, Bits, TypeOK
<1>4. queue' = queue \/ \E e \in Events : Send(e)
  BY DEF Thread, BindNothing, Bind, WaitBound, AskAllocation, AskTimer, Read, WaitReceive, ReadAgain
<1>5. queue' \in Seq(Events) /\ Len(queue') <= Length  BY <1>4, Sent DEF TypeOK
<1> QED  BY <1>1, <1>2, <1>3, <1>5 DEF TypeOK, flows, fa, rib

LEMMA ThreadAsked ==
  ASSUME IInv, NEW p \in Ports, Thread(p)
  PROVE  Asked'
<1> USE EventsTyped DEF IInv
<1>1. /\ UNCHANGED <<xFlowsList, xFlowRequestTable>>
      /\ \A q \in Ports \ {p} : pc'[q] = pc[q] /\ nEventBits'[q] = nEventBits[q]
      /\ \A q : Row(q)' <=> Row(q)
  BY DEF Thread, BindNothing, Bind, WaitBound, AskAllocation, AskTimer, Read, WaitReceive, ReadAgain,
         TakePacket, Goto, WaitForBit, TypeOK, flows, fa, Row
<1>2. CASE Bind(p)
  <2>1. /\ pc[p] = "idle" /\ pc'[p] \in {"wait", "returned"} /\ nEventBits' = nEventBits
        /\ xFlowsList[p] = "none"
    BY <1>2 DEF Bind, At, Goto, TypeOK, Asked
  <2>2. ~In(Event("bind", p)) /\ ~In(Event("allocate", p)) /\ ~Row(p)
    BY <2>1 DEF Asked, Early
  <2>3. CASE Send(Event("bind", p)) /\ pc'[p] = "wait"
    <3>1. /\ \A f : In(f)' <=> In(f) \/ f = Event("bind", p)
          /\ \A f : Once(f) => Once(f)'
      BY <2>2, <2>3, Sent DEF TypeOK
    <3>2. \A q \in Ports : /\ Event("allocate", q) # Event("bind", p)
                           /\ Event("bind", q) = Event("bind", p) => q = p
      BY EventsDiffer
    <3> QED  BY <1>1, <2>1, <2>2, <2>3, <3>1, <3>2 DEF Asked, Early
  <2>4. CASE pc'[p] = "returned" /\ UNCHANGED queue
    <3>1. \A f : (In(f)' <=> In(f)) /\ (Once(f)' <=> Once(f))  BY <2>4 DEF In, Once
    <3> QED  BY <1>1, <2>1, <2>2, <2>4, <3>1 DEF Asked, Early
  <2> QED  BY <1>2, <2>1, <2>3, <2>4 DEF Bind, Goto, TypeOK
<1>3. CASE WaitBound(p)
  <2>1. /\ pc[p] = "wait" /\ pc'[p] = "bound" /\ xFlowsList[p] # "none" /\ ~Row(p)
        /\ ~In(Event("bind", p)) /\ ~In(Event("allocate", p))
    BY <1>3 DEF WaitBound, At, Goto, WaitForBit, TypeOK, Asked, Early
  <2>2. \A f : (In(f)' <=> In(f)) /\ (Once(f)' <=> Once(f))
    BY <1>3 DEF WaitBound, In, Once
  <2> QED  BY <1>1, <2>1, <2>2 DEF Asked
<1>4. CASE AskAllocation(p)
  <2>1. /\ pc[p] = "bound" /\ pc'[p] \in {"asked", "returned"} /\ nEventBits' = nEventBits
        /\ xFlowsList[p] # "none"
    BY <1>4 DEF AskAllocation, At, Goto, TypeOK, Asked
  <2>2. ~In(Event("bind", p)) /\ ~In(Event("allocate", p)) /\ ~Row(p)
    BY <2>1 DEF Asked, Early
  <2>3. CASE Send(Event("allocate", p))
    <3>1. /\ \A f : In(f)' <=> In(f) \/ f = Event("allocate", p)
          /\ \A f : Once(f) => Once(f)'
      BY <2>2, <2>3, Sent DEF TypeOK
    <3>2. \A q \in Ports : /\ Event("bind", q) # Event("allocate", p)
                           /\ Event("allocate", q) = Event("allocate", p) => q = p
      BY EventsDiffer
    <3> QED  BY <1>1, <2>1, <2>2, <3>1, <3>2 DEF Asked, Early
  <2>4. CASE UNCHANGED queue
    <3>1. \A f : (In(f)' <=> In(f)) /\ (Once(f)' <=> Once(f))  BY <2>4 DEF In, Once
    <3> QED  BY <1>1, <2>1, <2>2, <3>1 DEF Asked, Early
  <2> QED  BY <1>4, <2>3, <2>4 DEF AskAllocation
<1>5. CASE AskTimer(p)
  <2>1. pc[p] = "asked" /\ pc'[p] = "returned" /\ nEventBits' = nEventBits
    BY <1>5 DEF AskTimer, At, Goto, TypeOK
  <2>2. /\ \A q \in Ports, k \in {"bind", "allocate"} : In(Event(k, q))' => In(Event(k, q))
        /\ \A q \in Ports, k \in {"bind", "allocate"} : Once(Event(k, q)) => Once(Event(k, q))'
    <3>1. CASE Send(Other)
      <4>1. \A q \in Ports, k \in {"bind", "allocate"} : Event(k, q) # Other
        BY DEF Event, Other
      <4> QED  BY <3>1, <4>1, Sent DEF TypeOK
    <3>2. CASE UNCHANGED queue  BY <3>2 DEF In, Once
    <3> QED  BY <1>5, <3>1, <3>2 DEF AskTimer
  <2> QED  BY <1>1, <2>1, <2>2 DEF Asked, Early
<1>6. CASE Read(p) \/ WaitReceive(p) \/ ReadAgain(p)
  <2>1. /\ pc[p] \notin Early /\ pc'[p] \notin Early
        /\ pc'[p] \in {"reading", "woken"} => xFlowsList[p] # "none"
        /\ "eFLOW_BOUND" \in nEventBits'[p] =>
             "eFLOW_BOUND" \in nEventBits[p] \/ xFlowsList[p] # "none"
    <3>1. CASE Read(p)
      BY <3>1 DEF Read, At, Goto, TakePacket, IsFlowAllocated, TypeOK, Early
    <3>2. CASE WaitReceive(p)
      BY <3>2 DEF WaitReceive, At, Goto, TypeOK, Early, Asked
    <3>3. CASE ReadAgain(p)
      BY <3>3 DEF ReadAgain, At, Goto, TakePacket, TypeOK, Early, Asked
    <3> QED  BY <1>6, <3>1, <3>2, <3>3
  <2>2. \A f : (In(f)' <=> In(f)) /\ (Once(f)' <=> Once(f))
    BY <1>6 DEF Read, WaitReceive, ReadAgain, In, Once
  <2> QED  BY <1>1, <2>1, <2>2 DEF Asked, Early
<1>7. CASE BindNothing(p)
  <2>1. UNCHANGED <<pc, nEventBits, queue>>  BY <1>7 DEF BindNothing
  <2>2. \A f : (In(f)' <=> In(f)) /\ (Once(f)' <=> Once(f))  BY <2>1 DEF In, Once
  <2> QED  BY <1>1, <2>1, <2>2 DEF Asked, Early
<1> QED  BY <1>2, <1>3, <1>4, <1>5, <1>6, <1>7 DEF Thread

LEMMA ThreadIInv ==
  ASSUME IInv, NEW p \in Ports, Thread(p)
  PROVE  IInv'
<1>1. /\ UNCHANGED <<flows, fa, xEfcpImapTable, rib, waiting>>
      /\ fault' \in {fault, "name", "read"}
  BY DEF Thread, BindNothing, Bind, WaitBound, AskAllocation, AskTimer, Read, WaitReceive, ReadAgain,
         TakePacket
<1>2. Granted'  BY <1>1 DEF IInv, Granted, FAFound, flows, fa
<1>3. Connected'  BY <1>1 DEF IInv, Connected, flows
<1>4. Pending'  BY <1>1 DEF IInv, Pending, rib
<1> QED  BY <1>2, <1>3, <1>4, ThreadTypes, ThreadAsked DEF IInv

-----------------------------------------------------------------------------
(* An event leaves the queue, and flows stay as they are. *)
LEMMA EventAsked ==
  ASSUME IInv, NEW e, Handling(e), UNCHANGED <<pc, xFlowsList, xFlowRequestTable>>,
         \A p \in Ports : "eFLOW_BOUND" \in nEventBits'[p] =>
                            "eFLOW_BOUND" \in nEventBits[p] \/ xFlowsList[p] # "none"
  PROVE  Asked'
<1>1. /\ \A f : In(f)' => In(f)
      /\ \A f : Once(f) => Once(f)'
  BY Taken DEF IInv, TypeOK
<1>2. \A q : Row(q)' <=> Row(q)  BY DEF Row
<1> QED  BY <1>1, <1>2 DEF IInv, Asked

LEMMA OtherIInv ==
  ASSUME IInv,
         \/ OtherEvent \/ Enrol \/ RemoteCreate
         \/ \E p \in Ports : RemoteDelete(p)
         \/ \E p \in Ports \cup {NoPort}, id \in 1 .. invoke_id : Unexpected(p, id)
  PROVE  IInv'
<1>1. /\ Handling(Other)
      /\ UNCHANGED <<api, flows, fa, xEfcpImapTable, waiting>>
  BY DEF OtherEvent, Enrol, RemoteCreate, RemoteDelete, Unexpected
<1>2. queue' \in Seq(Events) /\ Len(queue') <= Length
  BY <1>1, Taken DEF IInv, TypeOK
<1>3. Asked'  BY <1>1, EventAsked DEF api, flows, fa
<1>4. Granted' /\ Connected'
  BY <1>1 DEF IInv, Granted, Connected, FAFound, flows, fa
<1>5. /\ handlers' \subseteq Nat /\ invoke_id' \in Nat
      /\ requests' \subseteq (Ports \cup {NoPort}) \X Nat
      /\ fault' \in {"none", "name", "read", "buffer", "callback", "object"}
      /\ neighbor' \in BOOLEAN
      /\ Pending'
  <2>1. CASE Enrol
    <3>1. fault = "none" /\ SendRequest(NoPort) /\ neighbor' = TRUE
      BY <2>1 DEF Enrol, Handling
    <3> QED  BY <3>1, HandlerAdded DEF IInv
  <2>2. CASE OtherEvent \/ RemoteCreate \/ \E p \in Ports : RemoteDelete(p)
    <3>1. /\ UNCHANGED <<handlers, invoke_id, requests, neighbor>>
          /\ fault' \in {fault, "object"}
      BY <2>2 DEF OtherEvent, RemoteCreate, RemoteDelete, rib
    <3> QED  BY <3>1 DEF IInv, TypeOK, Pending
  <2>3. CASE \E p \in Ports \cup {NoPort}, id \in 1 .. invoke_id : Unexpected(p, id)
    <3>1. PICK p \in Ports \cup {NoPort}, id \in 1 .. invoke_id : Unexpected(p, id)
      BY <2>3
    <3>2. /\ UNCHANGED <<handlers, invoke_id, requests, neighbor>>
          /\ fault' = "callback" /\ <<p, id>> \in requests /\ id \notin handlers
      BY <3>1 DEF Unexpected, rib
    <3>3. Cardinality(handlers) = HandlerRows  BY <3>2 DEF IInv, Pending
    <3> QED  BY <3>2, <3>3 DEF IInv, TypeOK, Pending
  <2> QED  BY <2>1, <2>2, <2>3
<1>6. /\ xRibObjectTable' \in Seq(Ports \cup {NoPort})
      /\ Len(xRibObjectTable') <= RibRows
  <2>1. UNCHANGED xRibObjectTable \/ xRibObjectTable' = AddRow(xRibObjectTable, NoPort, RibRows)
    BY DEF OtherEvent, Enrol, RemoteCreate, CreateObject, RemoteDelete, Unexpected, rib
  <2> QED  BY <2>1, ObjectAdded DEF IInv, TypeOK
<1>7. TypeOK'  BY <1>1, <1>2, <1>5, <1>6 DEF IInv, TypeOK, api, flows, fa
<1> QED  BY <1>3, <1>4, <1>5, <1>7 DEF IInv

LEMMA BindIInv ==
  ASSUME IInv, NEW p \in Ports, BindEvent(p)
  PROVE  IInv'
<1>1. /\ Handling(Event("bind", p))
      /\ xFlowsList' = [xFlowsList EXCEPT ![p] = "pending"]
      /\ nEventBits' = [nEventBits EXCEPT ![p] = @ \cup {"eFLOW_BOUND"}]
      /\ UNCHANGED <<pc, xActive, fa, xEfcpImapTable, rib, waiting, fault>>
  BY DEF BindEvent, Wake
<1>2. /\ queue' \in Seq(Events) /\ Len(queue') <= Length
      /\ In(Event("bind", p)) /\ ~In(Event("bind", p))'
      /\ \A f : In(f)' => In(f)
      /\ \A f : Once(f) => Once(f)'
  BY <1>1, Taken DEF IInv, TypeOK, Asked
<1>3. pc[p] = "wait" /\ xFlowsList[p] = "none"  BY <1>2 DEF IInv, Asked
<1>4. /\ xFlowsList'[p] = "pending"
      /\ \A q \in Ports \ {p} : /\ xFlowsList'[q] = xFlowsList[q]
                                /\ nEventBits'[q] = nEventBits[q]
  BY <1>1 DEF IInv, TypeOK
<1>5. TypeOK'  BY <1>1, <1>2 DEF IInv, TypeOK, fa, rib, Bits
<1>6. Asked'
  <2>1. \A q : Row(q)' <=> Row(q)  BY <1>1 DEF Row, fa
  <2>2. ~In(Event("allocate", p)) /\ ~Row(p)  BY <1>3 DEF IInv, Asked, Early
  <2> QED  BY <1>1, <1>2, <1>3, <1>4, <2>1, <2>2 DEF IInv, Asked
<1>7. Granted'  BY <1>1, <1>3, <1>4 DEF IInv, Granted, FAFound, fa
<1>8. Connected'  BY <1>1, <1>3, <1>4 DEF IInv, Connected
<1>9. Pending'  BY <1>1 DEF IInv, Pending, rib
<1> QED  BY <1>5, <1>6, <1>7, <1>8, <1>9 DEF IInv

LEMMA RequestIInv ==
  ASSUME IInv, NEW p \in Ports, FlowRequest(p)
  PROVE  IInv'
<1>1. /\ Handling(Event("allocate", p))
      /\ xFlowRequestTable' = AddRow(xFlowRequestTable, p, FlowRows)
      /\ UNCHANGED <<pc, nEventBits, xFlowsList, eFaiAllocated, neighbor, waiting>>
      /\ fault = "none"
  BY DEF FlowRequest, Handling, api
<1>2. /\ queue' \in Seq(Events) /\ Len(queue') <= Length
      /\ In(Event("allocate", p)) /\ ~In(Event("allocate", p))'
      /\ \A f : In(f)' => In(f)
      /\ \A f : Once(f) => Once(f)'
  BY <1>1, Taken DEF IInv, TypeOK, Asked
<1>3. /\ xFlowRequestTable' \in Seq(Ports) /\ Len(xFlowRequestTable') <= FlowRows
      /\ \A q : Row(q)' => Row(q) \/ q = p
      /\ \A q : FAFound(q) => FAFound(q)'
  BY <1>1, RowAdded DEF IInv
<1>4. pc[p] \notin Early /\ xFlowsList[p] # "none" /\ ~Row(p)
  BY <1>2 DEF IInv, Asked
<1>5. xFlowsList[p] # "allocated"
  BY <1>4, FoundHasRow DEF IInv, Granted
<1>6. Asked'  BY <1>1, <1>2, <1>3, <1>4 DEF IInv, Asked
<1>7. Granted'  BY <1>1, <1>3 DEF IInv, Granted
<1>8. /\ handlers' \subseteq Nat /\ invoke_id' \in Nat
      /\ requests' \subseteq (Ports \cup {NoPort}) \X Nat
      /\ fault' \in {"none", "name", "read", "buffer", "callback", "object"}
      /\ Pending'
  <2>1. CASE neighbor
    <3>1. SendRequest(p)  BY <2>1 DEF FlowRequest, FlowEncode, NewFlow
    <3> QED  BY <1>1, <3>1, HandlerAdded DEF IInv
  <2>2. CASE ~neighbor
    <3>1. UNCHANGED <<handlers, invoke_id, requests, fault>>  BY <2>2 DEF FlowRequest
    <3> QED  BY <3>1 DEF IInv, TypeOK, Pending
  <2> QED  BY <2>1, <2>2
<1>9. /\ xRibObjectTable' \in Seq(Ports \cup {NoPort}) /\ Len(xRibObjectTable') <= RibRows
      /\ xActive' \subseteq Ports
      /\ xEfcpImapTable' \in Connections \cup {NoConnection}
      /\ Connected'
  <2>1. CASE neighbor
    <3>1. /\ xEfcpImapTable' = [port |-> p, dst |-> CEP_ID_WRONG]
          /\ xActive' = xActive \cup {p}
          /\ xRibObjectTable' = AddRow(xRibObjectTable, p, RibRows)
      BY <1>4, <2>1 DEF FlowRequest, ConnectionCreateRequest, ConnectionCreate, Connection, ImapAdd, UpdateCepIdFlow, FlowFound,
                        CreateObject
    <3>2. xEfcpImapTable' # NoConnection /\ xEfcpImapTable'.port = p
      BY <3>1, FlowsAssumption DEF NoConnection, CEP_ID_WRONG
    <3>3. xEfcpImapTable' \in Connections  BY <3>1 DEF Connections, CEP_ID_WRONG
    <3>4. Connected'  BY <1>1, <1>5, <3>1, <3>2 DEF Connected
    <3> QED  BY <3>1, <3>3, <3>4, ObjectAdded DEF IInv, TypeOK
  <2>2. CASE ~neighbor
    <3>1. UNCHANGED <<xEfcpImapTable, xActive, xRibObjectTable>>  BY <2>2 DEF FlowRequest
    <3> QED  BY <1>1, <3>1 DEF IInv, TypeOK, Connected
  <2> QED  BY <2>1, <2>2
<1>10. TypeOK'  BY <1>1, <1>2, <1>3, <1>8, <1>9 DEF IInv, TypeOK
<1> QED  BY <1>6, <1>7, <1>8, <1>9, <1>10 DEF IInv

LEMMA AcceptedIInv ==
  ASSUME IInv, NEW m \in FlowMessages, NEW id, Accepted(m, id)
  PROVE  IInv'
<1> DEFINE p == m.xDestinationPortId
<1>0. p \in Ports  BY DEF FlowMessages
<1>1. /\ Handling(Other)
      /\ FAFound(p) /\ xEfcpImapTable # NoConnection
      /\ xEfcpImapTable' = [xEfcpImapTable EXCEPT !.dst = CepId]
      /\ xFlowsList' = [xFlowsList EXCEPT ![p] = "allocated"]
      /\ eFaiAllocated' = eFaiAllocated \cup {p}
      /\ nEventBits' = [nEventBits EXCEPT ![p] = @ \cup {"eFLOW_BOUND"}]
      /\ UNCHANGED <<pc, xActive, xFlowRequestTable, rib, waiting, fault>>
  BY DEF Accepted, Answers, ConnectionModify, NormalConnectionUpdate, ConnectionUpdate, Grant,
         ImapFound, Wake
<1> HIDE DEF p
<1>2. /\ queue' \in Seq(Events) /\ Len(queue') <= Length
      /\ \A f : In(f)' => In(f)
      /\ \A f : Once(f) => Once(f)'
  BY <1>1, Taken DEF IInv, TypeOK
<1>3. pc[p] \notin Early /\ xFlowsList[p] # "none" /\ Row(p)
  BY <1>0, <1>1, FoundHasRow DEF IInv, Asked
<1>4. /\ xFlowsList'[p] = "allocated"
      /\ \A q \in Ports \ {p} : /\ xFlowsList'[q] = xFlowsList[q]
                                /\ nEventBits'[q] = nEventBits[q]
  BY <1>0, <1>1 DEF IInv, TypeOK
<1>5. /\ xEfcpImapTable' \in Connections
      /\ xEfcpImapTable'.port = xEfcpImapTable.port /\ xEfcpImapTable'.dst = CepId
      /\ xEfcpImapTable' # NoConnection
  <2>1. xEfcpImapTable \in Connections  BY <1>0, <1>1 DEF IInv, TypeOK
  <2>2. CepId \in 0 .. CEP_ID_WRONG  BY DEF CepId, CEP_ID_WRONG
  <2>3. /\ xEfcpImapTable' \in Connections
        /\ xEfcpImapTable'.port = xEfcpImapTable.port /\ xEfcpImapTable'.dst = CepId
    BY <1>1, <2>1, <2>2 DEF Connections
  <2> QED  BY <2>1, <2>3, FlowsAssumption DEF Connections, NoConnection
<1>6. TypeOK'  BY <1>0, <1>1, <1>2, <1>5 DEF IInv, TypeOK, rib, Bits
<1>7. Asked'
  <2>1. \A q : Row(q)' <=> Row(q)  BY <1>0, <1>1 DEF Row
  <2>2. ~In(Event("bind", p)) /\ ~In(Event("allocate", p)) /\ pc[p] # "idle"
    BY <1>0, <1>3 DEF IInv, Asked, Early
  <2> QED  BY <1>0, <1>1, <1>2, <1>3, <1>4, <2>1, <2>2 DEF IInv, Asked
<1>8. Granted'  BY <1>0, <1>1, <1>4 DEF IInv, Granted, FAFound
<1>9. Connected'  BY <1>0, <1>1, <1>5 DEF IInv, Connected
<1>10. Pending'  BY <1>0, <1>1 DEF IInv, Pending, rib
<1> QED  BY <1>6, <1>7, <1>8, <1>9, <1>10 DEF IInv

LEMMA DataIInv ==
  ASSUME IInv, DataPdu
  PROVE  IInv'
<1> DEFINE p == xEfcpImapTable.port
<1>1. /\ Handling(Other) /\ xEfcpImapTable # NoConnection
      /\ xEfcpImapTable' = [xEfcpImapTable EXCEPT
                             !.dst = IF @ # CEP_ID_WRONG THEN CepId ELSE @]
      /\ DuPost(p) \/ UNCHANGED <<nEventBits, waiting>>
      /\ UNCHANGED <<pc, flows, fa, rib, fault>>
  BY DEF DataPdu
<1>2. xEfcpImapTable \in Connections /\ p \in Ports
  BY <1>1 DEF IInv, TypeOK, Connections
<1>3. /\ queue' \in Seq(Events) /\ Len(queue') <= Length
  BY <1>1, Taken DEF IInv, TypeOK
<1>4. /\ xEfcpImapTable' \in Connections
      /\ xEfcpImapTable'.port = p
      /\ xEfcpImapTable.dst = CepId => xEfcpImapTable'.dst = CepId
      /\ xEfcpImapTable' # NoConnection
  <2>1. CepId \in 0 .. CEP_ID_WRONG /\ CepId # CEP_ID_WRONG  BY DEF CepId, CEP_ID_WRONG
  <2>2. /\ xEfcpImapTable' \in Connections
        /\ xEfcpImapTable'.port = p
        /\ xEfcpImapTable.dst = CepId => xEfcpImapTable'.dst = CepId
    BY <1>1, <1>2, <2>1 DEF Connections
  <2> QED  BY <2>2, FlowsAssumption DEF Connections, NoConnection
<1>5. /\ nEventBits' \in [Ports -> SUBSET Bits] /\ waiting' \subseteq Ports
      /\ \A q \in Ports : "eFLOW_BOUND" \in nEventBits'[q] => "eFLOW_BOUND" \in nEventBits[q]
      /\ \A q \in waiting' : q \in waiting \/ xFlowsList[q] = "allocated"
  <2>1. CASE DuPost(p)
    <3>1. /\ nEventBits' = [nEventBits EXCEPT ![p] = @ \cup {"eFLOW_RECEIVE"}]
          /\ waiting' = waiting \cup {p} /\ p \in eFaiAllocated
      BY <2>1 DEF DuPost, Wake
    <3> HIDE DEF p
    <3> QED  BY <1>2, <3>1 DEF IInv, TypeOK, Bits, Granted
  <2>2. CASE UNCHANGED <<nEventBits, waiting>>  BY <2>2 DEF IInv, TypeOK
  <2> QED  BY <1>1, <2>1, <2>2
<1>6. TypeOK'  BY <1>1, <1>3, <1>4, <1>5 DEF IInv, TypeOK, flows, fa, rib
<1>7. Asked'  BY <1>1, <1>5, EventAsked DEF flows, fa
<1>8. Granted'  BY <1>1, <1>5 DEF IInv, Granted, FAFound, flows, fa
<1>9. Connected'  BY <1>1, <1>4 DEF IInv, Connected, flows
<1>10. Pending'  BY <1>1 DEF IInv, Pending, rib
<1> QED  BY <1>6, <1>7, <1>8, <1>9, <1>10 DEF IInv

LEMMA SendOtherIInv ==
  ASSUME IInv, SendOther
  PROVE  IInv'
<1>1. Send(Other) /\ UNCHANGED <<api, flows, fa, xEfcpImapTable, rib, waiting, fault>>
  BY DEF SendOther
<1>2. /\ queue' \in Seq(Events) /\ Len(queue') <= Length
      /\ \A f : f # Other => (In(f)' => In(f)) /\ (Once(f) => Once(f)')
  BY <1>1, Sent, EventsTyped DEF IInv, TypeOK
<1>3. \A p \in Ports, k \in {"bind", "allocate"} : Event(k, p) # Other
  BY DEF Event, Other
<1>4. TypeOK'  BY <1>1, <1>2 DEF IInv, TypeOK, api, flows, fa, rib
<1>5. Asked'
  <2>1. \A q : Row(q)' <=> Row(q)  BY <1>1 DEF Row, fa
  <2> QED  BY <1>1, <1>2, <1>3, <2>1 DEF IInv, Asked, api, flows
<1>6. Granted' /\ Connected' /\ Pending'
  BY <1>1 DEF IInv, Granted, Connected, Pending, FAFound, flows, fa, rib
<1> QED  BY <1>4, <1>5, <1>6 DEF IInv

(* Every step keeps the invariant. *)
THEOREM NextIInv == IInv /\ [Next]_vars => IInv'
<1> SUFFICES ASSUME IInv, [Next]_vars  PROVE IInv'  OBVIOUS
<1>1. CASE \E p \in Ports : Thread(p)  BY <1>1, ThreadIInv
<1>2. CASE SendOther  BY <1>2, SendOtherIInv
<1>3. CASE Task
  <2>1. CASE \/ OtherEvent \/ Enrol \/ RemoteCreate
             \/ \E p \in Ports : RemoteDelete(p)
             \/ \E p \in Ports \cup {NoPort}, id \in 1 .. invoke_id : Unexpected(p, id)
    BY <2>1, OtherIInv
  <2>2. CASE \E p \in Ports : BindEvent(p)  BY <2>2, BindIInv
  <2>3. CASE \E p \in Ports : FlowRequest(p)  BY <2>3, RequestIInv
  <2>4. CASE \E m \in FlowMessages, id \in 1 .. invoke_id : Accepted(m, id)
    BY <2>4, AcceptedIInv
  <2>5. CASE DataPdu  BY <2>5, DataIInv
  <2> QED  BY <1>3, <2>1, <2>2, <2>3, <2>4, <2>5 DEF Task
<1>4. CASE UNCHANGED vars
  BY <1>4 DEF vars, api, flows, fa, rib, IInv, TypeOK, Asked, Granted, Connected, Pending,
              In, Once, Row, FAFound
<1> QED  BY <1>1, <1>2, <1>3, <1>4 DEF Next

THEOREM Invariance == Spec => []IInv
BY InitIInv, NextIInv, PTL DEF Spec

-----------------------------------------------------------------------------
(* The variables have their types. *)
THEOREM FlowTypes == Spec => []TypeOK
<1>1. IInv => TypeOK  BY DEF IInv
<1> QED  BY <1>1, Invariance, PTL

(* RINA_flow_read finds the handle of every flow that is allocated. *)
THEOREM ReadersFindHandle == Spec => []ReadFindsHandle
<1>1. IInv => ReadFindsHandle  BY DEF IInv, Granted, ReadFindsHandle
<1> QED  BY <1>1, Invariance, PTL

(* The flow allocator hears only of flows that are bound. *)
THEOREM BoundBeforeAsked == Spec => []BoundFirst
<1>1. IInv => BoundFirst  BY DEF IInv, Asked, In, Row, BoundFirst
<1> QED  BY <1>1, Invariance, PTL

(* A sole flow that is allocated has its connection. *)
THEOREM SoleFlowIsConnected == Spec => []SoleFlowConnected
<1>1. ASSUME IInv  PROVE SoleFlowConnected
  <2> SUFFICES ASSUME NEW p \in Ports, xFlowsList[p] = "allocated", xActive = {p}
               PROVE  xEfcpImapTable = [port |-> p, dst |-> CepId] /\ p \in eFaiAllocated
    BY DEF SoleFlowConnected
  <2>1. /\ xEfcpImapTable # NoConnection /\ xEfcpImapTable.port = p
        /\ xEfcpImapTable.dst = CepId /\ p \in eFaiAllocated
    BY <1>1 DEF IInv, Connected, Granted
  <2>2. xEfcpImapTable \in Connections  BY <1>1, <2>1 DEF IInv, TypeOK
  <2> QED  BY <2>1, <2>2 DEF Connections
<1> QED  BY <1>1, Invariance, PTL

(* Answers lack a callback only when the table of handlers was filled. *)
THEOREM AnswersFindCallback == Spec => []CallbackUntilFull
<1>1. IInv => CallbackUntilFull  BY DEF IInv, Pending, CallbackUntilFull
<1> QED  BY <1>1, Invariance, PTL

(* Packets wait only at allocated flows. *)
THEOREM DataAfterAllocation == Spec => []NoEarlyData
<1>1. IInv => NoEarlyData  BY DEF IInv, TypeOK, Granted, NoEarlyData
<1> QED  BY <1>1, Invariance, PTL

-----------------------------------------------------------------------------
(* An event in the queue keeps its place, comes one place forward, or is   *)
(* the one that is taken.                                                  *)
LEMMA SentPlaces ==
  ASSUME queue \in Seq(Events), NEW e \in Events, Send(e), NEW i \in 1 .. Len(queue)
  PROVE  i \in 1 .. Len(queue') /\ queue'[i] = queue[i]
BY DEF Send

LEMMA TakenPlaces ==
  ASSUME queue \in Seq(Events), NEW e, Handling(e), NEW i \in 1 .. Len(queue)
  PROVE  \/ i = 1 /\ queue[i] = e
         \/ i > 1 /\ i - 1 \in 1 .. Len(queue') /\ queue'[i - 1] = queue[i]
<1>1. /\ Len(queue) \in Nat /\ Len(queue') = Len(queue) - 1 /\ queue[1] = e
      /\ \A j \in 1 .. Len(queue') : queue'[j] = queue[j + 1]
  BY DEF Handling
<1>2. CASE i = 1  BY <1>1, <1>2
<1>3. CASE i # 1
  <2>1. i > 1 /\ i - 1 \in 1 .. Len(queue') /\ (i - 1) + 1 = i  BY <1>1, <1>3
  <2> QED  BY <1>1, <2>1
<1> QED  BY <1>2, <1>3

(* Every turn of the IPCP task handles the event at the head, and the bind *)
(* event by waking its thread.                                             *)
LEMMA TaskHandles ==
  ASSUME TypeOK, Task
  PROVE  /\ UNCHANGED pc
         /\ \E e : /\ Handling(e)
                  /\ \A p \in Ports : e = Event("bind", p) => "eFLOW_BOUND" \in nEventBits'[p]
<1>1. ASSUME NEW q \in Ports, BindEvent(q)
      PROVE  /\ UNCHANGED pc
             /\ Handling(Event("bind", q)) /\ "eFLOW_BOUND" \in nEventBits'[q]
  BY <1>1 DEF BindEvent, Wake, TypeOK
<1>2. \A q \in Ports, p \in Ports : Event("bind", q) = Event("bind", p) => q = p
  BY EventsDiffer
<1>3. CASE \E q \in Ports : BindEvent(q)  BY <1>1, <1>2, <1>3
<1>4. CASE \E q \in Ports : FlowRequest(q)
  <2>1. PICK q \in Ports : FlowRequest(q)  BY <1>4
  <2>2. UNCHANGED pc /\ Handling(Event("allocate", q))  BY <2>1 DEF FlowRequest, api
  <2>3. \A p \in Ports : Event("allocate", q) # Event("bind", p)  BY EventsDiffer
  <2> QED  BY <2>2, <2>3
<1>5. CASE \/ OtherEvent \/ Enrol \/ RemoteCreate \/ DataPdu
           \/ \E q \in Ports : RemoteDelete(q)
           \/ \E q \in Ports \cup {NoPort}, id \in 1 .. invoke_id : Unexpected(q, id)
           \/ \E m \in FlowMessages, id \in 1 .. invoke_id : Accepted(m, id)
  <2>1. UNCHANGED pc /\ Handling(Other)
    BY <1>5 DEF OtherEvent, Enrol, RemoteCreate, DataPdu, RemoteDelete, Unexpected, Accepted,
                Answers, api
  <2>2. \A p \in Ports : Other # Event("bind", p)  BY EventsDiffer DEF Other
  <2> QED  BY <2>1, <2>2
<1> QED  BY <1>3, <1>4, <1>5 DEF Task

(* Any other step leaves the bits as they are, but for those of a thread   *)
(* that goes on from its own wait.                                         *)
LEMMA BitsStay ==
  ASSUME TypeOK, [Next]_vars, NEW p \in Ports
  PROVE  nEventBits[p] \subseteq nEventBits'[p]
<1> USE DEF TypeOK
<1>1. ASSUME NEW q \in Ports, Thread(q)  PROVE nEventBits[p] \subseteq nEventBits'[p]
  BY <1>1 DEF Thread, BindNothing, Bind, WaitBound, AskAllocation, AskTimer, Read, WaitReceive,
              ReadAgain, WaitForBit
<1>2. CASE SendOther  BY <1>2 DEF SendOther, api
<1>3. CASE Task
  <2>1. ASSUME NEW q \in Ports, BindEvent(q)  PROVE nEventBits[p] \subseteq nEventBits'[p]
    BY <2>1 DEF BindEvent, Wake
  <2>2. ASSUME NEW m \in FlowMessages, NEW id, Accepted(m, id)
        PROVE  nEventBits[p] \subseteq nEventBits'[p]
    BY <2>2 DEF Accepted, Grant, Wake
  <2>3. CASE DataPdu  BY <2>3 DEF DataPdu, DuPost, Wake
  <2>4. CASE \/ OtherEvent \/ Enrol \/ RemoteCreate
             \/ \E q \in Ports : FlowRequest(q) \/ RemoteDelete(q)
             \/ \E q \in Ports \cup {NoPort}, id \in 1 .. invoke_id : Unexpected(q, id)
    <3>1. UNCHANGED nEventBits
      BY <2>4 DEF OtherEvent, Enrol, RemoteCreate, FlowRequest, RemoteDelete, Unexpected, api
    <3> QED  BY <3>1
  <2> QED  BY <1>3, <2>1, <2>2, <2>3, <2>4 DEF Task
<1>4. CASE UNCHANGED vars  BY <1>4 DEF vars, api
<1> QED  BY <1>1, <1>2, <1>3, <1>4 DEF Next

(* A thread that waits for the bind of its port has its event in the queue *)
(* or its bit set: the wake-up is not lost, whoever comes first.           *)
WakeupComes == \A p \in Ports :
                 pc[p] = "wait" => In(Event("bind", p)) \/ "eFLOW_BOUND" \in nEventBits[p]

(* A turn of the IPCP task takes the bind event and wakes its thread, or   *)
(* brings the event one place forward; no other step moves it.             *)
BindComesNearer ==
  [][\A p \in Ports : \A i \in 1 .. Len(queue) : queue[i] = Event("bind", p) =>
       \/ Task /\ i = 1 /\ "eFLOW_BOUND" \in nEventBits'[p]
       \/ Task /\ i > 1 /\ i - 1 \in 1 .. Len(queue') /\ queue'[i - 1] = queue[i]
       \/ ~Task /\ i \in 1 .. Len(queue') /\ queue'[i] = queue[i]]_vars

LEMMA WakeupStep ==
  ASSUME IInv, WakeupComes, [Next]_vars
  PROVE  WakeupComes'
<1> SUFFICES ASSUME NEW p \in Ports, pc'[p] = "wait"
             PROVE  In(Event("bind", p))' \/ "eFLOW_BOUND" \in nEventBits'[p]
  BY DEF WakeupComes
<1>0. TypeOK /\ queue \in Seq(Events)  BY DEF IInv, TypeOK
<1>1. ASSUME pc[p] = "wait", \A f : In(f) => In(f)'
      PROVE  In(Event("bind", p))' \/ "eFLOW_BOUND" \in nEventBits'[p]
  BY <1>0, <1>1, BitsStay DEF WakeupComes
<1>2. ASSUME NEW q \in Ports, Thread(q)
      PROVE  In(Event("bind", p))' \/ "eFLOW_BOUND" \in nEventBits'[p]
  <2>1. CASE Bind(q) /\ Send(Event("bind", q)) /\ q = p
    BY <1>0, <2>1, Sent, EventsTyped
  <2>2. CASE ~(Bind(q) /\ Send(Event("bind", q)) /\ q = p)
    <3>1. pc[p] = "wait"
      BY <1>0, <1>2, <2>2 DEF Thread, BindNothing, Bind, WaitBound, AskAllocation, AskTimer, Read,
            WaitReceive, ReadAgain, TakePacket, At, Goto, TypeOK
    <3>2. UNCHANGED queue \/ \E e \in Events : Send(e)
      BY <1>2, EventsTyped DEF Thread, BindNothing, Bind, WaitBound, AskAllocation, AskTimer, Read,
            WaitReceive, ReadAgain
    <3>3. \A f : In(f) => In(f)'
      <4>1. CASE UNCHANGED queue  BY <4>1 DEF In
      <4>2. CASE \E e \in Events : Send(e)  BY <1>0, <4>2, Sent
      <4> QED  BY <3>2, <4>1, <4>2
    <3> QED  BY <1>1, <3>1, <3>3
  <2> QED  BY <2>1, <2>2
<1>3. CASE SendOther
  <2>1. \A f : In(f) => In(f)'  BY <1>0, <1>3, Sent, EventsTyped DEF SendOther
  <2> QED  BY <1>1, <1>3, <2>1 DEF SendOther, api
<1>4. CASE Task
  <2>1. PICK e : /\ Handling(e) /\ UNCHANGED pc
                 /\ e = Event("bind", p) => "eFLOW_BOUND" \in nEventBits'[p]
    BY <1>0, <1>4, TaskHandles
  <2>2. CASE e = Event("bind", p)  BY <2>1, <2>2
  <2>3. CASE e # Event("bind", p)
    <3>1. \/ "eFLOW_BOUND" \in nEventBits'[p]
          \/ \E i \in 1 .. Len(queue) : queue[i] = Event("bind", p)
      BY <1>0, <2>1, BitsStay DEF WakeupComes, In
    <3>2. ASSUME NEW i \in 1 .. Len(queue), queue[i] = Event("bind", p)
          PROVE  In(Event("bind", p))'
      BY <1>0, <2>1, <2>3, <3>2, TakenPlaces DEF In
    <3> QED  BY <3>1, <3>2
  <2> QED  BY <2>2, <2>3
<1>5. CASE UNCHANGED vars
  BY <1>5 DEF vars, api, WakeupComes, In
<1> QED  BY <1>2, <1>3, <1>4, <1>5 DEF Next

(* xRINA_bind waits for nothing that has been missed: the bind event that  *)
(* a thread waits for is in the queue, once, or has set its bit, and every *)
(* turn of the IPCP task brings it nearer.                                 *)
THEOREM BindIsOnItsWay == Spec => []WakeupComes /\ BindComesNearer
<1> DEFINE A == \A p \in Ports : \A i \in 1 .. Len(queue) : queue[i] = Event("bind", p) =>
                 \/ Task /\ i = 1 /\ "eFLOW_BOUND" \in nEventBits'[p]
                 \/ Task /\ i > 1 /\ i - 1 \in 1 .. Len(queue') /\ queue'[i - 1] = queue[i]
                 \/ ~Task /\ i \in 1 .. Len(queue') /\ queue'[i] = queue[i]
<1>1. Init => WakeupComes  BY DEF Init, WakeupComes
<1>2. ASSUME IInv, [Next]_vars  PROVE [A]_vars
  <2> SUFFICES ASSUME Next, NEW p \in Ports, NEW i \in 1 .. Len(queue),
                      queue[i] = Event("bind", p)
               PROVE  \/ Task /\ i = 1 /\ "eFLOW_BOUND" \in nEventBits'[p]
                      \/ Task /\ i > 1 /\ i - 1 \in 1 .. Len(queue') /\ queue'[i - 1] = queue[i]
                      \/ ~Task /\ i \in 1 .. Len(queue') /\ queue'[i] = queue[i]
    BY <1>2
  <2>0. TypeOK /\ queue \in Seq(Events)  BY <1>2 DEF IInv, TypeOK
  <2>1. CASE Task
    <3>1. PICK e : /\ Handling(e)
                   /\ e = Event("bind", p) => "eFLOW_BOUND" \in nEventBits'[p]
      BY <2>0, <2>1, TaskHandles
    <3> QED  BY <2>0, <2>1, <3>1, TakenPlaces
  <2>2. CASE ~Task
    <3>1. UNCHANGED queue \/ \E e \in Events : Send(e)
      BY <2>2, EventsTyped DEF Next, Thread, BindNothing, Bind, WaitBound, AskAllocation, AskTimer,
            Read, WaitReceive, ReadAgain, SendOther
    <3>2. CASE UNCHANGED queue  BY <2>2, <3>2
    <3>3. CASE \E e \in Events : Send(e)  BY <2>0, <2>2, <3>3, SentPlaces
    <3> QED  BY <3>1, <3>2, <3>3
  <2> QED  BY <2>1, <2>2
<1> QED  BY <1>1, <1>2, WakeupStep, Invariance, PTL DEF Spec, BindComesNearer

-----------------------------------------------------------------------------
(* An object of the RIB that a request was made for is there, or found the *)
(* table full.                                                             *)
HasObject(p) == \E i \in 1 .. Len(xRibObjectTable) : xRibObjectTable[i] = p

Objects ==
  /\ \A r \in requests : r[1] \in Ports => HasObject(r[1]) \/ Len(xRibObjectTable) = RibRows
  /\ fault = "object" => Len(xRibObjectTable) = RibRows
  /\ fault = "read" => waiting # {}

(* What can have ended the program, if an answer or a packet did: a full   *)
(* table of handlers, a full RIB, a packet that was read.                  *)
FaultCauses ==
  /\ fault = "callback" => Cardinality(handlers) = HandlerRows
  /\ fault = "object" => Len(xRibObjectTable) = RibRows
  /\ fault = "read" => waiting # {}

(* Objects stay in the RIB, and a new one is in it or the RIB is full.     *)
LEMMA ObjectStays ==
  ASSUME TypeOK, NEW o \in Ports \cup {NoPort},
         xRibObjectTable' = AddRow(xRibObjectTable, o, RibRows)
  PROVE  /\ \A p : HasObject(p) => HasObject(p)'
         /\ Len(xRibObjectTable) = RibRows => Len(xRibObjectTable') = RibRows
         /\ HasObject(o)' \/ Len(xRibObjectTable') = RibRows
<1>1. /\ xRibObjectTable \in Seq(Ports \cup {NoPort}) /\ Len(xRibObjectTable) \in Nat
      /\ RibRows \in Nat /\ Len(xRibObjectTable) <= RibRows
  BY FlowsAssumption DEF TypeOK
<1>2. CASE Len(xRibObjectTable) < RibRows
  <2>1. xRibObjectTable' = Append(xRibObjectTable, o)  BY <1>2 DEF AddRow
  <2>2. /\ Len(xRibObjectTable') = Len(xRibObjectTable) + 1
        /\ \A i \in 1 .. Len(xRibObjectTable) : xRibObjectTable'[i] = xRibObjectTable[i]
        /\ xRibObjectTable'[Len(xRibObjectTable) + 1] = o
    BY <1>1, <2>1
  <2> QED  BY <1>1, <1>2, <2>2 DEF HasObject
<1>3. CASE ~(Len(xRibObjectTable) < RibRows)
  <2>1. xRibObjectTable' = xRibObjectTable  BY <1>3 DEF AddRow
  <2> QED  BY <1>1, <1>3, <2>1 DEF HasObject
<1> QED  BY <1>2, <1>3

LEMMA ObjectsStep ==
  ASSUME IInv, Objects, [Next]_vars
  PROVE  Objects'
<1>0. TypeOK /\ requests \subseteq (Ports \cup {NoPort}) \X Nat  BY DEF IInv, TypeOK
<1>1. ASSUME UNCHANGED <<requests, xRibObjectTable>>, waiting \subseteq waiting',
             fault' \notin {"object", "read"} \/ fault' = fault
      PROVE  Objects'
  BY <1>1 DEF Objects, HasObject
<1>2. ASSUME NEW p \in Ports, Thread(p)  PROVE Objects'
  <2>1. UNCHANGED <<requests, xRibObjectTable, waiting>>
    BY <1>2 DEF Thread, BindNothing, Bind, WaitBound, AskAllocation, AskTimer, Read, WaitReceive,
                ReadAgain, rib
  <2>2. CASE Read(p) \/ ReadAgain(p)
    <3>1. fault' \in {fault, "read"} /\ (fault' # fault => p \in waiting)
      BY <2>2 DEF Read, ReadAgain, TakePacket, IInv, Granted, IsFlowAllocated
    <3> QED  BY <2>1, <3>1 DEF Objects, HasObject
  <2>3. CASE ~(Read(p) \/ ReadAgain(p))
    <3>1. fault' \in {fault, "name"}
      BY <1>2, <2>3 DEF Thread, BindNothing, Bind, WaitBound, AskAllocation, AskTimer, WaitReceive
    <3> QED  BY <1>1, <2>1, <3>1
  <2> QED  BY <2>2, <2>3
<1>3. CASE SendOther  BY <1>1, <1>3 DEF SendOther, rib
<1>4. CASE OtherEvent  BY <1>1, <1>4 DEF OtherEvent, rib
<1>5. ASSUME NEW p \in Ports, BindEvent(p)  PROVE Objects'
  BY <1>1, <1>5 DEF BindEvent, rib
<1>6. ASSUME NEW p \in Ports, FlowRequest(p)  PROVE Objects'
  <2>1. CASE neighbor
    <3>1. /\ xRibObjectTable' = AddRow(xRibObjectTable, p, RibRows)
          /\ requests' \subseteq requests \cup {<<p, invoke_id>>}
          /\ fault = "none" /\ fault' \in {"none", "buffer"}
      BY <1>6, <2>1 DEF FlowRequest, CreateObject, SendRequest, FillCommon, FlowEncode, NewFlow,
                        Handling
    <3>2. /\ \A q : HasObject(q) => HasObject(q)'
          /\ Len(xRibObjectTable) = RibRows => Len(xRibObjectTable') = RibRows
          /\ HasObject(p)' \/ Len(xRibObjectTable') = RibRows
      BY <1>0, <3>1, ObjectStays
    <3> QED  BY <3>1, <3>2 DEF Objects
  <2>2. CASE ~neighbor  BY <1>1, <1>6, <2>2 DEF FlowRequest
  <2> QED  BY <2>1, <2>2
<1>7. CASE Enrol
  <2>1. /\ UNCHANGED xRibObjectTable /\ fault = "none" /\ fault' \in {"none", "buffer"}
        /\ requests' \subseteq requests \cup {<<NoPort, invoke_id>>}
    BY <1>7 DEF Enrol, SendRequest, FillCommon, Handling
  <2>2. \A r \in requests' : r[1] \in Ports => r \in requests
    BY <2>1, FlowsAssumption
  <2> QED  BY <2>1, <2>2 DEF Objects, HasObject
<1>8. CASE RemoteCreate
  <2>1. /\ xRibObjectTable' = AddRow(xRibObjectTable, NoPort, RibRows)
        /\ UNCHANGED <<requests, fault, waiting>>
    BY <1>8 DEF RemoteCreate, CreateObject
  <2>2. /\ \A q : HasObject(q) => HasObject(q)'
        /\ Len(xRibObjectTable) = RibRows => Len(xRibObjectTable') = RibRows
    BY <1>0, <2>1, ObjectStays
  <2> QED  BY <2>1, <2>2 DEF Objects
<1>9. ASSUME NEW p \in Ports, RemoteDelete(p)  PROVE Objects'
  <2>1. PICK id \in 1 .. invoke_id : <<p, id>> \in requests  BY <1>9 DEF RemoteDelete
  <2>2. /\ ~HasObject(p) /\ fault' = "object"
        /\ UNCHANGED <<requests, xRibObjectTable, waiting>>
    BY <1>9 DEF RemoteDelete, HasObject, rib
  <2>3. Len(xRibObjectTable) = RibRows  BY <2>1, <2>2 DEF Objects
  <2> QED  BY <2>2, <2>3 DEF Objects, HasObject
<1>10. ASSUME NEW p, NEW id, Unexpected(p, id)  PROVE Objects'
  BY <1>1, <1>10 DEF Unexpected, rib
<1>11. ASSUME NEW m, NEW id, Accepted(m, id)  PROVE Objects'
  BY <1>1, <1>11 DEF Accepted, rib
<1>12. CASE DataPdu  BY <1>1, <1>12 DEF DataPdu, DuPost, rib
<1>13. CASE UNCHANGED vars  BY <1>1, <1>13 DEF vars, rib
<1> QED
  BY <1>2, <1>3, <1>4, <1>5, <1>6, <1>7, <1>8, <1>9, <1>10, <1>11, <1>12, <1>13 DEF Next, Task

(* The program calls through no object, no callback and reads no head of a *)
(* list for want of something: an M_DELETE finds the object of its request *)
(* unless the RIB, which nothing empties, was full; an answer its callback *)
(* unless that table was; and RINA_flow_read ends only in a packet.        *)
THEOREM FaultsHaveCauses == Spec => []FaultCauses
<1>1. Init => Objects  BY DEF Init, Objects
<1>2. IInv /\ Objects => FaultCauses  BY DEF IInv, Pending, Objects, FaultCauses
<1> QED  BY <1>1, <1>2, ObjectsStep, Invariance, PTL DEF Spec

-----------------------------------------------------------------------------
(* A flow that is allocated stays so. *)
StaysAllocated ==
  [][\A p \in Ports : xFlowsList[p] = "allocated" => xFlowsList'[p] = "allocated"]_vars

(* eFlowBindEvent writes eState whatever it is, and yet it takes no flow   *)
(* back: a port is bound once, before it can be allocated.                 *)
THEOREM AllocatedForGood == Spec => StaysAllocated
<1> DEFINE A == \A p \in Ports : xFlowsList[p] = "allocated" => xFlowsList'[p] = "allocated"
<1>1. ASSUME IInv, [Next]_vars  PROVE [A]_vars
  <2> SUFFICES ASSUME Next, NEW p \in Ports, xFlowsList[p] = "allocated"
               PROVE  xFlowsList'[p] = "allocated"
    BY <1>1
  <2>0. TypeOK  BY <1>1 DEF IInv
  <2>1. ASSUME NEW q \in Ports, BindEvent(q)  PROVE xFlowsList'[p] = "allocated"
    <3>1. xFlowsList[q] = "none"
      <4>1. In(Event("bind", q))  BY <2>0, <2>1, Taken DEF BindEvent, TypeOK
      <4> QED  BY <1>1, <4>1 DEF IInv, Asked
    <3> QED  BY <2>0, <2>1, <3>1 DEF BindEvent, TypeOK
  <2>2. ASSUME NEW m \in FlowMessages, NEW id, Accepted(m, id)
        PROVE  xFlowsList'[p] = "allocated"
    BY <2>0, <2>2 DEF Accepted, NormalConnectionUpdate, TypeOK
  <2>3. CASE \/ \E q \in Ports : Thread(q)
             \/ SendOther \/ OtherEvent \/ Enrol \/ RemoteCreate \/ DataPdu
             \/ \E q \in Ports : FlowRequest(q) \/ RemoteDelete(q)
             \/ \E q \in Ports \cup {NoPort}, id \in 1 .. invoke_id : Unexpected(q, id)
    <3>1. UNCHANGED xFlowsList
      BY <2>3 DEF Thread, BindNothing, Bind, WaitBound, AskAllocation, AskTimer, Read, WaitReceive,
            ReadAgain, SendOther, OtherEvent, Enrol, RemoteCreate, DataPdu, FlowRequest,
            RemoteDelete, Unexpected, flows
    <3> QED  BY <3>1
  <2> QED  BY <2>1, <2>2, <2>3 DEF Next, Task
<1> QED  BY <1>1, Invariance, PTL DEF Spec, StaysAllocated
=============================================================================

# Rinasense: TLA+ models, model checks and proofs

Rinasense is a RINA stack for small devices, written in C over POSIX threads
(`src/components`).  This directory holds TLA+ modules for the parts of it that
carry its logic, the TLC configurations that check them, and proofs that TLAPS
checks.  `PROJECT.json` lists components, runs, mutants, hazards, theorems, and
for each definition the source lines it stands for.

The data path follows one build: the IEEE 802.15.4 shim (`SHIM_802154_MODULE` is 1,
`SHIM_WIFI_MODULE` is 0) and POSIX portability, whose POSIX is FreeRTOS+POSIX on the
sensor and the kernel's on Linux.  `BringUp` starts the stack over either shim.  At
this commit the manager's branch that creates the WiFi shim is commented out and
nothing calls `prvHandleEthernetPacket`; the WiFi shim is modelled as it is
written, under a manager that creates it and a task that hands it frames.

## 1. The system

    application threads              IPCP task                driver
    RINA_flow_alloc/bind/  --\                          /-- receive interrupt
    write/read/close          \                        /    (one static buffer)
          |                    v                      v          |
          |              event queue  <---------  receive task <-/
          |           (IPCP_task.c, one message queue, emptied by the IPCP task)
          |                    |
          |   flow allocator -> EFCP/DTP -> RMT -> shim -> (queue again) -> radio
          |   RIB daemon, enrolment
          v                    |
      list of waiting packets <+       network buffers and ids are shared by all

One thread, the IPCP task, runs the stack.  Applications reach it by events, and
are answered through event bits and lists.  Frames reach it by events too.  What
the threads share directly: network buffers, id managers, the list of packets of
a flow, the event bits of a flow.

| Component | State | Operations | Talks to | Hard behaviours | What makes it correct |
|---|---|---|---|---|---|
| Number manager (`num_mgr.c`) | bit array, last id | allocate, release | IPC manager, EFCP | callers have no lock; wrap of the scan | next-fit; overflow only when taken; calls return; one caller at a time gets no id twice |
| Network buffers (`BufferManagement.c`, `rsrc.c`) | semaphore, two pools, payload of each descriptor | get, release | every thread | three resources under different protection, one under none; failing half-way; double release | one owner; nothing leaks; who is admitted is served |
| IPCP task, event queue (`IPCP_task.c`, `posix_rsqueue.c`) | queue, ready flag, event handled | send with and without timeout, receive, handle | every thread | sends to itself; refused sends; not ready | never blocks; events get their turn; buffers come back |
| Radio driver (`ieee802154_NetworkInterface.c`, `ieee802154_IPCP_frame.c`) | one frame buffer, notification count | interrupt, receive task, filter, output | event queue | interrupt against copy | a wait leaves no frame behind; what overwriting makes of frames stays in order |
| DTP, EFCP data path, RMT, DU | next number, left window edge, run flag | write, receive, encapsulate, decapsulate | shim, flow allocator | loss, duplicates, wrap, errors ignored | order; no duplicate; the edge passes nothing missing |
| EFCP container, connections | connection table, instance map | create, modify, update, destroy | flow allocator, RMT | inverted tests, fixed id | a connection is found by its id |
| Flow API (`rina_api.c`) | flow request: state, event bits, lists | allocate, bind, write, read, close, wake | event queue, flow allocator | waiter against waker; timeouts; early errors | a wait ends for its own reason; one answer per request |
| Flow allocator (`flowAllocator.c`) | instances, flow requests | request, response, post | EFCP, RIB daemon, enrolment | answer before request is recorded; table full | an instance per flow, found by its port |
| IPCP operations (`IPCP_ops.c`) | flow of each port and its state | prebind, find, update, data paths | all of the above | state against events | a flow is allocated only after its connection |
| Enrolment, RIB daemon (`enrollment.c`, `ribd.c`, `rib.c`, `serdesMsg.c`) | neighbours, connections, objects, pending answers | CDAP messages | flow allocator, shim | lost, late or repeated messages, full tables, fields a decoder leaves unset | phases in order, once; answers to what was asked |
| Shim IPCPs, shim flows | the flow to the neighbour, registration | register, allocate, write | IPCP task, driver, ARP | error paths that free what is listed, two builds | one flow per port, to the peer |
| Address resolution (`Arp826.c`, `rina_gpha.c`, `rina_name.c`) | cache of names and addresses | add, look up, reply, request, refresh | WiFi shim | rows that share a cell, a lookup that ignores the name | an address is its host's |
| WiFi connection, TAP interface | event bits, retries; link flags, read threads, pipes | connect, event handler, monitor, read | manager, event queue | waits without timeout; threads that start late; link changes in between | connecting ends; one reader listens while the link is up, none when it is down |
| IPC manager (`IPCP_manager.c`) | instances, id managers | start-up, enrolment event | IPCP task | the event sent before the task is ready | instances are found by id |
| Timeouts (`posix_rstime.c`, `FreeRTOS_POSIX_utils.c`) | none | to an absolute time, to ticks | semaphore, event queue | 32-bit products, the clock goes on in between | a wait lasts what was asked, within a tick |

## 2. Modules

| Module | Stands for | Kind |
|---|---|---|
| `IdPool` | what an allocator of identities promises | abstract specification |
| `NumMgr` | `num_mgr.c` | system, implements `IdPool` |
| `Semaphore` | `FreeRTOS_POSIX_semaphore.c` | component of `NetBuffers` |
| `NetBuffers`, `MCNetBuffers` | `BufferManagement.c` over `rsrc.c` and the semaphore | composition, implements `IdPool` |
| `Timespec` | `posix_rstime.c`, `FreeRTOS_POSIX_utils.c` | operators; proved only |
| `IpcpEvents` | `IPCP_task.c`, `posix_rsqueue.c`, `FreeRTOS_POSIX_mqueue.c`, with driver and applications around | composition; buffers are counted |
| `LossyStream` | what data transfer promises | abstract specification |
| `DataTransfer` | `dtp.c`, `efcp.c`, `rmt.c`, `du.c`, the driver and the waiting list of a flow | composition; implements `LossyStream` |
| `RinaName` | `rina_name.c` | operators |
| `Flows` | allocation of flows: `rina_api.c`, `flowAllocator.c`, flow states of `IPCP_ops.c`, connections of `efcp.c`, requests and answers of `ribd.c`, `rib.c` | composition, over `RinaName` |
| `ArpCache` | `Arp826.c`, `rina_gpha.c` | operators on a cache, over `RinaName` |
| `IpcManager` | `IPCP_manager.c`, start of `IPCP_task.c` | component |
| `TapInterface` | `linux_tap/NetworkInterface.c` | component, over `IpcManager` |
| `ShimFlows` | `shim_IPCP_flow.c`, both shims' operations, the N-1 port of `rmt.c` | component, over `ArpCache` and `TapInterface` |
| `Cdap` | `enrollment.c`, `ribd.c`, `rib.c`, `serdesMsg.c` | component, over `ShimFlows` |
| `WifiConnect` | `esp32/NetworkInterface.c` | component |
| `Association` | what enrolment promises | abstract specification |
| `BringUp` | start-up to enrolment | composition of the six above; implements `Association` |
| `NumMgr_proofs`, `NetBuffers_proofs`, `Timespec_proofs`, `IpcpEvents_proofs`, `DataTransfer_proofs`, `Flows_proofs`, `ArpCache_proofs`, `BringUp_proofs` | | theorems and their lemmas |

**NumMgr.**  The bit array is the set `bits` of ids whose bit is set.  A call is
`Call`, several `Probe`s, then `Overflow` or `Mark`: test and set of a bit are
separate steps, as in the code.  The overflow test comes before the wrap, as in the
code; that order decides when the loop ends.

**NetBuffers.**  A call of `pxGetNetworkBufferWithDescriptorFor` is `Get`
(semaphore), `AllocDesc` (descriptor pool, under the mutex), `Check`, `Grow`,
`Unlink`, `CountFree`, `Attach` (payload pool, no lock), `NoPayload` on failure;
`Release`, `FreePayload`, `Detach`, `FreeDesc`, `Post` free a buffer.  A use of the
payload pool is split into its single loads and stores: `reg[t]` is what a thread
has loaded, from the free list (which stands for its length) or from one of the two
16-bit counters, so an update may be lost.  What two threads in that pool can
do to its lists and blocks beyond that is `Damage`, an end of the program that may
come at any time once they have met (`overlapped`).  `HandOver` is the transfer of a pointer through the event queue.  The free list of
descriptors is abstracted from a LIFO list to a set, which allows more.
`DoubleReleasers` lets a thread release what it no longer owns; `crashed` stands
for `abort()` and wild pointers.  The semaphore is the one of FreeRTOS+POSIX
(`Semaphore`): a counter decides first, a second semaphore queues those who are
late, and a wait that fails leaves the counter decremented.  `MaxFailed` bounds
such failures (2^31 of them would wrap the counter).  On Linux it is the
platform's own.  The size of a payload, which the code rounds up, makes no difference
to the pool and is left out.

**Timespec.**  How microseconds become an absolute time, at one moment, and ticks,
at a later one.  32-bit products wrap; seconds are not taken to overflow.  The tick
rate is that of `sdkconfig` (100 Hz).  How long FreeRTOS delays is its own business.

**IpcpEvents.**  `pc[t]` follows `xSendEventStructToIPCPTask`: ready test, then
`mq_getattr` and `mq_send` without a timeout (two steps, so a send may block), or
`mq_timedsend`.  `handled` is what the task works on.  What a handler does to
buffers is all there: taking (`Take`), releasing (`GiveBack`, `Done`), sending to
its own queue (`SDUWrite`), and the paths that forget a buffer (`DropFrame`,
`Decap`, `Refused` for a frame).  `crashed` ends the program: NULL without a
buffer, double release, and the read of the first waiting packet.  A timed send may
expire at any time (`Timespec` says when).
A restart is in `Init`: the queue is opened by name, without `O_EXCL`, and never
unlinked, so on Linux it outlives the program with its events in it
(`LeftQueue`, at most `Leftovers`), which point into memory that is gone
(`Stale`).

**DataTransfer.**  PDUs are known by ordinal; the code sees only `SN(n)`, the
ordinal modulo `SeqSize` (2^32).  `out` is everything between the two DTPs before
the receiver's interrupt.  The driver's `memcpy` of a frame is interrupted at
any byte, any number of times: `CopyHeader` (what lies before the number),
`CopyNumber`, `CopyRest`.  A copied frame has a header (`n`) and data (`sdu`), which
differ when the interrupt comes between them; when it comes inside the number, the
low bytes of one and the high bytes of the next may make a number of neither
(`Mixes`; `Splits` is 2^8, 2^16, 2^24 in the code), and `n` is then that number
(`Torn`), in none of the headers sent.  A stray may leave any bytes.  Among the frames are
strays: other hosts', management PDUs, PDUs that a module refuses; each is taken
along its own path through the filter, `xRmtReceive` and EFCP.  The state of the
sender's flow decides whether it may write, and a connection to the node's own
address destroys what is written, as the test for it is inverted.  `Insert` is
`vRsListInsert`, which puts an item after the *first* one: packets that arrive as
1, 2, 3, 4 wait as 1, 4, 3, 2, and `Arrived` puts them back in order of arrival.
The frame handler releases a buffer that
DTP has destroyed already (`ReceiveOld`): `fault` then stands for the abort, or
for the theft of another thread's buffer.  Output is taken as synchronous, and
truncation of an SDU is left out.

**Flows.**  `pc[p]` follows the thread that allocates the flow on port `p` through
`RINA_flow_alloc` (`Bind`, `WaitBound`, `AskAllocation`, `AskTimer`) and
`RINA_flow_read` (`Read`, `WaitReceive`, `ReadAgain`).  The IPCP task takes one event
at a time: `BindEvent` (`xNormalFlowPrebind` and the wake-up), `FlowRequest`
(`vFlowAllocatorFlowRequest` with all it calls), or an `other` event, which may be a
frame that brings `Enrol`, `RemoteCreate`, `RemoteDelete`, an answer (`Accepted`,
`Unexpected`; an answer that is refused changes nothing) or data (`DataPdu`).  The
answer to a request may come any number of times.  `xEfcpImapTable` is the first
row of the table, since the others are never written; tables that are only filled
are sequences or sets with a size.  Of the bits of a handle only
`eFLOW_BOUND` and `eFLOW_RECEIVE` are kept, as no wait that is reached is for another.  Invoke ids
grow by one (the code may skip some).  A send is one step here; the race inside it is
in `IpcpEvents`.  Memory is taken to suffice, except network
buffers.  Names are modelled by what the code makes of them (`RinaName`): a copied
name is empty, as two inverted tests meet, and text is split at another
separator than it is joined with.

**ArpCache, ShimFlows.**  A row of the cache points to a cell that holds an
address, and rows share cells (all of them at first): a cache is rows and cells.
Two hosts that came back with new addresses and are refreshed onto the shared
initial cell overwrite each other; `Agrees` leaves that cell out.  The flow over
WiFi asks for the peer's address and is allocated by whatever reply comes; over
IEEE 802.15.4 it is configured.  The RMT's N-1 port is not initialised, so
`"unset"` and `"null"` are what `malloc` may have left.  An answer does not look at
the name: any host's reply may give the flow its destination.

**IpcManager, WifiConnect, TapInterface.**  The manager's program counter follows
`RINA_init`; the IPCP task is a thread that is ready when it has run, and an event
sent before is refused, a result that `IPCP_manager.c:203` ignores (`"unheard"`).
It waits, without a timeout, for the WiFi driver, an external component that
reports starts, failures and events.  Over TAP a monitor thread follows netlink
messages and starts or dismisses read threads by bytes in pipes; the parameters of
a read thread are a static variable, so one that starts late listens to the pipe of
a later one.  The flags are saved before the netlink socket is bound:
`missed` records a change of the link that nobody can have heard.

**Cdap, BringUp.**  A message is its operation, invoke id, object and optional
values; what was sent may be handled at any later time, again or never: `toPeer`
and `taken` only grow, and `FromPeer` is what the peer may ever have said.  Tables
have sizes, and what is looked up in vain is dereferenced where the code does so
(`fault` names the cause).  The node's own application may take port 1 first
(`TakePort`), since the id manager is shared.  Memory, network buffers and places in
the event queue are taken to suffice here (but for the EFCP container of the normal IPCP); they are the subject of `NetBuffers`
and `IpcpEvents`.  Application flows use the same handler and RIB tables; they
are in `Flows`.  An invoke id does not wrap.

## 3. Runs

| Run | Instance | Shows |
|---|---|---|
| `NumMgr_serial` | 4 ids, 1 thread | next fit, overflow only when taken, `IdPool`, and that a call returns unless every id is taken with 1 the last |
| `NumMgr_returns` (violation) | 3 ids | the excepted case loops for ever, where `num_mgr.c:70` says overflow is reported |
| `NetBuffers_shared` | 3 threads, 2 buffers, 1 failed wait | ownership, no leak, `IdPool`; until two threads meet in the payload pool, an exact count of payloads, and a buffer for whoever the semaphore admits |
| `NetBuffers_admitted` (violation) | 2 threads, 2 buffers | a caller the semaphore admits is refused a payload or finds none on the list: two threads use the payload pool at once |
| `IpcpEvents_sized` | length 5 for 3 buffers, 1 control event and 1 event left by an earlier run | with the length that `configSensor.h:77-78` asks for, and room for what was left, every API event gets its turn |
| `IpcpEvents_short` | length 2 for 4 buffers, 1 event left by an earlier run | sends are refused, only while more events than places are under way, and only the listed paths lose a buffer |
| `IpcpEvents_blocks` (violation) | 10 places, 20 buffers | the IPCP task can block in its own queue, which `IPCP_task.c:177` excludes |
| `DataTransfer_stream` | 4 numbers of 2 digits, 4 SDUs, 2 frames in flight, 2 queue places, 1 stray frame | order, at most two copies, no lost wake-up, `LossyStream`; until a torn number, no gap below the edge and duplicates only after a gap |
| `DataTransfer_released` (violation) | 3 SDUs | a buffer is released twice, which `BufferManagement.c:375` calls fatal |
| `Flows_allocate` | 3 threads, 2 flow rows, 3 handlers, 4 RIB rows, 2 queue places, peer's cep-id 1 or 2 | an allocated flow is found by the lookup, was bound first, has its connection when it is the only one, and only it gets data; answers find their callback until the table is full; `xRINA_bind` returns |
| `Flows_woken` (violation) | 1 thread | a reader is woken without a packet, which `rina_api.c:44` excludes |
| `BringUp_enrol` | both shims, both interfaces; a node that connects or waits, a peer that may connect too and may give a token; 2 hosts, 4 ARP rows, 4 RIB rows, 2 connections, handlers and neighbours, 2 instances, 2 retries | below |

`BringUp_enrol` (262,694 states, about two minutes) asks of the whole start-up: an address in the cache is its
host's (`AddressesAgree`); the flow over WiFi has the peer's if only the peer has
answered (`DestinationAnswered`); answers carry the id, object and token they
were asked for (`AnswersAsked`); one M_START is sent (`StartsOnce`); what the peer
sends ends the program only under the conditions named (`SurvivesPeer`); the
read threads of the TAP device follow the link (`ReadersTold`, `SomeoneReads`);
enrolment goes through its phases in order, once (`AssociationSpec`); connecting to
the access point returns (`ConnectReturns`); and a node that connects is enrolled in
the end unless one of the listed things hinders it (`Enrols`).  `SurvivesPeer`
asks for N-1 port 1 and for a node that connects; over WiFi also for a peer that
waits for it, and no connection under port 0: the node looks up connections
under port 1 whatever port it has made them for; names, the N-1 port and a missing token may end
the program, as they are read uninitialised.

**Bounds.**  Every number that a `CONSTANTS` comment calls a bound is a limit of the
model: `MaxSent`, `Flight`, `MaxStrays`, `Controls`, `Leftovers`, `MaxTaken`,
`MaxFailed`, `MaxInvoke`, `MaxArp`, `MaxLinkChanges`.  The rest are
parameters of the code at small values.

- Four ids give a scan that wraps with ids taken on both sides.
- Three threads for two buffers: one waits at the semaphore while two meet in the
  payload pool, where the second update of a counter overwrites the first.  One failed
  wait leaves the counter of the semaphore too low.  Counters wrap at 8, beyond the
  limit of 3.
- Four SDUs over four numbers let numbers wrap, and four consecutive packets
  arrive, two more than the properties relate.  A number of two binary digits
  (`Splits` is 2) tears between them: 1 and 2 make 3 or 0.  One stray frame meets the
  interrupt, the copy and the queue at every point.
- Length 2 in `IpcpEvents_short` makes every send race for the last place.  One
  event left over shortens the queue by one; more are the same again.
- In `Flows_allocate` the enrolment and three requests overfill each table, and a
  second and a third flow meet the lookup that sees only the first.
- In `BringUp_enrol` invoke ids up to 4 let the exchange be repeated in full once;
  beyond, a message is handled once.  Two ARP packets besides the answer let another
  host come in, and come back replaced.  Three link changes are up, down, up: a
  third read thread with two earlier ones about.  With a TAP device the peer is silent and
  the node waits (`Quiet`), and only the answer to a request comes in as ARP: the
  threads of the interface and the CDAP exchange share nothing but the arrival of
  frames.

**Deadlock** is not checked (`CHECK_DEADLOCK FALSE`) where the program ends after
a fault, or where the bounded traffic is over.

**Fairness.**  `NumMgr`: a call goes on (a thread runs); nobody must call.
`IpcpEvents`: the IPCP task turns its loop and a sender that can proceed does;
taking further buffers and writing SDUs are not fair, nor are drivers and
applications.  `Flows`: the IPCP task handles what is queued, and a thread whose
bit is set goes on.  `BringUp`: manager and IPCP task go on, since they are threads
that wait for nothing else, and the WiFi driver reports how an attempt ends.  For
`Enrols` only, the peer answers an ARP request and each of its messages arrives
in the end: the code has no timer, so without that it would promise nothing.  No
fairness is assumed of the radio, the link or of locks.

**NDEBUG.**  The build does not define it, and then a failed payload allocation
ends in `memset(NULL)`.  `NetBuffers_shared` sets `NDebug` to explore what lies
beyond.

## 4. Proofs

`TLAPS` proves, for every value of the constants that the named assumptions allow:

- `NumMgr_proofs`: with any callers, ids in range (`ScanStaysInRange`); with one
  caller at a time (`Serial`), next fit (`SerialNextFit`), the meaning of overflow
  (`SerialOverflow`), and `IdPool` (`SerialPool`): no id twice.  The invariant says that the ids
  scanned so far in the current call are taken; `bits` is then the union
  of what is held.  `SerialCallEnds` measures the scan by its distance from the
  last id: a turn that stays in the loop adds one to it, and it is at most `NumCnt`.
  The exception is proved to be one: with every id taken and the last one given 1,
  the call loops for ever (`SerialAllTakenSpins`).
- `NetBuffers_proofs`: `SemaphoreGuardsPool` and `BuffersTyped` hold even with
  double releases; the invariant is that permits, on whichever of the semaphore's two
  levels, plus the threads between semaphore and pool are
  at most the free list.  `DescriptorOwnership`, `DescriptorsKept` and
  `DescriptorsRefinePool` need that nobody releases twice: then the sum is
  exact, and every descriptor free or owned once, whatever becomes of the payloads.
  So do `PayloadsInUse` and `AdmittedAlone`, which hold until two threads have
  met in the payload pool: the invariant `Kept` gives, at each load and store of the
  thread that is there, the free list, the two counters and what it has loaded, and
  says that a thread without a payload yet has a descriptor without one, so the
  payloads attached are fewer than the limit.  The meeting, which nothing in the code
  prevents, is what the finding is about.
- `Timespec_proofs`: a wait that is refused at once, or lasts its ticks, ends no
  earlier than asked and less than a tick later, whenever the product does not wrap
  (`WaitsAsAsked`); the wait "for ever" of `RINA_flow_alloc` does wrap, and is
  over after 430 ticks (`ForEverEnds`); what `xRsTimeCheckTimeOut` leaves never grows (`TimeRunsOut`).
- `IpcpEvents_proofs`: `QueueFullUnderLoad`.  `FullOnlyUnderLoad` is not inductive;
  the invariant `Balance` says that free, lost, unread, held and handled buffers,
  those of events in the queue and those of events being sent are at most
  `Buffers`, the control events and what was left over, so a sender means a free
  place.  `EventsTyped` and `BuffersAccounted` need the exact account, `Counted`:
  events with a buffer and events without one are counted apart, wherever they
  are, as cardinalities of sets of positions and threads.  `ReceiveUnderWay` moves a
  queue up by a bijection of positions.  `EventsInTurn`: an event stays in its place
  or moves up by one as the first is taken.  `TurnsEnd`: the steps left for the event
  that is handled, those of its sends to itself included, are a number (`TurnLeft`,
  over the bound `MaxTaken`) that every step of the task makes smaller and no other
  thread changes.  `OwnFramesRefusedUnderLoad`: those sends find the queue full
  only while others' events fill it, whatever its length; in the code 10 of 20 buffers
  can, in a queue as long as configured none could.
- `DataTransfer_proofs`: all the properties of `DataTransfer_stream`, the
  refinement included.  The invariant `Chain` looks at the line of copies that have
  arrived, `Arrived`, followed by the event queue: each copy's data is no
  later than the next one's header, and strictly before the header after that, so no
  PDU has a third part; what is in the frame buffer and in the air comes after.
  A torn number has no place in that order, and the data behind it does.
  What is dropped leaves a subsequence, to which the same applies (`Within`).  `Window`
  adds, while numbers do not wrap, that the edge is passed by nothing missing and that
  repeats come only after a gap, until a packet with a torn number has arrived: one
  may be posted as new, move the edge, and be posted again when its PDU comes.
  `EndsHaveCauses` names all that leads to the finding
  `NeverReleasedTwice`: a stray frame, a wrap, a torn number, or a second copy of the PDU at
  the edge; lost frames and refused events do not.
- `Flows_proofs`: all the safety invariants of `Flows_allocate`, from one
  inductive invariant.  Its part `Asked` says that a bind event is in the queue
  only while its thread waits with no flow bound, that an allocate event is there
  at most once and before the instance is, and that a thread past its binding has a
  flow; `Granted` ties flow, instance and packets together; `Connected` says whose
  row the table of connections holds; `Pending` counts handlers.  From it also:
  `BindIsOnItsWay` (the bind event that a thread waits for is in the queue, once, and
  one place nearer after each turn of the task, or has set its bit), `AllocatedForGood`,
  and `FaultsHaveCauses`: an object or a callback is missing only after the RIB or the
  table of handlers was full, and a read ends only in a packet that waits.
- `ArpCache_proofs`: what each operation does to a cache of any number of rows.
  A row's cell is the initial one, its own or the node's; as long as a row is not
  valid, a refresh writes the address that is there already, or writes into the
  initial cell or the row's own, which spoils no other row.  Hosts are
  assumed not to bear the node's own names (`HostsAssumption`).
- `BringUp_proofs`: every safety property of `BringUp_enrol` and the refinement,
  for any sizes, hosts and bounds.  They rest on four invariants.  `IInv`: nothing has
  been started, and no neighbour is known, before the connection is answered, and a
  token has come with an M_STOP; each step then keeps `Association`'s phase or moves
  it on.  `Survival`: the port is chosen once, and the rows that an answer will look
  up are there before the message that it answers goes out.  `TapInv`: a thread that
  listens will read the latest pipe, even one that has not read its parameters yet.
  `AddressInv`: the IPCP task registers once, before it asks for the flow, and rows
  that the lookup considers are those of hosts that have answered.
  A fifth, `Progress`, says at each stage of start-up what is on its way: the event,
  the flow asked for, the request with the peer, its answer.  `BringUpGoesOn`
  follows: a node that connects and is not enrolled waits for nobody who waits for it,
  unless hindered as `Enrols` says.  It assumes room for two instances (`ShimFits`);
  the code has five (`configSensor.h:119`).  `AnswersAdvance`: handling M_CONNECT_R or
  M_STOP takes the phase on from whatever state.  `ReportsEnd`: until a bit is set the
  WiFi driver has a report to make, and each that sets none leaves fewer.

Left to TLC: liveness under fairness (`AllocateReturns`, `ControlHandled`,
`BindReturns`, `ConnectReturns`, `Enrols`), as ENABLED is out of the prover's reach.
Every other property of a passing run is a theorem.  Of the liveness properties the
part that is safety is proved: what is waited for is on its way, and steps of those
who bring it bring it nearer (`SerialCallEnds`; `EventsInTurn` and `TurnsEnd`;
`BindIsOnItsWay`; `ReportsEnd`; `BringUpGoesOn` and `AnswersAdvance`, without a measure).
That the steps are taken is the fairness, which TLC applies.  `TurnsEnd` does not say
that the task is never held up: in a queue too short it blocks (`IpcpNeverBlocks`).
What the operators defined by recursion compute for every input is not proved
either (induction over data).

## 5. What the code does that its documents do not say

Found by a run, listed under "findings": `EveryCallReturns`, `BufferAfterSem`,
`IpcpNeverBlocks`, `NeverReleasedTwice`, `ReceiveWaited`.  Met in reading, and modelled as they are
unless said otherwise:

Buffers, events, data:
- `RINA_flow_read` takes the owner of the list head (NULL) for a packet (`rina_api.c:626`);
- `xDuDecap` allocates a buffer it never uses (`du.c:57`);
- the counters of the payload pool are updated without a lock (`rsrc.c:226`, `231`,
  `281`, `315`): a lost `--` leaves the pool fuller than it is for good, and `uiNumFree`
  below zero is 65535, after which every payload is refused;
- a sequence number that the interrupt tears (255 and 256 make 511) may be posted as
  new, and the real 511 is then posted again (`ieee802154_NetworkInterface.c:353`);
- ports and cep-ids may be handed out twice to two callers at once: no lock
  protects the number manager (`IPCP_manager.c:158`);
- results of posting are ignored (`dtp.c`), and the RMT reports success always;
- `vRsListInsert` inserts after the first item, so waiting packets are not in order;
- the event queue has 10 places (`IPCP_task.c:456-458`), though the configuration
  asks for one per buffer and some to spare (`configSensor.h:77-78`);
- the event queue is opened without `O_EXCL` and never unlinked
  (`posix_rsqueue.c:36`);
- `xDtpPduSend` inverts the test for a local flow: a PDU for the own address is destroyed;
- two control types that `xRmtReceive` does not list are destroyed with the rest, and
  its pending branch for a busy N-1 port cannot be reached;
- `xRsTimeCheckTimeOut` and `rstime_waitusec` multiply by 1000 in 32 bits:
  `portMAX_DELAY` (`rina_api.c:339`) is 4.3 seconds, and a timed send may expire with room in the queue.

Flows and names:
- `RINA_flow_alloc` logs "Flow allocated in the port Id" and returns before the
  flow is allocated (`rina_api.c:439`); its loop would wait for `eFLOW_ACCEPT`, where
  the comment at `rina_api.c:429` says `eFLOW_BOUND`; the tests at lines 398 and 414 are inverted;
- a missing name gives a NULL request, which is dereferenced;
- `xRstrNameCpy` and `pxRstrNameDup` each invert a test, so a copy is empty;
- a text is split at `|` and made with `/`;
- `xEfcpContainerReceive` sets the peer's cep-id only when it is set already, where
  the comment at `efcp.c:320` says "set to avoid races, otherwise set it";
- a second flow request overwrites the only row of EFCP instances (`efcp.c:876`), and
  the lookup of flow allocator instances reads the first row only
  (`flowAllocator.c:59`): the first flow loses its connection, the second is never
  allocated;
- `xNormalConnectionModify` is called with the peer's cep-id (`flowAllocator.c:333`),
  so a peer that gives another than 1 never gets the flow allocated;
- rows of pending handlers are never freed, and a missing one is called through
  NULL (`ribd.c:942`, `ribd.c:1107`); the same holds for RIB objects (`ribd.c:948`);
- the condition and the mutex of a flow handle are initialised and then zeroed by
  the memset (`rina_api.c:213`); zero happens to be their initial value here;
- `prvNormalFindFlow` and `pxDtpCreate` leak an allocation per call (memory is not modelled);
- the flow encoder writes past its allocation, at a distance counted in structures (memory is not modelled).

Start-up and enrolment:
- `ribd.c` says of a missing connection "If it does not exist, create a new one", and
  dereferences it;
- `pxRmtCreate` leaves the N-1 port uninitialised, and reports one as bound already
  when it is NULL;
- M_CONNECT and M_CONNECT_R are handled with an object name that the decoder does
  not set, and a missing token is read;
- the test of M_RELEASE_R is inverted (`ribd.c:1054`), and M_START_R falls through in
  `xRibdSendResponse`;
- `vRibdPrintCdapMessage` prints a message before it is tested for NULL, and
  `a_data` without a message reads an unset pointer (neither is sent by this peer);
- `IPCP_manager.c:203` ignores that its event was refused;
- a failed registration leaves a name freed but set;
- any event of the WiFi driver counts as connected (`esp32/NetworkInterface.c:109`);
- `prvLinuxTapOpen` returns a negative descriptor as success, so the node runs without
  a device; `prvLinuxTapSetDown` sets flags with `|= ~`; the TAP interface ignores
  `xReleaseAfterSend`, so that an ARP request costs a network buffer.

## 6. Not modelled

- **Vendored:** protobuf (`pb_encode.c`, `pb_decode.c`: messages are fields that are
  set or not), FreeRTOS's kernel, the timers, threads and clocks of FreeRTOS+POSIX.
- **Without a caller at this commit:** resizing a network buffer
  (`BufferManagement.c:411-450`), `rina_timer.c`, `hashtab.c`, destroying
  connections and flows, unbinding, unregistering, disconnecting from the access
  point, `xRmtAddressAdd` and its lookups, `xEnrollmentEnroller`,
  `prvRibdSerToRinaMessage`, encoding of neighbours, `prvLinuxTapSaveFlags`,
  `xRINAstringToName` (tests only), closing a message queue.
- **Commented out:** association over IEEE 802.15.4.
- **Test double:** the interface over message queues (`mq`): its one-shot
  notification is not registered again, so it handles one frame.
- **Not in the build:** `linux_tap` is not in the current CMake source paths; it is
  modelled because it is the one interface with threads of its own.
- **Pure output:** logging and printing (half of `rsrc.c`), statistics.
- **Data:** header layouts, contents of messages and SDUs, checksums.
- **Messages against the protocol:** an M_STOP without a value leaves a pointer unset
  (`ribd.c:277-289`, `enrollment.c:479`); in `Cdap` the value of each message of the
  neighbour decodes.
- **Second releases** are part of `NetBuffers` and of its theorem `SemaphoreGuardsPool`;
  in its runs nobody makes one (`DoubleReleasers` is empty).  **Two callers at once** of
  the number manager are part of `NumMgr` and of `ScanStaysInRange`; its runs have one,
  as the other properties hold of one only.
- **Errors of the platform:** ignored results of `esp_wifi_connect`, failing reads of the device or of netlink, a monitor
  that finds bytes left over, failing thread creation in the TAP interface.
- **Applications:** examples; their calls are the application steps.

## 7. Plan

Done in this order: number manager, buffers, events, data transfer, flows, then
semaphore and timeouts, start-up and enrolment with address resolution.  What
is left is a second node: two instances of `Cdap` that answer each other, in place
of the external peer.  Abstract: both enrolled, or neither believes it for ever.

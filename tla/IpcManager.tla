----------------------------- MODULE IpcManager -----------------------------
(***************************************************************************)
(* The IPC manager (IPCP_manager.c): RINA_init creates the normal IPCP,    *)
(* the IPCP task (IPCP_task.c) and the shim, and enters both IPCPs in the  *)
(* table of instances in which the components look each other up.  The     *)
(* task is a thread of its own, which is ready for events only when it has *)
(* run.                                                                    *)
(***************************************************************************)
EXTENDS Integers, Sequences

CONSTANT INSTANCES_IPCP_ENTRIES

ASSUME InstancesAssumption == INSTANCES_IPCP_ENTRIES \in Nat \ {0}

VARIABLES
  shim,                  \* the module built in: SHIM_802154_MODULE or SHIM_WIFI_MODULE
  pc,                    \* of the manager, in RINA_init; "unheard" is "done", the
                         \* event having been refused
  xInstanceTable,        \* types of the instances
  xIpcpTaskInitialised,
  xStackEventQueue       \* its events eShimEnrolledEvent and eShimFlowAllocatedEvent

managerVars == <<pc, xInstanceTable, xIpcpTaskInitialised, xStackEventQueue>>

Types == {"eNormal", "eShimWiFi", "eShim802154"}

ManagerTypeOK ==
  /\ shim \in {"802154", "wifi"}
  /\ pc \in {"init", "task", "thread", "shim", "enrol", "start", "started", "wait", "event",
             "done", "unheard", "failed"}
  /\ xInstanceTable \in Seq(Types)
  /\ Len(xInstanceTable) <= INSTANCES_IPCP_ENTRIES
  /\ xIpcpTaskInitialised \in BOOLEAN
  /\ xStackEventQueue \in Seq({"enrolled", "allocated"})

(* xIpcMngrInit: number managers and network buffers *)
ManagerInit == /\ shim \in {"802154", "wifi"}
               /\ pc = "init"
               /\ xInstanceTable = <<>>
               /\ xIpcpTaskInitialised = FALSE
               /\ xStackEventQueue = <<>>

(* prvIpcpMngrAddInstanceEntry *)
AddInstanceEntry(type) ==
  xInstanceTable' = IF Len(xInstanceTable) < INSTANCES_IPCP_ENTRIES
                    THEN Append(xInstanceTable, type) ELSE xInstanceTable

(* pxIpcManagerFindInstanceByType *)
FindInstanceByType(type) == \E i \in 1 .. Len(xInstanceTable) : xInstanceTable[i] = type

(* pxIpcMngrCreateShim, pxIpcManagerActiveShimInstance *)
ShimType == IF shim = "wifi" THEN "eShimWiFi" ELSE "eShim802154"
ActiveShimInstance == FindInstanceByType(ShimType)

-----------------------------------------------------------------------------
(* pxEfcpContainerCreate: without memory for it or for its number manager  *)
(* there is no container.                                                  *)
EfcpContainerCreate == {"container", "NULL"}

(* pxIpcMngrCreateNormal, pxIpcpCreate: no IPCP without a container; its   *)
(* entry is then made through NULL.                                        *)
CreateNormal == /\ pc = "init"
                /\ \E pxEfcpContainer \in EfcpContainerCreate :
                     IF pxEfcpContainer = "NULL"
                     THEN pc' = "failed" /\ UNCHANGED xInstanceTable
                     ELSE pc' = "task" /\ AddInstanceEntry("eNormal")
                /\ UNCHANGED <<xIpcpTaskInitialised, xStackEventQueue>>

(* pxRsQueueCreate, of the event queue, which may not be had: an assertion *)
(* ends the program.                                                       *)
RsQueueCreate == pc = "task" /\ pc' \in {"thread", "failed"}

(* The thread of the IPCP task, which may not be had either *)
CreateThread == pc = "thread" /\ pc' \in {"shim", "failed"}

(* xIpcpInit *)
IpcpInit == /\ RsQueueCreate \/ CreateThread
            /\ UNCHANGED <<xInstanceTable, xIpcpTaskInitialised, xStackEventQueue>>

(* prvIpcpTask runs for the first time. *)
StartTask == /\ pc = "shim" \/ ActiveShimInstance
             /\ ~xIpcpTaskInitialised /\ xIpcpTaskInitialised' = TRUE
             /\ UNCHANGED <<pc, xInstanceTable, xStackEventQueue>>

(* pxShim802154Create, pxShimWiFiCreate *)
CreateShim == /\ pc = "shim" /\ pc' = "enrol"
              /\ AddInstanceEntry(ShimType)
              /\ UNCHANGED <<xIpcpTaskInitialised, xStackEventQueue>>

(* xSendEventStructToIPCPTask refuses what comes before the task is ready; *)
(* whether the event was taken is not looked at, and RINA_init returns.    *)
SendEnrolled == /\ pc = "event"
                /\ IF xIpcpTaskInitialised
                   THEN pc' = "done" /\ xStackEventQueue' = Append(xStackEventQueue, "enrolled")
                   ELSE pc' = "unheard" /\ UNCHANGED xStackEventQueue
                /\ UNCHANGED <<xInstanceTable, xIpcpTaskInitialised>>
=============================================================================

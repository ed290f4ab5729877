---------------------------- MODULE TapInterface ----------------------------
(***************************************************************************)
(* The network interface over a TAP device (linux_tap/NetworkInterface.c). *)
(* A monitor thread follows the state of the link in netlink messages; a   *)
(* thread reads the device while the link is up, and leaves when it finds  *)
(* a byte in the pipe it was given.  The byte stays in the pipe.  The      *)
(* parameters of a read thread are a static variable, so that one that     *)
(* starts late finds the pipe of the latest.                               *)
(*                                                                         *)
(* External are the kernel, whose link goes up and down, and the frames.   *)
(* The netlink socket, pipes and threads are taken to be had.              *)
(***************************************************************************)
EXTENDS IpcManager

CONSTANT MaxLinkChanges   \* bound: how often the link goes up or down

ASSUME TapAssumption == MaxLinkChanges \in Nat

VARIABLES
  device,                 \* the interface built in: "esp32" or "tap"
  nTapFD,                 \* the device is open
  linkUp,                 \* IFF_UP of the device
  linkChanges,
  newLinks,               \* RTM_NEWLINK messages in the monitor's socket
  monitor,                \* the monitor thread: "notifyUp", "notifyDown" with
                          \* the flags saved
  nCurrentIffFlags,       \* IFF_UP of the flags it has saved
  xIsInterfaceConnected,
  readers,                \* the read threads, and the pipe of each; pipe k was
                          \* made with thread k
  told,                   \* pipes with a byte in them
  missed                  \* the link changed while no one was listening, or in
                          \* the course of xNetworkInterfaceConnect

tapVars == <<nTapFD, linkUp, linkChanges, newLinks, monitor, nCurrentIffFlags,
             xIsInterfaceConnected, readers, told, missed>>

TapTypeOK ==
  /\ device \in {"esp32", "tap"}
  /\ {nTapFD, linkUp, nCurrentIffFlags, xIsInterfaceConnected, missed} \subseteq BOOLEAN
  /\ linkChanges \in 0 .. MaxLinkChanges
  /\ newLinks \in Seq(BOOLEAN)
  /\ monitor \in {"off", "starting", "bound", "notifyUp", "notifyDown"}
  /\ readers \in Seq([pc : {"starting", "polling", "reading", "gone"}, pipe : Nat])
  /\ told \subseteq 1 .. Len(readers)

TapInit == /\ device \in {"esp32", "tap"}
           /\ device = "tap" => shim = "wifi"
           /\ linkUp \in (IF device = "tap" THEN BOOLEAN ELSE {FALSE})
           /\ nTapFD = FALSE
           /\ linkChanges = 0
           /\ newLinks = <<>>
           /\ monitor = "off"
           /\ nCurrentIffFlags = FALSE
           /\ xIsInterfaceConnected = FALSE
           /\ readers = <<>>
           /\ told = {}
           /\ missed = FALSE

-----------------------------------------------------------------------------
(* The kernel tells those who listen. *)
LinkChange ==
  /\ monitor # "off"
  /\ linkChanges < MaxLinkChanges /\ linkChanges' = linkChanges + 1
  /\ linkUp' = ~linkUp
  /\ newLinks' = IF monitor = "starting" THEN newLinks ELSE Append(newLinks, ~linkUp)
  /\ missed' = (missed \/ monitor = "starting")
  /\ UNCHANGED <<nTapFD, monitor, nCurrentIffFlags, xIsInterfaceConnected, readers, told>>

(* prvLinuxTapGetFlags *)
GetFlags == linkUp

(* prvLinuxTapOpen returns true: with the device or, "return fd", with     *)
(* none when the clone device cannot be opened.                            *)
LinuxTapOpen == nTapFD' \in BOOLEAN

(* prvLinuxTapStartMonitorThread *)
StartMonitorThread == monitor' = "starting"

(* xNetworkInterfaceInitialise, when the device is had: the flags are      *)
(* captured before anyone listens for changes.                             *)
Initialise ==
  /\ LinuxTapOpen
  /\ nCurrentIffFlags' = GetFlags
  /\ StartMonitorThread
  /\ UNCHANGED <<linkUp, linkChanges, newLinks, xIsInterfaceConnected, readers, told, missed>>

(* prvLinuxTapCheckFlags *)
CheckFlags == nCurrentIffFlags

(* prvLinuxTapStartReadThread: nothing without a device *)
StartReadThread ==
  readers' = IF nTapFD THEN Append(readers, [pc |-> "starting", pipe |-> 0]) ELSE readers

(* xNetworkInterfaceConnect, up to the read thread *)
ConnectStarts ==
  /\ IF CheckFlags THEN StartReadThread ELSE UNCHANGED readers
  /\ missed' = (missed \/ monitor \in {"notifyUp", "notifyDown"})
  /\ UNCHANGED <<nTapFD, linkUp, linkChanges, newLinks, monitor, nCurrentIffFlags,
                 xIsInterfaceConnected, told>>

ConnectStartsFails == CheckFlags /\ ~nTapFD

(* and the rest of it *)
ConnectEnds ==
  /\ xIsInterfaceConnected' = TRUE
  /\ UNCHANGED <<nTapFD, linkUp, linkChanges, newLinks, monitor, nCurrentIffFlags, readers,
                 told, missed>>

-----------------------------------------------------------------------------
(* prvLinuxTapMonitorThread, up to bind *)
Bind == /\ monitor = "starting" /\ monitor' = "bound"
        /\ UNCHANGED <<nTapFD, linkUp, linkChanges, newLinks, nCurrentIffFlags,
                       xIsInterfaceConnected, readers, told, missed>>

(* Mutant of Transition: the flags are compared once they are saved. *)
TransitionAfterSave(new, old) == "bound"

(* isNowUp and isNowDown *)
Transition(new, old) == IF new = old THEN "bound"
                        ELSE IF new THEN "notifyUp" ELSE "notifyDown"

(* The loop of prvLinuxTapMonitorThread *)
Receives == /\ monitor = "bound"
            /\ newLinks # <<>> /\ newLinks' = Tail(newLinks)

(* prvLinuxTapParseNewLinkMsg, with the mutex *)
ParseNewLink ==
  /\ Receives
  /\ nCurrentIffFlags' = Head(newLinks)
  /\ monitor' = Transition(Head(newLinks), nCurrentIffFlags)
  /\ missed' = (missed \/ (pc = "started" /\ Head(newLinks) # nCurrentIffFlags))
  /\ UNCHANGED <<nTapFD, linkUp, linkChanges, xIsInterfaceConnected, readers, told>>

(* vNetworkNotifyIFDown: into the latest pipe, nTapThreadFD *)
NotifyIFDown ==
  /\ monitor = "notifyDown" /\ monitor' = "bound"
  /\ told' = IF xIsInterfaceConnected /\ readers # <<>> THEN told \cup {Len(readers)} ELSE told
  /\ UNCHANGED <<nTapFD, linkUp, linkChanges, newLinks, nCurrentIffFlags,
                 xIsInterfaceConnected, readers, missed>>

(* Mutant of NotifyIFUp: no second thread while one is running. *)
NotifyIFUpOneThread ==
  /\ monitor = "notifyUp" /\ monitor' = "bound"
  /\ IF xIsInterfaceConnected /\ \A i \in 1 .. Len(readers) : readers[i].pc = "gone"
     THEN StartReadThread ELSE UNCHANGED readers
  /\ UNCHANGED <<nTapFD, linkUp, linkChanges, newLinks, nCurrentIffFlags,
                 xIsInterfaceConnected, told, missed>>

(* vNetworkNotifyIFUp *)
NotifyIFUp ==
  /\ monitor = "notifyUp" /\ monitor' = "bound"
  /\ IF xIsInterfaceConnected THEN StartReadThread ELSE UNCHANGED readers
  /\ UNCHANGED <<nTapFD, linkUp, linkChanges, newLinks, nCurrentIffFlags,
                 xIsInterfaceConnected, told, missed>>

-----------------------------------------------------------------------------
ReaderGoes(i, from, to) ==
  /\ i \in 1 .. Len(readers) /\ readers[i].pc = from
  /\ readers' = [readers EXCEPT ![i].pc = to]
  /\ UNCHANGED <<nTapFD, linkUp, linkChanges, newLinks, monitor, nCurrentIffFlags,
                 xIsInterfaceConnected, told, missed>>

(* prvLinuxTapReadThread starts: xTapReadTreadParams are the latest. *)
ReaderStarts(i) ==
  /\ i \in 1 .. Len(readers) /\ readers[i].pc = "starting"
  /\ readers' = [readers EXCEPT ![i] = [pc |-> "polling", pipe |-> Len(readers)]]
  /\ UNCHANGED <<nTapFD, linkUp, linkChanges, newLinks, monitor, nCurrentIffFlags,
                 xIsInterfaceConnected, told, missed>>

(* There is a frame: it comes before the pipe.  The read may block, as     *)
(* another thread has seen the frame, too.                                 *)
ReaderPolls(i) == linkUp /\ ReaderGoes(i, "polling", "reading")
ReaderReads(i) == ReaderGoes(i, "reading", "polling")

(* There is a byte in its pipe. *)
ReaderLeaves(i) == /\ i \in 1 .. Len(readers) /\ readers[i].pipe \in told
                   /\ ReaderGoes(i, "polling", "gone")

TapThreads == \/ LinkChange
              \/ Bind \/ ParseNewLink \/ NotifyIFDown \/ NotifyIFUp
              \/ \E i \in 1 .. MaxLinkChanges + 1 :
                    \/ ReaderStarts(i) \/ ReaderPolls(i) \/ ReaderReads(i)
                    \/ ReaderLeaves(i)

(* prvLinuxTapCheckFlags and the write of xNetworkInterfaceOutput *)
TapOutput == CheckFlags /\ nTapFD /\ linkUp

-----------------------------------------------------------------------------
Listens(i) == /\ readers[i].pc # "gone"
              /\ (IF readers[i].pc = "starting" THEN Len(readers) ELSE readers[i].pipe) \notin told

(* Connected, up to date, and no change of the link missed *)
Followed == xIsInterfaceConnected /\ monitor = "bound" /\ ~missed

(* Once the link is known to be down every read thread has been told to    *)
(* leave, one that has not even started or was started for an earlier      *)
(* pipe included (linux_tap/NetworkInterface.c:393-431, 628-636).          *)
ReadersTold ==
  Followed /\ ~nCurrentIffFlags => \A i \in 1 .. Len(readers) : ~Listens(i)

(* While the link is known to be up there is a thread that reads the       *)
(* device and will not leave, though those of earlier times may still be   *)
(* about (linux_tap/NetworkInterface.c:225-270, 638-644).                  *)
SomeoneReads ==
  Followed /\ nCurrentIffFlags /\ nTapFD => \E i \in 1 .. Len(readers) : Listens(i)
=============================================================================

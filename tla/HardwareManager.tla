--------------------------- MODULE HardwareManager ---------------------------
(***************************************************************************)
(* HardwareManager (hwmanager.py) on an AdapterStream (adapterstream.py)   *)
(* on an AsynchronousModernWrapper (adapter/async_wrapper.py): what a      *)
(* script sees of one device.                                              *)
(*                                                                         *)
(* The user's thread makes blocking calls, each of which is a sequence of  *)
(* coroutines that the event loop's thread executes; between them, and     *)
(* while they last, the loop delivers the notifications of the adapter,    *)
(* which read and write the same fields without a lock.                    *)
(***************************************************************************)
EXTENDS None, Naturals, Sequences, FiniteSets

CONSTANTS
    HwDevices,   \* devices, each under one connection string
    HwMaxItems,  \* bound on reports and traces that the devices send
    HwMaxQueues, \* bound on queues that are created
    HwMaxEvents, \* bound on notifications on their way
    HwMaxRPCs    \* bound on calls of send_rpc

VARIABLES
    hwStream,    \* the fields of AdapterStream; queues by their number
    hwManager,   \* the queues that HardwareManager has, and _trace_data
    hwQueues,    \* the contents of the queues, in the order in which they were created
    hwEntry,     \* the wrapper's _connections[0]
    hwLink,      \* the device that the adapter is connected to
    hwOpen,      \* the interfaces that are open on it
    hwEvents,    \* notifications on their way to the stream
    hwUser,      \* the call that the user's thread is in
    hwItems,     \* what was sent so far
    hwRPCs,      \* RPCs that were sent so far
    hwMissed,    \* history: a disconnection was delivered while the stream connected
    hwLeft       \* history: a link that could not be closed was left behind

hwVars == <<hwStream, hwManager, hwQueues, hwEntry, hwLink, hwOpen, hwEvents, hwUser, hwItems, hwRPCs, hwMissed, hwLeft>>
hwAdapter == <<hwEntry, hwLink, hwOpen>>
hwData == <<hwManager, hwQueues, hwItems>>

NoUser == [op |-> NULL, pc |-> "idle", dev |-> NULL]

HwInit ==
    /\ hwStream = [connected |-> FALSE, interrupted |-> FALSE, string |-> NULL, reports |-> NULL, traces |-> NULL]
    /\ hwManager = [reports |-> NULL, traces |-> NULL, data |-> <<>>]
    /\ hwQueues = <<>>
    /\ hwEntry = NULL
    /\ hwLink = NULL
    /\ hwOpen = {}
    /\ hwEvents = <<>>
    /\ hwUser = NoUser
    /\ hwItems = 0
    /\ hwRPCs = 0
    /\ hwMissed = FALSE
    /\ hwLeft = FALSE

HwAt(pc) == hwUser.pc = pc
Go(pc) == hwUser' = [hwUser EXCEPT !.pc = pc]
Enter(op, pc, d) == HwAt("idle") /\ hwUser' = [op |-> op, pc |-> pc, dev |-> d]

\* The call returns or raises.
Return == hwUser' = NoUser

(***************************************************************************)
(* Connecting and disconnecting.                                           *)
(***************************************************************************)

\* AsynchronousModernWrapper.connect() begins with _setup_connection(); its failure
\* tears down what is there.
HwBegin(op, d) ==
    /\ hwLeft' = (hwLeft \/ hwLink # NULL)
    /\ IF hwEntry # NULL
       THEN /\ hwEntry' = NULL
            /\ Return
       ELSE /\ hwEntry' = d
            /\ hwUser' = [op |-> op, pc |-> "connecting", dev |-> d]

\* connect_direct(); op is "connect", or "debug" without the RPC interface.
ConnectDirect(op, d) ==
    /\ HwAt("idle") /\ ~hwStream.connected
    /\ HwBegin(op, d)
    /\ UNCHANGED <<hwStream, hwData, hwLink, hwOpen, hwEvents, hwRPCs, hwMissed>>

\* The legacy adapter makes the link, and connect_sync() returns later.
LinkUp ==
    /\ HwAt("connecting") /\ hwLink = NULL
    /\ hwLink' = hwUser.dev /\ hwOpen' = {}
    /\ Go("linked")
    /\ UNCHANGED <<hwStream, hwData, hwEntry, hwEvents, hwRPCs, hwMissed, hwLeft>>

HwConnected ==
    /\ HwAt("linked")
    /\ Go(IF hwUser.op = "debug" THEN "assigning" ELSE "opening")
    /\ UNCHANGED <<hwStream, hwData, hwAdapter, hwEvents, hwRPCs, hwMissed, hwLeft>>

\* connect_sync() fails: the wrapper's entry goes, and the call raises.
ConnectFails ==
    /\ HwAt("connecting")
    /\ hwEntry' = NULL
    /\ Return
    /\ UNCHANGED <<hwStream, hwData, hwLink, hwOpen, hwEvents, hwRPCs, hwMissed, hwLeft>>

\* open_interface(0, 'rpc'); when it fails the connection is closed again.
OpenRPC(ok) ==
    /\ HwAt("opening")
    /\ ok => hwLink = hwUser.dev
    /\ hwOpen' = IF ok THEN hwOpen \cup {"rpc"} ELSE hwOpen
    /\ Go(IF ok THEN "assigning" ELSE "backing_out")
    /\ UNCHANGED <<hwStream, hwData, hwEntry, hwLink, hwEvents, hwRPCs, hwMissed, hwLeft>>

\* AsynchronousModernWrapper.disconnect(): the entry stays if it fails.
Unlink(ok) ==
    /\ ok => hwLink # NULL
    /\ IF ok THEN hwEntry' = NULL /\ hwLink' = NULL /\ hwOpen' = {} ELSE UNCHANGED hwAdapter

BackOut(ok) ==
    /\ HwAt("backing_out")
    /\ Unlink(ok)
    /\ Return
    /\ UNCHANGED <<hwStream, hwData, hwEvents, hwRPCs, hwMissed, hwLeft>>

\* The end of connect_direct(); _try_reconnect() goes on to open what was open before.
Assign ==
    /\ HwAt("assigning")
    /\ hwStream' = [hwStream EXCEPT !.connected = TRUE, !.string = hwUser.dev, !.interrupted = FALSE]
    /\ IF hwUser.op \in {"rpc", "rpc_done"} THEN Go("reopen_streaming")
       ELSE IF hwUser.op = "debug" THEN Go("open_debug")
       ELSE Return
    /\ UNCHANGED <<hwData, hwAdapter, hwEvents, hwRPCs, hwMissed, hwLeft>>

\* enable_debug()
OpenDebug(ok) ==
    /\ HwAt("open_debug")
    /\ ok => hwLink # NULL
    /\ hwOpen' = IF ok THEN hwOpen \cup {"debug"} ELSE hwOpen
    /\ Return
    /\ UNCHANGED <<hwStream, hwData, hwEntry, hwLink, hwEvents, hwRPCs, hwMissed, hwLeft>>

\* A mutant: the manager keeps its queues.
DisconnectKeeping ==
    /\ HwAt("idle") /\ hwStream.connected
    /\ hwStream' = [hwStream EXCEPT !.reports = NULL, !.traces = NULL]
    /\ Enter("disconnect", IF hwStream.interrupted THEN "disconnected" ELSE "disconnecting", NULL)
    /\ UNCHANGED <<hwManager, hwQueues, hwItems, hwAdapter, hwEvents, hwRPCs, hwMissed, hwLeft>>

\* disconnect() of the manager, which forgets its queues, and of the stream, which raises
\* when it is not connected.
HwDisconnect ==
    /\ HwAt("idle")
    /\ hwManager' = [hwManager EXCEPT !.reports = NULL, !.traces = NULL]
    /\ IF hwStream.connected
       THEN /\ hwStream' = [hwStream EXCEPT !.reports = NULL, !.traces = NULL]
            /\ Enter("disconnect", IF hwStream.interrupted THEN "disconnected" ELSE "disconnecting", NULL)
       ELSE UNCHANGED <<hwStream, hwUser>>
    /\ UNCHANGED <<hwQueues, hwItems, hwAdapter, hwEvents, hwRPCs, hwMissed, hwLeft>>

Disconnecting(ok) ==
    /\ HwAt("disconnecting")
    /\ Unlink(ok)
    /\ IF ok THEN Go("disconnected") ELSE Return
    /\ UNCHANGED <<hwStream, hwData, hwEvents, hwRPCs, hwMissed, hwLeft>>

\* The end of AdapterStream.disconnect()
HwDisconnected ==
    /\ HwAt("disconnected")
    /\ hwStream' = [hwStream EXCEPT !.connected = FALSE, !.interrupted = FALSE, !.string = NULL]
    /\ Return
    /\ UNCHANGED <<hwData, hwAdapter, hwEvents, hwRPCs, hwMissed, hwLeft>>

(***************************************************************************)
(* RPCs, which reconnect before and after.                                 *)
(***************************************************************************)

\* send_rpc() of a connected stream; _try_reconnect() goes to connect_direct(force=True).
HwSendRPC ==
    /\ HwAt("idle") /\ hwStream.connected /\ hwRPCs < HwMaxRPCs
    /\ hwRPCs' = hwRPCs + 1
    /\ IF hwStream.interrupted
       THEN HwBegin("rpc", hwStream.string)
       ELSE Enter("rpc", "rpc", NULL) /\ UNCHANGED <<hwEntry, hwLeft>>
    /\ UNCHANGED <<hwStream, hwData, hwLink, hwOpen, hwEvents, hwMissed>>

\* The rest of _try_reconnect(): an interface is opened again if its queue is there.
Reopen(interface, queue, pc, next) ==
    /\ HwAt(pc)
    /\ IF queue = NULL THEN Go(next) /\ UNCHANGED hwOpen
       ELSE \/ /\ hwLink # NULL
               /\ hwOpen' = hwOpen \cup {interface}
               /\ Go(next)
            \/ Return /\ UNCHANGED hwOpen
    /\ UNCHANGED <<hwStream, hwData, hwEntry, hwLink, hwEvents, hwRPCs, hwMissed, hwLeft>>

ReopenStreaming == Reopen("streaming", hwStream.reports, "reopen_streaming", "reopen_tracing")
ReopenTracing == Reopen("tracing", hwStream.traces, "reopen_tracing", IF hwUser.op = "rpc" THEN "rpc" ELSE "idle")

\* adapter.send_rpc(): the device answers, or an exception leaves send_rpc().
RPCAnswered ==
    /\ HwAt("rpc") /\ hwLink # NULL
    /\ Go("rpc_done")
    /\ UNCHANGED <<hwStream, hwData, hwAdapter, hwEvents, hwRPCs, hwMissed, hwLeft>>

RPCRaises ==
    /\ HwAt("rpc")
    /\ Return
    /\ UNCHANGED <<hwStream, hwData, hwAdapter, hwEvents, hwRPCs, hwMissed, hwLeft>>

RPCReturns ==
    /\ HwAt("rpc_done")
    /\ IF hwStream.interrupted
       THEN HwBegin("rpc_done", hwStream.string)
       ELSE Return /\ UNCHANGED <<hwEntry, hwLeft>>
    /\ UNCHANGED <<hwStream, hwData, hwLink, hwOpen, hwEvents, hwRPCs, hwMissed>>

(***************************************************************************)
(* Reports and traces.                                                     *)
(***************************************************************************)

\* enable_streaming() and enable_tracing(): what is there is emptied; a queue is created
\* before the interface is opened, and stays when that fails.
Enable(queue, field, pc) ==
    /\ HwAt("idle") /\ hwStream.connected
    /\ IF queue # NULL
       THEN /\ hwQueues' = [hwQueues EXCEPT ![queue] = <<>>]
            /\ hwManager' = [hwManager EXCEPT ![field] = queue]
            /\ UNCHANGED <<hwStream, hwUser>>
       ELSE /\ Len(hwQueues) < HwMaxQueues
            /\ hwQueues' = Append(hwQueues, <<>>)
            /\ hwStream' = [hwStream EXCEPT ![field] = Len(hwQueues) + 1]
            /\ Enter("enable", pc, NULL)
            /\ UNCHANGED hwManager
    /\ UNCHANGED <<hwItems, hwAdapter, hwEvents, hwRPCs, hwMissed, hwLeft>>

EnableStreaming == Enable(hwStream.reports, "reports", "open_streaming")
EnableTracing == Enable(hwStream.traces, "traces", "open_tracing")

Enabled(interface, field, pc, ok) ==
    /\ HwAt(pc)
    /\ ok => hwLink # NULL
    /\ hwOpen' = IF ok THEN hwOpen \cup {interface} ELSE hwOpen
    /\ hwManager' = IF ok THEN [hwManager EXCEPT ![field] = hwStream[field]] ELSE hwManager
    /\ Return
    /\ UNCHANGED <<hwStream, hwQueues, hwItems, hwEntry, hwLink, hwEvents, hwRPCs, hwMissed, hwLeft>>

StreamingEnabled(ok) == Enabled("streaming", "reports", "open_streaming", ok)
TracingEnabled(ok) == Enabled("tracing", "traces", "open_tracing", ok)

\* iter_reports() and wait_reports() take reports from the queue.
TakeReport ==
    /\ HwAt("idle") /\ hwManager.reports # NULL
    /\ hwQueues[hwManager.reports] # <<>>
    /\ hwQueues' = [hwQueues EXCEPT ![hwManager.reports] = Tail(@)]
    /\ UNCHANGED <<hwStream, hwManager, hwItems, hwAdapter, hwEvents, hwUser, hwRPCs, hwMissed, hwLeft>>

\* _accumulate_trace(), of dump_trace() and of every round of wait_trace()
AccumulateTrace ==
    /\ HwAt("idle") \/ HwAt("waiting")
    /\ hwManager.traces # NULL /\ hwQueues[hwManager.traces] # <<>>
    /\ hwManager' = [hwManager EXCEPT !.data = @ \o hwQueues[hwManager.traces]]
    /\ hwQueues' = [hwQueues EXCEPT ![hwManager.traces] = <<>>]
    /\ UNCHANGED <<hwStream, hwItems, hwAdapter, hwEvents, hwUser, hwRPCs, hwMissed, hwLeft>>

\* wait_trace(): drop_before forgets _trace_data, and what the queue has is kept; the call
\* remembers what that was.
WaitTrace(drop) ==
    /\ HwAt("idle") /\ hwManager.traces # NULL
    /\ hwManager' = IF drop THEN [hwManager EXCEPT !.data = <<>>] ELSE hwManager
    /\ hwUser' = [op |-> IF drop THEN "wait_new" ELSE "wait", pc |-> "waiting", 
                   dev |-> {hwQueues[hwManager.traces][i].n : i \in DOMAIN hwQueues[hwManager.traces]}]
    /\ UNCHANGED <<hwStream, hwQueues, hwItems, hwAdapter, hwEvents, hwRPCs, hwMissed, hwLeft>>

\* wait_trace() has enough, or its time is over.
TraceReturned ==
    /\ HwAt("waiting")
    /\ hwManager' = IF hwManager.data = <<>> THEN hwManager ELSE [hwManager EXCEPT !.data = Tail(@)]
    /\ Return
    /\ UNCHANGED <<hwStream, hwQueues, hwItems, hwAdapter, hwEvents, hwRPCs, hwMissed, hwLeft>>

(***************************************************************************)
(* The device and the event loop.                                          *)
(***************************************************************************)

\* _on_report() and _on_trace() of the wrapper: without an entry they raise.
Sends(kind, interface) ==
    /\ hwLink # NULL /\ interface \in hwOpen
    /\ hwItems < HwMaxItems /\ Len(hwEvents) < HwMaxEvents
    /\ hwItems' = hwItems + 1
    /\ hwEvents' = IF hwEntry = NULL THEN hwEvents
                   ELSE Append(hwEvents, [kind |-> kind, dev |-> hwEntry, from |-> hwLink, n |-> hwItems + 1])
    /\ UNCHANGED <<hwStream, hwManager, hwQueues, hwAdapter, hwUser, hwRPCs, hwMissed, hwLeft>>

SendsReport == Sends("report", "streaming")
SendsTrace == Sends("trace", "tracing")

\* _on_disconnect() of the wrapper
Drop ==
    /\ hwLink # NULL /\ Len(hwEvents) < HwMaxEvents
    /\ hwLink' = NULL /\ hwOpen' = {}
    /\ hwEntry' = NULL
    /\ hwEvents' = IF hwEntry = NULL THEN hwEvents
                   ELSE Append(hwEvents, [kind |-> "disconnection", dev |-> hwEntry, from |-> hwLink, n |-> 0])
    /\ UNCHANGED <<hwStream, hwData, hwUser, hwRPCs, hwMissed, hwLeft>>

\* A mutant: it does not look whose notification it is.
DeliverAny(e) ==
    LET queue == IF e.kind = "report" THEN hwStream.reports ELSE hwStream.traces IN
    /\ IF e.kind # "disconnection" /\ queue # NULL
       THEN hwQueues' = [hwQueues EXCEPT ![queue] = Append(@, [dev |-> e.from, n |-> e.n])]
       ELSE UNCHANGED hwQueues
    /\ hwStream' = IF e.kind = "disconnection" THEN [hwStream EXCEPT !.interrupted = TRUE] ELSE hwStream

\* A mutant: a disconnection is only noticed when there is no call in progress.
DeliverIdle(e) ==
    LET queue == IF e.kind = "report" THEN hwStream.reports ELSE hwStream.traces
        mine == e.dev = hwStream.string
    IN /\ IF mine /\ e.kind # "disconnection" /\ queue # NULL
          THEN hwQueues' = [hwQueues EXCEPT ![queue] = Append(@, [dev |-> e.from, n |-> e.n])]
          ELSE UNCHANGED hwQueues
       /\ hwStream' = IF mine /\ e.kind = "disconnection" /\ HwAt("idle") THEN [hwStream EXCEPT !.interrupted = TRUE] ELSE hwStream

\* _on_notification(), for the connection that the stream has now; _on_report(), _on_trace()
\* and _on_disconnect()
OnNotification(e) ==
    LET queue == IF e.kind = "report" THEN hwStream.reports ELSE hwStream.traces
        mine == e.dev = hwStream.string
    IN /\ IF mine /\ e.kind # "disconnection" /\ queue # NULL
          THEN hwQueues' = [hwQueues EXCEPT ![queue] = Append(@, [dev |-> e.from, n |-> e.n])]
          ELSE UNCHANGED hwQueues
       /\ hwStream' = IF mine /\ e.kind = "disconnection" THEN [hwStream EXCEPT !.interrupted = TRUE] ELSE hwStream

Deliver ==
    /\ hwEvents # <<>>
    /\ OnNotification(Head(hwEvents))
    /\ hwEvents' = Tail(hwEvents)
    /\ hwMissed' = (hwMissed \/ (Head(hwEvents).kind = "disconnection" /\ hwUser.pc \in {"linked", "opening", "backing_out", "assigning"}))
    /\ UNCHANGED <<hwManager, hwItems, hwAdapter, hwUser, hwRPCs, hwLeft>>

User ==
    \/ \E d \in HwDevices : ConnectDirect("connect", d) \/ ConnectDirect("debug", d)
    \/ LinkUp \/ HwConnected \/ ConnectFails \/ Assign \/ HwDisconnect \/ HwDisconnected
    \/ \E ok \in BOOLEAN : OpenRPC(ok) \/ BackOut(ok) \/ Disconnecting(ok) \/ OpenDebug(ok)
                           \/ StreamingEnabled(ok) \/ TracingEnabled(ok) \/ WaitTrace(ok)
    \/ HwSendRPC \/ ReopenStreaming \/ ReopenTracing \/ RPCAnswered \/ RPCRaises \/ RPCReturns
    \/ EnableStreaming \/ EnableTracing \/ TakeReport \/ AccumulateTrace \/ TraceReturned

Device == SendsReport \/ SendsTrace \/ Drop

HwNext == User \/ Device \/ Deliver

HwSpec == HwInit /\ [][HwNext]_hwVars

(***************************************************************************)
(* Properties.                                                             *)
(***************************************************************************)

\* What a script finds in its queues was sent by the device that the stream is connected
\* to: notifications of an earlier connection that are still on their way are not put into
\* the queues of a later one, and the manager has no queue but those that the stream fills.
\* Connections share one id, so this needs that none was left behind.
QueuesAreOfTheDevice ==
    /\ hwManager.reports \in {NULL, hwStream.reports}
    /\ hwManager.traces \in {NULL, hwStream.traces}
    /\ \A q \in {hwStream.reports, hwStream.traces} \ {NULL} :
          \A i \in DOMAIN hwQueues[q] : hwQueues[q][i].dev = hwStream.string \/ hwLeft

\* A stream that is connected and not interrupted has its link, or it is about to be told;
\* only a disconnection that arrives while connect_direct() is in progress is lost, because
\* the stream does not know its connection yet or resets connection_interrupted afterwards.
InterruptionsAreNoticed ==
    hwStream.connected /\ ~hwStream.interrupted /\ HwAt("idle") /\ ~hwMissed /\ ~hwLeft =>
        hwLink = hwStream.string \/ \E i \in DOMAIN hwEvents : hwEvents[i].kind = "disconnection"

\* "drop_before (bool): Truncate all data received until now before waiting for size bytes."
DroppedIsDropped ==
    HwAt("waiting") /\ hwUser.op = "wait_new" => \A i \in DOMAIN hwManager.data : hwManager.data[i].n \notin hwUser.dev


\* What a script is given, and what it is not told, is about the device that it is
\* connected to (AdapterStream, HardwareManager).
StreamFollowsDevice == QueuesAreOfTheDevice /\ InterruptionsAreNoticed
=============================================================================

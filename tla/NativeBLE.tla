------------------------------ MODULE NativeBLE -----------------------------
(***************************************************************************)
(* The legacy Bluetooth adapter (native_ble/device_adapter.py) with its    *)
(* connection manager (native_ble/connection_manager.py), under the        *)
(* blocking calls of the legacy DeviceAdapter                              *)
(* (iotile/core/hw/transport/adapter/legacy.py).                           *)
(*                                                                         *)
(* Three kinds of threads meet here: callers, which block until their      *)
(* callback is called; the worker thread of baBLE, which delivers the      *)
(* results of requests to the controller; and the thread of the connection *)
(* manager, which alone changes the table of connections, by actions that  *)
(* the others put into a queue.  An adapter starts the request together    *)
(* with the action that announces it and does not know whether the action  *)
(* will be refused.                                                        *)
(***************************************************************************)
EXTENDS None, Naturals, Sequences, FiniteSets, FiniteSetsExt

CONSTANTS
    BleCalls,     \* blocking calls 1..n, numbered in the order in which they are made
    BleConns,     \* connection ids, each connected once (StandardDeviceAdapter.unique_conn_id)
    OneDevice,    \* whether the connections are to one device or to one each
    MaxRetries,   \* connect_async's retries
    MaxQueue      \* bound on the actions in the queue

VARIABLES
    bleCall,      \* the calls: what for, on which connection, and how they ended
    bleQueue,     \* ConnectionManager._actions
    bleTable,     \* _connections and _int_connections, which are changed together
    bleContext,   \* the context of each connection: whether to retry, and how often
    bleAir,       \* requests to baBLE that were not answered, and threads that send scripts
    bleLink,      \* whether the radio link is up
    bleNotify,    \* notification_callbacks: the RPC that waits for a response
    bleMixed,     \* history: connections on which something timed out, was refused or was cut off
    bleForgotten  \* history: calls whose callback was not called, or with wrong arguments

bleVars == <<bleCall, bleQueue, bleTable, bleContext, bleAir, bleLink, bleNotify, bleMixed, bleForgotten>>

Operations == {"rpc", "open", "close", "script"}
NoCall == [kind |-> NULL, conn |-> NULL, pc |-> "idle", ok |-> FALSE, of |-> NULL]

BleInit ==
    /\ bleCall = [k \in BleCalls |-> NoCall]
    /\ bleQueue = <<>>
    /\ bleTable = [c \in BleConns |-> NULL]
    /\ bleContext = [c \in BleConns |-> [early |-> FALSE, retries |-> MaxRetries]]
    /\ bleAir = {}
    /\ bleLink = [c \in BleConns |-> FALSE]
    /\ bleNotify = [c \in BleConns |-> NULL]
    /\ bleMixed = {}
    /\ bleForgotten = {}

StateOf(c) == IF bleTable[c] = NULL THEN "Disconnected" ELSE bleTable[c].state
SameDevice(c) == IF OneDevice THEN BleConns ELSE {c}

(***************************************************************************)
(* The callers: *_sync() of the legacy adapter.                            *)
(***************************************************************************)

BleFresh(k) == bleCall[k].pc = "idle" /\ \A j \in BleCalls : j < k => bleCall[j].pc # "idle"

BleMade(kind, c, pc) == [kind |-> kind, conn |-> c, pc |-> pc, ok |-> FALSE, of |-> NULL]

\* A call waits for its callback, unless there is no connection: then it is called at once.
BleUntilCalled(c) == IF bleTable[c] = NULL THEN "returned" ELSE "waiting"
connect_sync(k, c) == [bleCall EXCEPT ![k] = BleMade("connect", c, "waiting")]
disconnect_sync(k, c) == [bleCall EXCEPT ![k] = BleMade("disconnect", c, BleUntilCalled(c))]
open_interface_sync(k, c) == [bleCall EXCEPT ![k] = BleMade("open", c, BleUntilCalled(c))]
send_script_sync(k, c) == [bleCall EXCEPT ![k] = BleMade("script", c, BleUntilCalled(c))]

\* The callback of send_rpc_sync() takes two arguments more than the others; without a
\* connection it is given too few, and the call raises TypeError.
CallbackForm(kind) == IF kind = "rpc" THEN "rpc" ELSE "plain"
send_rpc_sync(k, c) ==
    [bleCall EXCEPT ![k] = BleMade("rpc", c, IF bleTable[c] = NULL THEN "raised" ELSE "waiting")]

\* The callback of call k; a call that has raised is no longer there.
BleReturned(calls, k, ok, of) ==
    IF calls[k].pc = "waiting" THEN [calls EXCEPT ![k].pc = "returned", ![k].ok = ok, ![k].of = of] ELSE calls

\* A queued action; finish_operation() has the arguments of a callback of one of the forms.
Action(act, c, k, ok, form) == [act |-> act, conn |-> c, call |-> k, ok |-> ok, form |-> form]
Begin(c, k) == Action("begin", c, k, TRUE, "plain")
BleFinishConnection(c, ok) == Action("finish_connection", c, NULL, ok, "plain")
FinishDisconnection(c, ok) == Action("finish_disconnection", c, NULL, ok, "plain")
FinishOperation(c, k, ok, form) == Action("finish_operation", c, k, ok, form)
ForceDisconnect(c) == Action("force_disconnect", c, NULL, TRUE, "plain")

Room(n) == Len(bleQueue) + n <= MaxQueue

Request(req, c, k) == [req |-> req, conn |-> c, call |-> k, cancelled |-> FALSE]

\* cancel_connection(): what waits for a link is not going to have one.
Cancelled(air) == {[r EXCEPT !.cancelled = (r.cancelled \/ r.req = "connect")] : r \in air}

\* connect_async(), of a caller
BleStartConnect(k, c) ==
    /\ BleFresh(k) /\ \A j \in BleCalls : bleCall[j].kind = "connect" => bleCall[j].conn # c
    /\ Room(1)
    /\ bleCall' = connect_sync(k, c)
    /\ bleQueue' = Append(bleQueue, Begin(c, k))
    /\ bleAir' = Cancelled(bleAir) \cup {Request("connect", c, NULL)}
    /\ UNCHANGED <<bleTable, bleContext, bleLink, bleNotify, bleMixed, bleForgotten>>

\* The connections that were handed to callers: connect() has returned with success.
BleOpen(c) == \E k \in BleCalls : bleCall[k].kind = "connect" /\ bleCall[k].conn = c /\ bleCall[k].ok

\* disconnect_async(), of a caller
BleStartDisconnect(k, c) ==
    /\ BleFresh(k) /\ BleOpen(c) /\ Room(1)
    /\ bleCall' = disconnect_sync(k, c)
    /\ IF bleTable[c] = NULL
       THEN UNCHANGED <<bleQueue, bleAir>>
       ELSE /\ bleQueue' = Append(bleQueue, Begin(c, k))
            /\ bleAir' = bleAir \cup {Request("disconnect", c, NULL)}
    /\ UNCHANGED <<bleTable, bleContext, bleLink, bleNotify, bleMixed, bleForgotten>>

\* What begin_operation() queues, together with the request that the operation is about;
\* without a connection nothing begins.
Operate(k, c, calls, req) ==
    /\ BleFresh(k) /\ BleOpen(c) /\ Room(1)
    /\ bleCall' = calls
    /\ IF bleTable[c] = NULL
       THEN UNCHANGED <<bleQueue, bleAir>>
       ELSE /\ bleQueue' = Append(bleQueue, Begin(c, k))
            /\ bleAir' = bleAir \cup {Request(req, c, k)}
    /\ UNCHANGED <<bleTable, bleContext, bleLink, bleNotify, bleMixed, bleForgotten>>

\* _open_rpc_interface(): the two characteristics are set one after the other, and the
\* first failure or the last result counts.
BleOpenRPCInterface(k, c) == Operate(k, c, open_interface_sync(k, c), "notification")

\* _open_streaming_interface() and _open_tracing_interface(): one characteristic
BleOpenStreamingInterface(k, c) == Operate(k, c, open_interface_sync(k, c), "notification")

\* _open_script_interface() looks whether there is the characteristic, and nothing else.
BleOpenScriptInterface(k, c) ==
    /\ BleFresh(k) /\ BleOpen(c)
    /\ \E ok \in {FALSE, bleTable[c] # NULL} :
         bleCall' = [bleCall EXCEPT ![k] = [BleMade("open", c, "returned") EXCEPT !.ok = ok, !.of = k]]
    /\ UNCHANGED <<bleQueue, bleTable, bleContext, bleAir, bleLink, bleNotify, bleMixed, bleForgotten>>

\* The debug interface: the adapter does not have the method, and the call raises.
BleOpenDebugInterface(k, c) ==
    /\ BleFresh(k) /\ BleOpen(c)
    /\ bleCall' = [bleCall EXCEPT ![k] = BleMade("open", c, "raised")]
    /\ UNCHANGED <<bleQueue, bleTable, bleContext, bleAir, bleLink, bleNotify, bleMixed, bleForgotten>>

\* open_interface_async(): each interface has its own way; an unknown one is refused.
open_interface_async(k, c) ==
    \/ BleOpenRPCInterface(k, c)
    \/ BleOpenScriptInterface(k, c)
    \/ BleOpenStreamingInterface(k, c)
    \/ BleOpenDebugInterface(k, c)

\* debug_sync(): what the adapter does not support is refused at once; it is not told apart
\* from an interface that is not there.
debug_sync(k, c) ==
    /\ BleFresh(k) /\ BleOpen(c)
    /\ bleCall' = [bleCall EXCEPT ![k] = [BleMade("open", c, "returned") EXCEPT !.of = k]]
    /\ UNCHANGED <<bleQueue, bleTable, bleContext, bleAir, bleLink, bleNotify, bleMixed, bleForgotten>>

\* _close_rpc_interface()
BleCloseRPCInterface(k, c) ==
    Operate(k, c, [bleCall EXCEPT ![k] = BleMade("close", c, BleUntilCalled(c))], "notification")

\* Without the high-speed characteristic send_script_async() raises KeyError, when the operation
\* has been announced: no thread starts, and the operation goes on until the link is lost.
ScriptRaises(k, c) ==
    /\ BleFresh(k) /\ BleOpen(c) /\ Room(1) /\ bleTable[c] # NULL
    /\ bleCall' = [bleCall EXCEPT ![k] = BleMade("script", c, "raised")]
    /\ bleQueue' = Append(bleQueue, Begin(c, k))
    /\ UNCHANGED <<bleTable, bleContext, bleAir, bleLink, bleNotify, bleMixed, bleForgotten>>

\* send_script_async() starts a thread.
BleStartScript(k, c) == Operate(k, c, send_script_sync(k, c), "script") \/ ScriptRaises(k, c)

\* send_rpc_async()
BleStartRPC(k, c) ==
    /\ BleFresh(k) /\ BleOpen(c) /\ Room(2)
    /\ bleCall' = send_rpc_sync(k, c)
    /\ \/ /\ bleTable[c] = NULL
          /\ UNCHANGED <<bleQueue, bleAir, bleNotify>>
       \/ /\ bleTable[c] # NULL
          /\ bleQueue' = Append(bleQueue, Begin(c, k))
          /\ bleNotify' = [bleNotify EXCEPT ![c] = k]
          /\ bleAir' = bleAir \cup {Request("rpc", c, k)}
    /\ UNCHANGED <<bleTable, bleContext, bleLink, bleMixed, bleForgotten>>

\* send_rpc_async() with more than 20 bytes: the operation is ended.
StartLongRPC(k, c) ==
    /\ BleFresh(k) /\ BleOpen(c) /\ Room(2)
    /\ bleTable[c] # NULL
    /\ bleCall' = send_rpc_sync(k, c)
    /\ bleQueue' = bleQueue \o <<Begin(c, k), FinishOperation(c, k, FALSE, "plain")>>
    /\ UNCHANGED <<bleTable, bleContext, bleAir, bleLink, bleNotify, bleMixed, bleForgotten>>

(***************************************************************************)
(* The worker thread of baBLE: what becomes of the requests.               *)
(***************************************************************************)

BleAnswered(r) == bleAir \ {r}
Up(c) == bleLink[c]

\* _on_connection_failed(), with the context that the table has at that moment; air is
\* what is left in the air.
BleConnectionFailed(c, air, early) ==
    LET again == bleTable[c] # NULL /\ (early \/ bleContext[c].early) /\ bleContext[c].retries > 0
    IN /\ bleContext' = [bleContext EXCEPT ![c].early = @ \/ early,
                                           ![c].retries = IF again THEN @ - 1 ELSE @]
       /\ bleAir' = Cancelled(air) \cup (IF again THEN {Request("connect", c, NULL)} ELSE {})
       /\ bleQueue' = IF again THEN bleQueue ELSE Append(bleQueue, BleFinishConnection(c, FALSE))

\* _on_connection_finished() with success; then the services are probed.
Connected(r) ==
    LET c == r.conn IN
    /\ r \in bleAir /\ r.req = "connect" /\ ~r.cancelled
    /\ \A d \in SameDevice(c) : ~Up(d)
    /\ bleLink' = [bleLink EXCEPT ![c] = TRUE]
    /\ bleAir' = BleAnswered(r) \cup {Request("probe", c, NULL)}
    /\ UNCHANGED <<bleCall, bleQueue, bleTable, bleContext, bleNotify, bleMixed, bleForgotten>>

\* _on_connection_finished() without success: an early disconnect is worth a retry.
ConnectFails(r, early) ==
    /\ r \in bleAir /\ r.req = "connect" /\ Room(1)
    /\ BleConnectionFailed(r.conn, BleAnswered(r), early)
    /\ UNCHANGED <<bleCall, bleTable, bleLink, bleNotify, bleMixed, bleForgotten>>

\* A connect request that was cancelled may as well not be answered.
ConnectVanishes(r) ==
    /\ r \in bleAir /\ r.req = "connect" /\ r.cancelled
    /\ bleAir' = BleAnswered(r)
    /\ UNCHANGED <<bleCall, bleQueue, bleTable, bleContext, bleLink, bleNotify, bleMixed, bleForgotten>>

\* _on_characteristics_probed() with success, after _on_services_probed()
Probed(r) ==
    /\ r \in bleAir /\ r.req = "probe" /\ Up(r.conn) /\ Room(1)
    /\ bleQueue' = Append(bleQueue, BleFinishConnection(r.conn, TRUE))
    /\ bleAir' = BleAnswered(r)
    /\ UNCHANGED <<bleCall, bleTable, bleContext, bleLink, bleNotify, bleMixed, bleForgotten>>

\* One of them failed, or the device has no TileBus service: disconnect_async() with
\* _on_connection_failed() as its callback.  Its action will find a connection that is
\* not idle.
ProbeFails(r) ==
    LET c == r.conn IN
    /\ r \in bleAir /\ r.req = "probe" /\ Room(1)
    /\ IF bleTable[c] = NULL
       THEN BleConnectionFailed(c, BleAnswered(r), FALSE)
       ELSE /\ bleQueue' = Append(bleQueue, Begin(c, NULL))
            /\ bleAir' = BleAnswered(r) \cup {Request("disconnect", c, NULL)}
            /\ UNCHANGED bleContext
    /\ UNCHANGED <<bleCall, bleTable, bleLink, bleNotify, bleMixed, bleForgotten>>

\* _on_disconnection_finished()
BleDisconnected(r, ok) ==
    LET c == r.conn IN
    /\ r \in bleAir /\ r.req = "disconnect" /\ Room(1)
    /\ ok => Up(c)
    /\ bleLink' = [bleLink EXCEPT ![c] = @ /\ ~ok]
    /\ bleNotify' = [bleNotify EXCEPT ![c] = NULL]
    /\ bleQueue' = Append(bleQueue, FinishDisconnection(c, ok))
    /\ bleAir' = BleAnswered(r)
    /\ UNCHANGED <<bleCall, bleTable, bleContext, bleMixed, bleForgotten>>

\* _on_unexpected_disconnection()
BleDrop(c) ==
    /\ Up(c) /\ Room(1)
    /\ bleLink' = [bleLink EXCEPT ![c] = FALSE]
    /\ bleQueue' = Append(bleQueue, ForceDisconnect(c))
    /\ UNCHANGED <<bleCall, bleTable, bleContext, bleAir, bleNotify, bleMixed, bleForgotten>>

\* _on_interface_opened()
InterfaceOpened(r, ok) ==
    /\ r \in bleAir /\ r.req = "notification" /\ Room(1) /\ bleCall[r.call].kind = "open"
    /\ ok => Up(r.conn)
    /\ bleQueue' = Append(bleQueue, FinishOperation(r.conn, r.call, ok, "plain"))
    /\ bleAir' = BleAnswered(r)
    /\ UNCHANGED <<bleCall, bleTable, bleContext, bleLink, bleNotify, bleMixed, bleForgotten>>

\* _on_interface_closed()
InterfaceClosed(r, ok) ==
    /\ r \in bleAir /\ r.req = "notification" /\ Room(1) /\ bleCall[r.call].kind = "close"
    /\ ok => Up(r.conn)
    /\ bleQueue' = Append(bleQueue, FinishOperation(r.conn, r.call, ok, "plain"))
    /\ bleAir' = BleAnswered(r)
    /\ UNCHANGED <<bleCall, bleTable, bleContext, bleLink, bleNotify, bleMixed, bleForgotten>>

\* _on_notification_received(): the device has executed the RPC of r; the callbacks are
\* those that were registered last.  The header and the payload of a response come
\* together.
Response(r) ==
    LET c == r.conn IN
    /\ r \in bleAir /\ r.req = "rpc" /\ Up(c) /\ Room(1)
    /\ bleNotify' = [bleNotify EXCEPT ![c] = NULL]
    /\ bleQueue' = IF bleNotify[c] = NULL THEN bleQueue
                   ELSE Append(bleQueue, FinishOperation(c, r.call, TRUE, "rpc"))
    /\ bleAir' = BleAnswered(r)
    /\ UNCHANGED <<bleCall, bleTable, bleContext, bleLink, bleMixed, bleForgotten>>

\* The device does not answer, or not any more.
NoResponse(r) ==
    /\ r \in bleAir /\ r.req = "rpc" /\ ~Up(r.conn)
    /\ bleAir' = BleAnswered(r)
    /\ UNCHANGED <<bleCall, bleQueue, bleTable, bleContext, bleLink, bleNotify, bleMixed, bleForgotten>>

\* send_script() has sent every chunk, or has failed.
BleScriptEnds(r, ok) ==
    /\ r \in bleAir /\ r.req = "script" /\ Room(1)
    /\ ok => Up(r.conn)
    /\ bleQueue' = Append(bleQueue, FinishOperation(r.conn, r.call, ok, "plain"))
    /\ bleAir' = BleAnswered(r)
    /\ UNCHANGED <<bleCall, bleTable, bleContext, bleLink, bleNotify, bleMixed, bleForgotten>>

(***************************************************************************)
(* The connection manager.                                                 *)
(***************************************************************************)

Record(state, k) == [state |-> state, call |-> k, expired |-> FALSE]

\* The time of what is in progress is over.
Expire(c) ==
    /\ bleTable[c] # NULL /\ bleTable[c].state # "Idle" /\ ~bleTable[c].expired
    /\ bleTable' = [bleTable EXCEPT ![c].expired = TRUE]
    /\ UNCHANGED <<bleCall, bleQueue, bleContext, bleAir, bleLink, bleNotify, bleMixed, bleForgotten>>

\* A mutant: connection attempts do not time out.
TimedOutOperation(c) ==
    /\ bleTable[c] # NULL /\ bleTable[c].expired
    /\ bleTable[c].state = "InProgress" /\ bleCall[bleTable[c].call].kind \in {"rpc", "open"}

\* _check_timeouts(): operations that close an interface or send a script do not time out.
TimedOut(c) ==
    /\ bleTable[c] # NULL /\ bleTable[c].expired
    /\ bleTable[c].state = "InProgress" => bleCall[bleTable[c].call].kind \in {"rpc", "open"}

TimeoutAction(c) ==
    CASE bleTable[c].state = "Connecting" -> BleFinishConnection(c, FALSE)
      [] bleTable[c].state = "Disconnecting" -> FinishDisconnection(c, FALSE)
      [] bleTable[c].state = "InProgress" /\ bleCall[bleTable[c].call].kind = "rpc" ->
            FinishOperation(c, NULL, FALSE, "rpc")
      [] OTHER -> FinishOperation(c, NULL, FALSE, "plain")

Late == {c \in BleConns : TimedOut(c)}
BleChecked == FoldSet(LAMBDA c, q : Append(q, TimeoutAction(c)), bleQueue, Late)

\* What the handlers leave alone unless they say otherwise.
Quiet == UNCHANGED <<bleContext, bleAir, bleLink, bleNotify>>

\* A handler: the new record, the calls, and what becomes of the queue's rest.
Settle(c, record, calls) ==
    /\ bleTable' = [bleTable EXCEPT ![c] = record]
    /\ bleCall' = calls

Raises(k) == bleForgotten' = bleForgotten \cup {k}
Mixes(C) == bleMixed' = bleMixed \cup Late \cup C

\* _begin_connection_action()
BeginConnection(a, q) ==
    LET used == \E d \in SameDevice(a.conn) : bleTable[d] # NULL
    IN /\ IF used THEN Settle(a.conn, bleTable[a.conn], BleReturned(bleCall, a.call, FALSE, NULL))
                  ELSE Settle(a.conn, Record("Connecting", a.call), bleCall)
       /\ Mixes(IF used THEN {a.conn} ELSE {})
       /\ bleQueue' = q /\ Quiet /\ UNCHANGED bleForgotten

\* _finish_connection_action()
EndConnection(a, q) ==
    LET c == a.conn IN
    /\ IF StateOf(c) # "Connecting"
       THEN UNCHANGED <<bleTable, bleCall>>
       ELSE Settle(c, IF a.ok THEN Record("Idle", NULL) ELSE NULL, BleReturned(bleCall, bleTable[c].call, a.ok, NULL))
    /\ Mixes({}) /\ bleQueue' = q /\ Quiet /\ UNCHANGED bleForgotten

\* _begin_disconnection_action(): the callback of a disconnection that follows a failed
\* probe is _on_connection_failed(), which the manager's thread now executes.
BeginDisconnection(a, q) ==
    LET c == a.conn
        again == bleTable[c] # NULL /\ bleContext[c].early /\ bleContext[c].retries > 0
    IN /\ Mixes(IF StateOf(c) = "Idle" THEN {} ELSE {c}) /\ UNCHANGED <<bleLink, bleNotify, bleForgotten>>
       /\ IF StateOf(c) = "Idle"
          THEN /\ Settle(c, Record("Disconnecting", a.call), bleCall)
               /\ bleQueue' = q /\ UNCHANGED <<bleContext, bleAir>>
          ELSE /\ UNCHANGED bleTable
               /\ bleCall' = IF a.call = NULL THEN bleCall ELSE BleReturned(bleCall, a.call, FALSE, NULL)
               /\ IF a.call = NULL
                  THEN /\ bleAir' = Cancelled(bleAir) \cup (IF again THEN {Request("connect", c, NULL)} ELSE {})
                       /\ bleContext' = IF again THEN [bleContext EXCEPT ![c].retries = @ - 1] ELSE bleContext
                       /\ bleQueue' = IF again THEN q ELSE Append(q, BleFinishConnection(c, FALSE))
                  ELSE bleQueue' = q /\ UNCHANGED <<bleContext, bleAir>>

\* _finish_disconnection_action()
EndDisconnection(a, q) ==
    LET c == a.conn IN
    /\ IF StateOf(c) # "Disconnecting"
       THEN UNCHANGED <<bleTable, bleCall>>
       ELSE Settle(c, IF a.ok THEN NULL ELSE Record("Idle", NULL), BleReturned(bleCall, bleTable[c].call, a.ok, NULL))
    /\ Mixes({}) /\ bleQueue' = q /\ Quiet /\ UNCHANGED bleForgotten

\* A mutant: an operation begins whatever is in progress.
BeginOperationAnyway(a, q) ==
    /\ bleTable[a.conn] # NULL
    /\ Settle(a.conn, Record("InProgress", a.call), bleCall)
    /\ Mixes({}) /\ bleQueue' = q /\ Quiet /\ UNCHANGED bleForgotten

\* _begin_operation_action(): the callback of a refused RPC has too few arguments.
BeginOperation(a, q) ==
    LET c == a.conn
        kind == bleCall[a.call].kind
    IN /\ IF StateOf(c) = "Idle"
          THEN Settle(c, Record("InProgress", a.call), bleCall) /\ Mixes({}) /\ UNCHANGED bleForgotten
          ELSE /\ UNCHANGED bleTable
               /\ Mixes({c})
               /\ IF kind = "rpc"
                  THEN Raises(a.call) /\ UNCHANGED bleCall
                  ELSE bleCall' = BleReturned(bleCall, a.call, FALSE, NULL) /\ UNCHANGED bleForgotten
       /\ bleQueue' = q /\ Quiet

\* _finish_operation_action(): whoever finishes, it ends the operation that is in progress.
EndOperation(a, q) ==
    LET c == a.conn
        k == bleTable[c].call
        fits == a.form = CallbackForm(bleCall[k].kind)
    IN /\ IF StateOf(c) # "InProgress"
          THEN UNCHANGED <<bleTable, bleCall, bleForgotten>>
          ELSE /\ Settle(c, Record("Idle", NULL), IF fits THEN BleReturned(bleCall, k, a.ok, a.call) ELSE bleCall)
               /\ IF fits THEN UNCHANGED bleForgotten ELSE Raises(k)
       /\ Mixes({}) /\ bleQueue' = q /\ Quiet

\* A mutant: only what is in progress is cut off.
CutOffBusyOnly(a, q) ==
    LET c == a.conn IN
    /\ IF StateOf(c) \in {"Connecting", "Disconnecting"}
       THEN Settle(c, NULL, BleReturned(bleCall, bleTable[c].call, StateOf(c) = "Disconnecting", NULL))
       ELSE UNCHANGED <<bleTable, bleCall>>
    /\ Mixes(IF StateOf(c) = "InProgress" THEN {c} ELSE {})
    /\ bleQueue' = q /\ Quiet /\ UNCHANGED bleForgotten

\* _force_disconnect_action(): the callbacks of operations get the wrong arguments and
\* raise, and then the record stays; a script's callback is not called.
CutOff(a, q) ==
    LET c == a.conn
        k == bleTable[c].call
        busy == StateOf(c) = "InProgress"
        raises == busy /\ bleCall[k].kind # "script"
    IN /\ IF raises \/ bleTable[c] = NULL
          THEN UNCHANGED <<bleTable, bleCall>>
          ELSE Settle(c, NULL, IF StateOf(c) \in {"Connecting", "Disconnecting"}
                               THEN BleReturned(bleCall, k, StateOf(c) = "Disconnecting", NULL) ELSE bleCall)
       /\ IF busy /\ bleCall[k].kind \in {"script", "close"} THEN Raises(k) ELSE UNCHANGED bleForgotten
       /\ Mixes(IF busy THEN {c} ELSE {})
       /\ bleQueue' = q /\ Quiet

KindOf(a) == IF a.call = NULL THEN "disconnect" ELSE bleCall[a.call].kind

Handle(a, q) ==
    \/ /\ a.act = "begin" /\ KindOf(a) = "connect" /\ BeginConnection(a, q)
    \/ /\ a.act = "begin" /\ KindOf(a) = "disconnect" /\ BeginDisconnection(a, q)
    \/ /\ a.act = "begin" /\ KindOf(a) \in Operations /\ BeginOperation(a, q)
    \/ /\ a.act = "finish_connection" /\ EndConnection(a, q)
    \/ /\ a.act = "finish_disconnection" /\ EndDisconnection(a, q)
    \/ /\ a.act = "finish_operation" /\ EndOperation(a, q)
    \/ /\ a.act = "force_disconnect" /\ CutOff(a, q)

\* One round of ConnectionManager.run(): time out what is late, then handle one action.
Loop ==
    /\ BleChecked # <<>>
    /\ Handle(BleChecked[1], Tail(BleChecked))

BleCallers ==
    \E k \in BleCalls, c \in BleConns :
        \/ BleStartConnect(k, c)
        \/ BleStartDisconnect(k, c)
        \/ open_interface_async(k, c)
        \/ debug_sync(k, c)
        \/ BleCloseRPCInterface(k, c)
        \/ BleStartRPC(k, c)
        \/ StartLongRPC(k, c)
        \/ BleStartScript(k, c)

BaBLE ==
    \E r \in bleAir :
        \/ Connected(r)
        \/ \E early \in BOOLEAN : ConnectFails(r, early)
        \/ ConnectVanishes(r)
        \/ Probed(r)
        \/ ProbeFails(r)
        \/ \E ok \in BOOLEAN : BleDisconnected(r, ok) \/ InterfaceOpened(r, ok) \/ InterfaceClosed(r, ok) \/ BleScriptEnds(r, ok)
        \/ Response(r)
        \/ NoResponse(r)

BleDrops == \E c \in BleConns : BleDrop(c)
Expires == \E c \in BleConns : Expire(c)

BleNext == BleCallers \/ BaBLE \/ BleDrops \/ Expires \/ Loop

Ends(c, k) ==
    \E r \in bleAir, ok \in BOOLEAN :
        r.conn = c /\ r.call = k /\ (BleScriptEnds(r, ok) \/ InterfaceOpened(r, ok) \/ InterfaceClosed(r, ok))

\* The manager's thread runs, time passes, and scripts come to an end.
BleFairness ==
    /\ WF_bleVars(Loop)
    /\ \A c \in BleConns : WF_bleVars(Expire(c))
    /\ \A c \in BleConns, k \in BleCalls : WF_bleVars(Ends(c, k))

BleSpec == BleInit /\ [][BleNext]_bleVars /\ BleFairness

(***************************************************************************)
(* Properties.                                                             *)
(***************************************************************************)

\* Type correctness of the adapter and its connection manager; a record that does not
\* rest belongs to a call that was made on its connection.
BleTypeOK ==
    /\ \A k \in BleCalls : bleCall[k].pc \in {"idle", "waiting", "returned", "raised"}
    /\ \A c \in BleConns : bleTable[c] # NULL =>
         /\ bleTable[c].state \in {"Connecting", "Idle", "InProgress", "Disconnecting"}
         /\ bleTable[c].state # "Idle" => bleCall[bleTable[c].call].conn = c

\* On a connection on which nothing has timed out, was refused or was cut off, an operation
\* that succeeds has been given its own result: begin_operation() and finish_operation()
\* are matched by their order alone, and the notification callbacks by their place.
BleAnswersAreOwn ==
    \A k \in BleCalls :
        bleCall[k].kind \in Operations /\ bleCall[k].ok /\ bleCall[k].conn \notin bleMixed => bleCall[k].of = k

\* On such a connection the table and the radio agree once everything is handled: a
\* connection that is listed as idle has its link.
BleIdleMeansLinked ==
    \A c \in BleConns : StateOf(c) = "Idle" /\ c \notin bleMixed /\ bleQueue = <<>> => Up(c)

\* A blocking call returns, whatever the device and baBLE do, unless its callback was
\* called with the wrong arguments or not at all; that never happens to the callbacks of
\* connect_sync() and disconnect_sync(), and only on a connection that was disturbed or
\* to an RPC with too long a payload.
BleBlockedReturns ==
    \A k \in BleCalls : bleCall[k].pc = "waiting" ~>
        (bleCall[k].pc # "waiting" \/ (k \in bleForgotten /\ bleCall[k].kind \in Operations))

=============================================================================

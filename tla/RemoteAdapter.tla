---------------------------- MODULE RemoteAdapter ----------------------------
(***************************************************************************)
(* SocketDeviceAdapter and SocketDeviceServer (transport_plugins/          *)
(* socket_lib/.../generic), one of each: the adapter gives the devices     *)
(* that the server has to its callers, over a socket.                      *)
(*                                                                         *)
(* A command is a coroutine that sends a message and waits for the         *)
(* response with its uuid, or for 10 s.  The server reads the messages in  *)
(* order and runs a task for each, so that it may answer them in any       *)
(* order.  Connections are numbered by the call that asked for them        *)
(* (unique_conn_id), at the client and at the server.                      *)
(***************************************************************************)
EXTENDS None, Integers, Sequences, SequencesExt

CONSTANTS
    RemDevices,
    RemCalls,       \* 1 .. the calls of the adapter that are made
    RemKinds,       \* what each call may be
    RemMaxEvents    \* bound on the events that the server forwards

VARIABLES
    calls,     \* the coroutine of each call of the adapter
    ready,     \* those that have their response and are to go on, in this order
    entries,   \* the adapter's _connections, in the order of insertion
    entryOf,   \* its _reverse_connections: the entry of each device
    socket,    \* its end: "open", "lost" until recv() raises, "closed"
    up, down,  \* what is on the way to the server, and to the client
    serving,   \* the server's end: "open", "closing" in teardown_client
    handlers,  \* the connection that each command in progress at the server works on
    table,     \* the client's connections in the server's _clients
    remLinks,     \* the connection that the server's adapter has to each device
    pushed, told,  \* for the properties: events forwarded, and notified by the adapter
    remDropped,   \* for the properties: devices that dropped a connection
    late,      \* for the properties: calls already answered when the client closed
    remUnclosed   \* for the properties: connections whose disconnect() failed or was cut short

remVars == <<calls, ready, entries, entryOf, socket, up, down, serving, handlers, table, remLinks,
             pushed, told, remDropped, late, remUnclosed>>
remClient == <<calls, ready, entries, entryOf, socket, late>>
remServer == <<serving, handlers, table, remLinks, remDropped, remUnclosed>>
remEvents == <<pushed, told>>

RemInit ==
    /\ calls = [k \in RemCalls |-> NULL]
    /\ ready = <<>> /\ entries = <<>> /\ entryOf = [d \in RemDevices |-> NULL]
    /\ socket = "open" /\ serving = "open"
    /\ up = <<>> /\ down = <<>>
    /\ handlers = [k \in RemCalls |-> NULL]
    /\ table = [d \in RemDevices |-> NULL] /\ remLinks = [d \in RemDevices |-> NULL]
    /\ pushed = <<>> /\ told = <<>>
    /\ remDropped = {} /\ late = {} /\ remUnclosed = {}

HasEntry(c) == \E i \in 1 .. Len(entries) : entries[i] = c
EntriesWithout(c) == SelectSeq(entries, LAMBDA x : x # c)

-----------------------------------------------------------------------------
(* The adapter. *)

\* _setup_connection
RemSetup(k, d) == entries' = Append(entries, k) /\ entryOf' = [entryOf EXCEPT ![d] = k]

\* _teardown_connection, which raises when there is no such entry.
RemTeardown(c, d) ==
    IF HasEntry(c)
    THEN entries' = EntriesWithout(c) /\ entryOf' = [entryOf EXCEPT ![d] = NULL]
    ELSE UNCHANGED <<entries, entryOf>>

\* What a coroutine does when its command has returned (ok) or raised: disconnect tears
\* the entry down in a finally clause.
Conclude(x, k, ok) ==
    CASE x.kind = "connect" /\ ok  -> RemSetup(k, x.device)
      [] x.kind = "disconnect"     -> RemTeardown(x.conn, x.device)
      [] OTHER                     -> UNCHANGED <<entries, entryOf>>

Outcome(ok) == IF ok THEN "done" ELSE "failed"

\* send_command: wait for the response, then send.  (`connected` is a method and as such
\* always true.)  Once the connection is gone send() raises, or the message is lost.
SendCommand(k, kind, c, d) ==
    LET x == [kind |-> kind, conn |-> c, device |-> d, phase |-> "waiting"] IN
    /\ kind \in RemKinds[k]
    /\ calls[k] = NULL /\ \A j \in RemCalls : j < k => calls[j] # NULL
    /\ \/ /\ socket = "open" /\ up' = Append(up, k)
          /\ calls' = [calls EXCEPT ![k] = x]
          /\ UNCHANGED <<entries, entryOf>>
       \/ /\ socket # "open" /\ UNCHANGED <<up, entries, entryOf>>
          /\ calls' = [calls EXCEPT ![k] = x]
       \/ /\ socket # "open" /\ UNCHANGED up
          /\ calls' = [calls EXCEPT ![k] = [x EXCEPT !.phase = "failed"]]
          /\ Conclude(x, k, FALSE)
    /\ UNCHANGED <<ready, socket, late, down, remServer, remEvents>>

RemConnect(k, d) == SendCommand(k, "connect", k, d)
RemDisconnect(k, c) == HasEntry(c) /\ SendCommand(k, "disconnect", c, calls[c].device)
\* open_interface, close_interface, send_rpc and send_script
RemOperate(k, c) == HasEntry(c) /\ SendCommand(k, "operate", c, calls[c].device)
RemProbe(k, d) == SendCommand(k, "probe", NULL, d)

\* The coroutine goes on with its response, or with TimeoutError.
Finish(k, ok) ==
    /\ calls' = [calls EXCEPT ![k].phase = Outcome(ok)]
    /\ Conclude(calls[k], k, ok)
    /\ UNCHANGED <<socket, late, up, down, remServer, remEvents>>

RemResume ==
    /\ ready # <<>> /\ ready' = Tail(ready)
    /\ Finish(Head(ready), calls[Head(ready)].phase = "answered")

RemTimeout(k) ==
    /\ calls[k] # NULL /\ calls[k].phase = "waiting"
    /\ Finish(k, FALSE) /\ UNCHANGED ready

\* The callbacks of the five events that the adapter has registered: each notifies its own.
RemNotify(event) == told' = Append(told, event) /\ UNCHANGED pushed

\* _manage_connection: a response is given to whoever still waits for it, an event is
\* notified in the background.
ClientReceives ==
    /\ socket # "closed" /\ down # <<>>
    /\ down' = Tail(down)
    /\ LET m == Head(down) IN
       \/ /\ m.type = "event" /\ RemNotify(m.event) /\ UNCHANGED <<calls, ready>>
       \/ /\ m.type = "response" /\ UNCHANGED remEvents
          /\ IF calls[m.call].phase = "waiting"
             THEN /\ calls' = [calls EXCEPT ![m.call].phase = IF m.ok THEN "answered" ELSE "refused"]
                  /\ ready' = Append(ready, m.call)
             ELSE UNCHANGED <<calls, ready>>
    /\ UNCHANGED <<entries, entryOf, socket, late, up, remServer>>

\* The place at which the loop of _on_socket_disconnect ends: the first entry whose
\* connection string is no longer in _reverse_connections (KeyError), else the last.
LoopEnds ==
    LET device(i) == calls[entries[i]].device
        raises == {i \in 1 .. Len(entries) :
                       entryOf[device(i)] = NULL \/ \E j \in 1 .. i - 1 : device(j) = device(i)}
    IN  IF raises = {} THEN Len(entries) ELSE CHOOSE i \in raises : \A j \in raises : i <= j

\* stop(), or recv() raised: _on_socket_disconnect, then close().  No response arrives
\* any more; stop() drops those who wait, who then time out.
ClientCloses ==
    /\ \/ socket = "open"
       \/ socket = "lost" /\ down = <<>>
    /\ socket' = "closed" /\ down' = <<>>
    /\ entries' = SubSeq(entries, LoopEnds + 1, Len(entries))
    /\ entryOf' = [d \in RemDevices |->
                      IF \E i \in 1 .. LoopEnds : calls[entries[i]].device = d THEN NULL
                                                                                ELSE entryOf[d]]
    /\ late' = {ready[i] : i \in 1 .. Len(ready)}
    /\ UNCHANGED <<calls, ready, up, remServer, remEvents>>

\* The connection breaks, or the server closes it when it stops: of what was on the way
\* some still arrives.
SocketBreaks ==
    /\ socket = "open" /\ socket' = "lost"
    /\ up' \in Prefixes(up) /\ down' \in Prefixes(down)
    /\ UNCHANGED <<calls, ready, entries, entryOf, late, remServer, remEvents>>

-----------------------------------------------------------------------------
(* The server. *)

\* A message that cannot be sent is dropped.
ServerSends(m) == down' = IF socket = "open" THEN Append(down, m) ELSE down

\* _dispatch_message: the value of the command, or its exception as a reason.
Respond(k, ok) == ServerSends([type |-> "response", call |-> k, ok |-> ok])

\* _client_connection and the adapter raise before they await anything: for a device that
\* the client is not connected to, or that is no longer connected, or is already.
Refuses(x) ==
    \/ x.kind = "connect" /\ \/ remLinks[x.device] # NULL
                             \/ \E j \in RemCalls : /\ handlers[j] = j
                                                    /\ calls[j].device = x.device
    \/ x.kind \in {"disconnect", "operate"} /\ \/ table[x.device] = NULL
                                               \/ remLinks[x.device] # table[x.device]

\* The connection a command works on: a new one, none, or the client's.
WorksOn(k, x) ==
    CASE x.kind = "connect" -> k [] x.kind = "probe" -> 0 [] OTHER -> table[x.device]

\* _hook_disconnect is called in a finally clause.
Unhook(x) == IF x.kind = "disconnect" THEN [table EXCEPT ![x.device] = NULL] ELSE table

\* _manage_connection reads a message and starts its task.
ServerReceives ==
    LET k == Head(up) IN
    /\ serving = "open" /\ up # <<>>
    /\ up' = Tail(up)
    /\ IF Refuses(calls[k])
       THEN table' = Unhook(calls[k]) /\ Respond(k, FALSE) /\ UNCHANGED handlers
       ELSE /\ handlers' = [handlers EXCEPT ![k] = WorksOn(k, calls[k])]
            /\ UNCHANGED <<table, down>>
    /\ UNCHANGED <<serving, remLinks, remDropped, remUnclosed, remClient, remEvents>>

\* The adapter closes connection c to d, or fails to.  The client's entry for d goes, which
\* may be that of a newer connection.
AdapterCloses(c, d, ok) ==
    /\ remLinks' = IF ok /\ remLinks[d] = c THEN [remLinks EXCEPT ![d] = NULL] ELSE remLinks
    /\ remUnclosed' = remUnclosed \cup (IF ok THEN {} ELSE {c}) \cup ({table[d]} \ {c, NULL})

\* The adapter has done what the command asked for, or failed.
ServerAnswers(k, ok) ==
    LET x == calls[k] IN
    /\ handlers[k] # NULL
    /\ handlers' = [handlers EXCEPT ![k] = NULL]
    /\ IF x.kind = "connect" /\ ok
       THEN /\ remLinks' = [remLinks EXCEPT ![x.device] = k]
            /\ table' = [table EXCEPT ![x.device] = k]
            /\ UNCHANGED remUnclosed
       ELSE /\ IF x.kind = "disconnect" THEN AdapterCloses(handlers[k], x.device, ok)
                                        ELSE UNCHANGED <<remLinks, remUnclosed>>
            /\ table' = Unhook(x)
    /\ Respond(k, ok)
    /\ UNCHANGED <<up, serving, remDropped, remClient, remEvents>>

\* client_event_handler, for a report of a connected device.  Events that are not one of
\* its five are not forwarded, the loss of a device among them.
ServerPushes(d) ==
    /\ serving = "open" /\ table[d] # NULL /\ Len(pushed) < RemMaxEvents
    /\ LET e == [device |-> d, number |-> Len(pushed)] IN
       /\ pushed' = IF socket = "open" THEN Append(pushed, e) ELSE pushed
       /\ ServerSends([type |-> "event", event |-> e])
    /\ UNCHANGED <<up, told, remClient, remServer>>

DeviceDrops(d) ==
    /\ remLinks[d] # NULL
    /\ remLinks' = [remLinks EXCEPT ![d] = NULL] /\ remDropped' = remDropped \cup {d}
    /\ UNCHANGED <<up, down, serving, handlers, table, remUnclosed, remClient, remEvents>>

\* The commands in progress, as _cancel_operations finds them.
RemCutShort == {k \in RemCalls : handlers[k] # NULL /\ calls[k].kind = "disconnect"}

\* recv() raises: _cancel_operations, then teardown_client.
ServerNotices ==
    /\ serving = "open" /\ socket # "open" /\ up = <<>>
    /\ serving' = "closing"
    /\ handlers' = [k \in RemCalls |-> NULL]
    /\ table' = [d \in RemDevices |-> IF \E k \in RemCutShort : calls[k].device = d THEN NULL ELSE table[d]]
    /\ remUnclosed' = remUnclosed \cup {handlers[k] : k \in RemCutShort}
                          \cup ({table[calls[k].device] : k \in RemCutShort} \ {NULL})
    /\ UNCHANGED <<up, down, remLinks, remDropped, remClient, remEvents>>

\* teardown_client asks for the disconnection of each device of the client.
ServerTearsDown(d, ok) ==
    /\ serving = "closing" /\ table[d] # NULL
    /\ AdapterCloses(table[d], d, ok)
    /\ table' = [table EXCEPT ![d] = NULL]
    /\ UNCHANGED <<up, down, serving, handlers, remDropped, remClient, remEvents>>

-----------------------------------------------------------------------------

RemNext ==
    \/ \E k \in RemCalls : RemTimeout(k)
    \/ \E k \in RemCalls, d \in RemDevices : RemConnect(k, d) \/ RemProbe(k, d)
    \/ \E k, c \in RemCalls : RemDisconnect(k, c) \/ RemOperate(k, c)
    \/ RemResume \/ ClientReceives \/ ClientCloses \/ SocketBreaks
    \/ ServerReceives \/ ServerNotices
    \/ \E k \in RemCalls, ok \in BOOLEAN : ServerAnswers(k, ok)
    \/ \E d \in RemDevices : ServerPushes(d) \/ DeviceDrops(d)
    \/ \E d \in RemDevices, ok \in BOOLEAN : ServerTearsDown(d, ok)

RemSpec == RemInit /\ [][RemNext]_remVars

-----------------------------------------------------------------------------
(* Properties. *)

Disconnects(d) == {k \in RemCalls : calls[k] # NULL /\ calls[k].kind = "disconnect"
                                                    /\ calls[k].device = d}
Unheard(k) == handlers[k] # NULL \/ \E i \in 1 .. Len(up) : up[i] = k

\* An entry of the adapter stands for a connection that the server has for it, as long as
\* nobody asked to disconnect it and the device has not dropped one, of which the server
\* tells nothing (client_event_handler).
RemEntriesAreConnections ==
    \A i \in 1 .. Len(entries) :
        LET c == entries[i]  d == calls[c].device IN
        socket = "open" /\ d \notin remDropped /\ (\A k \in Disconnects(d) : k < c)
            => table[d] = c /\ remLinks[d] = c

\* A connection of the server that the adapter has no entry for belongs to a connect whose
\* caller still waits or gave up, or there is a disconnect that the server is yet to end.
RemConnectionsAreKnown ==
    \A d \in RemDevices :
        LET c == table[d] IN
        socket = "open" /\ c # NULL /\ ~HasEntry(c)
            => calls[c].phase # "done" \/ \E k \in Disconnects(d) : Unheard(k)

\* One device has one entry, unless it dropped a connection; and the adapter's loop over
\* its entries then takes all of them, so that only a connect that had been answered
\* before makes an entry afterwards (_on_socket_disconnect).
RemClientIsTornDown ==
    remDropped = {} =>
        /\ \A i, j \in 1 .. Len(entries) :
               calls[entries[i]].device = calls[entries[j]].device => i = j
        /\ socket = "closed" => \A i \in 1 .. Len(entries) : entries[i] \in late

\* When the server is done with the client, no device stays connected on its behalf except
\* where a disconnect() of the adapter failed or was cut short (teardown_client).
RemServerIsTornDown ==
    serving = "closing" /\ (\A d \in RemDevices : table[d] = NULL) =>
        \A d \in RemDevices : remLinks[d] # NULL => remLinks[d] \in remUnclosed

\* The adapter notifies the events of the server in order, and none but these.
RemEventsInOrder == told \in Prefixes(pushed)

\* What the adapter has been answered about a connection is so at the server, and nothing is
\* left at either end once the other is gone.
RemoteAgrees ==
    /\ RemEntriesAreConnections /\ RemConnectionsAreKnown
    /\ RemClientIsTornDown /\ RemServerIsTornDown
=============================================================================

---------------------------- MODULE DeviceServer ----------------------------
(***************************************************************************)
(* StandardDeviceServer (iotile/core/hw/transport/server/standard.py) on   *)
(* top of an adapter: the connections of the adapter are those of          *)
(* PerConnectionDataMixin as VirtualDeviceAdapter keeps them, its monitors *)
(* those of Notifications, one per client.                                 *)
(*                                                                         *)
(* The commands of a client run in parallel, as tasks of AsyncSocketServer *)
(* (transport_plugins/socket_lib/.../socket_server.py).  When the client   *)
(* goes away its tasks are cancelled, and then it is torn down.            *)
(***************************************************************************)
EXTENDS Notifications

CONSTANTS
    Ops,             \* coroutines of the server that may be in progress at once
    Interfaces,      \* the event of each interface: streaming's, tracing's
    MaxConnections   \* bound on unique_conn_id()

Clients == Handles
ConnIds == 1 .. MaxConnections
NoConn == 0

\* The commands of clients and teardown_client, each at the one place where it awaits.
Coroutines ==
    [client : Clients, kind : {"connect", "disconnect", "teardown"}, device : Devices,
     id : ConnIds, event : {NULL}, done : SUBSET Devices]
    \cup [client : Clients, kind : {"open", "close"}, device : Devices,
          id : ConnIds, event : Interfaces, done : SUBSET Devices]

ASSUME ServerAssumption ==
    /\ MaxConnections \in Nat
    /\ Interfaces \subseteq Events \cap {"report", "trace"}
    /\ "disconnection" \in Events
    /\ NULL \notin Coroutines \cup Devices

VARIABLES
    clients,      \* which ids _clients has: "none" before setup_client, "gone" after
    conns,        \* connections of each client, by device
    connections,  \* the adapter's _connections
    nextConnId,   \* the adapter's _next_conn_id
    op,           \* the commands in progress, each awaiting the adapter
    owner,        \* for the properties: the client each connection was made for
    unclosed      \* for the properties: the connections that the server has let go of
                  \* although the adapter has not closed them

serverVars == <<clients, conns, connections, nextConnId, op, owner, unclosed>>
vars == <<notificationVars, serverVars>>

ServerInit ==
    /\ Init
    /\ clients = [c \in Clients |-> "none"]
    /\ conns = [c \in Clients |-> [d \in Devices |-> NoConn]]
    /\ connections = [i \in ConnIds |-> NULL]
    /\ nextConnId = 1
    /\ op = [o \in Ops |-> NULL]
    /\ owner = [i \in ConnIds |-> NULL]
    /\ unclosed = {}

Connected(c) == {d \in Devices : conns[c][d] # NoConn}

Leaving(c) == \E o \in Ops : op[o] # NULL /\ op[o].kind = "teardown" /\ op[o].client = c

InProgress(kind) == {op[o] : o \in {p \in Ops : op[p] # NULL /\ op[p].kind = kind}}

\* _adjust_device_events and _adjust_global_events
DeviceEvents(c, kind, d, events) == <<Adjustment(c, kind, {d}, events)>>
GlobalEvents(c, kind, event) == <<Adjustment(c, kind, {AnyDevice}, {event})>>

HookEvents == {"disconnection", "progress"}
AllDeviceEvents == HookEvents \cup {"report", "trace"}

AdjustServer(actions) == Room(Len(actions)) /\ Adjust(actions, callbacks)
LeaveMonitors == UNCHANGED notificationVars

-----------------------------------------------------------------------------
(* Clients and the commands they send. *)

\* setup_client: an empty monitor, then the global events.
SetupClient(c) ==
    LET add == <<Adjustment(c, "add", {}, {})>>
                   \o GlobalEvents(c, "add", "device_seen")
                   \o GlobalEvents(c, "add", "broadcast")
    IN
    /\ clients[c] = "none" /\ Room(Len(add))
    /\ clients' = [clients EXCEPT ![c] = "open"]
    /\ Adjust(add, [callbacks EXCEPT ![c] = "live"])
    /\ UNCHANGED <<conns, connections, nextConnId, op, owner, unclosed>>

Coroutine(c, kind, d, id, event, done) ==
    [client |-> c, kind |-> kind, device |-> d, id |-> id, event |-> event, done |-> done]

Command(o, c, kind, d, id, event) ==
    /\ op[o] = NULL
    /\ clients[c] = "open" /\ ~Leaving(c)
    /\ op' = [op EXCEPT ![o] = Coroutine(c, kind, d, id, event, {})]

\* (Clients that number their connections themselves.)
ConnectSharedId(o, c, d) ==
    /\ nextConnId \in ConnIds
    /\ Command(o, c, "connect", d, 1, NULL)
    /\ nextConnId' = nextConnId + 1
    /\ owner' = [owner EXCEPT ![1] = c]
    /\ LeaveMonitors
    /\ UNCHANGED <<clients, conns, connections, unclosed>>

\* connect; the adapter refuses a device that is connected or being connected.
Connect(o, c, d) ==
    /\ nextConnId \in ConnIds
    /\ \A i \in ConnIds : connections[i] # d
    /\ \A p \in InProgress("connect") : p.device # d
    /\ Command(o, c, "connect", d, nextConnId, NULL)
    /\ nextConnId' = nextConnId + 1
    /\ owner' = [owner EXCEPT ![nextConnId] = c]
    /\ LeaveMonitors
    /\ UNCHANGED <<clients, conns, connections, unclosed>>

\* disconnect; the adapter has checked the connection before it awaits.
Disconnect(o, c, d) ==
    /\ conns[c][d] # NoConn /\ connections[conns[c][d]] # NULL
    /\ Command(o, c, "disconnect", d, conns[c][d], NULL)
    /\ LeaveMonitors
    /\ UNCHANGED <<clients, conns, connections, nextConnId, owner, unclosed>>

\* open_interface hooks the events before it asks the adapter.
OpenInterface(o, c, d, event) ==
    /\ conns[c][d] # NoConn
    /\ Command(o, c, "open", d, conns[c][d], event)
    /\ AdjustServer(DeviceEvents(c, "add", d, {event}))
    /\ UNCHANGED <<clients, conns, connections, nextConnId, owner, unclosed>>

CloseInterface(o, c, d, event) ==
    /\ conns[c][d] # NoConn
    /\ Command(o, c, "close", d, conns[c][d], event)
    /\ LeaveMonitors
    /\ UNCHANGED <<clients, conns, connections, nextConnId, owner, unclosed>>

-----------------------------------------------------------------------------
(* What happens when the adapter answers. *)

EndOp(o) == op' = [op EXCEPT ![o] = NULL]

\* _setup_connection and _teardown_connection of PerConnectionDataMixin
SetupConnection(id, d) == [connections EXCEPT ![id] = d]
TeardownConnection(id) == [connections EXCEPT ![id] = NULL]

\* adapter.disconnect: the device is gone from the adapter, or was already, or
\* stays connected because the adapter has failed.
AdapterDisconnects(id, failed) ==
    connections' = IF failed THEN connections ELSE TeardownConnection(id)

\* The connections that are let go of when disconnect(id) ends and forgets c's entry for
\* d: one that the adapter failed to close, and one that has taken its place.
LetGo(c, d, id, failed) ==
    (IF failed THEN {id} ELSE {}) \cup ({conns[c][d]} \ {id, NoConn})

\* _hook_connect
HookConnect(c, d, id) ==
    /\ conns' = [conns EXCEPT ![c][d] = id]
    /\ AdjustServer(DeviceEvents(c, "add", d, HookEvents))

\* (_hook_disconnect that forgets what open_interface added.)
HookDisconnectPartly(c, d) ==
    /\ AdjustServer(DeviceEvents(c, "remove", d, HookEvents))
    /\ conns' = [conns EXCEPT ![c][d] = NoConn]

\* _hook_disconnect, whoever's connection the entry now is.
HookDisconnect(c, d) ==
    /\ AdjustServer(DeviceEvents(c, "remove", d, AllDeviceEvents))
    /\ conns' = [conns EXCEPT ![c][d] = NoConn]

ConnectReturns(o) ==
    LET x == op[o] IN
    /\ x # NULL /\ x.kind = "connect"
    /\ connections' = SetupConnection(x.id, x.device)
    /\ IF clients[x.client] = "open"
       THEN HookConnect(x.client, x.device, x.id)
       ELSE LeaveMonitors /\ UNCHANGED conns
    /\ EndOp(o)
    /\ UNCHANGED <<clients, nextConnId, owner, unclosed>>

\* _hook_disconnect is in a finally clause: it runs whatever the adapter did.
DisconnectReturns(o, failed) ==
    LET x == op[o] IN
    /\ x # NULL /\ x.kind = "disconnect"
    /\ AdapterDisconnects(x.id, failed)
    /\ unclosed' = unclosed \cup LetGo(x.client, x.device, x.id, failed)
    /\ IF clients[x.client] = "open"
       THEN HookDisconnect(x.client, x.device)
       ELSE LeaveMonitors /\ UNCHANGED conns
    /\ EndOp(o)
    /\ UNCHANGED <<clients, nextConnId, owner>>

\* connect, open_interface or close_interface ends without a hook: it failed, or
\* was an open_interface, whose hook came first.
ReturnsUnhooked(o) ==
    /\ op[o] # NULL /\ op[o].kind \in {"connect", "open", "close"}
    /\ EndOp(o)
    /\ LeaveMonitors
    /\ UNCHANGED <<clients, conns, connections, nextConnId, owner, unclosed>>

CloseReturns(o) ==
    LET x == op[o] IN
    /\ x # NULL /\ x.kind = "close" /\ clients[x.client] = "open"
    /\ AdjustServer(DeviceEvents(x.client, "remove", x.device, {x.event}))
    /\ EndOp(o)
    /\ UNCHANGED <<clients, conns, connections, nextConnId, owner, unclosed>>

\* disconnect for a connection that the adapter no longer has: it raises at once.
DisconnectStale(c, d) ==
    /\ clients[c] = "open" /\ ~Leaving(c)
    /\ conns[c][d] # NoConn /\ connections[conns[c][d]] = NULL
    /\ HookDisconnect(c, d)
    /\ UNCHANGED <<clients, connections, nextConnId, op, owner, unclosed>>

\* The device drops the connection: the adapter forgets it, and tells whoever
\* listens for "disconnection".  _forward_client_event would call
\* _hook_disconnect for an event "disconnect", which no adapter sends.
DeviceDisconnects(n, i) ==
    /\ connections[i] # NULL
    /\ connections' = TeardownConnection(i)
    /\ Begin(n, connections[i], "disconnection")
    /\ UNCHANGED <<clients, conns, nextConnId, op, owner, unclosed>>

-----------------------------------------------------------------------------
(* Teardown. *)

\* The connections are walked, awaiting the adapter at each; a walk over none ends
\* at once.  Nobody changes them meanwhile: the client's commands are cancelled.
WalkConnections(o, c, cancelled) ==
    LET linked == {d \in Devices : conns'[c][d] # NoConn}
        others == [p \in Ops |-> IF p \in cancelled THEN NULL ELSE op[p]]
    IN  IF linked = {}
        THEN op' = others /\ clients' = [clients EXCEPT ![c] = "gone"]
        ELSE /\ \E d \in linked :
                    op' = [others EXCEPT ![o] = Coroutine(c, "teardown", d, conns'[c][d], NULL, {d})]
             /\ UNCHANGED clients

Commands(c) == {p \in Ops : op[p] # NULL /\ op[p].client = c /\ op[p].kind # "teardown"}

\* Devices whose disconnect() is cut short: its finally clause still runs.
CutShort(c) == {op[p].device : p \in {q \in Commands(c) : op[q].kind = "disconnect"}}

\* (The client is dropped while its monitor stays registered.)
ClientLeavesMonitor(o, c) ==
    /\ clients[c] = "open" /\ ~Leaving(c)
    /\ op[o] = NULL
    /\ UNCHANGED <<conns, unclosed>>
    /\ LeaveMonitors
    /\ WalkConnections(o, c, Commands(c))
    /\ UNCHANGED <<connections, nextConnId, owner>>

\* The client goes away: _cancel_operations, then teardown_client.
ClientLeaves(o, c) ==
    LET forget == [d \in Devices |-> IF d \in CutShort(c) THEN NoConn ELSE conns[c][d]] IN
    /\ clients[c] = "open" /\ ~Leaving(c)
    /\ op[o] = NULL \/ o \in Commands(c)
    /\ conns' = [conns EXCEPT ![c] = forget]
    /\ unclosed' = unclosed \cup ({conns[c][d] : d \in CutShort(c)} \ {NoConn})
    /\ AdjustServer(<<Adjustment(c, "delete", {}, {})>>)
    /\ WalkConnections(o, c, Commands(c))
    /\ UNCHANGED <<connections, nextConnId, owner>>

\* (A teardown that disconnects the first connection only.)
TeardownFirstOnly(o, failed) ==
    LET x == op[o] IN
    /\ x # NULL /\ x.kind = "teardown"
    /\ AdapterDisconnects(x.id, failed)
    /\ unclosed' = IF failed THEN unclosed \cup {x.id} ELSE unclosed
    /\ EndOp(o)
    /\ clients' = [clients EXCEPT ![x.client] = "gone"]
    /\ LeaveMonitors
    /\ UNCHANGED <<conns, nextConnId, owner>>

\* teardown_client goes on to the next connection, and at last drops the client.
TeardownStep(o, failed) ==
    LET x == op[o]
        left == Connected(x.client) \ x.done
    IN
    /\ x # NULL /\ x.kind = "teardown"
    /\ AdapterDisconnects(x.id, failed)
    /\ unclosed' = IF failed THEN unclosed \cup {x.id} ELSE unclosed
    /\ IF left = {}
       THEN EndOp(o) /\ clients' = [clients EXCEPT ![x.client] = "gone"]
       ELSE /\ \E d \in left :
                op' = [op EXCEPT ![o] = Coroutine(x.client, "teardown", d, conns[x.client][d],
                                                  NULL, x.done \cup {d})]
            /\ UNCHANGED clients
    /\ LeaveMonitors
    /\ UNCHANGED <<conns, nextConnId, owner>>

AdapterAnswers(o) ==
    \/ ConnectReturns(o) \/ ReturnsUnhooked(o) \/ CloseReturns(o)
    \/ \E failed \in BOOLEAN : DisconnectReturns(o, failed) \/ TeardownStep(o, failed)

ServerNext ==
    \/ \E c \in Clients : SetupClient(c)
    \/ \E o \in Ops, c \in Clients, d \in Devices :
        \/ Connect(o, c, d) \/ Disconnect(o, c, d)
        \/ \E e \in Interfaces : OpenInterface(o, c, d, e) \/ CloseInterface(o, c, d, e)
    \/ \E c \in Clients, d \in Devices : DisconnectStale(c, d)
    \/ \E o \in Ops, c \in Clients : ClientLeaves(o, c)
    \/ \E o \in Ops : AdapterAnswers(o)
    \/ \E n \in Notifiers, i \in ConnIds : DeviceDisconnects(n, i)
    \/ \E n \in Notifiers, d \in Devices, e \in Interfaces : Begin(n, d, e) /\ UNCHANGED serverVars
    \/ \E n \in Notifiers : Resume(n) /\ UNCHANGED serverVars

ServerSpec == ServerInit /\ [][ServerNext]_vars

-----------------------------------------------------------------------------
(* Properties. *)

\* The variables stay in their types; a user context has at most one connection to a
\* device (user_context['connections']).
ServerTypeOK ==
    /\ TypeOK
    /\ clients \in [Clients -> {"none", "open", "gone"}]
    /\ conns \in [Clients -> [Devices -> ConnIds \cup {NoConn}]]
    /\ connections \in [ConnIds -> Devices \cup {NULL}]
    /\ nextConnId \in 1 .. MaxConnections + 1
    /\ \A o \in Ops : op[o] # NULL => op[o].client \in Clients /\ op[o].id \in ConnIds

\* No client ever holds the connection of another, or a connection to another
\* device than the one it is filed under: what it sends goes to its own device.
ConnectionsArePrivate ==
    \A c \in Clients, d \in Devices : conns[c][d] # NoConn =>
        /\ owner[conns[c][d]] = c
        /\ connections[conns[c][d]] \in {d, NULL}

\* "keeping track of which events should be forwarded to which clients": a client
\* that is not going away hears of the loss and the progress of exactly the
\* devices it is connected to, and gets reports from no other.
EventsFollowConnections ==
    \A c \in Clients, d \in Devices : clients[c] = "open" /\ ~Leaving(c) =>
        /\ \A e \in HookEvents \cap Events : c \in Listed[<<d, e>>] <=> conns[c][d] # NoConn
        /\ \A e \in Interfaces : c \in Listed[<<d, e>>] => conns[c][d] # NoConn

\* "take care of removing those monitors when the client connection is
\* destroyed": nothing is forwarded for a client that is gone.
GoneClientsAreUnlisted ==
    \A c \in Clients, s \in Slots : clients[c] = "gone" => c \notin Listed[s]

\* "keep track of which client is connected to which device", and "make sure that nothing
\* leaks if clients unexpectedly disconnect": a connection of the adapter is on record
\* with the client it was made for and is closed before that client is gone, except where
\* a disconnect() failed, was cut short, or took a newer connection off the record.
ConnectionsAreKnown ==
    \A i \in ConnIds : connections[i] # NULL /\ i \notin unclosed =>
        /\ clients[owner[i]] # "gone"
        /\ clients[owner[i]] = "open" => conns[owner[i]][connections[i]] = i

\* What a client is told and what it sends concerns the devices that it is connected to
\* (StandardDeviceServer.connect, disconnect and teardown_client).
ClientsAreSeparate == ServerTypeOK /\ ConnectionsArePrivate /\ EventsFollowConnections

\* Nothing is left of a client that is gone (StandardDeviceServer.teardown_client).
NothingIsLeft == GoneClientsAreUnlisted /\ ConnectionsAreKnown
=============================================================================

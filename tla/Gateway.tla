------------------------------- MODULE Gateway ------------------------------
(***************************************************************************)
(* AggregatingDeviceAdapter (iotilegateway/device.py): several device      *)
(* adapters presented as one.  A device may be seen by more than one of    *)
(* them; "device/..." lets the gateway choose the adapter, "adapter/..."   *)
(* names it.  Its table of connections is PerConnectionDataMixin           *)
(* (iotile/core/hw/transport/adapter/mixin_conndata.py), keyed by the      *)
(* connection strings of the adapters.  The adapters are external: they    *)
(* connect, drop and report as AsynchronousModernWrapper                   *)
(* (transport/adapter/async_wrapper.py) and VirtualDeviceAdapter do.       *)
(***************************************************************************)
EXTENDS None, Naturals, Sequences, FiniteSets

CONSTANTS
    Adapters,      \* indexes in self.adapters
    GwDevices,
    GwConnIds,     \* each is used for one call of connect
    Signals,       \* signal strengths
    MaxConns,      \* the connections an adapter has room for
    Local(_, _)    \* the connection string an adapter has for a device

\* None is not a link, an entry, nor a connection id.
ASSUME GatewayAssumption ==
    NULL \notin [adapter : Adapters, device : GwDevices] \cup GwConnIds
               \cup [adapter : Adapters, device : GwDevices, translate : BOOLEAN]

VARIABLES
    devices,      \* _devices: what is known of each device, in the order it was first seen
    gwConnections,  \* _connections of the gateway
    reverse,      \* _reverse_connections of the gateway
    links,        \* the connections the adapters have
    user,         \* where the user of each connection id is
    event,        \* the event that was notified last
    dropped,      \* for the properties: the connections that their devices dropped
    sharing       \* for the properties: those that have had a string at the same time as another

gwVars == <<devices, gwConnections, reverse, links, user, event, dropped, sharing>>

Strings == {Local(a, d) : a \in Adapters, d \in GwDevices}

GwInit ==
    /\ devices = [d \in GwDevices |-> <<>>]
    /\ gwConnections = [i \in GwConnIds |-> NULL]
    /\ reverse = [s \in Strings |-> NULL]
    /\ links = [i \in GwConnIds |-> NULL]
    /\ user = [i \in GwConnIds |-> "unused"]
    /\ event = NULL
    /\ dropped = {}
    /\ sharing = {}

LinksOf(a) == {i \in GwConnIds : links[i] # NULL /\ links[i].adapter = a}

\* can_connect() of an adapter
CanConnect(a) == Cardinality(LinksOf(a)) < MaxConns

Busy(d) == \E i \in GwConnIds : links[i] # NULL /\ links[i].device = d

(***************************************************************************)
(* Devices that are seen.                                                  *)
(***************************************************************************)

SeenBy(d) == {devices[d][n].adapter : n \in 1 .. Len(devices[d])}

\* _track_device_seen(): a known adapter's entry is replaced in its place
Track(a, d, signal) ==
    IF a \in SeenBy(d)
        THEN [n \in 1 .. Len(devices[d]) |->
                IF devices[d][n].adapter = a THEN [adapter |-> a, signal |-> signal] ELSE devices[d][n]]
        ELSE Append(devices[d], [adapter |-> a, signal |-> signal])

DeviceSeen(a, d, signal) ==
    /\ devices' = [devices EXCEPT ![d] = Track(a, d, signal)]
    /\ event' = NULL
    /\ UNCHANGED <<gwConnections, reverse, links, user, dropped, sharing>>

\* _find_best_adapter() takes the first one with room.
Usable(d) == {n \in 1 .. Len(devices[d]) : CanConnect(devices[d][n].adapter)}

(***************************************************************************)
(* Connecting.                                                             *)
(***************************************************************************)

\* The string in the entry of a connection
StringOf(i) == Local(gwConnections[i].adapter, gwConnections[i].device)

\* The entries with a string
Holders(s) == {i \in GwConnIds : gwConnections[i] # NULL /\ StringOf(i) = s}

\* _setup_connection(), before the adapter connects
Setup(i, a, d, translate) ==
    /\ gwConnections' = [gwConnections EXCEPT ![i] = [adapter |-> a, device |-> d, translate |-> translate]]
    /\ reverse' = [reverse EXCEPT ![Local(a, d)] = i]

\* Mutant: the string keeps leading to the connection that is over.
TeardownKeepsString(i) ==
    /\ gwConnections' = [gwConnections EXCEPT ![i] = NULL]
    /\ reverse' = reverse

\* _teardown_connection()
Teardown(i) ==
    /\ gwConnections' = [gwConnections EXCEPT ![i] = NULL]
    /\ reverse' = [reverse EXCEPT ![StringOf(i)] = NULL]

KeyErrorIn(i) == reverse[StringOf(i)] = NULL

GwBegin(i, a, d, translate) ==
    /\ user[i] = "unused"
    /\ CanConnect(a)
    /\ Setup(i, a, d, translate)
    /\ sharing' = sharing \cup IF Holders(Local(a, d)) = {} THEN {} ELSE Holders(Local(a, d)) \cup {i}
    /\ user' = [user EXCEPT ![i] = "connecting"]
    /\ event' = NULL
    /\ UNCHANGED <<devices, links, dropped>>

\* connect("device/..."); it fails at once when no adapter has seen the device and
\* has room.
GwConnect(i, d) ==
    \E n \in Usable(d) :
        /\ \A m \in Usable(d) : n <= m
        /\ GwBegin(i, devices[d][n].adapter, d, TRUE)

\* connect("adapter/...")
ConnectThrough(i, a, d) == GwBegin(i, a, d, FALSE)

\* The adapter has connected to the device, which may already send.
LinkUp(i) ==
    /\ user[i] = "connecting" /\ links[i] = NULL
    /\ gwConnections[i] # NULL
    /\ ~Busy(gwConnections[i].device) /\ CanConnect(gwConnections[i].adapter)
    /\ links' = [links EXCEPT ![i] = [adapter |-> gwConnections[i].adapter, device |-> gwConnections[i].device]]
    /\ user' = [user EXCEPT ![i] = "linked"]
    /\ event' = NULL
    /\ UNCHANGED <<devices, gwConnections, reverse, dropped, sharing>>

GwConnectReturns(i) ==
    /\ user[i] = "linked"
    /\ user' = [user EXCEPT ![i] = "connected"]
    /\ event' = NULL
    /\ UNCHANGED <<devices, gwConnections, reverse, links, dropped, sharing>>

\* Mutant: the entry of a refused connection stays.
ConnectFailsKept(i) ==
    /\ user[i] = "connecting"
    /\ user' = [user EXCEPT ![i] = "closed"]
    /\ event' = NULL
    /\ UNCHANGED <<devices, gwConnections, reverse, links, dropped, sharing>>

\* The adapter has refused: the device is connected, or out of reach.
ConnectFails(i) ==
    /\ user[i] = "connecting"
    /\ Teardown(i)
    /\ user' = [user EXCEPT ![i] = "closed"]
    /\ event' = NULL
    /\ UNCHANGED <<devices, links, dropped, sharing>>

(***************************************************************************)
(* Disconnecting.                                                          *)
(***************************************************************************)

GwDisconnect(i) ==
    /\ user[i] = "connected"
    /\ user' = [user EXCEPT ![i] = "disconnecting"]
    /\ event' = NULL
    /\ UNCHANGED <<devices, gwConnections, reverse, links, dropped, sharing>>

\* Mutant: the gateway forgets the connection whatever the adapter says.
DisconnectFailsForgotten(i) ==
    /\ user[i] = "disconnecting"
    /\ Teardown(i)
    /\ user' = [user EXCEPT ![i] = "closed"]
    /\ event' = NULL
    /\ UNCHANGED <<devices, links, dropped, sharing>>

\* The adapter raises: it has failed, or does not know the connection any more.
DisconnectFails(i) ==
    /\ user[i] = "disconnecting"
    /\ user' = [user EXCEPT ![i] = "closed"]
    /\ event' = NULL
    /\ UNCHANGED <<devices, gwConnections, reverse, links, dropped, sharing>>

\* The adapter has disconnected, and the connection is torn down; del raises
\* KeyError if the string is not in _reverse_connections.
GwDisconnectReturns(i) ==
    /\ user[i] = "disconnecting" /\ links[i] # NULL
    /\ links' = [links EXCEPT ![i] = NULL]
    /\ Teardown(i)
    /\ user' = [user EXCEPT ![i] = IF KeyErrorIn(i) THEN "KeyError" ELSE "closed"]
    /\ event' = NULL
    /\ UNCHANGED <<devices, dropped, sharing>>

(***************************************************************************)
(* Events of the adapters.                                                 *)
(***************************************************************************)

\* Mutant: a connection's events carry the adapter's name for the device.
NameAdapter(a, d, i) == [adapter |-> a, device |-> d, translate |-> FALSE]

\* handle_adapter_event(): the name of the device in the event
Name(a, d, i) ==
    [adapter |-> a, device |-> d, translate |-> IF i # NULL THEN gwConnections[i].translate ELSE FALSE]

\* notify_event() looks the gateway's name up among the adapters' strings, where
\* neither "device/..." nor "adapter/..." is.
LookedUp == NULL

Notify(kind, i, a, d, id) ==
    event' = [kind |-> kind, conn |-> i, name |-> Name(a, d, id), id |-> LookedUp]

\* A report of the device on connection i, which the adapter gives its id (one that
\* refuses a second connection before it enters it, as VirtualDeviceAdapter does).
Report(i) ==
    /\ links[i] # NULL
    /\ Notify("report", i, links[i].adapter, links[i].device, i)
    /\ UNCHANGED <<devices, gwConnections, reverse, links, user, dropped, sharing>>

\* The device drops the connection.  The adapter tears it down and then notifies, so
\* that the event has no id; the gateway only passes it on.
Drop(i) ==
    /\ links[i] # NULL
    /\ links' = [links EXCEPT ![i] = NULL]
    /\ Notify("disconnection", i, links[i].adapter, links[i].device, NULL)
    /\ dropped' = dropped \cup {i}
    /\ UNCHANGED <<devices, gwConnections, reverse, user, sharing>>

GwNext ==
    \/ \E a \in Adapters, d \in GwDevices, s \in Signals : DeviceSeen(a, d, s)
    \/ \E i \in GwConnIds, d \in GwDevices : GwConnect(i, d) \/ \E a \in Adapters : ConnectThrough(i, a, d)
    \/ \E i \in GwConnIds : LinkUp(i) \/ GwConnectReturns(i) \/ ConnectFails(i)
    \/ \E i \in GwConnIds : GwDisconnect(i) \/ DisconnectFails(i) \/ GwDisconnectReturns(i)
    \/ \E i \in GwConnIds : Report(i) \/ Drop(i)

GwSpec == GwInit /\ [][GwNext]_gwVars

(***************************************************************************)
(* Properties.                                                             *)
(***************************************************************************)

Entries == [adapter : Adapters, signal : Signals]

\* The variables stay in their types; an adapter has one entry for a device however
\* often it is seen (_track_device_seen).
GwTypeOK ==
    /\ devices \in [GwDevices -> Seq(Entries)]
    /\ \A d \in GwDevices : Cardinality(SeenBy(d)) = Len(devices[d])
    /\ gwConnections \in [GwConnIds -> [adapter : Adapters, device : GwDevices, translate : BOOLEAN] \cup {NULL}]
    /\ reverse \in [Strings -> GwConnIds \cup {NULL}]
    /\ links \in [GwConnIds -> [adapter : Adapters, device : GwDevices] \cup {NULL}]
    /\ user \in [GwConnIds -> {"unused", "connecting", "linked", "connected", "disconnecting", "closed", "KeyError"}]
    /\ sharing \subseteq GwConnIds

\* A link that an adapter has is a connection of the gateway, through that adapter to
\* that device, from the first moment on which the device can send to the last
\* (connect: "so there are no races with events coming soon after connect").
LinksAreKnown ==
    \A i \in GwConnIds : links[i] # NULL =>
        /\ gwConnections[i] # NULL
        /\ gwConnections[i].adapter = links[i].adapter /\ gwConnections[i].device = links[i].device

\* A report carries the name under which the user connected to the device
\* (handle_adapter_event, _translate_conn_string).
ReportsAreNamed ==
    event # NULL /\ event.kind = "report" => event.name.translate = gwConnections[event.conn].translate

\* Nothing is kept for a connection that is over: once connect() or disconnect() has
\* returned or raised, an entry is only there for a link that the adapter still has,
\* or that the device has dropped (PerConnectionDataMixin: "If you receive an
\* unexpected disconnection event from a device, you must also call
\* _teardown_connection", which the gateway does not).
EntriesAreUsed ==
    \A i \in GwConnIds : gwConnections[i] # NULL /\ user[i] = "closed" => links[i] # NULL \/ i \in dropped

\* A string leads to a connection that has it, if to any; and an entry is found by its
\* string, so that its disconnect() can delete that, unless another connection has had
\* the same string at the same time (_setup_connection, _teardown_connection).
EntriesAreFound ==
    /\ \A s \in Strings : reverse[s] # NULL => reverse[s] \in Holders(s)
    /\ \A i \in GwConnIds \ sharing :
         user[i] # "KeyError" /\ (gwConnections[i] # NULL => reverse[StringOf(i)] = i)

\* The gateway's entries and the adapters' links are for each other, and found by the
\* strings of the adapters (AggregatingDeviceAdapter.connect, disconnect and
\* handle_adapter_event).
EntriesAreLinks == GwTypeOK /\ LinksAreKnown /\ ReportsAreNamed /\ EntriesAreUsed /\ EntriesAreFound
=============================================================================

--------------------------- MODULE TransportProofs ---------------------------
(***************************************************************************)
(* What the adapters and the stream on top of them believe about their     *)
(* connections agrees with the connections there are, proved for any       *)
(* number of devices, calls, handles and notifications under way.          *)
(***************************************************************************)
EXTENDS AWSGateway, BLED112, HardwareManager, PacketQueue, RemoteAdapter, FiniteSetTheorems,
        SequenceTheorems, WellFoundedInduction, TLAPS

(***************************************************************************)
(* AdapterStream and HardwareManager.                                      *)
(***************************************************************************)

HwItem == [dev : HwDevices, n : Nat]
HwEvent == [kind : {"report", "trace", "disconnection"}, dev : HwDevices, from : HwDevices, n : Nat]
QueueNumber == Nat \cup {NULL}

HwOps == {"connect", "debug", "disconnect", "rpc", "rpc_done", "enable", "wait", "wait_new"}
HwPlaces == {"idle", "connecting", "linked", "opening", "backing_out", "assigning", "open_debug", "disconnecting",
             "disconnected", "rpc", "reopen_streaming", "reopen_tracing", "rpc_done", "open_streaming",
             "open_tracing", "waiting"}

StreamType == [connected : BOOLEAN, interrupted : BOOLEAN, string : HwDevices \cup {NULL},
               reports : QueueNumber, traces : QueueNumber]
ManagerType == [reports : QueueNumber, traces : QueueNumber, data : Seq(HwItem)]
UserType == [op : HwOps \cup {NULL}, pc : HwPlaces, dev : HwDevices \cup {NULL} \cup SUBSET Nat]

HwTypes ==
    /\ hwStream \in StreamType
    /\ hwManager \in ManagerType
    /\ hwQueues \in Seq(Seq(HwItem))
    /\ hwEntry \in HwDevices \cup {NULL} /\ hwLink \in HwDevices \cup {NULL}
    /\ hwEvents \in Seq(HwEvent)
    /\ hwUser \in UserType
    /\ hwItems \in Nat
    /\ hwMissed \in BOOLEAN /\ hwLeft \in BOOLEAN

Connecting == {"connecting", "linked", "opening", "backing_out", "assigning"}

\* While a call connects, it is for the device that it names, and the stream is not
\* connected or knows that its connection is gone.
ConnectingIsForDevice ==
    /\ hwUser.pc \in Connecting =>
         /\ hwUser.dev \in HwDevices
         /\ hwStream.connected => hwStream.interrupted /\ hwUser.dev = hwStream.string
    /\ hwUser.pc = "connecting" => (hwEntry = hwUser.dev /\ hwLink = NULL) \/ hwLeft
    /\ hwUser.pc \in {"rpc", "rpc_done", "reopen_streaming", "reopen_tracing", "disconnecting", "disconnected",
                      "open_streaming", "open_tracing", "open_debug"} => hwStream.connected
    /\ hwStream.connected => hwStream.string \in HwDevices

\* Only a stream that is connected has queues, and it has given them up when it
\* disconnects.
QueuesNeedConnection ==
    /\ ~hwStream.connected \/ hwUser.pc \in {"disconnecting", "disconnected"} =>
         hwStream.reports = NULL /\ hwStream.traces = NULL
    /\ {hwStream.reports, hwStream.traces} \subseteq DOMAIN hwQueues \cup {NULL}

\* The wrapper's entry is for the link, so that what is on its way is what it says.
EntryIsLink ==
    /\ hwLink # NULL /\ ~hwLeft => hwEntry = hwLink
    /\ \A i \in DOMAIN hwEvents : hwEvents[i].from = hwEvents[i].dev \/ hwLeft

\* The link to device d is there, or its end will be reported.
Told(d) == \E i \in DOMAIN hwEvents : hwEvents[i].kind = "disconnection" /\ hwEvents[i].dev = d
LinkedOrTold(d) == hwLink = d \/ Told(d)

LinksAreFollowed ==
    ~hwMissed /\ ~hwLeft =>
        /\ hwStream.connected /\ ~hwStream.interrupted /\ hwUser.pc # "disconnected" => LinkedOrTold(hwStream.string)
        /\ hwUser.pc \in {"linked", "opening", "assigning"} => LinkedOrTold(hwUser.dev)

\* Inductive.
HwInv == HwTypes /\ ConnectingIsForDevice /\ QueuesNeedConnection /\ EntryIsLink /\ LinksAreFollowed /\ QueuesAreOfTheDevice

LEMMA HwInitInv == HwInit => HwInv
<1> SUFFICES ASSUME HwInit PROVE HwInv
  OBVIOUS
<1>1. HwTypes
  <2>1. hwStream \in StreamType
    BY DEF HwInit, StreamType, QueueNumber
  <2>2. hwManager \in ManagerType
    BY DEF HwInit, ManagerType, QueueNumber
  <2>3. hwQueues \in Seq(Seq(HwItem)) /\ hwEvents \in Seq(HwEvent)
    BY DEF HwInit
  <2>4. hwUser \in UserType
    BY DEF HwInit, NoUser, UserType, HwPlaces
  <2> QED
    BY <2>1, <2>2, <2>3, <2>4 DEF HwInit, HwTypes
<1>2. ConnectingIsForDevice /\ QueuesNeedConnection /\ EntryIsLink /\ LinksAreFollowed /\ QueuesAreOfTheDevice
  BY DEF HwInit, NoUser, Connecting, ConnectingIsForDevice, QueuesNeedConnection, EntryIsLink, LinksAreFollowed, QueuesAreOfTheDevice
<1> QED
  BY <1>1, <1>2 DEF HwInv
-----------------------------------------------------------------------------
\* What has been put into the queue of notifications stays there until it is delivered.
LEMMA ToldStays ==
  ASSUME HwTypes, NEW e \in HwEvent, hwEvents' = hwEvents \/ hwEvents' = Append(hwEvents, e)
  PROVE  hwEvents' \in Seq(HwEvent) /\ \A d : Told(d) => Told(d)'
<1>1. hwEvents \in Seq(HwEvent)
  BY DEF HwTypes
<1>2. \A i \in DOMAIN hwEvents : i \in DOMAIN hwEvents' /\ hwEvents'[i] = hwEvents[i]
  BY <1>1
<1> QED
  BY <1>1, <1>2 DEF Told

LEMMA ToldUntilDelivered ==
  ASSUME HwTypes, hwEvents # <<>>, hwEvents' = Tail(hwEvents)
  PROVE  /\ hwEvents' \in Seq(HwEvent) /\ Head(hwEvents) \in HwEvent /\ Head(hwEvents) = hwEvents[1]
         /\ \A i \in DOMAIN hwEvents' : i + 1 \in DOMAIN hwEvents /\ hwEvents'[i] = hwEvents[i + 1]
         /\ \A d : Told(d) => Told(d)' \/ (Head(hwEvents).kind = "disconnection" /\ Head(hwEvents).dev = d)
<1>1. hwEvents \in Seq(HwEvent)
  BY DEF HwTypes
<1>2. \A i \in DOMAIN hwEvents : i # 1 => i - 1 \in DOMAIN hwEvents' /\ hwEvents'[i - 1] = hwEvents[i]
  BY <1>1
<1>3. Head(hwEvents) = hwEvents[1]
  BY <1>1
<1>4. Head(hwEvents) \in HwEvent /\ hwEvents' \in Seq(HwEvent)
  BY <1>1
<1>5. \A i \in DOMAIN hwEvents' : i + 1 \in DOMAIN hwEvents /\ hwEvents'[i] = hwEvents[i + 1]
  BY <1>1
<1> QED
  BY <1>2, <1>3, <1>4, <1>5 DEF Told

\* A queue is changed.
LEMMA QueueTypes ==
  ASSUME HwTypes, NEW q \in DOMAIN hwQueues, NEW s \in Seq(HwItem), hwQueues' = [hwQueues EXCEPT ![q] = s]
  PROVE  /\ hwQueues' \in Seq(Seq(HwItem))
         /\ DOMAIN hwQueues' = DOMAIN hwQueues
         /\ \A r \in DOMAIN hwQueues : hwQueues'[r] = IF r = q THEN s ELSE hwQueues[r]
<1>1. hwQueues \in Seq(Seq(HwItem))
  BY DEF HwTypes
<1> QED
  BY <1>1
-----------------------------------------------------------------------------
LEMMA ConnectDirectKeeps ==
  ASSUME HwInv, NEW op \in {"connect", "debug"}, NEW d \in HwDevices, ConnectDirect(op, d)
  PROVE  HwInv'
<1> USE DEF HwInv, ConnectDirect, HwAt, Go, Return, NoUser, hwData, hwAdapter, HwBegin
<1>1. HwTypes'
  <2>1. hwUser' \in UserType
    BY DEF HwTypes, UserType, StreamType, ConnectingIsForDevice, HwOps, HwPlaces
  <2>2. hwEntry' \in HwDevices \cup {NULL} /\ hwLeft' \in BOOLEAN
    BY DEF HwTypes, ConnectingIsForDevice, UserType
  <2> QED
    BY <2>1, <2>2 DEF HwTypes, HwOps, HwPlaces, UserType
<1>2. ConnectingIsForDevice'
  <2>1. CASE hwEntry = NULL
    <3>1. hwUser' = [op |-> op, pc |-> "connecting", dev |-> d] /\ hwEntry' = d /\ hwStream' = hwStream /\ hwLink' = hwLink
      BY <2>1
    <3>2. hwLink # NULL => hwLeft'
      BY <2>1
    <3>3. ~hwStream.connected
      OBVIOUS
    <3> QED
      BY <3>1, <3>2, <3>3 DEF ConnectingIsForDevice, Connecting
  <2>2. CASE hwEntry # NULL
    BY <2>2 DEF HwTypes, ConnectingIsForDevice, Connecting
  <2> QED
    BY <2>1, <2>2
<1>3. QueuesNeedConnection'
  BY DEF HwTypes, StreamType, UserType, QueuesNeedConnection
<1>4. EntryIsLink'
  BY DEF HwTypes, UserType, ConnectingIsForDevice, EntryIsLink
<1>5. LinksAreFollowed'
  BY DEF HwTypes, StreamType, UserType, ConnectingIsForDevice, Connecting, LinksAreFollowed, LinkedOrTold, Told
<1>6. QueuesAreOfTheDevice'
  BY DEF HwTypes, StreamType, ManagerType, UserType, ConnectingIsForDevice, Connecting, QueuesNeedConnection, EntryIsLink, QueuesAreOfTheDevice
<1> QED
  BY <1>1, <1>2, <1>3, <1>4, <1>5, <1>6


LEMMA LinkUpKeeps ==
  ASSUME HwInv, LinkUp
  PROVE  HwInv'
<1> USE DEF HwInv, LinkUp, HwAt, Go, Return, NoUser, hwData, hwAdapter
<1>1. HwTypes'
  <2>1. hwUser' \in UserType
    BY DEF HwTypes, UserType, HwPlaces
  <2>2. hwLink' \in HwDevices
    BY DEF ConnectingIsForDevice, Connecting
  <2> QED
    BY <2>1, <2>2 DEF HwTypes
<1>2. ConnectingIsForDevice'
  BY DEF HwTypes, StreamType, UserType, ConnectingIsForDevice, Connecting
<1>3. QueuesNeedConnection'
  BY DEF HwTypes, StreamType, UserType, QueuesNeedConnection
<1>4. EntryIsLink'
  BY DEF HwTypes, UserType, ConnectingIsForDevice, EntryIsLink
<1>5. LinksAreFollowed'
  BY DEF HwTypes, StreamType, UserType, ConnectingIsForDevice, Connecting, LinksAreFollowed, LinkedOrTold, Told
<1>6. QueuesAreOfTheDevice'
  BY DEF HwTypes, StreamType, ManagerType, UserType, ConnectingIsForDevice, Connecting, QueuesNeedConnection, EntryIsLink, QueuesAreOfTheDevice
<1> QED
  BY <1>1, <1>2, <1>3, <1>4, <1>5, <1>6


LEMMA HwConnectedKeeps ==
  ASSUME HwInv, HwConnected
  PROVE  HwInv'
<1> USE DEF HwInv, HwConnected, HwAt, Go, Return, NoUser, hwData, hwAdapter
<1>1. HwTypes'
  <2>1. hwUser' \in UserType
    BY DEF HwTypes, UserType, StreamType, ConnectingIsForDevice, HwOps, HwPlaces
  <2> QED
    BY <2>1 DEF HwTypes, HwOps, HwPlaces, UserType
<1>2. ConnectingIsForDevice'
  BY DEF HwTypes, StreamType, UserType, ConnectingIsForDevice, Connecting
<1>3. QueuesNeedConnection'
  BY DEF HwTypes, StreamType, UserType, QueuesNeedConnection
<1>4. EntryIsLink'
  BY DEF HwTypes, UserType, ConnectingIsForDevice, EntryIsLink
<1>5. LinksAreFollowed'
  BY DEF HwTypes, StreamType, UserType, ConnectingIsForDevice, Connecting, LinksAreFollowed, LinkedOrTold, Told
<1>6. QueuesAreOfTheDevice'
  BY DEF HwTypes, StreamType, ManagerType, UserType, ConnectingIsForDevice, Connecting, QueuesNeedConnection, EntryIsLink, QueuesAreOfTheDevice
<1> QED
  BY <1>1, <1>2, <1>3, <1>4, <1>5, <1>6


LEMMA ConnectFailsKeeps ==
  ASSUME HwInv, ConnectFails
  PROVE  HwInv'
<1> USE DEF HwInv, ConnectFails, HwAt, Go, Return, NoUser, hwData, hwAdapter
<1>1. HwTypes'
  <2>1. hwUser' \in UserType
    BY DEF HwTypes, UserType, StreamType, ConnectingIsForDevice, HwOps, HwPlaces
  <2> QED
    BY <2>1 DEF HwTypes, HwOps, HwPlaces, UserType
<1>2. ConnectingIsForDevice'
  BY DEF HwTypes, StreamType, UserType, ConnectingIsForDevice, Connecting
<1>3. QueuesNeedConnection'
  BY DEF HwTypes, StreamType, UserType, QueuesNeedConnection
<1>4. EntryIsLink'
  BY DEF HwTypes, UserType, ConnectingIsForDevice, EntryIsLink
<1>5. LinksAreFollowed'
  BY DEF HwTypes, StreamType, UserType, ConnectingIsForDevice, Connecting, LinksAreFollowed, LinkedOrTold, Told
<1>6. QueuesAreOfTheDevice'
  BY DEF HwTypes, StreamType, ManagerType, UserType, ConnectingIsForDevice, Connecting, QueuesNeedConnection, EntryIsLink, QueuesAreOfTheDevice
<1> QED
  BY <1>1, <1>2, <1>3, <1>4, <1>5, <1>6


LEMMA AssignKeeps ==
  ASSUME HwInv, Assign
  PROVE  HwInv'
<1> USE DEF HwInv, Assign, HwAt, Go, Return, NoUser, hwData, hwAdapter
<1>1. HwTypes'
  <2>1. hwStream' \in StreamType
    BY DEF HwTypes, ConnectingIsForDevice, Connecting, StreamType, UserType, QueueNumber
  <2>2. hwUser' \in UserType
    BY DEF HwTypes, UserType, StreamType, ConnectingIsForDevice, HwOps, HwPlaces
  <2> QED
    BY <2>1, <2>2 DEF HwTypes, HwOps, HwPlaces, UserType
<1>2. ConnectingIsForDevice'
  BY DEF HwTypes, StreamType, UserType, ConnectingIsForDevice, Connecting
<1>3. QueuesNeedConnection'
  BY DEF HwTypes, StreamType, UserType, QueuesNeedConnection
<1>4. EntryIsLink'
  BY DEF HwTypes, UserType, ConnectingIsForDevice, EntryIsLink
<1>5. LinksAreFollowed'
  BY DEF HwTypes, StreamType, UserType, ConnectingIsForDevice, Connecting, LinksAreFollowed, LinkedOrTold, Told
<1>6. QueuesAreOfTheDevice'
  BY DEF HwTypes, StreamType, ManagerType, UserType, ConnectingIsForDevice, Connecting, QueuesNeedConnection, EntryIsLink, QueuesAreOfTheDevice
<1> QED
  BY <1>1, <1>2, <1>3, <1>4, <1>5, <1>6


LEMMA HwDisconnectKeeps ==
  ASSUME HwInv, HwDisconnect
  PROVE  HwInv'
<1> USE DEF HwInv, HwDisconnect, HwAt, Go, Return, NoUser, hwData, hwAdapter, Enter
<1>1. HwTypes'
  <2>1. hwStream' \in StreamType
    BY DEF HwTypes, ConnectingIsForDevice, Connecting, StreamType, UserType, QueueNumber
  <2>2. hwManager' \in ManagerType
    BY DEF HwTypes, ManagerType, StreamType, QueueNumber
  <2>3. hwUser' \in UserType
    BY DEF HwTypes, UserType, StreamType, ConnectingIsForDevice, HwOps, HwPlaces
  <2> QED
    BY <2>1, <2>2, <2>3 DEF HwTypes, HwOps, HwPlaces, UserType
<1>2. ConnectingIsForDevice'
  <2>1. CASE hwStream.connected
    <3>1. hwStream'.connected = hwStream.connected /\ hwStream'.string = hwStream.string
      BY <2>1 DEF HwTypes, StreamType
    <3>2. hwUser'.pc \in {"disconnected", "disconnecting"}
      BY <2>1
    <3> QED
      BY <2>1, <3>1, <3>2 DEF ConnectingIsForDevice, Connecting
  <2>2. CASE ~hwStream.connected
    BY <2>2 DEF ConnectingIsForDevice, Connecting
  <2> QED
    BY <2>1, <2>2
<1>3. QueuesNeedConnection'
  BY DEF HwTypes, StreamType, UserType, QueuesNeedConnection
<1>4. EntryIsLink'
  BY DEF HwTypes, UserType, ConnectingIsForDevice, EntryIsLink
<1>5. LinksAreFollowed'
  <2>1. CASE hwStream.connected
    <3>1. hwStream'.connected = hwStream.connected /\ hwStream'.string = hwStream.string /\ hwStream'.interrupted = hwStream.interrupted
      BY <2>1 DEF HwTypes, StreamType
    <3>2. hwUser'.pc \in {"disconnected", "disconnecting"} /\ hwUser.pc = "idle"
      BY <2>1
    <3> QED
      BY <2>1, <3>1, <3>2 DEF LinksAreFollowed, LinkedOrTold, Told
  <2>2. CASE ~hwStream.connected
    BY <2>2 DEF LinksAreFollowed, LinkedOrTold, Told
  <2> QED
    BY <2>1, <2>2
<1>6. QueuesAreOfTheDevice'
  BY DEF HwTypes, StreamType, ManagerType, UserType, ConnectingIsForDevice, Connecting, QueuesNeedConnection, EntryIsLink, QueuesAreOfTheDevice
<1> QED
  BY <1>1, <1>2, <1>3, <1>4, <1>5, <1>6


LEMMA HwDisconnectedKeeps ==
  ASSUME HwInv, HwDisconnected
  PROVE  HwInv'
<1> USE DEF HwInv, HwDisconnected, HwAt, Go, Return, NoUser, hwData, hwAdapter
<1>1. HwTypes'
  <2>1. hwStream' \in StreamType
    BY DEF HwTypes, ConnectingIsForDevice, Connecting, StreamType, UserType, QueueNumber
  <2>2. hwUser' \in UserType
    BY DEF HwTypes, UserType, StreamType, ConnectingIsForDevice, HwOps, HwPlaces
  <2> QED
    BY <2>1, <2>2 DEF HwTypes, HwOps, HwPlaces, UserType
<1>2. ConnectingIsForDevice'
  BY DEF HwTypes, StreamType, UserType, ConnectingIsForDevice, Connecting
<1>3. QueuesNeedConnection'
  BY DEF HwTypes, StreamType, UserType, QueuesNeedConnection
<1>4. EntryIsLink'
  BY DEF HwTypes, UserType, ConnectingIsForDevice, EntryIsLink
<1>5. LinksAreFollowed'
  BY DEF HwTypes, StreamType, UserType, ConnectingIsForDevice, Connecting, LinksAreFollowed, LinkedOrTold, Told
<1>6. QueuesAreOfTheDevice'
  BY DEF HwTypes, StreamType, ManagerType, UserType, ConnectingIsForDevice, Connecting, QueuesNeedConnection, EntryIsLink, QueuesAreOfTheDevice
<1> QED
  BY <1>1, <1>2, <1>3, <1>4, <1>5, <1>6


LEMMA OpenRPCKeeps ==
  ASSUME HwInv, NEW ok \in BOOLEAN, OpenRPC(ok)
  PROVE  HwInv'
<1> USE DEF HwInv, OpenRPC, HwAt, Go, Return, NoUser, hwData, hwAdapter
<1>1. HwTypes'
  <2>1. hwUser' \in UserType
    BY DEF HwTypes, UserType, StreamType, ConnectingIsForDevice, HwOps, HwPlaces
  <2> QED
    BY <2>1 DEF HwTypes, HwOps, HwPlaces, UserType
<1>2. ConnectingIsForDevice'
  BY DEF HwTypes, StreamType, UserType, ConnectingIsForDevice, Connecting
<1>3. QueuesNeedConnection'
  BY DEF HwTypes, StreamType, UserType, QueuesNeedConnection
<1>4. EntryIsLink'
  BY DEF HwTypes, UserType, ConnectingIsForDevice, EntryIsLink
<1>5. LinksAreFollowed'
  BY DEF HwTypes, StreamType, UserType, ConnectingIsForDevice, Connecting, LinksAreFollowed, LinkedOrTold, Told
<1>6. QueuesAreOfTheDevice'
  BY DEF HwTypes, StreamType, ManagerType, UserType, ConnectingIsForDevice, Connecting, QueuesNeedConnection, EntryIsLink, QueuesAreOfTheDevice
<1> QED
  BY <1>1, <1>2, <1>3, <1>4, <1>5, <1>6


LEMMA BackOutKeeps ==
  ASSUME HwInv, NEW ok \in BOOLEAN, BackOut(ok)
  PROVE  HwInv'
<1> USE DEF HwInv, BackOut, HwAt, Go, Return, NoUser, hwData, hwAdapter, Unlink
<1>1. HwTypes'
  <2>1. hwUser' \in UserType
    BY DEF HwTypes, UserType, StreamType, ConnectingIsForDevice, HwOps, HwPlaces
  <2> QED
    BY <2>1 DEF HwTypes, HwOps, HwPlaces, UserType
<1>2. ConnectingIsForDevice'
  BY DEF HwTypes, StreamType, UserType, ConnectingIsForDevice, Connecting
<1>3. QueuesNeedConnection'
  BY DEF HwTypes, StreamType, UserType, QueuesNeedConnection
<1>4. EntryIsLink'
  BY DEF HwTypes, UserType, ConnectingIsForDevice, EntryIsLink
<1>5. LinksAreFollowed'
  BY DEF HwTypes, StreamType, UserType, ConnectingIsForDevice, Connecting, LinksAreFollowed, LinkedOrTold, Told
<1>6. QueuesAreOfTheDevice'
  BY DEF HwTypes, StreamType, ManagerType, UserType, ConnectingIsForDevice, Connecting, QueuesNeedConnection, EntryIsLink, QueuesAreOfTheDevice
<1> QED
  BY <1>1, <1>2, <1>3, <1>4, <1>5, <1>6


LEMMA DisconnectingKeeps ==
  ASSUME HwInv, NEW ok \in BOOLEAN, Disconnecting(ok)
  PROVE  HwInv'
<1> USE DEF HwInv, Disconnecting, HwAt, Go, Return, NoUser, hwData, hwAdapter, Unlink
<1>1. HwTypes'
  <2>1. hwUser' \in UserType
    BY DEF HwTypes, UserType, StreamType, ConnectingIsForDevice, HwOps, HwPlaces
  <2> QED
    BY <2>1 DEF HwTypes, HwOps, HwPlaces, UserType
<1>2. ConnectingIsForDevice'
  BY DEF HwTypes, StreamType, UserType, ConnectingIsForDevice, Connecting
<1>3. QueuesNeedConnection'
  BY DEF HwTypes, StreamType, UserType, QueuesNeedConnection
<1>4. EntryIsLink'
  BY DEF HwTypes, UserType, ConnectingIsForDevice, EntryIsLink
<1>5. LinksAreFollowed'
  BY DEF HwTypes, StreamType, UserType, ConnectingIsForDevice, Connecting, LinksAreFollowed, LinkedOrTold, Told
<1>6. QueuesAreOfTheDevice'
  BY DEF HwTypes, StreamType, ManagerType, UserType, ConnectingIsForDevice, Connecting, QueuesNeedConnection, EntryIsLink, QueuesAreOfTheDevice
<1> QED
  BY <1>1, <1>2, <1>3, <1>4, <1>5, <1>6


LEMMA OpenDebugKeeps ==
  ASSUME HwInv, NEW ok \in BOOLEAN, OpenDebug(ok)
  PROVE  HwInv'
<1> USE DEF HwInv, OpenDebug, HwAt, Go, Return, NoUser, hwData, hwAdapter
<1>1. HwTypes'
  <2>1. hwUser' \in UserType
    BY DEF HwTypes, UserType, StreamType, ConnectingIsForDevice, HwOps, HwPlaces
  <2> QED
    BY <2>1 DEF HwTypes, HwOps, HwPlaces, UserType
<1>2. ConnectingIsForDevice'
  BY DEF HwTypes, StreamType, UserType, ConnectingIsForDevice, Connecting
<1>3. QueuesNeedConnection'
  BY DEF HwTypes, StreamType, UserType, QueuesNeedConnection
<1>4. EntryIsLink'
  BY DEF HwTypes, UserType, ConnectingIsForDevice, EntryIsLink
<1>5. LinksAreFollowed'
  BY DEF HwTypes, StreamType, UserType, ConnectingIsForDevice, Connecting, LinksAreFollowed, LinkedOrTold, Told
<1>6. QueuesAreOfTheDevice'
  BY DEF HwTypes, StreamType, ManagerType, UserType, ConnectingIsForDevice, Connecting, QueuesNeedConnection, EntryIsLink, QueuesAreOfTheDevice
<1> QED
  BY <1>1, <1>2, <1>3, <1>4, <1>5, <1>6


LEMMA StreamingEnabledKeeps ==
  ASSUME HwInv, NEW ok \in BOOLEAN, StreamingEnabled(ok)
  PROVE  HwInv'
<1> USE DEF HwInv, StreamingEnabled, HwAt, Go, Return, NoUser, hwData, hwAdapter, Enabled
<1>1. HwTypes'
  <2>1. hwManager' \in ManagerType
    BY DEF HwTypes, ManagerType, StreamType, QueueNumber
  <2>2. hwUser' \in UserType
    BY DEF HwTypes, UserType, StreamType, ConnectingIsForDevice, HwOps, HwPlaces
  <2> QED
    BY <2>1, <2>2 DEF HwTypes, HwOps, HwPlaces, UserType
<1>2. ConnectingIsForDevice'
  BY DEF HwTypes, StreamType, UserType, ConnectingIsForDevice, Connecting
<1>3. QueuesNeedConnection'
  BY DEF HwTypes, StreamType, UserType, QueuesNeedConnection
<1>4. EntryIsLink'
  BY DEF HwTypes, UserType, ConnectingIsForDevice, EntryIsLink
<1>5. LinksAreFollowed'
  BY DEF HwTypes, StreamType, UserType, ConnectingIsForDevice, Connecting, LinksAreFollowed, LinkedOrTold, Told
<1>6. QueuesAreOfTheDevice'
  BY DEF HwTypes, StreamType, ManagerType, UserType, ConnectingIsForDevice, Connecting, QueuesNeedConnection, EntryIsLink, QueuesAreOfTheDevice
<1> QED
  BY <1>1, <1>2, <1>3, <1>4, <1>5, <1>6


LEMMA TracingEnabledKeeps ==
  ASSUME HwInv, NEW ok \in BOOLEAN, TracingEnabled(ok)
  PROVE  HwInv'
<1> USE DEF HwInv, TracingEnabled, HwAt, Go, Return, NoUser, hwData, hwAdapter, Enabled
<1>1. HwTypes'
  <2>1. hwManager' \in ManagerType
    BY DEF HwTypes, ManagerType, StreamType, QueueNumber
  <2>2. hwUser' \in UserType
    BY DEF HwTypes, UserType, StreamType, ConnectingIsForDevice, HwOps, HwPlaces
  <2> QED
    BY <2>1, <2>2 DEF HwTypes, HwOps, HwPlaces, UserType
<1>2. ConnectingIsForDevice'
  BY DEF HwTypes, StreamType, UserType, ConnectingIsForDevice, Connecting
<1>3. QueuesNeedConnection'
  BY DEF HwTypes, StreamType, UserType, QueuesNeedConnection
<1>4. EntryIsLink'
  BY DEF HwTypes, UserType, ConnectingIsForDevice, EntryIsLink
<1>5. LinksAreFollowed'
  BY DEF HwTypes, StreamType, UserType, ConnectingIsForDevice, Connecting, LinksAreFollowed, LinkedOrTold, Told
<1>6. QueuesAreOfTheDevice'
  BY DEF HwTypes, StreamType, ManagerType, UserType, ConnectingIsForDevice, Connecting, QueuesNeedConnection, EntryIsLink, QueuesAreOfTheDevice
<1> QED
  BY <1>1, <1>2, <1>3, <1>4, <1>5, <1>6


LEMMA WaitTraceKeeps ==
  ASSUME HwInv, NEW ok \in BOOLEAN, WaitTrace(ok)
  PROVE  HwInv'
<1> USE DEF HwInv, WaitTrace, HwAt, Go, Return, NoUser, hwData, hwAdapter
<1>1. HwTypes'
  <2>1. hwManager' \in ManagerType
    <3>1. CASE ok
      <4>1. hwManager' = [hwManager EXCEPT !.data = <<>>] /\ <<>> \in Seq(HwItem)
        BY <3>1
      <4> QED
        BY <4>1 DEF HwTypes, ManagerType
    <3>2. CASE ~ok
      BY <3>2 DEF HwTypes
    <3> QED
      BY <3>1, <3>2
  <2>2. hwUser' \in UserType
    <3>1. hwManager.traces \in DOMAIN hwQueues
      BY DEF QueuesNeedConnection, QueuesAreOfTheDevice
    <3>2. hwQueues[hwManager.traces] \in Seq(HwItem)
      BY <3>1 DEF HwTypes
    <3>3. \A i \in DOMAIN hwQueues[hwManager.traces] : hwQueues[hwManager.traces][i] \in HwItem
      BY <3>2
    <3>4. {hwQueues[hwManager.traces][i].n : i \in DOMAIN hwQueues[hwManager.traces]} \in SUBSET Nat
      BY <3>3 DEF HwItem
    <3> QED
      BY <3>4 DEF UserType, HwOps, HwPlaces
  <2> QED
    BY <2>1, <2>2 DEF HwTypes
<1>2. ConnectingIsForDevice'
  BY DEF HwTypes, StreamType, UserType, ConnectingIsForDevice, Connecting
<1>3. QueuesNeedConnection'
  BY DEF HwTypes, StreamType, UserType, QueuesNeedConnection
<1>4. EntryIsLink'
  BY DEF HwTypes, UserType, ConnectingIsForDevice, EntryIsLink
<1>5. LinksAreFollowed'
  BY DEF HwTypes, StreamType, UserType, ConnectingIsForDevice, Connecting, LinksAreFollowed, LinkedOrTold, Told
<1>6. QueuesAreOfTheDevice'
  BY DEF HwTypes, StreamType, ManagerType, UserType, ConnectingIsForDevice, Connecting, QueuesNeedConnection, EntryIsLink, QueuesAreOfTheDevice
<1> QED
  BY <1>1, <1>2, <1>3, <1>4, <1>5, <1>6


LEMMA HwSendRPCKeeps ==
  ASSUME HwInv, HwSendRPC
  PROVE  HwInv'
<1> USE DEF HwInv, HwSendRPC, HwAt, Go, Return, NoUser, hwData, hwAdapter, HwBegin, Enter
<1>1. HwTypes'
  <2>1. hwEntry' \in HwDevices \cup {NULL} /\ hwLeft' \in BOOLEAN
    BY DEF HwTypes, ConnectingIsForDevice, UserType
  <2>2. hwUser' \in UserType
    BY DEF HwTypes, UserType, StreamType, ConnectingIsForDevice, HwOps, HwPlaces
  <2> QED
    BY <2>1, <2>2 DEF HwTypes, HwOps, HwPlaces, UserType
<1>2. ConnectingIsForDevice'
  BY DEF HwTypes, StreamType, UserType, ConnectingIsForDevice, Connecting
<1>3. QueuesNeedConnection'
  BY DEF HwTypes, StreamType, UserType, QueuesNeedConnection
<1>4. EntryIsLink'
  BY DEF HwTypes, UserType, ConnectingIsForDevice, EntryIsLink
<1>5. LinksAreFollowed'
  BY DEF HwTypes, StreamType, UserType, ConnectingIsForDevice, Connecting, LinksAreFollowed, LinkedOrTold, Told
<1>6. QueuesAreOfTheDevice'
  BY DEF HwTypes, StreamType, ManagerType, UserType, ConnectingIsForDevice, Connecting, QueuesNeedConnection, EntryIsLink, QueuesAreOfTheDevice
<1> QED
  BY <1>1, <1>2, <1>3, <1>4, <1>5, <1>6


LEMMA ReopenStreamingKeeps ==
  ASSUME HwInv, ReopenStreaming
  PROVE  HwInv'
<1> USE DEF HwInv, ReopenStreaming, HwAt, Go, Return, NoUser, hwData, hwAdapter, Reopen
<1>1. HwTypes'
  <2>1. hwUser' \in UserType
    <3>1. hwUser' = [hwUser EXCEPT !.pc = "reopen_tracing"] \/ hwUser' = [op |-> NULL, pc |-> "idle", dev |-> NULL]
      OBVIOUS
    <3>2. hwUser \in UserType /\ "reopen_tracing" \in HwPlaces /\ "idle" \in HwPlaces
      BY DEF HwTypes, HwPlaces
    <3> QED
      BY ONLY <3>1, <3>2 DEF UserType
  <2> QED
    BY <2>1 DEF HwTypes, HwOps, HwPlaces, UserType
<1>2. ConnectingIsForDevice'
  BY DEF HwTypes, StreamType, UserType, ConnectingIsForDevice, Connecting
<1>3. QueuesNeedConnection'
  BY DEF HwTypes, StreamType, UserType, QueuesNeedConnection
<1>4. EntryIsLink'
  BY DEF HwTypes, UserType, ConnectingIsForDevice, EntryIsLink
<1>5. LinksAreFollowed'
  BY DEF HwTypes, StreamType, UserType, ConnectingIsForDevice, Connecting, LinksAreFollowed, LinkedOrTold, Told
<1>6. QueuesAreOfTheDevice'
  BY DEF HwTypes, StreamType, ManagerType, UserType, ConnectingIsForDevice, Connecting, QueuesNeedConnection, EntryIsLink, QueuesAreOfTheDevice
<1> QED
  BY <1>1, <1>2, <1>3, <1>4, <1>5, <1>6


LEMMA ReopenTracingKeeps ==
  ASSUME HwInv, ReopenTracing
  PROVE  HwInv'
<1> USE DEF HwInv, ReopenTracing, HwAt, Go, Return, NoUser, hwData, hwAdapter, Reopen
<1>1. HwTypes'
  <2>1. hwUser' \in UserType
    BY DEF HwTypes, UserType, StreamType, ConnectingIsForDevice, HwOps, HwPlaces
  <2> QED
    BY <2>1 DEF HwTypes, HwOps, HwPlaces, UserType
<1>2. ConnectingIsForDevice'
  BY DEF HwTypes, StreamType, UserType, ConnectingIsForDevice, Connecting
<1>3. QueuesNeedConnection'
  BY DEF HwTypes, StreamType, UserType, QueuesNeedConnection
<1>4. EntryIsLink'
  BY DEF HwTypes, UserType, ConnectingIsForDevice, EntryIsLink
<1>5. LinksAreFollowed'
  BY DEF HwTypes, StreamType, UserType, ConnectingIsForDevice, Connecting, LinksAreFollowed, LinkedOrTold, Told
<1>6. QueuesAreOfTheDevice'
  BY DEF HwTypes, StreamType, ManagerType, UserType, ConnectingIsForDevice, Connecting, QueuesNeedConnection, EntryIsLink, QueuesAreOfTheDevice
<1> QED
  BY <1>1, <1>2, <1>3, <1>4, <1>5, <1>6


LEMMA RPCAnsweredKeeps ==
  ASSUME HwInv, RPCAnswered
  PROVE  HwInv'
<1> USE DEF HwInv, RPCAnswered, HwAt, Go, Return, NoUser, hwData, hwAdapter
<1>1. HwTypes'
  <2>1. hwUser' \in UserType
    BY DEF HwTypes, UserType, StreamType, ConnectingIsForDevice, HwOps, HwPlaces
  <2> QED
    BY <2>1 DEF HwTypes, HwOps, HwPlaces, UserType
<1>2. ConnectingIsForDevice'
  BY DEF HwTypes, StreamType, UserType, ConnectingIsForDevice, Connecting
<1>3. QueuesNeedConnection'
  BY DEF HwTypes, StreamType, UserType, QueuesNeedConnection
<1>4. EntryIsLink'
  BY DEF HwTypes, UserType, ConnectingIsForDevice, EntryIsLink
<1>5. LinksAreFollowed'
  BY DEF HwTypes, StreamType, UserType, ConnectingIsForDevice, Connecting, LinksAreFollowed, LinkedOrTold, Told
<1>6. QueuesAreOfTheDevice'
  BY DEF HwTypes, StreamType, ManagerType, UserType, ConnectingIsForDevice, Connecting, QueuesNeedConnection, EntryIsLink, QueuesAreOfTheDevice
<1> QED
  BY <1>1, <1>2, <1>3, <1>4, <1>5, <1>6


LEMMA RPCRaisesKeeps ==
  ASSUME HwInv, RPCRaises
  PROVE  HwInv'
<1> USE DEF HwInv, RPCRaises, HwAt, Go, Return, NoUser, hwData, hwAdapter
<1>1. HwTypes'
  <2>1. hwUser' \in UserType
    BY DEF HwTypes, UserType, StreamType, ConnectingIsForDevice, HwOps, HwPlaces
  <2> QED
    BY <2>1 DEF HwTypes, HwOps, HwPlaces, UserType
<1>2. ConnectingIsForDevice'
  BY DEF HwTypes, StreamType, UserType, ConnectingIsForDevice, Connecting
<1>3. QueuesNeedConnection'
  BY DEF HwTypes, StreamType, UserType, QueuesNeedConnection
<1>4. EntryIsLink'
  BY DEF HwTypes, UserType, ConnectingIsForDevice, EntryIsLink
<1>5. LinksAreFollowed'
  BY DEF HwTypes, StreamType, UserType, ConnectingIsForDevice, Connecting, LinksAreFollowed, LinkedOrTold, Told
<1>6. QueuesAreOfTheDevice'
  BY DEF HwTypes, StreamType, ManagerType, UserType, ConnectingIsForDevice, Connecting, QueuesNeedConnection, EntryIsLink, QueuesAreOfTheDevice
<1> QED
  BY <1>1, <1>2, <1>3, <1>4, <1>5, <1>6


LEMMA RPCReturnsKeeps ==
  ASSUME HwInv, RPCReturns
  PROVE  HwInv'
<1> USE DEF HwInv, RPCReturns, HwAt, Go, Return, NoUser, hwData, hwAdapter, HwBegin
<1>1. HwTypes'
  <2>1. hwEntry' \in HwDevices \cup {NULL} /\ hwLeft' \in BOOLEAN
    BY DEF HwTypes, ConnectingIsForDevice, UserType
  <2>2. hwUser' \in UserType
    BY DEF HwTypes, UserType, StreamType, ConnectingIsForDevice, HwOps, HwPlaces
  <2> QED
    BY <2>1, <2>2 DEF HwTypes, HwOps, HwPlaces, UserType
<1>2. ConnectingIsForDevice'
  BY DEF HwTypes, StreamType, UserType, ConnectingIsForDevice, Connecting
<1>3. QueuesNeedConnection'
  BY DEF HwTypes, StreamType, UserType, QueuesNeedConnection
<1>4. EntryIsLink'
  BY DEF HwTypes, UserType, ConnectingIsForDevice, EntryIsLink
<1>5. LinksAreFollowed'
  BY DEF HwTypes, StreamType, UserType, ConnectingIsForDevice, Connecting, LinksAreFollowed, LinkedOrTold, Told
<1>6. QueuesAreOfTheDevice'
  BY DEF HwTypes, StreamType, ManagerType, UserType, ConnectingIsForDevice, Connecting, QueuesNeedConnection, EntryIsLink, QueuesAreOfTheDevice
<1> QED
  BY <1>1, <1>2, <1>3, <1>4, <1>5, <1>6


LEMMA EnableStreamingKeeps ==
  ASSUME HwInv, EnableStreaming
  PROVE  HwInv'
<1> USE DEF HwInv, EnableStreaming, HwAt, Go, Return, NoUser, hwData, hwAdapter, Enable, Enter
<1> DEFINE q == hwStream.reports
<1>a. hwStream.connected /\ hwUser.pc = "idle" /\ hwStream \in StreamType /\ hwManager \in ManagerType
  BY DEF HwTypes
<1>b. CASE q # NULL
  <2>1. q \in DOMAIN hwQueues
    BY <1>b DEF QueuesNeedConnection
  <2>2. hwManager' = [hwManager EXCEPT !.reports = q] /\ hwStream' = hwStream /\ hwUser' = hwUser
    BY <1>b
  <2>3. hwQueues' = [hwQueues EXCEPT ![q] = <<>>] /\ <<>> \in Seq(HwItem)
    BY <1>b
  <2>4. /\ hwQueues' \in Seq(Seq(HwItem)) /\ DOMAIN hwQueues' = DOMAIN hwQueues
        /\ \A r \in DOMAIN hwQueues : hwQueues'[r] = IF r = q THEN <<>> ELSE hwQueues[r]
    BY <2>1, <2>3, QueueTypes
  <2>5. hwManager' \in ManagerType /\ hwManager'.reports = q /\ hwManager'.traces = hwManager.traces
    BY <1>a, <2>2 DEF ManagerType, StreamType
  <2>6. HwTypes'
    BY <2>2, <2>4, <2>5 DEF HwTypes
  <2>7. QueuesAreOfTheDevice'
    <3>1. \A r \in DOMAIN hwQueues : hwQueues'[r] = <<>> \/ hwQueues'[r] = hwQueues[r]
      BY <2>4
    <3> QED
      BY <2>2, <2>5, <3>1 DEF QueuesAreOfTheDevice, QueuesNeedConnection
  <2>8. ConnectingIsForDevice' /\ QueuesNeedConnection' /\ EntryIsLink' /\ LinksAreFollowed'
    BY <2>2, <2>4 DEF ConnectingIsForDevice, QueuesNeedConnection, EntryIsLink, LinksAreFollowed, LinkedOrTold, Told
  <2> QED
    BY <2>6, <2>7, <2>8
<1>c. CASE q = NULL
  <2> DEFINE n == Len(hwQueues) + 1
  <2>1. hwStream' = [hwStream EXCEPT !.reports = n] /\ hwManager' = hwManager
    BY <1>c
  <2>2. hwQueues' = Append(hwQueues, <<>>) /\ hwQueues \in Seq(Seq(HwItem)) /\ <<>> \in Seq(HwItem)
    BY <1>c DEF HwTypes
  <2>3. hwUser' = [op |-> "enable", pc |-> "open_streaming", dev |-> NULL]
    BY <1>c
  <2>4. /\ hwQueues' \in Seq(Seq(HwItem)) /\ DOMAIN hwQueues' = DOMAIN hwQueues \cup {n}
        /\ hwQueues'[n] = <<>> /\ \A r \in DOMAIN hwQueues : hwQueues'[r] = hwQueues[r]
        /\ n \in Nat
    BY <2>2
  <2>5. /\ hwStream' \in StreamType /\ hwStream'.reports = n /\ hwStream'.traces = hwStream.traces
        /\ hwStream'.connected = hwStream.connected /\ hwStream'.string = hwStream.string
        /\ hwStream'.interrupted = hwStream.interrupted
    BY <1>a, <2>1, <2>4 DEF StreamType, QueueNumber
  <2>6. hwUser' \in UserType /\ hwUser'.pc = "open_streaming"
    BY <2>3 DEF UserType, HwOps, HwPlaces
  <2> HIDE DEF n
  <2>7. HwTypes'
    BY <2>1, <2>4, <2>5, <2>6 DEF HwTypes
  <2>8. QueuesAreOfTheDevice'
    <3>1. hwManager.reports = NULL
      BY <1>c DEF QueuesAreOfTheDevice
    <3>2. ASSUME NEW r \in {hwStream'.reports, hwStream'.traces} \ {NULL}
          PROVE  hwQueues'[r] = <<>> \/ (r \in {hwStream.traces} \ {NULL} /\ hwQueues'[r] = hwQueues[r])
      BY <2>4, <2>5 DEF QueuesNeedConnection
    <3> QED
      BY <2>1, <2>5, <3>1, <3>2 DEF QueuesAreOfTheDevice
  <2>9. ConnectingIsForDevice' /\ QueuesNeedConnection' /\ EntryIsLink'
    BY <1>a, <2>4, <2>5, <2>6 DEF ConnectingIsForDevice, Connecting, QueuesNeedConnection, EntryIsLink
  <2>10. LinksAreFollowed'
    BY <1>a, <2>5, <2>6 DEF LinksAreFollowed, LinkedOrTold, Told
  <2> QED
    BY <2>7, <2>8, <2>9, <2>10
<1> QED
  BY <1>b, <1>c


LEMMA EnableTracingKeeps ==
  ASSUME HwInv, EnableTracing
  PROVE  HwInv'
<1> USE DEF HwInv, EnableTracing, HwAt, Go, Return, NoUser, hwData, hwAdapter, Enable, Enter
<1> DEFINE q == hwStream.traces
<1>a. hwStream.connected /\ hwUser.pc = "idle" /\ hwStream \in StreamType /\ hwManager \in ManagerType
  BY DEF HwTypes
<1>b. CASE q # NULL
  <2>1. q \in DOMAIN hwQueues
    BY <1>b DEF QueuesNeedConnection
  <2>2. hwManager' = [hwManager EXCEPT !.traces = q] /\ hwStream' = hwStream /\ hwUser' = hwUser
    BY <1>b
  <2>3. hwQueues' = [hwQueues EXCEPT ![q] = <<>>] /\ <<>> \in Seq(HwItem)
    BY <1>b
  <2>4. /\ hwQueues' \in Seq(Seq(HwItem)) /\ DOMAIN hwQueues' = DOMAIN hwQueues
        /\ \A r \in DOMAIN hwQueues : hwQueues'[r] = IF r = q THEN <<>> ELSE hwQueues[r]
    BY <2>1, <2>3, QueueTypes
  <2>5. hwManager' \in ManagerType /\ hwManager'.traces = q /\ hwManager'.reports = hwManager.reports
    BY <1>a, <2>2 DEF ManagerType, StreamType
  <2>6. HwTypes'
    BY <2>2, <2>4, <2>5 DEF HwTypes
  <2>7. QueuesAreOfTheDevice'
    <3>1. \A r \in DOMAIN hwQueues : hwQueues'[r] = <<>> \/ hwQueues'[r] = hwQueues[r]
      BY <2>4
    <3> QED
      BY <2>2, <2>5, <3>1 DEF QueuesAreOfTheDevice, QueuesNeedConnection
  <2>8. ConnectingIsForDevice' /\ QueuesNeedConnection' /\ EntryIsLink' /\ LinksAreFollowed'
    BY <2>2, <2>4 DEF ConnectingIsForDevice, QueuesNeedConnection, EntryIsLink, LinksAreFollowed, LinkedOrTold, Told
  <2> QED
    BY <2>6, <2>7, <2>8
<1>c. CASE q = NULL
  <2> DEFINE n == Len(hwQueues) + 1
  <2>1. hwStream' = [hwStream EXCEPT !.traces = n] /\ hwManager' = hwManager
    BY <1>c
  <2>2. hwQueues' = Append(hwQueues, <<>>) /\ hwQueues \in Seq(Seq(HwItem)) /\ <<>> \in Seq(HwItem)
    BY <1>c DEF HwTypes
  <2>3. hwUser' = [op |-> "enable", pc |-> "open_tracing", dev |-> NULL]
    BY <1>c
  <2>4. /\ hwQueues' \in Seq(Seq(HwItem)) /\ DOMAIN hwQueues' = DOMAIN hwQueues \cup {n}
        /\ hwQueues'[n] = <<>> /\ \A r \in DOMAIN hwQueues : hwQueues'[r] = hwQueues[r]
        /\ n \in Nat
    BY <2>2
  <2>5. /\ hwStream' \in StreamType /\ hwStream'.traces = n /\ hwStream'.reports = hwStream.reports
        /\ hwStream'.connected = hwStream.connected /\ hwStream'.string = hwStream.string
        /\ hwStream'.interrupted = hwStream.interrupted
    BY <1>a, <2>1, <2>4 DEF StreamType, QueueNumber
  <2>6. hwUser' \in UserType /\ hwUser'.pc = "open_tracing"
    BY <2>3 DEF UserType, HwOps, HwPlaces
  <2> HIDE DEF n
  <2>7. HwTypes'
    BY <2>1, <2>4, <2>5, <2>6 DEF HwTypes
  <2>8. QueuesAreOfTheDevice'
    <3>1. hwManager.traces = NULL
      BY <1>c DEF QueuesAreOfTheDevice
    <3>2. ASSUME NEW r \in {hwStream'.traces, hwStream'.reports} \ {NULL}
          PROVE  hwQueues'[r] = <<>> \/ (r \in {hwStream.reports} \ {NULL} /\ hwQueues'[r] = hwQueues[r])
      BY <2>4, <2>5 DEF QueuesNeedConnection
    <3> QED
      BY <2>1, <2>5, <3>1, <3>2 DEF QueuesAreOfTheDevice
  <2>9. ConnectingIsForDevice' /\ QueuesNeedConnection' /\ EntryIsLink'
    BY <1>a, <2>4, <2>5, <2>6 DEF ConnectingIsForDevice, Connecting, QueuesNeedConnection, EntryIsLink
  <2>10. LinksAreFollowed'
    BY <1>a, <2>5, <2>6 DEF LinksAreFollowed, LinkedOrTold, Told
  <2> QED
    BY <2>7, <2>8, <2>9, <2>10
<1> QED
  BY <1>b, <1>c


LEMMA TakeReportKeeps ==
  ASSUME HwInv, TakeReport
  PROVE  HwInv'
<1> USE DEF HwInv, TakeReport, HwAt, Go, Return, NoUser, hwData, hwAdapter
<1>1. HwTypes'
  <2> DEFINE q == hwManager.reports
  <2>1. q \in DOMAIN hwQueues
    BY DEF QueuesNeedConnection, QueuesAreOfTheDevice
  <2>2. hwQueues[q] \in Seq(HwItem)
    BY <2>1 DEF HwTypes
  <2>3. Tail(hwQueues[q]) \in Seq(HwItem)
    BY <2>2
  <2>4. hwQueues' = [hwQueues EXCEPT ![q] = Tail(hwQueues[q])]
    OBVIOUS
  <2>5. hwQueues' \in Seq(Seq(HwItem))
    BY <2>1, <2>3, <2>4, QueueTypes
  <2> QED
    BY <2>5 DEF HwTypes
<1>2. ConnectingIsForDevice'
  BY DEF HwTypes, StreamType, UserType, ConnectingIsForDevice, Connecting
<1>3. QueuesNeedConnection'
  BY DEF HwTypes, StreamType, UserType, QueuesNeedConnection
<1>4. EntryIsLink'
  BY DEF HwTypes, UserType, ConnectingIsForDevice, EntryIsLink
<1>5. LinksAreFollowed'
  BY DEF HwTypes, StreamType, UserType, ConnectingIsForDevice, Connecting, LinksAreFollowed, LinkedOrTold, Told
<1>6. QueuesAreOfTheDevice'
  BY DEF HwTypes, StreamType, ManagerType, UserType, ConnectingIsForDevice, Connecting, QueuesNeedConnection, EntryIsLink, QueuesAreOfTheDevice
<1> QED
  BY <1>1, <1>2, <1>3, <1>4, <1>5, <1>6


LEMMA AccumulateTraceKeeps ==
  ASSUME HwInv, AccumulateTrace
  PROVE  HwInv'
<1> USE DEF HwInv, AccumulateTrace, HwAt, Go, Return, NoUser, hwData, hwAdapter
<1>1. HwTypes'
  <2> DEFINE q == hwManager.traces
  <2>1. q \in DOMAIN hwQueues
    BY DEF QueuesNeedConnection, QueuesAreOfTheDevice
  <2>2. hwQueues[q] \in Seq(HwItem)
    BY <2>1 DEF HwTypes
  <2>3. hwManager.data \o hwQueues[q] \in Seq(HwItem)
    BY <2>2 DEF HwTypes, ManagerType
  <2>4. hwManager' \in ManagerType
    BY <2>3 DEF HwTypes, ManagerType
  <2>5. <<>> \in Seq(HwItem) /\ hwQueues' = [hwQueues EXCEPT ![q] = <<>>]
    OBVIOUS
  <2>6. hwQueues' \in Seq(Seq(HwItem))
    BY <2>1, <2>5, QueueTypes
  <2> QED
    BY <2>4, <2>6 DEF HwTypes
<1>2. ConnectingIsForDevice'
  BY DEF HwTypes, StreamType, UserType, ConnectingIsForDevice, Connecting
<1>3. QueuesNeedConnection'
  BY DEF HwTypes, StreamType, UserType, QueuesNeedConnection
<1>4. EntryIsLink'
  BY DEF HwTypes, UserType, ConnectingIsForDevice, EntryIsLink
<1>5. LinksAreFollowed'
  BY DEF HwTypes, StreamType, UserType, ConnectingIsForDevice, Connecting, LinksAreFollowed, LinkedOrTold, Told
<1>6. QueuesAreOfTheDevice'
  BY DEF HwTypes, StreamType, ManagerType, UserType, ConnectingIsForDevice, Connecting, QueuesNeedConnection, EntryIsLink, QueuesAreOfTheDevice
<1> QED
  BY <1>1, <1>2, <1>3, <1>4, <1>5, <1>6


LEMMA TraceReturnedKeeps ==
  ASSUME HwInv, TraceReturned
  PROVE  HwInv'
<1> USE DEF HwInv, TraceReturned, HwAt, Go, Return, NoUser, hwData, hwAdapter
<1>1. HwTypes'
  <2>1. hwManager.data # <<>> => Tail(hwManager.data) \in Seq(HwItem)
    BY DEF HwTypes, ManagerType
  <2>2. hwManager' \in ManagerType
    <3>1. CASE hwManager.data = <<>>
      BY <3>1 DEF HwTypes
    <3>2. CASE hwManager.data # <<>>
      BY <3>2, <2>1 DEF HwTypes, ManagerType
    <3> QED
      BY <3>1, <3>2
  <2>3. hwUser' \in UserType
    BY DEF UserType, HwPlaces
  <2> QED
    BY <2>2, <2>3 DEF HwTypes
<1>2. ConnectingIsForDevice'
  BY DEF HwTypes, StreamType, UserType, ConnectingIsForDevice, Connecting
<1>3. QueuesNeedConnection'
  BY DEF HwTypes, StreamType, UserType, QueuesNeedConnection
<1>4. EntryIsLink'
  BY DEF HwTypes, UserType, ConnectingIsForDevice, EntryIsLink
<1>5. LinksAreFollowed'
  BY DEF HwTypes, StreamType, UserType, ConnectingIsForDevice, Connecting, LinksAreFollowed, LinkedOrTold, Told
<1>6. QueuesAreOfTheDevice'
  BY DEF HwTypes, StreamType, ManagerType, UserType, ConnectingIsForDevice, Connecting, QueuesNeedConnection, EntryIsLink, QueuesAreOfTheDevice
<1> QED
  BY <1>1, <1>2, <1>3, <1>4, <1>5, <1>6


LEMMA SendsReportKeeps ==
  ASSUME HwInv, SendsReport
  PROVE  HwInv'
<1> USE DEF HwInv, SendsReport, HwAt, Go, Return, NoUser, hwData, hwAdapter, Sends
<1> DEFINE e == [kind |-> "report", dev |-> hwEntry, from |-> hwLink, n |-> hwItems + 1]
<1>1. HwTypes' /\ \A d : Told(d) => Told(d)'
  <2>1. CASE hwEntry = NULL
    <3>1. hwEvents' = hwEvents
      BY <2>1
    <3> QED
      BY <3>1 DEF HwTypes, Told
  <2>2. CASE hwEntry # NULL
    <3>1. e \in HwEvent
      BY <2>2 DEF HwTypes, HwEvent
    <3>2. hwEvents' = Append(hwEvents, e)
      BY <2>2
    <3> HIDE DEF e
    <3>3. hwEvents' \in Seq(HwEvent) /\ \A d : Told(d) => Told(d)'
      BY <3>1, <3>2, ToldStays
    <3> QED
      BY <3>3 DEF HwTypes
  <2> QED
    BY <2>1, <2>2
<1>2. ConnectingIsForDevice'
  BY DEF HwTypes, StreamType, UserType, ConnectingIsForDevice, Connecting
<1>3. QueuesNeedConnection'
  BY DEF HwTypes, StreamType, UserType, QueuesNeedConnection
<1>4. EntryIsLink'
  BY DEF HwTypes, UserType, ConnectingIsForDevice, EntryIsLink
<1>5. LinksAreFollowed'
  BY <1>1 DEF LinksAreFollowed, LinkedOrTold
<1>6. QueuesAreOfTheDevice'
  BY DEF HwTypes, StreamType, ManagerType, UserType, ConnectingIsForDevice, Connecting, QueuesNeedConnection, EntryIsLink, QueuesAreOfTheDevice
<1> QED
  BY <1>1, <1>2, <1>3, <1>4, <1>5, <1>6


LEMMA SendsTraceKeeps ==
  ASSUME HwInv, SendsTrace
  PROVE  HwInv'
<1> USE DEF HwInv, SendsTrace, HwAt, Go, Return, NoUser, hwData, hwAdapter, Sends
<1> DEFINE e == [kind |-> "trace", dev |-> hwEntry, from |-> hwLink, n |-> hwItems + 1]
<1>1. HwTypes' /\ \A d : Told(d) => Told(d)'
  <2>1. CASE hwEntry = NULL
    <3>1. hwEvents' = hwEvents
      BY <2>1
    <3> QED
      BY <3>1 DEF HwTypes, Told
  <2>2. CASE hwEntry # NULL
    <3>1. e \in HwEvent
      BY <2>2 DEF HwTypes, HwEvent
    <3>2. hwEvents' = Append(hwEvents, e)
      BY <2>2
    <3> HIDE DEF e
    <3>3. hwEvents' \in Seq(HwEvent) /\ \A d : Told(d) => Told(d)'
      BY <3>1, <3>2, ToldStays
    <3> QED
      BY <3>3 DEF HwTypes
  <2> QED
    BY <2>1, <2>2
<1>2. ConnectingIsForDevice'
  BY DEF HwTypes, StreamType, UserType, ConnectingIsForDevice, Connecting
<1>3. QueuesNeedConnection'
  BY DEF HwTypes, StreamType, UserType, QueuesNeedConnection
<1>4. EntryIsLink'
  BY DEF HwTypes, UserType, ConnectingIsForDevice, EntryIsLink
<1>5. LinksAreFollowed'
  BY <1>1 DEF LinksAreFollowed, LinkedOrTold
<1>6. QueuesAreOfTheDevice'
  BY DEF HwTypes, StreamType, ManagerType, UserType, ConnectingIsForDevice, Connecting, QueuesNeedConnection, EntryIsLink, QueuesAreOfTheDevice
<1> QED
  BY <1>1, <1>2, <1>3, <1>4, <1>5, <1>6


LEMMA DropKeeps ==
  ASSUME HwInv, Drop
  PROVE  HwInv'
<1> USE DEF HwInv, Drop, HwAt, Go, Return, NoUser, hwData, hwAdapter
<1> DEFINE e == [kind |-> "disconnection", dev |-> hwEntry, from |-> hwLink, n |-> 0]
<1>1. HwTypes' /\ (\A d : Told(d) => Told(d)') /\ (\A d : hwEntry # NULL /\ d = hwEntry => Told(d)')
  <2>1. CASE hwEntry = NULL
    <3>1. hwEvents' = hwEvents
      BY <2>1
    <3> QED
      BY <2>1, <3>1 DEF HwTypes, Told
  <2>2. CASE hwEntry # NULL
    <3>1. e \in HwEvent /\ e.kind = "disconnection" /\ e.dev = hwEntry
      BY <2>2 DEF HwTypes, HwEvent
    <3>2. hwEvents' = Append(hwEvents, e)
      BY <2>2
    <3> HIDE DEF e
    <3>3. hwEvents' \in Seq(HwEvent) /\ \A d : Told(d) => Told(d)'
      BY <3>1, <3>2, ToldStays
    <3>4. Len(hwEvents) + 1 \in DOMAIN hwEvents' /\ hwEvents'[Len(hwEvents) + 1] = e
      BY <3>1, <3>2 DEF HwTypes
    <3>5. \A d : d = hwEntry => Told(d)'
      BY <3>1, <3>4 DEF Told
    <3> QED
      BY <3>3, <3>5 DEF HwTypes
  <2> QED
    BY <2>1, <2>2
<1>2. ConnectingIsForDevice'
  BY DEF HwTypes, StreamType, UserType, ConnectingIsForDevice, Connecting
<1>3. QueuesNeedConnection'
  BY DEF HwTypes, StreamType, UserType, QueuesNeedConnection
<1>4. EntryIsLink'
  BY DEF HwTypes, UserType, ConnectingIsForDevice, EntryIsLink
<1>5. LinksAreFollowed'
  <2>1. ~hwLeft => hwEntry = hwLink /\ hwEntry # NULL
    BY DEF EntryIsLink
  <2>2. \A d : ~hwLeft /\ LinkedOrTold(d) => LinkedOrTold(d)'
    BY <1>1, <2>1 DEF LinkedOrTold
  <2> QED
    BY <2>2 DEF LinksAreFollowed
<1>6. QueuesAreOfTheDevice'
  BY DEF HwTypes, StreamType, ManagerType, UserType, ConnectingIsForDevice, Connecting, QueuesNeedConnection, EntryIsLink, QueuesAreOfTheDevice
<1> QED
  BY <1>1, <1>2, <1>3, <1>4, <1>5, <1>6


LEMMA DeliverKeeps ==
  ASSUME HwInv, Deliver
  PROVE  HwInv'
<1> USE DEF HwInv, Deliver, HwAt, Go, Return, NoUser, hwData, hwAdapter, OnNotification
<1> DEFINE e == Head(hwEvents)
           queue == IF e.kind = "report" THEN hwStream.reports ELSE hwStream.traces
           item == [dev |-> e.from, n |-> e.n]
<1>a. /\ hwEvents' \in Seq(HwEvent) /\ e \in HwEvent /\ e = hwEvents[1]
      /\ \A i \in DOMAIN hwEvents' : i + 1 \in DOMAIN hwEvents /\ hwEvents'[i] = hwEvents[i + 1]
      /\ \A d : Told(d) => Told(d)' \/ (e.kind = "disconnection" /\ e.dev = d)
  BY ToldUntilDelivered
<1>b. hwStream' \in StreamType /\ hwStream'.connected = hwStream.connected /\ hwStream'.string = hwStream.string
      /\ hwStream'.reports = hwStream.reports /\ hwStream'.traces = hwStream.traces
      /\ (hwStream.interrupted => hwStream'.interrupted)
      /\ (e.dev = hwStream.string /\ e.kind = "disconnection" => hwStream'.interrupted)
  <2>1. CASE e.dev = hwStream.string /\ e.kind = "disconnection"
    <3>1. hwStream' = [hwStream EXCEPT !.interrupted = TRUE]
      BY <2>1
    <3> QED
      BY <3>1 DEF HwTypes, StreamType
  <2>2. CASE ~(e.dev = hwStream.string /\ e.kind = "disconnection")
    <3>1. hwStream' = hwStream
      BY <2>2
    <3> QED
      BY <2>2, <3>1 DEF HwTypes
  <2> QED
    BY <2>1, <2>2
<1>c. /\ hwQueues' \in Seq(Seq(HwItem)) /\ DOMAIN hwQueues' = DOMAIN hwQueues
      /\ \A q \in DOMAIN hwQueues : \A i \in DOMAIN hwQueues'[q] :
           \/ i \in DOMAIN hwQueues[q] /\ hwQueues'[q][i] = hwQueues[q][i]
           \/ hwQueues'[q][i] = item /\ e.dev = hwStream.string
  <2>1. CASE e.dev = hwStream.string /\ e.kind # "disconnection" /\ queue # NULL
    <3>1. queue \in DOMAIN hwQueues
      BY <2>1 DEF QueuesNeedConnection
    <3>2. item \in HwItem
      BY <1>a DEF HwItem, HwEvent
    <3>3. hwQueues[queue] \in Seq(HwItem)
      BY <3>1 DEF HwTypes
    <3>4. hwQueues' = [hwQueues EXCEPT ![queue] = Append(hwQueues[queue], item)]
      BY <2>1
    <3>5. Append(hwQueues[queue], item) \in Seq(HwItem)
      BY <3>2, <3>3
    <3>6. \A i \in DOMAIN Append(hwQueues[queue], item) :
            \/ i \in DOMAIN hwQueues[queue] /\ Append(hwQueues[queue], item)[i] = hwQueues[queue][i]
            \/ Append(hwQueues[queue], item)[i] = item
      BY <3>2, <3>3
    <3> HIDE DEF queue, item
    <3>7. /\ hwQueues' \in Seq(Seq(HwItem)) /\ DOMAIN hwQueues' = DOMAIN hwQueues
          /\ \A r \in DOMAIN hwQueues : hwQueues'[r] = IF r = queue THEN Append(hwQueues[queue], item) ELSE hwQueues[r]
      BY <3>1, <3>4, <3>5, QueueTypes
    <3> QED
      BY <2>1, <3>1, <3>6, <3>7
  <2>2. CASE ~(e.dev = hwStream.string /\ e.kind # "disconnection" /\ queue # NULL)
    <3>1. hwQueues' = hwQueues
      BY <2>2
    <3> QED
      BY <3>1 DEF HwTypes
  <2> QED
    BY <2>1, <2>2
<1>d. hwMissed' \in BOOLEAN /\ (hwMissed => hwMissed')
      /\ (e.kind = "disconnection" /\ hwUser.pc \in {"linked", "opening", "backing_out", "assigning"} => hwMissed')
  BY DEF HwTypes
<1>e. item.dev = e.from
  OBVIOUS
<1> HIDE DEF e, queue, item
<1>1. HwTypes'
  BY <1>a, <1>b, <1>c, <1>d DEF HwTypes
<1>2. ConnectingIsForDevice'
  BY <1>b DEF ConnectingIsForDevice
<1>3. QueuesNeedConnection'
  BY <1>b, <1>c DEF QueuesNeedConnection
<1>4. EntryIsLink'
  BY <1>a DEF EntryIsLink
<1>5. LinksAreFollowed'
  <2>1. \A d : LinkedOrTold(d) => LinkedOrTold(d)' \/ (e.kind = "disconnection" /\ e.dev = d)
    BY <1>a DEF LinkedOrTold
  <2>2. ~hwMissed' /\ ~hwLeft' => ~hwMissed /\ ~hwLeft
    BY <1>d
  <2>3. ~hwMissed' /\ ~hwLeft' /\ hwStream'.connected /\ ~hwStream'.interrupted /\ hwUser'.pc # "disconnected" =>
           LinkedOrTold(hwStream.string)'
    BY <1>b, <2>1, <2>2 DEF LinksAreFollowed
  <2>4. ~hwMissed' /\ ~hwLeft' /\ hwUser'.pc \in {"linked", "opening", "assigning"} => LinkedOrTold(hwUser.dev)'
    BY <1>d, <2>1, <2>2 DEF LinksAreFollowed
  <2> QED
    BY <2>3, <2>4 DEF LinksAreFollowed
<1>6. QueuesAreOfTheDevice'
  <2>1. hwManager'.reports \in {NULL, hwStream'.reports} /\ hwManager'.traces \in {NULL, hwStream'.traces}
    BY <1>b DEF QueuesAreOfTheDevice
  <2>2. ASSUME NEW q \in {hwStream'.reports, hwStream'.traces} \ {NULL}, NEW i \in DOMAIN hwQueues'[q]
        PROVE  hwQueues'[q][i].dev = hwStream'.string \/ hwLeft'
    <3>1. q \in DOMAIN hwQueues /\ q \in {hwStream.reports, hwStream.traces} \ {NULL}
      BY <1>b DEF QueuesNeedConnection
    <3>2. CASE i \in DOMAIN hwQueues[q] /\ hwQueues'[q][i] = hwQueues[q][i]
      BY <1>b, <3>1, <3>2 DEF QueuesAreOfTheDevice
    <3>3. CASE hwQueues'[q][i] = item /\ e.dev = hwStream.string
      <4>1. e.from = e.dev \/ hwLeft
        BY <1>a DEF EntryIsLink
      <4> QED
        BY <1>b, <1>e, <3>3, <4>1
    <3> QED
      BY <1>c, <3>1, <3>2, <3>3
  <2> QED
    BY <2>1, <2>2 DEF QueuesAreOfTheDevice
<1> QED
  BY <1>1, <1>2, <1>3, <1>4, <1>5, <1>6

-----------------------------------------------------------------------------

LEMMA HwNextInv == HwInv /\ [HwNext]_hwVars => HwInv'
<1> SUFFICES ASSUME HwInv, [HwNext]_hwVars PROVE HwInv'
  OBVIOUS
<1>1. CASE User
  <2>1. CASE \E d \in HwDevices : ConnectDirect("connect", d) \/ ConnectDirect("debug", d)
    BY <2>1, ConnectDirectKeeps
  <2>2. CASE LinkUp \/ HwConnected \/ ConnectFails \/ Assign \/ HwDisconnect \/ HwDisconnected
    BY <2>2, LinkUpKeeps, HwConnectedKeeps, ConnectFailsKeeps, AssignKeeps, HwDisconnectKeeps, HwDisconnectedKeeps
  <2>3. CASE \E ok \in BOOLEAN : OpenRPC(ok) \/ BackOut(ok) \/ Disconnecting(ok) \/ OpenDebug(ok)
                           \/ StreamingEnabled(ok) \/ TracingEnabled(ok) \/ WaitTrace(ok)
    BY <2>3, OpenRPCKeeps, BackOutKeeps, DisconnectingKeeps, OpenDebugKeeps, StreamingEnabledKeeps,
       TracingEnabledKeeps, WaitTraceKeeps
  <2>4. CASE HwSendRPC \/ ReopenStreaming \/ ReopenTracing \/ RPCAnswered \/ RPCRaises \/ RPCReturns
    BY <2>4, HwSendRPCKeeps, ReopenStreamingKeeps, ReopenTracingKeeps, RPCAnsweredKeeps, RPCRaisesKeeps, RPCReturnsKeeps
  <2>5. CASE EnableStreaming \/ EnableTracing \/ TakeReport \/ AccumulateTrace \/ TraceReturned
    BY <2>5, EnableStreamingKeeps, EnableTracingKeeps, TakeReportKeeps, AccumulateTraceKeeps, TraceReturnedKeeps
  <2> QED
    BY <1>1, <2>1, <2>2, <2>3, <2>4, <2>5 DEF User
<1>2. CASE Device
  BY <1>2, SendsReportKeeps, SendsTraceKeeps, DropKeeps DEF Device
<1>3. CASE Deliver
  BY <1>3, DeliverKeeps
<1>4. CASE UNCHANGED hwVars
  BY <1>4 DEF hwVars, HwInv, HwTypes, ConnectingIsForDevice, QueuesNeedConnection, EntryIsLink, LinksAreFollowed,
              LinkedOrTold, Told, QueuesAreOfTheDevice
<1> QED
  BY <1>1, <1>2, <1>3, <1>4 DEF HwNext

\* What a script finds in its queues was sent by the device that the stream is connected to,
\* and a connection that has ended is noticed or about to be (adapterstream.py, hwmanager.py).
THEOREM StreamsFollowTheirDevice == HwSpec => []StreamFollowsDevice
<1>1. HwInv => StreamFollowsDevice
  <2> SUFFICES ASSUME HwInv PROVE StreamFollowsDevice
    OBVIOUS
  <2>1. QueuesAreOfTheDevice
    BY DEF HwInv
  <2>2. InterruptionsAreNoticed
    BY DEF HwInv, LinksAreFollowed, LinkedOrTold, Told, InterruptionsAreNoticed, HwAt
  <2> QED
    BY <2>1, <2>2 DEF StreamFollowsDevice
<1> QED
  BY HwInitInv, HwNextInv, <1>1, PTL DEF HwSpec
-----------------------------------------------------------------------------

(***************************************************************************)
(* The gateway agent and its clients.                                      *)
(***************************************************************************)

AWNames == {"connect", "disconnect", "open_interface", "rpc", "send_script", "lost", "idle",
            "begin_connection", "finish_connection", "begin_disconnection", "finish_disconnection",
            "begin_operation", "finish_operation", "force_disconnect"}
AWCallType == [kind : AWNames \cup {NULL}, client : AWClients \cup {NULL}, pc : {"idle", "waiting", "returned"},
               ok : BOOLEAN, of : AWCalls \cup {NULL}]
AWAction == [act : AWNames, call : AWCalls \cup {NULL}, ok : BOOLEAN]
AWRecord == [state : {"Connecting", "Idle", "InProgress", "Disconnecting"}, call : AWCalls \cup {NULL}, key : AWCalls \cup {NULL}]
AWCommand == [op : AWNames, call : AWCalls, client : AWClients, key : AWCalls \cup {NULL}, part : {1, 2}]
AWResponse == [op : AWNames, call : AWCalls \cup {NULL}, client : AWClients \cup {NULL}, ok : BOOLEAN]
AWEntryType == [key : AWCalls \cup {NULL}, client : AWClients \cup {NULL}, script : Seq({1, 2})]
AWWork == [op : AWNames, call : AWCalls \cup {NULL}, client : AWClients \cup {NULL}, key : AWCalls \cup {NULL}]

ClientTypes ==
    /\ awCall \in [AWCalls -> AWCallType]
    /\ awTable \in [AWClients -> AWRecord \cup {NULL}]
    /\ awQueue \in [AWClients -> Seq(AWAction)]
    /\ awInbox \in [AWClients -> Seq(AWResponse) \cup {NULL}]
AgentTypes ==
    /\ awCommands \subseteq AWCommand
    /\ awEntry \in AWEntryType \cup {NULL}
    /\ awPending \subseteq AWWork
    /\ awLink \in AWCalls \cup {NULL}
    /\ awDropped \subseteq AWCalls

\* Inductive.
AWInv == ClientTypes /\ AgentTypes /\ AWEntryIsTheLink /\ AWLinkHasEntry

LEMMA AWInitInv == AWInit => AWInv
<1> SUFFICES ASSUME AWInit PROVE AWInv
  OBVIOUS
<1>1. NoCall \in AWCallType
  BY DEF NoCall, AWCallType
<1>2. ClientTypes
  BY <1>1 DEF AWInit, ClientInit, ClientTypes
<1>3. AgentTypes /\ AWEntryIsTheLink /\ AWLinkHasEntry
  BY DEF AWInit, AgentInit, AgentTypes, AWEntryIsTheLink, AWLinkHasEntry
<1> QED
  BY <1>2, <1>3 DEF AWInv
-----------------------------------------------------------------------------
LEMMA MadeTypes ==
  ASSUME ClientTypes, NEW k \in AWCalls, NEW x \in AWClients, NEW kind \in AWNames, NEW pc \in {"waiting", "returned"},
         awCall' = [awCall EXCEPT ![k] = Made(kind, x, pc)]
  PROVE  awCall' \in [AWCalls -> AWCallType]
<1>1. Made(kind, x, pc) \in AWCallType
  BY DEF Made, AWCallType
<1> QED
  BY <1>1 DEF ClientTypes

LEMMA ReturnedTypes ==
  ASSUME ClientTypes, NEW k \in AWCalls \cup {NULL}, NEW ok \in BOOLEAN, NEW of \in AWCalls \cup {NULL},
         awCall' = Returned(k, ok, of)
  PROVE  awCall' \in [AWCalls -> AWCallType]
<1> SUFFICES ASSUME NEW j \in AWCalls PROVE awCall'[j] \in AWCallType
  BY DEF ClientTypes, Returned
<1>1. awCall[j] \in AWCallType
  BY DEF ClientTypes
<1>2. awCall'[j] = awCall[j] \/ awCall'[j] = [kind |-> awCall[j].kind, client |-> awCall[j].client, pc |-> "returned", ok |-> ok, of |-> of]
  BY <1>1 DEF Returned, ClientTypes, AWCallType
<1> QED
  BY <1>1, <1>2 DEF AWCallType

\* What the connection manager can be asked for.
LEMMA RequestTypes ==
  ASSUME NEW k \in AWCalls \cup {NULL}, NEW ok \in BOOLEAN
  PROVE  /\ begin_connection(k) \in AWAction /\ finish_connection(k, ok) \in AWAction
         /\ begin_disconnection(k) \in AWAction /\ finish_disconnection(k, ok) \in AWAction
         /\ begin_operation(k) \in AWAction /\ finish_operation(k, ok) \in AWAction
         /\ unexpected_disconnect(k, ok) \in AWAction
<1>1. \A act \in AWNames, b \in BOOLEAN : Action(act, k, b) \in AWAction
  BY DEF Action, AWAction
<1> QED
  BY <1>1 DEF AWNames, begin_connection, finish_connection, begin_disconnection, finish_disconnection,
     begin_operation, finish_operation, unexpected_disconnect

LEMMA PutTypes ==
  ASSUME ClientTypes, NEW x \in AWClients, NEW action \in AWAction, Put(x, action)
  PROVE  awQueue' \in [AWClients -> Seq(AWAction)]
<1>1. awQueue[x] \in Seq(AWAction)
  BY DEF ClientTypes
<1>2. Append(awQueue[x], action) \in Seq(AWAction)
  BY <1>1
<1>3. awQueue' = [awQueue EXCEPT ![x] = Append(awQueue[x], action)]
  BY DEF Put
<1> QED
  BY <1>2, <1>3 DEF ClientTypes

LEMMA PublishTypes ==
  ASSUME ClientTypes, NEW m \in AWResponse, AWPublish(m)
  PROVE  awInbox' \in [AWClients -> Seq(AWResponse) \cup {NULL}]
<1>1. ASSUME NEW x \in AWClients, awInbox[x] # NULL PROVE Append(awInbox[x], m) \in Seq(AWResponse)
  <2>1. awInbox[x] \in Seq(AWResponse)
    BY <1>1 DEF ClientTypes
  <2> QED
    BY <2>1
<1> QED
  BY <1>1 DEF AWPublish

-----------------------------------------------------------------------------
(* The clients; the agent's entry and link are not theirs.                 *)

LEMMA AgentUndisturbed ==
  ASSUME AWInv, awCommands' \subseteq AWCommand, UNCHANGED <<awEntry, awPending, awLink, awWiped, awDropped>>
  PROVE  AgentTypes' /\ AWEntryIsTheLink' /\ AWLinkHasEntry'
BY DEF AWInv, AgentTypes, AWEntryIsTheLink, AWLinkHasEntry

LEMMA KeyTypes ==
  ASSUME ClientTypes, NEW x \in AWClients
  PROVE  KeyOf(x) \in AWCalls \cup {NULL}
BY DEF ClientTypes, KeyOf, AWRecord

LEMMA AWConnectKeeps ==
  ASSUME AWInv, NEW k \in AWCalls, NEW x \in AWClients, AWConnect(k, x)
  PROVE  AWInv'
<1> USE DEF AWInv
<1>1. awCall' \in [AWCalls -> AWCallType]
  BY MadeTypes DEF AWConnect, AWNames
<1>2. awQueue' \in [AWClients -> Seq(AWAction)]
  <2>1. begin_connection(k) \in AWAction
    BY RequestTypes
  <2> QED
    BY <2>1, PutTypes DEF AWConnect
<1>3. awInbox' \in [AWClients -> Seq(AWResponse) \cup {NULL}]
  <2>1. awInbox' = [awInbox EXCEPT ![x] = IF awInbox[x] = NULL THEN <<>> ELSE awInbox[x]] /\ <<>> \in Seq(AWResponse)
    BY DEF AWConnect
  <2> QED
    BY <2>1 DEF ClientTypes
<1>4. ClientTypes'
  BY <1>1, <1>2, <1>3 DEF ClientTypes, AWConnect
<1>5. Command("connect", k, x, k) \in AWCommand
  BY DEF Command, AWCommand, AWNames
<1>6. awCommands' \subseteq AWCommand
  BY <1>5 DEF AWConnect, AgentTypes
<1> QED
  BY <1>4, <1>6, AgentUndisturbed DEF AWConnect

LEMMA AskKeeps ==
  ASSUME AWInv, NEW k \in AWCalls, NEW x \in AWClients, NEW kind \in AWNames, NEW action \in AWAction,
         NEW commands \in SUBSET AWCommand, Ask(k, x, kind, action, commands)
  PROVE  AWInv'
<1> USE DEF AWInv
<1>1. CASE awTable[x] = NULL
  <2>1. awCall' = [awCall EXCEPT ![k] = Made(kind, x, "returned")] /\ UNCHANGED <<awQueue, awCommands>>
    BY <1>1 DEF Ask
  <2>2. awCall' \in [AWCalls -> AWCallType]
    BY <2>1, MadeTypes
  <2>3. ClientTypes'
    BY <2>1, <2>2 DEF ClientTypes, Ask
  <2> QED
    BY <2>1, <2>3, AgentUndisturbed DEF Ask, AgentTypes
<1>2. CASE awTable[x] # NULL
  <2>1. /\ awCall' = [awCall EXCEPT ![k] = Made(kind, x, "waiting")]
        /\ Put(x, action) /\ awCommands' = awCommands \cup commands
    BY <1>2 DEF Ask
  <2>2. awCall' \in [AWCalls -> AWCallType]
    BY <2>1, MadeTypes
  <2>3. awQueue' \in [AWClients -> Seq(AWAction)]
    BY <2>1, PutTypes
  <2>4. ClientTypes'
    BY <2>2, <2>3 DEF ClientTypes, Ask
  <2>5. awCommands' \subseteq AWCommand
    BY <2>1 DEF AgentTypes
  <2> QED
    BY <2>4, <2>5, AgentUndisturbed DEF Ask
<1> QED
  BY <1>1, <1>2

LEMMA CallersKeep == ASSUME AWInv, Callers PROVE AWInv'
<1>1. PICK k \in AWCalls, x \in AWClients :
        AWConnect(k, x) \/ AWDisconnect(k, x) \/ AWOpenInterface(k, x) \/ AWSendRPC(k, x) \/ AWSendScript(k, x)
  BY DEF Callers
<1>2. ASSUME NEW op \in AWNames PROVE Command(op, k, x, KeyOf(x)) \in AWCommand
  BY KeyTypes DEF AWInv, Command, AWCommand
<1>b. begin_disconnection(k) \in AWAction /\ begin_operation(k) \in AWAction
  BY RequestTypes
<1>3. CASE AWConnect(k, x)
  BY <1>3, AWConnectKeeps
<1>4. CASE AWDisconnect(k, x)
  <2>1. {Command("disconnect", k, x, KeyOf(x))} \in SUBSET AWCommand
    BY <1>2 DEF AWNames
  <2> QED
    BY <1>4, <1>b, <2>1, AskKeeps DEF AWDisconnect, AWNames
<1>5. CASE AWOpenInterface(k, x)
  <2>1. {Command("open_interface", k, x, KeyOf(x))} \in SUBSET AWCommand
    BY <1>2 DEF AWNames
  <2> QED
    BY <1>5, <1>b, <2>1, AskKeeps DEF AWOpenInterface, AWNames
<1>6. CASE AWSendRPC(k, x)
  <2>1. {Command("rpc", k, x, KeyOf(x))} \in SUBSET AWCommand
    BY <1>2 DEF AWNames
  <2> QED
    BY <1>6, <1>b, <2>1, AskKeeps DEF AWSendRPC, AWNames
<1>7. CASE AWSendScript(k, x)
  <2>1. Command("send_script", k, x, KeyOf(x)) \in AWCommand
    BY <1>2 DEF AWNames
  <2>2. \A i \in {1, 2} : [Command("send_script", k, x, KeyOf(x)) EXCEPT !.part = i] \in AWCommand
    BY <2>1 DEF AWCommand
  <2>3. {[Command("send_script", k, x, KeyOf(x)) EXCEPT !.part = i] : i \in {1, 2}} \in SUBSET AWCommand
    BY <2>2
  <2> QED
    BY <1>7, <1>b, <2>3, AskKeeps DEF AWSendScript, AWNames
<1> QED
  BY <1>1, <1>3, <1>4, <1>5, <1>6, <1>7

\* What a round of the connection manager's thread does with its record.
LEMMA SettleTypes ==
  ASSUME ClientTypes, NEW x \in AWClients, NEW r \in AWRecord \cup {NULL}, Settle(x, r)
  PROVE  awTable' \in [AWClients -> AWRecord \cup {NULL}]
BY DEF ClientTypes, Settle

LEMMA HandledTypes ==
  ASSUME ClientTypes, NEW x \in AWClients, NEW a \in AWAction,
         \/ BeginConnection(x, a) \/ FinishConnection(x, a) \/ BeginDisconnection(x, a) \/ FinishDisconnection(x, a)
         \/ BeginOperation(x, a) \/ FinishOperation(x, a) \/ ForceDisconnect(x)
  PROVE  awTable' \in [AWClients -> AWRecord \cup {NULL}] /\ awCall' \in [AWCalls -> AWCallType]
<1> DEFINE Calls == awCall' = awCall \/ \E k \in AWCalls \cup {NULL}, ok \in BOOLEAN, of \in AWCalls \cup {NULL} : awCall' = Returned(k, ok, of)
           Records == awTable' = awTable \/ \E r \in AWRecord \cup {NULL} : Settle(x, r)
<1>a. awTable[x] \in AWRecord \cup {NULL}
  BY DEF ClientTypes
<1>b. a.call \in AWCalls \cup {NULL} /\ a.ok \in BOOLEAN
  BY DEF AWAction
<1>c. ASSUME NEW k \in AWCalls \cup {NULL}, NEW key \in AWCalls \cup {NULL},
             NEW s \in {"Connecting", "Idle", "InProgress", "Disconnecting"}
      PROVE  Record(s, k, key) \in AWRecord
  BY DEF Record, AWRecord
<1>d. StateOf(x) # "Disconnected" => awTable[x].call \in AWCalls \cup {NULL} /\ awTable[x].key \in AWCalls \cup {NULL}
  BY <1>a DEF StateOf, AWRecord
<1>1. ASSUME BeginConnection(x, a) PROVE Calls /\ Records
  BY <1>1, <1>b, <1>c DEF BeginConnection
<1>2. ASSUME FinishConnection(x, a) PROVE Calls /\ Records
  <2>1. StateOf(x) = "Connecting" => /\ Settle(x, IF a.ok THEN Record("Idle", NULL, awTable[x].key) ELSE NULL)
                                     /\ awCall' = Returned(awTable[x].call, a.ok, a.call)
    BY <1>2 DEF FinishConnection
  <2> QED
    BY <1>2, <1>b, <1>c, <1>d, <2>1 DEF FinishConnection
<1>3. ASSUME BeginDisconnection(x, a) PROVE Calls /\ Records
  BY <1>3, <1>b, <1>c, <1>d DEF BeginDisconnection
<1>4. ASSUME FinishDisconnection(x, a) PROVE Calls /\ Records
  BY <1>4, <1>b, <1>c, <1>d DEF FinishDisconnection
<1>5. ASSUME BeginOperation(x, a) PROVE Calls /\ Records
  BY <1>5, <1>b, <1>c, <1>d DEF BeginOperation
<1>6. ASSUME FinishOperation(x, a) PROVE Calls /\ Records
  BY <1>6, <1>b, <1>c, <1>d DEF FinishOperation
<1>7. ASSUME ForceDisconnect(x) PROVE Calls /\ Records
  BY <1>7 DEF ForceDisconnect
<1>8. Calls /\ Records
  BY <1>1, <1>2, <1>3, <1>4, <1>5, <1>6, <1>7
<1>9. awTable' \in [AWClients -> AWRecord \cup {NULL}]
  BY <1>8, SettleTypes DEF ClientTypes
<1>10. awCall' \in [AWCalls -> AWCallType]
  BY <1>8, ReturnedTypes DEF ClientTypes
<1> QED
  BY <1>9, <1>10

LEMMA LoopKeeps ==
  ASSUME AWInv, NEW x \in AWClients, Loop(x)
  PROVE  AWInv'
<1> USE DEF AWInv
<1>1. PICK isLate \in BOOLEAN :
        LET timeouts == IF isLate THEN TimeoutAction(x) ELSE <<>>
            actions == awQueue[x] \o timeouts
            a == Head(actions)
        IN /\ actions # <<>>
           /\ awQueue' = [awQueue EXCEPT ![x] = Tail(actions)]
           /\ \/ BeginConnection(x, a) \/ FinishConnection(x, a) \/ BeginDisconnection(x, a) \/ FinishDisconnection(x, a)
              \/ BeginOperation(x, a) \/ FinishOperation(x, a) \/ ForceDisconnect(x)
           /\ UNCHANGED <<awInbox, agentVars>>
  BY DEF Loop
<1> DEFINE timeouts == IF isLate THEN TimeoutAction(x) ELSE <<>>
           actions == awQueue[x] \o timeouts
<1>2. timeouts \in Seq(AWAction)
  <2>2. TimeoutAction(x) \in {<<finish_connection(NULL, FALSE)>>, <<finish_disconnection(NULL, FALSE)>>,
                              <<finish_operation(NULL, FALSE)>>, <<>>}
    <3>1. CASE StateOf(x) = "Connecting"
      BY <3>1 DEF TimeoutAction
    <3>2. CASE StateOf(x) = "Disconnecting"
      BY <3>2 DEF TimeoutAction
    <3>3. CASE StateOf(x) = "InProgress" /\ awCall[awTable[x].call].kind # "send_script"
      BY <3>3 DEF TimeoutAction
    <3>4. CASE ~(StateOf(x) = "Connecting" \/ StateOf(x) = "Disconnecting" \/ (StateOf(x) = "InProgress" /\ awCall[awTable[x].call].kind # "send_script"))
      BY <3>4 DEF TimeoutAction
    <3> QED
      BY <3>1, <3>2, <3>3, <3>4
  <2>3. /\ finish_connection(NULL, FALSE) \in AWAction
        /\ finish_disconnection(NULL, FALSE) \in AWAction
        /\ finish_operation(NULL, FALSE) \in AWAction
    BY RequestTypes
  <2>a. <<>> \in Seq(AWAction) /\ \A a \in AWAction : <<a>> \in Seq(AWAction)
    OBVIOUS
  <2>4. TimeoutAction(x) \in Seq(AWAction)
    BY <2>2, <2>3, <2>a, Zenon
  <2> QED
    BY <2>4
<1>3. awQueue[x] \in Seq(AWAction)
  BY DEF ClientTypes
<1>4. actions \in Seq(AWAction)
  BY <1>2, <1>3
<1>5. /\ actions # <<>>
      /\ awQueue' = [awQueue EXCEPT ![x] = Tail(actions)]
      /\ \/ BeginConnection(x, Head(actions)) \/ FinishConnection(x, Head(actions)) \/ BeginDisconnection(x, Head(actions))
         \/ FinishDisconnection(x, Head(actions)) \/ BeginOperation(x, Head(actions)) \/ FinishOperation(x, Head(actions))
         \/ ForceDisconnect(x)
      /\ UNCHANGED <<awInbox, agentVars>>
  BY <1>1
<1> HIDE DEF actions
<1>6. Head(actions) \in AWAction /\ Tail(actions) \in Seq(AWAction)
  BY <1>4, <1>5
<1>7. awTable' \in [AWClients -> AWRecord \cup {NULL}] /\ awCall' \in [AWCalls -> AWCallType]
  BY <1>5, <1>6, HandledTypes
<1>8. ClientTypes'
  BY <1>5, <1>6, <1>7 DEF ClientTypes
<1>9. awCommands' \subseteq AWCommand /\ UNCHANGED <<awEntry, awPending, awLink, awWiped, awDropped>>
  BY <1>5 DEF agentVars, AgentTypes
<1> QED
  BY <1>8, <1>9, AgentUndisturbed

LEMMA AWReceiveKeeps ==
  ASSUME AWInv, NEW x \in AWClients, AWReceive(x)
  PROVE  AWInv'
<1> USE DEF AWInv
<1> DEFINE message == Head(awInbox[x])
<1>1. awInbox[x] \in Seq(AWResponse) /\ awInbox[x] # <<>>
  BY DEF AWReceive, ClientTypes
<1>2. message \in AWResponse /\ Tail(awInbox[x]) \in Seq(AWResponse)
  BY <1>1
<1>3. awInbox' \in [AWClients -> Seq(AWResponse) \cup {NULL}]
  <2>1. awInbox' = [awInbox EXCEPT ![x] = Tail(awInbox[x])]
    BY DEF AWReceive
  <2> QED
    BY <1>2, <2>1 DEF ClientTypes
<1>4. awQueue' = awQueue \/ Put(x, Asked(message))
  BY DEF AWReceive
<1>5. message.call \in AWCalls \cup {NULL} /\ message.ok \in BOOLEAN
  BY <1>2 DEF AWResponse
<1> HIDE DEF message
<1>6. awQueue' \in [AWClients -> Seq(AWAction)]
  <2>1. Asked(message) \in AWAction
    BY <1>5, RequestTypes DEF Asked
  <2> QED
    BY <1>4, <2>1, PutTypes DEF ClientTypes
<1>7. UNCHANGED <<awCall, awTable, agentVars>>
  BY DEF AWReceive
<1>8. ClientTypes'
  BY <1>3, <1>6, <1>7 DEF ClientTypes
<1>9. awCommands' \subseteq AWCommand /\ UNCHANGED <<awEntry, awPending, awLink, awWiped, awDropped>>
  BY <1>7 DEF agentVars, AgentTypes
<1> QED
  BY <1>8, <1>9, AgentUndisturbed
-----------------------------------------------------------------------------
(* The agent.                                                              *)

LEMMA ResponseTypes ==
  ASSUME NEW op \in AWNames, NEW k \in AWCalls \cup {NULL}, NEW x \in AWClients \cup {NULL}, NEW ok \in BOOLEAN
  PROVE  Response(op, k, x, ok) \in AWResponse
BY DEF Response, AWResponse

LEMMA AgentTakes ==
  ASSUME AWInv, NEW m \in awCommands, AgentConnects(m) \/ AgentOperates(m) \/ AgentDisconnects(m)
  PROVE  AWInv'
<1> USE DEF AWInv
<1>1. m \in AWCommand /\ m.op \in AWNames /\ m.call \in AWCalls /\ m.client \in AWClients /\ m.key \in AWCalls \cup {NULL}
      /\ m.part \in {1, 2}
  BY DEF AgentTypes, AWCommand
<1>2. awCommands' \subseteq AWCommand
  BY DEF AgentConnects, AgentOperates, AgentDisconnects, Taken, AgentTypes
<1>3. ASSUME NEW op \in AWNames, NEW key \in AWCalls \cup {NULL} PROVE Pending(op, m.call, m.client, key) \in AWWork
  BY <1>1 DEF Pending, AWWork
<1>4. Validated(m) => awEntry # NULL /\ awEntry \in AWEntryType /\ awEntry.key \in AWCalls \cup {NULL}
  BY DEF Validated, AgentTypes, AWEntryType
<1>5. CASE AgentConnects(m)
  <2>1. awPending' \subseteq AWWork
    <3>1. Pending("connect", m.call, m.client, m.key) \in AWWork
      BY <1>1, <1>3 DEF AWNames
    <3>2. awPending' = awPending \/ awPending' = awPending \cup {Pending("connect", m.call, m.client, m.key)}
      BY <1>5 DEF AgentConnects
    <3> QED
      BY <3>1, <3>2 DEF AgentTypes
  <2>2. awInbox' \in [AWClients -> Seq(AWResponse) \cup {NULL}]
    <3>1. Response("connect", m.call, m.client, FALSE) \in AWResponse
      BY <1>1, ResponseTypes DEF AWNames
    <3>2. CASE awEntry # NULL
      BY <1>5, <3>1, <3>2, PublishTypes DEF AgentConnects
    <3>3. CASE awEntry = NULL
      BY <1>5, <3>3 DEF AgentConnects, ClientTypes
    <3> QED
      BY <3>2, <3>3
  <2>3. UNCHANGED <<awCall, awTable, awQueue, awEntry, awLink, awWiped, awDropped>>
    BY <1>5 DEF AgentConnects
  <2> QED
    BY <1>2, <2>1, <2>2, <2>3 DEF ClientTypes, AgentTypes, AWEntryIsTheLink, AWLinkHasEntry
<1>6. CASE AgentOperates(m)
  <2>1. awPending' \subseteq AWWork
    BY <1>1, <1>3, <1>4, <1>6 DEF AgentOperates, AgentTypes
  <2>2. awEntry' = awEntry \/ (/\ awEntry \in AWEntryType /\ awEntry' \in AWEntryType /\ awEntry'.key = awEntry.key
                               /\ awEntry # NULL)
    <3>1. CASE Validated(m) /\ m.op = "send_script"
      <4>1. awEntry' = [awEntry EXCEPT !.script = Append(IF m.part = 1 THEN <<>> ELSE awEntry.script, m.part)]
        BY <1>6, <3>1 DEF AgentOperates
      <4>2. awEntry.script \in Seq({1, 2}) /\ <<>> \in Seq({1, 2})
        BY <1>4, <3>1 DEF AWEntryType
      <4>3. Append(IF m.part = 1 THEN <<>> ELSE awEntry.script, m.part) \in Seq({1, 2})
        BY <1>1, <4>2
      <4> QED
        BY <1>4, <3>1, <4>1, <4>3 DEF AWEntryType
    <3>2. CASE ~(Validated(m) /\ m.op = "send_script")
      BY <1>6, <3>2 DEF AgentOperates
    <3> QED
      BY <3>1, <3>2
  <2>3. awEntry' \in AWEntryType => awEntry' # NULL
    BY AWGatewayAssumption DEF AWEntryType
  <2>4. UNCHANGED <<clientVars, awLink, awWiped, awDropped>>
    BY <1>6 DEF AgentOperates
  <2> QED
    BY <1>2, <2>1, <2>2, <2>3, <2>4 DEF clientVars, ClientTypes, AgentTypes, AWEntryIsTheLink, AWLinkHasEntry
<1>7. CASE AgentDisconnects(m)
  <2>1. awPending' \subseteq AWWork
    BY <1>1, <1>3, <1>4, <1>7 DEF AgentDisconnects, AgentTypes
  <2> QED
    BY <1>2, <1>7, <2>1 DEF AgentDisconnects, clientVars, ClientTypes, AgentTypes, AWEntryIsTheLink, AWLinkHasEntry
<1> QED
  BY <1>5, <1>6, <1>7

LEMMA AgentGoesOn ==
  ASSUME AWInv, NEW p \in awPending, AgentConnected(p) \/ AgentOperated(p) \/ AgentDisconnected(p)
  PROVE  AWInv'
<1> USE DEF AWInv
<1>1. p \in AWWork /\ p.op \in AWNames /\ p.call \in AWCalls \cup {NULL} /\ p.client \in AWClients \cup {NULL}
      /\ p.key \in AWCalls \cup {NULL}
  BY DEF AgentTypes, AWWork
<1>2. awPending' \subseteq AWWork
  BY DEF AgentConnected, AgentOperated, AgentDisconnected, AgentTypes
<1>3. \A op \in AWNames, ok \in BOOLEAN : AWPublish(Response(op, p.call, p.client, ok)) =>
         awInbox' \in [AWClients -> Seq(AWResponse) \cup {NULL}]
  BY <1>1, ResponseTypes, PublishTypes
<1>4. UNCHANGED <<awCall, awTable, awQueue, awCommands, awDropped>>
  BY DEF AgentConnected, AgentOperated, AgentDisconnected
<1>5. CASE AgentConnected(p)
  <2>1. PICK ok \in {FALSE, awLink = NULL} :
          /\ awLink' = IF ok THEN p.key ELSE awLink
          /\ awEntry' = IF ok THEN Entry(p.key, p.client) ELSE NoKey
          /\ awWiped' = (awWiped \/ ~ok)
          /\ AWPublish(Response("connect", p.call, p.client, ok))
    BY <1>5 DEF AgentConnected
  <2>2. ok \in BOOLEAN
    OBVIOUS
  <2>3. Entry(p.key, p.client) \in AWEntryType /\ Entry(p.key, p.client).key = p.key
    BY <1>1 DEF Entry, AWEntryType
  <2>4. NoKey \in AWEntryType /\ NoKey.key = NULL
    BY DEF NoKey, AWEntryType
  <2>5. awEntry' \in AWEntryType /\ awEntry' # NULL /\ (awEntry'.key = NULL \/ awLink' = awEntry'.key)
    <3>1. CASE ok
      BY <2>1, <2>3, <3>1, AWGatewayAssumption DEF AWEntryType
    <3>2. CASE ~ok
      BY <2>1, <2>4, <3>2, AWGatewayAssumption DEF AWEntryType
    <3> QED
      BY <2>2, <3>1, <3>2
  <2>6. awLink' \in AWCalls \cup {NULL}
    BY <1>1, <2>1, <2>2 DEF AgentTypes
  <2> QED
    BY <1>2, <1>3, <1>4, <2>1, <2>2, <2>5, <2>6 DEF ClientTypes, AgentTypes, AWEntryIsTheLink, AWLinkHasEntry, AWNames
<1>6. CASE AgentOperated(p)
  <2>1. PICK ok \in {FALSE, awLink = p.key} : AWPublish(Response(p.op, p.call, p.client, ok))
    BY <1>6 DEF AgentOperated
  <2>2. ok \in BOOLEAN
    OBVIOUS
  <2>3. UNCHANGED <<awEntry, awLink, awWiped>>
    BY <1>6 DEF AgentOperated
  <2> QED
    BY <1>1, <1>2, <1>3, <1>4, <2>1, <2>2, <2>3 DEF ClientTypes, AgentTypes, AWEntryIsTheLink, AWLinkHasEntry
<1>7. CASE AgentDisconnected(p)
  <2>1. PICK ok \in {FALSE, awLink = p.key} :
          /\ awLink' = IF ok THEN NULL ELSE awLink
          /\ awEntry' = IF ok THEN NULL ELSE awEntry
          /\ IF (ok /\ awEntry = NULL) \/ (~ok /\ p.op = "lost") THEN UNCHANGED awInbox
             ELSE AWPublish(Response(p.op, p.call, p.client, ok))
    BY <1>7 DEF AgentDisconnected
  <2>2. ok \in BOOLEAN
    OBVIOUS
  <2>3. awInbox' \in [AWClients -> Seq(AWResponse) \cup {NULL}]
    BY <1>1, <1>3, <2>1, <2>2 DEF ClientTypes
  <2>4. awWiped' = awWiped
    BY <1>7 DEF AgentDisconnected
  <2>5. (awLink' = NULL /\ awEntry' = NULL) \/ (awLink' = awLink /\ awEntry' = awEntry)
    BY <2>1, <2>2
  <2> QED
    BY <1>2, <1>4, <2>3, <2>4, <2>5 DEF ClientTypes, AgentTypes, AWEntryIsTheLink, AWLinkHasEntry
<1> QED
  BY <1>5, <1>6, <1>7

LEMMA AgentHangsUpKeeps == ASSUME AWInv, AgentHangsUp PROVE AWInv'
<1> USE DEF AWInv
<1>1. awEntry \in AWEntryType
  BY DEF AgentHangsUp, AgentTypes
<1>2. Pending("lost", NULL, awEntry.client, awEntry.key) \in AWWork
  BY <1>1 DEF AWEntryType, Pending, AWWork, AWNames
<1> QED
  BY <1>2 DEF AgentHangsUp, clientVars, ClientTypes, AgentTypes, AWEntryIsTheLink, AWLinkHasEntry

\* The entry is for a link that is lost now, or there is no key to look at.
LEMMA AWDeviceDropsKeeps == ASSUME AWInv, AWDeviceDrops PROVE AWInv'
<1> USE DEF AWInv
<1>1. awLink # NULL /\ awLink' = NULL /\ awDropped' = awDropped \cup {awLink}
  BY DEF AWDeviceDrops
<1>2. UNCHANGED <<clientVars, awCommands, awEntry, awPending, awWiped>>
  BY DEF AWDeviceDrops
<1>3. ClientTypes'
  BY <1>2 DEF clientVars, ClientTypes
<1>4. AgentTypes'
  BY <1>1, <1>2 DEF AgentTypes
<1>5. AWEntryIsTheLink'
  BY <1>1, <1>2 DEF AWEntryIsTheLink
<1>6. AWLinkHasEntry'
  BY <1>1 DEF AWLinkHasEntry
<1> QED
  BY <1>3, <1>4, <1>5, <1>6

LEMMA AWNextInv == AWInv /\ [AWNext]_awVars => AWInv'
<1> SUFFICES ASSUME AWInv, [AWNext]_awVars PROVE AWInv'
  OBVIOUS
<1>1. CASE Callers
  BY <1>1, CallersKeep
<1>2. CASE \E x \in AWClients : Loop(x) \/ AWReceive(x)
  BY <1>2, LoopKeeps, AWReceiveKeeps
<1>3. CASE Agent
  BY <1>3, AgentTakes, AgentGoesOn, AgentHangsUpKeeps, AWDeviceDropsKeeps DEF Agent
<1>4. CASE UNCHANGED awVars
  BY <1>4 DEF awVars, AWInv, ClientTypes, AgentTypes, AWEntryIsTheLink, AWLinkHasEntry
<1> QED
  BY <1>1, <1>2, <1>3, <1>4 DEF AWNext

\* Whoever passes the check of the key operates his own connection: the gateway agent's entry
\* for a device is for the key of the device manager's link, or for one that the device has
\* lost by itself while no other has taken its place, and as long as no connect has failed
\* there is no link without an entry (gateway_agent.py).
THEOREM AgentEntriesFollowLinks == AWSpec => []EntriesFollowLinks
<1>1. AWInv => EntriesFollowLinks
  <2> SUFFICES ASSUME AWInv PROVE EntriesFollowLinks
    OBVIOUS
  <2>1. \A k \in AWCalls : awCall[k].pc \in {"idle", "waiting", "returned"} /\ awCall[k].ok \in BOOLEAN
    BY DEF AWInv, ClientTypes, AWCallType
  <2>2. \A x \in AWClients : StateOf(x) \in {"Disconnected", "Connecting", "Idle", "InProgress", "Disconnecting"}
    BY DEF AWInv, ClientTypes, StateOf, AWRecord
  <2>3. awEntry # NULL => awEntry.key \in AWCalls \cup {NULL}
    BY DEF AWInv, AgentTypes, AWEntryType
  <2> QED
    BY <2>1, <2>2, <2>3 DEF AWInv, AgentTypes, EntriesFollowLinks, AWTypeOK
<1> QED
  BY AWInitInv, AWNextInv, <1>1, PTL DEF AWSpec

(***************************************************************************)
(* The BLED112 adapter and its command thread.                             *)
(***************************************************************************)

B112Report == [handle : B112Handles, early : BOOLEAN]
B112Fields == {"conn", "call", "state", "retries", "probed", "failed"}

\* What the steps need to know of the shape of the state.
B112Shape ==
    /\ DOMAIN b112Table = B112Handles /\ DOMAIN b112Link = B112Handles
    /\ b112Events \in Seq(B112Report)
    /\ \A h \in B112Handles : b112Table[h] # NULL => DOMAIN b112Table[h] = B112Fields

\* The dongle reports the end of a connection once.
ReportedOnce ==
    /\ \A h \in B112Handles : Reported(h) => b112Link[h] = NULL
    /\ \A i, j \in DOMAIN b112Events : b112Events[i].handle = b112Events[j].handle => i = j

\* Inductive.
B112Inv == B112Shape /\ ReportedOnce /\ B112IdleMeansLinked

LEMMA B112InitInv == B112Init => B112Inv
BY DEF B112Init, B112Inv, B112Shape, ReportedOnce, Reported, B112IdleMeansLinked
-----------------------------------------------------------------------------
\* Entries are only removed, or they go on being for their connection.
EntriesGoOn ==
    /\ DOMAIN b112Table' = B112Handles
    /\ \A h \in B112Handles : b112Table'[h] # NULL =>
         /\ DOMAIN b112Table'[h] = B112Fields
         /\ b112Table[h] # NULL /\ b112Table'[h].conn = b112Table[h].conn
ThreadGoesOn == b112Thread' = "running" => b112Thread = "running"

LEMMA EntriesGoOnKeeps ==
  ASSUME B112Inv, EntriesGoOn, ThreadGoesOn, UNCHANGED <<b112Link, b112Events>>
  PROVE  B112Inv'
<1>1. B112Shape'
  BY DEF B112Inv, B112Shape, EntriesGoOn
<1>2. ReportedOnce'
  BY DEF B112Inv, ReportedOnce, Reported
<1>3. B112IdleMeansLinked'
  BY DEF B112Inv, B112IdleMeansLinked, Reported, EntriesGoOn, ThreadGoesOn
<1> QED
  BY <1>1, <1>2, <1>3 DEF B112Inv

LEMMA B112CallersKeep == ASSUME B112Inv, B112Callers \/ Periodic \/ B112Take PROVE B112Inv'
<1>1. UNCHANGED <<b112Table, b112Link, b112Events, b112Thread>>
  BY DEF B112Callers, B112StartConnect, B112StartDisconnect, B112OpenRPCInterface, B112OpenStreamingInterface,
         OpenTracingInterface, B112OpenScriptInterface, B112CloseRPCInterface, B112StartRPC, B112StartScript, B112Ask,
         GoOnConnecting, Periodic, B112Take
<1> QED
  BY <1>1, EntriesGoOnKeeps DEF EntriesGoOn, ThreadGoesOn, B112Inv, B112Shape

LEMMA HardwareFailsKeeps == ASSUME B112Inv, HardwareFails PROVE B112Inv'
BY DEF HardwareFails, B112Inv, B112Shape, ReportedOnce, Reported, B112IdleMeansLinked

LEMMA B112DropKeeps ==
  ASSUME B112Inv, NEW h \in B112Handles, NEW early \in BOOLEAN, B112Drop(h, early)
  PROVE  B112Inv'
<1> DEFINE e == [handle |-> h, early |-> early]
<1>1. b112Events \in Seq(B112Report) /\ e \in B112Report /\ e.handle = h
  BY DEF B112Inv, B112Shape, B112Report
<1>2. /\ b112Events' = Append(b112Events, e) /\ b112Link' = [b112Link EXCEPT ![h] = NULL] /\ b112Link[h] # NULL
      /\ UNCHANGED <<b112Table, b112Thread>>
  BY DEF B112Drop
<1> HIDE DEF e
<1>3. /\ b112Events' \in Seq(B112Report) /\ DOMAIN b112Events' = DOMAIN b112Events \cup {Len(b112Events) + 1}
      /\ b112Events'[Len(b112Events) + 1] = e /\ Len(b112Events) + 1 \notin DOMAIN b112Events
      /\ \A i \in DOMAIN b112Events : b112Events'[i] = b112Events[i]
  BY <1>1, <1>2
<1>4. B112Shape'
  BY <1>2, <1>3 DEF B112Inv, B112Shape
<1>5. ReportedOnce'
  <2>1. ~Reported(h)
    BY <1>2 DEF B112Inv, ReportedOnce
  <2>2. \A g \in B112Handles : Reported(g)' => Reported(g) \/ g = h
    BY <1>1, <1>3 DEF Reported
  <2>3. \A g \in B112Handles : Reported(g)' => b112Link'[g] = NULL
    BY <1>2, <2>2 DEF B112Inv, B112Shape, ReportedOnce
  <2>4. \A i, j \in DOMAIN b112Events' : b112Events'[i].handle = b112Events'[j].handle => i = j
    BY <1>1, <1>3, <2>1 DEF B112Inv, ReportedOnce, Reported
  <2> QED
    BY <2>3, <2>4 DEF ReportedOnce
<1>6. B112IdleMeansLinked'
  <2>1. \A g \in B112Handles : Reported(g) \/ g = h => Reported(g)'
    BY <1>1, <1>3 DEF Reported
  <2> QED
    BY <1>2, <2>1 DEF B112Inv, B112Shape, B112IdleMeansLinked
<1> QED
  BY <1>4, <1>5, <1>6 DEF B112Inv

\* The entry of handle h goes, or the thread ends.
EntryIsGone(h) ==
    /\ \/ b112Table' = Removed(b112Table, h)
       \/ b112Table' = b112Table /\ b112Thread' # "running"
    /\ ThreadGoesOn

LEMMA ConnectionFailedRemoves ==
  ASSUME NEW h, NEW d, NEW early, b112Thread = "running", B112ConnectionFailed(h, d, early)
  PROVE  EntryIsGone(h)
BY DEF B112ConnectionFailed, EntryIsGone, ThreadGoesOn

\* The disconnection of handle h has been handled, or it was made; that of the others
\* stays where it is.
LEMMA EntryIsGoneKeeps ==
  ASSUME B112Inv, NEW h, EntryIsGone(h),
         b112Events' \in Seq(B112Report),
         \A i \in DOMAIN b112Events : b112Events[i].handle # h => \E j \in DOMAIN b112Events' : b112Events'[j] = b112Events[i],
         \A i, j \in DOMAIN b112Events' : b112Events'[i].handle = b112Events'[j].handle => i = j,
         \A i \in DOMAIN b112Events' : \E j \in DOMAIN b112Events : b112Events[j] = b112Events'[i],
         b112Link' = b112Link \/ b112Link' = [b112Link EXCEPT ![h] = NULL]
  PROVE  B112Inv'
<1>1. \A g \in B112Handles : g # h /\ Reported(g) => Reported(g)'
  BY DEF Reported
<1>2. \A g \in B112Handles : Reported(g)' => Reported(g)
  BY DEF Reported
<1>3. DOMAIN b112Table' = B112Handles /\ \A g \in B112Handles : b112Table'[g] # NULL => b112Table'[g] = b112Table[g]
  BY DEF EntryIsGone, Removed, B112Inv, B112Shape
<1>4. \A g \in B112Handles : g = h => b112Table'[g] = NULL \/ b112Thread' # "running"
  BY DEF EntryIsGone, Removed, B112Inv, B112Shape
<1>5. DOMAIN b112Link' = B112Handles /\ \A g \in B112Handles : b112Link'[g] = b112Link[g] \/ (g = h /\ b112Link'[g] = NULL)
  BY DEF B112Inv, B112Shape
<1>6. B112Shape'
  BY <1>3, <1>5 DEF B112Inv, B112Shape
<1>7. ReportedOnce'
  BY <1>2, <1>5 DEF B112Inv, ReportedOnce
<1>8. B112IdleMeansLinked'
  BY <1>1, <1>3, <1>4, <1>5 DEF B112Inv, B112IdleMeansLinked, EntryIsGone, ThreadGoesOn
<1> QED
  BY <1>6, <1>7, <1>8 DEF B112Inv

LEMMA UnreportedIsLess ==
  ASSUME B112Inv, NEW h
  PROVE  /\ Unreported(h) \in Seq(B112Report)
         /\ \A i \in DOMAIN b112Events : b112Events[i].handle # h => \E j \in DOMAIN Unreported(h) : Unreported(h)[j] = b112Events[i]
         /\ \A i, j \in DOMAIN Unreported(h) : Unreported(h)[i].handle = Unreported(h)[j].handle => i = j
         /\ \A i \in DOMAIN Unreported(h) : \E j \in DOMAIN b112Events : b112Events[j] = Unreported(h)[i]
<1>1. b112Events \in Seq(B112Report)
  BY DEF B112Inv, B112Shape
<1>2. CASE ~Reported(h)
  <2>1. Unreported(h) = b112Events
    BY <1>2 DEF Unreported
  <2> QED
    BY <1>1, <2>1 DEF B112Inv, ReportedOnce
<1>3. CASE Reported(h)
  <2> DEFINE k == CHOOSE i \in DOMAIN b112Events : b112Events[i].handle = h
             u == SubSeq(b112Events, 1, k - 1) \o SubSeq(b112Events, k + 1, Len(b112Events))
  <2>1. k \in DOMAIN b112Events /\ b112Events[k].handle = h
    BY <1>3 DEF Reported
  <2>2. Unreported(h) = u
    BY <1>3 DEF Unreported
  <2> HIDE DEF k
  <2>3. k \in 1 .. Len(b112Events) /\ k \in Nat /\ Len(b112Events) \in Nat
    BY <1>1, <2>1
  <2> DEFINE p == SubSeq(b112Events, 1, k - 1)
             q == SubSeq(b112Events, k + 1, Len(b112Events))
  <2>a. p \in Seq(B112Report) /\ Len(p) = k - 1 /\ \A j \in 1 .. k - 1 : p[j] = b112Events[j]
    BY <1>1, <2>3
  <2>b. q \in Seq(B112Report) /\ Len(q) = Len(b112Events) - k
    BY <1>1, <2>3
  <2>c. \A j \in 1 .. Len(b112Events) - k : q[j] = b112Events[j + k]
    BY <1>1, <2>3
  <2> HIDE DEF p, q
  <2>d. p \o q \in Seq(B112Report) /\ Len(p \o q) = Len(b112Events) - 1
    <3>1. p \o q \in Seq(B112Report) /\ Len(p \o q) = Len(p) + Len(q)
      BY <2>a, <2>b
    <3>2. Len(p) + Len(q) = Len(b112Events) - 1
      BY <2>3, <2>a, <2>b
    <3> QED
      BY <3>1, <3>2
  <2>e. \A j \in 1 .. Len(b112Events) - 1 : (p \o q)[j] = IF j < k THEN p[j] ELSE q[j - (k - 1)]
    BY <2>3, <2>a, <2>b
  <2>4. u \in Seq(B112Report) /\ Len(u) = Len(b112Events) - 1
    BY <2>d DEF p, q
  <2>f. \A j \in 1 .. Len(b112Events) - 1 : (p \o q)[j] = IF j < k THEN b112Events[j] ELSE b112Events[j + 1]
    <3> SUFFICES ASSUME NEW j \in 1 .. Len(b112Events) - 1
                 PROVE  (p \o q)[j] = IF j < k THEN b112Events[j] ELSE b112Events[j + 1]
      OBVIOUS
    <3>1. CASE j < k
      <4>1. j \in 1 .. k - 1
        BY <2>3, <3>1
      <4> QED
        BY <2>a, <2>e, <3>1, <4>1
    <3>2. CASE ~(j < k)
      <4>1. j - (k - 1) \in 1 .. Len(b112Events) - k /\ (j - (k - 1)) + k = j + 1
        BY <2>3, <3>2
      <4>2. q[j - (k - 1)] = b112Events[j + 1]
        BY <2>c, <4>1
      <4> QED
        BY <2>e, <3>2, <4>2
    <3> QED
      BY <3>1, <3>2
  <2> HIDE DEF u
  <2>g. u = p \o q
    BY DEF u, p, q
  <2>5. \A j \in DOMAIN u : u[j] = IF j < k THEN b112Events[j] ELSE b112Events[j + 1]
    BY <2>3, <2>4, <2>f, <2>g
  <2>6. DOMAIN u = 1 .. (Len(b112Events) - 1) /\ DOMAIN b112Events = 1 .. Len(b112Events)
    BY <1>1, <2>4
  <2>7. \A i \in DOMAIN b112Events : b112Events[i].handle # h => \E j \in DOMAIN u : u[j] = b112Events[i]
    <3> SUFFICES ASSUME NEW i \in DOMAIN b112Events, b112Events[i].handle # h PROVE \E j \in DOMAIN u : u[j] = b112Events[i]
      OBVIOUS
    <3>1. CASE i < k
      <4>1. i \in DOMAIN u /\ u[i] = b112Events[i]
        BY <2>3, <2>5, <2>6, <3>1
      <4> QED
        BY <4>1
    <3>2. CASE i > k
      <4>1. i - 1 \in DOMAIN u /\ ~(i - 1 < k) /\ (i - 1) + 1 = i
        BY <2>3, <2>6, <3>2
      <4> QED
        BY <2>5, <4>1
    <3> QED
      BY <2>1, <2>3, <2>6, <3>1, <3>2
  <2>8. \A j \in DOMAIN u : \E i \in DOMAIN b112Events : b112Events[i] = u[j] /\ i = IF j < k THEN j ELSE j + 1
    BY <2>3, <2>5, <2>6
  <2>9. \A i, j \in DOMAIN u : u[i].handle = u[j].handle => i = j
    <3> SUFFICES ASSUME NEW i \in DOMAIN u, NEW j \in DOMAIN u, u[i].handle = u[j].handle PROVE i = j
      OBVIOUS
    <3>1. (IF i < k THEN i ELSE i + 1) = (IF j < k THEN j ELSE j + 1)
      BY <2>8 DEF B112Inv, ReportedOnce
    <3> QED
      BY <2>3, <2>6, <3>1
  <2> QED
    BY <2>2, <2>4, <2>7, <2>8, <2>9
<1> QED
  BY <1>2, <1>3

-----------------------------------------------------------------------------
LEMMA HandleEventKeeps == ASSUME B112Inv, HandleEvent PROVE B112Inv'
<1> DEFINE e == b112Events[1]
           d == b112Table[e.handle]
<1>1. b112Events \in Seq(B112Report) /\ b112Events # <<>> /\ b112Events' = Tail(b112Events) /\ b112Link' = b112Link
  BY DEF HandleEvent, B112Inv, B112Shape
<1>2. e \in B112Report /\ e.handle \in B112Handles
  <2>1. e \in B112Report
    BY <1>1
  <2> HIDE DEF e
  <2> QED
    BY <2>1 DEF B112Report
<1>3. EntryIsGone(e.handle)
  <2>1. CASE d # NULL /\ d.state = "preparing"
    <3>1. B112ConnectionFailed(e.handle, [d EXCEPT !.failed = TRUE], e.early) /\ b112Thread = "running"
      BY <2>1 DEF HandleEvent
    <3> QED
      BY <3>1, ConnectionFailedRemoves
  <2>2. CASE ~(d # NULL /\ d.state = "preparing")
    BY <2>2 DEF HandleEvent, EntryIsGone, ThreadGoesOn
  <2> QED
    BY <2>1, <2>2
<1>4. b112Events' \in Seq(B112Report) /\ \A i \in DOMAIN b112Events' : i + 1 \in DOMAIN b112Events /\ b112Events'[i] = b112Events[i + 1]
  BY <1>1
<1>5. \A i \in DOMAIN b112Events : i # 1 => i - 1 \in DOMAIN b112Events' /\ b112Events'[i - 1] = b112Events[i]
  BY <1>1
<1>6. \A i, j \in DOMAIN b112Events' : b112Events'[i].handle = b112Events'[j].handle => i = j
  <2> SUFFICES ASSUME NEW i \in DOMAIN b112Events', NEW j \in DOMAIN b112Events', b112Events'[i].handle = b112Events'[j].handle
               PROVE  i = j
    OBVIOUS
  <2>1. i + 1 = j + 1
    BY <1>4 DEF B112Inv, ReportedOnce
  <2>2. i \in Nat /\ j \in Nat
    BY <1>1
  <2> QED
    BY <2>1, <2>2
<1>7. \A i \in DOMAIN b112Events : b112Events[i].handle # e.handle => \E j \in DOMAIN b112Events' : b112Events'[j] = b112Events[i]
  <2> SUFFICES ASSUME NEW i \in DOMAIN b112Events, b112Events[i].handle # e.handle
               PROVE  \E j \in DOMAIN b112Events' : b112Events'[j] = b112Events[i]
    OBVIOUS
  <2>1. i # 1
    OBVIOUS
  <2> QED
    BY <1>5, <2>1
<1>8. \A i \in DOMAIN b112Events' : \E j \in DOMAIN b112Events : b112Events[j] = b112Events'[i]
  BY <1>4
<1> HIDE DEF e
<1> QED
  BY <1>1, <1>3, <1>4, <1>6, <1>7, <1>8, EntryIsGoneKeeps

LEMMA ConnectEndsKeeps ==
  ASSUME B112Inv, NEW ok \in BOOLEAN, ConnectEnds(ok)
  PROVE  B112Inv'
<1>1. CASE ok
  <2>1. PICK h \in B112Handles : /\ b112Link[h] = NULL /\ ~Reported(h)
                                 /\ b112Link' = [b112Link EXCEPT ![h] = b112Cmd.conn]
                                 /\ ConnectionFinished(b112Cmd, h)
    BY <1>1 DEF ConnectEnds
  <2>2. UNCHANGED <<b112Events, b112Thread>>
    BY DEF ConnectEnds
  <2> DEFINE entry == [conn |-> b112Cmd.conn, call |-> b112Cmd.call, state |-> "preparing", retries |-> b112Cmd.left,
                       probed |-> FALSE, failed |-> FALSE]
  <2>3. b112Table' = [b112Table EXCEPT ![h] = entry] /\ DOMAIN entry = B112Fields /\ entry.conn = b112Cmd.conn
    BY <2>1 DEF ConnectionFinished, B112Fields
  <2> HIDE DEF entry
  <2>4. B112Shape'
    BY <2>1, <2>2, <2>3 DEF B112Inv, B112Shape
  <2>5. ReportedOnce'
    BY <2>1, <2>2 DEF B112Inv, B112Shape, ReportedOnce, Reported
  <2>6. B112IdleMeansLinked'
    BY <2>1, <2>2, <2>3 DEF B112Inv, B112Shape, B112IdleMeansLinked, Reported
  <2> QED
    BY <2>4, <2>5, <2>6 DEF B112Inv
<1>2. CASE ~ok
  <2>1. UNCHANGED <<b112Table, b112Link, b112Events, b112Thread>>
    BY <1>2 DEF ConnectEnds
  <2> QED
    BY <2>1, EntriesGoOnKeeps DEF EntriesGoOn, ThreadGoesOn, B112Inv, B112Shape
<1> QED
  BY <1>1, <1>2

LEMMA ScanEndsKeeps ==
  ASSUME B112Inv, NEW ok \in BOOLEAN, ScanEnds(ok)
  PROVE  B112Inv'
<1>1. UNCHANGED <<b112Link, b112Events>> /\ b112Thread = "running"
  BY DEF ScanEnds
<1>2. b112Table' = b112Table \/ b112Table' = [h \in B112Handles |-> NULL]
  BY DEF ScanEnds
<1> QED
  BY <1>1, <1>2, EntriesGoOnKeeps DEF EntriesGoOn, ThreadGoesOn, B112Inv, B112Shape

LEMMA ProbeEndsKeeps ==
  ASSUME B112Inv, NEW cmd, NEW next, NEW ok \in BOOLEAN, ProbeEnds(cmd, next, ok)
  PROVE  B112Inv'
<1> DEFINE h == b112Cmd.handle
<1>1. UNCHANGED <<b112Link, b112Events, b112Thread>>
  BY DEF ProbeEnds
<1>2. CASE b112Table[h] = NULL
  <2>1. b112Table' = b112Table
    BY <1>2 DEF ProbeEnds
  <2> QED
    BY <1>1, <2>1, EntriesGoOnKeeps DEF EntriesGoOn, ThreadGoesOn, B112Inv, B112Shape
<1>3. CASE b112Table[h] # NULL /\ h \in DOMAIN b112Table
  <2>1. PICK p, f : b112Table' = [b112Table EXCEPT ![h] = [[b112Table[h] EXCEPT !.probed = p] EXCEPT !.failed = f]]
    <3> DEFINE t == [b112Table EXCEPT ![h].probed = @ \/ ok, ![h].failed = @ \/ ~ok]
               p == b112Table[h].probed \/ ok
               d == [b112Table[h] EXCEPT !.probed = p]
               f == d.failed \/ ~ok
    <3>1. b112Table' = t
      BY <1>3 DEF ProbeEnds
    <3>2. t = [b112Table EXCEPT ![h] = [d EXCEPT !.failed = f]]
      <4>1. t = [[b112Table EXCEPT ![h] = d] EXCEPT ![h] = [[b112Table EXCEPT ![h] = d][h] EXCEPT !.failed = [b112Table EXCEPT ![h] = d][h].failed \/ ~ok]]
        BY Zenon
      <4>2. [b112Table EXCEPT ![h] = d][h] = d
        BY <1>3
      <4>3. t = [[b112Table EXCEPT ![h] = d] EXCEPT ![h] = [d EXCEPT !.failed = f]]
        BY <4>1, <4>2
      <4> HIDE DEF t, d, f
      <4> QED
        BY <4>3
    <3> QED
      BY <3>1, <3>2, Zenon
  <2> HIDE DEF h
  <2>2. EntriesGoOn
    BY <1>3, <2>1 DEF EntriesGoOn, B112Inv, B112Shape, B112Fields
  <2> QED
    BY <1>1, <2>2, EntriesGoOnKeeps DEF ThreadGoesOn
<1>4. CASE b112Table[h] # NULL /\ h \notin DOMAIN b112Table
  <2> DEFINE p == b112Table[h].probed \/ ok
             f == b112Table[h].failed \/ ~ok
  <2>1. b112Table' = [b112Table EXCEPT ![h].probed = p, ![h].failed = f]
    BY <1>4 DEF ProbeEnds
  <2> HIDE DEF h, p, f
  <2>2. DOMAIN b112Table' = DOMAIN b112Table /\ \A g \in DOMAIN b112Table : b112Table'[g] = b112Table[g]
    BY <1>4, <2>1
  <2>3. EntriesGoOn
    BY <2>2 DEF EntriesGoOn, B112Inv, B112Shape
  <2> QED
    BY <1>1, <2>3, EntriesGoOnKeeps DEF ThreadGoesOn
<1> QED
  BY <1>2, <1>3, <1>4

LEMMA FinishConnectionGoesOn ==
  ASSUME B112Inv, b112Thread = "running", NEW h, B112FinishConnection(h)
  PROVE  EntriesGoOn /\ ThreadGoesOn
<1>1. b112Table' = b112Table \/ b112Table' = [b112Table EXCEPT ![h].state = "connected"]
  BY DEF B112FinishConnection
<1>2. CASE b112Table' = [b112Table EXCEPT ![h] = [b112Table[h] EXCEPT !.state = "connected"]] /\ b112Table[h] # NULL
  BY <1>2 DEF EntriesGoOn, ThreadGoesOn, B112Inv, B112Shape, B112Fields
<1>3. CASE b112Table' = b112Table
  BY <1>3 DEF EntriesGoOn, ThreadGoesOn, B112Inv, B112Shape
<1>4. b112Table' # b112Table => b112Table[h] # NULL
  BY DEF B112FinishConnection
<1> QED
  BY <1>1, <1>2, <1>3, <1>4

LEMMA CheckEndsKeeps ==
  ASSUME B112Inv, NEW ok \in BOOLEAN, CheckEnds(ok)
  PROVE  B112Inv'
<1>1. UNCHANGED <<b112Link, b112Events>> /\ b112Thread = "running"
  BY DEF CheckEnds, Executing
<1>2. CASE B112FinishConnection(b112Cmd.handle)
  BY <1>1, <1>2, FinishConnectionGoesOn, EntriesGoOnKeeps
<1>3. CASE UNCHANGED <<b112Table, b112Thread>>
  BY <1>1, <1>3, EntriesGoOnKeeps DEF EntriesGoOn, ThreadGoesOn, B112Inv, B112Shape
<1> QED
  BY <1>2, <1>3 DEF CheckEnds

LEMMA AuthenticationEndsKeeps ==
  ASSUME B112Inv, NEW ok \in BOOLEAN, AuthenticationEnds(ok)
  PROVE  B112Inv'
<1>1. UNCHANGED <<b112Link, b112Events>> /\ b112Thread = "running"
  BY DEF AuthenticationEnds, Executing
<1>2. CASE ok
  <2>1. B112FinishConnection(b112Cmd.handle)
    BY <1>2 DEF AuthenticationEnds
  <2> QED
    BY <1>1, <2>1, FinishConnectionGoesOn, EntriesGoOnKeeps
<1>3. CASE ~ok
  <2>1. b112Table' = [h \in B112Handles |-> IF h = b112Cmd.handle /\ b112Table[h] # NULL
                                            THEN [b112Table[h] EXCEPT !.failed = TRUE] ELSE b112Table[h]]
        /\ b112Thread' = b112Thread
    BY <1>3 DEF AuthenticationEnds
  <2>2. EntriesGoOn
    BY <2>1 DEF EntriesGoOn, B112Inv, B112Shape, B112Fields
  <2> QED
    BY <1>1, <2>1, <2>2, EntriesGoOnKeeps DEF ThreadGoesOn
<1> QED
  BY <1>2, <1>3

LEMMA DisconnectEndsKeeps ==
  ASSUME B112Inv, NEW ok \in BOOLEAN, DisconnectEnds(ok)
  PROVE  B112Inv'
<1> DEFINE h == b112Cmd.handle
<1>1. b112Thread = "running" /\ B112Disconnected(b112Cmd, ok)
  BY DEF DisconnectEnds, Executing
<1>2. EntryIsGone(h)
  <2>1. CASE b112Cmd.call = NULL
    BY <1>1, <2>1, ConnectionFailedRemoves DEF B112Disconnected
  <2>2. CASE b112Cmd.call # NULL
    BY <1>1, <2>2 DEF B112Disconnected, EntryIsGone, ThreadGoesOn
  <2> QED
    BY <2>1, <2>2
<1>3. CASE ok
  <2>1. b112Link' = [b112Link EXCEPT ![h] = NULL] /\ b112Events' = Unreported(h)
    BY <1>3 DEF DisconnectEnds
  <2> HIDE DEF h
  <2>2. /\ b112Events' \in Seq(B112Report)
        /\ \A i \in DOMAIN b112Events : b112Events[i].handle # h => \E j \in DOMAIN b112Events' : b112Events'[j] = b112Events[i]
        /\ \A i, j \in DOMAIN b112Events' : b112Events'[i].handle = b112Events'[j].handle => i = j
        /\ \A i \in DOMAIN b112Events' : \E j \in DOMAIN b112Events : b112Events[j] = b112Events'[i]
    BY <2>1, UnreportedIsLess
  <2> QED
    BY <1>2, <2>1, <2>2, EntryIsGoneKeeps
<1>4. CASE ~ok
  <2>1. b112Link' = b112Link /\ b112Events' = b112Events
    BY <1>4 DEF DisconnectEnds
  <2> HIDE DEF h
  <2> QED
    BY <1>2, <2>1, EntryIsGoneKeeps DEF B112Inv, B112Shape, ReportedOnce
<1> QED
  BY <1>3, <1>4

LEMMA RPCDisconnectsKeeps == ASSUME B112Inv, RPCDisconnects PROVE B112Inv'
<1> DEFINE h == b112Cmd.handle
<1>1. b112Table' = Removed(b112Table, h) /\ b112Events' = Unreported(h) /\ UNCHANGED <<b112Link, b112Thread>>
  BY DEF RPCDisconnects
<1>2. EntryIsGone(h)
  BY <1>1 DEF EntryIsGone, ThreadGoesOn
<1> HIDE DEF h
<1> QED
  BY <1>1, <1>2, UnreportedIsLess, EntryIsGoneKeeps

LEMMA OperationsKeep ==
  ASSUME B112Inv, NEW ok \in BOOLEAN, InterfaceEnds(ok) \/ RPCEnds(ok) \/ B112ScriptEnds(ok)
  PROVE  B112Inv'
<1>1. UNCHANGED <<b112Table, b112Link, b112Events, b112Thread>>
  BY DEF InterfaceEnds, RPCEnds, B112ScriptEnds
<1> QED
  BY <1>1, EntriesGoOnKeeps DEF EntriesGoOn, ThreadGoesOn, B112Inv, B112Shape

LEMMA B112NextInv == B112Inv /\ [B112Next]_b112Vars => B112Inv'
<1> SUFFICES ASSUME B112Inv, [B112Next]_b112Vars PROVE B112Inv'
  OBVIOUS
<1>1. CASE B112Callers \/ Periodic \/ B112Take
  BY <1>1, B112CallersKeep
<1>2. CASE HardwareFails
  BY <1>2, HardwareFailsKeeps
<1>3. CASE B112Drops
  BY <1>3, B112DropKeeps DEF B112Drops
<1>4. CASE HandleEvent
  BY <1>4, HandleEventKeeps
<1>5. CASE CommandEnds
  <2>1. CASE RPCDisconnects
    BY <2>1, RPCDisconnectsKeeps
  <2>2. ASSUME NEW ok \in BOOLEAN,
               \/ ScanEnds(ok) \/ ConnectEnds(ok) \/ ServicesProbed(ok) \/ CharacteristicsProbed(ok) \/ CheckEnds(ok)
               \/ AuthenticationEnds(ok) \/ DisconnectEnds(ok) \/ InterfaceEnds(ok) \/ RPCEnds(ok) \/ B112ScriptEnds(ok)
        PROVE  B112Inv'
    BY <2>2, ScanEndsKeeps, ConnectEndsKeeps, ProbeEndsKeeps, CheckEndsKeeps, AuthenticationEndsKeeps, DisconnectEndsKeeps,
       OperationsKeep DEF ServicesProbed, CharacteristicsProbed
  <2> QED
    BY <1>5, <2>1, <2>2 DEF CommandEnds
<1>6. CASE UNCHANGED b112Vars
  BY <1>6, EntriesGoOnKeeps DEF b112Vars, EntriesGoOn, ThreadGoesOn, B112Inv, B112Shape
<1> QED
  BY <1>1, <1>2, <1>3, <1>4, <1>5, <1>6 DEF B112Next

\* What the adapter lists under a handle is the connection that the dongle has there, unless
\* its end has been reported and not been handled yet (bled112.py, _handle_event).
THEOREM ListedConnectionsAreLinked == B112Spec => []B112IdleMeansLinked
<1>1. B112Inv => B112IdleMeansLinked
  BY DEF B112Inv
<1> QED
  BY B112InitInv, B112NextInv, <1>1, PTL DEF B112Spec

(***************************************************************************)
(* PacketQueue: the messages of a topic, put in order again.               *)
(***************************************************************************)

LEMMA LeastNat ==
  ASSUME NEW T \in SUBSET Nat, T # {}
  PROVE  \E x \in T : \A y \in T : x <= y
<1> DEFINE F == {0 .. x : x \in T}
           R == StrictSubsetOrdering(Nat)
<1>1. F \subseteq FiniteSubsetsOf(Nat) /\ F # {}
  <2>1. \A x \in T : 0 .. x \in SUBSET Nat /\ IsFiniteSet(0 .. x)
    BY FS_Interval
  <2> QED
    BY <2>1 DEF FiniteSubsetsOf
<1>2. IsWellFoundedOn(R, FiniteSubsetsOf(Nat))
  BY FS_StrictSubsetOrderingWellFounded
<1> HIDE DEF R, F
<1>3. PICK A \in F : \A B \in F : ~ (<<B, A>> \in R)
  BY <1>1, <1>2, WFMin
<1>4. PICK x \in T : A = 0 .. x
  BY DEF F
<1>5. ASSUME NEW y \in T, y < x PROVE FALSE
  <2>1. 0 .. y \in F /\ 0 .. y \subseteq 0 .. x /\ x \in 0 .. x /\ x \notin 0 .. y
    BY <1>5 DEF F
  <2>2. <<0 .. y, 0 .. x>> \in (SUBSET Nat) \X (SUBSET Nat) /\ 0 .. y # 0 .. x
    BY <2>1
  <2>3. <<0 .. y, 0 .. x>> \in R
    BY <2>1, <2>2 DEF R, StrictSubsetOrdering
  <2> QED
    BY <1>3, <1>4, <2>1, <2>3
<1> QED
  BY <1>5


LEMMA Inserted ==
  ASSUME NEW S, NEW q \in Seq(S), NEW k \in 1 .. (Len(q) + 1), NEW n \in S
  PROVE  /\ InsertAt(q, k, n) \in Seq(S) /\ Len(InsertAt(q, k, n)) = Len(q) + 1
         /\ \A j \in 1 .. (Len(q) + 1) :
                InsertAt(q, k, n)[j] = IF j = k THEN n ELSE IF j < k THEN q[j] ELSE q[j - 1]
<1> DEFINE a == SubSeq(q, 1, k - 1)
           b == SubSeq(q, k, Len(q))
           d == a \o <<n>>
<1>1. /\ a \in Seq(S) /\ Len(a) = k - 1 /\ \A j \in 1 .. (k - 1) : a[j] = q[j]
      /\ b \in Seq(S) /\ Len(b) = Len(q) - k + 1 /\ \A j \in 1 .. (Len(q) - k + 1) : b[j] = q[k + j - 1]
  OBVIOUS
<1> HIDE DEF a, b
<1>2. /\ d \in Seq(S) /\ Len(d) = k
      /\ \A j \in 1 .. k : d[j] = IF j = k THEN n ELSE a[j]
  BY <1>1
<1> HIDE DEF d
<1>5. d \in Seq(S) /\ Len(d) = k
  BY <1>2
<1>3. d \o b \in Seq(S) /\ Len(d \o b) = Len(q) + 1
      /\ \A j \in 1 .. (Len(q) + 1) : (d \o b)[j] = IF j <= k THEN d[j] ELSE b[j - k]
  <2>1. d \o b \in Seq(S) /\ Len(d \o b) = Len(d) + Len(b)
        /\ \A j \in 1 .. Len(d) + Len(b) : (d \o b)[j] = IF j <= Len(d) THEN d[j] ELSE b[j - Len(d)]
    BY <1>1, <1>5, ConcatProperties
  <2>2. Len(d) + Len(b) = Len(q) + 1
    BY <1>1, <1>2
  <2> QED
    BY <1>2, <2>1, <2>2
<1>4. ASSUME NEW j \in 1 .. (Len(q) + 1)
      PROVE  (d \o b)[j] = IF j = k THEN n ELSE IF j < k THEN q[j] ELSE q[j - 1]
  <2>1. CASE j <= k
    <3>1. j \in 1 .. k /\ (j # k => j < k /\ j \in 1 .. (k - 1))
      BY <2>1
    <3> QED
      BY <1>1, <1>2, <1>3, <2>1, <3>1
  <2>2. CASE ~(j <= k)
    <3>1. j - k \in 1 .. (Len(q) - k + 1) /\ k + (j - k) - 1 = j - 1 /\ j # k /\ ~(j < k)
      BY <2>2
    <3> QED
      BY <1>1, <1>3, <2>2, <3>1
  <2> QED
    BY <2>1, <2>2
<1>6. InsertAt(q, k, n) = d \o b
  BY DEF InsertAt, a, b, d
<1> QED
  BY <1>3, <1>4, <1>6
\* The queue is in order.
Ascends(q) == \A i, j \in 1 .. Len(q) : i < j => q[i] <= q[j]

\* How many messages go before seq.
PlaceOf(q, seq, n) == n \in 0 .. Len(q) /\ \A i \in 1 .. Len(q) : q[i] <= seq <=> i <= n

LEMMA PlaceExists ==
  ASSUME NEW q \in Seq(Nat), Ascends(q), NEW seq \in Nat
  PROVE  \E n : PlaceOf(q, seq, n)
<1> DEFINE T == {i \in 1 .. Len(q) : seq < q[i]}
<1>1. Len(q) \in Nat /\ \A i \in 1 .. Len(q) : q[i] \in Nat
  OBVIOUS
<1>2. CASE T = {}
  <2>1. \A i \in 1 .. Len(q) : q[i] <= seq /\ i <= Len(q)
    BY <1>1, <1>2
  <2> QED
    BY <1>1, <2>1 DEF PlaceOf
<1>3. CASE T # {}
  <2>1. T \in SUBSET Nat
    BY <1>1
  <2>2. PICK x \in T : \A y \in T : x <= y
    <3> HIDE DEF T
    <3> QED
      BY <1>3, <2>1, LeastNat
  <2>3. x \in 1 .. Len(q) /\ x - 1 \in 0 .. Len(q) /\ seq < q[x]
    BY <1>1, <2>2
  <2>4. ASSUME NEW i \in 1 .. Len(q) PROVE q[i] <= seq <=> i <= x - 1
    <3>1. CASE i < x
      <4>1. i \notin T
        BY <1>1, <2>2, <2>3, <3>1
      <4> QED
        BY <1>1, <2>3, <3>1, <4>1
    <3>2. CASE i = x
      BY <1>1, <2>3, <3>2
    <3>3. CASE i > x
      <4>1. q[x] <= q[i]
        BY <2>3, <3>3 DEF Ascends
      <4> QED
        BY <1>1, <2>3, <3>3, <4>1
    <3> QED
      BY <1>1, <2>3, <3>1, <3>2, <3>3
  <2> QED
    BY <2>3, <2>4 DEF PlaceOf
<1> QED
  BY <1>2, <1>3

\* seq in its place among the messages of q, after the first n.
IsPlaced(r, q, seq, n) ==
    /\ r \in Seq(Nat) /\ Len(r) = Len(q) + 1
    /\ \A j \in 1 .. (Len(q) + 1) : r[j] = IF j = n + 1 THEN seq ELSE IF j < n + 1 THEN q[j] ELSE q[j - 1]

LEMMA SortedIs ==
  ASSUME NEW q \in Seq(Nat), Ascends(q), NEW seq \in Nat
  PROVE  \E n : PlaceOf(q, seq, n) /\ IsPlaced(Sorted(q, seq), q, seq, n)
<1> DEFINE n == CHOOSE n \in 0 .. Len(q) : \A i \in 1 .. Len(q) : q[i] <= seq <=> i <= n
<1>1. PlaceOf(q, seq, n)
  BY PlaceExists DEF PlaceOf
<1>2. Sorted(q, seq) = InsertAt(q, n + 1, seq)
  BY DEF Sorted
<1> HIDE DEF n
<1>3. PICK k : k = n + 1
  OBVIOUS
<1>4. k \in 1 .. (Len(q) + 1)
  BY <1>1, <1>3 DEF PlaceOf
<1>5. PICK S : S = Nat
  OBVIOUS
<1>6. q \in Seq(S) /\ seq \in S
  BY <1>5
<1>7. InsertAt(q, k, seq) \in Seq(S) /\ Len(InsertAt(q, k, seq)) = Len(q) + 1
  BY <1>4, <1>6, Inserted
<1>8. ASSUME NEW j \in 1 .. (Len(q) + 1)
      PROVE  InsertAt(q, k, seq)[j] = IF j = k THEN seq ELSE IF j < k THEN q[j] ELSE q[j - 1]
  BY <1>4, <1>6, Inserted
<1> QED
  BY <1>1, <1>2, <1>3, <1>5, <1>7, <1>8 DEF IsPlaced

\* The n messages at the front of q are the next ones after expected.
IsReady(q, expected, n) ==
    /\ n \in 0 .. Len(q)
    /\ \A i \in 1 .. n : q[i] = (IF expected = NULL THEN q[1] ELSE expected) + i - 1

\* ... and the one behind them is not.
IsLongest(q, expected, n) ==
    /\ IsReady(q, expected, n)
    /\ n < Len(q) => q[n + 1] # (IF expected = NULL THEN q[1] ELSE expected) + n

LEMMA LongestIs ==
  ASSUME NEW q \in Seq(Nat), pqNext \in Nat \cup {NULL}
  PROVE  IsLongest(q, pqNext, Longest(q))
<1> DEFINE R == Ready(q)
           T == {t \in 0 .. Len(q) : Len(q) - t \in R}
           first == IF pqNext = NULL THEN q[1] ELSE pqNext
<1>1. Len(q) \in Nat /\ R \subseteq 0 .. Len(q) /\ 0 \in R
  BY DEF Ready
<1>2. T \in SUBSET Nat /\ Len(q) \in T
  <2>1. Len(q) - Len(q) = 0 /\ Len(q) \in 0 .. Len(q)
    BY <1>1
  <2> QED
    BY <1>1, <2>1
<1>3. PICK x \in T : \A y \in T : x <= y
  <2> HIDE DEF T
  <2> QED
    BY <1>2, LeastNat
<1>4. \A m \in R : m <= Len(q) - x
  <2> SUFFICES ASSUME NEW m \in R PROVE m <= Len(q) - x
    OBVIOUS
  <2>1. Len(q) - m \in 0 .. Len(q) /\ Len(q) - (Len(q) - m) = m
    BY <1>1
  <2>2. Len(q) - m \in T
    BY <2>1
  <2> QED
    BY <1>1, <1>2, <1>3, <2>1, <2>2
<1>5. Len(q) - x \in R
  BY <1>3
<1>6. Longest(q) \in R /\ \A m \in R : m <= Longest(q)
  <2> HIDE DEF T
  <2> QED
    BY <1>4, <1>5 DEF Longest
<1>7. PICK n : n = Longest(q)
  OBVIOUS
<1>8. n \in 0 .. Len(q) /\ \A i \in 1 .. n : q[i] = first + i - 1
  BY <1>6, <1>7 DEF Ready
<1>9. ASSUME n < Len(q), q[n + 1] = first + n PROVE FALSE
  <2>1. n + 1 \in 0 .. Len(q) /\ n \in Nat
    BY <1>1, <1>8, <1>9
  <2>2. ASSUME NEW i \in 1 .. (n + 1) PROVE q[i] = first + i - 1
    <3>1. CASE i \in 1 .. n
      BY <1>8, <3>1
    <3>2. CASE i = n + 1
      <4>1. first \in Nat
        <5>1. 1 \in 1 .. Len(q)
          BY <1>1, <2>1
        <5> QED
          BY <5>1
      <4> QED
        BY <1>9, <2>1, <3>2, <4>1
    <3> QED
      BY <2>1, <3>1, <3>2
  <2>3. n + 1 \in R
    BY <2>1, <2>2 DEF Ready
  <2> QED
    BY <1>6, <1>7, <2>1, <2>3
<1> QED
  BY <1>7, <1>8, <1>9 DEF IsLongest, IsReady

PQTypes ==
    /\ pqSent \in Nat
    /\ pqAir \subseteq {s \in Nat : s < pqSent}
    /\ pqWaiting \in Seq(Nat)
    /\ pqNext \in Nat \cup {NULL}
    /\ pqBudget \in [repeats : Nat, resets : Nat, raises : Nat]
    /\ pqBudget.repeats <= PQRepeats /\ pqBudget.resets <= PQResets

\* What was given to the callback ends with the message before the next one.
IsGiven(got, expected) ==
    /\ got \in Seq(Nat)
    /\ got = <<>> <=> expected = NULL
    /\ got # <<>> => got[Len(got)] + 1 = expected
    /\ \A i \in 1 .. Len(got) - 1 : got[i + 1] = got[i] + 1

\* No message is in the queue twice.
Once(q) == \A i, j \in 1 .. Len(q) : i < j => q[i] # q[j]

\* While every message has arrived at most once and the numbering was not started again:
\* what waits is later than the next one, or the next one itself at which the callback raised;
\* each waits once and is not under way, and every message from the next one on is under way or waits.
IsOrderly(sent, air, q, expected, raised) ==
    /\ Once(q)
    /\ \A i \in 1 .. Len(q) : q[i] \notin air /\ q[i] < sent
    /\ expected = NULL /\ ~raised => q = <<>>
    /\ expected # NULL => expected <= sent
    /\ expected # NULL => \A i \in 1 .. Len(q) : q[i] >= expected /\ (~raised => q[i] > expected)
    /\ \A s \in Nat : s < sent /\ (expected # NULL => expected <= s) => s \in air \/ \E i \in 1 .. Len(q) : q[i] = s

Untouched == pqBudget.repeats = PQRepeats /\ pqBudget.resets = PQResets

PQInv ==
    /\ PQTypes
    /\ Ascends(pqWaiting)
    /\ IsGiven(pqGot, pqNext)
    /\ Untouched => IsOrderly(pqSent, pqAir, pqWaiting, pqNext, pqRaised)

\* The n messages at the front of q are given to the callback.
Gives(q, n, got, rest, next, got2, next2) ==
    /\ got2 = got \o SubSeq(q, 1, n)
    /\ rest = SubSeq(q, n + 1, Len(q))
    /\ next2 = IF n = 0 THEN next ELSE q[n] + 1

LEMMA GivenGoesOn ==
  ASSUME NEW q \in Seq(Nat), NEW next \in Nat \cup {NULL}, NEW n, IsReady(q, next, n), Len(q) > 0,
         NEW got, IsGiven(got, next), NEW rest, NEW got2, NEW next2, Gives(q, n, got, rest, next, got2, next2)
  PROVE  IsGiven(got2, next2) /\ next2 \in Nat \cup {NULL}
<1>1. /\ n \in 0 .. Len(q) /\ Len(q) \in Nat
      /\ \A i \in 1 .. n : q[i] = (IF next = NULL THEN q[1] ELSE next) + i - 1
  BY DEF IsReady
<1>2. /\ got \in Seq(Nat) /\ (got = <<>> <=> next = NULL) /\ (got # <<>> => got[Len(got)] + 1 = next)
      /\ \A i \in 1 .. Len(got) - 1 : got[i + 1] = got[i] + 1
  BY DEF IsGiven
<1>3. got2 = got \o SubSeq(q, 1, n) /\ next2 = IF n = 0 THEN next ELSE q[n] + 1
  BY DEF Gives
<1>4. CASE n = 0
  <2>1. SubSeq(q, 1, n) = <<>>
    BY <1>1, <1>4
  <2>2. got2 = got /\ next2 = next
    BY <1>2, <1>3, <1>4, <2>1, ConcatEmptySeq
  <2> QED
    BY <2>2
<1>5. CASE n # 0
  <2>1. PICK p : p = SubSeq(q, 1, n)
    OBVIOUS
  <2>2. p \in Seq(Nat) /\ Len(p) = n /\ \A i \in 1 .. n : p[i] = q[i]
    BY <1>1, <2>1
  <2>3. /\ got2 \in Seq(Nat) /\ Len(got2) = Len(got) + n
        /\ \A i \in 1 .. Len(got2) : got2[i] = IF i <= Len(got) THEN got[i] ELSE p[i - Len(got)]
    <3>1. got2 = got \o p
      BY <1>3, <2>1
    <3> QED
      BY <1>2, <2>2, <3>1, ConcatProperties
  <2>4. n \in 1 .. n /\ n > 0 /\ n \in Nat /\ Len(got) \in Nat /\ Len(got2) = Len(got) + n
    BY <1>1, <1>2, <1>5, <2>3
  <2>5. got2[Len(got2)] = q[n]
    <3>1. Len(got2) \in 1 .. Len(got2) /\ ~(Len(got2) <= Len(got)) /\ Len(got2) - Len(got) = n
      BY <2>4
    <3> QED
      BY <2>2, <2>3, <2>4, <3>1
  <2>6. next2 = q[n] + 1 /\ q[n] \in Nat
    BY <1>1, <1>3, <1>5
  <2>7. got2 # <<>>
    BY <2>4
  <2>8. next2 \in Nat /\ next2 # NULL
    BY <2>6, PQAssumption
  <2>9. ASSUME NEW i \in 1 .. Len(got2) - 1 PROVE got2[i + 1] = got2[i] + 1
    <3>1. i \in Nat /\ i >= 1 /\ i \in 1 .. Len(got2) /\ i + 1 \in 1 .. Len(got2)
      BY <2>4
    <3>2. CASE i < Len(got)
      <4>1. i \in 1 .. Len(got) - 1 /\ i <= Len(got) /\ i + 1 <= Len(got)
        BY <2>4, <3>1, <3>2
      <4> QED
        BY <1>2, <2>3, <3>1, <4>1
    <3>3. CASE i = Len(got)
      <4>1. got # <<>> /\ next = got[Len(got)] + 1 /\ next # NULL
        BY <1>2, <2>4, <3>1, <3>3
      <4>2. i <= Len(got) /\ ~(i + 1 <= Len(got)) /\ (i + 1) - Len(got) = 1 /\ 1 \in 1 .. n
        BY <2>4, <3>1, <3>3
      <4>3. got2[i] = got[i] /\ got2[i + 1] = p[1]
        BY <2>3, <3>1, <4>2
      <4>4. p[1] = next + 1 - 1
        BY <1>1, <2>2, <4>1, <4>2
      <4>5. p[1] = next
        BY <4>1, <4>4
      <4> QED
        BY <3>3, <4>1, <4>3, <4>5
    <3>4. CASE i > Len(got)
      <4>1. PICK k : k = i - Len(got)
        OBVIOUS
      <4>2. k \in 1 .. n /\ k + 1 \in 1 .. n /\ (i + 1) - Len(got) = k + 1 /\ ~(i <= Len(got)) /\ ~(i + 1 <= Len(got))
        BY <2>4, <3>1, <3>4, <4>1
      <4>3. got2[i] = q[k] /\ got2[i + 1] = q[k + 1]
        BY <2>2, <2>3, <3>1, <4>1, <4>2
      <4>4. PICK first : first = IF next = NULL THEN q[1] ELSE next
        OBVIOUS
      <4>5. first \in Nat
        <5>1. 1 \in 1 .. Len(q)
          BY <1>1, <2>4
        <5> QED
          BY <4>4, <5>1
      <4>6. q[k] = first + k - 1 /\ q[k + 1] = first + (k + 1) - 1
        BY <1>1, <4>2, <4>4
      <4> QED
        BY <4>2, <4>3, <4>5, <4>6
    <3> QED
      BY <2>4, <3>1, <3>2, <3>3, <3>4
  <2> QED
    BY <2>3, <2>5, <2>6, <2>7, <2>8, <2>9 DEF IsGiven
<1> QED
  BY <1>4, <1>5

LEMMA RestAscends ==
  ASSUME NEW q \in Seq(Nat), NEW n \in 0 .. Len(q), Ascends(q), NEW rest, rest = SubSeq(q, n + 1, Len(q))
  PROVE  /\ rest \in Seq(Nat) /\ Len(rest) = Len(q) - n /\ \A i \in 1 .. Len(q) - n : rest[i] = q[n + i]
         /\ Ascends(rest)
<1>1. rest \in Seq(Nat) /\ Len(rest) = Len(q) - n /\ \A i \in 1 .. Len(q) - n : rest[i] = q[n + i]
  OBVIOUS
<1>2. ASSUME NEW i \in 1 .. Len(rest), NEW j \in 1 .. Len(rest), i < j PROVE rest[i] <= rest[j]
  <2>1. i \in 1 .. Len(q) - n /\ j \in 1 .. Len(q) - n /\ i \in Nat /\ j \in Nat
    BY <1>1
  <2>2. n + i \in 1 .. Len(q) /\ n + j \in 1 .. Len(q) /\ n + i < n + j
    BY <1>2, <2>1
  <2> QED
    BY <1>1, <2>1, <2>2 DEF Ascends
<1> QED
  BY <1>1, <1>2 DEF Ascends

LEMMA RestOnce ==
  ASSUME NEW q \in Seq(Nat), NEW n \in 0 .. Len(q), Once(q), NEW rest, Len(rest) = Len(q) - n,
         \A i \in 1 .. Len(q) - n : rest[i] = q[n + i]
  PROVE  Once(rest)
<1> SUFFICES ASSUME NEW i \in 1 .. Len(rest), NEW j \in 1 .. Len(rest), i < j PROVE rest[i] # rest[j]
  BY DEF Once
<1>1. i \in 1 .. Len(q) - n /\ j \in 1 .. Len(q) - n /\ i \in Nat /\ j \in Nat
  OBVIOUS
<1>2. n + i \in 1 .. Len(q) /\ n + j \in 1 .. Len(q) /\ n + i < n + j
  BY <1>1
<1> QED
  BY <1>1, <1>2 DEF Once

LEMMA PlacedAscends ==
  ASSUME NEW q \in Seq(Nat), Ascends(q), NEW seq \in Nat, NEW k, PlaceOf(q, seq, k), NEW r, IsPlaced(r, q, seq, k)
  PROVE  Ascends(r) /\ (Once(q) /\ (\A i \in 1 .. Len(q) : q[i] # seq) => Once(r))
<1>1. k \in 0 .. Len(q) /\ Len(q) \in Nat /\ \A i \in 1 .. Len(q) : q[i] <= seq <=> i <= k
  BY DEF PlaceOf
<1>2. Len(r) = Len(q) + 1 /\ \A j \in 1 .. (Len(q) + 1) : r[j] = IF j = k + 1 THEN seq ELSE IF j < k + 1 THEN q[j] ELSE q[j - 1]
  BY DEF IsPlaced
<1> DEFINE new == Once(q) /\ \A i \in 1 .. Len(q) : q[i] # seq
<1>4. ASSUME NEW i \in 1 .. Len(q), NEW j \in 1 .. Len(q), i < j
      PROVE  q[i] <= q[j] /\ (new => q[i] # q[j])
  BY <1>4 DEF Ascends, Once
<1>5. ASSUME NEW i \in 1 .. Len(q)
      PROVE  q[i] \in Nat /\ (new => q[i] # seq)
  OBVIOUS
<1> HIDE DEF new
<1>6. ASSUME NEW i \in 1 .. Len(r), NEW j \in 1 .. Len(r), i < j
      PROVE  r[i] <= r[j] /\ (new => r[i] # r[j])
  <2>0. i \in 1 .. (Len(q) + 1) /\ j \in 1 .. (Len(q) + 1) /\ i \in Nat /\ j \in Nat
    BY <1>1, <1>2
  <2>1. CASE j < k + 1
    <3>1. i \in 1 .. Len(q) /\ j \in 1 .. Len(q) /\ i < k + 1
      BY <1>1, <1>6, <2>0, <2>1
    <3>2. r[i] = q[i] /\ r[j] = q[j]
      BY <1>1, <1>2, <2>0, <2>1, <3>1
    <3> QED
      BY <1>4, <1>6, <3>1, <3>2
  <2>2. CASE j = k + 1
    <3>1. i \in 1 .. Len(q) /\ i <= k /\ i < k + 1
      BY <1>1, <1>6, <2>0, <2>2
    <3>2. r[i] = q[i] /\ r[j] = seq /\ q[i] <= seq
      BY <1>1, <1>2, <2>0, <2>2, <3>1
    <3> QED
      BY <1>5, <3>1, <3>2
  <2>3. CASE j > k + 1
    <3>1. j - 1 \in 1 .. Len(q) /\ ~(j - 1 <= k)
      BY <1>1, <2>0, <2>3
    <3>2. r[j] = q[j - 1] /\ q[j - 1] \in Nat /\ ~(q[j - 1] <= seq)
      BY <1>1, <1>2, <2>0, <2>3, <3>1
    <3>3. CASE i = k + 1
      <4>1. r[i] = seq
        BY <1>2, <2>0, <3>3
      <4>2. seq <= q[j - 1] /\ seq # q[j - 1]
        BY <3>2
      <4> QED
        BY <3>2, <4>1, <4>2
    <3>4. CASE i < k + 1
      <4>1. i \in 1 .. Len(q) /\ i < j - 1
        BY <1>1, <2>0, <2>3, <3>4
      <4>2. r[i] = q[i]
        BY <1>1, <1>2, <2>0, <3>4
      <4> QED
        BY <1>4, <3>1, <3>2, <4>1, <4>2
    <3>5. CASE i > k + 1
      <4>1. i - 1 \in 1 .. Len(q) /\ i - 1 < j - 1
        BY <1>1, <1>6, <2>0, <3>1, <3>5
      <4>2. r[i] = q[i - 1]
        BY <1>1, <1>2, <2>0, <3>5
      <4> QED
        BY <1>4, <3>1, <3>2, <4>1, <4>2
    <3> QED
      BY <1>1, <2>0, <3>3, <3>4, <3>5
  <2> QED
    BY <1>1, <2>0, <2>1, <2>2, <2>3
<1> QED
  BY <1>6 DEF Ascends, Once, new

\* What is in the queue once seq is in its place: seq and what was there.
LEMMA PlacedHas ==
  ASSUME NEW q \in Seq(Nat), NEW seq \in Nat, NEW k, PlaceOf(q, seq, k), NEW r, IsPlaced(r, q, seq, k)
  PROVE  /\ \A j \in 1 .. Len(r) : r[j] = seq \/ \E i \in 1 .. Len(q) : r[j] = q[i]
         /\ \A i \in 1 .. Len(q) : \E j \in 1 .. Len(r) : r[j] = q[i]
         /\ \E j \in 1 .. Len(r) : r[j] = seq
<1>1. k \in 0 .. Len(q) /\ Len(q) \in Nat
  BY DEF PlaceOf
<1>2. Len(r) = Len(q) + 1 /\ \A j \in 1 .. (Len(q) + 1) : r[j] = IF j = k + 1 THEN seq ELSE IF j < k + 1 THEN q[j] ELSE q[j - 1]
  BY DEF IsPlaced
<1>3. ASSUME NEW j \in 1 .. Len(r) PROVE r[j] = seq \/ \E i \in 1 .. Len(q) : r[j] = q[i]
  <2>1. CASE j = k + 1
    BY <1>1, <1>2, <2>1
  <2>2. CASE j < k + 1
    <3>1. j \in 1 .. Len(q) /\ r[j] = q[j]
      BY <1>1, <1>2, <2>2
    <3> QED
      BY <3>1
  <2>3. CASE j > k + 1
    <3>1. j - 1 \in 1 .. Len(q) /\ r[j] = q[j - 1]
      BY <1>1, <1>2, <2>3
    <3> QED
      BY <3>1
  <2> QED
    BY <1>1, <1>2, <2>1, <2>2, <2>3
<1>4. ASSUME NEW i \in 1 .. Len(q) PROVE \E j \in 1 .. Len(r) : r[j] = q[i]
  <2>1. CASE i < k + 1
    <3>1. i \in 1 .. Len(r) /\ r[i] = q[i]
      BY <1>1, <1>2, <2>1
    <3> QED
      BY <3>1
  <2>2. CASE ~(i < k + 1)
    <3>1. i + 1 \in 1 .. Len(r) /\ (i + 1) - 1 = i /\ i + 1 # k + 1 /\ ~(i + 1 < k + 1)
      BY <1>1, <1>2, <2>2
    <3>2. r[i + 1] = q[i]
      BY <1>2, <3>1
    <3> QED
      BY <3>1, <3>2
  <2> QED
    BY <2>1, <2>2
<1>5. k + 1 \in 1 .. Len(r) /\ r[k + 1] = seq
  BY <1>1, <1>2
<1> QED
  BY <1>3, <1>4, <1>5

LEMMA GivesInOrder ==
  ASSUME NEW sent \in Nat, NEW air, NEW q \in Seq(Nat), NEW next \in Nat \cup {NULL}, NEW seq \in air, seq \in Nat, seq < sent,
         Ascends(q), NEW before, IsOrderly(sent, air, q, next, before), next # NULL => next <= seq,
         NEW k, PlaceOf(q, seq, k), NEW r, IsPlaced(r, q, seq, k),
         NEW n, IsReady(r, next, n), NEW raised, ~raised => IsLongest(r, next, n),
         NEW got, NEW rest, NEW got2, NEW next2, Gives(r, n, got, rest, next, got2, next2)
  PROVE  IsOrderly(sent, air \ {seq}, rest, next2, raised)
<1>1. /\ Once(q)
      /\ \A i \in 1 .. Len(q) : q[i] \notin air /\ q[i] < sent
      /\ next # NULL => next <= sent
      /\ next # NULL => \A i \in 1 .. Len(q) : q[i] >= next
      /\ \A s \in Nat : s < sent /\ (next # NULL => next <= s) => s \in air \/ \E i \in 1 .. Len(q) : q[i] = s
  BY DEF IsOrderly
<1>2. r \in Seq(Nat) /\ Len(r) = Len(q) + 1 /\ Len(q) \in Nat /\ Len(r) \in Nat
  BY DEF IsPlaced
<1>3. Ascends(r) /\ Once(r)
  <2>1. \A i \in 1 .. Len(q) : q[i] # seq
    BY <1>1
  <2> QED
    BY <1>1, <2>1, PlacedAscends
<1>4. /\ \A j \in 1 .. Len(r) : r[j] = seq \/ \E i \in 1 .. Len(q) : r[j] = q[i]
      /\ \A i \in 1 .. Len(q) : \E j \in 1 .. Len(r) : r[j] = q[i]
      /\ \E j \in 1 .. Len(r) : r[j] = seq
  BY PlacedHas
<1>5. /\ n \in 0 .. Len(r) /\ n \in Nat
      /\ ~raised /\ n < Len(r) => r[n + 1] # (IF next = NULL THEN r[1] ELSE next) + n
      /\ \A i \in 1 .. n : r[i] = (IF next = NULL THEN r[1] ELSE next) + i - 1
  BY <1>2 DEF IsLongest, IsReady
<1>6. rest = SubSeq(r, n + 1, Len(r)) /\ next2 = IF n = 0 THEN next ELSE r[n] + 1
  BY DEF Gives
<1>7. /\ rest \in Seq(Nat) /\ Len(rest) = Len(r) - n /\ \A i \in 1 .. Len(r) - n : rest[i] = r[n + i]
      /\ Once(rest)
  <2>1. /\ r \in Seq(Nat) /\ n \in 0 .. Len(r) /\ Ascends(r) /\ Once(r)
        /\ rest = SubSeq(r, n + 1, Len(r))
    BY <1>2, <1>3, <1>5, <1>6
  <2>2. rest \in Seq(Nat) /\ Len(rest) = Len(r) - n /\ \A i \in 1 .. Len(r) - n : rest[i] = r[n + i]
    BY ONLY <2>1, RestAscends
  <2>3. Once(rest)
    BY ONLY <1>2, <2>1, <2>2, RestOnce
  <2> QED
    BY <2>2, <2>3
<1>8. ASSUME NEW j \in 1 .. Len(r)
      PROVE  r[j] \in Nat /\ r[j] < sent /\ r[j] \notin air \ {seq} /\ (next # NULL => next <= r[j])
  <2>1. r[j] \in Nat
    BY <1>2
  <2>2. CASE r[j] = seq
    BY <2>1, <2>2
  <2>3. CASE r[j] # seq
    <3>1. PICK i \in 1 .. Len(q) : r[j] = q[i]
      BY <1>4, <2>3
    <3>2. q[i] \in Nat /\ q[i] \notin air /\ q[i] < sent /\ (next # NULL => next <= q[i])
      BY <1>1
    <3> QED
      BY <2>1, <3>1, <3>2
  <2> QED
    BY <2>2, <2>3
<1>9. ASSUME next = NULL, ~raised PROVE n # 0
  <2>1. 1 \in 1 .. Len(r) /\ 0 < Len(r)
    BY <1>2
  <2>2. r[1] \in Nat
    BY <1>8, <2>1
  <2>3. n = 0 => r[n + 1] = r[1] + n
    BY <2>2
  <2> QED
    BY <1>5, <1>9, <2>1, <2>3
<1>10. /\ next2 \in Nat \cup {NULL} /\ (next2 = NULL => next = NULL /\ n = 0)
       /\ next2 # NULL => next2 <= sent /\ (next # NULL => next <= next2)
  <2>1. CASE n = 0
    BY <1>1, <1>6, <2>1
  <2>2. CASE n # 0
    <3>1. n \in 1 .. Len(r)
      BY <1>2, <1>5, <2>2
    <3>2. next2 = r[n] + 1 /\ r[n] \in Nat /\ r[n] < sent /\ (next # NULL => next <= r[n])
      BY <1>6, <1>8, <2>2, <3>1
    <3>3. next2 \in Nat /\ next2 <= sent
      BY <3>2
    <3>4. next # NULL => next <= next2
      BY <3>2
    <3> QED
      BY <3>3, <3>4, PQAssumption
  <2> QED
    BY <2>1, <2>2
<1>11. ASSUME NEW j \in 1 .. Len(r), n < j, ~raised PROVE next2 # NULL /\ r[j] > next2
  <2>1. CASE n = 0
    <3>1. next # NULL /\ next2 = next /\ 1 \in 1 .. Len(r)
      BY <1>2, <1>6, <1>9, <1>11, <2>1
    <3>2. r[1] # next /\ next <= r[1] /\ r[1] \in Nat
      <4>1. next \in Nat /\ 0 < Len(r)
        BY <3>1
      <4>2. n < Len(r) /\ n + 1 = 1 /\ next + n = next
        BY <2>1, <4>1
      <4>3. r[1] # next
        BY <1>5, <1>11, <3>1, <4>2
      <4> QED
        BY <1>8, <3>1, <4>3
    <3>3. r[1] <= r[j]
      <4>1. j = 1 \/ 1 < j
        OBVIOUS
      <4> QED
        BY <1>3, <1>8, <3>1, <3>2, <4>1 DEF Ascends
    <3> QED
      BY <1>8, <3>1, <3>2, <3>3
  <2>2. CASE n # 0
    <3>1. n \in 1 .. Len(r) /\ n + 1 \in 1 .. Len(r) /\ n < n + 1 /\ n < Len(r) /\ n \in 1 .. n
      BY <1>2, <1>5, <1>11, <2>2
    <3>2. PICK f : f = IF next = NULL THEN r[1] ELSE next
      OBVIOUS
    <3>3. f \in Nat
      <4>1. 1 \in 1 .. Len(r)
        BY <1>2, <3>1
      <4> QED
        BY <1>8, <3>2, <4>1
    <3>4. r[n] = f + n - 1 /\ r[n + 1] # f + n /\ next2 = r[n] + 1
      BY <1>5, <1>6, <1>11, <2>2, <3>1, <3>2
    <3>5. next2 = f + n
      BY <1>5, <3>3, <3>4
    <3>6. r[n] <= r[n + 1] /\ r[n] # r[n + 1] /\ r[n] \in Nat /\ r[n + 1] \in Nat
      BY <1>3, <1>8, <3>1 DEF Ascends, Once
    <3>7. r[n + 1] > next2
      BY <3>4, <3>5, <3>6
    <3>8. r[n + 1] <= r[j]
      <4>1. j = n + 1 \/ n + 1 < j
        BY <1>5, <1>11
      <4> QED
        BY <1>3, <1>8, <3>1, <3>6, <4>1 DEF Ascends
    <3>9. next2 \in Nat /\ next2 # NULL
      BY <3>4, <3>6, PQAssumption
    <3> QED
      BY <1>8, <3>6, <3>7, <3>8, <3>9
  <2> QED
    BY <2>1, <2>2
<1>15. ASSUME NEW j \in 1 .. Len(r), n < j, next2 # NULL PROVE r[j] >= next2
  <2>1. CASE n = 0
    BY <1>6, <1>8, <1>15, <2>1
  <2>2. CASE n # 0
    <3>1. n \in 1 .. Len(r) /\ next2 = r[n] + 1 /\ r[n] \in Nat /\ r[j] \in Nat
      BY <1>2, <1>5, <1>6, <1>8, <2>2
    <3>2. r[n] <= r[j] /\ r[n] # r[j]
      BY <1>3, <1>15, <3>1 DEF Ascends, Once
    <3> QED
      BY <3>1, <3>2
  <2> QED
    BY <2>1, <2>2
<1>12. ASSUME NEW j \in 1 .. Len(r), j <= n PROVE next2 # NULL /\ next2 \in Nat /\ r[j] < next2
  <2>1. n \in 1 .. Len(r) /\ n # 0 /\ next2 = r[n] + 1
    BY <1>2, <1>5, <1>6, <1>12
  <2>2. r[j] <= r[n]
    <3>1. j = n \/ j < n
      BY <1>12, <2>1
    <3> QED
      BY <1>3, <1>8, <2>1, <3>1 DEF Ascends
  <2>3. r[j] \in Nat /\ r[n] \in Nat
    BY <1>8, <2>1
  <2>4. next2 \in Nat /\ next2 # NULL
    BY <2>1, <2>3, PQAssumption
  <2> QED
    BY <2>1, <2>2, <2>3, <2>4
<1>13. ASSUME NEW i \in 1 .. Len(rest)
       PROVE  /\ rest[i] \notin air \ {seq} /\ rest[i] < sent
              /\ next2 # NULL => rest[i] >= next2
              /\ ~raised => next2 # NULL /\ rest[i] > next2
  <2>1. i \in 1 .. Len(r) - n /\ n + i \in 1 .. Len(r) /\ n < n + i
    BY <1>2, <1>5, <1>7
  <2>2. rest[i] = r[n + i]
    BY <1>7, <2>1
  <2> QED
    BY <1>8, <1>11, <1>15, <2>1, <2>2
<1>14. ASSUME NEW s \in Nat, s < sent, next2 # NULL => next2 <= s
       PROVE  s \in air \ {seq} \/ \E i \in 1 .. Len(rest) : rest[i] = s
  <2>1. next # NULL => next <= s
    BY <1>10, <1>14
  <2>2. s \in air \ {seq} \/ \E j \in 1 .. Len(r) : r[j] = s
    <3>1. s \in air \/ \E i \in 1 .. Len(q) : q[i] = s
      BY <1>1, <1>14, <2>1
    <3> QED
      BY <1>4, <3>1
  <2>3. ASSUME NEW j \in 1 .. Len(r), r[j] = s PROVE \E i \in 1 .. Len(rest) : rest[i] = s
    <3>1. ~(j <= n)
      BY <1>8, <1>12, <1>14, <2>3
    <3>2. j - n \in 1 .. Len(rest) /\ j - n \in 1 .. Len(r) - n /\ n + (j - n) = j
      BY <1>2, <1>5, <1>7, <3>1
    <3>3. rest[j - n] = s
      BY <1>7, <2>3, <3>2
    <3> QED
      BY <3>2, <3>3
  <2> QED
    BY <2>2, <2>3
<1>16. ASSUME next2 = NULL, ~raised PROVE rest = <<>>
  <2>1. n = 0 /\ next = NULL
    BY <1>10, <1>16
  <2> QED
    BY <1>9, <1>16, <2>1
<1> QED
  BY <1>7, <1>10, <1>13, <1>14, <1>16 DEF IsOrderly

\* A message of the past is dropped.
LEMMA DropsInOrder ==
  ASSUME NEW sent \in Nat, NEW air, NEW q, NEW next \in Nat, NEW seq \in Nat, seq < next,
         NEW raised, IsOrderly(sent, air, q, next, raised)
  PROVE  IsOrderly(sent, air \ {seq}, q, next, raised)
<1>1. next # NULL
  BY PQAssumption
<1>2. ASSUME NEW s \in Nat, s < sent, next <= s PROVE s \in air \ {seq} \/ \E i \in 1 .. Len(q) : q[i] = s
  <2>1. s # seq
    BY <1>2
  <2> QED
    BY <1>1, <1>2, <2>1 DEF IsOrderly
<1> QED
  BY <1>1, <1>2 DEF IsOrderly

LEMMA PublishesInOrder ==
  ASSUME NEW sent \in Nat, NEW air, NEW q \in Seq(Nat), NEW next \in Nat \cup {NULL},
         NEW raised, IsOrderly(sent, air, q, next, raised)
  PROVE  IsOrderly(sent + 1, air \cup {sent}, q, next, raised)
<1>1. ASSUME NEW i \in 1 .. Len(q) PROVE q[i] \notin air \cup {sent} /\ q[i] < sent + 1
  <2>1. q[i] \in Nat /\ q[i] < sent /\ q[i] \notin air
    BY DEF IsOrderly
  <2> QED
    BY <2>1
<1>2. next # NULL => next <= sent + 1
  BY DEF IsOrderly
<1>3. ASSUME NEW s \in Nat, s < sent + 1, next # NULL => next <= s
      PROVE  s \in air \cup {sent} \/ \E i \in 1 .. Len(q) : q[i] = s
  <2>1. s = sent \/ s < sent
    BY <1>3
  <2> QED
    BY <1>3, <2>1 DEF IsOrderly
<1> QED
  BY <1>1, <1>2, <1>3 DEF IsOrderly

LEMMA PQInitInv == PQInit => PQInv
<1> SUFFICES ASSUME PQInit PROVE PQInv
  OBVIOUS
<1>1. /\ pqSent = 0 /\ pqAir = {} /\ pqWaiting = <<>> /\ pqNext = NULL /\ pqGot = <<>> /\ pqRaised = FALSE
      /\ pqBudget = [repeats |-> PQRepeats, resets |-> PQResets, raises |-> PQRaises]
  BY DEF PQInit
<1>2. Len(<<>>) = 0 /\ <<>> \in Seq(Nat)
  OBVIOUS
<1>3. PQTypes
  BY <1>1, <1>2, PQAssumption DEF PQTypes
<1>4. Ascends(<<>>)
  BY <1>2 DEF Ascends
<1>5. IsGiven(<<>>, NULL)
  BY <1>2 DEF IsGiven
<1>6. IsOrderly(0, {}, <<>>, NULL, FALSE)
  BY <1>2 DEF IsOrderly, Once
<1> QED
  BY <1>1, <1>3, <1>4, <1>5, <1>6 DEF PQInv

LEMMA PQPublishKeeps == ASSUME PQInv, PQPublish PROVE PQInv'
<1>1. /\ pqSent' = pqSent + 1 /\ pqAir' = pqAir \cup {pqSent}
      /\ UNCHANGED <<pqWaiting, pqNext, pqGot, pqRaised, pqBudget>>
  BY DEF PQPublish, next_id
<1>2. PQTypes'
  BY <1>1 DEF PQInv, PQTypes
<1>3. (Ascends(pqWaiting) /\ IsGiven(pqGot, pqNext))'
  BY <1>1 DEF PQInv
<1>4. ASSUME Untouched' PROVE IsOrderly(pqSent, pqAir, pqWaiting, pqNext, pqRaised)'
  <2>1. IsOrderly(pqSent, pqAir, pqWaiting, pqNext, pqRaised)
    BY <1>1, <1>4 DEF PQInv, Untouched
  <2>2. IsOrderly(pqSent + 1, pqAir \cup {pqSent}, pqWaiting, pqNext, pqRaised)
    BY <2>1, PublishesInOrder DEF PQInv, PQTypes
  <2> QED
    BY <1>1, <2>2
<1> QED
  BY <1>2, <1>3, <1>4 DEF PQInv

LEMMA SubscribeKeeps == ASSUME PQInv, Subscribe \/ ResetSequence PROVE PQInv'
<1>1. /\ pqBudget.resets > 0 /\ pqBudget' = [pqBudget EXCEPT !.resets = @ - 1]
      /\ pqNext' = NULL /\ pqGot' = <<>> /\ UNCHANGED <<pqSent, pqAir>>
      /\ pqWaiting' = <<>> \/ pqWaiting' = pqWaiting
  BY DEF Subscribe, ResetSequence, Again
<1>2. Len(<<>>) = 0 /\ <<>> \in Seq(Nat)
  OBVIOUS
<1>3. /\ pqBudget' \in [repeats : Nat, resets : Nat, raises : Nat]
      /\ pqBudget'.repeats <= PQRepeats /\ pqBudget'.resets < PQResets
  BY <1>1, PQAssumption DEF PQInv, PQTypes
<1>4. PQTypes'
  <2>1. pqBudget'.resets <= PQResets /\ pqNext' \in Nat \cup {NULL}
    BY <1>1, <1>3, PQAssumption
  <2>2. pqWaiting' \in Seq(Nat)
    BY <1>1, <1>2 DEF PQInv, PQTypes
  <2> QED
    BY <1>1, <1>3, <2>1, <2>2 DEF PQInv, PQTypes
<1>5. Ascends(<<>>) /\ IsGiven(<<>>, NULL)
  BY <1>2 DEF Ascends, IsGiven
<1>6. (Ascends(pqWaiting) /\ IsGiven(pqGot, pqNext))'
  BY <1>1, <1>5 DEF PQInv
<1>7. ~ Untouched'
  BY <1>3, PQAssumption DEF Untouched
<1> QED
  BY <1>4, <1>6, <1>7 DEF PQInv

\* What the arrival of a message leaves of the budget, and of the messages under way.
LEMMA ArrivalCounts ==
  ASSUME PQTypes, NEW seq \in pqAir, OnReceive(seq)
  PROVE  /\ pqAir' \subseteq pqAir
         /\ pqBudget' \in [repeats : Nat, resets : Nat, raises : Nat]
         /\ pqBudget'.repeats <= PQRepeats /\ pqBudget'.resets <= PQResets
         /\ Untouched' => Untouched /\ pqAir' = pqAir \ {seq}
<1>1. PICK again \in {0, 1}, raises \in {0, 1} :
          /\ again <= pqBudget.repeats /\ raises <= pqBudget.raises
          /\ pqAir' = IF again = 1 THEN pqAir ELSE pqAir \ {seq}
          /\ pqBudget' = [pqBudget EXCEPT !.repeats = @ - again, !.raises = @ - raises]
  BY DEF OnReceive
<1>2. /\ pqBudget' \in [repeats : Nat, resets : Nat, raises : Nat]
      /\ pqBudget'.repeats = pqBudget.repeats - again /\ pqBudget'.resets = pqBudget.resets
  <2>1. PICK b : b = pqBudget
    OBVIOUS
  <2>2. b \in [repeats : Nat, resets : Nat, raises : Nat] /\ again <= b.repeats /\ raises <= b.raises
    BY <1>1, <2>1 DEF PQTypes
  <2>3. again \in Nat /\ raises \in Nat /\ b.repeats \in Nat /\ b.resets \in Nat /\ b.raises \in Nat
    BY <2>2
  <2>4. b.repeats - again \in Nat /\ b.raises - raises \in Nat
    BY <2>2, <2>3
  <2>5. pqBudget' = [repeats |-> b.repeats - again, resets |-> b.resets, raises |-> b.raises - raises]
    BY <1>1, <2>1, <2>2
  <2> QED
    BY <2>1, <2>3, <2>4, <2>5
<1>3. /\ pqBudget.repeats \in Nat /\ pqBudget.resets \in Nat
      /\ pqBudget.repeats <= PQRepeats /\ pqBudget.resets <= PQResets
  BY DEF PQTypes
<1>4. pqBudget'.repeats <= PQRepeats /\ (pqBudget'.repeats = PQRepeats => again = 0 /\ pqBudget.repeats = PQRepeats)
  BY <1>1, <1>2, <1>3, PQAssumption
<1> QED
  BY <1>1, <1>2, <1>3, <1>4 DEF Untouched

LEMMA OnReceiveKeeps == ASSUME PQInv, NEW seq \in pqAir, OnReceive(seq) PROVE PQInv'
<1>1. PQTypes /\ Ascends(pqWaiting) /\ IsGiven(pqGot, pqNext)
      /\ (Untouched => IsOrderly(pqSent, pqAir, pqWaiting, pqNext, pqRaised))
  BY DEF PQInv
<1>2. /\ pqAir' \subseteq pqAir
      /\ pqBudget' \in [repeats : Nat, resets : Nat, raises : Nat]
      /\ pqBudget'.repeats <= PQRepeats /\ pqBudget'.resets <= PQResets
      /\ Untouched' => Untouched /\ pqAir' = pqAir \ {seq}
  BY <1>1, ArrivalCounts
<1>3. seq \in Nat /\ seq < pqSent /\ pqSent' = pqSent /\ pqSent \in Nat
      /\ pqWaiting \in Seq(Nat) /\ pqNext \in Nat \cup {NULL}
  BY <1>1 DEF PQTypes, OnReceive
<1>4. CASE InThePast(seq)
  <2>1. UNCHANGED <<pqWaiting, pqNext, pqGot, pqRaised>>
    BY <1>4 DEF OnReceive
  <2>2. pqNext \in Nat /\ seq < pqNext
    BY <1>3, <1>4 DEF InThePast
  <2>3. PQTypes'
    BY <1>1, <1>2, <1>3, <2>1 DEF PQTypes
  <2>4. ASSUME Untouched' PROVE IsOrderly(pqSent, pqAir, pqWaiting, pqNext, pqRaised)'
    <3>1. IsOrderly(pqSent, pqAir \ {seq}, pqWaiting, pqNext, pqRaised)
      BY <1>1, <1>2, <1>3, <2>2, <2>4, DropsInOrder
    <3> QED
      BY <1>2, <1>3, <2>1, <2>4, <3>1
  <2> QED
    BY <1>1, <2>1, <2>3, <2>4 DEF PQInv
<1>5. CASE ~ InThePast(seq)
  <2>1. PICK r : r = Sorted(pqWaiting, seq)
    OBVIOUS
  <2>2. PICK k : PlaceOf(pqWaiting, seq, k) /\ IsPlaced(r, pqWaiting, seq, k)
    BY <1>1, <1>3, <2>1, SortedIs
  <2>3. r \in Seq(Nat) /\ Len(r) = Len(pqWaiting) + 1
    BY <2>2 DEF IsPlaced
  <2>4. PICK raises \in {0, 1} : PQReceive(r, raises = 1)
    BY <1>5, <2>1 DEF OnReceive
  <2>5. PICK n \in IF raises = 1 THEN {n \in Ready(r) : n < Longest(r)} ELSE {Longest(r)} :
            Gives(r, n, pqGot, pqWaiting', pqNext, pqGot', pqNext')
    BY <2>4 DEF PQReceive, Gives
  <2>6. (pqRaised' <=> raises = 1) /\ IsReady(r, pqNext, n) /\ (~pqRaised' => IsLongest(r, pqNext, n))
    <3>1. IsLongest(r, pqNext, Longest(r))
      BY <1>3, <2>3, LongestIs
    <3>2. pqRaised' = (raises = 1)
      BY <2>4 DEF PQReceive
    <3>3. CASE raises = 1
      <4>1. n \in Ready(r)
        BY <2>5, <3>3
      <4>2. IsReady(r, pqNext, n)
        BY <4>1 DEF Ready, IsReady
      <4> QED
        BY <3>2, <3>3, <4>2
    <3>4. CASE raises # 1
      <4>1. n = Longest(r)
        BY <2>5, <3>4
      <4> QED
        BY <3>1, <3>2, <3>4, <4>1 DEF IsLongest
    <3> QED
      BY <3>3, <3>4
  <2>7. PICK got2, rest, next2, raised : got2 = pqGot' /\ rest = pqWaiting' /\ next2 = pqNext' /\ raised = pqRaised'
    OBVIOUS
  <2>8. /\ Gives(r, n, pqGot, rest, pqNext, got2, next2)
        /\ IsReady(r, pqNext, n) /\ (~raised => IsLongest(r, pqNext, n))
    BY <2>5, <2>6, <2>7
  <2>9. IsGiven(got2, next2) /\ next2 \in Nat \cup {NULL}
    <3>1. Len(r) > 0
      BY <1>3, <2>3
    <3> QED
      BY <1>1, <1>3, <2>3, <2>8, <3>1, GivenGoesOn
  <2>10. rest \in Seq(Nat) /\ Ascends(rest)
    <3>1. n \in 0 .. Len(r) /\ rest = SubSeq(r, n + 1, Len(r))
      BY <2>8 DEF IsReady, Gives
    <3>2. Ascends(r)
      BY <1>1, <1>3, <2>2, PlacedAscends
    <3> QED
      BY <2>3, <3>1, <3>2, RestAscends
  <2>11. PQTypes'
    BY <1>1, <1>2, <1>3, <2>7, <2>9, <2>10 DEF PQTypes
  <2>12. ASSUME Untouched' PROVE IsOrderly(pqSent, pqAir, pqWaiting, pqNext, pqRaised)'
    <3>1. pqNext # NULL => pqNext <= seq
      BY <1>3, <1>5 DEF InThePast
    <3>2. IsOrderly(pqSent, pqAir, pqWaiting, pqNext, pqRaised)
      BY <1>1, <1>2, <2>12
    <3>3. IsOrderly(pqSent, pqAir \ {seq}, rest, next2, raised)
      BY <1>1, <1>3, <2>2, <2>8, <3>1, <3>2, GivesInOrder
    <3> QED
      BY <1>2, <1>3, <2>7, <2>12, <3>3
  <2> QED
    BY <2>7, <2>9, <2>10, <2>11, <2>12 DEF PQInv
<1> QED
  BY <1>4, <1>5

LEMMA PQNextInv == PQInv /\ [PQNext]_pqVars => PQInv'
<1> SUFFICES ASSUME PQInv, [PQNext]_pqVars PROVE PQInv'
  OBVIOUS
<1>1. CASE PQPublish
  BY <1>1, PQPublishKeeps
<1>2. CASE \E seq \in pqAir : OnReceive(seq)
  BY <1>2, OnReceiveKeeps
<1>3. CASE Subscribe \/ ResetSequence
  BY <1>3, SubscribeKeeps
<1>4. CASE UNCHANGED pqVars
  BY <1>4 DEF pqVars, PQInv, PQTypes, Untouched
<1> QED
  BY <1>1, <1>2, <1>3, <1>4 DEF PQNext

\* Messages that change places and arrive twice on the way, with a callback that may raise at any
\* of them: since the subscription or the last reset the callback was done with them one after the
\* other, in the order in which they were published, with none twice and none left out
\* (packet_queue.py, receive).
THEOREM PacketsAreInOrder == PQSpec => []PQInOrder
<1>1. PQInv => PQInOrder
  BY DEF PQInv, IsGiven, PQInOrder
<1> QED
  BY PQInitInv, PQNextInv, <1>1, PTL DEF PQSpec

\* When everything has arrived, no message is held back, unless the callback raised at the last
\* arrival, one arrived twice or the numbering was started again (packet_queue.py, receive: the
\* messages at the front that are the next ones): one arrival after an exception makes up for it.
THEOREM PacketsAreReleased == PQSpec => []PQNothingHeld
<1>1. PQInv => PQNothingHeld
  <2> SUFFICES ASSUME PQInv, pqAir = {}, Untouched, ~pqRaised, pqWaiting # <<>> PROVE FALSE
    BY DEF PQNothingHeld, Untouched
  <2>1. IsOrderly(pqSent, pqAir, pqWaiting, pqNext, pqRaised)
    BY DEF PQInv
  <2>2. pqWaiting \in Seq(Nat) /\ pqSent \in Nat /\ pqNext \in Nat \cup {NULL}
    BY DEF PQInv, PQTypes
  <2>3. 1 \in 1 .. Len(pqWaiting) /\ pqWaiting[1] \in Nat
    BY <2>2
  <2>4. pqNext \in Nat /\ pqNext # NULL
    BY <2>1, <2>2 DEF IsOrderly
  <2>5. pqWaiting[1] > pqNext /\ pqWaiting[1] < pqSent
    BY <2>1, <2>3, <2>4 DEF IsOrderly
  <2>6. PICK i \in 1 .. Len(pqWaiting) : pqWaiting[i] = pqNext
    <3>1. pqNext < pqSent /\ pqNext <= pqNext
      BY <2>2, <2>3, <2>4, <2>5
    <3> QED
      BY <2>1, <2>4, <3>1 DEF IsOrderly
  <2>7. pqWaiting[i] > pqNext
    BY <2>1, <2>4 DEF IsOrderly
  <2> QED
    BY <2>4, <2>6, <2>7
<1> QED
  BY PQInitInv, PQNextInv, <1>1, PTL DEF PQSpec

(***************************************************************************)
(* RemoteAdapter.                                                          *)
(***************************************************************************)

RemEvent == [device : RemDevices, number : Nat]
RemMessage == [type : {"response"}, call : RemCalls, ok : BOOLEAN] \cup [type : {"event"}, event : RemEvent]

\* What the adapter was told is the beginning of what the server pushed; the next events are in q, in
\* order and without gaps, and as long as the socket is open, all of them.
EventsFollow(q, t, p, s) ==
    /\ Len(t) <= Len(p) /\ \A i \in 1 .. Len(t) : t[i] = p[i]
    /\ \A i \in 1 .. Len(q) : q[i].type = "event" =>
           /\ Len(t) <= q[i].event.number /\ q[i].event.number < Len(p)
           /\ p[q[i].event.number + 1] = q[i].event
           /\ Len(t) < q[i].event.number =>
                  \E j \in 1 .. Len(q) : j < i /\ q[j].type = "event" /\ q[j].event.number = q[i].event.number - 1
    /\ \A i, j \in 1 .. Len(q) :
           i < j /\ q[i].type = "event" /\ q[j].type = "event" => q[i].event.number < q[j].event.number
    /\ s = "open" => \A n \in Nat : Len(t) <= n /\ n < Len(p) =>
                         \E j \in 1 .. Len(q) : q[j].type = "event" /\ q[j].event.number = n

RemEventsInv ==
    /\ up \in Seq(RemCalls) /\ down \in Seq(RemMessage)
    /\ told \in Seq(RemEvent) /\ pushed \in Seq(RemEvent)
    /\ EventsFollow(down, told, pushed, socket)

LEMMA ResponseFollows ==
  ASSUME NEW q \in Seq(RemMessage), NEW t \in Seq(RemEvent), NEW p \in Seq(RemEvent), NEW s, EventsFollow(q, t, p, s),
         NEW m \in RemMessage, m.type = "response"
  PROVE  EventsFollow(Append(q, m), t, p, s)
<1>1. PICK r : r = Append(q, m)
  OBVIOUS
<1>2. /\ Len(r) = Len(q) + 1 /\ Len(q) \in Nat /\ \A i \in 1 .. Len(q) : r[i] = q[i]
      /\ r[Len(q) + 1].type # "event"
  BY <1>1
<1>3. \A i \in 1 .. Len(r) : r[i].type = "event" => i \in 1 .. Len(q)
  BY <1>2
<1>4. 1 .. Len(q) \subseteq 1 .. Len(r)
  BY <1>2
<1>5. ASSUME NEW i \in 1 .. Len(r), r[i].type = "event"
      PROVE  /\ Len(t) <= r[i].event.number /\ r[i].event.number < Len(p)
             /\ p[r[i].event.number + 1] = r[i].event
             /\ Len(t) < r[i].event.number =>
                    \E j \in 1 .. Len(r) : j < i /\ r[j].type = "event" /\ r[j].event.number = r[i].event.number - 1
  <2>1. i \in 1 .. Len(q) /\ r[i] = q[i]
    BY <1>2, <1>3, <1>5
  <2>2. PICK n : n = q[i].event.number
    OBVIOUS
  <2>3. /\ Len(t) <= n /\ n < Len(p) /\ p[n + 1] = q[i].event
        /\ Len(t) < n => \E j \in 1 .. Len(q) : j < i /\ q[j].type = "event" /\ q[j].event.number = n - 1
    BY <1>5, <2>1, <2>2 DEF EventsFollow
  <2>4. ASSUME Len(t) < n
        PROVE  \E j \in 1 .. Len(r) : j < i /\ r[j].type = "event" /\ r[j].event.number = n - 1
    BY <1>2, <1>4, <2>3, <2>4
  <2> QED
    BY <2>1, <2>2, <2>3, <2>4
<1>6. ASSUME NEW i \in 1 .. Len(r), NEW j \in 1 .. Len(r), i < j, r[i].type = "event", r[j].type = "event"
      PROVE  r[i].event.number < r[j].event.number
  <2>1. i \in 1 .. Len(q) /\ j \in 1 .. Len(q) /\ r[i] = q[i] /\ r[j] = q[j]
    BY <1>2, <1>3, <1>6
  <2> QED
    BY <1>6, <2>1 DEF EventsFollow
<1>7. ASSUME s = "open", NEW n \in Nat, Len(t) <= n, n < Len(p)
      PROVE  \E j \in 1 .. Len(r) : r[j].type = "event" /\ r[j].event.number = n
  <2>1. PICK j \in 1 .. Len(q) : q[j].type = "event" /\ q[j].event.number = n
    BY <1>7 DEF EventsFollow
  <2> QED
    BY <1>2, <1>4, <2>1
<1>8. Len(t) <= Len(p) /\ \A i \in 1 .. Len(t) : t[i] = p[i]
  BY DEF EventsFollow
<1>9. EventsFollow(r, t, p, s)
  BY <1>5, <1>6, <1>7, <1>8 DEF EventsFollow
<1> QED
  BY <1>1, <1>9

LEMMA EventFollows ==
  ASSUME NEW q \in Seq(RemMessage), NEW t \in Seq(RemEvent), NEW p \in Seq(RemEvent), EventsFollow(q, t, p, "open"),
         NEW e \in RemEvent, e.number = Len(p), NEW m, m = [type |-> "event", event |-> e]
  PROVE  EventsFollow(Append(q, m), t, Append(p, e), "open")
<1>1. PICK r, o : r = Append(q, m) /\ o = Append(p, e)
  OBVIOUS
<1>2. /\ Len(r) = Len(q) + 1 /\ Len(q) \in Nat /\ \A i \in 1 .. Len(q) : r[i] = q[i]
      /\ r[Len(q) + 1] = m /\ m.type = "event" /\ m.event = e
  BY <1>1
<1>3. Len(o) = Len(p) + 1 /\ Len(p) \in Nat /\ (\A i \in 1 .. Len(p) : o[i] = p[i]) /\ o[Len(p) + 1] = e
  BY <1>1
<1>4. Len(t) \in Nat /\ Len(t) <= Len(p) /\ \A i \in 1 .. Len(t) : t[i] = p[i]
  <2>1. Len(t) \in Nat
    OBVIOUS
  <2>2. Len(t) <= Len(p) /\ \A i \in 1 .. Len(t) : t[i] = p[i]
    BY DEF EventsFollow
  <2> QED
    BY <2>1, <2>2
<1>5. \A n \in Nat : Len(t) <= n /\ n < Len(p) => \E j \in 1 .. Len(q) : q[j].type = "event" /\ q[j].event.number = n
  BY DEF EventsFollow
<1>6. ASSUME NEW i \in 1 .. Len(q), q[i].type = "event"
      PROVE  /\ Len(t) <= q[i].event.number /\ q[i].event.number < Len(p) /\ q[i].event.number \in Nat
             /\ p[q[i].event.number + 1] = q[i].event
             /\ Len(t) < q[i].event.number =>
                    \E j \in 1 .. Len(q) : j < i /\ q[j].type = "event" /\ q[j].event.number = q[i].event.number - 1
  <2>1. q[i] \in RemMessage
    BY <1>6
  <2>2. q[i].event \in RemEvent
    BY <1>6, <2>1 DEF RemMessage
  <2>3. q[i].event.number \in Nat
    BY <2>2 DEF RemEvent
  <2> QED
    BY <1>6, <2>3 DEF EventsFollow
<1>7. ASSUME NEW i \in 1 .. Len(r), r[i].type = "event"
      PROVE  /\ Len(t) <= r[i].event.number /\ r[i].event.number < Len(o)
             /\ o[r[i].event.number + 1] = r[i].event
             /\ Len(t) < r[i].event.number =>
                    \E j \in 1 .. Len(r) : j < i /\ r[j].type = "event" /\ r[j].event.number = r[i].event.number - 1
  <2>1. CASE i \in 1 .. Len(q)
    <3>1. q[i].type = "event" /\ r[i] = q[i]
      BY <1>2, <1>7, <2>1
    <3>2. PICK n : n = q[i].event.number
      OBVIOUS
    <3>3. /\ Len(t) <= n /\ n < Len(p) /\ n \in Nat /\ p[n + 1] = q[i].event
          /\ Len(t) < n => \E j \in 1 .. Len(q) : j < i /\ q[j].type = "event" /\ q[j].event.number = n - 1
      BY <1>6, <2>1, <3>1, <3>2
    <3>4. n < Len(o) /\ o[n + 1] = q[i].event
      <4>1. n + 1 \in 1 .. Len(p)
        BY <1>3, <3>3
      <4> QED
        BY <1>3, <3>3, <4>1
    <3>5. ASSUME Len(t) < n
          PROVE  \E j \in 1 .. Len(r) : j < i /\ r[j].type = "event" /\ r[j].event.number = n - 1
      <4>1. PICK j \in 1 .. Len(q) : j < i /\ q[j].type = "event" /\ q[j].event.number = n - 1
        BY <3>3, <3>5
      <4>2. j \in 1 .. Len(r) /\ r[j] = q[j]
        BY <1>2
      <4> QED
        BY <4>1, <4>2
    <3> QED
      BY <3>1, <3>2, <3>3, <3>4, <3>5
  <2>2. CASE i \notin 1 .. Len(q)
    <3>1. i = Len(q) + 1 /\ r[i].event = e /\ r[i].event.number = Len(p)
      BY <1>2, <2>2
    <3>2. ASSUME Len(t) < Len(p)
          PROVE  \E j \in 1 .. Len(r) : j < i /\ r[j].type = "event" /\ r[j].event.number = Len(p) - 1
      <4>1. Len(p) - 1 \in Nat /\ Len(t) <= Len(p) - 1 /\ Len(p) - 1 < Len(p)
        BY <1>3, <1>4, <3>2
      <4>2. PICK j \in 1 .. Len(q) : q[j].type = "event" /\ q[j].event.number = Len(p) - 1
        BY <1>5, <4>1
      <4>3. j \in 1 .. Len(r) /\ r[j] = q[j] /\ j < i
        BY <1>2, <3>1
      <4> QED
        BY <4>2, <4>3
    <3> QED
      BY <1>3, <1>4, <3>1, <3>2
  <2> QED
    BY <2>1, <2>2
<1>8. ASSUME NEW i \in 1 .. Len(r), NEW j \in 1 .. Len(r), i < j, r[i].type = "event", r[j].type = "event"
      PROVE  r[i].event.number < r[j].event.number
  <2>1. i \in 1 .. Len(q) /\ r[i] = q[i] /\ q[i].event.number < Len(p)
    <3>1. i \in 1 .. Len(q) /\ r[i] = q[i]
      BY <1>2, <1>8
    <3> QED
      BY <1>6, <1>8, <3>1
  <2>2. CASE j \in 1 .. Len(q)
    <3>1. r[j] = q[j]
      BY <1>2, <2>2
    <3> QED
      BY <1>8, <2>1, <2>2, <3>1 DEF EventsFollow
  <2>3. CASE j \notin 1 .. Len(q)
    <3>1. j = Len(q) + 1
      BY <1>2, <2>3
    <3> QED
      BY <1>2, <2>1, <3>1
  <2> QED
    BY <2>2, <2>3
<1>9. ASSUME NEW n \in Nat, Len(t) <= n, n < Len(o)
      PROVE  \E j \in 1 .. Len(r) : r[j].type = "event" /\ r[j].event.number = n
  <2>1. CASE n < Len(p)
    <3>1. PICK j \in 1 .. Len(q) : q[j].type = "event" /\ q[j].event.number = n
      BY <1>5, <1>9, <2>1
    <3>2. j \in 1 .. Len(r) /\ r[j] = q[j]
      BY <1>2
    <3> QED
      BY <3>1, <3>2
  <2>2. CASE ~(n < Len(p))
    <3>1. n = Len(p) /\ Len(q) + 1 \in 1 .. Len(r)
      BY <1>2, <1>3, <1>9, <2>2
    <3> QED
      BY <1>2, <3>1
  <2> QED
    BY <2>1, <2>2
<1>10. Len(t) <= Len(o) /\ \A i \in 1 .. Len(t) : t[i] = o[i]
  BY <1>3, <1>4
<1>11. EventsFollow(r, t, o, "open")
  BY <1>7, <1>8, <1>9, <1>10 DEF EventsFollow
<1> QED
  BY <1>1, <1>11

\* Only the first messages arrive.
LEMMA PrefixFollows ==
  ASSUME NEW q \in Seq(RemMessage), NEW t \in Seq(RemEvent), NEW p \in Seq(RemEvent), NEW s, EventsFollow(q, t, p, s),
         NEW r \in Prefixes(q), NEW u, u # "open"
  PROVE  r \in Seq(RemMessage) /\ EventsFollow(r, t, p, u)
<1>1. PICK l \in 0 .. Len(q) : r = SubSeq(q, 1, l)
  BY DEF Prefixes
<1>2. r \in Seq(RemMessage) /\ Len(r) = l /\ \A i \in 1 .. l : r[i] = q[i]
  BY <1>1
<1>3. 1 .. l \subseteq 1 .. Len(q)
  OBVIOUS
<1>4. ASSUME NEW i \in 1 .. Len(r), r[i].type = "event"
      PROVE  /\ Len(t) <= r[i].event.number /\ r[i].event.number < Len(p)
             /\ p[r[i].event.number + 1] = r[i].event
             /\ Len(t) < r[i].event.number =>
                    \E j \in 1 .. Len(r) : j < i /\ r[j].type = "event" /\ r[j].event.number = r[i].event.number - 1
  <2>1. i \in 1 .. Len(q) /\ r[i] = q[i] /\ i \in 1 .. l
    BY <1>2, <1>3
  <2>2. PICK n : n = q[i].event.number
    OBVIOUS
  <2>3. /\ Len(t) <= n /\ n < Len(p) /\ p[n + 1] = q[i].event
        /\ Len(t) < n => \E j \in 1 .. Len(q) : j < i /\ q[j].type = "event" /\ q[j].event.number = n - 1
    BY <1>4, <2>1, <2>2 DEF EventsFollow
  <2>4. ASSUME Len(t) < n
        PROVE  \E j \in 1 .. Len(r) : j < i /\ r[j].type = "event" /\ r[j].event.number = n - 1
    <3>1. PICK j \in 1 .. Len(q) : j < i /\ q[j].type = "event" /\ q[j].event.number = n - 1
      BY <2>3, <2>4
    <3>2. j \in 1 .. l /\ r[j] = q[j] /\ j \in 1 .. Len(r)
      BY <1>2, <2>1, <3>1
    <3> QED
      BY <3>1, <3>2
  <2> QED
    BY <2>1, <2>2, <2>3, <2>4
<1>5. ASSUME NEW i \in 1 .. Len(r), NEW j \in 1 .. Len(r), i < j, r[i].type = "event", r[j].type = "event"
      PROVE  r[i].event.number < r[j].event.number
  <2>1. i \in 1 .. Len(q) /\ j \in 1 .. Len(q) /\ r[i] = q[i] /\ r[j] = q[j]
    BY <1>2, <1>3
  <2> QED
    BY <1>5, <2>1 DEF EventsFollow
<1>6. Len(t) <= Len(p) /\ \A i \in 1 .. Len(t) : t[i] = p[i]
  BY DEF EventsFollow
<1> QED
  BY <1>2, <1>4, <1>5, <1>6 DEF EventsFollow

LEMMA TailFollows ==
  ASSUME NEW q \in Seq(RemMessage), q # <<>>, NEW t \in Seq(RemEvent), NEW p \in Seq(RemEvent), NEW s, EventsFollow(q, t, p, s),
         NEW t2 \in Seq(RemEvent), t2 = IF Head(q).type = "event" THEN Append(t, Head(q).event) ELSE t
  PROVE  EventsFollow(Tail(q), t2, p, s)
<1>1. PICK r : r = Tail(q)
  OBVIOUS
<1>2. /\ Len(r) = Len(q) - 1 /\ Len(q) \in Nat /\ Len(q) > 0 /\ \A i \in 1 .. Len(q) - 1 : r[i] = q[i + 1]
      /\ Head(q) = q[1] /\ 1 \in 1 .. Len(q) /\ Len(t) \in Nat /\ Len(p) \in Nat
  BY <1>1
<1>4. ASSUME NEW i \in 1 .. Len(q), q[i].type = "event"
      PROVE  /\ Len(t) <= q[i].event.number /\ q[i].event.number < Len(p) /\ q[i].event.number \in Nat
             /\ p[q[i].event.number + 1] = q[i].event
             /\ Len(t) < q[i].event.number =>
                    \E j \in 1 .. Len(q) : j < i /\ q[j].type = "event" /\ q[j].event.number = q[i].event.number - 1
  <2>1. q[i] \in RemMessage
    BY <1>4
  <2>2. q[i].event \in RemEvent
    BY <1>4, <2>1 DEF RemMessage
  <2>3. q[i].event.number \in Nat
    BY <2>2 DEF RemEvent
  <2> QED
    BY <1>4, <2>3 DEF EventsFollow
<1>5. Len(t) <= Len(p) /\ \A i \in 1 .. Len(t) : t[i] = p[i]
  BY DEF EventsFollow
<1>6. q[1].type = "event" => q[1].event.number = Len(t)
  <2> SUFFICES ASSUME q[1].type = "event", q[1].event.number # Len(t) PROVE FALSE
    OBVIOUS
  <2>1. Len(t) < q[1].event.number
    BY <1>2, <1>4
  <2>2. \E j \in 1 .. Len(q) : j < 1
    BY <1>2, <1>4, <2>1
  <2> QED
    BY <2>2
<1>7. /\ Len(t2) \in Nat /\ Len(t2) = (IF q[1].type = "event" THEN Len(t) + 1 ELSE Len(t))
      /\ Len(t2) <= Len(p) /\ \A i \in 1 .. Len(t2) : t2[i] = p[i]
  <2>1. CASE q[1].type = "event"
    <3>1. t2 = Append(t, q[1].event) /\ q[1].event = p[Len(t) + 1] /\ Len(t) < Len(p)
      BY <1>2, <1>4, <1>6, <2>1
    <3>2. Len(t2) = Len(t) + 1 /\ (\A i \in 1 .. Len(t) : t2[i] = t[i]) /\ t2[Len(t) + 1] = q[1].event
      BY <3>1
    <3>3. \A i \in 1 .. Len(t2) : t2[i] = p[i]
      BY <1>2, <1>5, <3>1, <3>2
    <3> QED
      BY <1>2, <2>1, <3>1, <3>2, <3>3
  <2>2. CASE q[1].type # "event"
    BY <1>2, <1>5, <2>2
  <2> QED
    BY <2>1, <2>2
<1>8. ASSUME NEW i \in 1 .. Len(q), q[i].type = "event", 1 < i PROVE Len(t2) <= q[i].event.number
  <2>1. CASE q[1].type = "event"
    <3>1. q[1].event.number < q[i].event.number
      BY <1>2, <1>8, <2>1 DEF EventsFollow
    <3> QED
      BY <1>2, <1>4, <1>6, <1>7, <1>8, <2>1, <3>1
  <2>2. CASE q[1].type # "event"
    BY <1>4, <1>7, <1>8, <2>2
  <2> QED
    BY <2>1, <2>2
<1>9. ASSUME NEW i \in 1 .. Len(r), r[i].type = "event"
      PROVE  /\ Len(t2) <= r[i].event.number /\ r[i].event.number < Len(p)
             /\ p[r[i].event.number + 1] = r[i].event
             /\ Len(t2) < r[i].event.number =>
                    \E j \in 1 .. Len(r) : j < i /\ r[j].type = "event" /\ r[j].event.number = r[i].event.number - 1
  <2>1. i + 1 \in 1 .. Len(q) /\ r[i] = q[i + 1] /\ 1 < i + 1 /\ i \in Nat
    BY <1>2
  <2>2. PICK n : n = q[i + 1].event.number
    OBVIOUS
  <2>3. /\ Len(t2) <= n /\ n < Len(p) /\ n \in Nat /\ p[n + 1] = q[i + 1].event
        /\ Len(t) < n => \E j \in 1 .. Len(q) : j < i + 1 /\ q[j].type = "event" /\ q[j].event.number = n - 1
    BY <1>4, <1>8, <1>9, <2>1, <2>2
  <2>4. ASSUME Len(t2) < n
        PROVE  \E j \in 1 .. Len(r) : j < i /\ r[j].type = "event" /\ r[j].event.number = n - 1
    <3>1. PICK j \in 1 .. Len(q) : j < i + 1 /\ q[j].type = "event" /\ q[j].event.number = n - 1
      BY <1>2, <1>7, <2>3, <2>4
    <3>2. j # 1
      BY <1>2, <1>6, <1>7, <2>3, <2>4, <3>1
    <3>3. j - 1 \in 1 .. Len(r) /\ j - 1 < i /\ r[j - 1] = q[j]
      BY <1>2, <2>1, <3>1, <3>2
    <3> QED
      BY <3>1, <3>3
  <2> QED
    BY <2>1, <2>2, <2>3, <2>4
<1>10. ASSUME NEW i \in 1 .. Len(r), NEW j \in 1 .. Len(r), i < j, r[i].type = "event", r[j].type = "event"
       PROVE  r[i].event.number < r[j].event.number
  <2>1. i \in 1 .. Len(q) - 1 /\ j \in 1 .. Len(q) - 1
    BY <1>2
  <2>2. i + 1 \in 1 .. Len(q) /\ j + 1 \in 1 .. Len(q) /\ i + 1 < j + 1
    BY <1>2, <1>10, <2>1
  <2>3. r[i] = q[i + 1] /\ r[j] = q[j + 1]
    BY <1>2, <2>1
  <2> QED
    BY <1>10, <2>2, <2>3 DEF EventsFollow
<1>11. ASSUME s = "open", NEW n \in Nat, Len(t2) <= n, n < Len(p)
       PROVE  \E j \in 1 .. Len(r) : r[j].type = "event" /\ r[j].event.number = n
  <2>1. Len(t) <= n
    BY <1>2, <1>7, <1>11
  <2>2. PICK j \in 1 .. Len(q) : q[j].type = "event" /\ q[j].event.number = n
    BY <1>11, <2>1 DEF EventsFollow
  <2>3. j # 1
    BY <1>2, <1>6, <1>7, <1>11, <2>2
  <2>4. j - 1 \in 1 .. Len(r) /\ r[j - 1] = q[j]
    BY <1>2, <2>3
  <2> QED
    BY <2>2, <2>4
<1>12. EventsFollow(r, t2, p, s)
  BY <1>7, <1>9, <1>10, <1>11 DEF EventsFollow
<1> QED
  BY <1>1, <1>12

LEMMA PushedFollows ==
  ASSUME RemEventsInv, NEW s, socket = s,
         NEW m \in RemMessage, m.type = "response", down' = (IF s = "open" THEN Append(down, m) ELSE down),
         up' \in Seq(RemCalls), UNCHANGED <<told, pushed, socket>>
  PROVE  RemEventsInv'
<1>1. PICK q, t, p, r : q = down /\ t = told /\ p = pushed /\ r = down'
  OBVIOUS
<1>2. q \in Seq(RemMessage) /\ t \in Seq(RemEvent) /\ p \in Seq(RemEvent) /\ EventsFollow(q, t, p, s)
  BY <1>1 DEF RemEventsInv
<1>3. r = q \/ r = Append(q, m)
  BY <1>1
<1>4. r \in Seq(RemMessage)
  BY <1>2, <1>3
<1>5. EventsFollow(r, t, p, s)
  BY <1>2, <1>3, ResponseFollows
<1> QED
  BY <1>1, <1>2, <1>4, <1>5 DEF RemEventsInv

LEMMA RespondKeeps ==
  ASSUME RemEventsInv, NEW k \in RemCalls, NEW ok \in BOOLEAN, Respond(k, ok), up' \in Seq(RemCalls),
         UNCHANGED <<told, pushed, socket>>
  PROVE  RemEventsInv'
<1>1. PICK m, s : m = [type |-> "response", call |-> k, ok |-> ok] /\ s = socket
  OBVIOUS
<1>2. m \in RemMessage /\ m.type = "response"
  BY <1>1 DEF RemMessage
<1>3. down' = (IF s = "open" THEN Append(down, m) ELSE down)
  BY <1>1 DEF Respond, ServerSends
<1> QED
  BY <1>1, <1>2, <1>3, PushedFollows

LEMMA ServerReceivesKeeps == ASSUME RemEventsInv, ServerReceives PROVE RemEventsInv'
<1>1. /\ up # <<>> /\ up' = Tail(up) /\ UNCHANGED <<told, pushed, socket>>
      /\ Respond(Head(up), FALSE) \/ down' = down
  BY DEF ServerReceives, remClient, remEvents
<1>2. up \in Seq(RemCalls)
  BY DEF RemEventsInv
<1>3. up' \in Seq(RemCalls) /\ Head(up) \in RemCalls
  BY <1>1, <1>2
<1>4. CASE down' = down
  BY <1>1, <1>3, <1>4 DEF RemEventsInv
<1>5. CASE Respond(Head(up), FALSE)
  BY <1>1, <1>3, <1>5, RespondKeeps
<1> QED
  BY <1>1, <1>4, <1>5

LEMMA ServerPushesKeeps == ASSUME RemEventsInv, NEW d \in RemDevices, ServerPushes(d) PROVE RemEventsInv'
<1>1. PICK e, m : e = [device |-> d, number |-> Len(pushed)] /\ m = [type |-> "event", event |-> e]
  OBVIOUS
<1>2. /\ pushed' = (IF socket = "open" THEN Append(pushed, e) ELSE pushed)
      /\ down' = (IF socket = "open" THEN Append(down, m) ELSE down)
      /\ UNCHANGED <<up, told, socket>>
  BY <1>1 DEF ServerPushes, ServerSends, remClient
<1>3. CASE socket # "open"
  BY <1>2, <1>3 DEF RemEventsInv
<1>4. CASE socket = "open"
  <2>1. PICK q, t, p : q = down /\ t = told /\ p = pushed
    OBVIOUS
  <2>2. q \in Seq(RemMessage) /\ t \in Seq(RemEvent) /\ p \in Seq(RemEvent) /\ EventsFollow(q, t, p, "open")
    BY <1>4, <2>1 DEF RemEventsInv
  <2>3. e \in RemEvent /\ e.number = Len(p) /\ m \in RemMessage
    BY <1>1, <2>1, <2>2 DEF RemEvent, RemMessage
  <2>4. Append(q, m) \in Seq(RemMessage) /\ Append(p, e) \in Seq(RemEvent)
    BY <2>2, <2>3
  <2>5. EventsFollow(Append(q, m), t, Append(p, e), "open")
    BY <1>1, <2>2, <2>3, EventFollows
  <2>6. down' = Append(q, m) /\ pushed' = Append(p, e) /\ told' = t /\ socket' = "open" /\ up' = up
    BY <1>2, <1>4, <2>1
  <2> QED
    BY <2>2, <2>4, <2>5, <2>6 DEF RemEventsInv
<1> QED
  BY <1>3, <1>4

LEMMA ClientReceivesKeeps == ASSUME RemEventsInv, ClientReceives PROVE RemEventsInv'
<1>1. PICK q, t, p, t2, s : q = down /\ t = told /\ p = pushed /\ t2 = told' /\ s = socket
  OBVIOUS
<1>2. q \in Seq(RemMessage) /\ t \in Seq(RemEvent) /\ p \in Seq(RemEvent) /\ EventsFollow(q, t, p, s)
  BY <1>1 DEF RemEventsInv
<1>3. /\ q # <<>> /\ down' = Tail(q) /\ UNCHANGED <<up, pushed, socket>>
      /\ \/ Head(q).type = "event" /\ t2 = Append(t, Head(q).event)
         \/ Head(q).type = "response" /\ t2 = t
  BY <1>1 DEF ClientReceives, RemNotify, remEvents
<1>4. t2 = IF Head(q).type = "event" THEN Append(t, Head(q).event) ELSE t
  BY <1>3
<1>5. t2 \in Seq(RemEvent)
  <2>1. CASE Head(q).type = "event"
    <3>1. Head(q) \in RemMessage
      BY <1>2, <1>3
    <3>2. Head(q).event \in RemEvent
      BY <2>1, <3>1 DEF RemMessage
    <3> QED
      BY <1>2, <1>4, <2>1, <3>2
  <2>2. CASE Head(q).type # "event"
    BY <1>2, <1>4, <2>2
  <2> QED
    BY <2>1, <2>2
<1>6. EventsFollow(Tail(q), t2, p, s)
  <2>1. q # <<>>
    BY <1>3
  <2> QED
    BY ONLY <1>2, <1>4, <1>5, <2>1, TailFollows
<1>7. Tail(q) \in Seq(RemMessage)
  BY <1>2, <1>3
<1> QED
  BY <1>1, <1>2, <1>3, <1>5, <1>6, <1>7 DEF RemEventsInv

LEMMA SocketEndsKeeps == ASSUME RemEventsInv, SocketBreaks \/ ClientCloses PROVE RemEventsInv'
<1>1. PICK q, t, p, s, r, u : q = down /\ t = told /\ p = pushed /\ s = socket /\ r = down' /\ u = socket'
  OBVIOUS
<1>2. q \in Seq(RemMessage) /\ t \in Seq(RemEvent) /\ p \in Seq(RemEvent) /\ EventsFollow(q, t, p, s)
  BY <1>1 DEF RemEventsInv
<1>3. /\ UNCHANGED <<told, pushed>> /\ u # "open" /\ (r = <<>> \/ r \in Prefixes(q))
      /\ up' = up \/ up' \in Prefixes(up)
  BY <1>1 DEF SocketBreaks, ClientCloses, remEvents
<1>4. r \in Prefixes(q)
  <2>1. <<>> = SubSeq(q, 1, 0) /\ 0 \in 0 .. Len(q)
    BY <1>2
  <2> QED
    BY <1>3, <2>1 DEF Prefixes
<1>5. up' \in Seq(RemCalls)
  <2>1. up \in Seq(RemCalls)
    BY DEF RemEventsInv
  <2>2. CASE up' \in Prefixes(up)
    <3>1. PICK l \in 0 .. Len(up) : up' = SubSeq(up, 1, l)
      BY <2>2 DEF Prefixes
    <3> QED
      BY <2>1, <3>1
  <2> QED
    BY <1>3, <2>1, <2>2
<1>6. r \in Seq(RemMessage) /\ EventsFollow(r, t, p, u)
  BY <1>2, <1>3, <1>4, PrefixFollows
<1> QED
  BY <1>1, <1>2, <1>3, <1>5, <1>6 DEF RemEventsInv

LEMMA SendCommandKeeps ==
  ASSUME RemEventsInv, NEW kind, NEW k \in RemCalls, NEW c, NEW d, SendCommand(k, kind, c, d)
  PROVE  RemEventsInv'
<1>1. UNCHANGED <<down, told, pushed, socket>> /\ (up' = Append(up, k) \/ up' = up)
  BY DEF SendCommand, remEvents
<1>2. up' \in Seq(RemCalls)
  <2>1. up \in Seq(RemCalls)
    BY DEF RemEventsInv
  <2> QED
    BY <1>1, <2>1
<1> QED
  BY <1>1, <1>2 DEF RemEventsInv

LEMMA RemEventsNextInv == RemEventsInv /\ [RemNext]_remVars => RemEventsInv'
<1> SUFFICES ASSUME RemEventsInv, [RemNext]_remVars PROVE RemEventsInv'
  OBVIOUS
<1>1. ASSUME UNCHANGED <<up, down, told, pushed, socket>> PROVE RemEventsInv'
  BY <1>1 DEF RemEventsInv
<1>2. CASE RemResume \/ \E k \in RemCalls : RemTimeout(k)
  BY <1>1, <1>2 DEF RemResume, RemTimeout, Finish, remServer, remEvents
<1>3. ASSUME NEW k \in RemCalls, NEW d \in RemDevices, RemConnect(k, d) \/ RemProbe(k, d) PROVE RemEventsInv'
  BY <1>3, SendCommandKeeps DEF RemConnect, RemProbe
<1>4. ASSUME NEW k \in RemCalls, NEW c \in RemCalls, RemDisconnect(k, c) \/ RemOperate(k, c) PROVE RemEventsInv'
  BY <1>4, SendCommandKeeps DEF RemDisconnect, RemOperate
<1>5. CASE ClientReceives
  BY <1>5, ClientReceivesKeeps
<1>6. CASE ClientCloses \/ SocketBreaks
  BY <1>6, SocketEndsKeeps
<1>7. CASE ServerReceives
  BY <1>7, ServerReceivesKeeps
<1>8. CASE ServerNotices
  BY <1>1, <1>8 DEF ServerNotices, remClient, remEvents
<1>9. ASSUME NEW k \in RemCalls, NEW ok \in BOOLEAN, ServerAnswers(k, ok) PROVE RemEventsInv'
  <2>1. Respond(k, ok) /\ UNCHANGED <<up, told, pushed, socket>>
    BY <1>9 DEF ServerAnswers, remClient, remEvents
  <2>2. up' \in Seq(RemCalls)
    BY <2>1 DEF RemEventsInv
  <2> QED
    BY <2>1, <2>2, RespondKeeps
<1>10. ASSUME NEW d \in RemDevices, ServerPushes(d) PROVE RemEventsInv'
  BY <1>10, ServerPushesKeeps
<1>11. ASSUME NEW d \in RemDevices, DeviceDrops(d) PROVE RemEventsInv'
  BY <1>1, <1>11 DEF DeviceDrops, remClient, remEvents
<1>12. ASSUME NEW d \in RemDevices, NEW ok \in BOOLEAN, ServerTearsDown(d, ok) PROVE RemEventsInv'
  BY <1>1, <1>12 DEF ServerTearsDown, remClient, remEvents
<1>13. CASE UNCHANGED remVars
  BY <1>1, <1>13 DEF remVars
<1> QED
  BY <1>2, <1>3, <1>4, <1>5, <1>6, <1>7, <1>8, <1>9, <1>10, <1>11, <1>12, <1>13 DEF RemNext

\* The adapter at the client's end of a socket notifies the events of the server in the order in
\* which the server sent them, none twice and none left out before the last, whatever answers
\* come between them and wherever the socket breaks (device_adapter.py, _manage_connection and
\* the callbacks of the five events; device_server.py, client_event_handler).
THEOREM RemoteEventsAreInOrder == RemSpec => []RemEventsInOrder
<1>1. RemInit => RemEventsInv
  <2> SUFFICES ASSUME RemInit PROVE RemEventsInv
    OBVIOUS
  <2>1. up = <<>> /\ down = <<>> /\ told = <<>> /\ pushed = <<>>
    BY DEF RemInit
  <2>2. Len(<<>>) = 0 /\ \A S : <<>> \in Seq(S)
    OBVIOUS
  <2>3. EventsFollow(<<>>, <<>>, <<>>, socket)
    BY <2>2 DEF EventsFollow
  <2> QED
    BY <2>1, <2>2, <2>3 DEF RemEventsInv
<1>2. RemEventsInv => RemEventsInOrder
  <2> SUFFICES ASSUME RemEventsInv PROVE told \in Prefixes(pushed)
    BY DEF RemEventsInOrder
  <2>1. /\ told \in Seq(RemEvent) /\ pushed \in Seq(RemEvent) /\ Len(told) <= Len(pushed)
        /\ \A i \in 1 .. Len(told) : told[i] = pushed[i]
    BY DEF RemEventsInv, EventsFollow
  <2>2. PICK l, a : l = Len(told) /\ a = SubSeq(pushed, 1, l)
    OBVIOUS
  <2>3. l \in 0 .. Len(pushed)
    BY <2>1, <2>2
  <2>4. a \in Seq(RemEvent) /\ Len(a) = l /\ \A i \in 1 .. l : a[i] = pushed[i]
    BY <2>1, <2>2, <2>3
  <2>5. a = told
    BY <2>1, <2>2, <2>4, SeqEqual
  <2> QED
    BY <2>2, <2>3, <2>5 DEF Prefixes
<1> QED
  BY <1>1, <1>2, RemEventsNextInv, PTL DEF RemSpec

=============================================================================

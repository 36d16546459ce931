# TLA+ models of coretools

coretools is the host side of the IOTile platform: libraries that talk to
devices over many transports, a gateway that shares devices and services
between processes, the sensor graph engine, and an emulator of IOTile devices
that runs the same RPCs as the firmware. Almost all of it runs on one asyncio
event loop per process, with synchronous callers on other threads. What is hard
in it is what happens between two `await`s: callers that give up, connections
that go away, resets and snapshots that come in the middle, caches that are kept
up to date by notifications.

The modules here model that part, and the formats and algorithms that the parts
share. Each is model-checked with TLC on small instances, and the central ones are
proved with TLAPS for every instance. `PROJECT.json` maps each definition to the
lines it stands for, lists every run, the mutants that show that each property can
fail, and the hazards the properties are aimed at. Section 4 lists where code and
documentation disagree.

## 1. Inventory

For every modelled component: its state, its operations, how it interacts, what
is hard about it, and what makes it correct.

### The sensor graph engine and the emulated device

**Sensor log** (`iotile/sg/sensor_log.py`, `engine/in_memory.py`, `walker.py`).
*State:* two bounded areas of readings, a rollover flag for each, the walkers
(an offset and a count into an area, or the last reading of a virtual stream),
the last value of every virtual stream. *Operations:* push, create and destroy
walkers, pop, peek, seek, skip_all, clear, set_rollover, dump, restore.
*Interacts* with its walkers by `notify_added` and `notify_rollover`; streamers,
graph nodes and dump RPCs hold walkers. *Hard:* cached offsets and counts, a push
that fails half way, a restore that fails half way. *Correct if* areas stay
bounded and ordered, nothing is lost but by rollover, a walker is a private FIFO,
and a dump gives the state back.

**Sensor graph** (`iotile/sg/graph.py`, `node.py`, `processors`,
`controller_features/sensor_graph.py`). *State:* the nodes with their inputs,
roots and outputs, the constants, the inputs that wait, the worker that processes
them. *Operations:* add a node, push an input, process, answer an RPC, push a
constant, persist, clear, reset; of a compiled graph, sort its nodes, find its inputs,
load its constants, compute the checksum of the device it configures. *Interacts* with
the log through walkers and with tiles by RPCs. *Hard:* a node that is refused half way
stays linked; a reset comes while a node awaits an RPC; a checksum is part of what is
summed. *Correct if* nodes run when their triggers hold, in the order of the graph, with
what their walkers give, and a node comes after those it reads from.

**Emulated device RPC dispatch** (`iotile/emulate/internal/rpc_queue.py`,
`response.py`, `emulation_loop.py`, `virtual/emulated_device.py`). *State:* the
queue of calls, the call that runs, the calls answered later, what every caller
waits on. *Operations:* call from inside and from outside the loop, dispatch,
return, raise, defer, finish, time out, stop. *Hard:* a caller inside the loop
that times out cancels the future the dispatcher will set. *Correct if* every
call is answered once, the dispatcher survives, and idle means idle.

**Emulated tiles and their reset** (`virtual/emulated_tile.py`,
`peripheral_tile.py`, `reference_controller.py`, `tile_manager.py`,
`emulation_loop.py`). *State:* for each tile its task, whether it is registered,
configured and running; the queue of the tile manager; the tasks of the loop.
*Operations:* start, reset of a tile and of the controller, register, configure,
START, deferred answers, wait_idle. *Hard:* a reset restarts the tasks that carry
it out; what is queued for a tile outlives its reset. *Correct if* a tile that runs
has its configuration, and the device comes up again after a reset.

**Config database** (`controller_features/config_database.py`,
`virtual/emulation_mixin.py`). *State:* entries, the entry in progress, the space
used. *Operations:* start, push, end, abort, set, invalidate, compact, clear, save
and load. *Hard:* the accounting of space when an entry is refused, a save that
fails. *Correct if* the last value of every variable is what is streamed to its
tile, and space is accounted for.

**Clock, remote bridge, tile variables** (`clock_manager.py`, `remote_bridge.py`,
`emulated_tile.py`, and `hw/proxy/proxy.py` that talks to them). *State:* uptime, offset
and timers; the state of the bridge, the script it receives and its error; the declared
variables of a tile and the values latched. *Operations:* tick, set a timer or the time,
begin, receive, end, trigger and reset a script, save and load; declare, list, describe,
get and set a variable, page by page and chunk by chunk; pack, send, retry and unpack an RPC.
*Hard:* timers that compare for equality, an offset kept through a reset, a save
that fails half way. *Correct if* timers fire at their interval, the time a user
sets is kept, a script is run as it was received, a proxy sees the tile's variables, and an
RPC has the same outcome through one transport as through several.

**Emulated streaming** (`controller_features/stream_manager.py`,
`sensor_graph.py`, `sg/graph.py`, `sg/streamer.py`). *State:* the walker and the
acknowledgement of every streamer, the queue of triggered ones, the worker.
*Operations:* store, trigger, acknowledge, build, send or fail a report, reset.
*Hard:* a reset cancels the worker and does not wait for it; clients acknowledge
while a report is sent. *Correct if* nothing is skipped, acknowledgements only
grow, and every streaming ends.

### Transports and what uses them

**Adapter notifications** (`transport/adapter/mixin_notifications.py`).
*State:* monitors by device and event, adjustments held back while a notification
runs. *Operations:* register, adjust, remove, notify. *Interacts* with every user
of an adapter, whose callbacks may adjust monitors themselves. *Hard:*
notifications overlap but share one flag and one list. *Correct if* everybody
listed is called and no adjustment is lost.

**Operation manager** (`utilities/async_tools/operation_manager.py`). *State:* the
waiters, the message queue, a pause count, a dispatch flag, a lock. *Operations:*
wait_for, gather_count, every_match, queue and process messages, pause, unpause,
clear. *Hard:* the flag is tested and set by other threads; a future that is done
is unregistered later. *Correct if* no message is stuck, a waiter gets the first
match, and a gather is exact.

**Device server** (`transport/server/standard.py`, the task handling of
`socket_lib/generic/socket_server.py`, `mixin_conndata.py`). *State:* clients,
the connections of each, the adapter's own table, the commands in progress.
*Operations:* setup and teardown of a client, connect, disconnect, open and close
interface, a device that disconnects itself. *Interacts* with the adapter by
calls and with Notifications by monitors. *Hard:* commands of one client run in
parallel, and are cancelled when it leaves. *Correct if* connections are private,
events follow them, and a client that has gone leaves nothing behind.

**Gateway device aggregation** (`iotilegateway/device.py`). *State:* the devices
seen by each adapter, the gateway's table of connections and its reverse. *Operations:*
device seen, connect, disconnect, pass events on. *Hard:* the gateway's table has
to fit the adapters' at every moment although each changes across awaits.
*Correct if* a link of an adapter is always known and its events are named as the
user named the device.

**Hardware manager and adapter stream** (`hwmanager.py`, `adapterstream.py`,
`async_wrapper.py`). *State:* the connection, the interfaces that are open, the
queues of reports and traces. *Operations:* connect, disconnect, stream, an
interruption with its reconnection. *Hard:* the user's thread and the loop's thread
write the same fields without a lock. *Correct if* what a script reads comes from
the device it is connected to.

**Native BLE, BLED112** (`native_ble/`, `bled112/`, `transport/adapter/legacy.py`).
*State:* the table of connections and what each is doing; the link at the device;
commands in a queue; the callers that block. *Operations:* connect, disconnect,
open, close, RPC, script, with retries, timeouts, and links that drop. *Hard:* three
threads; the request and the action that announces it start together. *Correct if*
whoever blocks returns, and the table agrees with the links.

**J-Link** (`jlink/jlink.py`, `jlink_background.py`). *State:* the memory that host
and device share, the connection, the polling task. *Operations:* connect, RPC,
script, streaming, tracing, flashing, disconnect. *Hard:* every access to the memory
is awaited and there is no lock. *Correct if* answers go to their calls.

**AWS IoT** (`awsiot/`). *State:* connections at the clients and at the agent, the
numbers of packets. *Operations:* connect, operate, disconnect, hang up; publish,
receive, reorder. *Hard:* messages repeat and change places. *Correct if* answers go
to their calls and topics keep their order.

**Remote devices over a socket** (`socket_lib/generic/device_adapter.py`, `device_server.py`).
*State:* the client's table of connections, the server's, the messages on their way.
*Operations:* probe, connect, disconnect, interfaces, RPC, script, with time-outs; events; the
loss of the socket. *Hard:* answers may come after their time-out, after a loss, and after
their connection has gone. *Correct if* what is listed as connected is so at the server or its
end is on the way, and answers go to their calls.

**Event loop** (`utilities/async_tools/event_loop.py`). *State:* tasks, subtasks,
calls of other threads, whether it is stopping. *Operations:* add tasks, run
coroutines, stop a task, stop the loop. *Hard:* threads look at a flag before the
loop stops and hand over after it. *Correct if* stopped means ended, and callers
return.

### Supervisor

**RPC broker** (`iotilegateway/supervisor/server.py`, `service_manager.py`,
`async_tools/awaitable_dict.py`). *State:* clients, agents of services, RPCs in
flight, the futures senders wait on. *Operations:* connect, disconnect, set_agent,
send_rpc, respond_rpc, the timeout. *Hard:* the timeout races the answer. *Correct
if* an answer in time wins, every send returns, and nothing is kept for it.

**Supervisor and its clients** (`supervisor/service_manager.py`, `states.py`,
`client.py`). *State:* the services, their status, messages and headline, in the
server and in a copy in every client. *Operations:* register, update, post,
notify, connect, sync. *Hard:* the copy is made in many round trips while the
original changes; notifications are cut off. *Correct if* a client that has been
told everything agrees with the server.

### Formats and algorithms

**Components and versions** (`core/dev/registry.py`, `semver.py`, `iotileobj.py`,
`build/dev/depmanager.py`, `resolverchain.py`, `hwmanager.py`). *State:* the components
registered and their overlays, the extensions with their frozen list, what a build has
unpacked of its dependencies. *Operations:* add, find and remove components, freeze and
unfreeze, update and check dependencies, choose the proxy of a tile and the app of a device.
*Hard:* three copies of what is installed, each stale in its own way; prereleases at the ends
of ranges. *Correct if* a dependency that counts as up to date is a copy of what is
registered, and what is chosen fits the version.

**Descriptors** (`iotile/sg/stream.py`, `slot.py`, `node_descriptor.py`,
`streamer_descriptor.py`): streams, selectors, slots, nodes and streamers as text and
as numbers. **Update scripts** (`iotile/core/hw/update`, `iotile/sg/update`):
operations as records and back, several classes claiming one record. **Reports and
authentication** (`iotile/core/hw/reports`, `iotile/core/hw/auth`): the forms of
reports, the parser of a stream that arrives in pieces, the keys that make readings
visible, and the assignment of UTC to readings stamped in uptime. *Hard:* sentinels
and boundaries, chunks, order, and time that starts again. *Correct if* what is
written and read back is what it was wherever its form can hold it.

How they fit together: a script talks to the *hardware manager*, it to an adapter:
one of the *transports*, or the *gateway*'s, which combines several; *device servers*
share an adapter between clients, over sockets whose replies the *operation manager*
matches; adapters tell their users by *notifications*. The *supervisor* connects
processes to each other. All of it runs in the *event loop*. An emulated device is
reached through an adapter and runs its RPCs in the *dispatcher*; its controller keeps
the *sensor log*, the *sensor graph*, the *config database*, *clock* and *bridge*, and
streams *reports*.

## 2. Modules and how they correspond to the code

| Module | Models | State and actions |
|---|---|---|
| `SensorLog` | sensor log, engine, walkers | `data`, `wk`, ... are the attributes; one action per method, `push` split by outcome (`PushStored`, `PushRefused`, `PushRollover`, `PushOutOfSync`, `PushVirtual`) |
| `WalkerFifo` | abstract: a FIFO per walker | `unread`, the readings each walker has yet to return, the oldest (smallest id) first; `stored`, the readings in the log. A call of the log or of one walker is an action each, and says what it may do to every FIFO; what `SensorLog` is shown to implement |
| `SensorLogDump` | dump and restore; extends `SensorLog` | `saved`; `Dump`, `Restore` with every point at which it may raise |
| `SensorGraph` | nodes, triggers, the graph's worker and its subsystem; the compiled graph | an action per call, and per step of the worker between two awaits; sorting, constants and checksum as operators on a graph |
| `RPCQueue` | dispatcher and callers | one action per step between awaits; handlers choose their outcome |
| `DeviceReset` | tasks of tiles, tile manager, reset, wait_idle | a step of each task up to its next await |
| `ConfigDatabase` | the database and its RPCs | one action per RPC, `save_state`, `load_state` |
| `Controller` | clock, bridge, tile variables, version tags; the proxy of a tile | one action per RPC and tick; config variables, as the tile declares and the proxy sees them, and RPCs as operators |
| `Components` | registry, extensions, dependencies; versions and their ranges | `cmpStore`, `cmpOverlays`, `cmpExt` are the stores, `cmpUpdate` the dependency an update is at; one action per call, an update in two steps; versions as operators |
| `Streaming` | streamers, acknowledgements, worker | workers of before and after a reset run side by side |
| `Notifications` | the monitors of an adapter | `notifier` holds the notifications in progress; each is `Begin` and one `Resume` per callback that suspends |
| `OperationManager` | waiters and dispatch | loop steps, and three steps (test, set, launch) for a thread |
| `DeviceServer` | server over an adapter; extends `Notifications` | a command is its call, the adapter's answer, and its end; `op` holds those in progress |
| `Gateway` | the aggregating adapter over abstract adapters | `connect` and `disconnect` are split at their await; `Report` and `Drop` are the adapters' |
| `HardwareManager` | hwmanager, adapter stream, async wrapper over an abstract adapter | the coroutines of each blocking call, and the adapter's notifications between them |
| `NativeBLE` | the BLE adapter, its synchronous wrappers and its connection manager | callers in both forms, the thread of the manager, the results of the radio, the timeouts |
| `RemoteAdapter` | the adapter and the server of devices behind a socket | the messages in both directions, the calls that wait, both tables |
| `BLED112` | the dongle's adapter and its command thread | callers, commands, the dongle's events |
| `JLink` | the adapter over a debug probe | an operation is the list of its accesses to memory still to make |
| `AWSGateway`, `PacketQueue` | agent and clients over MQTT; the ordering of packets | commands in any order, responses in order; a queue per topic |
| `EventLoop` | the background loop | threads, tasks, the phases of stopping |
| `ServiceRPC` | the RPC broker | `Send`, `Sent`, `Expire`, `Get`, `Respond`, connections |
| `ServiceSync` | services, notifications, client copies | server handlers, `Advance` of a notification, `ReceiveReply` and `ReceiveEvent` of a client |
| `Descriptors`, `UpdateScripts`, `Reports` | formats and algorithms | no state: operators, and the sets of cases they are tried on |
| `None` | the constant `NULL` | |
| `MC*` | instances for TLC | constants, symmetry, bounds; those of several components choose one of them initially |
| `*Proofs` | proofs of the component they are named after (`NotificationsProofs` also of `OperationManager`; `GatewayProofs` of `ServiceSync`; `TransportProofs` of `HardwareManager`, `AWSGateway`, `BLED112`, `PacketQueue` and `RemoteAdapter`) | |

`DeviceServer` composes the server with the adapter's connections and with the
whole of `Notifications`. `SensorLogDump` composes the snapshots with every
operation of `SensorLog`. `Streaming` and `SensorGraph` use the walkers as `WalkerFifo`
describes them, and leave their breaking by rollovers to `SensorLog`. `DeviceReset` has
a dispatcher of its own, whose handlers take no time; what it does when they do is in
`RPCQueue`.

Conventions. An action is what the code does between two points at which it may
be suspended. Exceptions are outcomes: what has been changed before the exception
stays changed. Data is abstracted to what the properties tell apart: a reading is
its stream and id, a message its kind, a report the set of readings in it, a
selector the set of streams it matches. Modules that are checked together give their
definitions prefixes (`Sg`, `Ct`, `Dv`, `Gw`, `Hw`, `Ble`, `B112`, `JL`, `AW`, `PQ`, `EL`,
`Cmp`, `Ds`, `Us`, `Rp`). Variables that exist only for properties are marked as history in the
declarations. Definitions marked *Mutant* before a definition, or given in parentheses, or
named for what they leave out, are wrong versions of it, used to show that a property
notices.

## 3. Runs

A run searches the whole state space of its instance. Components that share no state
are checked one at a time in one run: the MC module extends them all, the constant
`Parts` names them, the initial state chooses one, and the others stay as they are. Its
properties are conjunctions over the components, or cases of them.
`CHECK_DEADLOCK FALSE` stands where the system may stop: the bounds are used up, the
device is off, or all clients are gone.

| Run | Instance, and why it is enough | Shows |
|---|---|---|
| `sensor_log` | 2 walkers with overlapping selectors, 2 storage streams, an output stream and an unbuffered one, 3 readings erased 2 at a time, 4 ids: a rollover takes readings that a walker has passed, is at, and has before it | ids unique and in order over both areas; offsets and counts exact until a rollover breaks a walker; only rollovers and `clear()` lose readings; refinement of `WalkerFifo` |
| `sensor_log_out_of_sync` | the same | violation: section 4, first item |
| `sensor_log_dump` | 2 walkers on one storage stream, or on an unbuffered stream and a counter; one dump, any number of restores | what a restore brings back, when it succeeds, and what it leaves in order when it raises half way |
| `emulator` | `RPCQueue`: 2 calls inside the loop and 1 outside, 2 tiles with 2 rpcs: two calls meet on a tile, on an rpc, and on the dispatcher. `DeviceReset`: a controller and a tile with one config variable, two callers, two calls: a reset during a reset and during configuration | work is counted exactly, calls are answered once, the dispatcher dies of one thing only; tiles run configured unless a reset overtakes their configuration; every call is answered, and the device comes up again |
| `notifications` | `Notifications`: 2 overlapping notifications, 2 handles, callbacks that adjust at once or hold back, a notification that goes on after the other has cleared the flag. `OperationManager`: 2 waiters (one with a timeout), a `gather_count()`, a coroutine callback, a thread, 2 messages, every use of pause | nothing is stranded, lost or overtaken; everybody is called; no message stuck, exact gathers, first match returned |
| `devices` | `Gateway`: 2 adapters with room for one, 2 devices known under the same strings, 2 connections. `DeviceServer`: 2 clients, 2 parallel commands, 2 devices, 2 connection ids, a device that disconnects itself | every entry is a link; connections are private and events follow them; leavers leave nothing |
| `services` | `ServiceRPC`: 2 RPCs between 3 clients: sender, agent and one more. `Streaming`: an automatic streamer of lists and one of single readings, 3 readings, 3 requests of a client, a reset | answers in time win, no key is left, every send returns; one item for a streamer in progress, nothing skipped, acknowledgements only grow, every streaming ends |
| `service_sync` | 2 clients, 2 services, 3 changes, 2 notifications at once: one may overtake the other, and the bounded list of messages overflows | a client that was told everything agrees with the server |
| `features` | `ConfigDatabase`: 2 variables or 2 chunks, room for less than two entries of two, a save and loads at any moment. `SensorGraph`: 3 nodes of 4 kinds and an input, or 2 and 2 inputs, a constant, an RPC, a reset. `Controller`: time and timers through 2 resets with and without a clock, or scripts and states saved and loaded. `Components`: 2 names with 2 folders and 2 versions: a source is replaced between two updates. The formats, versions, variables, RPCs and compiled graphs of up to 4 nodes: each on its set of cases | the latest values are streamed, space is accounted for; nodes run when they should; timers, clock and bridge are consistent; copies of components are those that are registered; what is written is read back, streams may be cut anywhere, an exact UTC is true |
| `progress` | `NativeBLE`: three calls on one connection. `BLED112`: two calls, one handle that is used again. `EventLoop`: three threads | whoever blocks returns; table and links agree; stopped means ended (of a task itself; of its subtasks only that none runs on when the loop has halted) |
| `transports` | `JLink`: four calls of two tasks, four pushes into a ring of three, so that its index wraps. `AWSGateway`: two clients, one device that loses its link by itself once, four calls. `PacketQueue`: five packets, one repeated, a callback that raises once, a reset. `BLED112`: three calls. `HardwareManager`: two devices, a stream, an RPC, two events of the adapter. `RemoteAdapter`: one device with a few calls, two events on their way, one loss of the socket | answers belong to their calls, packets keep their order, entries follow links, what is read comes from the device |
| `aws_foreign` | `AWSGateway`: five calls | violation: section 4 |

Several properties have a condition. Each names the exact circumstance in which the code
does not keep what it promises, as found by checking the property without it, and says that
there is no other: `rolled` (a rollover has taken a reading the walker selects or has not
passed), `outlives` (another notification has ended before this one and cleared the flag
they share), `unclosed` (connections whose disconnect failed, was cut short, or took a newer
one off the record), `upset` (`process_message()` has raised, or a thread was overtaken by a
pause), `refused` (`start_entry()` found no space), `Undisturbed` (no caller inside the loop
has given up; the controller has not been reset), the outcomes `error` and `cancelled` of a
`send_rpc()` that was interrupted, `untold` and `disturbed` (clients that a notification did
not reach, or that synced while services changed), `dropped` (connections that their
device has dropped) and `awDropped` (the same for the agent of AWS IoT), `sharing` (connections
of the gateway that had a string at the same time as another), `pqRaised` (the callback of a
packet queue raised at the last arrival), `mixed` (a J-Link interface was opened during a
disconnection), `dvOvertaken` and `DvRefused` (a reset came before the configuration was
sent, or while a tile had deferred a call), `RpResetsShow` (every reset between two readings
shows as a smaller uptime). Those that are variables are history: nothing the code does
depends on them. So are `asked` of `Notifications` (the monitors if nothing were ever held back)
and `caller` of `SensorLog` (whose call the last one was), which state properties.

Every module with state states its types in `TypeOK` or an operator of its prefix. It is
checked in two of the runs; in the others the types hold in the instances above, and the
properties that use the state say more.

### Bounds

Every bound is a constant that says so (`MaxId`, `MaxDeferred`, `MaxConnections`,
`MaxMessages`, `MaxChanges`, `MaxNotifying`, `MaxEntries`, `MaxChunks`, `MaxAborted`,
`MaxReadings`, `MaxResets`, `MaxTriggers`, `MaxConns`, and those of a component that begin
with its prefix), or an identity that is used once
(calls, RPCs, connection ids). They were chosen so that the hard case happens and one more
step is left after it: a push after a rollover, a reconnect after a loss, a change while
another is being notified. `SensorLogDump` makes one dump in a behaviour. The two instances
of the log use it for buffered or for virtual streams, which share no state, and not for
both at once (`OneKindOfStream`, a state constraint in each of them; in `sensor_log_dump` it
also lets a counter count to two, and changes the mode of the log only while nothing is
walked; `sensor_log` keeps the rollover of the area for streaming set). In `features` an entry has many chunks or there are many variables (`Variety`), time
passes or scripts and states are handled (`Separately`; a realtime clock is there only for
the former), and there are many nodes or many inputs (`Tractable`). Symmetry is used for
walkers, clients, devices, connections and texts that no definition tells apart, and in no
run with a liveness property.

Widths that matter are kept or scaled down by a constant that says so: the high bit of a raw
time (`RpHigh`), the bits of a tag (`UsTagBits`), the bytes of an RPC (`UsChunk`); ids and
references of descriptors have their real widths (`DsIds`, `DsOthers` lie at the boundaries).

### Fairness

asyncio runs every callback that is ready, and a timer fires when it is due. So weak
fairness is assumed of the steps of a coroutine or thread that is not waiting for anybody
else: the dispatcher, and the return or the timeout of a caller (`RPCQueue`), the tasks of
tiles (`DeviceReset`), the worker (`Streaming`; a report is sent or fails), the timeout and the
end of `get()` (`ServiceRPC`), the threads of `NativeBLE`, `BLED112` and `EventLoop` and the
timeouts of their callers. One assumption is about others: a tile finishes what it has deferred
(`RPCQueue`; one that does not is at fault itself). No agent, client or device is assumed
to do anything, and there is no strong fairness. The other components are checked for safety
only.

## 4. Where the code and what is written disagree

Met while modelling. The models do what the code does; where a property was first stated as
the documentation has it, its condition (section 3) is the circumstance given here.

* A rollover under a walker that has read everything raises the error the code calls
  impossible, the readings are gone and the new one is not stored (`walker.py:259-265`).
  This one is checked by `sensor_log_out_of_sync`.
* A walker that has read everything saves an offset that its own `seek()` refuses
  (`walker.py:208`); walkers on one selector share one entry of a dump.
* A caller inside the loop that times out cancels the future the dispatcher will set, and
  so ends it, or makes `join()` wait for ever (`rpc_queue.py:194`).
* A notification that ends clears the flag of those still in progress
  (`mixin_notifications.py:196`). They go on with the flag clear: an adjustment then changes the
  dictionary that is being walked, `RuntimeError` is raised, and the callbacks that remain are not called.
  What is registered during one notification is not seen by another that begins meanwhile, since
  it is held back until one of them ends.
* A `disconnect()` that is cancelled leaves its connection open, and a late one takes a newer
  connection off the record (`standard.py:286`, `:488`).
* A message that comes for a future that is done and not yet removed makes
  `process_message()` raise, and what is queued behind it waits (`operation_manager.py:430`).
* `start_entry()` leaves an entry in progress when it finds no space, and `end_entry()` then
  stores an empty variable (`config_database.py:149-151`, `:190`), or one without its header, of which
  streaming still leaves out the first two bytes (`:64`); `add_data()` does not
  count what the entry in progress already holds (`:166`); a save while an entry is in
  progress leaves a truncated file (`emulation_mixin.py:110`).
* A reset clears the set of streamers in progress and not the queue, so that the worker
  "should never die" and does (`stream_manager.py:76-80`, `:97`); it does not wait for the tasks
  it cancels (`emulation_loop.py:442-453`); a single reading is acknowledged although its
  report was not sent (`stream_manager.py:71`); a streamer that triggers with another one
  is not compared with the blacklist (`graph.py:502-503`, `:544`).
* An RPC that is interrupted leaves its key, one that is not answered stays in flight
  (`service_manager.py:325`, `:371-374`), and one fails when a client connects while the monitors
  are told, since the set being iterated over grows (`service_manager.py:64-70`).
* A client that syncs while services change misses changes (`client.py:93`) and may list
  numbers of services it does not know (`:98`, `:147`); a monitor is never removed
  (`server.py:107`, `:121`).
* The gateway announces a dropped connection under the adapter's name for the device
  (`device.py:323`) without removing its entry, passes reports on without the connection's id
  (`:328`), chooses the first adapter instead of the best (`:8-9`, `:355`); a refused second
  connection takes the reverse entry of the first with it, and disconnecting the first
  raises `KeyError` (`mixin_conndata.py:66`).
* A sensor graph node that was refused (its function is not installed, or an input is not
  connected) stays linked, and when its turn comes `results` is unbound or that of the node
  before (`graph.py`, `process_input`); `TooManyOutputsError` is not caught by the RPC that adds
  nodes; a reset that comes while the worker awaits an RPC is swallowed, so that the old worker
  lives on; a constant's new walker does not see the value pushed before.
* A timer that is set to less than what it has counted never fires again, since it compares
  for equality (`clock_manager.py`); after a second reset the time forgets the uptime of the first
  life. After a script that could not be parsed the bridge refuses the next one and the state of
  the device cannot be saved, although `remote_bridge.py` says that the error is not dumped.
  A value of four bytes that came as one or three makes `latch` and with it the reset fail.
* `wait_idle` "until all tiles have started" (`emulated_device.py:181`) returns while peripheral
  tiles are being reset; two resets in the queue give two main tasks; what the tile manager has
  queued survives a reset; a tile that deferred an RPC refuses START, and the worker of the
  tile manager ends.
* `stop()` of the event loop is "safe to call multiple times" (`event_loop.py:344`), but two at the
  same time run the finalizers twice; a call that passed the check before the loop stopped waits
  for ever.
* `unexpected_disconnect()` of the BLE connection manager (`native_ble/connection_manager.py:453`)
  raises in its thread; callers of an RPC that is refused wait for ever; a disconnect that was
  refused reaches the radio all the same; a connection that succeeds after its timeout is a
  link without a record; `send_script()` to a device without the high-speed characteristic raises
  `KeyError` with the operation announced, which nothing but the loss of the link ends.
* The BLED112 thread ends when a connection finishes that is not on record; retries while it scans
  wait on themselves; a cached setting of notifications outlives the connection; what is queued
  when it stops is never answered; "never scan while connecting" (`bled112.py:288`) is not kept.
* What HardwareManager documents as dropped reports is kept (`hwmanager.py:590`, `:602`); a
  disconnection that comes while `connect_direct` runs is lost; after a failed disconnect the
  reports of another device with the same id are taken for the first one's.
* A J-Link interface that is opened before the control structure is known counts as open and
  is not; one that is opened during a disconnection may clear the queue under the task that still polls
  it, and start a second one; a second connection with other settings keeps the counters of the first; concurrent
  changes of flags are lost; a late answer is taken for that of the next RPC.
* A response for another client is "dropped" and handled all the same
  (`awsiot/device_adapter.py:488`; this is the run `aws_foreign`); a failed connect leaves an empty
  entry; a duplicate connect answers with the old key. A packet that repeats one still buffered
  blocks its topic for ever (`packet_queue.py`), although numbers already seen are said to be dropped,
  and the first packet to arrive defines the number expected, whichever it was. A packet at which
  the callback raises is not taken out, so that it is delivered again with the next arrival. The agent
  hears of no device that loses its link (`gateway_agent.py:575-576` register for reports and
  traces only): its entry stays, disconnecting it
  fails, and nobody can connect any more.
* The stream id 2047 is written as the wildcard, ids from 2048 set the bit for system streams, and
  a selector for a single stream ignores that bit; `with_other` from 128 wraps (`stream.py`,
  `streamer_descriptor.py`).
* A script that begins a config variable and does not end it loses the records it held at its
  end, or cannot be read when another record comes (`setconfig_record.py:106`); a device tag with a
  wrong payload raises `struct.error` while it is being matched (`set_version.py`).
* The stream that marks resets is never loaded (`utc_assigner.py`, `_load_known_breaks` has no
  caller), so that a reset after which the uptime is not smaller makes an "exact" time wrong; a
  reading that is not itself an anchor is compared with the anchor after the next one
  (`_fix_right`), and is dropped when the next one is the last. `deserialize_report` decodes before
  it sets `received_time`, so that readings in uptime are given the time at which they were
  deserialized (`parser.py`), although `serialize` promises "all information including received
  timestamp" (`report.py`). A report that is signed with its own `signer` is decoded with the default
  chain and shows no readings when that has no such key (`signed_list_format.py`).
  A reboot counter or a time of zero counts as missing when a key is rotated, and a password
  that is saved "until the end of the current session" is asked for again (`cli_auth_provider.py`).
* The adapter of remote devices tests whether it is `connected`, which is a method, so that the
  test never fails (`generic/device_adapter.py`); the loss of the socket stops half way when two
  entries have one device, is announced as an event that nobody can listen to, and a connect that
  was answered before it makes an entry after it. The server never forwards the loss of a device.
* `^1.2.3-alpha1` matches `2.0.0-alpha1` (`semver.py`); freezing the extensions again does not
  refresh what was read; whether a dependency is up to date never looks at the version asked for
  (`registry_resolver.py:42`), and it is removed before its replacement is found.
* A proxy for versions "from 0.0.0" that fits is never the one that is chosen, one for all versions
  ends the search with an error (`hwmanager.py:814`), and the first of the name is taken when none fits.
* Sorting the nodes of a compiled graph drops those that nothing notifies, of constants alone for
  example; a checksum is only stable because the address of the checksum is left out, and when it
  fails the algorithm stays configured (`graph.py`).
* A code of 0 that a tile raises is a success to the caller, and 2 means something else when it
  comes from the controller (`common_types.py:74`); "after 10 attempts" is after eleven
  (`proxy.py:87`); a payload is held to its 20 bytes only when it ends in bytes (`common_types.py:41`).
* Opening the debug interface of a BLE connection raises `AttributeError`.


## 5. Proofs

`SensorLogProofs`, for any streams, selectors, walkers, and any sizes with
`1 <= EraseSize <= MaxStorage, MaxStreaming`:

* `AreasAreBoundedAndOrdered`: `BoundedAreas /\ UniqueIdsInOrder` always holds. Neither
  is inductive without knowing that ids are numbers below `nextId` and that each area
  holds its own streams, so the invariant `AreasInv` joins both with the type of the
  areas. Two lemmas carry the proof: appending the newest reading to what is kept
  (`AppendKeepsOrder`), and dropping the oldest (`DroppingKeepsOrder`). No fact about
  the walkers is used, so that it covers a push that dies half way.
* `LossIsBounded`: the action property `OnlyRolloverLosesReadings`, from the same invariant
  and from lemmas about what `SubSeq` and `Append` keep.

`ServiceRPCProofs`, for any clients, services, RPCs and answers, if answers are not
among the outcomes the broker makes up and `NULL` is neither client nor outcome:

* `IInvHolds`: the inductive invariant. `Consistent` says of one RPC what its sender,
  the future and the recorded answer know of each other in every phase; `Settled` what
  the sender got. `AnswerInTimeWins` alone is not inductive: it speaks of senders that
  are done, and needs that in each phase before the future still holds the answer.
* `TypesHold`, `AnswersInTimeWin`, `NoKeyIsLeft` follow from it. The lemma `Untouched`
  reduces each action to the one RPC it is about.

And of `Streaming`, for any streamers, readings and requests, if `NULL` is no queued item:

* `AcksGrowAlways`, from the types (`StreamTypes`): a worker may still hold an item that was sent before newer
  readings were acknowledged. That `check_streamers` gives streamers takes an induction over its loop,
  by the least round in which it would fail (`LoopEnds`, `LoopType`).
* `StreamingIsExactAlways`. `Exact` says of each streamer whether it is queued or in the hands of the worker,
  and never both. A streamer may read on while an acknowledgement overtakes it; that nothing is skipped
  when it ends needs that whatever was acknowledged meanwhile has moved its walker too (`SenderIsKnown`).

`WalkerProofs`, under the assumptions of `SensorLogProofs`, from one inductive invariant
(`WalkersInv`: `AreasInv`, the types, where each walker is registered, and that the counts agree):

* `SensorLogTypes` and `CountsAgreeWithStorage`. A count is the number of matching readings from
  the walker's offset on, so the lemmas say what appending, taking and dropping readings
  do to such a number (`CountAfterAppend`, `CountAfterTake`, `CountAfterDrop`). The hard case is
  a rollover that raises half way through the walkers (`PushOutOfSyncKeeps`).
* `WalkersImplementFifos`: refinement of `WalkerFifo`. Its FIFO is the set of readings still to be
  returned, ordered by their ids. A push adds its reading to the FIFO of every walker that selects
  it and leaves all other FIFOs as they are; a call of one walker changes its own FIFO only. So the
  step lemmas say both what happens to the walker that is called and that nobody else is disturbed
  (`Undisturbed`). `FoundIsOldest` says that the walker's search stops at the oldest, `ArrivalIsAllowed` and
  `FailureIsAllowed` that pushes, with whatever they drop, are steps of the FIFOs; `OldestIsDropped` that
  what a rollover drops belongs to one area, whose walkers alone may break. A walker that a
  rollover has broken is exempt until it is placed again; that such a walker is registered with its
  area needs an invariant of its own (`BrokenAreQueued`), without which `clear()` might leave it broken.

* `WalkersFitAfterRestore`, `DumpsAreRestored`, `RestoresOfUnreadSucceed`, of `SensorLogDump`, for any dump
  and whatever was pushed, popped, sought, cleared or destroyed since. One more inductive invariant
  (`DumpInv`): the saved readings are in order with ids below the next one, so that the restored log
  satisfies `AreasInv` again (`SavedInv`); for each selector the dump holds the state of one of the walkers
  that had it, which is what lets a lookup by selector (`GivenWalker`) say something of each walker; and a
  walker keeps plain what its kind does not use (`WalkersPlain`), without which a walker made
  anew from the saved fields would not be the old one (`RestoresGiveBack`). A restore that raises half way
  leaves walkers that were not reached: they are the exempt ones of `WalkersInSync` and `VirtualReadingIsLast`.

`RPCQueueProofs`, for any tiles, RPCs and calls, inside and outside of the loop, that are told apart:

* `WorkIsAlwaysAccounted`, `AnswersAreGivenOnce`. What `join()` waits for is the sum of what is queued,
  running, deferred and lost, which is no invariant by itself: a call must be in one place
  only (`OnePlace`), be open while it is anywhere (`InHand`), and a tile must defer one call at most.
* `ResetsAreOrderly`, of `DeviceReset`, if tiles have addresses of their own and users are no tasks
  (`DvAssumption`). That the dispatcher dies only of haste needs what calm looks like (`DvCalm`): each tile
  has one main task, the tiles still to be reset do not start, so that whatever a reset cancels is in
  its main loop and awaits no call. That tiles run configured follows what a worker has streamed
  (`DvWorkersInv`) past its own end: START of a cancelled worker is still queued (`DvStraysInv`), and makes
  a tile run unconfigured only if that was reset in between, or kills the dispatcher (`DvStartedInv`).

`EventLoopProofs`, for any threads:

* `StoppedMeansEnded`. "Nothing runs when the loop has halted" needs to be carried through the phases of
  stopping: what the loop has still to call is raced, what runs is in the set that the
  sweep awaits, and then nothing runs but what raced (`SweepMissesNone`).

`NotificationsProofs`, for any devices, monitors, callbacks, waiters, kinds of messages and threads
(futures and gathers finite, since they are counted):

* `AdjustmentsAreNotStranded`, `ListedMonitorsAreCalled`, `AdjustmentsAreApplied`. A notification in
  progress has a walk; as long as no other has ended before it, the flag is set, its dictionary keeps
  its size, and whom it owes a call is still ahead of it (`MissesNobody`). One that goes on after the
  flag was cleared runs among adjustments that change its dictionary, and is only known to be in
  progress. `AdjustmentsAreApplied` says that the monitors with what is held back applied to them are always
  what they would be if nothing were ever held back (`asked`), whichever notification applies it: an adjustment
  at the end of a list of held-back ones, and one made at once, are the same change to both.
* `MessagesReachTheirWaiters`. The invariant follows each message from its arrival to the waiter:
  the queue keeps the order of arrival, what is queued while nobody pauses is in the hands of a
  dispatcher or of a launch on its way (`PendingIsServed`), and each future is served by the first
  message of its kind after it began to wait (`FutureIsServed`).
* `ClientsAreAlwaysSeparate`, `NothingIsEverLeft`, of `DeviceServer`, for any clients, devices, operations and
  connection ids, if the interfaces are among the events that have one (`ServerAssumption`). Who is `Listed`
  for an event, once what is held back has been applied, changes alike whether a command adjusts a monitor
  at once or during a notification; so the end of a notification, which applies what was held back, and
  the commands can be proved apart (`AdjustedTwice`, by induction over the actions). The invariant
  `DSInv` then says where every coroutine stands: commands run only for clients that have not left
  (`CommandsAreCurrent`), the id of a connect is in no table yet (`ConnectsAreNew`), and a teardown leaves
  no link at the devices it has done unless closing it failed (`TeardownsCover`).

`GatewayProofs`, for any adapters, devices, users and connection ids that are told apart from `NULL`:

* `EntriesAreLinksAlways`. A device has one entry per adapter because the number of entries is the
  cardinality of the adapters in them (`SeenInv`); links and entries agree
  only together with where each user stands in its call (`ConnectionsInv`). The reverse table leads from a
  string to an entry with it; that an entry is found unless its string was shared needs that any two
  entries with one string have shared it (`FoundInv`).
* `CopiesAlwaysAgree`, of `ServiceSync`, for any clients, services, statuses, texts and bounds. For a client that
  follows, what is in its channel and then the calls that have not come to it yet lead, one event after
  the other, from its copy to the server's (`Leads`, `Follows`). No call overtakes an older one
  (`CallsInOrder`), so these calls are the last ones, from some number on (`ComeFrom`): a call
  that comes to the client is the first of them, a new one is added at the end, and what a disconnection
  cancels among them is owed to somebody who is counted as untold. For a client that syncs in peace, all
  that it does not know is what it has still to ask (`KnowsRest`).

`TransportProofs`, for any number of devices, clients, calls, handles and events on their way:

* `StreamsFollowTheirDevice`. The stream is only told of a lost link by a queued event, so that
  `LinksAreFollowed` says "linked, or the end of the link is in the queue", also for the moments
  inside of `connect_direct()`, and every event has to come from the device it names (`EntryIsLink`).
* `AgentEntriesFollowLinks`, from the types of everything on its way between clients and agent: an
  entry has its link, or the device has lost that by itself, of which the agent does not hear.
* `PacketsAreInOrder`, `PacketsAreReleased`, for any numbers of packets, repetitions, raising callbacks and
  resets: what waits is sorted and begins above what was delivered, and a packet that is sent and not
  delivered is on its way or waits. `RemoteEventsAreInOrder`, of `RemoteAdapter`: what
  has come is the beginning of what was sent, and the events on their way go on from there
  without a gap (`EventsFollow`).
* `ListedConnectionsAreLinked`: needs that the dongle reports the end of a connection once, also
  when a command thread takes the report out of the middle of the queue (`UnreportedIsLess`).

Only model-checked: liveness (the prover has neither fairness nor `ENABLED`); what the code
computes with folds over sequences (`SpaceIsAccounted`, `LatestIsStreamed`, the formats of
`CopiesAreKept`), which would need induction over data; and,
because a proof has not been attempted or finished: `GraphIsProcessed`,
`ControllerIsConsistent`, `BleAgrees`, `AnswersAreOwn` and, of `DeliveredInOrder`, the traces of J-Link.
`SensorGraph` (`SgVisits`, `SgToposort`) and `Controller` (`CtListFrom`, `CtGetFrom`) declare
`RECURSIVE` operators, which the prover cannot use: no module with a theorem reaches either.

## 6. Not modelled, and what is left

Parts that no module models are listed as `not_modelled` in `PROJECT.json` with the reason:
build and shipping tools (sequential steps over external programs), the parser and optimizer of
sensor graphs (syntax trees), apps and debugging (one call of the hardware manager each), virtual
devices, the peripheral side of Bluetooth, the pipe under the socket library, test support. In
modelled parts the following is left out: the loading of extension modules and the products of
components, the queries of proxies other than config variables, scanning and advertisements of the radio transports, the contents of reports and traces
there, debug memory of J-Link, validation of AWS topics, recording and proxies of the hardware
manager, `stop()` of the device server, cycles of sensor graphs.

Worth doing next: the servers over BLED112 and the native radio, and the updater; proofs about the
answers of J-Link and the native radio; liveness of `OperationManager`,
`DeviceServer` and `JLink`.

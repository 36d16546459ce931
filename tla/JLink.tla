-------------------------------- MODULE JLink ------------------------------
(***************************************************************************)
(* The J-Link adapter (jlink/jlink.py) and its background half             *)
(* (jlink/jlink_background.py): operations on a device through the memory  *)
(* that a debug probe reads and writes while the device runs.              *)
(*                                                                         *)
(* The adapter's coroutines have no lock.  Each access to the memory is    *)
(* awaited, so that between any two of them another operation, the task    *)
(* that polls the device, or the device itself may go on.  An operation is *)
(* therefore the list of the accesses it still has to make; some of them   *)
(* decide, when they are reached, which ones come next.                    *)
(***************************************************************************)
EXTENDS None, Integers, Sequences, FiniteSets, SequencesExt

CONSTANTS
    JLCalls,      \* operations 1..n, numbered in the order in which they start
    JLConns,      \* connection ids, each connected once
    JLKinds,      \* what the k-th operation may be, for each k
    JLAtOnce,     \* operations that run at the same time
    JLRetries,    \* send_rpc's retries
    JLTasks,      \* bound on the polling tasks, 1..n
    JLPushes,     \* bound on the traces that the device sends
    JLQueueSize,  \* cells of the queue in the device's memory
    JLFaults      \* bound on the accesses to memory that fail

VARIABLES
    jlCall,       \* the operations: what for, and the list of what is still to do
    jlAdapter,    \* the adapter: _connections, connected, _connection_id, _control_info, opened_interfaces
    jlProbe,      \* AsyncJLink: whether _jlink is there, _maintenance_counter, _maintenance_task, rpc_response_event;
                  \* for the properties: whether polling was started while a task of before was there or to come
    jlTask,       \* the polling tasks
    jlMemory,     \* the device's memory: state flags, RPC area, queue
    jlDevice,     \* the device: whether it has the firmware, what it runs, the traces it has sent
    jlGot,        \* the traces that were reported
    jlFaults      \* accesses that may still fail

jlVars == <<jlCall, jlAdapter, jlProbe, jlTask, jlMemory, jlDevice, jlGot, jlFaults>>

Gate == 0        \* in place of an answer: could not grab the external gate
Interfaces == {"rpc", "tracing", "streaming"}
NoOperation == [kind |-> NULL, conn |-> NULL, todo |-> <<>>, state |-> "idle", read |-> {}, tries |-> 0,
                disturbed |-> FALSE, answer |-> NULL]
NoTask == [pc |-> NULL, cancelled |-> FALSE, from |-> 0, to |-> 0, seen |-> FALSE]

JLInit ==
    /\ jlCall = [k \in JLCalls |-> NoOperation]
    /\ jlAdapter = [conns |-> {}, connected |-> FALSE, id |-> NULL, control |-> FALSE, opened |-> {}]
    /\ jlProbe = [open |-> FALSE, counter |-> 0, task |-> NULL, event |-> FALSE, mixed |-> FALSE]
    /\ jlTask = [t \in JLTasks |-> NoTask]
    /\ jlMemory = [flags |-> {}, rpc |-> NULL, done |-> FALSE, answer |-> NULL,
                   read |-> 0, write |-> 0, cells |-> [i \in 0 .. JLQueueSize - 1 |-> 0]]
    /\ \E firmware \in BOOLEAN : jlDevice = [firmware |-> firmware, trigger |-> FALSE, runs |-> NULL, sent |-> 0]
    /\ jlGot = <<>>
    /\ jlFaults = JLFaults

(***************************************************************************)
(* The accesses of each operation.                                         *)
(***************************************************************************)

Access(do) == [do |-> do, arg |-> NULL]
AccessOf(do, arg) == [do |-> do, arg |-> arg]

\* change_state_flag(): read, change, write
ChangeStateFlag(flag, on) ==
    <<AccessOf("flags_read", flag), AccessOf(IF on THEN "flags_set" ELSE "flags_clear", flag)>>

\* AsyncJLink.send_rpc(): the area is written, the event cleared and the device triggered
TriggerRPC == <<Access("rpc_write"), Access("rpc_trigger")>>
JLSendRPC == TriggerRPC \o <<Access("rpc_wait"), Access("rpc_check"), Access("rpc_read")>>

\* notify_sensor_graph()
NotifySensorGraph == JLSendRPC

\* _clear_queue()
ClearQueue == <<Access("clear_read"), Access("clear_write")>>

\* _update_state_flags_after_reset()
AfterReset ==
    ChangeStateFlag("connection", TRUE) \o ClearQueue
    \o <<AccessOf("restore", "tracing"), AccessOf("restore", "streaming"), Access("raise")>>

\* connect(), after the settings were looked at; stop() closes what was open before.
ConnectSteps(stops, changed) ==
    (IF stops THEN <<AccessOf("join", jlProbe.task), Access("close")>> ELSE <<>>)
    \o (IF changed THEN <<Access("connect")>> ELSE <<>>)
    \o <<Access("setup"), Access("verify")>> \o ChangeStateFlag("connection", TRUE) \o <<Access("connected")>>

\* disconnect(), after the connection was taken down
DisconnectSteps ==
    <<AccessOf("close_interface", "streaming"), AccessOf("close_interface", "tracing"), AccessOf("close_interface", "rpc")>>
    \o ChangeStateFlag("connection", FALSE) \o <<Access("disconnected")>>

\* open_interface(), after the interface was marked as open
OpenSteps(i) ==
    (CASE i = "tracing" -> ChangeStateFlag("tracing", TRUE)
       [] i = "streaming" -> ChangeStateFlag("streaming", TRUE) \o NotifySensorGraph
       [] i = "rpc" -> <<>>)
    \o <<Access("start_polling")>>

\* close_interface(), after the interface was marked as closed; a DeviceAdapterError of
\* notify_sensor_graph() goes no further.
CloseSteps(i) ==
    (CASE i = "tracing" -> ChangeStateFlag("tracing", FALSE)
       [] i = "streaming" -> ChangeStateFlag("streaming", FALSE) \o NotifySensorGraph \o <<Access("except")>>
       [] i = "rpc" -> <<>>)
    \o <<Access("stop_polling")>>

\* send_script() with two chunks
ScriptSteps == JLSendRPC \o JLSendRPC

(***************************************************************************)
(* The callers.                                                            *)
(***************************************************************************)

JLFresh(k) ==
    /\ jlCall[k].state = "idle" /\ \A j \in JLCalls : j < k => jlCall[j].state # "idle"
    /\ Cardinality({j \in JLCalls : jlCall[j].state = "runs"}) < JLAtOnce
\* The connections that were handed out, and are set up.
Live(c) == c \in jlAdapter.conns /\ \E j \in JLCalls : jlCall[j].kind = "connect" /\ jlCall[j].conn = c /\ jlCall[j].state = "ended"

Begun(kind, c, todo) == [NoOperation EXCEPT !.kind = kind, !.conn = c, !.todo = todo, !.state = "runs"]
Over(op, state) == [op EXCEPT !.state = state, !.todo = <<>>, !.read = {}]

JLBegin(k, kind, c, todo) ==
    jlCall' = [jlCall EXCEPT ![k] = IF todo = <<>> THEN [Begun(kind, c, todo) EXCEPT !.state = "ended"] ELSE Begun(kind, c, todo)]

\* connect(): the settings in the connection string differ from those in use or not; they
\* do at first.
JLConnect(k, c) ==
    /\ "connect" \in JLKinds[k]
    /\ JLFresh(k) /\ \A j \in JLCalls : jlCall[j].kind = "connect" => jlCall[j].conn # c
    /\ \E changed \in BOOLEAN :
         /\ changed \/ \E j \in JLCalls : jlCall[j].kind = "connect"
         /\ LET stops == changed /\ jlAdapter.connected
            IN  /\ jlAdapter' = IF stops THEN [jlAdapter EXCEPT !.connected = FALSE] ELSE jlAdapter
                /\ jlTask' = IF stops /\ jlProbe.task # NULL THEN [jlTask EXCEPT ![jlProbe.task].cancelled = TRUE] ELSE jlTask
                /\ JLBegin(k, "connect", c, ConnectSteps(stops, changed))
    /\ UNCHANGED <<jlProbe, jlMemory, jlDevice, jlGot, jlFaults>>

\* disconnect()
JLDisconnect(k, c) ==
    /\ "disconnect" \in JLKinds[k]
    /\ JLFresh(k) /\ Live(c)
    /\ jlAdapter' = [jlAdapter EXCEPT !.conns = @ \ {c}]
    /\ JLBegin(k, "disconnect", c, IF jlAdapter.control THEN DisconnectSteps ELSE <<>>)
    /\ UNCHANGED <<jlProbe, jlTask, jlMemory, jlDevice, jlGot, jlFaults>>

\* open_interface(); with a firmware that is too old it raises, having marked the
\* interface as open
JLOpenInterface(k, c, i) ==
    /\ i \in JLKinds[k]
    /\ JLFresh(k) /\ Live(c)
    /\ jlAdapter' = [jlAdapter EXCEPT !.opened = @ \cup {i}]
    /\ JLBegin(k, i, c, IF i \in jlAdapter.opened \/ ~jlAdapter.control THEN <<>> ELSE OpenSteps(i))
    /\ UNCHANGED <<jlProbe, jlTask, jlMemory, jlDevice, jlGot, jlFaults>>

\* send_rpc(), send_script(), and send_rpc() with the RPC that resets the device: without
\* a control structure they fail at once.
Send(k, c, kind, todo) ==
    /\ kind \in JLKinds[k]
    /\ JLFresh(k) /\ Live(c)
    /\ jlCall' = [jlCall EXCEPT ![k] = IF jlAdapter.control THEN Begun(kind, c, todo) ELSE Over(Begun(kind, c, <<>>), "failed")]
    /\ UNCHANGED <<jlAdapter, jlProbe, jlTask, jlMemory, jlDevice, jlGot, jlFaults>>
CallRPC(k, c) == Send(k, c, "call", JLSendRPC)
JLSendScript(k, c) == Send(k, c, "script", ScriptSteps)
CallReset(k, c) == Send(k, c, "reset", TriggerRPC \o AfterReset)

\* debug(), with program_flash()
ProgramFlash(k, c) ==
    /\ "flash" \in JLKinds[k]
    /\ JLFresh(k) /\ Live(c)
    /\ JLBegin(k, "flash", c, <<Access("flash")>>)
    /\ UNCHANGED <<jlAdapter, jlProbe, jlTask, jlMemory, jlDevice, jlGot, jlFaults>>

\* probe(): with nothing connected, every kind of device is tried with a probe of its own
Probe(k) ==
    /\ "probe" \in JLKinds[k]
    /\ JLFresh(k)
    /\ JLBegin(k, "probe", NULL, IF jlAdapter.connected THEN <<Access("verify")>> ELSE <<Access("find")>>)
    /\ UNCHANGED <<jlAdapter, jlProbe, jlTask, jlMemory, jlDevice, jlGot, jlFaults>>

(***************************************************************************)
(* The next access of an operation.                                        *)
(***************************************************************************)

Next1(k) == Head(jlCall[k].todo)
JLAt(k, do) == jlCall[k].state = "runs" /\ jlCall[k].todo # <<>> /\ Next1(k).do = do
Rest(k) == Tail(jlCall[k].todo)

\* The operation goes on with todo, and ends with the last access.
Goes(op, todo) == IF todo = <<>> THEN Over(op, IF op.kind = "reset" THEN "failed" ELSE "ended") ELSE [op EXCEPT !.todo = todo]
GoOn(k, todo) == jlCall' = [jlCall EXCEPT ![k] = Goes(@, todo)]

\* A DeviceAdapterError or another exception: the rest of the operation is left out, up to
\* an except clause for it.
Except(todo) == SelectInSeq(todo, LAMBDA a : a.do = "except")
Raised(op, adapterError) ==
    IF adapterError /\ Except(op.todo) # 0 THEN Goes(op, SubSeq(op.todo, Except(op.todo) + 1, Len(op.todo)))
    ELSE Over(op, "failed")
Raise(k, adapterError) == jlCall' = [jlCall EXCEPT ![k] = Raised(@, adapterError)]

\* Accesses to memory fail when there is no probe, and now and then.
MemoryAccesses == {"flags_read", "flags_set", "flags_clear", "rpc_write", "rpc_trigger", "rpc_check", "rpc_read",
                   "clear_read", "clear_write", "flash"}
AccessFails(k) ==
    /\ jlCall[k].state = "runs" /\ Next1(k).do \in MemoryAccesses
    /\ \/ ~jlProbe.open /\ jlFaults' = jlFaults
       \/ jlProbe.open /\ jlFaults > 0 /\ jlFaults' = jlFaults - 1
    /\ Raise(k, FALSE)
    /\ UNCHANGED <<jlAdapter, jlProbe, jlTask, jlMemory, jlDevice, jlGot>>

Reach(k, do) == JLAt(k, do) /\ jlProbe.open

FlagsRead(k) ==
    /\ Reach(k, "flags_read")
    /\ jlCall' = [jlCall EXCEPT ![k] = [Goes(@, Rest(k)) EXCEPT !.read = jlMemory.flags]]
    /\ UNCHANGED <<jlAdapter, jlProbe, jlTask, jlMemory, jlDevice, jlGot, jlFaults>>
FlagsWritten(k) ==
    /\ Reach(k, "flags_set") \/ Reach(k, "flags_clear")
    /\ jlMemory' = [jlMemory EXCEPT !.flags = IF Next1(k).do = "flags_set" THEN jlCall[k].read \cup {Next1(k).arg}
                                              ELSE jlCall[k].read \ {Next1(k).arg}]
    /\ GoOn(k, Rest(k))
    /\ UNCHANGED <<jlAdapter, jlProbe, jlTask, jlDevice, jlGot, jlFaults>>

\* An RPC of another operation is between its first access and its last.
MidRPC(j) == jlCall[j].state = "runs" /\ Next1(j).do \in {"rpc_trigger", "rpc_wait", "rpc_check", "rpc_read"}
Busy == jlDevice.runs # NULL \/ jlDevice.trigger

\* The words that are written also clear the bits of the answer before.
RPCWritten(k) ==
    /\ Reach(k, "rpc_write")
    /\ jlMemory' = [jlMemory EXCEPT !.rpc = k, !.done = FALSE, !.answer = NULL]
    /\ LET others == {j \in JLCalls \ {k} : MidRPC(j)}
       IN  jlCall' = [j \in JLCalls |->
             IF j = k THEN [Goes(jlCall[k], Rest(k)) EXCEPT !.disturbed = @ \/ others # {} \/ Busy, !.answer = NULL]
             ELSE IF j \in others THEN [jlCall[j] EXCEPT !.disturbed = TRUE] ELSE jlCall[j]]
    /\ UNCHANGED <<jlAdapter, jlProbe, jlTask, jlDevice, jlGot, jlFaults>>

\* _trigger_rpc()
RPCTriggered(k) ==
    /\ Reach(k, "rpc_trigger")
    /\ jlProbe' = [jlProbe EXCEPT !.event = FALSE]
    /\ jlDevice' = [jlDevice EXCEPT !.trigger = TRUE]
    /\ GoOn(k, Rest(k))
    /\ UNCHANGED <<jlAdapter, jlTask, jlMemory, jlGot, jlFaults>>

\* _wait_rpc_completion()
RPCWaited(k) ==
    /\ JLAt(k, "rpc_wait")
    /\ jlProbe.event
    /\ GoOn(k, Rest(k))
    /\ UNCHANGED <<jlAdapter, jlProbe, jlTask, jlMemory, jlDevice, jlGot, jlFaults>>
RPCTimesOut(k) ==
    /\ JLAt(k, "rpc_wait")
    /\ Raise(k, TRUE)
    /\ UNCHANGED <<jlAdapter, jlProbe, jlTask, jlMemory, jlDevice, jlGot, jlFaults>>
\* Mutant: the event alone says that the RPC is complete.
RPCUnchecked(k) ==
    /\ Reach(k, "rpc_check")
    /\ GoOn(k, Rest(k))
    /\ UNCHANGED <<jlAdapter, jlProbe, jlTask, jlMemory, jlDevice, jlGot, jlFaults>>
RPCChecked(k) ==
    /\ Reach(k, "rpc_check")
    /\ IF jlMemory.done THEN GoOn(k, Rest(k)) ELSE Raise(k, TRUE)
    /\ UNCHANGED <<jlAdapter, jlProbe, jlTask, jlMemory, jlDevice, jlGot, jlFaults>>

\* format_response(): the answer may be that the external gate was taken; send_rpc() of the
\* adapter then tries again.
RPCRead(k) ==
    /\ Reach(k, "rpc_read")
    /\ jlCall' = [jlCall EXCEPT ![k] =
         IF jlMemory.answer # Gate THEN [Goes(@, Rest(k)) EXCEPT !.answer = jlMemory.answer]
         ELSE IF @.kind = "call" /\ @.tries < JLRetries THEN [@ EXCEPT !.todo = JLSendRPC, !.tries = @ + 1]
         ELSE Raised(@, @.kind = "call")]
    /\ UNCHANGED <<jlAdapter, jlProbe, jlTask, jlMemory, jlDevice, jlGot, jlFaults>>

\* A polling task is there, or another operation is still to add one.
PollingElsewhere(k) ==
    \/ \E t \in JLTasks : jlTask[t].pc \notin {NULL, "ended"}
    \/ \E j \in JLCalls \ {k} : \E i \in DOMAIN jlCall[j].todo : jlCall[j].todo[i].do = "add_task"

\* start_polling(): the first interface starts the task, after the queue was cleared.
PollingStarts(k) ==
    /\ JLAt(k, "start_polling")
    /\ jlProbe' = [jlProbe EXCEPT !.counter = @ + 1, !.mixed = @ \/ (jlProbe.counter = 0 /\ PollingElsewhere(k))]
    /\ GoOn(k, (IF jlProbe.counter = 0 THEN ClearQueue \o <<Access("add_task")>> ELSE <<>>) \o Rest(k))
    /\ UNCHANGED <<jlAdapter, jlTask, jlMemory, jlDevice, jlGot, jlFaults>>
QueueCleared(k) ==
    /\ Reach(k, "clear_read") \/ Reach(k, "clear_write")
    /\ jlMemory' = IF Next1(k).do = "clear_read" THEN [jlMemory EXCEPT !.read = 0] ELSE [jlMemory EXCEPT !.write = 0]
    /\ GoOn(k, Rest(k))
    /\ UNCHANGED <<jlAdapter, jlProbe, jlTask, jlDevice, jlGot, jlFaults>>
TaskAdded(k) ==
    /\ JLAt(k, "add_task")
    /\ \E t \in JLTasks :
         /\ jlTask[t].pc = NULL /\ \A u \in JLTasks : u < t => jlTask[u].pc # NULL
         /\ jlTask' = [jlTask EXCEPT ![t].pc = "poll"]
         /\ jlProbe' = [jlProbe EXCEPT !.task = t]
    /\ GoOn(k, Rest(k))
    /\ UNCHANGED <<jlAdapter, jlMemory, jlDevice, jlGot, jlFaults>>

\* stop_polling(): with the last interface the task is stopped; there is none while the
\* first open_interface() is still clearing the queue.
PollingStops(k) ==
    /\ JLAt(k, "stop_polling")
    /\ jlProbe' = [jlProbe EXCEPT !.counter = @ - 1]
    /\ IF jlProbe.counter # 1 THEN GoOn(k, Rest(k)) /\ jlTask' = jlTask
       ELSE IF jlProbe.task = NULL THEN Raise(k, FALSE) /\ jlTask' = jlTask
       ELSE /\ jlTask' = [jlTask EXCEPT ![jlProbe.task].cancelled = TRUE]
            /\ GoOn(k, <<AccessOf("join", jlProbe.task)>> \o Rest(k))
    /\ UNCHANGED <<jlAdapter, jlMemory, jlDevice, jlGot, jlFaults>>

\* BackgroundTask.stop() waits until the task has ended.
Joined(k) ==
    /\ JLAt(k, "join")
    /\ \A t \in JLTasks : Next1(k).arg = t => jlTask[t].pc = "ended"
    /\ GoOn(k, Rest(k))
    /\ UNCHANGED <<jlAdapter, jlProbe, jlTask, jlMemory, jlDevice, jlGot, jlFaults>>

\* connect_jlink(): a new probe takes the place of the one before.
ProbeConnected(k) ==
    /\ JLAt(k, "connect")
    /\ \/ /\ jlProbe' = [jlProbe EXCEPT !.open = TRUE]
          /\ jlAdapter' = [jlAdapter EXCEPT !.connected = TRUE]
          /\ GoOn(k, Rest(k))
          /\ jlFaults' = jlFaults
       \/ /\ jlFaults > 0 /\ jlFaults' = jlFaults - 1
          /\ Raise(k, FALSE)
          /\ UNCHANGED <<jlProbe, jlAdapter>>
    /\ UNCHANGED <<jlTask, jlMemory, jlDevice, jlGot>>

\* The connection is set up, whatever is found.
SetUp(k) ==
    /\ JLAt(k, "setup")
    /\ jlAdapter' = [jlAdapter EXCEPT !.conns = @ \cup {jlCall[k].conn}]
    /\ GoOn(k, Rest(k))
    /\ UNCHANGED <<jlProbe, jlTask, jlMemory, jlDevice, jlGot, jlFaults>>

\* verify_control_structure() looks for one only if none is known.  A connection without
\* one is for debugging.
Verified(k) ==
    /\ JLAt(k, "verify")
    /\ IF jlAdapter.control THEN GoOn(k, Rest(k)) /\ jlAdapter' = jlAdapter
       ELSE IF ~jlProbe.open THEN Raise(k, FALSE) /\ jlAdapter' = jlAdapter
       ELSE IF jlDevice.firmware
       THEN GoOn(k, Rest(k)) /\ jlAdapter' = [jlAdapter EXCEPT !.control = (jlCall[k].kind = "connect")]
       ELSE /\ GoOn(k, <<>>)
            /\ jlAdapter' = IF jlCall[k].kind = "connect" THEN [jlAdapter EXCEPT !.id = jlCall[k].conn] ELSE jlAdapter
    /\ UNCHANGED <<jlProbe, jlTask, jlMemory, jlDevice, jlGot, jlFaults>>
JLConnected(k) ==
    /\ JLAt(k, "connected")
    /\ jlAdapter' = [jlAdapter EXCEPT !.id = jlCall[k].conn]
    /\ GoOn(k, Rest(k))
    /\ UNCHANGED <<jlProbe, jlTask, jlMemory, jlDevice, jlGot, jlFaults>>

\* close_interface()
InterfaceClosed(k) ==
    /\ JLAt(k, "close_interface")
    /\ LET i == Next1(k).arg
       IN  /\ GoOn(k, (IF i \in jlAdapter.opened THEN CloseSteps(i) ELSE <<>>) \o Rest(k))
           /\ jlAdapter' = [jlAdapter EXCEPT !.opened = @ \ {i}]
    /\ UNCHANGED <<jlProbe, jlTask, jlMemory, jlDevice, jlGot, jlFaults>>
JLDisconnected(k) ==
    /\ JLAt(k, "disconnected")
    /\ jlAdapter' = [jlAdapter EXCEPT !.connected = FALSE]
    /\ GoOn(k, Rest(k))
    /\ UNCHANGED <<jlProbe, jlTask, jlMemory, jlDevice, jlGot, jlFaults>>

\* After a reset the flags of the interfaces that are open by now are set again, and the
\* RPC ends with TileNotFoundError.
Restored(k) ==
    /\ JLAt(k, "restore")
    /\ LET i == Next1(k).arg
       IN  GoOn(k, (IF i \notin jlAdapter.opened THEN <<>>
                    ELSE ChangeStateFlag(i, TRUE) \o (IF i = "streaming" THEN NotifySensorGraph ELSE <<>>)) \o Rest(k))
    /\ UNCHANGED <<jlAdapter, jlProbe, jlTask, jlMemory, jlDevice, jlGot, jlFaults>>
ResetEnds(k) ==
    /\ JLAt(k, "raise")
    /\ Raise(k, TRUE)
    /\ UNCHANGED <<jlAdapter, jlProbe, jlTask, jlMemory, jlDevice, jlGot, jlFaults>>
CaughtNothing(k) ==
    /\ JLAt(k, "except")
    /\ GoOn(k, Rest(k))
    /\ UNCHANGED <<jlAdapter, jlProbe, jlTask, jlMemory, jlDevice, jlGot, jlFaults>>

\* _find_device_behind_jlink() makes a probe and closes it when it has found a device; a
\* HardwareError passes the except clause by.
Found(k) ==
    /\ JLAt(k, "find")
    /\ jlProbe' = [jlProbe EXCEPT !.open = TRUE]
    /\ IF ~jlDevice.firmware THEN Raise(k, FALSE) /\ jlTask' = jlTask
       ELSE /\ GoOn(k, <<AccessOf("join", jlProbe.task), Access("close")>>)
            /\ jlTask' = IF jlProbe.task = NULL THEN jlTask ELSE [jlTask EXCEPT ![jlProbe.task].cancelled = TRUE]
    /\ UNCHANGED <<jlAdapter, jlMemory, jlDevice, jlGot, jlFaults>>

\* close_jlink(), after the task was stopped
ProbeClosed(k) ==
    /\ JLAt(k, "close")
    /\ jlProbe' = [jlProbe EXCEPT !.open = FALSE]
    /\ GoOn(k, Rest(k))
    /\ UNCHANGED <<jlAdapter, jlTask, jlMemory, jlDevice, jlGot, jlFaults>>

\* program_flash()
Flashed(k) ==
    /\ Reach(k, "flash")
    /\ jlDevice' = [jlDevice EXCEPT !.firmware = TRUE]
    /\ GoOn(k, Rest(k))
    /\ UNCHANGED <<jlAdapter, jlProbe, jlTask, jlMemory, jlGot, jlFaults>>

Step(k) ==
    \/ AccessFails(k) \/ FlagsRead(k) \/ FlagsWritten(k) \/ RPCWritten(k) \/ RPCTriggered(k)
    \/ RPCWaited(k) \/ RPCTimesOut(k) \/ RPCChecked(k) \/ RPCRead(k) \/ PollingStarts(k)
    \/ QueueCleared(k) \/ TaskAdded(k) \/ PollingStops(k) \/ Joined(k) \/ ProbeConnected(k)
    \/ SetUp(k) \/ Verified(k) \/ JLConnected(k) \/ InterfaceClosed(k) \/ JLDisconnected(k)
    \/ Restored(k) \/ ResetEnds(k) \/ CaughtNothing(k) \/ Found(k) \/ ProbeClosed(k) \/ Flashed(k)

(***************************************************************************)
(* The polling tasks: _maintenance_coroutine()                             *)
(***************************************************************************)

Task(t, record) == jlTask' = [jlTask EXCEPT ![t] = record]
Running(t, pc) == jlTask[t].pc = pc
Ended(t) == [jlTask[t] EXCEPT !.pc = "ended", !.seen = FALSE]

\* A task that was cancelled ends at the access it waits for; its exceptions end it too.
TaskEnds(t) ==
    /\ jlTask[t].pc \in {"poll", "ack", "status", "event"}
    /\ \/ jlTask[t].cancelled /\ jlFaults' = jlFaults
       \/ Running(t, "poll") /\ jlProbe.counter <= 0 /\ jlFaults' = jlFaults
       \/ ~jlProbe.open /\ jlFaults' = jlFaults
       \/ jlFaults > 0 /\ jlFaults' = jlFaults - 1
    /\ Task(t, Ended(t))
    /\ UNCHANGED <<jlCall, jlAdapter, jlProbe, jlMemory, jlDevice, jlGot>>

\* _poll_queue_status() reads both indexes at once.
QueuePolled(t) ==
    /\ Running(t, "poll") /\ ~jlTask[t].cancelled /\ jlProbe.counter > 0 /\ jlProbe.open
    /\ Task(t, [jlTask[t] EXCEPT !.pc = IF jlMemory.read = jlMemory.write THEN "status" ELSE "frames",
                                 !.from = jlMemory.read, !.to = jlMemory.write])
    /\ UNCHANGED <<jlCall, jlAdapter, jlProbe, jlMemory, jlDevice, jlGot, jlFaults>>

\* _read_queue_frames(): what lies between the indexes, over the end of the queue if need
\* be, and is reported if the interface is open

\* Mutant: the frame at the write index is taken as well.
FramesInclusive(from, to) ==
    LET n == ((to + JLQueueSize - from) % JLQueueSize) + 1
    IN  [i \in 1 .. n |-> jlMemory.cells[(from + i - 1) % JLQueueSize]]

Frames(from, to) ==
    LET n == (to + JLQueueSize - from) % JLQueueSize
    IN  [i \in 1 .. n |-> jlMemory.cells[(from + i - 1) % JLQueueSize]]
FramesRead(t) ==
    /\ Running(t, "frames") /\ ~jlTask[t].cancelled /\ jlProbe.open
    /\ jlGot' = IF "tracing" \in jlAdapter.opened THEN jlGot \o Frames(jlTask[t].from, jlTask[t].to) ELSE jlGot
    /\ Task(t, [jlTask[t] EXCEPT !.pc = "ack"])
    /\ UNCHANGED <<jlCall, jlAdapter, jlProbe, jlMemory, jlDevice, jlFaults>>

\* An exception is logged and the frames are gone; so is a cancellation.
FramesLost(t) ==
    /\ Running(t, "frames")
    /\ \/ (jlTask[t].cancelled \/ ~jlProbe.open) /\ jlFaults' = jlFaults
       \/ jlFaults > 0 /\ jlFaults' = jlFaults - 1
    /\ Task(t, [jlTask[t] EXCEPT !.pc = "ack", !.cancelled = FALSE])
    /\ UNCHANGED <<jlCall, jlAdapter, jlProbe, jlMemory, jlDevice, jlGot>>

\* The read index is written back.
FramesAcknowledged(t) ==
    /\ Running(t, "ack") /\ ~jlTask[t].cancelled /\ jlProbe.open
    /\ jlMemory' = [jlMemory EXCEPT !.read = jlTask[t].to]
    /\ Task(t, [jlTask[t] EXCEPT !.pc = "status"])
    /\ UNCHANGED <<jlCall, jlAdapter, jlProbe, jlDevice, jlGot, jlFaults>>

\* _poll_rpc_status(), with _update_watch_counter(), every now and then
StatusSkipped(t) ==
    /\ Running(t, "status") /\ ~jlTask[t].cancelled
    /\ Task(t, [jlTask[t] EXCEPT !.pc = "poll"])
    /\ UNCHANGED <<jlCall, jlAdapter, jlProbe, jlMemory, jlDevice, jlGot, jlFaults>>
StatusRead(t) ==
    /\ Running(t, "status") /\ ~jlTask[t].cancelled /\ jlProbe.open /\ "rpc" \in jlAdapter.opened
    /\ Task(t, [jlTask[t] EXCEPT !.pc = "event", !.seen = jlMemory.done])
    /\ UNCHANGED <<jlCall, jlAdapter, jlProbe, jlMemory, jlDevice, jlGot, jlFaults>>
EventSet(t) ==
    /\ Running(t, "event") /\ ~jlTask[t].cancelled
    /\ jlProbe' = [jlProbe EXCEPT !.event = @ \/ jlTask[t].seen]
    /\ Task(t, [jlTask[t] EXCEPT !.pc = "poll", !.seen = FALSE])
    /\ UNCHANGED <<jlCall, jlAdapter, jlMemory, jlDevice, jlGot, jlFaults>>

Poll(t) ==
    \/ TaskEnds(t) \/ QueuePolled(t) \/ FramesRead(t) \/ FramesLost(t) \/ FramesAcknowledged(t)
    \/ StatusSkipped(t) \/ StatusRead(t) \/ EventSet(t)

(***************************************************************************)
(* The device.                                                             *)
(***************************************************************************)

DeviceTakesRPC ==
    /\ jlDevice.firmware /\ jlDevice.trigger /\ jlDevice.runs = NULL /\ jlMemory.rpc # NULL
    /\ jlDevice' = [jlDevice EXCEPT !.trigger = FALSE, !.runs = jlMemory.rpc]
    /\ UNCHANGED <<jlCall, jlAdapter, jlProbe, jlTask, jlMemory, jlGot, jlFaults>>

DeviceAnswers ==
    /\ jlDevice.runs # NULL /\ jlCall[jlDevice.runs].kind # "reset"
    /\ \E answer \in {jlDevice.runs, Gate} : jlMemory' = [jlMemory EXCEPT !.done = TRUE, !.answer = answer]
    /\ jlDevice' = [jlDevice EXCEPT !.runs = NULL]
    /\ UNCHANGED <<jlCall, jlAdapter, jlProbe, jlTask, jlGot, jlFaults>>

DeviceResets ==
    /\ jlDevice.runs # NULL /\ jlCall[jlDevice.runs].kind = "reset"
    /\ jlMemory' = [jlMemory EXCEPT !.flags = {}, !.rpc = NULL, !.done = FALSE, !.answer = NULL, !.read = 0, !.write = 0]
    /\ jlDevice' = [jlDevice EXCEPT !.runs = NULL, !.trigger = FALSE]
    /\ UNCHANGED <<jlCall, jlAdapter, jlProbe, jlTask, jlGot, jlFaults>>

\* A trace, if there is room for it
DeviceTraces ==
    /\ "tracing" \in jlMemory.flags /\ jlDevice.sent < JLPushes
    /\ LET next == (jlMemory.write + 1) % JLQueueSize
       IN  /\ next # jlMemory.read
           /\ jlMemory' = [jlMemory EXCEPT !.cells[jlMemory.write] = jlDevice.sent + 1, !.write = next]
    /\ jlDevice' = [jlDevice EXCEPT !.sent = @ + 1]
    /\ UNCHANGED <<jlCall, jlAdapter, jlProbe, jlTask, jlGot, jlFaults>>

JLNext ==
    \/ \E k \in JLCalls, c \in JLConns :
         \/ JLConnect(k, c) \/ JLDisconnect(k, c) \/ CallRPC(k, c) \/ JLSendScript(k, c) \/ CallReset(k, c) \/ ProgramFlash(k, c)
         \/ \E i \in Interfaces : JLOpenInterface(k, c, i)
    \/ \E k \in JLCalls : Probe(k) \/ Step(k)
    \/ \E t \in JLTasks : Poll(t)
    \/ DeviceTakesRPC \/ DeviceAnswers \/ DeviceResets \/ DeviceTraces

JLSpec == JLInit /\ [][JLNext]_jlVars

----------------------------------------------------------------------------

JLTypeOK ==
    /\ \A k \in JLCalls : jlCall[k].state \in {"idle", "runs", "ended", "failed"}
    /\ jlAdapter.conns \subseteq JLConns /\ jlAdapter.opened \subseteq Interfaces
    /\ jlProbe.counter \in Int /\ jlMemory.flags \subseteq Interfaces \cup {"connection"}
    /\ jlMemory.read \in 0 .. JLQueueSize - 1 /\ jlMemory.write \in 0 .. JLQueueSize - 1

\* An RPC that was alone in the device's memory and found the device idle returns the
\* device's answer to itself: neither the event that the polling task set for the RPC
\* before, nor the answer that still lies in the memory, is taken for it
\* (jlink_background.py:92-114).
JLAnswersAreOwn ==
    \A k \in JLCalls :
      jlCall[k].state = "ended" /\ jlCall[k].kind \in {"call", "script"} /\ ~jlCall[k].disturbed => jlCall[k].answer = k

\* The traces that are reported are in the order in which the device sent them, none of
\* them twice, as long as nobody resets the device, which may happen between the indexes
\* and the frames, and polling is not started anew before it has stopped: an interface that
\* is opened during a disconnection may clear the queue under a task that polls it, and add
\* a second task (jlink_background.py:380-541).
JLTracesInOrder ==
    (\A k \in JLCalls : jlCall[k].kind # "reset") /\ ~jlProbe.mixed
        => \A i \in 1 .. Len(jlGot) - 1 : jlGot[i] < jlGot[i + 1]
============================================================================

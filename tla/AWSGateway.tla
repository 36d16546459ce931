----------------------------- MODULE AWSGateway ----------------------------
(***************************************************************************)
(* Several clients and one device behind a gateway, over AWS IoT: the      *)
(* gateway agent (awsiot/gateway_agent.py), the device adapters of the     *)
(* clients (awsiot/device_adapter.py) and their connection managers        *)
(* (awsiot/connection_manager.py).                                         *)
(*                                                                         *)
(* Commands reach the agent in any order and perhaps twice, for it does    *)
(* not ask its MQTT client to put them in order; responses reach every     *)
(* client that listens to the device in the order in which they were       *)
(* published (see PacketQueue).  A connection is known by the key that its *)
(* client made up, which is the number of the call here.                   *)
(***************************************************************************)
EXTENDS None, Naturals, Sequences, FiniteSets

CONSTANTS
    AWCalls,      \* blocking calls 1..n, numbered in the order in which they are made
    AWClients,    \* the adapters
    AWKinds,      \* what the k-th call may be, for each k
    AWMaxQueue,   \* bound on the actions in a connection manager's queue
    AWMaxInbox,   \* bound on the responses under way to a client
    AWRepeats,    \* bound on commands that are delivered twice
    AWHangs,      \* bound on disconnections for want of activity
    AWDrops       \* bound on connections that the device loses by itself

\* None is no entry of the agent.
ASSUME AWGatewayAssumption ==
    NULL \notin [key : AWCalls \cup {NULL}, client : AWClients \cup {NULL}, script : Seq({1, 2})]

VARIABLES
    awCall,       \* the calls: what for, by whom, and how they ended
    awTable,      \* of each client, the connection manager's record for the device
    awQueue,      \* of each client, ConnectionManager._actions
    awLate,       \* history: clients for which something has timed out or was cut off
    awCommands,   \* commands under way to the agent
    awInbox,      \* of each client, the responses under way to it; NULL before it subscribes
    awEntry,      \* the agent's _connections, for the device
    awPending,    \* the agent's coroutines that wait for the device manager
    awLink,       \* the device manager: the key for which the device is connected
    awWiped,      \* history: a failed connect has taken the place of the link's entry
    awDropped,    \* history: the keys of links that the device has lost by itself
    awBudget      \* repetitions, inactivity and losses that may still occur

awVars == <<awCall, awTable, awQueue, awLate, awCommands, awInbox, awEntry, awPending, awLink, awWiped, awDropped, awBudget>>
clientVars == <<awCall, awTable, awQueue, awLate, awInbox>>
agentVars == <<awCommands, awEntry, awPending, awLink, awWiped, awDropped, awBudget>>

NoCall == [kind |-> NULL, client |-> NULL, pc |-> "idle", ok |-> FALSE, of |-> NULL]

ClientInit ==
    /\ awCall = [k \in AWCalls |-> NoCall]
    /\ awTable = [x \in AWClients |-> NULL]
    /\ awQueue = [x \in AWClients |-> <<>>]
    /\ awLate = {}
    /\ awInbox = [x \in AWClients |-> NULL]
AgentInit ==
    /\ awEntry = NULL
    /\ awCommands = {}
    /\ awPending = {}
    /\ awLink = NULL
    /\ awWiped = FALSE
    /\ awDropped = {}
    /\ awBudget = [repeats |-> AWRepeats, hangs |-> AWHangs, drops |-> AWDrops]
AWInit == ClientInit /\ AgentInit

(***************************************************************************)
(* The blocking calls.                                                     *)
(***************************************************************************)

\* A client makes one call at a time.
AWFresh(k, x, kind) ==
    /\ kind \in AWKinds[k]
    /\ awCall[k].pc = "idle" /\ \A j \in AWCalls : j < k => awCall[j].pc # "idle"
    /\ \A j \in AWCalls : awCall[j].client = x => awCall[j].pc = "returned"

Made(kind, x, pc) == [kind |-> kind, client |-> x, pc |-> pc, ok |-> FALSE, of |-> NULL]
Returned(k, ok, of) == [awCall EXCEPT ![k].pc = "returned", ![k].ok = ok, ![k].of = of]

Action(act, k, ok) == [act |-> act, call |-> k, ok |-> ok]
begin_connection(k) == Action("begin_connection", k, TRUE)
finish_connection(k, ok) == Action("finish_connection", k, ok)
begin_disconnection(k) == Action("begin_disconnection", k, TRUE)
finish_disconnection(k, ok) == Action("finish_disconnection", k, ok)
begin_operation(k) == Action("begin_operation", k, TRUE)
finish_operation(k, ok) == Action("finish_operation", k, ok)
unexpected_disconnect(k, ok) == Action("force_disconnect", k, ok)
Put(x, action) == Len(awQueue[x]) < AWMaxQueue /\ awQueue' = [awQueue EXCEPT ![x] = Append(@, action)]

Command(op, k, x, key) == [op |-> op, call |-> k, client |-> x, key |-> key, part |-> 1]

\* connect_async(): the client listens to the device from then on.
AWConnect(k, x) ==
    /\ AWFresh(k, x, "connect")
    /\ awCall' = [awCall EXCEPT ![k] = Made("connect", x, "waiting")]
    /\ Put(x, begin_connection(k))
    /\ awInbox' = [awInbox EXCEPT ![x] = IF @ = NULL THEN <<>> ELSE @]
    /\ awCommands' = awCommands \cup {Command("connect", k, x, k)}
    /\ UNCHANGED <<awTable, awLate, awEntry, awPending, awLink, awWiped, awDropped, awBudget>>

\* What the connection manager has to do, together with the commands that are published;
\* a client without a record returns at once.
Ask(k, x, kind, action, commands) ==
    /\ AWFresh(k, x, kind)
    /\ \E j \in AWCalls : awCall[j].client = x
    /\ IF awTable[x] = NULL
       THEN /\ awCall' = [awCall EXCEPT ![k] = Made(kind, x, "returned")]
            /\ UNCHANGED <<awQueue, awCommands>>
       ELSE /\ awCall' = [awCall EXCEPT ![k] = Made(kind, x, "waiting")]
            /\ Put(x, action)
            /\ awCommands' = awCommands \cup commands
    /\ UNCHANGED <<awTable, awLate, awInbox, awEntry, awPending, awLink, awWiped, awDropped, awBudget>>

KeyOf(x) == IF awTable[x] = NULL THEN NULL ELSE awTable[x].key

\* disconnect_async()
AWDisconnect(k, x) == Ask(k, x, "disconnect", begin_disconnection(k), {Command("disconnect", k, x, KeyOf(x))})

\* _open_interface() and send_rpc_async()
AWOpenInterface(k, x) == Ask(k, x, "open_interface", begin_operation(k), {Command("open_interface", k, x, KeyOf(x))})
AWSendRPC(k, x) == Ask(k, x, "rpc", begin_operation(k), {Command("rpc", k, x, KeyOf(x))})

\* send_script_async(), with a script that needs two messages
AWSendScript(k, x) ==
    Ask(k, x, "send_script", begin_operation(k), {[Command("send_script", k, x, KeyOf(x)) EXCEPT !.part = i] : i \in {1, 2}})

(***************************************************************************)
(* The thread of a client's connection manager.                            *)
(***************************************************************************)

Record(state, k, key) == [state |-> state, call |-> k, key |-> key]
StateOf(x) == IF awTable[x] = NULL THEN "Disconnected" ELSE awTable[x].state
Settle(x, record) == awTable' = [awTable EXCEPT ![x] = record]

\* _begin_connection_action() and _finish_connection_action()
BeginConnection(x, a) ==
    IF StateOf(x) # "Disconnected" THEN awCall' = Returned(a.call, FALSE, NULL) /\ UNCHANGED awTable
    ELSE Settle(x, Record("Connecting", a.call, a.call)) /\ UNCHANGED awCall
FinishConnection(x, a) ==
    LET k == awTable[x].call
    IN  IF StateOf(x) # "Connecting" THEN UNCHANGED <<awTable, awCall>>
        ELSE /\ Settle(x, IF a.ok THEN Record("Idle", NULL, awTable[x].key) ELSE NULL)
             /\ awCall' = Returned(k, a.ok, a.call)

\* _begin_disconnection_action() and _finish_disconnection_action()
BeginDisconnection(x, a) ==
    IF StateOf(x) # "Idle" THEN awCall' = Returned(a.call, FALSE, NULL) /\ UNCHANGED awTable
    ELSE Settle(x, Record("Disconnecting", a.call, awTable[x].key)) /\ UNCHANGED awCall
FinishDisconnection(x, a) ==
    LET k == awTable[x].call
    IN  IF StateOf(x) # "Disconnecting" THEN UNCHANGED <<awTable, awCall>>
        ELSE /\ Settle(x, IF a.ok THEN NULL ELSE Record("Idle", NULL, awTable[x].key))
             /\ awCall' = Returned(k, a.ok, a.call)

\* _begin_operation_action(): the callback of an RPC takes other arguments, so that the
\* refusal raises and the caller goes on waiting.
BeginOperation(x, a) ==
    IF StateOf(x) = "Idle" THEN Settle(x, Record("InProgress", a.call, awTable[x].key)) /\ UNCHANGED awCall
    ELSE /\ awCall' = IF awCall[a.call].kind = "rpc" THEN awCall ELSE Returned(a.call, FALSE, NULL)
         /\ UNCHANGED awTable
\* _finish_operation_action(): whoever finishes, it ends the operation that is in progress.
FinishOperation(x, a) ==
    LET k == awTable[x].call
    IN  IF StateOf(x) # "InProgress" THEN UNCHANGED <<awTable, awCall>>
        ELSE Settle(x, Record("Idle", NULL, awTable[x].key)) /\ awCall' = Returned(k, a.ok, a.call)

\* _force_disconnect_action(): every callback has the wrong arguments and raises before
\* the record is taken out; a script has none at all, and its caller is forgotten.
ForceDisconnect(x) ==
    /\ IF StateOf(x) = "Idle" \/ (StateOf(x) = "InProgress" /\ awCall[awTable[x].call].kind = "send_script")
       THEN Settle(x, NULL) ELSE UNCHANGED awTable
    /\ UNCHANGED awCall

\* _check_timeouts(): scripts have no timeout.
TimeoutAction(x) ==
    CASE StateOf(x) = "Connecting" -> <<finish_connection(NULL, FALSE)>>
      [] StateOf(x) = "Disconnecting" -> <<finish_disconnection(NULL, FALSE)>>
      [] StateOf(x) = "InProgress" /\ awCall[awTable[x].call].kind # "send_script" -> <<finish_operation(NULL, FALSE)>>
      [] OTHER -> <<>>

\* One round of ConnectionManager.run(): what has become late is timed out, again in each
\* round, and one action is handled.
Loop(x) ==
    \E late \in BOOLEAN :
      LET timeouts == IF late THEN TimeoutAction(x) ELSE <<>>
          actions == awQueue[x] \o timeouts
          a == Head(actions)
      IN /\ actions # <<>> /\ Len(actions) <= AWMaxQueue + 1
         /\ awLate' = IF timeouts # <<>> \/ a.act = "force_disconnect" THEN awLate \cup {x} ELSE awLate
         /\ awQueue' = [awQueue EXCEPT ![x] = Tail(actions)]
         /\ \/ a.act = "begin_connection" /\ BeginConnection(x, a)
            \/ a.act = "finish_connection" /\ FinishConnection(x, a)
            \/ a.act = "begin_disconnection" /\ BeginDisconnection(x, a)
            \/ a.act = "finish_disconnection" /\ FinishDisconnection(x, a)
            \/ a.act = "begin_operation" /\ BeginOperation(x, a)
            \/ a.act = "finish_operation" /\ FinishOperation(x, a)
            \/ a.act = "force_disconnect" /\ ForceDisconnect(x)
         /\ UNCHANGED <<awInbox, agentVars>>

(***************************************************************************)
(* What a client receives.                                                 *)
(***************************************************************************)

\* A response is known by the operation that it is about; "lost" is the notification of a
\* disconnection that nobody asked for.
Response(op, k, x, ok) == [op |-> op, call |-> k, client |-> x, ok |-> ok]

AWPublish(message) ==
    /\ \A x \in AWClients : awInbox[x] # NULL => Len(awInbox[x]) < AWMaxInbox
    /\ awInbox' = [x \in AWClients |-> IF awInbox[x] = NULL THEN NULL ELSE Append(awInbox[x], message)]

\* What the connection manager is asked for.
Asked(message) ==
    LET k == message.call
        ok == message.ok
    IN  CASE message.op = "connect" -> finish_connection(k, ok)
          [] message.op = "disconnect" -> finish_disconnection(k, ok)
          [] message.op = "lost" -> unexpected_disconnect(k, ok)
          [] OTHER -> finish_operation(k, ok)

\* Mutant: the responses to connect commands of other clients are heeded, too.
ReceiveAny(x) ==
    /\ awInbox[x] # NULL
    /\ awInbox[x] # <<>>
    /\ LET message == Head(awInbox[x])
           heeded == IF message.op = "connect" THEN TRUE ELSE awTable[x] # NULL
       IN  IF heeded THEN Put(x, Asked(message)) ELSE UNCHANGED awQueue
    /\ awInbox' = [awInbox EXCEPT ![x] = Tail(@)]
    /\ UNCHANGED <<awCall, awTable, awLate, agentVars>>

\* _on_status_message() lets the messages for other clients be; _on_response_message()
\* looks whether there is a record, and takes any message.
AWReceive(x) ==
    /\ awInbox[x] # NULL
    /\ awInbox[x] # <<>>
    /\ LET message == Head(awInbox[x])
           heeded == IF message.op = "connect" THEN message.client = x ELSE awTable[x] # NULL
       IN  IF heeded THEN Put(x, Asked(message)) ELSE UNCHANGED awQueue
    /\ awInbox' = [awInbox EXCEPT ![x] = Tail(@)]
    /\ UNCHANGED <<awCall, awTable, awLate, agentVars>>

(***************************************************************************)
(* The gateway agent.  A failed connect leaves an entry without a key, at  *)
(* which every later look raises KeyError.                                 *)
(***************************************************************************)

Entry(k, x) == [key |-> k, client |-> x, script |-> <<>>]
NoKey == [key |-> NULL, client |-> NULL, script |-> <<>>]
Pending(op, k, x, key) == [op |-> op, call |-> k, client |-> x, key |-> key]

\* A command arrives; it may arrive once more.
Taken(m) ==
    \/ awCommands' = awCommands \ {m} /\ awBudget' = awBudget
    \/ awBudget.repeats > 0 /\ awBudget' = [awBudget EXCEPT !.repeats = @ - 1] /\ awCommands' = awCommands

\* _connect_to_device(), until the device manager is asked
AgentConnects(m) ==
    /\ m.op = "connect" /\ Taken(m)
    /\ IF awEntry # NULL THEN AWPublish(Response("connect", m.call, m.client, FALSE)) /\ UNCHANGED awPending
       ELSE awPending' = awPending \cup {Pending("connect", m.call, m.client, m.key)} /\ UNCHANGED awInbox
    /\ UNCHANGED <<awCall, awTable, awQueue, awLate, awEntry, awLink, awWiped, awDropped>>

\* _connect_to_device(), once it has answered; a device is connected once.
AgentConnected(p) ==
    /\ p.op = "connect"
    /\ awPending' = awPending \ {p}
    /\ \E ok \in {FALSE, awLink = NULL} :
         /\ awLink' = IF ok THEN p.key ELSE awLink
         /\ awEntry' = IF ok THEN Entry(p.key, p.client) ELSE NoKey
         /\ awWiped' = (awWiped \/ ~ok)
         /\ AWPublish(Response("connect", p.call, p.client, ok))
    /\ UNCHANGED <<awCall, awTable, awQueue, awLate, awCommands, awDropped, awBudget>>

\* The device's connection is lost by itself.  The agent has monitors for reports and
\* traces only: its entry stays, and with it nobody can connect any more.
AWDeviceDrops ==
    /\ awLink # NULL
    /\ awBudget.drops > 0 /\ awBudget' = [awBudget EXCEPT !.drops = @ - 1]
    /\ awLink' = NULL
    /\ awDropped' = awDropped \cup {awLink}
    /\ UNCHANGED <<clientVars, awCommands, awEntry, awPending, awWiped>>

\* _validate_connection(): without an entry, or with another key, the command is dropped.
Validated(m) == IF awEntry = NULL THEN FALSE ELSE awEntry.key # NULL /\ awEntry.key = m.key

\* _open_interface(), _close_interface(), _send_rpc(), and _send_script() with its last part
AgentOperates(m) ==
    /\ m.op \in {"open_interface", "rpc", "send_script"} /\ Taken(m)
    /\ awPending' = IF Validated(m) /\ (m.op = "send_script" => m.part = 2)
                    THEN awPending \cup {Pending(m.op, m.call, m.client, awEntry.key)} ELSE awPending
    /\ awEntry' = IF Validated(m) /\ m.op = "send_script"
                  THEN [awEntry EXCEPT !.script = Append(IF m.part = 1 THEN <<>> ELSE @, m.part)] ELSE awEntry
    /\ UNCHANGED <<clientVars, awLink, awWiped, awDropped>>

AgentOperated(p) ==
    /\ p.op \in {"open_interface", "rpc", "send_script"}
    /\ awPending' = awPending \ {p}
    /\ \E ok \in {FALSE, awLink = p.key} : AWPublish(Response(p.op, p.call, p.client, ok))
    /\ UNCHANGED <<awCall, awTable, awQueue, awLate, awCommands, awEntry, awLink, awWiped, awDropped, awBudget>>

\* _disconnect_from_device(), for a client or, after some time without activity, on the
\* agent's own account (_disconnect_hanging_devices())
AgentDisconnects(m) ==
    /\ m.op = "disconnect" /\ Taken(m)
    /\ awPending' = IF Validated(m) THEN awPending \cup {Pending("disconnect", m.call, m.client, awEntry.key)} ELSE awPending
    /\ UNCHANGED <<clientVars, awEntry, awLink, awWiped, awDropped>>

AgentHangsUp ==
    /\ awEntry # NULL /\ awEntry # NoKey
    /\ awBudget.hangs > 0 /\ awBudget' = [awBudget EXCEPT !.hangs = @ - 1]
    /\ awPending' = awPending \cup {Pending("lost", NULL, awEntry.client, awEntry.key)}
    /\ UNCHANGED <<clientVars, awCommands, awEntry, awLink, awWiped, awDropped>>

\* Mutant: the entry stays.
DisconnectedKeeping(p) ==
    /\ p.op \in {"disconnect", "lost"}
    /\ awPending' = awPending \ {p}
    /\ \E ok \in {FALSE, awLink = p.key} :
         /\ awLink' = IF ok THEN NULL ELSE awLink
         /\ awEntry' = awEntry
         /\ IF (ok /\ awEntry = NULL) \/ (~ok /\ p.op = "lost") THEN UNCHANGED awInbox
            ELSE AWPublish(Response(p.op, p.call, p.client, ok))
    /\ UNCHANGED <<awCall, awTable, awQueue, awLate, awCommands, awWiped, awDropped, awBudget>>

\* Mutant: the entry is removed even if the device could not be disconnected.
DisconnectedAnyway(p) ==
    /\ p.op \in {"disconnect", "lost"}
    /\ awPending' = awPending \ {p}
    /\ \E ok \in {FALSE, awLink = p.key} :
         /\ awLink' = IF ok THEN NULL ELSE awLink
         /\ awEntry' = NULL
         /\ IF (ok /\ awEntry = NULL) \/ (~ok /\ p.op = "lost") THEN UNCHANGED awInbox
            ELSE AWPublish(Response(p.op, p.call, p.client, ok))
    /\ UNCHANGED <<awCall, awTable, awQueue, awLate, awCommands, awWiped, awDropped, awBudget>>

\* Whatever the entry is by now, it is removed; where there is none, the coroutine ends
\* with KeyError and publishes nothing.
AgentDisconnected(p) ==
    /\ p.op \in {"disconnect", "lost"}
    /\ awPending' = awPending \ {p}
    /\ \E ok \in {FALSE, awLink = p.key} :
         /\ awLink' = IF ok THEN NULL ELSE awLink
         /\ awEntry' = IF ok THEN NULL ELSE awEntry
         /\ IF (ok /\ awEntry = NULL) \/ (~ok /\ p.op = "lost") THEN UNCHANGED awInbox
            ELSE AWPublish(Response(p.op, p.call, p.client, ok))
    /\ UNCHANGED <<awCall, awTable, awQueue, awLate, awCommands, awWiped, awDropped, awBudget>>

Callers == \E k \in AWCalls, x \in AWClients :
    AWConnect(k, x) \/ AWDisconnect(k, x) \/ AWOpenInterface(k, x) \/ AWSendRPC(k, x) \/ AWSendScript(k, x)
Agent ==
    \/ \E m \in awCommands : AgentConnects(m) \/ AgentOperates(m) \/ AgentDisconnects(m)
    \/ \E p \in awPending : AgentConnected(p) \/ AgentOperated(p) \/ AgentDisconnected(p)
    \/ AgentHangsUp \/ AWDeviceDrops
AWNext ==
    \/ Callers
    \/ \E x \in AWClients : Loop(x) \/ AWReceive(x)
    \/ Agent

AWSpec == AWInit /\ [][AWNext]_awVars

----------------------------------------------------------------------------

AWTypeOK ==
    /\ \A k \in AWCalls : awCall[k].pc \in {"idle", "waiting", "returned"} /\ awCall[k].ok \in BOOLEAN
    /\ \A x \in AWClients : StateOf(x) \in {"Disconnected", "Connecting", "Idle", "InProgress", "Disconnecting"}
    /\ awEntry # NULL => awEntry.key \in AWCalls \cup {NULL}
    /\ awLink \in AWCalls \cup {NULL}
    /\ awDropped \subseteq AWCalls

\* A call that succeeds was answered by the response to itself, as long as nothing timed out
\* at its client, the agent did not hang up and no command arrived twice: clients listen to
\* the same topics, and commands arrive in any order (device_adapter.py:456-505).
AWAnswersAreOwn ==
    awBudget.repeats = AWRepeats /\ awBudget.hangs = AWHangs =>
        \A k \in AWCalls : awCall[k].pc = "returned" /\ awCall[k].ok /\ awCall[k].client \notin awLate => awCall[k].of = k

\* Whoever passes the check of the key operates his own connection, also when disconnections
\* cross with connections: the agent's entry is for the connection that the device manager
\* has, or for one that the device has lost by itself and none has taken the place of
\* (gateway_agent.py:118-144, 486-578).
AWEntryIsTheLink ==
    awEntry # NULL /\ awEntry.key # NULL =>
        awLink = awEntry.key \/ (awLink = NULL /\ awEntry.key \in awDropped)

\* As long as no connect has failed, a link has an entry, by which it can be ended
\* (gateway_agent.py:563-578).
AWLinkHasEntry == awLink # NULL /\ ~awWiped => awEntry # NULL

\* "Dropping message that is for another client" (device_adapter.py:487-488): no call is
\* answered by a response to another client's.
AWForeignAnswersAreDropped ==
    \A k \in AWCalls : awCall[k].of # NULL => awCall[awCall[k].of].client = awCall[k].client

\* The agent's entry for a device and the device manager's link, while there is one, are for
\* the same key, and there is no link without an entry (gateway_agent.py:206-267).
EntriesFollowLinks == AWTypeOK /\ AWEntryIsTheLink /\ AWLinkHasEntry
=============================================================================

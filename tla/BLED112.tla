------------------------------ MODULE BLED112 ------------------------------
(***************************************************************************)
(* The Bluetooth adapter for the BLED112 dongle (bled112.py) and the       *)
(* thread that executes its commands (BLED112CommandProcessor in           *)
(* bled112_cmd.py).                                                        *)
(*                                                                         *)
(* Callers put commands into a queue and block until their callback is     *)
(* called.  One thread takes them in order; while a command waits for its  *)
(* result the thread handles the other events of the dongle, and callbacks *)
(* put the next command of a connection attempt at the end of the queue.   *)
(* Commands name a connection by the dongle's handle, which the dongle     *)
(* gives to another connection when the first one has ended.               *)
(***************************************************************************)
EXTENDS None, Naturals, Integers, Sequences, FiniteSets

CONSTANTS
    B112Calls,     \* blocking calls 1..n, numbered in the order in which they are made
    B112Conns,     \* connection ids, each connected once, each to a device of its own
    B112Handles,   \* the dongle's handles
    B112Retries,   \* connect_async's retries
    B112Chunks     \* writes that a script takes

VARIABLES
    b112Call,      \* the calls: what for, on which connection, and how they ended
    b112Queue,     \* BLED112CommandProcessor._commands
    b112Cmd,       \* the command that is being executed
    b112Events,    \* the disconnections that the dongle has reported and nobody has handled
    b112Table,     \* _connections: by handle
    b112Link,      \* the connection that a handle stands for in the dongle
    b112Count,     \* connecting_count
    b112Scanning,  \* scanning
    b112Thread,    \* the command thread: running, stopped, or dead of an exception
    b112Mixed      \* history: connections whose commands were executed for another one

b112Vars == <<b112Call, b112Queue, b112Cmd, b112Events, b112Table, b112Link, b112Count,
              b112Scanning, b112Thread, b112Mixed>>

B112Init ==
    /\ b112Call = [k \in B112Calls |-> [kind |-> NULL, conn |-> NULL, pc |-> "idle", ok |-> FALSE]]
    /\ b112Queue = <<>>
    /\ b112Cmd = NULL
    /\ b112Events = <<>>
    /\ b112Table = [h \in B112Handles |-> NULL]
    /\ b112Link = [h \in B112Handles |-> NULL]
    /\ b112Count = 0
    /\ b112Scanning = TRUE
    /\ b112Thread = "running"
    /\ b112Mixed = {}

(***************************************************************************)
(* The callers.                                                            *)
(***************************************************************************)

B112Fresh(k) == b112Call[k].pc = "idle" /\ \A j \in B112Calls : j < k => b112Call[j].pc # "idle"
B112Made(kind, c, pc) == [kind |-> kind, conn |-> c, pc |-> pc, ok |-> FALSE]

B112Command(cmd, c, h, k, left) == [cmd |-> cmd, conn |-> c, handle |-> h, call |-> k, left |-> left, up |-> FALSE]

\* The callback of call k.
B112Returned(k, ok) ==
    IF k \in B112Calls /\ b112Call[k].pc = "waiting"
    THEN [b112Call EXCEPT ![k].pc = "returned", ![k].ok = ok] ELSE b112Call

\* _find_handle()
HandleOf(c) ==
    IF \E h \in B112Handles : b112Table[h] # NULL /\ b112Table[h].conn = c
    THEN CHOOSE h \in B112Handles : b112Table[h] # NULL /\ b112Table[h].conn = c ELSE NULL

\* The connections that were handed to callers.
B112Open(c) == \E k \in B112Calls : b112Call[k].kind = "connect" /\ b112Call[k].conn = c /\ b112Call[k].ok

\* connect_async(): scanning is stopped first, by a command that the caller waits for.
B112StartConnect(k, c) ==
    /\ B112Fresh(k) /\ \A j \in B112Calls : b112Call[j].kind = "connect" => b112Call[j].conn # c
    /\ b112Thread # "stopped"
    /\ IF b112Scanning
       THEN /\ b112Call' = [b112Call EXCEPT ![k] = B112Made("connect", c, "stopping")]
            /\ b112Queue' = Append(b112Queue, B112Command("stop_scan", c, NULL, k, 0))
            /\ UNCHANGED b112Count
       ELSE /\ b112Call' = [b112Call EXCEPT ![k] = B112Made("connect", c, "waiting")]
            /\ b112Queue' = Append(b112Queue, B112Command("connect", c, NULL, k, B112Retries))
            /\ b112Count' = b112Count + 1
    /\ UNCHANGED <<b112Cmd, b112Events, b112Table, b112Link, b112Scanning, b112Thread, b112Mixed>>

\* The rest of connect_async(), when stop_scan() has returned; async_command() calls back
\* at once when the thread was stopped.
GoOnConnecting(k) ==
    /\ b112Call[k].pc = "stopped"
    /\ b112Scanning' = FALSE
    /\ IF b112Thread = "stopped"
       THEN /\ b112Call' = [b112Call EXCEPT ![k].pc = "returned"]
            /\ UNCHANGED <<b112Queue, b112Count>>
       ELSE /\ b112Call' = [b112Call EXCEPT ![k].pc = "waiting"]
            /\ b112Queue' = Append(b112Queue, B112Command("connect", b112Call[k].conn, NULL, k, B112Retries))
            /\ b112Count' = b112Count + 1
    /\ UNCHANGED <<b112Cmd, b112Events, b112Table, b112Link, b112Thread, b112Mixed>>

\* What the other calls have in common: async_command() for the handle that the
\* connection has now.
B112Ask(k, c, kind, left) ==
    /\ B112Fresh(k) /\ B112Open(c)
    /\ IF HandleOf(c) = NULL \/ b112Thread = "stopped"
       THEN /\ b112Call' = [b112Call EXCEPT ![k] = B112Made(kind, c, "returned")]
            /\ UNCHANGED b112Queue
       ELSE /\ b112Call' = [b112Call EXCEPT ![k] = B112Made(kind, c, "waiting")]
            /\ b112Queue' = Append(b112Queue, B112Command(kind, c, HandleOf(c), k, left))
    /\ UNCHANGED <<b112Cmd, b112Events, b112Table, b112Link, b112Count, b112Scanning, b112Thread, b112Mixed>>

B112StartDisconnect(k, c) == B112Ask(k, c, "disconnect", 0)
B112OpenRPCInterface(k, c) == B112Ask(k, c, "interface", 0)
B112OpenStreamingInterface(k, c) == B112Ask(k, c, "interface", 0)
OpenTracingInterface(k, c) == B112Ask(k, c, "interface", 0)
B112CloseRPCInterface(k, c) == B112Ask(k, c, "interface", 0)
B112StartRPC(k, c) == B112Ask(k, c, "rpc", 0)
B112StartScript(k, c) == B112Ask(k, c, "script", B112Chunks)

\* _open_script_interface() asks the dongle nothing.
B112OpenScriptInterface(k, c) ==
    /\ B112Fresh(k) /\ B112Open(c)
    /\ \E ok \in {FALSE, HandleOf(c) # NULL} :
         b112Call' = [b112Call EXCEPT ![k] = [B112Made("interface", c, "returned") EXCEPT !.ok = ok]]
    /\ UNCHANGED <<b112Queue, b112Cmd, b112Events, b112Table, b112Link, b112Count, b112Scanning, b112Thread, b112Mixed>>

\* periodic_callback(): nothing is connected or being connected, so scan again.
Periodic ==
    /\ b112Thread # "stopped" /\ ~b112Scanning /\ b112Count = 0
    /\ \A h \in B112Handles : b112Table[h] = NULL
    /\ b112Queue = <<>> /\ b112Cmd = NULL
    /\ b112Queue' = Append(b112Queue, B112Command("start_scan", NULL, NULL, NULL, 0))
    /\ UNCHANGED <<b112Call, b112Cmd, b112Events, b112Table, b112Link, b112Count, b112Scanning, b112Thread, b112Mixed>>

\* periodic_callback() after the dongle was unplugged: _stop_from_hardware_failure(), which
\* waits for the command that is being executed.
HardwareFails ==
    /\ b112Thread # "stopped" /\ b112Cmd = NULL
    /\ b112Thread' = "stopped"
    /\ b112Table' = [h \in B112Handles |-> NULL]
    /\ b112Link' = [h \in B112Handles |-> NULL]
    /\ UNCHANGED <<b112Call, b112Queue, b112Cmd, b112Events, b112Count, b112Scanning, b112Mixed>>

(***************************************************************************)
(* The dongle.                                                             *)
(***************************************************************************)

\* A device goes away, at once (error 0x23e) or later.
B112Drop(h, early) ==
    /\ b112Link[h] # NULL /\ b112Thread # "stopped"
    /\ b112Link' = [b112Link EXCEPT ![h] = NULL]
    /\ b112Events' = Append(b112Events, [handle |-> h, early |-> early])
    /\ UNCHANGED <<b112Call, b112Queue, b112Cmd, b112Table, b112Count, b112Scanning, b112Thread, b112Mixed>>

Reported(h) == \E i \in DOMAIN b112Events : b112Events[i].handle = h

\* What is left when the disconnection of h, of which there is at most one, has been taken
\* by the command that waited for it.
Unreported(h) ==
    IF Reported(h)
    THEN LET i == CHOOSE i \in DOMAIN b112Events : b112Events[i].handle = h
         IN  SubSeq(b112Events, 1, i - 1) \o SubSeq(b112Events, i + 1, Len(b112Events))
    ELSE b112Events

(***************************************************************************)
(* The command thread.                                                     *)
(***************************************************************************)

Removed(table, h) == [table EXCEPT ![h] = NULL]
B112Idle == b112Cmd' = NULL

\* _on_connection_failed(), for what the table has (or has not): an early disconnection is
\* tried again, by connect_async(); were it scanning, the thread would wait for itself.  It
\* also ends if it finds a connection that has not failed, under a handle used again.
B112ConnectionFailed(h, d, early) ==
    IF d # NULL /\ ~d.failed
    THEN /\ b112Count' = b112Count - 1
         /\ b112Thread' = "dead"
         /\ UNCHANGED <<b112Table, b112Queue, b112Call>>
    ELSE
    LET again == d # NULL /\ early /\ d.retries > 0
    IN /\ b112Table' = Removed(b112Table, h)
       /\ b112Count' = IF again /\ ~b112Scanning THEN b112Count ELSE b112Count - 1
       /\ b112Thread' = IF again /\ b112Scanning THEN "dead" ELSE b112Thread
       /\ b112Queue' = IF again /\ ~b112Scanning
                       THEN Append(b112Queue, B112Command("connect", d.conn, NULL, d.call, d.retries - 1)) ELSE b112Queue
       /\ b112Call' = IF again \/ d = NULL THEN b112Call ELSE B112Returned(d.call, FALSE)

\* A mutant: the entry is removed before its handler is called.
RemoveThenHandle ==
    LET e == b112Events[1] IN
    /\ b112Thread = "running" /\ b112Events # <<>>
    /\ b112Events' = Tail(b112Events)
    /\ b112Table' = Removed(b112Table, e.handle)
    /\ b112Count' = IF b112Table[e.handle] # NULL /\ b112Table[e.handle].state = "preparing" THEN b112Count - 1 ELSE b112Count
    /\ UNCHANGED <<b112Call, b112Queue, b112Thread, b112Cmd, b112Link, b112Scanning, b112Mixed>>

\* A mutant: only an attempt is removed from the table.
HandleAttemptsOnly ==
    LET e == b112Events[1]
        d == b112Table[e.handle]
    IN /\ b112Thread = "running" /\ b112Events # <<>>
       /\ b112Events' = Tail(b112Events)
       /\ IF d # NULL /\ d.state = "preparing"
          THEN B112ConnectionFailed(e.handle, [d EXCEPT !.failed = TRUE], e.early)
          ELSE UNCHANGED <<b112Table, b112Call, b112Queue, b112Count, b112Thread>>
       /\ UNCHANGED <<b112Cmd, b112Link, b112Scanning, b112Mixed>>

\* _handle_event(), of a disconnection
HandleEvent ==
    LET e == b112Events[1]
        d == b112Table[e.handle]
    IN /\ b112Thread = "running" /\ b112Events # <<>>
       /\ b112Events' = Tail(b112Events)
       /\ IF d # NULL /\ d.state = "preparing"
          THEN B112ConnectionFailed(e.handle, [d EXCEPT !.failed = TRUE], e.early)
          ELSE /\ b112Table' = Removed(b112Table, e.handle)
               /\ UNCHANGED <<b112Call, b112Queue, b112Count, b112Thread>>
       /\ UNCHANGED <<b112Cmd, b112Link, b112Scanning, b112Mixed>>

\* What a handle stands for, in the dongle or in the table.
Meanings(h) == ({b112Link[h]} \cup {IF b112Table[h] = NULL THEN NULL ELSE b112Table[h].conn}) \ {NULL}

\* run() takes a command; it is about whatever its handle stands for by now.
B112Take ==
    LET a == b112Queue[1]
        others == IF a.handle \in B112Handles THEN Meanings(a.handle) \ {a.conn} ELSE {}
    IN /\ b112Thread = "running" /\ b112Cmd = NULL /\ b112Queue # <<>>
       /\ b112Cmd' = [a EXCEPT !.up = a.handle \in B112Handles /\ b112Link[a.handle] # NULL]
       /\ b112Queue' = Tail(b112Queue)
       /\ b112Mixed' = IF others = {} THEN b112Mixed ELSE b112Mixed \cup others \cup {a.conn}
       /\ UNCHANGED <<b112Call, b112Events, b112Table, b112Link, b112Count, b112Scanning, b112Thread>>

Executing(cmd) == b112Thread = "running" /\ b112Cmd # NULL /\ b112Cmd.cmd = cmd

\* _stop_scan() and _start_scan(); a scan that does not start stops the adapter.
ScanEnds(ok) ==
    /\ b112Thread = "running" /\ b112Cmd # NULL /\ b112Cmd.cmd \in {"stop_scan", "start_scan"}
    /\ B112Idle
    /\ IF b112Cmd.cmd = "stop_scan"
       THEN /\ b112Call' = [b112Call EXCEPT ![b112Cmd.call].pc = IF ok THEN "stopped" ELSE "raised"]
            /\ UNCHANGED <<b112Scanning, b112Thread, b112Table>>
       ELSE /\ b112Scanning' = ok
            /\ b112Thread' = IF ok THEN b112Thread ELSE "stopped"
            /\ b112Table' = IF ok THEN b112Table ELSE [h \in B112Handles |-> NULL]
            /\ UNCHANGED b112Call
    /\ UNCHANGED <<b112Queue, b112Events, b112Link, b112Count, b112Mixed>>

\* _on_connection_finished(): the services are probed next.
ConnectionFinished(a, h) ==
    /\ b112Table' = [b112Table EXCEPT ![h] =
          [conn |-> a.conn, call |-> a.call, state |-> "preparing", retries |-> a.left, probed |-> FALSE, failed |-> FALSE]]
    /\ b112Queue' = Append(b112Queue, B112Command("services", a.conn, h, NULL, 0))
    /\ UNCHANGED <<b112Call, b112Count>>

\* _connect(): the dongle chooses a handle.
ConnectEnds(ok) ==
    LET a == b112Cmd IN
    /\ Executing("connect") /\ B112Idle
    /\ IF ok
       THEN \E h \in B112Handles :
              /\ b112Link[h] = NULL /\ ~Reported(h)
              /\ b112Link' = [b112Link EXCEPT ![h] = a.conn]
              /\ ConnectionFinished(a, h)
       ELSE /\ b112Count' = b112Count - 1
            /\ b112Call' = B112Returned(a.call, FALSE)
            /\ UNCHANGED <<b112Link, b112Table, b112Queue>>
    /\ UNCHANGED <<b112Events, b112Scanning, b112Thread, b112Mixed>>

\* disconnect_async() of an attempt that has failed, with _on_connection_failed() as its
\* callback, which is called at once when the connection is not there any more.
GiveUp(c) ==
    IF HandleOf(c) = NULL
    THEN b112Count' = b112Count - 1 /\ UNCHANGED b112Queue
    ELSE b112Queue' = Append(b112Queue, B112Command("disconnect", c, HandleOf(c), NULL, 0)) /\ UNCHANGED b112Count

\* _probe_services_finished() and _probe_characteristics_finished(): next is queued.
ProbeEnds(cmd, next, ok) ==
    LET a == b112Cmd IN
    /\ Executing(cmd) /\ B112Idle
    /\ ok => a.up
    /\ IF b112Table[a.handle] = NULL THEN UNCHANGED <<b112Queue, b112Count, b112Table>>
       ELSE /\ b112Table' = [b112Table EXCEPT ![a.handle].probed = @ \/ ok, ![a.handle].failed = @ \/ ~ok]
            /\ IF ok THEN b112Queue' = Append(b112Queue, B112Command(next, a.conn, a.handle, NULL, 0)) /\ UNCHANGED b112Count
                     ELSE GiveUp(a.conn)
    /\ UNCHANGED <<b112Call, b112Events, b112Link, b112Scanning, b112Thread, b112Mixed>>

ServicesProbed(ok) == ProbeEnds("services", "characteristics", ok)
CharacteristicsProbed(ok) == ProbeEnds("characteristics", "check", ok)

\* _finish_connection() does not look whether the connection is still there: if it is not,
\* or if it is another one that is not probed yet or that is ready already, the exception
\* ends the thread.
B112FinishConnection(h) ==
    LET d == b112Table[h] IN
    IF IF d = NULL THEN TRUE ELSE ~d.probed \/ d.state = "connected"
    THEN b112Thread' = "dead" /\ UNCHANGED <<b112Table, b112Count, b112Call>>
    ELSE /\ b112Table' = [b112Table EXCEPT ![h].state = "connected"]
         /\ b112Count' = b112Count - 1
         /\ b112Call' = B112Returned(d.call, TRUE)
         /\ UNCHANGED b112Thread

\* _on_authentication_check_response(): a device that does not answer needs no authentication.
CheckEnds(ok) ==
    LET a == b112Cmd IN
    /\ Executing("check") /\ B112Idle
    /\ \/ /\ ok /\ a.up
          /\ b112Queue' = Append(b112Queue, B112Command("authenticate", a.conn, a.handle, NULL, 0))
          /\ UNCHANGED <<b112Table, b112Count, b112Call, b112Thread>>
       \/ /\ ~ok
          /\ B112FinishConnection(a.handle)
          /\ UNCHANGED b112Queue
    /\ UNCHANGED <<b112Events, b112Link, b112Scanning, b112Mixed>>

\* _on_authentication_finished()
AuthenticationEnds(ok) ==
    LET a == b112Cmd IN
    /\ Executing("authenticate") /\ B112Idle
    /\ ok => a.up
    /\ IF ok THEN B112FinishConnection(a.handle) /\ UNCHANGED b112Queue
             ELSE /\ GiveUp(a.conn)
                  /\ b112Table' = [h \in B112Handles |-> IF h = a.handle /\ b112Table[h] # NULL
                                                         THEN [b112Table[h] EXCEPT !.failed = TRUE] ELSE b112Table[h]]
                  /\ UNCHANGED <<b112Call, b112Thread>>
    /\ UNCHANGED <<b112Events, b112Link, b112Scanning, b112Mixed>>

\* _on_disconnect(): the entry goes, whatever the dongle says.
B112Disconnected(a, ok) ==
    IF a.call = NULL
    THEN B112ConnectionFailed(a.handle, b112Table[a.handle], FALSE)
    ELSE /\ b112Call' = B112Returned(a.call, ok)
         /\ b112Table' = Removed(b112Table, a.handle)
         /\ UNCHANGED <<b112Queue, b112Count, b112Thread>>

\* _disconnect()
DisconnectEnds(ok) ==
    LET a == b112Cmd IN
    /\ Executing("disconnect") /\ B112Idle
    /\ ok => a.up
    /\ IF ok
       THEN /\ b112Link' = [b112Link EXCEPT ![a.handle] = NULL]
            /\ b112Events' = Unreported(a.handle)
       ELSE UNCHANGED <<b112Link, b112Events>>
    /\ B112Disconnected(a, ok)
    /\ UNCHANGED <<b112Scanning, b112Mixed>>

\* _enable_rpcs(), _disable_rpcs(), _enable_streaming() or _enable_tracing(), and
\* _on_interface_finished()
InterfaceEnds(ok) ==
    /\ Executing("interface") /\ B112Idle
    /\ ok => b112Cmd.up
    /\ b112Call' = B112Returned(b112Cmd.call, ok)
    /\ UNCHANGED <<b112Queue, b112Events, b112Table, b112Link, b112Count, b112Scanning, b112Thread, b112Mixed>>

\* _send_rpc() and _send_rpc_finished(); whose response it is that came is not modelled.
RPCEnds(ok) ==
    LET a == b112Cmd IN
    /\ Executing("rpc") /\ B112Idle
    /\ ok => a.up
    /\ b112Call' = B112Returned(a.call, ok)
    /\ UNCHANGED <<b112Queue, b112Events, b112Table, b112Link, b112Count, b112Scanning, b112Thread, b112Mixed>>

\* The device disconnects instead of answering: success, and the connection goes.
RPCDisconnects ==
    LET a == b112Cmd IN
    /\ Executing("rpc") /\ B112Idle
    /\ Reported(a.handle)
    /\ b112Call' = B112Returned(a.call, TRUE)
    /\ b112Table' = Removed(b112Table, a.handle)
    /\ b112Events' = Unreported(a.handle)
    /\ UNCHANGED <<b112Queue, b112Link, b112Count, b112Scanning, b112Thread, b112Mixed>>

\* _send_script(): one write; what is left goes to the end of the queue.
B112ScriptEnds(ok) ==
    LET a == b112Cmd IN
    /\ Executing("script") /\ B112Idle
    /\ ok => a.up
    /\ IF ok /\ a.left > 1
       THEN /\ b112Queue' = Append(b112Queue, [a EXCEPT !.left = a.left - 1, !.up = FALSE])
            /\ UNCHANGED b112Call
       ELSE /\ b112Call' = B112Returned(a.call, ok)
            /\ UNCHANGED b112Queue
    /\ UNCHANGED <<b112Events, b112Table, b112Link, b112Count, b112Scanning, b112Thread, b112Mixed>>

CommandEnds ==
    \/ \E ok \in BOOLEAN :
        \/ ScanEnds(ok)
        \/ ConnectEnds(ok)
        \/ ServicesProbed(ok)
        \/ CharacteristicsProbed(ok)
        \/ CheckEnds(ok)
        \/ AuthenticationEnds(ok)
        \/ DisconnectEnds(ok)
        \/ InterfaceEnds(ok)
        \/ RPCEnds(ok)
        \/ B112ScriptEnds(ok)
    \/ RPCDisconnects

B112Callers ==
    \/ \E k \in B112Calls, c \in B112Conns :
        \/ B112StartConnect(k, c)
        \/ B112StartDisconnect(k, c)
        \/ B112OpenRPCInterface(k, c)
        \/ B112OpenStreamingInterface(k, c)
        \/ OpenTracingInterface(k, c)
        \/ B112OpenScriptInterface(k, c)
        \/ B112CloseRPCInterface(k, c)
        \/ B112StartRPC(k, c)
        \/ B112StartScript(k, c)
    \/ \E k \in B112Calls : GoOnConnecting(k)

B112Drops == \E h \in B112Handles, early \in BOOLEAN : B112Drop(h, early)

B112Next == B112Callers \/ Periodic \/ HardwareFails \/ B112Drops \/ HandleEvent \/ B112Take \/ CommandEnds

\* The thread runs and its waits end, and callers go on.
B112Fairness ==
    /\ WF_b112Vars(HandleEvent) /\ WF_b112Vars(B112Take) /\ WF_b112Vars(CommandEnds)
    /\ \A k \in B112Calls : WF_b112Vars(GoOnConnecting(k))

B112Spec == B112Init /\ [][B112Next]_b112Vars /\ B112Fairness

(***************************************************************************)
(* Properties.                                                             *)
(***************************************************************************)

\* _connections agrees with the dongle: what is listed under a handle is the connection that
\* the dongle has there, unless its end was just reported; also when commands were executed
\* for another connection than they were meant for.
B112IdleMeansLinked ==
    \A h \in B112Handles :
        b112Thread = "running" /\ b112Table[h] # NULL => b112Link[h] = b112Table[h].conn \/ Reported(h)

\* "Don't scan while we attempt to connect to this device" (connect_async)
NeverScansWhileConnecting == ~(b112Scanning /\ b112Cmd # NULL /\ b112Cmd.cmd = "connect")

\* A blocking call returns, or the command thread has ended: it was stopped, or a callback
\* has raised in it; or a command of the connection was executed for another one, whose
\* handle had been used again.
B112BlockedReturns ==
    \A k \in B112Calls : b112Call[k].pc \in {"waiting", "stopping"} ~>
        (b112Call[k].pc \in {"returned", "raised"} \/ b112Thread # "running" \/ b112Call[k].conn \in b112Mixed)

=============================================================================

----------------------------- MODULE ServiceRPC -----------------------------
(***************************************************************************)
(* RPCs between the clients of the supervisor: IOTileSupervisor.send_rpc   *)
(* and respond_rpc (iotilegateway/supervisor/server.py), the RPC half of   *)
(* ServiceManager (supervisor/service_manager.py) and AwaitableDict        *)
(* (iotile/core/utilities/async_tools/awaitable_dict.py), in which a       *)
(* sender waits for the answer to its RPC.                                 *)
(*                                                                         *)
(* Everything runs in one event loop.  An action is what happens between   *)
(* two awaits that may suspend: the send to a client whose socket is full, *)
(* and wait_for, which on a timeout first cancels the future it waits for  *)
(* and lets the loop go round before it raises.                            *)
(***************************************************************************)
EXTENDS None, Naturals, FiniteSets

CONSTANTS
    Clients,     \* the ids of connections; each is connected once
    Services,    \* names that an RPC may be sent to
    Rpcs,        \* the tags of RPCs; each is sent once
    Results      \* what an agent may answer

\* What agents answer is none of the outcomes the broker makes up itself.
ASSUME ResultsAssumption ==
    Results \cap {"absent", "pending", "cancelled", "service_not_found", "timeout", "error"} = {}

Outcomes == Results \cup {"service_not_found", "timeout", "error", "cancelled"}

ASSUME NullAssumption == NULL \notin Clients \cup Outcomes

VARIABLES
    clients,   \* "none", "connected" or "gone", for each id
    agents,    \* the client that handles the RPCs of each service
    inFlight,  \* in_flight_rpcs
    results,   \* rpc_results: "absent", "pending", "cancelled", or the value that was set
    send,      \* the send_rpc() of each RPC: where it is, for whom, and what it returned
    commands,  \* the rpc_command events each client has not answered
    answered   \* for the properties: the answer that was set for each RPC

vars == <<clients, agents, inFlight, results, send, commands, answered>>

Keys == {"absent", "pending", "cancelled", "service_not_found"} \cup Results

Unsent == [pc |-> "idle", caller |-> NULL, outcome |-> NULL]

Init ==
    /\ clients = [c \in Clients |-> "none"]
    /\ agents = [s \in Services |-> NULL]
    /\ inFlight = {}
    /\ results = [r \in Rpcs |-> "absent"]
    /\ send = [r \in Rpcs |-> Unsent]
    /\ commands = [c \in Clients |-> {}]
    /\ answered = [r \in Rpcs |-> NULL]

Connected == {c \in Clients : clients[c] = "connected"}

Return(f, r, outcome) == [f EXCEPT ![r].pc = "done", ![r].outcome = outcome]

(***************************************************************************)
(* Connections.                                                            *)
(***************************************************************************)

Sending == {r \in Rpcs : send[r].pc = "sending"}

\* add_monitor() changes the set that _notify_update() iterates over: each one
\* that is suspended in a send raises RuntimeError when it goes on.
InterruptNotifications ==
    send' = [r \in Rpcs |-> IF r \in Sending THEN Return(send, r, "error")[r] ELSE send[r]]

\* prepare_conn()
Connect(c) ==
    /\ clients[c] = "none"
    /\ clients' = [clients EXCEPT ![c] = "connected"]
    /\ InterruptNotifications
    /\ UNCHANGED <<agents, inFlight, results, commands, answered>>

\* set_agent(): the last client to ask is the agent
SetAgent(s, c) ==
    /\ c \in Connected
    /\ agents' = [agents EXCEPT ![s] = c]
    /\ UNCHANGED <<clients, inFlight, results, send, commands, answered>>

Of(c, pcs) == {r \in Rpcs : send[r].caller = c /\ send[r].pc \in pcs}

\* The connection of a client ends: its commands are cancelled, and then
\* teardown_conn() forgets the client, though neither its monitor nor its role as
\* an agent.  A cancelled wait for a result removes the key.  Where CancelledError
\* is an Exception (Python 3.7) _notify_update() swallows the cancellation of a send
\* and the RPC is waited for; otherwise send_rpc_command() is left at once.
Disconnect(c) ==
    /\ c \in Connected
    /\ clients' = [clients EXCEPT ![c] = "gone"]
    /\ commands' = [commands EXCEPT ![c] = {}]
    /\ results' = [r \in Rpcs |-> IF r \in Of(c, {"waiting", "expiring"}) THEN "absent" ELSE results[r]]
    /\ \E swallowed \in BOOLEAN :
         send' = [r \in Rpcs |->
                    CASE r \in Of(c, {"waiting", "expiring"}) -> Return(send, r, "cancelled")[r]
                      [] r \in Of(c, {"sending"}) /\ ~swallowed -> Return(send, r, "cancelled")[r]
                      [] r \in Of(c, {"sending"}) /\ swallowed -> [send[r] EXCEPT !.pc = "waiting"]
                      [] OTHER -> send[r]]
    /\ UNCHANGED <<agents, inFlight, answered>>

(***************************************************************************)
(* Sending an RPC.                                                         *)
(***************************************************************************)

\* send_rpc_command() and send_event(): the directed event goes to the agent if it
\* is still connected.
Send(r, s, c) ==
    /\ send[r].pc = "idle" /\ c \in Connected
    /\ \/ /\ agents[s] = NULL
          /\ results' = [results EXCEPT ![r] = "service_not_found"]
          /\ send' = [send EXCEPT ![r] = [pc |-> "waiting", caller |-> c, outcome |-> NULL]]
          /\ UNCHANGED <<inFlight, commands>>
       \/ /\ agents[s] # NULL
          /\ results' = [results EXCEPT ![r] = "pending"]
          /\ inFlight' = inFlight \cup {r}
          /\ IF agents[s] \in Connected
                THEN /\ commands' = [commands EXCEPT ![agents[s]] = @ \cup {r}]
                     /\ send' = [send EXCEPT ![r] = [pc |-> "sending", caller |-> c, outcome |-> NULL]]
                ELSE /\ send' = [send EXCEPT ![r] = [pc |-> "waiting", caller |-> c, outcome |-> NULL]]
                     /\ UNCHANGED commands
    /\ UNCHANGED <<clients, agents, answered>>

\* The event is sent and the caller enters AwaitableDict.get().
Sent(r) ==
    /\ send[r].pc = "sending"
    /\ send' = [send EXCEPT ![r].pc = "waiting"]
    /\ UNCHANGED <<clients, agents, inFlight, results, commands, answered>>

\* Mutants: a timeout that does not look whether the future is done; one that only
\* applies while an agent has the command.
ExpireAnyway(r) ==
    /\ send[r].pc = "waiting"
    /\ results' = [results EXCEPT ![r] = "cancelled"]
    /\ send' = [send EXCEPT ![r].pc = "expiring"]
    /\ UNCHANGED <<clients, agents, inFlight, commands, answered>>

ExpireHeld(r) == r \in UNION {commands[c] : c \in Clients} /\ results[r] = "pending" /\ ExpireAnyway(r)

\* wait_for() cancels the future after the timeout, unless it is done.
Expire(r) ==
    /\ send[r].pc = "waiting" /\ results[r] = "pending"
    /\ results' = [results EXCEPT ![r] = "cancelled"]
    /\ send' = [send EXCEPT ![r].pc = "expiring"]
    /\ UNCHANGED <<clients, agents, inFlight, commands, answered>>

\* Mutant: get(..., autoremove=False).
Kept(r) == results

Removed(r) == [results EXCEPT ![r] = "absent"]

\* Mutant: get() does not wait.
GetEarly(r) ==
    /\ results' = Removed(r)
    /\ \/ send[r].pc = "waiting" /\ send' = Return(send, r, results[r])
       \/ send[r].pc = "expiring" /\ send' = Return(send, r, "timeout")
    /\ UNCHANGED <<clients, agents, inFlight, commands, answered>>

\* get() returns the result, or raises TimeoutError, and removes the key.
Get(r) ==
    /\ results' = Removed(r)
    /\ \/ /\ send[r].pc = "waiting" /\ results[r] \notin {"pending", "cancelled"}
          /\ send' = Return(send, r, results[r])
       \/ /\ send[r].pc = "expiring"
          /\ send' = Return(send, r, "timeout")
    /\ UNCHANGED <<clients, agents, inFlight, commands, answered>>

(***************************************************************************)
(* Answering it.                                                           *)
(***************************************************************************)

\* set() on a key that is gone is a KeyError, which is logged; on a future that is
\* cancelled an InvalidStateError, which the agent gets as its reply.
SetResult(r, v) ==
    IF results[r] = "pending"
        THEN /\ results' = [results EXCEPT ![r] = v]
             /\ answered' = [answered EXCEPT ![r] = v]
        ELSE UNCHANGED <<results, answered>>

\* send_rpc_response(); an RPC that is not in flight is an ArgumentError.
SendRPCResponse(r, v) ==
    /\ inFlight' = inFlight \ {r}
    /\ IF r \in inFlight THEN SetResult(r, v) ELSE UNCHANGED <<results, answered>>

\* _on_rpc_command() of the agent, which executes the RPC, and respond_rpc()
Respond(a, r, v) ==
    /\ r \in commands[a]
    /\ commands' = [commands EXCEPT ![a] = @ \ {r}]
    /\ SendRPCResponse(r, v)
    /\ UNCHANGED <<clients, agents, send>>

Next ==
    \/ \E c \in Clients : Connect(c) \/ Disconnect(c)
    \/ \E c \in Clients, s \in Services : SetAgent(s, c)
    \/ \E r \in Rpcs, s \in Services, c \in Clients : Send(r, s, c)
    \/ \E r \in Rpcs : Sent(r) \/ Expire(r) \/ Get(r)
    \/ \E a \in Clients, r \in Rpcs, v \in Results : Respond(a, r, v)

Spec == Init /\ [][Next]_vars

\* The loop runs every task that is ready, timers fire, and a full socket is read
\* or closed.  No agent has to answer.
Fairness == \A r \in Rpcs : WF_vars(Sent(r)) /\ WF_vars(Expire(r)) /\ WF_vars(Get(r))
FairSpec == Spec /\ Fairness

(***************************************************************************)
(* Properties.                                                             *)
(***************************************************************************)

\* The variables stay in their types: a connection id is used once, and what is in
\* rpc_results is a future in one of its states (AwaitableDict._data).
TypeOK ==
    /\ clients \in [Clients -> {"none", "connected", "gone"}]
    /\ agents \in [Services -> Clients \cup {NULL}]
    /\ inFlight \subseteq Rpcs
    /\ results \in [Rpcs -> Keys]
    /\ send \in [Rpcs -> [pc : {"idle", "sending", "waiting", "expiring", "done"},
                          caller : Clients \cup {NULL}, outcome : Outcomes \cup {NULL}]]
    /\ commands \in [Clients -> SUBSET Rpcs]
    /\ answered \in [Rpcs -> Results \cup {NULL}]

\* An answer that was set in time is what send_rpc() returns, even when the timeout
\* fires before the sender wakes up; and it returns an agent's answer only if there
\* was one (AwaitableDict.get and set, wait_for's check of a future that is done).
AnswerInTimeWins ==
    \A r \in Rpcs : send[r].pc = "done" =>
        IF answered[r] # NULL THEN send[r].outcome \in {answered[r], "cancelled", "error"}
                              ELSE send[r].outcome \notin Results

\* A key of rpc_results is that of an RPC someone still waits for, or of one whose
\* send_rpc() was interrupted between declare() and get(): a late answer does not
\* bring one back (AwaitableDict.get removes the key "no matter what").
KeysAreAwaited ==
    \A r \in Rpcs : results[r] # "absent" =>
        \/ send[r].pc \in {"sending", "waiting", "expiring"}
        \/ send[r].outcome \in {"error", "cancelled"}

\* send_rpc() returns, whatever the agent does or if it is gone (the timeout of get()).
EverySendReturns == \A r \in Rpcs : send[r].pc # "idle" ~> send[r].pc = "done"

=============================================================================

---------------------------- MODULE ServiceSync -----------------------------
(***************************************************************************)
(* How the clients of the supervisor keep a copy of the state of every     *)
(* service: the services of ServiceManager and the notifications about     *)
(* them (iotilegateway/supervisor/service_manager.py, server.py and        *)
(* states.py), and AsyncSupervisorClient (supervisor/client.py), which     *)
(* asks for everything once and then follows the notifications.            *)
(*                                                                         *)
(* A notification goes from monitor to monitor and may be suspended in the *)
(* send to each client that is connected; sends to one socket are made in  *)
(* the order in which they were begun.  The data of a service are its      *)
(* status, its last messages and its headline; heartbeats only carry time. *)
(***************************************************************************)
EXTENDS None, Naturals, Sequences, SequencesExt

CONSTANTS
    Clients,       \* the ids of connections; each is connected once
    Services,      \* short names
    Expected,      \* the services known from the start, in their order
    States,        \* KNOWN_STATES
    Unknown,       \* the state of a new service
    Texts,         \* of messages
    Headlines,     \* texts of headlines
    MaxMessages,   \* how many messages a service keeps
    MaxChanges,    \* bound on the changes made to services
    MaxNotifying   \* bound on the notifications in progress at once

ASSUME ExpectedAssumption == Expected \in Seq(Services) /\ IsInjective(Expected)
ASSUME BoundAssumption == MaxMessages \in Nat \ {0} /\ Unknown \in States

VARIABLES
    order,      \* the names of ServiceManager.services, in the order of registration
    info,       \* the ServiceState of each of them
    monitors,   \* _monitors, in the order in which the set is iterated over
    clients,    \* "none", "connected" or "gone"
    notifying,  \* the calls of _notify_update in progress, the oldest first
    channel,    \* what was sent to each client and is not processed yet
    sync,       \* where the client's _populate_name_map is
    local,      \* the client's services, and _name_map
    changes,    \* how many changes were made
    untold,     \* for the properties: the clients a notification did not come to
    disturbed   \* for the properties: the clients that saw a change while they synced

serverVars == <<order, info, changes>>
vars == <<order, info, monitors, clients, notifying, channel, sync, local, changes, untold, disturbed>>

(***************************************************************************)
(* ServiceState: the same class holds the state in the server and the copy *)
(* in a client.                                                            *)
(***************************************************************************)

New == [state |-> Unknown, messages |-> <<>>, headline |-> NULL]

\* Mutant: messages are kept for ever.
PostForever(r, text) == [r EXCEPT !.messages = Append(@, [text |-> text, count |-> 1])]

\* post_message(): a repeated message is counted, and the oldest one falls out.
PostMessage(r, text) ==
    LET n == Len(r.messages)
        m == Append(r.messages, [text |-> text, count |-> 1])
    IN IF n > 0 /\ r.messages[n].text = text
          THEN [r EXCEPT !.messages[n].count = @ + 1]
          ELSE [r EXCEPT !.messages = IF Len(m) > MaxMessages THEN Tail(m) ELSE m]

SetHeadline(r, text) == [r EXCEPT !.headline = text]
SetState(r, s) == [r EXCEPT !.state = s]

Event(kind, name, value) == [kind |-> kind, service |-> name, value |-> value]

\* What an event does to the client's copy of the service.
Applied(r, e) ==
    CASE e.kind = "state" -> SetState(r, e.value)
      [] e.kind = "messages" -> PostMessage(r, e.value)
      [] e.kind = "headline" -> SetHeadline(r, e.value)

Nobody == [names |-> <<>>, info |-> [s \in Services |-> New], map |-> <<>>]
NotSyncing == [pc |-> "none", names |-> <<>>, todo |-> <<>>, info |-> [s \in Services |-> New]]

Init ==
    /\ order = Expected
    /\ info = [s \in Services |-> New]
    /\ monitors = <<>>
    /\ clients = [c \in Clients |-> "none"]
    /\ notifying = <<>>
    /\ channel = [c \in Clients |-> <<>>]
    /\ sync = [c \in Clients |-> NotSyncing]
    /\ local = [c \in Clients |-> Nobody]
    /\ changes = 0
    /\ untold = {}
    /\ disturbed = {}

Registered == ToSet(order)
Connected == {c \in Clients : clients[c] = "connected"}
Syncing == {c \in Connected : sync[c].pc # "synced"}

(***************************************************************************)
(* Notifications.                                                          *)
(***************************************************************************)

\* The monitors after the i-th whose send_event() has someone to send to.
StopsAfter(i) == {j \in (i + 1) .. Len(monitors) : monitors[j] \in Connected}

Told(i) == {monitors[j] : j \in StopsAfter(i)}

\* The call n goes on from monitor n.at to the next one it is suspended in.
GoOn(n) ==
    LET stops == StopsAfter(n.at)
        stop == CHOOSE j \in stops : \A k \in stops : j <= k
    IN IF stops = {} THEN [next |-> <<>>, channel |-> channel]
       ELSE [next |-> <<[n EXCEPT !.at = stop]>>,
             channel |-> [channel EXCEPT ![monitors[stop]] = Append(@, n.event)]]

\* _notify_update()
NotifyUpdate(event, by) ==
    LET started == GoOn([event |-> event, by |-> by, at |-> 0])
    IN /\ Len(notifying) < MaxNotifying
       /\ notifying' = notifying \o started.next
       /\ channel' = started.channel

\* Mutant: sends to one socket overtake each other.
AdvanceAny(k) ==
    /\ notifying' = SubSeq(notifying, 1, k - 1) \o GoOn(notifying[k]).next
                      \o SubSeq(notifying, k + 1, Len(notifying))
    /\ channel' = GoOn(notifying[k]).channel
    /\ UNCHANGED <<serverVars, monitors, clients, sync, local, untold, disturbed>>

\* The send is done, after those to the same socket that were begun before.
Advance(k) ==
    /\ \A j \in 1 .. (k - 1) : notifying[j].at > notifying[k].at
    /\ notifying' = SubSeq(notifying, 1, k - 1) \o GoOn(notifying[k]).next
                      \o SubSeq(notifying, k + 1, Len(notifying))
    /\ channel' = GoOn(notifying[k]).channel
    /\ UNCHANGED <<serverVars, monitors, clients, sync, local, untold, disturbed>>

\* The calls that client c did not cause, in their order.
NotBy(calls, c) ==
    LET upTo[k \in 0 .. Len(calls)] ==
            IF k = 0 THEN <<>>
            ELSE IF calls[k].by = c THEN upTo[k - 1] ELSE Append(upTo[k - 1], calls[k])
    IN  upTo[Len(calls)]

\* Calls that end before the last monitor.
Abandoned(calls) == UNION {Told(n.at) : n \in calls}

(***************************************************************************)
(* Commands that change a service.                                         *)
(***************************************************************************)

\* A command of a client that has started.
Change(c, event) ==
    /\ c \in Connected \ Syncing
    /\ changes < MaxChanges
    /\ changes' = changes + 1
    /\ disturbed' = disturbed \cup Syncing
    /\ NotifyUpdate(event, c)
    /\ UNCHANGED <<monitors, clients, sync, local, untold>>

\* update_state()
UpdateState(c, s, st) ==
    /\ s \in Registered /\ info[s].state # st
    /\ info' = [info EXCEPT ![s] = SetState(@, st)]
    /\ Change(c, Event("state", s, st))
    /\ UNCHANGED order

\* send_message()
SendMessage(c, s, text) ==
    /\ s \in Registered
    /\ info' = [info EXCEPT ![s] = PostMessage(@, text)]
    /\ Change(c, Event("messages", s, text))
    /\ UNCHANGED order

\* set_headline()
SendHeadline(c, s, text) ==
    /\ s \in Registered
    /\ info' = [info EXCEPT ![s] = SetHeadline(@, text)]
    /\ Change(c, Event("headline", s, text))
    /\ UNCHANGED order

\* add_service()
AddService(c, s) ==
    /\ s \notin Registered
    /\ order' = Append(order, s)
    /\ Change(c, Event("added", s, NULL))
    /\ UNCHANGED info

(***************************************************************************)
(* Connections.                                                            *)
(***************************************************************************)

\* prepare_conn(): add_monitor() changes the set that the calls in progress iterate
\* over, and each of them raises RuntimeError when it goes on.
Connect(c) ==
    /\ clients[c] = "none"
    /\ clients' = [clients EXCEPT ![c] = "connected"]
    /\ \E i \in 1 .. (Len(monitors) + 1) : monitors' = InsertAt(monitors, i, c)
    /\ untold' = untold \cup Abandoned(ToSet(notifying))
    /\ notifying' = <<>>
    /\ sync' = [sync EXCEPT ![c].pc = "asking", ![c].todo = <<[query |-> "list", service |-> NULL]>>]
    /\ UNCHANGED <<serverVars, channel, local, disturbed>>

\* The sends that waited for the client's socket have failed when its commands are
\* cancelled, among them the notifications it caused; where CancelledError is an
\* Exception (Python 3.7) only the send in progress is given up.  Then
\* teardown_conn(), which leaves the monitor.
Disconnect(c) ==
    /\ c \in Connected
    /\ \A n \in ToSet(notifying) : monitors[n.at] # c
    /\ clients' = [clients EXCEPT ![c] = "gone"]
    /\ channel' = [channel EXCEPT ![c] = <<>>]
    /\ sync' = [sync EXCEPT ![c] = NotSyncing]
    /\ local' = [local EXCEPT ![c] = Nobody]
    /\ \/ LET mine == {n \in ToSet(notifying) : n.by = c}
          IN /\ notifying' = NotBy(notifying, c)
             /\ untold' = untold \cup (Abandoned(mine) \ {c})
       \/ UNCHANGED <<notifying, untold>>
    /\ UNCHANGED <<serverVars, monitors, disturbed>>

(***************************************************************************)
(* The client: sync_services() asks one question after the other.  The one *)
(* about the long name is left out, for its answer never changes.          *)
(***************************************************************************)

Queries == <<"state", "messages", "headline">>
Questions(names) ==
    [i \in 1 .. Len(Queries) * Len(names) |->
        [query |-> Queries[((i - 1) % Len(Queries)) + 1], service |-> names[((i - 1) \div Len(Queries)) + 1]]]

\* list_services(); service_status(), get_messages() or get_headline().
Reply(q) ==
    IF q.query = "list" THEN [kind |-> "list", names |-> order]
    ELSE [kind |-> "reply", query |-> q.query,
          value |-> [New EXCEPT ![q.query] = info[q.service][q.query]]]

\* The server answers.
Answer(c) ==
    /\ sync[c].pc = "asking"
    /\ channel' = [channel EXCEPT ![c] = Append(@, Reply(Head(sync[c].todo)))]
    /\ sync' = [sync EXCEPT ![c].pc = "waiting"]
    /\ UNCHANGED <<serverVars, monitors, clients, notifying, local, untold, disturbed>>

\* The client takes the reply and asks the next question.
ReceiveReply(c) ==
    /\ channel[c] # <<>> /\ Head(channel[c]).kind \in {"list", "reply"}
    /\ LET m == Head(channel[c])
           q == Head(sync[c].todo)
           names == IF m.kind = "list" THEN m.names ELSE sync[c].names
           todo == IF m.kind = "list" THEN Questions(m.names) ELSE Tail(sync[c].todo)
       IN sync' = [sync EXCEPT ![c] =
                     [pc |-> IF todo = <<>> THEN "built" ELSE "asking",
                      names |-> names, todo |-> todo,
                      info |-> IF m.kind = "list" THEN @.info
                               ELSE [@.info EXCEPT ![q.service][m.query] = m.value[m.query]]]]
    /\ channel' = [channel EXCEPT ![c] = Tail(@)]
    /\ UNCHANGED <<serverVars, monitors, clients, notifying, local, untold, disturbed>>

\* _populate_name_map(), when sync_services() has returned
Populate(c) ==
    /\ sync[c].pc = "built"
    /\ local' = [local EXCEPT ![c] =
                   [names |-> sync[c].names, info |-> sync[c].info,
                    map |-> sync[c].names \o SubSeq(@.map, Len(sync[c].names) + 1, Len(@.map))]]
    /\ sync' = [sync EXCEPT ![c] = [NotSyncing EXCEPT !.pc = "synced"]]
    /\ UNCHANGED <<serverVars, monitors, clients, notifying, channel, untold, disturbed>>

\* _on_service_added()
OnServiceAdded(l, s) ==
    IF s \in ToSet(l.names) THEN l
    ELSE [names |-> Append(l.names, s), info |-> [l.info EXCEPT ![s] = New],
          map |-> IF Len(l.names) < Len(l.map) THEN [l.map EXCEPT ![Len(l.names) + 1] = s]
                                               ELSE Append(l.map, s)]

\* _on_status_change(), _on_message(), _on_headline()
OnUpdate(l, e) ==
    IF e.service \notin ToSet(l.names) THEN l
    ELSE [l EXCEPT !.info[e.service] = Applied(@, e)]

ReceiveEvent(c) ==
    /\ channel[c] # <<>> /\ Head(channel[c]).kind \notin {"list", "reply"}
    /\ LET e == Head(channel[c])
       IN local' = [local EXCEPT ![c] = IF e.kind = "added" THEN OnServiceAdded(@, e.service) ELSE OnUpdate(@, e)]
    /\ channel' = [channel EXCEPT ![c] = Tail(@)]
    /\ UNCHANGED <<serverVars, monitors, clients, notifying, sync, untold, disturbed>>

\* What a client posts of a service: post_state(), post_headline(), post_error() and so on.
Posts(c, s) ==
    \/ \E st \in States : UpdateState(c, s, st)
    \/ \E text \in Texts : SendMessage(c, s, text)
    \/ \E text \in Headlines : SendHeadline(c, s, text)

\* What its user reads of the copies: all names with their numbers, and the service of a
\* name, or of a number, or NULL.
local_services(l) == [i \in DOMAIN l.map |-> <<i, l.map[i]>>]
local_service(l, name) == IF name \in ToSet(l.names) THEN l.info[name] ELSE NULL
numbered_service(l, i) == IF i \in DOMAIN l.map THEN local_service(l, l.map[i]) ELSE NULL

Next ==
    \/ \E c \in Clients : Connect(c) \/ Disconnect(c) \/ Answer(c) \/ ReceiveReply(c) \/ Populate(c) \/ ReceiveEvent(c)
    \/ \E c \in Clients, s \in Services : AddService(c, s) \/ Posts(c, s)
    \/ \E k \in 1 .. Len(notifying) : Advance(k)

Spec == Init /\ [][Next]_vars

(***************************************************************************)
(* Properties.                                                             *)
(***************************************************************************)

StateRecords == [state : States, messages : Seq([text : Texts, count : Nat \ {0}]), headline : Headlines \cup {NULL}]

\* The state of a service is well formed in the server and in every copy: a deque
\* of bounded length and counts of repeats (ServiceState).
TypeOK ==
    /\ order \in Seq(Services) /\ IsInjective(order)
    /\ ToSet(monitors) = {c \in Clients : clients[c] # "none"}
    /\ \A r \in {info[s] : s \in Services} \cup {local[c].info[s] : c \in Clients, s \in Services} :
          r \in StateRecords /\ Len(r.messages) <= MaxMessages
    /\ \A c \in Clients : sync[c].pc \in {"none", "asking", "waiting", "built", "synced"}
    /\ \A n \in ToSet(notifying) : n.at \in 1 .. Len(monitors)

\* Nothing is on its way to the client.
Quiet(c) == sync[c].pc = "synced" /\ channel[c] = <<>> /\ notifying = <<>>

UpToDate(c) ==
    /\ local[c].names = order
    /\ local_services(local[c]) = [i \in DOMAIN order |-> <<i, order[i]>>]
    /\ \A i \in DOMAIN order :
           {local_service(local[c], order[i]), numbered_service(local[c], i)} = {info[order[i]]}

\* A client that synced in peace, and that no notification failed to reach, has the
\* state of every service once nothing is on its way: names, numbers, statuses,
\* messages with their counts, headlines (the notifications against the polled state):
\* "the latest information about all tasks is locally known to all tasks".
InSyncWhenQuiet ==
    \A c \in Connected \ (untold \cup disturbed) : Quiet(c) => UpToDate(c)

\* The copies of the services are well formed, and those of the clients that synced in
\* peace are the server's once nothing is on its way (ServiceManager, SupervisorClient).
CopiesAgree == TypeOK /\ InSyncWhenQuiet
=============================================================================

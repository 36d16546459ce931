------------------------------ MODULE RPCQueue ------------------------------
(***************************************************************************)
(* How an emulated device runs its RPCs: the dispatch coroutine and queue  *)
(* of iotile/emulate/internal/rpc_queue.py, the responses callers wait on  *)
(* (response.py), the entry points of EmulationLoop and the busy check of  *)
(* EmulatedDevice._dispatch_rpc.                                           *)
(*                                                                         *)
(* A call is put on an asyncio.Queue; the one dispatcher takes calls off   *)
(* it and runs their handlers.  A handler returns, raises, or raises       *)
(* AsynchronousRPCResponse, after which a background task of the tile      *)
(* finishes the call.  Callers wait with a timeout: one outside the loop   *)
(* on a thread event, one inside the loop on a future that the timeout     *)
(* cancels.                                                                *)
(***************************************************************************)
EXTENDS None, Integers, Sequences, FiniteSets

CONSTANTS
    Tiles, RpcIds,
    InternalCalls,   \* calls made from coroutines of the loop
    ExternalCalls    \* calls made from other threads

ASSUME CallsAssumption ==
    /\ InternalCalls \cap ExternalCalls = {}
    /\ NULL \notin InternalCalls \cup ExternalCalls \cup (Tiles \X RpcIds)

Calls == InternalCalls \cup ExternalCalls
Targets == Tiles \X RpcIds

VARIABLES
    queue,       \* _rpc_queue
    unfinished,  \* the count of work that _rpc_queue.join() waits to reach 0
    target,      \* (address, rpc_id) of each call that has been made
    response,    \* the response object of each call
    caller,      \* whether the caller of a call is waiting on its response
    running,     \* the call whose handler the dispatcher is running
    nested,      \* the call that running handler is itself awaiting, if any
    current,     \* _current_rpc
    pending,     \* _pending_rpcs: the call answered later, by target
    dispatcher   \* _rpc_task

vars == <<queue, unfinished, target, response, caller, running, nested, current,
          pending, dispatcher>>

Init ==
    /\ queue = <<>>
    /\ unfinished = 0
    /\ target = [c \in Calls |-> NULL]
    /\ response = [c \in Calls |-> "unset"]
    /\ caller = [c \in Calls |-> "idle"]
    /\ running = NULL
    /\ nested = NULL
    /\ current = NULL
    /\ pending = [t \in Targets |-> NULL]
    /\ dispatcher = "created"

\* A thread event is only ever set by the loop; a future is also done once the
\* timeout of wait_for has cancelled it.
IsFinished(c) == response[c] # "unset"

TileBusy(address) == \E i \in RpcIds : pending[<<address, i>>] # NULL

-----------------------------------------------------------------------------
(* Callers. *)

\* start(): the dispatcher begins to drain the queue.
Start ==
    /\ dispatcher = "created"
    /\ dispatcher' = "running"
    /\ UNCHANGED <<queue, unfinished, target, response, caller, running, nested, current, pending>>

PutRpc(c, t) ==
    /\ target[c] = NULL
    /\ target' = [target EXCEPT ![c] = t]
    /\ queue' = Append(queue, c)
    /\ unfinished' = unfinished + 1
    /\ caller' = [caller EXCEPT ![c] = "waiting"]

\* call_rpc_external, or call_rpc_internal and await_rpc from a coroutine that
\* is not itself a handler.
Call(c, t) ==
    /\ PutRpc(c, t)
    /\ UNCHANGED <<response, running, nested, current, pending, dispatcher>>

\* A handler that itself awaits an rpc; it goes on when that one is answered.
CallFromHandler(c, t) ==
    /\ running # NULL /\ nested = NULL
    /\ c \in InternalCalls
    /\ PutRpc(c, t)
    /\ nested' = c
    /\ UNCHANGED <<response, running, current, pending, dispatcher>>

\* wait() returns once the response has been set.
Return(c) ==
    /\ caller[c] = "waiting" /\ IsFinished(c)
    /\ caller' = [caller EXCEPT ![c] = "answered"]
    /\ nested' = IF nested = c THEN NULL ELSE nested
    /\ UNCHANGED <<queue, unfinished, target, response, running, current, pending, dispatcher>>

\* (A timeout that cancels the response, whoever waits.)
TimeoutCancels(c) ==
    /\ caller[c] = "waiting" /\ ~IsFinished(c)
    /\ caller' = [caller EXCEPT ![c] = "timed out"]
    /\ response' = [response EXCEPT ![c] = "cancelled"]
    /\ nested' = IF nested = c THEN NULL ELSE nested
    /\ UNCHANGED <<queue, unfinished, target, running, current, pending, dispatcher>>

\* wait() times out.  asyncio.wait_for cancels the future, Event.wait does not.
Timeout(c) ==
    /\ caller[c] = "waiting" /\ ~IsFinished(c)
    /\ caller' = [caller EXCEPT ![c] = "timed out"]
    /\ response' = IF c \in InternalCalls THEN [response EXCEPT ![c] = "cancelled"] ELSE response
    /\ nested' = IF nested = c THEN NULL ELSE nested
    /\ UNCHANGED <<queue, unfinished, target, running, current, pending, dispatcher>>

-----------------------------------------------------------------------------
(* The dispatcher. *)

TaskDone == unfinished' = unfinished - 1

\* (A response that does not look whether it is finished.)
AnswerAgain(c, kind) ==
    /\ response' = [response EXCEPT ![c] = kind]
    /\ TaskDone
    /\ UNCHANGED dispatcher

\* set_result or capture_exception, and task_done.  Either raises InternalError
\* on a finished response; from the dispatcher's own except clause nothing
\* catches that, so the dispatch task ends and task_done is not reached.
Answer(c, kind) ==
    IF IsFinished(c)
    THEN dispatcher' = "dead" /\ UNCHANGED <<response, unfinished>>
    ELSE /\ response' = [response EXCEPT ![c] = kind]
         /\ TaskDone
         /\ UNCHANGED dispatcher

Dispatching == dispatcher = "running" /\ running = NULL /\ queue # <<>>

NeverBusy(address) == FALSE

\* is_tile_busy(): some rpc on the tile is still to be finished.
Refuses(address) == TileBusy(address)

\* The next call is for a tile that is busy: BusyRPCResponse.
DispatchBusy ==
    /\ Dispatching
    /\ Refuses(target[Head(queue)][1])
    /\ queue' = Tail(queue)
    /\ current' = target[Head(queue)]
    /\ Answer(Head(queue), "exception")
    /\ UNCHANGED <<target, caller, running, nested, pending>>

\* The handler of the next call starts.
Dispatch ==
    /\ Dispatching
    /\ ~Refuses(target[Head(queue)][1])
    /\ queue' = Tail(queue)
    /\ current' = target[Head(queue)]
    /\ running' = Head(queue)
    /\ UNCHANGED <<unfinished, target, response, caller, nested, pending, dispatcher>>

HandlerDone == dispatcher = "running" /\ running # NULL /\ nested = NULL

\* The handler returns; only then is _current_rpc reset.
HandlerReturns ==
    /\ HandlerDone
    /\ Answer(running, "result")
    /\ current' = NULL
    /\ running' = NULL
    /\ UNCHANGED <<queue, target, caller, nested, pending>>

\* (An except clause that swallows the exception.)
HandlerFailsSilently ==
    /\ HandlerDone
    /\ running' = NULL
    /\ UNCHANGED <<queue, unfinished, target, response, caller, nested, current, pending, dispatcher>>

HandlerRaises ==
    /\ HandlerDone
    /\ Answer(running, "exception")
    /\ running' = NULL
    /\ UNCHANGED <<queue, target, caller, nested, current, pending>>

\* (task_done on every path out of the handler.)
DefersAndCounts ==
    /\ HandlerDone
    /\ pending' = [pending EXCEPT ![target[running]] = running]
    /\ running' = NULL
    /\ TaskDone
    /\ UNCHANGED <<queue, target, response, caller, nested, current, dispatcher>>

\* AsynchronousRPCResponse: the call waits for finish_async_rpc.
HandlerDefers ==
    /\ HandlerDone
    /\ pending' = [pending EXCEPT ![target[running]] = running]
    /\ running' = NULL
    /\ UNCHANGED <<queue, unfinished, target, response, caller, nested, current, dispatcher>>

\* (finish_async_rpc that returns early.)
FinishForgets(t) ==
    /\ pending[t] # NULL
    /\ pending' = [pending EXCEPT ![t] = NULL]
    /\ UNCHANGED <<queue, unfinished, target, response, caller, running, nested, current, dispatcher>>

\* finish_async_rpc, from a background task of the tile.  If the caller's future
\* is cancelled set_result raises into that task and task_done is not reached.
FinishAsync(t) ==
    LET c == pending[t] IN
    /\ c # NULL
    /\ pending' = [pending EXCEPT ![t] = NULL]
    /\ IF IsFinished(c)
       THEN UNCHANGED <<response, unfinished>>
       ELSE response' = [response EXCEPT ![c] = "result"] /\ TaskDone
    /\ UNCHANGED <<queue, target, caller, running, nested, current, dispatcher>>

\* stop(): the dispatch task is cancelled, with the handler it is running.
Stop ==
    /\ dispatcher \in {"running", "dead"}
    /\ dispatcher' = "stopped"
    /\ running' = NULL
    /\ nested' = NULL
    /\ caller' = IF nested = NULL THEN caller ELSE [caller EXCEPT ![nested] = "timed out"]
    /\ response' = IF nested = NULL \/ IsFinished(nested) THEN response
                   ELSE [response EXCEPT ![nested] = "cancelled"]
    /\ UNCHANGED <<queue, unfinished, target, current, pending>>

DispatcherStep ==
    DispatchBusy \/ Dispatch \/ HandlerReturns \/ HandlerRaises \/ HandlerDefers

Emulate ==
    \/ Start
    \/ \E c \in Calls, t \in Targets : Call(c, t) \/ CallFromHandler(c, t)
    \/ \E c \in Calls : Return(c) \/ Timeout(c)
    \/ DispatcherStep
    \/ \E t \in Targets : FinishAsync(t)

Next == Emulate \/ Stop

Spec == Init /\ [][Next]_vars

\* The loop runs its ready callbacks, tiles finish what they deferred, and every
\* wait has a timeout.
FairSpec ==
    /\ Spec
    /\ WF_vars(Start)
    /\ WF_vars(DispatcherStep)
    /\ \A c \in Calls : WF_vars(Return(c)) /\ WF_vars(Timeout(c))
    /\ \A t \in Targets : WF_vars(FinishAsync(t))

-----------------------------------------------------------------------------
(* Properties. *)

\* The variables stay in their types; unfinished tasks are calls that were made, and a tile
\* has at most one deferred call (_pending_rpcs).
TypeOK ==
    /\ queue \in Seq(Calls)
    /\ unfinished \in 0 .. Cardinality(Calls)
    /\ target \in [Calls -> Targets \cup {NULL}]
    /\ response \in [Calls -> {"unset", "result", "exception", "cancelled"}]
    /\ caller \in [Calls -> {"idle", "waiting", "answered", "timed out"}]
    /\ running \in Calls \cup {NULL}
    /\ nested \in InternalCalls \cup {NULL}
    /\ current \in Targets \cup {NULL}
    /\ pending \in [Targets -> Calls \cup {NULL}]
    /\ dispatcher \in {"created", "running", "dead", "stopped"}

\* The calls that are neither queued nor running nor deferred any more.
Gone ==
    {c \in Calls : target[c] # NULL}
        \ ({queue[n] : n \in DOMAIN queue} \cup {running} \cup {pending[t] : t \in Targets})

\* "join ... to wait for an idle moment when no RPCs are pending or in progress":
\* what join() counts is the work there is, and besides only the calls that the
\* device has dropped unanswered: those whose caller inside the loop had given up,
\* which it goes on counting for ever, and the handler that stop() has cancelled.
JoinCountsWork ==
    unfinished = Len(queue) + (IF running = NULL THEN 0 ELSE 1)
                 + Cardinality({t \in Targets : pending[t] # NULL})
                 + Cardinality({c \in Gone : response[c] \in {"cancelled", "unset"}})

\* "We want to send all exceptions to the caller": nothing that a handler or an
\* external caller does ends the dispatcher.  Only a call made inside the loop and
\* given up before its handler was done does, since its response cannot be set.
DiesOfTimeoutsOnly ==
    dispatcher = "dead" => \E c \in Gone \cap InternalCalls : response[c] = "cancelled"

\* A tile that has deferred an answer runs no other handler until the answer is
\* given, so no deferred call is overwritten in _pending_rpcs by another call of
\* the same rpc.
OneDeferredCallPerTile ==
    \A a \in Tiles :
        /\ Cardinality({i \in RpcIds : pending[<<a, i>>] # NULL}) <= 1
        /\ TileBusy(a) /\ running # NULL => target[running][1] # a

\* The queue keeps account of its work (RPCQueue): what join() waits for, what ends the
\* dispatcher, and which answer is whose.
WorkIsAccounted == JoinCountsWork /\ DiesOfTimeoutsOnly /\ OneDeferredCallPerTile

\* A response is given once: what a caller has been told never changes, and
\* nobody is answered without having called.
AnsweredOnce ==
    [][\A c \in Calls :
        /\ response[c] # "unset" => response'[c] = response[c]
        /\ response[c] # response'[c] => caller[c] \in {"waiting", "timed out"}]_vars

\* Nobody inside the loop has given up, and the device has not been stopped.
Undisturbed == dispatcher # "stopped" /\ \A c \in Calls : response[c] # "cancelled"

\* Every call has been answered and the queue is idle, so that wait_idle() returns; or a
\* caller inside the loop has given up, or the loop has been stopped.
Done ==
    \/ unfinished = 0 /\ \A c \in Calls : target[c] # NULL => response[c] # "unset"
    \/ ~Undisturbed

\* As long as no caller inside the loop gives up, every call is answered, also after a
\* caller outside of it has given up, and wait_idle() returns
\* (RPCQueue._rpc_dispatch_task).
WorkIsDone == []<>Done
=============================================================================

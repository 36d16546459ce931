-------------------------- MODULE OperationManager --------------------------
(***************************************************************************)
(* OperationManager of iotile/core/utilities/async_tools/                  *)
(* operation_manager.py: coroutines and callbacks wait for messages by     *)
(* their fields, messages are queued by the event loop or by other threads *)
(* and handed to everybody who waits for them, one after the other.        *)
(*                                                                         *)
(* A field specification is abstracted to the kind of message it matches.  *)
(* process_all() keeps the event loop to itself until it has to await a    *)
(* coroutine callback, so that nothing else happens on the loop meanwhile: *)
(* in particular no waiter whose future is done is removed, which asyncio  *)
(* leaves to a later callback of the loop.  Other threads go on.           *)
(***************************************************************************)
EXTENDS None, Integers, Sequences, FiniteSets, Functions

CONSTANTS
    Kinds,        \* kinds of messages that waiters tell apart
    Replies,      \* kinds that are sent at most once: the answer to one request
    Awaited,      \* kinds that wait_for() is called for
    Direct,       \* kinds that are passed to process_message() and not queued
    Futures,      \* wait_for() calls
    Impatient,    \* the ones with a timeout
    Callbacks,    \* every_match() registrations
    SlowCallbacks,\* the callbacks that are coroutine functions
    Gathers,      \* gather_count() calls
    Threads,      \* threads that call queue_message_threadsafe()
    PauseFlags,   \* the values that are passed for pause and unpause
    Count,        \* the count passed to gather_count()
    MaxMessages   \* bound on the messages sent

ASSUME OperationManagerAssumption ==
    /\ Replies \subseteq Kinds /\ Awaited \subseteq Kinds /\ Direct \subseteq Kinds
    /\ Impatient \subseteq Futures /\ SlowCallbacks \subseteq Callbacks
    /\ PauseFlags \subseteq BOOLEAN
    /\ Count \in Nat \ {0} /\ MaxMessages \in Nat
    /\ IsFiniteSet(Futures) /\ IsFiniteSet(Gathers)

VARIABLES
    messages,     \* _messages
    sent,         \* the kinds of all messages so far, in the order they were queued
    pending,      \* _process_pending
    pauseCount,   \* _pause_count
    launched,     \* process_all() coroutines that have not begun
    blocked,      \* process_all() coroutines that wait for _dispatch_lock
    dispatcher,   \* the process_all() that holds it: "none", "running", "awaiting"
    future,       \* what each wait_for() waits for and has been given
    callback,     \* the kind each callback is registered for
    gather,       \* what each gather_count() waits for and has been given
    thread,       \* where each thread is in queue_message_threadsafe()
    upset         \* history: "raised" once process_message() has raised, "raced" once a
                  \* thread has found a pause that began with the message it queued

opVars == <<messages, sent, pending, pauseCount, launched, blocked, dispatcher, future, callback,
          gather, thread, upset>>

queueVars == <<messages, sent, pending, launched, blocked, dispatcher, thread, upset>>
waiterVars == <<future, callback, gather, upset>>

OpInit ==
    /\ messages = <<>> /\ sent = <<>>
    /\ pending = FALSE
    /\ pauseCount = 0
    /\ launched = 0 /\ blocked = 0
    /\ dispatcher = "none"
    /\ future = [f \in Futures |-> [state |-> "new", kind |-> NULL, pause |-> FALSE,
                               since |-> {}, got |-> NULL]]
    /\ callback = [c \in Callbacks |-> NULL]
    /\ gather = [g \in Gathers |-> [state |-> "new", kind |-> NULL, pause |-> FALSE, accum |-> 0]]
    /\ thread = [t \in Threads |-> "idle"]
    /\ upset = {}

\* The event loop is free to run something other than the dispatcher.
LoopFree == dispatcher # "running"

-----------------------------------------------------------------------------
(* Pausing. *)

\* unpause(); without a pause before it raises InternalError.
Unpaused ==
    /\ pauseCount > 0
    /\ pauseCount' = pauseCount - 1
    /\ launched' = IF pauseCount = 1 /\ messages # <<>> THEN launched + 1 ELSE launched

\* Those that have paused and whose coroutine has not run again.
Pausers ==
    Cardinality({f \in Futures : future[f].pause /\ future[f].state = "done"})
        + Cardinality({g \in Gathers : gather[g].pause /\ gather[g].state = "complete"})

\* unpause() undoes "a previous call to pause()": a caller does not undo the pause
\* of an operation that has not seen its messages yet.
MayUnpause == pauseCount > Pausers

Unpause ==
    /\ LoopFree
    /\ MayUnpause
    /\ Unpaused
    /\ UNCHANGED <<messages, sent, pending, blocked, dispatcher, thread, waiterVars>>

UnpauseIf(unpause) == IF unpause THEN MayUnpause /\ Unpaused ELSE UNCHANGED <<pauseCount, launched>>

-----------------------------------------------------------------------------
(* Waiters. *)

\* The messages that were dispatched so far.
Dispatched == DOMAIN sent \ Range(messages)

\* wait_for, and the future of gather_until (whose gathering callbacks are
\* callbacks like any other).
WaitFor(f, kind, pause, unpause) ==
    /\ LoopFree
    /\ future[f].state = "new"
    /\ future' = [future EXCEPT ![f] = [@ EXCEPT !.state = "waiting", !.kind = kind, !.pause = pause,
                                                !.since = Dispatched]]
    /\ UnpauseIf(unpause)
    /\ UNCHANGED <<messages, sent, pending, blocked, dispatcher, thread, callback, gather, upset>>

\* asyncio.wait_for cancels the future, which stays listed for the moment.
TimeOut(f) ==
    /\ LoopFree
    /\ f \in Impatient /\ future[f].state = "waiting"
    /\ future' = [future EXCEPT ![f].state = "done"]
    /\ UNCHANGED <<queueVars, pauseCount, callback, gather>>

\* The loop runs the done callback of the future: _remove_waiter.
RemoveDone(f) ==
    /\ LoopFree
    /\ future[f].state = "done"
    /\ future' = [future EXCEPT ![f].state = "removed"]
    /\ UNCHANGED <<queueVars, pauseCount, callback, gather>>

EveryMatch(c, kind) ==
    /\ LoopFree
    /\ callback[c] = NULL
    /\ callback' = [callback EXCEPT ![c] = kind]
    /\ UNCHANGED <<queueVars, pauseCount, future, gather>>

RemoveWaiter(c) ==
    /\ LoopFree
    /\ callback[c] # NULL
    /\ callback' = [callback EXCEPT ![c] = NULL]
    /\ UNCHANGED <<queueVars, pauseCount, future, gather>>

GatherCount(g, kind, pause, unpause) ==
    /\ LoopFree
    /\ gather[g].state = "new"
    /\ gather' = [gather EXCEPT ![g] = [@ EXCEPT !.state = "gathering", !.kind = kind, !.pause = pause]]
    /\ UnpauseIf(unpause)
    /\ UNCHANGED <<messages, sent, pending, blocked, dispatcher, thread, future, callback, upset>>

\* clear(): futures that wait are given an exception, everything is dropped from
\* the list.  A gather_count() goes on waiting, and is never given a message again.
Clear ==
    /\ LoopFree
    /\ future' = [f \in Futures |->
         IF future[f].state \in {"waiting", "done"} THEN [future[f] EXCEPT !.state = "removed"] ELSE future[f]]
    /\ callback' = [c \in Callbacks |-> NULL]
    /\ gather' = [g \in Gathers |->
         IF gather[g].state = "gathering" THEN [gather[g] EXCEPT !.state = "dropped"] ELSE gather[g]]
    /\ UNCHANGED <<queueVars, pauseCount>>

\* gather_count resumes after its event was set, or after its timeout; only then
\* are its waiters removed.
GatherReturns(g) ==
    /\ LoopFree
    /\ gather[g].state \in {"gathering", "dropped", "complete"}
    /\ gather' = [gather EXCEPT ![g].state = IF @ = "complete" THEN "returned" ELSE "timed out"]
    /\ UNCHANGED <<queueVars, pauseCount, future, callback>>

-----------------------------------------------------------------------------
(* Queueing. *)

MaySend(kind) ==
    /\ Len(sent) < MaxMessages
    /\ kind \in Replies => \A i \in DOMAIN sent : sent[i] # kind

Enqueue(kind) ==
    /\ MaySend(kind) /\ kind \notin Direct
    /\ sent' = Append(sent, kind)
    /\ messages' = Append(messages, Len(sent) + 1)

Launch == launched' = IF pauseCount = 0 THEN launched + 1 ELSE launched

\* queue_message_threadsafe, called on the loop.
Queue(kind) ==
    /\ LoopFree
    /\ Enqueue(kind)
    /\ pending' = TRUE
    /\ IF pending THEN UNCHANGED launched ELSE Launch
    /\ UNCHANGED <<pauseCount, blocked, dispatcher, thread, waiterVars>>

\* queue_message_threadsafe, called in another thread: the message is appended,
ThreadAppends(t, kind) ==
    /\ thread[t] = "idle"
    /\ Enqueue(kind)
    /\ thread' = [thread EXCEPT ![t] = "test"]
    /\ UNCHANGED <<pending, pauseCount, launched, blocked, dispatcher, waiterVars>>

\* _process_pending is tested,
ThreadTests(t) ==
    /\ thread[t] = "test"
    /\ thread' = [thread EXCEPT ![t] = IF pending THEN "idle" ELSE "set"]
    /\ UNCHANGED <<messages, sent, pending, pauseCount, launched, blocked, dispatcher, waiterVars>>

\* and set,
ThreadSets(t) ==
    /\ thread[t] = "set"
    /\ pending' = TRUE
    /\ thread' = [thread EXCEPT ![t] = "launch"]
    /\ UNCHANGED <<messages, sent, pauseCount, launched, blocked, dispatcher, waiterVars>>

\* and process_all is launched if nobody has paused.
ThreadLaunches(t) ==
    /\ thread[t] = "launch"
    /\ Launch
    /\ thread' = [thread EXCEPT ![t] = "idle"]
    /\ upset' = IF pauseCount > 0 /\ messages = <<>> THEN upset \cup {"raced"} ELSE upset
    /\ UNCHANGED <<messages, sent, pending, pauseCount, blocked, dispatcher, future, callback, gather>>

-----------------------------------------------------------------------------
(* process_all. *)

\* process_all begins, and takes the lock or waits for it.
ProcessAll ==
    /\ LoopFree
    /\ launched > 0
    /\ launched' = launched - 1
    /\ pending' = FALSE
    /\ IF dispatcher = "none"
       THEN dispatcher' = "running" /\ UNCHANGED blocked
       ELSE blocked' = blocked + 1 /\ UNCHANGED dispatcher
    /\ UNCHANGED <<messages, sent, pauseCount, thread, waiterVars>>

TakeLock ==
    /\ dispatcher = "none"
    /\ blocked > 0
    /\ blocked' = blocked - 1
    /\ dispatcher' = "running"
    /\ UNCHANGED <<messages, sent, pending, pauseCount, launched, thread, waiterVars>>

\* The queue is empty, or somebody has paused.
Halts == messages = <<>> \/ pauseCount > 0

Halt ==
    /\ dispatcher = "running" /\ Halts
    /\ dispatcher' = "none"
    /\ UNCHANGED <<messages, sent, pending, pauseCount, launched, blocked, thread, waiterVars>>

Waiting(f, kind) == future[f].kind = kind /\ future[f].state = "waiting"

\* Futures that are done but still listed.
Lingering(kind) == {f \in Futures : future[f].kind = kind /\ future[f].state = "done"}

\* (One waiter is woken for each message.)
GiveOne(id, fs) ==
    future' = [f \in Futures |->
        IF fs # {} /\ f = CHOOSE h \in fs : TRUE
        THEN [future[f] EXCEPT !.state = "done", !.got = id] ELSE future[f]]

GiveFutures(id, fs) ==
    future' = [f \in Futures |->
        IF f \in fs THEN [future[f] EXCEPT !.state = "done", !.got = id] ELSE future[f]]

Gathering(g) == gather[g].state \in {"gathering", "complete"}

GiveGathers(gs) ==
    gather' = [g \in Gathers |->
        IF g \in gs
        THEN [gather[g] EXCEPT !.accum = @ + 1,
                               !.state = IF gather[g].accum + 1 = Count THEN "complete" ELSE @]
        ELSE gather[g]]

\* (A gather_count() that pauses one message late.)
PausingLate(fs, gs) ==
    Cardinality({f \in fs : future[f].pause})
        + Cardinality({g \in gs : gather[g].pause /\ gather[g].accum = Count})

\* The waiters that pause when they are given the message.
Pausing(fs, gs) ==
    Cardinality({f \in fs : future[f].pause})
        + Cardinality({g \in gs : gather[g].pause /\ gather[g].accum + 1 = Count})

\* The waiters that are given a message, and the pauses they ask for.
Give(id, fs, gs, pauses) ==
    /\ GiveFutures(id, fs)
    /\ GiveGathers(gs)
    /\ pauseCount' = pauseCount + Pausing(fs, gs) + pauses
    /\ UNCHANGED callback

MatchingFutures(kind) == {f \in Futures : Waiting(f, kind)}
MatchingGathers(kind) == {g \in Gathers : Gathering(g) /\ gather[g].kind = kind}

\* process_message: everybody who waits for the message is given it,
GiveAll(id, kind) ==
    /\ Lingering(kind) = {}
    /\ Give(id, MatchingFutures(kind), MatchingGathers(kind), 0)
    /\ UNCHANGED upset

\* but set_result on a future that is done and still listed raises
\* InvalidStateError: waiters that come after it are not given the message.
GiveSome(id, kind) ==
    /\ \E f \in Lingering(kind), before \in SUBSET MatchingFutures(kind),
         between \in SUBSET MatchingGathers(kind) :
           Give(id, before, between, IF future[f].pause THEN 1 ELSE 0)
    /\ upset' = upset \cup {"raised"}

\* process_message for a message that was not queued, without waiting for the
\* coroutines it starts; pausing does not hold it up.
ProcessMessage(kind) ==
    LET id == Len(sent) + 1 IN
    /\ LoopFree
    /\ MaySend(kind) /\ kind \in Direct
    /\ sent' = Append(sent, kind)
    /\ GiveAll(id, kind) \/ GiveSome(id, kind)
    /\ UNCHANGED <<messages, pending, launched, blocked, dispatcher, thread>>

\* (One message is dispatched each time.)
DispatchOne ==
    /\ dispatcher = "running" /\ ~Halts
    /\ messages' = Tail(messages)
    /\ GiveAll(Head(messages), sent[Head(messages)])
    /\ dispatcher' = "none"
    /\ UNCHANGED <<sent, pending, launched, blocked, thread>>

\* process_message for the oldest message of the queue.  An exception ends
\* process_all, whatever the queue holds.
Dispatch ==
    LET id == Head(messages)
        kind == sent[id]
    IN
    /\ dispatcher = "running" /\ ~Halts
    /\ messages' = Tail(messages)
    /\ \/ /\ GiveAll(id, kind)
          /\ dispatcher' = IF \E c \in SlowCallbacks : callback[c] = kind
                           THEN "awaiting" ELSE "running"
       \/ GiveSome(id, kind) /\ dispatcher' = "none"
    /\ UNCHANGED <<sent, pending, launched, blocked, thread>>

\* The coroutine callbacks have all ended.
ProcessorsEnd ==
    /\ dispatcher = "awaiting"
    /\ dispatcher' = "running"
    /\ UNCHANGED <<messages, sent, pending, pauseCount, launched, blocked, thread, waiterVars>>

OpNext ==
    \/ \E f \in Futures, k \in Awaited, p, u \in PauseFlags : WaitFor(f, k, p, u)
    \/ \E f \in Futures : TimeOut(f) \/ RemoveDone(f)
    \/ Clear
    \/ \E c \in Callbacks, k \in Kinds : EveryMatch(c, k)
    \/ \E c \in Callbacks : RemoveWaiter(c)
    \/ \E g \in Gathers, k \in Kinds, p, u \in PauseFlags : GatherCount(g, k, p, u)
    \/ \E g \in Gathers : GatherReturns(g)
    \/ Unpause
    \/ \E k \in Kinds : Queue(k) \/ ProcessMessage(k)
    \/ \E t \in Threads, k \in Kinds : ThreadAppends(t, k)
    \/ \E t \in Threads : ThreadTests(t) \/ ThreadSets(t) \/ ThreadLaunches(t)
    \/ ProcessAll \/ TakeLock \/ Halt \/ Dispatch \/ ProcessorsEnd

OpSpec == OpInit /\ [][OpNext]_opVars

-----------------------------------------------------------------------------
(* Properties. *)

\* The variables stay in their types; the count of pauses never goes below zero
\* (unpause() refuses to).
OpTypeOK ==
    /\ sent \in Seq(Kinds) /\ Len(sent) <= MaxMessages
    /\ messages \in Seq(1 .. Len(sent))
    /\ pending \in BOOLEAN
    /\ pauseCount \in Nat /\ launched \in Nat /\ blocked \in Nat
    /\ dispatcher \in {"none", "running", "awaiting"}
    /\ \A f \in Futures : future[f].state \in {"new", "waiting", "done", "removed"}
    /\ callback \in [Callbacks -> Kinds \cup {NULL}]
    /\ \A g \in Gathers : gather[g].state \in {"new", "gathering", "complete", "dropped", "returned",
                                              "timed out"}
    /\ thread \in [Threads -> {"idle", "test", "set", "launch"}]
    /\ upset \subseteq {"raised", "raced"}

\* process_all "is automatically called as needed by queue_message_threadsafe and
\* pause/unpause so it should not ever need to be called manually": messages never
\* lie in the queue, unpaused, with nobody on the way to dispatch them, until
\* process_message() raises out of process_all or a thread is overtaken by a pause.
NoMessageStuck ==
    upset = {} /\ messages # <<>> /\ pauseCount = 0 =>
        \/ launched + blocked > 0
        \/ dispatcher # "none"
        \/ \E t \in Threads : thread[t] # "idle"

\* pause() is there "to make sure messages don't get processed in between when one
\* operation finishes and you setup the next operation": a gather_count() that
\* pauses is given no message more than it asked for, although it stays listed
\* until its coroutine runs again, if they come through the queue.
PausingGatherIsExact ==
    \A g \in Gathers : gather[g].pause /\ gather[g].kind \notin Direct => gather[g].accum <= Count

\* "The first message received after this function has been called that has all of
\* the given keys with the given values will be returned": whatever is queued,
\* paused or registered meanwhile, a future that waits has missed nothing, and one
\* that was given a message was given the first, as long as process_message() does
\* not raise because a future is done and not yet removed.
FirstMatchIsReturned ==
    "raised" \notin upset =>
    \A f \in Futures :
        LET matches == {id \in DOMAIN sent \ future[f].since : sent[id] = future[f].kind}
        IN
        /\ future[f].state = "waiting" => matches \subseteq Range(messages)
        /\ future[f].got # NULL => future[f].got \in matches /\ \A id \in matches : future[f].got <= id

\* Messages are dispatched, to those that wait for them and not to others, but for the
\* accidents that the history variable records (OperationManager.process_message).
MessagesAreDelivered == OpTypeOK /\ NoMessageStuck /\ PausingGatherIsExact /\ FirstMatchIsReturned
=============================================================================

----------------------------- MODULE DeviceReset -----------------------------
(***************************************************************************)
(* How an emulated device starts and resets: the background tasks of its   *)
(* tiles (EmulatedTile, EmulatedPeripheralTile, ReferenceController), the  *)
(* worker of the tile manager that configures registered tiles, and the    *)
(* tasks and idle condition of EmulationLoop (iotile/emulate/...).         *)
(*                                                                         *)
(* A reset of the controller restarts its main task, which restarts the    *)
(* tile manager and then resets every other tile; each registers with the  *)
(* controller, whose worker sends it its config variables and START.       *)
(* Handlers take no time, so no wait of a second runs out while the        *)
(* dispatcher lives.  The order in which asyncio runs what is ready is     *)
(* left open, but for callbacks of add_task(), which run first come first  *)
(* served.  Every tile but the controller is like DemoEmulatedTile, whose  *)
(* main loop finishes the RPCs it has deferred.                            *)
(***************************************************************************)
EXTENDS None, Naturals, Sequences, FiniteSets

CONSTANTS
    DvTiles,     \* the addresses of the peripheral tiles, in order
    DvVars,      \* how many config variables are streamed to each of them
    DvUsers,     \* callers of RPCs from outside of the device
    DvWaiting,   \* the ones behind EmulatedDeviceAdapter, which waits for idle
    DvMaxCalls   \* bound on their calls

DvController == 8
DvPeripherals == {DvTiles[n] : n \in DOMAIN DvTiles}
DvAddresses == {DvController} \cup DvPeripherals

\* Tiles have addresses of their own; users are no tasks.
ASSUME DvAssumption ==
    /\ DvTiles \in Seq(Nat \ {DvController})
    /\ \A m, n \in DOMAIN DvTiles : DvTiles[m] = DvTiles[n] => m = n
    /\ DvVars \in Nat
    /\ DvUsers \cap Nat = {} /\ NULL \notin DvUsers \cup Nat

VARIABLES
    dvQueue,       \* _rpc_queue: [to, kind, by, var] of each call
    dvAlive,       \* the dispatcher has not ended
    dvTasks,       \* every task there has been, by its number
    dvPosted,      \* the tasks whose _add_task has not been called yet
    dvAdded,       \* EmulationLoop._tasks
    dvInitialized, \* EmulatedTile.initialized
    dvStarted,     \* _start_received
    dvConfig,      \* the config variables that have been set since the reset
    dvBusy,        \* _pending_rpcs: who waits for the deferred RPC of a tile
    dvManagerUp,   \* TileManagerState.initialized
    dvEntries,     \* TileManagerState.queue
    dvUnfinished,  \* the count of that queue's join()
    dvUser,        \* what each user does
    dvIdle,        \* what the wait_idle() of each user still waits for
    dvCalls,       \* how many calls users have made
    dvHasty,       \* a user has reset a tile before all was up and idle
    dvOvertaken    \* the tiles reset while they were being configured

dvVars == <<dvQueue, dvAlive, dvTasks, dvPosted, dvAdded, dvInitialized, dvStarted,
            dvConfig, dvBusy, dvManagerUp, dvEntries, dvUnfinished, dvUser, dvIdle,
            dvCalls, dvHasty, dvOvertaken>>

dvTileVars == <<dvInitialized, dvStarted, dvConfig>>
dvPast == <<dvHasty, dvOvertaken>>
dvManagerVars == <<dvManagerUp, dvEntries, dvUnfinished>>
dvUserVars == <<dvUser, dvCalls, dvPast>>

DvTask(address, kind) ==
    [of |-> address, kind |-> kind, pc |-> "begin", rpc |-> "none", at |-> 0,
     entry |-> NULL, cancelled |-> FALSE]

\* start() resets the controller before anybody can call the device.
DvInit ==
    /\ dvQueue = <<>>
    /\ dvAlive = TRUE
    /\ dvTasks = <<DvTask(DvController, "main")>>
    /\ dvPosted = <<1>>
    /\ dvAdded = [a \in DvAddresses |-> {}]
    /\ dvInitialized = [a \in DvAddresses |-> FALSE]
    /\ dvStarted = [a \in DvAddresses |-> FALSE]
    /\ dvConfig = [a \in DvAddresses |-> {}]
    /\ dvBusy = [a \in DvAddresses |-> NULL]
    /\ dvManagerUp = FALSE
    /\ dvEntries = <<>>
    /\ dvUnfinished = 0
    /\ dvUser = [u \in DvUsers |-> "launching"]
    /\ dvIdle = [u \in DvUsers |-> {}]
    /\ dvCalls = 0
    /\ dvHasty = FALSE
    /\ dvOvertaken = {}

DvOver(t) == dvTasks[t].pc \in {"done", "refused", "failed", "cancelled"}
DvRuns(t) == t \in DOMAIN dvTasks /\ ~dvTasks[t].cancelled /\ ~DvOver(t)
               /\ t \notin {dvPosted[n] : n \in DOMAIN dvPosted}
DvAt(t, pc) == DvRuns(t) /\ dvTasks[t].pc = pc

\* Every tile is up, and nothing is queued but what is being looked at.
DvUp == \A a \in DvAddresses : dvInitialized[a]
DvIsIdle == /\ DvUp /\ Len(dvQueue) <= 1 /\ dvPosted = <<>> /\ dvUnfinished = 0
            /\ \A a \in DvAddresses : dvBusy[a] = NULL

\* The worker has an entry of the tile, or still has to take one.
DvBeingConfigured(a) ==
    \/ \E n \in DOMAIN dvEntries : dvEntries[n] = a
    \/ \E t \in DOMAIN dvTasks : dvTasks[t].entry = a

-----------------------------------------------------------------------------
(* The event loop. *)

\* await_rpc, from task t.
DvSend(t, to, kind, var) ==
    dvQueue' = Append(dvQueue, [to |-> to, kind |-> kind, by |-> t, var |-> var])

\* add_task: the task is only known to stop_tasks() when the loop has come round.
DvPosted(tasks, task) ==
    /\ dvTasks' = Append(tasks, task)
    /\ dvPosted' = Append(dvPosted, Len(tasks) + 1)

DvAddTask ==
    /\ dvPosted # <<>>
    /\ dvPosted' = Tail(dvPosted)
    /\ dvAdded' = [dvAdded EXCEPT ![dvTasks[Head(dvPosted)].of] = @ \cup {Head(dvPosted)}]
    /\ UNCHANGED <<dvQueue, dvAlive, dvTasks, dvTileVars, dvBusy, dvManagerVars, dvUserVars>>

DvEnded(t, pc) == [DvTask(dvTasks[t].of, dvTasks[t].kind) EXCEPT !.pc = pc]
DvAwaitsRPC(t) == dvTasks[t].pc \in {"register", "reset tiles", "configure"}

\* (stop_tasks for whatever address.)
DvStopsAll(address) ==
    [t \in DOMAIN dvTasks |->
        IF t \notin UNION {dvAdded[a] : a \in DvAddresses} \/ DvOver(t) THEN dvTasks[t]
        ELSE DvEnded(t, "cancelled")]

\* stop_tasks: the tasks are told to end, and not waited for.  One that does nothing
\* until it has ended may as well have ended.
DvStopTasks(address) ==
    [t \in DOMAIN dvTasks |->
        IF t \notin dvAdded[address] \/ DvOver(t) THEN dvTasks[t]
        ELSE IF DvAwaitsRPC(t) \/ dvTasks[t].pc = "initialize" THEN [dvTasks[t] EXCEPT !.cancelled = TRUE]
        ELSE DvEnded(t, "cancelled")]

\* (A worker without its finally clause.)
DvForgets(t) ==
    /\ t \in DOMAIN dvTasks /\ dvTasks[t].cancelled /\ ~DvOver(t)
    /\ dvTasks' = [dvTasks EXCEPT ![t] = DvEnded(t, "cancelled")]
    /\ UNCHANGED <<dvQueue, dvAlive, dvPosted, dvAdded, dvTileVars, dvBusy, dvManagerVars, dvUserVars>>

\* A cancelled task ends; the worker still counts its entry as done.
DvCancelled(t) ==
    /\ t \in DOMAIN dvTasks /\ dvTasks[t].cancelled /\ ~DvOver(t)
    /\ dvTasks' = [dvTasks EXCEPT ![t] = DvEnded(t, "cancelled")]
    /\ dvUnfinished' = IF dvTasks[t].pc = "configure" THEN dvUnfinished - 1 ELSE dvUnfinished
    /\ UNCHANGED <<dvQueue, dvAlive, dvPosted, dvAdded, dvTileVars, dvBusy, dvManagerUp,
                   dvEntries, dvUserVars>>

-----------------------------------------------------------------------------
(* The dispatcher. *)

\* The caller gets its answer.  The future of a task that has ended is cancelled:
\* setting it raises, and that is the end of the dispatcher.
DvAnswer(by, tasks, how) ==
    IF by \in DvUsers
    THEN /\ dvUser' = [dvUser EXCEPT ![by] = "answered"]
         /\ dvTasks' = tasks
         /\ UNCHANGED dvAlive
    ELSE /\ dvAlive' = (tasks[by].pc # "cancelled")
         /\ dvTasks' = [tasks EXCEPT ![by].rpc = how]
         /\ UNCHANGED dvUser

DvHead == Head(dvQueue)
DvDispatching(kind) ==
    /\ dvAlive /\ dvQueue # <<>> /\ DvHead.kind = kind
    /\ dvBusy[DvHead.to] = NULL
    /\ dvQueue' = Tail(dvQueue)

\* A tile that has deferred an RPC refuses all others.
DvRefuse ==
    /\ dvAlive /\ dvQueue # <<>> /\ dvBusy[DvHead.to] # NULL
    /\ dvQueue' = Tail(dvQueue)
    /\ DvAnswer(DvHead.by, dvTasks, "refused")
    /\ UNCHANGED <<dvPosted, dvAdded, dvTileVars, dvBusy, dvManagerVars, dvCalls, dvPast>>

\* reset(): its tasks are stopped, its state is cleared, and its main task is
\* posted anew.  The answer is TileNotFoundError, which every caller expects.
DvReset ==
    /\ DvDispatching("reset")
    /\ LET a == DvHead.to
           tasks == Append(DvStopTasks(a), DvTask(a, "main")) IN
       /\ DvAnswer(DvHead.by, tasks, "answered")
       /\ dvPosted' = Append(dvPosted, Len(tasks))
       /\ dvAdded' = [dvAdded EXCEPT ![a] = {}]
       /\ dvInitialized' = [dvInitialized EXCEPT ![a] = FALSE]
       /\ dvStarted' = [dvStarted EXCEPT ![a] = FALSE]
       /\ dvConfig' = [dvConfig EXCEPT ![a] = {}]
    /\ dvHasty' = (dvHasty \/ (DvHead.by \in DvUsers /\ ~DvIsIdle))
    /\ dvOvertaken' = dvOvertaken \cup {a \in {DvHead.to} : DvBeingConfigured(a)}
    /\ UNCHANGED <<dvBusy, dvManagerVars, dvCalls>>

\* set_config_variable: refused once the tile is initialized, with a code that the
\* caller does not look at.
DvSetConfig ==
    /\ DvDispatching("config")
    /\ dvConfig' = IF dvInitialized[DvHead.to] THEN dvConfig
                   ELSE [dvConfig EXCEPT ![DvHead.to] = @ \cup {DvHead.var}]
    /\ DvAnswer(DvHead.by, dvTasks, "answered")
    /\ UNCHANGED <<dvPosted, dvAdded, dvInitialized, dvStarted, dvBusy, dvManagerVars,
                   dvCalls, dvPast>>

\* start_application
DvStart ==
    /\ DvDispatching("start")
    /\ dvStarted' = [dvStarted EXCEPT ![DvHead.to] = TRUE]
    /\ DvAnswer(DvHead.by, dvTasks, "answered")
    /\ UNCHANGED <<dvPosted, dvAdded, dvInitialized, dvConfig, dvBusy, dvManagerVars,
                   dvCalls, dvPast>>

\* register_tile
DvRegister ==
    /\ DvDispatching("register")
    /\ dvEntries' = Append(dvEntries, dvTasks[DvHead.by].of)
    /\ dvUnfinished' = dvUnfinished + 1
    /\ DvAnswer(DvHead.by, dvTasks, "answered")
    /\ UNCHANGED <<dvPosted, dvAdded, dvTileVars, dvBusy, dvManagerUp, dvCalls, dvPast>>

\* async_echo: the main loop of the tile will finish it.
DvDefer ==
    /\ DvDispatching("echo")
    /\ dvBusy' = [dvBusy EXCEPT ![DvHead.to] = DvHead.by]
    /\ UNCHANGED <<dvAlive, dvTasks, dvPosted, dvAdded, dvTileVars, dvManagerVars, dvUserVars>>

-----------------------------------------------------------------------------
(* The tasks.  What task t awaits has been answered: *)
DvAnswered(t) == dvTasks[t].rpc = "answered"

DvStep(t, pc) == dvTasks' = [dvTasks EXCEPT ![t].pc = pc, ![t].rpc = "none"]
DvEnd(t, pc) == dvTasks' = [dvTasks EXCEPT ![t] = DvEnded(t, pc)]

\* (clear_to_reset without its base class.)
DvDoesNotClear(t) ==
    /\ DvAt(t, "begin") /\ dvTasks[t].of = DvController /\ dvTasks[t].kind = "main"
    /\ DvStep(t, "initialize")
    /\ UNCHANGED <<dvQueue, dvAlive, dvPosted, dvAdded, dvTileVars, dvBusy, dvManagerVars, dvUserVars>>

\* The main task of the controller: the tile manager is cleared to reset, ...
DvClear(t) ==
    /\ DvAt(t, "begin") /\ dvTasks[t].of = DvController /\ dvTasks[t].kind = "main"
    /\ dvManagerUp' = FALSE
    /\ DvStep(t, "initialize")
    /\ UNCHANGED <<dvQueue, dvAlive, dvPosted, dvAdded, dvTileVars, dvBusy, dvEntries,
                   dvUnfinished, dvUserVars>>

\* ... and its worker is posted, by a task of its own (wait_for) that may still run
\* when its parent has been told to end.
DvInitialize(t) ==
    /\ t \in DOMAIN dvTasks /\ ~DvOver(t) /\ dvTasks[t].pc = "initialize"
    /\ IF dvManagerUp
       THEN DvEnd(t, "failed") /\ UNCHANGED dvPosted
       ELSE DvPosted([dvTasks EXCEPT ![t].pc = "starting"], DvTask(DvController, "worker"))
    /\ UNCHANGED <<dvQueue, dvAlive, dvAdded, dvTileVars, dvBusy, dvManagerVars, dvUserVars>>

\* Once it runs all other tiles are reset, one after the other.
DvResetTiles(t) ==
    LET task == dvTasks[t] IN
    /\ DvRuns(t)
    /\ \/ task.pc = "starting" /\ dvManagerUp
       \/ task.pc = "reset tiles" /\ DvAnswered(t)
    /\ IF task.at = Len(DvTiles)
       THEN /\ dvInitialized' = [dvInitialized EXCEPT ![DvController] = TRUE]
            /\ DvEnd(t, "done")
            /\ UNCHANGED dvQueue
       ELSE /\ DvSend(t, DvTiles[task.at + 1], "reset", NULL)
            /\ dvTasks' = [dvTasks EXCEPT ![t].pc = "reset tiles", ![t].rpc = "none", ![t].at = @ + 1]
            /\ UNCHANGED dvInitialized
    /\ UNCHANGED <<dvAlive, dvPosted, dvAdded, dvStarted, dvConfig, dvBusy, dvManagerVars, dvUserVars>>

\* The worker of the tile manager takes an entry, ...
DvTake(t) ==
    /\ DvRuns(t) /\ dvTasks[t].kind = "worker"
    /\ \/ dvTasks[t].pc = "begin" /\ dvManagerUp' = TRUE
          /\ DvStep(t, "get")
          /\ UNCHANGED <<dvQueue, dvEntries>>
       \/ dvTasks[t].pc = "get" /\ dvEntries # <<>>
          /\ dvEntries' = Tail(dvEntries)
          /\ dvTasks' = [dvTasks EXCEPT ![t].pc = "configure", ![t].entry = Head(dvEntries),
                                        ![t].at = 1, ![t].rpc = "none"]
          /\ UNCHANGED dvManagerUp
          /\ IF DvVars = 0 THEN DvSend(t, Head(dvEntries), "start", NULL)
             ELSE DvSend(t, Head(dvEntries), "config", 1)
    /\ UNCHANGED <<dvAlive, dvPosted, dvAdded, dvTileVars, dvBusy, dvUnfinished, dvUserVars>>

\* ... sends its config variables and START, and counts it as done.
DvConfigure(t) ==
    LET task == dvTasks[t] IN
    /\ DvAt(t, "configure") /\ DvAnswered(t)
    /\ IF task.at > DvVars
       THEN /\ dvTasks' = [dvTasks EXCEPT ![t].pc = "get", ![t].rpc = "none",
                                          ![t].entry = NULL, ![t].at = 0]
            /\ dvUnfinished' = dvUnfinished - 1
            /\ UNCHANGED dvQueue
       ELSE /\ dvTasks' = [dvTasks EXCEPT ![t].at = @ + 1, ![t].rpc = "none"]
            /\ IF task.at = DvVars THEN DvSend(t, task.entry, "start", NULL)
               ELSE DvSend(t, task.entry, "config", task.at + 1)
            /\ UNCHANGED dvUnfinished
    /\ UNCHANGED <<dvAlive, dvPosted, dvAdded, dvTileVars, dvBusy, dvManagerUp, dvEntries, dvUserVars>>

\* (A tile that runs as soon as it has registered.)
DvStartsAtOnce(t) ==
    LET task == dvTasks[t] IN
    /\ DvRuns(t) /\ task.of # DvController
    /\ \/ task.pc = "begin" /\ DvSend(t, DvController, "register", NULL) /\ DvStep(t, "register")
          /\ UNCHANGED dvInitialized
       \/ task.pc = "register" /\ DvAnswered(t) /\ DvStep(t, "app")
          /\ dvInitialized' = [dvInitialized EXCEPT ![task.of] = TRUE]
          /\ UNCHANGED dvQueue
    /\ UNCHANGED <<dvAlive, dvPosted, dvAdded, dvStarted, dvConfig, dvBusy, dvManagerVars, dvUserVars>>

\* A tile registers, and waits for START before its application runs.
DvTileMain(t) ==
    LET task == dvTasks[t] IN
    /\ DvRuns(t) /\ task.of # DvController
    /\ \/ task.pc = "begin" /\ DvSend(t, DvController, "register", NULL) /\ DvStep(t, "register")
          /\ UNCHANGED dvInitialized
       \/ task.pc = "register" /\ DvAnswered(t) /\ dvStarted[task.of] /\ DvStep(t, "app")
          /\ dvInitialized' = [dvInitialized EXCEPT ![task.of] = TRUE]
          /\ UNCHANGED dvQueue
    /\ UNCHANGED <<dvAlive, dvPosted, dvAdded, dvStarted, dvConfig, dvBusy, dvManagerVars, dvUserVars>>

\* Its main loop finishes what has been deferred.
DvFinishAsync(t) ==
    LET a == dvTasks[t].of IN
    /\ DvAt(t, "app") /\ dvBusy[a] # NULL
    /\ dvUser' = [dvUser EXCEPT ![dvBusy[a]] = "answered"]
    /\ dvBusy' = [dvBusy EXCEPT ![a] = NULL]
    /\ UNCHANGED <<dvQueue, dvAlive, dvTasks, dvPosted, dvAdded, dvTileVars, dvManagerVars,
                   dvCalls, dvPast>>

\* A refused RPC raises, and so does one that nobody will answer: the task ends.
DvRaises(t) ==
    /\ DvRuns(t)
    /\ \/ dvTasks[t].rpc = "refused"
       \/ ~dvAlive /\ dvTasks[t].rpc = "none" /\ DvAwaitsRPC(t)
    /\ DvEnd(t, IF dvAlive THEN "refused" ELSE "failed")
    /\ dvUnfinished' = IF dvTasks[t].pc = "configure" THEN dvUnfinished - 1 ELSE dvUnfinished
    /\ UNCHANGED <<dvQueue, dvAlive, dvPosted, dvAdded, dvTileVars, dvBusy, dvManagerUp,
                   dvEntries, dvUserVars>>

-----------------------------------------------------------------------------
(* The users. *)

\* What wait_idle() waits for: the two queues, and the event of each tile.
DvRPCsDone == 0
DvTilesDone == 1
DvIdle(what) ==
    CASE what = DvRPCsDone -> dvQueue = <<>> /\ \A a \in DvAddresses : dvBusy[a] = NULL
      [] what = DvTilesDone -> dvUnfinished = 0
      [] OTHER -> dvInitialized[what]

DvLaunched ==
    /\ DvUp
    /\ \E u \in DvUsers : dvUser[u] = "launching"
    /\ dvUser' = [u \in DvUsers |-> "ready"]
    /\ UNCHANGED <<dvQueue, dvAlive, dvTasks, dvPosted, dvAdded, dvTileVars, dvBusy,
                   dvManagerVars, dvCalls, dvPast, dvIdle>>

DvUserCalls(u, to, kind) ==
    /\ dvUser[u] = "ready" /\ dvCalls < DvMaxCalls
    /\ kind = "echo" => to # DvController
    /\ dvCalls' = dvCalls + 1
    /\ dvUser' = [dvUser EXCEPT ![u] = "calling"]
    /\ DvSend(u, to, kind, NULL)
    /\ UNCHANGED <<dvAlive, dvTasks, dvPosted, dvAdded, dvTileVars, dvBusy, dvManagerVars,
                   dvPast, dvIdle>>

\* send_rpc of EmulatedDeviceAdapter, once answered: wait_idle() waits for the
\* queues, and for the events that are not set now.
DvWaitIdle(u) ==
    /\ dvUser[u] = "answered" /\ u \in DvWaiting
    /\ dvUser' = [dvUser EXCEPT ![u] = "waiting"]
    /\ dvIdle' = [dvIdle EXCEPT ![u] = {what \in {DvRPCsDone, DvTilesDone} \cup DvAddresses : ~DvIdle(what)}]
    /\ UNCHANGED <<dvQueue, dvAlive, dvTasks, dvPosted, dvAdded, dvTileVars, dvBusy,
                   dvManagerVars, dvCalls, dvPast>>

DvReturn(u) ==
    /\ \/ dvUser[u] = "waiting" /\ dvIdle[u] = {}
       \/ dvUser[u] = "answered" /\ u \notin DvWaiting
    /\ dvUser' = [dvUser EXCEPT ![u] = "ready"]
    /\ UNCHANGED <<dvQueue, dvAlive, dvTasks, dvPosted, dvAdded, dvTileVars, dvBusy,
                   dvManagerVars, dvCalls, dvPast, dvIdle>>

-----------------------------------------------------------------------------
\* Whoever waits for a queue or an event notices as soon as it is empty or set.
DvLoop ==
    /\ \/ DvAddTask
       \/ DvRefuse \/ DvReset \/ DvSetConfig \/ DvStart \/ DvRegister \/ DvDefer
       \/ \E t \in DOMAIN dvTasks :
            \/ DvCancelled(t) \/ DvRaises(t)
            \/ DvClear(t) \/ DvInitialize(t) \/ DvResetTiles(t)
            \/ DvTake(t) \/ DvConfigure(t)
            \/ DvTileMain(t) \/ DvFinishAsync(t)
    /\ dvIdle' = [u \in DvUsers |-> {what \in dvIdle[u] : ~DvIdle(what)'}]

DvNext ==
    \/ DvLoop
    \/ DvLaunched
    \/ \E u \in DvUsers :
        \/ \E to \in DvAddresses, kind \in {"reset", "echo"} : DvUserCalls(u, to, kind)
        \/ DvWaitIdle(u) \/ DvReturn(u)

DvSpec == DvInit /\ [][DvNext]_dvVars /\ WF_dvVars(DvLoop)

-----------------------------------------------------------------------------
(* Properties. *)

\* A tile that has deferred an RPC has refused one of the controller's.
DvRefused == \E t \in DOMAIN dvTasks : "refused" \in {dvTasks[t].rpc, dvTasks[t].pc}

\* The dispatcher only dies when somebody resets a tile before all is up and idle
\* again (RPCQueue._rpc_dispatch_task).
DvDiesOfHaste == ~dvAlive => dvHasty

\* The queue of the tile manager counts the entries that are queued or being worked on,
\* so that its join() returns (TileManagerState._reset_vector).
DvUnfinishedIsExact ==
    dvUnfinished = Len(dvEntries)
        + Cardinality({t \in DOMAIN dvTasks : dvTasks[t].kind = "worker" /\ dvTasks[t].pc = "configure"})

\* A tile that runs its application has got all its config variables, except one that
\* was reset while it was being configured: what was left of that is taken for the start
\* of its new life (EmulatedPeripheralTile._reset_vector).
DvConfigured ==
    \A a \in DvPeripherals :
        dvInitialized[a] => dvConfig[a] = 1 .. DvVars \/ a \in dvOvertaken

\* Resets are orderly (ReferenceController._reset_vector, TileManagerState): the dispatcher
\* lives, work is counted, and tiles run configured.
DvResetsAreOrderly == DvDiesOfHaste /\ DvUnfinishedIsExact /\ DvConfigured

\* The device always comes up again, unless it is reset in haste or a busy tile refuses
\* what the controller sends it (ReferenceDevice.start).
DvIsUp == DvUp \/ dvHasty \/ DvRefused
DvComesUp == []<>DvIsUp

\* When wait_idle() has returned to all who called the device, every tile is up
\* (EmulatedDevice.wait_idle).
DvReturnedMeansUp == (\A u \in DvUsers : dvUser[u] = "ready") => DvUp
=============================================================================

----------------------------- MODULE EventLoop -----------------------------
(***************************************************************************)
(* The background event loop (async_tools/event_loop.py): threads that add *)
(* tasks, run coroutines, stop tasks and stop the loop, and the loop's own *)
(* thread, in which all coroutines run.                                    *)
(*                                                                         *)
(* A thread looks whether the loop is stopping, hands its coroutine over,  *)
(* and waits; between the look and the handing over the loop may stop.     *)
(* Tasks obey a cancellation; a finalizer may or may not end its task.     *)
(***************************************************************************)
EXTENDS None, Naturals, Sequences, FiniteSets, SequencesExt

CONSTANTS
    ELThreads,    \* threads, each of which makes one call; a task is known by the thread that adds it
    ELCalls       \* the calls: subset of "add_task", "add_subtask", "run_coroutine", "stop_task", "stop"

\* None is not the name of a call, or of a place in one.
ASSUME EventLoopAssumption ==
    NULL \notin {"add_task", "add_subtask", "run_coroutine", "stop_task", "stop", "stops", "sweep", "done"}

VARIABLES
    elThread,     \* the threads: the call, what it is about, and how far it is
    elLoop,       \* "none", "running", "halting", "halted" or "closed"
    elSelf,       \* BackgroundEventLoop: whether loop is set, stopping, and tasks
    elReady,      \* callbacks that the loop is going to call, in this order
    elTask,       \* asyncio's tasks and the BackgroundTasks around them
    elStop,       \* calls of BackgroundTask.stop() that are being executed
    elMain,       \* _stop_internal()
    elRaced       \* history: calls that had looked at stopping, but not reached the loop, when it began to stop

elVars == <<elThread, elLoop, elSelf, elReady, elTask, elStop, elMain, elRaced>>

NoTask == [state |-> "none", stopped |-> FALSE, subtasks |-> {}, finalizer |-> FALSE, cancelled |-> FALSE]

ELInit ==
    /\ elThread = [t \in ELThreads |-> [call |-> NULL, of |-> NULL, pc |-> "idle"]]
    /\ elLoop = "none"
    /\ elSelf = [loop |-> FALSE, stopping |-> FALSE, tasks |-> {}]
    /\ elReady = <<>>
    /\ elTask = [t \in ELThreads |-> NoTask]
    /\ elStop = {}
    /\ elMain = [pc |-> NULL, thread |-> NULL, awaits |-> {}]
    /\ elRaced = {}

Goes(t, pc) == elThread' = [elThread EXCEPT ![t].pc = pc]
At(t, pc) == elThread[t].pc = pc
Over(t) == elThread[t].pc \in {"returned", "raised"}

(***************************************************************************)
(* The callers' threads.                                                   *)
(***************************************************************************)

\* A call starts with the look at stopping; stop() with the look at the loop and then the
\* one at stopping, and BackgroundTask.stop_threadsafe() with that at stopped.
Begins(t, call, of, pc) ==
    /\ At(t, "idle") /\ call \in ELCalls
    /\ elThread' = [elThread EXCEPT ![t] = [call |-> call, of |-> of, pc |-> pc]]
    /\ UNCHANGED <<elLoop, elSelf, elReady, elTask, elStop, elMain, elRaced>>
ELChecked == IF elSelf.stopping THEN "raised" ELSE "checked"

AddTask(t) == Begins(t, "add_task", NULL, ELChecked)
AddSubtask(t, parent) == elTask[parent].state # "none" /\ Begins(t, "add_subtask", parent, ELChecked)
RunCoroutine(t) == Begins(t, "run_coroutine", NULL, ELChecked)
StopTask(t, task) ==
    /\ elThread[task].call = "add_task" /\ At(task, "returned")
    /\ Begins(t, "stop_task", task, IF elTask[task].stopped THEN "returned" ELSE ELChecked)
Stop(t) == Begins(t, "stop", NULL, IF ~elSelf.loop THEN "returned" ELSE IF elSelf.stopping THEN "failed" ELSE "checked")

Start == elLoop' = IF elSelf.loop THEN elLoop ELSE "running"

\* start(), and the coroutine is handed over.  A parent that is not among the tasks is
\* refused; so is a loop that has been closed.
Submit(t) ==
    /\ At(t, "checked")
    /\ IF ~elSelf.loop /\ elSelf.stopping
       THEN Goes(t, IF elThread[t].call = "stop" THEN "failed" ELSE "raised") /\ UNCHANGED <<elLoop, elSelf, elReady, elRaced>>
       ELSE /\ elSelf' = [elSelf EXCEPT !.loop = TRUE]
            /\ Start
            /\ IF (elThread[t].call = "add_subtask" /\ elThread[t].of \notin elSelf.tasks) \/ elLoop = "closed"
               THEN Goes(t, IF elThread[t].call = "stop" THEN "failed" ELSE "raised") /\ UNCHANGED <<elReady, elRaced>>
               ELSE /\ Goes(t, "waiting")
                    /\ elReady' = Append(elReady, t)
                    /\ elRaced' = IF elSelf.stopping THEN elRaced \cup {t} ELSE elRaced
    /\ UNCHANGED <<elTask, elStop, elMain>>

\* The task was created: it is added to the tasks of the loop, or to the subtasks of its
\* parent; a parent that has stopped refuses it, and it goes on running.
Register(t) ==
    /\ At(t, "created") /\ elThread[t].call = "add_task"
    /\ elSelf' = [elSelf EXCEPT !.tasks = @ \cup {t}] /\ Goes(t, "returned")
    /\ UNCHANGED <<elLoop, elReady, elTask, elStop, elMain, elRaced>>

RegisterSubtask(t) ==
    /\ At(t, "created") /\ elThread[t].call = "add_subtask"
    /\ IF elTask[elThread[t].of].stopped THEN Goes(t, "raised") /\ elTask' = elTask
       ELSE Goes(t, "returned") /\ elTask' = [elTask EXCEPT ![elThread[t].of].subtasks = @ \cup {t}]
    /\ UNCHANGED <<elLoop, elSelf, elReady, elStop, elMain, elRaced>>

\* stop() joins the loop's thread, and forgets the loop whatever happened.
StopEnds(t) ==
    /\ elThread[t].call = "stop"
    /\ \/ At(t, "joining") /\ elLoop = "closed" /\ Goes(t, "returned")
       \/ At(t, "failed") /\ Goes(t, "raised")
    /\ elSelf' = [elSelf EXCEPT !.loop = FALSE, !.tasks = {}]
    /\ UNCHANGED <<elLoop, elReady, elTask, elStop, elMain, elRaced>>

(***************************************************************************)
(* The loop's thread.                                                      *)
(***************************************************************************)

Running == elLoop \in {"running", "halting"}
Ended(t) == elTask[t].state = "ended"
StopOf(task, by) == [task |-> task, by |-> by, pc |-> "finalize", awaits |-> {}]

\* The next callback: the task of a coroutine is created, or _stop_internal() begins.
Call ==
    /\ Running /\ elReady # <<>>
    /\ LET t == Head(elReady)
           call == elThread[t].call
       IN  \/ /\ call \in {"add_task", "add_subtask"}
              /\ \E finalizer \in (IF call = "add_task" THEN BOOLEAN ELSE {FALSE}) :
                   elTask' = [elTask EXCEPT ![t] = [NoTask EXCEPT !.state = "running", !.finalizer = finalizer]]
              /\ Goes(t, "created")
              /\ UNCHANGED <<elSelf, elStop, elMain, elRaced>>
           \/ /\ call = "run_coroutine"
              /\ elTask' = [elTask EXCEPT ![t].state = "running"]
              /\ UNCHANGED <<elThread, elSelf, elStop, elMain, elRaced>>
           \/ /\ call = "stop_task"
              /\ IF elTask[elThread[t].of].stopped THEN Goes(t, "returned") /\ elStop' = elStop
                 ELSE elStop' = elStop \cup {StopOf(elThread[t].of, t)} /\ elThread' = elThread
              /\ UNCHANGED <<elSelf, elTask, elMain, elRaced>>
           \/ /\ call = "stop"
              /\ IF elSelf.stopping THEN Goes(t, "joining") /\ UNCHANGED <<elSelf, elStop, elMain, elRaced>>
                 ELSE /\ elSelf' = [elSelf EXCEPT !.stopping = TRUE]
                      /\ elStop' = elStop \cup {StopOf(task, NULL) : task \in elSelf.tasks}
                      /\ elMain' = [pc |-> "stops", thread |-> t, awaits |-> {}]
                      /\ elRaced' = elRaced \cup {u \in ELThreads : At(u, "checked")} \cup ToSet(Tail(elReady))
                      /\ elThread' = elThread
              /\ elTask' = elTask
    /\ elReady' = Tail(elReady)
    /\ UNCHANGED elLoop

\* A task ends, by itself or because it was cancelled; whoever ran a coroutine gets the
\* result.
TaskEnds(t) ==
    /\ Running /\ elTask[t].state = "running"
    /\ elTask' = [elTask EXCEPT ![t].state = "ended"]
    /\ elThread' = IF elThread[t].call = "run_coroutine"
                   THEN [elThread EXCEPT ![t].pc = IF elTask[t].cancelled THEN "raised" ELSE "returned"] ELSE elThread
    /\ UNCHANGED <<elLoop, elSelf, elReady, elStop, elMain, elRaced>>

Cancel(tasks) == [t \in ELThreads |-> IF t \in tasks THEN [elTask[t] EXCEPT !.cancelled = TRUE] ELSE elTask[t]]
ELAnswered(s, pc) == IF s.by = NULL THEN elThread ELSE [elThread EXCEPT ![s.by].pc = pc]
Moves(s, u) == elStop' = (elStop \ {s}) \cup {u}

\* BackgroundTask.stop(): the finalizer is called or the task cancelled, and the task and
\* the subtasks that it has by then are awaited.
StopBegins(s) ==
    /\ Running /\ s.pc = "finalize"
    /\ IF elTask[s.task].stopped THEN elStop' = elStop \ {s} /\ elThread' = ELAnswered(s, "returned") /\ elTask' = elTask
       ELSE /\ elThread' = elThread
            /\ elTask' = IF elTask[s.task].finalizer THEN elTask ELSE Cancel({s.task})
            /\ Moves(s, [s EXCEPT !.pc = "wait", !.awaits = {s.task} \cup elTask[s.task].subtasks])
    /\ UNCHANGED <<elLoop, elSelf, elReady, elMain, elRaced>>

StopTimesOutOnly(s) ==
    /\ Running /\ s.pc = "wait" /\ \E t \in s.awaits : ~Ended(t)
    /\ Moves(s, [s EXCEPT !.pc = "late"])
    /\ UNCHANGED <<elThread, elLoop, elSelf, elReady, elTask, elMain, elRaced>>

\* wait_for() cancels what has not ended in time, and waits for that.
StopTimesOut(s) ==
    /\ Running /\ s.pc = "wait" /\ \E t \in s.awaits : ~Ended(t)
    /\ elTask' = Cancel(s.awaits)
    /\ Moves(s, [s EXCEPT !.pc = "late"])
    /\ UNCHANGED <<elThread, elLoop, elSelf, elReady, elMain, elRaced>>

StopFinishesAnyway(s) ==
    /\ Running /\ s.pc \in {"wait", "late"} /\ (s.pc = "late" \/ \A t \in s.awaits : Ended(t))
    /\ elTask' = [elTask EXCEPT ![s.task].stopped = TRUE]
    /\ elSelf' = [elSelf EXCEPT !.tasks = @ \ {s.task}]
    /\ elStop' = elStop \ {s}
    /\ elThread' = ELAnswered(s, IF s.pc = "late" THEN "raised" ELSE "returned")
    /\ UNCHANGED <<elLoop, elReady, elMain, elRaced>>

StopFinishes(s) ==
    /\ Running /\ s.pc \in {"wait", "late"} /\ \A t \in s.awaits : Ended(t)
    /\ elTask' = [elTask EXCEPT ![s.task].stopped = TRUE]
    /\ elSelf' = [elSelf EXCEPT !.tasks = @ \ {s.task}]
    /\ elStop' = elStop \ {s}
    /\ elThread' = ELAnswered(s, IF s.pc = "late" THEN "raised" ELSE "returned")
    /\ UNCHANGED <<elLoop, elReady, elMain, elRaced>>

\* _stop_internal(): when every stop() has ended, all other tasks are cancelled and
\* awaited, the coroutines of stop_threadsafe() among them; then the loop is halted.
SweepUncancelled ==
    /\ Running /\ elMain.pc = "stops" /\ \A s \in elStop : s.by # NULL
    /\ elMain' = [elMain EXCEPT !.pc = "sweep"]
    /\ UNCHANGED <<elThread, elLoop, elSelf, elReady, elTask, elStop, elRaced>>

Sweep ==
    /\ Running /\ elMain.pc = "stops" /\ \A s \in elStop : s.by # NULL
    /\ LET rest == {t \in ELThreads : elTask[t].state = "running"}
       IN  elTask' = Cancel(rest) /\ elMain' = [elMain EXCEPT !.pc = "sweep", !.awaits = rest]
    /\ LET cut == {s.by : s \in elStop}
       IN  elThread' = [t \in ELThreads |-> IF t \in cut THEN [elThread[t] EXCEPT !.pc = "raised"] ELSE elThread[t]]
    /\ elStop' = {}
    /\ UNCHANGED <<elLoop, elSelf, elReady, elRaced>>

\* Without self.loop the last line raises, and the loop runs on.
Halt ==
    /\ Running /\ elMain.pc = "sweep" /\ \A t \in elMain.awaits : Ended(t)
    /\ elMain' = [elMain EXCEPT !.pc = "done"]
    /\ elLoop' = IF elSelf.loop THEN "halting" ELSE elLoop
    /\ Goes(elMain.thread, IF elSelf.loop THEN "joining" ELSE "failed")
    /\ UNCHANGED <<elSelf, elReady, elTask, elStop, elRaced>>

\* run_forever() ends after the callbacks that were there; the loop is closed afterwards.
LoopHalts ==
    /\ elLoop = "halting" /\ elLoop' = "halted"
    /\ UNCHANGED <<elThread, elSelf, elReady, elTask, elStop, elMain, elRaced>>
LoopCloses ==
    /\ elLoop = "halted" /\ elLoop' = "closed"
    /\ UNCHANGED <<elThread, elSelf, elReady, elTask, elStop, elMain, elRaced>>

ELCallers ==
    \E t \in ELThreads :
      \/ AddTask(t) \/ RunCoroutine(t) \/ Stop(t) \/ (\E u \in ELThreads : AddSubtask(t, u) \/ StopTask(t, u))
CallsGoOn == \E t \in ELThreads : Submit(t) \/ Register(t) \/ RegisterSubtask(t) \/ StopEnds(t)
LoopGoesOn ==
    \/ Call \/ (\E t \in ELThreads : TaskEnds(t)) \/ Sweep \/ Halt \/ LoopHalts \/ LoopCloses
    \/ \E s \in elStop : StopBegins(s) \/ StopTimesOut(s) \/ StopFinishes(s)
ELNext == ELCallers \/ CallsGoOn \/ LoopGoesOn

TaskMustEnd(t) == TaskEnds(t) /\ (elTask[t].cancelled \/ elThread[t].call = "run_coroutine")
AStopBegins == \E s \in elStop : StopBegins(s)
AStopTimesOut == \E s \in elStop : StopTimesOut(s)
AStopFinishes == \E s \in elStop : StopFinishes(s)

\* Threads and the loop go on; tasks that were cancelled end, others may run forever.
ELFairness ==
    /\ \A t \in ELThreads : WF_elVars(Submit(t)) /\ WF_elVars(Register(t) \/ RegisterSubtask(t)) /\ WF_elVars(StopEnds(t))
    /\ \A t \in ELThreads : WF_elVars(TaskMustEnd(t))
    /\ WF_elVars(Call) /\ WF_elVars(Sweep) /\ WF_elVars(Halt) /\ WF_elVars(LoopHalts) /\ WF_elVars(LoopCloses)
    /\ WF_elVars(AStopBegins) /\ WF_elVars(AStopTimesOut) /\ WF_elVars(AStopFinishes)

ELSpec == ELInit /\ [][ELNext]_elVars /\ ELFairness

----------------------------------------------------------------------------

ELTypeOK ==
    /\ elLoop \in {"none", "running", "halting", "halted", "closed"}
    /\ \A t \in ELThreads : elTask[t].state \in {"none", "running", "ended"} /\ elTask[t].subtasks \subseteq ELThreads
    /\ elSelf.tasks \subseteq ELThreads

\* When the loop has halted, no task still runs, registered or not, unless the call that
\* made it had not reached the loop when that began to stop (event_loop.py:399-430).
ELNothingSurvives ==
    elLoop \in {"halted", "closed"} => \A t \in ELThreads \ elRaced : elTask[t].state # "running"

\* A task that counts as stopped has ended, also when stop() of it had given up waiting
\* (event_loop.py:167-231).
ELStoppedHasEnded == \A t \in ELThreads : elTask[t].stopped => Ended(t)

\* Every call returns or raises, unless it had looked at stopping, but not reached the loop,
\* when that began to stop, or the loop is stopped by two threads at once (event_loop.py:338-368, 513-574).
ELCallsReturn ==
    \A t \in ELThreads :
      ~At(t, "idle") ~> Over(t) \/ t \in elRaced \/ \E u \in ELThreads \ {t} : elThread[u].call = "stop" /\ elThread[t].call = "stop"

\* "This method is safe to call multiple times." (event_loop.py:344): stop() raises for no
\* thread.
ELStopIsSafe == \A t \in ELThreads : elThread[t].call = "stop" => ~At(t, "raised")

\* What is stopped has ended (BackgroundTask.stop, BackgroundEventLoop._stop_internal).
ELStoppedMeansEnded == ELTypeOK /\ ELNothingSurvives /\ ELStoppedHasEnded
============================================================================

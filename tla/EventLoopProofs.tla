--------------------------- MODULE EventLoopProofs ---------------------------
(***************************************************************************)
(* What has been stopped has ended, proved for any number of threads that  *)
(* add tasks, run coroutines and stop tasks or the whole loop at once.     *)
(***************************************************************************)
EXTENDS EventLoop, SequenceTheorems, TLAPS

CallNames == {"add_task", "add_subtask", "run_coroutine", "stop_task", "stop"}
Places == {"idle", "checked", "waiting", "created", "joining", "failed", "raised", "returned"}

ThreadRecord == [call : CallNames \cup {NULL}, of : ELThreads \cup {NULL}, pc : Places]
TaskRecord == [state : {"none", "running", "ended"}, stopped : BOOLEAN, subtasks : SUBSET ELThreads,
               finalizer : BOOLEAN, cancelled : BOOLEAN]
StopRecord == [task : ELThreads, by : ELThreads \cup {NULL}, pc : {"finalize", "wait", "late"}, awaits : SUBSET ELThreads]

\* The types that the steps need, finer than ELTypeOK.
TypesInv ==
    /\ elThread \in [ELThreads -> ThreadRecord]
    /\ \A t \in ELThreads : elThread[t].call \in {"add_subtask", "stop_task"} => elThread[t].of \in ELThreads
    /\ elLoop \in {"none", "running", "halting", "halted", "closed"}
    /\ elSelf \in [loop : BOOLEAN, stopping : BOOLEAN, tasks : SUBSET ELThreads]
    /\ elReady \in Seq(ELThreads)
    /\ elTask \in [ELThreads -> TaskRecord]
    /\ elStop \subseteq StopRecord
    /\ elMain \in [pc : {NULL, "stops", "sweep", "done"}, thread : ELThreads \cup {NULL}, awaits : SUBSET ELThreads]

\* A call is handed to the loop once, and before that it has no task.
HandedOverOnce ==
    /\ \A i, j \in DOMAIN elReady : i # j => elReady[i] # elReady[j]
    /\ \A i \in DOMAIN elReady :
         /\ elThread[elReady[i]].pc \notin {"idle", "checked"}
         /\ elTask[elReady[i]].state = "none" /\ ~elTask[elReady[i]].stopped
    /\ \A t \in ELThreads : elThread[t].pc \in {"idle", "checked"} =>
         elTask[t].state = "none" /\ ~elTask[t].stopped

\* A stop() that waits does so for its own task.
StopsAwaitTheirTask == \A s \in elStop : s.pc \in {"wait", "late"} => s.task \in s.awaits

\* From the moment that the loop begins to stop, whatever it has still to call counts
\* as raced; what else is running when the tasks are swept is awaited.
SweepMissesNone ==
    /\ elMain.pc \in {"stops", "sweep", "done"} => elSelf.stopping
    /\ elSelf.stopping => \A i \in DOMAIN elReady : elReady[i] \in elRaced
    /\ elMain.pc = "sweep" =>
         \A t \in ELThreads \ elRaced : elTask[t].state = "running" => t \in elMain.awaits
    /\ elMain.pc = "done" => \A t \in ELThreads \ elRaced : elTask[t].state # "running"
    /\ elLoop \in {"halting", "halted", "closed"} => elMain.pc = "done"

\* Inductive.
ELInv == TypesInv /\ HandedOverOnce /\ StopsAwaitTheirTask /\ SweepMissesNone /\ ELStoppedHasEnded
-----------------------------------------------------------------------------
(* What most steps do: calls go on, tasks end, and the loop's callbacks    *)
(* stay what they are.                                                     *)

ThreadsGoOn ==
    /\ elThread' \in [ELThreads -> ThreadRecord]
    /\ \A t \in ELThreads : elThread'[t].call \in {"add_subtask", "stop_task"} => elThread'[t].of \in ELThreads
    /\ \A t \in ELThreads : elThread'[t].pc \in {"idle", "checked"} => elThread[t].pc \in {"idle", "checked"}

TasksGoOn ==
    /\ elTask' \in [ELThreads -> TaskRecord]
    /\ \A t \in ELThreads :
         /\ elTask'[t].state = elTask[t].state \/ (elTask[t].state = "running" /\ elTask'[t].state = "ended")
         /\ elTask'[t].stopped => elTask[t].stopped \/ elTask[t].state = "ended"

StopsGoOn == (elStop \subseteq StopRecord)' /\ StopsAwaitTheirTask'

SelfGoesOn ==
    /\ elSelf' \in [loop : BOOLEAN, stopping : BOOLEAN, tasks : SUBSET ELThreads]
    /\ elSelf'.stopping = elSelf.stopping

LEMMA GoesIsStep ==
  ASSUME TypesInv, NEW t \in ELThreads, NEW pc \in Places \ {"idle", "checked"}, Goes(t, pc)
  PROVE  ThreadsGoOn
<1>1. elThread' = [elThread EXCEPT ![t] = [elThread[t] EXCEPT !.pc = pc]]
  BY DEF Goes
<1>2. [elThread[t] EXCEPT !.pc = pc] \in ThreadRecord
  BY DEF TypesInv, ThreadRecord
<1>3. elThread' \in [ELThreads -> ThreadRecord]
  BY <1>1, <1>2 DEF TypesInv
<1>4. \A u \in ELThreads :
        /\ elThread'[u].call = elThread[u].call /\ elThread'[u].of = elThread[u].of
        /\ elThread'[u].pc = IF u = t THEN pc ELSE elThread[u].pc
  BY <1>1 DEF TypesInv, ThreadRecord
<1> QED
  BY <1>3, <1>4 DEF ThreadsGoOn, TypesInv

LEMMA SameThreads == ASSUME TypesInv, UNCHANGED elThread PROVE ThreadsGoOn
  BY DEF ThreadsGoOn, TypesInv

LEMMA SameTasks == ASSUME TypesInv, UNCHANGED elTask PROVE TasksGoOn
  BY DEF TasksGoOn, TypesInv

LEMMA SameStops == ASSUME TypesInv, StopsAwaitTheirTask, UNCHANGED elStop PROVE StopsGoOn
  BY DEF StopsGoOn, TypesInv, StopsAwaitTheirTask

LEMMA SameSelf == ASSUME TypesInv, UNCHANGED elSelf PROVE SelfGoesOn
  BY DEF SelfGoesOn, TypesInv

\* cancel() changes no task's state.
LEMMA CancelIsStep ==
  ASSUME TypesInv, NEW tasks \in SUBSET ELThreads, elTask' = Cancel(tasks)
  PROVE  TasksGoOn
<1>1. \A r \in TaskRecord : [r EXCEPT !.cancelled = TRUE] \in TaskRecord
  BY DEF TaskRecord
<1>2. elTask' \in [ELThreads -> TaskRecord]
  BY <1>1 DEF Cancel, TypesInv
<1>3. \A t \in ELThreads : elTask'[t].state = elTask[t].state /\ elTask'[t].stopped = elTask[t].stopped
  BY DEF Cancel, TypesInv, TaskRecord
<1> QED
  BY <1>2, <1>3 DEF TasksGoOn

\* A stop() that is over answers the thread that has called it, if any.
LEMMA AnsweredIsStep ==
  ASSUME TypesInv, NEW s \in elStop, NEW pc \in {"returned", "raised"}, elThread' = ELAnswered(s, pc)
  PROVE  ThreadsGoOn
<1>1. CASE s.by = NULL
  BY <1>1, SameThreads DEF ELAnswered
<1>2. CASE s.by # NULL
  <2>1. s.by \in ELThreads
    BY <1>2 DEF TypesInv, StopRecord
  <2> QED
    BY <1>2, <2>1, GoesIsStep DEF ELAnswered, Goes, Places
<1> QED
  BY <1>1, <1>2

LEMMA GoOn ==
  ASSUME ELInv, ThreadsGoOn, TasksGoOn, StopsGoOn, SelfGoesOn, UNCHANGED <<elReady, elLoop, elMain, elRaced>>
  PROVE  ELInv'
<1>1. TypesInv'
  BY DEF ELInv, TypesInv, ThreadsGoOn, TasksGoOn, StopsGoOn, SelfGoesOn
<1>2. HandedOverOnce'
  <2>1. \A t \in ELThreads :
          /\ elThread'[t].pc \in {"idle", "checked"} => elThread[t].pc \in {"idle", "checked"}
          /\ elTask[t].state = "none" /\ ~elTask[t].stopped => elTask'[t].state = "none" /\ ~elTask'[t].stopped
    BY DEF ThreadsGoOn, TasksGoOn
  <2>2. \A i \in DOMAIN elReady : elReady[i] \in ELThreads
    BY DEF ELInv, TypesInv
  <2> QED
    BY <2>1, <2>2 DEF ELInv, HandedOverOnce
<1>3. StopsAwaitTheirTask'
  BY DEF StopsGoOn
<1>4. SweepMissesNone'
  <2>1. \A t \in ELThreads : elTask'[t].state = "running" => elTask[t].state = "running"
    BY DEF TasksGoOn
  <2> QED
    BY <2>1 DEF ELInv, SweepMissesNone, SelfGoesOn
<1>5. ELStoppedHasEnded'
  BY DEF ELInv, ELStoppedHasEnded, Ended, TasksGoOn
<1> QED
  BY <1>1, <1>2, <1>3, <1>4, <1>5 DEF ELInv

-----------------------------------------------------------------------------
(* The callers. *)

LEMMA BeginsKeeps ==
  ASSUME ELInv, NEW t \in ELThreads, NEW call \in CallNames, NEW of \in ELThreads \cup {NULL}, NEW pc \in Places,
         call \in {"add_subtask", "stop_task"} => of \in ELThreads,
         Begins(t, call, of, pc)
  PROVE  ELInv'
<1>1. elThread' = [elThread EXCEPT ![t] = [call |-> call, of |-> of, pc |-> pc]]
  BY DEF Begins
<1>2. ThreadsGoOn
  BY <1>1 DEF ThreadsGoOn, ELInv, TypesInv, ThreadRecord, Begins, At
<1> QED
  BY <1>2, GoOn, SameTasks, SameStops, SameSelf DEF Begins, ELInv

LEMMA CallersKeep == ASSUME ELInv, ELCallers PROVE ELInv'
<1>1. ELChecked \in Places /\ {"returned", "failed", "checked"} \subseteq Places /\ NULL \in ELThreads \cup {NULL}
  BY DEF ELChecked, Places
<1>2. ASSUME NEW t \in ELThreads, AddTask(t) \/ RunCoroutine(t) \/ Stop(t)
      PROVE  ELInv'
  <2>1. PICK call \in CallNames \ {"add_subtask", "stop_task"}, pc \in Places : Begins(t, call, NULL, pc)
    BY <1>1, <1>2 DEF AddTask, RunCoroutine, Stop, CallNames
  <2> QED
    BY <2>1, BeginsKeeps
<1>3. ASSUME NEW t \in ELThreads, NEW u \in ELThreads, AddSubtask(t, u) \/ StopTask(t, u)
      PROVE  ELInv'
  <2>1. PICK call \in CallNames, pc \in Places : Begins(t, call, u, pc)
    BY <1>1, <1>3 DEF AddSubtask, StopTask, CallNames
  <2> QED
    BY <2>1, BeginsKeeps
<1> QED
  BY <1>2, <1>3 DEF ELCallers

LEMMA RegisterKeeps ==
  ASSUME ELInv, NEW t \in ELThreads, Register(t) \/ RegisterSubtask(t) \/ StopEnds(t)
  PROVE  ELInv'
<1> USE DEF ELInv
<1>1. PICK pc \in {"returned", "raised"} : Goes(t, pc)
  BY DEF Register, RegisterSubtask, StopEnds
<1>2. ThreadsGoOn
  BY <1>1, GoesIsStep DEF Places
<1>3. CASE Register(t)
  <2>1. SelfGoesOn
    BY <1>3 DEF Register, SelfGoesOn, TypesInv
  <2> QED
    BY <1>2, <1>3, <2>1, GoOn, SameTasks, SameStops DEF Register
<1>4. CASE RegisterSubtask(t)
  <2>1. TasksGoOn
    <3>1. CASE elTask' = elTask
      BY <3>1, SameTasks
    <3>2. CASE elTask' = [elTask EXCEPT ![elThread[t].of].subtasks = @ \cup {t}]
      <4>1. elThread[t].of \in ELThreads
        BY <1>4 DEF RegisterSubtask, TypesInv
      <4>2. \A r \in TaskRecord : /\ [r EXCEPT !.subtasks = @ \cup {t}] \in TaskRecord
                                  /\ [r EXCEPT !.subtasks = @ \cup {t}].state = r.state
                                  /\ [r EXCEPT !.subtasks = @ \cup {t}].stopped = r.stopped
        BY DEF TaskRecord
      <4>3. \A r \in TaskRecord : r.subtasks \cup {t} \in SUBSET ELThreads
        BY DEF TaskRecord
      <4> QED
        BY <3>2, <4>1, <4>2 DEF TasksGoOn, TypesInv
    <3> QED
      BY <1>4, <3>1, <3>2 DEF RegisterSubtask
  <2> QED
    BY <1>2, <1>4, <2>1, GoOn, SameSelf, SameStops DEF RegisterSubtask
<1>5. CASE StopEnds(t)
  <2>1. SelfGoesOn
    BY <1>5 DEF StopEnds, SelfGoesOn, TypesInv
  <2> QED
    BY <1>2, <1>5, <2>1, GoOn, SameTasks, SameStops DEF StopEnds
<1> QED
  BY <1>3, <1>4, <1>5

-----------------------------------------------------------------------------
(* The loop's thread: tasks end and are stopped. *)

LEMMA TaskEndsKeeps ==
  ASSUME ELInv, NEW t \in ELThreads, TaskEnds(t)
  PROVE  ELInv'
<1> USE DEF ELInv
<1>1. TasksGoOn
  <2>1. \A r \in TaskRecord : [r EXCEPT !.state = "ended"] \in TaskRecord
    BY DEF TaskRecord
  <2>2. \A u \in ELThreads : elTask'[u] = IF u = t THEN [elTask[t] EXCEPT !.state = "ended"] ELSE elTask[u]
    BY DEF TaskEnds, TypesInv
  <2>3. elTask' \in [ELThreads -> TaskRecord]
    BY <2>1 DEF TaskEnds, TypesInv
  <2>4. \A u \in ELThreads : elTask[u] \in TaskRecord
    BY DEF TypesInv
  <2> QED
    BY <2>2, <2>3, <2>4 DEF TasksGoOn, TaskRecord, TaskEnds
<1>2. ThreadsGoOn
  <2>1. CASE UNCHANGED elThread
    BY <2>1, SameThreads
  <2>2. CASE \E pc \in {"raised", "returned"} : Goes(t, pc)
    BY <2>2, GoesIsStep DEF Places
  <2> QED
    BY <2>1, <2>2 DEF TaskEnds, Goes
<1> QED
  BY <1>1, <1>2, GoOn, SameSelf, SameStops DEF TaskEnds

LEMMA StopBeginsKeeps ==
  ASSUME ELInv, NEW s \in elStop, StopBegins(s)
  PROVE  ELInv'
<1> USE DEF ELInv
<1>1. s \in StopRecord /\ s.task \in ELThreads
  BY DEF TypesInv, StopRecord
<1>2. CASE elTask[s.task].stopped
  <2>1. StopsGoOn
    BY <1>2 DEF StopBegins, StopsGoOn, TypesInv, StopsAwaitTheirTask
  <2>2. ThreadsGoOn
    BY <1>2, AnsweredIsStep DEF StopBegins
  <2> QED
    BY <1>2, <2>1, <2>2, GoOn, SameSelf, SameTasks DEF StopBegins
<1>3. CASE ~elTask[s.task].stopped
  <2> DEFINE new == [s EXCEPT !.pc = "wait", !.awaits = {s.task} \cup elTask[s.task].subtasks]
  <2>1. elTask[s.task].subtasks \subseteq ELThreads
    BY <1>1 DEF TypesInv, TaskRecord
  <2>2. new \in StopRecord /\ s.task \in new.awaits /\ new.task = s.task
    BY <1>1, <2>1 DEF StopRecord
  <2>3. elStop' = (elStop \ {s}) \cup {new}
    BY <1>3 DEF StopBegins, Moves
  <2> HIDE DEF new
  <2>4. StopsGoOn
    BY <2>2, <2>3 DEF StopsGoOn, TypesInv, StopsAwaitTheirTask
  <2>5. TasksGoOn
    BY <1>1, <1>3, CancelIsStep, SameTasks DEF StopBegins
  <2> QED
    BY <1>3, <2>4, <2>5, GoOn, SameSelf, SameThreads DEF StopBegins
<1> QED
  BY <1>2, <1>3

LEMMA StopTimesOutKeeps ==
  ASSUME ELInv, NEW s \in elStop, StopTimesOut(s)
  PROVE  ELInv'
<1> USE DEF ELInv
<1> DEFINE new == [s EXCEPT !.pc = "late"]
<1>1. s \in StopRecord /\ s.task \in s.awaits /\ s.awaits \subseteq ELThreads
  BY DEF TypesInv, StopRecord, StopsAwaitTheirTask, StopTimesOut
<1>2. new \in StopRecord /\ new.task = s.task /\ new.awaits = s.awaits
  BY <1>1 DEF StopRecord
<1>3. elStop' = (elStop \ {s}) \cup {new}
  BY DEF StopTimesOut, Moves
<1> HIDE DEF new
<1>4. StopsGoOn
  BY <1>1, <1>2, <1>3 DEF StopsGoOn, TypesInv, StopsAwaitTheirTask
<1>5. TasksGoOn
  BY <1>1, CancelIsStep DEF StopTimesOut
<1> QED
  BY <1>4, <1>5, GoOn, SameSelf, SameThreads DEF StopTimesOut

\* The one step that calls a task stopped: the task is among those that were awaited.
LEMMA StopFinishesKeeps ==
  ASSUME ELInv, NEW s \in elStop, StopFinishes(s)
  PROVE  ELInv'
<1> USE DEF ELInv
<1>1. s.task \in ELThreads /\ elTask[s.task].state = "ended"
  BY DEF TypesInv, StopRecord, StopsAwaitTheirTask, StopFinishes, Ended
<1>2. TasksGoOn
  <2>1. \A r \in TaskRecord : [r EXCEPT !.stopped = TRUE] \in TaskRecord /\ [r EXCEPT !.stopped = TRUE].state = r.state
    BY DEF TaskRecord
  <2>2. \A t \in ELThreads : elTask'[t] = IF t = s.task THEN [elTask[t] EXCEPT !.stopped = TRUE] ELSE elTask[t]
    BY DEF StopFinishes, TypesInv
  <2>3. elTask' \in [ELThreads -> TaskRecord]
    BY <2>1 DEF StopFinishes, TypesInv
  <2>4. \A t \in ELThreads : elTask[t] \in TaskRecord
    BY DEF TypesInv
  <2> QED
    BY <1>1, <2>1, <2>2, <2>3, <2>4 DEF TasksGoOn
<1>3. ThreadsGoOn
  <2>1. (IF s.pc = "late" THEN "raised" ELSE "returned") \in {"returned", "raised"}
    OBVIOUS
  <2>2. PICK pc \in {"returned", "raised"} : elThread' = ELAnswered(s, pc)
    BY <2>1 DEF StopFinishes
  <2> QED
    BY <2>2, AnsweredIsStep
<1>4. StopsGoOn
  BY DEF StopFinishes, StopsGoOn, TypesInv, StopsAwaitTheirTask
<1>5. SelfGoesOn
  BY DEF StopFinishes, SelfGoesOn, TypesInv
<1> QED
  BY <1>2, <1>3, <1>4, <1>5, GoOn DEF StopFinishes

-----------------------------------------------------------------------------
(* Calls are handed over to the loop, which makes their tasks. *)

\* A call is refused or joins the callbacks, for the first time; if the loop is
\* already stopping it counts as raced.
LEMMA SubmitKeeps ==
  ASSUME ELInv, NEW t \in ELThreads, Submit(t)
  PROVE  ELInv'
<1> USE DEF ELInv
<1>1. PICK pc \in {"failed", "raised", "waiting"} : Goes(t, pc)
  BY DEF Submit
<1>2. ThreadsGoOn
  BY <1>1, GoesIsStep DEF Places
<1>3. SelfGoesOn
  <2>1. [elSelf EXCEPT !.loop = TRUE] \in [loop : BOOLEAN, stopping : BOOLEAN, tasks : SUBSET ELThreads]
    BY DEF TypesInv
  <2> QED
    BY <2>1 DEF Submit, SelfGoesOn, TypesInv
<1>4. elLoop' = elLoop \/ (elLoop' = "running" /\ ~elSelf.loop /\ ~elSelf.stopping)
  BY DEF Submit, Start
<1>5. TasksGoOn /\ StopsGoOn /\ UNCHANGED <<elTask, elStop, elMain>>
  BY SameTasks, SameStops DEF Submit
<1>6. elTask[t].state = "none" /\ ~elTask[t].stopped /\ elThread[t].pc = "checked"
  BY DEF HandedOverOnce, Submit, At
<1>7. \/ elReady' = elReady /\ elRaced' = elRaced
      \/ /\ elReady' = Append(elReady, t) /\ pc = "waiting"
         /\ elRaced' = IF elSelf.stopping THEN elRaced \cup {t} ELSE elRaced
  <2>1. elThread'[t].pc = pc
    BY <1>1 DEF Goes, TypesInv, ThreadRecord
  <2>2. Goes(t, "waiting") => elThread'[t].pc = "waiting"
    BY DEF Goes, TypesInv, ThreadRecord
  <2> QED
    BY <2>1, <2>2 DEF Submit
<1>8. TypesInv'
  BY <1>2, <1>3, <1>4, <1>5, <1>7 DEF TypesInv, ThreadsGoOn, TasksGoOn, StopsGoOn, SelfGoesOn
<1>9. /\ elReady \in Seq(ELThreads)
      /\ \A u \in ELThreads : elThread'[u].pc \in {"idle", "checked"} => elThread[u].pc \in {"idle", "checked"} /\ u # t
  <2>1. elThread'[t].pc = pc
    BY <1>1 DEF Goes, TypesInv, ThreadRecord
  <2> QED
    BY <2>1, <1>2 DEF ThreadsGoOn, TypesInv
<1>10. HandedOverOnce'
  <2>1. CASE elReady' = elReady
    BY <2>1, <1>5, <1>9 DEF HandedOverOnce
  <2>2. CASE elReady' = Append(elReady, t)
    <3>1. \A i \in DOMAIN elReady' :
            \/ i \in DOMAIN elReady /\ elReady'[i] = elReady[i]
            \/ i = Len(elReady) + 1 /\ elReady'[i] = t
      BY <2>2, <1>9
    <3>2. \A i \in DOMAIN elReady : elReady[i] \in ELThreads /\ elReady[i] # t /\ i # Len(elReady) + 1
      BY <1>6, <1>9 DEF HandedOverOnce
    <3> QED
      BY <3>1, <3>2, <1>5, <1>6, <1>9 DEF HandedOverOnce
  <2> QED
    BY <2>1, <2>2, <1>7
<1>11. SweepMissesNone'
  <2>1. elSelf'.stopping = elSelf.stopping
    BY <1>3 DEF SelfGoesOn
  <2>2. elSelf.stopping => \A i \in DOMAIN elReady' : elReady'[i] \in elRaced'
    <3>1. CASE elReady' = elReady /\ elRaced' = elRaced
      BY <3>1 DEF SweepMissesNone
    <3>2. CASE elReady' = Append(elReady, t) /\ elRaced' = IF elSelf.stopping THEN elRaced \cup {t} ELSE elRaced
      <4>1. \A i \in DOMAIN elReady' : \/ i \in DOMAIN elReady /\ elReady'[i] = elReady[i]
                                       \/ elReady'[i] = t
        BY <3>2, <1>9
      <4> QED
        BY <4>1, <3>2 DEF SweepMissesNone
    <3> QED
      BY <3>1, <3>2, <1>7
  <2>3. elRaced \subseteq elRaced'
    BY <1>7
  <2> QED
    BY <2>1, <2>2, <2>3, <1>4, <1>5 DEF SweepMissesNone
<1>12. StopsAwaitTheirTask' /\ ELStoppedHasEnded'
  BY <1>5 DEF StopsGoOn, ELStoppedHasEnded, Ended
<1> QED
  BY <1>8, <1>10, <1>11, <1>12

\* What popping the first callback leaves of the others.
LEMMA TailOfReady ==
  ASSUME ELInv, elReady # <<>>, elReady' = Tail(elReady)
  PROVE  /\ Head(elReady) \in ELThreads
         /\ elReady' \in Seq(ELThreads)
         /\ \A i \in DOMAIN elReady' : /\ i + 1 \in DOMAIN elReady /\ elReady'[i] = elReady[i + 1]
                                       /\ elReady'[i] # Head(elReady)
         /\ \A i, j \in DOMAIN elReady' : i # j => elReady'[i] # elReady'[j]
         /\ elTask[Head(elReady)].state = "none" /\ ~elTask[Head(elReady)].stopped
         /\ elThread[Head(elReady)].pc \notin {"idle", "checked"}
<1>1. elReady \in Seq(ELThreads) /\ 1 \in DOMAIN elReady /\ Head(elReady) = elReady[1]
  BY DEF ELInv, TypesInv
<1>2. \A i \in DOMAIN elReady' : i + 1 \in DOMAIN elReady /\ i + 1 # 1 /\ elReady'[i] = elReady[i + 1]
  BY <1>1
<1>3. \A i, j \in DOMAIN elReady' : i # j => i + 1 # j + 1
  BY <1>1
<1>4. \A i, j \in DOMAIN elReady : i # j => elReady[i] # elReady[j]
  BY DEF ELInv, HandedOverOnce
<1> QED
  BY <1>1, <1>2, <1>3, <1>4 DEF ELInv, HandedOverOnce

\* The loop calls a callback, for once: a task is created, or somebody is stopped.
LEMMA CallKeeps == ASSUME ELInv, Call PROVE ELInv'
<1> DEFINE t == Head(elReady)
           call == elThread[t].call
<1>1. /\ t \in ELThreads /\ elReady' = Tail(elReady) /\ elReady' \in Seq(ELThreads) /\ elLoop' = elLoop
      /\ \A i \in DOMAIN elReady' : /\ i + 1 \in DOMAIN elReady /\ elReady'[i] = elReady[i + 1]
                                    /\ elReady'[i] # t /\ elReady'[i] \in ELThreads
      /\ \A i, j \in DOMAIN elReady' : i # j => elReady'[i] # elReady'[j]
      /\ elTask[t].state = "none" /\ ~elTask[t].stopped
      /\ elThread[t].pc \notin {"idle", "checked"}
  <2>1. elReady # <<>> /\ elReady' = Tail(elReady) /\ elLoop' = elLoop
    BY DEF Call
  <2>2. elReady' \in Seq(ELThreads)
    BY <2>1, TailOfReady
  <2>3. \A i \in DOMAIN elReady' : elReady'[i] \in ELThreads
    BY <2>2
  <2> QED
    BY <2>1, <2>2, <2>3, TailOfReady
<1>2. 1 \in DOMAIN elReady /\ t = elReady[1]
  <2>1. elReady \in Seq(ELThreads) /\ elReady # <<>>
    BY DEF Call, ELInv, TypesInv
  <2> QED
    BY <2>1
<1> HIDE DEF t
\* Where the state of no task but t's changes and stop() is not called, the rest follows.
<1>3. ASSUME ThreadsGoOn, StopsGoOn, UNCHANGED <<elSelf, elMain, elRaced>>,
             elTask' \in [ELThreads -> TaskRecord],
             \A u \in ELThreads : u # t => elTask'[u] = elTask[u],
             ~elTask'[t].stopped
      PROVE  ELInv'
  <2>1. TypesInv'
    BY <1>1, <1>3 DEF ELInv, TypesInv, ThreadsGoOn, StopsGoOn
  <2>2. HandedOverOnce'
    <3>1. \A u \in ELThreads : elThread'[u].pc \in {"idle", "checked"} => elThread[u].pc \in {"idle", "checked"} /\ u # t
      BY <1>1, <1>3 DEF ThreadsGoOn
    <3>2. \A i \in DOMAIN elReady' : /\ elThread'[elReady'[i]].pc \notin {"idle", "checked"}
                                     /\ elTask'[elReady'[i]].state = "none" /\ ~elTask'[elReady'[i]].stopped
      <4>1. \A i \in DOMAIN elReady : /\ elThread[elReady[i]].pc \notin {"idle", "checked"}
                                      /\ elTask[elReady[i]].state = "none" /\ ~elTask[elReady[i]].stopped
        BY DEF ELInv, HandedOverOnce
      <4> QED
        BY <1>1, <1>3, <3>1, <4>1
    <3> QED
      BY <1>1, <1>3, <3>1, <3>2 DEF ELInv, HandedOverOnce
  <2>3. StopsAwaitTheirTask'
    BY <1>3 DEF StopsGoOn
  <2>4. SweepMissesNone'
    <3>1. elSelf.stopping => t \in elRaced /\ \A i \in DOMAIN elReady' : elReady'[i] \in elRaced
      BY <1>1, <1>2 DEF ELInv, SweepMissesNone
    <3>2. elMain.pc \in {"stops", "sweep", "done"} => elSelf.stopping
      BY DEF ELInv, SweepMissesNone
    <3> QED
      BY <1>1, <1>3, <3>1, <3>2 DEF ELInv, SweepMissesNone
  <2>5. ELStoppedHasEnded'
    BY <1>3 DEF ELInv, ELStoppedHasEnded, Ended
  <2> QED
    BY <2>1, <2>2, <2>3, <2>4, <2>5 DEF ELInv
<1>4. ASSUME NEW finalizer \in BOOLEAN, call \in {"add_task", "add_subtask"},
             elTask' = [elTask EXCEPT ![t] = [NoTask EXCEPT !.state = "running", !.finalizer = finalizer]],
             Goes(t, "created"), UNCHANGED <<elSelf, elStop, elMain, elRaced>>
      PROVE  ELInv'
  <2>1. ThreadsGoOn /\ StopsGoOn
    BY <1>1, <1>4, GoesIsStep, SameStops DEF ELInv, Places
  <2>2. [NoTask EXCEPT !.state = "running", !.finalizer = finalizer] \in TaskRecord
    BY DEF NoTask, TaskRecord
  <2>3. ~[NoTask EXCEPT !.state = "running", !.finalizer = finalizer].stopped
    BY DEF NoTask
  <2> QED
    BY <1>1, <1>3, <1>4, <2>1, <2>2, <2>3 DEF ELInv, TypesInv
<1>5. ASSUME elTask' = [elTask EXCEPT ![t].state = "running"],
             UNCHANGED <<elThread, elSelf, elStop, elMain, elRaced>>
      PROVE  ELInv'
  <2>1. ThreadsGoOn /\ StopsGoOn
    BY <1>5, SameThreads, SameStops DEF ELInv
  <2>2. \A r \in TaskRecord : [r EXCEPT !.state = "running"] \in TaskRecord /\ [r EXCEPT !.state = "running"].stopped = r.stopped
    BY DEF TaskRecord
  <2>3. elTask' = [elTask EXCEPT ![t] = [elTask[t] EXCEPT !.state = "running"]]
    BY <1>5
  <2> QED
    BY <1>1, <1>3, <1>5, <2>1, <2>2, <2>3 DEF ELInv, TypesInv
<1>6. ASSUME call = "stop_task", UNCHANGED <<elSelf, elTask, elMain, elRaced>>,
             IF elTask[elThread[t].of].stopped THEN Goes(t, "returned") /\ elStop' = elStop
             ELSE elStop' = elStop \cup {StopOf(elThread[t].of, t)} /\ elThread' = elThread
      PROVE  ELInv'
  <2>1. StopOf(elThread[t].of, t) \in StopRecord /\ StopOf(elThread[t].of, t).pc = "finalize"
    BY <1>1, <1>6 DEF StopOf, StopRecord, ELInv, TypesInv
  <2>2. StopsGoOn
    BY <1>6, <2>1 DEF StopsGoOn, ELInv, TypesInv, StopsAwaitTheirTask
  <2>3. ThreadsGoOn
    BY <1>1, <1>6, GoesIsStep, SameThreads DEF ELInv, Places
  <2> QED
    BY <1>1, <1>3, <1>6, <2>2, <2>3 DEF ELInv, TypesInv
<1>7. ASSUME elSelf.stopping, Goes(t, "joining"), UNCHANGED <<elSelf, elStop, elTask, elMain, elRaced>>
      PROVE  ELInv'
  <2>1. ThreadsGoOn /\ StopsGoOn
    BY <1>1, <1>7, GoesIsStep, SameStops DEF ELInv, Places
  <2> QED
    BY <1>1, <1>3, <1>7, <2>1 DEF ELInv, TypesInv
\* _stop_internal(): what the loop has still to call counts as raced from now on.
<1>8. ASSUME ~elSelf.stopping,
             elSelf' = [elSelf EXCEPT !.stopping = TRUE],
             elStop' = elStop \cup {StopOf(task, NULL) : task \in elSelf.tasks},
             elMain' = [pc |-> "stops", thread |-> t, awaits |-> {}],
             elRaced' = elRaced \cup {u \in ELThreads : At(u, "checked")} \cup ToSet(Tail(elReady)),
             UNCHANGED <<elThread, elTask>>
      PROVE  ELInv'
  <2>1. \A task \in elSelf.tasks : StopOf(task, NULL) \in StopRecord /\ StopOf(task, NULL).pc = "finalize"
    BY DEF StopOf, StopRecord, ELInv, TypesInv
  <2>2. StopsGoOn
    BY <1>8, <2>1 DEF StopsGoOn, ELInv, TypesInv, StopsAwaitTheirTask
  <2>3. TypesInv'
    BY <1>1, <1>8, <2>2 DEF ELInv, TypesInv, StopsGoOn
  <2>4. HandedOverOnce'
    BY <1>1, <1>8 DEF ELInv, HandedOverOnce
  <2>5. SweepMissesNone'
    <3>1. \A i \in DOMAIN elReady' : elReady'[i] \in elRaced'
      BY <1>1, <1>8 DEF ToSet
    <3>2. elMain.pc \notin {"stops", "sweep", "done"}
      BY <1>8 DEF ELInv, SweepMissesNone
    <3>3. elMain'.pc = "stops" /\ elSelf'.stopping
      BY <1>8 DEF ELInv, TypesInv
    <3> QED
      BY <1>1, <3>1, <3>2, <3>3 DEF ELInv, SweepMissesNone
  <2> QED
    BY <1>8, <2>2, <2>3, <2>4, <2>5 DEF ELInv, StopsGoOn, ELStoppedHasEnded, Ended
<1> QED
  BY <1>4, <1>5, <1>6, <1>7, <1>8, <1>1 DEF Call, t

-----------------------------------------------------------------------------
(* The loop stops. *)

\* All that is running is awaited from here on.
LEMMA SweepKeeps == ASSUME ELInv, Sweep PROVE ELInv'
<1> DEFINE rest == {t \in ELThreads : elTask[t].state = "running"}
<1>1. /\ elTask' = Cancel(rest)
      /\ elMain' = [elMain EXCEPT !.pc = "sweep", !.awaits = rest]
      /\ elStop' = {} /\ UNCHANGED <<elLoop, elSelf, elReady, elRaced>>
      /\ elMain.pc = "stops"
  BY DEF Sweep
<1>2. TasksGoOn
  BY <1>1, CancelIsStep DEF ELInv
<1>3. \A r \in ThreadRecord : [r EXCEPT !.pc = "raised"] \in ThreadRecord
  BY DEF ThreadRecord, Places
<1>4. \A t \in ELThreads : elThread'[t] \in {elThread[t], [elThread[t] EXCEPT !.pc = "raised"]}
  BY DEF Sweep
<1>5. elThread' \in [ELThreads -> ThreadRecord]
  <2>1. DOMAIN elThread' = ELThreads /\ elThread' = [t \in ELThreads |-> elThread'[t]]
    BY DEF Sweep
  <2>2. \A t \in ELThreads : elThread'[t] \in ThreadRecord
    BY <1>3, <1>4 DEF ELInv, TypesInv
  <2> QED
    BY <2>1, <2>2
<1>6. ThreadsGoOn
  <2>1. \A r \in ThreadRecord :
          LET u == [r EXCEPT !.pc = "raised"] IN u.call = r.call /\ u.of = r.of /\ u.pc = "raised"
    BY DEF ThreadRecord
  <2>2. \A t \in ELThreads : elThread[t] \in ThreadRecord
    BY DEF ELInv, TypesInv
  <2>3. \A t \in ELThreads :
          /\ elThread'[t].call = elThread[t].call /\ elThread'[t].of = elThread[t].of
          /\ elThread'[t].pc \in {elThread[t].pc, "raised"}
    BY <1>4, <2>1, <2>2
  <2> QED
    BY <1>5, <2>3 DEF ThreadsGoOn, ELInv, TypesInv
<1>7. TypesInv'
  BY <1>1, <1>2, <1>6 DEF ELInv, TypesInv, TasksGoOn, ThreadsGoOn
<1>8. HandedOverOnce'
  <2>1. \A i \in DOMAIN elReady : elReady[i] \in ELThreads
    BY DEF ELInv, TypesInv
  <2> QED
    BY <1>1, <1>2, <1>6, <2>1 DEF ELInv, HandedOverOnce, TasksGoOn, ThreadsGoOn
<1>9. SweepMissesNone'
  <2>1. elMain'.pc = "sweep" /\ elMain'.awaits = rest
    BY <1>1 DEF ELInv, TypesInv
  <2>2. \A t \in ELThreads : elTask'[t].state = "running" => t \in rest
    BY <1>2 DEF TasksGoOn
  <2> HIDE DEF rest
  <2> QED
    BY <1>1, <2>1, <2>2 DEF ELInv, SweepMissesNone
<1>10. StopsAwaitTheirTask' /\ ELStoppedHasEnded'
  BY <1>1, <1>2 DEF StopsAwaitTheirTask, ELInv, ELStoppedHasEnded, Ended, TasksGoOn
<1> QED
  BY <1>7, <1>8, <1>9, <1>10 DEF ELInv

\* What the sweep has awaited has ended, so that nothing runs when the loop is halted.
LEMMA HaltKeeps == ASSUME ELInv, Halt PROVE ELInv'
<1>1. elMain.thread \in ELThreads \/ UNCHANGED elThread
  BY DEF Halt, Goes, ELInv, TypesInv
<1>2. ThreadsGoOn
  <2>1. CASE elMain.thread \in ELThreads
    <3>1. PICK pc \in {"joining", "failed"} : Goes(elMain.thread, pc)
      BY DEF Halt
    <3> QED
      BY <2>1, <3>1, GoesIsStep DEF ELInv, Places
  <2>2. CASE UNCHANGED elThread
    BY <2>2, SameThreads DEF ELInv
  <2> QED
    BY <1>1, <2>1, <2>2
<1>3. /\ elMain' = [elMain EXCEPT !.pc = "done"] /\ elMain.pc = "sweep"
      /\ \A t \in elMain.awaits : elTask[t].state = "ended"
      /\ elLoop' \in {elLoop, "halting"}
      /\ UNCHANGED <<elSelf, elReady, elTask, elStop, elRaced>>
  BY DEF Halt, Ended
<1>4. elMain' \in [pc : {NULL, "stops", "sweep", "done"}, thread : ELThreads \cup {NULL}, awaits : SUBSET ELThreads]
      /\ elMain'.pc = "done"
  BY <1>3 DEF ELInv, TypesInv
<1>5. TypesInv'
  BY <1>2, <1>3, <1>4 DEF ELInv, TypesInv, ThreadsGoOn
<1>6. HandedOverOnce'
  <2>1. \A i \in DOMAIN elReady : elReady[i] \in ELThreads
    BY DEF ELInv, TypesInv
  <2> QED
    BY <1>2, <1>3, <2>1 DEF ELInv, HandedOverOnce, ThreadsGoOn
<1>7. SweepMissesNone'
  BY <1>3, <1>4 DEF ELInv, SweepMissesNone
<1>8. StopsAwaitTheirTask' /\ ELStoppedHasEnded'
  BY <1>3 DEF ELInv, StopsAwaitTheirTask, ELStoppedHasEnded, Ended
<1> QED
  BY <1>5, <1>6, <1>7, <1>8 DEF ELInv

LEMMA LoopEndsKeeps == ASSUME ELInv, LoopHalts \/ LoopCloses PROVE ELInv'
<1>1. /\ elLoop \in {"halting", "halted"} /\ elLoop' \in {"halted", "closed"}
      /\ UNCHANGED <<elThread, elSelf, elReady, elTask, elStop, elMain, elRaced>>
  BY DEF LoopHalts, LoopCloses
<1> QED
  BY <1>1 DEF ELInv, TypesInv, HandedOverOnce, StopsAwaitTheirTask, SweepMissesNone, ELStoppedHasEnded, Ended

-----------------------------------------------------------------------------

LEMMA ELInitInv == ELInit => ELInv
<1> SUFFICES ASSUME ELInit PROVE ELInv
  OBVIOUS
<1>1. TypesInv
  BY EventLoopAssumption DEF ELInit, TypesInv, ThreadRecord, TaskRecord, NoTask, Places
<1>2. HandedOverOnce /\ StopsAwaitTheirTask /\ ELStoppedHasEnded
  BY DEF ELInit, HandedOverOnce, StopsAwaitTheirTask, ELStoppedHasEnded, NoTask
<1>3. SweepMissesNone
  BY EventLoopAssumption DEF ELInit, SweepMissesNone
<1> QED
  BY <1>1, <1>2, <1>3 DEF ELInv

LEMMA ELNextInv == ELInv /\ [ELNext]_elVars => ELInv'
<1> SUFFICES ASSUME ELInv, [ELNext]_elVars PROVE ELInv'
  OBVIOUS
<1>1. CASE ELCallers
  BY <1>1, CallersKeep
<1>2. CASE CallsGoOn
  BY <1>2, SubmitKeeps, RegisterKeeps DEF CallsGoOn
<1>3. CASE LoopGoesOn
  BY <1>3, CallKeeps, TaskEndsKeeps, SweepKeeps, HaltKeeps, LoopEndsKeeps,
     StopBeginsKeeps, StopTimesOutKeeps, StopFinishesKeeps DEF LoopGoesOn
<1>4. CASE UNCHANGED elVars
  BY <1>4, GoOn, SameThreads, SameTasks, SameStops, SameSelf DEF ELInv, elVars
<1> QED
  BY <1>1, <1>2, <1>3, <1>4 DEF ELNext

\* Whatever threads add, run and stop, and however the loop's callbacks interleave with
\* them: a task that counts as stopped has ended, and when the loop has halted no task
\* runs whose call had reached the loop before that began to stop
\* (BackgroundTask.stop, BackgroundEventLoop._stop_internal).
THEOREM StoppedMeansEnded == ELSpec => []ELStoppedMeansEnded
<1>1. ELInv => ELStoppedMeansEnded
  <2> SUFFICES ASSUME ELInv PROVE ELStoppedMeansEnded
    OBVIOUS
  <2>1. ELTypeOK
    BY DEF ELInv, TypesInv, ELTypeOK, TaskRecord
  <2>2. ELNothingSurvives
    BY DEF ELInv, SweepMissesNone, ELNothingSurvives
  <2> QED
    BY <2>1, <2>2 DEF ELInv, ELStoppedMeansEnded
<1> QED
  BY ELInitInv, ELNextInv, <1>1, PTL DEF ELSpec
=============================================================================

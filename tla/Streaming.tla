------------------------------ MODULE Streaming ------------------------------
(***************************************************************************)
(* How an emulated controller streams its data: the streamers of the       *)
(* SensorGraph (iotile/sg/graph.py, streamer.py), the acknowledgements the *)
(* sensor graph subsystem keeps (controller_features/sensor_graph.py) and  *)
(* the background worker of the stream manager (stream_manager.py).        *)
(*                                                                         *)
(* A graph is persisted and online.  Readings are numbered as they are     *)
(* stored and each is selected by one streamer; none is overwritten (see   *)
(* SensorLog for that).  A walker is the id of the next reading to look at.*)
(***************************************************************************)
EXTENDS None, Integers, Sequences, FiniteSets

CONSTANTS
    Streamers,    \* the indices of the streamers: 0 .. n - 1
    Automatic,    \* streamers that trigger whenever they have data
    WithOther,    \* the streamer each one is triggered with, or NULL
    Individual,   \* streamers that send one reading a report
    MaxReadings,  \* bound on the readings stored
    MaxResets,    \* bound on the resets of the controller
    MaxTriggers   \* bound on the triggers and acknowledgements of a client

ASSUME StreamingAssumption ==
    /\ IsFiniteSet(Streamers) /\ Streamers = 0 .. Cardinality(Streamers) - 1
    /\ Automatic \subseteq Streamers /\ Individual \subseteq Streamers
    /\ WithOther \in [Streamers -> Streamers \cup {NULL}]
    /\ MaxReadings \in Nat /\ MaxResets \in Nat /\ MaxTriggers \in Nat

VARIABLES
    stored,       \* the streamer that selects each reading
    walker,       \* where each streamer's walker is
    marked,       \* _manually_triggered_streamers
    in_progress,  \* _in_progress_streamers
    queue,        \* _queue
    worker,       \* the workers, one more with each reset: what each is doing
    acks,         \* streamer_acks, 0 when there is none
    received,     \* readings the other side has received
    resetting,    \* the tasks were cancelled, the subsystems not yet cleared
    requests      \* triggers and acknowledgements so far

strVars == <<stored, walker, marked, in_progress, queue, worker, acks, received, resetting, requests>>

\* What is queued: its streamer, the readings left to send, the last one that was sent, and
\* the walker, if the streamer is one that a reset has replaced.
ItemType == [streamer : Streamers, left : Int, ack : Nat, own : Nat \cup {NULL}]

ASSUME NoneAssumption == NULL \notin ItemType

Idle == [pc |-> "idle", item |-> NULL, batch |-> {}]
Dead == [pc |-> "dead", item |-> NULL, batch |-> {}]

StrInit ==
    /\ stored = <<>>
    /\ walker = [i \in Streamers |-> 1]
    /\ marked = {} /\ in_progress = {}
    /\ queue = <<>>
    /\ worker = <<Idle>>
    /\ acks = [i \in Streamers |-> 0]
    /\ received = {}
    /\ resetting = FALSE
    /\ requests = 0

MaxOf(S) == CHOOSE x \in S : \A y \in S : y <= x
MinOf(S) == CHOOSE x \in S : \A y \in S : x <= y

\* The numbers of a finite set in their order.
Ascending(S) ==
    CHOOSE s \in [1 .. Cardinality(S) -> S] : \A j, k \in DOMAIN s : j < k => s[j] < s[k]

-----------------------------------------------------------------------------
(* Triggering. *)

\* The readings a walker of streamer i at position pos has before it.
Ahead(log, i, pos) == {k \in DOMAIN log : log[k] = i /\ k >= pos}

HasData(log, i) == Ahead(log, i, walker[i]) # {}

\* The streamers that are triggered with streamer i.  Each is looked up in the set of those
\* selected by its distance from i.
Companions(log, i, selected) ==
    {k \in Streamers : k >= i /\ WithOther[k] = i /\ k - i \notin selected /\ HasData(log, k)}

\* Streamer i is ready, and then those that are triggered with it; they too are added to the
\* set of those selected by their distance.
Chosen(log, i, c) ==
    LET companions == Companions(log, i, c.selected \cup {i}) IN
    [ready    |-> Append(c.ready, i) \o Ascending(companions),
     selected |-> c.selected \cup {i} \cup {k - i : k \in companions},
     marks    |-> c.marks]

\* One round of the loop in check_streamers.
Check(log, blacklist, i, c) ==
    IF i \in blacklist \cup c.selected THEN c
    ELSE LET unmarked == [ready |-> c.ready, selected |-> c.selected, marks |-> c.marks \ {i}] IN
         IF i \in Automatic \cup c.marks /\ HasData(log, i) THEN Chosen(log, i, unmarked) ELSE unmarked

\* check_streamers: the streamers that are ready, in order, and the marks that are left.
CheckStreamers(log, marks, blacklist) ==
    LET checked[n \in 0 .. Cardinality(Streamers)] ==
            IF n = 0 THEN [ready |-> <<>>, selected |-> {}, marks |-> marks]
            ELSE Check(log, blacklist, n - 1, checked[n - 1])
    IN checked[Cardinality(Streamers)]

\* QueuedStreamer.
Item(log, i) ==
    [streamer |-> i, left |-> Cardinality(Ahead(log, i, walker[i])), ack |-> 0, own |-> NULL]

\* process_streamer for each streamer in turn: one that is in progress, or has just been
\* queued, raises InternalError, and the rest are not queued.
Started(ready) ==
    {k \in DOMAIN ready : \A j \in 1 .. k :
        ready[j] \notin in_progress /\ \A h \in 1 .. j - 1 : ready[h] # ready[j]}
Queued(log, ready) == [k \in Started(ready) |-> Item(log, ready[k])]

\* process_streamers, with the marks and readings that are there by now.
ProcessStreamers(log, marks) ==
    LET checked == CheckStreamers(log, marks, in_progress) IN
    /\ queue' = queue \o Queued(log, checked.ready)
    /\ in_progress' = in_progress \cup {checked.ready[k] : k \in Started(checked.ready)}
    /\ marked' = checked.marks

\* The sensor graph worker processes an input that becomes a reading of streamer i.
Input(i) ==
    /\ ~resetting
    /\ Len(stored) < MaxReadings
    /\ stored' = Append(stored, i)
    /\ ProcessStreamers(stored', marked)
    /\ UNCHANGED <<walker, worker, acks, received, resetting, requests>>

\* trigger_streamer; refused if the streamer is in progress or has no data.
Trigger(i) ==
    /\ requests < MaxTriggers
    /\ i \notin in_progress /\ HasData(stored, i)
    /\ ProcessStreamers(stored, marked \cup {i})
    /\ requests' = requests + 1
    /\ UNCHANGED <<stored, walker, worker, acks, received, resetting>>

-----------------------------------------------------------------------------
(* Acknowledging. *)

\* _seek_streamer: one beyond a reading of its own, at the reading of another
\* streamer, behind everything or at the beginning if there is no such reading.
Seek(i, value) ==
    walker' = [walker EXCEPT ![i] =
        IF value \in DOMAIN stored THEN (IF stored[value] = i THEN value + 1 ELSE value)
        ELSE IF value > Len(stored) THEN Len(stored) + 1
        ELSE 1]

\* (Every acknowledgement is taken as it comes.)
AcknowledgeAny(i, ack, force) ==
    LET current == IF ack # 0 THEN ack ELSE acks[i] IN
    /\ acks' = [acks EXCEPT ![i] = current]
    /\ Seek(i, current)

\* (The walker is not rolled back.)
AcknowledgeOnly(i, ack, force) ==
    /\ acks' = [acks EXCEPT ![i] = IF ack > @ \/ (force /\ ack # 0) THEN ack ELSE @]
    /\ UNCHANGED walker

\* acknowledge_streamer: an old acknowledgement changes nothing, 0 stands for the
\* one that is there.
Acknowledge(i, ack, force) ==
    IF ack # 0 /\ ack <= acks[i] /\ ~force
    THEN UNCHANGED <<acks, walker>>
    ELSE LET current == IF ack # 0 THEN ack ELSE acks[i] IN
         /\ acks' = [acks EXCEPT ![i] = current]
         /\ Seek(i, current)

\* A client acknowledges what it has received, or asks for more with force.
Ack(i, ack, force) ==
    /\ requests < MaxTriggers
    /\ Acknowledge(i, ack, force)
    /\ requests' = requests + 1
    /\ UNCHANGED <<stored, marked, in_progress, queue, worker, received, resetting>>

-----------------------------------------------------------------------------
(* The worker of the stream manager. *)

\* (A worker that keeps a streamer in progress when it fails.)
FinishKeeping(w, item, succeeded) ==
    /\ in_progress' = IF succeeded THEN in_progress \ {item.streamer} ELSE in_progress
    /\ worker' = [worker EXCEPT ![w] = Idle]
    /\ Acknowledge(item.streamer, item.ack, FALSE)

\* The finally clause: remove() raises KeyError if the streamer is not in progress,
\* which ends the worker before the callback that rolls the walker back.
Finish(w, item, succeeded) ==
    IF item.streamer \in in_progress
    THEN /\ in_progress' = in_progress \ {item.streamer}
         /\ worker' = [worker EXCEPT ![w] = Idle]
         /\ Acknowledge(item.streamer, item.ack, FALSE)
    ELSE /\ worker' = [worker EXCEPT ![w] = Dead]
         /\ UNCHANGED <<in_progress, acks, walker>>

Position(item) == IF item.own = NULL THEN walker[item.streamer] ELSE item.own

\* _build_report: one reading, or all there are.
Batch(item) ==
    LET ahead == Ahead(stored, item.streamer, Position(item)) IN
    IF item.streamer \in Individual /\ ahead # {} THEN {MinOf(ahead)} ELSE ahead

\* The loop over the reports of an item: another one is built and is being sent, or
\* the item is finished (a walker that has nothing left raises StreamEmptyError).
\* The readings of an individual report are counted as acknowledged before it is sent.
Continue(w, item) ==
    LET batch == Batch(item) IN
    IF item.left > 0 /\ batch # {}
    THEN LET next == MaxOf(batch) + 1
             moved == [streamer |-> item.streamer,
                       left |-> item.left - Cardinality(batch),
                       ack |-> IF item.streamer \in Individual THEN MaxOf(batch) ELSE item.ack,
                       own |-> IF item.own = NULL THEN NULL ELSE next]
         IN /\ worker' = [worker EXCEPT ![w] = [pc |-> "sending", item |-> moved, batch |-> batch]]
            /\ walker' = IF item.own = NULL THEN [walker EXCEPT ![item.streamer] = next] ELSE walker
            /\ UNCHANGED <<in_progress, acks>>
    ELSE Finish(w, item, item.left <= 0)

Take(w) ==
    /\ worker[w].pc = "idle"
    /\ queue # <<>>
    /\ queue' = Tail(queue)
    /\ Continue(w, Head(queue))
    /\ UNCHANGED <<stored, marked, received, resetting, requests>>

StrSent(w) ==
    /\ worker[w].pc = "sending"
    /\ received' = received \cup worker[w].batch
    /\ Continue(w, worker[w].item)
    /\ UNCHANGED <<stored, marked, queue, resetting, requests>>

\* (What could not be sent is put back and queued again.)
FailedRetrying(w) ==
    LET failed == worker[w].item IN
    /\ worker[w].pc = "sending"
    /\ worker' = [worker EXCEPT ![w] = Idle]
    /\ queue' = Append(queue, [failed EXCEPT !.left = @ + Cardinality(worker[w].batch)])
    /\ walker' = [walker EXCEPT ![failed.streamer] = MinOf(worker[w].batch)]
    /\ UNCHANGED <<stored, marked, in_progress, acks, received, resetting, requests>>

\* stream() raises: there is no channel, or no client is connected.
Failed(w) ==
    /\ worker[w].pc = "sending"
    /\ Finish(w, worker[w].item, FALSE)
    /\ UNCHANGED <<stored, marked, queue, received, resetting, requests>>

-----------------------------------------------------------------------------
(* Resetting the controller. *)

\* EmulatedTile.reset: the tasks of the controller are cancelled, and not waited
\* for; a worker that outlived an earlier reset is no longer among them.  A worker
\* that waits for the queue ends; one that is sending takes the cancellation for a
\* failure to send, in its bare except clause, and goes on.
Reset ==
    LET w == Len(worker) IN
    /\ ~resetting
    /\ Len(worker) <= MaxResets
    /\ resetting' = TRUE
    /\ IF worker[w].pc = "sending"
       THEN Finish(w, worker[w].item, FALSE)
       ELSE worker' = [worker EXCEPT ![w] = Dead] /\ UNCHANGED <<in_progress, acks, walker>>
    /\ UNCHANGED <<stored, marked, queue, received, requests>>

Orphan(item) == [item EXCEPT !.own = Position(item)]

\* The subsystems are cleared and started again.  The streamers are new, with
\* walkers that skip what is stored unless there is an acknowledgement to seek; the
\* queue is kept.
ClearToReset ==
    /\ resetting
    /\ resetting' = FALSE
    /\ in_progress' = {}
    /\ queue' = [k \in DOMAIN queue |-> Orphan(queue[k])]
    /\ worker' = Append([w \in DOMAIN worker |->
                    IF worker[w].item = NULL THEN worker[w]
                    ELSE [worker[w] EXCEPT !.item = Orphan(@)]], Idle)
    /\ walker' = [i \in Streamers |->
                    IF acks[i] = 0 \/ acks[i] > Len(stored) THEN Len(stored) + 1
                    ELSE IF stored[acks[i]] = i THEN acks[i] + 1 ELSE acks[i]]
    /\ UNCHANGED <<stored, marked, acks, received, requests>>

WorkerStep(w) == Take(w) \/ StrSent(w) \/ Failed(w)

StrNext ==
    \/ \E i \in Streamers : Input(i) \/ Trigger(i)
    \/ \E i \in Streamers, a \in received \cup {0}, force \in BOOLEAN : Ack(i, a, force)
    \/ \E w \in DOMAIN worker : Take(w) \/ StrSent(w) \/ Failed(w)
    \/ Reset
    \/ ClearToReset

StrSpec == StrInit /\ [][StrNext]_strVars

\* The worker of a controller that is not reset goes on, and every attempt to send
\* ends one way or the other.
StrFairSpec == StrSpec /\ WF_strVars(WorkerStep(1))

-----------------------------------------------------------------------------
(* Properties. *)

\* The variables stay in their types; no acknowledgement is ahead of what is stored, and
\* only stored readings are received (StreamingSubsystem).
StrTypeOK ==
    /\ stored \in Seq(Streamers)
    /\ walker \in [Streamers -> 1 .. Len(stored) + 1]
    /\ marked \subseteq Streamers /\ in_progress \subseteq Streamers
    /\ queue \in Seq(ItemType)
    /\ \A w \in DOMAIN worker : worker[w].pc \in {"idle", "dead", "sending"}
    /\ acks \in [Streamers -> 0 .. Len(stored)]
    /\ received \subseteq DOMAIN stored
    /\ resetting \in BOOLEAN

\* The items that are queued or being streamed.
Items == queue \o [w \in DOMAIN worker |-> worker[w].item]

\* The controller has not been reset: what was queued before a reset outlives it.
Undisturbed == Len(worker) = 1 /\ ~resetting

\* Until the controller is reset, a streamer is in progress exactly while one item of
\* it is queued or being streamed, however it is triggered and however streaming it
\* ends: remove() never raises, and the "background worker should never die".
InProgressIsExact ==
    Undisturbed =>
        \A i \in Streamers :
            Cardinality({k \in DOMAIN Items : Items[k] # NULL /\ Items[k].streamer = i})
                = (IF i \in in_progress THEN 1 ELSE 0)

\* Until the controller is reset, a streamer that is not in progress has before it
\* every reading that was stored and not acknowledged, so that what was sent and not
\* acknowledged is sent again, whatever failed and whatever was acknowledged while
\* it was streaming.
NothingSkipped ==
    Undisturbed =>
        \A i \in Streamers \ in_progress :
            \A k \in DOMAIN stored : stored[k] = i /\ k > acks[i] => k >= walker[i]

\* _in_progress_streamers is what is queued or being sent, and no reading that was not
\* acknowledged is skipped, until the controller is reset (streaming.py).
StreamingIsExact == StrTypeOK /\ InProgressIsExact /\ NothingSkipped

\* An acknowledgement is taken back only by a client that forces it, never by the
\* end of a streaming that began before it, by the new worker or by one of before
\* a reset.
AcksOnlyGrow ==
    [][\A i \in Streamers :
        acks'[i] >= acks[i] \/ \E a \in received \cup {0} : Ack(i, a, TRUE)]_strVars

\* What is queued is streamed or fails, and the streamer can be triggered again,
\* unless the controller is reset meanwhile.
EveryStreamingEnds ==
    \A i \in Streamers : (i \in in_progress) ~> (i \notin in_progress \/ ~Undisturbed)
=============================================================================

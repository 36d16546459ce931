------------------------------ MODULE SensorLog ------------------------------
(***************************************************************************)
(* The sensor log of a sensor graph (iotile/sg/sensor_log.py), the         *)
(* in-memory storage engine behind it (engine/in_memory.py) and the stream *)
(* walkers that read it (walker.py).                                       *)
(*                                                                         *)
(* Readings of buffered streams are appended to one of two bounded areas;  *)
(* when an area is full the oldest EraseSize readings are dropped, or, in  *)
(* fill-stop mode, the push is refused.  A buffered walker is an offset    *)
(* into an area and a count of the matching readings still ahead of it,    *)
(* which the log keeps up to date by calling notify_added and              *)
(* notify_rollover.  Virtual streams have no storage: each walker on one   *)
(* holds the last reading itself.                                          *)
(***************************************************************************)
EXTENDS Integers, Sequences, FiniteSets, FiniteSetsExt

CONSTANTS
    StorageStreams,     \* buffered streams, kept in the storage area
    OutputStreams,      \* output streams, kept in the streaming area
    UnbufferedStreams,  \* virtual streams that hold one reading
    ConstantStreams,    \* virtual streams whose reading is never used up
    CounterStreams,     \* virtual streams that count their pushes
    Selectors,          \* a selector is the set of streams that it matches
    Walkers,            \* StreamWalker objects
    Values,             \* what a virtual stream's reading may hold
    MaxStorage, MaxStreaming, EraseSize,  \* DeviceModel: sizes of the areas
    NULL,               \* Python's None
    MaxId               \* bound: ids handed out by allocate_id

Areas == {"storage", "streaming"}
BufferedStreams == StorageStreams \cup OutputStreams
VirtualStreams == UnbufferedStreams \cup ConstantStreams \cup CounterStreams
Streams == BufferedStreams \cup VirtualStreams

ASSUME StreamsAssumption ==
    /\ StorageStreams \cap OutputStreams = {}
    /\ BufferedStreams \cap VirtualStreams = {}
    /\ ConstantStreams \cap CounterStreams = {}
    /\ UnbufferedStreams \cap (ConstantStreams \cup CounterStreams) = {}

\* The value of a reading is a number.
ASSUME ValuesAssumption == Values \subseteq Int

\* A buffered selector may match many streams of one type, a virtual one is singular.
ASSUME SelectorsAssumption ==
    \A sel \in Selectors :
        /\ sel # {}
        /\ \/ sel \subseteq StorageStreams
           \/ sel \subseteq OutputStreams
           \/ \E s \in VirtualStreams : sel = {s}

\* The default model erases 256 readings of 16128 or of 48896 (model.py).
ASSUME SizesAssumption ==
    /\ MaxStorage \in Nat /\ MaxStreaming \in Nat /\ EraseSize \in Nat /\ MaxId \in Nat
    /\ 1 <= EraseSize /\ EraseSize <= MaxStorage /\ EraseSize <= MaxStreaming

Capacity(a) == IF a = "storage" THEN MaxStorage ELSE MaxStreaming
AreaOf(s) == IF s \in OutputStreams THEN "streaming" ELSE "storage"
AreaOfSelector(sel) == IF sel \subseteq OutputStreams THEN "streaming" ELSE "storage"
Buffered(sel) == sel \subseteq BufferedStreams

\* A reading of a buffered stream carries the id it was given; the tag of a
\* reading of a virtual stream is its value.
Reading == [stream : Streams, tag : Int]

Errors == {"none", "StorageFull", "OutOfSync", "StreamEmpty", "Unresolved",
           "IndexError", "Argument"}

VARIABLES
    data,            \* engine.storage_data and engine.streaming_data
    rollover,        \* _rollover_storage and _rollover_streaming
    queueWalkers,    \* _queue_walkers, in order
    virtualWalkers,  \* _virtual_walkers, in order
    wk,              \* the fields of each walker object
    lastValues,      \* _last_values of the virtual streams, all that is read
    nextId,          \* what the id_assigner hands out next
    outcome,         \* what the last call raised or returned
    rolled,          \* history: walkers from under which a rollover took a
                     \* reading they select or had not passed
    caller           \* history: the walker called last; NULL if the log was

vars == <<data, rollover, queueWalkers, virtualWalkers, wk, lastValues, nextId,
          outcome, rolled, caller>>

Walker == [sel : Selectors \cup {{}}, offset : Int, count : Nat,
           reading : Reading \cup {NULL}]

Returned(r) == [error |-> "none", reading |-> r]
Raised(e) == [error |-> e, reading |-> NULL]

Elements(seq) == {seq[i] : i \in DOMAIN seq}
Attached == Elements(queueWalkers) \cup Elements(virtualWalkers)
OnArea(a) == {w \in Elements(queueWalkers) : AreaOfSelector(wk[w].sel) = a}

\* A walker object that does not exist yet, or that its owner has dropped.
Unused == [sel |-> {}, offset |-> 0, count |-> 0, reading |-> NULL]

\* list.remove(): the first w goes, if there is one.
Without(seq, w) ==
    IF w \notin Elements(seq) THEN seq
    ELSE LET n == CHOOSE i \in DOMAIN seq : seq[i] = w /\ \A j \in 1 .. i - 1 : seq[j] # w IN
         [i \in 1 .. Len(seq) - 1 |-> IF i < n THEN seq[i] ELSE seq[i + 1]]

Init ==
    /\ data = [a \in Areas |-> <<>>]
    /\ rollover = [a \in Areas |-> TRUE]
    /\ queueWalkers = <<>>
    /\ virtualWalkers = <<>>
    /\ wk = [w \in Walkers |-> Unused]
    /\ lastValues = [s \in VirtualStreams |-> NULL]
    /\ nextId = 1
    /\ outcome = Returned(NULL)
    /\ rolled = {}
    /\ caller = NULL

-----------------------------------------------------------------------------
(* The storage engine. *)

\* The number of readings of d, from offset k on, that sel matches.  Python's
\* range(k, len) runs over negative indices too, which count from the end.
At(d, k) == IF k >= 0 THEN d[k + 1] ELSE d[Len(d) + k + 1]
CountMatching(sel, d, k) ==
    Cardinality({i \in k .. Len(d) - 1 : At(d, i).stream \in sel})

Full(a) == Len(data[a]) = Capacity(a)

\* The offsets from k on that a walker on sel stops at.
Hits(sel, d, k) == {i \in k .. Len(d) - 1 : At(d, i).stream \in sel}

-----------------------------------------------------------------------------
(* Pushing a reading. *)

\* The reading as push() stores it, with the id that allocate_id gives it.
PerAreaReading(s) == [stream |-> s, tag |-> Len(data[AreaOf(s)]) + 1]
NewReading(s) == [stream |-> s, tag |-> nextId]

IgnoreFillStop(a) == FALSE
FillStop(a) == ~rollover[a]

NotifyAllAdded(f, s) ==
    [w \in Walkers |->
        IF w \in OnArea(AreaOf(s)) THEN [f[w] EXCEPT !.count = @ + 1] ELSE f[w]]

NotifyAdded(f, s) ==
    [w \in Walkers |->
        IF w \in OnArea(AreaOf(s)) /\ s \in f[w].sel
        THEN [f[w] EXCEPT !.count = @ + 1] ELSE f[w]]

\* notify_rollover for the first k of the erased readings.
Roll(v, old, k) ==
    [v EXCEPT !.offset = @ - k, !.count = @ - CountMatching(v.sel, SubSeq(old, 1, k), 0)]

\* The calls of notify_rollover, reading by reading and walker by walker, that
\* find the walker's count used up; the first of them raises InternalError.
UncheckedCount(a, old) == {}

OutOfSyncCalls(a, old) ==
    {c \in (1 .. Len(old)) \X (1 .. Len(queueWalkers)) :
        LET v == wk[queueWalkers[c[2]]] IN
        /\ queueWalkers[c[2]] \in OnArea(a)
        /\ old[c[1]].stream \in v.sel
        /\ CountMatching(v.sel, SubSeq(old, 1, c[1]), 0) > v.count}

FirstCall(calls) ==
    CHOOSE c \in calls : \A d \in calls : c[1] < d[1] \/ (c[1] = d[1] /\ c[2] <= d[2])

\* How many of the erased readings walker w has heard of when call c raises.
\* The call itself has moved the offset but not the count.
RolledTo(c, w) ==
    IF \E j \in 1 .. c[2] : queueWalkers[j] = w THEN c[1] ELSE c[1] - 1

\* The walkers that notify_rollover leaves pointing at the wrong reading or
\* with the wrong count, after hearing of the first k erased readings.
LosesSync(v, old, k) == v.offset < k \/ CountMatching(v.sel, SubSeq(old, 1, k), 0) > 0

Store(a, d, f, r) ==
    /\ data' = [data EXCEPT ![a] = Append(d, r)]
    /\ wk' = NotifyAdded(f, r.stream)
    /\ outcome' = Returned(NULL)

\* push() of a buffered stream while its area has room.
PushStored(s) ==
    /\ nextId <= MaxId
    /\ ~Full(AreaOf(s))
    /\ nextId' = nextId + 1
    /\ Store(AreaOf(s), data[AreaOf(s)], wk, NewReading(s))
    /\ UNCHANGED <<rollover, queueWalkers, virtualWalkers, lastValues, rolled>>

\* push() in fill-stop mode: StorageFullError, but the id has been used up.
PushRefused(s) ==
    /\ nextId <= MaxId
    /\ Full(AreaOf(s)) /\ FillStop(AreaOf(s))
    /\ nextId' = nextId + 1
    /\ outcome' = Raised("StorageFull")
    /\ UNCHANGED <<data, rollover, queueWalkers, virtualWalkers, wk, lastValues, rolled>>

\* push() that first has _erase_buffer drop the oldest readings of the area.
PushRollover(s) ==
    LET a == AreaOf(s)
        old == SubSeq(data[a], 1, EraseSize)
        kept == SubSeq(data[a], EraseSize + 1, Len(data[a]))
        f == [w \in Walkers |-> IF w \in OnArea(a) THEN Roll(wk[w], old, EraseSize) ELSE wk[w]]
    IN  /\ nextId <= MaxId
        /\ Full(a) /\ ~FillStop(a)
        /\ OutOfSyncCalls(a, old) = {}
        /\ nextId' = nextId + 1
        /\ Store(a, kept, f, NewReading(s))
        /\ rolled' = rolled \cup {w \in OnArea(a) : LosesSync(wk[w], old, EraseSize)}
        /\ UNCHANGED <<rollover, queueWalkers, virtualWalkers, lastValues>>

\* push() whose _erase_buffer dies of InternalError: the old readings are gone,
\* the new one is not stored, and only some walkers have heard of it.
PushOutOfSync(s) ==
    LET a == AreaOf(s)
        old == SubSeq(data[a], 1, EraseSize)
        kept == SubSeq(data[a], EraseSize + 1, Len(data[a]))
        c == FirstCall(OutOfSyncCalls(a, old))
        f == [w \in Walkers |->
                IF w \notin OnArea(a) THEN wk[w]
                ELSE LET v == Roll(wk[w], old, RolledTo(c, w)) IN
                     IF w = queueWalkers[c[2]] THEN [v EXCEPT !.count = 0] ELSE v]
    IN  /\ nextId <= MaxId
        /\ Full(a) /\ ~FillStop(a)
        /\ OutOfSyncCalls(a, old) # {}
        /\ nextId' = nextId + 1
        /\ data' = [data EXCEPT ![a] = kept]
        /\ wk' = f
        /\ rolled' = rolled \cup OnArea(a)
        /\ outcome' = Raised("OutOfSync")
        /\ UNCHANGED <<rollover, queueWalkers, virtualWalkers, lastValues>>

\* push() of a virtual stream: only the walkers on it keep the reading.
PushVirtual(s, v) ==
    LET r == [stream |-> s, tag |-> v]
        Hears(w) == w \in Elements(virtualWalkers) /\ s \in wk[w].sel
        Bump == IF s \in CounterStreams THEN 1 ELSE 0
    IN  /\ \A w \in Walkers : Hears(w) => wk[w].count < MaxId
        /\ wk' = [w \in Walkers |->
                    IF Hears(w) THEN [wk[w] EXCEPT !.reading = r, !.count = @ + Bump] ELSE wk[w]]
        /\ lastValues' = [lastValues EXCEPT ![s] = r]
        /\ outcome' = Returned(NULL)
        /\ UNCHANGED <<data, rollover, queueWalkers, virtualWalkers, nextId, rolled>>

-----------------------------------------------------------------------------
(* Creating and destroying walkers. *)

NewWalker(sel, skip) ==
    LET d == data[AreaOfSelector(sel)] IN
    IF Buffered(sel)
    THEN [sel |-> sel, reading |-> NULL,
          offset |-> IF skip THEN Len(d) ELSE 0,
          count |-> IF skip THEN 0 ELSE CountMatching(sel, d, 0)]
    ELSE [sel |-> sel, reading |-> NULL, offset |-> 0, count |-> 0]

CreateWalker(w, sel, skip) ==
    /\ w \notin Attached
    /\ wk' = [wk EXCEPT ![w] = NewWalker(sel, skip)]
    /\ queueWalkers' = IF Buffered(sel) THEN Append(queueWalkers, w) ELSE queueWalkers
    /\ virtualWalkers' = IF Buffered(sel) THEN virtualWalkers ELSE Append(virtualWalkers, w)
    /\ rolled' = rolled \ {w}
    /\ outcome' = Returned(NULL)
    /\ UNCHANGED <<data, rollover, lastValues, nextId>>

DestroyWalker(w) ==
    /\ w \in Attached
    /\ queueWalkers' = Without(queueWalkers, w)
    /\ virtualWalkers' = Without(virtualWalkers, w)
    /\ wk' = [wk EXCEPT ![w] = Unused]
    /\ rolled' = rolled \ {w}
    /\ outcome' = Returned(NULL)
    /\ UNCHANGED <<data, rollover, lastValues, nextId>>

DestroyAllWalkers ==
    /\ queueWalkers' = <<>>
    /\ virtualWalkers' = <<>>
    /\ wk' = [w \in Walkers |-> Unused]
    /\ rolled' = {}
    /\ outcome' = Returned(NULL)
    /\ UNCHANGED <<data, rollover, lastValues, nextId>>

-----------------------------------------------------------------------------
(* Reading through a walker. *)

\* What pop() and peek() of a buffered walker find.  A count of zero is
\* StreamEmptyError at once; otherwise the walker reads on until a reading
\* matches, and raises at the end of the area or before its beginning.
Found(v) ==
    LET d == data[AreaOfSelector(v.sel)]
        hits == Hits(v.sel, d, v.offset)
    IN  CASE v.count = 0 -> [error |-> "StreamEmpty", at |-> v.offset]
          [] v.count # 0 /\ v.offset < -Len(d) -> [error |-> "IndexError", at |-> v.offset]
          [] v.count # 0 /\ v.offset >= -Len(d) /\ hits = {} ->
                [error |-> "StreamEmpty", at |-> IF v.offset > Len(d) THEN v.offset ELSE Len(d)]
          [] OTHER -> [error |-> "none", at |-> Min(hits)]

\* (The reading that the walker started from.)
ReadingAtStart(v, k) == At(data[AreaOfSelector(v.sel)], v.offset)

ReadingAt(v, k) == At(data[AreaOfSelector(v.sel)], k)

PopBuffered(w) ==
    LET v == wk[w]  f == Found(v) IN
    /\ w \in Elements(queueWalkers)
    /\ IF f.error = "none"
       THEN /\ wk' = [wk EXCEPT ![w].offset = f.at + 1, ![w].count = @ - 1]
            /\ outcome' = Returned(ReadingAt(v, f.at))
       ELSE /\ wk' = [wk EXCEPT ![w].offset = f.at]
            /\ outcome' = Raised(f.error)
    /\ UNCHANGED <<data, rollover, queueWalkers, virtualWalkers, lastValues, nextId, rolled>>

PeekBuffered(w) ==
    LET v == wk[w]  f == Found(v) IN
    /\ w \in Elements(queueWalkers)
    /\ outcome' = IF f.error = "none" THEN Returned(ReadingAt(v, f.at)) ELSE Raised(f.error)
    /\ UNCHANGED <<data, rollover, queueWalkers, virtualWalkers, wk, lastValues, nextId, rolled>>

\* pop() of a virtual walker: a constant stays, a counter counts down and
\* keeps its reading, any other walker is emptied.
PopVirtual(w) ==
    LET v == wk[w]
        counter == v.sel \subseteq CounterStreams
        empty == IF counter THEN v.count = 0 ELSE v.reading = NULL
    IN  /\ w \in Elements(virtualWalkers)
        /\ outcome' = IF empty THEN Raised("StreamEmpty") ELSE Returned(v.reading)
        /\ wk' = CASE empty \/ v.sel \subseteq ConstantStreams -> wk
                   [] ~empty /\ counter -> [wk EXCEPT ![w].count = @ - 1]
                   [] OTHER -> [wk EXCEPT ![w].reading = NULL]
        /\ UNCHANGED <<data, rollover, queueWalkers, virtualWalkers, lastValues, nextId, rolled>>

PeekVirtual(w) ==
    /\ w \in Elements(virtualWalkers)
    /\ outcome' = IF wk[w].reading = NULL THEN Raised("StreamEmpty") ELSE Returned(wk[w].reading)
    /\ UNCHANGED <<data, rollover, queueWalkers, virtualWalkers, wk, lastValues, nextId, rolled>>

\* (skip_all() that forgets the virtual walkers.)
SkippedBufferedOnly(v, d) ==
    IF Buffered(v.sel) THEN [v EXCEPT !.offset = Len(d[AreaOfSelector(v.sel)]), !.count = 0] ELSE v

\* skip_all(), with d the buffered readings at that moment.
Skipped(v, d) ==
    CASE Buffered(v.sel) -> [v EXCEPT !.offset = Len(d[AreaOfSelector(v.sel)]), !.count = 0]
      [] v.sel \subseteq CounterStreams -> [v EXCEPT !.count = 0]
      [] v.sel \subseteq UnbufferedStreams -> [v EXCEPT !.reading = NULL]
      [] OTHER -> v

SkipAll(w) ==
    /\ w \in Attached
    /\ wk' = [wk EXCEPT ![w] = Skipped(wk[w], data)]
    /\ rolled' = rolled \ {w}
    /\ outcome' = Returned(NULL)
    /\ UNCHANGED <<data, rollover, queueWalkers, virtualWalkers, lastValues, nextId>>

\* Where seek() leaves walker w, at offset k of readings d.
Sought(v, d, k) == [v EXCEPT !.offset = k, !.count = CountMatching(v.sel, d, k)]

SeekTo(w, k) ==
    LET d == data[AreaOfSelector(wk[w].sel)] IN
    /\ wk' = [wk EXCEPT ![w] = Sought(wk[w], d, k)]
    /\ rolled' = rolled \ {w}
    /\ outcome' = Returned(NULL)

SeekOffset(w, k) ==
    /\ w \in Elements(queueWalkers)
    /\ IF k >= Len(data[AreaOfSelector(wk[w].sel)])
       THEN outcome' = Raised("Unresolved") /\ UNCHANGED <<wk, rolled>>
       ELSE SeekTo(w, k)
    /\ UNCHANGED <<data, rollover, queueWalkers, virtualWalkers, lastValues, nextId>>

\* _find_id scans the area of the walker for the first reading with that id.
OffsetsOfId(a, id) == {k \in 0 .. Len(data[a]) - 1 : data[a][k + 1].tag = id}

SeekId(w, id) ==
    LET offsets == OffsetsOfId(AreaOfSelector(wk[w].sel), id) IN
    /\ w \in Elements(queueWalkers)
    /\ IF offsets = {}
       THEN outcome' = Raised("Unresolved") /\ UNCHANGED <<wk, rolled>>
       ELSE SeekTo(w, Min(offsets))
    /\ UNCHANGED <<data, rollover, queueWalkers, virtualWalkers, lastValues, nextId>>

-----------------------------------------------------------------------------

SetRollover(a, enabled) ==
    /\ rollover' = [rollover EXCEPT ![a] = enabled]
    /\ outcome' = Returned(NULL)
    /\ UNCHANGED <<data, queueWalkers, virtualWalkers, wk, lastValues, nextId, rolled>>

\* clear(): every attached walker skips everything, the areas are emptied.
Cleared(f) ==
    [w \in Walkers |-> IF w \in Attached THEN Skipped(f[w], [a \in Areas |-> <<>>]) ELSE f[w]]

Clear ==
    /\ data' = [a \in Areas |-> <<>>]
    /\ wk' = Cleared(wk)
    /\ lastValues' = [s \in VirtualStreams |-> NULL]
    /\ rolled' = rolled \ Attached
    /\ outcome' = Returned(NULL)
    /\ UNCHANGED <<rollover, queueWalkers, virtualWalkers, nextId>>

Push ==
    \/ \E s \in BufferedStreams :
            PushStored(s) \/ PushRefused(s) \/ PushRollover(s) \/ PushOutOfSync(s)
    \/ \E s \in VirtualStreams, v \in Values : PushVirtual(s, v)

Walk(w) ==
    \/ \E sel \in Selectors, skip \in BOOLEAN : CreateWalker(w, sel, skip)
    \/ DestroyWalker(w)
    \/ PopBuffered(w) \/ PeekBuffered(w) \/ PopVirtual(w) \/ PeekVirtual(w)
    \/ SkipAll(w)
    \/ \E k \in 0 .. Max({MaxStorage, MaxStreaming}) : SeekOffset(w, k)
    \/ \E id \in 1 .. MaxId : SeekId(w, id)

Configure ==
    \/ \E a \in Areas, enabled \in BOOLEAN : SetRollover(a, enabled)
    \/ Clear
    \/ DestroyAllWalkers

\* The log is called, or one of the walkers.
Next ==
    \/ (Push \/ Configure) /\ caller' = NULL
    \/ \E w \in Walkers : Walk(w) /\ caller' = w

Spec == Init /\ [][Next]_vars

-----------------------------------------------------------------------------
(* Properties. *)

\* The variables stay in their types; the offset of a walker may become negative, its count
\* may not (notify_rollover raises instead).
TypeOK ==
    /\ data \in [Areas -> Seq(Reading)]
    /\ rollover \in [Areas -> BOOLEAN]
    /\ queueWalkers \in Seq(Walkers)
    /\ virtualWalkers \in Seq(Walkers)
    /\ wk \in [Walkers -> Walker]
    /\ lastValues \in [VirtualStreams -> Reading \cup {NULL}]
    /\ nextId \in 1 .. MaxId + 1
    /\ outcome \in [error : Errors, reading : Reading \cup {NULL}]
    /\ rolled \subseteq Walkers
    /\ caller \in Walkers \cup {NULL}

\* "You can limit the number of readings stored ... to put a hard cap on
\* storage requirements": no sequence of pushes, rollovers, failed rollovers
\* and clears makes an area hold more than the device model allows.
BoundedAreas == \A a \in Areas : Len(data[a]) <= Capacity(a)

\* Each area holds streams of its own type only, in the order in which ids were
\* handed out, and no id is ever stored twice, in either area: what seek() by
\* id and the acknowledgement of streamed readings rely on.
UniqueIdsInOrder ==
    /\ \A a \in Areas : \A i, j \in DOMAIN data[a] :
            /\ AreaOf(data[a][i].stream) = a
            /\ data[a][i].tag < nextId
            /\ i < j => data[a][i].tag < data[a][j].tag
    /\ \A i \in DOMAIN data["storage"], j \in DOMAIN data["streaming"] :
            data["storage"][i].tag # data["streaming"][j].tag

\* Until a rollover erases a reading that a walker selects or has not passed,
\* its offset stays inside its area and its count is exactly the number of
\* matching readings from the offset on, whatever else is pushed, popped, sought
\* or cleared, through this walker or others.
WalkersInSync ==
    \A w \in Elements(queueWalkers) \ rolled :
        LET v == wk[w]  d == data[AreaOfSelector(v.sel)] IN
        /\ v.offset \in 0 .. Len(d)
        /\ v.count = CountMatching(v.sel, d, v.offset)

\* A reading leaves an area only when everything is cleared, or, oldest first and
\* at most EraseSize at a time, when the area is full and in ring-buffer mode: in
\* fill-stop mode nothing that was stored is lost.
KeepsSuffix(old, new, n) ==
    /\ n <= Len(old)
    /\ Len(new) >= Len(old) - n
    /\ SubSeq(new, 1, Len(old) - n) = SubSeq(old, n + 1, Len(old))

OnlyRolloverLosesReadings ==
    [][\/ data' = [a \in Areas |-> <<>>]
       \/ \A a \in Areas :
            \E n \in (IF Full(a) /\ rollover[a] THEN {0, EraseSize} ELSE {0}) :
                KeepsSuffix(data[a], data'[a], n)]_vars

-----------------------------------------------------------------------------
(* What the code says of itself, and a rollover breaks. *)

\* notify_rollover() treats an exhausted count as an internal inconsistency that
\* cannot happen: "BufferedStreamWalker out of sync with storage engine".
NeverOutOfSync == outcome.error # "OutOfSync"

-----------------------------------------------------------------------------
(* The buffered walkers implement private FIFOs. *)

\* The readings that walker w has yet to return, which their ids put in order.
UnreadBy(w) ==
    LET v == wk[w]
        d == data[AreaOfSelector(v.sel)]
    IN  IF w \in Elements(queueWalkers) \ rolled
        THEN {d[i] : i \in {j \in v.offset + 1 .. Len(d) : d[j].stream \in v.sel}}
        ELSE {}

InLog == UNION {Elements(data[a]) : a \in Areas}

Fifo == INSTANCE WalkerFifo WITH
            Readings <- [stream : BufferedStreams, tag : 1 .. MaxId],
            Stores <- {StorageStreams, OutputStreams},
            Others <- {sel \in Selectors : ~Buffered(sel)},
            sel <- [w \in Walkers |-> wk[w].sel],
            stored <- InLog,
            given <- nextId - 1,
            unread <- [w \in Walkers |-> UnreadBy(w)],
            broken <- rolled

\* Through every interleaving of pushes, rollovers, seeks and the calls of other
\* walkers, every reading that is stored arrives once at each walker whose selector
\* matches it; pop() and peek() of a walker return these, each once and oldest first,
\* and raise StreamEmptyError only when none is left.  What a walker has yet to return
\* changes by its own calls only, or by clear() and destroy_all_walkers().  This holds
\* until readings are erased that the walker selects or has not passed.
WalkersAreFifos == Fifo!Spec
=============================================================================

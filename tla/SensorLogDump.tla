---------------------------- MODULE SensorLogDump ---------------------------
(***************************************************************************)
(* Saving and restoring a sensor log: SensorLog.dump() and restore()       *)
(* (iotile/sg/sensor_log.py), with those of the storage engine             *)
(* (engine/in_memory.py) and of the walkers (walker.py), on top of         *)
(* SensorLog.  A dump is put back into a log whose owner has destroyed the *)
(* walkers and created them again, as the emulated controller does, or     *)
(* into one that has simply gone on.  Readings come back from their        *)
(* dictionaries as they were, and selectors that were made from strings or *)
(* streams from theirs.                                                    *)
(***************************************************************************)
EXTENDS SensorLog

VARIABLES
    saved,     \* the dump
    past,      \* history: the walkers when it was made
    passed     \* history: virtual walkers that the last restore did not put back

dumpVars == <<vars, saved, past, passed>>

DumpInit ==
    /\ Init
    /\ saved = NULL
    /\ past = NULL
    /\ passed = {}

SelectorsOf(ws) == {wk[w].sel : w \in ws}

(***************************************************************************)
(* dump(): the walkers go into a dictionary by their selectors, where the  *)
(* last one on a selector replaces the others.                             *)
(***************************************************************************)

AllWalkers == queueWalkers \o virtualWalkers

LastOn(sel) ==
    AllWalkers[Max({n \in 1 .. Len(AllWalkers) : wk[AllWalkers[n]].sel = sel})]

\* A buffered walker saves its offset only, a virtual one its reading, a counter its
\* count too.
DumpWalker(v) ==
    [offset |-> IF Buffered(v.sel) THEN v.offset ELSE 0,
     reading |-> v.reading,
     count |-> IF v.sel \subseteq CounterStreams THEN v.count ELSE 0]

Dump ==
    /\ saved = NULL    \* bound: one dump in a behaviour
    /\ saved' = [data |-> data, rollover |-> rollover, lastValues |-> lastValues,
                 walkers |-> [sel \in SelectorsOf(Attached) |-> DumpWalker(wk[LastOn(sel)])]]
    /\ past' = [w \in Attached |-> wk[w]]
    /\ caller' = NULL /\ outcome' = Returned(NULL)
    /\ UNCHANGED <<data, rollover, queueWalkers, virtualWalkers, wk, lastValues, nextId, rolled, passed>>

(***************************************************************************)
(* restore(): the readings, then the walkers one by one.                   *)
(***************************************************************************)

Known(w) == wk[w].sel \in DOMAIN saved.walkers

\* Mutant: the last reading's offset is refused too.
RestoreErrorAtLast(w, permissive) ==
    LET sel == wk[w].sel
        n == Len(saved.data[AreaOfSelector(sel)])
    IN  CASE ~Known(w) -> IF permissive THEN "none" ELSE "Argument"
          [] Known(w) /\ Buffered(sel) /\ saved.walkers[sel].offset >= n - 1 -> "Unresolved"
          [] Known(w) /\ Buffered(sel) /\ saved.walkers[sel].offset < -n -> "IndexError"
          [] OTHER -> "none"

\* What restoring walker w raises.  seek() refuses the offset behind the last reading,
\* and an offset before the first is an index into a list.
RestoreError(w, permissive) ==
    LET sel == wk[w].sel
        n == Len(saved.data[AreaOfSelector(sel)])
    IN  CASE ~Known(w) -> IF permissive THEN "none" ELSE "Argument"
          [] Known(w) /\ Buffered(sel) /\ saved.walkers[sel].offset >= n -> "Unresolved"
          [] Known(w) /\ Buffered(sel) /\ saved.walkers[sel].offset < -n -> "IndexError"
          [] OTHER -> "none"

\* Mutant: a walker's count is not counted again.
RestoreWalkerStale(w) ==
    LET s == saved.walkers[wk[w].sel] IN
    IF Buffered(wk[w].sel) THEN [wk[w] EXCEPT !.offset = s.offset]
    ELSE [wk[w] EXCEPT !.reading = s.reading, !.count = s.count]

\* Mutant: a counter's count is forgotten.
RestoreWalkerUncounted(w) ==
    LET s == saved.walkers[wk[w].sel] IN
    IF Buffered(wk[w].sel) THEN Sought(wk[w], saved.data[AreaOfSelector(wk[w].sel)], s.offset)
    ELSE [wk[w] EXCEPT !.reading = s.reading]

\* restore() of a walker that does not raise
RestoreWalker(w) ==
    LET s == saved.walkers[wk[w].sel] IN
    IF Buffered(wk[w].sel) THEN Sought(wk[w], saved.data[AreaOfSelector(wk[w].sel)], s.offset)
    ELSE [wk[w] EXCEPT !.reading = s.reading, !.count = s.count]

\* restore() of a walker that raises: an IndexError comes when the offset is set.
FailWalker(w, error) ==
    IF error = "IndexError" THEN [wk[w] EXCEPT !.offset = saved.walkers[wk[w].sel].offset] ELSE wk[w]

RestoreOrder == virtualWalkers \o queueWalkers

\* The readings are replaced before the first walker can raise, and the walkers
\* behind that one are not reached.
Restore(permissive) ==
    LET order == RestoreOrder
        Fails == {n \in 1 .. Len(order) : RestoreError(order[n], permissive) # "none"}
        first == IF Fails = {} THEN Len(order) + 1 ELSE Min(Fails)
        Done == {order[n] : n \in 1 .. first - 1}
        Back == {w \in Done : Known(w)}
        Failed == {order[n] : n \in Fails \cap {first}}
    IN  /\ saved # NULL
        /\ data' = saved.data
        /\ rollover' = saved.rollover
        /\ lastValues' = saved.lastValues
        /\ wk' = [w \in Walkers |-> CASE w \in Back -> RestoreWalker(w)
                                      [] w \in Failed -> FailWalker(w, RestoreError(w, permissive))
                                      [] OTHER -> wk[w]]
        /\ caller' = NULL
        /\ outcome' = IF Fails = {} THEN Returned(NULL) ELSE Raised(RestoreError(order[first], permissive))
        /\ rolled' = {w \in Back : wk'[w].offset < 0} \cup (Elements(queueWalkers) \ Back)
        /\ passed' = Elements(virtualWalkers) \ Back
        /\ UNCHANGED <<queueWalkers, virtualWalkers, nextId, saved, past>>

\* Every other operation of the log; the mode of an area without streams is not set.
Operate ==
    /\ \/ Push /\ caller' = NULL
       \/ \E w \in Walkers : Walk(w) /\ caller' = w
       \/ \E a \in {AreaOf(s) : s \in BufferedStreams}, enabled \in BOOLEAN : SetRollover(a, enabled) /\ caller' = NULL
       \/ (Clear \/ DestroyAllWalkers) /\ caller' = NULL
    /\ passed' = {w \in passed : wk'[w] # Unused}
    /\ UNCHANGED <<saved, past>>

DumpNext == Operate \/ Dump \/ \E permissive \in BOOLEAN : Restore(permissive)

DumpSpec == DumpInit /\ [][DumpNext]_dumpVars

(***************************************************************************)
(* Properties.                                                             *)
(***************************************************************************)

\* The virtual walkers agree with inspect_last, before and after a restore: a reading
\* held by a walker is the last one pushed to its stream, or its stream has been
\* cleared since and the walker is a constant or a counter, which clear() does not empty.
VirtualReadingIsLast ==
    \A w \in Elements(virtualWalkers) \ passed :
        \A s \in wk[w].sel :
            \/ wk[w].reading = NULL
            \/ wk[w].reading = lastValues[s]
            \/ s \notin UnbufferedStreams /\ lastValues[s] = NULL

\* The walkers that had their selectors for themselves when the dump was made, and
\* that no rollover had broken.
Alone(w) == \A v \in DOMAIN past \ {w} : past[v].sel # past[w].sel
Whole(w) ==
    LET v == past[w] IN
    Buffered(v.sel) => /\ v.offset >= 0
                       /\ v.count = CountMatching(v.sel, saved.data[AreaOfSelector(v.sel)], v.offset)

Restores == \E permissive \in BOOLEAN : Restore(permissive)

\* A restore that does not raise gives back what the log was when it was dumped: its
\* readings and settings and, whatever has happened to them since, the walkers that
\* were alone on their selectors ("to be able to restore the same state later").
RestoreGivesBack ==
    [][Restores /\ outcome'.error = "none" =>
         /\ data' = saved.data /\ rollover' = saved.rollover /\ lastValues' = saved.lastValues
         /\ \A w \in DOMAIN past \cap Attached :
                wk[w].sel = past[w].sel /\ Alone(w) /\ Whole(w) => wk'[w] = past[w]]_dumpVars

\* A dump can be restored, if the same selectors are walked, when every buffered walker
\* had something left to read and no rollover had broken it (seek() does not accept the
\* offset behind the last reading, where a walker rests that has read everything).
RestoreSucceeds ==
    [][/\ Restores
       /\ SelectorsOf(Attached) = DOMAIN saved.walkers
       /\ \A w \in DOMAIN past : Whole(w) /\ (Buffered(past[w].sel) => past[w].count > 0)
       => outcome'.error = "none"]_dumpVars


\* Walkers fit the log that a restore has put under them (SensorLog.restore): a buffered
\* one that it has put back, or that has been sought or has skipped everything since, has
\* the count of the readings ahead of it, which is not saved, until a rollover breaks it.
RestoredWalkersFit == WalkersInSync /\ VirtualReadingIsLast
=============================================================================

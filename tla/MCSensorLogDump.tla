--------------------------- MODULE MCSensorLogDump --------------------------
(* A small instance of SensorLogDump. *)
EXTENDS SensorLogDump, TLC

CONSTANTS s1, u1, c1, w1, w2

EachKind == {{s1}, {u1}, {c1}}
WalkerSymmetry == Permutations({w1, w2})

\* Bound: the log and its dump are used either for buffered or for virtual streams, which
\* share no state of the log or of a walker, or without a walker; the mode of the log is
\* changed in that case only, and a counter counts to two.
Walked == SelectorsOf(Attached) \cup (IF saved = NULL THEN {} ELSE DOMAIN saved.walkers)
NoVirtualReading == [s \in VirtualStreams |-> NULL]

OneKindOfStream ==
    \/ Walked = {}
    \/ /\ nextId = 1 /\ rollover["storage"]
       /\ \A sel \in Walked : ~Buffered(sel)
       /\ \A w \in Walkers : wk[w].count <= 2
    \/ /\ lastValues = NoVirtualReading /\ rollover["storage"]
       /\ saved # NULL => saved.lastValues = NoVirtualReading
       /\ \A sel \in Walked : Buffered(sel)
=============================================================================

----------------------------- MODULE MCSensorLog -----------------------------
(* Small instances of SensorLog. *)
EXTENDS SensorLog, TLC

CONSTANTS s1, s2, o1, u1, w1, w2

\* A selector of one storage stream and one of all of them.
StorageSelectors == {{s1}, {s1, s2}}

AllSelectors == StorageSelectors \cup {{u1}}

WalkerSymmetry == Permutations({w1, w2})

\* Bound: buffered and virtual streams, which share no state of the log or of a walker,
\* are not used together; and nothing goes on once the streaming area is in fill-stop mode.
OneKindOfStream ==
    \/ nextId = 1 /\ rollover = [a \in Areas |-> TRUE] /\ \A w \in Attached : ~Buffered(wk[w].sel)
    \/ /\ rollover["streaming"]
       /\ \A s \in VirtualStreams : lastValues[s] = NULL
       /\ \A w \in Attached : Buffered(wk[w].sel)
=============================================================================

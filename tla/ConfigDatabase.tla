---------------------------- MODULE ConfigDatabase ----------------------------
(***************************************************************************)
(* ConfigDatabase and its RPCs in iotile/emulate/reference/                *)
(* controller_features/config_database.py: config variables are stored in  *)
(* a fixed area of flash, one entry for each time a variable is set, and   *)
(* streamed to the tile they are meant for when the tile resets.           *)
(*                                                                         *)
(* A variable stands for a target slot together with a variable id; the    *)
(* data of an entry is the sequence of chunks that were pushed to it.      *)
(***************************************************************************)
EXTENDS None, Integers, Sequences, FiniteSets, SequencesExt

CONSTANTS
    Variables,   \* pairs of a target slot and a variable id
    Chunks,      \* pieces of data that one RPC pushes
    ChunkSize,   \* the bytes of each chunk
    DataSize,    \* data_size
    MaxEntries,  \* bound on the entries stored at a time
    MaxChunks,   \* bound on the chunks pushed to one entry
    MaxAborted,  \* bound on the entries aborted
    Persistent,  \* whether the state of the device is saved and loaded
    TORN         \* what a crash leaves of a state being saved

ASSUME ConfigDatabaseAssumption ==
    /\ ChunkSize \in [Chunks -> Nat]
    /\ DataSize \in Nat /\ MaxEntries \in Nat /\ MaxChunks \in Nat /\ MaxAborted \in Nat
    /\ Persistent \in BOOLEAN

\* The var_id that start_entry stores in front of the data.
Header == 2

VARIABLES
    entries,      \* entries
    in_progress,  \* in_progress
    data_index,   \* data_index
    latest,       \* history: the entry last stored for each variable and not invalidated since
    aborted,      \* entries that were begun and given up since the last clear()
    refused,      \* whether start_entry() found no space since the last clear()
    saved         \* what save_state() wrote last: NULL, a state, or TORN

history == <<latest, aborted, refused>>
vars == <<entries, in_progress, data_index, latest, aborted, refused, saved>>

Init ==
    /\ entries = <<>>
    /\ in_progress = NULL
    /\ data_index = 0
    /\ latest = [v \in Variables |-> NULL]
    /\ aborted = 0 /\ refused = FALSE
    /\ saved = NULL

ChunksSize(data) == FoldSeq(LAMBDA c, n : ChunkSize[c] + n, 0, data)

\* The bytes of the chunks that were pushed, each told from any other.
Pushed(data) == FlattenSeq([i \in DOMAIN data |-> [k \in 1 .. ChunkSize[data[i]] |-> <<i, data[i], k>>]])

\* ConfigEntry.data_space; an entry whose start was refused has no header.
data_space(e) == (IF e.header THEN Header ELSE 0) + ChunksSize(e.data)

Remaining == DataSize - data_index

-----------------------------------------------------------------------------
(* Storing a variable in steps. *)

\* start_entry.  An entry in progress is given up; if there is no space the new
\* one is in progress all the same, without its header.
start_entry(v) ==
    /\ in_progress = NULL \/ aborted < MaxAborted
    /\ in_progress' = [var |-> v, data |-> <<>>, valid |-> TRUE, header |-> Remaining >= 0]
    /\ data_index' = IF Remaining >= 0 THEN data_index + Header ELSE data_index
    /\ refused' = (refused \/ Remaining < 0)
    /\ aborted' = IF in_progress # NULL THEN aborted + 1 ELSE aborted
    /\ UNCHANGED <<entries, latest, saved>>

add_data(c) ==
    /\ Remaining >= ChunkSize[c]
    /\ in_progress # NULL
    /\ Len(in_progress.data) < MaxChunks
    /\ in_progress' = [in_progress EXCEPT !.data = Append(@, c)]
    /\ UNCHANGED <<entries, data_index, history, saved>>

\* (The copies that are already there stay valid.)
AppendOnly(e) == Append(entries, e)

\* All previous copies of the variable are invalidated.
Superseding(e) ==
    Append([i \in DOMAIN entries |->
                [entries[i] EXCEPT !.valid = @ /\ entries[i].var # e.var]], e)

\* end_entry: without an entry in progress, or without data in it, nothing happens.
end_entry ==
    /\ in_progress # NULL
    /\ data_space(in_progress) # Header
    /\ Len(entries) < MaxEntries
    /\ entries' = Superseding(in_progress)
    /\ latest' = [latest EXCEPT ![in_progress.var] = in_progress]
    /\ data_index' = data_index + data_space(in_progress) - Header
    /\ in_progress' = NULL
    /\ UNCHANGED <<aborted, refused, saved>>

-----------------------------------------------------------------------------
(* The other operations. *)

\* add_direct; raises DataError if there is no space.
add_direct(v, c) ==
    LET e == [var |-> v, data |-> <<c>>, valid |-> TRUE, header |-> TRUE] IN
    /\ Remaining >= data_space(e)
    /\ Len(entries) < MaxEntries
    /\ entries' = Superseding(e)
    /\ latest' = [latest EXCEPT ![v] = e]
    /\ data_index' = data_index + data_space(e)
    /\ UNCHANGED <<in_progress, aborted, refused, saved>>

\* invalidate_config_var_entry; an entry that is obsolete is left alone.
invalidate(i) ==
    /\ entries[i].valid
    /\ entries' = [entries EXCEPT ![i].valid = FALSE]
    /\ latest' = [latest EXCEPT ![entries[i].var] = NULL]
    /\ UNCHANGED <<in_progress, data_index, aborted, refused, saved>>

Valid(e) == e.valid

Invalid(e) == ~e.valid

SpaceOf(es) == FoldSeq(LAMBDA e, n : data_space(e) + n, 0, es)

\* (Compaction reclaims the space of the entries it keeps.)
compact_keeping ==
    /\ entries' = SelectSeq(entries, Valid)
    /\ data_index' = data_index - SpaceOf(SelectSeq(entries, Valid))
    /\ UNCHANGED <<in_progress, history, saved>>

compact ==
    /\ entries' = SelectSeq(entries, Valid)
    /\ data_index' = data_index - SpaceOf(SelectSeq(entries, Invalid))
    /\ UNCHANGED <<in_progress, history, saved>>

clear ==
    /\ entries' = <<>>
    /\ in_progress' = NULL
    /\ data_index' = 0
    /\ latest' = [v \in Variables |-> NULL]
    /\ aborted' = 0 /\ refused' = FALSE
    /\ UNCHANGED saved

\* ConfigEntry.data, with its var_id in front if there was space for it.
Stored(e) == [b \in 1 .. (IF e.header THEN Header ELSE 0) |-> <<0, NULL, b>>] \o Pushed(e.data)

\* (All that is stored, from the start.)
generate_all(e) ==
    [b \in 1 .. Len(Stored(e)) |-> <<b - 1, Stored(e)[b]>>]

\* generate_rpcs: every byte after the first two, whatever these are, with the
\* offset it is sent for.  (The 16 bytes that one RPC holds are sent one by one.)
generate_rpcs(e) ==
    [b \in 1 .. Len(Stored(e)) - Header |-> <<b - 1, Stored(e)[b + Header]>>]

\* stream_matching: what is sent to its tile for a variable when that resets.
stream_matching(v) ==
    LET matching == SelectSeq(entries, LAMBDA e : e.valid /\ e.var = v)
    IN  FlattenSeq([i \in DOMAIN matching |-> generate_rpcs(matching[i])])

-----------------------------------------------------------------------------
(* Saving and loading the state of the device. *)

\* save_state opens the file, then serializes: only entries is marked complex, so
\* json refuses an entry in progress and leaves what it had written.
save_state ==
    /\ Persistent
    /\ saved' = IF in_progress = NULL
                THEN [entries |-> entries, data_index |-> data_index,
                      latest |-> latest, aborted |-> aborted, refused |-> refused]
                ELSE TORN
    /\ UNCHANGED <<entries, in_progress, data_index, history>>

\* load_state in a new process.
load_state ==
    /\ saved \notin {NULL, TORN}
    /\ entries' = saved.entries
    /\ in_progress' = NULL
    /\ data_index' = saved.data_index
    /\ latest' = saved.latest /\ aborted' = saved.aborted /\ refused' = saved.refused
    /\ UNCHANGED saved

Next ==
    \/ \E v \in Variables : start_entry(v)
    \/ \E c \in Chunks : add_data(c)
    \/ end_entry
    \/ \E v \in Variables, c \in Chunks : add_direct(v, c)
    \/ \E i \in DOMAIN entries : invalidate(i)
    \/ compact
    \/ clear
    \/ save_state
    \/ load_state

Spec == Init /\ [][Next]_vars

-----------------------------------------------------------------------------
(* Properties. *)

EntryType == [var : Variables, data : Seq(Chunks), valid : BOOLEAN, header : BOOLEAN]

\* The variables stay in their types; the database may be saved while an entry is in
\* progress, or not completely (ConfigDatabase.dump).
TypeOK ==
    /\ entries \in Seq(EntryType)
    /\ in_progress \in EntryType \cup {NULL}
    /\ data_index \in Int
    /\ latest \in [Variables -> EntryType \cup {NULL}]
    /\ aborted \in 0 .. MaxAborted /\ refused \in BOOLEAN
    /\ saved \in {NULL, TORN} \/ saved.entries \in Seq(EntryType)

\* However variables were set, replaced, invalidated, compacted, saved and loaded,
\* a tile that resets is sent the data that was last pushed for each of its
\* variables, each byte once and for its own offset, and nothing for a variable that
\* was invalidated.  When start_entry() had no space and there was some later, the
\* first two bytes are taken for the var_id and do not arrive.
LatestIsStreamed ==
    \A v \in Variables :
        LET data == IF latest[v] = NULL THEN <<>> ELSE Pushed(latest[v].data)
            lost == IF latest[v] = NULL \/ latest[v].header THEN 0 ELSE Header
        IN  stream_matching(v) = [b \in 1 .. Len(data) - lost |-> <<b - 1, data[b + lost]>>]

\* As long as no start_entry() was refused, data_index is the space of all entries,
\* valid or not, and of the headers of the entry in progress and of the ones that
\* were given up ("the data was already committed to persistent storage so that
\* space is wasted"), whatever was compacted, saved or loaded.
SpaceIsAccounted ==
    ~refused => data_index = SpaceOf(entries) + Header * aborted
                                + (IF in_progress = NULL THEN 0 ELSE Header)

=============================================================================

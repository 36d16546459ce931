----------------------------- MODULE WalkerFifo -----------------------------
(***************************************************************************)
(* What a buffered stream walker promises to its owner (the streamers, the *)
(* inputs of the nodes, the dump RPCs of the controller): it is a private  *)
(* FIFO of the stored readings that its selector matches.  Each reading    *)
(* that is stored arrives once in the FIFO of every walker that matches    *)
(* it; only the calls of its owner, and those on the log as a whole, take  *)
(* readings out of a FIFO or put them back.  The promise is void for a     *)
(* walker under which stored readings were dropped, until it is moved.     *)
(***************************************************************************)
EXTENDS Integers

CONSTANTS Walkers, Selectors, Readings, NULL,
    Stores,    \* readings are stored by their streams: a set of sets of streams
    Others     \* selectors of streams without storage, whose walkers are no FIFOs

VARIABLES
    sel,      \* the selector of each walker
    stored,   \* the readings that are stored
    given,    \* the last tag that was given to a reading
    unread,   \* the readings each walker has yet to return, oldest first by their tags
    broken,   \* the walkers under which readings were dropped; they have none to return
    caller,   \* the walker that was called last; NULL if the log was
    outcome   \* what that call returned or raised

vars == <<sel, stored, given, unread, broken, caller, outcome>>

Init ==
    /\ sel = [w \in Walkers |-> {}]
    /\ stored = {} /\ given = 0
    /\ unread = [w \in Walkers |-> {}]
    /\ broken = {}
    /\ caller = NULL
    /\ outcome = [error |-> "none", reading |-> NULL]

----------------------------------------------------------------------------
(* Calls of the log. *)

LogCalled(error) == caller' = NULL /\ outcome' = [error |-> error, reading |-> NULL]

\* Stored readings of one store may have been dropped, which breaks walkers on that store only;
\* what any other walker has yet to return is still there.
Dropping(S) ==
    LET dropped == stored \ stored' IN
    /\ \A q \in dropped : q.stream \in S
    /\ broken \subseteq broken'
    /\ \A w \in broken' \ broken : sel[w] \subseteq S
    /\ dropped = {} => broken' = broken
    /\ \A w \in Walkers : unread'[w] \subseteq stored'

\* A reading is stored, the newest, and reaches every walker that selects it and is not broken.
Arrive(r) ==
    /\ LogCalled("none")
    /\ r.tag = given + 1 /\ given' = given + 1
    /\ r \in stored' /\ stored' \subseteq stored \cup {r}
    /\ \E S \in Stores : r.stream \in S /\ Dropping(S)
    /\ unread' = [w \in Walkers |->
                    IF w \in broken' THEN {}
                    ELSE IF r.stream \in sel[w] THEN unread[w] \cup {r} ELSE unread[w]]
    /\ UNCHANGED sel

\* A push fails half way: nothing is stored.
Fail ==
    /\ LogCalled("OutOfSync")
    /\ given' = given + 1
    /\ stored' \subseteq stored
    /\ \E S \in Stores : Dropping(S)
    /\ unread' = [w \in Walkers |-> IF w \in broken' THEN {} ELSE unread[w]]
    /\ UNCHANGED sel

\* A push is refused, but the tag has been given.
Refuse ==
    /\ LogCalled("StorageFull")
    /\ given' = given + 1
    /\ UNCHANGED <<sel, stored, unread, broken>>

\* Configuration, or a push that stores nothing.
Quiet == LogCalled("none") /\ UNCHANGED <<sel, stored, given, unread, broken>>

Empty ==
    /\ LogCalled("none")
    /\ stored' = {} /\ broken' = {}
    /\ unread' = [w \in Walkers |-> {}]
    /\ UNCHANGED <<sel, given>>

DestroyAll ==
    /\ LogCalled("none")
    /\ broken' = {}
    /\ sel' = [w \in Walkers |-> {}] /\ unread' = [w \in Walkers |-> {}]
    /\ UNCHANGED <<stored, given>>

----------------------------------------------------------------------------
(* Calls of walker w. *)

Called(w, error, reading) ==
    /\ caller' = w /\ outcome' = [error |-> error, reading |-> reading]
    /\ UNCHANGED <<given, stored>>

\* w is left with these readings to return, whether it was broken or not.
Placed(w, readings) ==
    /\ broken' = broken \ {w}
    /\ unread' = [unread EXCEPT ![w] = readings]

Matching(s) == {q \in stored : q.stream \in s}

Create(w, s) ==
    /\ Called(w, "none", NULL)
    /\ sel[w] = {} /\ sel' = [sel EXCEPT ![w] = s]
    /\ Placed(w, {}) \/ Placed(w, Matching(s))

Destroy(w) == Called(w, "none", NULL) /\ sel' = [sel EXCEPT ![w] = {}] /\ Placed(w, {})

SkipAll(w) == Called(w, "none", NULL) /\ Placed(w, {}) /\ UNCHANGED sel

\* w goes back or forward to a stored reading q.
Seek(w, q) ==
    /\ Called(w, "none", NULL)
    /\ Placed(w, {r \in Matching(sel[w]) : q.tag <= r.tag})
    /\ UNCHANGED sel

\* There is no such place.
SeekNowhere(w) == Called(w, "Unresolved", NULL) /\ UNCHANGED <<sel, unread, broken>>

Oldest(r, w) == r \in unread[w] /\ \A q \in unread[w] : r.tag <= q.tag

\* The oldest unread reading is returned, and (pop) is read.
Take(r, w) ==
    /\ Called(w, "none", r)
    /\ Oldest(r, w)
    /\ unread' = [unread EXCEPT ![w] = @ \ {r}]
    /\ UNCHANGED <<sel, broken>>

Look(r, w) == Called(w, "none", r) /\ Oldest(r, w) /\ UNCHANGED <<sel, unread, broken>>

\* StreamEmptyError only when there is nothing left to read.
Starve(w) == Called(w, "StreamEmpty", NULL) /\ unread[w] = {} /\ UNCHANGED <<sel, unread, broken>>

\* A broken walker may return anything.
ReadBroken(w) == w \in broken /\ Called(w, outcome'.error, outcome'.reading) /\ UNCHANGED <<sel, unread, broken>>

\* A walker on a stream without storage returns readings of its own stream only.
ReadOther(w) ==
    /\ sel[w] \in Others
    /\ \/ Called(w, "StreamEmpty", NULL)
       \/ /\ Called(w, "none", outcome'.reading)
          /\ outcome'.reading # NULL => outcome'.reading.stream \in sel[w]
    /\ UNCHANGED <<sel, unread, broken>>

Call(w) ==
    \/ \E s \in Selectors : Create(w, s)
    \/ Destroy(w) \/ SkipAll(w) \/ SeekNowhere(w)
    \/ \E q \in stored : Seek(w, q)
    \/ \E r \in unread[w] : Take(r, w) \/ Look(r, w)
    \/ Starve(w) \/ ReadBroken(w) \/ ReadOther(w)

Next ==
    \/ \E r \in Readings : Arrive(r)
    \/ Fail \/ Refuse \/ Quiet \/ Empty \/ DestroyAll
    \/ \E w \in Walkers : Call(w)

Spec == Init /\ [][Next]_vars
=============================================================================

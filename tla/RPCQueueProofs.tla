---------------------------- MODULE RPCQueueProofs ----------------------------
(***************************************************************************)
(* The account that the RPC queue of an emulated device keeps of its work, *)
(* proved for all tiles, RPCs and calls, from inside the loop and outside; *)
(* and, further down, the order in which such a device resets its tiles.   *)
(*                                                                         *)
(* The argument for the queue: a call that was made is in one place, on    *)
(* the queue, in its handler, deferred by its tile, or gone; it is         *)
(* answered only when it leaves for the last, and what was not counted     *)
(* down then has no answer.                                                *)
(***************************************************************************)
EXTENDS RPCQueue, DeviceReset, SequenceTheorems, FiniteSetTheorems, TLAPS

Queued(c) == \E n \in DOMAIN queue : queue[n] = c
Deferred == {t \in Targets : pending[t] # NULL}

\* The calls that are gone and still counted.
Lost == {c \in Gone : response[c] \in {"cancelled", "unset"}}

Responses == {"unset", "result", "exception", "cancelled"}

TypesInv ==
    /\ queue \in Seq(Calls)
    /\ unfinished \in Int
    /\ target \in [Calls -> Targets \cup {NULL}]
    /\ response \in [Calls -> Responses]
    /\ caller \in [Calls -> {"idle", "waiting", "answered", "timed out"}]
    /\ running \in Calls \cup {NULL}
    /\ nested \in InternalCalls \cup {NULL}
    /\ pending \in [Targets -> Calls \cup {NULL}]
    /\ dispatcher \in {"created", "running", "dead", "stopped"}

\* No call is in two places.
OnePlace ==
    /\ \A i, j \in DOMAIN queue : i # j => queue[i] # queue[j]
    /\ \A n \in DOMAIN queue : queue[n] # running
    /\ \A t \in Targets : pending[t] # NULL =>
         /\ target[pending[t]] = t
         /\ pending[t] # running
         /\ \A n \in DOMAIN queue : queue[n] # pending[t]

\* What is still to be answered was called, and has no answer but that its caller gave up.
InHand ==
    /\ \A n \in DOMAIN queue : target[queue[n]] # NULL /\ response[queue[n]] \in {"unset", "cancelled"}
    /\ running # NULL => target[running] # NULL /\ response[running] \in {"unset", "cancelled"}
    /\ \A t \in Targets : pending[t] # NULL => response[pending[t]] \in {"unset", "cancelled"}

\* Who waits has called, who was answered has an answer, and only a caller inside the
\* loop gives up its future.
CallersInv ==
    /\ \A c \in Calls : target[c] = NULL => caller[c] = "idle" /\ response[c] = "unset"
    /\ \A c \in Calls : target[c] # NULL => caller[c] # "idle"
    /\ \A c \in Calls : caller[c] = "answered" => IsFinished(c)
    /\ nested # NULL => caller[nested] = "waiting"
    /\ \A c \in Calls : response[c] = "cancelled" => c \in InternalCalls

\* A tile defers one call at a time, and runs none meanwhile.
TilesInv ==
    /\ \A s, t \in Deferred : s[1] = t[1] => s = t
    /\ \A t \in Deferred : running # NULL => target[running][1] # t[1]

AccountInv ==
    /\ IsFiniteSet(Deferred) /\ IsFiniteSet(Lost)
    /\ unfinished = Len(queue) + (IF running = NULL THEN 0 ELSE 1) + Cardinality(Deferred) + Cardinality(Lost)

\* Inductive.
QInv == TypesInv /\ OnePlace /\ InHand /\ CallersInv /\ TilesInv /\ AccountInv /\ DiesOfTimeoutsOnly

-----------------------------------------------------------------------------
(* Where calls are. *)

LEMMA GoneIs ==
  \A c : c \in Gone <=>
    c \in Calls /\ target[c] # NULL /\ ~Queued(c) /\ c # running /\ \A t \in Targets : pending[t] # c
  BY DEF Gone, Queued

LEMMA TailOfQueue ==
  ASSUME TypesInv, OnePlace, queue # <<>>, queue' = Tail(queue)
  PROVE  /\ Head(queue) \in Calls /\ Queued(Head(queue))
         /\ 1 \in DOMAIN queue /\ Head(queue) = queue[1]
         /\ queue' \in Seq(Calls) /\ Len(queue') = Len(queue) - 1 /\ Len(queue) \in Nat
         /\ \A n \in DOMAIN queue' : /\ n + 1 \in DOMAIN queue /\ queue'[n] = queue[n + 1]
                                     /\ queue'[n] # Head(queue)
         /\ \A i, j \in DOMAIN queue' : i # j => queue'[i] # queue'[j]
         /\ \A c : Queued(c)' <=> Queued(c) /\ c # Head(queue)
<1>0. queue \in Seq(Calls) /\ queue # <<>>
  BY DEF TypesInv
<1>1. queue \in Seq(Calls) /\ 1 \in DOMAIN queue /\ Head(queue) = queue[1]
  BY <1>0
<1>2. \A n \in DOMAIN queue' : n + 1 \in DOMAIN queue /\ n + 1 # 1 /\ queue'[n] = queue[n + 1]
  BY <1>1
<1>3. \A i, j \in DOMAIN queue' : i # j => i + 1 # j + 1
  BY <1>1
<1>4. \A i, j \in DOMAIN queue : i # j => queue[i] # queue[j]
  BY DEF OnePlace
<1>5. \A i, j \in DOMAIN queue' : i # j => queue'[i] # queue'[j]
  BY <1>2, <1>3, <1>4
<1>6. \A n \in DOMAIN queue' : queue'[n] # Head(queue)
  BY <1>1, <1>2, <1>4
<1>7. \A n \in DOMAIN queue : n # 1 => n - 1 \in DOMAIN queue' /\ queue'[n - 1] = queue[n]
  BY <1>1
<1>8. \A c : Queued(c)' <=> Queued(c) /\ c # Head(queue)
  <2> SUFFICES ASSUME NEW c PROVE Queued(c)' <=> Queued(c) /\ c # Head(queue)
    OBVIOUS
  <2>1. ASSUME NEW n \in DOMAIN queue', queue'[n] = c PROVE Queued(c) /\ c # Head(queue)
    BY <1>2, <1>6, <2>1 DEF Queued
  <2>2. ASSUME NEW n \in DOMAIN queue, queue[n] = c, c # Head(queue) PROVE Queued(c)'
    <3>1. n - 1 \in DOMAIN queue' /\ queue'[n - 1] = c
      BY <1>1, <1>7, <2>2
    <3> QED
      BY <3>1 DEF Queued
  <2> QED
    BY <2>1, <2>2 DEF Queued
<1> QED
  BY <1>1, <1>2, <1>5, <1>6, <1>8 DEF Queued

\* A step that moves no call, and answers none.
LEMMA NothingMoves ==
  ASSUME QInv, UNCHANGED <<queue, unfinished, target, running, pending>>,
         response' \in [Calls -> Responses],
         \A c \in Calls : response[c] \in {"unset", "cancelled"} <=> response'[c] \in {"unset", "cancelled"}
  PROVE  OnePlace' /\ InHand' /\ TilesInv' /\ AccountInv' /\ Gone' = Gone
<1>1. OnePlace'
  BY DEF QInv, OnePlace
<1>2. Gone' = Gone /\ Deferred' = Deferred
  BY DEF Gone, Deferred
<1>3. Lost' = Lost
  BY <1>2, GoneIs DEF Lost
<1>4. InHand'
  <2>0. queue \in Seq(Calls)
    BY DEF QInv, TypesInv
  <2>1. \A n \in DOMAIN queue : queue[n] \in Calls
    BY <2>0
  <2>2. \A t \in Targets : pending[t] # NULL => pending[t] \in Calls
    BY DEF QInv, TypesInv
  <2>3. running # NULL => running \in Calls
    BY DEF QInv, TypesInv
  <2> QED
    BY <2>1, <2>2, <2>3 DEF QInv, InHand
<1>5. TilesInv' /\ AccountInv'
  BY <1>2, <1>3 DEF QInv, TilesInv, AccountInv
<1> QED
  BY <1>1, <1>2, <1>4, <1>5

\* A call that leaves unanswered goes on being counted; otherwise it is counted down.
Leaves(c) ==
    \/ response[c] = "cancelled" /\ response' = response /\ unfinished' = unfinished
    \/ /\ response[c] = "unset" /\ unfinished' = unfinished - 1
       /\ \E kind \in {"result", "exception"} : response' = [response EXCEPT ![c] = kind]

LEMMA LeavingIsCounted ==
  ASSUME TypesInv, IsFiniteSet(Lost), NEW c \in Calls, c \notin Gone, Gone' = Gone \cup {c}, Leaves(c)
  PROVE  /\ IsFiniteSet(Lost') /\ Cardinality(Lost) \in Nat /\ Cardinality(Lost') \in Nat
         /\ unfinished' \in Int /\ unfinished' - Cardinality(Lost') = unfinished - Cardinality(Lost) - 1
         /\ response' \in [Calls -> Responses]
<1>1. Cardinality(Lost) \in Nat /\ unfinished \in Int /\ c \notin Lost
  BY FS_CardinalityType DEF TypesInv, Lost
<1>2. CASE response[c] = "cancelled" /\ response' = response /\ unfinished' = unfinished
  <2>1. Lost' = Lost \cup {c}
    BY <1>2 DEF Lost
  <2>2. IsFiniteSet(Lost') /\ Cardinality(Lost') = Cardinality(Lost) + 1
    BY <1>1, <2>1, FS_AddElement
  <2>3. unfinished' = unfinished /\ response' \in [Calls -> Responses]
    BY <1>2 DEF TypesInv
  <2> HIDE <1>2
  <2> QED
    BY <1>1, <2>2, <2>3
<1>3. ASSUME response[c] = "unset", unfinished' = unfinished - 1, NEW kind \in {"result", "exception"},
             response' = [response EXCEPT ![c] = kind]
      PROVE  Lost' = Lost /\ response' \in [Calls -> Responses]
  <2>1. \A d \in Calls : response'[d] = IF d = c THEN kind ELSE response[d]
    BY <1>3 DEF TypesInv
  <2>2. \A d \in Gone : d \in Calls
    BY DEF Gone
  <2>3. response' \in [Calls -> Responses]
    BY <1>3 DEF TypesInv, Responses
  <2> QED
    BY <2>1, <2>2, <2>3 DEF Lost
<1> QED
  BY <1>1, <1>2, <1>3 DEF Leaves

-----------------------------------------------------------------------------
(* Callers. *)

LEMMA PutKeeps ==
  ASSUME QInv, NEW c \in Calls, NEW t \in Targets, PutRpc(c, t),
         UNCHANGED <<response, running, pending, dispatcher>>,
         nested' = nested \/ (c \in InternalCalls /\ nested' = c)
  PROVE  QInv'
<1> USE DEF QInv
<1>1. /\ target[c] = NULL /\ t # NULL
      /\ target' = [target EXCEPT ![c] = t] /\ queue' = Append(queue, c)
      /\ unfinished' = unfinished + 1 /\ caller' = [caller EXCEPT ![c] = "waiting"]
  BY CallsAssumption DEF PutRpc, Targets
<1>0. queue \in Seq(Calls)
  BY DEF TypesInv
<1>2. queue \in Seq(Calls) /\ Len(queue) \in Nat
  BY <1>0
<1>3. /\ \A n \in DOMAIN queue : queue[n] # c
      /\ running # c
      /\ \A s \in Targets : pending[s] # c
  <2>1. NULL \notin Targets /\ c # NULL
    BY CallsAssumption DEF Targets, Calls
  <2> QED
    BY <1>1, <2>1 DEF InHand, OnePlace
<1>4. /\ \A d \in Calls : target'[d] = IF d = c THEN t ELSE target[d]
      /\ \A d \in Calls : caller'[d] = IF d = c THEN "waiting" ELSE caller[d]
      /\ response[c] = "unset"
  BY <1>1 DEF TypesInv, CallersInv
<1>5. /\ DOMAIN queue' = 1 .. Len(queue) + 1 /\ DOMAIN queue = 1 .. Len(queue)
      /\ Len(queue') = Len(queue) + 1 /\ queue' \in Seq(Calls)
      /\ \A n \in DOMAIN queue : queue'[n] = queue[n]
      /\ queue'[Len(queue) + 1] = c
  BY <1>1, <1>2
<1>6. \A n \in DOMAIN queue' : (n \in DOMAIN queue /\ queue'[n] = queue[n]) \/ (n = Len(queue) + 1 /\ queue'[n] = c)
  <2>1. \A n \in 1 .. Len(queue) + 1 : n \in 1 .. Len(queue) \/ n = Len(queue) + 1
    BY <1>2
  <2> QED
    BY <1>5, <2>1, Zenon
<1>7. \A n \in DOMAIN queue : queue[n] \in Calls
  BY <1>2
<1>8. TypesInv'
  <2>1. target' \in [Calls -> Targets \cup {NULL}]
    <3>1. target \in [Calls -> Targets \cup {NULL}]
      BY DEF TypesInv
    <3> QED
      BY <3>1, <1>1
  <2>4. caller' \in [Calls -> {"idle", "waiting", "answered", "timed out"}]
    BY <1>1 DEF TypesInv
  <2>2. unfinished' \in Int
    <3>1. unfinished \in Int /\ unfinished' = unfinished + 1
      BY <1>1 DEF TypesInv
    <3> QED
      BY <3>1
  <2>3. nested' \in InternalCalls \cup {NULL}
    BY DEF TypesInv
  <2> QED
    BY <1>5, <2>1, <2>2, <2>3, <2>4 DEF TypesInv
<1>9. OnePlace'
  <2>1. \A i, j \in DOMAIN queue' : i # j => queue'[i] # queue'[j]
    BY <1>3, <1>6 DEF OnePlace
  <2>2. \A n \in DOMAIN queue' : queue'[n] # running
    BY <1>3, <1>6 DEF OnePlace
  <2>3. \A s \in Targets : pending[s] # NULL =>
         /\ target'[pending[s]] = s
         /\ pending[s] # running
         /\ \A n \in DOMAIN queue' : queue'[n] # pending[s]
    <3>1. \A s \in Targets : pending[s] # NULL => pending[s] \in Calls
      BY DEF TypesInv
    <3> QED
      BY <1>3, <1>4, <1>6, <3>1 DEF OnePlace
  <2> QED
    BY <2>1, <2>2, <2>3 DEF OnePlace
<1>10. InHand'
  <2>1. running # NULL => running \in Calls
    BY DEF TypesInv
  <2> QED
    BY <1>1, <1>3, <1>4, <1>6, <1>7, <2>1 DEF InHand
<1>11. CallersInv'
  <2>1. nested # NULL => nested \in Calls
    BY DEF TypesInv, Calls
  <2> QED
    BY <1>1, <1>4, <2>1 DEF CallersInv, IsFinished
<1>12. \A d : Queued(d)' <=> Queued(d) \/ d = c
  <2> SUFFICES ASSUME NEW d PROVE Queued(d)' <=> Queued(d) \/ d = c
    OBVIOUS
  <2>1. Queued(d) => Queued(d)'
    <3> SUFFICES ASSUME NEW n \in DOMAIN queue, queue[n] = d PROVE Queued(d)'
      BY DEF Queued
    <3>1. n \in DOMAIN queue' /\ queue'[n] = d
      BY <1>2, <1>5
    <3> QED
      BY <3>1 DEF Queued
  <2>2. d = c => Queued(d)'
    <3>1. Len(queue) + 1 \in DOMAIN queue' /\ queue'[Len(queue) + 1] = c
      BY <1>2, <1>5
    <3> QED
      BY <3>1 DEF Queued
  <2>3. Queued(d)' => Queued(d) \/ d = c
    BY <1>6 DEF Queued
  <2> QED
    BY <2>1, <2>2, <2>3
<1>13. Gone' = Gone /\ Deferred' = Deferred
  <2>1. \A d : d \in Gone' <=>
          d \in Calls /\ target'[d] # NULL /\ ~Queued(d)' /\ d # running /\ \A s \in Targets : pending[s] # d
    BY DEF Gone, Queued
  <2>2. \A d : d \in Gone' <=> d \in Gone
    BY <1>1, <1>4, <1>12, <2>1, GoneIs
  <2> QED
    BY <2>2 DEF Deferred, Gone
<1>14. Lost' = Lost
  BY <1>13 DEF Lost
<1>15. TilesInv'
  <2>1. running # NULL => running \in Calls
    BY DEF TypesInv
  <2> QED
    BY <1>3, <1>4, <1>13, <2>1 DEF TilesInv
<1>16. AccountInv'
  <2>1. Cardinality(Deferred) \in Nat /\ Cardinality(Lost) \in Nat
    BY FS_CardinalityType DEF AccountInv
  <2>2. unfinished' = unfinished + 1 /\ Len(queue') = Len(queue) + 1 /\ running' = running
    BY <1>1, <1>5
  <2> QED
    BY <1>2, <1>13, <1>14, <2>1, <2>2, SMTT(30) DEF AccountInv
<1>17. DiesOfTimeoutsOnly'
  BY <1>13 DEF DiesOfTimeoutsOnly
<1> QED
  BY <1>8, <1>9, <1>10, <1>11, <1>15, <1>16, <1>17

\* start(), and callers that return or give up, move no call.
LEMMA CallersKeep ==
  ASSUME QInv, Start \/ \E c \in Calls : Return(c) \/ Timeout(c)
  PROVE  QInv'
<1> USE DEF QInv
<1>1. CASE Start
  <2>1. OnePlace' /\ InHand' /\ TilesInv' /\ AccountInv' /\ Gone' = Gone
    BY <1>1, NothingMoves DEF Start, TypesInv
  <2>2. TypesInv' /\ CallersInv'
    BY <1>1 DEF Start, TypesInv, CallersInv, IsFinished
  <2>3. DiesOfTimeoutsOnly'
    BY <1>1 DEF Start, DiesOfTimeoutsOnly
  <2> QED
    BY <2>1, <2>2, <2>3
<1>2. ASSUME NEW c \in Calls, Return(c) PROVE QInv'
  <2>1. OnePlace' /\ InHand' /\ TilesInv' /\ AccountInv' /\ Gone' = Gone
    BY <1>2, NothingMoves DEF Return, TypesInv
  <2>2. TypesInv'
    BY <1>2 DEF Return, TypesInv
  <2>3. CallersInv'
    <3>1. \A d \in Calls : caller'[d] = IF d = c THEN "answered" ELSE caller[d]
      BY <1>2 DEF Return, TypesInv
    <3>2. nested # NULL => nested \in Calls
      BY DEF TypesInv, Calls
    <3> QED
      BY <1>2, <3>1, <3>2 DEF Return, CallersInv, IsFinished
  <2>4. DiesOfTimeoutsOnly'
    BY <1>2, <2>1 DEF Return, DiesOfTimeoutsOnly
  <2> QED
    BY <2>1, <2>2, <2>3, <2>4
<1>3. ASSUME NEW c \in Calls, Timeout(c) PROVE QInv'
  <2>0. \A d \in Calls : /\ caller'[d] = IF d = c THEN "timed out" ELSE caller[d]
                         /\ response'[d] = IF d = c /\ c \in InternalCalls THEN "cancelled" ELSE response[d]
    BY <1>3 DEF Timeout, TypesInv
  <2>1. response' \in [Calls -> Responses]
    BY <1>3 DEF Timeout, TypesInv, Responses
  <2>2. \A d \in Calls : response[d] \in {"unset", "cancelled"} <=> response'[d] \in {"unset", "cancelled"}
    BY <1>3, <2>0 DEF Timeout, IsFinished
  <2>3. OnePlace' /\ InHand' /\ TilesInv' /\ AccountInv' /\ Gone' = Gone
    BY <1>3, <2>1, <2>2, NothingMoves DEF Timeout
  <2>4. TypesInv'
    BY <1>3, <2>1 DEF Timeout, TypesInv
  <2>5. CallersInv'
    <3>1. nested # NULL => nested \in Calls
      BY DEF TypesInv, Calls
    <3>2. \A d \in Calls : /\ target'[d] = NULL => caller'[d] = "idle" /\ response'[d] = "unset"
                           /\ target'[d] # NULL => caller'[d] # "idle"
      <4>1. target' = target /\ caller[c] = "waiting"
        BY <1>3 DEF Timeout
      <4>2. target[c] # NULL
        BY <4>1 DEF CallersInv
      <4> QED
        BY <4>1, <4>2, <2>0 DEF CallersInv
    <3>3. \A d \in Calls : caller'[d] = "answered" => response'[d] # "unset"
      BY <2>0 DEF CallersInv, IsFinished
    <3>4. nested' # NULL => caller'[nested'] = "waiting"
      BY <1>3, <2>0, <3>1 DEF Timeout, CallersInv
    <3>5. \A d \in Calls : response'[d] = "cancelled" => d \in InternalCalls
      BY <2>0 DEF CallersInv
    <3> QED
      BY <3>2, <3>3, <3>4, <3>5 DEF CallersInv, IsFinished
  <2>6. DiesOfTimeoutsOnly'
    <3>1. dispatcher' = dispatcher /\ \A d \in Calls : response[d] = "cancelled" => response'[d] = "cancelled"
      BY <1>3, <2>0 DEF Timeout
    <3> QED
      BY <2>3, <3>1 DEF DiesOfTimeoutsOnly, Gone
  <2> QED
    BY <2>3, <2>4, <2>5, <2>6
<1> QED
  BY <1>1, <1>2, <1>3

LEMMA CallsKeep ==
  ASSUME QInv, \E c \in Calls, t \in Targets : Call(c, t) \/ CallFromHandler(c, t)
  PROVE  QInv'
<1>1. ASSUME NEW c \in Calls, NEW t \in Targets, Call(c, t) PROVE QInv'
  <2>1. /\ PutRpc(c, t)
        /\ UNCHANGED <<response, running, pending, dispatcher>>
        /\ nested' = nested
    BY <1>1 DEF Call
  <2> QED
    BY <2>1, PutKeeps, Zenon
<1>2. ASSUME NEW c \in Calls, NEW t \in Targets, CallFromHandler(c, t) PROVE QInv'
  <2>1. /\ PutRpc(c, t)
        /\ UNCHANGED <<response, running, pending, dispatcher>>
        /\ c \in InternalCalls /\ nested' = c
    BY <1>2 DEF CallFromHandler
  <2> QED
    BY <2>1, PutKeeps, Zenon
<1> QED
  BY <1>1, <1>2

-----------------------------------------------------------------------------
(* The dispatcher, and the tiles that finish what they deferred. *)

LEMMA AnswerIsLeaving ==
  ASSUME NEW c \in Calls, NEW kind \in {"result", "exception"}, Answer(c, kind),
         response[c] \in {"unset", "cancelled"}
  PROVE  /\ Leaves(c)
         /\ dispatcher' = dispatcher \/ (dispatcher' = "dead" /\ response[c] = "cancelled")
<1>1. CASE IsFinished(c)
  BY <1>1 DEF Answer, IsFinished, Leaves
<1>2. CASE ~IsFinished(c)
  <2>1. /\ response[c] = "unset" /\ response' = [response EXCEPT ![c] = kind]
        /\ unfinished' = unfinished - 1 /\ dispatcher' = dispatcher
    BY <1>2 DEF Answer, IsFinished, TaskDone
  <2> QED
    BY <2>1, Zenon DEF Leaves
<1> QED
  BY <1>1, <1>2

\* Whatever place a call leaves for the last, who called and what is counted agree.
LEMMA LeavingKeeps ==
  ASSUME QInv, NEW c \in Calls, c \notin Gone, target[c] # NULL, Gone' = Gone \cup {c},
         Leaves(c), UNCHANGED <<target, caller, nested>>,
         dispatcher' = dispatcher \/ (dispatcher' = "dead" /\ response[c] = "cancelled")
  PROVE  /\ CallersInv' /\ DiesOfTimeoutsOnly'
         /\ \A d \in Calls : d # c => response'[d] = response[d]
<1> USE DEF QInv
<1>1. /\ \A d \in Calls : d # c => response'[d] = response[d]
      /\ response'[c] # "unset" /\ (response'[c] = "cancelled" <=> response[c] = "cancelled")
  <2>1. response \in [Calls -> Responses]
    BY DEF TypesInv
  <2> QED
    BY <2>1 DEF Leaves
<1>2. CallersInv'
  <2>1. \A d \in Calls : target[d] = NULL => d # c /\ response'[d] = response[d]
    BY <1>1
  <2>2. \A d \in Calls : response'[d] = "cancelled" <=> response[d] = "cancelled"
    BY <1>1
  <2>3. \A d \in Calls : response[d] # "unset" => response'[d] # "unset"
    BY <1>1
  <2> QED
    BY <2>1, <2>2, <2>3 DEF CallersInv, IsFinished
<1>3. DiesOfTimeoutsOnly'
  <2>1. CASE dispatcher' = dispatcher
    <3>1. \A d \in Calls : response[d] = "cancelled" => response'[d] = "cancelled"
      BY <1>1
    <3>2. \A d \in Gone : d \in Calls /\ d \in Gone'
      BY DEF Gone
    <3> QED
      BY <2>1, <3>1, <3>2 DEF DiesOfTimeoutsOnly
  <2>2. CASE response[c] = "cancelled"
    BY <1>1, <2>2 DEF DiesOfTimeoutsOnly, CallersInv
  <2> QED
    BY <2>1, <2>2
<1> QED
  BY <1>1, <1>2, <1>3

LEMMA DispatchBusyKeeps ==
  ASSUME QInv, DispatchBusy
  PROVE  QInv'
<1> DEFINE c == Head(queue)
<1> USE DEF QInv
<1>1. /\ queue # <<>> /\ queue' = Tail(queue) /\ running = NULL /\ running' = NULL
      /\ UNCHANGED <<target, caller, nested, pending>> /\ Answer(c, "exception")
      /\ dispatcher = "running"
  BY DEF DispatchBusy, Dispatching
<1>2. /\ c \in Calls /\ Queued(c) /\ 1 \in DOMAIN queue /\ c = queue[1]
      /\ queue' \in Seq(Calls) /\ Len(queue') = Len(queue) - 1 /\ Len(queue) \in Nat
      /\ \A n \in DOMAIN queue' : /\ n + 1 \in DOMAIN queue /\ queue'[n] = queue[n + 1]
                                  /\ queue'[n] # c
      /\ \A i, j \in DOMAIN queue' : i # j => queue'[i] # queue'[j]
      /\ \A d : Queued(d)' <=> Queued(d) /\ d # c
  BY <1>1, TailOfQueue
<1> HIDE DEF c
<1>3. /\ target[c] # NULL /\ response[c] \in {"unset", "cancelled"}
      /\ \A t \in Targets : pending[t] # c
      /\ c # NULL
  <2>1. c # NULL
    BY <1>2, CallsAssumption DEF Calls
  <2> QED
    BY <1>2, <2>1 DEF InHand, OnePlace
<1>4. Leaves(c) /\ (dispatcher' = dispatcher \/ (dispatcher' = "dead" /\ response[c] = "cancelled"))
  BY <1>1, <1>2, <1>3, AnswerIsLeaving
<1>5. c \notin Gone /\ Gone' = Gone \cup {c}
  <2>1. \A d : d \in Gone' <=>
          d \in Calls /\ target[d] # NULL /\ ~Queued(d)' /\ d # NULL /\ \A t \in Targets : pending[t] # d
    BY <1>1 DEF Gone, Queued
  <2>2. \A d : d \in Gone' <=> d \in Gone \/ d = c
    BY <1>1, <1>2, <1>3, <2>1, GoneIs
  <2>3. c \notin Gone
    BY <1>2, GoneIs
  <2> QED
    BY <2>2, <2>3
<1>6. CallersInv' /\ DiesOfTimeoutsOnly' /\ \A d \in Calls : d # c => response'[d] = response[d]
  BY <1>1, <1>2, <1>3, <1>4, <1>5, LeavingKeeps
<1>7. /\ IsFiniteSet(Lost') /\ Cardinality(Lost) \in Nat /\ Cardinality(Lost') \in Nat
      /\ unfinished' \in Int /\ unfinished' - Cardinality(Lost') = unfinished - Cardinality(Lost) - 1
      /\ response' \in [Calls -> Responses]
  BY <1>2, <1>4, <1>5, LeavingIsCounted DEF AccountInv
<1>8. TypesInv'
  BY <1>1, <1>2, <1>4, <1>7 DEF TypesInv
<1>9. OnePlace'
  <2>1. \A n \in DOMAIN queue' : queue'[n] # running'
    BY <1>1, <1>2 DEF OnePlace
  <2>2. \A t \in Targets : pending[t] # NULL => \A n \in DOMAIN queue' : queue'[n] # pending[t]
    BY <1>2 DEF OnePlace
  <2> QED
    BY <1>1, <1>2, <2>1, <2>2 DEF OnePlace
<1>10. InHand'
  <2>0. queue \in Seq(Calls)
    BY DEF TypesInv
  <2>1. \A n \in DOMAIN queue : queue[n] \in Calls
    BY <2>0
  <2>2. \A n \in DOMAIN queue' : target[queue'[n]] # NULL /\ response'[queue'[n]] \in {"unset", "cancelled"}
    BY <1>2, <1>6, <2>1 DEF InHand
  <2>3. \A t \in Targets : pending[t] # NULL => response'[pending[t]] \in {"unset", "cancelled"}
    <3>1. \A t \in Targets : pending[t] # NULL => pending[t] \in Calls
      BY DEF TypesInv
    <3> QED
      BY <1>3, <1>6, <3>1 DEF InHand
  <2> QED
    BY <1>1, <2>2, <2>3 DEF InHand
<1>11. TilesInv' /\ Deferred' = Deferred
  BY <1>1 DEF TilesInv, Deferred
<1>12. AccountInv'
  <2>1. Cardinality(Deferred) \in Nat /\ IsFiniteSet(Deferred)
    BY FS_CardinalityType DEF AccountInv
  <2>2. unfinished = Len(queue) + 0 + Cardinality(Deferred) + Cardinality(Lost) /\ unfinished \in Int
    BY <1>1 DEF AccountInv, TypesInv
  <2>3. unfinished' = Len(queue') + 0 + Cardinality(Deferred) + Cardinality(Lost')
    BY <1>2, <1>7, <2>1, <2>2, SMTT(30)
  <2> QED
    BY <1>1, <1>7, <1>11, <2>1, <2>3 DEF AccountInv
<1> QED
  BY <1>6, <1>8, <1>9, <1>10, <1>11, <1>12

\* A call goes from the queue to its handler, which its tile was not too busy for.
LEMMA DispatchKeeps ==
  ASSUME QInv, Dispatch
  PROVE  QInv'
<1> DEFINE c == Head(queue)
<1> USE DEF QInv
<1>1. /\ queue # <<>> /\ queue' = Tail(queue) /\ running = NULL /\ running' = c
      /\ UNCHANGED <<unfinished, target, response, caller, nested, pending, dispatcher>>
      /\ ~TileBusy(target[c][1])
  BY DEF Dispatch, Dispatching, Refuses
<1>2. /\ c \in Calls /\ Queued(c) /\ 1 \in DOMAIN queue /\ c = queue[1]
      /\ queue' \in Seq(Calls) /\ Len(queue') = Len(queue) - 1 /\ Len(queue) \in Nat
      /\ \A n \in DOMAIN queue' : /\ n + 1 \in DOMAIN queue /\ queue'[n] = queue[n + 1]
                                  /\ queue'[n] # c
      /\ \A i, j \in DOMAIN queue' : i # j => queue'[i] # queue'[j]
      /\ \A d : Queued(d)' <=> Queued(d) /\ d # c
  BY <1>1, TailOfQueue
<1> HIDE DEF c
<1>3. /\ target[c] # NULL /\ response[c] \in {"unset", "cancelled"}
      /\ \A t \in Targets : pending[t] # NULL => pending[t] # c
      /\ c # NULL
  <2>1. c # NULL
    BY <1>2, CallsAssumption DEF Calls
  <2> QED
    BY <1>2, <2>1 DEF InHand, OnePlace
<1>4. Gone' = Gone /\ Deferred' = Deferred
  <2>1. \A d : d \in Gone' <=>
          d \in Calls /\ target[d] # NULL /\ ~Queued(d)' /\ d # c /\ \A t \in Targets : pending[t] # d
    BY <1>1 DEF Gone, Queued
  <2>2. \A d \in Calls : d # NULL
    BY CallsAssumption DEF Calls
  <2>3. \A d : d \in Gone' <=> d \in Gone
    BY <1>1, <1>2, <2>1, <2>2, GoneIs
  <2>4. Gone' = Gone
    BY <2>3 DEF Gone
  <2> QED
    BY <1>1, <2>4 DEF Deferred
<1>5. TypesInv' /\ CallersInv' /\ DiesOfTimeoutsOnly'
  BY <1>1, <1>2, <1>4 DEF TypesInv, CallersInv, IsFinished, DiesOfTimeoutsOnly
<1>6. OnePlace'
  <2>2. \A t \in Targets : pending[t] # NULL => \A n \in DOMAIN queue' : queue'[n] # pending[t]
    BY <1>2 DEF OnePlace
  <2> QED
    BY <1>1, <1>2, <1>3, <2>2 DEF OnePlace
<1>7. InHand'
  <2>2. \A n \in DOMAIN queue' : target[queue'[n]] # NULL /\ response[queue'[n]] \in {"unset", "cancelled"}
    BY <1>2 DEF InHand
  <2> QED
    BY <1>1, <1>3, <2>2 DEF InHand
<1>8. TilesInv'
  <2>1. target[c] \in Tiles \X RpcIds
    BY <1>2, <1>3 DEF TypesInv, Targets
  <2>2. \A t \in Deferred : t[1] # target[c][1]
    <3> SUFFICES ASSUME NEW t \in Targets, pending[t] # NULL, t[1] = target[c][1] PROVE FALSE
      BY DEF Deferred
    <3>1. t = <<t[1], t[2]>> /\ t[2] \in RpcIds
      BY DEF Targets
    <3> QED
      BY <1>1, <3>1 DEF TileBusy
  <2> QED
    BY <1>1, <1>4, <2>2 DEF TilesInv
<1>9. AccountInv'
  <2>1. Lost' = Lost
    BY <1>1, <1>4 DEF Lost
  <2>2. Cardinality(Deferred) \in Nat /\ IsFiniteSet(Deferred) /\ Cardinality(Lost) \in Nat /\ IsFiniteSet(Lost)
    BY FS_CardinalityType DEF AccountInv
  <2>3. unfinished = Len(queue) + 0 + Cardinality(Deferred) + Cardinality(Lost)
    BY <1>1 DEF AccountInv
  <2>4. unfinished = Len(queue') + 1 + Cardinality(Deferred) + Cardinality(Lost)
    BY <1>2, <2>2, <2>3
  <2> QED
    BY <1>1, <1>3, <1>4, <2>1, <2>2, <2>4 DEF AccountInv
<1> QED
  BY <1>5, <1>6, <1>7, <1>8, <1>9

\* A handler that returns or raises leaves with its answer.
LEMMA HandlerEndsKeeps ==
  ASSUME QInv, HandlerReturns \/ HandlerRaises
  PROVE  QInv'
<1> USE DEF QInv
<1>1. /\ running # NULL /\ running' = NULL
      /\ UNCHANGED <<queue, target, caller, nested, pending>>
      /\ \E kind \in {"result", "exception"} : Answer(running, kind)
  BY DEF HandlerReturns, HandlerRaises, HandlerDone
<1>2. /\ running \in Calls /\ target[running] # NULL /\ response[running] \in {"unset", "cancelled"}
      /\ \A d \in Calls : d # NULL
  BY <1>1, CallsAssumption DEF TypesInv, InHand, Calls
<1>3. Leaves(running) /\ (dispatcher' = dispatcher \/ (dispatcher' = "dead" /\ response[running] = "cancelled"))
  BY <1>1, <1>2, AnswerIsLeaving
<1>4. /\ \A n \in DOMAIN queue : queue[n] # running
      /\ \A t \in Targets : pending[t] # NULL => pending[t] # running
  BY DEF OnePlace
<1>5. running \notin Gone /\ Gone' = Gone \cup {running}
  <2>1. \A d : d \in Gone' <=>
          d \in Calls /\ target[d] # NULL /\ ~Queued(d) /\ d # NULL /\ \A t \in Targets : pending[t] # d
    BY <1>1 DEF Gone, Queued
  <2>2. ~Queued(running) /\ \A t \in Targets : pending[t] # running
    BY <1>1, <1>4 DEF Queued
  <2>3. \A d : d \in Gone' <=> d \in Gone \/ d = running
    BY <1>2, <2>1, <2>2, GoneIs
  <2> QED
    BY <2>3, GoneIs
<1>6. CallersInv' /\ DiesOfTimeoutsOnly' /\ \A d \in Calls : d # running => response'[d] = response[d]
  BY <1>1, <1>2, <1>3, <1>5, LeavingKeeps
<1>7. /\ IsFiniteSet(Lost') /\ Cardinality(Lost) \in Nat /\ Cardinality(Lost') \in Nat
      /\ unfinished' \in Int /\ unfinished' - Cardinality(Lost') = unfinished - Cardinality(Lost) - 1
      /\ response' \in [Calls -> Responses]
  BY <1>2, <1>3, <1>5, LeavingIsCounted DEF AccountInv
<1>8. TypesInv'
  BY <1>1, <1>3, <1>7 DEF TypesInv
<1>9. OnePlace' /\ InHand'
  <2>0. queue \in Seq(Calls)
    BY DEF TypesInv
  <2>1. \A n \in DOMAIN queue : queue[n] \in Calls
    BY <2>0
  <2>2. \A t \in Targets : pending[t] # NULL => pending[t] \in Calls
    BY DEF TypesInv
  <2>3. OnePlace'
    BY <1>1, <1>2, <2>1, <2>2 DEF OnePlace
  <2>4. InHand'
    BY <1>1, <1>4, <1>6, <2>1, <2>2 DEF InHand
  <2> QED
    BY <2>3, <2>4
<1>10. TilesInv' /\ Deferred' = Deferred
  BY <1>1 DEF TilesInv, Deferred
<1>11. AccountInv'
  <2>1. Cardinality(Deferred) \in Nat /\ IsFiniteSet(Deferred) /\ Len(queue) \in Nat
    <3>1. queue \in Seq(Calls)
      BY DEF TypesInv
    <3> QED
      BY <3>1, FS_CardinalityType DEF AccountInv
  <2>2. unfinished = Len(queue) + 1 + Cardinality(Deferred) + Cardinality(Lost) /\ unfinished \in Int
    BY <1>1 DEF AccountInv, TypesInv
  <2>3. unfinished' = Len(queue) + 0 + Cardinality(Deferred) + Cardinality(Lost')
    BY <1>7, <2>1, <2>2, SMTT(30)
  <2> QED
    BY <1>1, <1>7, <1>10, <2>1, <2>3 DEF AccountInv
<1> QED
  BY <1>6, <1>8, <1>9, <1>10, <1>11

\* A handler that defers leaves its call to its tile, which had deferred none.
LEMMA HandlerDefersKeeps ==
  ASSUME QInv, HandlerDefers
  PROVE  QInv'
<1> USE DEF QInv
<1> DEFINE c == running
           s == target[running]
<1>1. /\ c # NULL /\ running' = NULL /\ pending' = [pending EXCEPT ![s] = c]
      /\ UNCHANGED <<queue, unfinished, target, response, caller, nested, dispatcher>>
  BY DEF HandlerDefers, HandlerDone
<1>2. /\ c \in Calls /\ target[c] # NULL /\ response[c] \in {"unset", "cancelled"}
      /\ \A d \in Calls : d # NULL
  BY <1>1, CallsAssumption DEF TypesInv, InHand, Calls
<1>3. s \in Targets /\ \A t \in Deferred : t[1] # s[1]
  BY <1>1, <1>2 DEF TypesInv, TilesInv
<1>4. /\ \A n \in DOMAIN queue : queue[n] # c
      /\ \A t \in Targets : pending[t] # NULL => pending[t] # c
      /\ target[c] = s /\ running = c
  BY DEF OnePlace
<1> HIDE DEF c, s
<1>5. /\ \A t \in Targets : t # s => pending'[t] = pending[t]
      /\ pending'[s] = c /\ pending' \in [Targets -> Calls \cup {NULL}]
  <2>1. pending \in [Targets -> Calls \cup {NULL}]
    BY DEF TypesInv
  <2> QED
    BY <1>1, <1>2, <1>3, <2>1
<1>6. s \notin Deferred /\ Deferred' = Deferred \cup {s} /\ pending[s] = NULL
  BY <1>1, <1>3, <1>5 DEF Deferred
<1>7. Gone' = Gone
  <2>1. \A d : d \in Gone' <=>
          d \in Calls /\ target[d] # NULL /\ ~Queued(d) /\ d # NULL /\ \A t \in Targets : pending'[t] # d
    BY <1>1 DEF Gone, Queued
  <2>2. \A d \in Calls : (\A t \in Targets : pending'[t] # d) <=> d # c /\ \A t \in Targets : pending[t] # d
    BY <1>2, <1>3, <1>5, <1>6
  <2>3. \A d : d \in Gone' <=> d \in Gone
    BY <1>2, <1>4, <2>1, <2>2, GoneIs
  <2> QED
    BY <2>3 DEF Gone
<1>8. TypesInv' /\ CallersInv' /\ DiesOfTimeoutsOnly'
  BY <1>1, <1>5, <1>7 DEF TypesInv, CallersInv, IsFinished, DiesOfTimeoutsOnly
<1>9. OnePlace' /\ InHand'
  <2>0. queue \in Seq(Calls)
    BY DEF TypesInv
  <2>1. \A n \in DOMAIN queue : queue[n] \in Calls
    BY <2>0
  <2>2. \A t \in Targets : pending'[t] # NULL => (t = s /\ pending'[t] = c) \/ (pending[t] # NULL /\ pending'[t] = pending[t])
    BY <1>5
  <2>3. \A t \in Targets : pending[t] # NULL => pending[t] \in Calls
    BY DEF TypesInv
  <2>4. OnePlace'
    BY <1>1, <1>2, <1>4, <2>1, <2>2, <2>3 DEF OnePlace
  <2>5. InHand'
    BY <1>1, <1>2, <2>1, <2>2, <2>3 DEF InHand
  <2> QED
    BY <2>4, <2>5
<1>10. TilesInv'
  BY <1>1, <1>3, <1>6 DEF TilesInv
<1>11. AccountInv'
  <2>1. Lost' = Lost
    BY <1>1, <1>7 DEF Lost
  <2>2. Cardinality(Deferred) \in Nat /\ IsFiniteSet(Lost) /\ Cardinality(Lost) \in Nat /\ Len(queue) \in Nat
    <3>1. queue \in Seq(Calls)
      BY DEF TypesInv
    <3> QED
      BY <3>1, FS_CardinalityType DEF AccountInv
  <2>3. IsFiniteSet(Deferred') /\ Cardinality(Deferred') = Cardinality(Deferred) + 1
    BY <1>6, FS_AddElement DEF AccountInv
  <2>4. unfinished = Len(queue) + 1 + Cardinality(Deferred) + Cardinality(Lost)
    BY <1>1, <1>4 DEF AccountInv
  <2>5. unfinished = Len(queue) + 0 + Cardinality(Deferred') + Cardinality(Lost)
    BY <2>2, <2>3, <2>4
  <2> QED
    BY <1>1, <2>1, <2>2, <2>3, <2>5 DEF AccountInv
<1> QED
  BY <1>8, <1>9, <1>10, <1>11

\* The background task of a tile finishes the call it had deferred, if anybody waits for it.
LEMMA FinishAsyncKeeps ==
  ASSUME QInv, NEW s \in Targets, FinishAsync(s)
  PROVE  QInv'
<1> USE DEF QInv
<1> DEFINE c == pending[s]
<1>1. /\ c # NULL /\ pending' = [pending EXCEPT ![s] = NULL]
      /\ UNCHANGED <<queue, target, caller, running, nested, dispatcher>>
      /\ IF IsFinished(c) THEN UNCHANGED <<response, unfinished>>
         ELSE response' = [response EXCEPT ![c] = "result"] /\ unfinished' = unfinished - 1
  BY DEF FinishAsync, TaskDone
<1>2. /\ c \in Calls /\ target[c] = s /\ response[c] \in {"unset", "cancelled"}
      /\ c # running /\ \A n \in DOMAIN queue : queue[n] # c
      /\ \A d \in Calls : d # NULL
      /\ target[c] # NULL
  <2>1. NULL \notin Targets /\ \A d \in Calls : d # NULL
    BY CallsAssumption DEF Calls, Targets
  <2>2. c \in Calls
    BY <1>1 DEF TypesInv
  <2>3. target[c] = s /\ c # running /\ \A n \in DOMAIN queue : queue[n] # c
    BY <1>1 DEF OnePlace
  <2>4. response[c] \in {"unset", "cancelled"}
    BY <1>1 DEF InHand
  <2> QED
    BY <2>1, <2>2, <2>3, <2>4
<1>3. \A t \in Targets : t # s => pending[t] # c
  BY <1>1, <1>2 DEF OnePlace
<1>4. pending[s] = c
  OBVIOUS
<1> HIDE DEF c
<1>5. Leaves(c)
  <2>1. CASE IsFinished(c)
    BY <1>1, <1>2, <2>1 DEF Leaves, IsFinished
  <2>2. CASE ~IsFinished(c)
    <3>1. response[c] = "unset" /\ response' = [response EXCEPT ![c] = "result"] /\ unfinished' = unfinished - 1
      BY <1>1, <2>2 DEF IsFinished
    <3> QED
      BY <3>1, Zenon DEF Leaves
  <2> QED
    BY <2>1, <2>2
<1>6. /\ \A t \in Targets : t # s => pending'[t] = pending[t]
      /\ pending'[s] = NULL /\ pending' \in [Targets -> Calls \cup {NULL}]
  BY <1>1 DEF TypesInv
<1>7. c \notin Gone /\ Gone' = Gone \cup {c}
  <2>1. \A d : d \in Gone' <=>
          d \in Calls /\ target[d] # NULL /\ ~Queued(d) /\ d # running /\ \A t \in Targets : pending'[t] # d
    BY <1>1 DEF Gone, Queued
  <2>2. \A d \in Calls : (\A t \in Targets : pending'[t] # d) <=> d = c \/ \A t \in Targets : pending[t] # d
    BY <1>2, <1>3, <1>4, <1>6
  <2>3. ~Queued(c)
    BY <1>2 DEF Queued
  <2>4. \A d : d \in Gone' <=> d \in Gone \/ d = c
    BY <1>2, <2>1, <2>2, <2>3, GoneIs
  <2> QED
    BY <1>4, <2>4, GoneIs
<1>8. CallersInv' /\ DiesOfTimeoutsOnly' /\ \A d \in Calls : d # c => response'[d] = response[d]
  BY <1>1, <1>2, <1>5, <1>7, LeavingKeeps
<1>9. /\ IsFiniteSet(Lost') /\ Cardinality(Lost) \in Nat /\ Cardinality(Lost') \in Nat
      /\ unfinished' \in Int /\ unfinished' - Cardinality(Lost') = unfinished - Cardinality(Lost) - 1
      /\ response' \in [Calls -> Responses]
  BY <1>2, <1>5, <1>7, LeavingIsCounted DEF AccountInv
<1>10. TypesInv'
  BY <1>1, <1>6, <1>9 DEF TypesInv
<1>11. OnePlace' /\ InHand'
  <2>0. queue \in Seq(Calls)
    BY DEF TypesInv
  <2>1. \A n \in DOMAIN queue : queue[n] \in Calls
    BY <2>0
  <2>2. \A t \in Targets : pending'[t] # NULL =>
          t # s /\ pending'[t] = pending[t] /\ pending[t] \in Calls /\ pending[t] # c
    BY <1>3, <1>6 DEF TypesInv
  <2>3. OnePlace'
    BY <1>1, <2>1, <2>2 DEF OnePlace
  <2>4. running # NULL => running \in Calls
    BY DEF TypesInv
  <2>5. InHand'
    BY <1>1, <1>2, <1>8, <2>1, <2>2, <2>4 DEF InHand
  <2> QED
    BY <2>3, <2>5
<1>12. s \in Deferred /\ Deferred' = Deferred \ {s}
  BY <1>1, <1>4, <1>6 DEF Deferred
<1>13. TilesInv'
  BY <1>1, <1>12 DEF TilesInv
<1>14. AccountInv'
  <2>1. Cardinality(Deferred) \in Nat /\ Len(queue) \in Nat
    <3>1. queue \in Seq(Calls)
      BY DEF TypesInv
    <3> QED
      BY <3>1, FS_CardinalityType DEF AccountInv
  <2>2. IsFiniteSet(Deferred') /\ Cardinality(Deferred') = Cardinality(Deferred) - 1
    BY <1>12, FS_RemoveElement DEF AccountInv
  <2>3. PICK r \in {0, 1} : /\ r = IF running = NULL THEN 0 ELSE 1
                            /\ unfinished = Len(queue) + r + Cardinality(Deferred) + Cardinality(Lost)
    BY DEF AccountInv
  <2>4. unfinished \in Int
    BY DEF TypesInv
  <2>5. unfinished' = Len(queue) + r + Cardinality(Deferred') + Cardinality(Lost')
    <3>1. unfinished = Len(queue) + r + Cardinality(Deferred) + Cardinality(Lost) /\ r \in Nat
      BY <2>3
    <3>2. Cardinality(Deferred') = Cardinality(Deferred) - 1
      BY <2>2
    <3> QED
      BY <1>9, <2>1, <2>4, <3>1, <3>2, SMTT(30)
  <2> QED
    BY <1>1, <1>9, <2>2, <2>3, <2>5 DEF AccountInv
<1> QED
  BY <1>8, <1>10, <1>11, <1>13, <1>14

\* stop() drops the call whose handler it cancels, and that of the handler's own call.
LEMMA StopKeeps ==
  ASSUME QInv, Stop
  PROVE  QInv'
<1> USE DEF QInv
<1>1. /\ running' = NULL /\ nested' = NULL /\ dispatcher' = "stopped"
      /\ UNCHANGED <<queue, unfinished, target, pending>>
      /\ \A d \in Calls : d # NULL
  BY CallsAssumption DEF Stop, Calls
<1>2. nested # NULL => nested \in Calls /\ nested \in InternalCalls
  BY DEF TypesInv, Calls
<1>3. /\ \A d \in Calls : caller'[d] = caller[d] \/ (d = nested /\ caller'[d] = "timed out")
      /\ caller' \in [Calls -> {"idle", "waiting", "answered", "timed out"}]
  <2>1. caller \in [Calls -> {"idle", "waiting", "answered", "timed out"}]
    BY DEF TypesInv
  <2> QED
    BY <2>1 DEF Stop
<1>4. /\ \A d \in Calls : \/ response'[d] = response[d]
                          \/ d = nested /\ nested # NULL /\ response[d] = "unset" /\ response'[d] = "cancelled"
      /\ response' \in [Calls -> Responses]
  <2>1. response \in [Calls -> Responses]
    BY DEF TypesInv
  <2>2. CASE response' = response
    BY <2>1, <2>2
  <2>3. CASE nested # NULL /\ response[nested] = "unset" /\ response' = [response EXCEPT ![nested] = "cancelled"]
    BY <1>2, <2>1, <2>3 DEF Responses
  <2> QED
    BY <2>2, <2>3 DEF Stop, IsFinished
<1>5. \A d \in Calls : response[d] \in {"unset", "cancelled"} <=> response'[d] \in {"unset", "cancelled"}
  BY <1>4
<1>6. TypesInv' /\ DiesOfTimeoutsOnly'
  BY <1>1, <1>3, <1>4 DEF TypesInv, DiesOfTimeoutsOnly
<1>7. CallersInv'
  <2>1. nested # NULL => caller[nested] = "waiting" /\ target[nested] # NULL
    BY <1>2 DEF CallersInv
  <2>2. \A d \in Calls : target[d] = NULL => caller[d] = "idle" /\ response[d] = "unset" /\ caller'[d] = caller[d] /\ response'[d] = response[d]
    BY <1>1, <1>3, <1>4, <2>1 DEF CallersInv
  <2>3. \A d \in Calls : target[d] # NULL => caller'[d] # "idle"
    BY <1>3 DEF CallersInv
  <2>4. \A d \in Calls : caller'[d] = "answered" => response'[d] # "unset"
    BY <1>3, <1>4 DEF CallersInv, IsFinished
  <2>5. \A d \in Calls : response'[d] = "cancelled" => d \in InternalCalls
    BY <1>2, <1>4 DEF CallersInv
  <2> QED
    BY <1>1, <2>2, <2>3, <2>4, <2>5 DEF CallersInv, IsFinished
<1>8. CASE running = NULL
  <2>1. UNCHANGED <<queue, unfinished, target, running, pending>>
    BY <1>1, <1>8
  <2>2. OnePlace' /\ InHand' /\ TilesInv' /\ AccountInv'
    BY <1>4, <1>5, <2>1, NothingMoves
  <2> QED
    BY <1>6, <1>7, <2>2
<1>9. CASE running # NULL
  <2>1. /\ running \in Calls /\ target[running] # NULL /\ response[running] \in {"unset", "cancelled"}
    BY <1>9 DEF TypesInv, InHand
  <2>2. /\ \A n \in DOMAIN queue : queue[n] # running
        /\ \A t \in Targets : pending[t] # NULL => pending[t] # running
    BY DEF OnePlace
  <2>3. running \notin Gone /\ Gone' = Gone \cup {running}
    <3>1. \A d : d \in Gone' <=>
            d \in Calls /\ target[d] # NULL /\ ~Queued(d) /\ d # NULL /\ \A t \in Targets : pending[t] # d
      BY <1>1 DEF Gone, Queued
    <3>2. ~Queued(running) /\ \A t \in Targets : pending[t] # running
      BY <1>9, <2>2 DEF Queued
    <3>3. \A d : d \in Gone' <=> d \in Gone \/ d = running
      BY <1>1, <2>1, <3>1, <3>2, GoneIs
    <3> QED
      BY <3>3, GoneIs
  <2>4. running \notin Lost /\ Lost' = Lost \cup {running}
    <3>1. \A d \in Gone : d \in Calls
      BY DEF Gone
    <3> QED
      BY <1>5, <2>1, <2>3, <3>1 DEF Lost
  <2>5. OnePlace' /\ InHand'
    <3>0. queue \in Seq(Calls)
      BY DEF TypesInv
    <3>1. \A n \in DOMAIN queue : queue[n] \in Calls
      BY <3>0
    <3>2. \A t \in Targets : pending[t] # NULL => pending[t] \in Calls
      BY DEF TypesInv
    <3>3. OnePlace'
      BY <1>1, <3>1, <3>2 DEF OnePlace
    <3>4. InHand'
      BY <1>1, <1>5, <3>1, <3>2 DEF InHand
    <3> QED
      BY <3>3, <3>4
  <2>6. TilesInv' /\ Deferred' = Deferred
    BY <1>1 DEF TilesInv, Deferred
  <2>7. AccountInv'
    <3>1. Cardinality(Deferred) \in Nat /\ IsFiniteSet(Deferred) /\ Cardinality(Lost) \in Nat /\ Len(queue) \in Nat
      <4>1. queue \in Seq(Calls)
        BY DEF TypesInv
      <4> QED
        BY <4>1, FS_CardinalityType DEF AccountInv
    <3>2. IsFiniteSet(Lost') /\ Cardinality(Lost') = Cardinality(Lost) + 1
      BY <2>4, FS_AddElement DEF AccountInv
    <3>3. unfinished = Len(queue) + 1 + Cardinality(Deferred) + Cardinality(Lost)
      BY <1>9 DEF AccountInv
    <3>4. unfinished = Len(queue) + 0 + Cardinality(Deferred) + Cardinality(Lost')
      BY <3>1, <3>2, <3>3
    <3> QED
      BY <1>1, <2>6, <3>1, <3>2, <3>4 DEF AccountInv
  <2> QED
    BY <1>6, <1>7, <2>5, <2>6, <2>7
<1> QED
  BY <1>8, <1>9

-----------------------------------------------------------------------------
(* The invariant. *)

LEMMA QInitInv == Init => QInv
<1> SUFFICES ASSUME Init PROVE QInv
  OBVIOUS
<1>1. queue = <<>> /\ queue \in Seq(Calls) /\ Len(queue) = 0 /\ DOMAIN queue = {}
  BY DEF Init
<1>2. Deferred = {} /\ Lost = {}
  BY DEF Init, Deferred, Lost, Gone
<1>3. AccountInv
  <2>1. IsFiniteSet({}) /\ Cardinality({}) = 0
    BY FS_EmptySet
  <2>2. unfinished = 0 /\ running = NULL
    BY DEF Init
  <2> QED
    BY <1>1, <1>2, <2>1, <2>2 DEF AccountInv
<1>4. TypesInv
  BY <1>1 DEF Init, TypesInv, Responses
<1>5. OnePlace /\ InHand
  BY <1>1 DEF Init, OnePlace, InHand
<1>6. CallersInv /\ TilesInv /\ DiesOfTimeoutsOnly
  BY <1>2 DEF Init, CallersInv, TilesInv, DiesOfTimeoutsOnly, IsFinished
<1> QED
  BY <1>3, <1>4, <1>5, <1>6 DEF QInv

LEMMA QNextInv == QInv /\ [Next]_vars => QInv'
<1> SUFFICES ASSUME QInv, [Next]_vars PROVE QInv'
  OBVIOUS
<1>1. CASE Start \/ \E c \in Calls : Return(c) \/ Timeout(c)
  BY <1>1, CallersKeep
<1>2. CASE \E c \in Calls, t \in Targets : Call(c, t) \/ CallFromHandler(c, t)
  BY <1>2, CallsKeep
<1>3. CASE DispatcherStep
  BY <1>3, DispatchBusyKeeps, DispatchKeeps, HandlerEndsKeeps, HandlerDefersKeeps DEF DispatcherStep
<1>4. CASE \E t \in Targets : FinishAsync(t)
  BY <1>4, FinishAsyncKeeps
<1>5. CASE Stop
  BY <1>5, StopKeeps
<1>6. CASE UNCHANGED vars
  <2>1. UNCHANGED <<queue, unfinished, target, response, caller, running, nested, pending, dispatcher>>
    BY <1>6 DEF vars
  <2>2. TypesInv' /\ CallersInv'
    BY <2>1 DEF QInv, TypesInv, CallersInv, IsFinished
  <2>3. OnePlace' /\ InHand' /\ TilesInv' /\ AccountInv' /\ Gone' = Gone
    BY <2>1, NothingMoves DEF QInv, TypesInv
  <2>4. DiesOfTimeoutsOnly'
    BY <2>1, <2>3 DEF QInv, DiesOfTimeoutsOnly
  <2> QED
    BY <2>2, <2>3, <2>4 DEF QInv
<1> QED
  BY <1>1, <1>2, <1>3, <1>4, <1>5, <1>6 DEF Next, Emulate

-----------------------------------------------------------------------------
(* What is proved of the queue. *)

\* For any number of tiles, RPCs and calls, and however callers give up, tiles defer and
\* the device is stopped: what join() waits for is exactly the work there is and what was
\* dropped unanswered, only a call given up inside the loop ends the dispatcher, and a
\* tile has one deferred call at most (RPCQueue, EmulatedDevice._dispatch_rpc).
THEOREM WorkIsAlwaysAccounted == Spec => []WorkIsAccounted
<1>1. QInv => JoinCountsWork
  BY DEF QInv, AccountInv, JoinCountsWork, Deferred, Lost
<1>2. QInv => OneDeferredCallPerTile
  <2> SUFFICES ASSUME QInv, NEW a \in Tiles
               PROVE  /\ Cardinality({i \in RpcIds : pending[<<a, i>>] # NULL}) <= 1
                      /\ TileBusy(a) /\ running # NULL => target[running][1] # a
    BY DEF OneDeferredCallPerTile
  <2> DEFINE D == {i \in RpcIds : pending[<<a, i>>] # NULL}
  <2>1. \A i \in D : <<a, i>> \in Deferred
    BY DEF Deferred, Targets
  <2> HIDE DEF D
  <2>2. \A i, j \in D : i = j
    <3> SUFFICES ASSUME NEW i \in D, NEW j \in D PROVE i = j
      OBVIOUS
    <3>1. <<a, i>> = <<a, j>>
      <4>1. <<a, i>> \in Deferred /\ <<a, j>> \in Deferred /\ <<a, i>>[1] = <<a, j>>[1]
        BY <2>1
      <4> QED
        BY <4>1 DEF QInv, TilesInv
    <3>2. <<a, i>>[2] = i /\ <<a, j>>[2] = j
      OBVIOUS
    <3> QED
      BY <3>1, <3>2
  <2>3. Cardinality(D) <= 1
    <3>1. CASE D = {}
      BY <3>1, FS_EmptySet
    <3>2. CASE \E i \in D : TRUE
      <4> PICK i \in D : TRUE
        BY <3>2
      <4>1. D = {i}
        BY <2>2
      <4>2. Cardinality({i}) = 1
        BY FS_Singleton
      <4> QED
        BY <4>1, <4>2
    <3> QED
      BY <3>1, <3>2
  <2>4. TileBusy(a) /\ running # NULL => target[running][1] # a
    BY DEF Deferred, Targets, TileBusy, QInv, TilesInv
  <2> QED
    BY <2>3, <2>4 DEF D
<1>3. QInv => WorkIsAccounted
  BY <1>1, <1>2 DEF QInv, WorkIsAccounted
<1> QED
  BY QInitInv, QNextInv, <1>3, PTL DEF Spec

\* A step answers only calls that were made and have no answer yet.
LEMMA StepsAnswerOpenCalls ==
  ASSUME QInv, [Next]_vars
  PROVE  \A c \in Calls : response'[c] = response[c] \/ (response[c] = "unset" /\ target[c] # NULL)
<1> USE DEF QInv
<1>0. response \in [Calls -> Responses]
  BY DEF TypesInv
<1>1. ASSUME NEW c \in Calls, Return(c) PROVE response' = response
  BY <1>1 DEF Return
<1>2. ASSUME NEW c \in Calls, Timeout(c), NEW d \in Calls
      PROVE  response'[d] = response[d] \/ (response[d] = "unset" /\ target[d] # NULL)
  <2>1. response[c] = "unset" /\ target[c] # NULL
    BY <1>2 DEF Timeout, IsFinished, CallersInv
  <2> QED
    BY <1>0, <1>2, <2>1 DEF Timeout
<1>3. ASSUME NEW c \in Calls, target[c] # NULL, Leaves(c), NEW d \in Calls
      PROVE  response'[d] = response[d] \/ (response[d] = "unset" /\ target[d] # NULL)
  BY <1>0, <1>3 DEF Leaves
<1>4. CASE DispatchBusy
  <2>1. queue \in Seq(Calls) /\ queue # <<>> /\ Answer(Head(queue), "exception")
    BY <1>4 DEF DispatchBusy, Dispatching, TypesInv
  <2>2. 1 \in DOMAIN queue /\ Head(queue) = queue[1] /\ Head(queue) \in Calls
    BY <2>1
  <2>3. target[Head(queue)] # NULL /\ response[Head(queue)] \in {"unset", "cancelled"}
    BY <2>2 DEF InHand
  <2>4. Leaves(Head(queue))
    BY <2>1, <2>2, <2>3, AnswerIsLeaving
  <2> QED
    BY <1>3, <2>2, <2>3, <2>4
<1>5. CASE HandlerReturns \/ HandlerRaises
  <2>1. running \in Calls /\ target[running] # NULL /\ response[running] \in {"unset", "cancelled"}
    BY <1>5 DEF HandlerReturns, HandlerRaises, HandlerDone, TypesInv, InHand
  <2>2. Leaves(running)
    BY <1>5, <2>1, AnswerIsLeaving DEF HandlerReturns, HandlerRaises
  <2> QED
    BY <1>3, <2>1, <2>2
<1>6. CASE \E t \in Targets : FinishAsync(t)
  <2>1. PICK t \in Targets : FinishAsync(t)
    BY <1>6
  <2>2. pending[t] \in Calls /\ target[pending[t]] = t /\ t # NULL
    BY <2>1, CallsAssumption DEF FinishAsync, TypesInv, OnePlace, Targets
  <2>3. \/ response' = response
        \/ response[pending[t]] = "unset" /\ response' = [response EXCEPT ![pending[t]] = "result"]
    BY <2>1 DEF FinishAsync, IsFinished
  <2> QED
    BY <1>0, <2>2, <2>3
<1>7. CASE Stop
  <2>1. nested # NULL => nested \in Calls /\ target[nested] # NULL
    BY DEF TypesInv, CallersInv, Calls
  <2>2. \/ response' = response
        \/ nested # NULL /\ response[nested] = "unset" /\ response' = [response EXCEPT ![nested] = "cancelled"]
    BY <1>7 DEF Stop, IsFinished
  <2> QED
    BY <1>0, <2>1, <2>2
<1>8. CASE Start \/ Dispatch \/ HandlerDefers \/ UNCHANGED vars
  BY <1>8 DEF Start, Dispatch, HandlerDefers, vars
<1>9. CASE \E c \in Calls, t \in Targets : Call(c, t) \/ CallFromHandler(c, t)
  BY <1>9 DEF Call, CallFromHandler
<1> QED
  BY <1>1, <1>2, <1>4, <1>5, <1>6, <1>7, <1>8, <1>9 DEF Next, Emulate, DispatcherStep

\* Whoever answers, the dispatcher, a tile that had deferred, a timeout or stop(): an answer
\* that has been given never changes, and only who has called, and has not been answered,
\* gets one (RPCQueue, response.py).
THEOREM AnswersAreGivenOnce == Spec => AnsweredOnce
<1> DEFINE Once == \A c \in Calls :
             /\ response[c] # "unset" => response'[c] = response[c]
             /\ response[c] # response'[c] => caller[c] \in {"waiting", "timed out"}
<1>1. QInv /\ [Next]_vars => Once
  <2> SUFFICES ASSUME QInv, [Next]_vars, NEW c \in Calls, response'[c] # response[c]
               PROVE  response[c] = "unset" /\ caller[c] \in {"waiting", "timed out"}
    OBVIOUS
  <2>1. response[c] = "unset" /\ target[c] # NULL
    BY StepsAnswerOpenCalls
  <2> QED
    BY <2>1 DEF QInv, TypesInv, CallersInv, IsFinished
<1>2. Spec => [][Once]_vars
  BY <1>1, QInitInv, QNextInv, PTL DEF Spec
<1> QED
  BY <1>2 DEF AnsweredOnce

-----------------------------------------------------------------------------
(***************************************************************************)
(* Resets of an emulated device (DeviceReset), proved for all tiles,       *)
(* config variables and users.                                             *)
(*                                                                         *)
(* The argument:                                                           *)
(*                                                                         *)
(*   - A call that is queued is awaited by the task that made it, unless   *)
(*     that was cancelled since; while nobody is hasty, no task is ever    *)
(*     cancelled but in its main loop, where it awaits no call, and so     *)
(*     the dispatcher never answers a cancelled one.                       *)
(*   - What was streamed to a tile stays there until the tile is reset,    *)
(*     and a reset while it is being configured is remembered.  Of the     *)
(*     calls of a cancelled worker only START may still make a             *)
(*     difference, and answering it is the end of the dispatcher.          *)
(***************************************************************************)

DvEnds == {"done", "refused", "failed", "cancelled"}
DvPCs == {"begin", "initialize", "starting", "reset tiles", "get", "configure", "register", "app"} \cup DvEnds

DvTaskRecord ==
    [of: DvAddresses, kind: {"main", "worker"}, pc: DvPCs, rpc: {"none", "answered", "refused"},
     at: Nat, entry: DvPeripherals \cup {NULL}, cancelled: BOOLEAN]
DvCall ==
    [to: DvAddresses, kind: {"reset", "echo", "register", "config", "start"},
     by: DvUsers \cup Nat, var: Nat \cup {NULL}]

DvTypes ==
    /\ dvQueue \in Seq(DvCall)
    /\ dvAlive \in BOOLEAN
    /\ dvTasks \in Seq(DvTaskRecord)
    /\ dvPosted \in Seq(Nat)
    /\ dvAdded \in [DvAddresses -> SUBSET Nat]
    /\ dvInitialized \in [DvAddresses -> BOOLEAN]
    /\ dvStarted \in [DvAddresses -> BOOLEAN]
    /\ dvConfig \in [DvAddresses -> SUBSET (1 .. DvVars)]
    /\ dvBusy \in [DvAddresses -> DvUsers \cup {NULL}]
    /\ dvManagerUp \in BOOLEAN
    /\ dvEntries \in Seq(DvPeripherals)
    /\ dvUnfinished \in Int
    /\ dvHasty \in BOOLEAN
    /\ dvOvertaken \subseteq DvAddresses

\* A task is where the code of its kind may be, and only a worker has an entry.
DvWellFormed(task) ==
    /\ task.pc \in DvEnds \/
         CASE task.kind = "worker" -> task.of = DvController /\ task.pc \in {"begin", "get", "configure"}
           [] task.kind = "main" /\ task.of = DvController -> task.pc \in {"begin", "initialize", "starting", "reset tiles"}
           [] OTHER -> task.pc \in {"begin", "register", "app"}
    /\ (task.entry # NULL) <=> task.pc = "configure"
    /\ task.pc = "reset tiles" => task.at \in DOMAIN DvTiles
    /\ task.pc \in {"begin", "initialize", "starting"} => task.at = 0
    /\ task.pc = "configure" => task.at \in 1 .. DvVars + 1
DvTasksInv == \A t \in DOMAIN dvTasks : DvWellFormed(dvTasks[t])

\* Tasks that have begun are known to stop_tasks().
DvLive(task) == ~task.cancelled /\ task.pc \notin DvEnds
DvPostedInv ==
    /\ \A n \in DOMAIN dvPosted :
        /\ dvPosted[n] \in DOMAIN dvTasks
        /\ DvLive(dvTasks[dvPosted[n]]) => dvTasks[dvPosted[n]].pc = "begin"
    /\ \A a \in DvAddresses : \A t \in dvAdded[a] : t \in DOMAIN dvTasks /\ dvTasks[t].of = a
    /\ \A t \in DOMAIN dvTasks :
        DvLive(dvTasks[t]) => t \in dvAdded[dvTasks[t].of] \/ \E n \in DOMAIN dvPosted : dvPosted[n] = t

\* The task awaits this call, ...
DvMatches(c, task) ==
    /\ task.rpc = "none"
    /\ \/ c.kind = "register" /\ task.pc = "register"
       \/ c.kind = "reset" /\ task.pc = "reset tiles" /\ c.to = DvTiles[task.at]
       \/ c.kind = "config" /\ task.pc = "configure" /\ c.to = task.entry /\ task.at <= DvVars /\ c.var = task.at
       \/ c.kind = "start" /\ task.pc = "configure" /\ c.to = task.entry /\ task.at = DvVars + 1

\* ... as the task does that made it, unless it is cancelled.
DvCallInv(c) ==
    \/ c.by \in DvUsers /\ c.kind \in {"reset", "echo"}
    \/ /\ c.by \in DOMAIN dvTasks
       /\ c.kind = "register" => dvTasks[c.by].of \in DvPeripherals
       /\ c.kind = "config" => c.var \in 1 .. DvVars
       /\ c.kind # "echo"
       /\ dvAlive => DvMatches(c, dvTasks[c.by]) \/ dvTasks[c.by].pc = "cancelled"
DvCallsInv == \A n \in DOMAIN dvQueue : DvCallInv(dvQueue[n])
\* A task makes one call at a time.
DvCallsOnce ==
    dvAlive => \A m, n \in DOMAIN dvQueue :
        dvQueue[m].by = dvQueue[n].by => m = n \/ dvQueue[m].by \in DvUsers

\* While nobody is hasty: no task is told to end that awaits something, no cancelled task
\* has a call in the queue, a tile is down while it starts and has one main task, and the
\* tiles that the controller has still to reset are not starting.
DvYoung(task) ==
    task.kind = "main" /\ task.pc \in {"begin", "register", "initialize", "starting", "reset tiles"}
DvNoneStopped == \A t \in DOMAIN dvTasks : ~dvTasks[t].cancelled
DvCallersWait ==
    \A n \in DOMAIN dvQueue : dvQueue[n].by \in DvUsers \/ dvTasks[dvQueue[n].by].pc # "cancelled"
DvYoungAreDown == \A t \in DOMAIN dvTasks : DvYoung(dvTasks[t]) => ~dvInitialized[dvTasks[t].of]
DvOneMain ==
    \A s, t \in DOMAIN dvTasks :
        /\ dvTasks[s].kind = "main" /\ dvTasks[t].kind = "main" /\ dvTasks[s].of = dvTasks[t].of
        /\ dvTasks[s].pc \notin DvEnds /\ dvTasks[t].pc \notin DvEnds
        => s = t
DvTilesWait ==
    \A s, t \in DOMAIN dvTasks, k \in DOMAIN DvTiles :
        /\ dvTasks[s].kind = "main" /\ dvTasks[s].of = DvController /\ dvTasks[s].pc \notin DvEnds
        /\ k > dvTasks[s].at \/ (k = dvTasks[s].at /\ dvTasks[s].rpc = "none")
        /\ dvTasks[t].of = DvTiles[k]
        => dvTasks[t].pc \notin {"begin", "register"}
DvCalm ==
    /\ dvAlive /\ DvNoneStopped /\ DvCallersWait
    /\ DvYoungAreDown /\ DvOneMain /\ DvTilesWait
DvCalmInv == ~dvHasty => DvCalm

\* A tile has all its config variables; it has registered, and may run when START comes;
\* nor will it, by what is queued up to call n.
DvFull(a) == dvConfig[a] = 1 .. DvVars
DvReady(t, a) == /\ dvTasks[t].of = a /\ DvLive(dvTasks[t])
                 /\ dvTasks[t].pc = "register" /\ dvTasks[t].rpc = "answered"
DvNoneReady(a) == \A t \in DOMAIN dvTasks : ~DvReady(t, a)
DvUnready(a, n) ==
    /\ DvNoneReady(a)
    /\ \A k \in 1 .. n :
        dvQueue[k].kind = "register" /\ dvTasks[dvQueue[k].by].of = a => ~DvLive(dvTasks[dvQueue[k].by])

\* What a worker has sent has arrived, unless its tile was reset since; START of a worker
\* that is cancelled, or of a dead dispatcher, makes no tile run unconfigured.
DvWorkersInv ==
    \A t \in DOMAIN dvTasks :
        LET task == dvTasks[t] IN
        task.pc = "configure" /\ task.entry \notin dvOvertaken =>
            /\ 1 .. (task.at - 1) \subseteq dvConfig[task.entry]
            /\ task.rpc = "answered" /\ task.at <= DvVars => task.at \in dvConfig[task.entry]
DvStraysInv ==
    dvAlive => \A n \in DOMAIN dvQueue :
        LET c == dvQueue[n] IN
        c.kind = "start" /\ dvTasks[c.by].pc = "cancelled" /\ c.to \notin dvOvertaken =>
            DvFull(c.to) \/ DvUnready(c.to, n)
DvStartedInv ==
    \A a \in DvPeripherals : dvStarted[a] /\ a \notin dvOvertaken =>
        DvFull(a) \/ (~dvAlive /\ DvNoneReady(a))

DvInv ==
    /\ DvTypes /\ DvTasksInv /\ DvPostedInv /\ DvCallsInv /\ DvCallsOnce /\ DvCalmInv
    /\ DvUnfinishedIsExact
    /\ DvWorkersInv /\ DvStraysInv /\ DvStartedInv /\ DvConfigured

-----------------------------------------------------------------------------
(* What the steps of a device do. *)

\* The tasks but for t stay, and t becomes what is said.
DvOthersStay(t) ==
    /\ dvTasks' \in Seq(DvTaskRecord) /\ DOMAIN dvTasks' = DOMAIN dvTasks
    /\ \A s \in DOMAIN dvTasks : s # t => dvTasks'[s] = dvTasks[s]
DvBecomes(t, pc, at, entry, cancelled) ==
    /\ DvOthersStay(t)
    /\ dvTasks'[t].of = dvTasks[t].of /\ dvTasks'[t].kind = dvTasks[t].kind
    /\ dvTasks'[t].pc = pc /\ dvTasks'[t].rpc = "none" /\ dvTasks'[t].at = at
    /\ dvTasks'[t].entry = entry /\ dvTasks'[t].cancelled = cancelled
DvGoesTo(t, pc) == DvBecomes(t, pc, dvTasks[t].at, dvTasks[t].entry, dvTasks[t].cancelled)
DvEndsAs(t, pc) == DvBecomes(t, pc, 0, NULL, FALSE)

LEMMA DvUpdated ==
  ASSUME NEW S, NEW q \in Seq(S), NEW i \in DOMAIN q, NEW x \in S, NEW r, r = [q EXCEPT ![i] = x]
  PROVE  /\ r \in Seq(S) /\ DOMAIN r = DOMAIN q /\ r[i] = x
         /\ \A s \in DOMAIN q : s # i => r[s] = q[s]
OBVIOUS

LEMMA DvAppended ==
  ASSUME NEW S, NEW q \in Seq(S), NEW x \in S, NEW r, r = Append(q, x)
  PROVE  /\ r \in Seq(S) /\ Len(r) = Len(q) + 1 /\ DOMAIN q = 1 .. Len(q) /\ DOMAIN r = 1 .. Len(q) + 1
         /\ Len(q) \in Nat
         /\ \A s \in DOMAIN q : r[s] = q[s] /\ s \in DOMAIN r
         /\ r[Len(q) + 1] = x /\ Len(q) + 1 \in DOMAIN r /\ Len(q) + 1 \notin DOMAIN q
OBVIOUS

LEMMA DvTailed ==
  ASSUME NEW S, NEW q \in Seq(S), q # <<>>, NEW r, r = Tail(q)
  PROVE  /\ r \in Seq(S) /\ Len(r) = Len(q) - 1 /\ Len(q) \in Nat \ {0} /\ Head(q) = q[1] /\ Head(q) \in S
         /\ 1 \in DOMAIN q /\ DOMAIN q = 1 .. Len(q)
         /\ DOMAIN r = 1 .. Len(q) - 1
         /\ \A s \in DOMAIN r : r[s] = q[s + 1] /\ s + 1 \in DOMAIN q /\ s \in Nat \ {0}
<1>1. Len(q) \in Nat \ {0}
  BY EmptySeq
<1>. QED
  BY <1>1

LEMMA DvEndedIs ==
  ASSUME dvTasks \in Seq(DvTaskRecord), NEW t \in DOMAIN dvTasks, NEW pc \in DvPCs
  PROVE  LET task == DvEnded(t, pc) IN
         /\ task \in DvTaskRecord /\ task.of = dvTasks[t].of /\ task.kind = dvTasks[t].kind
         /\ task.pc = pc /\ task.rpc = "none" /\ task.at = 0 /\ task.entry = NULL /\ task.cancelled = FALSE
<1>1. dvTasks[t] \in DvTaskRecord
  OBVIOUS
<1>. QED
  BY <1>1 DEF DvEnded, DvTask, DvTaskRecord

LEMMA DvEndIs ==
  ASSUME dvTasks \in Seq(DvTaskRecord), NEW t \in DOMAIN dvTasks, NEW pc \in DvPCs, DvEnd(t, pc)
  PROVE  DvEndsAs(t, pc)
<1>1. PICK task \in DvTaskRecord :
        /\ task.of = dvTasks[t].of /\ task.kind = dvTasks[t].kind
        /\ task.pc = pc /\ task.rpc = "none" /\ task.at = 0 /\ task.entry = NULL /\ task.cancelled = FALSE
        /\ dvTasks' = [dvTasks EXCEPT ![t] = task]
  BY DvEndedIs DEF DvEnd
<1>. QED
  BY <1>1, DvUpdated DEF DvEndsAs, DvBecomes, DvOthersStay

LEMMA DvTaskUpdated ==
  ASSUME dvTasks \in Seq(DvTaskRecord), NEW t \in DOMAIN dvTasks, NEW task \in DvTaskRecord,
         dvTasks' = [dvTasks EXCEPT ![t] = task],
         task.of = dvTasks[t].of, task.kind = dvTasks[t].kind, task.rpc = "none"
  PROVE  DvBecomes(t, task.pc, task.at, task.entry, task.cancelled)
BY DvUpdated DEF DvBecomes, DvOthersStay

LEMMA DvStepIs ==
  ASSUME dvTasks \in Seq(DvTaskRecord), NEW t \in DOMAIN dvTasks, NEW pc \in DvPCs, DvStep(t, pc)
  PROVE  DvGoesTo(t, pc)
<1>. DEFINE task == [dvTasks[t] EXCEPT !.pc = pc, !.rpc = "none"]
<1>1. dvTasks[t] \in DvTaskRecord
  OBVIOUS
<1>2. /\ task \in DvTaskRecord /\ task.of = dvTasks[t].of /\ task.kind = dvTasks[t].kind
      /\ task.pc = pc /\ task.rpc = "none" /\ task.at = dvTasks[t].at
      /\ task.entry = dvTasks[t].entry /\ task.cancelled = dvTasks[t].cancelled
  BY <1>1 DEF DvTaskRecord
<1>3. dvTasks' = [dvTasks EXCEPT ![t] = task]
  BY DEF DvStep
<1>. HIDE DEF task
<1>. QED
  BY <1>2, <1>3, DvTaskUpdated DEF DvGoesTo

\* Call n is gone from the front of the queue.
DvTakesCall ==
    /\ dvAlive /\ dvQueue # <<>> /\ dvQueue[1] \in DvCall /\ 1 \in DOMAIN dvQueue
    /\ DvCallInv(dvQueue[1])
    /\ dvQueue' \in Seq(DvCall)
    /\ \A n \in DOMAIN dvQueue' :
         dvQueue'[n] = dvQueue[n + 1] /\ n + 1 \in DOMAIN dvQueue /\ n \in Nat \ {0}

LEMMA DvTakesIs ==
  ASSUME DvTypes, DvCallsInv, dvAlive, dvQueue # <<>>, dvQueue' = Tail(dvQueue)
  PROVE  DvTakesCall /\ DvHead = dvQueue[1] /\ (Len(dvQueue) <= 1 => \A n \in DOMAIN dvQueue : n = 1)
<1>1. dvQueue \in Seq(DvCall)
  BY DEF DvTypes
<1>. QED
  BY <1>1, DvTailed DEF DvTakesCall, DvHead, DvCallsInv

\* Only the answer to a call of task by changes.
DvIsAnswered(r, tasks, by, how) ==
    /\ r \in Seq(DvTaskRecord) /\ DOMAIN r = DOMAIN tasks
    /\ \A s \in DOMAIN tasks :
        /\ r[s].of = tasks[s].of /\ r[s].kind = tasks[s].kind
        /\ r[s].pc = tasks[s].pc /\ r[s].at = tasks[s].at
        /\ r[s].entry = tasks[s].entry /\ r[s].cancelled = tasks[s].cancelled
        /\ r[s].rpc = IF s = by THEN how ELSE tasks[s].rpc

LEMMA DvRpcSet ==
  ASSUME NEW tasks \in Seq(DvTaskRecord), NEW by \in DOMAIN tasks, NEW how \in {"answered", "refused"}
  PROVE  DvIsAnswered([tasks EXCEPT ![by].rpc = how], tasks, by, how)
<1>. DEFINE task == [tasks[by] EXCEPT !.rpc = how]
            r == [tasks EXCEPT ![by].rpc = how]
<1>1. tasks[by] \in DvTaskRecord
  OBVIOUS
<1>2. /\ task \in DvTaskRecord /\ task.of = tasks[by].of /\ task.kind = tasks[by].kind
      /\ task.pc = tasks[by].pc /\ task.rpc = how /\ task.at = tasks[by].at
      /\ task.entry = tasks[by].entry /\ task.cancelled = tasks[by].cancelled
  BY <1>1 DEF DvTaskRecord
<1>3. r = [tasks EXCEPT ![by] = task]
  OBVIOUS
<1>. HIDE DEF task, r
<1>4. /\ r \in Seq(DvTaskRecord) /\ DOMAIN r = DOMAIN tasks /\ r[by] = task
      /\ \A s \in DOMAIN tasks : s # by => r[s] = tasks[s]
  BY <1>2, <1>3, DvUpdated
<1>5. DvIsAnswered(r, tasks, by, how)
  BY <1>2, <1>4 DEF DvIsAnswered
<1>. QED
  BY <1>5 DEF r

\* The caller of a call gets its answer.
DvAnswers(how) ==
    LET by == dvQueue[1].by IN
    /\ DvTakesCall /\ DvIsAnswered(dvTasks', dvTasks, by, how)
    /\ \/ by \in DvUsers /\ dvAlive'
       \/ by \notin DvUsers /\ by \in DOMAIN dvTasks /\ dvAlive' = (dvTasks[by].pc # "cancelled")

LEMMA DvUsersAreNoTasks ==
  ASSUME dvTasks \in Seq(DvTaskRecord), NEW u \in DvUsers
  PROVE  u \notin DOMAIN dvTasks
BY DvAssumption

LEMMA DvAnswerIs ==
  ASSUME DvTypes, DvCallsInv, dvAlive, dvQueue # <<>>, dvQueue' = Tail(dvQueue),
         NEW how \in {"answered", "refused"}, DvAnswer(DvHead.by, dvTasks, how)
  PROVE  DvAnswers(how)
<1>1. /\ DvTakesCall /\ DvHead = dvQueue[1] /\ dvTasks \in Seq(DvTaskRecord)
  BY DvTakesIs DEF DvTypes
<1>. DEFINE by == dvQueue[1].by
<1>2. CASE by \in DvUsers
  <2>1. dvTasks' = dvTasks /\ dvAlive' /\ by \notin DOMAIN dvTasks
    BY <1>1, <1>2, DvUsersAreNoTasks DEF DvAnswer
  <2>2. DvIsAnswered(dvTasks', dvTasks, by, how)
    BY <1>1, <2>1 DEF DvIsAnswered
  <2>. QED
    BY <1>1, <1>2, <2>1, <2>2 DEF DvAnswers
<1>3. CASE by \notin DvUsers
  <2>1. /\ by \in DOMAIN dvTasks /\ dvAlive' = (dvTasks[by].pc # "cancelled")
        /\ dvTasks' = [dvTasks EXCEPT ![by].rpc = how]
    BY <1>1, <1>3 DEF DvAnswer, DvTakesCall, DvCallInv
  <2>2. DvIsAnswered(dvTasks', dvTasks, by, how)
    BY <1>1, <2>1, DvRpcSet
  <2>. QED
    BY <1>1, <1>3, <2>1, <2>2 DEF DvAnswers
<1>. QED
  BY <1>2, <1>3

\* A reset of tile a stops its tasks and posts a new one.
DvStopped(s, a) == s \in dvAdded[a] /\ ~DvOver(s)
DvStopChange(old, new, stopped, answered) ==
    LET waits == old.pc \in {"register", "reset tiles", "configure", "initialize"} IN
    /\ new.of = old.of /\ new.kind = old.kind
    /\ \/ /\ ~stopped \/ waits
          /\ new.pc = old.pc /\ new.at = old.at /\ new.entry = old.entry
          /\ new.cancelled = (old.cancelled \/ stopped)
          /\ new.rpc = IF answered THEN "answered" ELSE old.rpc
       \/ /\ stopped /\ ~waits
          /\ new.pc = "cancelled" /\ new.at = 0 /\ new.entry = NULL /\ new.cancelled = FALSE
          /\ new.rpc = IF answered THEN "answered" ELSE "none"
DvAreStopped(tasks, a) ==
    /\ tasks \in Seq(DvTaskRecord) /\ DOMAIN tasks = DOMAIN dvTasks
    /\ \A s \in DOMAIN dvTasks :
        /\ DvStopChange(dvTasks[s], tasks[s], DvStopped(s, a), FALSE)

DvResets(a) ==
    LET by == dvQueue[1].by
        new == Len(dvTasks) + 1 IN
    /\ DvTakesCall /\ dvQueue[1].kind = "reset" /\ dvQueue[1].to = a /\ a \in DvAddresses
    /\ dvTasks' \in Seq(DvTaskRecord) /\ new \notin DOMAIN dvTasks
    /\ DOMAIN dvTasks' = DOMAIN dvTasks \cup {new} /\ new \in DOMAIN dvTasks'
    /\ \A s \in DOMAIN dvTasks :
        /\ s \in DOMAIN dvTasks'
        /\ DvStopChange(dvTasks[s], dvTasks'[s], DvStopped(s, a), s = by)
    /\ dvTasks'[new].of = a /\ dvTasks'[new].kind = "main" /\ dvTasks'[new].pc = "begin"
    /\ dvTasks'[new].rpc = "none" /\ dvTasks'[new].at = 0 /\ dvTasks'[new].entry = NULL
    /\ dvTasks'[new].cancelled = FALSE
    /\ \/ by \in DvUsers /\ dvAlive'
       \/ by \notin DvUsers /\ by \in DOMAIN dvTasks /\ dvAlive' = (dvTasks'[by].pc # "cancelled")
    /\ dvPosted' = Append(dvPosted, new)
    /\ dvAdded' = [dvAdded EXCEPT ![a] = {}]
    /\ dvInitialized' = [dvInitialized EXCEPT ![a] = FALSE]
    /\ dvStarted' = [dvStarted EXCEPT ![a] = FALSE]
    /\ dvConfig' = [dvConfig EXCEPT ![a] = {}]
    /\ dvHasty' = (dvHasty \/ (by \in DvUsers /\ ~DvIsIdle))
    /\ dvOvertaken' = dvOvertaken \cup {b \in {a} : DvBeingConfigured(b)}
    /\ UNCHANGED <<dvBusy, dvManagerVars>>

LEMMA DvStoppedAnswer ==
  ASSUME NEW old, NEW mid, NEW new, NEW stopped, NEW answered,
         DvStopChange(old, mid, stopped, FALSE),
         new.of = mid.of, new.kind = mid.kind, new.pc = mid.pc, new.at = mid.at,
         new.entry = mid.entry, new.cancelled = mid.cancelled,
         new.rpc = IF answered THEN "answered" ELSE mid.rpc
  PROVE  DvStopChange(old, new, stopped, answered)
<1>1. CASE answered
  BY <1>1, Zenon DEF DvStopChange
<1>2. CASE ~answered
  BY <1>2, Zenon DEF DvStopChange
<1>. QED
  BY <1>1, <1>2

LEMMA DvStopTasksIs ==
  ASSUME DvTypes, NEW a \in DvAddresses
  PROVE  DvAreStopped(DvStopTasks(a), a)
<1>. DEFINE tasks == DvStopTasks(a)
<1>1. dvTasks \in Seq(DvTaskRecord)
  BY DEF DvTypes
<1>2. DOMAIN tasks = DOMAIN dvTasks
  BY DEF DvStopTasks
<1>3. ASSUME NEW s \in DOMAIN dvTasks
      PROVE  /\ tasks[s] \in DvTaskRecord
             /\ DvStopChange(dvTasks[s], tasks[s], DvStopped(s, a), FALSE)
  <2>1. dvTasks[s] \in DvTaskRecord
    BY <1>1
  <2>2. CASE ~DvStopped(s, a)
    <3>1. tasks[s] = dvTasks[s]
      BY <2>2 DEF DvStopTasks, DvStopped
    <3>. HIDE DEF tasks
    <3>2. dvTasks[s].cancelled \in BOOLEAN
      BY <2>1 DEF DvTaskRecord
    <3>. QED
      BY <2>1, <2>2, <3>1, <3>2 DEF DvStopChange
  <2>3. CASE DvStopped(s, a) /\ (DvAwaitsRPC(s) \/ dvTasks[s].pc = "initialize")
    <3>1. tasks[s] = [dvTasks[s] EXCEPT !.cancelled = TRUE]
      BY <2>3 DEF DvStopTasks, DvStopped
    <3>. HIDE DEF tasks
    <3>. QED
      BY <2>1, <2>3, <3>1 DEF DvTaskRecord, DvAwaitsRPC, DvStopChange
  <2>4. CASE DvStopped(s, a) /\ ~DvAwaitsRPC(s) /\ dvTasks[s].pc # "initialize"
    <3>1. tasks[s] = DvEnded(s, "cancelled")
      BY <2>4 DEF DvStopTasks, DvStopped
    <3>2. "cancelled" \in DvPCs
      BY DEF DvPCs, DvEnds
    <3>. HIDE DEF tasks
    <3>3. /\ tasks[s] \in DvTaskRecord /\ tasks[s].of = dvTasks[s].of /\ tasks[s].kind = dvTasks[s].kind
          /\ tasks[s].pc = "cancelled" /\ tasks[s].rpc = "none" /\ tasks[s].at = 0
          /\ tasks[s].entry = NULL /\ tasks[s].cancelled = FALSE
      <4>1. LET task == DvEnded(s, "cancelled") IN
            /\ task \in DvTaskRecord /\ task.of = dvTasks[s].of /\ task.kind = dvTasks[s].kind
            /\ task.pc = "cancelled" /\ task.rpc = "none" /\ task.at = 0 /\ task.entry = NULL
            /\ task.cancelled = FALSE
        BY <1>1, <3>2, DvEndedIs
      <4>. QED
        BY <3>1, <4>1
    <3>. QED
      BY <2>4, <3>3 DEF DvAwaitsRPC, DvStopChange
  <2>. QED
    BY <2>2, <2>3, <2>4
<1>4. tasks \in Seq(DvTaskRecord)
  <2>1. \A s \in DOMAIN dvTasks : tasks[s] \in DvTaskRecord
    BY <1>3
  <2>2. tasks = [s \in 1 .. Len(dvTasks) |-> tasks[s]] /\ Len(dvTasks) \in Nat
    BY <1>1 DEF DvStopTasks
  <2>3. DOMAIN dvTasks = 1 .. Len(dvTasks)
    BY <1>1
  <2>. HIDE DEF tasks
  <2>4. tasks \in [1 .. Len(dvTasks) -> DvTaskRecord]
    BY <2>1, <2>2, <2>3, Zenon
  <2>. QED
    BY <2>2, <2>4
<1>. HIDE DEF tasks
<1>5. DvAreStopped(tasks, a)
  BY <1>2, <1>3, <1>4 DEF DvAreStopped
<1>. QED
  BY <1>5 DEF tasks

LEMMA DvResetIs ==
  ASSUME DvTypes, DvCallsInv, DvReset
  PROVE  DvResets(dvQueue[1].to)
<1>. DEFINE a == dvQueue[1].to
            by == dvQueue[1].by
            stopped == DvStopTasks(a)
            tasks == Append(stopped, DvTask(a, "main"))
            new == Len(dvTasks) + 1
<1>1. /\ dvTasks \in Seq(DvTaskRecord) /\ DvTakesCall /\ DvHead = dvQueue[1]
      /\ dvQueue[1].kind = "reset"
  BY DvTakesIs DEF DvTypes, DvReset, DvDispatching
<1>2. a \in DvAddresses
  BY <1>1 DEF DvTakesCall, DvCall
<1>3. /\ DvAnswer(by, tasks, "answered")
      /\ dvPosted' = Append(dvPosted, Len(tasks))
  BY <1>1 DEF DvReset
<1>4. /\ dvAdded' = [dvAdded EXCEPT ![a] = {}]
      /\ dvInitialized' = [dvInitialized EXCEPT ![a] = FALSE]
      /\ dvStarted' = [dvStarted EXCEPT ![a] = FALSE]
      /\ dvConfig' = [dvConfig EXCEPT ![a] = {}]
      /\ dvHasty' = (dvHasty \/ (by \in DvUsers /\ ~DvIsIdle))
      /\ dvOvertaken' = dvOvertaken \cup {b \in {a} : DvBeingConfigured(b)}
      /\ UNCHANGED <<dvBusy, dvManagerVars>>
  BY <1>1 DEF DvReset
<1>5. DvAreStopped(stopped, a)
  BY <1>2, DvStopTasksIs
<1>6. stopped \in Seq(DvTaskRecord) /\ DOMAIN stopped = DOMAIN dvTasks /\ Len(stopped) = Len(dvTasks)
  BY <1>1, <1>5 DEF DvAreStopped
<1>. DEFINE main == DvTask(a, "main")
<1>7. /\ main \in DvTaskRecord /\ main.of = a /\ main.kind = "main" /\ main.pc = "begin"
      /\ main.rpc = "none" /\ main.at = 0 /\ main.entry = NULL /\ main.cancelled = FALSE
  BY <1>2 DEF DvTask, DvTaskRecord, DvPCs
<1>. HIDE DEF main, stopped
<1>8. /\ tasks \in Seq(DvTaskRecord) /\ Len(tasks) = new /\ new \notin DOMAIN dvTasks
      /\ DOMAIN tasks = DOMAIN dvTasks \cup {new} /\ new \in DOMAIN tasks
      /\ \A s \in DOMAIN dvTasks : s \in DOMAIN tasks /\ tasks[s] = stopped[s]
      /\ tasks[new] = main
  <2>1. tasks = Append(stopped, main)
    BY DEF main
  <2>2. /\ tasks \in Seq(DvTaskRecord) /\ Len(tasks) = Len(stopped) + 1
        /\ DOMAIN stopped = 1 .. Len(stopped) /\ DOMAIN tasks = 1 .. Len(stopped) + 1
        /\ Len(stopped) \in Nat
        /\ \A s \in DOMAIN stopped : tasks[s] = stopped[s] /\ s \in DOMAIN tasks
        /\ tasks[Len(stopped) + 1] = main /\ Len(stopped) + 1 \in DOMAIN tasks
        /\ Len(stopped) + 1 \notin DOMAIN stopped
    BY <1>6, <1>7, <2>1, DvAppended
  <2>. HIDE DEF tasks
  <2>. QED
    BY <1>6, <2>2
<1>. HIDE DEF tasks
<1>9. CASE by \in DvUsers
  <2>1. dvTasks' = tasks /\ dvAlive' /\ by \notin DOMAIN dvTasks
    BY <1>1, <1>3, <1>9, DvUsersAreNoTasks DEF DvAnswer, DvTakesCall
  <2>2. \A s \in DOMAIN dvTasks : s # by /\ dvTasks'[s] = stopped[s] /\ s \in DOMAIN dvTasks'
    BY <1>8, <2>1
  <2>3. /\ dvTasks' \in Seq(DvTaskRecord) /\ DOMAIN dvTasks' = DOMAIN dvTasks \cup {new}
        /\ new \in DOMAIN dvTasks' /\ dvTasks'[new] = main
    BY <1>8, <2>1
  <2>. HIDE DEF new
  <2>4. ASSUME NEW s \in DOMAIN dvTasks
        PROVE  s \in DOMAIN dvTasks' /\ DvStopChange(dvTasks[s], dvTasks'[s], DvStopped(s, a), s = by)
    <3>1. DvStopChange(dvTasks[s], stopped[s], DvStopped(s, a), FALSE)
      BY <1>5 DEF DvAreStopped
    <3>2. s # by /\ dvTasks'[s] = stopped[s] /\ s \in DOMAIN dvTasks'
      BY <2>2
    <3>3. (s = by) = FALSE
      BY <3>2
    <3>. QED
      BY <3>1, <3>2, <3>3, Zenon
  <2>. QED
    BY <1>1, <1>2, <1>3, <1>4, <1>7, <1>8, <1>9, <2>1, <2>3, <2>4, Zenon DEF DvResets, new
<1>10. CASE by \notin DvUsers
  <2>1. by \in DOMAIN dvTasks
    BY <1>1, <1>10 DEF DvTakesCall, DvCallInv
  <2>2. dvTasks' = [tasks EXCEPT ![by].rpc = "answered"] /\ dvAlive' = (tasks[by].pc # "cancelled")
    BY <1>3, <1>10 DEF DvAnswer
  <2>3. DvIsAnswered(dvTasks', tasks, by, "answered")
    BY <1>8, <2>1, <2>2, DvRpcSet
  <2>4. dvAlive' = (dvTasks'[by].pc # "cancelled") /\ new # by
    BY <1>8, <2>1, <2>2, <2>3 DEF DvIsAnswered
  <2>5. /\ dvTasks' \in Seq(DvTaskRecord) /\ DOMAIN dvTasks' = DOMAIN dvTasks \cup {new}
        /\ new \in DOMAIN dvTasks'
    BY <1>8, <2>3 DEF DvIsAnswered
  <2>. HIDE DEF new
  <2>6. /\ dvTasks'[new].of = a /\ dvTasks'[new].kind = "main" /\ dvTasks'[new].pc = "begin"
        /\ dvTasks'[new].rpc = "none" /\ dvTasks'[new].at = 0 /\ dvTasks'[new].entry = NULL
        /\ dvTasks'[new].cancelled = FALSE
    BY <1>7, <1>8, <2>3, <2>4 DEF DvIsAnswered
  <2>7. ASSUME NEW s \in DOMAIN dvTasks
        PROVE  s \in DOMAIN dvTasks' /\ DvStopChange(dvTasks[s], dvTasks'[s], DvStopped(s, a), s = by)
    <3>1. DvStopChange(dvTasks[s], stopped[s], DvStopped(s, a), FALSE)
      BY <1>5 DEF DvAreStopped
    <3>2. s \in DOMAIN tasks /\ tasks[s] = stopped[s] /\ s \in DOMAIN dvTasks'
      BY <1>8, <2>3 DEF DvIsAnswered
    <3>3. /\ dvTasks'[s].of = stopped[s].of /\ dvTasks'[s].kind = stopped[s].kind
          /\ dvTasks'[s].pc = stopped[s].pc /\ dvTasks'[s].at = stopped[s].at
          /\ dvTasks'[s].entry = stopped[s].entry /\ dvTasks'[s].cancelled = stopped[s].cancelled
          /\ dvTasks'[s].rpc = IF s = by THEN "answered" ELSE stopped[s].rpc
      BY <2>3, <3>2 DEF DvIsAnswered
    <3>4. DvStopChange(dvTasks[s], dvTasks'[s], DvStopped(s, a), s = by)
      BY <3>1, <3>3, DvStoppedAnswer, Zenon
    <3>. QED
      BY <3>2, <3>4
  <2>. QED
    BY <1>1, <1>2, <1>3, <1>4, <1>8, <1>10, <2>1, <2>4, <2>5, <2>6, <2>7, Zenon DEF DvResets, new
<1>. QED
  BY <1>9, <1>10

-----------------------------------------------------------------------------
\* The steps of task t, one by one.
DvSends(t, to, kind, var) ==
    \E c \in DvCall :
        /\ c.to = to /\ c.kind = kind /\ c.by = t /\ c.var = var
        /\ dvQueue' = Append(dvQueue, c)
DvSame == UNCHANGED <<dvAlive, dvPosted, dvAdded, dvStarted, dvConfig, dvBusy, dvPast>>

DvCancelledStep(t) ==
    /\ dvTasks[t].cancelled /\ ~DvOver(t) /\ DvEndsAs(t, "cancelled")
    /\ dvUnfinished' = IF dvTasks[t].pc = "configure" THEN dvUnfinished - 1 ELSE dvUnfinished
    /\ UNCHANGED <<dvQueue, dvInitialized, dvManagerUp, dvEntries>> /\ DvSame
DvRaisesStep(t) ==
    /\ DvRuns(t)
    /\ dvAlive => dvTasks[t].rpc = "refused"
    /\ \E pc \in {"refused", "failed"} : DvEndsAs(t, pc)
    /\ dvUnfinished' = IF dvTasks[t].pc = "configure" THEN dvUnfinished - 1 ELSE dvUnfinished
    /\ UNCHANGED <<dvQueue, dvInitialized, dvManagerUp, dvEntries>> /\ DvSame
DvClearStep(t) ==
    /\ DvAt(t, "begin") /\ dvTasks[t].of = DvController /\ dvTasks[t].kind = "main"
    /\ DvGoesTo(t, "initialize") /\ dvManagerUp' = FALSE
    /\ UNCHANGED <<dvQueue, dvInitialized, dvEntries, dvUnfinished>> /\ DvSame
DvFailsStep(t) ==
    /\ dvTasks[t].pc = "initialize" /\ DvEndsAs(t, "failed")
    /\ UNCHANGED <<dvQueue, dvInitialized, dvManagerVars>> /\ DvSame
DvUpStep(t) ==
    /\ DvRuns(t) /\ dvTasks[t].pc \in {"starting", "reset tiles"}
    /\ DvEndsAs(t, "done") /\ dvInitialized' = [dvInitialized EXCEPT ![DvController] = TRUE]
    /\ dvTasks[t].pc = "reset tiles" => dvTasks[t].rpc = "answered"
    /\ UNCHANGED <<dvQueue, dvManagerVars>> /\ DvSame
DvNextTileStep(t) ==
    LET n == dvTasks[t].at + 1 IN
    /\ DvRuns(t) /\ dvTasks[t].pc \in {"starting", "reset tiles"} /\ n \in DOMAIN DvTiles
    /\ DvBecomes(t, "reset tiles", n, dvTasks[t].entry, dvTasks[t].cancelled)
    /\ dvTasks[t].pc = "reset tiles" => dvTasks[t].rpc = "answered"
    /\ DvSends(t, DvTiles[n], "reset", NULL)
    /\ UNCHANGED <<dvInitialized, dvManagerVars>> /\ DvSame
DvReadyStep(t) ==
    /\ DvRuns(t) /\ dvTasks[t].kind = "worker" /\ dvTasks[t].pc = "begin"
    /\ DvGoesTo(t, "get") /\ dvManagerUp' = TRUE
    /\ UNCHANGED <<dvQueue, dvInitialized, dvEntries, dvUnfinished>> /\ DvSame
DvGetStep(t) ==
    LET a == Head(dvEntries) IN
    /\ DvRuns(t) /\ dvTasks[t].kind = "worker" /\ dvTasks[t].pc = "get"
    /\ dvEntries # <<>> /\ a \in DvPeripherals /\ dvEntries' = Tail(dvEntries)
    /\ DvBecomes(t, "configure", 1, a, dvTasks[t].cancelled)
    /\ \/ DvVars = 0 /\ DvSends(t, a, "start", NULL)
       \/ DvVars > 0 /\ DvSends(t, a, "config", 1)
    /\ UNCHANGED <<dvInitialized, dvManagerUp, dvUnfinished>> /\ DvSame
DvDoneStep(t) ==
    /\ DvRuns(t) /\ dvTasks[t].pc = "configure" /\ dvTasks[t].rpc = "answered"
    /\ DvBecomes(t, "get", 0, NULL, dvTasks[t].cancelled) /\ dvUnfinished' = dvUnfinished - 1
    /\ UNCHANGED <<dvQueue, dvInitialized, dvManagerUp, dvEntries>> /\ DvSame
DvConfigStep(t) ==
    LET n == dvTasks[t].at
        a == dvTasks[t].entry IN
    /\ DvRuns(t) /\ dvTasks[t].pc = "configure" /\ dvTasks[t].rpc = "answered" /\ n \in 1 .. DvVars
    /\ DvBecomes(t, "configure", n + 1, a, dvTasks[t].cancelled) /\ a \in DvPeripherals
    /\ \/ n = DvVars /\ DvSends(t, a, "start", NULL)
       \/ n < DvVars /\ DvSends(t, a, "config", n + 1)
    /\ UNCHANGED <<dvInitialized, dvManagerVars>> /\ DvSame
DvRegisterStep(t) ==
    /\ DvRuns(t) /\ dvTasks[t].of \in DvPeripherals /\ dvTasks[t].pc = "begin"
    /\ DvGoesTo(t, "register") /\ DvSends(t, DvController, "register", NULL)
    /\ UNCHANGED <<dvInitialized, dvManagerVars>> /\ DvSame
DvAppStep(t) ==
    LET a == dvTasks[t].of IN
    /\ DvRuns(t) /\ a \in DvPeripherals /\ dvTasks[t].pc = "register"
    /\ dvTasks[t].rpc = "answered" /\ dvStarted[a]
    /\ DvGoesTo(t, "app") /\ dvInitialized' = [dvInitialized EXCEPT ![a] = TRUE]
    /\ UNCHANGED <<dvQueue, dvManagerVars>> /\ DvSame
DvTaskStep(t) ==
    \/ DvCancelledStep(t) \/ DvRaisesStep(t) \/ DvClearStep(t) \/ DvFailsStep(t)
    \/ DvUpStep(t) \/ DvNextTileStep(t) \/ DvReadyStep(t) \/ DvGetStep(t)
    \/ DvDoneStep(t) \/ DvConfigStep(t) \/ DvRegisterStep(t) \/ DvAppStep(t)

\* The worker is posted.
DvPostStep(t) ==
    LET new == Len(dvTasks) + 1 IN
    /\ ~DvOver(t) /\ dvTasks[t].pc = "initialize"
    /\ dvTasks' \in Seq(DvTaskRecord) /\ new \notin DOMAIN dvTasks
    /\ DOMAIN dvTasks' = DOMAIN dvTasks \cup {new} /\ new \in DOMAIN dvTasks'
    /\ \A s \in DOMAIN dvTasks : s \in DOMAIN dvTasks' /\ (s # t => dvTasks'[s] = dvTasks[s])
    /\ dvTasks'[t].of = dvTasks[t].of /\ dvTasks'[t].kind = dvTasks[t].kind
    /\ dvTasks'[t].pc = "starting" /\ dvTasks'[t].rpc = dvTasks[t].rpc
    /\ dvTasks'[t].at = dvTasks[t].at /\ dvTasks'[t].entry = dvTasks[t].entry
    /\ dvTasks'[t].cancelled = dvTasks[t].cancelled
    /\ dvTasks'[new].of = DvController /\ dvTasks'[new].kind = "worker" /\ dvTasks'[new].pc = "begin"
    /\ dvTasks'[new].rpc = "none" /\ dvTasks'[new].at = 0 /\ dvTasks'[new].entry = NULL
    /\ dvTasks'[new].cancelled = FALSE
    /\ dvPosted' = Append(dvPosted, new)
    /\ UNCHANGED <<dvQueue, dvAlive, dvAdded, dvTileVars, dvBusy, dvManagerVars, dvPast>>

LEMMA DvSendIs ==
  ASSUME dvQueue \in Seq(DvCall), NEW t \in Nat, NEW to \in DvAddresses,
         NEW kind \in {"reset", "register", "config", "start"}, NEW var \in Nat \cup {NULL},
         DvSend(t, to, kind, var)
  PROVE  DvSends(t, to, kind, var)
<1>. DEFINE c == [to |-> to, kind |-> kind, by |-> t, var |-> var]
<1>1. c \in DvCall /\ c.to = to /\ c.kind = kind /\ c.by = t /\ c.var = var
  BY DEF DvCall
<1>2. dvQueue' = Append(dvQueue, c)
  BY DEF DvSend
<1>. HIDE DEF c
<1>. QED
  BY <1>1, <1>2 DEF DvSends

LEMMA DvPCsAre == \A pc \in {"initialize", "starting", "reset tiles", "get", "configure", "register",
                             "app", "done", "refused", "failed", "cancelled"} : pc \in DvPCs
BY DEF DvPCs, DvEnds

\* The steps of DeviceReset are these.
LEMMA DvEndingSteps ==
  ASSUME DvTypes, DvTasksInv, NEW t \in DOMAIN dvTasks, DvCancelled(t) \/ DvRaises(t)
  PROVE  DvTaskStep(t)
<1>1. dvTasks \in Seq(DvTaskRecord)
  BY DEF DvTypes
<1>2. CASE DvCancelled(t)
  <2>1. DvEndsAs(t, "cancelled")
    BY <1>1, <1>2, DvEndIs, DvPCsAre DEF DvCancelled, DvEnd
  <2>. QED
    BY <1>2, <2>1 DEF DvCancelled, DvTaskStep, DvCancelledStep, DvSame, dvTileVars, dvPast, dvUserVars
<1>3. CASE DvRaises(t)
  <2>1. \E pc \in {"refused", "failed"} : DvEnd(t, pc)
    BY <1>3 DEF DvRaises
  <2>2. \E pc \in {"refused", "failed"} : DvEndsAs(t, pc)
    BY <1>1, <2>1, DvEndIs, DvPCsAre
  <2>. QED
    BY <1>3, <2>2 DEF DvRaises, DvTaskStep, DvRaisesStep, DvSame, dvTileVars, dvPast, dvUserVars
<1>. QED
  BY <1>2, <1>3

LEMMA DvControllerSteps ==
  ASSUME DvTypes, DvTasksInv, NEW t \in DOMAIN dvTasks, DvClear(t) \/ DvResetTiles(t)
  PROVE  DvTaskStep(t)
<1>1. dvTasks \in Seq(DvTaskRecord) /\ dvQueue \in Seq(DvCall)
  BY DEF DvTypes
<1>2. CASE DvClear(t)
  <2>1. DvGoesTo(t, "initialize")
    BY <1>1, <1>2, DvStepIs, DvPCsAre DEF DvClear
  <2>. QED
    BY <1>2, <2>1 DEF DvClear, DvTaskStep, DvClearStep, DvSame, dvTileVars, dvPast, dvUserVars
<1>3. CASE DvResetTiles(t)
  <2>. DEFINE n == dvTasks[t].at + 1
  <2>1. /\ DvRuns(t) /\ dvTasks[t].pc \in {"starting", "reset tiles"}
        /\ dvTasks[t].pc = "reset tiles" => dvTasks[t].rpc = "answered"
        /\ UNCHANGED dvManagerVars /\ DvSame
    BY <1>3 DEF DvResetTiles, DvAnswered, DvSame, dvPast, dvUserVars
  <2>2. /\ dvTasks[t] \in DvTaskRecord /\ DvWellFormed(dvTasks[t]) /\ t \in Nat
        /\ dvTasks[t].at \in 0 .. Len(DvTiles) /\ DOMAIN DvTiles = 1 .. Len(DvTiles)
    <3>1. dvTasks[t] \in DvTaskRecord /\ DvWellFormed(dvTasks[t]) /\ t \in Nat
      BY <1>1 DEF DvTasksInv
    <3>2. Len(DvTiles) \in Nat /\ DOMAIN DvTiles = 1 .. Len(DvTiles)
      BY DvAssumption
    <3>3. dvTasks[t].at \in DOMAIN DvTiles \/ dvTasks[t].at = 0
      BY <2>1, <3>1 DEF DvWellFormed
    <3>. QED
      BY <3>1, <3>2, <3>3
  <2>3. CASE dvTasks[t].at = Len(DvTiles)
    <3>1. /\ dvInitialized' = [dvInitialized EXCEPT ![DvController] = TRUE]
          /\ DvEnd(t, "done") /\ UNCHANGED dvQueue
      BY <1>3, <2>3 DEF DvResetTiles
    <3>2. DvEndsAs(t, "done")
      BY <1>1, <3>1, DvEndIs, DvPCsAre
    <3>. QED
      BY <2>1, <3>1, <3>2 DEF DvTaskStep, DvUpStep
  <2>4. CASE dvTasks[t].at # Len(DvTiles)
    <3>. DEFINE task == [dvTasks[t] EXCEPT !.pc = "reset tiles", !.rpc = "none", !.at = n]
    <3>1. /\ DvSend(t, DvTiles[n], "reset", NULL) /\ UNCHANGED dvInitialized
          /\ dvTasks' = [dvTasks EXCEPT ![t].pc = "reset tiles", ![t].rpc = "none", ![t].at = @ + 1]
      BY <1>3, <2>4 DEF DvResetTiles
    <3>2. n \in DOMAIN DvTiles /\ DvTiles[n] \in DvAddresses /\ n \in Nat
      BY <2>2, <2>4, DvAssumption DEF DvAddresses, DvPeripherals
    <3>3. dvTasks' = [dvTasks EXCEPT ![t] = task]
      BY <1>1, <3>1
    <3>4. /\ task \in DvTaskRecord /\ task.of = dvTasks[t].of /\ task.kind = dvTasks[t].kind
          /\ task.pc = "reset tiles" /\ task.rpc = "none" /\ task.at = n
          /\ task.entry = dvTasks[t].entry /\ task.cancelled = dvTasks[t].cancelled
      BY <2>2, <3>2, DvPCsAre DEF DvTaskRecord
    <3>. HIDE DEF task
    <3>5. DvBecomes(t, "reset tiles", n, dvTasks[t].entry, dvTasks[t].cancelled)
      BY <1>1, <3>3, <3>4, DvTaskUpdated
    <3>6. DvSends(t, DvTiles[n], "reset", NULL)
      BY <1>1, <2>2, <3>1, <3>2, DvSendIs
    <3>. QED
      BY <2>1, <3>1, <3>2, <3>5, <3>6 DEF DvTaskStep, DvNextTileStep
  <2>. QED
    BY <2>3, <2>4
<1>. QED
  BY <1>2, <1>3

LEMMA DvWorkerSteps ==
  ASSUME DvTypes, DvTasksInv, NEW t \in DOMAIN dvTasks, DvTake(t) \/ DvConfigure(t)
  PROVE  DvTaskStep(t)
<1>. DEFINE n == dvTasks[t].at
            a == dvTasks[t].entry
<1>1. /\ dvTasks \in Seq(DvTaskRecord) /\ dvQueue \in Seq(DvCall) /\ t \in Nat
      /\ dvTasks[t] \in DvTaskRecord /\ DvWellFormed(dvTasks[t])
      /\ DvVars \in Nat /\ 1 \in Nat /\ DvPeripherals \subseteq DvAddresses
      /\ dvEntries \in Seq(DvPeripherals)
  BY DvAssumption DEF DvTypes, DvTasksInv, DvAddresses
<1>2. CASE DvTake(t) /\ dvTasks[t].pc = "begin"
  <2>1. /\ DvRuns(t) /\ dvTasks[t].kind = "worker" /\ dvManagerUp' = TRUE /\ DvStep(t, "get")
        /\ UNCHANGED <<dvQueue, dvInitialized, dvEntries, dvUnfinished>> /\ DvSame
    BY <1>2 DEF DvTake, DvSame, dvPast, dvUserVars, dvTileVars
  <2>2. DvGoesTo(t, "get")
    BY <1>1, <2>1, DvStepIs, DvPCsAre
  <2>. QED
    BY <1>2, <2>1, <2>2 DEF DvTaskStep, DvReadyStep
<1>3. CASE DvTake(t) /\ dvTasks[t].pc # "begin"
  <2>. DEFINE b == Head(dvEntries)
              task == [dvTasks[t] EXCEPT !.pc = "configure", !.entry = b, !.at = 1, !.rpc = "none"]
  <2>1. /\ DvRuns(t) /\ dvTasks[t].kind = "worker" /\ dvTasks[t].pc = "get" /\ dvEntries # <<>>
        /\ dvEntries' = Tail(dvEntries)
        /\ dvTasks' = [dvTasks EXCEPT ![t].pc = "configure", ![t].entry = Head(dvEntries),
                                      ![t].at = 1, ![t].rpc = "none"]
        /\ IF DvVars = 0 THEN DvSend(t, b, "start", NULL) ELSE DvSend(t, b, "config", 1)
        /\ UNCHANGED <<dvInitialized, dvManagerUp, dvUnfinished>> /\ DvSame
    BY <1>3 DEF DvTake, DvSame, dvPast, dvUserVars, dvTileVars
  <2>2. b \in DvPeripherals
    BY <1>1, <2>1, DvTailed
  <2>3. dvTasks' = [dvTasks EXCEPT ![t] = task]
    BY <1>1, <2>1
  <2>4. /\ task \in DvTaskRecord /\ task.of = dvTasks[t].of /\ task.kind = dvTasks[t].kind
        /\ task.pc = "configure" /\ task.rpc = "none" /\ task.at = 1
        /\ task.entry = b /\ task.cancelled = dvTasks[t].cancelled
    BY <1>1, <2>2, DvPCsAre DEF DvTaskRecord
  <2>. HIDE DEF task, b
  <2>5. DvBecomes(t, "configure", 1, b, dvTasks[t].cancelled)
    BY <1>1, <2>3, <2>4, DvTaskUpdated
  <2>6. b \in DvAddresses /\ NULL \in Nat \cup {NULL} /\ 1 \in Nat \cup {NULL}
    BY <1>1, <2>2
  <2>7. DvVars = 0 => DvSends(t, b, "start", NULL)
    BY <1>1, <2>1, <2>6, DvSendIs
  <2>8. DvVars # 0 => DvSends(t, b, "config", 1) /\ DvVars > 0
    BY <1>1, <2>1, <2>6, DvSendIs
  <2>. QED
    BY <2>1, <2>2, <2>5, <2>7, <2>8 DEF DvTaskStep, DvGetStep, b
<1>4. CASE DvConfigure(t) /\ n > DvVars
  <2>. DEFINE task == [dvTasks[t] EXCEPT !.pc = "get", !.rpc = "none", !.entry = NULL, !.at = 0]
  <2>1. /\ DvRuns(t) /\ dvTasks[t].pc = "configure" /\ dvTasks[t].rpc = "answered"
        /\ dvTasks' = [dvTasks EXCEPT ![t].pc = "get", ![t].rpc = "none",
                                      ![t].entry = NULL, ![t].at = 0]
        /\ dvUnfinished' = dvUnfinished - 1
        /\ UNCHANGED <<dvQueue, dvInitialized, dvManagerUp, dvEntries>> /\ DvSame
    BY <1>4 DEF DvConfigure, DvAt, DvAnswered, DvSame, dvPast, dvUserVars, dvTileVars
  <2>3. dvTasks' = [dvTasks EXCEPT ![t] = task]
    BY <1>1, <2>1
  <2>4. /\ task \in DvTaskRecord /\ task.of = dvTasks[t].of /\ task.kind = dvTasks[t].kind
        /\ task.pc = "get" /\ task.rpc = "none" /\ task.at = 0
        /\ task.entry = NULL /\ task.cancelled = dvTasks[t].cancelled
    BY <1>1, DvPCsAre DEF DvTaskRecord
  <2>. HIDE DEF task
  <2>5. DvBecomes(t, "get", 0, NULL, dvTasks[t].cancelled)
    BY <1>1, <2>3, <2>4, DvTaskUpdated
  <2>. QED
    BY <2>1, <2>5 DEF DvTaskStep, DvDoneStep
<1>5. CASE DvConfigure(t) /\ ~(n > DvVars)
  <2>. DEFINE task == [dvTasks[t] EXCEPT !.at = n + 1, !.rpc = "none"]
  <2>1. /\ DvRuns(t) /\ dvTasks[t].pc = "configure" /\ dvTasks[t].rpc = "answered"
        /\ dvTasks' = [dvTasks EXCEPT ![t].at = @ + 1, ![t].rpc = "none"]
        /\ IF n = DvVars THEN DvSend(t, a, "start", NULL) ELSE DvSend(t, a, "config", n + 1)
        /\ UNCHANGED <<dvInitialized, dvManagerVars>> /\ DvSame
    BY <1>5 DEF DvConfigure, DvAt, DvAnswered, DvSame, dvPast, dvUserVars, dvTileVars, dvManagerVars
  <2>2. /\ n \in 1 .. DvVars /\ n + 1 \in Nat /\ a \in DvPeripherals
    BY <1>1, <1>5, <2>1 DEF DvWellFormed, DvTaskRecord
  <2>3. dvTasks' = [dvTasks EXCEPT ![t] = task]
    BY <1>1, <2>1
  <2>4. /\ task \in DvTaskRecord /\ task.of = dvTasks[t].of /\ task.kind = dvTasks[t].kind
        /\ task.pc = "configure" /\ task.rpc = "none" /\ task.at = n + 1
        /\ task.entry = a /\ task.cancelled = dvTasks[t].cancelled
    BY <1>1, <2>1, <2>2 DEF DvTaskRecord
  <2>. HIDE DEF task
  <2>5. DvBecomes(t, "configure", n + 1, a, dvTasks[t].cancelled)
    BY <1>1, <2>3, <2>4, DvTaskUpdated
  <2>6. a \in DvAddresses /\ NULL \in Nat \cup {NULL} /\ n + 1 \in Nat \cup {NULL}
    BY <1>1, <2>2
  <2>. HIDE DEF n, a
  <2>7. n = DvVars => DvSends(t, a, "start", NULL)
    BY <1>1, <2>1, <2>6, DvSendIs
  <2>8. n # DvVars => DvSends(t, a, "config", n + 1) /\ n < DvVars
    BY <1>1, <2>1, <2>2, <2>6, DvSendIs
  <2>. QED
    BY <2>1, <2>2, <2>5, <2>7, <2>8 DEF DvTaskStep, DvConfigStep, n, a
<1>. QED
  BY <1>2, <1>3, <1>4, <1>5

LEMMA DvTileSteps ==
  ASSUME DvTypes, DvTasksInv, NEW t \in DOMAIN dvTasks, DvTileMain(t)
  PROVE  DvTaskStep(t)
<1>1. /\ dvTasks \in Seq(DvTaskRecord) /\ dvQueue \in Seq(DvCall) /\ t \in Nat
      /\ dvTasks[t] \in DvTaskRecord /\ DvController \in DvAddresses
  BY DEF DvTypes, DvAddresses
<1>2. dvTasks[t].of \in DvPeripherals /\ DvRuns(t)
  BY <1>1 DEF DvTileMain, DvTaskRecord, DvAddresses
<1>3. CASE dvTasks[t].pc = "begin"
  <2>1. /\ DvSend(t, DvController, "register", NULL) /\ DvStep(t, "register")
        /\ UNCHANGED <<dvInitialized, dvManagerVars>> /\ DvSame
    BY <1>3 DEF DvTileMain, DvSame, dvPast, dvUserVars
  <2>2. DvSends(t, DvController, "register", NULL) /\ DvGoesTo(t, "register")
    BY <1>1, <2>1, DvSendIs, DvStepIs, DvPCsAre
  <2>. QED
    BY <1>2, <1>3, <2>1, <2>2 DEF DvTaskStep, DvRegisterStep
<1>4. CASE dvTasks[t].pc # "begin"
  <2>1. /\ dvTasks[t].pc = "register" /\ dvTasks[t].rpc = "answered" /\ dvStarted[dvTasks[t].of]
        /\ DvStep(t, "app") /\ dvInitialized' = [dvInitialized EXCEPT ![dvTasks[t].of] = TRUE]
        /\ UNCHANGED <<dvQueue, dvManagerVars>> /\ DvSame
    BY <1>4 DEF DvTileMain, DvAnswered, DvSame, dvPast, dvUserVars
  <2>2. DvGoesTo(t, "app")
    BY <1>1, <2>1, DvStepIs, DvPCsAre
  <2>. QED
    BY <1>2, <2>1, <2>2 DEF DvTaskStep, DvAppStep
<1>. QED
  BY <1>3, <1>4

LEMMA DvInitializeSteps ==
  ASSUME DvTypes, DvTasksInv, NEW t \in DOMAIN dvTasks, DvInitialize(t)
  PROVE  DvTaskStep(t) \/ DvPostStep(t)
<1>1. /\ dvTasks \in Seq(DvTaskRecord) /\ t \in Nat /\ dvTasks[t] \in DvTaskRecord
      /\ ~DvOver(t) /\ dvTasks[t].pc = "initialize"
  BY DEF DvTypes, DvInitialize
<1>2. CASE dvManagerUp
  <2>1. DvEndsAs(t, "failed")
    BY <1>1, <1>2, DvEndIs, DvPCsAre DEF DvInitialize
  <2>. QED
    BY <1>1, <1>2, <2>1 DEF DvInitialize, DvTaskStep, DvFailsStep, DvSame, dvTileVars, dvPast, dvUserVars
<1>3. CASE ~dvManagerUp
  <2>. DEFINE task == [dvTasks[t] EXCEPT !.pc = "starting"]
              worker == DvTask(DvController, "worker")
              tasks == [dvTasks EXCEPT ![t].pc = "starting"]
              new == Len(dvTasks) + 1
  <2>1. /\ dvTasks' = Append(tasks, worker) /\ dvPosted' = Append(dvPosted, Len(tasks) + 1)
        /\ UNCHANGED <<dvQueue, dvAlive, dvAdded, dvTileVars, dvBusy, dvManagerVars, dvPast>>
    BY <1>3 DEF DvInitialize, DvPosted, dvUserVars
  <2>2. /\ worker \in DvTaskRecord /\ worker.of = DvController /\ worker.kind = "worker"
        /\ worker.pc = "begin" /\ worker.rpc = "none" /\ worker.at = 0 /\ worker.entry = NULL
        /\ worker.cancelled = FALSE
    BY DEF DvTask, DvTaskRecord, DvPCs, DvAddresses
  <2>3. tasks = [dvTasks EXCEPT ![t] = task]
    OBVIOUS
  <2>4. /\ task \in DvTaskRecord /\ task.of = dvTasks[t].of /\ task.kind = dvTasks[t].kind
        /\ task.pc = "starting" /\ task.rpc = dvTasks[t].rpc /\ task.at = dvTasks[t].at
        /\ task.entry = dvTasks[t].entry /\ task.cancelled = dvTasks[t].cancelled
    BY <1>1, DvPCsAre DEF DvTaskRecord
  <2>. HIDE DEF task, worker, tasks
  <2>5. /\ tasks \in Seq(DvTaskRecord) /\ DOMAIN tasks = DOMAIN dvTasks /\ tasks[t] = task
        /\ \A s \in DOMAIN dvTasks : s # t => tasks[s] = dvTasks[s]
    BY <1>1, <2>3, <2>4, DvUpdated
  <2>6. Len(tasks) = Len(dvTasks)
    BY <1>1, <2>5
  <2>7. /\ dvTasks' \in Seq(DvTaskRecord)
        /\ DOMAIN tasks = 1 .. Len(tasks) /\ DOMAIN dvTasks' = 1 .. Len(tasks) + 1
        /\ Len(tasks) \in Nat
        /\ \A s \in DOMAIN tasks : dvTasks'[s] = tasks[s] /\ s \in DOMAIN dvTasks'
        /\ dvTasks'[Len(tasks) + 1] = worker /\ Len(tasks) + 1 \in DOMAIN dvTasks'
        /\ Len(tasks) + 1 \notin DOMAIN tasks
    BY <2>1, <2>2, <2>5, DvAppended
  <2>8. /\ DOMAIN dvTasks' = DOMAIN dvTasks \cup {new} /\ new \notin DOMAIN dvTasks
        /\ new \in DOMAIN dvTasks' /\ dvTasks'[new] = worker
        /\ dvPosted' = Append(dvPosted, new)
    BY <2>1, <2>5, <2>6, <2>7
  <2>9. /\ \A s \in DOMAIN dvTasks : s \in DOMAIN dvTasks' /\ (s # t => dvTasks'[s] = dvTasks[s])
        /\ dvTasks'[t] = task
    BY <2>5, <2>7
  <2>. HIDE DEF new
  <2>. QED
    BY <1>1, <2>1, <2>2, <2>4, <2>7, <2>8, <2>9, Zenon DEF DvPostStep, new
<1>. QED
  BY <1>2, <1>3

-----------------------------------------------------------------------------
\* All steps.
DvStay == UNCHANGED <<dvAlive, dvTasks, dvPosted, dvAdded, dvTileVars, dvManagerVars, dvPast>>
DvQuietStep ==
    /\ UNCHANGED dvQueue /\ DvStay
    /\ \/ UNCHANGED dvBusy
       \/ \E a \in DvAddresses : dvBusy' = [dvBusy EXCEPT ![a] = NULL]
DvUserCallStep ==
    /\ \E c \in DvCall :
        /\ c.by \in DvUsers /\ c.kind \in {"reset", "echo"} /\ dvQueue' = Append(dvQueue, c)
    /\ DvStay /\ UNCHANGED dvBusy
DvRefusedStep ==
    /\ DvAnswers("refused")
    /\ UNCHANGED <<dvPosted, dvAdded, dvTileVars, dvBusy, dvManagerVars, dvPast>>
DvConfigCallStep ==
    /\ DvAnswers("answered") /\ dvQueue[1].kind = "config"
    /\ dvConfig' = IF dvInitialized[dvQueue[1].to] THEN dvConfig
                   ELSE [dvConfig EXCEPT ![dvQueue[1].to] = @ \cup {dvQueue[1].var}]
    /\ UNCHANGED <<dvPosted, dvAdded, dvInitialized, dvStarted, dvBusy, dvManagerVars, dvPast>>
DvStartCallStep ==
    /\ DvAnswers("answered") /\ dvQueue[1].kind = "start"
    /\ dvStarted' = [dvStarted EXCEPT ![dvQueue[1].to] = TRUE]
    /\ UNCHANGED <<dvPosted, dvAdded, dvInitialized, dvConfig, dvBusy, dvManagerVars, dvPast>>
DvRegisterCallStep ==
    LET by == dvQueue[1].by IN
    /\ DvAnswers("answered") /\ dvQueue[1].kind = "register"
    /\ by \in DOMAIN dvTasks /\ dvTasks[by].of \in DvPeripherals
    /\ dvEntries' = Append(dvEntries, dvTasks[by].of) /\ dvUnfinished' = dvUnfinished + 1
    /\ UNCHANGED <<dvPosted, dvAdded, dvTileVars, dvBusy, dvManagerUp, dvPast>>
DvDeferStep ==
    /\ DvTakesCall /\ dvQueue[1].by \in DvUsers
    /\ \E a \in DvAddresses : dvBusy' = [dvBusy EXCEPT ![a] = dvQueue[1].by]
    /\ DvStay
DvSteps ==
    \/ DvQuietStep \/ DvUserCallStep \/ DvAddTask
    \/ DvRefusedStep \/ DvConfigCallStep \/ DvStartCallStep \/ DvRegisterCallStep \/ DvDeferStep
    \/ \E a \in DvAddresses : DvResets(a)
    \/ \E t \in DOMAIN dvTasks : DvTaskStep(t) \/ DvPostStep(t)

LEMMA DvDispatcherSteps ==
  ASSUME DvTypes, DvCallsInv,
         DvRefuse \/ DvReset \/ DvSetConfig \/ DvStart \/ DvRegister \/ DvDefer
  PROVE  DvSteps
<1>. USE DEF dvTileVars, dvManagerVars, dvUserVars, dvPast
<1>1. CASE DvRefuse
  <2>1. DvAnswers("refused")
    BY <1>1, DvAnswerIs DEF DvRefuse
  <2>. QED
    BY <1>1, <2>1 DEF DvRefuse, DvRefusedStep, DvSteps
<1>2. CASE DvReset
  <2>1. DvResets(dvQueue[1].to)
    BY <1>2, DvResetIs
  <2>. QED
    BY <2>1 DEF DvResets, DvSteps
<1>3. CASE DvSetConfig
  <2>1. DvAnswers("answered") /\ DvHead = dvQueue[1]
    BY <1>3, DvAnswerIs, DvTakesIs DEF DvSetConfig, DvDispatching
  <2>. QED
    BY <1>3, <2>1 DEF DvSetConfig, DvDispatching, DvConfigCallStep, DvSteps
<1>4. CASE DvStart
  <2>1. DvAnswers("answered") /\ DvHead = dvQueue[1]
    BY <1>4, DvAnswerIs, DvTakesIs DEF DvStart, DvDispatching
  <2>. QED
    BY <1>4, <2>1 DEF DvStart, DvDispatching, DvStartCallStep, DvSteps
<1>5. CASE DvRegister
  <2>1. DvAnswers("answered") /\ DvHead = dvQueue[1]
    BY <1>5, DvAnswerIs, DvTakesIs DEF DvRegister, DvDispatching
  <2>2. dvQueue[1].kind = "register"
    BY <1>5, <2>1 DEF DvRegister, DvDispatching
  <2>3. dvQueue[1].by \in DOMAIN dvTasks /\ dvTasks[dvQueue[1].by].of \in DvPeripherals
    BY <2>1, <2>2 DEF DvAnswers, DvTakesCall, DvCallInv
  <2>. QED
    BY <1>5, <2>1, <2>2, <2>3 DEF DvRegister, DvRegisterCallStep, DvSteps
<1>6. CASE DvDefer
  <2>1. DvTakesCall /\ DvHead = dvQueue[1] /\ dvQueue[1].kind = "echo"
    BY <1>6, DvTakesIs DEF DvDefer, DvDispatching
  <2>2. dvQueue[1].by \in DvUsers /\ dvQueue[1].to \in DvAddresses
    BY <2>1 DEF DvTakesCall, DvCallInv, DvCall
  <2>3. DvStay /\ dvBusy' = [dvBusy EXCEPT ![dvQueue[1].to] = dvQueue[1].by]
    BY <1>6, <2>1 DEF DvDefer, DvStay
  <2>. QED
    BY <2>1, <2>2, <2>3 DEF DvDeferStep, DvSteps
<1>. QED
  BY <1>1, <1>2, <1>3, <1>4, <1>5, <1>6

LEMMA DvStepsAre ==
  ASSUME DvTypes, DvTasksInv, DvCallsInv, [DvNext]_dvVars
  PROVE  DvSteps
<1>. USE DEF dvTileVars, dvManagerVars, dvUserVars, dvPast
<1>0. dvTasks \in Seq(DvTaskRecord) /\ dvQueue \in Seq(DvCall)
  BY DEF DvTypes
<1>1. CASE UNCHANGED dvVars
  BY <1>1 DEF dvVars, DvQuietStep, DvStay, DvSteps
<1>2. CASE DvLaunched \/ \E u \in DvUsers : DvWaitIdle(u) \/ DvReturn(u)
  BY <1>2 DEF DvLaunched, DvWaitIdle, DvReturn, DvQuietStep, DvStay, DvSteps
<1>3. ASSUME NEW u \in DvUsers, NEW to \in DvAddresses, NEW kind \in {"reset", "echo"},
             DvUserCalls(u, to, kind)
      PROVE  DvSteps
  <2>. DEFINE c == [to |-> to, kind |-> kind, by |-> u, var |-> NULL]
  <2>1. c \in DvCall /\ c.by = u /\ c.kind = kind
    BY DEF DvCall
  <2>2. dvQueue' = Append(dvQueue, c) /\ DvStay /\ UNCHANGED dvBusy
    BY <1>3 DEF DvUserCalls, DvSend, DvStay
  <2>. HIDE DEF c
  <2>. QED
    BY <2>1, <2>2 DEF DvUserCallStep, DvSteps
<1>4. CASE DvLoop
  <2>1. CASE DvAddTask
    BY <2>1 DEF DvSteps
  <2>2. CASE DvRefuse \/ DvReset \/ DvSetConfig \/ DvStart \/ DvRegister \/ DvDefer
    BY <2>2, DvDispatcherSteps
  <2>3. ASSUME NEW t \in DOMAIN dvTasks, DvCancelled(t) \/ DvRaises(t)
        PROVE  DvSteps
    BY <2>3, DvEndingSteps DEF DvSteps
  <2>4. ASSUME NEW t \in DOMAIN dvTasks, DvClear(t) \/ DvResetTiles(t)
        PROVE  DvSteps
    BY <2>4, DvControllerSteps DEF DvSteps
  <2>5. ASSUME NEW t \in DOMAIN dvTasks, DvInitialize(t)
        PROVE  DvSteps
    BY <2>5, DvInitializeSteps DEF DvSteps
  <2>6. ASSUME NEW t \in DOMAIN dvTasks, DvTake(t) \/ DvConfigure(t)
        PROVE  DvSteps
    BY <2>6, DvWorkerSteps DEF DvSteps
  <2>7. ASSUME NEW t \in DOMAIN dvTasks, DvTileMain(t)
        PROVE  DvSteps
    BY <2>7, DvTileSteps DEF DvSteps
  <2>8. ASSUME NEW t \in DOMAIN dvTasks, DvFinishAsync(t)
        PROVE  DvSteps
    <3>0. dvTasks[t] \in DvTaskRecord
      BY <1>0
    <3>1. dvTasks[t].of \in DvAddresses
      BY <3>0 DEF DvTaskRecord
    <3>2. UNCHANGED dvQueue /\ DvStay /\ dvBusy' = [dvBusy EXCEPT ![dvTasks[t].of] = NULL]
      BY <2>8 DEF DvFinishAsync, DvStay
    <3>. QED
      BY <3>1, <3>2 DEF DvQuietStep, DvSteps
  <2>. QED
    BY <1>4, <2>1, <2>2, <2>3, <2>4, <2>5, <2>6, <2>7, <2>8 DEF DvLoop
<1>. QED
  BY <1>1, <1>2, <1>3, <1>4 DEF DvNext

\* A call is queued behind the others.
DvGrows(c) ==
    /\ dvQueue' \in Seq(DvCall)
    /\ \A n \in DOMAIN dvQueue : n \in DOMAIN dvQueue' /\ dvQueue'[n] = dvQueue[n]
    /\ \A n \in DOMAIN dvQueue' :
        \/ n \in DOMAIN dvQueue /\ dvQueue'[n] = dvQueue[n]
        \/ n \notin DOMAIN dvQueue /\ n = Len(dvQueue) + 1 /\ dvQueue'[n] = c
    /\ DOMAIN dvQueue = 1 .. Len(dvQueue) /\ Len(dvQueue) \in Nat

LEMMA DvCallGrows ==
  ASSUME dvQueue \in Seq(DvCall), NEW c \in DvCall, dvQueue' = Append(dvQueue, c)
  PROVE  DvGrows(c)
BY DEF DvGrows

LEMMA DvSendsGrow ==
  ASSUME dvQueue \in Seq(DvCall), NEW t, NEW to, NEW kind, NEW var, DvSends(t, to, kind, var)
  PROVE  /\ dvQueue' \in Seq(DvCall)
         /\ \E c \in DvCall :
              c.to = to /\ c.kind = kind /\ c.by = t /\ c.var = var /\ DvGrows(c)
<1>1. PICK c \in DvCall :
        c.to = to /\ c.kind = kind /\ c.by = t /\ c.var = var /\ dvQueue' = Append(dvQueue, c)
  BY DEF DvSends
<1>2. DvGrows(c)
  BY <1>1, DvCallGrows
<1>. QED
  BY <1>1, <1>2 DEF DvGrows

-----------------------------------------------------------------------------
(* The types. *)

LEMMA DvTypesInit == DvInit => DvTypes
<1>. SUFFICES ASSUME DvInit PROVE DvTypes
  OBVIOUS
<1>1. DvTask(DvController, "main") \in DvTaskRecord
  BY DEF DvTask, DvTaskRecord, DvAddresses, DvPCs
<1>2. dvTasks \in Seq(DvTaskRecord)
  BY <1>1 DEF DvInit
<1>3. dvPosted \in Seq(Nat) /\ dvQueue \in Seq(DvCall) /\ dvEntries \in Seq(DvPeripherals)
  BY DEF DvInit
<1>4. /\ dvAdded \in [DvAddresses -> SUBSET Nat] /\ dvConfig \in [DvAddresses -> SUBSET (1 .. DvVars)]
      /\ dvInitialized \in [DvAddresses -> BOOLEAN] /\ dvStarted \in [DvAddresses -> BOOLEAN]
      /\ dvBusy \in [DvAddresses -> DvUsers \cup {NULL}]
  BY DEF DvInit
<1>5. dvUnfinished \in Int /\ dvOvertaken \subseteq DvAddresses
  BY DEF DvInit
<1>6. dvAlive \in BOOLEAN /\ dvManagerUp \in BOOLEAN /\ dvHasty \in BOOLEAN
  BY Zenon DEF DvInit
<1>. QED
  BY <1>2, <1>3, <1>4, <1>5, <1>6 DEF DvTypes

LEMMA DvTypesNext ==
  ASSUME DvTypes, DvTasksInv, DvPostedInv, DvSteps
  PROVE  DvTypes'
<1>. USE DEF dvTileVars, dvManagerVars, dvPast
<1>0. /\ dvTasks \in Seq(DvTaskRecord) /\ dvQueue \in Seq(DvCall) /\ dvPosted \in Seq(Nat)
      /\ dvEntries \in Seq(DvPeripherals) /\ DvController \in DvAddresses
      /\ DvPeripherals \subseteq DvAddresses
  BY DEF DvTypes, DvAddresses
<1>1. CASE DvQuietStep
  <2>1. dvBusy' \in [DvAddresses -> DvUsers \cup {NULL}]
    BY <1>1 DEF DvQuietStep, DvTypes
  <2>. QED
    BY <1>1, <2>1 DEF DvQuietStep, DvStay, DvTypes
<1>2. CASE DvUserCallStep
  <2>1. dvQueue' \in Seq(DvCall)
    BY <1>0, <1>2, DvAppended DEF DvUserCallStep
  <2>. QED
    BY <1>2, <2>1 DEF DvUserCallStep, DvStay, DvTypes
<1>3. CASE DvAddTask
  <2>1. dvPosted' \in Seq(Nat) /\ Head(dvPosted) \in DOMAIN dvTasks /\ Head(dvPosted) \in Nat
    BY <1>0, <1>3, DvTailed DEF DvAddTask, DvPostedInv
  <2>2. dvAdded' \in [DvAddresses -> SUBSET Nat]
    BY <1>3, <2>1 DEF DvAddTask, DvTypes
  <2>. QED
    BY <1>3, <2>1, <2>2 DEF DvAddTask, DvTypes, dvUserVars
<1>4. CASE DvRefusedStep
  BY <1>4 DEF DvRefusedStep, DvAnswers, DvTakesCall, DvIsAnswered, DvTypes
<1>5. CASE DvConfigCallStep
  <2>1. dvQueue[1].var \in 1 .. DvVars /\ dvQueue[1].to \in DvAddresses
    BY <1>5 DEF DvConfigCallStep, DvAnswers, DvTakesCall, DvCallInv, DvCall
  <2>2. dvConfig' \in [DvAddresses -> SUBSET (1 .. DvVars)]
    BY <1>5, <2>1 DEF DvConfigCallStep, DvTypes
  <2>. QED
    BY <1>5, <2>2 DEF DvConfigCallStep, DvAnswers, DvTakesCall, DvIsAnswered, DvTypes
<1>6. CASE DvStartCallStep
  <2>1. dvStarted' \in [DvAddresses -> BOOLEAN]
    BY <1>6 DEF DvStartCallStep, DvTypes
  <2>. QED
    BY <1>6, <2>1 DEF DvStartCallStep, DvAnswers, DvTakesCall, DvIsAnswered, DvTypes
<1>7. CASE DvRegisterCallStep
  <2>1. dvEntries' \in Seq(DvPeripherals)
    BY <1>0, <1>7, DvAppended DEF DvRegisterCallStep
  <2>2. dvUnfinished' \in Int
    BY <1>7 DEF DvRegisterCallStep, DvTypes
  <2>. QED
    BY <1>7, <2>1, <2>2 DEF DvRegisterCallStep, DvAnswers, DvTakesCall, DvIsAnswered, DvTypes
<1>8. CASE DvDeferStep
  <2>1. dvBusy' \in [DvAddresses -> DvUsers \cup {NULL}]
    BY <1>8 DEF DvDeferStep, DvTypes
  <2>. QED
    BY <1>8, <2>1 DEF DvDeferStep, DvTakesCall, DvStay, DvTypes
<1>9. ASSUME NEW a \in DvAddresses, DvResets(a)
      PROVE  DvTypes'
  <2>1. dvPosted' \in Seq(Nat)
    BY <1>0, <1>9 DEF DvResets
  <2>2. /\ dvAdded' \in [DvAddresses -> SUBSET Nat]
        /\ dvInitialized' \in [DvAddresses -> BOOLEAN] /\ dvStarted' \in [DvAddresses -> BOOLEAN]
        /\ dvConfig' \in [DvAddresses -> SUBSET (1 .. DvVars)]
    BY <1>9 DEF DvResets, DvTypes
  <2>3. dvAlive' \in BOOLEAN /\ dvHasty' \in BOOLEAN /\ dvOvertaken' \subseteq DvAddresses
    BY <1>9 DEF DvResets, DvTypes, DvTakesCall
  <2>4. UNCHANGED <<dvBusy, dvManagerVars>>
    BY <1>9 DEF DvResets
  <2>. QED
    BY <1>9, <2>1, <2>2, <2>3, <2>4 DEF DvResets, DvTakesCall, DvTypes
<1>10. ASSUME NEW t \in DOMAIN dvTasks, DvTaskStep(t)
       PROVE  DvTypes'
  <2>. USE DEF DvTypes, DvSame, DvEndsAs, DvGoesTo, DvBecomes, DvOthersStay
  <2>1. CASE DvCancelledStep(t) \/ DvRaisesStep(t) \/ DvDoneStep(t)
    <3>1. dvUnfinished' \in Int
      BY <2>1 DEF DvCancelledStep, DvRaisesStep, DvDoneStep
    <3>. QED
      BY <2>1, <3>1 DEF DvCancelledStep, DvRaisesStep, DvDoneStep
  <2>5. CASE DvClearStep(t) \/ DvFailsStep(t) \/ DvReadyStep(t)
    BY <2>5 DEF DvClearStep, DvFailsStep, DvReadyStep
  <2>2. CASE DvUpStep(t) \/ DvAppStep(t)
    BY <1>0, <2>2 DEF DvUpStep, DvAppStep
  <2>3. CASE DvNextTileStep(t) \/ DvConfigStep(t) \/ DvRegisterStep(t)
    <3>1. dvQueue' \in Seq(DvCall)
      BY <1>0, <2>3, DvSendsGrow DEF DvNextTileStep, DvConfigStep, DvRegisterStep
    <3>. QED
      BY <2>3, <3>1 DEF DvNextTileStep, DvConfigStep, DvRegisterStep
  <2>4. CASE DvGetStep(t)
    <3>1. dvQueue' \in Seq(DvCall)
      BY <1>0, <2>4, DvSendsGrow DEF DvGetStep
    <3>2. dvEntries' \in Seq(DvPeripherals)
      BY <1>0, <2>4, DvTailed DEF DvGetStep
    <3>. QED
      BY <2>4, <3>1, <3>2 DEF DvGetStep
  <2>. QED
    BY <1>10, <2>1, <2>2, <2>3, <2>4, <2>5 DEF DvTaskStep
<1>11. ASSUME NEW t \in DOMAIN dvTasks, DvPostStep(t)
       PROVE  DvTypes'
  <2>1. dvPosted' \in Seq(Nat)
    BY <1>0, <1>11 DEF DvPostStep
  <2>. QED
    BY <1>11, <2>1 DEF DvPostStep, DvTypes
<1>. QED
  BY <1>1, <1>2, <1>3, <1>4, <1>5, <1>6, <1>7, <1>8, <1>9, <1>10, <1>11 DEF DvSteps

-----------------------------------------------------------------------------
(* The tasks. *)

LEMMA DvTasksInit == DvInit => DvTasksInv
<1>. SUFFICES ASSUME DvInit PROVE DvTasksInv
  OBVIOUS
<1>1. DvWellFormed(DvTask(DvController, "main"))
  BY DvAssumption DEF DvWellFormed, DvTask, DvEnds
<1>2. \A t \in DOMAIN dvTasks : dvTasks[t] = DvTask(DvController, "main")
  BY DEF DvInit
<1>. QED
  BY <1>1, <1>2 DEF DvTasksInv

LEMMA DvSameFormed ==
  ASSUME NEW old, NEW new, DvWellFormed(old), new.of = old.of, new.kind = old.kind, new.pc = old.pc,
         new.at = old.at, new.entry = old.entry
  PROVE  DvWellFormed(new)
BY Zenon DEF DvWellFormed

LEMMA DvEndedFormed ==
  ASSUME NEW task, task.pc \in DvEnds, task.entry = NULL
  PROVE  DvWellFormed(task)
BY DEF DvWellFormed, DvEnds

LEMMA DvStoppedFormed ==
  ASSUME NEW old, NEW new, NEW stopped, NEW answered, DvWellFormed(old),
         DvStopChange(old, new, stopped, answered)
  PROVE  DvWellFormed(new)
<1>1. CASE new.pc = "cancelled" /\ new.entry = NULL
  BY <1>1, DvEndedFormed DEF DvEnds
<1>2. CASE new.pc = old.pc /\ new.at = old.at /\ new.entry = old.entry
  BY <1>2, DvSameFormed DEF DvStopChange
<1>. QED
  BY <1>1, <1>2 DEF DvStopChange

LEMMA DvConstants ==
  /\ NULL \notin DvPeripherals /\ DvController \notin DvPeripherals /\ DvVars \in Nat
  /\ Len(DvTiles) \in Nat /\ DOMAIN DvTiles = 1 .. Len(DvTiles)
  /\ \A n \in DOMAIN DvTiles : DvTiles[n] \in DvPeripherals
  /\ DvPeripherals \subseteq DvAddresses /\ DvController \in DvAddresses
  /\ 1 \in 1 .. DvVars + 1 /\ \A n \in 1 .. DvVars : n + 1 \in 1 .. DvVars + 1
<1>1. \A n \in DOMAIN DvTiles : DvTiles[n] \in Nat \ {DvController} /\ DvTiles[n] # NULL
  BY DvAssumption
<1>2. DvVars \in Nat /\ Len(DvTiles) \in Nat /\ DOMAIN DvTiles = 1 .. Len(DvTiles)
  BY DvAssumption
<1>3. /\ NULL \notin DvPeripherals /\ DvController \notin DvPeripherals
      /\ \A n \in DOMAIN DvTiles : DvTiles[n] \in DvPeripherals
  BY <1>1, Zenon DEF DvPeripherals
<1>4. 1 \in 1 .. DvVars + 1 /\ \A n \in 1 .. DvVars : n + 1 \in 1 .. DvVars + 1
  BY <1>2
<1>. QED
  BY <1>2, <1>3, <1>4 DEF DvAddresses

\* Every step of a task leaves the others.
LEMMA DvTaskStepIs ==
  ASSUME NEW t, DvTaskStep(t)
  PROVE  DvOthersStay(t) /\ dvTasks'[t].of = dvTasks[t].of /\ dvTasks'[t].kind = dvTasks[t].kind
<1>1. CASE DvCancelledStep(t) \/ DvRaisesStep(t) \/ DvFailsStep(t) \/ DvUpStep(t)
  BY <1>1 DEF DvCancelledStep, DvRaisesStep, DvFailsStep, DvUpStep, DvEndsAs, DvBecomes
<1>2. CASE DvClearStep(t) \/ DvReadyStep(t) \/ DvRegisterStep(t) \/ DvAppStep(t)
  BY <1>2 DEF DvClearStep, DvReadyStep, DvRegisterStep, DvAppStep, DvGoesTo, DvBecomes
<1>3. CASE DvNextTileStep(t) \/ DvGetStep(t) \/ DvDoneStep(t) \/ DvConfigStep(t)
  BY <1>3 DEF DvNextTileStep, DvGetStep, DvDoneStep, DvConfigStep, DvBecomes
<1>. QED
  BY <1>1, <1>2, <1>3 DEF DvTaskStep

LEMMA DvTasksNext ==
  ASSUME DvTypes, DvTasksInv, DvSteps
  PROVE  DvTasksInv'
<1>. USE DEF DvTasksInv
<1>0. /\ \A t \in DOMAIN dvTasks : dvTasks[t] \in DvTaskRecord /\ DvWellFormed(dvTasks[t])
      /\ NULL \notin DvPeripherals /\ DvController \notin DvPeripherals /\ DvVars \in Nat
      /\ Len(DvTiles) \in Nat /\ DOMAIN DvTiles = 1 .. Len(DvTiles)
  BY DvConstants DEF DvTypes
<1>1. CASE DvQuietStep \/ DvUserCallStep \/ DvAddTask \/ DvDeferStep
  <2>1. dvTasks' = dvTasks
    BY <1>1 DEF DvQuietStep, DvUserCallStep, DvAddTask, DvDeferStep, DvStay
  <2>. QED
    BY <2>1
<1>2. ASSUME NEW how, DvAnswers(how)
      PROVE  DvTasksInv'
  BY <1>2, DvSameFormed DEF DvAnswers, DvIsAnswered
<1>3. ASSUME NEW a \in DvAddresses, DvResets(a)
      PROVE  DvTasksInv'
  <2>1. \A s \in DOMAIN dvTasks : DvWellFormed(dvTasks'[s])
    BY <1>3, DvStoppedFormed DEF DvResets
  <2>. DEFINE new == Len(dvTasks) + 1
  <2>2. DvWellFormed(dvTasks'[new])
    <3>1. DvWellFormed(DvTask(a, "main"))
      BY DvAssumption DEF DvWellFormed, DvTask, DvEnds
    <3>2. /\ DvTask(a, "main").of = a /\ DvTask(a, "main").kind = "main" /\ DvTask(a, "main").pc = "begin"
          /\ DvTask(a, "main").at = 0 /\ DvTask(a, "main").entry = NULL
      BY DEF DvTask
    <3>3. /\ dvTasks'[new].of = a /\ dvTasks'[new].kind = "main" /\ dvTasks'[new].pc = "begin"
          /\ dvTasks'[new].at = 0 /\ dvTasks'[new].entry = NULL
      BY <1>3 DEF DvResets
    <3>. HIDE DEF new
    <3>. QED
      BY <3>1, <3>2, <3>3, DvSameFormed
  <2>3. DOMAIN dvTasks' = DOMAIN dvTasks \cup {new}
    BY <1>3 DEF DvResets
  <2>. QED
    BY <2>1, <2>2, <2>3
<1>4. ASSUME NEW t \in DOMAIN dvTasks, DvTaskStep(t)
      PROVE  DvTasksInv'
  <2>1. /\ DvOthersStay(t) /\ dvTasks'[t].of = dvTasks[t].of /\ dvTasks'[t].kind = dvTasks[t].kind
    BY <1>4, DvTaskStepIs
  <2>2. SUFFICES DvWellFormed(dvTasks'[t])
    BY <1>0, <2>1 DEF DvOthersStay
  <2>3. CASE DvCancelledStep(t) \/ DvRaisesStep(t) \/ DvFailsStep(t) \/ DvUpStep(t)
    <3>1. dvTasks'[t].pc \in DvEnds /\ dvTasks'[t].entry = NULL
      BY <2>3 DEF DvCancelledStep, DvRaisesStep, DvFailsStep, DvUpStep, DvEndsAs, DvBecomes, DvEnds
    <3>. QED
      BY <3>1, DvEndedFormed
  <2>10. CASE DvRegisterStep(t)
    <3>1. /\ dvTasks[t].pc = "begin" /\ dvTasks'[t].pc = "register" /\ dvTasks'[t].entry = dvTasks[t].entry
          /\ dvTasks[t].of # DvController
      BY <1>0, <2>10 DEF DvRegisterStep, DvGoesTo, DvBecomes
    <3>2. dvTasks[t].kind # "worker"
      BY ONLY <1>0, <3>1 DEF DvWellFormed, DvEnds
    <3>. QED
      BY ONLY <1>0, <2>1, <3>1, <3>2 DEF DvWellFormed, DvEnds
  <2>11. CASE DvAppStep(t)
    <3>1. dvTasks[t].pc = "register" /\ dvTasks'[t].pc = "app" /\ dvTasks'[t].entry = dvTasks[t].entry
      BY <2>11 DEF DvAppStep, DvGoesTo, DvBecomes
    <3>. QED
      BY ONLY <1>0, <2>1, <3>1 DEF DvWellFormed, DvEnds
  <2>. USE <1>0, <2>1 DEF DvWellFormed, DvEnds, DvGoesTo, DvBecomes
  <2>4. CASE DvClearStep(t)
    BY <2>4 DEF DvClearStep, DvAt
  <2>5. CASE DvNextTileStep(t)
    BY <2>5 DEF DvNextTileStep
  <2>6. CASE DvReadyStep(t)
    BY <2>6 DEF DvReadyStep
  <2>7. CASE DvGetStep(t)
    <3>0. Head(dvEntries) # NULL
      BY <2>7 DEF DvGetStep
    <3>. QED
      BY <2>7, <3>0, DvConstants DEF DvGetStep
  <2>8. CASE DvDoneStep(t)
    BY <2>8 DEF DvDoneStep
  <2>9. CASE DvConfigStep(t)
    <3>0. dvTasks[t].at \in 1 .. DvVars /\ dvTasks[t].entry # NULL
      BY <2>9 DEF DvConfigStep
    <3>1. dvTasks[t].at + 1 \in 1 .. DvVars + 1
      BY ONLY <3>0, DvConstants
    <3>. QED
      BY <2>9, <3>0, <3>1 DEF DvConfigStep
  <2>. QED
    BY <1>4, <2>3, <2>4, <2>5, <2>6, <2>7, <2>8, <2>9, <2>10, <2>11 DEF DvTaskStep
<1>5. ASSUME NEW t \in DOMAIN dvTasks, DvPostStep(t)
      PROVE  DvTasksInv'
  <2>. DEFINE new == Len(dvTasks) + 1
  <2>1. /\ \A s \in DOMAIN dvTasks : s # t => DvWellFormed(dvTasks'[s])
        /\ DOMAIN dvTasks' = DOMAIN dvTasks \cup {new}
    BY <1>0, <1>5 DEF DvPostStep
  <2>2. DvWellFormed(dvTasks'[t])
    BY <1>0, <1>5 DEF DvPostStep, DvWellFormed, DvEnds
  <2>3. DvWellFormed(dvTasks'[new])
    <3>1. /\ dvTasks'[new].of = DvController /\ dvTasks'[new].kind = "worker"
          /\ dvTasks'[new].pc = "begin" /\ dvTasks'[new].at = 0 /\ dvTasks'[new].entry = NULL
      BY <1>5 DEF DvPostStep
    <3>. HIDE DEF new
    <3>. QED
      BY <3>1 DEF DvWellFormed, DvEnds
  <2>. QED
    BY <2>1, <2>2, <2>3
<1>. QED
  BY <1>1, <1>2, <1>3, <1>4, <1>5
  DEF DvSteps, DvRefusedStep, DvConfigCallStep, DvStartCallStep, DvRegisterCallStep

-----------------------------------------------------------------------------
(* The tasks that stop_tasks() can stop. *)

LEMMA DvPostedInit == DvInit => DvPostedInv
BY DEF DvInit, DvPostedInv, DvTask, DvAddresses

\* No task comes back to life.
LEMMA DvLivesOn ==
  ASSUME DvTypes, NEW t \in DOMAIN dvTasks, NEW s \in DOMAIN dvTasks, DvTaskStep(t), DvLive(dvTasks'[s])
  PROVE  DvLive(dvTasks[s])
<1>1. s # t => dvTasks'[s] = dvTasks[s]
  BY DvTaskStepIs DEF DvOthersStay
<1>2. dvTasks[t] \in DvTaskRecord
  BY DEF DvTypes
<1>3. CASE s = t
  <2>1. CASE DvCancelledStep(t) \/ DvRaisesStep(t) \/ DvFailsStep(t) \/ DvUpStep(t)
    BY <1>3, <2>1 DEF DvCancelledStep, DvRaisesStep, DvFailsStep, DvUpStep, DvEndsAs, DvBecomes,
                      DvLive, DvOver, DvEnds
  <2>2. CASE DvClearStep(t) \/ DvReadyStep(t) \/ DvRegisterStep(t) \/ DvAppStep(t)
    BY <1>3, <2>2 DEF DvClearStep, DvReadyStep, DvRegisterStep, DvAppStep, DvLive, DvOver, DvEnds, DvRuns, DvAt
  <2>3. CASE DvNextTileStep(t) \/ DvGetStep(t) \/ DvDoneStep(t) \/ DvConfigStep(t)
    BY <1>3, <2>3 DEF DvNextTileStep, DvGetStep, DvDoneStep, DvConfigStep, DvLive, DvOver, DvEnds, DvRuns
  <2>. QED
    BY <2>1, <2>2, <2>3 DEF DvTaskStep
<1>. QED
  BY <1>1, <1>3 DEF DvLive, DvOver, DvEnds

\* Nor does what is posted change before it is added.
LEMMA DvPostedStays ==
  ASSUME DvTypes, DvPostedInv, NEW t \in DOMAIN dvTasks, DvTaskStep(t), NEW n \in DOMAIN dvPosted,
         dvPosted[n] = t, DvLive(dvTasks[t])
  PROVE  ~DvLive(dvTasks'[t])
<1>1. dvTasks[t].pc = "begin" /\ ~dvTasks[t].cancelled /\ t \in {dvPosted[m] : m \in DOMAIN dvPosted}
  BY DEF DvPostedInv, DvLive
<1>2. ~DvRuns(t)
  BY <1>1 DEF DvRuns
<1>6. ~DvCancelledStep(t)
  BY <1>1, Zenon DEF DvCancelledStep
<1>7. ~DvRaisesStep(t)
  BY <1>2, Zenon DEF DvRaisesStep
<1>3. ~DvClearStep(t) /\ ~DvFailsStep(t)
  BY <1>1, <1>2 DEF DvClearStep, DvFailsStep, DvAt
<1>4. ~DvUpStep(t) /\ ~DvNextTileStep(t) /\ ~DvReadyStep(t) /\ ~DvGetStep(t)
  BY <1>1, <1>2 DEF DvUpStep, DvNextTileStep, DvReadyStep, DvGetStep
<1>5. ~DvDoneStep(t) /\ ~DvConfigStep(t) /\ ~DvRegisterStep(t) /\ ~DvAppStep(t)
  BY <1>1, <1>2 DEF DvDoneStep, DvConfigStep, DvRegisterStep, DvAppStep
<1>. QED
  BY <1>3, <1>4, <1>5, <1>6, <1>7 DEF DvTaskStep

LEMMA DvPostedNext ==
  ASSUME DvTypes, DvTasksInv, DvPostedInv, DvSteps
  PROVE  DvPostedInv'
<1>0. /\ dvTasks \in Seq(DvTaskRecord) /\ dvPosted \in Seq(Nat)
      /\ dvAdded \in [DvAddresses -> SUBSET Nat]
      /\ \A t \in DOMAIN dvTasks : dvTasks[t] \in DvTaskRecord
  BY DEF DvTypes
<1>1. CASE DvQuietStep \/ DvUserCallStep \/ DvDeferStep
  <2>1. UNCHANGED <<dvTasks, dvPosted, dvAdded>>
    BY <1>1 DEF DvQuietStep, DvUserCallStep, DvDeferStep, DvStay
  <2>. QED
    BY <2>1 DEF DvPostedInv, DvLive, DvOver, DvEnds
<1>2. CASE DvAddTask
  <2>. DEFINE h == dvPosted[1]
  <2>1. /\ dvTasks' = dvTasks /\ 1 \in DOMAIN dvPosted
        /\ h \in DOMAIN dvTasks /\ dvTasks[h].of \in DvAddresses
        /\ dvAdded' = [dvAdded EXCEPT ![dvTasks[h].of] = @ \cup {h}]
    <3>1. dvPosted # <<>> /\ dvPosted' = Tail(dvPosted)
      BY <1>2 DEF DvAddTask
    <3>2. 1 \in DOMAIN dvPosted /\ Head(dvPosted) = h
      BY <1>0, <3>1, DvTailed
    <3>3. h \in DOMAIN dvTasks
      BY <3>2 DEF DvPostedInv
    <3>4. dvTasks[h].of \in DvAddresses
      BY <1>0, <3>3 DEF DvTaskRecord
    <3>. QED
      BY <1>2, <3>2, <3>3, <3>4 DEF DvAddTask
  <2>2. /\ DOMAIN dvPosted = 1 .. Len(dvPosted) /\ DOMAIN dvPosted' = 1 .. Len(dvPosted) - 1
        /\ Len(dvPosted) \in Nat
        /\ \A n \in DOMAIN dvPosted' : dvPosted'[n] = dvPosted[n + 1] /\ n + 1 \in DOMAIN dvPosted
    BY <1>0, <1>2, DvTailed DEF DvAddTask
  <2>3. ASSUME NEW n \in DOMAIN dvPosted, n # 1
        PROVE  n - 1 \in DOMAIN dvPosted' /\ dvPosted'[n - 1] = dvPosted[n]
    <3>1. n - 1 \in DOMAIN dvPosted' /\ (n - 1) + 1 = n
      BY <2>2, <2>3
    <3>. QED
      BY <2>2, <3>1
  <2>. HIDE DEF h
  <2>4. \A n \in DOMAIN dvPosted' :
          /\ dvPosted'[n] \in DOMAIN dvTasks'
          /\ DvLive(dvTasks'[dvPosted'[n]]) => dvTasks'[dvPosted'[n]].pc = "begin"
    BY <2>1, <2>2 DEF DvPostedInv, DvLive, DvOver, DvEnds
  <2>5. \A a \in DvAddresses : \A t \in dvAdded'[a] : t \in DOMAIN dvTasks' /\ dvTasks'[t].of = a
    BY <1>0, <2>1 DEF DvPostedInv
  <2>6. ASSUME NEW t \in DOMAIN dvTasks', DvLive(dvTasks'[t])
        PROVE  t \in dvAdded'[dvTasks'[t].of] \/ \E n \in DOMAIN dvPosted' : dvPosted'[n] = t
    <3>1. t \in DOMAIN dvTasks /\ DvLive(dvTasks[t]) /\ dvTasks[t].of \in DvAddresses
      BY <1>0, <2>1, <2>6 DEF DvLive, DvOver, DvEnds, DvTaskRecord
    <3>2. CASE t = h \/ t \in dvAdded[dvTasks[t].of]
      BY <1>0, <2>1, <3>1, <3>2
    <3>3. CASE t # h /\ \E n \in DOMAIN dvPosted : dvPosted[n] = t
      BY <2>3, <3>3 DEF h
    <3>. QED
      BY <3>1, <3>2, <3>3 DEF DvPostedInv
  <2>. QED
    BY <2>4, <2>5, <2>6 DEF DvPostedInv
<1>3. ASSUME NEW how, DvAnswers(how), UNCHANGED <<dvPosted, dvAdded>>
      PROVE  DvPostedInv'
  <2>1. DOMAIN dvTasks' = DOMAIN dvTasks
    BY <1>3 DEF DvAnswers, DvIsAnswered
  <2>2. \A s \in DOMAIN dvTasks :
          /\ dvTasks'[s].of = dvTasks[s].of /\ dvTasks'[s].pc = dvTasks[s].pc
          /\ DvLive(dvTasks'[s]) <=> DvLive(dvTasks[s])
    BY <1>3 DEF DvAnswers, DvIsAnswered, DvLive, DvOver, DvEnds
  <2>. QED
    BY <1>3, <2>1, <2>2 DEF DvPostedInv
<1>4. ASSUME NEW a \in DvAddresses, DvResets(a)
      PROVE  DvPostedInv'
  <2>. DEFINE new == Len(dvTasks) + 1
  <2>1. /\ new \in Nat /\ new \notin DOMAIN dvTasks /\ DOMAIN dvTasks' = DOMAIN dvTasks \cup {new}
        /\ dvTasks'[new].of = a /\ dvTasks'[new].pc = "begin"
        /\ dvPosted' = Append(dvPosted, new) /\ dvAdded' = [dvAdded EXCEPT ![a] = {}]
    BY <1>0, <1>4 DEF DvResets
  <2>2. ASSUME NEW s \in DOMAIN dvTasks
        PROVE  /\ dvTasks'[s].of = dvTasks[s].of
               /\ DvLive(dvTasks'[s]) => DvLive(dvTasks[s]) /\ s \notin dvAdded[a] /\ dvTasks'[s].pc = dvTasks[s].pc
    <3>1. DvStopChange(dvTasks[s], dvTasks'[s], DvStopped(s, a), s = dvQueue[1].by)
      BY <1>4 DEF DvResets
    <3>. QED
      BY <3>1 DEF DvStopChange, DvLive, DvOver, DvEnds, DvStopped
  <2>3. /\ Len(dvPosted) \in Nat /\ DOMAIN dvPosted = 1 .. Len(dvPosted)
        /\ DOMAIN dvPosted' = DOMAIN dvPosted \cup {Len(dvPosted) + 1}
        /\ \A n \in DOMAIN dvPosted : dvPosted'[n] = dvPosted[n]
        /\ dvPosted'[Len(dvPosted) + 1] = new
    BY <1>0, <2>1
  <2>. HIDE DEF new
  <2>4. \A n \in DOMAIN dvPosted' :
          /\ dvPosted'[n] \in DOMAIN dvTasks'
          /\ DvLive(dvTasks'[dvPosted'[n]]) => dvTasks'[dvPosted'[n]].pc = "begin"
    BY <2>1, <2>2, <2>3 DEF DvPostedInv
  <2>5. \A b \in DvAddresses : \A t \in dvAdded'[b] : t \in DOMAIN dvTasks' /\ dvTasks'[t].of = b
    BY <1>0, <2>1, <2>2 DEF DvPostedInv
  <2>6. ASSUME NEW t \in DOMAIN dvTasks', DvLive(dvTasks'[t])
        PROVE  t \in dvAdded'[dvTasks'[t].of] \/ \E n \in DOMAIN dvPosted' : dvPosted'[n] = t
    <3>1. CASE t = new
      BY <2>3, <3>1
    <3>2. CASE t # new
      <4>1. t \in DOMAIN dvTasks /\ DvLive(dvTasks[t]) /\ t \notin dvAdded[a] /\ dvTasks'[t].of = dvTasks[t].of
        BY <2>1, <2>2, <2>6, <3>2
      <4>2. dvTasks[t].of \in DvAddresses
        BY <1>0, <4>1 DEF DvTaskRecord
      <4>3. CASE t \in dvAdded[dvTasks[t].of]
        BY <1>0, <2>1, <4>1, <4>2, <4>3
      <4>4. CASE \E n \in DOMAIN dvPosted : dvPosted[n] = t
        BY <2>3, <4>4
      <4>. QED
        BY <4>1, <4>3, <4>4 DEF DvPostedInv
    <3>. QED
      BY <3>1, <3>2
  <2>. QED
    BY <2>4, <2>5, <2>6 DEF DvPostedInv
<1>5. ASSUME NEW t \in DOMAIN dvTasks, DvTaskStep(t)
      PROVE  DvPostedInv'
  <2>1. UNCHANGED <<dvPosted, dvAdded>>
    BY <1>5 DEF DvTaskStep, DvCancelledStep, DvRaisesStep, DvClearStep, DvFailsStep, DvUpStep,
                DvNextTileStep, DvReadyStep, DvGetStep, DvDoneStep, DvConfigStep, DvRegisterStep,
                DvAppStep, DvSame
  <2>2. /\ DOMAIN dvTasks' = DOMAIN dvTasks
        /\ \A s \in DOMAIN dvTasks : dvTasks'[s].of = dvTasks[s].of /\ (s # t => dvTasks'[s] = dvTasks[s])
    BY <1>5, DvTaskStepIs DEF DvOthersStay
  <2>3. \A s \in DOMAIN dvTasks : DvLive(dvTasks'[s]) => DvLive(dvTasks[s])
    BY <1>5, DvLivesOn
  <2>4. \A n \in DOMAIN dvPosted : DvLive(dvTasks'[dvPosted[n]]) => dvPosted[n] # t
    BY <1>5, <2>3, DvPostedStays
  <2>. QED
    BY <2>1, <2>2, <2>3, <2>4 DEF DvPostedInv
<1>6. ASSUME NEW t \in DOMAIN dvTasks, DvPostStep(t)
      PROVE  DvPostedInv'
  <2>. DEFINE new == Len(dvTasks) + 1
  <2>1. /\ new \in Nat /\ new \notin DOMAIN dvTasks /\ DOMAIN dvTasks' = DOMAIN dvTasks \cup {new}
        /\ dvTasks'[new].of = DvController /\ dvTasks'[new].pc = "begin"
        /\ dvPosted' = Append(dvPosted, new) /\ dvAdded' = dvAdded
    BY <1>0, <1>6 DEF DvPostStep
  <2>2. \A s \in DOMAIN dvTasks :
          /\ dvTasks'[s].of = dvTasks[s].of
          /\ DvLive(dvTasks'[s]) => DvLive(dvTasks[s])
          /\ dvTasks'[s].pc = dvTasks[s].pc \/ dvTasks[s].pc = "initialize"
    BY <1>6 DEF DvPostStep, DvLive, DvOver, DvEnds
  <2>3. /\ Len(dvPosted) \in Nat /\ DOMAIN dvPosted = 1 .. Len(dvPosted)
        /\ DOMAIN dvPosted' = DOMAIN dvPosted \cup {Len(dvPosted) + 1}
        /\ \A n \in DOMAIN dvPosted : dvPosted'[n] = dvPosted[n]
        /\ dvPosted'[Len(dvPosted) + 1] = new
    BY <1>0, <2>1
  <2>. HIDE DEF new
  <2>4. \A n \in DOMAIN dvPosted' :
          /\ dvPosted'[n] \in DOMAIN dvTasks'
          /\ DvLive(dvTasks'[dvPosted'[n]]) => dvTasks'[dvPosted'[n]].pc = "begin"
    BY <2>1, <2>2, <2>3 DEF DvPostedInv
  <2>5. \A b \in DvAddresses : \A s \in dvAdded'[b] : s \in DOMAIN dvTasks' /\ dvTasks'[s].of = b
    BY <1>0, <2>1, <2>2 DEF DvPostedInv
  <2>6. ASSUME NEW s \in DOMAIN dvTasks', DvLive(dvTasks'[s])
        PROVE  s \in dvAdded'[dvTasks'[s].of] \/ \E n \in DOMAIN dvPosted' : dvPosted'[n] = s
    BY <2>1, <2>2, <2>3, <2>6 DEF DvPostedInv
  <2>. QED
    BY <2>4, <2>5, <2>6 DEF DvPostedInv
<1>. QED
  BY <1>1, <1>2, <1>3, <1>4, <1>5, <1>6
  DEF DvSteps, DvRefusedStep, DvConfigCallStep, DvStartCallStep, DvRegisterCallStep

-----------------------------------------------------------------------------
(* The count of the tile manager. *)

DvAtWork == {t \in DOMAIN dvTasks : dvTasks[t].kind = "worker" /\ dvTasks[t].pc = "configure"}

LEMMA DvAtWorkFinite ==
  ASSUME dvTasks \in Seq(DvTaskRecord)
  PROVE  IsFiniteSet(DvAtWork) /\ Cardinality(DvAtWork) \in Nat
<1>1. DOMAIN dvTasks = 1 .. Len(dvTasks) /\ Len(dvTasks) \in Nat
  OBVIOUS
<1>2. IsFiniteSet(1 .. Len(dvTasks))
  BY <1>1, FS_Interval
<1>3. DvAtWork \subseteq 1 .. Len(dvTasks)
  BY <1>1 DEF DvAtWork
<1>. QED
  BY <1>2, <1>3, FS_Subset, FS_CardinalityType

LEMMA DvExactInit == DvInit => DvUnfinishedIsExact
<1>. SUFFICES ASSUME DvInit PROVE DvUnfinishedIsExact
  OBVIOUS
<1>1. DvAtWork = {}
  BY DEF DvAtWork, DvInit, DvTask
<1>2. Cardinality(DvAtWork) = 0
  BY <1>1, FS_EmptySet
<1>3. dvUnfinished = 0 /\ Len(dvEntries) = 0
  BY DEF DvInit
<1>. QED
  BY <1>2, <1>3 DEF DvUnfinishedIsExact, DvAtWork

LEMMA DvExactNext ==
  ASSUME DvTypes, DvTypes', DvTasksInv, DvUnfinishedIsExact, DvSteps
  PROVE  DvUnfinishedIsExact'
<1>0. /\ dvTasks \in Seq(DvTaskRecord) /\ dvEntries \in Seq(DvPeripherals) /\ dvUnfinished \in Int
      /\ dvTasks' \in Seq(DvTaskRecord) /\ Len(dvEntries) \in Nat
      /\ \A t \in DOMAIN dvTasks : dvTasks[t].pc = "configure" => dvTasks[t].kind = "worker"
      /\ \A t \in DOMAIN dvTasks : dvTasks[t].kind \in {"worker", "main"}
  <2>1. \A t \in DOMAIN dvTasks : dvTasks[t] \in DvTaskRecord /\ DvWellFormed(dvTasks[t])
    BY DEF DvTypes, DvTasksInv
  <2>2. \A t \in DOMAIN dvTasks : dvTasks[t].kind \in {"worker", "main"}
    BY <2>1 DEF DvTaskRecord
  <2>3. \A t \in DOMAIN dvTasks : dvTasks[t].pc = "configure" => dvTasks[t].kind = "worker"
    BY <2>1, <2>2 DEF DvWellFormed, DvEnds
  <2>. QED
    BY <2>2, <2>3 DEF DvTypes
<1>1. /\ IsFiniteSet(DvAtWork) /\ Cardinality(DvAtWork) \in Nat
      /\ dvUnfinished = Len(dvEntries) + Cardinality(DvAtWork)
  BY <1>0, DvAtWorkFinite DEF DvUnfinishedIsExact, DvAtWork
<1>2. SUFFICES dvUnfinished' = Len(dvEntries') + Cardinality(DvAtWork')
  BY DEF DvUnfinishedIsExact, DvAtWork
<1>3. ASSUME DvAtWork' = DvAtWork, UNCHANGED <<dvEntries, dvUnfinished>>
      PROVE  dvUnfinished' = Len(dvEntries') + Cardinality(DvAtWork')
  BY <1>1, <1>3
<1>4. ASSUME NEW t \in DvAtWork, DvAtWork' = DvAtWork \ {t}, dvEntries' = dvEntries,
             dvUnfinished' = dvUnfinished - 1
      PROVE  dvUnfinished' = Len(dvEntries') + Cardinality(DvAtWork')
  <2>1. Cardinality(DvAtWork') = Cardinality(DvAtWork) - 1
    BY <1>1, <1>4, FS_RemoveElement
  <2>. QED
    BY <1>0, <1>1, <1>4, <2>1
<1>5. CASE DvQuietStep \/ DvUserCallStep \/ DvAddTask \/ DvDeferStep
  <2>1. UNCHANGED <<dvTasks, dvEntries, dvUnfinished>>
    BY <1>5 DEF DvQuietStep, DvUserCallStep, DvAddTask, DvDeferStep, DvStay, dvManagerVars
  <2>. QED
    BY <1>3, <2>1 DEF DvAtWork
<1>6. ASSUME NEW how, DvAnswers(how)
      PROVE  DvAtWork' = DvAtWork
  BY <1>6 DEF DvAnswers, DvIsAnswered, DvAtWork
<1>7. CASE DvRefusedStep \/ DvConfigCallStep \/ DvStartCallStep
  BY <1>3, <1>6, <1>7 DEF DvRefusedStep, DvConfigCallStep, DvStartCallStep, dvManagerVars
<1>8. CASE DvRegisterCallStep
  <2>1. DvAtWork' = DvAtWork
    BY <1>6, <1>8 DEF DvRegisterCallStep
  <2>2. Len(dvEntries') = Len(dvEntries) + 1 /\ dvUnfinished' = dvUnfinished + 1
    BY <1>0, <1>8 DEF DvRegisterCallStep
  <2>. QED
    BY <1>0, <1>1, <2>1, <2>2
<1>9. ASSUME NEW a \in DvAddresses, DvResets(a)
      PROVE  dvUnfinished' = Len(dvEntries') + Cardinality(DvAtWork')
  <2>. DEFINE new == Len(dvTasks) + 1
  <2>1. \A s \in DOMAIN dvTasks : /\ dvTasks'[s].kind = dvTasks[s].kind
                                  /\ dvTasks'[s].pc = "configure" <=> dvTasks[s].pc = "configure"
    <3>1. ASSUME NEW s \in DOMAIN dvTasks
          PROVE  /\ dvTasks'[s].kind = dvTasks[s].kind
                 /\ dvTasks'[s].pc = "configure" <=> dvTasks[s].pc = "configure"
      <4>1. DvStopChange(dvTasks[s], dvTasks'[s], DvStopped(s, a), s = dvQueue[1].by)
        BY <1>9 DEF DvResets
      <4>. QED
        BY <4>1 DEF DvStopChange
    <3>. QED
      BY <3>1
  <2>2. DOMAIN dvTasks' = DOMAIN dvTasks \cup {new} /\ dvTasks'[new].pc = "begin"
    BY <1>9 DEF DvResets
  <2>. HIDE DEF new
  <2>3. DvAtWork' = DvAtWork
    BY <2>1, <2>2 DEF DvAtWork
  <2>4. UNCHANGED <<dvEntries, dvUnfinished>>
    BY <1>9 DEF DvResets, dvManagerVars
  <2>. QED
    BY <1>3, <2>3, <2>4
<1>10. ASSUME NEW t \in DOMAIN dvTasks, DvPostStep(t)
       PROVE  dvUnfinished' = Len(dvEntries') + Cardinality(DvAtWork')
  <2>. DEFINE new == Len(dvTasks) + 1
  <2>1. \A s \in DOMAIN dvTasks : /\ dvTasks'[s].kind = dvTasks[s].kind
                                  /\ dvTasks'[s].pc = "configure" <=> dvTasks[s].pc = "configure"
    BY <1>10 DEF DvPostStep
  <2>2. DOMAIN dvTasks' = DOMAIN dvTasks \cup {new} /\ dvTasks'[new].pc = "begin"
    BY <1>10 DEF DvPostStep
  <2>. HIDE DEF new
  <2>3. DvAtWork' = DvAtWork
    BY <2>1, <2>2 DEF DvAtWork
  <2>4. UNCHANGED <<dvEntries, dvUnfinished>>
    BY <1>10 DEF DvPostStep, dvManagerVars
  <2>. QED
    BY <1>3, <2>3, <2>4
<1>11. ASSUME NEW t \in DOMAIN dvTasks, DvTaskStep(t)
       PROVE  dvUnfinished' = Len(dvEntries') + Cardinality(DvAtWork')
  <2>1. /\ DOMAIN dvTasks' = DOMAIN dvTasks /\ dvTasks'[t].kind = dvTasks[t].kind
        /\ \A s \in DOMAIN dvTasks : s # t => dvTasks'[s] = dvTasks[s]
    BY <1>11, DvTaskStepIs DEF DvOthersStay
  <2>2. CASE (DvCancelledStep(t) \/ DvRaisesStep(t) \/ DvDoneStep(t)) /\ dvTasks[t].pc = "configure"
    <3>1. dvTasks'[t].pc # "configure" /\ dvUnfinished' = dvUnfinished - 1 /\ dvEntries' = dvEntries
      BY <2>2 DEF DvCancelledStep, DvRaisesStep, DvDoneStep, DvEndsAs, DvBecomes
    <3>2. t \in DvAtWork /\ DvAtWork' = DvAtWork \ {t}
      BY <1>0, <2>1, <2>2, <3>1 DEF DvAtWork
    <3>. QED
      BY <1>4, <3>1, <3>2
  <2>3. CASE (DvCancelledStep(t) \/ DvRaisesStep(t)) /\ dvTasks[t].pc # "configure"
    <3>1. dvTasks'[t].pc # "configure" /\ UNCHANGED <<dvEntries, dvUnfinished>>
      BY <2>3 DEF DvCancelledStep, DvRaisesStep, DvEndsAs, DvBecomes
    <3>2. DvAtWork' = DvAtWork
      BY <2>1, <2>3, <3>1 DEF DvAtWork
    <3>. QED
      BY <1>3, <3>1, <3>2
  <2>4. CASE DvClearStep(t) \/ DvFailsStep(t) \/ DvUpStep(t) \/ DvReadyStep(t) \/ DvAppStep(t)
    <3>1. /\ dvTasks[t].pc # "configure" /\ dvTasks'[t].pc # "configure"
          /\ UNCHANGED <<dvEntries, dvUnfinished>>
      BY <2>4 DEF DvClearStep, DvFailsStep, DvUpStep, DvReadyStep, DvAppStep, DvAt, DvEndsAs, DvGoesTo,
                  DvBecomes, dvManagerVars
    <3>2. DvAtWork' = DvAtWork
      BY <2>1, <3>1 DEF DvAtWork
    <3>. QED
      BY <1>3, <3>1, <3>2
  <2>5. CASE DvNextTileStep(t) \/ DvRegisterStep(t)
    <3>1. /\ dvTasks[t].pc # "configure" /\ dvTasks'[t].pc # "configure"
          /\ UNCHANGED <<dvEntries, dvUnfinished>>
      BY <2>5 DEF DvNextTileStep, DvRegisterStep, DvGoesTo, DvBecomes, dvManagerVars
    <3>2. DvAtWork' = DvAtWork
      BY <2>1, <3>1 DEF DvAtWork
    <3>. QED
      BY <1>3, <3>1, <3>2
  <2>6. CASE DvConfigStep(t)
    <3>1. /\ dvTasks[t].pc = "configure" /\ dvTasks'[t].pc = "configure"
          /\ UNCHANGED <<dvEntries, dvUnfinished>>
      BY <2>6 DEF DvConfigStep, DvBecomes, dvManagerVars
    <3>2. DvAtWork' = DvAtWork
      BY <2>1, <3>1 DEF DvAtWork
    <3>. QED
      BY <1>3, <3>1, <3>2
  <2>7. CASE DvGetStep(t)
    <3>1. /\ dvTasks[t].pc = "get" /\ dvTasks[t].kind = "worker" /\ dvTasks'[t].pc = "configure"
          /\ dvUnfinished' = dvUnfinished /\ dvEntries # <<>> /\ dvEntries' = Tail(dvEntries)
      BY <2>7 DEF DvGetStep, DvBecomes
    <3>2. t \notin DvAtWork /\ DvAtWork' = DvAtWork \cup {t}
      BY <2>1, <3>1 DEF DvAtWork
    <3>3. Cardinality(DvAtWork') = Cardinality(DvAtWork) + 1
      BY <1>1, <3>2, FS_AddElement
    <3>4. Len(dvEntries') = Len(dvEntries) - 1
      BY <1>0, <3>1, DvTailed
    <3>. QED
      BY <1>0, <1>1, <3>1, <3>3, <3>4
  <2>8. DvDoneStep(t) => dvTasks[t].pc = "configure"
    BY DEF DvDoneStep
  <2>. QED
    BY <1>11, <2>2, <2>3, <2>4, <2>5, <2>6, <2>7, <2>8 DEF DvTaskStep
<1>. QED
  BY <1>5, <1>7, <1>8, <1>9, <1>10, <1>11 DEF DvSteps

-----------------------------------------------------------------------------
(* The calls of tasks. *)

LEMMA DvCallsInit == DvInit => DvCallsInv /\ DvCallsOnce
BY DEF DvInit, DvCallsInv, DvCallsOnce

\* A task that goes on has no call in the queue, while the dispatcher lives.
LEMMA DvNoCallOf ==
  ASSUME DvTypes, DvCallsInv, dvAlive, NEW t \in DOMAIN dvTasks,
         DvTaskStep(t) \/ DvPostStep(t), ~DvCancelledStep(t), NEW n \in DOMAIN dvQueue
  PROVE  dvQueue[n].by # t
<1>. SUFFICES ASSUME dvQueue[n].by = t PROVE FALSE
  OBVIOUS
<1>1. t \notin DvUsers
  BY DvUsersAreNoTasks DEF DvTypes
<1>2. DvMatches(dvQueue[n], dvTasks[t]) \/ dvTasks[t].pc = "cancelled"
  BY <1>1 DEF DvCallsInv, DvCallInv
<1>3. /\ dvTasks[t].pc = "cancelled" \/ dvTasks[t].rpc = "none"
      /\ dvTasks[t].pc \in {"cancelled", "register", "reset tiles", "configure"}
  BY <1>2 DEF DvMatches
<1>4. ~DvRaisesStep(t) /\ ~DvClearStep(t) /\ ~DvFailsStep(t)
  BY <1>3 DEF DvRaisesStep, DvClearStep, DvFailsStep, DvAt, DvRuns, DvOver
<1>5. ~DvUpStep(t) /\ ~DvNextTileStep(t) /\ ~DvReadyStep(t) /\ ~DvGetStep(t)
  BY <1>3 DEF DvUpStep, DvNextTileStep, DvReadyStep, DvGetStep
<1>6. ~DvDoneStep(t) /\ ~DvConfigStep(t) /\ ~DvRegisterStep(t) /\ ~DvAppStep(t)
  BY <1>3 DEF DvDoneStep, DvConfigStep, DvRegisterStep, DvAppStep
<1>7. ~DvPostStep(t)
  BY <1>3 DEF DvPostStep
<1>. QED
  BY <1>4, <1>5, <1>6, <1>7 DEF DvTaskStep

\* The call that a step of task t makes.
DvCallOf(t, c) ==
    /\ c.by = t /\ c.kind # "echo" /\ DvMatches(c, dvTasks'[t])
    /\ c.kind = "register" => dvTasks[t].of \in DvPeripherals
    /\ c.kind = "config" => c.var \in 1 .. DvVars
    /\ ~DvCancelledStep(t)

LEMMA DvTaskQueue ==
  ASSUME DvTypes, DvTasksInv, NEW t \in DOMAIN dvTasks, DvTaskStep(t)
  PROVE  dvQueue' = dvQueue \/ \E c \in DvCall : DvGrows(c) /\ DvCallOf(t, c)
<1>0. dvQueue \in Seq(DvCall)
  BY DEF DvTypes
<1>1. CASE DvNextTileStep(t)
  <2>1. PICK c \in DvCall : /\ c.by = t /\ c.kind = "reset" /\ c.to = DvTiles[dvTasks[t].at + 1]
                            /\ DvGrows(c)
    <3>1. DvSends(t, DvTiles[dvTasks[t].at + 1], "reset", NULL)
      BY <1>1 DEF DvNextTileStep
    <3>. QED
      BY <1>0, <3>1, DvSendsGrow
  <2>2. /\ dvTasks'[t].pc = "reset tiles" /\ dvTasks'[t].rpc = "none"
        /\ dvTasks'[t].at = dvTasks[t].at + 1 /\ ~DvCancelledStep(t)
    BY <1>1 DEF DvNextTileStep, DvBecomes, DvCancelledStep, DvEndsAs
  <2>. QED
    BY <2>1, <2>2 DEF DvCallOf, DvMatches
<1>2. CASE DvRegisterStep(t)
  <2>1. PICK c \in DvCall : c.by = t /\ c.kind = "register" /\ DvGrows(c)
    BY <1>0, <1>2, DvSendsGrow DEF DvRegisterStep
  <2>2. /\ dvTasks'[t].pc = "register" /\ dvTasks'[t].rpc = "none" /\ dvTasks[t].of \in DvPeripherals
        /\ ~DvCancelledStep(t)
    BY <1>2 DEF DvRegisterStep, DvGoesTo, DvBecomes, DvCancelledStep, DvEndsAs
  <2>. QED
    BY <2>1, <2>2 DEF DvCallOf, DvMatches
<1>3. CASE DvGetStep(t)
  <2>1. PICK c \in DvCall :
          /\ c.by = t /\ c.to = Head(dvEntries) /\ DvGrows(c)
          /\ \/ DvVars = 0 /\ c.kind = "start"
             \/ DvVars > 0 /\ c.kind = "config" /\ c.var = 1
    BY <1>0, <1>3, DvSendsGrow DEF DvGetStep
  <2>2. /\ dvTasks'[t].pc = "configure" /\ dvTasks'[t].rpc = "none" /\ dvTasks'[t].at = 1
        /\ dvTasks'[t].entry = Head(dvEntries) /\ ~DvCancelledStep(t)
    BY <1>3 DEF DvGetStep, DvBecomes, DvCancelledStep, DvEndsAs
  <2>3. DvVars \in Nat
    BY DvConstants
  <2>. QED
    BY <2>1, <2>2, <2>3 DEF DvCallOf, DvMatches
<1>4. CASE DvConfigStep(t)
  <2>1. PICK c \in DvCall :
          /\ c.by = t /\ c.to = dvTasks[t].entry /\ DvGrows(c)
          /\ \/ dvTasks[t].at = DvVars /\ c.kind = "start"
             \/ dvTasks[t].at < DvVars /\ c.kind = "config" /\ c.var = dvTasks[t].at + 1
    BY <1>0, <1>4, DvSendsGrow DEF DvConfigStep
  <2>2. /\ dvTasks'[t].pc = "configure" /\ dvTasks'[t].rpc = "none"
        /\ dvTasks'[t].at = dvTasks[t].at + 1 /\ dvTasks[t].at \in 1 .. DvVars
        /\ dvTasks'[t].entry = dvTasks[t].entry /\ ~DvCancelledStep(t)
    BY <1>4 DEF DvConfigStep, DvBecomes, DvCancelledStep, DvEndsAs
  <2>3. DvVars \in Nat
    BY DvConstants
  <2>. QED
    BY <2>1, <2>2, <2>3 DEF DvCallOf, DvMatches
<1>5. CASE DvCancelledStep(t) \/ DvRaisesStep(t) \/ DvClearStep(t) \/ DvFailsStep(t)
           \/ DvUpStep(t) \/ DvReadyStep(t) \/ DvDoneStep(t) \/ DvAppStep(t)
  BY <1>5 DEF DvCancelledStep, DvRaisesStep, DvClearStep, DvFailsStep, DvUpStep, DvReadyStep,
              DvDoneStep, DvAppStep
<1>. QED
  BY <1>1, <1>2, <1>3, <1>4, <1>5 DEF DvTaskStep

\* No step of a task streams, answers or resets.
LEMMA DvTaskKeeps ==
  ASSUME NEW t, DvTaskStep(t) \/ DvPostStep(t)
  PROVE  UNCHANGED <<dvAlive, dvStarted, dvConfig, dvHasty, dvOvertaken>>
<1>1. DvTaskStep(t) => DvSame
  BY DEF DvTaskStep, DvCancelledStep, DvRaisesStep, DvClearStep, DvFailsStep, DvUpStep, DvNextTileStep,
         DvReadyStep, DvGetStep, DvDoneStep, DvConfigStep, DvRegisterStep, DvAppStep
<1>. QED
  BY <1>1 DEF DvSame, DvPostStep, dvTileVars, dvPast

LEMMA DvOnceNext ==
  ASSUME DvTypes, DvTasksInv, DvCallsInv, DvCallsOnce, DvSteps
  PROVE  DvCallsOnce'
<1>0. dvQueue \in Seq(DvCall)
  BY DEF DvTypes
<1>1. CASE DvQuietStep \/ DvAddTask
  <2>1. dvQueue' = dvQueue /\ dvAlive' = dvAlive
    BY <1>1 DEF DvQuietStep, DvAddTask, DvStay
  <2>. QED
    BY <2>1 DEF DvCallsOnce
<1>2. CASE DvUserCallStep
  <2>1. PICK c \in DvCall : c.by \in DvUsers /\ DvGrows(c)
    BY <1>0, <1>2, DvCallGrows DEF DvUserCallStep
  <2>2. dvAlive' = dvAlive
    BY <1>2 DEF DvUserCallStep, DvStay
  <2>. QED
    BY <2>1, <2>2 DEF DvCallsOnce, DvGrows
<1>3. ASSUME DvTakesCall
      PROVE  DvCallsOnce'
  <2>1. \A m, n \in DOMAIN dvQueue' :
          dvQueue'[m].by = dvQueue'[n].by => m + 1 = n + 1 \/ dvQueue'[m].by \in DvUsers
    BY <1>3 DEF DvTakesCall, DvCallsOnce
  <2>2. \A m, n \in DOMAIN dvQueue' : m \in Nat /\ n \in Nat
    BY <1>3 DEF DvTakesCall
  <2>. QED
    BY <2>1, <2>2 DEF DvCallsOnce
<1>4. ASSUME NEW t \in DOMAIN dvTasks, DvTaskStep(t)
      PROVE  DvCallsOnce'
  <2>1. dvAlive' = dvAlive
    BY <1>4, DvTaskKeeps
  <2>2. CASE dvQueue' = dvQueue
    BY <2>1, <2>2 DEF DvCallsOnce
  <2>3. ASSUME NEW c \in DvCall, DvGrows(c), DvCallOf(t, c), dvAlive
        PROVE  DvCallsOnce'
    <3>1. \A n \in DOMAIN dvQueue : dvQueue[n].by # t
      BY <1>4, <2>3, DvNoCallOf DEF DvCallOf
    <3>2. c.by = t
      BY <2>3 DEF DvCallOf
    <3>. QED
      BY <2>1, <2>3, <3>1, <3>2 DEF DvCallsOnce, DvGrows
  <2>4. CASE ~dvAlive
    BY <2>1, <2>4 DEF DvCallsOnce
  <2>. QED
    BY <1>4, <2>2, <2>3, <2>4, DvTaskQueue
<1>5. ASSUME NEW t \in DOMAIN dvTasks, DvPostStep(t)
      PROVE  DvCallsOnce'
  BY <1>5 DEF DvPostStep, DvCallsOnce
<1>. QED
  BY <1>1, <1>2, <1>3, <1>4, <1>5
  DEF DvSteps, DvRefusedStep, DvConfigCallStep, DvStartCallStep, DvRegisterCallStep, DvDeferStep,
      DvAnswers, DvResets

LEMMA DvCallsNext ==
  ASSUME DvTypes, DvTasksInv, DvCallsInv, DvCallsOnce, DvSteps
  PROVE  DvCallsInv'
<1>0. dvQueue \in Seq(DvCall) /\ dvTasks \in Seq(DvTaskRecord)
  BY DEF DvTypes
<1>1. CASE DvQuietStep \/ DvAddTask
  <2>1. UNCHANGED <<dvQueue, dvAlive, dvTasks>>
    BY <1>1 DEF DvQuietStep, DvAddTask, DvStay
  <2>. QED
    BY <2>1 DEF DvCallsInv, DvCallInv
<1>2. CASE DvUserCallStep
  <2>1. PICK c \in DvCall : c.by \in DvUsers /\ c.kind \in {"reset", "echo"} /\ DvGrows(c)
    BY <1>0, <1>2, DvCallGrows DEF DvUserCallStep
  <2>2. UNCHANGED <<dvAlive, dvTasks>>
    BY <1>2 DEF DvUserCallStep, DvStay
  <2>. QED
    BY <2>1, <2>2 DEF DvCallsInv, DvCallInv, DvGrows
<1>3. CASE DvDeferStep
  <2>1. DvTakesCall /\ UNCHANGED <<dvAlive, dvTasks>>
    BY <1>3 DEF DvDeferStep, DvStay
  <2>. QED
    BY <2>1 DEF DvCallsInv, DvCallInv, DvTakesCall
<1>4. ASSUME DvTakesCall, NEW n \in DOMAIN dvQueue'
      PROVE  /\ dvQueue'[n] = dvQueue[n + 1] /\ DvCallInv(dvQueue[n + 1]) /\ dvAlive
             /\ dvQueue[n + 1].by # dvQueue[1].by \/ dvQueue[n + 1].by \in DvUsers
  <2>1. dvQueue'[n] = dvQueue[n + 1] /\ n + 1 \in DOMAIN dvQueue /\ n + 1 # 1 /\ 1 \in DOMAIN dvQueue
    BY <1>4 DEF DvTakesCall
  <2>. QED
    BY <1>4, <2>1 DEF DvCallsInv, DvCallsOnce, DvTakesCall
<1>5. ASSUME NEW how, DvAnswers(how)
      PROVE  DvCallsInv'
  <2>1. DvTakesCall /\ DvIsAnswered(dvTasks', dvTasks, dvQueue[1].by, how)
    BY <1>5 DEF DvAnswers
  <2>2. ASSUME NEW n \in DOMAIN dvQueue'
        PROVE  DvCallInv(dvQueue[n])'
    <3>1. /\ dvQueue'[n] = dvQueue[n + 1] /\ DvCallInv(dvQueue[n + 1]) /\ dvAlive
          /\ dvQueue[n + 1].by # dvQueue[1].by \/ dvQueue[n + 1].by \in DvUsers
      BY <1>4, <2>1, <2>2
    <3>. DEFINE s == dvQueue[n + 1].by
    <3>2. CASE s \in DvUsers
      <4>1. s \notin DOMAIN dvTasks
        BY <1>0, <3>2, DvUsersAreNoTasks
      <4>. QED
        BY <3>1, <4>1 DEF DvCallInv
    <3>3. CASE s \notin DvUsers
      <4>1. s \in DOMAIN dvTasks /\ s # dvQueue[1].by
        BY <3>1, <3>3 DEF DvCallInv
      <4>2. /\ DOMAIN dvTasks' = DOMAIN dvTasks
            /\ dvTasks'[s].of = dvTasks[s].of /\ dvTasks'[s].pc = dvTasks[s].pc
            /\ dvTasks'[s].at = dvTasks[s].at /\ dvTasks'[s].entry = dvTasks[s].entry
            /\ dvTasks'[s].rpc = dvTasks[s].rpc
        BY <2>1, <4>1 DEF DvIsAnswered
      <4>. QED
        BY <3>1, <3>3, <4>1, <4>2 DEF DvCallInv, DvMatches
    <3>. QED
      BY <3>2, <3>3
  <2>. QED
    BY <2>2 DEF DvCallsInv
<1>6. ASSUME NEW a \in DvAddresses, DvResets(a)
      PROVE  DvCallsInv'
  <2>1. DvTakesCall /\ \A s \in DOMAIN dvTasks : s \in DOMAIN dvTasks'
    BY <1>6 DEF DvResets
  <2>2. ASSUME NEW n \in DOMAIN dvQueue'
        PROVE  DvCallInv(dvQueue[n])'
    <3>. DEFINE s == dvQueue[n + 1].by
    <3>1. /\ dvQueue'[n] = dvQueue[n + 1] /\ DvCallInv(dvQueue[n + 1]) /\ dvAlive
          /\ s # dvQueue[1].by \/ s \in DvUsers
      BY <1>4, <2>1, <2>2
    <3>2. CASE s \in DvUsers
      <4>1. s \notin DOMAIN dvTasks
        BY <1>0, <3>2, DvUsersAreNoTasks
      <4>. QED
        BY <3>1, <4>1 DEF DvCallInv
    <3>3. CASE s \notin DvUsers
      <4>1. s \in DOMAIN dvTasks /\ s # dvQueue[1].by
        BY <3>1, <3>3 DEF DvCallInv
      <4>2. DvStopChange(dvTasks[s], dvTasks'[s], DvStopped(s, a), s = dvQueue[1].by)
        BY <1>6, <4>1 DEF DvResets
      <4>3. \/ /\ dvTasks'[s].pc = dvTasks[s].pc /\ dvTasks'[s].at = dvTasks[s].at
               /\ dvTasks'[s].entry = dvTasks[s].entry /\ dvTasks'[s].rpc = dvTasks[s].rpc
            \/ dvTasks'[s].pc = "cancelled"
        BY <4>1, <4>2 DEF DvStopChange
      <4>4. dvTasks'[s].of = dvTasks[s].of
        BY <4>2 DEF DvStopChange
      <4>. QED
        BY <2>1, <3>1, <3>3, <4>1, <4>3, <4>4 DEF DvCallInv, DvMatches
    <3>. QED
      BY <3>2, <3>3
  <2>. QED
    BY <2>2 DEF DvCallsInv
<1>7. ASSUME NEW t \in DOMAIN dvTasks, DvTaskStep(t)
      PROVE  DvCallsInv'
  <2>1. /\ dvAlive' = dvAlive /\ DOMAIN dvTasks' = DOMAIN dvTasks /\ dvTasks'[t].of = dvTasks[t].of
        /\ \A s \in DOMAIN dvTasks : s # t => dvTasks'[s] = dvTasks[s]
    BY <1>7, DvTaskKeeps, DvTaskStepIs DEF DvOthersStay
  <2>2. ASSUME NEW n \in DOMAIN dvQueue, NEW m \in DOMAIN dvQueue', dvQueue'[m] = dvQueue[n]
        PROVE  DvCallInv(dvQueue[m])'
    <3>1. DvCallInv(dvQueue[n])
      BY DEF DvCallsInv
    <3>2. CASE dvQueue[n].by # t
      BY <2>1, <2>2, <3>1, <3>2 DEF DvCallInv
    <3>3. CASE dvQueue[n].by = t /\ DvCancelledStep(t)
      <4>1. dvTasks'[t].pc = "cancelled"
        BY <3>3 DEF DvCancelledStep, DvEndsAs, DvBecomes
      <4>. QED
        BY <2>1, <2>2, <3>1, <3>3, <4>1 DEF DvCallInv
    <3>4. CASE dvQueue[n].by = t /\ ~DvCancelledStep(t)
      <4>1. ~dvAlive
        BY <1>7, <3>4, DvNoCallOf
      <4>. QED
        BY <2>1, <2>2, <3>1, <3>4, <4>1 DEF DvCallInv
    <3>. QED
      BY <3>2, <3>3, <3>4
  <2>3. CASE dvQueue' = dvQueue
    BY <2>2, <2>3 DEF DvCallsInv
  <2>4. ASSUME NEW c \in DvCall, DvGrows(c), DvCallOf(t, c)
        PROVE  DvCallsInv'
    <3>1. ASSUME NEW n \in DOMAIN dvQueue', dvQueue'[n] = c
          PROVE  DvCallInv(dvQueue[n])'
      BY <2>1, <2>4, <3>1 DEF DvCallInv, DvCallOf
    <3>. QED
      BY <2>2, <2>4, <3>1 DEF DvCallsInv, DvGrows
  <2>. QED
    BY <1>7, <2>3, <2>4, DvTaskQueue
<1>8. ASSUME NEW t \in DOMAIN dvTasks, DvPostStep(t)
      PROVE  DvCallsInv'
  <2>1. /\ dvQueue' = dvQueue /\ dvAlive' = dvAlive /\ dvTasks'[t].of = dvTasks[t].of
        /\ \A s \in DOMAIN dvTasks : s \in DOMAIN dvTasks' /\ (s # t => dvTasks'[s] = dvTasks[s])
    BY <1>8 DEF DvPostStep
  <2>2. ~DvCancelledStep(t)
    BY <1>8 DEF DvPostStep, DvCancelledStep, DvEndsAs, DvBecomes
  <2>3. dvAlive => \A n \in DOMAIN dvQueue : dvQueue[n].by # t
    BY <1>8, <2>2, DvNoCallOf
  <2>. QED
    BY <2>1, <2>3 DEF DvCallsInv, DvCallInv
<1>. QED
  BY <1>1, <1>2, <1>3, <1>5, <1>6, <1>7, <1>8
  DEF DvSteps, DvRefusedStep, DvConfigCallStep, DvStartCallStep, DvRegisterCallStep

-----------------------------------------------------------------------------
(* Nobody has been hasty. *)

LEMMA DvCalmInit == DvInit => DvCalmInv
<1>. SUFFICES ASSUME DvInit PROVE DvCalm
  BY DEF DvCalmInv
<1>1. /\ DOMAIN dvTasks = {1} /\ dvTasks[1] = DvTask(DvController, "main") /\ dvQueue = <<>>
      /\ dvInitialized = [a \in DvAddresses |-> FALSE] /\ dvAlive
  BY DEF DvInit
<1>2. DvNoneStopped /\ DvCallersWait
  BY <1>1 DEF DvNoneStopped, DvCallersWait, DvTask
<1>3. DvYoungAreDown
  BY <1>1 DEF DvYoungAreDown, DvTask, DvAddresses
<1>4. DvOneMain /\ DvTilesWait
  BY <1>1, DvConstants DEF DvOneMain, DvTilesWait, DvTask
<1>. QED
  BY <1>1, <1>2, <1>3, <1>4 DEF DvCalm

\* What a task is, by where it is.
LEMMA DvTaskIs ==
  ASSUME DvTypes, DvTasksInv, NEW t \in DOMAIN dvTasks
  PROVE  /\ dvTasks[t] \in DvTaskRecord
         /\ dvTasks[t].kind \in {"main", "worker"} /\ dvTasks[t].of \in DvAddresses
         /\ dvTasks[t].of \in DvPeripherals /\ dvTasks[t].pc \notin DvEnds => dvTasks[t].kind = "main"
         /\ dvTasks[t].kind = "worker" /\ dvTasks[t].pc \notin DvEnds => dvTasks[t].of = DvController
         /\ dvTasks[t].kind = "worker" => dvTasks[t].pc \in {"begin", "get", "configure"} \cup DvEnds
         /\ dvTasks[t].pc \in {"initialize", "starting", "reset tiles"} =>
              dvTasks[t].kind = "main" /\ dvTasks[t].of = DvController
         /\ dvTasks[t].kind = "main" => dvTasks[t].pc = "app" \/ DvYoung(dvTasks[t]) \/ dvTasks[t].pc \in DvEnds
         /\ dvTasks[t].kind = "main" /\ dvTasks[t].of = DvController => dvTasks[t].pc # "app"
         /\ dvTasks[t].pc \in {"begin", "initialize", "starting"} => dvTasks[t].at = 0
         /\ dvTasks[t].pc = "reset tiles" => dvTasks[t].at \in DOMAIN DvTiles
<1>1. dvTasks[t] \in DvTaskRecord /\ DvWellFormed(dvTasks[t])
  BY DEF DvTypes, DvTasksInv
<1>2. dvTasks[t].kind \in {"main", "worker"} /\ dvTasks[t].of \in DvAddresses
  BY <1>1 DEF DvTaskRecord
<1>3. CASE dvTasks[t].pc \in DvEnds
  BY <1>1, <1>2, <1>3 DEF DvWellFormed, DvYoung, DvEnds
<1>4. CASE dvTasks[t].pc \notin DvEnds /\ dvTasks[t].kind = "worker"
  <2>1. dvTasks[t].of = DvController /\ dvTasks[t].pc \in {"begin", "get", "configure"}
    BY <1>1, <1>4 DEF DvWellFormed
  <2>. QED
    BY <1>1, <1>2, <1>4, <2>1, DvConstants DEF DvWellFormed, DvEnds
<1>5. CASE dvTasks[t].pc \notin DvEnds /\ dvTasks[t].kind = "main" /\ dvTasks[t].of = DvController
  <2>1. dvTasks[t].pc \in {"begin", "initialize", "starting", "reset tiles"}
    BY <1>1, <1>5 DEF DvWellFormed
  <2>. QED
    BY <1>1, <1>2, <1>5, <2>1 DEF DvWellFormed, DvYoung
<1>6. CASE dvTasks[t].pc \notin DvEnds /\ dvTasks[t].kind = "main" /\ dvTasks[t].of # DvController
  <2>1. dvTasks[t].pc \in {"begin", "register", "app"}
    BY <1>1, <1>6 DEF DvWellFormed
  <2>. QED
    BY <1>1, <1>2, <1>6, <2>1 DEF DvWellFormed, DvYoung
<1>. QED
  BY <1>2, <1>3, <1>4, <1>5, <1>6

\* A reset that is not hasty finds the tasks of its tile in their main loop.
LEMMA DvResetFinds ==
  ASSUME DvTypes, DvTasksInv, DvPostedInv, DvCallsInv, DvUnfinishedIsExact, DvCalm,
         NEW a \in DvAddresses, DvResets(a), ~dvHasty'
  PROVE  /\ \A s \in DOMAIN dvTasks :
              dvTasks[s].of = a /\ dvTasks[s].pc \notin DvEnds =>
                 \/ dvTasks[s].kind = "main" /\ dvTasks[s].pc = "app"
                 \/ dvTasks[s].kind = "worker" /\ dvTasks[s].pc \in {"begin", "get"}
         /\ \/ dvQueue[1].by \in DvUsers /\ DvUp
            \/ /\ dvQueue[1].by \notin DvUsers /\ dvQueue[1].by \in DOMAIN dvTasks
               /\ dvTasks[dvQueue[1].by].pc = "reset tiles"
               /\ dvTasks[dvQueue[1].by].rpc = "none"
               /\ a = DvTiles[dvTasks[dvQueue[1].by].at]
               /\ dvTasks[dvQueue[1].by].at \in DOMAIN DvTiles
<1>. DEFINE by == dvQueue[1].by
<1>0. dvTasks \in Seq(DvTaskRecord) /\ Len(dvEntries) \in Nat
  BY DEF DvTypes
<1>1. CASE by \in DvUsers
  <2>1. DvIsIdle
    BY <1>1 DEF DvResets
  <2>2. DvUp /\ dvUnfinished = 0
    BY <2>1 DEF DvIsIdle
  <2>3. dvUnfinished = Len(dvEntries) + Cardinality(DvAtWork)
    BY DEF DvUnfinishedIsExact, DvAtWork
  <2>4. IsFiniteSet(DvAtWork) /\ Cardinality(DvAtWork) = 0
    BY <1>0, <2>2, <2>3, DvAtWorkFinite
  <2>5. DvAtWork = {}
    BY <2>4, FS_EmptySet
  <2>6. ASSUME NEW s \in DOMAIN dvTasks, dvTasks[s].of = a, dvTasks[s].pc \notin DvEnds
        PROVE  \/ dvTasks[s].kind = "main" /\ dvTasks[s].pc = "app"
               \/ dvTasks[s].kind = "worker" /\ dvTasks[s].pc \in {"begin", "get"}
    <3>1. CASE dvTasks[s].kind = "main"
      <4>1. ~DvYoung(dvTasks[s])
        BY <2>2, <2>6 DEF DvUp, DvCalm, DvYoungAreDown
      <4>. QED
        BY <2>6, <3>1, <4>1, DvTaskIs
    <3>2. CASE dvTasks[s].kind = "worker"
      <4>1. dvTasks[s].pc # "configure"
        BY <2>5, <3>2 DEF DvAtWork
      <4>. QED
        BY <2>6, <3>2, <4>1, DvTaskIs
    <3>. QED
      BY <3>1, <3>2, DvTaskIs
  <2>. QED
    BY <1>1, <2>2, <2>6
<1>2. CASE by \notin DvUsers
  <2>1. /\ by \in DOMAIN dvTasks /\ dvTasks[by].pc = "reset tiles" /\ dvTasks[by].rpc = "none"
        /\ a = DvTiles[dvTasks[by].at]
    <3>1. DvTakesCall /\ dvQueue[1].kind = "reset" /\ dvQueue[1].to = a
      BY DEF DvResets
    <3>2. dvTasks[by].pc # "cancelled"
      BY <1>2, <3>1 DEF DvCalm, DvCallersWait, DvTakesCall
    <3>3. by \in DOMAIN dvTasks /\ DvMatches(dvQueue[1], dvTasks[by])
      BY <1>2, <3>1, <3>2 DEF DvTakesCall, DvCallInv
    <3>. QED
      BY <3>1, <3>3 DEF DvMatches
  <2>2. dvTasks[by].at \in DOMAIN DvTiles /\ dvTasks[by].kind = "main" /\ dvTasks[by].of = DvController
    BY <2>1, DvTaskIs
  <2>3. a \in DvPeripherals
    BY <2>1, <2>2, DvConstants
  <2>4. ASSUME NEW s \in DOMAIN dvTasks, dvTasks[s].of = a, dvTasks[s].pc \notin DvEnds
        PROVE  dvTasks[s].kind = "main" /\ dvTasks[s].pc = "app"
    <3>1. dvTasks[s].kind = "main" /\ dvTasks[s].of # DvController
      BY <2>3, <2>4, DvTaskIs, DvConstants
    <3>2. dvTasks[s].pc \notin {"begin", "register"}
      BY <2>1, <2>2, <2>4 DEF DvCalm, DvTilesWait, DvEnds
    <3>. QED
      BY <2>4, <3>1, <3>2, DvTaskIs DEF DvYoung
  <2>. QED
    BY <1>2, <2>1, <2>2, <2>4
<1>. QED
  BY <1>1, <1>2

\* It ends them all, and none that waits.
LEMMA DvResetEnds ==
  ASSUME DvTypes, DvTasksInv, DvPostedInv, DvCallsInv, DvUnfinishedIsExact, DvCalm,
         NEW a \in DvAddresses, DvResets(a), ~dvHasty', NEW s \in DOMAIN dvTasks
  PROVE  /\ dvTasks'[s].of = dvTasks[s].of /\ dvTasks'[s].kind = dvTasks[s].kind
         /\ ~dvTasks'[s].cancelled
         /\ \/ /\ dvTasks'[s].pc = dvTasks[s].pc /\ dvTasks'[s].at = dvTasks[s].at
               /\ dvTasks'[s].rpc = IF s = dvQueue[1].by THEN "answered" ELSE dvTasks[s].rpc
               /\ dvTasks[s].of # a \/ dvTasks[s].kind = "worker" \/ dvTasks[s].pc \in DvEnds
            \/ /\ dvTasks'[s].pc = "cancelled" /\ dvTasks[s].pc \in {"app", "get", "begin"}
               /\ dvTasks[s].of = a
<1>1. DvStopChange(dvTasks[s], dvTasks'[s], DvStopped(s, a), s = dvQueue[1].by)
  BY DEF DvResets
<1>2. ~dvTasks[s].cancelled
  BY DEF DvCalm, DvNoneStopped
<1>3. CASE DvStopped(s, a)
  <2>1. dvTasks[s].of = a /\ dvTasks[s].pc \notin DvEnds
    BY <1>3 DEF DvStopped, DvPostedInv, DvOver, DvEnds
  <2>2. dvTasks[s].pc \in {"app", "get", "begin"}
    BY <2>1, DvResetFinds
  <2>. QED
    BY <1>1, <1>3, <2>1, <2>2 DEF DvStopChange
<1>4. CASE ~DvStopped(s, a)
  <2>1. dvTasks[s].of # a \/ dvTasks[s].kind = "worker" \/ dvTasks[s].pc \in DvEnds
    <3>1. SUFFICES ASSUME dvTasks[s].of = a, dvTasks[s].kind # "worker", dvTasks[s].pc \notin DvEnds
                   PROVE  FALSE
      OBVIOUS
    <3>2. dvTasks[s].pc = "app"
      BY <3>1, DvResetFinds
    <3>3. DvLive(dvTasks[s])
      BY <1>2, <3>1 DEF DvLive
    <3>4. ~ \E n \in DOMAIN dvPosted : dvPosted[n] = s
      BY <3>2, <3>3 DEF DvPostedInv
    <3>5. s \in dvAdded[a]
      BY <3>1, <3>3, <3>4 DEF DvPostedInv
    <3>. QED
      BY <1>4, <3>1, <3>5 DEF DvStopped, DvOver, DvEnds
  <2>2. ~dvTasks'[s].cancelled
    BY <1>1, <1>2, <1>4, Zenon DEF DvStopChange
  <2>. QED
    BY <1>1, <1>4, <2>1, <2>2 DEF DvStopChange
<1>. QED
  BY <1>3, <1>4

\* A step of task t that does not end it leaves the others in peace.
DvGoesOn(t) ==
    LET old == dvTasks[t]
        new == dvTasks'[t] IN
    /\ ~new.cancelled /\ new.pc # "cancelled"
    /\ new.pc \in {"begin", "register"} => old.pc \in {"begin", "register"}
    /\ DvYoung(new) => DvYoung(old)
    /\ new.pc \notin DvEnds => old.pc \notin DvEnds
    /\ new.kind = "main" /\ new.of = DvController /\ new.pc \notin DvEnds =>
         \A k \in DOMAIN DvTiles :
            k > new.at \/ (k = new.at /\ new.rpc = "none") => k > old.at \/ (k = old.at /\ old.rpc = "none")
    /\ \/ dvInitialized' = dvInitialized
       \/ /\ dvInitialized' = [dvInitialized EXCEPT ![old.of] = TRUE]
          /\ old.kind = "main" /\ old.pc \notin DvEnds /\ ~DvYoung(new)

LEMMA DvCalmTask ==
  ASSUME DvTypes, DvTasksInv, DvNoneStopped, NEW t \in DOMAIN dvTasks, DvTaskStep(t)
  PROVE  DvGoesOn(t)
<1>r. dvTasks[t] \in DvTaskRecord
  BY DEF DvTypes
<1>n. dvTasks[t].at \in Nat
  BY <1>r DEF DvTaskRecord
<1>0. ~dvTasks[t].cancelled /\ dvTasks[t].at \in Nat
  BY <1>n DEF DvNoneStopped
<1>1. ~DvCancelledStep(t)
  BY <1>0, Zenon DEF DvCancelledStep
<1>2. CASE DvRaisesStep(t) \/ DvFailsStep(t)
  <2>1. /\ dvTasks'[t].pc \in {"refused", "failed"} /\ dvTasks'[t].cancelled = FALSE
        /\ dvInitialized' = dvInitialized
    BY <1>2 DEF DvRaisesStep, DvFailsStep, DvEndsAs, DvBecomes
  <2>. QED
    BY <2>1 DEF DvGoesOn, DvYoung, DvEnds
<1>3. CASE DvUpStep(t)
  <2>1. /\ dvTasks'[t].pc = "done" /\ dvTasks'[t].cancelled = FALSE
        /\ dvTasks[t].pc \in {"starting", "reset tiles"}
        /\ dvInitialized' = [dvInitialized EXCEPT ![DvController] = TRUE]
    BY <1>3 DEF DvUpStep, DvEndsAs, DvBecomes
  <2>2. dvTasks[t].kind = "main" /\ dvTasks[t].of = DvController
    BY <2>1, DvTaskIs
  <2>. QED
    BY <2>1, <2>2 DEF DvGoesOn, DvYoung, DvEnds
<1>4. CASE DvClearStep(t)
  <2>1. /\ dvTasks'[t].pc = "initialize" /\ dvTasks'[t].cancelled = dvTasks[t].cancelled
        /\ dvTasks[t].pc = "begin" /\ dvTasks[t].kind = "main" /\ dvTasks'[t].kind = "main"
        /\ dvTasks'[t].at = dvTasks[t].at /\ dvInitialized' = dvInitialized
    BY <1>4 DEF DvClearStep, DvGoesTo, DvBecomes, DvAt
  <2>2. dvTasks[t].at = 0
    BY <2>1, DvTaskIs
  <2>3. \A k \in DOMAIN DvTiles : k > 0
    BY DvConstants
  <2>. QED
    BY <1>0, <2>1, <2>2, <2>3 DEF DvGoesOn, DvYoung, DvEnds
<1>5. CASE DvNextTileStep(t)
  <2>1. /\ dvTasks'[t].pc = "reset tiles" /\ dvTasks'[t].cancelled = dvTasks[t].cancelled
        /\ dvTasks[t].pc \in {"starting", "reset tiles"}
        /\ dvTasks'[t].at = dvTasks[t].at + 1 /\ dvInitialized' = dvInitialized
    BY <1>5 DEF DvNextTileStep, DvBecomes
  <2>2. dvTasks[t].kind = "main" /\ dvTasks[t].of = DvController
    BY <2>1, DvTaskIs
  <2>3. \A k \in DOMAIN DvTiles : k \in Nat /\ (k > dvTasks[t].at + 1 \/ k = dvTasks[t].at + 1 => k > dvTasks[t].at)
    BY <1>0, DvConstants
  <2>. QED
    BY <1>0, <2>1, <2>2, <2>3 DEF DvGoesOn, DvYoung, DvEnds
<1>6. CASE DvReadyStep(t) \/ DvGetStep(t) \/ DvDoneStep(t) \/ DvConfigStep(t)
  <2>1. /\ dvTasks'[t].pc \in {"get", "configure"} /\ dvTasks'[t].cancelled = dvTasks[t].cancelled
        /\ dvTasks'[t].kind = dvTasks[t].kind /\ dvInitialized' = dvInitialized
        /\ dvTasks[t].kind = "worker" \/ dvTasks[t].pc = "configure"
    BY <1>6 DEF DvReadyStep, DvGetStep, DvDoneStep, DvConfigStep, DvGoesTo, DvBecomes
  <2>2. dvTasks[t].kind = "worker"
    BY <2>1, DvTaskIs DEF DvYoung, DvEnds
  <2>3. dvTasks[t].pc \notin DvEnds
    BY <1>6 DEF DvReadyStep, DvGetStep, DvDoneStep, DvConfigStep, DvEnds
  <2>. QED
    BY <1>0, <2>1, <2>2, <2>3 DEF DvGoesOn, DvYoung
<1>7. CASE DvRegisterStep(t)
  <2>1. /\ dvTasks'[t].pc = "register" /\ dvTasks'[t].cancelled = dvTasks[t].cancelled
        /\ dvTasks'[t].kind = dvTasks[t].kind /\ dvTasks'[t].of = dvTasks[t].of
        /\ dvInitialized' = dvInitialized
        /\ dvTasks[t].pc = "begin" /\ dvTasks[t].of # DvController
    BY <1>7, DvConstants DEF DvRegisterStep, DvGoesTo, DvBecomes
  <2>. QED
    BY <1>0, <2>1 DEF DvGoesOn, DvYoung, DvEnds
<1>8. CASE DvAppStep(t)
  <2>1. /\ dvTasks'[t].pc = "app" /\ dvTasks'[t].cancelled = dvTasks[t].cancelled
        /\ dvTasks'[t].kind = dvTasks[t].kind /\ dvTasks'[t].of = dvTasks[t].of
        /\ dvInitialized' = [dvInitialized EXCEPT ![dvTasks[t].of] = TRUE]
        /\ dvTasks[t].pc = "register" /\ dvTasks[t].of \in DvPeripherals
    BY <1>8 DEF DvAppStep, DvGoesTo, DvBecomes
  <2>2. dvTasks[t].kind = "main" /\ dvTasks[t].of # DvController
    BY <2>1, DvTaskIs, DvConstants DEF DvEnds
  <2>. QED
    BY <1>0, <2>1, <2>2 DEF DvGoesOn, DvYoung, DvEnds
<1>. QED
  BY <1>1, <1>2, <1>3, <1>4, <1>5, <1>6, <1>7, <1>8 DEF DvTaskStep

LEMMA DvCalmPost ==
  ASSUME DvTypes, DvTasksInv, DvNoneStopped, NEW t \in DOMAIN dvTasks, DvPostStep(t)
  PROVE  DvGoesOn(t)
<1>0. ~dvTasks[t].cancelled
  BY DEF DvNoneStopped
<1>1. /\ dvTasks'[t].pc = "starting" /\ dvTasks'[t].cancelled = dvTasks[t].cancelled
      /\ dvTasks[t].pc = "initialize" /\ dvTasks'[t].at = dvTasks[t].at
      /\ dvTasks'[t].rpc = dvTasks[t].rpc /\ dvTasks'[t].kind = dvTasks[t].kind
      /\ dvInitialized' = dvInitialized
  BY Zenon DEF DvPostStep, dvTileVars
<1>. QED
  BY <1>0, <1>1 DEF DvGoesOn, DvYoung, DvEnds

\* So does one of a task, alone or with the worker it posts.
LEMMA DvCalmStays ==
  ASSUME DvTypes, DvTasksInv, DvCalm, NEW t \in DOMAIN dvTasks, DvGoesOn(t),
         \A s \in DOMAIN dvTasks : s \in DOMAIN dvTasks' /\ (s # t => dvTasks'[s] = dvTasks[s]),
         dvTasks'[t].of = dvTasks[t].of, dvTasks'[t].kind = dvTasks[t].kind,
         \A s \in DOMAIN dvTasks' \ DOMAIN dvTasks :
            dvTasks'[s].kind = "worker" /\ dvTasks'[s].of = DvController /\ ~dvTasks'[s].cancelled
  PROVE  DvNoneStopped' /\ DvYoungAreDown' /\ DvOneMain' /\ DvTilesWait'
<1>. USE DEF DvCalm
<1>1. DvNoneStopped'
  BY DEF DvNoneStopped, DvGoesOn
<1>2. DvOneMain'
  <2>. SUFFICES ASSUME NEW r \in DOMAIN dvTasks', NEW s \in DOMAIN dvTasks',
                       dvTasks'[r].kind = "main", dvTasks'[s].kind = "main", dvTasks'[r].of = dvTasks'[s].of,
                       dvTasks'[r].pc \notin DvEnds, dvTasks'[s].pc \notin DvEnds
                PROVE  r = s
    BY DEF DvOneMain
  <2>1. r \in DOMAIN dvTasks /\ s \in DOMAIN dvTasks
    BY Zenon
  <2>2. /\ dvTasks[r].kind = "main" /\ dvTasks[r].of = dvTasks'[r].of /\ dvTasks[r].pc \notin DvEnds
        /\ dvTasks[s].kind = "main" /\ dvTasks[s].of = dvTasks'[s].of /\ dvTasks[s].pc \notin DvEnds
    BY <2>1 DEF DvGoesOn
  <2>. QED
    BY <2>1, <2>2 DEF DvOneMain
<1>3. DvYoungAreDown'
  <2>. SUFFICES ASSUME NEW s \in DOMAIN dvTasks', DvYoung(dvTasks'[s])
                PROVE  ~dvInitialized'[dvTasks'[s].of]
    BY DEF DvYoungAreDown
  <2>1. s \in DOMAIN dvTasks /\ dvTasks'[s].of = dvTasks[s].of /\ DvYoung(dvTasks[s])
    BY DEF DvYoung, DvGoesOn
  <2>2. ~dvInitialized[dvTasks[s].of] /\ dvTasks[s].of \in DvAddresses /\ dvTasks[t].of \in DvAddresses
    BY <2>1, DvTaskIs DEF DvYoungAreDown
  <2>3. CASE dvInitialized' = dvInitialized
    BY <2>1, <2>2, <2>3
  <2>4. CASE /\ dvInitialized' = [dvInitialized EXCEPT ![dvTasks[t].of] = TRUE]
             /\ dvTasks[t].kind = "main" /\ dvTasks[t].pc \notin DvEnds /\ ~DvYoung(dvTasks'[t])
    <3>1. s # t
      BY <2>4
    <3>2. dvTasks[s].of # dvTasks[t].of
      BY <2>1, <2>4, <3>1 DEF DvOneMain, DvYoung, DvEnds
    <3>. QED
      BY <2>1, <2>2, <2>4, <3>2 DEF DvTypes
  <2>. QED
    BY <2>3, <2>4 DEF DvGoesOn
<1>4. DvTilesWait'
  <2>. SUFFICES ASSUME NEW r \in DOMAIN dvTasks', NEW s \in DOMAIN dvTasks', NEW k \in DOMAIN DvTiles,
                       dvTasks'[r].kind = "main", dvTasks'[r].of = DvController,
                       dvTasks'[r].pc \notin DvEnds,
                       k > dvTasks'[r].at \/ (k = dvTasks'[r].at /\ dvTasks'[r].rpc = "none"),
                       dvTasks'[s].of = DvTiles[k], dvTasks'[s].pc \in {"begin", "register"}
                PROVE  FALSE
    BY DEF DvTilesWait
  <2>1. r \in DOMAIN dvTasks
    BY Zenon
  <2>2. s \in DOMAIN dvTasks
    BY DvConstants
  <2>3. /\ dvTasks[r].kind = "main" /\ dvTasks[r].of = DvController /\ dvTasks[r].pc \notin DvEnds
        /\ k > dvTasks[r].at \/ (k = dvTasks[r].at /\ dvTasks[r].rpc = "none")
    <3>1. CASE r = t
      BY <3>1 DEF DvGoesOn
    <3>2. CASE r # t
      BY <2>1, <3>2
    <3>. QED
      BY <3>1, <3>2
  <2>4. dvTasks[s].of = DvTiles[k] /\ dvTasks[s].pc \in {"begin", "register"}
    BY <2>2 DEF DvGoesOn
  <2>. QED
    BY <2>1, <2>2, <2>3, <2>4 DEF DvTilesWait
<1>. QED
  BY <1>1, <1>2, <1>3, <1>4
LEMMA DvCalmAnswers ==
  ASSUME DvTypes, DvCallsInv, DvCalm, NEW how \in {"answered", "refused"}, DvAnswers(how),
         dvInitialized' = dvInitialized
  PROVE  DvCalm'
<1>. DEFINE by == dvQueue[1].by
<1>1. /\ DvTakesCall /\ DOMAIN dvTasks' = DOMAIN dvTasks
      /\ \A s \in DOMAIN dvTasks :
            /\ dvTasks'[s].of = dvTasks[s].of /\ dvTasks'[s].kind = dvTasks[s].kind
            /\ dvTasks'[s].pc = dvTasks[s].pc /\ dvTasks'[s].at = dvTasks[s].at
            /\ dvTasks'[s].cancelled = dvTasks[s].cancelled
            /\ dvTasks'[s].rpc = "none" => dvTasks[s].rpc = "none"
  BY DEF DvAnswers, DvIsAnswered
<1>2. dvAlive'
  BY DEF DvAnswers, DvCalm, DvCallersWait, DvTakesCall
<1>3. DvNoneStopped'
  BY <1>1 DEF DvCalm, DvNoneStopped
<1>4. DvCallersWait'
  <2>. SUFFICES ASSUME NEW n \in DOMAIN dvQueue', dvQueue'[n].by \notin DvUsers
                PROVE  dvTasks'[dvQueue'[n].by].pc # "cancelled"
    BY DEF DvCallersWait
  <2>1. dvQueue'[n] = dvQueue[n + 1] /\ n + 1 \in DOMAIN dvQueue
    BY <1>1 DEF DvTakesCall
  <2>2. dvTasks[dvQueue[n + 1].by].pc # "cancelled" /\ dvQueue[n + 1].by \in DOMAIN dvTasks
    BY <2>1 DEF DvCalm, DvCallersWait, DvCallsInv, DvCallInv
  <2>. QED
    BY <1>1, <2>1, <2>2
<1>5. DvYoungAreDown'
  BY <1>1 DEF DvCalm, DvYoungAreDown, DvYoung
<1>6. DvOneMain'
  BY <1>1 DEF DvCalm, DvOneMain
<1>7. DvTilesWait'
  <2>. SUFFICES ASSUME NEW r \in DOMAIN dvTasks', NEW s \in DOMAIN dvTasks', NEW k \in DOMAIN DvTiles,
                       dvTasks'[r].kind = "main", dvTasks'[r].of = DvController,
                       dvTasks'[r].pc \notin DvEnds,
                       k > dvTasks'[r].at \/ (k = dvTasks'[r].at /\ dvTasks'[r].rpc = "none"),
                       dvTasks'[s].of = DvTiles[k], dvTasks'[s].pc \in {"begin", "register"}
                PROVE  FALSE
    BY DEF DvTilesWait
  <2>1. /\ dvTasks[r].kind = "main" /\ dvTasks[r].of = DvController /\ dvTasks[r].pc \notin DvEnds
        /\ k > dvTasks[r].at \/ (k = dvTasks[r].at /\ dvTasks[r].rpc = "none")
        /\ dvTasks[s].of = DvTiles[k] /\ dvTasks[s].pc \in {"begin", "register"}
    BY <1>1
  <2>. QED
    BY <1>1, <2>1 DEF DvCalm, DvTilesWait
<1>. QED
  BY <1>2, <1>3, <1>4, <1>5, <1>6, <1>7 DEF DvCalm

LEMMA DvTilesDiffer == \A m, n \in DOMAIN DvTiles : DvTiles[m] = DvTiles[n] => m = n
BY DvAssumption

LEMMA DvCalmReset ==
  ASSUME DvTypes, DvTasksInv, DvPostedInv, DvCallsInv, DvUnfinishedIsExact, DvCalm,
         NEW a \in DvAddresses, DvResets(a), ~dvHasty'
  PROVE  DvCalm'
<1>. DEFINE by == dvQueue[1].by
            new == Len(dvTasks) + 1
<1>1. /\ DvTakesCall /\ new \notin DOMAIN dvTasks
      /\ DOMAIN dvTasks' = DOMAIN dvTasks \cup {new}
      /\ dvTasks'[new].of = a /\ dvTasks'[new].kind = "main" /\ dvTasks'[new].pc = "begin"
      /\ dvTasks'[new].rpc = "none" /\ dvTasks'[new].at = 0 /\ ~dvTasks'[new].cancelled
      /\ dvInitialized' = [dvInitialized EXCEPT ![a] = FALSE]
  BY DEF DvResets
<1>. HIDE DEF new
<1>2. \A s \in DOMAIN dvTasks :
         /\ dvTasks'[s].of = dvTasks[s].of /\ dvTasks'[s].kind = dvTasks[s].kind
         /\ ~dvTasks'[s].cancelled
         /\ \/ /\ dvTasks'[s].pc = dvTasks[s].pc /\ dvTasks'[s].at = dvTasks[s].at
               /\ dvTasks'[s].rpc = IF s = by THEN "answered" ELSE dvTasks[s].rpc
               /\ dvTasks[s].of # a \/ dvTasks[s].kind = "worker" \/ dvTasks[s].pc \in DvEnds
            \/ /\ dvTasks'[s].pc = "cancelled" /\ dvTasks[s].pc \in {"app", "get", "begin"}
               /\ dvTasks[s].of = a
  BY DvResetEnds
<1>3. \/ by \in DvUsers /\ DvUp
      \/ /\ by \notin DvUsers /\ by \in DOMAIN dvTasks
         /\ dvTasks[by].pc = "reset tiles" /\ dvTasks[by].rpc = "none"
         /\ a = DvTiles[dvTasks[by].at] /\ dvTasks[by].at \in DOMAIN DvTiles
  BY DvResetFinds
<1>4. DvNoneStopped'
  BY <1>1, <1>2 DEF DvNoneStopped
<1>5. dvAlive'
  <2>1. CASE by \in DvUsers
    BY <2>1 DEF DvResets
  <2>2. CASE by \notin DvUsers
    <3>1. dvTasks'[by].pc # "cancelled"
      BY <1>2, <1>3, <2>2
    <3>. QED
      BY <2>2, <3>1 DEF DvResets
  <2>. QED
    BY <2>1, <2>2
<1>6. DvCallersWait'
  <2>. SUFFICES ASSUME NEW n \in DOMAIN dvQueue', dvQueue'[n].by \notin DvUsers
                PROVE  dvTasks'[dvQueue'[n].by].pc # "cancelled"
    BY DEF DvCallersWait
  <2>. DEFINE s == dvQueue[n + 1].by
  <2>1. dvQueue'[n] = dvQueue[n + 1] /\ n + 1 \in DOMAIN dvQueue
    BY <1>1 DEF DvTakesCall
  <2>2. dvTasks[s].pc # "cancelled" /\ s \in DOMAIN dvTasks /\ DvMatches(dvQueue[n + 1], dvTasks[s])
    BY <2>1 DEF DvCalm, DvCallersWait, DvCallsInv, DvCallInv
  <2>3. dvTasks[s].pc \in {"register", "reset tiles", "configure"}
    BY <2>2 DEF DvMatches
  <2>. QED
    BY <1>2, <2>1, <2>2, <2>3
<1>7. DvYoungAreDown'
  <2>. SUFFICES ASSUME NEW s \in DOMAIN dvTasks', DvYoung(dvTasks'[s])
                PROVE  ~dvInitialized'[dvTasks'[s].of]
    BY DEF DvYoungAreDown
  <2>1. CASE s = new
    BY <1>1, <2>1 DEF DvTypes
  <2>2. CASE s \in DOMAIN dvTasks
    <3>1. dvTasks'[s].of = dvTasks[s].of /\ DvYoung(dvTasks[s])
      BY <1>2, <2>2 DEF DvYoung
    <3>2. ~dvInitialized[dvTasks[s].of] /\ dvTasks[s].of \in DvAddresses
      BY <2>2, <3>1, DvTaskIs DEF DvCalm, DvYoungAreDown
    <3>. QED
      BY <1>1, <3>1, <3>2 DEF DvTypes
  <2>. QED
    BY <1>1, <2>1, <2>2
\* The main task that a reset starts is the only one of its tile.
<1>8. ASSUME NEW s \in DOMAIN dvTasks, dvTasks'[s].kind = "main", dvTasks'[s].of = a
      PROVE  dvTasks'[s].pc \in DvEnds
  BY <1>2, <1>8 DEF DvEnds
<1>9. DvOneMain'
  <2>. SUFFICES ASSUME NEW r \in DOMAIN dvTasks', NEW s \in DOMAIN dvTasks',
                       dvTasks'[r].kind = "main", dvTasks'[s].kind = "main", dvTasks'[r].of = dvTasks'[s].of,
                       dvTasks'[r].pc \notin DvEnds, dvTasks'[s].pc \notin DvEnds
                PROVE  r = s
    BY DEF DvOneMain
  <2>1. CASE r \in DOMAIN dvTasks /\ s \in DOMAIN dvTasks
    <3>1. dvTasks[r].pc \notin DvEnds /\ dvTasks[s].pc \notin DvEnds
      BY <1>2, <2>1 DEF DvEnds
    <3>. QED
      BY <1>2, <2>1, <3>1 DEF DvCalm, DvOneMain
  <2>2. CASE r = new \/ s = new
    BY <1>1, <1>8, <2>2
  <2>. QED
    BY <1>1, <2>1, <2>2
<1>10. DvTilesWait'
  <2>. SUFFICES ASSUME NEW r \in DOMAIN dvTasks', NEW s \in DOMAIN dvTasks', NEW k \in DOMAIN DvTiles,
                       dvTasks'[r].kind = "main", dvTasks'[r].of = DvController,
                       dvTasks'[r].pc \notin DvEnds,
                       k > dvTasks'[r].at \/ (k = dvTasks'[r].at /\ dvTasks'[r].rpc = "none"),
                       dvTasks'[s].of = DvTiles[k], dvTasks'[s].pc \in {"begin", "register"}
                PROVE  FALSE
    BY DEF DvTilesWait
  <2>1. DvTiles[k] \in DvPeripherals /\ DvTiles[k] # DvController /\ DvTiles[k] \in DvAddresses
    BY DvConstants
  \* Its caller, the main task of the controller, has got its answer.
  <2>2. ASSUME r \in DOMAIN dvTasks, by \notin DvUsers
        PROVE  r = by /\ dvTasks'[r].rpc = "answered" /\ dvTasks'[r].at = dvTasks[by].at
    <3>1. dvTasks[r].kind = "main" /\ dvTasks[r].of = DvController /\ dvTasks[r].pc \notin DvEnds
      BY <1>2, <2>2 DEF DvEnds
    <3>2. dvTasks[by].kind = "main" /\ dvTasks[by].of = DvController /\ dvTasks[by].pc \notin DvEnds
      BY <1>3, <2>2, DvTaskIs DEF DvEnds
    <3>3. r = by
      BY <1>3, <2>2, <3>1, <3>2 DEF DvCalm, DvOneMain
    <3>. QED
      BY <1>2, <1>3, <2>2, <3>2, <3>3 DEF DvEnds
  <2>3. CASE s \in DOMAIN dvTasks /\ by \in DvUsers
    <3>1. dvTasks[s].of = DvTiles[k] /\ dvTasks[s].pc \in {"begin", "register"}
      BY <1>2, <2>3
    <3>2. DvYoung(dvTasks[s])
      BY <2>1, <2>3, <3>1, DvTaskIs DEF DvYoung, DvEnds
    <3>. QED
      BY <1>3, <2>1, <2>3, <3>1, <3>2 DEF DvUp, DvCalm, DvYoungAreDown
  <2>4. CASE s \in DOMAIN dvTasks /\ by \notin DvUsers
    <3>1. r \in DOMAIN dvTasks
      BY <1>1, <1>3, <2>1, <2>4, DvConstants
    <3>2. /\ dvTasks[r].kind = "main" /\ dvTasks[r].of = DvController /\ dvTasks[r].pc \notin DvEnds
          /\ dvTasks'[r].at = dvTasks[r].at /\ dvTasks'[r].rpc = "answered"
      BY <1>2, <2>2, <2>4, <3>1 DEF DvEnds
    <3>3. dvTasks[s].of = DvTiles[k] /\ dvTasks[s].pc \in {"begin", "register"}
      BY <1>2, <2>4
    <3>. QED
      BY <2>4, <3>1, <3>2, <3>3 DEF DvCalm, DvTilesWait
  <2>5. CASE s = new
    <3>1. a = DvTiles[k] /\ r \in DOMAIN dvTasks
      BY <1>1, <2>1, <2>5
    <3>2. CASE by \in DvUsers
      <4>1. dvTasks[r].kind = "main" /\ dvTasks[r].of = DvController /\ dvTasks[r].pc \notin DvEnds
        BY <1>2, <3>1 DEF DvEnds
      <4>2. DvYoung(dvTasks[r])
        BY <3>1, <4>1, DvTaskIs
      <4>. QED
        BY <1>3, <3>1, <3>2, <4>1, <4>2, DvConstants DEF DvUp, DvCalm, DvYoungAreDown
    <3>3. CASE by \notin DvUsers
      <4>1. k = dvTasks[by].at
        BY <1>3, <3>1, <3>3, DvTilesDiffer
      <4>2. dvTasks'[r].rpc = "answered" /\ dvTasks'[r].at = k
        BY <2>2, <3>1, <3>3, <4>1
      <4>3. k \in Nat
        BY DvConstants
      <4>. QED
        BY <4>2, <4>3
    <3>. QED
      BY <3>2, <3>3
  <2>. QED
    BY <1>1, <2>3, <2>4, <2>5
<1>. QED
  BY <1>4, <1>5, <1>6, <1>7, <1>9, <1>10 DEF DvCalm

LEMMA DvCalmNext ==
  ASSUME DvTypes, DvTasksInv, DvPostedInv, DvCallsInv, DvUnfinishedIsExact, DvCalmInv, DvSteps
  PROVE  DvCalmInv'
<1>. SUFFICES ASSUME ~dvHasty' PROVE DvCalm'
  BY DEF DvCalmInv
<1>0. dvQueue \in Seq(DvCall)
  BY DEF DvTypes
<1>1. CASE DvQuietStep \/ DvAddTask
  <2>1. UNCHANGED <<dvQueue, dvAlive, dvTasks, dvInitialized, dvHasty>>
    BY <1>1 DEF DvQuietStep, DvAddTask, DvStay, dvTileVars, dvPast, dvUserVars
  <2>2. DvCalm
    BY <2>1 DEF DvCalmInv
  <2>. QED
    BY <2>1, <2>2 DEF DvCalm, DvNoneStopped, DvCallersWait, DvYoungAreDown, DvOneMain, DvTilesWait
<1>2. CASE DvUserCallStep \/ DvDeferStep
  <2>1. UNCHANGED <<dvAlive, dvTasks, dvInitialized, dvHasty>>
    BY <1>2 DEF DvUserCallStep, DvDeferStep, DvStay, dvTileVars, dvPast
  <2>2. DvCalm
    BY <2>1 DEF DvCalmInv
  <2>3. DvCallersWait'
    <3>1. CASE DvUserCallStep
      <4>1. PICK c \in DvCall : c.by \in DvUsers /\ DvGrows(c)
        BY <1>0, <3>1, DvCallGrows DEF DvUserCallStep
      <4>. QED
        BY <2>1, <2>2, <4>1 DEF DvCalm, DvCallersWait, DvGrows
    <3>2. CASE DvDeferStep
      BY <2>1, <2>2, <3>2 DEF DvCalm, DvCallersWait, DvDeferStep, DvTakesCall
    <3>. QED
      BY <1>2, <3>1, <3>2
  <2>. QED
    BY <2>1, <2>2, <2>3 DEF DvCalm, DvNoneStopped, DvYoungAreDown, DvOneMain, DvTilesWait
<1>3. CASE DvRefusedStep \/ DvConfigCallStep \/ DvStartCallStep \/ DvRegisterCallStep
  <2>1. UNCHANGED <<dvInitialized, dvHasty>>
    BY <1>3 DEF DvRefusedStep, DvConfigCallStep, DvStartCallStep, DvRegisterCallStep, dvTileVars, dvPast
  <2>2. \E how \in {"answered", "refused"} : DvAnswers(how)
    BY <1>3 DEF DvRefusedStep, DvConfigCallStep, DvStartCallStep, DvRegisterCallStep
  <2>. QED
    BY <2>1, <2>2, DvCalmAnswers DEF DvCalmInv
<1>4. ASSUME NEW a \in DvAddresses, DvResets(a)
      PROVE  DvCalm'
  <2>1. ~dvHasty
    BY <1>4, Zenon DEF DvResets
  <2>. QED
    BY <1>4, <2>1, DvCalmReset DEF DvCalmInv
<1>5. ASSUME NEW t \in DOMAIN dvTasks, DvTaskStep(t)
      PROVE  DvCalm'
  <2>1. /\ DOMAIN dvTasks' = DOMAIN dvTasks /\ dvTasks'[t].of = dvTasks[t].of
        /\ dvTasks'[t].kind = dvTasks[t].kind
        /\ \A s \in DOMAIN dvTasks : s # t => dvTasks'[s] = dvTasks[s]
    BY <1>5, DvTaskStepIs DEF DvOthersStay
  <2>2. dvAlive' = dvAlive /\ dvHasty' = dvHasty
    BY <1>5, DvTaskKeeps
  <2>3. DvCalm
    BY <2>2 DEF DvCalmInv
  <2>4. DvGoesOn(t)
    BY <1>5, <2>3, DvCalmTask DEF DvCalm
  <2>5. DvNoneStopped' /\ DvYoungAreDown' /\ DvOneMain' /\ DvTilesWait'
    BY <2>1, <2>3, <2>4, DvCalmStays
  <2>6. DvCallersWait'
    <3>1. \A s \in DOMAIN dvTasks : dvTasks'[s].pc = "cancelled" => dvTasks[s].pc = "cancelled"
      BY <2>1, <2>4 DEF DvGoesOn
    <3>2. CASE dvQueue' = dvQueue
      BY <2>3, <3>1, <3>2 DEF DvCalm, DvCallersWait, DvCallsInv, DvCallInv
    <3>3. ASSUME NEW c \in DvCall, DvGrows(c), DvCallOf(t, c)
          PROVE  DvCallersWait'
      <4>1. c.by = t /\ dvTasks'[t].pc # "cancelled"
        BY <2>4, <3>3 DEF DvCallOf, DvGoesOn
      <4>. QED
        BY <2>3, <3>1, <3>3, <4>1 DEF DvCalm, DvCallersWait, DvCallsInv, DvCallInv, DvGrows
    <3>. QED
      BY <1>5, <3>2, <3>3, DvTaskQueue
  <2>. QED
    BY <2>2, <2>3, <2>5, <2>6 DEF DvCalm
<1>6. ASSUME NEW t \in DOMAIN dvTasks, DvPostStep(t)
      PROVE  DvCalm'
  <2>1. /\ dvTasks'[t].of = dvTasks[t].of /\ dvTasks'[t].kind = dvTasks[t].kind
        /\ \A s \in DOMAIN dvTasks : s \in DOMAIN dvTasks' /\ (s # t => dvTasks'[s] = dvTasks[s])
        /\ \A s \in DOMAIN dvTasks' \ DOMAIN dvTasks :
              dvTasks'[s].kind = "worker" /\ dvTasks'[s].of = DvController /\ ~dvTasks'[s].cancelled
        /\ dvQueue' = dvQueue
    BY <1>6 DEF DvPostStep
  <2>2. dvAlive' = dvAlive /\ dvHasty' = dvHasty
    BY <1>6 DEF DvPostStep, dvPast
  <2>3. DvCalm
    BY <2>2 DEF DvCalmInv
  <2>4. DvGoesOn(t)
    BY <1>6, <2>3, DvCalmPost DEF DvCalm
  <2>5. DvNoneStopped' /\ DvYoungAreDown' /\ DvOneMain' /\ DvTilesWait'
    BY <2>1, <2>3, <2>4, DvCalmStays
  <2>6. DvCallersWait'
    <3>1. \A s \in DOMAIN dvTasks : dvTasks'[s].pc = "cancelled" => dvTasks[s].pc = "cancelled"
      BY <2>1, <2>4 DEF DvGoesOn
    <3>. QED
      BY <2>1, <2>3, <3>1 DEF DvCalm, DvCallersWait, DvCallsInv, DvCallInv
  <2>. QED
    BY <2>2, <2>3, <2>5, <2>6 DEF DvCalm
<1>. QED
  BY <1>1, <1>2, <1>3, <1>4, <1>5, <1>6 DEF DvSteps
-----------------------------------------------------------------------------
(* What has been streamed. *)

\* Only a reset takes config variables away, ...
LEMMA DvFullStays ==
  ASSUME DvTypes, DvTasksInv, DvCallsInv, DvSteps, NEW a \in DvAddresses, DvFull(a)
  PROVE  DvFull(a)' \/ DvResets(a)
<1>0. dvConfig \in [DvAddresses -> SUBSET (1 .. DvVars)]
  BY DEF DvTypes
<1>1. CASE DvQuietStep \/ DvUserCallStep \/ DvAddTask \/ DvDeferStep
  <2>1. dvConfig' = dvConfig
    BY <1>1 DEF DvQuietStep, DvUserCallStep, DvAddTask, DvDeferStep, DvStay, dvTileVars
  <2>. QED
    BY <2>1 DEF DvFull
<1>2. CASE DvRefusedStep \/ DvStartCallStep \/ DvRegisterCallStep
  <2>1. dvConfig' = dvConfig
    BY <1>2 DEF DvRefusedStep, DvStartCallStep, DvRegisterCallStep, dvTileVars
  <2>. QED
    BY <2>1 DEF DvFull
<1>3. CASE DvConfigCallStep
  <2>. DEFINE c == dvQueue[1]
  <2>1. /\ DvCallInv(c) /\ c.kind = "config" /\ c \in DvCall
        /\ dvConfig' = IF dvInitialized[c.to] THEN dvConfig
                       ELSE [dvConfig EXCEPT ![c.to] = @ \cup {c.var}]
    BY <1>3 DEF DvConfigCallStep, DvAnswers, DvTakesCall
  <2>2. c.var \in 1 .. DvVars
    BY <2>1 DEF DvCallInv
  <2>. HIDE DEF c
  <2>. QED
    BY <1>0, <2>1, <2>2 DEF DvFull
<1>4. ASSUME NEW b \in DvAddresses, DvResets(b), b # a
      PROVE  DvFull(a)'
  <2>1. dvConfig' = [dvConfig EXCEPT ![b] = {}]
    BY <1>4 DEF DvResets
  <2>. QED
    BY <1>0, <1>4, <2>1 DEF DvFull
<1>5. ASSUME NEW t \in DOMAIN dvTasks, DvTaskStep(t) \/ DvPostStep(t)
      PROVE  DvFull(a)'
  <2>1. dvConfig' = dvConfig
    BY <1>5, DvTaskKeeps
  <2>. QED
    BY <2>1 DEF DvFull
<1>. QED
  BY <1>1, <1>2, <1>3, <1>4, <1>5 DEF DvSteps

\* ... and it is remembered which tiles were reset while they were being configured.
LEMMA DvOvertakenStays ==
  ASSUME DvSteps
  PROVE  dvOvertaken \subseteq dvOvertaken' /\ (dvAlive' => dvAlive)
<1>1. CASE DvQuietStep \/ DvUserCallStep \/ DvAddTask \/ DvDeferStep
  BY <1>1 DEF DvQuietStep, DvUserCallStep, DvAddTask, DvDeferStep, DvStay, dvPast, dvUserVars
<1>2. CASE DvRefusedStep \/ DvStartCallStep \/ DvRegisterCallStep \/ DvConfigCallStep
  BY <1>2 DEF DvRefusedStep, DvStartCallStep, DvRegisterCallStep, DvConfigCallStep, dvPast,
              DvAnswers, DvTakesCall
<1>3. ASSUME NEW a \in DvAddresses, DvResets(a)
      PROVE  dvOvertaken \subseteq dvOvertaken' /\ (dvAlive' => dvAlive)
  BY <1>3 DEF DvResets, DvTakesCall
<1>4. ASSUME NEW t \in DOMAIN dvTasks, DvTaskStep(t) \/ DvPostStep(t)
      PROVE  dvOvertaken' = dvOvertaken /\ dvAlive' = dvAlive
  BY <1>4, DvTaskKeeps
<1>. QED
  BY <1>1, <1>2, <1>3, <1>4, Zenon DEF DvSteps

\* The first call was made by a task that awaits it, or that has ended.
LEMMA DvCallerAwaits ==
  ASSUME DvTypes, DvCallsInv, NEW n \in DOMAIN dvQueue, dvAlive,
         dvQueue[n].kind \notin {"reset", "echo"} \/ dvQueue[n].by \notin DvUsers
  PROVE  /\ dvQueue[n].by \in DOMAIN dvTasks
         /\ DvMatches(dvQueue[n], dvTasks[dvQueue[n].by]) \/ dvTasks[dvQueue[n].by].pc = "cancelled"
BY DEF DvCallsInv, DvCallInv


LEMMA DvWorkersAnswer ==
  ASSUME DvTypes, DvTasksInv, DvCallsInv, DvWorkersInv, DvConfigured, NEW how \in {"answered", "refused"},
         DvAnswers(how), dvOvertaken' = dvOvertaken,
         \/ dvConfig' = dvConfig /\ (how = "refused" \/ dvQueue[1].kind \in {"start", "register"})
         \/ /\ dvQueue[1].kind = "config"
            /\ dvConfig' = IF dvInitialized[dvQueue[1].to] THEN dvConfig
                   ELSE [dvConfig EXCEPT ![dvQueue[1].to] = @ \cup {dvQueue[1].var}]
  PROVE  DvWorkersInv'
<1>. DEFINE c == dvQueue[1]
<1>0. /\ dvConfig \in [DvAddresses -> SUBSET (1 .. DvVars)] /\ DvVars \in Nat
      /\ \A a \in DvPeripherals : a \in DvAddresses
  BY DvConstants DEF DvTypes
<1>1. /\ DvTakesCall /\ dvAlive /\ DvIsAnswered(dvTasks', dvTasks, c.by, how) /\ 1 \in DOMAIN dvQueue
  BY DEF DvAnswers, DvTakesCall
<1>. SUFFICES ASSUME NEW t \in DOMAIN dvTasks', dvTasks'[t].pc = "configure",
                     dvTasks'[t].entry \notin dvOvertaken'
              PROVE  /\ 1 .. (dvTasks'[t].at - 1) \subseteq dvConfig'[dvTasks'[t].entry]
                     /\ dvTasks'[t].rpc = "answered" /\ dvTasks'[t].at <= DvVars =>
                          dvTasks'[t].at \in dvConfig'[dvTasks'[t].entry]
  BY DEF DvWorkersInv
<1>2. /\ t \in DOMAIN dvTasks /\ dvTasks[t].pc = "configure"
      /\ dvTasks'[t].at = dvTasks[t].at /\ dvTasks'[t].entry = dvTasks[t].entry
      /\ dvTasks'[t].rpc = IF t = c.by THEN how ELSE dvTasks[t].rpc
  BY <1>1 DEF DvIsAnswered
<1>. DEFINE a == dvTasks[t].entry
<1>3. dvTasks[t] \in DvTaskRecord /\ DvWellFormed(dvTasks[t])
  BY <1>2 DEF DvTypes, DvTasksInv
<1>4. a \in DvPeripherals /\ dvTasks[t].at \in 1 .. DvVars + 1
  BY <1>2, <1>3 DEF DvTaskRecord, DvWellFormed
<1>5. /\ 1 .. (dvTasks[t].at - 1) \subseteq dvConfig[a]
      /\ dvTasks[t].rpc = "answered" /\ dvTasks[t].at <= DvVars => dvTasks[t].at \in dvConfig[a]
  BY <1>2 DEF DvWorkersInv
<1>6. dvConfig[a] \subseteq dvConfig'[a]
  BY <1>0, <1>4
<1>7. ASSUME t = c.by, how = "answered", dvTasks[t].at <= DvVars
      PROVE  dvTasks[t].at \in dvConfig'[a]
  <2>1. t \notin DvUsers
    BY <1>2, DvUsersAreNoTasks DEF DvTypes
  <2>2. DvMatches(c, dvTasks[t])
    BY <1>1, <1>2, <1>7, <2>1, DvCallerAwaits
  <2>3. c.kind \in {"config", "start"} /\ (c.kind = "start" => dvTasks[t].at = DvVars + 1)
        /\ (c.kind = "config" => c.to = a /\ c.var = dvTasks[t].at)
    BY <1>2, <2>2 DEF DvMatches
  <2>4. c.kind = "config" /\ c.to = a /\ c.var = dvTasks[t].at
    BY <1>0, <1>4, <1>7, <2>3
  <2>5. CASE dvInitialized[a]
    <3>1. dvConfig[a] = 1 .. DvVars
      BY <1>2, <1>4, <2>5 DEF DvConfigured
    <3>. QED
      BY <1>0, <1>4, <1>6, <1>7, <3>1
  <2>6. CASE ~dvInitialized[a]
    <3>1. dvConfig' = [dvConfig EXCEPT ![a] = @ \cup {dvTasks[t].at}]
      BY <1>7, <2>4, <2>6
    <3>. QED
      BY <1>0, <1>4, <3>1
  <2>. QED
    BY <2>5, <2>6
<1>. HIDE DEF a, c
<1>8. 1 .. (dvTasks'[t].at - 1) \subseteq dvConfig'[a]
  BY <1>2, <1>5, <1>6
<1>9. dvTasks'[t].rpc = "answered" /\ dvTasks'[t].at <= DvVars => dvTasks'[t].at \in dvConfig'[a]
  BY <1>2, <1>5, <1>6, <1>7
<1>. QED
  BY <1>2, <1>8, <1>9 DEF a

LEMMA DvWorkersNext ==
  ASSUME DvTypes, DvTasksInv, DvPostedInv, DvCallsInv, DvWorkersInv, DvConfigured, DvSteps
  PROVE  DvWorkersInv'
<1>0. /\ dvConfig \in [DvAddresses -> SUBSET (1 .. DvVars)] /\ DvVars \in Nat
      /\ \A a \in DvPeripherals : a \in DvAddresses
  BY DvConstants DEF DvTypes
<1>1. CASE DvQuietStep \/ DvUserCallStep \/ DvAddTask \/ DvDeferStep
  <2>1. UNCHANGED <<dvConfig, dvTasks, dvOvertaken>>
    BY <1>1 DEF DvQuietStep, DvUserCallStep, DvAddTask, DvDeferStep, DvStay, dvTileVars, dvPast, dvUserVars
  <2>. QED
    BY <2>1 DEF DvWorkersInv
<1>2. CASE DvRefusedStep \/ DvStartCallStep \/ DvRegisterCallStep \/ DvConfigCallStep
  <2>1. dvOvertaken' = dvOvertaken
    BY <1>2 DEF DvRefusedStep, DvStartCallStep, DvRegisterCallStep, DvConfigCallStep, dvPast
  <2>2. CASE DvRefusedStep
    BY <2>1, <2>2, DvWorkersAnswer DEF DvRefusedStep, dvTileVars
  <2>3. CASE DvStartCallStep \/ DvRegisterCallStep
    BY <2>1, <2>3, DvWorkersAnswer DEF DvStartCallStep, DvRegisterCallStep, dvTileVars
  <2>4. CASE DvConfigCallStep
    BY <2>1, <2>4, DvWorkersAnswer DEF DvConfigCallStep
  <2>. QED
    BY <1>2, <2>2, <2>3, <2>4
<1>3. ASSUME NEW b \in DvAddresses, DvResets(b)
      PROVE  DvWorkersInv'
  <2>. SUFFICES ASSUME NEW t \in DOMAIN dvTasks', dvTasks'[t].pc = "configure",
                       dvTasks'[t].entry \notin dvOvertaken'
                PROVE  /\ 1 .. (dvTasks'[t].at - 1) \subseteq dvConfig'[dvTasks'[t].entry]
                       /\ dvTasks'[t].rpc = "answered" /\ dvTasks'[t].at <= DvVars =>
                            dvTasks'[t].at \in dvConfig'[dvTasks'[t].entry]
    BY DEF DvWorkersInv
  <2>1. t \in DOMAIN dvTasks
    BY <1>3 DEF DvResets
  <2>2. DvStopChange(dvTasks[t], dvTasks'[t], DvStopped(t, b), t = dvQueue[1].by)
    BY <1>3, <2>1 DEF DvResets
  <2>3. /\ dvTasks[t].pc = "configure" /\ dvTasks'[t].at = dvTasks[t].at
        /\ dvTasks'[t].entry = dvTasks[t].entry
        /\ dvTasks'[t].rpc = IF t = dvQueue[1].by THEN "answered" ELSE dvTasks[t].rpc
    BY <2>2 DEF DvStopChange
  <2>4. t # dvQueue[1].by
    <3>1. SUFFICES ASSUME t = dvQueue[1].by PROVE FALSE
      OBVIOUS
    <3>2. t \notin DvUsers /\ dvAlive /\ 1 \in DOMAIN dvQueue /\ dvQueue[1].kind = "reset"
      BY <1>3, <2>1, DvUsersAreNoTasks DEF DvTypes, DvResets, DvTakesCall
    <3>3. DvMatches(dvQueue[1], dvTasks[t])
      BY <2>3, <3>1, <3>2, DvCallerAwaits
    <3>. QED
      BY <2>3, <3>2, <3>3 DEF DvMatches
  <2>5. dvTasks[t].entry # b /\ dvTasks[t].entry \notin dvOvertaken
    BY <1>3, <2>1, <2>3 DEF DvResets, DvBeingConfigured
  <2>6. dvTasks[t] \in DvTaskRecord /\ DvWellFormed(dvTasks[t])
    BY <2>1 DEF DvTypes, DvTasksInv
  <2>7. dvTasks[t].entry \in DvPeripherals
    BY <2>3, <2>6 DEF DvTaskRecord, DvWellFormed
  <2>8. dvConfig'[dvTasks[t].entry] = dvConfig[dvTasks[t].entry]
    BY <1>0, <1>3, <2>5, <2>7 DEF DvResets
  <2>. QED
    BY <2>1, <2>3, <2>4, <2>5, <2>8 DEF DvWorkersInv
<1>4. ASSUME NEW t \in DOMAIN dvTasks, DvTaskStep(t)
      PROVE  DvWorkersInv'
  <2>1. /\ DOMAIN dvTasks' = DOMAIN dvTasks
        /\ \A s \in DOMAIN dvTasks : s # t => dvTasks'[s] = dvTasks[s]
    BY <1>4, DvTaskStepIs DEF DvOthersStay
  <2>2. dvConfig' = dvConfig /\ dvOvertaken' = dvOvertaken
    BY <1>4, DvTaskKeeps
  <2>3. ASSUME dvTasks'[t].pc = "configure", dvTasks'[t].entry \notin dvOvertaken
        PROVE  /\ 1 .. (dvTasks'[t].at - 1) \subseteq dvConfig[dvTasks'[t].entry]
               /\ dvTasks'[t].rpc = "none"
    <3>1. CASE DvGetStep(t)
      BY <3>1 DEF DvGetStep, DvBecomes
    <3>2. CASE DvConfigStep(t)
      <4>1. /\ dvTasks[t].pc = "configure" /\ dvTasks[t].rpc = "answered" /\ dvTasks[t].at \in 1 .. DvVars
            /\ dvTasks'[t].at = dvTasks[t].at + 1 /\ dvTasks'[t].entry = dvTasks[t].entry
            /\ dvTasks'[t].rpc = "none"
        BY <3>2 DEF DvConfigStep, DvBecomes
      <4>2. 1 .. (dvTasks[t].at - 1) \subseteq dvConfig[dvTasks[t].entry] /\ dvTasks[t].at \in dvConfig[dvTasks[t].entry]
        BY <1>0, <2>3, <4>1 DEF DvWorkersInv
      <4>. QED
        BY <1>0, <4>1, <4>2
    <3>3. CASE DvCancelledStep(t) \/ DvRaisesStep(t) \/ DvClearStep(t) \/ DvFailsStep(t) \/ DvUpStep(t)
      BY <2>3, <3>3 DEF DvCancelledStep, DvRaisesStep, DvClearStep, DvFailsStep, DvUpStep, DvEndsAs, DvGoesTo, DvBecomes
    <3>4. CASE DvNextTileStep(t) \/ DvReadyStep(t) \/ DvDoneStep(t) \/ DvRegisterStep(t) \/ DvAppStep(t)
      BY <2>3, <3>4 DEF DvNextTileStep, DvReadyStep, DvDoneStep, DvRegisterStep, DvAppStep, DvGoesTo, DvBecomes
    <3>. QED
      BY <1>4, <3>1, <3>2, <3>3, <3>4 DEF DvTaskStep
  <2>. QED
    BY <2>1, <2>2, <2>3 DEF DvWorkersInv
<1>5. ASSUME NEW t \in DOMAIN dvTasks, DvPostStep(t)
      PROVE  DvWorkersInv'
  <2>1. /\ \A s \in DOMAIN dvTasks : s # t => dvTasks'[s] = dvTasks[s]
        /\ dvTasks'[t].pc # "configure" /\ \A s \in DOMAIN dvTasks' \ DOMAIN dvTasks : dvTasks'[s].pc # "configure"
    BY <1>5 DEF DvPostStep
  <2>2. dvConfig' = dvConfig /\ dvOvertaken' = dvOvertaken
    BY <1>5 DEF DvPostStep, dvTileVars, dvPast
  <2>. QED
    BY <2>1, <2>2 DEF DvWorkersInv
<1>. QED
  BY <1>1, <1>2, <1>3, <1>4, <1>5 DEF DvSteps
\* No step of a task makes a tile ready for START that was not, ...
DvNotReadied(t) ==
    /\ \A s \in DOMAIN dvTasks : s \in DOMAIN dvTasks' /\ (s # t => dvTasks'[s] = dvTasks[s])
    /\ \A s \in DOMAIN dvTasks' \ DOMAIN dvTasks : dvTasks'[s].pc = "begin"
    /\ dvTasks'[t].of = dvTasks[t].of
    /\ DvLive(dvTasks'[t]) => DvLive(dvTasks[t])
    /\ dvTasks'[t].pc = "register" => dvTasks'[t].rpc = "none"

LEMMA DvTaskNotReadied ==
  ASSUME DvTypes, NEW t \in DOMAIN dvTasks, DvTaskStep(t) \/ DvPostStep(t)
  PROVE  DvNotReadied(t)
<1>1. CASE DvTaskStep(t)
  <2>1. /\ DOMAIN dvTasks' = DOMAIN dvTasks /\ dvTasks'[t].of = dvTasks[t].of
        /\ \A s \in DOMAIN dvTasks : s # t => dvTasks'[s] = dvTasks[s]
    BY <1>1, DvTaskStepIs DEF DvOthersStay
  <2>2. DvLive(dvTasks'[t]) => DvLive(dvTasks[t])
    BY <1>1, DvLivesOn
  <2>3. dvTasks'[t].rpc = "none"
    <3>1. CASE DvCancelledStep(t) \/ DvRaisesStep(t) \/ DvClearStep(t) \/ DvFailsStep(t) \/ DvUpStep(t)
               \/ DvReadyStep(t)
      BY <3>1 DEF DvCancelledStep, DvRaisesStep, DvClearStep, DvFailsStep, DvUpStep, DvEndsAs, DvGoesTo, DvBecomes,
                  DvReadyStep
    <3>2. CASE DvNextTileStep(t) \/ DvGetStep(t) \/ DvDoneStep(t) \/ DvConfigStep(t) \/ DvRegisterStep(t) \/ DvAppStep(t)
      BY <3>2 DEF DvNextTileStep, DvGetStep, DvDoneStep, DvConfigStep, DvRegisterStep, DvAppStep, DvGoesTo, DvBecomes
    <3>. QED
      BY <1>1, <3>1, <3>2 DEF DvTaskStep
  <2>. QED
    BY <2>1, <2>2, <2>3 DEF DvNotReadied
<1>2. CASE DvPostStep(t)
  <2>1. /\ \A s \in DOMAIN dvTasks : s \in DOMAIN dvTasks' /\ (s # t => dvTasks'[s] = dvTasks[s])
        /\ \A s \in DOMAIN dvTasks' \ DOMAIN dvTasks : dvTasks'[s].pc = "begin"
        /\ dvTasks'[t].of = dvTasks[t].of /\ dvTasks'[t].pc = "starting"
    BY <1>2 DEF DvPostStep
  <2>2. dvTasks'[t].cancelled = dvTasks[t].cancelled /\ dvTasks[t].pc = "initialize"
    BY <1>2, Zenon DEF DvPostStep
  <2>. QED
    BY <2>1, <2>2 DEF DvNotReadied, DvLive, DvEnds
<1>. QED
  BY <1>1, <1>2

LEMMA DvNoneReadied ==
  ASSUME NEW t \in DOMAIN dvTasks, DvNotReadied(t), NEW a, DvNoneReady(a)
  PROVE  DvNoneReady(a)'
<1>. SUFFICES ASSUME NEW s \in DOMAIN dvTasks', dvTasks'[s].of = a, DvLive(dvTasks'[s]),
                     dvTasks'[s].pc = "register", dvTasks'[s].rpc = "answered"
              PROVE  FALSE
  BY DEF DvNoneReady, DvReady
<1>1. s \in DOMAIN dvTasks /\ s # t
  BY DEF DvNotReadied
<1>. QED
  BY <1>1 DEF DvNotReadied, DvNoneReady, DvReady

\* ... nor one of the dispatcher, but for the answer to its call of REGISTER, ...
LEMMA DvAnswersUnready ==
  ASSUME DvTypes, DvCallsInv, NEW how \in {"answered", "refused"}, DvAnswers(how), NEW a,
         DvNoneReady(a),
         dvAlive' => ~(dvQueue[1].kind = "register" /\ dvTasks[dvQueue[1].by].of = a
                       /\ DvLive(dvTasks[dvQueue[1].by]))
  PROVE  DvNoneReady(a)'
<1>. DEFINE by == dvQueue[1].by
<1>1. /\ DvTakesCall /\ dvAlive /\ DvIsAnswered(dvTasks', dvTasks, by, how) /\ 1 \in DOMAIN dvQueue
  BY DEF DvAnswers, DvTakesCall
<1>. SUFFICES ASSUME NEW s \in DOMAIN dvTasks', dvTasks'[s].of = a, DvLive(dvTasks'[s]),
                     dvTasks'[s].pc = "register", dvTasks'[s].rpc = "answered"
              PROVE  FALSE
  BY DEF DvNoneReady, DvReady
<1>2. /\ s \in DOMAIN dvTasks /\ dvTasks[s].of = a /\ DvLive(dvTasks[s])
      /\ dvTasks[s].pc = "register" /\ dvTasks'[s].rpc = IF s = by THEN how ELSE dvTasks[s].rpc
  BY <1>1 DEF DvIsAnswered, DvLive
<1>3. s = by
  BY <1>2 DEF DvNoneReady, DvReady
<1>4. by \notin DvUsers
  BY <1>2, <1>3, DvUsersAreNoTasks DEF DvTypes
<1>5. dvAlive'
  BY <1>2, <1>3, <1>4 DEF DvAnswers
<1>6. DvMatches(dvQueue[1], dvTasks[s])
  BY <1>1, <1>2, <1>3, <1>4, DvCallerAwaits
<1>7. dvQueue[1].kind = "register"
  BY <1>2, <1>6 DEF DvMatches
<1>. QED
  BY <1>2, <1>3, <1>5, <1>7

\* ... and after a reset the tile has not even registered.
LEMMA DvResetUnready ==
  ASSUME DvTypes, DvPostedInv, DvCallsInv, NEW a \in DvAddresses, DvResets(a)
  PROVE  /\ \A s \in DOMAIN dvTasks' : dvTasks'[s].of = a /\ DvLive(dvTasks'[s]) => dvTasks'[s].pc = "begin"
         /\ DvNoneReady(a)'
<1>1. ASSUME NEW s \in DOMAIN dvTasks', dvTasks'[s].of = a, DvLive(dvTasks'[s])
      PROVE  dvTasks'[s].pc = "begin"
  <2>1. CASE s \notin DOMAIN dvTasks
    BY <1>1, <2>1 DEF DvResets
  <2>2. CASE s \in DOMAIN dvTasks
    <3>1. DvStopChange(dvTasks[s], dvTasks'[s], DvStopped(s, a), s = dvQueue[1].by)
      BY <2>2 DEF DvResets
    <3>2. ~DvStopped(s, a)
      <4>1. SUFFICES ASSUME DvStopped(s, a) PROVE FALSE
        OBVIOUS
      <4>2. dvTasks'[s].cancelled \/ dvTasks'[s].pc = "cancelled"
        BY <3>1, <4>1, Zenon DEF DvStopChange
      <4>. QED
        BY <1>1, <4>2 DEF DvLive, DvEnds
    <3>3. dvTasks[s].of = a /\ dvTasks'[s].pc = dvTasks[s].pc
      BY <1>1, <3>1, <3>2 DEF DvStopChange
    <3>4. ~dvTasks[s].cancelled
      <4>1. dvTasks'[s].cancelled = (dvTasks[s].cancelled \/ DvStopped(s, a))
        BY <3>1, <3>2, Zenon DEF DvStopChange
      <4>. QED
        BY <1>1, <4>1, Zenon DEF DvLive
    <3>5. DvLive(dvTasks[s]) /\ s \notin dvAdded[a]
      BY <1>1, <3>2, <3>3, <3>4 DEF DvLive, DvStopped, DvOver, DvEnds
    <3>6. dvTasks[s].pc = "begin"
      BY <2>2, <3>3, <3>5 DEF DvPostedInv
    <3>. QED
      BY <3>3, <3>6
  <2>. QED
    BY <2>1, <2>2
<1>. QED
  BY <1>1 DEF DvNoneReady, DvReady

\* A reset of another tile makes no difference.
LEMMA DvResetElsewhere ==
  ASSUME DvTypes, DvCallsInv, NEW b \in DvAddresses, DvResets(b), NEW a, a # b
  PROVE  /\ \A s \in DOMAIN dvTasks : DvLive(dvTasks'[s]) => DvLive(dvTasks[s])
         /\ DvNoneReady(a) => DvNoneReady(a)'
<1>1. ASSUME NEW s \in DOMAIN dvTasks, DvLive(dvTasks'[s])
      PROVE  DvLive(dvTasks[s]) /\ dvTasks'[s].pc = dvTasks[s].pc /\ dvTasks'[s].of = dvTasks[s].of
             /\ dvTasks'[s].rpc = IF s = dvQueue[1].by THEN "answered" ELSE dvTasks[s].rpc
  <2>1. DvStopChange(dvTasks[s], dvTasks'[s], DvStopped(s, b), s = dvQueue[1].by)
    BY DEF DvResets
  <2>2. dvTasks'[s].pc # "cancelled" /\ ~dvTasks'[s].cancelled /\ dvTasks'[s].pc \notin DvEnds
    BY <1>1 DEF DvLive, DvEnds
  <2>3. dvTasks'[s].pc = dvTasks[s].pc /\ dvTasks'[s].cancelled = (dvTasks[s].cancelled \/ DvStopped(s, b))
    BY <2>1, <2>2, Zenon DEF DvStopChange
  <2>4. ~dvTasks[s].cancelled
    BY <2>2, <2>3, Zenon
  <2>. QED
    BY <2>1, <2>2, <2>3, <2>4 DEF DvStopChange, DvLive
<1>2. ASSUME DvNoneReady(a), NEW s \in DOMAIN dvTasks', dvTasks'[s].of = a, DvLive(dvTasks'[s]),
             dvTasks'[s].pc = "register", dvTasks'[s].rpc = "answered"
      PROVE  FALSE
  <2>1. s \in DOMAIN dvTasks
    BY <1>2 DEF DvResets
  <2>2. /\ DvLive(dvTasks[s]) /\ dvTasks[s].pc = "register" /\ dvTasks[s].of = a
        /\ dvTasks'[s].rpc = IF s = dvQueue[1].by THEN "answered" ELSE dvTasks[s].rpc
    BY <1>1, <1>2, <2>1
  <2>3. s = dvQueue[1].by
    BY <1>2, <2>1, <2>2 DEF DvNoneReady, DvReady
  <2>4. s \notin DvUsers /\ dvAlive /\ 1 \in DOMAIN dvQueue /\ dvQueue[1].kind = "reset"
    BY <2>1, DvUsersAreNoTasks DEF DvTypes, DvResets, DvTakesCall
  <2>5. DvMatches(dvQueue[1], dvTasks[s])
    BY <2>2, <2>3, <2>4, DvCallerAwaits
  <2>. QED
    BY <2>2, <2>4, <2>5 DEF DvMatches
<1>. QED
  BY <1>1, <1>2 DEF DvNoneReady, DvReady
\* A call that was not the first stays in the queue, a place further on.
LEMMA DvStraysMove ==
  ASSUME DvTypes, DvCallsInv, DvTakesCall, NEW n \in DOMAIN dvQueue', NEW a, NEW k \in 1 .. n
  PROVE  /\ dvQueue'[n] = dvQueue[n + 1] /\ n + 1 \in DOMAIN dvQueue
         /\ dvQueue'[k] = dvQueue[k + 1] /\ k + 1 \in DOMAIN dvQueue /\ k + 1 \in 1 .. n + 1 /\ 1 \in 1 .. n + 1
         /\ k \in DOMAIN dvQueue'
<1>1. dvQueue' \in Seq(DvCall) /\ dvQueue'[n] = dvQueue[n + 1] /\ n + 1 \in DOMAIN dvQueue
  BY DEF DvTakesCall
<1>2. n \in Nat /\ n >= 1 /\ DOMAIN dvQueue' = 1 .. Len(dvQueue') /\ Len(dvQueue') \in Nat
  BY <1>1
<1>3. k \in DOMAIN dvQueue' /\ k + 1 \in 1 .. n + 1 /\ 1 \in 1 .. n + 1
  BY <1>2
<1>4. dvQueue'[k] = dvQueue[k + 1] /\ k + 1 \in DOMAIN dvQueue
  BY <1>3 DEF DvTakesCall
<1>. QED
  BY <1>1, <1>3, <1>4

LEMMA DvStraysAnswer ==
  ASSUME DvTypes, DvTasksInv, DvCallsInv, DvStraysInv, DvSteps, NEW how \in {"answered", "refused"},
         DvAnswers(how), dvOvertaken' = dvOvertaken
  PROVE  DvStraysInv'
<1>1. /\ DvTakesCall /\ dvAlive /\ DvIsAnswered(dvTasks', dvTasks, dvQueue[1].by, how) /\ 1 \in DOMAIN dvQueue
      /\ ~ \E a \in DvAddresses : dvOvertaken' # dvOvertaken
  BY DEF DvAnswers, DvTakesCall
<1>. SUFFICES ASSUME dvAlive', NEW n \in DOMAIN dvQueue', dvQueue'[n].kind = "start",
                     dvTasks'[dvQueue'[n].by].pc = "cancelled",
                     NEW a, a = dvQueue'[n].to, a \notin dvOvertaken'
              PROVE  DvFull(a)' \/ DvUnready(a, n)'
  BY DEF DvStraysInv
<1>. DEFINE c == dvQueue[n + 1]
<1>2. dvQueue'[n] = c /\ n + 1 \in DOMAIN dvQueue /\ n \in Nat /\ a = c.to
  BY <1>1 DEF DvTakesCall
<1>3. c.by \in DOMAIN dvTasks /\ a \in DvAddresses
  <2>1. c \in DvCall
    BY <1>2 DEF DvTypes
  <2>. QED
    BY <1>1, <1>2, <2>1, DvCallerAwaits DEF DvCall
<1>4. dvTasks[c.by].pc = "cancelled"
  BY <1>1, <1>2, <1>3 DEF DvIsAnswered
<1>5. DvFull(a) \/ DvUnready(a, n + 1)
  BY <1>1, <1>2, <1>4 DEF DvStraysInv
<1>6. CASE DvFull(a)
  <2>2. DvFull(a)' \/ DvResets(a)
    BY <1>3, <1>6, DvFullStays
  <2>3. DOMAIN dvTasks' = DOMAIN dvTasks
    BY <1>1 DEF DvIsAnswered
  <2>4. ~DvResets(a)
    BY <2>3 DEF DvResets
  <2>. QED
    BY <1>2, <2>2, <2>4
<1>7. CASE DvUnready(a, n + 1)
  <2>1. DvNoneReady(a)'
    <3>1. 1 \in 1 .. n + 1
      BY <1>2
    <3>2. ~(dvQueue[1].kind = "register" /\ dvTasks[dvQueue[1].by].of = a
            /\ DvLive(dvTasks[dvQueue[1].by]))
      BY <1>7, <3>1 DEF DvUnready
    <3>. QED
      BY <1>7, <3>2, DvAnswersUnready DEF DvUnready
  <2>2. ASSUME NEW k \in 1 .. n, dvQueue'[k].kind = "register", dvTasks'[dvQueue'[k].by].of = a
        PROVE  ~DvLive(dvTasks'[dvQueue'[k].by])
    <3>1. dvQueue'[k] = dvQueue[k + 1] /\ k + 1 \in DOMAIN dvQueue /\ k + 1 \in 1 .. n + 1
      BY <1>1, DvStraysMove
    <3>2. dvQueue[k + 1].by \in DOMAIN dvTasks
      BY <1>1, <2>2, <3>1, DvCallerAwaits
    <3>3. ~DvLive(dvTasks[dvQueue[k + 1].by])
      BY <1>1, <1>7, <2>2, <3>1, <3>2 DEF DvUnready, DvIsAnswered
    <3>. QED
      BY <1>1, <3>1, <3>2, <3>3 DEF DvLive, DvIsAnswered
  <2>3. DvUnready(a, n)'
    BY <1>2, <2>1, <2>2 DEF DvUnready
  <2>. QED
    BY <1>2, <2>3
<1>. QED
  BY <1>5, <1>6, <1>7

LEMMA DvStraysReset ==
  ASSUME DvTypes, DvTasksInv, DvPostedInv, DvCallsInv, DvStraysInv, DvSteps, NEW b \in DvAddresses, DvResets(b)
  PROVE  DvStraysInv'
<1>1. DvTakesCall /\ dvAlive /\ dvOvertaken \subseteq dvOvertaken'
  BY DvOvertakenStays DEF DvResets, DvTakesCall
<1>. SUFFICES ASSUME dvAlive', NEW n \in DOMAIN dvQueue', dvQueue'[n].kind = "start",
                     dvTasks'[dvQueue'[n].by].pc = "cancelled",
                     NEW a, a = dvQueue'[n].to, a \notin dvOvertaken'
              PROVE  DvFull(a)' \/ DvUnready(a, n)'
  BY DEF DvStraysInv
<1>. DEFINE c == dvQueue[n + 1]
<1>2. dvQueue'[n] = c /\ n + 1 \in DOMAIN dvQueue /\ n \in Nat /\ a = c.to
  BY <1>1 DEF DvTakesCall
<1>3. c.by \in DOMAIN dvTasks /\ a \in DvAddresses
      /\ (DvMatches(c, dvTasks[c.by]) \/ dvTasks[c.by].pc = "cancelled")
  <2>1. c \in DvCall
    BY <1>2 DEF DvTypes
  <2>. QED
    BY <1>1, <1>2, <2>1, DvCallerAwaits DEF DvCall
<1>4. dvTasks[c.by].pc = "cancelled"
  <2>1. DvStopChange(dvTasks[c.by], dvTasks'[c.by], DvStopped(c.by, b), c.by = dvQueue[1].by)
    BY <1>3 DEF DvResets
  <2>2. dvTasks[c.by].pc # "configure"
    BY <1>2, <2>1 DEF DvStopChange
  <2>. QED
    BY <1>2, <1>3, <2>2 DEF DvMatches
<1>5. DvFull(a) \/ DvUnready(a, n + 1)
  BY <1>1, <1>2, <1>4 DEF DvStraysInv
<1>6. ASSUME NEW k \in 1 .. n, dvQueue'[k].kind = "register"
      PROVE  /\ dvQueue'[k] = dvQueue[k + 1] /\ k + 1 \in 1 .. n + 1
             /\ dvQueue[k + 1].by \in DOMAIN dvTasks /\ dvQueue[k + 1].by \in DOMAIN dvTasks'
             /\ dvTasks[dvQueue[k + 1].by].pc \in {"register", "cancelled"}
  <2>1. dvQueue'[k] = dvQueue[k + 1] /\ k + 1 \in DOMAIN dvQueue /\ k + 1 \in 1 .. n + 1
    BY <1>1, DvStraysMove
  <2>2. /\ dvQueue[k + 1].by \in DOMAIN dvTasks
        /\ DvMatches(dvQueue[k + 1], dvTasks[dvQueue[k + 1].by]) \/ dvTasks[dvQueue[k + 1].by].pc = "cancelled"
    BY <1>1, <1>6, <2>1, DvCallerAwaits
  <2>. QED
    BY <1>6, <2>1, <2>2 DEF DvMatches, DvResets
<1>7. CASE a = b
  <2>1. /\ \A s \in DOMAIN dvTasks' : dvTasks'[s].of = b /\ DvLive(dvTasks'[s]) => dvTasks'[s].pc = "begin"
        /\ DvNoneReady(b)'
    BY DvResetUnready
  <2>2. ASSUME NEW k \in 1 .. n, dvQueue'[k].kind = "register", dvTasks'[dvQueue'[k].by].of = b
        PROVE  ~DvLive(dvTasks'[dvQueue'[k].by])
    <3>. DEFINE s == dvQueue[k + 1].by
    <3>1. /\ dvQueue'[k].by = s /\ s \in DOMAIN dvTasks /\ s \in DOMAIN dvTasks'
          /\ dvTasks[s].pc \in {"register", "cancelled"}
      BY <1>6, <2>2
    <3>2. DvStopChange(dvTasks[s], dvTasks'[s], DvStopped(s, b), s = dvQueue[1].by)
      BY <3>1 DEF DvResets
    <3>3. dvTasks'[s].pc # "begin"
      BY <3>1, <3>2 DEF DvStopChange
    <3>. QED
      BY <2>1, <2>2, <3>1, <3>3
  <2>3. DvUnready(b, n)'
    BY <2>1, <2>2 DEF DvUnready
  <2>. QED
    BY <1>2, <1>7, <2>3
<1>8. CASE a # b
  <2>1. CASE DvFull(a)
    <3>1. dvConfig'[a] = dvConfig[a]
      BY <1>3, <1>8 DEF DvResets, DvTypes
    <3>. QED
      BY <1>2, <2>1, <3>1 DEF DvFull
  <2>2. CASE DvUnready(a, n + 1)
    <3>1. DvNoneReady(a)' /\ \A s \in DOMAIN dvTasks : DvLive(dvTasks'[s]) => DvLive(dvTasks[s])
      BY <1>8, <2>2, DvResetElsewhere DEF DvUnready
    <3>2. ASSUME NEW k \in 1 .. n, dvQueue'[k].kind = "register", dvTasks'[dvQueue'[k].by].of = a
          PROVE  ~DvLive(dvTasks'[dvQueue'[k].by])
      <4>. DEFINE s == dvQueue[k + 1].by
      <4>1. dvQueue'[k] = dvQueue[k + 1] /\ k + 1 \in 1 .. n + 1 /\ s \in DOMAIN dvTasks
        BY <1>6, <3>2
      <4>2. dvTasks'[s].of = dvTasks[s].of
        BY <4>1 DEF DvResets, DvStopChange
      <4>3. ~DvLive(dvTasks[s])
        BY <2>2, <3>2, <4>1, <4>2 DEF DvUnready
      <4>. QED
        BY <3>1, <4>1, <4>3
    <3>3. DvUnready(a, n)'
      BY <1>2, <3>1, <3>2 DEF DvUnready
    <3>. QED
      BY <1>2, <3>3
  <2>. QED
    BY <1>5, <2>1, <2>2
<1>. QED
  BY <1>7, <1>8

LEMMA DvStraysNext ==
  ASSUME DvTypes, DvTasksInv, DvPostedInv, DvCallsInv, DvWorkersInv, DvStraysInv, DvSteps
  PROVE  DvStraysInv'
<1>0. dvQueue \in Seq(DvCall) /\ DOMAIN dvQueue = 1 .. Len(dvQueue) /\ Len(dvQueue) \in Nat
  BY DEF DvTypes
<1>1. CASE DvQuietStep \/ DvAddTask
  <2>1. UNCHANGED <<dvQueue, dvConfig, dvTasks, dvOvertaken, dvAlive>>
    BY <1>1 DEF DvQuietStep, DvAddTask, DvStay, dvTileVars, dvPast, dvUserVars
  <2>. QED
    BY <2>1 DEF DvStraysInv, DvFull, DvUnready, DvNoneReady, DvReady
<1>2. CASE DvUserCallStep
  <2>1. UNCHANGED <<dvConfig, dvTasks, dvOvertaken, dvAlive>>
    BY <1>2 DEF DvUserCallStep, DvStay, dvTileVars, dvPast, dvUserVars
  <2>2. PICK c \in DvCall : c.kind \in {"reset", "echo"} /\ DvGrows(c)
    BY <1>0, <1>2, DvCallGrows DEF DvUserCallStep
  <2>. SUFFICES ASSUME dvAlive', NEW n \in DOMAIN dvQueue', dvQueue'[n].kind = "start",
                       dvTasks'[dvQueue'[n].by].pc = "cancelled",
                       NEW a, a = dvQueue'[n].to, a \notin dvOvertaken'
                PROVE  DvFull(a)' \/ DvUnready(a, n)'
    BY DEF DvStraysInv
  <2>3. n \in DOMAIN dvQueue /\ dvQueue'[n] = dvQueue[n]
    BY <2>2 DEF DvGrows
  <2>4. \A k \in 1 .. n : dvQueue'[k] = dvQueue[k]
    BY <1>0, <2>2, <2>3 DEF DvGrows
  <2>5. DvFull(dvQueue[n].to) \/ DvUnready(dvQueue[n].to, n)
    BY <2>1, <2>3 DEF DvStraysInv
  <2>. QED
    BY <2>1, <2>3, <2>4, <2>5 DEF DvFull, DvUnready, DvNoneReady, DvReady
<1>3. CASE DvDeferStep
  <2>1. DvTakesCall /\ UNCHANGED <<dvConfig, dvTasks, dvOvertaken, dvAlive>>
    BY <1>3 DEF DvDeferStep, DvStay, dvTileVars, dvPast, dvUserVars
  <2>. SUFFICES ASSUME dvAlive', NEW n \in DOMAIN dvQueue', dvQueue'[n].kind = "start",
                       dvTasks'[dvQueue'[n].by].pc = "cancelled",
                       NEW a, a = dvQueue'[n].to, a \notin dvOvertaken'
                PROVE  DvFull(a)' \/ DvUnready(a, n)'
    BY DEF DvStraysInv
  <2>2. dvQueue'[n] = dvQueue[n + 1] /\ n + 1 \in DOMAIN dvQueue
    BY <2>1 DEF DvTakesCall
  <2>3. \A k \in 1 .. n : dvQueue'[k] = dvQueue[k + 1] /\ k + 1 \in 1 .. n + 1
    BY <2>1, DvStraysMove
  <2>4. DvFull(dvQueue[n + 1].to) \/ DvUnready(dvQueue[n + 1].to, n + 1)
    BY <2>1, <2>2 DEF DvStraysInv
  <2>. QED
    BY <2>1, <2>2, <2>3, <2>4 DEF DvFull, DvUnready, DvNoneReady, DvReady
<1>4. CASE DvRefusedStep \/ DvStartCallStep \/ DvRegisterCallStep \/ DvConfigCallStep
  <2>1. dvOvertaken' = dvOvertaken /\ \E how \in {"answered", "refused"} : DvAnswers(how)
    BY <1>4 DEF DvRefusedStep, DvStartCallStep, DvRegisterCallStep, DvConfigCallStep, dvPast
  <2>. QED
    BY <2>1, DvStraysAnswer
<1>5. ASSUME NEW b \in DvAddresses, DvResets(b)
      PROVE  DvStraysInv'
  BY <1>5, DvStraysReset
<1>6. ASSUME NEW t \in DOMAIN dvTasks, DvTaskStep(t) \/ DvPostStep(t)
      PROVE  DvStraysInv'
  <2>1. dvConfig' = dvConfig /\ dvOvertaken' = dvOvertaken /\ dvAlive' = dvAlive
    BY <1>6, DvTaskKeeps
  <2>2. DvNotReadied(t)
    BY <1>6, DvTaskNotReadied
  <2>. SUFFICES ASSUME dvAlive', NEW n \in DOMAIN dvQueue', dvQueue'[n].kind = "start",
                       dvTasks'[dvQueue'[n].by].pc = "cancelled",
                       NEW a, a = dvQueue'[n].to, a \notin dvOvertaken'
                PROVE  DvFull(a)' \/ DvUnready(a, n)'
    BY DEF DvStraysInv
  \* What the task sends now is no stray.
  <2>3. n \in DOMAIN dvQueue /\ \A k \in 1 .. n : dvQueue'[k] = dvQueue[k]
    <3>1. CASE dvQueue' = dvQueue
      BY <3>1
    <3>2. ASSUME NEW c \in DvCall, DvGrows(c), DvCallOf(t, c)
          PROVE  n \in DOMAIN dvQueue /\ \A k \in 1 .. n : dvQueue'[k] = dvQueue[k]
      <4>1. n \in DOMAIN dvQueue
        BY <3>2 DEF DvCallOf, DvMatches, DvGrows
      <4>. QED
        BY <1>0, <3>2, <4>1 DEF DvGrows
    <3>3. CASE DvPostStep(t)
      BY <3>3 DEF DvPostStep
    <3>. QED
      BY <1>6, <3>1, <3>2, <3>3, DvTaskQueue
  <2>. DEFINE c == dvQueue[n]
  <2>4. dvQueue'[n] = c /\ a = c.to
    BY <1>0, <2>3
  <2>5. c.by \in DOMAIN dvTasks /\ (DvMatches(c, dvTasks[c.by]) \/ dvTasks[c.by].pc = "cancelled")
    BY <2>1, <2>3, <2>4, DvCallerAwaits
  <2>6. CASE DvFull(a)
    BY <2>1, <2>4, <2>6 DEF DvFull
  <2>7. CASE DvUnready(a, n)
    <3>1. DvNoneReady(a)'
      BY <2>2, <2>7, DvNoneReadied DEF DvUnready
    <3>2. ASSUME NEW k \in 1 .. n, dvQueue'[k].kind = "register", dvTasks'[dvQueue'[k].by].of = a
          PROVE  ~DvLive(dvTasks'[dvQueue'[k].by])
      <4>1. dvQueue'[k] = dvQueue[k] /\ k \in DOMAIN dvQueue
        BY <1>0, <2>3
      <4>2. dvQueue[k].by \in DOMAIN dvTasks
        BY <2>1, <3>2, <4>1, DvCallerAwaits
      <4>3. dvTasks'[dvQueue[k].by].of = dvTasks[dvQueue[k].by].of
        BY <2>2, <4>2 DEF DvNotReadied
      <4>4. ~DvLive(dvTasks[dvQueue[k].by])
        BY <2>7, <3>2, <4>1, <4>3 DEF DvUnready
      <4>. QED
        BY <2>2, <4>1, <4>2, <4>4 DEF DvNotReadied
    <3>3. DvUnready(a, n)'
      BY <2>4, <3>1, <3>2 DEF DvUnready
    <3>. QED
      BY <2>4, <3>3
  \* A worker that ends now has sent all that comes before START.
  <2>8. CASE dvTasks[c.by].pc # "cancelled"
    <3>1. c.by = t
      BY <2>2, <2>4, <2>5, <2>8 DEF DvNotReadied
    <3>2. dvTasks[t].pc = "configure" /\ dvTasks[t].entry = a /\ dvTasks[t].at = DvVars + 1
      BY <2>4, <2>5, <2>8, <3>1 DEF DvMatches
    <3>3. 1 .. (dvTasks[t].at - 1) \subseteq dvConfig[a]
      BY <2>1, <2>4, <3>2 DEF DvWorkersInv
    <3>4. dvTasks[t].at - 1 = DvVars
      BY <3>2, DvConstants
    <3>5. a \in DvAddresses
      <4>1. c \in DvCall
        BY <2>3 DEF DvTypes
      <4>. QED
        BY <2>4, <4>1 DEF DvCall
    <3>6. dvConfig[a] \subseteq 1 .. DvVars
      BY <3>5 DEF DvTypes
    <3>7. DvFull(a)
      BY <3>3, <3>4, <3>6 DEF DvFull
    <3>. QED
      BY <2>6, <3>7
  <2>. QED
    BY <2>1, <2>3, <2>4, <2>6, <2>7, <2>8 DEF DvStraysInv
<1>. QED
  BY <1>1, <1>2, <1>3, <1>4, <1>5, <1>6 DEF DvSteps
LEMMA DvStreamInit == DvInit => DvWorkersInv /\ DvStraysInv /\ DvStartedInv /\ DvConfigured
<1>. SUFFICES ASSUME DvInit PROVE DvWorkersInv /\ DvStraysInv /\ DvStartedInv /\ DvConfigured
  OBVIOUS
<1>1. /\ DOMAIN dvTasks = {1} /\ dvTasks[1] = DvTask(DvController, "main") /\ dvQueue = <<>>
      /\ \A a \in DvAddresses : ~dvInitialized[a] /\ ~dvStarted[a]
  BY DEF DvInit
<1>2. DvWorkersInv /\ DvStraysInv
  BY <1>1 DEF DvWorkersInv, DvStraysInv, DvTask
<1>3. DvStartedInv /\ DvConfigured
  BY <1>1, DvConstants DEF DvStartedInv, DvConfigured
<1>. QED
  BY <1>2, <1>3

\* START comes when all has been set, or is the end of the dispatcher.
LEMMA DvStartedNext ==
  ASSUME DvTypes, DvTasksInv, DvPostedInv, DvCallsInv, DvWorkersInv, DvStraysInv, DvStartedInv, DvSteps
  PROVE  DvStartedInv'
<1>. SUFFICES ASSUME NEW a \in DvPeripherals, dvStarted'[a], a \notin dvOvertaken'
              PROVE  DvFull(a)' \/ (~dvAlive' /\ DvNoneReady(a)')
  BY DEF DvStartedInv
<1>0. /\ a \in DvAddresses /\ a \notin dvOvertaken /\ (dvAlive' => dvAlive)
      /\ dvStarted \in [DvAddresses -> BOOLEAN] /\ dvConfig \in [DvAddresses -> SUBSET (1 .. DvVars)]
  BY DvConstants, DvOvertakenStays DEF DvTypes
<1>1. CASE DvQuietStep \/ DvUserCallStep \/ DvAddTask \/ DvDeferStep
  <2>1. UNCHANGED <<dvConfig, dvTasks, dvStarted, dvAlive>>
    BY <1>1 DEF DvQuietStep, DvUserCallStep, DvAddTask, DvDeferStep, DvStay, dvTileVars
  <2>. QED
    BY <1>0, <2>1 DEF DvStartedInv, DvFull, DvNoneReady, DvReady
<1>2. CASE DvRefusedStep \/ DvRegisterCallStep \/ DvConfigCallStep
  <2>1. dvStarted' = dvStarted /\ dvAlive /\ DOMAIN dvTasks' = DOMAIN dvTasks
    BY <1>2 DEF DvRefusedStep, DvRegisterCallStep, DvConfigCallStep, dvTileVars, DvAnswers, DvTakesCall, DvIsAnswered
  <2>2. DvFull(a)
    BY <1>0, <2>1 DEF DvStartedInv
  <2>3. ~DvResets(a)
    BY <2>1 DEF DvResets
  <2>. QED
    BY <1>0, <2>2, <2>3, DvFullStays
<1>3. CASE DvStartCallStep
  <2>. DEFINE c == dvQueue[1]
  <2>1. /\ DvAnswers("answered") /\ dvAlive /\ 1 \in DOMAIN dvQueue /\ c.kind = "start" /\ c \in DvCall
        /\ dvStarted' = [dvStarted EXCEPT ![c.to] = TRUE]
        /\ dvConfig' = dvConfig
    BY <1>3 DEF DvStartCallStep, DvAnswers, DvTakesCall, dvTileVars
  <2>2. CASE a # c.to
    <3>1. dvStarted[a]
      BY <1>0, <2>1, <2>2
    <3>. QED
      BY <1>0, <2>1, <3>1 DEF DvStartedInv, DvFull
  <2>3. CASE a = c.to
    <3>1. /\ c.by \in DOMAIN dvTasks
          /\ DvMatches(c, dvTasks[c.by]) \/ dvTasks[c.by].pc = "cancelled"
      BY <2>1, DvCallerAwaits
    <3>2. CASE dvTasks[c.by].pc = "cancelled"
      <4>1. DvFull(a) \/ DvUnready(a, 1)
        BY <1>0, <2>1, <2>3, <3>2 DEF DvStraysInv
      <4>2. CASE DvFull(a)
        BY <2>1, <4>2 DEF DvFull
      <4>3. CASE DvUnready(a, 1)
        <5>1. c.by \notin DvUsers
          BY <3>1, DvUsersAreNoTasks DEF DvTypes
        <5>2. ~dvAlive'
          BY <2>1, <3>2, <5>1 DEF DvAnswers
        <5>3. DvNoneReady(a)'
          BY <2>1, <4>3, DvAnswersUnready DEF DvUnready
        <5>. QED
          BY <5>2, <5>3
      <4>. QED
        BY <4>1, <4>2, <4>3
    <3>3. CASE DvMatches(c, dvTasks[c.by])
      <4>1. dvTasks[c.by].pc = "configure" /\ dvTasks[c.by].entry = a /\ dvTasks[c.by].at = DvVars + 1
        BY <2>1, <2>3, <3>3 DEF DvMatches
      <4>2. 1 .. (dvTasks[c.by].at - 1) \subseteq dvConfig[a]
        BY <1>0, <3>1, <4>1 DEF DvWorkersInv
      <4>3. dvTasks[c.by].at - 1 = DvVars
        BY <4>1, DvConstants
      <4>. QED
        BY <1>0, <2>1, <4>2, <4>3 DEF DvFull
    <3>. QED
      BY <3>1, <3>2, <3>3
  <2>. QED
    BY <2>2, <2>3
<1>4. ASSUME NEW b \in DvAddresses, DvResets(b)
      PROVE  DvFull(a)' \/ (~dvAlive' /\ DvNoneReady(a)')
  <2>1. dvAlive /\ dvStarted' = [dvStarted EXCEPT ![b] = FALSE] /\ dvConfig' = [dvConfig EXCEPT ![b] = {}]
    BY <1>4 DEF DvResets, DvTakesCall
  <2>2. a # b /\ dvStarted[a]
    BY <1>0, <2>1
  <2>. QED
    BY <1>0, <2>1, <2>2 DEF DvStartedInv, DvFull
<1>5. ASSUME NEW t \in DOMAIN dvTasks, DvTaskStep(t) \/ DvPostStep(t)
      PROVE  DvFull(a)' \/ (~dvAlive' /\ DvNoneReady(a)')
  <2>1. dvConfig' = dvConfig /\ dvStarted' = dvStarted /\ dvAlive' = dvAlive
    BY <1>5, DvTaskKeeps
  <2>2. DvNoneReady(a) => DvNoneReady(a)'
    BY <1>5, DvTaskNotReadied, DvNoneReadied
  <2>. QED
    BY <1>0, <2>1, <2>2 DEF DvStartedInv, DvFull
<1>. QED
  BY <1>1, <1>2, <1>3, <1>4, <1>5 DEF DvSteps

LEMMA DvConfiguredNext ==
  ASSUME DvTypes, DvTasksInv, DvPostedInv, DvCallsInv, DvStartedInv, DvConfigured, DvSteps
  PROVE  DvConfigured'
<1>. SUFFICES ASSUME NEW a \in DvPeripherals, dvInitialized'[a], a \notin dvOvertaken'
              PROVE  DvFull(a)'
  BY DEF DvConfigured, DvFull
<1>0. /\ a \in DvAddresses /\ a \notin dvOvertaken /\ a # DvController
      /\ dvInitialized \in [DvAddresses -> BOOLEAN]
  BY DvConstants, DvOvertakenStays DEF DvTypes
<1>1. ~DvResets(a)
  BY <1>0 DEF DvResets
<1>2. CASE dvInitialized[a]
  <2>1. DvFull(a)
    BY <1>0, <1>2 DEF DvConfigured, DvFull
  <2>. QED
    BY <1>0, <1>1, <2>1, DvFullStays
<1>3. CASE ~dvInitialized[a]
  <2>1. dvInitialized' # dvInitialized
    BY <1>3
  <2>2. \A b \in DvAddresses : ~DvResets(b)
    BY <1>0, <1>3 DEF DvResets
  <2>3. ~DvQuietStep /\ ~DvUserCallStep /\ ~DvAddTask /\ ~DvDeferStep
    BY <2>1 DEF DvQuietStep, DvUserCallStep, DvAddTask, DvDeferStep, DvStay, dvTileVars
  <2>4. ~DvRefusedStep /\ ~DvStartCallStep /\ ~DvRegisterCallStep /\ ~DvConfigCallStep
    BY <2>1 DEF DvRefusedStep, DvStartCallStep, DvRegisterCallStep, DvConfigCallStep, dvTileVars
  <2>5. PICK t \in DOMAIN dvTasks : DvTaskStep(t) \/ DvPostStep(t)
    BY <2>2, <2>3, <2>4 DEF DvSteps
  <2>6. DvAppStep(t)
    <3>1. ~DvPostStep(t)
      BY <2>1 DEF DvPostStep, dvTileVars
    <3>2. ~DvUpStep(t)
      BY <1>0, <1>3 DEF DvUpStep
    <3>3. ~DvCancelledStep(t) /\ ~DvRaisesStep(t) /\ ~DvClearStep(t) /\ ~DvFailsStep(t) /\ ~DvNextTileStep(t)
      BY <2>1 DEF DvCancelledStep, DvRaisesStep, DvClearStep, DvFailsStep, DvNextTileStep
    <3>4. ~DvReadyStep(t) /\ ~DvGetStep(t) /\ ~DvDoneStep(t) /\ ~DvConfigStep(t) /\ ~DvRegisterStep(t)
      BY <2>1 DEF DvReadyStep, DvGetStep, DvDoneStep, DvConfigStep, DvRegisterStep
    <3>. QED
      BY <2>5, <3>1, <3>2, <3>3, <3>4 DEF DvTaskStep
  <2>7. /\ dvTasks[t].of = a /\ dvStarted[a] /\ dvConfig' = dvConfig
        /\ dvTasks[t].pc = "register" /\ dvTasks[t].rpc = "answered" /\ DvLive(dvTasks[t])
    <3>1. dvInitialized' = [dvInitialized EXCEPT ![dvTasks[t].of] = TRUE]
      BY <2>6 DEF DvAppStep
    <3>2. dvTasks[t].of = a
      BY <1>0, <1>3, <3>1
    <3>. QED
      BY <2>6, <3>2 DEF DvAppStep, DvSame, DvRuns, DvLive, DvOver, DvEnds
  <2>8. ~DvNoneReady(a)
    BY <2>7 DEF DvNoneReady, DvReady
  <2>9. DvFull(a)
    BY <1>0, <2>7, <2>8 DEF DvStartedInv
  <2>. QED
    BY <2>7, <2>9 DEF DvFull
<1>. QED
  BY <1>2, <1>3

-----------------------------------------------------------------------------
(* The invariant of resets, and what is proved. *)

LEMMA DvInvInit == DvInit => DvInv
BY DvTypesInit, DvTasksInit, DvPostedInit, DvCallsInit, DvCalmInit, DvExactInit, DvStreamInit DEF DvInv

LEMMA DvInvNext == DvInv /\ [DvNext]_dvVars => DvInv'
<1>. SUFFICES ASSUME DvInv, [DvNext]_dvVars PROVE DvInv'
  OBVIOUS
<1>1. DvSteps
  BY DvStepsAre DEF DvInv
<1>2. DvTypes' /\ DvTasksInv' /\ DvCallsInv' /\ DvCallsOnce'
  BY <1>1, DvTypesNext, DvTasksNext, DvCallsNext, DvOnceNext DEF DvInv
<1>3. DvPostedInv' /\ DvUnfinishedIsExact' /\ DvCalmInv'
  BY <1>1, <1>2, DvPostedNext, DvExactNext, DvCalmNext DEF DvInv
<1>4. DvWorkersInv' /\ DvStraysInv' /\ DvStartedInv' /\ DvConfigured'
  BY <1>1, DvWorkersNext, DvStraysNext, DvStartedNext, DvConfiguredNext DEF DvInv
<1>. QED
  BY <1>2, <1>3, <1>4 DEF DvInv

LEMMA DvInvOrderly == DvInv => DvResetsAreOrderly
BY DEF DvInv, DvResetsAreOrderly, DvCalmInv, DvCalm, DvDiesOfHaste

\* Resets are orderly, for every device: the dispatcher dies of no reset that waits until
\* all is up and idle, the queue of the tile manager counts its work exactly, and a tile
\* that runs has got all its config variables, unless it was reset while they were sent
\* (RPCQueue._rpc_dispatch_task, TileManagerState, EmulatedPeripheralTile._reset_vector).
THEOREM ResetsAreOrderly == DvSpec => []DvResetsAreOrderly
<1>1. DvSpec => []DvInv
  BY DvInvInit, DvInvNext, PTL DEF DvSpec
<1>. QED
  BY <1>1, DvInvOrderly, PTL

==============================================================================

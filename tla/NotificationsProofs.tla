------------------------- MODULE NotificationsProofs -------------------------
(***************************************************************************)
(* Notifications and messages, proved for all devices, monitors, kinds of  *)
(* messages, waiters and threads.                                          *)
(*                                                                         *)
(* Notifications: a notification that has outlived no other still walks    *)
(* the dictionaries it found, because the flag it set is still set, so     *)
(* that whom it owes a call is still ahead of it.                          *)
(*                                                                         *)
(* Device server: who is listed once all that is held back is applied      *)
(* changes alike whether a command adjusts monitors now or later, and each *)
(* coroutine knows where it stands between the tables it reads and writes. *)
(***************************************************************************)
EXTENDS DeviceServer, OperationManager, SequenceTheorems, FiniteSetTheorems, TLAPS

\* What the device server hooks, whether the adapter supports it or not.
ServerEvents == AllDeviceEvents \cup {"device_seen", "broadcast"}

Adjustments ==
    [handle : Handles, kind : {"add", "remove", "delete"},
     devices : SUBSET (Devices \cup {AnyDevice}), events : SUBSET (Events \cup ServerEvents)]

\* A walk is where _notify_event_internal stands in one or two dictionaries.
IsWalk(it) ==
    /\ it = [dicts |-> it.dicts, size |-> it.size, called |-> it.called, owed |-> it.owed,
             outlives |-> it.outlives]
    /\ it.dicts \in Seq(Slots \cup {Gone}) /\ Len(it.dicts) \in 1 .. 2

\* The dictionary it is in has its size still, and whom it owes a call is ahead of it.
MissesNobody(it) ==
    /\ it.size = Cardinality(Dict(it.dicts[1]))
    /\ \A o \in it.owed :
        \/ o \in {3 - Len(it.dicts)} \X Left(it)
        \/ Len(it.dicts) = 2 /\ o \in {2} \X Dict(it.dicts[2])

Walks ==
    \A n \in DOMAIN notifier :
        /\ IsWalk(notifier[n])
        /\ ~notifier[n].outlives => notifying /\ MissesNobody(notifier[n])

\* Inductive.
NInv ==
    /\ deferred \in Seq(Adjustments)
    /\ notifying \in BOOLEAN
    /\ NothingStranded
    /\ Walks

-----------------------------------------------------------------------------
(* Walks. *)

LEMMA NewWalk ==
  ASSUME NEW d \in Devices, NEW e \in Events
  PROVE  LET it == NewNotifier(d, e) IN IsWalk(it) /\ MissesNobody(it) /\ ~it.outlives
<1> DEFINE dicts == <<Lookup(<<d, e>>), Lookup(<<AnyDevice, e>>)>>
           it == NewNotifier(d, e)
<1>1. <<d, e>> \in Slots /\ <<AnyDevice, e>> \in Slots
  BY DEF Slots
<1>2. dicts \in Seq(Slots \cup {Gone}) /\ Len(dicts) = 2
  BY <1>1 DEF Lookup
<1>3. /\ it.dicts = dicts /\ it.size = Cardinality(Dict(dicts[1])) /\ it.called = {}
      /\ it.owed = ({1} \X Dict(dicts[1])) \cup ({2} \X Dict(dicts[2]))
      /\ it.outlives = FALSE
      /\ it = [dicts |-> it.dicts, size |-> it.size, called |-> it.called, owed |-> it.owed,
               outlives |-> it.outlives]
  BY DEF NewNotifier
<1> HIDE DEF dicts, it
<1>4. IsWalk(it)
  BY <1>2, <1>3 DEF IsWalk
<1>5. Left(it) = Dict(it.dicts[1]) /\ 3 - Len(it.dicts) = 1
  <2>1. Left(it) = Dict(it.dicts[1]) \ {}
    BY <1>3 DEF Left
  <2>2. Len(it.dicts) = 2
    BY <1>2, <1>3
  <2> QED
    BY <2>1, <2>2
<1>6. MissesNobody(it)
  BY <1>2, <1>3, <1>5 DEF MissesNobody
<1> QED
  BY <1>3, <1>4, <1>6 DEF it

LEMMA WalkGoesOn ==
  ASSUME NEW it, IsWalk(it)
  PROVE  /\ IsWalk(Walk(it)) /\ Walk(it).outlives = it.outlives
         /\ MissesNobody(it) => MissesNobody(Walk(it))
         /\ MissesNobody(it) /\ Left(Walk(it)) = {} => it.owed = {}
<1> DEFINE next == [dicts |-> Tail(it.dicts), size |-> Cardinality(Dict(it.dicts[2])), called |-> {},
                    owed |-> it.owed, outlives |-> it.outlives]
<1>1. CASE Exhausted(it) /\ Len(it.dicts) = 2
  <2>1. it.dicts \in Seq(Slots \cup {Gone}) /\ Len(it.dicts) = 2
    BY <1>1 DEF IsWalk
  <2>2. Tail(it.dicts) \in Seq(Slots \cup {Gone}) /\ Len(Tail(it.dicts)) = 1 /\ Tail(it.dicts)[1] = it.dicts[2]
    BY <2>1
  <2>3. NextDict(it) = next
    <3>1. PICK d, s, c, o, v : it = [dicts |-> d, size |-> s, called |-> c, owed |-> o, outlives |-> v]
      BY DEF IsWalk
    <3>2. it.dicts = d /\ it.owed = o /\ it.outlives = v
      BY <3>1
    <3>3. NextDict(it) = [[[it EXCEPT !.dicts = Tail(it.dicts)] EXCEPT !.size = Cardinality(Dict(it.dicts[2]))]
                             EXCEPT !.called = {}]
      BY Zenon DEF NextDict
    <3> DEFINE x == Tail(it.dicts)  y == Cardinality(Dict(it.dicts[2]))
    <3> HIDE DEF x, y
    <3>4. [[[it EXCEPT !.dicts = x] EXCEPT !.size = y] EXCEPT !.called = {}]
            = [dicts |-> x, size |-> y, called |-> {}, owed |-> o, outlives |-> v]
      <4>1. [it EXCEPT !.dicts = x] = [dicts |-> x, size |-> s, called |-> c, owed |-> o, outlives |-> v]
        BY <3>1
      <4>2. [[dicts |-> x, size |-> s, called |-> c, owed |-> o, outlives |-> v] EXCEPT !.size = y]
              = [dicts |-> x, size |-> y, called |-> c, owed |-> o, outlives |-> v]
        OBVIOUS
      <4>3. [[dicts |-> x, size |-> y, called |-> c, owed |-> o, outlives |-> v] EXCEPT !.called = {}]
              = [dicts |-> x, size |-> y, called |-> {}, owed |-> o, outlives |-> v]
        OBVIOUS
      <4> QED
        BY <4>1, <4>2, <4>3, Zenon
    <3>5. Tail(it.dicts) = x /\ Cardinality(Dict(it.dicts[2])) = y
      BY DEF x, y
    <3>6. NextDict(it) = [dicts |-> x, size |-> y, called |-> {}, owed |-> o, outlives |-> v]
      BY <3>3, <3>4, <3>5, Zenon
    <3> QED
      BY <3>2, <3>5, <3>6, Zenon
  <2>4. Walk(it) = next
    BY <1>1, <2>3 DEF Walk
  <2>5. /\ Walk(it).dicts = Tail(it.dicts) /\ Walk(it).size = Cardinality(Dict(it.dicts[2]))
        /\ Walk(it).called = {} /\ Walk(it).owed = it.owed /\ Walk(it).outlives = it.outlives
        /\ Walk(it) = [dicts |-> Walk(it).dicts, size |-> Walk(it).size, called |-> Walk(it).called,
                       owed |-> Walk(it).owed, outlives |-> Walk(it).outlives]
    BY <2>4
  <2>6. IsWalk(Walk(it))
    BY <2>2, <2>5 DEF IsWalk
  <2>7. Left(Walk(it)) = Dict(it.dicts[2]) /\ 3 - Len(Walk(it).dicts) = 2
    BY <2>2, <2>5 DEF Left
  <2>8. Left(it) = {}
    BY <1>1 DEF Exhausted
  <2>9. ASSUME MissesNobody(it) PROVE \A o \in it.owed : o \in {2} \X Dict(it.dicts[2])
    BY <2>8, <2>9 DEF MissesNobody
  <2>10. MissesNobody(it) => MissesNobody(Walk(it))
    BY <2>2, <2>5, <2>7, <2>9 DEF MissesNobody
  <2> QED
    BY <2>5, <2>6, <2>7, <2>9, <2>10
<1>2. CASE ~(Exhausted(it) /\ Len(it.dicts) = 2)
  <2>1. Walk(it) = it
    BY <1>2 DEF Walk
  <2>2. ASSUME MissesNobody(it), Left(it) = {} PROVE it.owed = {}
    <3>1. Exhausted(it)
      BY <2>2 DEF Exhausted, Broken, MissesNobody
    <3> QED
      BY <1>2, <2>2, <3>1 DEF MissesNobody
  <2> QED
    BY <2>1, <2>2
<1> QED
  BY <1>1, <1>2

LEMMA CallGoesOn ==
  ASSUME NEW it, IsWalk(it), NEW h \in Left(it)
  PROVE  /\ IsWalk(Called(it, h)) /\ Called(it, h).outlives = it.outlives
         /\ MissesNobody(it) => MissesNobody(Called(it, h))
<1> DEFINE r == [dicts |-> it.dicts, size |-> it.size, called |-> it.called \cup {h},
                 owed |-> it.owed \ {<<3 - Len(it.dicts), h>>}, outlives |-> it.outlives]
<1>1. Called(it, h) = r
  <2>1. PICK d, s, c, o, v : it = [dicts |-> d, size |-> s, called |-> c, owed |-> o, outlives |-> v]
    BY DEF IsWalk
  <2>2. it.dicts = d /\ it.size = s /\ it.called = c /\ it.owed = o /\ it.outlives = v
    BY <2>1
  <2> DEFINE x == c \cup {h}  y == o \ {<<3 - Len(d), h>>}
  <2> HIDE DEF x, y
  <2>3. [[it EXCEPT !.called = x] EXCEPT !.owed = y]
          = [dicts |-> d, size |-> s, called |-> x, owed |-> y, outlives |-> v]
    <3>1. [it EXCEPT !.called = x] = [dicts |-> d, size |-> s, called |-> x, owed |-> o, outlives |-> v]
      BY <2>1
    <3>2. [[dicts |-> d, size |-> s, called |-> x, owed |-> o, outlives |-> v] EXCEPT !.owed = y]
            = [dicts |-> d, size |-> s, called |-> x, owed |-> y, outlives |-> v]
      OBVIOUS
    <3> QED
      BY <3>1, <3>2, Zenon
  <2>4. Called(it, h) = [[it EXCEPT !.called = it.called \cup {h}]
                            EXCEPT !.owed = it.owed \ {<<3 - Len(it.dicts), h>>}]
    BY Zenon DEF Called
  <2>5. it.called \cup {h} = x /\ it.owed \ {<<3 - Len(it.dicts), h>>} = y
    BY <2>2 DEF x, y
  <2>6. Called(it, h) = [dicts |-> d, size |-> s, called |-> x, owed |-> y, outlives |-> v]
    BY <2>3, <2>4, <2>5, Zenon
  <2> QED
    BY <2>2, <2>5, <2>6, Zenon
<1>2. /\ Called(it, h).dicts = it.dicts /\ Called(it, h).size = it.size
      /\ Called(it, h).called = it.called \cup {h} /\ Called(it, h).outlives = it.outlives
      /\ Called(it, h).owed = it.owed \ {<<3 - Len(it.dicts), h>>}
      /\ Called(it, h) = [dicts |-> Called(it, h).dicts, size |-> Called(it, h).size,
               called |-> Called(it, h).called, owed |-> Called(it, h).owed,
               outlives |-> Called(it, h).outlives]
  BY <1>1
<1>3. IsWalk(Called(it, h))
  BY <1>2 DEF IsWalk
<1>4. Left(Called(it, h)) = Left(it) \ {h}
  BY <1>2 DEF Left
<1>5. ASSUME MissesNobody(it) PROVE MissesNobody(Called(it, h))
  <2>1. Called(it, h).size = Cardinality(Dict(Called(it, h).dicts[1]))
    BY <1>2, <1>5 DEF MissesNobody
  <2>2. ASSUME NEW o \in Called(it, h).owed
        PROVE  \/ o \in {3 - Len(it.dicts)} \X (Left(it) \ {h})
               \/ Len(it.dicts) = 2 /\ o \in {2} \X Dict(it.dicts[2])
    <3>1. o \in it.owed /\ o # <<3 - Len(it.dicts), h>>
      BY <1>2
    <3>2. \/ o \in {3 - Len(it.dicts)} \X Left(it)
          \/ Len(it.dicts) = 2 /\ o \in {2} \X Dict(it.dicts[2])
      BY <1>5, <3>1 DEF MissesNobody
    <3> QED
      BY <3>1, <3>2
  <2> QED
    BY <1>2, <1>4, <2>1, <2>2 DEF MissesNobody
<1> QED
  BY <1>2, <1>3, <1>5

\* A dictionary that is dropped is walked on, as nobody's.
LEMMA OrphanWalks ==
  ASSUME NEW it, IsWalk(it), NEW dropped
  PROVE  LET orphan == [it EXCEPT !.dicts = [i \in DOMAIN @ |-> IF @[i] \in dropped THEN Gone ELSE @[i]]]
         IN  IsWalk(orphan) /\ orphan.outlives = it.outlives
<1> DEFINE orphan == [it EXCEPT !.dicts = [i \in DOMAIN @ |-> IF @[i] \in dropped THEN Gone ELSE @[i]]]
           x == [i \in DOMAIN it.dicts |-> IF it.dicts[i] \in dropped THEN Gone ELSE it.dicts[i]]
<1>1. it.dicts \in Seq(Slots \cup {Gone}) /\ Len(it.dicts) \in 1 .. 2
  BY DEF IsWalk
<1>2. x \in Seq(Slots \cup {Gone}) /\ Len(x) = Len(it.dicts)
  BY <1>1
<1>3. orphan = [it EXCEPT !.dicts = x]
  BY Zenon
<1> HIDE DEF x, orphan
<1>4. PICK d, s, c, o, v : it = [dicts |-> d, size |-> s, called |-> c, owed |-> o, outlives |-> v]
  BY DEF IsWalk
<1>5. [it EXCEPT !.dicts = x] = [dicts |-> x, size |-> s, called |-> c, owed |-> o, outlives |-> v]
  BY <1>4
<1>6. orphan = [dicts |-> x, size |-> s, called |-> c, owed |-> o, outlives |-> v]
  BY <1>3, <1>5, Zenon
<1>7. IsWalk(orphan)
  BY <1>1, <1>2, <1>6 DEF IsWalk
<1>8. orphan.outlives = it.outlives
  BY <1>4, <1>6
<1> QED
  BY <1>7, <1>8 DEF orphan

LEMMA SurvivorWalks ==
  ASSUME NEW it, IsWalk(it)
  PROVE  IsWalk([it EXCEPT !.outlives = TRUE]) /\ [it EXCEPT !.outlives = TRUE].outlives = TRUE
<1> DEFINE survivor == [it EXCEPT !.outlives = TRUE]
<1>1. PICK d, s, c, o, v : it = [dicts |-> d, size |-> s, called |-> c, owed |-> o, outlives |-> v]
  BY DEF IsWalk
<1>2. survivor = [dicts |-> d, size |-> s, called |-> c, owed |-> o, outlives |-> TRUE]
  <2> DEFINE b == TRUE
  <2> HIDE DEF b
  <2>1. [it EXCEPT !.outlives = b] = [dicts |-> d, size |-> s, called |-> c, owed |-> o, outlives |-> b]
    BY <1>1
  <2> QED
    BY <2>1, Zenon DEF b
<1>3. it.dicts = d
  BY <1>1
<1> QED
  BY <1>2, <1>3 DEF IsWalk

-----------------------------------------------------------------------------
(* Steps. *)

\* A callback is called, with the flag set or, after another notification, clear.
LEMMA CallKeeps ==
  ASSUME NInv, NEW n \in Notifiers, NEW it, IsWalk(it), CallNext(n, it),
         ~it.outlives => MissesNobody(it),
         notifying' \in BOOLEAN, notifying => notifying', ~it.outlives => notifying'
  PROVE  NInv' /\ DOMAIN notifier \subseteq DOMAIN notifier'
<1>1. PICK h \in Left(it) :
        notifier' = [m \in DOMAIN notifier \cup {n} |-> IF m = n THEN Called(it, h) ELSE notifier[m]]
  BY DEF CallNext
<1>2. monitors' = monitors /\ deferred' = deferred
  BY DEF CallNext
<1>3. DOMAIN notifier' = DOMAIN notifier \cup {n}
  BY <1>1
<1>4. ASSUME NEW m \in DOMAIN notifier'
      PROVE  IsWalk(notifier'[m]) /\ (~notifier'[m].outlives => notifying' /\ MissesNobody(notifier'[m]))
  <2>2. CASE m = n
    <3>1. notifier'[m] = Called(it, h)
      BY <1>1, <2>2
    <3>2. /\ IsWalk(Called(it, h)) /\ Called(it, h).outlives = it.outlives
          /\ MissesNobody(it) => MissesNobody(Called(it, h))
      BY CallGoesOn
    <3> QED
      BY <3>1, <3>2
  <2>3. CASE m # n
    <3>1. m \in DOMAIN notifier /\ notifier'[m] = notifier[m]
      BY <1>1, <1>3, <2>3
    <3>2. IsWalk(notifier[m]) /\ (~notifier[m].outlives => notifying /\ MissesNobody(notifier[m]))
      BY <3>1 DEF NInv, Walks
    <3> QED
      BY <3>1, <3>2
  <2> QED
    BY <2>2, <2>3
<1>5. Walks'
  BY <1>2, <1>4 DEF Walks, IsWalk, MissesNobody, Left, Dict
<1>6. deferred' \in Seq(Adjustments) /\ notifying' \in BOOLEAN
  BY <1>2 DEF NInv
<1>7. NothingStranded'
  BY <1>2, <1>3 DEF NInv, NothingStranded
<1> QED
  BY <1>3, <1>5, <1>6, <1>7 DEF NInv

\* The finally clause, of n or of a notification that has nobody to call.
LEMMA EndKeeps ==
  ASSUME NInv, NEW n \in Notifiers, End(n)
  PROVE  /\ NInv' /\ DOMAIN notifier' = DOMAIN notifier \ {n}
         /\ deferred' = <<>> /\ monitors' = Listed /\ asked' = asked
<1>1. /\ notifier' = Orphaned(Without(n), Adjusted(deferred).dropped)
      /\ deferred' = <<>> /\ notifying' = FALSE /\ monitors' = Adjusted(deferred).monitors
  BY DEF End, ApplyTo
<1> DEFINE dropped == Adjusted(deferred).dropped
<1> HIDE DEF dropped
<1>2. notifier' = Orphaned(Without(n), dropped)
  BY <1>1 DEF dropped
<1>3. DOMAIN Without(n) = DOMAIN notifier \ {n}
  BY DEF Without
<1>4. DOMAIN notifier' = DOMAIN notifier \ {n}
  BY <1>2, <1>3 DEF Orphaned
<1>5. ASSUME NEW m \in DOMAIN notifier' PROVE IsWalk(notifier'[m]) /\ notifier'[m].outlives = TRUE
  <2> DEFINE it == Without(n)[m]
  <2>1. m \in DOMAIN notifier /\ m \in DOMAIN Without(n)
    BY <1>3, <1>4
  <2>2. it = [notifier[m] EXCEPT !.outlives = TRUE]
    BY <1>3, <2>1 DEF Without
  <2>3. IsWalk(notifier[m])
    BY <2>1 DEF NInv, Walks
  <2>4. IsWalk(it) /\ it.outlives = TRUE
    BY <2>2, <2>3, SurvivorWalks
  <2>5. notifier'[m] = [it EXCEPT !.dicts = [i \in DOMAIN @ |-> IF @[i] \in dropped THEN Gone ELSE @[i]]]
    BY <1>2, <2>1 DEF Orphaned
  <2> HIDE DEF it
  <2> QED
    BY <2>4, <2>5, OrphanWalks
<1>6. Walks'
  BY <1>5 DEF Walks, IsWalk
<1>7. monitors' = Listed
  BY <1>1, Zenon DEF Listed
<1>8. deferred' = <<>> /\ notifying' = FALSE
  BY <1>1
<1>9. NothingStranded'
  BY <1>8 DEF NothingStranded
<1>10. deferred' \in Seq(Adjustments)
  BY <1>8
<1>11. notifying' \in BOOLEAN
  BY <1>8, Zenon
<1>12. asked' = asked
  BY DEF End
<1> QED
  BY <1>4, <1>6, <1>7, <1>8, <1>9, <1>10, <1>11, <1>12 DEF NInv

\* register_monitor, adjust_monitor and remove_monitor.
LEMMA AdjustKeeps ==
  ASSUME NInv, NEW actions \in Seq(Adjustments), NEW registered, Adjust(actions, registered)
  PROVE  NInv' /\ DOMAIN notifier' = DOMAIN notifier
<1>0. deferred \in Seq(Adjustments)
  BY DEF NInv
<1>1. CASE notifying
  <2>1. deferred' = deferred \o actions /\ UNCHANGED <<monitors, notifying, notifier>>
    BY <1>1 DEF Adjust
  <2>2. deferred' \in Seq(Adjustments)
    BY <1>0, <2>1
  <2>3. Walks'
    BY <2>1 DEF NInv, Walks, IsWalk, MissesNobody, Left, Dict
  <2>4. NothingStranded' /\ notifying' \in BOOLEAN
    BY <1>1, <2>1 DEF NInv, NothingStranded
  <2> QED
    BY <1>0, <2>1, <2>2, <2>3, <2>4 DEF NInv
<1>2. CASE ~notifying
  <2> DEFINE dropped == Adjusted(actions).dropped
  <2> HIDE DEF dropped
  <2>1. notifier' = Orphaned(notifier, dropped) /\ UNCHANGED <<notifying, deferred>>
    BY <1>2 DEF Adjust, ApplyTo, dropped
  <2>2. DOMAIN notifier' = DOMAIN notifier
    BY <2>1 DEF Orphaned
  <2>3. ASSUME NEW m \in DOMAIN notifier' PROVE IsWalk(notifier'[m]) /\ notifier'[m].outlives = notifier[m].outlives
    <3> DEFINE it == notifier[m]
    <3>1. IsWalk(it)
      BY <2>2 DEF NInv, Walks
    <3>2. notifier'[m] = [it EXCEPT !.dicts = [i \in DOMAIN @ |-> IF @[i] \in dropped THEN Gone ELSE @[i]]]
      BY <2>1, <2>2 DEF Orphaned
    <3> HIDE DEF it
    <3>3. PICK orphan : orphan = [it EXCEPT !.dicts = [i \in DOMAIN @ |-> IF @[i] \in dropped THEN Gone ELSE @[i]]]
      OBVIOUS
    <3>4. IsWalk(orphan) /\ orphan.outlives = it.outlives
      BY <3>1, <3>3, OrphanWalks
    <3>5. notifier'[m] = orphan
      BY <3>2, <3>3
    <3> QED
      BY <3>4, <3>5 DEF it
  <2>4. \A m \in DOMAIN notifier : notifier[m].outlives
    BY <1>2 DEF NInv, Walks
  <2>5. Walks'
    BY <2>2, <2>3, <2>4 DEF Walks, IsWalk
  <2> QED
    BY <1>0, <1>2, <2>1, <2>2, <2>5 DEF NInv, NothingStranded
<1> QED
  BY <1>1, <1>2 DEF NInv

LEMMA NInitInv == Init => NInv
<1> SUFFICES ASSUME Init PROVE NInv
  OBVIOUS
<1>1. deferred = <<>> /\ notifying = FALSE /\ notifier = <<>>
  BY DEF Init
<1>2. DOMAIN notifier = {}
  BY <1>1
<1>3. deferred \in Seq(Adjustments)
  BY <1>1
<1>4. notifying \in BOOLEAN
  BY <1>1, Zenon
<1> QED
  BY <1>1, <1>2, <1>3, <1>4 DEF NInv, NothingStranded, Walks

LEMMA AdjustmentIs ==
  \A h \in Handles, k \in {"add", "remove", "delete"}, D \in SUBSET (Devices \cup {AnyDevice}), V \in SUBSET Events :
     Adjustment(h, k, D, V) \in Adjustments
  BY DEF Adjustment, Adjustments

\* What a step may do: notifications end by their finally clause only.
LEMMA NStep ==
  ASSUME NInv, [Next]_notificationVars
  PROVE  /\ NInv'
         /\ \A n \in DOMAIN notifier \ DOMAIN notifier' : ~notifier[n].outlives => notifier[n].owed = {}
<1> DEFINE Goal ==
      /\ NInv'
      /\ \A n \in DOMAIN notifier \ DOMAIN notifier' : ~notifier[n].outlives => notifier[n].owed = {}
<1>1. ASSUME NEW a \in Adjustments, NEW registered, Adjust(<<a>>, registered) PROVE Goal
  <2>0. <<a>> \in Seq(Adjustments)
    OBVIOUS
  <2>1. NInv' /\ DOMAIN notifier' = DOMAIN notifier
    BY <1>1, <2>0, AdjustKeeps
  <2> QED
    BY <2>1
<1>2. ASSUME NEW n \in Notifiers, NEW it, IsWalk(it), CallNext(n, it), ~it.outlives => MissesNobody(it),
             notifying' \in BOOLEAN, notifying => notifying', ~it.outlives => notifying'
      PROVE  Goal
  <2>1. NInv' /\ DOMAIN notifier \subseteq DOMAIN notifier'
    BY <1>2, CallKeeps
  <2> QED
    BY <2>1
<1>3. ASSUME NEW n \in Notifiers, End(n),
             n \in DOMAIN notifier => (~notifier[n].outlives => notifier[n].owed = {})
      PROVE  Goal
  <2>1. NInv' /\ DOMAIN notifier' = DOMAIN notifier \ {n}
    BY <1>3, EndKeeps
  <2> QED
    BY <1>3, <2>1
<1>4. CASE UNCHANGED notificationVars
  <2>1. NInv'
    BY <1>4 DEF notificationVars, NInv, NothingStranded, Walks, IsWalk, MissesNobody, Left, Dict
  <2> QED
    BY <1>4, <2>1 DEF notificationVars
<1> HIDE DEF Goal
<1>5. ASSUME NEW h \in Handles, NEW D \in SUBSET (Devices \cup {AnyDevice}), NEW V \in SUBSET Events,
             RegisterMonitor(h, D, V)
      PROVE  Goal
  BY <1>1, <1>5, AdjustmentIs DEF RegisterMonitor
<1>6. ASSUME NEW h \in Handles, NEW k \in {"add", "remove"}, NEW s \in Slots,
             AdjustMonitorAction(h, k, s[1], s[2])
      PROVE  Goal
  <2>1. {s[1]} \in SUBSET (Devices \cup {AnyDevice}) /\ {s[2]} \in SUBSET Events
    BY DEF Slots
  <2> QED
    BY <1>1, <1>6, <2>1, AdjustmentIs DEF AdjustMonitorAction
<1>7. ASSUME NEW h \in Handles, RemoveMonitorAction(h) PROVE Goal
  BY <1>1, <1>7, AdjustmentIs DEF RemoveMonitorAction
<1>8. ASSUME NEW n \in Notifiers, NEW d \in Devices, NEW e \in Events, Begin(n, d, e) PROVE Goal
  <2> DEFINE new == NewNotifier(d, e)
             it == Walk(new)
  <2>1. IsWalk(new) /\ MissesNobody(new) /\ ~new.outlives
    BY NewWalk
  <2> HIDE DEF new
  <2>2. IsWalk(it) /\ MissesNobody(it)
    BY <2>1, WalkGoesOn
  <2>3. n \notin DOMAIN notifier /\ ((CallNext(n, it) /\ notifying' = TRUE) \/ End(n))
    BY <1>8 DEF Begin, new
  <2> HIDE DEF it
  <2>4. CASE CallNext(n, it) /\ notifying' = TRUE
    <3>1. notifying' \in BOOLEAN /\ (notifying => notifying') /\ (~it.outlives => notifying')
      BY <2>4, Zenon
    <3> QED
      BY <1>2, <2>2, <2>4, <3>1
  <2>5. CASE End(n)
    BY <1>3, <2>3, <2>5
  <2> QED
    BY <2>3, <2>4, <2>5
<1>9. ASSUME NEW n \in Notifiers, Resume(n) PROVE Goal
  <2> DEFINE old == notifier[n]
             it == Walk(old)
  <2>1. /\ n \in DOMAIN notifier
        /\ (CallNext(n, it) /\ notifying' = notifying) \/ ((Broken(it) \/ Left(it) = {}) /\ End(n))
    BY <1>9 DEF Resume
  <2>2. IsWalk(old) /\ (~old.outlives => notifying /\ MissesNobody(old)) /\ notifying \in BOOLEAN
    BY <2>1 DEF NInv, Walks
  <2> HIDE DEF old
  <2>3. /\ IsWalk(it) /\ it.outlives = old.outlives
        /\ MissesNobody(old) => MissesNobody(it)
        /\ MissesNobody(old) /\ Left(it) = {} => old.owed = {}
    BY <2>2, WalkGoesOn
  <2> HIDE DEF it
  <2>4. MissesNobody(it) => ~Broken(it)
    BY DEF MissesNobody, Broken
  <2>5. CASE CallNext(n, it) /\ notifying' = notifying
    <3>1. notifying' \in BOOLEAN /\ (notifying => notifying') /\ (~it.outlives => notifying')
      BY <2>2, <2>3, <2>5, Zenon
    <3> QED
      BY <1>2, <2>2, <2>3, <2>5, <3>1
  <2>6. CASE (Broken(it) \/ Left(it) = {}) /\ End(n)
    <3>1. ~old.outlives => old.owed = {}
      BY <2>2, <2>3, <2>4, <2>6
    <3> QED
      BY <1>3, <2>6, <3>1 DEF old
  <2> QED
    BY <2>1, <2>5, <2>6
<1> QED
  BY <1>4, <1>5, <1>6, <1>7, <1>8, <1>9 DEF Next, Goal

-----------------------------------------------------------------------------
(* Theorems about notifications. *)

LEMMA NAlways == Spec => []NInv
<1>1. NInv /\ [Next]_notificationVars => NInv'
  BY NStep
<1> QED
  BY NInitInv, <1>1, PTL DEF Spec

\* No adjustment is held back unless a notification is in progress that will apply it
\* (Notifications, _notify_event_internal).
THEOREM AdjustmentsAreNotStranded == Spec => []NothingStranded
<1>1. NInv => NothingStranded
  BY DEF NInv
<1> QED
  BY NAlways, <1>1, PTL

\* Whoever was listed when a notification began has been called when it ends, unless it
\* outlives another (Notifications, _notify_event_internal).
THEOREM ListedMonitorsAreCalled == Spec => EveryoneIsCalled
<1> DEFINE A == \A n \in DOMAIN notifier \ DOMAIN notifier' :
                    ~notifier[n].outlives => notifier[n].owed = {}
<1>1. NInv /\ [Next]_notificationVars => A
  BY NStep
<1>2. Spec => [][A]_notificationVars
  BY <1>1, NAlways, PTL DEF Spec
<1> QED
  BY <1>2 DEF EveryoneIsCalled



-----------------------------------------------------------------------------
(* Messages. *)

FutureRecords ==
    [state : {"new", "waiting", "done", "removed"}, kind : Kinds \cup {NULL}, pause : BOOLEAN,
     since : SUBSET Nat, got : Nat \cup {NULL}]
GatherStates == {"new", "gathering", "complete", "dropped", "returned", "timed out"}
GatherRecords ==
    [state : GatherStates, kind : Kinds \cup {NULL}, pause : BOOLEAN, accum : Nat]

MessageTypes ==
    /\ sent \in Seq(Kinds) /\ Len(sent) <= MaxMessages
    /\ messages \in Seq(Nat) /\ \A i \in DOMAIN messages : messages[i] \in 1 .. Len(sent)
    /\ pending \in BOOLEAN
    /\ pauseCount \in Nat /\ launched \in Nat /\ blocked \in Nat
    /\ dispatcher \in {"none", "running", "awaiting"}
    /\ future \in [Futures -> FutureRecords]
    /\ callback \in [Callbacks -> Kinds \cup {NULL}]
    /\ gather \in [Gathers -> GatherRecords]
    /\ thread \in [Threads -> {"idle", "test", "set", "launch"}]
    /\ upset \subseteq {"raised", "raced"}

\* Messages are in the order in which they were sent, and only those that were queued.
QueueInOrder ==
    /\ \A i, j \in DOMAIN messages : i < j => messages[i] < messages[j]
    /\ \A i \in DOMAIN messages : sent[messages[i]] \notin Direct

\* Once the flag is set somebody will look at the queue.
PendingIsServed ==
    upset = {} /\ pending =>
        \/ launched > 0
        \/ pauseCount > 0 /\ messages # <<>>
        \/ \E t \in Threads : thread[t] = "launch"

\* The gather_count()s that hold a pause of their own.
Holders == {g \in Gathers : gather[g].pause /\ gather[g].state = "complete"}

\* Those of gs that the next message completes and that pause then.
Completing(gs) == {g \in gs : gather[g].pause /\ gather[g].accum + 1 = Count}

GathersHold ==
    /\ Cardinality(Holders) <= pauseCount
    /\ \A g \in Gathers :
        /\ gather[g].state = "new" => gather[g].accum = 0
        /\ gather[g].state = "gathering" => gather[g].accum < Count
        /\ gather[g].state = "complete" => gather[g].accum >= Count

\* FirstMatchIsReturned of one future: what was dispatched before it was registered is out
\* of the question.
FutureIsServed(f) ==
    /\ \A id \in future[f].since : id \in DOMAIN sent /\ \A i \in DOMAIN messages : messages[i] # id
    /\ future[f].state \in {"new", "waiting"} => future[f].got = NULL
    /\ "raised" \notin upset =>
        /\ \A id \in DOMAIN sent \ future[f].since :
             sent[id] = future[f].kind =>
                /\ future[f].state = "waiting" => \E i \in DOMAIN messages : messages[i] = id
                /\ future[f].got # NULL => future[f].got <= id
        /\ future[f].got # NULL =>
             future[f].got \in DOMAIN sent \ future[f].since /\ sent[future[f].got] = future[f].kind

\* Inductive.
OpInv ==
    /\ MessageTypes
    /\ QueueInOrder
    /\ PendingIsServed /\ NoMessageStuck
    /\ GathersHold /\ PausingGatherIsExact
    /\ \A f \in Futures : FutureIsServed(f)

-----------------------------------------------------------------------------
(* Parts of steps. *)

\* A message joins the queue.
LEMMA EnqueueFacts ==
  ASSUME MessageTypes, QueueInOrder, NEW kind \in Kinds, Enqueue(kind)
  PROVE  /\ sent' \in Seq(Kinds) /\ Len(sent') <= MaxMessages /\ Len(sent') = Len(sent) + 1
         /\ \A id \in DOMAIN sent : id \in DOMAIN sent' /\ sent'[id] = sent[id]
         /\ \A id \in DOMAIN sent' : id \in DOMAIN sent \/ id = Len(sent')
         /\ messages' \in Seq(Nat) /\ messages' # <<>>
         /\ \A i \in DOMAIN messages' : messages'[i] \in 1 .. Len(sent')
         /\ \A i \in DOMAIN messages : i \in DOMAIN messages' /\ messages'[i] = messages[i]
         /\ \E i \in DOMAIN messages' : messages'[i] = Len(sent')
         /\ \A i \in DOMAIN messages' : (i \in DOMAIN messages /\ messages'[i] = messages[i]) \/ messages'[i] = Len(sent')
         /\ QueueInOrder'
<1>1. /\ sent \in Seq(Kinds) /\ Len(sent) < MaxMessages /\ kind \notin Direct
      /\ sent' = Append(sent, kind) /\ messages' = Append(messages, Len(sent) + 1)
      /\ messages \in Seq(Nat) /\ \A i \in DOMAIN messages : messages[i] \in 1 .. Len(sent)
  BY DEF MessageTypes, Enqueue, MaySend
<1>2. /\ sent' \in Seq(Kinds) /\ Len(sent') <= MaxMessages /\ Len(sent') = Len(sent) + 1
      /\ \A id \in DOMAIN sent : id \in DOMAIN sent' /\ sent'[id] = sent[id]
      /\ \A id \in DOMAIN sent' : id \in DOMAIN sent \/ id = Len(sent')
      /\ sent'[Len(sent')] = kind
  BY <1>1, OperationManagerAssumption
<1>3. /\ messages' \in Seq(Nat) /\ messages' # <<>> /\ Len(messages') = Len(messages) + 1
      /\ \A i \in DOMAIN messages : i \in DOMAIN messages' /\ messages'[i] = messages[i]
      /\ Len(messages') \in DOMAIN messages' /\ messages'[Len(messages')] = Len(sent')
      /\ \A i \in DOMAIN messages' : i \in DOMAIN messages \/ i = Len(messages')
  BY <1>1, <1>2
<1>4. \A i \in DOMAIN messages' : messages'[i] \in 1 .. Len(sent')
  BY <1>1, <1>2, <1>3
<1>5. ASSUME NEW i \in DOMAIN messages', NEW j \in DOMAIN messages', i < j PROVE messages'[i] < messages'[j]
  <2>1. i \in DOMAIN messages
    BY <1>1, <1>3, <1>5
  <2>2. CASE j \in DOMAIN messages
    BY <1>3, <1>5, <2>1, <2>2 DEF QueueInOrder
  <2>3. CASE j = Len(messages')
    BY <1>1, <1>2, <1>3, <2>1, <2>3
  <2> QED
    BY <1>3, <2>2, <2>3
<1>6. ASSUME NEW i \in DOMAIN messages' PROVE sent'[messages'[i]] \notin Direct
  <2>1. CASE i \in DOMAIN messages
    <3>1. messages[i] \in DOMAIN sent
      BY <1>1, <2>1
    <3> QED
      BY <1>2, <1>3, <2>1, <3>1 DEF QueueInOrder
  <2>2. CASE i = Len(messages')
    BY <1>1, <1>2, <1>3, <2>2
  <2> QED
    BY <1>3, <2>1, <2>2
<1> QED
  BY <1>2, <1>3, <1>4, <1>5, <1>6 DEF QueueInOrder

\* The oldest message leaves it.
LEMMA DequeueFacts ==
  ASSUME MessageTypes, QueueInOrder, messages # <<>>, messages' = Tail(messages), sent' = sent
  PROVE  /\ Head(messages) \in DOMAIN sent /\ Head(messages) \in Nat
         /\ sent[Head(messages)] \in Kinds /\ sent[Head(messages)] \notin Direct
         /\ \E i \in DOMAIN messages : messages[i] = Head(messages)
         /\ \A i \in DOMAIN messages : Head(messages) <= messages[i]
         /\ messages' \in Seq(Nat) /\ \A i \in DOMAIN messages' : messages'[i] \in 1 .. Len(sent')
         /\ \A i \in DOMAIN messages' : \E j \in DOMAIN messages : messages[j] = messages'[i]
         /\ \A j \in DOMAIN messages : messages[j] = Head(messages) \/ \E i \in DOMAIN messages' : messages'[i] = messages[j]
         /\ QueueInOrder'
<1>1. /\ messages \in Seq(Nat) /\ messages # <<>> /\ sent \in Seq(Kinds)
      /\ \A i \in DOMAIN messages : messages[i] \in 1 .. Len(sent)
      /\ \A i, j \in DOMAIN messages : i < j => messages[i] < messages[j]
  BY DEF MessageTypes, QueueInOrder
<1>2. Head(messages) = messages[1] /\ 1 \in DOMAIN messages
  BY <1>1
<1>3. Head(messages) \in DOMAIN sent /\ Head(messages) \in Nat /\ sent[Head(messages)] \in Kinds
  BY <1>1, <1>2
<1>4. sent[Head(messages)] \notin Direct
  BY <1>2 DEF QueueInOrder
<1>5. \A i \in DOMAIN messages : Head(messages) <= messages[i]
  <2> SUFFICES ASSUME NEW i \in DOMAIN messages PROVE Head(messages) <= messages[i]
    OBVIOUS
  <2>1. messages[i] \in Nat /\ messages[1] \in Nat
    BY <1>1, <1>2
  <2>2. i = 1 \/ 1 < i
    BY <1>1
  <2>3. 1 < i => messages[1] < messages[i]
    BY <1>1, <1>2
  <2> QED
    BY <1>2, <2>1, <2>2, <2>3
<1>6. /\ messages' \in Seq(Nat)
      /\ \A i \in DOMAIN messages' : i + 1 \in DOMAIN messages /\ messages'[i] = messages[i + 1]
      /\ \A j \in DOMAIN messages : j = 1 \/ (j - 1 \in DOMAIN messages' /\ messages'[j - 1] = messages[j])
      /\ \A i \in DOMAIN messages' : i \in Nat
  <2>1. messages' \in Seq(Nat) /\ Len(messages') = Len(messages) - 1
    BY <1>1
  <2>2. \A i \in DOMAIN messages' : i + 1 \in DOMAIN messages /\ messages'[i] = messages[i + 1]
    BY <1>1
  <2>3. \A j \in DOMAIN messages : j = 1 \/ (j - 1 \in DOMAIN messages' /\ messages'[j - 1] = messages[j])
    BY <1>1
  <2>4. \A i \in DOMAIN messages' : i \in Nat
    BY <2>1
  <2> QED
    BY <2>1, <2>2, <2>3, <2>4
<1>7. \A i \in DOMAIN messages' : messages'[i] \in 1 .. Len(sent')
  BY <1>1, <1>6
<1>8. \A i \in DOMAIN messages' : \E j \in DOMAIN messages : messages[j] = messages'[i]
  BY <1>6
<1>9. \A j \in DOMAIN messages : messages[j] = Head(messages) \/ \E i \in DOMAIN messages' : messages'[i] = messages[j]
  BY <1>2, <1>6
<1>10. \A i, j \in DOMAIN messages' : i < j => messages'[i] < messages'[j]
  <2> SUFFICES ASSUME NEW i \in DOMAIN messages', NEW j \in DOMAIN messages', i < j
               PROVE  messages'[i] < messages'[j]
    OBVIOUS
  <2>1. i + 1 \in DOMAIN messages /\ j + 1 \in DOMAIN messages /\ i + 1 < j + 1
    BY <1>6
  <2> QED
    BY <1>1, <1>6, <2>1
<1>11. \A i \in DOMAIN messages' : sent'[messages'[i]] \notin Direct
  BY <1>6 DEF QueueInOrder
<1> QED
  BY <1>2, <1>3, <1>4, <1>5, <1>6, <1>7, <1>8, <1>9, <1>10, <1>11 DEF QueueInOrder

\* What the waiters look like that were given a message.
Given(id, fs, gs) ==
    /\ future' \in [Futures -> FutureRecords]
    /\ \A f \in Futures \ fs : future'[f] = future[f]
    /\ \A f \in fs : /\ future'[f].state = "done" /\ future'[f].got = id
                     /\ future'[f].kind = future[f].kind /\ future'[f].since = future[f].since
    /\ gather' \in [Gathers -> GatherRecords]
    /\ \A g \in Gathers \ gs : gather'[g] = gather[g]
    /\ \A g \in gs :
         /\ gather'[g].kind = gather[g].kind /\ gather'[g].pause = gather[g].pause
         /\ gather'[g].accum = gather[g].accum + 1
         /\ gather'[g].state = IF gather[g].accum + 1 = Count THEN "complete" ELSE gather[g].state
    /\ pauseCount' \in Nat /\ pauseCount' >= pauseCount
    /\ pauseCount' >= pauseCount + Cardinality(Completing(gs))
    /\ callback' = callback

LEMMA GiveFacts ==
  ASSUME MessageTypes, NEW id \in Nat, NEW fs \in SUBSET Futures, NEW gs \in SUBSET Gathers,
         NEW pauses \in {0, 1}, Give(id, fs, gs, pauses)
  PROVE  Given(id, fs, gs)
<1>1. ASSUME NEW f \in Futures
      PROVE  /\ future'[f] \in FutureRecords
             /\ f \notin fs => future'[f] = future[f]
             /\ f \in fs => /\ future'[f].state = "done" /\ future'[f].got = id
                            /\ future'[f].kind = future[f].kind /\ future'[f].since = future[f].since
  <2>1. future[f] \in FutureRecords
    BY DEF MessageTypes
  <2>2. PICK s, k, p, c, o : future[f] = [state |-> s, kind |-> k, pause |-> p, since |-> c, got |-> o]
    BY <2>1 DEF FutureRecords
  <2>3. future'[f] = IF f \in fs THEN [future[f] EXCEPT !.state = "done", !.got = id] ELSE future[f]
    BY DEF Give, GiveFutures
  <2>4. CASE f \in fs
    <3>1. [future[f] EXCEPT !.state = "done"] = [state |-> "done", kind |-> k, pause |-> p, since |-> c, got |-> o]
      BY <2>2
    <3>2. [[state |-> "done", kind |-> k, pause |-> p, since |-> c, got |-> o] EXCEPT !.got = id]
            = [state |-> "done", kind |-> k, pause |-> p, since |-> c, got |-> id]
      OBVIOUS
    <3>3. future'[f] = [[future[f] EXCEPT !.state = "done"] EXCEPT !.got = id]
      BY <2>3, <2>4, Zenon
    <3>4. future'[f] = [state |-> "done", kind |-> k, pause |-> p, since |-> c, got |-> id]
      BY <3>1, <3>2, <3>3, Zenon
    <3>5. k \in Kinds \cup {NULL} /\ p \in BOOLEAN /\ c \in SUBSET Nat
      BY <2>1, <2>2 DEF FutureRecords
    <3>6. future[f].kind = k /\ future[f].since = c
      BY <2>2
    <3> QED
      BY <2>4, <3>4, <3>5, <3>6 DEF FutureRecords
  <2> QED
    BY <2>1, <2>3, <2>4
<1>2. ASSUME NEW g \in Gathers
      PROVE  /\ gather'[g] \in GatherRecords
             /\ g \notin gs => gather'[g] = gather[g]
             /\ g \in gs =>
                  /\ gather'[g].kind = gather[g].kind /\ gather'[g].pause = gather[g].pause
                  /\ gather'[g].accum = gather[g].accum + 1
                  /\ gather'[g].state = IF gather[g].accum + 1 = Count THEN "complete" ELSE gather[g].state
  <2>1. gather[g] \in GatherRecords
    BY DEF MessageTypes
  <2>2. PICK s, k, p, a : gather[g] = [state |-> s, kind |-> k, pause |-> p, accum |-> a]
    BY <2>1 DEF GatherRecords
  <2>3. gather[g].kind = k /\ gather[g].pause = p /\ gather[g].accum = a /\ gather[g].state = s
    BY <2>2
  <2>6. k \in Kinds \cup {NULL} /\ p \in BOOLEAN /\ a \in Nat /\ s \in GatherStates
    BY <2>1, <2>2 DEF GatherRecords
  <2> DEFINE x == gather[g].accum + 1
             y == IF gather[g].accum + 1 = Count THEN "complete" ELSE gather[g].state
  <2>4. gather'[g] = IF g \in gs THEN [[gather[g] EXCEPT !.accum = x] EXCEPT !.state = y] ELSE gather[g]
    BY Zenon DEF Give, GiveGathers
  <2>5. x \in Nat /\ y \in GatherStates
    <3>1. x = a + 1 /\ (y = "complete" \/ y = s)
      BY <2>3
    <3> HIDE DEF x, y
    <3>2. "complete" \in GatherStates
      BY DEF GatherStates
    <3> QED
      BY <2>6, <3>1, <3>2
  <2> HIDE DEF x, y
  <2>7. CASE g \in gs
    <3>1. [gather[g] EXCEPT !.accum = x] = [state |-> s, kind |-> k, pause |-> p, accum |-> x]
      BY <2>2
    <3>2. [[state |-> s, kind |-> k, pause |-> p, accum |-> x] EXCEPT !.state = y]
            = [state |-> y, kind |-> k, pause |-> p, accum |-> x]
      OBVIOUS
    <3>3. gather'[g] = [state |-> y, kind |-> k, pause |-> p, accum |-> x]
      BY <2>4, <2>7, <3>1, <3>2, Zenon
    <3>4. gather'[g] \in GatherRecords
      BY <2>5, <2>6, <3>3 DEF GatherRecords
    <3>5. gather'[g].kind = k /\ gather'[g].pause = p /\ gather'[g].accum = x /\ gather'[g].state = y
      BY <3>3
    <3> QED
      BY <2>3, <2>7, <3>4, <3>5 DEF x, y
  <2> QED
    BY <2>1, <2>4, <2>7
<1>3. future' \in [Futures -> FutureRecords]
  <2>1. future' = [f \in Futures |-> future'[f]]
    BY DEF Give, GiveFutures
  <2> QED
    BY <1>1, <2>1
<1>4. gather' \in [Gathers -> GatherRecords]
  <2>1. gather' = [g \in Gathers |-> gather'[g]]
    BY DEF Give, GiveGathers
  <2> QED
    BY <1>2, <2>1
<1> DEFINE F == {f \in fs : future[f].pause}
           H == Completing(gs)
<1>5. F \in SUBSET Futures /\ H \in SUBSET Gathers
  BY DEF Completing
<1>7. pauseCount' = pauseCount + (Cardinality(F) + Cardinality(H)) + pauses
  BY DEF Give, Pausing, Completing
<1> HIDE DEF F, H
<1>6. Cardinality(F) \in Nat /\ Cardinality(H) \in Nat
  BY <1>5, FS_Subset, FS_CardinalityType, OperationManagerAssumption
<1>8. pauseCount \in Nat
  BY DEF MessageTypes
<1>9. pauseCount' \in Nat /\ pauseCount' >= pauseCount /\ pauseCount' >= pauseCount + Cardinality(H)
  BY <1>6, <1>7, <1>8
<1>10. callback' = callback
  BY DEF Give
<1> QED
  BY <1>1, <1>2, <1>3, <1>4, <1>9, <1>10 DEF H, Given

\* Whoever completes holds a pause, and nobody who pauses is given more than it asked for.
LEMMA GiveKeepsGathers ==
  ASSUME MessageTypes, GathersHold, PausingGatherIsExact,
         NEW id \in Nat, NEW fs \in SUBSET Futures, NEW gs \in SUBSET Gathers,
         NEW pauses \in {0, 1}, Give(id, fs, gs, pauses),
         \A g \in gs : Gathering(g) /\ (gather[g].kind \in Direct \/ g \notin Holders)
  PROVE  GathersHold' /\ PausingGatherIsExact'
<1> DEFINE H == Completing(gs)
<1>1. /\ gather' \in [Gathers -> GatherRecords]
      /\ \A g \in Gathers \ gs : gather'[g] = gather[g]
      /\ \A g \in gs :
              /\ gather'[g].kind = gather[g].kind /\ gather'[g].pause = gather[g].pause
              /\ gather'[g].accum = gather[g].accum + 1
              /\ gather'[g].state = IF gather[g].accum + 1 = Count THEN "complete" ELSE gather[g].state
      /\ pauseCount' \in Nat /\ pauseCount' >= pauseCount + Cardinality(H)
  <2>1. Given(id, fs, gs)
    BY GiveFacts
  <2> QED
    BY <2>1 DEF Given
<1>2. \A g \in Gathers : gather[g].accum \in Nat
  BY DEF MessageTypes, GatherRecords
<1>3. Holders' \subseteq Holders \cup H
  <2> SUFFICES ASSUME NEW g \in Gathers, gather'[g].pause, gather'[g].state = "complete"
               PROVE  g \in Holders \cup H
    BY DEF Holders
  <2> QED
    BY <1>1 DEF Holders, Completing
<1>4. H \in SUBSET Gathers /\ Holders \in SUBSET Gathers
  BY DEF Holders, Completing
<1> HIDE DEF H
<1>5. IsFiniteSet(H) /\ IsFiniteSet(Holders)
  BY <1>4, FS_Subset, OperationManagerAssumption
<1>6. /\ Cardinality(H) \in Nat /\ Cardinality(Holders) \in Nat /\ Cardinality(Holders \cap H) \in Nat
      /\ IsFiniteSet(Holders \cup H)
      /\ Cardinality(Holders \cup H) = Cardinality(Holders) + Cardinality(H) - Cardinality(Holders \cap H)
  <2>1. IsFiniteSet(Holders \cap H)
    BY <1>5, FS_Intersection
  <2> QED
    BY <1>5, <2>1, FS_CardinalityType, FS_Union
<1>7. /\ Cardinality(Holders') <= Cardinality(Holders \cup H)
      /\ Cardinality(Holders') \in Nat /\ Cardinality(Holders \cup H) \in Nat
  BY <1>3, <1>6, FS_Subset, FS_CardinalityType
<1>8. Cardinality(Holders') <= pauseCount'
  BY <1>1, <1>6, <1>7 DEF GathersHold, MessageTypes
<1>9. ASSUME NEW g \in Gathers
      PROVE  /\ gather'[g].state = "new" => gather'[g].accum = 0
             /\ gather'[g].state = "gathering" => gather'[g].accum < Count
             /\ gather'[g].state = "complete" => gather'[g].accum >= Count
             /\ gather'[g].pause /\ gather'[g].kind \notin Direct => gather'[g].accum <= Count
  <2>1. CASE g \notin gs
    BY <1>1, <2>1 DEF GathersHold, PausingGatherIsExact
  <2>2. CASE g \in gs
    <3>1. gather[g].accum \in Nat /\ Count \in Nat \ {0}
      BY <1>2, OperationManagerAssumption
    <3>2. /\ gather[g].state \in {"gathering", "complete"}
          /\ gather[g].state = "gathering" => gather[g].accum < Count
          /\ gather[g].state = "complete" => gather[g].accum >= Count
          /\ gather[g].state = "complete" /\ gather[g].pause => gather[g].kind \in Direct
      BY <2>2 DEF GathersHold, Gathering, Holders
    <3> QED
      BY <1>1, <2>2, <3>1, <3>2
  <2> QED
    BY <2>1, <2>2
<1> QED
  BY <1>8, <1>9 DEF GathersHold, PausingGatherIsExact

-----------------------------------------------------------------------------
(* Futures. *)

\* Whatever else happens to it, a future that no longer waits keeps what it was given.
LEMMA FutureStays ==
  ASSUME NEW f \in Futures, FutureIsServed(f), UNCHANGED <<sent, messages>>, upset \subseteq upset',
         future'[f].kind = future[f].kind, future'[f].since = future[f].since,
         future'[f].got = future[f].got,
         future'[f].state = future[f].state \/ future'[f].state \in {"done", "removed"}
  PROVE  FutureIsServed(f)'
  BY DEF FutureIsServed

\* A message that is queued is after everything it might have missed.
LEMMA FutureAndEnqueue ==
  ASSUME MessageTypes, QueueInOrder, NEW kind \in Kinds, Enqueue(kind), UNCHANGED <<future, upset>>,
         NEW f \in Futures, FutureIsServed(f)
  PROVE  FutureIsServed(f)'
<1>1. /\ Len(sent') = Len(sent) + 1
      /\ \A id \in DOMAIN sent : id \in DOMAIN sent' /\ sent'[id] = sent[id]
      /\ \A id \in DOMAIN sent' : id \in DOMAIN sent \/ id = Len(sent')
      /\ \A i \in DOMAIN messages : i \in DOMAIN messages' /\ messages'[i] = messages[i]
      /\ \E i \in DOMAIN messages' : messages'[i] = Len(sent')
      /\ \A i \in DOMAIN messages' : (i \in DOMAIN messages /\ messages'[i] = messages[i]) \/ messages'[i] = Len(sent')
  BY EnqueueFacts
<1>2. /\ \A id \in DOMAIN sent : id \in Nat /\ id <= Len(sent)
      /\ Len(sent) \in Nat /\ Len(sent') \notin DOMAIN sent
  <2>1. sent \in Seq(Kinds)
    BY DEF MessageTypes
  <2> QED
    BY <1>1, <2>1
<1>3. ASSUME NEW id \in future[f].since
      PROVE  id \in DOMAIN sent' /\ \A i \in DOMAIN messages' : messages'[i] # id
  BY <1>1, <1>2, <1>3 DEF FutureIsServed
<1>4. ASSUME "raised" \notin upset, NEW id \in DOMAIN sent' \ future[f].since, sent'[id] = future[f].kind
      PROVE  /\ future[f].state = "waiting" => \E i \in DOMAIN messages' : messages'[i] = id
             /\ future[f].got # NULL => future[f].got <= id
  <2>1. CASE id \in DOMAIN sent
    <3>1. /\ future[f].state = "waiting" => \E i \in DOMAIN messages : messages[i] = id
          /\ future[f].got # NULL => future[f].got <= id
      BY <1>1, <1>4, <2>1 DEF FutureIsServed
    <3> QED
      BY <1>1, <3>1
  <2>2. CASE id = Len(sent')
    <3>1. future[f].got # NULL => future[f].got \in DOMAIN sent
      BY <1>4 DEF FutureIsServed
    <3> QED
      BY <1>1, <1>2, <2>2, <3>1
  <2> QED
    BY <1>1, <2>1, <2>2
<1>5. ASSUME "raised" \notin upset, future[f].got # NULL
      PROVE  future[f].got \in DOMAIN sent' \ future[f].since /\ sent'[future[f].got] = future[f].kind
  BY <1>1, <1>5 DEF FutureIsServed
<1>6. future[f].state \in {"new", "waiting"} => future[f].got = NULL
  BY DEF FutureIsServed
<1> QED
  BY <1>3, <1>4, <1>5, <1>6 DEF FutureIsServed

\* A future that begins to wait has missed what was dispatched, and nothing else.
LEMMA FutureRegisters ==
  ASSUME MessageTypes, NEW f \in Futures, NEW kind, NEW pause, NEW unpause,
         WaitFor(f, kind, pause, unpause), FutureIsServed(f)
  PROVE  FutureIsServed(f)'
<1> DEFINE d == Dispatched
<1>1. /\ future'[f] = [[[[future[f] EXCEPT !.state = "waiting"] EXCEPT !.kind = kind]
                                   EXCEPT !.pause = pause] EXCEPT !.since = d]
      /\ future[f].state = "new" /\ UNCHANGED <<sent, messages, upset>>
  BY DEF WaitFor, MessageTypes
<1>2. future[f].got = NULL
  BY <1>1 DEF FutureIsServed
<1>3. future[f] \in FutureRecords
  BY DEF MessageTypes
<1> HIDE DEF d
<1>4. /\ future'[f].state = "waiting" /\ future'[f].kind = kind
      /\ future'[f].since = d /\ future'[f].got = future[f].got
  BY <1>1, <1>3 DEF FutureRecords
<1>5. \A id \in d : id \in DOMAIN sent /\ \A i \in DOMAIN messages : messages[i] # id
  BY DEF d, Dispatched, Range
<1>6. \A id \in DOMAIN sent \ d : \E i \in DOMAIN messages : messages[i] = id
  BY DEF d, Dispatched, Range
<1> QED
  BY <1>1, <1>2, <1>4, <1>5, <1>6 DEF FutureIsServed

\* The oldest message of the queue is the first of its kind for whoever waits for it.
LEMMA FutureAndDispatch ==
  ASSUME MessageTypes, QueueInOrder, messages # <<>>, messages' = Tail(messages), sent' = sent,
         NEW fs \in SUBSET Futures, NEW gs, Given(Head(messages), fs, gs),
         \A f \in fs : Waiting(f, sent[Head(messages)]),
         \/ upset' = upset /\ fs = MatchingFutures(sent[Head(messages)])
         \/ "raised" \in upset',
         NEW f \in Futures, FutureIsServed(f)
  PROVE  FutureIsServed(f)'
<1> DEFINE id == Head(messages)
<1>1. /\ id \in DOMAIN sent /\ id \in Nat
      /\ \E i \in DOMAIN messages : messages[i] = id
      /\ \A i \in DOMAIN messages : id <= messages[i]
      /\ \A i \in DOMAIN messages' : \E j \in DOMAIN messages : messages[j] = messages'[i]
      /\ \A j \in DOMAIN messages : messages[j] = id \/ \E i \in DOMAIN messages' : messages'[i] = messages[j]
  BY DequeueFacts
<1> HIDE DEF id
<1>2. f \notin fs => future'[f] = future[f]
  BY DEF Given
<1>3. f \in fs => /\ future'[f].state = "done" /\ future'[f].got = id
                  /\ future'[f].kind = future[f].kind /\ future'[f].since = future[f].since
  BY DEF Given, id
<1>4. f \in fs => future[f].state = "waiting" /\ future[f].kind = sent[id]
  BY DEF Waiting, id
<1>5. future'[f].kind = future[f].kind /\ future'[f].since = future[f].since
  BY <1>2, <1>3
<1>6. \A i \in future'[f].since : i \in DOMAIN sent' /\ \A j \in DOMAIN messages' : messages'[j] # i
  BY <1>1, <1>5 DEF FutureIsServed
<1>7. future'[f].state \in {"new", "waiting"} => future'[f].got = NULL
  BY <1>2, <1>3 DEF FutureIsServed
<1>8. CASE "raised" \in upset'
  BY <1>6, <1>7, <1>8 DEF FutureIsServed
<1>9. CASE "raised" \notin upset'
  <2>1. upset' = upset /\ fs = MatchingFutures(sent[id]) /\ "raised" \notin upset
    BY <1>9 DEF id
  <2>2. CASE f \in fs
    <3>1. id \notin future[f].since
      BY <1>1 DEF FutureIsServed
    <3>2. ASSUME NEW i \in DOMAIN sent \ future[f].since, sent[i] = future[f].kind PROVE id <= i
      <4>1. PICK j \in DOMAIN messages : messages[j] = i
        BY <1>4, <2>1, <2>2, <3>2 DEF FutureIsServed
      <4> QED
        BY <1>1, <4>1
    <3> QED
      BY <1>1, <1>3, <1>4, <1>6, <1>7, <2>2, <3>1, <3>2 DEF FutureIsServed
  <2>3. CASE f \notin fs
    <3>1. ~Waiting(f, sent[id])
      BY <2>1, <2>3 DEF MatchingFutures
    <3>2. ASSUME NEW i \in DOMAIN sent \ future[f].since, sent[i] = future[f].kind, future[f].state = "waiting"
          PROVE  \E j \in DOMAIN messages' : messages'[j] = i
      <4>1. PICK j \in DOMAIN messages : messages[j] = i
        BY <2>1, <3>2 DEF FutureIsServed
      <4>2. i # id
        BY <3>1, <3>2 DEF Waiting
      <4> QED
        BY <1>1, <4>1, <4>2
    <3> QED
      BY <1>2, <1>6, <1>7, <2>1, <2>3, <3>2 DEF FutureIsServed
  <2> QED
    BY <2>2, <2>3
<1> QED
  BY <1>8, <1>9

\* A message that is never queued is the first of its kind for whoever waits for it: none
\* of that kind is in the queue.
LEMMA FutureAndDirect ==
  ASSUME MessageTypes, QueueInOrder, NEW kind \in Direct, UNCHANGED messages,
         sent' = Append(sent, kind), NEW fs \in SUBSET Futures, NEW gs, Given(Len(sent) + 1, fs, gs),
         \A f \in fs : Waiting(f, kind),
         \/ upset' = upset /\ fs = MatchingFutures(kind)
         \/ "raised" \in upset',
         NEW f \in Futures, FutureIsServed(f)
  PROVE  FutureIsServed(f)'
<1> DEFINE id == Len(sent) + 1
<1>0. sent \in Seq(Kinds) /\ \A i \in DOMAIN messages : messages[i] \in 1 .. Len(sent)
  BY DEF MessageTypes
<1>1. /\ id \in Nat /\ id \in DOMAIN sent' /\ sent'[id] = kind /\ id \notin DOMAIN sent
      /\ \A i \in DOMAIN sent : i \in DOMAIN sent' /\ sent'[i] = sent[i] /\ i \in Nat /\ i <= id
      /\ \A i \in DOMAIN sent' : i \in DOMAIN sent \/ i = id
      /\ id <= id
  BY <1>0
<1> HIDE DEF id
<1>2. f \notin fs => future'[f] = future[f]
  BY DEF Given
<1>3. f \in fs => /\ future'[f].state = "done" /\ future'[f].got = id
                  /\ future'[f].kind = future[f].kind /\ future'[f].since = future[f].since
  BY DEF Given, id
<1>4. f \in fs => future[f].state = "waiting" /\ future[f].kind = kind
  BY DEF Waiting
<1>5. future'[f].kind = future[f].kind /\ future'[f].since = future[f].since
  BY <1>2, <1>3
<1>6. \A i \in future'[f].since : i \in DOMAIN sent' /\ \A j \in DOMAIN messages' : messages'[j] # i
  BY <1>1, <1>5 DEF FutureIsServed
<1>7. future'[f].state \in {"new", "waiting"} => future'[f].got = NULL
  BY <1>2, <1>3 DEF FutureIsServed
<1>8. CASE "raised" \in upset'
  BY <1>6, <1>7, <1>8 DEF FutureIsServed
<1>9. CASE "raised" \notin upset'
  <2>1. upset' = upset /\ fs = MatchingFutures(kind) /\ "raised" \notin upset
    BY <1>9
  <2>2. CASE f \in fs
    <3>1. id \notin future[f].since
      BY <1>1 DEF FutureIsServed
    <3>2. ASSUME NEW i \in DOMAIN sent' \ future[f].since, sent'[i] = future[f].kind PROVE i = id
      <4>1. CASE i \in DOMAIN sent
        <5>1. PICK j \in DOMAIN messages : messages[j] = i
          BY <1>1, <1>4, <2>1, <2>2, <3>2, <4>1 DEF FutureIsServed
        <5>2. sent[i] = kind
          BY <1>1, <1>4, <2>2, <3>2, <4>1
        <5> QED
          BY <5>1, <5>2 DEF QueueInOrder
      <4> QED
        BY <1>1, <4>1
    <3> QED
      BY <1>1, <1>3, <1>4, <1>6, <1>7, <2>2, <3>1, <3>2 DEF FutureIsServed
  <2>3. CASE f \notin fs
    <3>1. ~Waiting(f, kind)
      BY <2>1, <2>3 DEF MatchingFutures
    <3>2. future[f].got # NULL => future[f].got \in DOMAIN sent \ future[f].since /\ sent[future[f].got] = future[f].kind
      BY <2>1 DEF FutureIsServed
    <3>3. ASSUME NEW i \in DOMAIN sent' \ future[f].since, sent'[i] = future[f].kind
          PROVE  /\ future[f].state = "waiting" => \E j \in DOMAIN messages : messages[j] = i
                 /\ future[f].got # NULL => future[f].got <= i
      <4>1. CASE i \in DOMAIN sent
        BY <1>1, <2>1, <3>3, <4>1 DEF FutureIsServed
      <4>2. CASE i = id
        BY <1>1, <3>1, <3>2, <3>3, <4>2 DEF Waiting
      <4> QED
        BY <1>1, <4>1, <4>2
    <3> QED
      BY <1>1, <1>2, <1>6, <1>7, <2>1, <2>3, <3>2, <3>3 DEF FutureIsServed
  <2> QED
    BY <2>2, <2>3
<1> QED
  BY <1>8, <1>9

-----------------------------------------------------------------------------
(* Pauses and the queue. *)

\* A step outside the dispatcher: pauses are undone at most down to those that are held,
\* and whoever undoes the last one while messages lie there launches process_all().
PausesMove ==
    /\ pauseCount' \in Nat /\ launched' \in Nat
    /\ launched <= launched'
    /\ Cardinality(Holders) <= pauseCount'
    /\ messages # <<>> /\ pauseCount' = 0 => pauseCount = 0 \/ launched' > 0

LEMMA PausersAreCounted ==
  ASSUME MessageTypes
  PROVE  Pausers \in Nat /\ Cardinality(Holders) \in Nat /\ Cardinality(Holders) <= Pausers
<1> DEFINE F == {f \in Futures : future[f].pause /\ future[f].state = "done"}
           H == Holders
<1>1. F \in SUBSET Futures /\ H \in SUBSET Gathers
  BY DEF Holders
<1>2. Pausers = Cardinality(F) + Cardinality(H)
  BY DEF Pausers, Holders
<1> HIDE DEF F, H
<1>3. Cardinality(F) \in Nat /\ Cardinality(H) \in Nat
  BY <1>1, FS_Subset, FS_CardinalityType, OperationManagerAssumption
<1> QED
  BY <1>2, <1>3 DEF H

LEMMA UnpauseMoves ==
  ASSUME MessageTypes, MayUnpause, Unpaused
  PROVE  PausesMove
<1>1. Pausers \in Nat /\ Cardinality(Holders) \in Nat /\ Cardinality(Holders) <= Pausers
  BY PausersAreCounted
<1>2. pauseCount \in Nat /\ launched \in Nat
  BY DEF MessageTypes
<1>3. pauseCount > Pausers /\ pauseCount' = pauseCount - 1
  BY DEF MayUnpause, Unpaused
<1>4. CASE pauseCount = 1 /\ messages # <<>>
  BY <1>1, <1>2, <1>3, <1>4 DEF Unpaused, PausesMove
<1>5. CASE ~(pauseCount = 1 /\ messages # <<>>)
  <2>1. launched' = launched
    BY <1>5 DEF Unpaused
  <2> QED
    BY <1>1, <1>2, <1>3, <1>5, <2>1 DEF PausesMove
<1> QED
  BY <1>4, <1>5

LEMMA NoPauseMoves ==
  ASSUME MessageTypes, GathersHold, UNCHANGED <<pauseCount, launched>>
  PROVE  PausesMove
  BY DEF MessageTypes, GathersHold, PausesMove

LEMMA UnpauseIfMoves ==
  ASSUME MessageTypes, GathersHold, NEW unpause \in BOOLEAN, UnpauseIf(unpause)
  PROVE  PausesMove
<1>1. CASE unpause
  BY <1>1, UnpauseMoves DEF UnpauseIf
<1>2. CASE ~unpause
  BY <1>2, NoPauseMoves DEF UnpauseIf
<1> QED
  BY <1>1, <1>2

LEMMA CountIsPositive == 0 < Count /\ 0 <= Count
<1>1. Count \in Nat /\ Count # 0
  BY OperationManagerAssumption
<1> QED
  BY <1>1

LEMMA SomeLaunched == \A m, n \in Nat : m + n > 0 <=> m > 0 \/ n > 0
  OBVIOUS

LEMMA FewerHolders ==
  ASSUME NEW S, NEW T, S \subseteq T, IsFiniteSet(T), NEW n \in Nat, Cardinality(T) <= n
  PROVE  Cardinality(S) <= n
<1>1. Cardinality(S) <= Cardinality(T) /\ Cardinality(S) \in Nat /\ Cardinality(T) \in Nat
  BY FS_Subset, FS_CardinalityType
<1> QED
  BY <1>1

\* Nobody is stuck by a step that leaves the queue, the dispatcher and the threads alone.
LEMMA QueueIsServed ==
  ASSUME PendingIsServed, NoMessageStuck, MessageTypes,
         UNCHANGED <<messages, pending, blocked, dispatcher, thread>>, upset \subseteq upset',
         launched' \in Nat, launched <= launched', pauseCount' \in Nat,
         messages # <<>> /\ pauseCount' = 0 => pauseCount = 0 \/ launched' > 0
  PROVE  PendingIsServed' /\ NoMessageStuck'
<1>1. launched \in Nat /\ blocked \in Nat /\ pauseCount \in Nat
  BY DEF MessageTypes
<1>2. upset' = {} => upset = {}
  OBVIOUS
<1>3. PendingIsServed'
  BY <1>1, <1>2 DEF PendingIsServed
<1>4. NoMessageStuck'
  <2> SUFFICES ASSUME upset' = {}, messages' # <<>>, pauseCount' = 0
               PROVE  launched' + blocked' > 0 \/ dispatcher' # "none" \/ \E t \in Threads : thread'[t] # "idle"
    BY DEF NoMessageStuck
  <2>1. CASE launched' > 0
    BY <1>1, <2>1, SomeLaunched
  <2>2. CASE ~(launched' > 0)
    <3>1. upset = {} /\ messages # <<>> /\ pauseCount = 0
      BY <1>2, <2>2
    <3>2. launched > 0 \/ blocked > 0 \/ dispatcher # "none" \/ \E t \in Threads : thread[t] # "idle"
      BY <1>1, <3>1, SomeLaunched DEF NoMessageStuck
    <3>3. CASE launched > 0
      BY <1>1, <2>2, <3>3
    <3>4. CASE blocked > 0
      BY <1>1, <3>4, SomeLaunched
    <3> QED
      BY <1>1, <3>2, <3>3, <3>4
  <2> QED
    BY <2>1, <2>2
<1> QED
  BY <1>3, <1>4

\* Nor does a gather_count() gain or lose a pause with its waiter.
LEMMA GathersMove ==
  ASSUME MessageTypes, GathersHold, PausingGatherIsExact, PausesMove,
         \A g \in Gathers :
            \/ gather'[g] = gather[g]
            \/ /\ gather'[g].kind = gather[g].kind /\ gather'[g].pause = gather[g].pause
               /\ gather'[g].accum = gather[g].accum
               /\ gather'[g].state \in {"dropped", "returned", "timed out"}
            \/ gather'[g].state = "gathering" /\ gather'[g].accum = 0
  PROVE  GathersHold' /\ PausingGatherIsExact'
<1>1. Holders' \subseteq Holders
  BY DEF Holders
<1>2. Holders \in SUBSET Gathers
  BY DEF Holders
<1>3. IsFiniteSet(Holders)
  BY <1>2, FS_Subset, OperationManagerAssumption
<1>4. Cardinality(Holders) <= pauseCount' /\ pauseCount' \in Nat
  BY DEF PausesMove
<1>5. Cardinality(Holders') <= pauseCount'
  BY <1>1, <1>3, <1>4, FewerHolders
<1>6. ASSUME NEW g \in Gathers
      PROVE  /\ gather'[g].state = "new" => gather'[g].accum = 0
             /\ gather'[g].state = "gathering" => gather'[g].accum < Count
             /\ gather'[g].state = "complete" => gather'[g].accum >= Count
             /\ gather'[g].pause /\ gather'[g].kind \notin Direct => gather'[g].accum <= Count
  <2>1. 0 < Count /\ 0 <= Count
    BY CountIsPositive
  <2>2. /\ gather[g].state = "new" => gather[g].accum = 0
        /\ gather[g].state = "gathering" => gather[g].accum < Count
        /\ gather[g].state = "complete" => gather[g].accum >= Count
        /\ gather[g].pause /\ gather[g].kind \notin Direct => gather[g].accum <= Count
    BY DEF GathersHold, PausingGatherIsExact
  <2>3. CASE gather'[g] = gather[g]
    BY <2>2, <2>3
  <2>4. CASE gather'[g].state = "gathering" /\ gather'[g].accum = 0
    <3>1. gather'[g].state # "complete" /\ gather'[g].state # "new"
      BY <2>4
    <3> QED
      BY <2>1, <2>4, <3>1, Zenon
  <2>5. CASE /\ gather'[g].kind = gather[g].kind /\ gather'[g].pause = gather[g].pause
             /\ gather'[g].accum = gather[g].accum
             /\ gather'[g].state \in {"dropped", "returned", "timed out"}
    BY <2>2, <2>5
  <2> QED
    BY <2>3, <2>4, <2>5
<1> QED
  BY <1>5, <1>6 DEF GathersHold, PausingGatherIsExact

\* A step of the dispatcher, of a thread or of queue_message_threadsafe(): no waiter moves.
WaitersStay == UNCHANGED <<future, callback, gather, pauseCount>>

LEMMA WaitersStayKeeps ==
  ASSUME MessageTypes, GathersHold, PausingGatherIsExact, WaitersStay
  PROVE  GathersHold' /\ PausingGatherIsExact'
  BY DEF WaitersStay, GathersHold, PausingGatherIsExact, Holders

-----------------------------------------------------------------------------
(* Steps. *)

\* The waiters' own steps.
LEMMA WaitersKeep ==
  ASSUME OpInv, PausesMove, UNCHANGED <<messages, sent, pending, blocked, dispatcher, thread, upset>>,
         future' \in [Futures -> FutureRecords], gather' \in [Gathers -> GatherRecords],
         callback' \in [Callbacks -> Kinds \cup {NULL}],
         \A f \in Futures :
            \/ /\ future'[f].kind = future[f].kind /\ future'[f].since = future[f].since
               /\ future'[f].got = future[f].got
               /\ future'[f].state = future[f].state \/ future'[f].state \in {"done", "removed"}
            \/ \E k \in Awaited, p, u \in PauseFlags : WaitFor(f, k, p, u),
         \A g \in Gathers :
            \/ gather'[g] = gather[g]
            \/ /\ gather'[g].kind = gather[g].kind /\ gather'[g].pause = gather[g].pause
               /\ gather'[g].accum = gather[g].accum
               /\ gather'[g].state \in {"dropped", "returned", "timed out"}
            \/ gather'[g].state = "gathering" /\ gather'[g].accum = 0
  PROVE  OpInv'
<1>1. MessageTypes'
  BY DEF OpInv, MessageTypes, PausesMove
<1>2. QueueInOrder'
  BY DEF OpInv, QueueInOrder
<1>3. PendingIsServed' /\ NoMessageStuck'
  BY QueueIsServed DEF OpInv, PausesMove
<1>4. GathersHold' /\ PausingGatherIsExact'
  BY GathersMove DEF OpInv
<1>5. ASSUME NEW f \in Futures PROVE FutureIsServed(f)'
  <2>1. MessageTypes /\ FutureIsServed(f)
    BY DEF OpInv
  <2>2. CASE \E k \in Awaited, p, u \in PauseFlags : WaitFor(f, k, p, u)
    BY <2>1, <2>2, FutureRegisters
  <2>3. CASE /\ future'[f].kind = future[f].kind /\ future'[f].since = future[f].since
             /\ future'[f].got = future[f].got
             /\ future'[f].state = future[f].state \/ future'[f].state \in {"done", "removed"}
    BY <2>1, <2>3, FutureStays
  <2> QED
    BY <2>2, <2>3
<1> QED
  BY <1>1, <1>2, <1>3, <1>4, <1>5 DEF OpInv

LEMMA FutureRecord ==
  ASSUME NEW r \in FutureRecords, NEW s \in {"waiting", "done", "removed"},
         NEW q, q = [r EXCEPT !.state = s]
  PROVE  /\ q \in FutureRecords
         /\ q.state = s /\ q.kind = r.kind /\ q.since = r.since /\ q.got = r.got
  BY DEF FutureRecords

\* The record q is r in another state.
OnlyStateDiffers(q, r, s) ==
    /\ q \in GatherRecords
    /\ q.state = s /\ q.kind = r.kind /\ q.pause = r.pause /\ q.accum = r.accum

LEMMA GatherRecord ==
  ASSUME NEW r \in GatherRecords, NEW s \in {"dropped", "returned", "timed out"},
         NEW q, q = [r EXCEPT !.state = s]
  PROVE  OnlyStateDiffers(q, r, s)
  BY DEF GatherRecords, GatherStates, OnlyStateDiffers

\* A waiter is registered: the records have every field replaced.
LEMMA WaitForKeeps ==
  ASSUME OpInv, NEW f \in Futures, NEW k \in Awaited, NEW p \in PauseFlags, NEW u \in PauseFlags,
         WaitFor(f, k, p, u)
  PROVE  OpInv'
<1> DEFINE d == Dispatched
<1>1. /\ future' = [future EXCEPT ![f] = [@ EXCEPT !.state = "waiting", !.kind = k, !.pause = p, !.since = d]]
      /\ UnpauseIf(u)
      /\ UNCHANGED <<messages, sent, pending, blocked, dispatcher, thread, callback, gather, upset>>
  BY DEF WaitFor
<1>2. k \in Kinds /\ p \in BOOLEAN /\ u \in BOOLEAN
  BY OperationManagerAssumption
<1>3. d \in SUBSET Nat
  <2>1. sent \in Seq(Kinds)
    BY DEF OpInv, MessageTypes
  <2> QED
    BY <2>1 DEF Dispatched
<1>4. MessageTypes /\ GathersHold
  BY DEF OpInv
<1>5. PausesMove
  BY <1>1, <1>2, <1>4, UnpauseIfMoves
<1>6. future \in [Futures -> FutureRecords]
  BY DEF OpInv, MessageTypes
<1> HIDE DEF d
<1> DEFINE new == [future[f] EXCEPT !.state = "waiting", !.kind = k, !.pause = p, !.since = d]
<1>7. new \in FutureRecords
  <2>1. PICK s, k0, p0, c, o : /\ future[f] = [state |-> s, kind |-> k0, pause |-> p0, since |-> c, got |-> o]
                               /\ o \in Nat \cup {NULL}
    BY <1>6 DEF FutureRecords
  <2>2. [future[f] EXCEPT !.state = "waiting"] = [state |-> "waiting", kind |-> k0, pause |-> p0, since |-> c, got |-> o]
    BY <2>1
  <2>3. [[state |-> "waiting", kind |-> k0, pause |-> p0, since |-> c, got |-> o] EXCEPT !.kind = k]
          = [state |-> "waiting", kind |-> k, pause |-> p0, since |-> c, got |-> o]
    OBVIOUS
  <2>4. [[state |-> "waiting", kind |-> k, pause |-> p0, since |-> c, got |-> o] EXCEPT !.pause = p]
          = [state |-> "waiting", kind |-> k, pause |-> p, since |-> c, got |-> o]
    OBVIOUS
  <2>5. [[state |-> "waiting", kind |-> k, pause |-> p, since |-> c, got |-> o] EXCEPT !.since = d]
          = [state |-> "waiting", kind |-> k, pause |-> p, since |-> d, got |-> o]
    OBVIOUS
  <2>6. new = [[[[future[f] EXCEPT !.state = "waiting"] EXCEPT !.kind = k] EXCEPT !.pause = p] EXCEPT !.since = d]
    BY Zenon
  <2>7. new = [state |-> "waiting", kind |-> k, pause |-> p, since |-> d, got |-> o]
    BY <2>2, <2>3, <2>4, <2>5, <2>6, Zenon
  <2> HIDE DEF new
  <2> QED
    BY <1>2, <1>3, <2>1, <2>7 DEF FutureRecords
<1>8. future' = [future EXCEPT ![f] = new]
  BY <1>1, Zenon
<1> HIDE DEF new
<1>9. future' \in [Futures -> FutureRecords] /\ \A h \in Futures : h # f => future'[h] = future[h]
  BY <1>6, <1>7, <1>8
<1> QED
  BY <1>1, <1>4, <1>5, <1>9, WaitersKeep DEF MessageTypes

LEMMA GatherCountKeeps ==
  ASSUME OpInv, NEW g \in Gathers, NEW k \in Kinds, NEW p \in PauseFlags, NEW u \in PauseFlags,
         GatherCount(g, k, p, u)
  PROVE  OpInv'
<1> DEFINE new == [gather[g] EXCEPT !.state = "gathering", !.kind = k, !.pause = p]
<1>1. /\ gather[g].state = "new" /\ gather' = [gather EXCEPT ![g] = new]
      /\ UnpauseIf(u)
      /\ UNCHANGED <<messages, sent, pending, blocked, dispatcher, thread, future, callback, upset>>
  BY DEF GatherCount
<1>2. p \in BOOLEAN /\ u \in BOOLEAN
  BY OperationManagerAssumption
<1>3. MessageTypes /\ GathersHold
  BY DEF OpInv
<1>4. PausesMove
  BY <1>1, <1>2, <1>3, UnpauseIfMoves
<1>5. gather \in [Gathers -> GatherRecords] /\ gather[g].accum = 0
  BY <1>1 DEF OpInv, MessageTypes, GathersHold
<1>6. new \in GatherRecords /\ new.state = "gathering" /\ new.accum = 0
  <2>1. PICK s, k0, p0, a : gather[g] = [state |-> s, kind |-> k0, pause |-> p0, accum |-> a]
    BY <1>5 DEF GatherRecords
  <2>2. a = 0
    BY <1>5, <2>1
  <2>3. [gather[g] EXCEPT !.state = "gathering"] = [state |-> "gathering", kind |-> k0, pause |-> p0, accum |-> a]
    BY <2>1
  <2>4. [[state |-> "gathering", kind |-> k0, pause |-> p0, accum |-> a] EXCEPT !.kind = k]
          = [state |-> "gathering", kind |-> k, pause |-> p0, accum |-> a]
    OBVIOUS
  <2>5. [[state |-> "gathering", kind |-> k, pause |-> p0, accum |-> a] EXCEPT !.pause = p]
          = [state |-> "gathering", kind |-> k, pause |-> p, accum |-> a]
    OBVIOUS
  <2>6. new = [[[gather[g] EXCEPT !.state = "gathering"] EXCEPT !.kind = k] EXCEPT !.pause = p]
    BY Zenon
  <2>7. new = [state |-> "gathering", kind |-> k, pause |-> p, accum |-> a]
    BY <2>3, <2>4, <2>5, <2>6, Zenon
  <2> HIDE DEF new
  <2>8. "gathering" \in GatherStates /\ a \in Nat
    BY <2>2 DEF GatherStates
  <2>9. new \in GatherRecords
    BY <1>2, <2>7, <2>8 DEF GatherRecords
  <2>10. new.state = "gathering" /\ new.accum = 0
    BY <2>2, <2>7
  <2> QED
    BY <2>9, <2>10
<1> HIDE DEF new
<1>7. gather' \in [Gathers -> GatherRecords] /\ gather'[g] = new /\ \A h \in Gathers : h # g => gather'[h] = gather[h]
  BY <1>1, <1>5, <1>6
<1> QED
  BY <1>1, <1>3, <1>4, <1>6, <1>7, WaitersKeep DEF MessageTypes

\* Timeouts, done callbacks, registrations, clear(), the ends of gather_count() and unpause().
LEMMA OtherWaitersKeep ==
  ASSUME OpInv,
         \/ \E f \in Futures : TimeOut(f) \/ RemoveDone(f)
         \/ Clear
         \/ \E c \in Callbacks, k \in Kinds : EveryMatch(c, k)
         \/ \E c \in Callbacks : RemoveWaiter(c)
         \/ \E g \in Gathers : GatherReturns(g)
         \/ Unpause
         \/ UNCHANGED opVars
  PROVE  OpInv'
<1>0. /\ MessageTypes /\ GathersHold
      /\ future \in [Futures -> FutureRecords] /\ gather \in [Gathers -> GatherRecords]
      /\ callback \in [Callbacks -> Kinds \cup {NULL}]
  BY DEF OpInv, MessageTypes
<1>1. ASSUME NEW f \in Futures, NEW s \in {"done", "removed"}, future' = [future EXCEPT ![f].state = s],
             UNCHANGED <<queueVars, pauseCount, callback, gather>>
      PROVE  OpInv'
  <2>1. future[f] \in FutureRecords
    BY <1>0
  <2>2. future'[f] = [future[f] EXCEPT !.state = s] /\ \A h \in Futures : h # f => future'[h] = future[h]
    BY <1>0, <1>1
  <2>3. /\ future'[f] \in FutureRecords
        /\ future'[f].kind = future[f].kind /\ future'[f].since = future[f].since
        /\ future'[f].got = future[f].got /\ future'[f].state \in {"done", "removed"}
    BY <2>1, <2>2, FutureRecord
  <2>4. future' = [h \in Futures |-> future'[h]]
    BY <1>0, <1>1
  <2>5. future' \in [Futures -> FutureRecords]
    BY <1>0, <2>2, <2>3, <2>4
  <2>6. PausesMove
    BY <1>0, <1>1, NoPauseMoves DEF queueVars
  <2> QED
    BY <1>0, <1>1, <2>2, <2>3, <2>5, <2>6, WaitersKeep DEF queueVars
<1>2. ASSUME NEW f \in Futures, TimeOut(f) \/ RemoveDone(f) PROVE OpInv'
  BY <1>1, <1>2 DEF TimeOut, RemoveDone
<1>3. CASE Clear
  <2>1. ASSUME NEW f \in Futures
        PROVE  /\ future'[f] \in FutureRecords
               /\ future'[f].kind = future[f].kind /\ future'[f].since = future[f].since
               /\ future'[f].got = future[f].got
               /\ future'[f].state = future[f].state \/ future'[f].state \in {"done", "removed"}
    <3>1. future[f] \in FutureRecords
      BY <1>0
    <3>2. future'[f] = future[f] \/ future'[f] = [future[f] EXCEPT !.state = "removed"]
      BY <1>3 DEF Clear
    <3> QED
      BY <3>1, <3>2, FutureRecord
  <2>2. ASSUME NEW g \in Gathers
        PROVE  /\ gather'[g] \in GatherRecords
               /\ \/ gather'[g] = gather[g]
                  \/ /\ gather'[g].kind = gather[g].kind /\ gather'[g].pause = gather[g].pause
                     /\ gather'[g].accum = gather[g].accum /\ gather'[g].state = "dropped"
    <3>1. gather[g] \in GatherRecords
      BY <1>0
    <3>2. gather'[g] = gather[g] \/ gather'[g] = [gather[g] EXCEPT !.state = "dropped"]
      BY <1>3 DEF Clear
    <3>3. gather'[g] = gather[g] \/ OnlyStateDiffers(gather'[g], gather[g], "dropped")
      BY <3>1, <3>2, GatherRecord
    <3> QED
      BY <3>1, <3>3 DEF OnlyStateDiffers
  <2>3. future' = [f \in Futures |-> future'[f]] /\ gather' = [g \in Gathers |-> gather'[g]]
    BY <1>3 DEF Clear
  <2>4. future' \in [Futures -> FutureRecords] /\ gather' \in [Gathers -> GatherRecords]
    BY <2>1, <2>2, <2>3
  <2>5. callback' \in [Callbacks -> Kinds \cup {NULL}]
    BY <1>3 DEF Clear
  <2>6. PausesMove
    BY <1>0, <1>3, NoPauseMoves DEF Clear, queueVars
  <2> QED
    BY <1>3, <2>1, <2>2, <2>4, <2>5, <2>6, WaitersKeep DEF Clear, queueVars
<1>4. ASSUME NEW c \in Callbacks, NEW k \in Kinds, EveryMatch(c, k) PROVE OpInv'
  <2>1. callback' \in [Callbacks -> Kinds \cup {NULL}]
    BY <1>0, <1>4 DEF EveryMatch
  <2>2. PausesMove
    BY <1>0, <1>4, NoPauseMoves DEF EveryMatch, queueVars
  <2> QED
    BY <1>0, <1>4, <2>1, <2>2, WaitersKeep DEF EveryMatch, queueVars
<1>5. ASSUME NEW c \in Callbacks, RemoveWaiter(c) PROVE OpInv'
  <2>1. callback' \in [Callbacks -> Kinds \cup {NULL}]
    BY <1>0, <1>5 DEF RemoveWaiter
  <2>2. PausesMove
    BY <1>0, <1>5, NoPauseMoves DEF RemoveWaiter, queueVars
  <2> QED
    BY <1>0, <1>5, <2>1, <2>2, WaitersKeep DEF RemoveWaiter, queueVars
<1>6. ASSUME NEW g \in Gathers, GatherReturns(g) PROVE OpInv'
  <2>1. gather[g] \in GatherRecords
    BY <1>0
  <2> DEFINE s == IF gather[g].state = "complete" THEN "returned" ELSE "timed out"
  <2>2. gather' = [gather EXCEPT ![g].state = s]
    BY <1>6 DEF GatherReturns
  <2>3. s \in {"dropped", "returned", "timed out"}
    OBVIOUS
  <2> HIDE DEF s
  <2>4. gather'[g] = [gather[g] EXCEPT !.state = s] /\ \A h \in Gathers : h # g => gather'[h] = gather[h]
    BY <1>0, <2>2
  <2>5. /\ gather'[g] \in GatherRecords
        /\ gather'[g].kind = gather[g].kind /\ gather'[g].pause = gather[g].pause
        /\ gather'[g].accum = gather[g].accum /\ gather'[g].state \in {"dropped", "returned", "timed out"}
    <3>1. OnlyStateDiffers(gather'[g], gather[g], s)
      BY <2>1, <2>3, <2>4, GatherRecord
    <3> QED
      BY <2>3, <3>1 DEF OnlyStateDiffers
  <2>6. gather' = [h \in Gathers |-> gather'[h]]
    BY <1>0, <2>2
  <2>7. gather' \in [Gathers -> GatherRecords]
    BY <1>0, <2>4, <2>5, <2>6
  <2>8. PausesMove
    BY <1>0, <1>6, NoPauseMoves DEF GatherReturns, queueVars
  <2> QED
    BY <1>0, <1>6, <2>4, <2>5, <2>7, <2>8, WaitersKeep DEF GatherReturns, queueVars
<1>7. CASE Unpause
  <2>1. PausesMove
    BY <1>0, <1>7, UnpauseMoves DEF Unpause
  <2> QED
    BY <1>0, <1>7, <2>1, WaitersKeep DEF Unpause, waiterVars
<1>8. CASE UNCHANGED opVars
  <2>1. PausesMove
    BY <1>0, <1>8, NoPauseMoves DEF opVars
  <2> QED
    BY <1>0, <1>8, <2>1, WaitersKeep DEF opVars
<1> QED
  BY <1>2, <1>3, <1>4, <1>5, <1>6, <1>7, <1>8

-----------------------------------------------------------------------------
(* Steps of the queue, the threads and the dispatcher. *)

\* Nothing but flags and counts move.
LEMMA FlagsKeep ==
  ASSUME OpInv, WaitersStay, UNCHANGED <<messages, sent>>, upset \subseteq upset', upset' \subseteq {"raised", "raced"},
         pending' \in BOOLEAN, launched' \in Nat, blocked' \in Nat,
         dispatcher' \in {"none", "running", "awaiting"},
         thread' \in [Threads -> {"idle", "test", "set", "launch"}],
         PendingIsServed', NoMessageStuck'
  PROVE  OpInv'
<1>1. MessageTypes'
  BY DEF OpInv, MessageTypes, WaitersStay
<1>2. QueueInOrder'
  BY DEF OpInv, QueueInOrder
<1>3. GathersHold' /\ PausingGatherIsExact'
  BY WaitersStayKeeps DEF OpInv
<1>4. \A f \in Futures : FutureIsServed(f)'
  <2> SUFFICES ASSUME NEW f \in Futures PROVE FutureIsServed(f)'
    OBVIOUS
  <2>1. FutureIsServed(f)
    BY DEF OpInv
  <2> QED
    BY <2>1, FutureStays DEF WaitersStay
<1> QED
  BY <1>1, <1>2, <1>3, <1>4 DEF OpInv

\* A message is queued.
LEMMA EnqueueKeeps ==
  ASSUME OpInv, WaitersStay, NEW kind \in Kinds, Enqueue(kind), UNCHANGED <<blocked, dispatcher, upset>>,
         pending' \in BOOLEAN, launched' \in Nat,
         thread' \in [Threads -> {"idle", "test", "set", "launch"}],
         PendingIsServed', NoMessageStuck'
  PROVE  OpInv'
<1>0. MessageTypes /\ QueueInOrder
  BY DEF OpInv
<1>1. MessageTypes'
  BY <1>0, EnqueueFacts DEF MessageTypes, WaitersStay
<1>2. QueueInOrder'
  BY <1>0, EnqueueFacts
<1>3. GathersHold' /\ PausingGatherIsExact'
  BY WaitersStayKeeps DEF OpInv
<1>4. \A f \in Futures : FutureIsServed(f)'
  <2> SUFFICES ASSUME NEW f \in Futures PROVE FutureIsServed(f)'
    OBVIOUS
  <2>1. FutureIsServed(f)
    BY DEF OpInv
  <2> QED
    BY <1>0, <2>1, FutureAndEnqueue DEF WaitersStay
<1> QED
  BY <1>1, <1>2, <1>3, <1>4 DEF OpInv

\* process_all() is launched unless somebody has paused.
LEMMA LaunchFacts ==
  ASSUME MessageTypes, Launch
  PROVE  /\ launched' \in Nat /\ launched <= launched'
         /\ pauseCount = 0 => launched' > 0
<1>1. launched \in Nat
  BY DEF MessageTypes
<1>2. CASE pauseCount = 0
  BY <1>1, <1>2 DEF Launch
<1>3. CASE pauseCount # 0
  BY <1>1, <1>3 DEF Launch
<1> QED
  BY <1>2, <1>3

\* Whom NoMessageStuck and PendingIsServed count on, in the next state.
Served == launched' > 0 \/ blocked' > 0 \/ dispatcher' # "none" \/ \E t \in Threads : thread'[t] # "idle"

LEMMA ServedIsEnough ==
  ASSUME launched' \in Nat, blocked' \in Nat,
         upset' = {} /\ messages' # <<>> /\ pauseCount' = 0 => Served
  PROVE  NoMessageStuck'
  BY SomeLaunched DEF NoMessageStuck, Served

LEMMA QueueKeeps ==
  ASSUME OpInv, NEW k \in Kinds, Queue(k)
  PROVE  OpInv'
<1>0. MessageTypes /\ QueueInOrder /\ PendingIsServed
  BY DEF OpInv
<1>1. /\ Enqueue(k) /\ pending' = TRUE
      /\ UNCHANGED <<pauseCount, blocked, dispatcher, thread, future, callback, gather, upset>>
  BY DEF Queue, waiterVars
<1>2. messages' # <<>>
  BY <1>0, <1>1, EnqueueFacts
<1>3. launched \in Nat /\ blocked \in Nat /\ pauseCount \in Nat
  BY <1>0 DEF MessageTypes
<1>4. launched' \in Nat /\ launched <= launched'
  <2>1. CASE pending
    BY <1>3, <2>1 DEF Queue
  <2>2. CASE ~pending
    BY <1>0, <2>2, LaunchFacts DEF Queue
  <2> QED
    BY <2>1, <2>2
<1>5. ASSUME upset = {}, pauseCount = 0
      PROVE  launched' > 0 \/ \E t \in Threads : thread[t] = "launch"
  <2>1. CASE pending
    <3>1. launched' = launched
      BY <2>1 DEF Queue
    <3> QED
      BY <1>0, <1>5, <2>1, <3>1 DEF PendingIsServed
  <2>2. CASE ~pending
    BY <1>0, <1>5, <2>2, LaunchFacts DEF Queue
  <2> QED
    BY <2>1, <2>2
<1>6. pauseCount = 0 \/ pauseCount > 0
  BY <1>3
<1>7. PendingIsServed'
  BY <1>1, <1>2, <1>5, <1>6 DEF PendingIsServed
<1>8. NoMessageStuck'
  BY <1>1, <1>3, <1>4, <1>5, ServedIsEnough DEF Served
<1>9. pending' \in BOOLEAN
  BY <1>1, Zenon
<1>10. thread' \in [Threads -> {"idle", "test", "set", "launch"}]
  BY <1>0, <1>1 DEF MessageTypes
<1> QED
  BY <1>1, <1>4, <1>7, <1>8, <1>9, <1>10, EnqueueKeeps DEF WaitersStay

LEMMA ThreadsKeep ==
  ASSUME OpInv, NEW t \in Threads,
         \/ \E k \in Kinds : ThreadAppends(t, k)
         \/ ThreadTests(t) \/ ThreadSets(t) \/ ThreadLaunches(t)
  PROVE  OpInv'
<1>0. /\ MessageTypes /\ PendingIsServed /\ NoMessageStuck
      /\ launched \in Nat /\ blocked \in Nat /\ pauseCount \in Nat
      /\ thread \in [Threads -> {"idle", "test", "set", "launch"}]
      /\ pauseCount = 0 \/ pauseCount > 0
  <2>1. MessageTypes /\ PendingIsServed /\ NoMessageStuck
    BY DEF OpInv
  <2>2. launched \in Nat /\ blocked \in Nat /\ pauseCount \in Nat
    BY <2>1 DEF MessageTypes
  <2>3. pauseCount = 0 \/ pauseCount > 0
    BY <2>2
  <2> QED
    BY <2>1, <2>2, <2>3 DEF MessageTypes
<1>1. ASSUME NEW k \in Kinds, ThreadAppends(t, k) PROVE OpInv'
  <2>1. /\ Enqueue(k) /\ thread' = [thread EXCEPT ![t] = "test"] /\ thread[t] = "idle"
        /\ UNCHANGED <<pending, pauseCount, launched, blocked, dispatcher, future, callback, gather, upset>>
    BY <1>1 DEF ThreadAppends, waiterVars
  <2>2. /\ thread' \in [Threads -> {"idle", "test", "set", "launch"}] /\ thread'[t] = "test"
        /\ \A s \in Threads : thread[s] = "launch" => thread'[s] = "launch"
    BY <1>0, <2>1
  <2>3. messages' # <<>>
    BY <1>0, <2>1, EnqueueFacts DEF OpInv
  <2>4. PendingIsServed'
    BY <1>0, <2>1, <2>2, <2>3 DEF PendingIsServed
  <2>5. NoMessageStuck'
    BY <1>0, <2>1, <2>2, ServedIsEnough DEF Served
  <2>6. pending' \in BOOLEAN /\ launched' \in Nat
    BY <1>0, <2>1 DEF MessageTypes
  <2> QED
    BY <2>1, <2>2, <2>4, <2>5, <2>6, EnqueueKeeps DEF WaitersStay
<1>2. CASE ThreadTests(t)
  <2>1. /\ thread[t] = "test" /\ thread' = [thread EXCEPT ![t] = IF pending THEN "idle" ELSE "set"]
        /\ UNCHANGED <<messages, sent, pending, pauseCount, launched, blocked, dispatcher, future, callback, gather, upset>>
    BY <1>2 DEF ThreadTests, waiterVars
  <2>2. /\ thread' \in [Threads -> {"idle", "test", "set", "launch"}]
        /\ \A s \in Threads : thread[s] = "launch" => thread'[s] = "launch"
        /\ ~pending => thread'[t] = "set"
    BY <1>0, <2>1
  <2>3. PendingIsServed'
    BY <1>0, <2>1, <2>2 DEF PendingIsServed
  <2>4. ASSUME upset = {}, pauseCount = 0 PROVE Served
    <3>1. CASE pending
      BY <1>0, <2>1, <2>2, <2>4, <3>1 DEF PendingIsServed, Served
    <3>2. CASE ~pending
      BY <2>2, <3>2 DEF Served
    <3> QED
      BY <3>1, <3>2
  <2>5. NoMessageStuck'
    BY <1>0, <2>1, <2>4, ServedIsEnough
  <2> QED
    BY <1>0, <2>1, <2>2, <2>3, <2>5, FlagsKeep DEF WaitersStay, MessageTypes
<1>3. CASE ThreadSets(t)
  <2>1. /\ pending' = TRUE /\ thread[t] = "set" /\ thread' = [thread EXCEPT ![t] = "launch"]
        /\ UNCHANGED <<messages, sent, pauseCount, launched, blocked, dispatcher, future, callback, gather, upset>>
    BY <1>3 DEF ThreadSets, waiterVars
  <2>2. thread' \in [Threads -> {"idle", "test", "set", "launch"}] /\ thread'[t] = "launch"
    BY <1>0, <2>1
  <2>3. PendingIsServed'
    BY <2>2 DEF PendingIsServed
  <2>4. NoMessageStuck'
    BY <1>0, <2>1, <2>2, ServedIsEnough DEF Served
  <2>5. pending' \in BOOLEAN
    BY <2>1, Zenon
  <2> QED
    BY <1>0, <2>1, <2>2, <2>3, <2>4, <2>5, FlagsKeep DEF WaitersStay, MessageTypes
<1>4. CASE ThreadLaunches(t)
  <2>1. /\ Launch /\ thread[t] = "launch" /\ thread' = [thread EXCEPT ![t] = "idle"]
        /\ upset' = IF pauseCount > 0 /\ messages = <<>> THEN upset \cup {"raced"} ELSE upset
        /\ UNCHANGED <<messages, sent, pending, pauseCount, blocked, dispatcher, future, callback, gather>>
    BY <1>4 DEF ThreadLaunches
  <2>2. thread' \in [Threads -> {"idle", "test", "set", "launch"}]
    BY <1>0, <2>1
  <2>3. /\ launched' \in Nat /\ launched <= launched'
        /\ pauseCount = 0 => launched' > 0
    BY <1>0, <2>1, LaunchFacts
  <2>4. /\ upset \subseteq upset' /\ upset' \subseteq {"raised", "raced"}
        /\ upset' = {} => pauseCount = 0 \/ messages # <<>>
    BY <1>0, <2>1 DEF MessageTypes
  <2>5. PendingIsServed'
    BY <1>0, <2>1, <2>3, <2>4 DEF PendingIsServed
  <2>6. NoMessageStuck'
    BY <1>0, <2>1, <2>3, ServedIsEnough DEF Served
  <2> QED
    BY <1>0, <2>1, <2>2, <2>3, <2>4, <2>5, <2>6, FlagsKeep DEF WaitersStay, MessageTypes
<1> QED
  BY <1>1, <1>2, <1>3, <1>4

\* process_all() begins, takes its lock, finds nothing to do, or goes on.
LEMMA LocksKeep ==
  ASSUME OpInv, ProcessAll \/ TakeLock \/ Halt \/ ProcessorsEnd
  PROVE  OpInv'
<1>0. /\ MessageTypes /\ PendingIsServed /\ NoMessageStuck
      /\ launched \in Nat /\ blocked \in Nat /\ pauseCount \in Nat
      /\ thread \in [Threads -> {"idle", "test", "set", "launch"}]
      /\ pending \in BOOLEAN /\ upset \subseteq {"raised", "raced"}
  BY DEF OpInv, MessageTypes
<1>1. CASE ProcessAll
  <2>1. /\ launched > 0 /\ launched' = launched - 1 /\ pending' = FALSE
        /\ UNCHANGED <<messages, sent, pauseCount, thread, future, callback, gather, upset>>
    BY <1>1 DEF ProcessAll, waiterVars
  <2>2. launched' \in Nat
    BY <1>0, <2>1
  <2>3. /\ blocked' \in Nat /\ dispatcher' \in {"none", "running", "awaiting"}
        /\ blocked' > 0 \/ dispatcher' # "none"
    <3>1. CASE dispatcher = "none"
      BY <1>0, <1>1, <3>1 DEF ProcessAll
    <3>2. CASE dispatcher # "none"
      BY <1>0, <1>1, <3>2 DEF ProcessAll, MessageTypes
    <3> QED
      BY <3>1, <3>2
  <2>4. PendingIsServed'
    BY <2>1 DEF PendingIsServed
  <2>5. NoMessageStuck'
    BY <2>2, <2>3, ServedIsEnough DEF Served
  <2>6. pending' \in BOOLEAN
    BY <2>1, Zenon
  <2> QED
    BY <1>0, <2>1, <2>2, <2>3, <2>4, <2>5, <2>6, FlagsKeep DEF WaitersStay
<1>2. CASE TakeLock
  <2>1. /\ blocked > 0 /\ blocked' = blocked - 1 /\ dispatcher' = "running"
        /\ UNCHANGED <<messages, sent, pending, pauseCount, launched, thread, future, callback, gather, upset>>
    BY <1>2 DEF TakeLock, waiterVars
  <2>2. blocked' \in Nat
    BY <1>0, <2>1
  <2>3. PendingIsServed'
    BY <1>0, <2>1 DEF PendingIsServed
  <2>4. NoMessageStuck'
    BY <1>0, <2>1, <2>2, ServedIsEnough DEF Served
  <2> QED
    BY <1>0, <2>1, <2>2, <2>3, <2>4, FlagsKeep DEF WaitersStay
<1>3. CASE Halt
  <2>1. /\ Halts /\ dispatcher' = "none"
        /\ UNCHANGED <<messages, sent, pending, pauseCount, launched, blocked, thread, future, callback, gather, upset>>
    BY <1>3 DEF Halt, waiterVars
  <2>2. PendingIsServed'
    BY <1>0, <2>1 DEF PendingIsServed
  <2>3. ~(messages' # <<>> /\ pauseCount' = 0)
    BY <1>0, <2>1 DEF Halts
  <2>4. NoMessageStuck'
    BY <2>3 DEF NoMessageStuck
  <2> QED
    BY <1>0, <2>1, <2>2, <2>4, FlagsKeep DEF WaitersStay
<1>4. CASE ProcessorsEnd
  <2>1. /\ dispatcher' = "running"
        /\ UNCHANGED <<messages, sent, pending, pauseCount, launched, blocked, thread, future, callback, gather, upset>>
    BY <1>4 DEF ProcessorsEnd, waiterVars
  <2>2. PendingIsServed'
    BY <1>0, <2>1 DEF PendingIsServed
  <2>3. NoMessageStuck'
    BY <1>0, <2>1, ServedIsEnough DEF Served
  <2> QED
    BY <1>0, <2>1, <2>2, <2>3, FlagsKeep DEF WaitersStay
<1> QED
  BY <1>1, <1>2, <1>3, <1>4

\* Whether process_message() raises or not, those it reaches wait for the message.
LEMMA ReachedFacts ==
  ASSUME MessageTypes, NEW id \in Nat, NEW kind, GiveAll(id, kind) \/ GiveSome(id, kind)
  PROVE  /\ upset \subseteq upset' /\ upset' \subseteq {"raised", "raced"}
         /\ \E fs \in SUBSET Futures, gs \in SUBSET Gathers, pauses \in {0, 1} :
              /\ Give(id, fs, gs, pauses)
              /\ \A f \in fs : Waiting(f, kind)
              /\ \A g \in gs : Gathering(g) /\ gather[g].kind = kind
              /\ (upset' = upset /\ fs = MatchingFutures(kind)) \/ "raised" \in upset'
<1>0. upset \subseteq {"raised", "raced"}
  BY DEF MessageTypes
<1>1. MatchingFutures(kind) \in SUBSET Futures /\ MatchingGathers(kind) \in SUBSET Gathers
  BY DEF MatchingFutures, MatchingGathers
<1>2. /\ \A f \in MatchingFutures(kind) : Waiting(f, kind)
      /\ \A g \in MatchingGathers(kind) : Gathering(g) /\ gather[g].kind = kind
  BY DEF MatchingFutures, MatchingGathers
<1> DEFINE P(fs, gs, pauses) ==
             /\ Give(id, fs, gs, pauses)
             /\ \A f \in fs : Waiting(f, kind)
             /\ \A g \in gs : Gathering(g) /\ gather[g].kind = kind
             /\ (upset' = upset /\ fs = MatchingFutures(kind)) \/ "raised" \in upset'
<1>3. CASE GiveAll(id, kind)
  <2>1. upset' = upset /\ P(MatchingFutures(kind), MatchingGathers(kind), 0)
    BY <1>2, <1>3 DEF GiveAll
  <2> HIDE DEF P
  <2>2. \E fs \in SUBSET Futures, gs \in SUBSET Gathers, pauses \in {0, 1} : P(fs, gs, pauses)
    BY <1>1, <2>1
  <2> QED
    BY <1>0, <2>1, <2>2 DEF P
<1>4. CASE GiveSome(id, kind)
  <2>1. PICK f \in Lingering(kind), before \in SUBSET MatchingFutures(kind), between \in SUBSET MatchingGathers(kind) :
          Give(id, before, between, IF future[f].pause THEN 1 ELSE 0)
    BY <1>4 DEF GiveSome
  <2> DEFINE pauses == IF future[f].pause THEN 1 ELSE 0
  <2>2. upset' = upset \cup {"raised"}
    BY <1>4 DEF GiveSome
  <2>3. pauses \in {0, 1}
    OBVIOUS
  <2>4. Give(id, before, between, pauses)
    BY <2>1
  <2> HIDE DEF pauses
  <2>5. before \in SUBSET Futures /\ between \in SUBSET Gathers
    BY <1>1
  <2>6. P(before, between, pauses)
    BY <1>2, <2>2, <2>4
  <2> HIDE DEF P
  <2>7. \E fs \in SUBSET Futures, gs \in SUBSET Gathers, p \in {0, 1} : P(fs, gs, p)
    BY <2>3, <2>5, <2>6
  <2> QED
    BY <1>0, <2>2, <2>7 DEF P
<1> QED
  BY <1>3, <1>4

\* A message that is queued goes to those that wait, and none of them has completed and
\* holds a pause, because nobody has paused.
LEMMA DispatchKeeps ==
  ASSUME OpInv, Dispatch
  PROVE  OpInv'
<1> DEFINE id == Head(messages)
           kind == sent[id]
<1>0. /\ MessageTypes /\ QueueInOrder /\ PendingIsServed /\ NoMessageStuck /\ GathersHold /\ PausingGatherIsExact
      /\ \A f \in Futures : FutureIsServed(f)
  BY DEF OpInv
<1>1. /\ ~Halts /\ messages' = Tail(messages)
      /\ GiveAll(id, kind) \/ GiveSome(id, kind)
      /\ UNCHANGED <<sent, pending, launched, blocked, thread>>
      /\ GiveAll(id, kind) /\ ~GiveSome(id, kind) => dispatcher' # "none"
      /\ dispatcher' \in {"none", "running", "awaiting"}
  <2>1. /\ ~Halts /\ messages' = Tail(messages)
        /\ UNCHANGED <<sent, pending, launched, blocked, thread>>
    BY DEF Dispatch
  <2>2. \/ GiveAll(id, kind) /\ (dispatcher' = "awaiting" \/ dispatcher' = "running")
        \/ GiveSome(id, kind) /\ dispatcher' = "none"
    BY Zenon DEF Dispatch
  <2> QED
    BY <2>1, <2>2
<1>2. messages # <<>> /\ pauseCount = 0
  BY <1>0, <1>1 DEF Halts, MessageTypes
<1>3. /\ id \in Nat /\ messages' \in Seq(Nat) /\ \A i \in DOMAIN messages' : messages'[i] \in 1 .. Len(sent')
      /\ QueueInOrder'
  BY <1>0, <1>1, <1>2, DequeueFacts
<1> HIDE DEF id, kind
<1>4. upset \subseteq upset' /\ upset' \subseteq {"raised", "raced"}
  BY <1>0, <1>1, <1>3, ReachedFacts
<1>5. PICK fs \in SUBSET Futures, gs \in SUBSET Gathers, pauses \in {0, 1} :
              /\ Give(id, fs, gs, pauses)
              /\ \A f \in fs : Waiting(f, kind)
              /\ \A g \in gs : Gathering(g) /\ gather[g].kind = kind
              /\ (upset' = upset /\ fs = MatchingFutures(kind)) \/ "raised" \in upset'
  BY <1>0, <1>1, <1>3, ReachedFacts
<1>6. Given(id, fs, gs)
  BY <1>0, <1>3, <1>5, GiveFacts
<1>7. MessageTypes'
  BY <1>0, <1>1, <1>3, <1>4, <1>6 DEF MessageTypes, Given
<1>8. Holders = {}
  <2>1. Holders \in SUBSET Gathers
    BY DEF Holders
  <2>2. IsFiniteSet(Holders)
    BY <2>1, FS_Subset, OperationManagerAssumption
  <2>3. Cardinality(Holders) \in Nat /\ Cardinality(Holders) <= 0
    BY <1>0, <1>2, <2>2, FS_CardinalityType DEF GathersHold
  <2> QED
    BY <2>2, <2>3, FS_EmptySet
<1>9. GathersHold' /\ PausingGatherIsExact'
  <2>1. \A g \in gs : Gathering(g) /\ (gather[g].kind \in Direct \/ g \notin Holders)
    BY <1>5, <1>8
  <2> QED
    BY <1>0, <1>3, <1>5, <2>1, GiveKeepsGathers
<1>10. \A f \in Futures : FutureIsServed(f)'
  <2> SUFFICES ASSUME NEW f \in Futures PROVE FutureIsServed(f)'
    OBVIOUS
  <2> QED
    BY <1>0, <1>1, <1>2, <1>5, <1>6, FutureAndDispatch DEF id, kind
<1>11. PendingIsServed'
  <2>1. upset' = {} => upset = {}
    BY <1>4
  <2> QED
    BY <1>0, <1>1, <1>2, <2>1 DEF PendingIsServed
<1>12. NoMessageStuck'
  <2>1. CASE ~GiveSome(id, kind)
    <3>1. dispatcher' # "none"
      BY <1>1, <2>1
    <3> QED
      BY <3>1 DEF NoMessageStuck
  <2>2. CASE GiveSome(id, kind)
    <3>1. upset' # {}
      BY <2>2 DEF GiveSome
    <3> QED
      BY <3>1 DEF NoMessageStuck
  <2> QED
    BY <1>1, <2>1, <2>2
<1> QED
  BY <1>3, <1>7, <1>9, <1>10, <1>11, <1>12 DEF OpInv

\* A message that is not queued goes to those that wait, paused or not.
LEMMA ProcessMessageKeeps ==
  ASSUME OpInv, NEW kind \in Kinds, ProcessMessage(kind)
  PROVE  OpInv'
<1> DEFINE id == Len(sent) + 1
<1>0. /\ MessageTypes /\ QueueInOrder /\ PendingIsServed /\ NoMessageStuck /\ GathersHold /\ PausingGatherIsExact
      /\ \A f \in Futures : FutureIsServed(f)
  BY DEF OpInv
<1>1. /\ kind \in Direct /\ sent' = Append(sent, kind) /\ Len(sent) < MaxMessages
      /\ GiveAll(id, kind) \/ GiveSome(id, kind)
      /\ UNCHANGED <<messages, pending, launched, blocked, dispatcher, thread>>
  BY DEF ProcessMessage, MaySend
<1>2. /\ id \in Nat /\ sent' \in Seq(Kinds) /\ Len(sent') <= MaxMessages
      /\ messages' \in Seq(Nat)
      /\ \A i \in DOMAIN messages' : messages'[i] \in 1 .. Len(sent') /\ sent'[messages'[i]] = sent[messages[i]]
  <2>1. sent \in Seq(Kinds) /\ messages \in Seq(Nat) /\ \A i \in DOMAIN messages : messages[i] \in 1 .. Len(sent)
    BY <1>0 DEF MessageTypes
  <2>2. sent' \in Seq(Kinds) /\ Len(sent') = Len(sent) + 1 /\ \A i \in 1 .. Len(sent) : sent'[i] = sent[i]
    BY <1>1, <2>1
  <2> QED
    BY <1>1, <2>1, <2>2, OperationManagerAssumption
<1> HIDE DEF id
<1>3. QueueInOrder'
  BY <1>0, <1>1, <1>2 DEF QueueInOrder
<1>4. upset \subseteq upset' /\ upset' \subseteq {"raised", "raced"}
  BY <1>0, <1>1, <1>2, ReachedFacts
<1>5. PICK fs \in SUBSET Futures, gs \in SUBSET Gathers, pauses \in {0, 1} :
              /\ Give(id, fs, gs, pauses)
              /\ \A f \in fs : Waiting(f, kind)
              /\ \A g \in gs : Gathering(g) /\ gather[g].kind = kind
              /\ (upset' = upset /\ fs = MatchingFutures(kind)) \/ "raised" \in upset'
  BY <1>0, <1>1, <1>2, ReachedFacts
<1>6. Given(id, fs, gs)
  BY <1>0, <1>2, <1>5, GiveFacts
<1>7. MessageTypes'
  BY <1>0, <1>1, <1>2, <1>4, <1>6 DEF MessageTypes, Given
<1>8. GathersHold' /\ PausingGatherIsExact'
  <2>1. \A g \in gs : Gathering(g) /\ (gather[g].kind \in Direct \/ g \notin Holders)
    BY <1>1, <1>5
  <2> QED
    BY <1>0, <1>2, <1>5, <2>1, GiveKeepsGathers
<1>9. \A f \in Futures : FutureIsServed(f)'
  <2> SUFFICES ASSUME NEW f \in Futures PROVE FutureIsServed(f)'
    OBVIOUS
  <2> QED
    BY <1>0, <1>1, <1>5, <1>6, FutureAndDirect DEF id
<1>10. PendingIsServed' /\ NoMessageStuck'
  <2>1. /\ pauseCount' \in Nat /\ pauseCount' >= pauseCount /\ launched \in Nat
        /\ pauseCount \in Nat /\ launched' = launched /\ launched <= launched'
    BY <1>0, <1>1, <1>6 DEF Given, MessageTypes
  <2>2. pauseCount' = 0 => pauseCount = 0
    BY <2>1
  <2> QED
    BY <1>0, <1>1, <1>4, <2>1, <2>2, QueueIsServed
<1> QED
  BY <1>3, <1>7, <1>8, <1>9, <1>10 DEF OpInv

-----------------------------------------------------------------------------
(* The theorem about messages. *)

LEMMA OpInitInv == OpInit => OpInv
<1> SUFFICES ASSUME OpInit PROVE OpInv
  OBVIOUS
<1>1. /\ messages = <<>> /\ sent = <<>> /\ pending = FALSE /\ pauseCount = 0
      /\ launched = 0 /\ blocked = 0 /\ dispatcher = "none" /\ upset = {}
      /\ \A g \in Gathers : gather[g] = [state |-> "new", kind |-> NULL, pause |-> FALSE, accum |-> 0]
      /\ \A f \in Futures : future[f] = [state |-> "new", kind |-> NULL, pause |-> FALSE,
                                         since |-> {}, got |-> NULL]
  BY DEF OpInit
<1>2. /\ sent \in Seq(Kinds) /\ Len(sent) <= MaxMessages
      /\ messages \in Seq(Nat) /\ \A i \in DOMAIN messages : messages[i] \in 1 .. Len(sent)
  BY <1>1, OperationManagerAssumption
<1>3. future \in [Futures -> FutureRecords]
  BY DEF OpInit, FutureRecords
<1>4. gather \in [Gathers -> GatherRecords]
  BY DEF OpInit, GatherRecords, GatherStates
<1>5. /\ callback \in [Callbacks -> Kinds \cup {NULL}]
      /\ thread \in [Threads -> {"idle", "test", "set", "launch"}]
  BY DEF OpInit
<1>6. pending \in BOOLEAN
  BY <1>1, Zenon
<1>7. MessageTypes
  BY <1>1, <1>2, <1>3, <1>4, <1>5, <1>6 DEF MessageTypes
<1>8. Holders = {}
  BY <1>1 DEF Holders
<1>9. GathersHold /\ PausingGatherIsExact
  <2>1. \A g \in Gathers : gather[g].state = "new" /\ gather[g].accum = 0
    BY <1>1
  <2>2. Cardinality(Holders) <= pauseCount
    BY <1>1, <1>8, FS_EmptySet
  <2> QED
    BY <2>1, <2>2, CountIsPositive DEF GathersHold, PausingGatherIsExact
<1>10. \A f \in Futures : FutureIsServed(f)
  <2>1. \A f \in Futures : future[f].since = {} /\ future[f].got = NULL
    BY <1>1
  <2>2. DOMAIN sent = {}
    BY <1>1
  <2> QED
    BY <2>1, <2>2 DEF FutureIsServed
<1>11. QueueInOrder /\ PendingIsServed /\ NoMessageStuck
  <2>1. DOMAIN messages = {}
    BY <1>1
  <2> QED
    BY <1>1, <2>1 DEF QueueInOrder, PendingIsServed, NoMessageStuck
<1> QED
  BY <1>7, <1>9, <1>10, <1>11 DEF OpInv

LEMMA OpNextInv == OpInv /\ [OpNext]_opVars => OpInv'
<1> SUFFICES ASSUME OpInv, [OpNext]_opVars PROVE OpInv'
  OBVIOUS
<1>1. CASE \E f \in Futures, k \in Awaited, p, u \in PauseFlags : WaitFor(f, k, p, u)
  BY <1>1, WaitForKeeps
<1>2. CASE \E g \in Gathers, k \in Kinds, p, u \in PauseFlags : GatherCount(g, k, p, u)
  BY <1>2, GatherCountKeeps
<1>3. CASE \/ \E f \in Futures : TimeOut(f) \/ RemoveDone(f)
           \/ Clear
           \/ \E c \in Callbacks, k \in Kinds : EveryMatch(c, k)
           \/ \E c \in Callbacks : RemoveWaiter(c)
           \/ \E g \in Gathers : GatherReturns(g)
           \/ Unpause
           \/ UNCHANGED opVars
  BY <1>3, OtherWaitersKeep
<1>4. CASE \E k \in Kinds : Queue(k) \/ ProcessMessage(k)
  BY <1>4, QueueKeeps, ProcessMessageKeeps
<1>5. CASE \/ \E t \in Threads, k \in Kinds : ThreadAppends(t, k)
           \/ \E t \in Threads : ThreadTests(t) \/ ThreadSets(t) \/ ThreadLaunches(t)
  BY <1>5, ThreadsKeep
<1>6. CASE ProcessAll \/ TakeLock \/ Halt \/ ProcessorsEnd
  BY <1>6, LocksKeep
<1>7. CASE Dispatch
  BY <1>7, DispatchKeeps
<1> QED
  BY <1>1, <1>2, <1>3, <1>4, <1>5, <1>6, <1>7 DEF OpNext

LEMMA OpInvIsEnough == OpInv => MessagesAreDelivered
<1> SUFFICES ASSUME OpInv PROVE MessagesAreDelivered
  OBVIOUS
<1>1. messages \in Seq(1 .. Len(sent))
  <2>1. messages \in Seq(Nat) /\ \A i \in DOMAIN messages : messages[i] \in 1 .. Len(sent)
    BY DEF OpInv, MessageTypes
  <2> DEFINE S == 1 .. Len(sent)
  <2>2. \A i \in 1 .. Len(messages) : messages[i] \in S
    BY <2>1
  <2>3. messages = [i \in 1 .. Len(messages) |-> messages[i]] /\ Len(messages) \in Nat
    BY <2>1
  <2> HIDE DEF S
  <2>4. messages \in [1 .. Len(messages) -> S]
    BY <2>2, <2>3
  <2>5. messages \in Seq(S)
    BY <2>3, <2>4, SeqDef
  <2> QED
    BY <2>5 DEF S
<1>2. \A f \in Futures : future[f].state \in {"new", "waiting", "done", "removed"}
  BY DEF OpInv, MessageTypes, FutureRecords
<1>3. \A g \in Gathers : gather[g].state \in {"new", "gathering", "complete", "dropped", "returned", "timed out"}
  BY DEF OpInv, MessageTypes, GatherRecords, GatherStates
<1>4. OpTypeOK
  BY <1>1, <1>2, <1>3 DEF OpInv, MessageTypes, OpTypeOK
<1>5. FirstMatchIsReturned
  BY DEF OpInv, FutureIsServed, FirstMatchIsReturned, Range
<1> QED
  BY <1>4, <1>5 DEF OpInv, MessagesAreDelivered

\* Whatever is queued, from the loop or from threads, dispatched, paused, timed out or
\* registered, no message is left lying in the queue unpaused, a gather_count() that pauses
\* gets what it asked for, and a future the first message it waits for, but for the accidents
\* that upset records (OperationManager).
THEOREM MessagesReachTheirWaiters == OpSpec => []MessagesAreDelivered
  BY OpInitInv, OpNextInv, OpInvIsEnough, PTL DEF OpSpec

-----------------------------------------------------------------------------
(* Numbers. *)

LEMMA LeastNat ==
  ASSUME NEW T \in SUBSET Nat, T # {}
  PROVE  \E x \in T : \A y \in T : x <= y
<1> DEFINE F == {0 .. x : x \in T}
           R == StrictSubsetOrdering(Nat)
<1>1. F \subseteq FiniteSubsetsOf(Nat) /\ F # {}
  <2>1. \A x \in T : 0 .. x \in SUBSET Nat /\ IsFiniteSet(0 .. x)
    BY FS_Interval
  <2> QED
    BY <2>1 DEF FiniteSubsetsOf
<1>2. IsWellFoundedOn(R, FiniteSubsetsOf(Nat))
  BY FS_StrictSubsetOrderingWellFounded
<1> HIDE DEF R, F
<1>3. PICK A \in F : \A B \in F : ~ (<<B, A>> \in R)
  BY <1>1, <1>2, WFMin
<1>4. PICK x \in T : A = 0 .. x
  BY DEF F
<1>5. ASSUME NEW y \in T, y < x PROVE FALSE
  <2>1. 0 .. y \in F /\ 0 .. y \subseteq 0 .. x /\ x \in 0 .. x /\ x \notin 0 .. y
    BY <1>5 DEF F
  <2>2. <<0 .. y, 0 .. x>> \in (SUBSET Nat) \X (SUBSET Nat) /\ 0 .. y # 0 .. x
    BY <2>1
  <2>3. <<0 .. y, 0 .. x>> \in R
    BY <2>1, <2>2 DEF R, StrictSubsetOrdering
  <2> QED
    BY <1>3, <1>4, <2>1, <2>3
<1> QED
  BY <1>5


\* Induction on the numbers in a set.
LEMMA AllNat ==
  ASSUME NEW S, 0 \in S, \A k \in Nat : k \in S => k + 1 \in S
  PROVE  Nat \subseteq S
<1> SUFFICES ASSUME Nat \ S # {} PROVE FALSE
  OBVIOUS
<1>1. PICK m \in Nat \ S : \A k \in Nat \ S : m <= k
  BY LeastNat
<1>2. m # 0 /\ m - 1 \in Nat /\ (m - 1) + 1 = m
  BY <1>1
<1>3. m - 1 \in S
  BY <1>1, <1>2
<1> QED
  BY <1>1, <1>2, <1>3

-----------------------------------------------------------------------------
(* Adjustments. *)

Beginning(mons) == [monitors |-> mons, dropped |-> {}]

\* f is the monitors after each of the first n actions.
AdjustsBy(mons, actions, n, f) ==
    f = [k \in 0 .. n |-> IF k = 0 THEN Beginning(mons) ELSE AdjustedOnce(f[k - 1], actions[k])]

LEMMA AdjustsSteps ==
  ASSUME NEW mons, NEW actions, NEW n \in Nat, NEW f, AdjustsBy(mons, actions, n, f)
  PROVE  /\ f[0] = Beginning(mons)
         /\ \A k \in 1 .. n : f[k] = AdjustedOnce(f[k - 1], actions[k])
<1>1. \A k \in 0 .. n : f[k] = IF k = 0 THEN Beginning(mons) ELSE AdjustedOnce(f[k - 1], actions[k])
  BY DEF AdjustsBy
<1> QED
  BY <1>1

LEMMA AdjustsExist ==
  ASSUME NEW mons, NEW actions
  PROVE  \A n \in Nat : \E f : AdjustsBy(mons, actions, n, f)
<1> DEFINE S == {n \in Nat : \E f : AdjustsBy(mons, actions, n, f)}
<1>1. 0 \in S
  <2>1. AdjustsBy(mons, actions, 0, [k \in 0 .. 0 |-> Beginning(mons)])
    BY DEF AdjustsBy
  <2> QED
    BY <2>1
<1>2. ASSUME NEW m \in Nat, m \in S PROVE m + 1 \in S
  <2>1. PICK f : AdjustsBy(mons, actions, m, f)
    BY <1>2
  <2> DEFINE last == AdjustedOnce(f[m], actions[m + 1])
             g == [k \in 0 .. m + 1 |-> IF k = m + 1 THEN last ELSE f[k]]
  <2>2. f[0] = Beginning(mons) /\ \A k \in 1 .. m : f[k] = AdjustedOnce(f[k - 1], actions[k])
    BY <2>1, AdjustsSteps
  <2> HIDE DEF last
  <2>3. ASSUME NEW k \in 0 .. m + 1
        PROVE  g[k] = IF k = 0 THEN Beginning(mons) ELSE AdjustedOnce(g[k - 1], actions[k])
    <3>1. CASE k = m + 1
      <4>1. g[k] = last /\ g[k - 1] = f[m] /\ k # 0
        BY <3>1
      <4> QED
        BY <3>1, <4>1 DEF last
    <3>2. CASE k # m + 1 /\ k # 0
      <4>1. k \in 1 .. m /\ g[k] = f[k] /\ g[k - 1] = f[k - 1]
        BY <3>2
      <4> QED
        BY <2>2, <4>1
    <3>3. CASE k = 0
      BY <2>2, <3>3
    <3> QED
      BY <3>1, <3>2, <3>3
  <2>4. AdjustsBy(mons, actions, m + 1, g)
    <3>1. g = [k \in 0 .. m + 1 |-> g[k]]
      OBVIOUS
    <3> HIDE DEF g
    <3> QED
      BY <2>3, <3>1 DEF AdjustsBy
  <2> QED
    BY <2>4
<1> HIDE DEF S
<1>3. Nat \subseteq S
  BY <1>1, <1>2, AllNat
<1> QED
  BY <1>3 DEF S

\* What AdjustedFrom stands for.
LEMMA AdjustedFromIs ==
  ASSUME NEW mons, NEW actions, NEW n \in Nat, Len(actions) = n
  PROVE  \E f : AdjustsBy(mons, actions, n, f) /\ AdjustedFrom(mons, actions) = f[n]
<1> DEFINE f == CHOOSE f : AdjustsBy(mons, actions, Len(actions), f)
<1>1. AdjustsBy(mons, actions, n, f)
  BY AdjustsExist
<1>2. AdjustedFrom(mons, actions) = f[n]
  BY DEF AdjustedFrom, AdjustsBy, Beginning
<1> HIDE DEF f
<1> QED
  BY <1>1, <1>2

\* The monitors of f from its place p on are adjusted by each of n actions.
Steps(f, p, actions, n) ==
    \A k \in 1 .. n : f[p + k].monitors = AdjustMonitor(f[p + k - 1].monitors, actions[k])

LEMMA AdjustedOnceIs ==
  ASSUME NEW mons, NEW actions, NEW n \in Nat, NEW f, AdjustsBy(mons, actions, n, f)
  PROVE  f[0].monitors = mons /\ Steps(f, 0, actions, n)
<1>1. f[0] = Beginning(mons) /\ \A k \in 1 .. n : f[k] = AdjustedOnce(f[k - 1], actions[k])
  BY AdjustsSteps
<1>2. f[0].monitors = mons
  BY <1>1 DEF Beginning
<1>3. ASSUME NEW k \in 1 .. n
      PROVE  f[0 + k].monitors = AdjustMonitor(f[0 + k - 1].monitors, actions[k])
  <2>1. f[k] = AdjustedOnce(f[k - 1], actions[k]) /\ 0 + k = k /\ 0 + k - 1 = k - 1
    BY <1>1
  <2>2. AdjustedOnce(f[k - 1], actions[k]).monitors = AdjustMonitor(f[k - 1].monitors, actions[k])
    BY DEF AdjustedOnce
  <2> QED
    BY <2>1, <2>2
<1> QED
  BY <1>2, <1>3 DEF Steps

\* Two that adjust alike from where they agree, agree in the end.
LEMMA AdjustsAgree ==
  ASSUME NEW f, NEW g, NEW actions, NEW p \in Nat, NEW n \in Nat, f[p].monitors = g[0].monitors,
         Steps(f, p, actions, n), Steps(g, 0, actions, n)
  PROVE  f[p + n].monitors = g[n].monitors
<1> DEFINE S == {k \in Nat : k <= n => f[p + k].monitors = g[k].monitors}
<1>1. 0 \in S
  <2>1. p + 0 = p
    OBVIOUS
  <2> QED
    BY <2>1
<1>2. ASSUME NEW k \in Nat, k \in S PROVE k + 1 \in S
  <2>1. CASE k + 1 <= n
    <3>1. k + 1 \in 1 .. n /\ k <= n /\ p + (k + 1) - 1 = p + k /\ (k + 1) - 1 = k
      BY <2>1
    <3>2. f[p + k].monitors = g[k].monitors
      BY <1>2, <3>1
    <3>3. /\ f[p + (k + 1)].monitors = AdjustMonitor(f[p + (k + 1) - 1].monitors, actions[k + 1])
          /\ g[0 + (k + 1)].monitors = AdjustMonitor(g[0 + (k + 1) - 1].monitors, actions[k + 1])
      BY <3>1 DEF Steps
    <3>4. 0 + (k + 1) = k + 1 /\ 0 + (k + 1) - 1 = k
      OBVIOUS
    <3>5. f[p + (k + 1)].monitors = g[k + 1].monitors
      BY <3>1, <3>2, <3>3, <3>4
    <3> QED
      BY <3>5
  <2>2. CASE ~(k + 1 <= n)
    BY <2>2
  <2> QED
    BY <2>1, <2>2
<1> HIDE DEF S
<1>3. n \in S
  BY <1>1, <1>2, AllNat
<1> QED
  BY <1>3 DEF S

\* To adjust twice is to adjust by what is said one after the other.
LEMMA AdjustedTwice ==
  ASSUME NEW mons, NEW s \in Seq(Adjustments), NEW t \in Seq(Adjustments)
  PROVE  AdjustedFrom(mons, s \o t).monitors = AdjustedFrom(AdjustedFrom(mons, s).monitors, t).monitors
<1> DEFINE p == Len(s)  n == Len(t)
<1>1. /\ p \in Nat /\ n \in Nat /\ Len(s \o t) = p + n
      /\ \A k \in 1 .. p : (s \o t)[k] = s[k]
      /\ \A k \in 1 .. n : (s \o t)[p + k] = t[k]
  BY ConcatProperties
<1> DEFINE u == s \o t
<1> HIDE DEF u, p, n
<1>2. PICK f : AdjustsBy(mons, u, p + n, f) /\ AdjustedFrom(mons, u) = f[p + n]
  <2>1. p + n \in Nat /\ Len(u) = p + n
    BY <1>1 DEF u
  <2> QED
    BY <2>1, AdjustedFromIs
<1>3. PICK g : AdjustsBy(mons, s, p, g) /\ AdjustedFrom(mons, s) = g[p]
  BY <1>1, AdjustedFromIs DEF p
<1>4. PICK h : AdjustsBy(g[p].monitors, t, n, h) /\ AdjustedFrom(g[p].monitors, t) = h[n]
  <2>1. \A mid : \E h : AdjustsBy(mid, t, n, h) /\ AdjustedFrom(mid, t) = h[n]
    BY <1>1, AdjustedFromIs DEF n
  <2> QED
    BY <2>1, Zenon
<1>5. f[0].monitors = mons /\ Steps(f, 0, u, p + n)
  <2>1. p + n \in Nat
    BY <1>1
  <2> QED
    BY <1>2, <2>1, AdjustedOnceIs
<1>6. g[0].monitors = mons /\ Steps(g, 0, s, p)
  BY <1>1, <1>3, AdjustedOnceIs
<1>7. h[0].monitors = g[p].monitors /\ Steps(h, 0, t, n)
  BY <1>1, <1>4, AdjustedOnceIs
<1>8. f[p].monitors = g[p].monitors
  <2>1. Steps(f, 0, s, p)
    <3>1. ASSUME NEW k \in 1 .. p
          PROVE  f[0 + k].monitors = AdjustMonitor(f[0 + k - 1].monitors, s[k])
      <4>1. k \in 1 .. p + n /\ u[k] = s[k]
        BY <1>1 DEF u
      <4>2. f[0 + k].monitors = AdjustMonitor(f[0 + k - 1].monitors, u[k])
        BY <1>5, <4>1 DEF Steps
      <4> QED
        BY <4>1, <4>2
    <3> QED
      BY <3>1 DEF Steps
  <2>2. f[0].monitors = g[0].monitors
    BY <1>5, <1>6
  <2>3. f[0 + p].monitors = g[p].monitors
    BY <1>1, <1>6, <2>1, <2>2, AdjustsAgree
  <2>4. 0 + p = p
    BY <1>1
  <2> QED
    BY <2>3, <2>4
<1>9. f[p + n].monitors = h[n].monitors
  <2>1. Steps(f, p, t, n)
    <3>1. ASSUME NEW k \in 1 .. n
          PROVE  f[p + k].monitors = AdjustMonitor(f[p + k - 1].monitors, t[k])
      <4>1. p + k \in 1 .. p + n
        BY <1>1
      <4>2. u[p + k] = t[k]
        BY <1>1 DEF u
      <4>3. 0 + (p + k) = p + k /\ 0 + (p + k) - 1 = p + k - 1
        BY <1>1
      <4>4. f[0 + (p + k)].monitors = AdjustMonitor(f[0 + (p + k) - 1].monitors, u[p + k])
        BY <1>5, <4>1 DEF Steps
      <4> QED
        BY <4>2, <4>3, <4>4
    <3> QED
      BY <3>1 DEF Steps
  <2>2. f[p].monitors = h[0].monitors
    BY <1>7, <1>8
  <2> QED
    BY <1>1, <1>7, <2>1, <2>2, AdjustsAgree
<1> QED
  BY <1>2, <1>3, <1>4, <1>9 DEF u

LEMMA AdjustedByNone ==
  ASSUME NEW mons
  PROVE  AdjustedFrom(mons, <<>>).monitors = mons
<1>1. PICK f : AdjustsBy(mons, <<>>, 0, f) /\ AdjustedFrom(mons, <<>>) = f[0]
  <2>1. Len(<<>>) = 0
    OBVIOUS
  <2> QED
    BY <2>1, AdjustedFromIs
<1> QED
  BY <1>1, AdjustedOnceIs

LEMMA AdjustedByOne ==
  ASSUME NEW mons, NEW a
  PROVE  AdjustedFrom(mons, <<a>>).monitors = AdjustMonitor(mons, a)
<1> DEFINE s == <<a>>
<1>1. Len(s) = 1 /\ s[1] = a
  OBVIOUS
<1> HIDE DEF s
<1>2. PICK f : AdjustsBy(mons, s, 1, f) /\ AdjustedFrom(mons, s) = f[1]
  BY <1>1, AdjustedFromIs
<1>3. f[0].monitors = mons /\ Steps(f, 0, s, 1)
  BY <1>2, AdjustedOnceIs
<1>4. f[1].monitors = AdjustMonitor(f[0].monitors, s[1])
  <2>1. 0 + 1 = 1 /\ 0 + 1 - 1 = 0 /\ 1 \in 1 .. 1
    OBVIOUS
  <2>2. f[0 + 1].monitors = AdjustMonitor(f[0 + 1 - 1].monitors, s[1])
    BY <1>3, <2>1 DEF Steps
  <2> QED
    BY <2>1, <2>2
<1> QED
  BY <1>1, <1>2, <1>3, <1>4 DEF s

MonitorTypes == [Slots -> SUBSET Handles]

\* What one adjustment does.
LEMMA AdjustMonitorIs ==
  ASSUME NEW mons \in MonitorTypes, NEW a \in Adjustments
  PROVE  /\ AdjustMonitor(mons, a) \in MonitorTypes
         /\ \A s \in Slots : AdjustMonitor(mons, a)[s] =
               IF a.kind = "add" /\ s \in a.devices \X a.events THEN mons[s] \cup {a.handle}
               ELSE IF (a.kind = "remove" /\ s \in a.devices \X a.events) \/ a.kind = "delete"
               THEN mons[s] \ {a.handle}
               ELSE mons[s]
<1>1. a.handle \in Handles /\ a.kind \in {"add", "remove", "delete"}
  BY DEF Adjustments
<1>2. CASE a.kind = "add"
  <2>1. AdjustMonitor(mons, a) = AddMonitor(mons, a.handle, a.devices, a.events)
    BY <1>2 DEF AdjustMonitor
  <2>2. AddMonitor(mons, a.handle, a.devices, a.events) \in MonitorTypes
    BY <1>1 DEF AddMonitor, MonitorTypes
  <2>3. \A s \in Slots : AddMonitor(mons, a.handle, a.devices, a.events)[s] =
           IF s \in a.devices \X a.events THEN mons[s] \cup {a.handle} ELSE mons[s]
    BY DEF AddMonitor
  <2> QED
    BY <1>2, <2>1, <2>2, <2>3
<1>3. CASE a.kind = "remove"
  <2>1. AdjustMonitor(mons, a) = RemoveMonitor(mons, a.handle, a.devices, a.events)
    BY <1>3 DEF AdjustMonitor
  <2>2. RemoveMonitor(mons, a.handle, a.devices, a.events) \in MonitorTypes
    BY <1>1 DEF RemoveMonitor, MonitorTypes
  <2>3. \A s \in Slots : RemoveMonitor(mons, a.handle, a.devices, a.events)[s] =
           IF s \in a.devices \X a.events THEN mons[s] \ {a.handle} ELSE mons[s]
    BY DEF RemoveMonitor
  <2> QED
    BY <1>3, <2>1, <2>2, <2>3
<1>4. CASE a.kind = "delete"
  <2> DEFINE D == FindMonitor(mons, a.handle).devices
             V == FindMonitor(mons, a.handle).events
  <2>1. AdjustMonitor(mons, a) = RemoveMonitor(mons, a.handle, D, V)
    BY <1>4 DEF AdjustMonitor
  <2>2. RemoveMonitor(mons, a.handle, D, V) \in MonitorTypes
    BY <1>1 DEF RemoveMonitor, MonitorTypes
  <2>3. ASSUME NEW s \in Slots, a.handle \in mons[s] PROVE s \in D \X V
    <3>1. s[1] \in D /\ s[2] \in V
      BY <2>3 DEF FindMonitor
    <3>2. s = <<s[1], s[2]>>
      BY DEF Slots
    <3> QED
      BY <3>1, <3>2
  <2> HIDE DEF D, V
  <2>4. ASSUME NEW s \in Slots PROVE RemoveMonitor(mons, a.handle, D, V)[s] = mons[s] \ {a.handle}
    <3>1. RemoveMonitor(mons, a.handle, D, V)[s] = IF s \in D \X V THEN mons[s] \ {a.handle} ELSE mons[s]
      BY DEF RemoveMonitor
    <3>2. CASE s \in D \X V
      BY <3>1, <3>2
    <3>3. CASE s \notin D \X V
      <4>1. a.handle \notin mons[s]
        BY <2>3, <3>3
      <4> QED
        BY <3>1, <3>3, <4>1
    <3> QED
      BY <3>2, <3>3
  <2> QED
    BY <1>4, <2>1, <2>2, <2>4
<1> QED
  BY <1>1, <1>2, <1>3, <1>4

LEMMA AdjustedType ==
  ASSUME NEW mons \in MonitorTypes, NEW s \in Seq(Adjustments)
  PROVE  AdjustedFrom(mons, s).monitors \in MonitorTypes
<1> DEFINE n == Len(s)
<1>0. n \in Nat /\ \A k \in 1 .. n : s[k] \in Adjustments
  OBVIOUS
<1> HIDE DEF n
<1>1. PICK f : AdjustsBy(mons, s, n, f) /\ AdjustedFrom(mons, s) = f[n]
  BY <1>0, AdjustedFromIs DEF n
<1>2. f[0].monitors = mons /\ Steps(f, 0, s, n)
  BY <1>0, <1>1, AdjustedOnceIs
<1> DEFINE S == {k \in Nat : k <= n => f[k].monitors \in MonitorTypes}
<1>3. 0 \in S
  BY <1>2
<1>4. ASSUME NEW k \in Nat, k \in S PROVE k + 1 \in S
  <2>1. CASE k + 1 <= n
    <3>1. k + 1 \in 1 .. n /\ k <= n /\ (k + 1) - 1 = k
      BY <1>0, <2>1
    <3>2. f[k].monitors \in MonitorTypes /\ s[k + 1] \in Adjustments
      BY <1>0, <1>4, <3>1
    <3>3. f[k + 1].monitors = AdjustMonitor(f[k].monitors, s[k + 1])
      <4>1. f[0 + (k + 1)].monitors = AdjustMonitor(f[0 + (k + 1) - 1].monitors, s[k + 1])
        BY <1>2, <3>1 DEF Steps
      <4>2. 0 + (k + 1) = k + 1 /\ 0 + (k + 1) - 1 = k
        OBVIOUS
      <4> QED
        BY <4>1, <4>2
    <3>4. f[k + 1].monitors \in MonitorTypes
      BY <3>2, <3>3, AdjustMonitorIs
    <3> QED
      BY <3>4
  <2>2. CASE ~(k + 1 <= n)
    BY <2>2
  <2> QED
    BY <2>1, <2>2
<1> HIDE DEF S
<1>5. n \in S
  BY <1>0, <1>3, <1>4, AllNat
<1>6. f[n].monitors \in MonitorTypes
  BY <1>0, <1>5 DEF S
<1> QED
  BY <1>1, <1>6

-----------------------------------------------------------------------------
(* Types, and what is asked of the monitors. *)

\* Types of what the notifications keep, and what is held back is all that is missing.
NType ==
    /\ monitors \in MonitorTypes
    /\ Listed = asked
    /\ callbacks \in [Handles -> {"none", "live", "deleted"}]
    /\ DOMAIN notifier \subseteq Notifiers
    /\ \A n \in DOMAIN notifier : notifier[n].called \subseteq Handles

LEMMA OrphanCalled ==
  ASSUME NEW it, IsWalk(it), NEW dicts
  PROVE  [it EXCEPT !.dicts = dicts].called = it.called
<1>1. PICK d, s, c, o, v : it = [dicts |-> d, size |-> s, called |-> c, owed |-> o, outlives |-> v]
  BY DEF IsWalk
<1> QED
  BY <1>1

LEMMA SurvivorCalled ==
  ASSUME NEW it, IsWalk(it), NEW b
  PROVE  [it EXCEPT !.outlives = b].called = it.called
<1>1. PICK d, s, c, o, v : it = [dicts |-> d, size |-> s, called |-> c, owed |-> o, outlives |-> v]
  BY DEF IsWalk
<1> QED
  BY <1>1

LEMMA CalledCalled ==
  ASSUME NEW it, IsWalk(it), NEW h
  PROVE  Called(it, h).called = it.called \cup {h}
<1>1. PICK d, s, c, o, v : it = [dicts |-> d, size |-> s, called |-> c, owed |-> o, outlives |-> v]
  BY DEF IsWalk
<1> DEFINE x == it.called \cup {h}
           y == it.owed \ {<<3 - Len(it.dicts), h>>}
<1>2. Called(it, h) = [[it EXCEPT !.called = x] EXCEPT !.owed = y]
  BY Zenon DEF Called
<1> HIDE DEF x, y
<1>3. [[it EXCEPT !.called = x] EXCEPT !.owed = y].called = x
  <2>1. [it EXCEPT !.called = x] = [dicts |-> d, size |-> s, called |-> x, owed |-> o, outlives |-> v]
    BY <1>1
  <2>2. [[dicts |-> d, size |-> s, called |-> x, owed |-> o, outlives |-> v] EXCEPT !.owed = y].called = x
    OBVIOUS
  <2> QED
    BY <2>1, <2>2, Zenon
<1> QED
  BY <1>2, <1>3 DEF x

LEMMA WalkCalled ==
  ASSUME NEW it, IsWalk(it), it.called \subseteq Handles
  PROVE  Walk(it).called \subseteq Handles
<1>1. NextDict(it).called = {}
  <2>1. PICK d, s, c, o, v : it = [dicts |-> d, size |-> s, called |-> c, owed |-> o, outlives |-> v]
    BY DEF IsWalk
  <2> DEFINE x == Tail(it.dicts)  y == Cardinality(Dict(it.dicts[2]))  z == {}
  <2>2. NextDict(it) = [[[it EXCEPT !.dicts = x] EXCEPT !.size = y] EXCEPT !.called = z]
    BY Zenon DEF NextDict
  <2> HIDE DEF x, y, z
  <2>3. [it EXCEPT !.dicts = x] = [dicts |-> x, size |-> s, called |-> c, owed |-> o, outlives |-> v]
    BY <2>1
  <2>4. [[dicts |-> x, size |-> s, called |-> c, owed |-> o, outlives |-> v] EXCEPT !.size = y]
          = [dicts |-> x, size |-> y, called |-> c, owed |-> o, outlives |-> v]
    OBVIOUS
  <2>5. [[dicts |-> x, size |-> y, called |-> c, owed |-> o, outlives |-> v] EXCEPT !.called = z].called = z
    OBVIOUS
  <2>6. NextDict(it).called = z
    BY <2>2, <2>3, <2>4, <2>5, Zenon
  <2> QED
    BY <2>6 DEF z
<1> QED
  BY <1>1 DEF Walk

LEMMA CallTypes ==
  ASSUME NInv, NType, NEW n \in Notifiers, NEW it, IsWalk(it), it.called \subseteq Handles, CallNext(n, it)
  PROVE  NType' /\ asked' = asked
<1>1. PICK h \in Left(it) :
        notifier' = [m \in DOMAIN notifier \cup {n} |-> IF m = n THEN Called(it, h) ELSE notifier[m]]
  BY DEF CallNext
<1>2. UNCHANGED <<monitors, callbacks, deferred, asked>>
  BY DEF CallNext
<1>3. h \in Handles
  <2>1. it.dicts \in Seq(Slots \cup {Gone}) /\ Len(it.dicts) \in 1 .. 2
    BY DEF IsWalk
  <2>2. it.dicts[1] \in Slots \cup {Gone}
    BY <2>1
  <2>3. Dict(it.dicts[1]) \subseteq Handles
    BY <2>2 DEF Dict, NType, MonitorTypes
  <2> QED
    BY <2>3 DEF Left
<1>4. Called(it, h).called \subseteq Handles
  BY <1>3, CalledCalled
<1>5. ASSUME NEW m \in DOMAIN notifier' PROVE m \in Notifiers /\ notifier'[m].called \subseteq Handles
  BY <1>1, <1>4, <1>5 DEF NType
<1>6. Listed' = Listed
  BY <1>2 DEF Listed, Adjusted
<1>7. NType'
  BY <1>2, <1>5, <1>6 DEF NType
<1> QED
  BY <1>2, <1>7

LEMMA OrphansCalled ==
  ASSUME NEW notifiers, NEW dropped, NEW m \in DOMAIN notifiers, IsWalk(notifiers[m])
  PROVE  Orphaned(notifiers, dropped)[m].called = notifiers[m].called
<1> DEFINE it == notifiers[m]
           x == [i \in DOMAIN it.dicts |-> IF it.dicts[i] \in dropped THEN Gone ELSE it.dicts[i]]
<1>1. Orphaned(notifiers, dropped)[m] = [it EXCEPT !.dicts = x]
  BY DEF Orphaned
<1> HIDE DEF x, it
<1>2. [it EXCEPT !.dicts = x].called = it.called
  BY OrphanCalled DEF it
<1> QED
  BY <1>1, <1>2 DEF it

\* Callbacks after adjustments are those registered, or deleted.
LEMMA RegisteredTypes ==
  ASSUME NEW actions, NEW registered \in [Handles -> {"none", "live", "deleted"}]
  PROVE  [h \in Handles |-> IF h \in Deletes(actions) THEN "deleted" ELSE registered[h]]
           \in [Handles -> {"none", "live", "deleted"}]
  OBVIOUS

LEMMA EndTypes ==
  ASSUME NInv, NType, NEW n \in Notifiers, End(n)
  PROVE  NType' /\ asked' = asked
<1>1. /\ DOMAIN notifier' = DOMAIN notifier \ {n} /\ deferred' = <<>> /\ monitors' = Listed
      /\ asked' = asked
  BY EndKeeps
<1>2. Listed' = monitors'
  <2>1. Listed' = AdjustedFrom(monitors', <<>>).monitors
    BY <1>1 DEF Listed, Adjusted
  <2> QED
    BY <2>1, AdjustedByNone
<1>3. monitors' \in MonitorTypes
  <2>1. Listed = AdjustedFrom(monitors, deferred).monitors
    BY DEF Listed, Adjusted
  <2>2. monitors \in MonitorTypes /\ deferred \in Seq(Adjustments)
    BY DEF NType, NInv
  <2> QED
    BY <1>1, <2>1, <2>2, AdjustedType
<1>4. callbacks' \in [Handles -> {"none", "live", "deleted"}]
  BY RegisteredTypes DEF End, ApplyTo, NType
<1>5. ASSUME NEW m \in DOMAIN notifier' PROVE m \in Notifiers /\ notifier'[m].called \subseteq Handles
  <2> DEFINE dropped == Adjusted(deferred).dropped
             it == Without(n)[m]
  <2>1. notifier' = Orphaned(Without(n), dropped)
    BY DEF End, ApplyTo
  <2> HIDE DEF dropped
  <2>2. m \in DOMAIN notifier /\ m \in DOMAIN Without(n) /\ it = [notifier[m] EXCEPT !.outlives = TRUE]
    BY <1>1 DEF Without
  <2>3. IsWalk(notifier[m]) /\ m \in Notifiers /\ notifier[m].called \subseteq Handles
    BY <2>2 DEF NInv, Walks, NType
  <2> HIDE DEF it
  <2>4. IsWalk(it) /\ it.called = notifier[m].called
    BY <2>2, <2>3, SurvivorWalks, SurvivorCalled
  <2>5. Orphaned(Without(n), dropped)[m].called = it.called
    <3> DEFINE survivors == Without(n)
    <3>1. m \in DOMAIN survivors /\ survivors[m] = it
      BY <2>2 DEF it
    <3> HIDE DEF survivors
    <3>2. Orphaned(survivors, dropped)[m].called = survivors[m].called
      BY <2>4, <3>1, OrphansCalled
    <3> QED
      BY <3>1, <3>2 DEF survivors
  <2> QED
    BY <2>1, <2>3, <2>4, <2>5
<1>6. Listed' = asked'
  BY <1>1, <1>2 DEF NType
<1>7. NType'
  BY <1>3, <1>4, <1>5, <1>6 DEF NType
<1> QED
  BY <1>1, <1>7

\* A notification changes nothing of what its owners have asked of the monitors.
LEMMA BeginTypes ==
  ASSUME NInv, NType, NEW n \in Notifiers, NEW d \in Devices, NEW e \in Events, Begin(n, d, e)
  PROVE  NInv' /\ NType' /\ Listed' = Listed /\ asked' = asked
<1> DEFINE new == NewNotifier(d, e)
           it == Walk(new)
<1>1. NInv'
  BY NStep DEF Next
<1>2. IsWalk(new) /\ new.called = {}
  BY NewWalk DEF NewNotifier
<1>3. CallNext(n, it) \/ End(n)
  BY DEF Begin
<1> HIDE DEF new
<1>4. IsWalk(it) /\ it.called \subseteq Handles
  BY <1>2, WalkGoesOn, WalkCalled
<1> HIDE DEF it
<1>5. NType' /\ asked' = asked
  BY <1>3, <1>4, CallTypes, EndTypes
<1> QED
  BY <1>1, <1>5 DEF NType

LEMMA ResumeTypes ==
  ASSUME NInv, NType, NEW n \in Notifiers, Resume(n)
  PROVE  NInv' /\ NType' /\ Listed' = Listed /\ asked' = asked
<1> DEFINE old == notifier[n]
           it == Walk(old)
<1>1. NInv'
  BY NStep DEF Next
<1>2. n \in DOMAIN notifier /\ (CallNext(n, it) \/ End(n))
  BY DEF Resume
<1>3. IsWalk(old) /\ old.called \subseteq Handles
  BY <1>2 DEF NInv, Walks, NType
<1> HIDE DEF old
<1>4. IsWalk(it) /\ it.called \subseteq Handles
  BY <1>3, WalkGoesOn, WalkCalled
<1> HIDE DEF it
<1>5. NType' /\ asked' = asked
  BY <1>2, <1>4, CallTypes, EndTypes
<1> QED
  BY <1>1, <1>5 DEF NType

\* An adjustment takes effect on what is asked, whether it is applied at once or put off.
LEMMA AdjustTypes ==
  ASSUME NInv, NType, NEW actions \in Seq(Adjustments),
         NEW registered \in [Handles -> {"none", "live", "deleted"}], Adjust(actions, registered)
  PROVE  NInv' /\ NType' /\ Listed' = AdjustedFrom(Listed, actions).monitors
<1>1. NInv' /\ DOMAIN notifier' = DOMAIN notifier
  BY AdjustKeeps
<1>2. monitors \in MonitorTypes /\ deferred \in Seq(Adjustments)
  BY DEF NType, NInv
<1>0. asked' = AdjustedFrom(Listed, actions).monitors
  <2>1. asked' = AdjustedFrom(asked, actions).monitors /\ Listed = asked
    BY DEF Adjust, Ask, NType
  <2> QED
    BY <2>1
<1>3. CASE notifying
  <2>1. /\ deferred' = deferred \o actions /\ callbacks' = registered
        /\ UNCHANGED <<monitors, notifying, notifier>>
    BY <1>3 DEF Adjust
  <2>3. /\ Listed' = AdjustedFrom(monitors, deferred \o actions).monitors
        /\ Listed = AdjustedFrom(monitors, deferred).monitors
    BY <2>1 DEF Listed, Adjusted
  <2>4. Listed' = AdjustedFrom(Listed, actions).monitors
    BY <1>2, <2>3, AdjustedTwice
  <2>5. Listed' = asked'
    BY <1>0, <2>4
  <2>2. NType'
    BY <2>1, <2>5 DEF NType
  <2> QED
    BY <1>1, <2>2, <2>4
<1>4. CASE ~notifying
  <2>1. ApplyTo(actions, registered, notifier) /\ UNCHANGED <<notifying, deferred>>
    BY <1>4 DEF Adjust
  <2>2. deferred = <<>> /\ deferred' = <<>>
    BY <1>4, <2>1 DEF NInv, NothingStranded
  <2>3. monitors' = AdjustedFrom(monitors, actions).monitors
    BY <2>1 DEF ApplyTo, Adjusted
  <2>4. Listed = monitors
    <3>1. Listed = AdjustedFrom(monitors, <<>>).monitors
      BY <2>2 DEF Listed, Adjusted
    <3> QED
      BY <3>1, AdjustedByNone
  <2>5. Listed' = monitors'
    <3>1. Listed' = AdjustedFrom(monitors', <<>>).monitors
      BY <2>2 DEF Listed, Adjusted
    <3> QED
      BY <3>1, AdjustedByNone
  <2>6. monitors' \in MonitorTypes
    BY <1>2, <2>3, AdjustedType
  <2>7. callbacks' \in [Handles -> {"none", "live", "deleted"}]
    BY <2>1, RegisteredTypes DEF ApplyTo
  <2>8. ASSUME NEW m \in DOMAIN notifier' PROVE m \in Notifiers /\ notifier'[m].called \subseteq Handles
    <3> DEFINE dropped == Adjusted(actions).dropped
    <3>1. notifier' = Orphaned(notifier, dropped)
      BY <2>1 DEF ApplyTo
    <3> HIDE DEF dropped
    <3>2. m \in DOMAIN notifier /\ IsWalk(notifier[m]) /\ m \in Notifiers /\ notifier[m].called \subseteq Handles
      BY <1>1 DEF NInv, Walks, NType
    <3>3. Orphaned(notifier, dropped)[m].called = notifier[m].called
      BY <3>2, OrphansCalled
    <3> QED
      BY <3>1, <3>2, <3>3
  <2>10. Listed' = AdjustedFrom(Listed, actions).monitors
    BY <2>3, <2>4, <2>5
  <2>11. Listed' = asked'
    BY <1>0, <2>10
  <2>9. NType'
    BY <2>6, <2>7, <2>8, <2>11 DEF NType
  <2> QED
    BY <1>1, <2>9, <2>10
<1> QED
  BY <1>3, <1>4

LEMMA ListedType ==
  ASSUME NInv, NType
  PROVE  Listed \in MonitorTypes
<1>1. monitors \in MonitorTypes /\ deferred \in Seq(Adjustments)
  BY DEF NType, NInv
<1> QED
  BY <1>1, AdjustedType DEF Listed, Adjusted

LEMMA NTypeInit ==
  ASSUME Init
  PROVE  NType
<1>1. /\ monitors = [s \in Slots |-> {}] /\ callbacks = [h \in Handles |-> "none"]
      /\ deferred = <<>> /\ notifier = <<>> /\ asked = monitors
  BY DEF Init
<1>2. monitors \in MonitorTypes /\ callbacks \in [Handles -> {"none", "live", "deleted"}]
  BY <1>1 DEF MonitorTypes
<1>3. DOMAIN notifier = {}
  BY <1>1
<1>4. Listed = asked
  BY <1>1, AdjustedByNone DEF Listed, Adjusted
<1> QED
  BY <1>2, <1>3, <1>4 DEF NType

\* Every step keeps what has been asked in what is listed and held back.
LEMMA NTypeStep ==
  ASSUME NInv, NType, [Next]_notificationVars
  PROVE  NInv' /\ NType'
<1>1. ASSUME NEW a \in Adjustments, NEW registered \in [Handles -> {"none", "live", "deleted"}],
             Adjust(<<a>>, registered)
      PROVE  NInv' /\ NType'
  <2>1. <<a>> \in Seq(Adjustments)
    OBVIOUS
  <2> QED
    BY <1>1, <2>1, AdjustTypes
<1>2. callbacks \in [Handles -> {"none", "live", "deleted"}]
  BY DEF NType
<1>3. ASSUME NEW h \in Handles, NEW D \in SUBSET (Devices \cup {AnyDevice}), NEW V \in SUBSET Events,
             RegisterMonitor(h, D, V)
      PROVE  NInv' /\ NType'
  <2>1. [callbacks EXCEPT ![h] = "live"] \in [Handles -> {"none", "live", "deleted"}]
    BY <1>2
  <2> QED
    BY <1>1, <1>3, <2>1, AdjustmentIs DEF RegisterMonitor
<1>4. ASSUME NEW h \in Handles, NEW k \in {"add", "remove"}, NEW s \in Slots,
             AdjustMonitorAction(h, k, s[1], s[2])
      PROVE  NInv' /\ NType'
  <2>1. {s[1]} \in SUBSET (Devices \cup {AnyDevice}) /\ {s[2]} \in SUBSET Events
    BY DEF Slots
  <2> QED
    BY <1>1, <1>2, <1>4, <2>1, AdjustmentIs DEF AdjustMonitorAction
<1>5. ASSUME NEW h \in Handles, RemoveMonitorAction(h) PROVE NInv' /\ NType'
  BY <1>1, <1>2, <1>5, AdjustmentIs DEF RemoveMonitorAction
<1>6. ASSUME NEW n \in Notifiers, NEW d \in Devices, NEW e \in Events, Begin(n, d, e)
      PROVE  NInv' /\ NType'
  BY <1>6, BeginTypes
<1>7. ASSUME NEW n \in Notifiers, Resume(n) PROVE NInv' /\ NType'
  BY <1>7, ResumeTypes
<1>8. CASE UNCHANGED notificationVars
  <2>1. UNCHANGED <<monitors, callbacks, deferred, notifier, asked>>
    BY <1>8 DEF notificationVars
  <2>2. Listed' = Listed
    BY <2>1 DEF Listed, Adjusted
  <2>3. NType'
    BY <2>1, <2>2 DEF NType
  <2>4. NInv'
    BY <1>8, NStep
  <2> QED
    BY <2>3, <2>4
<1> QED
  BY <1>3, <1>4, <1>5, <1>6, <1>7, <1>8 DEF Next

\* The monitors and what is held back are together what has been asked, one by one and in
\* its order, and all of it is applied while no notification holds the flag
\* (Notifications, register_monitor, adjust_monitor, remove_monitor).
THEOREM AdjustmentsAreApplied == Spec => []NothingAskedIsLost
<1>1. NInv /\ NType => NothingAskedIsLost
  <2> SUFFICES ASSUME NInv, NType PROVE NothingAskedIsLost
    OBVIOUS
  <2>1. Listed = asked
    BY DEF NType
  <2>2. ASSUME ~notifying PROVE monitors = asked
    <3>1. deferred = <<>>
      BY <2>2 DEF NInv, NothingStranded
    <3>2. Listed = AdjustedFrom(monitors, <<>>).monitors
      BY <3>1 DEF Listed, Adjusted
    <3> QED
      BY <2>1, <3>2, AdjustedByNone
  <2> QED
    BY <2>1, <2>2 DEF NothingAskedIsLost
<1>2. Init => NInv /\ NType
  BY NInitInv, NTypeInit
<1>3. NInv /\ NType /\ [Next]_notificationVars => (NInv /\ NType)'
  BY NTypeStep
<1> QED
  BY <1>1, <1>2, <1>3, PTL DEF Spec

Supported == Events \cup ServerEvents

LEMMA AdjustmentFields ==
  ASSUME NEW c \in Handles, NEW kind \in {"add", "remove", "delete"},
         NEW D \in SUBSET (Devices \cup {AnyDevice}), NEW V \in SUBSET Supported
  PROVE  LET a == Adjustment(c, kind, D, V)
         IN  a \in Adjustments /\ a.handle = c /\ a.kind = kind /\ a.devices = D /\ a.events = V
  BY DEF Adjustment, Adjustments, Supported

\* What one adjustment of the device server does to whom c2 is listed for.
LEMMA AdjustOnce ==
  ASSUME NInv, NType, NEW a \in Adjustments,
         NEW registered \in [Handles -> {"none", "live", "deleted"}], Adjust(<<a>>, registered)
  PROVE  /\ NInv' /\ NType'
         /\ \A c2 \in Clients, s \in Slots :
               c2 \in Listed'[s] <=>
                  IF c2 = a.handle /\ (a.kind = "delete" \/ s \in a.devices \X a.events)
                  THEN a.kind = "add" ELSE c2 \in Listed[s]
<1>1. <<a>> \in Seq(Adjustments)
  OBVIOUS
<1>2. NInv' /\ NType' /\ Listed' = AdjustedFrom(Listed, <<a>>).monitors
  BY <1>1, AdjustTypes
<1>3. Listed' = AdjustMonitor(Listed, a)
  BY <1>2, AdjustedByOne
<1>4. PICK L : L = Listed
  OBVIOUS
<1>5. L \in MonitorTypes
  BY <1>4, ListedType
<1>6. \A s \in Slots : AdjustMonitor(L, a)[s] =
               IF a.kind = "add" /\ s \in a.devices \X a.events THEN L[s] \cup {a.handle}
               ELSE IF (a.kind = "remove" /\ s \in a.devices \X a.events) \/ a.kind = "delete"
               THEN L[s] \ {a.handle}
               ELSE L[s]
  BY <1>5, AdjustMonitorIs
<1>7. a.kind \in {"add", "remove", "delete"}
  BY DEF Adjustments
<1>8. ASSUME NEW c2 \in Clients, NEW s \in Slots
      PROVE  c2 \in Listed'[s] <=>
                  IF c2 = a.handle /\ (a.kind = "delete" \/ s \in a.devices \X a.events)
                  THEN a.kind = "add" ELSE c2 \in L[s]
  <2>1. Listed'[s] = AdjustMonitor(L, a)[s]
    BY <1>3, <1>4
  <2> HIDE DEF Listed
  <2>2. CASE a.kind = "add"
    BY <1>6, <2>1, <2>2
  <2>3. CASE a.kind = "remove"
    BY <1>6, <2>1, <2>3
  <2>4. CASE a.kind = "delete"
    BY <1>6, <2>1, <2>4
  <2> QED
    BY <1>7, <2>2, <2>3, <2>4
<1> QED
  BY <1>2, <1>4, <1>8

\* _adjust_device_events
LEMMA AdjustDevice ==
  ASSUME NInv, NType, NEW c \in Clients, NEW kind \in {"add", "remove"}, NEW d \in Devices,
         NEW V \in SUBSET Supported, AdjustServer(DeviceEvents(c, kind, d, V))
  PROVE  /\ NInv' /\ NType'
         /\ \A c2 \in Clients, s \in Slots :
               c2 \in Listed'[s] <=> IF c2 = c /\ s \in {d} \X V THEN kind = "add" ELSE c2 \in Listed[s]
<1> DEFINE a == Adjustment(c, kind, {d}, V)
<1>1. a \in Adjustments /\ a.handle = c /\ a.kind = kind /\ a.devices = {d} /\ a.events = V
  BY AdjustmentFields DEF Clients
<1>2. Adjust(<<a>>, callbacks)
  BY DEF AdjustServer, DeviceEvents
<1>3. callbacks \in [Handles -> {"none", "live", "deleted"}]
  BY DEF NType
<1> HIDE DEF a
<1>4. /\ NInv' /\ NType'
      /\ \A c2 \in Clients, s \in Slots :
               c2 \in Listed'[s] <=>
                  IF c2 = a.handle /\ (a.kind = "delete" \/ s \in a.devices \X a.events)
                  THEN a.kind = "add" ELSE c2 \in Listed[s]
  BY <1>1, <1>2, <1>3, AdjustOnce
<1> QED
  BY <1>1, <1>4

\* remove_monitor
LEMMA AdjustDelete ==
  ASSUME NInv, NType, NEW c \in Clients, AdjustServer(<<Adjustment(c, "delete", {}, {})>>)
  PROVE  /\ NInv' /\ NType'
         /\ \A c2 \in Clients, s \in Slots : c2 \in Listed'[s] <=> c2 # c /\ c2 \in Listed[s]
<1> DEFINE a == Adjustment(c, "delete", {}, {})
<1>1. a \in Adjustments /\ a.handle = c /\ a.kind = "delete"
  BY AdjustmentFields DEF Clients
<1>2. Adjust(<<a>>, callbacks)
  BY DEF AdjustServer
<1>3. callbacks \in [Handles -> {"none", "live", "deleted"}]
  BY DEF NType
<1> HIDE DEF a
<1>4. /\ NInv' /\ NType'
      /\ \A c2 \in Clients, s \in Slots :
               c2 \in Listed'[s] <=>
                  IF c2 = a.handle /\ (a.kind = "delete" \/ s \in a.devices \X a.events)
                  THEN a.kind = "add" ELSE c2 \in Listed[s]
  BY <1>1, <1>2, <1>3, AdjustOnce
<1> QED
  BY <1>1, <1>4

\* register_monitor and two global events: no slot of a device is touched.
LEMMA AdjustSetup ==
  ASSUME NInv, NType, NEW c \in Clients,
         NEW registered \in [Handles -> {"none", "live", "deleted"}],
         Adjust(<<Adjustment(c, "add", {}, {})>> \o GlobalEvents(c, "add", "device_seen")
                    \o GlobalEvents(c, "add", "broadcast"), registered)
  PROVE  /\ NInv' /\ NType'
         /\ \A c2 \in Clients, s \in Slots : c2 # c \/ s[1] \in Devices =>
               (c2 \in Listed'[s] <=> c2 \in Listed[s])
<1> DEFINE a1 == Adjustment(c, "add", {}, {})
           a2 == Adjustment(c, "add", {AnyDevice}, {"device_seen"})
           a3 == Adjustment(c, "add", {AnyDevice}, {"broadcast"})
           Adds(a) == /\ a \in Adjustments /\ a.handle = c /\ a.kind = "add"
                      /\ a.devices \subseteq {AnyDevice}
<1>1. Adds(a1) /\ Adds(a2) /\ Adds(a3)
  <2>1. {"device_seen"} \in SUBSET Supported /\ {"broadcast"} \in SUBSET Supported /\ {} \in SUBSET Supported
    BY DEF Supported, ServerEvents
  <2>2. {AnyDevice} \in SUBSET (Devices \cup {AnyDevice}) /\ {} \in SUBSET (Devices \cup {AnyDevice})
    OBVIOUS
  <2>3. Adds(a1)
    BY <2>1, <2>2, AdjustmentFields DEF Clients
  <2>4. Adds(a2)
    BY <2>1, <2>2, AdjustmentFields DEF Clients
  <2>5. Adds(a3)
    BY <2>1, <2>2, AdjustmentFields DEF Clients
  <2> QED
    BY <2>3, <2>4, <2>5
<1>2. Adjust((<<a1>> \o <<a2>>) \o <<a3>>, registered)
  BY DEF GlobalEvents
<1> DEFINE s12 == <<a1>> \o <<a2>>
<1> HIDE DEF a1, a2, a3
<1>3. s12 \in Seq(Adjustments) /\ <<a1>> \in Seq(Adjustments) /\ <<a2>> \in Seq(Adjustments) /\ <<a3>> \in Seq(Adjustments)
  BY <1>1
<1> HIDE DEF s12
<1>4. s12 \o <<a3>> \in Seq(Adjustments)
  BY <1>3
<1>5. PICK L : L = Listed
  OBVIOUS
<1>6. L \in MonitorTypes
  BY <1>5, ListedType
<1>7. NInv' /\ NType' /\ Listed' = AdjustedFrom(L, s12 \o <<a3>>).monitors
  BY <1>2, <1>4, <1>5, AdjustTypes DEF s12
<1> DEFINE L1 == AdjustMonitor(L, a1)  L2 == AdjustMonitor(L1, a2)  L3 == AdjustMonitor(L2, a3)
<1>8. Listed' = L3
  <2>1. AdjustedFrom(L, s12 \o <<a3>>).monitors = AdjustedFrom(AdjustedFrom(L, s12).monitors, <<a3>>).monitors
    BY <1>3, AdjustedTwice
  <2>2. AdjustedFrom(L, s12).monitors = AdjustedFrom(AdjustedFrom(L, <<a1>>).monitors, <<a2>>).monitors
    BY <1>3, AdjustedTwice DEF s12
  <2>3. AdjustedFrom(L, <<a1>>).monitors = L1
    BY AdjustedByOne
  <2>4. AdjustedFrom(L1, <<a2>>).monitors = L2
    BY AdjustedByOne
  <2>5. AdjustedFrom(L2, <<a3>>).monitors = L3
    BY AdjustedByOne
  <2> HIDE DEF L1, L2, L3
  <2> QED
    BY <1>7, <2>1, <2>2, <2>3, <2>4, <2>5, Zenon
<1>9. ASSUME NEW mons \in MonitorTypes, NEW a, Adds(a)
      PROVE  /\ AdjustMonitor(mons, a) \in MonitorTypes
             /\ \A c2 \in Clients, s \in Slots : c2 # c \/ s[1] \in Devices =>
                   (c2 \in AdjustMonitor(mons, a)[s] <=> c2 \in mons[s])
  <2>1. /\ AdjustMonitor(mons, a) \in MonitorTypes
        /\ \A s \in Slots : AdjustMonitor(mons, a)[s] =
              IF s \in a.devices \X a.events THEN mons[s] \cup {c} ELSE mons[s]
    BY <1>9, AdjustMonitorIs
  <2>2. \A s \in Slots : s[1] \in Devices => s \notin a.devices \X a.events
    BY <1>9, NotificationsAssumption
  <2> QED
    BY <2>1, <2>2
<1> HIDE DEF Adds
<1>10. /\ L1 \in MonitorTypes
       /\ \A c2 \in Clients, s \in Slots : c2 # c \/ s[1] \in Devices => (c2 \in L1[s] <=> c2 \in L[s])
  BY <1>1, <1>6, <1>9
<1> HIDE DEF L1
<1>11. /\ L2 \in MonitorTypes
       /\ \A c2 \in Clients, s \in Slots : c2 # c \/ s[1] \in Devices => (c2 \in L2[s] <=> c2 \in L1[s])
  BY <1>1, <1>9, <1>10
<1> HIDE DEF L2
<1>12. \A c2 \in Clients, s \in Slots : c2 # c \/ s[1] \in Devices => (c2 \in L3[s] <=> c2 \in L2[s])
  BY <1>1, <1>9, <1>11
<1> HIDE DEF L3
<1>13. \A c2 \in Clients, s \in Slots : c2 # c \/ s[1] \in Devices => (c2 \in L3[s] <=> c2 \in L[s])
  BY <1>10, <1>11, <1>12
<1> QED
  BY <1>5, <1>7, <1>8, <1>13

LEMMA CoroutineIs ==
  ASSUME NEW c \in Clients, NEW kind \in {"connect", "disconnect", "open", "close", "teardown"},
         NEW d \in Devices, NEW id \in ConnIds,
         NEW event \in IF kind \in {"open", "close"} THEN Interfaces ELSE {NULL},
         NEW done \in SUBSET Devices
  PROVE  LET x == Coroutine(c, kind, d, id, event, done)
         IN  /\ x \in Coroutines /\ x # NULL
             /\ x.client = c /\ x.kind = kind /\ x.device = d /\ x.id = id /\ x.event = event /\ x.done = done
<1>1. Coroutine(c, kind, d, id, event, done) \in Coroutines
  BY DEF Coroutine, Coroutines
<1>2. Coroutine(c, kind, d, id, event, done) # NULL
  BY <1>1, ServerAssumption
<1> QED
  BY <1>1, <1>2 DEF Coroutine

LEMMA CoroutineFields ==
  ASSUME NEW x \in Coroutines
  PROVE  /\ x.client \in Clients /\ x.kind \in {"connect", "disconnect", "open", "close", "teardown"}
         /\ x.device \in Devices /\ x.id \in ConnIds /\ x.done \in SUBSET Devices /\ x # NULL
         /\ x.event \in IF x.kind \in {"open", "close"} THEN Interfaces ELSE {NULL}
  BY ServerAssumption DEF Coroutines

-----------------------------------------------------------------------------
(* The device server. *)

DSType ==
    /\ clients \in [Clients -> {"none", "open", "gone"}]
    /\ conns \in [Clients -> [Devices -> ConnIds \cup {NoConn}]]
    /\ connections \in [ConnIds -> Devices \cup {NULL}]
    /\ nextConnId \in 1 .. MaxConnections + 1
    /\ op \in [Ops -> Coroutines \cup {NULL}]
    /\ owner \in [ConnIds -> Clients \cup {NULL}]
    /\ unclosed \in SUBSET ConnIds

\* A client has commands only until it leaves; a client that leaves has been set up.
CommandsAreCurrent ==
    \A o \in Ops : op[o] # NULL =>
        IF op[o].kind = "teardown" THEN clients[op[o].client] # "none"
        ELSE clients[op[o].client] = "open" /\ ~Leaving(op[o].client)

\* What is being connected is nobody's yet, and nobody else's.
IsNew(x) ==
    /\ owner[x.id] = x.client /\ x.id < nextConnId
    /\ \A c \in Clients, d \in Devices : conns[c][d] # x.id
    /\ \A i \in ConnIds : connections[i] # x.device

ConnectsAreNew ==
    \A o \in Ops : op[o] # NULL /\ op[o].kind = "connect" =>
        /\ IsNew(op[o])
        /\ \A p \in Ops \ {o} : op[p] # NULL /\ op[p].kind = "connect" =>
                op[p].device # op[o].device /\ op[p].id # op[o].id

EntriesAreOld ==
    \A c \in Clients, d \in Devices :
        /\ conns[c][d] < nextConnId
        /\ clients[c] = "none" => conns[c][d] = NoConn

LinksAreOwned ==
    \A i \in ConnIds : connections[i] # NULL =>
        owner[i] \in Clients /\ clients[owner[i]] # "none" /\ i < nextConnId

\* A teardown is at one connection of its client and leaves none of the earlier behind.
Covers(x) ==
    /\ x.device \in x.done /\ x.id = conns[x.client][x.device]
    /\ \A d \in x.done \ {x.device} : conns[x.client][d] # NoConn =>
            connections[conns[x.client][d]] = NULL \/ conns[x.client][d] \in unclosed

TeardownsCover == \A o \in Ops : op[o] # NULL /\ op[o].kind = "teardown" => Covers(op[o])

Unlisted ==
    \A c \in Clients : clients[c] # "open" \/ Leaving(c) => \A s \in Slots : c \notin Listed[s]

DSInv ==
    /\ NInv /\ NType /\ DSType
    /\ CommandsAreCurrent
    /\ ConnectsAreNew
    /\ EntriesAreOld
    /\ LinksAreOwned
    /\ TeardownsCover
    /\ ConnectionsArePrivate
    /\ EventsFollowConnections
    /\ Unlisted
    /\ ConnectionsAreKnown

-----------------------------------------------------------------------------
(* What several steps have in common. *)

LEMMA OpIs ==
  ASSUME DSInv, NEW o \in Ops, op[o] # NULL
  PROVE  op[o] \in Coroutines
  BY DEF DSInv, DSType

\* A client sends a command.
LEMMA CommandOps ==
  ASSUME DSInv, NEW o \in Ops, NEW x \in Coroutines, x.kind # "teardown",
         clients[x.client] = "open", ~Leaving(x.client), op[o] = NULL,
         op' = [op EXCEPT ![o] = x], clients' = clients
  PROVE  /\ op' \in [Ops -> Coroutines \cup {NULL}]
         /\ \A p \in Ops : op'[p] = IF p = o THEN x ELSE op[p]
         /\ \A c \in Clients : Leaving(c)' <=> Leaving(c)
         /\ CommandsAreCurrent'
<1>1. op \in [Ops -> Coroutines \cup {NULL}]
  BY DEF DSInv, DSType
<1>2. /\ op' \in [Ops -> Coroutines \cup {NULL}]
      /\ \A p \in Ops : op'[p] = IF p = o THEN x ELSE op[p]
  BY <1>1
<1>3. \A c \in Clients : Leaving(c)' <=> Leaving(c)
  BY <1>2 DEF Leaving
<1>4. ASSUME NEW p \in Ops, op'[p] # NULL
      PROVE  IF op'[p].kind = "teardown" THEN clients[op'[p].client] # "none"
             ELSE clients[op'[p].client] = "open" /\ ~Leaving(op'[p].client)
  <2>1. CASE p = o
    BY <1>2, <2>1
  <2>2. CASE p # o
    <3>1. op'[p] = op[p]
      BY <1>2, <2>2
    <3> QED
      BY <1>4, <3>1 DEF DSInv, CommandsAreCurrent
  <2> QED
    BY <2>1, <2>2
<1>5. \A p \in Ops : op'[p] # NULL => op'[p].client \in Clients
  BY <1>2, CoroutineFields
<1>6. CommandsAreCurrent'
  BY <1>3, <1>4, <1>5 DEF CommandsAreCurrent
<1> QED
  BY <1>2, <1>3, <1>6

\* A command ends.
LEMMA EndOps ==
  ASSUME DSInv, NEW o \in Ops, op[o] # NULL, op[o].kind # "teardown", EndOp(o), clients' = clients
  PROVE  /\ op' \in [Ops -> Coroutines \cup {NULL}]
         /\ \A p \in Ops : op'[p] = IF p = o THEN NULL ELSE op[p]
         /\ \A c \in Clients : Leaving(c)' <=> Leaving(c)
         /\ CommandsAreCurrent'
<1>1. op \in [Ops -> Coroutines \cup {NULL}]
  BY DEF DSInv, DSType
<1>2. /\ op' \in [Ops -> Coroutines \cup {NULL}]
      /\ \A p \in Ops : op'[p] = IF p = o THEN NULL ELSE op[p]
  BY <1>1 DEF EndOp
<1>3. \A c \in Clients : Leaving(c)' <=> Leaving(c)
  BY <1>2 DEF Leaving
<1>4. ASSUME NEW p \in Ops, op'[p] # NULL
      PROVE  IF op'[p].kind = "teardown" THEN clients[op'[p].client] # "none"
             ELSE clients[op'[p].client] = "open" /\ ~Leaving(op'[p].client)
  <2>1. op'[p] = op[p]
    BY <1>2, <1>4
  <2> QED
    BY <1>4, <2>1 DEF DSInv, CommandsAreCurrent
<1>5. \A p \in Ops : op'[p] # NULL => op'[p].client \in Clients
  BY <1>2, CoroutineFields
<1>6. CommandsAreCurrent'
  BY <1>3, <1>4, <1>5 DEF CommandsAreCurrent
<1> QED
  BY <1>2, <1>3, <1>6

\* Teardowns that stay where they are still cover what they have been at; others are looked at
\* where they step.
LEMMA TeardownsStay ==
  ASSUME DSInv,
         \A p \in Ops : op'[p] # NULL /\ op'[p].kind = "teardown" => op'[p] = op[p] \/ Covers(op[p])',
         \A c \in Clients : Leaving(c) => conns'[c] = conns[c],
         \A c \in Clients, d \in Devices : conns[c][d] # NoConn =>
            connections'[conns[c][d]] \in {connections[conns[c][d]], NULL},
         unclosed \subseteq unclosed'
  PROVE  TeardownsCover'
<1> SUFFICES ASSUME NEW o \in Ops, op'[o] # NULL, op'[o].kind = "teardown", op'[o] = op[o]
             PROVE  /\ op'[o].device \in op'[o].done /\ op'[o].id = conns'[op'[o].client][op'[o].device]
                    /\ \A d \in op'[o].done \ {op'[o].device} : conns'[op'[o].client][d] # NoConn =>
                          connections'[conns'[op'[o].client][d]] = NULL
                             \/ conns'[op'[o].client][d] \in unclosed'
  BY DEF TeardownsCover, Covers
<1>1. PICK x : x = op[o]
  OBVIOUS
<1>2. op'[o] = x /\ x # NULL /\ x.kind = "teardown" /\ x \in Coroutines
  BY <1>1, OpIs
<1>3. x.client \in Clients /\ x.done \subseteq Devices
  BY <1>2, CoroutineFields
<1>4. Covers(x)
  BY <1>1, <1>2 DEF DSInv, TeardownsCover
<1>5. Leaving(x.client)
  BY <1>1, <1>2 DEF Leaving
<1>6. conns'[x.client] = conns[x.client]
  BY <1>3, <1>5
<1>7. ASSUME NEW d \in x.done \ {x.device}, conns[x.client][d] # NoConn
      PROVE  connections'[conns[x.client][d]] = NULL \/ conns[x.client][d] \in unclosed'
  <2>1. connections[conns[x.client][d]] = NULL \/ conns[x.client][d] \in unclosed
    BY <1>4, <1>7 DEF Covers
  <2>2. connections'[conns[x.client][d]] \in {connections[conns[x.client][d]], NULL}
    BY <1>3, <1>7
  <2> QED
    BY <2>1, <2>2
<1>8. x.device \in x.done /\ x.id = conns[x.client][x.device]
  BY <1>4 DEF Covers
<1> QED
  BY <1>2, <1>6, <1>7, <1>8

\* Entries, links and commands that go away leave the others as old and as private as they were.
LEMMA LessKeeps ==
  ASSUME DSInv,
         \A p \in Ops : op'[p] # NULL /\ op'[p].kind = "connect" => op'[p] = op[p],
         \A c \in Clients, d \in Devices : conns'[c][d] \in {conns[c][d], NoConn},
         \A i \in ConnIds : connections'[i] \in {connections[i], NULL},
         nextConnId' = nextConnId, owner' = owner,
         \A c \in Clients : clients'[c] = "none" => clients[c] = "none"
  PROVE  ConnectsAreNew' /\ EntriesAreOld' /\ LinksAreOwned' /\ ConnectionsArePrivate'
<1>0. /\ conns \in [Clients -> [Devices -> ConnIds \cup {NoConn}]]
      /\ connections \in [ConnIds -> Devices \cup {NULL}]
      /\ nextConnId \in 1 .. MaxConnections + 1 /\ MaxConnections \in Nat
  BY ServerAssumption DEF DSInv, DSType
<1>1. ConnectsAreNew'
  <2> SUFFICES ASSUME NEW o \in Ops, op'[o] # NULL, op'[o].kind = "connect"
               PROVE  /\ owner'[op'[o].id] = op'[o].client /\ op'[o].id < nextConnId'
                      /\ \A c \in Clients, d \in Devices : conns'[c][d] # op'[o].id
                      /\ \A i \in ConnIds : connections'[i] # op'[o].device
                      /\ \A p \in Ops \ {o} : op'[p] # NULL /\ op'[p].kind = "connect" =>
                             op'[p].device # op'[o].device /\ op'[p].id # op'[o].id
    BY DEF ConnectsAreNew, IsNew
  <2>1. PICK x : x = op[o]
    OBVIOUS
  <2>2. op'[o] = x /\ x # NULL /\ x.kind = "connect" /\ x \in Coroutines
    BY <2>1, OpIs
  <2>3. /\ owner[x.id] = x.client /\ x.id < nextConnId
        /\ \A c \in Clients, d \in Devices : conns[c][d] # x.id
        /\ \A i \in ConnIds : connections[i] # x.device
        /\ \A p \in Ops \ {o} : op[p] # NULL /\ op[p].kind = "connect" =>
              op[p].device # x.device /\ op[p].id # x.id
    BY <2>1, <2>2 DEF DSInv, ConnectsAreNew, IsNew
  <2>4. x.id \in ConnIds /\ x.id # NoConn /\ x.device \in Devices
    BY <2>2, CoroutineFields DEF ConnIds, NoConn
  <2>5. \A c \in Clients, d \in Devices : conns'[c][d] # x.id
    BY <2>3, <2>4
  <2>6. \A i \in ConnIds : connections'[i] # x.device
    <3>1. x.device # NULL
      BY <2>4, ServerAssumption
    <3> QED
      BY <2>3, <3>1
  <2>7. \A p \in Ops \ {o} : op'[p] # NULL /\ op'[p].kind = "connect" =>
           op'[p].device # x.device /\ op'[p].id # x.id
    BY <2>3
  <2> QED
    BY <2>2, <2>3, <2>5, <2>6, <2>7
<1>2. EntriesAreOld'
  <2>1. ASSUME NEW c \in Clients, NEW d \in Devices
        PROVE  conns'[c][d] < nextConnId' /\ (clients'[c] = "none" => conns'[c][d] = NoConn)
    <3>1. conns[c][d] < nextConnId /\ (clients[c] = "none" => conns[c][d] = NoConn) /\ NoConn < nextConnId
      BY <1>0 DEF DSInv, EntriesAreOld, NoConn
    <3>2. conns'[c][d] \in {conns[c][d], NoConn}
      OBVIOUS
    <3> QED
      BY <3>1, <3>2
  <2> QED
    BY <2>1 DEF EntriesAreOld
<1>3. LinksAreOwned'
  BY DEF DSInv, LinksAreOwned
<1>4. ConnectionsArePrivate'
  <2>1. ASSUME NEW c \in Clients, NEW d \in Devices, conns'[c][d] # NoConn
        PROVE  owner'[conns'[c][d]] = c /\ connections'[conns'[c][d]] \in {d, NULL}
    <3>1. conns'[c][d] = conns[c][d] /\ conns[c][d] \in ConnIds
      BY <1>0, <2>1
    <3>2. owner[conns[c][d]] = c /\ connections[conns[c][d]] \in {d, NULL}
      BY <2>1, <3>1 DEF DSInv, ConnectionsArePrivate
    <3>3. connections'[conns[c][d]] \in {connections[conns[c][d]], NULL}
      BY <3>1
    <3> QED
      BY <3>1, <3>2, <3>3
  <2> QED
    BY <2>1 DEF ConnectionsArePrivate
<1> QED
  BY <1>1, <1>2, <1>3, <1>4

\* The events follow as before when nothing that they follow has changed.
LEMMA ListingStays ==
  ASSUME DSInv,
         \A c \in Clients, s \in Slots : c \in Listed'[s] <=> c \in Listed[s],
         \A c \in Clients : clients'[c] = "open" /\ ~Leaving(c)' =>
            /\ clients[c] = "open" /\ ~Leaving(c)
            /\ \A d \in Devices : conns'[c][d] # NoConn <=> conns[c][d] # NoConn,
         \A c \in Clients : clients'[c] # "open" \/ Leaving(c)' => clients[c] # "open" \/ Leaving(c)
  PROVE  EventsFollowConnections' /\ Unlisted'
<1>0. \A d \in Devices, e \in Events : <<d, e>> \in Slots
  BY DEF Slots
<1>1. Interfaces \subseteq Events
  BY ServerAssumption
<1>2. ASSUME NEW c \in Clients, NEW d \in Devices, clients'[c] = "open" /\ ~Leaving(c)'
      PROVE  /\ \A e \in HookEvents \cap Events : c \in Listed'[<<d, e>>] <=> conns'[c][d] # NoConn
             /\ \A e \in Interfaces : c \in Listed'[<<d, e>>] => conns'[c][d] # NoConn
  <2>1. clients[c] = "open" /\ ~Leaving(c) /\ (conns'[c][d] # NoConn <=> conns[c][d] # NoConn)
    BY <1>2
  <2>2. /\ \A e \in HookEvents \cap Events : c \in Listed[<<d, e>>] <=> conns[c][d] # NoConn
        /\ \A e \in Interfaces : c \in Listed[<<d, e>>] => conns[c][d] # NoConn
    BY <2>1 DEF DSInv, EventsFollowConnections
  <2> QED
    BY <1>0, <1>1, <2>1, <2>2
<1>3. EventsFollowConnections'
  BY <1>2 DEF EventsFollowConnections
<1>4. ASSUME NEW c \in Clients, clients'[c] # "open" \/ Leaving(c)', NEW s \in Slots
      PROVE  c \notin Listed'[s]
  <2>1. clients[c] # "open" \/ Leaving(c)
    BY <1>4
  <2>2. c \notin Listed[s]
    BY <2>1 DEF DSInv, Unlisted
  <2> QED
    BY <2>2
<1>5. Unlisted'
  BY <1>4 DEF Unlisted
<1> QED
  BY <1>3, <1>5

\* The events of one device follow its entry with the client.
LEMMA ListingFollows ==
  ASSUME DSInv, NEW c \in Clients, NEW d \in Devices, clients[c] = "open", ~Leaving(c),
         clients' = clients, \A c2 \in Clients : Leaving(c2)' <=> Leaving(c2),
         \A c2 \in Clients, s \in Slots : c2 # c \/ s[1] # d => (c2 \in Listed'[s] <=> c2 \in Listed[s]),
         \A c2 \in Clients, d2 \in Devices : c2 # c \/ d2 # d => conns'[c2][d2] = conns[c2][d2],
         \A e \in HookEvents \cap Events : c \in Listed'[<<d, e>>] <=> conns'[c][d] # NoConn,
         \A e \in Interfaces : c \in Listed'[<<d, e>>] => conns'[c][d] # NoConn
  PROVE  EventsFollowConnections' /\ Unlisted'
<1>0. \A d2 \in Devices, e \in Events : <<d2, e>> \in Slots /\ <<d2, e>>[1] = d2
  BY DEF Slots
<1>1. Interfaces \subseteq Events
  BY ServerAssumption
<1>2. ASSUME NEW c2 \in Clients, NEW d2 \in Devices, clients'[c2] = "open" /\ ~Leaving(c2)'
      PROVE  /\ \A e \in HookEvents \cap Events : c2 \in Listed'[<<d2, e>>] <=> conns'[c2][d2] # NoConn
             /\ \A e \in Interfaces : c2 \in Listed'[<<d2, e>>] => conns'[c2][d2] # NoConn
  <2>1. CASE c2 = c /\ d2 = d
    BY <2>1
  <2>2. CASE c2 # c \/ d2 # d
    <3>1. clients[c2] = "open" /\ ~Leaving(c2) /\ conns'[c2][d2] = conns[c2][d2]
      BY <1>2, <2>2
    <3>2. /\ \A e \in HookEvents \cap Events : c2 \in Listed[<<d2, e>>] <=> conns[c2][d2] # NoConn
          /\ \A e \in Interfaces : c2 \in Listed[<<d2, e>>] => conns[c2][d2] # NoConn
      BY <3>1 DEF DSInv, EventsFollowConnections
    <3>3. \A e \in Events : c2 \in Listed'[<<d2, e>>] <=> c2 \in Listed[<<d2, e>>]
      BY <1>0, <2>2
    <3> QED
      BY <1>1, <3>1, <3>2, <3>3
  <2> QED
    BY <2>1, <2>2
<1>3. EventsFollowConnections'
  BY <1>2 DEF EventsFollowConnections
<1>4. ASSUME NEW c2 \in Clients, clients'[c2] # "open" \/ Leaving(c2)', NEW s \in Slots
      PROVE  c2 \notin Listed'[s]
  <2>1. c2 # c /\ (clients[c2] # "open" \/ Leaving(c2))
    BY <1>4
  <2>2. c2 \notin Listed[s]
    BY <2>1 DEF DSInv, Unlisted
  <2> QED
    BY <2>1, <2>2
<1>5. Unlisted'
  BY <1>4 DEF Unlisted
<1> QED
  BY <1>3, <1>5

LEMMA EntryIs ==
  ASSUME DSInv, NEW c \in Clients, NEW d \in Devices, NEW id \in ConnIds \cup {NoConn},
         conns' = [conns EXCEPT ![c][d] = id]
  PROVE  /\ conns' \in [Clients -> [Devices -> ConnIds \cup {NoConn}]]
         /\ \A c2 \in Clients, d2 \in Devices :
               conns'[c2][d2] = IF c2 = c /\ d2 = d THEN id ELSE conns[c2][d2]
         /\ \A c2 \in Clients : c2 # c => conns'[c2] = conns[c2]
<1>1. conns \in [Clients -> [Devices -> ConnIds \cup {NoConn}]]
  BY DEF DSInv, DSType
<1>2. conns' = [conns EXCEPT ![c] = [conns[c] EXCEPT ![d] = id]]
  OBVIOUS
<1>3. [conns[c] EXCEPT ![d] = id] \in [Devices -> ConnIds \cup {NoConn}]
  BY <1>1
<1> QED
  BY <1>1, <1>2, <1>3

LEMMA LinkIs ==
  ASSUME DSInv, NEW id \in ConnIds, NEW failed \in BOOLEAN, AdapterDisconnects(id, failed)
  PROVE  /\ connections' \in [ConnIds -> Devices \cup {NULL}]
         /\ \A i \in ConnIds : connections'[i] \in {connections[i], NULL}
         /\ ~failed => connections'[id] = NULL
<1>1. connections \in [ConnIds -> Devices \cup {NULL}]
  BY DEF DSInv, DSType
<1>2. CASE failed
  BY <1>1, <1>2 DEF AdapterDisconnects
<1>3. CASE ~failed
  <2>1. connections' = [connections EXCEPT ![id] = NULL]
    BY <1>3 DEF AdapterDisconnects, TeardownConnection
  <2> QED
    BY <1>1, <2>1
<1> QED
  BY <1>2, <1>3

\* Links are known as before when no client, owner or entry has changed.
LEMMA KnownStays ==
  ASSUME DSInv, \A i \in ConnIds : connections'[i] \in {connections[i], NULL},
         clients' = clients, owner' = owner, unclosed \subseteq unclosed',
         \A c \in Clients, d \in Devices : conns[c][d] \in ConnIds =>
            \/ conns'[c][d] = conns[c][d]
            \/ connections'[conns[c][d]] = NULL
            \/ conns[c][d] \in unclosed'
  PROVE  ConnectionsAreKnown'
<1> SUFFICES ASSUME NEW i \in ConnIds, connections'[i] # NULL, i \notin unclosed'
             PROVE  /\ clients'[owner'[i]] # "gone"
                    /\ clients'[owner'[i]] = "open" => conns'[owner'[i]][connections'[i]] = i
  BY DEF ConnectionsAreKnown
<1>1. connections'[i] = connections[i] /\ connections[i] # NULL /\ i \notin unclosed
  OBVIOUS
<1>2. PICK c \in Clients, d \in Devices : c = owner[i] /\ d = connections[i]
  BY <1>1 DEF DSInv, DSType, LinksAreOwned
<1>3. clients[c] # "gone" /\ (clients[c] = "open" => conns[c][d] = i)
  BY <1>1, <1>2 DEF DSInv, ConnectionsAreKnown
<1>4. conns[c][d] = i => conns'[c][d] = i
  BY <1>1
<1> QED
  BY <1>1, <1>2, <1>3, <1>4

-----------------------------------------------------------------------------
(* The steps. *)

LEMMA DSSetup ==
  ASSUME DSInv, NEW c \in Clients, SetupClient(c)
  PROVE  DSInv'
<1>0. DSType
  BY DEF DSInv
<1>1. /\ clients[c] = "none" /\ clients' = [clients EXCEPT ![c] = "open"]
      /\ UNCHANGED <<conns, connections, nextConnId, op, owner, unclosed>>
  BY DEF SetupClient
<1>2. /\ NInv' /\ NType'
      /\ \A c2 \in Clients, s \in Slots : c2 # c \/ s[1] \in Devices =>
            (c2 \in Listed'[s] <=> c2 \in Listed[s])
  <2> DEFINE registered == [callbacks EXCEPT ![c] = "live"]
  <2>1. registered \in [Handles -> {"none", "live", "deleted"}]
    BY DEF DSInv, NType
  <2>2. Adjust(<<Adjustment(c, "add", {}, {})>> \o GlobalEvents(c, "add", "device_seen")
                   \o GlobalEvents(c, "add", "broadcast"), registered)
    BY DEF SetupClient
  <2> HIDE DEF registered
  <2> QED
    BY <2>1, <2>2, AdjustSetup DEF DSInv
<1>3. \A c2 \in Clients : clients'[c2] = IF c2 = c THEN "open" ELSE clients[c2]
  BY <1>0, <1>1 DEF DSType
<1>4. DSType'
  BY <1>0, <1>1 DEF DSType
<1>5. \A c2 \in Clients : Leaving(c2)' <=> Leaving(c2)
  BY <1>1 DEF Leaving
<1>6. ~Leaving(c)
  BY <1>1 DEF Leaving, DSInv, CommandsAreCurrent
<1>7. CommandsAreCurrent'
  <2>1. \A o \in Ops : op[o] # NULL => op[o].client \in Clients
    BY OpIs, CoroutineFields
  <2> QED
    BY <1>1, <1>3, <1>5, <2>1 DEF DSInv, CommandsAreCurrent
<1>8. ConnectsAreNew' /\ EntriesAreOld' /\ LinksAreOwned' /\ ConnectionsArePrivate'
  <2>1. \A c2 \in Clients : clients'[c2] = "none" => clients[c2] = "none"
    BY <1>3
  <2> QED
    BY <1>1, <2>1, LessKeeps
<1>9. TeardownsCover'
  BY <1>1, TeardownsStay
<1>10. ConnectionsAreKnown'
  BY <1>1, <1>3 DEF DSInv, ConnectionsAreKnown, LinksAreOwned
<1>11. \A d \in Devices, e \in Events : <<d, e>> \in Slots /\ <<d, e>>[1] = d
  BY DEF Slots
<1>12. EventsFollowConnections'
  <2>1. ASSUME NEW c2 \in Clients, NEW d \in Devices, clients'[c2] = "open" /\ ~Leaving(c2)'
        PROVE  /\ \A e \in HookEvents \cap Events : c2 \in Listed'[<<d, e>>] <=> conns'[c2][d] # NoConn
               /\ \A e \in Interfaces : c2 \in Listed'[<<d, e>>] => conns'[c2][d] # NoConn
    <3>1. \A e \in Events : c2 \in Listed'[<<d, e>>] <=> c2 \in Listed[<<d, e>>]
      BY <1>2, <1>11
    <3>2. CASE c2 = c
      <4>1. \A e \in Events : c \notin Listed[<<d, e>>]
        BY <1>1, <1>11 DEF DSInv, Unlisted
      <4>2. conns'[c][d] = NoConn
        BY <1>1 DEF DSInv, EntriesAreOld
      <4> QED
        BY <3>1, <3>2, <4>1, <4>2, ServerAssumption
    <3>3. CASE c2 # c
      <4>1. clients[c2] = "open" /\ ~Leaving(c2) /\ conns'[c2][d] = conns[c2][d]
        BY <1>1, <1>3, <1>5, <2>1, <3>3
      <4> QED
        BY <3>1, <4>1, ServerAssumption DEF DSInv, EventsFollowConnections
    <3> QED
      BY <3>2, <3>3
  <2> QED
    BY <2>1 DEF EventsFollowConnections
<1>13. Unlisted'
  <2>1. ASSUME NEW c2 \in Clients, clients'[c2] # "open" \/ Leaving(c2)', NEW s \in Slots
        PROVE  c2 \notin Listed'[s]
    <3>1. c2 # c /\ (clients[c2] # "open" \/ Leaving(c2))
      BY <1>3, <1>5, <1>6, <2>1
    <3> QED
      BY <1>2, <3>1 DEF DSInv, Unlisted
  <2> QED
    BY <2>1 DEF Unlisted
<1> QED
  BY <1>2, <1>4, <1>7, <1>8, <1>9, <1>10, <1>12, <1>13 DEF DSInv

\* What notifications do leaves the server as it is.
LEMMA DSQuiet ==
  ASSUME DSInv, NInv', NType', Listed' = Listed, UNCHANGED serverVars
  PROVE  DSInv'
<1>1. UNCHANGED <<clients, conns, connections, nextConnId, op, owner, unclosed>>
  BY DEF serverVars
<1>2. DSType'
  BY <1>1 DEF DSInv, DSType
<1>3. \A c \in Clients : Leaving(c)' <=> Leaving(c)
  BY <1>1 DEF Leaving
<1>4. CommandsAreCurrent'
  <2>1. \A o \in Ops : op[o] # NULL => op[o].client \in Clients
    BY OpIs, CoroutineFields
  <2> QED
    BY <1>1, <1>3, <2>1 DEF DSInv, CommandsAreCurrent
<1>5. ConnectsAreNew' /\ EntriesAreOld' /\ LinksAreOwned' /\ ConnectionsArePrivate'
  BY <1>1, LessKeeps
<1>6. TeardownsCover'
  BY <1>1, TeardownsStay
<1>7. ConnectionsAreKnown'
  BY <1>1, KnownStays
<1>8. EventsFollowConnections' /\ Unlisted'
  BY <1>1, <1>3, ListingStays
<1> QED
  BY <1>2, <1>4, <1>5, <1>6, <1>7, <1>8 DEF DSInv

\* A device drops a link.
LEMMA DSDrop ==
  ASSUME DSInv, NEW n \in Notifiers, NEW i \in ConnIds, DeviceDisconnects(n, i)
  PROVE  DSInv'
<1>1. /\ connections[i] # NULL /\ connections' = [connections EXCEPT ![i] = NULL]
      /\ Begin(n, connections[i], "disconnection")
      /\ UNCHANGED <<clients, conns, nextConnId, op, owner, unclosed>>
  BY DEF DeviceDisconnects, TeardownConnection
<1>2. connections \in [ConnIds -> Devices \cup {NULL}]
  BY DEF DSInv, DSType
<1>3. NInv' /\ NType' /\ Listed' = Listed
  <2>1. PICK d \in Devices : d = connections[i]
    BY <1>1, <1>2
  <2>2. Begin(n, d, "disconnection")
    BY <1>1, <2>1
  <2> QED
    BY <2>2, BeginTypes, ServerAssumption DEF DSInv
<1>4. \A j \in ConnIds : connections'[j] \in {connections[j], NULL}
  BY <1>1, <1>2
<1>5. DSType'
  BY <1>1, <1>2 DEF DSInv, DSType
<1>6. \A c \in Clients : Leaving(c)' <=> Leaving(c)
  BY <1>1 DEF Leaving
<1>7. CommandsAreCurrent'
  <2>1. \A o \in Ops : op[o] # NULL => op[o].client \in Clients
    BY OpIs, CoroutineFields
  <2> QED
    BY <1>1, <1>6, <2>1 DEF DSInv, CommandsAreCurrent
<1>8. ConnectsAreNew' /\ EntriesAreOld' /\ LinksAreOwned' /\ ConnectionsArePrivate'
  BY <1>1, <1>4, LessKeeps
<1>9. TeardownsCover'
  <2>1. \A c \in Clients, d \in Devices : conns[c][d] # NoConn => conns[c][d] \in ConnIds
    BY DEF DSInv, DSType
  <2> QED
    BY <1>1, <1>4, <2>1, TeardownsStay
<1>10. ConnectionsAreKnown'
  BY <1>1, <1>4, KnownStays
<1>11. EventsFollowConnections' /\ Unlisted'
  BY <1>1, <1>3, <1>6, ListingStays
<1> QED
  BY <1>3, <1>5, <1>7, <1>8, <1>9, <1>10, <1>11 DEF DSInv

LEMMA LeaveTypes ==
  ASSUME DSInv, LeaveMonitors
  PROVE  NInv' /\ NType' /\ Listed' = Listed
<1>1. NInv /\ UNCHANGED notificationVars
  BY DEF DSInv, LeaveMonitors
<1>2. NInv'
  BY <1>1, NStep
<1>4. Listed' = Listed
  BY <1>1 DEF Listed, Adjusted, notificationVars
<1>3. NType'
  BY <1>1, <1>4 DEF DSInv, NType, notificationVars
<1> QED
  BY <1>2, <1>3, <1>4

\* A command that has nothing to set up in the server yet.
LEMMA DSCommand ==
  ASSUME DSInv, NEW o \in Ops, NEW x \in Coroutines, x.kind \notin {"connect", "teardown"},
         clients[x.client] = "open", ~Leaving(x.client), op[o] = NULL, op' = [op EXCEPT ![o] = x],
         NInv', NType', UNCHANGED <<clients, conns, connections, nextConnId, owner, unclosed>>
  PROVE  /\ \A c \in Clients : Leaving(c)' <=> Leaving(c)
         /\ EventsFollowConnections' /\ Unlisted' => DSInv'
<1>1. /\ op' \in [Ops -> Coroutines \cup {NULL}]
      /\ \A p \in Ops : op'[p] = IF p = o THEN x ELSE op[p]
      /\ \A c \in Clients : Leaving(c)' <=> Leaving(c)
      /\ CommandsAreCurrent'
  BY CommandOps
<1>2. DSType'
  BY <1>1 DEF DSInv, DSType
<1>3. ConnectsAreNew' /\ EntriesAreOld' /\ LinksAreOwned' /\ ConnectionsArePrivate'
  BY <1>1, LessKeeps
<1>4. TeardownsCover'
  BY <1>1, TeardownsStay
<1>5. ConnectionsAreKnown'
  BY KnownStays
<1> QED
  BY <1>1, <1>2, <1>3, <1>4, <1>5 DEF DSInv

\* A command that ends with nothing to do but with the monitors.
LEMMA DSReturn ==
  ASSUME DSInv, NEW o \in Ops, op[o] # NULL, op[o].kind # "teardown", EndOp(o),
         NInv', NType', UNCHANGED <<clients, conns, connections, nextConnId, owner, unclosed>>
  PROVE  /\ \A c \in Clients : Leaving(c)' <=> Leaving(c)
         /\ EventsFollowConnections' /\ Unlisted' => DSInv'
<1>1. /\ op' \in [Ops -> Coroutines \cup {NULL}]
      /\ \A p \in Ops : op'[p] = IF p = o THEN NULL ELSE op[p]
      /\ \A c \in Clients : Leaving(c)' <=> Leaving(c)
      /\ CommandsAreCurrent'
  BY EndOps
<1>2. DSType'
  BY <1>1 DEF DSInv, DSType
<1>3. ConnectsAreNew' /\ EntriesAreOld' /\ LinksAreOwned' /\ ConnectionsArePrivate'
  BY <1>1, LessKeeps
<1>4. TeardownsCover'
  BY <1>1, TeardownsStay
<1>5. ConnectionsAreKnown'
  BY KnownStays
<1> QED
  BY <1>1, <1>2, <1>3, <1>4, <1>5 DEF DSInv

\* Disconnect and CloseInterface.
LEMMA DSPlainCommand ==
  ASSUME DSInv, NEW o \in Ops, NEW c \in Clients, NEW kind \in {"disconnect", "close"}, NEW d \in Devices,
         NEW event \in IF kind = "close" THEN Interfaces ELSE {NULL}, conns[c][d] # NoConn,
         Command(o, c, kind, d, conns[c][d], event), LeaveMonitors,
         UNCHANGED <<clients, conns, connections, nextConnId, owner, unclosed>>
  PROVE  DSInv'
<1>1. conns[c][d] \in ConnIds
  BY DEF DSInv, DSType
<1> DEFINE x == Coroutine(c, kind, d, conns[c][d], event, {})
<1>2. x \in Coroutines /\ x.client = c /\ x.kind = kind
  BY <1>1, CoroutineIs
<1>3. op[o] = NULL /\ clients[c] = "open" /\ ~Leaving(c) /\ op' = [op EXCEPT ![o] = x]
  BY DEF Command
<1> HIDE DEF x
<1>4. NInv' /\ NType' /\ Listed' = Listed
  BY LeaveTypes
<1>5. x.kind \notin {"connect", "teardown"}
  BY <1>2
<1>6. /\ \A c2 \in Clients : Leaving(c2)' <=> Leaving(c2)
      /\ EventsFollowConnections' /\ Unlisted' => DSInv'
  BY <1>2, <1>3, <1>4, <1>5, DSCommand
<1>7. EventsFollowConnections' /\ Unlisted'
  BY <1>4, <1>6, ListingStays
<1> QED
  BY <1>6, <1>7

LEMMA DSOpen ==
  ASSUME DSInv, NEW o \in Ops, NEW c \in Clients, NEW d \in Devices, NEW event \in Interfaces,
         OpenInterface(o, c, d, event)
  PROVE  DSInv'
<1>1. conns[c][d] # NoConn /\ conns[c][d] \in ConnIds
  BY DEF OpenInterface, DSInv, DSType
<1> DEFINE x == Coroutine(c, "open", d, conns[c][d], event, {})
<1>2. x \in Coroutines /\ x.client = c /\ x.kind = "open"
  BY <1>1, CoroutineIs
<1>3. /\ op[o] = NULL /\ clients[c] = "open" /\ ~Leaving(c) /\ op' = [op EXCEPT ![o] = x]
      /\ UNCHANGED <<clients, conns, connections, nextConnId, owner, unclosed>>
  BY DEF Command, OpenInterface
<1> HIDE DEF x
<1>4. /\ NInv' /\ NType'
      /\ \A c2 \in Clients, s \in Slots :
            c2 \in Listed'[s] <=> IF c2 = c /\ s \in {d} \X {event} THEN TRUE ELSE c2 \in Listed[s]
  <2>1. {event} \in SUBSET Supported
    BY ServerAssumption DEF Supported
  <2>2. AdjustServer(DeviceEvents(c, "add", d, {event}))
    BY DEF OpenInterface
  <2> QED
    BY <2>1, <2>2, AdjustDevice DEF DSInv
<1>5. /\ \A c2 \in Clients : Leaving(c2)' <=> Leaving(c2)
      /\ EventsFollowConnections' /\ Unlisted' => DSInv'
  BY <1>2, <1>3, <1>4, DSCommand
<1>6. \A c2 \in Clients, s \in Slots : c2 # c \/ s[1] # d => (c2 \in Listed'[s] <=> c2 \in Listed[s])
  BY <1>4
<1>7. \A e \in Events : <<d, e>> \in Slots /\ (<<d, e>> \in {d} \X {event} <=> e = event)
  BY DEF Slots
<1>8. \A e \in HookEvents \cap Events : c \in Listed'[<<d, e>>] <=> conns'[c][d] # NoConn
  <2>1. event \notin HookEvents
    BY ServerAssumption DEF HookEvents
  <2>2. \A e \in HookEvents \cap Events : c \in Listed[<<d, e>>] <=> conns[c][d] # NoConn
    BY <1>3 DEF DSInv, EventsFollowConnections
  <2> QED
    BY <1>3, <1>4, <1>7, <2>1, <2>2
<1>9. EventsFollowConnections' /\ Unlisted'
  BY <1>1, <1>3, <1>5, <1>6, <1>8, ListingFollows
<1> QED
  BY <1>5, <1>9

LEMMA DSUnhooked ==
  ASSUME DSInv, NEW o \in Ops, ReturnsUnhooked(o)
  PROVE  DSInv'
<1>1. NInv' /\ NType' /\ Listed' = Listed
  BY LeaveTypes DEF ReturnsUnhooked
<1>2. /\ \A c2 \in Clients : Leaving(c2)' <=> Leaving(c2)
      /\ EventsFollowConnections' /\ Unlisted' => DSInv'
  BY <1>1, DSReturn DEF ReturnsUnhooked
<1>3. EventsFollowConnections' /\ Unlisted'
  BY <1>1, <1>2, ListingStays DEF ReturnsUnhooked
<1> QED
  BY <1>2, <1>3

LEMMA DSClose ==
  ASSUME DSInv, NEW o \in Ops, CloseReturns(o)
  PROVE  DSInv'
<1>1. PICK x : x = op[o]
  OBVIOUS
<1>2. /\ x # NULL /\ x.kind = "close" /\ clients[x.client] = "open"
      /\ AdjustServer(DeviceEvents(x.client, "remove", x.device, {x.event}))
      /\ EndOp(o) /\ UNCHANGED <<clients, conns, connections, nextConnId, owner, unclosed>>
  BY <1>1 DEF CloseReturns
<1>3. PICK c \in Clients, d \in Devices, event \in Interfaces : c = x.client /\ d = x.device /\ event = x.event
  <2>1. x \in Coroutines
    BY <1>1, <1>2, OpIs
  <2> QED
    BY <1>2, <2>1, CoroutineFields
<1>4. /\ NInv' /\ NType'
      /\ \A c2 \in Clients, s \in Slots :
            c2 \in Listed'[s] <=> IF c2 = c /\ s \in {d} \X {event} THEN FALSE ELSE c2 \in Listed[s]
  <2>1. {event} \in SUBSET Supported
    BY ServerAssumption DEF Supported
  <2>2. AdjustServer(DeviceEvents(c, "remove", d, {event}))
    BY <1>2, <1>3
  <2> QED
    BY <2>1, <2>2, AdjustDevice DEF DSInv
<1>5. /\ \A c2 \in Clients : Leaving(c2)' <=> Leaving(c2)
      /\ EventsFollowConnections' /\ Unlisted' => DSInv'
  BY <1>1, <1>2, <1>4, DSReturn
<1>6. clients[c] = "open" /\ ~Leaving(c)
  BY <1>1, <1>2, <1>3 DEF DSInv, CommandsAreCurrent
<1>7. \A c2 \in Clients, s \in Slots : c2 # c \/ s[1] # d => (c2 \in Listed'[s] <=> c2 \in Listed[s])
  BY <1>4
<1>8. \A e \in Events : <<d, e>> \in Slots /\ (<<d, e>> \in {d} \X {event} <=> e = event)
  BY DEF Slots
<1>9. /\ \A e \in HookEvents \cap Events : c \in Listed[<<d, e>>] <=> conns[c][d] # NoConn
      /\ \A e \in Interfaces : c \in Listed[<<d, e>>] => conns[c][d] # NoConn
  BY <1>6 DEF DSInv, EventsFollowConnections
<1>10. \A e \in HookEvents \cap Events : c \in Listed'[<<d, e>>] <=> conns'[c][d] # NoConn
  <2>1. event \notin HookEvents
    BY ServerAssumption DEF HookEvents
  <2> QED
    BY <1>2, <1>4, <1>8, <1>9, <2>1
<1>11. \A e \in Interfaces : c \in Listed'[<<d, e>>] => conns'[c][d] # NoConn
  BY <1>2, <1>4, <1>8, <1>9, ServerAssumption
<1>12. EventsFollowConnections' /\ Unlisted'
  BY <1>2, <1>5, <1>6, <1>7, <1>10, <1>11, ListingFollows
<1> QED
  BY <1>5, <1>12

LEMMA DSConnect ==
  ASSUME DSInv, NEW o \in Ops, NEW c \in Clients, NEW d \in Devices, Connect(o, c, d)
  PROVE  DSInv'
<1> DEFINE x == Coroutine(c, "connect", d, nextConnId, NULL, {})
<1>0. /\ nextConnId \in ConnIds /\ nextConnId \in 1 .. MaxConnections + 1 /\ MaxConnections \in Nat
      /\ conns \in [Clients -> [Devices -> ConnIds \cup {NoConn}]]
      /\ owner \in [ConnIds -> Clients \cup {NULL}]
  BY ServerAssumption DEF Connect, DSInv, DSType
<1>1. x \in Coroutines /\ x # NULL /\ x.client = c /\ x.kind = "connect" /\ x.device = d /\ x.id = nextConnId
  BY <1>0, CoroutineIs
<1>2. /\ \A i \in ConnIds : connections[i] # d
      /\ \A p \in InProgress("connect") : p.device # d
      /\ op[o] = NULL /\ clients[c] = "open" /\ ~Leaving(c) /\ op' = [op EXCEPT ![o] = x]
      /\ nextConnId' = nextConnId + 1 /\ owner' = [owner EXCEPT ![nextConnId] = c]
      /\ UNCHANGED <<clients, conns, connections, unclosed>>
  BY DEF Connect, Command
<1> HIDE DEF x
<1>3. NInv' /\ NType' /\ Listed' = Listed
  BY LeaveTypes DEF Connect
<1>4. /\ op' \in [Ops -> Coroutines \cup {NULL}]
      /\ \A p \in Ops : op'[p] = IF p = o THEN x ELSE op[p]
      /\ \A c2 \in Clients : Leaving(c2)' <=> Leaving(c2)
      /\ CommandsAreCurrent'
  BY <1>1, <1>2, CommandOps
<1>5. nextConnId' \in 1 .. MaxConnections + 1
  BY <1>0, <1>2 DEF ConnIds
<1>6. owner' \in [ConnIds -> Clients \cup {NULL}] /\ \A i \in ConnIds : owner'[i] = IF i = nextConnId THEN c ELSE owner[i]
  BY <1>0, <1>2
<1>7. DSType'
  BY <1>2, <1>4, <1>5, <1>6 DEF DSInv, DSType
<1>8. \A i \in ConnIds : i \in Nat /\ (i < nextConnId => i # nextConnId /\ i < nextConnId')
  BY <1>0, <1>2 DEF ConnIds
<1>9. EntriesAreOld'
  <2>0. \A c2 \in Clients, d2 \in Devices : conns[c2][d2] \in ConnIds \cup {0}
    BY <1>0 DEF NoConn
  <2>1. \A c2 \in Clients, d2 \in Devices : conns[c2][d2] \in Nat
    BY <1>8, <2>0
  <2>2. \A k \in Nat : k < nextConnId => k < nextConnId'
    BY <1>0, <1>2
  <2> QED
    BY <1>2, <2>1, <2>2 DEF DSInv, EntriesAreOld
<1>10. LinksAreOwned'
  BY <1>2, <1>6, <1>8 DEF DSInv, LinksAreOwned
<1>11. ConnectionsArePrivate'
  <2>1. ASSUME NEW c2 \in Clients, NEW d2 \in Devices, conns[c2][d2] # NoConn
        PROVE  owner'[conns[c2][d2]] = c2 /\ connections[conns[c2][d2]] \in {d2, NULL}
    <3>1. conns[c2][d2] \in ConnIds /\ conns[c2][d2] < nextConnId
      BY <1>0, <2>1 DEF DSInv, EntriesAreOld
    <3>2. owner[conns[c2][d2]] = c2 /\ connections[conns[c2][d2]] \in {d2, NULL}
      BY <2>1 DEF DSInv, ConnectionsArePrivate
    <3> QED
      BY <1>6, <1>8, <3>1, <3>2
  <2> QED
    BY <1>2, <2>1 DEF ConnectionsArePrivate
<1>12. ConnectionsAreKnown'
  <2>1. \A i \in ConnIds : connections[i] # NULL => owner'[i] = owner[i]
    BY <1>6, <1>8 DEF DSInv, LinksAreOwned
  <2> QED
    BY <1>2, <2>1 DEF DSInv, ConnectionsAreKnown
<1>13. TeardownsCover'
  BY <1>1, <1>2, <1>4, TeardownsStay
<1>14. ConnectsAreNew'
  <2> DEFINE New(y) ==
                /\ owner'[y.id] = y.client /\ y.id < nextConnId'
                /\ \A c2 \in Clients, d2 \in Devices : conns'[c2][d2] # y.id
                /\ \A i \in ConnIds : connections'[i] # y.device
  <2>1. New(x)
    <3>1. \A c2 \in Clients, d2 \in Devices : conns[c2][d2] # nextConnId
      <4>1. \A c2 \in Clients, d2 \in Devices : conns[c2][d2] < nextConnId
        BY DEF DSInv, EntriesAreOld
      <4> QED
        BY <1>0, <4>1
    <3>2. nextConnId < nextConnId'
      BY <1>0, <1>2
    <3> QED
      BY <1>0, <1>1, <1>2, <1>6, <3>1, <3>2
  <2>2. ASSUME NEW p \in Ops \ {o}, op[p] # NULL, op[p].kind = "connect"
        PROVE  New(op[p]) /\ op[p].device # d /\ op[p].id # nextConnId
    <3>1. op[p] \in Coroutines
      BY <2>2, OpIs
    <3>2. op[p].id \in ConnIds
      BY <3>1, CoroutineFields
    <3>3. IsNew(op[p])
      BY <2>2 DEF DSInv, ConnectsAreNew
    <3>4. op[p].id < nextConnId
      BY <3>3 DEF IsNew
    <3>5. New(op[p])
      BY <1>2, <1>6, <1>8, <3>2, <3>3, <3>4 DEF IsNew
    <3>6. op[p].device # d
      BY <1>2, <2>2 DEF InProgress
    <3> QED
      BY <1>8, <3>2, <3>4, <3>5, <3>6
  <2> HIDE DEF New
  <2>3. ASSUME NEW p \in Ops, op'[p] # NULL, op'[p].kind = "connect"
        PROVE  /\ New(op'[p])
               /\ \A q \in Ops \ {p} : op'[q] # NULL /\ op'[q].kind = "connect" =>
                     op'[q].device # op'[p].device /\ op'[q].id # op'[p].id
    <3>1. CASE p = o
      <4>1. op'[p] = x /\ \A q \in Ops \ {p} : op'[q] = op[q]
        BY <1>4, <3>1
      <4> QED
        BY <1>1, <2>1, <2>2, <3>1, <4>1
    <3>2. CASE p # o
      <4>1. op'[p] = op[p] /\ New(op[p]) /\ op[p].device # d /\ op[p].id # nextConnId
        BY <1>4, <2>2, <2>3, <3>2
      <4>2. ASSUME NEW q \in Ops \ {p}, op'[q] # NULL, op'[q].kind = "connect"
            PROVE  op'[q].device # op[p].device /\ op'[q].id # op[p].id
        <5>1. CASE q = o
          BY <1>1, <1>4, <4>1, <5>1
        <5>2. CASE q # o
          <6>1. op'[q] = op[q]
            BY <1>4, <5>2
          <6> QED
            BY <2>3, <4>1, <4>2, <6>1 DEF DSInv, ConnectsAreNew
        <5> QED
          BY <5>1, <5>2
      <4> QED
        BY <4>1, <4>2
    <3> QED
      BY <3>1, <3>2
  <2> QED
    BY <2>3 DEF ConnectsAreNew, IsNew, New
<1>15. EventsFollowConnections' /\ Unlisted'
  BY <1>2, <1>3, <1>4, ListingStays
<1> QED
  BY <1>3, <1>4, <1>7, <1>9, <1>10, <1>11, <1>12, <1>13, <1>14, <1>15 DEF DSInv

\* What _hook_disconnect and _hook_connect do to the listing.
LEMMA HookListing ==
  ASSUME DSInv, NEW c \in Clients, NEW d \in Devices, NEW id \in ConnIds \cup {NoConn},
         clients[c] = "open", ~Leaving(c), clients' = clients,
         \A c2 \in Clients : Leaving(c2)' <=> Leaving(c2),
         conns' = [conns EXCEPT ![c][d] = id],
         \/ id = NoConn /\ AdjustServer(DeviceEvents(c, "remove", d, AllDeviceEvents))
         \/ id # NoConn /\ AdjustServer(DeviceEvents(c, "add", d, HookEvents))
  PROVE  NInv' /\ NType' /\ EventsFollowConnections' /\ Unlisted'
<1>1. /\ \A c2 \in Clients, d2 \in Devices : c2 # c \/ d2 # d => conns'[c2][d2] = conns[c2][d2]
      /\ conns'[c][d] = id
  <2>1. \A c2 \in Clients, d2 \in Devices :
           conns'[c2][d2] = IF c2 = c /\ d2 = d THEN id ELSE conns[c2][d2]
    BY EntryIs
  <2> QED
    BY <2>1
<1>2. \A e \in Events : <<d, e>> \in Slots /\ \A V : <<d, e>> \in {d} \X V <=> e \in V
  BY DEF Slots
<1>3. Interfaces \subseteq Events /\ Interfaces \subseteq AllDeviceEvents /\ HookEvents \subseteq AllDeviceEvents
  BY ServerAssumption DEF AllDeviceEvents
<1>4. CASE id = NoConn /\ AdjustServer(DeviceEvents(c, "remove", d, AllDeviceEvents))
  <2>1. AllDeviceEvents \in SUBSET Supported
    BY DEF Supported, ServerEvents
  <2>2. /\ NInv' /\ NType'
        /\ \A c2 \in Clients, s \in Slots :
              c2 \in Listed'[s] <=> IF c2 = c /\ s \in {d} \X AllDeviceEvents THEN FALSE ELSE c2 \in Listed[s]
    BY <1>4, <2>1, AdjustDevice DEF DSInv
  <2>3. \A c2 \in Clients, s \in Slots : c2 # c \/ s[1] # d => (c2 \in Listed'[s] <=> c2 \in Listed[s])
    BY <2>2
  <2>4. \A e \in Events \cap AllDeviceEvents : c \notin Listed'[<<d, e>>]
    BY <1>2, <2>2
  <2>5. /\ \A e \in HookEvents \cap Events : c \in Listed'[<<d, e>>] <=> conns'[c][d] # NoConn
        /\ \A e \in Interfaces : c \in Listed'[<<d, e>>] => conns'[c][d] # NoConn
    BY <1>1, <1>3, <1>4, <2>4
  <2> QED
    BY <1>1, <2>2, <2>3, <2>5, ListingFollows
<1>5. CASE id # NoConn /\ AdjustServer(DeviceEvents(c, "add", d, HookEvents))
  <2>1. HookEvents \in SUBSET Supported
    BY <1>3 DEF Supported, ServerEvents
  <2>2. /\ NInv' /\ NType'
        /\ \A c2 \in Clients, s \in Slots :
              c2 \in Listed'[s] <=> IF c2 = c /\ s \in {d} \X HookEvents THEN TRUE ELSE c2 \in Listed[s]
    BY <1>5, <2>1, AdjustDevice DEF DSInv
  <2>3. \A c2 \in Clients, s \in Slots : c2 # c \/ s[1] # d => (c2 \in Listed'[s] <=> c2 \in Listed[s])
    BY <2>2
  <2>4. \A e \in Events \cap HookEvents : c \in Listed'[<<d, e>>]
    BY <1>2, <2>2
  <2>5. /\ \A e \in HookEvents \cap Events : c \in Listed'[<<d, e>>] <=> conns'[c][d] # NoConn
        /\ \A e \in Interfaces : c \in Listed'[<<d, e>>] => conns'[c][d] # NoConn
    BY <1>1, <1>5, <2>4
  <2> QED
    BY <1>1, <2>2, <2>3, <2>5, ListingFollows
<1> QED
  BY <1>4, <1>5

LEMMA DSStale ==
  ASSUME DSInv, NEW c \in Clients, NEW d \in Devices, DisconnectStale(c, d)
  PROVE  DSInv'
<1>1. /\ clients[c] = "open" /\ ~Leaving(c) /\ conns[c][d] # NoConn /\ connections[conns[c][d]] = NULL
      /\ AdjustServer(DeviceEvents(c, "remove", d, AllDeviceEvents))
      /\ conns' = [conns EXCEPT ![c][d] = NoConn]
      /\ UNCHANGED <<clients, connections, nextConnId, op, owner, unclosed>>
  BY DEF DisconnectStale, HookDisconnect
<1>2. /\ conns' \in [Clients -> [Devices -> ConnIds \cup {NoConn}]]
      /\ \A c2 \in Clients, d2 \in Devices :
            conns'[c2][d2] = IF c2 = c /\ d2 = d THEN NoConn ELSE conns[c2][d2]
      /\ \A c2 \in Clients : c2 # c => conns'[c2] = conns[c2]
  BY <1>1, EntryIs
<1>3. \A c2 \in Clients : Leaving(c2)' <=> Leaving(c2)
  BY <1>1 DEF Leaving
<1>4. NInv' /\ NType' /\ EventsFollowConnections' /\ Unlisted'
  BY <1>1, <1>3, HookListing
<1>5. DSType'
  BY <1>1, <1>2 DEF DSInv, DSType
<1>6. CommandsAreCurrent'
  <2>1. \A o \in Ops : op[o] # NULL => op[o].client \in Clients
    BY OpIs, CoroutineFields
  <2> QED
    BY <1>1, <1>3, <2>1 DEF DSInv, CommandsAreCurrent
<1>7. ConnectsAreNew' /\ EntriesAreOld' /\ LinksAreOwned' /\ ConnectionsArePrivate'
  BY <1>1, <1>2, LessKeeps
<1>8. TeardownsCover'
  BY <1>1, <1>2, TeardownsStay
<1>9. ConnectionsAreKnown'
  BY <1>1, <1>2, KnownStays
<1> QED
  BY <1>4, <1>5, <1>6, <1>7, <1>8, <1>9 DEF DSInv

LEMMA DSDisconnected ==
  ASSUME DSInv, NEW o \in Ops, NEW failed \in BOOLEAN, DisconnectReturns(o, failed)
  PROVE  DSInv'
<1>1. PICK x : x = op[o]
  OBVIOUS
<1>2. x # NULL /\ x.kind = "disconnect" /\ x \in Coroutines
  BY <1>1, OpIs DEF DisconnectReturns
<1>3. PICK c \in Clients, d \in Devices, id \in ConnIds : c = x.client /\ d = x.device /\ id = x.id
  BY <1>2, CoroutineFields
<1>4. clients[c] = "open" /\ ~Leaving(c)
  BY <1>1, <1>2, <1>3 DEF DSInv, CommandsAreCurrent
<1>5. /\ AdapterDisconnects(id, failed) /\ unclosed' = unclosed \cup LetGo(c, d, id, failed)
      /\ AdjustServer(DeviceEvents(c, "remove", d, AllDeviceEvents))
      /\ conns' = [conns EXCEPT ![c][d] = NoConn]
      /\ EndOp(o) /\ UNCHANGED <<clients, nextConnId, owner>>
  BY <1>1, <1>3, <1>4 DEF DisconnectReturns, HookDisconnect
<1>6. /\ connections' \in [ConnIds -> Devices \cup {NULL}]
      /\ \A i \in ConnIds : connections'[i] \in {connections[i], NULL}
      /\ ~failed => connections'[id] = NULL
  BY <1>5, LinkIs
<1>7. /\ conns' \in [Clients -> [Devices -> ConnIds \cup {NoConn}]]
      /\ \A c2 \in Clients, d2 \in Devices :
            conns'[c2][d2] = IF c2 = c /\ d2 = d THEN NoConn ELSE conns[c2][d2]
      /\ \A c2 \in Clients : c2 # c => conns'[c2] = conns[c2]
  BY <1>5, EntryIs
<1>8. /\ op' \in [Ops -> Coroutines \cup {NULL}]
      /\ \A p \in Ops : op'[p] = IF p = o THEN NULL ELSE op[p]
      /\ \A c2 \in Clients : Leaving(c2)' <=> Leaving(c2)
      /\ CommandsAreCurrent'
  BY <1>1, <1>2, <1>5, EndOps
<1>9. NInv' /\ NType' /\ EventsFollowConnections' /\ Unlisted'
  BY <1>4, <1>5, <1>8, HookListing
<1>10. conns \in [Clients -> [Devices -> ConnIds \cup {NoConn}]]
  BY DEF DSInv, DSType
<1>11. unclosed' \in SUBSET ConnIds /\ unclosed \subseteq unclosed'
  BY <1>5, <1>10 DEF DSInv, DSType, LetGo
<1>12. conns[c][d] \in ConnIds => connections'[conns[c][d]] = NULL \/ conns[c][d] \in unclosed'
  <2>1. CASE conns[c][d] = id
    <3>1. CASE failed
      BY <1>5, <2>1, <3>1 DEF LetGo
    <3>2. CASE ~failed
      BY <1>6, <2>1, <3>2
    <3> QED
      BY <3>1, <3>2
  <2>2. CASE conns[c][d] # id
    BY <1>5, <2>2 DEF LetGo, ConnIds, NoConn
  <2> QED
    BY <2>1, <2>2
<1>13. DSType'
  BY <1>5, <1>6, <1>7, <1>8, <1>11 DEF DSInv, DSType
<1>14. ConnectsAreNew' /\ EntriesAreOld' /\ LinksAreOwned' /\ ConnectionsArePrivate'
  BY <1>5, <1>6, <1>7, <1>8, LessKeeps
<1>15. TeardownsCover'
  <2>1. \A c2 \in Clients, d2 \in Devices : conns[c2][d2] # NoConn =>
            connections'[conns[c2][d2]] \in {connections[conns[c2][d2]], NULL}
    BY <1>6, <1>10
  <2>2. \A c2 \in Clients : Leaving(c2) => conns'[c2] = conns[c2]
    BY <1>4, <1>7
  <2>3. \A p \in Ops : op'[p] # NULL /\ op'[p].kind = "teardown" => op'[p] = op[p]
    BY <1>8
  <2> QED
    BY <1>11, <2>1, <2>2, <2>3, TeardownsStay
<1>16. ConnectionsAreKnown'
  BY <1>5, <1>6, <1>7, <1>11, <1>12, KnownStays
<1> QED
  BY <1>8, <1>9, <1>13, <1>14, <1>15, <1>16 DEF DSInv

LEMMA DSConnected ==
  ASSUME DSInv, NEW o \in Ops, ConnectReturns(o)
  PROVE  DSInv'
<1>1. PICK x : x = op[o]
  OBVIOUS
<1>2. x # NULL /\ x.kind = "connect" /\ x \in Coroutines
  BY <1>1, OpIs DEF ConnectReturns
<1>3. PICK c \in Clients, d \in Devices, id \in ConnIds : c = x.client /\ d = x.device /\ id = x.id
  BY <1>2, CoroutineFields
<1>4. clients[c] = "open" /\ ~Leaving(c)
  BY <1>1, <1>2, <1>3 DEF DSInv, CommandsAreCurrent
<1>5. /\ connections' = [connections EXCEPT ![id] = d]
      /\ AdjustServer(DeviceEvents(c, "add", d, HookEvents))
      /\ conns' = [conns EXCEPT ![c][d] = id]
      /\ EndOp(o) /\ UNCHANGED <<clients, nextConnId, owner, unclosed>>
  BY <1>1, <1>3, <1>4 DEF ConnectReturns, HookConnect, SetupConnection
<1>6. /\ connections \in [ConnIds -> Devices \cup {NULL}]
      /\ conns \in [Clients -> [Devices -> ConnIds \cup {NoConn}]]
      /\ owner \in [ConnIds -> Clients \cup {NULL}]
  BY DEF DSInv, DSType
<1>7. /\ connections' \in [ConnIds -> Devices \cup {NULL}]
      /\ \A i \in ConnIds : connections'[i] = IF i = id THEN d ELSE connections[i]
  BY <1>5, <1>6
<1>8. /\ conns' \in [Clients -> [Devices -> ConnIds \cup {NoConn}]]
      /\ \A c2 \in Clients, d2 \in Devices :
            conns'[c2][d2] = IF c2 = c /\ d2 = d THEN id ELSE conns[c2][d2]
      /\ \A c2 \in Clients : c2 # c => conns'[c2] = conns[c2]
  BY <1>5, EntryIs
<1>9. /\ op' \in [Ops -> Coroutines \cup {NULL}]
      /\ \A p \in Ops : op'[p] = IF p = o THEN NULL ELSE op[p]
      /\ \A c2 \in Clients : Leaving(c2)' <=> Leaving(c2)
      /\ CommandsAreCurrent'
  BY <1>1, <1>2, <1>5, EndOps
<1>10. NInv' /\ NType' /\ EventsFollowConnections' /\ Unlisted'
  <2>1. id # NoConn
    BY DEF ConnIds, NoConn
  <2> QED
    BY <1>4, <1>5, <1>9, <2>1, HookListing
<1>11. /\ owner[id] = c /\ id < nextConnId
       /\ \A c2 \in Clients, d2 \in Devices : conns[c2][d2] # id
       /\ \A i \in ConnIds : connections[i] # d
       /\ \A p \in Ops \ {o} : op[p] # NULL /\ op[p].kind = "connect" => op[p].device # d /\ op[p].id # id
  BY <1>1, <1>2, <1>3 DEF DSInv, ConnectsAreNew, IsNew
<1>12. DSType'
  BY <1>5, <1>7, <1>8, <1>9 DEF DSInv, DSType
<1>13. ConnectsAreNew'
  <2>1. ASSUME NEW p \in Ops, op'[p] # NULL, op'[p].kind = "connect"
        PROVE  /\ owner'[op'[p].id] = op'[p].client /\ op'[p].id < nextConnId'
               /\ \A c2 \in Clients, d2 \in Devices : conns'[c2][d2] # op'[p].id
               /\ \A i \in ConnIds : connections'[i] # op'[p].device
               /\ \A q \in Ops \ {p} : op'[q] # NULL /\ op'[q].kind = "connect" =>
                     op'[q].device # op'[p].device /\ op'[q].id # op'[p].id
    <3>1. PICK y : y = op[p]
      OBVIOUS
    <3>2. op'[p] = y /\ y # NULL /\ y.kind = "connect" /\ p # o
      BY <1>9, <2>1, <3>1
    <3>3. /\ owner[y.id] = y.client /\ y.id < nextConnId
          /\ \A c2 \in Clients, d2 \in Devices : conns[c2][d2] # y.id
          /\ \A i \in ConnIds : connections[i] # y.device
          /\ \A q \in Ops \ {p} : op[q] # NULL /\ op[q].kind = "connect" =>
                op[q].device # y.device /\ op[q].id # y.id
      BY <3>1, <3>2 DEF DSInv, ConnectsAreNew, IsNew
    <3>4. y.device # d /\ y.id # id
      BY <1>11, <3>1, <3>2
    <3>5. \A q \in Ops \ {p} : op'[q] # NULL /\ op'[q].kind = "connect" =>
             op'[q].device # y.device /\ op'[q].id # y.id
      BY <1>9, <3>3
    <3>6. \A c2 \in Clients, d2 \in Devices : conns'[c2][d2] # y.id
      BY <1>8, <3>3, <3>4
    <3>7. \A i \in ConnIds : connections'[i] # y.device
      BY <1>7, <3>3, <3>4
    <3> QED
      BY <1>5, <3>2, <3>3, <3>5, <3>6, <3>7
  <2> QED
    BY <2>1 DEF ConnectsAreNew, IsNew
<1>14. EntriesAreOld'
  <2>1. ASSUME NEW c2 \in Clients, NEW d2 \in Devices
        PROVE  conns'[c2][d2] < nextConnId' /\ (clients'[c2] = "none" => conns'[c2][d2] = NoConn)
    BY <1>4, <1>5, <1>8, <1>11 DEF DSInv, EntriesAreOld
  <2> QED
    BY <2>1 DEF EntriesAreOld
<1>15. LinksAreOwned'
  <2>1. ASSUME NEW i \in ConnIds, connections'[i] # NULL
        PROVE  owner'[i] \in Clients /\ clients'[owner'[i]] # "none" /\ i < nextConnId'
    BY <1>4, <1>5, <1>7, <1>11, <2>1 DEF DSInv, LinksAreOwned
  <2> QED
    BY <2>1 DEF LinksAreOwned
<1>16. TeardownsCover'
  <2>1. ASSUME NEW c2 \in Clients, NEW d2 \in Devices, conns[c2][d2] # NoConn
        PROVE  connections'[conns[c2][d2]] \in {connections[conns[c2][d2]], NULL}
    <3>1. conns[c2][d2] \in ConnIds /\ conns[c2][d2] # id
      BY <1>6, <1>11, <2>1
    <3> QED
      BY <1>7, <3>1
  <2>2. \A c2 \in Clients : Leaving(c2) => conns'[c2] = conns[c2]
    BY <1>4, <1>8
  <2>3. \A p \in Ops : op'[p] # NULL /\ op'[p].kind = "teardown" => op'[p] = op[p]
    BY <1>9
  <2> QED
    BY <1>5, <2>1, <2>2, <2>3, TeardownsStay
<1>17. ConnectionsArePrivate'
  <2>1. ASSUME NEW c2 \in Clients, NEW d2 \in Devices, conns'[c2][d2] # NoConn
        PROVE  owner'[conns'[c2][d2]] = c2 /\ connections'[conns'[c2][d2]] \in {d2, NULL}
    <3>1. CASE c2 = c /\ d2 = d
      BY <1>5, <1>7, <1>8, <1>11, <3>1
    <3>2. CASE ~(c2 = c /\ d2 = d)
      <4>1. conns'[c2][d2] = conns[c2][d2] /\ conns[c2][d2] \in ConnIds /\ conns[c2][d2] # id
        BY <1>6, <1>8, <1>11, <2>1, <3>2
      <4>2. owner[conns[c2][d2]] = c2 /\ connections[conns[c2][d2]] \in {d2, NULL}
        BY <2>1, <4>1 DEF DSInv, ConnectionsArePrivate
      <4> QED
        BY <1>5, <1>7, <4>1, <4>2
    <3> QED
      BY <3>1, <3>2
  <2> QED
    BY <2>1 DEF ConnectionsArePrivate
<1>18. ConnectionsAreKnown'
  <2>1. ASSUME NEW i \in ConnIds, connections'[i] # NULL, i \notin unclosed'
        PROVE  /\ clients'[owner'[i]] # "gone"
               /\ clients'[owner'[i]] = "open" => conns'[owner'[i]][connections'[i]] = i
    <3>1. CASE i = id
      BY <1>4, <1>5, <1>7, <1>8, <1>11, <3>1
    <3>2. CASE i # id
      <4>1. connections'[i] = connections[i] /\ connections[i] # NULL /\ i \notin unclosed
        BY <1>5, <1>7, <2>1, <3>2
      <4>2. PICK c2 \in Clients, d2 \in Devices : c2 = owner[i] /\ d2 = connections[i]
        BY <1>6, <4>1 DEF DSInv, LinksAreOwned
      <4>3. clients[c2] # "gone" /\ (clients[c2] = "open" => conns[c2][d2] = i)
        BY <4>1, <4>2 DEF DSInv, ConnectionsAreKnown
      <4>4. d2 # d
        BY <1>11, <4>2
      <4> QED
        BY <1>5, <1>8, <4>1, <4>2, <4>3, <4>4
    <3> QED
      BY <3>1, <3>2
  <2> QED
    BY <2>1 DEF ConnectionsAreKnown
<1> QED
  BY <1>9, <1>10, <1>12, <1>13, <1>14, <1>15, <1>16, <1>17, <1>18 DEF DSInv

\* What happens to the coroutines when client c goes away.
LEMMA LeaveOps ==
  ASSUME DSInv, NEW o \in Ops, NEW c \in Clients, ClientLeaves(o, c)
  PROVE  /\ op' \in [Ops -> Coroutines \cup {NULL}]
         /\ \A p \in Ops : op'[p] # NULL =>
               \/ op'[p] = op[p] /\ op[p].client # c
               \/ /\ op'[p].kind = "teardown" /\ op'[p].client = c
                  /\ op'[p].done = {op'[p].device} /\ op'[p].id = conns'[c][op'[p].device]
         /\ \A p \in Ops : op[p] # NULL /\ op[p].client # c => op'[p] = op[p]
         /\ clients' \in [Clients -> {"none", "open", "gone"}]
         /\ \A c2 \in Clients : c2 # c => clients'[c2] = clients[c2]
         /\ \/ clients'[c] = "open" /\ Leaving(c)'
            \/ clients'[c] = "gone" /\ \A d \in Devices : conns'[c][d] = NoConn
<1> DEFINE linked == {d \in Devices : conns'[c][d] # NoConn}
           others == [p \in Ops |-> IF p \in Commands(c) THEN NULL ELSE op[p]]
<1>1. /\ op \in [Ops -> Coroutines \cup {NULL}]
      /\ clients \in [Clients -> {"none", "open", "gone"}]
      /\ conns \in [Clients -> [Devices -> ConnIds \cup {NoConn}]]
  BY DEF DSInv, DSType
<1>2. clients[c] = "open" /\ ~Leaving(c) /\ (op[o] = NULL \/ o \in Commands(c)) /\ WalkConnections(o, c, Commands(c))
  BY DEF ClientLeaves
<1>3. /\ others \in [Ops -> Coroutines \cup {NULL}]
      /\ \A p \in Ops : others[p] = IF p \in Commands(c) THEN NULL ELSE op[p]
  BY <1>1
<1>4. \A p \in Ops : op[p] # NULL /\ p \notin Commands(c) => op[p].client # c
  BY <1>2 DEF Commands, Leaving
<1>5. \A p \in Ops : p \in Commands(c) => op[p].client = c
  BY DEF Commands
<1>6. CASE linked = {}
  <2>1. op' = others /\ clients' = [clients EXCEPT ![c] = "gone"]
    BY <1>2, <1>6 DEF WalkConnections
  <2>2. /\ clients' \in [Clients -> {"none", "open", "gone"}]
        /\ \A c2 \in Clients : clients'[c2] = IF c2 = c THEN "gone" ELSE clients[c2]
    BY <1>1, <2>1
  <2>3. \A d \in Devices : conns'[c][d] = NoConn
    BY <1>6
  <2> HIDE DEF others, linked
  <2> QED
    BY <1>3, <1>4, <1>5, <2>1, <2>2, <2>3
<1>7. CASE linked # {}
  <2>1. PICK d \in linked : op' = [others EXCEPT ![o] = Coroutine(c, "teardown", d, conns'[c][d], NULL, {d})]
    BY <1>2, <1>7 DEF WalkConnections
  <2>2. clients' = clients
    BY <1>2, <1>7 DEF WalkConnections
  <2>3. conns'[c][d] \in ConnIds /\ d \in Devices
    BY <1>1, <2>1 DEF ClientLeaves
  <2>4. PICK id \in ConnIds : id = conns'[c][d]
    BY <2>3
  <2> DEFINE t == Coroutine(c, "teardown", d, id, NULL, {d})
  <2>5. /\ t \in Coroutines /\ t # NULL /\ t.client = c /\ t.kind = "teardown" /\ t.device = d
        /\ t.id = id /\ t.done = {d}
    BY <2>3, CoroutineIs
  <2>6. op' = [others EXCEPT ![o] = t]
    BY <2>1, <2>4
  <2> HIDE DEF t, others, linked
  <2>7. op' \in [Ops -> Coroutines \cup {NULL}] /\ \A p \in Ops : op'[p] = IF p = o THEN t ELSE others[p]
    BY <1>3, <2>5, <2>6
  <2>8. Leaving(c)'
    BY <2>5, <2>7 DEF Leaving
  <2>9. \A p \in Ops : op'[p] # NULL =>
               \/ op'[p] = op[p] /\ op[p].client # c
               \/ /\ op'[p].kind = "teardown" /\ op'[p].client = c
                  /\ op'[p].done = {op'[p].device} /\ op'[p].id = conns'[c][op'[p].device]
    <3>1. ASSUME NEW p \in Ops, op'[p] # NULL, p # o PROVE op'[p] = op[p] /\ op[p].client # c
      BY <1>3, <1>4, <2>7, <3>1
    <3>2. op'[o] = t
      BY <2>7
    <3> QED
      BY <2>4, <2>5, <3>1, <3>2
  <2>10. ASSUME NEW p \in Ops, op[p] # NULL, op[p].client # c PROVE op'[p] = op[p]
    BY <1>2, <1>3, <1>5, <2>7, <2>10
  <2>11. clients' \in [Clients -> {"none", "open", "gone"}] /\ \A c2 \in Clients : c2 # c => clients'[c2] = clients[c2]
    BY <1>1, <2>2
  <2>12. clients'[c] = "open"
    BY <1>2, <2>2
  <2>13. op' \in [Ops -> Coroutines \cup {NULL}]
    BY <2>7
  <2> QED
    BY <2>8, <2>9, <2>10, <2>11, <2>12, <2>13, Zenon
<1> QED
  BY <1>6, <1>7

LEMMA DSLeaves ==
  ASSUME DSInv, NEW o \in Ops, NEW c \in Clients, ClientLeaves(o, c)
  PROVE  DSInv'
<1> DEFINE forget == [d \in Devices |-> IF d \in CutShort(c) THEN NoConn ELSE conns[c][d]]
<1>1. /\ clients[c] = "open" /\ ~Leaving(c)
      /\ conns' = [conns EXCEPT ![c] = forget]
      /\ unclosed' = unclosed \cup ({conns[c][d] : d \in CutShort(c)} \ {NoConn})
      /\ AdjustServer(<<Adjustment(c, "delete", {}, {})>>)
      /\ UNCHANGED <<connections, nextConnId, owner>>
  BY DEF ClientLeaves
<1>2. /\ conns \in [Clients -> [Devices -> ConnIds \cup {NoConn}]]
      /\ unclosed \in SUBSET ConnIds
  BY DEF DSInv, DSType
<1>3. CutShort(c) \subseteq Devices
  <2>1. \A p \in Ops : op[p] # NULL => op[p].device \in Devices
    BY OpIs, CoroutineFields
  <2> QED
    BY <2>1 DEF CutShort, Commands
<1>4. /\ forget \in [Devices -> ConnIds \cup {NoConn}]
      /\ \A d \in Devices : forget[d] = IF d \in CutShort(c) THEN NoConn ELSE conns[c][d]
  BY <1>2
<1> HIDE DEF forget
<1>5. /\ conns' \in [Clients -> [Devices -> ConnIds \cup {NoConn}]]
      /\ \A c2 \in Clients : c2 # c => conns'[c2] = conns[c2]
      /\ \A d \in Devices : conns'[c][d] = IF d \in CutShort(c) THEN NoConn ELSE conns[c][d]
  BY <1>1, <1>2, <1>4
<1>6. /\ unclosed' \in SUBSET ConnIds /\ unclosed \subseteq unclosed'
      /\ \A d \in CutShort(c) : conns[c][d] # NoConn => conns[c][d] \in unclosed'
  <2>1. \A d \in CutShort(c) : conns[c][d] \in ConnIds \cup {NoConn}
    BY <1>2, <1>3
  <2>2. {conns[c][d] : d \in CutShort(c)} \ {NoConn} \in SUBSET ConnIds
    BY <2>1
  <2> QED
    BY <1>1, <1>2, <2>2
<1>7. /\ op' \in [Ops -> Coroutines \cup {NULL}]
      /\ \A p \in Ops : op'[p] # NULL =>
            \/ op'[p] = op[p] /\ op[p].client # c
            \/ /\ op'[p].kind = "teardown" /\ op'[p].client = c
               /\ op'[p].done = {op'[p].device} /\ op'[p].id = conns'[c][op'[p].device]
      /\ \A p \in Ops : op[p] # NULL /\ op[p].client # c => op'[p] = op[p]
      /\ clients' \in [Clients -> {"none", "open", "gone"}]
      /\ \A c2 \in Clients : c2 # c => clients'[c2] = clients[c2]
      /\ \/ clients'[c] = "open" /\ Leaving(c)'
         \/ clients'[c] = "gone" /\ \A d \in Devices : conns'[c][d] = NoConn
  BY LeaveOps
<1>8. /\ NInv' /\ NType'
      /\ \A c2 \in Clients, s \in Slots : c2 \in Listed'[s] <=> c2 # c /\ c2 \in Listed[s]
  BY <1>1, AdjustDelete DEF DSInv
<1>9. \A c2 \in Clients : c2 # c => (Leaving(c2)' <=> Leaving(c2))
  BY <1>7 DEF Leaving
<1>10. DSType'
  BY <1>1, <1>5, <1>6, <1>7 DEF DSInv, DSType
<1>11. CommandsAreCurrent'
  <2>1. ASSUME NEW p \in Ops, op'[p] # NULL
        PROVE  IF op'[p].kind = "teardown" THEN clients'[op'[p].client] # "none"
               ELSE /\ clients'[op'[p].client] = "open"
                    /\ ~ \E q \in Ops : /\ op'[q] # NULL /\ op'[q].kind = "teardown"
                                        /\ op'[q].client = op'[p].client
    <3>1. CASE op'[p] = op[p] /\ op[p].client # c
      <4>1. op[p].client \in Clients
        BY <2>1, <3>1, OpIs, CoroutineFields
      <4>2. IF op[p].kind = "teardown" THEN clients[op[p].client] # "none"
            ELSE clients[op[p].client] = "open" /\ ~Leaving(op[p].client)
        BY <2>1, <3>1 DEF DSInv, CommandsAreCurrent
      <4>3. PICK c2 \in Clients : c2 = op[p].client
        BY <4>1
      <4>4. op'[p].client = c2 /\ c2 # c
        BY <3>1, <4>3
      <4>5. clients'[c2] = clients[c2] /\ (Leaving(c2)' <=> Leaving(c2))
        BY <1>7, <1>9, <4>4
      <4>6. Leaving(c2)' <=> \E q \in Ops : op'[q] # NULL /\ op'[q].kind = "teardown" /\ op'[q].client = c2
        BY DEF Leaving
      <4>7. CASE op[p].kind = "teardown"
        BY <3>1, <4>2, <4>3, <4>4, <4>5, <4>7
      <4>8. CASE op[p].kind # "teardown"
        BY <3>1, <4>2, <4>3, <4>4, <4>5, <4>6, <4>8
      <4> QED
        BY <4>7, <4>8
    <3>2. CASE op'[p].kind = "teardown" /\ op'[p].client = c
      BY <1>7, <3>2
    <3> QED
      BY <1>7, <2>1, <3>1, <3>2
  <2> QED
    BY <2>1 DEF CommandsAreCurrent, Leaving
<1>12. ConnectsAreNew' /\ EntriesAreOld' /\ LinksAreOwned' /\ ConnectionsArePrivate'
  <2>1. \A p \in Ops : op'[p] # NULL /\ op'[p].kind = "connect" => op'[p] = op[p]
    BY <1>7
  <2>2. \A c2 \in Clients, d2 \in Devices : conns'[c2][d2] \in {conns[c2][d2], NoConn}
    BY <1>5
  <2>3. \A c2 \in Clients : clients'[c2] = "none" => clients[c2] = "none"
    BY <1>7
  <2> QED
    BY <1>1, <2>1, <2>2, <2>3, LessKeeps
<1>13. TeardownsCover'
  <2>1. \A p \in Ops : op'[p] # NULL /\ op'[p].kind = "teardown" => op'[p] = op[p] \/ Covers(op[p])'
    BY <1>7 DEF Covers
  <2>2. \A c2 \in Clients : Leaving(c2) => conns'[c2] = conns[c2]
    BY <1>1, <1>5
  <2> QED
    BY <1>1, <1>6, <2>1, <2>2, TeardownsStay
<1>14. ConnectionsAreKnown'
  <2>1. ASSUME NEW i \in ConnIds, connections'[i] # NULL, i \notin unclosed'
        PROVE  /\ clients'[owner'[i]] # "gone"
               /\ clients'[owner'[i]] = "open" => conns'[owner'[i]][connections'[i]] = i
    <3>1. connections'[i] = connections[i] /\ connections[i] # NULL /\ i \notin unclosed /\ i # NoConn
      BY <1>1, <1>6, <2>1 DEF ConnIds, NoConn
    <3>2. PICK c2 \in Clients, d2 \in Devices : c2 = owner[i] /\ d2 = connections[i]
      BY <3>1 DEF DSInv, DSType, LinksAreOwned
    <3>3. clients[c2] # "gone" /\ (clients[c2] = "open" => conns[c2][d2] = i)
      BY <3>1, <3>2 DEF DSInv, ConnectionsAreKnown
    <3>4. CASE c2 = c
      <4>1. conns[c][d2] = i
        BY <1>1, <3>3, <3>4
      <4>2. d2 \notin CutShort(c)
        BY <1>6, <2>1, <3>1, <4>1
      <4>3. conns'[c][d2] = i
        BY <1>5, <4>1, <4>2
      <4> QED
        BY <1>1, <1>7, <3>1, <3>2, <3>4, <4>3
    <3>5. CASE c2 # c
      BY <1>1, <1>5, <1>7, <3>1, <3>2, <3>3, <3>5
    <3> QED
      BY <3>4, <3>5
  <2> QED
    BY <2>1 DEF ConnectionsAreKnown
<1>15. EventsFollowConnections'
  <2>0. \A d \in Devices, e \in Events : <<d, e>> \in Slots
    BY DEF Slots
  <2>1. ASSUME NEW c2 \in Clients, NEW d \in Devices, clients'[c2] = "open" /\ ~Leaving(c2)'
        PROVE  /\ \A e \in HookEvents \cap Events : c2 \in Listed'[<<d, e>>] <=> conns'[c2][d] # NoConn
               /\ \A e \in Interfaces : c2 \in Listed'[<<d, e>>] => conns'[c2][d] # NoConn
    <3>1. c2 # c
      BY <1>7, <2>1
    <3>2. clients[c2] = "open" /\ ~Leaving(c2) /\ conns'[c2] = conns[c2]
      BY <1>5, <1>7, <1>9, <2>1, <3>1
    <3>3. \A e \in Events : c2 \in Listed'[<<d, e>>] <=> c2 \in Listed[<<d, e>>]
      BY <1>8, <2>0, <3>1
    <3>4. /\ \A e \in HookEvents \cap Events : c2 \in Listed[<<d, e>>] <=> conns[c2][d] # NoConn
          /\ \A e \in Interfaces : c2 \in Listed[<<d, e>>] => conns[c2][d] # NoConn
      BY <3>2 DEF DSInv, EventsFollowConnections
    <3> QED
      BY <3>2, <3>3, <3>4, ServerAssumption
  <2> QED
    BY <2>1 DEF EventsFollowConnections
<1>16. Unlisted'
  <2>1. ASSUME NEW c2 \in Clients, clients'[c2] # "open" \/ Leaving(c2)', NEW s \in Slots
        PROVE  c2 \notin Listed'[s]
    <3>1. CASE c2 = c
      BY <1>8, <3>1
    <3>2. CASE c2 # c
      <4>1. clients[c2] # "open" \/ Leaving(c2)
        BY <1>7, <1>9, <2>1, <3>2
      <4>2. c2 \notin Listed[s]
        BY <4>1 DEF DSInv, Unlisted
      <4> QED
        BY <1>8, <4>2
    <3> QED
      BY <3>1, <3>2
  <2> QED
    BY <2>1 DEF Unlisted
<1> QED
  BY <1>8, <1>10, <1>11, <1>12, <1>13, <1>14, <1>15, <1>16 DEF DSInv

LEMMA DSTeardown ==
  ASSUME DSInv, NEW o \in Ops, NEW failed \in BOOLEAN, TeardownStep(o, failed)
  PROVE  DSInv'
<1>1. PICK x : x = op[o]
  OBVIOUS
<1>2. x # NULL /\ x.kind = "teardown" /\ x \in Coroutines
  BY <1>1, OpIs DEF TeardownStep
<1>3. PICK c \in Clients, id \in ConnIds : c = x.client /\ id = x.id
  BY <1>2, CoroutineFields
<1>4. x.device \in Devices /\ x.done \in SUBSET Devices
  BY <1>2, CoroutineFields
<1> DEFINE left == Connected(c) \ x.done
<1>5. /\ AdapterDisconnects(id, failed)
      /\ unclosed' = IF failed THEN unclosed \cup {id} ELSE unclosed
      /\ UNCHANGED <<conns, nextConnId, owner>>
      /\ left = {} => EndOp(o) /\ clients' = [clients EXCEPT ![c] = "gone"]
      /\ left # {} => /\ clients' = clients
                      /\ \E d \in left : op' = [op EXCEPT ![o] =
                            Coroutine(c, "teardown", d, conns[c][d], NULL, x.done \cup {d})]
  BY <1>1, <1>3 DEF TeardownStep
<1>6. NInv' /\ NType' /\ Listed' = Listed
  BY LeaveTypes DEF TeardownStep
<1>7. /\ op \in [Ops -> Coroutines \cup {NULL}]
      /\ clients \in [Clients -> {"none", "open", "gone"}]
      /\ conns \in [Clients -> [Devices -> ConnIds \cup {NoConn}]]
      /\ unclosed \in SUBSET ConnIds
  BY DEF DSInv, DSType
<1>8. /\ connections' \in [ConnIds -> Devices \cup {NULL}]
      /\ \A i \in ConnIds : connections'[i] \in {connections[i], NULL}
      /\ ~failed => connections'[id] = NULL
  BY <1>5, LinkIs
<1>9. unclosed' \in SUBSET ConnIds /\ unclosed \subseteq unclosed' /\ (connections'[id] = NULL \/ id \in unclosed')
  <2>1. CASE failed
    BY <1>5, <1>7, <2>1
  <2>2. CASE ~failed
    BY <1>5, <1>7, <1>8, <2>2
  <2> QED
    BY <2>1, <2>2
<1>10. Leaving(c) /\ clients[c] # "none"
  BY <1>1, <1>2, <1>3 DEF Leaving, DSInv, CommandsAreCurrent
<1>11. \A d \in x.done : conns[c][d] # NoConn => connections'[conns[c][d]] = NULL \/ conns[c][d] \in unclosed'
  <2>1. Covers(x)
    BY <1>1, <1>2 DEF DSInv, TeardownsCover
  <2>2. ASSUME NEW d \in x.done, conns[c][d] # NoConn
        PROVE  connections'[conns[c][d]] = NULL \/ conns[c][d] \in unclosed'
    <3>1. conns[c][d] \in ConnIds
      BY <1>4, <1>7, <2>2
    <3>2. CASE d = x.device
      BY <1>3, <1>9, <2>1, <3>2 DEF Covers
    <3>3. CASE d # x.device
      <4>1. connections[conns[c][d]] = NULL \/ conns[c][d] \in unclosed
        BY <1>3, <2>1, <2>2, <3>3 DEF Covers
      <4> QED
        BY <1>8, <1>9, <3>1, <4>1
    <3> QED
      BY <3>2, <3>3
  <2> QED
    BY <2>2
<1>12. \A c2 \in Clients, d2 \in Devices : conns[c2][d2] # NoConn =>
          connections'[conns[c2][d2]] \in {connections[conns[c2][d2]], NULL}
  BY <1>7, <1>8
<1> HIDE DEF left
<1>13. CASE left = {}
  <2>1. EndOp(o) /\ clients' = [clients EXCEPT ![c] = "gone"]
    BY <1>5, <1>13
  <2>2. /\ op' \in [Ops -> Coroutines \cup {NULL}]
        /\ \A p \in Ops : op'[p] = IF p = o THEN NULL ELSE op[p]
    BY <1>7, <2>1 DEF EndOp
  <2>3. /\ clients' \in [Clients -> {"none", "open", "gone"}]
        /\ \A c2 \in Clients : clients'[c2] = IF c2 = c THEN "gone" ELSE clients[c2]
    BY <1>7, <2>1
  <2>4. \A c2 \in Clients : c2 # c => (Leaving(c2)' <=> Leaving(c2))
    BY <1>1, <1>3, <2>2 DEF Leaving
  <2>5. DSType'
    BY <1>5, <1>8, <1>9, <2>2, <2>3 DEF DSInv, DSType
  <2>6. CommandsAreCurrent'
    <3>1. ASSUME NEW p \in Ops, op'[p] # NULL
          PROVE  IF op'[p].kind = "teardown" THEN clients'[op'[p].client] # "none"
                 ELSE /\ clients'[op'[p].client] = "open"
                      /\ ~ \E q \in Ops : /\ op'[q] # NULL /\ op'[q].kind = "teardown"
                                          /\ op'[q].client = op'[p].client
      <4>1. op'[p] = op[p]
        BY <2>2, <3>1
      <4>2. PICK c2 \in Clients : c2 = op[p].client
        BY <3>1, <4>1, OpIs, CoroutineFields
      <4>3. IF op[p].kind = "teardown" THEN clients[c2] # "none"
            ELSE clients[c2] = "open" /\ ~Leaving(c2)
        BY <3>1, <4>1, <4>2 DEF DSInv, CommandsAreCurrent
      <4>4. CASE op[p].kind = "teardown"
        BY <2>3, <4>1, <4>2, <4>3, <4>4
      <4>5. CASE op[p].kind # "teardown"
        <5>1. c2 # c
          BY <1>10, <4>3, <4>5
        <5>2. ~Leaving(c2)'
          BY <2>4, <4>3, <4>5, <5>1
        <5>3. ~ \E q \in Ops : op'[q] # NULL /\ op'[q].kind = "teardown" /\ op'[q].client = c2
          BY <5>2 DEF Leaving
        <5> QED
          BY <2>3, <4>1, <4>2, <4>3, <4>5, <5>1, <5>3
      <4> QED
        BY <4>4, <4>5
    <3> QED
      BY <3>1 DEF CommandsAreCurrent, Leaving
  <2>7. ConnectsAreNew' /\ EntriesAreOld' /\ LinksAreOwned' /\ ConnectionsArePrivate'
    <3>1. \A c2 \in Clients : clients'[c2] = "none" => clients[c2] = "none"
      BY <2>3
    <3>2. \A p \in Ops : op'[p] # NULL /\ op'[p].kind = "connect" => op'[p] = op[p]
      BY <2>2
    <3> QED
      BY <1>5, <1>8, <3>1, <3>2, LessKeeps
  <2>8. TeardownsCover'
    BY <1>5, <1>9, <1>12, <2>2, TeardownsStay
  <2>9. ConnectionsAreKnown'
    <3>1. ASSUME NEW i \in ConnIds, connections'[i] # NULL, i \notin unclosed'
          PROVE  /\ clients'[owner'[i]] # "gone"
                 /\ clients'[owner'[i]] = "open" => conns'[owner'[i]][connections'[i]] = i
      <4>1. connections'[i] = connections[i] /\ connections[i] # NULL /\ i \notin unclosed /\ i # NoConn
        BY <1>8, <1>9, <3>1 DEF ConnIds, NoConn
      <4>2. PICK c2 \in Clients, d2 \in Devices : c2 = owner[i] /\ d2 = connections[i]
        BY <4>1 DEF DSInv, DSType, LinksAreOwned
      <4>3. clients[c2] # "gone" /\ (clients[c2] = "open" => conns[c2][d2] = i)
        BY <4>1, <4>2 DEF DSInv, ConnectionsAreKnown
      <4>4. ASSUME c2 = c PROVE FALSE
        <5>1. conns[c][d2] = i
          BY <1>7, <1>10, <4>3, <4>4
        <5>2. d2 \in x.done
          BY <1>13, <4>1, <5>1 DEF left, Connected
        <5> QED
          BY <1>11, <3>1, <4>1, <5>1, <5>2
      <4> QED
        BY <1>5, <2>3, <4>1, <4>2, <4>3, <4>4
    <3> QED
      BY <3>1 DEF ConnectionsAreKnown
  <2>10. EventsFollowConnections' /\ Unlisted'
    <3>1. \A c2 \in Clients : clients'[c2] = "open" /\ ~Leaving(c2)' =>
             /\ clients[c2] = "open" /\ ~Leaving(c2)
             /\ \A d \in Devices : conns'[c2][d] # NoConn <=> conns[c2][d] # NoConn
      BY <1>5, <2>3, <2>4
    <3>2. \A c2 \in Clients : clients'[c2] # "open" \/ Leaving(c2)' => clients[c2] # "open" \/ Leaving(c2)
      BY <1>10, <2>3, <2>4
    <3> QED
      BY <1>6, <3>1, <3>2, ListingStays
  <2> QED
    BY <1>6, <2>5, <2>6, <2>7, <2>8, <2>9, <2>10 DEF DSInv
<1>14. CASE left # {}
  <2>1. PICK d \in left : op' = [op EXCEPT ![o] =
                            Coroutine(c, "teardown", d, conns[c][d], NULL, x.done \cup {d})]
    BY <1>5, <1>14
  <2>2. clients' = clients
    BY <1>5, <1>14
  <2>3. d \in Devices /\ conns[c][d] \in ConnIds
    BY <1>7, <2>1 DEF left, Connected
  <2> DEFINE t == Coroutine(c, "teardown", d, conns[c][d], NULL, x.done \cup {d})
  <2>4. /\ t \in Coroutines /\ t # NULL /\ t.client = c /\ t.kind = "teardown" /\ t.device = d
        /\ t.id = conns[c][d] /\ t.done = x.done \cup {d}
    <3>1. x.done \cup {d} \in SUBSET Devices
      BY <1>4, <2>3
    <3> QED
      BY <2>3, <3>1, CoroutineIs
  <2> HIDE DEF t
  <2>5. /\ op' \in [Ops -> Coroutines \cup {NULL}]
        /\ \A p \in Ops : op'[p] = IF p = o THEN t ELSE op[p]
    BY <1>7, <2>1, <2>4 DEF t
  <2>6. \A c2 \in Clients : Leaving(c2)' <=> Leaving(c2)
    BY <1>1, <1>2, <1>3, <2>4, <2>5 DEF Leaving
  <2>7. DSType'
    BY <1>5, <1>8, <1>9, <2>2, <2>5 DEF DSInv, DSType
  <2>8. CommandsAreCurrent'
    <3>1. ASSUME NEW p \in Ops, op'[p] # NULL
          PROVE  IF op'[p].kind = "teardown" THEN clients[op'[p].client] # "none"
                 ELSE clients[op'[p].client] = "open" /\ ~Leaving(op'[p].client)
      <4>1. CASE p = o
        BY <1>10, <2>4, <2>5, <4>1
      <4>2. CASE p # o
        <5>1. op'[p] = op[p]
          BY <2>5, <4>2
        <5> QED
          BY <3>1, <5>1 DEF DSInv, CommandsAreCurrent
      <4> QED
        BY <4>1, <4>2
    <3>2. \A p \in Ops : op'[p] # NULL => op'[p].client \in Clients
      BY <2>5, CoroutineFields
    <3> QED
      BY <2>2, <2>6, <3>1, <3>2 DEF CommandsAreCurrent
  <2>9. ConnectsAreNew' /\ EntriesAreOld' /\ LinksAreOwned' /\ ConnectionsArePrivate'
    <3>1. \A p \in Ops : op'[p] # NULL /\ op'[p].kind = "connect" => op'[p] = op[p]
      BY <2>4, <2>5
    <3> QED
      BY <1>5, <1>8, <2>2, <3>1, LessKeeps
  <2>10. TeardownsCover'
    <3>1. ASSUME NEW d2 \in t.done \ {t.device}, conns[t.client][d2] # NoConn
          PROVE  connections'[conns[t.client][d2]] = NULL \/ conns[t.client][d2] \in unclosed'
      BY <1>11, <2>4, <3>1
    <3>2. t.device \in t.done /\ t.id = conns[t.client][t.device]
      BY <2>4
    <3>3. op'[o] = t /\ \A p \in Ops : p # o => op'[p] = op[p]
      BY <2>5
    <3>4. Covers(op[o])'
      BY <1>5, <3>1, <3>2, <3>3 DEF Covers
    <3>5. \A p \in Ops : op'[p] # NULL /\ op'[p].kind = "teardown" => op'[p] = op[p] \/ Covers(op[p])'
      BY <3>3, <3>4
    <3> QED
      BY <1>5, <1>9, <1>12, <3>5, TeardownsStay
  <2>11. ConnectionsAreKnown'
    BY <1>5, <1>8, <1>9, <2>2, KnownStays
  <2>12. EventsFollowConnections' /\ Unlisted'
    BY <1>5, <1>6, <2>2, <2>6, ListingStays
  <2> QED
    BY <1>6, <2>7, <2>8, <2>9, <2>10, <2>11, <2>12 DEF DSInv
<1> QED
  BY <1>13, <1>14

LEMMA DSInitInv == ServerInit => DSInv
<1> SUFFICES ASSUME ServerInit PROVE DSInv
  OBVIOUS
<1>0. MaxConnections \in Nat
  BY ServerAssumption
<1>1. NInv
  BY NInitInv DEF ServerInit
<1>2. monitors = [s \in Slots |-> {}] /\ callbacks = [h \in Handles |-> "none"] /\ deferred = <<>> /\ notifier = <<>>
  BY DEF ServerInit, Init
<1>3. NType
  BY NTypeInit DEF ServerInit
<1>4. Listed = monitors
  <2>1. Listed = AdjustedFrom(monitors, <<>>).monitors
    BY <1>2 DEF Listed, Adjusted
  <2> QED
    BY <2>1, AdjustedByNone
<1>5. /\ \A c \in Clients : clients[c] = "none" /\ ~Leaving(c)
      /\ \A c \in Clients, d \in Devices : conns[c][d] = NoConn
      /\ \A i \in ConnIds : connections[i] = NULL
      /\ \A o \in Ops : op[o] = NULL
      /\ nextConnId = 1
  BY DEF ServerInit, Leaving
<1>6. DSType
  <2>1. 1 \in 1 .. MaxConnections + 1
    BY <1>0
  <2> QED
    BY <2>1 DEF ServerInit, DSType
<1>7. CommandsAreCurrent /\ ConnectsAreNew /\ TeardownsCover
  BY <1>5 DEF CommandsAreCurrent, ConnectsAreNew, TeardownsCover
<1>8. EntriesAreOld /\ LinksAreOwned /\ ConnectionsArePrivate /\ ConnectionsAreKnown
  BY <1>5 DEF EntriesAreOld, LinksAreOwned, ConnectionsArePrivate, ConnectionsAreKnown, NoConn
<1>9. EventsFollowConnections
  BY <1>5 DEF EventsFollowConnections
<1>10. Unlisted
  BY <1>2, <1>4 DEF Unlisted
<1> QED
  BY <1>1, <1>3, <1>6, <1>7, <1>8, <1>9, <1>10 DEF DSInv

LEMMA DSNextInv ==
  ASSUME DSInv, [ServerNext]_vars
  PROVE  DSInv'
<1>1. ASSUME NEW c \in Clients, SetupClient(c) PROVE DSInv'
  BY <1>1, DSSetup
<1>2. ASSUME NEW o \in Ops, NEW c \in Clients, NEW d \in Devices, Connect(o, c, d) PROVE DSInv'
  BY <1>2, DSConnect
<1>3. ASSUME NEW o \in Ops, NEW c \in Clients, NEW d \in Devices, Disconnect(o, c, d) PROVE DSInv'
  BY <1>3, DSPlainCommand DEF Disconnect
<1>4. ASSUME NEW o \in Ops, NEW c \in Clients, NEW d \in Devices, NEW e \in Interfaces,
             OpenInterface(o, c, d, e)
      PROVE  DSInv'
  BY <1>4, DSOpen
<1>5. ASSUME NEW o \in Ops, NEW c \in Clients, NEW d \in Devices, NEW e \in Interfaces,
             CloseInterface(o, c, d, e)
      PROVE  DSInv'
  BY <1>5, DSPlainCommand DEF CloseInterface
<1>6. ASSUME NEW c \in Clients, NEW d \in Devices, DisconnectStale(c, d) PROVE DSInv'
  BY <1>6, DSStale
<1>7. ASSUME NEW o \in Ops, NEW c \in Clients, ClientLeaves(o, c) PROVE DSInv'
  BY <1>7, DSLeaves
<1>8. ASSUME NEW o \in Ops, AdapterAnswers(o) PROVE DSInv'
  <2>1. \/ ConnectReturns(o) \/ ReturnsUnhooked(o) \/ CloseReturns(o)
        \/ \E failed \in BOOLEAN : DisconnectReturns(o, failed) \/ TeardownStep(o, failed)
    BY <1>8 DEF AdapterAnswers
  <2> QED
    BY <2>1, DSConnected, DSUnhooked, DSClose, DSDisconnected, DSTeardown
<1>9. ASSUME NEW n \in Notifiers, NEW i \in ConnIds, DeviceDisconnects(n, i) PROVE DSInv'
  BY <1>9, DSDrop
<1>10. ASSUME NEW n \in Notifiers, NEW d \in Devices, NEW e \in Interfaces,
              Begin(n, d, e) /\ UNCHANGED serverVars
       PROVE  DSInv'
  <2>1. e \in Events
    BY ServerAssumption
  <2>2. NInv' /\ NType' /\ Listed' = Listed
    BY <1>10, <2>1, BeginTypes DEF DSInv
  <2> QED
    BY <1>10, <2>2, DSQuiet
<1>11. ASSUME NEW n \in Notifiers, Resume(n) /\ UNCHANGED serverVars PROVE DSInv'
  <2>1. NInv' /\ NType' /\ Listed' = Listed
    BY <1>11, ResumeTypes DEF DSInv
  <2> QED
    BY <1>11, <2>1, DSQuiet
<1>12. CASE UNCHANGED vars
  <2>1. LeaveMonitors /\ UNCHANGED serverVars
    BY <1>12 DEF vars, LeaveMonitors
  <2>2. NInv' /\ NType' /\ Listed' = Listed
    BY <2>1, LeaveTypes
  <2> QED
    BY <2>1, <2>2, DSQuiet
<1> QED
  BY <1>1, <1>2, <1>3, <1>4, <1>5, <1>6, <1>7, <1>8, <1>9, <1>10, <1>11, <1>12 DEF ServerNext

-----------------------------------------------------------------------------
(* Theorems about the device server. *)

LEMMA DSAlways == ServerSpec => []DSInv
<1>1. DSInv /\ [ServerNext]_vars => DSInv'
  BY DSNextInv
<1> QED
  BY DSInitInv, <1>1, PTL DEF ServerSpec

\* No client holds the connection of another, and each hears of the loss and the progress of
\* exactly the devices it is connected to (StandardDeviceServer.connect, disconnect,
\* open_interface and teardown_client).
THEOREM ClientsAreAlwaysSeparate == ServerSpec => []ClientsAreSeparate
<1>1. DSInv => ClientsAreSeparate
  <2> SUFFICES ASSUME DSInv PROVE ClientsAreSeparate
    OBVIOUS
  <2>1. \A o \in Ops : op[o] # NULL => op[o].client \in Clients /\ op[o].id \in ConnIds
    BY OpIs, CoroutineFields
  <2>2. \A i \in DOMAIN deferred : deferred[i].handle \in Handles
    <3>1. deferred \in Seq(Adjustments)
      BY DEF DSInv, NInv
    <3>2. \A i \in DOMAIN deferred : deferred[i] \in Adjustments
      BY <3>1
    <3> QED
      BY <3>2 DEF Adjustments
  <2>3. \A n \in DOMAIN notifier : Len(notifier[n].dicts) \in 1 .. 2
    BY DEF DSInv, NInv, Walks, IsWalk
  <2>4. TypeOK
    <3>1. Listed \in MonitorTypes
      BY ListedType DEF DSInv
    <3>2. {monitors, asked} \subseteq [Slots -> SUBSET Handles]
      BY <3>1 DEF DSInv, NType, MonitorTypes
    <3> QED
      BY <2>2, <2>3, <3>2 DEF TypeOK, DSInv, NInv, NType
  <2>5. ServerTypeOK
    BY <2>1, <2>4 DEF ServerTypeOK, DSInv, DSType
  <2> QED
    BY <2>5 DEF ClientsAreSeparate, DSInv
<1> QED
  BY DSAlways, <1>1, PTL

\* Nothing is forwarded for a client that is gone, and every link that the server has not let
\* go of is on record with a client that is not (StandardDeviceServer.teardown_client).
THEOREM NothingIsEverLeft == ServerSpec => []NothingIsLeft
<1>1. DSInv => NothingIsLeft
  BY DEF DSInv, NothingIsLeft, Unlisted, GoneClientsAreUnlisted
<1> QED
  BY DSAlways, <1>1, PTL
=============================================================================

---------------------------- MODULE Notifications ----------------------------
(***************************************************************************)
(* Event notification in a device adapter: BasicNotificationMixin of       *)
(* iotile/core/hw/transport/adapter/mixin_notifications.py.                *)
(*                                                                         *)
(* Monitors are callbacks listed per device (or for any device) and event. *)
(* _notify_event_internal is a coroutine that walks the two dictionaries   *)
(* of an event and awaits each callback; several of them may be in         *)
(* progress on the loop.  While _currently_notifying is set the monitors   *)
(* are not touched: adjustments are deferred and applied by the            *)
(* notification that ends first.                                           *)
(*                                                                         *)
(* A Python dictionary that changes its size under an iterator makes the   *)
(* iterator raise; one that is emptied is dropped from _monitors, so that  *)
(* a later registration goes into a new dictionary the iterator does not   *)
(* see.                                                                    *)
(***************************************************************************)
EXTENDS None, Integers, Sequences, FiniteSets, SequencesExt

CONSTANTS
    Devices,       \* connection strings
    Events,        \* SUPPORTED_EVENTS
    Handles,       \* monitor ids; a uuid is never used twice
    Notifiers,     \* notification coroutines that may be in progress at once
    AnyDevice,     \* the key None of _monitors: every device
    MaxDeferred    \* bound on _deferred_adjustments

ASSUME NotificationsAssumption ==
    /\ AnyDevice \notin Devices
    /\ MaxDeferred \in Nat

Slots == (Devices \cup {AnyDevice}) \X Events

VARIABLES
    monitors,      \* _monitors: the handles listed in each slot
    callbacks,     \* _callbacks: "none" before register_monitor, "deleted" after
    notifying,     \* _currently_notifying
    deferred,      \* _deferred_adjustments
    notifier,      \* the notifications in progress: a function on those notifiers
    asked          \* history: the monitors if nothing were ever held back

notificationVars == <<monitors, callbacks, notifying, deferred, notifier, asked>>

Gone == NULL       \* a dictionary that is no longer reachable from _monitors

Init ==
    /\ monitors = [s \in Slots |-> {}]
    /\ callbacks = [h \in Handles |-> "none"]
    /\ notifying = FALSE
    /\ deferred = <<>>
    /\ notifier = <<>>
    /\ asked = monitors

-----------------------------------------------------------------------------
(* Adjustments. *)

Adjustment(h, kind, devices, events) ==
    [handle |-> h, kind |-> kind, devices |-> devices, events |-> events]

\* _find_monitor: all devices and all events with the handle, as two sets.
FindMonitor(mons, h) ==
    LET found == {s \in Slots : h \in mons[s]}
    IN  [devices |-> {s[1] : s \in found}, events |-> {s[2] : s \in found}]

AddMonitor(mons, h, devices, events) ==
    [s \in Slots |-> IF s \in devices \X events THEN mons[s] \cup {h} ELSE mons[s]]

RemoveMonitor(mons, h, devices, events) ==
    [s \in Slots |-> IF s \in devices \X events THEN mons[s] \ {h} ELSE mons[s]]

\* _adjust_monitor_internal
AdjustMonitor(mons, a) ==
    CASE a.kind = "add" -> AddMonitor(mons, a.handle, a.devices, a.events)
      [] a.kind = "remove" -> RemoveMonitor(mons, a.handle, a.devices, a.events)
      [] a.kind = "delete" ->
            LET found == FindMonitor(mons, a.handle)
            IN  RemoveMonitor(mons, a.handle, found.devices, found.events)

\* The monitors after a sequence of adjustments, and the slots whose dictionary
\* was emptied, and so dropped, on the way.
AdjustedOnce(r, a) ==
    LET after == AdjustMonitor(r.monitors, a)
    IN  [monitors |-> after,
         dropped |-> r.dropped \cup {s \in Slots : r.monitors[s] # {} /\ after[s] = {}}]

AdjustedFrom(mons, actions) ==
    LET upTo[k \in 0 .. Len(actions)] ==
            IF k = 0 THEN [monitors |-> mons, dropped |-> {}]
            ELSE AdjustedOnce(upTo[k - 1], actions[k])
    IN  upTo[Len(actions)]

Adjusted(actions) == AdjustedFrom(monitors, actions)

Deletes(actions) == {a.handle : a \in {x \in ToSet(actions) : x.kind = "delete"}}

\* The notifications in progress hold on to dictionaries that were dropped.
Orphaned(notifiers, dropped) ==
    [n \in DOMAIN notifiers |->
        [notifiers[n] EXCEPT !.dicts =
            [i \in DOMAIN @ |-> IF @[i] \in dropped THEN Gone ELSE @[i]]]]

\* Every adjustment counts as asked for when it is called, in the order of the calls.
Ask(actions) == asked' = AdjustedFrom(asked, actions).monitors

\* Applies adjustments now; registered holds the callbacks added before.
ApplyTo(actions, registered, notifiers) ==
    LET r == Adjusted(actions) IN
    /\ monitors' = r.monitors
    /\ callbacks' = [h \in Handles |-> IF h \in Deletes(actions) THEN "deleted" ELSE registered[h]]
    /\ notifier' = Orphaned(notifiers, r.dropped)

\* (An adjustment that does not look at _currently_notifying.)
AdjustNow(actions, registered) ==
    ApplyTo(actions, registered, notifier) /\ Ask(actions) /\ UNCHANGED <<notifying, deferred>>

\* (What is held back last is applied first.)
AdjustFirst(actions, registered) ==
    /\ Ask(actions)
    /\ notifying' = notifying
    /\ IF notifying
       THEN /\ deferred' = actions \o deferred
            /\ callbacks' = registered
            /\ UNCHANGED <<monitors, notifier>>
       ELSE ApplyTo(actions, registered, notifier) /\ deferred' = deferred

\* What register_monitor, adjust_monitor and remove_monitor do with an adjustment.
Adjust(actions, registered) ==
    /\ Ask(actions)
    /\ notifying' = notifying
    /\ IF notifying
       THEN /\ deferred' = deferred \o actions
            /\ callbacks' = registered
            /\ UNCHANGED <<monitors, notifier>>
       ELSE ApplyTo(actions, registered, notifier) /\ deferred' = deferred

Room(n) == notifying => Len(deferred) + n <= MaxDeferred

RegisterMonitor(h, devices, events) ==
    /\ callbacks[h] = "none" /\ Room(1)
    /\ Adjust(<<Adjustment(h, "add", devices, events)>>, [callbacks EXCEPT ![h] = "live"])

AdjustMonitorAction(h, kind, device, event) ==
    /\ callbacks[h] # "none" /\ Room(1)
    /\ Adjust(<<Adjustment(h, kind, {device}, {event})>>, callbacks)

RemoveMonitorAction(h) ==
    /\ callbacks[h] # "none" /\ Room(1)
    /\ Adjust(<<Adjustment(h, "delete", {}, {})>>, callbacks)

-----------------------------------------------------------------------------
(* Notifications. *)

Dict(d) == IF d = Gone THEN {} ELSE monitors[d]
Lookup(s) == IF monitors[s] = {} THEN Gone ELSE s

\* The first dictionary of dicts is being walked: its size when the walk began
\* and the handles already called from it.  owed records, for the properties,
\* who was listed when the notification began and has not been called,
\* and outlives whether another notification has ended meanwhile.
NewNotifier(device, event) ==
    LET dicts == <<Lookup(<<device, event>>), Lookup(<<AnyDevice, event>>)>>
    IN  [dicts |-> dicts, size |-> Cardinality(Dict(dicts[1])), called |-> {},
         owed |-> ({1} \X Dict(dicts[1])) \cup ({2} \X Dict(dicts[2])), outlives |-> FALSE]

\* itertools.chain: on to the wildcard handlers.
NextDict(it) ==
    [it EXCEPT !.dicts = Tail(@), !.size = Cardinality(Dict(it.dicts[2])), !.called = {}]

\* "dictionary changed size during iteration"
Broken(it) == Cardinality(Dict(it.dicts[1])) # it.size
Left(it) == Dict(it.dicts[1]) \ it.called

Exhausted(it) == ~Broken(it) /\ Left(it) = {}

\* Where the walk goes next: on in this dictionary, or to the wildcard one.
Walk(it) == IF Exhausted(it) /\ Len(it.dicts) = 2 THEN NextDict(it) ELSE it

\* The walk when a callback has been called.
Called(it, h) ==
    [it EXCEPT !.called = @ \cup {h}, !.owed = @ \ {<<3 - Len(it.dicts), h>>}]

\* A callback is called and awaited; whatever it raises is logged.
CallNext(n, it) ==
    /\ ~Broken(it) /\ Left(it) # {}
    /\ \E h \in Left(it) :
        notifier' = [m \in DOMAIN notifier \cup {n} |-> IF m = n THEN Called(it, h) ELSE notifier[m]]
    /\ UNCHANGED <<monitors, callbacks, deferred, asked>>

Without(n) ==
    [m \in DOMAIN notifier \ {n} |-> [notifier[m] EXCEPT !.outlives = TRUE]]

\* (The finally clause without the adjustments that were held back.)
EndDropping(n) ==
    /\ notifier' = Without(n)
    /\ deferred' = <<>>
    /\ notifying' = FALSE
    /\ UNCHANGED <<monitors, callbacks, asked>>

\* (A finally clause that leaves the adjustments for somebody else.)
EndKeeping(n) ==
    /\ notifier' = Without(n)
    /\ notifying' = FALSE
    /\ UNCHANGED <<monitors, callbacks, deferred, asked>>

\* The finally clause.
End(n) ==
    /\ ApplyTo(deferred, callbacks, Without(n))
    /\ deferred' = <<>>
    /\ notifying' = FALSE
    /\ UNCHANGED asked

\* _notify_event_internal up to its first await: the flag is set, here only, and
\* the first callback is called, if any.
Begin(n, device, event) ==
    LET it == Walk(NewNotifier(device, event)) IN
    /\ n \notin DOMAIN notifier
    /\ (CallNext(n, it) /\ notifying' = TRUE) \/ (Left(it) = {} /\ End(n))

\* The awaited callback has returned.  If another notification has ended meanwhile
\* the flag is clear, and stays so.
Resume(n) ==
    LET it == Walk(notifier[n]) IN
    /\ n \in DOMAIN notifier
    /\ (CallNext(n, it) /\ UNCHANGED notifying) \/ ((Broken(it) \/ Left(it) = {}) /\ End(n))

Next ==
    \/ \E h \in Handles, D \in SUBSET (Devices \cup {AnyDevice}), V \in SUBSET Events :
            RegisterMonitor(h, D, V)
    \/ \E h \in Handles, k \in {"add", "remove"}, s \in Slots : AdjustMonitorAction(h, k, s[1], s[2])
    \/ \E h \in Handles : RemoveMonitorAction(h)
    \/ \E n \in Notifiers, d \in Devices, e \in Events : Begin(n, d, e)
    \/ \E n \in Notifiers : Resume(n)

Spec == Init /\ [][Next]_notificationVars

-----------------------------------------------------------------------------
(* Properties. *)

\* The variables stay in their types; what is put off while callbacks are called is a list
\* of changes to handles (_deferred_adjustments).
TypeOK ==
    /\ {monitors, asked} \subseteq [Slots -> SUBSET Handles]
    /\ callbacks \in [Handles -> {"none", "live", "deleted"}]
    /\ notifying \in BOOLEAN
    /\ \A i \in DOMAIN deferred : deferred[i].handle \in Handles
    /\ DOMAIN notifier \subseteq Notifiers
    /\ \A n \in DOMAIN notifier :
        /\ Len(notifier[n].dicts) \in 1 .. 2
        /\ notifier[n].called \subseteq Handles

\* "guaranteed to take effect before the next call to _notify_event": nothing is
\* held back unless a notification is in progress that will apply it, whatever order
\* overlapping notifications end in.
NothingStranded ==
    /\ deferred # <<>> => notifying
    /\ notifying => DOMAIN notifier # {}

\* "ensure that all callbacks registered for it have completed by the time it
\* returns": whoever was listed when a notification began has been called when it
\* ends, whatever the callbacks register and remove, unless another notification
\* has ended first: that one clears the flag they share.
EveryoneIsCalled ==
    [][\A n \in DOMAIN notifier \ DOMAIN notifier' :
        ~notifier[n].outlives => notifier[n].owed = {}]_notificationVars

\* The monitors as their owners have asked for them.
Listed == Adjusted(deferred).monitors

\* "guaranteed to take effect": the monitors, with what is held back applied to them, are
\* those of a mixin that never holds anything back, and so they are as they stand while the
\* flag is clear: no adjustment is lost, applied twice or overtaken by a later one,
\* however notifications overlap and whichever of them applies it.
NothingAskedIsLost ==
    /\ Listed = asked
    /\ ~notifying => monitors = asked
=============================================================================

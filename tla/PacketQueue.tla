---------------------------- MODULE PacketQueue ----------------------------
(***************************************************************************)
(* The numbering of MQTT messages in awsiot/topic_sequencer.py, the queue  *)
(* that puts them in order again (awsiot/packet_queue.py), and the client  *)
(* that has one queue per topic (awsiot/mqtt_client.py).  Between them     *)
(* messages change places, and some are delivered twice.                   *)
(***************************************************************************)
EXTENDS None, Naturals, Sequences, SequencesExt

CONSTANTS
    PQPackets,    \* bound on the messages that are published
    PQRepeats,    \* bound on second deliveries
    PQResets,     \* bound on subscriptions and resets after the first subscription
    PQRaises      \* bound on messages on which the callback raises

ASSUME PQAssumption == PQRepeats \in Nat /\ PQResets \in Nat /\ PQRaises \in Nat /\ NULL \notin Nat

VARIABLES
    pqSent,       \* messages published so far: TopicSequencer.topics of the topic
    pqAir,        \* messages under way
    pqWaiting,    \* PacketQueue._out_of_order
    pqNext,       \* PacketQueue._next_expected
    pqGot,        \* messages that the callback was done with since the subscription or the last reset
    pqRaised,     \* history: the callback raised at the last arrival that was not of the past
    pqBudget      \* repetitions, resets and exceptions that may still occur

pqVars == <<pqSent, pqAir, pqWaiting, pqNext, pqGot, pqRaised, pqBudget>>

PQInit ==
    /\ pqSent = 0
    /\ pqAir = {}
    /\ pqWaiting = <<>>
    /\ pqNext = NULL
    /\ pqGot = <<>>
    /\ pqRaised = FALSE
    /\ pqBudget = [repeats |-> PQRepeats, resets |-> PQResets, raises |-> PQRaises]

\* TopicSequencer.next_id()
next_id(seq) == seq = pqSent /\ pqSent' = pqSent + 1

\* OrderedAWSIOTClient.publish()
PQPublish ==
    /\ pqSent < PQPackets
    /\ \E seq \in 0 .. PQPackets : next_id(seq) /\ pqAir' = pqAir \cup {seq}
    /\ UNCHANGED <<pqWaiting, pqNext, pqGot, pqRaised, pqBudget>>

\* append() and sort(): the queue is in order, and the message goes to its place in it.
Sorted(waiting, seq) ==
    LET n == CHOOSE n \in 0 .. Len(waiting) :
                 \A i \in 1 .. Len(waiting) : waiting[i] <= seq <=> i <= n
    IN  InsertAt(waiting, n + 1, seq)

\* The messages at the front of the queue that are the next ones; the first one of all is
\* the next one, whichever it is.
Ready(waiting) ==
    {n \in 0 .. Len(waiting) : \A i \in 1 .. n : waiting[i] = (IF pqNext = NULL THEN waiting[1] ELSE pqNext) + i - 1}

\* Mutant: one message at a time is given to the callback.
LongestOne(waiting) == CHOOSE n \in Ready(waiting) \cap {0, 1} : \A m \in Ready(waiting) \cap {0, 1} : m <= n

\* Mutant: the first message in the queue is taken, next or not.
LongestAny(waiting) == 1

Longest(waiting) == CHOOSE n \in Ready(waiting) : \A m \in Ready(waiting) : m <= n

\* PacketQueue.receive().  If the callback raises at one of the messages, those before it are
\* done with and it stays at the front, to be given to the callback again when one more arrives.
PQReceive(waiting, raises) ==
    /\ \E n \in IF raises THEN {n \in Ready(waiting) : n < Longest(waiting)} ELSE {Longest(waiting)} :
           /\ pqGot' = pqGot \o SubSeq(waiting, 1, n)
           /\ pqWaiting' = SubSeq(waiting, n + 1, Len(waiting))
           /\ pqNext' = IF n = 0 THEN pqNext ELSE waiting[n] + 1
    /\ pqRaised' = raises

InThePast(seq) == IF pqNext = NULL THEN FALSE ELSE seq < pqNext

\* _on_receive(): a message arrives, and may arrive once more.
OnReceive(seq) ==
    \E again, raises \in {0, 1} :
        /\ again <= pqBudget.repeats /\ raises <= pqBudget.raises
        /\ pqAir' = IF again = 1 THEN pqAir ELSE pqAir \ {seq}
        /\ pqBudget' = [pqBudget EXCEPT !.repeats = @ - again, !.raises = @ - raises]
        /\ IF InThePast(seq) THEN raises = 0 /\ UNCHANGED <<pqWaiting, pqNext, pqGot, pqRaised>>
           ELSE PQReceive(Sorted(pqWaiting, seq), raises = 1)
        /\ UNCHANGED pqSent

Again == pqBudget.resets > 0 /\ pqBudget' = [pqBudget EXCEPT !.resets = @ - 1]

\* subscribe(), with a new queue in place of the one that there was
Subscribe ==
    /\ Again
    /\ pqWaiting' = <<>> /\ pqNext' = NULL /\ pqGot' = <<>> /\ pqRaised' = FALSE
    /\ UNCHANGED <<pqSent, pqAir>>

\* reset_sequence(): what waits is kept.
ResetSequence ==
    /\ Again
    /\ pqNext' = NULL /\ pqGot' = <<>>
    /\ UNCHANGED <<pqSent, pqAir, pqWaiting, pqRaised>>

PQNext == PQPublish \/ (\E seq \in pqAir : OnReceive(seq)) \/ Subscribe \/ ResetSequence

PQSpec == PQInit /\ [][PQNext]_pqVars

----------------------------------------------------------------------------

\* Since the subscription or the last reset the callback was done with the messages one after
\* the other, in the order in which they were published: with none twice, and none left out, in
\* whatever order they came and at whichever of them it raised (packet_queue.py:48-70).  A
\* message at which it raised is given to it again before any later one.
PQInOrder == \A i \in 1 .. Len(pqGot) - 1 : pqGot[i + 1] = pqGot[i] + 1

\* Once everything has arrived nothing is held back, unless the callback raised at the last
\* arrival, something arrived twice or the numbering was started again (packet_queue.py:58-70).
\* An exception holds back nothing for longer than until the next arrival.
PQNothingHeld ==
    pqAir = {} /\ ~pqRaised /\ pqBudget.repeats = PQRepeats /\ pqBudget.resets = PQResets => pqWaiting = <<>>
============================================================================

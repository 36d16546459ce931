------------------------------ MODULE SensorGraph ------------------------------
(***************************************************************************)
(* The engine of sensor graphs: SensorGraph and SGNode (iotile/sg/graph.py,*)
(* node.py), the processing functions, and the subsystem of the emulated   *)
(* controller that runs them (controller_features/sensor_graph.py).        *)
(*                                                                         *)
(* A node reads its inputs through walkers that it alone holds, so each is *)
(* here the FIFO that module WalkerFifo promises, a virtual walker being   *)
(* the special case that its kind makes it.  The worker only awaits inputs *)
(* and the RPCs of call_rpc; its steps between two awaits are separate     *)
(* actions, during which nothing else happens.                             *)
(*                                                                         *)
(* Not here: storage that fills up, streamers (module Streaming), cycles   *)
(* of nodes that go on for ever, a constant as the first input of          *)
(* copy_all_a, which does too.                                             *)
(***************************************************************************)
EXTENDS None, Integers, Sequences, SequencesExt, FiniteSetsExt

CONSTANTS
    SgDescriptors,   \* what add_node may be sent: [inputs, any, out, func]
    SgSent,          \* the graph inputs that are presented: <<stream, value>>
    SgConstants,     \* pushes of constants by RPC: <<stream, value>>
    SgMaxOutputs,    \* max_node_outputs of the device model
    SgMaxNodes,      \* max_nodes of the device model
    SgCompiled,      \* what a graph that is compiled is made of
    SgMaxCompiled,   \* bound on its nodes
    SgStreamers,     \* how many streamers there are that nodes may mark
    SgMaxMade,       \* bound on the nodes that are made
    SgMaxSent,       \* bound on the inputs
    SgMaxPushes,     \* bound on the pushes of constants
    SgMaxResets      \* bound on the resets of the device

VARIABLES
    sgMade,       \* every SGNode there has been: what it was made from and the rest
    sgNodes,      \* SensorGraph.nodes
    sgRoots,      \* SensorGraph.roots
    sgQueue,      \* SensorGraphSubsystem._inputs
    sgWorkers,    \* the tasks that have run _reset_vector
    sgEnabled,    \* enabled
    sgPersisted,  \* persisted_nodes and persisted_constants, or NULL
    sgDevice,     \* how far a reset is
    sgCount,      \* how many inputs, pushes and resets there have been
    sgReplaced    \* a graph has been cleared while a worker was at it

sgVars == <<sgMade, sgNodes, sgRoots, sgQueue, sgWorkers,
            sgEnabled, sgPersisted, sgDevice, sgCount, sgReplaced>>
sgGraph == <<sgMade, sgNodes, sgRoots>>
sgSystem == <<sgEnabled, sgPersisted, sgDevice, sgReplaced>>

Elements(s) == {s[n] : n \in DOMAIN s}
SgFunctions == {"copy_all_a", "copy_latest_a", "copy_count_a", "call_rpc",
                "trigger_streamer", "subtract_afromb"}
\* What count() says of a constant, 0xFFFFFFFF, as far as TLC's integers go.
SgConstantCount == 2147483647

SgInit ==
    /\ sgMade = <<>> /\ sgNodes = <<>> /\ sgRoots = <<>>
    /\ sgQueue = <<>>
    /\ sgWorkers = <<[pc |-> "get", input |-> NULL, check |-> <<>>, results |-> NULL]>>
    /\ sgEnabled = FALSE
    /\ sgPersisted = NULL
    /\ sgDevice = "up"
    /\ sgCount = [inputs |-> 0, pushes |-> 0, resets |-> 0]
    /\ sgReplaced = FALSE

-----------------------------------------------------------------------------
(* Streams and the walkers of nodes. *)

SgBuffered(stream) == stream.type \in {"buffered", "output"}
SgImportant(stream) == stream.type = "input" /\ stream.system /\ stream.id >= 1024
SgAssociated(stream) ==
    [stream EXCEPT !.type = IF stream.id >= 1024 + 512 THEN "buffered" ELSE "output"]

\* matches() of a selector that names one stream does not look at its system flag.
SgMatches(selector, stream) == selector.type = stream.type /\ selector.id = stream.id

\* The walker of a new input is empty; but a constant reads as 0.
SgWalker(selector) == IF selector.type = "constant" THEN <<[v |-> 0, t |-> 0]>> ELSE <<>>

\* push(): a counter keeps its count and one reading, other virtual walkers one reading.
SgHeld(selector, held, reading) ==
    CASE SgBuffered(selector)      -> Append(held, reading)
      [] selector.type = "counter" -> [n \in 1..(Len(held) + 1) |-> reading]
      [] OTHER                     -> <<reading>>

SgAvailable(selector, held) ==
    IF selector.type = "constant" THEN SgConstantCount ELSE Len(held)
SgPopped(selector, held) == IF selector.type = "constant" \/ held = <<>> THEN held ELSE Tail(held)
SgSkipped(selector, held) == IF selector.type = "constant" THEN held ELSE <<>>

\* SensorLog.push(), as far as the walkers of nodes that it knows.
SgPush(made, stream, reading) ==
    [n \in DOMAIN made |->
        [made[n] EXCEPT !.held =
            [i \in DOMAIN @ |->
                IF made[n].attached /\ SgMatches(made[n].of.inputs[i].selector, stream)
                THEN SgHeld(made[n].of.inputs[i].selector, @[i], reading) ELSE @[i]]]]

-----------------------------------------------------------------------------
(* Nodes. *)

SgCompare(op, a, b) ==
    CASE op = ">"  -> a > b
      [] op = ">=" -> a >= b
      [] op = "<"  -> a < b
      [] op = "<=" -> a <= b
      [] op = "==" -> a = b

SgInputTriggered(trigger, selector, held) ==
    \/ trigger = NULL
    \/ /\ trigger # NULL
       /\ IF trigger.source = "count"
          THEN SgCompare(trigger.op, SgAvailable(selector, held), trigger.reference)
          ELSE held # <<>> /\ SgCompare(trigger.op, Head(held).v, trigger.reference)

\* An input that is not connected counts as triggered.
SgTriggered(node) ==
    LET T(i) == SgInputTriggered(node.of.inputs[i].trigger, node.of.inputs[i].selector, node.held[i])
    IN  IF node.of.any /\ Len(node.held) = 2
        THEN \E i \in DOMAIN node.held : T(i)
        ELSE \A i \in DOMAIN node.held : T(i)

SgSkipAll(node) == [i \in DOMAIN node.held |-> SgSkipped(node.of.inputs[i].selector, node.held[i])]

\* The processing functions: the values they return and what they leave in the walkers.
\* The value of call_rpc is still to come; which streamers are marked is of no effect here.
SgProcess(node) ==
    LET A == node.held[1]
        B == IF Len(node.held) = 2 THEN node.held[2] ELSE <<>>
        Selector(i) == node.of.inputs[i].selector
        Left(out) == [out |-> out, held |-> SgSkipAll(node)]
        popped == [i \in DOMAIN node.held |->
                      IF i = 1 \/ A # <<>> THEN SgPopped(Selector(i), node.held[i])
                      ELSE node.held[i]]
    IN  CASE node.func = "copy_all_a"    -> Left([i \in DOMAIN A |-> A[i].v])
          [] node.func = "copy_latest_a" -> Left(IF A = <<>> THEN <<>> ELSE <<Last(A).v>>)
          [] node.func = "copy_count_a"  -> Left(<<SgAvailable(Selector(1), A)>>)
          [] node.func = "call_rpc"      -> Left(IF B = <<>> THEN <<>> ELSE <<NULL>>)
          [] node.func = "trigger_streamer" ->
                Left(IF B # <<>> /\ Head(B).v < SgStreamers THEN <<0>> ELSE <<>>)
          [] node.func = "subtract_afromb" ->
                [out |-> IF A = <<>> \/ B = <<>> THEN <<>> ELSE <<Head(B).v - Head(A).v>>,
                 held |-> popped]

-----------------------------------------------------------------------------
(* The graph. *)

SgCurrent == [made |-> sgMade, nodes |-> sgNodes, roots |-> sgRoots, error |-> "none"]

\* connect_output(), unless an error has ended add_node() before.
SgConnect(g, from, to) ==
    IF g.error # "none" THEN g
    ELSE IF Len(g.made[from].outputs) = SgMaxOutputs THEN [g EXCEPT !.error = "too many outputs"]
    ELSE [g EXCEPT !.made[from].outputs = Append(@, to)]

\* The walker of one input, and the nodes that it is read from.
SgConnectInput(g, n, input) ==
    LET g1 == [g EXCEPT !.made[n].held = Append(@, SgWalker(input.selector))]
        sources == SelectSeq(g.nodes, LAMBDA o : SgMatches(input.selector, g.made[o].of.out))
    IN  IF g.error # "none" THEN g
        ELSE IF input.selector.type = "input" /\ n \notin Elements(g.roots)
        THEN [g1 EXCEPT !.roots = Append(@, n)]
        ELSE IF sources = <<>> /\ SgBuffered(input.selector)
        THEN [g1 EXCEPT !.error = "not connected"]
        ELSE FoldLeft(LAMBDA h, o : SgConnect(h, o, n), g1, sources)

\* (Older nodes are not looked at.)
SgConnectsNone(g, n) == g

\* The nodes there are that read what the new one writes, once for each such input.
SgConnectBack(g, n) ==
    LET readers(o) == SelectSeq(g.made[o].of.inputs,
                                LAMBDA i : SgMatches(i.selector, g.made[n].of.out))
        ConnectAll(h, o) == FoldLeft(LAMBDA k, i : SgConnect(k, n, o), h, readers(o))
    IN  FoldLeft(ConnectAll, g, g.nodes)

\* SensorGraph.add_node(): what it has done stays done when it raises, except that the
\* node is not one of the graph's and has no function.
SgAdded(g, d) ==
    LET n == Len(g.made) + 1
        new == [g EXCEPT !.made = Append(@, [of |-> d, held |-> <<>>, outputs |-> <<>>,
                                             func |-> NULL, attached |-> TRUE])]
        connected == SgConnectBack(FoldLeft(LAMBDA h, i : SgConnectInput(h, n, i), new, d.inputs), n)
    IN  IF Len(g.nodes) >= SgMaxNodes THEN [g EXCEPT !.error = "no space"]
        ELSE IF connected.error # "none" THEN connected
        ELSE IF d.func \notin SgFunctions THEN [connected EXCEPT !.error = "no function"]
        ELSE [connected EXCEPT !.made[n].func = d.func, !.nodes = Append(@, n)]

SgBecomes(g) == sgMade' = g.made /\ sgNodes' = g.nodes /\ sgRoots' = g.roots
SgClear == sgNodes' = <<>> /\ sgRoots' = <<>>

-----------------------------------------------------------------------------
(* What the compiler does with a graph: its constants and the order of its nodes. *)

SgReadsFrom(g, n, o) ==
    \E i \in DOMAIN g.made[n].held :
        SgMatches(g.made[n].of.inputs[i].selector, g.made[o].of.out)

\* iterate_bfs(): a node as often as it is notified, with those seen before that it reads.
RECURSIVE SgVisits(_, _, _)
SgVisits(g, working, seen) ==
    IF working = <<>> THEN <<>>
    ELSE LET n == Head(working)
             visit == [node |-> n, inputs |-> {o \in Elements(seen) : SgReadsFrom(g, n, o)}]
         IN  <<visit>> \o SgVisits(g, Tail(working) \o g.made[n].outputs, Append(seen, n))
SgVisited(g) == {v.node : v \in Elements(SgVisits(g, g.roots, <<>>))}

SgInputStreams(g, n) == {i.selector : i \in Elements(g.made[n].of.inputs)}

\* initialize_remaining_constants(), with the constants that were given.
SgInitialized(g, given) ==
    LET streams == UNION {SgInputStreams(g, n) \cup {g.made[n].of.out} : n \in SgVisited(g)}
    IN  [s \in DOMAIN given \cup {t \in streams : t.type = "constant"} |->
            IF s \in DOMAIN given THEN given[s] ELSE 0]
SgLoadConstants(g, database) ==
    [g EXCEPT !.made = FoldLeft(LAMBDA made, s : SgPush(made, s, [v |-> database[s], t |-> 0]),
                                @, SetToSeq(DOMAIN database))]

\* toposort_flatten(), NULL when there is a circle.
RECURSIVE SgToposort(_)
SgToposort(deps) ==
    LET ready == {n \in DOMAIN deps : deps[n] \subseteq {n}}
        rest == SgToposort([n \in DOMAIN deps \ ready |-> deps[n] \ ready])
    IN  IF DOMAIN deps = {} THEN <<>>
        ELSE IF ready = {} THEN NULL
        ELSE IF rest = NULL THEN NULL
        ELSE SetToSortSeq(ready, LAMBDA a, b : a < b) \o rest

\* (A node keeps what it was seen to read first.)
SgDependsAtFirst(visits, n) ==
    visits[CHOOSE k \in DOMAIN visits :
             visits[k].node = n /\ \A j \in 1..(k - 1) : visits[j].node # n].inputs

\* What counts is what a node was seen to read last.
SgDepends(visits, n) ==
    visits[CHOOSE k \in DOMAIN visits :
             visits[k].node = n /\ \A j \in (k + 1)..Len(visits) : visits[j].node # n].inputs

\* sort_nodes(): a node that is never notified is left out.
SgSortNodes(g) ==
    LET visits == SgVisits(g, g.roots, <<>>)
        order == SgToposort([n \in SgVisited(g) |-> SgDepends(visits, n)])
    IN  IF ~(SgVisited(g) \subseteq Elements(g.nodes)) THEN [g EXCEPT !.error = "not a node"]
        ELSE IF order = NULL THEN [g EXCEPT !.error = "circular"]
        ELSE [g EXCEPT !.nodes = order,
                !.error = IF \A r \in Elements(g.roots) : \E k \in DOMAIN g.roots : order[k] = r
                          THEN "none" ELSE "inputs are not first"]

-----------------------------------------------------------------------------
(* The checksum of a graph.  What was added to it is in a record: nodes, streamers,      *)
(* constants and the tag are what they are written as, the configs map a slot and an id  *)
(* to a type and a value, hash is the metadata about the checksum, NULL if one is absent.*)

SgController(id) == <<"controller", id>>
SgAddConfig(g, id, value) ==
    [g EXCEPT !.configs[SgController(id)] = [type |-> @.type, value |-> value]]

\* _convert_to_bytearray(): the width and the value of a number, or a text; NULL if it raises.
SgWidth == [uint8_t |-> 1, int8_t |-> 1, uint16_t |-> 2]
SgBytes(config) ==
    IF (config.type = "string") # (config.value[1] # "int") THEN NULL
    ELSE IF config.type = "string" THEN <<0, config.value>>
    ELSE <<SgWidth[config.type], config.value>>

\* (What is to be ignored is hashed all the same.)
SgHashesAll(g, ignored) ==
    <<"sum", <<g.nodes, g.streamers, {<<c, SgBytes(g.configs[c])>> : c \in DOMAIN g.configs},
               g.constants, g.tag>>>>

\* The hash of something stands for it.  The configs are written in their order.
SgDeviceChecksum(g, ignored) ==
    <<"sum", <<g.nodes, g.streamers,
               {<<c, SgBytes(g.configs[c])>> : c \in DOMAIN g.configs \ ignored},
               g.constants, g.tag>>>>

SgConfigured(g, id) == SgController(id) \in DOMAIN g.configs

\* What is stored before anything is hashed: the algorithm and, parsed, the ignore list.
SgStored(g) ==
    LET h == g.hash
        one == SgAddConfig(g, h.algorithm_address, <<"algorithm", h.algorithm>>)
    IN  IF ~SgConfigured(g, h.algorithm_address) THEN [g EXCEPT !.error = "not configured"]
        ELSE IF ~SgConfigured(g, h.ignorelist_address) THEN [one EXCEPT !.error = "not configured"]
        ELSE SgAddConfig(one, h.ignorelist_address, <<"list", h.ignorelist>>)

\* add_checksum(): all configs are converted, those that are ignored too.
SgAddChecksum(g, force) ==
    LET stored == IF force THEN g ELSE SgStored(g)
        ignored == IF force THEN {} ELSE g.hash.ignorelist
        sum == SgDeviceChecksum(stored, ignored)
        done == [stored EXCEPT !.checksum = sum]
    IN  IF ~force /\ g.hash = NULL THEN g
        ELSE IF stored.error # "none" THEN stored
        ELSE IF ~force /\ g.hash.algorithm # "sha256" THEN [stored EXCEPT !.error = "no algorithm"]
        ELSE IF \E c \in DOMAIN stored.configs : SgBytes(stored.configs[c]) = NULL
        THEN [stored EXCEPT !.error = "not convertible"]
        ELSE IF force THEN done
        ELSE IF ~SgConfigured(done, g.hash.address) THEN [done EXCEPT !.error = "not configured"]
        ELSE SgAddConfig(done, g.hash.address, sum)

-----------------------------------------------------------------------------
(* The RPCs of the controller. *)

\* No worker is between two awaits.
SgQuiet == \A w \in DOMAIN sgWorkers : sgWorkers[w].pc # "run"

SgWaits(w) == sgWorkers[w].pc \in {"await", "cancelled"}

SgAddNode ==
    /\ SgQuiet /\ Len(sgMade) < SgMaxMade
    /\ \E d \in SgDescriptors : SgBecomes(SgAdded(SgCurrent, d))
    /\ UNCHANGED <<sgQueue, sgWorkers, sgSystem, sgCount>>

SgSetOnline ==
    /\ SgQuiet
    /\ sgEnabled' \in BOOLEAN
    /\ UNCHANGED <<sgGraph, sgQueue, sgWorkers, sgPersisted, sgDevice, sgCount, sgReplaced>>

\* process_input(): what comes while the graph is not enabled is dropped.  A reading
\* is known by the number of its input.
SgGraphInput ==
    /\ SgQuiet /\ sgEnabled /\ sgCount.inputs < SgMaxSent
    /\ sgCount' = [sgCount EXCEPT !.inputs = @ + 1]
    /\ \E s \in SgSent :
        sgQueue' = Append(sgQueue, [stream |-> s[1], reading |-> [v |-> s[2], t |-> sgCount'.inputs]])
    /\ UNCHANGED <<sgGraph, sgWorkers, sgSystem>>

\* rsl_push_reading, to a constant: nodes see it when they are checked next.
SgPushConstant ==
    /\ SgQuiet /\ sgCount.pushes < SgMaxPushes
    /\ sgCount' = [sgCount EXCEPT !.pushes = @ + 1]
    /\ \E c \in SgConstants : sgMade' = SgPush(sgMade, c[1], [v |-> c[2], t |-> 0])
    /\ UNCHANGED <<sgNodes, sgRoots, sgQueue, sgWorkers, sgSystem>>

\* dump_constants(): one for each walker, of whatever node.
SgDumpConstants ==
    LET Of(node) == FoldLeft(LAMBDA s, i :
                                IF node.attached /\ node.of.inputs[i].selector.type = "constant"
                                THEN Append(s, <<node.of.inputs[i].selector, node.held[i][1]>>) ELSE s,
                             <<>>, [i \in DOMAIN node.held |-> i])
    IN  FoldLeft(LAMBDA s, node : s \o Of(node), <<>>, sgMade)

\* (What was sent is saved, not what was accepted.)
SgPersistsAllSent ==
    /\ SgQuiet
    /\ sgPersisted' = [nodes |-> [n \in DOMAIN sgMade |-> sgMade[n].of], constants |-> SgDumpConstants]
    /\ UNCHANGED <<sgGraph, sgQueue, sgWorkers, sgEnabled, sgDevice, sgCount, sgReplaced>>

SgPersist ==
    /\ SgQuiet
    /\ sgPersisted' = [nodes |-> [n \in DOMAIN sgNodes |-> sgMade[sgNodes[n]].of],
                       constants |-> SgDumpConstants]
    /\ UNCHANGED <<sgGraph, sgQueue, sgWorkers, sgEnabled, sgDevice, sgCount, sgReplaced>>

\* reset() of the graph, in memory and persisted: its walkers stay registered.
SgResetGraph ==
    /\ SgQuiet /\ (sgNodes # <<>> \/ sgPersisted # NULL)
    /\ SgClear
    /\ sgPersisted' = NULL
    /\ sgReplaced' = (sgReplaced \/ \E w \in DOMAIN sgWorkers : SgWaits(w))
    /\ UNCHANGED <<sgMade, sgQueue, sgWorkers, sgEnabled, sgDevice, sgCount>>

-----------------------------------------------------------------------------
(* The worker: _reset_vector and process_graph_input. *)

SgWorker(pc) == [pc |-> pc, input |-> NULL, check |-> <<>>, results |-> NULL]
SgRuns(w) == sgWorkers[w].pc = "run" /\ sgWorkers[w].check # <<>>
SgNode(w) == sgMade[Head(sgWorkers[w].check)]

SgTake(w) ==
    /\ SgQuiet /\ sgWorkers[w].pc = "get" /\ sgQueue # <<>>
    /\ LET input == Head(sgQueue)
           made == SgPush(sgMade, input.stream, input.reading)
       IN  /\ sgMade' = IF SgImportant(input.stream)
                        THEN SgPush(made, SgAssociated(input.stream), input.reading) ELSE made
           /\ sgWorkers' = [sgWorkers EXCEPT ![w] =
                [pc |-> "run", input |-> input, check |-> sgRoots, results |-> NULL]]
    /\ sgQueue' = Tail(sgQueue)
    /\ UNCHANGED <<sgNodes, sgRoots, sgSystem, sgCount>>

\* What is checked after the first node, which has this many results.
SgNotified(w, results) ==
    Tail(sgWorkers[w].check) \o (IF results = 0 THEN <<>> ELSE SgNode(w).outputs)

SgPassOver(w) ==
    /\ SgRuns(w) /\ ~SgTriggered(SgNode(w))
    /\ sgWorkers' = [sgWorkers EXCEPT ![w].check = Tail(@)]
    /\ UNCHANGED <<sgGraph, sgQueue, sgSystem, sgCount>>

\* process() of a node whose results are there at once, or are awaited.
SgRun(w) ==
    /\ SgRuns(w) /\ SgTriggered(SgNode(w)) /\ SgNode(w).func # NULL
    /\ LET n == Head(sgWorkers[w].check)
           done == SgProcess(sgMade[n])
           read == [sgMade EXCEPT ![n].held = done.held]
           Pushed(made, v) ==
               SgPush(made, sgMade[n].of.out, [v |-> v, t |-> sgWorkers[w].input.reading.t])
           awaits == done.out # <<>> /\ done.out[1] = NULL
       IN  /\ sgMade' = IF awaits THEN read ELSE FoldLeft(Pushed, read, done.out)
           /\ sgWorkers' = [sgWorkers EXCEPT
                ![w].pc = IF awaits THEN "await" ELSE "run",
                ![w].results = Len(done.out),
                ![w].check = IF awaits THEN @ ELSE SgNotified(w, Len(done.out))]
    /\ UNCHANGED <<sgNodes, sgRoots, sgQueue, sgSystem, sgCount>>

\* process() of a node without a function raises: "results" are those of the node before,
\* and when there is none the rest of the input is abandoned.
SgRaises(w) ==
    /\ SgRuns(w) /\ SgTriggered(SgNode(w)) /\ SgNode(w).func = NULL
    /\ sgWorkers' = [sgWorkers EXCEPT ![w] =
            IF @.results = NULL THEN SgWorker("get")
            ELSE [@ EXCEPT !.check = SgNotified(w, sgWorkers[w].results)]]
    /\ UNCHANGED <<sgGraph, sgQueue, sgSystem, sgCount>>

\* (The nodes downstream are not told of the answer.)
SgAnswersQuietly(w) ==
    /\ SgQuiet /\ sgWorkers[w].pc = "await"
    /\ sgMade' = SgPush(sgMade, SgNode(w).of.out, [v |-> 1, t |-> sgWorkers[w].input.reading.t])
    /\ sgWorkers' = [sgWorkers EXCEPT ![w].pc = "run", ![w].check = Tail(@)]
    /\ UNCHANGED <<sgNodes, sgRoots, sgQueue, sgSystem, sgCount>>

\* The RPC answers, or raises; whatever it was, its one result counts.
SgAnswered(w) ==
    /\ SgQuiet /\ sgWorkers[w].pc = "await"
    /\ sgMade' = SgPush(sgMade, SgNode(w).of.out, [v |-> 1, t |-> sgWorkers[w].input.reading.t])
    /\ sgWorkers' = [sgWorkers EXCEPT ![w].pc = "run", ![w].check = SgNotified(w, 1)]
    /\ UNCHANGED <<sgNodes, sgRoots, sgQueue, sgSystem, sgCount>>

\* A cancellation is one more exception, which is caught: the worker goes on.
SgRefused(w) ==
    /\ SgQuiet /\ SgWaits(w)
    /\ sgWorkers' = [sgWorkers EXCEPT ![w].pc = "run", ![w].check = SgNotified(w, 1)]
    /\ UNCHANGED <<sgGraph, sgQueue, sgSystem, sgCount>>

\* process_streamers() is in module Streaming.
SgFinish(w) ==
    /\ sgWorkers[w].pc = "run" /\ sgWorkers[w].check = <<>>
    /\ sgWorkers' = [sgWorkers EXCEPT ![w] = SgWorker("get")]
    /\ UNCHANGED <<sgGraph, sgQueue, sgSystem, sgCount>>

-----------------------------------------------------------------------------
(* A reset of the device. *)

\* The controller cancels its tasks and does not wait for them.
SgStop ==
    /\ SgQuiet /\ sgDevice = "up" /\ sgCount.resets < SgMaxResets
    /\ sgCount' = [sgCount EXCEPT !.resets = @ + 1]
    /\ sgWorkers' = [w \in DOMAIN sgWorkers |->
            IF SgWaits(w) THEN [sgWorkers[w] EXCEPT !.pc = "cancelled"] ELSE SgWorker("gone")]
    /\ sgDevice' = "stopped"
    /\ UNCHANGED <<sgGraph, sgQueue, sgEnabled, sgPersisted, sgReplaced>>

\* clear_to_reset() of the sensor log: destroy_all_walkers().
SgDetach ==
    /\ SgQuiet /\ sgDevice = "stopped"
    /\ sgMade' = [n \in DOMAIN sgMade |-> [sgMade[n] EXCEPT !.attached = FALSE]]
    /\ sgDevice' = "detached"
    /\ UNCHANGED <<sgNodes, sgRoots, sgQueue, sgWorkers, sgEnabled,
                   sgPersisted, sgCount, sgReplaced>>

\* The persisted nodes, added to a graph without any.
SgLoaded ==
    FoldLeft(LAMBDA g, d : IF g.error = "none" THEN SgAdded(g, d) ELSE g,
             [made |-> sgMade, nodes |-> <<>>, roots |-> <<>>, error |-> "none"], sgPersisted.nodes)

\* clear_to_reset() of the sensor graph.
SgLoad ==
    /\ SgQuiet /\ sgDevice = "detached"
    /\ LET loaded == SgLoaded
           ok == loaded.error = "none"
       IN  IF sgPersisted = NULL
           THEN SgClear /\ sgDevice' = "loaded" /\ UNCHANGED <<sgMade, sgEnabled>>
           ELSE /\ SgBecomes([loaded EXCEPT !.made =
                        FoldLeft(LAMBDA made, c : SgPush(made, c[1], c[2]), @, sgPersisted.constants)])
                /\ sgEnabled' = (ok \/ sgEnabled)
                /\ sgDevice' = IF ok THEN "loaded" ELSE "failed"
    /\ sgReplaced' = (sgReplaced \/ \E w \in DOMAIN sgWorkers : SgWaits(w))
    /\ UNCHANGED <<sgQueue, sgWorkers, sgPersisted, sgCount>>

\* initialize(): a new worker.
SgStart ==
    /\ SgQuiet /\ sgDevice = "loaded"
    /\ sgDevice' = "up"
    /\ sgWorkers' = Append(sgWorkers, SgWorker("get"))
    /\ UNCHANGED <<sgGraph, sgQueue, sgEnabled, sgPersisted, sgCount, sgReplaced>>

SgNext ==
    \/ SgAddNode \/ SgSetOnline \/ SgGraphInput \/ SgPushConstant
    \/ SgPersist \/ SgResetGraph
    \/ \E w \in DOMAIN sgWorkers :
        \/ SgTake(w) \/ SgPassOver(w) \/ SgRun(w) \/ SgRaises(w) \/ SgAnswered(w)
        \/ SgRefused(w) \/ SgFinish(w)
    \/ SgStop \/ SgDetach \/ SgLoad \/ SgStart

SgSpec == SgInit /\ [][SgNext]_sgVars

-----------------------------------------------------------------------------
(* Properties. *)

\* (add_node in graph.py.)  However nodes come, one is notified by another once for each
\* input that reads its stream; but not by an older one for the input that makes it a root.
SgReads(a, b) ==
    {i \in DOMAIN sgMade[b].of.inputs :
        /\ SgMatches(sgMade[b].of.inputs[i].selector, sgMade[a].of.out)
        /\ \/ b < a
           \/ sgMade[b].of.inputs[i].selector.type # "input"
           \/ \E j \in 1..(i - 1) : sgMade[b].of.inputs[j].selector.type = "input"}
SgEdgesFollowStreams ==
    \A a, b \in Elements(sgNodes) :
        Cardinality({k \in DOMAIN sgMade[a].outputs : sgMade[a].outputs[k] = b})
            = IF a = b THEN 0 ELSE Cardinality(SgReads(a, b))

\* (process_graph_input.)  When all inputs have been handled, no node that empties its
\* inputs is still triggered by a reading it holds, in a graph without the rests of refused
\* nodes, that was not cleared under a worker.  Constants and the streams important inputs
\* are copied to are not notified to nodes.
SgIdle == sgQueue = <<>> /\ sgDevice = "up" /\ \A w \in DOMAIN sgWorkers : sgWorkers[w].pc \in {"get", "gone"}
SgIsNotified(selector) ==
    /\ selector.type # "constant"
    /\ \A s \in SgSent : SgImportant(s[1]) => ~SgMatches(selector, SgAssociated(s[1]))
SgNothingOverlooked ==
    (SgIdle /\ ~sgReplaced /\ \A n \in DOMAIN sgMade : sgMade[n].func # NULL) =>
        \A n \in Elements(sgNodes) :
            (/\ sgMade[n].func # "subtract_afromb"
             /\ \A i \in DOMAIN sgMade[n].held : SgIsNotified(sgMade[n].of.inputs[i].selector)
             /\ \E i \in DOMAIN sgMade[n].held : sgMade[n].held[i] # <<>>)
            => ~SgTriggered(sgMade[n])

\* (process_graph_input.)  The readings of a stream are in the order of the inputs they
\* come from, whatever RPCs are awaited for them; but for a worker of an earlier graph.
SgResultsInOrder ==
    ~sgReplaced =>
        \A n \in Elements(sgNodes) : \A i \in DOMAIN sgMade[n].held :
            LET held == sgMade[n].held[i]
            IN  \A k \in 2..Len(held) : held[k - 1].t <= held[k].t

\* (SensorGraphSubsystem.persist, clear_to_reset.)  Whatever was refused in between, a graph
\* that was accepted node by node is accepted again after a reset.
SgReloads ==
    /\ sgDevice # "failed"
    /\ sgPersisted # NULL => Len(SgLoaded.nodes) = Len(sgPersisted.nodes)

GraphIsProcessed == SgEdgesFollowStreams /\ SgNothingOverlooked /\ SgResultsInOrder /\ SgReloads

-----------------------------------------------------------------------------
(* Cases: graphs that are compiled, their nodes added one by one, and graphs of which a  *)
(* checksum is made.                                                                      *)

SgText == [type |-> "string", value |-> <<"text", "">>]
SgNumber(type, n) == [type |-> type, value |-> <<"int", n>>]
SgHashes ==
    {NULL} \cup [address : {1}, algorithm : {"sha256", "md5"}, algorithm_address : {2},
                 ignorelist_address : {3},
                 ignorelist : {{}, {SgController(1)}, {SgController(1), <<"slot 1", 4>>}}]
SgOtherConfigs ==
    {SgText, SgNumber("uint8_t", 0), SgNumber("int8_t", 0), SgNumber("uint16_t", 0),
     SgNumber("uint8_t", 1), [type |-> "uint8_t", value |-> <<"text", "">>]}
SgConfigs ==
    UNION {{[c \in {SgController(id) : id \in ids} \cup {<<"slot 1", 4>>} |->
                IF c[1] = "slot 1" THEN other ELSE IF c[2] = 1 THEN first ELSE SgText] :
              other \in SgOtherConfigs, first \in {SgText, SgNumber("uint8_t", 0)}} :
             ids \in SUBSET {1, 2, 3}}
SgHashed ==
    [nodes : {<<>>}, streamers : {<<>>}, constants : {<<>>}, tag : {0, 1}, configs : SgConfigs,
     hash : SgHashes, checksum : {NULL}, error : {"none"}]
SgCases == [compiled : BoundedSeq(SgCompiled, SgMaxCompiled)] \cup [hashed : SgHashed, force : BOOLEAN]

SgEmpty == [made |-> <<>>, nodes |-> <<>>, roots |-> <<>>, error |-> "none"]
SgAddAll(ds) == FoldLeft(LAMBDA g, d : IF g.error = "none" THEN SgAdded(g, d) ELSE g, SgEmpty, ds)
SgOutputsOf(g, d) == {g.made[o].of : o \in UNION {Elements(g.made[n].outputs) :
                                                   n \in {m \in Elements(g.nodes) : g.made[m].of = d}}}

\* (sort_nodes, load_constants.)  In a sorted graph a node comes after those it reads and the
\* inputs come first, so that a device that is sent its nodes in that order has the same graph,
\* if each of them can run; and a constant that was given is what its readers read first.
SgIsSorted(g, sorted) ==
    \A j \in DOMAIN sorted.nodes : \A k \in (j + 1)..Len(sorted.nodes) :
        ~SgReadsFrom(g, sorted.nodes[j], sorted.nodes[k])
SgIsSentAs(ds, g, sent) ==
    /\ sent.error = "none" /\ sent.roots = [k \in DOMAIN sent.roots |-> k]
    /\ \A d \in Elements(ds) : SgOutputsOf(sent, d) = SgOutputsOf(g, d)
SgIsLoaded(g, given, loaded) ==
    \A n \in Elements(g.nodes) : \A i \in DOMAIN loaded.made[n].held :
        LET selector == g.made[n].of.inputs[i].selector
        IN  selector.type = "constant" =>
                loaded.made[n].held[i][1].v = IF selector \in DOMAIN given THEN 7 ELSE 0
SgIsCompiled(ds, g, sorted, given) ==
    (g.error = "none" /\ sorted.error = "none") =>
        /\ SgIsSorted(g, sorted)
        /\ Elements(sorted.nodes) = Elements(g.nodes) =>
               SgIsSentAs(ds, g, SgAddAll([k \in DOMAIN sorted.nodes |-> g.made[sorted.nodes[k]].of]))
        /\ SgIsLoaded(g, given, SgLoadConstants(g, SgInitialized(g, given)))
SgCompilesWell(ds) ==
    \E g \in {SgAddAll(ds)} :
        SgIsCompiled(ds, g, SgSortNodes(g), [s \in {c[1] : c \in SgConstants} |-> 7])

\* (add_checksum.)  Whoever makes the checksum of what is on the device anew gets the one that
\* is on it, if its address is one of those that are ignored; and a graph that differs in what
\* is not ignored has another one, if not just in the signs of numbers.
SgSumHolds(g, force, done, ignored) ==
    (done.checksum # NULL /\ done.error = "none") =>
        /\ (~force /\ SgController(g.hash.address) \in ignored
            /\ done.configs[SgController(g.hash.address)].type = "string") =>
               SgDeviceChecksum(done, done.configs[SgController(g.hash.ignorelist_address)].value[2])
                   = done.checksum /\ SgAddChecksum(done, FALSE) = done
        /\ \A tag \in {0, 1}, other \in SgOtherConfigs :
               SgAddChecksum([g EXCEPT !.tag = tag, !.configs[<<"slot 1", 4>>] = other], force).checksum
                   = done.checksum =>
                       /\ tag = g.tag
                       /\ \/ <<"slot 1", 4>> \in ignored
                          \/ SgBytes(other) = SgBytes(g.configs[<<"slot 1", 4>>])
SgChecksumHolds(g, force) ==
    SgSumHolds(g, force, SgAddChecksum(g, force), IF force THEN {} ELSE g.hash.ignorelist)

SgKeeps(c) ==
    IF DOMAIN c = {"compiled"} THEN SgCompilesWell(c.compiled) ELSE SgChecksumHolds(c.hashed, c.force)
=============================================================================

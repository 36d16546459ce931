----------------------------- MODULE Descriptors -----------------------------
(***************************************************************************)
(* How streams, selectors, slots, nodes and streamers are written, as text *)
(* and as numbers (iotile/sg/stream.py, slot.py, node_descriptor.py,       *)
(* streamer_descriptor.py, streamer.py): a device is sent the numbers,     *)
(* keeps the text and gives numbers back.                                  *)
(*                                                                         *)
(* A stream's type is its code, as in StringToType; a text is a record of  *)
(* its words, a number one of its fields.  What cannot be converted is     *)
(* NULL.                                                                   *)
(***************************************************************************)
EXTENDS None, Naturals, Sequences, FiniteSetsExt

CONSTANTS
    DsIds,         \* the ids of streams that are tried
    DsReferences,  \* the reference values of triggers that are tried
    DsOthers       \* the streamers that are triggered together with another

DsTypes == 0..5     \* buffered, unbuffered, constant, input, counter, output
DsSpecs == {"system", "user", "combined", "breaks"}
DsStreams == [type : DsTypes, id : DsIds, system : BOOLEAN]
DsSelectors == [type : DsTypes, id : DsIds \cup {NULL}, spec : DsSpecs]

\* Bitwise or of numbers of 16 bits.
DsBit(k, n) == (n \div 2^k) % 2
DsOr(a, b) == SumSet({2^k : k \in {j \in 0..15 : DsBit(j, a) = 1 \/ DsBit(j, b) = 1}})

-----------------------------------------------------------------------------
(* DataStream *)

DsEncodeStream(s) == DsOr(DsOr(s.type * 2^12, IF s.system THEN 2^11 ELSE 0), s.id)
DsDecodeStream(n) == [type |-> n \div 2^12, id |-> n % 2^11, system |-> DsBit(11, n) = 1]

\* A stream's text is [all, spec, type, id].
DsStreamText(s) ==
    [all |-> FALSE, spec |-> IF s.system THEN "system" ELSE "", type |-> s.type, id |-> s.id]
DsParseStream(text) ==
    IF text.all \/ text.spec \notin {"", "system"} THEN NULL
    ELSE [type |-> text.type, id |-> text.id, system |-> text.spec = "system"]

-----------------------------------------------------------------------------
(* DataStreamSelector *)

DsBreaks == {1024}     \* KnownBreakStreams
DsMatchAllCode == 2^11 - 1

DsSelectorOf(s) ==
    [type |-> s.type, id |-> s.id, spec |-> IF s.system THEN "system" ELSE "user"]
DsAsStream(sel) ==
    IF sel.id = NULL THEN NULL ELSE [type |-> sel.type, id |-> sel.id, system |-> sel.spec = "system"]

DsMatches(sel, s) ==
    /\ sel.type = s.type
    /\ IF sel.id # NULL THEN sel.id = s.id
       ELSE CASE sel.spec = "user"     -> ~s.system
              [] sel.spec = "system"   -> s.system
              [] sel.spec = "breaks"   -> ~s.system \/ s.id \in DsBreaks
              [] sel.spec = "combined" -> TRUE

DsSpecBits(spec) ==
    (IF spec \in {"system", "combined"} THEN 2^11 ELSE 0)
        + (IF spec \in {"breaks", "combined"} THEN 2^15 ELSE 0)

\* (A wildcard is written as the id 0.)
DsEncodesAllAsZero(sel) ==
    DsOr(DsOr(sel.type * 2^12, DsSpecBits(sel.spec)), IF sel.id = NULL THEN 0 ELSE sel.id)

DsEncodeSelector(sel) ==
    DsOr(DsOr(sel.type * 2^12, DsSpecBits(sel.spec)), IF sel.id = NULL THEN DsMatchAllCode ELSE sel.id)
DsDecodeSelector(n) ==
    [type |-> (n \div 2^12) % 8,
     id |-> IF n % 2^11 = DsMatchAllCode THEN NULL ELSE n % 2^11,
     spec |-> CHOOSE spec \in DsSpecs : DsSpecBits(spec) = 2^11 * DsBit(11, n) + 2^15 * DsBit(15, n)]

DsSelectorText(sel) ==
    IF sel.id # NULL
    THEN [all |-> FALSE, spec |-> IF sel.spec = "system" THEN "system" ELSE "",
          type |-> sel.type, id |-> sel.id]
    ELSE [all |-> TRUE, spec |-> IF sel.spec = "breaks" THEN "" ELSE sel.spec,
          type |-> sel.type, id |-> NULL]
DsParseSelector(text) ==
    IF text.all
    THEN [type |-> text.type, id |-> NULL, spec |-> IF text.spec = "" THEN "breaks" ELSE text.spec]
    ELSE IF DsParseStream(text) = NULL THEN NULL ELSE DsSelectorOf(DsParseStream(text))

-----------------------------------------------------------------------------
(* SlotIdentifier: 0 is the controller. *)

DsSlots == 0..31
DsAddress(slot) == IF slot = 0 THEN 8 ELSE 10 + slot
DsEncodeSlot(slot) == [slot |-> slot, match |-> IF slot = 0 THEN 2 ELSE 1]
DsDecodeSlot(n) ==
    CASE n.match = 2 -> 0
      [] n.match = 1 /\ n.slot \in 1..31 -> n.slot
      [] OTHER -> NULL

-----------------------------------------------------------------------------
(* Descriptors of nodes. *)

DsFunctions == <<"copy_latest_a", "average_a", "copy_all_a", "sum_a", "copy_count_a",
                 "trigger_streamer", "call_rpc", "subtract_afromb">>
DsOps == <<">", "<", ">=", "<=", "==", "always">>
DsCode(names, name) == (CHOOSE n \in DOMAIN names : names[n] = name) - 1

\* A trigger is NULL when its text is "always".
DsEncodeTrigger(t) ==
    IF t = NULL THEN 2 * DsCode(DsOps, "always")
    ELSE 2 * DsCode(DsOps, t.op) + (IF t.source = "count" THEN 1 ELSE 0)
DsDecodeTrigger(reference, condition) ==
    LET op == DsOps[(condition \div 2) + 1]
    IN  IF op = "always" THEN NULL
        ELSE [source |-> IF condition % 2 = 1 THEN "count" ELSE "value", op |-> op,
              reference |-> reference]
DsReference(t) == IF t = NULL THEN 0 ELSE t.reference

\* create_binary_descriptor() of the text of a node; its inputs name single streams.
DsNone == 2^16 - 1
DsEncodeNode(text) ==
    LET Selector(i) == DsEncodeSelector(DsParseSelector(text.inputs[i].selector))
        two == Len(text.inputs) = 2
        second == IF two THEN text.inputs[2].trigger ELSE NULL
    IN  [refA |-> DsReference(text.inputs[1].trigger), refB |-> DsReference(second),
         out |-> DsEncodeStream(DsParseStream(text.out)),
         a |-> Selector(1), b |-> IF two THEN Selector(2) ELSE DsNone,
         func |-> DsCode(DsFunctions, text.func),
         condA |-> DsEncodeTrigger(text.inputs[1].trigger), condB |-> DsEncodeTrigger(second),
         any |-> two /\ text.any]

\* parse_binary_descriptor(): a text.
DsDecodeNode(n) ==
    LET A == [selector |-> DsSelectorText(DsDecodeSelector(n.a)), trigger |-> DsDecodeTrigger(n.refA, n.condA)]
        B == [selector |-> DsSelectorText(DsDecodeSelector(n.b)), trigger |-> DsDecodeTrigger(n.refB, n.condB)]
    IN  [inputs |-> IF n.b = DsNone THEN <<A>> ELSE <<A, B>>,
         any |-> n.b # DsNone /\ n.any,
         out |-> DsStreamText(DsDecodeStream(n.out)),
         func |-> DsFunctions[n.func + 1]]

\* What the grammar of nodes can read: no "all".
DsIsNode(text) == \A i \in DOMAIN text.inputs : ~text.inputs[i].selector.all

-----------------------------------------------------------------------------
(* Descriptors of streamers. *)

DsFormats == <<"individual", "hashedlist", "signedlist_userkey", "signedlist_devicekey">>
DsReportTypes == {"broadcast", "telegram", "synchronous"}

DsDecodeStreamer(n) ==
    [selector |-> DsDecodeSelector(n.selector), dest |-> DsDecodeSlot(n.dest),
     format |-> DsFormats[n.format + 1], report |-> n.report,
     automatic |-> n.trigger = 1,
     other |-> IF n.trigger >= 2^7 THEN n.trigger - 2^7 ELSE NULL]

\* (A streamer triggered with another one is written as automatic.)
DsWithOtherIsAutomatic(s) ==
    [selector |-> DsEncodeSelector(s.selector), dest |-> DsEncodeSlot(s.dest),
     format |-> DsCode(DsFormats, s.format), report |-> s.report,
     trigger |-> IF s.automatic \/ s.other # NULL THEN 1 ELSE 0]

DsEncodeStreamer(s) ==
    [selector |-> DsEncodeSelector(s.selector), dest |-> DsEncodeSlot(s.dest),
     format |-> DsCode(DsFormats, s.format), report |-> s.report,
     trigger |-> IF s.automatic THEN 1
                 ELSE IF s.other # NULL THEN DsOr(2^7, s.other) ELSE 0]

DsStreamerText(s) ==
    [manual |-> ~s.automatic, signed |-> s.format = "signedlist_userkey",
     kind |-> IF s.report = "broadcast" THEN "broadcast"
              ELSE IF s.format = "individual" THEN "realtime" ELSE "",
     selector |-> DsSelectorText(s.selector), to |-> s.dest, other |-> s.other]
DsParseStreamer(text) ==
    IF text.signed /\ text.kind # "" THEN NULL
    ELSE [selector |-> DsParseSelector(text.selector), dest |-> text.to,
          format |-> CASE text.kind # "" -> "individual"
                       [] text.signed -> "signedlist_userkey"
                       [] OTHER -> "hashedlist",
          report |-> IF text.kind = "broadcast" THEN "broadcast" ELSE "telegram",
          automatic |-> ~text.manual /\ text.other = NULL, other |-> text.other]

-----------------------------------------------------------------------------
(* The conversions, one after the other. *)

DsTriggers == [source : {"value", "count"}, op : {">", "=="}, reference : DsReferences] \cup {NULL}
DsInputs(streams) == [selector : {DsSelectorText(DsSelectorOf(s)) : s \in streams}, trigger : DsTriggers]
DsDestinations == {0, 1, 31}

DsCases ==
    [kind : {"stream"}, value : DsStreams]
        \cup [kind : {"selector"}, value : DsSelectors]
        \cup [kind : {"slot"}, value : DsSlots]
        \cup {[kind |-> "node",
               value |-> [inputs |-> IF b = NULL THEN <<a>> ELSE <<a, b>>, any |-> b # NULL,
                          out |-> DsStreamText(s), func |-> "call_rpc"]] :
                 a \in DsInputs({s \in DsStreams : s.type \in {0, 3}}),
                 b \in {NULL} \cup DsInputs({s \in DsStreams : s.type = 2 /\ ~s.system}),
                 s \in {t \in DsStreams : t.type = 5 /\ t.system}}
        \cup {[kind |-> "streamer",
               value |-> [selector |-> sel, dest |-> dest, format |-> format, report |-> report,
                          automatic |-> auto, other |-> IF auto THEN NULL ELSE other]] :
                 sel \in DsSelectors, dest \in DsDestinations,
                 format \in {DsFormats[n] : n \in DOMAIN DsFormats}, report \in DsReportTypes,
                 auto \in BOOLEAN, other \in DsOthers \cup {NULL}}

-----------------------------------------------------------------------------
(* Properties. *)

\* (DataStream.encode, FromEncoded, FromString.)  A stream is what it was, as long as its id
\* has 11 bits; a larger one makes another stream of it, of the system perhaps.
DsStreamIsKept(s) ==
    /\ DsParseStream(DsStreamText(s)) = s
    /\ DsDecodeStream(DsEncodeStream(s)) = s <=> s.id < 2^11

\* (DataStreamSelector.)  A selector is what it was as a number, unless its id looks like
\* the wildcard, and as a text, when that can tell it; what is made from a stream matches it.
DsSelectorIsKept(sel) ==
    /\ (sel.id = NULL \/ sel.id < DsMatchAllCode) => DsDecodeSelector(DsEncodeSelector(sel)) = sel
    /\ DsParseSelector(DsSelectorText(sel)) = sel <=> (sel.id = NULL \/ sel.spec \in {"system", "user"})
    /\ sel.id # NULL => DsMatches(DsSelectorOf(DsAsStream(sel)), DsAsStream(sel))
    /\ sel.id = NULL => \A s \in DsStreams : DsMatches(sel, s) =>
            \A wider \in {w \in DsSpecs : w = "combined" \/ (sel.spec = "user" /\ w = "breaks")} :
                DsMatches([sel EXCEPT !.spec = wider], s)

\* (create_binary_descriptor of nodes: "composing the two operations is a noop".)  A node
\* is inspected as it was added, as long as its streams have ids of less than the wildcard.
DsNodeIsKept(text) ==
    LET ids == {text.inputs[i].selector.id : i \in DOMAIN text.inputs} \cup {text.out.id}
        again == DsDecodeNode(DsEncodeNode(text))
    IN  (\A id \in ids : id < DsMatchAllCode) => DsIsNode(again) /\ again = text

\* (SensorGraphSubsystem.add_streamer, persist, clear_to_reset, inspect_streamer.)  A streamer
\* is what it was after it has been sent as a number, persisted as a text, loaded and
\* inspected, when the language of streamers can tell it.
DsHasText(s) ==
    /\ s.selector.id = NULL \/ s.selector.spec \in {"system", "user"}
    /\ \/ s.report = "telegram" /\ s.format # "signedlist_devicekey"
       \/ s.report = "broadcast" /\ s.format = "individual"
DsStreamerIsKept(s) ==
    (/\ s.selector.id = NULL \/ s.selector.id < DsMatchAllCode
     /\ s.other = NULL \/ s.other < 2^7) =>
        LET sent == DsDecodeStreamer(DsEncodeStreamer(s))
            loaded == DsParseStreamer(DsStreamerText(sent))
        IN  /\ sent = s
            /\ DsHasText(s) => loaded = s /\ DsDecodeStreamer(DsEncodeStreamer(loaded)) = s

DsSlotIsKept(slot) ==
    /\ DsDecodeSlot(DsEncodeSlot(slot)) = slot
    /\ \A other \in DsSlots : DsAddress(other) = DsAddress(slot) => other = slot

\* What is written and read back is what it was, wherever its form can hold it.
DescriptorIsKept(c) ==
    CASE c.kind = "stream"   -> DsStreamIsKept(c.value)
      [] c.kind = "selector" -> DsSelectorIsKept(c.value)
      [] c.kind = "slot"     -> DsSlotIsKept(c.value)
      [] c.kind = "node"     -> DsNodeIsKept(c.value)
      [] c.kind = "streamer" -> DsStreamerIsKept(c.value)
=============================================================================

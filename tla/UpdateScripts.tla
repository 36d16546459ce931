---------------------------- MODULE UpdateScripts ----------------------------
(***************************************************************************)
(* Update scripts (iotile/core/hw/update, iotile/sg/update): a script is a *)
(* list of operations; it is sent as binary records, mostly RPCs, and read *)
(* back into the operations that made them.  Several classes may claim a   *)
(* record; one of them stands for many records at once.                    *)
(*                                                                         *)
(* A binary record is its type and the fields of its contents: for an RPC  *)
(* its command, address, response length and payload.  Lengths, magic and  *)
(* hash agree with what encode() makes; RPC numbers are names.             *)
(***************************************************************************)
EXTENDS None, Integers, FiniteSets, Sequences, SequencesExt

CONSTANTS
    UsTagBits,    \* the bits of a tag, twenty in the code
    UsChunk,      \* how many bytes one RPC of a config variable takes
    UsBytes,      \* the bytes that are tried
    UsNumbers,    \* the offsets, slots and values that are tried
    UsTags,       \* the tags that are tried
    UsVersions    \* the major and minor versions that are tried

\* An operation: its class, the address of its RPC, and its arguments.
UsOp(class, address, args) == [class |-> class, address |-> address, args |-> args]

\* What is raised instead of an operation.
UsErrors == {"ArgumentError", "DataError", "struct.error"}
UsRaise(error) == UsOp(error, 0, NULL)

\* A binary record.
UsRaw(type, cmd, address, resp, payload) ==
    [type |-> type, cmd |-> cmd, address |-> address, resp |-> resp, payload |-> payload]
UsErrorRpc(cmd, address, payload) == UsRaw(4, cmd, address, 8, payload)

-----------------------------------------------------------------------------
(* Tags and versions: six bits of major, six of minor, UsTagBits of tag. *)

UsCombineInfo(info) ==
    IF info.tag < 2^UsTagBits /\ info.major \in 0..63 /\ info.minor \in 0..63
    THEN ((info.major * 2^6 + info.minor) * 2^UsTagBits) + info.tag
    ELSE NULL
UsParseInfo(n) ==
    [tag |-> n % 2^UsTagBits, major |-> (n \div 2^(UsTagBits + 6)) % 2^6, minor |-> (n \div 2^UsTagBits) % 2^6]
UsNoInfo == [tag |-> 0, major |-> 0, minor |-> 0]

-----------------------------------------------------------------------------
(* Records *)

\* The response length of an RPC: one bit for a variable size, seven for a fixed one.
UsResponse(size) == IF size = NULL THEN 1 ELSE size * 2
UsSize(resp) == IF resp % 2 = 1 THEN NULL ELSE resp \div 2

UsTarget(slot) == <<slot, 1>>          \* 1 is kTBMatchBySlot
UsParseTarget(target) ==
    CASE target[2] = 2 -> [controller |-> TRUE, slot |-> 0]
      [] target[2] = 1 -> [controller |-> FALSE, slot |-> target[1]]
      [] OTHER         -> NULL

UsPushesWholeChunks(data) ==
    [i \in 1..Len(data) \div UsChunk |->
        UsErrorRpc("push_config", 8, SubSeq(data, (i - 1) * UsChunk + 1, i * UsChunk))]
UsPushes(data) ==
    LET chunks == (Len(data) + UsChunk - 1) \div UsChunk
        End(i) == IF i * UsChunk < Len(data) THEN i * UsChunk ELSE Len(data)
    IN  [i \in 1..chunks |->
            UsErrorRpc("push_config", 8, SubSeq(data, (i - 1) * UsChunk + 1, End(i)))]

\* Which operation, address and arguments a record stands for, how well its class matches
\* the records accumulated so far, and what it makes of them, class by class.
NoMatch == 0
GenericMatch == 50
PerfectMatch == 100
DeferMatch == 1000

UsOnly(raws, quality) == IF Len(raws) > 1 THEN NoMatch ELSE quality
UsCalls(raws, cmd) == UsOnly(raws, IF raws[1].cmd = cmd THEN PerfectMatch ELSE NoMatch)
\* struct.unpack of a payload of so many fields.
UsUnpacks(raw, fields) == Len(raw.payload) = fields

\* ReflashTileRecord
UsTileRaw(op) ==
    UsRaw(1, "", 0, 0, <<op.args.offset, UsTarget(op.args.slot), op.args.hw, op.args.data>>)
UsTileQuality(raws) == UsOnly(raws, GenericMatch)
UsTileOp(raw) ==
    LET target == UsParseTarget(raw.payload[2])
    IN  IF target = NULL THEN UsRaise("ArgumentError")
        ELSE IF target.controller THEN UsRaise("ArgumentError")
        ELSE UsOp("ReflashTile", 0, [offset |-> raw.payload[1], slot |-> target.slot,
                                     hw |-> raw.payload[3], data |-> raw.payload[4]])

\* ReflashControllerRecord
UsControllerRaw(op) == UsRaw(2, "", 0, 0, <<op.args.offset, op.args.data>>)
UsControllerQuality(raws) == UsOnly(raws, GenericMatch)
UsControllerOp(raw) ==
    UsOp("ReflashController", 0, [offset |-> raw.payload[1], data |-> raw.payload[2]])

\* EnhancedReflashControllerRecord; its settings are one field here.
UsEnhancedRaw(op) == UsRaw(6, "", 0, 0, <<op.args.base, op.args.data, op.args.settings>>)
UsEnhancedQuality(raws) == UsOnly(raws, GenericMatch)
UsEnhancedOp(raw) ==
    UsOp("EnhancedReflashController", 0,
         [base |-> raw.payload[1], data |-> raw.payload[2], settings |-> raw.payload[3]])

\* ResetDeviceRecord
UsResetRaw(op) == UsRaw(5, "", 0, 0, <<>>)
UsResetQuality(raws) == UsOnly(raws, PerfectMatch)
UsResetOp(raw) ==
    IF raw.payload # <<>> THEN UsRaise("ArgumentError") ELSE UsOp("ResetDevice", 0, NULL)

\* SendRPCRecord
UsSendRaw(op) == UsRaw(3, op.args.cmd, op.address, UsResponse(op.args.size), op.args.payload)
UsSendQuality(raws) == UsOnly(raws, GenericMatch)
UsSendOp(raw) ==
    UsOp("SendRPC", raw.address,
         [cmd |-> raw.cmd, size |-> UsSize(raw.resp), payload |-> raw.payload])

\* SendErrorCheckingRPCRecord: the response is an error code of four bytes.
UsCheckedRaw(op) == UsErrorRpc(op.args.cmd, op.address, op.args.payload)
UsCheckedOp(raw) ==
    IF UsSize(raw.resp) # 4 THEN UsRaise("ArgumentError")
    ELSE UsOp("SendErrorCheckingRPC", raw.address, [cmd |-> raw.cmd, payload |-> raw.payload])

\* UnknownRecord
UsUnknownRaw(op) == UsRaw(op.args.type, "", 0, 0, op.args.payload)

\* SetDeviceTagRecord: always sent to the controller, whatever the address was.
UsTagRaw(op) ==
    UsErrorRpc("set_tag", 8,
        <<UsCombineInfo(IF op.args.os = NULL THEN UsNoInfo ELSE op.args.os),
          UsCombineInfo(IF op.args.app = NULL THEN UsNoInfo ELSE op.args.app),
          IF op.args.os = NULL THEN 0 ELSE 1, IF op.args.app = NULL THEN 0 ELSE 1>>)
\* Its MatchQuality() unpacks the payload as well, and what that raises goes through.
UsTagRaises(raws) == Len(raws) = 1 /\ raws[1].cmd = "set_tag" /\ ~UsUnpacks(raws[1], 4)
UsTagQuality(raws) == UsCalls(raws, "set_tag")
UsTagOp(raw) ==
    LET os == IF raw.payload[3] = 0 THEN NULL ELSE UsParseInfo(raw.payload[1])
        app == IF raw.payload[4] = 0 THEN NULL ELSE UsParseInfo(raw.payload[2])
    IN  IF os = NULL /\ app = NULL THEN UsRaise("ArgumentError")
        ELSE UsOp("SetDeviceTag", 8, [os |-> os, app |-> app])

\* AddNodeRecord and AddStreamerRecord
UsNodeRaw(op) == UsErrorRpc("add_node", op.address, <<op.args.descriptor>>)
UsNodeQuality(raws) == UsCalls(raws, "add_node")
UsNodeOp(raw) == UsOp("AddNode", raw.address, [descriptor |-> raw.payload[1]])

UsStreamerRaw(op) == UsErrorRpc("add_streamer", op.address, <<op.args.descriptor>>)
UsStreamerQuality(raws) == UsCalls(raws, "add_streamer")
UsStreamerOp(raw) == UsOp("AddStreamer", raw.address, [descriptor |-> raw.payload[1]])

\* SetGraphOnlineRecord
UsOnlineRaw(op) == UsErrorRpc("set_online", op.address, <<IF op.args.online THEN 1 ELSE 0>>)
UsOnlineQuality(raws) == UsCalls(raws, "set_online")
UsOnlineOp(raw) ==
    IF ~UsUnpacks(raw, 1) THEN UsRaise("struct.error")
    ELSE UsOp("SetGraphOnline", raw.address, [online |-> raw.payload[1] # 0])

\* SetConstantRecord
UsConstantRaw(op) == UsErrorRpc("set_constant", op.address, <<op.args.value, op.args.stream>>)
UsConstantQuality(raws) == UsCalls(raws, "set_constant")
UsConstantOp(raw) ==
    IF ~UsUnpacks(raw, 2) THEN UsRaise("struct.error")
    ELSE UsOp("SetConstant", raw.address, [value |-> raw.payload[1], stream |-> raw.payload[2]])

\* ClearDataRecord, ResetGraphRecord, PersistGraphRecord and ClearConfigVariablesRecord
UsClearDataRaw(op) == UsErrorRpc("clear_data", op.address, <<>>)
UsClearDataQuality(raws) == UsCalls(raws, "clear_data")
UsClearDataOp(raw) == UsOp("ClearData", raw.address, NULL)

UsResetGraphRaw(op) == UsErrorRpc("reset_graph", op.address, <<>>)
UsResetGraphQuality(raws) == UsCalls(raws, "reset_graph")
UsResetGraphOp(raw) == UsOp("ResetGraph", raw.address, NULL)

UsPersistRaw(op) == UsErrorRpc("persist_graph", op.address, <<>>)
UsPersistQuality(raws) == UsCalls(raws, "persist_graph")
UsPersistOp(raw) == UsOp("PersistGraph", raw.address, NULL)

UsClearConfigsRaw(op) == UsErrorRpc("clear_configs", 8, <<>>)
UsClearConfigsQuality(raws) == UsCalls(raws, "clear_configs")
UsClearConfigsOp(raw) ==
    IF raw.address # 8 THEN UsRaise("ArgumentError") ELSE UsOp("ClearConfigVariables", 8, NULL)

\* SetConfigRecord: a config variable is begun, pushed and ended by RPCs to the controller.
\* Until the end comes, all that is known of the last record is that it is not the end.
UsConfigRaws(op) ==
    <<UsErrorRpc("begin_config", 8, <<op.args.id, op.args.target>>)>>
    \o UsPushes(op.args.data)
    \o <<UsErrorRpc("end_config", 8, <<>>)>>

UsConfigQualityOfAnyEnd(raws) ==
    LET last == raws[Len(raws)] IN
    IF Len(raws) = 1 THEN IF last.cmd = "begin_config" /\ last.address = 8 THEN DeferMatch ELSE NoMatch
    ELSE IF \E i \in DOMAIN raws : raws[i].type # 4 THEN NoMatch
    ELSE IF last.cmd = "end_config" /\ last.address = 8 THEN PerfectMatch
    ELSE DeferMatch
UsConfigQuality(raws) ==
    LET last == raws[Len(raws)]
        Is(raw, cmd) == raw.cmd = cmd /\ raw.address = 8
    IN  IF Len(raws) = 1 THEN IF Is(last, "begin_config") THEN DeferMatch ELSE NoMatch
        ELSE IF \E i \in DOMAIN raws : raws[i].type # 4 THEN NoMatch
        ELSE IF \E i \in 2..Len(raws) - 1 : ~Is(raws[i], "push_config") THEN NoMatch
        ELSE IF Is(last, "end_config") THEN PerfectMatch
        ELSE DeferMatch

UsConfigOp(raws) ==
    UsOp("SetConfig", 8,
         [id |-> raws[1].payload[1], target |-> raws[1].payload[2],
          data |-> FlattenSeq([i \in 1..Len(raws) - 2 |-> raws[i + 1].payload])])

-----------------------------------------------------------------------------
(* All classes. *)

UsEncodeOp(op) ==
    CASE op.class = "SetConfig"                 -> UsConfigRaws(op)
      [] op.class = "ReflashTile"               -> <<UsTileRaw(op)>>
      [] op.class = "ReflashController"         -> <<UsControllerRaw(op)>>
      [] op.class = "EnhancedReflashController" -> <<UsEnhancedRaw(op)>>
      [] op.class = "ResetDevice"               -> <<UsResetRaw(op)>>
      [] op.class = "SendRPC"                   -> <<UsSendRaw(op)>>
      [] op.class = "SendErrorCheckingRPC"      -> <<UsCheckedRaw(op)>>
      [] op.class = "Unknown"                   -> <<UsUnknownRaw(op)>>
      [] op.class = "SetDeviceTag"              -> <<UsTagRaw(op)>>
      [] op.class = "AddNode"                   -> <<UsNodeRaw(op)>>
      [] op.class = "AddStreamer"               -> <<UsStreamerRaw(op)>>
      [] op.class = "SetGraphOnline"            -> <<UsOnlineRaw(op)>>
      [] op.class = "SetConstant"               -> <<UsConstantRaw(op)>>
      [] op.class = "ClearData"                 -> <<UsClearDataRaw(op)>>
      [] op.class = "ResetGraph"                -> <<UsResetGraphRaw(op)>>
      [] op.class = "PersistGraph"              -> <<UsPersistRaw(op)>>
      [] op.class = "ClearConfigVariables"      -> <<UsClearConfigsRaw(op)>>

\* UpdateScript.encode()
UsEncode(ops) == FlattenSeq([i \in DOMAIN ops |-> UsEncodeOp(ops[i])])

\* UpdateRecord.KNOWN_CLASSES, by the type of the first record.
UsKnownClasses(type) ==
    CASE type = 1 -> {"ReflashTile"}
      [] type = 2 -> {"ReflashController"}
      [] type = 3 -> {"SendRPC"}
      [] type = 4 -> {"SendErrorCheckingRPC", "SetDeviceTag", "AddNode", "AddStreamer", "SetConfig",
                      "PersistGraph", "ResetGraph", "ClearData", "ClearConfigVariables",
                      "SetGraphOnline", "SetConstant"}
      [] type = 5 -> {"ResetDevice"}
      [] type = 6 -> {"EnhancedReflashController"}
      [] OTHER    -> {}

UsQuality(class, raws) ==
    CASE class = "SetConfig"                 -> UsConfigQuality(raws)
      [] class = "ReflashTile"               -> UsTileQuality(raws)
      [] class = "ReflashController"         -> UsControllerQuality(raws)
      [] class = "EnhancedReflashController" -> UsEnhancedQuality(raws)
      [] class = "ResetDevice"               -> UsResetQuality(raws)
      [] class \in {"SendRPC", "SendErrorCheckingRPC"} -> UsSendQuality(raws)
      [] class = "SetDeviceTag"              -> UsTagQuality(raws)
      [] class = "AddNode"                   -> UsNodeQuality(raws)
      [] class = "AddStreamer"               -> UsStreamerQuality(raws)
      [] class = "SetGraphOnline"            -> UsOnlineQuality(raws)
      [] class = "SetConstant"               -> UsConstantQuality(raws)
      [] class = "ClearData"                 -> UsClearDataQuality(raws)
      [] class = "ResetGraph"                -> UsResetGraphQuality(raws)
      [] class = "PersistGraph"              -> UsPersistQuality(raws)
      [] class = "ClearConfigVariables"      -> UsClearConfigsQuality(raws)

UsDecode(class, raws) ==
    LET raw == raws[1] IN
    CASE class = "SetConfig"                 -> UsConfigOp(raws)
      [] class = "ReflashTile"               -> UsTileOp(raw)
      [] class = "ReflashController"         -> UsControllerOp(raw)
      [] class = "EnhancedReflashController" -> UsEnhancedOp(raw)
      [] class = "ResetDevice"               -> UsResetOp(raw)
      [] class = "SendRPC"                   -> UsSendOp(raw)
      [] class = "SendErrorCheckingRPC"      -> UsCheckedOp(raw)
      [] class = "SetDeviceTag"              -> UsTagOp(raw)
      [] class = "AddNode"                   -> UsNodeOp(raw)
      [] class = "AddStreamer"               -> UsStreamerOp(raw)
      [] class = "SetGraphOnline"            -> UsOnlineOp(raw)
      [] class = "SetConstant"               -> UsConstantOp(raw)
      [] class = "ClearData"                 -> UsClearDataOp(raw)
      [] class = "ResetGraph"                -> UsResetGraphOp(raw)
      [] class = "PersistGraph"              -> UsPersistOp(raw)
      [] class = "ClearConfigVariables"      -> UsClearConfigsOp(raw)

\* UpdateRecord.FromBinary(): the class that matches best decodes the records, and the
\* best may be to wait for more ("DeferMatching").
UsFromBinary(raws) ==
    LET classes == UsKnownClasses(raws[1].type)
        best == CHOOSE q \in {UsQuality(c, raws) : c \in classes} :
                    \A c \in classes : UsQuality(c, raws) <= q
        class == CHOOSE c \in classes : UsQuality(c, raws) = best
    IN  IF classes = {} THEN UsRaise("DataError")
        ELSE IF "SetDeviceTag" \in classes /\ UsTagRaises(raws) THEN UsRaise("struct.error")
        ELSE IF best = DeferMatch THEN UsRaise("DeferMatching")
        ELSE IF best = NoMatch THEN UsRaise("DataError")
        ELSE UsDecode(class, raws)

\* UpdateScript.FromBinary(): one record more.
UsReadOne(s, raw, unknown, rpcs) ==
    LET held == Append(s.held, raw)
        read == IF rpcs /\ raw.type = 3 THEN UsDecode("SendRPC", <<raw>>)
                ELSE IF rpcs /\ raw.type = 4 THEN UsDecode("SendErrorCheckingRPC", <<raw>>)
                ELSE UsFromBinary(held)
        Done(op) == [s EXCEPT !.ops = Append(@, op), !.held = <<>>]
        Fail(error) == [s EXCEPT !.error = error]
    IN  CASE s.error # NULL -> s
          [] s.error = NULL /\ read.class = "DeferMatching" -> [s EXCEPT !.held = held]
          [] s.error = NULL /\ read.class = "DataError" ->
               IF ~unknown THEN Fail("DataError")
               ELSE IF Len(held) > 1 THEN Fail("ArgumentError")
               ELSE Done(UsOp("Unknown", 0, [type |-> raw.type, payload |-> raw.payload]))
          [] s.error = NULL /\ read.class \in UsErrors \ {"DataError"} -> Fail(read.class)
          [] OTHER -> Done(read)

UsRead(raws, unknown, rpcs) ==
    FoldLeft(LAMBDA s, raw : UsReadOne(s, raw, unknown, rpcs),
             [ops |-> <<>>, held |-> <<>>, error |-> NULL], raws)

-----------------------------------------------------------------------------
(* format_script(): the script that puts a compiled sensor graph on a device. *)

UsSorted(S, Less(_, _)) == SetToSortSeq(S, Less)

UsFormat(graph) ==
    LET Op(class, args) == UsOp(class, 8, args)
        Each(s, F(_)) == [i \in DOMAIN s |-> F(s[i])]
        constants == UsSorted(graph.constants, LAMBDA a, b : a.stream < b.stream)
        configs == UsSorted(graph.configs, LAMBDA a, b :
                       a.target < b.target \/ (a.target = b.target /\ a.id < b.id))
    IN  <<Op("SetGraphOnline", [online |-> FALSE]), Op("ClearData", NULL), Op("ResetGraph", NULL)>>
        \o Each(graph.nodes, LAMBDA n : Op("AddNode", [descriptor |-> n]))
        \o Each(graph.streamers, LAMBDA s : Op("AddStreamer", [descriptor |-> s]))
        \o Each(constants, LAMBDA c : Op("SetConstant", c))
        \o <<Op("PersistGraph", NULL), Op("ClearConfigVariables", NULL)>>
        \o Each(configs, LAMBDA c : Op("SetConfig", c))
        \o (IF graph.app = NULL THEN <<>> ELSE <<Op("SetDeviceTag", [os |-> NULL, app |-> graph.app])>>)

\* _convert_to_bytes(): a value of so many bytes, lowest first; NULL if it does not fit.
UsConfigTypes == [signed : BOOLEAN, bytes : {1, 2}]
UsConfigBytes(type, value) ==
    LET range == 256^type.bytes
        n == IF value < 0 THEN value + range ELSE value
    IN  IF \/ type.signed /\ value \notin -(range \div 2)..(range \div 2) - 1
           \/ ~type.signed /\ value \notin 0..range - 1
        THEN NULL
        ELSE [i \in 1..type.bytes |-> (n \div 256^(i - 1)) % 256]

-----------------------------------------------------------------------------
(* What a device makes of the operations of a script that compiles a graph. *)

UsRunOne(device, op) ==
    CASE op.class = "SetGraphOnline" -> [device EXCEPT !.online = op.args.online]
      [] op.class = "ResetGraph" -> [device EXCEPT !.nodes = <<>>, !.streamers = <<>>, !.saved = NULL]
      [] op.class = "AddNode" -> [device EXCEPT !.nodes = Append(@, op.args.descriptor)]
      [] op.class = "AddStreamer" -> [device EXCEPT !.streamers = Append(@, op.args.descriptor)]
      [] op.class = "SetConstant" ->
           [device EXCEPT !.constants = {c \in @ : c.stream # op.args.stream} \cup {op.args}]
      [] op.class = "PersistGraph" ->
           [device EXCEPT !.saved = [nodes |-> device.nodes, streamers |-> device.streamers,
                                     constants |-> device.constants]]
      [] op.class = "ClearConfigVariables" -> [device EXCEPT !.configs = {}]
      [] op.class = "SetConfig" -> [device EXCEPT !.configs = @ \cup {op.args}]
      [] op.class = "SetDeviceTag" ->
           [device EXCEPT !.app = IF op.args.app = NULL THEN @ ELSE op.args.app]
      [] OTHER -> device

\* A device that runs the script a graph is formatted to has saved that graph and no other,
\* whatever it had before; it keeps older constants that the graph does not set.
UsInstalls(device, graph) ==
    LET read == UsRead(UsEncode(UsFormat(graph)), FALSE, FALSE)
        then == FoldLeft(UsRunOne, device, read.ops)
    IN  /\ read.error = NULL /\ read.held = <<>>
        /\ ~then.online
        /\ then.saved # NULL
        /\ then.saved.nodes = graph.nodes /\ then.saved.streamers = graph.streamers
        /\ graph.constants \subseteq then.saved.constants
        /\ \A c \in then.saved.constants \ graph.constants :
              c \in device.constants /\ \A d \in graph.constants : d.stream # c.stream
        /\ then.configs = graph.configs
        /\ then.app = IF graph.app = NULL THEN device.app ELSE graph.app

-----------------------------------------------------------------------------
(* The cases. *)

UsInfos == [tag : UsTags, major : UsVersions, minor : UsVersions]
UsConfigData == UNION {[1..n -> UsBytes] : n \in 0..2 * UsChunk + 1}
UsSomeOps ==
    {UsOp("ReflashTile", 0, [offset |-> n, slot |-> m, hw |-> 0, data |-> "image"]) :
        n \in UsNumbers, m \in UsNumbers}
    \cup {UsOp("ReflashController", 0, [offset |-> n, data |-> "image"]) : n \in UsNumbers}
    \cup {UsOp("EnhancedReflashController", 0, [base |-> n, data |-> "image", settings |-> "none"]) :
             n \in UsNumbers}
    \cup {UsOp("ResetDevice", 0, NULL), UsOp("ClearConfigVariables", 8, NULL)}
    \cup {UsOp("SendRPC", a, [cmd |-> c, size |-> n, payload |-> <<>>]) :
             a \in {8, 9}, c \in {"other", "begin_config"}, n \in {NULL, 0, 4, 127}}
    \cup {UsOp("SendErrorCheckingRPC", a, [cmd |-> c, payload |-> <<>>]) :
             a \in {8, 9}, c \in {"other", "push_config", "end_config"}}
    \cup {UsOp(c, a, NULL) : c \in {"ClearData", "ResetGraph", "PersistGraph"}, a \in {8, 9}}
    \cup {UsOp(c, a, [descriptor |-> n]) : c \in {"AddNode", "AddStreamer"}, a \in {8, 9}, n \in UsNumbers}
    \cup {UsOp("SetGraphOnline", a, [online |-> b]) : a \in {8, 9}, b \in BOOLEAN}
    \cup {UsOp("SetConstant", a, [value |-> n, stream |-> m]) : a \in {8, 9}, n \in UsNumbers, m \in UsNumbers}
UsUnknownOp == UsOp("Unknown", 0, [type |-> 128, payload |-> <<>>])
UsSomeConfigs == {UsOp("SetConfig", 8, [id |-> 1, target |-> 2, data |-> d]) : d \in UsConfigData}
UsSomeTags ==
    {UsOp("SetDeviceTag", 8, [os |-> o, app |-> a]) :
        o \in {NULL, [tag |-> 1, major |-> 0, minor |-> 3]}, a \in UsInfos}
    \cup {UsOp("SetDeviceTag", 8, [os |-> o, app |-> NULL]) : o \in UsInfos}

UsSomeRaws ==
    {UsErrorRpc("begin_config", a, <<1, 2>>) : a \in {8, 9}}
    \cup {UsErrorRpc(c, a, <<>>) : c \in {"end_config", "other"}, a \in {8, 9}}
    \cup {UsErrorRpc("push_config", a, [i \in 1..UsChunk |-> 0]) : a \in {8, 9}}
    \cup {UsRaw(3, "push_config", 8, 1, <<>>), UsRaw(128, "", 0, 0, <<>>)}

UsGraphs ==
    [nodes : {<<>>, <<2, 1>>}, streamers : {<<>>, <<1>>},
     constants : {{}, {[stream |-> 2, value |-> 0], [stream |-> 1, value |-> 1]}},
     configs : {{}, {[id |-> 1, target |-> 2, data |-> <<0, 1, 2>>], [id |-> 2, target |-> 1, data |-> <<>>]}},
     app : {NULL, [tag |-> 1, major |-> 2, minor |-> 3]}]
UsDevices ==
    [online : BOOLEAN, nodes : {<<1>>}, streamers : {<<2>>},
     constants : {{}, {[stream |-> 1, value |-> 2], [stream |-> 3, value |-> 0]}},
     configs : {{}, {[id |-> 1, target |-> 2, data |-> <<2>>]}}, saved : {NULL},
     app : {[tag |-> 0, major |-> 0, minor |-> 0]}]

UsCases ==
    [kind : {"ops"},
     ops : {<<a, b>> : a \in UsSomeOps, b \in UsSomeOps \cup {UsUnknownOp}}
        \cup {<<a, b, UsOp("ResetDevice", 0, NULL)>> :
                  a \in UsSomeConfigs, b \in {c \in UsSomeConfigs : Len(c.args.data) < 2}}
        \cup {<<a>> : a \in UsSomeTags}]
    \cup [kind : {"raws"}, raws : UNION {[1..n -> UsSomeRaws] : n \in 1..4}]
    \cup [kind : {"graph"}, graph : UsGraphs, device : UsDevices]
    \cup [kind : {"bytes"}, type : UsConfigTypes, 
                        value : {-32769, -32768, -129, -128, -1, 0, 127, 128, 255, 256,
                                 32767, 32768, 65535, 65536}]

\* Every variable that is begun is pushed and ended, with nothing else in between.
UsClosed(raws) ==
    \A i \in DOMAIN raws :
        (raws[i].cmd = "begin_config" /\ raws[i].address = 8 /\ raws[i].type = 4) =>
            \E j \in i + 1..Len(raws) :
                /\ raws[j] = UsErrorRpc("end_config", 8, <<>>)
                /\ \A k \in i + 1..j - 1 :
                      raws[k].cmd = "push_config" /\ raws[k].address = 8 /\ raws[k].type = 4

\* A tag or a version that does not fit makes the constructor raise.
UsIsOp(op) ==
    op.class = "SetDeviceTag" =>
        \A info \in {op.args.os, op.args.app} \ {NULL} : UsCombineInfo(info) # NULL

\* A script is read as the operations it was made of, and is refused for one that is not
\* known if so asked.  One that was made of bare RPCs is read as a script that is written
\* as the same RPCs, provided it ends every config variable it begins; of one that breaks
\* off, what is held is lost.
UsKeeps(c) ==
    CASE c.kind = "ops" ->
           (\A i \in DOMAIN c.ops : UsIsOp(c.ops[i])) =>
               LET read == UsRead(UsEncode(c.ops), TRUE, FALSE)
               IN  /\ read = [ops |-> c.ops, held |-> <<>>, error |-> NULL]
                   /\ \/ UsRead(UsEncode(c.ops), FALSE, FALSE) = read
                      \/ UsUnknownOp \in ToSet(c.ops)
                         /\ UsRead(UsEncode(c.ops), FALSE, FALSE).error = "DataError"
      [] c.kind = "raws" ->
           LET read == UsRead(c.raws, TRUE, FALSE)
               rpcs == UsRead(c.raws, TRUE, TRUE)
           IN  /\ UsClosed(c.raws) <=> (read.error = NULL /\ read.held = <<>>)
               /\ read.error = NULL => UsEncode(read.ops) \o read.held = c.raws
               /\ rpcs.error = NULL /\ UsEncode(rpcs.ops) = c.raws
      [] c.kind = "graph" -> UsInstalls(c.device, c.graph)
      [] c.kind = "bytes" ->
           LET b == UsConfigBytes(c.type, c.value)
               n == IF b = NULL THEN 0 ELSE FoldRight(LAMBDA x, r : x + 256 * r, b, 0)
           IN  b # NULL => n = IF c.value < 0 THEN c.value + 256^c.type.bytes ELSE c.value
=============================================================================

------------------------------ MODULE Controller ------------------------------
(***************************************************************************)
(* The small subsystems of the emulated controller: its clock and timers   *)
(* (controller_features/clock_manager.py), the bridge that receives update *)
(* scripts (remote_bridge.py), the config variables that a tile latches    *)
(* when it starts (virtual/emulated_tile.py) and its version tags          *)
(* (reference_controller.py); through resets, and while the state of the   *)
(* device is saved and loaded.                                             *)
(*                                                                         *)
(* Of the timers there are the one that never changes, "normal", and one   *)
(* that users set; of the config variables the one that sets it.           *)
(***************************************************************************)
EXTENDS None, Integers, Sequences, SequencesExt, FiniteSetsExt

CONSTANTS
    CtNormal,       \* the interval of the normal tick, 10
    CtIntervals,    \* the intervals that users set; 0 stops the timer
    CtTimes,        \* the UTC times that the clock is synchronized to
    CtGoodScripts,  \* scripts that can be parsed
    CtBadScripts,   \* and ones that cannot
    CtHasRTC,       \* what has_rtc may be; FALSE in a ReferenceController
    CtTorn,         \* what a save that failed leaves
    CtMaxUptime,    \* bound on the seconds that pass between two resets
    CtMaxResets,    \* bound on the resets
    CtMaxCalls      \* bound on the calls that set the clock, the timer or the variable

VARIABLES
    ctPhase,     \* how far a reset is
    ctClock,     \* uptime, time_offset, is_utc, stored_offset, has_rtc
    ctTicks,     \* ticks
    ctCounters,  \* tick_counters
    ctValue,     \* the current value of the config variable user_tick_1
    ctStored,    \* its entry in the config database, or NULL
    ctBridge,    \* status, error, parsed_script, and whether there is a script_error
    ctScript,    \* script of the device
    ctSaved,     \* what save_state() left: NULL, a state, or CtTorn
    ctCount,     \* how many resets and calls there have been
    ctTrue,      \* the time it is, once the clock was synchronized, and the resets since
    ctQuiet,     \* the seconds since a timer was heard, or started, or set
    ctSkipped,   \* the timers that were set to less than they have counted
    ctDirect,    \* the timer or the variable was set by hand, or loaded, since the reset
    ctSent       \* the scripts that were sent since begin_script

ctVars == <<ctPhase, ctClock, ctTicks, ctCounters, ctValue, ctStored, ctBridge, ctScript,
            ctSaved, ctCount, ctTrue, ctQuiet, ctSkipped, ctDirect, ctSent>>
ctTimers == <<ctTicks, ctCounters, ctQuiet, ctSkipped>>
ctTime == <<ctClock, ctTrue>>
ctConfig == <<ctValue, ctStored, ctDirect>>
ctLoading == <<ctBridge, ctScript, ctSent>>

CtTimers == {"user1", "normal"}
CtDefault == 0
CtNothing == "nothing"     \* an empty script

CtInit ==
    /\ ctPhase = "up"
    /\ \E rtc \in CtHasRTC :
        ctClock = [uptime |-> 0, offset |-> 0, utc |-> FALSE, stored |-> NULL, rtc |-> rtc]
    /\ ctTicks = [user1 |-> CtDefault, normal |-> CtNormal]
    /\ ctCounters = [t \in CtTimers |-> 0]
    /\ ctValue = CtDefault /\ ctStored = NULL
    /\ ctBridge = [status |-> "IDLE", error |-> 0, parsed |-> NULL, failed |-> FALSE]
    /\ ctScript = CtNothing
    /\ ctSaved = NULL
    /\ ctCount = [resets |-> 0, calls |-> 0]
    /\ ctTrue = [now |-> NULL, resets |-> 0, manual |-> FALSE]
    /\ ctQuiet = [t \in CtTimers |-> 0]
    /\ ctSkipped = {}
    /\ ctDirect = FALSE
    /\ ctSent = {}

CtCall ==
    /\ ctCount.calls < CtMaxCalls
    /\ ctCount' = [ctCount EXCEPT !.calls = @ + 1]

-----------------------------------------------------------------------------
(* The clock and its timers. *)

\* handle_tick(), by the task that simulates time.
CtTick ==
    LET running(t) == ctTicks[t] # 0
        counted(t) == ctCounters[t] + 1
    IN  /\ ctClock.uptime < CtMaxUptime
        /\ ctClock' = [ctClock EXCEPT !.uptime = @ + 1]
        /\ ctCounters' = [t \in CtTimers |->
               IF ~running(t) THEN ctCounters[t]
               ELSE IF counted(t) = ctTicks[t] THEN 0 ELSE counted(t)]
        /\ ctQuiet' = [t \in CtTimers |->
               IF running(t) /\ counted(t) # ctTicks[t] THEN ctQuiet[t] + 1 ELSE 0]
        /\ ctTrue' = IF ctTrue.now = NULL THEN ctTrue ELSE [ctTrue EXCEPT !.now = @ + 1]
        /\ UNCHANGED <<ctPhase, ctTicks, ctSkipped, ctConfig, ctLoading, ctSaved, ctCount>>

\* set_tick(): the counter goes on from where it is.
CtSetTick ==
    /\ CtCall
    /\ \E interval \in CtIntervals :
        /\ ctTicks' = [ctTicks EXCEPT !.user1 = interval]
        /\ ctSkipped' = IF interval \in 1..ctCounters.user1
                        THEN ctSkipped \cup {"user1"} ELSE ctSkipped \ {"user1"}
    /\ ctQuiet' = [ctQuiet EXCEPT !.user1 = 0]
    /\ ctDirect' = TRUE
    /\ UNCHANGED <<ctPhase, ctTime, ctCounters, ctValue, ctStored, ctLoading, ctSaved>>

CtSynchronize ==
    /\ CtCall
    /\ \E now \in CtTimes :
        LET offset == now - ctClock.uptime
        IN  /\ ctClock' = [ctClock EXCEPT !.offset = offset, !.utc = TRUE,
                                          !.stored = IF ctClock.rtc THEN offset ELSE @]
            /\ ctTrue' = [now |-> now, resets |-> 0, manual |-> FALSE]
    /\ UNCHANGED <<ctPhase, ctTimers, ctConfig, ctLoading, ctSaved>>

\* set_time_offset(), which is temporary.
CtSetOffset ==
    /\ CtCall
    /\ \E offset \in CtTimes, utc \in BOOLEAN :
        ctClock' = [ctClock EXCEPT !.offset = offset, !.utc = utc]
    /\ ctTrue' = [ctTrue EXCEPT !.manual = TRUE]
    /\ UNCHANGED <<ctPhase, ctTimers, ctConfig, ctLoading, ctSaved>>

\* get_time()
CtGetTime == [time |-> ctClock.uptime + ctClock.offset, utc |-> ctClock.utc]

-----------------------------------------------------------------------------
(* The bridge. *)

CtSendScript ==
    /\ \E s \in CtGoodScripts \cup CtBadScripts :
        ctScript' = s /\ ctSent' = ctSent \cup {s}
    /\ UNCHANGED <<ctPhase, ctTime, ctTimers, ctConfig, ctBridge, ctSaved, ctCount>>

\* (What was received stays.)
CtBeginsWithRest ==
    /\ ctBridge.status \in {"IDLE", "WAITING"}
    /\ ctBridge' = [status |-> "WAITING", error |-> 0, parsed |-> NULL, failed |-> FALSE]
    /\ ctSent' = {}
    /\ UNCHANGED <<ctScript, ctPhase, ctTime, ctTimers, ctConfig, ctSaved, ctCount>>

CtBeginScript ==
    /\ ctBridge.status \in {"IDLE", "WAITING"}
    /\ ctBridge' = [status |-> "WAITING", error |-> 0, parsed |-> NULL, failed |-> FALSE]
    /\ ctScript' = CtNothing /\ ctSent' = {}
    /\ UNCHANGED <<ctPhase, ctTime, ctTimers, ctConfig, ctSaved, ctCount>>

CtEndScript ==
    /\ ctBridge.status \in {"WAITING", "RECEIVED"}
    /\ ctBridge' = [ctBridge EXCEPT !.status = "RECEIVED"]
    /\ UNCHANGED <<ctPhase, ctTime, ctTimers, ctConfig, ctScript, ctSent, ctSaved, ctCount>>

\* A script that cannot be parsed leaves the bridge as it is; it is kept as script_error.
CtTriggerScript ==
    /\ ctBridge.status = "RECEIVED"
    /\ ctBridge' = IF ctScript \in CtGoodScripts
                   THEN [ctBridge EXCEPT !.status = "IDLE", !.parsed = ctScript]
                   ELSE [ctBridge EXCEPT !.error = 1, !.failed = TRUE]
    /\ UNCHANGED <<ctPhase, ctTime, ctTimers, ctConfig, ctScript, ctSent, ctSaved, ctCount>>

CtResetScript ==
    /\ ctBridge' = [ctBridge EXCEPT !.status = "IDLE", !.error = 0, !.parsed = NULL]
    /\ ctScript' = CtNothing
    /\ UNCHANGED <<ctPhase, ctTime, ctTimers, ctConfig, ctSent, ctSaved, ctCount>>

-----------------------------------------------------------------------------
(* The config variable, and resets. *)

CtStore ==
    /\ CtCall
    /\ ctStored' \in CtIntervals
    /\ ctDirect' = TRUE
    /\ UNCHANGED <<ctPhase, ctTime, ctTimers, ctValue, ctLoading, ctSaved>>

\* set_config_variable, which is refused once the tile is initialized.
CtSetConfig ==
    /\ ctPhase # "up"
    /\ CtCall
    /\ ctValue' \in CtIntervals
    /\ ctDirect' = TRUE
    /\ UNCHANGED <<ctPhase, ctTime, ctTimers, ctStored, ctLoading, ctSaved>>

\* reset() and _handle_reset().
CtReset ==
    /\ ctCount.resets < CtMaxResets
    /\ ctCount' = [ctCount EXCEPT !.resets = @ + 1]
    /\ ctPhase' = "reset"
    /\ ctValue' = CtDefault
    /\ ctDirect' = FALSE
    /\ UNCHANGED <<ctStored, ctTime, ctTimers, ctLoading, ctSaved>>

\* _reset_vector: the controller is sent its own variables.
CtConfigure ==
    /\ ctPhase = "reset"
    /\ ctPhase' = "configured"
    /\ ctValue' = IF ctStored = NULL THEN ctValue ELSE ctStored
    /\ UNCHANGED <<ctStored, ctDirect, ctTime, ctTimers, ctLoading, ctSaved, ctCount>>

\* (The uptime is forgotten before it is used.)
CtClearsAtOnce ==
    /\ ctPhase = "configured"
    /\ ctPhase' = "clock"
    /\ ctClock' = [ctClock EXCEPT
           !.uptime = 0, !.utc = FALSE,
           !.offset = IF ctClock.rtc /\ ctClock.stored # NULL THEN ctClock.stored ELSE 0]
    /\ ctTicks' = [ctTicks EXCEPT !.user1 = ctValue]
    /\ ctCounters' = [t \in CtTimers |-> 0]
    /\ ctQuiet' = [t \in CtTimers |-> 0]
    /\ ctSkipped' = {}
    /\ ctTrue' = [ctTrue EXCEPT !.resets = @ + 1, !.manual = FALSE]
    /\ UNCHANGED <<ctConfig, ctLoading, ctSaved, ctCount>>

\* latch_config_variables(), and clear_to_reset() of the clock: a stored offset is moved on
\* by the time the device has been up, but not stored again.
CtClearClock ==
    /\ ctPhase = "configured"
    /\ ctPhase' = "clock"
    /\ ctClock' = [ctClock EXCEPT
           !.uptime = 0, !.utc = FALSE,
           !.offset = IF ctClock.rtc /\ ctClock.stored # NULL THEN ctClock.stored + ctClock.uptime ELSE 0]
    /\ ctTicks' = [ctTicks EXCEPT !.user1 = ctValue]
    /\ ctCounters' = [t \in CtTimers |-> 0]
    /\ ctQuiet' = [t \in CtTimers |-> 0]
    /\ ctSkipped' = {}
    /\ ctTrue' = [ctTrue EXCEPT !.resets = @ + 1, !.manual = FALSE]
    /\ UNCHANGED <<ctConfig, ctLoading, ctSaved, ctCount>>

\* clear_to_reset() of the bridge: what was received and parsed is kept.
CtClearBridge ==
    /\ ctPhase = "clock"
    /\ ctPhase' = "up"
    /\ ctBridge' = [ctBridge EXCEPT !.status = "IDLE", !.error = 0]
    /\ UNCHANGED <<ctScript, ctSent, ctConfig, ctTime, ctTimers, ctSaved, ctCount>>

-----------------------------------------------------------------------------
(* Saving and loading the state of the device, in one step of the loop. *)

\* script_error is one of the properties that are dumped; json cannot write it.
CtSave ==
    /\ ctSaved' = IF ctBridge.failed THEN CtTorn
                  ELSE [bridge |-> ctBridge, script |-> ctScript, value |-> ctValue,
                        stored |-> ctStored, sent |-> ctSent]
    /\ UNCHANGED <<ctPhase, ctTime, ctTimers, ctConfig, ctLoading, ctCount>>

\* (The script that was received is left out.)
CtLoadsWithoutScript ==
    /\ ctSaved \notin {NULL, CtTorn}
    /\ ctBridge' = ctSaved.bridge
    /\ ctSent' = ctSaved.sent
    /\ ctValue' = ctSaved.value /\ ctStored' = ctSaved.stored /\ ctDirect' = TRUE
    /\ UNCHANGED <<ctPhase, ctScript, ctTime, ctTimers, ctSaved, ctCount>>

\* The clock is not part of it.
CtLoad ==
    /\ ctSaved \notin {NULL, CtTorn}
    /\ ctBridge' = ctSaved.bridge
    /\ ctScript' = ctSaved.script /\ ctSent' = ctSaved.sent
    /\ ctValue' = ctSaved.value /\ ctStored' = ctSaved.stored /\ ctDirect' = TRUE
    /\ UNCHANGED <<ctPhase, ctTime, ctTimers, ctSaved, ctCount>>

CtNext ==
    \/ CtTick \/ CtSetTick \/ CtSynchronize \/ CtSetOffset
    \/ CtSendScript \/ CtBeginScript \/ CtEndScript \/ CtTriggerScript \/ CtResetScript
    \/ CtStore \/ CtSetConfig
    \/ CtReset \/ CtConfigure \/ CtClearClock \/ CtClearBridge
    \/ CtSave \/ CtLoad

-----------------------------------------------------------------------------
(* Config variables as bytes; each byte is known by its place in what is stored. *)

CtChunk == 16

\* generate_rpcs(): where each chunk goes.
CtChunks(data) ==
    [n \in 1..((Len(data) + CtChunk - 1) \div CtChunk) |->
        LET first == (n - 1) * CtChunk
            last  == IF first + CtChunk < Len(data) THEN first + CtChunk ELSE Len(data)
        IN  [offset |-> first, value |-> SubSeq(data, first + 1, last)]]

\* (Chunks are put one after the other.)
CtAppended(total, current, offset, value) ==
    IF offset + Len(value) > total THEN current ELSE current \o value

\* update_value(); a chunk that does not fit is refused, and nobody looks at the answer.
CtUpdated(total, current, offset, value) ==
    IF offset + Len(value) > total THEN current
    ELSE [n \in 1..offset |-> IF n <= Len(current) THEN current[n] ELSE 0] \o value

CtStreamed(total, default, data) ==
    FoldLeft(LAMBDA current, c : CtUpdated(total, current, c.offset, c.value), default, CtChunks(data))

\* latch(): how many units there are, or NULL.  As many bytes are added as there are of the
\* last unit, not as many as it lacks.
CtLatched(unit, current) ==
    LET rest == Len(current) % unit
        padded == Len(current) + rest
    IN  IF Len(current) = 0 \/ padded % unit # 0 THEN NULL ELSE padded \div unit

-----------------------------------------------------------------------------
(* Config variables as they are declared, and as the ConfigManager of a proxy *)
(* (iotile/core/hw/proxy/proxy.py) sees them through the RPCs of the tile.    *)

CtUnits == [uint8_t |-> 1, uint16_t |-> 2, uint32_t |-> 4]

\* parse_size_name(): a type without a number in brackets is no array.
CtParseSize(type) ==
    IF type.base \notin DOMAIN CtUnits THEN NULL
    ELSE [unit |-> CtUnits[type.base], variable |-> type.count # NULL,
          total |-> CtUnits[type.base] * (IF type.count = NULL THEN 1 ELSE type.count)]

\* _validate_python_type()
CtConverts(special, size) ==
    CASE special = NULL     -> TRUE
      [] special = "bool"   -> ~size.variable
      [] special = "string" -> size.variable /\ size.unit = 1

\* _convert_default_value(): of any length; NULL where it raises.  No default is no data.
CtDefaultValue(special, size, default) ==
    CASE default.form = "none"    -> <<>>
      [] default.form = "text"    -> IF special = "string" THEN Append(default.data, 0) ELSE NULL
      [] default.form = "bytes"   ->
             IF special = "string" THEN Append(default.data, 0) ELSE default.data
      [] default.form = "numbers" -> [n \in 1..(size.unit * Len(default.data)) |-> n]

\* declare_config_variable(): what a tile knows of the variable, or NULL where it raises.
CtDeclare(type, special, default) ==
    LET size == CtParseSize(type)
    IN  IF size = NULL THEN NULL
        ELSE IF CtDefaultValue(special, size, default) = NULL \/ ~CtConverts(special, size) THEN NULL
        ELSE [size |-> size, special |-> special, current |-> <<>>,
              default |-> CtDefaultValue(special, size, default)]

\* Of a tile: its variables by their ids, and whether it is initialized.
CtResetVariables(tile) ==
    [initialized |-> FALSE,
     variables |-> [id \in DOMAIN tile.variables |->
                       [tile.variables[id] EXCEPT !.current = tile.variables[id].default]]]

\* latch_config_variables(): the units of each, or NULL when one of them raises.
CtLatch(v) ==
    IF v.special = "string" /\ v.current # <<>> /\ Last(v.current) # 0 THEN NULL
    ELSE CtLatched(v.size.unit, v.current)
CtLatchVariables(tile) ==
    LET latched == [id \in DOMAIN tile.variables |-> CtLatch(tile.variables[id])]
    IN  IF \E id \in DOMAIN latched : latched[id] = NULL THEN NULL ELSE latched

\* list_config_variables: the ids on a page of nine; list_variables() asks for one after the
\* other, until one is not full.
CtPage == 9
CtListPage(tile, offset) ==
    LET defined == DOMAIN tile.variables
        ids == [n \in 1..Cardinality(defined) |->
                   CHOOSE id \in defined : Cardinality({j \in defined : j < id}) = n - 1]
    IN  SubSeq(ids, offset + 1, IF offset + CtPage < Len(ids) THEN offset + CtPage ELSE Len(ids))
RECURSIVE CtListFrom(_, _)
CtListFrom(tile, offset) ==
    LET page == CtListPage(tile, offset)
    IN  IF Len(page) # CtPage THEN page ELSE page \o CtListFrom(tile, offset + CtPage)

\* describe_config_variable: size and whether it may vary, in 16 bits; describe_variable().
CtPackSize(v) ==
    IF v.size.variable /\ v.size.total < 2^15 THEN 2^15 + v.size.total ELSE v.size.total
CtDescribe(tile, id) ==
    IF id \notin DOMAIN tile.variables THEN NULL
    ELSE LET flags == CtPackSize(tile.variables[id])
         IN  [max_size |-> flags % 2^15, variable_size |-> flags >= 2^15]

\* get_config_variable: twenty bytes; get_variable() asks until it is given none.
CtGetChunk(tile, id, offset) ==
    LET data == IF id \in DOMAIN tile.variables THEN tile.variables[id].current ELSE <<>>
    IN  SubSeq(data, offset + 1, IF offset + 20 < Len(data) THEN offset + 20 ELSE Len(data))
RECURSIVE CtGetFrom(_, _, _)
CtGetFrom(tile, id, read) ==
    LET chunk == CtGetChunk(tile, id, Len(read))
    IN  IF chunk = <<>> THEN read ELSE CtGetFrom(tile, id, read \o chunk)

\* (The first error is not looked at.)
CtSetsOn(done, id, c) ==
    IF done.tile.initialized \/ id \notin DOMAIN done.tile.variables THEN done
    ELSE [done EXCEPT !.tile.variables[id].current =
              CtUpdated(done.tile.variables[id].size.total, @, c.offset, c.value)]

\* set_config_variable of one chunk, unless set_variable() has raised before.
CtSetChunk(done, id, c) ==
    LET fits == /\ ~done.tile.initialized /\ id \in DOMAIN done.tile.variables
                /\ c.offset + Len(c.value) <= done.tile.variables[id].size.total
    IN  IF done.raised THEN done
        ELSE IF ~fits THEN [done EXCEPT !.raised = TRUE]
        ELSE [done EXCEPT !.tile.variables[id].current =
                  CtUpdated(done.tile.variables[id].size.total, @, c.offset, c.value)]
CtSetVariable(tile, id, value) ==
    FoldLeft(LAMBDA done, c : CtSetChunk(done, id, c), [tile |-> tile, raised |-> FALSE], CtChunks(value))

\* dump_state() and restore_state(): the values of those that the other tile has as well.
CtDumpVariables(tile) == [id \in DOMAIN tile.variables |-> tile.variables[id].current]
CtRestoreVariables(tile, state) ==
    [tile EXCEPT !.variables = [id \in DOMAIN @ |->
        IF id \in DOMAIN state THEN [@[id] EXCEPT !.current = state[id]] ELSE @[id]]]

-----------------------------------------------------------------------------
(* Version tags: 20 bits for the tag, 6 each for the major and the minor version. *)

CtPackVersion(tag, major, minor) ==
    IF tag >= 2^20 \/ major >= 2^6 \/ minor >= 2^6 THEN NULL
    ELSE [version |-> major * 2^6 + minor, tag |-> tag]
CtUnpackVersion(packed) ==
    [tag |-> packed.tag, major |-> packed.version \div 2^6, minor |-> packed.version % 2^6]

-----------------------------------------------------------------------------
(* Properties. *)

\* (handle_tick.)  A timer that runs is heard once in each interval, whatever it was set to
\* in between, unless that was less than it had counted: then the counter has passed it.
CtTimersAreHeard ==
    \A t \in CtTimers : ctTicks[t] # 0 /\ t \notin ctSkipped =>
        ctQuiet[t] < ctTicks[t] /\ ctCounters[t] < ctTicks[t]

\* (get_time, clear_to_reset.)  What is said to be UTC is the time it is, unless it was set
\* by hand; with a real time clock uptimes go on from it, for one reset.
CtTimeIsTrue ==
    (/\ ctTrue.now # NULL /\ ~ctTrue.manual
     /\ \/ CtGetTime.utc
        \/ ctClock.rtc /\ ctTrue.resets <= 1) => CtGetTime.time = ctTrue.now

\* (_reset_vector.)  However resets overlap, the timer is what is stored, unless somebody
\* set it, or the variable, after the reset began.
CtTimerIsConfigured ==
    (ctPhase \in {"clock", "up"} /\ ctCount.resets > 0 /\ ~ctDirect) =>
        ctTicks.user1 = IF ctStored = NULL THEN CtDefault ELSE ctStored

\* (begin_script, restore_state.)  What can be triggered was sent after begin_script, also
\* when all of it comes from a file; and only what could be parsed counts as parsed.
CtScriptIsSent ==
    /\ ctBridge.status \in {"WAITING", "RECEIVED"} => ctScript \in ctSent \cup {CtNothing}
    /\ ctBridge.parsed \in CtGoodScripts \cup {NULL}

ControllerIsConsistent == CtTimersAreHeard /\ CtTimeIsTrue /\ CtTimerIsConfigured /\ CtScriptIsSent

\* (stream_matching, update_value, latch.)  A variable is what is stored for it when it fits,
\* whatever its default was, and the chunks that fit when it does not; it can be latched
\* when the bytes of its last unit are none or half of it.
CtStreamedIsKept(unit, count, default, data) ==
    LET current == CtStreamed(unit * count, default, data)
        fits == CtChunk * ((unit * count) \div CtChunk)
        kept == IF Len(data) <= unit * count THEN data ELSE SubSeq(data, 1, fits)
    IN  /\ current = IF data = <<>> \/ (Len(data) > unit * count /\ fits = 0) THEN default ELSE kept
        /\ CtLatched(unit, current) # NULL <=>
              Len(current) > 0 /\ (2 * (Len(current) % unit)) % unit = 0

CtVersionIsKept(tag, major, minor) ==
    CtPackVersion(tag, major, minor) # NULL =>
        CtUnpackVersion(CtPackVersion(tag, major, minor)) = [tag |-> tag, major |-> major, minor |-> minor]

CtBytes(n) == [k \in 1..n |-> k]

-----------------------------------------------------------------------------
(* An RPC, from the proxy of a tile (hw/proxy/proxy.py) to the tile and back, with the status   *)
(* that stands for its outcome on the way (hw/virtual/common_types.py).  Arguments and results  *)
(* are two-byte numbers, and perhaps bytes at the end; NULL stands for an error that is raised. *)

CtMaxPayload == 20

CtArgFormat(args) == [ints |-> Len(args.ints), buffer |-> args.buffer # NULL]

CtNoFormat == [ints |-> 0, buffer |-> FALSE]
CtRespFormat(type, format) ==
    IF type # NULL /\ format # NULL THEN NULL
    ELSE IF format # NULL THEN format
    ELSE IF type # NULL THEN type ELSE CtNoFormat

\* pack_rpc_payload(): only what ends in bytes is held to the size of a payload.
CtPackPayload(format, args) ==
    LET fixed == [k \in 1..(2 * Len(args.ints)) |->
                     LET n == args.ints[(k + 1) \div 2] IN IF k % 2 = 1 THEN n % 256 ELSE n \div 256]
    IN  IF format # CtArgFormat(args) \/ \E n \in Range(args.ints) : n \notin 0..(2^16 - 1) THEN NULL
        ELSE IF ~format.buffer THEN fixed
        ELSE IF Len(fixed) + Len(args.buffer) > CtMaxPayload THEN NULL ELSE fixed \o args.buffer

CtUnpackPayload(format, payload) ==
    LET fixed == 2 * format.ints
    IN  IF Len(payload) < fixed \/ (~format.buffer /\ Len(payload) # fixed) THEN NULL
        ELSE [ints   |-> [k \in 1..format.ints |-> payload[2 * k - 1] + 256 * payload[2 * k]],
              buffer |-> IF format.buffer THEN SubSeq(payload, fixed + 1, Len(payload)) ELSE NULL]

\* pack_rpc_response() of an outcome: what was raised, its code, and the response.
CtPackStatus(outcome) ==
    CASE outcome.raised = NULL -> IF outcome.payload = <<>> THEN 64 ELSE 64 + 128
      [] outcome.raised \in {"invalid id", "not found"} -> 2
      [] outcome.raised = "busy" -> 0
      [] outcome.raised = "no tile" -> 255
      [] outcome.raised = "code" -> 64 + (outcome.code % 64)
      [] OTHER -> 3

CtRaised(raised, code) == [raised |-> raised, code |-> code, payload |-> <<>>]

\* (The controller's way to say not found taken for every tile's.)
CtUnpackAlike(status, payload, address) ==
    LET code == status % 64
    IN  CASE status = 0   -> CtRaised("busy", 0)
          [] code = 2     -> CtRaised("not found", 0)
          [] status = 255 -> CtRaised("no tile", 0)
          [] code # 0 /\ code # 2 /\ status # 255 -> CtRaised("code", code)
          [] OTHER        -> [raised |-> NULL, code |-> 0, payload |-> payload]

CtUnpackStatus(status, payload, address) ==
    LET code == status % 64
        missing == status = 2 \/ (address = 8 /\ code = 2)
    IN  CASE status = 0   -> CtRaised("busy", 0)
          [] missing      -> CtRaised("not found", 0)
          [] status = 255 -> CtRaised("no tile", 0)
          [] code # 0 /\ ~missing /\ status # 255 -> CtRaised("code", code)
          [] code = 0 /\ status # 0 -> [raised |-> NULL, code |-> 0, payload |-> payload]
CtHop(outcome, address) == CtUnpackStatus(CtPackStatus(outcome), outcome.payload, address)

\* rpc_v2(): sends again while the tile is busy; it answers the n-th time with answers[n].
CtSend(answers, retries) ==
    LET sent == Min({n \in DOMAIN answers : answers[n].raised # "busy"} \cup {retries + 1})
    IN  [sent |-> sent, answer |-> answers[sent]]
CtRpcV2(argFormat, respFormat, args, answers, retries) ==
    LET packed == CtPackPayload(argFormat, args)
        got == CtSend(answers, retries)
    IN  IF packed = NULL THEN [sent |-> 0, raised |-> "arguments", value |-> NULL]
        ELSE IF got.answer.raised # NULL
        THEN [sent |-> got.sent, raised |-> got.answer.raised, value |-> NULL]
        ELSE LET value == CtUnpackPayload(respFormat, got.answer.payload)
             IN  [sent |-> got.sent, raised |-> IF value = NULL THEN "size" ELSE NULL, value |-> value]
CtRpc(type, format, args, answers) ==
    IF CtRespFormat(type, format) = NULL THEN [sent |-> 0, raised |-> "arguments", value |-> NULL]
    ELSE CtRpcV2(CtArgFormat(args), CtRespFormat(type, format), args, answers, 10)

\* (EmulatedTile, ConfigManager.)  Whoever asks a tile page by page and chunk by chunk sees all
\* of its variables and all of their values.  What is set is what is read, or an error is raised
\* and the chunks before are there; nothing changes once the tile is initialized.  A default
\* that is of the variable's type can be latched.
CtVariableIsSeen(c) ==
    LET v == CtDeclare(c.type, c.special, c.default)
        tile == CtResetVariables([initialized |-> TRUE, variables |-> [id \in 1..c.others + 1 |-> v]])
        used == [tile EXCEPT !.initialized = c.initialized]
        set == CtSetVariable(used, 1, c.value)
        now == CtGetFrom(set.tile, 1, <<>>)
        other == CtRestoreVariables(tile, CtDumpVariables(set.tile))
    IN  v # NULL =>
            /\ CtListFrom(tile, 0) = [n \in 1..(c.others + 1) |-> n]
            /\ v.size.total < 2^15 =>
                   CtDescribe(tile, 1) = [max_size |-> v.size.total, variable_size |-> v.size.variable]
            /\ CtGetFrom(tile, 1, <<>>) = v.default
            /\ set.raised <=> c.value # <<>> /\ (c.initialized \/ Len(c.value) > v.size.total)
            /\ IF c.value = <<>> \/ c.initialized THEN now = v.default
               ELSE IF ~set.raised THEN now = c.value
               ELSE now = v.default \/ \E n \in 1..(Len(c.value) - 1) : now = SubSeq(c.value, 1, n)
            /\ CtGetFrom(other, 1, <<>>) = now
            /\ (c.default.form = "text" \/ (c.default.form = "numbers" /\ c.special # "string")) =>
                   CtLatchVariables(tile) # NULL

CtVariableCases ==
    [type : [base : {"uint8_t", "uint16_t", "uint32_t", "float"}, count : {NULL, 1, 4, 20, 2^15}],
     special : {NULL, "bool", "string"}, others : {8, 17},
     default : [form : {"none", "text", "bytes", "numbers"}, data : {CtBytes(1), CtBytes(3)}],
     value : {CtBytes(n) : n \in {0, 1, 16, 17, 37}}, initialized : BOOLEAN]

\* (pack_rpc_response, unpack_rpc_response.)  Who calls through two transports, or more, learns
\* what it would through one: success only of success or of an error without a code, not found
\* when it was or when the controller says so by its code, and no code but the tile's or 3.
CtOutcomeIsKept(c) ==
    LET once == CtHop(c.outcome, c.address)
        o == c.outcome
    IN  /\ CtHop(once, c.address) = once
        /\ once.raised = NULL <=> o.raised = NULL \/ (o.raised = "code" /\ o.code % 64 = 0)
        /\ once.raised = NULL => once.payload = o.payload
        /\ o.raised \in {"busy", "no tile", "not found"} => once.raised = o.raised
        /\ once.raised = "not found" =>
               o.raised \in {"not found", "invalid id"} \/ (c.address = 8 /\ o.code % 64 = 2)
        /\ once.raised = "code" => once.code = IF o.raised = "code" THEN o.code % 64 ELSE 3

\* (rpc, rpc_v2.)  A call is sent until it is answered, eleven times at most, and its value is
\* what the tile returned if that is of the form asked for; a payload that is too long is only
\* found when it ends in bytes.
CtRpcIsAnswered(c) ==
    LET value == CtPackPayload(CtArgFormat(c.returned), c.returned)
        answers == [n \in 1..12 |-> IF n <= c.busy THEN CtRaised("busy", 0)
                                    ELSE [raised |-> NULL, code |-> 0, payload |-> value]]
        done == CtRpc(c.type, c.format, c.args, answers)
        form == CtRespFormat(c.type, c.format)
        sized == 2 * Len(c.args.ints) + (IF c.args.buffer = NULL THEN 0 ELSE Len(c.args.buffer))
    IN  /\ done.sent > 0 <=> form # NULL /\ (c.args.buffer = NULL \/ sized <= CtMaxPayload)
        /\ done.sent > 0 => /\ done.sent = Min({c.busy + 1, 11})
                            /\ done.raised = "busy" <=> c.busy >= 11
        /\ (done.sent > 0 /\ form = CtArgFormat(c.returned) /\ c.busy < 11) => done.value = c.returned
        /\ done.raised = NULL => 2 * form.ints <= Len(value) /\ (form.buffer \/ 2 * form.ints = Len(value))

CtArguments ==
    [ints : {<<>>, <<1>>, <<258, 65535>>, [k \in 1..9 |-> k], [k \in 1..11 |-> k]},
     buffer : {NULL, <<>>, CtBytes(2), CtBytes(3)}]
CtRpcCases ==
    [outcome : [raised : {NULL, "invalid id", "not found", "busy", "no tile", "code", "other"},
                code : {0, 2, 3, 63, 64, 66}, payload : {<<>>, <<1>>}], address : {8, 9}]
        \cup [type : {NULL, [ints |-> 1, buffer |-> FALSE], [ints |-> 1, buffer |-> TRUE]},
              format : {NULL, [ints |-> 2, buffer |-> FALSE]}, args : CtArguments,
              returned : [ints : {<<>>, <<1>>, <<1, 256>>}, buffer : {NULL, <<7>>, <<7, 8>>}],
              busy : {0, 1, 10, 11}]

CtCases ==
    [kind : {"config"}, unit : {1, 2, 4}, count : {1, 4, 9, 18}, default : BOOLEAN, size : 0..37]
        \cup [kind : {"version"}, tag : {0, 1, 2^20 - 1, 2^20}, major : {0, 1, 63, 64}, minor : {0, 1, 63, 64}]
        \cup CtVariableCases \cup CtRpcCases
ControllerKeeps(c) ==
    CASE "special" \in DOMAIN c -> CtVariableIsSeen(c)
      [] "outcome" \in DOMAIN c -> CtOutcomeIsKept(c)
      [] "busy" \in DOMAIN c -> CtRpcIsAnswered(c)
      [] c.kind = "config"  -> CtStreamedIsKept(c.unit, c.count, CtBytes(IF c.default THEN c.unit * c.count ELSE 0), CtBytes(c.size))
      [] c.kind = "version" -> CtVersionIsKept(c.tag, c.major, c.minor)
=============================================================================

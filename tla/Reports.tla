------------------------------- MODULE Reports -------------------------------
(***************************************************************************)
(* Reports (iotile/core/hw/reports, iotile/core/hw/auth): what a device    *)
(* streams arrives in pieces; a parser finds the reports in it, a report   *)
(* is verified and decrypted with the keys that a chain of providers knows *)
(* before its readings are seen, and readings that are stamped in uptime   *)
(* are given the UTC of the nearest points where both are known.           *)
(*                                                                         *)
(* Times are seconds since 2000, and a raw time is an uptime or, with its  *)
(* highest bit set, a UTC.  A key is its root and what it is derived for,  *)
(* a signature is the key and the data it stands for.  Each form is tried  *)
(* on cases: RpUtcCases, RpStreamCases, RpSignedCases and RpFormCases.     *)
(***************************************************************************)
EXTENDS None, Integers, FiniteSets, Sequences, SequencesExt

CONSTANTS
    RpHigh,      \* the highest bit of a raw time, 2^31 in the code
    RpEpoch,     \* how many seconds before 2000 the Unix epoch lies
    RpGap,       \* the seconds from one reading to the next
    RpCuts,      \* where a stream may be cut
    RpCounts     \* how many readings a report may hold

\* What is raised instead of a result.
RpRaises(error) == [error |-> error]

RpReading(stream, id, raw, value) == [stream |-> stream, id |-> id, raw |-> raw, value |-> value]

-----------------------------------------------------------------------------
(* UTC assignment: a sorted list of points, the anchors, each with the uptime, the UTC or *)
(* both of a reading.                                                                     *)

RpAnchor(id, uptime, utc, break) ==
    [id |-> id, uptime |-> uptime, utc |-> utc, break |-> break, exact |-> utc # NULL]
RpAssigned(utc, found, exact, crossed) ==
    [utc |-> utc, found |-> found, exact |-> exact, crossed |-> crossed]

RpConvertRtc(raw) == raw % RpHigh
RpConvertEpoch(value) == value - RpEpoch
RpRtcValue(utc) == utc + RpHigh

\* Streams whose value is a UTC, with the form of it; and those that mark a reset, which
\* nothing ever loads.
RpAnchorStreams == [rtc |-> "rtc", epoch |-> "epoch"]
RpBreakStreams == {}

RpInsert(anchors, anchor) ==
    LET before == SelectSeq(anchors, LAMBDA a : a.id < anchor.id)
        after  == SelectSeq(anchors, LAMBDA a : a.id > anchor.id)
    IN  before \o <<anchor>> \o after

RpAddPointAgain(anchors, id, uptime, utc, break) ==
    RpInsert(anchors, RpAnchor(id, uptime, utc, break))
RpAddPoint(anchors, id, uptime, utc, break) ==
    LET rtc == uptime # NULL /\ uptime >= RpHigh
    IN  IF \/ id = 0
           \/ uptime = NULL /\ utc = NULL
           \/ rtc /\ utc # NULL
           \/ \E i \in DOMAIN anchors : anchors[i].id = id
        THEN anchors
        ELSE IF rtc THEN RpInsert(anchors, RpAnchor(id, NULL, RpConvertRtc(uptime), break))
        ELSE RpInsert(anchors, RpAnchor(id, uptime, utc, break))

RpAddReading(anchors, r) ==
    LET utc == IF r.stream \notin DOMAIN RpAnchorStreams THEN NULL
               ELSE IF RpAnchorStreams[r.stream] = "rtc" THEN RpConvertRtc(r.value)
               ELSE RpConvertEpoch(r.value)
    IN  RpAddPoint(anchors, r.id, r.raw, utc, r.stream \in RpBreakStreams)
RpAddReport(anchors, report) ==
    RpAddPoint(FoldLeft(RpAddReading, anchors, report.visible), report.id, report.sent,
               report.received, FALSE)

\* Walk along the anchors of path, away from last, up to the first one whose UTC is known;
\* their uptimes grow (way = 1) or shrink (way = -1) as long as nothing was reset.
RpFixBlindly(path, last, found, way) ==
    LET Known(a) == a.utc # NULL
        at == SelectInSeq(path, Known)
    IN  IF at = 0 THEN NULL
        ELSE RpAssigned(path[at].utc - way * (path[at].uptime - last.uptime), found, TRUE, FALSE)
RpFix(path, last, found, way) ==
    LET Step(acc, curr) ==
            LET known  == curr.uptime # NULL /\ acc.last.uptime # NULL
                gap    == IF known THEN way * (curr.uptime - acc.last.uptime) ELSE 0
                broken == known /\ (curr.break \/ gap < 0)
            IN  IF acc.last.utc # NULL THEN acc
                ELSE [last    |-> curr,
                      delta   |-> acc.delta + (IF broken THEN 0 ELSE gap),
                      exact   |-> acc.exact /\ known /\ ~broken,
                      crossed |-> acc.crossed \/ broken]
        end == FoldLeft(Step, [last |-> [last EXCEPT !.utc = NULL], delta |-> 0, exact |-> TRUE,
                               crossed |-> FALSE], path)
    IN  IF end.last.utc = NULL THEN NULL
        ELSE RpAssigned(end.last.utc - way * end.delta, found, end.exact, end.crossed)
RpFixLeft(anchors, i, last, found) == RpFix(Reverse(SubSeq(anchors, 1, i - 1)), last, found, -1)
RpFixRight(anchors, i, last, found) == RpFix(SubSeq(anchors, i + 1, Len(anchors)), last, found, 1)

RpPickBestFix(before, after, prefer) ==
    CASE after = NULL                                  -> before
      [] before = NULL                                 -> after
      [] after.crossed # before.crossed                -> IF after.crossed THEN before ELSE after
      [] before.exact # after.exact                    -> IF before.exact THEN before ELSE after
      [] OTHER                                         -> IF prefer = "before" THEN before ELSE after

\* The first of both that is exact, or else the better one.
RpBestOf(left, right, prefer) ==
    IF left # NULL /\ left.exact THEN left
    ELSE IF right # NULL /\ right.exact THEN right
    ELSE RpPickBestFix(left, right, prefer)

\* The reading lies at the i-th anchor or before it; last stands for it.
RpAssignAt(anchors, i, last, found, prefer) ==
    IF found /\ last.utc # NULL THEN RpAssigned(last.utc, TRUE, TRUE, FALSE)
    ELSE RpBestOf(RpFixLeft(anchors, i, last, found), RpFixRight(anchors, i, last, found), prefer)

RpAssignUtc(anchors, id, uptime, prefer) ==
    LET i == 1 + Cardinality({k \in DOMAIN anchors : anchors[k].id < id})
    IN  IF i > Len(anchors) THEN NULL
        ELSE RpAssignAt(anchors, i, IF uptime = NULL THEN anchors[i] ELSE [anchors[i] EXCEPT !.uptime = uptime],
                        anchors[i].id = id, prefer)

\* ensure_prepared: one anchor after the other, with what was found for those before it.
RpPrepareOne(anchors, i, found) ==
    IF anchors[i].exact \/ found = NULL \/ ~found.exact THEN anchors
    ELSE [anchors EXCEPT ![i].utc = found.utc, ![i].exact = TRUE]
RpPrepare(anchors) ==
    FoldLeft(LAMBDA acc, i : RpPrepareOne(acc, i, RpAssignUtc(acc, acc[i].id, acc[i].uptime, "before")),
             anchors, [i \in DOMAIN anchors |-> i])

RpFixReading(fixed, r, found) ==
    IF found = NULL THEN fixed
    ELSE Append(fixed, RpReading(r.stream, r.id, RpRtcValue(found.utc), r.value))
RpFixPrepared(prepared, report, prefer) ==
    FoldLeft(LAMBDA acc, r : RpFixReading(acc, r, RpAssignUtc(prepared, r.id, r.raw, prefer)),
             <<>>, report.visible)
RpFixReport(anchors, report, prefer) == RpFixPrepared(RpPrepare(anchors), report, prefer)

-----------------------------------------------------------------------------
(* Keys.  secrets says what may be found: the key typed into memory for the device, what   *)
(* the environment holds for it, what a user would type, and whether she lets it be saved. *)

RpKeyTypes == {"no_key", "null_key", "user_key", "device_key", "password_based_userkey"}

\* The default providers, sorted by their priority.
RpProviders ==
    LET all == {[name |-> "memory", priority |-> 0, keys |-> {"password_based_userkey"}],
                [name |-> "env", priority |-> 50, keys |-> {"user_key"}],
                [name |-> "cli", priority |-> 100, keys |-> {"password_based_userkey"}],
                [name |-> "null", priority |-> 150, keys |-> {"null_key"}]}
    IN  SetToSortSeq(all, LAMBDA a, b : a.priority < b.priority)

RpVerifyKey(provider, type) == type \in RpKeyTypes /\ type \in provider.keys

\* The root key that a provider knows, NULL for NotFoundError.
RpUsable(variable) == variable \notin {NULL, "short", "nothex"}
RpRootOf(provider, type, secrets) ==
    CASE ~RpVerifyKey(provider, type) -> NULL
      [] provider.name = "memory"     -> secrets.memory
      [] provider.name = "env"        -> IF RpUsable(secrets.env) THEN secrets.env ELSE NULL
      [] provider.name = "cli"        -> secrets.typed
      [] provider.name = "null"       -> "zeros"
\* Asking the user leaves what she typed in the environment, if she agrees.
RpAfterAsking(provider, type, secrets) ==
    IF provider.name = "cli" /\ RpVerifyKey(provider, type) /\ secrets.device # 0 /\ secrets.save
    THEN [secrets EXCEPT !.env = secrets.typed] ELSE secrets

\* The first provider of the chain that has the key answers for it.
RpAnswering(type, secrets) ==
    SelectInSeq(RpProviders, LAMBDA p : RpRootOf(p, type, secrets) # NULL)
RpRootKey(type, secrets) ==
    LET i == RpAnswering(type, secrets)
    IN  IF i = 0 THEN NULL ELSE RpRootOf(RpProviders[i], type, secrets)
RpSecretsAfter(type, secrets) ==
    LET i == RpAnswering(type, secrets)
    IN  IF i = 0 THEN secrets ELSE RpAfterAsking(RpProviders[i], type, secrets)

RpDeriveReportKey(root, id, sent) == [root |-> root, id |-> id, sent |-> sent]
RpSerializedKey(type, secrets, id, sent) ==
    LET root == RpRootKey(type, secrets)
    IN  IF root = NULL \/ id = NULL \/ sent = NULL THEN NULL ELSE RpDeriveReportKey(root, id, sent)

\* A key that changes at every reboot and every 2^power seconds; a zero is taken for a
\* value that is missing.
RpDeriveRebootKey(root, counter) == [root |-> root, purpose |-> 0, counter |-> counter]
RpDeriveRotatedKey(key, timestamp, power) == [key |-> key, time |-> timestamp - (timestamp % 2^power)]
RpRotatedKey(type, secrets, counter, timestamp, power) ==
    LET root == RpRootKey(type, secrets)
        Missing(x) == x = NULL \/ x = 0
    IN  IF root = NULL \/ Missing(counter) \/ Missing(timestamp) \/ Missing(power) THEN NULL
        ELSE RpDeriveRotatedKey(RpDeriveRebootKey(root, counter), timestamp, power)

-----------------------------------------------------------------------------
(* Readings and the forms of reports. *)

\* A UTC, or an uptime counted from time_base; an uptime of all ones counts too.
RpReadingTime(raw, base) ==
    CASE raw # 2 * RpHigh - 1 /\ raw >= RpHigh -> RpConvertRtc(raw)
      [] base # NULL                           -> base + raw
      [] OTHER                                 -> NULL
\* An event of all ones has no time, and an event is never stamped in UTC.
RpEventTime(raw, base) == IF base # NULL /\ raw # 2 * RpHigh - 1 THEN base + raw ELSE NULL

RpTimed(r, base) ==
    [stream |-> r.stream, id |-> r.id, raw |-> r.raw, value |-> r.value, time |-> RpReadingTime(r.raw, base)]
RpTimes(readings, base) == [i \in DOMAIN readings |-> RpTimed(readings[i], base)]

RpIdsOf(readings) == {readings[i].id : i \in DOMAIN readings} \ {0}
RpLowest(readings) == IF RpIdsOf(readings) = {} THEN 0 ELSE Min(RpIdsOf(readings))
RpHighest(readings) == IF RpIdsOf(readings) = {} THEN 0 ELSE Max(RpIdsOf(readings))

\* IndividualReadingReport: the id of its reading has no place.
RpPackIndividual(readings) ==
    IF Len(readings) # 1 THEN RpRaises("ArgumentError")
    ELSE [stream |-> readings[1].stream, raw |-> readings[1].raw, value |-> readings[1].value]
RpDecodeIndividual(packed, received) ==
    RpTimes(<<RpReading(packed.stream, 0, packed.raw, packed.value)>>, received - 0)
RpEncodeIndividual(visible) == RpPackIndividual(visible)

\* BroadcastReport
RpPackBroadcast(readings, sent) == [length |-> 16 * Len(readings), sent |-> sent, data |-> readings]
RpDecodeBroadcast(packed, received) ==
    IF packed.length % 16 # 0 THEN RpRaises("AssertionError") ELSE RpTimes(packed.data, received - packed.sent)

\* FlexibleDictionaryReport: the times of events come back as aware ones.
RpEventDict(event) == [event |-> event, stamp |-> IF event.time = NULL THEN NULL ELSE "Z"]
RpPackDictionary(readings, events) ==
    [lowest |-> RpLowest(readings \o events), highest |-> RpHighest(readings \o events),
     data |-> readings,
     events |-> [i \in DOMAIN events |-> RpEventDict(events[i])]]
RpReadDictionary(packed) ==
    [lowest |-> packed.lowest, highest |-> packed.highest,
     data |-> [i \in DOMAIN packed.data |->
                 IF packed.data[i].time # NULL THEN packed.data[i] ELSE RpTimed(packed.data[i], NULL)],
     events |-> [i \in DOMAIN packed.events |->
                   [event |-> packed.events[i].event, aware |-> packed.events[i].stamp = "Z"]]]

\* SignedListReport
RpFlagOf(type) ==
    CASE type = "no_key"     -> 0
      [] type = "user_key"   -> 1
      [] type = "device_key" -> 2
      [] OTHER               -> NULL
RpTypeOf(flag) ==
    CASE flag = 0 -> "no_key"
      [] flag = 1 -> "user_key"
      [] flag = 2 -> "device_key"

RpPlain(readings) == [key |-> NULL, of |-> readings]
RpEncrypt(key, data, crypto) == IF key = NULL \/ ~crypto THEN NULL ELSE [key |-> key, of |-> data.of]
RpDecrypt(key, data, crypto) ==
    IF key = NULL \/ ~crypto THEN NULL
    ELSE IF key = data.key THEN RpPlain(data.of) ELSE "garbage"

RpSign(type, key, body) == [key |-> IF type = "no_key" THEN NULL ELSE key, body |-> body]
RpVerifyNothing(type, key, body, signature) == TRUE
RpVerify(type, key, body, signature) == signature = RpSign(type, key, body)

\* What FromReadings sends, or why it raises.
RpPackSigned(readings, type, signer, crypto, id, sent) ==
    LET size == 20 + 16 * Len(readings) + 24
        key  == RpSerializedKey(type, signer, id, sent)
        data == IF type = "no_key" THEN RpPlain(readings) ELSE RpEncrypt(key, RpPlain(readings), crypto)
        body == [low |-> size % 256, high |-> size \div 256, id |-> id, sent |-> sent,
                 flag |-> RpFlagOf(type), data |-> data,
                 lowest |-> RpLowest(readings), highest |-> RpHighest(readings)]
    IN  IF RpFlagOf(type) = NULL \/ data = NULL THEN RpRaises("ExternalError")
        ELSE [body |-> body, signature |-> RpSign(type, key, body), size |-> size]

\* What is seen of a report with the keys of the default chain.
RpHidden(body, verified) ==
    [id |-> body.id, sent |-> body.sent, verified |-> verified, encrypted |-> body.flag # 0,
     visible |-> <<>>]
RpDecodeSigned(packed, secrets, crypto, received) ==
    LET body == packed.body
        type == RpTypeOf(body.flag)
        key  == RpSerializedKey(type, secrets, body.id, body.sent)
        found == type = "no_key" \/ key # NULL
        verified == found /\ RpVerify(type, key, body, packed.signature)
        data == IF type = "no_key" THEN body.data ELSE RpDecrypt(key, body.data, crypto)
    IN  IF packed.size # 256 * body.high + body.low THEN RpRaises("AssertionError")
        ELSE IF ~verified \/ data = NULL THEN RpHidden(body, verified)
        ELSE [RpHidden(body, TRUE) EXCEPT !.visible = RpTimes(data.of, received - body.sent)]

\* serialize and deserialize_report: the report is decoded now, and told only then when it
\* was received.
RpSerialize(packed, received) == [received |-> received, encoded |-> packed]
RpDeserialize(serialized, secrets, crypto, now) ==
    [report |-> RpDecodeSigned(serialized.encoded, secrets, crypto, now),
     received |-> serialized.received]

-----------------------------------------------------------------------------
(* The parser.  A stream is a sequence of reports, each of a type, with its length, and    *)
(* whether it decodes and what the callback says of it: TRUE to keep it, FALSE to drop it, *)
(* or an exception.  The parser has received so many bytes and consumed so many.           *)

RpHeaderLength == [individual |-> 1, signed |-> 20, broadcast |-> 16]
RpLengthOf(type, count) ==
    CASE type = "individual" -> 20
      [] type = "signed"     -> 20 + 16 * count + 24
      [] type = "broadcast"  -> 16 + 16 * count
      [] OTHER               -> 1
RpStreamLength(reports) ==
    FoldLeft(LAMBDA n, r : n + RpLengthOf(r.type, r.count), 0, reports)

RpFreshParser ==
    [state |-> "type", next |-> 1, type |-> NULL, header |-> 0, size |-> 0, left |-> 0,
     kept |-> <<>>, error |-> NULL]

RpFail(p, error) == [p EXCEPT !.state = "error", !.error = error]
RpFindType(p, reports) ==
    LET type == reports[p.next].type
    IN  IF p.state # "type" \/ p.left = 0 THEN p
        ELSE IF type \notin DOMAIN RpHeaderLength THEN [RpFail(p, 1) EXCEPT !.type = type]
        ELSE [p EXCEPT !.state = "header", !.type = type, !.header = RpHeaderLength[type]]
RpParseHeader(p, reports) ==
    IF p.state # "header" \/ p.left < p.header THEN p
    ELSE IF p.type = "broadcast" /\ reports[p.next].auth # 0 THEN RpFail(p, 2)
    ELSE [p EXCEPT !.state = "report", !.size = RpLengthOf(p.type, reports[p.next].count)]
RpParseReport(p, reports) ==
    LET r == reports[p.next]
        q == [p EXCEPT !.left = @ - p.size, !.next = @ + 1]
    IN  IF p.state # "report" \/ p.left < p.size THEN p
        ELSE IF ~r.decodes \/ r.callback = "raises" THEN RpFail(q, 3)
        ELSE [q EXCEPT !.state = "type",
                       !.kept = IF r.callback = "keeps" THEN Append(@, p.next) ELSE @]
RpProcessOnce(p, reports) ==
    RpParseReport(RpParseHeader(RpFindType(p, reports), reports), reports)

\* add_data: process as long as there is something to do, at most once for every report
\* that is in the stream and one more time.
RpProcessData(p, reports) ==
    FoldLeft(LAMBDA q, i : RpProcessOnce(q, reports), p, [i \in 1..Len(reports) + 1 |-> i])
RpAddDataOnce(p, bytes, reports) ==
    IF p.state = "error" THEN p ELSE RpProcessOnce([p EXCEPT !.left = @ + bytes], reports)
RpAddData(p, bytes, reports) ==
    IF p.state = "error" THEN p ELSE RpProcessData([p EXCEPT !.left = @ + bytes], reports)

RpParseAll(reports, cuts) ==
    LET n == RpStreamLength(reports)
        ends == Append(cuts, n)
        Step(p, i) == RpAddData(p, ends[i] - (IF i = 1 THEN 0 ELSE ends[i - 1]), reports)
    IN  FoldLeft(Step, RpFreshParser, [i \in DOMAIN ends |-> i])

-----------------------------------------------------------------------------
(* Cases *)

\* A history: readings, and the report that sends them, each RpGap seconds after the one
\* before, after a reset or not, whose uptime, UTC or both are known; one of the readings
\* may not have been seen.
RpPoints == [reset : {NULL} \cup 0..RpGap, kind : {"uptime", "stamped", "epoch"}]
RpUtcCases ==
    [points : [1..3 -> RpPoints], sent : {p \in RpPoints : p.kind # "epoch"}, unseen : 0..3]

RpSecrets == [memory : {NULL, "m"}, env : {NULL, "short", "e", "f"}, typed : {"t"}, save : BOOLEAN,
              device : {0, 1}]
RpSignedCases ==
    {c \in [form : {"signed"}, count : RpCounts, type : RpKeyTypes, made : RpSecrets, read : RpSecrets,
            asked : BOOLEAN, changed : {NULL, "data", "sent", "size"}, crypto : BOOLEAN] :
        c.made.device = 1 /\ ~c.made.save /\ c.made.memory = NULL /\ (c.changed = NULL \/ c.crypto)}

RpStreamParts ==
    [type : {"individual"}, count : {1}, auth : {0}, decodes : {TRUE},
     callback : {"keeps", "drops", "raises"}]
    \cup [type : {"signed"}, count : {0, 1}, auth : {0}, decodes : BOOLEAN, callback : {"keeps"}]
    \cup [type : {"broadcast"}, count : {1}, auth : {0, 1}, decodes : {TRUE}, callback : {"keeps"}]
    \cup [type : {"unknown"}, count : {0}, auth : {0}, decodes : {TRUE}, callback : {"keeps"}]
RpStreamCases ==
    {c \in [form : {"stream"}, reports : SeqOf(RpStreamParts, 2), cuts : SeqOf(RpCuts, 2)] :
        /\ \A i, j \in DOMAIN c.cuts : i < j => c.cuts[i] <= c.cuts[j]
        /\ \A i \in DOMAIN c.cuts : c.cuts[i] <= RpStreamLength(c.reports)}

RpFormCases ==
    [form : {"individual", "broadcast", "dictionary"}, count : RpCounts, raw : {1, RpHigh + 1, 2 * RpHigh - 1}]
    \cup [form : {"rotated"}, at : 0..4, later : 0..4, power : 0..2, counter : {0, 1}]

RpCases == RpUtcCases \cup RpSignedCases \cup RpStreamCases \cup RpFormCases

-----------------------------------------------------------------------------
(* Properties *)

RpWhen(i) == RpGap * i
RpAll(c) == Append(c.points, c.sent)
RpUptimeIs(c) ==
    LET up[i \in 0..4] ==
            IF i = 0 THEN 0
            ELSE IF RpAll(c)[i].reset # NULL THEN RpAll(c)[i].reset ELSE up[i - 1] + RpGap
    IN  up
RpRawOf(c, i) == IF RpAll(c)[i].kind = "stamped" THEN RpRtcValue(RpWhen(i)) ELSE RpUptimeIs(c)[i]
RpHistory(c) ==
    [i \in 1..3 |-> RpReading(c.points[i].kind, i, RpRawOf(c, i), RpWhen(i) + RpEpoch)]
RpReportOf(c) ==
    [visible |-> [i \in 1..3 |-> RpHistory(c)[i]], id |-> 4, sent |-> RpRawOf(c, 4), received |-> RpWhen(4)]
RpSeen(c) == 1..4 \ {c.unseen}
RpAnchorsOf(c) ==
    LET r == RpReportOf(c)
        Seen(x) == x.id \in RpSeen(c)
    IN  RpAddReport(<<>>, [r EXCEPT !.visible = SelectSeq(@, Seen)])

\* Whether the device ran on from one to the other; whether each reset shows, as an uptime
\* that is less than that of the reading seen before.
RpSameLife(c, i, j) ==
    \A k \in 1..4 : (i < k /\ k <= j) \/ (j < k /\ k <= i) => RpAll(c)[k].reset = NULL
RpHasUptime(c, i) == RpAll(c)[i].kind # "stamped"
RpResetsShow(c) ==
    \A i, j \in RpSeen(c) :
        (i < j /\ ~ \E k \in RpSeen(c) : i < k /\ k < j) /\ RpHasUptime(c, i) /\ RpHasUptime(c, j)
        /\ ~RpSameLife(c, i, j) => RpUptimeIs(c)[j] < RpUptimeIs(c)[i]

RpExactIsTrue(c, i, found) == found # NULL /\ found.exact => found.utc = RpWhen(i)
RpIsExact(found) == found # NULL /\ found.exact

\* A reading of known uptime, and others that lead on to one whose UTC is known too.
RpLeads(c, i, j) ==
    /\ RpSameLife(c, i, j) /\ RpHasUptime(c, j) /\ (j = 4 \/ RpAll(c)[j].kind = "epoch")
    /\ \A k \in RpSeen(c) : (i <= k /\ k <= j) \/ (j <= k /\ k <= i) => RpHasUptime(c, k)

\* A UTC that is called exact is the time of the reading, before and after the anchors are
\* prepared, as long as every reset shows; one is found wherever readings of known uptime
\* lead to one whose UTC is known too; and no reading that was seen is dropped once a report is received
\* that tells both.  (assign_utc and fix_report)
RpUtcIsTrueWith(c, history, anchors, prefer) ==
    /\ \A i \in RpSeen(c) \ {4} :
          /\ RpResetsShow(c) => RpExactIsTrue(c, i, RpAssignUtc(anchors, i, history[i].raw, prefer))
          /\ (\E j \in RpSeen(c) : RpLeads(c, i, j)) => RpIsExact(RpAssignUtc(anchors, i, history[i].raw, prefer))
    /\ RpResetsShow(c) =>
          \A i \in RpSeen(c) \ {4} : RpExactIsTrue(c, i, RpAssignUtc(RpPrepare(anchors), i, history[i].raw, prefer))
RpNoneIsDropped(c, fixed) == RpSeen(c) \ {4} \subseteq {fixed[i].id : i \in DOMAIN fixed}
RpUtcIsTrue(c) ==
    \A prefer \in {"before", "after"} :
        /\ RpUtcIsTrueWith(c, RpHistory(c), RpAnchorsOf(c), prefer)
        /\ RpHasUptime(c, 4) => RpNoneIsDropped(c, RpFixReport(RpAnchorsOf(c), RpReportOf(c), prefer))

\* The readings of a report are seen where the key that it was made with is known, and
\* nothing of it was changed; a report that was kept is read in the same way.  (FromReadings,
\* decode and deserialize_report)
RpSample(count) == [i \in 1..count |-> RpReading("s", i % 3, i % RpHigh, i)]
RpChanged(packed, change) ==
    CASE change = NULL   -> packed
      [] change = "data" -> [packed EXCEPT !.body.data = [@ EXCEPT !.of = Append(@, RpReading("noise", 0, 0, 0))]]
      [] change = "sent" -> [packed EXCEPT !.body.sent = @ + 1]
      [] change = "size" -> [packed EXCEPT !.size = @ - 1]
RpSame(r, s) == r.stream = s.stream /\ r.id = s.id /\ r.raw = s.raw /\ r.value = s.value
RpReadSecrets(c) == IF c.asked THEN RpSecretsAfter("password_based_userkey", c.read) ELSE c.read
\* What the environment holds when it is read: what the user typed, if she let it be saved.
RpEnvWhenRead(c) ==
    IF c.asked /\ c.read.save /\ c.read.device = 1 /\ c.read.memory = NULL THEN "t" ELSE c.read.env
RpIsUsable(c) == c.type = "no_key" \/ (c.type = "user_key" /\ c.made.env \in {"e", "f"} /\ c.crypto)
RpFits(c) == c.changed = NULL /\ (c.type = "no_key" \/ RpEnvWhenRead(c) = c.made.env)

RpReportIsSeen(c, sample, report) ==
    /\ report.verified <=> RpFits(c)
    /\ Len(report.visible) = IF RpFits(c) THEN c.count ELSE 0
    /\ \A i \in DOMAIN report.visible :
          /\ RpSame(report.visible[i], sample[i])
          /\ report.visible[i].raw < RpHigh => report.visible[i].time = 20 - (7 - report.visible[i].raw)
RpIsReadAgain(sample, again) ==
    again.received = 20 /\ \A i \in DOMAIN sample : RpSame(again.report.visible[i], sample[i])
RpSignedIsSeenAs(c, sample, packed, read) ==
    IF ~RpIsUsable(c) THEN packed = RpRaises("ExternalError")
    ELSE IF c.changed = "size"
    THEN RpDecodeSigned(RpChanged(packed, c.changed), read, c.crypto, 20) = RpRaises("AssertionError")
    ELSE /\ RpReportIsSeen(c, sample, RpDecodeSigned(RpChanged(packed, c.changed), read, c.crypto, 20))
         /\ RpFits(c) => RpIsReadAgain(sample, RpDeserialize(RpSerialize(packed, 20), read, c.crypto, 30))
RpSignedIsSeen(c) ==
    RpSignedIsSeenAs(c, RpSample(c.count),
                     RpPackSigned(RpSample(c.count), c.type, c.made, c.crypto, 9, 7), RpReadSecrets(c))

\* However a stream is cut, the reports before the first one that fails are told, in order,
\* and nothing after it.  (IOTileReportParser.add_data)
RpStreamIsCut(c) ==
    LET p == RpParseAll(c.reports, c.cuts)
        Fails(r) == r.type = "unknown" \/ r.auth # 0 \/ ~r.decodes \/ r.callback = "raises"
        first == SelectInSeq(c.reports, Fails)
        told == SelectSeq([i \in 1..(IF first = 0 THEN Len(c.reports) ELSE first - 1) |-> i],
                          LAMBDA i : c.reports[i].callback = "keeps")
    IN  /\ p.kept = told
        /\ p.state = IF first = 0 THEN "type" ELSE "error"
        /\ p.left = 0 \/ first # 0

\* What is sent in another form is read as it was, and keys change when they should.
RpRaws(c) == [i \in 1..c.count |-> RpReading("s", i - 1, IF i = 1 THEN c.raw ELSE i, i)]
RpFormIsKept(c) ==
    LET readings == RpRaws(c)
        secrets == [memory |-> "m", env |-> NULL, typed |-> "t", save |-> FALSE, device |-> 1]
        Key(time) == RpRotatedKey("password_based_userkey", secrets, c.counter, time, c.power)
        timed == RpTimes(readings, 40)
        events == [i \in DOMAIN readings |->
                     [id |-> readings[i].id + 2, time |-> RpEventTime(readings[i].raw, 40)]]
        dict == RpReadDictionary(RpPackDictionary(timed, events))
    IN  CASE c.form = "individual" ->
               IF c.count # 1 THEN RpPackIndividual(readings) = RpRaises("ArgumentError")
               ELSE LET got == RpDecodeIndividual(RpPackIndividual(readings), 40)
                    IN  got[1] = [timed[1] EXCEPT !.id = 0] /\ RpEncodeIndividual(got) = RpPackIndividual(readings)
          [] c.form = "broadcast"  -> RpDecodeBroadcast(RpPackBroadcast(readings, 7), 47) = timed
          [] c.form = "dictionary" ->
               /\ dict.data = timed
               /\ \A i \in DOMAIN events :
                     /\ dict.events[i].event = events[i]
                     /\ dict.events[i].aware <=> events[i].time # NULL
                     /\ {readings[i].id, events[i].id} \ {0} \subseteq dict.lowest..dict.highest
          [] c.form = "rotated"    ->
               IF 0 \in {c.counter, c.power, c.at, c.later} THEN NULL \in {Key(c.at), Key(c.later)}
               ELSE (Key(c.at) = Key(c.later)) <=> (c.at \div 2^c.power = c.later \div 2^c.power)

RpKeeps(c) ==
    CASE "points" \in DOMAIN c  -> RpUtcIsTrue(c)
      [] "points" \notin DOMAIN c /\ c.form = "signed" -> RpSignedIsSeen(c)
      [] "points" \notin DOMAIN c /\ c.form = "stream" -> RpStreamIsCut(c)
      [] OTHER                                          -> RpFormIsKept(c)
=============================================================================

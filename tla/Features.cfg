SPECIFICATION FeaturesSpec
CONSTANTS
    NULL = NULL  TORN = TORN
    v1 = v1  v2 = v2  c1 = c1  s1 = s1  s2 = s2  f1 = f1  f2 = f2  f3 = f3  p1 = p1
    Parts = {"variables", "chunks", "graph", "descriptors", "clock", "bridge", "values",
             "scripts", "reports", "registry", "dependencies", "versions",
             "graphs"}
    Variables = {v1, v2}
    Chunks = {c1}
    ChunkSize <- MCChunkSize
    DataSize = 7
    MaxEntries = 2
    MaxChunks = 2
    MaxAborted = 1
    Persistent = TRUE
    SgDescriptors <- MCDescriptors
    SgSent <- MCSent
    SgConstants <- MCConstants
    SgMaxOutputs = 2
    SgMaxNodes = 3
    SgCompiled <- MCCompiled
    SgMaxCompiled = 4
    SgStreamers = 1
    SgMaxMade = 3
    SgMaxSent = 2
    SgMaxPushes = 1
    SgMaxResets = 1
    CtNormal = 3
    CtIntervals = {0, 1, 3}
    CtTimes = {0, 7}
    CtGoodScripts = {s1}
    CtBadScripts = {s2}
    CtHasRTC = {TRUE, FALSE}
    CtTorn = TORN
    CtMaxUptime = 3
    CtMaxResets = 2
    CtMaxCalls = 2
    UsTagBits = 4
    UsChunk = 2
    UsBytes = {0, 1}
    UsNumbers = {0, 1, 5}
    UsTags = {0, 1, 15, 16}
    UsVersions = {0, 1, 63, 64}
    RpHigh = 64
    RpEpoch = 5
    RpGap = 2
    RpCuts = {0, 1, 16, 19, 20, 21, 36, 64}
    RpCounts = {0, 1, 2, 14}
    DsIds = {0, 1024, 2046, 2047, 2048}
    DsReferences = {0, 7}
    DsOthers = {0, 127, 128}
    CmpFolders = {f1, f2, f3}
    CmpName <- MCName
    CmpVersions <- MCVersions
    CmpRequired <- MCRequired
    CmpPlugins = {p1}
    CmpMaxBuilds = 2
    CmpMaxEdits = 3
    CmpNumbers = {0, 1, 2}
    CmpTogether = 3
INVARIANTS
    LatestIsStreamed
    SpaceIsAccounted
    GraphIsProcessed
    ControllerIsConsistent
    CopiesAreKept
SYMMETRY VariableSymmetry
CHECK_DEADLOCK FALSE

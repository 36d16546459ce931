SPECIFICATION EmulatorSpec
CONSTANTS
    t1 = t1  t2 = t2  r1 = r1  r2 = r2  c1 = c1  c2 = c2  c3 = c3  u1 = u1  u2 = u2
    NULL = NULL
    Parts = {"rpcs", "reset"}
    Tiles = {t1, t2}
    RpcIds = {r1, r2}
    InternalCalls = {c1, c2}
    ExternalCalls = {c3}
    DvTiles <- OneTile
    DvVars = 1
    DvUsers = {u1, u2}
    DvWaiting = {u1}
    DvMaxCalls = 2
INVARIANTS
    WorkIsAccounted
    DvResetsAreOrderly
PROPERTIES
    AnsweredOnce
    EmulationGoesOn
CHECK_DEADLOCK FALSE

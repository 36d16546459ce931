SPECIFICATION ServicesSpec
CONSTANTS
    NULL = NULL
    Parts = {"supervisor", "streaming"}
    Clients = {c1, c2, c3}
    Services = {s1}
    Rpcs = {r1, r2}
    Results = {"success"}
    Streamers = {0, 1}
    Automatic = {0}
    WithOther <- WithFirst
    Individual = {1}
    MaxReadings = 3
    MaxResets = 1
    MaxTriggers = 3
INVARIANTS
    TypeOK
    AnswerInTimeWins
    KeysAreAwaited
    StreamingIsExact
PROPERTIES
    AcksOnlyGrow
    EveryRequestEnds
CHECK_DEADLOCK FALSE

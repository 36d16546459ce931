SPECIFICATION PartsSpec
CONSTANTS
    NULL = NULL
    d1 = d1  e1 = e1  h1 = h1  h2 = h2  n1 = n1  n2 = n2
    k1 = k1  k2 = k2  f1 = f1  f2 = f2  c1 = c1  g1 = g1  t1 = t1
    Parts = {"notifications", "operations"}
    AnyDevice = AnyDevice
    Devices = {d1}
    Events = {e1}
    Handles = {h1, h2}
    Notifiers = {n1, n2}
    MaxDeferred = 2
    Kinds = {k1, k2}
    Replies = {}
    Awaited = {k1}
    Direct = {k2}
    Futures = {f1, f2}
    Impatient = {f1}
    Callbacks = {c1}
    SlowCallbacks = {c1}
    Gathers = {g1}
    Threads = {t1}
    PauseFlags = {TRUE, FALSE}
    Count = 1
    MaxMessages = 2
INVARIANTS
    NothingStranded
    NothingAskedIsLost
    MessagesAreDelivered
PROPERTIES
    EveryoneIsCalled
SYMMETRY MonitorSymmetry
CHECK_DEADLOCK FALSE

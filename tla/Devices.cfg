SPECIFICATION DevicesSpec
CONSTANTS
    NULL = NULL
    d1 = d1  d2 = d2  c1 = c1  c2 = c2  n1 = n1  o1 = o1  o2 = o2  i1 = i1  i2 = i2
    Parts = {"gateway", "server"}
    Adapters = {0, 1}
    GwDevices = {d1, d2}
    GwConnIds = {i1, i2}
    Signals = {1, 2}
    MaxConns = 1
    Local <- SameString
    AnyDevice = AnyDevice
    Devices = {d1, d2}
    Handles = {c1, c2}
    Notifiers = {n1}
    Ops = {o1, o2}
    Events = {"report", "disconnection"}
    Interfaces = {"report"}
    MaxDeferred = 2
    MaxConnections = 2
INVARIANTS
    EntriesAreLinks
    ClientsAreSeparate
    NothingIsLeft
SYMMETRY Symmetry
CHECK_DEADLOCK FALSE

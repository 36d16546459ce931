SPECIFICATION Spec
CONSTANTS
    s1 = s1  s2 = s2  o1 = o1  u1 = u1  w1 = w1  w2 = w2
    NULL = NULL
    StorageStreams = {s1, s2}
    OutputStreams = {}
    UnbufferedStreams = {}
    ConstantStreams = {}
    CounterStreams = {}
    Selectors <- StorageSelectors
    Walkers = {w1, w2}
    Values = {}
    MaxStorage = 3
    MaxStreaming = 2
    EraseSize = 2
    MaxId = 5
SYMMETRY WalkerSymmetry
CHECK_DEADLOCK FALSE
INVARIANT NeverOutOfSync

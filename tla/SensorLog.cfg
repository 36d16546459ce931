SPECIFICATION Spec
CONSTANTS
    s1 = s1  s2 = s2  o1 = o1  u1 = u1  w1 = w1  w2 = w2
    NULL = NULL
    StorageStreams = {s1, s2}
    OutputStreams = {o1}
    UnbufferedStreams = {u1}
    ConstantStreams = {}
    CounterStreams = {}
    Selectors <- AllSelectors
    Walkers = {w1, w2}
    Values = {1}
    MaxStorage = 3
    MaxStreaming = 2
    EraseSize = 2
    MaxId = 4
SYMMETRY WalkerSymmetry
CONSTRAINT OneKindOfStream
INVARIANTS TypeOK UniqueIdsInOrder WalkersInSync
PROPERTIES OnlyRolloverLosesReadings WalkersAreFifos
CHECK_DEADLOCK FALSE

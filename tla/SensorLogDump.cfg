SPECIFICATION DumpSpec
CONSTANTS
    s1 = s1  u1 = u1  c1 = c1  w1 = w1  w2 = w2
    NULL = NULL
    StorageStreams = {s1}
    OutputStreams = {}
    UnbufferedStreams = {u1}
    ConstantStreams = {}
    CounterStreams = {c1}
    Selectors <- EachKind
    Walkers = {w1, w2}
    Values = {1}
    MaxStorage = 2
    MaxStreaming = 1
    EraseSize = 1
    MaxId = 3
SYMMETRY WalkerSymmetry
CONSTRAINT OneKindOfStream
INVARIANTS RestoredWalkersFit
PROPERTIES RestoreGivesBack RestoreSucceeds
CHECK_DEADLOCK FALSE

SPECIFICATION TransportsSpec
CONSTANTS
    NULL = NULL  x1 = x1  x2 = x2  r1 = r1
    Parts = {"aws"}
    JLCalls <- FourCalls
    JLConns <- TwoOfThem
    JLKinds <- JLKindsSmall
    JLAtOnce = 2
    JLRetries = 1
    JLTasks <- Tasks
    JLPushes = 2
    JLQueueSize = 3
    JLFaults = 1
    AWCalls <- FiveCalls
    AWClients <- TwoOfThem
    AWKinds <- AWKindsForeign
    AWMaxQueue = 2
    AWMaxInbox = 2
    AWRepeats = 0
    AWHangs = 0
    AWDrops = 0
    PQPackets = 5
    PQRepeats = 1
    PQResets = 1
    PQRaises = 1
    B112Calls <- ThreeCalls
    B112Conns = {"c1", "c2"}
    B112Handles = {0}
    B112Retries = 1
    B112Chunks = 1
    HwDevices <- TwoOfThem
    HwMaxItems = 1
    HwMaxQueues = 2
    HwMaxEvents = 2
    HwMaxRPCs = 1
    RemDevices = {r1}
    RemCalls <- ThreeCalls
    RemKinds <- RemKindsSmall
    RemMaxEvents = 1
INVARIANTS
    AWForeignAnswersAreDropped
SYMMETRY Symmetry
CHECK_DEADLOCK FALSE

SPECIFICATION ProgressSpec
CONSTANTS
    NULL = NULL  c1 = c1  t1 = t1  t2 = t2  t3 = t3
    Parts = {"ble", "bled112", "loop"}
    BleCalls <- ThreeCalls
    BleConns = {c1}
    OneDevice = TRUE
    MaxRetries = 1
    MaxQueue = 3
    B112Calls <- TwoCalls
    B112Conns = {"c1", "c2"}
    B112Handles = {0}
    B112Retries = 1
    B112Chunks = 1
    ELThreads = {t1, t2, t3}
    ELCalls = {"add_task", "add_subtask", "run_coroutine", "stop_task", "stop"}
INVARIANTS
    BleAgrees
    ELStoppedMeansEnded
PROPERTIES
    BlockedReturns
    ELCallsReturn
CHECK_DEADLOCK FALSE

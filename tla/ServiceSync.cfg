SPECIFICATION Spec
CONSTANTS
    Clients = {c1, c2}
    Services = {"a", "b"}
    Expected <- OneService
    States = {"unknown", "running"}
    Unknown = "unknown"
    Texts = {x, y}
    Headlines = {h}
    MaxMessages = 1
    MaxChanges = 3
    MaxNotifying = 2
    NULL = NULL
INVARIANTS CopiesAgree
SYMMETRY Symmetric
CHECK_DEADLOCK FALSE

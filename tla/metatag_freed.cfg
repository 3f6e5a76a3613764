SPECIFICATION CarefulSpec
CONSTANTS
    Threads = {t1, t2}
    Nodes = {n1, n2, n3}
    NULL = NULL
    Ops = {"create", "get"}
    Ids = {1}
    NInit = 1
    SizeMod = 16
    MaxCalls = 2
INVARIANTS UseLive
CHECK_DEADLOCK FALSE

SPECIFICATION FairCbSpec
CONSTANTS
    Threads = {t1}
    Nodes = {n1, n2, n3}
    NULL = NULL
    Ops = {"register", "get"}
    Ids = {2}
    NInit = 1
    SizeMod = 16
    MaxCalls = 3
PROPERTIES CallbacksReturn
CHECK_DEADLOCK FALSE

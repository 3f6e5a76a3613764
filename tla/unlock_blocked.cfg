SPECIFICATION FairCarefulSpec
CONSTANTS
    Threads = {t1, t2}
    Nodes = {n1, n2}
    NULL = NULL
    Ops = {"lock", "unlock", "destroy"}
    Ids = {2}
    NInit = 1
    SizeMod = 16
    MaxCalls = 1
PROPERTIES UnlockReturns
CHECK_DEADLOCK FALSE

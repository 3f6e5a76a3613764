SPECIFICATION FairSpec
CONSTANTS
    Threads = {t1, t2, t3}
    Nodes = {n1, n2, n3, n4}
    NULL = NULL
    Ops = {"create", "destroy", "get"}
    Ids = {1, 2}
    NInit = 1
    SizeMod = 16
    MaxCalls = 1
PROPERTIES TreeCallsReturn
CHECK_DEADLOCK FALSE

SPECIFICATION FairOrderedSpec
CONSTANTS
    Threads = {t1, t2}
    Nodes = {n1, n2}
    NULL = NULL
    Ops = {"register", "unregister", "create", "lock", "unlock", "set", "read"}
    Ids = {2, 3}
    NInit = 1
    SizeMod = 16
    MaxCalls = 2
INVARIANTS CallbackOwnsTag TagExclusion EventsBracketed
PROPERTIES CallsReturn
CHECK_DEADLOCK FALSE

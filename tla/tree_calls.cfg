SPECIFICATION Spec
CONSTANTS
    Threads = {t1, t2}
    Nodes = {n1, n2, n3, n4, n5, n6}
    NULL = NULL
    Ops = {"create", "create_meta", "destroy", "get", "get_size", "status", "register"}
    Ids = {1, 2, 3}
    NInit = 1
    SizeMod = 16
    MaxCalls = 2
SYMMETRY Symmetry
INVARIANTS TypeOK NodesAccounted MetaListsAll RwBalanced InsideAlone
PROPERTIES TreeStableUnderLock RefinesRegistry
CHECK_DEADLOCK FALSE

SPECIFICATION Spec
CONSTANTS
    Ops = {"create", "create_meta", "destroy"}
    NInit = 2
    NameLengths = {1, 30}
    LenMod = 65536
    MaxId = 6
    MaxCalls = 5
    GARBAGE = GARBAGE
INVARIANTS TypeOK WalkParses WalkComplete

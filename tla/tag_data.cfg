SPECIFICATION Spec
CONSTANTS
    NInit = 1
    Offsets <- MCOffsets
    Widths = {1, 2, 8}
    Values = {9}
    Attributes <- MCAttributes
    MaxAttribs = 2
    MaxCalls = 4
    NULL = NULL
INVARIANTS TypeOK StraysKnown ReadsLastWrite CreateRight
CHECK_DEADLOCK FALSE

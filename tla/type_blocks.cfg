SPECIFICATION CallSpec
CONSTANTS
    Kinds = {3}
    Lengths = {3}
    MaxFields = 2
    Addrs = {7, 8, 9, 10, 11}
    MaxTypes = 2
    SizeMod = 32
INVARIANTS TypeOK Apart FreeSafe OnlyStructsLeak OnlyCopiesOverrun StaysAsAsked SizeIsSum
PROPERTIES LeftAlone KeepsOwnership
CHECK_DEADLOCK FALSE

SPECIFICATION Spec
CONSTANTS
    Keys = {1, 2, 3, 4, 5, 6, 7, 8, 9}
    NULL = NULL
INVARIANTS TypeOK LinksMatch SearchOrder RankRule LookupsRight
PROPERTIES RefinesSet
CHECK_DEADLOCK FALSE

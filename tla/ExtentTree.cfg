SPECIFICATION Spec
CONSTANTS
    DataStart = 2
    TotalBlocks = 11
    MaxExtentLength = 2
INVARIANTS
    TypeOK
    TreeIsFree
    ExtentsApart
    MissesOnlyBehindFull
    TreeIsFreeExtents
PROPERTIES
    PassEnds
CHECK_DEADLOCK FALSE

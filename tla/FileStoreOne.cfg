SPECIFICATION Spec
CONSTANTS
    DataStart = 2
    TotalBlocks = 8
    MaxExtentLength = 2
    BlockSize = 2
    DirectExtents = 2
    IndirectSlots = 1
    MaxFileCount = 1
    Handles = {h1}
    ModeWord = 7
    PointerWord = 9
    SizeModulus = 1048576
    Offsets = {0, 3, 6}
    MaxDirectories = 1
INVARIANTS
    NoLeak
PROPERTIES
    GrowthKeepsCoverage
    CallReturns
CHECK_DEADLOCK FALSE

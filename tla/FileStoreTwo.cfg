SPECIFICATION Spec
CONSTANTS
    DataStart = 2
    TotalBlocks = 5
    MaxExtentLength = 2
    BlockSize = 2
    DirectExtents = 1
    IndirectSlots = 1
    MaxFileCount = 2
    Handles = {h1}
    ModeWord = 7
    PointerWord = 9
    SizeModulus = 1048576
    Offsets = {0, 1, 4}
    MaxDirectories = 1
INVARIANTS
    TypeOK
    Ownership
    MemorySafe
PROPERTIES
    CallReturns
CHECK_DEADLOCK FALSE

SPECIFICATION MCSpec
CONSTANTS
    DataStart = 2
    TotalBlocks = 7
    MaxExtentLength = 1
    MaxFileCount = 4
    BufEntries = 3
    DirectExtents = 1
    IndirectSlots = 2
    ExtentBytes = 8
    EntryBytes = 52
    Residues = {2}
    MaxCalls = 4
    MaxSyncs = 2
    MaxLosses = 2
    MaxEvents = 3
INVARIANTS
    TypeOK
    
    ListsAreTheirOwn
    SlotsAreNotLost

    
CHECK_DEADLOCK FALSE

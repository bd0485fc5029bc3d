SPECIFICATION Spec
CONSTANTS
    DataStart = 2
    TotalBlocks = 7
    MaxExtentLength = 2
    Thread = {t1, t2}
    MaxFileCount = 2
    Dir = {11, 12}
    StoredDir <- MCStoredDir
    BitsPerByte = 2
    DirectExtents = 2
    Wanted = {1, 3}
    MaxCalls = 5
INVARIANTS
    TypeOK
    CollisionsHaveACause
    SlotsHaveOneFile
    LookUpsAreRight
PROPERTIES
    CallsReturn
CHECK_DEADLOCK FALSE

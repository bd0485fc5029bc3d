SPECIFICATION Spec
CONSTANTS
    DataStart = 2
    TotalBlocks = 5
    MaxExtentLength = 1
    BlockSize = 2
    DirectExtents = 4
    Modulus = 1048576
    SizeModulus = 1048576
    File = {1, 2}
    Byte = {"0", "a"}
    Zero = "0"
    Hole = "hole"
    Data <- MCData
    Offsets = {0, 3}
INVARIANTS
    TypeOK
PROPERTIES
    FilesKeepTheirBytes
    CallsEnd
CHECK_DEADLOCK FALSE

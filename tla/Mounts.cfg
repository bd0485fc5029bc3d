SPECIFICATION Spec
CONSTANTS
    Word = 48
    BlockSize = 2
    BlocksPerGB = 16
    FilesPerGB = 1
    EntryBytes = 2
    MemoryBytes = 3
    File = {storage, other}
    StorageFile = storage
    NoFile = none
    MaxGB = 2
    MaxMounts = 2
    MaxFormats = 1
    MaxEvents = 1
INVARIANTS
    TypeOK
    OwnFile
    NoUseAfterClose
    NoFileLeftOpen
    FoundWhole
CHECK_DEADLOCK FALSE

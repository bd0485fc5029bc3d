\* Big-endian machine: what a mount reads is what was written.
SPECIFICATION Spec
CONSTANTS
    Name = {a, b}
    MaxFileCount = 3
    MaxDirEntries = 2
    NumBlocks = 2
    LittleEndian = FALSE
    MaxIno = 4
INVARIANTS
    TypeOK
    NamesAreFiles
    CachesAreCurrent
PROPERTIES
    RmdirOnlyEmpty
    NamesSurviveRemount

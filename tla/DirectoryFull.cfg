\* A directory block that holds one name, and room for two files.
SPECIFICATION Spec
CONSTANTS
    Name = {a, b}
    MaxFileCount = 3
    MaxDirEntries = 1
    NumBlocks = 2
    LittleEndian = FALSE
    MaxIno = 4
INVARIANTS
    FilesCanBeFound

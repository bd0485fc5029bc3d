\* Little-endian machine: every file number is read as 0.
SPECIFICATION Spec
CONSTANTS
    Name = {a, b}
    MaxFileCount = 3
    MaxDirEntries = 2
    NumBlocks = 2
    LittleEndian = TRUE
    MaxIno = 4
PROPERTIES
    NamesSurviveRemount

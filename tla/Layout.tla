------------------------------- MODULE Layout -------------------------------
(***************************************************************************)
(* How the tool divides a storage file of n gigabytes, and where the       *)
(* kernel looks for its blocks (StorageManager::createSuperblock,          *)
(* kernel/super.c, kernel/file.c).  All sizes are 32-bit numbers; `Word`   *)
(* is the number of their values.                                          *)
(***************************************************************************)
EXTENDS Naturals

CONSTANTS
    Word,            \* 2^32
    BlockSize,       \* blockSize_, 4096
    BlocksPerGB,     \* 262144
    FilesPerGB,      \* a gigabyte divided by averageFileSize_, 1024
    EntryBytes,      \* sizeof(struct disk_filetable_entry), 52
    MemoryBytes      \* sizeof(struct filetable_entry), 72

ASSUME LayoutAssumption ==
    /\ Word \in Nat \ {0}
    /\ BlockSize \in Nat \ {0}
    /\ BlocksPerGB \in Nat \ {0}
    /\ FilesPerGB \in Nat \ {0}
    /\ EntryBytes \in Nat \ {0}
    /\ MemoryBytes \in Nat \ {0}

-----------------------------------------------------------------------------
\* The fields of the superblock.
TotalBlocks(n) == (n * BlocksPerGB) % Word
MaxFileCount(n) == (n * FilesPerGB) % Word
FileTableStart == 1
FileTableSize(n) == ((MaxFileCount(n) * EntryBytes) % Word) \div BlockSize

BlockBitmapStart(n) == (FileTableStart + FileTableSize(n)) % Word
BlockBitmapSize(n) == (TotalBlocks(n) \div 8) \div BlockSize
DataStart(n) == (BlockBitmapStart(n) + BlockBitmapSize(n)) % Word

\* The block at which a read or write of block b takes place: the offset in
\* bytes is a product of two 32-bit numbers.
At(b) == ((b * BlockSize) % Word) \div BlockSize

\* The slots portfs_get_fe_root looks at: as many entries as the area on disk
\* would hold in memory.
SlotsLookedAt(n) == ((FileTableSize(n) * BlockSize) % Word) \div MemoryBytes

-----------------------------------------------------------------------------
\* Every entry of the table and a bit for every block have room in their areas,
\* the areas follow each other, and a block is left for data.
AreasFit(n) ==
    /\ MaxFileCount(n) * EntryBytes <= FileTableSize(n) * BlockSize
    /\ TotalBlocks(n) <= 8 * BlockBitmapSize(n) * BlockSize
    /\ FileTableStart + FileTableSize(n) <= BlockBitmapStart(n)
    /\ BlockBitmapStart(n) + BlockBitmapSize(n) <= DataStart(n)
    /\ DataStart(n) < TotalBlocks(n)

\* Every block is read and written at its own place.
EveryBlockInPlace(n) == \A b \in 0 .. (TotalBlocks(n) - 1) : At(b) = b
=============================================================================

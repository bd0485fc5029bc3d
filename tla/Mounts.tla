------------------------------- MODULE Mounts -------------------------------
(***************************************************************************)
(* Formatting, mounting and unmounting storage files: the tool             *)
(* (user/StorageManager.cpp, user/UIManager.cpp) and the life of a mount   *)
(* in the kernel (kernel/super.c, kernel/storage.c).                       *)
(*                                                                         *)
(* The kernel keeps the path and the open file of a mount in two variables *)
(* that all mounts share.  A mount is a sequence of steps between which    *)
(* another mount, a call or the tool may run.  A sync is one step here     *)
(* (SyncDisk has its steps, and power failures); it may write everything   *)
(* or stop anywhere.  Of the storage file only the blocks of the           *)
(* superblock, the table and the bitmap are kept.                          *)
(***************************************************************************)
EXTENDS Layout, Integers

CONSTANTS
    File,            \* storage files
    StorageFile,     \* the one the tool formats, /var/tmp/storage.pfs
    NoFile,          \* no storage file, or no path in the options of a mount
    MaxGB,           \* bound: size of a storage file
    MaxMounts,       \* bound: mounts in a history
    MaxFormats,      \* bound: runs of the tool in a history
    MaxEvents        \* bound: writes of data and lists, and syncs and reads that
                     \* stop early, in a history

ASSUME MountsAssumption ==
    /\ StorageFile \in File
    /\ NoFile \notin File
    /\ MaxGB \in Nat \ {0}
    /\ MaxMounts \in Nat
    /\ MaxFormats \in Nat
    /\ MaxEvents \in Nat

VARIABLES
    exists,          \* the files that exist
    block,           \* the first blocks of each file
    tool,            \* the run of the tool
    formats,         \* runs of the tool so far
    events,          \* see MaxEvents
    storage_path,
    storage_filp,
    handle,          \* the file each mount has opened and nobody closed
    mnt,             \* the mounts
    torn,            \* history: files whose table and bitmap may not be of one moment
    past,            \* history: what has happened that may do harm
    fault            \* a file was used that is not open

host == <<exists, block>>
user == <<tool, formats>>
kernel == <<storage_path, storage_filp, handle, mnt>>
vars == <<host, user, events, kernel, torn, past, fault>>

-----------------------------------------------------------------------------
Mount == 1 .. MaxMounts
Area == 0 .. (DataStart(MaxGB) - 1)

\* Contents of a block: nothing behind the end of the file, zeroes, the
\* superblock of n gigabytes, block i of the table or bitmap that mount m wrote,
\* data.
Eof == <<"eof", 0, 0>>
Zero == <<"zero", 0, 0>>
Super(n) == <<"super", n, 0>>
Table(m, i) == <<"table", m, i>>
Bits(m, i) == <<"bits", m, i>>
Data == <<"data", 0, 0>>

NullFilp == 0
ErrFilp == -1

\* What a mount finds when the superblock was not read or is not one.
Unread == -1
Junk == -2

\* `mixed` is history: what the mount has in memory was not of one moment.
NoMount ==
    [at |-> "none", wants |-> NoFile, n |-> Unread, table |-> <<>>, bits |-> <<>>,
     mixed |-> FALSE]
ToolIdle == [at |-> "idle", n |-> 0]

\* A file that was formatted and never mounted.
Formatted(n) ==
    [b \in Area |-> IF b = 0 THEN Super(n) ELSE IF b < DataStart(n) THEN Zero ELSE Data]

Init ==
    /\ exists \in {File, File \ {StorageFile}}
    /\ block = [f \in File |-> IF f \in exists THEN Formatted(1) ELSE [b \in Area |-> Eof]]
    /\ tool = ToolIdle
    /\ formats = 0
    /\ events = 0
    /\ storage_path = NoFile
    /\ storage_filp = NullFilp
    /\ handle = [m \in Mount |-> NoFile]
    /\ mnt = [m \in Mount |-> NoMount]
    /\ torn = {}
    /\ past = {}
    /\ fault = FALSE

HasOpened(m) == mnt[m].at \in {"opened", "super", "table", "bitmap", "up", "synced"}
Active(m) == mnt[m].at \notin {"none", "failed", "gone"}

Event == events < MaxEvents /\ events' = events + 1

\* kernel_write or ofstream::write of some blocks of file f.
Write(f, new) ==
    block' = [block EXCEPT ![f] = [b \in Area |-> IF b \in DOMAIN new THEN new[b] ELSE @[b]]]

-----------------------------------------------------------------------------
\* The tool.  Its result is not asked for: UIManager::askFileSize offers to
\* mount the file however the formatting ended.

StorageInUse == \E m \in Mount : Active(m) /\ mnt[m].wants \in {StorageFile, NoFile}

FormatStep(here, next, harm) ==
    /\ tool.at = here /\ ~fault
    /\ tool' = [tool EXCEPT !.at = next]
    /\ past' = past \cup (IF harm THEN {"format failed"} ELSE {})
                    \cup (IF StorageInUse THEN {"formatted in use"} ELSE {})
    /\ UNCHANGED <<exists, formats, events, kernel, fault>>

\* createFile: an existing file keeps its contents up to the new size.
CreateFile(n) ==
    /\ tool.at = "idle" /\ ~fault
    /\ formats < MaxFormats
    /\ formats' = formats + 1
    /\ exists' = exists \cup {StorageFile}
    /\ tool' = [at |-> "super", n |-> n]
    /\ Write(StorageFile, [b \in Area |-> IF n = 0 THEN Eof
                                          ELSE IF block[StorageFile][b] = Eof THEN Zero
                                          ELSE block[StorageFile][b]])
    /\ past' = past \cup (IF StorageInUse THEN {"formatted in use"} ELSE {})
    /\ UNCHANGED <<events, kernel, torn, fault>>

\* ftruncate fails: the file exists if it did not before, and the tool exits.
CreateFileFails ==
    /\ tool.at = "idle" /\ ~fault
    /\ formats < MaxFormats
    /\ formats' = formats + 1
    /\ exists' = exists \cup {StorageFile}
    /\ past' = past \cup (IF StorageFile \in exists THEN {} ELSE {"format failed"})
    /\ UNCHANGED <<block, tool, events, kernel, torn, fault>>

\* The stream cannot be opened: formatStorage returns -1.
FormatGivesUp ==
    /\ \E here \in {"super", "table", "bitmap"} : FormatStep(here, "idle", TRUE)
    /\ UNCHANGED <<block, torn>>

\* The result of write is not asked for.
WriteSuperblock ==
    \E written \in BOOLEAN :
        /\ FormatStep("super", "table", ~written)
        /\ Write(StorageFile, [b \in {c \in {0} : written} |-> Super(tool.n)])
        /\ UNCHANGED torn

\* Zeroes, up to the write that fails.
WriteZeroes(here, next, start, size) ==
    \E k \in 0 .. size :
        /\ FormatStep(here, next, k < size)
        /\ Write(StorageFile, [b \in At(start) .. (At(start) + k - 1) |-> Zero])

WriteFileTable ==
    /\ WriteZeroes("table", "bitmap", FileTableStart, FileTableSize(tool.n))
    /\ UNCHANGED torn

WriteBlockBitmap ==
    /\ WriteZeroes("bitmap", "idle", BlockBitmapStart(tool.n), BlockBitmapSize(tool.n))
    /\ torn' = torn \ {StorageFile}

-----------------------------------------------------------------------------
\* A mount, and what it does through storage_filp.

FilpIsOpen == storage_filp \in Mount /\ handle[storage_filp] # NoFile
TheFile == handle[storage_filp]

Uses(m, here) == mnt[m].at = here /\ ~fault

\* The file is not open, or storage_filp is an error number.
UseOfClosedFile ==
    /\ \E m \in Mount : HasOpened(m) /\ ~fault
    /\ ~FilpIsOpen
    /\ fault' = TRUE
    /\ UNCHANGED <<host, user, events, kernel, torn, past>>

Step(m, here, change) ==
    /\ Uses(m, here) /\ FilpIsOpen
    /\ mnt' = [mnt EXCEPT ![m] = change]
    /\ UNCHANGED <<user, storage_path, storage_filp, fault>>

\* portfs_init_fs_data takes the path from the options; an option string
\* without one leaves the path of the last mount.
BeginMount(m, f) ==
    /\ mnt[m] = NoMount /\ ~fault
    /\ \A o \in Mount : o < m => mnt[o] # NoMount
    /\ storage_path' = IF f = NoFile THEN storage_path ELSE f
    /\ mnt' = [mnt EXCEPT ![m].at = "begun", ![m].wants = f]
    /\ past' = past \cup (IF f = NoFile THEN {"no path"} ELSE {})
                    \cup (IF \E o \in Mount : Active(o) THEN {"overlap"} ELSE {})
                    \cup (IF tool.at # "idle" /\ f \in {StorageFile, NoFile}
                          THEN {"formatted in use"} ELSE {})
    /\ UNCHANGED <<host, user, events, storage_filp, handle, torn, fault>>

\* Faulty variant: the file is opened only once.
OpenStorageOnce(m) ==
    /\ Uses(m, "begun")
    /\ IF storage_path \in exists
       THEN /\ storage_filp' = IF storage_filp = NullFilp THEN m ELSE storage_filp
            /\ handle' = [handle EXCEPT ![m] = storage_path]
            /\ mnt' = [mnt EXCEPT ![m].at = "opened"]
       ELSE /\ storage_filp' = ErrFilp
            /\ mnt' = [mnt EXCEPT ![m].at = "failed"]
            /\ UNCHANGED handle
    /\ UNCHANGED <<host, user, events, storage_path, torn, past, fault>>

\* portfs_storage_init
OpenStorage(m) ==
    /\ Uses(m, "begun")
    /\ IF storage_path \in exists
       THEN /\ storage_filp' = m
            /\ handle' = [handle EXCEPT ![m] = storage_path]
            /\ mnt' = [mnt EXCEPT ![m].at = "opened"]
       ELSE /\ storage_filp' = ErrFilp
            /\ mnt' = [mnt EXCEPT ![m].at = "failed"]
            /\ UNCHANGED handle
    /\ UNCHANGED <<host, user, events, storage_path, torn, past, fault>>

\* The size a superblock tells.  The magic number is not looked at; of an empty
\* file nothing is read into the buffer.
SizeIn(b) == IF b[1] = "super" THEN b[2] ELSE IF b = Zero THEN 0 ELSE Junk

\* portfs_init_superblock
ReadSuperblock(m) ==
    /\ Step(m, "opened", [mnt[m] EXCEPT !.at = "super", !.n = SizeIn(block[TheFile][0])])
    /\ UNCHANGED <<host, events, handle, torn, past>>

\* The product of a start and the block size is a 32-bit number; from there the
\* offset runs on.
BlocksAt(start, size) == [i \in 0 .. (size - 1) |-> block[TheFile][At(start) + i]]

\* portfs_init_filetable; a junk superblock leads anywhere.  A table of no
\* blocks cannot be allocated.
ReadFileTable(m) ==
    /\ mnt[m].n # 0
    /\ Step(m, "super",
            [mnt[m] EXCEPT !.at = "table",
                           !.table = IF mnt[m].n = Junk THEN <<Data>>
                                     ELSE BlocksAt(FileTableStart, FileTableSize(mnt[m].n))])
    /\ UNCHANGED <<host, events, handle, torn, past>>

\* portfs_init_block_bitmap.  A short read passes for a whole one: the blocks it
\* did not reach are what vmalloc left there.
ReadBlockBitmap(m) ==
    LET n == mnt[m].n
        size == IF n = Junk THEN 0 ELSE BlockBitmapSize(n)
    IN  /\ \E k \in 0 .. size :
              /\ Step(m, "table",
                      [mnt[m] EXCEPT !.at = "bitmap",
                                     !.bits = IF n = Junk THEN <<Data>>
                                              ELSE BlocksAt(BlockBitmapStart(n), k),
                                     !.mixed = k < size \/ TheFile \in torn])
              /\ IF k < size THEN Event ELSE UNCHANGED events
        /\ UNCHANGED <<host, handle, torn, past>>

\* portfs_get_fe_root, a free slot if there is no root yet, and d_make_root.  From
\* here on table and bitmap are the mount's own, and what they were is not kept.
MakeRoot(m) ==
    /\ Step(m, "bitmap", [mnt[m] EXCEPT !.at = "up", !.table = <<>>, !.bits = <<>>])
    /\ UNCHANGED <<host, events, handle, torn, past>>

\* Any allocation or read fails, or no slot is left for the root: nobody closes
\* the file.
MountFails(m) ==
    /\ \E here \in {"opened", "super", "table", "bitmap"} :
          Step(m, here, [NoMount EXCEPT !.at = "failed"])
    /\ past' = past \cup {"failed open"}
    /\ UNCHANGED <<host, events, handle, torn>>

\* filp_close
CloseFilp == handle' = [handle EXCEPT ![storage_filp] = NoFile]

\* Faulty variant: nobody closes the file.
RootFailsOpen(m) ==
    /\ Step(m, "bitmap", [NoMount EXCEPT !.at = "failed"])
    /\ UNCHANGED <<host, events, handle, torn, past>>

\* new_inode or d_make_root fails: the file is closed, storage_filp stays.
RootFails(m) ==
    /\ Step(m, "bitmap", [NoMount EXCEPT !.at = "failed"])
    /\ CloseFilp
    /\ UNCHANGED <<host, events, torn, past>>

-----------------------------------------------------------------------------
\* Faulty variant: the place is not compared with the start of the data.
WriteDataAnywhere(m) ==
    LET n == mnt[m].n IN
    /\ Step(m, "up", mnt[m])
    /\ n > 0
    /\ Event
    /\ \E start \in DataStart(n) .. (TotalBlocks(n) - 1) :
          \E j \in 0 .. (TotalBlocks(n) - 1 - start) :
             /\ At(start) + j \in Area
             /\ Write(TheFile, [c \in {At(start) + j} |-> Data])
    /\ UNCHANGED <<exists, handle, torn, past>>

\* portfs_file_write: block j of an extent is written.  The offset of its start
\* may wrap (portfs_calc_global_offset); an offset in front of the data is refused.
WriteData(m) ==
    LET n == mnt[m].n IN
    /\ Step(m, "up", mnt[m])
    /\ n > 0
    /\ Event
    /\ \E start \in DataStart(n) .. (TotalBlocks(n) - 1) :
          \E j \in 0 .. (TotalBlocks(n) - 1 - start) :
             /\ At(start) + j >= At(DataStart(n))
             /\ At(start) + j \in Area
             /\ Write(TheFile, [c \in {At(start) + j} |-> Data])
    /\ UNCHANGED <<exists, handle, torn, past>>

\* The first `size` blocks of an area.
Run(start, size) == At(start) .. (At(start) + size - 1)

\* Faulty variant: the table is written a block too far.
SyncedBlocksShifted(m, n, t, s, list) ==
    [b \in {0} \cup Run(FileTableStart, t) \cup Run(BlockBitmapStart(n), s) \cup list |->
        IF b \in list THEN Data
        ELSE IF b \in Run(BlockBitmapStart(n), s) THEN Bits(m, b - At(BlockBitmapStart(n)))
        ELSE IF b \in Run(FileTableStart, t) THEN Table(m, b - At(FileTableStart) - 1)
        ELSE Super(n)]

\* What a sync leaves that got to block t of the table and block s of the bitmap:
\* the superblock, these blocks, and the list that none of them went over.
SyncedBlocks(m, n, t, s, list) ==
    [b \in {0} \cup Run(FileTableStart, t) \cup Run(BlockBitmapStart(n), s) \cup list |->
        IF b \in list THEN Data
        ELSE IF b \in Run(BlockBitmapStart(n), s) THEN Bits(m, b - At(BlockBitmapStart(n)))
        ELSE IF b \in Run(FileTableStart, t) THEN Table(m, b - At(FileTableStart))
        ELSE Super(n)]

\* portfs_write_file_data, portfs_write_dir_data: a list of extents or of names
\* is written to its block after p blocks of the table; no guard keeps an offset
\* that wraps away from the front of the file.
SyncList(m, n, t, s) ==
    /\ Event
    /\ \E b \in DataStart(n) .. (TotalBlocks(n) - 1), p \in 0 .. t :
          /\ p < FileTableSize(n)
          /\ At(b) \in Area
          /\ LET after == (At(FileTableStart) + p .. At(FileTableStart) + t - 1)
                             \cup Run(BlockBitmapStart(n), s)
             IN  Write(TheFile, SyncedBlocks(m, n, t, s, {At(b)} \ after))
          /\ past' = past \cup (IF At(b) = b THEN {} ELSE {"wrapped"})

\* The write of the superblock fails.
SyncNothing == UNCHANGED <<block, events, torn, past>>

\* The table and then the bitmap are written, up to the write that fails.  A file
\* of which nothing was written stays as it was; one that is written whole is of
\* one moment, unless the mount had only a mixture to write.
SyncMetadata(m, n) ==
    \E t \in 0 .. FileTableSize(n), s \in 0 .. BlockBitmapSize(n) :
        LET whole == t = FileTableSize(n) /\ s = BlockBitmapSize(n) IN
        /\ s > 0 => t = FileTableSize(n)
        /\ \/ SyncList(m, n, t, s)
           \/ /\ IF whole THEN UNCHANGED events ELSE Event
              /\ Write(TheFile, SyncedBlocks(m, n, t, s, {}))
              /\ UNCHANGED past
        /\ torn' = IF whole /\ ~mnt[m].mixed THEN torn \ {TheFile}
                   ELSE IF t + s = 0 THEN torn
                   ELSE torn \cup {TheFile}

\* A junk superblock leads anywhere.
SyncJunk ==
    /\ Write(TheFile, [b \in Area |-> Data])
    /\ torn' = torn \cup {TheFile}
    /\ UNCHANGED <<events, past>>

\* portfs_sync_fs.  A failing vfs_fsync changes nothing another mount could read.
Sync(m, here, next) ==
    /\ Step(m, here, [mnt[m] EXCEPT !.at = next])
    /\ \/ SyncNothing
       \/ mnt[m].n = Junk /\ SyncJunk
       \/ mnt[m].n # Junk /\ SyncMetadata(m, mnt[m].n)
    /\ UNCHANGED <<exists, handle>>

SyncFs(m) == Sync(m, "up", "up")

\* generic_shutdown_super syncs, then calls portfs_put_super however that ended.
Unmount(m) == Sync(m, "up", "synced")

\* Faulty variant: called again by the shutdown it calls, it closes again.
PutSuperTwice(m) ==
    /\ Step(m, "synced", [mnt[m] EXCEPT !.at = "synced"])
    /\ CloseFilp
    /\ UNCHANGED <<host, events, torn, past>>

\* portfs_put_super
PutSuper(m) ==
    /\ Step(m, "synced", [NoMount EXCEPT !.at = "gone"])
    /\ CloseFilp
    /\ UNCHANGED <<host, events, torn, past>>

-----------------------------------------------------------------------------
Next ==
    \/ \E n \in 0 .. MaxGB : CreateFile(n)
    \/ CreateFileFails \/ FormatGivesUp
    \/ WriteSuperblock \/ WriteFileTable \/ WriteBlockBitmap
    \/ \E m \in Mount :
          \/ \E f \in File \cup {NoFile} : BeginMount(m, f)
          \/ OpenStorage(m) \/ ReadSuperblock(m) \/ ReadFileTable(m) \/ ReadBlockBitmap(m)
          \/ MakeRoot(m) \/ MountFails(m) \/ RootFails(m)
          \/ WriteData(m) \/ SyncFs(m) \/ Unmount(m) \/ PutSuper(m)
    \/ UseOfClosedFile

Spec == Init /\ [][Next]_vars

-----------------------------------------------------------------------------
Contents ==
    {Eof, Zero, Data} \cup {Super(n) : n \in 0 .. MaxGB}
      \cup {Table(m, i) : m \in Mount, i \in Area} \cup {Bits(m, i) : m \in Mount, i \in Area}

TypeOK ==
    /\ exists \subseteq File
    /\ \A f \in File : DOMAIN block[f] = Area /\ \A b \in Area : block[f][b] \in Contents
    /\ tool.at \in {"idle", "super", "table", "bitmap"} /\ tool.n \in 0 .. MaxGB
    /\ formats \in 0 .. MaxFormats
    /\ events \in 0 .. MaxEvents
    /\ storage_path \in File \cup {NoFile}
    /\ storage_filp \in Mount \cup {NullFilp, ErrFilp}
    /\ handle \in [Mount -> File \cup {NoFile}]
    /\ \A m \in Mount :
          /\ mnt[m].at \in {"none", "begun", "opened", "super", "table", "bitmap", "up",
                            "synced", "failed", "gone"}
          /\ mnt[m].wants \in File \cup {NoFile}
          /\ mnt[m].n \in {Unread, Junk} \cup 0 .. MaxGB
          /\ mnt[m].mixed \in BOOLEAN
    /\ torn \subseteq File
    /\ past \subseteq {"overlap", "no path", "failed open", "format failed",
                       "formatted in use", "wrapped"}
    /\ fault \in BOOLEAN

\* A mount reads and writes its own storage file, through a file that is open,
\* from the first read to the last write - whatever was mounted, failed to mount
\* or was unmounted before - unless two mounts were there at a time or a mount
\* was given no path.
OwnFile ==
    past \cap {"overlap", "no path"} = {} =>
        \A m \in Mount : HasOpened(m) => FilpIsOpen /\ TheFile = mnt[m].wants

\* A closed file, or the error of a failed open, is used only when two mounts
\* were there at a time.
NoUseAfterClose == fault => "overlap" \in past

\* When nothing is mounted no storage file is open, unless a mount failed between
\* the opening of the file and the making of the root.
NoFileLeftOpen ==
    (\A m \in Mount : ~Active(m)) /\ "failed open" \notin past =>
        \A m \in Mount : handle[m] = NoFile

\* Faults that make a table and a bitmap of different moments, or data in their
\* place: a format step that failed (which the tool passes over), a format of a
\* mounted file, two mounts at a time, a list written beyond 32 bits.
Harms == {"format failed", "formatted in use", "overlap", "wrapped"}

\* What a mount has read is of one moment, of the formatting or of a sync.
WholeFrom(m, moment) ==
    /\ mnt[m].n \in 1 .. MaxGB
    /\ mnt[m].table = [i \in 0 .. (FileTableSize(mnt[m].n) - 1) |->
                         IF moment = 0 THEN Zero ELSE Table(moment, i)]
    /\ mnt[m].bits = [i \in 0 .. (BlockBitmapSize(mnt[m].n) - 1) |->
                         IF moment = 0 THEN Zero ELSE Bits(moment, i)]

\* A mount finds a table and a bitmap of one and the same moment, in the places
\* its superblock names.  File data never lands on them, although its offsets
\* wrap, and a format or a later whole sync of the mount that had torn them makes
\* them whole again.  Nothing less than one of the Harms, a short read of the
\* bitmap, or a last sync that stopped between the first block of the table and
\* the last of the bitmap - or was of a mount that had found such a file - breaks
\* this.
FoundWhole ==
    past \cap Harms = {} =>
        \A m \in Mount : mnt[m].at = "bitmap" /\ ~mnt[m].mixed =>
            \E moment \in 0 .. MaxMounts : WholeFrom(m, moment)
=============================================================================

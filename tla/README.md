# Specifications of portfs

portfs is a Linux file system that lives in one regular file of a host file
system (`kernel/`), with a command line tool that creates and formats that file
(`user/`). This directory holds TLA+ specifications of it, the TLC
configurations that check them on small instances, and TLAPS proofs of what
matters most for every size. Paths below are relative to the repository;
`PROJECT.json` gives the lines each definition stands for.

## 1. Inventory

A storage file is divided into blocks: the superblock, the file table, the
block bitmap and the data blocks from `data_start` to `total_blocks`. A mount
reads all but the data into memory, calls work on the memory copies and on data
blocks, a sync writes the copies back.

| Component | State | Operations | Correct when |
|---|---|---|---|
| Block bitmap (`bitmap.h`, `block_bitmap.h`) | one bit per block | test, set, clear, first free block | a set bit means exactly one owner |
| Free-extent tree (`extent_tree.c`) | a red-black tree, built and destroyed in each allocation | build from the bitmap, walk longest first | holds free blocks only, none twice, misses none that matter |
| Extent allocator (`extent_alloc.c`) | none of its own; extents of a slot, the list of indirect extents | allocate, load or make the indirect list, size of what is allocated | what it hands out was free and ends up owned by one file |
| Regular files (`inode.c`, `file.c`) | slot of the file table: size, extent count, direct extents, extents block, pointer to the indirect list | create, unlink, open, release, read, write, truncate, extend | every byte has a block, no block is shared or lost |
| Directories (`directory.c`) | slot with a block, the list of names in memory | load, find, add, remove, emptiness check | a name leads to the file it was given to, and only an empty directory goes away |
| Inode numbers and caches (`inode.c`, kernel) | `iunique` counter, inode cache with `i_private` pointing into the file table, name cache with negative entries | make, look up, evict | what is cached agrees with the table |
| Mount and unmount (`super.c`, `storage.c`) | superblock copy, the globals `storage_path` and `storage_filp` | mount, `put_super` | a mount uses its own open file, closes it, and finds what was there before the unmount |
| Sync (`super.c`) | the bytes in the storage file | superblock, then file table with the lists of files and directories, then bitmap, then fsync | what is on storage describes one state of memory, and a mount finds it again |
| Formatting tool (`StorageManager.cpp`) | geometry in the superblock | create the file, write superblock, file table and bitmap | the areas hold what is written to them; what can be mounted is whole |
| Tool dialogue (`UIManager.cpp`) | the answers | format and offer a mount, or mount another file | a mount follows only a formatting that worked |
| Registration, build | - | - | - |

How they interact. Every call of the kernel reaches a slot through
`inode->i_private`. `write` and `extend` call the allocator, which builds a tree
from the bitmap, walks it and marks what it takes. `lookup`, `create`,
`readdir`, `unlink` and `rmdir` load the list of a directory on first use, which
takes a block. `sync` and the next mount carry all this over. Nothing in the
module is locked; the kernel itself serialises changes of one directory
(`i_rwsem`), not changes in different directories or files.

What is hard here:

- loops over extents that mix direct and indirect ones, with unsigned
  arithmetic at their ends (`portfs_truncate`, `portfs_file_write`);
- an order of steps that matters inside one call (the tree is built before the
  extents block is taken; the slot is cleared before the name is removed);
- pointers that outlive what they point to (open files of removed names, cached
  inodes and names);
- limits: no block, no slot, a full directory, a full list of extents, a full
  extent of 1024 blocks;
- transfers that are short or fail, and what a call reports then;
- calls that run at the same time without locks, down to the bits of one byte;
- two mounts that share the variables of the module;
- a formatting that stops half-way or runs on a mounted file;
- what a crash between two writes of a sync leaves, and what a mount makes of
  it on machines of either byte order.

The hazards with their lines, and the properties that cover each, are in
`PROJECT.json`. Some of them are faults this code has: a property can then only
say that nothing goes wrong except through them, and the `note` of such a hazard
says that it is named as an exception and not caught.

## 2. The modules

| Module | Models | Composes |
|---|---|---|
| `Extents` | bitmap operations, order of the tree, reference definition of the free extents of a bitmap | - |
| `ExtentTree` | `portfs_build_extent_tree`, one loop iteration a step | `Extents` |
| `FileStore` | who owns which block: allocator, unlink, truncate, extend, read, write, handles | `Extents` |
| `Directory` | slots, numbers, names, kernel caches, remount | - |
| `FileContents` | what files promise: bytes, and what may come back where none were written | - |
| `FileIO` | read and write transfer by transfer, over the real places of the bytes | `Extents`; implements `FileContents` |
| `Races` | the calls cut where another thread may come in, with the locks the kernel does hold | `Extents` |
| `SyncDisk` | sync write by write, page cache and device, crashes, mounts | `Extents` |
| `Layout` | the geometry computed by the tool, 32-bit byte offsets | - |
| `Mounts` | formatting, mounts and unmounts of several files, `storage_path` and `storage_filp` | `Layout` |

`MCFileIO`, `MCRaces` and `MCSyncDisk` give constants and initial states for the
runs. The modules whose names end in `_proofs` hold the proofs (section 4).

`ExtentTree` and `FileStore` meet in `FreeExtents(bitmap)`: the first computes
it, loop iteration by loop iteration, and the second takes it as the content of
the tree, so that `FileStore` need not run the scan again. That the two agree is
a theorem (`ScanIsFreeExtents`).

### ExtentTree

`i` and `length` are the locals of the loop. `CountBlock`, `EndOfRun` and
`SkipBlock` are the three ways through its body, `Finish` the code behind it,
`NoMemory` a failing `kmalloc` of a node in either place. The block at which a
full extent ends is consumed without being counted, so pieces of a long run
start `MAX_EXTENT_LENGTH + 1` apart; `Extents!FreeExtents` says the same
without a loop.

### FileStore

`entry` is the file table, `handle` what the inode of an open file has in
`i_private`, `bitmap` the marked blocks, `dirBlocks` the blocks of directories,
and `call` the call in progress with the locals of its loop. `portfs_write` is
`BeginWrite`, a number of `TakeDirect` and `TakeIndirect` (one extent each) and
`AllocDone` or `AllocNoSpace`; a partial truncation is `BeginShrink`, some
`ShrinkStep` and `ShrinkDone` or `ShrinkOffTable`. All other calls are one step.
In `portfs_truncate` the index runs behind `direct_extents`: `LengthWord` and
`Foreign` say which word of the structure or of the next slots stands there.
A wrong access ends the run and is recorded in `fault`. `past` records which of
three rare situations have occurred, so that properties can say under which
history they hold: an allocation went beyond the direct extents (`spilled`), a
partial truncation removed something (`shrunk`), a file with an extents block
was removed (`orphaned`).

Left out here: the bytes and failing transfers, which are `FileIO`'s, and
failing small `kmalloc`s. Of directories only the
blocks count. Memory that was not written is zero; see the comment of the module.

### Directory

`slot` is the file table with the names of each directory, `inode` and
`dentry` are the caches of the kernel, `counter` is `iunique`'s. `Create` is
`portfs_create` and `portfs_mkdir`; `Lookup`, `Unlink`, `Rmdir`, `RmdirRefused`
and `Readdir` are one step each, with the loading of the directory that is part
of them. `ReaddirUnread` is a listing for which `portfs_load_dir_data` finds no memory
to read the block into: the list stays blank, counts as loaded, and nobody asks; any
other call that meets this is this step followed by the call. `Forget` and `Evict`
are memory pressure. `Remount` is an unmount and a mount, with or without a restart
of the machine in between. `past` records directories that overflowed, went without
a block or were not read, restarts, and mounts that lost the numbers.

### FileIO and FileContents

`FileContents` says what a user of files may expect. A file is a sequence of
bytes. What a write or an extension behind the end leaves between (`Gaps`) is
arbitrary, but it does not change afterwards: a later read returns the same
bytes. A byte below the size that has no place behind it is a `Hole`, and a read
of one fails. A write that fails may leave a prefix of its data. Every call ends.
There is no block, no extent and no storage in it.

`FileIO` has the storage file as an array of bytes (`disk`), the bitmap and the
direct extents. `TakeExtent` is one round of `portfs_allocate_memory`; `WriteChunk`
and `ReadChunk` are one round of the loops of `portfs_file_write` and
`portfs_file_read`, that is one `kernel_write` or `kernel_read` of the bytes up to
the end of the extent (`GlobalOffset`, `AvailableBytes`); `NoBuffer`, `ReadFails`,
`WriteAstray` and `ReadAstray` are the ways in which a round fails. An offset
that no extent holds gives `-EFAULT` as a place and, as a `size_t`, as the number of
bytes there; the steps `...Astray` are the rounds that get it and the `-EIO` they end
in. The last line of the module
is the refinement: `Contents` is `FileContents` with the bytes that the extents
of a file lead to put in. `FilesKeepTheirBytes` is the safety part of its
specification (`ContentsSafety`), `CallsEnd` its fairness (`ContentsEnds`). The first
fails as soon as two files share a byte, an offset is off by one or a freed block
carries its bytes over, the second as soon as a loop does not end.

### Races

A thread is inside one call: `call[t]` holds where it is and its locals. A bit is
set or cleared by `LoadByte` and `StoreByte`, because `portfs_set_bit` is `|=` on
a byte; what another thread stored in between is gone. An allocation is
`BeginWrite` (the pass over the bitmap), then for every extent `TakeExtent`,
the bits, `Attach`, and at last `SetCount`; a removal is `BeginUnlink`, then
`FreeNextExtent`, the bits, `ExtentFreed`, and at last `ClearEntry`. A creation
searches its slot (`BeginCreate`) and takes it later (`TakeSlot`). The first
look-up in a directory allocates the list, finds or reads the block and fills
the list in steps of its own; with no memory for the buffer (`NoReadBuffer`) the
list stays as it was allocated, and every name in it is missed from then on.

The kernel holds the lock of a directory exclusively for creation and removal
and shared for look-up; portfs never takes the lock of a file in `write`.
Threads therefore create and remove in a directory each, look up in the same
ones, and write and remove where they like. `past` records in which ways calls
have collided; every property says that what goes wrong has one of these causes
and no other. That is as much as this code promises. Each of the causes is needed:
with any one of them struck out of a property, TLC finds it violated within the
same bounds.

### SyncDisk

The calls are single steps on what is saved: slots with their extents, extent
lists, the names of the root, the bitmap. A sync is not: `StartSync`, then for
every slot `FillFile`, `FillDir` or `PassSlot`, which copy it into the buffer of
`BufEntries` entries (and write a list to its block on the way), `WriteBuffer`
whenever the buffer is full or the table ends, `WriteBitmap`, `Flush`. A write
may fail, and `GiveUp` is an error that is not ignored. `now` is what a read of
the storage file returns, `durable` what has reached the device; `Crash` keeps
`durable` and any part of the difference, `Unmount` is a last sync and the loss
of the memory, and `Mount` reads everything back.

The conversions are modelled by what they do: a list read at a mount is not
converted, so that its items are `swapped` on a little-endian machine, and right
again after the next sync and mount; a file with more extents than the four of an
entry writes the rest over what follows in the buffer (`spilt`); free slots keep
what `vmalloc` found (`Residues`) and the buffer what `kmalloc` found (`heap`).
`blame` collects what may be wrong on storage, `taint` what a mount has taken
over from there. Some of it the code does by itself, in a history without a crash
or a failing write: names of a root that found no free block, since
`portfs_load_dir_data` asks whether an unsigned number is below 0, stay in memory
and are saved nowhere (`names unsaved`); so does a list for which
`portfs_alloc_indirect_extents` found no block (`list unsaved`); and a
removal frees the block of a list only if data shares it, while the list may still
be in it (`list freed`). So does a load of the names that finds no memory for its
buffer (`LookUpUnread`): the names stay blank in memory, and the next sync writes
them so (`names unread`); one whose read fails leaves a freed list that the caller goes
through (`LookUpFreed`), which ends the history. The first attempts to prove `MountedIsConsistent` and
`ListsAreTheirOwn`, which did not name the first three, failed on them; the run now
starts from a full storage, too, where they occur. On a little-endian machine histories end before memory is
lost, since numbers do not survive a mount there: that is the finding of
`remount_little_endian`, and nothing could be said behind it.

Simplifications: a value that is overwritten before it reaches the device is not
what a crash leaves; the bits of all blocks reach it together; a number in
a name list is the slot it leads to.

### Layout and Mounts

`Layout` is `createSuperblock`, with the modulus of 32-bit numbers as the
constant `Word`, and the place `At(b)` at which the kernel accesses block `b`.

`Mounts` has several storage files, the blocks in front of the data of each
(`block`), the run of the tool (`tool`), the mounts (`mnt`) and the two variables
all mounts share. The tool creates the file, writes superblock, table and bitmap;
each may fail or stop half-way, and `UIManager::askFileSize` goes on to the mount
all the same. A mount begins with its options (`BeginMount` stores the path),
opens the file, reads superblock, table and bitmap, and makes its root (`MakeRoot`);
`MountFails` leaves the file open and `RootFails` closes it, as the two error paths
do. `Unmount` is the last sync, `PutSuper` the closing of whatever `storage_filp`
then is. Between any two of these steps another mount, the tool, or a write of data
may come. `past` records overlapping mounts, mounts without a path, mounts that
failed with the file open, formattings that failed or met a mounted file, and lists
whose offset wrapped.

A sync writes the superblock, then blocks of the table with lists of files and
directories between them, then blocks of the bitmap, and may stop in front of any
of them: `SyncMetadata` is such a sync, whole or not, and an unmount goes on
however it ended. `torn` are the files whose last sync stopped after it had written
something; a whole sync or formatting takes a file out again. Of a mount, `mixed`
says that its table and bitmap are not of one moment, because its file was torn or the
bitmap was read short, which `portfs_init_block_bitmap` takes for success; what
it syncs is no better, so its file is torn, too. The write of a file
(`WriteData`) wraps the start of an extent and refuses places in front of the data;
that of a list (`SyncList`) refuses none. A sync that fails only in `vfs_fsync`
is a whole one here: power failures are `SyncDisk`'s.

`WriteFileTable` writes the whole area; the code writes `max_file_count` entries,
which is the same for whole gigabytes (`LayoutFits`).

## 3. Runs

| Run | Result | States | Shows |
|---|---|---|---|
| `extent_tree` | passes | 7,032 | for every bitmap of nine blocks and extents of at most 2, the scan yields `FreeExtents`, also at the end of the storage and behind full extents; it ends |
| `one_file` | passes | 138,407 | six blocks, two direct extents: no block is lost (`NoLeak`), growth keeps every byte on a block (`GrowthKeepsCoverage`), calls end (`CallReturns`), with a list of its own words to walk over |
| `two_files` | passes | 1,015,731 | two files and a directory over three blocks: one owner per block (`Ownership`), no fault but the use of a removed file (`MemorySafe`), and every call ends (`CallReturns`), also a truncation that walks over the slot of the other file |
| `indirect_list` | violated | | the extents block is handed out as data of its own file |
| `shrink` | violated | | a partial truncation fails to remove what it should |
| `namespace` | passes | 345,401 | three slots, two names, two blocks, two names per directory, big-endian: names, numbers and caches agree, and survive a remount |
| `remount_little_endian` | violated | | no file is found after a remount on a little-endian machine |
| `full_directory` | violated | | a creation in a full directory leaves a file without a name |
| `file_bytes` | passes | 377,804 | two files over three blocks implement abstract files of bytes (`FilesKeepTheirBytes`): what is read was written, whatever was short, failed, was freed or was allocated again; every call ends (`CallsEnd`) |
| `races` | passes | 833,872 | two threads: a block gets a second owner or loses its mark only through a stale or torn bit or two calls on the same file or directory (`CollisionsHaveACause`); two files in a slot (`SlotsHaveOneFile`), a missed name or freed memory (`LookUpsAreRight`) have one or two causes each; every call returns |
| `sync_disk` | passes | 1,414,393 | what was saved whole is what every mount finds (`MountRestores`); memory after a mount is consistent (`MountedIsConsistent`), extent lists are a file's own (`ListsAreTheirOwn`) and slots are not lost (`SlotsAreNotLost`), each up to named causes |
| `mounts` | passes | 3,724,941 | a mount uses its own open file (`OwnFile`, `NoUseAfterClose`), closes it (`NoFileLeftOpen`) and finds a table and a bitmap of one moment (`FoundWhole`), each up to named causes |

The four violated properties say what the README promises; `PROJECT.json`
quotes the line for each.

Bounds. Nine blocks with extents of two contain every pattern of runs shorter
than, as long as, one longer than and more than twice as long as a full extent,
at both ends of the storage. In `one_file` sizes are 0, 3 and 6 bytes in blocks
of 2: enough for a file to end inside a block, to spill over its two direct
extents, for a write behind the end to leave less room than it needs,
and for the storage to be full. `two_files` has one direct extent, so that the
step to the indirect list, and an index behind the array that lands in the other
slot, come early; with sizes 0, 1 and 4 two files compete for three blocks.
`SizeModulus` is far above every size, so that a wrapped difference is larger
than any request, as 2^64 is. `ModeWord` and `PointerWord` stand for words that
are larger than any number of blocks to remove. `namespace` lets the root hold
two files or directories, a directory in a directory, and every slot be in use;
`MaxIno` lets one slot be used for several files in turn. It checks for
deadlock as well.

In `file_bytes` a block has two bytes and a caller writes three or none at offset
0 or 3: a write ends inside a block, begins inside one, leaves a gap, crosses from
one extent to the next and does not fit; extents have one block, so that every
transfer but the smallest is cut. The written bytes contain a zero, so that data
and untouched storage can look alike. `races` has two bits per byte, so
that neighbours share a byte and others do not; five blocks for two writers
that ask for one or three, two slots, a directory with a block and one without;
five calls let a thread go through write, removal and creation while the
other is inside one call. `sync_disk` has four slots and a buffer of three, so that the
table takes two writes, one direct extent, so that a second spills, and two items
per list; four calls, two syncs and two losses of memory allow a crash in the
second sync after one that was whole. It starts from an empty file system, one with
two files and a list, one where the next extent makes a list, one where that
list finds no block, and a little-endian one; the last three have spent part of
these bounds. In `mounts` two
files, two mounts, one run of the tool and one event (a write of data or of a list, a
sync or a read that stops early) are enough for every pair of steps to meet, and for
a torn file to be found, synced whole and found again; `Word` is so small that 2 GB wrap and 1 GB does not,
as 5 GB and 4 GB do with the real numbers. Everything else in these runs is
bounded by the storage itself.

Fairness. `ExtentTree`, `FileStore` and `FileIO` assume only that the thread that
runs a loop keeps running (`WF` of the steps of a call in progress); `Races`
assumes it of every thread in the kernel, which is what the scheduler gives a
thread that does not sleep on a lock. No call is assumed to be made, and no
transfer to fail or to succeed. `Directory`, `SyncDisk` and `Mounts` have no
liveness property and assume nothing: a mount or sync need not be made, and each
of their loops runs over a fixed range.

## 4. Proofs

| Module | Theorems |
|---|---|
| `Extents_proofs` | lemmas on free extents: they are free, apart from each other, unique for a start; the tree's order is a strict total order |
| `ExtentTree_proofs` | `ScanTypeOK`, `ScanTreeIsFree`, `ScanExtentsApart`, `ScanMissesOnlyBehindFull`, `ScanIsFreeExtents` |
| `FileStore_proofs` | `FileStoreTypeOK`, `BlocksHaveOneOwner`, `NoBlockIsLost`, `CalmHistoriesAreSafe`, `GrowthKeepsCoverageAlways` |
| `Directory_proofs` | `DirectoryTypeOK`, `OnlyEmptyDirectoriesGo`, `NamesLeadToFiles`, `CachesStayCurrent`, `NamesSurviveOnBigEndian` |
| `FileIO_proofs` | `FileIOTypeOK`, `FilesKeepTheirBytesAlways` |
| `Races_proofs` | `RacesTypeOK`, `SlotsAreTakenOnce`, `LookUpsFindNames`, `CollisionsOnlyAsNamed` |
| `SyncDisk_proofs` | `SyncDiskTypeOK`, `SlotsAreNotLostUnnamed`, `MountsRestore`, `MountsAreConsistent`, `ListsStayTheirOwn` |
| `Mounts_proofs` | `LayoutFits`, `SmallStorageInPlace`, `LargeStorageWraps`, `RootSearchStaysInTable`, `RealAreasAreInPlace`; `MountsUseTheirOwnFile`, `ClosedFilesAreNotUsed`, `NoFileIsLeftOpen`, `MountsTypeOK`, `MountsFindWholeFiles` |

They hold for every value of the constants that meets the named assumptions of the
modules: `GeometryAssumption` and `FileStoreAssumption` ask for positive block and
table sizes, a data area that does not start at block 0, and fewer extents per file
than `extent_count` can count; `DirectoryAssumption` for at least one slot, one
entry per directory and one inode number, and for names that are not empty;
`LayoutAssumption` and `MountsAssumption` for
positive sizes and a name that is no file's; `RacesAssumption` for a finite set of
threads; `SyncDiskAssumption` for at least one slot, one entry in the buffer and
one direct extent; `FileIOAssumption` for a storage whose byte addresses do not wrap and
whose blocks fit the direct extents of one file, for data that are sequences of
bytes, and for offsets and counts of callers whose sum stays below 2^64, which the
kernel checks before it calls the module. The storage that fits the direct
extents is a restriction of what `FileIO` models, not a fact about the code: with a list
a file may lose its bytes to it, which is the finding of `indirect_list`.
`NamesSurviveOnBigEndian` assumes a big-endian machine in its statement; on the others
the property is false, which is the finding of `remount_little_endian`. The four theorems on the layout are
about the program's own numbers (`RealSizes`) and say so in their statements. `MountsTypeOK` and
`MountsFindWholeFiles` assume that the areas in front of the data are where the
kernel accesses them (`AreasInPlace`), which `RealAreasAreInPlace` proves of
the program's numbers for every size the tool offers, and which the constants of the
run meet. No other assumption is made.

*The scan.* The five invariants follow from one inductive invariant, `IInv`: the
tree is a part of the reference set; while the loop runs, the counted run starts
where a piece of the reference starts (`Position`), and every free block passed
so far is in the tree or right behind a full extent. `TreeIsFree` and
`ExtentsApart` are then facts about the reference set. They need the arithmetic
of pieces (`PieceSpacing`): two pieces of one run start a multiple of
`MaxExtentLength + 1` apart.

*Types of the file store.* `TypeOK` is not inductive: that a step of a call in
progress stores an extent inside the arrays needs what the locals of the call
are bound by (`CallOK`). `TypeInv` is their conjunction.

*One owner per block.* `Ownership` is kept by `TakeDirect` only because the
extents still in the tree are free and disjoint (`Offered`), which starts true
because of `FreeExtentsAreFree` and `FreeExtentsDisjoint`; and it is kept by
`Unlink` only because lists built in memory hold no extent before the first
spill (`NoMore`). `OwnInv` adds these two. After a spill the statement is false:
that is the finding of `indirect_list`.

*No block is lost.* `NoLeak` needs, besides the owners of `OwnInv`, that no
extent stands at or behind the count of its file (`Tail`): then `TakeDirect`
overwrites a slot without blocks, and the loops of unlink and of a truncation to
zero, which stop at the count, free all blocks. While an allocation runs the
count is the counter of its loop, because `extent_count` is written at its end.

*Growth.* `GrowthKeepsCoverage` compares a file before and after each step, and all steps
but those of an allocation leave it alone, empty it, or grow it only as far as the room
it has (a write sets the size only after each of its bytes found a place). For an allocation
`Growing` says that its counter is not below the count the file still has, and
(`Asked`) that the room of the extents taken so far and of the blocks still to come
is at least the old room and the growth. Each extent that is taken moves its blocks
from one side to the other; the growth asked for at the start, one and a half times
the missing blocks, suffices because what is asked covers the missing bytes. The
lemmas are about `AllocatedSize`: it looks only at the extents it counts, does not
fall when it counts more, and gains the blocks of one that is added.
It holds in every history, also after a spill, since it speaks only of files that
have no list.

*Memory.* `MemorySafe` follows from `CalmInv`: while nothing spilled and nothing
shrank, no count and no loop counter exceeds `DirectExtents`, so that every
`get_extent` finds its extent and the loops over words stay in the array.

*Layout.* The sizes of the areas are products and quotients of numbers the program
fixes; with them the wrapping of 32-bit products is decided by the size in
gigabytes alone. `Sizes` are those for which no field of the superblock wraps.
For them the areas fit in spite of the rounding, up to 4 GB every block is at its own
place, and from 5 GB on some data block is accessed where the superblock is.

*Mounts.* The actions fall into eight kinds of step by what they do to the
shared variables (`Quiet`, `Begins`, `Opens`, ..., `Faults`), and the invariants
are proved kind by kind. `Shape` and `Stages` say which values go with which stage of
a mount. `Alone`: while no two mounts have been there at a time at most one is
active, the path is its path, and `storage_filp` is the file it opened; `OwnFile`
and `NoUseAfterClose` follow. `Balanced` holds with overlaps too: since a mount that
opens adds a handle and one that closes removes one, though perhaps another's,
there are as many open files as mounts that have opened one and not gone (a
statement on cardinalities), so that none is left when nothing is mounted.

What a mount finds (`MountsFindWholeFiles`) is a second invariant over the same
actions. `Typed` gives the range of every block and position. `Whole` says, as long
as none of the `Harms` happened, that every file that is not torn has a table and a
bitmap of one moment where its superblock says (`Sound`), what the tool has made so far
(`Formatting`), and that a mount has read them from such a file (`Remembers`). A
sync that stops needs no argument: its file is torn. A whole one is that of `AreOfMount`,
with a list that lands behind the metadata (`ListsGoBehind`) since no offset wrapped;
and data that wraps cannot pass the comparison of `WriteData`. `Alone` is needed for
the writes to reach the mount's own file.

*Threads.* `Sane` says what the locals of a thread inside a call are and how they
relate to shared state that another thread may change meanwhile; everything else
rests on it. `NoSlotIsTwice` counts: while no creations overlapped at most
one thread has found a slot it has not taken, so it is still free. `Lists` and
`Filling` say who may be between the steps of a first look-up. For
`CollisionsHaveACause` the invariant `Quiet` describes every thread half-way through an
allocation or a removal while no collision occurred: the extents in its tree are
free and no other thread's, the byte it loaded is as it was, and the
blocks it has marked and not attached, or cleared and not forgotten, are in no
other claim. `past` only grows, so that a step from a state with a collision needs no
argument. With that each of the twelve kinds of steps keeps blocks owned once.

*Sync.* Every step is one of twelve kinds (`WhatAStepIs`), named by what a proof needs of
it: a call, a slot copied, the buffer written, a crash. `Typed` and the invariant
of the slots are direct. `MountRestores` is an action property: `SavedInv` says that what
was saved is the image of `durable` and of `now` both, so that no part of the page
cache a crash may keep can matter; that a sync ends in that state is
`CopiedEntries` and `CopiedNames`, which say what has been copied so far, up to
the slot and the piece of the buffer that is next. `MountedIsConsistent` needs the
same of storage as of memory: `MemoryOwns` (memory, with the lists that are still on
storage only) and `BlamedInv` (the durable file, and that the page cache differs
from it in lists and data at most). A call keeps the first and cannot hurt the
second, since what it writes is data in a block it owns or has just taken; a sync
carries the first over to the second; a mount carries it back. The extent lists
are a third invariant on top of these: `MemoryLists`, `StorageLists`,
`CopiedLists`, where the blocks of two lists differ because blocks have one owner.

*Names.* First, `Blank`: a free slot has nothing in it, and a directory without a
block no names, unless one went without (`blockless`). (A directory that was not read
has no names either, but keeps its block: `Blank` holds of it, and what is excepted is only
that it was empty.) It is inductive with the types
and gives `OnlyEmptyDirectoriesGo` for every history, restarts and lost numbers
included. `NamesAreFiles` and `CachesAreCurrent` are about ordinary histories and
neither is inductive alone: a removal takes the right entry because the cached name
and the cached inode agree with the table, and a cached name stays right because
no other entry has its number or its name. `DirInv` is the four parts that carry each
other: `Numbered` (numbers in use differ and do not exceed the counter, so that
`iunique` cannot hand one out twice), `Named` (entries and files correspond),
`InodesMatch` (a cached inode is the slot with its number) and `NamesMatch` (a
cached name hangs from the root by cached names, is the entry it was read from, and
a negative one has no entry). The steps that change the table are described
without its representation (`Adds`, `Removes`), the effect on the table is one lemma
for each (`TableGains`, `TableLoses`), and the caches follow. That the first free
slot, or entry, exists whenever there is one at all (`LeastElement`) follows from
the well-foundedness of inclusion on finite sets.

`NamesSurviveRemount` needs none of `DirInv`, which is about ordinary histories only:
`Walk` reads the table, and a mount reads the table back as it was. What could
differ is where the walk starts. `Rooted` says that the slot of the root is the
only one with number 1: its inode is always cached, so that no file is given its
number, and no entry or cached name ever leads to it, so that no removal reaches it.

*Bytes.* `IOInv` has eight parts. `Shape` are the types, with the extents of files inside the
storage. `Owned` and `Fresh` say that a marked block is in one extent of one file
and an extent in the tree in none, so that a transfer into one place changes one byte
of one file. `Called`, `Room`, `Filled` and `Fetched` are about the call in progress:
what it has written so far is where the extents lead to, what it has read so far
is what stands there, and what is left of a write has a place (`Room`) unless the file ended behind its
blocks before. The arithmetic is in the lemmas
on `GlobalOffset` and `AvailableBytes`: different offsets of a file have different
places, a transfer stays inside one extent, and an extent added at the end moves no
byte. `Seen` joins the bytes of the extents one after the other; that byte `k` of it is the one at
the place of offset `k - 1` (`JoinedIsBytes`) is an induction on the number of
extents, made on the first number for which it fails (`FirstLeftOut`).
With these every step is mapped: a round of the loop that copies is `WriteSome`, one that reads changes nothing
that users see, the end of a loop is `EndWrite`, `EndRead` or `EndGrow`, an error is
`EndFailed` with the prefix that has reached its place, and taking an
extent shows nothing, since the size grows at the end.

Model-checked only: what must eventually happen (`PassEnds`, `CallReturns`,
`CallsReturn`, `CallsEnd`), since liveness under fairness is beyond the prover. The four
violated properties are shown by their counterexamples. The theorems on `SyncDisk` are
about `Spec`, that is from the empty file system on; the run has further starts,
which such histories reach.

## 5. Plan

Done: the components in the order of the inventory, each with its runs; every safety
invariant and action property, and the safety part of the refinement, are proved. Left,
the most valuable first:

1. files with an extents block in `FileIO`, with the bytes they may lose to it named in
   the refinement;
2. residue of `vmalloc` in `FileStore`, where a creation would start with foreign
   extents;
3. a run on duplicate numbers after a restart of the machine.

## Not modelled

Of the tool: the wording and parsing of its dialogue. Of the kernel module:
registration, logging, time stamps, owners, permissions and link counts, which no
other state depends on; the limit of 64 bytes on a name; the balance of the
red-black tree, which is the kernel's; failing `kzalloc`s, and a failing read of
the block of an extent list; in `Directory`, failing reads of a directory's block, which
`Races` and `SyncDisk` have; memory that is leaked; the shutdown that `put_super`
calls while it is itself called by one, and the second `iput` after a failed
`d_make_root`, whose effects lie inside the kernel.

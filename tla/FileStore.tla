----------------------------- MODULE FileStore ------------------------------
(***************************************************************************)
(* The data side of a mounted portfs: which blocks of the storage file     *)
(* belong to which regular file, and what the calls that change this do    *)
(* (kernel/inode.c, kernel/file.c, kernel/extent_alloc.c).                 *)
(*                                                                         *)
(* One call runs at a time.  The loops of portfs_allocate_memory and       *)
(* portfs_truncate take one step per iteration; the state between two      *)
(* iterations is the record `call`.  Sizes and offsets are in bytes, the   *)
(* bytes themselves are left out.  Slots of the file table that hold       *)
(* directories are left out too: of a directory only its block matters     *)
(* here.  portfs_init_filetable does not set the extent fields of a free   *)
(* slot: they are zero on kernels that clear what vmalloc returns          *)
(* (init_on_alloc, the default of the distributions the README names), and *)
(* that is the case modelled.                                              *)
(***************************************************************************)
EXTENDS Extents, FiniteSets

CONSTANTS
    BlockSize,       \* psb->block_size
    DirectExtents,   \* DIRECT_EXTENTS, 4 in shared_structs.h
    IndirectSlots,   \* extents that fit the extents block: block_size / 8
    MaxFileCount,    \* psb->max_file_count
    Handles,         \* open files (struct file)
    ModeWord,        \* i_mode of a regular file read as a length, over 2^14
    PointerWord,     \* upper half of a kernel pointer read as a length
    SizeModulus,     \* 2^64: size_t arithmetic wraps here
    Offsets,         \* bound: the offsets and sizes callers use
    MaxDirectories   \* bound: directories that own a block

ASSUME FileStoreAssumption ==
    /\ BlockSize \in Nat \ {0}
    /\ DirectExtents \in Nat \ {0}
    /\ IndirectSlots \in Nat
    /\ DirectExtents + IndirectSlots < 65536   \* extent_count is uint16_t
    /\ MaxFileCount \in Nat \ {0}
    /\ ModeWord \in Nat
    /\ PointerWord \in Nat
    /\ SizeModulus \in Nat \ {0}
    /\ Offsets \subseteq Nat
    /\ 0 \in Offsets
    /\ MaxDirectories \in Nat

VARIABLES
    bitmap,      \* psb->block_bitmap: the allocated data blocks
    entry,       \* psb->filetable, the slots of regular files and free slots
    handle,      \* what the inode of an open file has in i_private
    dirBlocks,   \* the blocks directories own (dir_block)
    call,        \* the system call in progress and its locals
    fault,       \* the memory error that ended the run, or "none"
    past         \* history: which rare situations have occurred

vars == <<bitmap, entry, handle, dirBlocks, call, fault, past>>

-----------------------------------------------------------------------------
\* The file table.

File == 1 .. MaxFileCount
Closed == 0       \* no open file
Detached == -1    \* i_private is NULL: the file was removed while open
DirectSlot == 0 .. (DirectExtents - 1)
IndirectSlot == 0 .. (IndirectSlots - 1)
MaxExtents == DirectExtents + IndirectSlots        \* portfs_max_extents
CountModulus == 65536                              \* extent_count is uint16_t

\* struct extent; {0, 0} holds no block.
NoExtent == [start |-> 0, length |-> 0]
Extent == [start : {0} \cup DataBlock, length : 0 .. MaxExtentLength]

\* struct filetable_entry of a regular file.  `used` is mode # 0; `indirect`
\* says whether indirect_extents is NULL, points to a list built in memory
\* (then `more`) or to the bytes of the extents block as read from storage.
\* portfs_alloc_indirect_extents does not convert those bytes, and the block
\* may never have been written: what they say is left open.
Entry == [used     : BOOLEAN,
          size     : Offsets,
          count    : 0 .. (CountModulus - 1),
          extblk   : {0} \cup DataBlock,
          direct   : [DirectSlot -> Extent],
          indirect : {"null", "list", "raw"},
          more     : [IndirectSlot -> Extent]]

NoList == [k \in IndirectSlot |-> NoExtent]

\* memset(file_entry, 0, sizeof(*file_entry))
FreeEntry == [used |-> FALSE, size |-> 0, count |-> 0, extblk |-> 0,
              direct |-> [k \in DirectSlot |-> NoExtent],
              indirect |-> "null", more |-> NoList]

\* portfs_find_free_file_entry: the first slot whose mode is 0.
FreeFileEntry ==
    {f \in File : ~entry[f].used /\ \A g \in File : g < f => entry[g].used}

\* get_extent, on the extents it can reach.
GetExtent(e, k) ==
    IF k < DirectExtents THEN e.direct[k] ELSE e.more[k - DirectExtents]

ReachableExtents(e) ==
    IF e.indirect = "list" THEN MaxExtents ELSE DirectExtents

AllReachable(e) == e.count <= ReachableExtents(e)

\* What a get_extent beyond the reachable ones runs into.
BadAccess(e) == CASE e.indirect = "null" -> "null"
                  [] e.indirect = "raw"  -> "raw"
                  [] e.indirect = "list" -> "wild"

\* The blocks of the first n extents, each given by its place in the file.
Places(e, n) ==
    {p \in (0 .. (n - 1)) \X (0 .. (MaxExtentLength - 1)) :
        p[2] < GetExtent(e, p[1]).length}

\* portfs_get_allocated_size, for the first n extents.
AllocatedSize(e, n) == Cardinality(Places(e, n)) * BlockSize

Blocks(bytes) == (bytes + BlockSize - 1) \div BlockSize

\* The walk of portfs_calc_global_offset to offset `o` leaves the extents that
\* can be reached.
WalksAstray(e, o) ==
    ~AllReachable(e) /\ o >= AllocatedSize(e, ReachableExtents(e))

-----------------------------------------------------------------------------
\* portfs_alloc_indirect_extents as a function of the bitmap and the entry:
\* the block it takes (none when the list is there, the entry has a block or
\* the storage is full) and the entry it leaves.
ListBlock(bm, e) ==
    IF e.indirect = "null" /\ e.extblk = 0 THEN FindFreeBlock(bm) ELSE {}

WithList(bm, e) ==
    IF e.indirect # "null" THEN e
    ELSE IF e.extblk # 0 THEN [e EXCEPT !.indirect = "raw"]
    ELSE [e EXCEPT !.indirect = "list",
                   !.more = NoList,
                   !.extblk = IF ListBlock(bm, e) = {} THEN 0
                              ELSE CHOOSE b \in ListBlock(bm, e) : TRUE]

-----------------------------------------------------------------------------
\* The call in progress.

Call == [op   : {"idle", "alloc", "shrink"},
         next : {"none", "write", "grow"},   \* who called the allocator
         file : File,
         pos  : Offsets,                     \* *pos of a write
         end  : Offsets,                     \* *pos + count, or the new size
         left : Int,                         \* remaining_blocks, blocks_to_remove
         k    : Int,                         \* free_ext_idx, i
         tree : SUBSET FreeExtent]           \* free_extent_tree

Idle == [op |-> "idle", next |-> "none", file |-> 1, pos |-> 0, end |-> 0,
         left |-> 0, k |-> 0, tree |-> {}]

TypeOK ==
    /\ bitmap \subseteq DataBlock
    /\ entry \in [File -> Entry]
    /\ handle \in [Handles -> {Closed, Detached} \cup File]
    /\ dirBlocks \subseteq DataBlock
    /\ call \in Call
    /\ fault \in {"none", "detached", "null", "raw", "wild", "table_end"}
    /\ past \subseteq {"spilled", "shrunk", "orphaned"}

Init ==
    /\ bitmap = {}
    /\ entry = [f \in File |-> FreeEntry]
    /\ handle = [h \in Handles |-> Closed]
    /\ dirBlocks = {}
    /\ call = Idle
    /\ fault = "none"
    /\ past = {}

-----------------------------------------------------------------------------
\* Common ends of a step.

\* The kernel thread dies on a bad access.
Fail(kind) ==
    /\ fault' = kind
    /\ UNCHANGED <<bitmap, entry, handle, dirBlocks, call, past>>

\* A call can start: no other runs and nothing went wrong before.
Ready == call.op = "idle" /\ fault = "none"

Busy(op) == call.op = op /\ fault = "none"

-----------------------------------------------------------------------------
\* Names and open files.

\* portfs_create: only mode, ino and size are set, the rest of the slot stays.
Create ==
    /\ Ready
    /\ \E f \in FreeFileEntry :
           entry' = [entry EXCEPT ![f].used = TRUE, ![f].size = 0]
    /\ UNCHANGED <<bitmap, handle, dirBlocks, call, fault, past>>

Open(h, f) ==
    /\ Ready
    /\ handle[h] = Closed
    /\ entry[f].used
    /\ handle' = [handle EXCEPT ![h] = f]
    /\ UNCHANGED <<bitmap, entry, dirBlocks, call, fault, past>>

\* portfs_release_file drops the list of the file, also when it was never
\* written to its block and when other handles of the file remain.
Release(h) ==
    /\ Ready
    /\ handle[h] # Closed
    /\ handle' = [handle EXCEPT ![h] = Closed]
    /\ entry' = IF handle[h] \in File
                THEN [entry EXCEPT ![handle[h]].indirect = "null",
                                   ![handle[h]].more = NoList]
                ELSE entry
    /\ UNCHANGED <<bitmap, dirBlocks, call, fault, past>>

\* portfs_unlink: the blocks of the extents are freed, the extents block is
\* not; open handles of the file keep an inode without i_private.
Unlink(f) ==
    /\ Ready
    /\ entry[f].used
    /\ IF AllReachable(entry[f])
       THEN /\ bitmap' = bitmap \ UNION {BlocksOf(GetExtent(entry[f], k)) :
                                            k \in 0 .. (entry[f].count - 1)}
            /\ entry' = [entry EXCEPT ![f] = FreeEntry]
            /\ handle' = [h \in Handles |->
                            IF handle[h] = f THEN Detached ELSE handle[h]]
            /\ past' = IF entry[f].extblk # 0 THEN past \cup {"orphaned"}
                       ELSE past
            /\ UNCHANGED <<dirBlocks, call, fault>>
       ELSE Fail(BadAccess(entry[f]))

\* Any use of a removed file through a handle that is still open dereferences
\* the NULL i_private.
UseDetached(h) ==
    /\ Ready
    /\ handle[h] = Detached
    /\ Fail("detached")

\* portfs_de_alloc_block: a directory is looked at for the first time.  The
\* look-up of a name comes before its creation or removal, so that the calls
\* above find their directory loaded.
AllocDirBlock ==
    /\ Ready
    /\ Cardinality(dirBlocks) < MaxDirectories
    /\ \E b \in FindFreeBlock(bitmap) :
           /\ bitmap' = bitmap \cup {b}
           /\ dirBlocks' = dirBlocks \cup {b}
    /\ UNCHANGED <<entry, handle, call, fault, past>>

\* portfs_rmdir of a directory with a block.
FreeDirBlock ==
    /\ Ready
    /\ \E b \in dirBlocks :
           /\ bitmap' = bitmap \ {b}
           /\ dirBlocks' = dirBlocks \ {b}
    /\ UNCHANGED <<entry, handle, call, fault, past>>

-----------------------------------------------------------------------------
\* The second half of portfs_file_write, on the entry e the allocation leaves:
\* every byte has a place, and the size moves, or the call ends with -EIO.  A
\* write of no bytes skips the copy loop and still moves the size.
WrittenUnchecked(e, pos, end) ==
    IF end > e.size THEN [e EXCEPT !.size = end] ELSE e

Written(e, pos, end) ==
    IF /\ pos = end \/ end <= AllocatedSize(e, e.count)
       /\ end > e.size
    THEN [e EXCEPT !.size = end]
    ELSE e

Copy(f, e, pos, end) ==
    IF pos < end /\ WalksAstray(e, end - 1)
    THEN Fail(BadAccess(e))
    ELSE /\ entry' = [entry EXCEPT ![f] = Written(e, pos, end)]
         /\ call' = Idle
         /\ UNCHANGED <<bitmap, handle, dirBlocks, fault, past>>

-----------------------------------------------------------------------------
\* portfs_allocate_memory.

\* Up to the loop: the tree is built first, the extents block is taken after.
BeginAlloc(f, bytes, next, pos, end) ==
    LET e == entry[f]
        spills == e.count >= DirectExtents
    IN /\ call' = [op |-> "alloc", next |-> next, file |-> f,
                   pos |-> pos, end |-> end,
                   left |-> (Blocks(bytes) * 1500) \div 1000,
                   k |-> e.count, tree |-> FreeExtents(bitmap)]
       /\ entry' = IF spills THEN [entry EXCEPT ![f] = WithList(bitmap, e)]
                   ELSE entry
       /\ bitmap' = IF spills THEN bitmap \cup ListBlock(bitmap, e)
                    ELSE bitmap
       /\ past' = IF spills THEN past \cup {"spilled"} ELSE past
       /\ UNCHANGED <<handle, dirBlocks, fault>>

\* One iteration: the whole next extent goes to the file.
TakeDirect ==
    /\ Busy("alloc")
    /\ call.left > 0
    /\ call.k < DirectExtents
    /\ \E x \in FirstExtent(call.tree) :
           /\ bitmap' = SetAllocated(bitmap, x)
           /\ entry' = [entry EXCEPT ![call.file].direct[call.k] = x]
           /\ call' = [call EXCEPT !.k = @ + 1, !.left = @ - x.length,
                                   !.tree = @ \ {x}]
    /\ UNCHANGED <<handle, dirBlocks, fault, past>>

\* The same for an extent behind the direct ones; the list is made on the way.
\* What a raw list says is not known before nor after.
TakeIndirect ==
    /\ Busy("alloc")
    /\ call.left > 0
    /\ call.k >= DirectExtents
    /\ call.k < MaxExtents
    /\ \E x \in FirstExtent(call.tree) :
           LET bm == SetAllocated(bitmap, x)
               e  == WithList(bm, entry[call.file])
           IN /\ bitmap' = bm \cup ListBlock(bm, entry[call.file])
              /\ entry' = [entry EXCEPT ![call.file] =
                    IF e.indirect = "raw" THEN e
                    ELSE [e EXCEPT !.more[call.k - DirectExtents] = x]]
              /\ call' = [call EXCEPT !.k = @ + 1, !.left = @ - x.length,
                                      !.tree = @ \ {x}]
    /\ past' = past \cup {"spilled"}
    /\ UNCHANGED <<handle, dirBlocks, fault>>

\* Enough blocks: the write copies its bytes, or portfs_extend sets the size.
AllocDone ==
    /\ Busy("alloc")
    /\ call.left <= 0
    /\ LET e == [entry[call.file] EXCEPT !.count = call.k]
       IN IF call.next = "write"
          THEN Copy(call.file, e, call.pos, call.end)
          ELSE /\ entry' = [entry EXCEPT ![call.file] = [e EXCEPT !.size = call.end]]
               /\ call' = Idle
               /\ UNCHANGED <<bitmap, handle, dirBlocks, fault, past>>

\* -ENOSPC: the file keeps the extents it was given.
AllocNoSpace ==
    /\ Busy("alloc")
    /\ call.left > 0
    /\ call.tree = {} \/ call.k >= MaxExtents
    /\ entry' = [entry EXCEPT ![call.file].count = call.k]
    /\ call' = Idle
    /\ UNCHANGED <<bitmap, handle, dirBlocks, fault, past>>

-----------------------------------------------------------------------------
\* Reading, writing and extending.

\* allocated - size_in_bytes in size_t.
Available(e) == (AllocatedSize(e, e.count) - e.size) % SizeModulus

\* portfs_file_read of the bytes up to offset `last`; it changes nothing but
\* the list of a file with DIRECT_EXTENTS extents or more.
Read(h, last) ==
    /\ Ready
    /\ handle[h] \in File
    /\ LET e == entry[handle[h]]
           r == IF e.count >= DirectExtents THEN WithList(bitmap, e) ELSE e
       IN /\ last < e.size
          /\ entry' = [entry EXCEPT ![handle[h]] = r]
          /\ bitmap' = IF e.count >= DirectExtents
                       THEN bitmap \cup ListBlock(bitmap, e) ELSE bitmap
          /\ fault' = IF WalksAstray(r, last) THEN BadAccess(r) ELSE fault
    /\ UNCHANGED <<handle, dirBlocks, call, past>>

\* portfs_file_write up to the copy loop.  What is allocated is what `count`
\* exceeds the room behind the end of the file by, wherever the write starts.
BeginWrite(h, pos, end) ==
    /\ Ready
    /\ handle[h] \in File
    /\ pos <= end
    /\ LET e == entry[handle[h]]
       IN IF ~AllReachable(e) THEN Fail(BadAccess(e))
          ELSE IF Available(e) < end - pos
          THEN BeginAlloc(handle[h], end - pos - Available(e), "write", pos, end)
          ELSE Copy(handle[h], e, pos, end)

\* portfs_setattr with a larger size: portfs_extend.  It asks for the whole
\* growth when the room it has is too small.
Extend(f, end) ==
    /\ Ready
    /\ entry[f].used
    /\ end > entry[f].size
    /\ LET e == entry[f]
       IN IF ~AllReachable(e) THEN Fail(BadAccess(e))
          ELSE IF Available(e) >= end - e.size
          THEN /\ entry' = [entry EXCEPT ![f].size = end]
               /\ UNCHANGED <<bitmap, handle, dirBlocks, call, fault, past>>
          ELSE BeginAlloc(f, end - e.size, "grow", 0, end)

-----------------------------------------------------------------------------
\* portfs_setattr with a smaller size: portfs_truncate.

\* direct_extents[k] for any k: the loops do not stop at DIRECT_EXTENTS.  Behind
\* the array come indirect_extents, dir_entries (NULL for a file) and the next
\* slots of the table, eight bytes at a time: ino and mode, size, extent_count
\* and extents_block, the direct extents and the two pointers.
WordsPerEntry == DirectExtents + 5
Beyond(k) == k - (DirectExtents + 2)
Neighbour(f, k) == f + 1 + Beyond(k) \div WordsPerEntry

InTable(f, k) == k < DirectExtents + 2 \/ Neighbour(f, k) \in File

PointerOf(e) == IF e.indirect = "null" THEN 0 ELSE PointerWord

\* The word that stands where extent k would have its length.
LengthWord(f, k) ==
    IF k < DirectExtents THEN entry[f].direct[k].length
    ELSE IF k = DirectExtents THEN PointerOf(entry[f])
    ELSE IF k = DirectExtents + 1 THEN 0
    ELSE LET n == entry[Neighbour(f, k)]
             w == Beyond(k) % WordsPerEntry
         IN CASE ~n.used \/ w = 1 \/ w = DirectExtents + 4 -> 0
              [] n.used /\ w = 0 -> ModeWord
              [] n.used /\ w = 2 -> n.extblk
              [] n.used /\ w \in 3 .. (DirectExtents + 2) -> n.direct[w - 3].length
              [] n.used /\ w = DirectExtents + 3 -> PointerOf(n)

\* The word holds something else than an extent of the file, which freeing it
\* destroys: the pointer of the file itself or a word of a slot in use.
Foreign(f, k) ==
    \/ k = DirectExtents /\ entry[f].indirect # "null"
    \/ /\ k >= DirectExtents + 2
       /\ entry[Neighbour(f, k)].used
       /\ LET n == entry[Neighbour(f, k)]
              w == Beyond(k) % WordsPerEntry
          IN \/ w = 0
             \/ w = 1 /\ n.size > 0
             \/ w = 2 /\ (n.count > 0 \/ n.extblk > 0)
             \/ w \in 3 .. (DirectExtents + 2) /\ n.direct[w - 3] # NoExtent
             \/ w = DirectExtents + 3 /\ n.indirect # "null"

\* extent_count--, a uint16_t.
DecrementSigned(count) == count - 1
Decrement(count) == (count - 1) % CountModulus

FreeWordKeepsExtent(f, k) ==
    /\ bitmap' = IF k < DirectExtents
                 THEN ClearAllocated(bitmap, entry[f].direct[k]) ELSE bitmap
    /\ entry' = [entry EXCEPT ![f].count = Decrement(@)]

\* portfs_free_extent on word k of file f, where nothing else lives.
FreeWord(f, k) ==
    IF k < DirectExtents
    THEN /\ bitmap' = ClearAllocated(bitmap, entry[f].direct[k])
         /\ entry' = [entry EXCEPT ![f].direct[k] = NoExtent,
                                   ![f].count = Decrement(@)]
    ELSE /\ entry' = [entry EXCEPT ![f].count = Decrement(@)]
         /\ UNCHANGED bitmap

\* To size 0: one loop over extent_count words frees every extent as if it were
\* direct; the block of the indirect list stays.
WordsAllButLast(f) == 0 .. (entry[f].count - 2)
WordsOneTooMany(f) == 0 .. entry[f].count
ZeroedWords(f) == 0 .. (entry[f].count - 1)

TruncateToZero(f) ==
    /\ Ready
    /\ entry[f].used
    /\ entry[f].size > 0
    /\ IF \E k \in ZeroedWords(f) : InTable(f, k) /\ Foreign(f, k)
       THEN Fail("wild")
       ELSE IF \E k \in ZeroedWords(f) : ~InTable(f, k)
       THEN Fail("table_end")
       ELSE LET gone == DirectSlot \cap ZeroedWords(f)
            IN /\ bitmap' = bitmap \ UNION {BlocksOf(entry[f].direct[k]) :
                                               k \in gone}
               /\ entry' = [entry EXCEPT
                     ![f].direct = [k \in DirectSlot |->
                         IF k \in gone THEN NoExtent ELSE entry[f].direct[k]],
                     ![f].count = 0,
                     ![f].size = 0]
               /\ UNCHANGED <<handle, dirBlocks, call, fault, past>>

\* To a smaller size: nothing happens, and the size stays, when no whole block
\* goes away.
BeginShrink(f, end) ==
    /\ Ready
    /\ entry[f].used
    /\ 0 < end /\ end < entry[f].size
    /\ Blocks(end) # Blocks(entry[f].size)
    /\ call' = [Idle EXCEPT !.op = "shrink", !.file = f, !.end = end,
                            !.left = Blocks(entry[f].size) - Blocks(end),
                            !.k = entry[f].count - 1]
    /\ UNCHANGED <<bitmap, entry, handle, dirBlocks, fault, past>>

\* The loop walks upwards (++i) from the last extent.
ShrinkStep ==
    /\ Busy("shrink")
    /\ call.k >= 0
    /\ InTable(call.file, call.k)
    /\ call.left >= LengthWord(call.file, call.k)
    /\ IF Foreign(call.file, call.k)
       THEN Fail("wild")
       ELSE /\ FreeWord(call.file, call.k)
            /\ call' = [call EXCEPT !.k = @ + 1,
                            !.left = @ - LengthWord(call.file, call.k)]
            /\ past' = past \cup {"shrunk"}
            /\ UNCHANGED <<handle, dirBlocks, fault>>

\* It stops at a word it cannot remove; -EIO when blocks are left to remove.
ShrinkNeverStops ==
    /\ Busy("shrink")
    /\ call.k < 0
    /\ entry' = [entry EXCEPT ![call.file].size = call.end]
    /\ call' = Idle
    /\ UNCHANGED <<bitmap, handle, dirBlocks, fault, past>>

ShrinkDone ==
    /\ Busy("shrink")
    /\ \/ call.k < 0
       \/ /\ call.k >= 0
          /\ InTable(call.file, call.k)
          /\ call.left < LengthWord(call.file, call.k)
    /\ entry' = [entry EXCEPT ![call.file].size = call.end]
    /\ call' = Idle
    /\ UNCHANGED <<bitmap, handle, dirBlocks, fault, past>>

\* It leaves the file table.
ShrinkOffTable ==
    /\ Busy("shrink")
    /\ call.k >= 0
    /\ ~InTable(call.file, call.k)
    /\ Fail("table_end")

-----------------------------------------------------------------------------
\* The steps of a call in progress.
Step ==
    \/ TakeDirect \/ TakeIndirect \/ AllocDone \/ AllocNoSpace
    \/ ShrinkStep \/ ShrinkDone \/ ShrinkOffTable

Next ==
    \/ Create \/ AllocDirBlock \/ FreeDirBlock
    \/ \E h \in Handles : Release(h) \/ UseDetached(h)
    \/ \E f \in File : Unlink(f) \/ TruncateToZero(f)
    \/ \E h \in Handles, f \in File : Open(h, f)
    \/ \E h \in Handles, last \in Offsets : Read(h, last)
    \/ \E h \in Handles, pos, end \in Offsets : BeginWrite(h, pos, end)
    \/ \E f \in File, end \in Offsets : Extend(f, end) \/ BeginShrink(f, end)
    \/ Step

\* A call that has begun keeps running: its thread is scheduled.
Spec == Init /\ [][Next]_vars /\ WF_vars(Step)

-----------------------------------------------------------------------------
\* Properties.

\* The blocks slot k of file f lays claim to; slot ExtentsBlock stands for the
\* block that holds the list of indirect extents.
ExtentsBlock == -1
Claim == File \X ({ExtentsBlock} \cup DirectSlot)

Claimed(c) ==
    IF c[2] = ExtentsBlock THEN {entry[c[1]].extblk} \ {0}
    ELSE BlocksOf(entry[c[1]].direct[c[2]])

Exclusive ==
    /\ \A c, d \in Claim : c # d => Claimed(c) \cap Claimed(d) = {}
    /\ \A c \in Claim : Claimed(c) \cap dirBlocks = {}
    /\ \A c \in Claim : Claimed(c) \subseteq bitmap
    /\ dirBlocks \subseteq bitmap

\* As long as no allocation has gone beyond the direct extents, every block has
\* at most one owner among the extents, the extents blocks and the directories,
\* and is marked in the bitmap: between any two steps of any call.
Ownership == "spilled" \notin past => Exclusive

\* And no block is lost: a marked block has an owner, until a file whose list
\* has a block of its own is removed or a partial truncation removes extents.
NoLeak ==
    past = {} => bitmap = dirBlocks \cup UNION {Claimed(c) : c \in Claim}

\* The only memory error without indirect extents and partial truncations is
\* the use of a file that was removed while open.
MemorySafe ==
    past \cap {"spilled", "shrunk"} = {} => fault \in {"none", "detached"}

\* Every byte of the file has a block.
Covered(f) ==
    entry[f].count <= DirectExtents =>
        entry[f].size <= AllocatedSize(entry[f], entry[f].count)

\* A growing file keeps its bytes on blocks: coverage is lost by partial
\* truncations and by a write of no bytes behind the end of the file, by nothing
\* else.
GrowthKeepsCoverage ==
    [][\A f \in File :
          Covered(f) /\ ~Covered(f)' =>
              \/ call.op = "shrink"
              \/ \E h \in Handles, pos \in Offsets : BeginWrite(h, pos, pos)]_vars

\* Every call returns or dies: also the loop of a truncation, which counts
\* upwards from the last extent, comes to an end.
CallReturns == (call.op # "idle") ~> (call.op = "idle" \/ fault # "none")

\* The block that holds the list of a file's indirect extents is not at the same
\* time a block of the file's data.
ExtentsBlockIsNotData ==
    \A f \in File, k \in 0 .. (MaxExtents - 1) :
        entry[f].extblk \notin BlocksOf(GetExtent(entry[f], k))

\* A partial truncation of a file that has all its bytes on blocks removes as
\* many blocks as it sets out to, so that the call succeeds.
ShrinkSucceeds ==
    [][ShrinkDone /\ Covered(call.file) => call.left = 0]_vars
=============================================================================

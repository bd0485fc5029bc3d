------------------------------ MODULE Extents -------------------------------
(***************************************************************************)
(* Blocks, extents and the block bitmap of a portfs storage file           *)
(* (kernel/bitmap.h, kernel/block_bitmap.h), and what the free-extent tree *)
(* of kernel/extent_tree.c contains for a given bitmap.  No state here:    *)
(* ExtentTree runs the scanning loop, FileStore uses its result.           *)
(*                                                                         *)
(* A bitmap is the set of the blocks whose bit is 1.                       *)
(***************************************************************************)
EXTENDS Integers

CONSTANTS
    DataStart,        \* psb->data_start
    TotalBlocks,      \* psb->total_blocks
    MaxExtentLength   \* MAX_EXTENT_LENGTH, 1024 in extent_tree.h

ASSUME GeometryAssumption ==
    /\ DataStart \in Nat \ {0}        \* block 0 holds the superblock
    /\ TotalBlocks \in Nat
    /\ DataStart <= TotalBlocks
    /\ MaxExtentLength \in Nat \ {0}

\* The blocks handed out to files and directories.
DataBlock == DataStart .. (TotalBlocks - 1)

\* The blocks of an extent; an extent of length 0 has none.
BlocksOf(e) == e.start .. (e.start + e.length - 1)

\* struct free_extent without its tree node.
FreeExtent == [start : DataBlock, length : 1 .. MaxExtentLength]

\* is_block_allocated, set_blocks_allocated, clear_blocks_allocated.
IsAllocated(bm, b) == b \in bm
SetAllocated(bm, e) == bm \cup BlocksOf(e)
ClearAllocated(bm, e) == bm \ BlocksOf(e)

\* find_free_block: the lowest free data block; the set is empty when the C
\* function returns -1.
FindFreeBlock(bm) ==
    {b \in DataBlock \ bm : \A c \in DataBlock \ bm : b <= c}

-----------------------------------------------------------------------------
\* portfs_extent_tree_insert goes left for a longer extent and, at equal
\* length, for a smaller start block: rb_first/rb_next visit in this order.
Before(a, b) ==
    \/ a.length > b.length
    \/ a.length = b.length /\ a.start < b.start

\* The extents rb_first can return: one, unless the tree is empty.
FirstExtent(tree) ==
    {e \in tree : \A o \in tree \ {e} : Before(e, o)}

-----------------------------------------------------------------------------
\* Reference definition of the free-extent tree.  The scan cuts a maximal run
\* of free blocks into pieces of MaxExtentLength and, because it resets its
\* counter without counting the block it stands on, leaves one block between
\* two pieces of the same run: pieces of the run that starts at block a start
\* at a + k * (MaxExtentLength + 1).
RunStart(bm, a) ==
    /\ a \in DataBlock \ bm
    /\ a = DataStart \/ a - 1 \in bm

AllFree(bm, a, b) == \A c \in a .. b : c \in DataBlock /\ c \notin bm

PieceStart(bm, s) ==
    \E a \in DataBlock, k \in 0 .. TotalBlocks :
        /\ s = a + k * (MaxExtentLength + 1)
        /\ RunStart(bm, a)
        /\ AllFree(bm, a, s)

\* A piece ends at its full length, at an allocated block or at the end of the
\* storage file.
PieceEnd(bm, e) ==
    \/ e.length = MaxExtentLength
    \/ e.start + e.length = TotalBlocks
    \/ e.start + e.length \in bm

FreeExtents(bm) ==
    {e \in FreeExtent :
        /\ PieceStart(bm, e.start)
        /\ AllFree(bm, e.start, e.start + e.length - 1)
        /\ PieceEnd(bm, e)}
=============================================================================

----------------------------- MODULE ExtentTree -----------------------------
(***************************************************************************)
(* portfs_build_extent_tree (kernel/extent_tree.c): one pass over the      *)
(* block bitmap that collects the runs of free blocks in a red-black tree, *)
(* one loop iteration per step.  The tree is the set of its extents; the   *)
(* order in which the allocator walks it is Extents!Before.                *)
(***************************************************************************)
EXTENDS Extents

VARIABLES
    bitmap,   \* psb->block_bitmap, not changed by the pass
    i,        \* the block the loop looks at
    length,   \* free blocks counted since the last insertion
    tree,     \* free_extent_tree
    pc        \* "scan", "done" (returned 0) or "nomem" (returned -ENOMEM)

vars == <<bitmap, i, length, tree, pc>>

TypeOK ==
    /\ bitmap \subseteq DataBlock
    /\ i \in DataStart .. TotalBlocks
    /\ length \in 0 .. MaxExtentLength
    /\ tree \subseteq FreeExtent
    /\ pc \in {"scan", "done", "nomem"}

Init ==
    /\ bitmap \in SUBSET DataBlock
    /\ i = DataStart
    /\ length = 0
    /\ tree = {}
    /\ pc = "scan"

-----------------------------------------------------------------------------
\* The insertion and the loop condition, with plausible slips in them and in
\* the actions below for the mutation checks.
InsertOffByOne(end) ==
    tree' = tree \cup {[start |-> end - length + 1, length |-> length]}

CountsPastMaximum == ~IsAllocated(bitmap, i)

\* portfs_extent_tree_insert of the run that ends before block `end`.
Insert(end) ==
    tree' = tree \cup {[start |-> end - length, length |-> length]}

\* The condition of the loop body: the block is free and the run not yet full.
CountsFree == ~IsAllocated(bitmap, i) /\ length < MaxExtentLength

EndOfRunKeepsCounting ==
    /\ pc = "scan"
    /\ i < TotalBlocks
    /\ ~CountsFree
    /\ length > 0
    /\ Insert(i)
    /\ UNCHANGED length
    /\ i' = i + 1
    /\ UNCHANGED <<bitmap, pc>>

FinishDropsLastRun ==
    /\ pc = "scan"
    /\ i = TotalBlocks
    /\ pc' = "done"
    /\ UNCHANGED <<bitmap, i, length, tree>>

EndOfRunRescans ==
    /\ pc = "scan"
    /\ i < TotalBlocks
    /\ ~CountsFree
    /\ length > 0
    /\ Insert(i)
    /\ length' = 0
    /\ i' = i - length
    /\ UNCHANGED <<bitmap, pc>>
-----------------------------------------------------------------------------
\* A free block that still fits the current extent.
CountBlock ==
    /\ pc = "scan"
    /\ i < TotalBlocks
    /\ CountsFree
    /\ length' = length + 1
    /\ i' = i + 1
    /\ UNCHANGED <<bitmap, tree, pc>>

\* An allocated block, or a full extent, ends the run.  The block itself is
\* not counted: after a full extent a free block is left out of the tree.
EndOfRun ==
    /\ pc = "scan"
    /\ i < TotalBlocks
    /\ ~CountsFree
    /\ length > 0
    /\ Insert(i)
    /\ length' = 0
    /\ i' = i + 1
    /\ UNCHANGED <<bitmap, pc>>

\* An allocated block with no run to end.
SkipBlock ==
    /\ pc = "scan"
    /\ i < TotalBlocks
    /\ ~CountsFree
    /\ length = 0
    /\ i' = i + 1
    /\ UNCHANGED <<bitmap, length, tree, pc>>

\* After the loop: the run that reaches the end of the storage file.
Finish ==
    /\ pc = "scan"
    /\ i = TotalBlocks
    /\ IF length > 0 THEN Insert(TotalBlocks) ELSE UNCHANGED tree
    /\ pc' = "done"
    /\ UNCHANGED <<bitmap, i, length>>

\* kmalloc of a tree node fails, in the loop or after it; what was inserted
\* so far stays in the tree.
NoMemory ==
    /\ pc = "scan"
    /\ length > 0
    /\ i = TotalBlocks \/ ~CountsFree
    /\ pc' = "nomem"
    /\ UNCHANGED <<bitmap, i, length, tree>>

Next == CountBlock \/ EndOfRun \/ SkipBlock \/ Finish \/ NoMemory

\* The pass is straight-line code of one thread: it keeps running.
Spec == Init /\ [][Next]_vars /\ WF_vars(Next)

-----------------------------------------------------------------------------
\* Every extent of the tree holds only free data blocks, also when the pass is
\* cut short: the allocator, which ignores the return value, never marks a
\* block twice.
TreeIsFree ==
    \A e \in tree : BlocksOf(e) \subseteq DataBlock \ bitmap

\* Two extents of the tree never touch: at least one block, allocated or left
\* out, lies between them.  In particular no block is offered twice.
ExtentsApart ==
    \A e, o \in tree :
        e # o => \/ e.start + e.length < o.start
                 \/ o.start + o.length < e.start

\* A finished pass misses a free block only right behind an extent of maximal
\* length: that is the block the length check consumes.
MissesOnlyBehindFull ==
    pc = "done" =>
        \A b \in DataBlock \ bitmap :
            \/ \E e \in tree : b \in BlocksOf(e)
            \/ \E e \in tree : e.length = MaxExtentLength
                                 /\ b = e.start + MaxExtentLength

\* The loop computes the reference definition.
TreeIsFreeExtents == pc = "done" => tree = FreeExtents(bitmap)

\* The pass ends, whatever the bitmap.
PassEnds == <>(pc # "scan")
=============================================================================

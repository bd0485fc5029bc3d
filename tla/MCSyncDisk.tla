----------------------------- MODULE MCSyncDisk -----------------------------
(* SyncDisk from four storage files: one that has nothing but a root, one    *)
(* with two files, the first with an extent list, one with a file that will  *)
(* need a list, and one with two files and no free block, where a list finds *)
(* none (the blocks nobody owns were lists of files that were removed).      *)
EXTENDS SyncDisk

BlockOfData(n) == [start |-> DataStart + n, length |-> 1]
File1 == [mode |-> "file", count |-> 2, direct |-> <<BlockOfData(1)>>,
          extblk |-> DataStart + 2, dirBlock |-> 0]
File3 == [Empty EXCEPT !.mode = "file"]
UsedTable == [NewTable EXCEPT ![0].dirBlock = DataStart, ![1] = File1, ![3] = File3]
FullTable == [NewTable EXCEPT ![0].dirBlock = DataStart,
                              ![1] = [File1 EXCEPT !.count = 1, !.extblk = 0]]
LastTable == [FullTable EXCEPT
    ![2] = [File3 EXCEPT !.count = 1, !.direct = <<BlockOfData(2)>>]]
UsedBlocks == DataStart .. (DataStart + 3)
UsedBlock(b) ==
    IF b = DataStart THEN NameBlock({1, 3})
    ELSE IF b = DataStart + 2 THEN ListBlock(<<Item(BlockOfData(3), "right")>>)
    ELSE Data

FullBlock(b) == IF b = DataStart THEN NameBlock({1}) ELSE Data
LastBlock(b) == IF b = DataStart THEN NameBlock({1, 2}) ELSE Data

\* New, mounted again, or still mounted on a machine whose mounts lose the
\* numbers.  The last three start with one sync less and more calls to spend.
Spent(calls, syncs, losses) == [calls |-> calls, syncs |-> syncs, losses |-> losses]
MCInit ==
    \/ /\ bigEndian = TRUE
       /\ \/ SavedWhole(NewTable, {}, LAMBDA b : Data, NoNames, Spent(2, 0, 0))
          \/ SavedWhole(UsedTable, UsedBlocks, UsedBlock, NoNames, Spent(2, 0, 0))
          \/ SavedWhole(FullTable, {DataStart, DataStart + 1}, FullBlock, NoNames,
                        Spent(1, 1, 1))
          \/ SavedWhole(LastTable, DataBlock, LastBlock, NoNames, Spent(0, 1, 1))
    \/ /\ bigEndian = FALSE
       /\ SavedWhole(UsedTable, UsedBlocks, UsedBlock, {1, 3}, Spent(0, 1, 0))
MCSpec == MCInit /\ [][Next]_vars
=============================================================================

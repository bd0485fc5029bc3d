-------------------------------- MODULE Races -------------------------------
(***************************************************************************)
(* System calls that overlap.  portfs has no lock of its own: the bitmap,  *)
(* the file table and the name lists of directories are read and written   *)
(* by several threads at a time (kernel/bitmap.h, kernel/extent_alloc.c,   *)
(* kernel/inode.c, kernel/directory.c).  The kernel holds the lock of a    *)
(* directory exclusively for creations and removals and shared for         *)
(* look-ups, and no lock at all for writes.                                *)
(*                                                                         *)
(* Setting or clearing a bit takes two steps, a load of its byte and a     *)
(* store; marking and attaching an extent, choosing a slot and taking it,  *)
(* allocating a name list and filling it are steps of their own.  The pass *)
(* over the bitmap is one step (ExtentTree has its loop).                  *)
(*                                                                         *)
(* Every thread creates and removes files in a directory of its own, which *)
(* is loaded; the directories of Dir are those looked at for the first     *)
(* time.  A file has no indirect extents.                                  *)
(***************************************************************************)
EXTENDS Extents, FiniteSets

CONSTANTS
    Thread,          \* threads in the kernel
    MaxFileCount,    \* slots of regular files
    Dir,             \* slots of directories
    StoredDir,       \* those with a block and a name on storage, and the block
    BitsPerByte,     \* 8
    DirectExtents,   \* extents of a file
    Wanted,          \* bound: the blocks a write asks for
    MaxCalls         \* bound: calls in a history

ASSUME RacesAssumption ==
    /\ IsFiniteSet(Thread)
    /\ MaxFileCount \in Nat \ {0}
    /\ Dir \subseteq Nat \ (0 .. MaxFileCount)
    /\ DOMAIN StoredDir \subseteq Dir
    /\ \A d \in DOMAIN StoredDir : StoredDir[d] \in DataBlock
    /\ \A c, d \in DOMAIN StoredDir : c # d => StoredDir[c] # StoredDir[d]
    /\ BitsPerByte \in Nat \ {0}
    /\ DirectExtents \in Nat \ {0}
    /\ Wanted \subseteq Nat \ {0}
    /\ MaxCalls \in Nat

VARIABLES
    bitmap,      \* psb->block_bitmap
    used,        \* the slots whose mode is not 0
    owners,      \* how many files in the inode cache live in a slot
    count,       \* extent_count
    direct,      \* direct_extents
    dirBlock,    \* dir_block
    list,        \* what dir_entries points to
    missed,      \* directories in which a look-up missed a stored name
    fault,       \* memory is used after it was freed
    call,        \* the call of each thread and its locals
    begun,       \* calls so far
    past         \* history: in which ways calls have collided

files == <<used, owners, count, direct>>
dirs == <<dirBlock, list, missed, fault>>
vars == <<bitmap, files, dirs, call, begun, past>>

-----------------------------------------------------------------------------
File == 1 .. MaxFileCount
Slot == 0 .. (DirectExtents - 1)
NoDir == 0
DirBlock == -1

NoExtent == [start |-> 0, length |-> 0]
Extent == [start : {0} \cup DataBlock, length : 0 .. MaxExtentLength]

Byte(b) == {c \in DataBlock : c \div BitsPerByte = b \div BitsPerByte}
Lowest(S) == CHOOSE b \in S : \A c \in S : b <= c

Idle == [op |-> "idle", at |-> "start", file |-> 1, dir |-> NoDir,
         left |-> 0, k |-> 0, tree |-> {}, ext |-> NoExtent,
         todo |-> {}, byte |-> {}]

Call == [op   : {"idle", "write", "unlink", "create", "look"},
         at   : {"start", "take", "bits", "store", "free", "slot",
                 "check", "list", "load", "fill", "scan"},
         file : File,
         dir  : Dir \cup {NoDir},
         left : Int,                  \* remaining_blocks
         k    : 0 .. DirectExtents,   \* free_ext_idx, i
         tree : SUBSET FreeExtent,    \* free_extent_tree
         ext  : Extent,               \* the extent being marked
         todo : SUBSET DataBlock,     \* bits still to change
         byte : SUBSET DataBlock]     \* the byte as it was loaded

TypeOK ==
    /\ bitmap \subseteq DataBlock
    /\ used \subseteq File
    /\ owners \in [File -> 0 .. MaxCalls]
    /\ count \in [File -> 0 .. DirectExtents]
    /\ direct \in [File -> [Slot -> Extent]]
    /\ dirBlock \in [Dir -> {0} \cup DataBlock]
    /\ list \in [Dir -> {"null", "blank", "filled", "freed"}]
    /\ missed \subseteq Dir
    /\ fault \in BOOLEAN
    /\ call \in [Thread -> Call]
    /\ begun \in 0 .. MaxCalls
    /\ past \subseteq {"stale", "torn", "same file", "same directory",
                       "creations", "read failed", "no buffer"}

\* A mounted storage with no files and with nothing loaded.
Init ==
    /\ bitmap = {StoredDir[d] : d \in DOMAIN StoredDir}
    /\ used = {}
    /\ owners = [f \in File |-> 0]
    /\ count = [f \in File |-> 0]
    /\ direct = [f \in File |-> [k \in Slot |-> NoExtent]]
    /\ dirBlock = [d \in Dir |-> IF d \in DOMAIN StoredDir THEN StoredDir[d] ELSE 0]
    /\ list = [d \in Dir |-> "null"]
    /\ missed = {}
    /\ fault = FALSE
    /\ call = [t \in Thread |-> Idle]
    /\ begun = 0
    /\ past = {}

-----------------------------------------------------------------------------
\* Thread t enters with call c; `collides` says which running calls it meets.
Enter(t, c, collides(_), kind) ==
    /\ call[t].op = "idle"
    /\ ~fault
    /\ begun < MaxCalls
    /\ begun' = begun + 1
    /\ call' = [call EXCEPT ![t] = c]
    /\ past' = IF \E u \in Thread \ {t} : collides(call[u])
               THEN past \cup {kind} ELSE past
    /\ UNCHANGED <<bitmap, files, dirs>>

At(t, op, at) == call[t].op = op /\ call[t].at = at /\ ~fault

Goto(t, at) == call' = [call EXCEPT ![t].at = at]
Leave(t) == call' = [call EXCEPT ![t] = Idle]

-----------------------------------------------------------------------------
\* portfs_bitmap_set_bit and portfs_bitmap_clear_bit: byte |= bit, byte &= ~bit.
Clears(t) == call[t].op = "unlink"

\* The bit may have changed since the call saw it last.
LoadByte(t) ==
    /\ call[t].at = "bits" /\ call[t].todo # {} /\ ~fault
    /\ LET b == Lowest(call[t].todo)
       IN /\ call' = [call EXCEPT ![t].byte = bitmap \cap Byte(b), ![t].at = "store"]
          /\ past' = IF Clears(t) # IsAllocated(bitmap, b) THEN past \cup {"stale"}
                     ELSE past
    /\ UNCHANGED <<bitmap, files, dirs, begun>>

\* Faulty variant, for CallsReturn: the loop over the bits does not advance.
StoreSameByte(t) ==
    /\ call[t].at = "store" /\ ~fault
    /\ LET b == Lowest(call[t].todo)
       IN bitmap' = (bitmap \ Byte(b)) \cup
                    (IF Clears(t) THEN call[t].byte \ {b} ELSE call[t].byte \cup {b})
    /\ call' = [call EXCEPT ![t].byte = {}, ![t].at = "bits"]
    /\ UNCHANGED <<files, dirs, begun, past>>

\* The store overwrites what others did to the byte in the meantime.
StoreByte(t) ==
    /\ call[t].at = "store" /\ ~fault
    /\ LET b == Lowest(call[t].todo)
       IN /\ bitmap' = (bitmap \ Byte(b)) \cup
                       (IF Clears(t) THEN call[t].byte \ {b} ELSE call[t].byte \cup {b})
          /\ call' = [call EXCEPT ![t].todo = @ \ {b}, ![t].byte = {}, ![t].at = "bits"]
          /\ past' = IF bitmap \cap Byte(b) # call[t].byte THEN past \cup {"torn"}
                     ELSE past
    /\ UNCHANGED <<files, dirs, begun>>

Changed(t, op) == At(t, op, "bits") /\ call[t].todo = {}

-----------------------------------------------------------------------------
\* portfs_allocate_memory for n blocks.
UsesFile(f, c) == c.op \in {"write", "unlink"} /\ c.file = f

BeginWrite(t, f, n) ==
    /\ owners[f] > 0
    /\ Enter(t, [Idle EXCEPT !.op = "write", !.at = "take", !.file = f, !.left = n,
                             !.k = count[f], !.tree = FreeExtents(bitmap)],
             LAMBDA c : UsesFile(f, c), "same file")

\* Faulty variant, for TypeOK: the loop does not stop at the last extent.
GoesOnPastMaximum(c) == c.left > 0 /\ c.tree # {}

\* The loop goes on: more blocks are wanted, and there is an extent for them.
GoesOn(c) == c.left > 0 /\ c.tree # {} /\ c.k < DirectExtents

TakeExtent(t) ==
    /\ At(t, "write", "take") /\ GoesOn(call[t])
    /\ \E x \in FirstExtent(call[t].tree) :
          call' = [call EXCEPT ![t].ext = x, ![t].todo = BlocksOf(x),
                               ![t].tree = @ \ {x}, ![t].left = @ - x.length,
                               ![t].at = "bits"]
    /\ UNCHANGED <<bitmap, files, dirs, begun, past>>

Attach(t) ==
    /\ Changed(t, "write")
    /\ direct' = [direct EXCEPT ![call[t].file][call[t].k] = call[t].ext]
    /\ call' = [call EXCEPT ![t].k = @ + 1, ![t].ext = NoExtent, ![t].at = "take"]
    /\ UNCHANGED <<bitmap, used, owners, count, dirs, begun, past>>

SetCount(t) ==
    /\ At(t, "write", "take") /\ ~GoesOn(call[t])
    /\ count' = [count EXCEPT ![call[t].file] = call[t].k]
    /\ Leave(t)
    /\ UNCHANGED <<bitmap, used, owners, direct, dirs, begun, past>>

-----------------------------------------------------------------------------
\* portfs_unlink of a file that may be open elsewhere.  The kernel holds the
\* lock of the directory, so that a file is removed once.
BeginUnlink(t, f) ==
    /\ Cardinality({u \in Thread : call[u].op = "unlink" /\ call[u].file = f}) < owners[f]
    /\ Enter(t, [Idle EXCEPT !.op = "unlink", !.at = "free", !.file = f],
             LAMBDA c : UsesFile(f, c), "same file")

\* Faulty variant, for CollisionsHaveACause: one block too many is cleared.
FreeNextExtentTooFar(t) ==
    /\ At(t, "unlink", "free") /\ call[t].k < count[call[t].file]
    /\ LET x == direct[call[t].file][call[t].k]
       IN call' = [call EXCEPT ![t].todo = DataBlock \cap (x.start .. x.start + x.length),
                               ![t].k = @ + 1, ![t].at = "bits"]
    /\ UNCHANGED <<bitmap, files, dirs, begun, past>>

FreeNextExtent(t) ==
    /\ At(t, "unlink", "free") /\ call[t].k < count[call[t].file]
    /\ call' = [call EXCEPT ![t].todo = BlocksOf(direct[call[t].file][call[t].k]),
                            ![t].k = @ + 1, ![t].at = "bits"]
    /\ UNCHANGED <<bitmap, files, dirs, begun, past>>

ExtentFreed(t) ==
    /\ Changed(t, "unlink")
    /\ Goto(t, "free")
    /\ UNCHANGED <<bitmap, files, dirs, begun, past>>

ClearEntry(t) ==
    /\ At(t, "unlink", "free") /\ call[t].k >= count[call[t].file]
    /\ used' = used \ {call[t].file}
    /\ owners' = [owners EXCEPT ![call[t].file] = @ - 1]
    /\ count' = [count EXCEPT ![call[t].file] = 0]
    /\ direct' = [direct EXCEPT ![call[t].file] = [k \in Slot |-> NoExtent]]
    /\ Leave(t)
    /\ UNCHANGED <<bitmap, dirs, begun, past>>

-----------------------------------------------------------------------------
\* Faulty variant, for SlotsHaveOneFile: a slot is free when it has no extents.
EmptyFileEntry == {f \in File : count[f] = 0 /\ \A g \in File : g < f => count[g] # 0}

\* portfs_create: the slot is found, and taken by setting its mode.
FreeFileEntry == {f \in File \ used : \A g \in File : g < f => g \in used}

BeginCreate(t) ==
    \E f \in FreeFileEntry :
        Enter(t, [Idle EXCEPT !.op = "create", !.at = "slot", !.file = f],
              LAMBDA c : c.op = "create", "creations")

TakeSlot(t) ==
    /\ At(t, "create", "slot")
    /\ used' = used \cup {call[t].file}
    /\ owners' = [owners EXCEPT ![call[t].file] = @ + 1]
    /\ Leave(t)
    /\ UNCHANGED <<bitmap, count, direct, dirs, begun, past>>

-----------------------------------------------------------------------------
\* portfs_de_find for the name a directory has on storage; portfs_load_dir_data
\* when it is the first look.
BeginLook(t, d) ==
    Enter(t, [Idle EXCEPT !.op = "look", !.at = "check", !.dir = d],
          LAMBDA c : c.op = "look" /\ c.dir = d, "same directory")

\* Faulty variant, for LookUpsAreRight: a list is loaded only without a block.
CheckBlock(t) ==
    /\ At(t, "look", "check")
    /\ Goto(t, IF dirBlock[call[t].dir] = 0 THEN "list" ELSE "scan")
    /\ UNCHANGED <<bitmap, files, dirs, begun, past>>

CheckList(t) ==
    /\ At(t, "look", "check")
    /\ Goto(t, IF list[call[t].dir] = "null" THEN "list" ELSE "scan")
    /\ UNCHANGED <<bitmap, files, dirs, begun, past>>

\* kzalloc: the pointer is visible before the names are.
AllocateList(t) ==
    /\ At(t, "look", "list")
    /\ list' = [list EXCEPT ![call[t].dir] = "blank"]
    /\ Goto(t, "load")
    /\ UNCHANGED <<bitmap, files, dirBlock, missed, fault, begun, past>>

\* A new directory gets a block, if there is one.
FindDirBlock(t) ==
    /\ At(t, "look", "load")
    /\ dirBlock[call[t].dir] = 0
    /\ call' = IF FindFreeBlock(bitmap) = {} THEN [call EXCEPT ![t].at = "scan"]
               ELSE [call EXCEPT ![t].todo = FindFreeBlock(bitmap),
                                 ![t].ext = [start |-> Lowest(FindFreeBlock(bitmap)),
                                             length |-> 1],
                                 ![t].at = "bits"]
    /\ UNCHANGED <<bitmap, files, dirs, begun, past>>

SetDirBlock(t) ==
    /\ Changed(t, "look")
    /\ dirBlock' = [dirBlock EXCEPT ![call[t].dir] = call[t].ext.start]
    /\ call' = [call EXCEPT ![t].ext = NoExtent, ![t].at = "scan"]
    /\ UNCHANGED <<bitmap, files, list, missed, fault, begun, past>>

\* Another one is read into a buffer, and the list filled from there.
ReadDirBlock(t) ==
    /\ At(t, "look", "load")
    /\ dirBlock[call[t].dir] # 0
    /\ Goto(t, "fill")
    /\ UNCHANGED <<bitmap, files, dirs, begun, past>>

\* Nobody asks how the loading ended.  Without memory for the buffer the list
\* stays as it is, and for every later look-up.
NoReadBuffer(t) ==
    /\ At(t, "look", "load")
    /\ dirBlock[call[t].dir] # 0
    /\ past' = past \cup {"no buffer"}
    /\ Goto(t, "scan")
    /\ UNCHANGED <<bitmap, files, dirs, begun>>

\* After a failing read the list is freed and the pointer to it left.
ReadFails(t) ==
    /\ At(t, "look", "load")
    /\ dirBlock[call[t].dir] # 0
    /\ list' = [list EXCEPT ![call[t].dir] = "freed"]
    /\ past' = past \cup {"read failed"}
    /\ Goto(t, "scan")
    /\ UNCHANGED <<bitmap, files, dirBlock, missed, fault, begun>>

FillList(t) ==
    /\ At(t, "look", "fill")
    /\ IF list[call[t].dir] = "freed" THEN fault' = TRUE /\ UNCHANGED list
       ELSE list' = [list EXCEPT ![call[t].dir] = "filled"] /\ UNCHANGED fault
    /\ Goto(t, "scan")
    /\ UNCHANGED <<bitmap, files, dirBlock, missed, begun, past>>

ScanList(t) ==
    /\ At(t, "look", "scan")
    /\ fault' = (list[call[t].dir] \in {"freed", "null"})
    /\ missed' = IF list[call[t].dir] = "blank"
                 THEN missed \cup ({call[t].dir} \cap DOMAIN StoredDir) ELSE missed
    /\ Leave(t)
    /\ UNCHANGED <<bitmap, files, dirBlock, list, begun, past>>

-----------------------------------------------------------------------------
Step(t) ==
    \/ LoadByte(t) \/ StoreByte(t)
    \/ TakeExtent(t) \/ Attach(t) \/ SetCount(t)
    \/ FreeNextExtent(t) \/ ExtentFreed(t) \/ ClearEntry(t)
    \/ TakeSlot(t)
    \/ CheckList(t) \/ AllocateList(t) \/ FindDirBlock(t) \/ SetDirBlock(t)
    \/ ReadDirBlock(t) \/ FillList(t) \/ ScanList(t)

Next ==
    \E t \in Thread :
        \/ \E f \in File, n \in Wanted : BeginWrite(t, f, n)
        \/ \E f \in File : BeginUnlink(t, f)
        \/ BeginCreate(t)
        \/ \E d \in Dir : BeginLook(t, d)
        \/ NoReadBuffer(t) \/ ReadFails(t)
        \/ Step(t)

\* Threads in the kernel are scheduled.
Spec == Init /\ [][Next]_vars /\ \A t \in Thread : WF_vars(Step(t))

-----------------------------------------------------------------------------
\* What lays claim to blocks: the extents of files, less what a removal has
\* cleared already, and the blocks of directories.
Claim == (File \X Slot) \cup (Dir \X {DirBlock})

Cleared(f, k) ==
    UNION {BlocksOf(direct[f][k]) \ call[t].todo :
           t \in {u \in Thread : call[u].op = "unlink" /\ call[u].file = f /\ k < call[u].k}}

Claimed(c) ==
    IF c[2] = DirBlock THEN {dirBlock[c[1]]} \ {0}
    ELSE BlocksOf(direct[c[1]][c[2]]) \ Cleared(c[1], c[2])

AtRest == \A t \in Thread : call[t].op = "idle"

Exclusive ==
    /\ \A c, d \in Claim : c # d => Claimed(c) \cap Claimed(d) = {}
    /\ \A c \in Claim : Claimed(c) \subseteq bitmap
    /\ AtRest => bitmap = UNION {Claimed(c) : c \in Claim}

\* However calls overlap, a block gets a second owner, an owned block loses its
\* mark or a marked block its owner only in four ways: a bit had changed since a
\* call saw it last, a byte changed between its load and its store, two calls
\* were busy with one file, or with one directory.
CollisionsHaveACause ==
    past \cap {"stale", "torn", "same file", "same directory"} = {} => Exclusive

\* Two files live in one slot only after creations that overlapped.
SlotsHaveOneFile == \A f \in File : owners[f] > 1 => "creations" \in past

\* A look-up misses a name that is on storage only when another look-up of the
\* directory was under way or there was no memory to read the names into, and
\* freed memory is used only after a failing read.
LookUpsAreRight ==
    /\ missed # {} => past \cap {"same directory", "no buffer"} # {}
    /\ fault => "read failed" \in past

\* Every call returns, however they interleave.
CallsReturn ==
    \A t \in Thread : (call[t].op # "idle") ~> (call[t].op = "idle" \/ fault)
=============================================================================

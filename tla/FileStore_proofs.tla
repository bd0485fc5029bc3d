-------------------------- MODULE FileStore_proofs --------------------------
(***************************************************************************)
(* The file store, for every number of files, handles and blocks and every *)
(* set of offsets: its types, who owns which block, that no block is lost, *)
(* which memory errors there are, and that a file that grows keeps its     *)
(* bytes on blocks.                                                        *)
(***************************************************************************)
EXTENDS FileStore, Extents_proofs, FiniteSetTheorems

LEMMA Numbers ==
    /\ DataStart \in Nat \ {0} /\ TotalBlocks \in Nat
    /\ MaxExtentLength \in Nat \ {0}
    /\ BlockSize \in Nat \ {0} /\ DirectExtents \in Nat \ {0}
    /\ IndirectSlots \in Nat /\ MaxExtents \in Nat /\ MaxExtents < CountModulus
    /\ MaxFileCount \in Nat \ {0} /\ ModeWord \in Nat /\ PointerWord \in Nat
    /\ SizeModulus \in Nat \ {0}
    /\ Offsets \subseteq Nat /\ 0 \in Offsets
    /\ CountModulus = 65536
BY GeometryAssumption, FileStoreAssumption DEF MaxExtents, CountModulus

-----------------------------------------------------------------------------
\* Types of the operators.

LEMMA NoExtentIsExtent ==
    /\ NoExtent \in Extent
    /\ BlocksOf(NoExtent) = {}
    /\ NoList \in [IndirectSlot -> Extent]
BY Numbers DEF NoExtent, Extent, BlocksOf, NoList

LEMMA FreeEntryIsEntry == FreeEntry \in Entry
BY Numbers, NoExtentIsExtent DEF FreeEntry, Entry

LEMMA FreeExtentIsExtent == \A x \in FreeExtent : x \in Extent
BY Numbers DEF FreeExtent, Extent

LEMMA FindFreeBlockType ==
    ASSUME NEW bm
    PROVE  FindFreeBlock(bm) \subseteq DataBlock \ bm
BY DEF FindFreeBlock

LEMMA GetExtentType ==
    ASSUME NEW e \in Entry, NEW k \in Nat, k < MaxExtents
    PROVE  GetExtent(e, k) \in Extent
<1>1. DirectExtents \in Nat /\ IndirectSlots \in Nat
  BY FileStoreAssumption
<1>2. CASE k < DirectExtents
  <2>1. k \in DirectSlot
    BY <1>1, <1>2 DEF DirectSlot
  <2>2. e.direct \in [DirectSlot -> Extent]
    BY DEF Entry
  <2>3. e.direct[k] \in Extent
    BY <2>1, <2>2
  <2> QED
    BY <1>2, <2>3 DEF GetExtent
<1>3. CASE ~(k < DirectExtents)
  <2>1. k < DirectExtents + IndirectSlots
    BY DEF MaxExtents
  <2>2. k - DirectExtents \in IndirectSlot
    BY <1>1, <1>3, <2>1 DEF IndirectSlot
  <2>3. e.more \in [IndirectSlot -> Extent]
    BY DEF Entry
  <2>4. e.more[k - DirectExtents] \in Extent
    BY <2>2, <2>3
  <2> QED
    BY <1>3, <2>4 DEF GetExtent
<1> QED
  BY <1>2, <1>3

\* Sizes are numbers: the blocks of a file are finitely many.
LEMMA AllocatedSizeType ==
    ASSUME NEW e \in Entry, NEW n \in Nat
    PROVE  AllocatedSize(e, n) \in Nat
<1> DEFINE all == (0 .. (n - 1)) \X (0 .. (MaxExtentLength - 1))
<1>1. IsFiniteSet(0 .. (n - 1)) /\ IsFiniteSet(0 .. (MaxExtentLength - 1))
  BY Numbers, FS_Interval
<1>2. IsFiniteSet(all)
  BY <1>1, FS_Product
<1>3. Places(e, n) \subseteq all
  BY DEF Places
<1>4. Cardinality(Places(e, n)) \in Nat
  BY <1>2, <1>3, FS_Subset, FS_CardinalityType
<1> QED
  BY <1>4, Numbers DEF AllocatedSize

LEMMA CountModulusIsNat == CountModulus \in Nat /\ CountModulus > 0
BY DEF CountModulus

LEMMA CountIsNat ==
    ASSUME NEW c \in 0 .. (CountModulus - 1)
    PROVE  c \in Nat
BY CountModulusIsNat

LEMMA OffsetIsNat ==
    ASSUME NEW o \in Offsets
    PROVE  o \in Nat
BY FileStoreAssumption

LEMMA EntryFields ==
    ASSUME NEW e \in Entry
    PROVE  /\ e.size \in Offsets /\ e.size \in Nat
           /\ e.count \in 0 .. (CountModulus - 1) /\ e.count \in Nat
           /\ e.extblk \in {0} \cup DataBlock
           /\ e.direct \in [DirectSlot -> Extent]
           /\ e.indirect \in {"null", "list", "raw"}
           /\ e.more \in [IndirectSlot -> Extent]
<1>1. e.count \in 0 .. (CountModulus - 1)
  BY DEF Entry
<1>2. e.size \in Offsets
  BY DEF Entry
<1>3. /\ e.extblk \in {0} \cup DataBlock
      /\ e.direct \in [DirectSlot -> Extent]
      /\ e.indirect \in {"null", "list", "raw"}
      /\ e.more \in [IndirectSlot -> Extent]
  BY DEF Entry
<1>4. e.count \in Nat
  BY <1>1, CountIsNat
<1>5. e.size \in Nat
  BY <1>2, OffsetIsNat
<1> QED
  BY <1>1, <1>2, <1>3, <1>4, <1>5

LEMMA AvailableType ==
    ASSUME NEW e \in Entry
    PROVE  Available(e) \in Nat
<1>1. AllocatedSize(e, e.count) \in Int
  BY AllocatedSizeType, EntryFields
<1>2. e.size \in Int
  BY EntryFields
<1>3. SizeModulus \in Nat /\ SizeModulus > 0
  BY Numbers
<1> QED
  BY <1>1, <1>2, <1>3 DEF Available

LEMMA BlocksType ==
    ASSUME NEW b \in Int
    PROVE  Blocks(b) \in Int
BY Numbers DEF Blocks

LEMMA DecrementType ==
    ASSUME NEW c \in Int
    PROVE  Decrement(c) \in 0 .. (CountModulus - 1)
<1>1. CountModulus \in Nat /\ CountModulus > 0
  BY CountModulusIsNat
<1>2. c - 1 \in Int
  OBVIOUS
<1>3. (c - 1) % CountModulus \in 0 .. (CountModulus - 1)
  BY <1>1, <1>2
<1> QED
  BY <1>3 DEF Decrement

LEMMA WithListType ==
    ASSUME NEW bm, NEW e \in Entry
    PROVE  WithList(bm, e) \in Entry
<1>1. ListBlock(bm, e) # {} =>
        (CHOOSE b \in ListBlock(bm, e) : TRUE) \in DataBlock
  BY FindFreeBlockType DEF ListBlock
<1> QED
  BY <1>1, NoExtentIsExtent DEF WithList, Entry

-----------------------------------------------------------------------------
\* Type correctness.  The allocator writes its loop counter k back to the
\* 16-bit extent_count, so k has to stay small while it runs; and the extents it
\* hands out have to lie in the data area.

CallOK ==
    /\ call.op = "alloc" =>
           /\ call.k \in 0 .. (CountModulus - 1)
           /\ \A x \in call.tree : BlocksOf(x) \subseteq DataBlock
    /\ call.op = "shrink" => call.k \in Nat \cup {-1}

TypeInv == TypeOK /\ CallOK

LEMMA IdleIsCall == Idle \in Call /\ Idle.op = "idle"
BY Numbers DEF Idle, Call, File

\* The steps of a call keep everything but these four.
LEMMA TypeStep ==
    ASSUME TypeInv,
           bitmap' \subseteq DataBlock, entry' \in [File -> Entry],
           call' \in Call, CallOK',
           UNCHANGED <<handle, dirBlocks>>,
           fault' \in {"none", "detached", "null", "raw", "wild", "table_end"},
           past' \subseteq {"spilled", "shrunk", "orphaned"}
    PROVE  TypeInv'
BY DEF TypeInv, TypeOK

LEMMA FailType ==
    ASSUME TypeInv,
           NEW kind \in {"none", "detached", "null", "raw", "wild", "table_end"},
           Fail(kind)
    PROVE  TypeInv'
BY DEF TypeInv, TypeOK, CallOK, Fail

LEMMA BadAccessType ==
    ASSUME NEW e \in Entry
    PROVE  BadAccess(e) \in {"none", "detached", "null", "raw", "wild", "table_end"}
BY EntryFields DEF BadAccess

\* One slot of the table changes.
LEMMA EntryStep ==
    ASSUME TypeInv, NEW f \in File, NEW e \in Entry
    PROVE  [entry EXCEPT ![f] = e] \in [File -> Entry]
BY DEF TypeInv, TypeOK

LEMMA WrittenType ==
    ASSUME NEW e \in Entry, NEW pos \in Offsets, NEW end \in Offsets
    PROVE  Written(e, pos, end) \in Entry
BY DEF Written, Entry

LEMMA IdleStep ==
    ASSUME TypeInv, NEW f \in File, NEW e \in Entry,
           entry' = [entry EXCEPT ![f] = e],
           call' = Idle,
           UNCHANGED <<bitmap, handle, dirBlocks, fault, past>>
    PROVE  TypeInv'
<1>1. entry' \in [File -> Entry]
  BY EntryStep
<1>2. call' \in Call /\ CallOK'
  BY IdleIsCall DEF CallOK
<1> QED
  BY <1>1, <1>2, TypeStep DEF TypeInv, TypeOK

LEMMA CopyType ==
    ASSUME TypeInv, NEW f \in File, NEW e \in Entry,
           NEW pos \in Offsets, NEW end \in Offsets,
           Copy(f, e, pos, end)
    PROVE  TypeInv'
<1>1. CASE pos < end /\ WalksAstray(e, end - 1)
  BY <1>1, FailType, BadAccessType DEF Copy
<1>2. CASE ~(pos < end /\ WalksAstray(e, end - 1))
  BY <1>2, IdleStep, WrittenType DEF Copy
<1> QED
  BY <1>1, <1>2

LEMMA ListBlockType ==
    ASSUME NEW bm, NEW e
    PROVE  ListBlock(bm, e) \subseteq DataBlock \ bm
BY FindFreeBlockType DEF ListBlock

LEMMA AskedType ==
    ASSUME NEW bytes \in Int
    PROVE  (Blocks(bytes) * 1500) \div 1000 \in Int
BY BlocksType

LEMMA BeginAllocType ==
    ASSUME TypeInv, NEW f \in File, NEW bytes \in Int,
           NEW next \in {"none", "write", "grow"},
           NEW pos \in Offsets, NEW end \in Offsets,
           BeginAlloc(f, bytes, next, pos, end)
    PROVE  TypeInv'
<1> DEFINE e == entry[f]
<1>1. e \in Entry /\ entry \in [File -> Entry] /\ bitmap \subseteq DataBlock
  BY DEF TypeInv, TypeOK
<1>2. entry' \in [File -> Entry]
  BY <1>1, WithListType, EntryStep DEF BeginAlloc
<1>3. bitmap' \subseteq DataBlock
  BY <1>1, ListBlockType DEF BeginAlloc
<1>4. e.count \in 0 .. (CountModulus - 1) /\ e.count \in Int
  BY <1>1, EntryFields
<1>5. FreeExtents(bitmap) \subseteq FreeExtent
  BY FreeExtentsAreFree
<1>6. call' \in Call
  BY <1>4, <1>5, AskedType DEF BeginAlloc, Call
<1>7. CallOK'
  BY <1>4, FreeExtentsAreFree DEF BeginAlloc, CallOK
<1>8. past' \subseteq {"spilled", "shrunk", "orphaned"} /\ fault' = fault
  BY DEF BeginAlloc, TypeInv, TypeOK
<1>9. UNCHANGED <<handle, dirBlocks>>
  BY DEF BeginAlloc
<1> QED
  BY <1>2, <1>3, <1>6, <1>7, <1>8, <1>9, TypeStep DEF TypeInv, TypeOK

\* The type invariant, split for the steps below.
LEMMA TypeParts ==
    ASSUME TypeInv
    PROVE  /\ bitmap \subseteq DataBlock
           /\ entry \in [File -> Entry]
           /\ \A f \in File : entry[f] \in Entry
           /\ call \in Call
           /\ call.file \in File /\ call.pos \in Offsets /\ call.end \in Offsets
           /\ call.left \in Int /\ call.k \in Int
           /\ call.tree \subseteq FreeExtent
           /\ fault \in {"none", "detached", "null", "raw", "wild", "table_end"}
           /\ past \subseteq {"spilled", "shrunk", "orphaned"}
BY DEF TypeInv, TypeOK, Call

LEMMA FirstExtentType ==
    ASSUME NEW tree, tree \subseteq FreeExtent, NEW x \in FirstExtent(tree)
    PROVE  /\ x \in tree /\ x \in FreeExtent /\ x \in Extent
           /\ x.length \in Int
           /\ BlocksOf(x) \subseteq Int
<1>1. x \in tree /\ x \in FreeExtent
  BY DEF FirstExtent
<1>2. x.length \in Int /\ x.start \in Int
  BY <1>1, Numbers DEF FreeExtent, DataBlock
<1> QED
  BY <1>1, <1>2, FreeExtentIsExtent DEF BlocksOf

LEMMA NextCount ==
    ASSUME NEW k \in Nat, k < MaxExtents
    PROVE  k + 1 \in 0 .. (CountModulus - 1)
<1>1. ASSUME NEW m \in Nat, NEW n \in Nat, k < m, m < n
      PROVE  k + 1 \in 0 .. (n - 1)
  BY <1>1
<1>2. MaxExtents \in Nat /\ CountModulus \in Nat /\ MaxExtents < CountModulus
  BY Numbers
<1> QED
  BY <1>1, <1>2

\* One iteration of the allocation loop.
LEMMA LoopStep ==
    ASSUME TypeInv, call.op = "alloc", call.k < MaxExtents,
           NEW x \in FirstExtent(call.tree),
           call' = [call EXCEPT !.k = @ + 1, !.left = @ - x.length,
                                !.tree = @ \ {x}]
    PROVE  call' \in Call /\ CallOK'
<1>1. x.length \in Int
  BY FirstExtentType, TypeParts
<1>2. call.k \in Nat
  BY CountIsNat DEF TypeInv, CallOK
<1>3. call.k + 1 \in 0 .. (CountModulus - 1)
  BY <1>2, NextCount
<1>4. call.k + 1 \in Int /\ call.left - x.length \in Int
      /\ call.tree \ {x} \subseteq FreeExtent
  BY <1>1, TypeParts
<1>5. call \in Call
  BY TypeParts
<1>6. call' \in Call
  BY <1>4, <1>5 DEF Call
<1>7. call'.op = "alloc" /\ call'.k = call.k + 1 /\ call'.tree = call.tree \ {x}
  BY <1>5 DEF Call
<1> QED
  BY <1>3, <1>6, <1>7 DEF CallOK, TypeInv

LEMMA TakeDirectType ==
    ASSUME TypeInv, TakeDirect
    PROVE  TypeInv'
<1>1. PICK x \in FirstExtent(call.tree) :
         /\ bitmap' = SetAllocated(bitmap, x)
         /\ entry' = [entry EXCEPT ![call.file].direct[call.k] = x]
         /\ call' = [call EXCEPT !.k = @ + 1, !.left = @ - x.length,
                                 !.tree = @ \ {x}]
  BY DEF TakeDirect
<1>2. x \in call.tree /\ x \in Extent
  BY FirstExtentType, TypeParts
<1>3. call.op = "alloc" /\ call.k < MaxExtents
  BY Numbers, TypeParts DEF TakeDirect, Busy, MaxExtents
<1>4. bitmap' \subseteq DataBlock
  BY <1>1, <1>2, <1>3, TypeParts DEF TypeInv, CallOK, SetAllocated
<1>5. [entry[call.file] EXCEPT !.direct[call.k] = x] \in Entry
  <2>1. entry[call.file] \in Entry
    BY TypeParts
  <2> QED
    BY <1>2, <2>1 DEF Entry
<1>6. entry' \in [File -> Entry]
  BY <1>1, <1>5, EntryStep, TypeParts
<1>7. call' \in Call /\ CallOK'
  BY <1>1, <1>3, LoopStep
<1> QED
  BY <1>4, <1>6, <1>7, TypeStep, TypeParts DEF TakeDirect

LEMMA TakeIndirectType ==
    ASSUME TypeInv, TakeIndirect
    PROVE  TypeInv'
<1> DEFINE old == entry[call.file]
<1>1. PICK x \in FirstExtent(call.tree) :
         LET bm == SetAllocated(bitmap, x)
             e  == WithList(bm, old)
         IN /\ bitmap' = bm \cup ListBlock(bm, old)
            /\ entry' = [entry EXCEPT ![call.file] =
                  IF e.indirect = "raw" THEN e
                  ELSE [e EXCEPT !.more[call.k - DirectExtents] = x]]
            /\ call' = [call EXCEPT !.k = @ + 1, !.left = @ - x.length,
                                    !.tree = @ \ {x}]
  BY DEF TakeIndirect
<1> DEFINE bm == SetAllocated(bitmap, x)
           e  == WithList(bm, old)
<1>2. x \in call.tree /\ x \in Extent
  BY FirstExtentType, TypeParts
<1>3. call.op = "alloc" /\ call.k < MaxExtents
  BY DEF TakeIndirect, Busy
<1>4. bm \subseteq DataBlock
  BY <1>2, <1>3, TypeParts DEF TypeInv, CallOK, SetAllocated
<1>5. bitmap' \subseteq DataBlock
  BY <1>1, <1>4, ListBlockType
<1>6. e \in Entry
  BY WithListType, TypeParts
<1>7. [e EXCEPT !.more[call.k - DirectExtents] = x] \in Entry
  <2> HIDE DEF e
  <2> QED
    BY <1>2, <1>6 DEF Entry
<1>8. entry' \in [File -> Entry]
  BY <1>1, <1>6, <1>7, EntryStep, TypeParts
<1>9. call' \in Call /\ CallOK'
  BY <1>1, <1>3, LoopStep
<1> QED
  BY <1>5, <1>8, <1>9, TypeStep, TypeParts DEF TakeIndirect

LEMMA CountSet ==
    ASSUME NEW e \in Entry, NEW k \in 0 .. (CountModulus - 1)
    PROVE  [e EXCEPT !.count = k] \in Entry
BY DEF Entry

LEMMA AllocEndsType ==
    ASSUME TypeInv, AllocDone \/ AllocNoSpace
    PROVE  TypeInv'
<1> DEFINE e == [entry[call.file] EXCEPT !.count = call.k]
<1>1. call.op = "alloc"
  BY DEF AllocDone, AllocNoSpace, Busy
<1>2. e \in Entry
  BY <1>1, CountSet, TypeParts DEF TypeInv, CallOK
<1>3. [e EXCEPT !.size = call.end] \in Entry
  <2> HIDE DEF e
  <2> QED  BY <1>2, TypeParts DEF Entry
<1>4. CASE AllocDone /\ call.next = "write"
  BY <1>2, <1>4, CopyType, TypeParts DEF AllocDone
<1>5. CASE AllocDone /\ call.next # "write"
  BY <1>3, <1>5, IdleStep, TypeParts DEF AllocDone
<1>6. CASE AllocNoSpace
  BY <1>2, <1>6, IdleStep, TypeParts DEF AllocNoSpace
<1> QED
  BY <1>4, <1>5, <1>6

LEMMA ReadType ==
    ASSUME TypeInv, NEW h \in Handles, NEW last \in Offsets, Read(h, last)
    PROVE  TypeInv'
<1> DEFINE e == entry[handle[h]]
           r == IF e.count >= DirectExtents THEN WithList(bitmap, e) ELSE e
<1>1. e \in Entry /\ handle[h] \in File
  BY TypeParts DEF Read
<1>2. r \in Entry
  BY <1>1, WithListType
<1>3. entry' = [entry EXCEPT ![handle[h]] = r]
  BY DEF Read
<1>4. entry' \in [File -> Entry]
  BY <1>1, <1>2, <1>3, EntryStep
<1>5. bitmap' \subseteq DataBlock
  BY ListBlockType, TypeParts DEF Read
<1>6. fault' \in {"none", "detached", "null", "raw", "wild", "table_end"}
  <2>1. fault' = IF WalksAstray(r, last) THEN BadAccess(r) ELSE fault
    BY DEF Read
  <2> QED
    BY <1>2, <2>1, BadAccessType, TypeParts
<1>7. call' \in Call /\ CallOK'
  BY TypeParts DEF Read, CallOK, TypeInv, Ready
<1> QED
  BY <1>4, <1>5, <1>6, <1>7, TypeStep, TypeParts DEF Read

LEMMA RoomType ==
    ASSUME NEW e \in Entry, NEW pos \in Offsets, NEW end \in Offsets
    PROVE  end - pos - Available(e) \in Int /\ end - e.size \in Int
<1>1. pos \in Int /\ end \in Int
  BY OffsetIsNat
<1>2. e.size \in Int /\ Available(e) \in Int
  BY EntryFields, AvailableType
<1> QED
  BY <1>1, <1>2

LEMMA BeginWriteType ==
    ASSUME TypeInv, NEW h \in Handles, NEW pos \in Offsets, NEW end \in Offsets,
           BeginWrite(h, pos, end)
    PROVE  TypeInv'
<1> DEFINE f == handle[h]
           e == entry[f]
<1>1. f \in File /\ e \in Entry
  BY TypeParts DEF BeginWrite
<1>2. CASE ~AllReachable(e)
  BY <1>1, <1>2, FailType, BadAccessType DEF BeginWrite
<1>3. CASE BeginAlloc(f, end - pos - Available(e), "write", pos, end)
  BY <1>1, <1>3, RoomType, BeginAllocType
<1>4. CASE Copy(f, e, pos, end)
  BY <1>1, <1>4, CopyType
<1> QED
  BY <1>2, <1>3, <1>4 DEF BeginWrite

LEMMA ExtendType ==
    ASSUME TypeInv, NEW f \in File, NEW end \in Offsets, Extend(f, end)
    PROVE  TypeInv'
<1> DEFINE e == entry[f]
<1>1. e \in Entry
  BY TypeParts
<1>2. CASE ~AllReachable(e)
  BY <1>1, <1>2, FailType, BadAccessType DEF Extend
<1>3. CASE BeginAlloc(f, end - e.size, "grow", 0, end)
  BY <1>1, <1>3, RoomType, BeginAllocType, FileStoreAssumption
<1>4. CASE /\ entry' = [entry EXCEPT ![f].size = end]
           /\ UNCHANGED <<bitmap, handle, dirBlocks, call, fault, past>>
  <2>1. [e EXCEPT !.size = end] \in Entry
    BY <1>1 DEF Entry
  <2>2. entry' \in [File -> Entry]
    BY <1>4, <2>1, EntryStep
  <2>3. CallOK'
    BY <1>4 DEF TypeInv, CallOK
  <2> QED
    BY <1>4, <2>2, <2>3, TypeStep, TypeParts
<1> QED
  BY <1>2, <1>3, <1>4 DEF Extend

\* The steps that only touch slots of the file table and the bitmap.
LEMMA QuietStep ==
    ASSUME TypeInv,
           bitmap' \subseteq DataBlock, entry' \in [File -> Entry],
           handle' \in [Handles -> {Closed, Detached} \cup File],
           dirBlocks' \subseteq DataBlock,
           past' \subseteq {"spilled", "shrunk", "orphaned"},
           UNCHANGED <<call, fault>>
    PROVE  TypeInv'
BY DEF TypeInv, TypeOK, CallOK

LEMMA QuietParts ==
    ASSUME TypeInv
    PROVE  /\ handle \in [Handles -> {Closed, Detached} \cup File]
           /\ dirBlocks \subseteq DataBlock
BY DEF TypeInv, TypeOK

LEMMA CreateType ==
    ASSUME TypeInv, Create
    PROVE  TypeInv'
<1>1. PICK g \in FreeFileEntry :
         entry' = [entry EXCEPT ![g].used = TRUE, ![g].size = 0]
  BY DEF Create
<1>2. g \in File /\ entry[g] \in Entry
  BY TypeParts DEF FreeFileEntry
<1>3. [entry[g] EXCEPT !.used = TRUE, !.size = 0] \in Entry
  <2>1. 0 \in Offsets
    BY FileStoreAssumption
  <2> QED
    BY <1>2, <2>1 DEF Entry
<1>4. entry' = [entry EXCEPT ![g] = [entry[g] EXCEPT !.used = TRUE, !.size = 0]]
  BY <1>1, <1>2, TypeParts
<1>5. entry' \in [File -> Entry]
  BY <1>2, <1>3, <1>4, EntryStep
<1> QED
  BY <1>5, QuietStep, QuietParts, TypeParts DEF Create

LEMMA OpenType ==
    ASSUME TypeInv, NEW h \in Handles, NEW f \in File, Open(h, f)
    PROVE  TypeInv'
BY QuietStep, QuietParts, TypeParts DEF Open

LEMMA ReleaseType ==
    ASSUME TypeInv, NEW h \in Handles, Release(h)
    PROVE  TypeInv'
<1>1. ASSUME NEW g \in File
      PROVE  [entry[g] EXCEPT !.indirect = "null", !.more = NoList] \in Entry
  <2>1. entry[g] \in Entry
    BY TypeParts
  <2>2. NoList \in [IndirectSlot -> Extent]
    BY NoExtentIsExtent
  <2> QED
    BY <2>1, <2>2 DEF Entry
<1>2. CASE handle[h] \in File
  <2>1. entry' = [entry EXCEPT ![handle[h]].indirect = "null",
                               ![handle[h]].more = NoList]
    BY <1>2 DEF Release
  <2>2. entry' = [entry EXCEPT ![handle[h]] =
                    [entry[handle[h]] EXCEPT !.indirect = "null", !.more = NoList]]
    BY <1>2, <2>1, TypeParts
  <2>3. entry' \in [File -> Entry]
    BY <1>1, <1>2, <2>2, EntryStep
  <2> QED
    BY <2>3, QuietStep, QuietParts, TypeParts DEF Release
<1>3. CASE handle[h] \notin File
  <2>1. entry' = entry
    BY <1>3 DEF Release
  <2> QED
    BY <2>1, QuietStep, QuietParts, TypeParts DEF Release
<1> QED
  BY <1>2, <1>3

LEMMA UnlinkType ==
    ASSUME TypeInv, NEW f \in File, Unlink(f)
    PROVE  TypeInv'
<1>1. CASE Fail(BadAccess(entry[f]))
  BY <1>1, FailType, BadAccessType, TypeParts
<1>2. CASE AllReachable(entry[f])
  <2>1. entry' \in [File -> Entry]
    BY <1>2, EntryStep, FreeEntryIsEntry DEF Unlink
  <2>2. bitmap' \subseteq DataBlock
    BY <1>2, TypeParts DEF Unlink
  <2>3. handle' \in [Handles -> {Closed, Detached} \cup File]
    BY <1>2, QuietParts DEF Unlink
  <2>4. past' \subseteq {"spilled", "shrunk", "orphaned"}
    BY <1>2, TypeParts DEF Unlink
  <2> QED
    BY <1>2, <2>1, <2>2, <2>3, <2>4, QuietStep, QuietParts DEF Unlink
<1> QED
  BY <1>1, <1>2 DEF Unlink

LEMMA UseDetachedType ==
    ASSUME TypeInv, NEW h \in Handles, UseDetached(h)
    PROVE  TypeInv'
BY FailType DEF UseDetached

LEMMA DirBlocksType ==
    ASSUME TypeInv, AllocDirBlock \/ FreeDirBlock
    PROVE  TypeInv'
<1>1. CASE AllocDirBlock
  <2>1. PICK b \in FindFreeBlock(bitmap) :
           bitmap' = bitmap \cup {b} /\ dirBlocks' = dirBlocks \cup {b}
    BY <1>1 DEF AllocDirBlock
  <2>2. b \in DataBlock
    BY FindFreeBlockType
  <2> QED
    BY QuietParts, <1>1, <2>1, <2>2, QuietStep, TypeParts DEF AllocDirBlock
<1>2. CASE FreeDirBlock
  <2>1. PICK b \in dirBlocks :
           bitmap' = bitmap \ {b} /\ dirBlocks' = dirBlocks \ {b}
    BY <1>2 DEF FreeDirBlock
  <2> QED
    BY QuietParts, <1>2, <2>1, QuietStep, TypeParts DEF FreeDirBlock
<1> QED
  BY <1>1, <1>2

\* FreeWord and the two truncations.
LEMMA FreeWordType ==
    ASSUME TypeInv, NEW f \in File, NEW k \in Int, FreeWord(f, k)
    PROVE  bitmap' \subseteq DataBlock /\ entry' \in [File -> Entry]
<1> DEFINE e == entry[f]
           d == Decrement(e.count)
<1>1. e \in Entry /\ NoExtent \in Extent
  BY TypeParts, NoExtentIsExtent
<1>2. d \in 0 .. (CountModulus - 1)
  BY <1>1, EntryFields, DecrementType
<1>3. CASE k < DirectExtents
  <2>1. entry' = [entry EXCEPT ![f] = [e EXCEPT !.direct[k] = NoExtent, !.count = d]]
    BY <1>3, TypeParts DEF FreeWord
  <2>2. [e EXCEPT !.direct[k] = NoExtent, !.count = d] \in Entry
    <3> HIDE DEF d, e
    <3> QED  BY <1>1, <1>2 DEF Entry
  <2>3. entry' \in [File -> Entry]
    BY <2>1, <2>2, EntryStep
  <2>4. bitmap' \subseteq DataBlock
    BY <1>3, TypeParts DEF FreeWord, ClearAllocated
  <2> QED
    BY <2>3, <2>4
<1>4. CASE ~(k < DirectExtents)
  <2>1. entry' = [entry EXCEPT ![f] = [e EXCEPT !.count = d]]
    BY <1>4, TypeParts DEF FreeWord
  <2>2. [e EXCEPT !.count = d] \in Entry
    BY <1>1, <1>2, CountSet
  <2> QED
    BY <1>4, <2>1, <2>2, EntryStep, TypeParts DEF FreeWord
<1> QED
  BY <1>3, <1>4

\* What TruncateToZero leaves of the slot.
Emptied(e, gone) ==
    [e EXCEPT !.direct = [k \in DirectSlot |->
                             IF k \in gone THEN NoExtent ELSE e.direct[k]],
              !.count = 0, !.size = 0]

LEMMA TruncateToZeroCases ==
    ASSUME TypeInv, NEW f \in File, TruncateToZero(f)
    PROVE  \/ Fail("wild") \/ Fail("table_end")
           \/ LET gone == DirectSlot \cap ZeroedWords(f)
              IN /\ bitmap' = bitmap \ UNION {BlocksOf(entry[f].direct[k]) : k \in gone}
                 /\ entry' = [entry EXCEPT ![f] = Emptied(entry[f], gone)]
                 /\ UNCHANGED <<handle, dirBlocks, call, fault, past>>
BY TypeParts DEF TruncateToZero, Emptied

LEMMA EmptiedType ==
    ASSUME NEW e \in Entry, NEW gone
    PROVE  Emptied(e, gone) \in Entry
<1>1. 0 \in Offsets
  BY FileStoreAssumption
<1>2. 0 \in 0 .. (CountModulus - 1)
  BY CountModulusIsNat
<1>3. [k \in DirectSlot |-> IF k \in gone THEN NoExtent ELSE e.direct[k]]
        \in [DirectSlot -> Extent]
  BY EntryFields, NoExtentIsExtent
<1> QED
  BY <1>1, <1>2, <1>3 DEF Emptied, Entry

LEMMA TruncateToZeroType ==
    ASSUME TypeInv, NEW f \in File, TruncateToZero(f)
    PROVE  TypeInv'
<1>1. CASE Fail("wild") \/ Fail("table_end")
  BY <1>1, FailType
<1>2. CASE LET gone == DirectSlot \cap ZeroedWords(f)
           IN /\ bitmap' = bitmap \ UNION {BlocksOf(entry[f].direct[k]) : k \in gone}
              /\ entry' = [entry EXCEPT ![f] = Emptied(entry[f], gone)]
              /\ UNCHANGED <<handle, dirBlocks, call, fault, past>>
  <2>1. entry' \in [File -> Entry]
    BY <1>2, EmptiedType, EntryStep, TypeParts
  <2>2. bitmap' \subseteq DataBlock
    BY <1>2, TypeParts
  <2>3. handle' \in [Handles -> {Closed, Detached} \cup File]
        /\ dirBlocks' \subseteq DataBlock
    BY <1>2 DEF TypeInv, TypeOK
  <2> QED
    BY <1>2, <2>1, <2>2, <2>3, QuietStep, TypeParts
<1> QED
  BY <1>1, <1>2, TruncateToZeroCases

LEMMA BeginShrinkType ==
    ASSUME TypeInv, NEW f \in File, NEW end \in Offsets, BeginShrink(f, end)
    PROVE  TypeInv'
<1> DEFINE e == entry[f]
           n == Blocks(e.size) - Blocks(end)
<1>1. e \in Entry /\ e.count \in Nat
  BY TypeParts, EntryFields
<1>2. n \in Int
  BY <1>1, EntryFields, OffsetIsNat, BlocksType
<1>3. e.count - 1 \in Nat \cup {-1} /\ e.count - 1 \in Int
  BY <1>1
<1>4. call' = [Idle EXCEPT !.op = "shrink", !.file = f, !.end = end,
                           !.left = n, !.k = e.count - 1]
  BY DEF BeginShrink
<1>5. Idle \in Call
  BY IdleIsCall
<1>6. call' \in Call
  <2> HIDE DEF n, e
  <2> QED  BY <1>2, <1>3, <1>4, <1>5 DEF Call
<1>7. call'.op = "shrink" /\ call'.k = e.count - 1
  BY <1>4, <1>5 DEF Call
<1>8. CallOK'
  BY <1>3, <1>7 DEF CallOK
<1> QED
  BY <1>6, <1>8, TypeStep, TypeParts DEF BeginShrink

LEMMA LengthWordType ==
    ASSUME TypeInv, NEW f \in File, NEW k \in Nat, InTable(f, k)
    PROVE  LengthWord(f, k) \in Int
<1>1. ModeWord \in Int /\ PointerWord \in Int /\ DirectExtents \in Nat \ {0}
  BY Numbers
<1>2. \A g \in File, j \in DirectSlot : entry[g].direct[j].length \in Int
  <2> TAKE g \in File, j \in DirectSlot
  <2>1. entry[g].direct \in [DirectSlot -> Extent]
    BY TypeParts, EntryFields
  <2>2. \A x \in Extent : x.length \in Int
    BY GeometryAssumption DEF Extent
  <2> QED
    BY <2>1, <2>2
<1>3. \A g \in File : entry[g].extblk \in Int /\ PointerOf(entry[g]) \in Int
  <2> TAKE g \in File
  <2>1. {0} \cup DataBlock \subseteq Int
    BY GeometryAssumption DEF DataBlock
  <2>2. entry[g].extblk \in {0} \cup DataBlock
    BY TypeParts, EntryFields
  <2>3. PointerOf(entry[g]) \in Int
    BY <1>1 DEF PointerOf
  <2> QED
    BY <2>1, <2>2, <2>3
<1>4. CASE k < DirectExtents + 2
  BY <1>1, <1>2, <1>3, <1>4 DEF LengthWord, DirectSlot
<1>5. CASE ~(k < DirectExtents + 2)
  <2> DEFINE n == entry[Neighbour(f, k)]
             w == Beyond(k) % WordsPerEntry
  <2>1. Neighbour(f, k) \in File
    BY <1>5 DEF InTable
  <2>2. n.used \in BOOLEAN
    BY <2>1, TypeParts DEF Entry
  <2>3. WordsPerEntry \in Nat /\ WordsPerEntry > 0 /\ Beyond(k) \in Int
        /\ WordsPerEntry = DirectExtents + 5
    BY <1>1 DEF WordsPerEntry, Beyond
  <2>4. w \in 0 .. (DirectExtents + 4)
    <3> HIDE DEF w
    <3>1. \A a \in Int, m \in Nat : m > 0 => a % m \in 0 .. (m - 1)
      OBVIOUS
    <3> QED  BY <1>1, <2>3, <3>1 DEF w
  <2>5. w \in 3 .. (DirectExtents + 2) => w - 3 \in DirectSlot
    BY <1>1, <2>4 DEF DirectSlot
  <2>6. LengthWord(f, k) =
          CASE ~n.used \/ w = 1 \/ w = DirectExtents + 4 -> 0
            [] n.used /\ w = 0 -> ModeWord
            [] n.used /\ w = 2 -> n.extblk
            [] n.used /\ w \in 3 .. (DirectExtents + 2) -> n.direct[w - 3].length
            [] n.used /\ w = DirectExtents + 3 -> PointerOf(n)
    <3>1. ~(k < DirectExtents) /\ k # DirectExtents /\ k # DirectExtents + 1
      BY <1>1, <1>5
    <3> QED  BY <3>1 DEF LengthWord
  <2> HIDE DEF n, w
  <2>7. n.extblk \in Int /\ PointerOf(n) \in Int
        /\ \A j \in DirectSlot : n.direct[j].length \in Int
    BY <1>2, <1>3, <2>1 DEF n
  <2>8. \/ ~n.used \/ w = 1 \/ w = DirectExtents + 4
        \/ n.used /\ w = 0
        \/ n.used /\ w = 2
        \/ n.used /\ w \in 3 .. (DirectExtents + 2)
        \/ n.used /\ w = DirectExtents + 3
    BY <1>1, <2>2, <2>4
  <2> QED
    BY <1>1, <2>5, <2>6, <2>7, <2>8
<1> QED
  BY <1>4, <1>5

LEMMA ShrinkStepType ==
    ASSUME TypeInv, ShrinkStep
    PROVE  TypeInv'
<1>1. call.k \in Nat /\ call.op = "shrink"
  BY TypeParts DEF ShrinkStep, Busy
<1>2. CASE Fail("wild")
  BY <1>2, FailType
<1>3. CASE ~Fail("wild")
  <2> DEFINE w == LengthWord(call.file, call.k)
  <2>1. w \in Int
    BY <1>1, LengthWordType, TypeParts DEF ShrinkStep
  <2>2. /\ FreeWord(call.file, call.k)
        /\ call' = [call EXCEPT !.k = @ + 1, !.left = @ - w]
        /\ past' = past \cup {"shrunk"}
        /\ UNCHANGED <<handle, dirBlocks, fault>>
    BY <1>3 DEF ShrinkStep
  <2>3. bitmap' \subseteq DataBlock /\ entry' \in [File -> Entry]
    BY <2>2, FreeWordType, TypeParts
  <2>4. call.k + 1 \in Nat /\ call.k + 1 \in Int /\ call.left - w \in Int
    BY <1>1, <2>1, TypeParts
  <2>5. call \in Call
    BY TypeParts
  <2> HIDE DEF w
  <2>6. call' \in Call
    BY <2>2, <2>4, <2>5 DEF Call
  <2>7. call'.op = "shrink" /\ call'.k = call.k + 1
    BY <1>1, <2>2, <2>5 DEF Call
  <2>8. CallOK'
    BY <2>4, <2>7 DEF CallOK
  <2> QED
    BY <2>2, <2>3, <2>6, <2>8, TypeStep, TypeParts
<1> QED
  BY <1>2, <1>3

LEMMA ShrinkEndsType ==
    ASSUME TypeInv, ShrinkDone \/ ShrinkOffTable
    PROVE  TypeInv'
<1>1. CASE ShrinkOffTable
  BY <1>1, FailType DEF ShrinkOffTable
<1>2. CASE ShrinkDone
  <2> DEFINE e == [entry[call.file] EXCEPT !.size = call.end]
  <2>1. entry[call.file] \in Entry /\ call.end \in Offsets
    BY TypeParts DEF Call
  <2>2. e \in Entry
    BY <2>1 DEF Entry
  <2>3. entry' = [entry EXCEPT ![call.file] = e]
    BY <1>2, TypeParts DEF ShrinkDone
  <2> QED
    BY <1>2, <2>2, <2>3, IdleStep, TypeParts DEF ShrinkDone
<1> QED
  BY <1>1, <1>2

LEMMA InitTypeInv == Init => TypeInv
BY IdleIsCall, FreeEntryIsEntry DEF Init, TypeInv, TypeOK, CallOK

LEMMA NextTypeInv ==
    ASSUME TypeInv, [Next]_vars
    PROVE  TypeInv'
<1>1. CASE Create \/ AllocDirBlock \/ FreeDirBlock
  BY <1>1, CreateType, DirBlocksType
<1>2. ASSUME NEW h \in Handles, Release(h) \/ UseDetached(h)
      PROVE  TypeInv'
  BY <1>2, ReleaseType, UseDetachedType
<1>3. ASSUME NEW f \in File, Unlink(f) \/ TruncateToZero(f)
      PROVE  TypeInv'
  BY <1>3, UnlinkType, TruncateToZeroType
<1>4. ASSUME NEW h \in Handles, NEW f \in File, Open(h, f)
      PROVE  TypeInv'
  BY <1>4, OpenType
<1>5. ASSUME NEW h \in Handles, NEW last \in Offsets, Read(h, last)
      PROVE  TypeInv'
  BY <1>5, ReadType
<1>6. ASSUME NEW h \in Handles, NEW pos \in Offsets, NEW end \in Offsets,
             BeginWrite(h, pos, end)
      PROVE  TypeInv'
  BY <1>6, BeginWriteType
<1>7. ASSUME NEW f \in File, NEW end \in Offsets, Extend(f, end) \/ BeginShrink(f, end)
      PROVE  TypeInv'
  BY <1>7, ExtendType, BeginShrinkType
<1>8. CASE Step
  BY <1>8, TakeDirectType, TakeIndirectType, AllocEndsType, ShrinkStepType,
     ShrinkEndsType DEF Step
<1>9. CASE UNCHANGED vars
  BY <1>9 DEF vars, TypeInv, TypeOK, CallOK
<1> QED
  BY <1>1, <1>2, <1>3, <1>4, <1>5, <1>6, <1>7, <1>8, <1>9 DEF Next

\* Between any two steps of any call the bitmap, the file table, the open files
\* and the locals of the running call have their types: extent_count stays
\* within its 16 bits although a truncation may count it below zero, and every
\* extent of the table lies in the data area.
THEOREM FileStoreTypeOK == Spec => []TypeOK
<1>1. TypeInv => TypeOK
  BY DEF TypeInv
<1> QED
  BY <1>1, InitTypeInv, NextTypeInv, PTL DEF Spec

-----------------------------------------------------------------------------
(***************************************************************************)
(* Block ownership in the file store: as long as no allocation has gone    *)
(* beyond the direct extents, no block has two owners, for every number of *)
(* files, handles and blocks.                                              *)
(***************************************************************************)

\* The lists built in memory hold no extent yet.
NoMore == \A f \in File : entry[f].more = NoList

\* What the running allocation may still hand out is free, and no block is
\* offered twice.
Offered ==
    call.op = "alloc" =>
        \A x \in call.tree :
            /\ BlocksOf(x) \cap bitmap = {}
            /\ \A y \in call.tree \ {x} : BlocksOf(x) \cap BlocksOf(y) = {}

\* Ownership alone is not inductive: TakeDirect keeps it because of Offered,
\* Unlink because of NoMore.
OwnInv == "spilled" \notin past => Exclusive /\ NoMore /\ Offered

-----------------------------------------------------------------------------
\* How a step may change who claims what.

LEMMA ClaimParts ==
    ASSUME NEW c \in Claim
    PROVE  /\ c[1] \in File
           /\ c[2] = ExtentsBlock \/ c[2] \in DirectSlot
           /\ \A d \in Claim : c[1] = d[1] /\ c[2] = d[2] => c = d
BY DEF Claim

LEMMA ExtentsBlockIsNoSlot == ExtentsBlock \notin DirectSlot
BY Numbers DEF ExtentsBlock, DirectSlot

LEMMA SlotClaim ==
    ASSUME NEW f \in File, NEW k \in DirectSlot
    PROVE  /\ <<f, k>> \in Claim
           /\ Claimed(<<f, k>>) = BlocksOf(entry[f].direct[k])
BY ExtentsBlockIsNoSlot DEF Claim, Claimed

LEMMA ListClaim ==
    ASSUME NEW f \in File
    PROVE  /\ <<f, ExtentsBlock>> \in Claim
           /\ Claimed(<<f, ExtentsBlock>>) = {entry[f].extblk} \ {0}
BY DEF Claim, Claimed

\* The claims of a slot of the table depend on two of its fields.
LEMMA SameClaims ==
    ASSUME NEW f \in File,
           entry'[f].extblk = entry[f].extblk,
           entry'[f].direct = entry[f].direct,
           NEW c \in Claim, c[1] = f
    PROVE  Claimed(c)' = Claimed(c)
BY DEF Claimed

LEMMA ExclusiveShrinks ==
    ASSUME Exclusive,
           \A c \in Claim : Claimed(c)' \subseteq Claimed(c),
           \A c \in Claim : Claimed(c)' \subseteq bitmap',
           dirBlocks' \subseteq dirBlocks, dirBlocks' \subseteq bitmap'
    PROVE  Exclusive'
BY DEF Exclusive

LEMMA ExclusiveGains ==
    ASSUME Exclusive,
           NEW d \in Claim, NEW gain, gain \cap bitmap = {},
           Claimed(d)' \subseteq gain,
           \A c \in Claim : c # d => Claimed(c)' \subseteq Claimed(c),
           bitmap' = bitmap \cup gain,
           dirBlocks' = dirBlocks
    PROVE  Exclusive'
<1>1. \A c \in Claim : c # d => /\ Claimed(c)' \cap Claimed(d)' = {}
                                /\ Claimed(c)' \cap dirBlocks' = {}
                                /\ Claimed(c)' \subseteq bitmap'
  BY DEF Exclusive
<1>2. /\ Claimed(d)' \cap dirBlocks' = {}
      /\ Claimed(d)' \subseteq bitmap' /\ dirBlocks' \subseteq bitmap'
  BY DEF Exclusive
<1>3. \A c, e \in Claim : c # d /\ e # d /\ c # e => Claimed(c)' \cap Claimed(e)' = {}
  BY DEF Exclusive
<1> QED
  BY <1>1, <1>2, <1>3 DEF Exclusive

\* A step that leaves the blocks alone.
LEMMA OwnKept ==
    ASSUME OwnInv, UNCHANGED <<bitmap, dirBlocks>>,
           \A f \in File : /\ entry'[f].extblk = entry[f].extblk
                           /\ entry'[f].direct = entry[f].direct
                           /\ NoMore => entry'[f].more = NoList,
           past \subseteq past',
           Offered => Offered'
    PROVE  OwnInv'
<1> SUFFICES ASSUME "spilled" \notin past'
             PROVE  Exclusive' /\ NoMore' /\ Offered'
  BY DEF OwnInv
<1>1. Exclusive /\ NoMore /\ Offered
  BY DEF OwnInv
<1>2. \A c \in Claim : Claimed(c)' = Claimed(c)
  BY SameClaims, ClaimParts
<1>3. Exclusive'
  BY <1>1, <1>2, ExclusiveShrinks DEF Exclusive
<1> QED
  BY <1>1, <1>3 DEF NoMore

LEMMA OwnResized ==
    ASSUME TypeInv, OwnInv, NEW f \in File, NEW e,
           entry' = [entry EXCEPT ![f] = e],
           e.extblk = entry[f].extblk, e.direct = entry[f].direct,
           e.more = entry[f].more,
           UNCHANGED <<bitmap, dirBlocks>>, past \subseteq past',
           call'.op # "alloc"
    PROVE  OwnInv'
<1>1. \A g \in File : /\ entry'[g].extblk = entry[g].extblk
                      /\ entry'[g].direct = entry[g].direct
                      /\ NoMore => entry'[g].more = NoList
  BY TypeParts DEF NoMore
<1> QED
  BY <1>1, OwnKept DEF Offered

LEMMA OwnFail ==
    ASSUME OwnInv, NEW kind, Fail(kind)
    PROVE  OwnInv'
BY OwnKept DEF Fail, Offered, NoMore

-----------------------------------------------------------------------------
\* One lemma per action or pair of actions.

LEMMA WrittenKeeps ==
    ASSUME NEW e \in Entry, NEW pos, NEW end
    PROVE  LET w == Written(e, pos, end)
           IN w.extblk = e.extblk /\ w.direct = e.direct /\ w.more = e.more
BY DEF Written, Entry

LEMMA OwnCopy ==
    ASSUME TypeInv, OwnInv, NEW f \in File, NEW e \in Entry,
           e.extblk = entry[f].extblk, e.direct = entry[f].direct,
           e.more = entry[f].more,
           NEW pos, NEW end, Copy(f, e, pos, end)
    PROVE  OwnInv'
<1>1. CASE pos < end /\ WalksAstray(e, end - 1)
  BY <1>1, OwnFail DEF Copy
<1>2. CASE ~(pos < end /\ WalksAstray(e, end - 1))
  BY <1>2, WrittenKeeps, OwnResized, IdleIsCall DEF Copy
<1> QED
  BY <1>1, <1>2

LEMMA OwnBeginAlloc ==
    ASSUME TypeInv, OwnInv, NEW f \in File, NEW bytes, NEW next, NEW pos, NEW end,
           BeginAlloc(f, bytes, next, pos, end)
    PROVE  OwnInv'
<1>1. CASE entry[f].count >= DirectExtents
  BY <1>1 DEF BeginAlloc, OwnInv
<1>2. CASE ~(entry[f].count >= DirectExtents)
  <2>1. UNCHANGED <<bitmap, dirBlocks, entry, past>>
    BY <1>2 DEF BeginAlloc
  <2>2. call'.tree = FreeExtents(bitmap)
    BY DEF BeginAlloc
  <2>3. Offered'
    BY <2>1, <2>2, FreeExtentsAreFree, FreeExtentsDisjoint DEF Offered
  <2> QED
    BY <2>1, <2>3, OwnKept DEF NoMore
<1> QED
  BY <1>1, <1>2

LEMMA OwnTakeDirect ==
    ASSUME TypeInv, OwnInv, TakeDirect
    PROVE  OwnInv'
<1> SUFFICES ASSUME "spilled" \notin past'
             PROVE  Exclusive' /\ NoMore' /\ Offered'
  BY DEF OwnInv
<1>1. Exclusive /\ NoMore /\ Offered /\ call.op = "alloc"
  BY DEF OwnInv, TakeDirect, Busy
<1>2. PICK x \in FirstExtent(call.tree) :
         /\ bitmap' = SetAllocated(bitmap, x)
         /\ entry' = [entry EXCEPT ![call.file].direct[call.k] = x]
         /\ call' = [call EXCEPT !.k = @ + 1, !.left = @ - x.length,
                                 !.tree = @ \ {x}]
  BY DEF TakeDirect
<1>3. x \in call.tree /\ bitmap' = bitmap \cup BlocksOf(x) /\ call'.tree = call.tree \ {x}
  BY <1>2, FirstExtentType, TypeParts DEF SetAllocated, Call
<1>4. Offered'
  BY <1>1, <1>3 DEF Offered
<1>5. NoMore'
  BY <1>1, <1>2, TypeParts DEF NoMore, Entry
<1>6. call.k \in DirectSlot
  <2>1. call.k \in Nat
    BY <1>1, CountIsNat DEF TypeInv, CallOK
  <2>2. DirectExtents \in Nat /\ call.k < DirectExtents
    BY Numbers DEF TakeDirect
  <2> QED
    BY <2>1, <2>2 DEF DirectSlot
<1>d. PICK d \in Claim : d[1] = call.file /\ d[2] = call.k
  <2>1. <<call.file, call.k>> \in Claim
    BY <1>6, TypeParts DEF Claim
  <2> QED  BY <2>1
<1>7. \A c \in Claim : c # d => Claimed(c)' = Claimed(c)
  <2>1. \A g \in File : g # call.file => entry'[g] = entry[g]
    BY <1>2, TypeParts
  <2>2. /\ entry'[call.file].extblk = entry[call.file].extblk
        /\ \A j \in DirectSlot : j # call.k =>
              entry'[call.file].direct[j] = entry[call.file].direct[j]
    BY <1>2, TypeParts DEF Entry
  <2> QED
    <3> SUFFICES ASSUME NEW c \in Claim, c # d
                 PROVE  Claimed(c)' = Claimed(c)
      OBVIOUS
    <3>1. CASE c[1] # call.file
      BY <2>1, <3>1, ClaimParts DEF Claimed
    <3>2. CASE c[1] = call.file /\ c[2] = ExtentsBlock
      BY <2>2, <3>2 DEF Claimed
    <3>3. CASE c[1] = call.file /\ c[2] \in DirectSlot
      <4>1. c[2] # call.k
        BY <1>d, <3>3, ClaimParts
      <4> QED
        BY <2>2, <3>3, <4>1, ExtentsBlockIsNoSlot DEF Claimed
    <3> QED
      BY <3>1, <3>2, <3>3, ClaimParts
<1>8. Claimed(d)' = BlocksOf(x)
  <2>1. entry'[call.file].direct[call.k] = x
    BY <1>2, <1>6, TypeParts DEF Entry
  <2> QED
    BY <1>d, <1>6, <2>1, ExtentsBlockIsNoSlot DEF Claimed
<1>9. BlocksOf(x) \cap bitmap = {}
  BY <1>1, <1>3 DEF Offered
<1>10. dirBlocks' = dirBlocks
  BY DEF TakeDirect
<1>11. Exclusive'
  BY <1>1, <1>3, <1>7, <1>8, <1>9, <1>10, ExclusiveGains
<1> QED
  BY <1>4, <1>5, <1>11

LEMMA OwnAllocEnds ==
    ASSUME TypeInv, OwnInv, AllocDone \/ AllocNoSpace
    PROVE  OwnInv'
<1> DEFINE f == call.file
           e == [entry[f] EXCEPT !.count = call.k]
<1>1. f \in File /\ entry[f] \in Entry /\ Idle.op # "alloc"
  BY TypeParts, IdleIsCall
<1>2. e \in Entry
  BY <1>1, CountSet DEF TypeInv, CallOK, AllocDone, AllocNoSpace, Busy
<1>3. e.extblk = entry[f].extblk /\ e.direct = entry[f].direct /\ e.more = entry[f].more
  BY <1>1 DEF Entry
<1>4. CASE AllocDone /\ call.next = "write"
  BY <1>1, <1>2, <1>3, <1>4, OwnCopy DEF AllocDone
<1>5. CASE AllocDone /\ call.next # "write"
  <2> DEFINE s == [e EXCEPT !.size = call.end]
  <2>1. s.extblk = entry[f].extblk /\ s.direct = entry[f].direct /\ s.more = entry[f].more
    BY <1>1 DEF Entry
  <2> QED
    BY <1>1, <1>5, <2>1, OwnResized DEF AllocDone
<1>6. CASE AllocNoSpace
  BY <1>1, <1>3, <1>6, OwnResized DEF AllocNoSpace
<1> QED
  BY <1>4, <1>5, <1>6

\* What WithList does to the claims: the list is empty and its block was free.
LEMMA WithListParts ==
    ASSUME NEW bm, NEW e \in Entry
    PROVE  LET r == WithList(bm, e)
           IN /\ r.direct = e.direct
              /\ e.more = NoList => r.more = NoList
              /\ r.extblk = e.extblk \/ {r.extblk} \ {0} \subseteq ListBlock(bm, e)
              /\ r.extblk = e.extblk \/ e.extblk = 0
<1>1. ListBlock(bm, e) # {} => (CHOOSE b \in ListBlock(bm, e) : TRUE) \in ListBlock(bm, e)
  OBVIOUS
<1> HIDE DEF ListBlock
<1> QED
  BY <1>1 DEF WithList, Entry

LEMMA OwnRead ==
    ASSUME TypeInv, OwnInv, NEW h \in Handles, NEW last, Read(h, last)
    PROVE  OwnInv'
<1> SUFFICES ASSUME "spilled" \notin past'
             PROVE  Exclusive' /\ NoMore' /\ Offered'
  BY DEF OwnInv
<1>1. Exclusive /\ NoMore
  BY DEF OwnInv, Read
<1>2. PICK f \in File : f = handle[h]
  BY DEF Read
<1>3. PICK r : r = IF entry[f].count >= DirectExtents
                   THEN WithList(bitmap, entry[f]) ELSE entry[f]
  OBVIOUS
<1>4. PICK gain : gain = IF entry[f].count >= DirectExtents
                         THEN ListBlock(bitmap, entry[f]) ELSE {}
  OBVIOUS
<1>5. /\ entry' = [entry EXCEPT ![f] = r]
      /\ bitmap' = bitmap \cup gain /\ dirBlocks' = dirBlocks /\ call' = call
  BY <1>2, <1>3, <1>4 DEF Read
<1>6. gain \cap bitmap = {}
  BY <1>4, ListBlockType
<1>7. /\ r.direct = entry[f].direct /\ r.more = NoList
      /\ r.extblk = entry[f].extblk \/ {r.extblk} \ {0} \subseteq gain
      /\ r.extblk = entry[f].extblk \/ entry[f].extblk = 0
  BY <1>1, <1>3, <1>4, WithListParts, TypeParts DEF NoMore
<1>8. Offered'
  BY <1>5 DEF Read, Ready, Offered
<1>9. NoMore'
  BY <1>1, <1>5, <1>7, TypeParts DEF NoMore
<1>10. \A g \in File : g # f => entry'[g] = entry[g]
  BY <1>5, TypeParts
<1>11. entry'[f] = r
  BY <1>5, TypeParts
<1>12. PICK d \in Claim : d[1] = f /\ d[2] = ExtentsBlock
  BY ListClaim
<1>13. \A c \in Claim : c # d => Claimed(c)' = Claimed(c)
  BY <1>7, <1>10, <1>11, <1>12, ClaimParts DEF Claimed
<1>14. CASE r.extblk = entry[f].extblk
  <2>1. Claimed(d)' = Claimed(d)
    BY <1>11, <1>12, <1>14 DEF Claimed
  <2> QED
    BY <1>1, <1>5, <1>8, <1>9, <1>13, <2>1, ExclusiveShrinks DEF Exclusive
<1>15. CASE {r.extblk} \ {0} \subseteq gain
  <2>1. Claimed(d)' \subseteq gain
    BY <1>11, <1>12, <1>15 DEF Claimed
  <2> QED
    BY <1>1, <1>5, <1>6, <1>8, <1>9, <1>13, <2>1, ExclusiveGains
<1> QED
  BY <1>7, <1>14, <1>15

LEMMA OwnBeginWrite ==
    ASSUME TypeInv, OwnInv, NEW h \in Handles, NEW pos, NEW end,
           BeginWrite(h, pos, end)
    PROVE  OwnInv'
<1> DEFINE f == handle[h]
           e == entry[f]
<1>1. f \in File /\ e \in Entry
  BY TypeParts DEF BeginWrite
<1>2. CASE ~AllReachable(e)
  BY <1>2, OwnFail DEF BeginWrite
<1>3. CASE BeginAlloc(f, end - pos - Available(e), "write", pos, end)
  BY <1>1, <1>3, OwnBeginAlloc
<1>4. CASE Copy(f, e, pos, end)
  BY <1>1, <1>4, OwnCopy
<1> QED
  BY <1>2, <1>3, <1>4 DEF BeginWrite

LEMMA OwnExtend ==
    ASSUME TypeInv, OwnInv, NEW f \in File, NEW end, Extend(f, end)
    PROVE  OwnInv'
<1> DEFINE e == entry[f]
           s == [e EXCEPT !.size = end]
<1>1. e \in Entry
  BY TypeParts
<1>2. CASE ~AllReachable(e)
  BY <1>2, OwnFail DEF Extend
<1>3. CASE BeginAlloc(f, end - e.size, "grow", 0, end)
  BY <1>1, <1>3, OwnBeginAlloc
<1>4. CASE /\ entry' = [entry EXCEPT ![f].size = end]
           /\ UNCHANGED <<bitmap, handle, dirBlocks, call, fault, past>>
  <2>1. s.extblk = e.extblk /\ s.direct = e.direct /\ s.more = e.more
    BY <1>1 DEF Entry
  <2>2. entry' = [entry EXCEPT ![f] = s] /\ call'.op # "alloc"
    BY <1>4 DEF Extend, Ready
  <2> QED
    BY <1>4, <2>1, <2>2, OwnResized
<1> QED
  BY <1>2, <1>3, <1>4 DEF Extend

LEMMA OwnCreate ==
    ASSUME TypeInv, OwnInv, Create
    PROVE  OwnInv'
<1>1. PICK g \in FreeFileEntry :
         entry' = [entry EXCEPT ![g].used = TRUE, ![g].size = 0]
  BY DEF Create
<1>2. \A f \in File : /\ entry'[f].extblk = entry[f].extblk
                      /\ entry'[f].direct = entry[f].direct
                      /\ entry'[f].more = entry[f].more
  BY <1>1, TypeParts DEF Entry
<1> QED
  BY <1>2, OwnKept DEF Create, Ready, Offered, NoMore

LEMMA OwnHandles ==
    ASSUME TypeInv, OwnInv, NEW h \in Handles,
           Release(h) \/ UseDetached(h) \/ \E f \in File : Open(h, f)
    PROVE  OwnInv'
<1>1. CASE Release(h)
  <2>1. \A f \in File : /\ entry'[f].extblk = entry[f].extblk
                        /\ entry'[f].direct = entry[f].direct
                        /\ NoMore => entry'[f].more = NoList
    BY <1>1, TypeParts DEF Release, NoMore, Entry
  <2> QED
    BY <1>1, <2>1, OwnKept DEF Release, Ready, Offered
<1>2. CASE UseDetached(h)
  BY <1>2, OwnFail DEF UseDetached
<1>3. CASE \E f \in File : Open(h, f)
  BY <1>3, OwnKept DEF Open, Ready, Offered, NoMore
<1> QED
  BY <1>1, <1>2, <1>3

\* The blocks Unlink frees are those of the direct extents of the file.
LEMMA UnlinkFrees ==
    ASSUME TypeInv, NoMore, NEW f \in File, AllReachable(entry[f]),
           NEW k \in 0 .. (entry[f].count - 1)
    PROVE  \/ BlocksOf(GetExtent(entry[f], k)) = {}
           \/ /\ k \in DirectSlot
              /\ GetExtent(entry[f], k) = entry[f].direct[k]
<1>1. entry[f] \in Entry /\ entry[f].count \in Nat
  BY TypeParts, EntryFields
<1>2. k \in Nat /\ k < entry[f].count /\ DirectExtents \in Nat /\ IndirectSlots \in Nat
  BY <1>1, FileStoreAssumption
<1>3. CASE k < DirectExtents
  BY <1>2, <1>3 DEF DirectSlot, GetExtent
<1>4. CASE ~(k < DirectExtents)
  <2>1. k < DirectExtents + IndirectSlots
    BY <1>1, <1>2, <1>4 DEF AllReachable, ReachableExtents, MaxExtents
  <2>2. k - DirectExtents \in IndirectSlot
    BY <1>2, <1>4, <2>1 DEF IndirectSlot
  <2> QED
    BY <1>4, <2>2, NoExtentIsExtent DEF GetExtent, NoMore, NoList
<1> QED
  BY <1>3, <1>4

LEMMA OwnUnlink ==
    ASSUME TypeInv, OwnInv, NEW f \in File, Unlink(f)
    PROVE  OwnInv'
<1> SUFFICES ASSUME "spilled" \notin past', ~Fail(BadAccess(entry[f]))
             PROVE  Exclusive' /\ NoMore' /\ Offered'
  BY OwnFail DEF OwnInv
<1>1. /\ AllReachable(entry[f])
      /\ bitmap' = bitmap \ UNION {BlocksOf(GetExtent(entry[f], k)) :
                                      k \in 0 .. (entry[f].count - 1)}
      /\ entry' = [entry EXCEPT ![f] = FreeEntry]
      /\ past \subseteq past' /\ dirBlocks' = dirBlocks /\ call' = call
  BY DEF Unlink
<1>2. Exclusive /\ NoMore
  BY <1>1 DEF OwnInv
<1>3. entry'[f] = FreeEntry /\ \A g \in File : g # f => entry'[g] = entry[g]
  BY <1>1, TypeParts
<1>4. Offered'
  BY <1>1 DEF Unlink, Ready, Offered
<1>5. NoMore'
  BY <1>2, <1>3 DEF NoMore, FreeEntry
<1>6. \A c \in Claim : c[1] = f => Claimed(c)' = {}
  BY <1>3, ClaimParts, NoExtentIsExtent DEF Claimed, FreeEntry
<1>7. \A c \in Claim : c[1] # f => Claimed(c)' = Claimed(c)
  BY <1>3, ClaimParts DEF Claimed
<1>8. ASSUME NEW k \in 0 .. (entry[f].count - 1),
             NEW c \in Claim, c[1] # f
      PROVE  /\ Claimed(c) \cap BlocksOf(GetExtent(entry[f], k)) = {}
             /\ dirBlocks \cap BlocksOf(GetExtent(entry[f], k)) = {}
  <2>1. CASE BlocksOf(GetExtent(entry[f], k)) = {}
    BY <2>1
  <2>2. CASE k \in DirectSlot /\ GetExtent(entry[f], k) = entry[f].direct[k]
    <3>1. PICK d \in Claim : d[1] = f /\ Claimed(d) = BlocksOf(GetExtent(entry[f], k))
      BY <2>2, SlotClaim
    <3> QED
      BY <1>2, <1>8, <3>1 DEF Exclusive
  <2> QED
    BY <1>1, <1>2, <2>1, <2>2, UnlinkFrees
<1>9. \A c \in Claim : Claimed(c)' \subseteq bitmap'
  BY <1>1, <1>2, <1>6, <1>7, <1>8 DEF Exclusive
<1>10. dirBlocks' \subseteq bitmap'
  <2> SUFFICES ASSUME NEW k \in 0 .. (entry[f].count - 1)
               PROVE  dirBlocks \cap BlocksOf(GetExtent(entry[f], k)) = {}
    BY <1>1, <1>2 DEF Exclusive
  <2>1. CASE BlocksOf(GetExtent(entry[f], k)) = {}
    BY <2>1
  <2>2. CASE k \in DirectSlot /\ GetExtent(entry[f], k) = entry[f].direct[k]
    BY <1>2, <2>2, SlotClaim DEF Exclusive
  <2> QED
    BY <1>1, <1>2, <2>1, <2>2, UnlinkFrees
<1> QED
  BY <1>1, <1>2, <1>4, <1>5, <1>6, <1>7, <1>9, <1>10, ExclusiveShrinks

LEMMA OwnDirBlocks ==
    ASSUME TypeInv, OwnInv, AllocDirBlock \/ FreeDirBlock
    PROVE  OwnInv'
<1> SUFFICES ASSUME "spilled" \notin past'
             PROVE  Exclusive' /\ NoMore' /\ Offered'
  BY DEF OwnInv
<1>1. Exclusive /\ NoMore /\ UNCHANGED <<entry, call>> /\ call.op # "alloc"
  BY DEF OwnInv, AllocDirBlock, FreeDirBlock, Ready
<1>2. \A c \in Claim : Claimed(c)' = Claimed(c)
  BY <1>1 DEF Claimed
<1>3. CASE AllocDirBlock
  <2>1. PICK b \in FindFreeBlock(bitmap) :
           bitmap' = bitmap \cup {b} /\ dirBlocks' = dirBlocks \cup {b}
    BY <1>3 DEF AllocDirBlock
  <2>2. b \notin bitmap
    BY FindFreeBlockType
  <2> QED
    BY <1>1, <1>2, <2>1, <2>2 DEF Exclusive, NoMore, Offered
<1>4. CASE FreeDirBlock
  <2>1. PICK b \in dirBlocks :
           bitmap' = bitmap \ {b} /\ dirBlocks' = dirBlocks \ {b}
    BY <1>4 DEF FreeDirBlock
  <2> QED
    BY <1>1, <1>2, <2>1 DEF Exclusive, NoMore, Offered
<1> QED
  BY <1>3, <1>4

LEMMA OwnTruncateToZero ==
    ASSUME TypeInv, OwnInv, NEW f \in File, TruncateToZero(f)
    PROVE  OwnInv'
<1> SUFFICES ASSUME "spilled" \notin past', ~Fail("wild"), ~Fail("table_end")
             PROVE  Exclusive' /\ NoMore' /\ Offered'
  BY OwnFail DEF OwnInv
<1> DEFINE gone == DirectSlot \cap ZeroedWords(f)
<1>1. /\ bitmap' = bitmap \ UNION {BlocksOf(entry[f].direct[k]) : k \in gone}
      /\ entry' = [entry EXCEPT ![f] = Emptied(entry[f], gone)]
      /\ UNCHANGED <<handle, dirBlocks, call, fault, past>>
  BY TruncateToZeroCases
<1>2. Exclusive /\ NoMore /\ call.op # "alloc"
  BY <1>1 DEF OwnInv, TruncateToZero, Ready
<1>3. /\ \A g \in File : g # f => entry'[g] = entry[g]
      /\ entry'[f].extblk = entry[f].extblk /\ entry'[f].more = entry[f].more
      /\ \A k \in DirectSlot :
            entry'[f].direct[k] = IF k \in gone THEN NoExtent ELSE entry[f].direct[k]
  <2> HIDE DEF gone
  <2> QED
    BY <1>1, TypeParts DEF Emptied, Entry
<1>4. NoMore' /\ Offered'
  BY <1>1, <1>2, <1>3 DEF NoMore, Offered
<1>5. ASSUME NEW c \in Claim
      PROVE  /\ Claimed(c)' \subseteq Claimed(c)
             /\ \A k \in gone : Claimed(c)' \cap BlocksOf(entry[f].direct[k]) = {}
  <2>1. CASE c[1] = f /\ c[2] \in gone
    <3>1. Claimed(c)' = {}
      BY <1>3, <2>1, ExtentsBlockIsNoSlot, NoExtentIsExtent DEF Claimed
    <3> QED  BY <3>1
  <2>2. CASE ~(c[1] = f /\ c[2] \in gone)
    <3>4. Claimed(c)' = Claimed(c)
      <4>1. CASE c[1] # f
        BY <1>3, <4>1, ClaimParts DEF Claimed
      <4>2. CASE c[1] = f /\ c[2] = ExtentsBlock
        BY <1>3, <4>2, ExtentsBlockIsNoSlot DEF Claimed
      <4>3. CASE c[1] = f /\ c[2] \in DirectSlot /\ c[2] \notin gone
        BY <1>3, <4>3, ExtentsBlockIsNoSlot DEF Claimed
      <4> QED
        BY <2>2, <4>1, <4>2, <4>3, ClaimParts
    <3>5. \A k \in gone : Claimed(c) \cap BlocksOf(entry[f].direct[k]) = {}
      <4> TAKE k \in gone
      <4>1. PICK d \in Claim : /\ d[1] = f /\ d[2] = k
                               /\ Claimed(d) = BlocksOf(entry[f].direct[k])
        BY SlotClaim
      <4> QED
        BY <1>2, <2>2, <4>1 DEF Exclusive
    <3> QED
      BY <3>4, <3>5
  <2> QED
    BY <2>1, <2>2
<1>6. \A k \in gone : dirBlocks \cap BlocksOf(entry[f].direct[k]) = {}
  BY <1>2, SlotClaim DEF Exclusive
<1>7. \A c \in Claim : Claimed(c)' \subseteq bitmap'
  BY <1>1, <1>2, <1>5 DEF Exclusive
<1>8. dirBlocks' \subseteq bitmap'
  BY <1>1, <1>2, <1>6 DEF Exclusive
<1> QED
  BY <1>1, <1>2, <1>4, <1>5, <1>7, <1>8, ExclusiveShrinks

LEMMA OwnBeginShrink ==
    ASSUME TypeInv, OwnInv, NEW f \in File, NEW end, BeginShrink(f, end)
    PROVE  OwnInv'
<1>1. call'.op = "shrink"
  BY IdleIsCall DEF BeginShrink, Call
<1> QED
  BY <1>1, OwnKept DEF BeginShrink, Offered, NoMore

LEMMA OwnShrinkStep ==
    ASSUME TypeInv, OwnInv, ShrinkStep
    PROVE  OwnInv'
<1> SUFFICES ASSUME "spilled" \notin past', ~Fail("wild")
             PROVE  Exclusive' /\ NoMore' /\ Offered'
  BY OwnFail DEF OwnInv, ShrinkStep
<1>1. PICK f \in File : f = call.file
  BY TypeParts
<1>2. PICK k \in Int : k = call.k
  BY TypeParts
<1>3. /\ FreeWord(f, k) /\ k >= 0 /\ call.op = "shrink"
      /\ call'.op = "shrink" /\ dirBlocks' = dirBlocks /\ past \subseteq past'
  BY <1>1, <1>2, TypeParts DEF ShrinkStep, Busy, Call
<1>4. Exclusive /\ NoMore
  BY <1>3 DEF OwnInv
<1>5. Offered'
  BY <1>3 DEF Offered
<1>6. CASE ~(k < DirectExtents)
  <2>1. \A g \in File : /\ entry'[g].extblk = entry[g].extblk
                        /\ entry'[g].direct = entry[g].direct
                        /\ entry'[g].more = entry[g].more
    BY <1>3, <1>6, TypeParts DEF FreeWord, Entry
  <2>2. UNCHANGED <<bitmap, dirBlocks>>
    BY <1>3, <1>6 DEF FreeWord
  <2>3. OwnInv'
    BY <1>3, <1>5, <2>1, <2>2, OwnKept DEF NoMore
  <2> QED
    BY <2>3 DEF OwnInv
<1>7. CASE k < DirectExtents
  <2>1. k \in DirectSlot
    BY <1>3, <1>7, Numbers DEF DirectSlot
  <2>2. bitmap' = bitmap \ BlocksOf(entry[f].direct[k])
    BY <1>3, <1>7 DEF FreeWord, ClearAllocated
  <2>3. /\ \A g \in File : g # f => entry'[g] = entry[g]
        /\ entry'[f].extblk = entry[f].extblk /\ entry'[f].more = entry[f].more
        /\ \A j \in DirectSlot :
              entry'[f].direct[j] = IF j = k THEN NoExtent ELSE entry[f].direct[j]
    BY <1>3, <1>7, TypeParts DEF FreeWord, Entry
  <2>4. NoMore'
    BY <1>4, <2>3 DEF NoMore
  <2>5. PICK d \in Claim : /\ d[1] = f /\ d[2] = k
                           /\ Claimed(d) = BlocksOf(entry[f].direct[k])
    BY <2>1, SlotClaim
  <2>6. \A c \in Claim : c # d => Claimed(c)' = Claimed(c)
    BY <2>3, <2>5, ClaimParts DEF Claimed
  <2>7. Claimed(d)' = {}
    BY <2>1, <2>3, <2>5, ExtentsBlockIsNoSlot, NoExtentIsExtent DEF Claimed
  <2>8. \A c \in Claim : Claimed(c)' \subseteq bitmap'
    BY <1>4, <2>2, <2>5, <2>6, <2>7 DEF Exclusive
  <2>9. dirBlocks' \subseteq bitmap'
    BY <1>3, <1>4, <2>2, <2>5 DEF Exclusive
  <2> QED
    BY <1>3, <1>4, <1>5, <2>4, <2>6, <2>7, <2>8, <2>9, ExclusiveShrinks
<1> QED
  BY <1>6, <1>7

LEMMA OwnShrinkEnds ==
    ASSUME TypeInv, OwnInv, ShrinkDone \/ ShrinkOffTable
    PROVE  OwnInv'
<1>1. CASE ShrinkOffTable
  BY <1>1, OwnFail DEF ShrinkOffTable
<1>2. CASE ShrinkDone
  <2> DEFINE e == [entry[call.file] EXCEPT !.size = call.end]
  <2>1. e.extblk = entry[call.file].extblk /\ e.direct = entry[call.file].direct
        /\ e.more = entry[call.file].more
    BY TypeParts DEF Entry
  <2> QED
    BY <1>2, <2>1, OwnResized, IdleIsCall, TypeParts DEF ShrinkDone
<1> QED
  BY <1>1, <1>2
-----------------------------------------------------------------------------
LEMMA InitOwnInv == Init => OwnInv
<1> SUFFICES ASSUME Init PROVE Exclusive /\ NoMore /\ Offered
  BY DEF OwnInv
<1>1. \A c \in Claim : Claimed(c) = {}
  BY ClaimParts, NoExtentIsExtent DEF Init, Claimed, FreeEntry
<1> QED
  BY <1>1, IdleIsCall DEF Init, Exclusive, NoMore, FreeEntry, Offered

LEMMA NextOwnInv ==
    ASSUME TypeInv, OwnInv, [Next]_vars
    PROVE  OwnInv'
<1>1. CASE Create \/ AllocDirBlock \/ FreeDirBlock
  BY <1>1, OwnCreate, OwnDirBlocks
<1>2. ASSUME NEW h \in Handles,
             Release(h) \/ UseDetached(h) \/ \E f \in File : Open(h, f)
      PROVE  OwnInv'
  BY <1>2, OwnHandles
<1>3. ASSUME NEW f \in File, Unlink(f) \/ TruncateToZero(f)
      PROVE  OwnInv'
  BY <1>3, OwnUnlink, OwnTruncateToZero
<1>4. ASSUME NEW h \in Handles, NEW last \in Offsets, Read(h, last)
      PROVE  OwnInv'
  BY <1>4, OwnRead
<1>5. ASSUME NEW h \in Handles, NEW pos \in Offsets, NEW end \in Offsets,
             BeginWrite(h, pos, end)
      PROVE  OwnInv'
  BY <1>5, OwnBeginWrite
<1>6. ASSUME NEW f \in File, NEW end \in Offsets, Extend(f, end) \/ BeginShrink(f, end)
      PROVE  OwnInv'
  BY <1>6, OwnExtend, OwnBeginShrink
<1>7. CASE Step
  <2>1. CASE TakeDirect \/ AllocDone \/ AllocNoSpace
    BY <2>1, OwnTakeDirect, OwnAllocEnds
  <2>2. CASE TakeIndirect
    BY <2>2 DEF TakeIndirect, OwnInv
  <2>3. CASE ShrinkStep \/ ShrinkDone \/ ShrinkOffTable
    BY <2>3, OwnShrinkStep, OwnShrinkEnds
  <2> QED
    BY <1>7, <2>1, <2>2, <2>3 DEF Step
<1>8. CASE UNCHANGED vars
  BY <1>8, OwnKept DEF vars, Offered, NoMore
<1> QED
  BY <1>1, <1>2, <1>3, <1>4, <1>5, <1>6, <1>7, <1>8 DEF Next

\* Between any two steps of any call, as long as no allocation has gone beyond
\* the direct extents: the extents of all files, the extents blocks and the
\* directory blocks are pairwise disjoint and marked in the bitmap.
THEOREM BlocksHaveOneOwner == Spec => []Ownership
<1>1. TypeInv /\ OwnInv => Ownership
  BY DEF OwnInv, Ownership
<1>2. Init => TypeInv /\ OwnInv
  BY InitTypeInv, InitOwnInv
<1>3. TypeInv /\ OwnInv /\ [Next]_vars => (TypeInv /\ OwnInv)'
  BY NextTypeInv, NextOwnInv
<1> QED
  BY <1>1, <1>2, <1>3, PTL DEF Spec

-----------------------------------------------------------------------------
(***************************************************************************)
(* No block of the file store is lost: together with the proof that no     *)
(* block has two owners, every marked block has exactly one.               *)
(***************************************************************************)

HasOwner ==
    \A b \in bitmap : b \in dirBlocks \/ \E c \in Claim : b \in Claimed(c)

\* The number of extents of file f: extent_count, or the counter of the loop
\* that is giving it more.
InUse(f) ==
    IF call.op = "alloc" /\ call.file = f THEN call.k ELSE entry[f].count

\* No extent stands at or behind the count.
Tail ==
    \A f \in File, k \in DirectSlot :
        k >= InUse(f) => entry[f].direct[k] = NoExtent

\* Tail makes it inductive: TakeDirect overwrites a slot without blocks, Unlink
\* and TruncateToZero free all blocks although they stop at the count.
LeakInv == past = {} => HasOwner /\ Tail

-----------------------------------------------------------------------------
\* Owners keep what they have, and what is new in the bitmap has an owner.
LEMMA OwnersGrow ==
    ASSUME HasOwner,
           \A c \in Claim : Claimed(c) \subseteq Claimed(c)',
           dirBlocks \subseteq dirBlocks',
           \A b \in bitmap' \ bitmap :
               b \in dirBlocks' \/ \E c \in Claim : b \in Claimed(c)'
    PROVE  HasOwner'
BY DEF HasOwner

\* A step that leaves the blocks alone.
LEMMA LeakKept ==
    ASSUME LeakInv, UNCHANGED <<bitmap, dirBlocks>>,
           \A f \in File : /\ entry'[f].extblk = entry[f].extblk
                           /\ entry'[f].direct = entry[f].direct
                           /\ InUse(f)' = InUse(f),
           past \subseteq past'
    PROVE  LeakInv'
<1> SUFFICES ASSUME past' = {}
             PROVE  HasOwner' /\ Tail'
  BY DEF LeakInv
<1>1. HasOwner /\ Tail
  BY DEF LeakInv
<1>2. \A c \in Claim : Claimed(c)' = Claimed(c)
  BY SameClaims, ClaimParts
<1>3. HasOwner'
  BY <1>1, <1>2, OwnersGrow
<1>4. Tail'
  BY <1>1 DEF Tail
<1> QED
  BY <1>3, <1>4

\* A call ends: the count of its file is what is in use.
LEMMA LeakResized ==
    ASSUME TypeInv, LeakInv, NEW f \in File, NEW e,
           entry' = [entry EXCEPT ![f] = e],
           e.extblk = entry[f].extblk, e.direct = entry[f].direct,
           e.count = InUse(f),
           call.op = "alloc" => call.file = f,
           call'.op # "alloc",
           UNCHANGED <<bitmap, dirBlocks>>, past \subseteq past'
    PROVE  LeakInv'
<1>1. entry'[f] = e /\ \A g \in File : g # f => entry'[g] = entry[g]
  BY TypeParts
<1>2. \A g \in File : InUse(g)' = entry'[g].count
  BY DEF InUse
<1>3. \A g \in File : g # f => InUse(g) = entry[g].count
  BY DEF InUse
<1>4. \A g \in File : /\ entry'[g].extblk = entry[g].extblk
                      /\ entry'[g].direct = entry[g].direct
                      /\ InUse(g)' = InUse(g)
  BY <1>1, <1>2, <1>3
<1> QED
  BY <1>4, LeakKept

LEMMA LeakUnchanged ==
    ASSUME LeakInv, UNCHANGED <<bitmap, entry, dirBlocks, call>>,
           past \subseteq past'
    PROVE  LeakInv'
BY LeakKept DEF InUse

LEMMA LeakFail ==
    ASSUME LeakInv, NEW kind, Fail(kind)
    PROVE  LeakInv'
BY LeakUnchanged DEF Fail

LEMMA LeakCopy ==
    ASSUME TypeInv, LeakInv, NEW f \in File, NEW e \in Entry,
           e.extblk = entry[f].extblk, e.direct = entry[f].direct,
           e.count = InUse(f), call.op = "alloc" => call.file = f,
           NEW pos, NEW end, Copy(f, e, pos, end)
    PROVE  LeakInv'
<1>1. CASE pos < end /\ WalksAstray(e, end - 1)
  BY <1>1, LeakFail DEF Copy
<1>2. CASE ~(pos < end /\ WalksAstray(e, end - 1))
  <2> DEFINE w == Written(e, pos, end)
  <2>1. w.extblk = e.extblk /\ w.direct = e.direct /\ w.count = e.count
    BY DEF Written, Entry
  <2>2. /\ entry' = [entry EXCEPT ![f] = w] /\ call' = Idle
        /\ UNCHANGED <<bitmap, dirBlocks, past>>
    BY <1>2 DEF Copy
  <2> HIDE DEF w
  <2> QED
    BY <2>1, <2>2, LeakResized, IdleIsCall
<1> QED
  BY <1>1, <1>2

LEMMA LeakBeginAlloc ==
    ASSUME TypeInv, LeakInv, call.op # "alloc", NEW f \in File, NEW bytes,
           NEW next, NEW pos, NEW end, BeginAlloc(f, bytes, next, pos, end)
    PROVE  LeakInv'
<1>1. CASE entry[f].count >= DirectExtents
  BY <1>1 DEF BeginAlloc, LeakInv
<1>2. CASE ~(entry[f].count >= DirectExtents)
  <2>1. UNCHANGED <<bitmap, dirBlocks, entry, past>>
    BY <1>2 DEF BeginAlloc
  <2>2. call'.op = "alloc" /\ call'.file = f /\ call'.k = entry[f].count
    BY DEF BeginAlloc
  <2>3. \A g \in File : InUse(g)' = InUse(g)
    BY <2>1, <2>2 DEF InUse
  <2> QED
    BY <2>1, <2>3, LeakKept
<1> QED
  BY <1>1, <1>2

-----------------------------------------------------------------------------
\* The allocation loop.
LEMMA LeakTakeDirect ==
    ASSUME TypeInv, LeakInv, TakeDirect
    PROVE  LeakInv'
<1> SUFFICES ASSUME past' = {}
             PROVE  HasOwner' /\ Tail'
  BY DEF LeakInv
<1>1. HasOwner /\ Tail /\ call.op = "alloc" /\ dirBlocks' = dirBlocks
  BY DEF LeakInv, TakeDirect, Busy
<1>2. PICK x \in FirstExtent(call.tree) :
         /\ bitmap' = SetAllocated(bitmap, x)
         /\ entry' = [entry EXCEPT ![call.file].direct[call.k] = x]
         /\ call' = [call EXCEPT !.k = @ + 1, !.left = @ - x.length,
                                 !.tree = @ \ {x}]
  BY DEF TakeDirect
<1>3. bitmap' = bitmap \cup BlocksOf(x)
  BY <1>2 DEF SetAllocated
<1>4. PICK f \in File : f = call.file
  BY TypeParts
<1>5. PICK n \in DirectSlot : n = call.k
  <2>1. call.k \in Nat
    BY <1>1, CountIsNat DEF TypeInv, CallOK
  <2>2. DirectExtents \in Nat /\ call.k < DirectExtents
    BY Numbers DEF TakeDirect
  <2> QED
    BY <2>1, <2>2 DEF DirectSlot
<1>6. call'.op = "alloc" /\ call'.file = f /\ call'.k = n + 1
  BY <1>1, <1>2, <1>4, <1>5, TypeParts DEF Call
<1>7. /\ \A g \in File : g # f => entry'[g] = entry[g]
      /\ entry'[f].extblk = entry[f].extblk
      /\ entry'[f].direct[n] = x
      /\ \A j \in DirectSlot : j # n => entry'[f].direct[j] = entry[f].direct[j]
  BY <1>2, <1>4, <1>5, TypeParts DEF Entry
<1>8. entry[f].direct[n] = NoExtent
  <2>1. InUse(f) = n /\ n >= n
    BY <1>1, <1>4, <1>5 DEF InUse, DirectSlot
  <2> QED
    BY <1>1, <2>1 DEF Tail
<1>9. Tail'
  <2> SUFFICES ASSUME NEW g \in File, NEW j \in DirectSlot, j >= InUse(g)'
               PROVE  entry'[g].direct[j] = NoExtent
    BY DEF Tail
  <2>1. CASE g # f
    <3>1. InUse(g)' = InUse(g)
      BY <1>4, <1>6, <1>7, <2>1 DEF InUse
    <3> QED
      BY <1>1, <1>7, <2>1, <3>1 DEF Tail
  <2>2. CASE g = f
    <3>1. j >= n + 1
      BY <1>6, <2>2 DEF InUse
    <3>2. j >= n /\ j # n
      BY <3>1 DEF DirectSlot
    <3>3. InUse(f) = n
      BY <1>1, <1>4, <1>5 DEF InUse
    <3> QED
      BY <1>1, <1>7, <2>2, <3>2, <3>3 DEF Tail
  <2> QED
    BY <2>1, <2>2
<1>10. PICK d \in Claim : d[1] = f /\ d[2] = n
  BY SlotClaim
<1>11. Claimed(d)' = BlocksOf(x)
  BY <1>7, <1>10, ExtentsBlockIsNoSlot DEF Claimed
<1>12. ASSUME NEW c \in Claim
       PROVE  Claimed(c) \subseteq Claimed(c)'
  <2>1. CASE c[1] # f
    BY <1>7, <2>1, ClaimParts DEF Claimed
  <2>2. CASE c[1] = f /\ c[2] = ExtentsBlock
    BY <1>7, <2>2 DEF Claimed
  <2>3. CASE c[1] = f /\ c[2] \in DirectSlot /\ c[2] # n
    BY <1>7, <2>3, ExtentsBlockIsNoSlot DEF Claimed
  <2>4. CASE c[1] = f /\ c[2] = n
    <3>1. Claimed(c) = {}
      BY <1>8, <2>4, ExtentsBlockIsNoSlot, NoExtentIsExtent DEF Claimed
    <3> QED
      BY <3>1
  <2> QED
    BY <2>1, <2>2, <2>3, <2>4, ClaimParts
<1>13. HasOwner'
  BY <1>1, <1>3, <1>11, <1>12, OwnersGrow
<1> QED
  BY <1>9, <1>13

LEMMA LeakAllocEnds ==
    ASSUME TypeInv, LeakInv, AllocDone \/ AllocNoSpace
    PROVE  LeakInv'
<1> DEFINE f == call.file
           e == [entry[f] EXCEPT !.count = call.k]
<1>1. call.op = "alloc" /\ f \in File /\ entry[f] \in Entry /\ Idle.op # "alloc"
  BY TypeParts, IdleIsCall DEF AllocDone, AllocNoSpace, Busy
<1>2. e \in Entry
  BY <1>1, CountSet DEF TypeInv, CallOK
<1>3. e.extblk = entry[f].extblk /\ e.direct = entry[f].direct /\ e.count = InUse(f)
  BY <1>1 DEF Entry, InUse
<1>4. CASE AllocDone /\ call.next = "write"
  BY <1>1, <1>2, <1>3, <1>4, LeakCopy DEF AllocDone
<1>5. CASE AllocDone /\ call.next # "write"
  <2> DEFINE s == [e EXCEPT !.size = call.end]
  <2>1. s.extblk = entry[f].extblk /\ s.direct = entry[f].direct /\ s.count = InUse(f)
    BY <1>1 DEF Entry, InUse
  <2> QED
    BY <1>1, <1>5, <2>1, LeakResized DEF AllocDone
<1>6. CASE AllocNoSpace
  BY <1>1, <1>3, <1>6, LeakResized DEF AllocNoSpace
<1> QED
  BY <1>4, <1>5, <1>6

-----------------------------------------------------------------------------
\* Reading, writing and extending.

\* The block an empty list takes becomes the extents block of the entry.
LEMMA ListBlockIsOwned ==
    ASSUME NEW bm, NEW e \in Entry
    PROVE  /\ WithList(bm, e).count = e.count
           /\ ListBlock(bm, e) \subseteq {WithList(bm, e).extblk} \ {0}
<1>1. WithList(bm, e).count = e.count
  BY DEF WithList, Entry
<1>2. ASSUME NEW b \in ListBlock(bm, e)
      PROVE  b = WithList(bm, e).extblk /\ b # 0
  <2>1. e.indirect = "null" /\ e.extblk = 0 /\ b \in FindFreeBlock(bm)
    BY DEF ListBlock
  <2>2. b # 0
    BY <2>1, FindFreeBlockType, Numbers DEF DataBlock
  <2>3. \A c \in FindFreeBlock(bm) : c = b
    BY <2>1, Numbers DEF FindFreeBlock, DataBlock
  <2>4. (CHOOSE c \in ListBlock(bm, e) : TRUE) = b
    BY <2>3 DEF ListBlock
  <2>5. WithList(bm, e).extblk = CHOOSE c \in ListBlock(bm, e) : TRUE
    <3>1. ListBlock(bm, e) # {}
      OBVIOUS
    <3> HIDE DEF ListBlock
    <3> QED
      BY <2>1, <3>1 DEF WithList, Entry
  <2> QED
    BY <2>2, <2>4, <2>5
<1> QED
  BY <1>1, <1>2

LEMMA LeakRead ==
    ASSUME TypeInv, LeakInv, NEW h \in Handles, NEW last, Read(h, last)
    PROVE  LeakInv'
<1> SUFFICES ASSUME past' = {}
             PROVE  HasOwner' /\ Tail'
  BY DEF LeakInv
<1>1. HasOwner /\ Tail /\ call.op # "alloc"
  BY DEF LeakInv, Read, Ready
<1>2. PICK f \in File : f = handle[h]
  BY DEF Read
<1>3. PICK r : r = IF entry[f].count >= DirectExtents
                   THEN WithList(bitmap, entry[f]) ELSE entry[f]
  OBVIOUS
<1>4. PICK gain : gain = IF entry[f].count >= DirectExtents
                         THEN ListBlock(bitmap, entry[f]) ELSE {}
  OBVIOUS
<1>5. /\ entry' = [entry EXCEPT ![f] = r]
      /\ bitmap' = bitmap \cup gain /\ dirBlocks' = dirBlocks /\ call' = call
  BY <1>2, <1>3, <1>4 DEF Read
<1>6. /\ r.direct = entry[f].direct /\ r.count = entry[f].count
      /\ gain \subseteq {r.extblk} \ {0}
      /\ r.extblk = entry[f].extblk \/ entry[f].extblk = 0
  BY <1>3, <1>4, WithListParts, ListBlockIsOwned, TypeParts
<1>7. entry'[f] = r /\ \A g \in File : g # f => entry'[g] = entry[g]
  BY <1>5, TypeParts
<1>8. Tail'
  <2>1. \A g \in File : InUse(g)' = InUse(g) /\ entry'[g].direct = entry[g].direct
    BY <1>1, <1>5, <1>6, <1>7 DEF InUse
  <2> QED
    BY <1>1, <2>1 DEF Tail
<1>9. \A c \in Claim : Claimed(c) \subseteq Claimed(c)'
  BY <1>6, <1>7, ClaimParts DEF Claimed
<1>10. PICK d \in Claim : d[1] = f /\ d[2] = ExtentsBlock
  BY ListClaim
<1>11. gain \subseteq Claimed(d)'
  BY <1>6, <1>7, <1>10 DEF Claimed
<1>12. HasOwner'
  BY <1>1, <1>5, <1>9, <1>11, OwnersGrow
<1> QED
  BY <1>8, <1>12

LEMMA LeakBeginWrite ==
    ASSUME TypeInv, LeakInv, NEW h \in Handles, NEW pos, NEW end,
           BeginWrite(h, pos, end)
    PROVE  LeakInv'
<1> DEFINE f == handle[h]
           e == entry[f]
<1>1. f \in File /\ e \in Entry /\ call.op # "alloc"
  BY TypeParts DEF BeginWrite, Ready
<1>2. e.count = InUse(f)
  BY <1>1 DEF InUse
<1>3. CASE ~AllReachable(e)
  BY <1>3, LeakFail DEF BeginWrite
<1>4. CASE BeginAlloc(f, end - pos - Available(e), "write", pos, end)
  BY <1>1, <1>4, LeakBeginAlloc
<1>5. CASE Copy(f, e, pos, end)
  BY <1>1, <1>2, <1>5, LeakCopy
<1> QED
  BY <1>3, <1>4, <1>5 DEF BeginWrite

LEMMA LeakExtend ==
    ASSUME TypeInv, LeakInv, NEW f \in File, NEW end, Extend(f, end)
    PROVE  LeakInv'
<1> DEFINE e == entry[f]
           s == [e EXCEPT !.size = end]
<1>1. e \in Entry /\ call.op # "alloc"
  BY TypeParts DEF Extend, Ready
<1>2. CASE ~AllReachable(e)
  BY <1>2, LeakFail DEF Extend
<1>3. CASE BeginAlloc(f, end - e.size, "grow", 0, end)
  BY <1>1, <1>3, LeakBeginAlloc
<1>4. CASE /\ entry' = [entry EXCEPT ![f].size = end]
           /\ UNCHANGED <<bitmap, handle, dirBlocks, call, fault, past>>
  <2>1. s.extblk = e.extblk /\ s.direct = e.direct /\ s.count = InUse(f)
    BY <1>1 DEF Entry, InUse
  <2>2. entry' = [entry EXCEPT ![f] = s]
    BY <1>4
  <2> QED
    BY <1>1, <1>4, <2>1, <2>2, LeakResized
<1> QED
  BY <1>2, <1>3, <1>4 DEF Extend

-----------------------------------------------------------------------------
\* Names, open files and directories.
LEMMA LeakCreate ==
    ASSUME TypeInv, LeakInv, Create
    PROVE  LeakInv'
<1>1. PICK g \in FreeFileEntry :
         entry' = [entry EXCEPT ![g].used = TRUE, ![g].size = 0]
  BY DEF Create
<1>2. \A f \in File : /\ entry'[f].extblk = entry[f].extblk
                      /\ entry'[f].direct = entry[f].direct
                      /\ entry'[f].count = entry[f].count
  BY <1>1, TypeParts DEF Entry
<1> QED
  BY <1>2, LeakKept DEF Create, InUse

LEMMA LeakHandles ==
    ASSUME TypeInv, LeakInv, NEW h \in Handles,
           Release(h) \/ UseDetached(h) \/ \E f \in File : Open(h, f)
    PROVE  LeakInv'
<1>1. CASE Release(h)
  <2>1. \A f \in File : /\ entry'[f].extblk = entry[f].extblk
                        /\ entry'[f].direct = entry[f].direct
                        /\ entry'[f].count = entry[f].count
    BY <1>1, TypeParts DEF Release, Entry
  <2> QED
    BY <1>1, <2>1, LeakKept DEF Release, InUse
<1>2. CASE UseDetached(h)
  BY <1>2, LeakFail DEF UseDetached
<1>3. CASE \E f \in File : Open(h, f)
  BY <1>3, LeakUnchanged DEF Open
<1> QED
  BY <1>1, <1>2, <1>3

LEMMA LeakUnlink ==
    ASSUME TypeInv, LeakInv, NEW f \in File, Unlink(f)
    PROVE  LeakInv'
<1> SUFFICES ASSUME past' = {}, ~Fail(BadAccess(entry[f]))
             PROVE  HasOwner' /\ Tail'
  BY LeakFail DEF LeakInv
<1>1. /\ bitmap' = bitmap \ UNION {BlocksOf(GetExtent(entry[f], k)) :
                                      k \in 0 .. (entry[f].count - 1)}
      /\ entry' = [entry EXCEPT ![f] = FreeEntry]
      /\ dirBlocks' = dirBlocks /\ call' = call /\ call.op # "alloc"
      /\ past = {} /\ entry[f].extblk = 0
  BY DEF Unlink, Ready
<1>2. HasOwner /\ Tail
  BY <1>1 DEF LeakInv
<1>3. entry'[f] = FreeEntry /\ \A g \in File : g # f => entry'[g] = entry[g]
  BY <1>1, TypeParts
<1>4. Tail'
  <2>1. \A g \in File : g # f => InUse(g)' = InUse(g)
    BY <1>1, <1>3 DEF InUse
  <2>2. \A k \in DirectSlot : entry'[f].direct[k] = NoExtent
    BY <1>3 DEF FreeEntry
  <2> QED
    BY <1>2, <1>3, <2>1, <2>2 DEF Tail
<1>5. ASSUME NEW c \in Claim, c[1] = f
      PROVE  Claimed(c) \cap bitmap' = {}
  <2>1. CASE c[2] = ExtentsBlock
    BY <1>1, <1>5, <2>1 DEF Claimed
  <2>2. CASE c[2] \in DirectSlot
    <3>1. Claimed(c) = BlocksOf(entry[f].direct[c[2]])
      BY <1>5, <2>2, ExtentsBlockIsNoSlot DEF Claimed
    <3>2. CASE c[2] >= entry[f].count
      <4>1. InUse(f) = entry[f].count
        BY <1>1 DEF InUse
      <4>2. entry[f].direct[c[2]] = NoExtent
        BY <1>2, <2>2, <3>2, <4>1 DEF Tail
      <4> QED
        BY <3>1, <4>2, NoExtentIsExtent
    <3>3. CASE ~(c[2] >= entry[f].count)
      <4>1. entry[f].count \in Nat /\ DirectExtents \in Nat
        <5>1. entry[f] \in Entry
          BY TypeParts
        <5> QED
          BY <5>1, EntryFields, FileStoreAssumption
      <4>2. c[2] \in Nat /\ c[2] < DirectExtents
        BY <2>2, <4>1 DEF DirectSlot
      <4>3. c[2] \in 0 .. (entry[f].count - 1)
        BY <3>3, <4>1, <4>2
      <4>4. GetExtent(entry[f], c[2]) = entry[f].direct[c[2]]
        BY <4>2 DEF GetExtent
      <4> QED
        BY <1>1, <3>1, <4>3, <4>4
    <3> QED
      BY <3>2, <3>3
  <2> QED
    BY <2>1, <2>2, ClaimParts
<1>6. \A c \in Claim : c[1] # f => Claimed(c)' = Claimed(c)
  BY <1>3, ClaimParts DEF Claimed
<1>7. HasOwner'
  BY <1>1, <1>2, <1>5, <1>6 DEF HasOwner
<1> QED
  BY <1>4, <1>7

LEMMA LeakDirBlocks ==
    ASSUME TypeInv, LeakInv, AllocDirBlock \/ FreeDirBlock
    PROVE  LeakInv'
<1> SUFFICES ASSUME past' = {}
             PROVE  HasOwner' /\ Tail'
  BY DEF LeakInv
<1>1. HasOwner /\ Tail /\ UNCHANGED <<entry, call>>
  BY DEF LeakInv, AllocDirBlock, FreeDirBlock
<1>2. \A c \in Claim : Claimed(c)' = Claimed(c)
  BY <1>1 DEF Claimed
<1>3. Tail'
  BY <1>1 DEF Tail, InUse
<1>4. CASE AllocDirBlock
  BY <1>1, <1>2, <1>3, <1>4 DEF AllocDirBlock, HasOwner
<1>5. CASE FreeDirBlock
  BY <1>1, <1>2, <1>3, <1>5 DEF FreeDirBlock, HasOwner
<1> QED
  BY <1>4, <1>5

-----------------------------------------------------------------------------
\* Truncation.
LEMMA LeakTruncateToZero ==
    ASSUME TypeInv, LeakInv, NEW f \in File, TruncateToZero(f)
    PROVE  LeakInv'
<1> SUFFICES ASSUME past' = {}, ~Fail("wild"), ~Fail("table_end")
             PROVE  HasOwner' /\ Tail'
  BY LeakFail DEF LeakInv
<1> DEFINE gone == DirectSlot \cap ZeroedWords(f)
<1>1. /\ bitmap' = bitmap \ UNION {BlocksOf(entry[f].direct[k]) : k \in gone}
      /\ entry' = [entry EXCEPT ![f] = Emptied(entry[f], gone)]
      /\ UNCHANGED <<handle, dirBlocks, call, fault, past>>
  BY TruncateToZeroCases
<1>2. HasOwner /\ Tail /\ call.op # "alloc"
  BY <1>1 DEF LeakInv, TruncateToZero, Ready
<1>3. /\ \A g \in File : g # f => entry'[g] = entry[g]
      /\ entry'[f].extblk = entry[f].extblk
      /\ \A k \in DirectSlot :
            entry'[f].direct[k] = IF k \in gone THEN NoExtent ELSE entry[f].direct[k]
  <2> HIDE DEF gone
  <2> QED
    BY <1>1, TypeParts DEF Emptied, Entry
<1>4. \A k \in DirectSlot : k \notin gone => entry[f].direct[k] = NoExtent
  <2> SUFFICES ASSUME NEW k \in DirectSlot, k \notin gone
               PROVE  k >= InUse(f)
    BY <1>2 DEF Tail
  <2>1. entry[f].count \in Nat /\ DirectExtents \in Nat
    <3>1. entry[f] \in Entry
      BY TypeParts
    <3> QED
      BY <3>1, EntryFields, FileStoreAssumption
  <2>2. k \in Nat
    BY <2>1 DEF DirectSlot
  <2>3. k >= entry[f].count
    BY <2>1, <2>2 DEF ZeroedWords
  <2> QED
    BY <1>2, <2>3 DEF InUse
<1>5. \A k \in DirectSlot : entry'[f].direct[k] = NoExtent
  BY <1>3, <1>4
<1>6. Tail'
  <2>1. \A g \in File : g # f => InUse(g)' = InUse(g)
    BY <1>1, <1>2, <1>3 DEF InUse
  <2> QED
    BY <1>2, <1>3, <1>5, <2>1 DEF Tail
<1>7. ASSUME NEW c \in Claim, NEW b \in bitmap', b \in Claimed(c)
      PROVE  b \in Claimed(c)'
  <2>1. CASE c[1] # f
    BY <1>3, <1>7, <2>1, ClaimParts DEF Claimed
  <2>2. CASE c[1] = f /\ c[2] = ExtentsBlock
    BY <1>3, <1>7, <2>2 DEF Claimed
  <2>3. CASE c[1] = f /\ c[2] \in DirectSlot
    <3>1. b \in BlocksOf(entry[f].direct[c[2]])
      BY <1>7, <2>3, ExtentsBlockIsNoSlot DEF Claimed
    <3>2. c[2] \notin gone
      BY <1>1, <3>1
    <3> QED
      BY <1>4, <2>3, <3>1, <3>2, NoExtentIsExtent
  <2> QED
    BY <2>1, <2>2, <2>3, ClaimParts
<1>8. HasOwner'
  BY <1>1, <1>2, <1>7 DEF HasOwner
<1> QED
  BY <1>6, <1>8

LEMMA LeakShrink ==
    ASSUME TypeInv, LeakInv,
           \/ ShrinkStep \/ ShrinkDone \/ ShrinkOffTable
           \/ \E f \in File, end \in Offsets : BeginShrink(f, end)
    PROVE  LeakInv'
<1>1. CASE ShrinkStep
  BY <1>1, LeakFail DEF ShrinkStep, LeakInv
<1>2. CASE ShrinkOffTable
  BY <1>2, LeakFail DEF ShrinkOffTable
<1>3. CASE ShrinkDone
  <2> DEFINE f == call.file
             e == [entry[f] EXCEPT !.size = call.end]
  <2>1. f \in File /\ entry[f] \in Entry /\ call.op # "alloc"
    BY <1>3, TypeParts DEF ShrinkDone, Busy
  <2>2. e.extblk = entry[f].extblk /\ e.direct = entry[f].direct /\ e.count = InUse(f)
    BY <2>1 DEF Entry, InUse
  <2> QED
    BY <1>3, <2>1, <2>2, LeakResized, IdleIsCall DEF ShrinkDone
<1>4. CASE \E f \in File, end \in Offsets : BeginShrink(f, end)
  <2>1. call.op # "alloc" /\ call'.op # "alloc"
    BY <1>4, IdleIsCall DEF BeginShrink, Ready, Call
  <2>2. UNCHANGED <<bitmap, entry, dirBlocks, past>>
    BY <1>4 DEF BeginShrink
  <2> QED
    BY <2>1, <2>2, LeakKept DEF InUse
<1> QED
  BY <1>1, <1>2, <1>3, <1>4

-----------------------------------------------------------------------------
LEMMA InitLeakInv == Init => LeakInv
BY IdleIsCall DEF Init, LeakInv, HasOwner, Tail, FreeEntry

LEMMA NextLeakInv ==
    ASSUME TypeInv, LeakInv, [Next]_vars
    PROVE  LeakInv'
<1>1. CASE Create \/ AllocDirBlock \/ FreeDirBlock
  BY <1>1, LeakCreate, LeakDirBlocks
<1>2. ASSUME NEW h \in Handles,
             Release(h) \/ UseDetached(h) \/ \E f \in File : Open(h, f)
      PROVE  LeakInv'
  BY <1>2, LeakHandles
<1>3. ASSUME NEW f \in File, Unlink(f) \/ TruncateToZero(f)
      PROVE  LeakInv'
  BY <1>3, LeakUnlink, LeakTruncateToZero
<1>4. ASSUME NEW h \in Handles, NEW last \in Offsets, Read(h, last)
      PROVE  LeakInv'
  BY <1>4, LeakRead
<1>5. ASSUME NEW h \in Handles, NEW pos \in Offsets, NEW end \in Offsets,
             BeginWrite(h, pos, end)
      PROVE  LeakInv'
  BY <1>5, LeakBeginWrite
<1>6. ASSUME NEW f \in File, NEW end \in Offsets, Extend(f, end) \/ BeginShrink(f, end)
      PROVE  LeakInv'
  BY <1>6, LeakExtend, LeakShrink
<1>7. CASE Step
  <2>1. CASE TakeDirect \/ AllocDone \/ AllocNoSpace
    BY <2>1, LeakTakeDirect, LeakAllocEnds
  <2>2. CASE TakeIndirect
    BY <2>2 DEF TakeIndirect, LeakInv
  <2>3. CASE ShrinkStep \/ ShrinkDone \/ ShrinkOffTable
    BY <2>3, LeakShrink
  <2> QED
    BY <1>7, <2>1, <2>2, <2>3 DEF Step
<1>8. CASE UNCHANGED vars
  BY <1>8, LeakUnchanged DEF vars
<1> QED
  BY <1>1, <1>2, <1>3, <1>4, <1>5, <1>6, <1>7, <1>8 DEF Next

\* Between any two steps of any call, as long as nothing spilled, shrank or was
\* removed with an extents block: the blocks marked in the bitmap are those of
\* extents, extents blocks and directories, so that no block is lost by unlink,
\* by a truncation to zero or by an allocation that ran out of space.
THEOREM NoBlockIsLost == Spec => []NoLeak
<1>1. OwnInv /\ LeakInv => NoLeak
  <2> SUFFICES ASSUME OwnInv, LeakInv, past = {}
               PROVE  bitmap = dirBlocks \cup UNION {Claimed(c) : c \in Claim}
    BY DEF NoLeak
  <2>1. Exclusive /\ HasOwner
    BY DEF OwnInv, LeakInv
  <2> QED
    BY <2>1 DEF Exclusive, HasOwner
<1>2. Init => TypeInv /\ OwnInv /\ LeakInv
  BY InitTypeInv, InitOwnInv, InitLeakInv
<1>3. TypeInv /\ OwnInv /\ LeakInv /\ [Next]_vars => (TypeInv /\ OwnInv /\ LeakInv)'
  BY NextTypeInv, NextOwnInv, NextLeakInv
<1> QED
  BY <1>1, <1>2, <1>3, PTL DEF Spec

-----------------------------------------------------------------------------
(***************************************************************************)
(* Memory errors in the file store: as long as no allocation has gone      *)
(* beyond the direct extents and no partial truncation has removed one, no *)
(* loop over the extents of a file leaves the array they stand in.         *)
(***************************************************************************)

Calm == past \cap {"spilled", "shrunk"} = {}

\* What the loops need: no count and no index in use exceeds the array.
Inside ==
    /\ fault \in {"none", "detached"}
    /\ \A f \in File : entry[f].count <= DirectExtents
    /\ call.op = "alloc" => call.k <= DirectExtents
    /\ call.op = "shrink" => call.k < DirectExtents

CalmInv == Calm => Inside

-----------------------------------------------------------------------------
\* Few extents are within reach.
LEMMA FewReachable ==
    ASSUME NEW e \in Entry, e.count <= DirectExtents
    PROVE  AllReachable(e) /\ \A o : ~WalksAstray(e, o)
<1>1. ReachableExtents(e) \in {DirectExtents, MaxExtents}
  BY DEF ReachableExtents
<1>2. DirectExtents \in Nat /\ IndirectSlots \in Nat
      /\ MaxExtents = DirectExtents + IndirectSlots
  BY Numbers DEF MaxExtents
<1>3. DirectExtents <= ReachableExtents(e)
  BY <1>1, <1>2
<1>4. e.count \in Nat
  BY EntryFields
<1>5. e.count <= ReachableExtents(e)
  BY <1>1, <1>2, <1>3, <1>4
<1> QED
  BY <1>5 DEF AllReachable, WalksAstray

LEMMA WithListCount ==
    ASSUME NEW bm, NEW e \in Entry
    PROVE  WithList(bm, e).count = e.count
BY DEF WithList, Entry

\* Situations are never forgotten.
LEMMA CalmBefore ==
    ASSUME past \subseteq past', Calm'
    PROVE  Calm
BY DEF Calm

LEMMA PastGrows ==
    ASSUME Next
    PROVE  past \subseteq past'
<1>1. CASE Create \/ AllocDirBlock \/ FreeDirBlock
  <2>1. CASE Create
    BY <2>1 DEF Create
  <2>2. CASE AllocDirBlock
    BY <2>2 DEF AllocDirBlock
  <2>3. CASE FreeDirBlock
    BY <2>3 DEF FreeDirBlock
  <2> QED
    BY <1>1, <2>1, <2>2, <2>3
<1>2. ASSUME NEW h \in Handles, Release(h) \/ UseDetached(h)
      PROVE  past \subseteq past'
  <2>1. CASE Release(h)
    BY <2>1 DEF Release
  <2>2. CASE UseDetached(h)
    BY <2>2 DEF UseDetached, Fail
  <2> QED
    BY <1>2, <2>1, <2>2
<1>3. ASSUME NEW f \in File, Unlink(f) \/ TruncateToZero(f)
      PROVE  past \subseteq past'
  <2>1. CASE Unlink(f)
    BY <2>1 DEF Unlink, Fail
  <2>2. CASE TruncateToZero(f)
    BY <2>2 DEF TruncateToZero, Fail
  <2> QED
    BY <1>3, <2>1, <2>2
<1>4. ASSUME NEW h \in Handles, NEW f \in File, Open(h, f)
      PROVE  past \subseteq past'
  BY <1>4 DEF Open
<1>5. ASSUME NEW h \in Handles, NEW last \in Offsets, Read(h, last)
      PROVE  past \subseteq past'
  BY <1>5 DEF Read
<1>6. ASSUME NEW h \in Handles, NEW pos \in Offsets, NEW end \in Offsets,
             BeginWrite(h, pos, end)
      PROVE  past \subseteq past'
  <2>1. \/ \E kind : Fail(kind)
        \/ \E bytes : BeginAlloc(handle[h], bytes, "write", pos, end)
        \/ Copy(handle[h], entry[handle[h]], pos, end)
    BY <1>6 DEF BeginWrite
  <2> QED
    BY <2>1 DEF BeginAlloc, Copy, Fail
<1>7. ASSUME NEW f \in File, NEW end \in Offsets,
             Extend(f, end) \/ BeginShrink(f, end)
      PROVE  past \subseteq past'
  <2>1. CASE Extend(f, end)
    <3>1. \/ \E kind : Fail(kind)
          \/ past' = past
          \/ \E bytes : BeginAlloc(f, bytes, "grow", 0, end)
      BY <2>1 DEF Extend
    <3> QED
      BY <3>1 DEF BeginAlloc, Fail
  <2>2. CASE BeginShrink(f, end)
    BY <2>2 DEF BeginShrink
  <2> QED
    BY <1>7, <2>1, <2>2
<1>8. CASE Step
  <2>1. CASE TakeDirect
    BY <2>1 DEF TakeDirect
  <2>2. CASE TakeIndirect
    BY <2>2 DEF TakeIndirect
  <2>3. CASE AllocDone
    BY <2>3 DEF AllocDone, Copy, Fail
  <2>4. CASE AllocNoSpace
    BY <2>4 DEF AllocNoSpace
  <2>5. CASE ShrinkStep
    BY <2>5 DEF ShrinkStep, Fail
  <2>6. CASE ShrinkDone
    BY <2>6 DEF ShrinkDone
  <2>7. CASE ShrinkOffTable
    BY <2>7 DEF ShrinkOffTable, Fail
  <2> QED
    BY <1>8, <2>1, <2>2, <2>3, <2>4, <2>5, <2>6, <2>7 DEF Step
<1> QED
  BY <1>1, <1>2, <1>3, <1>4, <1>5, <1>6, <1>7, <1>8 DEF Next

\* A step of no loop that leaves one slot with few extents.
LEMMA InsideStep ==
    ASSUME TypeInv, Inside, NEW f \in File, NEW e,
           e.count <= DirectExtents,
           entry' = [entry EXCEPT ![f] = e],
           call' = call \/ call' = Idle,
           fault' = fault
    PROVE  Inside'
BY TypeParts, IdleIsCall DEF Inside, Idle

LEMMA InsideUnchanged ==
    ASSUME Inside, UNCHANGED <<entry, call>>, fault' \in {"none", "detached"}
    PROVE  Inside'
BY DEF Inside

LEMMA CopyInside ==
    ASSUME TypeInv, Inside, NEW f \in File, NEW e \in Entry,
           e.count <= DirectExtents,
           NEW pos \in Offsets, NEW end \in Offsets, Copy(f, e, pos, end)
    PROVE  Inside'
<1>1. /\ entry' = [entry EXCEPT ![f] = Written(e, pos, end)]
      /\ call' = Idle /\ fault' = fault
  BY FewReachable DEF Copy
<1>2. Written(e, pos, end).count = e.count
  BY DEF Written, Entry
<1> QED
  BY <1>1, <1>2, InsideStep

LEMMA BeginAllocInside ==
    ASSUME TypeInv, Inside, Calm', NEW f \in File, NEW bytes, NEW next,
           NEW pos, NEW end, BeginAlloc(f, bytes, next, pos, end)
    PROVE  Inside'
<1>1. ~(entry[f].count >= DirectExtents)
  BY DEF BeginAlloc, Calm
<1>2. entry' = entry /\ fault' = fault
  BY <1>1 DEF BeginAlloc
<1>3. call'.op = "alloc" /\ call'.k = entry[f].count
  BY DEF BeginAlloc
<1> QED
  BY <1>2, <1>3 DEF Inside

-----------------------------------------------------------------------------
\* One lemma per group of actions.
LEMMA NamesInside ==
    ASSUME TypeInv, Inside,
           \/ Create \/ AllocDirBlock \/ FreeDirBlock
           \/ \E h \in Handles, f \in File : Open(h, f)
    PROVE  Inside'
<1>1. CASE Create
  <2>1. PICK g \in FreeFileEntry :
           entry' = [entry EXCEPT ![g].used = TRUE, ![g].size = 0]
    BY <1>1 DEF Create
  <2>2. g \in File /\ entry[g] \in Entry
    BY TypeParts DEF FreeFileEntry
  <2> DEFINE e == [entry[g] EXCEPT !.used = TRUE, !.size = 0]
  <2>3. entry' = [entry EXCEPT ![g] = e]
    BY <2>1, <2>2, TypeParts
  <2>4. e.count = entry[g].count
    BY <2>2 DEF Entry
  <2>5. call' = call /\ fault' = fault
    BY <1>1 DEF Create
  <2> HIDE DEF e
  <2> QED
    BY <2>2, <2>3, <2>4, <2>5, InsideStep DEF Inside
<1>2. CASE ~Create
  BY <1>2, InsideUnchanged DEF AllocDirBlock, FreeDirBlock, Open, Inside
<1> QED
  BY <1>1, <1>2

LEMMA HandlesInside ==
    ASSUME TypeInv, Inside, NEW h \in Handles, Release(h) \/ UseDetached(h)
    PROVE  Inside'
<1>1. CASE UseDetached(h)
  BY <1>1, InsideUnchanged DEF UseDetached, Fail
<1>2. CASE Release(h) /\ handle[h] \in File
  <2> DEFINE e == [entry[handle[h]] EXCEPT !.indirect = "null", !.more = NoList]
  <2>1. entry' = [entry EXCEPT ![handle[h]] = e]
    BY <1>2, TypeParts DEF Release
  <2>2. e.count = entry[handle[h]].count
    BY <1>2, TypeParts DEF Entry
  <2>3. call' = call /\ fault' = fault
    BY <1>2 DEF Release
  <2> HIDE DEF e
  <2> QED
    BY <1>2, <2>1, <2>2, <2>3, InsideStep DEF Inside
<1>3. CASE Release(h) /\ handle[h] \notin File
  BY <1>3, InsideUnchanged DEF Release, Inside
<1> QED
  BY <1>1, <1>2, <1>3

LEMMA UnlinkInside ==
    ASSUME TypeInv, Inside, NEW f \in File, Unlink(f)
    PROVE  Inside'
<1>1. AllReachable(entry[f])
  BY FewReachable, TypeParts DEF Inside
<1>2. entry' = [entry EXCEPT ![f] = FreeEntry] /\ UNCHANGED <<call, fault>>
  BY <1>1 DEF Unlink
<1>3. FreeEntry.count <= DirectExtents
  BY Numbers DEF FreeEntry
<1> QED
  BY <1>2, <1>3, InsideStep

\* The loop of a truncation to zero stays in the array.
LEMMA TruncateToZeroInside ==
    ASSUME TypeInv, Inside, NEW f \in File, TruncateToZero(f)
    PROVE  Inside'
<1>1. \A k \in ZeroedWords(f) : k < DirectExtents /\ k \in Nat
  <2>1. entry[f].count \in Nat /\ entry[f].count <= DirectExtents
    BY EntryFields, TypeParts DEF Inside
  <2> QED
    BY <2>1, Numbers DEF ZeroedWords
<1>2. \A k \in ZeroedWords(f) : InTable(f, k) /\ ~Foreign(f, k)
  BY <1>1, Numbers DEF InTable, Foreign
<1>3. /\ entry' = [entry EXCEPT ![f] =
             Emptied(entry[f], DirectSlot \cap ZeroedWords(f))]
      /\ UNCHANGED <<call, fault>>
  BY <1>2, TypeParts DEF TruncateToZero, Emptied
<1>4. Emptied(entry[f], DirectSlot \cap ZeroedWords(f)).count = 0
  BY TypeParts DEF Emptied, Entry
<1>5. Emptied(entry[f], DirectSlot \cap ZeroedWords(f)).count <= DirectExtents
  BY <1>4, Numbers
<1> QED
  BY <1>3, <1>5, InsideStep

LEMMA ReadInside ==
    ASSUME TypeInv, Inside, NEW h \in Handles, NEW last \in Offsets, Read(h, last)
    PROVE  Inside'
<1> DEFINE e == entry[handle[h]]
           r == IF e.count >= DirectExtents THEN WithList(bitmap, e) ELSE e
<1>1. handle[h] \in File /\ e \in Entry
  BY TypeParts DEF Read
<1>2. r \in Entry /\ r.count = e.count
  BY <1>1, WithListType, WithListCount
<1>3. r.count <= DirectExtents
  BY <1>1, <1>2 DEF Inside
<1>4. ~WalksAstray(r, last)
  BY <1>2, <1>3, FewReachable
<1>5. entry' = [entry EXCEPT ![handle[h]] = r] /\ call' = call
  BY DEF Read
<1>6. fault' = IF WalksAstray(r, last) THEN BadAccess(r) ELSE fault
  BY DEF Read
<1>7. fault' = fault
  BY <1>4, <1>6
<1> HIDE DEF r
<1> QED
  BY <1>1, <1>3, <1>5, <1>7, InsideStep

LEMMA BeginWriteInside ==
    ASSUME TypeInv, Inside, Calm', NEW h \in Handles, NEW pos \in Offsets,
           NEW end \in Offsets, BeginWrite(h, pos, end)
    PROVE  Inside'
<1> DEFINE f == handle[h]
<1>1. f \in File /\ entry[f] \in Entry /\ entry[f].count <= DirectExtents
  BY TypeParts DEF BeginWrite, Inside
<1>2. AllReachable(entry[f])
  BY <1>1, FewReachable
<1>3. CASE BeginAlloc(f, end - pos - Available(entry[f]), "write", pos, end)
  BY <1>1, <1>3, BeginAllocInside
<1>4. CASE Copy(f, entry[f], pos, end)
  BY <1>1, <1>4, CopyInside
<1> QED
  BY <1>2, <1>3, <1>4 DEF BeginWrite

LEMMA ExtendInside ==
    ASSUME TypeInv, Inside, Calm', NEW f \in File, NEW end \in Offsets,
           Extend(f, end)
    PROVE  Inside'
<1> DEFINE e == [entry[f] EXCEPT !.size = end]
<1>1. AllReachable(entry[f])
  BY FewReachable, TypeParts DEF Inside
<1>2. CASE BeginAlloc(f, end - entry[f].size, "grow", 0, end)
  BY <1>2, BeginAllocInside
<1>3. CASE /\ entry' = [entry EXCEPT ![f].size = end]
           /\ UNCHANGED <<bitmap, handle, dirBlocks, call, fault, past>>
  <2>1. entry' = [entry EXCEPT ![f] = e]
    BY <1>3, TypeParts
  <2>2. e.count = entry[f].count
    BY TypeParts DEF Entry
  <2> HIDE DEF e
  <2> QED
    BY <1>3, <2>1, <2>2, InsideStep DEF Inside
<1> QED
  BY <1>1, <1>2, <1>3 DEF Extend

LEMMA BeginShrinkInside ==
    ASSUME TypeInv, Inside, NEW f \in File, NEW end \in Offsets,
           BeginShrink(f, end)
    PROVE  Inside'
<1>1. entry' = entry /\ fault' = fault
  BY DEF BeginShrink
<1>2. call'.op = "shrink" /\ call'.k = entry[f].count - 1
  BY IdleIsCall DEF BeginShrink, Call
<1>3. entry[f].count \in Nat /\ entry[f].count <= DirectExtents
  BY EntryFields, TypeParts DEF Inside
<1> QED
  BY <1>1, <1>2, <1>3, Numbers DEF Inside

LEMMA TakeInside ==
    ASSUME TypeInv, Inside, Calm', TakeDirect \/ TakeIndirect
    PROVE  Inside'
<1>1. TakeDirect
  BY DEF TakeIndirect, Calm
<1>2. PICK x \in FirstExtent(call.tree) :
         /\ entry' = [entry EXCEPT ![call.file].direct[call.k] = x]
         /\ call' = [call EXCEPT !.k = @ + 1, !.left = @ - x.length,
                                 !.tree = @ \ {x}]
  BY <1>1 DEF TakeDirect
<1>3. call'.op = "alloc" /\ call'.k = call.k + 1
  BY <1>1, <1>2, TypeParts DEF Call, TakeDirect, Busy
<1>4. call.k + 1 <= DirectExtents
  <2>1. call.k < DirectExtents /\ call.k \in Int
    BY <1>1, TypeParts DEF TakeDirect
  <2>2. DirectExtents \in Int
    BY Numbers
  <2> QED
    BY <2>1, <2>2
<1>5. ASSUME NEW f \in File
      PROVE  entry'[f].count = entry[f].count
  <2>1. entry \in [File -> Entry] /\ call.file \in File
    BY TypeParts
  <2>2. CASE f # call.file
    BY <1>2, <2>1, <2>2
  <2>3. CASE f = call.file
    <3> DEFINE e == [entry[f] EXCEPT !.direct[call.k] = x]
    <3>1. entry' = [entry EXCEPT ![f] = e]
      BY <1>2, <2>3
    <3>2. entry[f] \in Entry
      BY <2>1
    <3>3. e.count = entry[f].count
      BY <3>2 DEF Entry
    <3> HIDE DEF e
    <3>4. entry'[f] = e
      BY <2>1, <3>1
    <3> QED
      BY <3>3, <3>4
  <2> QED
    BY <2>2, <2>3
<1>6. fault' \in {"none", "detached"}
  BY <1>1 DEF TakeDirect, Inside
<1>7. \A f \in File : entry'[f].count <= DirectExtents
  BY <1>5 DEF Inside
<1>8. call'.k <= DirectExtents
  BY <1>3, <1>4
<1>9. ~(call'.op = "shrink")
  BY <1>3
<1> QED
  BY <1>6, <1>7, <1>8, <1>9 DEF Inside

LEMMA AllocEndsInside ==
    ASSUME TypeInv, Inside, AllocDone \/ AllocNoSpace
    PROVE  Inside'
<1> DEFINE e == [entry[call.file] EXCEPT !.count = call.k]
<1>1. call.op = "alloc" /\ call.k <= DirectExtents
  <2>1. Busy("alloc")
    BY DEF AllocDone, AllocNoSpace
  <2> QED
    BY <2>1 DEF Busy, Inside
<1>2. e \in Entry
  BY <1>1, CountSet, TypeParts DEF TypeInv, CallOK
<1>3. e.count = call.k
  BY TypeParts DEF Entry
<1>4. [e EXCEPT !.size = call.end].count = call.k
  <2> HIDE DEF e
  <2> QED  BY <1>2, <1>3 DEF Entry
<1>5. CASE AllocDone /\ call.next = "write"
  <2>1. Copy(call.file, e, call.pos, call.end)
    BY <1>5 DEF AllocDone
  <2> HIDE DEF e
  <2> QED
    BY <1>1, <1>2, <1>3, <2>1, CopyInside, TypeParts
<1>6. CASE AllocDone /\ call.next # "write"
  <2>1. /\ entry' = [entry EXCEPT ![call.file] = [e EXCEPT !.size = call.end]]
        /\ call' = Idle /\ fault' = fault
    BY <1>6 DEF AllocDone
  <2> HIDE DEF e
  <2> QED
    BY <1>1, <1>4, <2>1, InsideStep, TypeParts
<1>7. CASE AllocNoSpace
  <2>1. entry' = [entry EXCEPT ![call.file] = e] /\ call' = Idle /\ fault' = fault
    BY <1>7, TypeParts DEF AllocNoSpace
  <2> HIDE DEF e
  <2> QED
    BY <1>1, <1>3, <2>1, InsideStep, TypeParts
<1> QED
  BY <1>5, <1>6, <1>7

\* The loop of a partial truncation starts inside the array, and its first
\* removal is recorded.
LEMMA ShrinkInside ==
    ASSUME TypeInv, Inside, Calm', ShrinkStep \/ ShrinkDone \/ ShrinkOffTable
    PROVE  Inside'
<1>1. call.op = "shrink" /\ call.k < DirectExtents
  BY DEF ShrinkStep, ShrinkDone, ShrinkOffTable, Busy, Inside
<1>2. InTable(call.file, call.k) /\ ~Foreign(call.file, call.k)
  BY <1>1, Numbers, TypeParts DEF InTable, Foreign
<1>3. ShrinkDone
  BY <1>2 DEF ShrinkStep, ShrinkOffTable, Calm
<1> DEFINE e == [entry[call.file] EXCEPT !.size = call.end]
<1>4. entry' = [entry EXCEPT ![call.file] = e] /\ call' = Idle /\ fault' = fault
  BY <1>3, TypeParts DEF ShrinkDone
<1>5. e.count = entry[call.file].count
  BY TypeParts DEF Entry
<1> HIDE DEF e
<1> QED
  BY <1>4, <1>5, InsideStep, TypeParts DEF Inside

-----------------------------------------------------------------------------
LEMMA InitCalmInv == Init => CalmInv
BY IdleIsCall, Numbers DEF Init, CalmInv, Inside, FreeEntry

LEMMA NextCalmInv ==
    ASSUME TypeInv, CalmInv, [Next]_vars
    PROVE  CalmInv'
<1>1. CASE UNCHANGED vars
  BY <1>1 DEF vars, CalmInv, Calm, Inside
<1>2. ASSUME Next, Calm'
      PROVE  Inside'
  <2>1. Inside
    BY <1>2, PastGrows, CalmBefore DEF CalmInv
  <2>2. CASE \/ Create \/ AllocDirBlock \/ FreeDirBlock
             \/ \E h \in Handles, f \in File : Open(h, f)
    BY <2>1, <2>2, NamesInside
  <2>3. ASSUME NEW h \in Handles, Release(h) \/ UseDetached(h)
        PROVE  Inside'
    BY <2>1, <2>3, HandlesInside
  <2>4. ASSUME NEW f \in File, Unlink(f) \/ TruncateToZero(f)
        PROVE  Inside'
    BY <2>1, <2>4, UnlinkInside, TruncateToZeroInside
  <2>5. ASSUME NEW h \in Handles, NEW last \in Offsets, Read(h, last)
        PROVE  Inside'
    BY <2>1, <2>5, ReadInside
  <2>6. ASSUME NEW h \in Handles, NEW pos \in Offsets, NEW end \in Offsets,
               BeginWrite(h, pos, end)
        PROVE  Inside'
    BY <1>2, <2>1, <2>6, BeginWriteInside
  <2>7. ASSUME NEW f \in File, NEW end \in Offsets, Extend(f, end) \/ BeginShrink(f, end)
        PROVE  Inside'
    BY <1>2, <2>1, <2>7, ExtendInside, BeginShrinkInside
  <2>8. CASE Step
    BY <1>2, <2>1, <2>8, TakeInside, AllocEndsInside, ShrinkInside DEF Step
  <2> QED
    BY <1>2, <2>2, <2>3, <2>4, <2>5, <2>6, <2>7, <2>8 DEF Next
<1> QED
  BY <1>1, <1>2 DEF CalmInv

\* As long as no allocation has gone beyond the direct extents and no partial
\* truncation has removed one, no loop of unlink, truncate, read, write or
\* extend runs out of the extents of its file: the only memory error is the use
\* of a file that was removed while open.
THEOREM CalmHistoriesAreSafe == Spec => []MemorySafe
<1>1. Init => TypeInv /\ CalmInv
  BY InitTypeInv, InitCalmInv
<1>2. TypeInv /\ CalmInv /\ [Next]_vars => (TypeInv /\ CalmInv)'
  BY NextTypeInv, NextCalmInv
<1>3. CalmInv => MemorySafe
  BY DEF CalmInv, Calm, Inside, MemorySafe
<1> QED
  BY <1>1, <1>2, <1>3, PTL DEF Spec

-----------------------------------------------------------------------------
(***************************************************************************)
(* Coverage in the file store: a growing file keeps its bytes on blocks.   *)
(***************************************************************************)

-----------------------------------------------------------------------------
\* How much room the direct extents of an entry make.

\* It depends on nothing but the extents counted.
LEMMA SameDirect ==
    ASSUME NEW e, NEW d, NEW n \in Nat, n <= DirectExtents,
           \A k \in 0 .. (n - 1) : d.direct[k] = e.direct[k]
    PROVE  AllocatedSize(d, n) = AllocatedSize(e, n)
<1>1. ASSUME NEW k \in 0 .. (n - 1)
      PROVE  GetExtent(d, k) = GetExtent(e, k)
  <2>1. k < DirectExtents
    BY Numbers
  <2> QED
    BY <2>1 DEF GetExtent
<1>2. Places(d, n) = Places(e, n)
  BY <1>1 DEF Places
<1> QED
  BY <1>2 DEF AllocatedSize

LEMMA PlacesFinite ==
    ASSUME NEW e, NEW n \in Nat
    PROVE  IsFiniteSet(Places(e, n)) /\ Cardinality(Places(e, n)) \in Nat
<1> DEFINE all == (0 .. (n - 1)) \X (0 .. (MaxExtentLength - 1))
<1>1. IsFiniteSet(0 .. (n - 1)) /\ IsFiniteSet(0 .. (MaxExtentLength - 1))
  BY Numbers, FS_Interval
<1>2. IsFiniteSet(all)
  BY <1>1, FS_Product
<1>3. Places(e, n) \subseteq all
  BY DEF Places
<1> QED
  BY <1>2, <1>3, FS_Subset, FS_CardinalityType

LEMMA IsPlace ==
    ASSUME NEW e, NEW n \in Nat, NEW p
    PROVE  p \in Places(e, n)
             <=> /\ p \in (0 .. (n - 1)) \X (0 .. (MaxExtentLength - 1))
                 /\ p[2] < GetExtent(e, p[1]).length
BY DEF Places

\* A product with the block size grows with its other factor.
LEMMA SizeGrows ==
    ASSUME NEW a \in Int, NEW b \in Int, a <= b
    PROVE  /\ a * BlockSize \in Int /\ b * BlockSize \in Int
           /\ a * BlockSize <= b * BlockSize
<1>1. BlockSize \in Nat
  BY Numbers
<1>2. \A x \in Int, y \in Int, z \in Nat : x <= y => x * z <= y * z
  OBVIOUS
<1>3. \A x \in Int, z \in Nat : x * z \in Int
  OBVIOUS
<1> QED
  BY <1>1, <1>2, <1>3

LEMMA SizeMonotone ==
    ASSUME NEW e \in Entry, NEW m \in Nat, NEW n \in Nat, m <= n
    PROVE  AllocatedSize(e, m) <= AllocatedSize(e, n)
<1>1. Places(e, m) \subseteq Places(e, n)
  BY DEF Places
<1>2. Cardinality(Places(e, m)) <= Cardinality(Places(e, n))
  BY <1>1, PlacesFinite, FS_Subset
<1> QED
  BY <1>2, PlacesFinite, SizeGrows DEF AllocatedSize

\* One more extent adds its blocks.
LEMMA SizeOfOneMore ==
    ASSUME NEW e \in Entry, NEW k \in DirectSlot, NEW x \in Extent,
           e.direct[k] = x
    PROVE  AllocatedSize(e, k + 1) = AllocatedSize(e, k) + x.length * BlockSize
<1> DEFINE new == {k} \X (0 .. (x.length - 1))
<1>1. k \in Nat /\ k < DirectExtents
  BY Numbers DEF DirectSlot
<1>2. x.length \in Nat /\ x.length <= MaxExtentLength
  BY Numbers DEF Extent
<1>3. GetExtent(e, k) = x
  BY <1>1 DEF GetExtent
<1>4. Places(e, k + 1) = Places(e, k) \cup new
  <2>1. ASSUME NEW p \in Places(e, k + 1)
        PROVE  p \in Places(e, k) \cup new
    <3>1. /\ p \in (0 .. k) \X (0 .. (MaxExtentLength - 1))
          /\ p[2] < GetExtent(e, p[1]).length
      <4>1. 0 .. (k + 1 - 1) = 0 .. k
        BY <1>1
      <4> QED
        BY <1>1, <2>1, <4>1, IsPlace
    <3>2. CASE p[1] = k
      <4>1. p[2] \in 0 .. (x.length - 1)
        BY <1>2, <1>3, <3>1, <3>2, Numbers
      <4> QED
        BY <3>1, <3>2, <4>1
    <3>3. CASE p[1] # k
      <4>1. p[1] \in 0 .. (k - 1)
        BY <1>1, <3>1, <3>3
      <4>2. p \in (0 .. (k - 1)) \X (0 .. (MaxExtentLength - 1))
        BY <3>1, <4>1
      <4> QED
        BY <1>1, <3>1, <4>2, IsPlace
    <3> QED
      BY <3>2, <3>3
  <2>2. ASSUME NEW p \in Places(e, k)
        PROVE  p \in Places(e, k + 1)
    <3>1. 0 .. (k - 1) \subseteq 0 .. (k + 1 - 1)
      BY <1>1
    <3>2. /\ p \in (0 .. (k - 1)) \X (0 .. (MaxExtentLength - 1))
          /\ p[2] < GetExtent(e, p[1]).length
      BY <1>1, <2>2, IsPlace
    <3>3. p \in (0 .. (k + 1 - 1)) \X (0 .. (MaxExtentLength - 1))
      BY <3>1, <3>2
    <3> QED
      BY <1>1, <3>2, <3>3, IsPlace
  <2>3. ASSUME NEW p \in new
        PROVE  p \in Places(e, k + 1)
    <3>1. p[1] = k /\ p[2] \in 0 .. (x.length - 1) /\ p = <<p[1], p[2]>>
      BY <2>3
    <3>2. p[1] \in 0 .. (k + 1 - 1) /\ p[2] \in 0 .. (MaxExtentLength - 1)
          /\ p[2] < x.length
      BY <1>1, <1>2, <3>1, Numbers
    <3>3. p \in (0 .. (k + 1 - 1)) \X (0 .. (MaxExtentLength - 1))
      BY <3>1, <3>2
    <3>4. p[2] < GetExtent(e, p[1]).length
      BY <1>3, <3>1, <3>2
    <3> QED
      BY <1>1, <3>3, <3>4, IsPlace
  <2> QED
    BY <2>1, <2>2, <2>3
<1>5. Places(e, k) \cap new = {}
  BY <1>1 DEF Places
<1>6. IsFiniteSet(new) /\ Cardinality(new) = x.length
  <2>1. IsFiniteSet({k}) /\ Cardinality({k}) = 1
    BY FS_Singleton
  <2>2. IsFiniteSet(0 .. (x.length - 1)) /\ Cardinality(0 .. (x.length - 1)) = x.length
    <3>1. 0 \in Int /\ x.length - 1 \in Int
      BY <1>2
    <3> QED
      BY <1>2, <3>1, FS_Interval
  <2>3. IsFiniteSet(new)
        /\ Cardinality(new) = Cardinality({k}) * Cardinality(0 .. (x.length - 1))
    BY <2>1, <2>2, FS_Product
  <2>4. \A n \in Nat : 1 * n = n
    OBVIOUS
  <2> QED
    BY <1>2, <2>1, <2>2, <2>3, <2>4
<1>7. Cardinality(Places(e, k + 1)) = Cardinality(Places(e, k)) + x.length
  <2>1. Cardinality(Places(e, k) \cap new) = 0
    BY <1>5, FS_EmptySet
  <2>2. /\ IsFiniteSet(Places(e, k)) /\ Cardinality(Places(e, k)) \in Nat
    BY <1>1, PlacesFinite
  <2> DEFINE old == Places(e, k)
  <2>3. Cardinality(old \cup new)
          = Cardinality(old) + Cardinality(new) - Cardinality(old \cap new)
    BY <1>6, <2>2, FS_Union
  <2> HIDE DEF new, old
  <2>4. Cardinality(old \cap new) = 0
    BY <2>1 DEF old
  <2>5. Cardinality(old) \in Nat
    BY <2>2 DEF old
  <2>6. Cardinality(old \cup new) = Cardinality(old) + x.length
    BY <1>2, <1>6, <2>3, <2>4, <2>5
  <2> QED
    BY <1>4, <2>6 DEF old
<1>8. \A a \in Nat, b \in Nat, c \in Nat : (a + b) * c = a * c + b * c
  OBVIOUS
<1> QED
  BY <1>1, <1>2, <1>7, <1>8, PlacesFinite, Numbers DEF AllocatedSize

\* The blocks asked for hold the bytes asked for.
LEMMA AskedSuffices ==
    ASSUME NEW b \in Nat
    PROVE  ((Blocks(b) * 1500) \div 1000) * BlockSize >= b
<1> DEFINE s == b + BlockSize - 1
           n == s \div BlockSize
           l == (n * 1500) \div 1000
<1>1. BlockSize \in Nat \ {0} /\ s \in Nat
  BY Numbers
<1>2. /\ s = BlockSize * n + (s % BlockSize) /\ n \in Nat
      /\ s % BlockSize \in 0 .. (BlockSize - 1)
  <2> HIDE DEF s
  <2> QED
    BY <1>1
<1> HIDE DEF n
<1> DEFINE p == n * BlockSize
<1>3. p \in Nat /\ BlockSize * n = p
  BY <1>1, <1>2
<1>4. p >= b
  <2>1. s = p + (s % BlockSize) /\ s % BlockSize <= BlockSize - 1 /\ s % BlockSize \in Nat
    BY <1>1, <1>2, <1>3
  <2> HIDE DEF p
  <2> QED
    BY <1>1, <1>3, <2>1
<1>5. l \in Int /\ n \in Int /\ n <= l
  BY <1>2
<1> HIDE DEF l
<1> DEFINE q == l * BlockSize
<1>6. q \in Int /\ p <= q
  BY <1>5, SizeGrows
<1>7. q >= b
  <2> HIDE DEF p, q
  <2> QED
    BY <1>3, <1>4, <1>6
<1>8. (Blocks(b) * 1500) \div 1000 = l
  BY DEF Blocks, n, l
<1> QED
  BY <1>7, <1>8
-----------------------------------------------------------------------------
\* The allocation of a growing file.

\* The room of the first k extents and of the blocks still to come holds what
\* the file had room for and the bytes it grows by.
Asked(e, k, left, end) ==
    AllocatedSize(e, k) + left * BlockSize
        >= AllocatedSize(e, e.count) + (end - e.size)

\* What the running allocation has given to its file never falls behind the
\* extents the file had, and together with what is still asked for it suffices.
Growing ==
    call.op = "alloc" =>
        /\ call.next \in {"write", "grow"}
        /\ entry[call.file].count <= call.k
        /\ call.next = "write" => call.pos < call.end
        /\ call.next = "grow" /\ call.k <= DirectExtents =>
              Asked(entry[call.file], call.k, call.left, call.end)

\* What coverage looks at of a slot.
OnBlocks(e) == e.count <= DirectExtents => e.size <= AllocatedSize(e, e.count)

LEMMA CoveredIsOnBlocks ==
    ASSUME NEW f \in File
    PROVE  /\ Covered(f) <=> OnBlocks(entry[f])
           /\ Covered(f)' <=> OnBlocks(entry'[f])
BY DEF Covered, OnBlocks

LEMMA WithListSize ==
    ASSUME NEW bm, NEW e \in Entry
    PROVE  LET r == WithList(bm, e)
           IN r.count = e.count /\ r.size = e.size /\ r.direct = e.direct
BY DEF WithList, Entry

LEMMA SameOnBlocks ==
    ASSUME NEW e \in Entry, NEW d, OnBlocks(e),
           d.count = e.count, d.size = e.size,
           \A k \in 0 .. (e.count - 1) : k < DirectExtents => d.direct[k] = e.direct[k]
    PROVE  OnBlocks(d)
<1> SUFFICES ASSUME e.count <= DirectExtents
             PROVE  d.size <= AllocatedSize(d, d.count)
  BY DEF OnBlocks
<1>1. e.count \in Nat
  BY EntryFields
<1>2. \A k \in 0 .. (e.count - 1) : d.direct[k] = e.direct[k]
  <2>1. \A k \in 0 .. (e.count - 1) : k < DirectExtents
    BY <1>1, Numbers
  <2> QED
    BY <2>1
<1>3. AllocatedSize(d, e.count) = AllocatedSize(e, e.count)
  BY <1>1, <1>2, SameDirect
<1> QED
  BY <1>3 DEF OnBlocks

LEMMA GrowingEnds ==
    ASSUME call'.op # "alloc"
    PROVE  Growing'
BY DEF Growing

LEMMA GrowingKept ==
    ASSUME Growing, UNCHANGED call, call.op = "alloc" => entry' = entry
    PROVE  Growing'
BY DEF Growing

LEMMA GrowingBegins ==
    ASSUME TypeInv, NEW f \in File, NEW bytes \in Nat, NEW next \in {"write", "grow"},
           NEW pos \in Offsets, NEW end \in Offsets,
           BeginAlloc(f, bytes, next, pos, end),
           next = "write" => pos < end,
           next = "grow" => bytes = end - entry[f].size
    PROVE  Growing'
<1> DEFINE e == entry[f]
           d == entry'[f]
           l == (Blocks(bytes) * 1500) \div 1000
<1>1. e \in Entry /\ e.count \in Nat /\ e.size \in Int
  BY TypeParts, EntryFields
<1>2. d \in Entry /\ d.count = e.count /\ d.size = e.size
  <2>1. d = IF e.count >= DirectExtents THEN WithList(bitmap, e) ELSE e
    BY TypeParts DEF BeginAlloc
  <2>2. WithList(bitmap, e) \in Entry
    BY <1>1, WithListType
  <2> QED
    BY <1>1, <2>1, <2>2, WithListSize
<1>3. /\ call'.next = next /\ call'.file = f /\ call'.pos = pos /\ call'.end = end
      /\ call'.left = l /\ call'.k = e.count
  BY DEF BeginAlloc
<1>4. ASSUME next = "grow"
      PROVE  Asked(d, e.count, l, end)
  <2> DEFINE p == l * BlockSize
             a == AllocatedSize(d, e.count)
  <2>1. l \in Int
    BY AskedType
  <2>2. p >= bytes /\ p \in Int
    BY <2>1, AskedSuffices, SizeGrows
  <2>3. a \in Int
    BY <1>1, <1>2, AllocatedSizeType
  <2>4. end \in Int /\ bytes = end - d.size
    BY <1>2, <1>4, OffsetIsNat
  <2> HIDE DEF p, a
  <2>5. a + p >= a + (end - d.size)
    BY <1>1, <1>2, <2>2, <2>3, <2>4
  <2> QED
    BY <1>2, <2>5 DEF Asked, a, p
<1> HIDE DEF l
<1>5. entry'[call'.file].count <= call'.k
  BY <1>1, <1>2, <1>3
<1>6. call'.next = "write" => call'.pos < call'.end
  BY <1>3
<1>7. call'.next = "grow" => Asked(entry'[call'.file], call'.k, call'.left, call'.end)
  BY <1>3, <1>4
<1> QED
  BY <1>3, <1>5, <1>6, <1>7 DEF Growing

\* The loop moves by one extent.
LEMMA LoopMoves ==
    ASSUME TypeInv, NEW x,
           call' = [call EXCEPT !.k = @ + 1, !.left = @ - x.length,
                                !.tree = @ \ {x}]
    PROVE  /\ call'.op = call.op /\ call'.next = call.next /\ call'.file = call.file
           /\ call'.pos = call.pos /\ call'.end = call.end
           /\ call'.k = call.k + 1 /\ call'.left = call.left - x.length
BY TypeParts DEF Call

LEMMA TakeDirectParts ==
    ASSUME TypeInv, TakeDirect
    PROVE  LET f == call.file
           IN /\ call.k \in DirectSlot /\ call.k \in Nat /\ call.op = "alloc"
              /\ entry'[f] \in Entry
              /\ entry'[f].count = entry[f].count /\ entry'[f].size = entry[f].size
              /\ \A j \in DirectSlot : j # call.k =>
                    entry'[f].direct[j] = entry[f].direct[j]
              /\ \A g \in File : g # f => entry'[g] = entry[g]
<1>1. PICK x \in FirstExtent(call.tree) :
         entry' = [entry EXCEPT ![call.file].direct[call.k] = x]
  BY DEF TakeDirect
<1>2. call.op = "alloc" /\ call.k < DirectExtents
  BY DEF TakeDirect, Busy
<1>3. call.k \in Nat
  BY <1>2, CountIsNat DEF TypeInv, CallOK
<1>4. call.k \in DirectSlot
  BY <1>2, <1>3, Numbers DEF DirectSlot
<1>5. entry' \in [File -> Entry]
  BY TakeDirectType, TypeParts DEF TypeInv, TypeOK
<1> DEFINE e == entry[call.file]
           d == [e EXCEPT !.direct[call.k] = x]
<1>6. /\ e \in Entry
      /\ entry'[call.file] = d
      /\ \A g \in File : g # call.file => entry'[g] = entry[g]
  BY <1>1, TypeParts
<1>7. /\ d.count = e.count /\ d.size = e.size
      /\ \A j \in DirectSlot : j # call.k => d.direct[j] = e.direct[j]
  <2> HIDE DEF e
  <2> QED
    BY <1>6 DEF Entry
<1>8. entry'[call.file] \in Entry
  BY <1>5, TypeParts
<1> HIDE DEF d
<1> QED
  BY <1>2, <1>3, <1>4, <1>6, <1>7, <1>8

LEMMA GrowingTakesDirect ==
    ASSUME TypeInv, Growing, TakeDirect
    PROVE  Growing'
<1> DEFINE f == call.file
           e == entry[f]
           d == entry'[f]
           k == call.k
<1>1. PICK x \in FirstExtent(call.tree) :
         /\ entry' = [entry EXCEPT ![f].direct[k] = x]
         /\ call' = [call EXCEPT !.k = @ + 1, !.left = @ - x.length,
                                 !.tree = @ \ {x}]
  BY DEF TakeDirect
<1>2. f \in File /\ e \in Entry /\ x \in Extent /\ x.length \in Int
  BY FirstExtentType, TypeParts
<1>3. /\ call'.op = call.op /\ call'.next = call.next /\ call'.file = call.file
      /\ call'.pos = call.pos /\ call'.end = call.end
      /\ call'.k = k + 1 /\ call'.left = call.left - x.length
  BY <1>1, LoopMoves
<1>4. /\ k \in DirectSlot /\ k \in Nat /\ call.op = "alloc" /\ d \in Entry
      /\ d.count = e.count /\ d.size = e.size
      /\ \A j \in DirectSlot : j # k => d.direct[j] = e.direct[j]
  BY TakeDirectParts
<1>5. e.count \in Nat /\ e.count <= k
  BY <1>2, <1>4, EntryFields DEF Growing
<1>6. k < DirectExtents /\ DirectExtents \in Nat
  BY <1>4, Numbers DEF DirectSlot
<1>7. ASSUME call.next = "grow"
      PROVE  Asked(d, k + 1, call.left - x.length, call.end)
  <2> DEFINE a == AllocatedSize(e, k)
             b == AllocatedSize(e, e.count)
             l == call.left * BlockSize
             n == x.length * BlockSize
  <2>1. \A j \in 0 .. (k - 1) : j \in DirectSlot /\ j # k
    BY <1>4, <1>6 DEF DirectSlot
  <2>2. AllocatedSize(d, k) = a
    BY <1>4, <1>6, <2>1, SameDirect
  <2>3. AllocatedSize(d, d.count) = b
    <3>1. \A j \in 0 .. (e.count - 1) : j \in DirectSlot /\ j # k
      BY <1>4, <1>5, <1>6 DEF DirectSlot
    <3>2. \A j \in 0 .. (e.count - 1) : d.direct[j] = e.direct[j]
      BY <1>4, <3>1
    <3>3. e.count <= DirectExtents
      BY <1>4, <1>5, <1>6
    <3> QED
      BY <1>4, <1>5, <3>2, <3>3, SameDirect
  <2>4. d.direct[k] = x
    BY <1>1, <1>2, <1>4, TypeParts DEF Entry
  <2>5. AllocatedSize(d, k + 1) = a + n
    BY <1>2, <1>4, <2>2, <2>4, SizeOfOneMore
  <2>6. (call.left - x.length) * BlockSize = l - n
    <3>1. \A u \in Int, v \in Int, w \in Int : (u - v) * w = u * w - v * w
      OBVIOUS
    <3> QED
      BY <1>2, <3>1, TypeParts, Numbers
  <2>7. a \in Int /\ b \in Int /\ l \in Int /\ n \in Int
    BY <1>2, <1>4, <1>5, AllocatedSizeType, SizeGrows, TypeParts
  <2>8. a + l >= b + (call.end - e.size)
    BY <1>4, <1>6, <1>7 DEF Growing, Asked
  <2>9. call.end \in Int /\ e.size \in Int
    BY <1>2, EntryFields, OffsetIsNat, TypeParts
  <2> DEFINE m == (call.left - x.length) * BlockSize
             g == AllocatedSize(d, k + 1)
             c == AllocatedSize(d, d.count)
  <2>10. g = a + n /\ m = l - n /\ c = b
    BY <2>3, <2>5, <2>6
  <2> HIDE DEF a, b, l, n, m, g, c
  <2>11. g + m >= c + (call.end - d.size)
    BY <1>4, <2>7, <2>8, <2>9, <2>10
  <2> QED
    BY <2>11 DEF Asked, m, g, c
<1>8. d.count <= k + 1
  BY <1>4, <1>5
<1>9. call.next \in {"write", "grow"} /\ (call.next = "write" => call.pos < call.end)
  BY <1>4 DEF Growing
<1> HIDE DEF f, k
<1> QED
  BY <1>3, <1>7, <1>8, <1>9 DEF Growing, f

LEMMA TakeIndirectParts ==
    ASSUME TypeInv, TakeIndirect
    PROVE  LET f == call.file
           IN /\ entry'[f].count = entry[f].count /\ entry'[f].size = entry[f].size
              /\ entry'[f].direct = entry[f].direct
              /\ \A g \in File : g # f => entry'[g] = entry[g]
<1>1. PICK x \in FirstExtent(call.tree) :
         LET bm == SetAllocated(bitmap, x)
             e  == WithList(bm, entry[call.file])
         IN entry' = [entry EXCEPT ![call.file] =
                  IF e.indirect = "raw" THEN e
                  ELSE [e EXCEPT !.more[call.k - DirectExtents] = x]]
  BY DEF TakeIndirect
<1> DEFINE bm == SetAllocated(bitmap, x)
           e  == WithList(bm, entry[call.file])
<1>2. /\ e \in Entry
      /\ e.count = entry[call.file].count /\ e.size = entry[call.file].size
      /\ e.direct = entry[call.file].direct
  BY WithListType, WithListSize, TypeParts
<1> DEFINE r == [e EXCEPT !.more[call.k - DirectExtents] = x]
<1>3. entry'[call.file] \in {e, r} /\ \A g \in File : g # call.file => entry'[g] = entry[g]
  BY <1>1, TypeParts
<1>4. r.count = e.count /\ r.size = e.size /\ r.direct = e.direct
  <2> HIDE DEF e
  <2> QED
    BY <1>2 DEF Entry
<1> HIDE DEF e, r
<1> QED
  BY <1>2, <1>3, <1>4

LEMMA GrowingTakesIndirect ==
    ASSUME TypeInv, Growing, TakeIndirect
    PROVE  Growing'
<1> DEFINE f == call.file
<1>1. PICK x \in FirstExtent(call.tree) :
         call' = [call EXCEPT !.k = @ + 1, !.left = @ - x.length,
                              !.tree = @ \ {x}]
  BY DEF TakeIndirect
<1>2. /\ call'.op = call.op /\ call'.next = call.next /\ call'.file = call.file
      /\ call'.pos = call.pos /\ call'.end = call.end
      /\ call'.k = call.k + 1
  BY <1>1, LoopMoves
<1>3. /\ call.op = "alloc" /\ call.k >= DirectExtents /\ call.k \in Int
      /\ DirectExtents \in Int
  BY TypeParts, Numbers DEF TakeIndirect, Busy
<1>4. entry'[f].count = entry[f].count /\ entry[f].count \in Int
  BY TakeIndirectParts, EntryFields, TypeParts
<1>5. ~(call'.k <= DirectExtents)
  BY <1>2, <1>3
<1>6. entry'[f].count <= call'.k
  BY <1>2, <1>3, <1>4 DEF Growing
<1> QED
  BY <1>2, <1>3, <1>5, <1>6 DEF Growing
-----------------------------------------------------------------------------
\* What a step does to the coverage of the files.

CoverageKept == \A f \in File : OnBlocks(entry[f]) => OnBlocks(entry'[f])

LEMMA CoverageUntouched ==
    ASSUME entry' = entry
    PROVE  CoverageKept
BY DEF CoverageKept

LEMMA OneSlotChanges ==
    ASSUME TypeInv, NEW f \in File, NEW e,
           entry' = [entry EXCEPT ![f] = e],
           OnBlocks(entry[f]) => OnBlocks(e)
    PROVE  CoverageKept
<1>1. entry'[f] = e /\ \A g \in File : g # f => entry'[g] = entry[g]
  BY TypeParts
<1> QED
  BY <1>1 DEF CoverageKept

LEMMA EmptyIsOnBlocks ==
    ASSUME NEW e \in Entry, e.size = 0
    PROVE  OnBlocks(e)
<1>1. AllocatedSize(e, e.count) \in Nat
  BY EntryFields, AllocatedSizeType
<1> QED
  BY <1>1 DEF OnBlocks

LEMMA WrittenIsOnBlocks ==
    ASSUME NEW e \in Entry, NEW pos \in Offsets, NEW end \in Offsets,
           pos # end, OnBlocks(e)
    PROVE  OnBlocks(Written(e, pos, end))
<1> DEFINE w == [e EXCEPT !.size = end]
<1>1. CASE end <= AllocatedSize(e, e.count) /\ end > e.size
  <2>1. Written(e, pos, end) = w
    BY <1>1 DEF Written
  <2>2. w.count = e.count /\ w.direct = e.direct /\ w.size = end
    BY DEF Entry
  <2>3. e.count \in Nat
    BY EntryFields
  <2> HIDE DEF w
  <2>4. w.count <= DirectExtents => AllocatedSize(w, w.count) = AllocatedSize(e, e.count)
    BY <2>2, <2>3, SameDirect
  <2> QED
    BY <1>1, <2>1, <2>2, <2>4 DEF OnBlocks
<1>2. CASE ~(end <= AllocatedSize(e, e.count) /\ end > e.size)
  <2>1. Written(e, pos, end) = e
    BY <1>2 DEF Written
  <2> QED
    BY <2>1
<1> QED
  BY <1>1, <1>2

LEMMA CopyKeeps ==
    ASSUME TypeInv, NEW f \in File, NEW e \in Entry,
           NEW pos \in Offsets, NEW end \in Offsets, pos # end,
           Copy(f, e, pos, end),
           OnBlocks(entry[f]) => OnBlocks(e)
    PROVE  CoverageKept
<1>1. CASE pos < end /\ WalksAstray(e, end - 1)
  BY <1>1, CoverageUntouched DEF Copy, Fail
<1>2. CASE ~(pos < end /\ WalksAstray(e, end - 1))
  BY <1>2, WrittenIsOnBlocks, OneSlotChanges DEF Copy
<1> QED
  BY <1>1, <1>2

LEMMA BeginAllocKeeps ==
    ASSUME TypeInv, NEW f \in File, NEW bytes, NEW next, NEW pos, NEW end,
           BeginAlloc(f, bytes, next, pos, end)
    PROVE  CoverageKept
<1> DEFINE d == WithList(bitmap, entry[f])
<1>1. entry[f] \in Entry
  BY TypeParts
<1>2. OnBlocks(entry[f]) => OnBlocks(d)
  BY <1>1, WithListSize, SameOnBlocks
<1>3. entry' = entry \/ entry' = [entry EXCEPT ![f] = d]
  BY DEF BeginAlloc
<1> HIDE DEF d
<1> QED
  BY <1>2, <1>3, CoverageUntouched, OneSlotChanges

\* A file that is given more extents and keeps its size.
LEMMA CountSetKeeps ==
    ASSUME NEW e \in Entry, NEW k \in 0 .. (CountModulus - 1), e.count <= k, OnBlocks(e)
    PROVE  OnBlocks([e EXCEPT !.count = k])
<1> DEFINE d == [e EXCEPT !.count = k]
<1>1. d.count = k /\ d.size = e.size /\ d.direct = e.direct
  BY DEF Entry
<1>2. e.count \in Nat /\ k \in Nat /\ e.size \in Nat
  BY EntryFields, CountIsNat
<1> HIDE DEF d
<1>3. ASSUME k <= DirectExtents
      PROVE  d.size <= AllocatedSize(d, d.count)
  <2>1. e.count <= DirectExtents
    BY <1>2, <1>3, Numbers
  <2>2. e.size <= AllocatedSize(e, e.count)
    BY <2>1 DEF OnBlocks
  <2>3. AllocatedSize(e, e.count) <= AllocatedSize(e, k)
    BY <1>2, SizeMonotone
  <2>4. AllocatedSize(d, k) = AllocatedSize(e, k)
    BY <1>1, <1>2, <1>3, SameDirect
  <2>5. AllocatedSize(e, e.count) \in Int /\ AllocatedSize(e, k) \in Int
    BY <1>2, AllocatedSizeType
  <2> QED
    BY <1>1, <1>2, <2>2, <2>3, <2>4, <2>5
<1>4. OnBlocks(d)
  BY <1>1, <1>3 DEF OnBlocks
<1> QED
  BY <1>4 DEF d

LEMMA AllocEndsKeep ==
    ASSUME TypeInv, Growing, AllocDone \/ AllocNoSpace
    PROVE  CoverageKept
<1> DEFINE f == call.file
           o == entry[f]
           k == call.k
           e == [o EXCEPT !.count = k]
           s == [e EXCEPT !.size = call.end]
<1>1. call.op = "alloc"
  BY DEF AllocDone, AllocNoSpace, Busy
<1>2. f \in File /\ o \in Entry /\ k \in 0 .. (CountModulus - 1) /\ k \in Nat
      /\ call.pos \in Offsets /\ call.end \in Offsets
  BY <1>1, TypeParts, CountIsNat DEF TypeInv, CallOK
<1>3. o.count <= k /\ call.next \in {"write", "grow"}
  BY <1>1 DEF Growing
<1>4. e \in Entry
  BY <1>2, CountSet
<1>5. OnBlocks(o) => OnBlocks(e)
  BY <1>2, <1>3, CountSetKeeps
<1>6. CASE AllocNoSpace
  <2>1. entry' = [entry EXCEPT ![f] = e]
    BY <1>6, TypeParts DEF AllocNoSpace
  <2> HIDE DEF e
  <2> QED
    BY <1>2, <1>5, <2>1, OneSlotChanges
<1>7. CASE AllocDone /\ call.next = "write"
  <2>1. Copy(f, e, call.pos, call.end)
    BY <1>7 DEF AllocDone
  <2>2. call.pos # call.end
    <3>1. call.pos < call.end /\ call.pos \in Nat
      BY <1>1, <1>2, <1>7, OffsetIsNat DEF Growing
    <3> QED
      BY <3>1
  <2> HIDE DEF e
  <2> QED
    BY <1>2, <1>4, <1>5, <2>1, <2>2, CopyKeeps
<1>8. CASE AllocDone /\ call.next = "grow"
  <2>1. entry' = [entry EXCEPT ![f] = s] /\ call.left <= 0
    BY <1>8 DEF AllocDone
  <2>2. e.count = k /\ e.direct = o.direct
    BY <1>2 DEF Entry
  <2>3. s.count = k /\ s.direct = o.direct /\ s.size = call.end
    <3> HIDE DEF e
    <3> QED
      BY <1>4, <2>2 DEF Entry
  <2>4. ASSUME OnBlocks(o), k <= DirectExtents
        PROVE  s.size <= AllocatedSize(s, k)
    <3> DEFINE a == AllocatedSize(o, k)
               b == AllocatedSize(o, o.count)
               l == call.left * BlockSize
    <3>1. AllocatedSize(s, k) = a
      <4> HIDE DEF s
      <4> QED
        BY <1>2, <2>3, <2>4, SameDirect
    <3>2. a + l >= b + (call.end - o.size)
      BY <1>1, <1>8, <2>4 DEF Growing, Asked
    <3>3. o.count \in Nat /\ o.size \in Int /\ call.end \in Int
      BY <1>2, EntryFields, OffsetIsNat
    <3>4. o.count <= DirectExtents
      <4> HIDE DEF o, k
      <4> QED
        BY <1>2, <1>3, <2>4, <3>3, Numbers
    <3>5. o.size <= b
      BY <2>4, <3>4 DEF OnBlocks
    <3>6. a \in Int /\ b \in Int
      BY <1>2, <3>3, AllocatedSizeType
    <3>7. l \in Int /\ l <= 0
      <4>1. l \in Int /\ l <= 0 * BlockSize
        BY <2>1, SizeGrows, TypeParts
      <4>2. 0 * BlockSize = 0
        BY Numbers
      <4> HIDE DEF l
      <4> QED
        BY <4>1, <4>2
    <3> HIDE DEF a, b, l, s
    <3>8. call.end <= a
      BY <3>2, <3>3, <3>5, <3>6, <3>7
    <3> QED
      BY <2>3, <3>1, <3>8
  <2> HIDE DEF s
  <2>5. OnBlocks(o) => OnBlocks(s)
    BY <2>3, <2>4 DEF OnBlocks
  <2> QED
    BY <1>2, <2>1, <2>5, OneSlotChanges
<1> QED
  BY <1>3, <1>6, <1>7, <1>8

LEMMA TakesKeep ==
    ASSUME TypeInv, Growing, TakeDirect \/ TakeIndirect
    PROVE  CoverageKept
<1> DEFINE f == call.file
<1>1. f \in File /\ entry[f] \in Entry
  BY TypeParts
<1>2. CASE TakeDirect
  <2>1. /\ call.op = "alloc" /\ call.k \in Nat
        /\ entry'[f].count = entry[f].count /\ entry'[f].size = entry[f].size
        /\ \A j \in DirectSlot : j # call.k => entry'[f].direct[j] = entry[f].direct[j]
        /\ \A g \in File : g # f => entry'[g] = entry[g]
    BY <1>2, TakeDirectParts
  <2>2. entry[f].count <= call.k /\ entry[f].count \in Nat
    BY <1>1, <2>1, EntryFields DEF Growing
  <2>3. \A j \in 0 .. (entry[f].count - 1) : j < DirectExtents =>
            j \in DirectSlot /\ j # call.k
    BY <2>1, <2>2, Numbers DEF DirectSlot
  <2>4. OnBlocks(entry[f]) => OnBlocks(entry'[f])
    BY <1>1, <2>1, <2>3, SameOnBlocks
  <2> QED
    BY <2>1, <2>4 DEF CoverageKept
<1>3. CASE TakeIndirect
  <2>1. /\ entry'[f].count = entry[f].count /\ entry'[f].size = entry[f].size
        /\ entry'[f].direct = entry[f].direct
        /\ \A g \in File : g # f => entry'[g] = entry[g]
    BY <1>3, TakeIndirectParts
  <2>2. OnBlocks(entry[f]) => OnBlocks(entry'[f])
    BY <1>1, <2>1, SameOnBlocks
  <2> QED
    BY <2>1, <2>2 DEF CoverageKept
<1> QED
  BY <1>2, <1>3

LEMMA NamesKeep ==
    ASSUME TypeInv,
           \/ Create \/ AllocDirBlock \/ FreeDirBlock
           \/ \E h \in Handles : Release(h) \/ UseDetached(h)
           \/ \E h \in Handles, f \in File : Open(h, f)
    PROVE  CoverageKept
<1>1. CASE Create
  <2>1. PICK g \in FreeFileEntry :
           entry' = [entry EXCEPT ![g].used = TRUE, ![g].size = 0]
    BY <1>1 DEF Create
  <2>2. g \in File /\ entry[g] \in Entry
    BY TypeParts DEF FreeFileEntry
  <2> DEFINE e == [entry[g] EXCEPT !.used = TRUE, !.size = 0]
  <2>3. entry' = [entry EXCEPT ![g] = e]
    BY <2>1, <2>2, TypeParts
  <2>4. e \in Entry /\ e.size = 0
    <3>1. 0 \in Offsets
      BY FileStoreAssumption
    <3> QED
      BY <2>2, <3>1 DEF Entry
  <2> HIDE DEF e
  <2> QED
    BY <2>2, <2>3, <2>4, EmptyIsOnBlocks, OneSlotChanges
<1>2. CASE AllocDirBlock \/ FreeDirBlock
  BY <1>2, CoverageUntouched DEF AllocDirBlock, FreeDirBlock
<1>3. ASSUME NEW h \in Handles, Release(h)
      PROVE  CoverageKept
  <2>1. CASE handle[h] \in File
    <3> DEFINE e == [entry[handle[h]] EXCEPT !.indirect = "null", !.more = NoList]
    <3>1. entry' = [entry EXCEPT ![handle[h]] = e]
      BY <1>3, <2>1, TypeParts DEF Release
    <3>2. entry[handle[h]] \in Entry
      BY <2>1, TypeParts
    <3>3. e.count = entry[handle[h]].count /\ e.size = entry[handle[h]].size
          /\ e.direct = entry[handle[h]].direct
      BY <3>2 DEF Entry
    <3> HIDE DEF e
    <3>4. OnBlocks(entry[handle[h]]) => OnBlocks(e)
      BY <3>2, <3>3, SameOnBlocks
    <3> QED
      BY <2>1, <3>1, <3>4, OneSlotChanges
  <2>2. CASE handle[h] \notin File
    BY <1>3, <2>2, CoverageUntouched DEF Release
  <2> QED
    BY <2>1, <2>2
<1>4. ASSUME NEW h \in Handles, UseDetached(h)
      PROVE  CoverageKept
  BY <1>4, CoverageUntouched DEF UseDetached, Fail
<1>5. CASE \E h \in Handles, f \in File : Open(h, f)
  BY <1>5, CoverageUntouched DEF Open
<1> QED
  BY <1>1, <1>2, <1>3, <1>4, <1>5

LEMMA EmptyingKeeps ==
    ASSUME TypeInv, NEW f \in File, Unlink(f) \/ TruncateToZero(f)
    PROVE  CoverageKept
<1>1. CASE \E kind : Fail(kind)
  BY <1>1, CoverageUntouched DEF Fail
<1>2. CASE entry' = [entry EXCEPT ![f] = FreeEntry]
  <2>1. OnBlocks(FreeEntry)
    BY FreeEntryIsEntry, EmptyIsOnBlocks DEF FreeEntry
  <2> QED
    BY <1>2, <2>1, OneSlotChanges
<1>3. CASE \E gone : entry' = [entry EXCEPT ![f] = Emptied(entry[f], gone)]
  <2>1. PICK gone : entry' = [entry EXCEPT ![f] = Emptied(entry[f], gone)]
    BY <1>3
  <2> DEFINE e == Emptied(entry[f], gone)
  <2>2. e \in Entry /\ e.size = 0
    <3>1. entry[f] \in Entry
      BY TypeParts
    <3>2. e \in Entry
      BY <3>1, EmptiedType
    <3>3. e.size = 0
      BY <3>1 DEF Emptied, Entry
    <3> QED
      BY <3>2, <3>3
  <2> HIDE DEF e
  <2>3. OnBlocks(e)
    BY <2>2, EmptyIsOnBlocks
  <2> QED
    BY <2>1, <2>3, OneSlotChanges DEF e
<1>4. Unlink(f) => \/ \E kind : Fail(kind)
                   \/ entry' = [entry EXCEPT ![f] = FreeEntry]
  BY DEF Unlink
<1>5. TruncateToZero(f) =>
        \/ \E kind : Fail(kind)
        \/ \E gone : entry' = [entry EXCEPT ![f] = Emptied(entry[f], gone)]
  BY TruncateToZeroCases
<1> QED
  BY <1>1, <1>2, <1>3, <1>4, <1>5

LEMMA ReadKeeps ==
    ASSUME TypeInv, NEW h \in Handles, NEW last \in Offsets, Read(h, last)
    PROVE  CoverageKept
<1> DEFINE e == entry[handle[h]]
           r == IF e.count >= DirectExtents THEN WithList(bitmap, e) ELSE e
<1>1. handle[h] \in File /\ e \in Entry
  BY TypeParts DEF Read
<1>2. r.count = e.count /\ r.size = e.size /\ r.direct = e.direct
  BY <1>1, WithListSize
<1>3. entry' = [entry EXCEPT ![handle[h]] = r]
  BY DEF Read
<1> HIDE DEF r
<1>4. OnBlocks(e) => OnBlocks(r)
  BY <1>1, <1>2, SameOnBlocks
<1> QED
  BY <1>1, <1>3, <1>4, OneSlotChanges

\* A write that has bytes.
LEMMA BeginWriteKeeps ==
    ASSUME TypeInv, NEW h \in Handles, NEW pos \in Offsets, NEW end \in Offsets,
           pos # end, BeginWrite(h, pos, end)
    PROVE  CoverageKept
<1> DEFINE f == handle[h]
<1>1. f \in File /\ entry[f] \in Entry
  BY TypeParts DEF BeginWrite
<1>2. CASE \E kind : Fail(kind)
  BY <1>2, CoverageUntouched DEF Fail
<1>3. CASE BeginAlloc(f, end - pos - Available(entry[f]), "write", pos, end)
  BY <1>1, <1>3, BeginAllocKeeps
<1>4. CASE Copy(f, entry[f], pos, end)
  BY <1>1, <1>4, CopyKeeps
<1> QED
  BY <1>2, <1>3, <1>4 DEF BeginWrite

\* Room that suffices modulo 2^64 suffices.
LEMMA ExtendKeeps ==
    ASSUME TypeInv, NEW f \in File, NEW end \in Offsets, Extend(f, end)
    PROVE  CoverageKept
<1> DEFINE e == entry[f]
           s == [e EXCEPT !.size = end]
<1>1. e \in Entry
  BY TypeParts
<1>2. CASE \E kind : Fail(kind)
  BY <1>2, CoverageUntouched DEF Fail
<1>3. CASE BeginAlloc(f, end - e.size, "grow", 0, end)
  BY <1>3, BeginAllocKeeps
<1>4. CASE /\ Available(e) >= end - e.size
           /\ entry' = [entry EXCEPT ![f].size = end]
  <2>1. entry' = [entry EXCEPT ![f] = s]
    BY <1>4, TypeParts
  <2>2. s.count = e.count /\ s.direct = e.direct /\ s.size = end
    BY <1>1 DEF Entry
  <2> DEFINE a == AllocatedSize(e, e.count)
  <2>3. a \in Nat /\ e.count \in Nat /\ e.size \in Nat /\ end \in Nat
    BY <1>1, EntryFields, OffsetIsNat, AllocatedSizeType
  <2>4. Available(e) = (a - e.size) % SizeModulus
    BY DEF Available
  <2> HIDE DEF a, s
  <2>5. ASSUME e.size <= a
        PROVE  end <= a
    <3>1. a - e.size \in Nat
      BY <2>3, <2>5
    <3>2. \A u \in Nat, m \in Nat \ {0} : u % m <= u /\ u % m \in Nat
      OBVIOUS
    <3>3. Available(e) <= a - e.size /\ Available(e) \in Nat
      BY <2>4, <3>1, <3>2, Numbers
    <3> QED
      BY <1>4, <2>3, <3>3
  <2>6. e.count <= DirectExtents => AllocatedSize(s, e.count) = a
    BY <2>2, <2>3, SameDirect DEF a
  <2>7. OnBlocks(e) => OnBlocks(s)
    BY <2>2, <2>5, <2>6 DEF OnBlocks, a
  <2> QED
    BY <2>1, <2>7, OneSlotChanges
<1> QED
  BY <1>2, <1>3, <1>4 DEF Extend

-----------------------------------------------------------------------------
LEMMA InitGrowing == Init => Growing
BY IdleIsCall DEF Init, Growing

LEMMA BeginWriteGrows ==
    ASSUME TypeInv, Growing, NEW h \in Handles, NEW pos \in Offsets,
           NEW end \in Offsets, BeginWrite(h, pos, end)
    PROVE  Growing'
<1> DEFINE f == handle[h]
           room == Available(entry[f])
<1>1. f \in File /\ entry[f] \in Entry /\ call.op # "alloc"
  BY TypeParts DEF BeginWrite, Ready
<1>2. CASE \E kind : Fail(kind)
  BY <1>2, GrowingKept DEF Fail
<1>3. CASE room < end - pos /\ BeginAlloc(f, end - pos - room, "write", pos, end)
  <2>1. room \in Nat /\ pos \in Nat /\ end \in Nat
    BY <1>1, AvailableType, OffsetIsNat
  <2>2. end - pos - room \in Nat /\ pos < end
    <3> HIDE DEF room
    <3> QED
      BY <1>3, <2>1
  <2> HIDE DEF room
  <2> QED
    BY <1>1, <1>3, <2>2, GrowingBegins
<1>4. CASE Copy(f, entry[f], pos, end)
  BY <1>1, <1>4, GrowingEnds, GrowingKept, IdleIsCall DEF Copy, Fail
<1> QED
  BY <1>2, <1>3, <1>4 DEF BeginWrite

LEMMA ExtendGrows ==
    ASSUME TypeInv, Growing, NEW f \in File, NEW end \in Offsets, Extend(f, end)
    PROVE  Growing'
<1>1. entry[f] \in Entry /\ call.op # "alloc" /\ end > entry[f].size
  BY TypeParts DEF Extend, Ready
<1>2. CASE UNCHANGED call
  BY <1>1, <1>2, GrowingKept
<1>3. CASE BeginAlloc(f, end - entry[f].size, "grow", 0, end)
  <2>1. end - entry[f].size \in Nat
    <3>1. end \in Nat /\ entry[f].size \in Nat
      BY <1>1, EntryFields, OffsetIsNat
    <3> QED
      BY <1>1, <3>1
  <2>2. 0 \in Offsets
    BY FileStoreAssumption
  <2> QED
    BY <1>3, <2>1, <2>2, GrowingBegins
<1> QED
  BY <1>2, <1>3 DEF Extend, Fail

LEMMA OthersGrow ==
    ASSUME TypeInv, Growing,
           \/ Create \/ AllocDirBlock \/ FreeDirBlock
           \/ \E h \in Handles : Release(h) \/ UseDetached(h)
           \/ \E f \in File : Unlink(f) \/ TruncateToZero(f)
           \/ \E h \in Handles, f \in File : Open(h, f)
           \/ \E h \in Handles, last \in Offsets : Read(h, last)
    PROVE  Growing'
<1>1. call.op # "alloc"
  BY DEF Create, AllocDirBlock, FreeDirBlock, Release, UseDetached, Unlink,
         TruncateToZero, Open, Read, Ready
<1>2. UNCHANGED call
  <2>1. ASSUME NEW f \in File, TruncateToZero(f)
        PROVE  UNCHANGED call
    BY <2>1, TruncateToZeroCases DEF Fail
  <2>2. ASSUME NEW f \in File, Unlink(f)
        PROVE  UNCHANGED call
    BY <2>2 DEF Unlink, Fail
  <2> QED
    BY <2>1, <2>2 DEF Create, AllocDirBlock, FreeDirBlock, Release, UseDetached, Open,
                      Read, Fail
<1> QED
  BY <1>1, <1>2, GrowingKept

LEMMA EndsGrow ==
    ASSUME TypeInv, Growing, AllocDone \/ AllocNoSpace
    PROVE  Growing'
<1>1. call'.op # "alloc" \/ UNCHANGED <<call, entry>>
  BY IdleIsCall DEF AllocDone, AllocNoSpace, Copy, Fail
<1> QED
  BY <1>1, GrowingEnds, GrowingKept

LEMMA ShrinkGrows ==
    ASSUME TypeInv, Growing,
           \/ ShrinkStep \/ ShrinkDone \/ ShrinkOffTable
           \/ \E f \in File, end \in Offsets : BeginShrink(f, end)
    PROVE  Growing'
<1>1. CASE ShrinkStep
  <2>1. call.op = "shrink" /\ call \in Call
    BY <1>1, TypeParts DEF ShrinkStep, Busy
  <2>2. call' = call \/ \E k, left : call' = [call EXCEPT !.k = k, !.left = left]
    BY <1>1 DEF ShrinkStep, Fail
  <2>3. call'.op = "shrink"
    BY <2>1, <2>2 DEF Call
  <2> QED
    BY <2>3, GrowingEnds
<1>2. CASE ShrinkDone
  BY <1>2, GrowingEnds, IdleIsCall DEF ShrinkDone
<1>3. CASE ShrinkOffTable
  BY <1>3, GrowingKept DEF ShrinkOffTable, Fail
<1>4. CASE \E f \in File, end \in Offsets : BeginShrink(f, end)
  BY <1>4, GrowingEnds, IdleIsCall DEF BeginShrink, Call
<1> QED
  BY <1>1, <1>2, <1>3, <1>4

LEMMA NextGrowing ==
    ASSUME TypeInv, Growing, [Next]_vars
    PROVE  Growing'
<1>1. CASE \/ Create \/ AllocDirBlock \/ FreeDirBlock
           \/ \E h \in Handles : Release(h) \/ UseDetached(h)
           \/ \E f \in File : Unlink(f) \/ TruncateToZero(f)
           \/ \E h \in Handles, f \in File : Open(h, f)
           \/ \E h \in Handles, last \in Offsets : Read(h, last)
  BY <1>1, OthersGrow
<1>2. ASSUME NEW h \in Handles, NEW pos \in Offsets, NEW end \in Offsets,
             BeginWrite(h, pos, end)
      PROVE  Growing'
  BY <1>2, BeginWriteGrows
<1>3. ASSUME NEW f \in File, NEW end \in Offsets, Extend(f, end) \/ BeginShrink(f, end)
      PROVE  Growing'
  BY <1>3, ExtendGrows, ShrinkGrows
<1>4. CASE Step
  BY <1>4, GrowingTakesDirect, GrowingTakesIndirect, EndsGrow, ShrinkGrows DEF Step
<1>5. CASE UNCHANGED vars
  BY <1>5, GrowingKept DEF vars
<1> QED
  BY <1>1, <1>2, <1>3, <1>4, <1>5 DEF Next

\* Every step but those of a partial truncation and a write of no bytes.
LEMMA NextKeeps ==
    ASSUME TypeInv, Growing, [Next]_vars, call.op # "shrink",
           ~\E h \in Handles, pos \in Offsets : BeginWrite(h, pos, pos)
    PROVE  CoverageKept
<1>1. CASE \/ Create \/ AllocDirBlock \/ FreeDirBlock
           \/ \E h \in Handles : Release(h) \/ UseDetached(h)
           \/ \E h \in Handles, f \in File : Open(h, f)
  BY <1>1, NamesKeep
<1>2. ASSUME NEW f \in File, Unlink(f) \/ TruncateToZero(f)
      PROVE  CoverageKept
  BY <1>2, EmptyingKeeps
<1>3. ASSUME NEW h \in Handles, NEW last \in Offsets, Read(h, last)
      PROVE  CoverageKept
  BY <1>3, ReadKeeps
<1>4. ASSUME NEW h \in Handles, NEW pos \in Offsets, NEW end \in Offsets,
             BeginWrite(h, pos, end)
      PROVE  CoverageKept
  <2>1. pos # end
    BY <1>4
  <2> QED
    BY <1>4, <2>1, BeginWriteKeeps
<1>5. ASSUME NEW f \in File, NEW end \in Offsets, Extend(f, end) \/ BeginShrink(f, end)
      PROVE  CoverageKept
  <2>1. CASE Extend(f, end)
    BY <2>1, ExtendKeeps
  <2>2. CASE BeginShrink(f, end)
    BY <2>2, CoverageUntouched DEF BeginShrink
  <2> QED
    BY <1>5, <2>1, <2>2
<1>6. CASE Step
  <2>1. ~(ShrinkStep \/ ShrinkDone \/ ShrinkOffTable)
    BY DEF ShrinkStep, ShrinkDone, ShrinkOffTable, Busy
  <2> QED
    BY <1>6, <2>1, TakesKeep, AllocEndsKeep DEF Step
<1>7. CASE UNCHANGED vars
  BY <1>7, CoverageUntouched DEF vars
<1> QED
  BY <1>1, <1>2, <1>3, <1>4, <1>5, <1>6, <1>7 DEF Next

\* In every history, also behind allocations that ran out of space, lists of
\* indirect extents and truncations: a file whose bytes all have blocks keeps
\* them on blocks, through every growing write and every portfs_extend, whatever
\* the extents they are given and wherever the arithmetic wraps; coverage goes
\* only with a partial truncation or a write of no bytes behind the end.
THEOREM GrowthKeepsCoverageAlways == Spec => GrowthKeepsCoverage
<1> DEFINE Kept ==
        \A f \in File :
          Covered(f) /\ ~Covered(f)' =>
              \/ call.op = "shrink"
              \/ \E h \in Handles, pos \in Offsets : BeginWrite(h, pos, pos)
<1>1. TypeInv /\ Growing /\ [Next]_vars => Kept
  BY NextKeeps, CoveredIsOnBlocks DEF CoverageKept
<1>2. Init => TypeInv /\ Growing
  BY InitTypeInv, InitGrowing
<1>3. TypeInv /\ Growing /\ [Next]_vars => (TypeInv /\ Growing)'
  BY NextTypeInv, NextGrowing
<1>4. GrowthKeepsCoverage <=> [][Kept]_vars
  BY DEF GrowthKeepsCoverage
<1> HIDE DEF Kept
<1> QED
  BY <1>1, <1>2, <1>3, <1>4, PTL DEF Spec
=============================================================================

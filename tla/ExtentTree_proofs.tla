------------------------- MODULE ExtentTree_proofs --------------------------
(***************************************************************************)
(* The free-extent scan is correct for every bitmap, every size of the     *)
(* storage file and every maximal extent length.                           *)
(***************************************************************************)
EXTENDS ExtentTree, Extents_proofs

\* Where the block before an uncounted position leaves the scan: at the start
\* of the data region, behind an allocated block, or behind the one free block
\* that ended a full piece.
Aligned(b) ==
    \/ b = DataStart
    \/ b - 1 \in bitmap
    \/ /\ PieceStart(bitmap, b - (MaxExtentLength + 1))
       /\ AllFree(bitmap, b - (MaxExtentLength + 1), b - 1)

\* The scan stands at block i; the `length` blocks before it are a piece in the
\* making and everything before that piece has been dealt with.
Position ==
    /\ DataStart <= i - length
    /\ AllFree(bitmap, i - length, i - 1)
    /\ length > 0 => PieceStart(bitmap, i - length)
    /\ length = 0 => Aligned(i)
    /\ \A e \in FreeExtents(bitmap) : e.start < i - length => e \in tree

InTreeOrBehindFull(b) ==
    \/ \E e \in tree : b \in BlocksOf(e)
    \/ \E e \in tree : /\ e.length = MaxExtentLength
                       /\ b = e.start + MaxExtentLength

\* The inductive invariant: the tree only ever holds reference extents, and
\* misses none of the part already scanned.
IInv ==
    /\ TypeOK
    /\ tree \subseteq FreeExtents(bitmap)
    /\ pc = "scan" =>
        /\ Position
        /\ \A b \in DataBlock \ bitmap :
               b < i - length => InTreeOrBehindFull(b)
    /\ pc = "done" =>
        /\ FreeExtents(bitmap) \subseteq tree
        /\ \A b \in DataBlock \ bitmap : InTreeOrBehindFull(b)

-----------------------------------------------------------------------------
LEMMA Constants ==
    /\ DataStart \in Nat /\ TotalBlocks \in Nat /\ MaxExtentLength \in Nat
    /\ DataStart > 0 /\ DataStart <= TotalBlocks /\ MaxExtentLength > 0
BY GeometryAssumption

\* A free block at an aligned position starts a piece.
LEMMA AlignedStartsPiece ==
    ASSUME NEW b \in DataBlock \ bitmap, Aligned(b)
    PROVE  PieceStart(bitmap, b)
<1> USE Constants
<1>0. b \in Int /\ AllFree(bitmap, b, b)
  BY DEF DataBlock, AllFree
<1>1. CASE b = DataStart \/ b - 1 \in bitmap
  <2>1. RunStart(bitmap, b)
    BY <1>1 DEF RunStart
  <2>2. b = b + 0 * (MaxExtentLength + 1) /\ 0 \in 0 .. TotalBlocks
    BY <1>0
  <2> QED
    BY <1>0, <2>1, <2>2 DEF PieceStart
<1>2. CASE /\ PieceStart(bitmap, b - (MaxExtentLength + 1))
           /\ AllFree(bitmap, b - (MaxExtentLength + 1), b - 1)
  <2> DEFINE M == MaxExtentLength + 1
             s == b - M
  <2>1. PICK a \in DataBlock, k \in 0 .. TotalBlocks :
          /\ s = a + k * M
          /\ RunStart(bitmap, a)
          /\ AllFree(bitmap, a, s)
    BY <1>2 DEF PieceStart
  <2>2. M \in Nat /\ M > 1 /\ a \in Nat /\ k \in Nat /\ a <= TotalBlocks - 1
        /\ DataStart <= a /\ b <= TotalBlocks - 1
    BY <1>0 DEF DataBlock
  <2>3. b = s + M
    BY <1>0, <2>2
  <2>4. AllFree(bitmap, s, b - 1)
    BY <1>2
  <2> HIDE DEF M, s
  <2>5. k * M \in Nat /\ (k + 1) * M = k * M + M /\ k <= k * M
    BY <2>2
  <2>6. b = a + (k + 1) * M
    BY <2>1, <2>2, <2>3, <2>5
  <2>7. k + 1 \in 0 .. TotalBlocks
    BY <2>1, <2>2, <2>3, <2>5
  <2>8. AllFree(bitmap, a, b)
    <3> SUFFICES ASSUME NEW c \in a .. b PROVE c \in DataBlock /\ c \notin bitmap
      BY DEF AllFree
    <3>1. c \in a .. s \/ c \in s .. (b - 1) \/ c = b
      BY <2>1, <2>2, <2>3, <2>5, <1>0
    <3> QED
      BY <3>1, <2>1, <2>4 DEF AllFree
  <2> QED
    BY <2>1, <2>6, <2>7, <2>8 DEF PieceStart, M
<1> QED
  BY <1>1, <1>2 DEF Aligned

\* The extent inserted at the end of a piece is a reference extent.
LEMMA InsertedIsReference ==
    ASSUME TypeOK, Position, length > 0,
           \/ i = TotalBlocks
           \/ i < TotalBlocks /\ ~CountsFree
    PROVE  [start |-> i - length, length |-> length] \in FreeExtents(bitmap)
<1> USE Constants
<1> DEFINE e == [start |-> i - length, length |-> length]
<1>1. i \in DataStart .. TotalBlocks /\ length \in 1 .. MaxExtentLength
  BY DEF TypeOK
<1>2. e \in FreeExtent
  BY <1>1 DEF FreeExtent, Position, DataBlock
<1>3. e.start + e.length = i /\ e.start = i - length
  BY <1>1
<1>4. PieceEnd(bitmap, e)
  BY <1>1, <1>3 DEF PieceEnd, CountsFree, IsAllocated
<1>5. AllFree(bitmap, e.start, e.start + e.length - 1)
  BY <1>1, <1>3 DEF Position
<1> QED
  BY <1>2, <1>3, <1>4, <1>5 DEF FreeExtents, Position

\* No reference extent but the inserted one starts in the piece or on the block
\* that ended it.
LEMMA NoOtherStart ==
    ASSUME TypeOK, Position, length > 0,
           \/ i = TotalBlocks
           \/ i < TotalBlocks /\ ~CountsFree,
           NEW o \in FreeExtents(bitmap),
           o.start >= i - length, o.start <= i
    PROVE  o = [start |-> i - length, length |-> length]
<1> USE Constants
<1> DEFINE e == [start |-> i - length, length |-> length]
<1>1. i \in DataStart .. TotalBlocks /\ length \in 1 .. MaxExtentLength
  BY DEF TypeOK
<1>2. /\ o \in FreeExtent /\ PieceStart(bitmap, o.start)
      /\ AllFree(bitmap, o.start, o.start + o.length - 1)
  BY DEF FreeExtents
<1>3. /\ o.start \in DataBlock /\ o.start \in Int
      /\ o.length \in 1 .. MaxExtentLength
  BY <1>2 DEF FreeExtent, DataBlock
<1>4. o.start \notin bitmap
  BY <1>2, <1>3 DEF AllFree
<1>5. e \in FreeExtents(bitmap)
  BY InsertedIsReference
<1>6. CASE o.start = i - length
  BY <1>5, <1>6, PieceLengthUnique
<1>7. CASE o.start > i - length
  <2>1. AllFree(bitmap, i - length, o.start)
    BY <1>1, <1>3, <1>4 DEF Position, AllFree
  <2>2. (i - length) + MaxExtentLength + 1 <= o.start
    <3>1. PieceStart(bitmap, i - length) /\ i - length < o.start
      BY <1>7, <1>1, <1>3 DEF Position
    <3> QED
      BY <2>1, <3>1, <1>2, PieceSpacing
  <2> QED
    BY <2>2, <1>1, <1>3
<1> QED
  BY <1>1, <1>3, <1>6, <1>7

-----------------------------------------------------------------------------
LEMMA InitInvariant == Init => IInv
<1> USE Constants
<1> SUFFICES ASSUME Init PROVE IInv
  OBVIOUS
<1>1. TypeOK
  BY DEF Init, TypeOK
<1>2. Position
  <2>1. AllFree(bitmap, i - length, i - 1) /\ Aligned(i) /\ length = 0
        /\ DataStart <= i - length
    BY DEF Init, AllFree, Aligned
  <2>2. \A e \in FreeExtents(bitmap) : ~(e.start < i - length)
    BY DEF Init, FreeExtents, FreeExtent, DataBlock
  <2> QED
    BY <2>1, <2>2 DEF Position
<1>3. \A b \in DataBlock : ~(b < i - length)
  BY DEF Init, DataBlock
<1> QED
  BY <1>1, <1>2, <1>3 DEF IInv, Init

LEMMA CountBlockInvariant == IInv /\ CountBlock => IInv'
<1> USE Constants
<1> SUFFICES ASSUME IInv, CountBlock PROVE IInv'
  OBVIOUS
<1>1. /\ i \in DataStart .. (TotalBlocks - 1) /\ i' = i + 1
      /\ length \in 0 .. (MaxExtentLength - 1) /\ length' = length + 1
      /\ UNCHANGED <<bitmap, tree, pc>> /\ pc = "scan"
  BY DEF IInv, TypeOK, CountBlock, CountsFree
<1>2. i \in DataBlock \ bitmap
  BY <1>1 DEF CountBlock, CountsFree, IsAllocated, DataBlock
<1>3. TypeOK'
  BY <1>1 DEF IInv, TypeOK
<1>4. i' - length' = i - length
  BY <1>1
<1>5. Position
  BY <1>1 DEF IInv
<1>6. PieceStart(bitmap, i - length)
  <2>1. CASE length = 0
    BY <2>1, <1>1, <1>2, <1>5, AlignedStartsPiece DEF Position
  <2>2. CASE length > 0
    BY <2>2, <1>5 DEF Position
  <2> QED
    BY <2>1, <2>2, <1>1
<1>7. AllFree(bitmap, i - length, i)
  BY <1>1, <1>2, <1>5 DEF Position, AllFree
<1>8. Position'
  BY <1>1, <1>4, <1>5, <1>6, <1>7 DEF Position
<1> QED
  BY <1>1, <1>3, <1>4, <1>8 DEF IInv, InTreeOrBehindFull

LEMMA EndOfRunInvariant == IInv /\ EndOfRun => IInv'
<1> USE Constants
<1> SUFFICES ASSUME IInv, EndOfRun PROVE IInv'
  OBVIOUS
<1> DEFINE e == [start |-> i - length, length |-> length]
<1>1. /\ i \in DataStart .. (TotalBlocks - 1) /\ i' = i + 1
      /\ length \in 1 .. MaxExtentLength /\ length' = 0
      /\ tree' = tree \cup {e}
      /\ UNCHANGED <<bitmap, pc>> /\ pc = "scan"
  BY DEF IInv, TypeOK, EndOfRun, Insert
<1>2. TypeOK /\ Position /\ ~CountsFree
  BY <1>1 DEF IInv, EndOfRun
<1>3. e \in FreeExtents(bitmap)
  BY <1>1, <1>2, InsertedIsReference
<1>4. tree' \subseteq FreeExtents(bitmap')
  BY <1>1, <1>3 DEF IInv
<1>5. TypeOK'
  <2>1. tree' \subseteq FreeExtent
    BY <1>1, <1>4 DEF FreeExtents
  <2> QED
    BY <2>1, <1>1, <1>2 DEF TypeOK
<1>6. i \in bitmap \/ length = MaxExtentLength
  BY <1>1, <1>2 DEF CountsFree, IsAllocated
<1>7. Aligned(i + 1)
  <2>1. CASE i \in bitmap
    BY <2>1, <1>1 DEF Aligned
  <2>2. CASE length = MaxExtentLength /\ i \notin bitmap
    <3>1. (i + 1) - (MaxExtentLength + 1) = i - length /\ (i + 1) - 1 = i
      BY <2>2, <1>1
    <3>2. AllFree(bitmap, i - length, i)
      BY <2>2, <1>1, <1>2 DEF Position, AllFree, DataBlock
    <3>3. PieceStart(bitmap, i - length)
      BY <1>1, <1>2 DEF Position
    <3> QED
      BY <3>1, <3>2, <3>3 DEF Aligned
  <2> QED
    BY <2>1, <2>2, <1>6
<1>8. \A o \in FreeExtents(bitmap) : o.start < i + 1 => o \in tree'
  <2> TAKE o \in FreeExtents(bitmap)
  <2>1. o.start \in Int
    BY DEF FreeExtents, FreeExtent, DataBlock
  <2>2. CASE o.start < i - length
    BY <2>2, <1>1, <1>2 DEF Position
  <2>3. CASE o.start >= i - length /\ o.start <= i
    BY <2>3, <1>1, <1>2, NoOtherStart
  <2> QED
    BY <2>1, <2>2, <2>3, <1>1
<1>9. Position'
  <2>1. i' - length' = i + 1 /\ i' = i + 1 /\ length' = 0
    BY <1>1
  <2>2. AllFree(bitmap', i' - length', i' - 1)
    BY <1>1 DEF AllFree
  <2>3. Aligned(i)'
    BY <1>7, <1>1 DEF Aligned
  <2> QED
    BY <2>1, <2>2, <2>3, <1>1, <1>8 DEF Position
<1>10. \A b \in DataBlock \ bitmap : b < i + 1 => InTreeOrBehindFull(b)'
  <2> TAKE b \in DataBlock \ bitmap
  <2>0. b \in Int /\ e \in tree' /\ e.length = length /\ e.start = i - length
    BY <1>1 DEF DataBlock
  <2>1. CASE b < i - length
    <3>1. InTreeOrBehindFull(b)
      BY <2>1, <1>1 DEF IInv
    <3> QED
      BY <3>1, <1>1 DEF InTreeOrBehindFull
  <2>2. CASE b >= i - length /\ b < i
    <3>1. b \in BlocksOf(e)
      BY <2>0, <2>2, <1>1 DEF BlocksOf
    <3> QED
      BY <2>0, <3>1 DEF InTreeOrBehindFull
  <2>3. CASE b = i
    <3>1. e.length = MaxExtentLength /\ b = e.start + MaxExtentLength
      BY <2>0, <2>3, <1>1, <1>6
    <3> QED
      BY <2>0, <3>1 DEF InTreeOrBehindFull
  <2> QED
    BY <2>0, <2>1, <2>2, <2>3, <1>1
<1> QED
  BY <1>1, <1>4, <1>5, <1>9, <1>10 DEF IInv

LEMMA SkipBlockInvariant == IInv /\ SkipBlock => IInv'
<1> USE Constants
<1> SUFFICES ASSUME IInv, SkipBlock PROVE IInv'
  OBVIOUS
<1>1. /\ i \in DataStart .. (TotalBlocks - 1) /\ i' = i + 1
      /\ length = 0 /\ UNCHANGED <<bitmap, length, tree, pc>> /\ pc = "scan"
      /\ TypeOK /\ Position
  BY DEF IInv, TypeOK, SkipBlock
<1>2. i \in bitmap
  BY <1>1 DEF SkipBlock, CountsFree, IsAllocated
<1>3. TypeOK'
  BY <1>1 DEF TypeOK
<1>4. \A o \in FreeExtents(bitmap) : o.start # i /\ o.start \in Int
  BY <1>2, FreeExtentsAreFree DEF FreeExtents, FreeExtent, AllFree, DataBlock
<1>5. Position'
  <2>1. AllFree(bitmap', i' - length', i' - 1)
    BY <1>1 DEF AllFree
  <2>2. Aligned(i)'
    BY <1>1, <1>2 DEF Aligned
  <2> QED
    BY <2>1, <2>2, <1>1, <1>4 DEF Position
<1>6. \A b \in DataBlock \ bitmap : b < i + 1 => b < i
  BY <1>1, <1>2 DEF DataBlock
<1> QED
  BY <1>1, <1>3, <1>5, <1>6 DEF IInv, InTreeOrBehindFull

LEMMA FinishInvariant == IInv /\ Finish => IInv'
<1> USE Constants
<1> SUFFICES ASSUME IInv, Finish PROVE IInv'
  OBVIOUS
<1> DEFINE e == [start |-> i - length, length |-> length]
<1>1. /\ i = TotalBlocks /\ length \in 0 .. MaxExtentLength
      /\ UNCHANGED <<bitmap, i, length>> /\ pc' = "done" /\ pc = "scan"
      /\ TypeOK /\ Position
  BY DEF IInv, TypeOK, Finish
<1>2. tree' = IF length > 0 THEN tree \cup {e} ELSE tree
  BY <1>1 DEF Finish, Insert
<1>3. length > 0 => e \in FreeExtents(bitmap)
  BY <1>1, InsertedIsReference
<1>4. tree' \subseteq FreeExtents(bitmap)
  BY <1>2, <1>3 DEF IInv
<1>5. TypeOK'
  <2>1. tree' \subseteq FreeExtent
    BY <1>4 DEF FreeExtents
  <2> QED
    BY <2>1, <1>1 DEF TypeOK
<1>6. FreeExtents(bitmap) \subseteq tree'
  <2> SUFFICES ASSUME NEW o \in FreeExtents(bitmap) PROVE o \in tree'
    OBVIOUS
  <2>1. o.start \in Int /\ o.start < TotalBlocks
    BY DEF FreeExtents, FreeExtent, DataBlock
  <2>2. CASE o.start < i - length
    BY <2>2, <1>1, <1>2 DEF Position
  <2>3. CASE o.start >= i - length
    <3>1. length > 0
      BY <2>1, <2>3, <1>1
    <3> QED
      BY <2>1, <2>3, <3>1, <1>1, <1>2, NoOtherStart
  <2> QED
    BY <2>1, <2>2, <2>3, <1>1
<1>7. \A b \in DataBlock \ bitmap : InTreeOrBehindFull(b)'
  <2> TAKE b \in DataBlock \ bitmap
  <2>1. b \in Int /\ b < TotalBlocks
    BY DEF DataBlock
  <2>2. CASE b < i - length
    <3>1. InTreeOrBehindFull(b)
      BY <2>2, <1>1 DEF IInv
    <3> QED
      BY <3>1, <1>2 DEF InTreeOrBehindFull
  <2>3. CASE b >= i - length
    <3>1. e \in tree' /\ b \in BlocksOf(e)
      BY <2>1, <2>3, <1>1, <1>2 DEF BlocksOf
    <3> QED
      BY <3>1 DEF InTreeOrBehindFull
  <2> QED
    BY <2>1, <2>2, <2>3, <1>1
<1> QED
  BY <1>1, <1>4, <1>5, <1>6, <1>7 DEF IInv

LEMMA NextInvariant == IInv /\ [Next]_vars => IInv'
<1> SUFFICES ASSUME IInv, [Next]_vars PROVE IInv'
  OBVIOUS
<1>1. CASE CountBlock
  BY <1>1, CountBlockInvariant
<1>2. CASE EndOfRun
  BY <1>2, EndOfRunInvariant
<1>3. CASE SkipBlock
  BY <1>3, SkipBlockInvariant
<1>4. CASE Finish
  BY <1>4, FinishInvariant
<1>5. CASE NoMemory
  BY <1>5 DEF NoMemory, IInv, TypeOK
<1>6. CASE UNCHANGED vars
  BY <1>6 DEF vars, IInv, TypeOK, Position, Aligned, InTreeOrBehindFull
<1> QED
  BY <1>1, <1>2, <1>3, <1>4, <1>5, <1>6 DEF Next

LEMMA Invariant == Spec => []IInv
<1> QED
  BY InitInvariant, NextInvariant, PTL DEF Spec

-----------------------------------------------------------------------------
\* The variables of the scan keep their types.
THEOREM ScanTypeOK == Spec => []TypeOK
<1>1. IInv => TypeOK
  BY DEF IInv
<1> QED
  BY <1>1, Invariant, PTL

\* Whatever the allocator finds in the tree, also after a failed insertion, is
\* free in the bitmap.
THEOREM ScanTreeIsFree == Spec => []TreeIsFree
<1>1. IInv => TreeIsFree
  BY FreeExtentsAreFree DEF IInv, TreeIsFree
<1> QED
  BY <1>1, Invariant, PTL

\* The tree never offers a block twice, nor two extents that touch.
THEOREM ScanExtentsApart == Spec => []ExtentsApart
<1>1. IInv => ExtentsApart
  BY FreeExtentsApart DEF IInv, ExtentsApart
<1> QED
  BY <1>1, Invariant, PTL

\* The blocks a finished scan leaves out are the ones behind a full extent.
THEOREM ScanMissesOnlyBehindFull == Spec => []MissesOnlyBehindFull
<1>1. IInv => MissesOnlyBehindFull
  BY DEF IInv, MissesOnlyBehindFull, InTreeOrBehindFull
<1> QED
  BY <1>1, Invariant, PTL

\* The loop computes FreeExtents, the definition FileStore allocates from.
THEOREM ScanIsFreeExtents == Spec => []TreeIsFreeExtents
<1>1. IInv => TreeIsFreeExtents
  BY DEF IInv, TreeIsFreeExtents
<1> QED
  BY <1>1, Invariant, PTL
=============================================================================

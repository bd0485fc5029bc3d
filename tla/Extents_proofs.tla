--------------------------- MODULE Extents_proofs ---------------------------
(***************************************************************************)
(* Facts about the reference definition of the free-extent tree, for every *)
(* bitmap, storage file size and maximal extent length.                    *)
(***************************************************************************)
EXTENDS Extents, TLAPS

\* Two multiples of a positive step differ by at least the step.
LEMMA MultiplesApart ==
    ASSUME NEW j \in Nat, NEW k \in Nat, NEW m \in Nat, j < k
    PROVE  j * m + m <= k * m
<1>1. PICK d \in Nat : k = j + 1 + d
  <2> k - j - 1 \in Nat /\ k = j + 1 + (k - j - 1)  OBVIOUS
  <2> QED  OBVIOUS
<1>2. k * m = j * m + m + d * m
  BY <1>1
<1>3. d * m \in Nat /\ j * m \in Nat
  OBVIOUS
<1> QED
  BY <1>2, <1>3

\* A run of free blocks has one start.
LEMMA RunStartUnique ==
    ASSUME NEW bm, NEW a, NEW b, NEW s \in Int,
           RunStart(bm, a), RunStart(bm, b),
           AllFree(bm, a, s), AllFree(bm, b, s), a <= s, b <= s
    PROVE  a = b
<1> a \in Int /\ b \in Int /\ DataStart \in Int /\ TotalBlocks \in Int
  BY GeometryAssumption DEF RunStart, DataBlock
<1>1. CASE a < b
  <2>1. b - 1 \in a .. s /\ b # DataStart
    BY <1>1 DEF RunStart, DataBlock, AllFree
  <2> QED
    BY <2>1 DEF RunStart, AllFree
<1>2. CASE b < a
  <2>1. a - 1 \in b .. s /\ a # DataStart
    BY <1>2 DEF RunStart, DataBlock, AllFree
  <2> QED
    BY <2>1 DEF RunStart, AllFree
<1> QED
  BY <1>1, <1>2

\* Two pieces that start in the same stretch of free blocks start more than a
\* maximal extent apart.
LEMMA PieceSpacing ==
    ASSUME NEW bm, NEW s, NEW t,
           PieceStart(bm, s), PieceStart(bm, t), AllFree(bm, s, t), s < t
    PROVE  s + MaxExtentLength + 1 <= t
<1> DataStart \in Nat /\ TotalBlocks \in Nat /\ MaxExtentLength \in Nat
  BY GeometryAssumption
<1> DEFINE M == MaxExtentLength + 1
<1>1. PICK a \in DataBlock, j \in 0 .. TotalBlocks :
        s = a + j * M /\ RunStart(bm, a) /\ AllFree(bm, a, s)
  BY DEF PieceStart
<1>2. PICK b \in DataBlock, k \in 0 .. TotalBlocks :
        t = b + k * M /\ RunStart(bm, b) /\ AllFree(bm, b, t)
  BY DEF PieceStart
<1>3. M \in Nat /\ a \in Int /\ b \in Int /\ j \in Nat /\ k \in Nat
  BY DEF DataBlock
<1> HIDE DEF M
<1>4. j * M \in Nat /\ k * M \in Nat
  BY <1>3
<1>5. s \in Int /\ t \in Int /\ a <= s /\ b <= t
  BY <1>1, <1>2, <1>3, <1>4
<1>6. AllFree(bm, a, t)
  BY <1>1, <1>3, <1>5 DEF AllFree
<1>7. a = b
  BY <1>1, <1>2, <1>3, <1>5, <1>6, RunStartUnique
<1>8. j < k
  <2>1. SUFFICES ASSUME k <= j PROVE FALSE
    BY <1>3
  <2>2. CASE k = j
    BY <2>2, <1>1, <1>2, <1>5, <1>7
  <2>3. CASE k < j
    <3>1. k * M + M <= j * M
      BY <2>3, <1>3, MultiplesApart
    <3> QED
      BY <3>1, <1>1, <1>2, <1>3, <1>4, <1>5, <1>7
  <2> QED
    BY <2>1, <2>2, <2>3, <1>3
<1>9. j * M + M <= k * M
  BY <1>3, <1>8, MultiplesApart
<1> QED
  BY <1>1, <1>2, <1>3, <1>4, <1>7, <1>9 DEF M

\* Extents of the tree hold only free data blocks.
LEMMA FreeExtentsAreFree ==
    ASSUME NEW bm, NEW e \in FreeExtents(bm)
    PROVE  /\ e \in FreeExtent
           /\ BlocksOf(e) \subseteq DataBlock \ bm
BY DEF FreeExtents, AllFree, BlocksOf

\* An extent is determined by its first block.
LEMMA PieceLengthUnique ==
    ASSUME NEW bm, NEW e \in FreeExtents(bm), NEW o \in FreeExtents(bm),
           e.start = o.start
    PROVE  e = o
<1>1. /\ e \in FreeExtent /\ PieceEnd(bm, e)
      /\ AllFree(bm, e.start, e.start + e.length - 1)
      /\ o \in FreeExtent /\ PieceEnd(bm, o)
      /\ AllFree(bm, o.start, o.start + o.length - 1)
  BY DEF FreeExtents
<1>2. /\ e.start \in Int /\ o.start \in Int
      /\ e.length \in 1 .. MaxExtentLength
      /\ o.length \in 1 .. MaxExtentLength
      /\ TotalBlocks \in Nat /\ MaxExtentLength \in Nat /\ DataStart \in Nat
  BY <1>1, GeometryAssumption DEF FreeExtent, DataBlock
<1>3. ~(e.length < o.length)
  BY <1>1, <1>2 DEF PieceEnd, AllFree, DataBlock
<1>4. ~(o.length < e.length)
  BY <1>1, <1>2 DEF PieceEnd, AllFree, DataBlock
<1>5. e.length = o.length
  BY <1>2, <1>3, <1>4
<1> QED
  BY <1>1, <1>5 DEF FreeExtent

\* At least one block lies between two extents.
LEMMA FreeExtentsApart ==
    ASSUME NEW bm, NEW e \in FreeExtents(bm), NEW o \in FreeExtents(bm),
           e # o
    PROVE  \/ e.start + e.length < o.start
           \/ o.start + o.length < e.start
<1>1. ASSUME NEW p \in FreeExtents(bm), NEW q \in FreeExtents(bm),
             p.start < q.start
      PROVE  p.start + p.length < q.start
  <2>1. /\ p \in FreeExtent /\ PieceEnd(bm, p) /\ PieceStart(bm, p.start)
        /\ AllFree(bm, p.start, p.start + p.length - 1)
        /\ q \in FreeExtent /\ PieceStart(bm, q.start)
        /\ AllFree(bm, q.start, q.start + q.length - 1)
    BY DEF FreeExtents
  <2>2. /\ p.start \in Int /\ q.start \in DataBlock /\ q.start \in Int
        /\ p.length \in 1 .. MaxExtentLength
        /\ q.length \in 1 .. MaxExtentLength
        /\ TotalBlocks \in Nat /\ MaxExtentLength \in Nat
        /\ DataStart \in Nat
    BY <2>1, GeometryAssumption DEF FreeExtent, DataBlock
  <2>3. q.start \notin bm
    BY <2>1, <2>2 DEF AllFree
  <2>4. SUFFICES ASSUME q.start <= p.start + p.length PROVE FALSE
    BY <2>2
  <2>5. AllFree(bm, p.start, q.start)
    BY <2>1, <2>2, <2>3, <2>4 DEF AllFree
  <2>6. p.start + MaxExtentLength + 1 <= q.start
    BY <1>1, <2>1, <2>5, PieceSpacing
  <2> QED
    BY <2>2, <2>4, <2>6
<1>2. e.start # o.start
  BY PieceLengthUnique
<1>3. e.start \in Int /\ o.start \in Int
  BY GeometryAssumption DEF FreeExtents, FreeExtent, DataBlock
<1>4. e.start < o.start \/ o.start < e.start
  BY <1>2, <1>3
<1> QED
  BY <1>1, <1>4

\* No block is in two extents of the tree.
LEMMA FreeExtentsDisjoint ==
    ASSUME NEW bm, NEW e \in FreeExtents(bm), NEW o \in FreeExtents(bm),
           e # o
    PROVE  BlocksOf(e) \cap BlocksOf(o) = {}
<1>1. /\ e.start \in Int /\ o.start \in Int
      /\ e.length \in Int /\ o.length \in Int
  BY GeometryAssumption DEF FreeExtents, FreeExtent, DataBlock
<1> QED
  BY <1>1, FreeExtentsApart DEF BlocksOf

\* The walk order of the tree is a strict total order on extents, so rb_first
\* names exactly one of them and no extent is visited twice.
LEMMA BeforeIsStrictTotalOrder ==
    ASSUME NEW a \in FreeExtent, NEW b \in FreeExtent, NEW c \in FreeExtent
    PROVE  /\ ~Before(a, a)
           /\ Before(a, b) /\ Before(b, c) => Before(a, c)
           /\ a # b => (Before(a, b) <=> ~Before(b, a))
<1>1. /\ a.start \in Int /\ b.start \in Int /\ c.start \in Int
      /\ a.length \in Int /\ b.length \in Int /\ c.length \in Int
  BY GeometryAssumption DEF FreeExtent, DataBlock
<1>2. a # b => a.start # b.start \/ a.length # b.length
  BY DEF FreeExtent
<1> QED
  BY <1>1, <1>2 DEF Before
=============================================================================

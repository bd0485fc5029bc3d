---------------------------- MODULE FileIO_proofs ----------------------------
(***************************************************************************)
(* Proofs for FileIO: no two bytes of files are in one place, and every    *)
(* step of the calls is a step of the abstract files of FileContents or    *)
(* changes nothing that they show.                                         *)
(***************************************************************************)
EXTENDS FileIO, Extents_proofs, SequenceTheorems, FiniteSetTheorems,
        WellFoundedInduction, TLAPS

-----------------------------------------------------------------------------
(* Induction up to a number.  Finite sets are well-founded by inclusion: the *)
(* numbers up to the first that is left out have no last element.            *)

LEMMA FirstLeftOut ==
    ASSUME NEW n \in Nat, NEW S \in SUBSET (1 .. n), S # {}
    PROVE  \E x \in S : \A y \in S : x <= y
<1> DEFINE Upto(x) == {y \in S : y <= x}
           R == StrictSubsetOrdering(1 .. n)
           T == {Upto(x) : x \in S}
<1>1. IsWellFoundedOn(R, FiniteSubsetsOf(1 .. n))
  BY FS_StrictSubsetOrderingWellFounded
<1>2. T \subseteq FiniteSubsetsOf(1 .. n)
  <2>1. \A x \in S : Upto(x) \in SUBSET (1 .. n)
    OBVIOUS
  <2>2. \A x \in S : IsFiniteSet(Upto(x))
    BY <2>1, FS_Interval, FS_Subset
  <2> QED
    BY <2>1, <2>2 DEF FiniteSubsetsOf
<1>3. T # {}
  OBVIOUS
<1> HIDE DEF R, T
<1>4. PICK A \in T : \A B \in T : <<B, A>> \notin R
  BY <1>1, <1>2, <1>3, WFMin
<1>5. PICK x \in S : A = Upto(x)
  BY <1>4 DEF T
<1>6. ASSUME NEW y \in S, y < x
      PROVE  FALSE
  <2>1. x \in Int /\ y \in Int /\ S \subseteq Int
    OBVIOUS
  <2>2. Upto(y) \subseteq Upto(x) /\ x \in Upto(x) /\ x \notin Upto(y)
    <3>1. \A z \in S : z <= y => z <= x
      BY <1>6, <2>1
    <3>2. x <= x /\ ~(x <= y)
      BY <1>6, <2>1
    <3> QED
      BY <3>1, <3>2
  <2>3. Upto(y) \in T
    BY DEF T
  <2>4. Upto(y) \in SUBSET (1 .. n) /\ Upto(x) \in SUBSET (1 .. n)
    OBVIOUS
  <2>5. <<Upto(y), A>> \in R
    BY <2>2, <2>4, <1>5 DEF R, StrictSubsetOrdering
  <2> QED
    BY <2>3, <2>5, <1>4
<1> QED
  BY <1>6

LEMMA Induction ==
    ASSUME NEW n \in Nat, NEW S, 0 \in S,
           \A i \in 0 .. n : i < n /\ i \in S => i + 1 \in S
    PROVE  \A i \in 0 .. n : i \in S
<1> DEFINE T == {i \in 1 .. n : i \notin S}
<1>1. CASE T = {}
  BY <1>1
<1>2. CASE T # {}
  <2>1. PICK x \in T : \A y \in T : x <= y
    BY <1>2, FirstLeftOut
  <2>2. x \in 1 .. n /\ x \notin S
    BY <2>1
  <2>3. x - 1 \in S
    <3>1. CASE x = 1
      BY <3>1
    <3>2. CASE x # 1
      <4>1. x - 1 \in 1 .. n /\ ~(x <= x - 1)
        BY <2>2, <3>2
      <4> QED
        BY <2>1, <4>1
    <3> QED
      BY <3>1, <3>2
  <2>4. x - 1 \in 0 .. n /\ x - 1 < n /\ (x - 1) + 1 = x
    BY <2>2
  <2>5. (x - 1) + 1 \in S
    BY <2>3, <2>4
  <2> QED
    BY <2>2, <2>4, <2>5
<1> QED
  BY <1>1, <1>2

-----------------------------------------------------------------------------
(* Numbers.                                                                *)

LEMMA Products ==
    ASSUME NEW a \in Nat, NEW b \in Nat, NEW c \in Nat
    PROVE  /\ a * c \in Nat
           /\ (a + b) * c = a * c + b * c
           /\ a <= b => a * c <= b * c
           /\ a >= 1 => a * c >= c
<1>1. a * c \in Nat /\ (a + b) * c = a * c + b * c
  OBVIOUS
<1>2. ASSUME a <= b PROVE a * c <= b * c
  <2>1. PICK d \in Nat : b = a + d
    <3> b - a \in Nat /\ b = a + (b - a)
      BY <1>2
    <3> QED
      OBVIOUS
  <2>2. b * c = a * c + d * c /\ d * c \in Nat /\ a * c \in Nat
    BY <2>1
  <2> QED
    BY <2>2
<1>3. ASSUME a >= 1 PROVE a * c >= c
  <2>1. PICK d \in Nat : a = 1 + d
    <3> a - 1 \in Nat /\ a = 1 + (a - 1)
      BY <1>3
    <3> QED
      OBVIOUS
  <2>2. a * c = c + d * c /\ d * c \in Nat
    BY <2>1
  <2> QED
    BY <2>2
<1> QED
  BY <1>1, <1>2, <1>3

LEMMA Constants ==
    /\ BlockSize \in Nat \ {0}
    /\ DataStart \in Nat \ {0} /\ TotalBlocks \in Nat /\ DataStart <= TotalBlocks
    /\ MaxExtentLength \in Nat \ {0}
    /\ DataStart * BlockSize \in Nat /\ TotalBlocks * BlockSize \in Nat
    /\ DataStart * BlockSize <= TotalBlocks * BlockSize
    /\ TotalBlocks * BlockSize < Modulus
    /\ DataBlock \subseteq Nat
BY FileIOAssumption, GeometryAssumption, Products DEF DataBlock

LEMMA NoWrap ==
    ASSUME NEW a \in Nat, a <= TotalBlocks * BlockSize
    PROVE  a % Modulus = a
<1>1. a < Modulus /\ Modulus \in Nat \ {0}
  BY FileIOAssumption, Constants
<1> QED
  BY <1>1

-----------------------------------------------------------------------------
(* Where extents begin and end in a file.                                  *)

LEMMA ExtentType ==
    ASSUME NEW x \in FreeExtent
    PROVE  x.start \in Nat /\ x.length \in Nat /\ x.length >= 1
<1>1. x.start \in DataBlock /\ x.length \in 1 .. MaxExtentLength
  BY DEF FreeExtent
<1>2. DataBlock \subseteq Nat
  BY Constants
<1>3. x.length \in Nat /\ x.length >= 1
  BY <1>1, Constants
<1> QED
  BY <1>1, <1>2, <1>3

LEMMA ExtentParts ==
    ASSUME NEW xs \in Seq(FreeExtent), NEW k \in DOMAIN xs
    PROVE  /\ xs[k] \in FreeExtent
           /\ xs[k].start \in Nat /\ xs[k].length \in Nat /\ xs[k].length >= 1
           /\ Len(xs) \in Nat /\ DOMAIN xs = 1 .. Len(xs) /\ k \in Nat
<1>1. Len(xs) \in Nat /\ DOMAIN xs = 1 .. Len(xs) /\ xs[k] \in FreeExtent
  BY LenProperties, ElementOfSeq
<1>2. k \in Nat
  BY <1>1
<1> QED
  BY <1>1, <1>2, ExtentType

Lengths(xs) ==
    CHOOSE f : f = [i \in 0 .. Len(xs) |-> IF i = 0 THEN 0 ELSE f[i - 1] + xs[i].length]

\* The lengths of the first extents can be added up one after the other.
LEMMA LengthsAddUp ==
    ASSUME NEW xs, Len(xs) \in Nat
    PROVE  Lengths(xs) = [i \in 0 .. Len(xs) |->
                            IF i = 0 THEN 0 ELSE Lengths(xs)[i - 1] + xs[i].length]
<1> DEFINE S == {n \in Nat : \E f : f = [i \in 0 .. n |->
                    IF i = 0 THEN 0 ELSE f[i - 1] + xs[i].length]}
<1>1. 0 \in S
  <2> DEFINE f == [i \in 0 .. 0 |-> 0]
  <2>1. \A i \in 0 .. 0 : i = 0
    OBVIOUS
  <2>2. f = [i \in 0 .. 0 |-> IF i = 0 THEN 0 ELSE f[i - 1] + xs[i].length]
    BY <2>1
  <2> QED
    BY <2>2
<1>2. ASSUME NEW n \in Nat, n \in S
      PROVE  n + 1 \in S
  <2>1. PICK f : f = [i \in 0 .. n |-> IF i = 0 THEN 0 ELSE f[i - 1] + xs[i].length]
    BY <1>2
  <2> DEFINE g == [i \in 0 .. (n + 1) |-> IF i <= n THEN f[i] ELSE f[n] + xs[n + 1].length]
  <2>2. /\ \A i \in 0 .. n : g[i] = f[i]
        /\ g[n + 1] = f[n] + xs[n + 1].length
        /\ g = [i \in 0 .. (n + 1) |-> g[i]]
    OBVIOUS
  <2> HIDE DEF g
  <2>3. \A i \in 0 .. n : f[i] = IF i = 0 THEN 0 ELSE f[i - 1] + xs[i].length
    BY <2>1
  <2>4. ASSUME NEW i \in 0 .. (n + 1)
        PROVE  g[i] = IF i = 0 THEN 0 ELSE g[i - 1] + xs[i].length
    <3>1. CASE i \in 0 .. n
      <4>1. i = 0 \/ i - 1 \in 0 .. n
        BY <3>1
      <4> QED
        BY <2>2, <2>3, <3>1, <4>1
    <3>2. CASE i = n + 1
      <4>1. i # 0 /\ i - 1 = n /\ n \in 0 .. n
        BY <3>2
      <4> QED
        BY <2>2, <3>2, <4>1
    <3> QED
      BY <3>1, <3>2
  <2>5. g = [i \in 0 .. (n + 1) |-> IF i = 0 THEN 0 ELSE g[i - 1] + xs[i].length]
    BY <2>2, <2>4
  <2> QED
    BY <2>5
<1>3. Len(xs) \in S
  <2>1. \A i \in 0 .. Len(xs) : i < Len(xs) /\ i \in S => i + 1 \in S
    BY <1>2
  <2>2. Len(xs) \in 0 .. Len(xs)
    OBVIOUS
  <2> HIDE DEF S
  <2> QED
    BY <1>1, <2>1, <2>2, Induction
<1> QED
  BY <1>3 DEF Lengths

LEMMA Sums ==
    ASSUME NEW xs \in Seq(FreeExtent)
    PROVE  /\ Behind(xs, 1) = 0
           /\ \A k \in 1 .. (Len(xs) + 1) : Behind(xs, k) \in Nat
           /\ \A k \in 1 .. Len(xs) :
                Behind(xs, k + 1) = Behind(xs, k) + xs[k].length * BlockSize
<1> DEFINE f == Lengths(xs)
<1>0. Len(xs) \in Nat /\ DOMAIN xs = 1 .. Len(xs) /\ BlockSize \in Nat
  BY LenProperties, Constants
<1>1. \A k : Behind(xs, k) = f[k - 1] * BlockSize
  BY DEF Behind, Lengths
<1>2. \A i \in 0 .. Len(xs) : f[i] = IF i = 0 THEN 0 ELSE f[i - 1] + xs[i].length
  BY <1>0, LengthsAddUp
<1> HIDE DEF f
<1>3. \A i \in 0 .. Len(xs) : f[i] \in Nat
  <2> DEFINE S == {i \in 0 .. Len(xs) : f[i] \in Nat}
  <2>1. 0 \in S
    BY <1>0, <1>2
  <2>2. ASSUME NEW i \in 0 .. Len(xs), i < Len(xs), i \in S
        PROVE  i + 1 \in S
    <3>1. i + 1 \in 1 .. Len(xs) /\ i + 1 \in 0 .. Len(xs) /\ i + 1 # 0 /\ (i + 1) - 1 = i
      BY <1>0, <2>2
    <3>2. f[i + 1] = f[i] + xs[i + 1].length
      BY <1>2, <3>1
    <3>3. xs[i + 1].length \in Nat
      BY <1>0, <3>1, ExtentParts
    <3> QED
      BY <2>2, <3>1, <3>2, <3>3
  <2> HIDE DEF S
  <2>3. \A i \in 0 .. Len(xs) : i \in S
    BY <1>0, <2>1, <2>2, Induction
  <2> QED
    BY <2>3 DEF S
<1>4. Behind(xs, 1) = 0
  <2>1. f[0] = 0
    BY <1>0, <1>2
  <2>2. Behind(xs, 1) = f[1 - 1] * BlockSize
    BY <1>1
  <2> QED
    BY <1>0, <2>1, <2>2
<1>5. ASSUME NEW k \in 1 .. (Len(xs) + 1)
      PROVE  Behind(xs, k) \in Nat
  <2>1. k - 1 \in 0 .. Len(xs)
    BY <1>0
  <2> QED
    BY <1>0, <1>1, <1>3, <2>1, Products
<1>6. ASSUME NEW k \in 1 .. Len(xs)
      PROVE  Behind(xs, k + 1) = Behind(xs, k) + xs[k].length * BlockSize
  <2>1. k \in 0 .. Len(xs) /\ k - 1 \in 0 .. Len(xs) /\ k # 0 /\ (k + 1) - 1 = k
    BY <1>0
  <2>2. f[k] = f[k - 1] + xs[k].length /\ f[k - 1] \in Nat /\ xs[k].length \in Nat
    BY <1>0, <1>2, <1>3, <2>1, ExtentParts
  <2>3. Behind(xs, k + 1) = f[k] * BlockSize /\ Behind(xs, k) = f[k - 1] * BlockSize
    BY <1>1, <2>1
  <2> QED
    BY <1>0, <2>2, <2>3, Products
<1> QED
  BY <1>4, <1>5, <1>6

\* Extents follow one another without a gap.
LEMMA Rising ==
    ASSUME NEW xs \in Seq(FreeExtent), NEW j \in 1 .. (Len(xs) + 1),
           NEW k \in 1 .. (Len(xs) + 1), j <= k
    PROVE  Behind(xs, j) <= Behind(xs, k)
<1> DEFINE S == {i \in Nat : j + i <= Len(xs) + 1 => Behind(xs, j) <= Behind(xs, j + i)}
<1>0. Len(xs) \in Nat /\ j \in Nat /\ k \in Nat /\ BlockSize \in Nat
  BY LenProperties, Constants
<1>1. 0 \in S
  <2>1. j + 0 = j /\ Behind(xs, j) \in Nat
    BY <1>0, Sums
  <2> QED
    BY <2>1
<1>2. ASSUME NEW i \in Nat, i \in S
      PROVE  i + 1 \in S
  <2> SUFFICES ASSUME j + (i + 1) <= Len(xs) + 1
               PROVE  Behind(xs, j) <= Behind(xs, j + (i + 1))
    OBVIOUS
  <2>1. /\ j + i \in 1 .. Len(xs) /\ j + i \in 1 .. (Len(xs) + 1)
        /\ j + (i + 1) = (j + i) + 1 /\ j + (i + 1) \in 1 .. (Len(xs) + 1)
    BY <1>0
  <2>2. Behind(xs, (j + i) + 1) = Behind(xs, j + i) + xs[j + i].length * BlockSize
    BY <2>1, Sums
  <2>3. /\ xs[j + i].length * BlockSize \in Nat
        /\ Behind(xs, j) \in Nat /\ Behind(xs, j + i) \in Nat
    BY <1>0, <2>1, Sums, ExtentParts, LenProperties, Products
  <2>4. Behind(xs, j) <= Behind(xs, j + i)
    BY <1>0, <1>2, <2>1
  <2> QED
    BY <2>1, <2>2, <2>3, <2>4
<1>3. k - j \in 0 .. (k - j) /\ k - j \in Nat /\ j + (k - j) = k
  BY <1>0
<1>4. k - j \in S
  <2>1. \A i \in 0 .. (k - j) : i < k - j /\ i \in S => i + 1 \in S
    BY <1>2, <1>3
  <2> HIDE DEF S
  <2> QED
    BY <1>1, <1>3, <2>1, Induction
<1> QED
  BY <1>0, <1>3, <1>4

\* The extent that holds an offset, and its first byte in the file.
LEMMA HoldingOne ==
    ASSUME NEW xs \in Seq(FreeExtent), NEW o \in Nat
    PROVE  /\ o >= AllocatedSize(xs) => Holding(xs, o) = {}
           /\ o < AllocatedSize(xs) => \E k \in DOMAIN xs : Holding(xs, o) = {k}
<1>0. Len(xs) \in Nat /\ DOMAIN xs = 1 .. Len(xs)
      /\ \A k \in 1 .. (Len(xs) + 1) : Behind(xs, k) \in Nat
  BY LenProperties, Sums
<1>1. ASSUME NEW j \in Holding(xs, o), NEW k \in Holding(xs, o), j < k
      PROVE  FALSE
  <2>1. j \in 1 .. Len(xs) /\ k \in 1 .. Len(xs) /\ o < Behind(xs, j + 1) /\ Behind(xs, k) <= o
    BY <1>0 DEF Holding
  <2>2. j + 1 \in 1 .. (Len(xs) + 1) /\ k \in 1 .. (Len(xs) + 1) /\ j + 1 <= k
    BY <1>0, <1>1, <2>1
  <2>3. Behind(xs, j + 1) <= Behind(xs, k)
    BY <2>2, Rising
  <2> QED
    BY <1>0, <2>1, <2>2, <2>3
<1>2. ASSUME o >= AllocatedSize(xs), NEW k \in Holding(xs, o)
      PROVE  FALSE
  <2>1. k \in 1 .. Len(xs) /\ o < Behind(xs, k + 1)
    BY <1>0 DEF Holding
  <2>2. k + 1 \in 1 .. (Len(xs) + 1) /\ Len(xs) + 1 \in 1 .. (Len(xs) + 1) /\ k + 1 <= Len(xs) + 1
    BY <1>0, <2>1
  <2>3. Behind(xs, k + 1) <= Behind(xs, Len(xs) + 1)
    BY <2>2, Rising
  <2> QED
    BY <1>0, <1>2, <2>1, <2>2, <2>3 DEF AllocatedSize
<1>3. ASSUME o < AllocatedSize(xs), Holding(xs, o) = {}
      PROVE  FALSE
  <2> DEFINE S == {i \in 0 .. Len(xs) : Behind(xs, i + 1) <= o}
  <2>1. 0 \in S
    <3>1. Behind(xs, 0 + 1) = 0
      BY Sums
    <3> QED
      BY <1>0, <3>1
  <2>2. ASSUME NEW i \in 0 .. Len(xs), i < Len(xs), i \in S
        PROVE  i + 1 \in S
    <3>1. i + 1 \in 1 .. Len(xs) /\ i + 1 \in 0 .. Len(xs)
          /\ (i + 1) + 1 \in 1 .. (Len(xs) + 1)
      BY <1>0, <2>2
    <3>2. Behind(xs, i + 1) <= o /\ i + 1 \notin Holding(xs, o)
      BY <1>3, <2>2
    <3>3. ~(o < Behind(xs, (i + 1) + 1))
      BY <1>0, <3>1, <3>2 DEF Holding
    <3>4. Behind(xs, (i + 1) + 1) <= o
      BY <1>0, <3>1, <3>3
    <3> QED
      BY <3>1, <3>4
  <2> HIDE DEF S
  <2>3. Len(xs) \in S
    <3>1. Len(xs) \in 0 .. Len(xs)
      BY <1>0
    <3>2. \A i \in 0 .. Len(xs) : i \in S
      BY <1>0, <2>1, <2>2, Induction
    <3> QED
      BY <3>1, <3>2
  <2>4. Behind(xs, Len(xs) + 1) <= o /\ Len(xs) + 1 \in 1 .. (Len(xs) + 1)
    BY <1>0, <2>3 DEF S
  <2> QED
    BY <1>0, <1>3, <2>4 DEF AllocatedSize
<1>4. ASSUME NEW j \in Holding(xs, o), NEW k \in Holding(xs, o)
      PROVE  j = k
  <2>1. j \in Nat /\ k \in Nat
    BY <1>0 DEF Holding
  <2> QED
    BY <1>1, <2>1
<1>5. Holding(xs, o) \subseteq DOMAIN xs
  BY DEF Holding
<1> QED
  BY <1>2, <1>3, <1>4, <1>5

LEMMA AllocatedType ==
    ASSUME NEW xs \in Seq(FreeExtent)
    PROVE  AllocatedSize(xs) \in Nat
<1>1. Len(xs) + 1 \in 1 .. (Len(xs) + 1)
  BY LenProperties
<1> QED
  BY <1>1, Sums DEF AllocatedSize

\* Blocks of an extent, all inside the data area.
Inside(xs) == \A k \in DOMAIN xs : BlocksOf(xs[k]) \subseteq DataBlock

\* An extent inside the data area, byte by byte.
LEMMA BytesInside ==
    ASSUME NEW x \in FreeExtent, BlocksOf(x) \subseteq DataBlock,
           NEW i \in Nat, i < x.length * BlockSize
    PROVE  /\ (x.start * BlockSize) % Modulus = x.start * BlockSize
           /\ x.start * BlockSize + i \in Address
           /\ x.start * BlockSize >= DataStart * BlockSize
<1>1. /\ x.start \in Nat /\ x.length \in Nat /\ x.length >= 1
      /\ x.start + x.length - 1 \in BlocksOf(x) /\ x.start \in BlocksOf(x)
  <2>1. x.start \in DataBlock /\ x.length \in 1 .. MaxExtentLength
    BY DEF FreeExtent
  <2>2. x.start \in Nat /\ x.length \in Nat /\ x.length >= 1
    BY ExtentType
  <2> QED
    BY <2>2 DEF BlocksOf
<1>2. DataStart <= x.start /\ x.start + x.length <= TotalBlocks
  <2>1. x.start \in DataBlock /\ x.start + x.length - 1 \in DataBlock
    BY <1>1
  <2> QED
    BY <1>1, <2>1, Constants DEF DataBlock
<1>3. /\ DataStart * BlockSize <= x.start * BlockSize
      /\ x.start * BlockSize + x.length * BlockSize <= TotalBlocks * BlockSize
      /\ x.start * BlockSize \in Nat /\ x.length * BlockSize \in Nat
  <2>1. x.start + x.length \in Nat
    BY <1>1
  <2> QED
    BY <1>1, <1>2, <2>1, Products, Constants
<1>4. x.start * BlockSize <= TotalBlocks * BlockSize
  BY <1>3, Constants
<1>5. (x.start * BlockSize) % Modulus = x.start * BlockSize
  BY <1>3, <1>4, NoWrap
<1>6. x.start * BlockSize + i \in Address
  BY <1>3, Constants DEF Address
<1> QED
  BY <1>3, <1>5, <1>6

\* portfs_calc_global_offset and portfs_calc_available_bytes: the bytes from an
\* offset to the end of its extent are together on storage.
LEMMA Places ==
    ASSUME NEW xs \in Seq(FreeExtent), Inside(xs), NEW o \in Nat, o < AllocatedSize(xs)
    PROVE  \E k \in DOMAIN xs :
             /\ Holding(xs, o) = {k}
             /\ Behind(xs, k) \in Nat /\ Behind(xs, k) <= o /\ o < Behind(xs, k + 1)
             /\ Behind(xs, k + 1) = Behind(xs, k) + xs[k].length * BlockSize
             /\ GlobalOffset(xs, o) = xs[k].start * BlockSize + (o - Behind(xs, k))
             /\ AvailableBytes(xs, o) = Behind(xs, k + 1) - o
             /\ GlobalOffset(xs, o) \in Address
             /\ xs[k].length * BlockSize \in Nat /\ xs[k].start * BlockSize \in Nat
<1>0. Len(xs) \in Nat /\ DOMAIN xs = 1 .. Len(xs)
      /\ \A k \in 1 .. (Len(xs) + 1) : Behind(xs, k) \in Nat
  BY LenProperties, Sums
<1>1. PICK k \in DOMAIN xs : Holding(xs, o) = {k}
  BY HoldingOne
<1>2. (CHOOSE i \in Holding(xs, o) : TRUE) = k
  BY <1>1
<1>3. Behind(xs, k) <= o /\ o < Behind(xs, k + 1)
  BY <1>1 DEF Holding
<1>4. Behind(xs, k + 1) = Behind(xs, k) + xs[k].length * BlockSize /\ Behind(xs, k) \in Nat
  <2>1. k \in 1 .. Len(xs) /\ k \in 1 .. (Len(xs) + 1)
    BY <1>0
  <2> QED
    BY <1>0, <2>1, Sums
<1>5. xs[k] \in FreeExtent /\ BlocksOf(xs[k]) \subseteq DataBlock
  BY <1>0, ElementOfSeq DEF Inside
<1>6. xs[k].length * BlockSize \in Nat /\ xs[k].start * BlockSize \in Nat
  BY ExtentParts, Constants, Products
<1>7. o - Behind(xs, k) \in Nat /\ o - Behind(xs, k) < xs[k].length * BlockSize
  BY <1>3, <1>4, <1>6
<1>8. /\ GlobalOffset(xs, o) = ((xs[k].start * BlockSize) % Modulus) + (o - Behind(xs, k))
      /\ AvailableBytes(xs, o) = Behind(xs, k + 1) - o
  BY <1>1, <1>2 DEF GlobalOffset, AvailableBytes
<1>9. /\ (xs[k].start * BlockSize) % Modulus = xs[k].start * BlockSize
      /\ xs[k].start * BlockSize + (o - Behind(xs, k)) \in Address
  BY <1>5, <1>7, BytesInside
<1> QED
  BY <1>1, <1>3, <1>4, <1>6, <1>8, <1>9

\* No extent holds the offset.
LEMMA Nowhere ==
    ASSUME NEW xs \in Seq(FreeExtent), NEW o \in Nat, o >= AllocatedSize(xs)
    PROVE  GlobalOffset(xs, o) = EFAULT
BY HoldingOne DEF GlobalOffset

\* A further extent leaves the places of the bytes before it.
LEMMA SumAppend ==
    ASSUME NEW xs \in Seq(FreeExtent), NEW x \in FreeExtent
    PROVE  /\ Append(xs, x) \in Seq(FreeExtent)
           /\ \A k \in 1 .. (Len(xs) + 1) : Behind(Append(xs, x), k) = Behind(xs, k)
           /\ AllocatedSize(Append(xs, x)) = AllocatedSize(xs) + x.length * BlockSize
<1> DEFINE ys == Append(xs, x)
<1>0. /\ ys \in Seq(FreeExtent) /\ Len(xs) \in Nat /\ Len(ys) = Len(xs) + 1
      /\ \A i \in 1 .. Len(xs) : ys[i] = xs[i]
      /\ ys[Len(xs) + 1] = x
  BY AppendProperties, LenProperties
<1> HIDE DEF ys
<1>1. \A i \in 0 .. Len(xs) : Behind(ys, i + 1) = Behind(xs, i + 1)
  <2> DEFINE S == {i \in 0 .. Len(xs) : Behind(ys, i + 1) = Behind(xs, i + 1)}
  <2>1. 0 \in S
    <3>1. Behind(ys, 0 + 1) = 0 /\ Behind(xs, 0 + 1) = 0
      BY <1>0, Sums
    <3> QED
      BY <1>0, <3>1
  <2>2. ASSUME NEW i \in 0 .. Len(xs), i < Len(xs), i \in S
        PROVE  i + 1 \in S
    <3>1. i + 1 \in 1 .. Len(xs) /\ i + 1 \in 1 .. Len(ys) /\ i + 1 \in 0 .. Len(xs)
      BY <1>0, <2>2
    <3>2. /\ Behind(xs, (i + 1) + 1) = Behind(xs, i + 1) + xs[i + 1].length * BlockSize
          /\ Behind(ys, (i + 1) + 1) = Behind(ys, i + 1) + ys[i + 1].length * BlockSize
      BY <1>0, <3>1, Sums
    <3>3. Behind(ys, i + 1) = Behind(xs, i + 1) /\ ys[i + 1] = xs[i + 1]
      BY <1>0, <2>2, <3>1
    <3> QED
      BY <3>1, <3>2, <3>3
  <2> HIDE DEF S
  <2>3. \A i \in 0 .. Len(xs) : i \in S
    BY <1>0, <2>1, <2>2, Induction
  <2> QED
    BY <2>3 DEF S
<1>2. ASSUME NEW k \in 1 .. (Len(xs) + 1)
      PROVE  Behind(ys, k) = Behind(xs, k)
  <2>1. k - 1 \in 0 .. Len(xs) /\ (k - 1) + 1 = k
    BY <1>0
  <2> QED
    BY <1>1, <2>1
<1>3. AllocatedSize(ys) = AllocatedSize(xs) + x.length * BlockSize
  <2>1. Len(xs) + 1 \in 1 .. Len(ys) /\ Len(xs) + 1 \in 1 .. (Len(xs) + 1)
    BY <1>0
  <2>2. Behind(ys, (Len(xs) + 1) + 1) = Behind(ys, Len(xs) + 1) + x.length * BlockSize
    BY <1>0, <2>1, Sums
  <2>3. Behind(ys, Len(xs) + 1) = Behind(xs, Len(xs) + 1)
    BY <1>2, <2>1
  <2> QED
    BY <1>0, <2>2, <2>3 DEF AllocatedSize
<1> QED
  BY <1>0, <1>2, <1>3 DEF ys

LEMMA PlacesStay ==
    ASSUME NEW xs \in Seq(FreeExtent), NEW x \in FreeExtent,
           NEW o \in Nat, o < AllocatedSize(xs)
    PROVE  /\ o < AllocatedSize(Append(xs, x))
           /\ GlobalOffset(Append(xs, x), o) = GlobalOffset(xs, o)
<1> DEFINE ys == Append(xs, x)
<1>0. /\ ys \in Seq(FreeExtent) /\ Len(xs) \in Nat /\ Len(ys) = Len(xs) + 1
      /\ \A i \in 1 .. Len(xs) : ys[i] = xs[i]
      /\ DOMAIN xs = 1 .. Len(xs) /\ DOMAIN ys = 1 .. Len(ys)
  BY AppendProperties, LenProperties
<1>1. o < AllocatedSize(ys)
  <2>1. /\ AllocatedSize(ys) = AllocatedSize(xs) + x.length * BlockSize
        /\ AllocatedSize(xs) \in Nat
    BY SumAppend, AllocatedType
  <2>2. x.length * BlockSize \in Nat
    BY ExtentType, Constants, Products
  <2> QED
    BY <2>1, <2>2
<1>2. \A k \in 1 .. (Len(xs) + 1) : Behind(ys, k) = Behind(xs, k)
  BY SumAppend
<1> HIDE DEF ys
<1>3. PICK k \in DOMAIN xs : Holding(xs, o) = {k}
  BY HoldingOne
<1>4. PICK l \in DOMAIN ys : Holding(ys, o) = {l}
  BY <1>0, <1>1, HoldingOne
<1>5. k \in Holding(ys, o)
  <2>1. k \in 1 .. (Len(xs) + 1) /\ k + 1 \in 1 .. (Len(xs) + 1) /\ k \in DOMAIN ys
    BY <1>0
  <2>2. Behind(xs, k) <= o /\ o < Behind(xs, k + 1)
    BY <1>3 DEF Holding
  <2>3. Behind(ys, k) = Behind(xs, k) /\ Behind(ys, k + 1) = Behind(xs, k + 1)
    BY <1>2, <2>1
  <2> QED
    BY <2>1, <2>2, <2>3 DEF Holding
<1>6. Holding(ys, o) = {k}
  BY <1>4, <1>5
<1>7. /\ (CHOOSE i \in Holding(xs, o) : TRUE) = k
      /\ (CHOOSE i \in Holding(ys, o) : TRUE) = k
  BY <1>3, <1>6
<1>8. ys[k] = xs[k] /\ Behind(ys, k) = Behind(xs, k)
  BY <1>0, <1>2
<1>9. GlobalOffset(ys, o) = GlobalOffset(xs, o)
  BY <1>3, <1>6, <1>7, <1>8 DEF GlobalOffset
<1> QED
  BY <1>1, <1>9 DEF ys

\* The bytes that portfs_calc_available_bytes counts lie side by side.
LEMMA Onwards ==
    ASSUME NEW xs \in Seq(FreeExtent), Inside(xs), NEW o \in Nat, o < AllocatedSize(xs)
    PROVE  /\ AvailableBytes(xs, o) \in Nat /\ AvailableBytes(xs, o) >= 1
           /\ \A i \in Nat : i < AvailableBytes(xs, o) =>
                /\ o + i < AllocatedSize(xs)
                /\ GlobalOffset(xs, o + i) = GlobalOffset(xs, o) + i
<1>0. Len(xs) \in Nat /\ DOMAIN xs = 1 .. Len(xs) /\ AllocatedSize(xs) \in Nat
  BY LenProperties, AllocatedType
<1>1. PICK k \in DOMAIN xs :
             /\ Holding(xs, o) = {k}
             /\ Behind(xs, k) \in Nat /\ Behind(xs, k) <= o /\ o < Behind(xs, k + 1)
             /\ Behind(xs, k + 1) = Behind(xs, k) + xs[k].length * BlockSize
             /\ GlobalOffset(xs, o) = xs[k].start * BlockSize + (o - Behind(xs, k))
             /\ AvailableBytes(xs, o) = Behind(xs, k + 1) - o
             /\ xs[k].length * BlockSize \in Nat /\ xs[k].start * BlockSize \in Nat
  BY Places
<1>2. AvailableBytes(xs, o) \in Nat /\ AvailableBytes(xs, o) >= 1
  BY <1>1
<1>3. Behind(xs, k + 1) <= AllocatedSize(xs) /\ Behind(xs, k + 1) \in Nat
  <2>1. k + 1 \in 1 .. (Len(xs) + 1) /\ Len(xs) + 1 \in 1 .. (Len(xs) + 1) /\ k + 1 <= Len(xs) + 1
    BY <1>0
  <2> QED
    BY <1>1, <2>1, Rising DEF AllocatedSize
<1>4. ASSUME NEW i \in Nat, i < AvailableBytes(xs, o)
      PROVE  /\ o + i < AllocatedSize(xs)
             /\ GlobalOffset(xs, o + i) = GlobalOffset(xs, o) + i
  <2>1. /\ o + i \in Nat /\ o + i < AllocatedSize(xs)
        /\ Behind(xs, k) <= o + i /\ o + i < Behind(xs, k + 1)
    <3> DEFINE a == Behind(xs, k)
               b == Behind(xs, k + 1)
               c == AllocatedSize(xs)
    <3>1. /\ a \in Nat /\ b \in Nat /\ c \in Nat /\ a <= o /\ i < b - o /\ b <= c
      BY <1>0, <1>1, <1>3, <1>4
    <3> HIDE DEF a, b, c
    <3>2. o + i \in Nat /\ o + i < c /\ a <= o + i /\ o + i < b
      BY <3>1
    <3> QED
      BY <3>2 DEF a, b, c
  <2>2. k \in Holding(xs, o + i)
    BY <2>1 DEF Holding
  <2>3. PICK l \in DOMAIN xs :
             /\ Holding(xs, o + i) = {l}
             /\ Behind(xs, l) \in Nat /\ Behind(xs, l) <= o + i /\ o + i < Behind(xs, l + 1)
             /\ Behind(xs, l + 1) = Behind(xs, l) + xs[l].length * BlockSize
             /\ GlobalOffset(xs, o + i) = xs[l].start * BlockSize + ((o + i) - Behind(xs, l))
    BY <2>1, Places
  <2>4. l = k
    BY <2>2, <2>3
  <2>5. GlobalOffset(xs, o + i) = xs[k].start * BlockSize + (o + i - Behind(xs, k))
    BY <2>3, <2>4
  <2> QED
    BY <1>1, <2>1, <2>5
<1> QED
  BY <1>2, <1>4

LEMMA StartsBefore ==
    ASSUME NEW s \in Nat, NEW t \in Nat, NEW l \in Nat,
           s * BlockSize < t * BlockSize + l * BlockSize
    PROVE  s < t + l
<1>1. BlockSize \in Nat /\ t + l \in Nat
  BY Constants
<1>2. (t + l) * BlockSize = t * BlockSize + l * BlockSize
  BY <1>1, Products
<1>3. t + l <= s => (t + l) * BlockSize <= s * BlockSize
  BY <1>1, Products
<1>4. (t + l) * BlockSize \in Nat /\ s * BlockSize \in Nat
  BY <1>1, Products
<1>5. ~((t + l) * BlockSize <= s * BlockSize)
  BY <1>2, <1>4
<1> QED
  BY <1>1, <1>3, <1>5

LEMMA Overlap ==
    ASSUME NEW s \in Nat, NEW l \in Nat, NEW t \in Nat, NEW m \in Nat,
           l >= 1, m >= 1, s < t + m, t < s + l
    PROVE  (s .. (s + l - 1)) \cap (t .. (t + m - 1)) # {}
<1>1. CASE s <= t
  <2>1. t \in s .. (s + l - 1) /\ t \in t .. (t + m - 1)
    BY <1>1
  <2> QED
    BY <2>1
<1>2. CASE t <= s
  <2>1. s \in s .. (s + l - 1) /\ s \in t .. (t + m - 1)
    BY <1>2
  <2> QED
    BY <2>1
<1> QED
  BY <1>1, <1>2

LEMMA Between ==
    ASSUME NEW a \in Nat, NEW m \in Nat, NEW b \in Nat, NEW n \in Nat,
           NEW o \in Nat, NEW p \in Nat, NEW u \in Nat, NEW v \in Nat,
           a + (o - u) = b + (p - v), u <= o, o < u + m, v <= p, p < v + n
    PROVE  a < b + n /\ b < a + m
OBVIOUS

\* The extents of two bytes share a block.
Met(xs, o, ys, p) ==
    \E j \in DOMAIN xs, k \in DOMAIN ys :
        /\ Holding(xs, o) = {j} /\ Holding(ys, p) = {k}
        /\ BlocksOf(xs[j]) \cap BlocksOf(ys[k]) # {}
        /\ GlobalOffset(xs, o) = xs[j].start * BlockSize + (o - Behind(xs, j))
        /\ GlobalOffset(ys, p) = ys[k].start * BlockSize + (p - Behind(ys, k))
        /\ Behind(xs, j) \in Nat /\ Behind(ys, k) \in Nat
        /\ xs[j].start * BlockSize \in Nat /\ ys[k].start * BlockSize \in Nat

\* Bytes in one place are in extents that share a block.
LEMMA Meeting ==
    ASSUME NEW xs \in Seq(FreeExtent), Inside(xs), NEW o \in Nat, o < AllocatedSize(xs),
           NEW ys \in Seq(FreeExtent), Inside(ys), NEW p \in Nat, p < AllocatedSize(ys),
           GlobalOffset(xs, o) = GlobalOffset(ys, p)
    PROVE  Met(xs, o, ys, p)
<1>1. PICK j \in DOMAIN xs :
             /\ Holding(xs, o) = {j}
             /\ Behind(xs, j) \in Nat /\ Behind(xs, j) <= o /\ o < Behind(xs, j + 1)
             /\ Behind(xs, j + 1) = Behind(xs, j) + xs[j].length * BlockSize
             /\ GlobalOffset(xs, o) = xs[j].start * BlockSize + (o - Behind(xs, j))
             /\ xs[j].length * BlockSize \in Nat /\ xs[j].start * BlockSize \in Nat
  BY Places
<1>2. PICK k \in DOMAIN ys :
             /\ Holding(ys, p) = {k}
             /\ Behind(ys, k) \in Nat /\ Behind(ys, k) <= p /\ p < Behind(ys, k + 1)
             /\ Behind(ys, k + 1) = Behind(ys, k) + ys[k].length * BlockSize
             /\ GlobalOffset(ys, p) = ys[k].start * BlockSize + (p - Behind(ys, k))
             /\ ys[k].length * BlockSize \in Nat /\ ys[k].start * BlockSize \in Nat
  BY Places
<1>3. /\ xs[j].start \in Nat /\ xs[j].length \in Nat /\ xs[j].length >= 1
      /\ ys[k].start \in Nat /\ ys[k].length \in Nat /\ ys[k].length >= 1
  BY ExtentParts
<1> DEFINE a == xs[j].start * BlockSize
           m == xs[j].length * BlockSize
           b == ys[k].start * BlockSize
           n == ys[k].length * BlockSize
<1>4. a < b + n /\ b < a + m
  <2> DEFINE u == Behind(xs, j)
             v == Behind(ys, k)
  <2>1. /\ a \in Nat /\ m \in Nat /\ b \in Nat /\ n \in Nat
        /\ u \in Nat /\ u <= o /\ v \in Nat /\ v <= p
    BY <1>1, <1>2
  <2>2. a + (o - u) = b + (p - v)
    BY <1>1, <1>2
  <2>3. o < u + m /\ p < v + n
    BY <1>1, <1>2
  <2> HIDE DEF a, b, m, n, u, v
  <2> QED
    BY <2>1, <2>2, <2>3, Between
<1>5. /\ xs[j].start < ys[k].start + ys[k].length
      /\ ys[k].start < xs[j].start + xs[j].length
  BY <1>3, <1>4, StartsBefore
<1>6. BlocksOf(xs[j]) \cap BlocksOf(ys[k]) # {}
  BY <1>3, <1>5, Overlap DEF BlocksOf
<1> QED
  BY <1>1, <1>2, <1>6 DEF Met

\* Extents of one file, or of two, share no block.
Separate(e) ==
    \A f, g \in File : \A j \in DOMAIN e[f], k \in DOMAIN e[g] :
        f # g \/ j # k => BlocksOf(e[f][j]) \cap BlocksOf(e[g][k]) = {}

\* No two bytes of files are in one place.
LEMMA OnePlace ==
    ASSUME NEW e \in [File -> Seq(FreeExtent)], \A f \in File : Inside(e[f]), Separate(e),
           NEW f \in File, NEW o \in Nat, o < AllocatedSize(e[f]),
           NEW g \in File, NEW p \in Nat, p < AllocatedSize(e[g]),
           GlobalOffset(e[f], o) = GlobalOffset(e[g], p)
    PROVE  f = g /\ o = p
<1> DEFINE xs == e[f]
           ys == e[g]
<1>1. /\ xs \in Seq(FreeExtent) /\ ys \in Seq(FreeExtent) /\ Inside(xs) /\ Inside(ys)
      /\ o < AllocatedSize(xs) /\ p < AllocatedSize(ys)
      /\ GlobalOffset(xs, o) = GlobalOffset(ys, p)
  OBVIOUS
<1>2. \A j \in DOMAIN xs, k \in DOMAIN ys :
         f # g \/ j # k => BlocksOf(xs[j]) \cap BlocksOf(ys[k]) = {}
  BY DEF Separate
<1>3. f = g => xs = ys
  OBVIOUS
<1> HIDE DEF xs, ys
<1>4. PICK j \in DOMAIN xs, k \in DOMAIN ys :
              /\ Holding(xs, o) = {j} /\ Holding(ys, p) = {k}
              /\ BlocksOf(xs[j]) \cap BlocksOf(ys[k]) # {}
              /\ GlobalOffset(xs, o) = xs[j].start * BlockSize + (o - Behind(xs, j))
              /\ GlobalOffset(ys, p) = ys[k].start * BlockSize + (p - Behind(ys, k))
              /\ Behind(xs, j) \in Nat /\ Behind(ys, k) \in Nat
              /\ xs[j].start * BlockSize \in Nat /\ ys[k].start * BlockSize \in Nat
  <2>1. Met(xs, o, ys, p)
    BY <1>1, Meeting
  <2> QED
    BY <2>1 DEF Met
<1>5. f = g /\ j = k /\ xs = ys
  BY <1>2, <1>3, <1>4
<1> DEFINE a == xs[j].start * BlockSize
           c == Behind(xs, j)
<1>6. a \in Nat /\ c \in Nat /\ a + (o - c) = a + (p - c)
  BY <1>1, <1>4, <1>5
<1> HIDE DEF a, c
<1>7. o = p
  BY <1>6
<1> QED
  BY <1>5, <1>7

-----------------------------------------------------------------------------
(* The bytes of a file, one extent after the other.                        *)

Chunk(d, x) == [k \in 1 .. (x.length * BlockSize) |-> d[x.start * BlockSize + k - 1]]

JoinedOf(d, xs) ==
    CHOOSE f : f = [i \in 0 .. Len(xs) |-> IF i = 0 THEN <<>> ELSE f[i - 1] \o Chunk(d, xs[i])]

Joins(d, xs, f) ==
    f = [i \in 0 .. Len(xs) |-> IF i = 0 THEN <<>> ELSE f[i - 1] \o Chunk(d, xs[i])]

LEMMA ChunksJoin ==
    ASSUME NEW d, NEW xs, Len(xs) \in Nat
    PROVE  Joins(d, xs, JoinedOf(d, xs))
<1> DEFINE P(n, f) == f = [i \in 0 .. n |->
                          IF i = 0 THEN <<>> ELSE f[i - 1] \o Chunk(d, xs[i])]
           S == {n \in Nat : \E f : P(n, f)}
<1>1. 0 \in S
  <2> DEFINE f == [i \in 0 .. 0 |-> <<>>]
  <2>1. \A i \in 0 .. 0 : i = 0
    OBVIOUS
  <2>2. f = [i \in 0 .. 0 |-> IF i = 0 THEN <<>> ELSE f[i - 1] \o Chunk(d, xs[i])]
    BY <2>1
  <2> QED
    BY <2>2
<1>2. ASSUME NEW n \in Nat, n \in S
      PROVE  n + 1 \in S
  <2>1. PICK f : f = [i \in 0 .. n |-> IF i = 0 THEN <<>> ELSE f[i - 1] \o Chunk(d, xs[i])]
    BY <1>2
  <2> DEFINE g == [i \in 0 .. (n + 1) |-> IF i <= n THEN f[i] ELSE f[n] \o Chunk(d, xs[n + 1])]
  <2>2. /\ \A i \in 0 .. n : g[i] = f[i]
        /\ g[n + 1] = f[n] \o Chunk(d, xs[n + 1])
        /\ g = [i \in 0 .. (n + 1) |-> g[i]]
    OBVIOUS
  <2> HIDE DEF g
  <2>3. \A i \in 0 .. n : f[i] = IF i = 0 THEN <<>> ELSE f[i - 1] \o Chunk(d, xs[i])
    BY <2>1
  <2>4. ASSUME NEW i \in 0 .. (n + 1)
        PROVE  g[i] = IF i = 0 THEN <<>> ELSE g[i - 1] \o Chunk(d, xs[i])
    <3>1. CASE i \in 0 .. n
      <4>1. i = 0 \/ i - 1 \in 0 .. n
        BY <3>1
      <4> QED
        BY <2>2, <2>3, <3>1, <4>1
    <3>2. CASE i = n + 1
      <4>1. i # 0 /\ i - 1 = n /\ n \in 0 .. n
        BY <3>2
      <4> QED
        BY <2>2, <3>2, <4>1
    <3> QED
      BY <3>1, <3>2
  <2>5. g = [i \in 0 .. (n + 1) |-> IF i = 0 THEN <<>> ELSE g[i - 1] \o Chunk(d, xs[i])]
    BY <2>2, <2>4
  <2>6. n + 1 \in Nat /\ P(n + 1, g)
    BY <2>5
  <2> HIDE DEF P
  <2> QED
    BY <2>6
<1>3. Len(xs) \in S
  <2>1. \A i \in 0 .. Len(xs) : i < Len(xs) /\ i \in S => i + 1 \in S
    BY <1>2
  <2>2. Len(xs) \in 0 .. Len(xs)
    OBVIOUS
  <2> HIDE DEF S
  <2> QED
    BY <1>1, <2>1, <2>2, Induction
<1> QED
  BY <1>3 DEF JoinedOf, Joins

\* The bytes of an extent.
LEMMA ChunkType ==
    ASSUME NEW d \in [Address -> Byte], NEW x \in FreeExtent, BlocksOf(x) \subseteq DataBlock
    PROVE  /\ Chunk(d, x) \in Seq(Byte)
           /\ Len(Chunk(d, x)) = x.length * BlockSize
           /\ \A i \in Nat : i < x.length * BlockSize =>
                 Chunk(d, x)[i + 1] = d[x.start * BlockSize + i]
<1> DEFINE n == x.length * BlockSize
           a == x.start * BlockSize
<1>1. n \in Nat /\ a \in Nat
  BY ExtentType, Constants, Products
<1>2. \A i \in Nat : i < n => a + i \in Address
  BY BytesInside
<1>3. Chunk(d, x) = [k \in 1 .. n |-> d[a + k - 1]]
  BY DEF Chunk
<1> HIDE DEF n, a
<1>4. \A k \in 1 .. n : d[a + k - 1] \in Byte
  <2> TAKE k \in 1 .. n
  <2>1. k - 1 \in Nat /\ k - 1 < n /\ a + (k - 1) = a + k - 1
    BY <1>1
  <2>2. a + k - 1 \in Address
    BY <1>2, <2>1
  <2> QED
    BY <2>2
<1>5. Chunk(d, x) \in Seq(Byte) /\ Len(Chunk(d, x)) = n
  BY <1>1, <1>3, <1>4, SeqDef
<1>6. ASSUME NEW i \in Nat, i < n
      PROVE  Chunk(d, x)[i + 1] = d[a + i]
  <2>1. i + 1 \in 1 .. n /\ a + (i + 1) - 1 = a + i
    BY <1>1, <1>6
  <2> QED
    BY <1>3, <2>1
<1> QED
  BY <1>5, <1>6 DEF n, a

LEMMA PlaceIn ==
    ASSUME NEW xs \in Seq(FreeExtent), Inside(xs), NEW k \in 1 .. Len(xs), NEW o \in Nat,
           Behind(xs, k) <= o, o < Behind(xs, k + 1)
    PROVE  /\ o < AllocatedSize(xs)
           /\ GlobalOffset(xs, o) = xs[k].start * BlockSize + (o - Behind(xs, k))
<1>0. Len(xs) \in Nat /\ DOMAIN xs = 1 .. Len(xs) /\ AllocatedSize(xs) \in Nat
  BY LenProperties, AllocatedType
<1>1. Behind(xs, k + 1) <= AllocatedSize(xs) /\ Behind(xs, k + 1) \in Nat
  <2>1. k + 1 \in 1 .. (Len(xs) + 1) /\ Len(xs) + 1 \in 1 .. (Len(xs) + 1) /\ k + 1 <= Len(xs) + 1
    BY <1>0
  <2> QED
    BY <2>1, Rising, Sums DEF AllocatedSize
<1>2. o < AllocatedSize(xs)
  BY <1>0, <1>1
<1>3. k \in Holding(xs, o)
  BY <1>0 DEF Holding
<1>4. PICK l \in DOMAIN xs :
             /\ Holding(xs, o) = {l}
             /\ Behind(xs, l) \in Nat /\ Behind(xs, l) <= o /\ o < Behind(xs, l + 1)
             /\ Behind(xs, l + 1) = Behind(xs, l) + xs[l].length * BlockSize
             /\ GlobalOffset(xs, o) = xs[l].start * BlockSize + (o - Behind(xs, l))
  BY <1>2, Places
<1>5. l = k
  BY <1>3, <1>4
<1> QED
  BY <1>2, <1>4, <1>5

\* All bytes of a file in their order.
LEMMA JoinedBytes ==
    ASSUME NEW d \in [Address -> Byte], NEW xs \in Seq(FreeExtent), Inside(xs)
    PROVE  /\ JoinedOf(d, xs)[Len(xs)] \in Seq(Byte)
           /\ Len(JoinedOf(d, xs)[Len(xs)]) = AllocatedSize(xs)
           /\ \A o \in Nat : o < AllocatedSize(xs) =>
                 JoinedOf(d, xs)[Len(xs)][o + 1] = d[GlobalOffset(xs, o)]
<1> DEFINE J == JoinedOf(d, xs)
           Right(i) == /\ J[i] \in Seq(Byte)
                       /\ Len(J[i]) = Behind(xs, i + 1)
                       /\ \A o \in Nat : o < Behind(xs, i + 1) =>
                             J[i][o + 1] = d[GlobalOffset(xs, o)]
           S == {i \in 0 .. Len(xs) : Right(i)}
<1>0. Len(xs) \in Nat /\ DOMAIN xs = 1 .. Len(xs)
      /\ \A k \in 1 .. (Len(xs) + 1) : Behind(xs, k) \in Nat
  BY LenProperties, Sums
<1>1. \A i \in 0 .. Len(xs) : J[i] = IF i = 0 THEN <<>> ELSE J[i - 1] \o Chunk(d, xs[i])
  <2>1. Joins(d, xs, J)
    BY <1>0, ChunksJoin
  <2> HIDE DEF J
  <2> QED
    BY <2>1 DEF Joins
<1> HIDE DEF J
<1>2. 0 \in S
  <2>1. J[0] = <<>> /\ 0 \in 0 .. Len(xs)
    BY <1>0, <1>1
  <2>2. Behind(xs, 0 + 1) = 0
    BY Sums
  <2>3. <<>> \in Seq(Byte) /\ Len(<<>>) = 0
    BY EmptySeq
  <2>4. \A o \in Nat : ~(o < 0)
    OBVIOUS
  <2> QED
    BY <2>1, <2>2, <2>3, <2>4
<1>3. ASSUME NEW i \in 0 .. Len(xs), i < Len(xs), i \in S
      PROVE  i + 1 \in S
  <2> DEFINE k == i + 1
             c == Chunk(d, xs[k])
  <2>1. /\ k \in 1 .. Len(xs) /\ k \in 0 .. Len(xs) /\ k # 0 /\ k - 1 = i
        /\ k \in 1 .. (Len(xs) + 1) /\ k + 1 \in 1 .. (Len(xs) + 1)
    BY <1>0, <1>3
  <2>2. J[k] = J[i] \o c
    BY <1>1, <2>1
  <2>3. xs[k] \in FreeExtent /\ BlocksOf(xs[k]) \subseteq DataBlock
    BY <1>0, <2>1, ElementOfSeq DEF Inside
  <2> DEFINE n == xs[k].length * BlockSize
             a == xs[k].start * BlockSize
  <2>4. /\ c \in Seq(Byte) /\ Len(c) = n
        /\ \A m \in Nat : m < n => c[m + 1] = d[a + m]
    BY <2>3, ChunkType
  <2>5. Behind(xs, k + 1) = Behind(xs, k) + n /\ Behind(xs, k) \in Nat /\ Behind(xs, k + 1) \in Nat
    BY <1>0, <2>1, Sums
  <2>6. /\ J[i] \in Seq(Byte) /\ Len(J[i]) = Behind(xs, k)
        /\ \A o \in Nat : o < Behind(xs, k) => J[i][o + 1] = d[GlobalOffset(xs, o)]
    BY <1>3
  <2>7. \A o \in Nat : Behind(xs, k) <= o /\ o < Behind(xs, k + 1) =>
            GlobalOffset(xs, o) = a + (o - Behind(xs, k))
    BY <2>1, PlaceIn
  <2>8. n \in Nat
    BY <2>4, LenProperties
  <2> HIDE DEF c, k, n, a
  <2>9. /\ J[k] \in Seq(Byte) /\ Len(J[k]) = Behind(xs, k) + n
        /\ \A m \in 1 .. (Behind(xs, k) + n) :
              J[k][m] = IF m <= Behind(xs, k) THEN J[i][m] ELSE c[m - Behind(xs, k)]
    <3> DEFINE s == J[i]
    <3>1. s \in Seq(Byte) /\ c \in Seq(Byte) /\ Len(s) = Behind(xs, k) /\ Len(c) = n
      BY <2>4, <2>6
    <3> HIDE DEF s
    <3>2. /\ s \o c \in Seq(Byte) /\ Len(s \o c) = Len(s) + Len(c)
          /\ \A m \in 1 .. (Len(s) + Len(c)) :
                (s \o c)[m] = IF m <= Len(s) THEN s[m] ELSE c[m - Len(s)]
      BY <3>1, ConcatProperties
    <3> QED
      BY <2>2, <3>1, <3>2 DEF s
  <2>10. ASSUME NEW o \in Nat, o < Behind(xs, k + 1)
         PROVE  J[k][o + 1] = d[GlobalOffset(xs, o)]
    <3>1. o + 1 \in 1 .. (Behind(xs, k) + n)
      BY <2>5, <2>8, <2>10
    <3>2. CASE o < Behind(xs, k)
      <4>1. o + 1 <= Behind(xs, k)
        BY <2>5, <3>2
      <4> QED
        BY <2>6, <2>9, <3>1, <3>2, <4>1
    <3>3. CASE Behind(xs, k) <= o
      <4>1. /\ ~(o + 1 <= Behind(xs, k)) /\ o - Behind(xs, k) \in Nat /\ o - Behind(xs, k) < n
            /\ (o + 1) - Behind(xs, k) = (o - Behind(xs, k)) + 1
        BY <2>5, <2>8, <2>10, <3>3
      <4>2. J[k][o + 1] = c[(o - Behind(xs, k)) + 1]
        BY <2>9, <3>1, <4>1
      <4>3. c[(o - Behind(xs, k)) + 1] = d[a + (o - Behind(xs, k))]
        BY <2>4, <4>1
      <4> QED
        BY <2>7, <2>10, <3>3, <4>2, <4>3
    <3> QED
      BY <2>5, <3>2, <3>3
  <2>11. Right(k)
    BY <2>5, <2>9, <2>10
  <2> HIDE DEF Right
  <2> QED
    BY <2>1, <2>11 DEF k
<1>4. Len(xs) \in S
  <2>1. Len(xs) \in 0 .. Len(xs)
    BY <1>0
  <2> HIDE DEF S
  <2>2. \A i \in 0 .. Len(xs) : i \in S
    BY <1>0, <1>2, <1>3, Induction
  <2> QED
    BY <2>1, <2>2
<1> QED
  BY <1>4 DEF J, AllocatedSize

-----------------------------------------------------------------------------
(* The inductive invariant.                                                *)

\* The sets that the calls work on, without the bound on the extents.
Shape ==
    /\ disk \in [Address -> Byte]
    /\ bitmap \subseteq DataBlock
    /\ used \subseteq File
    /\ extents \in [File -> Seq(FreeExtent)]
    /\ size \in [File -> Nat]
    /\ call \in Call
    /\ reply.status \in {"none", "ok", "ENOSPC", "EIO", "fault"}

\* Every block of an extent is marked, and belongs to that extent alone; the
\* extents in the tree of an allocation are free and do not overlap.
Owned ==
    /\ \A f \in File : \A k \in DOMAIN extents[f] :
          BlocksOf(extents[f][k]) \subseteq bitmap
    /\ Separate(extents)
    /\ \A x \in call.tree : BlocksOf(x) \subseteq DataBlock \ bitmap
    /\ \A x, y \in call.tree : x # y => BlocksOf(x) \cap BlocksOf(y) = {}

\* A slot that is not in use is empty.
Fresh == \A f \in File \ used : extents[f] = <<>> /\ size[f] = 0

\* A file ends behind its blocks only at an offset that a caller named.
Sized == \A f \in File : size[f] <= AllocatedSize(extents[f]) \/ size[f] \in Offsets

\* What a call in progress knows.
Called ==
    /\ call.op = "none" => call = Idle
    /\ call.op # "none" => call.file \in used
    /\ call.op = "alloc" => call.next \in {"write", "grow"} /\ call.done = 0
    /\ call.op = "write" => call.next = "write" /\ call.done <= Len(call.data)
    /\ call.op = "read" => call.next = "read"
    /\ call.next = "write" => /\ call.append \/ call.pos \in Offsets
                              /\ call.append => call.pos = size[call.file]
    /\ call.next = "grow" => /\ call.count \in Offsets /\ call.count > size[call.file]
                             /\ call.data = <<>>

\* What an allocation has made, and has still to make, room for.
Room ==
    LET held == AllocatedSize(extents[call.file])
    IN /\ call.op = "alloc" /\ call.left > 0 => size[call.file] <= held
       /\ call.op = "alloc" /\ call.next = "write" =>
             held + call.left * BlockSize >= size[call.file] + Len(call.data)
       /\ call.op = "write" =>
             \/ size[call.file] > held
             \/ held >= size[call.file] + Len(call.data)

\* The j-th byte of a transfer lies at this offset of its file, and there
At(j) == call.pos + j - 1
Placed(j) == At(j) < AllocatedSize(extents[call.file])
Found(j) == disk[GlobalOffset(extents[call.file], At(j))]

\* What has been copied is on storage; what has been fetched was.
Filled ==
    call.op = "write" =>
        \A j \in 1 .. call.done : Placed(j) /\ Found(j) = call.data[j]

Fetched ==
    call.op = "read" =>
        /\ Len(call.got) <= ToRead
        /\ \A j \in 1 .. Len(call.got) : Placed(j) /\ Found(j) = call.got[j]

IOInv == Shape /\ Owned /\ Fresh /\ Sized /\ Called /\ Room /\ Filled /\ Fetched

-----------------------------------------------------------------------------
(* What users see of a file.                                               *)

ByteAt(d, xs, o) == IF o < AllocatedSize(xs) THEN d[GlobalOffset(xs, o)] ELSE Hole
Bytes(d, xs, n) == [k \in 1 .. n |-> ByteAt(d, xs, k - 1)]

LEMMA JoinedIsBytes ==
    ASSUME NEW d \in [Address -> Byte], NEW xs \in Seq(FreeExtent), Inside(xs), NEW n \in Nat,
           NEW bytes, bytes = JoinedOf(d, xs)[Len(xs)]
    PROVE  [k \in 1 .. n |-> IF k <= Len(bytes) THEN bytes[k] ELSE Hole] = Bytes(d, xs, n)
<1>1. /\ Len(bytes) = AllocatedSize(xs) /\ AllocatedSize(xs) \in Nat
      /\ \A o \in Nat : o < AllocatedSize(xs) => bytes[o + 1] = d[GlobalOffset(xs, o)]
  BY JoinedBytes, AllocatedType
<1>2. ASSUME NEW k \in 1 .. n
      PROVE  (IF k <= Len(bytes) THEN bytes[k] ELSE Hole) = ByteAt(d, xs, k - 1)
  <2>1. /\ k - 1 \in Nat /\ (k - 1) + 1 = k
        /\ k <= Len(bytes) <=> k - 1 < AllocatedSize(xs)
    BY <1>1
  <2> QED
    BY <1>1, <2>1 DEF ByteAt
<1> QED
  BY <1>2 DEF Bytes

LEMMA FileParts ==
    ASSUME Shape, Owned, NEW f \in File
    PROVE  /\ extents[f] \in Seq(FreeExtent) /\ Inside(extents[f])
           /\ AllocatedSize(extents[f]) \in Nat /\ size[f] \in Nat
           /\ DOMAIN extents[f] = 1 .. Len(extents[f]) /\ Len(extents[f]) \in Nat
<1>1. extents[f] \in Seq(FreeExtent) /\ size[f] \in Nat
  BY DEF Shape
<1>2. Inside(extents[f])
  BY DEF Inside, Owned, Shape
<1> QED
  BY <1>1, <1>2, AllocatedType, LenProperties

LEMMA SeenBytes ==
    ASSUME Shape, Owned, NEW f \in File
    PROVE  Seen(f) = Bytes(disk, extents[f], size[f])
<1>1. Joined(extents[f]) = JoinedOf(disk, extents[f])[Len(extents[f])]
  BY DEF Joined, JoinedOf, Loaded, Chunk
<1>2. disk \in [Address -> Byte]
  BY DEF Shape
<1> QED
  BY <1>1, <1>2, FileParts, JoinedIsBytes DEF Seen

LEMMA SeenBytesNext ==
    ASSUME Shape', Owned', NEW f \in File
    PROVE  Seen(f)' = Bytes(disk', extents'[f], size'[f])
<1>1. Joined(extents[f])' = JoinedOf(disk', extents'[f])[Len(extents'[f])]
  BY DEF Joined, JoinedOf, Loaded, Chunk
<1>2. disk' \in [Address -> Byte] /\ extents'[f] \in Seq(FreeExtent) /\ size'[f] \in Nat
  BY DEF Shape
<1>3. Inside(extents'[f])
  BY DEF Inside, Owned, Shape
<1> QED
  BY <1>1, <1>2, <1>3, JoinedIsBytes DEF Seen

-----------------------------------------------------------------------------
(* Calls begin and end.                                                    *)

LEMMA NoSum == AllocatedSize(<<>>) = 0
<1>1. <<>> \in Seq(FreeExtent) /\ Len(<<>>) = 0
  BY EmptySeq
<1>2. Len(<<>>) + 1 = 1
  BY <1>1
<1>3. Behind(<<>>, 1) = 0
  BY <1>1, Sums
<1> QED
  BY <1>2, <1>3 DEF AllocatedSize

LEMMA IdleIsCall == Idle \in Call
<1>1. <<>> \in Seq(Byte)
  BY EmptySeq
<1> QED
  BY <1>1 DEF Idle, Call

LEMMA OffsetsAreNat == Offsets \subseteq Nat
BY FileIOAssumption

LEMMA CallParts ==
    ASSUME Shape
    PROVE  /\ call.file \in File \cup {0} /\ call.pos \in Nat /\ call.append \in BOOLEAN
           /\ call.data \in Data \cup {<<>>} /\ call.count \in Nat /\ call.done \in Nat
           /\ call.got \in Seq(Byte) /\ call.left \in Int /\ call.tree \in SUBSET FreeExtent
           /\ call.data \in Seq(Byte) /\ Len(call.data) \in Nat /\ Len(call.got) \in Nat
<1>1. /\ call.file \in File \cup {0} /\ call.pos \in Nat /\ call.append \in BOOLEAN
      /\ call.data \in Data \cup {<<>>} /\ call.count \in Nat /\ call.done \in Nat
      /\ call.got \in Seq(Byte) /\ call.left \in Int /\ call.tree \in SUBSET FreeExtent
  BY DEF Shape, Call
<1>2. call.data \in Seq(Byte)
  BY <1>1, FileIOAssumption, EmptySeq
<1> QED
  BY <1>1, <1>2, LenProperties

LEMMA InitInv == Init => IOInv
<1> SUFFICES ASSUME Init PROVE IOInv
  OBVIOUS
<1>1. Shape
  <2>1. call \in Call
    BY IdleIsCall DEF Init
  <2>2. disk \in [Address -> Byte]
    BY FileIOAssumption DEF Init
  <2>3. extents \in [File -> Seq(FreeExtent)]
    BY EmptySeq DEF Init
  <2> QED
    BY <2>1, <2>2, <2>3 DEF Init, Shape, NoReply, Reply
<1>2. Owned
  <2>1. \A f \in File : DOMAIN extents[f] = {}
    BY EmptySeq DEF Init
  <2> QED
    BY <2>1 DEF Init, Owned, Separate, Idle
<1>3. Fresh
  BY DEF Init, Fresh
<1>4. Sized
  BY NoSum DEF Init, Sized
<1>5. Called /\ Room /\ Filled /\ Fetched
  BY DEF Init, Called, Room, Filled, Fetched, Idle
<1> QED
  BY <1>1, <1>2, <1>3, <1>4, <1>5 DEF IOInv

\* A call that returns leaves nothing to remember.
LEMMA ReturnInv ==
    ASSUME IOInv, call' = Idle, UNCHANGED <<bitmap, used, extents>>,
           disk' \in [Address -> Byte], size' \in [File -> Nat], Fresh', Sized',
           reply'.status \in {"none", "ok", "ENOSPC", "EIO", "fault"}
    PROVE  IOInv'
<1>1. Shape'
  BY IdleIsCall DEF IOInv, Shape
<1>2. Owned'
  <2>1. call'.tree = {}
    BY DEF Idle
  <2> QED
    BY <2>1 DEF IOInv, Owned, Separate
<1>3. (Called /\ Room /\ Filled /\ Fetched)'
  <2>1. call'.op = "none" /\ call'.next = "none"
    BY DEF Idle
  <2> QED
    BY <2>1 DEF Called, Room, Filled, Fetched
<1> QED
  BY <1>1, <1>2, <1>3 DEF IOInv

LEMMA FailInv ==
    ASSUME IOInv, NEW status \in {"ok", "ENOSPC", "EIO", "fault"}, NEW bytes,
           Return(status, bytes), UNCHANGED <<disk, bitmap, used, extents, size>>
    PROVE  IOInv'
<1>1. disk' \in [Address -> Byte] /\ size' \in [File -> Nat]
  BY DEF IOInv, Shape
<1>2. Fresh' /\ Sized'
  BY DEF IOInv, Fresh, Sized
<1>3. call' = Idle /\ reply'.status \in {"none", "ok", "ENOSPC", "EIO", "fault"}
  BY DEF Return, Reply
<1> QED
  BY <1>1, <1>2, <1>3, ReturnInv

\* A call that is over when it begins.
LEMMA EnterInv ==
    ASSUME IOInv, Enter, UNCHANGED <<disk, call>>,
           bitmap' \subseteq DataBlock, used' \subseteq File,
           extents' \in [File -> Seq(FreeExtent)], size' \in [File -> Nat],
           \A f \in File : \A k \in DOMAIN extents'[f] : BlocksOf(extents'[f][k]) \subseteq bitmap',
           Separate(extents'), Fresh', Sized'
    PROVE  IOInv'
<1>0. call = Idle
  BY DEF IOInv, Called, Enter
<1>1. Shape'
  BY DEF IOInv, Shape, Enter, NoReply, Reply
<1>2. Owned'
  <2>1. call'.tree = {}
    BY <1>0 DEF Idle
  <2> QED
    BY <2>1 DEF Owned, Separate
<1>3. (Called /\ Room /\ Filled /\ Fetched)'
  <2>1. call' = Idle /\ call'.op = "none" /\ call'.next = "none"
    BY <1>0 DEF Idle
  <2> QED
    BY <2>1 DEF Called, Room, Filled, Fetched
<1> QED
  BY <1>1, <1>2, <1>3 DEF IOInv

LEMMA CreateInv ==
    ASSUME IOInv, NEW f \in File, Create(f)
    PROVE  IOInv'
<1>1. Fresh' /\ Sized'
  BY DEF IOInv, Fresh, Sized, Create
<1>2. /\ bitmap' \subseteq DataBlock /\ used' \subseteq File
      /\ extents' \in [File -> Seq(FreeExtent)] /\ size' \in [File -> Nat]
      /\ UNCHANGED <<disk, call>> /\ Enter
  BY DEF IOInv, Shape, Create
<1>3. /\ \A g \in File : \A k \in DOMAIN extents'[g] : BlocksOf(extents'[g][k]) \subseteq bitmap'
      /\ Separate(extents')
  BY DEF IOInv, Owned, Create
<1> QED
  BY <1>1, <1>2, <1>3, EnterInv

\* Freeing the blocks of one file takes none from another.
LEMMA FreeAllInv ==
    ASSUME IOInv, NEW f \in File, FreeAll(f), Enter, UNCHANGED <<disk, call>>,
           used' = used \/ used' = used \ {f}
    PROVE  IOInv'
<1>1. /\ extents \in [File -> Seq(FreeExtent)] /\ size \in [File -> Nat]
      /\ bitmap \subseteq DataBlock /\ used \subseteq File
  BY DEF IOInv, Shape
<1>2. /\ extents' \in [File -> Seq(FreeExtent)] /\ size' \in [File -> Nat]
      /\ \A g \in File : extents'[g] = IF g = f THEN <<>> ELSE extents[g]
      /\ \A g \in File : size'[g] = IF g = f THEN 0 ELSE size[g]
      /\ bitmap' \subseteq DataBlock /\ used' \subseteq File
  BY <1>1, EmptySeq DEF FreeAll
<1>3. DOMAIN extents'[f] = {}
  BY <1>2, EmptySeq
<1>4. ASSUME NEW g \in File, NEW k \in DOMAIN extents'[g]
      PROVE  BlocksOf(extents'[g][k]) \subseteq bitmap'
  <2>1. g # f /\ extents'[g] = extents[g]
    BY <1>2, <1>3, <1>4
  <2>2. BlocksOf(extents[g][k]) \subseteq bitmap
    BY <1>4, <2>1 DEF IOInv, Owned
  <2>3. \A j \in DOMAIN extents[f] : BlocksOf(extents[f][j]) \cap BlocksOf(extents[g][k]) = {}
    BY <1>4, <2>1 DEF IOInv, Owned, Separate
  <2>4. bitmap' = bitmap \ UNION {BlocksOf(extents[f][j]) : j \in DOMAIN extents[f]}
    BY DEF FreeAll
  <2> HIDE DEF BlocksOf
  <2>5. ASSUME NEW b \in BlocksOf(extents[g][k]),
               b \in UNION {BlocksOf(extents[f][j]) : j \in DOMAIN extents[f]}
        PROVE  FALSE
    <3>1. PICK j \in DOMAIN extents[f] : b \in BlocksOf(extents[f][j])
      BY <2>5
    <3> QED
      BY <2>3, <2>5, <3>1
  <2> QED
    BY <2>1, <2>2, <2>4, <2>5
<1>5. Separate(extents')
  <2> SUFFICES ASSUME NEW g \in File, NEW h \in File, NEW j \in DOMAIN extents'[g],
                      NEW k \in DOMAIN extents'[h], g # h \/ j # k
               PROVE  BlocksOf(extents'[g][j]) \cap BlocksOf(extents'[h][k]) = {}
    BY DEF Separate
  <2>1. extents'[g] = extents[g] /\ extents'[h] = extents[h]
    BY <1>2, <1>3
  <2> QED
    BY <2>1 DEF IOInv, Owned, Separate
<1>6. Fresh'
  BY <1>2 DEF IOInv, Fresh
<1>7. Sized'
  <2>1. \A g \in File : AllocatedSize(extents'[g]) =
            IF g = f THEN 0 ELSE AllocatedSize(extents[g])
    BY <1>2, NoSum
  <2>2. \A g \in File : size[g] <= AllocatedSize(extents[g]) \/ size[g] \in Offsets
    BY DEF IOInv, Sized
  <2>3. ASSUME NEW g \in File
        PROVE  size'[g] <= AllocatedSize(extents'[g]) \/ size'[g] \in Offsets
    <3>1. CASE g = f
      <4>1. size'[g] = 0 /\ AllocatedSize(extents'[g]) = 0
        BY <1>2, <2>1, <3>1
      <4> QED
        BY <4>1
    <3>2. CASE g # f
      BY <1>2, <2>1, <2>2, <3>2
    <3> QED
      BY <3>1, <3>2
  <2> QED
    BY <2>3 DEF Sized
<1> QED
  BY <1>2, <1>4, <1>5, <1>6, <1>7, EnterInv

LEMMA Remainder ==
    ASSUME NEW a \in Int, NEW m \in Nat \ {0}
    PROVE  /\ a % m \in Nat
           /\ a >= 0 => a % m <= a
           /\ a < 0 /\ 0 <= a + m => a % m = a + m
<1>1. a % m \in 0 .. (m - 1) /\ a = m * (a \div m) + (a % m) /\ a \div m \in Int
  OBVIOUS
<1> DEFINE q == a \div m
           r == a % m
<1>2. ASSUME a >= 0 PROVE r <= a
  <2>1. q >= 0
    BY <1>2
  <2>2. m * q \in Nat
    BY <1>1, <2>1
  <2> QED
    BY <1>1, <2>2
<1>3. ASSUME a < 0, 0 <= a + m PROVE r = a + m
  <2>1. q = -1
    BY <1>3
  <2> QED
    BY <1>1, <2>1
<1> QED
  BY <1>1, <1>2, <1>3

\* How many blocks to allocate: enough for the bytes.
LEMMA BlocksSuffice ==
    ASSUME NEW b \in Nat
    PROVE  /\ (Blocks(b) * 1500) \div 1000 \in Nat
           /\ ((Blocks(b) * 1500) \div 1000) * BlockSize >= b
<1> DEFINE n == Blocks(b)
           l == (n * 1500) \div 1000
<1>0. BlockSize \in Nat \ {0}
  BY Constants
<1>1. n \in Nat /\ n * BlockSize >= b
  <2> DEFINE s == b + BlockSize - 1
  <2>1. s \in Nat
    BY <1>0
  <2>2. s = BlockSize * (s \div BlockSize) + (s % BlockSize) /\ s % BlockSize \in 0 .. (BlockSize - 1)
        /\ s \div BlockSize \in Nat
    <3> HIDE DEF s
    <3> QED
      BY <1>0, <2>1
  <2>3. n = s \div BlockSize
    BY DEF Blocks
  <2> DEFINE k == s \div BlockSize
             p == BlockSize * k
  <2>4. p = k * BlockSize /\ p \in Nat
    BY <1>0, <2>2
  <2>5. p >= b
    <3>1. s = p + (s % BlockSize) /\ s % BlockSize <= BlockSize - 1 /\ s % BlockSize \in Nat
      BY <1>0, <2>2
    <3> HIDE DEF p
    <3> QED
      BY <1>0, <2>4, <3>1
  <2> QED
    BY <2>2, <2>3, <2>4, <2>5
<1> HIDE DEF n
<1>2. l \in Nat /\ n <= l
  BY <1>1
<1>3. n * BlockSize <= l * BlockSize /\ n * BlockSize \in Nat /\ l * BlockSize \in Nat
  BY <1>0, <1>1, <1>2, Products
<1> DEFINE u == n * BlockSize
           v == l * BlockSize
<1>4. v >= b
  <2>1. u \in Nat /\ v \in Nat /\ u <= v /\ u >= b
    BY <1>1, <1>3
  <2> HIDE DEF u, v
  <2> QED
    BY <2>1
<1> QED
  BY <1>2, <1>4 DEF n

\* What the two system calls learn from the room that is left: a file that ends
\* behind its blocks seems to have room for anything.
LEMMA RoomLeft ==
    ASSUME IOInv, NEW f \in File, NEW n \in Nat, size[f] \in Offsets => size[f] + n < SizeModulus
    PROVE  /\ Available(f) \in Nat
           /\ Available(f) < n => /\ size[f] <= AllocatedSize(extents[f])
                                  /\ Available(f) <= AllocatedSize(extents[f]) - size[f]
           /\ Available(f) >= n => \/ size[f] > AllocatedSize(extents[f])
                                   \/ AllocatedSize(extents[f]) >= size[f] + n
<1> DEFINE a == AllocatedSize(extents[f])
           s == size[f]
           v == Available(f)
<1>1. a \in Nat /\ s \in Nat /\ SizeModulus \in Nat \ {0}
  BY FileParts, FileIOAssumption DEF IOInv
<1>2. v = (a - s) % SizeModulus
  BY DEF Available
<1>3. s <= a \/ s \in Offsets
  BY DEF IOInv, Sized
<1> HIDE DEF a, s, v
<1>4. /\ v \in Nat
      /\ a - s >= 0 => v <= a - s
      /\ a - s < 0 /\ 0 <= (a - s) + SizeModulus => v = (a - s) + SizeModulus
  BY <1>1, <1>2, Remainder
<1>5. ASSUME v < n PROVE s <= a
  <2>1. CASE s \in Offsets /\ ~(s <= a)
    <3>1. s + n < SizeModulus
      BY <2>1 DEF s
    <3>2. v = (a - s) + SizeModulus
      BY <1>1, <1>4, <2>1, <3>1
    <3> QED
      BY <1>1, <1>5, <3>1, <3>2
  <2> QED
    BY <1>3, <2>1
<1>6. v < n => s <= a /\ v <= a - s
  BY <1>1, <1>4, <1>5
<1>7. v >= n => s > a \/ a >= s + n
  BY <1>1, <1>4
<1> QED
  BY <1>4, <1>6, <1>7 DEF a, s, v

\* A call that begins to work.
LEMMA BeginInv ==
    ASSUME IOInv, Enter, UNCHANGED <<disk, bitmap, used, extents, size>>,
           call' \in Call, call'.tree \subseteq FreeExtents(bitmap),
           call'.done = 0, call'.got = <<>>, Called', Room'
    PROVE  IOInv'
<1>1. Shape'
  BY DEF IOInv, Shape, Enter, NoReply, Reply
<1>2. Owned'
  <2>1. \A x \in call'.tree : BlocksOf(x) \subseteq DataBlock \ bitmap'
    BY FreeExtentsAreFree
  <2>2. \A x, y \in call'.tree : x # y => BlocksOf(x) \cap BlocksOf(y) = {}
    BY FreeExtentsDisjoint
  <2> QED
    BY <2>1, <2>2 DEF IOInv, Owned, Separate
<1>3. Fresh' /\ Sized'
  BY DEF IOInv, Fresh, Sized
<1>4. Filled'
  <2>1. 1 .. 0 = {}
    OBVIOUS
  <2> QED
    BY <2>1 DEF Filled
<1>5. Fetched'
  <2>1. Len(call'.got) = 0 /\ 1 .. 0 = {}
    BY EmptySeq
  <2>2. ASSUME call'.op = "read" PROVE 0 <= ToRead'
    <3>1. call'.file \in File
      BY <2>2, <1>1 DEF Called, Shape
    <3>2. size'[call'.file] \in Nat /\ call'.pos \in Nat /\ call'.count \in Nat
      BY <1>1, <3>1 DEF Shape, Call
    <3> QED
      BY <3>2 DEF ToRead, Lesser
  <2> QED
    BY <2>1, <2>2 DEF Fetched
<1> QED
  BY <1>1, <1>2, <1>3, <1>4, <1>5 DEF IOInv

LEMMA FreeExtentsType == FreeExtents(bitmap) \in SUBSET FreeExtent
BY DEF FreeExtents

LEMMA BeginReadInv ==
    ASSUME IOInv, NEW f \in File, NEW pos \in Offsets, NEW count \in Offsets,
           BeginRead(f, pos, count)
    PROVE  IOInv'
<1>1. /\ call' = [Idle EXCEPT !.op = "read", !.next = "read", !.file = f, !.pos = pos,
                              !.count = count]
      /\ Enter /\ f \in used /\ UNCHANGED <<disk, bitmap, used, extents, size>>
  BY DEF BeginRead
<1>2. /\ call'.op = "read" /\ call'.next = "read" /\ call'.file = f /\ call'.tree = {}
      /\ call'.done = 0 /\ call'.got = <<>>
  BY <1>1 DEF Idle
<1>3. call' \in Call
  BY <1>1, OffsetsAreNat, IdleIsCall DEF Call
<1>4. Called' /\ Room'
  BY <1>1, <1>2 DEF Called, Room
<1> QED
  BY <1>1, <1>2, <1>3, <1>4, BeginInv

LEMMA BeginWriteInv ==
    ASSUME IOInv, NEW f \in File, NEW pos \in Nat, NEW append \in BOOLEAN, NEW data \in Data,
           BeginWrite(f, pos, append, data), append \/ pos \in Offsets
    PROVE  IOInv'
<1> DEFINE r == [Idle EXCEPT !.next = "write", !.file = f, !.pos = pos,
                             !.append = append, !.data = data]
           held == AllocatedSize(extents[f])
<1>1. /\ Enter /\ f \in used /\ UNCHANGED <<disk, bitmap, used, extents, size>>
      /\ append => pos = size[f]
      /\ call' = IF Available(f) < Len(data) THEN Allocating(r, Len(data) - Available(f))
                 ELSE [r EXCEPT !.op = "write"]
  BY DEF BeginWrite
<1>2. /\ Len(data) \in Nat /\ held \in Nat /\ size[f] \in Nat
      /\ size[f] \in Offsets => size[f] + Len(data) < SizeModulus
  <2>1. data \in Seq(Byte)
    BY FileIOAssumption
  <2> QED
    BY <2>1, FileIOAssumption, FileParts, LenProperties DEF IOInv
<1>3. CASE Available(f) < Len(data)
  <2> DEFINE b == Len(data) - Available(f)
             l == (Blocks(b) * 1500) \div 1000
  <2>1. b \in Nat /\ size[f] <= held /\ Available(f) <= held - size[f] /\ Available(f) \in Nat
    BY <1>2, <1>3, RoomLeft
  <2>2. l \in Nat /\ l * BlockSize >= b
    BY <2>1, BlocksSuffice
  <2>3. call' = [r EXCEPT !.op = "alloc", !.left = l, !.tree = FreeExtents(bitmap)]
    BY <1>1, <1>3 DEF Allocating
  <2> HIDE DEF l
  <2>4. /\ call'.op = "alloc" /\ call'.next = "write" /\ call'.file = f /\ call'.pos = pos
        /\ call'.append = append /\ call'.data = data /\ call'.left = l /\ call'.done = 0
        /\ call'.got = <<>> /\ call'.tree = FreeExtents(bitmap)
    BY <2>3 DEF Idle
  <2>5. call' \in Call
    <3> DEFINE tree == FreeExtents(bitmap)
    <3>1. l \in Int /\ tree \in SUBSET FreeExtent
      BY <2>2, FreeExtentsType
    <3>2. call' = [r EXCEPT !.op = "alloc", !.left = l, !.tree = tree]
      BY <2>3
    <3> HIDE DEF tree
    <3> QED
      BY <3>1, <3>2, IdleIsCall DEF Call
  <2>6. Called'
    BY <1>1, <2>4 DEF Called
  <2>7. Room'
    <3> DEFINE p == l * BlockSize
    <3>1. p \in Nat
      BY <2>2, Constants, Products
    <3>2. held + p >= size[f] + Len(data)
      <4>1. p >= b
        BY <2>2
      <4> HIDE DEF held, p
      <4> QED
        BY <1>2, <2>1, <3>1, <4>1
    <3> QED
      BY <1>1, <2>1, <2>4, <3>2 DEF Room
  <2> QED
    BY <1>1, <2>4, <2>5, <2>6, <2>7, BeginInv
<1>4. CASE ~(Available(f) < Len(data))
  <2>1. call' = [r EXCEPT !.op = "write"]
    BY <1>1, <1>4
  <2>2. /\ call'.op = "write" /\ call'.next = "write" /\ call'.file = f /\ call'.pos = pos
        /\ call'.append = append /\ call'.data = data /\ call'.done = 0
        /\ call'.got = <<>> /\ call'.tree = {}
    BY <2>1 DEF Idle
  <2>3. call' \in Call
    BY <2>1, IdleIsCall DEF Call
  <2>4. Called'
    BY <1>1, <1>2, <2>2 DEF Called
  <2>5. size[f] > held \/ held >= size[f] + Len(data)
    <3>1. Available(f) \in Nat
      BY <1>2, RoomLeft
    <3>2. Available(f) >= Len(data)
      BY <1>2, <1>4, <3>1
    <3> QED
      BY <1>2, <3>2, RoomLeft
  <2>6. Room'
    BY <1>1, <2>2, <2>5 DEF Room
  <2> QED
    BY <1>1, <2>2, <2>3, <2>4, <2>6, BeginInv
<1> QED
  BY <1>3, <1>4

LEMMA BeginExtendInv ==
    ASSUME IOInv, NEW f \in File, NEW new \in Offsets, BeginExtend(f, new)
    PROVE  IOInv'
<1> DEFINE r == [Idle EXCEPT !.next = "grow", !.file = f, !.count = new]
           held == AllocatedSize(extents[f])
           needed == new - size[f]
<1>1. /\ Enter /\ f \in used /\ UNCHANGED <<disk, bitmap, used, extents, size>>
      /\ new > size[f]
      /\ call' = IF Available(f) >= needed THEN [r EXCEPT !.op = "alloc"]
                 ELSE Allocating(r, needed)
  BY DEF BeginExtend
<1>2. /\ held \in Nat /\ size[f] \in Nat /\ new \in Nat /\ needed \in Nat
      /\ size[f] + needed < SizeModulus
  <2>1. size[f] \in Nat /\ held \in Nat /\ new \in Nat /\ new < SizeModulus /\ SizeModulus \in Nat
    BY FileIOAssumption, FileParts DEF IOInv
  <2> QED
    BY <1>1, <2>1
<1>3. Available(f) \in Nat
  BY <1>2, RoomLeft
<1>4. CASE Available(f) >= needed
  <2>1. call' = [r EXCEPT !.op = "alloc"]
    BY <1>1, <1>4
  <2>2. /\ call'.op = "alloc" /\ call'.next = "grow" /\ call'.file = f /\ call'.count = new
        /\ call'.data = <<>> /\ call'.left = 0 /\ call'.done = 0
        /\ call'.got = <<>> /\ call'.tree = {}
    BY <2>1 DEF Idle
  <2>3. call' \in Call
    BY <1>2, <2>1, IdleIsCall DEF Call
  <2>4. Called' /\ Room'
    BY <1>1, <2>2 DEF Called, Room
  <2> QED
    BY <1>1, <2>2, <2>3, <2>4, BeginInv
<1>5. CASE ~(Available(f) >= needed)
  <2> DEFINE l == (Blocks(needed) * 1500) \div 1000
  <2>1. l \in Nat
    BY <1>2, BlocksSuffice
  <2>2. Available(f) < needed
    BY <1>2, <1>3, <1>5
  <2>3. size[f] <= held
    BY <1>2, <2>2, RoomLeft
  <2>4. call' = [r EXCEPT !.op = "alloc", !.left = l, !.tree = FreeExtents(bitmap)]
    BY <1>1, <1>5 DEF Allocating
  <2> HIDE DEF l
  <2>5. /\ call'.op = "alloc" /\ call'.next = "grow" /\ call'.file = f /\ call'.count = new
        /\ call'.data = <<>> /\ call'.done = 0
        /\ call'.got = <<>> /\ call'.tree = FreeExtents(bitmap)
    BY <2>4 DEF Idle
  <2>6. call' \in Call
    <3> DEFINE tree == FreeExtents(bitmap)
    <3>1. l \in Int /\ tree \in SUBSET FreeExtent
      BY <1>2, <2>1, FreeExtentsType
    <3>2. call' = [r EXCEPT !.op = "alloc", !.left = l, !.tree = tree]
      BY <2>4
    <3> HIDE DEF tree
    <3> QED
      BY <1>2, <3>1, <3>2, IdleIsCall DEF Call
  <2>7. Called' /\ Room'
    BY <1>1, <2>3, <2>5 DEF Called, Room
  <2> QED
    BY <1>1, <2>5, <2>6, <2>7, BeginInv
<1> QED
  BY <1>4, <1>5

-----------------------------------------------------------------------------
(* Allocation.                                                             *)

LEMMA AppendOwned ==
    ASSUME Shape, Owned, NEW F \in File, NEW x \in call.tree,
           bitmap' = SetAllocated(bitmap, x),
           extents' = [extents EXCEPT ![F] = Append(@, x)],
           call'.tree = call.tree \ {x}
    PROVE  /\ extents' \in [File -> Seq(FreeExtent)] /\ bitmap' \subseteq DataBlock
           /\ Owned'
<1>1. /\ x \in FreeExtent /\ BlocksOf(x) \subseteq DataBlock \ bitmap
      /\ extents \in [File -> Seq(FreeExtent)] /\ bitmap \subseteq DataBlock
      /\ bitmap' = bitmap \cup BlocksOf(x)
  BY CallParts DEF Shape, Owned, SetAllocated
<1> DEFINE xs == extents[F]
           ys == Append(xs, x)
<1>2. /\ ys \in Seq(FreeExtent) /\ Len(xs) \in Nat
      /\ DOMAIN xs = 1 .. Len(xs) /\ DOMAIN ys = 1 .. (Len(xs) + 1)
      /\ \A k \in 1 .. Len(xs) : ys[k] = xs[k]
      /\ ys[Len(xs) + 1] = x
  <2>1. xs \in Seq(FreeExtent)
    BY <1>1
  <2> HIDE DEF xs
  <2> QED
    BY <1>1, <2>1, AppendProperties, LenProperties
<1>3. \A f \in File : extents'[f] = IF f = F THEN ys ELSE extents[f]
  BY <1>1
<1>4. extents' \in [File -> Seq(FreeExtent)]
  BY <1>1, <1>2
<1> HIDE DEF ys, BlocksOf
\* an extent of the new state is an old one or the new one
<1> DEFINE Old(f, k) == f \in File /\ k \in DOMAIN extents[f] /\ extents'[f][k] = extents[f][k]
           New(f, k) == f = F /\ k = Len(xs) + 1 /\ extents'[f][k] = x
<1>5. ASSUME NEW f \in File, NEW k \in DOMAIN extents'[f]
      PROVE  Old(f, k) \/ New(f, k)
  <2>1. CASE f # F
    BY <1>3, <1>5, <2>1
  <2>2. CASE f = F
    <3>1. extents'[f] = ys /\ k \in 1 .. (Len(xs) + 1)
      BY <1>2, <1>3, <1>5, <2>2
    <3>2. CASE k \in 1 .. Len(xs)
      <4>1. k \in DOMAIN extents[f] /\ extents'[f][k] = extents[f][k]
        BY <1>2, <2>2, <3>1, <3>2
      <4> QED
        BY <4>1
    <3>3. CASE k = Len(xs) + 1
      BY <1>2, <2>2, <3>1, <3>3
    <3> QED
      BY <1>2, <3>1, <3>2, <3>3
  <2> QED
    BY <2>1, <2>2
<1>6. ASSUME NEW f, NEW k, Old(f, k)
      PROVE  BlocksOf(extents'[f][k]) \subseteq bitmap
  <2>1. BlocksOf(extents[f][k]) \subseteq bitmap
    BY <1>6 DEF Owned
  <2> QED
    BY <1>6, <2>1
<1>7. ASSUME NEW f, NEW k, New(f, k)
      PROVE  /\ BlocksOf(extents'[f][k]) \subseteq bitmap'
             /\ BlocksOf(extents'[f][k]) \cap bitmap = {}
  BY <1>1, <1>7
<1>8. ASSUME NEW f, NEW j, NEW g, NEW k, Old(f, j), Old(g, k), f # g \/ j # k
      PROVE  BlocksOf(extents'[f][j]) \cap BlocksOf(extents'[g][k]) = {}
  <2>1. BlocksOf(extents[f][j]) \cap BlocksOf(extents[g][k]) = {}
    BY <1>8 DEF Owned, Separate
  <2> QED
    BY <1>8, <2>1
<1>9. ASSUME NEW f, NEW j, NEW g, NEW k, New(f, j), New(g, k)
      PROVE  f = g /\ j = k
  BY <1>9
<1> HIDE DEF Old, New
<1>10. \A f \in File : \A k \in DOMAIN extents'[f] : BlocksOf(extents'[f][k]) \subseteq bitmap'
  <2> TAKE f \in File
  <2> TAKE k \in DOMAIN extents'[f]
  <2> QED
    BY <1>1, <1>5, <1>6, <1>7
<1>11. Separate(extents')
  <2> SUFFICES ASSUME NEW f \in File, NEW g \in File, NEW j \in DOMAIN extents'[f],
                      NEW k \in DOMAIN extents'[g], f # g \/ j # k
               PROVE  BlocksOf(extents'[f][j]) \cap BlocksOf(extents'[g][k]) = {}
    BY DEF Separate
  <2>1. (Old(f, j) \/ New(f, j)) /\ (Old(g, k) \/ New(g, k))
    BY <1>5
  <2>2. CASE Old(f, j) /\ Old(g, k)
    BY <1>8, <2>2
  <2>3. CASE Old(f, j) /\ New(g, k)
    BY <1>6, <1>7, <2>3
  <2>4. CASE New(f, j) /\ Old(g, k)
    BY <1>6, <1>7, <2>4
  <2>5. ~(New(f, j) /\ New(g, k))
    BY <1>9
  <2> QED
    BY <2>1, <2>2, <2>3, <2>4, <2>5
<1>12. ASSUME NEW y \in call'.tree
       PROVE  BlocksOf(y) \subseteq DataBlock \ bitmap'
  <2>1. y \in call.tree /\ y # x
    BY <1>12
  <2>2. BlocksOf(y) \subseteq DataBlock \ bitmap /\ BlocksOf(y) \cap BlocksOf(x) = {}
    BY <2>1 DEF Owned
  <2> QED
    BY <1>1, <2>2
<1>13. \A y, z \in call'.tree : y # z => BlocksOf(y) \cap BlocksOf(z) = {}
  BY DEF Owned
<1>14. bitmap' \subseteq DataBlock
  BY <1>1
<1> QED
  BY <1>4, <1>10, <1>11, <1>12, <1>13, <1>14 DEF Owned

LEMMA TakeExtentInv ==
    ASSUME IOInv, TakeExtent
    PROVE  IOInv'
<1> DEFINE F == call.file
           held == AllocatedSize(extents[F])
<1>0. Shape /\ Owned
  BY DEF IOInv
<1>1. PICK x \in FirstExtent(call.tree) :
         /\ bitmap' = SetAllocated(bitmap, x)
         /\ extents' = [extents EXCEPT ![F] = Append(@, x)]
         /\ call' = [call EXCEPT !.left = @ - x.length, !.tree = @ \ {x}]
  BY DEF TakeExtent
<1>2. /\ call.op = "alloc" /\ call.left > 0 /\ x \in call.tree
      /\ UNCHANGED <<disk, used, size, reply>>
  BY DEF TakeExtent, FirstExtent
<1>3. F \in used /\ F \in File /\ x \in FreeExtent /\ x.length \in Nat
  <2>1. F \in used
    BY <1>2 DEF IOInv, Called
  <2>2. x \in FreeExtent
    BY <1>0, <1>2, CallParts
  <2> QED
    BY <2>1, <2>2, ExtentType DEF IOInv, Shape
<1>4. /\ call'.op = "alloc" /\ call'.next = call.next /\ call'.file = F
      /\ call'.append = call.append /\ call'.pos = call.pos /\ call'.count = call.count
      /\ call'.data = call.data /\ call'.done = call.done
      /\ call'.left = call.left - x.length /\ call'.tree = call.tree \ {x}
  BY <1>0, <1>1, <1>2 DEF Shape, Call
<1>5. extents' \in [File -> Seq(FreeExtent)] /\ bitmap' \subseteq DataBlock /\ Owned'
  BY <1>0, <1>1, <1>2, <1>3, <1>4, AppendOwned
<1>6. call' \in Call
  <2>1. call.left - x.length \in Int /\ call.tree \ {x} \in SUBSET FreeExtent
    BY <1>0, <1>3, CallParts
  <2> QED
    BY <1>0, <1>1, <2>1 DEF Shape, Call
<1>7. Shape'
  BY <1>0, <1>2, <1>5, <1>6 DEF Shape
<1>8. \A f \in File : extents'[f] = IF f = F THEN Append(extents[F], x) ELSE extents[f]
  BY <1>0, <1>1 DEF Shape
<1> DEFINE more == x.length * BlockSize
<1>9. /\ AllocatedSize(extents'[F]) = held + more /\ held \in Nat /\ more \in Nat
      /\ size[F] \in Nat
  <2>1. extents[F] \in Seq(FreeExtent) /\ held \in Nat /\ size[F] \in Nat
    BY <1>0, <1>3, FileParts
  <2>2. AllocatedSize(Append(extents[F], x)) = held + more
    BY <1>3, <2>1, SumAppend
  <2>3. more \in Nat
    BY <1>3, Constants, Products
  <2> QED
    BY <1>3, <1>8, <2>1, <2>2, <2>3
<1> HIDE DEF more, held
<1>10. Fresh'
  BY <1>2, <1>3, <1>8 DEF IOInv, Fresh
<1>11. Sized'
  <2> SUFFICES ASSUME NEW f \in File
               PROVE  size[f] <= AllocatedSize(extents'[f]) \/ size[f] \in Offsets
    BY <1>2 DEF Sized
  <2>1. size[f] <= AllocatedSize(extents[f]) \/ size[f] \in Offsets
    BY DEF IOInv, Sized
  <2>2. CASE f = F
    BY <1>9, <2>1, <2>2 DEF held
  <2>3. CASE f # F
    BY <1>8, <2>1, <2>3
  <2> QED
    BY <2>2, <2>3
<1>12. Called'
  <2>1. Called
    BY DEF IOInv
  <2> QED
    BY <1>2, <1>4, <2>1 DEF Called
<1>13. Room'
  <2>1. size[F] <= held
    BY <1>2 DEF IOInv, Room, held
  <2>2. call.next = "write" => held + call.left * BlockSize >= size[F] + Len(call.data)
    BY <1>2 DEF IOInv, Room, held
  <2>3. (call.left - x.length) * BlockSize = call.left * BlockSize - more
    BY <1>0, <1>3, CallParts, Constants DEF more
  <2> DEFINE l == call.left * BlockSize
  <2>4. l \in Int /\ Len(call.data) \in Nat
    BY <1>0, CallParts, Constants
  <2>5. call.next = "write" => (held + more) + (l - more) >= size[F] + Len(call.data)
    <3>1. call.next = "write" => held + l >= size[F] + Len(call.data)
      BY <2>2
    <3> HIDE DEF l
    <3> QED
      BY <1>9, <2>4, <3>1
  <2>6. size[F] <= held + more
    BY <1>9, <2>1
  <2> QED
    BY <1>2, <1>4, <1>9, <2>3, <2>5, <2>6 DEF Room
<1>14. Filled' /\ Fetched'
  BY <1>4 DEF Filled, Fetched
<1> QED
  BY <1>5, <1>7, <1>10, <1>11, <1>12, <1>13, <1>14 DEF IOInv

LEMMA AllocatedForWriteInv ==
    ASSUME IOInv, AllocatedForWrite
    PROVE  IOInv'
<1> DEFINE F == call.file
           held == AllocatedSize(extents[F])
           l == call.left * BlockSize
<1>0. Shape /\ Owned /\ Called
  BY DEF IOInv
<1>1. /\ call.op = "alloc" /\ call.next = "write" /\ call.left <= 0
      /\ call' = [call EXCEPT !.op = "write", !.left = 0, !.tree = {}]
      /\ UNCHANGED <<disk, bitmap, used, extents, size, reply>>
  BY DEF AllocatedForWrite
<1>2. /\ call'.op = "write" /\ call'.next = "write" /\ call'.file = F
      /\ call'.append = call.append /\ call'.pos = call.pos /\ call'.tree = {}
      /\ call'.data = call.data /\ call'.done = call.done
  BY <1>0, <1>1 DEF Shape, Call
<1>3. F \in used /\ F \in File /\ call.done = 0 /\ Len(call.data) \in Nat
  BY <1>0, <1>1, CallParts DEF Called, Shape
<1>4. Shape'
  <2>1. call \in Call /\ {} \in SUBSET FreeExtent /\ 0 \in Int
    BY <1>0 DEF Shape
  <2>2. call' \in Call
    BY <1>1, <2>1 DEF Call
  <2> QED
    BY <1>0, <1>1, <2>2 DEF Shape
<1>5. Owned'
  BY <1>0, <1>1, <1>2 DEF Owned, Separate
<1>6. Fresh' /\ Sized'
  BY <1>1 DEF IOInv, Fresh, Sized
<1>7. Called'
  BY <1>0, <1>1, <1>2, <1>3 DEF Called
<1>8. Room'
  <2>1. held + l >= size[F] + Len(call.data)
    BY <1>1 DEF IOInv, Room
  <2>2. held \in Nat /\ size[F] \in Nat
    BY <1>0, <1>3, FileParts
  <2>3. l \in Int /\ l <= 0
    <3>1. call.left \in Int /\ BlockSize \in Nat
      BY <1>0, CallParts, Constants
    <3>2. 0 - call.left \in Nat /\ call.left = 0 - (0 - call.left)
      BY <1>1, <3>1
    <3>3. (0 - call.left) * BlockSize \in Nat
      BY <3>1, <3>2, Products
    <3>4. l = 0 - (0 - call.left) * BlockSize
      BY <3>1
    <3> HIDE DEF l
    <3> QED
      BY <3>3, <3>4
  <2> HIDE DEF held, l
  <2>4. held >= size[F] + Len(call.data)
    BY <1>3, <2>1, <2>2, <2>3
  <2> QED
    BY <1>1, <1>2, <2>4 DEF Room, held
<1>9. Filled' /\ Fetched'
  <2>1. 1 .. 0 = {}
    OBVIOUS
  <2> QED
    BY <1>2, <1>3, <2>1 DEF Filled, Fetched
<1> QED
  BY <1>4, <1>5, <1>6, <1>7, <1>8, <1>9 DEF IOInv

LEMMA ExtendedInv ==
    ASSUME IOInv, Extended
    PROVE  IOInv'
<1>1. /\ call.op = "alloc" /\ call.next = "grow" /\ Return("ok", <<>>)
      /\ size' = [size EXCEPT ![call.file] = call.count]
      /\ UNCHANGED <<disk, bitmap, used, extents>>
  BY DEF Extended
<1>2. /\ call.file \in used /\ used \subseteq File /\ call.count \in Offsets
      /\ size \in [File -> Nat] /\ disk \in [Address -> Byte] /\ call.count \in Nat
  BY <1>1, CallParts DEF IOInv, Called, Shape
<1>3. Fresh'
  BY <1>1, <1>2 DEF IOInv, Fresh
<1>4. Sized'
  BY <1>1, <1>2 DEF IOInv, Sized
<1>5. /\ disk' \in [Address -> Byte] /\ size' \in [File -> Nat] /\ call' = Idle
      /\ reply'.status \in {"none", "ok", "ENOSPC", "EIO", "fault"}
  BY <1>1, <1>2 DEF Return, Reply
<1> QED
  BY <1>1, <1>3, <1>4, <1>5, ReturnInv

-----------------------------------------------------------------------------
(* Writing.                                                                *)

LEMMA WriteParts ==
    ASSUME IOInv, call.op = "write"
    PROVE  /\ call.file \in used /\ call.file \in File /\ call.next = "write"
           /\ call.pos \in Nat /\ call.done \in Nat /\ call.done <= Len(call.data)
           /\ call.data \in Seq(Byte) /\ Len(call.data) \in Nat /\ call.data \in Data \cup {<<>>}
           /\ disk \in [Address -> Byte] /\ size \in [File -> Nat]
           /\ extents \in [File -> Seq(FreeExtent)]
           /\ AllocatedSize(extents[call.file]) \in Nat /\ size[call.file] \in Nat
<1>1. Shape /\ Owned /\ Called
  BY DEF IOInv
<1>2. call.file \in used /\ call.file \in File /\ call.next = "write" /\ call.done <= Len(call.data)
  BY <1>1 DEF Called, Shape
<1>3. /\ call.pos \in Nat /\ call.done \in Nat /\ call.data \in Seq(Byte)
      /\ Len(call.data) \in Nat /\ call.data \in Data \cup {<<>>}
  BY <1>1, CallParts
<1>4. /\ disk \in [Address -> Byte] /\ size \in [File -> Nat]
      /\ extents \in [File -> Seq(FreeExtent)]
  BY <1>1 DEF Shape
<1>5. AllocatedSize(extents[call.file]) \in Nat /\ size[call.file] \in Nat
  BY <1>1, <1>2, FileParts
<1> QED
  BY <1>2, <1>3, <1>4, <1>5

\* The end of a write: the size that is stored.
LEMMA WriteDoneInv ==
    ASSUME IOInv, WriteDone
    PROVE  IOInv'
<1> DEFINE F == call.file
           end == call.pos + call.done
<1>1. /\ call.op = "write" /\ call.done = Len(call.data) /\ Return("ok", call.data)
      /\ size' = IF end > size[F] THEN [size EXCEPT ![F] = end] ELSE size
      /\ UNCHANGED <<disk, bitmap, used, extents>>
  BY DEF WriteDone
<1>2. /\ F \in used /\ F \in File /\ call.pos \in Nat /\ call.done \in Nat
      /\ size \in [File -> Nat] /\ disk \in [Address -> Byte] /\ end \in Nat
  BY <1>1, WriteParts
<1>3. Fresh'
  BY <1>1, <1>2 DEF IOInv, Fresh
<1>4. end > size[F] => end <= AllocatedSize(extents[F]) \/ end \in Offsets
  <2> SUFFICES ASSUME end > size[F] PROVE end <= AllocatedSize(extents[F]) \/ end \in Offsets
    OBVIOUS
  <2>1. CASE call.done = 0
    <3>1. end = call.pos /\ size[F] \in Nat
      BY <1>2, <2>1
    <3>2. call.append \/ call.pos \in Offsets
      BY <1>1 DEF IOInv, Called
    <3>3. ~call.append
      BY <1>1, <1>2, <3>1 DEF IOInv, Called
    <3> QED
      BY <3>1, <3>2, <3>3
  <2>2. CASE call.done > 0
    <3>1. call.done \in 1 .. call.done
      BY <1>2, <2>2
    <3>2. call.pos + call.done - 1 < AllocatedSize(extents[F])
      BY <1>1, <3>1 DEF IOInv, Filled, Placed, At
    <3>3. AllocatedSize(extents[F]) \in Nat
      BY <1>1, WriteParts
    <3> QED
      BY <1>2, <3>2, <3>3
  <2> QED
    BY <1>2, <2>1, <2>2
<1> HIDE DEF end
<1>5. Sized'
  <2> SUFFICES ASSUME NEW f \in File
               PROVE  size'[f] <= AllocatedSize(extents[f]) \/ size'[f] \in Offsets
    BY <1>1 DEF Sized
  <2>1. size'[f] = size[f] \/ (f = F /\ end > size[F] /\ size'[f] = end)
    BY <1>1, <1>2
  <2> QED
    BY <1>4, <2>1 DEF IOInv, Sized
<1>6. /\ disk' \in [Address -> Byte] /\ size' \in [File -> Nat] /\ call' = Idle
      /\ reply'.status \in {"none", "ok", "ENOSPC", "EIO", "fault"}
  BY <1>1, <1>2 DEF Return, Reply
<1> QED
  BY <1>1, <1>3, <1>5, <1>6, ReturnInv

\* The bytes of one transfer: what is at the places of all files afterwards.
LEMMA StoredBytes ==
    ASSUME IOInv, call.op = "write", NEW m \in Nat, call.done + m <= Len(call.data),
           NEW o, o = call.pos + call.done, o < AllocatedSize(extents[call.file]),
           m <= AvailableBytes(extents[call.file], o),
           disk' = Stored(GlobalOffset(extents[call.file], o),
                          SubSeq(call.data, call.done + 1, call.done + m))
    PROVE  /\ disk' \in [Address -> Byte]
           /\ \A f \in File, p \in Nat : p < AllocatedSize(extents[f]) =>
                 disk'[GlobalOffset(extents[f], p)] =
                    IF f = call.file /\ o <= p /\ p < o + m THEN call.data[p - call.pos + 1]
                    ELSE disk[GlobalOffset(extents[f], p)]
<1> DEFINE F == call.file
           xs == extents[F]
           g == GlobalOffset(xs, o)
           bytes == SubSeq(call.data, call.done + 1, call.done + m)
<1>0. /\ F \in File /\ call.pos \in Nat /\ call.done \in Nat /\ Len(call.data) \in Nat
      /\ call.data \in Seq(Byte) /\ disk \in [Address -> Byte] /\ o \in Nat
      /\ extents \in [File -> Seq(FreeExtent)]
  <2>1. /\ F \in File /\ call.pos \in Nat /\ call.done \in Nat /\ Len(call.data) \in Nat
        /\ call.data \in Seq(Byte) /\ disk \in [Address -> Byte]
        /\ extents \in [File -> Seq(FreeExtent)]
    BY WriteParts
  <2> HIDE DEF F, xs, g, bytes
  <2>2. o \in Nat
    BY <2>1
  <2> QED
    BY <2>1, <2>2
<1>1. /\ \A f \in File : Inside(extents[f])
      /\ Separate(extents) /\ xs \in Seq(FreeExtent) /\ Inside(xs)
  BY <1>0, FileParts DEF IOInv, Owned
<1>2. /\ bytes \in Seq(Byte) /\ Len(bytes) = m
      /\ \A i \in 1 .. m : bytes[i] = call.data[call.done + i]
  <2>1. \A i \in (call.done + 1) .. (call.done + m) : call.data[i] \in Byte
    <3> TAKE i \in (call.done + 1) .. (call.done + m)
    <3>1. i \in 1 .. Len(call.data)
      BY <1>0
    <3> QED
      BY <1>0, <3>1, ElementOfSeq
  <2> DEFINE a == call.done + 1
             b == call.done + m
  <2>2. a \in Int /\ b \in Int /\ b - a + 1 = m /\ (IF a <= b THEN b - a + 1 ELSE 0) = m
    BY <1>0
  <2>3. /\ SubSeq(call.data, a, b) \in Seq(Byte)
        /\ Len(SubSeq(call.data, a, b)) = IF a <= b THEN b - a + 1 ELSE 0
        /\ \A i \in 1 .. (b - a + 1) : SubSeq(call.data, a, b)[i] = call.data[a + i - 1]
    <3> HIDE DEF a, b
    <3>1. \A i \in a .. b : call.data[i] \in Byte
      BY <2>1 DEF a, b
    <3> QED
      BY <2>2, <3>1, SubSeqProperties, SMTT(30)
  <2>4. \A i \in 1 .. m : a + i - 1 = call.done + i
    BY <1>0
  <2> QED
    BY <2>2, <2>3, <2>4
<1>3. /\ g \in Address
      /\ \A i \in Nat : i < m => /\ o + i < AllocatedSize(xs)
                                 /\ GlobalOffset(xs, o + i) = g + i
  <2>1. /\ AvailableBytes(xs, o) \in Nat
        /\ \A i \in Nat : i < AvailableBytes(xs, o) =>
              /\ o + i < AllocatedSize(xs) /\ GlobalOffset(xs, o + i) = g + i
    <3> HIDE DEF xs
    <3> QED
      BY <1>0, <1>1, Onwards DEF xs
  <2>2. g \in Address
    <3> HIDE DEF xs
    <3> QED
      BY <1>0, <1>1, Places DEF xs
  <2> QED
    BY <2>1, <2>2
<1>4. Address \subseteq Int
  BY Constants DEF Address
<1>5. disk' = [b \in Address |-> IF g <= b /\ b < g + Len(bytes) THEN bytes[b - g + 1] ELSE disk[b]]
  BY DEF Stored
<1> HIDE DEF g, bytes
<1>6. disk' \in [Address -> Byte]
  <2> SUFFICES ASSUME NEW b \in Address
               PROVE  (IF g <= b /\ b < g + Len(bytes) THEN bytes[b - g + 1] ELSE disk[b]) \in Byte
    BY <1>5
  <2>1. CASE g <= b /\ b < g + Len(bytes)
    <3>1. b - g + 1 \in 1 .. m
      BY <1>2, <1>3, <1>4, <2>1
    <3> QED
      BY <1>2, <2>1, <3>1, ElementOfSeq
  <2>2. CASE ~(g <= b /\ b < g + Len(bytes))
    BY <1>0, <2>2
  <2> QED
    BY <2>1, <2>2
<1>7. ASSUME NEW f \in File, NEW p \in Nat, p < AllocatedSize(extents[f])
      PROVE  disk'[GlobalOffset(extents[f], p)] =
                IF f = F /\ o <= p /\ p < o + m THEN call.data[p - call.pos + 1]
                ELSE disk[GlobalOffset(extents[f], p)]
  <2> DEFINE b == GlobalOffset(extents[f], p)
  <2>1. b \in Address
    <3>1. extents[f] \in Seq(FreeExtent) /\ Inside(extents[f])
      BY <1>0, <1>1
    <3> QED
      BY <1>7, <3>1, Places
  <2>2. b \in Int /\ g \in Int
    BY <1>3, <1>4, <2>1
  <2>3. CASE g <= b /\ b < g + m
    <3>1. b - g \in Nat /\ b - g < m /\ g + (b - g) = b
      BY <2>2, <2>3
    <3>2. o + (b - g) < AllocatedSize(xs) /\ GlobalOffset(xs, o + (b - g)) = b
      BY <1>3, <3>1
    <3>3. o + (b - g) \in Nat
      BY <1>0, <3>1
    <3>4. f = F /\ p = o + (b - g)
      <4> DEFINE q == o + (b - g)
      <4>1. q \in Nat /\ q < AllocatedSize(extents[F])
            /\ GlobalOffset(extents[f], p) = GlobalOffset(extents[F], q)
        BY <3>2, <3>3
      <4> HIDE DEF q, F, xs, b
      <4>2. f = F /\ p = q
        BY <1>0, <1>1, <1>7, <4>1, OnePlace
      <4> QED
        BY <4>2 DEF q
    <3>5. o <= p /\ p < o + m /\ b - g + 1 \in 1 .. m
          /\ call.done + (b - g + 1) = p - call.pos + 1
      <4> DEFINE i == b - g
                 u == call.pos
                 v == call.done
      <4>1. /\ u \in Nat /\ v \in Nat /\ o = u + v /\ i \in Nat /\ i < m /\ p = o + i
        BY <1>0, <3>1, <3>4
      <4> HIDE DEF i, u, v, b
      <4>2. o <= p /\ p < o + m /\ i + 1 \in 1 .. m /\ v + (i + 1) = p - u + 1
        BY <4>1
      <4> QED
        BY <4>2 DEF i, u, v
    <3>6. disk'[b] = bytes[b - g + 1]
      BY <1>2, <1>5, <2>1, <2>3
    <3>7. bytes[b - g + 1] = call.data[p - call.pos + 1]
      BY <1>2, <3>5
    <3> QED
      BY <3>4, <3>5, <3>6, <3>7
  <2>4. CASE ~(g <= b /\ b < g + m)
    <3>1. disk'[b] = disk[b]
      BY <1>2, <1>5, <2>1, <2>4
    <3>2. ~(f = F /\ o <= p /\ p < o + m)
      <4> SUFFICES ASSUME f = F, o <= p, p < o + m PROVE FALSE
        OBVIOUS
      <4>1. p - o \in Nat /\ p - o < m /\ o + (p - o) = p
        <5>1. o \in Int /\ o <= p /\ p < o + m
          BY <1>0
        <5> HIDE DEF F, xs, b
        <5> QED
          BY <5>1
      <4>2. b = g + (p - o)
        BY <1>3, <4>1
      <4> QED
        BY <2>2, <2>4, <4>1, <4>2
    <3> QED
      BY <3>1, <3>2
  <2> QED
    BY <2>3, <2>4
<1> QED
  BY <1>6, <1>7

\* An offset with a place is inside an extent, and one without is behind them.
LEMMA PlaceOrNot ==
    ASSUME NEW xs \in Seq(FreeExtent), Inside(xs), NEW o \in Nat
    PROVE  /\ GlobalOffset(xs, o) >= 0 => o < AllocatedSize(xs)
           /\ GlobalOffset(xs, o) >= (DataStart * BlockSize) % Modulus
                 => o < AllocatedSize(xs)
           /\ GlobalOffset(xs, o) < (DataStart * BlockSize) % Modulus
                 => o >= AllocatedSize(xs)
           /\ GlobalOffset(xs, o) < 0 => o >= AllocatedSize(xs)
<1>1. (DataStart * BlockSize) % Modulus = DataStart * BlockSize
  BY Constants, NoWrap
<1> DEFINE a == DataStart * BlockSize
           g == GlobalOffset(xs, o)
           size0 == AllocatedSize(xs)
<1>2. a \in Nat /\ size0 \in Nat
  BY Constants, AllocatedType
<1>3. CASE o < size0
  <2>1. g \in Address
    BY <1>3, Places
  <2>2. g >= a /\ g \in Int
    BY <2>1, Constants DEF Address
  <2> HIDE DEF a, g, size0
  <2>3. g >= 0 /\ ~(g < a) /\ ~(g < 0)
    BY <1>2, <2>2
  <2> QED
    BY <1>1, <1>3, <2>3 DEF a, g, size0
<1>4. CASE o >= size0
  <2>1. g = -14
    BY <1>4, Nowhere DEF EFAULT
  <2> HIDE DEF a, g, size0
  <2>2. ~(g >= 0) /\ ~(g >= a) /\ o >= size0
    BY <1>2, <1>4, <2>1
  <2> QED
    BY <1>1, <2>2 DEF a, g, size0
<1> QED
  BY <1>2, <1>3, <1>4

\* A round of the copy loop writes n bytes, or fails after m of them.
LEMMA WriteChunkCases ==
    ASSUME IOInv, WriteChunk,
           NEW F, F = call.file, NEW o, o = call.pos + call.done
    PROVE  \E n \in Nat :
             /\ n >= 1 /\ call.done + n <= Len(call.data)
             /\ n <= AvailableBytes(extents[F], o)
             /\ \/ /\ disk' = Stored(GlobalOffset(extents[F], o),
                                     SubSeq(call.data, call.done + 1, call.done + n))
                   /\ call' = [call EXCEPT !.done = call.done + n]
                   /\ UNCHANGED reply
                \/ \E m \in 0 .. (n - 1) :
                   /\ disk' = Stored(GlobalOffset(extents[F], o),
                                     SubSeq(call.data, call.done + 1, call.done + m))
                   /\ Return("fault", <<>>)
<1> DEFINE n == Lesser(AvailableBytes(extents[F], o), Len(call.data) - call.done)
<1>1. /\ call.op = "write" /\ call.done < Len(call.data)
      /\ GlobalOffset(extents[F], o) >= (DataStart * BlockSize) % Modulus
      /\ \/ /\ disk' = Stored(GlobalOffset(extents[F], o),
                              SubSeq(call.data, call.done + 1, call.done + n))
            /\ call' = [call EXCEPT !.done = @ + n]
            /\ UNCHANGED reply
         \/ \E m \in 0 .. (n - 1) :
            /\ disk' = Stored(GlobalOffset(extents[F], o),
                              SubSeq(call.data, call.done + 1, call.done + m))
            /\ Return("fault", <<>>)
  BY DEF WriteChunk
<1>2. /\ F \in File /\ o \in Nat /\ extents[F] \in Seq(FreeExtent) /\ Inside(extents[F])
      /\ call.done \in Nat /\ Len(call.data) \in Nat
  BY <1>1, WriteParts, FileParts DEF IOInv
<1>3. o < AllocatedSize(extents[F])
  BY <1>1, <1>2, PlaceOrNot
<1>4. AvailableBytes(extents[F], o) \in Nat /\ AvailableBytes(extents[F], o) >= 1
  BY <1>2, <1>3, Onwards
<1>5. /\ n \in Nat /\ n >= 1 /\ call.done + n <= Len(call.data)
      /\ n <= AvailableBytes(extents[F], o)
  BY <1>1, <1>2, <1>4 DEF Lesser
<1> HIDE DEF n
<1> QED
  BY <1>1, <1>5

LEMMA WriteChunkPlace ==
    ASSUME IOInv, WriteChunk
    PROVE  /\ call.op = "write" /\ call.done < Len(call.data)
           /\ UNCHANGED <<bitmap, used, extents, size>>
           /\ call.pos + call.done < AllocatedSize(extents[call.file])
<1>1. /\ call.op = "write" /\ call.done < Len(call.data)
      /\ UNCHANGED <<bitmap, used, extents, size>>
      /\ GlobalOffset(extents[call.file], call.pos + call.done)
            >= (DataStart * BlockSize) % Modulus
  BY DEF WriteChunk
<1>2. /\ call.pos + call.done \in Nat
      /\ extents[call.file] \in Seq(FreeExtent) /\ Inside(extents[call.file])
  BY <1>1, WriteParts, FileParts DEF IOInv
<1> QED
  BY <1>1, <1>2, PlaceOrNot

LEMMA WriteChunkInv ==
    ASSUME IOInv, WriteChunk
    PROVE  IOInv'
<1> DEFINE F == call.file
           o == call.pos + call.done
           xs == extents[F]
<1>0. Shape /\ Owned /\ Called /\ Room
  BY DEF IOInv
<1>1. /\ call.op = "write" /\ call.done < Len(call.data)
      /\ UNCHANGED <<bitmap, used, extents, size>> /\ o < AllocatedSize(xs)
  BY WriteChunkPlace
<1>2. PICK n \in Nat :
             /\ n >= 1 /\ call.done + n <= Len(call.data)
             /\ n <= AvailableBytes(xs, o)
             /\ \/ /\ disk' = Stored(GlobalOffset(xs, o),
                                     SubSeq(call.data, call.done + 1, call.done + n))
                   /\ call' = [call EXCEPT !.done = call.done + n]
                   /\ UNCHANGED reply
                \/ \E m \in 0 .. (n - 1) :
                   /\ disk' = Stored(GlobalOffset(xs, o),
                                     SubSeq(call.data, call.done + 1, call.done + m))
                   /\ Return("fault", <<>>)
  BY WriteChunkCases
<1>3. /\ F \in used /\ F \in File /\ call.pos \in Nat /\ call.done \in Nat
      /\ Len(call.data) \in Nat /\ call.next = "write" /\ o \in Nat
      /\ size \in [File -> Nat] /\ xs \in Seq(FreeExtent) /\ Inside(xs)
  BY <1>0, <1>1, WriteParts, FileParts
<1>4. Fresh' /\ Sized'
  BY <1>1 DEF IOInv, Fresh, Sized
<1>5. ASSUME disk' = Stored(GlobalOffset(xs, o),
                            SubSeq(call.data, call.done + 1, call.done + n)),
             call' = [call EXCEPT !.done = call.done + n], UNCHANGED reply
      PROVE  IOInv'
  <2>1. /\ disk' \in [Address -> Byte]
        /\ \A p \in Nat : p < AllocatedSize(xs) =>
              disk'[GlobalOffset(xs, p)] =
                    IF o <= p /\ p < o + n THEN call.data[p - call.pos + 1]
                    ELSE disk[GlobalOffset(xs, p)]
    <3>1. /\ disk' \in [Address -> Byte]
          /\ \A f \in File, p \in Nat : p < AllocatedSize(extents[f]) =>
                 disk'[GlobalOffset(extents[f], p)] =
                    IF f = call.file /\ o <= p /\ p < o + n THEN call.data[p - call.pos + 1]
                    ELSE disk[GlobalOffset(extents[f], p)]
      BY <1>1, <1>2, <1>5, StoredBytes
    <3> QED
      BY <1>3, <3>1
  <2>2. /\ call'.op = "write" /\ call'.next = "write" /\ call'.file = F
        /\ call'.append = call.append /\ call'.pos = call.pos /\ call'.tree = call.tree
        /\ call'.data = call.data /\ call'.done = call.done + n /\ call'.left = call.left
    BY <1>0, <1>1, <1>3, <1>5 DEF Shape, Call
  <2>3. call' \in Call
    <3>1. call \in Call /\ call.done + n \in Nat
      BY <1>0, <1>3 DEF Shape
    <3> QED
      BY <1>5, <3>1 DEF Call
  <2>4. Shape'
    BY <1>0, <1>1, <1>5, <2>1, <2>3 DEF Shape
  <2>5. Owned'
    BY <1>0, <1>1, <2>2 DEF Owned, Separate
  <2>6. Called'
    BY <1>0, <1>1, <1>2, <1>3, <2>2 DEF Called
  <2>7. Room'
    BY <1>0, <1>1, <2>2 DEF Room
  <2>8. Fetched'
    BY <2>2 DEF Fetched
  <2>9. ASSUME NEW j \in 1 .. (call.done + n)
        PROVE  /\ call.pos + j - 1 < AllocatedSize(xs)
               /\ disk'[GlobalOffset(xs, call.pos + j - 1)] = call.data[j]
    <3> DEFINE p == call.pos + j - 1
    <3>1. p \in Nat /\ p - call.pos + 1 = j /\ j \in Nat
      BY <1>3
    <3>2. CASE j <= call.done
      <4>1. j \in 1 .. call.done /\ ~(o <= p)
        BY <1>3, <3>1, <3>2
      <4>2. p < AllocatedSize(xs) /\ disk[GlobalOffset(xs, p)] = call.data[j]
        BY <1>1, <4>1 DEF IOInv, Filled, Placed, Found, At
      <4> HIDE DEF p, o
      <4> QED
        BY <2>1, <3>1, <4>1, <4>2 DEF p
    <3>3. CASE ~(j <= call.done)
      <4> DEFINE i == p - o
      <4>1. i \in Nat /\ i < n /\ p = o + i /\ o <= p /\ p < o + n
        <5> DEFINE u == call.pos
                   v == call.done
        <5>1. /\ u \in Nat /\ v \in Nat /\ o = u + v /\ j \in 1 .. (v + n) /\ ~(j <= v)
              /\ p = u + j - 1
          BY <1>3, <3>3
        <5> HIDE DEF u, v, o, p
        <5> QED
          BY <5>1
      <4>2. i < AvailableBytes(xs, o)
        <5>1. AvailableBytes(xs, o) \in Nat
          BY <1>1, <1>3, Onwards
        <5> HIDE DEF i
        <5> QED
          BY <1>2, <4>1, <5>1
      <4>3. p < AllocatedSize(xs)
        <5> HIDE DEF i, p, o, xs
        <5>1. o + i < AllocatedSize(xs)
          BY <1>1, <1>3, <4>1, <4>2, Onwards
        <5> QED
          BY <4>1, <5>1
      <4> HIDE DEF p, o, i
      <4>4. disk'[GlobalOffset(xs, p)] = call.data[p - call.pos + 1]
        BY <2>1, <3>1, <4>1, <4>3
      <4> QED
        BY <3>1, <4>3, <4>4 DEF p
    <3> QED
      BY <3>2, <3>3
  <2>10. Filled'
    BY <1>1, <2>2, <2>9 DEF Filled, Placed, Found, At
  <2> QED
    BY <1>4, <2>4, <2>5, <2>6, <2>7, <2>8, <2>10 DEF IOInv
<1>6. ASSUME NEW m \in 0 .. (n - 1),
             disk' = Stored(GlobalOffset(xs, o),
                            SubSeq(call.data, call.done + 1, call.done + m)),
             Return("fault", <<>>)
      PROVE  IOInv'
  <2>1. /\ m \in Nat /\ m <= AvailableBytes(xs, o) /\ call.done + m <= Len(call.data)
    <3>1. AvailableBytes(xs, o) \in Nat
      BY <1>1, <1>3, Onwards
    <3> QED
      BY <1>2, <1>3, <3>1
  <2>2. disk' \in [Address -> Byte]
    BY <1>1, <1>3, <1>6, <2>1, StoredBytes
  <2>3. /\ call' = Idle /\ size' \in [File -> Nat]
        /\ reply'.status \in {"none", "ok", "ENOSPC", "EIO", "fault"}
    BY <1>1, <1>3, <1>6 DEF Return, Reply
  <2> QED
    BY <1>1, <1>4, <2>2, <2>3, ReturnInv
<1> QED
  BY <1>2, <1>5, <1>6

-----------------------------------------------------------------------------
(* Reading.                                                                *)

LEMMA ReadParts ==
    ASSUME IOInv, call.op = "read"
    PROVE  /\ call.file \in used /\ call.file \in File /\ call.next = "read"
           /\ call.pos \in Nat /\ call.count \in Nat
           /\ call.got \in Seq(Byte) /\ Len(call.got) \in Nat
           /\ ToRead \in Nat /\ Len(call.got) <= ToRead
           /\ ToRead > 0 => call.pos + ToRead <= size[call.file]
           /\ extents[call.file] \in Seq(FreeExtent) /\ Inside(extents[call.file])
           /\ AllocatedSize(extents[call.file]) \in Nat /\ size[call.file] \in Nat
           /\ disk \in [Address -> Byte]
<1>1. Shape /\ Owned /\ Called
  BY DEF IOInv
<1>2. call.file \in used /\ call.file \in File /\ call.next = "read"
  BY <1>1 DEF Called, Shape
<1>3. /\ call.pos \in Nat /\ call.count \in Nat
      /\ call.got \in Seq(Byte) /\ Len(call.got) \in Nat
  BY <1>1, CallParts
<1>4. /\ extents[call.file] \in Seq(FreeExtent) /\ Inside(extents[call.file])
      /\ AllocatedSize(extents[call.file]) \in Nat /\ size[call.file] \in Nat
  BY <1>1, <1>2, FileParts
<1>5. ToRead \in Nat /\ (ToRead > 0 => call.pos + ToRead <= size[call.file])
  BY <1>3, <1>4 DEF ToRead, Lesser
<1>6. Len(call.got) <= ToRead
  BY DEF IOInv, Fetched
<1>7. disk \in [Address -> Byte]
  BY <1>1 DEF Shape
<1> QED
  BY <1>2, <1>3, <1>4, <1>5, <1>6, <1>7

LEMMA LoadedBytes ==
    ASSUME NEW xs \in Seq(FreeExtent), Inside(xs), NEW o \in Nat, o < AllocatedSize(xs),
           NEW n \in Nat, n <= AvailableBytes(xs, o), disk \in [Address -> Byte]
    PROVE  /\ Loaded(GlobalOffset(xs, o), n) \in Seq(Byte)
           /\ Len(Loaded(GlobalOffset(xs, o), n)) = n
           /\ \A i \in 1 .. n :
                /\ o + i - 1 < AllocatedSize(xs)
                /\ Loaded(GlobalOffset(xs, o), n)[i] = disk[GlobalOffset(xs, o + i - 1)]
<1> DEFINE g == GlobalOffset(xs, o)
           loaded == Loaded(g, n)
<1>1. AvailableBytes(xs, o) \in Nat
      /\ \A i \in Nat : i < AvailableBytes(xs, o) =>
            /\ o + i < AllocatedSize(xs) /\ GlobalOffset(xs, o + i) = g + i
  BY Onwards
<1>2. g \in Int
  BY Places, Constants DEF Address
<1>3. loaded = [k \in 1 .. n |-> disk[g + k - 1]]
  BY DEF Loaded
<1> HIDE DEF g, loaded
<1>4. ASSUME NEW i \in 1 .. n
      PROVE  /\ o + i - 1 < AllocatedSize(xs)
             /\ loaded[i] = disk[GlobalOffset(xs, o + i - 1)]
             /\ loaded[i] \in Byte
  <2>1. i - 1 \in Nat /\ i - 1 < AvailableBytes(xs, o) /\ o + (i - 1) = o + i - 1
        /\ g + (i - 1) = g + i - 1 /\ o + i - 1 \in Nat
    BY <1>1, <1>2
  <2>2. o + i - 1 < AllocatedSize(xs) /\ GlobalOffset(xs, o + i - 1) = g + i - 1
    BY <1>1, <2>1
  <2>3. GlobalOffset(xs, o + i - 1) \in Address
    BY <2>1, <2>2, Places
  <2> QED
    BY <1>3, <2>2, <2>3
<1>5. loaded \in [1 .. n -> Byte]
  BY <1>3, <1>4
<1>6. loaded \in Seq(Byte) /\ Len(loaded) = n
  BY <1>5, SeqDef
<1> QED
  BY <1>4, <1>6 DEF g, loaded

LEMMA ReadChunkInv ==
    ASSUME IOInv, ReadChunk
    PROVE  IOInv'
<1> DEFINE xs == extents[call.file]
           l == Len(call.got)
           o == call.pos + l
           g == GlobalOffset(xs, o)
           n == Lesser(AvailableBytes(xs, o), ToRead - l)
           loaded == Loaded(g, n)
<1>0. Shape /\ Owned /\ Called
  BY DEF IOInv
<1>1. /\ call.op = "read" /\ l < ToRead /\ g >= 0
      /\ call' = [call EXCEPT !.got = @ \o loaded]
      /\ UNCHANGED <<disk, bitmap, used, extents, size, reply>>
  BY DEF ReadChunk
<1>2. /\ call.pos \in Nat /\ l \in Nat /\ o \in Nat /\ ToRead \in Nat /\ call.got \in Seq(Byte)
      /\ xs \in Seq(FreeExtent) /\ Inside(xs) /\ disk \in [Address -> Byte]
  BY <1>1, ReadParts
<1>3. o < AllocatedSize(xs)
  BY <1>1, <1>2, PlaceOrNot
<1>4. n \in Nat /\ n <= AvailableBytes(xs, o) /\ l + n <= ToRead
  <2>1. AvailableBytes(xs, o) \in Nat
    BY <1>2, <1>3, Onwards
  <2> QED
    BY <1>1, <1>2, <2>1 DEF Lesser
<1> HIDE DEF n
<1>5. /\ loaded \in Seq(Byte) /\ Len(loaded) = n
      /\ \A i \in 1 .. n :
           /\ o + i - 1 < AllocatedSize(xs)
           /\ loaded[i] = disk[GlobalOffset(xs, o + i - 1)]
  BY <1>2, <1>3, <1>4, LoadedBytes
<1> HIDE DEF loaded, g
<1> DEFINE got == call.got \o loaded
<1>6. /\ got \in Seq(Byte) /\ Len(got) = l + n
      /\ \A i \in 1 .. (l + n) : got[i] = IF i <= l THEN call.got[i] ELSE loaded[i - l]
  <2> DEFINE s == call.got
  <2>1. s \in Seq(Byte) /\ Len(s) = l
    BY <1>2
  <2> HIDE DEF s, l
  <2>2. /\ s \o loaded \in Seq(Byte) /\ Len(s \o loaded) = Len(s) + Len(loaded)
        /\ \A i \in 1 .. (Len(s) + Len(loaded)) :
              (s \o loaded)[i] = IF i <= Len(s) THEN s[i] ELSE loaded[i - Len(s)]
    BY <1>5, <2>1, ConcatProperties
  <2> QED
    BY <1>5, <2>1, <2>2 DEF s
<1> HIDE DEF got
<1>7. call' = [call EXCEPT !.got = got]
  BY <1>1 DEF got
<1>8. /\ call'.op = "read" /\ call'.next = call.next /\ call'.file = call.file
      /\ call'.append = call.append /\ call'.pos = call.pos /\ call'.tree = call.tree
      /\ call'.data = call.data /\ call'.done = call.done /\ call'.left = call.left
      /\ call'.count = call.count /\ call'.got = got
  BY <1>0, <1>1, <1>7 DEF Shape, Call
<1>9. Shape'
  <2>1. call' \in Call
    BY <1>0, <1>6, <1>7 DEF Shape, Call
  <2> QED
    BY <1>0, <1>1, <2>1 DEF Shape
<1>10. Owned'
  BY <1>0, <1>1, <1>8 DEF Owned, Separate
<1>11. Fresh' /\ Sized'
  BY <1>1 DEF IOInv, Fresh, Sized
<1>12. Called' /\ Room' /\ Filled'
  BY <1>0, <1>1, <1>8 DEF Called, Room, Filled
<1>13. ToRead' = ToRead
  BY <1>1, <1>8 DEF ToRead
<1>14. ASSUME NEW j \in 1 .. (l + n)
       PROVE  /\ call.pos + j - 1 < AllocatedSize(xs)
              /\ disk[GlobalOffset(xs, call.pos + j - 1)] = got[j]
  <2>1. CASE j <= l
    <3>1. j \in 1 .. l
      BY <1>2, <1>4, <2>1
    <3>2. call.pos + j - 1 < AllocatedSize(xs)
          /\ disk[GlobalOffset(xs, call.pos + j - 1)] = call.got[j]
      BY <1>1, <3>1 DEF IOInv, Fetched, Placed, Found, At
    <3> QED
      BY <1>6, <2>1, <3>2
  <2>2. CASE ~(j <= l)
    <3> DEFINE i == j - l
    <3>1. i \in 1 .. n /\ o + i - 1 = call.pos + j - 1
      <4> DEFINE u == call.pos
      <4>1. u \in Nat /\ l \in Nat /\ n \in Nat /\ o = u + l
        BY <1>2, <1>4
      <4> HIDE DEF u, o, l
      <4> QED
        BY <2>2, <4>1 DEF u
    <3> HIDE DEF i, o
    <3>2. /\ o + i - 1 < AllocatedSize(xs)
          /\ loaded[i] = disk[GlobalOffset(xs, o + i - 1)]
      BY <1>5, <3>1
    <3>3. got[j] = loaded[i]
      BY <1>6, <2>2 DEF i
    <3> QED
      BY <3>1, <3>2, <3>3
  <2> QED
    BY <2>1, <2>2
<1>15. Fetched'
  BY <1>1, <1>4, <1>6, <1>8, <1>13, <1>14 DEF Fetched, Placed, Found, At
<1> QED
  BY <1>9, <1>10, <1>11, <1>12, <1>15 DEF IOInv

-----------------------------------------------------------------------------
(* All steps.                                                              *)

LEMMA StepInv ==
    ASSUME IOInv, Step
    PROVE  IOInv'
<1>1. CASE NoSpace
  BY <1>1, FailInv DEF NoSpace
<1>2. CASE WriteAstray
  BY <1>2, FailInv DEF WriteAstray
<1>3. CASE ReadAstray
  BY <1>3, FailInv DEF ReadAstray
<1>4. CASE ReadDone
  BY <1>4, FailInv DEF ReadDone
<1>5. CASE TakeExtent
  BY <1>5, TakeExtentInv
<1>6. CASE AllocatedForWrite
  BY <1>6, AllocatedForWriteInv
<1>7. CASE Extended
  BY <1>7, ExtendedInv
<1>8. CASE WriteChunk
  BY <1>8, WriteChunkInv
<1>9. CASE WriteDone
  BY <1>9, WriteDoneInv
<1>10. CASE ReadChunk
  BY <1>10, ReadChunkInv
<1> QED
  BY <1>1, <1>2, <1>3, <1>4, <1>5, <1>6, <1>7, <1>8, <1>9, <1>10 DEF Step

LEMMA NextInv == IOInv /\ [Next]_vars => IOInv'
<1> SUFFICES ASSUME IOInv, [Next]_vars PROVE IOInv'
  OBVIOUS
<1>1. ASSUME NEW f \in File, Create(f) PROVE IOInv'
  BY <1>1, CreateInv
<1>2. ASSUME NEW f \in File, Unlink(f) PROVE IOInv'
  BY <1>2, FreeAllInv DEF Unlink
<1>3. ASSUME NEW f \in File, TruncateToZero(f) PROVE IOInv'
  BY <1>3, FreeAllInv DEF TruncateToZero
<1>4. ASSUME NEW f \in File, NEW new \in Offsets, BeginExtend(f, new) PROVE IOInv'
  BY <1>4, BeginExtendInv
<1>5. ASSUME NEW f \in File, NEW pos \in Offsets, NEW data \in Data,
             BeginWrite(f, pos, FALSE, data)
      PROVE  IOInv'
  <2>1. pos \in Nat /\ FALSE \in BOOLEAN
    BY OffsetsAreNat
  <2> QED
    BY <1>5, <2>1, BeginWriteInv
<1>6. ASSUME NEW f \in File, NEW data \in Data, BeginWrite(f, size[f], TRUE, data)
      PROVE  IOInv'
  <2>1. size[f] \in Nat /\ TRUE \in BOOLEAN
    BY DEF IOInv, Shape
  <2> QED
    BY <1>6, <2>1, BeginWriteInv
<1>7. ASSUME NEW f \in File, NEW pos \in Offsets, NEW count \in Offsets,
             BeginRead(f, pos, count)
      PROVE  IOInv'
  BY <1>7, BeginReadInv
<1>8. CASE NoBuffer
  BY <1>8, FailInv DEF NoBuffer
<1>9. CASE ReadFails
  BY <1>9, FailInv DEF ReadFails
<1>10. CASE Step
  BY <1>10, StepInv
<1>11. CASE UNCHANGED vars
  <2>1. UNCHANGED <<disk, bitmap, used, extents, size, call, reply>>
    BY <1>11 DEF vars
  <2>2. ToRead' = ToRead
    BY <2>1 DEF ToRead
  <2>3. Shape' /\ Owned' /\ Fresh' /\ Sized'
    BY <2>1 DEF IOInv, Shape, Owned, Separate, Fresh, Sized
  <2>4. Called' /\ Room'
    BY <2>1 DEF IOInv, Called, Room
  <2>5. Filled' /\ Fetched'
    BY <2>1, <2>2 DEF IOInv, Filled, Fetched, Placed, Found, At
  <2> QED
    BY <2>3, <2>4, <2>5 DEF IOInv
<1> QED
  BY <1>1, <1>2, <1>3, <1>4, <1>5, <1>6, <1>7, <1>8, <1>9, <1>10, <1>11 DEF Next

\* A file has no more extents than there are blocks.
LEMMA FewExtents ==
    ASSUME IOInv, NEW f \in File
    PROVE  Len(extents[f]) <= DirectExtents
<1> DEFINE xs == extents[f]
           n == Len(xs)
           starts == [k \in 1 .. n |-> xs[k].start]
<1>1. n \in Nat /\ DOMAIN xs = 1 .. n /\ xs \in Seq(FreeExtent) /\ Inside(xs)
  BY FileParts DEF IOInv
<1>2. \A k \in 1 .. n : xs[k].start \in BlocksOf(xs[k]) /\ xs[k].start \in DataBlock
  <2> TAKE k \in 1 .. n
  <2>1. xs[k].start \in Nat /\ xs[k].length \in Nat /\ xs[k].length >= 1
    BY <1>1, ExtentParts
  <2> HIDE DEF xs, n
  <2>2. xs[k].start \in BlocksOf(xs[k])
    BY <2>1 DEF BlocksOf
  <2> QED
    BY <1>1, <2>2 DEF Inside
<1>3. \A j, k \in 1 .. n : j # k => BlocksOf(xs[j]) \cap BlocksOf(xs[k]) = {}
  BY <1>1 DEF IOInv, Owned, Separate
<1>4. starts \in Injection(1 .. n, DataBlock)
  <2> HIDE DEF xs, n
  <2>1. starts \in [1 .. n -> DataBlock]
    BY <1>2
  <2>2. ASSUME NEW j \in 1 .. n, NEW k \in 1 .. n, starts[j] = starts[k] PROVE j = k
    <3>1. xs[j].start = xs[k].start
      BY <2>2
    <3> QED
      BY <1>2, <1>3, <3>1
  <2> HIDE DEF starts
  <2> QED
    BY <2>1, <2>2 DEF Injection, IsInjective
<1>5. IsFiniteSet(DataBlock) /\ Cardinality(DataBlock) \in Nat
  <2>1. DataStart \in Int /\ TotalBlocks - 1 \in Int
    BY Constants
  <2>2. IsFiniteSet(DataBlock)
    BY <2>1, FS_Interval DEF DataBlock
  <2> QED
    BY <2>2, FS_CardinalityType
<1>6. Cardinality(1 .. n) = n
  BY <1>1, FS_Interval
<1>7. Cardinality(1 .. n) <= Cardinality(DataBlock)
  <2> HIDE DEF n, starts
  <2> QED
    BY <1>1, <1>4, <1>5, FS_Injection, FS_Interval
<1> QED
  BY <1>1, <1>5, <1>6, <1>7, FileIOAssumption

LEMMA InvIsTypeOK == IOInv => TypeOK
<1> SUFFICES ASSUME IOInv PROVE TypeOK
  OBVIOUS
<1>1. Shape
  BY DEF IOInv
<1>2. \A f \in File : extents[f] \in Seq(FreeExtent) /\ Len(extents[f]) <= DirectExtents
  BY <1>1, FewExtents DEF Shape
<1> QED
  BY <1>1, <1>2 DEF TypeOK, Shape

LEMMA Invariant == Spec => []IOInv
<1>1. Init => IOInv
  BY InitInv
<1>2. IOInv /\ [Next]_vars => IOInv'
  BY NextInv
<1> QED
  BY <1>1, <1>2, PTL DEF Spec

\* Values stay in their sets: a file never has more direct extents than the
\* table entry holds, whatever is written, extended and truncated.
THEOREM FileIOTypeOK == Spec => []TypeOK
<1>1. IOInv => TypeOK
  BY InvIsTypeOK
<1> QED
  BY <1>1, Invariant, PTL

-----------------------------------------------------------------------------
(* The files as their users see them.                                      *)

LEMMA FunctionLen ==
    ASSUME NEW n \in Nat, NEW s, s = [k \in 1 .. n |-> s[k]]
    PROVE  Len(s) = n /\ DOMAIN s = 1 .. n
<1> DEFINE S == {s[k] : k \in 1 .. n}
<1>1. s \in [1 .. n -> S]
  OBVIOUS
<1>2. s \in Seq(S)
  BY <1>1, SeqDef
<1> HIDE DEF S
<1>3. DOMAIN s = 1 .. n
  BY <1>1
<1>4. DOMAIN s = 1 .. Len(s) /\ Len(s) \in Nat
  BY <1>2, LenProperties
<1> QED
  BY <1>3, <1>4

\* The first elements of a sequence.
LEMMA FirstElements ==
    ASSUME NEW n \in Nat, NEW s, s = [k \in 1 .. n |-> s[k]], NEW m \in 0 .. n
    PROVE  SubSeq(s, 1, m) = [k \in 1 .. m |-> s[k]]
<1> DEFINE S == {s[k] : k \in 1 .. n}
           t == SubSeq(s, 1, m)
<1>1. \A i \in 1 .. m : s[i] \in S
  OBVIOUS
<1> HIDE DEF S
<1>2. /\ t \in Seq(S)
      /\ Len(t) = m
      /\ \A i \in 1 .. m : t[i] = s[i]
  <2> DEFINE a == 1
  <2>1. /\ m \in Int /\ a \in Int /\ m - a + 1 = m /\ (IF a <= m THEN m - a + 1 ELSE 0) = m
        /\ \A i \in 1 .. m : a + i - 1 = i
    OBVIOUS
  <2>2. \A i \in a .. m : s[i] \in S
    BY <1>1
  <2> HIDE DEF a
  <2>3. /\ SubSeq(s, a, m) \in Seq(S)
        /\ Len(SubSeq(s, a, m)) = (IF a <= m THEN m - a + 1 ELSE 0)
        /\ \A i \in 1 .. (m - a + 1) : SubSeq(s, a, m)[i] = s[a + i - 1]
    BY <2>1, <2>2, SubSeqProperties, SMTT(30)
  <2> QED
    BY <2>1, <2>3 DEF a
<1> HIDE DEF t
<1>4. Len(t) = m /\ \A i \in 1 .. m : t[i] = s[i]
  BY <1>2
<1>5. t \in [1 .. m -> S]
  BY <1>2, <1>4, LenProperties
<1>6. t = [k \in 1 .. m |-> s[k]]
  BY <1>4, <1>5
<1> QED
  BY <1>6 DEF t

LEMMA BytesParts ==
    ASSUME NEW d, NEW xs, NEW n \in Nat
    PROVE  /\ Bytes(d, xs, n) = [k \in 1 .. n |-> Bytes(d, xs, n)[k]]
           /\ Len(Bytes(d, xs, n)) = n /\ DOMAIN Bytes(d, xs, n) = 1 .. n
           /\ \A k \in 1 .. n : Bytes(d, xs, n)[k] = ByteAt(d, xs, k - 1)
<1> DEFINE b == Bytes(d, xs, n)
<1>1. b = [k \in 1 .. n |-> ByteAt(d, xs, k - 1)]
  BY DEF Bytes
<1> HIDE DEF b
<1>2. /\ b = [k \in 1 .. n |-> b[k]]
      /\ \A k \in 1 .. n : b[k] = ByteAt(d, xs, k - 1)
  BY <1>1
<1>3. Len(b) = n /\ DOMAIN b = 1 .. n
  BY <1>2, FunctionLen
<1> QED
  BY <1>2, <1>3 DEF b

LEMMA NoBytes == \A d, xs : Bytes(d, xs, 0) = <<>>
<1> SUFFICES ASSUME NEW d, NEW xs PROVE Bytes(d, xs, 0) = <<>>
  OBVIOUS
<1> DEFINE b == Bytes(d, xs, 0)
<1>1. b = [k \in 1 .. 0 |-> ByteAt(d, xs, k - 1)] /\ 1 .. 0 = {}
  BY DEF Bytes
<1>2. b \in Seq({Hole})
  <2>1. b \in [1 .. 0 -> {Hole}]
    BY <1>1
  <2> HIDE DEF b
  <2> QED
    BY <2>1, SeqDef
<1>3. Len(b) = 0
  BY BytesParts
<1> HIDE DEF b
<1>4. b = <<>>
  BY <1>2, <1>3, EmptySeq
<1> QED
  BY <1>4 DEF b

Files == [f \in File |-> Seen(f)]

LEMMA FilesNow ==
    ASSUME IOInv
    PROVE  Files = [f \in File |-> Bytes(disk, extents[f], size[f])]
BY SeenBytes DEF IOInv, Files

LEMMA FilesNext ==
    ASSUME IOInv'
    PROVE  Files' = [f \in File |-> Bytes(disk', extents'[f], size'[f])]
BY SeenBytesNext DEF IOInv, Files

LEMMA SameFiles ==
    ASSUME IOInv, IOInv', UNCHANGED <<disk, extents, size>>
    PROVE  Files' = Files
BY FilesNow, FilesNext

LEMMA OneFile ==
    ASSUME IOInv, IOInv', NEW F \in File, NEW b,
           b = Bytes(disk', extents'[F], size'[F]),
           \A f \in File \ {F} : Bytes(disk', extents'[f], size'[f]) = Bytes(disk, extents[f], size[f])
    PROVE  Files' = [Files EXCEPT ![F] = b]
BY FilesNow, FilesNext

-----------------------------------------------------------------------------
(* Calls begin: the abstract call is asked for.                            *)

LEMMA AtRest ==
    ASSUME IOInv, Enter
    PROVE  Asked.op = "none" /\ call = Idle
<1>1. call = Idle
  BY DEF IOInv, Called, Enter
<1> QED
  BY <1>1 DEF Asked, Idle

\* A slot gets a new file, or loses the one it has.
LEMMA Replaced ==
    ASSUME IOInv, IOInv', Enter, UNCHANGED <<disk, call>>, NEW f \in File,
           extents'[f] = <<>>, size'[f] = 0,
           \A g \in File \ {f} : extents'[g] = extents[g] /\ size'[g] = size[g]
    PROVE  Contents!Replace(f, used', <<>>)
<1>1. Files' = [Files EXCEPT ![f] = <<>>]
  <2>1. Bytes(disk', extents'[f], size'[f]) = <<>>
    BY NoBytes
  <2> QED
    BY <2>1, OneFile
<1>2. Asked' = Asked
  BY DEF Asked
<1> QED
  BY <1>1, <1>2, AtRest DEF Contents!Replace, Contents!Enter, Contents!AtRest, Contents!NoReply,
     Contents!Reply, Enter, NoReply, Reply, Files

LEMMA CreateIsNew ==
    ASSUME IOInv, IOInv', NEW f \in File, Create(f)
    PROVE  Contents!New(f)
<1>1. /\ Enter /\ f \notin used /\ used' = used \cup {f}
      /\ UNCHANGED <<disk, bitmap, extents, size, call>>
  BY DEF Create
<1>2. extents[f] = <<>> /\ size[f] = 0
  BY <1>1 DEF IOInv, Fresh
<1>3. Contents!Replace(f, used', <<>>)
  BY <1>1, <1>2, Replaced
<1> QED
  BY <1>1, <1>3 DEF Contents!New

LEMMA FreeAllReplaces ==
    ASSUME IOInv, IOInv', NEW f \in File, FreeAll(f), Enter, UNCHANGED <<disk, call>>
    PROVE  Contents!Replace(f, used', <<>>)
<1>1. extents \in [File -> Seq(FreeExtent)] /\ size \in [File -> Nat]
  BY DEF IOInv, Shape
<1>2. /\ extents'[f] = <<>> /\ size'[f] = 0
      /\ \A g \in File \ {f} : extents'[g] = extents[g] /\ size'[g] = size[g]
  BY <1>1 DEF FreeAll
<1> QED
  BY <1>2, Replaced

LEMMA UnlinkIsGone ==
    ASSUME IOInv, IOInv', NEW f \in File, Unlink(f)
    PROVE  Contents!Gone(f)
BY FreeAllReplaces DEF Unlink, Contents!Gone

LEMMA TruncateIsEmptied ==
    ASSUME IOInv, IOInv', NEW f \in File, TruncateToZero(f)
    PROVE  Contents!Emptied(f)
<1>1. Contents!Replace(f, used', <<>>) /\ used' = used /\ f \in used
  BY FreeAllReplaces DEF TruncateToZero
<1> QED
  BY <1>1 DEF Contents!Emptied

LEMMA Started ==
    ASSUME IOInv, IOInv', Enter, UNCHANGED <<disk, bitmap, used, extents, size>>,
           NEW r, r.file \in used, Asked' = r
    PROVE  Contents!Start(r)
<1>1. Files' = Files
  BY SameFiles
<1> QED
  BY <1>1, AtRest DEF Contents!Start, Contents!Enter, Contents!AtRest, Contents!NoReply,
     Contents!Reply, Enter, NoReply, Reply, Files

LEMMA BeginReadIsAsk ==
    ASSUME IOInv, IOInv', NEW f \in File, NEW pos \in Offsets, NEW count \in Offsets,
           BeginRead(f, pos, count)
    PROVE  Contents!AskRead(f, pos, count)
<1> DEFINE r == [Contents!NoRequest EXCEPT !.op = "read", !.file = f, !.pos = pos,
                                           !.count = count]
<1>1. /\ call' = [Idle EXCEPT !.op = "read", !.next = "read", !.file = f, !.pos = pos,
                              !.count = count]
      /\ Enter /\ f \in used /\ UNCHANGED <<disk, bitmap, used, extents, size>>
  BY DEF BeginRead
<1>2. Asked' = [op |-> "read", file |-> f, pos |-> pos, append |-> FALSE,
                 data |-> <<>>, count |-> count]
  BY <1>1 DEF Asked, Idle
<1>3. Asked' = r /\ r.file = f
  <2>1. PICK z : z = r
    OBVIOUS
  <2>2. z = [op |-> "read", file |-> f, pos |-> pos, append |-> FALSE,
             data |-> <<>>, count |-> count]
    BY <2>1 DEF Contents!NoRequest
  <2> HIDE DEF r
  <2> QED
    BY <1>2, <2>1, <2>2
<1>4. Contents!Start(r)
  BY <1>1, <1>2, <1>3, Started
<1> QED
  BY <1>4 DEF Contents!AskRead

\* What is asked for, whether blocks are to be allocated or not.
LEMMA BeginWriteIsAsked ==
    ASSUME NEW f, NEW pos, NEW append, NEW data, BeginWrite(f, pos, append, data)
    PROVE  Asked' = [op |-> "write", file |-> f, pos |-> pos, append |-> append,
                     data |-> data, count |-> 0]
BY DEF BeginWrite, Allocating, Idle, Asked

LEMMA BeginWriteIsAsk ==
    ASSUME IOInv, IOInv', NEW f \in File, NEW pos, NEW data,
           BeginWrite(f, pos, FALSE, data)
    PROVE  Contents!AskWrite(f, pos, data)
<1> DEFINE r == [Contents!NoRequest EXCEPT !.op = "write", !.file = f, !.pos = pos, !.data = data]
<1>1. Enter /\ f \in used /\ UNCHANGED <<disk, bitmap, used, extents, size>>
  BY DEF BeginWrite
<1>2. Asked' = r /\ r.file = f
  <2>1. PICK z : z = r
    OBVIOUS
  <2>2. z = [op |-> "write", file |-> f, pos |-> pos, append |-> FALSE,
             data |-> data, count |-> 0]
    BY <2>1 DEF Contents!NoRequest
  <2>3. Asked' = [op |-> "write", file |-> f, pos |-> pos, append |-> FALSE,
             data |-> data, count |-> 0]
    BY BeginWriteIsAsked
  <2> HIDE DEF r
  <2> QED
    BY <2>1, <2>2, <2>3
<1>3. Contents!Start(r)
  BY <1>1, <1>2, Started
<1> QED
  BY <1>3 DEF Contents!AskWrite

LEMMA FileLength ==
    ASSUME IOInv, NEW f \in File
    PROVE  Files[f] = Bytes(disk, extents[f], size[f]) /\ Len(Files[f]) = size[f]
<1>1. Files[f] = Bytes(disk, extents[f], size[f])
  BY FilesNow
<1>2. size[f] \in Nat
  BY DEF IOInv, Shape
<1> QED
  BY <1>1, <1>2, BytesParts

LEMMA BeginAppendIsAsk ==
    ASSUME IOInv, IOInv', NEW f \in File, NEW data,
           BeginWrite(f, size[f], TRUE, data)
    PROVE  Contents!AskAppend(f, data)
<1> DEFINE r == [Contents!NoRequest EXCEPT !.op = "write", !.file = f, !.append = TRUE,
                                           !.pos = size[f], !.data = data]
<1>1. Enter /\ f \in used /\ UNCHANGED <<disk, bitmap, used, extents, size>>
  BY DEF BeginWrite
<1>2. Asked' = r /\ r.file = f
  <2>1. PICK z : z = r
    OBVIOUS
  <2>2. z = [op |-> "write", file |-> f, pos |-> size[f], append |-> TRUE,
             data |-> data, count |-> 0]
    BY <2>1 DEF Contents!NoRequest
  <2>3. Asked' = [op |-> "write", file |-> f, pos |-> size[f], append |-> TRUE,
             data |-> data, count |-> 0]
    BY BeginWriteIsAsked
  <2> HIDE DEF r
  <2> QED
    BY <2>1, <2>2, <2>3
<1>3. Contents!Start(r)
  BY <1>1, <1>2, Started
<1>4. Len(Files[f]) = size[f]
  BY FileLength
<1> QED
  BY <1>3, <1>4 DEF Contents!AskAppend, Files

LEMMA BeginExtendIsAsk ==
    ASSUME IOInv, IOInv', NEW f \in File, NEW new \in Offsets, BeginExtend(f, new)
    PROVE  Contents!AskGrow(f, new)
<1> DEFINE r == [Contents!NoRequest EXCEPT !.op = "grow", !.file = f, !.count = new]
<1>1. /\ Enter /\ f \in used /\ UNCHANGED <<disk, bitmap, used, extents, size>>
      /\ new > size[f]
  BY DEF BeginExtend
<1>2. Asked' = r /\ r.file = f
  <2>1. PICK z : z = r
    OBVIOUS
  <2>2. z = [op |-> "grow", file |-> f, pos |-> 0, append |-> FALSE,
             data |-> <<>>, count |-> new]
    BY <2>1 DEF Contents!NoRequest
  <2>3. Asked' = [op |-> "grow", file |-> f, pos |-> 0, append |-> FALSE,
             data |-> <<>>, count |-> new]
    BY DEF BeginExtend, Allocating, Idle, Asked
  <2> HIDE DEF r
  <2> QED
    BY <2>1, <2>2, <2>3
<1>3. Contents!Start(r)
  BY <1>1, <1>2, Started
<1>4. Len(Files[f]) = size[f]
  BY FileLength
<1> QED
  BY <1>1, <1>3, <1>4 DEF Contents!AskGrow, Files

-----------------------------------------------------------------------------
(* Calls go on: bytes of a write land one after the other.                 *)

LEMMA SeqIsFunction ==
    ASSUME NEW S, NEW s \in Seq(S)
    PROVE  s = [k \in 1 .. Len(s) |-> s[k]] /\ Len(s) \in Nat
<1>1. s \in [1 .. Len(s) -> S] /\ Len(s) \in Nat
  BY LenProperties
<1> QED
  BY <1>1

\* s with the first n elements of data at pos.
Over(s, N, pos, data, n) ==
    [k \in 1 .. N |-> IF pos < k /\ k <= pos + n THEN data[k - pos] ELSE s[k]]

IsList(s, N) == s = [k \in 1 .. N |-> s[k]]

\* What FileContents says of the first n elements is Over.
LandsAs(s, N, pos, data, n, gap) ==
    SubSeq(Contents!Patched(s, pos, SubSeq(data, 1, n), gap), 1, Len(s))
      = Over(s, N, pos, data, n)

LEMMA LandedIs ==
    ASSUME NEW N \in Nat, NEW s, IsList(s, N), NEW pos \in Nat,
           NEW data \in Seq(Byte), NEW n \in 0 .. Len(data), NEW gap
    PROVE  LandsAs(s, N, pos, data, n, gap)
<1>0. s = [k \in 1 .. N |-> s[k]]
  BY DEF IsList
<1> DEFINE t == SubSeq(data, 1, n)
           M == IF N > pos + n THEN N ELSE pos + n
           P == Contents!Patched(s, pos, t, gap)
<1>1. Len(data) \in Nat /\ n \in Nat
  BY LenProperties
<1>2. t = [k \in 1 .. n |-> data[k]]
  <2>1. data = [k \in 1 .. Len(data) |-> data[k]]
    BY SeqIsFunction
  <2> QED
    BY <1>1, <2>1, FirstElements
<1> HIDE DEF t
<1>3. t = [k \in 1 .. n |-> t[k]] /\ \A k \in 1 .. n : t[k] = data[k]
  BY <1>2
<1>4. P = [k \in 1 .. M |-> IF pos < k /\ k <= pos + n THEN t[k - pos]
                           ELSE IF k <= N THEN s[k] ELSE gap[k]]
  <2>1. Len(s) = N /\ Len(t) = n
    BY <1>0, <1>1, <1>3, FunctionLen
  <2> QED
    BY <2>1 DEF Contents!Patched, Contents!Most
<1>5. M \in Nat /\ N \in 0 .. M
  BY <1>1
<1> HIDE DEF P, M
<1>6. P = [k \in 1 .. M |-> P[k]]
  BY <1>4
<1>7. SubSeq(P, 1, N) = [k \in 1 .. N |-> P[k]]
  BY <1>5, <1>6, FirstElements
<1>8. ASSUME NEW k \in 1 .. N
      PROVE  P[k] = IF pos < k /\ k <= pos + n THEN data[k - pos] ELSE s[k]
  <2>1. k \in 1 .. M /\ k <= N
    BY <1>5
  <2>2. CASE pos < k /\ k <= pos + n
    <3>1. k - pos \in 1 .. n
      BY <1>1, <2>2
    <3> QED
      BY <1>3, <1>4, <2>1, <2>2, <3>1
  <2>3. CASE ~(pos < k /\ k <= pos + n)
    BY <1>4, <2>1, <2>3
  <2> QED
    BY <2>2, <2>3
<1>9. Len(s) = N
  BY <1>0, FunctionLen
<1>10. SubSeq(P, 1, N) = [k \in 1 .. N |-> IF pos < k /\ k <= pos + n THEN data[k - pos] ELSE s[k]]
  BY <1>7, <1>8
<1> QED
  BY <1>9, <1>10 DEF P, t, Over, LandsAs

LEMMA Running ==
    ASSUME IOInv, call.op # "none"
    PROVE  /\ call.file \in used /\ call.file \in File /\ call.next \in {"write", "grow", "read"}
           /\ call.pos \in Nat /\ call.data \in Seq(Byte) /\ Len(call.data) \in Nat
           /\ size[call.file] \in Nat /\ Files[call.file] = Bytes(disk, extents[call.file], size[call.file])
           /\ Len(Files[call.file]) = size[call.file]
           /\ AllocatedSize(extents[call.file]) \in Nat
<1>1. Shape /\ Owned /\ Called
  BY DEF IOInv
<1>2. call.file \in used /\ call.file \in File
  BY <1>1 DEF Called, Shape
<1>3. call.op \in {"none", "alloc", "write", "read"}
  BY <1>1 DEF Shape, Call
<1>4. call.next \in {"write", "grow", "read"}
  BY <1>1, <1>3 DEF Called
<1> QED
  BY <1>1, <1>2, <1>4, CallParts, FileParts, FileLength

LEMMA LandedFile ==
    ASSUME IOInv, call.op # "none", NEW n \in 0 .. Len(call.data)
    PROVE  Contents!Landed(n) =
             [k \in 1 .. size[call.file] |->
                IF call.pos < k /\ k <= call.pos + n THEN call.data[k - call.pos]
                ELSE ByteAt(disk, extents[call.file], k - 1)]
<1> DEFINE F == call.file
           s == Bytes(disk, extents[F], size[F])
           gap == [k \in 1 .. call.pos |-> Hole]
<1>1. /\ F \in File /\ call.pos \in Nat /\ call.data \in Seq(Byte)
      /\ size[F] \in Nat /\ Files[F] = s
  BY Running
<1>2. /\ s = [k \in 1 .. size[F] |-> s[k]]
      /\ \A k \in 1 .. size[F] : s[k] = ByteAt(disk, extents[F], k - 1)
  BY <1>1, BytesParts
<1>3. Contents!Landed(n) =
        SubSeq(Contents!Patched(Files[F], call.pos, SubSeq(call.data, 1, n), gap), 1, Len(Files[F]))
  <2>1. Asked.file = F /\ Asked.pos = call.pos /\ Asked.data = call.data
    BY DEF Asked
  <2>2. Contents!Own = Files[F]
    BY <2>1 DEF Contents!Own, Files
  <2> QED
    BY <2>1, <2>2 DEF Contents!Landed
<1> HIDE DEF s, gap
<1>4. Contents!Landed(n) = Over(s, size[F], call.pos, call.data, n)
  <2>1. IsList(s, size[F])
    BY <1>2 DEF IsList
  <2>2. SubSeq(Contents!Patched(s, call.pos, SubSeq(call.data, 1, n), gap), 1, Len(s))
          = Over(s, size[F], call.pos, call.data, n)
    <3> DEFINE N == size[F]
               u == call.pos
               b == call.data
    <3>1. /\ N \in Nat /\ u \in Nat /\ b \in Seq(Byte) /\ n \in 0 .. Len(b)
          /\ IsList(s, N)
      BY <1>1, <2>1
    <3> HIDE DEF N, u, b
    <3>2. LandsAs(s, N, u, b, n, gap)
      BY <3>1, LandedIs
    <3> QED
      BY <3>2 DEF N, u, b, LandsAs
  <2> QED
    BY <1>1, <1>3, <2>2
<1> QED
  BY <1>2, <1>4 DEF Over

LEMMA AskedParts ==
    /\ Asked.op = call.next /\ Asked.file = call.file /\ Asked.pos = call.pos
    /\ Asked.append = call.append /\ Asked.data = call.data /\ Asked.count = call.count
    /\ Contents!Own = Files[call.file]
<1>1. /\ Asked.op = call.next /\ Asked.file = call.file /\ Asked.pos = call.pos
      /\ Asked.append = call.append /\ Asked.data = call.data /\ Asked.count = call.count
  BY DEF Asked
<1>2. Contents!Own = Files[call.file]
  BY <1>1 DEF Contents!Own, Files
<1> QED
  BY <1>1, <1>2

-----------------------------------------------------------------------------
(* Calls that fail.                                                        *)

LEMMA EndedIs ==
    ASSUME NEW status, NEW bytes, Return(status, bytes), UNCHANGED used
    PROVE  Contents!End(status, bytes)
<1>1. Asked' = [op |-> "none", file |-> 0, pos |-> 0, append |-> FALSE,
                data |-> <<>>, count |-> 0]
  BY DEF Return, Asked, Idle
<1> QED
  BY <1>1 DEF Contents!End, Contents!NoRequest, Contents!Reply, Return, Reply

LEMMA FailedIs ==
    ASSUME IOInv, call.op # "none", NEW status \in {"fault", "ENOSPC", "EIO"},
           Contents!MayFail(status), Return(status, <<>>), UNCHANGED used,
           NEW n \in 0 .. Len(call.data),
           Files' = [Files EXCEPT ![call.file] = Contents!Landed(n)]
    PROVE  Contents!EndFailed
<1>1. Contents!End(status, <<>>)
  BY EndedIs
<1>2. ~Contents!AtRest
  BY Running, AskedParts DEF Contents!AtRest
<1>3. \E m \in 0 .. Len(Asked.data) :
          Files' = [Files EXCEPT ![Asked.file] = Contents!Landed(m)]
  BY AskedParts
<1> QED
  BY <1>1, <1>2, <1>3 DEF Contents!EndFailed, Files

LEMMA LandedNothing ==
    ASSUME IOInv, call.op # "none"
    PROVE  0 \in 0 .. Len(call.data) /\ Contents!Landed(0) = Files[call.file]
<1>1. 0 \in 0 .. Len(call.data)
  BY Running
<1>2. Contents!Landed(0) =
             [k \in 1 .. size[call.file] |->
                IF call.pos < k /\ k <= call.pos + 0 THEN call.data[k - call.pos]
                ELSE ByteAt(disk, extents[call.file], k - 1)]
  BY <1>1, LandedFile
<1>3. \A k \in 1 .. size[call.file] : ~(call.pos < k /\ k <= call.pos + 0)
  BY Running
<1>4. Contents!Landed(0) =
        [k \in 1 .. size[call.file] |-> ByteAt(disk, extents[call.file], k - 1)]
  BY <1>2, <1>3
<1> QED
  BY <1>1, <1>4, Running DEF Bytes

\* A call that fails and has changed no file.
LEMMA FailedInPlace ==
    ASSUME IOInv, IOInv', call.op # "none", NEW status \in {"fault", "ENOSPC", "EIO"},
           Contents!MayFail(status), Return(status, <<>>),
           UNCHANGED <<disk, bitmap, used, extents, size>>
    PROVE  Contents!EndFailed
<1>1. Files' = Files
  BY SameFiles
<1>2. Files = [f \in File |-> Files[f]]
  BY DEF Files
<1>3. Files' = [Files EXCEPT ![call.file] = Contents!Landed(0)]
  BY <1>1, <1>2, LandedNothing
<1> QED
  BY <1>3, LandedNothing, FailedIs

LEMMA NoSpaceFails ==
    ASSUME IOInv, IOInv', NoSpace
    PROVE  Contents!EndFailed
<1>1. /\ call.op = "alloc" /\ Return("ENOSPC", <<>>)
      /\ UNCHANGED <<disk, bitmap, used, extents, size>>
  BY DEF NoSpace
<1>2. Asked.op \in {"write", "grow"}
  BY <1>1, AskedParts DEF IOInv, Called
<1>3. Contents!MayFail("ENOSPC")
  BY <1>2 DEF Contents!MayFail
<1> QED
  BY <1>1, <1>3, FailedInPlace

LEMMA FaultFails ==
    ASSUME IOInv, IOInv', NoBuffer \/ ReadFails
    PROVE  Contents!EndFailed
<1>1. /\ call.op # "none" /\ Return("fault", <<>>)
      /\ UNCHANGED <<disk, bitmap, used, extents, size>>
  BY DEF NoBuffer, ReadFails
<1>2. Contents!MayFail("fault")
  BY DEF Contents!MayFail
<1> QED
  BY <1>1, <1>2, FailedInPlace

\* A file that ends behind its blocks has a hole there.
LEMMA Holes ==
    ASSUME IOInv, call.op # "none", NEW k \in 1 .. size[call.file],
           k - 1 >= AllocatedSize(extents[call.file])
    PROVE  Files[call.file][k] = Hole
<1>1. Files[call.file][k] = ByteAt(disk, extents[call.file], k - 1)
  BY Running, BytesParts
<1>2. ~(k - 1 < AllocatedSize(extents[call.file]))
  BY Running
<1> QED
  BY <1>1, <1>2 DEF ByteAt

LEMMA WriteAstrayFails ==
    ASSUME IOInv, IOInv', WriteAstray
    PROVE  Contents!EndFailed
<1> DEFINE F == call.file
           held == AllocatedSize(extents[F])
           o == call.pos + call.done
           l == Len(call.data)
<1>1. /\ call.op = "write" /\ call.done < l /\ Return("EIO", <<>>)
      /\ GlobalOffset(extents[F], o) < (DataStart * BlockSize) % Modulus
      /\ UNCHANGED <<disk, bitmap, used, extents, size>>
  BY DEF WriteAstray
<1>2. /\ F \in File /\ call.pos \in Nat /\ call.done \in Nat /\ l \in Nat
      /\ held \in Nat /\ size[F] \in Nat /\ o \in Nat /\ call.next = "write"
      /\ extents[F] \in Seq(FreeExtent) /\ Inside(extents[F])
  BY <1>1, WriteParts, FileParts DEF IOInv
<1>3. o >= held
  BY <1>1, <1>2, PlaceOrNot
<1>4. size[F] > held \/ held >= size[F] + l
  BY <1>1 DEF IOInv, Room
<1> HIDE DEF held, l
<1>5. ASSUME Contents!HasHole(Contents!Own) \/ Asked.pos > Len(Contents!Own)
      PROVE  Contents!EndFailed
  <2>1. Asked.op = "write"
    BY <1>2, AskedParts
  <2>2. Contents!MayFail("EIO")
    BY <1>5, <2>1 DEF Contents!MayFail
  <2> QED
    BY <1>1, <2>2, FailedInPlace
<1>6. CASE size[F] > held
  <2>1. size[F] \in 1 .. size[F] /\ size[F] - 1 >= held
    BY <1>2, <1>6
  <2>2. Files[F][size[F]] = Hole
    BY <1>1, <2>1, Holes DEF held
  <2>3. size[F] \in DOMAIN Files[F]
    BY <1>1, <1>2, <2>1, Running, BytesParts
  <2>4. Contents!HasHole(Contents!Own)
    BY <2>2, <2>3, AskedParts DEF Contents!HasHole
  <2> QED
    BY <1>5, <2>4
<1>7. CASE held >= size[F] + l
  <2>1. call.pos > size[F]
    BY <1>1, <1>2, <1>3, <1>7
  <2>2. Asked.pos > Len(Contents!Own)
    BY <1>1, <2>1, Running, AskedParts
  <2> QED
    BY <1>5, <2>2
<1> QED
  BY <1>4, <1>6, <1>7

-----------------------------------------------------------------------------
(* Reads.                                                                  *)

\* The n elements of s behind the first pos.
Piece(s, pos, n) == [k \in 1 .. n |-> s[pos + k]]

LEMMA PartIs ==
    ASSUME NEW N \in Nat, NEW s, IsList(s, N), NEW pos \in Nat, NEW count \in Nat,
           NEW n, n = IF pos >= N THEN 0 ELSE Lesser(count, N - pos)
    PROVE  /\ n \in Nat
           /\ Contents!Part(s, pos, count) = Piece(s, pos, n)
<1> DEFINE a == pos + 1
           b == Contents!Least(N, pos + count)
           S == {s[k] : k \in 1 .. N}
           t == SubSeq(s, a, b)
<1>1. Len(s) = N
  BY FunctionLen DEF IsList
<1>2. Contents!Part(s, pos, count) = t
  BY <1>1 DEF Contents!Part
<1>3. /\ n \in Nat /\ a \in Int /\ b \in Int /\ b <= N
      /\ (IF a <= b THEN b - a + 1 ELSE 0) = n
      /\ n > 0 => b - a + 1 = n
  BY DEF Contents!Least, Lesser
<1>4. \A i \in a .. b : s[i] \in S
  <2>1. \A i \in a .. b : i \in 1 .. N
    BY <1>3
  <2> QED
    BY <2>1
<1>5. \A i \in 1 .. n : a + i - 1 = pos + i
  BY <1>3
<1> HIDE DEF a, b, S
<1>6. /\ t \in Seq(S) /\ Len(t) = n
      /\ \A i \in 1 .. n : t[i] = s[pos + i]
  <2>1. /\ t \in Seq(S) /\ Len(t) = IF a <= b THEN b - a + 1 ELSE 0
        /\ \A i \in 1 .. (b - a + 1) : t[i] = s[a + i - 1]
    BY <1>3, <1>4, SubSeqProperties, SMTT(30)
  <2>2. \A i \in 1 .. n : i \in 1 .. (b - a + 1)
    BY <1>3
  <2> HIDE DEF t
  <2> QED
    BY <1>3, <1>5, <2>1, <2>2
<1> HIDE DEF t
<1>7. t = [k \in 1 .. n |-> s[pos + k]]
  <2>1. t \in [1 .. n -> S]
    BY <1>6, LenProperties
  <2> QED
    BY <1>6, <2>1
<1> QED
  BY <1>2, <1>3, <1>7 DEF Piece

LEMMA PartRead ==
    ASSUME IOInv, call.op = "read"
    PROVE  /\ Contents!Part(Contents!Own, Asked.pos, Asked.count)
                = [k \in 1 .. ToRead |-> Files[call.file][call.pos + k]]
           /\ \A k \in 1 .. ToRead :
                /\ call.pos + k \in 1 .. size[call.file]
                /\ Files[call.file][call.pos + k]
                     = ByteAt(disk, extents[call.file], call.pos + k - 1)
<1> DEFINE F == call.file
           s == Bytes(disk, extents[F], size[F])
<1>1. /\ F \in File /\ call.pos \in Nat /\ call.count \in Nat /\ ToRead \in Nat
      /\ size[F] \in Nat /\ (ToRead > 0 => call.pos + ToRead <= size[F])
  BY ReadParts
<1>2. Files[F] = s
  BY Running
<1>3. /\ IsList(s, size[F])
      /\ \A k \in 1 .. size[F] : s[k] = ByteAt(disk, extents[F], k - 1)
  BY <1>1, BytesParts DEF IsList
<1>4. Contents!Part(Contents!Own, Asked.pos, Asked.count) = Contents!Part(s, call.pos, call.count)
  BY <1>2, AskedParts
<1> HIDE DEF s
<1>5. Contents!Part(s, call.pos, call.count) = Piece(s, call.pos, ToRead)
  <2>1. ToRead = IF call.pos >= size[F] THEN 0 ELSE Lesser(call.count, size[F] - call.pos)
    BY DEF ToRead
  <2> QED
    <3> DEFINE u == call.pos
               c == call.count
               N == size[F]
               w == ToRead
    <3>1. /\ N \in Nat /\ u \in Nat /\ c \in Nat /\ IsList(s, N)
          /\ w = IF u >= N THEN 0 ELSE Lesser(c, N - u)
      BY <1>1, <1>3, <2>1
    <3> HIDE DEF u, c, N, w
    <3>2. Contents!Part(s, u, c) = Piece(s, u, w)
      BY <3>1, PartIs
    <3> QED
      BY <3>2 DEF u, c, w
<1>6. ASSUME NEW k \in 1 .. ToRead
      PROVE  /\ call.pos + k \in 1 .. size[F]
             /\ s[call.pos + k] = ByteAt(disk, extents[F], call.pos + k - 1)
  <2>1. call.pos + k \in 1 .. size[F]
    <3> DEFINE u == call.pos
               v == size[F]
               w == ToRead
    <3>1. /\ u \in Nat /\ v \in Nat /\ w \in Nat /\ (w > 0 => u + w <= v)
          /\ k \in 1 .. w
      BY <1>1
    <3> HIDE DEF u, v, w
    <3>2. u + k \in 1 .. v
      BY <3>1
    <3> QED
      BY <3>2 DEF u, v
  <2>2. (call.pos + k) - 1 = call.pos + k - 1
    BY <1>1
  <2> DEFINE j == call.pos + k
  <2>3. j \in 1 .. size[F]
    BY <2>1
  <2> HIDE DEF j
  <2>4. s[j] = ByteAt(disk, extents[F], j - 1)
    BY <1>3, <2>3
  <2> QED
    BY <2>1, <2>2, <2>4 DEF j
<1> QED
  BY <1>2, <1>4, <1>5, <1>6 DEF Piece

LEMMA ReadDoneIsEnd ==
    ASSUME IOInv, IOInv', ReadDone
    PROVE  Contents!EndRead
<1> DEFINE F == call.file
           part == Contents!Part(Contents!Own, Asked.pos, Asked.count)
<1>1. /\ call.op = "read" /\ Len(call.got) = ToRead /\ Return("ok", call.got)
      /\ UNCHANGED <<disk, bitmap, used, extents, size>>
  BY DEF ReadDone
<1>2. /\ call.next = "read" /\ call.got \in Seq(Byte) /\ ToRead \in Nat /\ call.pos \in Nat
  BY <1>1, ReadParts
<1>3. \A k \in 1 .. ToRead : /\ call.pos + k - 1 < AllocatedSize(extents[F])
                             /\ call.got[k] = disk[GlobalOffset(extents[F], call.pos + k - 1)]
  BY <1>1 DEF IOInv, Fetched, Placed, Found, At
<1>4. \A k \in 1 .. ToRead : Files[F][call.pos + k] = call.got[k]
  BY <1>1, <1>3, PartRead DEF ByteAt
<1>5. part = [k \in 1 .. ToRead |-> call.got[k]]
  BY <1>1, <1>4, PartRead
<1>6. part = call.got
  BY <1>1, <1>2, <1>5, SeqIsFunction
<1>7. ~Contents!HasHole(call.got)
  <2>1. \A k \in DOMAIN call.got : call.got[k] \in Byte
    BY <1>2, ElementOfSeq, LenProperties
  <2> QED
    BY <2>1, FileIOAssumption DEF Contents!HasHole
<1>8. Files' = Files
  BY <1>1, SameFiles
<1>9. Contents!End("ok", call.got)
  BY <1>1, EndedIs
<1> QED
  BY <1>2, <1>6, <1>7, <1>8, <1>9, AskedParts DEF Contents!EndRead, Files

LEMMA ReadAstrayFails ==
    ASSUME IOInv, IOInv', ReadAstray
    PROVE  Contents!EndFailed
<1> DEFINE F == call.file
           l == Len(call.got)
           o == call.pos + l
           part == Contents!Part(Contents!Own, Asked.pos, Asked.count)
<1>1. /\ call.op = "read" /\ l < ToRead /\ GlobalOffset(extents[F], o) < 0
      /\ Return("EIO", <<>>) /\ UNCHANGED <<disk, bitmap, used, extents, size>>
  BY DEF ReadAstray
<1>2. /\ call.pos \in Nat /\ l \in Nat /\ o \in Nat /\ ToRead \in Nat /\ call.next = "read"
      /\ extents[F] \in Seq(FreeExtent) /\ Inside(extents[F])
      /\ AllocatedSize(extents[F]) \in Nat
  BY <1>1, ReadParts
<1>3. o >= AllocatedSize(extents[F])
  BY <1>1, <1>2, PlaceOrNot
<1>4. l + 1 \in 1 .. ToRead /\ call.pos + (l + 1) - 1 = o
  BY <1>1, <1>2
<1>5. Files[F][call.pos + (l + 1)] = Hole
  <2>1. Files[F][call.pos + (l + 1)] = ByteAt(disk, extents[F], call.pos + (l + 1) - 1)
    BY <1>1, <1>4, PartRead
  <2>2. ~(o < AllocatedSize(extents[F]))
    BY <1>2, <1>3
  <2> QED
    BY <1>4, <2>1, <2>2 DEF ByteAt
<1>6. part = [k \in 1 .. ToRead |-> Files[F][call.pos + k]]
  BY <1>1, PartRead
<1> HIDE DEF part
<1>7. l + 1 \in DOMAIN part /\ part[l + 1] = Hole
  BY <1>4, <1>5, <1>6
<1>8. Contents!HasHole(part)
  BY <1>7 DEF Contents!HasHole
<1>9. Contents!MayFail("EIO")
  BY <1>2, <1>8, AskedParts DEF Contents!MayFail, part
<1> QED
  BY <1>1, <1>9, FailedInPlace

-----------------------------------------------------------------------------
(* Steps that users do not see.                                            *)

LEMMA BytesStay ==
    ASSUME NEW d, NEW xs \in Seq(FreeExtent), NEW x \in FreeExtent,
           NEW n \in Nat, n <= AllocatedSize(xs)
    PROVE  Bytes(d, Append(xs, x), n) = Bytes(d, xs, n)
<1>1. ASSUME NEW k \in 1 .. n
      PROVE  ByteAt(d, Append(xs, x), k - 1) = ByteAt(d, xs, k - 1)
  <2>1. k - 1 \in Nat /\ k - 1 < AllocatedSize(xs)
    BY AllocatedType
  <2> QED
    BY <2>1, PlacesStay DEF ByteAt
<1> QED
  BY <1>1 DEF Bytes

LEMMA Unseen ==
    ASSUME IOInv, IOInv', Files' = Files, UNCHANGED <<used, reply>>,
           call'.next = call.next, call'.file = call.file, call'.pos = call.pos,
           call'.append = call.append, call'.data = call.data, call'.count = call.count
    PROVE  UNCHANGED Contents!contentsVars
<1>1. Asked' = Asked
  BY DEF Asked
<1> QED
  BY <1>1 DEF Contents!contentsVars, Files

LEMMA TakeExtentIsUnseen ==
    ASSUME IOInv, IOInv', TakeExtent
    PROVE  UNCHANGED Contents!contentsVars
<1> DEFINE F == call.file
<1>0. Shape
  BY DEF IOInv
<1>1. PICK x \in FirstExtent(call.tree) :
         /\ extents' = [extents EXCEPT ![F] = Append(@, x)]
         /\ call' = [call EXCEPT !.left = @ - x.length, !.tree = @ \ {x}]
  BY DEF TakeExtent
<1>2. /\ call.op = "alloc" /\ call.left > 0 /\ x \in call.tree
      /\ UNCHANGED <<disk, used, size, reply>>
  BY DEF TakeExtent, FirstExtent
<1>3. F \in File /\ x \in FreeExtent /\ extents[F] \in Seq(FreeExtent) /\ size[F] \in Nat
  BY <1>0, <1>2, Running, CallParts DEF Shape
<1>4. size[F] <= AllocatedSize(extents[F])
  BY <1>2 DEF IOInv, Room
<1>5. \A f \in File : extents'[f] = IF f = F THEN Append(extents[F], x) ELSE extents[f]
  BY <1>0, <1>1 DEF Shape
<1>6. Files' = Files
  <2>1. \A f \in File : Bytes(disk', extents'[f], size'[f]) = Bytes(disk, extents[f], size[f])
    <3> TAKE f \in File
    <3>1. CASE f = F
      BY <1>2, <1>3, <1>4, <1>5, <3>1, BytesStay
    <3>2. CASE f # F
      BY <1>2, <1>5, <3>2
    <3> QED
      BY <3>1, <3>2
  <2> QED
    BY <2>1, FilesNow, FilesNext
<1>7. /\ call'.next = call.next /\ call'.file = call.file /\ call'.pos = call.pos
      /\ call'.append = call.append /\ call'.data = call.data /\ call'.count = call.count
  BY <1>0, <1>1 DEF Shape, Call
<1> QED
  BY <1>2, <1>6, <1>7, Unseen

LEMMA AllocatedIsUnseen ==
    ASSUME IOInv, IOInv', AllocatedForWrite
    PROVE  UNCHANGED Contents!contentsVars
<1>1. /\ call' = [call EXCEPT !.op = "write", !.left = 0, !.tree = {}]
      /\ UNCHANGED <<disk, bitmap, used, extents, size, reply>> /\ Shape
  BY DEF AllocatedForWrite, IOInv
<1>2. Files' = Files
  BY <1>1, SameFiles
<1>3. /\ call'.next = call.next /\ call'.file = call.file /\ call'.pos = call.pos
      /\ call'.append = call.append /\ call'.data = call.data /\ call'.count = call.count
  BY <1>1 DEF Shape, Call
<1> QED
  BY <1>1, <1>2, <1>3, Unseen

LEMMA ReadChunkIsUnseen ==
    ASSUME IOInv, IOInv', ReadChunk
    PROVE  UNCHANGED Contents!contentsVars
<1>1. /\ \E got : call' = [call EXCEPT !.got = got]
      /\ UNCHANGED <<disk, bitmap, used, extents, size, reply>> /\ Shape
  BY DEF ReadChunk, IOInv
<1>2. Files' = Files
  BY <1>1, SameFiles
<1>3. /\ call'.next = call.next /\ call'.file = call.file /\ call'.pos = call.pos
      /\ call'.append = call.append /\ call'.data = call.data /\ call'.count = call.count
  BY <1>1 DEF Shape, Call
<1> QED
  BY <1>1, <1>2, <1>3, Unseen

-----------------------------------------------------------------------------
(* Files that grow.                                                        *)

LEMMA ByteAtType ==
    ASSUME NEW d \in [Address -> Byte], NEW xs \in Seq(FreeExtent), Inside(xs), NEW o \in Nat
    PROVE  ByteAt(d, xs, o) \in Byte \cup {Hole}
<1>1. CASE o < AllocatedSize(xs)
  <2>1. GlobalOffset(xs, o) \in Address
    BY <1>1, Places
  <2> QED
    BY <1>1, <2>1 DEF ByteAt
<1>2. CASE ~(o < AllocatedSize(xs))
  BY <1>2 DEF ByteAt
<1> QED
  BY <1>1, <1>2

\* The first M bytes in the extents xs, when the file had N and data came at pos.
GrownTo(d, xs, N, pos, data, M) ==
    \E gap \in Contents!Gaps(Bytes(d, xs, N), pos) :
       Bytes(d, xs, M) = Contents!Patched(Bytes(d, xs, N), pos, data, gap)

\* The bytes behind the old end are what the storage holds there, or holes.
LEMMA Grown ==
    ASSUME NEW d \in [Address -> Byte], NEW xs \in Seq(FreeExtent), Inside(xs),
           NEW N \in Nat, NEW pos \in Nat, NEW data \in Seq(Byte),
           NEW M, M = IF N > pos + Len(data) THEN N ELSE pos + Len(data),
           \A j \in 1 .. Len(data) : ByteAt(d, xs, pos + j - 1) = data[j]
    PROVE  GrownTo(d, xs, N, pos, data, M)
<1> DEFINE s == Bytes(d, xs, N)
           l == Len(data)
           gap == [k \in (N + 1) .. pos |-> ByteAt(d, xs, k - 1)]
<1>1. l \in Nat /\ M \in Nat
  BY LenProperties
<1>2. Len(s) = N /\ \A k \in 1 .. N : s[k] = ByteAt(d, xs, k - 1)
  BY BytesParts
<1>3. gap \in Contents!Gaps(s, pos)
  <2>1. \A k \in (N + 1) .. pos : ByteAt(d, xs, k - 1) \in Byte \cup {Hole}
    <3> TAKE k \in (N + 1) .. pos
    <3>1. k - 1 \in Nat
      OBVIOUS
    <3> QED
      BY <3>1, ByteAtType
  <2>2. gap \in [(N + 1) .. pos -> Byte \cup {Hole}]
    BY <2>1
  <2> HIDE DEF s, gap
  <2> QED
    BY <1>2, <2>2 DEF Contents!Gaps
<1>4. \A k \in (N + 1) .. pos : gap[k] = ByteAt(d, xs, k - 1)
  OBVIOUS
<1> HIDE DEF s, l, gap
<1>5. Contents!Patched(s, pos, data, gap) =
        [k \in 1 .. M |-> IF pos < k /\ k <= pos + l THEN data[k - pos]
                         ELSE IF k <= N THEN s[k] ELSE gap[k]]
  BY <1>2 DEF Contents!Patched, Contents!Most, l
<1>6. ASSUME NEW k \in 1 .. M
      PROVE  (IF pos < k /\ k <= pos + l THEN data[k - pos]
              ELSE IF k <= N THEN s[k] ELSE gap[k]) = ByteAt(d, xs, k - 1)
  <2>1. CASE pos < k /\ k <= pos + l
    <3>1. k - pos \in 1 .. l /\ pos + (k - pos) - 1 = k - 1
      BY <1>1, <2>1
    <3>2. ByteAt(d, xs, pos + (k - pos) - 1) = data[k - pos]
      BY <3>1 DEF l
    <3> QED
      BY <2>1, <3>1, <3>2
  <2>2. CASE ~(pos < k /\ k <= pos + l) /\ k <= N
    <3>1. k \in 1 .. N
      BY <2>2
    <3> QED
      BY <1>2, <2>2, <3>1
  <2>3. CASE ~(pos < k /\ k <= pos + l) /\ ~(k <= N)
    <3>1. k \in (N + 1) .. pos
      BY <1>1, <2>3 DEF l
    <3> QED
      BY <1>4, <2>3, <3>1
  <2> QED
    BY <2>1, <2>2, <2>3
<1>7. Contents!Patched(s, pos, data, gap) = Bytes(d, xs, M)
  BY <1>5, <1>6 DEF Bytes
<1> QED
  BY <1>3, <1>7 DEF s, GrownTo

LEMMA GrownFile ==
    ASSUME IOInv, IOInv', call.op # "none", UNCHANGED <<disk, extents>>,
           NEW pos \in Nat, NEW data \in Seq(Byte),
           \A j \in 1 .. Len(data) : ByteAt(disk, extents[call.file], pos + j - 1) = data[j],
           size'[call.file] = IF size[call.file] > pos + Len(data) THEN size[call.file]
                              ELSE pos + Len(data),
           \A f \in File \ {call.file} : size'[f] = size[f]
    PROVE  \E gap \in Contents!Gaps(Contents!Own, pos) :
              Files' = [Files EXCEPT ![call.file] = Contents!Patched(Contents!Own, pos, data, gap)]
<1> DEFINE F == call.file
           xs == extents[F]
           s == Bytes(disk, xs, size[F])
<1>1. /\ F \in File /\ size[F] \in Nat /\ Contents!Own = s
      /\ xs \in Seq(FreeExtent) /\ Inside(xs) /\ disk \in [Address -> Byte]
  BY Running, AskedParts, FileParts DEF IOInv, Shape
<1>2. PICK gap \in Contents!Gaps(s, pos) :
             Bytes(disk, xs, size'[F]) = Contents!Patched(s, pos, data, gap)
  <2> DEFINE M == size'[F]
             N == size[F]
  <2>1. M = IF N > pos + Len(data) THEN N ELSE pos + Len(data)
    OBVIOUS
  <2> HIDE DEF M, N, xs, s
  <2>2. \A j \in 1 .. Len(data) : ByteAt(disk, xs, pos + j - 1) = data[j]
    BY DEF xs
  <2>3. N \in Nat
    BY <1>1 DEF N
  <2>4. GrownTo(disk, xs, N, pos, data, M)
    BY <1>1, <2>1, <2>2, <2>3, Grown
  <2> QED
    BY <2>4 DEF M, N, s, GrownTo
<1>3. Files' = [Files EXCEPT ![F] = Bytes(disk, xs, size'[F])]
  BY <1>1, OneFile
<1> HIDE DEF s
<1> QED
  BY <1>1, <1>2, <1>3

LEMMA ExtendedIsEndGrow ==
    ASSUME IOInv, IOInv', Extended
    PROVE  Contents!EndGrow
<1> DEFINE F == call.file
<1>1. /\ call.op = "alloc" /\ call.next = "grow" /\ Return("ok", <<>>)
      /\ size' = [size EXCEPT ![F] = call.count]
      /\ UNCHANGED <<disk, bitmap, used, extents>>
  BY DEF Extended
<1>2. /\ F \in File /\ size[F] \in Nat /\ size \in [File -> Nat]
      /\ call.count \in Nat /\ call.count > size[F]
  BY <1>1, Running, CallParts DEF IOInv, Called, Shape
<1>3. <<>> \in Seq(Byte) /\ Len(<<>>) = 0
  BY EmptySeq
<1>4. \E gap \in Contents!Gaps(Contents!Own, call.count) :
         Files' = [Files EXCEPT ![F] = Contents!Patched(Contents!Own, call.count, <<>>, gap)]
  <2>1. /\ size'[F] = IF size[F] > call.count + Len(<<>>) THEN size[F]
                      ELSE call.count + Len(<<>>)
        /\ \A f \in File \ {F} : size'[f] = size[f]
    BY <1>1, <1>2, <1>3
  <2>2. \A j \in 1 .. Len(<<>>) : ByteAt(disk, extents[F], call.count + j - 1) = <<>>[j]
    BY <1>3
  <2> QED
    BY <1>1, <1>2, <1>3, <2>1, <2>2, GrownFile
<1>5. Contents!End("ok", <<>>)
  BY <1>1, EndedIs
<1> QED
  BY <1>1, <1>4, <1>5, AskedParts DEF Contents!EndGrow, Files

LEMMA WriteDoneIsEndWrite ==
    ASSUME IOInv, IOInv', WriteDone
    PROVE  Contents!EndWrite
<1> DEFINE F == call.file
           l == Len(call.data)
<1>1. /\ call.op = "write" /\ call.done = l /\ Return("ok", call.data)
      /\ size' = IF call.pos + call.done > size[F]
                 THEN [size EXCEPT ![F] = call.pos + call.done] ELSE size
      /\ UNCHANGED <<disk, bitmap, used, extents>>
  BY DEF WriteDone
<1>2. /\ F \in File /\ call.pos \in Nat /\ l \in Nat /\ call.next = "write"
      /\ size \in [File -> Nat] /\ call.data \in Seq(Byte) /\ size[F] \in Nat
  BY <1>1, WriteParts
<1>3. /\ size'[F] = IF size[F] > call.pos + l THEN size[F] ELSE call.pos + l
      /\ \A f \in File \ {F} : size'[f] = size[f]
  BY <1>1, <1>2
<1>4. \A j \in 1 .. l : ByteAt(disk, extents[F], call.pos + j - 1) = call.data[j]
  BY <1>1 DEF IOInv, Filled, Placed, Found, At, ByteAt
<1>5. \E gap \in Contents!Gaps(Contents!Own, call.pos) :
         Files' = [Files EXCEPT ![F] = Contents!Patched(Contents!Own, call.pos, call.data, gap)]
  BY <1>1, <1>2, <1>3, <1>4, GrownFile
<1>6. Contents!End("ok", call.data)
  BY <1>1, EndedIs
<1> QED
  BY <1>2, <1>5, <1>6, AskedParts DEF Contents!EndWrite, Files

-----------------------------------------------------------------------------
(* Bytes that land.                                                        *)

LEMMA ChunkLands ==
    ASSUME IOInv, IOInv', call.op = "write", UNCHANGED <<extents, size>>,
           NEW m \in Nat, call.done + m <= Len(call.data),
           NEW o, o = call.pos + call.done, o < AllocatedSize(extents[call.file]),
           m <= AvailableBytes(extents[call.file], o),
           disk' = Stored(GlobalOffset(extents[call.file], o),
                          SubSeq(call.data, call.done + 1, call.done + m))
    PROVE  /\ call.done + m \in 0 .. Len(call.data)
           /\ Files' = [Files EXCEPT ![call.file] = Contents!Landed(call.done + m)]
<1> DEFINE F == call.file
           xs == extents[F]
           u == call.pos
           v == call.done
<1>1. /\ F \in File /\ u \in Nat /\ v \in Nat /\ o \in Nat /\ o = u + v
      /\ xs \in Seq(FreeExtent) /\ Inside(xs) /\ AllocatedSize(xs) \in Nat
      /\ size[F] \in Nat /\ Len(call.data) \in Nat
  BY WriteParts, FileParts DEF IOInv
<1>2. \A f \in File, p \in Nat : p < AllocatedSize(extents[f]) =>
         disk'[GlobalOffset(extents[f], p)] =
            IF f = F /\ o <= p /\ p < o + m THEN call.data[p - u + 1]
            ELSE disk[GlobalOffset(extents[f], p)]
  BY StoredBytes
<1>3. \A j \in 1 .. v : /\ u + j - 1 < AllocatedSize(xs)
                        /\ disk[GlobalOffset(xs, u + j - 1)] = call.data[j]
  BY DEF IOInv, Filled, Placed, Found, At
<1>4. \A i \in Nat : i < m => o + i < AllocatedSize(xs)
  <2>1. /\ AvailableBytes(xs, o) \in Nat
        /\ \A i \in Nat : i < AvailableBytes(xs, o) => o + i < AllocatedSize(xs)
    <3> HIDE DEF xs
    <3> QED
      BY <1>1, Onwards DEF xs
  <2> QED
    BY <2>1
<1>5. v + m \in 0 .. Len(call.data)
  BY <1>1
<1> HIDE DEF u, v
<1>6. ASSUME NEW k \in 1 .. size[F]
      PROVE  ByteAt(disk', xs, k - 1) =
                IF u < k /\ k <= u + (v + m) THEN call.data[k - u]
                ELSE ByteAt(disk, xs, k - 1)
  <2> DEFINE p == k - 1
  <2>1. p \in Nat /\ p - u + 1 = k - u
    BY <1>1
  <2>2. CASE u < k /\ k <= u + v
    <3>0. u \in Nat /\ v \in Nat /\ o = u + v /\ k \in Int
      BY <1>1
    <3>1. k - u \in 1 .. v /\ u + (k - u) - 1 = p /\ ~(o <= p) /\ k <= u + (v + m)
      BY <2>2, <3>0
    <3>2. p < AllocatedSize(xs) /\ disk[GlobalOffset(xs, p)] = call.data[k - u]
      BY <1>3, <3>1
    <3> HIDE DEF p
    <3>3. disk'[GlobalOffset(xs, p)] = disk[GlobalOffset(xs, p)]
      BY <1>1, <1>2, <2>1, <3>1, <3>2
    <3>4. ByteAt(disk', xs, p) = call.data[k - u]
      BY <3>2, <3>3 DEF ByteAt
    <3> QED
      BY <2>2, <3>1, <3>4 DEF p
  <2>3. CASE u + v < k /\ k <= u + (v + m)
    <3>0. u \in Nat /\ v \in Nat /\ o = u + v /\ k \in Int
      BY <1>1
    <3>1. /\ o <= p /\ p < o + m /\ p - o \in Nat /\ p - o < m /\ o + (p - o) = p
          /\ u < k
      BY <2>3, <3>0
    <3>2. p < AllocatedSize(xs)
      BY <1>4, <3>1
    <3> HIDE DEF p
    <3>3. disk'[GlobalOffset(xs, p)] = call.data[k - u]
      BY <1>1, <1>2, <2>1, <3>1, <3>2
    <3>4. ByteAt(disk', xs, p) = call.data[k - u]
      BY <3>2, <3>3 DEF ByteAt
    <3> QED
      BY <2>3, <3>1, <3>4 DEF p
  <2>4. CASE ~(u < k /\ k <= u + (v + m))
    <3>1. ~(o <= p /\ p < o + m)
      BY <1>1, <2>4
    <3> HIDE DEF p
    <3>2. p < AllocatedSize(xs) => disk'[GlobalOffset(xs, p)] = disk[GlobalOffset(xs, p)]
      BY <1>1, <1>2, <2>1, <3>1
    <3>3. ByteAt(disk', xs, p) = ByteAt(disk, xs, p)
      BY <3>2 DEF ByteAt
    <3> QED
      BY <2>4, <3>3 DEF p
  <2> QED
    BY <1>1, <2>2, <2>3, <2>4
<1>7. Contents!Landed(v + m) =
        [k \in 1 .. size[F] |-> IF u < k /\ k <= u + (v + m) THEN call.data[k - u]
                               ELSE ByteAt(disk, xs, k - 1)]
  BY <1>5, LandedFile DEF u, v
<1>8. Contents!Landed(v + m) = Bytes(disk', xs, size[F])
  BY <1>6, <1>7 DEF Bytes
<1>9. ASSUME NEW f \in File \ {F}
      PROVE  Bytes(disk', extents'[f], size'[f]) = Bytes(disk, extents[f], size[f])
  <2>1. \A k \in 1 .. size[f] : ByteAt(disk', extents[f], k - 1) = ByteAt(disk, extents[f], k - 1)
    <3> TAKE k \in 1 .. size[f]
    <3>1. k - 1 \in Nat /\ f # F
      BY FileParts DEF IOInv
    <3> QED
      BY <1>2, <3>1 DEF ByteAt
  <2> QED
    BY <2>1 DEF Bytes
<1>10. Files' = [Files EXCEPT ![F] = Contents!Landed(v + m)]
  BY <1>1, <1>8, <1>9, OneFile
<1> QED
  BY <1>5, <1>10 DEF v

LEMMA WriteChunkLands ==
    ASSUME IOInv, IOInv', WriteChunk
    PROVE  Contents!WriteSome \/ Contents!EndFailed
<1> DEFINE F == call.file
           o == call.pos + call.done
           xs == extents[F]
<1>1. /\ call.op = "write" /\ UNCHANGED <<bitmap, used, extents, size>>
      /\ o < AllocatedSize(xs)
  BY WriteChunkPlace
<1>2. PICK n \in Nat :
             /\ n >= 1 /\ call.done + n <= Len(call.data)
             /\ n <= AvailableBytes(xs, o)
             /\ \/ /\ disk' = Stored(GlobalOffset(xs, o),
                                     SubSeq(call.data, call.done + 1, call.done + n))
                   /\ call' = [call EXCEPT !.done = call.done + n]
                   /\ UNCHANGED reply
                \/ \E m \in 0 .. (n - 1) :
                   /\ disk' = Stored(GlobalOffset(xs, o),
                                     SubSeq(call.data, call.done + 1, call.done + m))
                   /\ Return("fault", <<>>)
  BY WriteChunkCases
<1>3. /\ call.done \in Nat /\ Len(call.data) \in Nat /\ call.next = "write" /\ o \in Nat
      /\ xs \in Seq(FreeExtent) /\ Inside(xs)
  BY <1>1, WriteParts, FileParts DEF IOInv
<1>4. ASSUME disk' = Stored(GlobalOffset(xs, o),
                            SubSeq(call.data, call.done + 1, call.done + n)),
             call' = [call EXCEPT !.done = call.done + n], UNCHANGED reply
      PROVE  Contents!WriteSome
  <2>1. /\ call.done + n \in 0 .. Len(call.data)
        /\ Files' = [Files EXCEPT ![F] = Contents!Landed(call.done + n)]
    BY <1>1, <1>2, <1>4, ChunkLands
  <2>2. call.done + n \in 1 .. Len(call.data)
    BY <1>2, <1>3
  <2>3. Asked' = Asked
    <3>1. /\ call'.next = call.next /\ call'.file = call.file /\ call'.pos = call.pos
          /\ call'.append = call.append /\ call'.data = call.data /\ call'.count = call.count
      BY <1>4 DEF IOInv, Shape, Call
    <3> QED
      BY <3>1 DEF Asked
  <2> QED
    BY <1>1, <1>3, <1>4, <2>1, <2>2, <2>3, AskedParts DEF Contents!WriteSome, Files
<1>5. ASSUME NEW m \in 0 .. (n - 1),
             disk' = Stored(GlobalOffset(xs, o),
                            SubSeq(call.data, call.done + 1, call.done + m)),
             Return("fault", <<>>)
      PROVE  Contents!EndFailed
  <2>1. m \in Nat /\ m <= AvailableBytes(xs, o) /\ call.done + m <= Len(call.data)
    <3>1. AvailableBytes(xs, o) \in Nat
      BY <1>1, <1>3, Onwards
    <3> QED
      BY <1>2, <1>3, <3>1
  <2>2. /\ call.done + m \in 0 .. Len(call.data)
        /\ Files' = [Files EXCEPT ![F] = Contents!Landed(call.done + m)]
    BY <1>1, <1>5, <2>1, ChunkLands
  <2>3. Contents!MayFail("fault")
    BY DEF Contents!MayFail
  <2> QED
    BY <1>1, <1>5, <2>2, <2>3, FailedIs
<1> QED
  BY <1>2, <1>4, <1>5

-----------------------------------------------------------------------------
(* The refinement.                                                         *)

LEMMA InitIsEmpty ==
    ASSUME Init
    PROVE  Contents!ContentsInit
<1>1. IOInv
  BY InitInv
<1>2. /\ used = {} /\ call = Idle /\ reply = NoReply
      /\ extents = [f \in File |-> <<>>] /\ size = [f \in File |-> 0]
  BY DEF Init
<1>3. Files = [f \in File |-> <<>>]
  BY <1>1, <1>2, FilesNow, NoBytes
<1>4. Asked = [op |-> "none", file |-> 0, pos |-> 0, append |-> FALSE,
               data |-> <<>>, count |-> 0]
  BY <1>2 DEF Asked, Idle
<1> QED
  BY <1>2, <1>3, <1>4 DEF Contents!ContentsInit, Contents!NoRequest, Contents!NoReply,
     Contents!Reply, NoReply, Reply, Files

\* A step of the code is a step of the specification, or one nobody sees.
LEMMA StepIsContents ==
    ASSUME IOInv, IOInv', Step
    PROVE  [Contents!ContentsNext]_(Contents!contentsVars)
<1>1. ASSUME TakeExtent \/ AllocatedForWrite \/ ReadChunk
      PROVE  UNCHANGED Contents!contentsVars
  BY <1>1, TakeExtentIsUnseen, AllocatedIsUnseen, ReadChunkIsUnseen
<1>2. ASSUME NoSpace \/ WriteAstray \/ ReadAstray PROVE Contents!EndFailed
  BY <1>2, NoSpaceFails, WriteAstrayFails, ReadAstrayFails
<1>3. ASSUME Extended PROVE Contents!EndGrow
  BY <1>3, ExtendedIsEndGrow
<1>4. ASSUME WriteChunk PROVE Contents!WriteSome \/ Contents!EndFailed
  BY <1>4, WriteChunkLands
<1>5. ASSUME WriteDone PROVE Contents!EndWrite
  BY <1>5, WriteDoneIsEndWrite
<1>6. ASSUME ReadDone PROVE Contents!EndRead
  BY <1>6, ReadDoneIsEnd
<1> QED
  BY <1>1, <1>2, <1>3, <1>4, <1>5, <1>6 DEF Step, Contents!ContentsNext

LEMMA NextIsContents ==
    ASSUME IOInv, IOInv', [Next]_vars
    PROVE  [Contents!ContentsNext]_(Contents!contentsVars)
<1>1. ASSUME NEW f \in File, Create(f) \/ Unlink(f) \/ TruncateToZero(f)
      PROVE  Contents!ContentsNext
  BY <1>1, CreateIsNew, UnlinkIsGone, TruncateIsEmptied DEF Contents!ContentsNext
<1>2. ASSUME NEW f \in File, NEW new \in Offsets, BeginExtend(f, new)
      PROVE  Contents!ContentsNext
  BY <1>2, BeginExtendIsAsk DEF Contents!ContentsNext
<1>3. ASSUME NEW f \in File, NEW pos \in Offsets, NEW data \in Data,
             BeginWrite(f, pos, FALSE, data)
      PROVE  Contents!ContentsNext
  BY <1>3, BeginWriteIsAsk DEF Contents!ContentsNext
<1>4. ASSUME NEW f \in File, NEW data \in Data, BeginWrite(f, size[f], TRUE, data)
      PROVE  Contents!ContentsNext
  BY <1>4, BeginAppendIsAsk DEF Contents!ContentsNext
<1>5. ASSUME NEW f \in File, NEW pos \in Offsets, NEW count \in Offsets,
             BeginRead(f, pos, count)
      PROVE  Contents!ContentsNext
  BY <1>5, BeginReadIsAsk DEF Contents!ContentsNext
<1>6. ASSUME NoBuffer \/ ReadFails PROVE Contents!ContentsNext
  BY <1>6, FaultFails DEF Contents!ContentsNext
<1>7. ASSUME UNCHANGED vars PROVE UNCHANGED Contents!contentsVars
  <2>1. /\ UNCHANGED <<disk, extents, size>> /\ UNCHANGED used /\ UNCHANGED reply
        /\ UNCHANGED call
    BY <1>7 DEF vars
  <2>2. Files' = Files
    BY <2>1, SameFiles
  <2> QED
    BY <2>1, <2>2, Unseen
<1> QED
  BY <1>1, <1>2, <1>3, <1>4, <1>5, <1>6, <1>7, StepIsContents DEF Next

\* Files keep their bytes, for every storage, every set of files and all the
\* data and offsets of callers: what portfs_file_write, portfs_file_read and the
\* calls that allocate and free blocks do step by step is what FileContents
\* says of a file that is a sequence of bytes.
THEOREM FilesKeepTheirBytesAlways == Spec => FilesKeepTheirBytes
<1>1. Init => Contents!ContentsInit
  BY InitIsEmpty
<1>2. IOInv /\ IOInv' /\ [Next]_vars => [Contents!ContentsNext]_(Contents!contentsVars)
  BY NextIsContents
<1> QED
  BY <1>1, <1>2, Invariant, PTL DEF Spec, FilesKeepTheirBytes, Contents!ContentsSafety
=============================================================================

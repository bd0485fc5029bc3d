---------------------------- MODULE Races_proofs ----------------------------
(***************************************************************************)
(* Calls that overlap, for any finite number of threads, any geometry and  *)
(* any number of slots and extents.                                        *)
(***************************************************************************)
EXTENDS Races, Extents_proofs, FiniteSetTheorems, WellFoundedInduction, TLAPS

InStorage(x) == BlocksOf(x) \subseteq DataBlock
Changing(c) == c.at \in {"bits", "store"}

\* Where a call can be, and which locals it has there.
CallShape(c) ==
    /\ c.op = "idle" => c = Idle
    /\ c.op = "write" => c.at \in {"take", "bits", "store"}
    /\ c.op = "unlink" => c.at \in {"free", "bits", "store"}
    /\ c.op = "create" => c.at = "slot"
    /\ c.op = "look" =>
          /\ c.dir \in Dir
          /\ c.at \in {"check", "list", "load", "fill", "scan", "bits", "store"}
    /\ c.op = "write" /\ Changing(c) => c.k < DirectExtents
    /\ c.op = "look" /\ Changing(c) => c.ext.start \in DataBlock /\ c.ext.length = 1
    /\ c.op = "unlink" \/ ~Changing(c) => c.ext = NoExtent
    /\ ~Changing(c) => c.todo = {}
    /\ c.at = "store" => c.todo # {}
    /\ c.op # "unlink" => c.todo \subseteq BlocksOf(c.ext)
    /\ InStorage(c.ext)
    /\ \A x \in c.tree : InStorage(x)

Shape ==
    /\ \A t \in Thread : CallShape(call[t])
    /\ \A f \in File, k \in Slot : InStorage(direct[f][k])

\* A slot has a file for each call that removes one, and at most as many files
\* as calls have entered.
Unlinkers(f) == {t \in Thread : call[t].op = "unlink" /\ call[t].file = f}
Creators(f) == {t \in Thread : call[t].op = "create" /\ call[t].file = f}

Counted ==
    \A f \in File : /\ Cardinality(Unlinkers(f)) <= owners[f]
                    /\ owners[f] + Cardinality(Creators(f)) <= begun

Sane == TypeOK /\ Shape /\ Counted

-----------------------------------------------------------------------------
LEMMA Numbers ==
    /\ DataStart \in Nat \ {0} /\ TotalBlocks \in Nat
    /\ MaxExtentLength \in Nat \ {0}
    /\ DirectExtents \in Nat \ {0} /\ MaxFileCount \in Nat \ {0}
    /\ MaxCalls \in Nat
    /\ DataBlock \subseteq Nat \ {0}
    /\ NoDir \notin Dir /\ Wanted \subseteq Nat \ {0}
    /\ 1 \in File
BY GeometryAssumption, RacesAssumption DEF DataBlock, NoDir, File

LEMMA ExtentTypes ==
    /\ NoExtent \in Extent /\ BlocksOf(NoExtent) = {} /\ InStorage(NoExtent)
    /\ FreeExtent \subseteq Extent
BY Numbers DEF NoExtent, Extent, FreeExtent, BlocksOf, InStorage

LEMMA IdleIsCall == Idle \in Call /\ CallShape(Idle)
BY Numbers, ExtentTypes DEF Idle, Call, CallShape, Changing

\* The extents of the tree a write starts with.
LEMMA TreeType ==
    ASSUME NEW bm
    PROVE  /\ FreeExtents(bm) \subseteq FreeExtent
           /\ \A x \in FreeExtents(bm) : InStorage(x)
BY FreeExtentsAreFree DEF InStorage

LEMMA CountTypes ==
    ASSUME TypeOK
    PROVE  /\ begun \in Nat /\ MaxCalls \in Nat /\ begun <= MaxCalls
           /\ \A f \in File : owners[f] \in Nat /\ owners[f] <= MaxCalls
<1>1. MaxCalls \in Nat
  BY RacesAssumption
<1>2. begun \in 0 .. MaxCalls /\ owners \in [File -> 0 .. MaxCalls]
  BY DEF TypeOK
<1> QED
  BY <1>1, <1>2

\* One thread moves.
LEMMA OneMoves ==
    ASSUME call \in [Thread -> Call], NEW t \in Thread, NEW c \in Call,
           call' = [call EXCEPT ![t] = c]
    PROVE  /\ call' \in [Thread -> Call]
           /\ call'[t] = c
           /\ \A u \in Thread : u # t => call'[u] = call[u]
OBVIOUS

\* The bits still to change have a first one: finite sets are well-founded by
\* inclusion, and the elements up to x are fewer than those up to a later one.
LEMMA LowestIsLeast ==
    ASSUME NEW S \in SUBSET DataBlock, S # {}
    PROVE  Lowest(S) \in S
<1> DEFINE Upto(x) == {y \in S : y <= x}
           R == StrictSubsetOrdering(DataBlock)
           T == {Upto(x) : x \in S}
<1>1. IsWellFoundedOn(R, FiniteSubsetsOf(DataBlock))
  BY FS_StrictSubsetOrderingWellFounded
<1>2. T \subseteq FiniteSubsetsOf(DataBlock)
  <2>1. IsFiniteSet(DataBlock)
    BY Numbers, FS_Interval DEF DataBlock
  <2>2. \A x \in S : Upto(x) \in SUBSET DataBlock
    OBVIOUS
  <2>3. \A x \in S : IsFiniteSet(Upto(x))
    BY <2>1, <2>2, FS_Subset
  <2> QED
    BY <2>2, <2>3 DEF FiniteSubsetsOf
<1>3. T # {}
  OBVIOUS
<1> HIDE DEF R, T
<1>4. PICK A \in T : \A B \in T : <<B, A>> \notin R
  BY <1>1, <1>2, <1>3, WFMin
<1>5. PICK x \in S : A = Upto(x)
  BY <1>4 DEF T
<1>6. \A y \in S : x <= y
  <2>1. SUFFICES ASSUME NEW y \in S, y < x PROVE FALSE
    BY Numbers
  <2>2. \A z \in S : z \in Nat
    BY Numbers
  <2>3. Upto(y) \subseteq Upto(x)
    BY <2>1, <2>2
  <2>4. x \in Upto(x) /\ x \notin Upto(y)
    BY <2>1, <2>2
  <2>5. Upto(y) \in T
    BY DEF T
  <2>6. Upto(y) \in SUBSET DataBlock /\ Upto(x) \in SUBSET DataBlock
    OBVIOUS
  <2>7. <<Upto(y), A>> \in R
    BY <2>3, <2>4, <2>6, <1>5 DEF R, StrictSubsetOrdering
  <2> QED
    BY <2>5, <2>7, <1>4
<1> QED
  BY <1>6 DEF Lowest

LEMMA LowestOfOne ==
    ASSUME NEW b \in DataBlock
    PROVE  Lowest({b}) = b
BY Numbers DEF Lowest

\* find_free_block finds one block or none.
LEMMA FreeBlockIsOne ==
    ASSUME NEW bm, FindFreeBlock(bm) # {}
    PROVE  \E b \in DataBlock \ bm : FindFreeBlock(bm) = {b} /\ Lowest(FindFreeBlock(bm)) = b
<1>1. PICK b \in DataBlock \ bm : b \in FindFreeBlock(bm)
  BY DEF FindFreeBlock
<1>2. FindFreeBlock(bm) = {b}
  <2>1. ASSUME NEW c \in FindFreeBlock(bm) PROVE c = b
    <3>1. c \in Nat /\ b \in Nat /\ b <= c /\ c <= b
      BY <1>1, Numbers DEF FindFreeBlock
    <3> QED
      BY <3>1
  <2> QED
    BY <1>1, <2>1
<1> QED
  BY <1>2, LowestOfOne

-----------------------------------------------------------------------------
(* Types: one lemma for the calls after each step.                           *)
Moved(t) ==
    /\ call' \in [Thread -> Call]
    /\ CallShape(call'[t])
    /\ \A u \in Thread : u # t => call'[u] = call[u]

LEMMA MovedTo ==
    ASSUME call \in [Thread -> Call], NEW t \in Thread, NEW c \in Call,
           call' = [call EXCEPT ![t] = c], CallShape(c)
    PROVE  Moved(t)
BY OneMoves DEF Moved

\* A call begins.
Enters(t) ==
    \/ \E f \in File, n \in Wanted : BeginWrite(t, f, n)
    \/ \E f \in File : BeginUnlink(t, f)
    \/ BeginCreate(t)
    \/ \E d \in Dir : BeginLook(t, d)

LEMMA MovedEnter ==
    ASSUME TypeOK, NEW t \in Thread, Enters(t)
    PROVE  Moved(t)
<1> USE DEF Changing
<1> call \in [Thread -> Call] /\ count \in [File -> 0 .. DirectExtents]
  BY DEF TypeOK
<1>1. ASSUME NEW f \in File, NEW n \in Wanted, BeginWrite(t, f, n) PROVE Moved(t)
  <2>0. FreeExtents(bitmap) \subseteq FreeExtent /\ n \in Int
    <3>1. Wanted \subseteq Nat
      BY Numbers
    <3>2. n \in Int
      BY <3>1
    <3> QED
      BY <3>2, TreeType
  <2> DEFINE c == [Idle EXCEPT !.op = "write", !.at = "take", !.file = f, !.left = n,
                               !.k = count[f], !.tree = FreeExtents(bitmap)]
  <2>1. call' = [call EXCEPT ![t] = c]
    BY <1>1 DEF BeginWrite, Enter
  <2>2. c \in Call
    BY <2>0, IdleIsCall DEF Idle, Call
  <2>3. CallShape(c)
    BY TreeType, ExtentTypes DEF Idle, CallShape
  <2> QED
    BY <2>1, <2>2, <2>3, MovedTo
<1>2. ASSUME NEW f \in File, BeginUnlink(t, f) PROVE Moved(t)
  <2> DEFINE c == [Idle EXCEPT !.op = "unlink", !.at = "free", !.file = f]
  <2>1. call' = [call EXCEPT ![t] = c]
    BY <1>2 DEF BeginUnlink, Enter
  <2>2. c \in Call /\ CallShape(c)
    BY IdleIsCall, ExtentTypes DEF Idle, Call, CallShape
  <2> QED
    BY <2>1, <2>2, MovedTo
<1>3. ASSUME BeginCreate(t) PROVE Moved(t)
  <2>1. PICK g \in FreeFileEntry :
            call' = [call EXCEPT ![t] = [Idle EXCEPT !.op = "create", !.at = "slot", !.file = g]]
    BY <1>3 DEF BeginCreate, Enter
  <2> DEFINE c == [Idle EXCEPT !.op = "create", !.at = "slot", !.file = g]
  <2>2. c \in Call /\ CallShape(c)
    BY IdleIsCall, ExtentTypes DEF Idle, Call, CallShape, FreeFileEntry
  <2> QED
    BY <2>1, <2>2, MovedTo
<1>4. ASSUME NEW d \in Dir, BeginLook(t, d) PROVE Moved(t)
  <2> DEFINE c == [Idle EXCEPT !.op = "look", !.at = "check", !.dir = d]
  <2>1. call' = [call EXCEPT ![t] = c]
    BY <1>4 DEF BeginLook, Enter
  <2>2. c \in Call /\ CallShape(c)
    BY IdleIsCall, ExtentTypes DEF Idle, Call, CallShape
  <2> QED
    BY <2>1, <2>2, MovedTo
<1> QED
  BY <1>1, <1>2, <1>3, <1>4 DEF Enters

\* A call that leaves is idle again.
LEMMA MovedOut ==
    ASSUME TypeOK, NEW t \in Thread, Leave(t)
    PROVE  Moved(t) /\ call'[t] = Idle
BY IdleIsCall, MovedTo, OneMoves DEF Leave, TypeOK

\* The same call at another place.
LEMMA MovedOn ==
    ASSUME TypeOK, NEW t \in Thread, NEW p, Goto(t, p),
           p \in {"free", "check", "list", "load", "fill", "scan"},
           CallShape([call[t] EXCEPT !.at = p])
    PROVE  Moved(t) /\ call'[t] = [call[t] EXCEPT !.at = p]
<1> DEFINE c == [call[t] EXCEPT !.at = p]
<1>1. c \in Call
  BY ZenonT(40) DEF TypeOK, Call
<1>2. call' = [call EXCEPT ![t] = c]
  BY DEF Goto
<1> QED
  BY <1>1, <1>2, MovedTo, OneMoves DEF TypeOK

LEMMA MovedBits ==
    ASSUME TypeOK, Shape, NEW t \in Thread, LoadByte(t) \/ StoreByte(t)
    PROVE  Moved(t)
<1> DEFINE b == Lowest(call[t].todo)
<1>0. call \in [Thread -> Call] /\ CallShape(call[t]) /\ bitmap \subseteq DataBlock
  BY DEF TypeOK, Shape
<1>1. ASSUME LoadByte(t) PROVE Moved(t)
  <2> DEFINE c == [call[t] EXCEPT !.byte = bitmap \cap Byte(b), !.at = "store"]
  <2>1. call' = [call EXCEPT ![t] = c]
    BY <1>1 DEF LoadByte
  <2>2. c \in Call
    BY ZenonT(40), <1>0 DEF Call
  <2>3. CallShape(c)
    BY <1>0, <1>1 DEF CallShape, Changing, LoadByte, Call, Idle
  <2> QED
    BY <1>0, <2>1, <2>2, <2>3, MovedTo
<1>2. ASSUME StoreByte(t) PROVE Moved(t)
  <2> DEFINE c == [call[t] EXCEPT !.todo = @ \ {b}, !.byte = {}, !.at = "bits"]
  <2>1. call' = [call EXCEPT ![t] = c]
    BY <1>2 DEF StoreByte
  <2>2. c \in Call
    BY ZenonT(40), <1>0 DEF Call
  <2>3. CallShape(c)
    BY <1>0, <1>2 DEF CallShape, Changing, StoreByte, Call, Idle
  <2> QED
    BY <1>0, <2>1, <2>2, <2>3, MovedTo
<1> QED
  BY <1>1, <1>2

LEMMA MovedWrite ==
    ASSUME TypeOK, Shape, NEW t \in Thread,
           TakeExtent(t) \/ Attach(t) \/ SetCount(t)
    PROVE  Moved(t)
<1>0. call \in [Thread -> Call] /\ CallShape(call[t]) /\ call[t] \in Call
  BY DEF TypeOK, Shape
<1>1. ASSUME TakeExtent(t) PROVE Moved(t)
  <2>1. PICK x \in FirstExtent(call[t].tree) :
          call' = [call EXCEPT ![t].ext = x, ![t].todo = BlocksOf(x),
                               ![t].tree = @ \ {x}, ![t].left = @ - x.length,
                               ![t].at = "bits"]
    BY <1>1 DEF TakeExtent
  <2> DEFINE c == [call[t] EXCEPT !.ext = x, !.todo = BlocksOf(x), !.tree = @ \ {x},
                                  !.left = @ - x.length, !.at = "bits"]
  <2>2. call' = [call EXCEPT ![t] = c]
    BY <2>1
  <2>3. x \in call[t].tree
    BY DEF FirstExtent
  <2>4. x \in FreeExtent /\ InStorage(x)
    BY <1>0, <2>3 DEF CallShape, Call
  <2>5. x \in Extent /\ x.length \in Int
    BY <2>4, ExtentTypes, Numbers DEF FreeExtent
  <2>6. c \in Call
    <3>1. call[t].left \in Int /\ call[t].tree \subseteq FreeExtent
      BY <1>0 DEF Call
    <3>2. call[t].left - x.length \in Int /\ call[t].tree \ {x} \subseteq FreeExtent
      BY <2>5, <3>1
    <3>3. BlocksOf(x) \subseteq DataBlock
      BY <2>4 DEF InStorage
    <3> QED
      BY <1>0, <2>5, <3>2, <3>3 DEF Call
  <2>7. CallShape(c)
    BY <1>0, <1>1, <2>4 DEF CallShape, Changing, TakeExtent, At, GoesOn, Call
  <2> QED
    BY <1>0, <2>2, <2>6, <2>7, MovedTo
<1>2. ASSUME Attach(t) PROVE Moved(t)
  <2> DEFINE c == [call[t] EXCEPT !.k = @ + 1, !.ext = NoExtent, !.at = "take"]
  <2>1. call' = [call EXCEPT ![t] = c]
    BY <1>2 DEF Attach
  <2>2. call[t].k < DirectExtents /\ call[t].k \in 0 .. DirectExtents
    BY <1>0, <1>2 DEF CallShape, Attach, Changed, At, Changing, Call
  <2>3. call[t].k + 1 \in 0 .. DirectExtents
    BY <2>2, Numbers
  <2>4. c \in Call
    BY <1>0, <2>3, ExtentTypes DEF Call
  <2>5. CallShape(c)
    BY <1>0, <1>2, ExtentTypes DEF CallShape, Changing, Attach, Changed, At, Call
  <2> QED
    BY <1>0, <2>1, <2>4, <2>5, MovedTo
<1>3. ASSUME SetCount(t) PROVE Moved(t)
  BY <1>3, MovedOut DEF SetCount
<1> QED
  BY <1>1, <1>2, <1>3

LEMMA MovedUnlink ==
    ASSUME TypeOK, Shape, NEW t \in Thread,
           FreeNextExtent(t) \/ ExtentFreed(t) \/ ClearEntry(t)
    PROVE  Moved(t)
<1>0. call \in [Thread -> Call] /\ CallShape(call[t]) /\ call[t] \in Call
  BY DEF TypeOK, Shape
<1>1. ASSUME FreeNextExtent(t) PROVE Moved(t)
  <2> DEFINE f == call[t].file
             x == direct[f][call[t].k]
             c == [call[t] EXCEPT !.todo = BlocksOf(x), !.k = @ + 1, !.at = "bits"]
  <2>1. call' = [call EXCEPT ![t] = c]
    BY <1>1 DEF FreeNextExtent
  <2>2. f \in File /\ call[t].k \in 0 .. DirectExtents /\ call[t].k < count[f]
        /\ count[f] \in 0 .. DirectExtents
    BY <1>0, <1>1 DEF FreeNextExtent, At, Call, TypeOK
  <2>3. call[t].k + 1 \in 0 .. DirectExtents /\ call[t].k \in Slot
    BY <2>2, Numbers DEF Slot
  <2>4. BlocksOf(x) \subseteq DataBlock
    BY <2>2, <2>3 DEF Shape, InStorage
  <2>5. c \in Call
    BY <1>0, <2>3, <2>4 DEF Call
  <2>6. CallShape(c)
    BY <1>0, <1>1 DEF CallShape, Changing, FreeNextExtent, At, Call
  <2> QED
    BY <1>0, <2>1, <2>5, <2>6, MovedTo
<1>2. ASSUME ExtentFreed(t) PROVE Moved(t)
  <2>1. CallShape([call[t] EXCEPT !.at = "free"])
    BY <1>0, <1>2 DEF CallShape, Changing, ExtentFreed, Changed, At, Call
  <2> QED
    BY <1>2, <2>1, MovedOn DEF ExtentFreed
<1>3. ASSUME ClearEntry(t) PROVE Moved(t)
  BY <1>3, MovedOut DEF ClearEntry
<1> QED
  BY <1>1, <1>2, <1>3

LEMMA MovedLook ==
    ASSUME TypeOK, Shape, NEW t \in Thread,
           \/ CheckList(t) \/ AllocateList(t) \/ FindDirBlock(t) \/ SetDirBlock(t)
           \/ ReadDirBlock(t) \/ NoReadBuffer(t) \/ ReadFails(t) \/ FillList(t) \/ ScanList(t)
    PROVE  Moved(t)
<1>0. call \in [Thread -> Call] /\ CallShape(call[t]) /\ call[t] \in Call
  BY DEF TypeOK, Shape
<1>1. ASSUME call[t].op = "look", ~Changing(call[t]),
             NEW p \in {"check", "list", "load", "fill", "scan"}
      PROVE  CallShape([call[t] EXCEPT !.at = p])
  BY <1>0, <1>1 DEF CallShape, Changing, Call
<1>2. ASSUME CheckList(t) PROVE Moved(t)
  BY <1>2, <1>1, MovedOn DEF CheckList, At, Changing
<1>3. ASSUME AllocateList(t) PROVE Moved(t)
  BY <1>3, <1>1, MovedOn DEF AllocateList, At, Changing
<1>4. ASSUME FindDirBlock(t) PROVE Moved(t)
  <2>1. CASE FindFreeBlock(bitmap) = {}
    <3>1. Goto(t, "scan")
      BY <1>4, <2>1 DEF FindDirBlock, Goto
    <3> QED
      BY <1>4, <3>1, <1>1, MovedOn DEF FindDirBlock, At, Changing
  <2>2. CASE FindFreeBlock(bitmap) # {}
    <3>1. PICK b \in DataBlock : FindFreeBlock(bitmap) = {b} /\ Lowest(FindFreeBlock(bitmap)) = b
      BY <2>2, FreeBlockIsOne
    <3> DEFINE x == [start |-> b, length |-> 1]
               c == [call[t] EXCEPT !.todo = {b}, !.ext = x, !.at = "bits"]
    <3>2. call' = [call EXCEPT ![t] = c]
      BY <1>4, <2>2, <3>1 DEF FindDirBlock
    <3>3. x \in Extent /\ BlocksOf(x) = {b}
      BY Numbers DEF Extent, BlocksOf
    <3>4. c \in Call
      BY <1>0, <3>3 DEF Call
    <3>5. CallShape(c)
      BY <1>0, <1>4, <3>3 DEF CallShape, Changing, FindDirBlock, At, Call, InStorage
    <3> QED
      BY <1>0, <3>2, <3>4, <3>5, MovedTo
  <2> QED
    BY <2>1, <2>2
<1>5. ASSUME SetDirBlock(t) PROVE Moved(t)
  <2> DEFINE c == [call[t] EXCEPT !.ext = NoExtent, !.at = "scan"]
  <2>1. call' = [call EXCEPT ![t] = c]
    BY <1>5 DEF SetDirBlock
  <2>2. c \in Call
    BY <1>0, ExtentTypes DEF Call
  <2>3. CallShape(c)
    BY <1>0, <1>5, ExtentTypes DEF CallShape, Changing, SetDirBlock, Changed, At, Call
  <2> QED
    BY <1>0, <2>1, <2>2, <2>3, MovedTo
<1>6. ASSUME ReadDirBlock(t) PROVE Moved(t)
  BY <1>6, <1>1, MovedOn DEF ReadDirBlock, At, Changing
<1>7. ASSUME NoReadBuffer(t) \/ ReadFails(t) PROVE Moved(t)
  BY <1>7, <1>1, MovedOn DEF NoReadBuffer, ReadFails, At, Changing
<1>8. ASSUME FillList(t) PROVE Moved(t)
  BY <1>8, <1>1, MovedOn DEF FillList, At, Changing
<1>9. ASSUME ScanList(t) PROVE Moved(t)
  BY <1>9, MovedOut DEF ScanList
<1> QED
  BY <1>2, <1>3, <1>4, <1>5, <1>6, <1>7, <1>8, <1>9

LEMMA MovedTake ==
    ASSUME TypeOK, NEW t \in Thread, TakeSlot(t)
    PROVE  Moved(t)
BY MovedOut DEF TakeSlot

\* How many calls remove a file, or make one, after a step of thread t.
Joins(now, next) == IF next THEN IF now THEN 0 ELSE 1 ELSE IF now THEN -1 ELSE 0
IsUnlinker(c, f) == c.op = "unlink" /\ c.file = f
IsCreator(c, f) == c.op = "create" /\ c.file = f

LEMMA CountAfter ==
    ASSUME NEW S \in SUBSET Thread, NEW U \in SUBSET Thread, NEW t \in Thread,
           \A u \in Thread : u # t => (u \in U <=> u \in S)
    PROVE  /\ Cardinality(S) \in Nat /\ Cardinality(U) \in Nat
           /\ Cardinality(U) = Cardinality(S) + Joins(t \in S, t \in U)
<1>1. IsFiniteSet(S) /\ IsFiniteSet(U)
  BY RacesAssumption, FS_Subset
<1>2. Cardinality(S) \in Nat /\ Cardinality(U) \in Nat
  BY <1>1, FS_CardinalityType
<1>3. CASE t \in U
  <2>1. U = S \cup {t}
    BY <1>3
  <2>2. Cardinality(U) = IF t \in S THEN Cardinality(S) ELSE Cardinality(S) + 1
    BY <1>1, <2>1, FS_AddElement
  <2> QED
    BY <1>2, <1>3, <2>2 DEF Joins
<1>4. CASE t \notin U
  <2>1. U = S \ {t}
    BY <1>4
  <2>2. Cardinality(U) = IF t \in S THEN Cardinality(S) - 1 ELSE Cardinality(S)
    BY <1>1, <2>1, FS_RemoveElement
  <2> QED
    BY <1>2, <1>4, <2>2 DEF Joins
<1> QED
  BY <1>2, <1>3, <1>4

LEMMA CountsAfter ==
    ASSUME NEW t \in Thread, Moved(t), NEW f \in File
    PROVE  /\ Cardinality(Unlinkers(f)) \in Nat /\ Cardinality(Creators(f)) \in Nat
           /\ Cardinality(Unlinkers(f)') = Cardinality(Unlinkers(f))
                 + Joins(IsUnlinker(call[t], f), IsUnlinker(call'[t], f))
           /\ Cardinality(Creators(f)') = Cardinality(Creators(f))
                 + Joins(IsCreator(call[t], f), IsCreator(call'[t], f))
           /\ t \in Unlinkers(f) => Cardinality(Unlinkers(f)) > 0
<1>1. /\ Unlinkers(f) \in SUBSET Thread /\ Unlinkers(f)' \in SUBSET Thread
      /\ Creators(f) \in SUBSET Thread /\ Creators(f)' \in SUBSET Thread
      /\ \A u \in Thread : u # t => (u \in Unlinkers(f)' <=> u \in Unlinkers(f))
      /\ \A u \in Thread : u # t => (u \in Creators(f)' <=> u \in Creators(f))
      /\ t \in Unlinkers(f) <=> IsUnlinker(call[t], f)
      /\ t \in Unlinkers(f)' <=> IsUnlinker(call'[t], f)
      /\ t \in Creators(f) <=> IsCreator(call[t], f)
      /\ t \in Creators(f)' <=> IsCreator(call'[t], f)
  BY DEF Moved, Unlinkers, Creators, IsUnlinker, IsCreator
<1>2. t \in Unlinkers(f) => Cardinality(Unlinkers(f)) > 0
  <2>1. IsFiniteSet(Unlinkers(f))
    BY <1>1, RacesAssumption, FS_Subset
  <2> QED
    BY <2>1, FS_EmptySet, FS_CardinalityType
<1>3. Cardinality(Unlinkers(f)) \in Nat
      /\ Cardinality(Unlinkers(f)') = Cardinality(Unlinkers(f)) + Joins(t \in Unlinkers(f), t \in Unlinkers(f)')
  BY <1>1, CountAfter
<1>4. Cardinality(Creators(f)) \in Nat
      /\ Cardinality(Creators(f)') = Cardinality(Creators(f)) + Joins(t \in Creators(f), t \in Creators(f)')
  BY <1>1, CountAfter
<1> QED
  BY <1>1, <1>2, <1>3, <1>4 DEF Joins

-----------------------------------------------------------------------------
(* The other variables.                                                      *)
Stays(t) == call'[t].op = call[t].op /\ call'[t].file = call[t].file

\* Steps in the middle of a call.
LEMMA StaysWithin ==
    ASSUME TypeOK, NEW t \in Thread,
           \/ LoadByte(t) \/ StoreByte(t) \/ TakeExtent(t) \/ Attach(t)
           \/ FreeNextExtent(t) \/ ExtentFreed(t)
           \/ CheckList(t) \/ AllocateList(t) \/ FindDirBlock(t) \/ SetDirBlock(t)
           \/ ReadDirBlock(t) \/ NoReadBuffer(t) \/ ReadFails(t) \/ FillList(t)
    PROVE  Stays(t)
<1> call \in [Thread -> Call] /\ call[t] \in Call
  BY DEF TypeOK
<1>1. CASE LoadByte(t) \/ StoreByte(t)
  BY <1>1 DEF LoadByte, StoreByte, Stays, Call
<1>2. CASE TakeExtent(t)
  <2>1. PICK x \in FirstExtent(call[t].tree) :
          call' = [call EXCEPT ![t].ext = x, ![t].todo = BlocksOf(x),
                               ![t].tree = @ \ {x}, ![t].left = @ - x.length,
                               ![t].at = "bits"]
    BY <1>2 DEF TakeExtent
  <2>2. call' = [call EXCEPT ![t] = [call[t] EXCEPT !.ext = x, !.todo = BlocksOf(x),
                     !.tree = @ \ {x}, !.left = @ - x.length, !.at = "bits"]]
    BY <2>1
  <2> QED
    BY <2>2 DEF Stays, Call
<1>6. CASE Attach(t)
  BY <1>6 DEF Attach, Stays, Call
<1>3. CASE FreeNextExtent(t) \/ ExtentFreed(t)
  BY <1>3 DEF FreeNextExtent, ExtentFreed, Goto, Stays, Call
<1>4. CASE CheckList(t) \/ AllocateList(t) \/ ReadDirBlock(t) \/ ReadFails(t) \/ FillList(t)
  BY ZenonT(40), <1>4 DEF CheckList, AllocateList, ReadDirBlock, ReadFails, FillList, Goto, Stays, Call
<1>5. CASE FindDirBlock(t) \/ SetDirBlock(t)
  BY <1>5 DEF FindDirBlock, SetDirBlock, Stays, Call
<1>7. CASE NoReadBuffer(t)
  BY <1>7 DEF NoReadBuffer, Goto, Stays, Call
<1> QED
  BY <1>1, <1>2, <1>3, <1>4, <1>5, <1>6, <1>7

LEMMA CountedStays ==
    ASSUME Sane, NEW t \in Thread, Moved(t), owners' = owners, begun' = begun,
           Stays(t) \/ (call'[t] = Idle /\ call[t].op \in {"write", "look"})
    PROVE  Counted'
<1>1. ASSUME NEW f \in File
      PROVE  /\ Cardinality(Unlinkers(f)') = Cardinality(Unlinkers(f))
             /\ Cardinality(Creators(f)') = Cardinality(Creators(f))
  <2>1. /\ IsUnlinker(call[t], f) <=> IsUnlinker(call'[t], f)
        /\ IsCreator(call[t], f) <=> IsCreator(call'[t], f)
    BY DEF Stays, IsUnlinker, IsCreator, Idle
  <2>2. /\ Joins(IsUnlinker(call[t], f), IsUnlinker(call'[t], f)) = 0
        /\ Joins(IsCreator(call[t], f), IsCreator(call'[t], f)) = 0
    BY <2>1 DEF Joins
  <2>3. /\ Cardinality(Unlinkers(f)) \in Nat /\ Cardinality(Creators(f)) \in Nat
        /\ Cardinality(Unlinkers(f)') = Cardinality(Unlinkers(f)) + 0
        /\ Cardinality(Creators(f)') = Cardinality(Creators(f)) + 0
    BY <2>2, CountsAfter
  <2> QED
    BY <2>3
<1> QED
  BY <1>1 DEF Counted, Sane

LEMMA TypesEnter ==
    ASSUME Sane, NEW t \in Thread, Enters(t)
    PROVE  Sane'
<1> TypeOK /\ Shape /\ Counted
  BY DEF Sane
<1>1. Moved(t)
  BY MovedEnter
<1>2. /\ call[t].op = "idle" /\ begun < MaxCalls /\ begun' = begun + 1
      /\ UNCHANGED <<bitmap, files, dirs>>
      /\ past' \subseteq past \cup {"same file", "same directory", "creations"}
  BY DEF Enters, BeginWrite, BeginUnlink, BeginCreate, BeginLook, Enter
<1>3. TypeOK'
  <2>1. begun' \in 0 .. MaxCalls
    <3>1. begun \in Nat /\ MaxCalls \in Nat /\ begun < MaxCalls /\ begun' = begun + 1
      BY <1>2, CountTypes
    <3> QED
      BY <3>1
  <2> QED
    BY <1>1, <1>2, <2>1 DEF TypeOK, Moved, files, dirs
<1>4. Shape'
  BY <1>1, <1>2 DEF Shape, Moved, files
<1>5. ASSUME NEW g \in File
      PROVE  /\ Cardinality(Unlinkers(g)') <= owners[g]
             /\ Cardinality(Creators(g)') <= Cardinality(Creators(g)) + 1
             /\ Cardinality(Creators(g)) \in Nat /\ Cardinality(Creators(g)') \in Int
  <2>1. /\ Cardinality(Unlinkers(g)) \in Nat /\ Cardinality(Creators(g)) \in Nat
        /\ Cardinality(Unlinkers(g)') = Cardinality(Unlinkers(g))
              + Joins(IsUnlinker(call[t], g), IsUnlinker(call'[t], g))
        /\ Cardinality(Creators(g)') = Cardinality(Creators(g))
              + Joins(IsCreator(call[t], g), IsCreator(call'[t], g))
    BY <1>1, CountsAfter
  <2>2. ~IsUnlinker(call[t], g) /\ ~IsCreator(call[t], g)
    BY <1>2 DEF IsUnlinker, IsCreator
  <2>3. Cardinality(Unlinkers(g)) <= owners[g] /\ owners[g] \in Nat
    BY CountTypes DEF Counted
  <2>4. CASE IsUnlinker(call'[t], g)
    <3>1. BeginUnlink(t, g)
      <4>1. call \in [Thread -> Call]
        BY DEF TypeOK
      <4>2. call'[t].op = "unlink" /\ call'[t].file = g
        BY <2>4 DEF IsUnlinker
      <4>3. ASSUME NEW f \in File, NEW n \in Wanted, BeginWrite(t, f, n) PROVE FALSE
        BY <4>1, <4>2, <4>3 DEF BeginWrite, Enter, Idle
      <4>4. ASSUME BeginCreate(t) PROVE FALSE
        BY <4>1, <4>2, <4>4 DEF BeginCreate, Enter, Idle
      <4>5. ASSUME NEW d \in Dir, BeginLook(t, d) PROVE FALSE
        BY <4>1, <4>2, <4>5 DEF BeginLook, Enter, Idle
      <4>6. PICK f \in File : BeginUnlink(t, f)
        BY <4>3, <4>4, <4>5 DEF Enters
      <4> QED
        BY <4>1, <4>2, <4>6 DEF BeginUnlink, Enter, Idle
    <3>2. Cardinality(Unlinkers(g)) < owners[g]
      BY <3>1 DEF BeginUnlink, Unlinkers
    <3> QED
      BY <2>1, <2>2, <2>3, <3>2 DEF Joins
  <2>5. CASE ~IsUnlinker(call'[t], g)
    BY <2>1, <2>2, <2>3, <2>5 DEF Joins
  <2> QED
    BY <2>1, <2>2, <2>4, <2>5 DEF Joins
<1>6. Counted'
  <2>1. ASSUME NEW g \in File
        PROVE  owners[g] + Cardinality(Creators(g)') <= begun + 1
    <3>1. owners[g] + Cardinality(Creators(g)) <= begun /\ owners[g] \in Nat /\ begun \in Nat
      BY CountTypes DEF Counted
    <3> QED
      BY <1>5, <3>1
  <2>2. owners' = owners /\ begun' = begun + 1
    BY <1>2 DEF files
  <2> QED
    BY <1>5, <2>1, <2>2 DEF Counted
<1> QED
  BY <1>3, <1>4, <1>6 DEF Sane

LEMMA TypesBits ==
    ASSUME Sane, NEW t \in Thread, LoadByte(t) \/ StoreByte(t)
    PROVE  Sane'
<1> TypeOK /\ Shape /\ Counted
  BY DEF Sane
<1>1. Moved(t) /\ Stays(t)
  BY MovedBits, StaysWithin
<1>2. UNCHANGED <<files, dirs, begun>> /\ past' \subseteq past \cup {"stale", "torn"}
  BY DEF LoadByte, StoreByte
<1>3. bitmap' \subseteq DataBlock
  <2>1. CASE LoadByte(t)
    BY <2>1 DEF LoadByte, TypeOK
  <2>2. CASE StoreByte(t)
    <3>1. /\ call[t].byte \subseteq DataBlock /\ call[t].todo \in SUBSET DataBlock
          /\ call[t].todo # {}
      BY <2>2 DEF TypeOK, Call, Shape, CallShape, StoreByte
    <3>2. Lowest(call[t].todo) \in DataBlock
      BY <3>1, LowestIsLeast
    <3> QED
      BY <2>2, <3>1, <3>2 DEF StoreByte, TypeOK
  <2> QED
    BY <2>1, <2>2
<1>4. TypeOK'
  BY <1>1, <1>2, <1>3 DEF TypeOK, Moved, files, dirs
<1>5. Shape'
  BY <1>1, <1>2 DEF Shape, Moved, files
<1>6. Counted'
  BY <1>1, <1>2, CountedStays DEF files
<1> QED
  BY <1>4, <1>5, <1>6 DEF Sane

LEMMA TypesWrite ==
    ASSUME Sane, NEW t \in Thread, TakeExtent(t) \/ Attach(t) \/ SetCount(t)
    PROVE  Sane'
<1> TypeOK /\ Shape /\ Counted
  BY DEF Sane
<1>1. Moved(t) /\ call[t] \in Call /\ CallShape(call[t])
  BY MovedWrite DEF TypeOK, Shape
<1>2. UNCHANGED <<bitmap, used, owners, dirs, begun, past>>
  BY DEF TakeExtent, Attach, SetCount, files
<1>3. /\ count' \in [File -> 0 .. DirectExtents]
      /\ direct' \in [File -> [Slot -> Extent]]
      /\ \A f \in File, k \in Slot : InStorage(direct'[f][k])
  <2>1. CASE TakeExtent(t)
    BY <2>1 DEF TakeExtent, files, TypeOK, Shape
  <2>2. CASE Attach(t)
    <3>1. call[t].file \in File /\ call[t].ext \in Extent /\ InStorage(call[t].ext)
      BY <1>1 DEF Call, CallShape
    <3>2. count' = count
      BY <2>2 DEF Attach
    <3>3. direct' = [direct EXCEPT ![call[t].file][call[t].k] = call[t].ext]
      BY <2>2 DEF Attach
    <3>4. direct' \in [File -> [Slot -> Extent]]
      BY <3>1, <3>3 DEF TypeOK
    <3>5. \A f \in File, k \in Slot : direct'[f][k] \in {direct[f][k], call[t].ext}
      BY <3>3 DEF TypeOK
    <3> QED
      BY <3>1, <3>2, <3>4, <3>5 DEF TypeOK, Shape
  <2>3. CASE SetCount(t)
    BY <1>1, <2>3 DEF SetCount, TypeOK, Shape, Call
  <2> QED
    BY <2>1, <2>2, <2>3
<1>4. TypeOK'
  BY <1>1, <1>2, <1>3 DEF TypeOK, Moved, dirs
<1>5. Shape'
  BY <1>1, <1>3 DEF Shape, Moved
<1>6. Stays(t) \/ (call'[t] = Idle /\ call[t].op \in {"write", "look"})
  <2>1. CASE TakeExtent(t) \/ Attach(t)
    BY <2>1, StaysWithin
  <2>2. CASE SetCount(t)
    BY <2>2, MovedOut DEF SetCount, At
  <2> QED
    BY <2>1, <2>2
<1>7. Counted'
  BY <1>1, <1>2, <1>6, CountedStays
<1> QED
  BY <1>4, <1>5, <1>7 DEF Sane

\* The last step of a removal or a creation changes the number of owners.
LEMMA OwnersAfter ==
    ASSUME Sane, NEW t \in Thread, ClearEntry(t) \/ TakeSlot(t)
    PROVE  /\ owners' \in [File -> 0 .. MaxCalls]
           /\ Counted'
<1> TypeOK /\ Shape /\ Counted
  BY DEF Sane
<1>1. Moved(t) /\ call'[t] = Idle /\ begun' = begun
  BY MovedOut DEF ClearEntry, TakeSlot
<1> DEFINE o == call[t].file
           step == IF call[t].op = "create" THEN 1 ELSE -1
<1>2. /\ call[t].op \in {"create", "unlink"}
      /\ owners' = [owners EXCEPT ![o] = @ + step]
      /\ owners \in [File -> 0 .. MaxCalls]
  <2>1. CASE ClearEntry(t)
    <3>1. \A n : n + (-1) = n - 1
      OBVIOUS
    <3>2. o \in File /\ owners[o] \in Nat
      BY CountTypes DEF TypeOK, Call
    <3>3. owners[o] + (-1) = owners[o] - 1
      BY <3>2
    <3> QED
      BY <2>1, <3>3 DEF ClearEntry, At, TypeOK
  <2>2. CASE TakeSlot(t)
    BY <2>2 DEF TakeSlot, At, TypeOK
  <2> QED
    BY <2>1, <2>2
<1>3. ASSUME NEW f \in File
      PROVE  /\ owners'[f] \in Nat /\ owners'[f] <= MaxCalls
             /\ Cardinality(Unlinkers(f)') <= owners'[f]
             /\ owners'[f] + Cardinality(Creators(f)') <= begun
  <2>1. /\ Cardinality(Unlinkers(f)) \in Nat /\ Cardinality(Creators(f)) \in Nat
        /\ Cardinality(Unlinkers(f)') = Cardinality(Unlinkers(f))
              + Joins(IsUnlinker(call[t], f), FALSE)
        /\ Cardinality(Creators(f)') = Cardinality(Creators(f))
              + Joins(IsCreator(call[t], f), FALSE)
        /\ t \in Unlinkers(f) => Cardinality(Unlinkers(f)) > 0
    <3>1. ~IsUnlinker(call'[t], f) /\ ~IsCreator(call'[t], f)
      BY <1>1 DEF IsUnlinker, IsCreator, Idle
    <3> QED
      BY <1>1, <3>1, CountsAfter DEF Joins
  <2>2. /\ owners[f] \in Nat /\ begun \in Nat /\ begun <= MaxCalls /\ MaxCalls \in Nat
        /\ Cardinality(Unlinkers(f)) <= owners[f]
        /\ owners[f] + Cardinality(Creators(f)) <= begun
    BY CountTypes DEF Counted
  <2>3. /\ Cardinality(Unlinkers(f)) \in Nat /\ Cardinality(Creators(f)) \in Nat
        /\ Cardinality(Unlinkers(f)') \in Nat /\ Cardinality(Creators(f)') \in Nat
    BY RacesAssumption, FS_Subset, FS_CardinalityType DEF Unlinkers, Creators
  <2>4. CASE o # f
    <3>1. /\ Cardinality(Unlinkers(f)') = Cardinality(Unlinkers(f))
          /\ Cardinality(Creators(f)') = Cardinality(Creators(f))
      BY <2>1, <2>4 DEF Joins, IsUnlinker, IsCreator
    <3>2. owners'[f] = owners[f]
      BY <1>2, <2>4
    <3> QED
      BY <2>2, <2>3, <3>1, <3>2
  <2>5. CASE o = f /\ call[t].op = "create"
    <3>1. /\ Cardinality(Unlinkers(f)') = Cardinality(Unlinkers(f))
          /\ Cardinality(Creators(f)') = Cardinality(Creators(f)) - 1
      BY <2>1, <2>5 DEF Joins, IsUnlinker, IsCreator
    <3>2. owners'[f] = owners[f] + 1
      BY <1>2, <2>5
    <3> QED
      BY <2>2, <2>3, <3>1, <3>2
  <2>6. CASE o = f /\ call[t].op = "unlink"
    <3>1. /\ Cardinality(Unlinkers(f)') = Cardinality(Unlinkers(f)) - 1
          /\ Cardinality(Creators(f)') = Cardinality(Creators(f))
      BY <2>1, <2>6 DEF Joins, IsUnlinker, IsCreator
    <3>2. owners'[f] = owners[f] + (-1)
      BY <1>2, <2>6
    <3>3. Cardinality(Unlinkers(f)) > 0
      BY <2>1, <2>6 DEF Unlinkers
    <3> QED
      BY <2>2, <2>3, <3>1, <3>2, <3>3
  <2> QED
    BY <1>2, <2>4, <2>5, <2>6
<1>4. DOMAIN owners' = File /\ owners' = [f \in File |-> owners'[f]]
  BY <1>2
<1>5. \A f \in File : owners'[f] \in 0 .. MaxCalls
  BY <1>3, CountTypes
<1>6. owners' \in [File -> 0 .. MaxCalls]
  BY <1>4, <1>5
<1> QED
  BY <1>1, <1>3, <1>6 DEF Counted

LEMMA TypesUnlink ==
    ASSUME Sane, NEW t \in Thread,
           \/ FreeNextExtent(t) \/ ExtentFreed(t)
           \/ ClearEntry(t) \/ TakeSlot(t)
    PROVE  Sane'
<1> TypeOK /\ Shape /\ Counted
  BY DEF Sane
<1>1. Moved(t) /\ call[t] \in Call
  BY MovedUnlink, MovedTake DEF TypeOK
<1>2. UNCHANGED <<bitmap, dirs, begun, past>>
  BY DEF FreeNextExtent, ExtentFreed, ClearEntry, TakeSlot
<1>3. CASE FreeNextExtent(t) \/ ExtentFreed(t)
  <2>1. UNCHANGED files /\ Stays(t)
    BY <1>3, StaysWithin DEF FreeNextExtent, ExtentFreed
  <2>2. TypeOK'
    BY <1>1, <1>2, <2>1 DEF TypeOK, Moved, files, dirs
  <2>3. Shape'
    BY <1>1, <2>1 DEF Shape, Moved, files
  <2> QED
    BY <1>1, <1>2, <2>1, <2>2, <2>3, CountedStays DEF files, Sane
<1>4. CASE ClearEntry(t) \/ TakeSlot(t)
  <2>1. owners' \in [File -> 0 .. MaxCalls] /\ Counted'
    BY <1>4, OwnersAfter
  <2>2. /\ used' \subseteq File
        /\ count' \in [File -> 0 .. DirectExtents]
        /\ direct' \in [File -> [Slot -> Extent]]
        /\ \A f \in File, k \in Slot : InStorage(direct'[f][k])
    <3>1. CASE TakeSlot(t)
      BY <1>1, <3>1 DEF TakeSlot, TypeOK, Shape, Call
    <3>2. CASE ClearEntry(t)
      <4>1. call[t].file \in File /\ 0 \in 0 .. DirectExtents
        BY <1>1, Numbers DEF Call
      <4>2. [k \in Slot |-> NoExtent] \in [Slot -> Extent]
        BY ExtentTypes
      <4> QED
        BY <3>2, <4>1, <4>2, ExtentTypes DEF ClearEntry, TypeOK, Shape
    <3> QED
      BY <1>4, <3>1, <3>2
  <2>3. TypeOK'
    BY <1>1, <1>2, <2>1, <2>2 DEF TypeOK, Moved, dirs
  <2>4. Shape'
    BY <1>1, <2>2 DEF Shape, Moved
  <2> QED
    BY <2>1, <2>3, <2>4 DEF Sane
<1> QED
  BY <1>3, <1>4

LEMMA TypesLook ==
    ASSUME Sane, NEW t \in Thread,
           \/ CheckList(t) \/ AllocateList(t) \/ FindDirBlock(t) \/ SetDirBlock(t)
           \/ ReadDirBlock(t) \/ NoReadBuffer(t) \/ ReadFails(t) \/ FillList(t) \/ ScanList(t)
    PROVE  Sane'
<1> TypeOK /\ Shape /\ Counted
  BY DEF Sane
<1>1. Moved(t) /\ call[t] \in Call /\ CallShape(call[t])
  BY MovedLook DEF TypeOK, Shape
<1>2. UNCHANGED <<bitmap, files, begun>> /\ past' \subseteq past \cup {"read failed", "no buffer"}
  BY DEF CheckList, AllocateList, FindDirBlock, SetDirBlock, ReadDirBlock, NoReadBuffer, ReadFails,
         FillList, ScanList
<1>3. call[t].op = "look"
  BY DEF CheckList, AllocateList, FindDirBlock, SetDirBlock, ReadDirBlock, NoReadBuffer, ReadFails,
         FillList, ScanList, At, Changed
<1>4. /\ dirBlock' \in [Dir -> {0} \cup DataBlock]
      /\ list' \in [Dir -> {"null", "blank", "filled", "freed"}]
      /\ missed' \subseteq Dir /\ fault' \in BOOLEAN
  <2>1. call[t].dir \in Dir
    BY <1>1, <1>3 DEF CallShape
  <2>2. CASE CheckList(t) \/ FindDirBlock(t) \/ ReadDirBlock(t) \/ NoReadBuffer(t)
    BY <2>2 DEF CheckList, FindDirBlock, ReadDirBlock, NoReadBuffer, dirs, TypeOK
  <2>3. CASE AllocateList(t) \/ ReadFails(t)
    BY <2>1, <2>3 DEF AllocateList, ReadFails, TypeOK
  <2>4. CASE FillList(t)
    BY <2>1, <2>4 DEF FillList, TypeOK
  <2>5. CASE ScanList(t)
    <3>1. fault' = (list[call[t].dir] \in {"freed", "null"})
      BY <2>5 DEF ScanList
    <3>2. fault' \in BOOLEAN
      BY <3>1
    <3>3. missed' \subseteq Dir /\ UNCHANGED <<dirBlock, list>>
      BY <2>1, <2>5 DEF ScanList, TypeOK
    <3> QED
      BY <3>2, <3>3 DEF TypeOK
  <2>6. CASE SetDirBlock(t)
    <3>1. call[t].ext.start \in DataBlock
      BY <1>1, <2>6 DEF SetDirBlock, Changed, At, CallShape, Changing
    <3> QED
      BY <2>6, <3>1 DEF SetDirBlock, TypeOK
  <2> QED
    BY <2>2, <2>3, <2>4, <2>5, <2>6
<1>5. TypeOK'
  BY <1>1, <1>2, <1>4 DEF TypeOK, Moved, files
<1>6. Shape'
  BY <1>1, <1>2 DEF Shape, Moved, files
<1>7. Stays(t) \/ (call'[t] = Idle /\ call[t].op \in {"write", "look"})
  <2>1. CASE ScanList(t)
    BY <1>3, <2>1, MovedOut DEF ScanList
  <2> QED
    BY <2>1, StaysWithin
<1>8. Counted'
  BY <1>1, <1>2, <1>7, CountedStays DEF files
<1> QED
  BY <1>5, <1>6, <1>8 DEF Sane

LEMMA InitSane == Init => Sane
<1> SUFFICES ASSUME Init PROVE Sane
  OBVIOUS
<1>1. TypeOK
  <2>1. 0 \in 0 .. MaxCalls /\ 0 \in 0 .. DirectExtents
    BY RacesAssumption
  <2>2. bitmap \subseteq DataBlock /\ dirBlock \in [Dir -> {0} \cup DataBlock]
    BY RacesAssumption DEF Init
  <2> QED
    BY <2>1, <2>2, ExtentTypes, IdleIsCall DEF Init, TypeOK
<1>2. Shape
  BY ExtentTypes, IdleIsCall DEF Init, Shape
<1>3. Counted
  <2>1. \A f \in File : Unlinkers(f) = {} /\ Creators(f) = {}
    BY DEF Init, Unlinkers, Creators, Idle
  <2>2. \A f \in File : Cardinality(Unlinkers(f)) = 0 /\ Cardinality(Creators(f)) = 0
    BY <2>1, FS_EmptySet
  <2>3. \A f \in File : owners[f] = 0 /\ begun = 0
    BY DEF Init
  <2> QED
    BY <2>2, <2>3 DEF Counted
<1> QED
  BY <1>1, <1>2, <1>3 DEF Sane

LEMMA StutterSane == Sane /\ UNCHANGED vars => Sane'
BY DEF Sane, TypeOK, Shape, Counted, Unlinkers, Creators, vars, files, dirs

LEMMA NextSane == Sane /\ [Next]_vars => Sane'
<1> SUFFICES ASSUME Sane, Next PROVE Sane'
  BY StutterSane
<1> PICK t \in Thread : Enters(t) \/ NoReadBuffer(t) \/ ReadFails(t) \/ Step(t)
  BY DEF Next, Enters
<1>1. CASE Enters(t)
  BY <1>1, TypesEnter
<1>2. CASE NoReadBuffer(t) \/ ReadFails(t)
  BY <1>2, TypesLook
<1>3. CASE Step(t)
  BY <1>3, TypesBits, TypesWrite, TypesUnlink, TypesLook DEF Step
<1> QED
  BY <1>1, <1>2, <1>3

LEMMA SpecSane == Spec => []Sane
BY InitSane, NextSane, PTL DEF Spec

\* Every variable stays in its set, however calls overlap: a write never goes
\* past the last extent of a file, bits are only changed for data blocks, and
\* a slot never loses more owners than it has.
THEOREM RacesTypeOK == Spec => []TypeOK
<1>1. Sane => TypeOK
  BY DEF Sane
<1> QED
  BY <1>1, SpecSane, PTL

-----------------------------------------------------------------------------
(* Slots.  Without creations that overlap a slot in use has one owner, a     *)
(* free one none, and the slot a creation has found is still free.           *)
NoSlotIsTwice ==
    "creations" \notin past =>
        /\ \A f \in File : owners[f] = IF f \in used THEN 1 ELSE 0
        /\ \A t, u \in Thread : call[t].op = "create" /\ call[u].op = "create" => t = u
        /\ \A t \in Thread : call[t].op = "create" => call[t].file \notin used

\* What a call looks like that has just begun.
Entered(t) ==
    \/ call'[t].op \in {"write", "unlink"} /\ call'[t].file \in File
    \/ call'[t].op = "look" /\ call'[t].at = "check"

LEMMA EnterEffect ==
    ASSUME TypeOK, NEW t \in Thread, Enters(t)
    PROVE  /\ call[t].op = "idle" /\ ~fault
           /\ UNCHANGED <<bitmap, files, dirs>> /\ past \subseteq past'
           /\ Entered(t) \/ BeginCreate(t)
<1>1. /\ call[t].op = "idle" /\ ~fault
      /\ UNCHANGED <<bitmap, files, dirs>> /\ past \subseteq past'
  BY DEF Enters, BeginWrite, BeginUnlink, BeginCreate, BeginLook, Enter
<1> call \in [Thread -> Call]
  BY DEF TypeOK
<1>2. ASSUME NEW f \in File, NEW n \in Wanted, BeginWrite(t, f, n) PROVE Entered(t)
  BY <1>2 DEF BeginWrite, Enter, Entered, Idle
<1>3. ASSUME NEW f \in File, BeginUnlink(t, f) PROVE Entered(t)
  BY <1>3 DEF BeginUnlink, Enter, Entered, Idle
<1>4. ASSUME NEW d \in Dir, BeginLook(t, d) PROVE Entered(t)
  BY <1>4 DEF BeginLook, Enter, Entered, Idle
<1> QED
  BY <1>1, <1>2, <1>3, <1>4 DEF Enters

LEMMA PastGrows ==
    ASSUME TypeOK, NEW t \in Thread, Enters(t) \/ NoReadBuffer(t) \/ ReadFails(t) \/ Step(t)
    PROVE  past \subseteq past'
<1>1. CASE Enters(t)
  BY <1>1, EnterEffect
<1>2. CASE NoReadBuffer(t) \/ ReadFails(t)
  BY <1>2 DEF NoReadBuffer, ReadFails
<1>3. CASE Step(t)
  BY <1>3 DEF Step, LoadByte, StoreByte, TakeExtent, Attach, SetCount, FreeNextExtent,
     ExtentFreed, ClearEntry, TakeSlot, CheckList, AllocateList, FindDirBlock, SetDirBlock,
     ReadDirBlock, FillList, ScanList
<1> QED
  BY <1>1, <1>2, <1>3

\* Most steps change neither slots nor creations.
LEMMA SlotsQuiet ==
    ASSUME NoSlotIsTwice, NEW t \in Thread, Moved(t), past \subseteq past',
           used' = used, owners' = owners,
           Stays(t) \/ call'[t].op # "create"
    PROVE  NoSlotIsTwice'
<1>1. /\ \A u \in Thread : call'[u].op = "create" => call[u].op = "create"
      /\ \A u \in Thread : call'[u].op = "create" => call'[u].file = call[u].file
  BY DEF Moved, Stays
<1> QED
  BY <1>1 DEF NoSlotIsTwice

LEMMA SlotsBeginCreate ==
    ASSUME Sane, NoSlotIsTwice, NEW t \in Thread, BeginCreate(t)
    PROVE  NoSlotIsTwice'
<1> TypeOK
  BY DEF Sane
<1>1. PICK f \in FreeFileEntry :
        /\ call' = [call EXCEPT ![t] = [Idle EXCEPT !.op = "create", !.at = "slot", !.file = f]]
        /\ past' = IF \E u \in Thread \ {t} : call[u].op = "create"
                   THEN past \cup {"creations"} ELSE past
        /\ UNCHANGED files
  BY DEF BeginCreate, Enter
<1>2. /\ f \notin used /\ call'[t].op = "create" /\ call'[t].file = f
      /\ \A u \in Thread : u # t => call'[u] = call[u]
  BY <1>1 DEF FreeFileEntry, TypeOK, Idle
<1>3. used' = used /\ owners' = owners
  BY <1>1 DEF files
<1> SUFFICES ASSUME "creations" \notin past' PROVE NoSlotIsTwice'
  BY DEF NoSlotIsTwice
<1>4. "creations" \notin past /\ \A u \in Thread \ {t} : call[u].op # "create"
  BY <1>1
<1> QED
  BY <1>2, <1>3, <1>4 DEF NoSlotIsTwice

LEMMA SlotsTakeSlot ==
    ASSUME Sane, NoSlotIsTwice, NEW t \in Thread, TakeSlot(t)
    PROVE  NoSlotIsTwice'
<1> TypeOK
  BY DEF Sane
<1> DEFINE f == call[t].file
<1>1. /\ call[t].op = "create" /\ f \in File
      /\ past' = past /\ used' = used \cup {f} /\ owners' = [owners EXCEPT ![f] = @ + 1]
      /\ call'[t].op = "idle" /\ \A u \in Thread : u # t => call'[u] = call[u]
  <2>1. call[t].op = "create" /\ f \in File
    BY DEF TakeSlot, At, TypeOK, Call
  <2>2. Moved(t) /\ call'[t] = Idle
    BY MovedOut DEF TakeSlot
  <2> QED
    BY <2>1, <2>2 DEF TakeSlot, Moved, Idle
<1> SUFFICES ASSUME "creations" \notin past PROVE NoSlotIsTwice'
  BY <1>1 DEF NoSlotIsTwice
<1>2. owners[f] = 0 /\ f \notin used
  BY <1>1 DEF NoSlotIsTwice
<1>3. \A u \in Thread : call'[u].op # "create"
  BY <1>1 DEF NoSlotIsTwice
<1>4. \A g \in File : owners'[g] = IF g \in used' THEN 1 ELSE 0
  <2>1. owners'[f] = 0 + 1
    BY <1>1, <1>2 DEF TypeOK
  <2>2. \A g \in File : g # f => owners'[g] = owners[g] /\ (g \in used' <=> g \in used)
    BY <1>1 DEF TypeOK
  <2> QED
    BY <1>1, <2>1, <2>2 DEF NoSlotIsTwice
<1> QED
  BY <1>3, <1>4 DEF NoSlotIsTwice

LEMMA SlotsClearEntry ==
    ASSUME Sane, NoSlotIsTwice, NEW t \in Thread, ClearEntry(t)
    PROVE  NoSlotIsTwice'
<1> TypeOK /\ Counted
  BY DEF Sane
<1> DEFINE f == call[t].file
<1>1. /\ call[t].op = "unlink" /\ f \in File
      /\ past' = past /\ used' = used \ {f} /\ owners' = [owners EXCEPT ![f] = @ - 1]
      /\ call'[t].op = "idle" /\ \A u \in Thread : u # t => call'[u] = call[u]
  <2>1. call[t].op = "unlink" /\ f \in File
    BY DEF ClearEntry, At, TypeOK, Call
  <2>2. Moved(t) /\ call'[t] = Idle
    BY MovedOut DEF ClearEntry
  <2> QED
    BY <2>1, <2>2 DEF ClearEntry, Moved, Idle
<1> SUFFICES ASSUME "creations" \notin past PROVE NoSlotIsTwice'
  BY <1>1 DEF NoSlotIsTwice
<1>2. owners[f] = 1
  <2>1. t \in Unlinkers(f)
    BY <1>1 DEF Unlinkers
  <2>2. IsFiniteSet(Unlinkers(f))
    BY RacesAssumption, FS_Subset DEF Unlinkers
  <2>3. Cardinality(Unlinkers(f)) \in Nat /\ Cardinality(Unlinkers(f)) # 0
    BY <2>1, <2>2, FS_EmptySet, FS_CardinalityType
  <2>4. Cardinality(Unlinkers(f)) <= owners[f] /\ owners[f] \in Nat
    BY <1>1, CountTypes DEF Counted
  <2>5. owners[f] # 0
    BY <2>3, <2>4
  <2> QED
    BY <1>1, <2>5 DEF NoSlotIsTwice
<1>3. \A u \in Thread : call'[u].op = "create" => call[u].op = "create" /\ call'[u] = call[u]
  BY <1>1
<1>4. \A g \in File : owners'[g] = IF g \in used' THEN 1 ELSE 0
  <2>1. owners'[f] = 1 - 1
    BY <1>1, <1>2 DEF TypeOK
  <2>2. \A g \in File : g # f => owners'[g] = owners[g] /\ (g \in used' <=> g \in used)
    BY <1>1 DEF TypeOK
  <2> QED
    BY <1>1, <2>1, <2>2 DEF NoSlotIsTwice
<1> QED
  BY <1>1, <1>3, <1>4 DEF NoSlotIsTwice

LEMMA NextSlots == Sane /\ NoSlotIsTwice /\ [Next]_vars => NoSlotIsTwice'
<1> SUFFICES ASSUME Sane, NoSlotIsTwice, Next PROVE NoSlotIsTwice'
  BY DEF NoSlotIsTwice, vars, files
<1> TypeOK /\ Shape
  BY DEF Sane
<1> PICK t \in Thread : Enters(t) \/ NoReadBuffer(t) \/ ReadFails(t) \/ Step(t)
  BY DEF Next, Enters
<1>0. past \subseteq past'
  BY PastGrows
<1>1. CASE Enters(t)
  <2>1. CASE Entered(t)
    BY <1>0, <1>1, <2>1, EnterEffect, MovedEnter, SlotsQuiet DEF Entered, files
  <2> QED
    BY <1>1, <2>1, EnterEffect, SlotsBeginCreate
<1>2. CASE NoReadBuffer(t) \/ ReadFails(t)
  <2>1. used' = used /\ owners' = owners
    BY <1>2 DEF NoReadBuffer, ReadFails, files
  <2> QED
    BY <1>0, <1>2, <2>1, MovedLook, StaysWithin, SlotsQuiet
<1>3. CASE LoadByte(t) \/ StoreByte(t)
  BY <1>0, <1>3, MovedBits, StaysWithin, SlotsQuiet DEF LoadByte, StoreByte, files
<1>4. CASE TakeExtent(t) \/ Attach(t)
  BY <1>0, <1>4, MovedWrite, StaysWithin, SlotsQuiet DEF TakeExtent, Attach, files
<1>5. CASE SetCount(t)
  BY <1>0, <1>5, MovedWrite, MovedOut, SlotsQuiet DEF SetCount, Idle
<1>6. CASE FreeNextExtent(t) \/ ExtentFreed(t)
  BY <1>0, <1>6, MovedUnlink, StaysWithin, SlotsQuiet DEF FreeNextExtent, ExtentFreed, files
<1>7. CASE ClearEntry(t) \/ TakeSlot(t)
  BY <1>7, SlotsClearEntry, SlotsTakeSlot
<1>8. CASE \/ CheckList(t) \/ AllocateList(t) \/ FindDirBlock(t) \/ SetDirBlock(t)
           \/ ReadDirBlock(t) \/ FillList(t)
  <2>1. used' = used /\ owners' = owners
    BY <1>8 DEF CheckList, AllocateList, FindDirBlock, SetDirBlock, ReadDirBlock, FillList, files
  <2> QED
    BY <1>0, <1>8, <2>1, MovedLook, StaysWithin, SlotsQuiet
<1>9. CASE ScanList(t)
  BY <1>0, <1>9, MovedLook, MovedOut, SlotsQuiet DEF ScanList, Idle, files
<1> QED
  BY <1>1, <1>2, <1>3, <1>4, <1>5, <1>6, <1>7, <1>8, <1>9 DEF Step

\* Two files come to live in one slot only when two creations overlapped, each
\* of which had found it free: removals and writes that overlap do not do it.
THEOREM SlotsAreTakenOnce == Spec => []SlotsHaveOneFile
<1>1. Init => NoSlotIsTwice
  BY DEF Init, NoSlotIsTwice, Idle
<1>2. Sane /\ NoSlotIsTwice => SlotsHaveOneFile
  BY CountTypes DEF Sane, NoSlotIsTwice, SlotsHaveOneFile
<1> QED
  BY <1>1, <1>2, NextSlots, SpecSane, PTL DEF Spec

-----------------------------------------------------------------------------
(* Look-ups.  While no two look-ups of a directory overlap, a list that is   *)
(* allocated and not filled belongs to the one that is about to fill it.     *)
Looks(c, d) == c.op = "look" /\ c.dir = d
Fills(c, d) == Looks(c, d) /\ c.at \in {"load", "fill"}

Lists ==
    /\ \A d \in DOMAIN StoredDir : dirBlock[d] # 0
    /\ \A t \in Thread : call[t].op = "look" /\ call[t].at \notin {"check", "list"} =>
           list[call[t].dir] # "null"
    /\ \A d \in Dir : list[d] = "freed" => "read failed" \in past
    /\ fault => "read failed" \in past

\* Neither has two look-ups of a directory overlapped nor memory been short.
Apart(p) == "same directory" \notin p /\ "no buffer" \notin p

Filling ==
    Apart(past) =>
        /\ missed = {}
        /\ \A t, u \in Thread :
              call[t].op = "look" /\ call[u].op = "look" /\ call[t].dir = call[u].dir => t = u
        /\ \A d \in DOMAIN StoredDir :
              list[d] = "blank" => \E t \in Thread : Fills(call[t], d)

\* What a step of thread t must keep.
LooksOn(t) ==
    /\ call'[t].op = "look" => call[t].op = "look" /\ call'[t].dir = call[t].dir
    /\ Apart(past') => missed' = {}
    /\ fault' => "read failed" \in past'
    /\ \A d \in DOMAIN StoredDir : dirBlock'[d] # 0
    /\ \A d \in Dir : list'[d] = "null" => list[d] = "null"
    /\ \A d \in Dir : list'[d] = "freed" => "read failed" \in past'
    /\ call'[t].op = "look" /\ call'[t].at \notin {"check", "list"} =>
           list'[call'[t].dir] # "null"
    /\ \A d \in DOMAIN StoredDir : list'[d] = "blank" =>
           \/ Fills(call'[t], d)
           \/ list[d] = "blank" /\ ~Fills(call[t], d)

LEMMA LooksKept ==
    ASSUME Sane, Lists, Filling, NEW t \in Thread, Moved(t), past \subseteq past',
           LooksOn(t)
    PROVE  Lists' /\ Filling'
<1>1. Lists'
  <2>1. ASSUME NEW u \in Thread, call'[u].op = "look", call'[u].at \notin {"check", "list"}
        PROVE  list'[call'[u].dir] # "null"
    <3>1. CASE u = t
      BY <2>1, <3>1 DEF LooksOn
    <3>2. CASE u # t
      <4>1. call'[u] = call[u] /\ call[u].dir \in Dir
        BY <2>1, <3>2 DEF Moved, Sane, Shape, CallShape
      <4> QED
        BY <2>1, <4>1 DEF LooksOn, Lists
    <3> QED
      BY <3>1, <3>2
  <2> QED
    BY <2>1 DEF LooksOn, Lists
<1>2. ASSUME Apart(past') PROVE Filling'
  <2>1. Apart(past)
    BY <1>2 DEF Apart
  <2>2. \A u, v \in Thread :
          call'[u].op = "look" /\ call'[v].op = "look" /\ call'[u].dir = call'[v].dir => u = v
    <3>1. \A u \in Thread : call'[u].op = "look" =>
             call[u].op = "look" /\ call'[u].dir = call[u].dir
      BY DEF Moved, LooksOn
    <3> QED
      BY <2>1, <3>1 DEF Filling
  <2>3. ASSUME NEW d \in DOMAIN StoredDir, list'[d] = "blank"
        PROVE  \E u \in Thread : Fills(call'[u], d)
    <3>1. CASE Fills(call'[t], d)
      BY <3>1
    <3>2. CASE list[d] = "blank" /\ ~Fills(call[t], d)
      <4>1. PICK u \in Thread : Fills(call[u], d)
        BY <2>1, <3>2 DEF Filling
      <4>2. u # t
        BY <3>2, <4>1
      <4>3. call'[u] = call[u]
        BY <4>2 DEF Moved
      <4> QED
        BY <4>1, <4>3
    <3> QED
      BY <2>3, <3>1, <3>2 DEF LooksOn
  <2> QED
    BY <1>2, <2>2, <2>3 DEF Filling, LooksOn
<1> QED
  BY <1>1, <1>2 DEF Filling

\* Steps of other calls, and of look-ups that leave lists and blocks alone.
LEMMA LooksQuiet ==
    ASSUME Sane, Lists, Filling, NEW t \in Thread, Moved(t), past \subseteq past',
           UNCHANGED dirs,
           \/ call'[t].op # "look" /\ call[t].op # "look"
           \/ /\ call[t].op = "look" /\ call'[t].op = "look" /\ call'[t].dir = call[t].dir
              /\ \A d \in DOMAIN StoredDir : Fills(call[t], d) => Fills(call'[t], d)
              /\ call'[t].at \notin {"check", "list"} => list[call[t].dir] # "null"
    PROVE  Lists' /\ Filling'
<1>1. LooksOn(t)
  <2>1. list' = list /\ dirBlock' = dirBlock /\ missed' = missed /\ fault' = fault
    BY DEF dirs
  <2>2. Apart(past') => missed' = {}
    BY <2>1 DEF Filling, Apart
  <2>3. \A d \in DOMAIN StoredDir : list'[d] = "blank" =>
           \/ Fills(call'[t], d)
           \/ list[d] = "blank" /\ ~Fills(call[t], d)
    BY <2>1 DEF Fills, Looks
  <2>4. /\ fault' => "read failed" \in past'
        /\ \A d \in Dir : list'[d] = "freed" => "read failed" \in past'
        /\ \A d \in DOMAIN StoredDir : dirBlock'[d] # 0
    BY <2>1 DEF Lists
  <2>5. call'[t].op = "look" /\ call'[t].at \notin {"check", "list"} =>
           list'[call'[t].dir] # "null"
    BY <2>1
  <2> QED
    BY <2>1, <2>2, <2>3, <2>4, <2>5 DEF LooksOn
<1> QED
  BY <1>1, LooksKept

LEMMA LooksBegin ==
    ASSUME Sane, Lists, Filling, NEW t \in Thread, NEW d \in Dir, BeginLook(t, d)
    PROVE  Lists' /\ Filling'
<1> TypeOK
  BY DEF Sane
<1>1. /\ call' = [call EXCEPT ![t] = [Idle EXCEPT !.op = "look", !.at = "check", !.dir = d]]
      /\ past' = IF \E u \in Thread \ {t} : call[u].op = "look" /\ call[u].dir = d
                 THEN past \cup {"same directory"} ELSE past
      /\ call[t].op = "idle"
      /\ UNCHANGED dirs
  BY DEF BeginLook, Enter
<1>2. /\ call'[t].op = "look" /\ call'[t].at = "check" /\ call'[t].dir = d
      /\ \A u \in Thread : u # t => call'[u] = call[u]
  BY <1>1 DEF TypeOK, Idle
<1>3. list' = list /\ dirBlock' = dirBlock /\ missed' = missed /\ fault' = fault
  BY <1>1 DEF dirs
<1>4. past \subseteq past'
  BY <1>1
<1>5. Lists'
  BY <1>2, <1>3, <1>4 DEF Lists
<1>6. ASSUME Apart(past') PROVE Filling'
  <2>1. Apart(past) /\ \A u \in Thread \ {t} : ~Looks(call[u], d)
    BY <1>1, <1>6 DEF Looks, Apart
  <2>2. \A u, v \in Thread :
          call'[u].op = "look" /\ call'[v].op = "look" /\ call'[u].dir = call'[v].dir => u = v
    BY <1>2, <2>1 DEF Filling, Looks
  <2>3. \A c \in DOMAIN StoredDir, u \in Thread : Fills(call[u], c) => Fills(call'[u], c)
    BY <1>1, <1>2 DEF Fills, Looks
  <2> QED
    BY <1>3, <2>1, <2>2, <2>3 DEF Filling
<1> QED
  BY <1>5, <1>6 DEF Filling

\* Where a step of a look-up leads.
LEMMA LookSteps ==
    ASSUME TypeOK, NEW t \in Thread,
           \/ CheckList(t) \/ AllocateList(t) \/ FindDirBlock(t) \/ SetDirBlock(t)
           \/ ReadDirBlock(t) \/ NoReadBuffer(t) \/ ReadFails(t) \/ FillList(t)
    PROVE  /\ call[t].op = "look" /\ call'[t].op = "look" /\ call'[t].dir = call[t].dir
           /\ CheckList(t) => call'[t].at = IF list[call[t].dir] = "null" THEN "list" ELSE "scan"
           /\ AllocateList(t) => call'[t].at = "load"
           /\ FindDirBlock(t) \/ SetDirBlock(t) => call'[t].at \in {"bits", "scan"}
           /\ ReadDirBlock(t) => call'[t].at = "fill"
           /\ NoReadBuffer(t) \/ ReadFails(t) \/ FillList(t) => call'[t].at = "scan"
<1> call \in [Thread -> Call] /\ call[t] \in Call
  BY DEF TypeOK
<1>0. call[t].op = "look" /\ call'[t].op = "look"
  <2>1. call[t].op = "look"
    BY DEF CheckList, AllocateList, FindDirBlock, SetDirBlock, ReadDirBlock, NoReadBuffer, ReadFails,
           FillList, At, Changed
  <2> QED
    BY <2>1, StaysWithin DEF Stays
<1>1. \A p : Goto(t, p) => call'[t].dir = call[t].dir /\ call'[t].at = p
  BY DEF Goto, Call
<1>2. ASSUME CheckList(t)
      PROVE  /\ call'[t].dir = call[t].dir
             /\ call'[t].at = IF list[call[t].dir] = "null" THEN "list" ELSE "scan"
  BY <1>1, <1>2 DEF CheckList
<1>3. ASSUME AllocateList(t)
      PROVE  call'[t].dir = call[t].dir /\ call'[t].at = "load"
  BY <1>1, <1>3 DEF AllocateList
<1>4. ASSUME FindDirBlock(t)
      PROVE  call'[t].dir = call[t].dir /\ call'[t].at \in {"bits", "scan"}
  BY <1>4 DEF FindDirBlock, Call
<1>5. ASSUME SetDirBlock(t)
      PROVE  call'[t].dir = call[t].dir /\ call'[t].at = "scan"
  BY <1>5 DEF SetDirBlock, Call
<1>6. ASSUME ReadDirBlock(t)
      PROVE  call'[t].dir = call[t].dir /\ call'[t].at = "fill"
  BY <1>1, <1>6 DEF ReadDirBlock
<1>7. ASSUME NoReadBuffer(t) \/ ReadFails(t) \/ FillList(t)
      PROVE  call'[t].dir = call[t].dir /\ call'[t].at = "scan"
  BY <1>1, <1>7 DEF NoReadBuffer, ReadFails, FillList
<1>8. call'[t].dir = call[t].dir
  BY <1>2, <1>3, <1>4, <1>5, <1>6, <1>7
<1> QED
  BY <1>0, <1>2, <1>3, <1>4, <1>5, <1>6, <1>7, <1>8

\* At which place each step of a look-up is taken.
LEMMA LookPlaces ==
    ASSUME NEW t \in Thread
    PROVE  /\ CheckList(t) => call[t].at = "check"
           /\ AllocateList(t) => call[t].at = "list"
           /\ FindDirBlock(t) \/ ReadDirBlock(t) \/ NoReadBuffer(t) \/ ReadFails(t) =>
                  call[t].at = "load"
           /\ SetDirBlock(t) => call[t].at = "bits"
           /\ FillList(t) => call[t].at = "fill"
           /\ ScanList(t) => call[t].at = "scan"
BY DEF CheckList, AllocateList, FindDirBlock, SetDirBlock, ReadDirBlock, NoReadBuffer, ReadFails,
       FillList, ScanList, At, Changed

LEMMA LooksLook ==
    ASSUME Sane, Lists, Filling, NEW t \in Thread,
           CheckList(t) \/ FindDirBlock(t) \/ ReadDirBlock(t)
    PROVE  Lists' /\ Filling'
<1> TypeOK /\ Shape
  BY DEF Sane
<1>1. /\ Moved(t) /\ past \subseteq past' /\ UNCHANGED dirs
      /\ call[t].op = "look" /\ call'[t].op = "look" /\ call'[t].dir = call[t].dir
  BY MovedLook, LookSteps DEF CheckList, FindDirBlock, ReadDirBlock
<1>2. \A d \in DOMAIN StoredDir : Fills(call[t], d) => Fills(call'[t], d)
  <2>1. CASE CheckList(t)
    BY <2>1, LookPlaces DEF Fills
  <2>2. CASE FindDirBlock(t)
    BY <2>2 DEF FindDirBlock, Fills, Looks, Lists
  <2>3. CASE ReadDirBlock(t)
    BY <1>1, <2>3, LookSteps DEF Fills, Looks
  <2> QED
    BY <2>1, <2>2, <2>3
<1>3. call'[t].at \notin {"check", "list"} => list[call[t].dir] # "null"
  <2>1. CASE CheckList(t)
    BY <2>1, LookSteps
  <2>2. CASE FindDirBlock(t) \/ ReadDirBlock(t)
    <3>1. call[t].at = "load"
      BY <2>2, LookPlaces
    <3> QED
      BY <1>1, <3>1 DEF Lists
  <2> QED
    BY <2>1, <2>2
<1> QED
  BY <1>1, <1>2, <1>3, LooksQuiet

LEMMA LooksChange ==
    ASSUME Sane, Lists, Filling, NEW t \in Thread,
           AllocateList(t) \/ SetDirBlock(t) \/ NoReadBuffer(t) \/ ReadFails(t) \/ FillList(t)
    PROVE  Lists' /\ Filling'
<1> TypeOK /\ Shape
  BY DEF Sane
<1> DEFINE c == call[t].dir
<1>1. /\ Moved(t) /\ past \subseteq past' /\ missed' = missed
      /\ call[t].op = "look" /\ call'[t].op = "look" /\ call'[t].dir = c
      /\ c \in Dir /\ call[t].at \notin {"check"}
      /\ CallShape(call[t])
  <2>1. Moved(t) /\ CallShape(call[t])
    BY MovedLook DEF Shape
  <2>2. past \subseteq past' /\ missed' = missed
    BY DEF AllocateList, SetDirBlock, NoReadBuffer, ReadFails, FillList, dirs
  <2> QED
    BY <2>1, <2>2, LookSteps, LookPlaces DEF CallShape
<1>2. Apart(past') => missed' = {}
  BY <1>1 DEF Filling, Apart
<1>3. CASE AllocateList(t)
  <2>1. list' = [list EXCEPT ![c] = "blank"] /\ call'[t].at = "load"
        /\ UNCHANGED <<dirBlock, fault>>
    BY <1>3, LookSteps DEF AllocateList
  <2>2. \A d \in Dir : list'[d] = IF d = c THEN "blank" ELSE list[d]
    BY <1>1, <2>1 DEF TypeOK
  <2>3. \A d \in DOMAIN StoredDir : list'[d] = "blank" =>
           \/ Fills(call'[t], d)
           \/ list[d] = "blank" /\ ~Fills(call[t], d)
    <3>1. \A d \in DOMAIN StoredDir : d \in Dir
      BY RacesAssumption
    <3> QED
      BY <1>1, <2>1, <2>2, <3>1 DEF Fills, Looks
  <2>4. /\ \A d \in Dir : list'[d] = "null" => list[d] = "null"
        /\ \A d \in Dir : list'[d] = "freed" => "read failed" \in past'
        /\ list'[c] # "null"
    BY <1>1, <2>2 DEF Lists
  <2>5. (fault' => "read failed" \in past') /\ \A d \in DOMAIN StoredDir : dirBlock'[d] # 0
    BY <1>1, <2>1 DEF Lists
  <2>6. LooksOn(t)
    BY <1>1, <1>2, <2>3, <2>4, <2>5 DEF LooksOn
  <2> QED
    BY <1>1, <2>6, LooksKept
<1>4. CASE SetDirBlock(t)
  <2>1. dirBlock' = [dirBlock EXCEPT ![c] = call[t].ext.start] /\ UNCHANGED <<list, fault>>
        /\ call[t].at = "bits"
    BY <1>4, LookPlaces DEF SetDirBlock
  <2>2. call[t].ext.start # 0
    <3>1. call[t].ext.start \in DataBlock
      BY <1>1, <2>1 DEF CallShape, Changing
    <3> QED
      BY <3>1, Numbers
  <2>3. \A d \in DOMAIN StoredDir : dirBlock'[d] # 0
    <3>1. \A d \in DOMAIN StoredDir : d \in Dir
      BY RacesAssumption
    <3> QED
      BY <2>1, <2>2, <3>1 DEF Lists, TypeOK
  <2>4. list[c] # "null"
    BY <1>1, <2>1 DEF Lists
  <2>5. \A d \in DOMAIN StoredDir : ~Fills(call[t], d)
    BY <2>1 DEF Fills
  <2>6. LooksOn(t)
    BY <1>1, <1>2, <2>1, <2>3, <2>4, <2>5 DEF LooksOn, Lists
  <2> QED
    BY <1>1, <2>6, LooksKept
<1>5. CASE ReadFails(t)
  <2>1. /\ list' = [list EXCEPT ![c] = "freed"] /\ UNCHANGED <<dirBlock, fault>>
        /\ "read failed" \in past'
    BY <1>5 DEF ReadFails
  <2>2. \A d \in Dir : list'[d] = IF d = c THEN "freed" ELSE list[d]
    BY <1>1, <2>1 DEF TypeOK
  <2>3. \A d \in DOMAIN StoredDir : list'[d] = "blank" =>
           list[d] = "blank" /\ ~Fills(call[t], d)
    <3>1. \A d \in DOMAIN StoredDir : d \in Dir
      BY RacesAssumption
    <3> QED
      BY <2>2, <3>1 DEF Fills, Looks
  <2>4. /\ \A d \in Dir : list'[d] = "null" => list[d] = "null"
        /\ list'[c] # "null"
    BY <1>1, <2>2
  <2>5. \A d \in DOMAIN StoredDir : dirBlock'[d] # 0
    BY <2>1 DEF Lists
  <2>6. LooksOn(t)
    BY <1>1, <1>2, <2>1, <2>3, <2>4, <2>5 DEF LooksOn
  <2> QED
    BY <1>1, <2>6, LooksKept
<1>6. CASE FillList(t)
  <2>1. UNCHANGED <<dirBlock, past>> /\ call[t].at = "fill" /\ list[c] # "null"
    BY <1>1, <1>6, LookPlaces DEF FillList, Lists
  <2>2. CASE list[c] = "freed"
    <3>1. list' = list /\ fault' = TRUE /\ "read failed" \in past'
      BY <1>1, <1>6, <2>1, <2>2 DEF FillList, Lists
    <3>2. \A d \in DOMAIN StoredDir : list'[d] = "blank" =>
             list[d] = "blank" /\ ~Fills(call[t], d)
      BY <2>2, <3>1 DEF Fills, Looks
    <3>3. LooksOn(t)
      BY <1>1, <1>2, <2>1, <3>1, <3>2 DEF LooksOn, Lists
    <3> QED
      BY <1>1, <3>3, LooksKept
  <2>3. CASE list[c] # "freed"
    <3>1. list' = [list EXCEPT ![c] = "filled"] /\ fault' = fault
      BY <1>6, <2>3 DEF FillList
    <3>2. \A d \in Dir : list'[d] = IF d = c THEN "filled" ELSE list[d]
      BY <1>1, <3>1 DEF TypeOK
    <3>3. \A d \in DOMAIN StoredDir : list'[d] = "blank" =>
             list[d] = "blank" /\ ~Fills(call[t], d)
      <4>1. \A d \in DOMAIN StoredDir : d \in Dir
        BY RacesAssumption
      <4> QED
        BY <3>2, <4>1 DEF Fills, Looks
    <3>4. /\ \A d \in Dir : list'[d] = "null" => list[d] = "null"
          /\ \A d \in Dir : list'[d] = "freed" => "read failed" \in past'
          /\ list'[c] # "null"
      BY <1>1, <3>2 DEF Lists
    <3>5. (fault' => "read failed" \in past') /\ \A d \in DOMAIN StoredDir : dirBlock'[d] # 0
      BY <1>1, <2>1, <3>1 DEF Lists
    <3>6. LooksOn(t)
      BY <1>1, <1>2, <3>3, <3>4, <3>5 DEF LooksOn
    <3> QED
      BY <1>1, <3>6, LooksKept
  <2> QED
    BY <2>2, <2>3
<1>7. CASE NoReadBuffer(t)
  <2>1. /\ UNCHANGED <<dirBlock, list, fault>> /\ ~Apart(past')
        /\ call[t].at = "load" /\ list[c] # "null"
    BY <1>1, <1>7, LookPlaces DEF NoReadBuffer, Apart, dirs, Lists
  <2>2. ASSUME NEW u \in Thread, call'[u].op = "look", call'[u].at \notin {"check", "list"}
        PROVE  list'[call'[u].dir] # "null"
    BY <1>1, <2>1, <2>2 DEF Moved, Lists
  <2>3. Lists'
    BY <1>1, <2>1, <2>2 DEF Lists
  <2> QED
    BY <2>1, <2>3 DEF Filling
<1> QED
  BY <1>3, <1>4, <1>5, <1>6, <1>7

LEMMA LooksScan ==
    ASSUME Sane, Lists, Filling, NEW t \in Thread, ScanList(t)
    PROVE  Lists' /\ Filling'
<1> TypeOK /\ Shape
  BY DEF Sane
<1> DEFINE c == call[t].dir
<1>1. /\ Moved(t) /\ call'[t].op = "idle" /\ past' = past
      /\ call[t].op = "look" /\ call[t].at = "scan" /\ c \in Dir
      /\ UNCHANGED <<dirBlock, list>>
      /\ fault' = (list[c] \in {"freed", "null"})
  <2>1. Moved(t) /\ call'[t] = Idle /\ CallShape(call[t])
    BY MovedLook, MovedOut DEF ScanList, Shape
  <2> QED
    BY <2>1 DEF ScanList, At, Idle, CallShape
<1>2. list[c] # "null"
  BY <1>1 DEF Lists
<1>3. fault' => "read failed" \in past'
  BY <1>1, <1>2 DEF Lists
<1>4. ASSUME Apart(past') PROVE missed' = {}
  <2>1. missed = {} /\ Apart(past)
    BY <1>1, <1>4 DEF Filling
  <2>2. SUFFICES ASSUME list[c] = "blank", c \in DOMAIN StoredDir PROVE FALSE
    BY <2>1 DEF ScanList
  <2>3. PICK u \in Thread : Fills(call[u], c)
    BY <2>1, <2>2 DEF Filling
  <2>4. u = t
    BY <1>1, <2>1, <2>3 DEF Filling, Fills, Looks
  <2> QED
    BY <1>1, <2>3, <2>4 DEF Fills
<1>5. \A d \in DOMAIN StoredDir : ~Fills(call[t], d)
  BY <1>1 DEF Fills
<1>6. LooksOn(t)
  BY <1>1, <1>3, <1>4, <1>5 DEF LooksOn, Lists
<1> QED
  BY <1>1, <1>6, LooksKept

\* A call other than a look-up does not become one.
LEMMA LooksOther ==
    ASSUME Sane, Lists, Filling, NEW t \in Thread, Moved(t), past \subseteq past',
           UNCHANGED dirs, call[t].op # "look", Stays(t) \/ call'[t].op # "look"
    PROVE  Lists' /\ Filling'
BY LooksQuiet DEF Stays

\* A look-up may be changing a bit.
LEMMA LooksBits ==
    ASSUME Sane, Lists, Filling, NEW t \in Thread, LoadByte(t) \/ StoreByte(t)
    PROVE  Lists' /\ Filling'
<1> TypeOK /\ Shape
  BY DEF Sane
<1>1. Moved(t) /\ past \subseteq past' /\ UNCHANGED dirs /\ Stays(t)
  BY MovedBits, StaysWithin DEF LoadByte, StoreByte
<1>2. call[t].at \in {"bits", "store"}
  BY DEF LoadByte, StoreByte
<1>3. CASE call[t].op = "look"
  <2>1. call'[t].dir = call[t].dir
    <3>1. call \in [Thread -> Call] /\ call[t] \in Call
      BY DEF TypeOK
    <3>2. ASSUME LoadByte(t) PROVE call'[t].dir = call[t].dir
      BY <3>1, <3>2 DEF LoadByte, Call
    <3>3. ASSUME StoreByte(t) PROVE call'[t].dir = call[t].dir
      BY <3>1, <3>3 DEF StoreByte, Call
    <3> QED
      BY <3>2, <3>3
  <2>2. list[call[t].dir] # "null"
    BY <1>2, <1>3 DEF Lists
  <2>3. \A d \in DOMAIN StoredDir : ~Fills(call[t], d)
    BY <1>2 DEF Fills
  <2>4. call'[t].op = "look"
    BY <1>1, <1>3 DEF Stays
  <2> QED
    BY <1>1, <1>3, <2>1, <2>2, <2>3, <2>4, LooksQuiet
<1>4. CASE call[t].op # "look"
  BY <1>1, <1>4, LooksOther
<1> QED
  BY <1>3, <1>4

LEMMA NextLooks == Sane /\ Lists /\ Filling /\ [Next]_vars => Lists' /\ Filling'
<1> SUFFICES ASSUME Sane, Lists, Filling, [Next]_vars PROVE Lists' /\ Filling'
  OBVIOUS
<1> TypeOK /\ Shape
  BY DEF Sane
<1>1. CASE UNCHANGED vars
  BY <1>1 DEF Lists, Filling, Fills, Looks, vars, dirs
<1>2. CASE Next
  <2> PICK t \in Thread : Enters(t) \/ NoReadBuffer(t) \/ ReadFails(t) \/ Step(t)
    BY <1>2 DEF Next, Enters
  <2>0. past \subseteq past'
    BY PastGrows
  <2>1. CASE Enters(t)
    <3>1. CASE \E d \in Dir : BeginLook(t, d)
      BY <3>1, LooksBegin
    <3>2. CASE ~\E d \in Dir : BeginLook(t, d)
      <4>1. /\ UNCHANGED dirs /\ call[t].op = "idle" /\ call \in [Thread -> Call]
            /\ Moved(t)
        BY <2>1, EnterEffect, MovedEnter DEF TypeOK
      <4>2. call'[t].op # "look"
        BY ZenonT(40), <2>1, <3>2, <4>1 DEF Enters, BeginWrite, BeginUnlink, BeginCreate, Enter, Idle
      <4> QED
        BY <2>0, <4>1, <4>2, LooksOther
    <3> QED
      BY <3>1, <3>2
  <2>2. CASE LoadByte(t) \/ StoreByte(t)
    BY <2>2, LooksBits
  <2>3. CASE TakeExtent(t) \/ Attach(t)
    BY <2>0, <2>3, MovedWrite, StaysWithin, LooksOther DEF TakeExtent, Attach, At, Changed
  <2>4. CASE FreeNextExtent(t) \/ ExtentFreed(t)
    BY <2>0, <2>4, MovedUnlink, StaysWithin, LooksOther DEF FreeNextExtent, ExtentFreed, At, Changed
  <2>5. CASE SetCount(t) \/ ClearEntry(t) \/ TakeSlot(t)
    <3>1. Moved(t) /\ call'[t].op = "idle"
      BY <2>5, MovedWrite, MovedUnlink, MovedTake, MovedOut DEF SetCount, ClearEntry, TakeSlot, Idle
    <3> QED
      BY <2>0, <2>5, <3>1, LooksOther DEF SetCount, ClearEntry, TakeSlot, At
  <2>6. CASE CheckList(t) \/ FindDirBlock(t) \/ ReadDirBlock(t)
    BY <2>6, LooksLook
  <2>7. CASE AllocateList(t) \/ SetDirBlock(t) \/ NoReadBuffer(t) \/ ReadFails(t) \/ FillList(t)
    BY <2>7, LooksChange
  <2>8. CASE ScanList(t)
    BY <2>8, LooksScan
  <2> QED
    BY <2>1, <2>2, <2>3, <2>4, <2>5, <2>6, <2>7, <2>8 DEF Step
<1> QED
  BY <1>1, <1>2

\* A look-up misses a stored name only when another look-up of its directory
\* was under way or a first look found no memory to read the names into, and a list is used after it was freed only when reading it
\* had failed.
THEOREM LookUpsFindNames == Spec => []LookUpsAreRight
<1>1. Init => Lists /\ Filling
  <2>1. \A d \in DOMAIN StoredDir : d \in Dir /\ StoredDir[d] # 0
    BY RacesAssumption, Numbers
  <2> QED
    BY <2>1 DEF Init, Lists, Filling, Idle
<1>2. Lists /\ Filling => LookUpsAreRight
  BY DEF Lists, Filling, Apart, LookUpsAreRight
<1> QED
  BY <1>1, <1>2, NextLooks, SpecSane, PTL DEF Spec

-----------------------------------------------------------------------------
(* Blocks.  S is a set of owners, H says which blocks each of them holds.    *)
Owns(S, H, bm) ==
    /\ \A g, h \in S : g # h => H[g] \cap H[h] = {}
    /\ bm = UNION {H[h] : h \in S}

LEMMA OwnersSame ==
    ASSUME NEW S, NEW H, NEW G, NEW bm, Owns(S, H, bm),
           \A h \in S : G[h] = H[h]
    PROVE  Owns(S, G, bm)
BY DEF Owns

LEMMA OwnerGains ==
    ASSUME NEW S, NEW H, NEW G, NEW bm, Owns(S, H, bm),
           NEW g \in S, NEW b, b \notin bm,
           G[g] = H[g] \cup {b}, \A h \in S : h # g => G[h] = H[h]
    PROVE  Owns(S, G, bm \cup {b})
<1>1. \A h \in S : b \notin H[h]
  BY DEF Owns
<1>2. \A h, i \in S : h # i => G[h] \cap G[i] = {}
  BY <1>1 DEF Owns
<1>3. bm \cup {b} = UNION {G[h] : h \in S}
  BY DEF Owns
<1> QED
  BY <1>2, <1>3 DEF Owns

LEMMA OwnerLoses ==
    ASSUME NEW S, NEW H, NEW G, NEW bm, Owns(S, H, bm),
           NEW g \in S, NEW b \in H[g],
           G[g] = H[g] \ {b}, \A h \in S : h # g => G[h] = H[h]
    PROVE  Owns(S, G, bm \ {b})
<1>1. \A h \in S : h # g => b \notin H[h]
  BY DEF Owns
<1>2. \A h, i \in S : h # i => G[h] \cap G[i] = {}
  BY DEF Owns
<1>3. bm \ {b} = UNION {G[h] : h \in S}
  <2>1. \A h \in S : G[h] = H[h] \ {b}
    BY <1>1
  <2> QED
    BY <2>1 DEF Owns
<1> QED
  BY <1>2, <1>3 DEF Owns

LEMMA OwnerMoves ==
    ASSUME NEW S, NEW H, NEW G, NEW bm, Owns(S, H, bm),
           NEW g \in S, NEW i \in S, g # i, H[i] = {},
           G[g] = {}, G[i] = H[g], \A h \in S \ {g, i} : G[h] = H[h]
    PROVE  Owns(S, G, bm)
<1>1. \A h, j \in S : h # j => G[h] \cap G[j] = {}
  <2>1. SUFFICES ASSUME NEW h \in S, NEW j \in S, h # j, NEW b \in G[h], b \in G[j] PROVE FALSE
    OBVIOUS
  <2> DEFINE from(x) == IF x = i THEN g ELSE x
  <2>2. b \in H[from(h)] /\ b \in H[from(j)] /\ from(h) # from(j)
    BY <2>1
  <2> QED
    BY <2>2 DEF Owns
<1>2. bm = UNION {G[h] : h \in S}
  BY DEF Owns
<1> QED
  BY <1>1, <1>2 DEF Owns

-----------------------------------------------------------------------------
(* The holders are the claims of files and directories and the calls, which  *)
(* hold what they have marked and not attached yet.                          *)
Clean == past \cap {"stale", "torn", "same file", "same directory"} = {}

Holder == {<<"claim", c>> : c \in Claim} \cup {<<"call", t>> : t \in Thread}
Marked(c) == BlocksOf(c.ext) \ c.todo
Held == [h \in Holder |-> IF h[1] = "claim" THEN Claimed(h[2]) ELSE Marked(call[h[2]])]

\* No two calls are busy with one file or directory.
Alone ==
    \A t, u \in Thread : t # u =>
        /\ ~ \E f \in File : UsesFile(f, call[t]) /\ UsesFile(f, call[u])
        /\ call[t].op = "look" /\ call[u].op = "look" => call[t].dir # call[u].dir

\* A loaded byte has the bit as the call expects it; a removal clears bits of
\* the extent it has come to; a directory that is being given a block has none;
\* a write goes on after the extents of the file.
InOrder(t) ==
    /\ call[t].at = "store" => (Clears(t) <=> Lowest(call[t].todo) \in call[t].byte)
    /\ call[t].op = "unlink" /\ Changing(call[t]) =>
          /\ call[t].k > 0
          /\ call[t].todo \subseteq BlocksOf(direct[call[t].file][call[t].k - 1])
    /\ call[t].op = "look" /\ Changing(call[t]) => dirBlock[call[t].dir] = 0
    /\ call[t].op = "write" => count[call[t].file] <= call[t].k

\* Slots for extents beyond those in use are empty, the others disjoint.
InUse(f, k) ==
    \/ k < count[f]
    \/ \E t \in Thread : call[t].op = "write" /\ call[t].file = f /\ k < call[t].k

Orderly(f) ==
    /\ \A k \in Slot : ~InUse(f, k) => BlocksOf(direct[f][k]) = {}
    /\ \A j, k \in Slot : j # k => BlocksOf(direct[f][j]) \cap BlocksOf(direct[f][k]) = {}

Quiet ==
    /\ Alone
    /\ \A t \in Thread : InOrder(t)
    /\ \A f \in File : Orderly(f)
    /\ Owns(Holder, Held, bitmap)

CollisionInv == Clean => Quiet

\* Call c has cleared block b of an extent.
ClearedBy(c, f, k, b) == c.op = "unlink" /\ c.file = f /\ k < c.k /\ b \notin c.todo

LEMMA HeldByFile ==
    ASSUME NEW f \in File, NEW k \in Slot
    PROVE  /\ <<"claim", <<f, k>>>> \in Holder
           /\ Held[<<"claim", <<f, k>>>>] =
                 {b \in BlocksOf(direct[f][k]) : \A u \in Thread : ~ClearedBy(call[u], f, k, b)}
<1>1. k # DirBlock
  BY RacesAssumption DEF Slot, DirBlock
<1>2. <<f, k>> \in Claim
  BY DEF Claim
<1>3. Claimed(<<f, k>>) = BlocksOf(direct[f][k]) \ Cleared(f, k)
  BY <1>1 DEF Claimed
<1>4. Claimed(<<f, k>>) =
         {b \in BlocksOf(direct[f][k]) : \A u \in Thread : ~ClearedBy(call[u], f, k, b)}
  BY <1>3 DEF Cleared, ClearedBy
<1> QED
  BY <1>2, <1>4 DEF Holder, Held

LEMMA HeldByDirectory ==
    ASSUME NEW d \in Dir
    PROVE  /\ <<"claim", <<d, DirBlock>>>> \in Holder
           /\ Held[<<"claim", <<d, DirBlock>>>>] = {dirBlock[d]} \ {0}
BY DEF Holder, Held, Claim, Claimed

LEMMA HeldByCall ==
    ASSUME NEW t \in Thread
    PROVE  /\ <<"call", t>> \in Holder
           /\ Held[<<"call", t>>] = Marked(call[t])
BY DEF Holder, Held

LEMMA HolderCases ==
    ASSUME NEW h \in Holder
    PROVE  \/ \E f \in File, k \in Slot : h = <<"claim", <<f, k>>>>
           \/ \E d \in Dir : h = <<"claim", <<d, DirBlock>>>>
           \/ \E t \in Thread : h = <<"call", t>>
<1>1. CASE \E t \in Thread : h = <<"call", t>>
  BY <1>1
<1>2. CASE \E c \in Claim : h = <<"claim", c>>
  <2>1. PICK c \in Claim : h = <<"claim", c>>
    BY <1>2
  <2>2. \/ \E f \in File, k \in Slot : c = <<f, k>>
        \/ \E d \in Dir : c = <<d, DirBlock>>
    BY DEF Claim
  <2> QED
    BY <2>1, <2>2
<1> QED
  BY <1>1, <1>2 DEF Holder

\* At rest nothing is held by calls, so the claims are the bits.
LEMMA QuietIsExclusive ==
    ASSUME Sane, Quiet
    PROVE  Exclusive
<1>1. \A c \in Claim : <<"claim", c>> \in Holder /\ Held[<<"claim", c>>] = Claimed(c)
  BY DEF Holder, Held
<1>2. ASSUME NEW c \in Claim, NEW d \in Claim, c # d PROVE Claimed(c) \cap Claimed(d) = {}
  <2>1. <<"claim", c>> # <<"claim", d>>
    BY <1>2
  <2> QED
    BY <1>1, <2>1 DEF Quiet, Owns
<1>3. \A c \in Claim : Claimed(c) \subseteq bitmap
  BY <1>1 DEF Quiet, Owns
<1>4. ASSUME AtRest PROVE bitmap = UNION {Claimed(c) : c \in Claim}
  <2>1. ASSUME NEW b \in bitmap PROVE \E c \in Claim : b \in Claimed(c)
    <3>1. PICK h \in Holder : b \in Held[h]
      BY DEF Quiet, Owns
    <3>2. ASSUME NEW t \in Thread, h = <<"call", t>> PROVE FALSE
      <4>1. call[t] = Idle
        BY <1>4 DEF AtRest, Sane, Shape, CallShape
      <4>2. Marked(call[t]) = {}
        BY <4>1, ExtentTypes DEF Marked, Idle
      <4> QED
        BY <3>1, <3>2, <4>2, HeldByCall
    <3>3. PICK c \in Claim : h = <<"claim", c>>
      BY <3>2 DEF Holder
    <3> QED
      BY <1>1, <3>1, <3>3
  <2> QED
    BY <1>3, <2>1
<1> QED
  BY <1>2, <1>3, <1>4 DEF Exclusive

-----------------------------------------------------------------------------
(* What a step of thread t leaves as it was.                                 *)
HolderFacts ==
    /\ \A f \in File, k \in Slot :
          Held[<<"claim", <<f, k>>>>] =
             {b \in BlocksOf(direct[f][k]) : \A u \in Thread : ~ClearedBy(call[u], f, k, b)}
    /\ \A d \in Dir : Held[<<"claim", <<d, DirBlock>>>>] = {dirBlock[d]} \ {0}
    /\ \A t \in Thread : Held[<<"call", t>>] = Marked(call[t])

LEMMA HolderFactsNow == HolderFacts
BY HeldByFile, HeldByDirectory, HeldByCall DEF HolderFacts

LEMMA HolderFactsNext == HolderFacts'
BY HolderFactsNow, PTL

\* The claim of a file changes with its extents and with what is cleared.
LEMMA FileClaimKept ==
    ASSUME NEW t \in Thread, Moved(t), NEW f \in File, NEW k \in Slot,
           direct'[f][k] = direct[f][k],
           \A b \in BlocksOf(direct[f][k]) :
              ClearedBy(call'[t], f, k, b) <=> ClearedBy(call[t], f, k, b)
    PROVE  Held'[<<"claim", <<f, k>>>>] = Held[<<"claim", <<f, k>>>>]
<1>1. \A b \in BlocksOf(direct[f][k]), u \in Thread :
         ClearedBy(call'[u], f, k, b) <=> ClearedBy(call[u], f, k, b)
  BY DEF Moved
<1>2. Held[<<"claim", <<f, k>>>>] =
         {b \in BlocksOf(direct[f][k]) : \A u \in Thread : ~ClearedBy(call[u], f, k, b)}
  BY HolderFactsNow DEF HolderFacts
<1>3. Held'[<<"claim", <<f, k>>>>] =
         {b \in BlocksOf(direct'[f][k]) : \A u \in Thread : ~ClearedBy(call'[u], f, k, b)}
  BY HolderFactsNext DEF HolderFacts
<1> QED
  BY <1>1, <1>2, <1>3

LEMMA DirectoryClaimKept ==
    ASSUME NEW d \in Dir, dirBlock'[d] = dirBlock[d]
    PROVE  Held'[<<"claim", <<d, DirBlock>>>>] = Held[<<"claim", <<d, DirBlock>>>>]
BY HolderFactsNow, HolderFactsNext DEF HolderFacts

LEMMA CallClaimKept ==
    ASSUME NEW t \in Thread, NEW u \in Thread, Marked(call'[u]) = Marked(call[u])
    PROVE  Held'[<<"call", u>>] = Held[<<"call", u>>]
BY HolderFactsNow, HolderFactsNext DEF HolderFacts

\* No call clears or marks a block, and no block changes hands.
LEMMA HeldKept ==
    ASSUME NEW t \in Thread, Moved(t),
           \A f \in File, k \in Slot : direct'[f][k] = direct[f][k],
           \A d \in Dir : dirBlock'[d] = dirBlock[d],
           Marked(call'[t]) = Marked(call[t]),
           \A f \in File, k \in Slot : \A b \in BlocksOf(direct[f][k]) :
              ClearedBy(call'[t], f, k, b) <=> ClearedBy(call[t], f, k, b)
    PROVE  \A h \in Holder : Held'[h] = Held[h]
<1> SUFFICES ASSUME NEW h \in Holder PROVE Held'[h] = Held[h]
  OBVIOUS
<1>1. ASSUME NEW f \in File, NEW k \in Slot, h = <<"claim", <<f, k>>>>
      PROVE  Held'[h] = Held[h]
  BY <1>1, FileClaimKept
<1>2. ASSUME NEW d \in Dir, h = <<"claim", <<d, DirBlock>>>> PROVE Held'[h] = Held[h]
  BY <1>2, DirectoryClaimKept
<1>3. ASSUME NEW u \in Thread, h = <<"call", u>> PROVE Held'[h] = Held[h]
  <2>1. Marked(call'[u]) = Marked(call[u])
    BY DEF Moved
  <2> QED
    BY <1>3, <2>1, CallClaimKept
<1> QED
  BY <1>1, <1>2, <1>3, HolderCases

\* A thread that stays with its file or directory, or leaves, stays alone.
Alike(t) ==
    /\ \A f \in File : UsesFile(f, call'[t]) => UsesFile(f, call[t])
    /\ call'[t].op = "look" => call[t].op = "look" /\ call'[t].dir = call[t].dir

LEMMA AloneKept ==
    ASSUME Alone, NEW t \in Thread, Moved(t), Alike(t)
    PROVE  Alone'
<1>1. \A u \in Thread, f \in File : UsesFile(f, call'[u]) => UsesFile(f, call[u])
  BY DEF Moved, Alike
<1>2. \A u \in Thread : call'[u].op = "look" =>
         call[u].op = "look" /\ call'[u].dir = call[u].dir
  BY DEF Moved, Alike
<1> QED
  BY <1>1, <1>2 DEF Alone

\* The other threads see nothing of it when their files and directories are
\* as they were.
LEMMA OthersInOrder ==
    ASSUME TypeOK, NEW t \in Thread, Moved(t), \A u \in Thread : InOrder(u),
           NEW u \in Thread, u # t,
           \A f \in File : UsesFile(f, call[u]) => direct'[f] = direct[f] /\ count'[f] = count[f],
           call[u].op = "look" => dirBlock'[call[u].dir] = dirBlock[call[u].dir]
    PROVE  InOrder(u)'
<1>1. call'[u] = call[u] /\ call[u].file \in File /\ InOrder(u)
  BY DEF Moved, TypeOK, Call
<1>2. call[u].op = "write" =>
         count'[call[u].file] = count[call[u].file]
  BY <1>1 DEF UsesFile
<1>3. call[u].op = "unlink" => direct'[call[u].file] = direct[call[u].file]
  BY <1>1 DEF UsesFile
<1> QED
  BY <1>1, <1>2, <1>3 DEF InOrder, Clears

LEMMA OrderlyKept ==
    ASSUME NEW t \in Thread, Moved(t), NEW f \in File, Orderly(f),
           direct'[f] = direct[f], count'[f] = count[f],
           call[t].op = "write" /\ call[t].file = f =>
              call'[t].op = "write" /\ call'[t].file = f /\ \A k \in Slot : k < call[t].k => k < call'[t].k
    PROVE  Orderly(f)'
<1>1. ASSUME NEW k \in Slot, InUse(f, k) PROVE InUse(f, k)'
  <2>1. CASE k < count[f]
    BY <2>1 DEF InUse
  <2>2. CASE \E u \in Thread : call[u].op = "write" /\ call[u].file = f /\ k < call[u].k
    <3>1. PICK u \in Thread : call[u].op = "write" /\ call[u].file = f /\ k < call[u].k
      BY <2>2
    <3>2. call'[u].op = "write" /\ call'[u].file = f /\ k < call'[u].k
      BY <3>1 DEF Moved
    <3> QED
      BY <3>2 DEF InUse
  <2> QED
    BY <1>1, <2>1, <2>2 DEF InUse
<1> QED
  BY <1>1 DEF Orderly

\* A step that leaves files and directories alone and keeps its own call in
\* order keeps everything else.
LEMMA QuietKept ==
    ASSUME Sane, Quiet, NEW t \in Thread, Moved(t),
           direct' = direct, count' = count, dirBlock' = dirBlock, bitmap' = bitmap,
           Alike(t), InOrder(t)', Marked(call'[t]) = Marked(call[t]),
           call[t].op = "write" =>
              call'[t].op = "write" /\ call'[t].file = call[t].file /\ call'[t].k = call[t].k,
           \A f \in File, k \in Slot : \A b \in BlocksOf(direct[f][k]) :
              ClearedBy(call'[t], f, k, b) <=> ClearedBy(call[t], f, k, b)
    PROVE  Quiet'
<1> TypeOK /\ Alone /\ (\A u \in Thread : InOrder(u)) /\ (\A f \in File : Orderly(f))
  BY DEF Sane, Quiet
<1>1. Alone'
  BY AloneKept
<1>2. ASSUME NEW u \in Thread PROVE InOrder(u)'
  BY OthersInOrder
<1>3. ASSUME NEW f \in File PROVE Orderly(f)'
  BY OrderlyKept
<1>4. \A h \in Holder : Held'[h] = Held[h]
  BY HeldKept
<1>5. Owns(Holder, Held', bitmap')
  <2>1. Owns(Holder, Held, bitmap)
    BY DEF Quiet
  <2> QED
    BY <1>4, <2>1, OwnersSame
<1> QED
  BY <1>1, <1>2, <1>3, <1>5 DEF Quiet

-----------------------------------------------------------------------------
(* The steps that change no block.                                           *)
\* A call that has just begun, alone with its file or directory.
Fresh(t) ==
    /\ call'[t].at \in {"take", "free", "slot", "check"}
    /\ call'[t].ext = NoExtent /\ call'[t].todo = {}
    /\ call'[t].op = "write" => call'[t].k = count[call'[t].file]
    /\ call'[t].op = "unlink" => call'[t].k = 0
    /\ \A u \in Thread \ {t} :
          /\ ~ \E f \in File : UsesFile(f, call'[t]) /\ UsesFile(f, call[u])
          /\ call'[t].op = "look" /\ call[u].op = "look" => call'[t].dir # call[u].dir

LEMMA QuietEnter ==
    ASSUME Sane, Quiet, Clean', NEW t \in Thread, Enters(t)
    PROVE  Quiet'
<1> TypeOK /\ Shape
  BY DEF Sane
<1>0. /\ Moved(t) /\ call[t] = Idle /\ call[t].op = "idle"
      /\ UNCHANGED <<bitmap, files, dirs>>
      /\ call \in [Thread -> Call] /\ CallShape(call'[t])
  BY MovedEnter, EnterEffect DEF Shape, CallShape, TypeOK, Moved
<1>1. /\ direct' = direct /\ count' = count /\ dirBlock' = dirBlock /\ bitmap' = bitmap
  BY <1>0 DEF files, dirs
<1>2. Fresh(t)
  <2>1. ASSUME NEW f \in File, NEW n \in Wanted, BeginWrite(t, f, n) PROVE Fresh(t)
    <3>1. /\ call'[t].op = "write" /\ call'[t].at = "take" /\ call'[t].file = f
          /\ call'[t].k = count[f] /\ call'[t].ext = NoExtent /\ call'[t].todo = {}
      BY <1>0, <2>1 DEF BeginWrite, Enter, Idle
    <3>2. \A u \in Thread \ {t} : ~UsesFile(f, call[u])
      BY <2>1 DEF BeginWrite, Enter, Clean
    <3> QED
      BY <3>1, <3>2 DEF UsesFile, Fresh
  <2>2. ASSUME NEW f \in File, BeginUnlink(t, f) PROVE Fresh(t)
    <3>1. /\ call'[t].op = "unlink" /\ call'[t].at = "free" /\ call'[t].file = f
          /\ call'[t].k = 0 /\ call'[t].ext = NoExtent /\ call'[t].todo = {}
      BY <1>0, <2>2 DEF BeginUnlink, Enter, Idle
    <3>2. \A u \in Thread \ {t} : ~UsesFile(f, call[u])
      BY <2>2 DEF BeginUnlink, Enter, Clean
    <3> QED
      BY <3>1, <3>2 DEF UsesFile, Fresh
  <2>3. ASSUME BeginCreate(t) PROVE Fresh(t)
    <3>1. /\ call'[t].op = "create" /\ call'[t].at = "slot"
          /\ call'[t].ext = NoExtent /\ call'[t].todo = {}
      BY <1>0, <2>3 DEF BeginCreate, Enter, Idle
    <3> QED
      BY <3>1 DEF UsesFile, Fresh
  <2>4. ASSUME NEW d \in Dir, BeginLook(t, d) PROVE Fresh(t)
    <3>1. /\ call'[t].op = "look" /\ call'[t].at = "check" /\ call'[t].dir = d
          /\ call'[t].ext = NoExtent /\ call'[t].todo = {}
      BY <1>0, <2>4 DEF BeginLook, Enter, Idle
    <3>2. \A u \in Thread \ {t} : ~(call[u].op = "look" /\ call[u].dir = d)
      BY <2>4 DEF BeginLook, Enter, Clean
    <3> QED
      BY <3>1, <3>2 DEF UsesFile, Fresh
  <2> QED
    BY <2>1, <2>2, <2>3, <2>4 DEF Enters
<1>3. Alone'
  BY <1>0, <1>2 DEF Moved, Quiet, Alone, Fresh
<1>4. InOrder(t)'
  <2>1. ~(call'[t].op = "write") \/ count[call'[t].file] <= call'[t].k
    <3>1. call'[t].file \in File
      BY <1>0 DEF Moved, Call
    <3>2. count \in [File -> 0 .. DirectExtents]
      BY DEF TypeOK
    <3>3. count[call'[t].file] \in 0 .. DirectExtents
      BY <3>1, <3>2
    <3>4. count[call'[t].file] \in Int
      BY <3>3
    <3> QED
      BY <1>2, <3>4 DEF Fresh
  <2> QED
    BY <1>1, <1>2, <2>1 DEF InOrder, Changing, Fresh
<1>5. ASSUME NEW u \in Thread PROVE InOrder(u)'
  BY <1>0, <1>1, <1>4, OthersInOrder DEF Quiet
<1>6. ASSUME NEW f \in File PROVE Orderly(f)'
  BY <1>0, <1>1, OrderlyKept DEF Quiet
<1>7. Owns(Holder, Held', bitmap')
  <2>1. Marked(call'[t]) = Marked(call[t])
    BY <1>0, <1>2, ExtentTypes DEF Marked, Idle, Fresh
  <2>2. \A f \in File, k \in Slot : \A b \in BlocksOf(direct[f][k]) :
           ~ClearedBy(call'[t], f, k, b) /\ ~ClearedBy(call[t], f, k, b)
    BY <1>0, <1>2, Numbers DEF ClearedBy, Slot, Fresh
  <2>3. \A h \in Holder : Held'[h] = Held[h]
    BY <1>0, <1>1, <2>1, <2>2, HeldKept
  <2> QED
    BY <1>1, <2>3, OwnersSame DEF Quiet
<1> QED
  BY <1>3, <1>5, <1>6, <1>7 DEF Quiet

LEMMA QuietTakeExtent ==
    ASSUME Sane, Quiet, NEW t \in Thread, TakeExtent(t)
    PROVE  Quiet'
<1> TypeOK /\ Shape
  BY DEF Sane
<1>0. Moved(t) /\ Stays(t) /\ call[t].op = "write" /\ call[t].at = "take" /\ InOrder(t)
      /\ call \in [Thread -> Call] /\ call[t] \in Call /\ CallShape(call[t])
  BY MovedWrite, StaysWithin DEF TakeExtent, At, Quiet, TypeOK, Shape
<1>1. /\ direct' = direct /\ count' = count /\ dirBlock' = dirBlock /\ bitmap' = bitmap
  BY DEF TakeExtent, files, dirs
<1>2. PICK x \in FirstExtent(call[t].tree) :
          call' = [call EXCEPT ![t].ext = x, ![t].todo = BlocksOf(x),
                               ![t].tree = @ \ {x}, ![t].left = @ - x.length,
                               ![t].at = "bits"]
  BY DEF TakeExtent
<1>3. call' = [call EXCEPT ![t] = [call[t] EXCEPT !.ext = x, !.todo = BlocksOf(x),
                     !.tree = @ \ {x}, !.left = @ - x.length, !.at = "bits"]]
  BY <1>2
<1>4. /\ call'[t].ext = x /\ call'[t].todo = BlocksOf(x) /\ call'[t].at = "bits"
      /\ call'[t].k = call[t].k
  BY <1>0, <1>3 DEF Call
<1>5. Marked(call'[t]) = {} /\ Marked(call[t]) = {}
  BY <1>0, <1>4, ExtentTypes DEF Marked, CallShape, Changing
<1>6. call'[t].op = "write" /\ call'[t].file = call[t].file
  BY <1>0 DEF Stays
<1>7. InOrder(t)'
  BY <1>0, <1>1, <1>4, <1>6 DEF InOrder
<1>8. Alike(t)
  BY <1>0, <1>6 DEF Alike, UsesFile
<1>9. \A f, k, b : ~ClearedBy(call'[t], f, k, b) /\ ~ClearedBy(call[t], f, k, b)
  BY <1>0, <1>6 DEF ClearedBy
<1> QED
  BY <1>0, <1>1, <1>4, <1>5, <1>6, <1>7, <1>8, <1>9, QuietKept

LEMMA QuietFreeNextExtent ==
    ASSUME Sane, Quiet, NEW t \in Thread, FreeNextExtent(t)
    PROVE  Quiet'
<1> TypeOK /\ Shape
  BY DEF Sane
<1> DEFINE f == call[t].file
           k == call[t].k
<1>0. Moved(t) /\ Stays(t) /\ call[t].op = "unlink" /\ call[t].at = "free" /\ InOrder(t)
      /\ call \in [Thread -> Call] /\ call[t] \in Call /\ CallShape(call[t])
  BY MovedUnlink, StaysWithin DEF FreeNextExtent, At, Quiet, TypeOK, Shape
<1>1. /\ direct' = direct /\ count' = count /\ dirBlock' = dirBlock /\ bitmap' = bitmap
  BY DEF FreeNextExtent, files, dirs
<1>2. /\ call'[t].todo = BlocksOf(direct[f][k]) /\ call'[t].k = k + 1
      /\ call'[t].at = "bits" /\ call'[t].ext = call[t].ext
  BY <1>0 DEF FreeNextExtent, Call
<1>3. f \in File /\ k \in 0 .. DirectExtents /\ k < count[f] /\ count[f] \in 0 .. DirectExtents
  BY <1>0 DEF FreeNextExtent, Call, TypeOK
<1>4. k \in Slot /\ k + 1 - 1 = k /\ k + 1 > 0 /\ k \in Nat
  BY <1>3, Numbers DEF Slot
<1>5. Marked(call'[t]) = {} /\ Marked(call[t]) = {}
  BY <1>0, <1>2, ExtentTypes DEF Marked, CallShape
<1>6. call'[t].op = "unlink" /\ call'[t].file = f
  BY <1>0 DEF Stays
<1>7. InOrder(t)'
  BY <1>1, <1>2, <1>4, <1>6 DEF InOrder
<1>8. Alike(t)
  BY <1>0, <1>6 DEF Alike, UsesFile
<1>9. ASSUME NEW g \in File, NEW j \in Slot, NEW b \in BlocksOf(direct[g][j])
      PROVE  ClearedBy(call'[t], g, j, b) <=> ClearedBy(call[t], g, j, b)
  <2>1. CASE g # f
    BY <1>6, <2>1 DEF ClearedBy
  <2>2. CASE g = f
    <3>1. call[t].todo = {} /\ j \in Int
      BY <1>0, Numbers DEF CallShape, Changing, Slot
    <3>2. j # k => BlocksOf(direct[f][j]) \cap BlocksOf(direct[f][k]) = {}
      BY <1>3, <1>4 DEF Quiet, Orderly
    <3>3. ClearedBy(call[t], g, j, b) <=> j < k
      BY <1>0, <2>2, <3>1 DEF ClearedBy
    <3>4. ClearedBy(call'[t], g, j, b) <=> j < k + 1 /\ b \notin BlocksOf(direct[f][k])
      BY <1>2, <1>6, <2>2 DEF ClearedBy
    <3>5. CASE j < k
      BY <1>4, <2>2, <3>1, <3>2, <3>3, <3>4, <3>5
    <3>6. CASE j = k
      BY <1>4, <2>2, <3>1, <3>3, <3>4, <3>6
    <3>7. CASE j > k
      BY <1>4, <3>1, <3>3, <3>4, <3>7
    <3> QED
      BY <1>4, <3>1, <3>5, <3>6, <3>7
  <2> QED
    BY <2>1, <2>2
<1> QED
  BY <1>0, <1>1, <1>5, <1>6, <1>7, <1>8, <1>9, QuietKept

\* Steps of look-ups, creations and removals that keep their blocks.
LEMMA QuietOther ==
    ASSUME Sane, Quiet, NEW t \in Thread,
           \/ ExtentFreed(t) \/ TakeSlot(t) \/ CheckList(t) \/ AllocateList(t)
           \/ ReadDirBlock(t) \/ NoReadBuffer(t) \/ ReadFails(t) \/ FillList(t) \/ ScanList(t)
    PROVE  Quiet'
<1> TypeOK /\ Shape
  BY DEF Sane
<1>0. Moved(t) /\ call \in [Thread -> Call] /\ call[t] \in Call /\ CallShape(call[t])
      /\ CallShape(call'[t])
  BY MovedUnlink, MovedTake, MovedLook DEF TypeOK, Shape, Moved
<1>1. /\ direct' = direct /\ count' = count /\ dirBlock' = dirBlock /\ bitmap' = bitmap
  BY DEF ExtentFreed, TakeSlot, CheckList, AllocateList, ReadDirBlock, NoReadBuffer,
         ReadFails, FillList, ScanList, files, dirs
<1>2. call[t].op \in {"unlink", "create", "look"} /\ call[t].ext = NoExtent /\ call[t].todo = {}
  <2>1. CASE ExtentFreed(t)
    BY <1>0, <2>1 DEF ExtentFreed, Changed, At, CallShape
  <2>2. CASE TakeSlot(t)
    BY <1>0, <2>2 DEF TakeSlot, At, CallShape, Changing
  <2>3. CASE \/ CheckList(t) \/ AllocateList(t) \/ ReadDirBlock(t) \/ NoReadBuffer(t)
             \/ ReadFails(t) \/ FillList(t) \/ ScanList(t)
    <3>1. call[t].op = "look" /\ call[t].at \in {"check", "list", "load", "fill", "scan"}
      BY <2>3 DEF CheckList, AllocateList, ReadDirBlock, NoReadBuffer, ReadFails, FillList,
         ScanList, At
    <3> QED
      BY <1>0, <3>1 DEF CallShape, Changing
  <2> QED
    BY <2>1, <2>2, <2>3
<1>3. CASE TakeSlot(t) \/ ScanList(t)
  <2>1. call'[t] = Idle /\ call[t].op \in {"create", "look"}
    BY <1>3, MovedOut DEF TakeSlot, ScanList, At
  <2>2. InOrder(t)' /\ Alike(t) /\ Marked(call'[t]) = Marked(call[t])
    BY <1>2, <2>1, ExtentTypes DEF InOrder, Idle, Changing, Alike, UsesFile, Marked
  <2>3. \A f, k, b : ~ClearedBy(call'[t], f, k, b) /\ ~ClearedBy(call[t], f, k, b)
    BY <2>1 DEF ClearedBy, Idle
  <2> QED
    BY <1>0, <1>1, <2>1, <2>2, <2>3, QuietKept
<1>4. CASE \/ ExtentFreed(t) \/ CheckList(t) \/ AllocateList(t)
           \/ ReadDirBlock(t) \/ NoReadBuffer(t) \/ ReadFails(t) \/ FillList(t)
  <2>1. Stays(t)
    BY <1>4, StaysWithin
  <2>2. \A p : Goto(t, p) => /\ call'[t].dir = call[t].dir /\ call'[t].k = call[t].k
                             /\ call'[t].todo = call[t].todo /\ call'[t].ext = call[t].ext
                             /\ call'[t].at = p
    BY <1>0 DEF Goto, Call
  <2>3. \E p \in {"free", "list", "load", "fill", "scan"} : Goto(t, p)
    BY <1>4 DEF ExtentFreed, CheckList, AllocateList, ReadDirBlock, NoReadBuffer, ReadFails,
       FillList
  <2>4. /\ call'[t].dir = call[t].dir /\ call'[t].k = call[t].k
        /\ call'[t].todo = {} /\ call'[t].ext = NoExtent
        /\ call'[t].at \in {"free", "list", "load", "fill", "scan"}
    BY <1>2, <2>2, <2>3
  <2>5. InOrder(t)'
    BY <1>2, <2>1, <2>4 DEF InOrder, Changing, Stays
  <2>6. Alike(t) /\ Marked(call'[t]) = Marked(call[t])
    BY <1>2, <2>1, <2>4 DEF Alike, UsesFile, Stays, Marked
  <2>7. \A f, k, b : ClearedBy(call'[t], f, k, b) <=> ClearedBy(call[t], f, k, b)
    BY <1>2, <2>1, <2>4 DEF ClearedBy, Stays
  <2> QED
    BY <1>0, <1>1, <1>2, <2>5, <2>6, <2>7, QuietKept
<1> QED
  BY <1>3, <1>4

LEMMA QuietFindDirBlock ==
    ASSUME Sane, Quiet, NEW t \in Thread, FindDirBlock(t)
    PROVE  Quiet'
<1> TypeOK /\ Shape
  BY DEF Sane
<1>0. /\ Moved(t) /\ Stays(t) /\ call \in [Thread -> Call] /\ call[t] \in Call
      /\ CallShape(call[t]) /\ call[t].op = "look" /\ call[t].at = "load"
      /\ call'[t].dir = call[t].dir /\ call'[t].op = "look"
  BY MovedLook, StaysWithin, LookSteps DEF TypeOK, Shape, FindDirBlock, At
<1>1. /\ direct' = direct /\ count' = count /\ dirBlock' = dirBlock /\ bitmap' = bitmap
      /\ dirBlock[call[t].dir] = 0
  BY DEF FindDirBlock, files, dirs
<1>2. call[t].ext = NoExtent /\ call[t].todo = {}
  BY <1>0 DEF CallShape, Changing
<1>3. call'[t].at \in {"bits", "scan"} /\ Marked(call'[t]) = {}
  <2>1. CASE FindFreeBlock(bitmap) = {}
    <3>1. call'[t].at = "scan" /\ call'[t].ext = NoExtent
      BY <1>0, <1>2, <2>1 DEF FindDirBlock, Call
    <3> QED
      BY <3>1, ExtentTypes DEF Marked
  <2>2. CASE FindFreeBlock(bitmap) # {}
    <3>1. PICK b \in DataBlock : FindFreeBlock(bitmap) = {b} /\ Lowest(FindFreeBlock(bitmap)) = b
      BY <2>2, FreeBlockIsOne
    <3>2. call' = [call EXCEPT ![t].todo = {b}, ![t].ext = [start |-> b, length |-> 1],
                               ![t].at = "bits"]
      BY <2>2, <3>1 DEF FindDirBlock
    <3>3. /\ call'[t].todo = {b} /\ call'[t].ext = [start |-> b, length |-> 1]
          /\ call'[t].at = "bits"
      BY <1>0, <3>2 DEF Call
    <3>4. BlocksOf([start |-> b, length |-> 1]) = {b}
      BY Numbers DEF BlocksOf
    <3> QED
      BY <3>3, <3>4 DEF Marked
  <2> QED
    BY <2>1, <2>2
<1>4. Marked(call[t]) = {}
  BY <1>2, ExtentTypes DEF Marked
<1>5. InOrder(t)' /\ Alike(t)
  BY <1>0, <1>1, <1>3 DEF InOrder, Alike, UsesFile
<1>6. \A f, k, b : ~ClearedBy(call'[t], f, k, b) /\ ~ClearedBy(call[t], f, k, b)
  BY <1>0 DEF ClearedBy
<1> QED
  BY <1>0, <1>1, <1>3, <1>4, <1>5, <1>6, QuietKept

\* The byte is loaded while the bit is as the call expects it.
LEMMA QuietLoadByte ==
    ASSUME Sane, Quiet, Clean', NEW t \in Thread, LoadByte(t)
    PROVE  Quiet'
<1> TypeOK /\ Shape
  BY DEF Sane
<1> DEFINE b == Lowest(call[t].todo)
<1>0. /\ Moved(t) /\ Stays(t) /\ call \in [Thread -> Call] /\ call[t] \in Call
      /\ CallShape(call[t]) /\ InOrder(t)
      /\ call[t].at = "bits" /\ call[t].todo # {}
  BY MovedBits, StaysWithin DEF TypeOK, Shape, Quiet, LoadByte
<1>1. /\ direct' = direct /\ count' = count /\ dirBlock' = dirBlock /\ bitmap' = bitmap
  BY DEF LoadByte, files, dirs
<1>2. /\ call'[t].byte = bitmap \cap Byte(b) /\ call'[t].at = "store"
      /\ call'[t].todo = call[t].todo /\ call'[t].ext = call[t].ext
      /\ call'[t].k = call[t].k /\ call'[t].dir = call[t].dir
  BY <1>0 DEF LoadByte, Call
<1>3. call'[t].op = call[t].op /\ call'[t].file = call[t].file
  BY <1>0 DEF Stays
<1>4. Clears(t) <=> b \in bitmap
  BY DEF LoadByte, Clean, IsAllocated
<1>5. b \in Byte(b)
  <2>1. call[t].todo \in SUBSET DataBlock
    BY <1>0 DEF Call
  <2> QED
    BY <1>0, <2>1, LowestIsLeast DEF Byte
<1>6. InOrder(t)'
  <2>1. Clears(t)' <=> Lowest(call'[t].todo) \in call'[t].byte
    BY <1>2, <1>3, <1>4, <1>5 DEF Clears
  <2> QED
    BY <1>0, <1>1, <1>2, <1>3, <2>1 DEF InOrder, Changing
<1>7. Alike(t) /\ Marked(call'[t]) = Marked(call[t])
  BY <1>2, <1>3 DEF Alike, UsesFile, Marked
<1>8. \A f, k, c : ClearedBy(call'[t], f, k, c) <=> ClearedBy(call[t], f, k, c)
  BY <1>2, <1>3 DEF ClearedBy
<1> QED
  BY <1>0, <1>1, <1>2, <1>3, <1>6, <1>7, <1>8, QuietKept

-----------------------------------------------------------------------------
(* The steps that change bits, and those that hand blocks over.              *)

\* Unless the byte changed since it was loaded, a store changes its own bit.
LEMMA StoreIsOneBit ==
    ASSUME Sane, Quiet, Clean', NEW t \in Thread, StoreByte(t)
    PROVE  LET b == Lowest(call[t].todo)
           IN  /\ b \in call[t].todo
               /\ Clears(t) => b \in bitmap /\ bitmap' = bitmap \ {b}
               /\ ~Clears(t) => b \notin bitmap /\ bitmap' = bitmap \cup {b}
<1> DEFINE b == Lowest(call[t].todo)
<1>1. call[t] \in Call /\ call[t].todo # {} /\ call[t].at = "store" /\ InOrder(t)
  BY DEF Sane, TypeOK, Shape, CallShape, StoreByte, Quiet
<1>2. b \in call[t].todo /\ b \in DataBlock /\ b \in Byte(b)
  BY <1>1, LowestIsLeast DEF Call, Byte
<1>3. bitmap \cap Byte(b) = call[t].byte
  BY DEF StoreByte, Clean
<1>4. Clears(t) <=> b \in bitmap
  BY <1>1, <1>2, <1>3 DEF InOrder
<1>5. bitmap' = (bitmap \ Byte(b)) \cup
                (IF Clears(t) THEN call[t].byte \ {b} ELSE call[t].byte \cup {b})
  BY DEF StoreByte
<1>6. CASE Clears(t)
  BY <1>2, <1>3, <1>4, <1>5, <1>6
<1>7. CASE ~Clears(t)
  BY <1>2, <1>3, <1>4, <1>5, <1>7
<1> QED
  BY <1>2, <1>6, <1>7

LEMMA QuietStoreByte ==
    ASSUME Sane, Quiet, Clean', NEW t \in Thread, StoreByte(t)
    PROVE  Quiet'
<1> TypeOK /\ Shape
  BY DEF Sane
<1> DEFINE b == Lowest(call[t].todo)
<1>0. /\ Moved(t) /\ Stays(t) /\ call \in [Thread -> Call] /\ call[t] \in Call
      /\ CallShape(call[t]) /\ InOrder(t) /\ call[t].at = "store"
  BY MovedBits, StaysWithin DEF TypeOK, Shape, Quiet, StoreByte
<1>1. /\ direct' = direct /\ count' = count /\ dirBlock' = dirBlock
  BY DEF StoreByte, files, dirs
<1>2. /\ call'[t].todo = call[t].todo \ {b} /\ call'[t].at = "bits"
      /\ call'[t].ext = call[t].ext
      /\ call'[t].k = call[t].k /\ call'[t].dir = call[t].dir
  BY <1>0 DEF StoreByte, Call
<1>3. call'[t].op = call[t].op /\ call'[t].file = call[t].file
  BY <1>0 DEF Stays
<1>4. /\ b \in call[t].todo
      /\ Clears(t) => b \in bitmap /\ bitmap' = bitmap \ {b}
      /\ ~Clears(t) => b \notin bitmap /\ bitmap' = bitmap \cup {b}
  BY StoreIsOneBit
<1>5. Alone'
  <2>1. Alike(t)
    BY <1>2, <1>3 DEF Alike, UsesFile
  <2> QED
    BY <1>0, <2>1, AloneKept DEF Quiet
<1>6. ASSUME NEW u \in Thread PROVE InOrder(u)'
  <2>1. InOrder(t)'
    BY <1>0, <1>1, <1>2, <1>3 DEF InOrder, Changing
  <2> QED
    BY <1>0, <1>1, <2>1, OthersInOrder DEF Quiet
<1>7. ASSUME NEW f \in File PROVE Orderly(f)'
  BY <1>0, <1>1, <1>2, <1>3, OrderlyKept DEF Quiet
<1>8. Owns(Holder, Held', bitmap')
  <2>0. Owns(Holder, Held, bitmap)
    BY DEF Quiet
  <2>1. CASE ~Clears(t)
    <3>1. \A f \in File, k \in Slot : \A c \in BlocksOf(direct[f][k]) :
             ~ClearedBy(call'[t], f, k, c) /\ ~ClearedBy(call[t], f, k, c)
      BY <1>3, <2>1 DEF ClearedBy, Clears
    <3>2. ASSUME NEW h \in Holder, h # <<"call", t>> PROVE Held'[h] = Held[h]
      <4>1. ASSUME NEW f \in File, NEW k \in Slot, h = <<"claim", <<f, k>>>>
            PROVE  Held'[h] = Held[h]
        BY <1>0, <1>1, <3>1, <4>1, FileClaimKept
      <4>2. ASSUME NEW d \in Dir, h = <<"claim", <<d, DirBlock>>>> PROVE Held'[h] = Held[h]
        BY <1>1, <4>2, DirectoryClaimKept
      <4>3. ASSUME NEW u \in Thread, h = <<"call", u>> PROVE Held'[h] = Held[h]
        <5>1. call'[u] = call[u]
          BY <1>0, <3>2, <4>3 DEF Moved
        <5> QED
          BY <4>3, <5>1, CallClaimKept
      <4> QED
        BY <4>1, <4>2, <4>3, HolderCases
    <3>3. Held'[<<"call", t>>] = Held[<<"call", t>>] \cup {b}
      <4>1. b \in BlocksOf(call[t].ext)
        BY <1>0, <1>4, <2>1 DEF CallShape, Clears
      <4>2. Marked(call'[t]) = Marked(call[t]) \cup {b}
        BY <1>2, <1>4, <4>1 DEF Marked
      <4> QED
        BY <4>2, HolderFactsNow, HolderFactsNext DEF HolderFacts
    <3>4. <<"call", t>> \in Holder
      BY HeldByCall
    <3>5. Owns(Holder, Held', bitmap \cup {b})
      BY <1>4, <2>0, <2>1, <3>2, <3>3, <3>4, OwnerGains
    <3> QED
      BY <1>4, <2>1, <3>5
  <2>2. CASE Clears(t)
    <3> DEFINE f == call[t].file
               k == call[t].k - 1
               claim == <<"claim", <<f, k>>>>
    <3>1. /\ call[t].op = "unlink" /\ f \in File /\ call[t].k > 0
          /\ call[t].todo \subseteq BlocksOf(direct[f][k])
      BY <1>0, <2>2 DEF InOrder, Changing, Clears, Call
    <3>2. k \in Slot /\ call[t].k \in Int /\ \A j \in Slot : j \in Int
      <4>1. call[t].k \in 0 .. DirectExtents
        BY <1>0 DEF Call
      <4> QED
        BY <3>1, <4>1, Numbers DEF Slot
    <3>3. claim \in Holder
      BY <3>1, <3>2, HeldByFile
    <3>4. \A u \in Thread : u # t => ~UsesFile(f, call[u])
      BY <3>1 DEF Quiet, Alone, UsesFile
    <3>5. \A u \in Thread : \A j, c : u # t => ~ClearedBy(call[u], f, j, c)
      BY <3>4 DEF UsesFile, ClearedBy
    <3>6. Held[claim] = {c \in BlocksOf(direct[f][k]) : ~ClearedBy(call[t], f, k, c)}
      <4>1. Held[claim] =
              {c \in BlocksOf(direct[f][k]) : \A u \in Thread : ~ClearedBy(call[u], f, k, c)}
        BY <3>1, <3>2, HolderFactsNow DEF HolderFacts
      <4>2. \A u \in Thread : \A c : u # t => ~ClearedBy(call[u], f, k, c)
        BY <3>5
      <4> QED
        BY <4>1, <4>2
    <3>7. Held'[claim] = {c \in BlocksOf(direct[f][k]) : ~ClearedBy(call'[t], f, k, c)}
      <4>1. Held'[claim] =
              {c \in BlocksOf(direct'[f][k]) : \A u \in Thread : ~ClearedBy(call'[u], f, k, c)}
        BY <3>1, <3>2, HolderFactsNext DEF HolderFacts
      <4>2. \A u \in Thread : \A c : u # t => ~ClearedBy(call'[u], f, k, c)
        BY <1>0, <3>5 DEF Moved
      <4> QED
        BY <1>1, <4>1, <4>2
    <3>8. \A c : ClearedBy(call[t], f, k, c) <=> c \notin call[t].todo
      BY <3>1, <3>2 DEF ClearedBy
    <3>9. \A c : ClearedBy(call'[t], f, k, c) <=> c \notin call[t].todo \/ c = b
      BY <1>2, <1>3, <3>1, <3>2 DEF ClearedBy
    <3>10. Held'[claim] = Held[claim] \ {b} /\ b \in Held[claim]
      BY <1>4, <3>1, <3>6, <3>7, <3>8, <3>9
    <3>11. ASSUME NEW h \in Holder, h # claim PROVE Held'[h] = Held[h]
      <4>1. ASSUME NEW g \in File, NEW j \in Slot, h = <<"claim", <<g, j>>>>
            PROVE  Held'[h] = Held[h]
        <5>1. ASSUME NEW c \in BlocksOf(direct[g][j])
              PROVE  ClearedBy(call'[t], g, j, c) <=> ClearedBy(call[t], g, j, c)
          <6>1. CASE g # f
            BY <1>3, <6>1 DEF ClearedBy
          <6>2. CASE g = f
            <7>1. j # k
              BY <3>11, <4>1, <6>2
            <7>2. b \notin BlocksOf(direct[g][j])
              BY <1>4, <3>1, <3>2, <6>2, <7>1 DEF Quiet, Orderly
            <7> QED
              BY <1>2, <1>3, <5>1, <7>2 DEF ClearedBy
          <6> QED
            BY <6>1, <6>2
        <5> QED
          BY <1>0, <1>1, <4>1, <5>1, FileClaimKept
      <4>2. ASSUME NEW d \in Dir, h = <<"claim", <<d, DirBlock>>>> PROVE Held'[h] = Held[h]
        BY <1>1, <4>2, DirectoryClaimKept
      <4>3. ASSUME NEW u \in Thread, h = <<"call", u>> PROVE Held'[h] = Held[h]
        <5>1. Marked(call'[u]) = Marked(call[u])
          <6>1. Marked(call[t]) = {} /\ Marked(call'[t]) = {}
            BY <1>0, <1>2, <3>1, ExtentTypes DEF Marked, CallShape
          <6> QED
            BY <1>0, <6>1 DEF Moved
        <5> QED
          BY <4>3, <5>1, CallClaimKept
      <4> QED
        BY <4>1, <4>2, <4>3, HolderCases
    <3>12. Owns(Holder, Held', bitmap \ {b})
      <4> HIDE DEF claim, b
      <4> QED
        BY <2>0, <3>3, <3>10, <3>11, OwnerLoses
    <3> QED
      BY <1>4, <2>2, <3>12
  <2> QED
    BY <2>1, <2>2
<1> QED
  BY <1>5, <1>6, <1>7, <1>8 DEF Quiet

\* Alone with its file, a write attaches an extent to a slot that has none.
LEMMA QuietAttach ==
    ASSUME Sane, Quiet, NEW t \in Thread, Attach(t)
    PROVE  Quiet'
<1> TypeOK /\ Shape /\ Alone
  BY DEF Sane, Quiet
<1> DEFINE f == call[t].file
           k == call[t].k
           x == call[t].ext
           from == <<"call", t>>
           to == <<"claim", <<f, k>>>>
<1>0. /\ Moved(t) /\ Stays(t) /\ call \in [Thread -> Call] /\ call[t] \in Call
      /\ CallShape(call[t]) /\ InOrder(t)
      /\ call[t].op = "write" /\ call[t].at = "bits" /\ call[t].todo = {}
  BY MovedWrite, StaysWithin DEF TypeOK, Shape, Quiet, Attach, Changed, At
<1>1. /\ f \in File /\ k \in Slot /\ k \in Int /\ \A j \in Slot : j \in Int
      /\ count[f] \in Int /\ count[f] <= k
  <2>1. f \in File /\ k \in 0 .. DirectExtents /\ k < DirectExtents
    BY <1>0 DEF Call, CallShape, Changing
  <2>2. k \in Slot /\ k \in Int /\ \A j \in Slot : j \in Int
    BY <2>1, Numbers DEF Slot
  <2>3. count[f] \in 0 .. DirectExtents
    BY <2>1 DEF TypeOK
  <2> QED
    BY <1>0, <2>1, <2>2, <2>3 DEF InOrder
<1>2. /\ count' = count /\ dirBlock' = dirBlock /\ bitmap' = bitmap
      /\ direct' = [direct EXCEPT ![f][k] = x]
  BY DEF Attach, dirs
<1>3. /\ direct'[f][k] = x
      /\ \A j \in Slot : j # k => direct'[f][j] = direct[f][j]
      /\ \A g \in File : g # f => direct'[g] = direct[g]
  BY <1>1, <1>2 DEF TypeOK
<1>4. /\ call'[t].op = "write" /\ call'[t].file = f /\ call'[t].k = k + 1
      /\ call'[t].ext = NoExtent /\ call'[t].at = "take" /\ call'[t].todo = {}
  <2>1. call'[t].k = k + 1 /\ call'[t].ext = NoExtent /\ call'[t].at = "take"
        /\ call'[t].todo = call[t].todo
    BY <1>0 DEF Attach, Call
  <2> QED
    BY <1>0, <2>1 DEF Stays
<1>5. \A u \in Thread : u # t => ~UsesFile(f, call[u]) /\ call'[u] = call[u]
  BY <1>0, <1>1 DEF Alone, UsesFile, Moved
<1>6. \A u \in Thread : \A j, b :
         ~ClearedBy(call[u], f, j, b) /\ ~ClearedBy(call'[u], f, j, b)
  BY <1>0, <1>4, <1>5 DEF ClearedBy, UsesFile
<1>7. \A j \in Slot : Held[<<"claim", <<f, j>>>>] = BlocksOf(direct[f][j])
  <2> SUFFICES ASSUME NEW j \in Slot
               PROVE  Held[<<"claim", <<f, j>>>>] = BlocksOf(direct[f][j])
    OBVIOUS
  <2>1. Held[<<"claim", <<f, j>>>>] =
          {b \in BlocksOf(direct[f][j]) : \A u \in Thread : ~ClearedBy(call[u], f, j, b)}
    BY <1>1, HolderFactsNow DEF HolderFacts
  <2>2. \A u \in Thread : \A b : ~ClearedBy(call[u], f, j, b)
    BY <1>6
  <2> QED
    BY <2>1, <2>2
<1>8. ~InUse(f, k)
  <2>1. ~(k < count[f]) /\ ~(k < k)
    BY <1>1
  <2> QED
    BY <1>5, <2>1 DEF InUse, UsesFile
<1>9. BlocksOf(direct[f][k]) = {}
  BY <1>1, <1>8 DEF Quiet, Orderly
<1>10. Held[from] = BlocksOf(x) /\ Held'[from] = {}
  <2>1. Marked(call[t]) = BlocksOf(x) /\ Marked(call'[t]) = {}
    BY <1>0, <1>4, ExtentTypes DEF Marked
  <2> QED
    BY <2>1, HolderFactsNow, HolderFactsNext DEF HolderFacts
<1>11. Held[to] = {} /\ Held'[to] = BlocksOf(x)
  <2>1. Held'[to] = {b \in BlocksOf(x) : \A u \in Thread : ~ClearedBy(call'[u], f, k, b)}
    <3>1. Held'[to] =
            {b \in BlocksOf(direct'[f][k]) : \A u \in Thread : ~ClearedBy(call'[u], f, k, b)}
      BY <1>1, HolderFactsNext DEF HolderFacts
    <3> QED
      BY <1>3, <3>1
  <2>2. \A u \in Thread : \A b : ~ClearedBy(call'[u], f, k, b)
    BY <1>6
  <2> QED
    BY <1>1, <1>7, <1>9, <2>1, <2>2
<1>12. ASSUME NEW h \in Holder \ {from, to} PROVE Held'[h] = Held[h]
  <2>1. ASSUME NEW g \in File, NEW j \in Slot, h = <<"claim", <<g, j>>>>
        PROVE  Held'[h] = Held[h]
    <3>1. direct'[g][j] = direct[g][j]
      BY <1>3, <1>12, <2>1
    <3>2. \A b \in BlocksOf(direct[g][j]) :
             ClearedBy(call'[t], g, j, b) <=> ClearedBy(call[t], g, j, b)
      BY <1>0, <1>4 DEF ClearedBy
    <3> QED
      BY <1>0, <2>1, <3>1, <3>2, FileClaimKept
  <2>2. ASSUME NEW d \in Dir, h = <<"claim", <<d, DirBlock>>>> PROVE Held'[h] = Held[h]
    BY <1>2, <2>2, DirectoryClaimKept
  <2>3. ASSUME NEW u \in Thread, h = <<"call", u>> PROVE Held'[h] = Held[h]
    <3>1. call'[u] = call[u]
      BY <1>5, <1>12, <2>3
    <3> QED
      BY <2>3, <3>1, CallClaimKept
  <2> QED
    BY <2>1, <2>2, <2>3, HolderCases
<1>13. from \in Holder /\ to \in Holder /\ from # to
  BY <1>1, HeldByFile, HeldByCall
<1>14. Owns(Holder, Held, bitmap)
  BY DEF Quiet
<1>15. Owns(Holder, Held', bitmap')
  <2> HIDE DEF from, to
  <2>1. Owns(Holder, Held', bitmap)
    BY <1>10, <1>11, <1>12, <1>13, <1>14, OwnerMoves
  <2> QED
    BY <1>2, <2>1
<1>16. Alone'
  <2>1. Alike(t)
    BY <1>0, <1>4 DEF Alike, UsesFile
  <2> QED
    BY <1>0, <2>1, AloneKept
<1>17. ASSUME NEW u \in Thread PROVE InOrder(u)'
  <2>1. InOrder(t)'
    <3>1. count[f] <= k + 1
      BY <1>1
    <3> QED
      BY <1>2, <1>4, <3>1 DEF InOrder
  <2>2. CASE u # t
    <3>1. \A g \in File : UsesFile(g, call[u]) => direct'[g] = direct[g] /\ count'[g] = count[g]
      BY <1>2, <1>3, <1>5, <2>2
    <3> QED
      BY <1>0, <1>2, <2>2, <3>1, OthersInOrder DEF Quiet
  <2> QED
    BY <2>1, <2>2
<1>18. ASSUME NEW g \in File PROVE Orderly(g)'
  <2>1. CASE g # f
    <3>1. direct'[g] = direct[g] /\ count'[g] = count[g]
      BY <1>2, <1>3, <2>1
    <3> QED
      BY <1>0, <2>1, <3>1, OrderlyKept DEF Quiet
  <2>2. CASE g = f
    <3>1. ASSUME NEW j \in Slot, ~InUse(g, j)' PROVE BlocksOf(direct'[g][j]) = {}
      <4>1. j # k
        <5>1. k < k + 1
          BY <1>1
        <5> QED
          BY <1>4, <2>2, <3>1, <5>1 DEF InUse
      <4>2. ~InUse(g, j)
        <5>1. ~(j < count[f]) /\ ~(j < k + 1)
          BY <1>2, <1>4, <2>2, <3>1 DEF InUse
        <5>2. ~(j < k)
          BY <1>1, <5>1
        <5> QED
          BY <1>5, <2>2, <5>1, <5>2 DEF InUse, UsesFile
      <4> QED
        BY <1>3, <2>2, <4>1, <4>2 DEF Quiet, Orderly
    <3>2. ASSUME NEW j \in Slot, j # k PROVE BlocksOf(direct[f][j]) \cap BlocksOf(x) = {}
      <4>1. <<"claim", <<f, j>>>> \in Holder /\ <<"claim", <<f, j>>>> # from
        BY <1>1, HeldByFile
      <4>2. Held[<<"claim", <<f, j>>>>] \cap Held[from] = {}
        <5> HIDE DEF from
        <5> QED
          BY <1>13, <1>14, <4>1 DEF Owns
      <4> QED
        BY <1>7, <1>10, <4>2
    <3>3. \A i, j \in Slot : i # j => BlocksOf(direct'[f][i]) \cap BlocksOf(direct'[f][j]) = {}
      <4>1. \A i, j \in Slot : i # j => BlocksOf(direct[f][i]) \cap BlocksOf(direct[f][j]) = {}
        BY <1>1 DEF Quiet, Orderly
      <4> QED
        BY <1>3, <3>2, <4>1
    <3>4. \A i, j \in Slot : i # j => BlocksOf(direct'[g][i]) \cap BlocksOf(direct'[g][j]) = {}
      BY <2>2, <3>3
    <3> QED
      BY <3>1, <3>4 DEF Orderly
  <2> QED
    BY <2>1, <2>2
<1> QED
  BY <1>15, <1>16, <1>17, <1>18 DEF Quiet

\* Alone with its directory, a look-up gives it a block when it has none.
LEMMA QuietSetDirBlock ==
    ASSUME Sane, Quiet, NEW t \in Thread, SetDirBlock(t)
    PROVE  Quiet'
<1> TypeOK /\ Shape /\ Alone
  BY DEF Sane, Quiet
<1> DEFINE d == call[t].dir
           b == call[t].ext.start
           from == <<"call", t>>
           to == <<"claim", <<d, DirBlock>>>>
<1>0. /\ Moved(t) /\ Stays(t) /\ call \in [Thread -> Call] /\ call[t] \in Call
      /\ CallShape(call[t]) /\ InOrder(t)
      /\ call[t].op = "look" /\ call[t].at = "bits" /\ call[t].todo = {}
      /\ call'[t].dir = d /\ call'[t].op = "look"
  BY MovedLook, StaysWithin, LookSteps DEF TypeOK, Shape, Quiet, SetDirBlock, Changed, At
<1>1. /\ d \in Dir /\ b \in DataBlock /\ call[t].ext.length = 1 /\ dirBlock[d] = 0
  BY <1>0 DEF CallShape, Changing, InOrder
<1>2. /\ direct' = direct /\ count' = count /\ bitmap' = bitmap
      /\ dirBlock' = [dirBlock EXCEPT ![d] = b]
  BY DEF SetDirBlock, files
<1>3. dirBlock'[d] = b /\ \A c \in Dir : c # d => dirBlock'[c] = dirBlock[c]
  BY <1>1, <1>2 DEF TypeOK
<1>4. call'[t].ext = NoExtent /\ call'[t].at = "scan"
  BY <1>0 DEF SetDirBlock, Call
<1>5. BlocksOf(call[t].ext) = {b} /\ b # 0
  <2>1. b \in Nat /\ b # 0
    BY <1>1, Numbers
  <2>2. b .. (b + 1 - 1) = {b}
    BY <2>1
  <2> QED
    BY <1>1, <2>1, <2>2 DEF BlocksOf
<1>6. Held[from] = {b} /\ Held'[from] = {}
  <2>1. Marked(call[t]) = {b} /\ Marked(call'[t]) = {}
    BY <1>0, <1>4, <1>5, ExtentTypes DEF Marked
  <2> QED
    BY <2>1, HolderFactsNow, HolderFactsNext DEF HolderFacts
<1>7. Held[to] = {} /\ Held'[to] = {b}
  <2>1. Held[to] = {dirBlock[d]} \ {0}
    BY <1>1, HolderFactsNow DEF HolderFacts
  <2>2. Held'[to] = {b} \ {0}
    <3>1. Held'[to] = {dirBlock'[d]} \ {0}
      BY <1>1, HolderFactsNext DEF HolderFacts
    <3> QED
      BY <1>3, <3>1
  <2> QED
    BY <1>1, <1>5, <2>1, <2>2
<1>8. \A f, k, c : ~ClearedBy(call'[t], f, k, c) /\ ~ClearedBy(call[t], f, k, c)
  BY <1>0 DEF ClearedBy
<1>9. ASSUME NEW h \in Holder \ {from, to} PROVE Held'[h] = Held[h]
  <2>1. ASSUME NEW g \in File, NEW j \in Slot, h = <<"claim", <<g, j>>>>
        PROVE  Held'[h] = Held[h]
    BY <1>0, <1>2, <1>8, <2>1, FileClaimKept
  <2>2. ASSUME NEW c \in Dir, h = <<"claim", <<c, DirBlock>>>> PROVE Held'[h] = Held[h]
    <3>1. c # d
      BY <1>9, <2>2
    <3> QED
      BY <1>3, <2>2, <3>1, DirectoryClaimKept
  <2>3. ASSUME NEW u \in Thread, h = <<"call", u>> PROVE Held'[h] = Held[h]
    <3>1. call'[u] = call[u]
      BY <1>0, <1>9, <2>3 DEF Moved
    <3> QED
      BY <2>3, <3>1, CallClaimKept
  <2> QED
    BY <2>1, <2>2, <2>3, HolderCases
<1>10. from \in Holder /\ to \in Holder /\ from # to
  BY <1>1, HeldByDirectory, HeldByCall
<1>11. Owns(Holder, Held', bitmap')
  <2>1. Owns(Holder, Held, bitmap)
    BY DEF Quiet
  <2> HIDE DEF from, to
  <2>2. Owns(Holder, Held', bitmap)
    BY <1>6, <1>7, <1>9, <1>10, <2>1, OwnerMoves
  <2> QED
    BY <1>2, <2>2
<1>12. Alone'
  <2>1. Alike(t)
    BY <1>0 DEF Alike, UsesFile
  <2> QED
    BY <1>0, <2>1, AloneKept
<1>13. ASSUME NEW u \in Thread PROVE InOrder(u)'
  <2>1. InOrder(t)'
    BY <1>0, <1>4 DEF InOrder, Changing
  <2>2. CASE u # t
    <3>1. call[u].op = "look" => dirBlock'[call[u].dir] = dirBlock[call[u].dir]
      <4>1. call[u].op = "look" => call[u].dir # d /\ call[u].dir \in Dir
        BY <1>0, <2>2 DEF Alone, Shape, CallShape
      <4> QED
        BY <1>3, <4>1
    <3> QED
      BY <1>0, <1>2, <2>2, <3>1, OthersInOrder DEF Quiet
  <2> QED
    BY <2>1, <2>2
<1>14. ASSUME NEW g \in File PROVE Orderly(g)'
  BY <1>0, <1>2, OrderlyKept DEF Quiet
<1> QED
  BY <1>11, <1>12, <1>13, <1>14 DEF Quiet

\* Alone with its file, a write sets the number of extents to those attached.
LEMMA QuietSetCount ==
    ASSUME Sane, Quiet, NEW t \in Thread, SetCount(t)
    PROVE  Quiet'
<1> TypeOK /\ Shape /\ Alone
  BY DEF Sane, Quiet
<1> DEFINE f == call[t].file
<1>0. /\ Moved(t) /\ call'[t] = Idle /\ call \in [Thread -> Call] /\ call[t] \in Call
      /\ CallShape(call[t]) /\ InOrder(t)
      /\ call[t].op = "write" /\ call[t].at = "take"
  BY MovedWrite, MovedOut DEF TypeOK, Shape, Quiet, SetCount, At
<1>1. /\ f \in File /\ call[t].k \in Int /\ (\A j \in Slot : j \in Int)
      /\ count[f] \in Int /\ count[f] <= call[t].k
  <2>1. f \in File /\ call[t].k \in 0 .. DirectExtents
    BY <1>0 DEF Call
  <2>2. count[f] \in 0 .. DirectExtents
    BY <2>1 DEF TypeOK
  <2>3. \A j \in Slot : j \in Int
    BY Numbers DEF Slot
  <2> QED
    BY <1>0, <2>1, <2>2, <2>3 DEF InOrder
<1>2. /\ direct' = direct /\ dirBlock' = dirBlock /\ bitmap' = bitmap
      /\ count' = [count EXCEPT ![f] = call[t].k]
  BY DEF SetCount, dirs
<1>3. count'[f] = call[t].k /\ \A g \in File : g # f => count'[g] = count[g]
  BY <1>1, <1>2 DEF TypeOK
<1>4. \A u \in Thread : u # t => ~UsesFile(f, call[u])
  BY <1>0, <1>1 DEF Alone, UsesFile
<1>5. Alone'
  <2>1. Alike(t)
    BY <1>0 DEF Alike, UsesFile, Idle
  <2> QED
    BY <1>0, <2>1, AloneKept
<1>6. ASSUME NEW u \in Thread PROVE InOrder(u)'
  <2>1. InOrder(t)'
    BY <1>0 DEF InOrder, Idle, Changing
  <2>2. CASE u # t
    <3>1. \A g \in File : UsesFile(g, call[u]) => direct'[g] = direct[g] /\ count'[g] = count[g]
      BY <1>2, <1>3, <1>4, <2>2
    <3> QED
      BY <1>0, <1>2, <2>2, <3>1, OthersInOrder DEF Quiet
  <2> QED
    BY <2>1, <2>2
<1>7. ASSUME NEW g \in File PROVE Orderly(g)'
  <2>1. CASE g # f
    <3>1. direct'[g] = direct[g] /\ count'[g] = count[g] /\ ~(call[t].op = "write" /\ f = g)
      BY <1>2, <1>3, <2>1
    <3> QED
      BY <1>0, <3>1, OrderlyKept DEF Quiet
  <2>2. CASE g = f
    <3>1. ASSUME NEW j \in Slot, ~InUse(g, j)' PROVE ~InUse(g, j)
      <4>1. ~(j < call[t].k)
        BY <1>3, <2>2, <3>1 DEF InUse
      <4>2. ~(j < count[f])
        BY <1>1, <4>1
      <4> QED
        BY <1>4, <2>2, <4>1, <4>2 DEF InUse, UsesFile
    <3> QED
      BY <1>2, <3>1 DEF Quiet, Orderly
  <2> QED
    BY <2>1, <2>2
<1>8. Owns(Holder, Held', bitmap')
  <2>1. Marked(call'[t]) = {} /\ Marked(call[t]) = {}
    BY <1>0, ExtentTypes DEF Marked, Idle, CallShape, Changing
  <2>2. \A g, j, b : ~ClearedBy(call'[t], g, j, b) /\ ~ClearedBy(call[t], g, j, b)
    BY <1>0 DEF ClearedBy, Idle
  <2>3. \A h \in Holder : Held'[h] = Held[h]
    BY <1>0, <1>2, <2>1, <2>2, HeldKept
  <2> QED
    BY <1>2, <2>3, OwnersSame DEF Quiet
<1> QED
  BY <1>5, <1>6, <1>7, <1>8 DEF Quiet

\* Alone with its file, a removal has cleared all of its blocks at the end.
LEMMA QuietClearEntry ==
    ASSUME Sane, Quiet, NEW t \in Thread, ClearEntry(t)
    PROVE  Quiet'
<1> TypeOK /\ Shape /\ Alone
  BY DEF Sane, Quiet
<1> DEFINE f == call[t].file
<1>0. /\ Moved(t) /\ call'[t] = Idle /\ call \in [Thread -> Call] /\ call[t] \in Call
      /\ CallShape(call[t]) /\ call[t].op = "unlink" /\ call[t].at = "free"
      /\ call[t].k >= count[f]
  BY MovedUnlink, MovedOut DEF TypeOK, Shape, ClearEntry, At
<1>1. /\ f \in File /\ call[t].k \in Int /\ (\A j \in Slot : j \in Int)
      /\ count[f] \in Int
      /\ call[t].ext = NoExtent /\ call[t].todo = {}
  <2>1. f \in File /\ call[t].k \in 0 .. DirectExtents
    BY <1>0 DEF Call
  <2>2. count[f] \in 0 .. DirectExtents
    BY <2>1 DEF TypeOK
  <2>3. \A j \in Slot : j \in Int
    BY Numbers DEF Slot
  <2>4. call[t].ext = NoExtent /\ call[t].todo = {}
    BY <1>0 DEF CallShape, Changing
  <2> QED
    BY <2>1, <2>2, <2>3, <2>4
<1>2. /\ dirBlock' = dirBlock /\ bitmap' = bitmap
      /\ count' = [count EXCEPT ![f] = 0]
      /\ direct' = [direct EXCEPT ![f] = [k \in Slot |-> NoExtent]]
  BY DEF ClearEntry, dirs
<1>3. /\ \A g \in File : g # f => count'[g] = count[g] /\ direct'[g] = direct[g]
      /\ \A j \in Slot : BlocksOf(direct'[f][j]) = {}
  BY <1>1, <1>2, ExtentTypes DEF TypeOK
<1>4. \A u \in Thread : u # t => ~UsesFile(f, call[u])
  BY <1>0, <1>1 DEF Alone, UsesFile
<1>5. Alone'
  <2>1. Alike(t)
    BY <1>0 DEF Alike, UsesFile, Idle
  <2> QED
    BY <1>0, <2>1, AloneKept
<1>6. ASSUME NEW u \in Thread PROVE InOrder(u)'
  <2>1. InOrder(t)'
    BY <1>0 DEF InOrder, Idle, Changing
  <2>2. CASE u # t
    <3>1. \A g \in File : UsesFile(g, call[u]) => direct'[g] = direct[g] /\ count'[g] = count[g]
      BY <1>3, <1>4, <2>2
    <3> QED
      BY <1>0, <1>2, <2>2, <3>1, OthersInOrder DEF Quiet
  <2> QED
    BY <2>1, <2>2
<1>7. ASSUME NEW g \in File PROVE Orderly(g)'
  <2>1. CASE g # f
    <3>1. direct'[g] = direct[g] /\ count'[g] = count[g] /\ call[t].op # "write"
      BY <1>0, <1>3, <2>1
    <3> QED
      BY <1>0, <3>1, OrderlyKept DEF Quiet
  <2>2. CASE g = f
    <3>1. \A j \in Slot : BlocksOf(direct'[g][j]) = {}
      BY <1>3, <2>2
    <3> QED
      BY <3>1 DEF Orderly
  <2> QED
    BY <2>1, <2>2
<1>8. ASSUME NEW h \in Holder PROVE Held'[h] = Held[h]
  <2>1. ASSUME NEW g \in File, NEW j \in Slot, h = <<"claim", <<g, j>>>>
        PROVE  Held'[h] = Held[h]
    <3>1. CASE g # f
      <4>1. direct'[g][j] = direct[g][j]
        BY <1>3, <3>1
      <4>2. \A b \in BlocksOf(direct[g][j]) :
               ClearedBy(call'[t], g, j, b) <=> ClearedBy(call[t], g, j, b)
        BY <1>0, <3>1 DEF ClearedBy, Idle
      <4> QED
        BY <1>0, <2>1, <4>1, <4>2, FileClaimKept
    <3>2. CASE g = f
      <4>1. Held'[h] = {}
        <5>1. Held'[h] =
                {b \in BlocksOf(direct'[g][j]) : \A u \in Thread : ~ClearedBy(call'[u], g, j, b)}
          BY <2>1, HolderFactsNext DEF HolderFacts
        <5> QED
          BY <1>3, <3>2, <5>1
      <4>2. Held[h] =
              {b \in BlocksOf(direct[g][j]) : \A u \in Thread : ~ClearedBy(call[u], g, j, b)}
        BY <2>1, HolderFactsNow DEF HolderFacts
      <4>3. CASE j < call[t].k
        <5>1. \A b : ClearedBy(call[t], g, j, b)
          BY <1>0, <1>1, <3>2, <4>3 DEF ClearedBy
        <5> QED
          BY <4>1, <4>2, <5>1
      <4>4. CASE ~(j < call[t].k)
        <5>1. ~(j < count[f])
          BY <1>0, <1>1, <4>4
        <5>2. ~InUse(g, j)
          BY <1>0, <1>4, <3>2, <5>1 DEF InUse, UsesFile
        <5>3. BlocksOf(direct[g][j]) = {}
          BY <5>2 DEF Quiet, Orderly
        <5> QED
          BY <4>1, <4>2, <5>3
      <4> QED
        BY <4>3, <4>4
    <3> QED
      BY <3>1, <3>2
  <2>2. ASSUME NEW d \in Dir, h = <<"claim", <<d, DirBlock>>>> PROVE Held'[h] = Held[h]
    BY <1>2, <2>2, DirectoryClaimKept
  <2>3. ASSUME NEW u \in Thread, h = <<"call", u>> PROVE Held'[h] = Held[h]
    <3>1. Marked(call'[t]) = {} /\ Marked(call[t]) = {}
      BY <1>0, <1>1, ExtentTypes DEF Marked, Idle
    <3>2. Marked(call'[u]) = Marked(call[u])
      BY <1>0, <3>1 DEF Moved
    <3> QED
      BY <2>3, <3>2, CallClaimKept
  <2> QED
    BY <2>1, <2>2, <2>3, HolderCases
<1>9. Owns(Holder, Held', bitmap')
  BY <1>2, <1>8, OwnersSame DEF Quiet
<1> QED
  BY <1>5, <1>6, <1>7, <1>9 DEF Quiet

-----------------------------------------------------------------------------
LEMMA InitQuiet == Init => Quiet
<1> SUFFICES ASSUME Init PROVE Quiet
  OBVIOUS
<1>1. \A t \in Thread : call[t] = Idle
  BY DEF Init
<1>2. Alone /\ \A t \in Thread : InOrder(t)
  BY <1>1 DEF Alone, InOrder, UsesFile, Idle, Changing
<1>3. \A f \in File : Orderly(f)
  BY ExtentTypes DEF Init, Orderly
<1>4. Owns(Holder, Held, bitmap)
  <2>1. \A f \in File, k \in Slot : Held[<<"claim", <<f, k>>>>] = {}
    BY HolderFactsNow, ExtentTypes DEF HolderFacts, Init
  <2>2. \A t \in Thread : Held[<<"call", t>>] = {}
    <3>1. Marked(Idle) = {}
      BY ExtentTypes DEF Marked, Idle
    <3> QED
      BY <1>1, <3>1, HolderFactsNow DEF HolderFacts
  <2>3. \A d \in Dir : Held[<<"claim", <<d, DirBlock>>>>] =
            IF d \in DOMAIN StoredDir THEN {StoredDir[d]} ELSE {}
    <3> SUFFICES ASSUME NEW d \in Dir
                 PROVE  Held[<<"claim", <<d, DirBlock>>>>] =
                           IF d \in DOMAIN StoredDir THEN {StoredDir[d]} ELSE {}
      OBVIOUS
    <3>1. Held[<<"claim", <<d, DirBlock>>>>] = {dirBlock[d]} \ {0}
      BY HolderFactsNow DEF HolderFacts
    <3>2. dirBlock[d] = IF d \in DOMAIN StoredDir THEN StoredDir[d] ELSE 0
      BY DEF Init
    <3>3. d \in DOMAIN StoredDir => StoredDir[d] \in DataBlock /\ StoredDir[d] # 0
      BY RacesAssumption, Numbers
    <3> QED
      BY <3>1, <3>2, <3>3
  <2>4. ASSUME NEW h \in Holder, NEW b \in Held[h]
        PROVE  \E d \in DOMAIN StoredDir : h = <<"claim", <<d, DirBlock>>>> /\ b = StoredDir[d]
    <3>1. ~ \E f \in File, k \in Slot : h = <<"claim", <<f, k>>>>
      BY <2>1, <2>4
    <3>2. ~ \E t \in Thread : h = <<"call", t>>
      BY <2>2, <2>4
    <3>3. PICK d \in Dir : h = <<"claim", <<d, DirBlock>>>>
      BY <3>1, <3>2, HolderCases
    <3>4. b \in IF d \in DOMAIN StoredDir THEN {StoredDir[d]} ELSE {}
      BY <2>3, <2>4, <3>3
    <3> QED
      BY <3>3, <3>4
  <2>5. ASSUME NEW g \in Holder, NEW h \in Holder, g # h, NEW b \in Held[g], b \in Held[h]
        PROVE  FALSE
    <3>1. PICK c \in DOMAIN StoredDir : g = <<"claim", <<c, DirBlock>>>> /\ b = StoredDir[c]
      BY <2>5, <2>4
    <3>2. PICK d \in DOMAIN StoredDir : h = <<"claim", <<d, DirBlock>>>> /\ b = StoredDir[d]
      BY <2>5, <2>4
    <3>3. c # d
      BY <2>5, <3>1, <3>2
    <3> QED
      BY <3>1, <3>2, <3>3, RacesAssumption
  <2>6. ASSUME NEW h \in Holder PROVE Held[h] \subseteq bitmap
    BY <2>4 DEF Init
  <2>7. ASSUME NEW b \in bitmap PROVE \E h \in Holder : b \in Held[h]
    <3>1. PICK d \in DOMAIN StoredDir : b = StoredDir[d]
      BY DEF Init
    <3>2. d \in Dir
      BY RacesAssumption
    <3> QED
      BY <2>3, <3>1, <3>2, HeldByDirectory
  <2> QED
    BY <2>5, <2>6, <2>7 DEF Owns
<1> QED
  BY <1>2, <1>3, <1>4 DEF Quiet

LEMMA StutterQuiet == Quiet /\ UNCHANGED vars => Quiet'
<1> SUFFICES ASSUME Quiet, UNCHANGED vars PROVE Quiet'
  OBVIOUS
<1>1. /\ call' = call /\ direct' = direct /\ count' = count /\ dirBlock' = dirBlock
      /\ bitmap' = bitmap
  BY DEF vars, files, dirs
<1>2. Alone' /\ (\A t \in Thread : InOrder(t)') /\ (\A f \in File : Orderly(f)')
  BY <1>1 DEF Quiet, Alone, InOrder, Orderly, InUse, Clears
<1>3. Held' = Held
  BY <1>1 DEF Held, Claimed, Cleared
<1> QED
  BY <1>1, <1>2, <1>3 DEF Quiet

LEMMA NextCollision == Sane /\ CollisionInv /\ [Next]_vars => CollisionInv'
<1> SUFFICES ASSUME Sane, CollisionInv, [Next]_vars, Clean' PROVE Quiet'
  BY DEF CollisionInv
<1> TypeOK
  BY DEF Sane
<1>1. CASE UNCHANGED vars
  BY <1>1, StutterQuiet DEF CollisionInv, Clean, vars
<1>2. CASE Next
  <2> PICK t \in Thread : Enters(t) \/ NoReadBuffer(t) \/ ReadFails(t) \/ Step(t)
    BY <1>2 DEF Next, Enters
  <2>1. Quiet
    BY PastGrows DEF CollisionInv, Clean
  <2> QED
    BY <2>1, QuietEnter, QuietLoadByte, QuietStoreByte, QuietTakeExtent, QuietAttach,
       QuietSetCount, QuietFreeNextExtent, QuietOther, QuietClearEntry, QuietFindDirBlock,
       QuietSetDirBlock DEF Step
<1> QED
  BY <1>1, <1>2

\* A block gets a second owner, an owned block loses its mark, or a marked block
\* its owner, only when a bit had changed since a call saw it last, a byte
\* changed between its load and its store, or two calls were busy with one file
\* or with one directory; otherwise overlapping calls do no harm.
THEOREM CollisionsOnlyAsNamed == Spec => []CollisionsHaveACause
<1>1. Init => CollisionInv
  BY InitQuiet DEF CollisionInv
<1>2. Sane /\ CollisionInv => CollisionsHaveACause
  BY QuietIsExclusive DEF CollisionInv, Clean, CollisionsHaveACause
<1> QED
  BY <1>1, <1>2, NextCollision, SpecSane, PTL DEF Spec

=============================================================================

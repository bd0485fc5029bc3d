-------------------------- MODULE Directory_proofs ---------------------------
(***************************************************************************)
(* The namespace for any number of slots, names, directory blocks and      *)
(* inode numbers: names and files correspond, what the kernel caches is    *)
(* current, only empty directories are removed, and names survive a        *)
(* remount where numbers are read as they were written.                    *)
(***************************************************************************)
EXTENDS Directory, WellFoundedInduction, FiniteSetTheorems, TLAPS

\* A free slot is blank, and a directory without a block has no names.
Blank ==
    /\ \A s \in Slot : slot[s].kind = "free" => slot[s] = FreeSlot
    /\ "blockless" \notin past =>
          \A s \in Slot : slot[s].block = 0 => slot[s].names = NoNames

\* Numbers in use are below the counter and different.
Numbered ==
    \A s \in Live :
        /\ slot[s].ino \in RootIno .. counter
        /\ \A t \in Live : slot[s].ino = slot[t].ino => s = t

\* Entry k of slot s is in use.
Holds(s, k) == slot[s].names[k] # NoEntry

\* Entries are in directories and lead to files other than the root, each file
\* has its entry, and no two entries agree in number, or in directory and name.
Named ==
    /\ \A s \in Slot, k \in Index : Holds(s, k) =>
          /\ slot[s].kind = "dir"
          /\ slot[s].names[k].ino # RootIno
          /\ \E t \in Live : slot[t].ino = slot[s].names[k].ino
    /\ \A t \in Live : slot[t].ino # RootIno =>
          \E s \in Slot, k \in Index : slot[s].names[k].ino = slot[t].ino
    /\ \A s, t \in Slot, k, l \in Index :
          Holds(s, k) /\ slot[s].names[k].ino = slot[t].names[l].ino => s = t /\ k = l
    /\ \A s \in Slot, k, l \in Index :
          Holds(s, k) /\ slot[s].names[k].name = slot[s].names[l].name => k = l

\* A cached inode is the slot with its number; the root is always cached.
InodesMatch ==
    /\ \A i \in Ino : inode[i] # NotCached => inode[i] \in Slot /\ slot[inode[i]].ino = i
    /\ inode[RootIno] # NotCached
    /\ slot[inode[RootIno]].kind = "dir"

\* A name that is cached belongs to a directory that is cached and, but for the
\* root, known by a name; its entry leads to a cached inode, or there is none.
NamesMatch ==
    \A d \in Ino, n \in Name : dentry[<<d, n>>] # Unknown =>
        /\ inode[d] # NotCached
        /\ slot[inode[d]].kind = "dir"
        /\ d = RootIno \/ \E x \in Ino \X Name : dentry[x] = d
        /\ IF dentry[<<d, n>>] = Negative
           THEN \A k \in Index : slot[inode[d]].names[k].name # n
           ELSE /\ inode[dentry[<<d, n>>]] # NotCached
                /\ \E k \in Index :
                      slot[inode[d]].names[k] = [name |-> n, ino |-> dentry[<<d, n>>]]

\* Neither of the two properties is inductive: a removal takes the right entry
\* because the caches are current, a cached name stays current because names
\* and files correspond.
DirInv == Ordinary => Numbered /\ Named /\ InodesMatch /\ NamesMatch

-----------------------------------------------------------------------------
(* Sets of slots and of numbers have a first element: finite sets are well-  *)
(* founded by inclusion, and the elements up to x form a smaller set than    *)
(* those up to a greater one.                                                *)
LEMMA LeastElement ==
    ASSUME NEW n \in Nat, NEW S \in SUBSET (1 .. n), S # {}
    PROVE  \E x \in S : \A y \in S : x <= y
<1> DEFINE Upto(x) == {y \in S : y <= x}
           R == StrictSubsetOrdering(1 .. n)
           T == {Upto(x) : x \in S}
<1>1. IsWellFoundedOn(R, FiniteSubsetsOf(1 .. n))
  BY FS_StrictSubsetOrderingWellFounded
<1>2. T \subseteq FiniteSubsetsOf(1 .. n)
  <2>1. \A x \in S : IsFiniteSet(Upto(x))
    <3>1. IsFiniteSet(1 .. n)
      BY FS_Interval
    <3>2. \A x \in S : Upto(x) \in SUBSET (1 .. n)
      OBVIOUS
    <3> QED
      BY <3>1, <3>2, FS_Subset
  <2> QED
    BY <2>1 DEF FiniteSubsetsOf
<1>3. T # {}
  OBVIOUS
<1> HIDE DEF R, T
<1>4. PICK A \in T : \A B \in T : <<B, A>> \notin R
  BY <1>1, <1>2, <1>3, WFMin
<1>5. PICK x \in S : A = Upto(x)
  BY <1>4 DEF T
<1>6. \A y \in S : ~ (y < x)
  <2>1. SUFFICES ASSUME NEW y \in S, y < x PROVE FALSE
    OBVIOUS
  <2>2. x \in 1 .. n /\ y \in 1 .. n /\ S \subseteq 1 .. n
    OBVIOUS
  <2>3. Upto(y) \subseteq Upto(x)
    <3>1. \A z \in 1 .. n : z <= y => z <= x
      BY <2>1, <2>2
    <3> QED
      BY <2>2, <3>1
  <2>4. x \in Upto(x) /\ x \notin Upto(y)
    BY <2>1, <2>2
  <2>5. Upto(y) \in T
    BY DEF T
  <2>6. <<Upto(y), A>> \in R
    BY <2>3, <2>4, <1>5 DEF R, StrictSubsetOrdering
  <2> QED
    BY <2>5, <2>6, <1>4
<1> QED
  BY <1>6

LEMMA LowestOf ==
    ASSUME NEW n \in Nat, NEW S \in SUBSET (1 .. n), S # {}
    PROVE  Lowest(S) # {}
BY LeastElement DEF Lowest

LEMMA LowestIsOne ==
    ASSUME NEW S \in SUBSET Nat, NEW x \in Lowest(S), NEW y \in Lowest(S)
    PROVE  x = y
<1>1. x \in Nat /\ y \in Nat /\ x <= y /\ y <= x
  BY DEF Lowest
<1> QED
  BY <1>1

LEMMA LowestOfOne ==
    ASSUME NEW x \in Nat
    PROVE  Lowest({x}) = {x}
BY DEF Lowest

LEMMA Chosen ==
    ASSUME NEW S, S # {}
    PROVE  (CHOOSE x \in S : TRUE) \in S
OBVIOUS

-----------------------------------------------------------------------------
(* Types.                                                                    *)

LEMMA Numbers ==
    /\ RootIno \in Ino /\ RootIno \in Nat
    /\ Ino \subseteq Nat /\ Slot \subseteq Nat /\ Block \subseteq Nat /\ Index \subseteq Nat
    /\ 0 \notin Ino /\ 0 \notin Slot /\ 0 \notin Block
    /\ -1 \notin Ino /\ -1 \notin Slot
    /\ 1 \in Slot
<1>1. MaxIno \in Nat \ {0} /\ MaxFileCount \in Nat \ {0} /\ MaxDirEntries \in Nat \ {0}
      /\ NumBlocks \in Nat
  BY DirectoryAssumption, Zenon
<1>2. \A n \in Nat : 1 .. n \subseteq Nat /\ 0 \notin 1 .. n /\ -1 \notin 1 .. n
  OBVIOUS
<1> QED
  BY <1>1, <1>2 DEF RootIno, Ino, Slot, Block, Index

LEMMA EntryTypes ==
    /\ NoNames \in [Index -> DirEntry]
    /\ FreeSlot \in SlotEntry
    /\ \A e \in DirEntry : e.ino \in {0} \cup Ino /\ (e # NoEntry => e.ino \in Ino)
    /\ \A n \in Name, i \in Ino : [name |-> n, ino |-> i] \in DirEntry
<1>1. NoEntry \in DirEntry
  BY DEF DirEntry
<1>2. NoNames \in [Index -> DirEntry]
  BY <1>1 DEF NoNames
<1>3. FreeSlot \in SlotEntry
  BY <1>2 DEF FreeSlot, SlotEntry
<1>4. \A e \in DirEntry : e.ino \in {0} \cup Ino /\ (e # NoEntry => e.ino \in Ino)
  <2>1. NoEntry.ino = 0
    BY DEF NoEntry
  <2>2. \A e \in [name : Name, ino : Ino] : e.ino \in Ino
    OBVIOUS
  <2> QED
    BY <2>1, <2>2 DEF DirEntry
<1>5. \A n \in Name, i \in Ino : [name |-> n, ino |-> i] \in DirEntry
  BY DEF DirEntry
<1> QED
  BY <1>2, <1>3, <1>4, <1>5

\* What an entry of the table is made of.
LEMMA SlotParts ==
    ASSUME NEW e \in SlotEntry
    PROVE  /\ e.kind \in {"free", "reg", "dir"} /\ e.ino \in {0} \cup Ino
           /\ e.block \in {0} \cup Block /\ e.names \in [Index -> DirEntry]
           /\ e.loaded \in BOOLEAN
           /\ e = [kind |-> e.kind, ino |-> e.ino, block |-> e.block,
                   names |-> e.names, loaded |-> e.loaded]
BY DEF SlotEntry

LEMMA SlotMade ==
    ASSUME NEW kind \in {"free", "reg", "dir"}, NEW i \in {0} \cup Ino,
           NEW b \in {0} \cup Block, NEW names \in [Index -> DirEntry],
           NEW l \in BOOLEAN
    PROVE  [kind |-> kind, ino |-> i, block |-> b, names |-> names, loaded |-> l] \in SlotEntry
BY DEF SlotEntry

LEMMA LoadTakesType ==
    ASSUME NEW s
    PROVE  LoadTakes(s) \subseteq Block
BY DEF LoadTakes, Lowest

LEMMA LoadedType ==
    ASSUME TypeOK, NEW s \in Slot
    PROVE  /\ Loaded(s) \in SlotEntry
           /\ Loaded(s).kind = slot[s].kind /\ Loaded(s).ino = slot[s].ino
           /\ Loaded(s).block \in {0} \cup Block
           /\ Loaded(s).loaded = TRUE
           /\ Loaded(s).names = IF slot[s].loaded \/ slot[s].block # 0
                                THEN slot[s].names ELSE NoNames
<1> DEFINE e == [slot[s] EXCEPT !.loaded = TRUE]
           b == IF LoadTakes(s) = {} THEN 0 ELSE CHOOSE x \in LoadTakes(s) : TRUE
<1>1. slot[s] \in SlotEntry
  BY DEF TypeOK
<1>2. /\ e \in SlotEntry /\ e.kind = slot[s].kind /\ e.ino = slot[s].ino
      /\ e.block = slot[s].block /\ e.names = slot[s].names /\ e.loaded = TRUE
  BY <1>1 DEF SlotEntry
<1>3. b \in {0} \cup Block
  <2>1. LoadTakes(s) # {} => (CHOOSE x \in LoadTakes(s) : TRUE) \in LoadTakes(s)
    BY Chosen
  <2> QED
    BY <2>1, LoadTakesType
<1> HIDE DEF b
<1>4. LET new == [e EXCEPT !.names = NoNames, !.block = b]
      IN /\ new \in SlotEntry /\ new.kind = slot[s].kind /\ new.ino = slot[s].ino
         /\ new.block = b /\ new.names = NoNames /\ new.loaded = TRUE
  BY <1>2, <1>3, EntryTypes DEF SlotEntry
<1>5. Loaded(s) = IF slot[s].loaded \/ slot[s].block # 0 THEN e
                  ELSE [e EXCEPT !.names = NoNames, !.block = b]
  BY DEF Loaded, b
<1> HIDE DEF e
<1>6. CASE slot[s].loaded \/ slot[s].block # 0
  BY <1>1, <1>2, <1>5, <1>6, SlotParts
<1>7. CASE ~(slot[s].loaded \/ slot[s].block # 0)
  BY <1>3, <1>4, <1>5, <1>7
<1> QED
  BY <1>6, <1>7

LEMMA AddType ==
    ASSUME NEW names \in [Index -> DirEntry], NEW n \in Name, NEW i \in Ino
    PROVE  /\ Add(names, n, i) \in [Index -> DirEntry]
           /\ Remove(names, n) \in [Index -> DirEntry]
BY EntryTypes DEF Add, Remove, DirEntry

LEMMA NamedEntry ==
    ASSUME NEW e \in DirEntry, NEW n \in Name, e.name = n
    PROVE  e # NoEntry /\ e.ino \in Ino
<1>1. n # ""
  BY DirectoryAssumption, Zenon
<1>2. NoEntry.name = ""
  BY DEF NoEntry
<1> QED
  BY <1>1, <1>2, EntryTypes

LEMMA FindType ==
    ASSUME NEW names \in [Index -> DirEntry], NEW n \in Name
    PROVE  Find(names, n) \subseteq Ino
BY NamedEntry DEF Find, Lowest

LEMMA SlotOfInoType ==
    ASSUME NEW table, NEW i
    PROVE  /\ SlotOfIno(table, i) \subseteq {s \in Slot : table[s].ino = i}
           /\ FreeFileEntry(table) \subseteq {s \in Slot : table[s].kind = "free"}
           /\ RootSlot(table) \subseteq Slot
BY DEF SlotOfIno, FreeFileEntry, RootSlot, Lowest

LEMMA IGetType ==
    ASSUME TypeOK, NEW i \in Ino, SlotOfIno(slot, i) # {}
    PROVE  /\ IGet(i) \in {Detached} \cup Slot
           /\ inode[i] = NotCached => IGet(i) \in SlotOfIno(slot, i)
           /\ inode[i] # NotCached => IGet(i) = inode[i]
<1>1. (CHOOSE s \in SlotOfIno(slot, i) : TRUE) \in SlotOfIno(slot, i)
  BY Chosen
<1> QED
  BY <1>1, SlotOfInoType DEF IGet, TypeOK

LEMMA MountType ==
    ASSUME NEW table \in [Slot -> SlotEntry]
    PROVE  /\ WithRoot(table) \in [Slot -> SlotEntry]
           /\ MountedInodes(table) \in [Ino -> {NotCached, Detached} \cup Slot]
<1>1. \A s \in Slot : [table[s] EXCEPT !.kind = "dir", !.ino = RootIno] \in SlotEntry
  BY Numbers DEF SlotEntry
<1>2. WithRoot(table) \in [Slot -> SlotEntry]
  BY <1>1 DEF WithRoot
<1>3. RootSlot(table) # {} => (CHOOSE s \in RootSlot(table) : TRUE) \in RootSlot(table)
  BY Chosen
<1>4. MountedInodes(table) \in [Ino -> {NotCached, Detached} \cup Slot]
  BY <1>3, SlotOfInoType DEF MountedInodes
<1> QED
  BY <1>2, <1>4

LEMMA LoadTableType ==
    ASSUME TypeOK
    PROVE  /\ LoadTable \in [Slot -> SlotEntry]
           /\ \A s \in Slot :
                 /\ LoadTable[s].kind = slot[s].kind
                 /\ LoadTable[s].block = slot[s].block
                 /\ LoadTable[s].loaded = FALSE
                 /\ LoadTable[s].ino = LoadIno(slot[s].ino)
                 /\ LoadTable[s].names = IF slot[s].block = 0 THEN NoNames
                                         ELSE slot[s].names
<1>1. \A i \in {0} \cup Ino : LoadIno(i) \in {0} \cup Ino
  BY DEF LoadIno
<1> SUFFICES ASSUME NEW s \in Slot
             PROVE  /\ LoadTable[s] \in SlotEntry
                    /\ LoadTable[s].kind = slot[s].kind
                    /\ LoadTable[s].block = slot[s].block
                    /\ LoadTable[s].loaded = FALSE
                    /\ LoadTable[s].ino = LoadIno(slot[s].ino)
                    /\ LoadTable[s].names = IF slot[s].block = 0 THEN NoNames
                                            ELSE slot[s].names
  BY DEF LoadTable
<1>2. slot[s] \in SlotEntry /\ slot[s].ino \in {0} \cup Ino
  BY SlotParts DEF TypeOK
<1> DEFINE i == LoadIno(slot[s].ino)
           names == IF slot[s].block = 0 THEN NoNames ELSE slot[s].names
<1>3. i \in {0} \cup Ino /\ names \in [Index -> DirEntry]
  BY <1>1, <1>2, EntryTypes, SlotParts
<1>4. LoadTable[s] = [slot[s] EXCEPT !.ino = i, !.names = names, !.loaded = FALSE]
  BY DEF LoadTable
<1> HIDE DEF i, names
<1>5. /\ LoadTable[s] \in SlotEntry /\ LoadTable[s].kind = slot[s].kind
      /\ LoadTable[s].block = slot[s].block /\ LoadTable[s].loaded = FALSE
      /\ LoadTable[s].ino = i /\ LoadTable[s].names = names
  BY <1>2, <1>3, <1>4 DEF SlotEntry
<1> QED
  BY <1>5 DEF i, names

LEMMA LoadPastType ==
    ASSUME NEW s
    PROVE  LoadPast(s) \subseteq {"blockless"}
BY DEF LoadPast

LEMMA ReachedType ==
    ASSUME NEW d, Reached(d)
    PROVE  inode[d] \in Slot /\ slot[inode[d]].kind = "dir"
BY DEF Reached, IsDirInode

\* A table in which some slots are put anew.
LEMMA TypePut ==
    ASSUME TypeOK, NEW s \in Slot, NEW e \in SlotEntry, NEW t \in Slot, NEW f \in SlotEntry
    PROVE  [slot EXCEPT ![s] = e, ![t] = f] \in [Slot -> SlotEntry]
BY DEF TypeOK

LEMMA TypeCreate ==
    ASSUME TypeOK, NEW d \in Ino, NEW n \in Name, NEW kind \in {"reg", "dir"},
           Create(d, n, kind)
    PROVE  TypeOK'
<1>1. PICK i \in NextIno :
        /\ counter' = i
        /\ IF FreeFileEntry(slot) = {}
           THEN UNCHANGED <<slot, taken, inode, dentry, past>>
           ELSE \E s \in FreeFileEntry(slot) :
              LET parent == Loaded(inode[d])
              IN /\ slot' = [slot EXCEPT
                       ![s].kind = kind, ![s].ino = i,
                       ![inode[d]] = [parent EXCEPT
                                         !.names = Add(parent.names, n, i)]]
                 /\ taken' = taken \cup LoadTakes(inode[d])
                 /\ inode' = [inode EXCEPT ![i] = s]
                 /\ dentry' = [dentry EXCEPT ![<<d, n>>] = i]
                 /\ past' = past \cup LoadPast(inode[d])
                       \cup (IF Full(parent.names) THEN {"overflowed"} ELSE {})
  BY DEF Create
<1>2. i \in Ino
  BY DEF NextIno, Lowest
<1>3. CASE FreeFileEntry(slot) = {}
  BY <1>1, <1>2, <1>3 DEF TypeOK
<1>4. CASE FreeFileEntry(slot) # {}
  <2> DEFINE parent == Loaded(inode[d])
             new == [parent EXCEPT !.names = Add(parent.names, n, i)]
  <2>1. PICK s \in FreeFileEntry(slot) :
                 /\ slot' = [slot EXCEPT ![s].kind = kind, ![s].ino = i, ![inode[d]] = new]
                 /\ taken' = taken \cup LoadTakes(inode[d])
                 /\ inode' = [inode EXCEPT ![i] = s]
                 /\ dentry' = [dentry EXCEPT ![<<d, n>>] = i]
                 /\ past' = past \cup LoadPast(inode[d])
                       \cup (IF Full(parent.names) THEN {"overflowed"} ELSE {})
    BY <1>1, <1>4
  <2>2. inode[d] \in Slot /\ s \in Slot
    BY ReachedType, SlotOfInoType DEF Create
  <2>3. new \in SlotEntry
    <3>1. parent \in SlotEntry
      BY <2>2, LoadedType
    <3> QED
      BY <3>1, <1>2, AddType, SlotParts DEF SlotEntry
  <2>4. taken' \subseteq Block
    BY <2>1, LoadTakesType DEF TypeOK
  <2>5. past' \subseteq {"overflowed", "blockless", "unread", "rebooted", "numbersLost"}
    BY <2>1, LoadPastType DEF TypeOK
  <2> HIDE DEF new
  <2>6. slot' \in [Slot -> SlotEntry]
    BY ZenonT(40), <2>1, <2>2, <2>3, <1>2 DEF TypeOK, SlotEntry
  <2> QED
    BY <2>1, <2>2, <2>4, <2>5, <2>6, <1>1, <1>2 DEF TypeOK
<1> QED
  BY <1>3, <1>4

LEMMA TypeLookup ==
    ASSUME TypeOK, NEW d \in Ino, NEW n \in Name, Lookup(d, n)
    PROVE  TypeOK'
<1> DEFINE found == {i \in Find(Loaded(inode[d]).names, n) : SlotOfIno(slot, i) # {}}
<1>1. inode[d] \in Slot /\ Loaded(inode[d]) \in SlotEntry
  BY ReachedType, LoadedType DEF Lookup
<1>2. found \subseteq Ino
  BY <1>1, FindType, SlotParts
<1>3. slot' \in [Slot -> SlotEntry]
  BY <1>1 DEF Lookup, TypeOK
<1>4. taken' \subseteq Block
  BY LoadTakesType DEF Lookup, TypeOK
<1>5. past' \subseteq {"overflowed", "blockless", "unread", "rebooted", "numbersLost"}
  BY LoadPastType DEF Lookup, TypeOK
<1>6. /\ inode' \in [Ino -> {NotCached, Detached} \cup Slot]
      /\ dentry' \in [Ino \X Name -> {Unknown, Negative} \cup Ino]
  <2>1. CASE dentry' = [dentry EXCEPT ![<<d, n>>] = Negative] /\ UNCHANGED inode
    BY <2>1 DEF TypeOK
  <2>2. ASSUME NEW i \in found,
               inode' = [inode EXCEPT ![i] = IGet(i)],
               dentry' = [x \in Ino \X Name |->
                       IF x = <<d, n>> THEN i
                       ELSE IF dentry[x] = i /\ IsDirInode(IGet(i)) THEN Unknown
                       ELSE dentry[x]]
        PROVE  /\ inode' \in [Ino -> {NotCached, Detached} \cup Slot]
               /\ dentry' \in [Ino \X Name -> {Unknown, Negative} \cup Ino]
    <3>1. i \in Ino /\ SlotOfIno(slot, i) # {}
      BY <1>2
    <3> QED
      BY <2>2, <3>1, IGetType DEF TypeOK
  <2> QED
    BY <2>1, <2>2 DEF Lookup
<1> QED
  BY <1>3, <1>4, <1>5, <1>6 DEF Lookup, TypeOK

LEMMA RemoveNameType ==
    ASSUME TypeOK, NEW d \in Ino, NEW n \in Name, NEW i \in Ino,
           Reached(d), inode[i] \in Slot, RemoveName(d, n, inode[i]), DropInode(i, d, n)
    PROVE  /\ slot' \in [Slot -> SlotEntry]
           /\ inode' \in [Ino -> {NotCached, Detached} \cup Slot]
<1> DEFINE new == [Loaded(inode[d]) EXCEPT !.names = Remove(Loaded(inode[d]).names, n)]
<1>1. inode[d] \in Slot /\ Loaded(inode[d]) \in SlotEntry
  BY ReachedType, LoadedType
<1>2. new \in SlotEntry
  BY <1>1, AddType, SlotParts DEF SlotEntry
<1>3. slot' = [slot EXCEPT ![inode[d]] = new, ![inode[i]] = FreeSlot]
  BY DEF RemoveName
<1> HIDE DEF new
<1> QED
  BY <1>1, <1>2, <1>3, EntryTypes, TypePut DEF DropInode, TypeOK

LEMMA TypeRemovals ==
    ASSUME TypeOK, NEW d \in Ino, NEW n \in Name, Unlink(d, n) \/ Rmdir(d, n)
    PROVE  TypeOK'
<1>1. taken' \subseteq Block
  BY LoadTakesType DEF Unlink, Rmdir, TypeOK
<1>2. past' \subseteq {"overflowed", "blockless", "unread", "rebooted", "numbersLost"}
  BY LoadPastType DEF Unlink, Rmdir, TypeOK
<1>3. /\ slot' \in [Slot -> SlotEntry]
      /\ inode' \in [Ino -> {NotCached, Detached} \cup Slot]
  BY RemoveNameType DEF Unlink, Rmdir
<1>4. dentry' \in [Ino \X Name -> {Unknown, Negative} \cup Ino]
  BY DEF Unlink, Rmdir, TypeOK
<1> QED
  BY <1>1, <1>2, <1>3, <1>4 DEF Unlink, Rmdir, TypeOK

\* A listing that finds no buffer changes one entry, and nothing but its names.
LEMMA UnreadEffect ==
    ASSUME TypeOK, NEW d \in Ino, ReaddirUnread(d)
    PROVE  /\ inode[d] \in Slot /\ slot[inode[d]].kind = "dir"
           /\ slot' \in [Slot -> SlotEntry]
           /\ \A t \in Slot : t # inode[d] => slot'[t] = slot[t]
           /\ slot'[inode[d]].kind = "dir" /\ slot'[inode[d]].ino = slot[inode[d]].ino
           /\ slot'[inode[d]].names = NoNames
           /\ UNCHANGED <<taken, inode, dentry, counter>>
           /\ past' = past \cup {"unread"}
<1> DEFINE new == [slot[inode[d]] EXCEPT !.names = NoNames, !.loaded = TRUE]
<1>1. inode[d] \in Slot /\ slot[inode[d]].kind = "dir"
  BY ReachedType DEF ReaddirUnread
<1>2. slot[inode[d]] \in SlotEntry
  BY <1>1 DEF TypeOK
<1>3. new \in SlotEntry
  BY <1>2, EntryTypes DEF SlotEntry
<1>4. new.kind = "dir" /\ new.ino = slot[inode[d]].ino /\ new.names = NoNames
  BY <1>1, <1>2 DEF SlotEntry
<1>5. slot' = [slot EXCEPT ![inode[d]] = new]
  BY <1>1 DEF ReaddirUnread, TypeOK
<1> HIDE DEF new
<1>6. /\ slot' \in [Slot -> SlotEntry] /\ slot'[inode[d]] = new
      /\ \A t \in Slot : t # inode[d] => slot'[t] = slot[t]
  BY <1>1, <1>3, <1>5 DEF TypeOK
<1> QED
  BY <1>1, <1>4, <1>6 DEF ReaddirUnread

LEMMA TypeUnread ==
    ASSUME TypeOK, NEW d \in Ino, ReaddirUnread(d)
    PROVE  TypeOK'
BY UnreadEffect DEF TypeOK

LEMMA TypeReaddir ==
    ASSUME TypeOK, NEW d \in Ino, Readdir(d)
    PROVE  TypeOK'
<1>1. inode[d] \in Slot /\ Loaded(inode[d]) \in SlotEntry
  BY ReachedType, LoadedType DEF Readdir
<1>2. slot' \in [Slot -> SlotEntry]
  BY <1>1 DEF Readdir, TypeOK
<1>3. taken' \subseteq Block
  BY LoadTakesType DEF Readdir, TypeOK
<1>4. past' \subseteq {"overflowed", "blockless", "unread", "rebooted", "numbersLost"}
  BY LoadPastType DEF Readdir, TypeOK
<1>5. inode' \in [Ino -> {NotCached, Detached} \cup Slot]
  BY IGetType DEF Readdir, TypeOK
<1> QED
  BY <1>2, <1>3, <1>4, <1>5 DEF Readdir, TypeOK

LEMMA TypeQuiet ==
    ASSUME TypeOK, NEW d \in Ino,
           Evict(d) \/ \E n \in Name : RmdirRefused(d, n) \/ Forget(d, n)
    PROVE  TypeOK'
<1>1. CASE Evict(d)
  BY <1>1 DEF Evict, TypeOK
<1>2. ASSUME NEW n \in Name, RmdirRefused(d, n) PROVE TypeOK'
  <2>1. PICK i \in Ino : inode[i] \in Slot /\ slot' = [slot EXCEPT ![inode[i]].loaded = TRUE]
    BY <1>2 DEF RmdirRefused
  <2>2. \A e \in SlotEntry : [e EXCEPT !.loaded = TRUE] \in SlotEntry
    BY DEF SlotEntry
  <2>3. slot' \in [Slot -> SlotEntry]
    BY <2>1, <2>2 DEF TypeOK
  <2> QED
    BY <1>2, <2>3 DEF RmdirRefused, TypeOK
<1>3. ASSUME NEW n \in Name, Forget(d, n) PROVE TypeOK'
  BY <1>3 DEF Forget, TypeOK
<1> QED
  BY <1>1, <1>2, <1>3

LEMMA TypeRemount ==
    ASSUME TypeOK, NEW restart \in BOOLEAN, Remount(restart)
    PROVE  TypeOK'
<1>1. /\ slot' \in [Slot -> SlotEntry]
      /\ inode' \in [Ino -> {NotCached, Detached} \cup Slot]
  BY LoadTableType, MountType DEF Remount
<1>2. dentry' \in [Ino \X Name -> {Unknown, Negative} \cup Ino]
  BY DEF Remount, NothingKnown
<1>3. counter' \in Ino
  BY Numbers DEF Remount, TypeOK
<1>4. past' \subseteq {"overflowed", "blockless", "unread", "rebooted", "numbersLost"}
  BY DEF Remount, TypeOK
<1> QED
  BY <1>1, <1>2, <1>3, <1>4 DEF Remount, TypeOK

LEMMA InitTypeOK == Init => TypeOK
<1> SUFFICES ASSUME Init PROVE TypeOK
  OBVIOUS
<1>1. [s \in Slot |-> FreeSlot] \in [Slot -> SlotEntry]
  BY EntryTypes
<1>2. dentry \in [Ino \X Name -> {Unknown, Negative} \cup Ino]
  BY DEF Init, NothingKnown
<1> QED
  BY <1>1, <1>2, MountType, Numbers DEF Init, TypeOK

LEMMA NextTypeOK ==
    ASSUME TypeOK, [Next]_vars
    PROVE  TypeOK'
<1>1. CASE UNCHANGED vars
  BY <1>1 DEF vars, TypeOK
<1>2. ASSUME NEW d \in Ino, NEW n \in Name, NEW kind \in {"reg", "dir"}, Create(d, n, kind)
      PROVE  TypeOK'
  BY <1>2, TypeCreate
<1>3. ASSUME NEW d \in Ino, NEW n \in Name,
             Lookup(d, n) \/ Unlink(d, n) \/ Rmdir(d, n) \/ RmdirRefused(d, n) \/ Forget(d, n)
      PROVE  TypeOK'
  BY <1>3, TypeLookup, TypeRemovals, TypeQuiet
<1>4. ASSUME NEW d \in Ino, Readdir(d) \/ ReaddirUnread(d) \/ Evict(d) PROVE TypeOK'
  BY <1>4, TypeReaddir, TypeUnread, TypeQuiet
<1>5. ASSUME NEW restart \in BOOLEAN, Remount(restart) PROVE TypeOK'
  BY <1>5, TypeRemount
<1> QED
  BY <1>1, <1>2, <1>3, <1>4, <1>5 DEF Next

\* Every state of the namespace is well typed: slots, caches and the counter
\* hold what the code gives them room for, in every history.
THEOREM DirectoryTypeOK == Spec => []TypeOK
<1> QED
  BY InitTypeOK, NextTypeOK, PTL DEF Spec
-----------------------------------------------------------------------------
(* Blank slots.                                                              *)

\* What Blank says of an entry of the table.
Proper(e, p) ==
    /\ e.kind = "free" => e = FreeSlot
    /\ "blockless" \notin p /\ e.block = 0 => e.names = NoNames

LEMMA BlankIsProper == Blank <=> \A s \in Slot : Proper(slot[s], past)
BY DEF Blank, Proper

LEMMA FreeSlotParts ==
    /\ FreeSlot.kind = "free" /\ FreeSlot.ino = 0 /\ FreeSlot.block = 0
    /\ FreeSlot.names = NoNames /\ FreeSlot.loaded = FALSE
    /\ \A k \in Index : NoNames[k] = NoEntry
    /\ NoEntry.ino = 0 /\ NoEntry.name \notin Name
<1>1. NoEntry.name \notin Name
  BY DirectoryAssumption, Zenon DEF NoEntry
<1> QED
  BY <1>1 DEF FreeSlot, NoNames, NoEntry

LEMMA BlankKept ==
    ASSUME Blank, past \subseteq past',
           \A s \in Slot : slot'[s] = slot[s] \/ Proper(slot'[s], past')
    PROVE  Blank'
<1>1. \A s \in Slot : Proper(slot[s], past')
  BY DEF Blank, Proper
<1> QED
  BY <1>1 DEF Blank, Proper

\* Loading a directory changes neither its names nor anything else but its block.
LEMMA LoadedKeeps ==
    ASSUME TypeOK, Blank, "blockless" \notin past, NEW s \in Slot
    PROVE  /\ Loaded(s).kind = slot[s].kind /\ Loaded(s).ino = slot[s].ino
           /\ Loaded(s).names = slot[s].names
BY LoadedType DEF Blank

LEMMA LoadedProper ==
    ASSUME TypeOK, NEW s \in Slot, slot[s].kind = "dir", NEW names \in [Index -> DirEntry],
           NEW p, LoadPast(s) \subseteq p
    PROVE  /\ Proper(Loaded(s), p)
           /\ Proper([Loaded(s) EXCEPT !.names = names], p)
<1>1. /\ Loaded(s) \in SlotEntry /\ Loaded(s).kind = "dir"
      /\ "blockless" \notin p => Loaded(s).block # 0
  BY LoadedType DEF LoadPast
<1> DEFINE new == [Loaded(s) EXCEPT !.names = names]
<1>2. new.kind = Loaded(s).kind /\ new.block = Loaded(s).block
  BY <1>1 DEF SlotEntry
<1> HIDE DEF new
<1>3. Proper(Loaded(s), p) /\ Proper(new, p)
  BY <1>1, <1>2 DEF Proper
<1> QED
  BY <1>3 DEF new

\* What a creation does, when it does anything: file i in slot s.
Creates(d, n, kind, i, s) ==
    /\ i \in Ino /\ inode[i] = NotCached /\ counter < i /\ i # RootIno
    /\ s \in Slot /\ slot[s] = FreeSlot
    /\ inode[d] \in Slot /\ slot[inode[d]].kind = "dir" /\ s # inode[d]
    /\ counter' = i
    /\ \A t \in Slot :
          slot'[t] = IF t = s THEN [FreeSlot EXCEPT !.kind = kind, !.ino = i]
                     ELSE IF t = inode[d]
                     THEN [Loaded(t) EXCEPT !.names = Add(Loaded(t).names, n, i)]
                     ELSE slot[t]
    /\ inode' = [inode EXCEPT ![i] = s]
    /\ dentry' = [dentry EXCEPT ![<<d, n>>] = i]
    /\ past' = past \cup LoadPast(inode[d])
             \cup (IF Full(Loaded(inode[d]).names) THEN {"overflowed"} ELSE {})

LEMMA CreateEffect ==
    ASSUME TypeOK, Blank, NEW d \in Ino, NEW n \in Name, NEW kind \in {"reg", "dir"},
           Create(d, n, kind), FreeFileEntry(slot) # {}
    PROVE  \E i, s : Creates(d, n, kind, i, s)
<1> DEFINE new(i) == [Loaded(inode[d]) EXCEPT !.names = Add(Loaded(inode[d]).names, n, i)]
<1>1. PICK i \in NextIno, s \in FreeFileEntry(slot) :
         /\ counter' = i
         /\ slot' = [slot EXCEPT ![s].kind = kind, ![s].ino = i, ![inode[d]] = new(i)]
         /\ inode' = [inode EXCEPT ![i] = s]
         /\ dentry' = [dentry EXCEPT ![<<d, n>>] = i]
         /\ past' = past \cup LoadPast(inode[d])
               \cup (IF Full(Loaded(inode[d]).names) THEN {"overflowed"} ELSE {})
  BY DEF Create
<1>2. i \in Ino /\ inode[i] = NotCached /\ counter < i /\ i # RootIno
  <2>1. i \in Ino /\ inode[i] = NotCached /\ i > counter /\ i > RootIno
    BY DEF NextIno, Lowest
  <2> QED
    BY <2>1, Numbers DEF TypeOK
<1>3. s \in Slot /\ slot[s] = FreeSlot /\ inode[d] \in Slot /\ slot[inode[d]].kind = "dir"
  BY SlotOfInoType, ReachedType DEF Create, Blank
<1>4. s # inode[d]
  BY <1>3, FreeSlotParts
<1>5. \A t \in Slot : slot'[t] = IF t = s THEN [FreeSlot EXCEPT !.kind = kind, !.ino = i]
                                 ELSE IF t = inode[d] THEN new(i) ELSE slot[t]
  <2> HIDE DEF new
  <2> QED
    BY <1>1, <1>3, <1>4 DEF TypeOK
<1>6. \A t \in Slot :
         slot'[t] = IF t = s THEN [FreeSlot EXCEPT !.kind = kind, !.ino = i]
                    ELSE IF t = inode[d]
                    THEN [Loaded(t) EXCEPT !.names = Add(Loaded(t).names, n, i)]
                    ELSE slot[t]
  BY <1>5
<1> HIDE DEF new
<1>7. Creates(d, n, kind, i, s)
  BY <1>1, <1>2, <1>3, <1>4, <1>6 DEF Creates
<1> QED
  BY <1>7

LEMMA BlankCreate ==
    ASSUME TypeOK, Blank, NEW d \in Ino, NEW n \in Name, NEW kind \in {"reg", "dir"},
           Create(d, n, kind)
    PROVE  Blank'
<1>1. CASE FreeFileEntry(slot) = {}
  BY <1>1 DEF Create, Blank
<1>2. CASE FreeFileEntry(slot) # {}
  <2>1. PICK i, s : Creates(d, n, kind, i, s)
    BY <1>2, CreateEffect
  <2>2. Proper([FreeSlot EXCEPT !.kind = kind, !.ino = i], past')
    BY DEF Proper, FreeSlot
  <2>3. Add(Loaded(inode[d]).names, n, i) \in [Index -> DirEntry]
    BY <2>1, LoadedType, SlotParts, AddType DEF Creates
  <2>4. Proper([Loaded(inode[d]) EXCEPT !.names = Add(Loaded(inode[d]).names, n, i)], past')
    BY <2>1, <2>3, LoadedProper DEF Creates
  <2> QED
    BY <2>1, <2>2, <2>4, BlankKept DEF Creates
<1> QED
  BY <1>1, <1>2

LEMMA BlankLookUps ==
    ASSUME TypeOK, Blank, NEW d \in Ino, Readdir(d) \/ \E n \in Name : Lookup(d, n)
    PROVE  Blank'
<1>1. /\ inode[d] \in Slot /\ slot[inode[d]].kind = "dir"
      /\ slot' = [slot EXCEPT ![inode[d]] = Loaded(inode[d])]
      /\ past' = past \cup LoadPast(inode[d])
  BY ReachedType DEF Readdir, Lookup
<1>2. Proper(Loaded(inode[d]), past')
  BY <1>1, LoadedProper, EntryTypes
<1> QED
  BY <1>1, <1>2, BlankKept DEF TypeOK

LEMMA BlankUnread ==
    ASSUME TypeOK, Blank, NEW d \in Ino, ReaddirUnread(d)
    PROVE  Blank'
<1>1. Proper(slot'[inode[d]], past')
  BY UnreadEffect DEF Proper
<1> QED
  BY <1>1, UnreadEffect, BlankKept

\* What a removal does to the table.
LEMMA RemoveEffect ==
    ASSUME TypeOK, NEW d \in Ino, NEW n \in Name, NEW i \in Ino,
           Reached(d), inode[i] \in Slot, RemoveName(d, n, inode[i])
    PROVE  /\ inode[d] \in Slot /\ slot[inode[d]].kind = "dir"
           /\ \A t \in Slot :
                 slot'[t] = IF t = inode[i] THEN FreeSlot
                            ELSE IF t = inode[d]
                            THEN [Loaded(t) EXCEPT !.names = Remove(Loaded(t).names, n)]
                            ELSE slot[t]
<1> DEFINE new == [Loaded(inode[d]) EXCEPT !.names = Remove(Loaded(inode[d]).names, n)]
<1>1. slot' = [slot EXCEPT ![inode[d]] = new, ![inode[i]] = FreeSlot]
  BY DEF RemoveName
<1>2. inode[d] \in Slot /\ slot[inode[d]].kind = "dir"
  BY ReachedType
<1>3. \A t \in Slot : slot'[t] = IF t = inode[i] THEN FreeSlot
                                 ELSE IF t = inode[d] THEN new ELSE slot[t]
  <2> HIDE DEF new
  <2> QED
    BY <1>1, <1>2 DEF TypeOK
<1> QED
  BY <1>2, <1>3

LEMMA BlankRemovals ==
    ASSUME TypeOK, Blank, NEW d \in Ino, NEW n \in Name, Unlink(d, n) \/ Rmdir(d, n)
    PROVE  Blank'
<1>1. PICK i \in Ino : inode[i] \in Slot /\ RemoveName(d, n, inode[i])
  BY DEF Unlink, Rmdir
<1>2. Reached(d) /\ past' = past \cup LoadPast(inode[d])
  BY DEF Unlink, Rmdir
<1>3. /\ inode[d] \in Slot /\ slot[inode[d]].kind = "dir"
      /\ \A t \in Slot :
            slot'[t] = IF t = inode[i] THEN FreeSlot
                       ELSE IF t = inode[d]
                       THEN [Loaded(t) EXCEPT !.names = Remove(Loaded(t).names, n)]
                       ELSE slot[t]
  BY <1>1, <1>2, RemoveEffect
<1>4. Remove(Loaded(inode[d]).names, n) \in [Index -> DirEntry]
  <2>1. Loaded(inode[d]).names \in [Index -> DirEntry]
    BY <1>3, LoadedType, SlotParts
  <2> QED
    BY <2>1, EntryTypes DEF Remove, DirEntry
<1>5. Proper([Loaded(inode[d]) EXCEPT !.names = Remove(Loaded(inode[d]).names, n)], past')
  BY <1>2, <1>3, <1>4, LoadedProper
<1>6. Proper(FreeSlot, past')
  BY FreeSlotParts DEF Proper
<1> QED
  BY <1>2, <1>3, <1>5, <1>6, BlankKept

LEMMA BlankQuiet ==
    ASSUME TypeOK, Blank, NEW d \in Ino,
           Evict(d) \/ \E n \in Name : RmdirRefused(d, n) \/ Forget(d, n)
    PROVE  Blank'
<1>1. ASSUME Evict(d) \/ \E n \in Name : Forget(d, n) PROVE Blank'
  BY <1>1 DEF Evict, Forget, Blank
<1>2. ASSUME NEW n \in Name, RmdirRefused(d, n) PROVE Blank'
  <2>1. PICK i \in Ino : /\ inode[i] \in Slot /\ slot[inode[i]].kind = "dir"
                         /\ slot' = [slot EXCEPT ![inode[i]].loaded = TRUE]
                         /\ past' = past
    BY <1>2 DEF RmdirRefused
  <2>2. slot[inode[i]] \in SlotEntry /\ Proper(slot[inode[i]], past)
    BY <2>1, BlankIsProper DEF TypeOK
  <2>3. Proper([slot[inode[i]] EXCEPT !.loaded = TRUE], past)
    BY <2>1, <2>2 DEF Proper, SlotEntry
  <2> QED
    BY <2>1, <2>3, BlankKept DEF TypeOK
<1> QED
  BY <1>1, <1>2

LEMMA BlankWithRoot ==
    ASSUME NEW table \in [Slot -> SlotEntry], NEW p,
           \A s \in Slot : Proper(table[s], p)
    PROVE  \A s \in Slot : Proper(WithRoot(table)[s], p)
<1> SUFFICES ASSUME NEW s \in Slot PROVE Proper(WithRoot(table)[s], p)
  OBVIOUS
<1> DEFINE new == [table[s] EXCEPT !.kind = "dir", !.ino = RootIno]
<1>1. WithRoot(table)[s] \in {table[s], new}
  BY DEF WithRoot
<1>2. new.kind = "dir" /\ new.block = table[s].block /\ new.names = table[s].names
  BY DEF SlotEntry
<1> HIDE DEF new
<1>3. Proper(new, p)
  BY <1>2 DEF Proper
<1> QED
  BY <1>1, <1>3

LEMMA BlankRemount ==
    ASSUME TypeOK, Blank, NEW restart \in BOOLEAN, Remount(restart)
    PROVE  Blank'
<1>1. \A s \in Slot : Proper(LoadTable[s], past')
  <2> SUFFICES ASSUME NEW s \in Slot PROVE Proper(LoadTable[s], past')
    OBVIOUS
  <2>1. /\ LoadTable[s] \in SlotEntry
        /\ LoadTable[s].kind = slot[s].kind /\ LoadTable[s].block = slot[s].block
        /\ LoadTable[s].loaded = FALSE /\ LoadTable[s].ino = LoadIno(slot[s].ino)
        /\ LoadTable[s].names = IF slot[s].block = 0 THEN NoNames ELSE slot[s].names
    BY LoadTableType
  <2>2. CASE slot[s].kind = "free"
    <3>1. slot[s] = FreeSlot /\ LoadIno(0) = 0
      BY <2>2 DEF Blank, LoadIno
    <3>2. /\ LoadTable[s].kind = "free" /\ LoadTable[s].ino = 0 /\ LoadTable[s].block = 0
          /\ LoadTable[s].names = NoNames /\ LoadTable[s].loaded = FALSE
      BY <2>1, <3>1, FreeSlotParts
    <3>3. LoadTable[s] = FreeSlot
      <4> DEFINE e == LoadTable[s]
      <4>1. e = [kind |-> e.kind, ino |-> e.ino, block |-> e.block,
                 names |-> e.names, loaded |-> e.loaded]
        BY <2>1, SlotParts
      <4> QED
        BY <3>2, <4>1 DEF FreeSlot
    <3> QED
      BY <3>3, FreeSlotParts DEF Proper
  <2>3. CASE slot[s].kind # "free"
    BY <2>1, <2>3 DEF Proper
  <2> QED
    BY <2>2, <2>3
<1>2. \A s \in Slot : Proper(slot'[s], past')
  BY <1>1, LoadTableType, BlankWithRoot DEF Remount
<1> QED
  BY <1>2 DEF Blank, Proper

LEMMA InitBlank == Init => Blank
<1> SUFFICES ASSUME Init PROVE Blank
  OBVIOUS
<1>1. [s \in Slot |-> FreeSlot] \in [Slot -> SlotEntry]
  BY EntryTypes
<1>2. \A s \in Slot : Proper([t \in Slot |-> FreeSlot][s], past)
  BY FreeSlotParts DEF Proper
<1>3. \A s \in Slot : Proper(slot[s], past)
  BY <1>1, <1>2, BlankWithRoot DEF Init
<1> QED
  BY <1>3, BlankIsProper

LEMMA NextBlank ==
    ASSUME TypeOK, Blank, [Next]_vars
    PROVE  Blank'
<1>1. CASE UNCHANGED vars
  BY <1>1 DEF vars, Blank
<1>2. ASSUME NEW d \in Ino, NEW n \in Name, NEW kind \in {"reg", "dir"}, Create(d, n, kind)
      PROVE  Blank'
  BY <1>2, BlankCreate
<1>3. ASSUME NEW d \in Ino, NEW n \in Name,
             Lookup(d, n) \/ Unlink(d, n) \/ Rmdir(d, n) \/ RmdirRefused(d, n) \/ Forget(d, n)
      PROVE  Blank'
  BY <1>3, BlankLookUps, BlankRemovals, BlankQuiet
<1>4. ASSUME NEW d \in Ino, Readdir(d) \/ ReaddirUnread(d) \/ Evict(d) PROVE Blank'
  BY <1>4, BlankLookUps, BlankUnread, BlankQuiet
<1>5. ASSUME NEW restart \in BOOLEAN, Remount(restart) PROVE Blank'
  BY <1>5, BlankRemount
<1> QED
  BY <1>1, <1>2, <1>3, <1>4, <1>5 DEF Next
-----------------------------------------------------------------------------
(* Only empty directories are removed.                                       *)

LEMMA LoadedWith ==
    ASSUME TypeOK, NEW s \in Slot, NEW names \in [Index -> DirEntry]
    PROVE  /\ [Loaded(s) EXCEPT !.names = names].kind = slot[s].kind
           /\ [Loaded(s) EXCEPT !.names = names].ino = slot[s].ino
           /\ [Loaded(s) EXCEPT !.names = names].names = names
BY LoadedType DEF SlotEntry

LEMMA NewNamesType ==
    ASSUME TypeOK, NEW s \in Slot, NEW n \in Name
    PROVE  /\ \A i \in Ino : Add(Loaded(s).names, n, i) \in [Index -> DirEntry]
           /\ Remove(Loaded(s).names, n) \in [Index -> DirEntry]
<1>1. Loaded(s).names \in [Index -> DirEntry]
  BY LoadedType, SlotParts
<1>2. Remove(Loaded(s).names, n) \in [Index -> DirEntry]
  BY <1>1, EntryTypes DEF Remove, DirEntry
<1> QED
  BY <1>1, <1>2, AddType

\* A slot keeps its kind but for the one a removal frees and those that are free.
LEMMA KindKept ==
    ASSUME TypeOK, Blank, [Next]_vars, NEW s \in Slot, slot[s].kind = "dir",
           slot'[s].kind = "free"
    PROVE  \E d, i \in Ino, n \in Name : Rmdir(d, n) /\ s = inode[i] /\ DirLooksEmpty(s)
<1>1. CASE UNCHANGED vars
  BY <1>1 DEF vars
<1>2. ASSUME NEW d \in Ino, NEW n \in Name, NEW kind \in {"reg", "dir"}, Create(d, n, kind)
      PROVE  FALSE
  <2>1. CASE FreeFileEntry(slot) = {}
    BY <1>2, <2>1 DEF Create
  <2>2. CASE FreeFileEntry(slot) # {}
    <3>1. PICK i, t : Creates(d, n, kind, i, t)
      BY <1>2, <2>2, CreateEffect
    <3>2. s # t
      BY <3>1, FreeSlotParts DEF Creates
    <3>3. CASE s = inode[d]
      <4>1. /\ slot'[s] = [Loaded(s) EXCEPT !.names = Add(Loaded(s).names, n, i)]
            /\ i \in Ino
        BY <3>1, <3>2, <3>3 DEF Creates
      <4> QED
        BY <4>1, LoadedWith, NewNamesType
    <3> QED
      BY <3>1, <3>2, <3>3 DEF Creates
  <2> QED
    BY <2>1, <2>2
<1>3. ASSUME NEW d \in Ino, Readdir(d) \/ \E n \in Name : Lookup(d, n) PROVE FALSE
  <2>1. inode[d] \in Slot /\ slot' = [slot EXCEPT ![inode[d]] = Loaded(inode[d])]
    BY <1>3, ReachedType DEF Readdir, Lookup
  <2> QED
    BY <2>1, LoadedType DEF TypeOK
<1>4. ASSUME NEW d \in Ino, NEW n \in Name, Unlink(d, n) \/ Rmdir(d, n)
      PROVE  \E i \in Ino : Rmdir(d, n) /\ s = inode[i] /\ DirLooksEmpty(s)
  <2>1. PICK i \in Ino : /\ inode[i] \in Slot /\ RemoveName(d, n, inode[i])
                         /\ \/ slot[inode[i]].kind = "reg"
                            \/ Rmdir(d, n) /\ DirLooksEmpty(inode[i])
    BY <1>4 DEF Unlink, Rmdir
  <2>2. Reached(d)
    BY <1>4 DEF Unlink, Rmdir
  <2>3. s = inode[i]
    <3>1. [Loaded(s) EXCEPT !.names = Remove(Loaded(s).names, n)].kind = slot[s].kind
      BY LoadedWith, NewNamesType
    <3>2. slot'[s] = IF s = inode[i] THEN FreeSlot
                     ELSE IF s = inode[d]
                     THEN [Loaded(s) EXCEPT !.names = Remove(Loaded(s).names, n)]
                     ELSE slot[s]
      BY <2>1, <2>2, RemoveEffect
    <3> QED
      BY <3>1, <3>2
  <2> QED
    BY <2>1, <2>3
<1>5. ASSUME NEW d \in Ino, NEW n \in Name, RmdirRefused(d, n) PROVE FALSE
  <2>1. PICK i \in Ino : inode[i] \in Slot /\ slot' = [slot EXCEPT ![inode[i]].loaded = TRUE]
    BY <1>5 DEF RmdirRefused
  <2>2. \A e \in SlotEntry : [e EXCEPT !.loaded = TRUE].kind = e.kind
    BY DEF SlotEntry
  <2> QED
    BY <2>1, <2>2 DEF TypeOK
<1>6. ASSUME NEW d \in Ino, Evict(d) \/ \E n \in Name : Forget(d, n) PROVE FALSE
  BY <1>6 DEF Evict, Forget
<1>8. ASSUME NEW d \in Ino, ReaddirUnread(d) PROVE FALSE
  BY <1>8, UnreadEffect
<1>7. ASSUME NEW restart \in BOOLEAN, Remount(restart) PROVE FALSE
  <2>1. LoadTable[s] \in SlotEntry /\ LoadTable[s].kind = "dir"
    BY LoadTableType
  <2>2. [LoadTable[s] EXCEPT !.kind = "dir", !.ino = RootIno].kind = "dir"
    BY <2>1 DEF SlotEntry
  <2> QED
    BY <1>7, <2>1, <2>2 DEF Remount, WithRoot
<1> QED
  BY <1>1, <1>2, <1>3, <1>4, <1>5, <1>6, <1>7, <1>8 DEF Next

\* In every history, whatever was remounted with its numbers lost: a step that
\* frees the slot of a directory finds it empty, unless a directory had no block
\* or was not read.
THEOREM OnlyEmptyDirectoriesGo == Spec => RmdirOnlyEmpty
<1> DEFINE OnlyEmpty == \A s \in Slot :
          /\ slot[s].kind = "dir" /\ slot'[s].kind = "free"
          /\ past \cap {"blockless", "unread"} = {}
          => IsEmpty(slot[s].names)
<1>1. TypeOK /\ Blank /\ [Next]_vars => OnlyEmpty
  <2> SUFFICES ASSUME TypeOK, Blank, [Next]_vars, NEW s \in Slot, slot[s].kind = "dir",
                      slot'[s].kind = "free", past \cap {"blockless", "unread"} = {}
               PROVE  IsEmpty(slot[s].names)
    OBVIOUS
  <2>1. DirLooksEmpty(s)
    BY KindKept
  <2> QED
    BY <2>1, FreeSlotParts DEF DirLooksEmpty, Blank, IsEmpty
<1>2. Init => TypeOK /\ Blank
  BY InitTypeOK, InitBlank
<1>3. TypeOK /\ Blank /\ [Next]_vars => (TypeOK /\ Blank)'
  BY NextTypeOK, NextBlank
<1>4. RmdirOnlyEmpty <=> [][OnlyEmpty]_vars
  BY DEF RmdirOnlyEmpty
<1> HIDE DEF OnlyEmpty
<1> QED
  BY <1>1, <1>2, <1>3, <1>4, PTL DEF Spec
-----------------------------------------------------------------------------
(* Names and files in ordinary histories.                                    *)

Sound == Numbered /\ Named /\ InodesMatch /\ NamesMatch

\* What every entry of the table and of a list is, in one place.
LEMMA Parts ==
    ASSUME TypeOK, Blank
    PROVE  /\ \A s \in Slot :
                 /\ slot[s].ino \in {0} \cup Ino
                 /\ slot[s].kind = "free" => slot[s].ino = 0
                 /\ slot[s].kind = "free" => slot[s].names = NoNames
           /\ \A s \in Slot, k \in Index :
                 /\ slot[s].names[k] \in DirEntry
                 /\ slot[s].names[k] # NoEntry => slot[s].names[k].ino \in Ino
           /\ \A i \in Ino : i # NotCached /\ i # 0 /\ i # RootIno => i > RootIno
           /\ counter \in Ino
<1>1. \A s \in Slot : slot[s] \in SlotEntry
  BY DEF TypeOK
<1>2. \A i \in Ino : i # RootIno => i > RootIno
  BY DEF RootIno, Ino
<1> QED
  BY <1>1, <1>2, SlotParts, EntryTypes, FreeSlotParts DEF Blank, TypeOK

\* The table says the same as before.
Same ==
    \A s \in Slot : /\ slot'[s].kind = slot[s].kind /\ slot'[s].ino = slot[s].ino
                    /\ slot'[s].names = slot[s].names

LEMMA TableKept ==
    ASSUME TypeOK, TypeOK', Numbered, Named, Same, counter <= counter'
    PROVE  Numbered' /\ Named'
<1>1. Live' = Live
  BY DEF Live, Same
<1>2. \A s \in Live : slot[s].ino \in RootIno .. counter'
  <2>1. counter \in Nat /\ counter' \in Nat /\ RootIno \in Nat
    BY Numbers DEF TypeOK
  <2> QED
    BY <2>1 DEF Numbered
<1>3. Numbered'
  BY <1>1, <1>2 DEF Numbered, Same, Live
<1>4. Named'
  BY SMTT(30), <1>1 DEF Named, Holds, Same, Live
<1> QED
  BY <1>3, <1>4

LEMMA CachesKept ==
    ASSUME TypeOK, InodesMatch, NamesMatch, Same, UNCHANGED <<inode, dentry>>
    PROVE  InodesMatch' /\ NamesMatch'
<1>1. \A i \in Ino : inode[i] # NotCached => inode[i] \in Slot
  BY DEF InodesMatch
<1>2. InodesMatch'
  BY <1>1, Numbers DEF InodesMatch, Same
<1>3. NamesMatch'
  <2>1. \A d \in Ino, n \in Name : dentry[<<d, n>>] # Unknown => inode[d] \in Slot
    BY ZenonT(40), <1>1 DEF NamesMatch
  <2> QED
    BY <2>1 DEF NamesMatch, Same
<1> QED
  BY <1>2, <1>3

\* Lists are loaded by a look-up.
LEMMA SameLoaded ==
    ASSUME TypeOK, Blank, "blockless" \notin past, NEW s \in Slot,
           slot' = [slot EXCEPT ![s] = Loaded(s)]
    PROVE  Same
BY LoadedKeeps DEF Same, TypeOK

LEMMA SoundQuiet ==
    ASSUME TypeOK, TypeOK', Sound, NEW d \in Ino,
           NEW n \in Name, RmdirRefused(d, n)
    PROVE  Sound'
<1>1. PICK i \in Ino : inode[i] \in Slot /\ slot' = [slot EXCEPT ![inode[i]].loaded = TRUE]
  BY DEF RmdirRefused
<1>2. \A e \in SlotEntry : LET f == [e EXCEPT !.loaded = TRUE]
                           IN f.kind = e.kind /\ f.ino = e.ino /\ f.names = e.names
  BY DEF SlotEntry
<1>3. Same
  BY <1>1, <1>2 DEF Same, TypeOK
<1>4. counter <= counter'
  BY Numbers DEF RmdirRefused, TypeOK
<1> QED
  BY <1>3, <1>4, TableKept, CachesKept DEF Sound, RmdirRefused

LEMMA SoundForget ==
    ASSUME TypeOK, TypeOK', Sound, NEW d \in Ino, NEW n \in Name, Forget(d, n)
    PROVE  Sound'
<1>1. Same /\ counter <= counter'
  BY Numbers DEF Same, Forget, TypeOK
<1>2. InodesMatch'
  BY DEF Sound, InodesMatch, Forget
<1>3. \A x \in Ino \X Name : dentry'[x] = IF x = <<d, n>> THEN Unknown ELSE dentry[x]
  BY DEF Forget, TypeOK
<1>4. NamesMatch'
  <2> SUFFICES ASSUME NEW e \in Ino, NEW m \in Name, dentry'[<<e, m>>] # Unknown
               PROVE  /\ inode[e] # NotCached
                      /\ slot[inode[e]].kind = "dir"
                      /\ e = RootIno \/ \E x \in Ino \X Name : dentry'[x] = e
                      /\ IF dentry[<<e, m>>] = Negative
                         THEN \A k \in Index : slot[inode[e]].names[k].name # m
                         ELSE /\ inode[dentry[<<e, m>>]] # NotCached
                              /\ \E k \in Index : slot[inode[e]].names[k] =
                                    [name |-> m, ino |-> dentry[<<e, m>>]]
                      /\ dentry'[<<e, m>>] = dentry[<<e, m>>]
    BY DEF NamesMatch, Forget
  <2>1. dentry'[<<e, m>>] = dentry[<<e, m>>] /\ dentry[<<e, m>>] # Unknown
    BY <1>3
  <2>2. ASSUME NEW x \in Ino \X Name, dentry[x] = e PROVE dentry'[x] = e
    <3>1. x # <<d, n>>
      BY <2>1, <2>2 DEF Forget
    <3> QED
      BY <1>3, <2>2, <3>1
  <2> QED
    BY <2>1, <2>2 DEF Sound, NamesMatch
<1> QED
  BY <1>1, <1>2, <1>4, TableKept DEF Sound

LEMMA SoundEvict ==
    ASSUME TypeOK, TypeOK', Sound, NEW i \in Ino, Evict(i)
    PROVE  Sound'
<1>1. Same /\ counter <= counter'
  BY Numbers DEF Same, Evict, TypeOK
<1>2. \A j \in Ino : inode'[j] = IF j = i THEN NotCached ELSE inode[j]
  BY DEF Evict, TypeOK
<1>3. InodesMatch'
  BY <1>2, Numbers DEF Sound, InodesMatch, Evict
<1>4. ASSUME NEW d \in Ino, NEW n \in Name, dentry[<<d, n>>] # Unknown
      PROVE  d # i /\ dentry[<<d, n>>] # i
  <2>1. i # RootIno /\ \A x \in Ino \X Name : dentry[x] # i
    BY DEF Evict
  <2>2. d = RootIno \/ \E x \in Ino \X Name : dentry[x] = d
    BY <1>4 DEF Sound, NamesMatch
  <2> QED
    BY <2>1, <2>2
<1>5. \A d \in Ino, n \in Name : dentry[<<d, n>>] \in {Unknown, Negative} \cup Ino
  BY DEF TypeOK
<1>6. NamesMatch'
  BY <1>2, <1>4, <1>5 DEF Sound, NamesMatch, Evict
<1> QED
  BY <1>1, <1>3, <1>6, TableKept DEF Sound

LEMMA SoundReaddir ==
    ASSUME TypeOK, TypeOK', Blank, "blockless" \notin past, Sound, NEW d \in Ino, Readdir(d)
    PROVE  Sound'
<1>1. Same /\ counter <= counter'
  <2>1. inode[d] \in Slot
    BY ReachedType DEF Readdir
  <2>2. Same
    BY <2>1, SameLoaded DEF Readdir
  <2>3. counter <= counter'
    BY Numbers DEF Readdir, TypeOK
  <2> QED
    BY <2>2, <2>3
<1>2. ASSUME NEW i \in Ino
      PROVE  \/ inode'[i] = inode[i]
             \/ inode[i] = NotCached /\ inode'[i] \in Slot /\ slot[inode'[i]].ino = i
  BY IGetType, SlotOfInoType DEF Readdir
<1>3. \A i \in Ino : inode[i] # NotCached => inode'[i] = inode[i] /\ inode[i] \in Slot
  BY <1>2 DEF Sound, InodesMatch
<1>4. InodesMatch'
  <2>1. \A i \in Ino : inode'[i] # NotCached =>
            inode'[i] \in Slot /\ slot[inode'[i]].ino = i
    BY <1>2 DEF Sound, InodesMatch
  <2>2. inode'[RootIno] = inode[RootIno] /\ inode[RootIno] \in Slot
        /\ inode[RootIno] # NotCached /\ slot[inode[RootIno]].kind = "dir"
    BY <1>3, Numbers DEF Sound, InodesMatch
  <2> QED
    BY <1>1, <2>1, <2>2 DEF InodesMatch, Same
<1>5. \A e \in Ino, m \in Name : dentry[<<e, m>>] \in {Unknown, Negative} \cup Ino
  BY DEF TypeOK
<1>6. NamesMatch'
  <2>1. dentry' = dentry
    BY DEF Readdir
  <2> SUFFICES ASSUME NEW e \in Ino, NEW m \in Name, dentry'[<<e, m>>] # Unknown
               PROVE  /\ inode'[e] # NotCached
                      /\ slot'[inode'[e]].kind = "dir"
                      /\ e = RootIno \/ \E x \in Ino \X Name : dentry'[x] = e
                      /\ IF dentry'[<<e, m>>] = Negative
                         THEN \A k \in Index : slot'[inode'[e]].names[k].name # m
                         ELSE /\ inode'[dentry'[<<e, m>>]] # NotCached
                              /\ \E k \in Index : slot'[inode'[e]].names[k] =
                                    [name |-> m, ino |-> dentry'[<<e, m>>]]
    BY DEF NamesMatch
  <2>2. /\ inode[e] # NotCached
        /\ slot[inode[e]].kind = "dir"
        /\ e = RootIno \/ \E x \in Ino \X Name : dentry[x] = e
        /\ IF dentry[<<e, m>>] = Negative
           THEN \A k \in Index : slot[inode[e]].names[k].name # m
           ELSE /\ inode[dentry[<<e, m>>]] # NotCached
                /\ \E k \in Index : slot[inode[e]].names[k] =
                      [name |-> m, ino |-> dentry[<<e, m>>]]
    <3>1. NamesMatch /\ dentry[<<e, m>>] # Unknown
      BY <2>1 DEF Sound
    <3> QED
      BY <3>1 DEF NamesMatch
  <2>3. inode'[e] = inode[e] /\ inode[e] \in Slot
    BY <1>3, <2>2
  <2>4. slot'[inode[e]].kind = slot[inode[e]].kind /\ slot'[inode[e]].names = slot[inode[e]].names
    BY <1>1, <2>3 DEF Same
  <2>5. dentry[<<e, m>>] # Negative => inode'[dentry[<<e, m>>]] = inode[dentry[<<e, m>>]]
    <3>1. dentry[<<e, m>>] # Negative =>
            dentry[<<e, m>>] \in Ino /\ inode[dentry[<<e, m>>]] # NotCached
      BY <1>5, <2>1, <2>2
    <3> QED
      BY <1>3, <3>1
  <2> QED
    BY <2>1, <2>2, <2>3, <2>4, <2>5, Zenon
<1> QED
  BY <1>1, <1>4, <1>6, TableKept DEF Sound

LEMMA EntryIs ==
    ASSUME NEW e \in DirEntry, e # NoEntry
    PROVE  e = [name |-> e.name, ino |-> e.ino] /\ e.name \in Name /\ e.ino \in Ino
BY DEF DirEntry

LEMMA FindFound ==
    ASSUME NEW names \in [Index -> DirEntry], NEW n \in Name, NEW i \in Find(names, n)
    PROVE  \E k \in Index : names[k] = [name |-> n, ino |-> i]
<1>1. PICK k \in Index : names[k].name = n /\ names[k].ino = i
  BY DEF Find, Lowest
<1>2. names[k] # NoEntry
  BY <1>1, NamedEntry
<1> QED
  BY <1>1, <1>2, EntryIs

LEMMA FindNone ==
    ASSUME NEW names \in [Index -> DirEntry], NEW n \in Name, Find(names, n) = {}
    PROVE  \A k \in Index : names[k].name # n
<1> DEFINE S == {j \in Index : names[j].name = n}
<1>1. Lowest(S) = {}
  BY DEF Find
<1>2. MaxDirEntries \in Nat
  BY DirectoryAssumption, Zenon
<1>3. S \in SUBSET (1 .. MaxDirEntries)
  BY DEF Index
<1> HIDE DEF S
<1>4. S = {}
  BY <1>1, <1>2, <1>3, LowestOf
<1> QED
  BY <1>4 DEF S

LEMMA SlotFound ==
    ASSUME NEW i, NEW t \in Slot, slot[t].ino = i
    PROVE  SlotOfIno(slot, i) # {}
<1> DEFINE S == {s \in Slot : slot[s].ino = i}
<1>1. MaxFileCount \in Nat
  BY DirectoryAssumption, Zenon
<1>2. S \in SUBSET (1 .. MaxFileCount) /\ S # {}
  BY DEF Slot
<1> HIDE DEF S
<1>3. Lowest(S) # {}
  BY <1>1, <1>2, LowestOf
<1> QED
  BY <1>3 DEF SlotOfIno, S

LEMMA SoundLookup ==
    ASSUME TypeOK, TypeOK', Blank, "blockless" \notin past, Sound,
           NEW d \in Ino, NEW n \in Name, Lookup(d, n)
    PROVE  Sound'
<1> DEFINE names == slot[inode[d]].names
           found == {i \in Find(Loaded(inode[d]).names, n) : SlotOfIno(slot, i) # {}}
<1>1. /\ inode[d] \in Slot /\ slot[inode[d]].kind = "dir" /\ dentry[<<d, n>>] = Unknown
      /\ d = RootIno \/ \E x \in Ino \X Name : dentry[x] = d
  <2>1. d = RootIno \/ \E x \in Ino \X Name : dentry[x] = d
    BY DEF Lookup, Reached
  <2> QED
    BY <2>1, ReachedType DEF Lookup
<1>2. Same /\ counter <= counter'
  <2>1. Same
    BY <1>1, SameLoaded DEF Lookup
  <2> QED
    BY <2>1, Numbers DEF Lookup, TypeOK
<1>3. names \in [Index -> DirEntry] /\ Loaded(inode[d]).names = names
  BY <1>1, LoadedKeeps, SlotParts DEF TypeOK
<1>4. inode[d] # NotCached
  BY <1>1, Numbers DEF NotCached
<1>5. \A x \in Ino \X Name : dentry[x] \in {Unknown, Negative} \cup Ino
  BY DEF TypeOK
<1>6. <<d, n>> \in Ino \X Name /\ Unknown \notin Ino /\ Negative \notin Ino /\ Unknown # Negative
  BY Numbers DEF Unknown, Negative
<1>7. CASE found = {} /\ dentry' = [dentry EXCEPT ![<<d, n>>] = Negative] /\ UNCHANGED inode
  <2>1. \A k \in Index : names[k].name # n
    <3> SUFFICES ASSUME NEW k \in Index, names[k].name = n PROVE FALSE
      OBVIOUS
    <3>1. PICK i : i \in Find(names, n)
      BY <1>3, FindNone
    <3>2. PICK j \in Index : names[j] = [name |-> n, ino |-> i]
      BY <1>3, <3>1, FindFound
    <3>3. names[j] # NoEntry
      BY <1>3, <3>2, NamedEntry
    <3>4. PICK t \in Live : slot[t].ino = names[j].ino
      BY <1>1, <3>3 DEF Sound, Named, Holds
    <3>5. SlotOfIno(slot, i) # {}
      BY <3>2, <3>4, SlotFound DEF Live
    <3> QED
      BY <1>3, <1>7, <3>1, <3>5
  <2>2. \A x \in Ino \X Name : dentry'[x] = IF x = <<d, n>> THEN Negative ELSE dentry[x]
    BY <1>7 DEF TypeOK
  <2>3. \A x \in Ino \X Name, e \in Ino : dentry[x] = e => dentry'[x] = e
    BY <1>1, <1>6, <2>2
  <2>4. InodesMatch'
    BY <1>2, <1>7, Numbers DEF Sound, InodesMatch, Same
  <2>5. NamesMatch'
    <3> SUFFICES ASSUME NEW e \in Ino, NEW m \in Name, dentry'[<<e, m>>] # Unknown
                 PROVE  /\ inode[e] # NotCached
                        /\ slot'[inode[e]].kind = "dir"
                        /\ e = RootIno \/ \E x \in Ino \X Name : dentry'[x] = e
                        /\ IF dentry'[<<e, m>>] = Negative
                           THEN \A k \in Index : slot'[inode[e]].names[k].name # m
                           ELSE /\ inode[dentry'[<<e, m>>]] # NotCached
                                /\ \E k \in Index : slot'[inode[e]].names[k] =
                                      [name |-> m, ino |-> dentry'[<<e, m>>]]
      BY <1>7 DEF NamesMatch
    <3>1. CASE e = d /\ m = n
      BY <3>1, <2>1, <2>2, <2>3, <1>1, <1>2, <1>4, <1>6 DEF Same
    <3>2. CASE <<e, m>> # <<d, n>>
      <4>1. dentry'[<<e, m>>] = dentry[<<e, m>>]
        BY <2>2, <3>2
      <4>2. inode[e] # NotCached /\ inode[e] \in Slot
        BY ZenonT(40), <4>1 DEF Sound, NamesMatch, InodesMatch
      <4> QED
        BY <4>1, <4>2, <1>2, <2>3 DEF Sound, NamesMatch, Same
    <3> QED
      BY <3>1, <3>2
  <2> QED
    BY <1>2, <2>4, <2>5, TableKept DEF Sound
<1>8. ASSUME NEW i \in found,
             inode' = [inode EXCEPT ![i] = IGet(i)],
             dentry' = [x \in Ino \X Name |->
                       IF x = <<d, n>> THEN i
                       ELSE IF dentry[x] = i /\ IsDirInode(IGet(i)) THEN Unknown
                       ELSE dentry[x]]
      PROVE  Sound'
  <2>1. i \in Ino /\ SlotOfIno(slot, i) # {} /\ \E k \in Index : names[k] = [name |-> n, ino |-> i]
    BY <1>3, FindType, FindFound
  <2>2. \A j \in Ino : inode'[j] = IF j = i THEN IGet(i) ELSE inode[j]
    BY <1>8, <2>1 DEF TypeOK
  <2>3. IGet(i) \in Slot /\ slot[IGet(i)].ino = i /\ (inode[i] # NotCached => IGet(i) = inode[i])
    BY <2>1, IGetType, SlotOfInoType DEF Sound, InodesMatch
  <2>4. \A j \in Ino : inode[j] # NotCached => inode'[j] = inode[j] /\ inode[j] \in Slot
    BY <2>2, <2>3 DEF Sound, InodesMatch
  <2>5. inode'[i] # NotCached
    BY <2>1, <2>2, <2>3, Numbers DEF NotCached
  <2>6. InodesMatch'
    <3>1. \A j \in Ino : inode'[j] # NotCached => inode'[j] \in Slot /\ slot[inode'[j]].ino = j
      BY <2>2, <2>3 DEF Sound, InodesMatch
    <3>2. inode'[RootIno] = inode[RootIno] /\ inode[RootIno] \in Slot
          /\ inode[RootIno] # NotCached /\ slot[inode[RootIno]].kind = "dir"
      BY <2>4, Numbers DEF Sound, InodesMatch
    <3> QED
      BY <1>2, <3>1, <3>2 DEF InodesMatch, Same
  <2>7. \A x \in Ino \X Name :
            \/ x = <<d, n>> /\ dentry'[x] = i
            \/ x # <<d, n>> /\ dentry'[x] = Unknown
            \/ x # <<d, n>> /\ dentry'[x] = dentry[x]
    BY <1>8
  <2>8. \A x \in Ino \X Name, e \in Ino : dentry[x] = e => \E y \in Ino \X Name : dentry'[y] = e
    <3> SUFFICES ASSUME NEW x \in Ino \X Name, dentry[x] \in Ino
                 PROVE  \E y \in Ino \X Name : dentry'[y] = dentry[x]
      OBVIOUS
    <3>1. CASE dentry[x] = i
      BY <1>6, <1>8, <3>1
    <3>2. CASE dentry[x] # i
      BY <1>1, <1>6, <1>8, <3>2
    <3> QED
      BY <3>1, <3>2
  <2>9. NamesMatch'
    <3> SUFFICES ASSUME NEW e \in Ino, NEW m \in Name, dentry'[<<e, m>>] # Unknown
                 PROVE  /\ inode'[e] # NotCached
                        /\ slot'[inode'[e]].kind = "dir"
                        /\ e = RootIno \/ \E x \in Ino \X Name : dentry'[x] = e
                        /\ IF dentry'[<<e, m>>] = Negative
                           THEN \A k \in Index : slot'[inode'[e]].names[k].name # m
                           ELSE /\ inode'[dentry'[<<e, m>>]] # NotCached
                                /\ \E k \in Index : slot'[inode'[e]].names[k] =
                                      [name |-> m, ino |-> dentry'[<<e, m>>]]
      BY DEF NamesMatch
    <3>1. CASE e = d /\ m = n
      <4>1. dentry'[<<e, m>>] = i /\ i # Negative
        BY <3>1, <2>1, <2>7, <1>6
      <4>2. inode'[e] = inode[d] /\ slot'[inode[d]].kind = "dir" /\ slot'[inode[d]].names = names
        BY <3>1, <1>1, <1>2, <1>4, <2>4 DEF Same
      <4> QED
        BY <3>1, <4>1, <4>2, <1>1, <1>4, <2>1, <2>5, <2>8
    <3>2. CASE <<e, m>> # <<d, n>>
      <4>1. dentry'[<<e, m>>] = dentry[<<e, m>>] /\ dentry[<<e, m>>] # Unknown
        BY <2>7, <3>2
      <4>2. /\ inode[e] # NotCached /\ inode[e] \in Slot /\ inode'[e] = inode[e]
            /\ slot'[inode[e]].kind = slot[inode[e]].kind
            /\ slot'[inode[e]].names = slot[inode[e]].names
        <5>1. inode[e] # NotCached
          BY <4>1 DEF Sound, NamesMatch
        <5>2. inode'[e] = inode[e] /\ inode[e] \in Slot
          BY <5>1, <2>4
        <5> QED
          BY <5>1, <5>2, <1>2 DEF Same
      <4>3. \/ dentry[<<e, m>>] = Negative
            \/ /\ dentry[<<e, m>>] \in Ino /\ inode[dentry[<<e, m>>]] # NotCached
               /\ inode'[dentry[<<e, m>>]] # NotCached
        BY ZenonT(40), <1>5, <2>4, <4>1 DEF Sound, NamesMatch
      <4> QED
        BY <4>1, <4>2, <4>3, <2>8 DEF Sound, NamesMatch
    <3> QED
      BY <3>1, <3>2
  <2> QED
    BY <1>2, <2>6, <2>9, TableKept DEF Sound
<1> QED
  BY <1>7, <1>8 DEF Lookup

\* After a mount of an ordinary history the table is what it was.
LEMMA SoundRemount ==
    ASSUME TypeOK, TypeOK', Blank, "blockless" \notin past, Sound,
           NEW restart \in BOOLEAN, Remount(restart), ~restart, ~LittleEndian
    PROVE  Sound'
<1>1. \A s \in Slot : /\ LoadTable[s].kind = slot[s].kind
                      /\ LoadTable[s].ino = slot[s].ino
                      /\ LoadTable[s].names = slot[s].names
  BY LoadTableType DEF LoadIno, Blank
<1> DEFINE r == inode[RootIno]
<1>2. r \in Slot /\ slot[r].ino = RootIno /\ slot[r].kind = "dir"
  BY Numbers DEF Sound, InodesMatch
<1>3. \A s \in Slot : LoadTable[s].ino = RootIno <=> s = r
  <2>1. \A s \in Slot : slot[s].ino = RootIno => slot[s].kind # "free"
    BY Parts, Numbers
  <2>2. slot[r].kind # "free"
    BY <1>2
  <2> HIDE DEF r
  <2> QED
    BY <1>1, <1>2, <2>1, <2>2 DEF Sound, Numbered, Live
<1>4. SlotOfIno(LoadTable, RootIno) = {r}
  <2>1. {s \in Slot : LoadTable[s].ino = RootIno} = {r}
    BY <1>2, <1>3
  <2>2. r \in Nat
    BY <1>2, Numbers
  <2> HIDE DEF r
  <2> QED
    BY <2>1, <2>2, LowestOfOne DEF SlotOfIno
<1> HIDE DEF r
<1>5. RootSlot(LoadTable) = {r}
  BY <1>4 DEF RootSlot
<1>6. WithRoot(LoadTable) = LoadTable
  <2>1. \A s \in Slot : WithRoot(LoadTable)[s] = LoadTable[s]
    BY <1>3, <1>5 DEF WithRoot
  <2>2. WithRoot(LoadTable) \in [Slot -> SlotEntry] /\ LoadTable \in [Slot -> SlotEntry]
    BY LoadTableType, MountType
  <2> QED
    BY <2>1, <2>2
<1>7. Same /\ counter <= counter'
  <2>1. Same
    BY <1>1, <1>6 DEF Remount, Same
  <2> QED
    BY <2>1, Numbers DEF Remount, TypeOK
<1>8. \A i \in Ino : inode'[i] = IF i = RootIno THEN r ELSE NotCached
  <2>1. (CHOOSE s \in {r} : TRUE) = r
    OBVIOUS
  <2> QED
    BY <1>5, <2>1 DEF Remount, MountedInodes
<1>9. InodesMatch'
  <2>1. r # NotCached
    BY <1>2, Numbers DEF NotCached
  <2> QED
    BY <1>2, <1>7, <1>8, <2>1, Numbers DEF InodesMatch, Same
<1>10. NamesMatch'
  BY DEF NamesMatch, Remount, NothingKnown
<1> QED
  BY <1>7, <1>9, <1>10, TableKept DEF Sound

LEMMA InitSound == Init => Sound
<1> SUFFICES ASSUME Init PROVE Sound
  OBVIOUS
<1> DEFINE formatted == [s \in Slot |-> FreeSlot]
<1>1. formatted \in [Slot -> SlotEntry]
  BY EntryTypes
<1>2. SlotOfIno(formatted, RootIno) = {}
  <2>1. \A s \in Slot : formatted[s].ino # RootIno
    BY FreeSlotParts, Numbers
  <2> QED
    BY <2>1 DEF SlotOfIno, Lowest
<1>3. {s \in Slot : formatted[s].kind = "free"} = Slot
  BY FreeSlotParts
<1>4. PICK r \in Slot : RootSlot(formatted) = {r}
  <2>1. MaxFileCount \in Nat
    BY DirectoryAssumption, Zenon
  <2>2. Slot \in SUBSET (1 .. MaxFileCount) /\ Slot # {} /\ Slot \in SUBSET Nat
    BY Numbers DEF Slot
  <2>3. Lowest(Slot) # {}
    BY <2>1, <2>2, LowestOf
  <2>4. PICK r \in Lowest(Slot) : TRUE
    BY <2>3
  <2>5. Lowest(Slot) = {r}
    BY <2>2, <2>4, LowestIsOne
  <2>6. r \in Slot
    BY <2>4 DEF Lowest
  <2>7. RootSlot(formatted) = Lowest(Slot)
    BY <1>2, <1>3 DEF RootSlot, FreeFileEntry
  <2> QED
    BY <2>5, <2>6, <2>7
<1> DEFINE root == [FreeSlot EXCEPT !.kind = "dir", !.ino = RootIno]
<1>5. \A s \in Slot : slot[s] = IF s = r THEN root ELSE FreeSlot
  <2>1. \A s \in Slot : formatted[s] = FreeSlot /\ formatted[s].ino # RootIno
    BY FreeSlotParts, Numbers
  <2>2. slot = WithRoot(formatted)
    BY DEF Init
  <2> HIDE DEF formatted
  <2> QED
    BY <1>4, <2>1, <2>2 DEF WithRoot
<1>6. root.kind = "dir" /\ root.ino = RootIno /\ root.names = NoNames
  BY DEF FreeSlot
<1> HIDE DEF root
<1>7. Live = {r}
  BY <1>5, <1>6, FreeSlotParts DEF Live
<1>8. \A s \in Slot, k \in Index : slot[s].names[k] = NoEntry
  BY <1>5, <1>6, FreeSlotParts
<1>9. Numbered
  <2>1. RootIno \in RootIno .. counter
    BY Numbers DEF Init
  <2> QED
    BY <1>5, <1>6, <1>7, <2>1 DEF Numbered
<1>10. Named
  BY <1>5, <1>6, <1>7, <1>8 DEF Named, Holds
<1>11. \A i \in Ino : inode[i] = IF i = RootIno THEN r ELSE NotCached
  <2>1. (CHOOSE s \in {r} : TRUE) = r
    OBVIOUS
  <2>2. inode = MountedInodes(formatted)
    BY DEF Init
  <2> HIDE DEF formatted
  <2> QED
    BY <1>4, <2>1, <2>2 DEF MountedInodes
<1>12. InodesMatch
  <2>1. r # NotCached
    BY Numbers DEF NotCached
  <2> QED
    BY <1>4, <1>5, <1>6, <1>11, <2>1, Numbers DEF InodesMatch
<1>13. NamesMatch
  BY DEF NamesMatch, Init, NothingKnown
<1> QED
  BY <1>9, <1>10, <1>12, <1>13 DEF Sound

\* The first free entry of a list that is not full, and what Add makes of it.
LEMMA AddsOne ==
    ASSUME NEW names \in [Index -> DirEntry], ~Full(names), NEW n, NEW i
    PROVE  \E k \in Index :
              /\ names[k] = NoEntry
              /\ \A l \in Index : Add(names, n, i)[l] =
                    IF l = k THEN [name |-> n, ino |-> i] ELSE names[l]
<1> DEFINE S == {j \in Index : names[j] = NoEntry}
<1>1. MaxDirEntries \in Nat
  BY DirectoryAssumption, Zenon
<1>2. S \in SUBSET (1 .. MaxDirEntries) /\ S # {}
  BY DEF Full, Index
<1>3. S \in SUBSET Nat
  BY Numbers
<1>4. PICK k \in Lowest(S) : TRUE
  <2> HIDE DEF S
  <2> QED
    BY <1>1, <1>2, LowestOf
<1>5. Lowest(S) = {k}
  <2> HIDE DEF S
  <2> QED
    BY <1>3, <1>4, LowestIsOne
<1>6. k \in Index /\ names[k] = NoEntry
  BY <1>4 DEF Lowest
<1>7. \A l \in Index : Add(names, n, i)[l] =
          IF l = k THEN [name |-> n, ino |-> i] ELSE names[l]
  BY <1>5 DEF Add
<1> QED
  BY <1>6, <1>7

\* What a creation changes in the table: slot s, and entry k of the list in p.
Adds(s, i, kind, p, k, n) ==
    \A t \in Slot :
        /\ slot'[t].ino = IF t = s THEN i ELSE slot[t].ino
        /\ slot'[t].kind = IF t = s THEN kind ELSE slot[t].kind
        /\ \A l \in Index : slot'[t].names[l] =
              IF t = p /\ l = k THEN [name |-> n, ino |-> i] ELSE slot[t].names[l]

LEMMA TableGains ==
    ASSUME TypeOK, Blank, Numbered, Named,
           NEW s \in Slot, slot[s] = FreeSlot, NEW i \in Ino, counter < i, i # RootIno,
           counter' = i, NEW kind \in {"reg", "dir"}, NEW n \in Name,
           NEW p \in Slot, slot[p].kind = "dir",
           NEW k \in Index, slot[p].names[k] = NoEntry, Adds(s, i, kind, p, k, n),
           \A l \in Index : slot[p].names[l].name # n
    PROVE  Numbered' /\ Named'
<1> DEFINE new == [name |-> n, ino |-> i]
           E(t, l) == slot[t].names[l]
           F(t, l) == slot'[t].names[l]
<1>1. Live' = Live \cup {s} /\ s \notin Live
  BY FreeSlotParts DEF Live, Adds
<1>2. new.ino = i /\ new.name = n /\ new # NoEntry
  BY FreeSlotParts
<1>3. \A t \in Live : t # s /\ slot[t].ino # i /\ slot[t].ino \in RootIno .. i /\ slot[t].ino # 0
  <2>1. counter \in Nat /\ i \in Nat /\ RootIno \in Nat \ {0}
    BY Numbers DEF TypeOK, RootIno
  <2>2. \A t \in Live : slot[t].ino \in RootIno .. counter
    BY DEF Numbered
  <2> QED
    BY <1>1, <2>1, <2>2
<1>4. \A t \in Slot, l \in Index : E(t, l).ino # i
  <2> SUFFICES ASSUME NEW t \in Slot, NEW l \in Index, E(t, l).ino = i PROVE FALSE
    OBVIOUS
  <2>1. E(t, l) # NoEntry
    BY FreeSlotParts, Numbers
  <2> QED
    BY <1>3, <2>1 DEF Named, Holds
<1>5. \A t \in Slot, l \in Index : F(t, l) = IF t = p /\ l = k THEN new ELSE E(t, l)
  BY DEF Adds
<1>6. \A t \in Live : slot'[t].ino = slot[t].ino /\ slot'[t].kind = slot[t].kind
  BY <1>3 DEF Adds, Live
<1>7. slot'[s].ino = i
  BY DEF Adds
<1>8. Numbered'
  <2>1. i \in RootIno .. i
    BY Numbers, <1>3 DEF RootIno, Ino
  <2> QED
    BY <1>1, <1>3, <1>6, <1>7, <2>1 DEF Numbered
<1>9. \A t \in Slot, l \in Index : F(t, l) # NoEntry =>
         /\ slot'[t].kind = "dir"
         /\ F(t, l).ino # RootIno
         /\ \E u \in Live' : slot'[u].ino = F(t, l).ino
  <2> SUFFICES ASSUME NEW t \in Slot, NEW l \in Index, F(t, l) # NoEntry
               PROVE  /\ slot'[t].kind = "dir"
                      /\ F(t, l).ino # RootIno
                      /\ \E u \in Live' : slot'[u].ino = F(t, l).ino
    OBVIOUS
  <2>1. p # s
    BY FreeSlotParts
  <2>2. CASE t = p /\ l = k
    BY <1>1, <1>2, <1>5, <1>7, <2>1, <2>2 DEF Adds
  <2>3. CASE ~(t = p /\ l = k)
    <3>1. F(t, l) = E(t, l)
      BY <1>5, <2>3
    <3>2. slot[t].kind = "dir" /\ E(t, l).ino # RootIno /\ \E u \in Live : slot[u].ino = E(t, l).ino
      BY <3>1 DEF Named, Holds
    <3>3. t \in Live
      BY <3>2 DEF Live
    <3> QED
      BY <1>1, <1>6, <3>1, <3>2, <3>3
  <2> QED
    BY <2>2, <2>3
<1>10. \A t \in Live' : slot'[t].ino # RootIno =>
          \E u \in Slot, l \in Index : F(u, l).ino = slot'[t].ino
  <2> SUFFICES ASSUME NEW t \in Live', slot'[t].ino # RootIno
               PROVE  \E u \in Slot, l \in Index : F(u, l).ino = slot'[t].ino
    OBVIOUS
  <2>1. CASE t = s
    BY <1>2, <1>5, <1>7, <2>1
  <2>2. CASE t \in Live
    <3>1. PICK u \in Slot, l \in Index : E(u, l).ino = slot[t].ino
      BY <1>6, <2>2 DEF Named
    <3>2. ~(u = p /\ l = k)
      BY <1>3, <2>2, <3>1, FreeSlotParts
    <3> QED
      BY <1>5, <1>6, <2>2, <3>1, <3>2
  <2> QED
    BY <1>1, <2>1, <2>2
<1>11. \A t, u \in Slot, l, m \in Index :
          F(t, l) # NoEntry /\ F(t, l).ino = F(u, m).ino => t = u /\ l = m
  <2> SUFFICES ASSUME NEW t \in Slot, NEW u \in Slot, NEW l \in Index, NEW m \in Index,
                      F(t, l) # NoEntry, F(t, l).ino = F(u, m).ino
               PROVE  t = u /\ l = m
    OBVIOUS
  <2>1. CASE (t = p /\ l = k) \/ (u = p /\ m = k)
    BY <1>2, <1>4, <1>5, <2>1
  <2>2. CASE ~(t = p /\ l = k) /\ ~(u = p /\ m = k)
    <3>1. F(t, l) = E(t, l) /\ F(u, m) = E(u, m)
      BY <1>5, <2>2
    <3> QED
      BY <3>1 DEF Named, Holds
  <2> QED
    BY <2>1, <2>2
<1>12. \A t \in Slot, l, m \in Index :
          F(t, l) # NoEntry /\ F(t, l).name = F(t, m).name => l = m
  <2> SUFFICES ASSUME NEW t \in Slot, NEW l \in Index, NEW m \in Index,
                      F(t, l) # NoEntry, F(t, l).name = F(t, m).name
               PROVE  l = m
    OBVIOUS
  <2>1. CASE t = p /\ (l = k \/ m = k)
    BY <1>2, <1>5, <2>1
  <2>2. CASE ~(t = p /\ (l = k \/ m = k))
    <3>1. F(t, l) = E(t, l) /\ F(t, m) = E(t, m)
      BY <1>5, <2>2
    <3> QED
      BY <3>1 DEF Named, Holds
  <2> QED
    BY <2>1, <2>2
<1>13. Named'
  BY <1>9, <1>10, <1>11, <1>12 DEF Named, Holds
<1> QED
  BY <1>8, <1>13

LEMMA SoundCreate ==
    ASSUME TypeOK, TypeOK', Blank, Sound, past' = {},
           NEW d \in Ino, NEW n \in Name, NEW kind \in {"reg", "dir"}, Create(d, n, kind)
    PROVE  Sound'
<1>1. CASE FreeFileEntry(slot) = {}
  <2>1. Same
    BY <1>1 DEF Create, Same
  <2>2. counter <= counter'
    <3>1. counter' \in Ino /\ counter' > counter
      BY DEF Create, NextIno, Lowest
    <3> QED
      BY <3>1, Numbers DEF TypeOK
  <2>3. UNCHANGED <<inode, dentry>>
    BY <1>1 DEF Create
  <2> QED
    BY <2>1, <2>2, <2>3, TableKept, CachesKept DEF Sound
<1>2. CASE FreeFileEntry(slot) # {}
  <2>1. PICK i, s : Creates(d, n, kind, i, s)
    BY <1>2, CreateEffect
  <2> DEFINE p == inode[d]
  <2>2. /\ i \in Ino /\ inode[i] = NotCached /\ counter < i /\ i # RootIno /\ counter' = i
        /\ s \in Slot /\ slot[s] = FreeSlot
        /\ p \in Slot /\ slot[p].kind = "dir" /\ s # p
    BY <2>1 DEF Creates
  <2>3. past = {} /\ LoadPast(p) = {} /\ ~Full(Loaded(p).names)
    BY <2>1 DEF Creates
  <2>4. Loaded(p).names = slot[p].names /\ slot[p].names \in [Index -> DirEntry]
    BY <2>2, <2>3, LoadedKeeps, SlotParts DEF TypeOK
  <2>5. PICK k \in Index :
              /\ slot[p].names[k] = NoEntry
              /\ \A l \in Index : Add(Loaded(p).names, n, i)[l] =
                    IF l = k THEN [name |-> n, ino |-> i] ELSE slot[p].names[l]
    BY <2>3, <2>4, AddsOne
  <2>6. Adds(s, i, kind, p, k, n)
    <3> SUFFICES ASSUME NEW t \in Slot
                 PROVE  /\ slot'[t].ino = IF t = s THEN i ELSE slot[t].ino
                        /\ slot'[t].kind = IF t = s THEN kind ELSE slot[t].kind
                        /\ \A l \in Index : slot'[t].names[l] =
                              IF t = p /\ l = k THEN [name |-> n, ino |-> i]
                              ELSE slot[t].names[l]
      BY DEF Adds
    <3>1. CASE t = s
      <4>1. slot'[t] = [FreeSlot EXCEPT !.kind = kind, !.ino = i]
        BY <2>1, <3>1 DEF Creates
      <4>2. slot'[t].ino = i /\ slot'[t].kind = kind /\ slot'[t].names = NoNames
        BY <4>1 DEF FreeSlot
      <4> QED
        BY <2>2, <3>1, <4>2, FreeSlotParts
    <3>2. CASE t = p
      <4>1. slot'[t] = [Loaded(t) EXCEPT !.names = Add(Loaded(t).names, n, i)]
        BY <2>1, <2>2, <3>2 DEF Creates
      <4>2. /\ slot'[t].ino = slot[t].ino /\ slot'[t].kind = slot[t].kind
            /\ slot'[t].names = Add(Loaded(t).names, n, i)
        BY <2>2, <4>1, LoadedWith, NewNamesType
      <4> QED
        BY <2>2, <2>5, <3>2, <4>2
    <3>3. CASE t # s /\ t # p
      BY <2>1, <3>3 DEF Creates
    <3> QED
      BY <3>1, <3>2, <3>3
  <2>7. dentry[<<d, n>>] = Negative /\ Negative # Unknown
    BY DEF Create, Negative, Unknown
  <2>8. /\ d = RootIno \/ \E x \in Ino \X Name : dentry[x] = d
        /\ \A l \in Index : slot[p].names[l].name # n
    BY <2>7 DEF Sound, NamesMatch
  <2> HIDE DEF p
  <2>9. Numbered' /\ Named'
    BY <2>2, <2>5, <2>6, <2>8, TableGains DEF Sound
  <2>10. \A j \in Ino : inode'[j] = IF j = i THEN s ELSE inode[j]
    BY <2>1, <2>2 DEF Creates, TypeOK
  <2>11. \A j \in Ino : inode[j] # NotCached =>
            j # i /\ inode'[j] = inode[j] /\ inode[j] \in Slot /\ inode[j] # s
    BY <2>2, <2>10, FreeSlotParts, Numbers DEF Sound, InodesMatch
  <2>12. InodesMatch'
    <3>1. \A j \in Ino : inode'[j] # NotCached => inode'[j] \in Slot /\ slot'[inode'[j]].ino = j
      BY <2>2, <2>6, <2>10, <2>11 DEF Sound, InodesMatch, Adds
    <3>2. inode'[RootIno] # NotCached /\ slot'[inode'[RootIno]].kind = "dir"
      BY <2>6, <2>11, Numbers DEF Sound, InodesMatch, Adds
    <3> QED
      BY <3>1, <3>2 DEF InodesMatch
  <2>13. \A x \in Ino \X Name : dentry'[x] = IF x = <<d, n>> THEN i ELSE dentry[x]
    BY <2>1 DEF Creates, TypeOK
  <2>14. \A x \in Ino \X Name, e \in Ino : dentry[x] = e => dentry'[x] = e
    BY <2>7, <2>13, Numbers DEF Negative
  <2>15. NamesMatch'
    <3> SUFFICES ASSUME NEW e \in Ino, NEW m \in Name, dentry'[<<e, m>>] # Unknown
                 PROVE  /\ inode'[e] # NotCached
                        /\ slot'[inode'[e]].kind = "dir"
                        /\ e = RootIno \/ \E x \in Ino \X Name : dentry'[x] = e
                        /\ IF dentry'[<<e, m>>] = Negative
                           THEN \A l \in Index : slot'[inode'[e]].names[l].name # m
                           ELSE /\ inode'[dentry'[<<e, m>>]] # NotCached
                                /\ \E l \in Index : slot'[inode'[e]].names[l] =
                                      [name |-> m, ino |-> dentry'[<<e, m>>]]
      BY DEF NamesMatch
    <3>1. CASE e = d /\ m = n
      <4>1. dentry'[<<e, m>>] = i /\ i # Negative
        BY <2>2, <2>13, <3>1, Numbers DEF Negative
      <4>2. inode[d] = p /\ inode[d] # NotCached /\ inode'[d] = p
        BY <2>2, <2>11, Numbers DEF p, NotCached
      <4>3. slot'[p].kind = "dir" /\ slot'[p].names[k] = [name |-> n, ino |-> i]
        BY <2>2, <2>6 DEF Adds
      <4>4. inode'[i] # NotCached
        BY <2>2, <2>10, Numbers DEF NotCached
      <4> QED
        BY <2>8, <2>14, <3>1, <4>1, <4>2, <4>3, <4>4, Numbers DEF NotCached
    <3>2. CASE <<e, m>> # <<d, n>>
      <4>1. dentry'[<<e, m>>] = dentry[<<e, m>>] /\ dentry[<<e, m>>] # Unknown
        BY <2>13, <3>2
      <4>2. inode[e] # NotCached /\ slot[inode[e]].kind = "dir"
        BY <4>1 DEF Sound, NamesMatch
      <4>3. inode'[e] = inode[e] /\ inode[e] \in Slot /\ inode[e] # s /\ slot[inode[e]].ino = e
        BY <4>2, <2>11 DEF Sound, InodesMatch
      <4>4. slot'[inode[e]].kind = "dir"
        BY <2>6, <4>2, <4>3 DEF Adds
      <4>5. e = RootIno \/ \E x \in Ino \X Name : dentry'[x] = e
        <5>1. e = RootIno \/ \E x \in Ino \X Name : dentry[x] = e
          BY <4>1 DEF Sound, NamesMatch
        <5> QED
          BY <2>14, <5>1
      <4>6. \A l \in Index :
               /\ slot[inode[e]].names[l].name # m => slot'[inode[e]].names[l].name # m
               /\ slot[inode[e]].names[l].name = m =>
                     slot'[inode[e]].names[l] = slot[inode[e]].names[l]
        <5>1. CASE inode[e] = p
          <6>1. slot[p].ino = d
            BY <2>2, Numbers DEF Sound, InodesMatch, p, NotCached
          <6>2. m # n
            BY <3>2, <4>3, <5>1, <6>1
          <6>3. [name |-> n, ino |-> i].name = n /\ NoEntry.name # m
            BY FreeSlotParts
          <6> QED
            BY <2>2, <2>5, <2>6, <5>1, <6>2, <6>3 DEF Adds
        <5>2. CASE inode[e] # p
          BY <2>6, <4>3, <5>2 DEF Adds
        <5> QED
          BY <5>1, <5>2
      <4>7. CASE dentry[<<e, m>>] = Negative
        <5>1. \A l \in Index : slot[inode[e]].names[l].name # m
          BY <4>1, <4>7 DEF Sound, NamesMatch
        <5> QED
          BY <4>1, <4>2, <4>3, <4>4, <4>5, <4>6, <4>7, <5>1
      <4>8. CASE dentry[<<e, m>>] # Negative
        <5> DEFINE j == dentry[<<e, m>>]
        <5>1. inode[j] # NotCached
          BY <4>1, <4>8 DEF Sound, NamesMatch
        <5>2. PICK l \in Index : slot[inode[e]].names[l] = [name |-> m, ino |-> j]
          BY <4>1, <4>8 DEF Sound, NamesMatch
        <5>3. j \in Ino
          BY <4>1, <4>8 DEF TypeOK
        <5> HIDE DEF j
        <5>4. inode'[j] # NotCached
          BY <2>11, <5>1, <5>3
        <5>5. slot'[inode[e]].names[l] = [name |-> m, ino |-> j]
          BY <4>6, <5>2
        <5>6. dentry'[<<e, m>>] = j /\ j # Negative
          BY <4>1, <4>8 DEF j
        <5> QED
          BY <4>2, <4>3, <4>4, <4>5, <5>4, <5>5, <5>6
      <4> QED
        BY <4>7, <4>8
    <3> QED
      BY <3>1, <3>2
  <2> QED
    BY <2>9, <2>12, <2>15 DEF Sound
<1> QED
  BY <1>1, <1>2

\* What a removal changes in the table: slot s, and entry k of the list in p.
Removes(s, p, k) ==
    \A t \in Slot :
        /\ slot'[t].ino = IF t = s THEN 0 ELSE slot[t].ino
        /\ slot'[t].kind = IF t = s THEN "free" ELSE slot[t].kind
        /\ \A l \in Index : slot'[t].names[l] =
              IF t = p /\ l = k THEN NoEntry ELSE slot[t].names[l]

LEMMA TableLoses ==
    ASSUME TypeOK, Blank, Numbered, Named, counter' = counter,
           NEW i \in Ino, NEW s \in Live, slot[s].ino = i,
           \A l \in Index : slot[s].names[l] = NoEntry,
           NEW p \in Slot, p # s, NEW k \in Index, slot[p].names[k] # NoEntry,
           slot[p].names[k].ino = i, Removes(s, p, k)
    PROVE  Numbered' /\ Named'
<1> DEFINE E(t, l) == slot[t].names[l]
           F(t, l) == slot'[t].names[l]
<1>1. Live' = Live \ {s}
  BY DEF Live, Removes
<1>2. \A t \in Live' : t \in Live /\ t # s /\ slot'[t].ino = slot[t].ino
  BY <1>1 DEF Live, Removes
<1>3. Numbered'
  BY <1>2 DEF Numbered
<1>4. \A t \in Slot, l \in Index : F(t, l) = IF t = p /\ l = k THEN NoEntry ELSE E(t, l)
  BY DEF Removes
<1>5. \A t \in Slot, l \in Index : E(t, l) # NoEntry /\ E(t, l).ino = i => t = p /\ l = k
  BY DEF Named, Holds
<1>6. \A t \in Slot, l \in Index : F(t, l) # NoEntry =>
         /\ F(t, l) = E(t, l) /\ ~(t = p /\ l = k)
         /\ E(t, l).ino \in Ino /\ E(t, l).ino # i /\ E(t, l).name \in Name
  <2> SUFFICES ASSUME NEW t \in Slot, NEW l \in Index, F(t, l) # NoEntry
               PROVE  /\ F(t, l) = E(t, l) /\ ~(t = p /\ l = k)
                      /\ E(t, l).ino \in Ino /\ E(t, l).ino # i /\ E(t, l).name \in Name
    OBVIOUS
  <2>1. F(t, l) = E(t, l) /\ ~(t = p /\ l = k)
    BY <1>4
  <2>2. E(t, l).ino \in Ino /\ E(t, l).name \in Name
    <3>1. E(t, l) \in DirEntry /\ E(t, l) # NoEntry
      BY <2>1, Parts
    <3> HIDE DEF E
    <3> QED
      BY <3>1, EntryIs
  <2> QED
    BY <1>5, <2>1, <2>2
<1>7. \A t \in Slot, l \in Index : F(t, l) # NoEntry =>
         /\ slot'[t].kind = "dir"
         /\ F(t, l).ino # RootIno
         /\ \E u \in Live' : slot'[u].ino = F(t, l).ino
  <2> SUFFICES ASSUME NEW t \in Slot, NEW l \in Index, F(t, l) # NoEntry
               PROVE  /\ slot'[t].kind = "dir"
                      /\ F(t, l).ino # RootIno
                      /\ \E u \in Live' : slot'[u].ino = F(t, l).ino
    OBVIOUS
  <2>1. F(t, l) = E(t, l) /\ E(t, l).ino # i
    BY <1>6
  <2>2. slot[t].kind = "dir" /\ E(t, l).ino # RootIno /\ t # s
    BY <2>1 DEF Named, Holds
  <2>3. PICK u \in Live : slot[u].ino = E(t, l).ino
    BY <2>1 DEF Named, Holds
  <2>4. u \in Live'
    BY <1>1, <2>1, <2>3
  <2> QED
    BY <1>2, <2>1, <2>2, <2>3, <2>4 DEF Removes
<1>8. \A t \in Live' : slot'[t].ino # RootIno =>
          \E u \in Slot, l \in Index : F(u, l).ino = slot'[t].ino
  <2> SUFFICES ASSUME NEW t \in Live', slot'[t].ino # RootIno
               PROVE  \E u \in Slot, l \in Index : F(u, l).ino = slot'[t].ino
    OBVIOUS
  <2>1. t \in Live /\ t # s /\ slot'[t].ino = slot[t].ino
    BY <1>2
  <2>2. slot[t].ino # i
    BY <2>1 DEF Numbered
  <2>3. PICK u \in Slot, l \in Index : E(u, l).ino = slot[t].ino
    BY <2>1 DEF Named
  <2>4. ~(u = p /\ l = k)
    BY <2>2, <2>3
  <2> QED
    BY <1>4, <2>1, <2>3, <2>4
<1>9. \A t, u \in Slot, l, m \in Index :
          F(t, l) # NoEntry /\ F(t, l).ino = F(u, m).ino => t = u /\ l = m
  <2> SUFFICES ASSUME NEW t \in Slot, NEW u \in Slot, NEW l \in Index, NEW m \in Index,
                      F(t, l) # NoEntry, F(t, l).ino = F(u, m).ino
               PROVE  t = u /\ l = m
    OBVIOUS
  <2>1. F(t, l) = E(t, l) /\ E(t, l).ino \in Ino
    BY <1>6
  <2>2. F(u, m) = E(u, m)
    BY <1>4, <2>1, FreeSlotParts, Numbers
  <2> QED
    BY <2>1, <2>2 DEF Named, Holds
<1>10. \A t \in Slot, l, m \in Index :
          F(t, l) # NoEntry /\ F(t, l).name = F(t, m).name => l = m
  <2> SUFFICES ASSUME NEW t \in Slot, NEW l \in Index, NEW m \in Index,
                      F(t, l) # NoEntry, F(t, l).name = F(t, m).name
               PROVE  l = m
    OBVIOUS
  <2>1. F(t, l) = E(t, l) /\ E(t, l).name \in Name
    BY <1>6
  <2>2. F(t, m) = E(t, m)
    BY <1>4, <2>1, FreeSlotParts
  <2> QED
    BY <2>1, <2>2 DEF Named, Holds
<1>11. Named'
  BY <1>7, <1>8, <1>9, <1>10 DEF Named, Holds
<1> QED
  BY <1>3, <1>11

\* A removal in an ordinary history: file i and entry k of its directory go, with
\* all that was known of them.
Removal(d, n, i, k) ==
    /\ inode[i] \in Live /\ slot[inode[i]].ino = i
    /\ inode[d] \in Slot /\ slot[inode[d]].ino = d /\ slot[inode[d]].kind = "dir"
    /\ dentry[<<d, n>>] = i
    /\ \A l \in Index : slot[inode[i]].names[l] = NoEntry
    /\ slot[inode[d]].names[k] = [name |-> n, ino |-> i]
    /\ Removes(inode[i], inode[d], k)
    /\ counter' = counter
    /\ DropInode(i, d, n)
    /\ \A e \in Ino, m \in Name :
          dentry'[<<e, m>>] = IF e = d /\ m = n THEN Negative
                              ELSE IF e = i THEN Unknown ELSE dentry[<<e, m>>]

LEMMA RemovalEffect ==
    ASSUME TypeOK, Blank, Sound, past' = {},
           NEW d \in Ino, NEW n \in Name, Unlink(d, n) \/ Rmdir(d, n)
    PROVE  \E i \in Ino, k \in Index : Removal(d, n, i, k)
<1>1. PICK i \in Ino :
          /\ dentry[<<d, n>>] = i /\ inode[i] \in Slot
          /\ RemoveName(d, n, inode[i]) /\ DropInode(i, d, n)
          /\ \/ slot[inode[i]].kind = "reg" /\ dentry' = [dentry EXCEPT ![<<d, n>>] = Negative]
             \/ /\ slot[inode[i]].kind = "dir" /\ DirLooksEmpty(inode[i])
                /\ dentry' = [x \in Ino \X Name |->
                       CASE x = <<d, n>> -> Negative
                         [] x # <<d, n>> /\ x[1] = i -> Unknown
                         [] OTHER -> dentry[x]]
  BY DEF Unlink, Rmdir
<1> DEFINE s == inode[i]
           p == inode[d]
<1>2. Reached(d) /\ counter' = counter /\ past' = past \cup LoadPast(p)
  BY DEF Unlink, Rmdir
<1>3. i # Unknown /\ i # Negative /\ i # 0
  BY Numbers DEF Unknown, Negative
<1>4. \A j \in Ino : inode[j] \in Slot => slot[inode[j]].ino = j
  BY Numbers DEF Sound, InodesMatch, NotCached
<1>5. p \in Slot /\ slot[p].kind = "dir" /\ slot[p].ino = d
  BY <1>2, <1>4, ReachedType
<1>6. s \in Slot /\ slot[s].ino = i /\ s \in Live
  BY <1>1, <1>4 DEF Live
<1>7. PICK k \in Index : slot[p].names[k] = [name |-> n, ino |-> i]
  BY <1>1, <1>3 DEF Sound, NamesMatch
<1>8. slot[p].names[k] # NoEntry /\ slot[p].names[k].name = n /\ slot[p].names[k].ino = i
  BY <1>3, <1>7, FreeSlotParts
<1>9. past = {} /\ "blockless" \notin past
  BY <1>2
<1>10. \A l \in Index : slot[s].names[l] = NoEntry
  <2>1. CASE slot[s].kind = "reg"
    BY <1>6, <2>1 DEF Sound, Named, Holds
  <2>2. CASE slot[s].kind = "dir"
    BY <1>1, <1>6, <1>9, <2>2, FreeSlotParts DEF DirLooksEmpty, Blank, IsEmpty
  <2> QED
    BY <1>1, <2>1, <2>2
<1>11. s # p
  BY <1>8, <1>10
<1>12. \A l \in Index : slot[p].names[l].name = n <=> l = k
  BY <1>5, <1>8 DEF Sound, Named, Holds
<1>13. \A t \in Slot :
          slot'[t] = IF t = s THEN FreeSlot
                     ELSE IF t = p
                     THEN [Loaded(t) EXCEPT !.names = Remove(Loaded(t).names, n)]
                     ELSE slot[t]
  BY <1>1, <1>2, RemoveEffect
<1>14. Removes(s, p, k)
  <2> HIDE DEF s, p
  <2> SUFFICES ASSUME NEW t \in Slot
               PROVE  /\ slot'[t].ino = IF t = s THEN 0 ELSE slot[t].ino
                      /\ slot'[t].kind = IF t = s THEN "free" ELSE slot[t].kind
                      /\ \A l \in Index : slot'[t].names[l] =
                            IF t = p /\ l = k THEN NoEntry ELSE slot[t].names[l]
    BY DEF Removes
  <2>1. CASE t = s
    <3>1. /\ slot'[t].ino = 0 /\ slot'[t].kind = "free"
          /\ \A l \in Index : slot'[t].names[l] = NoEntry
      BY <1>13, <2>1, FreeSlotParts
    <3> QED
      BY <1>10, <1>11, <2>1, <3>1
  <2>2. CASE t = p
    <3>1. slot'[t] = [Loaded(t) EXCEPT !.names = Remove(Loaded(t).names, n)]
      BY <1>11, <1>13, <2>2
    <3>2. /\ slot'[t].ino = slot[t].ino /\ slot'[t].kind = slot[t].kind
          /\ slot'[t].names = Remove(Loaded(t).names, n)
      BY <3>1, LoadedWith, NewNamesType
    <3>3. Loaded(t).names = slot[t].names
      BY <1>9, LoadedKeeps
    <3>4. \A l \in Index : slot'[t].names[l] = IF l = k THEN NoEntry ELSE slot[t].names[l]
      BY <1>12, <2>2, <3>2, <3>3 DEF Remove
    <3> QED
      BY <1>11, <2>2, <3>2, <3>4
  <2>3. CASE t # s /\ t # p
    BY <1>13, <2>3
  <2> QED
    BY <2>1, <2>2, <2>3
<1>15. ASSUME NEW e \in Ino, NEW m \in Name
       PROVE  dentry'[<<e, m>>] = IF e = d /\ m = n THEN Negative
                                  ELSE IF e = i THEN Unknown ELSE dentry[<<e, m>>]
  <2>1. CASE slot[s].kind = "reg"
    <3>1. dentry' = [dentry EXCEPT ![<<d, n>>] = Negative]
      BY <1>1, <2>1
    <3>2. dentry'[<<e, m>>] = IF e = d /\ m = n THEN Negative ELSE dentry[<<e, m>>]
      BY <3>1 DEF TypeOK
    <3>3. e = i => dentry[<<e, m>>] = Unknown
      BY <2>1 DEF Sound, NamesMatch
    <3> QED
      BY <3>2, <3>3
  <2>2. CASE slot[s].kind = "dir"
    <3>1. dentry' = [x \in Ino \X Name |->
                       CASE x = <<d, n>> -> Negative
                         [] x # <<d, n>> /\ x[1] = i -> Unknown
                         [] OTHER -> dentry[x]]
      BY <1>1, <2>2
    <3> QED
      BY <3>1
  <2> QED
    BY <1>1, <2>1, <2>2
<1>16. /\ dentry[<<d, n>>] = i /\ counter' = counter /\ DropInode(i, d, n)
       /\ s \in Live /\ slot[s].ino = i
       /\ p \in Slot /\ slot[p].kind = "dir" /\ slot[p].ino = d
  BY <1>1, <1>2, <1>5, <1>6
<1>17. Removal(d, n, i, k)
  BY <1>7, <1>10, <1>14, <1>15, <1>16 DEF Removal
<1> QED
  BY <1>17

LEMMA SoundRemoval ==
    ASSUME TypeOK, TypeOK', Blank, Sound, past' = {},
           NEW d \in Ino, NEW n \in Name, Unlink(d, n) \/ Rmdir(d, n)
    PROVE  Sound'
<1> DEFINE p == inode[d]
<1>0. PICK i \in Ino, k \in Index : Removal(d, n, i, k)
  BY RemovalEffect
<1>1. /\ inode[i] \in Live /\ slot[inode[i]].ino = i /\ p \in Slot /\ slot[p].ino = d
      /\ slot[p].kind = "dir"
      /\ dentry[<<d, n>>] = i
      /\ \A l \in Index : slot[inode[i]].names[l] = NoEntry
      /\ slot[p].names[k] = [name |-> n, ino |-> i]
      /\ Removes(inode[i], p, k)
      /\ counter' = counter
      /\ DropInode(i, d, n)
      /\ \A e \in Ino, m \in Name :
            dentry'[<<e, m>>] = IF e = d /\ m = n THEN Negative
                                ELSE IF e = i THEN Unknown ELSE dentry[<<e, m>>]
  BY <1>0 DEF Removal
<1> DEFINE s == inode[i]
<1> HIDE DEF s, p
<1>2. /\ s \in Live /\ s \in Slot /\ slot[s].ino = i /\ p \in Slot /\ slot[p].ino = d
      /\ slot[p].kind = "dir" /\ slot[s].kind # "free"
      /\ \A l \in Index : slot[s].names[l] = NoEntry
      /\ Removes(s, p, k)
  BY <1>1 DEF s, Live
<1>3. /\ slot[p].names[k] # NoEntry /\ slot[p].names[k].name = n
      /\ slot[p].names[k].ino = i
  BY <1>1, FreeSlotParts, Numbers
<1>4. p # s
  BY <1>2, <1>3
<1>5. i # RootIno /\ d # i
  BY <1>2, <1>3, <1>4 DEF Sound, Named, Holds, p, s
<1>6. Numbered' /\ Named'
  BY <1>1, <1>2, <1>3, <1>4, TableLoses DEF Sound
<1>7. ASSUME NEW e \in Ino, NEW m \in Name, dentry[<<e, m>>] = i
      PROVE  e = d /\ m = n
  <2>1. dentry[<<e, m>>] # Unknown /\ dentry[<<e, m>>] # Negative
    BY <1>7, Numbers DEF Unknown, Negative
  <2>2. PICK l \in Index : slot[inode[e]].names[l] = [name |-> m, ino |-> i]
    BY <1>7, <2>1 DEF Sound, NamesMatch
  <2>3. inode[e] \in Slot /\ slot[inode[e]].ino = e
    BY <2>1 DEF Sound, NamesMatch, InodesMatch
  <2>4. slot[inode[e]].names[l].ino = i /\ slot[inode[e]].names[l].name = m
    BY <2>2
  <2>5. inode[e] = p /\ l = k
    BY <1>2, <1>3, <2>3, <2>4 DEF Sound, Named, Holds
  <2> QED
    BY <1>2, <1>3, <2>3, <2>4, <2>5
<1>8. \A j \in Ino : inode'[j] = IF j = i THEN NotCached ELSE inode[j]
  <2>1. ~ \E x \in (Ino \X Name) \ {<<d, n>>} : dentry[x] = i
    BY <1>7
  <2> QED
    BY <1>1, <2>1 DEF DropInode, TypeOK
<1>9. \A j \in Ino : j # i /\ inode[j] # NotCached =>
          inode'[j] = inode[j] /\ inode[j] \in Slot /\ slot[inode[j]].ino = j /\ inode[j] # s
  BY <1>2, <1>8 DEF Sound, InodesMatch
<1>10. InodesMatch'
  <2>1. \A j \in Ino : inode'[j] # NotCached => inode'[j] \in Slot /\ slot'[inode'[j]].ino = j
    BY <1>2, <1>8, <1>9 DEF Removes
  <2>2. inode[RootIno] # NotCached /\ slot[inode[RootIno]].kind = "dir"
    BY DEF Sound, InodesMatch
  <2>3. inode'[RootIno] = inode[RootIno] /\ inode[RootIno] \in Slot /\ inode[RootIno] # s
    BY <1>5, <1>9, <2>2, Numbers
  <2>4. inode'[RootIno] # NotCached /\ slot'[inode'[RootIno]].kind = "dir"
    BY <1>2, <2>2, <2>3 DEF Removes
  <2> QED
    BY <2>1, <2>4 DEF InodesMatch
<1>11. ASSUME NEW e \in Ino, e # i, e = RootIno \/ \E x \in Ino \X Name : dentry[x] = e
       PROVE  e = RootIno \/ \E x \in Ino \X Name : dentry'[x] = e
  <2> SUFFICES ASSUME NEW c \in Ino, NEW m \in Name, dentry[<<c, m>>] = e
               PROVE  dentry'[<<c, m>>] = e
    BY <1>11
  <2>1. e # Unknown /\ e # Negative
    BY Numbers DEF Unknown, Negative
  <2>2. c # i
    <3>1. SUFFICES ASSUME c = i PROVE FALSE
      OBVIOUS
    <3>2. PICK l \in Index : slot[s].names[l] = [name |-> m, ino |-> e]
      BY <2>1, <3>1 DEF Sound, NamesMatch, s
    <3>3. slot[s].names[l] # NoEntry
      BY <2>1, <3>2, FreeSlotParts DEF Negative
    <3> QED
      BY <1>2, <3>3
  <2>3. ~(c = d /\ m = n)
    BY <1>1, <1>11
  <2> QED
    BY <1>1, <2>2, <2>3
<1>12. ASSUME NEW e \in Ino, NEW m \in Name, dentry'[<<e, m>>] # Unknown
       PROVE  /\ inode'[e] # NotCached
              /\ slot'[inode'[e]].kind = "dir"
              /\ e = RootIno \/ \E x \in Ino \X Name : dentry'[x] = e
              /\ IF dentry'[<<e, m>>] = Negative
                 THEN \A l \in Index : slot'[inode'[e]].names[l].name # m
                 ELSE /\ inode'[dentry'[<<e, m>>]] # NotCached
                      /\ \E l \in Index : slot'[inode'[e]].names[l] =
                            [name |-> m, ino |-> dentry'[<<e, m>>]]
  <2>1. CASE e = d /\ m = n
    <3>1. dentry'[<<e, m>>] = Negative
      BY <1>1, <2>1
    <3>2. inode[d] = p /\ inode[d] # NotCached /\ inode'[d] = p
      BY <1>2, <1>5, <1>8, Numbers DEF p, NotCached
    <3>3. slot'[p].kind = "dir"
      BY <1>2, <1>4 DEF Removes
    <3>4. \A l \in Index : slot'[p].names[l].name # n
      <4>1. \A l \in Index : l # k => slot[p].names[l].name # n
        BY <1>2, <1>3 DEF Sound, Named, Holds
      <4>2. NoEntry.name # n
        BY FreeSlotParts
      <4> QED
        BY <1>2, <4>1, <4>2 DEF Removes
    <3>5. d = RootIno \/ \E x \in Ino \X Name : dentry[x] = d
      <4>1. dentry[<<d, n>>] # Unknown
        BY <1>1, Numbers DEF Unknown
      <4> QED
        BY <4>1 DEF Sound, NamesMatch
    <3>6. d = RootIno \/ \E x \in Ino \X Name : dentry'[x] = d
      BY <1>5, <1>11, <3>5
    <3> QED
      BY <2>1, <3>1, <3>2, <3>3, <3>4, <3>6
  <2>2. CASE ~(e = d /\ m = n)
    <3>1. e # i /\ dentry'[<<e, m>>] = dentry[<<e, m>>] /\ dentry[<<e, m>>] # Unknown
      BY <1>1, <1>12, <2>2
    <3>2. /\ inode[e] # NotCached /\ slot[inode[e]].kind = "dir"
          /\ e = RootIno \/ \E x \in Ino \X Name : dentry[x] = e
      BY <3>1 DEF Sound, NamesMatch
    <3>3. inode'[e] = inode[e] /\ inode[e] \in Slot /\ inode[e] # s
      BY <1>9, <3>1, <3>2
    <3>4. slot'[inode[e]].kind = "dir"
      BY <1>2, <3>2, <3>3 DEF Removes
    <3>5. e = RootIno \/ \E x \in Ino \X Name : dentry'[x] = e
      BY <1>11, <3>1, <3>2
    <3>6. CASE dentry[<<e, m>>] = Negative
      <4>1. \A l \in Index : slot[inode[e]].names[l].name # m
        BY <3>1, <3>6 DEF Sound, NamesMatch
      <4>2. NoEntry.name # m
        BY FreeSlotParts
      <4>3. \A l \in Index : slot'[inode[e]].names[l].name # m
        BY <1>2, <3>3, <4>1, <4>2 DEF Removes
      <4> QED
        BY <3>1, <3>2, <3>3, <3>4, <3>5, <3>6, <4>3
    <3>7. CASE dentry[<<e, m>>] # Negative
      <4> DEFINE j == dentry[<<e, m>>]
      <4>1. inode[j] # NotCached
        <5>1. NamesMatch
          BY DEF Sound
        <5> QED
          BY ZenonT(40), <3>1, <3>7, <5>1 DEF NamesMatch
      <4>2. PICK l \in Index : slot[inode[e]].names[l] = [name |-> m, ino |-> j]
        BY <3>1, <3>7 DEF Sound, NamesMatch
      <4>3. j \in Ino /\ j # i
        BY <1>7, <2>2, <3>1, <3>7 DEF TypeOK
      <4> HIDE DEF j
      <4>4. inode'[j] # NotCached
        BY <1>9, <4>1, <4>3
      <4>5. slot'[inode[e]].names[l] = [name |-> m, ino |-> j]
        <5>1. slot[inode[e]].names[l].ino = j
          BY <4>2
        <5>2. ~(inode[e] = p /\ l = k)
          BY <1>3, <4>3, <5>1
        <5> QED
          BY <1>2, <3>3, <4>2, <5>2 DEF Removes
      <4>6. dentry'[<<e, m>>] = j /\ j # Negative
        BY <3>1, <3>7 DEF j
      <4> QED
        BY <3>2, <3>3, <3>4, <3>5, <4>4, <4>5, <4>6
    <3> QED
      BY <3>6, <3>7
  <2> QED
    BY <2>1, <2>2
<1>13. NamesMatch'
  BY <1>12 DEF NamesMatch
<1> QED
  BY <1>6, <1>10, <1>13 DEF Sound

LEMMA NextDirInv ==
    ASSUME TypeOK, TypeOK', Blank, DirInv, [Next]_vars
    PROVE  DirInv'
<1> SUFFICES ASSUME past' = {} PROVE Sound'
  BY DEF DirInv, Ordinary, Sound
<1>1. past \subseteq past'
  <2>1. ASSUME NEW d \in Ino, NEW n \in Name, NEW kind \in {"reg", "dir"}, Create(d, n, kind)
        PROVE  past \subseteq past'
    BY <2>1 DEF Create
  <2>2. ASSUME NEW d \in Ino, NEW n \in Name,
               Lookup(d, n) \/ Unlink(d, n) \/ Rmdir(d, n) \/ RmdirRefused(d, n) \/ Forget(d, n)
        PROVE  past \subseteq past'
    BY <2>2 DEF Lookup, Unlink, Rmdir, RmdirRefused, Forget
  <2>3. ASSUME NEW d \in Ino, Readdir(d) \/ ReaddirUnread(d) \/ Evict(d)
        PROVE  past \subseteq past'
    BY <2>3 DEF Readdir, ReaddirUnread, Evict
  <2>4. ASSUME NEW restart \in BOOLEAN, Remount(restart) PROVE past \subseteq past'
    BY <2>4 DEF Remount
  <2> QED
    BY <2>1, <2>2, <2>3, <2>4 DEF Next, vars
<1>2. Sound /\ "blockless" \notin past
  BY <1>1 DEF DirInv, Ordinary, Sound
<1>3. CASE UNCHANGED vars
  <2>1. Same /\ counter <= counter'
    BY <1>3, Numbers DEF vars, Same, TypeOK
  <2> QED
    BY <1>2, <1>3, <2>1, TableKept, CachesKept DEF vars, Sound
<1>4. ASSUME NEW d \in Ino, NEW n \in Name, NEW kind \in {"reg", "dir"}, Create(d, n, kind)
      PROVE  Sound'
  BY <1>2, <1>4, SoundCreate
<1>5. ASSUME NEW d \in Ino, NEW n \in Name,
             Lookup(d, n) \/ RmdirRefused(d, n) \/ Forget(d, n)
      PROVE  Sound'
  BY <1>2, <1>5, SoundLookup, SoundQuiet, SoundForget
<1>6. ASSUME NEW d \in Ino, NEW n \in Name, Unlink(d, n) \/ Rmdir(d, n)
      PROVE  Sound'
  BY <1>2, <1>6, SoundRemoval
<1>7. ASSUME NEW d \in Ino, Readdir(d) \/ ReaddirUnread(d) \/ Evict(d) PROVE Sound'
  <2>1. ~ReaddirUnread(d)
    BY UnreadEffect
  <2> QED
    BY <1>2, <1>7, <2>1, SoundReaddir, SoundEvict
<1>8. ASSUME NEW restart \in BOOLEAN, Remount(restart) PROVE Sound'
  <2>1. ~restart /\ ~LittleEndian
    BY <1>8 DEF Remount
  <2> QED
    BY <1>2, <1>8, <2>1, SoundRemount
<1> QED
  BY <1>3, <1>4, <1>5, <1>6, <1>7, <1>8 DEF Next

\* Everything this module has shown of a reachable state.
LEMMA Reachable == Spec => [](TypeOK /\ Blank /\ DirInv)
<1>1. Init => TypeOK /\ Blank /\ DirInv
  BY InitTypeOK, InitBlank, InitSound DEF DirInv, Sound
<1>2. TypeOK /\ Blank /\ DirInv /\ [Next]_vars => (TypeOK /\ Blank /\ DirInv)'
  BY NextTypeOK, NextBlank, NextDirInv
<1> QED
  BY <1>1, <1>2, PTL DEF Spec

\* In an ordinary history names and slots correspond: numbers are different, each
\* file but the root is named by one entry, which is in a directory, an entry
\* names a file, and no directory has a name twice.
THEOREM NamesLeadToFiles == Spec => []NamesAreFiles
<1>1. TypeOK /\ Blank /\ DirInv => NamesAreFiles
  <2> SUFFICES ASSUME TypeOK, Blank, Sound
               PROVE  /\ \A s, t \in Live : s # t => slot[s].ino # slot[t].ino
                      /\ \A s \in Live : slot[s].ino # RootIno =>
                            Cardinality({e \in Entries : EntryAt(e).ino = slot[s].ino}) = 1
                      /\ \A e \in Entries :
                            /\ slot[e[1]].kind = "dir"
                            /\ \E s \in Live : slot[s].ino = EntryAt(e).ino
                            /\ \A f \in Entries :
                                  f # e /\ f[1] = e[1] => EntryAt(f).name # EntryAt(e).name
    BY DEF DirInv, Ordinary, Sound, NamesAreFiles
  <2>1. \A s, t \in Live : s # t => slot[s].ino # slot[t].ino
    BY DEF Sound, Numbered
  <2>2. ASSUME NEW s \in Live, slot[s].ino # RootIno
        PROVE  Cardinality({e \in Entries : EntryAt(e).ino = slot[s].ino}) = 1
    <3>1. PICK t \in Slot, k \in Index : slot[t].names[k].ino = slot[s].ino
      BY <2>2 DEF Sound, Named
    <3>2. slot[s].ino # 0
      BY Numbers DEF Sound, Numbered, RootIno
    <3>3. Holds(t, k)
      BY <3>1, <3>2, FreeSlotParts DEF Holds
    <3>4. <<t, k>> \in Entries /\ EntryAt(<<t, k>>).ino = slot[s].ino
      BY <3>1, <3>3 DEF Entries, EntryAt, Holds
    <3>5. \A u \in Slot, l \in Index :
             slot[u].names[l].ino = slot[s].ino => u = t /\ l = k
      BY <3>1, <3>3 DEF Sound, Named
    <3>6. \A e \in Entries : EntryAt(e).ino = slot[s].ino => e = <<t, k>>
      BY <3>5 DEF Entries, EntryAt
    <3>7. {e \in Entries : EntryAt(e).ino = slot[s].ino} = {<<t, k>>}
      BY <3>4, <3>6
    <3> QED
      BY <3>7, FS_Singleton
  <2>3. ASSUME NEW e \in Entries
        PROVE  /\ slot[e[1]].kind = "dir"
               /\ \E s \in Live : slot[s].ino = EntryAt(e).ino
               /\ \A f \in Entries :
                     f # e /\ f[1] = e[1] => EntryAt(f).name # EntryAt(e).name
    <3>1. \A f \in Entries : /\ f[1] \in Slot /\ f[2] \in Index /\ f = <<f[1], f[2]>>
                            /\ Holds(f[1], f[2]) /\ EntryAt(f) = slot[f[1]].names[f[2]]
      BY DEF Entries, EntryAt, Holds
    <3>2. slot[e[1]].kind = "dir" /\ \E s \in Live : slot[s].ino = EntryAt(e).ino
      BY <3>1 DEF Sound, Named
    <3>3. ASSUME NEW f \in Entries, f # e, f[1] = e[1]
          PROVE  EntryAt(f).name # EntryAt(e).name
      <4>1. f[2] # e[2]
        BY <3>1, <3>3
      <4> QED
        BY <3>1, <3>3, <4>1 DEF Sound, Named
    <3> QED
      BY <3>2, <3>3
  <2> QED
    BY <2>1, <2>2, <2>3
<1> QED
  BY <1>1, Reachable, PTL

\* A name the list has once is found, with its number.
LEMMA FindOnly ==
    ASSUME NEW names, NEW n, NEW k \in Index, names[k].name = n,
           \A l \in Index : names[l].name = n => l = k
    PROVE  Find(names, n) = {names[k].ino}
<1>1. {j \in Index : names[j].name = n} = {k}
  OBVIOUS
<1>2. Lowest({j \in Index : names[j].name = n}) = {k}
  BY <1>1, LowestOfOne, Numbers
<1> QED
  BY <1>2 DEF Find

\* In an ordinary history what the kernel has cached agrees with the file system:
\* a cached name is found, or not found, as it is on storage, and leads to the
\* inode of the slot with its number.
THEOREM CachesStayCurrent == Spec => []CachesAreCurrent
<1>1. TypeOK /\ Blank /\ DirInv => CachesAreCurrent
  <2> SUFFICES ASSUME TypeOK, Blank, Sound, NEW d \in Ino, NEW n \in Name,
                      dentry[<<d, n>>] # Unknown
               PROVE  /\ inode[d] \in Slot /\ slot[inode[d]].ino = d
                      /\ IF dentry[<<d, n>>] = Negative
                         THEN Find(slot[inode[d]].names, n) = {}
                         ELSE LET i == dentry[<<d, n>>]
                              IN /\ Find(slot[inode[d]].names, n) = {i}
                                 /\ inode[i] \in Slot /\ slot[inode[i]].ino = i
    BY DEF DirInv, Ordinary, Sound, CachesAreCurrent
  <2> DEFINE i == dentry[<<d, n>>]
             p == inode[d]
  <2>1. p \in Slot /\ slot[p].ino = d
    BY DEF Sound, NamesMatch, InodesMatch
  <2>2. CASE i = Negative
    <3>1. \A k \in Index : slot[p].names[k].name # n
      BY <2>2 DEF Sound, NamesMatch
    <3> HIDE DEF i, p
    <3>2. Find(slot[p].names, n) = {}
      BY <3>1 DEF Find, Lowest
    <3> QED
      BY <2>1, <2>2, <3>2 DEF i, p
  <2>3. CASE i # Negative
    <3>1. PICK k \in Index : slot[p].names[k] = [name |-> n, ino |-> i]
      BY <2>3 DEF Sound, NamesMatch
    <3>2. inode[i] # NotCached /\ i \in Ino
      <4>1. NamesMatch
        BY DEF Sound
      <4>2. i \in Ino
        BY <2>3 DEF TypeOK
      <4> QED
        BY ZenonT(40), <2>3, <4>1, <4>2 DEF NamesMatch
    <3>3. inode[i] \in Slot /\ slot[inode[i]].ino = i
      BY <3>2 DEF Sound, InodesMatch
    <3> HIDE DEF i, p
    <3>4. slot[p].names[k].name = n /\ slot[p].names[k].ino = i
      BY <3>1
    <3>5. Holds(p, k)
      BY <3>2, <3>4, FreeSlotParts, Numbers DEF Holds
    <3>6. \A l \in Index : slot[p].names[l].name = n => l = k
      BY <2>1, <3>4, <3>5 DEF Sound, Named
    <3>7. Find(slot[p].names, n) = {i}
      BY <3>4, <3>6, FindOnly
    <3> QED
      BY <2>1, <2>3, <3>3, <3>7 DEF i, p
  <2> QED
    BY <2>2, <2>3
<1> QED
  BY <1>1, Reachable, PTL

-----------------------------------------------------------------------------
(* Names survive a remount.                                                  *)

\* No entry of a name list leads to the root.
NoRoot(names) == \A k \in Index : names[k].ino # RootIno

\* On machines that read numbers as they were written, in every history, also
\* where directories overflow or numbers are handed out twice: an inode is a slot
\* with its number, and the slot of the root, which is always cached, is the only
\* one with number 1 because no name ever leads to it.
Rooted ==
    /\ inode[RootIno] \in Slot
    /\ \A i \in Ino : inode[i] \in Slot => slot[inode[i]].ino = i
    /\ \A s \in Slot : slot[s].ino = RootIno => s = inode[RootIno]
    /\ \A s \in Slot : NoRoot(slot[s].names)
    /\ \A x \in Ino \X Name : dentry[x] # RootIno

LEMMA NoRootKept ==
    ASSUME NEW names, NoRoot(names), NEW n
    PROVE  /\ NoRoot(NoNames)
           /\ NoRoot(Remove(names, n))
           /\ \A i : i # RootIno => NoRoot(Add(names, n, i))
BY FreeSlotParts DEF NoRoot, Remove, Add, NoNames, RootIno

LEMMA LoadedNoRoot ==
    ASSUME TypeOK, Rooted, NEW s \in Slot
    PROVE  Loaded(s).ino = slot[s].ino /\ NoRoot(Loaded(s).names)
BY LoadedType, NoRootKept DEF Rooted

\* A step that gives no slot another number and caches only what is there.
LEMMA RootedStep ==
    ASSUME Rooted,
           \A s \in Slot : slot'[s].ino = slot[s].ino /\ NoRoot(slot'[s].names),
           \A i \in Ino : inode'[i] \in Slot =>
               inode'[i] = inode[i] \/ slot[inode'[i]].ino = i,
           inode'[RootIno] = inode[RootIno],
           \A x \in Ino \X Name : dentry'[x] # RootIno
    PROVE  Rooted'
BY DEF Rooted

LEMMA RootedCreate ==
    ASSUME TypeOK, Blank, Rooted, NEW d \in Ino, NEW n \in Name,
           NEW kind \in {"reg", "dir"}, Create(d, n, kind)
    PROVE  Rooted'
<1>1. CASE FreeFileEntry(slot) = {}
  BY <1>1 DEF Create, Rooted
<1>2. CASE FreeFileEntry(slot) # {}
  <2>1. PICK i, s : Creates(d, n, kind, i, s)
    BY <1>2, CreateEffect
  <2> DEFINE e == [FreeSlot EXCEPT !.kind = kind, !.ino = i]
  <2>2. /\ i \in Ino /\ i # RootIno /\ s \in Slot /\ slot[s].ino = 0
        /\ inode[d] \in Slot /\ s # inode[d]
        /\ inode' = [inode EXCEPT ![i] = s]
        /\ dentry' = [dentry EXCEPT ![<<d, n>>] = i]
    BY <2>1, FreeSlotParts DEF Creates
  <2>3. slot'[s] = e /\ e.ino = i /\ e.names = NoNames
    BY <2>1, <2>2 DEF Creates, FreeSlot
  <2> HIDE DEF e
  <2>4. ASSUME NEW t \in Slot, t # s
        PROVE  slot'[t].ino = slot[t].ino /\ NoRoot(slot'[t].names)
    <3>1. CASE t = inode[d]
      <4> DEFINE names == Add(Loaded(t).names, n, i)
      <4>1. slot'[t] = [Loaded(t) EXCEPT !.names = names]
        BY <2>1, <2>4, <3>1 DEF Creates
      <4>2. names \in [Index -> DirEntry] /\ NoRoot(names)
        BY <2>2, LoadedNoRoot, NoRootKept, NewNamesType
      <4> HIDE DEF names
      <4> QED
        BY <4>1, <4>2, LoadedWith
    <3>2. CASE t # inode[d]
      <4>1. slot'[t] = slot[t]
        BY <2>1, <2>4, <3>2 DEF Creates
      <4> QED
        BY <4>1 DEF Rooted
    <3> QED
      BY <3>1, <3>2
  <2>5. NoRoot(slot'[s].names)
    BY <2>3, NoRootKept DEF Rooted
  <2>6. inode'[i] = s /\ \A j \in Ino : j # i => inode'[j] = inode[j]
    BY <2>2 DEF TypeOK
  <2>7. \A j \in Ino : inode[j] \in Slot => inode[j] # s
    BY <2>2, Numbers DEF Rooted
  <2>8. \A j \in Ino : inode'[j] \in Slot => slot'[inode'[j]].ino = j
    BY <2>3, <2>4, <2>6, <2>7 DEF Rooted
  <2>9. inode'[RootIno] \in Slot
        /\ \A t \in Slot : slot'[t].ino = RootIno => t = inode'[RootIno]
    BY <2>2, <2>3, <2>4, <2>6, Numbers DEF Rooted
  <2>10. \A x \in Ino \X Name : dentry'[x] # RootIno
    BY <2>2 DEF Rooted, TypeOK
  <2>11. \A t \in Slot : NoRoot(slot'[t].names)
    BY <2>4, <2>5
  <2> QED
    BY <2>8, <2>9, <2>10, <2>11 DEF Rooted
<1> QED
  BY <1>1, <1>2

LEMMA FoundIsNamed ==
    ASSUME NEW names, NoRoot(names), NEW n
    PROVE  RootIno \notin Find(names, n)
BY DEF Find, Lowest, NoRoot

LEMMA RootedLookUps ==
    ASSUME TypeOK, Rooted, NEW d \in Ino, Readdir(d) \/ \E n \in Name : Lookup(d, n)
    PROVE  Rooted'
<1>1. /\ inode[d] \in Slot
      /\ slot' = [slot EXCEPT ![inode[d]] = Loaded(inode[d])]
  BY ReachedType DEF Readdir, Lookup
<1>2. \A s \in Slot : slot'[s].ino = slot[s].ino /\ NoRoot(slot'[s].names)
  BY <1>1, LoadedNoRoot DEF TypeOK, Rooted
<1>3. \A i \in Ino : SlotOfIno(slot, i) # {} =>
          \/ IGet(i) = inode[i]
          \/ inode[i] = NotCached /\ slot[IGet(i)].ino = i
  BY IGetType, SlotOfInoType
<1>4. inode[RootIno] # NotCached
  BY Numbers DEF Rooted, NotCached
<1>5. CASE Readdir(d)
  <2>1. \A i \in Ino : \/ inode'[i] = inode[i]
                       \/ /\ inode[i] = NotCached /\ SlotOfIno(slot, i) # {}
                          /\ inode'[i] = IGet(i)
    BY <1>5 DEF Readdir
  <2>2. \A i \in Ino : \/ inode'[i] = inode[i]
                       \/ inode[i] = NotCached /\ slot[inode'[i]].ino = i
    BY <1>3, <2>1
  <2>3. inode'[RootIno] = inode[RootIno] /\ dentry' = dentry
    BY <1>4, <1>5, <2>2, Numbers DEF Readdir
  <2> QED
    BY <1>2, <2>2, <2>3, RootedStep DEF Rooted
<1>6. ASSUME NEW n \in Name, Lookup(d, n)
      PROVE  Rooted'
  <2>1. CASE dentry' = [dentry EXCEPT ![<<d, n>>] = Negative] /\ UNCHANGED inode
    <3>1. \A x \in Ino \X Name : dentry'[x] # RootIno
      BY <2>1 DEF Rooted, TypeOK, Negative, RootIno
    <3> QED
      BY <1>2, <2>1, <3>1, RootedStep
  <2>2. ASSUME NEW i \in Find(Loaded(inode[d]).names, n), SlotOfIno(slot, i) # {},
               inode' = [inode EXCEPT ![i] = IGet(i)],
               dentry' = [x \in Ino \X Name |->
                       IF x = <<d, n>> THEN i
                       ELSE IF dentry[x] = i /\ IsDirInode(IGet(i)) THEN Unknown
                       ELSE dentry[x]]
        PROVE  Rooted'
    <3>1. i \in Ino
      BY <1>1, <2>2, FindType, LoadedType, SlotParts
    <3>2. i # RootIno
      BY <1>1, <2>2, LoadedNoRoot, FoundIsNamed
    <3>3. \A x \in Ino \X Name : dentry'[x] # RootIno
      BY <2>2, <3>2 DEF Rooted, Unknown, RootIno
    <3>4. \A j \in Ino : j # i => inode'[j] = inode[j]
      BY <2>2 DEF TypeOK
    <3>5. inode'[i] = inode[i] \/ slot[inode'[i]].ino = i
      BY <1>3, <2>2, <3>1 DEF TypeOK
    <3> QED
      BY <1>2, <3>2, <3>3, <3>4, <3>5, Numbers, RootedStep
  <2> QED
    BY <1>6, <2>1, <2>2 DEF Lookup
<1> QED
  BY <1>5, <1>6

LEMMA RootedUnread ==
    ASSUME TypeOK, Rooted, NEW d \in Ino, ReaddirUnread(d)
    PROVE  Rooted'
<1>1. \A s \in Slot : slot'[s].ino = slot[s].ino /\ NoRoot(slot'[s].names)
  <2>1. NoRoot(NoNames)
    BY FreeSlotParts DEF NoRoot, RootIno
  <2> QED
    BY <2>1, UnreadEffect DEF Rooted
<1>2. inode' = inode /\ dentry' = dentry
  BY UnreadEffect
<1> QED
  BY <1>1, <1>2, RootedStep DEF Rooted

LEMMA RootedRemovals ==
    ASSUME TypeOK, Rooted, NEW d \in Ino, NEW n \in Name, Unlink(d, n) \/ Rmdir(d, n)
    PROVE  Rooted'
<1>1. PICK i \in {dentry[<<d, n>>]} \cap Ino :
        /\ inode[i] \in Slot /\ RemoveName(d, n, inode[i]) /\ DropInode(i, d, n)
  BY DEF Unlink, Rmdir
<1>2. i \in Ino /\ i # RootIno
  BY <1>1 DEF Rooted
<1>3. Reached(d)
  BY DEF Unlink, Rmdir
<1>4. /\ inode[d] \in Slot
      /\ \A t \in Slot :
            slot'[t] = IF t = inode[i] THEN FreeSlot
                       ELSE IF t = inode[d]
                       THEN [Loaded(t) EXCEPT !.names = Remove(Loaded(t).names, n)]
                       ELSE slot[t]
  BY <1>1, <1>2, <1>3, RemoveEffect
<1>5. ASSUME NEW t \in Slot, t # inode[i]
      PROVE  slot'[t].ino = slot[t].ino /\ NoRoot(slot'[t].names)
  <2>1. CASE t = inode[d]
    <3> DEFINE names == Remove(Loaded(t).names, n)
    <3>1. slot'[t] = [Loaded(t) EXCEPT !.names = names]
      BY <1>4, <1>5, <2>1
    <3>2. names \in [Index -> DirEntry] /\ NoRoot(names)
      BY LoadedNoRoot, NoRootKept, NewNamesType
    <3> HIDE DEF names
    <3> QED
      BY <3>1, <3>2, LoadedWith
  <2>2. CASE t # inode[d]
    <3>1. slot'[t] = slot[t]
      BY <1>4, <1>5, <2>2
    <3> QED
      BY <3>1 DEF Rooted
  <2> QED
    BY <2>1, <2>2
<1>6. slot'[inode[i]].ino = 0 /\ NoRoot(slot'[inode[i]].names)
  <2>1. slot'[inode[i]] = FreeSlot
    BY <1>1, <1>4
  <2> QED
    BY <2>1, FreeSlotParts, NoRootKept DEF Rooted
<1>7. inode'[i] \in {Detached, NotCached} /\ \A j \in Ino : j # i => inode'[j] = inode[j]
  BY <1>1, <1>2 DEF DropInode, TypeOK
<1>8. inode'[i] \notin Slot
  BY <1>7, Numbers DEF Detached, NotCached
<1>9. \A j \in Ino : j # i /\ inode[j] \in Slot => inode[j] # inode[i]
  BY <1>1, <1>2 DEF Rooted
<1>10. \A j \in Ino : inode'[j] \in Slot => slot'[inode'[j]].ino = j
  BY <1>5, <1>7, <1>8, <1>9 DEF Rooted
<1>11. inode'[RootIno] \in Slot
       /\ \A t \in Slot : slot'[t].ino = RootIno => t = inode'[RootIno]
  BY <1>2, <1>5, <1>6, <1>7, Numbers DEF Rooted
<1>12. \A x \in Ino \X Name : dentry'[x] # RootIno
  <2>1. RootIno # Negative /\ RootIno # Unknown
    BY DEF RootIno, Negative, Unknown
  <2>2. \A x \in Ino \X Name : dentry'[x] \in {Negative, Unknown, dentry[x]}
    BY DEF Unlink, Rmdir, TypeOK
  <2> QED
    BY <2>1, <2>2 DEF Rooted
<1>13. \A t \in Slot : NoRoot(slot'[t].names)
  BY <1>5, <1>6
<1> QED
  BY <1>10, <1>11, <1>12, <1>13 DEF Rooted

LEMMA RootedQuiet ==
    ASSUME TypeOK, Rooted, NEW d \in Ino,
           Evict(d) \/ \E n \in Name : RmdirRefused(d, n) \/ Forget(d, n)
    PROVE  Rooted'
<1>0. RootIno # Unknown /\ NotCached \notin Slot
  BY Numbers DEF RootIno, Unknown, NotCached
<1>1. CASE Evict(d)
  <2>1. /\ slot' = slot /\ dentry' = dentry /\ inode' = [inode EXCEPT ![d] = NotCached]
        /\ d # RootIno
    BY <1>1 DEF Evict
  <2>2. /\ \A i \in Ino : inode'[i] \in Slot => inode'[i] = inode[i]
        /\ inode'[RootIno] = inode[RootIno]
    BY <1>0, <2>1, Numbers DEF TypeOK
  <2> QED
    BY <2>1, <2>2, RootedStep DEF Rooted
<1>2. ASSUME NEW n \in Name, RmdirRefused(d, n) PROVE Rooted'
  <2>1. PICK i \in Ino : /\ inode[i] \in Slot
                         /\ slot' = [slot EXCEPT ![inode[i]].loaded = TRUE]
    BY <1>2 DEF RmdirRefused
  <2>2. \A e \in SlotEntry : LET f == [e EXCEPT !.loaded = TRUE]
                             IN f.ino = e.ino /\ f.names = e.names
    BY DEF SlotEntry
  <2>3. \A s \in Slot : slot'[s].ino = slot[s].ino /\ slot'[s].names = slot[s].names
    BY <2>1, <2>2 DEF TypeOK
  <2> QED
    BY <1>2, <2>3, RootedStep DEF RmdirRefused, Rooted
<1>3. ASSUME NEW n \in Name, Forget(d, n) PROVE Rooted'
  <2>1. \A x \in Ino \X Name : dentry'[x] # RootIno
    BY <1>0, <1>3 DEF Forget, Rooted, TypeOK
  <2> QED
    BY <1>3, <2>1, RootedStep DEF Forget, Rooted
<1> QED
  BY <1>1, <1>2, <1>3

-----------------------------------------------------------------------------
\* What a mount reads of a table that has a root.
LEMMA RemountEffect ==
    ASSUME TypeOK, Rooted, ~LittleEndian, NEW restart \in BOOLEAN, Remount(restart)
    PROVE  /\ \A s \in Slot : /\ slot'[s].kind = slot[s].kind
                              /\ slot'[s].ino = slot[s].ino
                              /\ slot'[s].names = IF slot[s].block = 0 THEN NoNames
                                                  ELSE slot[s].names
           /\ inode'[RootIno] = inode[RootIno]
           /\ \A i \in Ino : i # RootIno => inode'[i] = NotCached
           /\ \A x \in Ino \X Name : dentry'[x] = Unknown
<1> DEFINE root == inode[RootIno]
<1>1. \A s \in Slot : LoadTable[s].ino = slot[s].ino
  BY LoadTableType DEF LoadIno
<1>2. {s \in Slot : LoadTable[s].ino = RootIno} = {root}
  BY <1>1, Numbers DEF Rooted
<1>3. SlotOfIno(LoadTable, RootIno) = {root}
  <2>1. root \in Nat
    BY Numbers DEF Rooted
  <2> QED
    BY <1>2, <2>1, LowestOfOne DEF SlotOfIno
<1>4. RootSlot(LoadTable) = {root}
  BY <1>3 DEF RootSlot
<1>5. \A s \in Slot : slot'[s] = LoadTable[s]
  BY <1>2, <1>4 DEF Remount, WithRoot
<1>6. inode'[RootIno] = root /\ \A i \in Ino : i # RootIno => inode'[i] = NotCached
  <2>1. (CHOOSE s \in {root} : TRUE) = root
    OBVIOUS
  <2> HIDE DEF root
  <2> QED
    BY <1>4, <2>1, Numbers DEF Remount, MountedInodes
<1>7. \A x \in Ino \X Name : dentry'[x] = Unknown
  BY DEF Remount, NothingKnown
<1> QED
  BY <1>1, <1>5, <1>6, <1>7, LoadTableType

LEMMA RootedRemount ==
    ASSUME TypeOK, Rooted, ~LittleEndian, NEW restart \in BOOLEAN, Remount(restart)
    PROVE  Rooted'
<1>1. /\ \A s \in Slot : slot'[s].ino = slot[s].ino
      /\ \A s \in Slot : slot'[s].names \in {NoNames, slot[s].names}
      /\ inode'[RootIno] = inode[RootIno]
      /\ \A i \in Ino : i # RootIno => inode'[i] = NotCached
      /\ \A x \in Ino \X Name : dentry'[x] = Unknown
  BY RemountEffect
<1>2. \A s \in Slot : NoRoot(slot'[s].names)
  BY <1>1, NoRootKept DEF Rooted
<1>3. NotCached \notin Slot /\ RootIno # Unknown
  BY Numbers DEF NotCached, RootIno, Unknown
<1> QED
  BY <1>1, <1>2, <1>3, RootedStep

LEMMA InitRooted == Init => Rooted
<1> SUFFICES ASSUME Init PROVE Rooted
  OBVIOUS
<1> DEFINE table == [s \in Slot |-> FreeSlot]
<1>1. \A s \in Slot : table[s].ino = 0 /\ table[s].kind = "free" /\ table[s].names = NoNames
  BY FreeSlotParts
<1>2. SlotOfIno(table, RootIno) = {}
  BY <1>1 DEF SlotOfIno, Lowest, RootIno
<1>3. RootSlot(table) = {1}
  <2>1. {s \in Slot : table[s].kind = "free"} = Slot
    BY <1>1
  <2>2. \A s \in Slot : 1 <= s /\ s \in Nat
    <3>1. MaxFileCount \in Nat
      BY DirectoryAssumption, Zenon
    <3> QED
      BY <3>1 DEF Slot
  <2>3. Lowest(Slot) = {1}
    <3>1. 1 \in Lowest(Slot)
      BY <2>2, Numbers DEF Lowest
    <3> QED
      BY <3>1, LowestIsOne, Numbers
  <2> QED
    BY <1>2, <2>1, <2>3 DEF RootSlot, FreeFileEntry
<1>4. \A s \in Slot : slot[s] = IF s = 1 THEN [table[s] EXCEPT !.kind = "dir", !.ino = RootIno]
                                ELSE table[s]
  <2>1. \A s \in Slot : table[s].ino # RootIno
    BY <1>1 DEF RootIno
  <2> HIDE DEF table
  <2> QED
    BY <1>3, <2>1 DEF Init, WithRoot, table
<1>5. \A s \in Slot : /\ slot[s].ino = IF s = 1 THEN RootIno ELSE 0
                      /\ slot[s].names = NoNames
  <2> DEFINE e == [FreeSlot EXCEPT !.kind = "dir", !.ino = RootIno]
  <2>1. \A s \in Slot : slot[s] = IF s = 1 THEN e ELSE FreeSlot
    BY <1>4
  <2>2. e.ino = RootIno /\ e.names = NoNames
    BY DEF FreeSlot
  <2> HIDE DEF e, table
  <2> QED
    BY <2>1, <2>2, FreeSlotParts
<1>6. \A i \in Ino : inode[i] = IF i = RootIno THEN 1 ELSE NotCached
  <2>1. (CHOOSE s \in {1} : TRUE) = 1
    OBVIOUS
  <2> HIDE DEF table
  <2> QED
    BY <1>3, <2>1 DEF Init, MountedInodes, table
<1>7. \A x \in Ino \X Name : dentry[x] = Unknown
  BY DEF Init, NothingKnown
<1>8. NoRoot(NoNames)
  BY FreeSlotParts DEF NoRoot, NoNames, RootIno
<1>9. NotCached \notin Slot /\ RootIno # Unknown /\ RootIno # 0
  BY Numbers DEF NotCached, RootIno, Unknown
<1> HIDE DEF table
<1> QED
  BY <1>5, <1>6, <1>7, <1>8, <1>9, Numbers DEF Rooted

LEMMA NextRooted ==
    ASSUME TypeOK, Blank, Rooted, ~LittleEndian, [Next]_vars
    PROVE  Rooted'
<1>1. CASE UNCHANGED vars
  BY <1>1 DEF vars, Rooted
<1>2. ASSUME NEW d \in Ino, NEW n \in Name, NEW kind \in {"reg", "dir"}, Create(d, n, kind)
      PROVE  Rooted'
  BY <1>2, RootedCreate
<1>3. ASSUME NEW d \in Ino, NEW n \in Name,
             Lookup(d, n) \/ Unlink(d, n) \/ Rmdir(d, n) \/ RmdirRefused(d, n) \/ Forget(d, n)
      PROVE  Rooted'
  BY <1>3, RootedLookUps, RootedRemovals, RootedQuiet
<1>4. ASSUME NEW d \in Ino, Readdir(d) \/ ReaddirUnread(d) \/ Evict(d) PROVE Rooted'
  BY <1>4, RootedLookUps, RootedUnread, RootedQuiet
<1>5. ASSUME NEW restart \in BOOLEAN, Remount(restart) PROVE Rooted'
  BY <1>5, RootedRemount
<1> QED
  BY <1>1, <1>2, <1>3, <1>4, <1>5 DEF Next

\* The walk from the root depends on nothing but kinds, numbers, names and the
\* slot of the root.
LEMMA SameWalk ==
    ASSUME \A s \in Slot : /\ slot'[s].kind = slot[s].kind
                           /\ slot'[s].ino = slot[s].ino
                           /\ slot'[s].names = slot[s].names,
           inode'[RootIno] = inode[RootIno]
    PROVE  Walk' = Walk
<1>1. \A i : SlotOfIno(slot', i) = SlotOfIno(slot, i)
  BY DEF SlotOfIno
<1>2. Edges' = Edges
  BY <1>1 DEF Edges
<1> QED
  BY <1>2 DEF Walk, Closed

\* On a machine that reads file numbers as they were written, in every history
\* without a directory that had no block: what an unmount and a mount do to the
\* table leaves every name on the way from the root, and what it leads to, also
\* where directories overflowed and numbers were handed out twice.  (On the
\* others the property fails.)
THEOREM NamesSurviveOnBigEndian ==
    ASSUME ~LittleEndian
    PROVE  Spec => NamesSurviveRemount
<1> DEFINE Survive == \A restart \in BOOLEAN :
          Remount(restart) /\ "blockless" \notin past => Walk' = Walk
<1>1. TypeOK /\ Blank /\ Rooted /\ [Next]_vars => Survive
  <2> SUFFICES ASSUME TypeOK, Blank, Rooted, NEW restart \in BOOLEAN, Remount(restart),
                      "blockless" \notin past
               PROVE  Walk' = Walk
    OBVIOUS
  <2>1. \A s \in Slot : /\ slot'[s].kind = slot[s].kind
                        /\ slot'[s].ino = slot[s].ino
                        /\ slot'[s].names = slot[s].names
    BY RemountEffect DEF Blank
  <2>2. inode'[RootIno] = inode[RootIno]
    BY RemountEffect
  <2> QED
    BY <2>1, <2>2, SameWalk
<1>2. Init => TypeOK /\ Blank /\ Rooted
  BY InitTypeOK, InitBlank, InitRooted
<1>3. TypeOK /\ Blank /\ Rooted /\ [Next]_vars => (TypeOK /\ Blank /\ Rooted)'
  BY NextTypeOK, NextBlank, NextRooted
<1>4. NamesSurviveRemount <=> [][Survive]_vars
  BY DEF NamesSurviveRemount
<1> HIDE DEF Survive
<1> QED
  BY <1>1, <1>2, <1>3, <1>4, PTL DEF Spec
=============================================================================

-------------------------- MODULE SyncDisk_proofs ---------------------------
(***************************************************************************)
(* Proofs about SyncDisk, for every number of slots and blocks, every size *)
(* of the sync's buffer and every number of calls, syncs and crashes.      *)
(***************************************************************************)
EXTENDS SyncDisk, Extents_proofs

-----------------------------------------------------------------------------
(* The parts of the state have their types.                                *)

Flaw == {"torn", "disturbed", "write failed", "residue", "heap", "spilt", "dropped",
         "list overwritten", "list unsaved", "list freed", "names overwritten",
         "names unread", "names unsaved"}

\* Inside the storage file.
Extent == {x \in FreeExtent : BlocksOf(x) \subseteq DataBlock}
ItemType == [ext : Extent \cup {NoExtent}, form : {"right", "swapped", "garbage"}]
BlockType == [names : SUBSET Slot, items : Seq(ItemType)]

\* A table of the memory, of storage or of a buffer: only the root is a
\* directory, and a free slot has no blocks but those of a residue.
TableTyped(tab) ==
    /\ tab \in [Slot -> EntryType]
    /\ \A s \in Slot :
        /\ Len(tab[s].direct) = IF tab[s].count < DirectExtents
                                THEN tab[s].count ELSE DirectExtents
        /\ \A k \in DOMAIN tab[s].direct : BlocksOf(tab[s].direct[k]) \subseteq DataBlock
        /\ tab[s].mode = "free" => tab[s].extblk = 0 /\ tab[s].dirBlock = 0
        /\ tab[s].mode = "dir" => s = 0

TableOf(f) == [s \in Slot |-> f[EntryAt(s)]]

StorageTyped(f) ==
    /\ f = [l \in Loc |-> f[l]]
    /\ TableTyped(TableOf(f))
    /\ f[EntryAt(0)].mode = "dir"
    /\ \A b \in DataBlock : f[BlockAt(b)] \in BlockType
    /\ f[BitmapAt] \subseteq DataBlock

MemoryTyped ==
    /\ TableTyped(table)
    /\ up => table[0].mode = "dir"
    /\ list \in [Slot -> Seq(ItemType) \cup {NoList}]
    /\ \A s \in Slot : table[s].mode # "file" => list[s] = NoList
    /\ names = NoNames \/ names \subseteq Slot
    /\ bitmap \subseteq DataBlock

\* Nothing is left of the memory while the file system is not mounted.
Gone ==
    ~up => /\ \A s \in Slot : list[s] = NoList
           /\ names = NoNames
           /\ sync.at = "idle"

SyncTyped ==
    /\ sync \in [at : {"idle", "table", "bitmap", "flush"}, next : 0 .. MaxFileCount,
                 from : 0 .. MaxFileCount, buf : [Slot -> EntryType], flaws : SUBSET Flaw]
    /\ sync.from <= sync.next
    /\ TableTyped(sync.buf)
    /\ sync.at = "table" /\ sync.from = 0 /\ sync.next > 0 => sync.buf[0].mode = "dir"
    /\ sync.at \in {"bitmap", "flush"} => sync.from = MaxFileCount /\ sync.next = MaxFileCount

HistoryTyped ==
    /\ up \in BOOLEAN /\ fault \in BOOLEAN /\ bigEndian \in BOOLEAN
    /\ last \in {"none", "ok", "failed"}
    /\ blame \subseteq Flaw /\ taint \subseteq Flaw

Typed ==
    /\ MemoryTyped /\ Gone
    /\ StorageTyped(now) /\ StorageTyped(durable)
    /\ SyncTyped /\ HistoryTyped

-----------------------------------------------------------------------------
(* Slots that are lost.                                                    *)

Lost == {"heap", "spilt"}
NotJunk(tab) == \A s \in Slot : tab[s].mode # "junk"

SlotsInv ==
    /\ sync.at # "idle" => sync.flaws \cap Lost \subseteq blame
    /\ sync.at = "table" /\ sync.flaws \cap Lost = {} => NotJunk(sync.buf)
    /\ sync.at # "idle" /\ sync.flaws \cap Lost = {} =>
          \A s \in Slot : s < sync.from => now[EntryAt(s)].mode # "junk"
    /\ blame \cap Lost = {} => NotJunk(TableOf(now)) /\ NotJunk(TableOf(durable))
    /\ taint \cap Lost = {} => NotJunk(table)

-----------------------------------------------------------------------------
(* What a sync has copied so far.                                          *)

Used(e) == IF e.mode \in {"file", "dir"} THEN e ELSE Empty

\* While no call came in between.
CopiedEntries ==
    sync.at # "idle" /\ "disturbed" \notin sync.flaws =>
        /\ \A s \in Slot : s < sync.from => Used(now[EntryAt(s)]) = Used(table[s])
        /\ sync.at = "table" => \A s \in Slot :
            /\ sync.from <= s /\ s < sync.next => Used(sync.buf[s]) = Used(table[s])
            /\ sync.next <= s => Used(sync.buf[s]) = Empty
        /\ sync.at = "flush" => now[BitmapAt] = bitmap

NamesHurt == {"disturbed", "write failed", "names overwritten", "names unsaved"}

CopiedNames ==
    /\ sync.at # "idle" /\ sync.next > 0
    /\ sync.flaws \cap NamesHurt = {}
    /\ names # NoNames
    => IF table[0].dirBlock = 0 THEN names = {}
       ELSE now[BlockAt(table[0].dirBlock)].names = names

\* Storage as a mount makes memory of it.
NamesOf(f) ==
    IF f[EntryAt(0)].dirBlock = 0 THEN {} ELSE f[BlockAt(f[EntryAt(0)].dirBlock)].names
ImageOf(f) == [table |-> InUse(TableOf(f)), bitmap |-> f[BitmapAt], names |-> NamesOf(f)]

SavedInv ==
    /\ sync.at # "idle" => saved = NoImage
    /\ saved # NoImage /\ "names overwritten" \notin blame =>
          saved = ImageOf(now) /\ saved = ImageOf(durable)

-----------------------------------------------------------------------------
(* Who owns a block.                                                       *)

DirectBlocks(e) == UNION {BlocksOf(e.direct[k]) : k \in DOMAIN e.direct}
ItemBlocks(its) == UNION {BlocksOf(its[k].ext) : k \in DOMAIN its}
ListOf(e, f) == IF e.extblk = 0 THEN <<>> ELSE f[BlockAt(e.extblk)].items

\* The blocks an entry of the table holds if f is what the blocks contain.
HeldOf(e, f) ==
    IF e.mode = "dir" THEN {e.dirBlock} \ {0}
    ELSE IF e.mode = "file"
    THEN DirectBlocks(e) \cup ItemBlocks(ListOf(e, f)) \cup ({e.extblk} \ {0})
    ELSE {}

\* In memory, through the list as it is there and as it is on storage.
Held(s) ==
    HeldOf(table[s], now) \cup (IF table[s].mode = "file" THEN ItemBlocks(list[s]) ELSE {})

\* The names that were read are those of the files.
NamesOwned ==
    "names unread" \notin taint => RootNames = {s \in Slot : table[s].mode = "file"}

\* Blocks that hold a list are marked and are nobody's data.
MemoryOwned ==
        /\ \A r, s \in Slot : r # s => Held(r) \cap Held(s) = {}
        /\ \A s \in Slot : Held(s) \subseteq bitmap
        /\ NamesOwned
        /\ \A b \in DataBlock : now[BlockAt(b)].items # <<>> =>
            /\ b \in bitmap
            /\ \A s \in Slot :
                table[s].mode = "file" /\ b \in Held(s) => b = table[s].extblk

MemoryOwns == up /\ taint \cap Causes = {} => MemoryOwned

StorageOwns(f) ==
    /\ \A r, s \in Slot : r # s => HeldOf(f[EntryAt(r)], f) \cap HeldOf(f[EntryAt(s)], f) = {}
    /\ \A s \in Slot : HeldOf(f[EntryAt(s)], f) \subseteq f[BitmapAt]
    /\ \A b \in DataBlock : f[BlockAt(b)].items # <<>> =>
        /\ b \in f[BitmapAt]
        /\ \A s \in Slot :
            f[EntryAt(s)].mode = "file" /\ b \in HeldOf(f[EntryAt(s)], f) =>
                b = f[EntryAt(s)].extblk

NamesStored(f) == NamesOf(f) = {s \in Slot : f[EntryAt(s)].mode = "file"}

\* After calls the page cache lacks at most lists.
Agree(f, g) ==
    /\ \A s \in Slot : g[EntryAt(s)] = f[EntryAt(s)]
    /\ g[BitmapAt] = f[BitmapAt]
    /\ NamesOf(g) = NamesOf(f)
    /\ \A b \in DataBlock : g[BlockAt(b)].items \in {f[BlockAt(b)].items, <<>>}

BlamedInv ==
    /\ sync.at # "idle" => "torn" \in blame /\ sync.flaws \subseteq blame
    /\ blame \cap Causes = {} =>
          /\ StorageOwns(durable) /\ Agree(durable, now)
          /\ "names unread" \notin blame => NamesStored(durable)

-----------------------------------------------------------------------------
(* The lists.                                                              *)

WrongList == Causes \cup {"dropped", "list overwritten", "list unsaved"}

Over(e) == IF e.count > DirectExtents THEN e.count - DirectExtents ELSE 0
Fine(its) == \A k \in DOMAIN its :
    its[k].form # "garbage" /\ (its[k].form = "swapped" => ~bigEndian)

\* The list of an entry is on storage.
Listed(e, f) ==
    e.mode = "file" /\ e.count > DirectExtents =>
        /\ e.extblk # 0
        /\ Len(f[BlockAt(e.extblk)].items) = Over(e)
        /\ Fine(f[BlockAt(e.extblk)].items)

MemoryLists ==
    up /\ taint \cap WrongList = {} =>
        \A s \in Slot : table[s].mode = "file" =>
            IF list[s] = NoList THEN Listed(table[s], now)
            ELSE Len(list[s]) = Over(table[s]) /\ Fine(list[s])

StorageLists ==
    blame \cap WrongList = {} =>
        \A s \in Slot : Listed(durable[EntryAt(s)], durable) /\ Listed(now[EntryAt(s)], now)

CopiedLists ==
    sync.at # "idle" /\ (sync.flaws \cup taint) \cap (Causes \cup {"list unsaved"}) = {} =>
        \A s \in Slot :
            s < sync.next /\ table[s].mode = "file" /\ table[s].count > DirectExtents =>
                /\ table[s].extblk # 0
                /\ list[s] # NoList => now[BlockAt(table[s].extblk)].items = list[s]
-----------------------------------------------------------------------------
(* Constants, places of the storage file, sequences.                       *)

LEMMA Constants ==
    /\ MaxFileCount \in Nat \ {0} /\ BufEntries \in Nat \ {0}
    /\ DirectExtents \in Nat \ {0} /\ IndirectSlots \in Nat
    /\ MaxExtents \in Nat /\ DirectExtents <= MaxExtents
    /\ DataStart \in Nat \ {0} /\ TotalBlocks \in Nat /\ MaxExtentLength \in Nat \ {0}
    /\ Residues \subseteq DataBlock
    /\ 0 \in Slot /\ Slot \subseteq Nat
    /\ DataBlock \subseteq Nat \ {0}
BY SyncDiskAssumption, GeometryAssumption DEF MaxExtents, Slot, DataBlock

LEMMA Places ==
    /\ \A s \in Slot : EntryAt(s) \in Loc
    /\ \A b \in DataBlock : BlockAt(b) \in Loc
    /\ BitmapAt \in Loc
    /\ \A l \in Loc : \/ \E s \in Slot : l = EntryAt(s)
                      \/ \E b \in DataBlock : l = BlockAt(b)
                      \/ l = BitmapAt
    /\ \A s, r : EntryAt(s) = EntryAt(r) <=> s = r
    /\ \A b, c : BlockAt(b) = BlockAt(c) <=> b = c
    /\ \A s, b : EntryAt(s) # BlockAt(b)
    /\ \A s : EntryAt(s) # BitmapAt
    /\ \A b : BlockAt(b) # BitmapAt
BY DEF Loc, EntryAt, BlockAt, BitmapAt

LEMMA Appending ==
    ASSUME NEW S, NEW q \in Seq(S), NEW x \in S
    PROVE  /\ Append(q, x) \in Seq(S)
           /\ Len(Append(q, x)) = Len(q) + 1
           /\ Len(q) \in Nat
           /\ DOMAIN q = 1 .. Len(q)
           /\ DOMAIN Append(q, x) = DOMAIN q \cup {Len(q) + 1}
           /\ \A k \in DOMAIN q : Append(q, x)[k] = q[k] /\ q[k] \in S
           /\ Append(q, x)[Len(q) + 1] = x
OBVIOUS

LEMMA Elements ==
    ASSUME NEW S, NEW q \in Seq(S)
    PROVE  /\ Len(q) \in Nat
           /\ DOMAIN q = 1 .. Len(q)
           /\ \A k \in DOMAIN q : q[k] \in S
OBVIOUS

\* The extents in an entry are a sequence.
LEMMA DirectIsSeq ==
    ASSUME NEW e \in EntryType
    PROVE  e.direct \in Seq(FreeExtent)
<1>1. PICK n \in 0 .. DirectExtents :
        e.direct \in [1 .. n -> [start : DataBlock, length : 1 .. MaxExtentLength]]
  BY DEF EntryType
<1>2. n \in Nat /\ e.direct \in [1 .. n -> FreeExtent]
  BY <1>1, Constants DEF FreeExtent
<1> HIDE DEF FreeExtent
<1> QED
  BY <1>2

LEMMA SeqIsDirect ==
    ASSUME NEW q \in Seq(FreeExtent), Len(q) <= DirectExtents
    PROVE  q \in UNION {[1 .. n -> [start : DataBlock, length : 1 .. MaxExtentLength]] :
                        n \in 0 .. DirectExtents}
<1>1. q \in [1 .. Len(q) -> FreeExtent] /\ Len(q) \in 0 .. DirectExtents
  BY Constants
<1> QED
  BY <1>1 DEF FreeExtent

-----------------------------------------------------------------------------
(* What a write changes on the storage file.                               *)

BlockPut(b, v) ==
    /\ now' = [l \in Loc |-> now'[l]]
    /\ now'[BlockAt(b)] = v
    /\ \A c \in DataBlock : c # b => now'[BlockAt(c)] = now[BlockAt(c)]
    /\ \A s \in Slot : now'[EntryAt(s)] = now[EntryAt(s)]
    /\ now'[BitmapAt] = now[BitmapAt]

LEMMA PuttingABlock ==
    ASSUME NEW b \in DataBlock, NEW v, Put([l \in {BlockAt(b)} |-> v])
    PROVE  BlockPut(b, v)
BY Places DEF Put, BlockPut

EntriesPut(S, buf) ==
    /\ now' = [l \in Loc |-> now'[l]]
    /\ \A c \in DataBlock : now'[BlockAt(c)] = now[BlockAt(c)]
    /\ \A s \in Slot : now'[EntryAt(s)] = IF s \in S THEN buf[s] ELSE now[EntryAt(s)]
    /\ now'[BitmapAt] = now[BitmapAt]

LEMMA PuttingEntries ==
    ASSUME NEW S \in SUBSET Slot, NEW buf, Put([l \in {EntryAt(s) : s \in S} |-> buf[l[2]]])
    PROVE  EntriesPut(S, buf)
<1> DEFINE f == [l \in {EntryAt(s) : s \in S} |-> buf[l[2]]]
<1>1. now' = [l \in Loc |-> IF l \in {EntryAt(s) : s \in S} THEN buf[l[2]] ELSE now[l]]
  BY DEF Put
<1>2. \A s : EntryAt(s)[2] = s
  BY DEF EntryAt
<1> QED
  BY <1>1, <1>2, Places DEF EntriesPut

BitmapPut(marked) ==
    /\ now' = [l \in Loc |-> now'[l]]
    /\ \A c \in DataBlock : now'[BlockAt(c)] = now[BlockAt(c)]
    /\ \A s \in Slot : now'[EntryAt(s)] = now[EntryAt(s)]
    /\ now'[BitmapAt] = marked

LEMMA PuttingTheBitmap ==
    ASSUME NEW v, Put([l \in {BitmapAt} |-> v])
    PROVE  BitmapPut(v)
BY Places DEF Put, BitmapPut
-----------------------------------------------------------------------------
(* What the calls have in common.                                          *)

Called(hurt, damage) ==
    /\ up /\ ~fault /\ up' /\ fault' = fault /\ bigEndian' = bigEndian
    /\ durable' = durable /\ saved' = saved
    /\ SyncTyped' /\ HistoryTyped' /\ Gone'
    /\ sync'.at = sync.at /\ sync'.next = sync.next /\ sync'.from = sync.from
    /\ sync'.buf = sync.buf
    /\ taint' = taint \cup hurt /\ damage \subseteq blame'
    /\ sync.flaws \subseteq sync'.flaws /\ blame \subseteq blame'
    /\ sync'.flaws \ sync.flaws \subseteq {"disturbed"} \cap blame'
    /\ sync.at # "idle" => "disturbed" \in sync'.flaws

LEMMA Calling ==
    ASSUME NEW hurt \in SUBSET Flaw, NEW damage \in SUBSET Flaw, Typed, Call(hurt, damage)
    PROVE  Called(hurt, damage)
<1> DEFINE late == IF sync.at = "idle" THEN {} ELSE {"disturbed"}
<1>1. late \in SUBSET Flaw
  BY DEF Flaw
<1>2. /\ sync' = [sync EXCEPT !.flaws = @ \cup late]
      /\ blame' = blame \cup damage \cup late
      /\ taint' = taint \cup hurt
      /\ up /\ ~fault /\ last' = "none"
      /\ UNCHANGED <<durable, up, saved, fault, bigEndian>>
  BY DEF Call
<1>3. SyncTyped /\ HistoryTyped
  BY DEF Typed
<1>4. /\ sync'.at = sync.at /\ sync'.next = sync.next /\ sync'.from = sync.from
      /\ sync'.buf = sync.buf /\ sync'.flaws = sync.flaws \cup late
      /\ sync' \in [at : {"idle", "table", "bitmap", "flush"}, next : 0 .. MaxFileCount,
                 from : 0 .. MaxFileCount, buf : [Slot -> EntryType], flaws : SUBSET Flaw]
  <2> HIDE DEF late
  <2> QED
    BY <1>1, <1>2, <1>3 DEF SyncTyped
<1>5. SyncTyped'
  BY <1>3, <1>4 DEF SyncTyped, TableTyped
<1>6. HistoryTyped'
  BY <1>1, <1>2, <1>3 DEF HistoryTyped
<1>7. Gone'
  BY <1>2 DEF Gone
<1> QED
  BY <1>2, <1>4, <1>5, <1>6, <1>7 DEF Called

\* A block that is taken is a free one.
LEMMA TakenBlock ==
    ASSUME NEW bm, NEW b \in FindFreeBlock(bm)
    PROVE  b \in DataBlock \ bm /\ FindFreeBlock(bm) = {b}
<1>1. b \in DataBlock \ bm
  BY DEF FindFreeBlock
<1>2. ASSUME NEW c \in FindFreeBlock(bm)
      PROVE  c = b
  <2>1. c \in DataBlock \ bm /\ b <= c /\ c <= b
    BY <1>1 DEF FindFreeBlock
  <2> QED
    BY <1>1, <2>1, Constants
<1> QED
  BY <1>1, <1>2

\* The root gets a block once.
LEMMA RootTakesBlock ==
    ASSUME NEW tab
    PROVE  \/ NewRootBlock = {} /\ WithRootBlock(tab) = tab
           \/ \E b \in DataBlock \ bitmap :
                /\ names = NoNames /\ table[0].dirBlock = 0
                /\ NewRootBlock = {b}
                /\ WithRootBlock(tab) = [tab EXCEPT ![0].dirBlock = b]
<1>1. CASE NewRootBlock = {}
  BY <1>1 DEF WithRootBlock
<1>2. CASE NewRootBlock # {}
  <2>1. names = NoNames /\ table[0].dirBlock = 0 /\ NewRootBlock = FindFreeBlock(bitmap)
    BY <1>2 DEF NewRootBlock
  <2>2. PICK b \in FindFreeBlock(bitmap) : TRUE
    BY <1>2, <2>1
  <2>3. b \in DataBlock \ bitmap /\ NewRootBlock = {b}
    BY <2>1, <2>2, TakenBlock
  <2>4. (CHOOSE c \in NewRootBlock : TRUE) = b
    BY <2>3
  <2> QED
    BY <1>2, <2>1, <2>3, <2>4 DEF WithRootBlock
<1> QED
  BY <1>1, <1>2

LEMMA ListTakesBlock ==
    ASSUME NEW s \in Slot, TableTyped(table)
    PROVE  \/ NewListBlock(s) = {} /\ WithListBlock(s) = table
           \/ \E b \in DataBlock \ bitmap :
                /\ list[s] = NoList /\ table[s].extblk = 0
                /\ NewListBlock(s) = {b}
                /\ WithListBlock(s) = [table EXCEPT ![s].extblk = b]
<1>1. CASE NewListBlock(s) = {}
  <2>1. WithListBlock(s) = [table EXCEPT ![s].extblk = table[s].extblk]
    BY <1>1 DEF WithListBlock
  <2>2. table[s] \in EntryType /\ table = [r \in Slot |-> table[r]]
    BY DEF TableTyped
  <2>3. [table[s] EXCEPT !.extblk = table[s].extblk] = table[s]
    BY <2>2 DEF EntryType
  <2> QED
    BY <1>1, <2>1, <2>2, <2>3
<1>2. CASE NewListBlock(s) # {}
  <2>1. list[s] = NoList /\ table[s].extblk = 0 /\ NewListBlock(s) = FindFreeBlock(bitmap)
    BY <1>2 DEF NewListBlock
  <2>2. PICK b \in FindFreeBlock(bitmap) : TRUE
    BY <1>2, <2>1
  <2>3. b \in DataBlock \ bitmap /\ NewListBlock(s) = {b}
    BY <2>1, <2>2, TakenBlock
  <2>4. (CHOOSE c \in NewListBlock(s) : TRUE) = b
    BY <2>3
  <2> QED
    BY <1>2, <2>1, <2>3, <2>4 DEF WithListBlock
<1> QED
  BY <1>1, <1>2

\* One entry of a table changes.
LEMMA EntryChanges ==
    ASSUME NEW tab, TableTyped(tab), NEW s \in Slot, NEW e \in EntryType,
           Len(e.direct) = IF e.count < DirectExtents THEN e.count ELSE DirectExtents,
           \A k \in DOMAIN e.direct : BlocksOf(e.direct[k]) \subseteq DataBlock,
           e.mode = "free" => e.extblk = 0 /\ e.dirBlock = 0,
           e.mode = "dir" => s = 0
    PROVE  TableTyped([tab EXCEPT ![s] = e])
<1>1. [tab EXCEPT ![s] = e] = [r \in Slot |-> IF r = s THEN e ELSE tab[r]]
  BY DEF TableTyped
<1> QED
  BY <1>1 DEF TableTyped

LEMMA DirBlockChanges ==
    ASSUME NEW tab, TableTyped(tab), tab[0].mode = "dir", NEW b \in DataBlock
    PROVE  /\ TableTyped([tab EXCEPT ![0].dirBlock = b])
           /\ [tab EXCEPT ![0].dirBlock = b] =
                [r \in Slot |-> IF r = 0 THEN [tab[0] EXCEPT !.dirBlock = b] ELSE tab[r]]
<1> DEFINE e == [tab[0] EXCEPT !.dirBlock = b]
<1>1. tab[0] \in EntryType /\ tab = [r \in Slot |-> tab[r]] /\ 0 \in Slot
  BY Constants DEF TableTyped
<1>2. /\ e \in EntryType /\ e.mode = "dir"
      /\ e.direct = tab[0].direct /\ e.count = tab[0].count
  BY <1>1 DEF EntryType
<1>3. /\ Len(e.direct) = IF e.count < DirectExtents THEN e.count ELSE DirectExtents
      /\ \A k \in DOMAIN e.direct : BlocksOf(e.direct[k]) \subseteq DataBlock
  BY <1>1, <1>2 DEF TableTyped
<1>4. [tab EXCEPT ![0].dirBlock = b] = [tab EXCEPT ![0] = e]
  OBVIOUS
<1> HIDE DEF e
<1>5. TableTyped([tab EXCEPT ![0] = e])
  BY <1>1, <1>2, <1>3, EntryChanges
<1> QED
  BY <1>1, <1>4, <1>5 DEF e

LEMMA ExtBlockChanges ==
    ASSUME NEW tab, TableTyped(tab), NEW s \in Slot, tab[s].mode = "file", NEW b \in DataBlock
    PROVE  /\ TableTyped([tab EXCEPT ![s].extblk = b])
           /\ [tab EXCEPT ![s].extblk = b] =
                [r \in Slot |-> IF r = s THEN [tab[s] EXCEPT !.extblk = b] ELSE tab[r]]
<1> DEFINE e == [tab[s] EXCEPT !.extblk = b]
<1>1. tab[s] \in EntryType /\ tab = [r \in Slot |-> tab[r]]
  BY DEF TableTyped
<1>2. /\ e \in EntryType /\ e.mode = "file"
      /\ e.direct = tab[s].direct /\ e.count = tab[s].count
  BY <1>1 DEF EntryType
<1>3. /\ Len(e.direct) = IF e.count < DirectExtents THEN e.count ELSE DirectExtents
      /\ \A k \in DOMAIN e.direct : BlocksOf(e.direct[k]) \subseteq DataBlock
  BY <1>1, <1>2 DEF TableTyped
<1>4. [tab EXCEPT ![s].extblk = b] = [tab EXCEPT ![s] = e]
  OBVIOUS
<1> HIDE DEF e
<1>5. TableTyped([tab EXCEPT ![s] = e])
  BY <1>1, <1>2, <1>3, EntryChanges
<1> QED
  BY <1>1, <1>4, <1>5 DEF e
-----------------------------------------------------------------------------
(* The calls keep the types of the memory.                                 *)

NoNewJunk == \A s \in Slot : table'[s].mode = "junk" => table[s].mode = "junk"

LEMMA RootNamesTyped ==
    ASSUME Typed, up
    PROVE  RootNames \in SUBSET Slot /\ RootNames # NoNames
<1>1. table[0] \in EntryType /\ (names = NoNames \/ names \subseteq Slot)
  BY Constants DEF Typed, MemoryTyped, TableTyped
<1>2. ASSUME table[0].dirBlock # 0
      PROVE  now[BlockAt(table[0].dirBlock)].names \in SUBSET Slot
  <2>1. table[0].dirBlock \in DataBlock
    BY <1>1, <1>2 DEF EntryType
  <2>2. now[BlockAt(table[0].dirBlock)] \in BlockType
    BY <2>1 DEF Typed, StorageTyped
  <2> QED
    BY <2>2 DEF BlockType
<1>3. RootNames \in SUBSET Slot
  BY <1>1, <1>2 DEF RootNames
<1>4. -1 \notin Slot
  BY Constants
<1> QED
  BY <1>3, <1>4 DEF NoNames

\* A table with a block for the root.
LEMMA WithRoot ==
    ASSUME NEW tab, TableTyped(tab), tab[0].mode = "dir"
    PROVE  /\ TableTyped(WithRootBlock(tab))
           /\ NewRootBlock \subseteq DataBlock \ bitmap
           /\ \A s \in Slot : s # 0 => WithRootBlock(tab)[s] = tab[s]
           /\ WithRootBlock(tab)[0].mode = "dir"
<1>1. CASE WithRootBlock(tab) = tab /\ NewRootBlock = {}
  BY <1>1
<1>2. CASE \E b \in DataBlock \ bitmap :
              NewRootBlock = {b} /\ WithRootBlock(tab) = [tab EXCEPT ![0].dirBlock = b]
  <2>1. PICK b \in DataBlock \ bitmap :
              NewRootBlock = {b} /\ WithRootBlock(tab) = [tab EXCEPT ![0].dirBlock = b]
    BY <1>2
  <2>2. /\ TableTyped([tab EXCEPT ![0].dirBlock = b])
        /\ [tab EXCEPT ![0].dirBlock = b] =
                [r \in Slot |-> IF r = 0 THEN [tab[0] EXCEPT !.dirBlock = b] ELSE tab[r]]
    BY <2>1, DirBlockChanges
  <2>3. [tab[0] EXCEPT !.dirBlock = b].mode = "dir"
    BY Constants DEF TableTyped, EntryType
  <2> QED
    BY <2>1, <2>2, <2>3, Constants
<1> QED
  BY <1>1, <1>2, RootTakesBlock

LEMMA WithList ==
    ASSUME NEW s \in Slot, TableTyped(table), table[s].mode = "file"
    PROVE  /\ TableTyped(WithListBlock(s))
           /\ NewListBlock(s) \subseteq DataBlock \ bitmap
           /\ \A r \in Slot : r # s => WithListBlock(s)[r] = table[r]
           /\ WithListBlock(s)[s].mode = "file"
           /\ WithListBlock(s)[s].count = table[s].count
           /\ WithListBlock(s)[s].direct = table[s].direct
<1>1. CASE WithListBlock(s) = table /\ NewListBlock(s) = {}
  BY <1>1
<1>2. CASE \E b \in DataBlock \ bitmap :
              NewListBlock(s) = {b} /\ WithListBlock(s) = [table EXCEPT ![s].extblk = b]
  <2>1. PICK b \in DataBlock \ bitmap :
              NewListBlock(s) = {b} /\ WithListBlock(s) = [table EXCEPT ![s].extblk = b]
    BY <1>2
  <2>2. /\ TableTyped([table EXCEPT ![s].extblk = b])
        /\ [table EXCEPT ![s].extblk = b] =
                [r \in Slot |-> IF r = s THEN [table[s] EXCEPT !.extblk = b] ELSE table[r]]
    <3>1. b \in DataBlock
      BY <2>1
    <3> QED
      BY <3>1, ExtBlockChanges, SMTT(30)
  <2>3. /\ [table[s] EXCEPT !.extblk = b].mode = "file"
        /\ [table[s] EXCEPT !.extblk = b].count = table[s].count
        /\ [table[s] EXCEPT !.extblk = b].direct = table[s].direct
    BY DEF TableTyped, EntryType
  <2> QED
    BY <2>1, <2>2, <2>3
<1> QED
  BY <1>1, <1>2, ListTakesBlock

\* A list that is brought into memory has the length the entry tells.
LEMMA Loading ==
    ASSUME Typed, NEW s \in Slot, table[s].mode = "file", table[s].count >= DirectExtents
    PROVE  /\ LoadedList(s) \in Seq(ItemType)
           /\ list[s] = NoList => Len(LoadedList(s)) = table[s].count - DirectExtents
           /\ list[s] # NoList => LoadedList(s) = list[s]
<1>1. table[s] \in EntryType /\ list[s] \in Seq(ItemType) \cup {NoList}
  BY DEF Typed, MemoryTyped, TableTyped
<1>2. CASE list[s] # NoList
  BY <1>1, <1>2 DEF LoadedList
<1>3. CASE list[s] = NoList
  <2> DEFINE n == table[s].count - DirectExtents
             its == IF table[s].extblk = 0 THEN <<>> ELSE now[BlockAt(table[s].extblk)].items
             raw(k) == IF k > Len(its) THEN Garbage
                       ELSE IF bigEndian THEN its[k] ELSE Swapped(its[k])
  <2>1. n \in Nat
    BY <1>1, Constants DEF EntryType
  <2>2. its \in Seq(ItemType)
    <3>1. CASE table[s].extblk = 0
      BY <3>1
    <3>2. CASE table[s].extblk # 0
      <4>1. table[s].extblk \in DataBlock
        BY <1>1, <3>2 DEF EntryType
      <4>2. now[BlockAt(table[s].extblk)] \in BlockType
        BY <4>1 DEF Typed, StorageTyped
      <4> QED
        BY <3>2, <4>2 DEF BlockType
    <3> QED
      BY <3>1, <3>2
  <2> HIDE DEF n, its
  <2>3. ASSUME NEW k \in 1 .. n
        PROVE  raw(k) \in ItemType
    <3>1. Garbage \in ItemType
      BY DEF Garbage, Item, ItemType
    <3>2. ASSUME k <= Len(its)
          PROVE  its[k] \in ItemType
      BY <2>1, <2>2, <3>2, Elements
    <3>3. \A it \in ItemType : Swapped(it) \in ItemType
      BY DEF Swapped, ItemType
    <3>4. Len(its) \in Nat /\ k \in Nat
      BY <2>1, <2>2, Elements
    <3> QED
      BY <3>1, <3>2, <3>3, <3>4
  <2>4. LoadedList(s) = [k \in 1 .. n |-> raw(k)]
    BY <1>3 DEF LoadedList, n, its
  <2> HIDE DEF raw
  <2>5. [k \in 1 .. n |-> raw(k)] \in [1 .. n -> ItemType]
    BY <2>3
  <2>6. LoadedList(s) \in Seq(ItemType) /\ Len(LoadedList(s)) = n
    BY <2>1, <2>4, <2>5
  <2> QED
    BY <1>3, <2>6 DEF n
<1> QED
  BY <1>2, <1>3

LEMMA ListIsNotNoList == NoList \notin Seq(ItemType)
<1>1. NoList[1].form = "null" /\ DOMAIN NoList = {1}
  BY DEF NoList, Item
<1>2. ASSUME NoList \in Seq(ItemType)
      PROVE  FALSE
  <2>1. NoList[1] \in ItemType
    BY <1>1, <1>2, Elements
  <2> QED
    BY <1>1, <2>1 DEF ItemType
<1> QED
  BY <1>2
LEMMA LookUpTyped ==
    ASSUME Typed, LookUp
    PROVE  Called({}, {}) /\ MemoryTyped' /\ NoNewJunk /\ now' = now
<1>1. Call({}, {}) /\ up
  BY DEF LookUp, Call
<1>2. Called({}, {})
  BY <1>1, Calling DEF Flaw
<1>3. MemoryTyped /\ up'
  BY <1>2 DEF Typed, Called
<1>4. /\ TableTyped(table') /\ table'[0].mode = "dir"
      /\ \A s \in Slot : table'[s].mode = table[s].mode
      /\ NewRootBlock \subseteq DataBlock
  <2>1. table' = WithRootBlock(table) /\ TableTyped(table) /\ table[0].mode = "dir"
    BY <1>1, <1>3 DEF LookUp, MemoryTyped
  <2> QED
    BY <2>1, WithRoot
<1>5. names' \in SUBSET Slot
  BY <1>1, RootNamesTyped DEF LookUp
<1>6. list' = list /\ bitmap' = bitmap \cup NewRootBlock /\ now' = now
  BY DEF LookUp
<1>7. MemoryTyped'
  BY <1>3, <1>4, <1>5, <1>6 DEF MemoryTyped
<1>8. NoNewJunk
  BY <1>4 DEF NoNewJunk
<1> QED
  BY <1>2, <1>6, <1>7, <1>8

LEMMA LookUpUnreadTyped ==
    ASSUME Typed, LookUpUnread
    PROVE  Called({"names unread"}, {}) /\ MemoryTyped' /\ NoNewJunk /\ now' = now
<1>1. Called({"names unread"}, {})
  <2>1. Call({"names unread"}, {})
    BY DEF LookUpUnread
  <2>2. {"names unread"} \in SUBSET Flaw /\ {} \in SUBSET Flaw
    BY DEF Flaw
  <2> QED
    BY <2>1, <2>2, Calling
<1>2. MemoryTyped /\ up /\ up'
  BY <1>1 DEF Typed, Called
<1>3. UNCHANGED <<table, list, bitmap, now>> /\ names' = {}
  BY DEF LookUpUnread
<1>4. MemoryTyped'
  BY <1>2, <1>3 DEF MemoryTyped, TableTyped
<1> QED
  BY <1>1, <1>3, <1>4 DEF NoNewJunk

LEMMA CreateTyped ==
    ASSUME Typed, NEW s \in Slot, table[s].mode = "free",
           Call(IF table[s].count = 0 THEN {} ELSE {"residue"}, {}),
           table' = WithRootBlock([table EXCEPT ![s].mode = "file"]),
           names' = RootNames \cup {s}, bitmap' = bitmap \cup NewRootBlock,
           list' = list, now' = now
    PROVE  /\ Called(IF table[s].count = 0 THEN {} ELSE {"residue"}, {})
           /\ MemoryTyped' /\ NoNewJunk
<1> DEFINE hurt == IF table[s].count = 0 THEN {} ELSE {"residue"}
           e == [table[s] EXCEPT !.mode = "file"]
<1>1. hurt \in SUBSET Flaw /\ {} \in SUBSET Flaw
  BY DEF Flaw
<1>2. Called(hurt, {}) /\ up
  <2> HIDE DEF hurt
  <2>1. Call(hurt, {})
    BY DEF hurt
  <2> QED
    BY <1>1, <2>1, Calling DEF Call
<1>3. MemoryTyped /\ up' /\ table[0].mode = "dir" /\ TableTyped(table)
  BY <1>2 DEF Typed, Called, MemoryTyped
<1>4. table[s] \in EntryType
  BY <1>3 DEF TableTyped
<1>5. /\ e \in EntryType /\ e.mode = "file"
      /\ e.direct = table[s].direct /\ e.count = table[s].count
  BY <1>4 DEF EntryType
<1>6. /\ [table EXCEPT ![s].mode = "file"] = [table EXCEPT ![s] = e]
      /\ [table EXCEPT ![s] = e] = [r \in Slot |-> IF r = s THEN e ELSE table[r]]
  BY <1>3 DEF TableTyped
<1>7. /\ Len(e.direct) = IF e.count < DirectExtents THEN e.count ELSE DirectExtents
      /\ \A k \in DOMAIN e.direct : BlocksOf(e.direct[k]) \subseteq DataBlock
  BY <1>3, <1>5 DEF TableTyped
<1> HIDE DEF e
<1>8. TableTyped([table EXCEPT ![s] = e])
  BY <1>3, <1>5, <1>7, EntryChanges
<1>9. s # 0
  BY <1>3
<1> DEFINE tab == [table EXCEPT ![s].mode = "file"]
<1>10. TableTyped(tab) /\ tab[0].mode = "dir" /\ table' = WithRootBlock(tab)
  BY <1>3, <1>6, <1>8, <1>9, Constants
<1>11. \A r \in Slot : tab[r].mode = IF r = s THEN "file" ELSE table[r].mode
  BY <1>5, <1>6
<1> HIDE DEF tab
<1>12. /\ TableTyped(table') /\ table'[0].mode = "dir"
       /\ \A r \in Slot : table'[r].mode = IF r = s THEN "file" ELSE table[r].mode
       /\ NewRootBlock \subseteq DataBlock
  BY <1>3, <1>9, <1>10, <1>11, WithRoot
<1>13. names' \in SUBSET Slot
  BY <1>2, RootNamesTyped
<1>14. MemoryTyped'
  BY <1>3, <1>12, <1>13 DEF MemoryTyped
<1>15. NoNewJunk
  BY <1>12 DEF NoNewJunk
<1> QED
  BY <1>2, <1>14, <1>15

LEMMA ReadFileTyped ==
    ASSUME Typed, NEW s \in Slot, ReadFile(s)
    PROVE  Called({}, {}) /\ MemoryTyped' /\ NoNewJunk /\ now' = now
<1>1. Call({}, {}) /\ up /\ table[s].mode = "file" /\ table[s].count >= DirectExtents
  BY DEF ReadFile, Call
<1>2. Called({}, {})
  BY <1>1, Calling DEF Flaw
<1>3. MemoryTyped /\ up' /\ TableTyped(table) /\ table[0].mode = "dir"
  BY <1>1, <1>2 DEF Typed, Called, MemoryTyped
<1>4. /\ TableTyped(table')
      /\ \A r \in Slot : table'[r].mode = table[r].mode
      /\ bitmap' \subseteq DataBlock
  <2>1. table' = WithListBlock(s) /\ bitmap' = bitmap \cup NewListBlock(s)
    BY DEF ReadFile
  <2> QED
    BY <1>1, <1>3, <2>1, WithList DEF MemoryTyped
<1>5. list' = [list EXCEPT ![s] = LoadedList(s)] /\ LoadedList(s) \in Seq(ItemType)
  BY <1>1, Loading DEF ReadFile
<1>6. /\ list' \in [Slot -> Seq(ItemType) \cup {NoList}]
      /\ \A r \in Slot : r # s => list'[r] = list[r]
  BY <1>3, <1>5 DEF MemoryTyped
<1>7. names' = names /\ now' = now
  BY DEF ReadFile
<1>8. MemoryTyped'
  BY <1>1, <1>3, <1>4, <1>6, <1>7, Constants DEF MemoryTyped
<1>9. NoNewJunk
  BY <1>4 DEF NoNewJunk
<1> QED
  BY <1>2, <1>7, <1>8, <1>9

LEMMA ReleaseTyped ==
    ASSUME Typed, NEW s \in Slot, Release(s)
    PROVE  /\ Called(IF table[s].extblk # 0 /\ now[BlockAt(table[s].extblk)].items = list[s]
                     THEN {} ELSE {"dropped"}, {})
           /\ MemoryTyped' /\ NoNewJunk /\ now' = now
<1> DEFINE hurt == IF table[s].extblk # 0 /\ now[BlockAt(table[s].extblk)].items = list[s]
                   THEN {} ELSE {"dropped"}
<1>1. hurt \in SUBSET Flaw /\ {} \in SUBSET Flaw
  BY DEF Flaw
<1>2. Called(hurt, {}) /\ up
  <2> HIDE DEF hurt
  <2>1. Call(hurt, {})
    BY DEF hurt, Release
  <2> QED
    BY <1>1, <2>1, Calling DEF Call
<1>3. MemoryTyped
  BY DEF Typed
<1>4. /\ list' = [list EXCEPT ![s] = NoList]
      /\ UNCHANGED <<table, names, bitmap, now>>
  BY DEF Release
<1>5. MemoryTyped'
  BY <1>2, <1>3, <1>4 DEF MemoryTyped
<1> QED
  BY <1>2, <1>4, <1>5 DEF NoNewJunk

LEMMA RemoveTyped ==
    ASSUME Typed, NEW s \in Slot, Remove(s)
    PROVE  /\ Called(IF table[s].extblk \in FileBlocks(s) THEN {"list freed"} ELSE {}, {})
           /\ MemoryTyped' /\ NoNewJunk /\ now' = now
<1> DEFINE hurt == IF table[s].extblk \in FileBlocks(s) THEN {"list freed"} ELSE {}
<1>1. hurt \in SUBSET Flaw /\ {} \in SUBSET Flaw
  BY DEF Flaw
<1>2. Called(hurt, {}) /\ up
  <2> HIDE DEF hurt
  <2>1. Call(hurt, {})
    BY DEF hurt, Remove
  <2> QED
    BY <1>1, <2>1, Calling DEF Call
<1>3. MemoryTyped /\ up' /\ table[0].mode = "dir" /\ TableTyped(table)
  BY <1>2 DEF Typed, Called, MemoryTyped
<1>4. Empty \in EntryType /\ Len(Empty.direct) = 0 /\ Empty.count = 0 /\ Empty.mode = "free"
      /\ Empty.extblk = 0 /\ Empty.dirBlock = 0 /\ DOMAIN Empty.direct = {}
  <2>1. <<>> \in Seq(FreeExtent) /\ Len(<<>>) = 0 /\ DOMAIN <<>> = {}
    OBVIOUS
  <2>2. Len(<<>>) <= DirectExtents
    BY <2>1, Constants
  <2>3. <<>> \in UNION {[1 .. n -> [start : DataBlock, length : 1 .. MaxExtentLength]] :
                        n \in 0 .. DirectExtents}
    BY <2>1, <2>2, SeqIsDirect, Zenon
  <2>4. 0 \in 0 .. MaxExtents
    BY Constants
  <2>5. Empty \in EntryType
    BY <2>3, <2>4 DEF Empty, EntryType
  <2>6. /\ Empty.direct = <<>> /\ Empty.count = 0 /\ Empty.mode = "free"
        /\ Empty.extblk = 0 /\ Empty.dirBlock = 0
    BY DEF Empty
  <2> QED
    BY <2>1, <2>5, <2>6
<1>5. s # 0 /\ table[s].mode = "file"
  BY <1>3 DEF Remove
<1> DEFINE tab == [table EXCEPT ![s] = Empty]
<1>6. TableTyped(tab)
  <2> HIDE DEF TableTyped
  <2>1. Len(Empty.direct) = IF Empty.count < DirectExtents THEN Empty.count ELSE DirectExtents
    BY <1>4, Constants
  <2> QED
    BY <1>3, <1>4, <1>5, <2>1, EntryChanges
<1>7. /\ \A r \in Slot : tab[r] = IF r = s THEN Empty ELSE table[r]
      /\ tab[0].mode = "dir"
  BY <1>3, <1>5, Constants DEF TableTyped
<1>8. table' = WithRootBlock(tab) /\ list' = [list EXCEPT ![s] = NoList]
      /\ bitmap' = (bitmap \ FileBlocks(s)) \cup NewRootBlock
      /\ names' = RootNames \ {s} /\ now' = now
  BY DEF Remove
<1> HIDE DEF tab
<1>9. /\ TableTyped(table') /\ table'[0].mode = "dir"
      /\ \A r \in Slot : table'[r].mode = IF r = s THEN "free" ELSE table[r].mode
      /\ NewRootBlock \subseteq DataBlock
  BY <1>3, <1>4, <1>5, <1>6, <1>7, <1>8, WithRoot
<1>10. names' \in SUBSET Slot
  BY <1>2, <1>8, RootNamesTyped
<1>11. MemoryTyped'
  BY <1>3, <1>8, <1>9, <1>10 DEF MemoryTyped
<1> QED
  BY <1>2, <1>8, <1>9, <1>11 DEF NoNewJunk
\* The extent that is taken lies in free blocks.
LEMMA TakenExtent ==
    ASSUME NEW x \in FirstExtent(FreeExtents(bitmap))
    PROVE  /\ x \in Extent
           /\ BlocksOf(x) \subseteq DataBlock \ bitmap
           /\ x.start \in BlocksOf(x) /\ x.start \in DataBlock
<1>1. x \in FreeExtents(bitmap)
  BY DEF FirstExtent
<1>2. x \in FreeExtent /\ BlocksOf(x) \subseteq DataBlock \ bitmap
  BY <1>1, FreeExtentsAreFree
<1>3. x.start \in DataBlock /\ x.length \in 1 .. MaxExtentLength
  BY <1>2 DEF FreeExtent
<1>4. x.length \in Nat /\ x.length >= 1 /\ x.start \in Nat
  BY <1>3, GeometryAssumption DEF DataBlock
<1>5. x.start \in BlocksOf(x)
  BY <1>4 DEF BlocksOf
<1> QED
  BY <1>2, <1>3, <1>5 DEF Extent

LEMMA Writing ==
    ASSUME Typed, NEW b \in DataBlock, NEW tab, WriteBlock(b, tab)
    PROVE  /\ Called(Overwrites(b, tab), Overwrites(b, tab) \cup Overwrites(b, Stored))
           /\ BlockPut(b, Data)
<1>1. Overwrites(b, tab) \in SUBSET Flaw /\ Overwrites(b, Stored) \in SUBSET Flaw
  BY DEF Overwrites, Flaw
<1>2. Call(Overwrites(b, tab), Overwrites(b, tab) \cup Overwrites(b, Stored))
  BY DEF WriteBlock
<1>3. Put([l \in {BlockAt(b)} |-> Data])
  BY DEF WriteBlock
<1> QED
  BY <1>1, <1>2, <1>3, Calling, PuttingABlock

LEMMA GrowDirectTyped ==
    ASSUME Typed, NEW s \in Slot, GrowDirect(s),
           NEW x \in FirstExtent(FreeExtents(bitmap)),
           table' = [table EXCEPT ![s].direct = Append(@, x), ![s].count = @ + 1],
           bitmap' = SetAllocated(bitmap, x), WriteBlock(x.start, table')
    PROVE  /\ Called(Overwrites(x.start, table'),
                     Overwrites(x.start, table') \cup Overwrites(x.start, Stored))
           /\ BlockPut(x.start, Data)
           /\ MemoryTyped' /\ NoNewJunk
           /\ table' = [r \in Slot |-> IF r = s
                 THEN [table[s] EXCEPT !.direct = Append(@, x), !.count = @ + 1] ELSE table[r]]
<1> DEFINE e == [table[s] EXCEPT !.direct = Append(@, x), !.count = @ + 1]
<1>1. /\ x \in Extent /\ BlocksOf(x) \subseteq DataBlock /\ x \in FreeExtent
      /\ x.start \in DataBlock
  BY TakenExtent DEF Extent
<1>2. /\ Called(Overwrites(x.start, table'),
                     Overwrites(x.start, table') \cup Overwrites(x.start, Stored))
      /\ BlockPut(x.start, Data)
  BY <1>1, Writing
<1>3. /\ table[s].mode = "file" /\ table[s].count < DirectExtents
      /\ UNCHANGED <<list, names>>
  BY DEF GrowDirect
<1>4. MemoryTyped /\ TableTyped(table) /\ table[s] \in EntryType
  BY DEF Typed, MemoryTyped, TableTyped
<1>5. /\ Len(table[s].direct) = table[s].count /\ table[s].direct \in Seq(FreeExtent)
      /\ \A k \in DOMAIN table[s].direct : BlocksOf(table[s].direct[k]) \subseteq DataBlock
  BY <1>3, <1>4, DirectIsSeq DEF TableTyped
<1>6. /\ Append(table[s].direct, x) \in Seq(FreeExtent)
      /\ Len(Append(table[s].direct, x)) = table[s].count + 1
      /\ \A k \in DOMAIN Append(table[s].direct, x) :
            BlocksOf(Append(table[s].direct, x)[k]) \subseteq DataBlock
  BY <1>1, <1>5, Appending
<1>7. /\ table[s].count + 1 \in 0 .. MaxExtents /\ table[s].count + 1 <= DirectExtents
      /\ table[s].count \in Nat
  <2>1. table[s].count \in 0 .. MaxExtents
    BY <1>4 DEF EntryType
  <2> QED
    BY SMTT(30), <1>3, <2>1, Constants
<1>8. Append(table[s].direct, x) \in
        UNION {[1 .. n -> [start : DataBlock, length : 1 .. MaxExtentLength]] :
                        n \in 0 .. DirectExtents}
  BY <1>6, <1>7, SeqIsDirect
<1>9. /\ e \in EntryType /\ e.mode = "file" /\ e.direct = Append(table[s].direct, x)
      /\ e.count = table[s].count + 1
  BY <1>3, <1>4, <1>7, <1>8 DEF EntryType
<1>10. table' = [table EXCEPT ![s] = e]
  OBVIOUS
<1>11. Len(e.direct) = IF e.count < DirectExtents THEN e.count ELSE DirectExtents
  BY SMTT(30), <1>6, <1>7, <1>9, Constants
<1> HIDE DEF e
<1>12. TableTyped(table')
  <2>1. TableTyped([table EXCEPT ![s] = e])
    BY <1>4, <1>6, <1>9, <1>11, EntryChanges
  <2> QED
    BY <1>10, <2>1
<1>13. table' = [r \in Slot |-> IF r = s THEN e ELSE table[r]]
  BY <1>4, <1>10 DEF TableTyped
<1>14. \A r \in Slot : table'[r].mode = table[r].mode
  BY <1>3, <1>9, <1>13
<1>15. bitmap' \subseteq DataBlock
  BY <1>1, <1>4 DEF MemoryTyped, SetAllocated
<1>16. MemoryTyped'
  BY <1>2, <1>3, <1>4, <1>12, <1>14, <1>15, Constants DEF MemoryTyped, Called
<1>17. NoNewJunk
  BY <1>14 DEF NoNewJunk
<1> QED
  BY <1>2, <1>13, <1>16, <1>17 DEF e

LEMMA GrowIndirectTyped ==
    ASSUME Typed, NEW s \in Slot, GrowIndirect(s),
           NEW x \in FirstExtent(FreeExtents(bitmap)),
           list' = [list EXCEPT ![s] = Append(LoadedList(s), Item(x, "right"))],
           table' = [WithListBlock(s) EXCEPT ![s].count = @ + 1],
           bitmap' = SetAllocated(bitmap \cup NewListBlock(s), x),
           WriteBlock(x.start, table')
    PROVE  /\ Called(Overwrites(x.start, table'),
                     Overwrites(x.start, table') \cup Overwrites(x.start, Stored))
           /\ BlockPut(x.start, Data)
           /\ MemoryTyped' /\ NoNewJunk
           /\ table' = [r \in Slot |-> IF r = s
                 THEN [WithListBlock(s)[s] EXCEPT !.count = @ + 1] ELSE table[r]]
           /\ table[s].mode = "file" /\ table[s].count >= DirectExtents
           /\ Append(LoadedList(s), Item(x, "right")) \in Seq(ItemType)
           /\ list'[s] = Append(LoadedList(s), Item(x, "right"))
           /\ \A r \in Slot : r # s => list'[r] = list[r]
<1> DEFINE e == [WithListBlock(s)[s] EXCEPT !.count = @ + 1]
           its == Append(LoadedList(s), Item(x, "right"))
<1>1. /\ x \in Extent /\ BlocksOf(x) \subseteq DataBlock
      /\ x.start \in DataBlock
  BY TakenExtent DEF Extent
<1>2. /\ Called(Overwrites(x.start, table'),
                     Overwrites(x.start, table') \cup Overwrites(x.start, Stored))
      /\ BlockPut(x.start, Data)
  BY <1>1, Writing
<1>3. MemoryTyped /\ TableTyped(table) /\ table[s] \in EntryType
  BY DEF Typed, MemoryTyped, TableTyped
<1>4. /\ table[s].mode = "file" /\ table[s].count >= DirectExtents
      /\ table[s].count + 1 \in 0 .. MaxExtents /\ table[s].count \in Nat
      /\ names' = names
  BY <1>3, Constants DEF GrowIndirect, EntryType
<1> DEFINE old == WithListBlock(s)
<1>5. /\ TableTyped(old) /\ NewListBlock(s) \subseteq DataBlock
      /\ \A r \in Slot : r # s => old[r] = table[r]
      /\ old[s].mode = "file" /\ old[s].count = table[s].count
  BY <1>3, <1>4, WithList
<1>6. table' = [old EXCEPT ![s] = e]
  OBVIOUS
<1> HIDE DEF old
<1>7. old[s] \in EntryType
  BY <1>5 DEF TableTyped
<1>8. /\ [old[s] EXCEPT !.count = @ + 1] \in EntryType
      /\ [old[s] EXCEPT !.count = @ + 1].mode = "file"
      /\ [old[s] EXCEPT !.count = @ + 1].direct = old[s].direct
      /\ [old[s] EXCEPT !.count = @ + 1].count = table[s].count + 1
  BY <1>4, <1>5, <1>7 DEF EntryType
<1>9. /\ e \in EntryType /\ e.mode = "file" /\ e.direct = old[s].direct
      /\ e.count = table[s].count + 1
  BY <1>8 DEF old
<1> HIDE DEF e
<1>10. /\ Len(e.direct) = IF e.count < DirectExtents THEN e.count ELSE DirectExtents
       /\ \A k \in DOMAIN e.direct : BlocksOf(e.direct[k]) \subseteq DataBlock
  BY <1>4, <1>5, <1>9, Constants DEF TableTyped
<1>11. TableTyped(table')
  <2>1. TableTyped([old EXCEPT ![s] = e])
    BY <1>5, <1>9, <1>10, EntryChanges
  <2> QED
    BY <1>6, <2>1
<1>12. table' = [r \in Slot |-> IF r = s THEN e ELSE table[r]]
  BY <1>5, <1>6 DEF TableTyped
<1>13. \A r \in Slot : table'[r].mode = table[r].mode
  BY <1>4, <1>9, <1>12
<1>14. bitmap' \subseteq DataBlock
  BY <1>1, <1>3, <1>5 DEF MemoryTyped, SetAllocated
<1>15. its \in Seq(ItemType)
  <2>1. Item(x, "right") \in ItemType
    BY <1>1 DEF Item, ItemType
  <2>2. LoadedList(s) \in Seq(ItemType)
    BY <1>4, Loading
  <2> QED
    BY <2>1, <2>2, Appending
<1> HIDE DEF its
<1>16. /\ list' = [list EXCEPT ![s] = its]
       /\ list'[s] = its /\ \A r \in Slot : r # s => list'[r] = list[r]
       /\ list' \in [Slot -> Seq(ItemType) \cup {NoList}]
  BY <1>3, <1>15 DEF MemoryTyped, its
<1>17. MemoryTyped'
  BY <1>2, <1>3, <1>4, <1>11, <1>13, <1>14, <1>16, Constants DEF MemoryTyped, Called
<1>18. NoNewJunk
  BY <1>13 DEF NoNewJunk
<1> QED
  BY <1>2, <1>4, <1>12, <1>15, <1>16, <1>17, <1>18 DEF e, its, old

LEMMA RewriteTyped ==
    ASSUME Typed, NEW s \in Slot, Rewrite(s), NEW b \in FileBlocks(s),
           WriteBlock(b, table)
    PROVE  /\ b \in DataBlock
           /\ Called(Overwrites(b, table), Overwrites(b, table) \cup Overwrites(b, Stored))
           /\ BlockPut(b, Data)
           /\ MemoryTyped' /\ NoNewJunk /\ UNCHANGED memory
<1>1. MemoryTyped /\ TableTyped(table) /\ list[s] \in Seq(ItemType) \cup {NoList}
  BY DEF Typed, MemoryTyped
<1>2. b \in DataBlock
  <2>1. CASE \E k \in DOMAIN table[s].direct : b \in BlocksOf(table[s].direct[k])
    BY <1>1, <2>1 DEF TableTyped
  <2>2. CASE \E k \in DOMAIN list[s] : b \in BlocksOf(list[s][k].ext)
    <3>1. PICK k \in DOMAIN list[s] : b \in BlocksOf(list[s][k].ext)
      BY <2>2
    <3>2. list[s][k].ext \in Extent \cup {NoExtent}
      <4>1. CASE list[s] \in Seq(ItemType)
        <5>1. list[s][k] \in ItemType
          BY <3>1, <4>1, Elements
        <5> QED
          BY <5>1 DEF ItemType
      <4>2. CASE list[s] = NoList
        BY <3>1, <4>2 DEF NoList, Item
      <4> QED
        BY <1>1, <4>1, <4>2
    <3>3. BlocksOf(NoExtent) = {}
      BY DEF BlocksOf, NoExtent
    <3> QED
      BY <3>1, <3>2, <3>3 DEF Extent
  <2> QED
    BY <2>1, <2>2 DEF FileBlocks
<1>3. /\ Called(Overwrites(b, table), Overwrites(b, table) \cup Overwrites(b, Stored))
      /\ BlockPut(b, Data)
  BY <1>2, Writing
<1>4. UNCHANGED memory
  BY DEF Rewrite
<1>5. MemoryTyped'
  BY <1>1, <1>3, <1>4 DEF MemoryTyped, memory, Called
<1> QED
  BY <1>2, <1>3, <1>4, <1>5 DEF NoNewJunk, memory
-----------------------------------------------------------------------------
(* The steps of a sync keep the types of what they change.                 *)

LEMMA MemoryStays ==
    ASSUME Typed, UNCHANGED <<memory, up>>
    PROVE  MemoryTyped' /\ NoNewJunk /\ (up => Gone')
BY DEF Typed, MemoryTyped, memory, NoNewJunk, Gone

LEMMA BlockPutTyped ==
    ASSUME StorageTyped(now), NEW b \in DataBlock, NEW v \in BlockType, BlockPut(b, v)
    PROVE  StorageTyped(now')
<1>1. TableOf(now') = TableOf(now)
  BY DEF BlockPut, TableOf
<1> QED
  BY <1>1, Constants DEF StorageTyped, BlockPut

LEMMA EntriesPutTyped ==
    ASSUME StorageTyped(now), NEW S \in SUBSET Slot, NEW buf, TableTyped(buf),
           EntriesPut(S, buf), 0 \in S => buf[0].mode = "dir"
    PROVE  StorageTyped(now')
<1>1. TableOf(now') = [s \in Slot |-> IF s \in S THEN buf[s] ELSE TableOf(now)[s]]
  BY DEF EntriesPut, TableOf
<1>2. TableTyped(TableOf(now'))
  BY <1>1 DEF StorageTyped, TableTyped
<1> QED
  BY <1>2, Constants DEF StorageTyped, EntriesPut

LEMMA BitmapPutTyped ==
    ASSUME StorageTyped(now), NEW marked \in SUBSET DataBlock, BitmapPut(marked)
    PROVE  StorageTyped(now')
<1>1. TableOf(now') = TableOf(now)
  BY DEF BitmapPut, TableOf
<1> QED
  BY <1>1, Constants DEF StorageTyped, BitmapPut

LEMMA EmptyAndJunk ==
    /\ Empty \in EntryType /\ Junk \in EntryType
    /\ \A e \in {Empty, Junk} : Len(e.direct) = 0 /\ e.count = 0 /\ DOMAIN e.direct = {}
    /\ Empty.mode = "free" /\ Junk.mode = "junk"
    /\ Empty.extblk = 0 /\ Empty.dirBlock = 0
    /\ Used(Empty) = Empty /\ Used(Junk) = Empty
<1>1. <<>> \in Seq(FreeExtent) /\ Len(<<>>) = 0 /\ DOMAIN <<>> = {}
  OBVIOUS
<1>2. Len(<<>>) <= DirectExtents
  BY <1>1, Constants
<1>3. <<>> \in UNION {[1 .. n -> [start : DataBlock, length : 1 .. MaxExtentLength]] :
                        n \in 0 .. DirectExtents}
  BY <1>1, <1>2, SeqIsDirect, Zenon
<1>4. 0 \in 0 .. MaxExtents
  BY Constants
<1>5. Empty \in EntryType
  BY <1>3, <1>4 DEF Empty, EntryType
<1>6. /\ Empty.direct = <<>> /\ Empty.count = 0 /\ Empty.mode = "free"
      /\ Empty.extblk = 0 /\ Empty.dirBlock = 0
  BY DEF Empty
<1>7. /\ Junk \in EntryType /\ Junk.mode = "junk" /\ Junk.direct = <<>> /\ Junk.count = 0
  BY <1>5, <1>6 DEF Junk, EntryType
<1> QED
  BY <1>1, <1>5, <1>6, <1>7 DEF Used

\* Where the sync stands after it went past slot s.
Passed(s) ==
    /\ s = sync.next /\ s \in Slot /\ sync.at = "table" /\ up /\ ~fault
    /\ UNCHANGED <<memory, durable, up, last, saved, taint, bigEndian>>
    /\ sync'.at = "table" /\ sync'.next = s + 1 /\ sync'.from = sync.from
    /\ sync.flaws \subseteq sync'.flaws /\ blame \subseteq blame'
    /\ sync'.flaws \ sync.flaws \subseteq blame'
    /\ SyncTyped' /\ HistoryTyped'

LEMMA Passing ==
    ASSUME Typed, Syncing("table"), HasRoom, NEW buf, TableTyped(buf),
           NEW flaws \in SUBSET Flaw, FillNext(buf, flaws), fault' \in BOOLEAN,
           sync.next = 0 => buf[0].mode = "dir",
           sync.next > 0 /\ sync.from = 0 => buf[0].mode = sync.buf[0].mode
    PROVE  Passed(sync.next) /\ sync'.buf = buf /\ sync'.flaws = sync.flaws \cup flaws
           /\ sync.next >= sync.from
<1>1. SyncTyped /\ HistoryTyped
  BY DEF Typed
<1>2. sync.next \in Slot /\ sync.next \in Nat /\ sync.from \in Nat /\ sync.from <= sync.next
      /\ sync.next < MaxFileCount
  BY <1>1, Constants DEF SyncTyped, HasRoom, Slot
<1>3. /\ sync' = [sync EXCEPT !.next = @ + 1, !.buf = buf, !.flaws = @ \cup flaws]
      /\ blame' = blame \cup flaws
      /\ UNCHANGED <<memory, durable, up, last, saved, taint, bigEndian, spent>>
  BY DEF FillNext, Blame
<1>4. sync.next + 1 \in 0 .. MaxFileCount
  BY <1>2, Constants
<1>5. buf \in [Slot -> EntryType]
  BY DEF TableTyped
<1>6. /\ sync'.at = sync.at /\ sync'.next = sync.next + 1 /\ sync'.from = sync.from
      /\ sync'.buf = buf /\ sync'.flaws = sync.flaws \cup flaws
      /\ sync' \in [at : {"idle", "table", "bitmap", "flush"}, next : 0 .. MaxFileCount,
                 from : 0 .. MaxFileCount, buf : [Slot -> EntryType], flaws : SUBSET Flaw]
  BY <1>1, <1>3, <1>4, <1>5 DEF SyncTyped
<1>7. sync.at = "table" /\ up /\ ~fault
  BY DEF Syncing
<1>8. sync'.from <= sync'.next
  BY <1>2, <1>6
<1>9. sync'.from = 0 => buf[0].mode = "dir"
  BY <1>1, <1>2, <1>6, <1>7 DEF SyncTyped
<1>10. SyncTyped'
  <2> HIDE DEF TableTyped
  <2>1. TableTyped(sync'.buf) /\ sync'.at = "table"
    BY <1>6, <1>7
  <2> QED
    BY <1>6, <1>8, <1>9, <2>1 DEF SyncTyped
<1>11. HistoryTyped'
  BY <1>1, <1>3 DEF HistoryTyped
<1> QED
  BY <1>2, <1>3, <1>6, <1>7, <1>10, <1>11 DEF Passed

LEMMA PassSlotTyped ==
    ASSUME Typed, PassSlot
    PROVE  /\ Passed(sync.next) /\ sync'.buf = sync.buf /\ sync'.flaws = sync.flaws
           /\ table[sync.next].mode \in {"free", "junk"} /\ now' = now
<1>1. Syncing("table") /\ HasRoom /\ FillNext(sync.buf, {}) /\ UNCHANGED <<now, fault>>
      /\ table[sync.next].mode \in {"free", "junk"}
  BY DEF PassSlot
<1>2. TableTyped(sync.buf) /\ fault' \in BOOLEAN
  BY <1>1 DEF Typed, SyncTyped, HistoryTyped
<1>3. sync.next # 0
  BY <1>1 DEF Typed, MemoryTyped, Syncing
<1>4. {} \in SUBSET Flaw
  OBVIOUS
<1>5. Passed(sync.next) /\ sync'.buf = sync.buf /\ sync'.flaws = sync.flaws \cup {}
  BY <1>1, <1>2, <1>3, <1>4, Passing
<1> QED
  BY <1>1, <1>5

\* A directory, which is the root.
FilledDir ==
    /\ Passed(0) /\ table[0].mode = "dir"
    /\ sync'.buf = [sync.buf EXCEPT ![0] = table[0]]
    /\ NamesFlaws(table[0]) \subseteq sync'.flaws
    /\ sync'.flaws \ sync.flaws \subseteq {"names unsaved", "write failed"}
    /\ \/ /\ now' = now
          /\ SavesNames(table[0]) => "write failed" \in sync'.flaws
       \/ /\ SavesNames(table[0]) /\ table[0].dirBlock \in DataBlock
          /\ BlockPut(table[0].dirBlock, NameBlock(names))

LEMMA FillDirTyped ==
    ASSUME Typed, FillDir
    PROVE  FilledDir /\ fault' = fault
<1>1. Syncing("table") /\ HasRoom /\ table[sync.next].mode = "dir" /\ fault' = fault
  BY DEF FillDir
<1>2. MemoryTyped /\ SyncTyped /\ HistoryTyped /\ TableTyped(table) /\ TableTyped(sync.buf)
  BY DEF Typed, MemoryTyped, SyncTyped
<1>3. sync.next = 0
  <2>1. sync.next \in Slot
    BY <1>1, <1>2, Constants DEF SyncTyped, HasRoom, Slot
  <2> QED
    BY <1>1, <1>2, <2>1 DEF TableTyped
<1>4. table[0] \in EntryType /\ 0 \in Slot
  BY <1>2, Constants DEF TableTyped
<1> DEFINE buf == [sync.buf EXCEPT ![0] = table[0]]
<1>5. TableTyped(buf) /\ buf[0].mode = "dir"
  BY <1>1, <1>2, <1>3, <1>4 DEF TableTyped
<1>6. PICK ok \in BOOLEAN :
        /\ IF ok /\ SavesNames(table[0])
           THEN Put([l \in {BlockAt(table[0].dirBlock)} |-> NameBlock(names)])
           ELSE UNCHANGED now
        /\ ~ok => SavesNames(table[0])
        /\ FillNext(buf, NamesFlaws(table[0]) \cup (IF ok THEN {} ELSE {"write failed"}))
  BY <1>3 DEF FillDir
<1> HIDE DEF buf
<1> DEFINE flaws == NamesFlaws(table[0]) \cup (IF ok THEN {} ELSE {"write failed"})
<1>7. flaws \in SUBSET Flaw /\ flaws \subseteq {"names unsaved", "write failed"}
      /\ NamesFlaws(table[0]) \subseteq flaws /\ (~ok => "write failed" \in flaws)
  BY DEF NamesFlaws, Flaw
<1> HIDE DEF flaws
<1>8. FillNext(buf, flaws) /\ fault' \in BOOLEAN
  BY <1>1, <1>2, <1>6 DEF flaws, HistoryTyped
<1>9. /\ Passed(0) /\ sync'.buf = buf /\ sync'.flaws = sync.flaws \cup flaws
  <2>1. ~(sync.next > 0)
    BY <1>3
  <2>2. Passed(sync.next) /\ sync'.buf = buf /\ sync'.flaws = sync.flaws \cup flaws
    BY <1>1, <1>5, <1>7, <1>8, <2>1, Passing
  <2> QED
    BY <1>3, <2>2
<1>10. CASE ok /\ SavesNames(table[0])
  <2>1. table[0].dirBlock \in DataBlock
    BY <1>4, <1>10 DEF SavesNames, EntryType
  <2>2. BlockPut(table[0].dirBlock, NameBlock(names))
    BY <1>6, <1>10, <2>1, PuttingABlock
  <2> QED
    BY <1>1, <1>3, <1>7, <1>9, <1>10, <2>1, <2>2 DEF FilledDir, buf
<1>11. CASE ~(ok /\ SavesNames(table[0]))
  <2>1. now' = now
    BY <1>6, <1>11
  <2> QED
    BY <1>1, <1>3, <1>6, <1>7, <1>9, <1>11, <2>1 DEF FilledDir, buf
<1> QED
  BY <1>10, <1>11

FilledFile(s) ==
    /\ Passed(s) /\ table[s].mode = "file" /\ s > 0
    /\ sync'.buf[s] = table[s]
    /\ \A r \in Slot : r # s => sync'.buf[r] = sync.buf[r]
                                \/ (r > s /\ sync'.buf[r] = Junk /\ "spilt" \in sync'.flaws)
    /\ ListFlaws(table[s]) \subseteq sync'.flaws
    /\ \/ /\ now' = now
          /\ SavesList(table[s], s) => "write failed" \in sync'.flaws
       \/ /\ SavesList(table[s], s) /\ table[s].extblk \in DataBlock
          /\ BlockPut(table[s].extblk, ListBlock(list[s]))

LEMMA FillFileTyped ==
    ASSUME Typed, FillFile
    PROVE  FilledFile(sync.next)
<1> DEFINE s == sync.next
           e == table[s]
<1>1. Syncing("table") /\ HasRoom /\ e.mode = "file"
      /\ fault' = (\E r \in Spilt(s) : r >= sync.from + BufEntries)
  BY DEF FillFile
<1>2. MemoryTyped /\ SyncTyped /\ HistoryTyped /\ TableTyped(table) /\ TableTyped(sync.buf)
      /\ table[0].mode = "dir"
  BY <1>1 DEF Typed, MemoryTyped, SyncTyped, Syncing
<1>3. s \in Slot /\ s > 0
  <2>1. sync.next \in Slot
    BY <1>1, <1>2, Constants DEF SyncTyped, HasRoom, Slot
  <2>2. s # 0
    BY <1>1, <1>2
  <2> QED
    BY <2>1, <2>2 DEF Slot
<1>4. e \in EntryType
  BY <1>2, <1>3 DEF TableTyped
<1>5. \A r \in Spilt(s) : r > s
  <2>1. \A n : \A r \in (s + 1) .. n : r > s
    BY <1>3 DEF Slot
  <2> QED
    BY <2>1 DEF Spilt
<1> DEFINE buf == [r \in Slot |-> IF r = s THEN e ELSE IF r \in Spilt(s) THEN Junk
                                  ELSE sync.buf[r]]
<1>6. PICK ok \in BOOLEAN :
        /\ IF ok /\ SavesList(e, s)
           THEN Put([l \in {BlockAt(e.extblk)} |-> ListBlock(list[s])])
           ELSE UNCHANGED now
        /\ ~ok => SavesList(e, s)
        /\ FillNext(buf, (IF Spilt(s) = {} THEN {} ELSE {"spilt"})
                           \cup ListFlaws(e) \cup (IF ok THEN {} ELSE {"write failed"}))
  BY DEF FillFile
<1> DEFINE flaws == (IF Spilt(s) = {} THEN {} ELSE {"spilt"})
                      \cup ListFlaws(e) \cup (IF ok THEN {} ELSE {"write failed"})
<1>7. flaws \in SUBSET Flaw /\ ListFlaws(e) \subseteq flaws
      /\ (~ok => "write failed" \in flaws) /\ (Spilt(s) # {} => "spilt" \in flaws)
  BY DEF ListFlaws, Flaw
<1>8. TableTyped(buf)
  <2>2. \A r \in Slot : buf[r] = IF r = s THEN e ELSE IF r \in Spilt(s) THEN Junk
                                  ELSE sync.buf[r]
    OBVIOUS
  <2>3. buf = [r \in Slot |-> buf[r]]
    OBVIOUS
  <2> HIDE DEF buf
  <2> DEFINE Good(x, r) ==
        /\ x \in EntryType
        /\ Len(x.direct) = IF x.count < DirectExtents THEN x.count ELSE DirectExtents
        /\ \A k \in DOMAIN x.direct : BlocksOf(x.direct[k]) \subseteq DataBlock
        /\ x.mode = "free" => x.extblk = 0 /\ x.dirBlock = 0
        /\ x.mode = "dir" => r = 0
  <2>4. Good(e, s)
    BY <1>2, <1>3 DEF TableTyped
  <2>5. \A r \in Slot : Good(Junk, r)
    BY EmptyAndJunk, Constants
  <2>6. \A r \in Slot : Good(sync.buf[r], r)
    BY <1>2 DEF TableTyped
  <2>7. \A r \in Slot : Good(buf[r], r)
    <3> HIDE DEF Good
    <3> QED
      BY <2>2, <2>4, <2>5, <2>6
  <2> QED
    BY <2>3, <2>7 DEF TableTyped
<1>9. /\ buf[0] = sync.buf[0] /\ buf[s] = e
      /\ \A r \in Slot : r # s => buf[r] = sync.buf[r] \/ (r \in Spilt(s) /\ buf[r] = Junk)
  <2>1. ~(0 > s) /\ 0 \in Slot
    BY <1>3, Constants DEF Slot
  <2>2. 0 \notin Spilt(s) /\ 0 # s
    BY <1>3, <1>5, <2>1
  <2>3. \A r \in Slot : buf[r] = IF r = s THEN e ELSE IF r \in Spilt(s) THEN Junk
                                  ELSE sync.buf[r]
    OBVIOUS
  <2> HIDE DEF buf, e
  <2> QED
    BY <1>3, <2>1, <2>2, <2>3
<1> HIDE DEF flaws, buf
<1>10. FillNext(buf, flaws) /\ fault' \in BOOLEAN
  BY <1>1, <1>6 DEF flaws
<1>11. /\ Passed(s) /\ sync'.buf = buf /\ sync'.flaws = sync.flaws \cup flaws
  <2>1. sync.next = 0 => buf[0].mode = "dir"
    BY <1>3
  <2>2. sync.next > 0 /\ sync.from = 0 => buf[0].mode = sync.buf[0].mode
    BY <1>9
  <2>3. Passed(sync.next) /\ sync'.buf = buf /\ sync'.flaws = sync.flaws \cup flaws
    BY <1>1, <1>7, <1>8, <1>10, <2>1, <2>2, Passing
  <2> QED
    BY <2>3
<1>12. \A r \in Slot : r # s => sync'.buf[r] = sync.buf[r]
                                \/ (r > s /\ sync'.buf[r] = Junk /\ "spilt" \in sync'.flaws)
  <2>1. Spilt(s) # {} => "spilt" \in sync'.flaws
    BY <1>7, <1>11
  <2> QED
    BY <1>5, <1>9, <1>11, <2>1
<1>13. CASE ok /\ SavesList(e, s)
  <2>1. e.extblk \in DataBlock
    BY <1>4, <1>13 DEF SavesList, EntryType
  <2>2. BlockPut(e.extblk, ListBlock(list[s]))
    BY <1>6, <1>13, <2>1, PuttingABlock
  <2> QED
    BY <1>1, <1>3, <1>7, <1>9, <1>11, <1>12, <1>13, <2>1, <2>2 DEF FilledFile
<1>14. CASE ~(ok /\ SavesList(e, s))
  <2>1. now' = now
    BY <1>6, <1>14
  <2> QED
    BY <1>1, <1>3, <1>6, <1>7, <1>9, <1>11, <1>12, <1>14, <2>1 DEF FilledFile
<1> QED
  BY <1>13, <1>14
\* The buffer as kmalloc gave it, or cleared.
LEMMA FreshBuffer ==
    ASSUME NEW found \in {Empty, Junk}
    PROVE  TableTyped([s \in Slot |-> found])
<1>1. /\ found \in EntryType /\ Len(found.direct) = 0 /\ found.count = 0
      /\ DOMAIN found.direct = {}
  BY EmptyAndJunk
<1>2. /\ found.mode # "dir"
      /\ found.mode = "free" => found.extblk = 0 /\ found.dirBlock = 0
  BY EmptyAndJunk
<1> QED
  BY <1>1, <1>2, Constants DEF TableTyped

LEMMA IdleTyped ==
    /\ TableTyped(SyncIdle.buf) /\ SyncIdle.at = "idle"
    /\ SyncIdle.next = 0 /\ SyncIdle.from = 0 /\ SyncIdle.flaws = {}
    /\ SyncIdle \in [at : {"idle", "table", "bitmap", "flush"}, next : 0 .. MaxFileCount,
                 from : 0 .. MaxFileCount, buf : [Slot -> EntryType], flaws : SUBSET Flaw]
<1>1. TableTyped([s \in Slot |-> Empty])
  BY FreshBuffer
<1>2. [s \in Slot |-> Empty] \in [Slot -> EntryType] /\ 0 \in 0 .. MaxFileCount
  BY <1>1, Constants DEF TableTyped
<1> QED
  BY <1>1, <1>2 DEF SyncIdle

Started(found) ==
    /\ up /\ ~fault /\ sync.at = "idle" /\ found \in {Empty, Junk}
    /\ UNCHANGED <<memory, storage, up, last, taint, fault, bigEndian>>
    /\ saved' = NoImage
    /\ sync'.at = "table" /\ sync'.next = 0 /\ sync'.from = 0
    /\ sync'.buf = [s \in Slot |-> found]
    /\ sync'.flaws = (IF found = Junk THEN {"heap"} ELSE {})
    /\ blame' = blame \cup {"torn"} \cup sync'.flaws
    /\ SyncTyped' /\ HistoryTyped'

LEMMA StartSyncTyped ==
    ASSUME Typed, StartSync
    PROVE  \E found \in {Empty, Junk} : Started(found)
<1>1. PICK found \in {Empty, Junk} :
        /\ sync' = [SyncIdle EXCEPT !.at = "table", !.buf = [s \in Slot |-> found],
                                    !.flaws = IF found = Junk THEN {"heap"} ELSE {}]
        /\ Blame({"torn"} \cup (IF found = Junk THEN {"heap"} ELSE {}))
  BY DEF StartSync
<1> DEFINE flaws == IF found = Junk THEN {"heap"} ELSE {}
           buf == [s \in Slot |-> found]
<1>2. flaws \in SUBSET Flaw
  BY DEF Flaw
<1>3. TableTyped(buf)
  BY FreshBuffer
<1>4. buf \in [Slot -> EntryType]
  BY <1>3 DEF TableTyped
<1> HIDE DEF flaws, buf
<1>5. sync' = [SyncIdle EXCEPT !.at = "table", !.buf = buf, !.flaws = flaws]
  BY <1>1 DEF flaws, buf
<1>6. /\ sync'.at = "table" /\ sync'.next = 0 /\ sync'.from = 0 /\ sync'.buf = buf
      /\ sync'.flaws = flaws
      /\ sync' \in [at : {"idle", "table", "bitmap", "flush"}, next : 0 .. MaxFileCount,
                 from : 0 .. MaxFileCount, buf : [Slot -> EntryType], flaws : SUBSET Flaw]
  BY <1>2, <1>4, <1>5, IdleTyped
<1>7. SyncTyped'
  BY <1>3, <1>6 DEF SyncTyped
<1>8. /\ Syncing("idle") /\ saved' = NoImage
      /\ UNCHANGED <<memory, storage, up, last, taint, fault, bigEndian>>
  BY DEF StartSync
<1>9. blame' = blame \cup {"torn"} \cup flaws
  BY <1>1 DEF Blame, flaws
<1>10. HistoryTyped'
  BY <1>2, <1>8, <1>9 DEF Typed, HistoryTyped, Flaw
<1> QED
  BY <1>6, <1>7, <1>8, <1>9, <1>10 DEF Started, Syncing, flaws, buf

\* The buffer was written.
BufferOut ==
    /\ up /\ ~fault /\ sync.at = "table" /\ sync.next > 0
    /\ UNCHANGED <<memory, durable, up, last, history, fault, bigEndian>>
    /\ EntriesPut(sync.from .. (sync.next - 1), sync.buf)
    /\ sync'.at = (IF sync.next = MaxFileCount THEN "bitmap" ELSE "table")
    /\ sync'.next = sync.next /\ sync'.from = sync.next
    /\ sync'.buf = [s \in Slot |-> Empty] /\ sync'.flaws = sync.flaws
    /\ SyncTyped' /\ HistoryTyped'

LEMMA WriteBufferTyped ==
    ASSUME Typed, WriteBuffer
    PROVE  BufferOut /\ StorageTyped(now')
<1>1. Syncing("table") /\ ~HasRoom
      /\ UNCHANGED <<memory, durable, up, last, history, fault, bigEndian>>
  BY DEF WriteBuffer
<1>2. SyncTyped /\ StorageTyped(now) /\ TableTyped(sync.buf)
  BY DEF Typed, SyncTyped
<1>3. /\ sync.next \in 0 .. MaxFileCount /\ sync.from \in 0 .. MaxFileCount
      /\ sync.from <= sync.next
  BY <1>2 DEF SyncTyped
<1>4. sync.next > 0
  BY <1>1, <1>3, Constants DEF HasRoom
<1> DEFINE filled == sync.from .. (sync.next - 1)
<1>5. filled \in SUBSET Slot
  BY <1>3, Constants DEF Slot
<1>6. /\ Put([l \in {EntryAt(s) : s \in filled} |-> sync.buf[l[2]]])
      /\ sync' = [sync EXCEPT !.from = sync.next, !.buf = [s \in Slot |-> Empty],
                              !.at = IF sync.next = MaxFileCount THEN "bitmap" ELSE @]
  BY DEF WriteBuffer
<1>7. EntriesPut(filled, sync.buf)
  <2> HIDE DEF filled
  <2> QED
    BY <1>5, <1>6, PuttingEntries
<1>8. StorageTyped(now')
  <2>1. 0 \in filled => sync.buf[0].mode = "dir"
    BY <1>1, <1>2, <1>3, <1>4 DEF SyncTyped, Syncing
  <2> HIDE DEF filled
  <2> QED
    BY <1>2, <1>5, <1>7, <2>1, EntriesPutTyped
<1> DEFINE buf == [s \in Slot |-> Empty]
           at == IF sync.next = MaxFileCount THEN "bitmap" ELSE "table"
<1>9. TableTyped(buf)
  BY FreshBuffer
<1>10. buf \in [Slot -> EntryType]
  BY <1>9 DEF TableTyped
<1> HIDE DEF buf
<1>11. /\ sync'.at = at /\ sync'.next = sync.next /\ sync'.from = sync.next
       /\ sync'.buf = buf /\ sync'.flaws = sync.flaws
       /\ sync' \in [at : {"idle", "table", "bitmap", "flush"}, next : 0 .. MaxFileCount,
                 from : 0 .. MaxFileCount, buf : [Slot -> EntryType], flaws : SUBSET Flaw]
  <2>1. sync' = [sync EXCEPT !.from = sync.next, !.buf = buf, !.at = at]
    BY <1>1, <1>6 DEF buf, Syncing
  <2> QED
    BY <1>2, <1>3, <1>10, <2>1 DEF SyncTyped
<1>12. SyncTyped'
  BY <1>3, <1>4, <1>9, <1>11 DEF SyncTyped
<1>13. HistoryTyped'
  BY <1>1 DEF Typed, HistoryTyped, history
<1> QED
  BY <1>1, <1>4, <1>7, <1>8, <1>11, <1>12, <1>13 DEF BufferOut, Syncing, buf

BitmapOut ==
    /\ up /\ ~fault /\ sync.at = "bitmap"
    /\ UNCHANGED <<memory, durable, up, last, history, fault, bigEndian>>
    /\ BitmapPut(bitmap)
    /\ sync'.at = "flush" /\ sync'.next = sync.next /\ sync'.from = sync.from
    /\ sync'.buf = sync.buf /\ sync'.flaws = sync.flaws
    /\ SyncTyped' /\ HistoryTyped'

LEMMA WriteBitmapTyped ==
    ASSUME Typed, WriteBitmap
    PROVE  BitmapOut /\ StorageTyped(now')
<1>1. Syncing("bitmap") /\ Put([l \in {BitmapAt} |-> bitmap])
      /\ sync' = [sync EXCEPT !.at = "flush"]
      /\ UNCHANGED <<memory, durable, up, last, history, fault, bigEndian>>
  BY DEF WriteBitmap
<1>2. SyncTyped /\ StorageTyped(now) /\ bitmap \in SUBSET DataBlock
  BY DEF Typed, MemoryTyped
<1>3. BitmapPut(bitmap)
  BY <1>1, PuttingTheBitmap
<1>4. StorageTyped(now')
  BY <1>2, <1>3, BitmapPutTyped
<1>5. /\ sync'.at = "flush" /\ sync'.next = sync.next /\ sync'.from = sync.from
      /\ sync'.buf = sync.buf /\ sync'.flaws = sync.flaws
      /\ sync' \in [at : {"idle", "table", "bitmap", "flush"}, next : 0 .. MaxFileCount,
                 from : 0 .. MaxFileCount, buf : [Slot -> EntryType], flaws : SUBSET Flaw]
  BY <1>1, <1>2 DEF SyncTyped
<1>6. SyncTyped'
  BY <1>1, <1>2, <1>5 DEF SyncTyped, Syncing
<1>7. HistoryTyped'
  BY <1>1 DEF Typed, HistoryTyped, history
<1> QED
  BY <1>1, <1>3, <1>4, <1>5, <1>6, <1>7 DEF BitmapOut, Syncing

LEMMA IdleSync ==
    ASSUME sync' = SyncIdle
    PROVE  SyncTyped' /\ sync'.at = "idle"
BY IdleTyped DEF SyncTyped

LEMMA FlushTyped ==
    ASSUME Typed, Flush
    PROVE  SyncTyped' /\ HistoryTyped' /\ sync'.at = "idle" /\ up' /\ up /\ UNCHANGED memory
<1>1. /\ Syncing("flush") /\ sync' = SyncIdle /\ last' = "ok"
      /\ blame' = taint \cup sync.flaws
      /\ UNCHANGED <<memory, now, up, taint, fault, bigEndian>>
  BY DEF Flush
<1>2. sync.flaws \subseteq Flaw
  BY DEF Typed, SyncTyped
<1> QED
  BY <1>1, <1>2, IdleSync DEF Typed, HistoryTyped, Syncing

LEMMA GiveUpTyped ==
    ASSUME Typed, GiveUp
    PROVE  /\ SyncTyped' /\ HistoryTyped' /\ sync'.at = "idle" /\ up' /\ up
           /\ UNCHANGED <<memory, storage, history, fault, bigEndian>>
<1>1. /\ up /\ sync' = SyncIdle /\ last' = "failed"
      /\ UNCHANGED <<memory, storage, up, history, fault, bigEndian, spent>>
  BY DEF GiveUp
<1> QED
  BY <1>1, IdleSync DEF Typed, HistoryTyped, history

LEMMA LoseTyped ==
    ASSUME Typed, Lose
    PROVE  /\ SyncTyped' /\ HistoryTyped' /\ Gone' /\ MemoryTyped' /\ NoNewJunk
           /\ up /\ ~up' /\ sync'.at = "idle" /\ taint' = {}
           /\ UNCHANGED <<saved, blame, fault, bigEndian>>
<1>1. /\ up /\ up' = FALSE /\ table' = [s \in Slot |-> Empty]
      /\ list' = [s \in Slot |-> NoList] /\ names' = NoNames /\ bitmap' = {}
      /\ sync' = SyncIdle /\ last' = "none" /\ taint' = {}
      /\ UNCHANGED <<saved, blame, fault, bigEndian>>
  BY DEF Lose
<1>2. TableTyped(table') /\ \A s \in Slot : table'[s].mode = "free"
  BY <1>1, FreshBuffer, EmptyAndJunk
<1>3. MemoryTyped'
  BY <1>1, <1>2 DEF MemoryTyped
<1>4. HistoryTyped'
  BY <1>1 DEF Typed, HistoryTyped
<1>5. Gone'
  BY <1>1, IdleSync DEF Gone
<1> QED
  BY <1>1, <1>2, <1>3, <1>4, <1>5, IdleSync DEF NoNewJunk

\* After a crash, each place is as it was on the device or in the page cache.
Mixed ==
    /\ now' = [l \in Loc |-> now'[l]]
    /\ durable' = now'
    /\ \A l \in Loc : now'[l] = now[l] \/ now'[l] = durable[l]

LEMMA CrashTyped ==
    ASSUME Typed, Crash
    PROVE  Mixed /\ StorageTyped(now') /\ Lose
<1>1. PICK kept \in SUBSET Dirty :
        now' = [l \in Loc |-> IF l \in kept THEN now[l] ELSE durable[l]]
  BY DEF Crash
<1>2. Mixed
  BY <1>1 DEF Mixed, Crash
<1>3. StorageTyped(now) /\ StorageTyped(durable)
  BY DEF Typed
<1>4. ASSUME NEW l \in Loc
      PROVE  now'[l] = now[l] \/ now'[l] = durable[l]
  BY <1>2 DEF Mixed
<1>5. TableTyped(TableOf(now'))
  <2>1. \A s \in Slot : TableOf(now')[s] \in {TableOf(now)[s], TableOf(durable)[s]}
    BY <1>4, Places DEF TableOf
  <2>2. TableOf(now') = [s \in Slot |-> TableOf(now')[s]]
    BY DEF TableOf
  <2>3. TableTyped(TableOf(now)) /\ TableTyped(TableOf(durable))
    BY <1>3 DEF StorageTyped
  <2> QED
    BY <2>1, <2>2, <2>3 DEF TableTyped
<1>6. now'[EntryAt(0)].mode = "dir"
  BY <1>3, <1>4, Places, Constants DEF StorageTyped
<1>7. \A b \in DataBlock : now'[BlockAt(b)] \in BlockType
  BY <1>3, <1>4, Places DEF StorageTyped
<1>8. now'[BitmapAt] \subseteq DataBlock
  BY <1>3, <1>4, Places DEF StorageTyped
<1>9. StorageTyped(now')
  BY <1>2, <1>5, <1>6, <1>7, <1>8 DEF StorageTyped, Mixed
<1> QED
  BY <1>2, <1>9 DEF Crash

Mounted(residue) ==
    /\ ~up /\ up'
    /\ table' = [s \in Slot |-> Read(now[EntryAt(s)], residue)]
    /\ bitmap' = now[BitmapAt] /\ taint' = blame
    /\ UNCHANGED <<list, names, storage, sync, last, saved, blame, fault, bigEndian>>
    /\ MemoryTyped' /\ SyncTyped' /\ HistoryTyped' /\ Gone'
    /\ \A s \in Slot : /\ table'[s].mode = now[EntryAt(s)].mode
                       /\ table'[s].mode # "free" => table'[s] = now[EntryAt(s)]

LEMMA MountTyped ==
    ASSUME Typed, Mount
    PROVE  \E residue : Mounted(residue)
<1>1. /\ ~up /\ up' = TRUE /\ bitmap' = now[BitmapAt] /\ taint' = blame
      /\ UNCHANGED <<list, names, storage, sync, last, saved, blame, fault, bigEndian>>
  BY DEF Mount
<1>2. PICK residue \in {0} \cup Residues :
        table' = [s \in Slot |-> Read(now[EntryAt(s)], residue)]
  BY DEF Mount
<1>3. TableTyped(TableOf(now)) /\ StorageTyped(now) /\ Gone
  BY DEF Typed, StorageTyped
<1> DEFINE x == [start |-> residue, length |-> 1]
           left == [Empty EXCEPT !.count = 1, !.direct = <<x>>]
<1>4. ASSUME residue # 0
      PROVE  /\ left \in EntryType /\ left.count = 1 /\ left.direct = <<x>>
             /\ left.mode = "free" /\ left.extblk = 0 /\ left.dirBlock = 0
             /\ Len(<<x>>) = 1 /\ DOMAIN <<x>> = {1} /\ <<x>>[1] = x
             /\ BlocksOf(x) \subseteq DataBlock
  <2>1. residue \in DataBlock
    BY <1>4, Constants
  <2>2. x \in FreeExtent
    BY <2>1, Constants DEF FreeExtent
  <2>3. BlocksOf(x) = {residue}
    BY <2>1, Constants DEF BlocksOf
  <2>4. /\ <<x>> \in Seq(FreeExtent) /\ Len(<<x>>) = 1
        /\ DOMAIN <<x>> = {1} /\ <<x>>[1] = x
    <3> HIDE DEF x
    <3> QED
      BY <2>2
  <2>5. Len(<<x>>) <= DirectExtents /\ 1 \in 0 .. MaxExtents
    BY <2>4, Constants
  <2> DEFINE q == <<x>>
  <2> HIDE DEF q
  <2>6. q \in UNION {[1 .. n -> [start : DataBlock, length : 1 .. MaxExtentLength]] :
                        n \in 0 .. DirectExtents}
    BY <2>4, <2>5, SeqIsDirect DEF q
  <2>7. /\ [Empty EXCEPT !.count = 1, !.direct = q] \in EntryType
        /\ [Empty EXCEPT !.count = 1, !.direct = q].count = 1
        /\ [Empty EXCEPT !.count = 1, !.direct = q].direct = q
        /\ [Empty EXCEPT !.count = 1, !.direct = q].mode = "free"
        /\ [Empty EXCEPT !.count = 1, !.direct = q].extblk = 0
        /\ [Empty EXCEPT !.count = 1, !.direct = q].dirBlock = 0
    BY <2>5, <2>6, EmptyAndJunk DEF EntryType
  <2> QED
    BY <2>1, <2>3, <2>4, <2>7 DEF q
<1>5. \A s \in Slot : table'[s] = IF now[EntryAt(s)].mode = "free" /\ residue # 0
                                  THEN left ELSE TableOf(now)[s]
  BY <1>2 DEF Read, TableOf
<1>6. \A s \in Slot : TableOf(now)[s] = now[EntryAt(s)]
  BY DEF TableOf
<1> HIDE DEF left
<1>7. TableTyped(table')
  <2> HIDE DEF x
  <2>1. \A k \in DOMAIN <<x>> : residue # 0 => BlocksOf(<<x>>[k]) \subseteq DataBlock
    BY <1>4
  <2>2. table' = [s \in Slot |-> table'[s]]
    BY <1>2
  <2> DEFINE Good(e, r) ==
        /\ e \in EntryType
        /\ Len(e.direct) = IF e.count < DirectExtents THEN e.count ELSE DirectExtents
        /\ \A k \in DOMAIN e.direct : BlocksOf(e.direct[k]) \subseteq DataBlock
        /\ e.mode = "free" => e.extblk = 0 /\ e.dirBlock = 0
        /\ e.mode = "dir" => r = 0
  <2>3. ASSUME residue # 0, NEW r \in Slot
        PROVE  Good(left, r)
    <3>1. 1 = IF 1 < DirectExtents THEN 1 ELSE DirectExtents
      BY Constants
    <3> QED
      BY <1>4, <2>1, <2>3, <3>1
  <2>4. \A r \in Slot : Good(TableOf(now)[r], r)
    BY <1>3 DEF TableTyped
  <2>5. \A r \in Slot : Good(table'[r], r)
    <3> HIDE DEF Good
    <3> QED
      BY <1>5, <2>3, <2>4
  <2> QED
    BY <2>2, <2>5 DEF TableTyped
<1>8. \A s \in Slot : /\ table'[s].mode = now[EntryAt(s)].mode
                      /\ table'[s].mode # "free" => table'[s] = now[EntryAt(s)]
  BY <1>4, <1>5, <1>6
<1>9. table'[0].mode = "dir"
  BY <1>3, <1>8, Constants DEF StorageTyped
<1>10. MemoryTyped'
  BY <1>1, <1>3, <1>7, <1>9 DEF MemoryTyped, Typed, StorageTyped, Gone
<1>11. SyncTyped' /\ HistoryTyped' /\ Gone'
  <2>1. SyncTyped /\ HistoryTyped
    BY DEF Typed
  <2>2. sync' = sync
    BY <1>1
  <2>3. SyncTyped'
    BY <2>1, <2>2 DEF SyncTyped
  <2> QED
    BY <1>1, <2>1, <2>3 DEF HistoryTyped, Gone
<1> QED
  BY <1>1, <1>2, <1>8, <1>10, <1>11 DEF Mounted
-----------------------------------------------------------------------------
(* Every step keeps the types.                                             *)

\* What storage and the sync notice of a call.
AnyCall ==
    /\ up /\ up' /\ durable' = durable /\ saved' = saved /\ bigEndian' = bigEndian
    /\ MemoryTyped' /\ SyncTyped' /\ HistoryTyped' /\ Gone' /\ NoNewJunk
    /\ sync'.at = sync.at /\ sync'.next = sync.next /\ sync'.from = sync.from
    /\ sync'.buf = sync.buf
    /\ sync.flaws \subseteq sync'.flaws /\ blame \subseteq blame' /\ taint \subseteq taint'
    /\ sync'.flaws \ sync.flaws \subseteq {"disturbed"} \cap blame'
    /\ sync.at # "idle" => "disturbed" \in sync'.flaws
    /\ \/ now' = now
       \/ \E b \in DataBlock : BlockPut(b, Data) /\ Overwrites(b, Stored) \subseteq blame'

ACall ==
    \/ LookUp \/ LookUpUnread \/ Create
    \/ \E s \in Slot : GrowDirect(s) \/ ReadFile(s) \/ GrowIndirect(s) \/ Rewrite(s)
                         \/ Remove(s) \/ Release(s)

LEMMA CalledIsCall ==
    ASSUME NEW hurt, NEW damage, Called(hurt, damage), MemoryTyped', NoNewJunk,
           \/ now' = now
           \/ \E b \in DataBlock : BlockPut(b, Data) /\ Overwrites(b, Stored) \subseteq damage
    PROVE  AnyCall
<1>1. \/ now' = now
      \/ \E b \in DataBlock : BlockPut(b, Data) /\ Overwrites(b, Stored) \subseteq blame'
  <2> HIDE DEF BlockPut, Overwrites
  <2> QED
    BY DEF Called
<1> QED
  BY <1>1 DEF Called, AnyCall

LEMMA CallsAreCalls ==
    ASSUME Typed, ACall
    PROVE  AnyCall
<1>1. CASE LookUp
  BY <1>1, LookUpTyped, CalledIsCall
<1>2. CASE Create
  <2>1. PICK s \in Slot :
           /\ table[s].mode = "free"
           /\ Call(IF table[s].count = 0 THEN {} ELSE {"residue"}, {})
           /\ table' = WithRootBlock([table EXCEPT ![s].mode = "file"])
           /\ names' = RootNames \cup {s} /\ bitmap' = bitmap \cup NewRootBlock
           /\ list' = list /\ now' = now
    BY <1>2 DEF Create
  <2>2. /\ Called(IF table[s].count = 0 THEN {} ELSE {"residue"}, {})
        /\ MemoryTyped' /\ NoNewJunk
    BY <2>1, CreateTyped
  <2> QED
    BY <2>1, <2>2, CalledIsCall
<1>3. ASSUME NEW s \in Slot, GrowDirect(s)
      PROVE  AnyCall
  <2>1. PICK x \in FirstExtent(FreeExtents(bitmap)) :
           /\ table' = [table EXCEPT ![s].direct = Append(@, x), ![s].count = @ + 1]
           /\ bitmap' = SetAllocated(bitmap, x) /\ WriteBlock(x.start, table')
    BY <1>3 DEF GrowDirect
  <2>2. /\ Called(Overwrites(x.start, table'),
                  Overwrites(x.start, table') \cup Overwrites(x.start, Stored))
        /\ BlockPut(x.start, Data) /\ MemoryTyped' /\ NoNewJunk
    BY <1>3, <2>1, GrowDirectTyped
  <2>3. x.start \in DataBlock
    BY TakenExtent
  <2> QED
    BY <2>2, <2>3, CalledIsCall
<1>4. ASSUME NEW s \in Slot, ReadFile(s)
      PROVE  AnyCall
  BY <1>4, ReadFileTyped, CalledIsCall
<1>5. ASSUME NEW s \in Slot, GrowIndirect(s)
      PROVE  AnyCall
  <2>1. PICK x \in FirstExtent(FreeExtents(bitmap)) :
           /\ list' = [list EXCEPT ![s] = Append(LoadedList(s), Item(x, "right"))]
           /\ table' = [WithListBlock(s) EXCEPT ![s].count = @ + 1]
           /\ bitmap' = SetAllocated(bitmap \cup NewListBlock(s), x)
           /\ WriteBlock(x.start, table')
    BY <1>5 DEF GrowIndirect
  <2>2. /\ Called(Overwrites(x.start, table'),
                  Overwrites(x.start, table') \cup Overwrites(x.start, Stored))
        /\ BlockPut(x.start, Data) /\ MemoryTyped' /\ NoNewJunk
    BY <1>5, <2>1, GrowIndirectTyped
  <2>3. x.start \in DataBlock
    BY TakenExtent
  <2> QED
    BY <2>2, <2>3, CalledIsCall
<1>6. ASSUME NEW s \in Slot, Rewrite(s)
      PROVE  AnyCall
  <2>1. PICK b \in FileBlocks(s) : WriteBlock(b, table)
    BY <1>6 DEF Rewrite
  <2>2. /\ b \in DataBlock
        /\ Called(Overwrites(b, table), Overwrites(b, table) \cup Overwrites(b, Stored))
        /\ BlockPut(b, Data) /\ MemoryTyped' /\ NoNewJunk
    BY <1>6, <2>1, RewriteTyped
  <2> QED
    BY <2>2, CalledIsCall
<1>7. ASSUME NEW s \in Slot, Remove(s)
      PROVE  AnyCall
  BY <1>7, RemoveTyped, CalledIsCall
<1>8. ASSUME NEW s \in Slot, Release(s)
      PROVE  AnyCall
  BY <1>8, ReleaseTyped, CalledIsCall
<1>9. CASE LookUpUnread
  BY <1>9, LookUpUnreadTyped, CalledIsCall
<1> QED
  BY <1>1, <1>2, <1>3, <1>4, <1>5, <1>6, <1>7, <1>8, <1>9 DEF ACall

LEMMA BlocksTyped ==
    /\ Data \in BlockType /\ Data.items = <<>>
    /\ \A ns \in SUBSET Slot : NameBlock(ns) \in BlockType /\ NameBlock(ns).names = ns
                               /\ NameBlock(ns).items = <<>>
    /\ \A its \in Seq(ItemType) : ListBlock(its) \in BlockType /\ ListBlock(its).items = its
                                  /\ ListBlock(its).names = {}
<1>1. <<>> \in Seq(ItemType)
  OBVIOUS
<1> QED
  BY <1>1 DEF Data, BlockType, NameBlock, ListBlock

LEMMA CallKeepsTypes ==
    ASSUME Typed, AnyCall
    PROVE  Typed'
<1>1. StorageTyped(now')
  <2>1. CASE now' = now
    BY <2>1 DEF Typed
  <2>2. CASE \E b \in DataBlock : BlockPut(b, Data)
    BY <2>2, BlockPutTyped, BlocksTyped DEF Typed
  <2> QED
    BY <2>1, <2>2 DEF AnyCall
<1>2. StorageTyped(durable')
  BY DEF Typed, AnyCall
<1> QED
  BY <1>1, <1>2 DEF Typed, AnyCall, StorageTyped

LEMMA PassedKeepsTypes ==
    ASSUME Typed, NEW s, Passed(s),
           \/ now' = now
           \/ \E b \in DataBlock, v \in BlockType : BlockPut(b, v)
    PROVE  Typed'
<1>1. StorageTyped(now')
  <2>1. CASE now' = now
    BY <2>1 DEF Typed
  <2>2. CASE \E b \in DataBlock, v \in BlockType : BlockPut(b, v)
    BY <2>2, BlockPutTyped DEF Typed
  <2> QED
    BY <2>1, <2>2
<1>2. StorageTyped(durable') /\ MemoryTyped' /\ Gone'
  BY MemoryStays DEF Typed, Passed
<1> QED
  BY <1>1, <1>2 DEF Typed, Passed, StorageTyped

LEMMA FilledDirKeepsTypes ==
    ASSUME Typed, FilledDir
    PROVE  Typed'
<1>1. names # NoNames => names \in SUBSET Slot
  BY DEF Typed, MemoryTyped
<1>2. SavesNames(table[0]) => NameBlock(names) \in BlockType
  BY <1>1, BlocksTyped DEF SavesNames
<1>3. \/ now' = now
      \/ \E b \in DataBlock, v \in BlockType : BlockPut(b, v)
  BY <1>2 DEF FilledDir
<1>4. Passed(0)
  BY DEF FilledDir
<1> QED
  BY <1>3, <1>4, PassedKeepsTypes

LEMMA FilledFileKeepsTypes ==
    ASSUME Typed, NEW s, FilledFile(s)
    PROVE  Typed'
<1>1. Passed(s) /\ s \in Slot
  BY DEF FilledFile, Passed
<1>2. list[s] # NoList => list[s] \in Seq(ItemType)
  BY <1>1 DEF Typed, MemoryTyped
<1>3. SavesList(table[s], s) => ListBlock(list[s]) \in BlockType
  BY <1>2, BlocksTyped DEF SavesList
<1>4. \/ now' = now
      \/ \E b \in DataBlock, v \in BlockType : BlockPut(b, v)
  BY <1>3 DEF FilledFile
<1> QED
  BY <1>1, <1>4, PassedKeepsTypes

LEMMA TypedStep ==
    ASSUME Typed, [Next]_vars
    PROVE  Typed'
<1>1. CASE ACall
  BY <1>1, CallsAreCalls, CallKeepsTypes
<1>2. CASE StartSync
  <2>1. PICK found \in {Empty, Junk} : Started(found)
    BY <1>2, StartSyncTyped
  <2>2. UNCHANGED <<memory, up, storage>> /\ up /\ SyncTyped' /\ HistoryTyped'
    BY <2>1 DEF Started
  <2> QED
    BY <2>2, MemoryStays DEF Typed, StorageTyped, storage
<1>3. CASE FillFile
  BY <1>3, FillFileTyped, FilledFileKeepsTypes
<1>4. CASE FillDir
  BY <1>4, FillDirTyped, FilledDirKeepsTypes
<1>5. CASE PassSlot
  BY <1>5, PassSlotTyped, PassedKeepsTypes
<1>6. CASE WriteBuffer
  <2>1. BufferOut /\ StorageTyped(now')
    BY <1>6, WriteBufferTyped
  <2>2. UNCHANGED <<memory, up, durable>> /\ up /\ SyncTyped' /\ HistoryTyped'
    BY <2>1 DEF BufferOut
  <2> QED
    BY <2>1, <2>2, MemoryStays DEF Typed, StorageTyped
<1>7. CASE WriteBitmap
  <2>1. BitmapOut /\ StorageTyped(now')
    BY <1>7, WriteBitmapTyped
  <2>2. UNCHANGED <<memory, up, durable>> /\ up /\ SyncTyped' /\ HistoryTyped'
    BY <2>1 DEF BitmapOut
  <2> QED
    BY <2>1, <2>2, MemoryStays DEF Typed, StorageTyped
<1>8. CASE Flush
  <2>1. SyncTyped' /\ HistoryTyped' /\ up' /\ up /\ UNCHANGED memory
    BY <1>8, FlushTyped
  <2>2. now' = now /\ durable' = now
    BY <1>8 DEF Flush
  <2>3. UNCHANGED <<memory, up>>
    BY <1>8 DEF Flush
  <2> QED
    BY <2>1, <2>2, <2>3, MemoryStays DEF Typed, StorageTyped
<1>9. CASE GiveUp
  <2>1. SyncTyped' /\ HistoryTyped' /\ up' /\ up /\ UNCHANGED <<memory, storage>>
    BY <1>9, GiveUpTyped
  <2>2. UNCHANGED <<memory, up>>
    BY <1>9 DEF GiveUp
  <2> QED
    BY <2>1, <2>2, MemoryStays DEF Typed, StorageTyped, storage
<1>10. CASE Crash
  <2>1. Mixed /\ StorageTyped(now') /\ Lose
    BY <1>10, CrashTyped
  <2>2. StorageTyped(durable')
    BY <2>1 DEF Mixed
  <2> QED
    BY <2>1, <2>2, LoseTyped DEF Typed, StorageTyped
<1>11. CASE Unmount
  <2>1. Lose /\ UNCHANGED storage
    BY <1>11 DEF Unmount
  <2> QED
    BY <2>1, LoseTyped DEF Typed, StorageTyped, storage
<1>12. CASE Mount
  <2>1. PICK residue : Mounted(residue)
    BY <1>12, MountTyped
  <2> QED
    BY <2>1 DEF Mounted, Typed, StorageTyped, storage
<1>13. CASE UNCHANGED vars
  <2>1. UNCHANGED <<memory, storage, sync, up, last, blame, taint, fault, bigEndian>>
    BY <1>13 DEF vars, history
  <2>2. SyncTyped' /\ HistoryTyped'
    BY <2>1 DEF Typed, SyncTyped, HistoryTyped
  <2>3. MemoryTyped' /\ Gone'
    BY <2>1 DEF Typed, MemoryTyped, Gone, memory
  <2> QED
    BY <2>1, <2>2, <2>3 DEF Typed, StorageTyped, storage
<1>14. CASE LookUpFreed
  <2>1. UNCHANGED <<memory, storage, sync, up, last, blame, taint, bigEndian>> /\ fault' = TRUE
    BY <1>14 DEF LookUpFreed, history
  <2>2. SyncTyped' /\ HistoryTyped'
    BY <2>1 DEF Typed, SyncTyped, HistoryTyped
  <2>3. MemoryTyped' /\ Gone'
    BY <2>1 DEF Typed, MemoryTyped, Gone, memory
  <2> QED
    BY <2>1, <2>2, <2>3 DEF Typed, StorageTyped, storage
<1> QED
  BY <1>1, <1>2, <1>3, <1>4, <1>5, <1>6, <1>7, <1>8, <1>9, <1>10, <1>11, <1>12, <1>13, <1>14
     DEF Next, ACall
-----------------------------------------------------------------------------
(* The storage file that a history starts from.                            *)

Begun ==
    /\ table = NewTable /\ bitmap = {} /\ names = NoNames
    /\ list = [s \in Slot |-> NoList] /\ sync = SyncIdle
    /\ up /\ last = "none" /\ blame = {} /\ taint = {} /\ ~fault /\ bigEndian \in BOOLEAN
    /\ up = TRUE /\ fault = FALSE
    /\ durable = now /\ saved = Image
    /\ now = [l \in Loc |-> now[l]]
    /\ \A s \in Slot : now[EntryAt(s)] = NewTable[s]
    /\ \A b \in DataBlock : now[BlockAt(b)] = Data
    /\ now[BitmapAt] = {}

LEMMA Beginning ==
    ASSUME Init
    PROVE  Begun
<1>1. SavedWhole(NewTable, {}, LAMBDA b : Data, NoNames, NothingSpent)
  BY DEF Init
<1>2. now = [l \in Loc |-> CASE l[1] = "entry" -> NewTable[l[2]]
                             [] l[1] = "bitmap" -> {}
                             [] l[1] = "block" -> Data]
  BY <1>1 DEF SavedWhole, StoredAs
<1>3. \A s \in Slot : now[EntryAt(s)] = NewTable[s]
  <2>1. \A s : EntryAt(s)[1] = "entry" /\ EntryAt(s)[2] = s
    BY DEF EntryAt
  <2> QED
    BY <1>2, <2>1, Places
<1>4. \A b \in DataBlock : now[BlockAt(b)] = Data
  <2>1. \A b : BlockAt(b)[1] = "block"
    BY DEF BlockAt
  <2> QED
    BY <1>2, <2>1, Places
<1>5. now[BitmapAt] = {}
  <2>1. BitmapAt[1] = "bitmap"
    BY DEF BitmapAt
  <2> QED
    BY <1>2, <2>1, Places
<1>6. now = [l \in Loc |-> now[l]]
  <2> DEFINE held(l) == CASE l[1] = "entry" -> NewTable[l[2]]
                          [] l[1] = "bitmap" -> {}
                          [] l[1] = "block" -> Data
  <2>1. now = [l \in Loc |-> held(l)]
    BY <1>2
  <2> HIDE DEF held
  <2> QED
    BY <2>1
<1> QED
  BY <1>1, <1>3, <1>4, <1>5, <1>6 DEF SavedWhole, Begun, Init

LEMMA TypedInit ==
    ASSUME Init
    PROVE  Typed
<1>1. Begun
  BY Beginning
<1>2. /\ Root \in EntryType /\ Root.mode = "dir" /\ Root.count = 0
      /\ Len(Root.direct) = 0 /\ DOMAIN Root.direct = {}
  BY EmptyAndJunk DEF Root, Empty, EntryType
<1>3. TableTyped(NewTable) /\ NewTable[0].mode = "dir"
  <2>1. TableTyped([s \in Slot |-> Empty])
    BY FreshBuffer
  <2>2. TableTyped([[s \in Slot |-> Empty] EXCEPT ![0] = Root])
    <3>1. /\ Len(Root.direct) = IF Root.count < DirectExtents THEN Root.count
                                ELSE DirectExtents
          /\ \A k \in DOMAIN Root.direct : BlocksOf(Root.direct[k]) \subseteq DataBlock
          /\ Root.mode = "free" => Root.extblk = 0 /\ Root.dirBlock = 0
          /\ Root.mode = "dir" => 0 = 0
      BY <1>2, Constants
    <3> QED
      BY <1>2, <2>1, <3>1, Constants, EntryChanges
  <2>3. [[s \in Slot |-> Empty] EXCEPT ![0] = Root] = NewTable
    BY DEF NewTable
  <2> QED
    BY <1>2, <2>2, <2>3, Constants DEF NewTable
<1>4. \A s \in Slot : NewTable[s].mode # "junk"
  BY <1>2, EmptyAndJunk DEF NewTable
<1>5. TableOf(now) = NewTable
  BY <1>1 DEF TableOf, Begun, NewTable
<1>6. StorageTyped(now)
  BY <1>1, <1>3, <1>5, Constants, BlocksTyped DEF StorageTyped, Begun
<1>7. MemoryTyped
  BY <1>1, <1>3 DEF MemoryTyped, Begun
<1>8. SyncTyped
  BY <1>1, IdleTyped DEF SyncTyped, Begun
<1>9. HistoryTyped /\ Gone
  BY <1>1 DEF HistoryTyped, Gone, Begun
<1> QED
  BY <1>1, <1>6, <1>7, <1>8, <1>9 DEF Typed, Begun

LEMMA TypedIsTypeOK ==
    ASSUME Typed
    PROVE  TypeOK
<1>1. sync.at \in {"idle", "table", "bitmap", "flush"} /\ sync.next \in 0 .. MaxFileCount
      /\ sync.from \in 0 .. sync.next
  BY Constants DEF Typed, SyncTyped
<1>2. table \in [Slot -> EntryType] /\ (up => table[0].mode = "dir")
      /\ \A s \in Slot : Len(table[s].direct) = IF table[s].count < DirectExtents
                                              THEN table[s].count ELSE DirectExtents
  BY DEF Typed, MemoryTyped, TableTyped
<1>3. (names = NoNames \/ names \subseteq Slot) /\ bitmap \subseteq DataBlock
  BY DEF Typed, MemoryTyped
<1>4. last \in {"none", "ok", "failed"} /\ blame \cup taint \subseteq Flaw
  BY DEF Typed, HistoryTyped
<1> QED
  BY <1>1, <1>2, <1>3, <1>4 DEF TypeOK, Flaw

\* Every reachable state has its types: the slots of the table and of the
\* storage file, what a half-done sync has in its buffer, and the root, which
\* is a directory whenever the file system is mounted (portfs_fill_super,
\* portfs_sync_fs), for every size of the table, the buffer and the disk.
THEOREM SyncDiskTypeOK == Spec => []TypeOK
<1>1. Init => Typed
  BY TypedInit
<1>2. Typed /\ [Next]_vars => Typed'
  BY TypedStep
<1>3. Typed => TypeOK
  BY TypedIsTypeOK
<1> QED
  BY <1>1, <1>2, <1>3, PTL DEF Spec
-----------------------------------------------------------------------------
(* What a step is, once the types are known.                               *)

SlotPassed ==
    /\ Passed(sync.next) /\ sync'.buf = sync.buf /\ sync'.flaws = sync.flaws
    /\ table[sync.next].mode \in {"free", "junk"} /\ now' = now

Flushed ==
    /\ up /\ up' /\ sync.at = "flush" /\ sync'.at = "idle" /\ sync'.next = 0
    /\ UNCHANGED <<memory, now, taint, bigEndian>>
    /\ durable' = now /\ blame' = taint \cup sync.flaws
    /\ saved' = IF sync.flaws \subseteq {"heap", "spilt", "list unsaved"} THEN Image ELSE NoImage

GivenUp ==
    /\ up /\ up' /\ sync'.at = "idle" /\ UNCHANGED <<memory, storage, history, bigEndian>>

\* The memory is gone, after a crash or an unmount.
Emptied ==
    /\ up /\ ~up' /\ sync'.at = "idle" /\ taint' = {}
    /\ \A s \in Slot : table'[s] = Empty /\ list'[s] = NoList
    /\ UNCHANGED <<saved, blame, bigEndian>>

Stays == UNCHANGED <<memory, storage, sync, up, last, history, bigEndian>>

LEMMA WhatAStepIs ==
    ASSUME Typed, [Next]_vars
    PROVE  \/ ACall /\ AnyCall
           \/ \E found \in {Empty, Junk} : Started(found)
           \/ \E s \in Slot : FilledFile(s)
           \/ FilledDir
           \/ SlotPassed
           \/ BufferOut
           \/ BitmapOut
           \/ Flushed
           \/ GivenUp
           \/ Emptied /\ (Mixed \/ UNCHANGED storage)
           \/ \E residue : Mounted(residue)
           \/ Stays
<1>1. CASE ACall
  BY <1>1, CallsAreCalls
<1>2. CASE StartSync
  BY <1>2, StartSyncTyped
<1>3. CASE FillFile
  <2>1. FilledFile(sync.next)
    BY <1>3, FillFileTyped
  <2>2. sync.next \in Slot
    BY <2>1 DEF FilledFile, Passed
  <2> QED
    BY <2>1, <2>2
<1>4. CASE FillDir
  BY <1>4, FillDirTyped
<1>5. CASE PassSlot
  BY <1>5, PassSlotTyped DEF SlotPassed
<1>6. CASE WriteBuffer
  BY <1>6, WriteBufferTyped
<1>7. CASE WriteBitmap
  BY <1>7, WriteBitmapTyped
<1>8. CASE Flush
  BY <1>8, IdleTyped DEF Flush, Syncing, Flushed
<1>9. CASE GiveUp
  BY <1>9, IdleTyped DEF GiveUp, GivenUp
<1>10. ASSUME Lose
       PROVE  Emptied
  BY <1>10, IdleTyped DEF Lose, Emptied
<1>11. CASE Crash
  BY <1>10, <1>11, CrashTyped
<1>12. CASE Unmount
  BY <1>10, <1>12 DEF Unmount
<1>13. CASE Mount
  BY <1>13, MountTyped
<1>14. CASE UNCHANGED vars
  BY <1>14 DEF vars, Stays
<1>15. CASE LookUpFreed
  BY <1>15 DEF LookUpFreed, Stays
<1> QED
  BY <1>1, <1>2, <1>3, <1>4, <1>5, <1>6, <1>7, <1>8, <1>9, <1>11, <1>12, <1>13, <1>14, <1>15
     DEF Next, ACall
-----------------------------------------------------------------------------
(* No slot is lost unnamed.                                                *)

LEMMA CallKeepsEntries ==
    ASSUME AnyCall
    PROVE  \A s \in Slot : now'[EntryAt(s)] = now[EntryAt(s)]
BY DEF AnyCall, BlockPut

LEMMA SlotsStep ==
    ASSUME Typed, SlotsInv, [Next]_vars
    PROVE  SlotsInv'
<1>1. CASE AnyCall
  <2>1. \A s \in Slot : now'[EntryAt(s)] = now[EntryAt(s)]
    BY <1>1, CallKeepsEntries
  <2>2. sync'.flaws \cap Lost = sync.flaws \cap Lost
    BY <1>1 DEF AnyCall, Lost
  <2>3. /\ blame' \cap Lost = {} => blame \cap Lost = {}
        /\ taint' \cap Lost = {} => taint \cap Lost = {}
    BY <1>1 DEF AnyCall
  <2> QED
    BY <1>1, <2>1, <2>2, <2>3 DEF AnyCall, SlotsInv, NotJunk, NoNewJunk, TableOf
<1>2. CASE \E found \in {Empty, Junk} : Started(found)
  <2>1. PICK found \in {Empty, Junk} : Started(found)
    BY <1>2
  <2>2. sync'.flaws \cap Lost = {} => \A s \in Slot : sync'.buf[s].mode # "junk"
    BY <2>1, EmptyAndJunk DEF Started, Lost
  <2>3. UNCHANGED <<table, taint, now, durable>> /\ blame \subseteq blame'
        /\ sync'.flaws \subseteq blame' /\ sync'.from = 0
    BY <2>1 DEF Started, memory, storage
  <2>4. \A s \in Slot : ~(s < 0)
    BY Constants
  <2> QED
    BY <2>2, <2>3, <2>4 DEF SlotsInv, NotJunk, TableOf
<1>3. ASSUME NEW s \in Slot, Passed(s),
             \A r \in Slot : now'[EntryAt(r)] = now[EntryAt(r)],
             sync'.flaws \cap Lost = {} => \A r \in Slot :
                sync'.buf[r].mode # "junk" \/ sync'.buf[r] = sync.buf[r]
      PROVE  SlotsInv'
  <2>1. /\ sync.at = "table" /\ sync'.from = sync.from
        /\ UNCHANGED <<table, durable, taint>>
        /\ sync.flaws \subseteq sync'.flaws /\ blame \subseteq blame'
        /\ sync'.flaws \ sync.flaws \subseteq blame'
    BY <1>3 DEF Passed, memory
  <2>2. sync'.flaws \cap Lost \subseteq blame'
    BY <2>1 DEF SlotsInv
  <2>3. sync'.flaws \cap Lost = {} => NotJunk(sync'.buf)
    BY <1>3, <2>1 DEF SlotsInv, NotJunk
  <2> QED
    BY <1>3, <2>1, <2>2, <2>3 DEF SlotsInv, NotJunk, TableOf
<1>4. CASE \E s \in Slot : FilledFile(s)
  <2>1. PICK s \in Slot : FilledFile(s)
    BY <1>4
  <2>2. \A r \in Slot : now'[EntryAt(r)] = now[EntryAt(r)]
    BY <2>1 DEF FilledFile, BlockPut
  <2>3. Passed(s) /\ sync'.buf[s].mode = "file"
    BY <2>1 DEF FilledFile, Passed, memory
  <2>4. sync'.flaws \cap Lost = {} => \A r \in Slot :
                sync'.buf[r].mode # "junk" \/ sync'.buf[r] = sync.buf[r]
    BY <2>1, <2>3 DEF FilledFile, Lost
  <2> QED
    BY <1>3, <2>2, <2>3, <2>4
<1>5. CASE FilledDir
  <2>1. \A r \in Slot : now'[EntryAt(r)] = now[EntryAt(r)]
    BY <1>5 DEF FilledDir, BlockPut
  <2>2. \A r \in Slot : sync'.buf[r].mode # "junk" \/ sync'.buf[r] = sync.buf[r]
    <3>1. sync.buf = [r \in Slot |-> sync.buf[r]]
      BY DEF Typed, SyncTyped, TableTyped
    <3> QED
      BY <1>5, <3>1 DEF FilledDir
  <2> QED
    BY <1>3, <1>5, <2>1, <2>2, Constants DEF FilledDir
<1>6. CASE SlotPassed
  BY <1>3, <1>6 DEF SlotPassed, Passed
<1>7. CASE BufferOut
  <2>1. \A s \in Slot : now'[EntryAt(s)] = IF s \in sync.from .. (sync.next - 1)
                                          THEN sync.buf[s] ELSE now[EntryAt(s)]
    BY <1>7 DEF BufferOut, EntriesPut
  <2>2. /\ sync'.buf = [s \in Slot |-> Empty] /\ sync'.flaws = sync.flaws
        /\ sync'.from = sync.next /\ sync.at = "table"
        /\ UNCHANGED <<table, durable, taint, blame>>
    BY <1>7 DEF BufferOut, memory, history
  <2>3. NotJunk(sync'.buf)
    BY <2>2, EmptyAndJunk DEF NotJunk
  <2>4. sync.flaws \cap Lost = {} => \A s \in Slot :
          s < sync.next => now'[EntryAt(s)].mode # "junk"
    <3>1. sync.from \in Nat /\ sync.next \in Nat
      BY DEF Typed, SyncTyped
    <3> QED
      BY <2>1, <2>2, <3>1, Constants DEF SlotsInv, NotJunk
  <2>5. blame \cap Lost = {} => NotJunk(TableOf(now'))
    <3>1. blame \cap Lost = {} => sync.flaws \cap Lost = {}
      BY <2>2 DEF SlotsInv
    <3> QED
      BY <2>1, <2>2, <3>1 DEF SlotsInv, NotJunk, TableOf
  <2> QED
    BY <2>2, <2>3, <2>4, <2>5 DEF SlotsInv
<1>8. CASE BitmapOut
  BY <1>8 DEF BitmapOut, BitmapPut, SlotsInv, memory, history, NotJunk, TableOf
<1>9. CASE Flushed
  <2>1. blame' \cap Lost = {} => NotJunk(TableOf(now))
    <3>1. sync.from = MaxFileCount
      BY <1>9 DEF Typed, SyncTyped, Flushed
    <3>2. \A s \in Slot : s < sync.from
      BY <3>1, SyncDiskAssumption DEF Slot
    <3> QED
      BY <1>9, <3>2 DEF Flushed, SlotsInv, NotJunk, TableOf
  <2> QED
    BY <1>9, <2>1 DEF Flushed, SlotsInv, memory, TableOf
<1>10. CASE GivenUp
  BY <1>10 DEF GivenUp, SlotsInv, memory, storage, history, TableOf
<1>11. CASE Emptied /\ (Mixed \/ UNCHANGED storage)
  <2>1. NotJunk(table')
    BY <1>11, EmptyAndJunk DEF Emptied, NotJunk
  <2>2. \A s \in Slot : /\ now'[EntryAt(s)] \in {now[EntryAt(s)], durable[EntryAt(s)]}
                        /\ durable'[EntryAt(s)] \in {now[EntryAt(s)], durable[EntryAt(s)]}
    BY <1>11, Places DEF Mixed, storage
  <2> QED
    BY <1>11, <2>1, <2>2 DEF Emptied, SlotsInv, NotJunk, TableOf
<1>12. CASE \E residue : Mounted(residue)
  <2>1. PICK residue : Mounted(residue)
    BY <1>12
  <2>2. taint' = blame /\ UNCHANGED <<now, durable, sync, blame>>
        /\ \A s \in Slot : table'[s].mode = now[EntryAt(s)].mode
    BY <2>1 DEF Mounted, storage
  <2> QED
    BY <2>2 DEF SlotsInv, NotJunk, TableOf
<1>13. CASE Stays
  BY <1>13 DEF Stays, SlotsInv, memory, storage, history, TableOf
<1> QED
  BY <1>1, <1>2, <1>4, <1>5, <1>6, <1>7, <1>8, <1>9, <1>10, <1>11, <1>12, <1>13, WhatAStepIs

LEMMA SlotsInit ==
    ASSUME Init
    PROVE  SlotsInv
<1>1. Begun
  BY Beginning
<1>2. NotJunk(NewTable)
  BY EmptyAndJunk DEF NotJunk, NewTable, Root, Empty
<1>3. TableOf(now) = NewTable /\ durable = now
  BY <1>1 DEF TableOf, Begun, NewTable
<1> QED
  BY <1>1, <1>2, <1>3, IdleTyped DEF SlotsInv, Begun

\* However many syncs are run, fail or are cut off by a crash, a slot of the
\* file table ends as neither free nor a file only through bytes that the
\* buffer of a sync had not been cleared of (kmalloc in portfs_sync_fs), or
\* through a file with indirect extents in a slot before it
\* (portfs_fill_file_data).
THEOREM SlotsAreNotLostUnnamed == Spec => []SlotsAreNotLost
<1>1. Init => Typed /\ SlotsInv
  BY TypedInit, SlotsInit
<1>2. Typed /\ SlotsInv /\ [Next]_vars => (Typed /\ SlotsInv)'
  BY TypedStep, SlotsStep
<1>3. SlotsInv => SlotsAreNotLost
  BY DEF SlotsInv, SlotsAreNotLost, NotJunk, Lost
<1> QED
  BY <1>1, <1>2, <1>3, PTL DEF Spec
-----------------------------------------------------------------------------
(* What a sync has copied.                                                 *)

LEMMA CopiedEntriesStep ==
    ASSUME Typed, CopiedEntries, [Next]_vars
    PROVE  CopiedEntries'
<1>0. sync.from \in Nat /\ sync.next \in Nat
  BY DEF Typed, SyncTyped
<1>1. CASE AnyCall
  BY <1>1 DEF AnyCall, CopiedEntries
<1>2. CASE \E found \in {Empty, Junk} : Started(found)
  <2>1. PICK found \in {Empty, Junk} : Started(found)
    BY <1>2
  <2>2. \A s \in Slot : Used(sync'.buf[s]) = Empty
    BY <2>1, EmptyAndJunk DEF Started
  <2>3. sync'.at = "table" /\ sync'.next = 0 /\ sync'.from = 0
    BY <2>1 DEF Started
  <2>4. \A s \in Slot : ~(s < 0)
    BY SyncDiskAssumption DEF Slot
  <2> QED
    BY <2>2, <2>3, <2>4 DEF CopiedEntries
<1>3. ASSUME NEW s \in Slot, Passed(s),
             \A r \in Slot : now'[EntryAt(r)] = now[EntryAt(r)],
             "disturbed" \notin sync.flaws => Used(sync'.buf[s]) = Used(table[s]),
             \A r \in Slot : r # s =>
                sync'.buf[r] = sync.buf[r] \/ (r > s /\ sync'.buf[r] = Junk)
      PROVE  CopiedEntries'
  <2>1. /\ s = sync.next /\ sync.at = "table" /\ sync'.at = "table"
        /\ sync'.next = s + 1 /\ sync'.from = sync.from /\ table' = table
        /\ sync.flaws \subseteq sync'.flaws
    BY <1>3 DEF Passed, memory
  <2> SUFFICES ASSUME "disturbed" \notin sync'.flaws
               PROVE  CopiedEntries'
    BY DEF CopiedEntries
  <2>2. /\ \A r \in Slot : r < sync.from => Used(now[EntryAt(r)]) = Used(table[r])
        /\ \A r \in Slot :
            /\ sync.from <= r /\ r < sync.next => Used(sync.buf[r]) = Used(table[r])
            /\ sync.next <= r => Used(sync.buf[r]) = Empty
    BY <2>1 DEF CopiedEntries
  <2>3. ASSUME NEW r \in Slot
        PROVE  /\ sync.from <= r /\ r < s + 1 => Used(sync'.buf[r]) = Used(table[r])
               /\ s + 1 <= r => Used(sync'.buf[r]) = Empty
    <3>1. CASE r = s
      BY <1>3, <2>1, <3>1, Constants
    <3>2. CASE r # s
      BY <1>0, <1>3, <2>1, <2>2, <3>2, Constants, EmptyAndJunk
    <3> QED
      BY <3>1, <3>2
  <2> QED
    BY <1>3, <2>1, <2>2, <2>3 DEF CopiedEntries
<1>4. CASE \E s \in Slot : FilledFile(s)
  <2>1. PICK s \in Slot : FilledFile(s)
    BY <1>4
  <2>2. \A r \in Slot : now'[EntryAt(r)] = now[EntryAt(r)]
    BY <2>1 DEF FilledFile, BlockPut
  <2> QED
    BY <1>3, <2>1, <2>2 DEF FilledFile
<1>5. CASE FilledDir
  <2>1. \A r \in Slot : now'[EntryAt(r)] = now[EntryAt(r)]
    BY <1>5 DEF FilledDir, BlockPut
  <2>2. sync'.buf[0] = table[0] /\ \A r \in Slot : r # 0 => sync'.buf[r] = sync.buf[r]
    <3>1. sync.buf = [r \in Slot |-> sync.buf[r]]
      BY DEF Typed, SyncTyped, TableTyped
    <3> QED
      BY <1>5, <3>1, Constants DEF FilledDir
  <2> QED
    BY <1>3, <1>5, <2>1, <2>2, Constants DEF FilledDir
<1>6. CASE SlotPassed
  <2>1. /\ sync.next \in Slot /\ Passed(sync.next) /\ sync'.buf = sync.buf /\ now' = now
        /\ table[sync.next].mode \in {"free", "junk"} /\ sync.at = "table"
    BY <1>6 DEF SlotPassed, Passed
  <2>2. "disturbed" \notin sync.flaws => Used(sync.buf[sync.next]) = Used(table[sync.next])
    BY <1>0, <2>1 DEF CopiedEntries, Used
  <2> QED
    BY <1>3, <2>1, <2>2
<1>7. CASE BufferOut
  <2>1. \A s \in Slot : now'[EntryAt(s)] = IF s \in sync.from .. (sync.next - 1)
                                          THEN sync.buf[s] ELSE now[EntryAt(s)]
    BY <1>7 DEF BufferOut, EntriesPut
  <2>2. /\ sync'.from = sync.next /\ sync'.next = sync.next /\ sync'.flaws = sync.flaws
        /\ sync'.buf = [s \in Slot |-> Empty] /\ sync.at = "table" /\ table' = table
        /\ sync'.at # "flush"
    BY <1>7 DEF BufferOut, memory
  <2>3. "disturbed" \notin sync.flaws =>
          \A s \in Slot : s < sync.next => Used(now'[EntryAt(s)]) = Used(table[s])
    BY <1>0, <2>1, <2>2, Constants DEF CopiedEntries
  <2> QED
    BY <1>0, <2>2, <2>3, Constants, EmptyAndJunk DEF CopiedEntries
<1>8. CASE BitmapOut
  BY <1>8 DEF BitmapOut, BitmapPut, CopiedEntries, memory
<1>9. CASE Flushed
  BY <1>9 DEF Flushed, CopiedEntries
<1>10. CASE GivenUp
  BY <1>10 DEF GivenUp, CopiedEntries
<1>11. CASE Emptied
  BY <1>11 DEF Emptied, CopiedEntries
<1>12. CASE \E residue : Mounted(residue)
  BY <1>12 DEF Mounted, Typed, Gone, CopiedEntries
<1>13. CASE Stays
  BY <1>13 DEF Stays, CopiedEntries, memory, storage
<1> QED
  BY <1>1, <1>2, <1>4, <1>5, <1>6, <1>7, <1>8, <1>9, <1>10, <1>11, <1>12, <1>13, WhatAStepIs

LEMMA CopiedNamesStep ==
    ASSUME Typed, CopiedNames, [Next]_vars
    PROVE  CopiedNames'
<1> DEFINE home == table[0].dirBlock
<1>0. home \in {0} \cup DataBlock
  <2>1. table[0] \in EntryType
    BY Constants DEF Typed, MemoryTyped, TableTyped
  <2> QED
    BY <2>1 DEF EntryType
<1>1. CASE AnyCall
  BY <1>1 DEF AnyCall, CopiedNames, NamesHurt
<1>2. CASE \E found \in {Empty, Junk} : Started(found)
  BY <1>2 DEF Started, CopiedNames
<1>3. ASSUME sync.at # "idle", sync'.next > 0 => sync.next > 0, UNCHANGED <<table, names>>,
             sync.flaws \subseteq sync'.flaws,
             home # 0 /\ sync'.flaws \cap NamesHurt = {} =>
                now'[BlockAt(home)] = now[BlockAt(home)]
      PROVE  CopiedNames'
  BY <1>3 DEF CopiedNames
<1>4. CASE \E s \in Slot : FilledFile(s)
  <2>1. PICK s \in Slot : FilledFile(s)
    BY <1>4
  <2>2. /\ sync.at = "table" /\ sync.next > 0 /\ UNCHANGED <<table, names>>
        /\ sync.flaws \subseteq sync'.flaws
    BY <2>1 DEF FilledFile, Passed, memory
  <2>3. ASSUME home # 0, sync'.flaws \cap NamesHurt = {}
        PROVE  now'[BlockAt(home)] = now[BlockAt(home)]
    <3>1. table[s].extblk # home
      BY <2>1, <2>3 DEF FilledFile, ListFlaws, NamesHurt
    <3> QED
      BY <1>0, <2>1, <2>3, <3>1 DEF FilledFile, BlockPut
  <2> QED
    BY <1>3, <2>2, <2>3
<1>5. CASE FilledDir
  <2> SUFFICES ASSUME sync'.flaws \cap NamesHurt = {}, names # NoNames
               PROVE  IF home = 0 THEN names = {} ELSE now'[BlockAt(home)].names = names
    BY <1>5 DEF CopiedNames, FilledDir, Passed, memory
  <2>1. CASE home = 0
    BY <1>5, <2>1 DEF FilledDir, NamesFlaws, NamesHurt
  <2>2. CASE home # 0
    <3>1. names \in SUBSET Slot
      BY DEF Typed, MemoryTyped
    <3>2. SavesNames(table[0])
      BY <2>2 DEF SavesNames
    <3>3. BlockPut(home, NameBlock(names))
      BY <1>5, <3>2 DEF FilledDir, NamesHurt
    <3>4. NameBlock(names).names = names
      BY <3>1, BlocksTyped
    <3> QED
      BY <2>2, <3>3, <3>4 DEF BlockPut
  <2> QED
    BY <2>1, <2>2
<1>6. CASE SlotPassed
  <2>1. sync.next \in Slot /\ table[sync.next].mode \in {"free", "junk"} /\ up
    BY <1>6 DEF SlotPassed, Passed
  <2>2. sync.next # 0
    BY <2>1 DEF Typed, MemoryTyped
  <2>3. sync.next > 0
    BY <2>1, <2>2, SyncDiskAssumption DEF Slot
  <2> QED
    BY <1>3, <1>6, <2>3 DEF SlotPassed, Passed, memory
<1>7. CASE BufferOut
  <2>1. home # 0 => now'[BlockAt(home)] = now[BlockAt(home)]
    BY <1>0, <1>7 DEF BufferOut, EntriesPut
  <2> QED
    BY <1>3, <1>7, <2>1 DEF BufferOut, memory
<1>8. CASE BitmapOut
  <2>1. home # 0 => now'[BlockAt(home)] = now[BlockAt(home)]
    BY <1>0, <1>8 DEF BitmapOut, BitmapPut
  <2> QED
    BY <1>3, <1>8, <2>1 DEF BitmapOut, memory
<1>9. CASE Flushed
  BY <1>9 DEF Flushed, CopiedNames
<1>10. CASE GivenUp
  BY <1>10 DEF GivenUp, CopiedNames
<1>11. CASE Emptied
  BY <1>11 DEF Emptied, CopiedNames
<1>12. CASE \E residue : Mounted(residue)
  BY <1>12 DEF Mounted, Typed, Gone, CopiedNames
<1>13. CASE Stays
  BY <1>13 DEF Stays, CopiedNames, memory, storage
<1> QED
  BY <1>1, <1>2, <1>4, <1>5, <1>6, <1>7, <1>8, <1>9, <1>10, <1>11, <1>12, <1>13, WhatAStepIs
-----------------------------------------------------------------------------
(* What was saved whole stays on the storage file.                         *)

LEMMA InUseIsUsed ==
    ASSUME NEW tab
    PROVE  InUse(tab) = [s \in Slot |-> Used(tab[s])]
BY DEF InUse, Used

\* What an image is made of.
LEMMA SameImage ==
    ASSUME NEW f, NEW g, f[EntryAt(0)].mode = "dir",
           \A s \in Slot : Used(g[EntryAt(s)]) = Used(f[EntryAt(s)]),
           g[EntryAt(0)].mode = "dir", g[BitmapAt] = f[BitmapAt],
           f[EntryAt(0)].dirBlock # 0 =>
             g[BlockAt(f[EntryAt(0)].dirBlock)].names = f[BlockAt(f[EntryAt(0)].dirBlock)].names
    PROVE  ImageOf(g) = ImageOf(f)
<1>1. InUse(TableOf(g)) = InUse(TableOf(f))
  <2>1. /\ InUse(TableOf(g)) = [s \in Slot |-> Used(TableOf(g)[s])]
        /\ InUse(TableOf(f)) = [s \in Slot |-> Used(TableOf(f)[s])]
    BY InUseIsUsed
  <2>2. \A s \in Slot : Used(TableOf(g)[s]) = Used(TableOf(f)[s])
    BY DEF TableOf
  <2> QED
    BY <2>1, <2>2
<1>2. g[EntryAt(0)] = f[EntryAt(0)]
  BY Constants DEF Used
<1>3. NamesOf(g) = NamesOf(f)
  BY <1>2 DEF NamesOf
<1> QED
  BY <1>1, <1>3 DEF ImageOf

\* Of two storage files with one image a crash makes a third one with it.
LEMMA ImagesAgree ==
    ASSUME NEW f, NEW g, ImageOf(f) = ImageOf(g),
           f[EntryAt(0)].mode = "dir", g[EntryAt(0)].mode = "dir"
    PROVE  /\ \A s \in Slot : Used(g[EntryAt(s)]) = Used(f[EntryAt(s)])
           /\ g[EntryAt(0)] = f[EntryAt(0)]
           /\ g[BitmapAt] = f[BitmapAt] /\ NamesOf(g) = NamesOf(f)
<1>1. /\ InUse(TableOf(g)) = InUse(TableOf(f))
      /\ g[BitmapAt] = f[BitmapAt] /\ NamesOf(g) = NamesOf(f)
  BY DEF ImageOf
<1>2. \A s \in Slot : Used(TableOf(g)[s]) = Used(TableOf(f)[s])
  <2>1. /\ InUse(TableOf(g)) = [s \in Slot |-> Used(TableOf(g)[s])]
        /\ InUse(TableOf(f)) = [s \in Slot |-> Used(TableOf(f)[s])]
    BY InUseIsUsed
  <2> DEFINE F(s) == Used(TableOf(f)[s])
             G(s) == Used(TableOf(g)[s])
  <2>2. [s \in Slot |-> G(s)] = [s \in Slot |-> F(s)]
    BY <1>1, <2>1
  <2> HIDE DEF F, G
  <2>3. \A s \in Slot : G(s) = F(s)
    <3> SUFFICES ASSUME NEW s \in Slot PROVE G(s) = F(s)
      OBVIOUS
    <3>1. [r \in Slot |-> G(r)][s] = [r \in Slot |-> F(r)][s]
      BY <2>2
    <3> QED
      BY <3>1
  <2> QED
    BY <2>3 DEF F, G
<1>3. \A s \in Slot : Used(g[EntryAt(s)]) = Used(f[EntryAt(s)])
  BY <1>2 DEF TableOf
<1> QED
  BY <1>1, <1>3, Constants DEF Used

\* A sync that nothing was wrong with has copied the memory.
LEMMA ImageIsCopied ==
    ASSUME Typed, CopiedEntries, CopiedNames, up, sync.at = "flush",
           "disturbed" \notin sync.flaws, sync.flaws \cap NamesHurt = {}
    PROVE  Image = ImageOf(now)
<1>1. /\ now[EntryAt(0)].mode = "dir" /\ table[0].mode = "dir"
      /\ sync.from = MaxFileCount /\ sync.next = MaxFileCount
  BY DEF Typed, MemoryTyped, StorageTyped, SyncTyped
<1>2. \A s \in Slot : s < MaxFileCount
  BY SyncDiskAssumption DEF Slot
<1>3. /\ \A s \in Slot : Used(now[EntryAt(s)]) = Used(table[s])
      /\ now[BitmapAt] = bitmap
  BY <1>1, <1>2 DEF CopiedEntries
<1>4. now[EntryAt(0)] = table[0]
  BY <1>1, <1>3, Constants DEF Used
<1>5. InUse(table) = InUse(TableOf(now))
  <2>1. /\ InUse(table) = [s \in Slot |-> Used(table[s])]
        /\ InUse(TableOf(now)) = [s \in Slot |-> Used(TableOf(now)[s])]
    BY InUseIsUsed
  <2>2. \A s \in Slot : Used(TableOf(now)[s]) = Used(table[s])
    BY <1>3 DEF TableOf
  <2> QED
    BY <2>1, <2>2
<1>6. RootNames = NamesOf(now)
  <2>1. MaxFileCount > 0
    BY SyncDiskAssumption
  <2> QED
    BY <1>1, <1>4, <2>1 DEF RootNames, NamesOf, CopiedNames
<1> QED
  BY <1>3, <1>5, <1>6 DEF Image, ImageOf

LEMMA SavedStep ==
    ASSUME Typed, CopiedEntries, CopiedNames, SavedInv, [Next]_vars
    PROVE  SavedInv'
<1>0. /\ now[EntryAt(0)].mode = "dir" /\ durable[EntryAt(0)].mode = "dir"
      /\ now[EntryAt(0)].dirBlock \in {0} \cup DataBlock
  <2>1. now[EntryAt(0)] \in EntryType
    BY Constants DEF Typed, StorageTyped, TableTyped, TableOf
  <2> QED
    BY <2>1 DEF Typed, StorageTyped, EntryType
<1>1. CASE AnyCall
  <2>1. saved' = saved /\ sync'.at = sync.at /\ durable' = durable /\ blame \subseteq blame'
    BY <1>1 DEF AnyCall
  <2> SUFFICES ASSUME saved' # NoImage, "names overwritten" \notin blame'
               PROVE  ImageOf(now') = ImageOf(now)
    BY <2>1 DEF SavedInv
  <2>2. CASE now' = now
    BY <2>2
  <2>3. CASE \E b \in DataBlock : BlockPut(b, Data) /\ Overwrites(b, Stored) \subseteq blame'
    <3>1. PICK b \in DataBlock : BlockPut(b, Data) /\ Overwrites(b, Stored) \subseteq blame'
      BY <2>3
    <3>2. now[EntryAt(0)].dirBlock # b
      <4>1. \A s \in Slot : Stored[s].dirBlock # b
        BY <3>1 DEF Overwrites
      <4>2. Stored[0] = now[EntryAt(0)]
        BY Constants DEF Stored
      <4> QED
        BY <4>1, <4>2, Constants
    <3>3. /\ \A s \in Slot : now'[EntryAt(s)] = now[EntryAt(s)]
          /\ now'[BitmapAt] = now[BitmapAt]
          /\ now[EntryAt(0)].dirBlock # 0 =>
               now'[BlockAt(now[EntryAt(0)].dirBlock)] = now[BlockAt(now[EntryAt(0)].dirBlock)]
      BY <1>0, <3>1, <3>2 DEF BlockPut
    <3>4. now'[EntryAt(0)].mode = "dir"
      BY <1>0, <3>3, Constants
    <3> QED
      BY <1>0, <3>3, <3>4, SameImage
  <2> QED
    BY <1>1, <2>2, <2>3 DEF AnyCall
<1>2. CASE \E found \in {Empty, Junk} : Started(found)
  BY <1>2 DEF Started, SavedInv
<1>3. ASSUME sync.at # "idle", saved' = saved
      PROVE  SavedInv'
  BY <1>3 DEF SavedInv
<1>4. CASE \E s \in Slot : FilledFile(s)
  BY <1>3, <1>4 DEF FilledFile, Passed
<1>5. CASE FilledDir
  BY <1>3, <1>5 DEF FilledDir, Passed
<1>6. CASE SlotPassed
  BY <1>3, <1>6 DEF SlotPassed, Passed
<1>7. CASE BufferOut
  BY <1>3, <1>7 DEF BufferOut, history
<1>8. CASE BitmapOut
  BY <1>3, <1>8 DEF BitmapOut, history
<1>9. CASE Flushed
  <2>1. /\ sync'.at = "idle" /\ now' = now /\ durable' = now /\ up /\ sync.at = "flush"
        /\ saved' = IF sync.flaws \subseteq {"heap", "spilt", "list unsaved"} THEN Image ELSE NoImage
    BY <1>9 DEF Flushed
  <2>2. ASSUME sync.flaws \subseteq {"heap", "spilt", "list unsaved"}
        PROVE  Image = ImageOf(now)
    BY <2>1, <2>2, ImageIsCopied DEF NamesHurt
  <2> QED
    BY <2>1, <2>2 DEF SavedInv
<1>10. CASE GivenUp
  BY <1>10 DEF GivenUp, SavedInv, storage, history
<1>11. CASE Emptied /\ (Mixed \/ UNCHANGED storage)
  <2>1. sync'.at = "idle" /\ saved' = saved /\ blame' = blame
    BY <1>11 DEF Emptied
  <2> SUFFICES ASSUME saved # NoImage, "names overwritten" \notin blame
               PROVE  ImageOf(now') = saved /\ ImageOf(durable') = saved
    BY <2>1 DEF SavedInv
  <2>2. ImageOf(now) = saved /\ ImageOf(durable) = saved
    BY DEF SavedInv
  <2>3. CASE UNCHANGED storage
    BY <2>2, <2>3 DEF storage
  <2>4. CASE Mixed
    <3>1. /\ \A s \in Slot : Used(durable[EntryAt(s)]) = Used(now[EntryAt(s)])
          /\ durable[EntryAt(0)] = now[EntryAt(0)]
          /\ durable[BitmapAt] = now[BitmapAt] /\ NamesOf(durable) = NamesOf(now)
      BY <1>0, <2>2, ImagesAgree
    <3>2. /\ \A s \in Slot : now'[EntryAt(s)] \in {now[EntryAt(s)], durable[EntryAt(s)]}
          /\ \A b \in DataBlock : now'[BlockAt(b)] \in {now[BlockAt(b)], durable[BlockAt(b)]}
          /\ now'[BitmapAt] \in {now[BitmapAt], durable[BitmapAt]}
          /\ durable' = now'
      BY <2>4, Places DEF Mixed
    <3>3. /\ \A s \in Slot : Used(now'[EntryAt(s)]) = Used(now[EntryAt(s)])
          /\ now'[EntryAt(0)].mode = "dir" /\ now'[BitmapAt] = now[BitmapAt]
      BY <1>0, <3>1, <3>2, Constants
    <3>4. now[EntryAt(0)].dirBlock # 0 =>
             now'[BlockAt(now[EntryAt(0)].dirBlock)].names = now[BlockAt(now[EntryAt(0)].dirBlock)].names
      BY <1>0, <3>1, <3>2 DEF NamesOf
    <3>5. ImageOf(now') = ImageOf(now)
      BY <1>0, <3>3, <3>4, SameImage
    <3> QED
      BY <2>2, <3>2, <3>5
  <2> QED
    BY <1>11, <2>3, <2>4
<1>12. CASE \E residue : Mounted(residue)
  BY <1>12 DEF Mounted, SavedInv, storage
<1>13. CASE Stays
  BY <1>13 DEF Stays, SavedInv, storage, history
<1> QED
  BY <1>1, <1>2, <1>4, <1>5, <1>6, <1>7, <1>8, <1>9, <1>10, <1>11, <1>12, <1>13, WhatAStepIs

LEMMA SavedInit ==
    ASSUME Init
    PROVE  CopiedEntries /\ CopiedNames /\ SavedInv
<1>1. Begun /\ sync.at = "idle"
  BY Beginning, IdleTyped DEF Begun
<1>2. /\ \A s \in Slot : now[EntryAt(s)] = table[s]
      /\ table[0] = Root /\ Root.dirBlock = 0 /\ now[BitmapAt] = bitmap
  BY <1>1, Constants DEF Begun, NewTable, Root, Empty
<1>3. InUse(table) = InUse(TableOf(now))
  <2>1. \A s \in Slot : TableOf(now)[s] = table[s]
    BY <1>2 DEF TableOf
  <2> QED
    BY <2>1 DEF InUse
<1>4. RootNames = {} /\ NamesOf(now) = {}
  BY <1>1, <1>2, Constants DEF RootNames, NamesOf, Begun
<1>5. Image = ImageOf(now)
  BY <1>2, <1>3, <1>4 DEF Image, ImageOf
<1> QED
  BY <1>1, <1>5 DEF CopiedEntries, CopiedNames, SavedInv, Begun

\* A mount makes the memory that the storage file is an image of.
LEMMA MountFindsImage ==
    ASSUME Typed, SavedInv, NEW residue, Mounted(residue)
    PROVE  saved # NoImage /\ "names overwritten" \notin blame => Image' = saved
<1>1. /\ ~up /\ names' = names /\ now' = now /\ bitmap' = now[BitmapAt]
      /\ \A s \in Slot : /\ table'[s].mode = now[EntryAt(s)].mode
                         /\ table'[s].mode # "free" => table'[s] = now[EntryAt(s)]
  BY DEF Mounted, storage
<1>2. names' = NoNames /\ now[EntryAt(0)].mode = "dir"
  BY <1>1 DEF Typed, Gone, StorageTyped
<1>3. InUse(table') = InUse(TableOf(now))
  <2>1. \A s \in Slot : Used(table'[s]) = Used(TableOf(now)[s])
    BY <1>1 DEF TableOf, Used
  <2>2. /\ InUse(table') = [s \in Slot |-> Used(table'[s])]
        /\ InUse(TableOf(now)) = [s \in Slot |-> Used(TableOf(now)[s])]
    BY InUseIsUsed
  <2> QED
    BY <2>1, <2>2
<1>4. RootNames' = NamesOf(now)
  BY <1>1, <1>2, Constants DEF RootNames, NamesOf
<1>5. Image' = ImageOf(now)
  BY <1>1, <1>3, <1>4 DEF Image, ImageOf
<1> QED
  BY <1>5 DEF SavedInv

\* What a sync saved with nothing going wrong and no call in between is what
\* every mount finds, whether the memory was lost in a crash or in an unmount
\* and whatever was called since, until the next sync starts (portfs_sync_fs,
\* portfs_init_filetable, portfs_init_block_bitmap): the entries in use, the
\* bitmap and the names of the root.
THEOREM MountsRestore == Spec => MountRestores
<1>1. Init => Typed /\ CopiedEntries /\ CopiedNames /\ SavedInv
  BY TypedInit, SavedInit
<1>2. Typed /\ CopiedEntries /\ CopiedNames /\ SavedInv /\ [Next]_vars
        => (Typed /\ CopiedEntries /\ CopiedNames /\ SavedInv)'
  BY TypedStep, CopiedEntriesStep, CopiedNamesStep, SavedStep
<1>3. Typed /\ SavedInv /\ [Next]_vars
        => [up' /\ ~up /\ saved # NoImage /\ "names overwritten" \notin blame =>
              Image' = saved]_vars
  <2> SUFFICES ASSUME Typed, SavedInv, [Next]_vars, up', ~up, saved # NoImage,
                      "names overwritten" \notin blame
               PROVE  Image' = saved
    OBVIOUS
  <2>1. \E residue : Mounted(residue)
    BY WhatAStepIs DEF AnyCall, Started, FilledFile, FilledDir, SlotPassed, Passed, BufferOut,
                       BitmapOut, Flushed, GivenUp, Emptied, Stays
  <2> QED
    BY <2>1, MountFindsImage
<1> QED
  BY <1>1, <1>2, <1>3, PTL DEF Spec, MountRestores
-----------------------------------------------------------------------------
(* Who holds a block after a step.                                         *)

LEMMA NoItemsNoBlocks ==
    ItemBlocks(NoList) = {} /\ ItemBlocks(<<>>) = {}
<1>1. DOMAIN NoList = {1} /\ NoList[1].ext = NoExtent
  BY DEF NoList, Item
<1>2. BlocksOf(NoExtent) = {}
  BY DEF BlocksOf, NoExtent
<1>3. DOMAIN <<>> = {}
  OBVIOUS
<1> QED
  BY <1>1, <1>2, <1>3 DEF ItemBlocks

LEMMA AppendedBlocks ==
    ASSUME NEW its \in Seq(ItemType), NEW it \in ItemType
    PROVE  ItemBlocks(Append(its, it)) = ItemBlocks(its) \cup BlocksOf(it.ext)
<1> DEFINE more == Append(its, it)
<1>1. /\ DOMAIN more = DOMAIN its \cup {Len(its) + 1}
      /\ \A k \in DOMAIN its : more[k] = its[k]
      /\ more[Len(its) + 1] = it
  BY Appending
<1> HIDE DEF more
<1>2. ItemBlocks(more) \subseteq ItemBlocks(its) \cup BlocksOf(it.ext)
  BY <1>1 DEF ItemBlocks
<1>3. ItemBlocks(its) \cup BlocksOf(it.ext) \subseteq ItemBlocks(more)
  BY <1>1 DEF ItemBlocks
<1> QED
  BY <1>2, <1>3 DEF more

\* The blocks of a list that is in memory are those it has on storage.
LEMMA LoadedBlocks ==
    ASSUME Typed, NEW s \in Slot, table[s].mode = "file", table[s].count >= DirectExtents
    PROVE  ItemBlocks(LoadedList(s)) \subseteq
             ItemBlocks(list[s]) \cup ItemBlocks(ListOf(table[s], now))
<1>1. CASE list[s] # NoList
  BY <1>1, Loading
<1>2. CASE list[s] = NoList
  <2> DEFINE n == table[s].count - DirectExtents
             its == ListOf(table[s], now)
             raw(k) == IF k > Len(its) THEN Garbage
                       ELSE IF bigEndian THEN its[k] ELSE Swapped(its[k])
  <2>1. LoadedList(s) = [k \in 1 .. n |-> raw(k)]
    BY <1>2 DEF LoadedList, ListOf
  <2>2. its \in Seq(ItemType)
    <3>1. table[s] \in EntryType
      BY DEF Typed, MemoryTyped, TableTyped
    <3>2. CASE table[s].extblk = 0
      BY <3>2 DEF ListOf
    <3>3. CASE table[s].extblk # 0
      <4>1. table[s].extblk \in DataBlock
        BY <3>1, <3>3 DEF EntryType
      <4>2. now[BlockAt(table[s].extblk)] \in BlockType
        BY <4>1 DEF Typed, StorageTyped
      <4> QED
        BY <3>3, <4>2 DEF BlockType, ListOf
    <3> QED
      BY <3>2, <3>3
  <2>3. table[s].count \in Nat
    <3>1. table[s] \in EntryType
      BY DEF Typed, MemoryTyped, TableTyped
    <3> QED
      BY <3>1, Constants DEF EntryType
  <2>4. n \in Nat
    BY <2>3, Constants
  <2> HIDE DEF its, n
  <2>5. ASSUME NEW k \in 1 .. n
        PROVE  BlocksOf(raw(k).ext) \subseteq ItemBlocks(its)
    <3>1. CASE k > Len(its)
      <4>1. Garbage.ext = NoExtent
        BY DEF Garbage, Item
      <4>2. BlocksOf(NoExtent) = {}
        BY DEF BlocksOf, NoExtent
      <4> QED
        BY <3>1, <4>1, <4>2
    <3>2. CASE ~(k > Len(its))
      <4>1. k \in DOMAIN its /\ its[k] \in ItemType
        BY <2>2, <2>4, <3>2, Elements
      <4>2. Swapped(its[k]).ext = its[k].ext
        BY <4>1 DEF Swapped, ItemType
      <4> QED
        BY <3>2, <4>1, <4>2 DEF ItemBlocks
    <3> QED
      BY <3>1, <3>2
  <2> HIDE DEF raw
  <2> QED
    BY <2>1, <2>5 DEF ItemBlocks, its
<1> QED
  BY <1>1, <1>2

\* In short, what Held is for each kind of slot.
LEMMA HeldByKind ==
    ASSUME NEW s \in Slot
    PROVE  /\ table[s].mode = "dir" => Held(s) = {table[s].dirBlock} \ {0}
           /\ table[s].mode = "file" =>
                Held(s) = DirectBlocks(table[s]) \cup ItemBlocks(ListOf(table[s], now))
                            \cup ({table[s].extblk} \ {0}) \cup ItemBlocks(list[s])
           /\ table[s].mode \notin {"dir", "file"} => Held(s) = {}
BY DEF Held, HeldOf

\* When each slot holds no more than it did and blocks that were free.
LEMMA OwnedStays ==
    ASSUME MemoryOwned, NEW Add,
           \A s \in Slot : Add[s] \cap bitmap = {},
           \A r, s \in Slot : r # s => Add[r] \cap Add[s] = {},
           \A s \in Slot : Held(s)' \subseteq Held(s) \cup Add[s],
           \A s \in Slot : Held(s)' \subseteq bitmap',
           \A s \in Slot : table'[s].mode = "file" =>
              \/ Held(s)' = {}
              \/ /\ table[s].mode = "file"
                 /\ table[s].extblk # 0 => table'[s].extblk = table[s].extblk,
           \A b \in DataBlock : now'[BlockAt(b)].items # <<>> =>
              /\ b \in bitmap'
              /\ \/ now[BlockAt(b)].items # <<>>
                 \/ \E s \in Slot : table'[s].mode = "file" /\ table'[s].extblk = b,
           NamesOwned'
    PROVE  MemoryOwned'
<1>1. ASSUME NEW r \in Slot, NEW s \in Slot, r # s
      PROVE  Held(r)' \cap Held(s)' = {}
  <2>1. /\ Held(r) \cap Held(s) = {} /\ Held(r) \subseteq bitmap /\ Held(s) \subseteq bitmap
    BY <1>1 DEF MemoryOwned
  <2>2. /\ Held(r)' \subseteq Held(r) \cup Add[r] /\ Held(s)' \subseteq Held(s) \cup Add[s]
        /\ Add[r] \cap bitmap = {} /\ Add[s] \cap bitmap = {} /\ Add[r] \cap Add[s] = {}
    BY <1>1
  <2> QED
    BY <2>1, <2>2
<1>2. ASSUME NEW b \in DataBlock, now'[BlockAt(b)].items # <<>>, NEW s \in Slot,
             table'[s].mode = "file", b \in Held(s)'
      PROVE  b = table'[s].extblk
  <2>1. CASE now[BlockAt(b)].items # <<>>
    <3>1. b \in bitmap
      BY <2>1 DEF MemoryOwned
    <3>2. b \in Held(s) /\ table[s].mode = "file"
          /\ (table[s].extblk # 0 => table'[s].extblk = table[s].extblk)
      BY <1>2, <3>1
    <3>3. b = table[s].extblk
      BY <2>1, <3>2 DEF MemoryOwned
    <3> QED
      BY <3>2, <3>3, Constants
  <2>2. CASE \E r \in Slot : table'[r].mode = "file" /\ table'[r].extblk = b
    <3>1. PICK r \in Slot : table'[r].mode = "file" /\ table'[r].extblk = b
      BY <2>2
    <3>2. b \in Held(r)'
      <4>1. b # 0
        BY Constants
      <4> QED
        BY <3>1, <4>1 DEF Held, HeldOf
    <3>3. r = s
      BY <1>1, <1>2, <3>2
    <3> QED
      BY <3>1, <3>3
  <2> QED
    BY <1>2, <2>1, <2>2
<1> QED
  BY <1>1, <1>2 DEF MemoryOwned

\* The root holds its old block or a free one.
LEMMA RootHolds ==
    ASSUME NEW tab, TableTyped(tab), tab[0].mode = "dir"
    PROVE  {WithRootBlock(tab)[0].dirBlock} \ {0}
             \subseteq ({tab[0].dirBlock} \ {0}) \cup NewRootBlock
<1>1. CASE WithRootBlock(tab) = tab
  BY <1>1
<1>2. CASE \E b \in DataBlock \ bitmap :
              NewRootBlock = {b} /\ WithRootBlock(tab) = [tab EXCEPT ![0].dirBlock = b]
  <2>1. PICK b \in DataBlock \ bitmap :
              NewRootBlock = {b} /\ WithRootBlock(tab) = [tab EXCEPT ![0].dirBlock = b]
    BY <1>2
  <2>2. [tab EXCEPT ![0].dirBlock = b] =
                [r \in Slot |-> IF r = 0 THEN [tab[0] EXCEPT !.dirBlock = b] ELSE tab[r]]
    BY <2>1, DirBlockChanges
  <2>3. [tab[0] EXCEPT !.dirBlock = b].dirBlock = b
    <3>1. tab[0] \in EntryType
      BY Constants DEF TableTyped
    <3> QED
      BY <3>1 DEF EntryType
  <2> QED
    BY <2>1, <2>2, <2>3, Constants
<1> QED
  BY <1>1, <1>2, RootTakesBlock

LEMMA LookUpOwns ==
    ASSUME Typed, MemoryOwned, up, LookUp, taint \subseteq taint'
    PROVE  MemoryOwned'
<1>1. /\ names = NoNames /\ names' = RootNames /\ table' = WithRootBlock(table)
      /\ bitmap' = bitmap \cup NewRootBlock /\ list' = list /\ now' = now
  BY DEF LookUp
<1>2. TableTyped(table) /\ table[0].mode = "dir"
  BY DEF Typed, MemoryTyped
<1>3. /\ NewRootBlock \subseteq DataBlock \ bitmap
      /\ \A s \in Slot : s # 0 => table'[s] = table[s]
      /\ table'[0].mode = "dir"
      /\ {table'[0].dirBlock} \ {0} \subseteq ({table[0].dirBlock} \ {0}) \cup NewRootBlock
  BY <1>1, <1>2, WithRoot, RootHolds
<1> DEFINE Add == [s \in Slot |-> IF s = 0 THEN NewRootBlock ELSE {}]
<1>4. \A s \in Slot : Held(s)' \subseteq Held(s) \cup Add[s]
  <2>1. ASSUME NEW s \in Slot, s # 0
        PROVE  Held(s)' = Held(s)
    BY <1>1, <1>3, <2>1 DEF Held, HeldOf
  <2>2. Held(0)' \subseteq Held(0) \cup NewRootBlock
    BY <1>2, <1>3 DEF Held, HeldOf
  <2> QED
    BY <2>1, <2>2
<1>5. \A s \in Slot : Held(s)' \subseteq bitmap'
  BY <1>1, <1>4 DEF MemoryOwned
<1>6. RootNames' = RootNames
  BY <1>1, RootNamesTyped DEF RootNames
<1>7. NamesOwned'
  <2>1. \A s \in Slot : table'[s].mode = table[s].mode
    BY <1>2, <1>3
  <2> QED
    BY <1>6, <2>1 DEF MemoryOwned, NamesOwned
<1>8. \A b \in DataBlock : now'[BlockAt(b)].items # <<>> =>
        b \in bitmap' /\ now[BlockAt(b)].items # <<>>
  BY <1>1 DEF MemoryOwned
<1>9. \A s \in Slot : table'[s].mode = "file" => table'[s] = table[s]
  BY <1>3
<1>10. /\ \A s \in Slot : Add[s] \cap bitmap = {}
       /\ \A r, s \in Slot : r # s => Add[r] \cap Add[s] = {}
  BY <1>3
<1> HIDE DEF Add
<1> QED
  BY <1>4, <1>5, <1>7, <1>8, <1>9, <1>10, OwnedStays

LEMMA LookUpUnreadOwns ==
    ASSUME Typed, MemoryOwned, LookUpUnread
    PROVE  MemoryOwned'
<1>1. UNCHANGED <<table, list, bitmap, now>> /\ Called({"names unread"}, {})
  BY LookUpUnreadTyped DEF LookUpUnread
<1>2. NamesOwned'
  BY <1>1 DEF Called, NamesOwned
<1>3. \A s \in Slot : Held(s)' = Held(s)
  BY <1>1 DEF Held, HeldOf
<1> QED
  BY <1>1, <1>2, <1>3 DEF MemoryOwned

LEMMA CreateOwns ==
    ASSUME Typed, MemoryOwned, up, Create, taint' \cap Causes = {}, taint \subseteq taint'
    PROVE  MemoryOwned'
<1>0. PICK s \in Slot :
         /\ table[s].mode = "free"
         /\ Call(IF table[s].count = 0 THEN {} ELSE {"residue"}, {})
         /\ table' = WithRootBlock([table EXCEPT ![s].mode = "file"])
         /\ names' = RootNames \cup {s} /\ bitmap' = bitmap \cup NewRootBlock
         /\ list' = list /\ now' = now
  BY DEF Create
<1> DEFINE tab == [table EXCEPT ![s].mode = "file"]
<1>1. TableTyped(table) /\ table[0].mode = "dir" /\ s # 0 /\ table[s] \in EntryType
  BY <1>0 DEF Typed, MemoryTyped, TableTyped
<1>2. table[s].count = 0
  BY <1>0 DEF Call, Causes
<1>3. /\ \A r \in Slot : r # s => tab[r] = table[r]
      /\ tab[s].mode = "file" /\ tab[s].extblk = 0 /\ tab[s].count = 0
      /\ tab[s].direct = table[s].direct /\ Len(table[s].direct) = 0
      /\ tab[s] \in EntryType
  <2>1. table = [r \in Slot |-> table[r]] /\ table[s].extblk = 0
    BY <1>0, <1>1 DEF TableTyped
  <2>2. Len(table[s].direct) = 0
    BY <1>1, <1>2, Constants DEF TableTyped
  <2> QED
    BY <1>1, <1>2, <2>1, <2>2 DEF EntryType
<1>4. DOMAIN table[s].direct = {}
  <2>1. table[s].direct \in Seq(FreeExtent)
    BY <1>1, DirectIsSeq
  <2> QED
    BY <1>3, <2>1
<1>5. TableTyped(tab) /\ tab[0].mode = "dir"
  <2>1. tab = [table EXCEPT ![s] = tab[s]]
    BY <1>1, <1>3 DEF TableTyped
  <2>2. /\ Len(tab[s].direct) = IF tab[s].count < DirectExtents THEN tab[s].count
                                ELSE DirectExtents
        /\ \A k \in DOMAIN tab[s].direct : BlocksOf(tab[s].direct[k]) \subseteq DataBlock
        /\ tab[s].mode = "free" => tab[s].extblk = 0 /\ tab[s].dirBlock = 0
        /\ tab[s].mode = "dir" => s = 0
    BY <1>3, <1>4, Constants
  <2>3. tab[0].mode = "dir"
    BY <1>1, <1>3, Constants
  <2> HIDE DEF tab
  <2>4. TableTyped([table EXCEPT ![s] = tab[s]])
    BY <1>1, <1>3, <2>2, EntryChanges
  <2> QED
    BY <2>1, <2>3, <2>4
<1>6. table' = WithRootBlock(tab)
  BY <1>0
<1> HIDE DEF tab
<1>7. /\ NewRootBlock \subseteq DataBlock \ bitmap
      /\ \A r \in Slot : r # 0 => table'[r] = tab[r]
      /\ table'[0].mode = "dir"
      /\ {table'[0].dirBlock} \ {0} \subseteq ({table[0].dirBlock} \ {0}) \cup NewRootBlock
  <2>1. tab[0] = table[0]
    BY <1>1, <1>3, Constants
  <2> QED
    BY <1>5, <1>6, <2>1, WithRoot, RootHolds
<1> DEFINE Add == [r \in Slot |-> IF r = 0 THEN NewRootBlock ELSE {}]
<1>8. Held(s)' = {}
  <2>1. list'[s] = NoList
    BY <1>0 DEF Typed, MemoryTyped
  <2>2. table'[s] = tab[s]
    BY <1>1, <1>7
  <2> QED
    BY <1>3, <1>4, <2>1, <2>2, NoItemsNoBlocks DEF Held, HeldOf, DirectBlocks, ListOf
<1>9. \A r \in Slot : Held(r)' \subseteq Held(r) \cup Add[r]
  <2>1. ASSUME NEW r \in Slot, r # 0, r # s
        PROVE  Held(r)' = Held(r)
    BY <1>0, <1>3, <1>7, <2>1 DEF Held, HeldOf
  <2>2. Held(0)' \subseteq Held(0) \cup NewRootBlock
    BY <1>1, <1>7 DEF Held, HeldOf
  <2> QED
    BY <1>8, <2>1, <2>2
<1>10. \A r \in Slot : Held(r)' \subseteq bitmap'
  BY <1>0, <1>9 DEF MemoryOwned
<1>11. RootNames' = RootNames \cup {s}
  <2>1. s \in names' /\ s # -1
    BY <1>0, Constants
  <2>2. names' # NoNames
    BY <2>1 DEF NoNames
  <2>3. RootNames' = names'
    BY <2>2 DEF RootNames
  <2> QED
    BY <1>0, <2>3
<1>12. NamesOwned'
  <2>1. \A r \in Slot : table'[r].mode = "file" <=> r = s \/ table[r].mode = "file"
    BY <1>1, <1>3, <1>7
  <2> QED
    BY <1>11, <2>1 DEF MemoryOwned, NamesOwned
<1>13. \A b \in DataBlock : now'[BlockAt(b)].items # <<>> =>
        b \in bitmap' /\ now[BlockAt(b)].items # <<>>
  BY <1>0 DEF MemoryOwned
<1>14. \A r \in Slot : table'[r].mode = "file" => r = s \/ table'[r] = table[r]
  BY <1>3, <1>7
<1>15. /\ \A r \in Slot : Add[r] \cap bitmap = {}
       /\ \A r, q \in Slot : r # q => Add[r] \cap Add[q] = {}
  BY <1>7
<1> HIDE DEF Add
<1> QED
  BY <1>8, <1>9, <1>10, <1>12, <1>13, <1>14, <1>15, OwnedStays

\* Bytes go to a block.
LEMMA ErasedBlock ==
    ASSUME Typed, NEW b \in DataBlock, BlockPut(b, Data)
    PROVE  /\ \A e \in EntryType : ItemBlocks(ListOf(e, now')) \subseteq ItemBlocks(ListOf(e, now))
           /\ \A c \in DataBlock : now'[BlockAt(c)].items # <<>> => now[BlockAt(c)].items # <<>>
           /\ \A c \in DataBlock : c # b => now'[BlockAt(c)] = now[BlockAt(c)]
           /\ now'[BlockAt(b)].items = <<>>
<1>1. now'[BlockAt(b)].items = <<>>
  BY BlocksTyped DEF BlockPut
<1>2. \A c \in DataBlock : c # b => now'[BlockAt(c)] = now[BlockAt(c)]
  BY DEF BlockPut
<1>3. ASSUME NEW e \in EntryType
      PROVE  ItemBlocks(ListOf(e, now')) \subseteq ItemBlocks(ListOf(e, now))
  <2>1. e.extblk \in {0} \cup DataBlock
    BY DEF EntryType
  <2>2. CASE e.extblk = b
    <3>1. ListOf(e, now') \in {<<>>}
      BY <1>1, <2>2 DEF ListOf
    <3> QED
      BY <3>1, NoItemsNoBlocks
  <2>3. CASE e.extblk # b
    <3>1. ListOf(e, now') = ListOf(e, now)
      BY <1>2, <2>1, <2>3 DEF ListOf
    <3> QED
      BY <3>1
  <2> QED
    BY <2>2, <2>3
<1> QED
  BY <1>1, <1>2, <1>3

\* Nothing goes where the names are, or it is told.
LEMMA NamesStay ==
    ASSUME Typed, NEW b \in DataBlock, BlockPut(b, Data), names' = names,
           table'[0].dirBlock = table[0].dirBlock,
           Overwrites(b, table') \cap {"names overwritten"} = {}
    PROVE  RootNames' = RootNames
<1>1. \A s \in Slot : table'[s].dirBlock # b
  BY DEF Overwrites
<1>2. table[0] \in EntryType /\ table[0].dirBlock # b
  BY <1>1, Constants DEF Typed, MemoryTyped, TableTyped
<1>3. table[0].dirBlock \in {0} \cup DataBlock
  BY <1>2 DEF EntryType
<1>4. table[0].dirBlock # 0 => now'[BlockAt(table[0].dirBlock)] = now[BlockAt(table[0].dirBlock)]
  BY <1>2, <1>3 DEF BlockPut
<1> QED
  BY <1>4 DEF RootNames

LEMMA GrowDirectOwns ==
    ASSUME Typed, MemoryOwned, up, NEW s \in Slot, GrowDirect(s), taint' \cap Causes = {},
           taint \subseteq taint'
    PROVE  MemoryOwned'
<1>0. PICK x \in FirstExtent(FreeExtents(bitmap)) :
         /\ table' = [table EXCEPT ![s].direct = Append(@, x), ![s].count = @ + 1]
         /\ bitmap' = SetAllocated(bitmap, x) /\ WriteBlock(x.start, table')
  BY DEF GrowDirect
<1> DEFINE e == [table[s] EXCEPT !.direct = Append(@, x), !.count = @ + 1]
<1>1. /\ Called(Overwrites(x.start, table'),
                     Overwrites(x.start, table') \cup Overwrites(x.start, Stored))
      /\ BlockPut(x.start, Data) /\ MemoryTyped'
      /\ table' = [r \in Slot |-> IF r = s THEN e ELSE table[r]]
  BY <1>0, GrowDirectTyped
<1>2. x \in Extent /\ BlocksOf(x) \subseteq DataBlock \ bitmap /\ x.start \in DataBlock
  BY TakenExtent
<1>3. /\ table[s].mode = "file" /\ names' = names /\ list' = list
      /\ table[s] \in EntryType /\ table[0].mode = "dir"
      /\ \A r \in Slot : table[r] \in EntryType
  BY DEF GrowDirect, Typed, MemoryTyped, TableTyped
<1>4. /\ e.mode = "file" /\ e.extblk = table[s].extblk /\ e.direct = Append(table[s].direct, x)
  BY <1>3 DEF EntryType
<1>5. e \in EntryType
  <2>1. table'[s] = e
    BY <1>1
  <2>2. table'[s] \in EntryType
    BY <1>1 DEF MemoryTyped, TableTyped
  <2> QED
    BY <2>1, <2>2
<1>6. DirectBlocks(e) = DirectBlocks(table[s]) \cup BlocksOf(x)
  <2> DEFINE q == table[s].direct
  <2>1. q \in Seq(FreeExtent) /\ x \in FreeExtent
    BY <1>2, <1>3, DirectIsSeq DEF Extent
  <2> HIDE DEF q
  <2>2. /\ DOMAIN Append(q, x) = DOMAIN q \cup {Len(q) + 1}
        /\ \A k \in DOMAIN q : Append(q, x)[k] = q[k]
        /\ Append(q, x)[Len(q) + 1] = x
    BY <2>1, Appending
  <2> DEFINE more == Append(q, x)
  <2> HIDE DEF more
  <2>3. UNION {BlocksOf(more[k]) : k \in DOMAIN more} =
          (UNION {BlocksOf(q[k]) : k \in DOMAIN q}) \cup BlocksOf(x)
    <3>1. /\ DOMAIN more = DOMAIN q \cup {Len(q) + 1}
          /\ \A k \in DOMAIN q : more[k] = q[k]
          /\ more[Len(q) + 1] = x
      BY <2>2 DEF more
    <3>2. UNION {BlocksOf(more[k]) : k \in DOMAIN more} \subseteq
            (UNION {BlocksOf(q[k]) : k \in DOMAIN q}) \cup BlocksOf(x)
      BY <3>1
    <3>3. (UNION {BlocksOf(q[k]) : k \in DOMAIN q}) \cup BlocksOf(x)
            \subseteq UNION {BlocksOf(more[k]) : k \in DOMAIN more}
      BY <3>1
    <3> QED
      BY <3>2, <3>3
  <2> QED
    BY <1>4, <2>3 DEF DirectBlocks, q, more
<1> HIDE DEF e
<1> DEFINE Add == [r \in Slot |-> IF r = s THEN BlocksOf(x) ELSE {}]
<1>7. \A r \in Slot : Held(r)' \subseteq Held(r) \cup Add[r]
  <2>1. \A c \in EntryType : ItemBlocks(ListOf(c, now')) \subseteq ItemBlocks(ListOf(c, now))
    BY <1>1, <1>2, ErasedBlock
  <2>2. ASSUME NEW r \in Slot, r # s
        PROVE  Held(r)' \subseteq Held(r)
    <3>1. table'[r] = table[r] /\ list'[r] = list[r]
      BY <1>1, <1>3, <2>2
    <3>2. ItemBlocks(ListOf(table[r], now')) \subseteq ItemBlocks(ListOf(table[r], now))
      BY <1>3, <2>1
    <3> QED
      BY <3>1, <3>2 DEF Held, HeldOf
  <2>3. Held(s)' \subseteq Held(s) \cup BlocksOf(x)
    <3>1. table'[s] = e /\ list'[s] = list[s]
      BY <1>1, <1>3
    <3>2. ItemBlocks(ListOf(e, now')) \subseteq ItemBlocks(ListOf(table[s], now))
      <4>1. ListOf(e, now) = ListOf(table[s], now)
        BY <1>4 DEF ListOf
      <4> QED
        BY <1>5, <2>1, <4>1
    <3> QED
      BY <1>3, <1>4, <1>6, <3>1, <3>2 DEF Held, HeldOf
  <2> QED
    BY <2>2, <2>3
<1>8. \A r \in Slot : Held(r)' \subseteq bitmap'
  BY <1>0, <1>7 DEF MemoryOwned, SetAllocated
<1>9. RootNames' = RootNames
  <2>1. Overwrites(x.start, table') \cap {"names overwritten"} = {}
    BY <1>1 DEF Called, Causes
  <2>2. table'[0] = table[0]
    BY <1>1, <1>3, Constants
  <2> QED
    BY <1>1, <1>2, <1>3, <2>1, <2>2, NamesStay
<1>10. NamesOwned'
  <2>1. \A r \in Slot : table'[r].mode = table[r].mode
    BY <1>1, <1>3, <1>4
  <2> QED
    BY <1>9, <2>1 DEF MemoryOwned, NamesOwned
<1>11. \A b \in DataBlock : now'[BlockAt(b)].items # <<>> =>
        b \in bitmap' /\ now[BlockAt(b)].items # <<>>
  BY <1>0, <1>1, <1>2, ErasedBlock DEF MemoryOwned, SetAllocated
<1>12. \A r \in Slot : table'[r].mode = "file" =>
         table[r].mode = "file" /\ table'[r].extblk = table[r].extblk
  BY <1>1, <1>3, <1>4
<1>13. /\ \A r \in Slot : Add[r] \cap bitmap = {}
       /\ \A r, q \in Slot : r # q => Add[r] \cap Add[q] = {}
  BY <1>2
<1> HIDE DEF Add
<1> QED
  BY <1>7, <1>8, <1>10, <1>11, <1>12, <1>13, OwnedStays

\* A file holds its list block or a free one, which has no items.
LEMMA ListHolds ==
    ASSUME Typed, MemoryOwned, NEW s \in Slot, table[s].mode = "file"
    PROVE  /\ {WithListBlock(s)[s].extblk} \ {0}
                \subseteq ({table[s].extblk} \ {0}) \cup NewListBlock(s)
           /\ table[s].extblk # 0 => WithListBlock(s)[s].extblk = table[s].extblk
           /\ ItemBlocks(ListOf(WithListBlock(s)[s], now)) \subseteq
                ItemBlocks(ListOf(table[s], now))
           /\ WithListBlock(s)[s].extblk \in NewListBlock(s) =>
                now[BlockAt(WithListBlock(s)[s].extblk)].items = <<>>
           /\ NewListBlock(s) \subseteq DataBlock \ bitmap
<1>0. TableTyped(table) /\ table[s] \in EntryType
  BY DEF Typed, MemoryTyped, TableTyped
<1>1. CASE NewListBlock(s) = {} /\ WithListBlock(s) = table
  BY <1>1
<1>2. CASE \E b \in DataBlock \ bitmap :
              /\ list[s] = NoList /\ table[s].extblk = 0
              /\ NewListBlock(s) = {b}
              /\ WithListBlock(s) = [table EXCEPT ![s].extblk = b]
  <2>1. PICK b \in DataBlock \ bitmap :
              /\ list[s] = NoList /\ table[s].extblk = 0
              /\ NewListBlock(s) = {b}
              /\ WithListBlock(s) = [table EXCEPT ![s].extblk = b]
    BY <1>2
  <2>2. WithListBlock(s)[s].extblk = b
    BY <1>0, <2>1 DEF TableTyped, EntryType
  <2>3. now[BlockAt(b)].items = <<>>
    BY <2>1 DEF MemoryOwned
  <2>4. ListOf(WithListBlock(s)[s], now) \in {<<>>}
    BY <2>2, <2>3 DEF ListOf
  <2> QED
    BY <2>1, <2>2, <2>3, <2>4, NoItemsNoBlocks
<1> QED
  BY <1>0, <1>1, <1>2, ListTakesBlock

LEMMA ReadFileOwns ==
    ASSUME Typed, MemoryOwned, up, NEW s \in Slot, ReadFile(s),
           taint \subseteq taint'
    PROVE  MemoryOwned'
<1>1. /\ table[s].mode = "file" /\ table[s].count >= DirectExtents
      /\ list' = [list EXCEPT ![s] = LoadedList(s)] /\ table' = WithListBlock(s)
      /\ bitmap' = bitmap \cup NewListBlock(s) /\ names' = names /\ now' = now
  BY DEF ReadFile
<1>2. /\ TableTyped(table) /\ table[0].mode = "dir" /\ list = [r \in Slot |-> list[r]]
  BY DEF Typed, MemoryTyped
<1>3. /\ NewListBlock(s) \subseteq DataBlock \ bitmap
      /\ \A r \in Slot : r # s => table'[r] = table[r] /\ list'[r] = list[r]
      /\ table'[s].mode = "file" /\ table'[s].direct = table[s].direct
      /\ list'[s] = LoadedList(s)
  BY <1>1, <1>2, WithList
<1>4. /\ {table'[s].extblk} \ {0} \subseteq ({table[s].extblk} \ {0}) \cup NewListBlock(s)
      /\ table[s].extblk # 0 => table'[s].extblk = table[s].extblk
      /\ ItemBlocks(ListOf(table'[s], now)) \subseteq ItemBlocks(ListOf(table[s], now))
  BY <1>1, ListHolds
<1>5. ItemBlocks(LoadedList(s)) \subseteq
         ItemBlocks(list[s]) \cup ItemBlocks(ListOf(table[s], now))
  BY <1>1, LoadedBlocks
<1> DEFINE Add == [r \in Slot |-> IF r = s THEN NewListBlock(s) ELSE {}]
<1>6. \A r \in Slot : Held(r)' \subseteq Held(r) \cup Add[r]
  <2>1. ASSUME NEW r \in Slot, r # s
        PROVE  Held(r)' = Held(r)
    BY <1>1, <1>3, <2>1 DEF Held, HeldOf
  <2>2. Held(s)' \subseteq Held(s) \cup NewListBlock(s)
    BY <1>1, <1>3, <1>4, <1>5 DEF Held, HeldOf, DirectBlocks
  <2> QED
    BY <2>1, <2>2
<1>7. \A r \in Slot : Held(r)' \subseteq bitmap'
  BY <1>1, <1>6 DEF MemoryOwned
<1>8. NamesOwned'
  <2>1. \A r \in Slot : table'[r].mode = table[r].mode
    BY <1>1, <1>3
  <2>2. table'[0] = table[0]
    BY <1>1, <1>2, <1>3, Constants
  <2>3. RootNames' = RootNames
    BY <1>1, <2>2 DEF RootNames
  <2> QED
    BY <2>1, <2>3 DEF MemoryOwned, NamesOwned
<1>9. \A b \in DataBlock : now'[BlockAt(b)].items # <<>> =>
        b \in bitmap' /\ now[BlockAt(b)].items # <<>>
  BY <1>1 DEF MemoryOwned
<1>10. \A r \in Slot : table'[r].mode = "file" =>
         /\ table[r].mode = "file"
         /\ table[r].extblk # 0 => table'[r].extblk = table[r].extblk
  BY <1>1, <1>3, <1>4
<1>11. /\ \A r \in Slot : Add[r] \cap bitmap = {}
       /\ \A r, q \in Slot : r # q => Add[r] \cap Add[q] = {}
  BY <1>3
<1> HIDE DEF Add
<1> QED
  BY <1>6, <1>7, <1>8, <1>9, <1>10, <1>11, OwnedStays

LEMMA GrowIndirectOwns ==
    ASSUME Typed, MemoryOwned, up, NEW s \in Slot, GrowIndirect(s), taint' \cap Causes = {},
           taint \subseteq taint'
    PROVE  MemoryOwned'
<1>0. PICK x \in FirstExtent(FreeExtents(bitmap)) :
         /\ list' = [list EXCEPT ![s] = Append(LoadedList(s), Item(x, "right"))]
         /\ table' = [WithListBlock(s) EXCEPT ![s].count = @ + 1]
         /\ bitmap' = SetAllocated(bitmap \cup NewListBlock(s), x)
         /\ WriteBlock(x.start, table')
  BY DEF GrowIndirect
<1> DEFINE old == WithListBlock(s)[s]
           e == [old EXCEPT !.count = @ + 1]
           it == Item(x, "right")
<1>1. /\ Called(Overwrites(x.start, table'),
                     Overwrites(x.start, table') \cup Overwrites(x.start, Stored))
      /\ BlockPut(x.start, Data) /\ MemoryTyped'
      /\ table' = [r \in Slot |-> IF r = s THEN e ELSE table[r]]
      /\ table[s].mode = "file" /\ table[s].count >= DirectExtents
      /\ list'[s] = Append(LoadedList(s), it)
      /\ \A r \in Slot : r # s => list'[r] = list[r]
  BY <1>0, GrowIndirectTyped
<1>2. x \in Extent /\ BlocksOf(x) \subseteq DataBlock \ bitmap /\ x.start \in DataBlock
  BY TakenExtent
<1>3. /\ names' = names /\ table[0].mode = "dir" /\ TableTyped(table)
      /\ \A r \in Slot : table[r] \in EntryType
  BY DEF GrowIndirect, Typed, MemoryTyped, TableTyped
<1>4. /\ TableTyped(WithListBlock(s)) /\ old.mode = "file" /\ old.direct = table[s].direct
      /\ NewListBlock(s) \subseteq DataBlock \ bitmap
  BY <1>1, <1>3, WithList
<1>5. /\ {old.extblk} \ {0} \subseteq ({table[s].extblk} \ {0}) \cup NewListBlock(s)
      /\ table[s].extblk # 0 => old.extblk = table[s].extblk
      /\ ItemBlocks(ListOf(old, now)) \subseteq ItemBlocks(ListOf(table[s], now))
  BY <1>1, ListHolds
<1>6. old \in EntryType
  BY <1>4 DEF TableTyped
<1> HIDE DEF old
<1>7. e.mode = "file" /\ e.direct = table[s].direct /\ e.extblk = old.extblk
  BY <1>4, <1>6 DEF EntryType
<1>8. e \in EntryType
  <2>1. table'[s] = e
    BY <1>1
  <2>2. table'[s] \in EntryType
    BY <1>1 DEF MemoryTyped, TableTyped
  <2> QED
    BY <2>1, <2>2
<1> HIDE DEF e
<1>9. ItemBlocks(list'[s]) \subseteq
        ItemBlocks(list[s]) \cup ItemBlocks(ListOf(table[s], now)) \cup BlocksOf(x)
  <2>1. ItemBlocks(LoadedList(s)) \subseteq
         ItemBlocks(list[s]) \cup ItemBlocks(ListOf(table[s], now))
    BY <1>1, LoadedBlocks
  <2>2. it \in ItemType /\ it.ext = x
    BY <1>2 DEF Item, ItemType
  <2>3. LoadedList(s) \in Seq(ItemType)
    BY <1>1, Loading
  <2> HIDE DEF it
  <2>4. ItemBlocks(Append(LoadedList(s), it)) = ItemBlocks(LoadedList(s)) \cup BlocksOf(it.ext)
    BY <2>2, <2>3, AppendedBlocks
  <2> QED
    BY <1>1, <2>1, <2>2, <2>4
<1> HIDE DEF it
<1>10. \A c \in EntryType : ItemBlocks(ListOf(c, now')) \subseteq ItemBlocks(ListOf(c, now))
  BY <1>1, <1>2, ErasedBlock
<1> DEFINE Add == [r \in Slot |-> IF r = s THEN NewListBlock(s) \cup BlocksOf(x) ELSE {}]
<1>11. \A r \in Slot : Held(r)' \subseteq Held(r) \cup Add[r]
  <2>1. ASSUME NEW r \in Slot, r # s
        PROVE  Held(r)' \subseteq Held(r)
    <3>1. table'[r] = table[r] /\ list'[r] = list[r]
      BY <1>1, <2>1
    <3>2. ItemBlocks(ListOf(table[r], now')) \subseteq ItemBlocks(ListOf(table[r], now))
      BY <1>3, <1>10
    <3> QED
      BY <3>1, <3>2 DEF Held, HeldOf
  <2>2. Held(s)' \subseteq Held(s) \cup NewListBlock(s) \cup BlocksOf(x)
    <3>1. table'[s] = e
      BY <1>1
    <3>2. ItemBlocks(ListOf(e, now')) \subseteq ItemBlocks(ListOf(table[s], now))
      <4>1. ListOf(e, now) = ListOf(old, now)
        BY <1>7 DEF ListOf
      <4> QED
        BY <1>5, <1>8, <1>10, <4>1
    <3>3. DirectBlocks(e) = DirectBlocks(table[s])
      BY <1>7 DEF DirectBlocks
    <3> QED
      BY <1>1, <1>5, <1>7, <1>9, <3>1, <3>2, <3>3 DEF Held, HeldOf
  <2> QED
    BY <2>1, <2>2
<1>12. \A r \in Slot : Held(r)' \subseteq bitmap'
  BY <1>0, <1>11 DEF MemoryOwned, SetAllocated
<1>13. NamesOwned'
  <2>1. Overwrites(x.start, table') \cap {"names overwritten"} = {}
    BY <1>1 DEF Called, Causes
  <2>2. table'[0] = table[0]
    BY <1>1, <1>3, Constants
  <2>3. RootNames' = RootNames
    BY <1>1, <1>2, <1>3, <2>1, <2>2, NamesStay
  <2>4. \A r \in Slot : table'[r].mode = table[r].mode
    BY <1>1, <1>7
  <2> QED
    BY <2>3, <2>4 DEF MemoryOwned, NamesOwned
<1>14. \A b \in DataBlock : now'[BlockAt(b)].items # <<>> =>
        b \in bitmap' /\ now[BlockAt(b)].items # <<>>
  BY <1>0, <1>1, <1>2, ErasedBlock DEF MemoryOwned, SetAllocated
<1>15. \A r \in Slot : table'[r].mode = "file" =>
         /\ table[r].mode = "file"
         /\ table[r].extblk # 0 => table'[r].extblk = table[r].extblk
  BY <1>1, <1>5, <1>7
<1>16. /\ \A r \in Slot : Add[r] \cap bitmap = {}
       /\ \A r, q \in Slot : r # q => Add[r] \cap Add[q] = {}
  BY <1>2, <1>4
<1> HIDE DEF Add
<1> QED
  BY <1>11, <1>12, <1>13, <1>14, <1>15, <1>16, OwnedStays

LEMMA RewriteOwns ==
    ASSUME Typed, MemoryOwned, up, NEW s \in Slot, Rewrite(s), taint' \cap Causes = {},
           taint \subseteq taint'
    PROVE  MemoryOwned'
<1>0. PICK b \in FileBlocks(s) : WriteBlock(b, table)
  BY DEF Rewrite
<1>1. /\ b \in DataBlock /\ BlockPut(b, Data) /\ UNCHANGED memory
      /\ Called(Overwrites(b, table), Overwrites(b, table) \cup Overwrites(b, Stored))
  BY <1>0, RewriteTyped
<1>2. UNCHANGED <<table, list, names, bitmap>>
  BY <1>1 DEF memory
<1>3. \A r \in Slot : table[r] \in EntryType
  BY DEF Typed, MemoryTyped, TableTyped
<1> DEFINE Add == [r \in Slot |-> {}]
<1>4. \A r \in Slot : Held(r)' \subseteq Held(r) \cup Add[r]
  <2>1. ASSUME NEW r \in Slot
        PROVE  Held(r)' \subseteq Held(r)
    <3>1. ItemBlocks(ListOf(table[r], now')) \subseteq ItemBlocks(ListOf(table[r], now))
      BY <1>1, <1>3, ErasedBlock
    <3> QED
      BY <1>2, <3>1 DEF Held, HeldOf
  <2> QED
    BY <2>1
<1>5. \A r \in Slot : Held(r)' \subseteq bitmap'
  BY <1>2, <1>4 DEF MemoryOwned
<1>6. RootNames' = RootNames
  <2>1. Overwrites(b, table') \cap {"names overwritten"} = {}
    BY <1>1, <1>2 DEF Called, Causes
  <2> QED
    BY <1>1, <1>2, <2>1, NamesStay
<1>7. NamesOwned'
  BY <1>2, <1>6 DEF MemoryOwned, NamesOwned
<1>8. \A c \in DataBlock : now'[BlockAt(c)].items # <<>> =>
        c \in bitmap' /\ now[BlockAt(c)].items # <<>>
  BY <1>1, <1>2, ErasedBlock DEF MemoryOwned
<1>9. /\ \A r \in Slot : Add[r] \cap bitmap = {}
      /\ \A r, q \in Slot : r # q => Add[r] \cap Add[q] = {}
  OBVIOUS
<1> HIDE DEF Add
<1> QED
  BY <1>2, <1>4, <1>5, <1>7, <1>8, <1>9, OwnedStays

LEMMA RemoveOwns ==
    ASSUME Typed, MemoryOwned, up, NEW s \in Slot, Remove(s), taint' \cap Causes = {},
           taint \subseteq taint'
    PROVE  MemoryOwned'
<1>0. /\ Called(IF table[s].extblk \in FileBlocks(s) THEN {"list freed"} ELSE {}, {})
      /\ MemoryTyped' /\ now' = now
  BY RemoveTyped
<1> DEFINE tab == [table EXCEPT ![s] = Empty]
<1>1. /\ table[s].mode = "file" /\ table' = WithRootBlock(tab)
      /\ list' = [list EXCEPT ![s] = NoList]
      /\ bitmap' = (bitmap \ FileBlocks(s)) \cup NewRootBlock
      /\ names' = RootNames \ {s}
  BY DEF Remove
<1>2. /\ TableTyped(table) /\ table[0].mode = "dir" /\ s # 0
      /\ list = [r \in Slot |-> list[r]]
  BY <1>1 DEF Typed, MemoryTyped
<1>3. TableTyped(tab)
  <2>1. Len(Empty.direct) = IF Empty.count < DirectExtents THEN Empty.count ELSE DirectExtents
    BY EmptyAndJunk, Constants
  <2> HIDE DEF TableTyped
  <2> QED
    BY <1>2, <2>1, EmptyAndJunk, EntryChanges
<1>4. /\ \A r \in Slot : tab[r] = IF r = s THEN Empty ELSE table[r]
      /\ tab[0] = table[0]
  BY <1>2, Constants DEF TableTyped
<1> HIDE DEF tab
<1>5. /\ NewRootBlock \subseteq DataBlock \ bitmap
      /\ \A r \in Slot : r # 0 => table'[r] = tab[r]
      /\ table'[0].mode = "dir"
      /\ {table'[0].dirBlock} \ {0} \subseteq ({table[0].dirBlock} \ {0}) \cup NewRootBlock
  BY <1>1, <1>2, <1>3, <1>4, WithRoot, RootHolds
<1>6. FileBlocks(s) \subseteq Held(s)
  <2>1. FileBlocks(s) \subseteq DirectBlocks(table[s]) \cup ItemBlocks(list[s])
    BY DEF FileBlocks, DirectBlocks, ItemBlocks
  <2> QED
    BY <1>1, <2>1 DEF Held, HeldOf
<1>7. table[s].extblk \notin FileBlocks(s)
  BY <1>0 DEF Called, Causes
<1> DEFINE Add == [r \in Slot |-> IF r = 0 THEN NewRootBlock ELSE {}]
<1>8. Held(s)' = {}
  <2>1. table'[s] = Empty
    BY <1>2, <1>4, <1>5
  <2> QED
    BY <2>1, EmptyAndJunk DEF Held, HeldOf
<1>9. \A r \in Slot : Held(r)' \subseteq Held(r) \cup Add[r]
  <2>1. ASSUME NEW r \in Slot, r # 0, r # s
        PROVE  Held(r)' = Held(r)
    <3>1. table'[r] = table[r] /\ list'[r] = list[r]
      BY <1>1, <1>2, <1>4, <1>5, <2>1
    <3> QED
      BY <1>0, <3>1 DEF Held, HeldOf
  <2>2. Held(0)' \subseteq Held(0) \cup NewRootBlock
    BY <1>2, <1>5 DEF Held, HeldOf
  <2> QED
    BY <1>8, <2>1, <2>2
<1>10. ASSUME NEW r \in Slot
       PROVE  Held(r)' \subseteq bitmap'
  <2>1. CASE r = s
    BY <1>8, <2>1
  <2>2. CASE r # s
    <3>1. Held(r) \cap FileBlocks(s) = {} /\ Held(r) \subseteq bitmap
      BY <1>6, <2>2 DEF MemoryOwned
    <3> QED
      BY <1>1, <1>9, <3>1
  <2> QED
    BY <2>1, <2>2
<1>11. NamesOwned'
  <2>1. RootNames \subseteq Slot /\ -1 \notin Slot
    BY RootNamesTyped, Constants
  <2>2. names' # NoNames
    BY <1>1, <2>1 DEF NoNames
  <2>3. RootNames' = RootNames \ {s}
    BY <1>1, <2>2 DEF RootNames
  <2>4. \A r \in Slot : table'[r].mode = "file" <=> r # s /\ table[r].mode = "file"
    BY <1>2, <1>4, <1>5, EmptyAndJunk
  <2> QED
    BY <2>3, <2>4 DEF MemoryOwned, NamesOwned
<1>12. ASSUME NEW b \in DataBlock, now'[BlockAt(b)].items # <<>>
       PROVE  b \in bitmap' /\ now[BlockAt(b)].items # <<>>
  <2>1. now[BlockAt(b)].items # <<>>
    BY <1>0, <1>12
  <2>2. b \in bitmap /\ (b \in Held(s) => b = table[s].extblk)
    BY <1>1, <2>1 DEF MemoryOwned
  <2>3. b \notin FileBlocks(s)
    BY <1>6, <1>7, <2>2
  <2> QED
    BY <1>1, <2>1, <2>2, <2>3
<1>13. \A r \in Slot : table'[r].mode = "file" => r # s /\ table'[r] = table[r]
  BY <1>2, <1>4, <1>5, EmptyAndJunk
<1>14. /\ \A r \in Slot : Add[r] \cap bitmap = {}
       /\ \A r, q \in Slot : r # q => Add[r] \cap Add[q] = {}
  BY <1>5
<1> HIDE DEF Add
<1> QED
  BY <1>9, <1>10, <1>11, <1>12, <1>13, <1>14, OwnedStays

LEMMA ReleaseOwns ==
    ASSUME Typed, MemoryOwned, NEW s \in Slot, Release(s),
           taint \subseteq taint'
    PROVE  MemoryOwned'
<1>1. list' = [list EXCEPT ![s] = NoList] /\ UNCHANGED <<table, names, bitmap, now>>
  BY DEF Release
<1>2. \A r \in Slot : ItemBlocks(list'[r]) \subseteq ItemBlocks(list[r])
  BY <1>1, NoItemsNoBlocks DEF Typed, MemoryTyped
<1> DEFINE Add == [r \in Slot |-> {}]
<1>3. \A r \in Slot : Held(r)' \subseteq Held(r) \cup Add[r]
  BY <1>1, <1>2 DEF Held, HeldOf
<1>4. \A r \in Slot : Held(r)' \subseteq bitmap'
  BY <1>1, <1>3 DEF MemoryOwned
<1>5. NamesOwned'
  BY <1>1 DEF MemoryOwned, NamesOwned, RootNames
<1>6. \A b \in DataBlock : now'[BlockAt(b)].items # <<>> =>
        b \in bitmap' /\ now[BlockAt(b)].items # <<>>
  BY <1>1 DEF MemoryOwned
<1>7. /\ \A r \in Slot : Add[r] \cap bitmap = {}
      /\ \A r, q \in Slot : r # q => Add[r] \cap Add[q] = {}
  OBVIOUS
<1> HIDE DEF Add
<1> QED
  BY <1>1, <1>3, <1>4, <1>5, <1>6, <1>7, OwnedStays

LEMMA CallOwns ==
    ASSUME Typed, MemoryOwned, up, ACall, taint' \cap Causes = {}, taint \subseteq taint'
    PROVE  MemoryOwned'
BY LookUpOwns, LookUpUnreadOwns, CreateOwns, GrowDirectOwns, ReadFileOwns, GrowIndirectOwns, RewriteOwns,
   RemoveOwns, ReleaseOwns DEF ACall

\* A step that leaves the memory alone and takes at most items from the blocks.
LEMMA SyncOwns ==
    ASSUME Typed, MemoryOwned, UNCHANGED memory,
           \A b \in DataBlock : now'[BlockAt(b)].items \in {now[BlockAt(b)].items, <<>>},
           names = NoNames /\ table[0].dirBlock # 0 =>
             now'[BlockAt(table[0].dirBlock)].names = now[BlockAt(table[0].dirBlock)].names,
           taint \subseteq taint'
    PROVE  MemoryOwned'
<1>1. UNCHANGED <<table, list, names, bitmap>>
  BY DEF memory
<1>2. \A r \in Slot : table[r] \in EntryType
  BY DEF Typed, MemoryTyped, TableTyped
<1> DEFINE Add == [r \in Slot |-> {}]
<1>3. ASSUME NEW r \in Slot
      PROVE  Held(r)' \subseteq Held(r)
  <2>1. table[r].extblk \in {0} \cup DataBlock
    BY <1>2 DEF EntryType
  <2>2. ListOf(table[r], now') \in {ListOf(table[r], now), <<>>}
    BY <2>1 DEF ListOf
  <2>3. ItemBlocks(ListOf(table[r], now')) \subseteq ItemBlocks(ListOf(table[r], now))
    BY <2>2, NoItemsNoBlocks
  <2> QED
    BY <1>1, <2>3 DEF Held, HeldOf
<1>4. \A r \in Slot : Held(r)' \subseteq bitmap'
  BY <1>1, <1>3 DEF MemoryOwned
<1>5. NamesOwned'
  <2>1. RootNames' = RootNames
    BY <1>1 DEF RootNames
  <2> QED
    BY <1>1, <2>1 DEF MemoryOwned, NamesOwned
<1>6. \A b \in DataBlock : now'[BlockAt(b)].items # <<>> =>
        b \in bitmap' /\ now[BlockAt(b)].items # <<>>
  BY <1>1 DEF MemoryOwned
<1>7. /\ \A r \in Slot : Held(r)' \subseteq Held(r) \cup Add[r]
      /\ \A r \in Slot : Add[r] \cap bitmap = {}
      /\ \A r, q \in Slot : r # q => Add[r] \cap Add[q] = {}
  BY <1>3
<1> HIDE DEF Add
<1> QED
  BY <1>1, <1>4, <1>5, <1>6, <1>7, OwnedStays

LEMMA FilledFileOwns ==
    ASSUME Typed, MemoryOwned, NEW s \in Slot, FilledFile(s)
    PROVE  MemoryOwned'
<1>1. UNCHANGED memory /\ s > 0 /\ table[s].mode = "file" /\ up /\ taint' = taint
  BY DEF FilledFile, Passed
<1>2. CASE now' = now
  BY <1>1, <1>2, SyncOwns
<1>3. CASE /\ SavesList(table[s], s) /\ table[s].extblk \in DataBlock
           /\ BlockPut(table[s].extblk, ListBlock(list[s]))
  <2> DEFINE b == table[s].extblk
  <2>1. UNCHANGED <<table, list, names, bitmap>>
    BY <1>1 DEF memory
  <2>2. list[s] \in Seq(ItemType) /\ b # 0 /\ b \in DataBlock
    BY <1>3 DEF SavesList, Typed, MemoryTyped
  <2>3. /\ now'[BlockAt(b)].items = list[s]
        /\ \A c \in DataBlock : c # b => now'[BlockAt(c)] = now[BlockAt(c)]
    BY <1>3, <2>2, BlocksTyped DEF BlockPut
  <2>4. \A r \in Slot : table[r].extblk \in {0} \cup DataBlock
    BY DEF Typed, MemoryTyped, TableTyped, EntryType
  <2>5. b \in Held(s)
    BY <1>1, <2>2 DEF Held, HeldOf
  <2> HIDE DEF b
  <2>6. ASSUME NEW r \in Slot
        PROVE  Held(r)' \subseteq Held(r)
    <3>1. CASE r = s
      <4>1. ListOf(table[s], now') = list[s]
        BY <2>2, <2>3 DEF ListOf, b
      <4> QED
        BY <1>1, <2>1, <3>1, <4>1 DEF Held, HeldOf
    <3>2. CASE r # s /\ table[r].mode = "file"
      <4>1. table[r].extblk # b
        <5>1. table[r].extblk # 0 => table[r].extblk \in Held(r)
          BY <3>2 DEF Held, HeldOf
        <5>2. b \notin Held(r)
          BY <2>5, <3>2 DEF MemoryOwned
        <5> QED
          BY <2>2, <5>1, <5>2
      <4>2. ListOf(table[r], now') = ListOf(table[r], now)
        BY <2>3, <2>4, <4>1 DEF ListOf
      <4> QED
        BY <2>1, <3>2, <4>2 DEF Held, HeldOf
    <3>3. CASE table[r].mode # "file"
      BY <2>1, <3>3 DEF Held, HeldOf
    <3> QED
      BY <3>1, <3>2, <3>3
  <2> DEFINE Add == [r \in Slot |-> {}]
  <2>7. \A r \in Slot : Held(r)' \subseteq bitmap'
    BY <2>1, <2>6 DEF MemoryOwned
  <2>8. NamesOwned'
    <3>1. table[0].dirBlock # 0 => table[0].dirBlock # b
      <4>1. table[0].mode = "dir" /\ 0 # s /\ 0 \in Slot
        BY <1>1, Constants DEF Typed, MemoryTyped
      <4>2. table[0].dirBlock # 0 => table[0].dirBlock \in Held(0)
        BY <4>1 DEF Held, HeldOf
      <4>3. b \notin Held(0)
        BY <2>5, <4>1 DEF MemoryOwned
      <4> QED
        BY <4>2, <4>3
    <3>2. table[0].dirBlock \in {0} \cup DataBlock
      BY Constants DEF Typed, MemoryTyped, TableTyped, EntryType
    <3>3. RootNames' = RootNames
      BY <2>1, <2>3, <3>1, <3>2 DEF RootNames
    <3> QED
      BY <1>1, <2>1, <3>3 DEF MemoryOwned, NamesOwned
  <2>9. ASSUME NEW c \in DataBlock, now'[BlockAt(c)].items # <<>>
        PROVE  /\ c \in bitmap'
               /\ \/ now[BlockAt(c)].items # <<>>
                  \/ \E r \in Slot : table'[r].mode = "file" /\ table'[r].extblk = c
    <3>1. CASE c = b
      BY <1>1, <2>1, <2>5, <3>1 DEF MemoryOwned, b
    <3>2. CASE c # b
      BY <2>1, <2>3, <2>9, <3>2 DEF MemoryOwned
    <3> QED
      BY <3>1, <3>2
  <2>10. /\ \A r \in Slot : Held(r)' \subseteq Held(r) \cup Add[r]
         /\ \A r \in Slot : Add[r] \cap bitmap = {}
         /\ \A r, q \in Slot : r # q => Add[r] \cap Add[q] = {}
    BY <2>6
  <2> HIDE DEF Add
  <2> QED
    BY <2>1, <2>7, <2>8, <2>9, <2>10, OwnedStays
<1> QED
  BY <1>2, <1>3 DEF FilledFile

\* A mount makes its memory of a storage file on which blocks have one owner.
LEMMA MountOwns ==
    ASSUME Typed, StorageOwns(now), NEW residue, Mounted(residue),
           "names unread" \notin blame => NamesStored(now)
    PROVE  MemoryOwned'
<1>1. /\ ~up /\ UNCHANGED <<list, names, now>> /\ bitmap' = now[BitmapAt]
      /\ \A s \in Slot : /\ table'[s].mode = now[EntryAt(s)].mode
                         /\ table'[s].mode # "free" => table'[s] = now[EntryAt(s)]
  BY DEF Mounted, storage
<1>2. /\ names = NoNames /\ now[EntryAt(0)].mode = "dir"
      /\ \A s \in Slot : list[s] = NoList
  BY <1>1 DEF Typed, Gone, StorageTyped
<1>3. ASSUME NEW s \in Slot
      PROVE  Held(s)' = HeldOf(now[EntryAt(s)], now)
  <2>1. CASE table'[s].mode = "free"
    BY <1>1, <2>1 DEF Held, HeldOf
  <2>2. CASE table'[s].mode # "free"
    <3>1. table'[s] = now[EntryAt(s)] /\ list'[s] = NoList
      BY <1>1, <1>2, <2>2
    <3> QED
      BY <1>1, <3>1, NoItemsNoBlocks DEF Held, HeldOf
  <2> QED
    BY <2>1, <2>2
<1>4. RootNames' = NamesOf(now)
  <2>1. table'[0] = now[EntryAt(0)]
    BY <1>1, <1>2, Constants
  <2> QED
    BY <1>1, <1>2, <2>1 DEF RootNames, NamesOf
<1>5. ASSUME NEW r \in Slot, NEW s \in Slot, r # s
      PROVE  Held(r)' \cap Held(s)' = {}
  BY <1>3, <1>5 DEF StorageOwns
<1>6. \A s \in Slot : Held(s)' \subseteq bitmap'
  BY <1>1, <1>3 DEF StorageOwns
<1>7. NamesOwned'
  <2>1. taint' = blame
    BY DEF Mounted
  <2> QED
    BY <1>1, <1>4, <2>1 DEF NamesStored, NamesOwned
<1>8. ASSUME NEW b \in DataBlock, now'[BlockAt(b)].items # <<>>
      PROVE  /\ b \in bitmap'
             /\ \A s \in Slot :
                  table'[s].mode = "file" /\ b \in Held(s)' => b = table'[s].extblk
  <2>1. /\ b \in now[BitmapAt]
        /\ \A s \in Slot :
            now[EntryAt(s)].mode = "file" /\ b \in HeldOf(now[EntryAt(s)], now) =>
                b = now[EntryAt(s)].extblk
    BY <1>1, <1>8 DEF StorageOwns
  <2> QED
    BY <1>1, <1>3, <2>1
<1> QED
  BY <1>5, <1>6, <1>7, <1>8 DEF MemoryOwned

LEMMA AgreeingOwns ==
    ASSUME NEW f, NEW g, StorageTyped(f), StorageOwns(f), Agree(f, g)
    PROVE  StorageOwns(g) /\ (NamesStored(f) => NamesStored(g))
<1>1. /\ \A s \in Slot : g[EntryAt(s)] = f[EntryAt(s)]
      /\ g[BitmapAt] = f[BitmapAt] /\ NamesOf(g) = NamesOf(f)
      /\ \A b \in DataBlock : g[BlockAt(b)].items \in {f[BlockAt(b)].items, <<>>}
  BY DEF Agree
<1>2. ASSUME NEW s \in Slot
      PROVE  HeldOf(g[EntryAt(s)], g) \subseteq HeldOf(f[EntryAt(s)], f)
  <2>1. f[EntryAt(s)].extblk \in {0} \cup DataBlock
    BY DEF StorageTyped, TableTyped, TableOf, EntryType
  <2>2. ListOf(f[EntryAt(s)], g) \in {ListOf(f[EntryAt(s)], f), <<>>}
    BY <1>1, <2>1 DEF ListOf
  <2>3. ItemBlocks(ListOf(f[EntryAt(s)], g)) \subseteq ItemBlocks(ListOf(f[EntryAt(s)], f))
    BY <2>2, NoItemsNoBlocks
  <2> QED
    BY <1>1, <2>3 DEF HeldOf
<1>3. ASSUME NEW r \in Slot, NEW s \in Slot, r # s
      PROVE  HeldOf(g[EntryAt(r)], g) \cap HeldOf(g[EntryAt(s)], g) = {}
  BY <1>2, <1>3 DEF StorageOwns
<1>4. \A s \in Slot : HeldOf(g[EntryAt(s)], g) \subseteq g[BitmapAt]
  BY <1>1, <1>2 DEF StorageOwns
<1>5. NamesStored(f) => NamesStored(g)
  BY <1>1 DEF NamesStored
<1>6. ASSUME NEW b \in DataBlock, g[BlockAt(b)].items # <<>>
      PROVE  /\ b \in g[BitmapAt]
             /\ \A s \in Slot :
                  g[EntryAt(s)].mode = "file" /\ b \in HeldOf(g[EntryAt(s)], g) =>
                    b = g[EntryAt(s)].extblk
  <2>1. f[BlockAt(b)].items # <<>>
    BY <1>1, <1>6
  <2> QED
    BY <1>1, <1>2, <2>1 DEF StorageOwns
<1> QED
  BY <1>3, <1>4, <1>5, <1>6 DEF StorageOwns

LEMMA MemoryOwnsStep ==
    ASSUME Typed, MemoryOwns, BlamedInv, [Next]_vars
    PROVE  MemoryOwns'
<1> SUFFICES ASSUME up', taint' \cap Causes = {}
             PROVE  MemoryOwned'
  BY DEF MemoryOwns
<1>1. CASE ACall /\ AnyCall
  <2>1. MemoryOwned /\ up
    BY <1>1 DEF AnyCall, MemoryOwns
  <2> QED
    BY <1>1, <2>1, CallOwns DEF AnyCall
<1>2. ASSUME UNCHANGED <<up, taint>>
      PROVE  MemoryOwned
  BY <1>2 DEF MemoryOwns
<1>3. CASE \E found \in {Empty, Junk} : Started(found)
  <2>1. UNCHANGED <<up, taint, now>> /\ UNCHANGED memory
    BY <1>3 DEF Started, storage
  <2> QED
    BY <1>2, <2>1, SyncOwns
<1>4. CASE \E s \in Slot : FilledFile(s)
  <2>1. UNCHANGED <<up, taint>>
    BY <1>4 DEF FilledFile, Passed
  <2> QED
    BY <1>2, <1>4, <2>1, FilledFileOwns
<1>5. CASE FilledDir
  <2>1. UNCHANGED <<up, taint>> /\ UNCHANGED memory
    BY <1>5 DEF FilledDir, Passed
  <2>2. CASE now' = now
    BY <1>2, <2>1, <2>2, SyncOwns
  <2>3. CASE /\ SavesNames(table[0]) /\ table[0].dirBlock \in DataBlock
             /\ BlockPut(table[0].dirBlock, NameBlock(names))
    <3>1. names # NoNames /\ names \in SUBSET Slot
      BY <2>3 DEF SavesNames, Typed, MemoryTyped
    <3>2. NameBlock(names).items = <<>>
      BY <3>1, BlocksTyped
    <3>3. \A b \in DataBlock : now'[BlockAt(b)].items \in {now[BlockAt(b)].items, <<>>}
      BY <2>3, <3>2 DEF BlockPut
    <3> QED
      BY <1>2, <2>1, <3>1, <3>3, SyncOwns
  <2> QED
    BY <1>5, <2>2, <2>3 DEF FilledDir
<1>6. CASE SlotPassed
  BY <1>2, <1>6, SyncOwns DEF SlotPassed, Passed
<1>7. ASSUME UNCHANGED <<up, taint>>, UNCHANGED memory,
             \A b \in DataBlock : now'[BlockAt(b)] = now[BlockAt(b)]
      PROVE  MemoryOwned'
  <2>1. table[0].dirBlock \in {0} \cup DataBlock
    BY Constants DEF Typed, MemoryTyped, TableTyped, EntryType
  <2> QED
    BY <1>2, <1>7, <2>1, SyncOwns
<1>8. CASE BufferOut
  BY <1>7, <1>8 DEF BufferOut, EntriesPut, history
<1>9. CASE BitmapOut
  BY <1>7, <1>9 DEF BitmapOut, BitmapPut, history
<1>10. CASE Flushed
  BY <1>7, <1>10 DEF Flushed
<1>11. CASE GivenUp
  BY <1>7, <1>11 DEF GivenUp, history, storage
<1>12. CASE Emptied
  BY <1>12 DEF Emptied
<1>13. CASE \E residue : Mounted(residue)
  <2>1. PICK residue : Mounted(residue)
    BY <1>13
  <2>2. /\ StorageOwns(durable) /\ Agree(durable, now)
        /\ "names unread" \notin blame => NamesStored(durable)
    BY <2>1 DEF Mounted, BlamedInv
  <2>3. StorageOwns(now) /\ ("names unread" \notin blame => NamesStored(now))
    BY <2>2, AgreeingOwns DEF Typed
  <2> QED
    BY <2>1, <2>3, MountOwns
<1>14. CASE Stays
  BY <1>7, <1>14 DEF Stays, history, storage
<1> QED
  BY <1>1, <1>3, <1>4, <1>5, <1>6, <1>8, <1>9, <1>10, <1>11, <1>12, <1>13, <1>14, WhatAStepIs

\* A sync that nothing was wrong with has saved the owners.
LEMMA FlushOwns ==
    ASSUME Typed, CopiedEntries, CopiedNames, MemoryOwned, up, sync.at = "flush",
           "disturbed" \notin sync.flaws, sync.flaws \cap NamesHurt = {}
    PROVE  StorageOwns(now) /\ ("names unread" \notin taint => NamesStored(now))
<1>1. /\ now[EntryAt(0)].mode = "dir" /\ table[0].mode = "dir"
      /\ sync.from = MaxFileCount /\ sync.next = MaxFileCount
  BY DEF Typed, MemoryTyped, StorageTyped, SyncTyped
<1>2. \A s \in Slot : s < MaxFileCount
  BY SyncDiskAssumption DEF Slot
<1>3. /\ \A s \in Slot : Used(now[EntryAt(s)]) = Used(table[s])
      /\ now[BitmapAt] = bitmap
  BY <1>1, <1>2 DEF CopiedEntries
<1>4. now[EntryAt(0)] = table[0]
  BY <1>1, <1>3, Constants DEF Used
<1>5. NamesOf(now) = RootNames
  <2>1. MaxFileCount > 0
    BY SyncDiskAssumption
  <2> QED
    BY <1>1, <1>4, <2>1 DEF RootNames, NamesOf, CopiedNames
<1>6. \A s \in Slot : now[EntryAt(s)].mode \in {"file", "dir"}
                        \/ table[s].mode \in {"file", "dir"} => now[EntryAt(s)] = table[s]
  <2>1. Empty.mode = "free"
    BY EmptyAndJunk
  <2> QED
    BY <1>3, <2>1 DEF Used
<1>7. \A s \in Slot : HeldOf(now[EntryAt(s)], now) \subseteq Held(s)
  BY <1>6 DEF HeldOf, Held
<1>8. ASSUME NEW r \in Slot, NEW s \in Slot, r # s
      PROVE  HeldOf(now[EntryAt(r)], now) \cap HeldOf(now[EntryAt(s)], now) = {}
  BY <1>7, <1>8 DEF MemoryOwned
<1>9. \A s \in Slot : HeldOf(now[EntryAt(s)], now) \subseteq now[BitmapAt]
  BY <1>3, <1>7 DEF MemoryOwned
<1>10. "names unread" \notin taint => NamesStored(now)
  <2>1. \A s \in Slot : now[EntryAt(s)].mode = "file" <=> table[s].mode = "file"
    BY <1>6
  <2> QED
    BY <1>5, <2>1 DEF MemoryOwned, NamesOwned, NamesStored
<1>11. ASSUME NEW b \in DataBlock, now[BlockAt(b)].items # <<>>
       PROVE  /\ b \in now[BitmapAt]
              /\ \A s \in Slot :
                   now[EntryAt(s)].mode = "file" /\ b \in HeldOf(now[EntryAt(s)], now) =>
                     b = now[EntryAt(s)].extblk
  BY <1>3, <1>6, <1>7, <1>11 DEF MemoryOwned
<1> QED
  BY <1>8, <1>9, <1>10, <1>11 DEF StorageOwns

LEMMA AgreesWithItself ==
    ASSUME NEW f
    PROVE  Agree(f, f)
BY DEF Agree

LEMMA BlamedStep ==
    ASSUME Typed, CopiedEntries, CopiedNames, MemoryOwns, BlamedInv, [Next]_vars
    PROVE  BlamedInv'
<1>0. /\ now[EntryAt(0)].dirBlock \in {0} \cup DataBlock
      /\ durable[EntryAt(0)].dirBlock \in {0} \cup DataBlock
  BY Constants DEF Typed, StorageTyped, TableTyped, TableOf, EntryType
<1>1. CASE AnyCall
  <2>1. /\ sync'.at = sync.at /\ durable' = durable /\ blame \subseteq blame'
        /\ sync'.flaws \ sync.flaws \subseteq blame' /\ sync.flaws \subseteq sync'.flaws
    BY <1>1 DEF AnyCall
  <2>2. sync'.at # "idle" => "torn" \in blame' /\ sync'.flaws \subseteq blame'
    BY <2>1 DEF BlamedInv
  <2>3. ASSUME blame' \cap Causes = {}
        PROVE  /\ StorageOwns(durable) /\ Agree(durable, now')
               /\ "names unread" \notin blame' => NamesStored(durable)
    <3>1. /\ StorageOwns(durable) /\ Agree(durable, now)
          /\ "names unread" \notin blame' => NamesStored(durable)
      BY <2>1, <2>3 DEF BlamedInv
    <3>2. CASE now' = now
      BY <3>1, <3>2
    <3>3. CASE \E b \in DataBlock : BlockPut(b, Data) /\ Overwrites(b, Stored) \subseteq blame'
      <4>1. PICK b \in DataBlock : BlockPut(b, Data) /\ Overwrites(b, Stored) \subseteq blame'
        BY <3>3
      <4>2. "names overwritten" \notin blame'
        BY <2>3 DEF Causes
      <4>3. \A s \in Slot : Stored[s].dirBlock # b
        BY <4>1, <4>2 DEF Overwrites
      <4>4. now[EntryAt(0)].dirBlock # b
        BY <4>3, Constants DEF Stored
      <4>5. /\ \A s \in Slot : now'[EntryAt(s)] = now[EntryAt(s)]
            /\ now'[BitmapAt] = now[BitmapAt]
            /\ \A c \in DataBlock : c # b => now'[BlockAt(c)] = now[BlockAt(c)]
            /\ now'[BlockAt(b)].items = <<>>
        BY <4>1, BlocksTyped DEF BlockPut
      <4>6. NamesOf(now') = NamesOf(now)
        BY <1>0, <4>4, <4>5, Constants DEF NamesOf
      <4>7. \A c \in DataBlock : now'[BlockAt(c)].items \in {now[BlockAt(c)].items, <<>>}
        BY <4>5
      <4> QED
        BY <3>1, <4>5, <4>6, <4>7 DEF Agree
    <3> QED
      BY <1>1, <3>2, <3>3 DEF AnyCall
  <2> QED
    BY <2>1, <2>2, <2>3 DEF BlamedInv
<1>2. CASE \E found \in {Empty, Junk} : Started(found)
  BY <1>2 DEF Started, BlamedInv, Causes
<1>3. ASSUME sync.at # "idle", blame \subseteq blame', sync.flaws \subseteq sync'.flaws,
             sync'.flaws \ sync.flaws \subseteq blame'
      PROVE  BlamedInv'
  BY <1>3 DEF BlamedInv, Causes
<1>4. CASE \E s \in Slot : FilledFile(s)
  BY <1>3, <1>4 DEF FilledFile, Passed
<1>5. CASE FilledDir
  BY <1>3, <1>5 DEF FilledDir, Passed
<1>6. CASE SlotPassed
  BY <1>3, <1>6 DEF SlotPassed, Passed
<1>7. CASE BufferOut
  BY <1>3, <1>7 DEF BufferOut, history
<1>8. CASE BitmapOut
  BY <1>3, <1>8 DEF BitmapOut, history
<1>9. CASE Flushed
  <2>1. /\ sync'.at = "idle" /\ now' = now /\ durable' = now /\ up /\ sync.at = "flush"
        /\ blame' = taint \cup sync.flaws
    BY <1>9 DEF Flushed
  <2>2. ASSUME blame' \cap Causes = {}
        PROVE  StorageOwns(now) /\ ("names unread" \notin blame' => NamesStored(now))
    <3>1. taint \cap Causes = {} /\ "disturbed" \notin sync.flaws
          /\ sync.flaws \cap NamesHurt = {}
      BY <2>1, <2>2 DEF Causes, NamesHurt
    <3>2. MemoryOwned
      BY <2>1, <3>1 DEF MemoryOwns
    <3> QED
      BY <2>1, <3>1, <3>2, FlushOwns
  <2> QED
    BY <2>1, <2>2, AgreesWithItself DEF BlamedInv
<1>10. CASE GivenUp
  BY <1>10 DEF GivenUp, BlamedInv, storage, history
<1>11. CASE Emptied /\ (Mixed \/ UNCHANGED storage)
  <2>1. sync'.at = "idle" /\ blame' = blame
    BY <1>11 DEF Emptied
  <2> SUFFICES ASSUME blame \cap Causes = {}
               PROVE  /\ StorageOwns(durable') /\ Agree(durable', now')
                      /\ "names unread" \notin blame => NamesStored(durable')
    BY <2>1 DEF BlamedInv
  <2>2. /\ StorageOwns(durable) /\ Agree(durable, now)
        /\ "names unread" \notin blame => NamesStored(durable)
    BY DEF BlamedInv
  <2>3. CASE UNCHANGED storage
    BY <2>2, <2>3 DEF storage
  <2>4. CASE Mixed
    <3>1. /\ \A s \in Slot : now'[EntryAt(s)] \in {now[EntryAt(s)], durable[EntryAt(s)]}
          /\ \A b \in DataBlock : now'[BlockAt(b)] \in {now[BlockAt(b)], durable[BlockAt(b)]}
          /\ now'[BitmapAt] \in {now[BitmapAt], durable[BitmapAt]}
          /\ durable' = now'
      BY <2>4, Places DEF Mixed
    <3>2. /\ \A s \in Slot : now'[EntryAt(s)] = durable[EntryAt(s)]
          /\ now'[BitmapAt] = durable[BitmapAt]
          /\ \A b \in DataBlock : now'[BlockAt(b)].items \in {durable[BlockAt(b)].items, <<>>}
      BY <2>2, <3>1 DEF Agree
    <3>3. NamesOf(now') = NamesOf(durable)
      <4>1. now[EntryAt(0)] = durable[EntryAt(0)] /\ NamesOf(now) = NamesOf(durable)
        BY <2>2, Constants DEF Agree
      <4> QED
        BY <1>0, <3>1, <3>2, <4>1, Constants DEF NamesOf
    <3>4. Agree(durable, now')
      BY <3>2, <3>3 DEF Agree
    <3>5. StorageOwns(now') /\ ("names unread" \notin blame => NamesStored(now'))
      BY <2>2, <3>4, AgreeingOwns DEF Typed
    <3> QED
      BY <3>1, <3>5, AgreesWithItself
  <2> QED
    BY <1>11, <2>3, <2>4
<1>12. CASE \E residue : Mounted(residue)
  BY <1>12 DEF Mounted, BlamedInv, storage
<1>13. CASE Stays
  BY <1>13 DEF Stays, BlamedInv, storage, history
<1> QED
  BY <1>1, <1>2, <1>4, <1>5, <1>6, <1>7, <1>8, <1>9, <1>10, <1>11, <1>12, <1>13, WhatAStepIs

LEMMA OwnsInit ==
    ASSUME Init
    PROVE  MemoryOwns /\ BlamedInv
<1>1. Begun /\ sync.at = "idle"
  BY Beginning, IdleTyped DEF Begun
<1>2. /\ \A s \in Slot : now[EntryAt(s)] = table[s] /\ list[s] = NoList
      /\ \A s \in Slot : table[s] = IF s = 0 THEN Root ELSE Empty
      /\ Root.dirBlock = 0 /\ Root.mode = "dir" /\ Empty.mode = "free"
      /\ now[BitmapAt] = {} /\ bitmap = {} /\ names = NoNames /\ durable = now
      /\ \A b \in DataBlock : now[BlockAt(b)].items = <<>>
  BY <1>1, BlocksTyped DEF Begun, NewTable, Root, Empty
<1>3. \A s \in Slot : HeldOf(table[s], now) = {} /\ table[s].mode # "file"
  BY <1>2 DEF HeldOf
<1>4. \A s \in Slot : Held(s) = {}
  BY <1>3 DEF Held
<1>5. RootNames = {} /\ NamesOf(now) = {}
  BY <1>2, Constants DEF RootNames, NamesOf
<1>6. MemoryOwned
  BY <1>2, <1>3, <1>4, <1>5 DEF MemoryOwned, NamesOwned
<1>7. StorageOwns(durable) /\ NamesStored(durable)
  BY <1>2, <1>3, <1>5 DEF StorageOwns, NamesStored
<1> QED
  BY <1>1, <1>2, <1>6, <1>7, AgreesWithItself DEF MemoryOwns, BlamedInv

LEMMA OwnedIsConsistent ==
    ASSUME Typed, MemoryOwns
    PROVE  MountedIsConsistent
<1> SUFFICES ASSUME up, taint \cap Causes = {}
             PROVE  /\ \A r, s \in Slot : r # s => Claims(r) \cap Claims(s) = {}
                    /\ \A s \in Slot : Claims(s) \subseteq bitmap
                    /\ NamesOwned
  BY DEF MountedIsConsistent, NamesOwned
<1>1. MemoryOwned
  BY DEF MemoryOwns
<1>2. ASSUME NEW s \in Slot
      PROVE  Claims(s) \subseteq Held(s)
  <2>1. CASE table[s].mode = "dir"
    BY <2>1 DEF Claims, Held, HeldOf
  <2>2. CASE table[s].mode = "file"
    <3>1. Claims(s) \subseteq DirectBlocks(table[s]) \cup ItemBlocks(list[s])
                                \cup ({table[s].extblk} \ {0})
      BY <2>2 DEF Claims, DirectBlocks, ItemBlocks
    <3> QED
      BY <2>2, <3>1 DEF Held, HeldOf
  <2>3. CASE table[s].mode \notin {"dir", "file"}
    BY <2>3 DEF Claims
  <2> QED
    BY <2>1, <2>2, <2>3
<1>3. ASSUME NEW r \in Slot, NEW s \in Slot, r # s
      PROVE  Claims(r) \cap Claims(s) = {}
  BY <1>1, <1>2, <1>3 DEF MemoryOwned
<1>4. \A s \in Slot : Claims(s) \subseteq bitmap
  BY <1>1, <1>2 DEF MemoryOwned
<1> QED
  BY <1>1, <1>3, <1>4 DEF MemoryOwned

\* Whatever was saved, cut off by a crash and mounted again: in memory no block
\* has two owners, every owned block is marked and the names of the root are
\* the files (portfs_sync_fs, portfs_init_filetable, portfs_load_dir_data,
\* portfs_create, portfs_unlink, portfs_allocate_memory), unless one of the named
\* causes is in the history of what was mounted; the names alone are gone after
\* a load that found no memory to read them.
THEOREM MountsAreConsistent == Spec => []MountedIsConsistent
<1>1. Init => Typed /\ CopiedEntries /\ CopiedNames /\ MemoryOwns /\ BlamedInv
  BY TypedInit, SavedInit, OwnsInit
<1>2. Typed /\ CopiedEntries /\ CopiedNames /\ MemoryOwns /\ BlamedInv /\ [Next]_vars
        => (Typed /\ CopiedEntries /\ CopiedNames /\ MemoryOwns /\ BlamedInv)'
  BY TypedStep, CopiedEntriesStep, CopiedNamesStep, MemoryOwnsStep, BlamedStep
<1>3. Typed /\ MemoryOwns => MountedIsConsistent
  BY OwnedIsConsistent
<1> QED
  BY <1>1, <1>2, <1>3, PTL DEF Spec
-----------------------------------------------------------------------------
(* The lists of the files.                                                 *)

LEMMA FineStays ==
    ASSUME bigEndian' = bigEndian
    PROVE  \A its : Fine(its)' <=> Fine(its)
BY DEF Fine

\* A list in memory is as good as it is on storage.
LEMMA FineLoads ==
    ASSUME Typed, NEW s \in Slot, table[s].mode = "file", table[s].count >= DirectExtents,
           IF list[s] = NoList THEN Listed(table[s], now)
           ELSE Len(list[s]) = Over(table[s]) /\ Fine(list[s])
    PROVE  Len(LoadedList(s)) = Over(table[s]) /\ Fine(LoadedList(s))
<1>1. CASE list[s] # NoList
  BY <1>1, Loading
<1>2. CASE list[s] = NoList
  <2>0. table[s].count \in Nat
    <3>1. table[s] \in EntryType
      BY DEF Typed, MemoryTyped, TableTyped
    <3> QED
      BY <3>1, Constants DEF EntryType
  <2>1. Len(LoadedList(s)) = table[s].count - DirectExtents /\ LoadedList(s) \in Seq(ItemType)
    BY <1>2, Loading
  <2>2. Len(LoadedList(s)) = Over(table[s])
    BY <2>0, <2>1, Constants DEF Over
  <2>3. CASE table[s].count = DirectExtents
    <3>1. DOMAIN LoadedList(s) = {}
      BY <2>0, <2>1, <2>3, Constants, Elements
    <3> QED
      BY <2>2, <3>1 DEF Fine
  <2>4. CASE table[s].count > DirectExtents
    <3> DEFINE its == now[BlockAt(table[s].extblk)].items
               n == table[s].count - DirectExtents
               raw(k) == IF k > Len(its) THEN Garbage
                         ELSE IF bigEndian THEN its[k] ELSE Swapped(its[k])
    <3>1. table[s].extblk # 0 /\ Len(its) = n /\ Fine(its)
      BY <1>2, <2>4 DEF Listed, Over
    <3>2. LoadedList(s) = [k \in 1 .. n |-> raw(k)]
      BY <1>2, <3>1 DEF LoadedList
    <3>3. its \in Seq(ItemType)
      <4>1. table[s].extblk \in DataBlock
        BY <3>1 DEF Typed, MemoryTyped, TableTyped, EntryType
      <4>2. now[BlockAt(table[s].extblk)] \in BlockType
        BY <4>1 DEF Typed, StorageTyped
      <4> QED
        BY <4>2 DEF BlockType
    <3>4. n \in Nat
      BY <2>0, <2>4, Constants
    <3> HIDE DEF its, n
    <3>5. ASSUME NEW k \in 1 .. n
          PROVE  raw(k).form # "garbage" /\ (raw(k).form = "swapped" => ~bigEndian)
      <4>1. ~(k > Len(its)) /\ k \in DOMAIN its /\ its[k] \in ItemType
        BY <3>1, <3>3, <3>4, Elements
      <4>2. its[k].form \in {"right", "swapped"} /\ (its[k].form = "swapped" => ~bigEndian)
        BY <3>1, <4>1 DEF Fine, ItemType
      <4>3. Swapped(its[k]).form \in {"right", "swapped"}
        BY <4>1, <4>2 DEF Swapped, ItemType
      <4> QED
        BY <4>1, <4>2, <4>3
    <3> HIDE DEF raw
    <3>6. Fine([k \in 1 .. n |-> raw(k)])
      BY <3>5 DEF Fine
    <3> QED
      BY <2>2, <3>2, <3>6
  <2> QED
    BY <2>0, <2>3, <2>4, Constants
<1> QED
  BY <1>1, <1>2

\* An entry with the same list blocks, and the block not written, is as before.
LEMMA ListedStays ==
    ASSUME NEW e \in EntryType, NEW f, NEW g, Listed(e, f),
           e.extblk # 0 => g[BlockAt(e.extblk)].items = f[BlockAt(e.extblk)].items
    PROVE  Listed(e, g)
BY DEF Listed

\* The lists of the files are right.
Right(s) ==
    table[s].mode = "file" =>
        IF list[s] = NoList THEN Listed(table[s], now)
        ELSE Len(list[s]) = Over(table[s]) /\ Fine(list[s])

\* A slot whose entry and list stay, and whose list block is not written.
LEMMA RightStays ==
    ASSUME Typed, NEW s \in Slot, Right(s), bigEndian' = bigEndian, list'[s] = list[s],
           table'[s].mode = "file" => table'[s] = table[s],
           table[s].mode = "file" /\ list[s] = NoList /\ table[s].extblk # 0 =>
             now'[BlockAt(table[s].extblk)].items = now[BlockAt(table[s].extblk)].items
    PROVE  Right(s)'
<1> SUFFICES ASSUME table'[s].mode = "file"
             PROVE  IF list[s] = NoList THEN Listed(table[s], now)'
                    ELSE Len(list[s]) = Over(table[s]) /\ Fine(list[s])'
  BY DEF Right
<1>1. table'[s] = table[s] /\ table[s].mode = "file"
  OBVIOUS
<1>2. CASE list[s] # NoList
  BY <1>1, <1>2 DEF Right, Fine
<1>3. CASE list[s] = NoList
  BY <1>1, <1>3 DEF Right, Listed, Fine, Over
<1> QED
  BY <1>2, <1>3

\* What a write of bytes leaves of the lists.
LEMMA OtherListsStay ==
    ASSUME Typed, NEW b \in DataBlock, BlockPut(b, Data), NEW e \in EntryType, e.extblk # b
    PROVE  e.extblk # 0 => now'[BlockAt(e.extblk)] = now[BlockAt(e.extblk)]
BY DEF BlockPut, EntryType

LEMMA CallLists ==
    ASSUME Typed, up, \A s \in Slot : Right(s), ACall, AnyCall, taint' \cap WrongList = {}
    PROVE  \A s \in Slot : Right(s)'
<1>0. /\ bigEndian' = bigEndian /\ TableTyped(table) /\ table[0].mode = "dir"
      /\ list = [r \in Slot |-> list[r]] /\ \A r \in Slot : table[r] \in EntryType
  BY DEF AnyCall, Typed, MemoryTyped, TableTyped
<1>9. \A r \in Slot : table[r].count \in Nat
  BY <1>0, Constants DEF EntryType
<1>10. DirectExtents \in Nat /\ 0 < DirectExtents
  BY SyncDiskAssumption
<1>1. CASE LookUp
  <2>1. table' = WithRootBlock(table) /\ list' = list /\ now' = now
    BY <1>1 DEF LookUp
  <2>2. /\ \A r \in Slot : r # 0 => table'[r] = table[r]
        /\ table'[0].mode = "dir"
    BY <1>0, <2>1, WithRoot
  <2> QED
    BY <1>0, <2>1, <2>2, RightStays
<1>2. CASE Create
  <2>0. PICK s \in Slot :
         /\ table[s].mode = "free"
         /\ Call(IF table[s].count = 0 THEN {} ELSE {"residue"}, {})
         /\ table' = WithRootBlock([table EXCEPT ![s].mode = "file"])
         /\ list' = list /\ now' = now
    BY <1>2 DEF Create
  <2> DEFINE tab == [table EXCEPT ![s].mode = "file"]
  <2>1. table[s].count = 0 /\ s # 0
    BY <1>0, <2>0 DEF Call, Causes, WrongList
  <2>2. /\ \A r \in Slot : r # s => tab[r] = table[r]
        /\ tab[s] = [table[s] EXCEPT !.mode = "file"]
        /\ tab[s].count = 0 /\ tab[0] = table[0]
    <3>1. table = [r \in Slot |-> table[r]] /\ table[s] \in EntryType
      BY <1>0 DEF TableTyped
    <3> QED
      BY <2>1, <3>1, Constants DEF EntryType
  <2>3. /\ \A r \in Slot : r # 0 => table'[r] = tab[r]
        /\ table'[0].mode = "dir"
    <3>1. TableTyped(tab)
      <4>1. /\ tab[s] \in EntryType /\ tab[s].mode = "file" /\ tab[s].direct = table[s].direct
            /\ tab[s].count = table[s].count
        <5>1. table[s] \in EntryType /\ tab[s] = [table[s] EXCEPT !.mode = "file"]
          BY <1>0, <2>2
        <5> HIDE DEF tab
        <5> QED
          BY <5>1 DEF EntryType
      <4>2. /\ Len(tab[s].direct) = IF tab[s].count < DirectExtents THEN tab[s].count
                                    ELSE DirectExtents
            /\ \A k \in DOMAIN tab[s].direct : BlocksOf(tab[s].direct[k]) \subseteq DataBlock
        BY <1>0, <4>1 DEF TableTyped
      <4>3. tab = [table EXCEPT ![s] = tab[s]]
        BY <1>0, <2>2 DEF TableTyped
      <4> HIDE DEF tab
      <4>4. TableTyped([table EXCEPT ![s] = tab[s]])
        BY <1>0, <4>1, <4>2, EntryChanges
      <4> QED
        BY <4>3, <4>4
    <3>2. tab[0].mode = "dir" /\ table' = WithRootBlock(tab)
      BY <1>0, <2>0, <2>2
    <3> HIDE DEF tab
    <3> QED
      BY <3>1, <3>2, WithRoot
  <2> HIDE DEF tab
  <2>4. Right(s)'
    <3>1. list'[s] = NoList /\ table'[s].count = 0
      BY <2>0, <2>1, <2>2, <2>3 DEF Typed, MemoryTyped
    <3>2. ~(table'[s].count > DirectExtents)
      BY <1>10, <3>1
    <3> QED
      BY <3>1, <3>2 DEF Right, Listed
  <2>5. ASSUME NEW r \in Slot, r # s
        PROVE  Right(r)'
    <3>1. table'[r].mode = "file" => table'[r] = table[r]
      BY <2>2, <2>3, <2>5
    <3> QED
      BY <1>0, <2>0, <3>1, RightStays
  <2> QED
    BY <2>4, <2>5
<1>3. ASSUME NEW s \in Slot, GrowDirect(s)
      PROVE  \A r \in Slot : Right(r)'
  <2>0. PICK x \in FirstExtent(FreeExtents(bitmap)) :
           /\ table' = [table EXCEPT ![s].direct = Append(@, x), ![s].count = @ + 1]
           /\ bitmap' = SetAllocated(bitmap, x) /\ WriteBlock(x.start, table')
    BY <1>3 DEF GrowDirect
  <2> DEFINE e == [table[s] EXCEPT !.direct = Append(@, x), !.count = @ + 1]
  <2>1. /\ Called(Overwrites(x.start, table'),
                     Overwrites(x.start, table') \cup Overwrites(x.start, Stored))
        /\ BlockPut(x.start, Data)
        /\ table' = [r \in Slot |-> IF r = s THEN e ELSE table[r]]
    BY <1>3, <2>0, GrowDirectTyped
  <2>2. x.start \in DataBlock
    BY TakenExtent
  <2>3. \A r \in Slot : table'[r].extblk # x.start
    BY <2>1 DEF Called, Overwrites, WrongList
  <2>4. /\ table[s].mode = "file" /\ table[s].count < DirectExtents /\ list' = list
    BY <1>3 DEF GrowDirect
  <2>5. e.count = table[s].count + 1
    BY <1>0 DEF EntryType
  <2> HIDE DEF e
  <2>6. Right(s)'
    <3>1. table'[s] = e /\ ~(e.count > DirectExtents) /\ ~(table[s].count > DirectExtents)
      <4>1. table'[s] = e
        BY <2>1
      <4>2. ~(e.count > DirectExtents) /\ ~(table[s].count > DirectExtents)
        BY <1>9, <1>10, <2>4, <2>5
      <4> QED
        BY <4>1, <4>2
    <3>2. CASE list[s] = NoList
      BY <2>4, <3>1, <3>2 DEF Right, Listed
    <3>3. CASE list[s] # NoList
      <4>1. Len(list[s]) = Over(table[s]) /\ Fine(list[s])
        BY <2>4, <3>3 DEF Right
      <4>2. Over(e) = Over(table[s])
        BY <3>1 DEF Over
      <4>3. Len(list'[s]) = Over(table'[s]) /\ Fine(list[s])'
        BY <1>0, <2>4, <3>1, <4>1, <4>2 DEF Fine
      <4> QED
        BY <2>4, <3>3, <4>3 DEF Right
    <3> QED
      BY <3>2, <3>3
  <2>7. ASSUME NEW r \in Slot, r # s
        PROVE  Right(r)'
    <3>1. table'[r] = table[r] /\ table[r].extblk # x.start
      BY <2>1, <2>3, <2>7
    <3>2. table[r].extblk # 0 =>
            now'[BlockAt(table[r].extblk)].items = now[BlockAt(table[r].extblk)].items
      BY <1>0, <2>1, <2>2, <3>1, OtherListsStay
    <3> QED
      BY <1>0, <2>4, <3>1, <3>2, RightStays
  <2> QED
    BY <2>6, <2>7
<1>4. ASSUME NEW s \in Slot, ReadFile(s)
      PROVE  \A r \in Slot : Right(r)'
  <2>1. /\ table[s].mode = "file" /\ table[s].count >= DirectExtents
        /\ list' = [list EXCEPT ![s] = LoadedList(s)] /\ table' = WithListBlock(s)
        /\ now' = now
    BY <1>4 DEF ReadFile
  <2>2. /\ \A r \in Slot : r # s => table'[r] = table[r] /\ list'[r] = list[r]
        /\ table'[s].count = table[s].count /\ list'[s] = LoadedList(s)
    BY <1>0, <2>1, WithList
  <2>3. Right(s)'
    <3>1. Len(LoadedList(s)) = Over(table[s]) /\ Fine(LoadedList(s))
      BY <2>1, FineLoads DEF Right
    <3>2. LoadedList(s) # NoList
      BY <2>1, Loading, ListIsNotNoList
    <3>3. Len(list'[s]) = Over(table'[s]) /\ Fine(list[s])'
      BY <1>0, <2>2, <3>1 DEF Over, Fine
    <3> QED
      BY <2>2, <3>2, <3>3 DEF Right
  <2> QED
    BY <1>0, <2>1, <2>2, <2>3, RightStays
<1>5. ASSUME NEW s \in Slot, GrowIndirect(s)
      PROVE  \A r \in Slot : Right(r)'
  <2>0. PICK x \in FirstExtent(FreeExtents(bitmap)) :
         /\ list' = [list EXCEPT ![s] = Append(LoadedList(s), Item(x, "right"))]
         /\ table' = [WithListBlock(s) EXCEPT ![s].count = @ + 1]
         /\ bitmap' = SetAllocated(bitmap \cup NewListBlock(s), x)
         /\ WriteBlock(x.start, table')
    BY <1>5 DEF GrowIndirect
  <2> DEFINE old == WithListBlock(s)[s]
             e == [old EXCEPT !.count = @ + 1]
             it == Item(x, "right")
  <2>1. /\ Called(Overwrites(x.start, table'),
                     Overwrites(x.start, table') \cup Overwrites(x.start, Stored))
        /\ BlockPut(x.start, Data)
        /\ table' = [r \in Slot |-> IF r = s THEN e ELSE table[r]]
        /\ table[s].mode = "file" /\ table[s].count >= DirectExtents
        /\ Append(LoadedList(s), it) \in Seq(ItemType)
        /\ list'[s] = Append(LoadedList(s), it)
        /\ \A r \in Slot : r # s => list'[r] = list[r]
    BY <1>5, <2>0, GrowIndirectTyped
  <2>2. x.start \in DataBlock /\ x \in Extent
    BY TakenExtent
  <2>3. \A r \in Slot : table'[r].extblk # x.start
    BY <2>1 DEF Called, Overwrites, WrongList
  <2>4. e.count = table[s].count + 1
    <3>1. TableTyped(WithListBlock(s)) /\ old.count = table[s].count
      BY <1>0, <2>1, WithList
    <3>2. old \in EntryType
      BY <3>1 DEF TableTyped
    <3> HIDE DEF old
    <3> QED
      BY <3>1, <3>2 DEF EntryType
  <2> HIDE DEF e
  <2>5. Right(s)'
    <3>1. Len(LoadedList(s)) = Over(table[s]) /\ Fine(LoadedList(s))
      BY <2>1, FineLoads DEF Right
    <3> DEFINE q == LoadedList(s)
               more == Append(q, it)
    <3>2. it \in ItemType /\ it.form = "right" /\ q \in Seq(ItemType)
      BY <2>1, <2>2, Loading DEF Item, ItemType
    <3> HIDE DEF it, q
    <3>3. /\ Len(more) = Len(q) + 1
          /\ DOMAIN more = DOMAIN q \cup {Len(q) + 1}
          /\ \A k \in DOMAIN q : more[k] = q[k]
          /\ more[Len(q) + 1] = it
      BY <3>2, Appending
    <3>4. list'[s] = more
      BY <2>1 DEF q
    <3> HIDE DEF more
    <3>5. \A k \in DOMAIN more :
            more[k].form # "garbage" /\ (more[k].form = "swapped" => ~bigEndian)
      BY <3>1, <3>2, <3>3 DEF Fine, q
    <3>6. Over(e) = Over(table[s]) + 1
      <4>1. table[s].count \in Nat /\ table[s].count >= DirectExtents
        BY <1>9, <2>1
      <4> QED
        BY <1>10, <2>4, <4>1 DEF Over
    <3>7. Len(list'[s]) = Over(table'[s]) /\ Fine(list[s])'
      BY <1>0, <2>1, <3>1, <3>3, <3>4, <3>5, <3>6 DEF Fine, q
    <3>8. list'[s] # NoList
      BY <2>1, ListIsNotNoList
    <3> QED
      BY <3>7, <3>8 DEF Right
  <2>6. ASSUME NEW r \in Slot, r # s
        PROVE  Right(r)'
    <3>1. table'[r] = table[r] /\ table[r].extblk # x.start
      BY <2>1, <2>3, <2>6
    <3>2. table[r].extblk # 0 =>
            now'[BlockAt(table[r].extblk)].items = now[BlockAt(table[r].extblk)].items
      BY <1>0, <2>1, <2>2, <3>1, OtherListsStay
    <3> QED
      BY <1>0, <2>1, <2>6, <3>1, <3>2, RightStays
  <2> QED
    BY <2>5, <2>6
<1>6. ASSUME NEW s \in Slot, Rewrite(s)
      PROVE  \A r \in Slot : Right(r)'
  <2>0. PICK b \in FileBlocks(s) : WriteBlock(b, table)
    BY <1>6 DEF Rewrite
  <2>1. /\ b \in DataBlock /\ BlockPut(b, Data) /\ UNCHANGED memory
        /\ Called(Overwrites(b, table), Overwrites(b, table) \cup Overwrites(b, Stored))
    BY <1>6, <2>0, RewriteTyped
  <2>2. UNCHANGED <<table, list>> /\ \A r \in Slot : table[r].extblk # b
    BY <2>1 DEF Called, Overwrites, WrongList, memory
  <2>3. ASSUME NEW r \in Slot
        PROVE  Right(r)'
    <3>1. table[r].extblk # 0 =>
            now'[BlockAt(table[r].extblk)].items = now[BlockAt(table[r].extblk)].items
      BY <1>0, <2>1, <2>2, OtherListsStay
    <3> QED
      BY <1>0, <2>2, <3>1, RightStays
  <2> QED
    BY <2>3
<1>7. ASSUME NEW s \in Slot, Remove(s)
      PROVE  \A r \in Slot : Right(r)'
  <2> DEFINE tab == [table EXCEPT ![s] = Empty]
  <2>1. /\ table[s].mode = "file" /\ table' = WithRootBlock(tab) /\ now' = now
        /\ list' = [list EXCEPT ![s] = NoList] /\ s # 0
    BY <1>0, <1>7 DEF Remove
  <2>2. TableTyped(tab)
    <3>1. Len(Empty.direct) = IF Empty.count < DirectExtents THEN Empty.count
                              ELSE DirectExtents
      BY <1>10, EmptyAndJunk
    <3> HIDE DEF TableTyped
    <3> QED
      BY <1>0, <3>1, EmptyAndJunk, EntryChanges
  <2>3. /\ \A r \in Slot : tab[r] = IF r = s THEN Empty ELSE table[r]
        /\ tab[0] = table[0]
    BY <1>0, <2>1, Constants DEF TableTyped
  <2> HIDE DEF tab
  <2>4. /\ \A r \in Slot : r # 0 => table'[r] = tab[r]
        /\ table'[0].mode = "dir"
    BY <1>0, <2>1, <2>2, <2>3, WithRoot
  <2>5. Right(s)'
    BY <2>1, <2>3, <2>4, EmptyAndJunk DEF Right
  <2>6. ASSUME NEW r \in Slot, r # s
        PROVE  Right(r)'
    <3>1. list'[r] = list[r] /\ (table'[r].mode = "file" => table'[r] = table[r])
      BY <1>0, <2>1, <2>3, <2>4, <2>6
    <3> QED
      BY <1>0, <2>1, <3>1, RightStays
  <2> QED
    BY <2>5, <2>6
<1>8. ASSUME NEW s \in Slot, Release(s)
      PROVE  \A r \in Slot : Right(r)'
  <2>1. /\ list[s] # NoList /\ list' = [list EXCEPT ![s] = NoList]
        /\ UNCHANGED <<table, now>>
    BY <1>8 DEF Release
  <2>2. table[s].extblk # 0 /\ now[BlockAt(table[s].extblk)].items = list[s]
    BY <1>8, ReleaseTyped DEF Called, WrongList
  <2>3. Right(s)'
    <3> SUFFICES ASSUME table[s].mode = "file"
                 PROVE  Listed(table[s], now)'
      BY <1>0, <2>1 DEF Right
    <3>1. Len(list[s]) = Over(table[s]) /\ Fine(list[s])
      BY <2>1 DEF Right
    <3> QED
      BY <1>0, <2>1, <2>2, <3>1 DEF Listed, Fine, Over
  <2>4. ASSUME NEW r \in Slot, r # s
        PROVE  Right(r)'
    BY <1>0, <2>1, <2>4, RightStays
  <2> QED
    BY <2>3, <2>4
<1>11. CASE LookUpUnread
  <2>1. UNCHANGED <<table, list, now>>
    BY <1>11 DEF LookUpUnread
  <2> QED
    BY <1>0, <2>1, RightStays
<1> QED
  BY <1>1, <1>2, <1>3, <1>4, <1>5, <1>6, <1>7, <1>8, <1>11 DEF ACall

LEMMA ListsAreRight ==
    /\ MemoryLists <=> (up /\ taint \cap WrongList = {} => \A s \in Slot : Right(s))
    /\ WrongList = Causes \cup {"dropped", "list overwritten", "list unsaved"}
BY DEF MemoryLists, Right, WrongList

\* A sync that saves something writes into no list that is only on storage.
LEMMA SavingSparesLists ==
    ASSUME Typed, MemoryOwned, NEW b \in DataBlock, NEW v, BlockPut(b, v), NEW r \in Slot,
           NEW s \in Slot, b \in Held(s), r # s, table[r].mode = "file", table[r].extblk # 0
    PROVE  now'[BlockAt(table[r].extblk)] = now[BlockAt(table[r].extblk)]
<1>1. table[r].extblk \in DataBlock
  BY DEF Typed, MemoryTyped, TableTyped, EntryType
<1>2. table[r].extblk \in Held(r)
  BY DEF Held, HeldOf
<1>3. table[r].extblk # b
  BY <1>2 DEF MemoryOwned
<1> QED
  BY <1>1, <1>3 DEF BlockPut

LEMMA MemoryListsStep ==
    ASSUME Typed, MemoryOwns, MemoryLists, StorageLists, [Next]_vars
    PROVE  MemoryLists'
<1> SUFFICES ASSUME up', taint' \cap WrongList = {}
             PROVE  \A s \in Slot : Right(s)'
  BY DEF MemoryLists, Right, WrongList, Causes
<1>1. CASE ACall /\ AnyCall
  <2>1. up /\ taint \cap WrongList = {}
    BY <1>1 DEF AnyCall
  <2> QED
    BY <1>1, <2>1, ListsAreRight, CallLists
<1>2. ASSUME UNCHANGED <<up, taint>>
      PROVE  MemoryOwned /\ \A s \in Slot : Right(s)
  BY <1>2, ListsAreRight DEF MemoryOwns
<1>3. ASSUME UNCHANGED <<up, taint, bigEndian>>, UNCHANGED memory,
             \A r \in Slot : table[r].mode = "file" /\ list[r] = NoList /\ table[r].extblk # 0 =>
               now'[BlockAt(table[r].extblk)] = now[BlockAt(table[r].extblk)]
      PROVE  \A s \in Slot : Right(s)'
  <2>1. UNCHANGED <<table, list>> /\ bigEndian' = bigEndian
    BY <1>3 DEF memory
  <2> QED
    BY <1>2, <1>3, <2>1, RightStays
<1>4. \A r \in Slot : table[r].extblk \in {0} \cup DataBlock
  BY DEF Typed, MemoryTyped, TableTyped, EntryType
<1>5. CASE \E found \in {Empty, Junk} : Started(found)
  BY <1>3, <1>5 DEF Started, storage
<1>6. CASE \E s \in Slot : FilledFile(s)
  <2>1. PICK s \in Slot : FilledFile(s)
    BY <1>6
  <2>2. /\ UNCHANGED <<up, taint, bigEndian>> /\ UNCHANGED memory
        /\ table[s].mode = "file"
    BY <2>1 DEF FilledFile, Passed
  <2>3. ASSUME NEW r \in Slot, table[r].mode = "file", list[r] = NoList, table[r].extblk # 0
        PROVE  now'[BlockAt(table[r].extblk)] = now[BlockAt(table[r].extblk)]
    <3>1. CASE now' = now
      BY <3>1
    <3>2. CASE /\ SavesList(table[s], s) /\ table[s].extblk \in DataBlock
               /\ BlockPut(table[s].extblk, ListBlock(list[s]))
      <4>1. r # s /\ table[s].extblk # 0
        BY <2>3, <3>2 DEF SavesList
      <4>2. table[s].extblk \in Held(s)
        BY <2>2, <4>1 DEF Held, HeldOf
      <4> QED
        BY <1>2, <2>2, <2>3, <3>2, <4>1, <4>2, SavingSparesLists
    <3> QED
      BY <2>1, <3>1, <3>2 DEF FilledFile
  <2> QED
    BY <1>3, <2>2, <2>3
<1>7. CASE FilledDir
  <2>1. /\ UNCHANGED <<up, taint, bigEndian>> /\ UNCHANGED memory
        /\ table[0].mode = "dir" /\ 0 \in Slot
    BY <1>7, Constants DEF FilledDir, Passed
  <2>2. ASSUME NEW r \in Slot, table[r].mode = "file", table[r].extblk # 0
        PROVE  now'[BlockAt(table[r].extblk)] = now[BlockAt(table[r].extblk)]
    <3>1. CASE now' = now
      BY <3>1
    <3>2. CASE /\ SavesNames(table[0]) /\ table[0].dirBlock \in DataBlock
               /\ BlockPut(table[0].dirBlock, NameBlock(names))
      <4>1. r # 0 /\ table[0].dirBlock # 0
        BY <2>1, <2>2, <3>2 DEF SavesNames
      <4>2. table[0].dirBlock \in Held(0)
        BY <2>1, <4>1 DEF Held, HeldOf
      <4> QED
        BY <1>2, <2>1, <2>2, <3>2, <4>1, <4>2, SavingSparesLists
    <3> QED
      BY <1>7, <3>1, <3>2 DEF FilledDir
  <2> QED
    BY <1>3, <2>1, <2>2
<1>8. CASE SlotPassed
  BY <1>3, <1>8 DEF SlotPassed, Passed
<1>9. CASE BufferOut
  BY <1>3, <1>4, <1>9 DEF BufferOut, EntriesPut, history
<1>10. CASE BitmapOut
  BY <1>3, <1>4, <1>10 DEF BitmapOut, BitmapPut, history
<1>11. CASE Flushed
  BY <1>3, <1>11 DEF Flushed
<1>12. CASE GivenUp
  BY <1>3, <1>12 DEF GivenUp, storage, history
<1>13. CASE Emptied
  BY <1>13 DEF Emptied
<1>14. CASE \E residue : Mounted(residue)
  <2>1. PICK residue : Mounted(residue)
    BY <1>14
  <2>2. /\ ~up /\ UNCHANGED <<list, now, bigEndian>> /\ taint' = blame
        /\ \A s \in Slot : table'[s].mode # "free" => table'[s] = now[EntryAt(s)]
    BY <2>1 DEF Mounted, storage
  <2>3. \A s \in Slot : list'[s] = NoList
    BY <2>2 DEF Typed, Gone
  <2>4. \A s \in Slot : Listed(now[EntryAt(s)], now)
    BY <2>2 DEF StorageLists
  <2>5. ASSUME NEW s \in Slot, table'[s].mode = "file"
        PROVE  Listed(table[s], now)'
    <3>1. table'[s] = now[EntryAt(s)] /\ Listed(now[EntryAt(s)], now)
      BY <2>2, <2>4, <2>5
    <3> QED
      BY <2>2, <3>1 DEF Listed, Fine, Over
  <2> QED
    BY <2>3, <2>5 DEF Right
<1>15. CASE Stays
  BY <1>3, <1>15 DEF Stays, storage, history
<1> QED
  BY <1>1, <1>5, <1>6, <1>7, <1>8, <1>9, <1>10, <1>11, <1>12, <1>13, <1>14, <1>15, WhatAStepIs
\* What storage has of the lists.
Kept(f) == \A s \in Slot : Listed(f[EntryAt(s)], f)

\* Storage files with the same entries, the blocks of whose lists are from one
\* of two that have the lists.
LEMMA KeptStays ==
    ASSUME NEW f, NEW g, NEW h, Kept(f), Kept(g),
           \A s \in Slot : h[EntryAt(s)] = f[EntryAt(s)] /\ h[EntryAt(s)] = g[EntryAt(s)],
           \A s \in Slot : f[EntryAt(s)].extblk # 0 =>
             h[BlockAt(f[EntryAt(s)].extblk)] \in
               {f[BlockAt(f[EntryAt(s)].extblk)], g[BlockAt(f[EntryAt(s)].extblk)]}
    PROVE  Kept(h)
<1> SUFFICES ASSUME NEW s \in Slot
             PROVE  Listed(h[EntryAt(s)], h)
  BY DEF Kept
<1> DEFINE e == h[EntryAt(s)]
<1>1. e = f[EntryAt(s)] /\ e = g[EntryAt(s)]
  OBVIOUS
<1>2. Listed(e, f) /\ Listed(e, g)
  BY <1>1 DEF Kept
<1>3. e.extblk # 0 =>
        h[BlockAt(e.extblk)] = f[BlockAt(e.extblk)] \/ h[BlockAt(e.extblk)] = g[BlockAt(e.extblk)]
  BY <1>1
<1> HIDE DEF e
<1>4. Listed(e, h)
  BY <1>2, <1>3 DEF Listed
<1> QED
  BY <1>4 DEF e

LEMMA KeptNow ==
    ASSUME bigEndian' = bigEndian
    PROVE  /\ Kept(now') => Kept(now)'
           /\ Kept(durable') => Kept(durable)'
BY DEF Kept, Listed, Fine, Over

\* A sync that nothing was wrong with has saved the lists.
LEMMA FlushLists ==
    ASSUME Typed, CopiedEntries, CopiedLists, up, sync.at = "flush", \A s \in Slot : Right(s),
           (sync.flaws \cup taint) \cap WrongList = {}
    PROVE  Kept(now)
<1>1. sync.from = MaxFileCount /\ sync.next = MaxFileCount
  BY DEF Typed, SyncTyped
<1>2. \A s \in Slot : s < MaxFileCount
  BY SyncDiskAssumption DEF Slot
<1>3. \A s \in Slot : Used(now[EntryAt(s)]) = Used(table[s])
  BY <1>1, <1>2 DEF CopiedEntries, WrongList, Causes
<1>4. ASSUME NEW s \in Slot, now[EntryAt(s)].mode = "file"
      PROVE  Listed(table[s], now) /\ table[s] = now[EntryAt(s)]
  <2>1. table[s] = now[EntryAt(s)]
    BY <1>3, <1>4, EmptyAndJunk DEF Used
  <2>2. CASE list[s] = NoList
    BY <1>4, <2>1, <2>2 DEF Right
  <2>3. CASE list[s] # NoList
    <3>1. Len(list[s]) = Over(table[s]) /\ Fine(list[s])
      BY <1>4, <2>1, <2>3 DEF Right
    <3>2. (sync.flaws \cup taint) \cap (Causes \cup {"list unsaved"}) = {}
      BY DEF WrongList
    <3>3. table[s].count > DirectExtents =>
            table[s].extblk # 0 /\ now[BlockAt(table[s].extblk)].items = list[s]
      BY <1>1, <1>2, <1>4, <2>1, <2>3, <3>2 DEF CopiedLists
    <3> QED
      BY <2>1, <3>1, <3>3 DEF Listed
  <2> QED
    BY <2>1, <2>2, <2>3
<1>5. ASSUME NEW s \in Slot
      PROVE  Listed(now[EntryAt(s)], now)
  <2>1. CASE now[EntryAt(s)].mode = "file"
    BY <1>4, <2>1
  <2>2. CASE now[EntryAt(s)].mode # "file"
    BY <2>2 DEF Listed
  <2> QED
    BY <2>1, <2>2
<1> QED
  BY <1>5 DEF Kept

LEMMA StorageListsStep ==
    ASSUME Typed, CopiedEntries, BlamedInv, MemoryLists, CopiedLists, StorageLists, [Next]_vars
    PROVE  StorageLists'
<1>1. StorageLists <=> (blame \cap WrongList = {} => Kept(durable) /\ Kept(now))
  BY DEF StorageLists, Kept
<1>2. ASSUME bigEndian' = bigEndian,
             blame' \cap WrongList = {} => Kept(durable') /\ Kept(now')
      PROVE  StorageLists'
  <2>1. blame' \cap WrongList = {} => Kept(durable)' /\ Kept(now)'
    BY <1>2, KeptNow
  <2> QED
    BY <2>1 DEF StorageLists, Kept, WrongList, Causes
<1>3. CASE AnyCall
  <2>1. durable' = durable /\ blame \subseteq blame' /\ bigEndian' = bigEndian
    BY <1>3 DEF AnyCall
  <2> SUFFICES ASSUME blame' \cap WrongList = {}
               PROVE  Kept(durable') /\ Kept(now')
    BY <1>2, <2>1
  <2>2. Kept(durable) /\ Kept(now)
    BY <1>1, <2>1
  <2>3. CASE now' = now
    BY <2>1, <2>2, <2>3
  <2>4. CASE \E b \in DataBlock : BlockPut(b, Data) /\ Overwrites(b, Stored) \subseteq blame'
    <3>1. PICK b \in DataBlock : BlockPut(b, Data) /\ Overwrites(b, Stored) \subseteq blame'
      BY <2>4
    <3>2. "list overwritten" \notin blame'
      BY DEF WrongList
    <3>3. \A s \in Slot : Stored[s].extblk # b
      BY <3>1, <3>2 DEF Overwrites
    <3>4. \A s \in Slot : now[EntryAt(s)] \in EntryType /\ now[EntryAt(s)].extblk # b
      BY <3>3 DEF Stored, Typed, StorageTyped, TableTyped, TableOf
    <3>5. \A s \in Slot : now'[EntryAt(s)] = now[EntryAt(s)]
      BY <3>1 DEF BlockPut
    <3>6. \A s \in Slot : now[EntryAt(s)].extblk # 0 =>
            now'[BlockAt(now[EntryAt(s)].extblk)] = now[BlockAt(now[EntryAt(s)].extblk)]
      BY <3>1, <3>4, OtherListsStay
    <3>7. Kept(now')
      BY <2>2, <3>5, <3>6, KeptStays
    <3> QED
      BY <2>1, <2>2, <3>7
  <2> QED
    BY <1>3, <2>3, <2>4 DEF AnyCall
<1>4. ASSUME bigEndian' = bigEndian, blame' \cap Causes # {}
      PROVE  StorageLists'
  BY <1>2, <1>4 DEF WrongList
<1>5. CASE \E found \in {Empty, Junk} : Started(found)
  BY <1>4, <1>5 DEF Started, Causes
<1>6. ASSUME sync.at # "idle", blame \subseteq blame', bigEndian' = bigEndian
      PROVE  StorageLists'
  BY <1>4, <1>6 DEF BlamedInv, Causes
<1>7. CASE \E s \in Slot : FilledFile(s)
  BY <1>6, <1>7 DEF FilledFile, Passed
<1>8. CASE FilledDir
  BY <1>6, <1>8 DEF FilledDir, Passed
<1>9. CASE SlotPassed
  BY <1>6, <1>9 DEF SlotPassed, Passed
<1>10. CASE BufferOut
  BY <1>6, <1>10 DEF BufferOut, history
<1>11. CASE BitmapOut
  BY <1>6, <1>11 DEF BitmapOut, history
<1>12. CASE Flushed
  <2>1. /\ bigEndian' = bigEndian /\ now' = now /\ durable' = now /\ up /\ sync.at = "flush"
        /\ blame' = taint \cup sync.flaws
    BY <1>12 DEF Flushed
  <2>2. ASSUME blame' \cap WrongList = {}
        PROVE  Kept(now)
    <3>1. (sync.flaws \cup taint) \cap WrongList = {} /\ taint \cap WrongList = {}
      BY <2>1, <2>2
    <3>2. \A s \in Slot : Right(s)
      BY <2>1, <3>1, ListsAreRight
    <3> QED
      BY <2>1, <3>1, <3>2, FlushLists
  <2> QED
    BY <1>2, <2>1, <2>2
<1>13. CASE GivenUp
  <2>1. bigEndian' = bigEndian /\ durable' = durable /\ now' = now /\ blame' = blame
    BY <1>13 DEF GivenUp, storage, history
  <2> QED
    BY <1>1, <1>2, <2>1
<1>14. CASE Emptied /\ (Mixed \/ UNCHANGED storage)
  <2>1. blame' = blame /\ bigEndian' = bigEndian
    BY <1>14 DEF Emptied
  <2> SUFFICES ASSUME blame \cap WrongList = {}
               PROVE  Kept(durable') /\ Kept(now')
    BY <1>2, <2>1
  <2>2. Kept(durable) /\ Kept(now)
    BY <1>1
  <2>3. CASE UNCHANGED storage
    BY <2>2, <2>3 DEF storage
  <2>4. CASE Mixed
    <3>1. Agree(durable, now)
      BY DEF BlamedInv, WrongList
    <3>2. /\ \A s \in Slot : now'[EntryAt(s)] \in {now[EntryAt(s)], durable[EntryAt(s)]}
          /\ \A b \in DataBlock : now'[BlockAt(b)] \in {now[BlockAt(b)], durable[BlockAt(b)]}
          /\ durable' = now'
      BY <2>4, Places DEF Mixed
    <3>3. \A s \in Slot : /\ now'[EntryAt(s)] = now[EntryAt(s)]
                          /\ now'[EntryAt(s)] = durable[EntryAt(s)]
                          /\ now[EntryAt(s)].extblk \in {0} \cup DataBlock
      <4>1. \A s \in Slot : now[EntryAt(s)].extblk \in {0} \cup DataBlock
        BY DEF Typed, StorageTyped, TableTyped, TableOf, EntryType
      <4> QED
        BY <3>1, <3>2, <4>1 DEF Agree
    <3>4. Kept(now')
      BY <2>2, <3>2, <3>3, KeptStays
    <3> QED
      BY <3>2, <3>4
  <2> QED
    BY <1>14, <2>3, <2>4
<1>15. CASE \E residue : Mounted(residue)
  <2>1. bigEndian' = bigEndian /\ durable' = durable /\ now' = now /\ blame' = blame
    BY <1>15 DEF Mounted, storage
  <2> QED
    BY <1>1, <1>2, <2>1
<1>16. CASE Stays
  <2>1. bigEndian' = bigEndian /\ durable' = durable /\ now' = now /\ blame' = blame
    BY <1>16 DEF Stays, storage, history
  <2> QED
    BY <1>1, <1>2, <2>1
<1> QED
  BY <1>3, <1>5, <1>7, <1>8, <1>9, <1>10, <1>11, <1>12, <1>13, <1>14, <1>15, <1>16, WhatAStepIs

LEMMA CopiedListsStep ==
    ASSUME Typed, MemoryOwns, CopiedLists, [Next]_vars
    PROVE  CopiedLists'
<1>0. \A r \in Slot : table[r].extblk \in {0} \cup DataBlock
  BY DEF Typed, MemoryTyped, TableTyped, EntryType
<1>1. CASE AnyCall
  BY <1>1 DEF AnyCall, CopiedLists, Causes
<1>2. CASE \E found \in {Empty, Junk} : Started(found)
  <2>1. sync'.next = 0
    BY <1>2 DEF Started
  <2>2. \A s \in Slot : ~(s < 0)
    BY SyncDiskAssumption DEF Slot
  <2> QED
    BY <2>1, <2>2 DEF CopiedLists
<1>3. ASSUME sync.at # "idle", UNCHANGED <<table, list, taint>>, sync.flaws \subseteq sync'.flaws,
             \A s \in Slot : s < sync'.next => s < sync.next \/ table[s].mode # "file",
             \A b \in DataBlock : now'[BlockAt(b)] = now[BlockAt(b)]
      PROVE  CopiedLists'
  <2> SUFFICES ASSUME (sync'.flaws \cup taint') \cap (Causes \cup {"list unsaved"}) = {},
                      NEW s \in Slot, s < sync'.next, table'[s].mode = "file",
                      table'[s].count > DirectExtents
               PROVE  /\ table'[s].extblk # 0
                      /\ list'[s] # NoList => now'[BlockAt(table'[s].extblk)].items = list'[s]
    BY DEF CopiedLists, Causes
  <2>1. (sync.flaws \cup taint) \cap (Causes \cup {"list unsaved"}) = {}
    BY <1>3
  <2>2. s < sync.next /\ table[s].mode = "file" /\ table[s].count > DirectExtents
    BY <1>3
  <2>3. /\ table[s].extblk # 0
        /\ list[s] # NoList => now[BlockAt(table[s].extblk)].items = list[s]
    BY <1>3, <2>1, <2>2 DEF CopiedLists
  <2> QED
    BY <1>0, <1>3, <2>3
<1>14. \A r, s \in Slot : r < s + 1 /\ r # s => r < s
  BY SyncDiskAssumption DEF Slot
<1>4. CASE \E s \in Slot : FilledFile(s)
  <2>1. PICK s \in Slot : FilledFile(s)
    BY <1>4
  <2>2. /\ up /\ UNCHANGED memory /\ taint' = taint /\ sync.flaws \subseteq sync'.flaws
        /\ table[s].mode = "file" /\ s = sync.next /\ sync'.next = s + 1
        /\ sync.at = "table"
    BY <2>1 DEF FilledFile, Passed
  <2> SUFFICES ASSUME (sync'.flaws \cup taint) \cap (Causes \cup {"list unsaved"}) = {},
                      NEW r \in Slot, r < s + 1, table[r].mode = "file",
                      table[r].count > DirectExtents
               PROVE  /\ table[r].extblk # 0
                      /\ list[r] # NoList => now'[BlockAt(table[r].extblk)].items = list[r]
    BY <2>2 DEF CopiedLists, Causes, memory
  <2>3. CASE r = s
    <3>1. table[s].extblk # 0
      BY <2>1, <2>3 DEF FilledFile, ListFlaws
    <3>2. ASSUME list[s] # NoList
          PROVE  now'[BlockAt(table[s].extblk)].items = list[s]
      <4>1. SavesList(table[s], s) /\ list[s] \in Seq(ItemType)
        BY <2>3, <3>1, <3>2 DEF SavesList, Typed, MemoryTyped
      <4>2. BlockPut(table[s].extblk, ListBlock(list[s])) /\ table[s].extblk \in DataBlock
        BY <2>1, <4>1 DEF FilledFile, Causes
      <4> QED
        BY <4>1, <4>2, BlocksTyped DEF BlockPut
    <3> QED
      BY <2>3, <3>1, <3>2
  <2>4. CASE r # s
    <3>1. r < sync.next
      <4>1. s \in Slot
        BY <2>1
      <4>2. r < s
        BY <2>4, <4>1, <1>14
      <4> QED
        BY <2>2, <4>2
    <3>2. (sync.flaws \cup taint) \cap (Causes \cup {"list unsaved"}) = {}
      BY <2>2
    <3>3. /\ table[r].extblk # 0
          /\ list[r] # NoList => now[BlockAt(table[r].extblk)].items = list[r]
      BY <2>2, <3>1, <3>2 DEF CopiedLists
    <3>4. now'[BlockAt(table[r].extblk)] = now[BlockAt(table[r].extblk)]
      <4>1. CASE now' = now
        BY <4>1
      <4>2. CASE /\ SavesList(table[s], s) /\ table[s].extblk \in DataBlock
                 /\ BlockPut(table[s].extblk, ListBlock(list[s]))
        <5>1. MemoryOwned
          BY <2>2, <3>2 DEF MemoryOwns
        <5>2. table[s].extblk \in Held(s)
          BY <2>2, <4>2 DEF SavesList, Held, HeldOf
        <5> QED
          BY <2>4, <3>3, <4>2, <5>1, <5>2, SavingSparesLists
      <4> QED
        BY <2>1, <4>1, <4>2 DEF FilledFile
    <3> QED
      BY <3>3, <3>4
  <2> QED
    BY <2>3, <2>4
<1>5. CASE FilledDir
  <2>1. sync'.next = 1 /\ table'[0].mode = "dir"
    <3>1. sync'.next = 0 + 1
      BY <1>5 DEF FilledDir, Passed
    <3>2. table' = table /\ table[0].mode = "dir"
      BY <1>5 DEF FilledDir, Passed, memory
    <3> QED
      BY <3>1, <3>2
  <2>2. \A s \in Slot : s < 1 => s = 0
    BY SyncDiskAssumption DEF Slot
  <2> QED
    BY <2>1, <2>2 DEF CopiedLists
<1>6. CASE SlotPassed
  <2>1. /\ sync.next \in Slot /\ table[sync.next].mode # "file" /\ sync'.next = sync.next + 1
        /\ sync.at = "table" /\ UNCHANGED <<table, list, taint, now>>
        /\ sync.flaws \subseteq sync'.flaws
    BY <1>6 DEF SlotPassed, Passed, memory
  <2>2. \A s \in Slot : s < sync.next + 1 => s < sync.next \/ s = sync.next
    BY <2>1, SyncDiskAssumption DEF Slot
  <2> QED
    BY <1>3, <2>1, <2>2
<1>7. CASE BufferOut
  BY <1>3, <1>7 DEF BufferOut, EntriesPut, memory, history
<1>8. CASE BitmapOut
  BY <1>3, <1>8 DEF BitmapOut, BitmapPut, memory, history
<1>9. CASE Flushed
  BY <1>9 DEF Flushed, CopiedLists
<1>10. CASE GivenUp
  BY <1>10 DEF GivenUp, CopiedLists
<1>11. CASE Emptied
  BY <1>11 DEF Emptied, CopiedLists
<1>12. CASE \E residue : Mounted(residue)
  BY <1>12 DEF Mounted, Typed, Gone, CopiedLists
<1>13. CASE Stays
  BY <1>13 DEF Stays, CopiedLists, memory, storage, history
<1> QED
  BY <1>1, <1>2, <1>4, <1>5, <1>6, <1>7, <1>8, <1>9, <1>10, <1>11, <1>12, <1>13, WhatAStepIs

LEMMA ListsInit ==
    ASSUME Init
    PROVE  MemoryLists /\ StorageLists /\ CopiedLists
<1>1. Begun /\ sync.at = "idle"
  BY Beginning, IdleTyped DEF Begun
<1>2. /\ \A s \in Slot : now[EntryAt(s)] = table[s] /\ table[s].mode # "file"
      /\ durable = now
  BY <1>1, BlocksTyped DEF Begun, NewTable, Root, Empty
<1> QED
  BY <1>1, <1>2 DEF MemoryLists, StorageLists, CopiedLists, Listed

\* The extent list of a file is its own (portfs_alloc_indirect_extents,
\* portfs_file_write, portfs_write_file_data, portfs_release_file): whatever was
\* written, released, synced, cut off by a crash and mounted again, no item
\* holds what kmalloc found or has its bytes swapped on a big-endian machine,
\* unless one of the named causes is in the history of what was mounted.
THEOREM ListsStayTheirOwn == Spec => []ListsAreTheirOwn
<1> DEFINE IInv == /\ Typed /\ CopiedEntries /\ CopiedNames /\ MemoryOwns /\ BlamedInv
                   /\ MemoryLists /\ StorageLists /\ CopiedLists
<1>1. Init => IInv
  BY TypedInit, SavedInit, OwnsInit, ListsInit
<1>2. ASSUME IInv, [Next]_vars
      PROVE  IInv'
  <2>1. /\ Typed' /\ CopiedEntries' /\ CopiedNames' /\ MemoryOwns' /\ BlamedInv'
    BY <1>2, TypedStep, CopiedEntriesStep, CopiedNamesStep, MemoryOwnsStep, BlamedStep
  <2>2. MemoryLists' /\ StorageLists' /\ CopiedLists'
    BY <1>2, MemoryListsStep, StorageListsStep, CopiedListsStep
  <2> QED
    BY <2>1, <2>2
<1>3. IInv => ListsAreTheirOwn
  BY DEF MemoryLists, ListsAreTheirOwn, WrongList, Fine
<1> QED
  BY <1>1, <1>2, <1>3, PTL DEF Spec
=============================================================================

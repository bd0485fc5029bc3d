------------------------------ MODULE SyncDisk ------------------------------
(***************************************************************************)
(* What a mount finds on the storage file after portfs_sync_fs, after a    *)
(* crash in the middle of it, and after an unmount (kernel/super.c).       *)
(*                                                                         *)
(* The calls of FileStore and Directory are single steps here and change   *)
(* only what is saved.  A sync is not: it copies one slot of the file      *)
(* table after the other into a buffer, writes the extent list or the name *)
(* list of the slot on the way, then the buffer, then the bitmap, and      *)
(* flushes.  Nothing keeps calls out while it runs.  The host holds what   *)
(* was written in its page cache (now); a crash keeps what has reached the *)
(* device (durable) and any part of the rest.                              *)
(*                                                                         *)
(* The one directory is the root, in slot 0; a name in its list stands for *)
(* the slot its number leads to.  The superblock never changes.  On a      *)
(* little-endian machine numbers do not survive a mount (Directory), so a  *)
(* history of such a machine ends before its memory is lost.               *)
(***************************************************************************)
EXTENDS Extents, Sequences

CONSTANTS
    MaxFileCount,    \* psb->max_file_count
    BufEntries,      \* entries in the buffer of a sync, 20164
    DirectExtents,   \* DIRECT_EXTENTS, 4
    IndirectSlots,   \* extents in a block, 512
    ExtentBytes,     \* sizeof(struct disk_extent), 8
    EntryBytes,      \* sizeof(struct disk_filetable_entry), 52
    Residues,        \* bound: the blocks named by what vmalloc finds in memory
    MaxCalls,        \* bound: calls in a history
    MaxSyncs,        \* bound: syncs in a history
    MaxLosses,       \* bound: crashes and unmounts in a history
    MaxEvents        \* bound: syncs and losses up to the last sync

ASSUME SyncDiskAssumption ==
    /\ MaxFileCount \in Nat \ {0}
    /\ BufEntries \in Nat \ {0}
    /\ DirectExtents \in Nat \ {0}
    /\ IndirectSlots \in Nat
    /\ ExtentBytes \in Nat \ {0}
    /\ EntryBytes \in Nat \ {0}
    /\ Residues \subseteq DataBlock
    /\ MaxCalls \in Nat /\ MaxSyncs \in Nat /\ MaxLosses \in Nat /\ MaxEvents \in Nat

VARIABLES
    table,       \* psb->filetable
    list,        \* indirect_extents of each slot
    names,       \* dir_entries of the root
    bitmap,      \* psb->block_bitmap
    now,         \* the storage file as a read returns it
    durable,     \* the storage file as a crash leaves it, at the least
    sync,        \* the sync that runs
    up,          \* the file system is mounted
    last,        \* how the last sync ended, "none" when calls came after it
    saved,       \* history: the memory that was last saved whole
    blame,       \* history: what may be wrong on storage
    taint,       \* history: what may be wrong in memory
    fault,       \* a sync wrote behind its buffer, or freed memory was read
    bigEndian,   \* the byte order of the machine
    spent        \* calls, syncs and losses so far

memory == <<table, list, names, bitmap>>
storage == <<now, durable>>
history == <<saved, blame, taint>>
vars == <<memory, storage, sync, up, last, history, fault, bigEndian, spent>>

-----------------------------------------------------------------------------
Slot == 0 .. (MaxFileCount - 1)
MaxExtents == DirectExtents + IndirectSlots

\* Part of an entry in the table; direct holds the extents in use.
Empty == [mode |-> "free", count |-> 0, direct |-> <<>>, extblk |-> 0, dirBlock |-> 0]
Root == [Empty EXCEPT !.mode = "dir"]
\* Neither free nor a file or a directory.
Junk == [Empty EXCEPT !.mode = "junk"]

\* Items of an extent list.  A list that was read from storage was not
\* converted: on a little-endian machine its items have their bytes swapped.
Item(x, form) == [ext |-> x, form |-> form]
NoExtent == [start |-> 0, length |-> 0]
Garbage == Item(NoExtent, "garbage")
Swapped(it) ==
    CASE it.form = "right" -> [it EXCEPT !.form = "swapped"]
      [] it.form = "swapped" -> [it EXCEPT !.form = "right"]
      [] OTHER -> it
NoList == <<Item(NoExtent, "null")>>
NoNames == {-1}

\* What a block of the storage file holds.
Data == [names |-> {}, items |-> <<>>]
NameBlock(ns) == [Data EXCEPT !.names = ns]
ListBlock(its) == [Data EXCEPT !.items = its]

\* The places of the storage file that reach the device at different times.
\* The bits of all data blocks are in one page.
EntryAt(s) == <<"entry", s>>
BlockAt(b) == <<"block", b>>
BitmapAt == <<"bitmap", 0>>
Loc == {EntryAt(s) : s \in Slot} \cup {BlockAt(b) : b \in DataBlock} \cup {BitmapAt}

SyncIdle == [at |-> "idle", next |-> 0, from |-> 0,
             buf |-> [s \in Slot |-> Empty], flaws |-> {}]

\* The list of the root as it is after a look-up that loads it.
RootNames ==
    IF names # NoNames THEN names
    ELSE IF table[0].dirBlock = 0 THEN {} ELSE now[BlockAt(table[0].dirBlock)].names

\* What a sync has to save.
InUse(tab) == [s \in Slot |-> IF tab[s].mode \in {"file", "dir"} THEN tab[s] ELSE Empty]
Image == [table |-> InUse(table), bitmap |-> bitmap, names |-> RootNames]
NoImage == [table |-> <<>>, bitmap |-> {}, names |-> NoNames]

\* The storage file of a table, a bitmap and the contents of blocks.
StoredAs(tab, marked, block(_)) ==
    [l \in Loc |-> CASE l[1] = "entry" -> tab[l[2]]
                     [] l[1] = "bitmap" -> marked
                     [] l[1] = "block" -> block(l[2])]

\* On a storage file that was saved whole; ns are the names in memory, used
\* what a history that starts here may not spend any more.
SavedWhole(tab, marked, block(_), ns, used) ==
    /\ table = tab
    /\ bitmap = marked
    /\ now = StoredAs(tab, marked, block)
    /\ durable = now
    /\ list = [s \in Slot |-> NoList]
    /\ names = ns
    /\ sync = SyncIdle
    /\ up = TRUE
    /\ last = "none"
    /\ saved = Image
    /\ blame = {} /\ taint = {}
    /\ fault = FALSE
    /\ spent = used

\* A storage file that has nothing but a root.
NewTable == [s \in Slot |-> IF s = 0 THEN Root ELSE Empty]
NothingSpent == [calls |-> 0, syncs |-> 0, losses |-> 0]
Init ==
    /\ SavedWhole(NewTable, {}, LAMBDA b : Data, NoNames, NothingSpent)
    /\ bigEndian \in BOOLEAN

\* kernel_write into the page cache: f gives the new contents of some places.
Put(f) == now' = [l \in Loc |-> IF l \in DOMAIN f THEN f[l] ELSE now[l]]

-----------------------------------------------------------------------------
\* The calls.

\* A call during a sync is one the sync may see half of.  `hurt` is what it
\* spoils in memory, `damage` what it spoils on storage.
Call(hurt, damage) ==
    /\ up /\ ~fault
    /\ spent.calls < MaxCalls
    /\ spent' = [spent EXCEPT !.calls = @ + 1]
    /\ last' = "none"
    /\ taint' = taint \cup hurt
    /\ LET late == IF sync.at = "idle" THEN {} ELSE {"disturbed"}
       IN /\ sync' = [sync EXCEPT !.flaws = @ \cup late]
          /\ blame' = blame \cup damage \cup late
    /\ UNCHANGED <<durable, up, saved, fault, bigEndian>>

\* portfs_load_dir_data: a root without a block gets one.
NewRootBlock ==
    IF names = NoNames /\ table[0].dirBlock = 0 THEN FindFreeBlock(bitmap) ELSE {}

WithRootBlock(tab) ==
    IF NewRootBlock = {} THEN tab
    ELSE [tab EXCEPT ![0].dirBlock = CHOOSE b \in NewRootBlock : TRUE]

LookUp ==
    /\ names = NoNames
    /\ Call({}, {})
    /\ names' = RootNames
    /\ table' = WithRootBlock(table)
    /\ bitmap' = bitmap \cup NewRootBlock
    /\ UNCHANGED <<list, now>>

\* portfs_load_dir_data finds no memory to read the names into: the list stays
\* as kzalloc left it, and the caller does not ask.
LookUpUnread ==
    /\ names = NoNames /\ table[0].dirBlock # 0
    /\ Call({"names unread"}, {})
    /\ names' = {}
    /\ UNCHANGED <<table, list, bitmap, now>>

\* The read of the names fails: the list is freed, and the caller looks through
\* it all the same.
LookUpFreed ==
    /\ names = NoNames /\ table[0].dirBlock # 0
    /\ up /\ ~fault
    /\ spent.calls < MaxCalls
    /\ fault' = TRUE
    /\ UNCHANGED <<memory, storage, sync, up, last, history, bigEndian, spent>>

\* portfs_create, after the look-up of the name, which loads the list if it can.
\* It takes the first free slot and leaves the extents in it alone.
Create ==
    \E s \in Slot :
        /\ table[s].mode = "free"
        /\ \A r \in Slot : r < s => table[r].mode # "free"
        /\ Call(IF table[s].count = 0 THEN {} ELSE {"residue"}, {})
        /\ table' = WithRootBlock([table EXCEPT ![s].mode = "file"])
        /\ names' = RootNames \cup {s}
        /\ bitmap' = bitmap \cup NewRootBlock
        /\ UNCHANGED <<list, now>>

\* Bytes are written to block b, which may hold names or, with the tables as
\* they are in `tab`, a list.
Overwrites(b, tab) ==
    (IF \E s \in Slot : tab[s].extblk = b THEN {"list overwritten"} ELSE {})
      \cup (IF \E s \in Slot : tab[s].dirBlock = b THEN {"names overwritten"} ELSE {})

\* The table that a mount would find.
Stored == [s \in Slot |-> now[EntryAt(s)]]

WriteBlock(b, tab) ==
    /\ Call(Overwrites(b, tab), Overwrites(b, tab) \cup Overwrites(b, Stored))
    /\ Put([l \in {BlockAt(b)} |-> Data])

\* A write that needs one more extent: portfs_allocate_memory, then the bytes.
GrowDirect(s) ==
    /\ table[s].mode = "file" /\ table[s].count < DirectExtents
    /\ \E x \in FirstExtent(FreeExtents(bitmap)) :
        /\ table' = [table EXCEPT ![s].direct = Append(@, x), ![s].count = @ + 1]
        /\ bitmap' = SetAllocated(bitmap, x)
        /\ WriteBlock(x.start, table')
    /\ UNCHANGED <<list, names>>

\* portfs_alloc_indirect_extents: the list of a file once it is in memory, and
\* the block a file without one gets for it.
LoadedList(s) ==
    LET e == table[s]
        its == IF e.extblk = 0 THEN <<>> ELSE now[BlockAt(e.extblk)].items
        raw(k) == IF k > Len(its) THEN Garbage
                  ELSE IF bigEndian THEN its[k] ELSE Swapped(its[k])
    IN IF list[s] # NoList THEN list[s]
       ELSE [k \in 1 .. (e.count - DirectExtents) |-> raw(k)]

NewListBlock(s) ==
    IF list[s] = NoList /\ table[s].extblk = 0 THEN FindFreeBlock(bitmap) ELSE {}

WithListBlock(s) ==
    [table EXCEPT ![s].extblk = IF NewListBlock(s) = {} THEN @
                                ELSE CHOOSE b \in NewListBlock(s) : TRUE]

\* portfs_file_read brings the list of a file with no direct extent left.
ReadFile(s) ==
    /\ table[s].mode = "file" /\ table[s].count >= DirectExtents /\ list[s] = NoList
    /\ Call({}, {})
    /\ list' = [list EXCEPT ![s] = LoadedList(s)]
    /\ table' = WithListBlock(s)
    /\ bitmap' = bitmap \cup NewListBlock(s)
    /\ UNCHANGED <<names, now>>

\* The tree of free extents is built before the list gets its block.
GrowIndirect(s) ==
    /\ table[s].mode = "file"
    /\ table[s].count \in DirectExtents .. (MaxExtents - 1)
    /\ \E x \in FirstExtent(FreeExtents(bitmap)) :
        /\ list' = [list EXCEPT ![s] = Append(LoadedList(s), Item(x, "right"))]
        /\ table' = [WithListBlock(s) EXCEPT ![s].count = @ + 1]
        /\ bitmap' = SetAllocated(bitmap \cup NewListBlock(s), x)
        /\ WriteBlock(x.start, table')
    /\ UNCHANGED names

ListIsRight(s) ==
    table[s].count > DirectExtents =>
        list[s] # NoList /\ \A k \in DOMAIN list[s] : list[s][k].form = "right"

\* The blocks a file reaches through its extents.
FileBlocks(s) ==
    UNION ({BlocksOf(table[s].direct[k]) : k \in DOMAIN table[s].direct}
             \cup {BlocksOf(list[s][k].ext) : k \in DOMAIN list[s]})

\* A write inside a file.
Rewrite(s) ==
    /\ table[s].mode = "file" /\ ListIsRight(s)
    /\ \E b \in FileBlocks(s) : now[BlockAt(b)] # Data /\ WriteBlock(b, table)
    /\ UNCHANGED memory

\* portfs_unlink, while the list is right (FileStore has the rest).  The block
\* of the list is freed only if it is a block of the file, too.
Remove(s) ==
    /\ table[s].mode = "file" /\ s \in RootNames /\ ListIsRight(s)
    /\ Call(IF table[s].extblk \in FileBlocks(s) THEN {"list freed"} ELSE {}, {})
    /\ bitmap' = (bitmap \ FileBlocks(s)) \cup NewRootBlock
    /\ table' = WithRootBlock([table EXCEPT ![s] = Empty])
    /\ list' = [list EXCEPT ![s] = NoList]
    /\ names' = RootNames \ {s}
    /\ UNCHANGED now

\* portfs_release_file frees the list, stored or not.
Release(s) ==
    /\ list[s] # NoList
    /\ Call(IF table[s].extblk # 0 /\ now[BlockAt(table[s].extblk)].items = list[s]
            THEN {} ELSE {"dropped"}, {})
    /\ list' = [list EXCEPT ![s] = NoList]
    /\ UNCHANGED <<table, names, bitmap, now>>

-----------------------------------------------------------------------------
\* portfs_sync_fs.

Syncing(at) == sync.at = at /\ up /\ ~fault

\* Something goes wrong that may reach the storage file.
Blame(what) == blame' = blame \cup what

\* The buffer holds what kmalloc found.
StartSync ==
    /\ Syncing("idle")
    /\ spent.syncs < MaxSyncs /\ spent.syncs + spent.losses < MaxEvents
    /\ spent' = [spent EXCEPT !.syncs = @ + 1]
    /\ \E found \in {Empty, Junk} :
        LET flaws == IF found = Junk THEN {"heap"} ELSE {}
        IN /\ sync' = [SyncIdle EXCEPT !.at = "table", !.buf = [s \in Slot |-> found],
                                       !.flaws = flaws]
           /\ Blame({"torn"} \cup flaws)
    /\ saved' = NoImage
    /\ UNCHANGED <<memory, storage, up, last, taint, fault, bigEndian>>

\* The slots behind slot s that portfs_fill_file_data writes into: it copies as
\* many extents as the file has.
Spilt(s) ==
    LET over == table[s].count - DirectExtents
    IN IF over <= 0 THEN {}
       ELSE (s + 1) .. (s + (over * ExtentBytes + EntryBytes - 1) \div EntryBytes)

\* The slot that is next has room in the buffer.
HasRoom == sync.next < MaxFileCount /\ sync.next < sync.from + BufEntries

FillNext(buf, flaws) ==
    /\ sync' = [sync EXCEPT !.next = @ + 1, !.buf = buf, !.flaws = @ \cup flaws]
    /\ Blame(flaws)
    /\ UNCHANGED <<memory, durable, up, last, saved, taint, bigEndian, spent>>

\* Faulty variant, for ListsAreTheirOwn: off by one, a full list is left out.
SavesShortList(e, s) ==
    e.count \in (DirectExtents + 1) .. (MaxExtents - 1) /\ e.extblk # 0 /\ list[s] # NoList

\* Of a list without items nothing is written.
SavesList(e, s) ==
    e.count > DirectExtents /\ e.extblk # 0 /\ list[s] # NoList

\* A list without a block stays in memory; one may go where the names are.
ListFlaws(e) ==
    (IF e.count > DirectExtents /\ e.extblk = 0 THEN {"list unsaved"} ELSE {})
      \cup (IF e.extblk # 0 /\ e.extblk = table[0].dirBlock THEN {"names overwritten"}
            ELSE {})

FillFile ==
    /\ Syncing("table") /\ HasRoom
    /\ LET s == sync.next
           e == table[s]
       IN /\ e.mode = "file"
          /\ fault' = (\E r \in Spilt(s) : r >= sync.from + BufEntries)
          /\ \E ok \in BOOLEAN :
                /\ IF ok /\ SavesList(e, s)
                   THEN Put([l \in {BlockAt(e.extblk)} |-> ListBlock(list[s])])
                   ELSE UNCHANGED now
                /\ ~ok => SavesList(e, s)
                /\ FillNext([r \in Slot |-> IF r = s THEN e
                                            ELSE IF r \in Spilt(s) THEN Junk
                                            ELSE sync.buf[r]],
                            (IF Spilt(s) = {} THEN {} ELSE {"spilt"})
                              \cup ListFlaws(e)
                              \cup (IF ok THEN {} ELSE {"write failed"}))

\* Faulty variant, for MountedIsConsistent: extents are counted for a directory.
SavesNamesWithExtents(e) == e.count # 0 /\ names # NoNames

\* portfs_fill_dir_data and portfs_write_dir_data.
SavesNames(e) == e.dirBlock # 0 /\ names # NoNames

\* The names of a root that found no free block stay in memory.
NamesFlaws(e) ==
    IF e.dirBlock = 0 /\ names \notin {NoNames, {}} THEN {"names unsaved"} ELSE {}

FillDir ==
    /\ Syncing("table") /\ HasRoom
    /\ LET e == table[sync.next]
       IN /\ e.mode = "dir"
          /\ \E ok \in BOOLEAN :
                /\ IF ok /\ SavesNames(e)
                   THEN Put([l \in {BlockAt(e.dirBlock)} |-> NameBlock(names)])
                   ELSE UNCHANGED now
                /\ ~ok => SavesNames(e)
                /\ FillNext([sync.buf EXCEPT ![sync.next] = e],
                            NamesFlaws(e) \cup (IF ok THEN {} ELSE {"write failed"}))
    /\ UNCHANGED fault

\* Faulty variant, for SlotsAreNotLost: the last slot is made to look used.
PassSlotMarked ==
    /\ Syncing("table") /\ HasRoom
    /\ table[sync.next].mode \in {"free", "junk"}
    /\ FillNext([sync.buf EXCEPT ![sync.next] = Junk], {})
    /\ UNCHANGED <<now, fault>>

\* Other slots are passed over.
PassSlot ==
    /\ Syncing("table") /\ HasRoom
    /\ table[sync.next].mode \in {"free", "junk"}
    /\ FillNext(sync.buf, {})
    /\ UNCHANGED <<now, fault>>

\* Faulty variant, for MountRestores: the last slot of the buffer is left out.
WriteBufferShort ==
    /\ Syncing("table") /\ ~HasRoom
    /\ LET filled == sync.from .. (sync.next - 2)
       IN /\ Put([l \in {EntryAt(s) : s \in filled} |-> sync.buf[l[2]]])
          /\ sync' = [sync EXCEPT !.from = sync.next,
                                  !.buf = [s \in Slot |-> Empty],
                                  !.at = IF sync.next = MaxFileCount THEN "bitmap" ELSE @]
    /\ UNCHANGED <<memory, durable, up, last, history, fault, bigEndian, spent>>

\* The buffer is full, or the table at its end; then the buffer is cleared.
WriteBuffer ==
    /\ Syncing("table") /\ ~HasRoom
    /\ LET filled == sync.from .. (sync.next - 1)
       IN /\ Put([l \in {EntryAt(s) : s \in filled} |-> sync.buf[l[2]]])
          /\ sync' = [sync EXCEPT !.from = sync.next,
                                  !.buf = [s \in Slot |-> Empty],
                                  !.at = IF sync.next = MaxFileCount THEN "bitmap" ELSE @]
    /\ UNCHANGED <<memory, durable, up, last, history, fault, bigEndian, spent>>

WriteBitmap ==
    /\ Syncing("bitmap")
    /\ Put([l \in {BitmapAt} |-> bitmap])
    /\ sync' = [sync EXCEPT !.at = "flush"]
    /\ UNCHANGED <<memory, durable, up, last, history, fault, bigEndian, spent>>

\* vfs_fsync; the storage file is as good as the memory it was written from.
Flush ==
    /\ Syncing("flush")
    /\ durable' = now
    /\ sync' = SyncIdle
    /\ last' = "ok"
    /\ saved' = IF sync.flaws \subseteq {"heap", "spilt", "list unsaved"} THEN Image ELSE NoImage
    /\ blame' = taint \cup sync.flaws
    /\ UNCHANGED <<memory, now, up, taint, fault, bigEndian, spent>>

\* A write of the table or the bitmap fails, or the flush: the sync gives up.
GiveUp ==
    /\ sync.at # "idle" /\ up /\ ~fault
    /\ sync.at = "table" => ~HasRoom
    /\ sync' = SyncIdle
    /\ last' = "failed"
    /\ UNCHANGED <<memory, storage, up, history, fault, bigEndian, spent>>

-----------------------------------------------------------------------------
\* The memory is gone.  A little-endian machine would find no file again.
Lose ==
    /\ up /\ ~fault /\ bigEndian
    /\ spent.losses < MaxLosses
    /\ spent' = [spent EXCEPT !.losses = @ + 1]
    /\ up' = FALSE
    /\ table' = [s \in Slot |-> Empty]
    /\ list' = [s \in Slot |-> NoList]
    /\ names' = NoNames
    /\ bitmap' = {}
    /\ sync' = SyncIdle
    /\ last' = "none"
    /\ taint' = {}
    /\ UNCHANGED <<saved, blame, fault, bigEndian>>

\* Any part of the page cache has reached the device.
Dirty == {l \in Loc : now[l] # durable[l]}

Crash ==
    /\ Lose
    /\ \E kept \in SUBSET Dirty :
          now' = [l \in Loc |-> IF l \in kept THEN now[l] ELSE durable[l]]
    /\ durable' = now'

\* The kernel syncs before it unmounts and does not ask how the sync ended.
Unmount ==
    /\ sync.at = "idle" /\ last # "none"
    /\ Lose
    /\ UNCHANGED storage

\* Faulty variant, for TypeOK: the extents of a file are not read.
ReadWithoutExtents(e, residue) == [e EXCEPT !.direct = <<>>]

\* portfs_init_filetable sets the extents of files only: a free slot keeps what
\* vmalloc found in them.
Read(e, residue) ==
    IF e.mode = "free" /\ residue # 0
    THEN [Empty EXCEPT !.count = 1, !.direct = <<[start |-> residue, length |-> 1]>>]
    ELSE e

\* portfs_init_filetable, portfs_init_block_bitmap.
Mount ==
    /\ ~up
    /\ up' = TRUE
    /\ \E residue \in {0} \cup Residues :
          table' = [s \in Slot |-> Read(now[EntryAt(s)], residue)]
    /\ bitmap' = now[BitmapAt]
    /\ taint' = blame
    /\ UNCHANGED <<list, names, storage, sync, last, saved, blame, fault, bigEndian, spent>>

-----------------------------------------------------------------------------
Next ==
    \/ LookUp \/ LookUpUnread \/ LookUpFreed \/ Create
    \/ \E s \in Slot : GrowDirect(s) \/ ReadFile(s) \/ GrowIndirect(s) \/ Rewrite(s)
                         \/ Remove(s) \/ Release(s)
    \/ StartSync \/ FillFile \/ FillDir \/ PassSlot
    \/ WriteBuffer \/ WriteBitmap \/ Flush \/ GiveUp
    \/ Crash \/ Unmount \/ Mount

Spec == Init /\ [][Next]_vars

-----------------------------------------------------------------------------
EntryType ==
    [mode : {"free", "file", "dir", "junk"}, count : 0 .. MaxExtents,
     direct : UNION {[1 .. n -> [start : DataBlock, length : 1 .. MaxExtentLength]] :
                     n \in 0 .. DirectExtents},
     extblk : {0} \cup DataBlock, dirBlock : {0} \cup DataBlock]

TypeOK ==
    /\ table \in [Slot -> EntryType]
    /\ up => table[0].mode = "dir"
    /\ \A s \in Slot : Len(table[s].direct) = IF table[s].count < DirectExtents
                                              THEN table[s].count ELSE DirectExtents
    /\ names = NoNames \/ names \subseteq Slot
    /\ bitmap \subseteq DataBlock
    /\ sync.at \in {"idle", "table", "bitmap", "flush"}
    /\ sync.next \in 0 .. MaxFileCount
    /\ sync.from \in 0 .. sync.next
    /\ last \in {"none", "ok", "failed"}
    /\ blame \cup taint \subseteq
          {"torn", "disturbed", "write failed", "residue", "heap", "spilt", "dropped",
           "list overwritten", "list unsaved", "list freed", "names overwritten",
           "names unread", "names unsaved"}

Causes == {"torn", "disturbed", "write failed", "residue", "names overwritten",
           "names unsaved", "list freed"}

\* The blocks an entry lays claim to; of a list, those items that are right.
Claims(s) ==
    IF table[s].mode = "dir" THEN {table[s].dirBlock} \ {0}
    ELSE IF table[s].mode = "file"
    THEN (UNION {BlocksOf(table[s].direct[k]) : k \in DOMAIN table[s].direct})
           \cup (UNION {BlocksOf(list[s][k].ext) :
                        k \in {j \in DOMAIN list[s] : list[s][j].form = "right"}})
           \cup ({table[s].extblk} \ {0})
    ELSE {}

\* In memory, whatever was crashed and mounted before: no block has two owners,
\* every owned block is marked, and names and files match - unless storage was
\* read that a sync had left half written or had written while calls ran, a
\* failing write was ignored, a file was made of a slot with old extents, data
\* was written over the names, as such a file may do, the names had no block to
\* be saved in, or a block that still holds a list was freed with a file.  Names
\* that were never read into their list are gone, too, with no harm to blocks.
MountedIsConsistent ==
    up /\ ~fault /\ taint \cap Causes = {} =>
        /\ \A r, s \in Slot : r # s => Claims(r) \cap Claims(s) = {}
        /\ \A s \in Slot : Claims(s) \subseteq bitmap
        /\ "names unread" \notin taint =>
               RootNames = {s \in Slot : table[s].mode = "file"}

\* What was saved whole, with nothing going wrong and no call in between, is
\* what every mount finds until the next sync starts, after a crash as after an
\* unmount, whatever was called since.
MountRestores ==
    [][up' /\ ~up /\ saved # NoImage /\ "names overwritten" \notin blame =>
           Image' = saved]_vars

\* The items of an extent list are the file's own, if perhaps with their bytes
\* swapped, unless the list was dropped before it was saved or had no block to
\* be saved in, data was written over it, or storage was read that was not saved
\* whole.
ListsAreTheirOwn ==
    up /\ taint \cap (Causes \cup {"dropped", "list overwritten", "list unsaved"}) = {} =>
        \A s \in Slot : table[s].mode = "file" /\ list[s] # NoList =>
            \A k \in DOMAIN list[s] :
                /\ list[s][k].form # "garbage"
                /\ list[s][k].form = "swapped" => ~bigEndian

\* A slot is lost, neither free nor a file, only through what kmalloc found in
\* the buffer or through a file with indirect extents in a slot before it.
SlotsAreNotLost ==
    up /\ taint \cap {"heap", "spilt"} = {} =>
        \A s \in Slot : table[s].mode # "junk"
=============================================================================

----------------------------- MODULE Directory ------------------------------
(***************************************************************************)
(* The namespace of a mounted portfs: file table slots, inode numbers, the *)
(* name lists of directories and their blocks (kernel/inode.c,             *)
(* kernel/directory.c), the inode and name caches the kernel keeps above   *)
(* them, and what an unmount followed by a mount leaves (kernel/super.c).  *)
(*                                                                         *)
(* One call runs at a time.  Of a regular file only its slot matters here; *)
(* its blocks are in FileStore.  Reads and writes of the storage file do   *)
(* not fail, and buffers that are written before they are filled hold      *)
(* zeroes.                                                                 *)
(***************************************************************************)
EXTENDS Integers, FiniteSets

CONSTANTS
    Name,            \* file names
    MaxFileCount,    \* psb->max_file_count
    MaxDirEntries,   \* get_max_dir_entries: names that fit a directory block
    NumBlocks,       \* data blocks left for directories
    LittleEndian,    \* byte order of the machine
    MaxIno           \* bound: inode numbers handed out

ASSUME DirectoryAssumption ==
    /\ "" \notin Name
    /\ MaxFileCount \in Nat \ {0}
    /\ MaxDirEntries \in Nat \ {0}
    /\ NumBlocks \in Nat
    /\ LittleEndian \in BOOLEAN
    /\ MaxIno \in Nat \ {0}

VARIABLES
    slot,      \* psb->filetable with the dir_entries of each directory
    taken,     \* psb->block_bitmap, as far as directories use it
    inode,     \* inode cache: i_private of the inode with a number
    dentry,    \* name cache: what the kernel knows of a name in a directory
    counter,   \* the kernel's iunique counter
    past       \* history: which rare situations have occurred

vars == <<slot, taken, inode, dentry, counter, past>>

Slot == 1 .. MaxFileCount
Ino == 1 .. MaxIno
RootIno == 1
Block == 1 .. NumBlocks
Index == 1 .. MaxDirEntries

NotCached == -1
Detached == 0      \* an inode whose i_private is NULL
Unknown == -1      \* a name that has to be looked up
Negative == 0      \* a name known not to exist

\* struct dir_entry; inode_number 0 marks a free one.
NoEntry == [name |-> "", ino |-> 0]
DirEntry == {NoEntry} \cup [name : Name, ino : Ino]
NoNames == [k \in Index |-> NoEntry]

\* struct filetable_entry.  `names` is what dir_entries points to when `loaded`,
\* and what the block of the directory holds on storage otherwise.
FreeSlot == [kind |-> "free", ino |-> 0, block |-> 0,
             names |-> NoNames, loaded |-> FALSE]

SlotEntry == [kind   : {"free", "reg", "dir"},
              ino    : {0} \cup Ino,
              block  : {0} \cup Block,
              names  : [Index -> DirEntry],
              loaded : BOOLEAN]

TypeOK ==
    /\ slot \in [Slot -> SlotEntry]
    /\ taken \subseteq Block
    /\ inode \in [Ino -> {NotCached, Detached} \cup Slot]
    /\ dentry \in [Ino \X Name -> {Unknown, Negative} \cup Ino]
    /\ counter \in Ino
    /\ past \subseteq {"overflowed", "blockless", "unread", "rebooted", "numbersLost"}

-----------------------------------------------------------------------------
\* The file table and the name lists.

Lowest(S) == {x \in S : \A y \in S : x <= y}

\* portfs_find_free_file_entry: the first slot whose mode is 0.
FreeFileEntry(table) == Lowest({s \in Slot : table[s].kind = "free"})

\* The loop of portfs_get_inode_by_number: the first slot with this number.
SlotOfIno(table, i) == Lowest({s \in Slot : table[s].ino = i})

\* portfs_load_dir_data: the block a directory without one is given (none when
\* the storage is full), and the slot it leaves.  The check for a failed
\* allocation compares an unsigned number with 0: the directory is then used
\* without a block.
LoadTakesPastEnd(s) ==
    IF slot[s].loaded \/ slot[s].block # 0 THEN {}
    ELSE Lowest((1 .. (NumBlocks + 1)) \ taken)

LoadTakes(s) ==
    IF slot[s].loaded \/ slot[s].block # 0 THEN {} ELSE Lowest(Block \ taken)

Loaded(s) ==
    LET e == [slot[s] EXCEPT !.loaded = TRUE]
    IN IF slot[s].loaded \/ slot[s].block # 0 THEN e
       ELSE [e EXCEPT !.names = NoNames,
                      !.block = IF LoadTakes(s) = {} THEN 0
                                ELSE CHOOSE b \in LoadTakes(s) : TRUE]

\* portfs_de_find: the number behind the first entry with the name.
Find(names, n) ==
    {names[k].ino : k \in Lowest({j \in Index : names[j].name = n})}

\* portfs_de_add: the first free entry; a full list is left as it is, and the
\* call succeeds.
AddOverwrites(names, n, i) ==
    [k \in Index |-> IF k = 1 THEN [name |-> n, ino |-> i] ELSE names[k]]

Add(names, n, i) ==
    [k \in Index |-> IF k \in Lowest({j \in Index : names[j] = NoEntry})
                     THEN [name |-> n, ino |-> i] ELSE names[k]]

Full(names) == \A k \in Index : names[k] # NoEntry

\* portfs_de_remove: every entry with the name.
RemoveNothing(names, n) == names

Remove(names, n) ==
    [k \in Index |-> IF names[k].name = n THEN NoEntry ELSE names[k]]

IsEmpty(names) == \A k \in Index : names[k] = NoEntry

\* portfs_is_dir_empty: a directory without a block counts as empty.
DirLooksEmptyAlways(s) == TRUE
DirLooksEmpty(s) == slot[s].block = 0 \/ IsEmpty(slot[s].names)

-----------------------------------------------------------------------------
\* The caches above the file system.

\* An inode whose slot holds a directory.
IsDirInode(target) == target \in Slot /\ slot[target].kind = "dir"

\* Directories a path walk can have reached.
Reached(d) ==
    /\ IsDirInode(inode[d])
    /\ d = RootIno \/ \E p \in Ino, n \in Name : dentry[<<p, n>>] = d

\* iget_locked: the cached inode, or a new one for the slot with the number.
IGet(i) == IF inode[i] # NotCached THEN inode[i]
           ELSE CHOOSE s \in SlotOfIno(slot, i) : TRUE

\* iunique(sb, 2): counts on from the last number, past 1 and past the numbers
\* of cached inodes.  Numbers of files whose inode is not cached are not
\* looked at.
NextIno == Lowest({i \in Ino : i > counter /\ i > RootIno /\ inode[i] = NotCached})

\* History of a step that loads directory s.
LoadPast(s) == IF Loaded(s).block = 0 THEN {"blockless"} ELSE {}

-----------------------------------------------------------------------------
\* The file table after portfs_init_filetable.  The number of a file is stored
\* in 32 bits and read with a 64-bit conversion: a little-endian machine reads 0.
\* A directory without a block was not written.
LoadInoLoses(i) == 0
LoadIno(i) == IF LittleEndian THEN 0 ELSE i

LoadTable ==
    [s \in Slot |-> [slot[s] EXCEPT
        !.ino = LoadIno(slot[s].ino),
        !.names = IF slot[s].block = 0 THEN NoNames ELSE slot[s].names,
        !.loaded = FALSE]]

\* portfs_fill_super: the slot with number 1, or else the first free slot,
\* becomes the root directory; without one the mount fails.
RootSlot(table) ==
    LET old == SlotOfIno(table, RootIno)
    IN IF old # {} THEN old ELSE FreeFileEntry(table)

WithRoot(table) ==
    [s \in Slot |-> IF s \in RootSlot(table) /\ table[s].ino # RootIno
                    THEN [table[s] EXCEPT !.kind = "dir", !.ino = RootIno]
                    ELSE table[s]]

MountedInodes(table) ==
    [i \in Ino |-> IF i = RootIno /\ RootSlot(table) # {}
                   THEN CHOOSE s \in RootSlot(table) : TRUE
                   ELSE NotCached]

NothingKnown == [x \in Ino \X Name |-> Unknown]

\* The first mount of a formatted storage file.
Init ==
    LET formatted == [s \in Slot |-> FreeSlot]
    IN /\ slot = WithRoot(formatted)
       /\ taken = {}
       /\ inode = MountedInodes(formatted)
       /\ dentry = NothingKnown
       /\ counter = RootIno
       /\ past = {}
-----------------------------------------------------------------------------
\* portfs_create and portfs_mkdir of a name known not to exist.
Create(d, n, kind) ==
    /\ Reached(d)
    /\ dentry[<<d, n>>] = Negative
    /\ \E i \in NextIno :
        /\ counter' = i
        /\ IF FreeFileEntry(slot) = {}
           THEN UNCHANGED <<slot, taken, inode, dentry, past>>     \* -ENOSPC
           ELSE \E s \in FreeFileEntry(slot) :
              LET parent == Loaded(inode[d])
              IN /\ slot' = [slot EXCEPT
                       ![s].kind = kind, ![s].ino = i,
                       ![inode[d]] = [parent EXCEPT
                                         !.names = Add(parent.names, n, i)]]
                 /\ taken' = taken \cup LoadTakes(inode[d])
                 /\ inode' = [inode EXCEPT ![i] = s]
                 /\ dentry' = [dentry EXCEPT ![<<d, n>>] = i]
                 /\ past' = past \cup LoadPast(inode[d])
                       \cup (IF Full(parent.names) THEN {"overflowed"} ELSE {})

\* portfs_lookup.  d_splice_alias moves a directory that is known elsewhere.
Lookup(d, n) ==
    /\ Reached(d)
    /\ dentry[<<d, n>>] = Unknown
    /\ slot' = [slot EXCEPT ![inode[d]] = Loaded(inode[d])]
    /\ taken' = taken \cup LoadTakes(inode[d])
    /\ past' = past \cup LoadPast(inode[d])
    /\ LET found == {i \in Find(Loaded(inode[d]).names, n) : SlotOfIno(slot, i) # {}}
       IN \/ /\ found = {}
             /\ dentry' = [dentry EXCEPT ![<<d, n>>] = Negative]
             /\ UNCHANGED inode
          \/ \E i \in found :
                /\ inode' = [inode EXCEPT ![i] = IGet(i)]
                /\ dentry' = [x \in Ino \X Name |->
                       IF x = <<d, n>> THEN i
                       ELSE IF dentry[x] = i /\ IsDirInode(IGet(i)) THEN Unknown
                       ELSE dentry[x]]
    /\ UNCHANGED counter

\* The inode of a removed file leaves the cache with its last name.
DropInode(i, d, n) ==
    inode' = [inode EXCEPT ![i] =
        IF \E x \in (Ino \X Name) \ {<<d, n>>} : dentry[x] = i
        THEN Detached ELSE NotCached]

\* The name leaves the list of its directory, after the slot was cleared.
RemoveName(d, n, s) ==
    LET parent == Loaded(inode[d])
    IN slot' = [slot EXCEPT ![inode[d]] = [parent EXCEPT !.names = Remove(parent.names, n)],
                            ![s] = FreeSlot]

\* portfs_unlink; -EINVAL, and nothing else, when the inode is detached.
Unlink(d, n) ==
    /\ Reached(d)
    /\ \E i \in {dentry[<<d, n>>]} \cap Ino :
        /\ inode[i] \in Slot
        /\ slot[inode[i]].kind = "reg"
        /\ RemoveName(d, n, inode[i])
        /\ DropInode(i, d, n)
    /\ taken' = taken \cup LoadTakes(inode[d])
    /\ dentry' = [dentry EXCEPT ![<<d, n>>] = Negative]
    /\ past' = past \cup LoadPast(inode[d])
    /\ UNCHANGED counter

\* portfs_rmdir of a directory that looks empty.  The kernel then drops what it
\* knew of the names in it.
Rmdir(d, n) ==
    /\ Reached(d)
    /\ \E i \in {dentry[<<d, n>>]} \cap Ino :
        /\ inode[i] \in Slot
        /\ slot[inode[i]].kind = "dir"
        /\ DirLooksEmpty(inode[i])
        /\ RemoveName(d, n, inode[i])
        /\ DropInode(i, d, n)
        /\ taken' = (taken \ {slot[inode[i]].block}) \cup LoadTakes(inode[d])
        /\ dentry' = [x \in Ino \X Name |->
               CASE x = <<d, n>> -> Negative
                 [] x # <<d, n>> /\ x[1] = i -> Unknown
                 [] OTHER -> dentry[x]]
    /\ past' = past \cup LoadPast(inode[d])
    /\ UNCHANGED counter

\* portfs_rmdir of another: -ENOTEMPTY, with the names loaded for the check.
RmdirRefused(d, n) ==
    /\ Reached(d)
    /\ \E i \in {dentry[<<d, n>>]} \cap Ino :
        /\ inode[i] \in Slot
        /\ slot[inode[i]].kind = "dir"
        /\ ~DirLooksEmpty(inode[i])
        /\ slot' = [slot EXCEPT ![inode[i]].loaded = TRUE]
    /\ UNCHANGED <<taken, inode, dentry, counter, past>>

\* portfs_iterate_shared: every name whose number has a slot gets an inode.
Readdir(d) ==
    /\ Reached(d)
    /\ slot' = [slot EXCEPT ![inode[d]] = Loaded(inode[d])]
    /\ taken' = taken \cup LoadTakes(inode[d])
    /\ past' = past \cup LoadPast(inode[d])
    /\ LET names == Loaded(inode[d]).names
       IN inode' = [i \in Ino |->
             IF /\ inode[i] = NotCached
                /\ \E k \in Index : names[k].ino = i
                /\ SlotOfIno(slot, i) # {}
             THEN IGet(i) ELSE inode[i]]
    /\ UNCHANGED <<dentry, counter>>

\* portfs_iterate_shared of a directory for whose block no buffer is found: its
\* list stays blank and counts as loaded.  Nobody looks at the result of
\* portfs_load_dir_data; any other call that meets this is this step and the call.
ReaddirUnread(d) ==
    /\ Reached(d)
    /\ ~slot[inode[d]].loaded /\ slot[inode[d]].block # 0
    /\ slot' = [slot EXCEPT ![inode[d]].names = NoNames, ![inode[d]].loaded = TRUE]
    /\ past' = past \cup {"unread"}
    /\ UNCHANGED <<taken, inode, dentry, counter>>

\* Memory pressure: the kernel forgets a name no other depends on, or an inode
\* no name refers to (portfs_evict_inode).
Forget(d, n) ==
    /\ dentry[<<d, n>>] # Unknown
    /\ \A i \in {dentry[<<d, n>>]} \cap Ino, m \in Name : dentry[<<i, m>>] = Unknown
    /\ dentry' = [dentry EXCEPT ![<<d, n>>] = Unknown]
    /\ UNCHANGED <<slot, taken, inode, counter, past>>

Evict(i) ==
    /\ i # RootIno
    /\ inode[i] # NotCached
    /\ \A x \in Ino \X Name : dentry[x] # i
    /\ inode' = [inode EXCEPT ![i] = NotCached]
    /\ UNCHANGED <<slot, taken, dentry, counter, past>>

\* Unmount, which writes everything, and mount again; after a restart of the
\* machine iunique starts anew.
Remount(restart) ==
    /\ slot' = WithRoot(LoadTable)
    /\ inode' = MountedInodes(LoadTable)
    /\ dentry' = NothingKnown
    /\ counter' = IF restart THEN RootIno ELSE counter
    /\ past' = past \cup (IF restart THEN {"rebooted"} ELSE {})
                    \cup (IF LittleEndian THEN {"numbersLost"} ELSE {})
    /\ UNCHANGED taken

Next ==
    \/ \E d \in Ino, n \in Name :
          \/ \E kind \in {"reg", "dir"} : Create(d, n, kind)
          \/ Lookup(d, n) \/ Unlink(d, n) \/ Rmdir(d, n) \/ RmdirRefused(d, n)
          \/ Forget(d, n)
    \/ \E d \in Ino : Readdir(d) \/ ReaddirUnread(d) \/ Evict(d)
    \/ \E restart \in BOOLEAN : Remount(restart)

Spec == Init /\ [][Next]_vars

-----------------------------------------------------------------------------
\* Properties.

Live == {s \in Slot : slot[s].kind # "free"}
EntryAt(e) == slot[e[1]].names[e[2]]
Entries == {e \in Slot \X Index : EntryAt(e) # NoEntry}

\* No directory overflowed, went without a block or was not read for want of
\* memory, numbers start from where they were, and a mount reads them as they
\* were written.
Ordinary == past = {}

\* Names and slots correspond: the slots in use have different numbers; every
\* one but the root is named by exactly one entry, which is in a directory; an
\* entry names a slot in use; and no directory has a name twice.
NamesAreFiles ==
    Ordinary =>
        /\ \A s, t \in Live : s # t => slot[s].ino # slot[t].ino
        /\ \A s \in Live : slot[s].ino # RootIno =>
              Cardinality({e \in Entries : EntryAt(e).ino = slot[s].ino}) = 1
        /\ \A e \in Entries :
              /\ slot[e[1]].kind = "dir"
              /\ \E s \in Live : slot[s].ino = EntryAt(e).ino
              /\ \A f \in Entries :
                    f # e /\ f[1] = e[1] => EntryAt(f).name # EntryAt(e).name

\* What the kernel has cached agrees with the file system, whatever was evicted,
\* removed, created again or remounted since it was read.
CachesAreCurrent ==
    Ordinary =>
        \A d \in Ino, n \in Name :
            dentry[<<d, n>>] # Unknown =>
                /\ inode[d] \in Slot /\ slot[inode[d]].ino = d
                /\ IF dentry[<<d, n>>] = Negative
                   THEN Find(slot[inode[d]].names, n) = {}
                   ELSE LET i == dentry[<<d, n>>]
                        IN /\ Find(slot[inode[d]].names, n) = {i}
                           /\ inode[i] \in Slot /\ slot[inode[i]].ino = i

\* A directory that is removed has no names in it, unless one had no block or was
\* not read: the names of such a one are gone from memory, and its block goes with
\* the names that were written to it.
RmdirOnlyEmpty ==
    [][\A s \in Slot :
          /\ slot[s].kind = "dir" /\ slot'[s].kind = "free"
          /\ past \cap {"blockless", "unread"} = {}
          => IsEmpty(slot[s].names)]_vars

\* The directories and files a walk from the root slot reaches, with the names
\* on the way.
Edges ==
    {e \in Slot \X Name \X Slot :
        /\ slot[e[1]].kind = "dir"
        /\ \E i \in Find(slot[e[1]].names, e[2]) : e[3] \in SlotOfIno(slot, i)}

Closed(R) == \A e \in Edges : e[1] \in R => e[3] \in R

Walk ==
    {e \in Edges : \A R \in SUBSET Slot :
        (inode[RootIno] \in R /\ Closed(R)) => e[1] \in R}

\* Unmounting and mounting again keeps every name that leads to a file, as far as
\* the lists in memory had it, unless a directory had no block.
NamesSurviveRemount ==
    [][\A restart \in BOOLEAN :
          Remount(restart) /\ "blockless" \notin past => Walk' = Walk]_vars

\* Every file that was created can be found: some directory names it.
FilesCanBeFound ==
    \A s \in Live : slot[s].ino # RootIno =>
        \E e \in Entries : EntryAt(e).ino = slot[s].ino
=============================================================================

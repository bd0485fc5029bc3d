------------------------------- MODULE FileIO -------------------------------
(***************************************************************************)
(* The bytes of regular files: how portfs_file_write and portfs_file_read  *)
(* (kernel/file.c) cut a request at the ends of extents and turn offsets   *)
(* of the file into offsets of the storage file, with the allocation       *)
(* (kernel/extent_alloc.c) and the calls that free blocks and leave their  *)
(* bytes where they are (kernel/inode.c).                                  *)
(*                                                                         *)
(* One call runs at a time, one transfer with the storage file per step.   *)
(* The storage is so small that no file needs more than the direct         *)
(* extents (FileStore has the others) and so small that block numbers      *)
(* times the block size fit 32 bits (Layout says which storages are).      *)
(***************************************************************************)
EXTENDS Extents, Sequences, FiniteSets

CONSTANTS
    BlockSize,       \* psb->block_size
    DirectExtents,   \* DIRECT_EXTENTS, 4 in shared_structs.h
    Modulus,         \* 2^32: uint32_t arithmetic wraps here
    SizeModulus,     \* 2^64: size_t arithmetic wraps here
    File,            \* slots of the file table
    Byte,            \* the values of a byte
    Zero,            \* what the storage file holds at first
    Hole,            \* no byte
    Data,            \* bound: the byte sequences callers write
    Offsets          \* bound: the offsets, counts and sizes callers use

ASSUME FileIOAssumption ==
    /\ BlockSize \in Nat \ {0}
    /\ DirectExtents \in Nat /\ Cardinality(DataBlock) <= DirectExtents
    /\ Modulus \in Nat \ {0} /\ SizeModulus \in Nat \ {0}
    /\ TotalBlocks * BlockSize < Modulus
    /\ 0 \notin File
    /\ Zero \in Byte
    /\ Hole \notin Byte
    /\ Data \subseteq Seq(Byte)
    /\ Offsets \subseteq Nat
    /\ \A o \in Offsets : o < SizeModulus /\ \A d \in Data : o + Len(d) < SizeModulus

VARIABLES
    disk,      \* the data area of the storage file
    bitmap,    \* psb->block_bitmap
    used,      \* slots in use
    extents,   \* file.direct_extents up to extent_count
    size,      \* size_in_bytes
    call,      \* the system call in progress and its locals
    reply      \* what the last call returned

vars == <<disk, bitmap, used, extents, size, call, reply>>

-----------------------------------------------------------------------------
\* Where bytes are.

Address == (DataStart * BlockSize) .. (TotalBlocks * BlockSize - 1)

\* The bytes in the extents before the k-th.
Behind(xs, k) ==
    LET length[i \in 0 .. Len(xs)] ==
            IF i = 0 THEN 0 ELSE length[i - 1] + xs[i].length
    IN length[k - 1] * BlockSize

\* portfs_get_allocated_size.
AllocatedSize(xs) == Behind(xs, Len(xs) + 1)

\* The extent both walks stop at: the first that ends behind offset o.
Holding(xs, o) ==
    {k \in DOMAIN xs : Behind(xs, k) <= o /\ o < Behind(xs, k + 1)}

EFAULT == -14

\* portfs_calc_global_offset.
GlobalOffset(xs, o) ==
    LET at == Holding(xs, o)
        k  == CHOOSE i \in at : TRUE
    IN IF at = {} THEN EFAULT
       ELSE ((xs[k].start * BlockSize) % Modulus) + (o - Behind(xs, k))

\* Faulty variant: the bytes of the extents behind are counted too.
AvailableBytesOfFile(xs, o) ==
    IF Holding(xs, o) = {} THEN EFAULT % SizeModulus ELSE AllocatedSize(xs) - o

\* Faulty variant: the last byte of the extent is not counted.
AvailableBytesButOne(xs, o) ==
    LET at == Holding(xs, o)
        k  == CHOOSE i \in at : TRUE
    IN IF at = {} THEN EFAULT % SizeModulus ELSE Behind(xs, k + 1) - o - 1

\* portfs_calc_available_bytes, as the size_t its callers make of it.
AvailableBytes(xs, o) ==
    LET at == Holding(xs, o)
        k  == CHOOSE i \in at : TRUE
    IN IF at = {} THEN EFAULT % SizeModulus ELSE Behind(xs, k + 1) - o

Lesser(a, b) == IF a < b THEN a ELSE b

\* kernel_write of bytes at an address.
Stored(a, bytes) ==
    [b \in Address |-> IF a <= b /\ b < a + Len(bytes) THEN bytes[b - a + 1]
                       ELSE disk[b]]

\* kernel_read of n bytes at an address.
Loaded(a, n) == [k \in 1 .. n |-> disk[a + k - 1]]

-----------------------------------------------------------------------------
Idle == [op |-> "none", next |-> "none", file |-> 0, pos |-> 0,
         append |-> FALSE, data |-> <<>>, count |-> 0,
         done |-> 0, got |-> <<>>, left |-> 0, tree |-> {}]

Call == [op     : {"none", "alloc", "write", "read"},
         next   : {"none", "write", "grow", "read"},  \* the call asked for
         file   : File \cup {0},
         pos    : Nat,                    \* *pos at the beginning
         append : BOOLEAN,                \* O_APPEND
         data   : Data \cup {<<>>},       \* the caller's buffer
         count  : Nat,                    \* bytes to read, or the new size
         done   : Nat,                    \* bytes_written_total
         got    : Seq(Byte),              \* kbuf of a read
         left   : Int,                    \* remaining_blocks
         tree   : SUBSET FreeExtent]      \* free_extent_tree

\* What a call returned, until the next one begins.
Reply(status, bytes) == [status |-> status, bytes |-> bytes]
NoReply == Reply("none", <<>>)

TypeOK ==
    /\ disk \in [Address -> Byte]
    /\ bitmap \subseteq DataBlock
    /\ used \subseteq File
    /\ \A f \in File : /\ extents[f] \in Seq(FreeExtent)
                       /\ Len(extents[f]) <= DirectExtents
    /\ size \in [File -> Nat]
    /\ call \in Call
    /\ reply.status \in {"none", "ok", "ENOSPC", "EIO", "fault"}

Init ==
    /\ disk = [a \in Address |-> Zero]
    /\ bitmap = {}
    /\ used = {}
    /\ extents = [f \in File |-> <<>>]
    /\ size = [f \in File |-> 0]
    /\ call = Idle
    /\ reply = NoReply

\* A call begins.
Enter == call.op = "none" /\ reply' = NoReply

\* The call returns.
Return(status, bytes) ==
    /\ call' = Idle
    /\ reply' = Reply(status, bytes)

-----------------------------------------------------------------------------
\* portfs_create.
Create(f) ==
    /\ Enter
    /\ f \notin used
    /\ used' = used \cup {f}
    /\ UNCHANGED <<disk, bitmap, extents, size, call>>

\* Freeing all blocks of a file leaves their bytes on storage.
FreeAll(f) ==
    /\ bitmap' = bitmap \ UNION {BlocksOf(extents[f][k]) : k \in DOMAIN extents[f]}
    /\ extents' = [extents EXCEPT ![f] = <<>>]
    /\ size' = [size EXCEPT ![f] = 0]

\* portfs_unlink.
Unlink(f) ==
    /\ Enter
    /\ f \in used
    /\ FreeAll(f)
    /\ used' = used \ {f}
    /\ UNCHANGED <<disk, call>>

\* portfs_setattr to size 0: portfs_truncate.
TruncateToZero(f) ==
    /\ Enter
    /\ f \in used
    /\ size[f] > 0
    /\ FreeAll(f)
    /\ UNCHANGED <<disk, used, call>>

-----------------------------------------------------------------------------
\* portfs_allocate_memory on behalf of request r, for the given bytes.
Blocks(bytes) == (bytes + BlockSize - 1) \div BlockSize

Allocating(r, bytes) ==
    [r EXCEPT !.op = "alloc", !.left = (Blocks(bytes) * 1500) \div 1000,
              !.tree = FreeExtents(bitmap)]

Available(f) == (AllocatedSize(extents[f]) - size[f]) % SizeModulus

\* Faulty variant: the extent stays in the tree.
TakeExtentAgain ==
    /\ call.op = "alloc"
    /\ call.left > 0
    /\ \E x \in FirstExtent(call.tree) :
          /\ bitmap' = SetAllocated(bitmap, x)
          /\ extents' = [extents EXCEPT ![call.file] = Append(@, x)]
          /\ call' = [call EXCEPT !.left = @ - x.length]
    /\ UNCHANGED <<disk, used, size, reply>>

TakeExtent ==
    /\ call.op = "alloc"
    /\ call.left > 0
    /\ \E x \in FirstExtent(call.tree) :
          /\ bitmap' = SetAllocated(bitmap, x)
          /\ extents' = [extents EXCEPT ![call.file] = Append(@, x)]
          /\ call' = [call EXCEPT !.left = @ - x.length, !.tree = @ \ {x}]
    /\ UNCHANGED <<disk, used, size, reply>>

NoSpace ==
    /\ call.op = "alloc"
    /\ call.left > 0
    /\ call.tree = {}
    /\ Return("ENOSPC", <<>>)
    /\ UNCHANGED <<disk, bitmap, used, extents, size>>

AllocatedForWrite ==
    /\ call.op = "alloc" /\ call.next = "write"
    /\ call.left <= 0
    /\ call' = [call EXCEPT !.op = "write", !.left = 0, !.tree = {}]
    /\ UNCHANGED <<disk, bitmap, used, extents, size, reply>>

-----------------------------------------------------------------------------
\* portfs_setattr to a larger size: portfs_extend.
BeginExtend(f, new) ==
    /\ Enter
    /\ f \in used
    /\ new > size[f]
    /\ LET needed == new - size[f]
           r == [Idle EXCEPT !.next = "grow", !.file = f, !.count = new]
       IN call' = IF Available(f) >= needed THEN [r EXCEPT !.op = "alloc"]
                  ELSE Allocating(r, needed)
    /\ UNCHANGED <<disk, bitmap, used, extents, size>>

Extended ==
    /\ call.op = "alloc" /\ call.next = "grow"
    /\ call.left <= 0
    /\ size' = [size EXCEPT ![call.file] = call.count]
    /\ Return("ok", <<>>)
    /\ UNCHANGED <<disk, bitmap, used, extents>>

-----------------------------------------------------------------------------
\* portfs_file_write.
BeginWrite(f, pos, append, data) ==
    /\ Enter
    /\ f \in used
    /\ append => pos = size[f]
    /\ LET r == [Idle EXCEPT !.next = "write", !.file = f, !.pos = pos,
                             !.append = append, !.data = data]
       IN call' = IF Available(f) < Len(data)
                  THEN Allocating(r, Len(data) - Available(f))
                  ELSE [r EXCEPT !.op = "write"]
    /\ UNCHANGED <<disk, bitmap, used, extents, size>>

\* kmalloc fails, or the caller's buffer cannot be read.
NoBuffer ==
    /\ call.op = "write"
    /\ call.done = 0 /\ call.data # <<>>
    /\ Return("fault", <<>>)
    /\ UNCHANGED <<disk, bitmap, used, extents, size>>

\* One round of the copy loop: up to the end of the extent, or of the data.
WriteChunk ==
    /\ call.op = "write"
    /\ call.done < Len(call.data)
    /\ LET xs == extents[call.file]
           o  == call.pos + call.done
           g  == GlobalOffset(xs, o)
           n  == Lesser(AvailableBytes(xs, o), Len(call.data) - call.done)
       IN /\ g >= (DataStart * BlockSize) % Modulus
          /\ \/ /\ disk' = Stored(g, SubSeq(call.data, call.done + 1, call.done + n))
                /\ call' = [call EXCEPT !.done = @ + n]
                /\ UNCHANGED reply
             \/ \E m \in 0 .. (n - 1) :     \* an error below, or a short write
                /\ disk' = Stored(g, SubSeq(call.data, call.done + 1, call.done + m))
                /\ Return("fault", <<>>)
    /\ UNCHANGED <<bitmap, used, extents, size>>

\* No place for the next byte: -EIO, and what was copied stays.
WriteAstray ==
    /\ call.op = "write"
    /\ call.done < Len(call.data)
    /\ GlobalOffset(extents[call.file], call.pos + call.done)
           < (DataStart * BlockSize) % Modulus
    /\ Return("EIO", <<>>)
    /\ UNCHANGED <<disk, bitmap, used, extents, size>>

WriteDone ==
    /\ call.op = "write"
    /\ call.done = Len(call.data)
    /\ size' = IF call.pos + call.done > size[call.file]
               THEN [size EXCEPT ![call.file] = call.pos + call.done] ELSE size
    /\ Return("ok", call.data)
    /\ UNCHANGED <<disk, bitmap, used, extents>>

-----------------------------------------------------------------------------
\* portfs_file_read: the count is cut at the end of the file.
BeginRead(f, pos, count) ==
    /\ Enter
    /\ f \in used
    /\ call' = [Idle EXCEPT !.op = "read", !.next = "read", !.file = f, !.pos = pos,
                            !.count = count]
    /\ UNCHANGED <<disk, bitmap, used, extents, size>>

\* Bytes to read: none behind the end of the file.
ToRead ==
    IF call.pos >= size[call.file] THEN 0
    ELSE Lesser(call.count, size[call.file] - call.pos)

ReadChunk ==
    /\ call.op = "read"
    /\ Len(call.got) < ToRead
    /\ LET xs == extents[call.file]
           o  == call.pos + Len(call.got)
           g  == GlobalOffset(xs, o)
           n  == Lesser(AvailableBytes(xs, o), ToRead - Len(call.got))
       IN /\ g >= 0
          /\ call' = [call EXCEPT !.got = @ \o Loaded(g, n)]
    /\ UNCHANGED <<disk, bitmap, used, extents, size, reply>>

\* No memory, an error of the storage file or fewer bytes than asked for, or a
\* buffer of the caller that cannot be filled.
ReadFails ==
    /\ call.op = "read"
    /\ ToRead > 0
    /\ Return("fault", <<>>)
    /\ UNCHANGED <<disk, bitmap, used, extents, size>>

\* The walk found no place; kernel_read refuses the negative offset.
ReadAstray ==
    /\ call.op = "read"
    /\ Len(call.got) < ToRead
    /\ GlobalOffset(extents[call.file], call.pos + Len(call.got)) < 0
    /\ Return("EIO", <<>>)
    /\ UNCHANGED <<disk, bitmap, used, extents, size>>

ReadDone ==
    /\ call.op = "read"
    /\ Len(call.got) = ToRead
    /\ Return("ok", call.got)
    /\ UNCHANGED <<disk, bitmap, used, extents, size>>

-----------------------------------------------------------------------------
Step ==
    \/ TakeExtent \/ NoSpace \/ AllocatedForWrite \/ Extended
    \/ WriteChunk \/ WriteAstray \/ WriteDone
    \/ ReadChunk \/ ReadAstray \/ ReadDone

Next ==
    \/ \E f \in File : Create(f) \/ Unlink(f) \/ TruncateToZero(f)
    \/ \E f \in File, new \in Offsets : BeginExtend(f, new)
    \/ \E f \in File, pos \in Offsets, data \in Data :
          BeginWrite(f, pos, FALSE, data)
    \/ \E f \in File, data \in Data : BeginWrite(f, size[f], TRUE, data)
    \/ \E f \in File, pos, count \in Offsets : BeginRead(f, pos, count)
    \/ NoBuffer \/ ReadFails
    \/ Step

\* A call that has begun keeps running: its thread is scheduled.
Spec == Init /\ [][Next]_vars /\ WF_vars(Step)

-----------------------------------------------------------------------------
\* The bytes of the first i extents, one after the other.
Joined(xs) ==
    LET bytes[i \in 0 .. Len(xs)] ==
            IF i = 0 THEN <<>>
            ELSE bytes[i - 1] \o Loaded(xs[i].start * BlockSize,
                                        xs[i].length * BlockSize)
    IN bytes[Len(xs)]

\* The file its users see; behind its last extent it has no bytes.
Seen(f) ==
    LET bytes == Joined(extents[f])
    IN [k \in 1 .. size[f] |-> IF k <= Len(bytes) THEN bytes[k] ELSE Hole]

Asked == [op |-> call.next, file |-> call.file, pos |-> call.pos,
          append |-> call.append, data |-> call.data, count |-> call.count]

Contents == INSTANCE FileContents
    WITH exists <- used, content <- [f \in File |-> Seen(f)], request <- Asked

\* Reads return what was written, a write changes the bytes it names of one file
\* and no other byte of any file, also when it fails half-way or other files grow
\* and shrink between calls.
FilesKeepTheirBytes == Contents!ContentsSafety

\* Every call ends: no loop over extents goes round without a byte or a block.
CallsEnd == Contents!ContentsEnds
=============================================================================

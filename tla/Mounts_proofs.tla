---------------------------- MODULE Mounts_proofs ----------------------------
(***************************************************************************)
(* The layout of storage files of the sizes the tool makes, and the life   *)
(* of the open storage file, for any number of mounts and files.           *)
(***************************************************************************)
EXTENDS Mounts, FiniteSetTheorems, TLAPS

-----------------------------------------------------------------------------
\* The numbers of the program.
RealSizes ==
    /\ Word = 4294967296
    /\ BlockSize = 4096
    /\ BlocksPerGB = 262144
    /\ FilesPerGB = 1024
    /\ EntryBytes = 52
    /\ MemoryBytes = 72

\* The sizes of a storage: more gigabytes have more blocks than a 32-bit number
\* tells.
Sizes == {n \in Nat : 1 <= n /\ n <= 16383}

SuperblockOf(n) ==
    /\ TotalBlocks(n) = 262144 * n
    /\ MaxFileCount(n) = 1024 * n
    /\ FileTableSize(n) = 13 * n
    /\ BlockBitmapStart(n) = 1 + 13 * n
    /\ BlockBitmapSize(n) = 8 * n
    /\ DataStart(n) = 1 + 21 * n

\* The fields of a superblock are multiples of the gigabytes.
LEMMA FieldsOfSuperblock ==
    ASSUME RealSizes, NEW n \in Sizes
    PROVE  SuperblockOf(n)
<1>0. n \in Nat /\ 1 <= n /\ n <= 16383
  BY SMT DEF Sizes
<1>1. TotalBlocks(n) = 262144 * n
  BY <1>0, SMT DEF TotalBlocks, RealSizes
<1>2. MaxFileCount(n) = 1024 * n
  BY <1>0, SMT DEF MaxFileCount, RealSizes
<1>3. FileTableSize(n) = 13 * n
  <2>0. 1024 * n * 52 = 53248 * n
    BY <1>0, SMT
  <2>1. (53248 * n) % 4294967296 = 53248 * n
    BY <1>0, SMT
  <2>2. (53248 * n) \div 4096 = 13 * n
    BY <1>0, SMT
  <2> QED
    BY <1>2, <2>0, <2>1, <2>2, SMT DEF FileTableSize, RealSizes
<1>4. BlockBitmapStart(n) = 1 + 13 * n
  BY <1>0, <1>3, SMT DEF BlockBitmapStart, FileTableStart, RealSizes
<1>5. BlockBitmapSize(n) = 8 * n
  <2>1. (262144 * n) \div 8 = 32768 * n
    BY <1>0, SMT
  <2>2. (32768 * n) \div 4096 = 8 * n
    BY <1>0, SMT
  <2> QED
    BY <1>1, <2>1, <2>2, SMT DEF BlockBitmapSize, RealSizes
<1>6. DataStart(n) = 1 + 21 * n
  BY <1>0, <1>4, <1>5, SMT DEF DataStart, RealSizes
<1> QED
  BY <1>1, <1>2, <1>3, <1>4, <1>5, <1>6, SMT DEF SuperblockOf

\* Although every division rounds down, the areas of a storage of whole
\* gigabytes hold what is written to them.
THEOREM LayoutFits ==
    ASSUME RealSizes, NEW n \in Sizes
    PROVE  AreasFit(n)
<1>1. SuperblockOf(n)
  BY FieldsOfSuperblock, Zenon
<1>2. n \in Nat /\ 1 <= n /\ n <= 16383
  BY SMT DEF Sizes
<1> QED
  BY <1>1, <1>2, SMT DEF AreasFit, FileTableStart, SuperblockOf, RealSizes

\* Up to 4 GB every block is read and written at its place.
THEOREM SmallStorageInPlace ==
    ASSUME RealSizes, NEW n \in 1 .. 4
    PROVE  EveryBlockInPlace(n)
<1>a. n \in Sizes
  BY SMT DEF Sizes
<1>b. SuperblockOf(n)
  BY <1>a, FieldsOfSuperblock, Zenon
<1>1. TotalBlocks(n) = 262144 * n
  BY <1>b, SMT DEF SuperblockOf
<1>2. SUFFICES ASSUME NEW b \in 0 .. (262144 * n - 1)
               PROVE  At(b) = b
  BY <1>1, SMT DEF EveryBlockInPlace
<1>3. (b * 4096) % 4294967296 = b * 4096
  BY SMT
<1>4. (b * 4096) \div 4096 = b
  BY SMT
<1> QED
  BY <1>3, <1>4, SMT DEF At, RealSizes

\* From 5 GB on there is a data block whose bytes go over the superblock.
THEOREM LargeStorageWraps ==
    ASSUME RealSizes, NEW n \in Sizes, n > 4
    PROVE  \E b \in DataStart(n) .. (TotalBlocks(n) - 1) : At(b) = 0
<1>a. n \in Nat /\ 5 <= n /\ n <= 16383
  BY SMT DEF Sizes
<1>b. SuperblockOf(n)
  BY FieldsOfSuperblock, Zenon
<1>1. TotalBlocks(n) = 262144 * n /\ DataStart(n) = 1 + 21 * n
  BY <1>b, SMT DEF SuperblockOf
<1>2. 1048576 \in DataStart(n) .. (TotalBlocks(n) - 1)
  BY <1>a, <1>1, SMT
<1>3. At(1048576) = 0
  BY SMT DEF At, RealSizes
<1> QED
  BY <1>2, <1>3, SMT

\* The search for the root looks at the first slot, where the first mount puts
\* it, and never behind the table, although it counts slots by the size of the
\* wrong structure.
THEOREM RootSearchStaysInTable ==
    ASSUME RealSizes, NEW n \in Sizes
    PROVE  SlotsLookedAt(n) \in 1 .. MaxFileCount(n)
<1>a. n \in Nat /\ 1 <= n /\ n <= 16383
  BY SMT DEF Sizes
<1>b. SuperblockOf(n)
  BY FieldsOfSuperblock, Zenon
<1>1. FileTableSize(n) = 13 * n /\ MaxFileCount(n) = 1024 * n
  BY <1>b, SMT DEF SuperblockOf
<1>2. (13 * n * 4096) % 4294967296 = 53248 * n
  <2>1. 13 * n * 4096 = 53248 * n
    BY <1>a, SMT
  <2>2. (53248 * n) % 4294967296 = 53248 * n
    BY <1>a, SMT
  <2> QED
    BY <2>1, <2>2, SMT
<1>3. SlotsLookedAt(n) = (53248 * n) \div 72
  BY <1>1, <1>2, SMT DEF SlotsLookedAt, RealSizes
<1>4. (53248 * n) \div 72 >= 1 /\ (53248 * n) \div 72 <= 1024 * n
  BY <1>a, SMT
<1>5. (53248 * n) \div 72 \in Nat
  BY <1>a, SMT
<1> QED
  BY <1>a, <1>1, <1>3, <1>4, <1>5, SMT

-----------------------------------------------------------------------------
(***************************************************************************)
(* The life of the open storage file.  Every action is, for the paths, the *)
(* files and the mounts, one of eight kinds of step; the invariants are    *)
(* shown for the kinds.                                                    *)
(***************************************************************************)

Fields == {"at", "wants", "n", "table", "bits", "mixed"}

Shape ==
    /\ exists \subseteq File
    /\ DOMAIN handle = Mount
    /\ DOMAIN mnt = Mount
    /\ \A m \in Mount : DOMAIN mnt[m] = Fields

Opened == {"opened", "super", "table", "bitmap", "up", "synced"}

\* Mount m goes to a stage; the others stay.
Goes(m, stage, wanted) ==
    /\ mnt'[m].at = stage /\ mnt'[m].wants = wanted
    /\ \A o \in Mount : o # m => mnt'[o].at = mnt[o].at /\ mnt'[o].wants = mnt[o].wants

Quiet ==
    /\ \A o \in Mount : mnt'[o].at = mnt[o].at /\ mnt'[o].wants = mnt[o].wants
    /\ UNCHANGED <<storage_path, storage_filp, handle, fault>>
    /\ past \subseteq past'

Begins(m) ==
    \E f \in File \cup {NoFile} :
        /\ mnt[m].at = "none"
        /\ Goes(m, "begun", f)
        /\ storage_path' = IF f = NoFile THEN storage_path ELSE f
        /\ UNCHANGED <<storage_filp, handle, fault>>
        /\ past \subseteq past'
        /\ f = NoFile => "no path" \in past'
        /\ (\E o \in Mount : Active(o)) => "overlap" \in past'

Opens(m) ==
    /\ mnt[m].at = "begun"
    /\ storage_path \in File
    /\ Goes(m, "opened", mnt[m].wants)
    /\ storage_filp' = m
    /\ handle' = [handle EXCEPT ![m] = storage_path]
    /\ UNCHANGED <<storage_path, past, fault>>

OpenFails(m) ==
    /\ mnt[m].at = "begun"
    /\ Goes(m, "failed", mnt[m].wants)
    /\ UNCHANGED <<storage_path, handle, past, fault>>

Proceeds(m) ==
    \E stage \in Opened :
        /\ HasOpened(m)
        /\ Goes(m, stage, mnt[m].wants)
        /\ UNCHANGED <<storage_path, storage_filp, handle, fault>>
        /\ past \subseteq past'

Fails(m) ==
    /\ HasOpened(m)
    /\ Goes(m, "failed", NoFile)
    /\ UNCHANGED <<storage_path, storage_filp, handle, fault>>
    /\ past' = past \cup {"failed open"}

Closes(m) ==
    \E stage \in {"failed", "gone"} :
        /\ HasOpened(m)
        /\ FilpIsOpen
        /\ Goes(m, stage, NoFile)
        /\ handle' = [handle EXCEPT ![storage_filp] = NoFile]
        /\ UNCHANGED <<storage_path, storage_filp, past, fault>>

Faults ==
    /\ \E m \in Mount : HasOpened(m)
    /\ ~FilpIsOpen
    /\ UNCHANGED <<storage_path, storage_filp, handle, mnt, past>>

Kinds ==
    \/ Quiet \/ Faults
    \/ \E m \in Mount : Begins(m) \/ Opens(m) \/ OpenFails(m) \/ Proceeds(m) \/ Fails(m) \/ Closes(m)

-----------------------------------------------------------------------------
\* Replacing the record of a mount.
LEMMA MountGoes ==
    ASSUME Shape, NEW m \in Mount, NEW r, DOMAIN r = Fields, mnt' = [mnt EXCEPT ![m] = r]
    PROVE  /\ DOMAIN mnt' = Mount
           /\ \A o \in Mount : DOMAIN mnt'[o] = Fields
           /\ Goes(m, r.at, r.wants)
BY DEF Shape, Goes

LEMMA FieldsOfNoMount == DOMAIN NoMount = Fields
BY DEF NoMount, Fields

\* A step of a mount through storage_filp.
LEMMA StepsOfMounts ==
    ASSUME Shape, NEW m \in Mount, NEW here \in Opened, NEW change, DOMAIN change = Fields,
           Step(m, here, change)
    PROVE  /\ HasOpened(m) /\ FilpIsOpen
           /\ DOMAIN mnt' = Mount
           /\ \A o \in Mount : DOMAIN mnt'[o] = Fields
           /\ Goes(m, change.at, change.wants)
           /\ UNCHANGED <<storage_path, storage_filp, fault>>
<1>1. mnt' = [mnt EXCEPT ![m] = change]
  BY DEF Step
<1>2. HasOpened(m) /\ FilpIsOpen /\ UNCHANGED <<storage_path, storage_filp, fault>>
  BY DEF Step, Uses, HasOpened, Opened
<1> QED
  BY <1>1, <1>2, MountGoes, Zenon

\* A step after which the file is still open.
LEMMA StepProceeds ==
    ASSUME Shape, NEW m \in Mount, NEW here \in Opened, NEW change, DOMAIN change = Fields,
           Step(m, here, change), change.at \in Opened, change.wants = mnt[m].wants,
           UNCHANGED handle, past \subseteq past', exists' = exists
    PROVE  Shape' /\ Proceeds(m)
<1>1. Shape'
  BY StepsOfMounts DEF Shape
<1>2. Proceeds(m)
  BY StepsOfMounts, Zenon DEF Proceeds
<1> QED
  BY <1>1, <1>2

\* A step that leaves the kernel alone.
LEMMA QuietSteps ==
    ASSUME Shape, UNCHANGED kernel, UNCHANGED fault, past \subseteq past', exists' \subseteq File
    PROVE  Shape' /\ Quiet
BY DEF Shape, Quiet, kernel

LEMMA ToolSteps ==
    ASSUME Shape,
           \/ \E n \in 0 .. MaxGB : CreateFile(n)
           \/ CreateFileFails \/ FormatGivesUp
           \/ WriteSuperblock \/ WriteFileTable \/ WriteBlockBitmap
    PROVE  Shape' /\ Quiet
<1>1. exists' \subseteq File
  <2>1. exists \subseteq File /\ StorageFile \in File
    BY MountsAssumption DEF Shape
  <2>2. exists' = exists \/ exists' = exists \cup {StorageFile}
    BY DEF CreateFile, CreateFileFails, FormatGivesUp, WriteSuperblock, WriteFileTable,
           WriteBlockBitmap, WriteZeroes, FormatStep
  <2> QED
    BY <2>1, <2>2
<1>2. UNCHANGED kernel /\ UNCHANGED fault
  BY DEF CreateFile, CreateFileFails, FormatGivesUp, WriteSuperblock, WriteFileTable,
         WriteBlockBitmap, WriteZeroes, FormatStep
<1>3. past \subseteq past'
  BY DEF CreateFile, CreateFileFails, FormatGivesUp, WriteSuperblock, WriteFileTable,
         WriteBlockBitmap, WriteZeroes, FormatStep
<1> QED
  BY <1>1, <1>2, <1>3, QuietSteps

LEMMA BeginMountBegins ==
    ASSUME Shape, NEW m \in Mount, NEW f \in File \cup {NoFile}, BeginMount(m, f)
    PROVE  Shape' /\ Begins(m)
<1> DEFINE r == [mnt[m] EXCEPT !.at = "begun", !.wants = f]
<1>1. mnt[m] = NoMount /\ mnt' = [mnt EXCEPT ![m] = r]
  BY DEF BeginMount, Shape
<1>2. mnt[m].at = "none" /\ DOMAIN r = Fields /\ r.at = "begun" /\ r.wants = f
  BY <1>1 DEF NoMount, Fields
<1>3. /\ exists' = exists
      /\ storage_path' = IF f = NoFile THEN storage_path ELSE f
      /\ UNCHANGED <<storage_filp, handle, fault>>
  BY DEF BeginMount, host
<1>4. /\ past \subseteq past'
      /\ f = NoFile => "no path" \in past'
      /\ (\E o \in Mount : Active(o)) => "overlap" \in past'
  BY DEF BeginMount
<1> HIDE DEF r
<1>5. /\ DOMAIN mnt' = Mount
      /\ \A o \in Mount : DOMAIN mnt'[o] = Fields
      /\ Goes(m, "begun", f)
  BY <1>1, <1>2, MountGoes
<1>6. Shape'
  BY <1>3, <1>5 DEF Shape
<1>7. Begins(m)
  BY <1>2, <1>3, <1>4, <1>5 DEF Begins
<1> QED
  BY <1>6, <1>7

LEMMA OpenStorageOpens ==
    ASSUME Shape, NEW m \in Mount, OpenStorage(m)
    PROVE  Shape' /\ (Opens(m) \/ OpenFails(m))
<1>1. mnt[m].at = "begun" /\ exists' = exists /\ UNCHANGED <<storage_path, past, fault>>
  BY DEF OpenStorage, Uses, host
<1>2. CASE storage_path \in exists
  <2> DEFINE r == [mnt[m] EXCEPT !.at = "opened"]
  <2>1. DOMAIN r = Fields /\ r.at = "opened" /\ r.wants = mnt[m].wants
    BY DEF Shape, Fields
  <2>2. /\ mnt' = [mnt EXCEPT ![m] = r]
        /\ storage_filp' = m
        /\ handle' = [handle EXCEPT ![m] = storage_path]
    BY <1>2 DEF OpenStorage
  <2> HIDE DEF r
  <2>3. /\ DOMAIN mnt' = Mount
        /\ \A o \in Mount : DOMAIN mnt'[o] = Fields
        /\ Goes(m, "opened", mnt[m].wants)
    BY ZenonT(40), <2>1, <2>2, MountGoes
  <2>4. Shape'
    BY <1>1, <2>2, <2>3 DEF Shape
  <2>5. Opens(m)
    BY <1>1, <1>2, <2>2, <2>3 DEF Opens, Shape
  <2> QED
    BY <2>4, <2>5
<1>3. CASE storage_path \notin exists
  <2> DEFINE r == [mnt[m] EXCEPT !.at = "failed"]
  <2>1. DOMAIN r = Fields /\ r.at = "failed" /\ r.wants = mnt[m].wants
    BY DEF Shape, Fields
  <2>2. mnt' = [mnt EXCEPT ![m] = r] /\ handle' = handle
    BY <1>3 DEF OpenStorage
  <2> HIDE DEF r
  <2>3. /\ DOMAIN mnt' = Mount
        /\ \A o \in Mount : DOMAIN mnt'[o] = Fields
        /\ Goes(m, "failed", mnt[m].wants)
    BY ZenonT(40), <2>1, <2>2, MountGoes
  <2>4. Shape'
    BY <1>1, <2>2, <2>3 DEF Shape
  <2>5. OpenFails(m)
    BY <1>1, <2>2, <2>3 DEF OpenFails
  <2> QED
    BY <2>4, <2>5
<1> QED
  BY <1>2, <1>3

LEMMA ReadsProceed ==
    ASSUME Shape, NEW m \in Mount,
           ReadSuperblock(m) \/ ReadFileTable(m) \/ ReadBlockBitmap(m) \/ MakeRoot(m)
    PROVE  Shape' /\ Proceeds(m)
<1>0. DOMAIN mnt[m] = Fields
  BY DEF Shape
<1>1. CASE ReadSuperblock(m)
  <2> DEFINE r == [mnt[m] EXCEPT !.at = "super", !.n = SizeIn(block[TheFile][0])]
  <2>1. DOMAIN r = Fields /\ r.at = "super" /\ r.wants = mnt[m].wants
    BY <1>0 DEF Fields
  <2>2. Step(m, "opened", r) /\ UNCHANGED <<exists, handle, past>>
    BY <1>1 DEF ReadSuperblock, host
  <2> HIDE DEF r
  <2> QED
    BY <2>1, <2>2, StepProceeds DEF Opened
<1>2. CASE ReadFileTable(m)
  <2>1. PICK t : Step(m, "super", [mnt[m] EXCEPT !.at = "table", !.table = t])
    BY <1>2 DEF ReadFileTable
  <2> DEFINE r == [mnt[m] EXCEPT !.at = "table", !.table = t]
  <2>2. DOMAIN r = Fields /\ r.at = "table" /\ r.wants = mnt[m].wants
    BY <1>0 DEF Fields
  <2>3. Step(m, "super", r) /\ UNCHANGED <<exists, handle, past>>
    BY <1>2, <2>1 DEF ReadFileTable, host
  <2> HIDE DEF r
  <2> QED
    BY <2>2, <2>3, StepProceeds DEF Opened
<1>3. CASE ReadBlockBitmap(m)
  <2>1. PICK t, x :
           /\ x \in BOOLEAN
           /\ Step(m, "table", [mnt[m] EXCEPT !.at = "bitmap", !.bits = t, !.mixed = x])
    <3>1. PICK u, k, size :
             Step(m, "table", [mnt[m] EXCEPT !.at = "bitmap", !.bits = u,
                                             !.mixed = k < size \/ TheFile \in torn])
      BY <1>3 DEF ReadBlockBitmap
    <3>2. (k < size \/ TheFile \in torn) \in BOOLEAN
      OBVIOUS
    <3> QED
      BY <3>1, <3>2, Zenon
  <2> DEFINE r == [mnt[m] EXCEPT !.at = "bitmap", !.bits = t, !.mixed = x]
  <2>2. DOMAIN r = Fields /\ r.at = "bitmap" /\ r.wants = mnt[m].wants
    BY <1>0 DEF Fields
  <2>3. Step(m, "table", r) /\ UNCHANGED <<exists, handle, past>>
    BY <1>3, <2>1 DEF ReadBlockBitmap, host
  <2> HIDE DEF r
  <2> QED
    BY <2>2, <2>3, StepProceeds DEF Opened
<1>4. CASE MakeRoot(m)
  <2> DEFINE r == [mnt[m] EXCEPT !.at = "up", !.table = <<>>, !.bits = <<>>]
  <2>1. DOMAIN r = Fields /\ r.at = "up" /\ r.wants = mnt[m].wants
    BY <1>0 DEF Fields
  <2>2. Step(m, "bitmap", r) /\ UNCHANGED <<exists, handle, past>>
    BY <1>4 DEF MakeRoot, host
  <2> HIDE DEF r
  <2> QED
    BY <2>1, <2>2, StepProceeds DEF Opened
<1> QED
  BY <1>1, <1>2, <1>3, <1>4

LEMMA CallsProceed ==
    ASSUME Shape, NEW m \in Mount, WriteData(m) \/ SyncFs(m) \/ Unmount(m)
    PROVE  Shape' /\ Proceeds(m)
<1>0. DOMAIN mnt[m] = Fields
  BY DEF Shape
<1>1. CASE WriteData(m)
  <2>1. Step(m, "up", mnt[m]) /\ UNCHANGED <<exists, handle>> /\ past \subseteq past'
    BY <1>1 DEF WriteData
  <2>2. mnt[m].at \in Opened
    BY <2>1 DEF Step, Uses, Opened
  <2> QED
    BY <1>0, <2>1, <2>2, StepProceeds DEF Opened
<1>2. CASE SyncFs(m)
  <2> DEFINE r == [mnt[m] EXCEPT !.at = "up"]
  <2>1. DOMAIN r = Fields /\ r.at = "up" /\ r.wants = mnt[m].wants
    BY <1>0 DEF Fields
  <2>2. Step(m, "up", r) /\ UNCHANGED <<exists, handle>> /\ past \subseteq past'
    BY <1>2 DEF SyncFs, Sync, SyncNothing, SyncMetadata, SyncList, SyncJunk
  <2> HIDE DEF r
  <2> QED
    BY <2>1, <2>2, StepProceeds DEF Opened
<1>3. CASE Unmount(m)
  <2> DEFINE r == [mnt[m] EXCEPT !.at = "synced"]
  <2>1. DOMAIN r = Fields /\ r.at = "synced" /\ r.wants = mnt[m].wants
    BY <1>0 DEF Fields
  <2>2. Step(m, "up", r) /\ UNCHANGED <<exists, handle>> /\ past \subseteq past'
    BY <1>3 DEF Unmount, Sync, SyncNothing, SyncMetadata, SyncList, SyncJunk
  <2> HIDE DEF r
  <2> QED
    BY <2>1, <2>2, StepProceeds DEF Opened
<1> QED
  BY <1>1, <1>2, <1>3

LEMMA EndsOfMounts ==
    ASSUME Shape, NEW m \in Mount, MountFails(m) \/ RootFails(m) \/ PutSuper(m)
    PROVE  Shape' /\ (Fails(m) \/ Closes(m))
<1> DEFINE failed == [NoMount EXCEPT !.at = "failed"]
           gone == [NoMount EXCEPT !.at = "gone"]
<1>1. /\ DOMAIN failed = Fields /\ failed.at = "failed" /\ failed.wants = NoFile
      /\ DOMAIN gone = Fields /\ gone.at = "gone" /\ gone.wants = NoFile
  BY DEF NoMount, Fields
<1>2. CASE MountFails(m)
  <2>1. PICK here \in Opened : Step(m, here, failed)
    BY <1>2 DEF MountFails, Opened
  <2>2. past' = past \cup {"failed open"} /\ UNCHANGED <<exists, handle>>
    BY <1>2 DEF MountFails, host
  <2> HIDE DEF failed
  <2>3. Shape'
    BY <1>1, <2>1, <2>2, StepsOfMounts DEF Shape
  <2>4. Fails(m)
    BY <1>1, <2>1, <2>2, StepsOfMounts DEF Fails
  <2> QED
    BY <2>3, <2>4
<1>3. CASE RootFails(m)
  <2>1. Step(m, "bitmap", failed)
    BY <1>3 DEF RootFails
  <2>2. CloseFilp /\ UNCHANGED <<exists, past>>
    BY <1>3 DEF RootFails, host
  <2> HIDE DEF failed
  <2>3. Shape'
    BY <1>1, <2>1, <2>2, StepsOfMounts DEF Shape, CloseFilp, Opened
  <2>4. Closes(m)
    BY <1>1, <2>1, <2>2, StepsOfMounts DEF Closes, CloseFilp, Opened
  <2> QED
    BY <2>3, <2>4
<1>4. CASE PutSuper(m)
  <2>1. Step(m, "synced", gone)
    BY <1>4 DEF PutSuper
  <2>2. CloseFilp /\ UNCHANGED <<exists, past>>
    BY <1>4 DEF PutSuper, host
  <2> HIDE DEF gone
  <2>3. Shape'
    BY <1>1, <2>1, <2>2, StepsOfMounts DEF Shape, CloseFilp, Opened
  <2>4. Closes(m)
    BY <1>1, <2>1, <2>2, StepsOfMounts DEF Closes, CloseFilp, Opened
  <2> QED
    BY <2>3, <2>4
<1> QED
  BY <1>2, <1>3, <1>4

LEMMA EveryStepHasAKind ==
    ASSUME Shape, [Next]_vars
    PROVE  Shape' /\ Kinds
<1>1. CASE \/ \E n \in 0 .. MaxGB : CreateFile(n)
           \/ CreateFileFails \/ FormatGivesUp
           \/ WriteSuperblock \/ WriteFileTable \/ WriteBlockBitmap
  BY <1>1, ToolSteps, Zenon DEF Kinds
<1>2. ASSUME NEW m \in Mount, NEW f \in File \cup {NoFile}, BeginMount(m, f)
      PROVE  Shape' /\ Kinds
  BY <1>2, BeginMountBegins, Zenon DEF Kinds
<1>3. ASSUME NEW m \in Mount, OpenStorage(m)
      PROVE  Shape' /\ Kinds
  BY <1>3, OpenStorageOpens, Zenon DEF Kinds
<1>4. ASSUME NEW m \in Mount,
             ReadSuperblock(m) \/ ReadFileTable(m) \/ ReadBlockBitmap(m) \/ MakeRoot(m)
      PROVE  Shape' /\ Kinds
  BY <1>4, ReadsProceed, Zenon DEF Kinds
<1>5. ASSUME NEW m \in Mount, WriteData(m) \/ SyncFs(m) \/ Unmount(m)
      PROVE  Shape' /\ Kinds
  BY <1>5, CallsProceed, Zenon DEF Kinds
<1>6. ASSUME NEW m \in Mount, MountFails(m) \/ RootFails(m) \/ PutSuper(m)
      PROVE  Shape' /\ Kinds
  BY <1>6, EndsOfMounts, Zenon DEF Kinds
<1>7. CASE UseOfClosedFile
  <2>1. UNCHANGED <<exists, handle, mnt>>
    BY <1>7 DEF UseOfClosedFile, host, kernel
  <2>2. Faults
    BY <1>7 DEF UseOfClosedFile, Faults, kernel
  <2> QED
    BY <2>1, <2>2 DEF Shape, Kinds
<1>8. CASE UNCHANGED vars
  <2>1. UNCHANGED kernel /\ UNCHANGED <<exists, fault, past>>
    BY <1>8 DEF vars, host
  <2>2. Shape' /\ Quiet
    BY <2>1, QuietSteps DEF Shape
  <2> QED
    BY <2>2 DEF Kinds
<1> QED
  BY <1>1, <1>2, <1>3, <1>4, <1>5, <1>6, <1>7, <1>8, Zenon DEF Next

-----------------------------------------------------------------------------
\* Unless two mounts were there at a time, no closed file was used, and the only
\* mount there may be has the file open, which is the one of its path.
Alone ==
    "overlap" \notin past =>
        /\ fault = FALSE
        /\ \A m, o \in Mount : Active(m) /\ Active(o) => m = o
        /\ \A m \in Mount : HasOpened(m) => storage_filp = m /\ handle[m] # NoFile
        /\ "no path" \notin past =>
              \A m \in Mount :
                 /\ mnt[m].at = "begun" => storage_path = mnt[m].wants
                 /\ HasOpened(m) => handle[m] = mnt[m].wants

Stages ==
    \A m \in Mount : mnt[m].at \in {"none", "begun", "failed", "gone"} \cup Opened

LEMMA InitIsAlone == Init => Shape /\ Stages /\ Alone
<1> SUFFICES ASSUME Init PROVE Shape /\ Stages /\ Alone
  OBVIOUS
<1>1. /\ DOMAIN mnt = Mount /\ DOMAIN handle = Mount
      /\ \A m \in Mount : mnt[m] = NoMount
      /\ fault = FALSE /\ exists \subseteq File
  BY DEF Init
<1>2. Shape
  BY <1>1, FieldsOfNoMount DEF Shape
<1>3. \A m \in Mount : mnt[m].at = "none"
  BY <1>1 DEF NoMount
<1>4. \A m \in Mount : ~Active(m) /\ ~HasOpened(m)
  BY <1>3 DEF Active, HasOpened
<1> QED
  BY <1>1, <1>2, <1>3, <1>4 DEF Alone, Stages

LEMMA KindsKeepStages ==
    ASSUME Stages, Kinds
    PROVE  Stages'
<1>1. CASE Quiet \/ Faults
  BY <1>1 DEF Quiet, Faults, Stages
<1>2. ASSUME NEW m \in Mount, Begins(m) \/ Opens(m) \/ OpenFails(m)
      PROVE  Stages'
  BY <1>2 DEF Begins, Opens, OpenFails, Goes, Stages, Opened
<1>3. ASSUME NEW m \in Mount, Proceeds(m) \/ Fails(m) \/ Closes(m)
      PROVE  Stages'
  BY <1>3 DEF Proceeds, Fails, Closes, Goes, Stages, Opened
<1> QED
  BY <1>1, <1>2, <1>3 DEF Kinds

\* One lemma for each kind of step.
LEMMA AloneQuiet ==
    ASSUME Shape, Alone, Quiet
    PROVE  Alone'
BY DEF Alone, Quiet, Active, HasOpened

LEMMA AloneBegins ==
    ASSUME Shape, Alone, NEW m \in Mount, Begins(m)
    PROVE  Alone'
<1> SUFFICES ASSUME "overlap" \notin past' PROVE Alone'
  BY DEF Alone
<1>1. PICK f \in File \cup {NoFile} :
        /\ mnt[m].at = "none"
        /\ Goes(m, "begun", f)
        /\ storage_path' = IF f = NoFile THEN storage_path ELSE f
        /\ UNCHANGED <<storage_filp, handle, fault>>
        /\ past \subseteq past'
        /\ f = NoFile => "no path" \in past'
        /\ (\E o \in Mount : Active(o)) => "overlap" \in past'
  BY DEF Begins
<1>2. \A o \in Mount : ~Active(o)
  BY <1>1
<1>3. \A o \in Mount : ~HasOpened(o) /\ mnt[o].at # "begun"
  BY <1>2 DEF Active, HasOpened
<1>4. \A o \in Mount : o # m => mnt'[o].at = mnt[o].at
  BY <1>1 DEF Goes
<1>5. mnt'[m].at = "begun" /\ mnt'[m].wants = f
  BY <1>1 DEF Goes
<1>6. \A o \in Mount : o # m => ~Active(o)' /\ ~HasOpened(o)' /\ mnt'[o].at # "begun"
  BY <1>2, <1>3, <1>4 DEF Active, HasOpened
<1>7. ~HasOpened(m)'
  BY <1>5 DEF HasOpened
<1>8. "no path" \notin past' => storage_path' = f
  BY <1>1
<1>9. fault' = FALSE
  BY <1>1 DEF Alone
<1> QED
  BY <1>5, <1>6, <1>7, <1>8, <1>9 DEF Alone

\* The only mount there is takes a step; the others are not there.
LEMMA OnlyOne ==
    ASSUME Alone, NEW m \in Mount, Active(m), "overlap" \notin past, NEW stage, NEW w,
           Goes(m, stage, w)
    PROVE  \A o \in Mount : o # m => /\ ~Active(o)' /\ ~HasOpened(o)'
                                     /\ mnt'[o].at # "begun"
<1>1. \A o \in Mount : o # m => ~Active(o)
  BY DEF Alone
<1>2. \A o \in Mount : o # m => mnt'[o].at = mnt[o].at
  BY DEF Goes
<1> QED
  BY <1>1, <1>2 DEF Active, HasOpened

LEMMA AloneOpens ==
    ASSUME Shape, Alone, NEW m \in Mount, Opens(m), NoFile \notin File
    PROVE  Alone'
<1> SUFFICES ASSUME "overlap" \notin past PROVE Alone'
  BY DEF Alone, Opens
<1>1. /\ mnt[m].at = "begun"
      /\ storage_path \in File
      /\ Goes(m, "opened", mnt[m].wants)
      /\ storage_filp' = m
      /\ handle'[m] = storage_path
      /\ UNCHANGED <<storage_path, past, fault>>
  BY DEF Opens, Shape
<1>2. Active(m)
  BY <1>1 DEF Active
<1>3. \A o \in Mount : o # m => ~Active(o)' /\ ~HasOpened(o)' /\ mnt'[o].at # "begun"
  BY <1>1, <1>2, OnlyOne
<1>4. mnt'[m].at = "opened" /\ mnt'[m].wants = mnt[m].wants
  BY <1>1 DEF Goes
<1>5. "no path" \notin past' => handle'[m] = mnt'[m].wants
  BY <1>1, <1>4 DEF Alone
<1>6. fault' = FALSE /\ handle'[m] # NoFile
  BY <1>1 DEF Alone
<1> QED
  BY <1>1, <1>3, <1>4, <1>5, <1>6 DEF Alone

LEMMA AloneEnds ==
    ASSUME Shape, Alone, NEW m \in Mount, OpenFails(m) \/ Fails(m) \/ Closes(m)
    PROVE  Alone'
<1> SUFFICES ASSUME "overlap" \notin past PROVE Alone'
  BY DEF Alone, OpenFails, Fails, Closes
<1>0. PICK stage \in {"failed", "gone"} : \E w : Goes(m, stage, w)
  BY DEF OpenFails, Fails, Closes
<1>1. PICK w : Goes(m, stage, w)
  BY <1>0
<1>2. Active(m)
  BY DEF OpenFails, Fails, Closes, Active, HasOpened
<1>3. \A o \in Mount : o # m => ~Active(o)' /\ ~HasOpened(o)' /\ mnt'[o].at # "begun"
  BY <1>1, <1>2, OnlyOne
<1>4. ~Active(m)' /\ ~HasOpened(m)' /\ mnt'[m].at # "begun"
  BY <1>1 DEF Goes, Active, HasOpened
<1>5. fault' = FALSE
  BY DEF Alone, OpenFails, Fails, Closes
<1> QED
  BY <1>3, <1>4, <1>5 DEF Alone

LEMMA AloneProceeds ==
    ASSUME Shape, Alone, NEW m \in Mount, Proceeds(m)
    PROVE  Alone'
<1>1. PICK stage \in Opened :
        /\ HasOpened(m)
        /\ Goes(m, stage, mnt[m].wants)
        /\ UNCHANGED <<storage_path, storage_filp, handle, fault>>
        /\ past \subseteq past'
  BY DEF Proceeds
<1> SUFFICES ASSUME "overlap" \notin past' PROVE Alone'
  BY DEF Alone
<1>2. Active(m) /\ "overlap" \notin past
  BY <1>1 DEF Active, HasOpened
<1>3. \A o \in Mount : o # m => ~Active(o)' /\ ~HasOpened(o)' /\ mnt'[o].at # "begun"
  BY <1>1, <1>2, OnlyOne
<1>4. mnt'[m].at # "begun" /\ mnt'[m].wants = mnt[m].wants
  BY <1>1 DEF Goes, Opened
<1>5. /\ fault' = FALSE
      /\ storage_filp' = m /\ handle'[m] # NoFile
      /\ "no path" \notin past' => handle'[m] = mnt'[m].wants
  BY <1>1, <1>2, <1>4 DEF Alone
<1> QED
  BY <1>3, <1>4, <1>5 DEF Alone

LEMMA AloneFaults ==
    ASSUME Alone, Faults
    PROVE  Alone'
<1>1. "overlap" \in past
  BY DEF Alone, Faults, FilpIsOpen
<1> QED
  BY <1>1 DEF Alone, Faults

LEMMA AloneIsInductive ==
    ASSUME Shape, Alone, [Next]_vars
    PROVE  Alone'
<1>1. Kinds
  BY EveryStepHasAKind
<1>2. NoFile \notin File
  BY MountsAssumption
<1> QED
  BY <1>1, <1>2, AloneQuiet, AloneBegins, AloneOpens, AloneEnds, AloneProceeds, AloneFaults, Zenon
     DEF Kinds

THEOREM MountsAreAlone == Spec => [](Shape /\ Stages /\ Alone)
<1>1. Init => Shape /\ Stages /\ Alone
  BY InitIsAlone
<1>2. Shape /\ Stages /\ Alone /\ [Next]_vars => (Shape /\ Stages /\ Alone)'
  BY EveryStepHasAKind, KindsKeepStages, AloneIsInductive
<1> QED
  BY <1>1, <1>2, PTL DEF Spec

\* A mount uses its own storage file, through a file that is open.
THEOREM MountsUseTheirOwnFile == Spec => []OwnFile
<1>1. Shape /\ Stages /\ Alone => OwnFile
  BY DEF Alone, OwnFile, FilpIsOpen, TheFile
<1> QED
  BY <1>1, MountsAreAlone, PTL

\* A file that is not open is used only when two mounts were there at a time.
THEOREM ClosedFilesAreNotUsed == Spec => []NoUseAfterClose
<1>1. Shape /\ Stages /\ Alone => NoUseAfterClose
  BY DEF Alone, NoUseAfterClose
<1> QED
  BY <1>1, MountsAreAlone, PTL

-----------------------------------------------------------------------------
\* Unless a mount failed with the file open, as many files are open as there are
\* mounts that have opened one - which may be the file of another mount.
OpenHandles == {m \in Mount : handle[m] # NoFile}
OpenedMounts == {m \in Mount : HasOpened(m)}

Balanced ==
    /\ \A m \in Mount : mnt[m].at \in {"none", "begun"} => handle[m] = NoFile
    /\ "failed open" \notin past => Cardinality(OpenHandles) = Cardinality(OpenedMounts)

LEMMA MountsAreFinite ==
    /\ IsFiniteSet(OpenHandles) /\ Cardinality(OpenHandles) \in Nat
    /\ IsFiniteSet(OpenedMounts) /\ Cardinality(OpenedMounts) \in Nat
<1>1. IsFiniteSet(Mount)
  BY FS_Interval, MountsAssumption DEF Mount
<1>2. OpenHandles \subseteq Mount /\ OpenedMounts \subseteq Mount
  BY DEF OpenHandles, OpenedMounts
<1>3. IsFiniteSet(OpenHandles) /\ IsFiniteSet(OpenedMounts)
  BY <1>1, <1>2, FS_Subset
<1> QED
  BY <1>3, FS_CardinalityType

LEMMA InitIsBalanced == Init => Balanced
<1> SUFFICES ASSUME Init PROVE Balanced
  OBVIOUS
<1>1. \A m \in Mount : mnt[m].at = "none" /\ handle[m] = NoFile
  BY DEF Init, NoMount
<1>2. OpenHandles = {}
  BY <1>1 DEF OpenHandles
<1>3. OpenedMounts = {}
  BY <1>1 DEF OpenedMounts, HasOpened
<1> QED
  BY <1>1, <1>2, <1>3 DEF Balanced

\* Steps that neither open nor close a file.
LEMMA BalancedStays ==
    ASSUME Balanced, handle' = handle, past \subseteq past',
           \A m \in Mount : HasOpened(m)' <=> HasOpened(m),
           \A m \in Mount : mnt'[m].at \in {"none", "begun"} =>
                                mnt[m].at \in {"none", "begun"}
    PROVE  Balanced'
<1>1. OpenHandles' = OpenHandles /\ OpenedMounts' = OpenedMounts
  BY DEF OpenHandles, OpenedMounts
<1> QED
  BY <1>1 DEF Balanced

LEMMA BalancedOpens ==
    ASSUME Shape, Balanced, NEW m \in Mount, Opens(m)
    PROVE  Balanced'
<1>1. /\ mnt[m].at = "begun" /\ mnt'[m].at = "opened"
      /\ \A o \in Mount : o # m => mnt'[o].at = mnt[o].at
      /\ storage_path # NoFile
      /\ past' = past
  BY MountsAssumption DEF Opens, Goes
<1>2. handle'[m] = storage_path /\ \A o \in Mount : o # m => handle'[o] = handle[o]
  BY DEF Opens, Shape
<1>3. handle[m] = NoFile
  BY <1>1 DEF Balanced
<1>4. m \notin OpenHandles /\ OpenHandles' = OpenHandles \cup {m}
  BY <1>1, <1>2, <1>3 DEF OpenHandles
<1>5. m \notin OpenedMounts /\ OpenedMounts' = OpenedMounts \cup {m}
  BY <1>1 DEF OpenedMounts, HasOpened
<1>6. Cardinality(OpenHandles') = Cardinality(OpenHandles) + 1
  BY <1>4, MountsAreFinite, FS_AddElement
<1>7. Cardinality(OpenedMounts') = Cardinality(OpenedMounts) + 1
  BY <1>5, MountsAreFinite, FS_AddElement
<1>8. \A o \in Mount : mnt'[o].at \in {"none", "begun"} => handle'[o] = NoFile
  BY <1>1, <1>2 DEF Balanced
<1> QED
  BY <1>1, <1>6, <1>7, <1>8 DEF Balanced

LEMMA BalancedCloses ==
    ASSUME Shape, Balanced, NEW m \in Mount, Closes(m)
    PROVE  Balanced'
<1>1. /\ HasOpened(m) /\ mnt'[m].at \in {"failed", "gone"}
      /\ \A o \in Mount : o # m => mnt'[o].at = mnt[o].at
      /\ past' = past
  BY DEF Closes, Goes
<1>2. storage_filp \in Mount /\ handle[storage_filp] # NoFile
  BY DEF Closes, FilpIsOpen
<1>3. /\ handle'[storage_filp] = NoFile
      /\ \A o \in Mount : o # storage_filp => handle'[o] = handle[o]
  <2>1. handle' = [handle EXCEPT ![storage_filp] = NoFile]
    BY DEF Closes
  <2>2. DOMAIN handle = Mount
    BY DEF Shape
  <2> QED
    BY <1>2, <2>1, <2>2
<1>4. storage_filp \in OpenHandles /\ OpenHandles' = OpenHandles \ {storage_filp}
  BY <1>2, <1>3 DEF OpenHandles
<1>5. m \in OpenedMounts /\ OpenedMounts' = OpenedMounts \ {m}
  BY <1>1 DEF OpenedMounts, HasOpened
<1>6. Cardinality(OpenHandles') = Cardinality(OpenHandles) - 1
  BY <1>4, MountsAreFinite, FS_RemoveElement
<1>7. Cardinality(OpenedMounts') = Cardinality(OpenedMounts) - 1
  BY <1>5, MountsAreFinite, FS_RemoveElement
<1>8. \A o \in Mount : mnt'[o].at \in {"none", "begun"} => handle'[o] = NoFile
  BY <1>1, <1>3 DEF Balanced
<1> QED
  BY <1>1, <1>6, <1>7, <1>8 DEF Balanced

LEMMA BalancedIsInductive ==
    ASSUME Shape, Balanced, [Next]_vars
    PROVE  Balanced'
<1>0. Kinds
  BY EveryStepHasAKind
<1>1. CASE Quiet \/ Faults
  <2>1. handle' = handle /\ past \subseteq past'
    BY <1>1 DEF Quiet, Faults
  <2>2. \A m \in Mount : mnt'[m].at = mnt[m].at
    BY <1>1 DEF Quiet, Faults
  <2> QED
    BY <2>1, <2>2, BalancedStays DEF HasOpened
<1>2. ASSUME NEW m \in Mount, Begins(m) \/ OpenFails(m) \/ Proceeds(m)
      PROVE  Balanced'
  <2>1. handle' = handle /\ past \subseteq past'
    BY <1>2 DEF Begins, OpenFails, Proceeds
  <2>2. /\ HasOpened(m)' <=> HasOpened(m)
        /\ mnt'[m].at \in {"none", "begun"} => mnt[m].at \in {"none", "begun"}
    BY <1>2 DEF Begins, OpenFails, Proceeds, Goes, HasOpened, Opened
  <2>3. \A o \in Mount : o # m => mnt'[o].at = mnt[o].at
    BY <1>2 DEF Begins, OpenFails, Proceeds, Goes
  <2>4. \A o \in Mount : HasOpened(o)' <=> HasOpened(o)
    BY <2>2, <2>3 DEF HasOpened
  <2>5. \A o \in Mount : mnt'[o].at \in {"none", "begun"} => mnt[o].at \in {"none", "begun"}
    BY <2>2, <2>3
  <2> QED
    BY <2>1, <2>4, <2>5, BalancedStays
<1>3. ASSUME NEW m \in Mount, Fails(m)
      PROVE  Balanced'
  <2>1. \A o \in Mount : mnt'[o].at \in {"none", "begun"} => handle'[o] = NoFile
    BY <1>3 DEF Fails, Goes, Balanced
  <2>2. "failed open" \in past'
    BY <1>3 DEF Fails
  <2> QED
    BY <2>1, <2>2 DEF Balanced
<1>4. ASSUME NEW m \in Mount, Opens(m) \/ Closes(m)
      PROVE  Balanced'
  BY <1>4, BalancedOpens, BalancedCloses, Zenon
<1> QED
  BY <1>0, <1>1, <1>2, <1>3, <1>4, Zenon DEF Kinds

\* When nothing is mounted no storage file is open, unless a mount failed with
\* it open - also when mounts overlapped and closed each other's file.
THEOREM NoFileIsLeftOpen == Spec => []NoFileLeftOpen
<1>1. Init => Shape /\ Balanced
  BY InitIsAlone, InitIsBalanced
<1>2. Shape /\ Balanced /\ [Next]_vars => (Shape /\ Balanced)'
  BY EveryStepHasAKind, BalancedIsInductive
<1>3. Shape /\ Balanced => NoFileLeftOpen
  <2> SUFFICES ASSUME Balanced, \A m \in Mount : ~Active(m), "failed open" \notin past
               PROVE  \A m \in Mount : handle[m] = NoFile
    BY DEF NoFileLeftOpen
  <2>1. OpenedMounts = {}
    BY DEF OpenedMounts, Active, HasOpened
  <2>2. Cardinality(OpenHandles) = 0
    BY <2>1, FS_EmptySet DEF Balanced
  <2>3. OpenHandles = {}
    BY <2>2, MountsAreFinite, FS_EmptySet
  <2> QED
    BY <2>3 DEF OpenHandles
<1> QED
  BY <1>1, <1>2, <1>3, PTL DEF Spec

-----------------------------------------------------------------------------
(***************************************************************************)
(* What is read from and written to the storage files.  The areas of every *)
(* size up to MaxGB are in place when no offset in front of the data       *)
(* exceeds 32 bits, which is so for every size of the program.             *)
(***************************************************************************)

AreasInPlace ==
    /\ \A b \in 0 .. DataStart(MaxGB) : At(b) = b
    /\ \A n \in 0 .. MaxGB :
          /\ FileTableSize(n) \in Nat
          /\ BlockBitmapSize(n) \in Nat
          /\ BlockBitmapStart(n) = 1 + FileTableSize(n)
          /\ DataStart(n) = 1 + FileTableSize(n) + BlockBitmapSize(n)
          /\ DataStart(n) <= DataStart(MaxGB)

\* In front of the data of the largest storage every block is at its place.
LEMMA FrontInPlace ==
    ASSUME RealSizes, NEW b \in Nat, b <= 344044
    PROVE  At(b) = b
<1>1. (b * 4096) % 4294967296 = b * 4096
  BY SMT
<1>2. (b * 4096) \div 4096 = b
  BY SMT
<1> QED
  BY <1>1, <1>2, SMT DEF At, RealSizes

\* The areas of every size of the program are in place.
THEOREM RealAreasAreInPlace ==
    ASSUME RealSizes, MaxGB \in Sizes
    PROVE  AreasInPlace
<1>0. MaxGB \in Nat /\ 1 <= MaxGB /\ MaxGB <= 16383
  BY DEF Sizes
<1>1. \A n \in 1 .. MaxGB :
        /\ FileTableSize(n) = 13 * n
        /\ BlockBitmapSize(n) = 8 * n
        /\ BlockBitmapStart(n) = 1 + 13 * n
        /\ DataStart(n) = 1 + 21 * n
  <2>1. \A n \in 1 .. MaxGB : n \in Nat /\ 1 <= n /\ n <= 16383
    BY <1>0, SMT
  <2>2. \A n \in Sizes : SuperblockOf(n)
    BY FieldsOfSuperblock, Zenon
  <2> QED
    BY <2>1, <2>2 DEF SuperblockOf, Sizes
<1>2. /\ FileTableSize(0) = 0 /\ BlockBitmapSize(0) = 0
      /\ BlockBitmapStart(0) = 1 /\ DataStart(0) = 1
  <2>1. TotalBlocks(0) = 0 /\ MaxFileCount(0) = 0
    BY SMT DEF TotalBlocks, MaxFileCount, RealSizes
  <2>2. FileTableSize(0) = 0 /\ BlockBitmapSize(0) = 0
    BY <2>1, SMT DEF FileTableSize, BlockBitmapSize, RealSizes
  <2>3. BlockBitmapStart(0) = 1
    BY <2>2, SMT DEF BlockBitmapStart, FileTableStart, RealSizes
  <2> QED
    BY <2>2, <2>3, SMT DEF DataStart, RealSizes
<1>4. DataStart(MaxGB) = 1 + 21 * MaxGB
  <2>1. SuperblockOf(MaxGB)
    BY FieldsOfSuperblock, Zenon
  <2> QED
    BY <2>1, SMT DEF SuperblockOf
<1>5. \A b \in 0 .. DataStart(MaxGB) : At(b) = b
  <2>1. \A b \in 0 .. (1 + 21 * MaxGB) : b \in Nat /\ b <= 344044
    BY <1>0, SMT
  <2> QED
    BY <1>4, <2>1, FrontInPlace, SMT
<1>6. ASSUME NEW n \in 0 .. MaxGB
      PROVE  /\ FileTableSize(n) \in Nat
             /\ BlockBitmapSize(n) \in Nat
             /\ BlockBitmapStart(n) = 1 + FileTableSize(n)
             /\ DataStart(n) = 1 + FileTableSize(n) + BlockBitmapSize(n)
             /\ DataStart(n) <= DataStart(MaxGB)
  <2>1. CASE n = 0
    BY <1>0, <1>2, <1>4, <2>1, SMT
  <2>2. CASE n # 0
    <3>1. n \in 1 .. MaxGB
      BY <1>0, <1>6, <2>2, SMT
    <3>2. /\ FileTableSize(n) = 13 * n /\ BlockBitmapSize(n) = 8 * n
          /\ BlockBitmapStart(n) = 1 + 13 * n /\ DataStart(n) = 1 + 21 * n
      BY <1>1, <3>1
    <3> QED
      BY <1>0, <1>4, <3>1, <3>2, SMT
  <2> QED
    BY <2>1, <2>2
<1> QED
  BY <1>5, <1>6, Zenon DEF AreasInPlace

\* Where the areas of a storage are.
LEMMA PlacesOfAreas ==
    ASSUME AreasInPlace, NEW n \in 0 .. MaxGB
    PROVE  /\ 0 \in Area
           /\ FileTableSize(n) \in Nat /\ BlockBitmapSize(n) \in Nat
           /\ BlockBitmapStart(n) = 1 + FileTableSize(n)
           /\ DataStart(n) = 1 + FileTableSize(n) + BlockBitmapSize(n)
           /\ 0 .. (DataStart(n) - 1) \subseteq Area
           /\ At(FileTableStart) = 1
           /\ At(BlockBitmapStart(n)) = 1 + FileTableSize(n)
           /\ At(DataStart(n)) = DataStart(n)
<1> DEFINE t == FileTableSize(n)
           s == BlockBitmapSize(n)
           d == DataStart(MaxGB)
<1>1. /\ t \in Nat /\ s \in Nat
      /\ BlockBitmapStart(n) = 1 + t /\ DataStart(n) = 1 + t + s /\ 1 + t + s <= d
      /\ \A b \in 0 .. d : At(b) = b
  BY Zenon DEF AreasInPlace
<1>2. d \in Nat
  <2>1. MaxGB \in 0 .. MaxGB
    BY MountsAssumption
  <2> QED
    BY <2>1, SMT DEF AreasInPlace
<1>3. Area = 0 .. (d - 1)
  BY DEF Area
<1> HIDE DEF t, s, d
<1>4. 0 \in Area /\ 0 .. (1 + t + s - 1) \subseteq Area
  BY <1>1, <1>2, <1>3, SMT
<1>5. At(1) = 1 /\ At(1 + t) = 1 + t
  BY <1>1, <1>2, SMT
<1>6. At(1 + t + s) = 1 + t + s
  BY <1>1, <1>2, SMT
<1> QED
  BY <1>1, <1>4, <1>5, <1>6 DEF FileTableStart, t, s

\* The first blocks of the table and of the bitmap.
LEMMA RunsOfAreas ==
    ASSUME AreasInPlace, NEW n \in 0 .. MaxGB
    PROVE  /\ \A t \in Nat : Run(FileTableStart, t) = 1 .. t
           /\ \A s \in Nat : Run(BlockBitmapStart(n), s) =
                               (1 + FileTableSize(n)) .. (FileTableSize(n) + s)
<1>1. /\ At(FileTableStart) = 1 /\ At(BlockBitmapStart(n)) = 1 + FileTableSize(n)
      /\ FileTableSize(n) \in Nat
  BY PlacesOfAreas, Zenon
<1>2. \A t \in Nat : 1 + t - 1 = t /\ 1 + FileTableSize(n) + t - 1 = FileTableSize(n) + t
  BY <1>1, SMT
<1> QED
  BY <1>1, <1>2 DEF Run

-----------------------------------------------------------------------------
\* The types of the variables, one part for each group of them.
FilesTyped ==
    /\ exists \subseteq File
    /\ DOMAIN block = File
    /\ \A f \in File : DOMAIN block[f] = Area /\ \A b \in Area : block[f][b] \in Contents

ToolTyped ==
    /\ DOMAIN tool = {"at", "n"}
    /\ tool.at \in {"idle", "super", "table", "bitmap"} /\ tool.n \in 0 .. MaxGB
    /\ formats \in 0 .. MaxFormats

PathsTyped ==
    /\ storage_path \in File \cup {NoFile}
    /\ storage_filp \in Mount \cup {NullFilp, ErrFilp}
    /\ handle \in [Mount -> File \cup {NoFile}]

HasRead == {"super", "table", "bitmap", "up", "synced"}

GoodMount(r) ==
    /\ DOMAIN r = Fields
    /\ r.at \in {"none", "begun", "opened", "super", "table", "bitmap", "up", "synced",
                 "failed", "gone"}
    /\ r.wants \in File \cup {NoFile}
    /\ r.n \in {Unread, Junk} \cup 0 .. MaxGB
    /\ r.mixed \in BOOLEAN
    /\ r.at \in HasRead => r.n # Unread

MountsTyped == DOMAIN mnt = Mount /\ \A m \in Mount : GoodMount(mnt[m])

HistoryTyped ==
    /\ events \in 0 .. MaxEvents
    /\ torn \subseteq File
    /\ past \subseteq {"overlap", "no path", "failed open", "format failed",
                       "formatted in use", "wrapped"}
    /\ fault \in BOOLEAN

Typed == FilesTyped /\ ToolTyped /\ PathsTyped /\ MountsTyped /\ HistoryTyped

LEMMA TypedImplies == Typed => TypeOK /\ Shape
<1> SUFFICES ASSUME Typed PROVE TypeOK /\ Shape
  OBVIOUS
<1>1. TypeOK
  BY DEF Typed, FilesTyped, ToolTyped, PathsTyped, MountsTyped, HistoryTyped, GoodMount, TypeOK
<1>2. Shape
  BY DEF Typed, FilesTyped, PathsTyped, MountsTyped, GoodMount, Shape
<1> QED
  BY <1>1, <1>2

LEMMA ContentsOfBlocks ==
    /\ Eof \in Contents /\ Zero \in Contents /\ Data \in Contents
    /\ \A n \in 0 .. MaxGB : Super(n) \in Contents
    /\ \A m \in Mount, i \in Area : Table(m, i) \in Contents /\ Bits(m, i) \in Contents
BY DEF Contents

LEMMA InitIsTyped ==
    ASSUME AreasInPlace, Init
    PROVE  Typed
<1>1. FilesTyped
  <2>1. exists \subseteq File /\ DOMAIN block = File
    BY DEF Init
  <2>2. ASSUME NEW f \in File
        PROVE  DOMAIN block[f] = Area /\ \A b \in Area : block[f][b] \in Contents
    <3>1. block[f] = Formatted(1) \/ block[f] = [b \in Area |-> Eof]
      BY <2>2 DEF Init
    <3>2. 1 \in 0 .. MaxGB
      BY MountsAssumption, SMT
    <3>3. Super(1) \in Contents
      BY <3>2, ContentsOfBlocks
    <3> QED
      BY <3>1, <3>3, ContentsOfBlocks DEF Formatted
  <2> QED
    BY <2>1, <2>2 DEF FilesTyped
<1>2. ToolTyped
  BY MountsAssumption DEF Init, ToolTyped, ToolIdle
<1>3. PathsTyped
  BY DEF Init, PathsTyped
<1>4. MountsTyped
  <2>1. GoodMount(NoMount)
    BY DEF GoodMount, NoMount, Fields, HasRead
  <2> QED
    BY <2>1 DEF Init, MountsTyped
<1>5. HistoryTyped
  <2>1. /\ events = 0 /\ torn = {} /\ past = {} /\ fault = FALSE /\ 0 \in 0 .. MaxEvents
        /\ {} \subseteq File
    BY MountsAssumption DEF Init
  <2> QED
    BY <2>1, Zenon DEF HistoryTyped
<1> QED
  BY <1>1, <1>2, <1>3, <1>4, <1>5 DEF Typed

-----------------------------------------------------------------------------
\* What a write changes.
LEMMA Written ==
    ASSUME FilesTyped, NEW f \in File, NEW new, Write(f, new)
    PROVE  /\ DOMAIN block' = File
           /\ \A g \in File : g # f => block'[g] = block[g]
           /\ DOMAIN block'[f] = Area
           /\ \A b \in Area : block'[f][b] = IF b \in DOMAIN new THEN new[b] ELSE block[f][b]
BY DEF Write, FilesTyped

LEMMA WritesAreTyped ==
    ASSUME FilesTyped, NEW f \in File, NEW new, Write(f, new), exists' \subseteq File,
           \A b \in Area : b \in DOMAIN new => new[b] \in Contents
    PROVE  FilesTyped'
<1>1. /\ DOMAIN block' = File
      /\ \A g \in File : g # f => block'[g] = block[g]
      /\ DOMAIN block'[f] = Area
      /\ \A b \in Area : block'[f][b] = IF b \in DOMAIN new THEN new[b] ELSE block[f][b]
  BY Written, Zenon
<1>2. \A b \in Area : block'[f][b] \in Contents
  BY <1>1 DEF FilesTyped
<1>3. ASSUME NEW g \in File
      PROVE  DOMAIN block'[g] = Area /\ \A b \in Area : block'[g][b] \in Contents
  BY <1>1, <1>2, <1>3 DEF FilesTyped
<1>4. Area' = Area /\ Contents' = Contents
  BY DEF Area, Contents, Mount, Eof, Zero, Data, Super, Table, Bits
<1> QED
  BY <1>1, <1>3, <1>4 DEF FilesTyped

\* Except where its list goes, `new` is superblock, table and bitmap of mount m.
AreOfMount(new, m, n, t, s, list) ==
    /\ DOMAIN new = {0} \cup (1 .. t)
         \cup ((1 + FileTableSize(n)) .. (FileTableSize(n) + s)) \cup list
    /\ 0 \notin list => new[0] = Super(n)
    /\ \A i \in 0 .. (t - 1) : 1 + i \notin list => new[1 + i] = Table(m, i)
    /\ \A i \in 0 .. (s - 1) :
          1 + FileTableSize(n) + i \notin list => new[1 + FileTableSize(n) + i] = Bits(m, i)
    /\ \A b \in DOMAIN new : new[b] \in Contents

\* What a sync writes is what its mount has in memory.
LEMMA SyncedBlocksAreContents ==
    ASSUME AreasInPlace, NEW n \in 0 .. MaxGB, NEW m \in Mount,
           NEW t \in 0 .. FileTableSize(n), NEW s \in 0 .. BlockBitmapSize(n), NEW list
    PROVE  AreOfMount(SyncedBlocks(m, n, t, s, list), m, n, t, s, list)
<1> DEFINE T == FileTableSize(n)
           S == BlockBitmapSize(n)
           D == {0} \cup (1 .. t) \cup ((1 + T) .. (T + s)) \cup list
           new == SyncedBlocks(m, n, t, s, list)
<1>1. /\ T \in Nat /\ S \in Nat /\ DataStart(n) = 1 + T + S
      /\ 0 .. (DataStart(n) - 1) \subseteq Area
      /\ At(FileTableStart) = 1 /\ At(BlockBitmapStart(n)) = 1 + T
  BY PlacesOfAreas, Zenon
<1>2. t \in Nat /\ s \in Nat /\ t <= T /\ s <= S
  BY <1>1, SMT
<1>3. Run(FileTableStart, t) = 1 .. t /\ Run(BlockBitmapStart(n), s) = (1 + T) .. (T + s)
  BY <1>2, RunsOfAreas
<1>4. new = [b \in D |->
               IF b \in list THEN Data
               ELSE IF b \in (1 + T) .. (T + s) THEN Bits(m, b - (1 + T))
               ELSE IF b \in 1 .. t THEN Table(m, b - 1) ELSE Super(n)]
  BY <1>1, <1>3 DEF SyncedBlocks
<1> HIDE DEF T, S, new
<1>5. 0 \notin 1 .. t /\ 0 \notin (1 + T) .. (T + s)
  BY <1>1, <1>2, SMT
<1>6. 0 \notin list => new[0] = Super(n)
  BY <1>4, <1>5
<1>7. ASSUME NEW i \in 0 .. (t - 1)
      PROVE  (1 + i \notin list => new[1 + i] = Table(m, i)) /\ i \in Area
  <2>1. /\ 1 + i \in 1 .. t /\ 1 + i \notin (1 + T) .. (T + s)
        /\ 1 + i - 1 = i /\ i \in 0 .. (1 + T + S - 1)
    BY <1>1, <1>2, <1>7, SMT
  <2> QED
    BY <1>1, <1>4, <2>1
<1>8. ASSUME NEW i \in 0 .. (s - 1)
      PROVE  (1 + T + i \notin list => new[1 + T + i] = Bits(m, i)) /\ i \in Area
  <2>1. 1 + T + i \in (1 + T) .. (T + s) /\ i \in 0 .. (1 + T + S - 1)
    BY <1>1, <1>2, <1>8, SMT
  <2>2. (1 + T + i) - (1 + T) = i
    BY <1>1, <1>8, SMT
  <2>3. 1 + T + i \notin list => new[1 + T + i] = Bits(m, (1 + T + i) - (1 + T))
    BY <1>4, <2>1, Zenon
  <2>4. i \in Area
    BY <1>1, <2>1
  <2>5. Bits(m, (1 + T + i) - (1 + T)) = Bits(m, i)
    BY <2>2 DEF Bits
  <2> QED
    BY <2>3, <2>4, <2>5
<1>9. ASSUME NEW b \in D
      PROVE  new[b] \in Contents
  <2>1. CASE b \in list
    BY <1>4, <2>1, ContentsOfBlocks
  <2>2. CASE b = 0 /\ b \notin list
    BY <1>6, <2>2, ContentsOfBlocks
  <2>3. CASE b \in 1 .. t /\ b \notin list
    <3>1. b - 1 \in 0 .. (t - 1) /\ 1 + (b - 1) = b
      BY <1>2, <2>3, SMT
    <3> QED
      BY <1>7, <2>3, <3>1, ContentsOfBlocks
  <2>4. CASE b \in (1 + T) .. (T + s) /\ b \notin list
    <3>1. b - 1 - T \in 0 .. (s - 1) /\ 1 + T + (b - 1 - T) = b
      BY <1>1, <1>2, <2>4, SMT
    <3> QED
      BY <1>8, <2>4, <3>1, ContentsOfBlocks
  <2> QED
    BY <1>9, <2>1, <2>2, <2>3, <2>4
<1>10. DOMAIN new = D
  BY <1>4
<1> QED
  BY <1>6, <1>7, <1>8, <1>9, <1>10 DEF T, new, AreOfMount

-----------------------------------------------------------------------------
LEMMA FilesStayTyped ==
    ASSUME FilesTyped, UNCHANGED block, exists' \subseteq File
    PROVE  FilesTyped'
BY DEF FilesTyped, Area, Contents, Mount, Eof, Zero, Data, Super, Table, Bits

LEMMA TheFileIsAFile ==
    ASSUME PathsTyped, FilpIsOpen
    PROVE  TheFile \in File
BY DEF PathsTyped, FilpIsOpen, TheFile

\* The tool writes zeroes and superblocks.
LEMMA ToolKeepsFilesTyped ==
    ASSUME Typed,
           \/ \E n \in 0 .. MaxGB : CreateFile(n)
           \/ CreateFileFails \/ FormatGivesUp
           \/ WriteSuperblock \/ WriteFileTable \/ WriteBlockBitmap
    PROVE  FilesTyped'
<1>0. FilesTyped /\ tool.n \in 0 .. MaxGB /\ StorageFile \in File
  BY MountsAssumption DEF Typed, ToolTyped
<1>1. CASE \E n \in 0 .. MaxGB : CreateFile(n)
  <2>1. PICK n \in 0 .. MaxGB : CreateFile(n)
    BY <1>1
  <2> DEFINE new == [b \in Area |-> IF n = 0 THEN Eof
                                    ELSE IF block[StorageFile][b] = Eof THEN Zero
                                    ELSE block[StorageFile][b]]
  <2>2. Write(StorageFile, new) /\ exists' = exists \cup {StorageFile}
    BY <2>1 DEF CreateFile
  <2>3. \A b \in Area : new[b] \in Contents
    BY <1>0, ContentsOfBlocks DEF FilesTyped
  <2> HIDE DEF new
  <2> QED
    BY <1>0, <2>2, <2>3, WritesAreTyped DEF FilesTyped
<1>2. CASE CreateFileFails \/ FormatGivesUp
  <2>1. UNCHANGED block /\ (exists' = exists \/ exists' = exists \cup {StorageFile})
    BY <1>2 DEF CreateFileFails, FormatGivesUp, FormatStep
  <2> QED
    BY <1>0, <2>1, FilesStayTyped DEF FilesTyped
<1>3. CASE WriteSuperblock
  <2>1. PICK written \in BOOLEAN :
          /\ FormatStep("super", "table", ~written)
          /\ Write(StorageFile, [b \in {c \in {0} : written} |-> Super(tool.n)])
    BY <1>3 DEF WriteSuperblock
  <2> DEFINE new == [b \in {c \in {0} : written} |-> Super(tool.n)]
  <2>2. \A b \in Area : b \in DOMAIN new => new[b] \in Contents
    BY <1>0, ContentsOfBlocks
  <2>3. exists' = exists
    BY <2>1 DEF FormatStep
  <2>4. Write(StorageFile, new)
    BY <2>1
  <2> HIDE DEF new
  <2> QED
    BY <1>0, <2>2, <2>3, <2>4, WritesAreTyped DEF FilesTyped
<1>4. ASSUME NEW here, NEW next, NEW start, NEW size, WriteZeroes(here, next, start, size)
      PROVE  FilesTyped'
  <2>1. PICK k \in 0 .. size :
          /\ FormatStep(here, next, k < size)
          /\ Write(StorageFile, [b \in At(start) .. (At(start) + k - 1) |-> Zero])
    BY <1>4 DEF WriteZeroes
  <2> DEFINE new == [b \in At(start) .. (At(start) + k - 1) |-> Zero]
  <2>2. \A b \in Area : b \in DOMAIN new => new[b] \in Contents
    BY ContentsOfBlocks
  <2>3. exists' = exists
    BY <2>1 DEF FormatStep
  <2>4. Write(StorageFile, new)
    BY <2>1
  <2> HIDE DEF new
  <2> QED
    BY <1>0, <2>2, <2>3, <2>4, WritesAreTyped DEF FilesTyped
<1>5. CASE WriteFileTable
  BY <1>4, <1>5 DEF WriteFileTable
<1>6. CASE WriteBlockBitmap
  BY <1>4, <1>6 DEF WriteBlockBitmap
<1> QED
  BY <1>1, <1>2, <1>3, <1>5, <1>6, Zenon

\* Calls write data, and a sync what it has to.
LEMMA MountsKeepFilesTyped ==
    ASSUME AreasInPlace, Typed, NEW m \in Mount,
           WriteData(m) \/ SyncFs(m) \/ Unmount(m)
    PROVE  FilesTyped'
<1>0. FilesTyped /\ GoodMount(mnt[m])
  BY DEF Typed, MountsTyped
<1>1. CASE WriteData(m)
  <2>1. PICK place : Write(TheFile, [c \in {place} |-> Data])
    BY <1>1 DEF WriteData
  <2>2. exists' = exists /\ TheFile \in File
    BY <1>1, TheFileIsAFile DEF WriteData, Step, Typed
  <2> DEFINE new == [c \in {place} |-> Data]
  <2>3. \A c \in Area : c \in DOMAIN new => new[c] \in Contents
    BY ContentsOfBlocks
  <2>4. Write(TheFile, new)
    BY <2>1
  <2>5. PICK f \in File : f = TheFile
    BY <2>2
  <2> HIDE DEF new
  <2> QED
    BY <1>0, <2>2, <2>3, <2>4, <2>5, WritesAreTyped DEF FilesTyped
<1>2. ASSUME NEW next, Sync(m, "up", next)
      PROVE  FilesTyped'
  <2>1. exists' = exists /\ TheFile \in File /\ mnt[m].at = "up"
    BY <1>2, TheFileIsAFile DEF Sync, Step, Uses, Typed
  <2>2. mnt[m].n = Junk \/ mnt[m].n \in 0 .. MaxGB
    BY <1>0, <2>1 DEF GoodMount, HasRead
  <2>3. PICK f \in File : f = TheFile
    BY <2>1
  <2>4. ASSUME NEW new, Write(TheFile, new),
               \A c \in Area : c \in DOMAIN new => new[c] \in Contents
        PROVE  FilesTyped'
    BY <1>0, <2>1, <2>3, <2>4, WritesAreTyped DEF FilesTyped
  <2>5. CASE SyncNothing
    BY <1>0, <2>1, <2>5, FilesStayTyped DEF SyncNothing, FilesTyped
  <2>6. CASE SyncJunk
    <3> DEFINE new == [b \in Area |-> Data]
    <3>1. Write(TheFile, new)
      BY <2>6 DEF SyncJunk
    <3>2. \A c \in Area : c \in DOMAIN new => new[c] \in Contents
      BY ContentsOfBlocks
    <3> HIDE DEF new
    <3> QED
      BY <2>4, <3>1, <3>2
  <2>7. CASE mnt[m].n # Junk /\ SyncMetadata(m, mnt[m].n)
    <3>1. PICK n \in 0 .. MaxGB : n = mnt[m].n
      BY <2>2, <2>7
    <3>2. PICK t \in 0 .. FileTableSize(n), s \in 0 .. BlockBitmapSize(n) :
             \E list : Write(TheFile, SyncedBlocks(m, n, t, s, list))
      BY <2>7, <3>1 DEF SyncMetadata, SyncList
    <3>3. PICK list : Write(TheFile, SyncedBlocks(m, n, t, s, list))
      BY <3>2
    <3> DEFINE new == SyncedBlocks(m, n, t, s, list)
    <3>4. \A c \in DOMAIN new : new[c] \in Contents
      BY SyncedBlocksAreContents DEF AreOfMount
    <3>5. Write(TheFile, new)
      BY <3>3
    <3> HIDE DEF new
    <3> QED
      BY <2>4, <3>4, <3>5
  <2> QED
    BY <1>2, <2>5, <2>6, <2>7 DEF Sync
<1> QED
  BY <1>1, <1>2 DEF SyncFs, Unmount

LEMMA FilesTypedIsInductive ==
    ASSUME AreasInPlace, Typed, [Next]_vars
    PROVE  FilesTyped'
<1>1. CASE UNCHANGED host
  BY <1>1, FilesStayTyped DEF host, Typed, FilesTyped
<1>2. ASSUME NEW m \in Mount,
             \/ \E f \in File \cup {NoFile} : BeginMount(m, f)
             \/ OpenStorage(m) \/ ReadSuperblock(m) \/ ReadFileTable(m) \/ ReadBlockBitmap(m)
             \/ MakeRoot(m) \/ MountFails(m) \/ RootFails(m) \/ PutSuper(m)
      PROVE  UNCHANGED host
  BY <1>2 DEF BeginMount, OpenStorage, ReadSuperblock, ReadFileTable, ReadBlockBitmap,
              MakeRoot, MountFails, RootFails, PutSuper
<1>3. UseOfClosedFile \/ UNCHANGED vars => UNCHANGED host
  BY DEF UseOfClosedFile, vars
<1> QED
  BY <1>1, <1>2, <1>3, ToolKeepsFilesTyped, MountsKeepFilesTyped, Zenon DEF Next

LEMMA ToolTypedIsInductive ==
    ASSUME Typed, [Next]_vars
    PROVE  ToolTyped'
<1>0. ToolTyped
  BY DEF Typed
<1>1. CASE UNCHANGED user
  BY <1>0, <1>1 DEF ToolTyped, user
<1>2. ASSUME NEW n \in 0 .. MaxGB, CreateFile(n)
      PROVE  ToolTyped'
  <2>1. tool' = [at |-> "super", n |-> n] /\ formats < MaxFormats /\ formats' = formats + 1
    BY <1>2 DEF CreateFile
  <2>2. formats' \in 0 .. MaxFormats
    BY <1>0, <2>1, MountsAssumption, SMT DEF ToolTyped
  <2> QED
    BY <1>2, <2>1, <2>2 DEF ToolTyped
<1>3. CASE CreateFileFails
  <2>1. tool' = tool /\ formats < MaxFormats /\ formats' = formats + 1
    BY <1>3 DEF CreateFileFails
  <2>2. formats' \in 0 .. MaxFormats
    BY <1>0, <2>1, MountsAssumption, SMT DEF ToolTyped
  <2> QED
    BY <1>0, <2>1, <2>2 DEF ToolTyped
<1>4. ASSUME NEW here, NEW next \in {"idle", "table", "bitmap"}, NEW harm,
             FormatStep(here, next, harm)
      PROVE  ToolTyped'
  BY <1>0, <1>4 DEF ToolTyped, FormatStep
<1>5. CASE FormatGivesUp \/ WriteSuperblock \/ WriteFileTable \/ WriteBlockBitmap
  BY <1>4, <1>5 DEF FormatGivesUp, WriteSuperblock, WriteFileTable, WriteBlockBitmap, WriteZeroes
<1>6. ASSUME NEW m \in Mount,
             \/ \E f \in File \cup {NoFile} : BeginMount(m, f)
             \/ OpenStorage(m) \/ ReadSuperblock(m) \/ ReadFileTable(m) \/ ReadBlockBitmap(m)
             \/ MakeRoot(m) \/ MountFails(m) \/ RootFails(m) \/ WriteData(m)
             \/ SyncFs(m) \/ Unmount(m) \/ PutSuper(m)
      PROVE  UNCHANGED user
  BY <1>6 DEF BeginMount, OpenStorage, ReadSuperblock, ReadFileTable, ReadBlockBitmap,
              MakeRoot, MountFails, RootFails, WriteData, SyncFs, Unmount, Sync, PutSuper, Step
<1>7. UseOfClosedFile \/ UNCHANGED vars => UNCHANGED user
  BY DEF UseOfClosedFile, vars
<1> QED
  BY <1>1, <1>2, <1>3, <1>5, <1>6, <1>7, Zenon DEF Next

LEMMA PathsTypedIsInductive ==
    ASSUME Typed, [Next]_vars
    PROVE  PathsTyped'
<1>0. PathsTyped /\ exists \subseteq File /\ Mount' = Mount
  BY DEF Typed, FilesTyped, Mount
<1>1. CASE UNCHANGED <<storage_path, storage_filp, handle>>
  BY <1>0, <1>1 DEF PathsTyped, NullFilp, ErrFilp
<1>2. CASE \/ \E n \in 0 .. MaxGB : CreateFile(n)
           \/ CreateFileFails \/ FormatGivesUp
           \/ WriteSuperblock \/ WriteFileTable \/ WriteBlockBitmap
           \/ UseOfClosedFile \/ UNCHANGED vars
  <2>1. UNCHANGED kernel
    BY <1>2 DEF CreateFile, CreateFileFails, FormatGivesUp, WriteSuperblock, WriteFileTable,
                WriteBlockBitmap, WriteZeroes, FormatStep, UseOfClosedFile, vars
  <2> QED
    BY <1>1, <2>1 DEF kernel
<1>3. ASSUME NEW m \in Mount, NEW f \in File \cup {NoFile}, BeginMount(m, f)
      PROVE  PathsTyped'
  BY <1>0, <1>3 DEF BeginMount, PathsTyped, NullFilp, ErrFilp
<1>4. ASSUME NEW m \in Mount, OpenStorage(m)
      PROVE  PathsTyped'
  BY <1>0, <1>4 DEF OpenStorage, PathsTyped, NullFilp, ErrFilp
<1>5. ASSUME NEW m \in Mount,
             \/ ReadSuperblock(m) \/ ReadFileTable(m) \/ ReadBlockBitmap(m) \/ MakeRoot(m)
             \/ MountFails(m) \/ WriteData(m) \/ SyncFs(m) \/ Unmount(m)
      PROVE  UNCHANGED <<storage_path, storage_filp, handle>>
  BY <1>5 DEF ReadSuperblock, ReadFileTable, ReadBlockBitmap, MakeRoot, MountFails, WriteData, SyncFs,
              Unmount, Sync, Step
<1>6. ASSUME NEW m \in Mount, RootFails(m) \/ PutSuper(m)
      PROVE  PathsTyped'
  <2>1. UNCHANGED <<storage_path, storage_filp>> /\ CloseFilp
    BY <1>6 DEF RootFails, PutSuper, Step
  <2> QED
    BY <1>0, <2>1 DEF PathsTyped, CloseFilp, NullFilp, ErrFilp
<1> QED
  BY <1>1, <1>2, <1>3, <1>4, <1>5, <1>6, Zenon DEF Next

LEMMA HistoryTypedIsInductive ==
    ASSUME Typed, [Next]_vars
    PROVE  HistoryTyped'
<1> DEFINE Known == {"overlap", "no path", "failed open", "format failed",
                     "formatted in use", "wrapped"}
<1>0. events \in 0 .. MaxEvents /\ torn \subseteq File /\ past \subseteq Known
      /\ fault \in BOOLEAN
  BY DEF Typed, HistoryTyped
<1>a. ASSUME Event \/ UNCHANGED events
      PROVE  events' \in 0 .. MaxEvents
  <2>1. events \in 0 .. MaxEvents /\ MaxEvents \in Nat
    BY <1>0, MountsAssumption
  <2> QED
    BY <1>a, <2>1, SMT DEF Event
<1>1. CASE \/ \E n \in 0 .. MaxGB : CreateFile(n)
           \/ CreateFileFails \/ FormatGivesUp
           \/ WriteSuperblock \/ WriteFileTable \/ WriteBlockBitmap
  <2>1. UNCHANGED <<events, fault>>
    BY <1>1 DEF CreateFile, CreateFileFails, FormatGivesUp, WriteSuperblock, WriteFileTable,
                WriteBlockBitmap, WriteZeroes, FormatStep, kernel
  <2>2. past' \subseteq past \cup {"format failed", "formatted in use"}
    BY <1>1 DEF CreateFile, CreateFileFails, FormatGivesUp, WriteSuperblock, WriteFileTable,
                WriteBlockBitmap, WriteZeroes, FormatStep
  <2>3. torn' \subseteq torn
    BY <1>1 DEF CreateFile, CreateFileFails, FormatGivesUp, WriteSuperblock, WriteFileTable,
                WriteBlockBitmap
  <2> QED
    BY <1>0, <2>1, <2>2, <2>3 DEF HistoryTyped
<1>2. ASSUME NEW m \in Mount, NEW f \in File \cup {NoFile}, BeginMount(m, f)
      PROVE  HistoryTyped'
  <2>1. UNCHANGED <<events, torn, fault>>
    BY <1>2 DEF BeginMount
  <2>2. past' \subseteq past \cup {"no path", "overlap", "formatted in use"}
    BY <1>2 DEF BeginMount
  <2> QED
    BY <1>0, <2>1, <2>2 DEF HistoryTyped
<1>3. ASSUME NEW m \in Mount, SyncFs(m) \/ Unmount(m)
      PROVE  HistoryTyped'
  <2>1. PICK next : Sync(m, "up", next)
    BY <1>3 DEF SyncFs, Unmount
  <2>2. FilpIsOpen /\ fault' = fault
    BY <2>1 DEF Sync, Step
  <2>3. TheFile \in File
    BY <2>2, TheFileIsAFile DEF Typed
  <2>4. Event \/ UNCHANGED events
    BY <2>1 DEF Sync, SyncNothing, SyncMetadata, SyncList, SyncJunk
  <2>5. past' \subseteq past \cup {"wrapped"}
    BY <2>1 DEF Sync, SyncNothing, SyncMetadata, SyncList, SyncJunk
  <2>6. torn' \subseteq torn \cup {TheFile}
    BY <2>1 DEF Sync, SyncNothing, SyncMetadata, SyncJunk
  <2> QED
    BY <1>0, <1>a, <2>2, <2>3, <2>4, <2>5, <2>6 DEF HistoryTyped
<1>4. ASSUME NEW m \in Mount,
             \/ OpenStorage(m)
             \/ ReadSuperblock(m) \/ ReadFileTable(m) \/ ReadBlockBitmap(m) \/ MakeRoot(m)
             \/ MountFails(m) \/ RootFails(m) \/ WriteData(m) \/ PutSuper(m)
      PROVE  HistoryTyped'
  <2>1. UNCHANGED <<torn, fault>>
    BY <1>4 DEF OpenStorage, ReadSuperblock, ReadFileTable, ReadBlockBitmap, MakeRoot,
                MountFails, RootFails, WriteData, PutSuper, Step
  <2>2. Event \/ UNCHANGED events
    BY <1>4 DEF OpenStorage, ReadSuperblock, ReadFileTable, ReadBlockBitmap, MakeRoot,
                MountFails, RootFails, WriteData, PutSuper
  <2>3. past' \subseteq past \cup {"failed open"}
    BY <1>4 DEF OpenStorage, ReadSuperblock, ReadFileTable, ReadBlockBitmap, MakeRoot,
                MountFails, RootFails, WriteData, PutSuper
  <2> QED
    BY <1>0, <1>a, <2>1, <2>2, <2>3 DEF HistoryTyped
<1>5. CASE UseOfClosedFile \/ UNCHANGED vars
  <2>1. UNCHANGED <<events, torn, past>> /\ (fault' = TRUE \/ fault' = fault)
    BY <1>5 DEF UseOfClosedFile, vars
  <2> QED
    BY <1>0, <2>1 DEF HistoryTyped
<1> QED
  BY <1>1, <1>2, <1>3, <1>4, <1>5, Zenon DEF Next

\* Replacing the record of a mount by a good one.
LEMMA MountReplaced ==
    ASSUME MountsTyped, NEW m \in Mount, NEW r, GoodMount(r), mnt' = [mnt EXCEPT ![m] = r]
    PROVE  MountsTyped'
<1>1. DOMAIN mnt' = Mount /\ \A o \in Mount : mnt'[o] = r \/ mnt'[o] = mnt[o]
  BY DEF MountsTyped
<1>2. \A o \in Mount : GoodMount(mnt'[o])
  BY <1>1 DEF MountsTyped
<1> QED
  BY <1>1, <1>2 DEF MountsTyped, GoodMount, Fields, HasRead, Unread, Junk, Mount

LEMMA SizesRead ==
    ASSUME NEW b \in Contents
    PROVE  SizeIn(b) \in {Junk} \cup 0 .. MaxGB
<1>1. CASE \E n \in 0 .. MaxGB : b = Super(n)
  <2>1. PICK n \in 0 .. MaxGB : b = Super(n)
    BY <1>1
  <2>2. b[1] = "super" /\ b[2] = n
    BY <2>1 DEF Super
  <2>3. SizeIn(b) = n
    BY <2>2 DEF SizeIn
  <2> QED
    BY <2>1, <2>3, Zenon
<1>2. CASE b \in {Eof, Zero, Data}
  <2>1. 0 \in 0 .. MaxGB
    BY MountsAssumption, SMT
  <2>2. b[1] # "super"
    BY <1>2 DEF Eof, Zero, Data
  <2> QED
    BY <2>1, <2>2, Zenon DEF SizeIn
<1>3. CASE \E m \in Mount, i \in Area : b = Table(m, i) \/ b = Bits(m, i)
  <2>1. PICK m \in Mount, i \in Area : b = Table(m, i) \/ b = Bits(m, i)
    BY <1>3
  <2>2. b[1] # "super" /\ b # Zero
    BY <2>1 DEF Table, Bits, Zero
  <2> QED
    BY <2>2, Zenon DEF SizeIn
<1>4. \/ \E n \in 0 .. MaxGB : b = Super(n)
      \/ b \in {Eof, Zero, Data}
      \/ \E m \in Mount, i \in Area : b = Table(m, i) \/ b = Bits(m, i)
  BY SMT DEF Contents
<1> QED
  BY <1>1, <1>2, <1>3, <1>4, Zenon

LEMMA MountsTypedIsInductive ==
    ASSUME AreasInPlace, Typed, [Next]_vars
    PROVE  MountsTyped'
<1>0. MountsTyped
  BY DEF Typed
<1>1. CASE UNCHANGED mnt
  BY <1>0, <1>1 DEF MountsTyped
<1>2. CASE \/ \E n \in 0 .. MaxGB : CreateFile(n)
           \/ CreateFileFails \/ FormatGivesUp
           \/ WriteSuperblock \/ WriteFileTable \/ WriteBlockBitmap
           \/ UseOfClosedFile \/ UNCHANGED vars
  <2>1. UNCHANGED kernel
    BY <1>2 DEF CreateFile, CreateFileFails, FormatGivesUp, WriteSuperblock, WriteFileTable,
                WriteBlockBitmap, WriteZeroes, FormatStep, UseOfClosedFile, vars
  <2> QED
    BY <1>1, <2>1 DEF kernel
<1>3. GoodMount([NoMount EXCEPT !.at = "failed"]) /\ GoodMount([NoMount EXCEPT !.at = "gone"])
  BY DEF GoodMount, NoMount, Fields, HasRead
<1>4. ASSUME NEW m \in Mount, NEW f \in File \cup {NoFile}, BeginMount(m, f)
      PROVE  MountsTyped'
  <2> DEFINE r == [mnt[m] EXCEPT !.at = "begun", !.wants = f]
  <2>1. mnt[m] = NoMount /\ mnt' = [mnt EXCEPT ![m] = r]
    BY <1>0, <1>4 DEF BeginMount, MountsTyped
  <2>2. GoodMount(r)
    BY <1>4, <2>1 DEF GoodMount, NoMount, Fields, HasRead
  <2> HIDE DEF r
  <2> QED
    BY <1>0, <2>1, <2>2, MountReplaced, Zenon
<1>5. ASSUME NEW m \in Mount, OpenStorage(m)
      PROVE  MountsTyped'
  <2>1. PICK stage \in {"opened", "failed"} : mnt' = [mnt EXCEPT ![m].at = stage]
    BY <1>5 DEF OpenStorage
  <2> DEFINE r == [mnt[m] EXCEPT !.at = stage]
  <2>2. mnt' = [mnt EXCEPT ![m] = r]
    BY <1>0, <2>1 DEF MountsTyped
  <2>3. GoodMount(r)
    BY <1>0 DEF GoodMount, MountsTyped, Fields, HasRead
  <2> HIDE DEF r
  <2> QED
    BY <1>0, <2>2, <2>3, MountReplaced, Zenon
<1>6. ASSUME NEW m \in Mount, NEW here, NEW r, GoodMount(r), Step(m, here, r)
      PROVE  MountsTyped'
  BY <1>0, <1>6, MountReplaced, Zenon DEF Step
<1>7. ASSUME NEW m \in Mount, ReadSuperblock(m)
      PROVE  MountsTyped'
  <2> DEFINE z == SizeIn(block[TheFile][0])
             r == [mnt[m] EXCEPT !.at = "super", !.n = z]
  <2>1. Step(m, "opened", r) /\ FilpIsOpen
    BY <1>7 DEF ReadSuperblock, Step
  <2>2. 0 \in Area
    <3>1. MaxGB \in 0 .. MaxGB
      BY MountsAssumption
    <3> QED
      BY <3>1, PlacesOfAreas
  <2>3. block[TheFile][0] \in Contents
    BY <2>1, <2>2, TheFileIsAFile DEF Typed, FilesTyped
  <2>4. SizeIn(block[TheFile][0]) \in {Junk} \cup 0 .. MaxGB
    BY <2>3, SizesRead, Zenon
  <2>5. Unread \notin {Junk} \cup 0 .. MaxGB
    BY MountsAssumption, SMT DEF Unread, Junk
  <2>6. GoodMount(mnt[m])
    BY <1>0 DEF MountsTyped
  <2>7. GoodMount(r)
    <3>1. z \in {Unread, Junk} \cup 0 .. MaxGB /\ z # Unread
      BY <2>4, <2>5
    <3> HIDE DEF z
    <3> QED
      BY <2>6, <3>1 DEF GoodMount, Fields, HasRead
  <2> HIDE DEF r
  <2> QED
    BY <1>6, <2>1, <2>7, Zenon
<1>8. ASSUME NEW m \in Mount, ReadFileTable(m)
      PROVE  MountsTyped'
  <2>1. PICK t : Step(m, "super", [mnt[m] EXCEPT !.at = "table", !.table = t])
    BY <1>8 DEF ReadFileTable
  <2> DEFINE r == [mnt[m] EXCEPT !.at = "table", !.table = t]
  <2>2. GoodMount(mnt[m]) /\ mnt[m].at = "super"
    BY <1>0, <2>1 DEF MountsTyped, Step, Uses
  <2>3. GoodMount(r)
    BY <2>2 DEF GoodMount, Fields, HasRead
  <2>4. Step(m, "super", r)
    BY <2>1
  <2> HIDE DEF r
  <2> QED
    BY <1>6, <2>3, <2>4, Zenon
<1>9. ASSUME NEW m \in Mount, ReadBlockBitmap(m)
      PROVE  MountsTyped'
  <2>1. PICK t, x :
           /\ x \in BOOLEAN
           /\ Step(m, "table", [mnt[m] EXCEPT !.at = "bitmap", !.bits = t, !.mixed = x])
    <3>1. PICK u, k, size :
             Step(m, "table", [mnt[m] EXCEPT !.at = "bitmap", !.bits = u,
                                             !.mixed = k < size \/ TheFile \in torn])
      BY <1>9 DEF ReadBlockBitmap
    <3>2. (k < size \/ TheFile \in torn) \in BOOLEAN
      OBVIOUS
    <3> QED
      BY <3>1, <3>2, Zenon
  <2> DEFINE r == [mnt[m] EXCEPT !.at = "bitmap", !.bits = t, !.mixed = x]
  <2>2. GoodMount(mnt[m]) /\ mnt[m].at = "table"
    BY <1>0, <2>1 DEF MountsTyped, Step, Uses
  <2>3. GoodMount(r)
    BY <2>1, <2>2 DEF GoodMount, Fields, HasRead
  <2>4. Step(m, "table", r)
    BY <2>1
  <2> HIDE DEF r
  <2> QED
    BY <1>6, <2>3, <2>4, Zenon
<1>13. ASSUME NEW m \in Mount, MakeRoot(m)
       PROVE  MountsTyped'
  <2> DEFINE r == [mnt[m] EXCEPT !.at = "up", !.table = <<>>, !.bits = <<>>]
  <2>1. Step(m, "bitmap", r)
    BY <1>13 DEF MakeRoot
  <2>2. GoodMount(mnt[m]) /\ mnt[m].at = "bitmap"
    BY <1>0, <2>1 DEF MountsTyped, Step, Uses
  <2>3. GoodMount(r)
    BY <2>2 DEF GoodMount, Fields, HasRead
  <2> HIDE DEF r
  <2> QED
    BY <1>6, <2>1, <2>3, Zenon
<1>10. ASSUME NEW m \in Mount, MountFails(m) \/ RootFails(m) \/ PutSuper(m)
       PROVE  MountsTyped'
  <2>1. \E here : \/ Step(m, here, [NoMount EXCEPT !.at = "failed"])
                  \/ Step(m, here, [NoMount EXCEPT !.at = "gone"])
    BY <1>10 DEF MountFails, RootFails, PutSuper
  <2> QED
    BY <1>3, <1>6, <2>1, Zenon
<1>11. ASSUME NEW m \in Mount, SyncFs(m) \/ Unmount(m)
       PROVE  MountsTyped'
  <2>1. PICK stage \in {"up", "synced"} : Step(m, "up", [mnt[m] EXCEPT !.at = stage])
    BY <1>11, Zenon DEF SyncFs, Unmount, Sync
  <2> DEFINE r == [mnt[m] EXCEPT !.at = stage]
  <2>2. GoodMount(mnt[m]) /\ mnt[m].at = "up"
    BY <1>0, <2>1 DEF MountsTyped, Step, Uses
  <2>3. GoodMount(r)
    BY <2>2 DEF GoodMount, Fields, HasRead
  <2>4. Step(m, "up", r)
    BY <2>1
  <2> HIDE DEF r
  <2> QED
    BY <1>6, <2>3, <2>4, Zenon
<1>12. ASSUME NEW m \in Mount, WriteData(m)
       PROVE  MountsTyped'
  <2>1. Step(m, "up", mnt[m]) /\ GoodMount(mnt[m])
    BY <1>0, <1>12 DEF WriteData, MountsTyped
  <2> QED
    BY <1>6, <2>1, Zenon
<1> QED
  BY <1>2, <1>4, <1>5, <1>7, <1>8, <1>9, <1>10, <1>11, <1>12, <1>13, Zenon DEF Next

\* In every history the variables have their types: every block of a storage
\* file holds what the tool or a mount writes, whatever file it went to.
THEOREM MountsTypeOK ==
    ASSUME AreasInPlace
    PROVE  Spec => []TypeOK
<1>1. Init => Typed
  BY InitIsTyped
<1>2. Typed /\ [Next]_vars => Typed'
  BY FilesTypedIsInductive, ToolTypedIsInductive, PathsTypedIsInductive,
     MountsTypedIsInductive, HistoryTypedIsInductive, Zenon DEF Typed
<1>3. Typed => TypeOK
  BY TypedImplies
<1> QED
  BY <1>1, <1>2, <1>3, PTL DEF Spec

-----------------------------------------------------------------------------
(***************************************************************************)
(* What a mount finds.  In a clean history every file that exists, except  *)
(* the one the tool is working on, has a superblock and, unless it is      *)
(* torn, a table and bitmap of one moment; the tool works on a file nobody *)
(* uses; and what a mount has read so far is of the moment of its file.    *)
(***************************************************************************)

Clean == past \cap Harms = {}

TableOf(n, moment) ==
    [i \in 0 .. (FileTableSize(n) - 1) |-> IF moment = 0 THEN Zero ELSE Table(moment, i)]
BitsOf(n, moment) ==
    [i \in 0 .. (BlockBitmapSize(n) - 1) |-> IF moment = 0 THEN Zero ELSE Bits(moment, i)]

HoldsTable(f, n, moment) ==
    \A i \in 0 .. (FileTableSize(n) - 1) : block[f][1 + i] = TableOf(n, moment)[i]
HoldsBits(f, n, moment) ==
    \A i \in 0 .. (BlockBitmapSize(n) - 1) :
        block[f][1 + FileTableSize(n) + i] = BitsOf(n, moment)[i]

WholeAs(f, n, moment) ==
    block[f][0] = Super(n) /\ HoldsTable(f, n, moment) /\ HoldsBits(f, n, moment)

WholeFile(f) == \E n \in 0 .. MaxGB, moment \in 0 .. MaxMounts : WholeAs(f, n, moment)

HasSuper(f) == \E n \in 0 .. MaxGB : block[f][0] = Super(n)

Sound(f) == HasSuper(f) /\ (f \notin torn => WholeFile(f))

FilesAreSound == \A f \in exists : ~(f = StorageFile /\ tool.at # "idle") => Sound(f)

Formatting ==
    /\ tool.at # "idle" => ~StorageInUse
    /\ tool.at \in {"table", "bitmap"} => block[StorageFile][0] = Super(tool.n)
    /\ tool.at = "bitmap" => HoldsTable(StorageFile, tool.n, 0)

Ours(m) ==
    /\ mnt[m].at = "begun" /\ mnt[m].wants # NoFile => storage_path = mnt[m].wants
    /\ HasOpened(m) /\ mnt[m].wants # NoFile => handle[m] = mnt[m].wants
    /\ HasOpened(m) => handle[m] \in exists

Remembers(m) ==
    /\ mnt[m].at \in HasRead =>
          mnt[m].n \in 0 .. MaxGB /\ block[handle[m]][0] = Super(mnt[m].n)
    /\ mnt[m].at \in {"table", "bitmap", "up", "synced"} => mnt[m].n # 0
    /\ mnt[m].at = "table" /\ handle[m] \notin torn =>
          \E moment \in 0 .. MaxMounts :
              /\ mnt[m].table = TableOf(mnt[m].n, moment)
              /\ HoldsBits(handle[m], mnt[m].n, moment)
    /\ mnt[m].at = "bitmap" /\ ~mnt[m].mixed =>
          \E moment \in 0 .. MaxMounts : WholeFrom(m, moment)

Whole == FilesAreSound /\ Formatting /\ \A m \in Mount : Ours(m) /\ Remembers(m)

WholeInv == Clean => Whole

LEMMA SupersDiffer == \A n, k : Super(n) = Super(k) => n = k
BY DEF Super

\* A file whose blocks did not change.
LEMMA SameFile ==
    ASSUME NEW f, block'[f] = block[f]
    PROVE  /\ \A n, moment : HoldsTable(f, n, moment)' <=> HoldsTable(f, n, moment)
           /\ \A n, moment : HoldsBits(f, n, moment)' <=> HoldsBits(f, n, moment)
           /\ WholeFile(f)' <=> WholeFile(f)
           /\ (f \in torn' <=> f \in torn) => (Sound(f)' <=> Sound(f))
<1>1. \A n, moment : HoldsTable(f, n, moment)' <=> HoldsTable(f, n, moment)
  BY DEF HoldsTable, TableOf, Zero, Table
<1>2. \A n, moment : HoldsBits(f, n, moment)' <=> HoldsBits(f, n, moment)
  BY DEF HoldsBits, BitsOf, Zero, Bits
<1>3. \A n, moment : WholeAs(f, n, moment)' <=> WholeAs(f, n, moment)
  BY <1>1, <1>2 DEF WholeAs, Super
<1>4. WholeFile(f)' <=> WholeFile(f)
  BY <1>3, Zenon DEF WholeFile
<1>5. HasSuper(f)' <=> HasSuper(f)
  BY DEF HasSuper, Super
<1>6. (f \in torn' <=> f \in torn) => (Sound(f)' <=> Sound(f))
  BY <1>4, <1>5 DEF Sound
<1> QED
  BY <1>1, <1>2, <1>4, <1>6

\* A mount that is not there has nothing to remember.
LEMMA NotThere ==
    ASSUME NEW m, ~Active(m)
    PROVE  Ours(m) /\ Remembers(m) /\ ~HasOpened(m)
<1>1. mnt[m].at \in {"none", "failed", "gone"}
  BY DEF Active
<1> QED
  BY <1>1 DEF Ours, Remembers, HasOpened, HasRead

\* A mount there is is the only one, and its file is sound.
LEMMA FileOfMount ==
    ASSUME Typed, Alone, Clean, Whole, NEW m \in Mount, HasOpened(m)
    PROVE  /\ Active(m)
           /\ storage_filp = m /\ TheFile = handle[m]
           /\ handle[m] \in exists /\ handle[m] \in File
           /\ handle[m] = StorageFile => tool.at = "idle" /\ mnt[m].wants \in {StorageFile, NoFile}
           /\ Sound(handle[m])
<1>1. Active(m) /\ "overlap" \notin past
  BY DEF Active, HasOpened, Clean, Harms
<1>2. storage_filp = m /\ TheFile = handle[m]
  BY <1>1 DEF Alone, TheFile
<1>3. Ours(m) /\ Formatting /\ FilesAreSound
  BY DEF Whole
<1>4. handle[m] \in exists /\ handle[m] \in File
  BY <1>3 DEF Ours, Typed, FilesTyped
<1>5. handle[m] = StorageFile => mnt[m].wants \in {StorageFile, NoFile}
  BY <1>3 DEF Ours
<1>6. handle[m] = StorageFile => tool.at = "idle"
  BY <1>1, <1>3, <1>5 DEF Formatting, StorageInUse
<1>7. Sound(handle[m])
  BY <1>3, <1>4, <1>6, Zenon DEF FilesAreSound
<1> QED
  BY <1>1, <1>2, <1>4, <1>5, <1>6, <1>7

-----------------------------------------------------------------------------
\* Nothing of it is changed.
LEMMA WholeStays ==
    ASSUME Whole, UNCHANGED <<block, exists, tool, torn>>, UNCHANGED kernel
    PROVE  Whole'
<1>1. UNCHANGED <<storage_path, storage_filp, handle, mnt>>
  BY DEF kernel
<1>2. \A f : Sound(f)' <=> Sound(f)
  BY SameFile
<1>3. FilesAreSound'
  BY <1>2 DEF Whole, FilesAreSound
<1>4. HoldsTable(StorageFile, tool.n, 0)' <=> HoldsTable(StorageFile, tool.n, 0)
  BY DEF HoldsTable, TableOf, Zero
<1>5. Formatting'
  BY <1>1, <1>4 DEF Whole, Formatting, StorageInUse, Active, Super
<1>6. ASSUME NEW m \in Mount
      PROVE  Ours(m)' /\ Remembers(m)'
  <2>1. Ours(m) /\ Remembers(m)
    BY <1>6 DEF Whole
  <2>2. Ours(m)'
    BY <1>1, <2>1 DEF Ours, HasOpened
  <2>3. \A n, moment : HoldsBits(handle[m], n, moment)' <=> HoldsBits(handle[m], n, moment)
    BY <1>1 DEF HoldsBits, BitsOf, Zero, Bits
  <2>4. \A moment : WholeFrom(m, moment)' <=> WholeFrom(m, moment)
    BY <1>1 DEF WholeFrom, Zero, Table, Bits
  <2>5. Remembers(m)'
    BY <1>1, <2>1, <2>3, <2>4 DEF Remembers, HasRead, Super, TableOf, Table, Zero
  <2> QED
    BY <2>2, <2>5
<1> QED
  BY <1>3, <1>5, <1>6 DEF Whole, Mount

\* A step of the tool leaves the files of the mounts alone.
LEMMA ToolElsewhere ==
    ASSUME Typed, Alone, Clean, Whole, UNCHANGED kernel, exists \subseteq exists',
           \A g \in File : g # StorageFile =>
               block'[g] = block[g] /\ (g \in torn' <=> g \in torn),
           ~StorageInUse
    PROVE  (\A m \in Mount : Ours(m)' /\ Remembers(m)') /\ ~StorageInUse'
<1>0. UNCHANGED <<storage_path, storage_filp, handle, mnt>>
  BY DEF kernel
<1>1. ~StorageInUse'
  BY <1>0 DEF StorageInUse, Active, Mount
<1>2. ASSUME NEW m \in Mount, HasOpened(m)
      PROVE  Ours(m)' /\ Remembers(m)'
  <2>1. Ours(m) /\ Remembers(m)
    BY <1>2 DEF Whole
  <2>2. Active(m) /\ handle[m] \in File
    BY <1>2, FileOfMount
  <2>3. handle[m] # StorageFile
    BY <1>2, <2>2, FileOfMount DEF StorageInUse
  <2>4. PICK f \in File : f = handle[m]
    BY <2>2
  <2>5. block'[f] = block[f] /\ (f \in torn' <=> f \in torn)
    BY <2>3, <2>4
  <2>6. Ours(m)'
    BY <1>0, <2>1 DEF Ours, HasOpened
  <2>7. \A n, moment : HoldsBits(f, n, moment)' <=> HoldsBits(f, n, moment)
    BY <2>5, SameFile, Zenon
  <2>8. \A moment : WholeFrom(m, moment)' <=> WholeFrom(m, moment)
    BY <1>0 DEF WholeFrom, Zero, Table, Bits
  <2>9. \A n, moment : HoldsBits(handle[m], n, moment)' <=> HoldsBits(handle[m], n, moment)
    BY <1>0, <2>4, <2>5 DEF HoldsBits, BitsOf, Zero, Bits
  <2>10. block'[handle'[m]] = block[handle[m]] /\ (handle'[m] \in torn' <=> handle[m] \in torn)
    BY <1>0, <2>4, <2>5
  <2>11. Remembers(m)'
    BY <1>0, <2>1, <2>8, <2>9, <2>10 DEF Remembers, HasRead, Super, TableOf, Table, Zero
  <2> QED
    BY <2>6, <2>11
<1>3. ASSUME NEW m \in Mount, ~HasOpened(m)
      PROVE  Ours(m)' /\ Remembers(m)'
  <2>1. Ours(m)
    BY <1>3 DEF Whole
  <2>2. ~HasOpened(m)' /\ mnt'[m].at \notin {"table", "bitmap"} \cup HasRead
    BY <1>0, <1>3 DEF HasOpened, HasRead
  <2>3. Ours(m)'
    BY <1>0, <2>1, <2>2 DEF Ours
  <2>4. Remembers(m)'
    BY <2>2 DEF Remembers, HasRead
  <2> QED
    BY <2>3, <2>4
<1> QED
  BY <1>1, <1>2, <1>3

\* The files the tool does not work on stay whole.
LEMMA OthersStayWhole ==
    ASSUME Typed, Whole, NEW f \in exists, f # StorageFile,
           \A g \in File : g # StorageFile =>
               block'[g] = block[g] /\ (g \in torn' <=> g \in torn)
    PROVE  Sound(f)'
<1>1. f \in File /\ Sound(f)
  BY DEF Typed, FilesTyped, Whole, FilesAreSound
<1>2. block'[f] = block[f] /\ (f \in torn' <=> f \in torn)
  BY <1>1
<1> QED
  BY <1>1, <1>2, SameFile, Zenon

LEMMA WholeCreateFile ==
    ASSUME Typed, Alone, Clean', Clean, Whole, NEW n \in 0 .. MaxGB, CreateFile(n)
    PROVE  Whole'
<1>1. /\ tool' = [at |-> "super", n |-> n]
      /\ exists' = exists \cup {StorageFile}
      /\ UNCHANGED kernel /\ UNCHANGED torn
      /\ ~StorageInUse
  BY DEF CreateFile, Clean, Harms
<1>2. PICK new : Write(StorageFile, new)
  BY DEF CreateFile
<1>3. \A g \in File : g # StorageFile => block'[g] = block[g]
  BY <1>2, Written, MountsAssumption, Zenon DEF Typed
<1>4. (\A m \in Mount : Ours(m)' /\ Remembers(m)') /\ ~StorageInUse'
  BY <1>1, <1>3, ToolElsewhere
<1>5. FilesAreSound'
  <2>1. tool'.at # "idle" /\ exists' = exists \cup {StorageFile}
    BY <1>1
  <2>2. \A f \in exists : f # StorageFile => Sound(f)'
    BY <1>1, <1>3, OthersStayWhole
  <2> QED
    BY <2>1, <2>2 DEF FilesAreSound
<1>6. Formatting'
  BY <1>1, <1>4 DEF Formatting
<1> QED
  BY <1>4, <1>5, <1>6 DEF Whole, Mount

LEMMA WholeCreateFileFails ==
    ASSUME Typed, Alone, Clean', Clean, Whole, CreateFileFails
    PROVE  Whole'
<1>1. StorageFile \in exists
  BY DEF CreateFileFails, Clean, Harms
<1>2. UNCHANGED <<block, exists, tool, torn>> /\ UNCHANGED kernel
  BY <1>1 DEF CreateFileFails
<1> QED
  BY <1>2, WholeStays

\* What a step of the formatting changes when it does not fail.
LEMMA WholeFormatStep ==
    ASSUME Typed, Alone, Clean', Clean, Whole, NEW here, NEW next, NEW harm,
           FormatStep(here, next, harm), NEW new, Write(StorageFile, new),
           torn' = torn \/ torn' = torn \ {StorageFile}
    PROVE  /\ ~harm
           /\ tool.at = here /\ tool'.at = next /\ tool'.n = tool.n
           /\ exists' = exists
           /\ \A g \in File : g # StorageFile => block'[g] = block[g]
           /\ \A b \in Area : block'[StorageFile][b] =
                 IF b \in DOMAIN new THEN new[b] ELSE block[StorageFile][b]
           /\ \A m \in Mount : Ours(m)' /\ Remembers(m)'
           /\ ~StorageInUse'
           /\ \A f \in exists : f # StorageFile => Sound(f)'
<1>1. /\ ~harm /\ ~StorageInUse /\ UNCHANGED kernel /\ exists' = exists
      /\ tool.at = here /\ tool' = [tool EXCEPT !.at = next]
  BY DEF FormatStep, Clean, Harms
<1>2. tool'.at = next /\ tool'.n = tool.n
  BY <1>1 DEF Typed, ToolTyped
<1>3. /\ \A g \in File : g # StorageFile => block'[g] = block[g]
      /\ \A b \in Area : block'[StorageFile][b] =
            IF b \in DOMAIN new THEN new[b] ELSE block[StorageFile][b]
  BY Written, MountsAssumption, Zenon DEF Typed
<1>a. \A g \in File : g # StorageFile =>
         block'[g] = block[g] /\ (g \in torn' <=> g \in torn)
  BY <1>3
<1>4. (\A m \in Mount : Ours(m)' /\ Remembers(m)') /\ ~StorageInUse'
  BY <1>1, <1>a, ToolElsewhere
<1>5. \A f \in exists : f # StorageFile => Sound(f)'
  BY <1>a, OthersStayWhole
<1> QED
  BY <1>1, <1>2, <1>3, <1>4, <1>5

LEMMA WholeWriteSuperblock ==
    ASSUME AreasInPlace, Typed, Alone, Clean', Clean, Whole, WriteSuperblock
    PROVE  Whole'
<1>1. PICK written \in BOOLEAN :
        /\ FormatStep("super", "table", ~written)
        /\ Write(StorageFile, [b \in {c \in {0} : written} |-> Super(tool.n)])
        /\ UNCHANGED torn
  BY DEF WriteSuperblock
<1> DEFINE new == [b \in {c \in {0} : written} |-> Super(tool.n)]
<1>2. Write(StorageFile, new)
  BY <1>1
<1>3. /\ 0 \in DOMAIN new <=> written
      /\ written => new[0] = Super(tool.n)
  OBVIOUS
<1> HIDE DEF new
<1>4. /\ written
      /\ tool'.at = "table" /\ tool'.n = tool.n
      /\ exists' = exists
      /\ \A b \in Area : block'[StorageFile][b] =
            IF b \in DOMAIN new THEN new[b] ELSE block[StorageFile][b]
      /\ \A m \in Mount : Ours(m)' /\ Remembers(m)'
      /\ ~StorageInUse'
      /\ \A f \in exists : f # StorageFile => Sound(f)'
  BY <1>1, <1>2, WholeFormatStep
<1>5. 0 \in Area
  BY PlacesOfAreas DEF Typed, ToolTyped
<1>6. block'[StorageFile][0] = Super(tool'.n)
  BY <1>3, <1>4, <1>5
<1>7. FilesAreSound'
  BY <1>4 DEF FilesAreSound
<1>8. Formatting'
  BY <1>4, <1>6 DEF Formatting
<1> QED
  BY <1>4, <1>7, <1>8 DEF Whole, Mount

\* What writing zeroes over an area changes when it does not fail.
LEMMA WholeWriteZeroes ==
    ASSUME AreasInPlace, Typed, Alone, Clean', Clean, Whole,
           NEW here, NEW next, NEW start, NEW size \in Nat, NEW first \in Nat,
           At(start) = first, WriteZeroes(here, next, start, size),
           torn' = torn \/ torn' = torn \ {StorageFile}
    PROVE  /\ tool.at = here /\ tool'.at = next /\ tool'.n = tool.n
           /\ exists' = exists
           /\ \A b \in Area : block'[StorageFile][b] =
                 IF b \in first .. (first + size - 1) THEN Zero ELSE block[StorageFile][b]
           /\ \A m \in Mount : Ours(m)' /\ Remembers(m)'
           /\ ~StorageInUse'
           /\ \A f \in exists : f # StorageFile => Sound(f)'
<1>1. PICK k \in 0 .. size :
        /\ FormatStep(here, next, k < size)
        /\ Write(StorageFile, [b \in At(start) .. (At(start) + k - 1) |-> Zero])
  BY DEF WriteZeroes
<1> DEFINE new == [b \in first .. (first + k - 1) |-> Zero]
<1>2. Write(StorageFile, new)
  BY <1>1
<1>3. /\ DOMAIN new = first .. (first + k - 1)
      /\ \A b \in DOMAIN new : new[b] = Zero
  OBVIOUS
<1> HIDE DEF new
<1>4. /\ ~(k < size)
      /\ tool.at = here /\ tool'.at = next /\ tool'.n = tool.n
      /\ exists' = exists
      /\ \A b \in Area : block'[StorageFile][b] =
            IF b \in DOMAIN new THEN new[b] ELSE block[StorageFile][b]
      /\ \A m \in Mount : Ours(m)' /\ Remembers(m)'
      /\ ~StorageInUse'
      /\ \A f \in exists : f # StorageFile => Sound(f)'
  BY <1>1, <1>2, WholeFormatStep
<1>5. k = size
  BY <1>4, SMT
<1> QED
  BY <1>3, <1>4, <1>5

LEMMA WholeWriteFileTable ==
    ASSUME AreasInPlace, Typed, Alone, Clean', Clean, Whole, WriteFileTable
    PROVE  Whole'
<1> DEFINE n == tool.n
           t == FileTableSize(n)
<1>0. n \in 0 .. MaxGB /\ Formatting
  BY DEF Typed, ToolTyped, Whole
<1>1. /\ t \in Nat /\ 0 \in Area /\ At(FileTableStart) = 1
      /\ 0 .. (DataStart(n) - 1) \subseteq Area
      /\ DataStart(n) = 1 + t + BlockBitmapSize(n) /\ BlockBitmapSize(n) \in Nat
  BY <1>0, PlacesOfAreas, Zenon
<1>2. 1 \in Nat /\ WriteZeroes("table", "bitmap", FileTableStart, t) /\ torn' = torn
  BY DEF WriteFileTable
<1> HIDE DEF t
<1>3. /\ tool.at = "table" /\ tool'.at = "bitmap" /\ tool'.n = n
      /\ exists' = exists
      /\ \A b \in Area : block'[StorageFile][b] =
            IF b \in 1 .. (1 + t - 1) THEN Zero ELSE block[StorageFile][b]
      /\ \A m \in Mount : Ours(m)' /\ Remembers(m)'
      /\ ~StorageInUse'
      /\ \A f \in exists : f # StorageFile => Sound(f)'
  BY <1>1, <1>2, WholeWriteZeroes, Zenon
<1>4. block[StorageFile][0] = Super(n)
  BY <1>0, <1>3 DEF Formatting
<1>5. 0 \notin 1 .. (1 + t - 1)
  OBVIOUS
<1>6. block'[StorageFile][0] = Super(tool'.n)
  BY <1>1, <1>3, <1>4, <1>5
<1>7. ASSUME NEW i \in 0 .. (t - 1)
      PROVE  block'[StorageFile][1 + i] = Zero
  <2>1. 1 + i \in 1 .. (1 + t - 1) /\ 1 + i \in 0 .. (DataStart(n) - 1)
    BY <1>1, <1>7, SMT
  <2> QED
    BY <1>1, <1>3, <2>1
<1>8. HoldsTable(StorageFile, tool.n, 0)'
  BY <1>3, <1>7 DEF HoldsTable, TableOf, t
<1>9. FilesAreSound'
  BY <1>3 DEF FilesAreSound
<1>10. Formatting'
  BY <1>3, <1>6, <1>8 DEF Formatting
<1> QED
  BY <1>3, <1>9, <1>10 DEF Whole, Mount

LEMMA WholeWriteBlockBitmap ==
    ASSUME AreasInPlace, Typed, Alone, Clean', Clean, Whole, WriteBlockBitmap
    PROVE  Whole'
<1> DEFINE n == tool.n
           t == FileTableSize(n)
           s == BlockBitmapSize(n)
<1>0. n \in 0 .. MaxGB /\ Formatting
  BY DEF Typed, ToolTyped, Whole
<1>1. /\ t \in Nat /\ s \in Nat /\ 0 \in Area /\ At(BlockBitmapStart(n)) = 1 + t
      /\ 0 .. (DataStart(n) - 1) \subseteq Area
      /\ DataStart(n) = 1 + t + s
  BY <1>0, PlacesOfAreas, Zenon
<1>2. /\ 1 + t \in Nat /\ WriteZeroes("bitmap", "idle", BlockBitmapStart(n), s)
      /\ torn' = torn \ {StorageFile}
  BY <1>1, SMT DEF WriteBlockBitmap
<1> HIDE DEF t, s
<1>3. /\ tool.at = "bitmap" /\ tool'.at = "idle" /\ tool'.n = n
      /\ exists' = exists
      /\ \A b \in Area : block'[StorageFile][b] =
            IF b \in (1 + t) .. (1 + t + s - 1) THEN Zero ELSE block[StorageFile][b]
      /\ \A m \in Mount : Ours(m)' /\ Remembers(m)'
      /\ ~StorageInUse'
      /\ \A f \in exists : f # StorageFile => Sound(f)'
  BY <1>1, <1>2, WholeWriteZeroes, Zenon
<1>4. block[StorageFile][0] = Super(n) /\ HoldsTable(StorageFile, n, 0)
  BY <1>0, <1>3 DEF Formatting
<1>5. block'[StorageFile][0] = Super(n)
  <2>1. 0 \notin (1 + t) .. (1 + t + s - 1)
    BY <1>1, SMT
  <2> QED
    BY <1>1, <1>3, <1>4, <2>1
<1>6. ASSUME NEW i \in 0 .. (t - 1)
      PROVE  block'[StorageFile][1 + i] = block[StorageFile][1 + i]
  <2>1. 1 + i \notin (1 + t) .. (1 + t + s - 1) /\ 1 + i \in 0 .. (DataStart(n) - 1)
    BY <1>1, <1>6, SMT
  <2> QED
    BY <1>1, <1>3, <2>1
<1>7. ASSUME NEW i \in 0 .. (s - 1)
      PROVE  block'[StorageFile][1 + t + i] = Zero
  <2>1. 1 + t + i \in (1 + t) .. (1 + t + s - 1) /\ 1 + t + i \in 0 .. (DataStart(n) - 1)
    BY <1>1, <1>7, SMT
  <2> QED
    BY <1>1, <1>3, <2>1
<1>8. PICK k \in 0 .. MaxGB : k = n
  BY <1>0
<1>9. HoldsTable(StorageFile, k, 0)'
  BY <1>4, <1>6, <1>8 DEF HoldsTable, TableOf, Zero, t
<1>10. HoldsBits(StorageFile, k, 0)'
  BY <1>7, <1>8 DEF HoldsBits, BitsOf, t, s
<1>11. Sound(StorageFile)'
  <2>1. WholeAs(StorageFile, k, 0)'
    BY <1>5, <1>8, <1>9, <1>10 DEF WholeAs, Super
  <2>2. 0 \in 0 .. MaxMounts
    BY MountsAssumption, SMT
  <2>3. WholeFile(StorageFile)'
    BY <2>1, <2>2, Zenon DEF WholeFile
  <2>4. HasSuper(StorageFile)'
    BY <1>5, <1>8 DEF HasSuper, Super
  <2> QED
    BY <2>3, <2>4 DEF Sound
<1>12. FilesAreSound'
  BY <1>3, <1>11 DEF FilesAreSound
<1>13. Formatting'
  BY <1>3 DEF Formatting
<1> QED
  BY <1>3, <1>12, <1>13 DEF Whole, Mount

-----------------------------------------------------------------------------
\* The steps of the mounts.
LEMMA NotThereNext == \A m : ~Active(m)' => Ours(m)' /\ Remembers(m)' /\ ~HasOpened(m)'
<1> SUFFICES ASSUME NEW m, ~Active(m)'
             PROVE  Ours(m)' /\ Remembers(m)' /\ ~HasOpened(m)'
  OBVIOUS
<1>1. mnt'[m].at \in {"none", "failed", "gone"}
  BY DEF Active
<1> QED
  BY <1>1 DEF Ours, Remembers, HasOpened, HasRead

\* When a mount that is there takes a step, the others are not there after it.
LEMMA OthersAreNotThere ==
    ASSUME Typed, Alone, Clean, NEW m \in Mount, Active(m), NEW r,
           mnt' = [mnt EXCEPT ![m] = r]
    PROVE  /\ mnt'[m] = r
           /\ \A o \in Mount : o # m => ~Active(o) /\ ~Active(o)' /\ Ours(o)' /\ Remembers(o)'
<1>1. mnt'[m] = r /\ \A o \in Mount : o # m => mnt'[o] = mnt[o]
  BY DEF Typed, MountsTyped
<1>2. \A o \in Mount : o # m => ~Active(o)
  BY DEF Alone, Clean, Harms
<1>3. \A o \in Mount : o # m => ~Active(o)'
  BY <1>1, <1>2 DEF Active
<1> QED
  BY <1>1, <1>2, <1>3, NotThereNext

\* The formatting goes on as before when its file is not written and no mount
\* more uses it.
LEMMA FormattingStays ==
    ASSUME Formatting, UNCHANGED tool,
           tool.at # "idle" => block'[StorageFile] = block[StorageFile] /\ ~StorageInUse'
    PROVE  Formatting'
<1>1. CASE tool.at = "idle"
  BY <1>1 DEF Formatting
<1>2. CASE tool.at # "idle"
  <2>1. HoldsTable(StorageFile, tool.n, 0) <=> HoldsTable(StorageFile, tool.n, 0)'
    BY <1>2 DEF HoldsTable, TableOf, Zero
  <2> QED
    BY <1>2, <2>1 DEF Formatting, Super
<1> QED
  BY <1>1, <1>2

\* A mount ends, or has failed.
LEMMA WholeEnds ==
    ASSUME Typed, Alone, Clean, Whole, NEW m \in Mount, Active(m), NEW r,
           mnt' = [mnt EXCEPT ![m] = r], r.at \in {"failed", "gone"},
           UNCHANGED <<block, exists, tool, torn>>
    PROVE  Whole'
<1>1. /\ mnt'[m] = r
      /\ \A o \in Mount : o # m => ~Active(o) /\ ~Active(o)' /\ Ours(o)' /\ Remembers(o)'
  BY OthersAreNotThere
<1>2. ~Active(m)'
  BY <1>1 DEF Active
<1>3. Ours(m)' /\ Remembers(m)'
  BY <1>2, NotThereNext
<1>4. ~StorageInUse'
  BY <1>1, <1>2 DEF StorageInUse, Mount
<1>5. FilesAreSound'
  <2>1. \A f : Sound(f)' <=> Sound(f)
    BY SameFile
  <2> QED
    BY <2>1 DEF Whole, FilesAreSound
<1>6. Formatting'
  BY <1>4, FormattingStays DEF Whole
<1> QED
  BY <1>1, <1>3, <1>5, <1>6 DEF Whole, Mount

\* A mount goes on; f is its file, which is sound after the step too.
LEMMA WholeProceeds ==
    ASSUME Typed, Alone, Clean, Whole, NEW m \in Mount, HasOpened(m), NEW r,
           mnt' = [mnt EXCEPT ![m] = r], r.at \in Opened, r.wants = mnt[m].wants,
           UNCHANGED <<exists, tool, handle, storage_path>>,
           NEW f \in File, f = handle[m],
           \A g \in File : g # f => block'[g] = block[g] /\ (g \in torn' <=> g \in torn),
           Sound(f)', Remembers(m)'
    PROVE  Whole'
<1>0. Active(m) /\ (f = StorageFile => tool.at = "idle") /\ Ours(m)
  BY FileOfMount DEF Whole
<1>1. /\ mnt'[m] = r
      /\ \A o \in Mount : o # m => ~Active(o) /\ ~Active(o)' /\ Ours(o)' /\ Remembers(o)'
  BY <1>0, OthersAreNotThere
<1>2. Ours(m)'
  BY <1>0, <1>1 DEF Ours, HasOpened, Opened
<1>3. FilesAreSound'
  <2>1. ASSUME NEW g \in exists, ~(g = StorageFile /\ tool.at # "idle")
        PROVE  Sound(g)'
    <3>1. CASE g = f
      BY <3>1
    <3>2. CASE g # f
      <4>1. g \in File /\ Sound(g)
        BY <2>1 DEF Typed, FilesTyped, Whole, FilesAreSound
      <4>2. block'[g] = block[g] /\ (g \in torn' <=> g \in torn)
        BY <3>2, <4>1
      <4> QED
        BY <4>1, <4>2, SameFile, Zenon
    <3> QED
      BY <3>1, <3>2
  <2> QED
    BY <2>1 DEF FilesAreSound
<1>4. StorageInUse' => StorageInUse
  BY <1>0, <1>1 DEF StorageInUse, Mount
<1>5. Formatting'
  <2>1. tool.at # "idle" => block'[StorageFile] = block[StorageFile]
    BY <1>0, MountsAssumption
  <2>2. tool.at # "idle" => ~StorageInUse'
    BY <1>4 DEF Whole, Formatting
  <2> QED
    BY <2>1, <2>2, FormattingStays DEF Whole
<1> QED
  BY <1>1, <1>2, <1>3, <1>5 DEF Whole, Mount

LEMMA WholeBeginMount ==
    ASSUME Typed, Alone, Clean', Clean, Whole, NEW m \in Mount, NEW f \in File \cup {NoFile},
           BeginMount(m, f)
    PROVE  Whole'
<1>1. /\ mnt' = [mnt EXCEPT ![m].at = "begun", ![m].wants = f]
      /\ UNCHANGED <<block, exists, tool, handle, torn>>
      /\ storage_path' = IF f = NoFile THEN storage_path ELSE f
      /\ \A o \in Mount : ~Active(o)
      /\ tool.at # "idle" => f \notin {StorageFile, NoFile}
  BY DEF BeginMount, Clean, Harms, host, user
<1>2. /\ mnt'[m].at = "begun" /\ mnt'[m].wants = f
      /\ \A o \in Mount : o # m => mnt'[o] = mnt[o]
  BY <1>1 DEF Typed, MountsTyped, GoodMount, Fields
<1>3. \A o \in Mount : o # m => ~Active(o)' /\ Ours(o)' /\ Remembers(o)'
  <2>1. \A o \in Mount : o # m => ~Active(o)'
    BY <1>1, <1>2 DEF Active
  <2> QED
    BY <2>1, NotThereNext
<1>4. Ours(m)' /\ Remembers(m)'
  BY <1>1, <1>2 DEF Ours, Remembers, HasOpened, HasRead
<1>5. FilesAreSound'
  <2>1. \A g : Sound(g)' <=> Sound(g)
    BY <1>1, SameFile
  <2> QED
    BY <1>1, <2>1 DEF Whole, FilesAreSound
<1>6. tool.at # "idle" => ~StorageInUse'
  BY <1>1, <1>2, <1>3 DEF StorageInUse, Mount
<1>7. Formatting'
  BY <1>1, <1>6, FormattingStays DEF Whole
<1> QED
  BY <1>3, <1>4, <1>5, <1>7 DEF Whole, Mount

LEMMA WholeOpenStorage ==
    ASSUME Typed, Alone, Clean, Whole, NEW m \in Mount, OpenStorage(m)
    PROVE  Whole'
<1>0. /\ mnt[m].at = "begun" /\ Active(m) /\ Ours(m)
      /\ UNCHANGED <<block, exists, tool, storage_path, torn>>
  BY DEF OpenStorage, Uses, Active, Whole, host, user
<1>1. CASE storage_path \in exists
  <2> DEFINE r == [mnt[m] EXCEPT !.at = "opened"]
  <2>1. mnt' = [mnt EXCEPT ![m] = r] /\ handle' = [handle EXCEPT ![m] = storage_path]
    BY <1>1 DEF OpenStorage, Typed, MountsTyped
  <2>2. r.at = "opened" /\ r.wants = mnt[m].wants
    BY DEF Typed, MountsTyped, GoodMount, Fields
  <2>3. handle'[m] = storage_path
    BY <2>1 DEF Typed, PathsTyped
  <2> HIDE DEF r
  <2>4. /\ mnt'[m] = r
        /\ \A o \in Mount : o # m => ~Active(o) /\ ~Active(o)' /\ Ours(o)' /\ Remembers(o)'
    BY <1>0, <2>1, OthersAreNotThere
  <2>5. Ours(m)'
    BY <1>0, <1>1, <2>2, <2>3, <2>4 DEF Ours
  <2>6. Remembers(m)'
    BY <2>2, <2>4 DEF Remembers, HasRead
  <2>7. FilesAreSound'
    <3>1. \A g : Sound(g)' <=> Sound(g)
      BY <1>0, SameFile
    <3> QED
      BY <1>0, <3>1 DEF Whole, FilesAreSound
  <2>8. StorageInUse' => StorageInUse
    BY <1>0, <2>2, <2>4 DEF StorageInUse, Mount
  <2>9. Formatting'
    BY <1>0, <2>8, FormattingStays DEF Whole, Formatting
  <2> QED
    BY <2>4, <2>5, <2>6, <2>7, <2>9 DEF Whole, Mount
<1>2. CASE storage_path \notin exists
  <2> DEFINE r == [mnt[m] EXCEPT !.at = "failed"]
  <2>1. mnt' = [mnt EXCEPT ![m] = r]
    BY <1>2 DEF OpenStorage, Typed, MountsTyped
  <2>2. r.at = "failed"
    BY DEF Typed, MountsTyped, GoodMount, Fields
  <2> HIDE DEF r
  <2> QED
    BY <1>0, <2>1, <2>2, WholeEnds
<1> QED
  BY <1>1, <1>2

LEMMA WholeMountEnds ==
    ASSUME Typed, Alone, Clean, Whole, NEW m \in Mount,
           MountFails(m) \/ RootFails(m) \/ PutSuper(m)
    PROVE  Whole'
<1> DEFINE failed == [NoMount EXCEPT !.at = "failed"]
           gone == [NoMount EXCEPT !.at = "gone"]
<1>1. failed.at = "failed" /\ gone.at = "gone"
  BY DEF NoMount
<1>2. PICK here \in Opened : Step(m, here, failed) \/ Step(m, here, gone)
  BY DEF MountFails, RootFails, PutSuper, Opened
<1> HIDE DEF failed, gone
<1>3. PICK r \in {failed, gone} : mnt' = [mnt EXCEPT ![m] = r]
  BY <1>2 DEF Step
<1>4. Active(m)
  BY <1>2 DEF Step, Uses, Active, Opened
<1>5. UNCHANGED <<block, exists, tool, torn>>
  BY <1>2 DEF MountFails, RootFails, PutSuper, Step, host, user
<1> QED
  BY <1>1, <1>3, <1>4, <1>5, WholeEnds

\* What a mount reads is of its file, of which it is the only user.
LEMMA WholeReadSuperblock ==
    ASSUME AreasInPlace, Typed, Alone, Clean, Whole, NEW m \in Mount, ReadSuperblock(m)
    PROVE  Whole'
<1>0. HasOpened(m)
  BY DEF ReadSuperblock, Step, Uses, HasOpened
<1>1. /\ TheFile = handle[m] /\ handle[m] \in File /\ Sound(handle[m])
  BY <1>0, FileOfMount
<1>2. PICK f \in File : f = handle[m]
  BY <1>1
<1>3. PICK k \in 0 .. MaxGB : block[f][0] = Super(k)
  BY <1>1, <1>2 DEF Sound, HasSuper
<1>4. SizeIn(block[TheFile][0]) = k
  BY <1>1, <1>2, <1>3 DEF SizeIn, Super
<1> DEFINE r == [mnt[m] EXCEPT !.at = "super", !.n = SizeIn(block[TheFile][0])]
<1>5. /\ mnt' = [mnt EXCEPT ![m] = r]
      /\ UNCHANGED <<block, exists, tool, handle, storage_path, torn>>
  BY DEF ReadSuperblock, Step, host, user
<1>6. r.at = "super" /\ r.wants = mnt[m].wants /\ r.n = k
  BY <1>4 DEF Typed, MountsTyped, GoodMount, Fields
<1> HIDE DEF r
<1>7. mnt'[m] = r
  BY <1>5 DEF Typed, MountsTyped
<1>8. Sound(f)'
  BY <1>1, <1>2, <1>5, SameFile
<1>9. Remembers(m)'
  BY <1>2, <1>3, <1>5, <1>6, <1>7 DEF Remembers, HasRead, Super
<1> QED
  BY <1>0, <1>2, <1>5, <1>6, <1>8, <1>9, WholeProceeds DEF Opened

LEMMA WholeReadFileTable ==
    ASSUME AreasInPlace, Typed, Alone, Clean, Whole, NEW m \in Mount, ReadFileTable(m)
    PROVE  Whole'
<1>0. HasOpened(m) /\ mnt[m].at = "super" /\ mnt[m].n # 0
  BY DEF ReadFileTable, Step, Uses, HasOpened
<1>1. /\ TheFile = handle[m] /\ handle[m] \in File /\ Sound(handle[m])
  BY <1>0, FileOfMount
<1>2. PICK f \in File : f = handle[m]
  BY <1>1
<1>3. PICK n \in 0 .. MaxGB : n = mnt[m].n /\ block[f][0] = Super(n)
  BY <1>0, <1>2 DEF Whole, Remembers, HasRead
<1> DEFINE t == BlocksAt(FileTableStart, FileTableSize(n))
           r == [mnt[m] EXCEPT !.at = "table", !.table = t]
<1>4. /\ mnt' = [mnt EXCEPT ![m] = r]
      /\ UNCHANGED <<block, exists, tool, handle, storage_path, torn>>
  <2>1. mnt[m].n # Junk
    BY <1>3 DEF Junk
  <2> QED
    BY <1>3, <2>1 DEF ReadFileTable, Step, host, user
<1>5. ASSUME NEW moment \in 0 .. MaxMounts, WholeAs(f, n, moment)
      PROVE  t = TableOf(n, moment) /\ HoldsBits(f, n, moment)
  <2>1. At(FileTableStart) = 1
    BY PlacesOfAreas, Zenon
  <2>2. t = [i \in 0 .. (FileTableSize(n) - 1) |-> block[f][1 + i]]
    BY <1>1, <1>2, <2>1 DEF BlocksAt
  <2> HIDE DEF t
  <2>3. t = [i \in 0 .. (FileTableSize(n) - 1) |-> TableOf(n, moment)[i]]
    BY <1>5, <2>2 DEF WholeAs, HoldsTable
  <2>4. TableOf(n, moment) = [i \in 0 .. (FileTableSize(n) - 1) |-> TableOf(n, moment)[i]]
    BY DEF TableOf
  <2> QED
    BY <1>5, <2>3, <2>4 DEF WholeAs
<1> HIDE DEF t
<1>6. r.at = "table" /\ r.wants = mnt[m].wants /\ r.n = n /\ r.table = t
  BY <1>3 DEF Typed, MountsTyped, GoodMount, Fields
<1> HIDE DEF r
<1>7. mnt'[m] = r
  BY <1>4 DEF Typed, MountsTyped
<1>8. Sound(f)'
  BY <1>1, <1>2, <1>4, SameFile
<1>9. ASSUME f \notin torn
      PROVE  \E moment \in 0 .. MaxMounts :
                t = TableOf(n, moment) /\ HoldsBits(f, n, moment)
  <2>1. PICK moment \in 0 .. MaxMounts : WholeAs(f, n, moment)
    BY <1>1, <1>2, <1>3, <1>9, SupersDiffer DEF Sound, WholeFile, WholeAs
  <2> QED
    BY <1>5, <2>1
<1>10. Remembers(m)'
  <2>1. mnt'[m].n \in 0 .. MaxGB /\ mnt'[m].n # 0 /\ block'[handle'[m]][0] = Super(mnt'[m].n)
    BY <1>0, <1>2, <1>3, <1>4, <1>6, <1>7
  <2>2. mnt'[m].at = "table" /\ mnt'[m].table = t /\ mnt'[m].n = n /\ handle'[m] = f
    BY <1>2, <1>4, <1>6, <1>7
  <2>3. ASSUME handle'[m] \notin torn'
        PROVE  \E moment \in 0 .. MaxMounts :
                  /\ mnt'[m].table = TableOf(mnt'[m].n, moment)
                  /\ HoldsBits(handle[m], mnt[m].n, moment)'
    <3>1. PICK moment \in 0 .. MaxMounts : t = TableOf(n, moment) /\ HoldsBits(f, n, moment)
      BY <1>2, <1>4, <1>9, <2>3
    <3>2. HoldsBits(f, n, moment)'
      BY <1>4, <3>1, SameFile
    <3>3. HoldsBits(handle[m], mnt[m].n, moment)'
      BY <2>2, <3>2 DEF HoldsBits, BitsOf, Zero, Bits
    <3> QED
      BY <2>2, <3>1, <3>3
  <2> QED
    BY <2>1, <2>2, <2>3 DEF Remembers, HasRead, Super, TableOf, Zero, Table
<1> QED
  BY <1>0, <1>2, <1>4, <1>6, <1>8, <1>10, WholeProceeds DEF Opened

LEMMA WholeReadBlockBitmap ==
    ASSUME AreasInPlace, Typed, Alone, Clean, Whole, NEW m \in Mount, ReadBlockBitmap(m)
    PROVE  Whole'
<1>0. HasOpened(m) /\ mnt[m].at = "table" /\ Remembers(m)
  BY DEF ReadBlockBitmap, Step, Uses, HasOpened, Whole
<1>1. /\ TheFile = handle[m] /\ handle[m] \in File /\ Sound(handle[m])
  BY <1>0, FileOfMount
<1>2. PICK f \in File : f = handle[m]
  BY <1>1
<1>3. PICK n \in 0 .. MaxGB : n = mnt[m].n /\ block[f][0] = Super(n) /\ n # 0
  BY <1>0, <1>2 DEF Remembers, HasRead
<1> DEFINE size == BlockBitmapSize(n)
<1>4. /\ size \in Nat /\ At(BlockBitmapStart(n)) = 1 + FileTableSize(n)
      /\ n # Junk
  <2>1. size \in Nat /\ At(BlockBitmapStart(n)) = 1 + FileTableSize(n)
    BY PlacesOfAreas, Zenon
  <2>2. n # Junk
    BY SMT DEF Junk
  <2> QED
    BY <2>1, <2>2, Zenon
<1>5. PICK k \in 0 .. size :
        /\ mnt' = [mnt EXCEPT ![m] = [mnt[m] EXCEPT
                      !.at = "bitmap", !.bits = BlocksAt(BlockBitmapStart(n), k),
                      !.mixed = k < size \/ f \in torn]]
        /\ UNCHANGED <<block, exists, tool, handle, storage_path, torn>>
  BY <1>1, <1>2, <1>3, <1>4 DEF ReadBlockBitmap, Step, host, user
<1> DEFINE u == BlocksAt(BlockBitmapStart(n), k)
           x == k < size \/ f \in torn
           r == [mnt[m] EXCEPT !.at = "bitmap", !.bits = u, !.mixed = x]
<1>6. mnt' = [mnt EXCEPT ![m] = r]
  BY <1>5
<1> HIDE DEF u, x
<1>7. /\ r.at = "bitmap" /\ r.wants = mnt[m].wants /\ r.n = n
      /\ r.table = mnt[m].table /\ r.bits = u /\ r.mixed = x
  BY <1>3 DEF Typed, MountsTyped, GoodMount, Fields
<1> HIDE DEF r
<1>8. mnt'[m] = r
  BY <1>6 DEF Typed, MountsTyped
<1>9. Sound(f)'
  BY <1>1, <1>2, <1>5, SameFile
<1>10. ASSUME ~x
       PROVE  \E moment \in 0 .. MaxMounts :
                 mnt[m].table = TableOf(n, moment) /\ u = BitsOf(n, moment)
  <2>1. f \notin torn /\ k = size
    BY <1>4, <1>10, SMT DEF x
  <2>2. PICK moment \in 0 .. MaxMounts :
           mnt[m].table = TableOf(n, moment) /\ HoldsBits(f, n, moment)
    BY <1>0, <1>2, <1>3, <2>1 DEF Remembers
  <2>3. u = [i \in 0 .. (size - 1) |-> block[f][1 + FileTableSize(n) + i]]
    BY <1>1, <1>2, <1>4, <2>1 DEF BlocksAt, u
  <2>4. u = [i \in 0 .. (size - 1) |-> BitsOf(n, moment)[i]]
    BY <2>2, <2>3 DEF HoldsBits
  <2>5. BitsOf(n, moment) = [i \in 0 .. (size - 1) |-> BitsOf(n, moment)[i]]
    BY DEF BitsOf
  <2> QED
    BY <2>2, <2>4, <2>5
<1>11. Remembers(m)'
  <2>1. mnt'[m].n \in 0 .. MaxGB /\ mnt'[m].n # 0 /\ block'[handle'[m]][0] = Super(mnt'[m].n)
    BY <1>2, <1>3, <1>5, <1>7, <1>8
  <2>2. mnt'[m].at = "bitmap" /\ mnt'[m].mixed = x
    BY <1>7, <1>8
  <2>3. ASSUME ~x
        PROVE  \E moment \in 0 .. MaxMounts : WholeFrom(m, moment)'
    <3>1. PICK moment \in 0 .. MaxMounts :
             mnt[m].table = TableOf(n, moment) /\ u = BitsOf(n, moment)
      BY <1>10, <2>3
    <3>2. n \in 1 .. MaxGB
      BY <1>3, SMT
    <3>3. WholeFrom(m, moment)'
      BY <1>7, <1>8, <3>1, <3>2 DEF WholeFrom, TableOf, BitsOf, Zero, Table, Bits
    <3> QED
      BY <3>3
  <2> QED
    BY <2>1, <2>2, <2>3 DEF Remembers, HasRead, Super
<1> QED
  BY <1>0, <1>2, <1>5, <1>6, <1>7, <1>9, <1>11, WholeProceeds DEF Opened

LEMMA WholeMakeRoot ==
    ASSUME Typed, Alone, Clean, Whole, NEW m \in Mount, MakeRoot(m)
    PROVE  Whole'
<1>0. HasOpened(m) /\ mnt[m].at = "bitmap" /\ Remembers(m)
  BY DEF MakeRoot, Step, Uses, HasOpened, Whole
<1>1. PICK f \in File : f = handle[m] /\ Sound(f)
  BY <1>0, FileOfMount
<1> DEFINE r == [mnt[m] EXCEPT !.at = "up", !.table = <<>>, !.bits = <<>>]
<1>2. /\ mnt' = [mnt EXCEPT ![m] = r]
      /\ UNCHANGED <<block, exists, tool, handle, storage_path, torn>>
  BY DEF MakeRoot, Step, host, user
<1>3. r.at = "up" /\ r.wants = mnt[m].wants /\ r.n = mnt[m].n
  BY DEF Typed, MountsTyped, GoodMount, Fields
<1> HIDE DEF r
<1>4. mnt'[m] = r
  BY <1>2 DEF Typed, MountsTyped
<1>5. Sound(f)'
  BY <1>1, <1>2, SameFile
<1>6. mnt[m].n \in 0 .. MaxGB /\ mnt[m].n # 0 /\ block[handle[m]][0] = Super(mnt[m].n)
  BY <1>0 DEF Remembers, HasRead
<1>7. Remembers(m)'
  BY <1>2, <1>3, <1>4, <1>6 DEF Remembers, HasRead, Super
<1> QED
  BY <1>0, <1>1, <1>2, <1>3, <1>5, <1>7, WholeProceeds DEF Opened

\* A mount that is up remembers its size when it stays up or has synced.
LEMMA RemembersOn ==
    ASSUME NEW m \in Mount, Remembers(m), mnt[m].at = "up", mnt'[m].at \in {"up", "synced"},
           mnt'[m].n = mnt[m].n, block'[handle'[m]][0] = Super(mnt[m].n)
    PROVE  Remembers(m)'
<1>1. mnt[m].n \in 0 .. MaxGB /\ mnt[m].n # 0
  BY DEF Remembers, HasRead
<1> QED
  BY <1>1 DEF Remembers, HasRead, Super

\* A step that leaves the blocks in front of the data as they are.
LEMMA FrontStays ==
    ASSUME AreasInPlace, NEW f \in File, NEW n \in 0 .. MaxGB, Sound(f), block[f][0] = Super(n),
           \A c \in 0 .. (DataStart(n) - 1) : block'[f][c] = block[f][c],
           f \in torn' <=> f \in torn
    PROVE  Sound(f)' /\ block'[f][0] = Super(n)
<1> DEFINE T == FileTableSize(n)
           S == BlockBitmapSize(n)
<1>1. T \in Nat /\ S \in Nat /\ DataStart(n) = 1 + T + S
  BY PlacesOfAreas, Zenon
<1> HIDE DEF T, S
<1>2. /\ 0 \in 0 .. (DataStart(n) - 1)
      /\ \A i \in 0 .. (T - 1) : 1 + i \in 0 .. (DataStart(n) - 1)
      /\ \A i \in 0 .. (S - 1) : 1 + T + i \in 0 .. (DataStart(n) - 1)
  BY <1>1, SMT
<1>3. block'[f][0] = Super(n) /\ HasSuper(f)'
  BY <1>2 DEF HasSuper, Super
<1>4. ASSUME f \notin torn
      PROVE  WholeFile(f)'
  <2>1. PICK moment \in 0 .. MaxMounts : WholeAs(f, n, moment)
    BY <1>4, SupersDiffer DEF Sound, WholeFile, WholeAs
  <2>2. HoldsTable(f, n, moment)'
    <3>1. \A i \in 0 .. (T - 1) : block'[f][1 + i] = TableOf(n, moment)[i]
      BY <1>2, <2>1 DEF WholeAs, HoldsTable, T
    <3> QED
      BY <3>1 DEF HoldsTable, TableOf, Zero, Table, T
  <2>3. HoldsBits(f, n, moment)'
    <3>1. \A i \in 0 .. (S - 1) : block'[f][1 + T + i] = BitsOf(n, moment)[i]
      BY <1>2, <2>1 DEF WholeAs, HoldsBits, T, S
    <3> QED
      BY <3>1 DEF HoldsBits, BitsOf, Zero, Bits, T, S
  <2> QED
    BY <1>3, <2>2, <2>3 DEF WholeFile, WholeAs, Super
<1> QED
  BY <1>3, <1>4 DEF Sound

\* Data is written behind the bitmap, even where the offset of its extent wraps.
LEMMA WholeWriteData ==
    ASSUME AreasInPlace, Typed, Alone, Clean, Whole, NEW m \in Mount, WriteData(m)
    PROVE  Whole'
<1>0. HasOpened(m) /\ mnt[m].at = "up" /\ Remembers(m) /\ Step(m, "up", mnt[m])
  BY DEF WriteData, Step, Uses, HasOpened, Whole
<1>1. /\ TheFile = handle[m] /\ handle[m] \in File /\ Sound(handle[m])
  BY <1>0, FileOfMount
<1>2. PICK f \in File : f = handle[m]
  BY <1>1
<1>3. PICK n \in 0 .. MaxGB : n = mnt[m].n /\ block[f][0] = Super(n)
  BY <1>0, <1>2 DEF Remembers, HasRead
<1>4. PICK place \in Area : place >= At(DataStart(n)) /\ Write(f, [c \in {place} |-> Data])
  BY <1>1, <1>2, <1>3 DEF WriteData
<1> DEFINE new == [c \in {place} |-> Data]
<1>5. Write(f, new) /\ DOMAIN new = {place}
  BY <1>4
<1> HIDE DEF new
<1>6. /\ \A g \in File : g # f => block'[g] = block[g]
      /\ \A c \in Area : c # place => block'[f][c] = block[f][c]
  BY <1>5, Written DEF Typed
<1>7. /\ DataStart(n) \in Nat /\ At(DataStart(n)) = DataStart(n)
      /\ 0 .. (DataStart(n) - 1) \subseteq Area
  <2>1. /\ FileTableSize(n) \in Nat /\ BlockBitmapSize(n) \in Nat
        /\ DataStart(n) = 1 + FileTableSize(n) + BlockBitmapSize(n)
        /\ At(DataStart(n)) = DataStart(n) /\ 0 .. (DataStart(n) - 1) \subseteq Area
    BY PlacesOfAreas, Zenon
  <2> QED
    BY <2>1, SMT
<1>8. \A c \in 0 .. (DataStart(n) - 1) : block'[f][c] = block[f][c]
  <2>1. place >= DataStart(n)
    BY <1>4, <1>7
  <2>2. \A c \in 0 .. (DataStart(n) - 1) : c # place
    BY <1>7, <2>1, SMT
  <2> QED
    BY <1>6, <1>7, <2>2
<1>9. /\ mnt' = [mnt EXCEPT ![m] = mnt[m]] /\ mnt'[m] = mnt[m]
      /\ UNCHANGED <<exists, tool, handle, storage_path, torn>>
  BY <1>0 DEF WriteData, Step, user, Typed, MountsTyped
<1>10. Sound(f)' /\ block'[f][0] = Super(n)
  BY <1>1, <1>2, <1>3, <1>8, <1>9, FrontStays
<1>11. block'[handle'[m]][0] = Super(mnt[m].n)
  BY <1>2, <1>3, <1>9, <1>10
<1>12. Remembers(m)'
  BY <1>0, <1>9, <1>11, RemembersOn
<1>13. mnt[m].at \in Opened
  BY <1>0 DEF Opened
<1> QED
  BY <1>0, <1>2, <1>6, <1>9, <1>10, <1>12, <1>13, WholeProceeds, Zenon

\* In a clean history the list of a sync goes behind the bitmap.
LEMMA ListsGoBehind ==
    ASSUME AreasInPlace, Clean', NEW m \in Mount, NEW n \in 0 .. MaxGB,
           NEW t \in 0 .. FileTableSize(n), NEW s \in 0 .. BlockBitmapSize(n),
           \/ SyncList(m, n, t, s)
           \/ Write(TheFile, SyncedBlocks(m, n, t, s, {}))
    PROVE  \E list : /\ \A c \in 0 .. (DataStart(n) - 1) : c \notin list
                     /\ Write(TheFile, SyncedBlocks(m, n, t, s, list))
<1>1. CASE SyncList(m, n, t, s)
  <2>1. PICK b \in DataStart(n) .. (TotalBlocks(n) - 1) :
          /\ \E after : Write(TheFile, SyncedBlocks(m, n, t, s, {At(b)} \ after))
          /\ past' = past \cup (IF At(b) = b THEN {} ELSE {"wrapped"})
    BY <1>1 DEF SyncList
  <2>2. PICK after : Write(TheFile, SyncedBlocks(m, n, t, s, {At(b)} \ after))
    BY <2>1
  <2>3. At(b) = b
    BY <2>1 DEF Clean, Harms
  <2>4. \A c \in 0 .. (DataStart(n) - 1) : c # b
    <3>1. DataStart(n) \in Nat
      <4>1. /\ FileTableSize(n) \in Nat /\ BlockBitmapSize(n) \in Nat
            /\ DataStart(n) = 1 + FileTableSize(n) + BlockBitmapSize(n)
        BY PlacesOfAreas, Zenon
      <4> QED
        BY <4>1, SMT
    <3>2. b \in Int /\ b >= DataStart(n)
      BY <3>1, SMT
    <3> QED
      BY <3>1, <3>2, SMT
  <2>5. \A c \in 0 .. (DataStart(n) - 1) : c \notin {At(b)} \ after
    BY <2>3, <2>4
  <2> QED
    BY <2>2, <2>5
<1>2. CASE Write(TheFile, SyncedBlocks(m, n, t, s, {}))
  BY <1>2
<1> QED
  BY <1>1, <1>2

\* A sync writes the superblock, the table and the bitmap of its mount, or tears
\* its file.
LEMMA MetadataSynced ==
    ASSUME AreasInPlace, Typed, Clean', NEW m \in Mount, NEW f \in File, f = TheFile,
           Sound(f), NEW n \in 0 .. MaxGB, n = mnt[m].n, block[f][0] = Super(n),
           SyncMetadata(m, n)
    PROVE  /\ Sound(f)' /\ block'[f][0] = Super(n)
           /\ \A g \in File : g # f => block'[g] = block[g] /\ (g \in torn' <=> g \in torn)
<1> DEFINE T == FileTableSize(n)
           S == BlockBitmapSize(n)
<1>1. /\ T \in Nat /\ S \in Nat /\ DataStart(n) = 1 + T + S
      /\ 0 .. (DataStart(n) - 1) \subseteq Area
  BY PlacesOfAreas, Zenon
<1>2. PICK t \in 0 .. T, s \in 0 .. S :
        /\ SyncList(m, n, t, s) \/ Write(TheFile, SyncedBlocks(m, n, t, s, {}))
        /\ torn' = IF (t = T /\ s = S) /\ ~mnt[m].mixed THEN torn \ {TheFile}
                   ELSE IF t + s = 0 THEN torn
                   ELSE torn \cup {TheFile}
  BY DEF SyncMetadata
<1>3. PICK list : /\ \A c \in 0 .. (DataStart(n) - 1) : c \notin list
                  /\ Write(TheFile, SyncedBlocks(m, n, t, s, list))
  BY <1>2, ListsGoBehind
<1>4. PICK new : new = SyncedBlocks(m, n, t, s, list)
  OBVIOUS
<1>5. t \in 0 .. FileTableSize(n) /\ s \in 0 .. BlockBitmapSize(n)
  OBVIOUS
<1>6. AreOfMount(SyncedBlocks(m, n, t, s, list), m, n, t, s, list)
  BY <1>5, SyncedBlocksAreContents, Zenon
<1>7. /\ DOMAIN new = {0} \cup (1 .. t) \cup ((1 + T) .. (T + s)) \cup list
      /\ 0 \notin list => new[0] = Super(n)
      /\ \A i \in 0 .. (t - 1) : 1 + i \notin list => new[1 + i] = Table(m, i)
      /\ \A i \in 0 .. (s - 1) : 1 + T + i \notin list => new[1 + T + i] = Bits(m, i)
  BY <1>4, <1>6 DEF AreOfMount
<1>8. Write(f, new)
  BY <1>3, <1>4
<1> HIDE DEF T, S
<1>9. /\ \A g \in File : g # f => block'[g] = block[g]
      /\ \A c \in Area : block'[f][c] = IF c \in DOMAIN new THEN new[c] ELSE block[f][c]
  BY <1>8, Written, Zenon DEF Typed
<1>10. \A g \in File : g # f => (g \in torn' <=> g \in torn)
  BY <1>2
<1>11. 0 \in Area /\ 0 \notin list
  <2>1. 0 \in 0 .. (DataStart(n) - 1)
    BY <1>1, SMT
  <2> QED
    BY <1>1, <1>3, <2>1
<1>12. block'[f][0] = Super(n) /\ HasSuper(f)'
  BY <1>7, <1>9, <1>11 DEF HasSuper, Super
<1>13. CASE f \in torn'
  BY <1>9, <1>10, <1>12, <1>13 DEF Sound
<1>14. CASE t = T /\ s = S
  <2>1. m # 0 /\ m \in 0 .. MaxMounts
    BY MountsAssumption, SMT DEF Mount
  <2>2. HoldsTable(f, n, m)'
    <3>1. \A i \in 0 .. (T - 1) : 1 + i \in 0 .. (DataStart(n) - 1) /\ 1 + i \in 1 .. t
      BY <1>1, <1>14, SMT
    <3>2. \A i \in 0 .. (T - 1) : block'[f][1 + i] = Table(m, i)
      BY <1>1, <1>3, <1>7, <1>9, <1>14, <3>1
    <3> QED
      BY <2>1, <3>2 DEF HoldsTable, TableOf, Table, T
  <2>3. HoldsBits(f, n, m)'
    <3>1. \A i \in 0 .. (S - 1) :
             1 + T + i \in 0 .. (DataStart(n) - 1) /\ 1 + T + i \in (1 + T) .. (T + s)
      BY <1>1, <1>14, SMT
    <3>2. \A i \in 0 .. (S - 1) : block'[f][1 + T + i] = Bits(m, i)
      BY <1>1, <1>3, <1>7, <1>9, <1>14, <3>1
    <3> QED
      BY <2>1, <3>2 DEF HoldsBits, BitsOf, Bits, T, S
  <2>4. WholeFile(f)'
    BY <1>12, <2>1, <2>2, <2>3 DEF WholeFile, WholeAs, Super
  <2> QED
    BY <1>9, <1>10, <1>12, <2>4 DEF Sound
<1>15. CASE f \notin torn' /\ ~(t = T /\ s = S)
  <2>1. t + s = 0 /\ torn' = torn
    BY <1>2, <1>15
  <2>2. t = 0 /\ s = 0
    BY <1>1, <2>1, SMT
  <2>3. \A c \in 0 .. (DataStart(n) - 1) : c # 0 => c \notin DOMAIN new
    <3>1. \A c \in 0 .. (DataStart(n) - 1) : c \notin 1 .. t /\ c \notin (1 + T) .. (T + s)
      BY <1>1, <2>2, SMT
    <3> QED
      BY <1>3, <1>7, <3>1
  <2>4. \A c \in 0 .. (DataStart(n) - 1) : block'[f][c] = block[f][c]
    BY <1>1, <1>9, <1>12, <2>3
  <2>5. Sound(f)'
    BY <2>1, <2>4, FrontStays
  <2> QED
    BY <1>9, <1>10, <1>12, <2>5
<1> QED
  BY <1>13, <1>14, <1>15

LEMMA WholeSync ==
    ASSUME AreasInPlace, Typed, Alone, Clean', Clean, Whole, NEW m \in Mount,
           NEW next \in {"up", "synced"}, Sync(m, "up", next)
    PROVE  Whole'
<1>0. HasOpened(m) /\ mnt[m].at = "up" /\ Remembers(m)
  BY DEF Sync, Step, Uses, HasOpened, Whole
<1>1. /\ TheFile = handle[m] /\ handle[m] \in File /\ Sound(handle[m])
  BY <1>0, FileOfMount
<1>2. PICK f \in File : f = handle[m]
  BY <1>1
<1>3. PICK n \in 0 .. MaxGB : n = mnt[m].n /\ block[f][0] = Super(n)
  BY <1>0, <1>2 DEF Remembers, HasRead
<1>4. SyncNothing \/ SyncMetadata(m, n)
  <2>1. mnt[m].n # Junk
    BY <1>3 DEF Junk
  <2> QED
    BY <1>3, <2>1 DEF Sync
<1>5. /\ Sound(f)' /\ block'[f][0] = Super(n)
      /\ \A g \in File : g # f => block'[g] = block[g] /\ (g \in torn' <=> g \in torn)
  <2>1. CASE SyncNothing
    <3>1. block' = block /\ torn' = torn
      BY <2>1 DEF SyncNothing
    <3>2. Sound(f)'
      BY <1>1, <1>2, <3>1, SameFile
    <3> QED
      BY <1>3, <3>1, <3>2
  <2>2. CASE SyncMetadata(m, n)
    <3>1. f = TheFile /\ Sound(f)
      BY <1>1, <1>2
    <3> QED
      BY <1>3, <2>2, <3>1, MetadataSynced
  <2> QED
    BY <1>4, <2>1, <2>2
<1> DEFINE r == [mnt[m] EXCEPT !.at = next]
<1>6. /\ mnt' = [mnt EXCEPT ![m] = r]
      /\ UNCHANGED <<exists, tool, handle, storage_path>>
  BY DEF Sync, Step, user
<1>7. r.at = next /\ r.wants = mnt[m].wants /\ r.n = mnt[m].n
  BY DEF Typed, MountsTyped, GoodMount, Fields
<1> HIDE DEF r
<1>8. mnt'[m] = r
  BY <1>6 DEF Typed, MountsTyped
<1>9. block'[handle'[m]][0] = Super(mnt[m].n)
  BY <1>2, <1>3, <1>5, <1>6
<1>10. Remembers(m)'
  BY <1>0, <1>7, <1>8, <1>9, RemembersOn
<1> QED
  BY <1>0, <1>2, <1>5, <1>6, <1>7, <1>10, WholeProceeds DEF Opened

LEMMA HistoryGrows ==
    ASSUME Shape, [Next]_vars, Clean'
    PROVE  Clean
<1>1. Kinds
  BY EveryStepHasAKind
<1>2. past \subseteq past'
  BY <1>1 DEF Kinds, Quiet, Faults, Begins, Opens, OpenFails, Proceeds, Fails, Closes
<1> QED
  BY <1>2 DEF Clean

LEMMA WholeIsInductive ==
    ASSUME AreasInPlace, Typed, Alone, WholeInv, [Next]_vars
    PROVE  WholeInv'
<1> SUFFICES ASSUME Clean' PROVE Whole'
  BY DEF WholeInv
<1>0. Clean /\ Whole
  BY HistoryGrows, TypedImplies DEF WholeInv
<1>1. ASSUME NEW n \in 0 .. MaxGB, CreateFile(n)
      PROVE  Whole'
  BY <1>0, <1>1, WholeCreateFile, Zenon
<1>2. CASE CreateFileFails
  BY <1>0, <1>2, WholeCreateFileFails, Zenon
<1>3. CASE FormatGivesUp
  BY <1>3 DEF FormatGivesUp, FormatStep, Clean, Harms
<1>4. CASE WriteSuperblock \/ WriteFileTable \/ WriteBlockBitmap
  BY <1>0, <1>4, WholeWriteSuperblock, WholeWriteFileTable, WholeWriteBlockBitmap, Zenon
<1>5. ASSUME NEW m \in Mount, NEW f \in File \cup {NoFile}, BeginMount(m, f)
      PROVE  Whole'
  BY <1>0, <1>5, WholeBeginMount, Zenon
<1>6. ASSUME NEW m \in Mount,
             \/ OpenStorage(m) \/ ReadSuperblock(m) \/ ReadFileTable(m)
             \/ ReadBlockBitmap(m) \/ MakeRoot(m)
      PROVE  Whole'
  BY <1>0, <1>6, WholeOpenStorage, WholeReadSuperblock, WholeReadFileTable,
     WholeReadBlockBitmap, WholeMakeRoot, Zenon
<1>7. ASSUME NEW m \in Mount, MountFails(m) \/ RootFails(m) \/ PutSuper(m)
      PROVE  Whole'
  BY <1>0, <1>7, WholeMountEnds, Zenon
<1>8. ASSUME NEW m \in Mount, WriteData(m)
      PROVE  Whole'
  BY <1>0, <1>8, WholeWriteData, Zenon
<1>9. ASSUME NEW m \in Mount, SyncFs(m) \/ Unmount(m)
      PROVE  Whole'
  BY <1>0, <1>9, WholeSync DEF SyncFs, Unmount
<1>10. ~UseOfClosedFile
  <2>1. ASSUME NEW m \in Mount, HasOpened(m) PROVE FilpIsOpen
    BY <1>0, <2>1, FileOfMount DEF Alone, Clean, Harms, FilpIsOpen
  <2> QED
    BY <2>1 DEF UseOfClosedFile
<1>11. CASE UNCHANGED vars
  <2>1. UNCHANGED <<block, exists, tool, torn>> /\ UNCHANGED kernel
    BY <1>11 DEF vars, host, user
  <2> QED
    BY <1>0, <2>1, WholeStays
<1> QED
  BY <1>1, <1>2, <1>3, <1>4, <1>5, <1>6, <1>7, <1>8, <1>9, <1>10, <1>11, Zenon DEF Next

LEMMA InitIsWhole ==
    ASSUME AreasInPlace, Init
    PROVE  Whole
<1>1. \A m \in Mount : ~Active(m)
  BY DEF Init, NoMount, Active
<1>2. \A m \in Mount : Ours(m) /\ Remembers(m)
  BY <1>1, NotThere
<1>3. Formatting
  BY DEF Init, ToolIdle, Formatting
<1>4. 1 \in 0 .. MaxGB /\ 0 \in 0 .. MaxMounts
  BY MountsAssumption, SMT
<1> DEFINE t == FileTableSize(1)
           s == BlockBitmapSize(1)
<1>5. /\ t \in Nat /\ s \in Nat /\ DataStart(1) = 1 + t + s
      /\ 0 .. (DataStart(1) - 1) \subseteq Area
  BY <1>4, PlacesOfAreas, Zenon
<1>6. /\ Formatted(1)[0] = Super(1)
      /\ \A b \in 1 .. (t + s) : Formatted(1)[b] = Zero
  <2> HIDE DEF t, s
  <2>1. 0 \in Area /\ \A b \in 1 .. (t + s) : b \in Area /\ b # 0 /\ b < DataStart(1)
    BY <1>5, SMT
  <2> QED
    BY <2>1 DEF Formatted
<1>7. ASSUME NEW f \in exists
      PROVE  WholeAs(f, 1, 0)
  <2>1. block[f] = Formatted(1)
    BY <1>7, MountsAssumption DEF Init
  <2>2. /\ \A i \in 0 .. (t - 1) : 1 + i \in 1 .. (t + s)
        /\ \A i \in 0 .. (s - 1) : 1 + t + i \in 1 .. (t + s)
    <3> HIDE DEF t, s
    <3> QED
      BY <1>5, SMT
  <2>3. HoldsTable(f, 1, 0)
    BY <1>6, <2>1, <2>2 DEF HoldsTable, TableOf
  <2>4. HoldsBits(f, 1, 0)
    BY <1>6, <2>1, <2>2 DEF HoldsBits, BitsOf
  <2> QED
    BY <1>6, <2>1, <2>3, <2>4 DEF WholeAs
<1>8. FilesAreSound
  <2>1. \A f \in exists : WholeFile(f)
    BY <1>4, <1>7, Zenon DEF WholeFile
  <2>2. \A f \in exists : HasSuper(f)
    BY <1>4, <1>7, Zenon DEF HasSuper, WholeAs
  <2> QED
    BY <2>1, <2>2 DEF FilesAreSound, Sound
<1> QED
  BY <1>2, <1>3, <1>8 DEF Whole

\* A mount finds a table and a bitmap of one moment in the places its superblock
\* names, unless one of the Harms has come, a sync of the file was torn or the
\* bitmap was read short - for any number of files, mounts, runs of the tool,
\* writes and failures, and any size whose areas are in place.
THEOREM MountsFindWholeFiles ==
    ASSUME AreasInPlace
    PROVE  Spec => []FoundWhole
<1>1. Init => Typed /\ Alone /\ WholeInv
  BY InitIsTyped, InitIsAlone, InitIsWhole DEF WholeInv
<1>2. Typed /\ Alone /\ WholeInv /\ [Next]_vars => (Typed /\ Alone /\ WholeInv)'
  <2>1. ASSUME Typed, Alone, [Next]_vars
        PROVE  Typed' /\ Alone'
    BY <2>1, FilesTypedIsInductive, ToolTypedIsInductive, PathsTypedIsInductive,
       MountsTypedIsInductive, HistoryTypedIsInductive, TypedImplies, AloneIsInductive, Zenon
       DEF Typed
  <2> QED
    BY <2>1, WholeIsInductive
<1>3. Typed /\ Alone /\ WholeInv => FoundWhole
  <2> SUFFICES ASSUME Clean, Whole, NEW m \in Mount, mnt[m].at = "bitmap", ~mnt[m].mixed
               PROVE  \E moment \in 0 .. MaxMounts : WholeFrom(m, moment)
    BY DEF FoundWhole, WholeInv, Clean
  <2> QED
    BY DEF Whole, Remembers
<1> QED
  BY <1>1, <1>2, <1>3, PTL DEF Spec
=============================================================================

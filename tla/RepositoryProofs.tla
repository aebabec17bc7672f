-------------------------- MODULE RepositoryProofs --------------------------
(* What holds of the repository for any files, contents, hashes and slots.  *)
EXTENDS Repository, TLAPS

Disk == [data: Contents \cup {Torn}, disk: Contents \cup {Torn}]
TmpFile == [data: {Torn} \cup Contents \cup Snapshot, disk: {Torn} \cup Contents \cup Snapshot]
Current == [path: Paths, hash: Hashes, slot: 0..MaxSlot]

(* Where the process has a current file, where it has none, and where the   *)
(* temporary file is open or has been flushed.                              *)
WithFile == {"hash", "probe", "open", "dirs", "syncNewOuter", "mkInner", "syncOuter", "syncInner"}
WithoutFile == {"idle", "review", "files", "gc"}
TmpFlushed == {"dirs", "syncNewOuter", "mkInner", "syncOuter", "rename"}

Control ==
    /\ pc \in WithFile => cur # None
    /\ pc \in WithoutFile => cur = None
    /\ cur # None => seen[cur.path] \in Contents
    /\ pc \in {"write", "flush"} \cup TmpFlushed => tmp \in TmpFile
    /\ pc \in {"flush"} \cup TmpFlushed => tmp.data \in IF cur = None THEN {points} ELSE Contents
    /\ pc \in TmpFlushed => tmp.disk = tmp.data
    /\ pc \in {"syncInner", "syncRepo"} /\ cur # None => vfile[Key] \in Disk

TypeInv == TypeOK /\ Control

-----------------------------------------------------------------------------
(* None is not a file, a key, a content or a directory entry.               *)
LEMMA NoneIsNothing ==
    /\ None \notin Contents \cup {Torn} /\ None \notin Keys /\ None \notin Current
    /\ None \notin Disk /\ None \notin TmpFile /\ Torn \notin Contents
BY ValuesAssumption DEF Current, Disk, TmpFile

(* The name of the current file is one of the names of stored files.        *)
LEMMA KeyType == ASSUME cur \in Current PROVE Key \in Keys
BY DEF Current, Key, Keys

(* The directories of the current file are directories of the repository.   *)
LEMMA DirType == ASSUME cur \in Current PROVE InnerDir \in Inner /\ OuterDir \in Outer
BY DirsAssumption DEF Current, InnerDir, OuterDir

(* Syncing the repository directory keeps the types of what is on the device. *)
LEMMA SyncEntriesType ==
    ASSUME TypeOK, SyncEntriesOfRepo
    PROVE  ddirs' \in SUBSET Dirs /\ dmeta' \in {Torn, None} \cup Snapshot /\ dfile' = dfile
BY DEF TypeOK, SyncEntriesOfRepo, OnDisk, Stored, Dirs

(* A set of versions stays one when versions are dropped or added.          *)
LEMMA SnapshotType ==
    /\ {} \in Snapshot
    /\ \A S \in Snapshot : \A T \in SUBSET S : T \in Snapshot
    /\ \A S \in Snapshot, v \in Version : S \cup {v} \in Snapshot
BY DEF Snapshot

(* FileDone() adds a version of the current file.                           *)
LEMMA FileDoneType ==
    ASSUME TypeOK, cur # None, NEW c \in Contents \cup {Torn}, NEW k \in Keys \cup {None},
           FileDone(c, k)
    PROVE  /\ points' \in Snapshot
           /\ seen' \in [Paths -> Contents \cup {None}]
           /\ fresh' = fresh /\ cur' = None /\ pc' = "files"
<1>1. cur.path \in Paths
    BY DEF TypeOK
<1>2. [path |-> cur.path, content |-> c, key |-> k] \in Version
    BY <1>1 DEF Version
<1> QED
    BY <1>1, <1>2, SnapshotType DEF TypeOK, FileDone

(* The repository starts with the right types and without a process.        *)
LEMMA InitType == Init => TypeInv
BY ContentsAssumption, SnapshotType
DEF Init, TypeInv, TypeOK, Control, Stored, NoMore, Steps, WithFile, WithoutFile, TmpFlushed

-----------------------------------------------------------------------------
(* Every step keeps the types and what the position of the process implies. *)
LEMMA NextType == TypeInv /\ [Next]_vars => TypeInv'
<1> SUFFICES ASSUME TypeInv, [Next]_vars PROVE TypeInv'
    OBVIOUS
<1> USE DEF TypeInv, TypeOK, Control, Steps, WithFile, WithoutFile, TmpFlushed
<1> USE NoneIsNothing
<1>1. CASE StartBackup
    <2>1. PICK kept \in SUBSET Loaded, todo \in SUBSET Paths :
              /\ points' = kept
              /\ seen' = [p \in Paths |-> IF p \in todo THEN source[p] ELSE None]
              /\ fresh' \in SUBSET todo
        BY <1>1 DEF StartBackup
    <2>2. Loaded \in Snapshot
        BY <1>1, SnapshotType DEF StartBackup, Loaded, Stored
    <2>3. points' \in Snapshot
        BY <2>1, <2>2, SnapshotType
    <2> QED
        BY <1>1, <2>1, <2>3 DEF StartBackup, visible, device
<1>2. CASE Review
    <2>1. CASE pc' = "files" /\ UNCHANGED memory
        BY <1>2, <2>1 DEF Review, user, visible, device, memory
    <2>2. CASE Exit
        BY <1>2, <2>2, SnapshotType DEF Review, Exit, NoMore, user, visible, device
    <2> QED
        BY <1>2, <2>1, <2>2 DEF Review
<1>3. ASSUME NEW p \in Paths, StatFile(p) PROVE TypeInv'
    <2>1. CASE Exit
        BY <1>3, <2>1, SnapshotType DEF StatFile, Exit, NoMore, user, visible, device
    <2>2. CASE cur' = [path |-> p, hash |-> HashOf[seen[p]], slot |-> 0]
               /\ pc' \in {"probe", "hash"} /\ UNCHANGED <<points, seen, fresh>>
        <3>1. seen[p] \in Contents /\ HashOf[seen[p]] \in Hashes /\ 0 \in 0..MaxSlot
            BY <1>3, ContentsAssumption DEF StatFile
        <3>2. cur' \in Current
            BY <2>2, <3>1 DEF Current
        <3>3. cur' # None /\ cur'.path = p
            BY <2>2, <3>2 DEF Current
        <3> QED
            BY <1>3, <2>2, <3>1, <3>2, <3>3 DEF StatFile, user, visible, device, Current
    <2> QED
        BY <1>3, <2>1, <2>2 DEF StatFile
<1>4. CASE ReadSmallFile
    BY <1>4, FileDoneType DEF ReadSmallFile, user, visible, device
<1>5. CASE HashLargeFile
    <2>1. PICK h \in Hashes : cur' = [cur EXCEPT !.hash = h]
        BY <1>5 DEF HashLargeFile
    <2>2. cur' \in Current /\ cur'.path = cur.path
        BY <1>5, <2>1 DEF HashLargeFile, Current
    <2> QED
        BY <1>5, <2>2 DEF HashLargeFile, user, visible, device, Current
<1>6. CASE SearchDuplicate
    BY <1>6, FileDoneType, KeyType, SnapshotType, ContentsAssumption
    DEF SearchDuplicate, SlotFree, SlotEqual, NextSlot, Copy, UseStored, Exit, NoMore, user,
        visible, device, memory, Current, Key, Stored
<1>7. CASE ReadFails
    BY <1>7, SnapshotType DEF ReadFails, Exit, NoMore, user, visible, device
<1>31. CASE SizeDiffers
    BY <1>31, SnapshotType DEF SizeDiffers, Exit, NoMore, user, visible, device
<1>8. CASE OpenTmp
    BY <1>8 DEF OpenTmp, Stored, TmpFile, user, visible, device, memory, Key
<1>9. CASE WriteTmp
    BY <1>9 DEF WriteTmp, Stored, TmpFile, user, visible, device, memory, Key
<1>10. CASE FlushTmp
    BY <1>10 DEF FlushTmp, Stored, TmpFile, user, visible, device, memory, Key
<1>11. CASE DirsExist
    BY <1>11 DEF DirsExist, user, visible, device, memory, Key
<1>12. CASE MkOuter
    <2>1. OuterDir \in Dirs
        BY <1>12, DirType DEF MkOuter, Current, Dirs
    <2>2. dfile' \in [Keys -> Contents \cup {Torn, None}]
        BY <1>12 DEF MkOuter
    <2> QED
        BY <1>12, <2>1, <2>2 DEF MkOuter, user, memory, Key
<1>13. CASE SyncNewOuter
    BY <1>13, SyncEntriesType DEF SyncNewOuter, user, visible, memory, Key
<1>14. CASE MkInner
    <2>1. InnerDir \in Dirs
        BY <1>14, DirType DEF MkInner, Current, Dirs
    <2>2. dfile' \in [Keys -> Contents \cup {Torn, None}]
        BY <1>14 DEF MkInner
    <2> QED
        BY <1>14, <2>1, <2>2 DEF MkInner, user, memory, Key
<1>15. CASE SyncOuter
    BY <1>15 DEF SyncOuter, user, visible, device, memory, Key
<1>16. CASE Rename
    BY <1>16, KeyType DEF Rename, user, visible, device, memory, Key, Current, Stored, TmpFile, Disk
<1>17. CASE SyncInner
    <2>1. dfile' \in [Keys -> Contents \cup {Torn, None}]
        BY <1>17 DEF SyncInner, OnDisk, Stored
    <2> QED
        BY <1>17, <2>1 DEF SyncInner, user, visible, memory, Key
<1>18. CASE SyncRepo
    <2>1. SyncEntriesOfRepo /\ UNCHANGED <<user, visible, tmp>>
        BY <1>18 DEF SyncRepo
    <2>2. CASE cur = None /\ pc' = "gc" /\ UNCHANGED memory
        BY <1>18, <2>1, <2>2, SyncEntriesType DEF SyncRepo, user, visible, memory
    <2>3. CASE cur # None /\ FileDone(vfile[Key].data, Key)
        <3>1. Key \in Keys /\ vfile[Key].data \in Contents \cup {Torn}
            BY <1>18, <2>3, KeyType DEF SyncRepo, Current, Disk
        <3> QED
            BY <2>1, <2>3, <3>1, SyncEntriesType, FileDoneType DEF user, visible
    <2> QED
        BY <1>18, <2>2, <2>3 DEF SyncRepo
<1>19. CASE StartGC
    BY <1>19 DEF StartGC, Stored, user, visible, device
<1>20. ASSUME NEW k \in Keys, GCRemoveFile(k) PROVE TypeInv'
    BY <1>20 DEF GCRemoveFile, Stored, user, device, memory
<1>21. ASSUME NEW d \in Dirs, GCRemoveDir(d) PROVE TypeInv'
    BY <1>21 DEF GCRemoveDir, user, device, memory
<1>22. CASE GCRemoveTmp
    BY <1>22 DEF GCRemoveTmp, Stored, user, visible, device, memory
<1>23. CASE GCDone
    BY <1>23, SnapshotType DEF GCDone, Exit, NoMore, user, visible, device
<1>24. ASSUME NEW p \in Paths, UserWrite(p) PROVE TypeInv'
    <2>1. source' \in [Paths -> Contents] /\ touched' \in SUBSET Paths /\ slipped' \in SUBSET Paths
        BY <1>24 DEF UserWrite
    <2>2. UNCHANGED <<visible, device, tmp, pc, memory>>
        BY <1>24 DEF UserWrite
    <2> QED
        BY <2>1, <2>2 DEF visible, device, memory, Key
<1>25. CASE Kill
    BY <1>25, SnapshotType DEF Kill, Exit, NoMore, user, visible, device
<1>26. ASSUME NEW k \in Keys, WritebackFile(k) PROVE TypeInv'
    BY <1>26 DEF WritebackFile, OnDisk, Stored, user, visible, memory, Key
<1>27. ASSUME NEW d \in Dirs, WritebackDir(d) PROVE TypeInv'
    BY <1>27 DEF WritebackDir, user, visible, memory, Key
<1>28. CASE WritebackMetadata
    BY <1>28 DEF WritebackMetadata, OnDisk, Stored, user, visible, memory, Key
<1>29. CASE PowerLoss
    BY <1>29, SnapshotType DEF PowerLoss, Exit, NoMore, OnDevice, Reread, Stored, user
<1>30. CASE UNCHANGED vars
    BY <1>30 DEF vars, user, visible, device, memory, Key
<1> QED
    BY <1>1, <1>2, <1>3, <1>4, <1>5, <1>6, <1>7, <1>8, <1>9, <1>10, <1>11, <1>12, <1>13,
       <1>14, <1>15, <1>16, <1>17, <1>18, <1>19, <1>20, <1>21, <1>22, <1>23, <1>24, <1>25,
       <1>26, <1>27, <1>28, <1>29, <1>30, <1>31
    DEF Next, Work, Environment

(* Whatever the faults, the repository, the device and the memory of the    *)
(* process hold what the code gives them: slots stay below the limit and    *)
(* metadata in use is never torn.                                           *)
THEOREM RepositoryTypeCorrect == Spec => []TypeOK
<1>1. TypeInv => TypeOK
    BY DEF TypeInv
<1> QED
    BY InitType, NextType, <1>1, PTL DEF Spec

-----------------------------------------------------------------------------
(* Without power failures a name is taken once and for all: the file that   *)
(* is being written is not there yet, everything the metadata refers to is, *)
(* and the collector works with the metadata that is in the repository.     *)
Intact(S) == \A pt \in S : VisibleContent(pt) = pt.content

KeyIsFree == pc \in {"open", "write", "flush", "rename"} \cup TmpFlushed /\ cur # None
                => vfile[Key] = None
Collected == pc = "gc" \/ (pc = "syncRepo" /\ cur = None)

VisibleInv ==
    /\ \A k \in Keys : vfile[k] # None => vfile[k].data \in Contents
    /\ vmeta # None => vmeta.data \in Snapshot /\ Intact(vmeta.data)
    /\ Intact(points)
    /\ \A pt \in points : pt.content \in Contents
    /\ vmeta # None => \A pt \in vmeta.data : pt.content \in Contents
    /\ KeyIsFree
    /\ Collected /\ vmeta # None => points = vmeta.data

(* A version that can be restored has a file, unless it needs none.         *)
LEMMA IntactKeys ==
    ASSUME NEW S \in Snapshot, Intact(S), NEW pt \in S, pt.key # None
    PROVE  pt.key \in Keys /\ vfile[pt.key] # None
<1>1. pt \in Version
    BY DEF Snapshot
<1>2. pt.content \in Contents \cup {Torn} /\ pt.key \in Keys
    BY <1>1 DEF Version
<1>3. pt.content # None
    BY <1>2, ValuesAssumption
<1> QED
    BY <1>2, <1>3 DEF Intact, VisibleContent, Data

(* Versions stay restorable as long as none of their files is touched.      *)
LEMMA IntactStays ==
    ASSUME NEW S \in Snapshot, Intact(S),
           \A k \in Keys : k \in Referenced(S) => vfile'[k] = vfile[k]
    PROVE  Intact(S)' /\ \A pt \in S : VisibleContent(pt)' = VisibleContent(pt)
<1> SUFFICES ASSUME NEW pt \in S
             PROVE  VisibleContent(pt)' = VisibleContent(pt) /\ VisibleContent(pt) = pt.content
    BY DEF Intact
<1>1. CASE pt.key = None
    BY <1>1 DEF VisibleContent, Intact
<1>2. CASE pt.key # None
    <2>1. pt.key \in Keys /\ pt.key \in Referenced(S)
        BY <1>2, IntactKeys DEF Referenced
    <2> QED
        BY <1>2, <2>1 DEF VisibleContent, Data, Intact
<1> QED
    BY <1>1, <1>2

(* A completed version is restorable when its file has its content.         *)
LEMMA IntactGrows ==
    ASSUME TypeOK, Intact(points), cur # None, UNCHANGED vfile,
           NEW c \in Contents, NEW k \in Keys \cup {None}, FileDone(c, k),
           \A pt \in points : pt.content \in Contents,
           k # None => vfile[k] # None /\ vfile[k].data = c
    PROVE  Intact(points)' /\ \A pt \in points' : pt.content \in Contents
BY DEF Intact, VisibleContent, Data, FileDone

(* The invariant stays when neither the repository nor the versions change  *)
(* and the process does not come nearer to a collection.                    *)
LEMMA VisibleStays ==
    ASSUME VisibleInv, UNCHANGED <<vfile, vmeta>>, KeyIsFree',
           \/ points' = points /\ (Collected' => Collected)
           \/ points' = {} /\ ~Collected'
    PROVE  VisibleInv'
<1>1. Intact(points)' /\ \A pt \in points' : pt.content \in Contents
    BY DEF VisibleInv, Intact, VisibleContent
<1>2. vmeta # None => Intact(vmeta.data)'
    BY DEF VisibleInv, Intact, VisibleContent
<1> QED
    BY <1>1, <1>2 DEF VisibleInv

(* A process that ends leaves what is visible as it is.                     *)
LEMMA VisibleExit ==
    ASSUME VisibleInv, UNCHANGED <<vfile, vmeta>>, Exit
    PROVE  VisibleInv'
BY VisibleStays DEF Exit, KeyIsFree, Collected, TmpFlushed

(* So does one that is on its way from the free name to the rename.         *)
LEMMA VisibleWriting ==
    ASSUME VisibleInv, cur # None => pc \in {"open", "write", "flush"} \cup TmpFlushed,
           UNCHANGED <<vfile, vmeta, points, cur>>, pc' \notin {"gc", "syncRepo"}
    PROVE  VisibleInv'
<1>1. Key' = Key /\ ~Collected'
    BY DEF Key, Collected
<1>2. KeyIsFree'
    BY <1>1 DEF VisibleInv, KeyIsFree
<1> QED
    BY <1>1, <1>2, VisibleStays

(* So does one that completes a version whose file is there.                *)
LEMMA VisibleFileDone ==
    ASSUME TypeInv, VisibleInv, cur # None, UNCHANGED <<vfile, vmeta>>,
           NEW c \in Contents, NEW k \in Keys \cup {None}, FileDone(c, k),
           k # None => vfile[k] # None /\ vfile[k].data = c
    PROVE  VisibleInv'
<1>1. pc' = "files" /\ cur' = None
    BY DEF FileDone
<1>2. Intact(points)' /\ \A pt \in points' : pt.content \in Contents
    BY IntactGrows DEF TypeInv, VisibleInv
<1>3. vmeta # None => Intact(vmeta.data)'
    BY DEF VisibleInv, Intact, VisibleContent
<1> QED
    BY <1>1, <1>2, <1>3 DEF VisibleInv, KeyIsFree, Collected, TmpFlushed

(* An empty repository refers to nothing.                                   *)
LEMMA InitVisible == Init => VisibleInv
BY DEF Init, VisibleInv, Intact, KeyIsFree, Collected, TmpFlushed

(* Every step but a power failure keeps what is referred to restorable.     *)
LEMMA NextVisible ==
    ASSUME ~MayLosePower
    PROVE  TypeInv /\ VisibleInv /\ [Next]_vars => VisibleInv'
<1> SUFFICES ASSUME TypeInv, VisibleInv, [Next]_vars PROVE VisibleInv'
    OBVIOUS
<1>1. CASE StartBackup
    <2>1. PICK kept \in SUBSET Loaded : points' = kept
        BY <1>1 DEF StartBackup
    <2>2. pc' = "review" /\ UNCHANGED <<vfile, vmeta>>
        BY <1>1 DEF StartBackup, visible
    <2>3. Intact(points)' /\ \A pt \in points' : pt.content \in Contents
        BY <2>1, <2>2 DEF VisibleInv, Loaded, Intact, VisibleContent
    <2>4. vmeta # None => Intact(vmeta.data)'
        BY <2>2 DEF VisibleInv, Intact, VisibleContent
    <2> QED
        BY <2>2, <2>3, <2>4 DEF VisibleInv, KeyIsFree, Collected, TmpFlushed
<1>2. CASE Review
    <2>1. UNCHANGED <<vfile, vmeta>>
        BY <1>2 DEF Review, visible
    <2>2. CASE pc' = "files" /\ UNCHANGED memory
        BY <2>1, <2>2, VisibleStays DEF memory, KeyIsFree, Collected, TmpFlushed
    <2> QED
        BY <1>2, <2>1, <2>2, VisibleExit DEF Review
<1>3. ASSUME NEW p \in Paths, StatFile(p) PROVE VisibleInv'
    <2>1. UNCHANGED <<vfile, vmeta>>
        BY <1>3 DEF StatFile, visible
    <2>2. CASE pc' \in {"probe", "hash"} /\ UNCHANGED points
        BY <2>1, <2>2, VisibleStays DEF KeyIsFree, Collected, TmpFlushed
    <2> QED
        BY <1>3, <2>1, <2>2, VisibleExit DEF StatFile
<1>4. CASE ReadSmallFile
    <2>1. UNCHANGED <<vfile, vmeta>>
        BY <1>4 DEF ReadSmallFile, visible
    <2>2. cur # None
        BY <1>4 DEF ReadSmallFile, TypeInv, Control, WithFile
    <2>3. PICK c \in Contents : FileDone(c, None)
        BY <1>4, <2>2 DEF ReadSmallFile, TypeInv, TypeOK, Control
    <2> QED
        BY <2>1, <2>2, <2>3, VisibleFileDone
<1>5. CASE HashLargeFile
    <2>1. pc' = "probe" /\ UNCHANGED <<vfile, vmeta, points>>
        BY <1>5 DEF HashLargeFile, visible
    <2> QED
        BY <2>1, VisibleStays DEF KeyIsFree, Collected, TmpFlushed
<1>6. CASE SearchDuplicate
    <2>1. UNCHANGED <<vfile, vmeta>> /\ pc = "probe" /\ cur # None
        BY <1>6 DEF SearchDuplicate, visible, TypeInv, Control, WithFile
    <2>2. CASE SlotFree /\ Copy
        <3>1. vfile[Key] = None /\ pc' = "open" /\ UNCHANGED <<points, cur, Key>>
            BY <2>2 DEF SlotFree, Copy, memory, Key
        <3>2. KeyIsFree'
            BY <2>1, <3>1 DEF KeyIsFree
        <3> QED
            BY <2>1, <3>1, <3>2, VisibleStays DEF Collected
    <2>3. CASE SlotEqual /\ UseStored
        <3>1. Key \in Keys /\ vfile[Key] # None /\ FileDone(vfile[Key].data, Key)
            BY <2>1, <2>3, KeyType DEF SlotEqual, SlotFree, UseStored, TypeInv, TypeOK, Current
        <3>2. vfile[Key].data \in Contents
            BY <3>1 DEF VisibleInv
        <3> QED
            BY <2>1, <3>1, <3>2, VisibleFileDone
    <2>4. CASE NextSlot(cur.slot + 1)
        BY <2>1, <2>4, VisibleStays DEF NextSlot, KeyIsFree, Collected, TmpFlushed
    <2> QED
        BY <1>6, <2>1, <2>2, <2>3, <2>4, VisibleExit DEF SearchDuplicate
<1>7. CASE ReadFails
    BY <1>7, VisibleExit DEF ReadFails, visible
<1>27. CASE SizeDiffers
    BY <1>27, VisibleExit DEF SizeDiffers, visible
<1>8. CASE OpenTmp
    BY <1>8, VisibleWriting
    DEF OpenTmp, visible, memory, TypeInv, Control, WithoutFile, TmpFlushed
<1>9. CASE WriteTmp
    BY <1>9, VisibleWriting
    DEF WriteTmp, visible, memory, TypeInv, Control, WithoutFile, TmpFlushed
<1>10. CASE FlushTmp
    BY <1>10, VisibleWriting
    DEF FlushTmp, visible, memory, TypeInv, Control, WithoutFile, TmpFlushed
<1>11. CASE DirsExist
    BY <1>11, VisibleWriting
    DEF DirsExist, visible, memory, TypeInv, Control, WithoutFile, TmpFlushed
<1>12. CASE MkOuter
    BY <1>12, VisibleWriting
    DEF MkOuter, visible, memory, TypeInv, Control, WithoutFile, TmpFlushed
<1>13. CASE SyncNewOuter
    BY <1>13, VisibleWriting
    DEF SyncNewOuter, visible, memory, TypeInv, Control, WithoutFile, TmpFlushed
<1>14. CASE MkInner
    BY <1>14, VisibleWriting
    DEF MkInner, visible, memory, TypeInv, Control, WithoutFile, TmpFlushed
<1>15. CASE SyncOuter
    BY <1>15, VisibleWriting
    DEF SyncOuter, visible, memory, TypeInv, Control, WithoutFile, TmpFlushed
<1>16. CASE Rename
    <2>1. CASE cur = None
        <3>1. /\ vmeta' = tmp /\ vmeta'.data = points /\ vmeta' # None
              /\ pc' = "syncRepo" /\ UNCHANGED <<vfile, points, cur>>
            BY <1>16, <2>1, NoneIsNothing
            DEF Rename, visible, memory, TypeInv, Control, TmpFlushed
        <3>2. Intact(points)'
            BY <3>1 DEF VisibleInv, Intact, VisibleContent
        <3> QED
            BY <2>1, <3>1, <3>2 DEF VisibleInv, KeyIsFree, TypeInv, TypeOK, Intact, VisibleContent
    <2>2. CASE cur # None
        <3>1. /\ vfile' = [vfile EXCEPT ![Key] = tmp]
              /\ pc' = "syncInner" /\ UNCHANGED <<vmeta, points, cur>>
            BY <1>16, <2>2 DEF Rename, memory
        <3>2. Key \in Keys /\ vfile[Key] = None /\ tmp.data \in Contents
            BY <1>16, <2>2, KeyType
            DEF Rename, TypeInv, TypeOK, Control, TmpFlushed, Current, VisibleInv, KeyIsFree
        <3>3. ASSUME NEW S \in Snapshot, Intact(S) PROVE Intact(S)'
            <4>1. Key \notin Referenced(S)
                BY <3>2, <3>3, IntactKeys DEF Referenced
            <4>2. \A k \in Keys : k \in Referenced(S) => vfile'[k] = vfile[k]
                BY <3>1, <4>1 DEF TypeInv, TypeOK
            <4> QED
                BY <3>3, <4>2, IntactStays
        <3>4. Intact(points)' /\ (vmeta # None => Intact(vmeta.data)')
            BY <3>1, <3>3 DEF VisibleInv, TypeInv, TypeOK, Intact, VisibleContent
        <3>5. \A k \in Keys : vfile'[k] # None => vfile'[k].data \in Contents
            BY <3>1, <3>2 DEF VisibleInv, TypeInv, TypeOK
        <3> QED
            BY <2>2, <3>1, <3>4, <3>5 DEF VisibleInv, KeyIsFree, Collected, TmpFlushed
    <2> QED
        BY <2>1, <2>2
<1>17. CASE SyncInner
    BY <1>17, VisibleStays DEF SyncInner, visible, memory, KeyIsFree, Collected, TmpFlushed, TypeInv,
       Control, WithFile
<1>18. CASE SyncRepo
    <2>1. UNCHANGED <<vfile, vmeta>> /\ pc = "syncRepo"
        BY <1>18 DEF SyncRepo, visible
    <2>2. CASE cur = None /\ pc' = "gc" /\ UNCHANGED memory
        BY <2>1, <2>2, VisibleStays DEF memory, KeyIsFree, Collected, TmpFlushed
    <2>3. CASE cur # None /\ FileDone(vfile[Key].data, Key)
        <3>1. Key \in Keys /\ vfile[Key] # None
            BY <2>1, <2>3, KeyType, NoneIsNothing DEF TypeInv, TypeOK, Control, Current
        <3>2. vfile[Key].data \in Contents
            BY <3>1 DEF VisibleInv
        <3> QED
            BY <2>1, <2>3, <3>1, <3>2, VisibleFileDone
    <2> QED
        BY <1>18, <2>2, <2>3 DEF SyncRepo
<1>19. CASE StartGC
    <2>1. UNCHANGED <<vfile, vmeta, cur>> /\ vmeta # None /\ points' = vmeta.data /\ pc' = "gc"
        BY <1>19 DEF StartGC, visible
    <2>2. Intact(points)'
        BY <2>1 DEF VisibleInv, Intact, VisibleContent
    <2> QED
        BY <2>1, <2>2 DEF VisibleInv, KeyIsFree, TmpFlushed, Intact, VisibleContent
<1>20. ASSUME NEW k \in Keys, GCRemoveFile(k) PROVE VisibleInv'
    <2>1. /\ pc = "gc" /\ pc' = "gc" /\ UNCHANGED <<vmeta, points, cur>>
          /\ vfile' = [vfile EXCEPT ![k] = None] /\ k \notin Referenced(points)
        BY <1>20 DEF GCRemoveFile, Unused, memory
    <2>2. \A j \in Keys : j # k => vfile'[j] = vfile[j]
        BY <2>1 DEF TypeInv, TypeOK
    <2>3. points \in Snapshot /\ Intact(points)
        BY DEF TypeInv, TypeOK, VisibleInv
    <2>4. Intact(points)'
        <3>1. \A j \in Keys : j \in Referenced(points) => vfile'[j] = vfile[j]
            BY <2>1, <2>2
        <3>2. \A pt \in points : VisibleContent(pt)' = VisibleContent(pt)
            BY <2>3, <3>1, IntactStays
        <3> QED
            BY <2>1, <2>3, <3>2 DEF Intact
    <2>5. vmeta # None => points = vmeta.data
        BY <2>1 DEF VisibleInv, Collected
    <2>6. \A j \in Keys : vfile'[j] # None => vfile'[j].data \in Contents
        BY <2>1 DEF VisibleInv, TypeInv, TypeOK
    <2> QED
        BY <2>1, <2>4, <2>5, <2>6 DEF VisibleInv, KeyIsFree, TmpFlushed, Intact
<1>21. ASSUME NEW d \in Dirs, GCRemoveDir(d) PROVE VisibleInv'
    BY <1>21, VisibleStays DEF GCRemoveDir, memory, KeyIsFree, Collected, TmpFlushed
<1>22. CASE GCRemoveTmp
    BY <1>22, VisibleStays DEF GCRemoveTmp, visible, memory, KeyIsFree, Collected, TmpFlushed
<1>23. CASE GCDone
    BY <1>23, VisibleExit DEF GCDone, visible
<1>24. ASSUME NEW p \in Paths, UserWrite(p) PROVE VisibleInv'
    <2>1. UNCHANGED <<visible, pc, memory>>
        BY <1>24 DEF UserWrite
    <2> QED
        BY <2>1, VisibleStays DEF VisibleInv, visible, memory, KeyIsFree, Key, Collected
<1>25. CASE Kill
    BY <1>25, VisibleExit DEF Kill, visible
<1>26. CASE UNCHANGED vars
    BY <1>26, VisibleStays DEF VisibleInv, vars, visible, memory, KeyIsFree, Key, Collected
<1> QED
    BY <1>1, <1>2, <1>3, <1>4, <1>5, <1>6, <1>7, <1>8, <1>9, <1>10, <1>11, <1>12, <1>13,
       <1>14, <1>15, <1>16, <1>17, <1>18, <1>19, <1>20, <1>21, <1>22, <1>23, <1>24, <1>25, <1>26, <1>27
    DEF Next, Work, Environment, WritebackFile, WritebackDir, WritebackMetadata, PowerLoss

(* On a machine that keeps its power, whatever the process is killed in,    *)
(* however many runs were cut off before and whatever the user does to the  *)
(* files meanwhile, all that the metadata refers to can be restored.        *)
THEOREM BackupsStayRestorable ==
    ASSUME ~MayLosePower PROVE Spec => []VisibleIntact
<1>1. VisibleInv => VisibleIntact
    BY DEF VisibleInv, VisibleIntact, Intact
<1> QED
    BY InitType, NextType, InitVisible, NextVisible, <1>1, PTL DEF Spec

(* Nor is the file of a version ever replaced under its name.               *)
THEOREM StoredFilesKeepTheirContent ==
    ASSUME ~MayLosePower PROVE Spec => NeverOverwritten
<1>1. TypeInv /\ VisibleInv /\ [Next]_vars
          => [\A k \in Keys : vfile[k] # None => vfile'[k] \in {vfile[k], None}]_vars
    <2> SUFFICES ASSUME TypeInv, VisibleInv, Next, NEW k \in Keys, vfile[k] # None
                 PROVE  vfile'[k] \in {vfile[k], None}
        OBVIOUS
    <2>1. CASE UNCHANGED vfile
        BY <2>1
    <2>2. CASE Rename /\ cur # None
        <3>1. vfile' = [vfile EXCEPT ![Key] = tmp] /\ vfile[Key] = None
            BY <2>2 DEF Rename, VisibleInv, KeyIsFree
        <3> QED
            BY <3>1 DEF TypeInv, TypeOK
    <2>3. ASSUME NEW j \in Keys, GCRemoveFile(j) PROVE vfile'[k] \in {vfile[k], None}
        BY <2>3 DEF GCRemoveFile, TypeInv, TypeOK
    <2> QED
        BY <2>1, <2>2, <2>3
        DEF Next, Work, Environment, StartBackup, Review, StatFile, ReadSmallFile,
            HashLargeFile, SearchDuplicate, SizeDiffers, ReadFails, OpenTmp, WriteTmp, FlushTmp, DirsExist,
            MkOuter, SyncNewOuter, MkInner, SyncOuter, Rename, SyncInner, SyncRepo, StartGC,
            GCRemoveDir, GCRemoveTmp, GCDone, UserWrite, Kill, WritebackFile, WritebackDir,
            WritebackMetadata, PowerLoss, visible
<1> QED
    BY InitType, NextType, InitVisible, NextVisible, <1>1, PTL DEF Spec, NeverOverwritten

-----------------------------------------------------------------------------
(* The refinement: what can be restored, and what will be after a rename.   *)
Saved == {<<pt.path, VisibleContent(pt)>> : pt \in Loaded}
Candidate == CandidateUntil({"write", "flush", "rename"})
AsBackedUp(S) == {<<pt.path, pt.content>> : pt \in S}

(* Only the rename of the metadata and a power failure change the metadata. *)
LEMMA MetadataChange ==
    ASSUME ~MayLosePower, Next, vmeta' # vmeta
    PROVE  Rename /\ cur = None
BY DEF Next, Work, Environment, StartBackup, Review, StatFile, ReadSmallFile, HashLargeFile,
       SearchDuplicate, SizeDiffers, ReadFails, OpenTmp, WriteTmp, FlushTmp, DirsExist, MkOuter,
       SyncNewOuter, MkInner, SyncOuter, Rename, SyncInner, SyncRepo, StartGC, GCRemoveFile,
       GCRemoveDir, GCRemoveTmp, GCDone, UserWrite, Kill, WritebackFile, WritebackDir,
       WritebackMetadata, PowerLoss, visible

(* Metadata is being written from the moment the temporary file is opened,  *)
(* and what will be in it stays the same until then.                        *)
LEMMA WritingStep ==
    ASSUME ~MayLosePower, TypeInv, Next, Writing({"write", "flush", "rename"})'
    PROVE  \/ pc = "files" /\ cur = None /\ UNCHANGED points
           \/ Writing({"write", "flush", "rename"}) /\ UNCHANGED points
BY DEF Next, Work, Environment, StartBackup, Review, StatFile, ReadSmallFile, HashLargeFile,
       SearchDuplicate, SizeDiffers, ReadFails, OpenTmp, WriteTmp, FlushTmp, DirsExist, MkOuter,
       SyncNewOuter, MkInner, SyncOuter, Rename, SyncInner, SyncRepo, StartGC, GCRemoveFile,
       GCRemoveDir, GCRemoveTmp, GCDone, UserWrite, Kill, WritebackFile, WritebackDir,
       WritebackMetadata, PowerLoss, memory, Writing, TypeInv, Control, WithFile, FileDone, Exit,
       NextSlot, Copy, UseStored

(* An empty repository has nothing that can be restored.                    *)
LEMMA InitSeen == Init => Seen!Init
BY DEF Init, Seen!Init, Loaded, CandidateUntil, Writing

(* Every step is one of AtomicBackup or leaves its state alone.             *)
LEMMA NextSeen ==
    ASSUME ~MayLosePower
    PROVE  TypeInv /\ VisibleInv /\ VisibleInv' /\ [Next]_vars => [Seen!Next]_(Seen!vars)
<1> SUFFICES ASSUME TypeInv, VisibleInv, VisibleInv', [Next]_vars
             PROVE  \/ UNCHANGED <<Saved, Candidate>>
                    \/ Seen!Next
    BY DEF Seen!vars, Saved, Candidate
<1>1. Saved = AsBackedUp(Loaded) /\ Saved' = AsBackedUp(Loaded)'
    BY DEF VisibleInv, Intact, Saved, AsBackedUp, Loaded
<1>2. CASE UNCHANGED vars
    BY <1>2 DEF vars, visible, memory, Saved, Candidate, VisibleContent, Loaded, CandidateUntil, Writing
<1>3. CASE Next /\ vmeta' = vmeta
    <2>1. Saved' = Saved
        BY <1>1, <1>3 DEF AsBackedUp, Loaded
    <2>2. CASE ~Writing({"write", "flush", "rename"})'
        <3>1. Candidate' = None
            BY <2>2 DEF Candidate, CandidateUntil
        <3> QED
            BY <2>1, <3>1 DEF Seen!Next, Seen!Abandon, Saved, Candidate
    <2>3. CASE Writing({"write", "flush", "rename"})'
        <3>1. Candidate' = AsBackedUp(points)'
            BY <2>3 DEF Candidate, CandidateUntil, AsBackedUp
        <3>2. CASE Writing({"write", "flush", "rename"}) /\ UNCHANGED points
            BY <2>1, <3>1, <3>2 DEF Candidate, CandidateUntil, AsBackedUp
        <3>3. CASE pc = "files" /\ UNCHANGED points
            <4>1. Candidate = None
                BY <3>3 DEF Candidate, CandidateUntil, Writing
            <4>2. AsBackedUp(points) \in SUBSET (Paths \X Contents)
                BY DEF TypeInv, TypeOK, VisibleInv, Snapshot, Version, AsBackedUp
            <4>3. Candidate' = AsBackedUp(points) /\ Candidate' # None
                BY <3>1, <3>3, <4>2, ValuesAssumption DEF AsBackedUp
            <4> QED
                BY <2>1, <4>1, <4>2, <4>3 DEF Seen!Next, Seen!Prepare, Saved, Candidate
        <3> QED
            BY <1>3, <2>3, <3>2, <3>3, WritingStep
    <2> QED
        BY <2>2, <2>3
<1>4. CASE Next /\ vmeta' # vmeta
    <2>1. Rename /\ cur = None
        BY <1>4, MetadataChange
    <2>2. vmeta' = tmp /\ tmp.data = points /\ vmeta' # None /\ pc' = "syncRepo"
        BY <2>1, NoneIsNothing DEF Rename, TypeInv, Control, TmpFlushed
    <2>3. Saved' = AsBackedUp(points)
        BY <1>1, <2>2 DEF AsBackedUp, Loaded
    <2>4. Candidate = AsBackedUp(points) /\ Candidate' = None
        BY <2>1, <2>2 DEF Rename, Candidate, CandidateUntil, Writing, AsBackedUp
    <2>5. AsBackedUp(points) # None
        <3>1. AsBackedUp(points) \in SUBSET (Paths \X Contents)
            BY DEF TypeInv, TypeOK, VisibleInv, Snapshot, Version, AsBackedUp
        <3> QED
            BY <3>1, ValuesAssumption
    <2> QED
        BY <2>3, <2>4, <2>5 DEF Seen!Next, Seen!Commit, Saved, Candidate
<1> QED
    BY <1>2, <1>3, <1>4

(* A backup replaces what can be restored by what it saw in one step or not *)
(* at all: module Repository implements AtomicBackup.                       *)
THEOREM BackupsAreAtomic ==
    ASSUME ~MayLosePower PROVE Spec => SeenAtomic
BY InitType, NextType, InitVisible, NextVisible, InitSeen, NextSeen, PTL
DEF Spec, SeenAtomic, Seen!Spec

-----------------------------------------------------------------------------
(* What is below the name of a stored file, under every fault of the model: *)
(* kills and power failures at any moment.  The user leaves the files alone *)
(* during a backup.                                                         *)
(* Hashes of contents that are stored in files of their own do not collide. *)
NoCollisions ==
    \A c, d \in Contents : ~Small(c) /\ ~Small(d) /\ HashOf[c] = HashOf[d] => c = d

(* Content that may be stored below a hash.                                 *)
Fits(data, hash) == data \in Contents /\ ~Small(data) /\ HashOf[data] = hash

(* What the process knows of the file it stores is still true.              *)
ProcessKnows ==
    /\ \A p \in Paths : seen[p] \in {None, source[p]}
    /\ pc = "idle" => seen = NoMore
    /\ cur # None => cur.hash = HashOf[source[cur.path]]
    /\ cur # None /\ pc # "hash" => ~Small(source[cur.path])
    /\ pc \in {"flush"} \cup TmpFlushed /\ cur # None => tmp.data = source[cur.path]

(* Names, as they are visible and as they are on the device.                *)
NamesFit ==
    /\ \A k \in Keys : vfile[k] # None =>
            Fits(vfile[k].data, k[1]) /\ vfile[k].disk = vfile[k].data
    /\ \A k \in Keys : dfile[k] # None => Fits(dfile[k], k[1])

(* Without collisions no slot but the first is used.                        *)
OneSlot ==
    /\ \A k \in Keys : vfile[k] # None \/ dfile[k] # None => k[2] = 0
    /\ cur # None => cur.slot = 0

ContentInv == ProcessKnows /\ NamesFit /\ (NoCollisions => OneSlot)

-----------------------------------------------------------------------------
(* An empty repository and no process.                                      *)
LEMMA InitContent == Init => ContentInv
BY DEF Init, ContentInv, ProcessKnows, NamesFit, OneSlot, NoMore, TmpFlushed

(* A process that ends forgets what it knew.                                *)
LEMMA ContentExit ==
    ASSUME ContentInv, UNCHANGED <<source, vfile, dfile>>, Exit
    PROVE  ContentInv'
BY DEF Exit, ContentInv, ProcessKnows, NamesFit, OneSlot, NoMore, TmpFlushed

(* A step that writes no file and leaves what the process knows alone.      *)
LEMMA ContentGoesOn ==
    ASSUME ContentInv, UNCHANGED <<source, vfile, dfile, seen, cur>>, pc' # "idle",
           cur # None => pc # "hash" \/ pc' = "hash",
           pc' \in {"flush"} \cup TmpFlushed /\ cur # None => tmp'.data = source[cur.path]
    PROVE  ContentInv'
<1>1. ProcessKnows'
    BY DEF ContentInv, ProcessKnows
<1>2. NamesFit' /\ (NoCollisions => OneSlot')
    BY DEF ContentInv, NamesFit, OneSlot
<1> QED
    BY <1>1, <1>2 DEF ContentInv

(* A version is complete.                                                   *)
LEMMA ContentFileDone ==
    ASSUME TypeInv, ContentInv, UNCHANGED <<source, vfile, dfile>>, cur # None,
           NEW c, NEW k, FileDone(c, k)
    PROVE  ContentInv'
<1>1. /\ seen' = [seen EXCEPT ![cur.path] = None] /\ cur' = None /\ pc' = "files"
      /\ \A p \in Paths : seen'[p] \in {None, seen[p]}
    BY DEF FileDone, TypeInv, TypeOK
<1>2. ProcessKnows'
    BY <1>1 DEF ContentInv, ProcessKnows, TmpFlushed
<1>3. NamesFit' /\ (NoCollisions => OneSlot')
    BY <1>1 DEF ContentInv, NamesFit, OneSlot
<1> QED
    BY <1>2, <1>3 DEF ContentInv

(* The device takes over or loses entries, the process knows what it knew.  *)
LEMMA ContentWriteback ==
    ASSUME ContentInv, UNCHANGED <<source, vfile, tmp, seen, cur>>,
           pc' = "idle" => pc = "idle", pc = "hash" => pc' = "hash",
           pc' \in {"flush"} \cup TmpFlushed => pc \in {"flush"} \cup TmpFlushed,
           \A k \in Keys : dfile'[k] \in {None, dfile[k], OnDisk(vfile[k])}
    PROVE  ContentInv'
<1>1. ProcessKnows'
    BY DEF ContentInv, ProcessKnows
<1>2. NamesFit' /\ (NoCollisions => OneSlot')
    BY DEF ContentInv, NamesFit, OneSlot, OnDisk
<1> QED
    BY <1>1, <1>2 DEF ContentInv

-----------------------------------------------------------------------------
(* Every step keeps names and contents together.                            *)
LEMMA NextContent ==
    ASSUME StableSource
    PROVE  TypeInv /\ ContentInv /\ [Next]_vars => ContentInv'
<1> SUFFICES ASSUME TypeInv, ContentInv, [Next]_vars PROVE ContentInv'
    OBVIOUS
<1> USE NoneIsNothing
<1>1. CASE StartBackup
    <2>1. PICK todo \in SUBSET Paths : seen' = [p \in Paths |-> IF p \in todo THEN source[p] ELSE None]
        BY <1>1 DEF StartBackup
    <2>2. pc' = "review" /\ cur = None /\ UNCHANGED <<source, vfile, dfile, cur>>
        BY <1>1 DEF StartBackup, visible, device, TypeInv, Control, WithoutFile
    <2> QED
        BY <2>1, <2>2 DEF ContentInv, ProcessKnows, NamesFit, OneSlot
<1>2. CASE Review
    BY <1>2, ContentExit, ContentGoesOn
    DEF Review, user, visible, device, memory, TypeInv, Control, WithoutFile, TmpFlushed
<1>3. ASSUME NEW p \in Paths, StatFile(p) PROVE ContentInv'
    <2>1. UNCHANGED <<source, vfile, dfile>>
        BY <1>3 DEF StatFile, user, visible, device
    <2>2. CASE /\ cur' = [path |-> p, hash |-> HashOf[seen[p]], slot |-> 0]
               /\ pc' = (IF p \in fresh /\ ~Small(seen[p]) THEN "probe" ELSE "hash")
               /\ UNCHANGED seen
        <3>1. seen[p] = source[p] /\ cur'.path = p /\ cur'.hash = HashOf[seen[p]] /\ cur'.slot = 0
            BY <1>3, <2>2 DEF StatFile, ContentInv, ProcessKnows
        <3>2. ProcessKnows'
            BY <2>1, <2>2, <3>1 DEF ContentInv, ProcessKnows, TmpFlushed
        <3>3. NamesFit' /\ (NoCollisions => OneSlot')
            BY <2>1, <3>1 DEF ContentInv, NamesFit, OneSlot
        <3> QED
            BY <3>2, <3>3 DEF ContentInv
    <2> QED
        BY <1>3, <2>1, <2>2, ContentExit DEF StatFile
<1>4. CASE ReadSmallFile
    BY <1>4, ContentFileDone
    DEF ReadSmallFile, user, visible, device, TypeInv, Control, WithFile
<1>5. CASE HashLargeFile
    <2>1. /\ pc' = "probe" /\ ~Small(seen[cur.path]) /\ cur # None
          /\ UNCHANGED <<source, vfile, dfile, seen>>
        BY <1>5 DEF HashLargeFile, user, visible, device, TypeInv, Control, WithFile
    <2>2. cur \in Current /\ seen[cur.path] = source[cur.path]
        BY <2>1 DEF TypeInv, TypeOK, Control, Current, ContentInv, ProcessKnows
    <2>6. cur' = [cur EXCEPT !.hash = HashOf[source[cur.path]]]
        BY <1>5, <2>2 DEF HashLargeFile, SizeUnchanged
    <2>3. cur'.path = cur.path /\ cur'.hash = HashOf[source[cur.path]] /\ cur'.slot = cur.slot
        BY <2>2, <2>6 DEF Current
    <2>4. ProcessKnows'
        BY <2>1, <2>2, <2>3 DEF ContentInv, ProcessKnows, TmpFlushed
    <2>5. NamesFit' /\ (NoCollisions => OneSlot')
        BY <2>1, <2>3 DEF ContentInv, NamesFit, OneSlot
    <2> QED
        BY <2>4, <2>5 DEF ContentInv
<1>6. CASE SearchDuplicate
    <2>1. /\ pc = "probe" /\ cur \in Current /\ cur # None
          /\ UNCHANGED <<source, vfile, dfile, tmp>>
        BY <1>6
        DEF SearchDuplicate, user, visible, device, TypeInv, TypeOK, Control, WithFile, Current
    <2>2. CASE SlotFree /\ Copy
        BY <2>1, <2>2, ContentGoesOn DEF Copy, memory, TmpFlushed
    <2>3. CASE SlotEqual /\ UseStored
        BY <2>1, <2>3, ContentFileDone DEF UseStored
    <2>4. CASE ~SlotFree /\ ~SlotEqual /\ NextSlot(cur.slot + 1)
        <3>1. /\ cur' = [cur EXCEPT !.slot = cur.slot + 1] /\ UNCHANGED <<pc, seen>>
              /\ cur'.path = cur.path /\ cur'.hash = cur.hash
            BY <2>1, <2>4 DEF NextSlot, Current
        <3>2. ProcessKnows'
            BY <2>1, <3>1 DEF ContentInv, ProcessKnows, TmpFlushed
        <3>3. ~NoCollisions
            <4>1. Key \in Keys /\ Key[1] = cur.hash /\ vfile[Key] # None
                BY <2>1, <2>4, KeyType DEF SlotFree, Key
            <4>2. vfile[Key].data # source[cur.path]
                BY <2>4 DEF SlotEqual
            <4>3. Fits(vfile[Key].data, cur.hash) /\ Fits(source[cur.path], cur.hash)
                BY <2>1, <4>1 DEF ContentInv, NamesFit, ProcessKnows, Fits, TypeInv, TypeOK, Current
            <4> QED
                BY <4>2, <4>3 DEF NoCollisions, Fits
        <3>4. NamesFit'
            BY <2>1 DEF ContentInv, NamesFit
        <3> QED
            BY <3>2, <3>3, <3>4 DEF ContentInv
    <2> QED
        BY <1>6, <2>1, <2>2, <2>3, <2>4, ContentExit DEF SearchDuplicate
<1>7. CASE SizeDiffers \/ ReadFails \/ GCDone \/ Kill
    BY <1>7, ContentExit DEF SizeDiffers, ReadFails, GCDone, Kill, user, visible, device
<1>8. CASE OpenTmp
    BY <1>8, ContentGoesOn
    DEF OpenTmp, user, visible, device, memory, TypeInv, Control, WithoutFile, TmpFlushed
<1>9. CASE WriteTmp
    <2>1. cur # None => tmp'.data = source[cur.path]
        <3>1. pc = "write" /\ tmp \in TmpFile
            BY <1>9 DEF WriteTmp, TypeInv, Control
        <3> QED
            BY <1>9, <3>1 DEF WriteTmp, TmpFile
    <2> QED
        BY <1>9, <2>1, ContentGoesOn DEF WriteTmp, user, visible, device, memory
<1>10. CASE FlushTmp
    <2>1. tmp'.data = tmp.data
        BY <1>10 DEF FlushTmp, TypeInv, Control, TmpFile
    <2>2. cur # None => tmp.data = source[cur.path]
        BY <1>10 DEF FlushTmp, ContentInv, ProcessKnows
    <2> QED
        BY <1>10, <2>1, <2>2, ContentGoesOn DEF FlushTmp, user, visible, device, memory
<1>11. CASE DirsExist
    BY <1>11, ContentGoesOn
    DEF DirsExist, user, visible, device, memory, ContentInv, ProcessKnows, TmpFlushed
<1>12. CASE MkOuter \/ SyncNewOuter \/ MkInner \/ SyncOuter
    <2>1. /\ UNCHANGED <<source, vfile, tmp, seen, cur>>
          /\ pc \in {"dirs", "syncNewOuter", "mkInner", "syncOuter"}
          /\ pc' \in {"syncNewOuter", "mkInner", "syncOuter", "rename"}
          /\ \A k \in Keys : dfile'[k] \in {None, dfile[k]}
        BY <1>12
        DEF MkOuter, SyncNewOuter, SyncEntriesOfRepo, MkInner, SyncOuter, user, visible, memory
    <2> QED
        BY <2>1, ContentWriteback DEF TmpFlushed
<1>13. CASE Rename
    <2>1. /\ pc = "rename" /\ pc' \in {"syncRepo", "syncInner"} /\ tmp.disk = tmp.data
          /\ UNCHANGED <<source, dfile, seen, cur>>
        BY <1>13 DEF Rename, user, device, memory, TypeInv, Control, TmpFlushed
    <2>2. ProcessKnows'
        BY <2>1 DEF ContentInv, ProcessKnows, TmpFlushed
    <2>3. CASE cur = None
        BY <1>13, <2>1, <2>2, <2>3 DEF Rename, ContentInv, NamesFit, OneSlot
    <2>4. CASE cur # None
        <3>1. vfile' = [vfile EXCEPT ![Key] = tmp]
            BY <1>13, <2>4 DEF Rename
        <3>2. Key \in Keys /\ Key[1] = cur.hash /\ Key[2] = cur.slot /\ cur \in Current
            BY <2>4, KeyType DEF TypeInv, TypeOK, Current, Key
        <3>3. Fits(tmp.data, Key[1])
            BY <2>1, <2>4, <3>2
            DEF ContentInv, ProcessKnows, TmpFlushed, Fits, TypeInv, TypeOK, Current
        <3>4. NamesFit'
            BY <2>1, <3>1, <3>2, <3>3 DEF ContentInv, NamesFit, TypeInv, TypeOK
        <3>5. NoCollisions => OneSlot'
            BY <2>1, <2>4, <3>1, <3>2 DEF ContentInv, OneSlot, TypeInv, TypeOK
        <3> QED
            BY <2>2, <3>4, <3>5 DEF ContentInv
    <2> QED
        BY <2>3, <2>4
<1>14. CASE SyncInner
    <2>1. /\ UNCHANGED <<source, vfile, tmp, seen, cur>> /\ pc = "syncInner" /\ pc' = "syncRepo"
          /\ \A k \in Keys : dfile'[k] \in {dfile[k], OnDisk(vfile[k])}
        BY <1>14 DEF SyncInner, user, visible, memory
    <2> QED
        BY <2>1, ContentWriteback DEF TmpFlushed
<1>15. CASE SyncRepo
    <2>1. UNCHANGED <<source, vfile, dfile>> /\ pc = "syncRepo"
        BY <1>15 DEF SyncRepo, SyncEntriesOfRepo, user, visible
    <2> QED
        BY <1>15, <2>1, ContentFileDone, ContentGoesOn DEF SyncRepo, memory, TmpFlushed
<1>16. CASE StartGC
    <2>1. UNCHANGED <<source, vfile, dfile, seen, cur>> /\ pc' = "gc" /\ cur = None
        BY <1>16 DEF StartGC, user, visible, device, TypeInv, Control, WithoutFile
    <2> QED
        BY <2>1, ContentGoesOn DEF TmpFlushed
<1>17. ASSUME NEW k \in Keys, GCRemoveFile(k) PROVE ContentInv'
    <2>1. /\ vfile' = [vfile EXCEPT ![k] = None] /\ pc' = "gc" /\ cur = None
          /\ UNCHANGED <<source, dfile, seen, cur>>
        BY <1>17 DEF GCRemoveFile, user, device, memory, TypeInv, Control, WithoutFile
    <2> QED
        BY <2>1 DEF ContentInv, ProcessKnows, NamesFit, OneSlot, TypeInv, TypeOK, TmpFlushed
<1>18. CASE (\E d \in Dirs : GCRemoveDir(d)) \/ GCRemoveTmp
    <2>1. UNCHANGED <<source, vfile, dfile, seen, cur>> /\ pc = "gc" /\ pc' = "gc"
        BY <1>18 DEF GCRemoveDir, GCRemoveTmp, user, visible, device, memory
    <2> QED
        BY <2>1, ContentGoesOn DEF TmpFlushed
<1>19. ASSUME NEW p \in Paths, UserWrite(p) PROVE ContentInv'
    <2>1. /\ pc = "idle" /\ pc' = "idle" /\ cur = None /\ UNCHANGED <<vfile, dfile, seen, cur>>
          /\ source' \in [Paths -> Contents]
        BY <1>19 DEF UserWrite, visible, device, memory, TypeInv, TypeOK, Control, WithoutFile
    <2> QED
        BY <2>1 DEF ContentInv, ProcessKnows, NamesFit, OneSlot, NoMore, TmpFlushed
<1>20. CASE (\E k \in Keys : WritebackFile(k)) \/ (\E d \in Dirs : WritebackDir(d)) \/ WritebackMetadata
    <2>1. /\ UNCHANGED <<source, vfile, tmp, pc, seen, cur>>
          /\ \A k \in Keys : dfile'[k] \in {dfile[k], OnDisk(vfile[k])}
        BY <1>20
        DEF WritebackFile, WritebackDir, WritebackMetadata, user, visible, memory, TypeInv, TypeOK
    <2> QED
        BY <2>1, ContentWriteback
<1>21. CASE PowerLoss
    <2>1. /\ pc' = "idle" /\ cur' = None /\ seen' = NoMore /\ UNCHANGED source
          /\ dfile' = [k \in Keys |-> OnDevice(k)]
          /\ vfile' = [k \in Keys |-> Reread(OnDevice(k))]
        BY <1>21 DEF PowerLoss, Exit, user
    <2>2. ASSUME NEW k \in Keys
          PROVE  /\ dfile'[k] \in {None, dfile[k]}
                 /\ dfile'[k] = None => vfile'[k] = None
                 /\ dfile'[k] # None => vfile'[k].data = dfile'[k] /\ vfile'[k].disk = dfile'[k]
        BY <2>1 DEF OnDevice, Reread
    <2>3. NamesFit'
        BY <2>2 DEF ContentInv, NamesFit
    <2>4. NoCollisions => OneSlot'
        BY <2>1, <2>2 DEF ContentInv, OneSlot
    <2>5. ProcessKnows'
        BY <2>1 DEF ProcessKnows, NoMore, TmpFlushed
    <2> QED
        BY <2>3, <2>4, <2>5 DEF ContentInv
<1>22. CASE UNCHANGED vars
    BY <1>22, ContentWriteback DEF vars, user, visible, device, memory
<1> QED
    BY <1>1, <1>2, <1>3, <1>4, <1>5, <1>6, <1>7, <1>8, <1>9, <1>10, <1>11, <1>12, <1>13, <1>14,
       <1>15, <1>16, <1>17, <1>18, <1>19, <1>20, <1>21, <1>22
    DEF Next, Work, Environment

(* The name of a stored file is the hash of what it contains.               *)
HashNamesContent ==
    \A k \in Keys : vfile[k] # None =>
        vfile[k].data \in Contents /\ HashOf[vfile[k].data] = k[1]

(* No content is stored under two names.                                    *)
NoDuplicates ==
    \A j, k \in Keys : vfile[j] # None /\ vfile[k] # None /\ j # k
        => vfile[j].data # vfile[k].data

(* Names are hashes although a file is read once to hash it and again to    *)
(* compare or to copy it, and however many runs were killed or lost their   *)
(* power while they wrote, if the user leaves the files alone meanwhile.    *)
THEOREM NamesAreHashes ==
    ASSUME StableSource PROVE Spec => []HashNamesContent
<1>1. ContentInv => HashNamesContent
    BY DEF ContentInv, NamesFit, Fits, HashNamesContent
<1> QED
    BY InitType, NextType, InitContent, NextContent, <1>1, PTL DEF Spec

(* No content is stored twice as long as hashes do not collide: a file that *)
(* is found under the first slot is the one that is looked for.             *)
THEOREM ContentIsStoredOnce ==
    ASSUME StableSource, NoCollisions PROVE Spec => []NoDuplicates
<1>1. ContentInv => NoDuplicates
    <2> SUFFICES ASSUME ContentInv, NEW j \in Keys, NEW k \in Keys, vfile[j] # None,
                        vfile[k] # None, j # k
                 PROVE  vfile[j].data # vfile[k].data
        BY DEF NoDuplicates
    <2>1. j[2] = 0 /\ k[2] = 0
        BY DEF ContentInv, OneSlot
    <2>2. j[1] # k[1]
        BY <2>1 DEF Keys
    <2> QED
        BY <2>2 DEF ContentInv, NamesFit, Fits
<1> QED
    BY InitType, NextType, InitContent, NextContent, <1>1, PTL DEF Spec

-----------------------------------------------------------------------------
(* The same with a user who writes to the files at any moment.  What the    *)
(* process knows of a file is true unless the file was rewritten in a way   *)
(* that no timestamp gives away (slipped); a moved timestamp (touched)      *)
(* matters until StatFile, for which the file is still to store.            *)
WrittenAs(content) ==
    /\ pc \in {"flush"} \cup TmpFlushed => tmp.data = content
    /\ pc \in {"syncInner", "syncRepo"} => vfile[Key].data = content

(* All slots below the current one hold something else.                     *)
TakenBelow(content) ==
    \A slot \in 0..(cur.slot - 1) :
        vfile[<<cur.hash, slot>>] # None /\ vfile[<<cur.hash, slot>>].data # content

FilesKnown ==
    \A p \in Paths : seen[p] # None /\ p \notin touched /\ p \notin slipped => source[p] = seen[p]

CurrentKnown ==
    cur # None /\ cur.path \notin slipped =>
        /\ source[cur.path] = seen[cur.path]
        /\ cur.hash = HashOf[seen[cur.path]]
        /\ pc # "hash" => ~Small(seen[cur.path])
        /\ WrittenAs(seen[cur.path])
        /\ TakenBelow(seen[cur.path])

KnownInv == FilesKnown /\ CurrentKnown

(* In the beginning there is no file to store.                              *)
LEMMA InitKnown == Init => KnownInv
BY DEF Init, KnownInv, FilesKnown, CurrentKnown, NoMore

(* Without a current file there is less to know.                            *)
LEMMA KnownWithoutFile ==
    ASSUME KnownInv, UNCHANGED user, cur' = None, \A p \in Paths : seen'[p] \in {None, seen[p]}
    PROVE  KnownInv'
BY DEF KnownInv, FilesKnown, CurrentKnown, user

(* A process that ends has no file to store.                                *)
LEMMA KnownExit == ASSUME Exit PROVE KnownInv'
BY DEF Exit, KnownInv, FilesKnown, CurrentKnown, NoMore

(* A version is complete.                                                   *)
LEMMA KnownFileDone ==
    ASSUME TypeInv, KnownInv, UNCHANGED user, cur # None, NEW c, NEW k, FileDone(c, k)
    PROVE  KnownInv'
<1>1. cur' = None /\ \A p \in Paths : seen'[p] \in {None, seen[p]}
    BY DEF FileDone, TypeInv, TypeOK
<1> QED
    BY <1>1, KnownWithoutFile

(* A step that leaves the files of both sides alone.                        *)
LEMMA KnownGoesOn ==
    ASSUME KnownInv, UNCHANGED <<user, vfile, seen, cur>>,
           cur # None => /\ pc = "hash" => pc' = "hash"
                         /\ pc' \in {"syncInner", "syncRepo"} => pc \in {"syncInner", "syncRepo"}
                         /\ pc' \in {"flush"} \cup TmpFlushed /\ cur.path \notin slipped
                                => tmp'.data = seen[cur.path]
    PROVE  KnownInv'
<1>1. FilesKnown'
    BY DEF KnownInv, FilesKnown, user
<1>2. CurrentKnown'
    <2> SUFFICES ASSUME cur # None, cur.path \notin slipped
                 PROVE  /\ source[cur.path] = seen[cur.path]
                        /\ cur.hash = HashOf[seen[cur.path]]
                        /\ pc' # "hash" => ~Small(seen[cur.path])
                        /\ WrittenAs(seen[cur.path])'
                        /\ TakenBelow(seen[cur.path])'
        BY DEF CurrentKnown, user
    <2>1. Key' = Key
        BY DEF Key
    <2> QED
        BY <2>1 DEF KnownInv, CurrentKnown, WrittenAs, TakenBelow
<1> QED
    BY <1>1, <1>2 DEF KnownInv

(* The temporary file stays and goes on being the one that is written.      *)
LEMMA KnownFlushed ==
    ASSUME KnownInv, UNCHANGED <<user, vfile, seen, cur, tmp>>,
           pc \in TmpFlushed, pc' \in TmpFlushed
    PROVE  KnownInv'
<1>1. cur # None /\ cur.path \notin slipped => tmp.data = seen[cur.path]
    BY DEF KnownInv, CurrentKnown, WrittenAs
<1> QED
    BY <1>1, KnownGoesOn DEF TmpFlushed

-----------------------------------------------------------------------------
(* Every step keeps what is known, whatever the faults and the user do.     *)
LEMMA NextKnown == TypeInv /\ KnownInv /\ [Next]_vars => KnownInv'
<1> SUFFICES ASSUME TypeInv, KnownInv, [Next]_vars PROVE KnownInv'
    OBVIOUS
<1> USE NoneIsNothing
<1>1. CASE StartBackup
    <2>1. PICK todo \in SUBSET Paths : seen' = [p \in Paths |-> IF p \in todo THEN source[p] ELSE None]
        BY <1>1 DEF StartBackup
    <2>2. cur' = None /\ source' = source
        BY <1>1 DEF StartBackup, TypeInv, Control, WithoutFile
    <2> QED
        BY <2>1, <2>2 DEF KnownInv, FilesKnown, CurrentKnown
<1>2. CASE Review
    BY <1>2, KnownExit, KnownGoesOn
    DEF Review, visible, memory, TypeInv, Control, WithoutFile, TmpFlushed
<1>3. ASSUME NEW p \in Paths, StatFile(p) PROVE KnownInv'
    <2>1. CASE /\ p \notin touched
               /\ cur' = [path |-> p, hash |-> HashOf[seen[p]], slot |-> 0]
               /\ pc' = (IF p \in fresh /\ ~Small(seen[p]) THEN "probe" ELSE "hash")
               /\ UNCHANGED seen
        <3>1. cur'.path = p /\ cur'.hash = HashOf[seen[p]] /\ cur'.slot = 0
            BY <2>1
        <3>2. UNCHANGED <<source, touched, slipped>> /\ seen[p] # None
            BY <1>3 DEF StatFile, user
        <3>3. p \notin slipped => source[p] = seen[p]
            BY <2>1, <3>2 DEF KnownInv, FilesKnown
        <3>4. FilesKnown'
            BY <2>1, <3>2 DEF KnownInv, FilesKnown
        <3>5. WrittenAs(seen[p])' /\ TakenBelow(seen[p])'
            BY <2>1, <3>1 DEF WrittenAs, TakenBelow, TmpFlushed
        <3> QED
            BY <2>1, <3>1, <3>2, <3>3, <3>4, <3>5 DEF KnownInv, CurrentKnown
    <2> QED
        BY <1>3, <2>1, KnownExit DEF StatFile
<1>4. CASE ReadSmallFile
    BY <1>4, KnownFileDone DEF ReadSmallFile, TypeInv, Control, WithFile
<1>5. CASE HashLargeFile
    <2>1. PICK h \in Hashes : /\ cur' = [cur EXCEPT !.hash = h]
                              /\ SizeUnchanged => h = HashOf[source[cur.path]]
        BY <1>5 DEF HashLargeFile
    <2>2. /\ UNCHANGED <<source, touched, slipped, vfile, seen>> /\ cur \in Current /\ cur # None
          /\ pc' = "probe" /\ ~Small(seen[cur.path])
        BY <1>5
        DEF HashLargeFile, user, visible, TypeInv, TypeOK, Control, WithFile, Current
    <2>3. cur'.path = cur.path /\ cur'.slot = cur.slot /\ cur'.hash = h
        BY <2>1, <2>2 DEF Current
    <2>4. cur.path \notin slipped => h = cur.hash /\ source[cur.path] = seen[cur.path]
        BY <2>1, <2>2 DEF KnownInv, CurrentKnown, SizeUnchanged
    <2>5. FilesKnown'
        BY <2>2 DEF KnownInv, FilesKnown
    <2>6. cur.path \notin slipped => WrittenAs(seen[cur.path])' /\ TakenBelow(seen[cur.path])'
        BY <2>2, <2>3, <2>4 DEF KnownInv, CurrentKnown, WrittenAs, TakenBelow, TmpFlushed
    <2> QED
        BY <2>2, <2>3, <2>4, <2>5, <2>6 DEF KnownInv, CurrentKnown
<1>6. CASE SearchDuplicate
    <2>1. /\ pc = "probe" /\ cur \in Current /\ cur # None /\ UNCHANGED <<user, vfile, tmp>>
        BY <1>6 DEF SearchDuplicate, visible, TypeInv, TypeOK, Control, WithFile, Current
    <2>2. CASE SlotFree /\ Copy
        BY <2>1, <2>2, KnownGoesOn DEF Copy, memory, TmpFlushed
    <2>3. CASE SlotEqual /\ UseStored
        BY <2>1, <2>3, KnownFileDone DEF UseStored
    <2>4. CASE ~SlotFree /\ ~SlotEqual /\ NextSlot(cur.slot + 1)
        <3>1. /\ UNCHANGED <<pc, seen>> /\ cur'.path = cur.path /\ cur'.hash = cur.hash
              /\ cur'.slot = cur.slot + 1 /\ cur.slot \in Nat
            BY <2>1, <2>4 DEF NextSlot, Current
        <3>2. FilesKnown' /\ UNCHANGED <<source, slipped>>
            BY <2>1, <3>1 DEF KnownInv, FilesKnown, user
        <3>3. ASSUME cur.path \notin slipped PROVE TakenBelow(seen[cur.path])'
            <4>1. vfile[Key] # None /\ vfile[Key].data # seen[cur.path]
                BY <2>1, <2>4, <3>3 DEF SlotFree, SlotEqual, KnownInv, CurrentKnown
            <4>2. \A slot \in 0..cur.slot : slot \in 0..(cur.slot - 1) \/ slot = cur.slot
                BY <3>1
            <4>3. TakenBelow(seen[cur.path])
                BY <2>1, <3>3 DEF KnownInv, CurrentKnown
            <4> QED
                BY <2>1, <3>1, <4>1, <4>2, <4>3 DEF TakenBelow, Key
        <3>4. WrittenAs(seen[cur.path])'
            BY <2>1, <3>1 DEF WrittenAs, TmpFlushed
        <3> QED
            BY <2>1, <3>1, <3>2, <3>3, <3>4 DEF KnownInv, CurrentKnown
    <2> QED
        BY <1>6, <2>1, <2>2, <2>3, <2>4, KnownExit DEF SearchDuplicate
<1>7. CASE SizeDiffers \/ ReadFails \/ GCDone \/ Kill \/ PowerLoss
    BY <1>7, KnownExit DEF SizeDiffers, ReadFails, GCDone, Kill, PowerLoss
<1>8. CASE OpenTmp
    BY <1>8, KnownGoesOn DEF OpenTmp, visible, memory, TypeInv, Control, WithoutFile, TmpFlushed
<1>9. CASE WriteTmp
    <2>1. cur # None => tmp'.data = source[cur.path]
        BY <1>9 DEF WriteTmp, TypeInv, Control, TmpFile
    <2>2. cur # None /\ cur.path \notin slipped => tmp'.data = seen[cur.path]
        BY <2>1 DEF KnownInv, CurrentKnown
    <2> QED
        BY <1>9, <2>2, KnownGoesOn DEF WriteTmp, visible, memory
<1>10. CASE FlushTmp
    <2>1. tmp'.data = tmp.data
        BY <1>10 DEF FlushTmp, TypeInv, Control, TmpFile
    <2>2. cur # None /\ cur.path \notin slipped => tmp.data = seen[cur.path]
        BY <1>10 DEF FlushTmp, KnownInv, CurrentKnown, WrittenAs
    <2> QED
        BY <1>10, <2>1, <2>2, KnownGoesOn DEF FlushTmp, visible, memory
<1>11. CASE DirsExist \/ MkOuter \/ SyncNewOuter \/ MkInner \/ SyncOuter
    <2>1. /\ UNCHANGED <<user, vfile, tmp, seen, cur>>
          /\ pc \in TmpFlushed /\ pc' \in TmpFlushed
        BY <1>11
        DEF DirsExist, MkOuter, SyncNewOuter, MkInner, SyncOuter, visible, memory, TmpFlushed
    <2> QED
        BY <2>1, KnownFlushed
<1>12. CASE Rename
    <2>1. UNCHANGED <<user, seen, cur>> /\ pc = "rename" /\ pc' \in {"syncRepo", "syncInner"}
        BY <1>12 DEF Rename, memory
    <2>2. FilesKnown'
        BY <2>1 DEF KnownInv, FilesKnown, user
    <2>3. CASE cur = None
        BY <2>1, <2>2, <2>3 DEF KnownInv, CurrentKnown
    <2>4. CASE cur # None
        <3>1. vfile' = [vfile EXCEPT ![Key] = tmp] /\ Key' = Key
            BY <1>12, <2>1, <2>4 DEF Rename, Key
        <3>2. /\ cur \in Current /\ Key \in Keys /\ Key = <<cur.hash, cur.slot>>
              /\ vfile \in [Keys -> Stored(Contents \cup {Torn})]
            BY <2>4, KeyType DEF TypeInv, TypeOK, Current, Key
        <3>3. \A slot \in 0..(cur.slot - 1) : vfile'[<<cur.hash, slot>>] = vfile[<<cur.hash, slot>>]
            BY <3>1, <3>2 DEF Current, Keys
        <3>4. cur.path \notin slipped => WrittenAs(seen[cur.path])'
            BY <2>1, <2>4, <3>1, <3>2 DEF KnownInv, CurrentKnown, WrittenAs, TmpFlushed
        <3>5. cur.path \notin slipped => TakenBelow(seen[cur.path])'
            BY <2>1, <2>4, <3>3 DEF KnownInv, CurrentKnown, TakenBelow
        <3> QED
            BY <2>1, <2>2, <2>4, <3>4, <3>5 DEF KnownInv, CurrentKnown, user
    <2> QED
        BY <2>3, <2>4
<1>13. CASE SyncInner
    BY <1>13, KnownGoesOn DEF SyncInner, visible, memory, TmpFlushed
<1>14. CASE SyncRepo
    BY <1>14, KnownFileDone, KnownGoesOn DEF SyncRepo, visible, memory, TmpFlushed
<1>15. CASE StartGC \/ (\E k \in Keys : GCRemoveFile(k)) \/ (\E d \in Dirs : GCRemoveDir(d)) \/ GCRemoveTmp
    <2>1. UNCHANGED <<user, seen>> /\ cur' = None
        BY <1>15
        DEF StartGC, GCRemoveFile, GCRemoveDir, GCRemoveTmp, memory, TypeInv, Control, WithoutFile
    <2> QED
        BY <2>1, KnownWithoutFile
<1>16. ASSUME NEW p \in Paths, UserWrite(p) PROVE KnownInv'
    <2>1. /\ UNCHANGED <<vfile, tmp, pc, seen, cur>> /\ touched \subseteq touched' /\ slipped \subseteq slipped'
          /\ \A q \in Paths \ {p} : source'[q] = source[q]
          /\ seen[p] # None => p \in touched' \cup slipped'
          /\ seen[p] # None /\ BeingStored(p) => p \in slipped'
        BY <1>16 DEF UserWrite, visible, memory, TypeInv, TypeOK
    <2>2. FilesKnown'
        BY <2>1 DEF KnownInv, FilesKnown
    <2>3. CurrentKnown'
        <3> SUFFICES ASSUME cur # None, cur.path \notin slipped'
                     PROVE  /\ source'[cur.path] = seen[cur.path]
                            /\ cur.hash = HashOf[seen[cur.path]]
                            /\ pc # "hash" => ~Small(seen[cur.path])
                            /\ WrittenAs(seen[cur.path])'
                            /\ TakenBelow(seen[cur.path])'
            BY <2>1 DEF CurrentKnown
        <3>1. cur.path \in Paths /\ seen[cur.path] # None /\ cur.path \notin slipped
            BY <2>1 DEF TypeInv, TypeOK, Control
        <3>2. cur.path # p
            BY <2>1, <3>1 DEF BeingStored
        <3>3. Key' = Key
            BY <2>1 DEF Key
        <3> QED
            BY <2>1, <3>1, <3>2, <3>3 DEF KnownInv, CurrentKnown, WrittenAs, TakenBelow
    <2> QED
        BY <2>2, <2>3 DEF KnownInv
<1>17. ASSUME UNCHANGED <<user, vfile, tmp, pc, seen, cur>> PROVE KnownInv'
    <2>1. /\ pc \in {"flush"} \cup TmpFlushed /\ cur # None /\ cur.path \notin slipped
                => tmp.data = seen[cur.path]
        BY DEF KnownInv, CurrentKnown, WrittenAs
    <2> QED
        BY <1>17, <2>1, KnownGoesOn
<1>18. CASE (\E k \in Keys : WritebackFile(k)) \/ (\E d \in Dirs : WritebackDir(d)) \/ WritebackMetadata
    BY <1>17, <1>18 DEF WritebackFile, WritebackDir, WritebackMetadata, visible, memory
<1>19. CASE UNCHANGED vars
    BY <1>17, <1>19 DEF vars, visible, memory
<1> QED
    BY <1>1, <1>2, <1>3, <1>4, <1>5, <1>6, <1>7, <1>8, <1>9, <1>10, <1>11, <1>12, <1>13, <1>14,
       <1>15, <1>16, <1>18, <1>19
    DEF Next, Work, Environment

-----------------------------------------------------------------------------
(* A version is added by the step that completes the current file.          *)
LEMMA VersionStep ==
    ASSUME TypeInv, [Next]_vars, cur # None, NEW v \in points' \ points
    PROVE  ReadSmallFile \/ (SearchDuplicate /\ SlotEqual /\ UseStored)
               \/ (SyncRepo /\ FileDone(vfile[Key].data, Key))
BY DEF Next, Work, Environment, StartBackup, Review, StatFile, HashLargeFile, SearchDuplicate,
       SizeDiffers, ReadFails, OpenTmp, WriteTmp, FlushTmp, DirsExist, MkOuter, SyncNewOuter,
       MkInner, SyncOuter, Rename, SyncInner, SyncRepo, StartGC, GCRemoveFile, GCRemoveDir,
       GCRemoveTmp, GCDone, UserWrite, Kill, WritebackFile, WritebackDir, WritebackMetadata,
       PowerLoss, vars, memory, TypeInv, Control, WithoutFile, Exit, NextSlot, Copy

(* It has the content of the file, and the hash of that in its name.        *)
LEMMA VersionKnown ==
    ASSUME TypeInv, KnownInv, [Next]_vars, cur # None, NEW v \in points' \ points,
           v.path \notin slipped
    PROVE  /\ v.content = source[v.path]
           /\ v.key = None <=> Small(v.content)
           /\ v.key # None => v.key[1] = HashOf[v.content]
<1> USE NoneIsNothing
<1>1. cur \in Current /\ cur.path \in Paths
    BY DEF TypeInv, TypeOK, Current
<1>2. ASSUME NEW c, NEW k, FileDone(c, k)
      PROVE  v.path = cur.path /\ v.content = c /\ v.key = k
    BY <1>2 DEF FileDone
<1>3. cur.path \notin slipped => source[cur.path] = seen[cur.path] /\ cur.hash = HashOf[seen[cur.path]]
    BY DEF KnownInv, CurrentKnown
<1>4. CASE ReadSmallFile
    <2>1. v.path = cur.path /\ v.key = None /\ v.content \in {seen[cur.path], source[cur.path]}
        BY <1>2, <1>4 DEF ReadSmallFile
    <2> QED
        BY <1>3, <1>4, <2>1 DEF ReadSmallFile
<1>5. ASSUME FileDone(vfile[Key].data, Key), pc # "hash",
             cur.path \notin slipped => vfile[Key].data = source[cur.path]
      PROVE  /\ v.content = source[v.path]
             /\ v.key = None <=> Small(v.content)
             /\ v.key # None => v.key[1] = HashOf[v.content]
    <2>1. v.path = cur.path /\ v.content = vfile[Key].data /\ v.key = Key
        BY <1>2, <1>5
    <2>2. Key # None /\ Key[1] = cur.hash
        BY <1>1, KeyType DEF Key
    <2>3. ~Small(seen[cur.path])
        BY <1>5, <2>1 DEF KnownInv, CurrentKnown
    <2> QED
        BY <1>3, <1>5, <2>1, <2>2, <2>3
<1>6. CASE SearchDuplicate /\ SlotEqual /\ UseStored
    BY <1>5, <1>6 DEF SearchDuplicate, SlotEqual, UseStored
<1>7. CASE SyncRepo /\ FileDone(vfile[Key].data, Key)
    <2>1. cur.path \notin slipped => vfile[Key].data = source[cur.path]
        BY <1>7 DEF SyncRepo, KnownInv, CurrentKnown, WrittenAs
    <2> QED
        BY <1>5, <1>7, <2>1 DEF SyncRepo
<1> QED
    BY <1>4, <1>6, <1>7, VersionStep

(* Whatever is killed, loses its power or is written to meanwhile: what     *)
(* becomes part of a backup is what the file contains, under the hash of    *)
(* just that, unless the file was rewritten in a way no timestamp gives     *)
(* away.  A hash from the search phase is never that of another content.    *)
THEOREM VersionsAreFiles == Spec => BackedUpAsItIs
<1>1. TypeInv /\ KnownInv /\ [Next]_vars =>
        [cur # None => \A v \in points' \ points :
            v.path \notin slipped =>
                /\ v.content = source[v.path]
                /\ v.key = None <=> Small(v.content)
                /\ v.key # None => v.key[1] = HashOf[v.content]]_vars
    BY VersionKnown
<1> QED
    BY InitType, NextType, InitKnown, NextKnown, <1>1, PTL DEF Spec, BackedUpAsItIs

(* A new file is stored only when all slots below were found taken by other *)
(* contents, also with collisions and with gaps above: any number of slots. *)
THEOREM NewFilesAreNew == Spec => StoredOnlyIfNew
<1>1. TypeInv /\ KnownInv /\ [Next]_vars =>
        [pc = "rename" /\ pc' = "syncInner" /\ cur.path \notin slipped =>
            \A slot \in 0..(cur.slot - 1) :
                /\ vfile[<<cur.hash, slot>>] # None
                /\ vfile[<<cur.hash, slot>>].data # tmp.data]_vars
    <2> SUFFICES ASSUME TypeInv, KnownInv, [Next]_vars, pc = "rename", pc' = "syncInner",
                        cur.path \notin slipped
                 PROVE  TakenBelow(tmp.data)
        BY DEF TakenBelow
    <2>1. Rename
        BY DEF Next, Work, Environment, StartBackup, Review, StatFile, ReadSmallFile,
               HashLargeFile, SearchDuplicate, SizeDiffers, ReadFails, OpenTmp, WriteTmp,
               FlushTmp, DirsExist, MkOuter, SyncNewOuter, MkInner, SyncOuter, SyncInner,
               SyncRepo, StartGC, GCRemoveFile, GCRemoveDir, GCRemoveTmp, GCDone, UserWrite,
               Kill, WritebackFile, WritebackDir, WritebackMetadata, PowerLoss, vars, Exit
    <2>2. cur # None
        BY <2>1 DEF Rename
    <2> QED
        BY <2>2 DEF KnownInv, CurrentKnown, WrittenAs, TmpFlushed
<1> QED
    BY InitType, NextType, InitKnown, NextKnown, <1>1, PTL DEF Spec, StoredOnlyIfNew

-----------------------------------------------------------------------------
(* What a power failure leaves, for any files, contents, hashes and slots:  *)
(* as long as no process is killed between two system calls, the device     *)
(* holds a repository that can be restored from.                            *)

(* A directory is in its parent directory and on the device, but for the    *)
(* moment between mkdir() and the sync of its parent.                       *)
DirsSettled ==
    /\ \A i \in Inner : i \in vdirs => OuterOf[i] \in vdirs
    /\ \A o \in Outer : o \in vdirs =>
            o \in ddirs \/ (pc = "syncNewOuter" /\ o = OuterDir)
    /\ \A i \in Inner : i \in vdirs =>
            i \in ddirs \/ (pc = "syncOuter" /\ i = InnerDir)

(* What safeCreateDir() and the syncs around it have reached for the file   *)
(* that is being stored: a new directory is empty.                          *)
DirsMade ==
    /\ pc \in {"syncNewOuter", "mkInner"} => InnerDir \notin vdirs /\ OuterDir \in vdirs
    /\ pc = "syncNewOuter" => \A i \in Inner : i \in vdirs => OuterOf[i] # OuterDir
    /\ pc = "syncOuter" =>
            /\ InnerDir \in vdirs
            /\ \A k \in Keys : InnerOf[k[1]] = InnerDir => vfile[k] = None
    /\ pc = "rename" /\ cur # None => InnerDir \in vdirs

(* A file is complete and on the device, but for the moment between         *)
(* rename() and the sync of its directory.                                  *)
FilesSettled ==
    /\ \A k \in Keys : vfile[k] # None =>
            /\ InnerOf[k[1]] \in vdirs
            /\ vfile[k].data \in Contents
            /\ vfile[k].disk = vfile[k].data
            /\ dfile[k] = vfile[k].data \/ (pc = "syncInner" /\ k = Key)
    /\ \A k \in Keys : dfile[k] \in Contents \cup {None}

(* The metadata on the device is that of the repository, but for the moment *)
(* between its rename() and the sync of the repository; what it refers to   *)
(* is in the repository, and no unsynced file is among it.                  *)
MetaSettled ==
    /\ vmeta # None => vmeta.data \in Snapshot /\ vmeta.disk = vmeta.data
    /\ dmeta # None => dmeta \in Snapshot
    /\ dmeta = OnDisk(vmeta) \/ (pc = "syncRepo" /\ cur = None)
    /\ pc = "syncInner" /\ dmeta # None => Key \notin Referenced(dmeta)

WithContents(S) == \A pt \in S : pt.content \in Contents

References ==
    /\ Intact(points) /\ WithContents(points)
    /\ vmeta # None => Intact(vmeta.data) /\ WithContents(vmeta.data)
    /\ dmeta # None => Intact(dmeta) /\ WithContents(dmeta)
    /\ KeyIsFree
    /\ Collected => vmeta # None /\ points = vmeta.data

DurableInv == DirsSettled /\ DirsMade /\ FilesSettled /\ MetaSettled /\ References

-----------------------------------------------------------------------------
(* A file whose entry and directories are on the device survives there.     *)
LEMMA SettledSurvives ==
    ASSUME TypeInv, DurableInv, NEW k \in Keys, vfile[k] # None, ~(pc = "syncInner" /\ k = Key)
    PROVE  OnDevice(k) = vfile[k].data
<1>1. /\ InnerOf[k[1]] \in vdirs /\ dfile[k] = vfile[k].data
      /\ InnerOf[k[1]] \in Inner /\ OuterOf[InnerOf[k[1]]] \in Outer
    BY DirsAssumption DEF DurableInv, FilesSettled, Keys
<1>2. OuterOf[InnerOf[k[1]]] \in vdirs
    BY <1>1 DEF DurableInv, DirsSettled
<1>3. InnerOf[k[1]] \in ddirs
    BY <1>1 DEF DurableInv, DirsSettled, DirsMade
<1>4. OuterOf[InnerOf[k[1]]] \in ddirs
    BY <1>1, <1>2 DEF DurableInv, DirsSettled, DirsMade
<1> QED
    BY <1>1, <1>3, <1>4 DEF OnDevice, Reachable

(* What the metadata on the device refers to can be restored from there.    *)
LEMMA DurableInvIntact == TypeInv /\ DurableInv => DurableIntact
<1> SUFFICES ASSUME TypeInv, DurableInv, dmeta # None, NEW pt \in dmeta
             PROVE  DurableContent(pt) = pt.content
    BY DEF DurableInv, MetaSettled, DurableIntact
<1>1. dmeta \in Snapshot /\ Intact(dmeta)
    BY DEF DurableInv, MetaSettled, References
<1>2. CASE pt.key = None
    BY <1>2 DEF DurableContent
<1>3. CASE pt.key # None
    <2>1. pt.key \in Keys /\ vfile[pt.key] # None /\ pt.key \in Referenced(dmeta)
        BY <1>1, <1>3, IntactKeys DEF Referenced
    <2>2. ~(pc = "syncInner" /\ pt.key = Key)
        BY <2>1 DEF DurableInv, MetaSettled
    <2>3. OnDevice(pt.key) = vfile[pt.key].data
        BY <2>1, <2>2, SettledSurvives
    <2> QED
        BY <1>1, <1>3, <2>1, <2>3 DEF DurableContent, Intact, VisibleContent, Data
<1> QED
    BY <1>2, <1>3

(* An empty repository is on the device.                                    *)
LEMMA InitDurable == Init => DurableInv
BY DEF Init, DurableInv, DirsSettled, DirsMade, FilesSettled, MetaSettled, References, OnDisk,
       WithContents, Intact, KeyIsFree, Collected, TmpFlushed

-----------------------------------------------------------------------------
(* Steps that leave the repository and the device alone.                    *)
Unsettled == {"syncNewOuter", "mkInner", "syncOuter", "syncInner", "syncRepo"}

(* They keep the invariant if they keep what it says of the process.        *)
LEMMA DurableQuiet ==
    ASSUME DurableInv, UNCHANGED <<visible, device>>,
           pc \notin Unsettled, pc' \notin Unsettled,
           pc' = "rename" /\ cur' # None => InnerDir' \in vdirs,
           KeyIsFree', Intact(points)' /\ WithContents(points)',
           pc' = "gc" => vmeta # None /\ points' = vmeta.data
    PROVE  DurableInv'
<1>1. UNCHANGED <<vdirs, vfile, vmeta, ddirs, dfile, dmeta>>
    BY DEF visible, device
<1>2. DirsSettled' /\ DirsMade'
    BY <1>1 DEF DurableInv, DirsSettled, DirsMade, Unsettled
<1>3. FilesSettled' /\ MetaSettled'
    BY <1>1 DEF DurableInv, FilesSettled, MetaSettled, Unsettled, OnDisk, Referenced
<1>4. \A S : Intact(S) => (\A pt \in S : VisibleContent(pt)' = pt.content)
    BY <1>1 DEF Intact, VisibleContent
<1>5. vmeta # None => (Intact(vmeta.data) /\ WithContents(vmeta.data))'
    BY <1>1, <1>4 DEF DurableInv, References, Intact, WithContents
<1>6. dmeta # None => (Intact(dmeta) /\ WithContents(dmeta))'
    BY <1>1, <1>4 DEF DurableInv, References, Intact, WithContents
<1>7. Collected' => vmeta # None /\ points' = vmeta.data
    BY DEF Collected, Unsettled
<1> QED
    BY <1>1, <1>2, <1>3, <1>5, <1>6, <1>7 DEF DurableInv, References

(* A process that ends where nothing is unsettled.                          *)
LEMMA DurableExit ==
    ASSUME DurableInv, UNCHANGED <<visible, device>>, pc \notin Unsettled, Exit
    PROVE  DurableInv'
BY DurableQuiet DEF Exit, KeyIsFree, Intact, WithContents, TmpFlushed, Unsettled

(* A process that goes on with the same versions and file.                  *)
LEMMA DurableGoesOn ==
    ASSUME DurableInv, UNCHANGED <<visible, device, memory>>,
           pc \notin Unsettled, pc' \notin Unsettled \cup {"gc"},
           pc' = "rename" /\ cur # None => InnerDir \in vdirs,
           pc' \in {"open", "write", "flush"} \cup TmpFlushed /\ cur # None => vfile[Key] = None
    PROVE  DurableInv'
<1>1. UNCHANGED <<points, cur, vfile, InnerDir, Key>>
    BY DEF memory, visible, InnerDir, Key
<1>2. Intact(points)' /\ WithContents(points)'
    BY <1>1 DEF DurableInv, References, Intact, VisibleContent, WithContents
<1>3. KeyIsFree'
    <2> SUFFICES ASSUME pc' \in {"open", "write", "flush"} \cup TmpFlushed, cur' # None
                 PROVE  vfile'[Key'] = None
        BY DEF KeyIsFree, TmpFlushed
    <2>1. vfile[Key] = None
        BY <1>1
    <2> QED
        BY <1>1, <2>1
<1> QED
    BY <1>1, <1>2, <1>3, DurableQuiet

(* A process that completes a version whose file is there.                  *)
LEMMA DurableFileDone ==
    ASSUME TypeInv, DurableInv, cur # None, UNCHANGED <<visible, device>>, pc \notin Unsettled,
           NEW c \in Contents, NEW k \in Keys \cup {None}, FileDone(c, k),
           k # None => vfile[k] # None /\ vfile[k].data = c
    PROVE  DurableInv'
<1>1. UNCHANGED vfile /\ pc' = "files" /\ cur' = None
    BY DEF visible, FileDone
<1>2. Intact(points)' /\ WithContents(points)'
    BY <1>1, IntactGrows DEF TypeInv, DurableInv, References, WithContents
<1> QED
    BY <1>1, <1>2, DurableQuiet DEF KeyIsFree, TmpFlushed, Unsettled

-----------------------------------------------------------------------------
(* A new outer directory loses what the device knew below its name: there   *)
(* was nothing below it.                                                    *)
LEMMA MkOuterDurable == ASSUME TypeInv, DurableInv, MkOuter PROVE DurableInv'
<1>1. /\ pc = "dirs" /\ pc' = "syncNewOuter" /\ InnerDir \notin vdirs /\ OuterDir \notin vdirs
      /\ vdirs' = vdirs \cup {OuterDir}
      /\ ddirs' = ddirs \ ({OuterDir} \cup InnerIn(OuterDir))
      /\ dfile' = [k \in Keys |-> IF OuterOf[InnerOf[k[1]]] = OuterDir THEN None ELSE dfile[k]]
      /\ UNCHANGED <<vfile, vmeta, dmeta, points, cur, InnerDir, OuterDir, Key>>
    BY DEF MkOuter, memory, InnerDir, OuterDir, Key
<1>2. InnerDir \in Inner /\ OuterDir \in Outer /\ Inner \cap Outer = {} /\ cur # None
    BY <1>1, DirType, DirsAssumption DEF TypeInv, TypeOK, Control, WithFile, Current
<1>3. \A i \in Inner : i \in vdirs => OuterOf[i] # OuterDir /\ i \notin InnerIn(OuterDir)
    BY <1>1 DEF DurableInv, DirsSettled, InnerIn
<1>4. DirsSettled'
    BY <1>1, <1>2, <1>3 DEF DurableInv, DirsSettled, InnerIn
<1>5. DirsMade'
    BY <1>1, <1>2, <1>3 DEF DirsMade
<1>6. FilesSettled'
    <2>1. ASSUME NEW k \in Keys, vfile[k] # None PROVE dfile'[k] = dfile[k]
        <3>1. InnerOf[k[1]] \in Inner /\ InnerOf[k[1]] \in vdirs
            BY <2>1, DirsAssumption DEF Keys, DurableInv, FilesSettled
        <3> QED
            BY <1>1, <1>3, <3>1
    <2> QED
        BY <1>1, <2>1 DEF DurableInv, FilesSettled
<1>7. MetaSettled'
    BY <1>1 DEF DurableInv, MetaSettled, OnDisk
<1>8. References'
    BY <1>1 DEF DurableInv, References, Intact, VisibleContent, WithContents, Collected, KeyIsFree,
                TmpFlushed
<1> QED
    BY <1>4, <1>5, <1>6, <1>7, <1>8 DEF DurableInv

(* So does a new inner directory, which was empty or not there.             *)
LEMMA MkInnerDurable == ASSUME TypeInv, DurableInv, MkInner PROVE DurableInv'
<1>1. /\ pc \in {"dirs", "mkInner"} /\ pc' = "syncOuter"
      /\ InnerDir \notin vdirs /\ OuterDir \in vdirs
      /\ vdirs' = vdirs \cup {InnerDir} /\ ddirs' = ddirs \ {InnerDir}
      /\ dfile' = [k \in Keys |-> IF InnerOf[k[1]] = InnerDir THEN None ELSE dfile[k]]
      /\ UNCHANGED <<vfile, vmeta, dmeta, points, cur, InnerDir, OuterDir, Key>>
    BY DEF MkInner, memory, InnerDir, OuterDir, Key, DurableInv, DirsMade
<1>2. InnerDir \in Inner /\ OuterDir \in Outer /\ Inner \cap Outer = {} /\ cur # None
      /\ OuterDir = OuterOf[InnerDir]
    BY <1>1, DirType, DirsAssumption DEF TypeInv, TypeOK, Control, WithFile, Current, OuterDir
<1>3. \A k \in Keys : InnerOf[k[1]] = InnerDir => vfile[k] = None
    BY <1>1 DEF DurableInv, FilesSettled
<1>4. DirsSettled'
    BY <1>1, <1>2 DEF DurableInv, DirsSettled
<1>5. DirsMade'
    BY <1>1, <1>2, <1>3 DEF DirsMade
<1>6. FilesSettled'
    BY <1>1, <1>3 DEF DurableInv, FilesSettled
<1>7. MetaSettled'
    BY <1>1 DEF DurableInv, MetaSettled, OnDisk
<1>8. References'
    BY <1>1 DEF DurableInv, References, Intact, VisibleContent, WithContents, Collected, KeyIsFree,
                TmpFlushed
<1> QED
    BY <1>4, <1>5, <1>6, <1>7, <1>8 DEF DurableInv

(* The sync of the repository settles the outer directory; the metadata was *)
(* already what the device has.                                             *)
LEMMA SyncNewOuterDurable == ASSUME TypeInv, DurableInv, SyncNewOuter PROVE DurableInv'
<1>1. /\ pc = "syncNewOuter" /\ pc' = "mkInner"
      /\ ddirs' = (ddirs \ Outer) \cup (vdirs \cap Outer)
      /\ dmeta' = OnDisk(vmeta)
      /\ UNCHANGED <<vdirs, vfile, dfile, vmeta, points, cur, InnerDir, OuterDir, Key>>
    BY DEF SyncNewOuter, SyncEntriesOfRepo, visible, memory, InnerDir, OuterDir, Key
<1>2. dmeta' = dmeta
    BY <1>1 DEF DurableInv, MetaSettled
<1>3. Inner \cap Outer = {}
    BY DirsAssumption
<1>4. DirsSettled' /\ DirsMade'
    BY <1>1, <1>3 DEF DurableInv, DirsSettled, DirsMade
<1>5. FilesSettled'
    BY <1>1 DEF DurableInv, FilesSettled
<1>6. MetaSettled'
    BY <1>1, <1>2 DEF DurableInv, MetaSettled, OnDisk
<1>7. References'
    BY <1>1, <1>2 DEF DurableInv, References, Intact, VisibleContent, WithContents, Collected,
                KeyIsFree, TmpFlushed
<1> QED
    BY <1>4, <1>5, <1>6, <1>7 DEF DurableInv

(* The sync of the outer directory settles the inner one.                   *)
LEMMA SyncOuterDurable == ASSUME TypeInv, DurableInv, SyncOuter PROVE DurableInv'
<1>1. /\ pc = "syncOuter" /\ pc' = "rename"
      /\ ddirs' = (ddirs \ InnerIn(OuterDir)) \cup (vdirs \cap InnerIn(OuterDir))
      /\ UNCHANGED <<vdirs, vfile, vmeta, dfile, dmeta, points, cur, InnerDir, OuterDir, Key>>
    BY DEF SyncOuter, visible, memory, InnerDir, OuterDir, Key
<1>2. InnerDir \in Inner /\ OuterDir = OuterOf[InnerDir] /\ Inner \cap Outer = {}
    BY <1>1, DirType, DirsAssumption DEF TypeInv, TypeOK, Control, WithFile, Current, OuterDir
<1>3. InnerIn(OuterDir) \in SUBSET Inner /\ InnerDir \in InnerIn(OuterDir)
    BY <1>2 DEF InnerIn
<1>4. DirsSettled' /\ DirsMade'
    BY <1>1, <1>2, <1>3 DEF DurableInv, DirsSettled, DirsMade
<1>5. FilesSettled' /\ MetaSettled'
    BY <1>1 DEF DurableInv, FilesSettled, MetaSettled, OnDisk
<1>6. References'
    BY <1>1 DEF DurableInv, References, Intact, VisibleContent, WithContents, Collected,
                KeyIsFree, TmpFlushed
<1> QED
    BY <1>4, <1>5, <1>6 DEF DurableInv

(* Versions that were restorable still are when a free name gets its file.  *)
LEMMA NewNameIntact ==
    ASSUME TypeInv, NEW k \in Keys, vfile[k] = None, NEW f, vfile' = [vfile EXCEPT ![k] = f],
           NEW S \in Snapshot, Intact(S)
    PROVE  /\ k \notin Referenced(S)
           /\ \A pt \in S : VisibleContent(pt)' = pt.content
<1>1. k \notin Referenced(S)
    BY IntactKeys DEF Referenced
<1>2. \A j \in Keys : j \in Referenced(S) => vfile'[j] = vfile[j]
    BY <1>1 DEF TypeInv, TypeOK
<1> QED
    BY <1>1, <1>2, IntactStays DEF Intact

(* rename() makes a file or the metadata visible before it is durable.      *)
LEMMA RenameDurable == ASSUME TypeInv, DurableInv, Rename PROVE DurableInv'
<1>1. /\ pc = "rename" /\ tmp.disk = tmp.data /\ tmp \in TmpFile
      /\ UNCHANGED <<vdirs, ddirs, dfile, dmeta, points, cur, InnerDir, OuterDir, Key>>
    BY DEF Rename, device, memory, InnerDir, OuterDir, Key, TypeInv, Control, TmpFlushed
<1>2. CASE cur = None
    <2>1. vmeta' = tmp /\ tmp.data = points /\ pc' = "syncRepo" /\ UNCHANGED vfile
        BY <1>1, <1>2 DEF Rename, TypeInv, Control, TmpFlushed
    <2>2. DirsSettled' /\ DirsMade' /\ FilesSettled'
        BY <1>1, <2>1 DEF DurableInv, DirsSettled, DirsMade, FilesSettled
    <2>3. MetaSettled'
        BY <1>1, <1>2, <2>1 DEF DurableInv, MetaSettled, TypeInv, TypeOK
    <2>4. \A S : Intact(S) => \A pt \in S : VisibleContent(pt)' = pt.content
        BY <2>1 DEF Intact, VisibleContent
    <2>5. References'
        BY <1>1, <1>2, <2>1, <2>4, NoneIsNothing
        DEF DurableInv, References, Intact, WithContents, KeyIsFree, Collected
    <2> QED
        BY <2>2, <2>3, <2>5 DEF DurableInv
<1>3. CASE cur # None
    <2>1. /\ vfile' = [vfile EXCEPT ![Key] = tmp] /\ pc' = "syncInner" /\ UNCHANGED vmeta
          /\ tmp.data \in Contents
        BY <1>1, <1>3 DEF Rename, TypeInv, Control, TmpFlushed
    <2>2. Key \in Keys /\ vfile[Key] = None /\ InnerDir = InnerOf[Key[1]] /\ InnerDir \in vdirs
        BY <1>1, <1>3, KeyType
        DEF TypeInv, TypeOK, Current, DurableInv, References, KeyIsFree, DirsMade, InnerDir, Key
    <2>3. DirsSettled' /\ DirsMade'
        BY <1>1, <2>1 DEF DurableInv, DirsSettled, DirsMade
    <2>4. FilesSettled'
        BY <1>1, <2>1, <2>2 DEF DurableInv, FilesSettled, TypeInv, TypeOK
    <2>5. ASSUME NEW S \in Snapshot, Intact(S)
          PROVE  Key \notin Referenced(S) /\ \A pt \in S : VisibleContent(pt)' = pt.content
        BY <2>1, <2>2, <2>5, NewNameIntact
    <2>6. dmeta # None => Key \notin Referenced(dmeta)
        BY <2>5 DEF DurableInv, MetaSettled, References
    <2>7. MetaSettled'
        BY <1>1, <1>3, <2>1, <2>6 DEF DurableInv, MetaSettled, OnDisk, Referenced
    <2>8. (Intact(points) /\ WithContents(points))'
        BY <1>1, <2>5 DEF DurableInv, References, Intact, WithContents, TypeInv, TypeOK
    <2>9. vmeta # None => (Intact(vmeta.data) /\ WithContents(vmeta.data))'
        BY <2>1, <2>5 DEF DurableInv, References, MetaSettled, Intact, WithContents
    <2>10. dmeta # None => (Intact(dmeta) /\ WithContents(dmeta))'
        BY <1>1, <2>5 DEF DurableInv, References, MetaSettled, Intact, WithContents
    <2>11. References'
        BY <1>1, <1>3, <2>1, <2>8, <2>9, <2>10 DEF References, KeyIsFree, Collected, TmpFlushed
    <2> QED
        BY <2>3, <2>4, <2>7, <2>11 DEF DurableInv
<1> QED
    BY <1>2, <1>3

(* The sync of its directory settles the new file.                          *)
LEMMA SyncInnerDurable == ASSUME TypeInv, DurableInv, SyncInner PROVE DurableInv'
<1>1. /\ pc = "syncInner" /\ pc' = "syncRepo" /\ cur # None /\ cur' = cur
      /\ dfile' = [k \in Keys |-> IF InnerOf[k[1]] = InnerDir THEN OnDisk(vfile[k]) ELSE dfile[k]]
      /\ UNCHANGED <<vdirs, ddirs, vfile, vmeta, dmeta, points, InnerDir, OuterDir, Key>>
    BY DEF SyncInner, visible, memory, InnerDir, OuterDir, Key, TypeInv, Control, WithFile
<1>2. Key \in Keys /\ InnerDir = InnerOf[Key[1]]
    BY <1>1, KeyType DEF TypeInv, TypeOK, Current, InnerDir, Key
<1>3. DirsSettled' /\ DirsMade'
    BY <1>1 DEF DurableInv, DirsSettled, DirsMade
<1>4. FilesSettled'
    <2>1. \A k \in Keys : vfile[k] # None => dfile'[k] = vfile[k].data
        BY <1>1, <1>2 DEF DurableInv, FilesSettled, OnDisk
    <2>2. \A k \in Keys : dfile'[k] \in Contents \cup {None}
        BY <1>1 DEF DurableInv, FilesSettled, OnDisk
    <2> QED
        BY <1>1, <2>1, <2>2 DEF DurableInv, FilesSettled
<1>5. MetaSettled'
    BY <1>1 DEF DurableInv, MetaSettled, OnDisk
<1>6. References'
    BY <1>1 DEF DurableInv, References, Intact, VisibleContent, WithContents, Collected,
                KeyIsFree, TmpFlushed
<1> QED
    BY <1>3, <1>4, <1>5, <1>6 DEF DurableInv

(* The sync of the repository completes the file, or the metadata.          *)
LEMMA SyncRepoDurable == ASSUME TypeInv, DurableInv, SyncRepo PROVE DurableInv'
<1>1. /\ pc = "syncRepo" /\ pc' \in {"gc", "files"}
      /\ ddirs' = (ddirs \ Outer) \cup (vdirs \cap Outer) /\ dmeta' = OnDisk(vmeta)
      /\ UNCHANGED <<vdirs, vfile, vmeta, dfile>>
    BY DEF SyncRepo, SyncEntriesOfRepo, visible, FileDone
<1>2. Inner \cap Outer = {}
    BY DirsAssumption
<1>3. DirsSettled' /\ DirsMade'
    BY <1>1, <1>2 DEF DurableInv, DirsSettled, DirsMade
<1>4. FilesSettled'
    BY <1>1 DEF DurableInv, FilesSettled
<1>5. MetaSettled'
    BY <1>1, NoneIsNothing DEF DurableInv, MetaSettled, OnDisk
<1>6. \A S : Intact(S) => \A pt \in S : VisibleContent(pt)' = pt.content
    BY <1>1 DEF Intact, VisibleContent
<1>7. vmeta # None => (Intact(vmeta.data) /\ WithContents(vmeta.data))'
    BY <1>1, <1>6 DEF DurableInv, References, Intact, WithContents
<1>8. dmeta' # None => (Intact(dmeta) /\ WithContents(dmeta))'
    BY <1>1, <1>7 DEF DurableInv, MetaSettled, OnDisk, Intact, WithContents
<1>9. CASE cur = None /\ pc' = "gc" /\ UNCHANGED memory
    <2>1. (Intact(points) /\ WithContents(points))'
        BY <1>6, <1>9 DEF DurableInv, References, Intact, WithContents, memory
    <2> QED
        BY <1>1, <1>3, <1>4, <1>5, <1>7, <1>8, <1>9, <2>1
        DEF DurableInv, References, KeyIsFree, Collected, TmpFlushed, memory
<1>10. CASE cur # None /\ FileDone(vfile[Key].data, Key)
    <2>1. Key \in Keys /\ vfile[Key] # None
        BY <1>1, <1>10, KeyType, NoneIsNothing DEF TypeInv, TypeOK, Control, Current
    <2>2. vfile[Key].data \in Contents
        BY <2>1 DEF DurableInv, FilesSettled
    <2>3. (Intact(points) /\ WithContents(points))'
        BY <1>1, <1>10, <2>1, <2>2, IntactGrows DEF TypeInv, DurableInv, References, WithContents
    <2>4. pc' = "files" /\ cur' = None
        BY <1>10 DEF FileDone
    <2> QED
        BY <1>1, <1>3, <1>4, <1>5, <1>7, <1>8, <2>3, <2>4
        DEF DurableInv, References, KeyIsFree, Collected, TmpFlushed
<1> QED
    BY <1>9, <1>10 DEF SyncRepo

-----------------------------------------------------------------------------
(* The collector, early writeback and power failures.                       *)

(* Files nothing refers to can go.                                          *)
LEMMA GCRemoveFileDurable ==
    ASSUME TypeInv, DurableInv, NEW k \in Keys, GCRemoveFile(k) PROVE DurableInv'
<1>1. /\ pc = "gc" /\ cur = None /\ k \notin Referenced(points)
      /\ vfile' = [vfile EXCEPT ![k] = None]
      /\ UNCHANGED <<vdirs, ddirs, dfile, vmeta, dmeta, pc, points, cur>>
    BY DEF GCRemoveFile, Unused, device, memory, TypeInv, Control, WithoutFile
<1>2. vmeta # None /\ points = vmeta.data /\ dmeta = vmeta.data
    BY <1>1 DEF DurableInv, References, Collected, MetaSettled, OnDisk
<1>3. \A j \in Keys : vfile'[j] = IF j = k THEN None ELSE vfile[j]
    BY <1>1 DEF TypeInv, TypeOK
<1>4. points \in Snapshot /\ Intact(points)
    BY DEF TypeInv, TypeOK, DurableInv, References
<1>5. \A pt \in points : VisibleContent(pt)' = pt.content
    <2>1. \A j \in Keys : j \in Referenced(points) => vfile'[j] = vfile[j]
        BY <1>1, <1>3
    <2> QED
        BY <1>4, <2>1, IntactStays DEF Intact
<1>6. DirsSettled' /\ DirsMade' /\ FilesSettled'
    BY <1>1, <1>3 DEF DurableInv, DirsSettled, DirsMade, FilesSettled
<1>7. MetaSettled'
    BY <1>1 DEF DurableInv, MetaSettled, OnDisk
<1>8. References'
    BY <1>1, <1>2, <1>5 DEF DurableInv, References, Intact, WithContents, KeyIsFree, Collected,
                            TmpFlushed
<1> QED
    BY <1>6, <1>7, <1>8 DEF DurableInv

(* So can empty directories.                                                *)
LEMMA GCRemoveDirDurable ==
    ASSUME TypeInv, DurableInv, NEW d \in Dirs, GCRemoveDir(d) PROVE DurableInv'
<1>1. /\ pc = "gc" /\ cur = None /\ vdirs' = vdirs \ {d}
      /\ \A k \in Keys : InnerOf[k[1]] = d => vfile[k] = None
      /\ \A i \in vdirs \cap Inner : OuterOf[i] # d
      /\ UNCHANGED <<vfile, ddirs, dfile, vmeta, dmeta, pc, points, cur>>
    BY DEF GCRemoveDir, EmptyDir, device, memory, TypeInv, Control, WithoutFile
<1>2. DirsSettled' /\ DirsMade' /\ FilesSettled'
    BY <1>1 DEF DurableInv, DirsSettled, DirsMade, FilesSettled
<1>3. MetaSettled'
    BY <1>1 DEF DurableInv, MetaSettled, OnDisk
<1>4. References'
    BY <1>1 DEF DurableInv, References, Intact, VisibleContent, WithContents, KeyIsFree, Collected,
                TmpFlushed
<1> QED
    BY <1>2, <1>3, <1>4 DEF DurableInv

(* An entry that is written back early is one that is visible.              *)
LEMMA WritebackDurable ==
    ASSUME TypeInv, DurableInv,
           \/ \E k \in Keys : WritebackFile(k)
           \/ \E d \in Dirs : WritebackDir(d)
           \/ WritebackMetadata
    PROVE  DurableInv'
<1>1. /\ UNCHANGED <<vdirs, vfile, vmeta, pc, points, cur, InnerDir, OuterDir, Key>>
      /\ \/ UNCHANGED ddirs
         \/ \E d \in Dirs : ddirs' = IF d \in vdirs THEN ddirs \cup {d} ELSE ddirs \ {d}
      /\ dfile' = dfile \/ \E k \in Keys : dfile' = [dfile EXCEPT ![k] = OnDisk(vfile[k])]
      /\ dmeta' \in {dmeta, OnDisk(vmeta)}
    BY DEF WritebackFile, WritebackDir, WritebackMetadata, visible, memory, InnerDir, OuterDir, Key
<1>2. DirsSettled' /\ DirsMade'
    BY <1>1 DEF DurableInv, DirsSettled, DirsMade
<1>3. FilesSettled'
    BY <1>1 DEF DurableInv, FilesSettled, OnDisk, TypeInv, TypeOK
<1>4. MetaSettled'
    BY <1>1 DEF DurableInv, MetaSettled, OnDisk, Referenced
<1>5. \A S : Intact(S) => \A pt \in S : VisibleContent(pt)' = pt.content
    BY <1>1 DEF Intact, VisibleContent
<1>6. dmeta' # None => (Intact(dmeta) /\ WithContents(dmeta))'
    BY <1>1, <1>5 DEF DurableInv, References, MetaSettled, OnDisk, Intact, WithContents
<1>7. References'
    BY <1>1, <1>5, <1>6
    DEF DurableInv, References, Intact, WithContents, KeyIsFree, Collected, TmpFlushed
<1> QED
    BY <1>2, <1>3, <1>4, <1>7 DEF DurableInv

(* A file that is read again after a power failure is one.                  *)
LEMMA RereadIsFile ==
    ASSUME NEW c \in Contents \cup Snapshot, c # None
    PROVE  Reread(c) = [data |-> c, disk |-> c] /\ Reread(c) # None
<1>1. [data |-> c, disk |-> c] \in TmpFile
    BY DEF TmpFile
<1> QED
    BY <1>1, NoneIsNothing DEF Reread

(* What comes back after a power failure is settled, and it is what the     *)
(* metadata on the device refers to.                                        *)
LEMMA PowerLossDurable == ASSUME TypeInv, DurableInv, PowerLoss PROVE DurableInv'
<1>1. /\ vdirs' = {d \in Dirs : Reachable(d)} /\ ddirs' = vdirs'
      /\ dfile' = [k \in Keys |-> OnDevice(k)]
      /\ vfile' = [k \in Keys |-> Reread(OnDevice(k))]
      /\ vmeta' = Reread(dmeta) /\ dmeta' = dmeta
      /\ pc' = "idle" /\ points' = {} /\ cur' = None
    BY DEF PowerLoss, Exit
<1>2. DirsSettled' /\ DirsMade'
    BY <1>1, DirsAssumption DEF DirsSettled, DirsMade, Reachable, Dirs
<1>3. FilesSettled'
    <2>1. ASSUME NEW k \in Keys
          PROVE  /\ OnDevice(k) \in Contents \cup {None}
                 /\ OnDevice(k) # None => InnerOf[k[1]] \in vdirs'
                 /\ vfile'[k] = Reread(OnDevice(k)) /\ dfile'[k] = OnDevice(k)
        BY <1>1, DirsAssumption DEF DurableInv, FilesSettled, OnDevice, Reachable, Dirs, Keys
    <2>2. ASSUME NEW k \in Keys, vfile'[k] # None
          PROVE  /\ OnDevice(k) # None /\ OnDevice(k) \in Contents
                 /\ vfile'[k] = [data |-> OnDevice(k), disk |-> OnDevice(k)]
        BY <2>1, <2>2 DEF Reread
    <2> QED
        BY <1>1, <2>1, <2>2 DEF FilesSettled
<1>4. MetaSettled'
    <2>1. CASE dmeta = None
        BY <1>1, <2>1 DEF MetaSettled, Reread, OnDisk
    <2>2. CASE dmeta # None
        <3>1. dmeta \in Snapshot
            BY <2>2 DEF DurableInv, MetaSettled
        <3>2. vmeta' = [data |-> dmeta, disk |-> dmeta] /\ vmeta' # None
            BY <1>1, <2>2, <3>1, RereadIsFile
        <3> QED
            BY <1>1, <3>1, <3>2 DEF MetaSettled, OnDisk
    <2> QED
        BY <2>1, <2>2
<1>5. ASSUME dmeta # None, NEW pt \in dmeta
      PROVE  VisibleContent(pt)' = pt.content /\ pt.content \in Contents
    <2>1. DurableContent(pt) = pt.content /\ pt \in Version /\ pt.content \in Contents
        BY <1>5, DurableInvIntact
        DEF DurableIntact, DurableInv, MetaSettled, References, WithContents, Snapshot
    <2>2. CASE pt.key = None
        BY <2>1, <2>2 DEF VisibleContent
    <2>3. CASE pt.key # None
        <3>1. pt.key \in Keys /\ OnDevice(pt.key) = pt.content /\ pt.content # None
            BY <2>1, <2>3, NoneIsNothing DEF Version, DurableContent
        <3>2. vfile'[pt.key] = Reread(pt.content)
            BY <1>1, <3>1
        <3>3. vfile'[pt.key] # None /\ vfile'[pt.key].data = pt.content
            <4>1. pt.content \in Contents \cup Snapshot
                BY <2>1
            <4>2. Reread(pt.content).data = pt.content /\ Reread(pt.content) # None
                BY <3>1, <4>1, RereadIsFile
            <4> QED
                BY <3>2, <4>2
        <3> QED
            BY <2>1, <2>3, <3>3 DEF VisibleContent, Data
    <2> QED
        BY <2>1, <2>2, <2>3
<1>6. dmeta # None => (Intact(dmeta) /\ WithContents(dmeta))'
    BY <1>1, <1>5 DEF Intact, WithContents
<1>7. vmeta' # None => dmeta # None /\ vmeta'.data = dmeta'
    BY <1>1 DEF Reread
<1>8. References'
    BY <1>1, <1>6, <1>7 DEF References, Intact, WithContents, KeyIsFree, Collected, TmpFlushed
<1> QED
    BY <1>2, <1>3, <1>4, <1>8 DEF DurableInv

-----------------------------------------------------------------------------
(* Every step keeps what is on the device restorable, if none is a kill.    *)
LEMMA NextDurable ==
    ASSUME ~MayKill
    PROVE  TypeInv /\ DurableInv /\ [Next]_vars => DurableInv'
<1> SUFFICES ASSUME TypeInv, DurableInv, [Next]_vars PROVE DurableInv'
    OBVIOUS
<1>1. CASE StartBackup
    <2>1. PICK kept \in SUBSET Loaded : points' = kept
        BY <1>1 DEF StartBackup
    <2>2. /\ pc = "idle" /\ pc' = "review" /\ cur' = None
          /\ UNCHANGED <<visible, device, vfile, vmeta>>
        BY <1>1 DEF StartBackup, visible, TypeInv, Control, WithoutFile
    <2>3. Intact(points)' /\ WithContents(points)'
        BY <2>1, <2>2
        DEF DurableInv, References, Loaded, Intact, WithContents, VisibleContent
    <2> QED
        BY <2>2, <2>3, DurableQuiet DEF Unsettled, KeyIsFree
<1>2. CASE Review
    <2>1. UNCHANGED <<visible, device>> /\ pc = "review"
        BY <1>2 DEF Review
    <2>2. CASE pc' = "files" /\ UNCHANGED memory
        BY <2>1, <2>2, DurableGoesOn DEF Unsettled, TmpFlushed
    <2> QED
        BY <1>2, <2>1, <2>2, DurableExit DEF Review, Unsettled
<1>3. ASSUME NEW p \in Paths, StatFile(p) PROVE DurableInv'
    <2>1. UNCHANGED <<visible, device, vfile>> /\ pc = "files"
        BY <1>3 DEF StatFile, visible
    <2>2. CASE pc' \in {"probe", "hash"} /\ UNCHANGED points
        <3>1. Intact(points)' /\ WithContents(points)'
            BY <2>1, <2>2 DEF DurableInv, References, Intact, WithContents, VisibleContent
        <3> QED
            BY <2>1, <2>2, <3>1, DurableQuiet DEF Unsettled, KeyIsFree, TmpFlushed
    <2> QED
        BY <1>3, <2>1, <2>2, DurableExit DEF StatFile, Unsettled
<1>4. CASE ReadSmallFile
    <2>1. UNCHANGED <<visible, device>> /\ pc = "hash" /\ cur # None
        BY <1>4 DEF ReadSmallFile, TypeInv, Control, WithFile
    <2>2. PICK c \in Contents : FileDone(c, None)
        BY <1>4, <2>1 DEF ReadSmallFile, TypeInv, TypeOK, Control
    <2> QED
        BY <2>1, <2>2, DurableFileDone DEF Unsettled
<1>5. CASE HashLargeFile
    <2>1. UNCHANGED <<visible, device, points, vfile>> /\ pc = "hash" /\ pc' = "probe"
        BY <1>5 DEF HashLargeFile, visible
    <2>2. Intact(points)' /\ WithContents(points)'
        BY <2>1 DEF DurableInv, References, Intact, WithContents, VisibleContent
    <2> QED
        BY <2>1, <2>2, DurableQuiet DEF Unsettled, KeyIsFree, TmpFlushed
<1>6. CASE SearchDuplicate
    <2>1. UNCHANGED <<visible, device, vfile>> /\ pc = "probe" /\ cur # None
        BY <1>6 DEF SearchDuplicate, visible, TypeInv, Control, WithFile
    <2>2. CASE SlotFree /\ Copy
        BY <2>1, <2>2, DurableGoesOn DEF SlotFree, Copy, Unsettled
    <2>3. CASE SlotEqual /\ UseStored
        <3>1. Key \in Keys /\ vfile[Key] # None /\ FileDone(vfile[Key].data, Key)
            BY <2>1, <2>3, KeyType DEF SlotEqual, SlotFree, UseStored, TypeInv, TypeOK, Current
        <3>2. vfile[Key].data \in Contents
            BY <3>1 DEF DurableInv, FilesSettled
        <3> QED
            BY <2>1, <3>1, <3>2, DurableFileDone DEF Unsettled
    <2>4. CASE NextSlot(cur.slot + 1)
        <3>1. UNCHANGED <<pc, points>>
            BY <2>4 DEF NextSlot
        <3>2. Intact(points)' /\ WithContents(points)'
            BY <2>1, <3>1 DEF DurableInv, References, Intact, WithContents, VisibleContent
        <3> QED
            BY <2>1, <3>1, <3>2, DurableQuiet DEF Unsettled, KeyIsFree, TmpFlushed
    <2> QED
        BY <1>6, <2>1, <2>2, <2>3, <2>4, DurableExit DEF SearchDuplicate, Unsettled
<1>7. CASE SizeDiffers
    BY <1>7, DurableExit DEF SizeDiffers, Unsettled
<1>8. CASE ReadFails
    BY <1>8, DurableExit DEF ReadFails, Unsettled
<1>9. CASE OpenTmp
    <2>1. /\ UNCHANGED <<visible, device, memory>> /\ pc \in {"open", "files"} /\ pc' = "write"
          /\ pc = "files" => cur = None
        BY <1>9 DEF OpenTmp, TypeInv, Control, WithoutFile
    <2> QED
        BY <2>1, DurableGoesOn DEF DurableInv, References, KeyIsFree, Unsettled, TmpFlushed
<1>10. CASE WriteTmp
    BY <1>10, DurableGoesOn
    DEF WriteTmp, DurableInv, References, KeyIsFree, Unsettled, TmpFlushed
<1>11. CASE FlushTmp
    BY <1>11, DurableGoesOn
    DEF FlushTmp, DurableInv, References, KeyIsFree, Unsettled, TmpFlushed
<1>12. CASE DirsExist
    BY <1>12, DurableGoesOn
    DEF DirsExist, DurableInv, References, KeyIsFree, Unsettled, TmpFlushed
<1>13. CASE StartGC
    <2>1. /\ UNCHANGED <<visible, device, vfile, vmeta, cur>> /\ pc = "idle" /\ pc' = "gc"
          /\ vmeta # None /\ points' = vmeta.data /\ cur = None
        BY <1>13 DEF StartGC, visible, TypeInv, Control, WithoutFile
    <2>2. Intact(points)' /\ WithContents(points)'
        BY <2>1 DEF DurableInv, References, Intact, WithContents, VisibleContent
    <2> QED
        BY <2>1, <2>2, DurableQuiet DEF Unsettled, KeyIsFree
<1>14. CASE GCRemoveTmp
    <2>1. UNCHANGED <<visible, device, memory>> /\ pc = "gc" /\ pc' = "gc" /\ cur = None
        BY <1>14 DEF GCRemoveTmp, TypeInv, Control, WithoutFile
    <2>2. UNCHANGED <<points, cur, vfile>> /\ vmeta # None /\ points = vmeta.data
        BY <2>1 DEF memory, visible, DurableInv, References, Collected
    <2>3. Intact(points)' /\ WithContents(points)'
        BY <2>2 DEF DurableInv, References, Intact, WithContents, VisibleContent
    <2> QED
        BY <2>1, <2>2, <2>3, DurableQuiet DEF Unsettled, KeyIsFree
<1>15. CASE GCDone
    BY <1>15, DurableExit DEF GCDone, Unsettled
<1>16. ASSUME UNCHANGED <<visible, device, pc, memory>> PROVE DurableInv'
    <2>1. UNCHANGED <<vdirs, vfile, vmeta, ddirs, dfile, dmeta, pc, points, cur, InnerDir, OuterDir, Key>>
        BY <1>16 DEF visible, device, memory, InnerDir, OuterDir, Key
    <2>2. DirsSettled' /\ DirsMade' /\ FilesSettled'
        BY <2>1 DEF DurableInv, DirsSettled, DirsMade, FilesSettled
    <2>3. MetaSettled'
        BY <2>1 DEF DurableInv, MetaSettled, OnDisk
    <2>4. References'
        BY <2>1 DEF DurableInv, References, Intact, VisibleContent, WithContents, KeyIsFree, Collected
    <2> QED
        BY <2>2, <2>3, <2>4 DEF DurableInv
<1>17. ASSUME NEW p \in Paths, UserWrite(p) PROVE DurableInv'
    BY <1>16, <1>17 DEF UserWrite
<1>18. CASE UNCHANGED vars
    BY <1>16, <1>18 DEF vars
<1> QED
    BY <1>1, <1>2, <1>3, <1>4, <1>5, <1>6, <1>7, <1>8, <1>9, <1>10, <1>11, <1>12, <1>13, <1>14,
       <1>15, <1>17, <1>18, MkOuterDurable, MkInnerDurable, SyncNewOuterDurable, SyncOuterDurable,
       RenameDurable, SyncInnerDurable, SyncRepoDurable, GCRemoveFileDurable, GCRemoveDirDurable,
       WritebackDurable, PowerLossDurable
    DEF Next, Work, Environment, Kill

(* Whenever the power goes, whatever the system had written back before and *)
(* whatever the user does to the files meanwhile, the device holds a        *)
(* repository of which everything can be restored: the syncs of             *)
(* repoWriterClose() are enough, as long as no run is cut off between them  *)
(* without a power failure.                                                 *)
THEOREM BackupsSurvivePowerLoss ==
    ASSUME ~MayKill PROVE Spec => []DurableIntact
BY InitType, NextType, InitDurable, NextDurable, DurableInvIntact, PTL DEF Spec

-----------------------------------------------------------------------------
(* The refinement: what the device would give back, and what will be there  *)
(* once the repository directory is synced.                                 *)
OnDeviceNow == IF dmeta = None THEN {} ELSE dmeta
Survives == {<<pt.path, DurableContent(pt)>> : pt \in OnDeviceNow}
UntilSynced == {"write", "flush", "rename", "syncRepo"}

(* Only the sync of the repository, or an early writeback during it, changes *)
(* the metadata on the device.                                              *)
LEMMA MetaSyncStep ==
    ASSUME TypeInv, DurableInv, Next, dmeta' # dmeta
    PROVE  /\ Writing({"syncRepo"}) /\ dmeta' = OnDisk(vmeta)
           /\ pc' = "gc" \/ UNCHANGED <<pc, memory>>
<1>1. SyncRepo \/ SyncNewOuter \/ WritebackMetadata
    BY DEF Next, Work, Environment, StartBackup, Review, StatFile, ReadSmallFile, HashLargeFile,
       SearchDuplicate, SizeDiffers, ReadFails, OpenTmp, WriteTmp, FlushTmp, DirsExist, MkOuter,
       MkInner, SyncOuter, Rename, SyncInner, StartGC, GCRemoveFile, GCRemoveDir, GCRemoveTmp,
       GCDone, UserWrite, Kill, WritebackFile, WritebackDir, PowerLoss, device
<1>2. dmeta' = OnDisk(vmeta)
    BY <1>1 DEF SyncRepo, SyncNewOuter, WritebackMetadata, SyncEntriesOfRepo
<1>3. pc = "syncRepo" /\ cur = None
    BY <1>2 DEF DurableInv, MetaSettled
<1> QED
    BY <1>1, <1>2, <1>3 DEF SyncRepo, SyncNewOuter, WritebackMetadata, Writing, FileDone

(* Metadata is being written from the moment the temporary file is opened   *)
(* until it is synced, and what will be in it stays the same until then.    *)
LEMMA SyncingStep ==
    ASSUME TypeInv, Next, Writing(UntilSynced)'
    PROVE  \/ pc = "files" /\ cur = None /\ UNCHANGED points
           \/ Writing(UntilSynced) /\ UNCHANGED points
BY DEF Next, Work, Environment, StartBackup, Review, StatFile, ReadSmallFile, HashLargeFile,
       SearchDuplicate, SizeDiffers, ReadFails, OpenTmp, WriteTmp, FlushTmp, DirsExist, MkOuter,
       SyncNewOuter, MkInner, SyncOuter, Rename, SyncInner, SyncRepo, StartGC, GCRemoveFile,
       GCRemoveDir, GCRemoveTmp, GCDone, UserWrite, Kill, WritebackFile, WritebackDir,
       WritebackMetadata, PowerLoss, memory, Writing, UntilSynced, TypeInv, Control, WithFile,
       FileDone, Exit, NextSlot, Copy, UseStored

(* The device of an empty repository has nothing.                           *)
LEMMA InitDevice == Init => Device!Init
BY DEF Init, Device!Init, CandidateUntil, Writing

(* Every step is one of AtomicBackup or leaves its state alone.             *)
LEMMA NextDevice ==
    ASSUME None \notin Snapshot
    PROVE  TypeInv /\ DurableInv /\ DurableIntact /\ DurableIntact' /\ [Next]_vars
               => [Device!Next]_(Device!vars)
<1> DEFINE Waiting == CandidateUntil(UntilSynced)
<1> SUFFICES ASSUME TypeInv, DurableInv, DurableIntact, DurableIntact', [Next]_vars
             PROVE  UNCHANGED <<Survives, Waiting>> \/ Device!Next
    BY DEF Device!vars, Survives, OnDeviceNow, UntilSynced
<1>1. Survives = AsBackedUp(OnDeviceNow) /\ Survives' = AsBackedUp(OnDeviceNow)'
    BY DEF Survives, AsBackedUp, OnDeviceNow, DurableIntact
<1>2. AsBackedUp(points) \in SUBSET (Paths \X Contents) /\ AsBackedUp(points) # None
    <2>1. AsBackedUp(points) \in SUBSET (Paths \X Contents)
        BY DEF TypeInv, TypeOK, DurableInv, References, WithContents, Snapshot, Version, AsBackedUp
    <2> QED
        BY <2>1, ValuesAssumption
<1>3. CASE UNCHANGED vars
    <2>1. Survives' = Survives
        BY <1>1, <1>3 DEF vars, device, OnDeviceNow, AsBackedUp
    <2> QED
        BY <1>3, <2>1 DEF vars, memory, CandidateUntil, Writing
<1>4. CASE Next /\ dmeta' = dmeta
    <2>1. Survives' = Survives
        BY <1>1, <1>4 DEF OnDeviceNow, AsBackedUp
    <2>2. CASE ~Writing(UntilSynced)'
        <3>1. Waiting' = None
            BY <2>2 DEF CandidateUntil
        <3> QED
            BY <2>1, <3>1 DEF Device!Next, Device!Abandon, Survives, OnDeviceNow, UntilSynced
    <2>3. CASE Writing(UntilSynced)'
        <3>1. Waiting' = AsBackedUp(points)'
            BY <2>3 DEF CandidateUntil, AsBackedUp
        <3>2. CASE Writing(UntilSynced) /\ UNCHANGED points
            BY <2>1, <3>1, <3>2 DEF CandidateUntil, AsBackedUp
        <3>3. CASE pc = "files" /\ UNCHANGED points
            <4>1. Waiting = None
                BY <3>3 DEF CandidateUntil, Writing, UntilSynced
            <4>2. Waiting' = AsBackedUp(points)
                BY <3>1, <3>3 DEF AsBackedUp
            <4> QED
                BY <1>2, <2>1, <4>1, <4>2
                DEF Device!Next, Device!Prepare, Survives, OnDeviceNow, UntilSynced
        <3> QED
            BY <1>4, <2>3, <3>2, <3>3, SyncingStep
    <2> QED
        BY <2>2, <2>3
<1>5. CASE Next /\ dmeta' # dmeta
    <2>1. /\ Writing({"syncRepo"}) /\ dmeta' = OnDisk(vmeta)
          /\ pc' = "gc" \/ UNCHANGED <<pc, memory>>
        BY <1>5, MetaSyncStep
    <2>2. vmeta # None /\ dmeta' = points
        BY <2>1 DEF Writing, OnDisk, DurableInv, References, Collected, MetaSettled
    <2>3. Survives' = AsBackedUp(points)
        BY <1>1, <2>2 DEF OnDeviceNow, AsBackedUp, TypeInv, TypeOK
    <2>4. Waiting = AsBackedUp(points) /\ Waiting' \in {Waiting, None}
        BY <2>1 DEF CandidateUntil, Writing, UntilSynced, AsBackedUp, memory
    <2> QED
        BY <1>2, <2>3, <2>4 DEF Device!Next, Device!Commit, Survives, OnDeviceNow, UntilSynced
<1> QED
    BY <1>3, <1>4, <1>5

(* What a power failure would leave is replaced by what a backup saw in one *)
(* step or not at all: module Repository implements AtomicBackup on the     *)
(* device as well.  None, which stands for missing metadata, must not be a  *)
(* set of versions itself.                                                  *)
THEOREM BackupsAreAtomicOnDevice ==
    ASSUME ~MayKill, None \notin Snapshot PROVE Spec => DeviceAtomic
BY InitType, NextType, InitDurable, NextDurable, DurableInvIntact, InitDevice, NextDevice, PTL
DEF Spec, DeviceAtomic, Device!Spec
=============================================================================

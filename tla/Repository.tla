----------------------------- MODULE Repository -----------------------------
(***************************************************************************)
(* The repository directory of nano-backup and the one process that holds  *)
(* its lock: a backup run from the user's consent to the end of its        *)
(* garbage collection, and the gc command.  One action is one system call  *)
(* that reads or changes something another actor can change: the user's    *)
(* files, the repository as it is visible, the repository as it is on the  *)
(* device.                                                                 *)
(*                                                                         *)
(* The tree diff that decides which versions are kept and which files are  *)
(* stored is module Backup; here that decision is any choice.  Paths of    *)
(* stored files are <<hash, slot>>: "hash" stands for the hash and the     *)
(* size, which are both in the name.                                       *)
(*                                                                         *)
(* The file system: a name becomes durable when its directory is synced,   *)
(* or at any moment by itself; data becomes durable when the file is       *)
(* synced; rename() replaces a name as a whole.  What a directory held     *)
(* before it was removed is gone when it is made again.                    *)
(***************************************************************************)
EXTENDS Naturals, FiniteSets

CONSTANTS
    Paths,          \* regular files of the user
    Contents,       \* what such a file may contain
    SizeOf,         \* size of each content
    FileHashSize,   \* FILE_HASH_SIZE: up to this size content lives in the metadata
    Hashes,
    HashOf,         \* hash (and size) of each content; hashes may collide
    Inner, InnerOf, \* directories "a/bc" of the repository, by hash
    Outer, OuterOf, \* directories "a" of the repository, by inner directory
    MaxSlot,        \* UINT8_MAX in the code
    MaxVersions,    \* bound: versions in a snapshot
    MayKill,        \* the process may end between any two system calls
    MayLosePower,   \* the machine may lose power at any moment
    StableSource,   \* the user leaves the files alone during a backup
    None,           \* "no such file", "nothing"
    Torn            \* data that never reached the device

Keys == Hashes \X (0..MaxSlot)
Dirs == Outer \cup Inner
Version == [path: Paths, content: Contents \cup {Torn}, key: Keys \cup {None}]
Snapshot == SUBSET Version
Stored(data) == {None} \cup [data: data, disk: data]

ASSUME ContentsAssumption ==
    /\ SizeOf \in [Contents -> Nat]
    /\ FileHashSize \in Nat
    /\ HashOf \in [Contents -> Hashes]
    /\ \A c, d \in Contents : SizeOf[c] > FileHashSize /\ SizeOf[d] > FileHashSize
            /\ HashOf[c] = HashOf[d] => SizeOf[c] = SizeOf[d]
    /\ MaxSlot \in Nat /\ MaxVersions \in Nat
ASSUME DirsAssumption ==
    /\ InnerOf \in [Hashes -> Inner]
    /\ OuterOf \in [Inner -> Outer]
    /\ Inner \cap Outer = {}
ASSUME FaultsAssumption ==
    /\ MayKill \in BOOLEAN /\ MayLosePower \in BOOLEAN /\ StableSource \in BOOLEAN
ASSUME ValuesAssumption ==
    /\ None \notin Contents /\ None \notin Keys
    /\ Torn \notin Contents /\ Torn # None
    /\ None \notin [path: Paths, hash: Hashes, slot: 0..MaxSlot]
    /\ None \notin [data: {Torn} \cup Contents \cup Snapshot, disk: {Torn} \cup Contents \cup Snapshot]
    /\ \A S \in SUBSET (Paths \X Contents) : S # None

VARIABLES
    source,   \* the user's files
    touched,  \* those whose modification time changed since the run looked at them
    slipped,  \* those rewritten in a way the run cannot notice: a history
              \* variable for the properties
    vdirs, vfile, vmeta,   \* the repository as processes see it
    ddirs, dfile, dmeta,   \* the repository as it is on the device
    tmp,      \* "tmp-file" of the repository
    pc,       \* where the process is
    points,   \* metadata in memory: the versions it refers to
    seen,     \* files still to store, with the content their size was taken from
    fresh,    \* those among them with BH_fresh_hash
    cur       \* the file being stored; None while the metadata is written

user    == <<source, touched, slipped>>
visible == <<vdirs, vfile, vmeta>>
device  == <<ddirs, dfile, dmeta>>
memory  == <<points, seen, fresh, cur>>
vars    == <<user, visible, device, tmp, pc, memory>>

Steps == {"idle", "review", "files", "hash", "probe", "open", "write", "flush",
          "dirs", "syncNewOuter", "mkInner", "syncOuter", "rename",
          "syncInner", "syncRepo", "gc"}

TypeOK ==
    /\ source \in [Paths -> Contents]
    /\ touched \in SUBSET Paths /\ slipped \in SUBSET Paths
    /\ vdirs \in SUBSET Dirs /\ ddirs \in SUBSET Dirs
    /\ vfile \in [Keys -> Stored(Contents \cup {Torn})]
    /\ dfile \in [Keys -> Contents \cup {Torn, None}]
    /\ vmeta \in Stored({Torn} \cup Snapshot)
    /\ dmeta \in {Torn, None} \cup Snapshot
    /\ tmp \in Stored({Torn} \cup Contents \cup Snapshot)
    /\ pc \in Steps
    /\ points \in Snapshot
    /\ seen \in [Paths -> Contents \cup {None}]
    /\ fresh \in SUBSET Paths
    /\ cur \in [path: Paths, hash: Hashes, slot: 0..MaxSlot] \cup {None}

-----------------------------------------------------------------------------
(* Names of the file being stored. *)
Key      == <<cur.hash, cur.slot>>
InnerDir == InnerOf[cur.hash]
OuterDir == OuterOf[InnerDir]
KeysIn(i) == {k \in Keys : InnerOf[k[1]] = i}
InnerIn(o) == {i \in Inner : OuterOf[i] = o}

OnDisk(f) == IF f = None THEN None ELSE f.disk
Reread(d) == IF d = None THEN None ELSE [data |-> d, disk |-> d]
NoMore == [p \in Paths |-> None]

(* Mutation: the slot is left out of the path of a stored file. *)
Referenced_WithoutSlot(versions) == {<<pt.key[1], 0>> : pt \in {v \in versions : v.key # None}}

(* The stored files a set of versions refers to. *)
Referenced(versions) == {pt.key : pt \in versions} \ {None}
Loaded == IF vmeta = None THEN {} ELSE vmeta.data

(* fdatasync() of the repository directory makes its entries durable. *)
SyncEntriesOfRepo ==
    /\ ddirs' = (ddirs \ Outer) \cup (vdirs \cap Outer)
    /\ dmeta' = OnDisk(vmeta)
    /\ UNCHANGED dfile

(* The process is gone; the lock goes with it. *)
Exit == /\ pc' = "idle"
        /\ points' = {} /\ seen' = NoMore /\ fresh' = {} /\ cur' = None

-----------------------------------------------------------------------------
Small(content) == SizeOf[content] <= FileHashSize
(* The file a run reads is still as long as when it was first seen. *)
SizeUnchanged == SizeOf[source[cur.path]] = SizeOf[seen[cur.path]]

Init ==
    /\ source \in [Paths -> Contents] /\ touched = {} /\ slipped = {}
    /\ vdirs = {} /\ vfile = [k \in Keys |-> None] /\ vmeta = None
    /\ ddirs = {} /\ dfile = [k \in Keys |-> None] /\ dmeta = None
    /\ tmp = None
    /\ pc = "idle" /\ points = {} /\ seen = NoMore /\ fresh = {} /\ cur = None

(* Load the metadata, compare it with the file system and show the changes. *)
StartBackup ==
    /\ pc = "idle"
    /\ vmeta # None => vmeta.data # Torn
    /\ \E kept \in SUBSET Loaded, todo \in SUBSET Paths :
        /\ Cardinality(kept) + Cardinality(todo) <= MaxVersions
        /\ points' = kept
        /\ seen' = [p \in Paths |-> IF p \in todo THEN source[p] ELSE None]
        /\ fresh' \in SUBSET todo
    /\ pc' = "review"
    /\ touched' = {} /\ slipped' = {}
    /\ UNCHANGED <<source, visible, device, tmp, cur>>

(* The answer to "proceed?"; without it the repository stays as it is. *)
Review ==
    /\ pc = "review"
    /\ \/ pc' = "files" /\ UNCHANGED memory
       \/ Exit
    /\ UNCHANGED <<user, visible, device, tmp>>

(* Mutation: the timestamp is not looked at again. *)
StatFile_Unchecked(p) ==
    /\ pc = "files" /\ seen[p] # None
    /\ cur' = [path |-> p, hash |-> HashOf[seen[p]], slot |-> 0]
    /\ pc' = IF p \in fresh /\ ~Small(seen[p]) THEN "probe" ELSE "hash"
    /\ UNCHANGED <<user, visible, device, tmp, points, seen, fresh>>

(* addFileToRepo(): take the next new file, unless its timestamp changed. *)
StatFile(p) ==
    /\ pc = "files" /\ seen[p] # None
    /\ \/ p \in touched /\ Exit
       \/ /\ p \notin touched
          /\ cur' = [path |-> p, hash |-> HashOf[seen[p]], slot |-> 0]
          /\ pc' = IF p \in fresh /\ ~Small(seen[p])
                   THEN "probe" ELSE "hash"
          /\ UNCHANGED <<points, seen, fresh>>
    /\ UNCHANGED <<user, visible, device, tmp>>

(* The version of the current file is complete in memory. *)
FileDone(content, key) ==
    /\ points' = points \cup {[path |-> cur.path, content |-> content, key |-> key]}
    /\ seen' = [seen EXCEPT ![cur.path] = None]
    /\ cur' = None
    /\ pc' = "files"
    /\ UNCHANGED fresh

(* Small files live in the metadata, in the space of the hash. *)
ReadSmallFile ==
    /\ pc = "hash" /\ Small(seen[cur.path])
    /\ \/ cur.path \in fresh /\ FileDone(seen[cur.path], None)
       \/ /\ cur.path \notin fresh /\ SizeUnchanged
          /\ FileDone(source[cur.path], None)
    /\ UNCHANGED <<user, visible, device, tmp>>

(* fileHash() reads as many bytes as the file has by now.  If that is not   *)
(* the size found by the search, the hash and that size together may name   *)
(* anything: only the comparison or the copy notices.                       *)
HashLargeFile ==
    /\ pc = "hash" /\ ~Small(seen[cur.path])
    /\ \E h \in Hashes :
        /\ SizeUnchanged => h = HashOf[source[cur.path]]
        /\ cur' = [cur EXCEPT !.hash = h]
    /\ pc' = "probe"
    /\ UNCHANGED <<user, visible, device, tmp, points, seen, fresh>>

(* searchFileDuplicates(): one turn of its loop over the slots. *)
SlotFree  == vfile[Key] = None
SlotEqual == ~SlotFree /\ vfile[Key].data = source[cur.path]
NextSlot(slot) == cur' = [cur EXCEPT !.slot = slot] /\ UNCHANGED <<pc, points, seen, fresh>>
Copy           == pc' = "open" /\ UNCHANGED memory
UseStored      == SizeUnchanged /\ FileDone(vfile[Key].data, Key)

(* Mutations: an existing file is taken without comparing it; it is never   *)
(* taken; the first slot is reused; the slot wraps around; it is unbounded.  *)
SearchDuplicate_NoCompare ==
    /\ pc = "probe"
    /\ \/ SlotFree /\ Copy
       \/ ~SlotFree /\ FileDone(source[cur.path], Key)
    /\ UNCHANGED <<user, visible, device, tmp>>
SearchDuplicate_NeverEqual ==
    /\ pc = "probe"
    /\ \/ SlotFree /\ Copy
       \/ ~SlotFree /\ cur.slot < MaxSlot /\ NextSlot(cur.slot + 1)
    /\ UNCHANGED <<user, visible, device, tmp>>
SearchDuplicate_SlotZeroReused ==
    /\ pc = "probe"
    /\ \/ SlotEqual /\ UseStored
       \/ ~SlotEqual /\ Copy
    /\ UNCHANGED <<user, visible, device, tmp>>
SearchDuplicate_Wraps ==
    /\ pc = "probe"
    /\ \/ SlotFree /\ Copy
       \/ SlotEqual /\ UseStored
       \/ ~SlotFree /\ ~SlotEqual /\ NextSlot((cur.slot + 1) % (MaxSlot + 1))
    /\ UNCHANGED <<user, visible, device, tmp>>
SearchDuplicate_Unbounded ==
    /\ pc = "probe"
    /\ \/ cur.slot > MaxSlot /\ Exit
       \/ cur.slot <= MaxSlot /\ SlotFree /\ Copy
       \/ cur.slot <= MaxSlot /\ SlotEqual /\ UseStored
       \/ cur.slot <= MaxSlot /\ ~SlotFree /\ ~SlotEqual /\ NextSlot(cur.slot + 1)
    /\ UNCHANGED <<user, visible, device, tmp>>

SearchDuplicate ==
    /\ pc = "probe"
    /\ \/ SlotFree /\ Copy
       \/ SlotEqual /\ UseStored
       \/ ~SlotFree /\ ~SlotEqual /\ cur.slot < MaxSlot /\ NextSlot(cur.slot + 1)
       \/ ~SlotFree /\ ~SlotEqual /\ cur.slot = MaxSlot /\ Exit
    /\ UNCHANGED <<user, visible, device, tmp>>

(* The file has become shorter or longer since the search saw it: die(). *)
SizeDiffers ==
    /\ pc \in {"hash", "write"} \/ (pc = "probe" /\ ~SlotFree)
    /\ cur # None /\ ~SizeUnchanged
    /\ Exit
    /\ UNCHANGED <<user, visible, device, tmp>>

(* The file is gone or cannot be read any more: die(). *)
ReadFails ==
    /\ ~StableSource
    /\ pc \in {"hash", "probe", "open", "write"}
    /\ cur # None
    /\ Exit
    /\ UNCHANGED <<user, visible, device, tmp>>

-----------------------------------------------------------------------------
(* RepoWriter: the temporary file is opened, written, flushed and renamed.  *)

(* createRepoWriter() truncates whatever an earlier run left behind. *)
OpenTmp ==
    /\ \/ pc = "open"
       \/ pc = "files" /\ seen = NoMore     \* metadataWrite()
    /\ tmp' = [data |-> Torn, disk |-> Torn]
    /\ pc' = "write"
    /\ UNCHANGED <<user, visible, device, memory>>

WriteTmp ==
    /\ pc = "write"
    /\ \/ cur = None /\ tmp' = [tmp EXCEPT !.data = points]
       \/ /\ cur # None /\ SizeUnchanged
          /\ tmp' = [tmp EXCEPT !.data = source[cur.path]]
    /\ pc' = "flush"
    /\ UNCHANGED <<user, visible, device, memory>>

(* fTodisk(), then the choice between raw mode and a path below a hash. *)
FlushTmp ==
    /\ pc = "flush"
    /\ tmp' = [tmp EXCEPT !.disk = tmp.data]
    /\ pc' = IF cur = None THEN "rename" ELSE "dirs"
    /\ UNCHANGED <<user, visible, device, memory>>

DirsExist ==
    /\ pc = "dirs" /\ InnerDir \in vdirs
    /\ pc' = "rename"
    /\ UNCHANGED <<user, visible, device, tmp, memory>>

MkOuter ==
    /\ pc = "dirs" /\ InnerDir \notin vdirs /\ OuterDir \notin vdirs
    /\ vdirs' = vdirs \cup {OuterDir}
    /\ ddirs' = ddirs \ ({OuterDir} \cup InnerIn(OuterDir))
    /\ dfile' = [k \in Keys |-> IF OuterOf[InnerOf[k[1]]] = OuterDir THEN None ELSE dfile[k]]
    /\ pc' = "syncNewOuter"
    /\ UNCHANGED <<user, vfile, vmeta, dmeta, tmp, memory>>

SyncNewOuter ==
    /\ pc = "syncNewOuter"
    /\ SyncEntriesOfRepo
    /\ pc' = "mkInner"
    /\ UNCHANGED <<user, visible, tmp, memory>>

MkInner ==
    /\ \/ pc = "mkInner"
       \/ pc = "dirs" /\ InnerDir \notin vdirs /\ OuterDir \in vdirs
    /\ vdirs' = vdirs \cup {InnerDir}
    /\ ddirs' = ddirs \ {InnerDir}
    /\ dfile' = [k \in Keys |-> IF InnerOf[k[1]] = InnerDir THEN None ELSE dfile[k]]
    /\ pc' = "syncOuter"
    /\ UNCHANGED <<user, vfile, vmeta, dmeta, tmp, memory>>

(* Mutation: a new directory is not synced into its parent. *)
SyncOuter_Skipped ==
    /\ pc = "syncOuter"
    /\ pc' = "rename"
    /\ UNCHANGED <<user, visible, device, tmp, memory>>

SyncOuter ==
    /\ pc = "syncOuter"
    /\ ddirs' = (ddirs \ InnerIn(OuterDir)) \cup (vdirs \cap InnerIn(OuterDir))
    /\ pc' = "rename"
    /\ UNCHANGED <<user, visible, dfile, dmeta, tmp, memory>>

Rename ==
    /\ pc = "rename"
    /\ \/ /\ cur = None
          /\ vmeta' = tmp /\ pc' = "syncRepo" /\ UNCHANGED vfile
       \/ /\ cur # None
          /\ vfile' = [vfile EXCEPT ![Key] = tmp] /\ pc' = "syncInner"
          /\ UNCHANGED vmeta
    /\ tmp' = None
    /\ UNCHANGED <<user, vdirs, device, memory>>

(* Mutation: the directory of a new file is not synced. *)
SyncInner_Skipped ==
    /\ pc = "syncInner"
    /\ pc' = "syncRepo"
    /\ UNCHANGED <<user, visible, device, tmp, memory>>

SyncInner ==
    /\ pc = "syncInner"
    /\ dfile' = [k \in Keys |-> IF InnerOf[k[1]] = InnerDir THEN OnDisk(vfile[k]) ELSE dfile[k]]
    /\ pc' = "syncRepo"
    /\ UNCHANGED <<user, visible, ddirs, dmeta, tmp, memory>>

SyncRepo ==
    /\ pc = "syncRepo"
    /\ SyncEntriesOfRepo
    /\ \/ cur = None /\ pc' = "gc" /\ UNCHANGED memory
       \/ cur # None /\ FileDone(vfile[Key].data, Key)
    /\ UNCHANGED <<user, visible, tmp>>

-----------------------------------------------------------------------------
(* collectGarbage(): after a backup with the metadata in memory, or as the  *)
(* gc command with the metadata it loads.                                   *)
StartGC ==
    /\ pc = "idle"
    /\ vmeta # None /\ vmeta.data # Torn
    /\ points' = vmeta.data
    /\ pc' = "gc"
    /\ UNCHANGED <<user, visible, device, tmp, seen, fresh, cur>>

Unused(k) == vfile[k] # None /\ k \notin Referenced(points)

EmptyDir(d) ==
    /\ d \in vdirs
    /\ \A k \in Keys : InnerOf[k[1]] = d => vfile[k] = None
    /\ \A i \in vdirs \cap Inner : OuterOf[i] # d

GCRemoveFile(k) ==
    /\ pc = "gc" /\ Unused(k)
    /\ vfile' = [vfile EXCEPT ![k] = None]
    /\ UNCHANGED <<user, vdirs, vmeta, device, tmp, pc, memory>>

GCRemoveDir(d) ==
    /\ pc = "gc" /\ EmptyDir(d)
    /\ vdirs' = vdirs \ {d}
    /\ UNCHANGED <<user, vfile, vmeta, device, tmp, pc, memory>>

GCRemoveTmp ==
    /\ pc = "gc" /\ tmp # None
    /\ tmp' = None
    /\ UNCHANGED <<user, visible, device, pc, memory>>

(* Mutation: directories that became empty are forgotten. *)
GCDone_KeepsDirs ==
    /\ pc = "gc" /\ tmp = None
    /\ \A k \in Keys : ~Unused(k)
    /\ Exit
    /\ UNCHANGED <<user, visible, device, tmp>>

GCDone ==
    /\ pc = "gc"
    /\ tmp = None
    /\ \A k \in Keys : ~Unused(k)
    /\ \A d \in Dirs : ~EmptyDir(d)
    /\ Exit
    /\ UNCHANGED <<user, visible, device, tmp>>

-----------------------------------------------------------------------------
(* What happens around the process. *)

(* The user rewrites a file; within one second its timestamp may stay.  A   *)
(* run that still has to store the file notices only a timestamp that has   *)
(* moved before StatFile.                                                   *)
BeingStored(p) == cur # None /\ cur.path = p
UserWrite(p) ==
    /\ ~StableSource \/ pc = "idle"
    /\ \E c \in Contents \ {source[p]} : source' = [source EXCEPT ![p] = c]
    /\ \/ seen[p] = None /\ UNCHANGED <<touched, slipped>>
       \/ seen[p] # None /\ slipped' = slipped \cup {p} /\ UNCHANGED touched
       \/ /\ seen[p] # None /\ touched' = touched \cup {p}
          /\ slipped' = IF BeingStored(p) THEN slipped \cup {p} ELSE slipped
    /\ UNCHANGED <<visible, device, tmp, pc, memory>>

(* A signal, or die() after a failed system call. *)
Kill ==
    /\ MayKill /\ pc # "idle"
    /\ Exit
    /\ UNCHANGED <<user, visible, device, tmp>>

(* The system writes one directory entry back before anybody syncs it. *)
WritebackFile(k) ==
    /\ MayLosePower
    /\ dfile' = [dfile EXCEPT ![k] = OnDisk(vfile[k])]
    /\ UNCHANGED <<user, visible, ddirs, dmeta, tmp, pc, memory>>

WritebackDir(d) ==
    /\ MayLosePower
    /\ ddirs' = IF d \in vdirs THEN ddirs \cup {d} ELSE ddirs \ {d}
    /\ UNCHANGED <<user, visible, dfile, dmeta, tmp, pc, memory>>

WritebackMetadata ==
    /\ MayLosePower
    /\ dmeta' = OnDisk(vmeta)
    /\ UNCHANGED <<user, visible, ddirs, dfile, tmp, pc, memory>>

(* Only what is reachable on the device survives. *)
Reachable(d) == d \in ddirs /\ (d \in Inner => OuterOf[d] \in ddirs)
OnDevice(k) == IF Reachable(InnerOf[k[1]]) THEN dfile[k] ELSE None

PowerLoss ==
    /\ MayLosePower
    /\ vdirs' = {d \in Dirs : Reachable(d)} /\ ddirs' = vdirs'
    /\ dfile' = [k \in Keys |-> OnDevice(k)]
    /\ vfile' = [k \in Keys |-> Reread(OnDevice(k))]
    /\ vmeta' = Reread(dmeta) /\ dmeta' = dmeta
    /\ tmp' \in {None, Reread(Torn)}
    /\ Exit
    /\ UNCHANGED user

-----------------------------------------------------------------------------
(* Every step of a running process except the user's answer. *)
Work ==
    \/ \E p \in Paths : StatFile(p)
    \/ ReadSmallFile \/ HashLargeFile \/ SearchDuplicate \/ SizeDiffers
    \/ OpenTmp \/ WriteTmp \/ FlushTmp
    \/ DirsExist \/ MkOuter \/ SyncNewOuter \/ MkInner \/ SyncOuter
    \/ Rename \/ SyncInner \/ SyncRepo
    \/ \E k \in Keys : GCRemoveFile(k)
    \/ \E d \in Dirs : GCRemoveDir(d)
    \/ GCRemoveTmp \/ GCDone

Environment ==
    \/ \E p \in Paths : UserWrite(p)
    \/ ReadFails \/ Kill
    \/ \E k \in Keys : WritebackFile(k)
    \/ \E d \in Dirs : WritebackDir(d)
    \/ WritebackMetadata
    \/ PowerLoss

Next == StartBackup \/ Review \/ StartGC \/ Work \/ Environment

Spec == Init /\ [][Next]_vars

(* A running process is scheduled; nobody has to start one or to answer. *)
FairSpec == Spec /\ WF_vars(Work)

-----------------------------------------------------------------------------
(* A version can be restored from the files the processes see, or from     *)
(* those that are on the device.                                           *)
Data(f) == IF f = None THEN None ELSE f.data
VisibleContent(pt) == IF pt.key = None THEN pt.content ELSE Data(vfile[pt.key])
DurableContent(pt) == IF pt.key = None THEN pt.content ELSE OnDevice(pt.key)

(* Every version the metadata refers to is restorable with the content it  *)
(* was backed up with: the order of repoWriterClose(), metadataWrite() and *)
(* collectGarbage() in nb.c:300-304 never leaves a dangling reference, in  *)
(* whatever step the process is killed.                                    *)
VisibleIntact ==
    vmeta # None =>
        /\ vmeta.data \in Snapshot
        /\ \A pt \in vmeta.data : VisibleContent(pt) = pt.content

(* The same on the device, at every moment the power may go.               *)
DurableIntact ==
    dmeta # None =>
        /\ dmeta \in Snapshot
        /\ \A pt \in dmeta : DurableContent(pt) = pt.content

(* A stored file may be shared by many versions: it is never written again *)
(* under its name, it can only be removed (RepoWriter always renames onto  *)
(* a name that searchFileDuplicates() found free).                         *)
NeverOverwritten ==
    [][\A k \in Keys : vfile[k] # None => vfile'[k] \in {vfile[k], None}]_vars

(* A version is what the file contains when it becomes part of the backup, *)
(* and its name is the hash of just that, although the size and often the  *)
(* hash are from the search, the user was asked in between, and the file   *)
(* is read again to compare it and to copy it (backup.c:742-789): whatever *)
(* the user does meanwhile, short of what no timestamp gives away.         *)
BackedUpAsItIs ==
    [][cur # None => \A v \in points' \ points :
          v.path \notin slipped =>
              /\ v.content = source[v.path]
              /\ v.key = None <=> Small(v.content)
              /\ v.key # None => v.key[1] = HashOf[v.content]]_vars

(* Whole-file deduplication with collisions: a file is stored under a new  *)
(* name only after every slot below was found taken by something else      *)
(* (backup.c:717-738).  Slots above may hold the same content: the search  *)
(* stops at the first gap a collection has left.                           *)
StoredOnlyIfNew ==
    [][pc = "rename" /\ pc' = "syncInner" /\ cur.path \notin slipped =>
          \A slot \in 0..(cur.slot - 1) :
              /\ vfile[<<cur.hash, slot>>] # None
              /\ vfile[<<cur.hash, slot>>].data # tmp.data]_vars

(* The repository holds the metadata's files and the directories they need. *)
Clean ==
    /\ tmp = None
    /\ \A k \in Keys : vfile[k] # None => k \in Referenced(Loaded)
    /\ \A d \in Dirs : ~EmptyDir(d)

(* Whatever earlier runs left behind, a collection that is not cut off ends *)
(* with nothing but referenced files.                                       *)
GarbageIsCollected == (pc = "gc") ~> (pc = "idle" /\ Clean)

(* A backup the user agreed to comes to an end, however the slots are taken. *)
AgreedBackupEnds == (pc = "files") ~> (pc = "idle")

(* The abstract specification, as a process sees the repository and as the *)
(* device would give it back.                                              *)
Writing(steps) == cur = None /\ pc \in steps
CandidateUntil(steps) ==
    IF Writing(steps) THEN {<<pt.path, pt.content>> : pt \in points} ELSE None

Seen == INSTANCE AtomicBackup WITH
    Versions <- Paths \X Contents, Absent <- None,
    saved <- {<<pt.path, VisibleContent(pt)>> : pt \in Loaded},
    candidate <- CandidateUntil({"write", "flush", "rename"})

Device == INSTANCE AtomicBackup WITH
    Versions <- Paths \X Contents, Absent <- None,
    saved <- {<<pt.path, DurableContent(pt)>> : pt \in IF dmeta = None THEN {} ELSE dmeta},
    candidate <- CandidateUntil({"write", "flush", "rename", "syncRepo"})

(* A run replaces what can be restored in one step or not at all.          *)
SeenAtomic == Seen!Spec
(* The same for what a power failure would leave.                          *)
DeviceAtomic == Device!Spec
=============================================================================

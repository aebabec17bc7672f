------------------------------ MODULE RepoLock ------------------------------
(***************************************************************************)
(* The lockfile of a repository: repoLock() and the cleanup that the       *)
(* region of main() runs at the end (repository.c:391-462).  The name      *)
(* "lockfile" and the inode behind it are two things: the lock belongs to  *)
(* the inode a process has opened, the cleanup removes whatever the name   *)
(* refers to.  One action is one system call.                              *)
(*                                                                         *)
(* Every operation of nb takes the lock before it reads the metadata; a    *)
(* "readonly" one (restore, integrity) works without it when the           *)
(* repository is on a read-only file system.                               *)
(***************************************************************************)
EXTENDS Naturals, FiniteSets

CONSTANTS
    Procs,       \* nb processes; one that has ended may be started again
    Inodes,      \* inode numbers of lockfiles
    MayKill,
    None

ASSUME LockAssumption ==
    /\ MayKill \in BOOLEAN
    /\ None \notin Procs /\ None \notin Inodes

VARIABLES
    link,     \* the inode named "lockfile"
    holder,   \* the process that holds the lock of an inode
    fd,       \* the inode a process has opened
    pc,
    readonly, \* the file system of the repository is mounted read-only
    killed    \* a process was killed since the lockfile was removed last:
              \* a history variable for the properties

vars == <<link, holder, fd, pc, readonly, killed>>

Places == {"idle", "start", "opened", "refused", "inside", "insideUnlocked",
           "cleanup", "unlocked", "closed"}

HasOpen == {"opened", "refused", "inside", "cleanup", "unlocked"}

TypeOK ==
    /\ link \in Inodes \cup {None}
    /\ holder \in [Inodes -> Procs \cup {None}]
    /\ fd \in [Procs -> Inodes \cup {None}]
    /\ pc \in [Procs -> Places]
    /\ readonly \in BOOLEAN /\ killed \in BOOLEAN
    /\ \A p \in Procs : fd[p] # None <=> pc[p] \in HasOpen

Init ==
    /\ link = None
    /\ holder = [i \in Inodes |-> None]
    /\ fd = [p \in Procs |-> None]
    /\ pc = [p \in Procs |-> "idle"]
    /\ readonly = FALSE /\ killed = FALSE

-----------------------------------------------------------------------------
Goto(p, place) == pc' = [pc EXCEPT ![p] = place]

(* An inode lives as long as it is named or open. *)
Unused(i) == link # i /\ \A p \in Procs : fd[p] # i

(* The lock of a process goes when it closes the file or dies. *)
Release(p) == holder' = [i \in Inodes |-> IF holder[i] = p THEN None ELSE holder[i]]
CloseFile(p) == Release(p) /\ fd' = [fd EXCEPT ![p] = None]

Start(p) == pc[p] = "idle" /\ Goto(p, "start") /\ UNCHANGED <<link, holder, fd, readonly, killed>>

(* open(O_CREAT) *)
Open(p) ==
    /\ pc[p] = "start" /\ ~readonly
    /\ \/ link # None /\ UNCHANGED link
       \/ link = None /\ link' \in {i \in Inodes : Unused(i)}
    /\ fd' = [fd EXCEPT ![p] = link']
    /\ Goto(p, "opened")
    /\ UNCHANGED <<holder, readonly, killed>>

(* EROFS: a reader goes on without a lock, a writer dies. *)
OpenReadOnly(p) ==
    /\ pc[p] = "start" /\ readonly
    /\ pc' \in {[pc EXCEPT ![p] = place] : place \in {"insideUnlocked", "idle"}}
    /\ UNCHANGED <<link, holder, fd, readonly, killed>>

(* Mutations: the lock is refused while anybody else has the file open; *)
(* EAGAIN is taken for success.                                         *)
TryLock_RefusedByAnyOpener(p) ==
    /\ pc[p] = "opened"
    /\ IF \E q \in Procs \ {p} : fd[q] = fd[p]
       THEN Goto(p, "refused") /\ UNCHANGED holder
       ELSE Goto(p, "inside") /\ holder' = [holder EXCEPT ![fd[p]] = p]
    /\ UNCHANGED <<link, fd, readonly, killed>>

TryLock_Ignored(p) ==
    /\ pc[p] = "opened"
    /\ holder' = [holder EXCEPT ![fd[p]] = IF @ = None THEN p ELSE @]
    /\ Goto(p, "inside")
    /\ UNCHANGED <<link, fd, readonly, killed>>

(* lockf(F_TLOCK) *)
TryLock(p) ==
    /\ pc[p] = "opened"
    /\ \/ /\ holder[fd[p]] = None
          /\ holder' = [holder EXCEPT ![fd[p]] = p]
          /\ Goto(p, "inside")
       \/ /\ holder[fd[p]] # None
          /\ Goto(p, "refused")
          /\ UNCHANGED holder
    /\ UNCHANGED <<link, fd, readonly, killed>>

(* Mutations: the process ends with the file open, or tries again. *)
Refused_Leaks(p) ==
    /\ pc[p] = "refused"
    /\ Goto(p, "idle")
    /\ UNCHANGED <<link, holder, fd, readonly, killed>>
Refused_Retries(p) ==
    /\ pc[p] = "refused"
    /\ CloseFile(p)
    /\ Goto(p, "start")
    /\ UNCHANGED <<link, readonly, killed>>

(* "repository is already being used by another process" *)
Refused(p) ==
    /\ pc[p] = "refused"
    /\ CloseFile(p)
    /\ Goto(p, "idle")
    /\ UNCHANGED <<link, readonly, killed>>

(* The operation itself.  A backup and a restore ask the user in it and     *)
(* wait for the answer, however long that takes (nb.c:303, nb.c:355).      *)
Work(p) ==
    /\ \/ pc[p] = "inside" /\ Goto(p, "cleanup")
       \/ pc[p] = "insideUnlocked" /\ Goto(p, "idle")
    /\ UNCHANGED <<link, holder, fd, readonly, killed>>

(* cleanupLockfile(): unlock, close, remove. *)
Unlock(p) ==
    /\ pc[p] = "cleanup"
    /\ holder' = [holder EXCEPT ![fd[p]] = None]
    /\ Goto(p, "unlocked")
    /\ UNCHANGED <<link, fd, readonly, killed>>

Close(p) ==
    /\ pc[p] = "unlocked"
    /\ CloseFile(p)
    /\ Goto(p, "closed")
    /\ UNCHANGED <<link, readonly, killed>>

(* Mutation: the lockfile stays. *)
Remove_Skipped(p) ==
    /\ pc[p] = "closed"
    /\ Goto(p, "idle")
    /\ UNCHANGED <<link, holder, fd, readonly, killed>>

Remove(p) ==
    /\ pc[p] = "closed"
    /\ link' = None /\ killed' = FALSE
    /\ Goto(p, "idle")
    /\ UNCHANGED <<holder, fd, readonly>>

(* The kernel closes the file of a killed process; the name stays. *)
Kill(p) ==
    /\ MayKill /\ pc[p] # "idle"
    /\ CloseFile(p) /\ killed' = TRUE
    /\ Goto(p, "idle")
    /\ UNCHANGED <<link, readonly>>

(* The administrator may remount the file system while nobody uses it. *)
Remount ==
    /\ \A p \in Procs : pc[p] = "idle"
    /\ readonly' = ~readonly
    /\ UNCHANGED <<link, holder, fd, pc, killed>>

(* repoLock() and its cleanup: nothing in them waits for anybody.           *)
LockStep(p) ==
    \/ Open(p) \/ OpenReadOnly(p) \/ TryLock(p) \/ Refused(p)
    \/ Unlock(p) \/ Close(p) \/ Remove(p)

Next == Remount \/ \E p \in Procs : Start(p) \/ LockStep(p) \/ Work(p) \/ Kill(p)

Spec == Init /\ [][Next]_vars

(* A process in repoLock() or in its cleanup is scheduled.  Nothing is      *)
(* assumed of Work: with a user who never answers, a process stays inside   *)
(* with the lock for ever.                                                  *)
FairSpec == Spec /\ \A p \in Procs : WF_vars(LockStep(p))
-----------------------------------------------------------------------------
(* repoLock() promises that a second process is turned away while one is   *)
(* inside (repository.c:417-419).  cleanupLockfile() breaks it: a process  *)
(* that locks the inode between the unlock and the remove() works on a     *)
(* lockfile that has lost its name.                                        *)
MutualExclusion ==
    \A p, q \in Procs : pc[p] = "inside" /\ pc[q] = "inside" => p = q

(* What does hold: whoever is inside holds the lock of the inode it has    *)
(* opened, so two of them never share an inode.                            *)
InsideHoldsItsInode ==
    \A p \in Procs : pc[p] \in {"inside", "cleanup"} => holder[fd[p]] = p

(* A process is turned away only by another one that was inside or is      *)
(* about to clean up: a lockfile left by a killed process never blocks.    *)
RefusedOnlyByOwner ==
    [][\A p \in Procs : pc[p] = "opened" /\ pc'[p] = "refused" =>
          \E q \in Procs \ {p} : pc[q] \in {"inside", "cleanup"}]_vars

(* The lockfile is gone when all processes have ended, unless one of them  *)
(* was killed; the first one that is not killed removes that one's, too:    *)
(* whoever creates the file, or finds it after its creator was refused, is  *)
(* going to remove it.                                                      *)
NoLockfileLeft ==
    (\A p \in Procs : pc[p] = "idle") /\ ~killed => link = None

(* Nobody waits for the lock: a process that was started gets in or ends,  *)
(* and one that is done ends, although another one may stay inside with    *)
(* the lock for as long as its user does not answer (lockf(F_TLOCK), and no *)
(* retry, repository.c:449-456).                                           *)
Settled(p) == pc[p] \in {"idle", "inside", "insideUnlocked"}
NobodyWaitsForTheLock == \A p \in Procs : ~Settled(p) ~> Settled(p)
=============================================================================

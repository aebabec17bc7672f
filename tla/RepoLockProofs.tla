--------------------------- MODULE RepoLockProofs ---------------------------
(* What holds of the lockfile for any number of processes and inodes.       *)
EXTENDS RepoLock, TLAPS

(* Who holds a lock has the inode open and is inside, and the other way     *)
(* round: with TypeOK this is inductive.                                    *)
Owner(p) == pc[p] \in {"inside", "cleanup"}

LocksAreOwned ==
    /\ \A p \in Procs : Owner(p) => holder[fd[p]] = p
    /\ \A i \in Inodes : holder[i] # None => fd[holder[i]] = i /\ Owner(holder[i])

LockInv == TypeOK /\ LocksAreOwned

-----------------------------------------------------------------------------
(* Nobody owns a lock in the beginning.                                     *)
LEMMA InitLock == Init => LockInv
BY LockAssumption DEF Init, LockInv, TypeOK, LocksAreOwned, Owner, Places, HasOpen

(* Every system call keeps locks and owners in step.                        *)
LEMMA NextLock == LockInv /\ [Next]_vars => LockInv'
<1> SUFFICES ASSUME LockInv, [Next]_vars PROVE LockInv'
    OBVIOUS
<1> USE LockAssumption DEF LockInv, TypeOK, LocksAreOwned, Owner, Places, HasOpen, Goto
<1>1. ASSUME NEW p \in Procs, Start(p) PROVE LockInv'
    BY <1>1 DEF Start
<1>2. ASSUME NEW p \in Procs, Open(p) PROVE LockInv'
    <2>1. link' \in Inodes /\ fd' = [fd EXCEPT ![p] = link'] /\ holder[link'] # p
        BY <1>2 DEF Open
    <2> QED BY <1>2, <2>1 DEF Open
<1>3. ASSUME NEW p \in Procs, OpenReadOnly(p) PROVE LockInv'
    BY <1>3 DEF OpenReadOnly
<1>4. ASSUME NEW p \in Procs, TryLock(p) PROVE LockInv'
    BY <1>4 DEF TryLock
<1>5. ASSUME NEW p \in Procs, Refused(p) PROVE LockInv'
    BY <1>5 DEF Refused, CloseFile, Release
<1>6. ASSUME NEW p \in Procs, Work(p) PROVE LockInv'
    BY <1>6 DEF Work
<1>7. ASSUME NEW p \in Procs, Unlock(p) PROVE LockInv'
    BY <1>7 DEF Unlock
<1>8. ASSUME NEW p \in Procs, Close(p) PROVE LockInv'
    BY <1>8 DEF Close, CloseFile, Release
<1>9. ASSUME NEW p \in Procs, Remove(p) PROVE LockInv'
    <2>1. /\ link' = None /\ killed' = FALSE /\ UNCHANGED <<holder, fd, readonly>>
          /\ pc' = [pc EXCEPT ![p] = "idle"] /\ pc[p] = "closed"
        BY <1>9 DEF Remove
    <2>2. TypeOK'
        <3>1. pc' \in [Procs -> Places]
            BY <2>1
        <3>2. ASSUME NEW q \in Procs PROVE fd'[q] # None <=> pc'[q] \in HasOpen
            <4>1. CASE q = p
                BY <2>1, <4>1
            <4>2. CASE q # p
                BY <2>1, <4>2
            <4> QED BY <4>1, <4>2
        <3> QED BY <2>1, <3>1, <3>2
    <2>3. \A q \in Procs : Owner(q)' <=> Owner(q)
        BY <2>1
    <2> QED
        BY <2>1, <2>2, <2>3
<1>10. ASSUME NEW p \in Procs, Kill(p) PROVE LockInv'
    BY <1>10 DEF Kill, CloseFile, Release
<1>11. CASE Remount
    BY <1>11 DEF Remount
<1>12. CASE UNCHANGED vars
    BY <1>12 DEF vars
<1> QED
    BY <1>1, <1>2, <1>3, <1>4, <1>5, <1>6, <1>7, <1>8, <1>9, <1>10, <1>11, <1>12
    DEF Next, LockStep

(* The variables of the lock keep their types, and a process has a file     *)
(* open exactly while repoLock() or its cleanup say so.                     *)
THEOREM LockTypeCorrect == Spec => []TypeOK
<1>1. LockInv => TypeOK
    BY DEF LockInv
<1> QED
    BY InitLock, NextLock, <1>1, PTL DEF Spec

(* A process that works with the lock holds the lock of the inode it has    *)
(* opened, whoever is killed and whatever the lockfile's name refers to.    *)
THEOREM LockHeldInside == Spec => []InsideHoldsItsInode
<1>1. LockInv => InsideHoldsItsInode
    BY DEF LockInv, LocksAreOwned, InsideHoldsItsInode, Owner
<1> QED
    BY InitLock, NextLock, <1>1, PTL DEF Spec

-----------------------------------------------------------------------------
(* A refusal is a TryLock() that has met the lock of an owner.              *)
LEMMA RefusalStep ==
    ASSUME LockInv, [Next]_vars, NEW p \in Procs, pc[p] = "opened", pc'[p] = "refused"
    PROVE  \E q \in Procs \ {p} : pc[q] \in {"inside", "cleanup"}
<1> USE LockAssumption DEF LockInv, TypeOK, LocksAreOwned, Owner, Places, HasOpen, Goto
<1>1. TryLock(p)
    BY DEF Next, LockStep, vars, Start, Open, OpenReadOnly, TryLock, Refused, Work, Unlock,
           Close, Remove, Kill, Remount
<1>2. holder[fd[p]] # None /\ fd[p] \in Inodes
    BY <1>1 DEF TryLock
<1>3. holder[fd[p]] \in Procs \ {p} /\ Owner(holder[fd[p]])
    BY <1>2
<1> QED
    BY <1>3

(* A process is turned away only while another one is inside or cleans up:  *)
(* the lockfile of a killed process blocks nobody.                          *)
THEOREM LockRefusals == Spec => RefusedOnlyByOwner
<1>1. LockInv /\ [Next]_vars =>
        [\A p \in Procs : pc[p] = "opened" /\ pc'[p] = "refused" =>
            \E q \in Procs \ {p} : pc[q] \in {"inside", "cleanup"}]_vars
    BY RefusalStep
<1> QED
    BY InitLock, NextLock, <1>1, PTL DEF Spec, RefusedOnlyByOwner

-----------------------------------------------------------------------------
(* Somebody who is going to remove the lockfile, or to find its owner.      *)
Responsible(p) == pc[p] \in {"opened", "inside", "cleanup", "unlocked", "closed"}
LinkIsCaredFor == link # None /\ ~killed => \E p \in Procs : Responsible(p)

(* Whoever makes the lockfile, or finds it, is going to remove it.          *)
LEMMA NextCare ==
    ASSUME LockInv, LinkIsCaredFor, [Next]_vars
    PROVE  LinkIsCaredFor'
<1> USE LockAssumption DEF LockInv, TypeOK, LinkIsCaredFor, Responsible, Places, HasOpen, Goto
<1>1. ASSUME NEW p \in Procs, Open(p) PROVE LinkIsCaredFor'
    BY <1>1 DEF Open
<1>2. ASSUME NEW p \in Procs, TryLock(p) PROVE LinkIsCaredFor'
    <2>1. CASE holder[fd[p]] = None
        BY <1>2, <2>1 DEF TryLock
    <2>2. CASE holder[fd[p]] # None
        <3>1. holder[fd[p]] \in Procs \ {p} /\ Responsible(holder[fd[p]])
            BY <1>2, <2>2 DEF TryLock, LocksAreOwned, Owner
        <3> QED BY <1>2, <3>1 DEF TryLock
    <2> QED BY <2>1, <2>2
<1>3. ASSUME NEW p \in Procs, Remove(p) PROVE LinkIsCaredFor'
    BY <1>3 DEF Remove
<1>4. ASSUME NEW p \in Procs,
             Start(p) \/ OpenReadOnly(p) \/ Refused(p) \/ Work(p) \/ Unlock(p) \/ Close(p)
      PROVE LinkIsCaredFor'
    BY <1>4 DEF Start, OpenReadOnly, Refused, Work, Unlock, Close, CloseFile, Release
<1>5. ASSUME NEW p \in Procs, Kill(p) PROVE LinkIsCaredFor'
    BY <1>5 DEF Kill
<1>6. CASE Remount \/ UNCHANGED vars
    BY <1>6 DEF Remount, vars
<1> QED
    BY <1>1, <1>2, <1>3, <1>4, <1>5, <1>6 DEF Next, LockStep

(* The lockfile is gone when all have ended, unless somebody was killed     *)
(* since it was removed last: cleanupLockfile() leaves nothing behind.      *)
THEOREM LockfileIsRemoved == Spec => []NoLockfileLeft
<1>1. Init => LockInv /\ LinkIsCaredFor
    BY InitLock DEF Init, LinkIsCaredFor
<1>2. LockInv /\ LinkIsCaredFor /\ [Next]_vars => LockInv' /\ LinkIsCaredFor'
    BY NextLock, NextCare
<1>3. LockInv /\ LinkIsCaredFor => NoLockfileLeft
    BY DEF LinkIsCaredFor, Responsible, NoLockfileLeft
<1> QED
    BY <1>1, <1>2, <1>3, PTL DEF Spec
=============================================================================

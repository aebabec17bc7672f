---------------------------- MODULE AtomicBackup ----------------------------
(***************************************************************************)
(* What a backup repository promises to its user, without files,           *)
(* directories, hashes or syncs: at every moment there is one saved        *)
(* snapshot, a set of versions <<path, content>> that can be restored, and *)
(* it is replaced by the snapshot of a finished backup in one step or not  *)
(* at all.  HACKING.md:19 states it as "Backups are atomic by design".     *)
(***************************************************************************)

CONSTANTS
    Versions,    \* every <<path, content>> a snapshot may hold
    Absent       \* "no backup is being written"

VARIABLES
    saved,       \* the versions that can be restored now
    candidate    \* the snapshot a running backup wants to save, or Absent

vars == <<saved, candidate>>

TypeOK == /\ saved \in SUBSET Versions
          /\ candidate \in {Absent} \cup SUBSET Versions

Init == saved = {} /\ candidate = Absent

(* Everything the backup has to keep or to add is safely stored. *)
Prepare == /\ candidate = Absent
           /\ candidate' # Absent
           /\ candidate' \in SUBSET Versions
           /\ saved' = saved

(* The one step that changes what can be restored. *)
Commit == /\ candidate # Absent
          /\ saved' = candidate
          /\ candidate' \in {candidate, Absent}

(* The backup ends, is refused, killed or cut off by a power failure. *)
Abandon == candidate' = Absent /\ saved' = saved

Next == Prepare \/ Commit \/ Abandon

Spec == Init /\ [][Next]_vars
=============================================================================

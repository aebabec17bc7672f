# Verification of nano-backup

TLA+ modules that model nano-backup (`nb`), the TLC runs that check them on small instances, and
TLAPS proofs of what can be shown for all of them.  Paths of the form `src/...` are relative to the
repository; its code is in `src/src/`.  `PROJECT.json` is the index: components, runs, mutants,
the lines each definition models, findings, hazards and theorems.

## 1. The system

`nb` is a sequential program.  One invocation reads the configuration of a repository, compares
the user's files with the metadata of the last backup, shows the difference, asks, stores new
files and replaces the metadata.  Other invocations restore paths, check the integrity of stored
files or collect garbage.  What makes it hard to get right is not threads but everything around
one run: other runs on the same repository, users who change files meanwhile, processes that are
killed and machines that lose power, and long sequences of backups under changing configurations.

| component | state | operations |
|---|---|---|
| **Repository store** (`repository.c`, `safe-wrappers.c`) | `tmp-file`, stored files `a/bc/<hash>x<size>x<slot>`, `metadata` | RepoWriter: open, write, flush, make directories, rename, sync; existence check; RepoReader |
| **Storing files** (second half of `backup.c`, `file-hash.c`) | nodes still to store, `BH_fresh_hash` | check the timestamp, hash, search for a duplicate slot by slot, copy |
| **Garbage collector** (`garbage-collector.c`) | set of referenced paths | remove unreferenced files and empty directories |
| **Repository lock** (`repository.c:391-462`) | `lockfile`, its inode, `lockf` lock | lock, and unlock/close/remove at the end of `main()` |
| **Tree diff** (first half of `backup.c`, `backup-helpers.c`) | metadata in memory: nodes, histories, hints, reference counts | one handler per found path, one per path not found |
| **Metadata file** (`metadata.c`) | backups and nodes on disk | load, write (drops wiped nodes and unused backups, renumbers the rest) |
| **Program** (`nb.c`) | - | order of the steps above, consent, commands |
| **Change summary** (`informations.c`) | - | what counts as a change; printing |
| **Search tree** (`search-tree.c`) | rules and policies by path | parse `config`, inherit policies |
| **Search** (`search.c`) | stack of open directories | iterate over found paths in an order |
| **Restore** (`restore.c`) | - | choose the state of each path at a backup, make, replace or remove files |
| **Integrity check** (`integrity.c`) | cache of checked files | recompute the hash of each referenced file |
| **String table** (`string-table.c`) | open hashing with doubling | map of strings |
| **Safe arithmetic** (`safe-math.c`) | - | add and multiply, or end the process |

How they interact.  `nb.c` calls all the others, one after the other.  The search drives the tree
diff through its results; the tree diff writes nodes of the metadata in memory; storing reads the
hints the diff left and writes hashes and slots into the same nodes; the metadata file is written
from those nodes with the same RepoWriter that stored the files; the garbage collector gets the
metadata that was just written.  Different runs share nothing but the repository directory.

What makes each part correct:

- *Store, storing, collector together*: everything the metadata refers to can be restored with
  the content it was backed up with, at every moment, as a process sees it and as the device
  would give it back; a backup replaces what can be restored in one step or not at all; a stored
  file is never overwritten, and a content that the search for duplicates comes to is not stored
  again; what is not referenced goes away; every agreed backup comes to an end.
- *Lock*: one process at a time; nobody is turned away without reason or waits
  for another process; no lockfile left.
- *Tree diff and metadata*: what was found is backed up under the policy of its path; mirrored
  files disappear, copied ones stay, tracked ones have their full history; reference counts are
  exact, so no backup is dropped that a history point still names.
- *Restore and integrity*: what comes out is what the backup with that number had found, and
  nothing else changes; a restore that stopped half-way can be repeated; what is reported as
  healthy can be restored.

## 2. Modules

| module | models | variables that stand for code |
|---|---|---|
| `AtomicBackup` | the promise to the user: one saved snapshot, replaced in one step | - |
| `Repository` | store, storing of files and collector in one process, with user, kills and power failures; implements `AtomicBackup` | `vfile`, `vdirs`, `vmeta` the directory as processes see it, `dfile`, `ddirs`, `dmeta` as it is on the device, `tmp` the temporary file, `points`, `seen`, `fresh`, `cur` the metadata in memory and the file at hand |
| `RepoLock` | `repoLock()` and its cleanup, any number of processes | `link` the name, `holder` locks by inode, `fd` open files |
| `SafeMath` | the checked operations of `safe-math.c`, with their wrapping results | - |
| `StringMap` | what a string table promises | - |
| `StringTable` | `string-table.c`, the doubling entry by entry; implements `StringMap` | `buckets`, `capacity`, `associations`, and during a doubling `newBuckets`, `index`, `pending` |
| `SearchTree` | `searchTreeParse()` line by line, on a `StringTable` | `nodes` the tree, `section`, `ignored`, `target` the path whose nodes are being made |
| `Walk` | what the caller of a search relies on: a walk over a tree, each path once | - |
| `Search` | the iterator of `search.c` along the tree that was parsed, over files that change; implements `Walk` | `state`, `stack`, `stackCapacity`, `current_path`, `search_match` as in the code, `fs` the files, `found` the results |
| `Backup` | the diff, one action per found path, and what is saved and loaded, over many backups | `m` nodes, hints, reference counts in memory, `saved`, `backups` the metadata file, `found`, `config`, `place` the search |
| `MetadataFile` | the metadata file as a sequence of fields, writer and reader | operators on the state of `Backup` |
| `ChangeSummary` | what is printed of a backup before it is made, and whether one is made | operators on the state of `Backup` |
| `Restore` | a restore with its review, system call by system call, and the answer of the integrity check | `node` the metadata, `hint` what was found out about each path, `step` what the walk of `finishRestore()` does next at each path, `disk` the user's files, `stored` the state of stored files |
| `MCRepository`, `MCRepoLock`, `MCSearch`, `MCBackup`, `MCRestore` | instances for TLC | - |
| `RepoLockProofs`, `RepositoryProofs`, `StringTableProofs`, `SearchProofs`, `FoundProofs`, `BackupProofs`, `MetadataFileProofs`, `RestoreProofs` | theorems | - |

How they are put together.  `SearchTree` EXTENDS `StringTable` and `Search` EXTENDS `SearchTree`, as
the search is run on what the parser has made: one behaviour of `Search` reads a config file, with
the table of the parser doubling underneath, and then searches along the tree.  `Backup` relies on
two things of a search: which paths it reports under which policy, and that they come as a walk.
Both are stated in `Search` (`SearchIsComplete`, `SearchIsWalk`) and proved for every instance; in
`Backup` they are definitions (`IsFound`, `PolicyOf`, `place`).  `Repository` and `Backup` divide a backup run between them.
`Backup` decides which versions are kept and which paths are new; `Repository` takes any such
decision (`kept`, `todo` in `StartBackup`) and models what is done about it.  `Repository` takes one
process for granted; the lock that should guarantee this is `RepoLock`, and finding 2 says how far
it does.  `Restore` starts from metadata as `Backup` leaves them, computed from what the backups
found.

### Repository

One action is one system call that another actor could see or disturb.  A backup runs through
`review` (waiting for the answer), `files` (next file), `hash`, `probe` (one slot per step),
`open`, `write`, `flush`, `dirs` ... `syncOuter` (making the two directories), `rename`,
`syncInner`, `syncRepo`, and the metadata goes the same way without directories; `gc` follows.

- *Files of the user* have a content from a small set.  Sizes, hashes and which contents live in
  the metadata (`FileHashSize`) are functions of it; two contents may have the same hash.
- *A stored file* is `[data, disk]`: what a reader gets and what would be there after a power
  failure.  Opening it for writing makes both `Torn`, writing sets `data`, flushing sets `disk`.
- *Names*: a directory entry becomes durable when its directory is synced (`SyncInner`,
  `SyncOuter`, `SyncEntriesOfRepo`), or earlier by itself (`Writeback...`).  A directory that is
  made again has lost what an earlier one held on the device.  `rename()` is atomic.
- *Power failure* keeps what is reachable on the device; the temporary file is there torn or not
  at all.
- *The user* changes a file at any moment unless `StableSource`; whether the change moves the
  timestamp (whole seconds in the code) is open.  `slipped` is a history variable: the files that
  were rewritten since the search without a moved timestamp, or after it was checked (`StatFile`),
  which the run has no way to notice.
- *Hashes*: `fresh` are the files whose hash is from the search (`BH_fresh_hash`), before the
  question to the user; `HashLargeFile` reads the others now, whatever size they have by now, so that
  a name may come out that fits nothing until the comparison or the copy notices.
- *Kill* ends the process between any two system calls; `ReadFails` is an error that the system
  reports, `SizeDiffers` the code's `die()` on a file whose size is not the expected one.

Abstractions: "hash" stands for hash and size, both are part of a stored file's name; reading a
file is one step, so a file that changes *during* one read appears as changed before or after it,
and a size mismatch ends the run at the next read; the order in which files are stored and garbage
is removed is any.

### RepoLock

Name and inode are separate: `Open` finds or makes the inode of the name, `TryLock` locks the inode
that was opened, `Remove` removes whatever has the name.  `OpenReadOnly` is the branch for a
read-only file system.  `killed` is a history variable: somebody was killed since the
lockfile was removed last.  `Work` is what `main()` does while it has the lock, with the questions to
the user in it: it may never end.

### SearchTree and StringTable

A path is a sequence of names, a line of the config file is a record: what kind of line it is, the
policy of a header, the path it names, and the paths it matches where it stands for an expression.
How a line is spelled is left out, and so are the byte order mark and the refusal of a file with
null bytes in it.  A node is known by its path.
`NewNode(p)` makes the highest node that is missing on the way to the path of the line (the loop of
`searchTreeParse()`), `Define` is what follows the loop.  `StrTableMap` and the two loops of
`doubleTableCapacity()` are steps of their own, and the parser waits for them.

### Search

`TryNode` is `finishCurrentNode()`, the four `...Entry` actions are the outcomes of
`finishSearchStep()` for one name of a stream, `EndOfDirectory` is `finishDirectory()`; the `stat`
and the `opendir` of a result are steps of their own (`FoundFile`, `FoundDirectory`,
`OpenDirectory`), and so are their failures.  Between any two steps another program may create,
remove or replace a path.  A stream is two sets of names: those it has still to return, and those
it may return because they came or went after it was opened.

Abstractions: a stream returns a name at most once; a directory that can be stat'ed can be opened
unless it is gone (no `EACCES`).  The code follows a link that is put in the place of a directory
between the `stat` and the `opendir()`, and so does the model.

### Backup

`Reach(p)` is `initiateMetadataRecursively()` when the search reports `p`; `Miss(p)` is what it does
with a subnode that the search has not found, once it has left their directory
(`handleNotFoundSubnodes()` or the loops beside it); `Leave(p)` is the rest of it (the purge of
directories without policy, "unchanged").  `place` says where the search is; the paths of a
directory come in any order, those that are missing after those that were found.  `EndSearch` is
the end of `initiateBackup()`.  `Save`
writes the nodes that are left with their backups renumbered as `metadataWrite()` does, and the
wrapped reference count of an id that was counted off too often is part of it.  `ContainsChanges`
is its guard, as in `backup()` of `nb.c`.

A state is its type, what `stat` tells of it (owner, permissions, and a stamp: size and timestamp)
and its content, which is read only if the stamp has changed (`Applied`).  Two contents with one
stamp are in the instance, so a change within one second and of the same size is missed there too.

`MetadataFile` lays the nodes out as fields, `MetadataWrite`, and reads them back with a reader
that carries what is left of the file, `MetadataLoad`; the width and byte order of a number are one
field.  The calls of the code's reader are nested as the nodes are; the model keeps the loops they are
in as a stack in the reader, `Read` is one round of the innermost loop, and `Reads` makes as many
rounds as there are fields, each of which reads at least one or dies.  `ChangeSummary` says which paths get a line and which counters the line shows, for every
set of directories that the `[summarize]` expressions may match.

Abstractions: the number of paths and the history of the config file are left out (the first is
only printed, the second is never filled by the code).  `Discard` covers runs that stop before the
metadata is written.

### Restore

`Give(r)` is `initiateRestore()`: `Reached` are the nodes it visits, `Hints` what it leaves on
them.  `finishRestoreRecursively()` is a walk over the nodes, and `step` says for each path where it
is: `Enter(p)` comes to a path, `FirstStep`, `UpdateStep` and `NextStep` are the chain of system calls
that its hint leads to, `Execute(p)` makes one of them, and `Leave(p)` goes on after the subnodes,
setting the timestamp of the directory again if an entry of it was made anew (`AffectsParent`).
`Open` and `Fill` are `restoreFile()`, and removing a directory takes one step per entry.  `Counts` is
`containsChanges()`, on which it depends whether the user is asked.  `Broken` is the list of nodes
that `checkIntegrity()` returns.

A path has type, data, owner and permissions as one value, and timestamp.  Symlinks lead to
`outside`; a path below a link to a directory stands for what is found through the link.  The
histories in `node` are computed from `log`, what the backups found, by `HistoryOf`; the
properties refer to `log` only, so they also say that the numbers of backups are counted rightly.

Abstractions: owner and permissions never forbid anything (the program has to run as root to give
files to other users); hashes of different contents of one size differ; a link that is made anew
to a directory shows nothing below it; the subnodes of a directory are visited in any order.

## 3. Runs

| run | instance | shows |
|---|---|---|
| `repository_kill` | 2 files, 2 contents with the same hash, 2 slots, 2 versions, kills, a user who writes at any moment; 2.9 million states | `TypeOK`, `VisibleIntact`, `NeverOverwritten`, `StoredOnlyIfNew`, `SeenAtomic` (implements `AtomicBackup` for a process) |
| `repository_power` | 2 files, 3 contents (two hashes in two inner directories, one small), power failures and early writeback | `DurableIntact`, `DeviceAtomic` (implements `AtomicBackup` for the device) |
| `repository_live` | 1 file, 4 contents (two with the same hash, one with another, one small), 1 slot, a user who writes meanwhile, fairness | `GarbageIsCollected`, `AgreedBackupEnds`, `BackedUpAsItIs` |
| `lock` | 3 processes, started and killed at will, 3 inodes, fairness | `InsideHoldsItsInode`, `NoLockfileLeft`, `RefusedOnlyByOwner`, `NobodyWaitsForTheLock` |
| `search` | config files of up to 4 lines about a tree of 4 paths, an expression that matches two names, 4 file systems (files, directories, links, others) and one change during the search, a table of 3 buckets, a stack of 1 state, fairness | `TreeMeansConfig`, `RefusedForAReason`, `SearchIsComplete`, `DiesForAReason`, `UnmatchedIsWarnedAbout`, `TableIsMap`, `SearchIsWalk`, `SearchEnds`, `SearchTypeOK` |
| `backup` | paths `d`, `d/e`, `d/e/x`; directories that a link may replace, a file that changes with and without its stamp; configs with at most two policies, with or without an ignored path, edited in one line or not at all; 3 backups | `TypeOK`, `TrackedHistoryIsFull`, `NoPolicyMeansDirectory`, `RefCountsExact`, `MirrorForgetsRemoved`, `RemovedIsKept`, `HistoryWellFormed`, `FoundIsBackedUp`, `TrackedHistoryOnlyGrows`; `FileIsReadBack`, `DamageIsNoticed` (`MetadataFile`); `ChangesAreShown`, `NothingToSaveIsNothing` (`ChangeSummary`) |
| `restore` | a directory with two paths, five pairs of backups with different types and contents, three assignments of policies, every mixture of files, directories and links (to a file, to a directory, to nothing) in their place, damaged stored files, kills, 2 commands; 3.1 million states | `RestoredAsSaved`, `FailsForAReason`, `RestoreIsComplete`, `OnlyAskedForChanges` |

The five `violation` runs belong to section 5.

Bounds, and why they are enough.

- *Repository*: two files are needed for one to share, or to collide with, the file of the other;
  two slots for a gap and for a full name space; two hashes in two inner directories below one
  outer one for a directory that exists and one that does not.  Runs are not bounded: any number of
  backups, collections, kills and power failures follow each other.  `MaxVersions` bounds the
  versions in one snapshot.  `RepositoryKill.cfg` leaves what is on the device out of the view,
  as without power failures nothing reads it, and what is noted of files that are not about to be
  stored; the two files are symmetric, and so are the two contents that collide.  The user writes at
  any moment in `repository_kill` and `repository_live`, where hashes may be stale and a second content
  has the hash of the first; in `repository_power` only between two runs.
- *Lock*: three processes (one cleans up, one has the file open, one creates a new one); every
  inode that is neither named nor open can be used again, and a process has at most one open.
- *Search*: four lines (`MaxLines`) are a header and a path above or below another one in either
  order, with a second header between them or without; the table of `InitialCapacity` 3 is full
  after three nodes, so it doubles while a path is being added, and `SizeMax` 7 makes the second
  doubling overflow; a stack of one state is doubled at the second directory that is entered, and at
  the third the product with `StateSize` 2 overflows; the fourth file system is deep enough for that.
  One change of a file per search (`Interfere`).
- *Backup*: three backups (`MaxBackups`) let a point be made, overtaken and taken over; three nested
  paths are the least with a directory that is neither the root of a change nor its leaf.  With at
  most two policies there is always a path that inherits one, or has none.
- *Restore*: two commands (`MaxCommands`) let a restore meet what a stopped one has left; one
  interference per restore.

`Backup`, `Search` and `Restore` stop when their bound is reached or their one search has ended,
hence `CHECK_DEADLOCK FALSE`.

Fairness is assumed only of a running process: `WF_vars(Work)` in `Repository`, where `Work` leaves
out the answer of the user, `WF_vars(LockStep(p))` in `RepoLock`, which are the steps of `repoLock()`
and of the clean-up and not what is done with the lock, and `WF_allVars(SearchStep)`, since
`initiateBackup()` asks for results until the search has ended.  The code never waits for anything but
the user: nothing is assumed of the answer, of the user's writes, of a process that waits inside with
the lock, or of anybody starting a run.  Kills and power failures are off in `repository_live`; in `lock` a
killed process has ended as well.

Every property of a passing run has a mutant in `PROJECT.json`: a plausible bug in one mapped
definition under which the same run must fail.  The mutated forms stand before their originals.

## 4. Proofs

`RepoLockProofs` (any processes, any inodes, with or without kills).  `LocksAreOwned` says that the
lock of an inode and the place of its holder determine each other; with `TypeOK` this is inductive.

- `LockTypeCorrect`, `LockHeldInside`: `TypeOK` and `InsideHoldsItsInode` always hold.
- `LockRefusals`: `RefusedOnlyByOwner`, an action property, from the same invariant.
- `LockfileIsRemoved`: `NoLockfileLeft`.  It needs an invariant of its own: as long as the lockfile
  exists somebody is between `Open` and `Remove`, or has been refused by one, or was killed.

`RepositoryProofs` (any files, contents, hash functions, directories, slot limits).  `TypeInv` is
`TypeOK` with `Control`, which says where there is a current file, where the temporary file is
open, and what it holds once it was written; `TypeOK` is not inductive without it, since `Rename`
moves `tmp` to a name.

- `RepositoryTypeCorrect`: `TypeOK` always holds, under kills and power failures.

For the next three `~MayLosePower` is assumed; kills and a user who changes files are not excluded.
`VisibleInv` adds that what the metadata in the repository and in memory refer to is there with its
content (`Intact`), that the name a file is being written for stays free until the rename
(`KeyIsFree`), and that the collector works with what the metadata file says (`Collected`).

- `BackupsStayRestorable`: `VisibleIntact` always holds.
- `StoredFilesKeepTheirContent`: `NeverOverwritten`.
- `BackupsAreAtomic`: `SeenAtomic`, that is, `Repository` implements `AtomicBackup`.  Initial
  states map to initial states; the rename of the metadata is `Commit`, opening the temporary file
  for it is `Prepare`, every other step is `Abandon` or a stutter.

The last part of `RepositoryProofs` is for `~MayKill` and any power failures and writeback.  `DurableInv` says in which
order things become durable: directories are on the device except between `mkdir` and its sync
(`DirsSettled`, `DirsMade`), a visible file is there except between its rename and the sync of its
directory (`FilesSettled`), the metadata except between its rename and its sync (`MetaSettled`), and
what the metadata on the device, in the repository and in memory refer to is there (`References`).

- `BackupsSurvivePowerLoss`: `DurableIntact` always holds.
- `BackupsAreAtomicOnDevice`: `DeviceAtomic`.  What is on the device changes when the metadata is
  synced or written back (`Commit`), and at no other step.

With a user who writes at any moment, kills and power failures, `KnownInv` says what a run knows of its
files: of one that nobody has rewritten unnoticed, it has the content the search saw (`FilesKnown`,
`CurrentKnown`), has written that (`WrittenAs`), and the slots it has gone past hold something else
(`TakenBelow`).

- `VersionsAreFiles`: `BackedUpAsItIs`.
- `NewFilesAreNew`: `StoredOnlyIfNew`.

And for `StableSource`, under kills and power failures, two facts about the whole repository that no
run checks and that are false otherwise (section 5).  `ContentInv` says that what the
process knows of the current file is true (`ProcessKnows`), that names fit what is stored under
them (`NamesFit`), and that without collisions no slot but the first is in use (`OneSlot`).

- `NamesAreHashes`: what is stored under a name has the hash in that name (`HashNamesContent`).
- `ContentIsStoredOnce`: no two stored files have the same content (`NoDuplicates`), if no two contents
  have the same hash (`NoCollisions`).

`StringTableProofs` (any keys, values, hash function, capacity).  It starts with the arithmetic the
table relies on: for any width the checks of `safe-math.c` end the program exactly when the
mathematical result does not fit (`AddIsExact`, `MulIsExact`, `DifferenceIsExact`).  `TableInv`: every
entry is in the bucket its hash says (`Homed`), no key twice (`Once`), and during a doubling the
entries of the old array and the new one have different keys, with the buckets below `index` empty
(`Doubling`).

- `TableTypeCorrect`, `LookupIsRight`: `TableTypeOK` and `LookupFinds` always hold.
- `TableImplementsMap`: `TableIsMap`, that is, `StringTable` implements `StringMap`; every step of a
  doubling is a stutter, its last one is the insertion that had to wait.

`SearchProofs` (any config file and hash function) is about the parser.

- `ParserUsesAMap`: `TableIsMap` for the table inside the parser.  What is left to show is that the
  parser never maps a path twice and leaves the table alone while it is doubled.
- `TreeIsRight`, `RefusalsAreRight`: `TreeMeansConfig` and `RefusedForAReason`.  `TreeInv` says that
  every name in a list of subnodes leads to a node and is in the list once, which holds because the
  table has every node under its path (`NodesMapped`).  `ConfigInv` says what the tree is after *some*
  of the lines: which nodes there are (`ShapeInv`), that a policy is explicit where a line has given
  it (`RulesInv`), and that any other one comes from the nearest explicit policy above (`PolicyInv`).
  Between `NewNode` and `Define` the line that was read is not in force yet (`RulesSoFar`).

`SearchProofs` again (any config file, any file system, one change at any moment), about the iterator.

- `SearchTypeCorrect`: `SearchTypeOK` always holds.
- `SearchWalks`: `SearchIsWalk`, that is, `Search` implements `Walk`.  `WalkInv`: each state on the
  stack belongs to the directory as deep in the current path as the state is on the stack, what it
  may still come to (`Pending`) lies ahead, and whatever has been reported was reached through
  directories that were reported before it.  The part that needs care is a change of the files: a
  name that is new in a stream cannot have been reported, as it did not exist until then
  (`StreamKeeps`).

`FoundProofs` (as before) says what a search finds.

- `WarningsAreRight`: `UnmatchedIsWarnedAbout`.  `MatchInv` relates what a node remembers to have
  matched to the results, and says that a node which was tried has only matched below directories;
  `BelowInv` that a node with others below it has subnodes.
- `SearchFindsAll`, `DeathsAreRight`: `SearchIsComplete` and `DiesForAReason`.  `FoundInv` gives every
  state on the stack a `Promise`: if nothing has changed at its directory, it reads it in the way its
  node asks for, with the policy its directory was reported under, and every expected path in it that
  has not been passed is still to come from the stream or the list of nodes.  A state is dropped when
  neither has anything left, so nothing is left out; a change of the files only touches promises about
  paths in `touched`.  `Expected` recurses along the path; that the recursion has a solution, and that
  it depends on the files above a path only, is shown for a path of least length that is an exception
  (`ExpectedExists`, `ExpectedKept`).

`RestoreProofs` (any finite tree of paths, any log of backups, any objects in the way and damage to
stored files, any number of restores that are stopped anywhere).  `RestoreInv` has a part for each
thing that what comes out depends on:

- `RepositoryInv`: the histories are those of `HistoryOf`; from it follows that the point a restore
  picks is what the log says (`StateAt` against `Saved`), which is a fact about the order of ids;
- `HintInv`, `WalkInv`: what hints may say, and where the walk is: a path is inside only if the one
  above it is at its subnodes, and behind only with all of its own;
- `SteadyInv`, as long as nobody interferes: `StepFine` says, for each step a path may be at, what is
  there by then: nothing before `mkdir`, the right type before its attributes, the data before the
  timestamp.  A directory at its subnodes has its timestamp, or one of them was made anew, so that it
  is set again: this is what breaks if `AffectsParent` forgets a case;
- `DoneInv`: everything is there at the end.

It is needed because no property about the end of a restore says anything of its middle.  Each system
call has a lemma about its own path (`Own...`) and one about all others (`...Undisturbed`): a call moves
the timestamp of the directory above, may lose what was found below, and, through a link, may change
what another link shows.  The last is why two links that are followed to the same place are excepted
(`Mixed`, and `Shared` in the properties).

- `Invariant`, `TypeCorrect`: `RestoreInv` and `TypeOK` always hold.
- `RestoresWhatWasSaved`, `RestoresCompletely`, `FailuresHaveReasons`, `ChangesWhatWasAsked`:
  `RestoredAsSaved`, `RestoreIsComplete`, `FailsForAReason` and the action property
  `OnlyAskedForChanges`.

`BackupProofs` (any finite tree of paths, any states that may be found, any config files, any number of
backups).  Every theorem assumes `PoliciesStay`: a directory that something else may replace stays
tracked once it is, and keeps a policy once it has one, when the config file is edited.  The code does
not see to that, and findings 3 and 4 are what happens without it; TLC evaluates `PoliciesStay` for
the instance of the run `backup`.  `BackupInv` has a part for what the repository holds between two
runs:

- `SavedInv`: every saved history is `Sound` (ordered, changing from point to point, beginning with an
  existing state, of length one if the path is not tracked), all its backups are listed, what has no
  policy is a directory, and the directories above a saved path are saved;
- `LogInv` and `FullInv`: what the runs have found are trees, and the histories of paths that were
  always tracked agree with them; the latter needs that such a path still is tracked in the file.

and, while a run goes on, parts for the metadata in memory:

- `PlaceInv`: how the search has come to the place where it is.  A path that was missed stands for
  everything below it, which the search will not come to (`Handled`);
- `CountInv`: the reference count of every backup is the number of points that the nodes which are
  not wiped have of it, and no such node is below a wiped one.  This is `RefCountsExact` before the
  end of the run: an operation that counts off a point twice, or not at all, breaks it at once;
- `NodeInv`: every node is `Sound`, and what it has more than the saved one is a point of this run;
- `UntouchedInv`, `ReachedInv`, `MissedInv`: a node is as it was loaded before its path is handled; it
  shows what was found once it has been reached, and is marked as removed or wiped, depending on its
  policy, once it has been missed.

Each operation of the code has a lemma about its effect (`WipeEffect`, `MarkAsRemovedEffect`,
`HandlePolicyChangesEffect`, `HandleRemovedPathEffect`, `FoundTracked`, `FoundUntracked`,
`HandleMissingEffect`), each action one on the invariant.  Counting is by sets of places, so that a
count changes with a set and no sum has to be taken apart; what is defined along the way to the root
is unfolded with `TreeRecursion`, which finds a solution up to every depth of the tree.

- `BackupInvariant`, `BackupTypes`: `BackupInv` and `TypeOK` always hold.
- `CountsAreExact`, `PointsKeptByBackup`: `RefCountsExact` and `PointsKeepTheirBackup`.
- `HistoriesAreWellFormed`, `TrackedHistoryKept`, `TrackedHistoryGrows`: `HistoryWellFormed`,
  `TrackedHistoryIsFull`, and the action property `TrackedHistoryOnlyGrows`.
- `FoundIsKept`, `NoPolicyDirectories`, `MirrorForgets`, `RemovedPathsStay`: `FoundIsBackedUp`,
  `NoPolicyMeansDirectory`, `MirrorForgetsRemoved`, `RemovedIsKept`.
- `NothingIsMissed`, `EveryChangeIsShown`: `NothingToSaveIsNothing` and `ChangesAreShown` of
  `ChangeSummary`.  They need an invariant of their own, `HintsInv`: what a hint tells of a node whose
  policy has not changed (`ToldFine`: without a note the newest state is the saved one, "added" comes
  after nothing, "replaced" after something other than a directory, and so on), and that nothing is
  taken away below a path whose removal is recorded (`WholeFine`).  A path whose own list is not
  printed has a first line above it that stands for what is below (`PrintedAbove`); `BlockingCovers`
  shows for each hint of that line that it counts the path.

`MetadataFileProofs` (as `BackupProofs`, whose `BackupInv` says what nodes there are to be written) is
about two functions and has no invariant of its own.

- `WrittenIsRead`: `FileIsReadBack`.  What the reader does with a text `w` before any rest is that it
  comes from one state to another (`Leads`): `HistoryIsRead` for the fields of a history, then
  `NodeIsRead` and `ListIsRead` for a node and for the list below a path, by induction from below in the
  tree of paths (`FromBelow`), as a list of `PathList` is made of those below it.  `HeaderFacts` and
  `FileIsRead` put the numbers at the beginning in front.  The counts come out right because what has
  been read so far are the nodes of a set of paths that grows by whole subtrees (`Filled`).
- `NoPartIsTheWhole`: `DamageIsNoticed`.  What the reader does with the beginning of a file depends on
  nothing behind it (`ReadAdvances`), and it comes to an end, as each round reads something
  (`ReadingEnds`).  If it accepted a file that was cut off, it would be at the end of the whole file's
  reading with the rest of the fields unread, and the rest would have to be empty (`CutIsNoticed`).

Assumptions on constants are the named `ASSUME`s of the modules: sizes and hashes are functions, two
contents too large for the metadata with the same "hash" have the same size, directories are
determined by the hash, a directory has no content, data that differ differ in an attribute that has a hint, `None`, `Torn` and
`Null` are not values of anything else, a table starts with at least one bucket; paths are closed
under going up, and a file system is a tree: what is below a path that is not a directory does not
exist.  With power failures and kills together `VisibleIntact` is false (finding 1), so one of them
has to be assumed away.

Only model-checked are the liveness properties (`GarbageIsCollected`, `AgreedBackupEnds`,
`NobodyWaitsForTheLock`, `SearchEnds`): the prover has no rules for fairness and `ENABLED`.  Every other
property of the passing runs is proved.

## 5. Findings

Each is a run that TLC ends with a violation; the text with quotes is in `PROJECT.json`.

1. `repository_kill_then_power` - a run killed between the rename and the directory sync of a stored
   file leaves a name that is visible and not durable; the next backup takes it as a duplicate and
   never syncs it.  After a power failure the metadata refers to nothing.
2. `lock_exclusion` - the lockfile is unlocked before it is removed; two processes can be inside.
3. `backup_stale_id` - the points of a node that was wiped by a policy change above it are counted
   off; when it is then found again, it is kept with a new point in front of the old ones, which are
   written although nothing counts them.  If the count of their backup is 0, a point is written with
   the number of a backup that is not in the file, and the repository cannot be loaded any more.
   Reproduced with the program.
4. `backup_file_above` - a file that becomes a directory whose policy is dropped stays a file in the
   metadata, above files that are backed up in it; those cannot be restored.  Reproduced with the
   program.
5. `restore_through_link` - a saved file in whose place there is a symlink is restored into the file
   the link leads to, which is overwritten.  Reproduced with the program.

`FoundIsBackedUp`, `HistoryWellFormed` and `RefCountsExact` fail for the cause of finding 3 too when
the config may be edited in any way, and `NoPolicyMeansDirectory` for finding 4, which is why the
`backup` run restricts the edits to one line that leaves directories untracked.  So the wiping below a
node whose policy changes (backup.c:275-284) is not reached in the run `backup`, and nothing
that holds is shown about it.

Seen while modelling, without a run of their own:

- A file rewritten with the same size after its timestamp was checked (`StatFile`), or before that
  within the same second, may be stored under a hash that is not its own.  `BackedUpAsItIs` and
  `StoredOnlyIfNew` except just these files (`slipped`).
- The search for duplicates stops at the first free slot; after a collection a file behind the gap
  can be stored twice.  `StoredOnlyIfNew` is checked and proved with collisions and gaps, and speaks of
  the slots before the first gap; `ContentIsStoredOnce` is about repositories without collisions.
- A mirrored file stays in the backup when it is removed together with an unmirrored directory above
  it, and the removal of a tracked file together with an untracked directory is not recorded.
  `MirrorForgetsRemoved` and `TrackedHistoryIsFull` are about trees without such a directory.
- A symlink to nowhere in the place of a saved file makes the whole restore end before the question.
- Two saved files in whose places there are links to one file are both restored into that file, and
  what is restored last is what both show: another consequence of finding 5.  `RestoredAsSaved`
  and `RestoreIsComplete` except such paths (`Shared`).
- A configured directory that is a dangling link makes the search die: `sPathExists()` uses `lstat()`
  and finds it, the `stat()` for nodes with subnodes fails.  A file in the place of a configured
  directory is reported as one and what is configured below it as missing; only if somebody puts it there
  after the search has gone into the directory, `lstat()` fails with `ENOTDIR` and the search dies.
  `DiesForAReason` has both.
- `printMetadataChanges()` says nothing of single paths below a path whose policy changes too, below a
  directory without policy that a file has replaced, and, for what went before, below a directory
  that comes back; the totals that `backup()` prints afterwards still count what is new, removed or
  lost.  `ChangesAreShown` names these exceptions.

## 6. Not modelled, and why

- *How a line of the config file is spelled* and which paths an expression matches: given with the
  line; the refusal of null bytes.  The warnings about expressions that never matched.
- *Width and byte order of the fields of the metadata file*: a field is one value.
- *The cache of the integrity check* (nothing changes stored files while it runs, so an answer that was
  remembered is the one that would be found again) and `RepoReader`: reading is one step.
- *Permissions*: the program has to run as root to restore owners; `EACCES` does not occur.
- *Argument parsing, wording, progress and colours*: no state that a property is about.
- *Allocators and strings*: they either work or end the process.  *Third-party code*: a hash function
  is a constant of `Repository` and of `StringTable`.

## 7. What is left

1. Several processes with the lock of `RepoLock` over one `Repository`: how far finding 2 reaches.
2. A search whose results feed `Backup` directly; the two meet in the properties of `Search` so far.

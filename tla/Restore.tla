------------------------------ MODULE Restore ------------------------------
(***************************************************************************)
(* "nb REPO NUMBER [PATH]": initiateRestore() compares the user's files    *)
(* with the states they had at a backup and leaves hints on the nodes,     *)
(* finishRestore() makes, replaces and changes files after these hints     *)
(* (restore.c), and checkIntegrity() says which nodes have a stored file   *)
(* that is not what it should be (integrity.c).                            *)
(*                                                                         *)
(* One action is one system call that changes something (reading a stored  *)
(* file is part of writing the restored one), or one step of the walk over *)
(* the nodes.  Owner and permissions are one attribute: sChown() and       *)
(* sChmod(), of which the code makes those whose hint is set               *)
(* (restore.c:385-406), are one step.  A symlink has a target; what is     *)
(* there is `outside` of the paths of the backup, and a path below a link  *)
(* to a directory stands for what is found through the link.               *)
(***************************************************************************)
EXTENDS Integers, SequencesExt

CONSTANTS
    Paths, Parent, Root,   \* Parent[p] is a path or Root
    Contents,              \* contents of regular files
    Size,                  \* of each content
    Small,                 \* contents that are kept in the metadata
    Targets,               \* targets of symlinks
    Attrs, Times,          \* owners and permissions; timestamps
    Objects, Outsiders,    \* what may be at each path and at each target
    Logs,                  \* what successive backups may have found
    Policies,              \* assignments of policies to paths
    Damages,               \* what may have happened to the stored file of each content
    MayInterfere,          \* what others may put in the way of a restore
    MaxCommands,           \* bound: commands given
    Now, Torn, None

NonExisting == [type |-> "non_existing", data |-> None, attr |-> None, time |-> None]

(* What a backup knows of a path, and what may be there: a file that is     *)
(* being written is torn, what was just made has no attributes yet.         *)
Known(data) == [type: {"regular_file"}, data: data, attr: Attrs, time: Times]
               \cup [type: {"symlink"}, data: Targets, attr: Attrs, time: Times]
               \cup [type: {"directory"}, data: {None}, attr: Attrs, time: Times]
States == Known(Contents) \cup {NonExisting}
Things == Known(Contents \cup {Torn}) \cup [type: {"other"}, data: {None}, attr: Attrs, time: Times]

ASSUME TreeAssumption ==
    /\ IsFiniteSet(Paths) /\ Root \notin Paths
    /\ Parent \in [Paths -> Paths \cup {Root}]
    /\ \E depth \in [Paths \cup {Root} -> 0..Cardinality(Paths)] :
            \A p \in Paths : depth[Parent[p]] < depth[p]
ASSUME FilesAssumption ==
    /\ None \in Attrs /\ Now \in Times /\ None \notin Things
    /\ Torn \notin Contents \cup Targets \cup {None}
    /\ Small \subseteq Contents
    /\ Size \in [Contents \cup {Torn} -> Nat]
    /\ \A p \in Paths : Objects[p] \subseteq Things
    /\ \A t \in Targets : Outsiders[t] \subseteq {o \in Things : o.type # "symlink"} \cup {None}
    /\ MayInterfere \subseteq Things \cup {None}
ASSUME RepositoryAssumption ==
    /\ Logs \subseteq Seq([Paths -> States]) \ {<<>>}
    /\ Policies \subseteq [Paths -> {"none", "copy", "mirror", "track"}]
    /\ Damages \subseteq [Contents \ Small -> {"whole", "short", "wrong", "missing"}]
    /\ MaxCommands \in Nat

VARIABLES
    log,      \* what each backup found, oldest first: history variable
    node,     \* the metadata: of each path [policy, history]
    stored,   \* of each content: its stored file is "whole", "short", "wrong" or "missing"
    disk,     \* the user's files: [at: by path, outside: by target]
    request,  \* the command: [path, id]
    pc,       \* "idle", "review", "restore", "done", "refused" or "failed"
    hint,     \* what the restore has found out about each path: [kind, changed]
    step,     \* of each path: what the restore does next about it
    steady,   \* nobody interfered since the command was given
    given     \* commands so far

vars == <<log, node, stored, disk, request, pc, hint, step, steady, given>>
repository == <<log, node, stored>>
command == <<request, hint, steady, given>>

Ancestors[p \in Paths \cup {Root}] ==
    IF p = Root THEN {} ELSE {p} \cup Ancestors[Parent[p]]
Above(p)    == Ancestors[p] \ {p}
Below(p)    == {q \in Paths : p \in Above(q)}
Children(p) == {q \in Paths : Parent[q] = p}

-----------------------------------------------------------------------------
(* The metadata.                                                            *)

(* The history that backups leave: of a tracked path all changes with the   *)
(* number of their backup (0 is the newest one), of any other path only     *)
(* what was found last; a mirrored one is forgotten.                        *)
HistoryOf(l, policy, p) ==
    LET n == Len(l)
        Found(i) == IF i = 0 THEN NonExisting ELSE l[i][p]
        points == {[id |-> n - i, state |-> Found(i)] : i \in {j \in 1..n : Found(j) # Found(j - 1)}}
        existing == {pt \in points : pt.state # NonExisting}
    IN IF policy = "track" THEN points
       ELSE IF policy = "mirror" /\ Found(n) = NonExisting THEN {}
       ELSE {pt \in existing : \A other \in existing : pt.id <= other.id}

(* searchPathState(); a path without a node, or that did not exist yet, has *)
(* no state, which searchExistingPathState() does not tell from removed.    *)
StateAt(p, id) ==
    LET points == IF node[p].policy # "track" THEN node[p].history
                  ELSE {pt \in node[p].history : pt.id >= id}
    IN IF points = {} THEN NonExisting
       ELSE (CHOOSE pt \in points : \A other \in points : pt.id <= other.id).state

ExistsAt(p, id)    == StateAt(p, id) # NonExisting
DirectoryAt(p, id) == StateAt(p, id).type = "directory"

(* Mutant: everything in a directory on the way is restored. *)
Reached_Siblings(r) ==
    {p \in Paths : /\ r.path = Root \/ Ancestors[r.path] \cap Ancestors[p] # {}
                   /\ \A a \in Ancestors[p] : ExistsAt(a, r.id)
                   /\ \A a \in Above(p) : DirectoryAt(a, r.id)}

(* The paths that get a hint: the one of the command, the directories above *)
(* it, and what existed below it.                                           *)
Reached(r) ==
    {p \in Paths : /\ r.path = Root \/ r.path \in Ancestors[p] \/ p \in Ancestors[r.path]
                   /\ \A a \in Ancestors[p] : ExistsAt(a, r.id)
                   /\ \A a \in Above(p) : DirectoryAt(a, r.id)}

-----------------------------------------------------------------------------
(* checkIntegrity(): a node is broken if the stored file of any point is.   *)

(* Mutant: only the newest point of a history is checked. *)
Broken_NewestOnly ==
    {p \in Paths : \E pt \in node[p].history :
        /\ \A other \in node[p].history : pt.id <= other.id
        /\ pt.state.type = "regular_file" /\ pt.state.data \notin Small
        /\ stored[pt.state.data] # "whole"}

(* checkIntegrityRecursively(): a node is reported if any of its points has *)
(* a stored file that is not whole.  Nothing changes the stored files while *)
(* they are checked, so the cache of results is left out.                   *)
Broken ==
    {p \in Paths : \E pt \in node[p].history :
        /\ pt.state.type = "regular_file" /\ pt.state.data \notin Small
        /\ stored[pt.state.data] # "whole"}

-----------------------------------------------------------------------------
(* The user's files.                                                        *)

(* stat(): what is at a path, or where the link there leads to. *)
Followed(p) ==
    IF disk.at[p] # None /\ disk.at[p].type = "symlink" THEN disk.outside[disk.at[p].data]
    ELSE disk.at[p]

IsDirectory(p) ==
    IF p = Root THEN TRUE ELSE Followed(p) # None /\ Followed(p).type = "directory"
Listed(p)      == {q \in Children(p) : disk.at[q] # None}

Put(d, p, o) == [d EXCEPT !.at[p] = o]
PutThrough(d, p, o) ==
    IF d.at[p] # None /\ d.at[p].type = "symlink" THEN [d EXCEPT !.outside[d.at[p].data] = o]
    ELSE Put(d, p, o)

(* Making or removing an entry moves the timestamp of its directory. *)
Touched(d, p) ==
    IF Parent[p] = Root THEN d
    ELSE PutThrough(d, Parent[p], [Followed(Parent[p]) EXCEPT !.time = Now])

(* A path is lost, with all that was found below it. *)
Without(d, p) == [d EXCEPT !.at = [q \in Paths |-> IF p \in Ancestors[q] THEN None ELSE @[q]]]

-----------------------------------------------------------------------------
(* Hints.  The kind of a path that is missing is "added", of one with       *)
(* another type "replaced" or, if a directory has to go, "tree_replaced";   *)
(* otherwise applyNodeChanges() lists what has changed.                     *)
Seen(p, state) == IF state.type = "symlink" THEN disk.at[p] ELSE Followed(p)

Changed(state, o) ==
    (IF state.attr # o.attr THEN {"attr"} ELSE {})
    \cup (IF state.type # "symlink" /\ state.time # o.time THEN {"time"} ELSE {})
    \cup (IF \/ state.type = "symlink" /\ state.data # o.data
             \/ /\ state.type = "regular_file"
                /\ \/ Size[state.data] # Size[o.data]
                   \/ state.time # o.time /\ state.data # o.data
          THEN {"content"} ELSE {})

NoHint == [kind |-> "none", changed |-> {}]

(* checkAndHandleChanges() from the top down; below a path that is to be    *)
(* made or replaced nothing is looked at any more.                          *)
Hints(r) ==
    LET reached == Reached(r)
        hints[p \in Paths] ==
            LET state == StateAt(p, r.id)
                could_exist == Parent[p] = Root \/ hints[Parent[p]].kind = "none"
                o == Seen(p, state)
            IN IF p \notin reached THEN NoHint
               ELSE IF ~could_exist \/ disk.at[p] = None THEN [kind |-> "added", changed |-> {}]
               ELSE IF o = None THEN [kind |-> "dangling", changed |-> {}]
               ELSE IF o.type # state.type
                    THEN [kind |-> IF o.type = "directory" THEN "tree_replaced" ELSE "replaced",
                          changed |-> {}]
               ELSE [kind |-> "none", changed |-> Changed(state, o)]
    IN hints

-----------------------------------------------------------------------------
(* finishRestoreRecursively(): what is done about a path, one system call   *)
(* after the other.  A path is "ahead" of the walk over the nodes, inside   *)
(* with its "subnodes", or "behind".                                        *)
Calls == {"remove", "remove_tree", "open", "fill", "mkdir", "symlink",
          "change_attr", "attr", "time", "time_again"}

(* The state that a system call is about. *)
Wanted(p) == StateAt(p, request.id)

(* restorePath() *)
MakeStep(p) ==
    CASE Wanted(p).type = "regular_file" -> "open"
      [] Wanted(p).type = "symlink"      -> "symlink"
      [] Wanted(p).type = "directory"    -> "mkdir"

(* Of the subnodes, if it has any. *)
LastStep(p) == IF Wanted(p).type = "directory" THEN "subnodes" ELSE "behind"

(* A path of the right type, with its owner and permissions. *)
UpdateStep(p) ==
    IF "content" \in hint[p].changed THEN IF Wanted(p).type = "symlink" THEN "remove" ELSE "open"
    ELSE IF "time" \in hint[p].changed THEN "time" ELSE LastStep(p)

FirstStep(p) ==
    CASE hint[p].kind = "added"         -> MakeStep(p)
      [] hint[p].kind = "replaced"      -> "remove"
      [] hint[p].kind = "tree_replaced" -> "remove_tree"
      [] OTHER -> IF node[p].policy = "none" THEN LastStep(p)
                  ELSE IF "attr" \in hint[p].changed THEN "change_attr" ELSE UpdateStep(p)

(* Mutant: a file that gets its content back keeps the new timestamp. *)
NextStep_KeepsTime(p) ==
    CASE step[p] \in {"remove", "remove_tree"} -> MakeStep(p)
      [] step[p] = "open"                      -> "fill"
      [] step[p] = "fill"                      -> IF hint[p].kind = "none" THEN "behind" ELSE "attr"
      [] step[p] \in {"mkdir", "symlink"}      -> "attr"
      [] step[p] = "change_attr"               -> UpdateStep(p)
      [] step[p] = "attr"                      -> IF Wanted(p).type = "symlink" THEN "behind" ELSE "time"
      [] step[p] = "time"                      -> LastStep(p)
      [] step[p] = "time_again"                -> "behind"

NextStep(p) ==
    CASE step[p] \in {"remove", "remove_tree"} -> MakeStep(p)
      [] step[p] = "open"                      -> "fill"
      [] step[p] = "fill"                      -> IF hint[p].kind = "none" THEN "time" ELSE "attr"
      [] step[p] \in {"mkdir", "symlink"}      -> "attr"
      [] step[p] = "change_attr"               -> UpdateStep(p)
      [] step[p] = "attr"                      -> IF Wanted(p).type = "symlink" THEN "behind" ELSE "time"
      [] step[p] = "time"                      -> LastStep(p)
      [] step[p] = "time_again"                -> "behind"

(* Mutant: a link that gets its target back is not counted. *)
AffectsParent_Made(p) == hint[p].kind # "none"

(* Its entry in the directory above is made anew. *)
AffectsParent(p) ==
    \/ hint[p].kind # "none"
    \/ node[p].policy # "none" /\ Wanted(p).type = "symlink" /\ "content" \in hint[p].changed

(* The subnodes that the walk visits. *)
Subnodes(p) ==
    IF p # Root /\ Wanted(p).type # "directory" THEN {}
    ELSE {q \in Children(p) : ExistsAt(q, request.id)}

Ahead == [p \in Paths |-> "ahead"]

-----------------------------------------------------------------------------
Anything == UNION Range(Objects)
Requests == [path: Paths \cup {Root}, id: 0..(Len(log) - 1)]

Init ==
    /\ log \in Logs
    /\ \E policy \in Policies :
        /\ \A p \in Paths : policy[p] = "none" => \A i \in DOMAIN log : log[i][p].type = "directory"
        /\ node = [p \in Paths |-> [policy |-> policy[p], history |-> HistoryOf(log, policy[p], p)]]
    /\ stored \in Damages
    /\ \E at \in {f \in [Paths -> Anything \cup {None}] : \A p \in Paths : f[p] \in Objects[p] \cup {None}},
          outside \in {f \in [Targets -> UNION Range(Outsiders)] : \A t \in Targets : f[t] \in Outsiders[t]} :
        disk = [at |-> at, outside |-> outside]
    /\ \A p \in Paths : disk.at[p] # None => IsDirectory(Parent[p])
    /\ request = [path |-> Root, id |-> 0]
    /\ pc = "idle" /\ hint = [p \in Paths |-> NoHint] /\ step = Ahead
    /\ steady = TRUE /\ given = 0

(* The program ends with an error before it asks: the path was not there at *)
(* that time, or a link to nowhere is in the place of a file or directory.  *)
Refused(r) ==
    \/ r.path # Root /\ r.path \notin Reached(r)
    \/ \E p \in Paths : Hints(r)[p].kind = "dangling"

(* containsChanges(): of a directory without policy, a new timestamp or new *)
(* permissions do not count unless they come together.                      *)
Counts(p, h) ==
    \/ h.kind # "none"
    \/ IF node[p].policy # "none" THEN h.changed # {} ELSE {"attr", "time"} \subseteq h.changed

(* restore() in nb.c up to the question, which is only asked if something   *)
(* is different.                                                            *)
Give(r) ==
    /\ pc \notin {"review", "restore"} /\ given < MaxCommands
    /\ request' = r /\ steady' = TRUE /\ given' = given + 1
    /\ IF Refused(r) THEN pc' = "refused" /\ hint' = [p \in Paths |-> NoHint]
       ELSE /\ hint' = Hints(r)
            /\ pc' = IF \E p \in Paths : Counts(p, hint'[p]) THEN "review" ELSE "done"
    /\ UNCHANGED <<repository, disk, step>>

(* The process ends before its work is done. *)
Stop(state) ==
    /\ pc' = state /\ step' = Ahead /\ hint' = [p \in Paths |-> NoHint]
    /\ UNCHANGED <<repository, disk, request, steady, given>>

Answer ==
    /\ pc = "review"
    /\ \/ pc' = "restore" /\ UNCHANGED <<repository, disk, command, step>>
       \/ Stop("idle")

(* The walk comes to a path, and leaves it when it is through its subnodes. *)
Enter(p) ==
    /\ pc = "restore" /\ step[p] = "ahead" /\ ExistsAt(p, request.id)
    /\ Parent[p] # Root => step[Parent[p]] = "subnodes" /\ p \in Subnodes(Parent[p])
    /\ \A q \in Subnodes(Parent[p]) : step[q] \in {"ahead", "behind"}
    /\ step' = [step EXCEPT ![p] = FirstStep(p)]
    /\ UNCHANGED <<repository, disk, command, pc>>

(* The timestamp of a directory is set again after entries have been made   *)
(* in it.                                                                   *)
Leave(p) ==
    /\ pc = "restore" /\ step[p] = "subnodes"
    /\ \A q \in Subnodes(p) : step[q] = "behind"
    /\ step' = [step EXCEPT ![p] =
                    IF node[p].policy # "none" /\ \E q \in Subnodes(p) : AffectsParent(q)
                    THEN "time_again" ELSE "behind"]
    /\ UNCHANGED <<repository, disk, command, pc>>

(* sMkdir() and sSymlink() *)
Create(p, o) ==
    IF disk.at[p] = None /\ IsDirectory(Parent[p]) THEN {Touched(Put(disk, p, o), p)} ELSE {}

RemoveEntry(p) ==
    IF disk.at[p] = None \/ (disk.at[p].type = "directory" /\ Listed(p) # {}) THEN {}
    ELSE {Touched(Without(disk, p), p)}

(* The next step of sRemoveRecursively(): something without entries.        *)
(* Symlinks are removed and not followed.                                   *)
RemoveLeaf(p) ==
    UNION {RemoveEntry(q) : q \in {q \in {p} \cup Below(p) :
        \A a \in Ancestors[q] \ Above(p) : a = q \/ (disk.at[a] # None /\ disk.at[a].type = "directory")}}

EmptyFile == [type |-> "regular_file", data |-> Torn, attr |-> None, time |-> Now]

(* Opening for writing truncates what is there or makes a file.  A missing  *)
(* stored file is noticed before.                                           *)
Open(p) ==
    IF Wanted(p).data \notin Small /\ stored[Wanted(p).data] = "missing" THEN {}
    ELSE IF disk.at[p] = None THEN Create(p, EmptyFile)
    ELSE IF Followed(p) = None THEN {PutThrough(disk, p, EmptyFile)}
    ELSE IF Followed(p).type # "regular_file" THEN {}
    ELSE {PutThrough(disk, p, [Followed(p) EXCEPT !.data = Torn, !.time = Now])}

(* The bytes of the stored file; those of a wrong one have the right number. *)
Fill(p) ==
    LET c == Wanted(p).data
        written == IF c \in Small \/ stored[c] = "whole" THEN {c}
                   ELSE IF stored[c] = "wrong" THEN {b \in Contents \ {c} : Size[b] = Size[c]}
                   ELSE {}
    IN IF Followed(p) = None \/ Followed(p).data # Torn THEN (IF written = {} THEN {} ELSE {disk})
       ELSE {PutThrough(disk, p, [Followed(p) EXCEPT !.data = b]) : b \in written}

(* What the next system call can make of the disk; nothing if it fails. *)
Results(p) ==
    CASE step[p] = "remove"      -> RemoveEntry(p)
      [] step[p] = "remove_tree" -> RemoveLeaf(p)
      [] step[p] = "mkdir"       -> Create(p, [Wanted(p) EXCEPT !.attr = None, !.time = Now])
      [] step[p] = "symlink"     -> Create(p, [Wanted(p) EXCEPT !.attr = None, !.time = Now])
      [] step[p] = "open"        -> Open(p)
      [] step[p] = "fill"        -> Fill(p)
      [] step[p] \in {"change_attr", "attr"} /\ Wanted(p).type = "symlink" ->
            IF disk.at[p] = None THEN {}
            ELSE {Put(disk, p, [disk.at[p] EXCEPT !.attr = Wanted(p).attr])}
      [] OTHER ->
            IF Followed(p) = None THEN {}
            ELSE {PutThrough(disk, p, IF step[p] \in {"change_attr", "attr"}
                                      THEN [Followed(p) EXCEPT !.attr = Wanted(p).attr]
                                      ELSE [Followed(p) EXCEPT !.time = Wanted(p).time])}

(* A tree is removed when its root is gone. *)
Execute(p) ==
    /\ pc = "restore" /\ step[p] \in Calls
    /\ disk' \in Results(p)
    /\ step' = [step EXCEPT ![p] =
                    IF step[p] = "remove_tree" /\ disk'.at[p] # None THEN @ ELSE NextStep(p)]
    /\ UNCHANGED <<repository, command, pc>>

Fail(p) ==
    /\ pc = "restore" /\ step[p] \in Calls /\ Results(p) = {}
    /\ Stop("failed")

Finish ==
    /\ pc = "restore" /\ \A p \in Subnodes(Root) : step[p] = "behind"
    /\ pc' = "done" /\ step' = Ahead
    /\ UNCHANGED <<repository, disk, command>>

(* The process is killed. *)
Kill == pc = "restore" /\ Stop("idle")

(* Somebody else replaces or removes something meanwhile (bound: once in a  *)
(* restore).                                                                *)
Interfere ==
    /\ pc \in {"review", "restore"} /\ steady
    /\ \E p \in Paths, o \in MayInterfere :
        /\ o # None => IsDirectory(Parent[p])
        /\ disk' = [Without(disk, p) EXCEPT !.at[p] = o]
    /\ steady' = FALSE
    /\ UNCHANGED <<repository, request, pc, hint, step, given>>

Next ==
    \/ \E r \in Requests : Give(r)
    \/ Answer \/ Finish \/ Kill \/ Interfere
    \/ \E p \in Paths : Enter(p) \/ Execute(p) \/ Leave(p) \/ Fail(p)

Spec == Init /\ [][Next]_vars

-----------------------------------------------------------------------------
(* Properties.                                                              *)

(* Every variable has a value of its kind: in particular what is found at a *)
(* path has a directory above it.                                           *)
TypeOK ==
    /\ disk \in [at: [Paths -> Things \cup {None}], outside: [Targets -> Things \cup {None}]]
    /\ \A p \in Paths : disk.at[p] # None => IsDirectory(Parent[p])
    /\ request \in Requests /\ steady \in BOOLEAN /\ given \in 0..MaxCommands
    /\ pc \in {"idle", "review", "restore", "done", "refused", "failed"}
    /\ hint \in [Paths -> [kind: {"none", "added", "replaced", "tree_replaced"},
                            changed: SUBSET {"attr", "time", "content"}]]
    /\ step \in [Paths -> Calls \cup {"ahead", "subnodes", "behind"}]
    /\ pc # "restore" => step = Ahead

(* The state the user asks for, from what the backups found and not from    *)
(* the histories: of an untracked path always the latest one.               *)
Saved(p) ==
    LET n == Len(log)
        Existing == {i \in 1..n : log[i][p] # NonExisting}
    IN IF node[p].policy = "track" THEN log[n - request.id][p]
       ELSE IF node[p].policy = "mirror" THEN log[n][p]
       ELSE IF Existing = {} THEN NonExisting ELSE log[Max(Existing)][p]

(* The paths a command is about. *)
Asked == {p \in Paths : /\ request.path = Root \/ request.path \in Ancestors[p]
                        /\ \A a \in Above(p) : Saved(a).type = "directory"
                        /\ Saved(p) # NonExisting}

(* A link that the restore follows leads where another one does: what is    *)
(* restored through one of them changes what is seen through the other.     *)
Follows(p) ==
    /\ p \in Asked \cup Ancestors[request.path] /\ Saved(p).type # "symlink"
    /\ disk.at[p] # None /\ disk.at[p].type = "symlink"
Shared(p) ==
    \E q \in Paths \ {p} : Follows(p) /\ Follows(q) /\ disk.at[q].data = disk.at[p].data

(* A file that differs but has the size and timestamp of the saved one was  *)
(* taken for it.                                                            *)
LookedUnchanged(p) ==
    /\ hint[p].kind = "none" /\ "content" \notin hint[p].changed
    /\ Saved(p).type = "regular_file"
    /\ Size[Followed(p).data] = Size[Saved(p).data]

(* A restore that came to its end without interference has made every path  *)
(* it was asked for what the backup with that number had found, including   *)
(* timestamps of directories in which entries were made.  Excepted are      *)
(* files that looked unchanged, files that the integrity check reports,     *)
(* attributes and times of directories without policy, and what is found    *)
(* through a link that leads where another one does.                        *)
RestoredAsSaved ==
    pc = "done" /\ steady => \A p \in Asked :
        LET s == Saved(p)
            o == Seen(p, s)
        IN /\ o # None /\ o.type = s.type
           /\ node[p].policy # "none" /\ ~Shared(p) =>
                /\ o.attr = s.attr
                /\ s.type # "symlink" => o.time = s.time
                /\ o.data = s.data \/ p \in Broken \/ LookedUnchanged(p)

(* A restore is refused only if the path was not in that backup or a link   *)
(* leads nowhere; one that was started fails only if somebody interferes or *)
(* the integrity check reports a file: "Healthy" means that everything can  *)
(* be restored.                                                             *)
FailsForAReason ==
    /\ pc = "refused" =>
        \/ request.path # Root /\ request.path \notin Asked
        \/ \E p \in Paths : /\ disk.at[p] # None /\ disk.at[p].type = "symlink"
                            /\ disk.outside[disk.at[p].data] = None
    /\ pc = "failed" => ~steady \/ Broken \cap Asked # {}

(* Nothing is left to do after a restore: restoring again, also after a     *)
(* restore that was killed or failed half-way, finds no difference, except  *)
(* in directories without policy.  Two links that lead to the same place    *)
(* may hold what was restored through one of them only.                     *)
RestoreIsComplete ==
    pc = "done" /\ steady /\ (\A p \in Paths : ~Shared(p)) =>
        /\ ~Refused(request)
        /\ \A p \in Paths :
              LET h == Hints(request)[p]
              IN h.kind = "none" /\ (node[p].policy = "none" \/ h.changed = {})

(* A restore changes nothing but the paths it was asked for, directories    *)
(* above them, and what is in the way below them.  If somebody puts a link  *)
(* to a directory in the place of a path meanwhile, the link may be         *)
(* replaced, and what was found through it is not found any more.           *)
OnlyAskedForChanges ==
    [][(\E q \in Paths : Execute(q)) => \A p \in Paths : disk'.at[p] # disk.at[p] =>
            \/ p \in Asked
            \/ p \in Ancestors[request.path]
            \/ \E a \in Above(p) \cap Asked : Saved(a).type # "directory"
            \/ \E a \in Above(p) : ~steady /\ disk.at[a] # None /\ disk.at[a].type = "symlink"]_vars

(* A file that a link leads to is not written to: where a link was put in   *)
(* the place of a saved file the link is replaced.                          *)
LinkedFilesAreKept ==
    [][(\E q \in Paths : Execute(q)) => \A t \in Targets :
        disk.outside[t] # None /\ disk.outside[t].type = "regular_file"
            => disk'.outside[t] = disk.outside[t]]_vars
=============================================================================

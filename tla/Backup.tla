------------------------------- MODULE Backup -------------------------------
(***************************************************************************)
(* The diff between the metadata of a repository and the user's files:     *)
(* initiateBackup() in backup.c, the decision whether anything has changed *)
(* (nb.c:280) and metadataWrite()/metadataLoad() as far as they renumber   *)
(* the backups that history points belong to.                              *)
(*                                                                         *)
(* One action handles one path found by the search, first when it is       *)
(* reached and again when the search has left it; a run works on metadata  *)
(* in memory, and only Save changes what later runs load.                  *)
(*                                                                         *)
(* A state of a path is its type, what stat tells of it (owner, permissions *)
(* and its stamp: size and timestamp) and its content.  Paths are the nodes *)
(* of a fixed tree below the search root.                                  *)
(***************************************************************************)
EXTENDS Integers, FiniteSets, SequencesExt

CONSTANTS
    Paths, Parent, Root,   \* Parent[p] is a path or Root
    StatesAt,              \* what may be found at a path: [type, data, content]
    Stamp(_),              \* size and timestamp in the data of a state
    Differences(_, _),     \* hints for what two data differ in; a size is "content"
    Configs,               \* [policy: explicit policies by path, ignored: paths]
    MayFollow(_, _),       \* how the config file may be edited between two backups
    MaxBackups,            \* bound: saved backups
    None                   \* no file, no node

NonExisting == [type |-> "non_existing", data |-> None, content |-> None]
States == UNION {StatesAt[p] : p \in Paths}
Policies == {"none", "copy", "mirror", "track"}
Runs == 1..MaxBackups

(* A file in the metadata may have kept the content of an older state.      *)
Files == {s \in States : s.type = "regular_file"}
Mixed == States \cup {[type |-> s.type, data |-> s.data, content |-> t.content] : s, t \in Files}

ASSUME TreeAssumption ==
    /\ IsFiniteSet(Paths) /\ Root \notin Paths
    /\ Parent \in [Paths -> Paths \cup {Root}]
    /\ \E depth \in [Paths \cup {Root} -> 0..Cardinality(Paths)] :
            \A p \in Paths : depth[Parent[p]] < depth[p]
ASSUME StatesAssumption ==
    /\ \A s \in States :
            /\ s = [type |-> s.type, data |-> s.data, content |-> s.content]
            /\ s.type \in {"regular_file", "directory", "symlink"}
            /\ s.type = "directory" => s.content = None
    /\ None \notin States
    /\ MaxBackups \in Nat
ASSUME ConfigAssumption ==
    /\ Configs \subseteq [policy: [Paths \cup {Root} -> Policies], ignored: SUBSET Paths]
    /\ None \notin Configs
ASSUME DifferencesAssumption ==
    \A s, t \in Mixed : Differences(s.data, t.data) = {} => s.data = t.data
ASSUME NodeAssumption ==
    None \notin [policy: Policies, history: Seq([backup: Runs, state: Mixed \cup {NonExisting}])]

VARIABLES
    saved,    \* the nodes in the metadata file of the repository
    backups,  \* the backups listed in it, newest first
    config,   \* search tree of the current run
    found,    \* what the search of the current run finds at each path
    place,    \* of each path in the search: "ahead", "inside", "behind" or "missed"
    m,        \* the metadata in memory
    pc,
    log       \* what each saved run found: numbers the runs, and a history
              \* variable for the properties

vars == <<saved, backups, config, found, place, m, pc, log>>
memory == <<config, found, place, m>>

(* The identity of current_backup: one more than the backups saved so far. *)
run == Len(log) + 1

-----------------------------------------------------------------------------
(* The tree and the search tree.                                            *)
Ancestors[p \in Paths \cup {Root}] ==
    IF p = Root THEN {Root} ELSE {p} \cup Ancestors[Parent[p]]
Trail(p)    == Ancestors[p] \ {Root}
Subtree(p)  == {q \in Paths : p \in Ancestors[q]}
Children(p) == {q \in Paths : Parent[q] = p}
Below(p)    == Subtree(p) \ {p}

(* inheritPolicyToSubnodes(): the nearest policy of the config file. *)
PolicyOf(c) ==
    LET policy[p \in Paths \cup {Root}] ==
            IF c.policy[p] # "none" \/ p = Root THEN c.policy[p] ELSE policy[Parent[p]]
    IN policy
Policy == PolicyOf(config)

(* Paths of the config file and the directories that lead to them. *)
HasSearchNode(p) == \E q \in Subtree(p) : config.policy[q] # "none"

(* The search reports an existing path unless no rule covers it. *)
IsFound(p) ==
    /\ found[p] # None
    /\ HasSearchNode(p) \/ (Policy[Parent[p]] # "none" /\ p \notin config.ignored)

(* A path the search reports: all directories above it are reported too. *)
Reported(p) == \A q \in Trail(p) : IsFound(q)

-----------------------------------------------------------------------------
(* Metadata in memory: nodes, hints, "policy has changed" bits and the      *)
(* reference count of each backup.                                          *)
Top(x, p)   == Head(x.node[p].history).state
Exists(x, p) == x.node[p] # None
Gone(x, p)  == Top(x, p) = NonExisting

(* The points of a backup; in a history each is known by how many are older. *)
Places(history, b) ==
    {Len(history) - i : i \in {j \in DOMAIN history : history[j].backup = b}}
Points(x, ps, b) == UNION {{p} \X Places(x.node[p].history, b) : p \in ps}
Count(history, b) == Cardinality(Places(history, b))
CountIn(x, ps, b) == Cardinality(Points(x, ps, b))

(* Every hint below BH_owner_changed replaces the others. *)
SetHint(x, p, hint) == [x EXCEPT !.hint[p] = hint]

(* Mutant: the new point is not linked to the older ones. *)
Push_Unlinked(x, p, state) ==
    [x EXCEPT !.node[p].history = <<[backup |-> run, state |-> state]>>,
              !.refs[run] = @ + 1]

(* A new point of the current backup in front of the histories of some nodes. *)
Pushed(node, state) ==
    [policy |-> node.policy, history |-> <<[backup |-> run, state |-> state]>> \o node.history]
PushAll(x, ps, state) ==
    [x EXCEPT !.node = [p \in Paths |-> IF p \in ps THEN Pushed(@[p], state) ELSE @[p]],
              !.refs[run] = @ + Cardinality(ps)]
Push(x, p, state) == PushAll(x, {p}, state)

(* reassignPointToCurrent() *)
Reassign(x, p) ==
    LET b == Head(x.node[p].history).backup
    IN [x EXCEPT !.refs = [c \in Runs |->
                     @[c] - (IF c = b THEN 1 ELSE 0) + IF c = run THEN 1 ELSE 0],
                 !.node[p].history[1].backup = run]

(* Mutant: only the newest point of a wiped node is counted off. *)
Wipe_NewestOnly(x, ps) ==
    LET W == {p \in ps : Exists(x, p) /\ x.hint[p] # "wiped"}
    IN [x EXCEPT !.hint = [p \in Paths |-> IF p \in W THEN "wiped" ELSE @[p]],
                 !.refs = [b \in Runs |->
                     @[b] - Cardinality({p \in W : Head(x.node[p].history).backup = b})]]

(* prepareNodeForWiping() for every node of a set, each at most once. *)
Wipe(x, ps) ==
    LET W == {p \in ps : Exists(x, p) /\ x.hint[p] # "wiped"}
    IN [x EXCEPT !.hint = [p \in Paths |-> IF p \in W THEN "wiped" ELSE @[p]],
                 !.refs = [b \in Runs |-> @[b] - CountIn(x, W, b)]]

(* Mutant: a path that is gone already is extended again. *)
MarkAsRemoved_Again(x, p, extend) ==
    LET Between(q) == Subtree(p) \cap Ancestors[q]
        R == {q \in Subtree(p) : \A r \in Between(q) : Exists(x, r) /\ x.hint[r] # "wiped"}
        E == {q \in R : extend /\ \A r \in Between(q) : x.node[r].policy = "track"}
    IN [PushAll(x, E, NonExisting) EXCEPT
            !.hint = [q \in Paths |-> IF q \in R THEN "removed" ELSE @[q]]]

(* markAsRemovedRecursively(): nodes below a wiped one are not reached; a   *)
(* history is extended only under nodes that are tracked or already gone.   *)
MarkAsRemoved(x, p, extend) ==
    LET Between(q) == Subtree(p) \cap Ancestors[q]
        R == {q \in Subtree(p) : \A r \in Between(q) : Exists(x, r) /\ x.hint[r] # "wiped"}
        E == {q \in R : /\ extend /\ ~Gone(x, q)
                        /\ \A r \in Between(q) : Gone(x, r) \/ x.node[r].policy = "track"}
    IN [PushAll(x, E, NonExisting) EXCEPT
            !.hint = [q \in Paths |-> IF q \notin R THEN @[q]
                                      ELSE IF Gone(x, q) THEN "unchanged" ELSE "removed"],
            !.flag = @ \ {q \in R : Gone(x, q)}]

(* The newest point at which a path existed. *)
Latest(history) == IF Head(history).state = NonExisting THEN history[2] ELSE Head(history)

(* Mutant: the point that is kept is counted off with the others. *)
HandlePolicyChanges_CountsOffAll(x, p, policy) ==
    LET history == x.node[p].history
        y == [x EXCEPT !.flag = @ \cup {p},
                       !.node[p] = [policy |-> policy, history |-> history]]
        z == [x EXCEPT !.flag = @ \cup {p},
                       !.node[p] = [policy |-> policy, history |-> <<Latest(history)>>],
                       !.refs = [b \in Runs |-> @[b] - Count(history, b)]]
    IN IF x.node[p].policy = policy THEN x
       ELSE IF x.node[p].policy # "track" THEN y
       ELSE IF Latest(history).state.type = "directory" THEN z
       ELSE Wipe(z, Below(p))

(* handlePolicyChanges(): a node that is no longer tracked keeps its newest *)
(* existing state only, and nothing below it unless that is a directory.    *)
HandlePolicyChanges(x, p, policy) ==
    LET history == x.node[p].history
        y == [x EXCEPT !.flag = @ \cup {p},
                       !.node[p] = [policy |-> policy, history |-> history]]
        z == [x EXCEPT !.flag = @ \cup {p},
                       !.node[p] = [policy |-> policy, history |-> <<Latest(history)>>],
                       !.refs = [b \in Runs |->
                           @[b] - Count(history, b) + Count(<<Latest(history)>>, b)]]
    IN IF x.node[p].policy = policy THEN x
       ELSE IF x.node[p].policy # "track" THEN y
       ELSE IF Latest(history).state.type = "directory" THEN z
       ELSE Wipe(z, Below(p))

(* Mutant: a removed directory without policy goes, whatever is below it. *)
HandleRemovedPath_DropsNone(x, p, policy) ==
    LET y == HandlePolicyChanges(x, p, policy)
    IN IF policy = "mirror" THEN Wipe(y, Subtree(p))
       ELSE IF policy = "none" THEN Wipe(y, {p})
       ELSE MarkAsRemoved(y, p, TRUE)

(* handleRemovedPath() *)
HandleRemovedPath(x, p, policy) ==
    LET y == HandlePolicyChanges(x, p, policy)
        HasSubnodes == \E q \in Children(p) : Exists(y, q)
    IN IF policy = "mirror" THEN Wipe(y, Subtree(p))
       ELSE IF policy = "none" /\ (~HasSubnodes \/ Top(y, p).type # "directory")
       THEN Wipe(y, {p})
       ELSE MarkAsRemoved(y, p, TRUE)

(* handleNodeChanges(): the hint, and whether the state is brought up to    *)
(* date; a replaced file keeps its old state under a node without policy.   *)
Seen(state) == [type |-> state.type, data |-> state.data]
TypeHint(x, p, state) ==
    IF Top(x, p).type = state.type THEN x.hint[p]
    ELSE IF Top(x, p).type = "directory" THEN "directoryReplaced" ELSE "replaced"
(* Mutant: contents are never compared. *)
Applied_NeverRead(old, state) ==
    IF old.type # "regular_file" THEN state ELSE [state EXCEPT !.content = old.content]
(* applyNodeChanges(): a file is read only if its stamp has changed. *)
Applied(old, state) ==
    IF \/ old.type # "regular_file" \/ state.type # "regular_file"
       \/ Stamp(old.data) # Stamp(state.data)
    THEN state
    ELSE [state EXCEPT !.content = old.content]
NodeHint(x, p, state) ==
    IF TypeHint(x, p, state) = "none" /\ Applied(Top(x, p), state) # Top(x, p)
    THEN "changed" ELSE TypeHint(x, p, state)
(* Mutant: what replaces a directory without policy takes its place. *)
NewState_Replaces(x, p, policy, state) == state
NewState(x, p, policy, state) ==
    IF TypeHint(x, p, state) = "none" THEN Applied(Top(x, p), state)
    ELSE IF policy # "none" THEN state ELSE Top(x, p)

(* handleFoundNode() for a node that was loaded from the metadata. *)
HandleFoundNode(x, p, policy, state) ==
    LET y    == HandlePolicyChanges(x, p, policy)
        hint == NodeHint(y, p, state)
        z    == SetHint(y, p, hint)
        new  == NewState(y, p, policy, state)
    IN IF policy # "track"
       THEN LET updated == [z EXCEPT !.node[p].history[1].state = new]
            IN IF hint # "none" \/ policy = "none" THEN Reassign(updated, p) ELSE updated
       ELSE IF Gone(y, p) THEN Push(SetHint(y, p, "added"), p, state)
       ELSE IF hint # "none" THEN Push(z, p, new)
       ELSE z

(* A path the metadata does not know. *)
AddNode(x, p, policy, state) ==
    Push(SetHint([x EXCEPT !.node[p] = [policy |-> policy, history |-> <<>>]], p, "added"),
         p, state)

(* Mutant: the policy of the directory is used for paths with a rule of      *)
(* their own.                                                               *)
HandleNotFound_ParentPolicy(x, p) ==
    IF x.hint[p] # "none" \/ p \in x.flag THEN x
    ELSE IF Policy[Parent[p]] = "none" /\ ~HasSearchNode(p) THEN Wipe(x, Subtree(p))
    ELSE HandleRemovedPath(x, p, Policy[Parent[p]])

(* handleNotFoundSubnodes() for one of the subnodes. *)
HandleNotFound(x, p) ==
    IF x.hint[p] # "none" \/ p \in x.flag THEN x
    ELSE IF HasSearchNode(p) THEN HandleRemovedPath(x, p, Policy[p])
    ELSE IF Policy[Parent[p]] = "none" \/ p \in config.ignored THEN Wipe(x, Subtree(p))
    ELSE HandleRemovedPath(x, p, Policy[Parent[p]])

(* Mutant: histories below a replaced directory are not extended. *)
HandleMissing_NotExtended(x, p, parent) ==
    IF parent = Root THEN HandleNotFound(x, p)
    ELSE IF x.hint[parent] = "directoryReplaced"
         THEN IF Policy[parent] \in {"none", "track"} THEN MarkAsRemoved(x, p, FALSE)
              ELSE Wipe(x, Subtree(p))
    ELSE IF Policy[parent] = "track" /\ Top(x, parent).type = "regular_file"
         THEN MarkAsRemoved(x, p, FALSE)
    ELSE HandleNotFound(x, p)

(* What initiateMetadataRecursively() does with each subnode the search has *)
(* not found, once it has left their directory.                             *)
HandleMissing(x, p, parent) ==
    IF parent = Root THEN HandleNotFound(x, p)
    ELSE IF x.hint[parent] = "directoryReplaced"
         THEN IF Policy[parent] \in {"none", "track"}
              THEN MarkAsRemoved(x, p, Policy[parent] = "track")
              ELSE Wipe(x, Subtree(p))
    ELSE IF Policy[parent] = "track" /\ Top(x, parent).type = "regular_file"
         THEN MarkAsRemoved(x, p, FALSE)
    ELSE HandleNotFound(x, p)

PurgeWithoutPolicy(x, p, policy) ==
    IF policy = "none" /\ \A q \in Children(p) : Exists(x, q) => x.hint[q] = "wiped"
    THEN Wipe(x, {p}) ELSE x

MarkUnchanged(x, p) ==
    IF x.hint[p] = "none" /\ p \notin x.flag THEN SetHint(x, p, "unchanged") ELSE x

-----------------------------------------------------------------------------
(* metadataWrite() and metadataLoad().                                      *)

(* A size_t that was decremented below zero has wrapped and is positive. *)
Counted(b) == m.refs[b] # 0

(* Nodes on the way to the root are written before their subnodes. *)
Written(p) == \A q \in Trail(p) : Exists(m, q) /\ m.hint[q] # "wiped"

WrittenBackups ==
    LET upTo[i \in 0..Len(backups)] ==
            IF i = 0 THEN IF Counted(run) THEN <<run>> ELSE <<>>
            ELSE IF Counted(backups[i]) THEN Append(upTo[i - 1], backups[i]) ELSE upTo[i - 1]
    IN upTo[Len(backups)]

IndexIn(seq, b) == CHOOSE i \in DOMAIN seq : seq[i] = b

(* The id a point is written with: stale when its backup is not counted.    *)
WrittenId(b) ==
    IF Counted(b) THEN IndexIn(WrittenBackups, b)
    ELSE IF b = run THEN 1 ELSE IndexIn(backups, b)

(* What the next run reads back for it; 0 is "backup id is out of range".   *)
ReadBack(b) ==
    IF WrittenId(b) \in DOMAIN WrittenBackups THEN WrittenBackups[WrittenId(b)] ELSE 0

WrittenNodes ==
    [p \in Paths |->
        IF ~Written(p) THEN None
        ELSE [policy |-> m.node[p].policy,
              history |-> [i \in DOMAIN m.node[p].history |->
                  [backup |-> ReadBack(m.node[p].history[i].backup),
                   state |-> m.node[p].history[i].state]]]]

Loaded(nodes) ==
    [node |-> nodes,
     hint |-> [p \in Paths |-> "none"],
     flag |-> {},
     refs |-> [b \in Runs |-> CountIn([node |-> nodes], {p \in Paths : nodes[p] # None}, b)]]

-----------------------------------------------------------------------------
NoNodes == [p \in Paths |-> None]
NoSearch ==
    /\ config' = None /\ found' = NoNodes
    /\ place' = [p \in Paths |-> "ahead"]
    /\ m' = Loaded(NoNodes)

Init ==
    /\ saved = NoNodes /\ backups = <<>>
    /\ config = None /\ found = NoNodes
    /\ place = [p \in Paths |-> "ahead"]
    /\ m = Loaded(NoNodes)
    /\ pc = "idle" /\ log = <<>>

(* The files a search may see: a path is reached through directories only. *)
FileSystems ==
    {f \in [Paths -> States \cup {None}] :
        /\ \A p \in Paths : f[p] \in StatesAt[p] \cup {None}
        /\ \A p \in Paths : f[p] # None =>
            \A q \in Trail(Parent[p]) : f[q] # None /\ f[q].type = "directory"}

StartRun ==
    /\ pc = "idle" /\ run <= MaxBackups
    /\ config' \in Configs
    /\ log # <<>> => MayFollow(Last(log).config, config')
    /\ found' \in FileSystems
    /\ m' = Loaded(saved)
    /\ place' = [p \in Paths |-> "ahead"]
    /\ pc' = "search"
    /\ UNCHANGED <<saved, backups, log>>

(* The search is in the directory that p is in. *)
AtParentOf(p) == \A q \in Paths : place[q] = "inside" <=> q \in Ancestors[Parent[p]]

Reach(p) ==
    /\ pc = "search" /\ place[p] = "ahead" /\ IsFound(p)
    /\ AtParentOf(p)
    /\ place' = [place EXCEPT ![p] = "inside"]
    /\ m' = IF Exists(m, p) THEN HandleFoundNode(m, p, Policy[p], found[p])
            ELSE AddNode(m, p, Policy[p], found[p])
    /\ UNCHANGED <<saved, backups, config, found, pc, log>>

(* Subnodes that are missing come after those that the search has found. *)
Miss(p) ==
    /\ pc = "search" /\ place[p] = "ahead" /\ ~IsFound(p) /\ Exists(m, p)
    /\ AtParentOf(p)
    /\ \A q \in Children(Parent[p]) : IsFound(q) => place[q] = "behind"
    /\ place' = [place EXCEPT ![p] = "missed"]
    /\ m' = HandleMissing(m, p, Parent[p])
    /\ UNCHANGED <<saved, backups, config, found, pc, log>>

(* Every path in a directory has been handled. *)
AllHandled(p) ==
    \A q \in Children(p) :
        IF IsFound(q) THEN place[q] = "behind" ELSE Exists(m, q) => place[q] = "missed"

Leave(p) ==
    /\ pc = "search" /\ place[p] = "inside"
    /\ AllHandled(p)
    /\ place' = [place EXCEPT ![p] = "behind"]
    /\ m' = MarkUnchanged(PurgeWithoutPolicy(m, p, Policy[p]), p)
    /\ UNCHANGED <<saved, backups, config, found, pc, log>>

(* The end of initiateBackup(). *)
EndSearch ==
    /\ pc = "search"
    /\ AllHandled(Root)
    /\ pc' = "review"
    /\ UNCHANGED <<saved, backups, config, found, place, m, log>>

(* The bits of applyNodeChanges(): what a file that kept its type differs in. *)
LastState(history) == Latest(history).state
Changed(p) ==
    LET old == LastState(saved[p].history)
        new == Top(m, p)
    IN IF m.hint[p] # "changed" THEN {}
       ELSE Differences(old.data, new.data)
            \cup IF old.content # new.content THEN {"content"} ELSE {}

(* node->hint > BH_unchanged *)
Noted(p) == Exists(m, p) /\ (m.hint[p] \notin {"none", "unchanged"} \/ p \in m.flag)

(* Mutant: attributes count for no path. *)
Minor_AnyPolicy(p) == p \notin m.flag /\ Changed(p) # {} /\ "content" \notin Changed(p)
(* hint >= BH_owner_changed && hint <= BH_timestamp_changed, without policy. *)
Minor(p) ==
    /\ m.node[p].policy = "none" /\ p \notin m.flag
    /\ Changed(p) # {}
    /\ Changed(p) \subseteq {"owner", "permissions"} \/ Changed(p) = {"timestamp"}

(* containsChanges() *)
ContainsChanges == \E p \in Paths : Noted(p) /\ ~Minor(p)

(* finishBackup() fills in hashes (module Repository), then the metadata    *)
(* replaces the one in the repository.                                      *)
Save ==
    /\ pc = "review" /\ ContainsChanges
    /\ saved' = WrittenNodes
    /\ backups' = WrittenBackups
    /\ log' = Append(log, [found |-> [p \in Paths |-> IF Reported(p) THEN found[p] ELSE None],
                        config |-> config])
    /\ pc' = "idle" /\ NoSearch

(* Nothing to save, the user says no, or the run dies before the rename. *)
Discard ==
    /\ pc \in {"search", "review"}
    /\ pc' = "idle" /\ NoSearch
    /\ UNCHANGED <<saved, backups, log>>

Next ==
    \/ StartRun \/ EndSearch \/ Save \/ Discard
    \/ \E p \in Paths : Reach(p) \/ Miss(p) \/ Leave(p)

Spec == Init /\ [][Next]_vars

-----------------------------------------------------------------------------
(* How a config file is edited in a repository that works as it should:     *)
(* directories that may be replaced by a file or a link stay tracked, and   *)
(* keep a policy, once they are.  The runs BackupStaleId and                *)
(* BackupFileAbove show what happens otherwise.                             *)
Replaceable(p) == Children(p) # {} /\ \E s \in StatesAt[p] : s.type # "directory"
PoliciesStay ==
    \A p \in Paths : Replaceable(p) =>
        \A c, d \in Configs : MayFollow(c, d) =>
            /\ PolicyOf(c)[p] = "track" => PolicyOf(d)[p] = "track"
            /\ PolicyOf(c)[p] # "none" => PolicyOf(d)[p] # "none"

-----------------------------------------------------------------------------
(* The metadata file, the search and the metadata in memory have the shape   *)
(* the code gives them; reference counts are unsigned and never wrap.       *)
TypeOK ==
    /\ saved \in [Paths -> {None} \cup
                    [policy: Policies, history: Seq([backup: 0..MaxBackups,
                                                     state: Mixed \cup {NonExisting}])]]
    /\ backups \in Seq(Runs)
    /\ config \in Configs \cup {None}
    /\ found \in [Paths -> States \cup {None}]
    /\ place \in [Paths -> {"ahead", "inside", "behind", "missed"}]
    /\ m.hint \in [Paths -> {"none", "unchanged", "added", "removed", "wiped",
                             "replaced", "directoryReplaced", "changed"}]
    /\ m.flag \subseteq Paths
    /\ m.refs \in [Runs -> Nat]
    /\ pc \in {"idle", "search", "review"}

(* Every backup that a written point belongs to is written, under the id    *)
(* the next run resolves to the same backup: prepareNodeForWiping(),        *)
(* reassignPointToCurrent() and handlePolicyChanges() decrement a reference *)
(* count only for a point that is not going to be written.                  *)
PointsKeepTheirBackup ==
    pc = "review" =>
        \A p \in Paths : Written(p) =>
            \A i \in DOMAIN m.node[p].history :
                ReadBack(m.node[p].history[i].backup) = m.node[p].history[i].backup

(* "The amount of states in history belonging to this backup" (metadata.h:59). *)
RefCountsExact ==
    pc = "review" =>
        \A b \in Runs : m.refs[b] = CountIn(m, {p \in Paths : Written(p)}, b)

(* A run that saves has backed up every path it found, in the state and     *)
(* under the policy it was found.  Only a file with the size and timestamp  *)
(* of its last backup, which may be below a removal, keeps that content.     *)
LooksTheSame(old, state) ==
    old.type = "regular_file" /\ state.type = old.type /\ Stamp(old.data) = Stamp(state.data)
FoundIsBackedUp ==
    pc = "review" =>
        \A p \in Paths : Reported(p) /\ Policy[p] # "none" =>
            /\ Written(p)
            /\ Seen(Top(m, p)) = Seen(found[p])
            /\ \/ Top(m, p).content = found[p].content
               \/ saved[p] # None /\ LooksTheSame(LastState(saved[p].history), found[p])
            /\ m.node[p].policy = Policy[p]

(* backup-policies.h:7: the files without policy in a backup are the         *)
(* directories above backed up files, needed to restore those.              *)
NoPolicyMeansDirectory ==
    pc = "review" =>
        \A p \in Paths : Written(p) /\ m.node[p].policy = "none" => Top(m, p).type = "directory"

(* History points are strictly ordered, newest first; neighbours differ;    *)
(* the oldest one exists; only tracked paths have more than one.            *)
HistoryWellFormed ==
    \A p \in Paths : saved[p] # None =>
        LET h == saved[p].history
        IN /\ \A i \in 1 .. Len(h) - 1 : h[i].backup > h[i + 1].backup
                                         /\ h[i].state # h[i + 1].state
           /\ h[Len(h)].state # NonExisting
           /\ saved[p].policy # "track" => Len(h) = 1

(* A path that stays tracked never loses a point of its history, and a      *)
(* backup adds one at most.                                                 *)
TrackedHistoryOnlyGrows ==
    [][\A p \in Paths :
        saved[p] # None /\ saved'[p] # None
            => (saved[p].policy = "track" /\ saved'[p].policy = "track"
                    => saved[p].history \in {saved'[p].history, Tail(saved'[p].history)})]_saved

(* searchPathState(): the newest point that is not younger than a backup.   *)
StateAt(p, b) ==
    LET older == {i \in DOMAIN saved[p].history : saved[p].history[i].backup <= b}
    IN IF saved[p] = None \/ older = {} THEN NonExisting
       ELSE saved[p].history[Min(older)].state

WasFound(p, b) == IF log[b].found[p] = None THEN NonExisting ELSE log[b].found[p]
PolicyIn(b, p) == PolicyOf(log[b].config)[p]

(* README.md:102, "Keep a full history of every change": at every saved     *)
(* backup a tracked path has the state it was found in.  That is so below   *)
(* tracked directories; markAsRemovedRecursively() leaves a tracked file    *)
(* that is removed together with an untracked directory as it was.  A path  *)
(* that is ignored goes, with its history (backup.c:470).                   *)
AlwaysTracked(p) ==
    \A b \in DOMAIN log : \A q \in Trail(p) :
        PolicyIn(b, q) = "track" /\ q \notin log[b].config.ignored
TrackedHistoryIsFull ==
    \A p \in Paths : AlwaysTracked(p) =>
        \A b \in DOMAIN log : Seen(StateAt(p, b)) = Seen(WasFound(p, b))

(* README.md:101, "if a file gets removed from the system, it will also be  *)
(* removed from the backup", as long as the directory of the file is there: *)
(* below a removed directory with another policy it is kept (backup.c:315). *)
MirrorForgetsRemoved ==
    pc = "review" =>
        \A p \in Paths :
            /\ Policy[p] = "mirror" /\ ~Reported(p)
            /\ Parent[p] # Root => Reported(Parent[p]) /\ found[Parent[p]].type = "directory"
            => ~Written(p)

(* README.md:100 promises the latest version of a copied file, and a tracked *)
(* one its history: a removed path stays in the backup unless the directory  *)
(* above it is mirrored or has been replaced by something else.              *)
RemovedIsKept ==
    pc = "review" =>
        \A p \in Paths :
            /\ saved[p] # None /\ saved[p].policy \in {"copy", "track"}
            /\ Policy[p] = saved[p].policy
            /\ \A q \in Trail(p) : q \notin config.ignored
            /\ \A q \in Trail(Parent[p]) :
                 Policy[q] # "mirror" /\ (found[q] = None \/ found[q].type = "directory")
            => Written(p)
=============================================================================

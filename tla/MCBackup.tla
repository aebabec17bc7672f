------------------------------ MODULE MCBackup ------------------------------
(* Instances of Backup for TLC: a chain of directories d/e/x, or its upper  *)
(* part d/x.                                                                *)
EXTENDS MetadataFile, ChangeSummary

CONSTANTS d, e, x

(* Two paths, one below the other, or three. *)
MCParent == [p \in Paths |-> IF p = d THEN Root ELSE IF p = x /\ e \in Paths THEN e ELSE d]

File(data, content) == [type |-> "regular_file", data |-> data, content |-> content]
Directory == [type |-> "directory", data |-> 1, content |-> None]
(* Only its timestamp is another one. *)
Touched == [Directory EXCEPT !.data = 3]
Symlink == [type |-> "symlink", data |-> 1, content |-> None]

(* A file that was given away, its stamp is the one it had before. *)
GivenAway == 2
MCStamp(data) == IF data = GivenAway THEN 1 ELSE data

(* The stamp of a file changes with its timestamp.                          *)
MCDifferences(old, new) ==
    (IF MCStamp(old) # MCStamp(new) THEN {"timestamp"} ELSE {})
    \cup IF (old = GivenAway) # (new = GivenAway) THEN {"owner"} ELSE {}

MCFewStates == [p \in Paths |-> {File(1, 1), Directory}]

(* Directories may be replaced by other things; the last path is a file     *)
(* that changes with its stamp, or unnoticed.                               *)
MCFileTypes ==
    [p \in Paths |->
        IF p = x THEN {File(1, 1), File(GivenAway, 2), File(3, 2)}
        ELSE IF p = e THEN {Directory, Touched}
        ELSE {Symlink, Directory}]

(* Every assignment of policies in the config file; nothing above the       *)
(* search root has one.                                                     *)
MCPolicies == {f \in [Paths \cup {Root} -> Policies] : f[Root] = "none"}

(* A config file with at most two policies that ignores nothing, or the     *)
(* last path of the chain if it has no rule of its own.                     *)
MCConfigs ==
    {c \in [policy: MCPolicies, ignored: {{}, {x}}] :
        /\ \E p \in Paths : c.policy[p] = "none"
        /\ c.ignored = {} \/ c.policy[x] = "none"}

MCNothingIgnored == [policy: MCPolicies, ignored: {{}}]

(* The config file stays as it is, or is edited in any way. *)
MCSame(before, after) == before = after
MCAny(before, after) == TRUE

(* Edits that leave directories untracked, with a policy or without one.    *)
MCSteadyAbove(before, after) ==
    \A p \in Paths \ {x} :
        LET old == PolicyOf(before)[p]
            new == PolicyOf(after)[p]
        IN "track" \notin {old, new} /\ (old = "none" <=> new = "none")

(* The config file stays as it is, or one path that leaves directories      *)
(* untracked gets another policy: the first of the chain, or the last when  *)
(* nothing above it has one.                                                *)
MCEither(before, after) ==
    \/ before = after
    \/ /\ before.ignored = {} /\ after.ignored = {}
       /\ before.policy[e] = "none"
       /\ \E p \in {d, x} :
            /\ before.policy[p] # after.policy[p]
            /\ after.policy = [before.policy EXCEPT ![p] = after.policy[p]]
            /\ p = x => before.policy[d] = "none"
       /\ MCSteadyAbove(before, after)

(* The theorems about Backup assume PoliciesStay; it holds in the instance  *)
(* with three paths.  The two with d and x only are about what happens when *)
(* it does not.                                                             *)
ASSUME PoliciesAssumption == e \in Paths => PoliciesStay
=============================================================================

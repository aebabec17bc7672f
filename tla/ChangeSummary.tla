---------------------------- MODULE ChangeSummary ----------------------------
(***************************************************************************)
(* informations.c: what the user is shown of a backup before it is made,    *)
(* printMetadataChanges().  A line is printed for a path, possibly with     *)
(* numbers of changes below it; here the sets of paths stand for numbers.   *)
(* Any set of directories may match the summarize expressions.              *)
(***************************************************************************)
EXTENDS Backup

(* getExistingState() *)
Existing(p) == LastState(m.node[p].history)

(* addNode(): the counter a path belongs to. *)
Class(p) ==
    IF m.hint[p] = "added" THEN "new"
    ELSE IF m.hint[p] = "removed" THEN "removed"
    ELSE IF m.hint[p] = "wiped" THEN "lost"
    ELSE IF "content" \in Changed(p) THEN "changed"
    ELSE IF Noted(p) /\ ~Minor(p) THEN "other" ELSE "none"

AffectsParent(p) ==
    \/ Class(p) \in {"new", "removed", "changed"}
    \/ Class(p) = "lost" /\ m.node[p].policy = "mirror" /\ p \notin m.flag
    \/ m.hint[p] \in {"replaced", "directoryReplaced"}

(* containsChanges() of what is below a path. *)
ChangesBelow(p) == \E q \in Below(p) : Exists(m, q) /\ Class(q) # "none"

(* recursePrintOverTree(): the directories that match an expression first   *)
(* on the way down.                                                         *)
Summarizes(S, p) ==
    LET matching == {q \in S : /\ Exists(m, q) /\ m.node[q].policy # "none"
                               /\ Existing(q).type = "directory"}
    IN Ancestors[p] \cap matching = {p}

Listed(p) ==
    /\ Noted(p)
    /\ m.node[p].policy = "none" => ~Minor(p) /\ (m.hint[p] = "added" => p \in m.flag)

(* Whether the list that a path is in gets printed: below a line it is, if  *)
(* the path of the line has changed in place.                               *)
Printing(S) ==
    LET printing[p \in Paths] ==
            \/ Parent[p] = Root
            \/ LET q == Parent[p]
               IN printing[q] /\ ~Summarizes(S, q) /\ (Listed(q) => Changed(q) # {})
    IN printing

(* Mutant: a summary is printed for directories that have changed only. *)
Printed_NotedOnly(S, p) ==
    Exists(m, p) /\ Printing(S)[p] /\ IF Summarizes(S, p) THEN Noted(p) ELSE Listed(p)

Printed(S, p) ==
    /\ Exists(m, p) /\ Printing(S)[p]
    /\ IF Summarizes(S, p) THEN Noted(p) \/ ChangesBelow(p)
       ELSE /\ Listed(p)
            /\ p \notin m.flag /\ Changed(p) = {"timestamp"}
               => ~\E q \in Children(p) : Exists(m, q) /\ AffectsParent(q)

(* printNode(): the counters below p that the line of p shows.              *)
CountedIn(S, p) ==
    IF Existing(p).type # "directory"
    THEN IF m.hint[p] = "directoryReplaced" THEN {"removed", "lost"} ELSE {}
    ELSE CASE m.hint[p] \in {"added", "replaced"} -> {"new"}
           [] m.hint[p] = "removed"               -> {"removed"}
           [] m.hint[p] = "wiped"                 -> {"lost"}
           [] OTHER -> IF Summarizes(S, p) THEN {"new", "removed", "lost", "changed"} ELSE {}

-----------------------------------------------------------------------------
(* The repository keeps the last state of a path that the last backup did   *)
(* not find, together with a directory above it.                            *)
GoneBefore(p) ==
    \E q \in Ancestors[p] \ {p, Root} :
        saved[q] # None /\ Head(saved[q].history).state.type # "directory"

(* README.md:6, "The first thing nano-backup shows you when you do a backup, *)
(* is what has changed": every file that is added, changed, removed or lost *)
(* has a line of its own or is counted in the line of a directory above.    *)
(* Below a path whose policy changes too, and below a directory without     *)
(* policy in whose place there is a file, recursePrintOverTree() stops at   *)
(* that path, and printNode() has no number for what is below.  Nor has it  *)
(* one for what is missing or changed below a directory that is added: if   *)
(* a path went before, together with a directory above it, only its being   *)
(* added again needs a line.                                                *)
ChangesAreShown ==
    pc = "review" =>
        \A S \in SUBSET {q \in Paths : Exists(m, q) /\ Existing(q).type = "directory"} :
        \A p \in Paths :
            Exists(m, p) /\ m.node[p].policy # "none"
              /\ Class(p) \notin {"none", "other"}
              /\ (GoneBefore(p) => Class(p) = "new") =>
                \/ Printed(S, p)
                \/ \E q \in Ancestors[p] \ {p, Root} :
                     /\ Printed(S, q)
                     /\ \/ Class(p) \in CountedIn(S, q)
                        \/ q \in m.flag
                        \/ m.hint[q] = "directoryReplaced" /\ m.node[q].policy = "none"

(* backup() in nb.c ends without a word if containsChanges() says no: then  *)
(* the metadata in the repository has every path as it was found, under the *)
(* policy it has now, and no path that a backup would take away.            *)
NothingToSaveIsNothing ==
    pc = "review" /\ ~ContainsChanges =>
        \A p \in Paths :
            /\ Written(p) <=> saved[p] # None
            /\ Reported(p) /\ Policy[p] # "none" =>
                 /\ Seen(found[p]) = Seen(Head(saved[p].history).state)
                 /\ Policy[p] = saved[p].policy
=============================================================================

------------------------------- MODULE Search -------------------------------
(***************************************************************************)
(* search.c: an iterator walks over the file system along the search tree.  *)
(* Where only configured names matter it tries them one by one; elsewhere   *)
(* it reads the directory and matches what it finds.  The state of every    *)
(* directory above is kept on a stack, and the path of the current file is  *)
(* cut back to the length stored there.                                     *)
(*                                                                         *)
(* The file system may change while it is read.  fs tells what is found at  *)
(* a path, through any link above it; opening a directory fails if it is    *)
(* not there, and a stream may or may not report what has changed since.    *)
(***************************************************************************)
EXTENDS SearchTree

CONSTANTS
    FsPaths,         \* paths that may exist, sequences of names
    FileSystems,     \* what the search may start with: kinds by path
    RegexMatches,    \* the names each of Regexes matches
    StackCapacity,   \* 4 in searchNew()
    StateSize        \* sizeof(DirSearchState)

ASSUME SearchAssumption ==
    /\ FsPaths \subseteq Seq(STRING) \ {<<>>}
    /\ \A p \in FsPaths : Up(p) \in FsPaths \cup {RootNode}
    /\ RegexMatches \in [Regexes -> SUBSET STRING]
    /\ StackCapacity \in Nat \ {0} /\ StateSize \in Nat \ {0}

VARIABLES
    fs, touched,                   \* paths that have changed during the search
    search,                        \* "none", "next", "stat", "open", "ended", "died"
    state, stack, stackCapacity,   \* SearchIterator
    current_path,
    step,                          \* node and policy of the path in hand
    search_match,                  \* what was found, by node
    found,                         \* the results, by path; a history variable
    place, trail                   \* the walk the caller sees

searchVars == <<fs, touched, search, state, stack, stackCapacity, current_path, step,
                search_match, found, place, trail>>
iterator == <<state, stack, stackCapacity, current_path, step>>
results == <<search_match, found, place, trail>>

NoNode == Null
Kinds == {"none", "file", "directory", "fileLink", "directoryLink", "dangling", "other"}
KindAt(p) == IF p \in FsPaths THEN fs[p] ELSE "none"
IsTree(f) == \A p \in FsPaths : f[p] # "none" /\ Len(p) > 1 =>
                 f[Up(p)] \in {"directory", "directoryLink"}
FileTypes == {"regular_file", "directory", "symlink", "other"}
ASSUME ResultAssumption ==
    Null \notin [type : FileTypes, node : Keys \cup {Null},
                 policy : {"none"} \cup {l.policy : l \in Lines}]
ASSUME FilesAssumption == \A f \in FileSystems : f \in [FsPaths -> Kinds] /\ IsTree(f)

NamesIn(f, p) == {Last(q) : q \in {r \in FsPaths : Up(r) = p /\ f[r] # "none"}}

Children(q) ==
    IF q = NoNode THEN <<>>
    ELSE [i \in DOMAIN nodes[q].subnodes |-> Append(q, nodes[q].subnodes[i])]

NodeMatches(q, name) ==
    IF Last(q) \in Regexes THEN name \in RegexMatches[Last(q)] ELSE Last(q) = name

(* Mutant: every link is followed. *)
Follows_Any(q) == TRUE
(* lstat(), or stat() for nodes with subnodes. *)
Follows(q) == Children(q) # <<>>
Stat(kind, follow) ==
    CASE kind = "file" -> "regular_file"
      [] kind = "directory" -> "directory"
      [] kind = "other" -> "other"
      [] kind = "fileLink" /\ follow -> "regular_file"
      [] kind = "directoryLink" /\ follow -> "directory"
      [] kind = "none" \/ (kind = "dangling" /\ follow) -> "error"
      [] OTHER -> "symlink"

SearchInit ==
    /\ ParserInit
    /\ fs = [p \in FsPaths |-> "none"] /\ touched = {}
    /\ search = "none"
    /\ state = Null /\ stack = <<>> /\ stackCapacity = StackCapacity
    /\ current_path = <<>> /\ step = Null
    /\ search_match = <<>>
    /\ found = [p \in FsPaths |-> Null]
    /\ place = [p \in FsPaths |-> "ahead"] /\ trail = <<>>

-----------------------------------------------------------------------------
(* recursionStepRaw(): the state for a directory; must and may are the      *)
(* names its stream still has to return, or may return.                     *)
IsDirect(q) == q # NoNode /\ nodes[q].policy = "none" /\ ~nodes[q].regexBelow

DirectoryState(p, q, policy) ==
    [direct |-> IsDirect(q), path_length |-> Len(p), subnodes |-> Children(q),
     fallback |-> IF IsDirect(q) THEN "none" ELSE policy,
     must |-> IF IsDirect(q) THEN {} ELSE NamesIn(fs, p), may |-> {}]

(* searchNew(); the tree is all that is left of the config file. *)
StartSearch ==
    /\ parser = "parsed"
    /\ parser' = "searching" /\ read' = <<>> /\ section' = "none" /\ target' = RootNode
    /\ fs' \in FileSystems
    /\ search' = "next"
    /\ state' = [direct |-> IsDirect(RootNode), path_length |-> 0,
                 subnodes |-> Children(RootNode), fallback |-> nodes[RootNode].policy,
                 must |-> IF IsDirect(RootNode) THEN {} ELSE NamesIn(fs', RootNode), may |-> {}]
    /\ search_match' = [q \in DOMAIN nodes |-> {}]
    /\ UNCHANGED <<nodes, ignored, tableVars, touched, stack, stackCapacity, current_path,
                   step, found, place, trail>>

AtNext == search = "next" /\ UNCHANGED <<fs, touched, parserVars, tableVars>>

(* Mutant: the name is appended to the last path, not to the directory. *)
Replaced_NotCut(name) == Append(current_path, name)
(* replaceCurrentFilename() *)
Replaced(name) == Append(SubSeq(current_path, 1, state.path_length), name)

(* The next path is looked at, or skipped. *)
Examine(p, q, policy) ==
    /\ current_path' = p /\ step' = [node |-> q, policy |-> policy]
    /\ search' = "stat"
    /\ UNCHANGED <<stack, stackCapacity, results>>
Skip(p) ==
    /\ current_path' = p
    /\ UNCHANGED <<search, stack, stackCapacity, step, results>>
DieAt(p) ==
    /\ current_path' = p /\ search' = "died"
    /\ UNCHANGED <<stack, stackCapacity, step, results>>

Matching(name) == {q \in Range(state.subnodes) : NodeMatches(q, name)}

(* finishSearchStep(): the stream returns a name. *)
ReadEntry(name) ==
    /\ AtNext /\ ~state.direct /\ name \in state.must \cup state.may
    /\ state' = [state EXCEPT !.must = @ \ {name}, !.may = @ \ {name}]

AmbiguousEntry(name) ==
    ReadEntry(name) /\ Cardinality(Matching(name)) > 1 /\ DieAt(Replaced(name))

MatchedEntry(name) ==
    /\ ReadEntry(name)
    /\ \E q \in Matching(name) :
         Matching(name) = {q} /\ Examine(Replaced(name), q, nodes[q].policy)

IsSkipped(p) == state.fallback = "none" \/ p \in ignored

SkippedEntry(name) ==
    /\ ReadEntry(name) /\ Matching(name) = {}
    /\ IsSkipped(Replaced(name)) /\ Skip(Replaced(name))

FallbackEntry(name) ==
    /\ ReadEntry(name) /\ Matching(name) = {}
    /\ ~IsSkipped(Replaced(name)) /\ Examine(Replaced(name), NoNode, state.fallback)

(* finishCurrentNode(): sPathExists() ends the program (ENOTDIR) if a file  *)
(* is in the way of the path.  The search does not go below a file, so it   *)
(* must have taken the place of a directory since that was stat'ed.         *)
InTheWay(p) == \E q \in Prefixes(p) \ {<<>>, p} : KindAt(q) \in {"file", "fileLink", "other"}

(* Mutant: the list goes on after a node that exists only. *)
Remaining_Stuck(p) == IF KindAt(p) = "none" THEN state.subnodes ELSE Tail(state.subnodes)
Remaining(p) == Tail(state.subnodes)

TryNode ==
    /\ AtNext /\ state.direct /\ state.subnodes # <<>>
    /\ state' = [state EXCEPT !.subnodes = Remaining(Replaced(Last(Head(@))))]
    /\ LET q == Head(state.subnodes)
           p == Replaced(Last(q))
       IN IF KindAt(p) # "none" THEN Examine(p, q, nodes[q].policy)
          ELSE IF InTheWay(p) THEN DieAt(p) ELSE Skip(p)

(* finishDirectory() *)
EndOfDirectory ==
    /\ AtNext
    /\ IF state.direct THEN state.subnodes = <<>> ELSE state.must = {}
    /\ IF stack = <<>>
       THEN search' = "ended" /\ UNCHANGED <<iterator, results>>
       ELSE /\ state' = Last(stack) /\ stack' = Front(stack)
            /\ place' = [place EXCEPT ![trail] = "behind"] /\ trail' = Up(trail)
            /\ UNCHANGED <<search, stackCapacity, current_path, step, search_match, found>>

-----------------------------------------------------------------------------
(* finishNodeStep(): the type is asked for, and a directory is opened.      *)
Type == Stat(KindAt(current_path), Follows(step.node))

(* Mutant: a node remembers the last match only. *)
Match_Last(q, type) ==
    IF q = NoNode THEN search_match ELSE [search_match EXCEPT ![q] = {type}]
Match(q, type) ==
    IF q = NoNode THEN search_match ELSE [search_match EXCEPT ![q] = @ \cup {type}]

Report(type) ==
    found' = [found EXCEPT ![current_path] =
                 [type |-> type, node |-> step.node, policy |-> step.policy]]

StatFails ==
    /\ search = "stat" /\ Type = "error"
    /\ search' = "died"
    /\ UNCHANGED <<fs, touched, parserVars, tableVars, iterator, results>>

FoundFile ==
    /\ search = "stat" /\ Type \notin {"error", "directory"}
    /\ search' = "next"
    /\ search_match' = Match(step.node, Type)
    /\ Report(Type)
    /\ place' = [place EXCEPT ![current_path] = "behind"]
    /\ UNCHANGED <<fs, touched, parserVars, tableVars, iterator, trail>>

FoundDirectory ==
    /\ search = "stat" /\ Type = "directory"
    /\ search' = "open"
    /\ search_match' = Match(step.node, Type)
    /\ UNCHANGED <<fs, touched, parserVars, tableVars, iterator, found, place, trail>>

(* pushCurrentState() *)
StackFull == Len(stack) = stackCapacity
StackOverflows ==
    StackFull /\ \/ MulDies(stackCapacity, 2, SizeMax)
                 \/ MulDies(StateSize, Mul(stackCapacity, 2, SizeMax), SizeMax)

CannotOpen ==
    ~IsDirect(step.node) /\ KindAt(current_path) \notin {"directory", "directoryLink"}

OpenFails ==
    /\ search = "open" /\ (StackOverflows \/ CannotOpen)
    /\ search' = "died"
    /\ UNCHANGED <<fs, touched, parserVars, tableVars, iterator, results>>

(* Mutant: the policy of the directory above is used for what has no rule. *)
Opened_FallbackAbove ==
    [DirectoryState(current_path, step.node, step.policy) EXCEPT !.fallback = state.fallback]
Opened == DirectoryState(current_path, step.node, step.policy)

OpenDirectory ==
    /\ search = "open" /\ ~StackOverflows /\ ~CannotOpen
    /\ search' = "next"
    /\ stack' = Append(stack, state)
    /\ stackCapacity' = IF StackFull THEN 2 * stackCapacity ELSE stackCapacity
    /\ state' = Opened
    /\ Report("directory")
    /\ place' = [place EXCEPT ![current_path] = "inside"] /\ trail' = current_path
    /\ UNCHANGED <<fs, touched, parserVars, tableVars, current_path, step, search_match>>

-----------------------------------------------------------------------------
(* Another program removes, creates or replaces a file or directory while   *)
(* the search runs; bound: once.                                            *)
AfterChange(p, kind) ==
    [q \in FsPaths |->
        IF q = p THEN kind
        ELSE IF Above(p, q) /\ kind \notin {"directory", "directoryLink"} THEN "none"
        ELSE fs[q]]

(* A stream of the directory may return what has changed in it. *)
StreamAfter(s, dir, p) ==
    IF s.direct THEN s
    ELSE IF dir = Up(p)
    THEN [s EXCEPT !.must = @ \ {Last(p)},
                   !.may = IF Last(p) \in s.must \/ fs[p] = "none" THEN @ \cup {Last(p)} ELSE @]
    ELSE IF IsPrefix(p, dir) THEN [s EXCEPT !.must = {}, !.may = @ \cup s.must]
    ELSE s

Interfere(p, kind) ==
    /\ search \in {"next", "stat", "open"} /\ touched = {}
    /\ kind # fs[p]
    /\ fs' = AfterChange(p, kind) /\ IsTree(fs')
    /\ touched' = {q \in FsPaths : IsPrefix(p, q)}
    /\ state' = StreamAfter(state, trail, p)
    /\ stack' = [i \in DOMAIN stack |-> StreamAfter(stack[i], SubSeq(trail, 1, i - 1), p)]
    /\ UNCHANGED <<search, stackCapacity, current_path, step, results, parserVars, tableVars>>

-----------------------------------------------------------------------------
SearchStep ==
    \/ TryNode \/ EndOfDirectory
    \/ StatFails \/ FoundFile \/ FoundDirectory \/ OpenFails \/ OpenDirectory
    \/ \E name \in {Last(p) : p \in FsPaths} :
         AmbiguousEntry(name) \/ MatchedEntry(name) \/ SkippedEntry(name) \/ FallbackEntry(name)

SearchNext ==
    \/ ParserNext /\ UNCHANGED searchVars
    \/ StartSearch
    \/ SearchStep
    \/ \E p \in FsPaths, kind \in Kinds : Interfere(p, kind)

allVars == <<searchVars, parserVars, tableVars>>

(* The caller asks for results until the search has ended. *)
SearchSpec == SearchInit /\ [][SearchNext]_allVars /\ WF_allVars(SearchStep)

-----------------------------------------------------------------------------
(* What a search tree says of a path in a directory about which it says     *)
(* above, and of a file system, directory by directory.                     *)
Own(above, p) == {q \in Range(Children(above.node)) : NodeMatches(q, Last(p))}
IsSeen(above, p) == above.type = "directory" /\ fs[p] # "none"
IsWanted(above, p) == Own(above, p) # {} \/ (above.policy # "none" /\ p \notin ignored)

ExpectedIn(above, p) ==
    LET own == Own(above, p)
        node == IF own = {} THEN NoNode ELSE CHOOSE q \in own : TRUE
        leadsOn == \E r \in DOMAIN nodes : node # NoNode /\ Above(node, r)
    IN [node |-> node,
        policy |-> IF own = {} THEN above.policy ELSE nodes[node].policy,
        type |-> IF IsSeen(above, p) /\ IsWanted(above, p) THEN Stat(fs[p], leadsOn) ELSE "none",
        ambiguous |-> IsSeen(above, p) /\ Cardinality(own) > 1]
ExpectedRoot ==
    [node |-> RootNode, policy |-> nodes[RootNode].policy, type |-> "directory",
     ambiguous |-> FALSE]

Expected ==
    LET at[p \in FsPaths \cup {RootNode}] ==
            IF p = RootNode THEN ExpectedRoot ELSE ExpectedIn(at[Up(p)], p)
    IN at

(* The arrays of the iterator fit, the table underneath is well-formed, and  *)
(* the results of the search and the stack of states tell of one directory. *)
SearchTypeOK ==
    /\ TableTypeOK
    /\ DOMAIN nodes \subseteq Keys
    /\ fs \in [FsPaths -> Kinds] /\ IsTree(fs) /\ touched \subseteq FsPaths
    /\ search \in {"none", "next", "stat", "open", "ended", "died"}
    /\ Len(stack) <= stackCapacity /\ Len(stack) = Len(trail)
    /\ place \in [FsPaths -> {"ahead", "inside", "behind"}]

(* The results come in the order initiateBackup() relies on, though they    *)
(* are read from streams and from lists of nodes in turn, and whatever      *)
(* happens to the files meanwhile.                                          *)
TheWalk == INSTANCE Walk WITH Paths <- FsPaths, done <- search = "ended"
SearchIsWalk == TheWalk!Spec

(* A search that ends has reported every path the config file asks for, and *)
(* no other, with its node and its policy, unless that very path or a       *)
(* directory above it has changed meanwhile.                                *)
SearchIsComplete ==
    search = "ended" =>
        \A p \in FsPaths \ touched :
            LET e == Expected[p]
            IN found[p] = IF e.type = "none" THEN Null
                          ELSE [type |-> e.type, node |-> e.node, policy |-> e.policy]

(* It dies for ambiguous rules, for a link to nowhere in place of a         *)
(* configured directory, or because the files have changed.                 *)
DiesForAReason ==
    LET reason == \E p \in FsPaths : Expected[p].ambiguous \/ Expected[p].type = "error"
    IN /\ search = "died" => touched # {} \/ StackOverflows \/ reason
       /\ search = "ended" /\ touched = {} => ~reason

(* printSearchNodeInfos(): the warning about a node, given if everything    *)
(* above it has matched directories.                                        *)
Warning(q) ==
    LET types == search_match[q]
    IN IF \E r \in DOMAIN nodes \ {RootNode} : Above(r, q) /\ "directory" \notin search_match[r]
       THEN "none"
       ELSE IF types = {} THEN "never matched"
       ELSE IF ~Follows(q) \/ types = {"directory"} THEN "none"
       ELSE IF "directory" \in types THEN "not only directories" ELSE "not a directory"

(* The user is told about every entry of the config file that no file was   *)
(* found for, at the entry or at one above it, and about no other.          *)
UnmatchedIsWarnedAbout ==
    search = "ended" =>
        \A q \in DOMAIN nodes \ {RootNode} :
            LET types == {found[p].type :
                             p \in {r \in FsPaths : found[r] # Null /\ found[r].node = q}}
            IN /\ types = {} <=>
                    \E r \in DOMAIN nodes \ {RootNode} :
                        \/ IsPrefix(r, q) /\ Warning(r) = "never matched"
                        \/ Above(r, q) /\ Warning(r) = "not a directory"
               /\ Warning(q) = "not only directories" <=>
                    Follows(q) /\ "directory" \in types /\ types # {"directory"}

(* Every search ends, or dies. *)
SearchEnds == search = "next" ~> search \in {"ended", "died"}
=============================================================================

----------------------------- MODULE FoundProofs -----------------------------
(* What a search finds, for any config file and any file system, whatever   *)
(* changes in it meanwhile: all that the config file asks for, no more, and *)
(* the warnings after it are right.                                         *)
EXTENDS SearchProofs, FiniteSetTheorems, WellFoundedInduction

-----------------------------------------------------------------------------
(* Nodes that have subnodes: in whatever way a node was made, the nodes     *)
(* above it are there, and none of them has an empty list.                  *)
BelowInv ==
    /\ \A p \in DOMAIN nodes, q \in Seq(STRING) : IsPrefix(q, p) => q \in DOMAIN nodes
    /\ \A p \in DOMAIN nodes \ {RootNode} : nodes[Up(p)].subnodes # <<>>

(* A new node is put in the list of the node above it.                      *)
LEMMA NewNodeBelow ==
    ASSUME TableInv, TreeInv, BelowInv, NEW p \in Keys, NewNode(p)
    PROVE BelowInv'
<1>1. /\ p \in Seq(STRING) /\ p # <<>> /\ p \notin DOMAIN nodes
      /\ Up(p) \in Seq(STRING) /\ Last(p) \in STRING /\ Up(p) # p /\ Up(p) \in DOMAIN nodes
      /\ DOMAIN nodes' = DOMAIN nodes \cup {p}
      /\ nodes'[Up(p)] = WithSubnode(nodes[Up(p)], Last(p))
      /\ \A q \in DOMAIN nodes \ {Up(p)} : nodes'[q] = nodes[q]
    BY NewNodeFacts
<1>2. nodes'[Up(p)].subnodes # <<>>
    <2>1. nodes[Up(p)] \in Node
        BY <1>1 DEF TreeInv, NodesType
    <2>2. nodes'[Up(p)].subnodes = <<Last(p)>> \o nodes[Up(p)].subnodes
        BY <1>1, <2>1, WithSubnodeFacts
    <2>3. nodes[Up(p)].subnodes \in Seq(STRING)
        BY <2>1 DEF Node
    <2> QED BY <1>1, <2>2, <2>3
<1>3. ASSUME NEW q \in DOMAIN nodes' \ {RootNode} PROVE nodes'[Up(q)].subnodes # <<>>
    <2>1. CASE Up(q) = Up(p)
        BY <1>2, <2>1
    <2>2. CASE Up(q) # Up(p)
        <3>1. q \in DOMAIN nodes /\ q # <<>> /\ q \in Seq(STRING)
            BY <1>1, <1>3, <2>2, TreeAssumption DEF TreeInv, NodesType, RootNode
        <3>2. Up(q) \in DOMAIN nodes
            BY <3>1, UpFacts DEF BelowInv
        <3> QED BY <1>1, <1>3, <2>2, <3>1, <3>2 DEF BelowInv
    <2> QED BY <2>1, <2>2
<1>4. ASSUME NEW q \in Seq(STRING), IsPrefix(q, p) PROVE q \in DOMAIN nodes'
    BY <1>1, <1>4, UpFacts DEF BelowInv
<1> QED BY <1>1, <1>3, <1>4 DEF BelowInv

(* Every step of the parser keeps the nodes that are there.                 *)
LEMMA NextBelow ==
    ASSUME TableInv, NothingYet, TreeInv, BelowInv, [SearchNext]_allVars
    PROVE BelowInv'
<1>1. CASE \E p \in Keys : NewNode(p)
    BY <1>1, NewNodeBelow
<1>2. CASE Define
    <2>1. /\ DOMAIN nodes' = DOMAIN nodes
          /\ \A q \in DOMAIN nodes : nodes'[q].subnodes = nodes[q].subnodes
        <3>1. ASSUME NEW q \in DOMAIN nodes PROVE nodes'[q].subnodes = nodes[q].subnodes
            <4>1. nodes[q] \in Node
                BY DEF TreeInv, NodesType
            <4> QED BY <1>2, <4>1 DEF Define, Node
        <3> QED BY <1>2, <3>1 DEF Define
    <2>2. ASSUME NEW q \in DOMAIN nodes \ {RootNode} PROVE Up(q) \in DOMAIN nodes
        <3>1. q \in Seq(STRING) /\ q # <<>>
            BY TreeAssumption DEF TreeInv, NodesType, RootNode
        <3> QED BY <3>1, UpFacts DEF BelowInv
    <2> QED BY <2>1, <2>2 DEF BelowInv
<1>3. CASE MakeRoot
    <2>1. DOMAIN nodes' = {RootNode}
        BY <1>3 DEF MakeRoot
    <2>2. ASSUME NEW q \in Seq(STRING), IsPrefix(q, RootNode) PROVE q = RootNode
        <3>1. <<>> \in Seq(STRING)
            OBVIOUS
        <3>2. IsPrefix(<<>>, q)
            BY PrefixOrder
        <3> QED BY <2>2, <3>1, <3>2, PrefixOrder DEF RootNode
    <2> QED BY <2>1, <2>2 DEF BelowInv
<1>4. CASE UNCHANGED nodes
    BY <1>4 DEF BelowInv
<1>5. ASSUME ParserNext PROVE BelowInv'
    <2>1. \/ MakeRoot \/ Define \/ (\E p \in Keys : NewNode(p)) \/ UNCHANGED nodes
        BY <1>5 DEF ParserNext, TableWorks, EndOfConfig, ParseLine, SkipLine, StartSection,
                    BadSection, Expression, BadPath, Redefine, PathLine, AtLine, BadNode, Die,
                    parserVars
    <2> QED BY <1>1, <1>2, <1>3, <1>4, <2>1
<1>6. CASE StartSearch
    BY <1>4, <1>6 DEF StartSearch
<1>7. CASE SearchStep \/ \E p \in FsPaths, kind \in Kinds : Interfere(p, kind)
    <2>1. UNCHANGED <<parserVars, tableVars>>
        BY <1>7, SearchKeepsTable
    <2> QED BY <1>4, <2>1 DEF parserVars
<1>8. CASE UNCHANGED allVars
    BY <1>4, <1>8 DEF allVars, parserVars
<1> QED BY <1>5, <1>6, <1>7, <1>8 DEF SearchNext

(* A node above another one has a list of subnodes, and is followed.        *)
LEMMA AboveIsFollowed ==
    ASSUME TreeInv, BelowInv, NEW q \in DOMAIN nodes, NEW r \in DOMAIN nodes, Above(r, q)
    PROVE Follows(r)
<1>1. q \in Seq(STRING) /\ r \in Seq(STRING) /\ r # NoNode
    BY TreeAssumption, TableAssumption DEF TreeInv, NodesType, NoNode
<1>2. Len(r) <= Len(q) /\ (\A i \in 1 .. Len(r) : r[i] = q[i]) /\ r # q
    BY <1>1, PrefixFacts DEF Above
<1>3. Len(r) \in Nat /\ Len(q) \in Nat /\ Len(r) < Len(q)
    BY <1>1, <1>2, SeqEqual
<1> DEFINE n == Len(r) + 1
           c == SubSeq(q, 1, n)
<1>4. /\ c \in Seq(STRING) /\ Len(c) = n /\ n \in 0 .. Len(q)
      /\ \A i \in 1 .. n : c[i] = q[i]
    BY <1>1, <1>3, CutFacts
<1> HIDE DEF c
<1>5. c \in DOMAIN nodes /\ c # <<>>
    <2>1. IsPrefix(c, q)
        BY <1>1, <1>3, <1>4, PrefixFacts
    <2> QED BY <1>3, <1>4, <2>1 DEF BelowInv
<1>6. Up(c) = r
    <2>1. /\ Up(c) \in Seq(STRING) /\ Len(Up(c)) = Len(r)
          /\ \A i \in 1 .. Len(r) : Up(c)[i] = c[i]
        BY <1>3, <1>4, <1>5, FrontFacts DEF Up
    <2>2. \A i \in 1 .. Len(r) : Up(c)[i] = r[i]
        BY <1>2, <1>3, <1>4, <2>1
    <2> QED BY <1>1, <2>1, <2>2, SeqEqual
<1>7. nodes[r].subnodes # <<>> /\ nodes[r].subnodes \in Seq(STRING)
    BY <1>5, <1>6 DEF BelowInv, TreeInv, NodesType, Node, RootNode
<1>8. Children(r) # <<>>
    <2>1. Children(r) = [i \in DOMAIN nodes[r].subnodes |-> Append(r, nodes[r].subnodes[i])]
        BY <1>1 DEF Children
    <2>2. 1 \in DOMAIN nodes[r].subnodes
        BY <1>7
    <2>3. 1 \in DOMAIN Children(r) /\ 1 \notin DOMAIN <<>>
        BY <2>1, <2>2
    <2> QED BY <2>3
<1> QED BY <1>8 DEF Follows

-----------------------------------------------------------------------------
(* What the nodes remember is what was found for them; a directory that is  *)
(* being opened is remembered already.                                      *)
TypesFound(q) == {found[p].type : p \in {r \in FsPaths : found[r] # Null /\ found[r].node = q}}
Opening(q) == search = "open" /\ step.node = q

(* Whatever lies above a node that is tried has matched a directory.        *)
SeenAbove(q, match) ==
    \A r \in DOMAIN nodes \ {RootNode} : Above(r, q) => "directory" \in match[r]

Matched ==
    /\ DOMAIN search_match = DOMAIN nodes
    /\ \A q \in DOMAIN nodes :
          /\ search_match[q] = TypesFound(q) \cup (IF Opening(q) THEN {"directory"} ELSE {})
          /\ search_match[q] # {} => SeenAbove(q, search_match)

Tried(s, match) == \A i \in 1 .. Len(s.subnodes) : SeenAbove(s.subnodes[i], match)

Trying ==
    /\ Tried(state, search_match)
    /\ \A i \in 1 .. Len(stack) : Tried(stack[i], search_match)
    /\ search \in {"stat", "open"} /\ step.node # NoNode => SeenAbove(step.node, search_match)

MatchInv ==
    /\ DOMAIN found = FsPaths /\ \A p \in Ahead : found[p] = Null
    /\ search \in {"next", "stat", "open", "ended"} => Matched
    /\ search \in {"next", "stat", "open"} => Trying

(* A node is known by its path.                                             *)
LEMMA NodeFacts ==
    ASSUME TreeInv, NEW q \in DOMAIN nodes
    PROVE q \in Seq(STRING) /\ q # NoNode /\ q \in Keys
BY TreeAssumption, TableAssumption DEF TreeInv, NodesType, NoNode

(* What lies above the subnodes of a directory that has matched.            *)
LEMMA ChildrenSeen ==
    ASSUME TreeInv, NEW q \in DOMAIN nodes \cup {NoNode}, NEW match,
           q # NoNode => SeenAbove(q, match) /\ (q = RootNode \/ "directory" \in match[q])
    PROVE \A i \in 1 .. Len(Children(q)) : SeenAbove(Children(q)[i], match)
<1>1. CASE q = NoNode
    <2>1. Children(q) = <<>> /\ Len(<<>>) = 0 /\ 1 .. 0 = {}
        BY <1>1 DEF Children
    <2> QED BY <2>1
<1>2. CASE q # NoNode
    <2> DEFINE names == nodes[q].subnodes
    <2>1. q \in DOMAIN nodes /\ q \in Seq(STRING)
        BY <1>2, NodeFacts
    <2>2. names \in Seq(STRING)
        BY <2>1 DEF TreeInv, NodesType, Node
    <2>3. Children(q) = [i \in 1 .. Len(names) |-> Append(q, names[i])]
        BY <1>2, <2>1, <2>2 DEF Children
    <2>4. Children(q) \in Seq(Seq(STRING) \ {<<>>})
        BY ChildrenFacts
    <2> HIDE DEF names
    <2> SUFFICES ASSUME NEW i \in 1 .. Len(Children(q)) PROVE SeenAbove(Children(q)[i], match)
        OBVIOUS
    <2>5. i \in 1 .. Len(names)
        <3>1. DOMAIN Children(q) = 1 .. Len(Children(q))
            BY <2>4
        <3> QED BY <2>3, <3>1
    <2>6. Children(q)[i] = Append(q, names[i]) /\ names[i] \in STRING
        BY <2>2, <2>3, <2>5
    <2>7. /\ Append(q, names[i]) \in Seq(STRING) /\ Append(q, names[i]) # <<>>
          /\ Up(Append(q, names[i])) = q
        BY <2>1, <2>6, AppendFacts DEF Up
    <2>8. ASSUME NEW r \in DOMAIN nodes \ {RootNode}, Above(r, Append(q, names[i]))
          PROVE "directory" \in match[r]
        <3>1. r \in Seq(STRING)
            BY <2>8, NodeFacts
        <3> DEFINE p == Append(q, names[i])
        <3>2. p \in Seq(STRING) /\ p # <<>> /\ Up(p) = q /\ IsPrefix(r, p) /\ r # p
            BY <2>7, <2>8 DEF Above
        <3> HIDE DEF p
        <3>3. IsPrefix(r, q)
            BY <3>1, <3>2, UpFacts
        <3> QED BY <1>2, <2>1, <2>8, <3>3 DEF SeenAbove, Above
    <2> QED BY <2>6, <2>8 DEF SeenAbove
<1> QED BY <1>1, <1>2

(* Looking for the next path finds nothing.                                 *)
LEMMA NothingFound ==
    ASSUME Matched, search # "open", search' # "open", UNCHANGED <<nodes, found, search_match>>
    PROVE Matched'
<1>1. ASSUME NEW q PROVE ~Opening(q) /\ ~Opening(q)' /\ TypesFound(q)' = TypesFound(q)
    BY DEF Opening, TypesFound
<1> QED BY <1>1 DEF Matched, SeenAbove

(* One more result.                                                         *)
LEMMA OneMoreFound ==
    ASSUME MatchInv, TreeInv, InHand, NEW type \in FileTypes, Report(type)
    PROVE /\ DOMAIN found' = FsPaths
          /\ \A p \in FsPaths \ {current_path} : found'[p] = found[p]
          /\ \A q \in DOMAIN nodes :
                TypesFound(q)' = TypesFound(q) \cup (IF step.node = q THEN {type} ELSE {})
<1> DEFINE result == [type |-> type, node |-> step.node, policy |-> step.policy]
<1>1. /\ current_path \in FsPaths /\ found[current_path] = Null /\ DOMAIN found = FsPaths
    BY DEF InHand, Ahead, MatchInv
<1>2. result # Null
    <2>1. step.node \in Keys \cup {Null} /\ step.policy \in Given
        BY NodeFacts DEF InHand, NoNode
    <2> QED BY <2>1, ResultAssumption DEF Given
<1>3. /\ DOMAIN found' = FsPaths /\ found'[current_path] = result
      /\ \A p \in FsPaths \ {current_path} : found'[p] = found[p]
    BY <1>1 DEF Report
<1>4. result.type = type /\ result.node = step.node
    OBVIOUS
<1> HIDE DEF result
<1>5. ASSUME NEW q \in DOMAIN nodes
      PROVE TypesFound(q)' = TypesFound(q) \cup (IF step.node = q THEN {type} ELSE {})
    <2> DEFINE old == {r \in FsPaths : found[r] # Null /\ found[r].node = q}
               new == {r \in FsPaths : found'[r] # Null /\ found'[r].node = q}
    <2>1. current_path \notin old /\ \A p \in old : found'[p] = found[p]
        BY <1>1, <1>3
    <2>2. new = old \cup (IF step.node = q THEN {current_path} ELSE {})
        BY <1>1, <1>2, <1>3, <1>4
    <2>3. /\ TypesFound(q) = {found[p].type : p \in old}
          /\ TypesFound(q)' = {found'[p].type : p \in new}
        BY DEF TypesFound
    <2> HIDE DEF old, new
    <2> QED BY <1>3, <1>4, <2>1, <2>2, <2>3
<1> QED BY <1>3, <1>5

(* One more type for the node in hand.                                      *)
LEMMA OneMoreMatch ==
    ASSUME TreeInv, Matched, InHand, NEW type, search_match' = Match(step.node, type)
    PROVE /\ DOMAIN search_match' = DOMAIN nodes
          /\ \A q \in DOMAIN nodes :
                search_match'[q] = search_match[q] \cup (IF step.node = q THEN {type} ELSE {})
<1>1. DOMAIN search_match = DOMAIN nodes
    BY DEF Matched
<1>2. CASE step.node = NoNode
    <2>1. search_match' = search_match /\ \A q \in DOMAIN nodes : q # step.node
        BY <1>2, NodeFacts DEF Match
    <2> QED BY <1>1, <2>1
<1>3. CASE step.node # NoNode
    <2>1. step.node \in DOMAIN nodes
        BY <1>3 DEF InHand
    <2>2. search_match' = [search_match EXCEPT ![step.node] = @ \cup {type}]
        BY <1>3 DEF Match
    <2> QED BY <1>1, <2>1, <2>2
<1> QED BY <1>2, <1>3

(* What has been seen stays so.                                             *)
LEMMA SeenGrows ==
    ASSUME UNCHANGED nodes, \A q \in DOMAIN nodes : search_match[q] \subseteq search_match'[q]
    PROVE /\ \A q : SeenAbove(q, search_match) => SeenAbove(q, search_match)'
          /\ \A s : Tried(s, search_match) => Tried(s, search_match)'
BY DEF SeenAbove, Tried

-----------------------------------------------------------------------------
(* finishCurrentNode(): the node that is tried is one of the list.          *)
LEMMA TryNodeMatched ==
    ASSUME Walking, Matched, Trying, TryNode, search' \in {"next", "stat"}
    PROVE Matched' /\ Trying'
<1>1. /\ search = "next" /\ state.subnodes # <<>> /\ UNCHANGED nodes
      /\ state' = [state EXCEPT !.subnodes = Tail(state.subnodes)]
      /\ UNCHANGED <<stack, search_match, found>>
      /\ search' = "stat" => step'.node = Head(state.subnodes)
    BY DEF TryNode, AtNext, Remaining, Examine, Skip, DieAt, results, parserVars
<1>2. state \in Frame /\ state.subnodes \in Seq(Seq(STRING) \ {<<>>})
    BY DEF Walking, FrameOK, Frame
<1>3. state'.subnodes = Tail(state.subnodes)
    BY <1>1, <1>2 DEF Frame
<1> DEFINE list == state.subnodes
<1>4. /\ Head(list) = list[1] /\ 1 \in 1 .. Len(list)
      /\ \A i \in 1 .. Len(Tail(list)) : Tail(list)[i] = list[i + 1] /\ i + 1 \in 1 .. Len(list)
    BY <1>1, <1>2
<1> HIDE DEF list
<1>5. Tried(state, search_match)'
    BY <1>1, <1>3, <1>4 DEF Trying, Tried, SeenAbove, list
<1>6. search' = "stat" => SeenAbove(step.node, search_match)'
    BY <1>1, <1>4 DEF Trying, Tried, SeenAbove, list
<1>7. \A i \in 1 .. Len(stack') : Tried(stack[i], search_match)'
    BY <1>1 DEF Trying, Tried, SeenAbove
<1>8. Trying'
    BY <1>1, <1>5, <1>6, <1>7 DEF Trying
<1>9. Matched'
    BY <1>1, NothingFound
<1> QED BY <1>8, <1>9

(* finishSearchStep(): so is the node whose expression matches a name.      *)
LEMMA EntryMatched ==
    ASSUME Walking, Matched, Trying, NEW name,
           MatchedEntry(name) \/ SkippedEntry(name) \/ FallbackEntry(name)
    PROVE Matched' /\ Trying'
<1>1. /\ search = "next" /\ search' \in {"next", "stat"}
      /\ UNCHANGED <<nodes, stack, search_match, found>>
      /\ state' = [state EXCEPT !.must = @ \ {name}, !.may = @ \ {name}]
    BY DEF MatchedEntry, SkippedEntry, FallbackEntry, ReadEntry, AtNext, Examine, Skip, results,
           parserVars
<1>2. search' = "stat" => step'.node \in Range(state.subnodes) \cup {NoNode}
    BY <1>1 DEF MatchedEntry, SkippedEntry, FallbackEntry, Examine, Skip, Matching
<1>3. state \in Frame /\ DOMAIN state.subnodes = 1 .. Len(state.subnodes)
    BY DEF Walking, FrameOK, Frame
<1>4. state'.subnodes = state.subnodes
    BY <1>1, <1>3 DEF Frame
<1>5. Tried(state, search_match)'
    BY <1>1, <1>4 DEF Trying, Tried, SeenAbove
<1>6. search' = "stat" /\ step'.node # NoNode => SeenAbove(step.node, search_match)'
    <2>1. ASSUME NEW i \in DOMAIN state.subnodes
          PROVE SeenAbove(state.subnodes[i], search_match)
        BY <1>3 DEF Trying, Tried
    <2>2. Range(state.subnodes) = {state.subnodes[i] : i \in DOMAIN state.subnodes}
        BY DEF Range
    <2> QED BY <1>1, <1>2, <2>1, <2>2 DEF SeenAbove
<1>7. \A i \in 1 .. Len(stack') : Tried(stack[i], search_match)'
    BY <1>1 DEF Trying, Tried, SeenAbove
<1>8. Trying'
    BY <1>1, <1>5, <1>6, <1>7 DEF Trying
<1>9. Matched'
    BY <1>1, NothingFound
<1> QED BY <1>8, <1>9

(* finishNodeStep(): a file is remembered and reported at once.             *)
LEMMA FoundFileMatched ==
    ASSUME TreeInv, Walking, MatchInv, FoundFile,
           place \in [FsPaths -> {"ahead", "inside", "behind"}]
    PROVE MatchInv'
<1>1. /\ search = "stat" /\ search' = "next" /\ UNCHANGED <<nodes, state, stack, step>>
      /\ search_match' = Match(step.node, Type) /\ Report(Type)
      /\ place' = [place EXCEPT ![current_path] = "behind"]
    BY DEF FoundFile, parserVars, iterator
<1>2. InHand /\ Matched /\ Trying
    BY <1>1 DEF Walking, MatchInv
<1>3. Type \in FileTypes
    <2>1. ASSUME NEW kind, NEW follow PROVE Stat(kind, follow) \in FileTypes \cup {"error"}
        BY DEF Stat, FileTypes
    <2>2. Type # "error"
        BY DEF FoundFile
    <2> QED BY <2>1, <2>2 DEF Type
<1>4. /\ DOMAIN found' = FsPaths
      /\ \A p \in FsPaths \ {current_path} : found'[p] = found[p]
      /\ \A q \in DOMAIN nodes :
            TypesFound(q)' = TypesFound(q) \cup (IF step.node = q THEN {Type} ELSE {})
    BY <1>1, <1>2, <1>3, OneMoreFound
<1>5. /\ DOMAIN search_match' = DOMAIN nodes
      /\ \A q \in DOMAIN nodes :
            search_match'[q] = search_match[q] \cup (IF step.node = q THEN {Type} ELSE {})
    BY <1>1, <1>2, OneMoreMatch
<1>6. /\ \A q : SeenAbove(q, search_match) => SeenAbove(q, search_match)'
      /\ \A s : Tried(s, search_match) => Tried(s, search_match)'
    BY <1>1, <1>5, SeenGrows
<1>7. ASSUME NEW q PROVE ~Opening(q) /\ ~Opening(q)'
    BY <1>1 DEF Opening
<1>8. Matched'
    <2> SUFFICES ASSUME NEW q \in DOMAIN nodes
                 PROVE /\ search_match'[q] = TypesFound(q)'
                       /\ search_match'[q] # {} => SeenAbove(q, search_match)'
        BY <1>1, <1>5, <1>7 DEF Matched
    <2>1. search_match[q] = TypesFound(q)
        BY <1>2, <1>7 DEF Matched
    <2>2. search_match[q] # {} => SeenAbove(q, search_match)'
        BY <1>2, <1>6 DEF Matched
    <2>3. step.node = q => SeenAbove(q, search_match)'
        BY <1>1, <1>2, <1>6, NodeFacts DEF Trying
    <2>4. CASE step.node = q
        BY <1>4, <1>5, <2>1, <2>3, <2>4
    <2>5. CASE step.node # q
        BY <1>4, <1>5, <2>1, <2>2, <2>5
    <2> QED BY <2>4, <2>5
<1>9. Trying'
    BY <1>1, <1>2, <1>6 DEF Trying
<1>10. \A p \in Ahead' : found'[p] = Null
    BY <1>1, <1>2, <1>4 DEF Ahead, MatchInv, InHand
<1> QED BY <1>1, <1>4, <1>8, <1>9, <1>10 DEF MatchInv

(* A directory is remembered first ...                                      *)
LEMMA FoundDirectoryMatched ==
    ASSUME TreeInv, Walking, MatchInv, FoundDirectory
    PROVE MatchInv'
<1>1. /\ search = "stat" /\ search' = "open"
      /\ UNCHANGED <<nodes, state, stack, step, found, place>>
      /\ search_match' = Match(step.node, "directory")
    BY DEF FoundDirectory, parserVars, iterator
<1>2. InHand /\ Matched /\ Trying
    BY <1>1 DEF Walking, MatchInv
<1>3. /\ DOMAIN search_match' = DOMAIN nodes
      /\ \A q \in DOMAIN nodes : search_match'[q] =
             search_match[q] \cup (IF step.node = q THEN {"directory"} ELSE {})
    BY <1>1, <1>2, OneMoreMatch
<1>4. /\ \A q : SeenAbove(q, search_match) => SeenAbove(q, search_match)'
      /\ \A s : Tried(s, search_match) => Tried(s, search_match)'
    BY <1>1, <1>3, SeenGrows
<1>5. ASSUME NEW q
      PROVE ~Opening(q) /\ (Opening(q)' <=> step.node = q) /\ TypesFound(q)' = TypesFound(q)
    BY <1>1 DEF Opening, TypesFound
<1>6. Matched'
    <2> SUFFICES ASSUME NEW q \in DOMAIN nodes
                 PROVE /\ search_match'[q] =
                              TypesFound(q) \cup (IF step.node = q THEN {"directory"} ELSE {})
                       /\ search_match'[q] # {} => SeenAbove(q, search_match)'
        BY <1>1, <1>3, <1>5 DEF Matched
    <2>1. search_match[q] = TypesFound(q)
        BY <1>2, <1>5 DEF Matched
    <2>2. search_match[q] # {} => SeenAbove(q, search_match)'
        BY <1>2, <1>4 DEF Matched
    <2>3. step.node = q => SeenAbove(q, search_match)'
        BY <1>1, <1>2, <1>4, NodeFacts DEF Trying
    <2> QED BY <1>3, <2>1, <2>2, <2>3
<1>7. Trying'
    BY <1>1, <1>2, <1>4 DEF Trying
<1>8. \A p \in Ahead' : found'[p] = Null
    BY <1>1 DEF Ahead, MatchInv
<1> QED BY <1>1, <1>6, <1>7, <1>8 DEF MatchInv

(* ... and reported when it has been opened; its subnodes are tried next.   *)
LEMMA OpenDirectoryMatched ==
    ASSUME TreeInv, Walking, MatchInv, OpenDirectory,
           place \in [FsPaths -> {"ahead", "inside", "behind"}]
    PROVE MatchInv'
<1>1. /\ search = "open" /\ search' = "next" /\ UNCHANGED <<nodes, step, search_match>>
      /\ stack' = Append(stack, state) /\ Report("directory")
      /\ state' = DirectoryState(current_path, step.node, step.policy)
      /\ place' = [place EXCEPT ![current_path] = "inside"]
    BY DEF OpenDirectory, Opened, parserVars
<1>2. InHand /\ Matched /\ Trying
    BY <1>1 DEF Walking, MatchInv
<1>3. /\ DOMAIN found' = FsPaths
      /\ \A p \in FsPaths \ {current_path} : found'[p] = found[p]
      /\ \A q \in DOMAIN nodes :
            TypesFound(q)' = TypesFound(q) \cup (IF step.node = q THEN {"directory"} ELSE {})
    <2>1. "directory" \in FileTypes
        BY DEF FileTypes
    <2> QED BY <1>1, <1>2, <2>1, OneMoreFound
<1>4. ASSUME NEW q PROVE (Opening(q) <=> step.node = q) /\ ~Opening(q)'
    BY <1>1 DEF Opening
<1>5. Matched'
    <2> SUFFICES ASSUME NEW q \in DOMAIN nodes
                 PROVE /\ search_match[q] = TypesFound(q)'
                       /\ search_match[q] # {} => SeenAbove(q, search_match)
        BY <1>1, <1>2, <1>4 DEF Matched, SeenAbove
    <2> QED BY <1>2, <1>3, <1>4 DEF Matched
<1>6. Tried(state, search_match)'
    <2>1. step.node \in DOMAIN nodes \cup {NoNode}
        BY <1>2 DEF InHand
    <2>2. step.node # NoNode =>
              SeenAbove(step.node, search_match) /\ "directory" \in search_match[step.node]
        BY <1>1, <1>2, <1>4, <2>1 DEF Trying, Matched
    <2>3. \A i \in 1 .. Len(Children(step.node)) :
              SeenAbove(Children(step.node)[i], search_match)
        BY <2>1, <2>2, ChildrenSeen
    <2>4. state'.subnodes = Children(step.node)
        BY <1>1 DEF DirectoryState
    <2> QED BY <1>1, <2>3, <2>4 DEF Tried, SeenAbove
<1>7. \A i \in 1 .. Len(stack') : Tried(stack[i], search_match)'
    <2>1. stack \in Seq(Frame) /\ state \in Frame
        BY DEF Walking, FrameOK
    <2> HIDE DEF Frame
    <2>2. \A i \in 1 .. Len(stack') :
              stack'[i] = state \/ (i \in 1 .. Len(stack) /\ stack'[i] = stack[i])
        BY <1>1, <2>1
    <2> QED BY <1>1, <1>2, <2>2 DEF Trying, Tried, SeenAbove
<1>8. Trying'
    BY <1>1, <1>6, <1>7 DEF Trying
<1>9. \A p \in Ahead' : found'[p] = Null
    BY <1>1, <1>2, <1>3 DEF Ahead, MatchInv, InHand
<1> QED BY <1>1, <1>3, <1>5, <1>8, <1>9 DEF MatchInv

(* finishDirectory() goes on with the state above.                          *)
LEMMA EndOfDirectoryMatched ==
    ASSUME Walking, MatchInv, EndOfDirectory,
           place \in [FsPaths -> {"ahead", "inside", "behind"}]
    PROVE MatchInv'
<1>1. /\ search = "next" /\ search' \in {"next", "ended"}
      /\ UNCHANGED <<nodes, search_match, found>>
      /\ search' = "next" => stack # <<>> /\ state' = Last(stack) /\ stack' = Front(stack)
      /\ place' = [place EXCEPT ![trail] = "behind"] \/ place' = place
    BY DEF EndOfDirectory, AtNext, parserVars, results
<1>2. Matched'
    BY <1>1, NothingFound DEF MatchInv
<1>3. search' = "next" => Trying'
    <2> SUFFICES ASSUME search' = "next" PROVE Trying'
        OBVIOUS
    <2>1. stack \in Seq(Frame) /\ stack # <<>>
        BY <1>1 DEF Walking
    <2> HIDE DEF Frame
    <2>2. /\ state' = stack[Len(stack)] /\ Len(stack) \in 1 .. Len(stack)
          /\ \A i \in 1 .. Len(stack') : stack'[i] = stack[i] /\ i \in 1 .. Len(stack)
        <3>1. Last(stack) = stack[Len(stack)] /\ Len(stack) \in Nat \ {0}
            BY <2>1 DEF Last
        <3>2. Len(Front(stack)) = Len(stack) - 1
              /\ \A i \in 1 .. Len(stack) - 1 : Front(stack)[i] = stack[i]
            BY <2>1, FrontFacts
        <3> QED BY <1>1, <3>1, <3>2
    <2>3. \A i \in 1 .. Len(stack) : Tried(stack[i], search_match)
        BY <1>1 DEF MatchInv, Trying
    <2> QED BY <1>1, <2>2, <2>3 DEF Trying, Tried, SeenAbove
<1>4. \A p \in Ahead' : p \in Ahead
    BY <1>1 DEF Ahead
<1> QED BY <1>1, <1>2, <1>3, <1>4 DEF MatchInv

(* Another program changes the streams, not the lists of nodes.             *)
LEMMA InterfereMatched ==
    ASSUME Walking, MatchInv, NEW p \in FsPaths, NEW kind, Interfere(p, kind)
    PROVE MatchInv'
<1>1. /\ search \in {"next", "stat", "open"}
      /\ UNCHANGED <<search, step, nodes, search_match, found, place>>
      /\ state' = StreamAfter(state, trail, p)
      /\ stack' = [i \in DOMAIN stack |-> StreamAfter(stack[i], SubSeq(trail, 1, i - 1), p)]
    BY DEF Interfere, results, parserVars
<1>2. ASSUME NEW s \in Frame, NEW d PROVE StreamAfter(s, d, p).subnodes = s.subnodes
    BY DEF StreamAfter, Frame
<1>3. /\ state \in Frame /\ stack \in Seq(Frame)
    BY DEF Walking, FrameOK
<1> HIDE DEF Frame
<1>4. /\ state'.subnodes = state.subnodes
      /\ \A i \in 1 .. Len(stack') : i \in 1 .. Len(stack) /\ stack'[i].subnodes = stack[i].subnodes
    <2>1. Len(stack') = Len(stack) /\ DOMAIN stack = 1 .. Len(stack) /\ Len(stack) \in Nat
        BY <1>1, <1>3
    <2>2. \A i \in 1 .. Len(stack) : stack[i] \in Frame
        BY <1>3
    <2> QED BY <1>1, <1>2, <1>3, <2>1, <2>2
<1>5. Matched'
    BY <1>1 DEF MatchInv, Matched, SeenAbove, TypesFound, Opening
<1>6. Trying'
    BY <1>1, <1>4 DEF MatchInv, Trying, Tried, SeenAbove
<1>7. \A r \in Ahead' : r \in Ahead
    BY <1>1 DEF Ahead
<1> QED BY <1>1, <1>5, <1>6, <1>7 DEF MatchInv

(* searchNew(): nothing has been found, and nothing is above the first      *)
(* nodes but the root.                                                      *)
LEMMA StartMatched ==
    ASSUME TreeInv, WalkInv, MatchInv, StartSearch
    PROVE MatchInv'
<1>1. /\ parser = "parsed" /\ search' = "next" /\ UNCHANGED <<nodes, stack, found, place>>
      /\ state'.subnodes = Children(RootNode)
      /\ search_match' = [q \in DOMAIN nodes |-> {}]
    BY DEF StartSearch
<1>2. search = "none"
    BY <1>1 DEF WalkInv
<1>3. /\ stack = <<>> /\ Len(stack) = 0 /\ Ahead = FsPaths /\ Ahead' = Ahead
    BY <1>1, <1>2 DEF WalkInv, Ahead
<1>4. \A q \in DOMAIN nodes : TypesFound(q)' = {} /\ ~Opening(q)'
    BY <1>1, <1>3 DEF MatchInv, TypesFound, Opening
<1>5. Matched'
    BY <1>1, <1>4 DEF Matched
<1>6. Tried(state, search_match)'
    <2>1. RootNode \in DOMAIN nodes
        BY <1>1 DEF TreeInv, NodesType
    <2>2. SeenAbove(RootNode, search_match')
        <3>1. ASSUME NEW r \in DOMAIN nodes, Above(r, RootNode) PROVE FALSE
            <4>1. r \in Seq(STRING) /\ RootNode \in Seq(STRING)
                BY <2>1, NodeFacts
            <4>2. IsPrefix(RootNode, r)
                BY <4>1, PrefixOrder DEF RootNode
            <4> QED BY <3>1, <4>1, <4>2, PrefixOrder DEF Above
        <3> QED BY <3>1 DEF SeenAbove
    <2>3. \A i \in 1 .. Len(Children(RootNode)) : SeenAbove(Children(RootNode)[i], search_match')
        BY <2>1, <2>2, ChildrenSeen
    <2> QED BY <1>1, <2>3 DEF Tried, SeenAbove
<1>7. Trying'
    <2>1. 1 .. Len(stack') = {}
        BY <1>1, <1>3
    <2> QED BY <1>1, <1>6, <2>1 DEF Trying
<1> QED BY <1>1, <1>3, <1>5, <1>7 DEF MatchInv

(* Every step keeps what the nodes remember.                                *)
LEMMA NextMatched ==
    ASSUME TreeInv, WalkInv, MatchInv, [SearchNext]_allVars
    PROVE MatchInv'
<1>1. /\ search \in {"next", "stat", "open"} => Walking /\ Matched /\ Trying
      /\ place \in [FsPaths -> {"ahead", "inside", "behind"}]
    BY DEF WalkInv, MatchInv
<1>2. ASSUME search' = "died", UNCHANGED <<place, found>> PROVE MatchInv'
    BY <1>2 DEF MatchInv, Ahead
<1>3. ASSUME UNCHANGED searchVars, search # "none" => UNCHANGED nodes PROVE MatchInv'
    <2>1. UNCHANGED <<search, state, stack, step, search_match, found, place>>
        BY <1>3 DEF searchVars
    <2> QED BY <1>3, <2>1 DEF MatchInv, Ahead, Matched, Trying, Tried, SeenAbove, TypesFound,
                              Opening
<1>4. CASE ParserNext /\ UNCHANGED searchVars
    <2>1. search # "none" => UNCHANGED nodes
        BY <1>4, SearchingTree DEF WalkInv
    <2> QED BY <1>3, <1>4, <2>1
<1>5. CASE UNCHANGED allVars
    BY <1>3, <1>5 DEF allVars, parserVars
<1>6. CASE StartSearch
    BY <1>6, StartMatched
<1>7. CASE TryNode
    <2>1. /\ search = "next" /\ search' \in {"next", "stat", "died"} /\ UNCHANGED <<place, found>>
        BY <1>7 DEF TryNode, AtNext, Examine, Skip, DieAt, results
    <2>2. search' \in {"next", "stat"} => Matched' /\ Trying'
        BY <1>1, <1>7, <2>1, TryNodeMatched
    <2> QED BY <2>1, <2>2 DEF MatchInv, Ahead
<1>8. ASSUME NEW name, MatchedEntry(name) \/ SkippedEntry(name) \/ FallbackEntry(name)
      PROVE MatchInv'
    <2>1. /\ search = "next" /\ search' \in {"next", "stat"} /\ UNCHANGED <<place, found>>
        BY <1>8 DEF MatchedEntry, SkippedEntry, FallbackEntry, ReadEntry, AtNext, Examine, Skip,
                    results
    <2>2. Matched' /\ Trying'
        BY <1>1, <1>8, <2>1, EntryMatched
    <2> QED BY <2>1, <2>2 DEF MatchInv, Ahead
<1>9. ASSUME NEW name, AmbiguousEntry(name) PROVE MatchInv'
    BY <1>2, <1>9 DEF AmbiguousEntry, ReadEntry, AtNext, DieAt, results
<1>10. CASE StatFails \/ OpenFails
    BY <1>2, <1>10 DEF StatFails, OpenFails, results
<1>11. CASE FoundFile
    BY <1>1, <1>11, FoundFileMatched DEF FoundFile
<1>12. CASE FoundDirectory
    BY <1>1, <1>12, FoundDirectoryMatched DEF FoundDirectory
<1>13. CASE OpenDirectory
    BY <1>1, <1>13, OpenDirectoryMatched DEF OpenDirectory
<1>14. CASE EndOfDirectory
    BY <1>1, <1>14, EndOfDirectoryMatched DEF EndOfDirectory, AtNext
<1>15. ASSUME NEW p \in FsPaths, NEW kind, Interfere(p, kind) PROVE MatchInv'
    BY <1>1, <1>15, InterfereMatched DEF Interfere
<1> QED BY <1>4, <1>5, <1>6, <1>7, <1>8, <1>9, <1>10, <1>11, <1>12, <1>13, <1>14, <1>15
        DEF SearchNext, SearchStep

-----------------------------------------------------------------------------
(* A set of numbers has a smallest one.                                     *)
LEMMA Smallest ==
    ASSUME NEW S \in SUBSET Nat, S # {}
    PROVE \E n \in S : \A m \in S : n <= m
<1> DEFINE R == {ss \in Nat \X Nat : ss[1] < ss[2]}
<1>1. IsWellFoundedOn(R, Nat)
    BY NatLessThanWellFounded DEF OpToRel
<1>2. PICK n \in S : \A m \in S : <<m, n>> \notin R
    <2> HIDE DEF R
    <2> QED BY <1>1, WFMin
<1>3. \A m \in S : ~(m < n)
    BY <1>2
<1> QED BY <1>3

(* Whether anything above a node says that it is not to be warned about.    *)
Quiet(q) == \E r \in DOMAIN nodes \ {RootNode} : Above(r, q) /\ "directory" \notin search_match[r]

(* When each of the three warnings is given.                                *)
LEMMA WarningFacts ==
    ASSUME NEW q
    PROVE /\ Warning(q) = "never matched" <=> ~Quiet(q) /\ search_match[q] = {}
          /\ Warning(q) = "not only directories" <=>
                /\ ~Quiet(q) /\ Follows(q)
                /\ "directory" \in search_match[q] /\ search_match[q] # {"directory"}
          /\ Warning(q) = "not a directory" <=>
                /\ ~Quiet(q) /\ Follows(q)
                /\ search_match[q] # {} /\ "directory" \notin search_match[q]
BY DEF Warning, Quiet

(* The highest of the nodes that keep a node from being matched.            *)
LEMMA Culprit ==
    ASSUME TreeInv, NEW q \in DOMAIN nodes \ {RootNode}, "directory" \notin search_match[q]
    PROVE \E r \in DOMAIN nodes \ {RootNode} :
             IsPrefix(r, q) /\ "directory" \notin search_match[r] /\ ~Quiet(r)
<1> DEFINE T == {r \in DOMAIN nodes \ {RootNode} :
                    IsPrefix(r, q) /\ "directory" \notin search_match[r]}
           lengths == {Len(r) : r \in T}
<1>1. \A r \in DOMAIN nodes : r \in Seq(STRING) /\ Len(r) \in Nat
    <2> TAKE r \in DOMAIN nodes
    <2>1. r \in Seq(STRING)
        BY NodeFacts
    <2> QED BY <2>1
<1>2. q \in T
    BY <1>1, PrefixOrder
<1>3. lengths \in SUBSET Nat /\ lengths # {}
    BY <1>1, <1>2
<1>4. PICK n \in lengths : \A m \in lengths : n <= m
    <2> HIDE DEF lengths
    <2> QED BY <1>3, Smallest
<1>5. PICK r \in T : n = Len(r)
    BY <1>4
<1>6. ASSUME NEW s \in DOMAIN nodes \ {RootNode}, Above(s, r), "directory" \notin search_match[s]
      PROVE FALSE
    <2>1. IsPrefix(s, r) /\ s # r /\ IsPrefix(r, q)
        BY <1>5, <1>6 DEF Above
    <2>2. IsPrefix(s, q)
        BY <1>1, <1>5, <2>1, PrefixOrder
    <2>3. Len(r) <= Len(s)
        BY <1>4, <1>5, <1>6, <2>2
    <2>4. IsPrefix(r, s)
        BY <1>1, <1>5, <2>1, <2>3, PrefixOrder
    <2> QED BY <1>1, <1>5, <2>1, <2>4, PrefixOrder
<1> QED BY <1>5, <1>6 DEF Quiet

(* The warnings after a search.                                             *)
LEMMA EndedWarns ==
    ASSUME TreeInv, BelowInv, MatchInv
    PROVE UnmatchedIsWarnedAbout
<1> SUFFICES ASSUME search = "ended", NEW q \in DOMAIN nodes \ {RootNode}
             PROVE /\ TypesFound(q) = {} <=>
                        \E r \in DOMAIN nodes \ {RootNode} :
                            \/ IsPrefix(r, q) /\ Warning(r) = "never matched"
                            \/ Above(r, q) /\ Warning(r) = "not a directory"
                   /\ Warning(q) = "not only directories" <=>
                        /\ Follows(q) /\ "directory" \in TypesFound(q)
                        /\ TypesFound(q) # {"directory"}
    BY DEF UnmatchedIsWarnedAbout, TypesFound
<1>1. \A r \in DOMAIN nodes :
         /\ search_match[r] = TypesFound(r)
         /\ search_match[r] # {} => SeenAbove(r, search_match)
    BY DEF MatchInv, Matched, Opening
<1>2. ASSUME TypesFound(q) = {}
      PROVE \E r \in DOMAIN nodes \ {RootNode} :
                \/ IsPrefix(r, q) /\ Warning(r) = "never matched"
                \/ Above(r, q) /\ Warning(r) = "not a directory"
    <2>1. PICK r \in DOMAIN nodes \ {RootNode} :
              IsPrefix(r, q) /\ "directory" \notin search_match[r] /\ ~Quiet(r)
        BY <1>1, <1>2, Culprit
    <2>2. CASE search_match[r] = {}
        BY <2>1, <2>2, WarningFacts
    <2>3. CASE search_match[r] # {}
        <3>1. Above(r, q)
            BY <1>1, <1>2, <2>1, <2>3 DEF Above
        <3>2. Follows(r)
            BY <3>1, AboveIsFollowed
        <3> QED BY <2>1, <2>3, <3>1, <3>2, WarningFacts
    <2> QED BY <2>2, <2>3
<1>3. ASSUME NEW r \in DOMAIN nodes \ {RootNode},
             \/ IsPrefix(r, q) /\ Warning(r) = "never matched"
             \/ Above(r, q) /\ Warning(r) = "not a directory"
      PROVE TypesFound(q) = {}
    <2>1. "directory" \notin search_match[r] /\ (r = q => search_match[r] = {})
        BY <1>3, WarningFacts DEF Above
    <2>2. r # q => Above(r, q)
        BY <1>3 DEF Above
    <2> QED BY <1>1, <2>1, <2>2 DEF SeenAbove
<1>4. Warning(q) = "not only directories" <=>
          Follows(q) /\ "directory" \in TypesFound(q) /\ TypesFound(q) # {"directory"}
    <2>1. "directory" \in search_match[q] => ~Quiet(q)
        BY <1>1 DEF SeenAbove, Quiet
    <2> QED BY <1>1, <2>1, WarningFacts
<1> QED BY <1>2, <1>3, <1>4

(* After a search the user is warned about every entry of the config file   *)
(* that nothing was found for, at the entry or at one above it, and about   *)
(* no other (UnmatchedIsWarnedAbout), for any config file and file system.  *)
THEOREM WarningsAreRight == SearchSpec => []UnmatchedIsWarnedAbout
<1>1. SearchInit => TableInv /\ NothingYet /\ TreeInv /\ WalkInv /\ BelowInv /\ MatchInv
    <2> SUFFICES ASSUME SearchInit PROVE BelowInv /\ MatchInv
        BY InitNothingYet, InitTree, InitWalk DEF SearchInit, ParserInit
    <2>1. DOMAIN nodes = {}
        BY InitTree DEF SearchInit, ParserInit, TreeInv, NodesType
    <2>2. search = "none" /\ found = [p \in FsPaths |-> Null] /\ Ahead \subseteq FsPaths
        BY DEF SearchInit, Ahead
    <2> QED BY <2>1, <2>2 DEF BelowInv, MatchInv
<1>2. TableInv /\ NothingYet /\ [SearchNext]_allVars => TableInv' /\ NothingYet'
    BY NextNothingYet, NextTable
<1>3. TableInv /\ NothingYet /\ TreeInv /\ WalkInv /\ [SearchNext]_allVars => TreeInv' /\ WalkInv'
    BY NextWalks
<1>4. TableInv /\ NothingYet /\ TreeInv /\ BelowInv /\ [SearchNext]_allVars => BelowInv'
    BY NextBelow
<1>5. TreeInv /\ WalkInv /\ MatchInv /\ [SearchNext]_allVars => MatchInv'
    BY NextMatched
<1>6. TreeInv /\ BelowInv /\ MatchInv => UnmatchedIsWarnedAbout
    BY EndedWarns
<1> QED BY <1>1, <1>2, <1>3, <1>4, <1>5, <1>6, PTL DEF SearchSpec

-----------------------------------------------------------------------------
(* What is expected of a path follows from what is expected of the          *)
(* directory it is in: the definition by recursion has a solution.          *)
PathsUpTo(n) == {p \in FsPaths \cup {RootNode} : Len(p) <= n}
ExpectedStep(at, p) == IF p = RootNode THEN ExpectedRoot ELSE ExpectedIn(at[Up(p)], p)
IsExpected(at, n) == at = [p \in PathsUpTo(n) |-> ExpectedStep(at, p)]

(* A path has a parent, which is a path or the root and one name shorter.   *)
LEMMA FsPathFacts ==
    ASSUME NEW p \in FsPaths \cup {RootNode}
    PROVE /\ p \in Seq(STRING) /\ Len(p) \in Nat
          /\ p # RootNode => /\ p \in FsPaths /\ Len(p) # 0 /\ Len(Up(p)) = Len(p) - 1
                             /\ Up(p) \in FsPaths \cup {RootNode} /\ Last(p) \in STRING
                             /\ p = Append(Up(p), Last(p)) /\ Up(p) # p
<1>1. p \in Seq(STRING)
    <2>1. <<>> \in Seq(STRING)
        OBVIOUS
    <2>2. p = <<>> \/ p \in FsPaths
        BY DEF RootNode
    <2> QED BY <2>1, <2>2, SearchAssumption
<1>2. CASE p # RootNode
    <2>1. p # <<>> /\ p \in FsPaths
        BY <1>2 DEF RootNode
    <2> QED BY <1>1, <2>1, FrontFacts, SearchAssumption DEF Up
<1> QED BY <1>1, <1>2

(* The parent of a path of some length is among the shorter paths.          *)
LEMMA UpIsShorter ==
    ASSUME NEW n \in Nat, NEW p \in PathsUpTo(n), p # RootNode
    PROVE n # 0 /\ Up(p) \in PathsUpTo(n - 1) /\ Up(p) \in PathsUpTo(n)
<1>1. p \in FsPaths \cup {RootNode} /\ Len(p) <= n
    BY DEF PathsUpTo
<1>2. /\ Len(p) \in Nat \ {0} /\ Len(Up(p)) = Len(p) - 1
      /\ Up(p) \in FsPaths \cup {RootNode}
    BY <1>1, FsPathFacts
<1>3. n # 0 /\ Len(Up(p)) <= n - 1 /\ Len(Up(p)) <= n
    BY <1>1, <1>2
<1> QED BY <1>2, <1>3 DEF PathsUpTo

(* Two solutions agree where both are defined.                              *)
LEMMA ExpectedAgree ==
    ASSUME NEW n \in Nat, NEW m \in Nat, NEW f, NEW g, IsExpected(f, n), IsExpected(g, m),
           NEW p \in PathsUpTo(n) \cap PathsUpTo(m)
    PROVE f[p] = g[p]
<1> DEFINE T == {q \in PathsUpTo(n) \cap PathsUpTo(m) : f[q] # g[q]}
           lengths == {Len(q) : q \in T}
<1> SUFFICES ASSUME T # {} PROVE FALSE
    OBVIOUS
<1>1. lengths \in SUBSET Nat /\ lengths # {}
    <2>1. \A q \in T : Len(q) \in Nat
        BY FsPathFacts DEF PathsUpTo
    <2> QED BY <2>1
<1>2. PICK k \in lengths : \A l \in lengths : k <= l
    <2> HIDE DEF lengths
    <2> QED BY <1>1, Smallest
<1>3. PICK q \in T : k = Len(q)
    BY <1>2
<1>4. /\ q \in PathsUpTo(n) /\ q \in PathsUpTo(m) /\ f[q] # g[q]
      /\ f[q] = ExpectedStep(f, q) /\ g[q] = ExpectedStep(g, q)
    BY <1>3 DEF IsExpected
<1>5. q # RootNode
    BY <1>4 DEF ExpectedStep
<1>6. Up(q) \in PathsUpTo(n) /\ Up(q) \in PathsUpTo(m)
    BY <1>4, <1>5, UpIsShorter
<1>7. f[Up(q)] # g[Up(q)]
    BY <1>4, <1>5 DEF ExpectedStep
<1>8. Len(Up(q)) < Len(q)
    <2>1. q \in FsPaths \cup {RootNode}
        BY <1>4 DEF PathsUpTo
    <2>2. Len(q) \in Nat /\ Len(Up(q)) = Len(q) - 1
        BY <1>5, <2>1, FsPathFacts
    <2> QED BY <2>2
<1>9. Len(Up(q)) \in lengths
    BY <1>6, <1>7
<1>10. k <= Len(Up(q)) /\ k \in Nat /\ Len(Up(q)) \in Nat
    BY <1>1, <1>2, <1>9
<1> HIDE DEF lengths, T
<1> QED BY <1>3, <1>8, <1>10

(* A solution for paths up to some length can be continued.                 *)
LEMMA ExpectedGrows ==
    ASSUME NEW n \in Nat, n # 0, NEW f, IsExpected(f, n - 1)
    PROVE \E g : IsExpected(g, n)
<1> DEFINE g == [p \in PathsUpTo(n) |-> ExpectedStep(f, p)]
<1>1. \A p \in PathsUpTo(n - 1) : p \in PathsUpTo(n)
    <2>1. \A p \in FsPaths \cup {RootNode} : Len(p) <= n - 1 => Len(p) <= n
        BY FsPathFacts
    <2> QED BY <2>1 DEF PathsUpTo
<1>2. \A p \in PathsUpTo(n - 1) : f[p] = ExpectedStep(f, p)
    BY DEF IsExpected
<1>3. \A p \in PathsUpTo(n - 1) : g[p] = f[p]
    BY <1>1, <1>2
<1>4. \A p \in PathsUpTo(n) : p # RootNode => Up(p) \in PathsUpTo(n - 1)
    BY UpIsShorter
<1>5. \A p \in PathsUpTo(n) : ExpectedStep(g, p) = ExpectedStep(f, p)
    <2> HIDE DEF g
    <2> QED BY <1>3, <1>4 DEF ExpectedStep
<1>6. IsExpected(g, n)
    BY <1>5 DEF IsExpected
<1> QED BY <1>6

(* There is a solution for paths up to every length, as there is no         *)
(* shortest length without one.                                             *)
LEMMA ExpectedExists ==
    ASSUME NEW n \in Nat PROVE \E f : IsExpected(f, n)
<1> DEFINE S == {m \in Nat : ~ \E f : IsExpected(f, m)}
<1> SUFFICES ASSUME S # {} PROVE FALSE
    OBVIOUS
<1>1. PICK m \in S : \A k \in S : m <= k
    <2>1. S \in SUBSET Nat
        OBVIOUS
    <2> HIDE DEF S
    <2> QED BY <2>1, Smallest
<1>2. CASE m = 0
    <2> DEFINE f == [p \in PathsUpTo(0) |-> ExpectedRoot]
    <2>1. \A p \in PathsUpTo(0) : p = RootNode
        BY UpIsShorter
    <2>2. IsExpected(f, 0)
        BY <2>1 DEF IsExpected, ExpectedStep
    <2> QED BY <1>1, <1>2, <2>2
<1>3. CASE m # 0
    <2>1. m - 1 \in Nat /\ m - 1 \notin S
        BY <1>1, <1>3
    <2>2. PICK f : IsExpected(f, m - 1)
        BY <2>1
    <2>3. \E g : IsExpected(g, m)
        BY <1>1, <1>3, <2>2, ExpectedGrows
    <2> QED BY <1>1, <2>3
<1> QED BY <1>2, <1>3

IsUnfolded ==
    /\ Expected[RootNode] = ExpectedRoot
    /\ \A p \in FsPaths : Expected[p] = ExpectedIn(Expected[Up(p)], p)

(* The recursion that Expected is defined by has a solution.                *)
LEMMA ExpectedFacts == IsUnfolded
<1> DEFINE upTo(n) == CHOOSE f : IsExpected(f, n)
           at == [p \in FsPaths \cup {RootNode} |-> upTo(Len(p))[p]]
<1>1. \A n \in Nat : IsExpected(upTo(n), n)
    BY ExpectedExists
<1> HIDE DEF upTo
<1>2. ASSUME NEW p \in FsPaths \cup {RootNode} PROVE at[p] = ExpectedStep(at, p)
    <2> DEFINE n == Len(p)
    <2>1. n \in Nat
        BY FsPathFacts
    <2>2. p \in PathsUpTo(n)
        BY <2>1 DEF PathsUpTo
    <2>3. at[p] = ExpectedStep(upTo(n), p)
        BY <1>1, <2>1, <2>2 DEF IsExpected
    <2>4. p # RootNode => at[Up(p)] = upTo(n)[Up(p)]
        <3> SUFFICES ASSUME p # RootNode PROVE at[Up(p)] = upTo(n)[Up(p)]
            OBVIOUS
        <3> DEFINE m == Len(Up(p))
        <3>1. Up(p) \in FsPaths \cup {RootNode} /\ m \in Nat
            BY FsPathFacts
        <3>2. Up(p) \in PathsUpTo(n) /\ Up(p) \in PathsUpTo(m)
            BY <2>1, <2>2, <3>1, UpIsShorter DEF PathsUpTo
        <3>3. upTo(m)[Up(p)] = upTo(n)[Up(p)]
            BY <1>1, <2>1, <3>1, <3>2, ExpectedAgree
        <3> QED BY <3>1, <3>3
    <2> HIDE DEF at, n
    <2> QED BY <2>3, <2>4 DEF ExpectedStep
<1>3. at = [p \in FsPaths \cup {RootNode} |->
               IF p = RootNode THEN ExpectedRoot ELSE ExpectedIn(at[Up(p)], p)]
    BY <1>2 DEF ExpectedStep
<1> HIDE DEF at
<1>4. Expected = [p \in FsPaths \cup {RootNode} |->
                     IF p = RootNode THEN ExpectedRoot ELSE ExpectedIn(Expected[Up(p)], p)]
    BY <1>3, Zenon DEF Expected
<1>5. \A p \in FsPaths : p # RootNode
    BY SearchAssumption DEF RootNode
<1> QED BY <1>4, <1>5 DEF IsUnfolded

(* It has one in the next state as well.                                    *)
LEMMA ExpectedFactsNext == IsUnfolded'
BY ExpectedFacts, PTL

(* What is expected of a path depends on the files above it only.           *)
LEMMA ExpectedKept ==
    ASSUME UNCHANGED <<nodes, ignored>>, NEW C \in SUBSET FsPaths,
           \A p \in C : fs'[p] = fs[p] /\ Up(p) \in C \cup {RootNode},
           NEW p \in C \cup {RootNode}
    PROVE Expected'[p] = Expected[p]
<1> DEFINE T == {q \in C \cup {RootNode} : Expected'[q] # Expected[q]}
           lengths == {Len(q) : q \in T}
<1> SUFFICES ASSUME T # {} PROVE FALSE
    OBVIOUS
<1>1. lengths \in SUBSET Nat /\ lengths # {}
    <2>1. \A q \in T : Len(q) \in Nat
        BY FsPathFacts
    <2> QED BY <2>1
<1>2. PICK k \in lengths : \A l \in lengths : k <= l
    <2> HIDE DEF lengths
    <2> QED BY <1>1, Smallest
<1>3. PICK q \in T : k = Len(q)
    BY <1>2
<1>4. /\ q \in C \cup {RootNode} /\ Expected'[q] # Expected[q]
    BY <1>3
<1>5. ExpectedRoot' = ExpectedRoot
    BY DEF ExpectedRoot
<1>6. q \in C /\ q # RootNode
    <2>1. Expected[RootNode] = ExpectedRoot /\ Expected'[RootNode] = ExpectedRoot'
        BY ExpectedFacts, ExpectedFactsNext DEF IsUnfolded
    <2> QED BY <1>4, <1>5, <2>1
<1>7. /\ Expected[q] = ExpectedIn(Expected[Up(q)], q)
      /\ Expected'[q] = ExpectedIn(Expected[Up(q)], q)'
    BY <1>6, ExpectedFacts, ExpectedFactsNext DEF IsUnfolded
<1>8. Expected'[Up(q)] # Expected[Up(q)]
    <2> SUFFICES ASSUME Expected'[Up(q)] = Expected[Up(q)]
                 PROVE ExpectedIn(Expected[Up(q)], q)' = ExpectedIn(Expected[Up(q)], q)
        BY <1>4, <1>7
    <2>1. fs'[q] = fs[q]
        BY <1>6
    <2> QED BY <2>1 DEF ExpectedIn, Own, IsSeen, IsWanted, Children, NodeMatches
<1>9. Up(q) \in T /\ Len(Up(q)) < Len(q)
    <2>1. Up(q) \in C \cup {RootNode}
        BY <1>6
    <2>2. Len(q) \in Nat /\ Len(Up(q)) = Len(q) - 1
        BY <1>6, FsPathFacts
    <2> QED BY <1>8, <2>1, <2>2
<1>10. k <= Len(Up(q)) /\ k \in Nat /\ Len(Up(q)) \in Nat
    <2>1. Len(Up(q)) \in lengths
        BY <1>9
    <2> HIDE DEF lengths
    <2> QED BY <1>1, <1>2, <2>1
<1> HIDE DEF lengths, T
<1> QED BY <1>3, <1>9, <1>10

(* Only the files and the tree decide what is expected.                     *)
LEMMA SameExpected ==
    ASSUME UNCHANGED <<fs, nodes, ignored>>
    PROVE Expected' = Expected
BY DEF Expected, ExpectedRoot, ExpectedIn, Own, IsSeen, IsWanted, Children, NodeMatches

-----------------------------------------------------------------------------
(* What is expected of a path in a directory.                               *)
LeadsOn(node) == \E r \in DOMAIN nodes : node # NoNode /\ Above(node, r)

(* What stat may return, and when it returns a directory.                   *)
LEMMA StatFacts ==
    ASSUME NEW kind, NEW follow
    PROVE /\ Stat(kind, follow) \in FileTypes \cup {"error"} /\ Stat(kind, follow) # "none"
          /\ Stat(kind, follow) = "directory" => kind \in {"directory", "directoryLink"}
          /\ kind \in {"directory", "directoryLink"} /\ follow => Stat(kind, follow) = "directory"
BY DEF Stat, FileTypes

(* What is expected of a path, in terms of what is expected of its parent.  *)
LEMMA ExpectedBelow ==
    ASSUME NEW p \in FsPaths
    PROVE LET e == Expected[p]
              above == Expected[Up(p)]
              own == Own(above, p)
          IN /\ own = {} => e.node = NoNode /\ e.policy = above.policy
             /\ own # {} => e.node \in own /\ e.policy = nodes[e.node].policy
             /\ e.type # "none" <=> IsSeen(above, p) /\ IsWanted(above, p)
             /\ e.type # "none" => e.type = Stat(fs[p], LeadsOn(e.node))
             /\ e.ambiguous = (IsSeen(above, p) /\ Cardinality(own) > 1)
             /\ e = [node |-> e.node, policy |-> e.policy, type |-> e.type,
                     ambiguous |-> e.ambiguous]
<1> DEFINE above == Expected[Up(p)]
           own == Own(above, p)
           node == IF own = {} THEN NoNode ELSE CHOOSE q \in own : TRUE
<1>1. Expected[p] = ExpectedIn(above, p)
    BY ExpectedFacts DEF IsUnfolded
<1>2. Expected[p] =
          [node |-> node,
           policy |-> IF own = {} THEN above.policy ELSE nodes[node].policy,
           type |-> IF IsSeen(above, p) /\ IsWanted(above, p) THEN Stat(fs[p], LeadsOn(node))
                    ELSE "none",
           ambiguous |-> IsSeen(above, p) /\ Cardinality(own) > 1]
    BY <1>1 DEF ExpectedIn, LeadsOn
<1>3. own # {} => node \in own
    OBVIOUS
<1>4. Stat(fs[p], LeadsOn(node)) # "none"
    BY StatFacts
<1> HIDE DEF above, own, node
<1>5. /\ Expected[p].node = node
      /\ Expected[p].policy = IF own = {} THEN above.policy ELSE nodes[node].policy
      /\ Expected[p].type = IF IsSeen(above, p) /\ IsWanted(above, p)
                            THEN Stat(fs[p], LeadsOn(node)) ELSE "none"
      /\ Expected[p].ambiguous = (IsSeen(above, p) /\ Cardinality(own) > 1)
    BY <1>2
<1>6. Expected[p] = [node |-> Expected[p].node, policy |-> Expected[p].policy,
                     type |-> Expected[p].type, ambiguous |-> Expected[p].ambiguous]
    BY <1>2
<1>7. own = {} => node = NoNode
    BY DEF node
<1> QED BY <1>3, <1>4, <1>5, <1>6, <1>7 DEF above, own

(* A node that has something below it is one with subnodes.                 *)
LEMMA FollowedLeadsOn ==
    ASSUME TreeInv, BelowInv, NEW q \in DOMAIN nodes \cup {NoNode}
    PROVE LeadsOn(q) <=> Follows(q)
<1>1. CASE q = NoNode
    BY <1>1 DEF LeadsOn, Follows, Children
<1>2. CASE q # NoNode
    <2>1. q \in DOMAIN nodes /\ q \in Seq(STRING)
        BY <1>2, NodeFacts
    <2>2. ASSUME Follows(q) PROVE LeadsOn(q)
        <3> DEFINE names == nodes[q].subnodes
        <3>1. names \in Seq(STRING) /\ IsList(q, names, DOMAIN nodes)
            BY <2>1 DEF TreeInv, NodesType, Node
        <3>2. Children(q) = [i \in DOMAIN names |-> Append(q, names[i])] /\ Children(q) # <<>>
            BY <1>2, <2>2 DEF Children, Follows
        <3>3. names # <<>>
            BY <3>2
        <3>4. 1 \in 1 .. Len(names) /\ names[1] \in STRING
            BY <3>1, <3>3
        <3> HIDE DEF names
        <3>5. Append(q, names[1]) \in DOMAIN nodes
            BY <3>1, <3>4 DEF IsList
        <3>6. /\ Append(q, names[1]) \in Seq(STRING) /\ Append(q, names[1]) # <<>>
              /\ Up(Append(q, names[1])) = q
            BY <2>1, <3>4, AppendFacts DEF Up
        <3>7. Above(q, Append(q, names[1]))
            BY <3>6, UpFacts DEF Above
        <3> QED BY <1>2, <3>5, <3>7 DEF LeadsOn
    <2> QED BY <1>2, <2>1, <2>2, AboveIsFollowed DEF LeadsOn
<1> QED BY <1>1, <1>2

(* A subnode is tried by its name if no subnode is an expression.           *)
LEMMA DirectOwn ==
    ASSUME TreeInv, RegexInv, NEW above, above.node \in DOMAIN nodes \cup {NoNode},
           IsDirect(above.node), NEW x
    PROVE /\ \A q \in Own(above, x) : Last(q) = Last(x)
          /\ \A q \in Range(Children(above.node)) : Last(q) = Last(x) => Own(above, x) = {q}
<1> DEFINE node == above.node
           list == Children(node)
<1>1. node \in DOMAIN nodes /\ node # NoNode /\ ~nodes[node].regexBelow /\ node \in Seq(STRING)
    BY NodeFacts DEF IsDirect
<1>2. /\ DOMAIN list = 1 .. Len(list)
      /\ \A i \in 1 .. Len(list) : list[i] \in DOMAIN nodes
      /\ \A i, j \in 1 .. Len(list) : Last(list[i]) = Last(list[j]) => i = j
    BY ChildrenFacts
<1>3. \A i \in 1 .. Len(list) : Last(list[i]) \notin Regexes
    <2> TAKE i \in 1 .. Len(list)
    <2> DEFINE names == nodes[node].subnodes
    <2>1. names \in Seq(STRING)
        BY <1>1 DEF TreeInv, NodesType, Node
    <2>2. list = [j \in DOMAIN names |-> Append(node, names[j])]
        BY <1>1 DEF Children
    <2>3. list[i] = Append(node, names[i]) /\ names[i] \in STRING
        BY <1>2, <2>1, <2>2
    <2> HIDE DEF names
    <2>4. Up(list[i]) = node /\ list[i] # <<>>
        BY <1>1, <2>3, AppendFacts DEF Up
    <2> QED BY <1>1, <1>2, <2>4 DEF RegexInv, RootNode
<1>4. Range(list) = {list[i] : i \in 1 .. Len(list)}
    BY <1>2 DEF Range
<1> HIDE DEF list
<1>5. \A q \in Range(list) : NodeMatches(q, Last(x)) <=> Last(q) = Last(x)
    BY <1>3, <1>4 DEF NodeMatches
<1>6. Own(above, x) = {q \in Range(list) : Last(q) = Last(x)}
    BY <1>5 DEF Own, list
<1>7. \A q, r \in Range(list) : Last(q) = Last(r) => q = r
    BY <1>2, <1>4
<1> QED BY <1>6, <1>7 DEF list

(* Exactly one node matches.                                                *)
LEMMA OwnNode ==
    ASSUME TreeInv, BelowInv, NEW x \in FsPaths, Expected[Up(x)].type = "directory",
           Expected[Up(x)].node \in DOMAIN nodes \cup {NoNode}, fs[x] # "none",
           NEW q, Own(Expected[Up(x)], x) = {q}
    PROVE /\ Expected[x] = [node |-> q, policy |-> nodes[q].policy,
                            type |-> Stat(fs[x], Follows(q)), ambiguous |-> FALSE]
          /\ q \in DOMAIN nodes
<1> DEFINE above == Expected[Up(x)]
<1>1. q \in DOMAIN nodes
    <2>1. q \in Range(Children(above.node))
        BY DEF Own
    <2>2. /\ DOMAIN Children(above.node) = 1 .. Len(Children(above.node))
          /\ \A i \in 1 .. Len(Children(above.node)) : Children(above.node)[i] \in DOMAIN nodes
        BY ChildrenFacts
    <2> QED BY <2>1, <2>2 DEF Range
<1>2. IsSeen(above, x) /\ IsWanted(above, x)
    BY DEF IsSeen, IsWanted
<1>3. Cardinality({q}) = 1
    BY FS_Singleton
<1>4. LeadsOn(q) <=> Follows(q)
    BY <1>1, FollowedLeadsOn
<1>5. LeadsOn(q) = Follows(q)
    BY <1>4 DEF LeadsOn, Follows
<1>6. ~(1 > 1)
    OBVIOUS
<1>7. /\ Expected[x].node = q /\ Expected[x].policy = nodes[q].policy
      /\ Expected[x].type = Stat(fs[x], LeadsOn(q)) /\ Expected[x].ambiguous = FALSE
      /\ Expected[x] = [node |-> Expected[x].node, policy |-> Expected[x].policy,
                        type |-> Expected[x].type, ambiguous |-> Expected[x].ambiguous]
    BY <1>2, <1>3, <1>6, ExpectedBelow
<1> QED BY <1>1, <1>5, <1>7

(* No node matches, and the policy of the directory counts.                 *)
LEMMA OwnNone ==
    ASSUME TreeInv, BelowInv, NEW x \in FsPaths, Expected[Up(x)].type = "directory",
           fs[x] # "none", Own(Expected[Up(x)], x) = {}
    PROVE /\ Expected[Up(x)].policy # "none" /\ x \notin ignored =>
                Expected[x] = [node |-> NoNode, policy |-> Expected[Up(x)].policy,
                               type |-> Stat(fs[x], Follows(NoNode)), ambiguous |-> FALSE]
          /\ Expected[Up(x)].policy = "none" \/ x \in ignored => Expected[x].type = "none"
<1> DEFINE above == Expected[Up(x)]
<1>1. IsSeen(above, x) /\ (IsWanted(above, x) <=> above.policy # "none" /\ x \notin ignored)
    BY DEF IsSeen, IsWanted
<1>2. Cardinality({}) = 0 /\ ~(0 > 1)
    BY FS_EmptySet
<1>3. LeadsOn(NoNode) = Follows(NoNode)
    <2>1. LeadsOn(NoNode) <=> Follows(NoNode)
        BY FollowedLeadsOn
    <2> QED BY <2>1 DEF LeadsOn, Follows
<1>4. /\ Expected[x].node = NoNode /\ Expected[x].policy = above.policy
      /\ Expected[x].type # "none" <=> IsWanted(above, x)
      /\ Expected[x].type # "none" => Expected[x].type = Stat(fs[x], LeadsOn(NoNode))
      /\ Expected[x].ambiguous = FALSE
      /\ Expected[x] = [node |-> Expected[x].node, policy |-> Expected[x].policy,
                        type |-> Expected[x].type, ambiguous |-> Expected[x].ambiguous]
    BY <1>1, <1>2, ExpectedBelow
<1> QED BY <1>1, <1>3, <1>4

-----------------------------------------------------------------------------
(* The search and what is expected of it.  Paths that have not changed are  *)
(* clean; those the search has not come to and does not look at are left.   *)
Clean == FsPaths \ touched
Here == {p \in FsPaths : fs[p] # "none"}
Left == Ahead \ (IF search \in {"stat", "open"} THEN {current_path} ELSE {})

(* The name will come up.                                                   *)
Sure(s, name) ==
    IF s.direct THEN \E i \in 1 .. Len(s.subnodes) : Last(s.subnodes[i]) = name
    ELSE name \in s.must

(* What the state of directory d is to know about it.                       *)
Promise(s, d, at, clean, here, left) ==
    d \in clean \cup {RootNode} =>
        /\ at[d].type = "directory" /\ at[d].node \in DOMAIN nodes \cup {NoNode}
        /\ s.direct = IsDirect(at[d].node)
        /\ ~s.direct =>
              /\ s.fallback = at[d].policy /\ s.subnodes = Children(at[d].node)
              /\ \A name \in s.must \cup s.may :
                     Append(d, name) \in clean => Append(d, name) \in here
        /\ s.direct => \A i \in 1 .. Len(s.subnodes) :
                           s.subnodes[i] \in Range(Children(at[d].node))
        /\ \A x \in clean \cap left : Up(x) = d /\ at[x].type # "none" => Sure(s, Last(x))

Closed == \A x \in Clean : Up(x) \in Clean \cup {RootNode}

IsReported(x) ==
    /\ Expected[x].type \in FileTypes /\ Expected[x].ambiguous = FALSE
    /\ found[x] = [type |-> Expected[x].type, node |-> Expected[x].node,
                   policy |-> Expected[x].policy]

(* The node and the policy of the path in hand.                             *)
Judged ==
    Expected[current_path] =
        [node |-> step.node, policy |-> step.policy, type |-> Type, ambiguous |-> FALSE]

Promises ==
    /\ Promise(state, trail, Expected, Clean, Here, Left)
    /\ \A i \in 1 .. Len(stack) :
          Promise(stack[i], SubSeq(trail, 1, i - 1), Expected, Clean, Here, Left)

Finding ==
    /\ Closed /\ \A x \in Clean \ Ahead : IsReported(x)
    /\ \A x \in Clean \cap Ahead :
          Up(x) # RootNode /\ place[Up(x)] = "behind" => Expected[x].type = "none"
    /\ \A x \in FsPaths : place[x] = "inside" => IsPrefix(x, trail)
    /\ Promises
    /\ search \in {"stat", "open"} /\ current_path \in Clean =>
          Judged /\ (search = "open" => Type = "directory")

Finished ==
    /\ Closed /\ \A x \in Clean \ Ahead : IsReported(x)
    /\ \A x \in Clean \cap Ahead : Up(x) \notin Ahead => Expected[x].type = "none"

Died ==
    \/ touched # {} \/ StackOverflows
    \/ \E p \in FsPaths : Expected[p].ambiguous \/ Expected[p].type = "error"

FoundInv ==
    /\ search \in {"next", "stat", "open"} => Finding
    /\ search = "ended" => Finished
    /\ search = "died" => Died

(* What a state knows when its directory is opened.                         *)
LEMMA NewPromise ==
    ASSUME TreeInv, RegexInv, NEW d \in FsPaths \cup {RootNode},
           NEW q \in DOMAIN nodes \cup {NoNode}, NEW policy, NEW clean \in SUBSET FsPaths,
           NEW left,
           d \in clean \cup {RootNode} =>
              /\ Expected[d].type = "directory" /\ Expected[d].node = q
              /\ Expected[d].policy = policy /\ (q # NoNode => policy = nodes[q].policy),
           NEW s, s.direct = IsDirect(q), s.subnodes = Children(q),
           ~s.direct => s.fallback = policy, ~s.direct => s.must = NamesIn(fs, d),
           s.may = {}
    PROVE Promise(s, d, Expected, clean, Here, left)
<1> SUFFICES ASSUME d \in clean \cup {RootNode} PROVE Promise(s, d, Expected, clean, Here, left)
    BY DEF Promise
<1>1. /\ Expected[d].type = "directory" /\ Expected[d].node = q /\ Expected[d].policy = policy
      /\ q # NoNode => policy = nodes[q].policy
    OBVIOUS
<1>2. ASSUME ~s.direct, NEW name \in s.must \cup s.may PROVE Append(d, name) \in Here
    <2>1. PICK r \in FsPaths : Up(r) = d /\ fs[r] # "none" /\ name = Last(r)
        BY <1>2 DEF NamesIn
    <2>2. r = Append(d, name)
        BY <2>1, FsPathFacts, SearchAssumption DEF RootNode
    <2> QED BY <2>1, <2>2 DEF Here
<1>3. /\ DOMAIN Children(q) = 1 .. Len(Children(q))
      /\ Range(Children(q)) = {Children(q)[i] : i \in 1 .. Len(Children(q))}
    <2>1. DOMAIN Children(q) = 1 .. Len(Children(q))
        BY ChildrenFacts
    <2> QED BY <2>1 DEF Range
<1>4. ASSUME NEW x \in clean \cap left, Up(x) = d, Expected[x].type # "none"
      PROVE Sure(s, Last(x))
    <2>1. x \in FsPaths
        BY <1>4
    <2>2. IsSeen(Expected[d], x) /\ IsWanted(Expected[d], x)
        BY <1>4, <2>1, ExpectedBelow
    <2>3. CASE ~s.direct
        <3>1. Last(x) \in NamesIn(fs, d)
            BY <1>4, <2>1, <2>2 DEF NamesIn, IsSeen
        <3> QED BY <2>3, <3>1 DEF Sure
    <2>4. CASE s.direct
        <3>1. q # NoNode /\ nodes[q].policy = "none"
            BY <2>4 DEF IsDirect
        <3>2. PICK r \in Own(Expected[d], x) : TRUE
            BY <1>1, <2>2, <3>1 DEF IsWanted
        <3>3. IsDirect(Expected[d].node) /\ Expected[d].node \in DOMAIN nodes \cup {NoNode}
            BY <1>1, <2>4
        <3>4. Last(r) = Last(x)
            BY <3>2, <3>3, DirectOwn
        <3>5. r \in Range(Children(q))
            BY <1>1, <3>2 DEF Own
        <3> QED BY <1>3, <2>4, <3>4, <3>5 DEF Sure
    <2> QED BY <2>3, <2>4
<1>5. \A i \in 1 .. Len(s.subnodes) : s.subnodes[i] \in Range(Children(q))
    BY <1>3
<1> QED BY <1>1, <1>2, <1>4, <1>5 DEF Promise

(* The next name of a directory is taken.                                   *)
LEMMA NameFound ==
    ASSUME Walking, Finding, search = "next", search' \in {"next", "stat"},
           UNCHANGED <<fs, touched, nodes, ignored, stack, place, trail, found>>,
           NEW name \in STRING, current_path' = Append(trail, name),
           state'.direct = state.direct, state'.fallback = state.fallback,
           ~state.direct => /\ state'.subnodes = state.subnodes
                            /\ state'.must \cup state'.may \subseteq state.must \cup state.may,
           state.direct => \A i \in 1 .. Len(state'.subnodes) : \E j \in 1 .. Len(state.subnodes) :
                               state'.subnodes[i] = state.subnodes[j],
           \A n : n # name /\ Sure(state, n) => Sure(state, n)',
           current_path' \in Clean =>
              /\ search' = "next" => Expected[current_path'].type = "none"
              /\ search' = "stat" => Judged'
    PROVE Finding'
<1>1. /\ Expected' = Expected /\ Clean' = Clean /\ Here' = Here /\ Ahead' = Ahead
      /\ Left = Ahead /\ Left' = Ahead \ (IF search' = "stat" THEN {current_path'} ELSE {})
    BY SameExpected DEF Clean, Here, Ahead, Left
<1>2. trail \in Seq(STRING)
    BY DEF Walking
<1>3. Promise(state, trail, Expected, Clean, Here, Left)'
    <2> SUFFICES ASSUME trail \in Clean \cup {RootNode}
                 PROVE Promise(state, trail, Expected, Clean, Here, Left)'
        BY <1>1 DEF Promise
    <2>1. /\ Expected[trail].type = "directory"
          /\ Expected[trail].node \in DOMAIN nodes \cup {NoNode}
          /\ state.direct = IsDirect(Expected[trail].node)
          /\ ~state.direct =>
                /\ state.fallback = Expected[trail].policy
                /\ state.subnodes = Children(Expected[trail].node)
                /\ \A n \in state.must \cup state.may :
                      Append(trail, n) \in Clean => Append(trail, n) \in Here
          /\ state.direct => \A i \in 1 .. Len(state.subnodes) :
                                 state.subnodes[i] \in Range(Children(Expected[trail].node))
          /\ \A x \in Clean \cap Left :
                Up(x) = trail /\ Expected[x].type # "none" => Sure(state, Last(x))
        BY DEF Finding, Promises, Promise
    <2>2. ASSUME NEW x \in Clean \cap Left', Up(x) = trail, Expected[x].type # "none"
          PROVE Sure(state, Last(x))'
        <3>1. Sure(state, Last(x))
            BY <1>1, <2>1, <2>2
        <3>2. Last(x) # name
            <4> SUFFICES ASSUME Last(x) = name PROVE FALSE
                OBVIOUS
            <4>1. x = current_path'
                BY <2>2, FsPathFacts, SearchAssumption DEF Clean, RootNode
            <4> QED BY <1>1, <2>2, <4>1
        <3> QED BY <3>1, <3>2
    <2>3. /\ IsDirect(Expected[trail].node)' = IsDirect(Expected[trail].node)
          /\ Children(Expected[trail].node)' = Children(Expected[trail].node)
        BY <1>1 DEF IsDirect, Children
    <2> QED BY <1>1, <2>1, <2>2, <2>3 DEF Promise
<1>4. \A i \in 1 .. Len(stack') :
          Promise(stack[i], SubSeq(trail, 1, i - 1), Expected, Clean, Here, Left)'
    <2> SUFFICES ASSUME NEW i \in 1 .. Len(stack)
                 PROVE Promise(stack[i], SubSeq(trail, 1, i - 1), Expected, Clean, Here, Left)'
        OBVIOUS
    <2>1. Promise(stack[i], SubSeq(trail, 1, i - 1), Expected, Clean, Here, Left)
        BY DEF Finding, Promises
    <2> QED BY <1>1, <2>1 DEF Promise, IsDirect, Children, Sure
<1>5. search' \in {"stat", "open"} /\ current_path' \in Clean' =>
          Judged' /\ (search' = "open" => (Type = "directory")')
    BY <1>1
<1>6. \A x \in Clean' \ Ahead' : IsReported(x)'
    BY <1>1 DEF Finding, IsReported
<1> QED BY <1>1, <1>3, <1>4, <1>5, <1>6 DEF Finding, Promises, Closed

(* What is known of the directory the search is in.                         *)
LEMMA TrailFacts ==
    ASSUME Finding, trail \in Clean \cup {RootNode}
    PROVE /\ Expected[trail].type = "directory"
          /\ Expected[trail].node \in DOMAIN nodes \cup {NoNode}
          /\ state.direct = IsDirect(Expected[trail].node)
          /\ ~state.direct =>
                /\ state.fallback = Expected[trail].policy
                /\ state.subnodes = Children(Expected[trail].node)
                /\ \A name \in state.must \cup state.may :
                      Append(trail, name) \in Clean => Append(trail, name) \in Here
          /\ state.direct => \A i \in 1 .. Len(state.subnodes) :
                                 state.subnodes[i] \in Range(Children(Expected[trail].node))
          /\ \A x \in Clean \cap Left :
                Up(x) = trail /\ Expected[x].type # "none" => Sure(state, Last(x))
BY DEF Finding, Promises, Promise

(* The path of a name in the directory.                                     *)
LEMMA NextPathFacts ==
    ASSUME Walking, Finding, NEW name \in STRING, NEW p, p = Append(trail, name), p \in Clean
    PROVE /\ p \in FsPaths /\ Up(p) = trail /\ Last(p) = name /\ KindAt(p) = fs[p]
          /\ trail \in Clean \cup {RootNode}
<1>1. trail \in Seq(STRING)
    BY DEF Walking
<1>2. p \in FsPaths /\ Up(p) = trail /\ Last(p) = name
    BY <1>1, AppendFacts DEF Up, Clean
<1> QED BY <1>2 DEF KindAt, Finding, Closed

(* A node that is tried is the only one for its path.                       *)
LEMMA TryNodeFinds ==
    ASSUME TreeInv, RegexInv, BelowInv, Walking, Finding, TryNode, search' \in {"next", "stat"}
    PROVE Finding'
<1> DEFINE list == state.subnodes
           q == Head(list)
           name == Last(q)
           p == Append(trail, name)
<1>1. /\ search = "next" /\ state.direct /\ list # <<>>
      /\ UNCHANGED <<fs, touched, nodes, ignored>>
      /\ state' = [state EXCEPT !.subnodes = Tail(list)]
    BY DEF TryNode, AtNext, Remaining, parserVars
<1>2. /\ FrameOK(state, trail, DOMAIN nodes, Ahead, Present) /\ trail \in Seq(STRING)
      /\ state \in Frame
    BY DEF Walking, FrameOK
<1>3. name \in STRING /\ q \in DOMAIN nodes
    BY <1>1, <1>2, HeadTaken
<1>4. Replaced(name) = p
    BY ReplacedFacts
<1>5. /\ current_path' = p /\ UNCHANGED <<stack, place, trail, found>>
      /\ search' = "stat" => step' = [node |-> q, policy |-> nodes[q].policy]
      /\ IF KindAt(p) # "none" THEN search' = "stat" ELSE search' = "next"
    BY <1>1, <1>4 DEF TryNode, Examine, Skip, DieAt, results
<1>6. /\ state'.direct = state.direct /\ state'.fallback = state.fallback
      /\ state'.subnodes = Tail(list)
    BY <1>1, <1>2 DEF Frame
<1>7. /\ list \in Seq(Seq(STRING) \ {<<>>}) /\ Len(list) \in Nat \ {0} /\ q = list[1]
      /\ 1 \in 1 .. Len(list)
      /\ \A i \in 1 .. Len(Tail(list)) : Tail(list)[i] = list[i + 1] /\ i + 1 \in 1 .. Len(list)
      /\ \A j \in 1 .. Len(list) : j # 1 => /\ j - 1 \in 1 .. Len(Tail(list))
                                            /\ Tail(list)[j - 1] = list[j]
    BY <1>1, <1>2 DEF Frame
<1>8. \A i \in 1 .. Len(state'.subnodes) : \E j \in 1 .. Len(list) : state'.subnodes[i] = list[j]
    BY <1>6, <1>7
<1>9. \A n : n # name /\ Sure(state, n) => Sure(state, n)'
    <2> SUFFICES ASSUME NEW n, n # name, NEW j \in 1 .. Len(list), Last(list[j]) = n
                 PROVE \E i \in 1 .. Len(Tail(list)) : Last(Tail(list)[i]) = n
        BY <1>1, <1>6 DEF Sure
    <2>1. j # 1
        BY <1>7
    <2> QED BY <1>7, <2>1
<1>10. ASSUME p \in Clean
       PROVE /\ search' = "next" => Expected[p].type = "none"
             /\ search' = "stat" => Judged'
    <2> DEFINE above == Expected[trail]
    <2>1. /\ p \in FsPaths /\ Up(p) = trail /\ Last(p) = name /\ KindAt(p) = fs[p]
          /\ trail \in Clean \cup {RootNode}
        BY <1>3, <1>10, NextPathFacts
    <2>2. /\ above.type = "directory" /\ above.node \in DOMAIN nodes \cup {NoNode}
          /\ IsDirect(above.node) /\ q \in Range(Children(above.node))
        BY <1>1, <1>7, <2>1, TrailFacts
    <2> HIDE DEF q, p
    <2>3. Own(above, p) = {q}
        BY <2>1, <2>2, DirectOwn
    <2>4. ASSUME search' = "next" PROVE Expected[p].type = "none"
        <3>1. fs[p] = "none"
            BY <1>5, <2>1, <2>4
        <3> QED BY <2>1, <3>1, ExpectedBelow DEF IsSeen
    <2>5. ASSUME search' = "stat" PROVE Judged'
        <3>1. fs[p] # "none"
            BY <1>5, <2>1, <2>5
        <3>2. Expected[p] = [node |-> q, policy |-> nodes[q].policy,
                             type |-> Stat(fs[p], Follows(q)), ambiguous |-> FALSE]
            BY <2>1, <2>2, <2>3, <3>1, OwnNode
        <3>3. Type' = Stat(fs[p], Follows(q))
            BY <1>1, <1>5, <2>1, <2>5 DEF Type, KindAt, Follows, Children
        <3>4. Expected' = Expected
            BY <1>1, SameExpected
        <3>5. current_path' = p /\ step'.node = q /\ step'.policy = nodes[q].policy
            BY <1>5, <2>5
        <3> QED BY <3>2, <3>3, <3>4, <3>5 DEF Judged
    <2> QED BY <2>4, <2>5
<1> HIDE DEF list, q, name, p
<1>11. current_path' = Append(trail, name) /\ search' \in {"next", "stat"}
    BY <1>5 DEF p
<1>12. current_path' \in Clean =>
          /\ search' = "next" => Expected[current_path'].type = "none"
          /\ search' = "stat" => Judged'
    BY <1>5, <1>10
<1> QED BY <1>1, <1>3, <1>5, <1>6, <1>8, <1>9, <1>11, <1>12, NameFound DEF list

(* A name from a stream is one of a file that is there, and the nodes that  *)
(* match it are those that its path is about.                               *)
LEMMA EntryFacts ==
    ASSUME TreeInv, Walking, Finding, NEW name, ReadEntry(name)
    PROVE LET p == Append(trail, name)
          IN /\ name \in STRING /\ Replaced(name) = p /\ p \in FsPaths
             /\ p \in Clean =>
                   /\ Up(p) = trail /\ fs[p] # "none" /\ KindAt(p) = fs[p]
                   /\ Expected[trail].type = "directory"
                   /\ Expected[trail].node \in DOMAIN nodes \cup {NoNode}
                   /\ state.fallback = Expected[trail].policy
                   /\ Own(Expected[trail], p) = Matching(name)
<1> DEFINE p == Append(trail, name)
<1>1. ~state.direct /\ name \in state.must \cup state.may
    BY DEF ReadEntry
<1>2. FrameOK(state, trail, DOMAIN nodes, Ahead, Present) /\ trail \in Seq(STRING)
    BY DEF Walking
<1>3. name \in STRING /\ p \in FsPaths
    <2>1. name \in STRING /\ p \in Ahead \cap Present
        BY <1>1, <1>2, NameTaken
    <2> QED BY <2>1 DEF Ahead
<1>4. Replaced(name) = p
    BY ReplacedFacts
<1>5. ASSUME p \in Clean
      PROVE /\ Up(p) = trail /\ fs[p] # "none" /\ KindAt(p) = fs[p]
            /\ Expected[trail].type = "directory"
            /\ Expected[trail].node \in DOMAIN nodes \cup {NoNode}
            /\ state.fallback = Expected[trail].policy
            /\ Own(Expected[trail], p) = Matching(name)
    <2>1. /\ Up(p) = trail /\ Last(p) = name /\ KindAt(p) = fs[p]
          /\ trail \in Clean \cup {RootNode}
        BY <1>3, <1>5, NextPathFacts
    <2>2. /\ Expected[trail].type = "directory"
          /\ Expected[trail].node \in DOMAIN nodes \cup {NoNode}
          /\ state.fallback = Expected[trail].policy
          /\ state.subnodes = Children(Expected[trail].node)
          /\ p \in Here
        BY <1>1, <1>5, <2>1, TrailFacts
    <2> HIDE DEF p
    <2> QED BY <2>1, <2>2 DEF Here, Own, Matching
<1> QED BY <1>3, <1>4, <1>5

(* What an entry of a stream leads to, or is skipped for, is what is        *)
(* expected of its path.                                                    *)
LEMMA EntryFinds ==
    ASSUME TreeInv, BelowInv, Walking, Finding, NEW name,
           MatchedEntry(name) \/ SkippedEntry(name) \/ FallbackEntry(name)
    PROVE Finding'
<1> DEFINE p == Append(trail, name)
           above == Expected[trail]
<1>1. /\ search = "next" /\ ~state.direct /\ name \in state.must \cup state.may
      /\ UNCHANGED <<fs, touched, nodes, ignored>> /\ ReadEntry(name)
      /\ state' = [state EXCEPT !.must = @ \ {name}, !.may = @ \ {name}]
    BY DEF MatchedEntry, SkippedEntry, FallbackEntry, ReadEntry, AtNext, parserVars
<1>2. state \in Frame
    BY DEF Walking, FrameOK
<1>3. /\ name \in STRING /\ Replaced(name) = p /\ p \in FsPaths
      /\ p \in Clean =>
            /\ Up(p) = trail /\ fs[p] # "none" /\ KindAt(p) = fs[p]
            /\ above.type = "directory" /\ above.node \in DOMAIN nodes \cup {NoNode}
            /\ state.fallback = above.policy /\ Own(above, p) = Matching(name)
    BY <1>1, EntryFacts
<1> HIDE DEF p, above
<1>4. /\ state'.direct = state.direct /\ state'.fallback = state.fallback
      /\ state'.subnodes = state.subnodes /\ state'.must = state.must \ {name}
      /\ state'.may = state.may \ {name}
    BY <1>1, <1>2 DEF Frame
<1>5. \A n : n # name /\ Sure(state, n) => Sure(state, n)'
    BY <1>1, <1>4 DEF Sure
<1>6. Expected' = Expected
    BY <1>1, SameExpected
<1>7. ASSUME NEW q, NEW policy, Examine(p, q, policy),
             p \in Clean => Expected[p] = [node |-> q, policy |-> policy,
                                           type |-> Stat(fs[p], Follows(q)), ambiguous |-> FALSE]
      PROVE /\ current_path' = p /\ search' = "stat" /\ UNCHANGED <<stack, place, trail, found>>
            /\ p \in Clean => Judged'
    <2>1. /\ current_path' = p /\ search' = "stat" /\ UNCHANGED <<stack, place, trail, found>>
          /\ step' = [node |-> q, policy |-> policy]
        BY <1>7 DEF Examine, results
    <2>2. ASSUME p \in Clean PROVE Judged'
        <3>1. Type' = Stat(fs[p], Follows(q))
            BY <1>1, <1>3, <2>1, <2>2 DEF Type, KindAt, Follows, Children
        <3>2. step'.node = q /\ step'.policy = policy
            BY <2>1
        <3> QED BY <1>6, <1>7, <2>1, <2>2, <3>1, <3>2 DEF Judged
    <2> QED BY <2>1, <2>2
<1>8. /\ current_path' = p /\ UNCHANGED <<stack, place, trail, found>>
      /\ search' \in {"next", "stat"}
      /\ p \in Clean => /\ search' = "next" => Expected[p].type = "none"
                        /\ search' = "stat" => Judged'
    <2>1. CASE MatchedEntry(name)
        <3>1. PICK q \in Matching(name) :
                  Matching(name) = {q} /\ Examine(p, q, nodes[q].policy)
            BY <1>3, <2>1 DEF MatchedEntry
        <3>2. p \in Clean => Expected[p] = [node |-> q, policy |-> nodes[q].policy,
                                            type |-> Stat(fs[p], Follows(q)), ambiguous |-> FALSE]
            BY <1>3, <3>1, OwnNode DEF above
        <3>3. p \in Clean => Judged'
            BY <1>7, <3>1, <3>2
        <3> QED BY <1>7, <3>1, <3>2, <3>3
    <2>2. CASE SkippedEntry(name)
        <3>1. /\ current_path' = p /\ search' = search /\ UNCHANGED <<stack, place, trail, found>>
              /\ Matching(name) = {} /\ (state.fallback = "none" \/ p \in ignored)
            BY <1>3, <2>2 DEF SkippedEntry, Skip, IsSkipped, results
        <3>2. p \in Clean => Expected[p].type = "none"
            BY <1>3, <3>1, OwnNone DEF above
        <3> QED BY <1>1, <3>1, <3>2
    <2>3. CASE FallbackEntry(name)
        <3>1. /\ Examine(p, NoNode, state.fallback) /\ Matching(name) = {}
              /\ state.fallback # "none" /\ p \notin ignored
            BY <1>3, <2>3 DEF FallbackEntry, IsSkipped
        <3>2. p \in Clean => Expected[p] = [node |-> NoNode, policy |-> state.fallback,
                                            type |-> Stat(fs[p], Follows(NoNode)),
                                            ambiguous |-> FALSE]
            BY <1>3, <3>1, OwnNone DEF above
        <3>3. p \in Clean => Judged'
            BY <1>7, <3>1, <3>2
        <3> QED BY <1>7, <3>1, <3>2, <3>3
    <2> QED BY <2>1, <2>2, <2>3
<1>9. current_path' \in Clean =>
          /\ search' = "next" => Expected[current_path'].type = "none"
          /\ search' = "stat" => Judged'
    BY <1>8
<1>10. /\ current_path' = Append(trail, name)
       /\ ~state.direct => /\ state'.subnodes = state.subnodes
                           /\ state'.must \cup state'.may \subseteq state.must \cup state.may
    BY <1>4, <1>8 DEF p
<1> QED BY <1>1, <1>3, <1>4, <1>5, <1>8, <1>9, <1>10, NameFound

-----------------------------------------------------------------------------
(* Deaths.  If nothing has changed, directories are what they were.         *)
LEMMA TrailDirectories ==
    ASSUME Walking, Finding, touched = {}, NEW q \in FsPaths, IsPrefix(q, trail)
    PROVE KindAt(q) \in {"directory", "directoryLink"}
<1>1. Clean = FsPaths /\ q # <<>> /\ q \in Seq(STRING)
    BY SearchAssumption DEF Clean
<1>2. trail \in Seq(STRING) /\ Len(stack) = Len(trail) /\ Len(stack) \in Nat
    BY DEF Walking
<1>3. Expected[q].type = "directory"
    <2>1. CASE q = trail
        BY <1>1, <2>1, TrailFacts
    <2>2. CASE q # trail
        <3>1. /\ Len(q) <= Len(trail) /\ \A i \in 1 .. Len(q) : q[i] = trail[i]
            BY <1>1, <1>2, PrefixFacts
        <3>2. Len(q) \in Nat \ {0} /\ Len(q) # Len(trail)
            BY <1>1, <1>2, <2>2, <3>1, SeqEqual
        <3>3. Len(q) + 1 \in 1 .. Len(stack) /\ Len(q) \in 0 .. Len(trail)
              /\ (Len(q) + 1) - 1 = Len(q)
            BY <1>2, <3>1, <3>2
        <3>4. SubSeq(trail, 1, Len(q)) = q
            <4>1. /\ SubSeq(trail, 1, Len(q)) \in Seq(STRING)
                  /\ Len(SubSeq(trail, 1, Len(q))) = Len(q)
                  /\ \A i \in 1 .. Len(q) : SubSeq(trail, 1, Len(q))[i] = trail[i]
                BY <1>2, <3>3, CutFacts
            <4> QED BY <1>1, <3>1, <4>1, SeqEqual
        <3>5. Promise(stack[Len(q) + 1], q, Expected, Clean, Here, Left)
            BY <3>3, <3>4 DEF Finding, Promises
        <3> QED BY <1>1, <3>5 DEF Promise
    <2> QED BY <2>1, <2>2
<1>4. "directory" # "none"
    OBVIOUS
<1>5. Stat(fs[q], LeadsOn(Expected[q].node)) = "directory"
    BY <1>3, <1>4, ExpectedBelow
<1> QED BY <1>5, StatFacts DEF KindAt

(* A name is only in the way of a subnode if somebody has changed the       *)
(* files.                                                                   *)
LEMMA TryNodeDies ==
    ASSUME TreeInv, Walking, Finding, TryNode, search' = "died"
    PROVE touched # {}
<1> SUFFICES ASSUME touched = {} PROVE FALSE
    OBVIOUS
<1> DEFINE name == Last(Head(state.subnodes))
           p == Append(trail, name)
<1>1. /\ state.direct /\ state.subnodes # <<>> /\ search = "next" /\ InTheWay(Replaced(name))
    BY DEF TryNode, AtNext, Examine, Skip
<1>2. FrameOK(state, trail, DOMAIN nodes, Ahead, Present) /\ trail \in Seq(STRING)
    BY DEF Walking
<1>3. name \in STRING
    BY <1>1, <1>2, HeadTaken
<1>4. p \in Seq(STRING) /\ p # <<>> /\ Up(p) = trail /\ Replaced(name) = p
    BY <1>2, <1>3, AppendFacts, ReplacedFacts DEF Up
<1> HIDE DEF p
<1>5. PICK q \in Prefixes(p) \ {<<>>, p} : KindAt(q) \in {"file", "fileLink", "other"}
    BY <1>1, <1>4 DEF InTheWay
<1>6. q \in FsPaths /\ q \in Seq(STRING)
    BY <1>5, SearchAssumption DEF KindAt
<1>7. IsPrefix(q, trail)
    BY <1>4, <1>5, <1>6, PrefixFacts, UpFacts
<1> QED BY <1>5, <1>6, <1>7, TrailDirectories

(* If two expressions match an entry, they match a path that exists.        *)
LEMMA AmbiguousDies ==
    ASSUME TreeInv, Walking, Finding, NEW name, AmbiguousEntry(name)
    PROVE Died'
<1>1. /\ ReadEntry(name) /\ Cardinality(Matching(name)) > 1
      /\ UNCHANGED <<fs, touched, nodes, ignored>>
    BY DEF AmbiguousEntry, ReadEntry, AtNext, parserVars
<1> SUFFICES ASSUME touched = {} PROVE \E p \in FsPaths : Expected'[p].ambiguous
    BY <1>1 DEF Died
<1> DEFINE p == Append(trail, name)
<1>2. /\ p \in FsPaths /\ Up(p) = trail /\ fs[p] # "none" /\ Expected[trail].type = "directory"
      /\ Own(Expected[trail], p) = Matching(name)
    BY <1>1, EntryFacts DEF Clean
<1> HIDE DEF p
<1>3. Expected[p].ambiguous
    BY <1>1, <1>2, ExpectedBelow DEF IsSeen
<1> QED BY <1>1, <1>2, <1>3, SameExpected

(* A path that cannot be read, or is not a directory any more, is a broken  *)
(* link or was changed.                                                     *)
LEMMA StatDies ==
    ASSUME Walking, Finding, StatFails \/ OpenFails
    PROVE Died'
<1>1. UNCHANGED <<fs, touched, nodes, ignored, stack, stackCapacity, current_path, step>>
    BY DEF StatFails, OpenFails, parserVars, iterator
<1> SUFFICES ASSUME touched = {}, ~StackOverflows
             PROVE \E p \in FsPaths : Expected'[p].type = "error"
    BY <1>1 DEF Died, StackOverflows, StackFull
<1>2. search \in {"stat", "open"}
    BY DEF StatFails, OpenFails
<1>3. current_path \in FsPaths /\ current_path \in Clean
    BY <1>2 DEF Walking, InHand, Ahead, Clean
<1>4. Judged /\ (search = "open" => Type = "directory")
    BY <1>2, <1>3 DEF Finding
<1>5. Type = "error"
    <2>1. CASE StatFails
        BY <2>1 DEF StatFails
    <2>2. CASE OpenFails
        <3>1. search = "open" /\ KindAt(current_path) \notin {"directory", "directoryLink"}
            BY <2>2 DEF OpenFails, CannotOpen
        <3> QED BY <1>4, <3>1, StatFacts DEF Type
    <2> QED BY <2>1, <2>2
<1>6. Expected[current_path].type = "error"
    BY <1>4, <1>5 DEF Judged
<1> QED BY <1>1, <1>3, <1>6, SameExpected

-----------------------------------------------------------------------------
(* A result is reported.                                                    *)
LEMMA PathFound ==
    ASSUME Walking, Finding, search \in {"stat", "open"}, DOMAIN found = FsPaths,
           UNCHANGED <<fs, touched, nodes, ignored>>, Report(Type),
           Ahead' = Ahead \ {current_path}, Type \in FileTypes
    PROVE /\ Expected' = Expected /\ Clean' = Clean /\ Here' = Here /\ Ahead' = Left /\ Closed'
          /\ \A x \in Clean' \ Ahead' : IsReported(x)'
<1>1. Expected' = Expected /\ Clean' = Clean /\ Here' = Here /\ Ahead' = Left
    BY SameExpected DEF Clean, Here, Left
<1>2. Closed'
    BY <1>1 DEF Finding, Closed
<1>3. current_path \in FsPaths
    BY DEF Walking, InHand, Ahead
<1>4. ASSUME NEW x \in Clean, x \notin Ahead' PROVE IsReported(x)'
    <2>1. CASE x = current_path
        <3>1. Judged
            BY <1>4, <2>1 DEF Finding
        <3>2. found'[x] = [type |-> Type, node |-> step.node, policy |-> step.policy]
            BY <1>3, <2>1 DEF Report
        <3>3. Expected'[x] = [node |-> step.node, policy |-> step.policy, type |-> Type,
                              ambiguous |-> FALSE]
            BY <1>1, <2>1, <3>1 DEF Judged
        <3> QED BY <3>2, <3>3 DEF IsReported
    <2>2. CASE x # current_path
        <3>1. IsReported(x)
            BY <1>4, <2>2 DEF Finding
        <3>2. found'[x] = found[x]
            BY <1>4, <2>2 DEF Report, Clean
        <3> QED BY <1>1, <3>1, <3>2 DEF IsReported
    <2> QED BY <2>1, <2>2
<1> QED BY <1>1, <1>2, <1>4

(* What a state knows is still true after a step that changes no file.      *)
LEMMA SamePromise ==
    ASSUME UNCHANGED <<fs, touched, nodes, ignored>>, Left' = Left, NEW s, NEW d,
           Promise(s, d, Expected, Clean, Here, Left)
    PROVE /\ state' = s /\ trail' = d => Promise(state, trail, Expected, Clean, Here, Left)'
          /\ \A i : stack'[i] = s /\ SubSeq(trail', 1, i - 1) = d =>
                Promise(stack[i], SubSeq(trail, 1, i - 1), Expected, Clean, Here, Left)'
<1>1. /\ Expected' = Expected /\ Clean' = Clean /\ Here' = Here /\ nodes' = nodes
      /\ \A q : IsDirect(q)' = IsDirect(q) /\ Children(q)' = Children(q)
    BY SameExpected DEF Clean, Here, IsDirect, Children
<1>2. ASSUME state' = s, trail' = d PROVE Promise(state, trail, Expected, Clean, Here, Left)'
    BY <1>1, <1>2 DEF Promise, Sure
<1>3. ASSUME NEW i, stack'[i] = s, SubSeq(trail', 1, i - 1) = d
      PROVE Promise(stack[i], SubSeq(trail, 1, i - 1), Expected, Clean, Here, Left)'
    BY <1>1, <1>3 DEF Promise, Sure
<1> QED BY <1>2, <1>3

(* A file is reported with the type, node and policy that are expected.     *)
LEMMA FoundFileFinds ==
    ASSUME Walking, Finding, DOMAIN found = FsPaths,
           place \in [FsPaths -> {"ahead", "inside", "behind"}], FoundFile
    PROVE Finding'
<1>1. /\ search = "stat" /\ search' = "next" /\ Type \notin {"error", "directory"} /\ Report(Type)
      /\ place' = [place EXCEPT ![current_path] = "behind"]
      /\ UNCHANGED <<fs, touched, nodes, ignored, state, stack, trail, current_path>>
    BY DEF FoundFile, parserVars, iterator
<1>2. Type \in FileTypes
    BY <1>1, StatFacts DEF Type
<1>3. current_path \in FsPaths /\ current_path \in Ahead
    BY <1>1 DEF Walking, InHand, Ahead
<1>4. Ahead' = Ahead \ {current_path}
    BY <1>1, <1>3 DEF Ahead
<1>5. /\ Expected' = Expected /\ Clean' = Clean /\ Here' = Here /\ Ahead' = Left /\ Closed'
      /\ \A x \in Clean' \ Ahead' : IsReported(x)'
    BY <1>1, <1>2, <1>4, PathFound
<1>6. Left' = Left
    BY <1>1, <1>5 DEF Left
<1>7. ASSUME NEW x \in Clean, x \in Ahead', Up(x) # RootNode, place'[Up(x)] = "behind"
      PROVE Expected'[x].type = "none"
    <2>1. x \in FsPaths /\ Up(x) \in Clean
        BY <1>7 DEF Clean, Finding, Closed
    <2>2. CASE Up(x) = current_path
        <3>1. Expected[Up(x)].type # "directory"
            BY <1>1, <2>1, <2>2 DEF Finding, Judged
        <3> QED BY <1>5, <2>1, <3>1, ExpectedBelow DEF IsSeen
    <2>3. CASE Up(x) # current_path
        <3>1. place[Up(x)] = "behind"
            BY <1>1, <1>7, <2>1, <2>3 DEF Clean
        <3> QED BY <1>4, <1>5, <1>7, <3>1 DEF Finding
    <2> QED BY <2>2, <2>3
<1>8. \A x \in FsPaths : place'[x] = "inside" => IsPrefix(x, trail')
    BY <1>1 DEF Finding
<1>9. Promises'
    <2>1. /\ Promise(state, trail, Expected, Clean, Here, Left)
          /\ \A i \in 1 .. Len(stack) :
                Promise(stack[i], SubSeq(trail, 1, i - 1), Expected, Clean, Here, Left)
        BY DEF Finding, Promises
    <2>2. Promise(state, trail, Expected, Clean, Here, Left)'
        BY <1>1, <1>6, <2>1, SamePromise
    <2>3. ASSUME NEW i \in 1 .. Len(stack)
          PROVE Promise(stack[i], SubSeq(trail, 1, i - 1), Expected, Clean, Here, Left)'
        BY <1>1, <1>6, <2>1, SamePromise
    <2> QED BY <1>1, <2>2, <2>3 DEF Promises
<1> QED BY <1>1, <1>5, <1>7, <1>8, <1>9 DEF Finding

(* So is a directory, once it has been opened.                              *)
LEMMA FoundDirectoryFinds ==
    ASSUME Walking, Finding, FoundDirectory
    PROVE Finding'
<1>1. /\ search = "stat" /\ search' = "open" /\ Type = "directory"
      /\ UNCHANGED <<fs, touched, nodes, ignored, state, stack, trail, current_path, step,
                     place, found>>
    BY DEF FoundDirectory, parserVars, iterator
<1>2. /\ Expected' = Expected /\ Clean' = Clean /\ Here' = Here /\ Ahead' = Ahead /\ Left' = Left
    BY <1>1, SameExpected DEF Clean, Here, Ahead, Left
<1>3. /\ Closed' /\ \A x \in Clean' \ Ahead' : IsReported(x)'
    BY <1>1, <1>2 DEF Finding, Closed, IsReported
<1>4. \A x \in Clean' \cap Ahead' :
          Up(x) # RootNode /\ place'[Up(x)] = "behind" => Expected'[x].type = "none"
    BY <1>1, <1>2 DEF Finding
<1>5. \A x \in FsPaths : place'[x] = "inside" => IsPrefix(x, trail')
    BY <1>1 DEF Finding
<1>6. Promises'
    <2>1. /\ Promise(state, trail, Expected, Clean, Here, Left)
          /\ \A i \in 1 .. Len(stack) :
                Promise(stack[i], SubSeq(trail, 1, i - 1), Expected, Clean, Here, Left)
        BY DEF Finding, Promises
    <2>2. Promise(state, trail, Expected, Clean, Here, Left)'
        BY <1>1, <1>2, <2>1, SamePromise
    <2>3. ASSUME NEW i \in 1 .. Len(stack)
          PROVE Promise(stack[i], SubSeq(trail, 1, i - 1), Expected, Clean, Here, Left)'
        BY <1>1, <1>2, <2>1, SamePromise
    <2> QED BY <1>1, <2>2, <2>3 DEF Promises
<1>7. current_path' \in Clean' => Judged' /\ Type' = "directory"
    <2>1. Type' = Type
        BY <1>1 DEF Type, KindAt, Follows, Children
    <2> QED BY <1>1, <1>2, <2>1 DEF Finding, Judged
<1> QED BY <1>1, <1>3, <1>4, <1>5, <1>6, <1>7 DEF Finding

(* A directory is entered that nothing has been taken from yet.             *)
LEMMA OpenDirectoryFinds ==
    ASSUME TreeInv, RegexInv, Walking, Finding, DOMAIN found = FsPaths,
           place \in [FsPaths -> {"ahead", "inside", "behind"}], OpenDirectory
    PROVE Finding'
<1>1. /\ search = "open" /\ search' = "next" /\ Report("directory")
      /\ place' = [place EXCEPT ![current_path] = "inside"]
      /\ stack' = Append(stack, state) /\ trail' = current_path
      /\ state' = DirectoryState(current_path, step.node, step.policy)
      /\ UNCHANGED <<fs, touched, nodes, ignored, current_path>>
    BY DEF OpenDirectory, Opened, parserVars
<1>2. /\ InHand /\ trail \in Seq(STRING) /\ stack \in Seq(Frame) /\ Len(stack) = Len(trail)
      /\ current_path \in Seq(STRING) /\ Len(trail) <= Len(current_path)
      /\ SubSeq(current_path, 1, Len(trail)) = trail /\ state \in Frame
    BY <1>1 DEF Walking, FrameOK
<1>3. /\ current_path \in FsPaths /\ current_path \in Ahead /\ Up(current_path) = trail
      /\ current_path # <<>> /\ current_path # RootNode
    BY <1>2, SearchAssumption DEF InHand, Ahead, Up, RootNode
<1>4. Ahead' = Ahead \ {current_path}
    BY <1>1, <1>3 DEF Ahead
<1>5. current_path \in Clean => Judged /\ Type = "directory"
    BY <1>1 DEF Finding
<1>6. /\ Expected' = Expected /\ Clean' = Clean /\ Here' = Here /\ Closed' /\ Left' = Left
    BY <1>1, <1>4, SameExpected DEF Clean, Here, Finding, Closed, Left
<1>7. \A x \in Clean' \ Ahead' : IsReported(x)'
    <2>1. CASE Type = "directory"
        <3>1. Report(Type) /\ Type \in FileTypes
            BY <1>1, <2>1 DEF Report, FileTypes
        <3> QED BY <1>1, <1>4, <3>1, PathFound
    <2>2. CASE Type # "directory"
        <3> SUFFICES ASSUME NEW x \in Clean, x \notin Ahead' PROVE IsReported(x)'
            BY <1>6
        <3>1. x # current_path
            BY <1>5, <2>2
        <3>2. IsReported(x)
            BY <1>4, <3>1 DEF Finding
        <3>3. found'[x] = found[x]
            BY <1>1, <3>1 DEF Report, Clean
        <3> QED BY <1>6, <3>2, <3>3 DEF IsReported
    <2> QED BY <2>1, <2>2
<1>8. ASSUME NEW x \in Clean, x \in Ahead', Up(x) # RootNode, place'[Up(x)] = "behind"
      PROVE Expected'[x].type = "none"
    <2>1. x \in FsPaths /\ Up(x) \in FsPaths
        BY <1>8 DEF Clean, Finding, Closed
    <2>2. place[Up(x)] = "behind"
        BY <1>1, <1>8, <2>1
    <2> QED BY <1>4, <1>6, <1>8, <2>2 DEF Finding
<1>9. ASSUME NEW x \in FsPaths, place'[x] = "inside" PROVE IsPrefix(x, trail')
    <2>1. x \in Seq(STRING)
        BY SearchAssumption
    <2>2. CASE x = current_path
        BY <1>1, <2>1, <2>2, PrefixOrder
    <2>3. CASE x # current_path
        <3>1. IsPrefix(x, trail)
            BY <1>1, <1>9, <2>3 DEF Finding
        <3> QED BY <1>1, <1>2, <1>3, <2>1, <3>1, UpFacts
    <2> QED BY <2>2, <2>3
<1>10. Promise(state, trail, Expected, Clean, Here, Left)'
    <2> DEFINE q == step.node
               d == current_path
    <2>1. q \in DOMAIN nodes \cup {NoNode} /\ d \in FsPaths \cup {RootNode}
        BY <1>2, <1>3 DEF InHand
    <2>2. /\ state'.direct = IsDirect(q) /\ state'.subnodes = Children(q) /\ state'.may = {}
          /\ ~state'.direct => state'.fallback = step.policy /\ state'.must = NamesIn(fs, d)
        BY <1>1 DEF DirectoryState
    <2>3. ASSUME d \in Clean \cup {RootNode}
          PROVE /\ Expected[d].type = "directory" /\ Expected[d].node = q
                /\ Expected[d].policy = step.policy /\ (q # NoNode => step.policy = nodes[q].policy)
        <3>1. /\ Expected[d].type = "directory" /\ Expected[d].node = q
              /\ Expected[d].policy = step.policy
            BY <1>3, <1>5, <2>3 DEF Judged
        <3>2. Own(Expected[Up(d)], d) = {} => Expected[d].node = NoNode
            BY <1>3, ExpectedBelow
        <3>3. Own(Expected[Up(d)], d) # {} => Expected[d].policy = nodes[Expected[d].node].policy
            BY <1>3, ExpectedBelow
        <3> QED BY <3>1, <3>2, <3>3
    <2>4. Clean \in SUBSET FsPaths
        BY DEF Clean
    <2> HIDE DEF q, d
    <2>5. Promise(state', d, Expected, Clean, Here, Left)
        BY <2>1, <2>2, <2>3, <2>4, NewPromise
    <2>6. trail' = d
        BY <1>1 DEF d
    <2> QED BY <1>1, <1>6, <2>5, <2>6, SamePromise
<1>11. ASSUME NEW i \in 1 .. Len(stack')
       PROVE Promise(stack[i], SubSeq(trail, 1, i - 1), Expected, Clean, Here, Left)'
    <2>1. /\ Len(stack') = Len(stack) + 1 /\ stack'[Len(stack) + 1] = state
          /\ \A j \in 1 .. Len(stack) : stack'[j] = stack[j]
        BY <1>1, <1>2
    <2>2. CASE i = Len(stack) + 1
        <3>1. SubSeq(trail', 1, i - 1) = trail /\ stack'[i] = state
            BY <1>1, <1>2, <2>1, <2>2
        <3>2. Promise(state, trail, Expected, Clean, Here, Left)
            BY DEF Finding, Promises
        <3> QED BY <1>1, <1>6, <3>1, <3>2, SamePromise
    <2>3. CASE i # Len(stack) + 1
        <3>1. /\ i \in 1 .. Len(stack) /\ i - 1 \in 0 .. Len(trail)
              /\ Len(trail) \in 0 .. Len(current_path)
            BY <1>2, <2>1, <2>3
        <3>2. SubSeq(trail', 1, i - 1) = SubSeq(trail, 1, i - 1) /\ stack'[i] = stack[i]
            <4>1. SubSeq(SubSeq(current_path, 1, Len(trail)), 1, i - 1)
                      = SubSeq(current_path, 1, i - 1)
                BY <1>2, <3>1, CutFacts
            <4> QED BY <1>1, <1>2, <2>1, <3>1, <4>1
        <3>3. Promise(stack[i], SubSeq(trail, 1, i - 1), Expected, Clean, Here, Left)
            BY <3>1 DEF Finding, Promises
        <3> QED BY <1>1, <1>6, <3>2, <3>3, SamePromise
    <2> QED BY <2>2, <2>3
<1>12. \A x \in Clean' \cap Ahead' :
           Up(x) # RootNode /\ place'[Up(x)] = "behind" => Expected'[x].type = "none"
    BY <1>6, <1>8
<1> QED BY <1>1, <1>6, <1>7, <1>9, <1>10, <1>11, <1>12 DEF Finding, Promises

(* A directory that is left holds nothing any more.                         *)
LEMMA Exhausted ==
    ASSUME Walking, Finding, EndOfDirectory, NEW x \in Clean \cap Ahead, Up(x) = trail
    PROVE Expected[x].type = "none"
<1>1. search = "next" /\ IF state.direct THEN state.subnodes = <<>> ELSE state.must = {}
    BY DEF EndOfDirectory, AtNext
<1>2. ~Sure(state, Last(x))
    BY <1>1 DEF Sure
<1>3. x \in Clean \cap Left /\ trail \in Clean \cup {RootNode}
    BY <1>1 DEF Left, Finding, Closed
<1> QED BY <1>2, <1>3, TrailFacts

(* When a directory ends, every expected path in it has been reported, so   *)
(* it may be left.                                                          *)
LEMMA EndOfDirectoryFinds ==
    ASSUME Walking, Finding, place \in [FsPaths -> {"ahead", "inside", "behind"}],
           EndOfDirectory, stack # <<>>
    PROVE Finding'
<1>1. /\ search = "next" /\ search' = "next" /\ state' = Last(stack) /\ stack' = Front(stack)
      /\ place' = [place EXCEPT ![trail] = "behind"] /\ trail' = Up(trail)
      /\ UNCHANGED <<fs, touched, nodes, ignored, current_path, found>>
    BY DEF EndOfDirectory, AtNext, parserVars
<1>2. /\ trail \in Seq(STRING) /\ stack \in Seq(Frame) /\ Len(stack) = Len(trail)
      /\ trail # <<>> /\ Len(trail) \in Nat \ {0}
    BY DEF Walking
<1>3. trail \in FsPaths \ Ahead
    BY <1>2 DEF Walking
<1>4. Ahead' = Ahead
    BY <1>1, <1>3 DEF Ahead
<1>5. /\ Expected' = Expected /\ Clean' = Clean /\ Here' = Here /\ Closed' /\ Left' = Left
    BY <1>1, <1>4, SameExpected DEF Clean, Here, Finding, Closed, Left
<1>6. \A x \in Clean' \ Ahead' : IsReported(x)'
    BY <1>1, <1>4, <1>5 DEF Finding, IsReported
<1>7. ASSUME NEW x \in Clean \cap Ahead, Up(x) # RootNode, place'[Up(x)] = "behind"
      PROVE Expected[x].type = "none"
    <2>1. Up(x) \in FsPaths
        BY <1>7 DEF Clean, Finding, Closed
    <2>2. CASE Up(x) = trail
        BY <1>7, <2>2, Exhausted
    <2>3. CASE Up(x) # trail
        <3>1. place[Up(x)] = "behind"
            BY <1>1, <1>7, <2>1, <2>3
        <3> QED BY <1>7, <3>1 DEF Finding
    <2> QED BY <2>2, <2>3
<1>8. ASSUME NEW x \in FsPaths, place'[x] = "inside" PROVE IsPrefix(x, trail')
    <2>1. x \in Seq(STRING)
        BY SearchAssumption
    <2>2. x # trail /\ place[x] = "inside"
        BY <1>1, <1>8
    <2>3. IsPrefix(x, trail)
        BY <2>2 DEF Finding
    <2> QED BY <1>1, <1>2, <2>1, <2>2, <2>3, UpFacts
<1>9. /\ Len(stack') = Len(stack) - 1 /\ state' = stack[Len(stack)]
      /\ \A i \in 1 .. Len(stack) - 1 : stack'[i] = stack[i]
      /\ trail' = SubSeq(trail, 1, Len(trail) - 1)
    BY <1>1, <1>2, FrontFacts DEF Last, Front, Up
<1>10. Promise(state, trail, Expected, Clean, Here, Left)'
    <2>1. Len(stack) \in 1 .. Len(stack)
        BY <1>2
    <2>2. Promise(stack[Len(stack)], SubSeq(trail, 1, Len(stack) - 1), Expected, Clean, Here, Left)
        BY <2>1 DEF Finding, Promises
    <2> QED BY <1>1, <1>2, <1>5, <1>9, <2>2, SamePromise
<1>11. ASSUME NEW i \in 1 .. Len(stack')
       PROVE Promise(stack[i], SubSeq(trail, 1, i - 1), Expected, Clean, Here, Left)'
    <2>1. /\ i \in 1 .. Len(stack) - 1 /\ i \in 1 .. Len(stack)
          /\ Len(trail) - 1 \in 0 .. Len(trail) /\ i - 1 \in 0 .. Len(trail) - 1
        BY <1>2, <1>9
    <2>2. SubSeq(SubSeq(trail, 1, Len(trail) - 1), 1, i - 1) = SubSeq(trail, 1, i - 1)
        BY <1>2, <2>1, CutFacts
    <2>3. Promise(stack[i], SubSeq(trail, 1, i - 1), Expected, Clean, Here, Left)
        BY <2>1 DEF Finding, Promises
    <2> QED BY <1>1, <1>5, <1>9, <2>1, <2>2, <2>3, SamePromise
<1>12. \A x \in Clean' \cap Ahead' :
           Up(x) # RootNode /\ place'[Up(x)] = "behind" => Expected'[x].type = "none"
    BY <1>4, <1>5, <1>7
<1> QED BY <1>1, <1>5, <1>6, <1>8, <1>10, <1>11, <1>12 DEF Finding, Promises

(* When the root directory ends, so does the search, and nothing is         *)
(* missing.                                                                 *)
LEMMA EndedFinds ==
    ASSUME Walking, Finding, place \in [FsPaths -> {"ahead", "inside", "behind"}],
           EndOfDirectory, stack = <<>>
    PROVE Finished'
<1>1. search = "next" /\ UNCHANGED <<fs, touched, nodes, ignored, place, found>>
    BY DEF EndOfDirectory, AtNext, parserVars, results
<1>2. trail = RootNode
    BY DEF Walking, RootNode
<1>3. /\ Expected' = Expected /\ Clean' = Clean /\ Ahead' = Ahead
    BY <1>1, SameExpected DEF Clean, Ahead
<1>4. Closed' /\ \A x \in Clean' \ Ahead' : IsReported(x)'
    BY <1>1, <1>3 DEF Finding, Closed, IsReported
<1>5. ASSUME NEW x \in Clean \cap Ahead, Up(x) \notin Ahead PROVE Expected[x].type = "none"
    <2>1. CASE Up(x) = RootNode
        BY <1>2, <2>1, Exhausted
    <2>2. CASE Up(x) # RootNode
        <3>1. Up(x) \in FsPaths
            BY <2>2 DEF Clean, Finding, Closed
        <3>2. place[Up(x)] # "inside"
            <4> SUFFICES ASSUME IsPrefix(Up(x), trail) PROVE FALSE
                BY <3>1 DEF Finding
            <4>1. Up(x) \in Seq(STRING) /\ <<>> \in Seq(STRING) /\ RootNode = <<>>
                BY <3>1, SearchAssumption DEF RootNode
            <4> QED BY <1>2, <2>2, <4>1, PrefixOrder
        <3>3. place[Up(x)] = "behind"
            BY <1>5, <3>1, <3>2 DEF Ahead
        <3> QED BY <2>2, <3>3 DEF Finding
    <2> QED BY <2>1, <2>2
<1>6. \A x \in Clean' \cap Ahead' : Up(x) \notin Ahead' => Expected'[x].type = "none"
    BY <1>3, <1>5
<1> QED BY <1>4, <1>6 DEF Finished

-----------------------------------------------------------------------------
(* Files change.  What is clean then has not changed, and is in a directory *)
(* that has not changed.                                                    *)
LEMMA StillClean ==
    ASSUME NEW p \in FsPaths, NEW kind, Interfere(p, kind)
    PROVE /\ Clean = FsPaths /\ Clean' = {x \in FsPaths : ~IsPrefix(p, x)} /\ Closed'
          /\ \A x \in Clean' : fs'[x] = fs[x]
          /\ \A x \in Clean' \cup {RootNode} : Expected'[x] = Expected[x]
<1>1. /\ touched = {} /\ touched' = {q \in FsPaths : IsPrefix(p, q)}
      /\ fs' = AfterChange(p, kind) /\ UNCHANGED <<nodes, ignored>>
    BY DEF Interfere, parserVars
<1>2. Clean = FsPaths /\ Clean' = {x \in FsPaths : ~IsPrefix(p, x)}
    BY <1>1 DEF Clean
<1>3. p \in Seq(STRING)
    BY SearchAssumption
<1>4. ASSUME NEW x \in Clean' PROVE fs'[x] = fs[x] /\ Up(x) \in Clean' \cup {RootNode}
    <2>1. x \in FsPaths /\ ~IsPrefix(p, x) /\ x # p /\ x \in Seq(STRING) /\ x # <<>>
        BY <1>2, <1>3, PrefixOrder, SearchAssumption
    <2>2. fs'[x] = fs[x]
        BY <1>1, <2>1 DEF AfterChange, Above
    <2>3. ~IsPrefix(p, Up(x))
        BY <1>3, <2>1, UpFacts
    <2> QED BY <1>2, <2>1, <2>2, <2>3, SearchAssumption
<1>5. Closed'
    BY <1>4 DEF Closed
<1>6. \A x \in Clean' \cup {RootNode} : Expected'[x] = Expected[x]
    <2> DEFINE C == Clean'
    <2>1. C \in SUBSET FsPaths
        BY <1>2
    <2>2. \A x \in C : fs'[x] = fs[x] /\ Up(x) \in C \cup {RootNode}
        BY <1>4
    <2> HIDE DEF C
    <2>3. \A x \in C \cup {RootNode} : Expected'[x] = Expected[x]
        BY <1>1, <2>1, <2>2, ExpectedKept
    <2> QED BY <2>3 DEF C
<1> QED BY <1>2, <1>4, <1>5, <1>6

(* A stream still returns what has not changed.                             *)
LEMMA StreamPromises ==
    ASSUME NEW p \in FsPaths, NEW kind, Interfere(p, kind), Left' = Left,
           NEW s \in Frame, NEW d \in Seq(STRING),
           Promise(s, d, Expected, Clean, Here, Left)
    PROVE Promise(StreamAfter(s, d, p), d, Expected', Clean', Here', Left')
<1> DEFINE t == StreamAfter(s, d, p)
<1>1. /\ Clean = FsPaths /\ Clean' = {x \in FsPaths : ~IsPrefix(p, x)}
      /\ \A x \in Clean' : fs'[x] = fs[x]
      /\ \A x \in Clean' \cup {RootNode} : Expected'[x] = Expected[x]
    BY StillClean
<1> SUFFICES ASSUME d \in Clean' \cup {RootNode}
             PROVE Promise(t, d, Expected', Clean', Here', Left')
    BY DEF Promise
<1>2. p \in Seq(STRING) /\ p # <<>> /\ Append(Up(p), Last(p)) = p /\ p \notin Clean'
    BY <1>1, SearchAssumption, FrontFacts, PrefixOrder DEF Up
<1>3. ~IsPrefix(p, d)
    <2>1. <<>> \in Seq(STRING)
        OBVIOUS
    <2> QED BY <1>1, <1>2, <2>1, PrefixOrder DEF RootNode
<1>4. d \in Clean \cup {RootNode}
    BY <1>1
<1>5. /\ Expected'[d] = Expected[d]
      /\ Expected[d].type = "directory" /\ Expected[d].node \in DOMAIN nodes \cup {NoNode}
      /\ s.direct = IsDirect(Expected[d].node)
      /\ ~s.direct =>
            /\ s.fallback = Expected[d].policy /\ s.subnodes = Children(Expected[d].node)
            /\ \A name \in s.must \cup s.may : Append(d, name) \in Clean => Append(d, name) \in Here
      /\ s.direct => \A i \in 1 .. Len(s.subnodes) :
                         s.subnodes[i] \in Range(Children(Expected[d].node))
      /\ \A x \in Clean \cap Left : Up(x) = d /\ Expected[x].type # "none" => Sure(s, Last(x))
    BY <1>1, <1>4 DEF Promise
<1>6. /\ t.direct = s.direct /\ t.fallback = s.fallback /\ t.subnodes = s.subnodes
      /\ \A name \in STRING : Append(d, name) # p =>
            /\ name \in t.must \cup t.may => name \in s.must \cup s.may
            /\ name \in s.must => name \in t.must
      /\ t.must \cup t.may \in SUBSET STRING
    <2>1. CASE t = s
        BY <2>1 DEF Frame
    <2>2. CASE t # s
        <3>1. ~s.direct /\ d = Up(p)
            BY <1>3, <2>2 DEF StreamAfter
        <3> DEFINE may == IF Last(p) \in s.must \/ fs[p] = "none" THEN s.may \cup {Last(p)}
                          ELSE s.may
        <3>2. t = [s EXCEPT !.must = s.must \ {Last(p)}, !.may = may]
            BY <3>1 DEF StreamAfter
        <3>3. may \in SUBSET STRING /\ \A name \in may : name \in s.may \/ name = Last(p)
            BY <1>2, SearchAssumption, FrontFacts DEF Frame
        <3> HIDE DEF t, may
        <3>4. /\ t.direct = s.direct /\ t.fallback = s.fallback /\ t.subnodes = s.subnodes
              /\ t.must = s.must \ {Last(p)} /\ t.may = may
            BY <3>2 DEF Frame
        <3>5. Append(d, Last(p)) = p /\ s.must \in SUBSET STRING
            BY <1>2, <3>1 DEF Frame
        <3> QED BY <3>3, <3>4, <3>5
    <2> QED BY <2>1, <2>2
<1> HIDE DEF t
<1>7. ASSUME NEW name \in t.must \cup t.may, ~s.direct, Append(d, name) \in Clean'
      PROVE Append(d, name) \in Here'
    <2>1. name \in s.must \cup s.may
        BY <1>2, <1>6, <1>7
    <2> QED BY <1>1, <1>5, <1>7, <2>1 DEF Here
<1>8. ASSUME NEW x \in Clean' \cap Left', Up(x) = d, Expected'[x].type # "none"
      PROVE Sure(t, Last(x))
    <2>1. Sure(s, Last(x))
        BY <1>1, <1>5, <1>8
    <2>2. x # p /\ Append(d, Last(x)) = x /\ Last(x) \in STRING
        BY <1>1, <1>2, <1>8, SearchAssumption, FrontFacts DEF Up
    <2> QED BY <1>6, <2>1, <2>2 DEF Sure
<1> QED BY <1>5, <1>6, <1>7, <1>8 DEF Promise

(* A change of the files breaks no promise about the paths it has not       *)
(* touched.                                                                 *)
LEMMA InterfereFinds ==
    ASSUME Walking, Finding, NEW p \in FsPaths, NEW kind, Interfere(p, kind)
    PROVE Finding'
<1>1. /\ state' = StreamAfter(state, trail, p)
      /\ stack' = [i \in DOMAIN stack |-> StreamAfter(stack[i], SubSeq(trail, 1, i - 1), p)]
      /\ UNCHANGED <<nodes, ignored, search, current_path, step, place, trail, found>>
    BY DEF Interfere, parserVars, results
<1>2. /\ Clean = FsPaths /\ Clean' \subseteq Clean /\ Closed'
      /\ \A x \in Clean' : fs'[x] = fs[x] /\ Expected'[x] = Expected[x]
    BY StillClean
<1>3. Ahead' = Ahead /\ Left' = Left
    BY <1>1 DEF Ahead, Left
<1>4. \A x \in Clean' \ Ahead' : IsReported(x)'
    BY <1>1, <1>2, <1>3 DEF Finding, IsReported
<1>5. \A x \in Clean' \cap Ahead' :
          Up(x) # RootNode /\ place'[Up(x)] = "behind" => Expected'[x].type = "none"
    BY <1>1, <1>2, <1>3 DEF Finding
<1>6. \A x \in FsPaths : place'[x] = "inside" => IsPrefix(x, trail')
    BY <1>1 DEF Finding
<1>7. /\ trail \in Seq(STRING) /\ stack \in Seq(Frame) /\ Len(stack) = Len(trail) /\ state \in Frame
    BY DEF Walking, FrameOK
<1>8. ASSUME NEW s, NEW d, Promise(s, d, Expected', Clean', Here', Left')
      PROVE /\ state' = s /\ trail = d => Promise(state, trail, Expected, Clean, Here, Left)'
            /\ \A i : stack'[i] = s /\ SubSeq(trail, 1, i - 1) = d =>
                  Promise(stack[i], SubSeq(trail, 1, i - 1), Expected, Clean, Here, Left)'
    <2>1. /\ nodes' = nodes /\ trail' = trail
          /\ \A q : IsDirect(q)' = IsDirect(q) /\ Children(q)' = Children(q)
        BY <1>1 DEF IsDirect, Children
    <2>2. state' = s /\ trail = d => Promise(state, trail, Expected, Clean, Here, Left)'
        BY <1>8, <2>1 DEF Promise, Sure
    <2>3. ASSUME NEW i, stack'[i] = s, SubSeq(trail, 1, i - 1) = d
          PROVE Promise(stack[i], SubSeq(trail, 1, i - 1), Expected, Clean, Here, Left)'
        BY <1>8, <2>1, <2>3 DEF Promise, Sure
    <2> QED BY <2>2, <2>3
<1>9. Promise(state, trail, Expected, Clean, Here, Left)'
    <2>1. Promise(state, trail, Expected, Clean, Here, Left)
        BY DEF Finding, Promises
    <2>2. Promise(StreamAfter(state, trail, p), trail, Expected', Clean', Here', Left')
        BY <1>3, <1>7, <2>1, StreamPromises
    <2> QED BY <1>1, <1>8, <2>2
<1>10. ASSUME NEW i \in 1 .. Len(stack')
       PROVE Promise(stack[i], SubSeq(trail, 1, i - 1), Expected, Clean, Here, Left)'
    <2> DEFINE d == SubSeq(trail, 1, i - 1)
    <2>1. DOMAIN stack = 1 .. Len(stack) /\ Len(stack) \in Nat
        BY <1>7
    <2>2. i \in 1 .. Len(stack) /\ stack'[i] = StreamAfter(stack[i], d, p)
        BY <1>1, <2>1
    <2>3. i - 1 \in 0 .. Len(trail)
        BY <1>7, <2>2
    <2>4. d \in Seq(STRING) /\ stack[i] \in Frame
        BY <1>7, <2>2, <2>3, CutFacts
    <2>5. Promise(stack[i], d, Expected, Clean, Here, Left)
        BY <2>2 DEF Finding, Promises
    <2>6. d = SubSeq(trail, 1, i - 1)
        OBVIOUS
    <2> HIDE DEF d
    <2>7. Promise(StreamAfter(stack[i], d, p), d, Expected', Clean', Here', Left')
        BY <1>3, <2>4, <2>5, StreamPromises
    <2> QED BY <1>8, <2>2, <2>6, <2>7
<1>11. search' \in {"stat", "open"} /\ current_path' \in Clean' =>
           Judged' /\ (search' = "open" => Type' = "directory")
    <2> SUFFICES ASSUME search \in {"stat", "open"}, current_path \in Clean'
                 PROVE Judged' /\ (search' = "open" => Type' = "directory")
        BY <1>1
    <2>1. Judged /\ (search = "open" => Type = "directory")
        BY <1>2 DEF Finding
    <2>2. Type' = Type
        BY <1>1, <1>2 DEF Type, KindAt, Follows, Children
    <2> QED BY <1>1, <1>2, <2>1, <2>2 DEF Judged
<1> QED BY <1>2, <1>4, <1>5, <1>6, <1>9, <1>10, <1>11 DEF Finding, Promises

-----------------------------------------------------------------------------
(* At the root nothing is behind the search.                                *)
RootPromise ==
    \A s : /\ TreeInv /\ RegexInv /\ RootNode \in DOMAIN nodes
           /\ s.direct = IsDirect(RootNode) /\ s.subnodes = Children(RootNode) /\ s.may = {}
           /\ ~s.direct => /\ s.fallback = nodes[RootNode].policy
                           /\ s.must = NamesIn(fs, RootNode)
           => Promise(s, RootNode, Expected, Clean, Here, Left)

(* The state that the search starts with promises the whole tree.           *)
LEMMA RootIsPromised == RootPromise
<1> SUFFICES ASSUME NEW s, TreeInv, RegexInv, RootNode \in DOMAIN nodes,
                    s.direct = IsDirect(RootNode), s.subnodes = Children(RootNode), s.may = {},
                    ~s.direct => /\ s.fallback = nodes[RootNode].policy
                                 /\ s.must = NamesIn(fs, RootNode)
             PROVE Promise(s, RootNode, Expected, Clean, Here, Left)
    BY DEF RootPromise
<1>1. /\ Expected[RootNode].type = "directory" /\ Expected[RootNode].node = RootNode
      /\ Expected[RootNode].policy = nodes[RootNode].policy
    BY ExpectedFacts DEF IsUnfolded, ExpectedRoot
<1>2. Clean \in SUBSET FsPaths
    BY DEF Clean
<1> DEFINE policy == nodes[RootNode].policy
<1>3. /\ Expected[RootNode].policy = policy /\ policy = nodes[RootNode].policy
      /\ ~s.direct => s.fallback = policy
    BY <1>1
<1> HIDE DEF policy
<1> QED BY <1>1, <1>2, <1>3, NewPromise

(* It does so in the next state as well.                                    *)
LEMMA RootIsPromisedNext == RootPromise'
BY RootIsPromised, PTL

(* The first step of the search establishes the invariant.                  *)
LEMMA StartFinds ==
    ASSUME TreeInv, TreeInv', RegexInv, WalkInv, StartSearch
    PROVE Finding'
<1>1. /\ parser = "parsed" /\ search' = "next"
      /\ UNCHANGED <<nodes, touched, stack, current_path, place, trail>>
      /\ state' = [direct |-> IsDirect(RootNode), path_length |-> 0,
                   subnodes |-> Children(RootNode), fallback |-> nodes[RootNode].policy,
                   must |-> IF IsDirect(RootNode) THEN {} ELSE NamesIn(fs', RootNode),
                   may |-> {}]
    BY DEF StartSearch
<1>2. search = "none"
    BY <1>1 DEF WalkInv
<1>3. /\ stack' = <<>> /\ trail' = RootNode /\ touched' = {} /\ Ahead' = FsPaths
    BY <1>1, <1>2 DEF WalkInv, RootNode, Ahead
<1>4. Clean' = FsPaths /\ Closed'
    <2>1. Clean' = FsPaths
        BY <1>3 DEF Clean
    <2> QED BY <2>1, SearchAssumption DEF Closed
<1>5. \A x \in FsPaths : place'[x] = "ahead"
    BY <1>3 DEF Ahead
<1>6. /\ state'.direct = IsDirect(RootNode) /\ state'.subnodes = Children(RootNode)
      /\ state'.may = {} /\ state'.fallback = nodes[RootNode].policy
      /\ ~state'.direct => state'.must = NamesIn(fs', RootNode)
    BY <1>1
<1>7. /\ IsDirect(RootNode)' = IsDirect(RootNode) /\ Children(RootNode)' = Children(RootNode)
      /\ RegexInv' /\ RootNode \in DOMAIN nodes'
      /\ NamesIn(fs, RootNode)' = NamesIn(fs', RootNode)
    BY <1>1 DEF IsDirect, Children, RegexInv, TreeInv, NodesType, NamesIn
<1>8. Promise(state, trail, Expected, Clean, Here, Left)'
    <2>1. Promise(state, RootNode, Expected, Clean, Here, Left)'
        BY <1>1, <1>6, <1>7, RootIsPromisedNext DEF RootPromise
    <2> QED BY <1>3, <2>1
<1>9. \A x \in FsPaths : Up(x) # RootNode => Up(x) \in FsPaths
    BY SearchAssumption
<1>10. Promises'
    <2>1. 1 .. Len(stack') = {}
        BY <1>3
    <2> QED BY <1>8, <2>1 DEF Promises
<1> QED BY <1>1, <1>3, <1>4, <1>5, <1>9, <1>10 DEF Finding

(* Nothing changes for the search.                                          *)
LEMMA SameFinding ==
    ASSUME UNCHANGED <<fs, touched, search, state, stack, stackCapacity, current_path, step,
                       found, place, trail>>,
           search # "none" => UNCHANGED <<nodes, ignored>>, FoundInv
    PROVE FoundInv'
<1> SUFFICES ASSUME search # "none" PROVE FoundInv'
    BY DEF FoundInv
<1>1. /\ Expected' = Expected /\ Clean' = Clean /\ Here' = Here /\ Ahead' = Ahead /\ Left' = Left
    BY SameExpected DEF Clean, Here, Ahead, Left
<1>2. Promises => Promises'
    <2> SUFFICES ASSUME Promises PROVE Promises'
        OBVIOUS
    <2>1. Promise(state, trail, Expected, Clean, Here, Left)'
        BY <1>1, SamePromise DEF Promises
    <2>2. ASSUME NEW i \in 1 .. Len(stack)
          PROVE Promise(stack[i], SubSeq(trail, 1, i - 1), Expected, Clean, Here, Left)'
        BY <1>1, SamePromise DEF Promises
    <2> QED BY <2>1, <2>2 DEF Promises
<1>3. Judged' = Judged /\ Type' = Type
    BY <1>1 DEF Judged, Type, KindAt, Follows, Children
<1>4. Finding => Finding'
    <2> SUFFICES ASSUME Finding PROVE Finding'
        OBVIOUS
    <2>1. Closed' /\ \A x \in Clean' \ Ahead' : IsReported(x)'
        BY <1>1 DEF Finding, Closed, IsReported
    <2> QED BY <1>1, <1>2, <1>3, <2>1 DEF Finding
<1>5. Finished => Finished'
    <2> SUFFICES ASSUME Finished PROVE Finished'
        OBVIOUS
    <2>1. Closed' /\ \A x \in Clean' \ Ahead' : IsReported(x)'
        BY <1>1 DEF Finished, Closed, IsReported
    <2> QED BY <1>1, <2>1 DEF Finished
<1>6. Died => Died'
    BY <1>1 DEF Died, StackOverflows, StackFull
<1> QED BY <1>4, <1>5, <1>6 DEF FoundInv

(* FoundInv is inductive, one case for each step of the search.             *)
LEMMA NextFound ==
    ASSUME TreeInv, TreeInv', BelowInv, WalkInv, MatchInv, FoundInv,
           parser \in {"parsed", "searching"} => RegexInv, [SearchNext]_allVars
    PROVE FoundInv'
<1>1. /\ place \in [FsPaths -> {"ahead", "inside", "behind"}] /\ DOMAIN found = FsPaths
      /\ search \in {"next", "stat", "open"} => Walking /\ Finding /\ RegexInv
    BY DEF WalkInv, MatchInv, FoundInv
<1>2. ASSUME search' \in {"next", "stat", "open"}, Finding' PROVE FoundInv'
    BY <1>2 DEF FoundInv
<1>3. ASSUME search' = "died", Died' PROVE FoundInv'
    BY <1>3 DEF FoundInv
<1>4. CASE ParserNext /\ UNCHANGED searchVars
    <2>1. search # "none" => UNCHANGED <<nodes, ignored>>
        BY <1>4, SearchingTree DEF WalkInv
    <2> QED BY <1>4, <2>1, SameFinding DEF searchVars
<1>5. CASE UNCHANGED allVars
    BY <1>5, SameFinding DEF allVars, searchVars, parserVars
<1>6. CASE StartSearch
    <2>1. Finding' /\ search' = "next"
        BY <1>6, StartFinds DEF StartSearch
    <2> QED BY <1>2, <2>1
<1>7. CASE TryNode
    <2>1. search = "next" /\ search' \in {"next", "stat", "died"}
        BY <1>7 DEF TryNode, AtNext, Examine, Skip, DieAt
    <2>2. CASE search' = "died"
        <3>1. touched # {} /\ touched' = touched
            BY <1>1, <1>7, <2>1, <2>2, TryNodeDies DEF TryNode, AtNext
        <3> QED BY <1>3, <2>2, <3>1 DEF Died
    <2>3. CASE search' # "died"
        BY <1>1, <1>2, <1>7, <2>1, <2>3, TryNodeFinds
    <2> QED BY <2>2, <2>3
<1>8. ASSUME NEW name, MatchedEntry(name) \/ SkippedEntry(name) \/ FallbackEntry(name)
      PROVE FoundInv'
    <2>1. search = "next" /\ search' \in {"next", "stat"}
        BY <1>8 DEF MatchedEntry, SkippedEntry, FallbackEntry, ReadEntry, AtNext, Examine, Skip
    <2>2. Finding'
        BY <1>1, <1>8, <2>1, EntryFinds
    <2> QED BY <1>2, <2>1, <2>2
<1>9. ASSUME NEW name, AmbiguousEntry(name) PROVE FoundInv'
    <2>1. search = "next" /\ search' = "died"
        BY <1>9 DEF AmbiguousEntry, ReadEntry, AtNext, DieAt
    <2> QED BY <1>1, <1>3, <1>9, <2>1, AmbiguousDies
<1>10. CASE StatFails \/ OpenFails
    <2>1. search \in {"stat", "open"} /\ search' = "died"
        BY <1>10 DEF StatFails, OpenFails
    <2> QED BY <1>1, <1>3, <1>10, <2>1, StatDies
<1>11. CASE FoundFile
    <2>1. search = "stat" /\ search' = "next"
        BY <1>11 DEF FoundFile
    <2> QED BY <1>1, <1>2, <1>11, <2>1, FoundFileFinds
<1>12. CASE FoundDirectory
    <2>1. search = "stat" /\ search' = "open"
        BY <1>12 DEF FoundDirectory
    <2> QED BY <1>1, <1>2, <1>12, <2>1, FoundDirectoryFinds
<1>13. CASE OpenDirectory
    <2>1. search = "open" /\ search' = "next"
        BY <1>13 DEF OpenDirectory
    <2> QED BY <1>1, <1>2, <1>13, <2>1, OpenDirectoryFinds
<1>14. CASE EndOfDirectory
    <2>1. search = "next" /\ search' = IF stack = <<>> THEN "ended" ELSE "next"
        BY <1>14 DEF EndOfDirectory, AtNext
    <2>2. CASE stack = <<>>
        <3>1. Finished' /\ search' = "ended"
            BY <1>1, <1>14, <2>1, <2>2, EndedFinds
        <3> QED BY <3>1 DEF FoundInv
    <2>3. CASE stack # <<>>
        BY <1>1, <1>2, <1>14, <2>1, <2>3, EndOfDirectoryFinds
    <2> QED BY <2>2, <2>3
<1>15. ASSUME NEW p \in FsPaths, NEW kind, Interfere(p, kind) PROVE FoundInv'
    <2>1. search \in {"next", "stat", "open"} /\ search' = search
        BY <1>15 DEF Interfere
    <2> QED BY <1>1, <1>2, <1>15, <2>1, InterfereFinds
<1> QED BY <1>4, <1>5, <1>6, <1>7, <1>8, <1>9, <1>10, <1>11, <1>12, <1>13, <1>14, <1>15
        DEF SearchNext, SearchStep

(* The tree that the search gets is that of a whole config file.            *)
TreeOver == parser \in {"parsed", "searching"} => RegexInv

(* The tree is given to the search as the parser has left it.               *)
LEMMA NextTreeOver ==
    ASSUME TreeInv, ConfigInv, WalkInv, TreeOver, [SearchNext]_allVars
    PROVE TreeOver'
<1>1. CASE ParserNext
    <2>1. CASE EndOfConfig
        <3>1. RegexInv /\ nodes' = nodes
            BY <2>1 DEF EndOfConfig, ConfigInv, NodesInv
        <3> QED BY <3>1 DEF TreeOver, RegexInv
    <2>2. CASE TableWorks
        BY <2>2 DEF TableWorks, parserVars, TreeOver, RegexInv
    <2>3. CASE ~EndOfConfig /\ ~TableWorks
        <3>1. parser' \notin {"parsed", "searching"}
            BY <1>1, <2>3 DEF ParserNext, MakeRoot, Define, ParseLine, SkipLine, StartSection,
                   BadSection, Expression, BadPath, Redefine, PathLine, AtLine, NewNode, BadNode,
                   IsNext, Die
        <3> QED BY <3>1 DEF TreeOver
    <2> QED BY <2>1, <2>2, <2>3
<1>2. CASE StartSearch
    BY <1>2 DEF StartSearch, TreeOver, RegexInv
<1>3. CASE SearchStep \/ \E p \in FsPaths, kind \in Kinds : Interfere(p, kind)
    <2>1. UNCHANGED <<parser, nodes>>
        BY <1>3, SearchKeepsTable DEF parserVars
    <2> QED BY <2>1 DEF TreeOver, RegexInv
<1>4. CASE UNCHANGED allVars
    BY <1>4 DEF allVars, parserVars, TreeOver, RegexInv
<1> QED BY <1>1, <1>2, <1>3, <1>4 DEF SearchNext

(* Above a path that is expected there are paths that are expected too, so  *)
(* the first of them to be left out would have been seen.                   *)
LEMMA NothingLeftOut ==
    ASSUME Finished, NEW x \in Clean \cap Ahead
    PROVE Expected[x].type = "none"
<1> DEFINE T == {y \in Clean \cap Ahead : Expected[y].type # "none"}
           lengths == {Len(y) : y \in T}
<1> SUFFICES ASSUME T # {} PROVE FALSE
    OBVIOUS
<1>1. \A y \in T : y \in FsPaths /\ y # RootNode /\ Len(y) \in Nat
    BY FsPathFacts, SearchAssumption DEF Clean, RootNode
<1>2. lengths \in SUBSET Nat /\ lengths # {}
    BY <1>1
<1>3. PICK k \in lengths : \A l \in lengths : k <= l
    <2> HIDE DEF lengths
    <2> QED BY <1>2, Smallest
<1>4. PICK y \in T : k = Len(y)
    BY <1>3
<1>5. Up(y) \in Ahead
    BY <1>4 DEF Finished
<1>6. Expected[Up(y)].type # "none" /\ Up(y) \in Clean
    <2>1. Expected[Up(y)].type = "directory"
        BY <1>1, <1>4, ExpectedBelow DEF IsSeen
    <2>2. Up(y) \in Clean
        BY <1>4, <1>5, SearchAssumption DEF Finished, Closed, Ahead, RootNode
    <2> QED BY <2>1, <2>2
<1>7. Up(y) \in T /\ Len(Up(y)) = Len(y) - 1
    BY <1>1, <1>4, <1>5, <1>6, FsPathFacts
<1>8. Len(Up(y)) \in lengths
    BY <1>7
<1> HIDE DEF lengths, T
<1> QED BY <1>2, <1>3, <1>4, <1>7, <1>8

(* What the invariant says of a search that has ended is what the caller    *)
(* relies on.                                                               *)
LEMMA EndedFound ==
    ASSUME MatchInv, FoundInv
    PROVE SearchIsComplete /\ DiesForAReason
<1>1. ASSUME search = "ended", NEW p \in Clean
      PROVE /\ found[p] = IF Expected[p].type = "none" THEN Null
                          ELSE [type |-> Expected[p].type, node |-> Expected[p].node,
                                policy |-> Expected[p].policy]
            /\ ~Expected[p].ambiguous /\ Expected[p].type # "error"
    <2>1. Finished /\ p \in FsPaths
        BY <1>1 DEF FoundInv, Clean
    <2>2. CASE p \in Ahead
        <3>1. Expected[p].type = "none" /\ found[p] = Null
            BY <1>1, <2>1, <2>2, NothingLeftOut DEF MatchInv
        <3>2. ~(IsSeen(Expected[Up(p)], p) /\ Own(Expected[Up(p)], p) # {})
            BY <2>1, <3>1, ExpectedBelow DEF IsWanted
        <3>3. Cardinality({}) = 0 /\ ~(0 > 1)
            BY FS_EmptySet
        <3>4. ~Expected[p].ambiguous
            BY <2>1, <3>2, <3>3, ExpectedBelow
        <3> QED BY <3>1, <3>4
    <2>3. CASE p \notin Ahead
        <3>1. IsReported(p)
            BY <1>1, <2>1, <2>3 DEF Finished
        <3>2. "none" \notin FileTypes /\ "error" \notin FileTypes
            BY DEF FileTypes
        <3> QED BY <3>1, <3>2 DEF IsReported
    <2> QED BY <2>2, <2>3
<1>2. SearchIsComplete
    BY <1>1 DEF SearchIsComplete, Clean
<1>3. search = "died" =>
          \/ touched # {} \/ StackOverflows
          \/ \E p \in FsPaths : Expected[p].ambiguous \/ Expected[p].type = "error"
    BY DEF FoundInv, Died
<1>4. search = "ended" /\ touched = {} =>
          ~ \E p \in FsPaths : Expected[p].ambiguous \/ Expected[p].type = "error"
    BY <1>1 DEF Clean
<1>5. DiesForAReason
    BY <1>3, <1>4 DEF DiesForAReason
<1> QED BY <1>2, <1>5

(* All the invariants hold together in every state.                         *)
LEMMA FoundAlways == SearchSpec => [](SearchIsComplete /\ DiesForAReason)
<1>1. SearchInit => /\ TableInv /\ NothingYet /\ TreeInv /\ ConfigInv /\ WalkInv /\ BelowInv
                    /\ MatchInv /\ FoundInv /\ TreeOver
    <2> SUFFICES ASSUME SearchInit PROVE BelowInv /\ MatchInv /\ FoundInv /\ TreeOver
        BY InitNothingYet, InitTree, InitWalk, NothingRead DEF SearchInit, ParserInit
    <2>1. DOMAIN nodes = {} /\ parser = "new"
        BY InitTree DEF SearchInit, ParserInit, TreeInv, NodesType
    <2>2. search = "none" /\ found = [p \in FsPaths |-> Null] /\ Ahead \subseteq FsPaths
        BY DEF SearchInit, Ahead
    <2> QED BY <2>1, <2>2 DEF BelowInv, MatchInv, FoundInv, TreeOver
<1>2. TableInv /\ NothingYet /\ [SearchNext]_allVars => TableInv' /\ NothingYet'
    BY NextNothingYet, NextTable
<1>3. TableInv /\ NothingYet /\ TreeInv /\ ConfigInv /\ [SearchNext]_allVars
          => TreeInv' /\ ConfigInv'
    BY NextConfig
<1>4. TableInv /\ NothingYet /\ TreeInv /\ WalkInv /\ [SearchNext]_allVars => WalkInv'
    BY NextWalks
<1>5. TableInv /\ NothingYet /\ TreeInv /\ BelowInv /\ [SearchNext]_allVars => BelowInv'
    BY NextBelow
<1>6. TreeInv /\ WalkInv /\ MatchInv /\ [SearchNext]_allVars => MatchInv'
    BY NextMatched
<1>7. TreeInv /\ TreeInv' /\ BelowInv /\ WalkInv /\ MatchInv /\ FoundInv /\ TreeOver
          /\ [SearchNext]_allVars => FoundInv'
    BY NextFound DEF TreeOver
<1>8. TreeInv /\ ConfigInv /\ WalkInv /\ TreeOver /\ [SearchNext]_allVars => TreeOver'
    BY NextTreeOver
<1>9. MatchInv /\ FoundInv => SearchIsComplete /\ DiesForAReason
    BY EndedFound
<1> QED BY <1>1, <1>2, <1>3, <1>4, <1>5, <1>6, <1>7, <1>8, <1>9, PTL DEF SearchSpec

(* A search that ends has reported every path that the config file asks     *)
(* for, and no other, with its node and its policy, but for what has        *)
(* changed meanwhile (SearchIsComplete): for any config file, any file      *)
(* system, and a change at any moment.                                      *)
THEOREM SearchFindsAll == SearchSpec => []SearchIsComplete
BY FoundAlways, PTL

(* A search dies for two rules that match one path, for a link to nowhere   *)
(* in place of a configured directory, for a stack that does not fit, or    *)
(* because a file has changed, and for nothing else; and it does not end in *)
(* spite of the first two (DiesForAReason).                                 *)
THEOREM DeathsAreRight == SearchSpec => []DiesForAReason
BY FoundAlways, PTL
=============================================================================

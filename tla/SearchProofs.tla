---------------------------- MODULE SearchProofs ----------------------------
(* What holds of the parser and the search for any config file, file system *)
(* and hash function: the tree it makes is well formed, and a search is a   *)
(* walk over the tree of files whose stack fits.                            *)
EXTENDS Search, StringTableProofs, SequenceTheorems

(* The tree is empty until the root is made.                                *)
NothingYet == parser = "new" => table = "ready" /\ \A k \in Keys : StrTableGet(k) = Null

-----------------------------------------------------------------------------
(* searchTreeParse() starts with an empty table.                            *)
LEMMA InitNothingYet == TableInit => TableInv /\ NothingYet
<1> SUFFICES ASSUME TableInit PROVE TableInv /\ NothingYet
    OBVIOUS
<1>1. TableInv /\ table = "ready" /\ InitialCapacity \in Nat
    BY InitTable, TableAssumption DEF TableInit
<1>2. Entries = {}
    BY <1>1, EmptyFacts DEF TableInit, Entries
<1> QED BY <1>1, <1>2, ReadyFinds DEF NothingYet

(* What the parser does to its table is what a table may do: newNode() maps *)
(* a path only once.                                                        *)
LEMMA ParserTable ==
    ASSUME TableInv, NothingYet, ParserNext
    PROVE [TableNext]_tableVars /\ parser' # "new"
<1>1. CASE MakeRoot
    <2>1. RootNode \in Keys /\ RootNode \in Values
        BY TreeAssumption DEF RootNode
    <2>2. StrTableGet(RootNode) = Null /\ StrTableMap(RootNode, RootNode)
        BY <1>1, <2>1 DEF MakeRoot, NothingYet, StrTableMap
    <2> QED BY <1>1, <2>1, <2>2 DEF MakeRoot, TableNext
<1>2. CASE TableWorks
    BY <1>2 DEF TableWorks, TableNext, TableStep, MoveEntry, NextBucket, FinishDoubling,
                NothingYet, parserVars
<1>3. CASE Define
    BY <1>3 DEF Define
<1>4. CASE EndOfConfig
    BY <1>4 DEF EndOfConfig, TableNext
<1>5. CASE \E line \in Lines : ParseLine(line)
    <2>1. PICK line \in Lines : ParseLine(line)
        BY <1>5
    <2>2. AtLine(line) /\ parser' \in {parser, "refused", "node"}
        BY <2>1 DEF ParseLine, SkipLine, StartSection, BadSection, Expression, BadPath,
                    Redefine, PathLine, Die
    <2> QED BY <2>2 DEF AtLine
<1>6. CASE \E p \in Keys : NewNode(p) \/ BadNode(p)
    <2>1. PICK p \in Keys : NewNode(p) \/ BadNode(p)
        BY <1>6
    <2>2. CASE NewNode(p)
        <3>1. p \in Values
            BY TreeAssumption
        <3>2. StrTableGet(p) = Null /\ StrTableMap(p, p) /\ parser' = "node"
            BY <2>2 DEF NewNode, IsNext, Known
        <3> QED BY <3>1, <3>2 DEF TableNext
    <2>3. CASE BadNode(p)
        BY <2>3 DEF BadNode, Die
    <2> QED BY <2>1, <2>2, <2>3
<1> QED BY <1>1, <1>2, <1>3, <1>4, <1>5, <1>6 DEF ParserNext

(* The search itself leaves the table and the parser alone.                 *)
LEMMA SearchKeepsTable ==
    ASSUME SearchStep \/ \E p \in FsPaths, kind \in Kinds : Interfere(p, kind)
    PROVE UNCHANGED <<parserVars, tableVars>>
<1>1. CASE TryNode \/ EndOfDirectory
    BY <1>1 DEF TryNode, EndOfDirectory, AtNext
<1>2. CASE StatFails \/ FoundFile \/ FoundDirectory \/ OpenFails \/ OpenDirectory
    BY <1>2 DEF StatFails, FoundFile, FoundDirectory, OpenFails, OpenDirectory
<1>3. ASSUME NEW name,
             AmbiguousEntry(name) \/ MatchedEntry(name) \/ SkippedEntry(name) \/ FallbackEntry(name)
      PROVE UNCHANGED <<parserVars, tableVars>>
    BY <1>3 DEF AmbiguousEntry, MatchedEntry, SkippedEntry, FallbackEntry, ReadEntry, AtNext
<1>4. ASSUME NEW p, NEW kind, Interfere(p, kind) PROVE UNCHANGED <<parserVars, tableVars>>
    BY <1>4 DEF Interfere
<1> QED BY <1>1, <1>2, <1>3, <1>4 DEF SearchStep

(* An empty table stays so while nothing changes.                           *)
LEMMA SameTable ==
    ASSUME NothingYet, UNCHANGED <<parserVars, tableVars>>
    PROVE NothingYet'
<1>1. UNCHANGED <<buckets, capacity, table, parser>>
    BY DEF parserVars, tableVars
<1>2. \A k : StrTableGet(k)' = StrTableGet(k)
    BY <1>1 DEF StrTableGet, Home
<1> QED BY <1>1, <1>2 DEF NothingYet

(* Every step of the search is one of its table.                            *)
LEMMA NextNothingYet ==
    ASSUME TableInv, NothingYet, [SearchNext]_allVars
    PROVE [TableNext]_tableVars /\ NothingYet'
<1>1. CASE ParserNext /\ UNCHANGED searchVars
    BY <1>1, ParserTable DEF NothingYet
<1>2. CASE StartSearch
    BY <1>2 DEF StartSearch, NothingYet
<1>3. CASE SearchStep \/ \E p \in FsPaths, kind \in Kinds : Interfere(p, kind)
    <2>1. UNCHANGED <<parserVars, tableVars>>
        BY <1>3, SearchKeepsTable
    <2> QED BY <2>1, SameTable
<1>4. CASE UNCHANGED allVars
    BY <1>4, SameTable DEF allVars
<1> QED BY <1>1, <1>2, <1>3, <1>4 DEF SearchNext

(* The parser of the config file uses its string table as a map, whatever   *)
(* stands in the file and whatever the hashes are: the path of a node, once *)
(* mapped, is found until the tree is complete (TableIsMap).                *)
THEOREM ParserUsesAMap == SearchSpec => TableIsMap
<1>1. SearchInit => TableInit
    BY DEF SearchInit, ParserInit
<1>2. TableInit => TableInv /\ NothingYet
    BY InitNothingYet
<1>3. TableInv /\ NothingYet /\ [SearchNext]_allVars => [TableNext]_tableVars /\ NothingYet'
    BY NextNothingYet
<1>4. TableInv /\ [TableNext]_tableVars => TableInv'
    BY NextTable
<1> QED BY <1>1, <1>2, <1>3, <1>4, MapInit, MapStep, PTL DEF SearchSpec, TableIsMap, Map!Spec

-----------------------------------------------------------------------------
(* Sequences: a path is what is left of its last name, and that name.       *)
LEMMA AppendFacts ==
    ASSUME NEW S, NEW s \in Seq(S), NEW e \in S
    PROVE /\ Append(s, e) \in Seq(S) /\ Append(s, e) # <<>>
          /\ Len(Append(s, e)) = Len(s) + 1
          /\ Front(Append(s, e)) = s /\ Last(Append(s, e)) = e
BY DEF Front, Last

(* The first n elements.                                                    *)
LEMMA CutFacts ==
    ASSUME NEW S, NEW s \in Seq(S), NEW n \in 0 .. Len(s)
    PROVE /\ SubSeq(s, 1, n) \in Seq(S) /\ Len(SubSeq(s, 1, n)) = n
          /\ \A i \in 1 .. n : SubSeq(s, 1, n)[i] = s[i]
          /\ n = Len(s) => SubSeq(s, 1, n) = s
          /\ \A k \in 0 .. n : SubSeq(SubSeq(s, 1, n), 1, k) = SubSeq(s, 1, k)
          /\ \A e \in S : SubSeq(Append(s, e), 1, n) = SubSeq(s, 1, n)
<1>1. \A k \in 0 .. n : /\ SubSeq(s, 1, k) \in Seq(S) /\ Len(SubSeq(s, 1, k)) = k
                        /\ \A i \in 1 .. k : SubSeq(s, 1, k)[i] = s[i]
    <2> TAKE k \in 0 .. n
    <2>1. k \in Int /\ \A i \in 1 .. k : s[i] \in S
        OBVIOUS
    <2> QED BY <2>1, SubSeqProperties
<1>2. n \in 0 .. n
    OBVIOUS
<1>3. n = Len(s) => SubSeq(s, 1, n) = s
    BY SubSeqFull
<1>4. ASSUME NEW t \in Seq(S), NEW k \in 0 .. n, k <= Len(t), \A i \in 1 .. k : t[i] = s[i]
      PROVE SubSeq(t, 1, k) = SubSeq(s, 1, k)
    <2>1. \A i \in 1 .. k : t[i] \in S
        BY <1>4
    <2>2. /\ SubSeq(t, 1, k) \in Seq(S) /\ Len(SubSeq(t, 1, k)) = k
          /\ \A i \in 1 .. k : SubSeq(t, 1, k)[i] = t[i]
        BY <2>1, SubSeqProperties
    <2> QED BY <1>1, <1>4, <2>2, SeqEqual
<1>5. \A k \in 0 .. n : SubSeq(SubSeq(s, 1, n), 1, k) = SubSeq(s, 1, k)
    BY <1>1, <1>2, <1>4
<1>6. \A e \in S : SubSeq(Append(s, e), 1, n) = SubSeq(s, 1, n)
    <2> TAKE e \in S
    <2>1. /\ Append(s, e) \in Seq(S) /\ n <= Len(Append(s, e))
          /\ \A i \in 1 .. n : Append(s, e)[i] = s[i]
        OBVIOUS
    <2> QED BY <1>2, <1>4, <2>1
<1> QED BY <1>1, <1>2, <1>3, <1>5, <1>6

(* A sequence is its last element and what is before that.                  *)
LEMMA FrontFacts ==
    ASSUME NEW S, NEW s \in Seq(S), s # <<>>
    PROVE /\ Front(s) \in Seq(S) /\ Last(s) \in S
          /\ Len(Front(s)) = Len(s) - 1 /\ Len(s) > 0
          /\ Append(Front(s), Last(s)) = s
          /\ \A i \in 1 .. Len(s) - 1 : Front(s)[i] = s[i]
<1>1. Len(s) \in Nat \ {0} /\ \A i \in 1 .. Len(s) - 1 : s[i] \in S
    OBVIOUS
<1>2. /\ Front(s) \in Seq(S) /\ Len(Front(s)) = Len(s) - 1
      /\ \A i \in 1 .. Len(s) - 1 : Front(s)[i] = s[i]
    <2>1. Len(s) - 1 \in 0 .. Len(s)
        BY <1>1
    <2> QED BY <2>1, CutFacts DEF Front
<1>3. Last(s) \in S
    BY <1>1 DEF Last
<1>4. /\ Append(Front(s), Last(s)) \in Seq(S) /\ Len(Append(Front(s), Last(s))) = Len(s)
      /\ \A i \in 1 .. Len(s) : Append(Front(s), Last(s))[i] = s[i]
    BY <1>1, <1>2, <1>3 DEF Last
<1>5. Append(Front(s), Last(s)) = s
    BY <1>4, SeqEqual
<1> QED BY <1>1, <1>2, <1>3, <1>5

-----------------------------------------------------------------------------
(* What the parser makes is a tree: every subnode of a node is a node, and  *)
(* no name is in a list of subnodes twice.                                  *)
Given == {"none"} \cup {l.policy : l \in Lines}
Node == [policy: Given, inherited: BOOLEAN, subnodes: Seq(STRING), regexBelow: BOOLEAN]

NodesType ==
    /\ nodes \in [DOMAIN nodes -> Node] /\ DOMAIN nodes \subseteq Keys
    /\ section \in Given
    /\ parser # "new" => RootNode \in DOMAIN nodes
    /\ parser = "new" => DOMAIN nodes = {}

IsList(q, names, all) ==
    /\ \A i \in 1 .. Len(names) : Append(q, names[i]) \in all
    /\ \A i, j \in 1 .. Len(names) : names[i] = names[j] => i = j

(* existing_nodes has every node under its path.                            *)
Associations == Entries \cup (IF table = "doubling" THEN {pending} ELSE {})
NodesMapped ==
    table \in {"ready", "doubling"} /\ parser \notin {"parsed", "searching"} =>
        /\ \A e \in Associations : e.key \in DOMAIN nodes /\ e.data = e.key
        /\ \A q \in DOMAIN nodes : \E e \in Associations : e.key = q

TreeInv ==
    /\ NodesType
    /\ \A q \in DOMAIN nodes : IsList(q, nodes[q].subnodes, DOMAIN nodes)
    /\ NodesMapped

(* Mapping adds the association, which may be pending at first.             *)
LEMMA MapAdds ==
    ASSUME TableInv, NEW k \in Keys, NEW v \in Values, StrTableGet(k) = Null, StrTableMap(k, v),
           table' # "failed"
    PROVE /\ table = "ready" /\ table' \in {"ready", "doubling"}
          /\ Associations' = Associations \cup {[key |-> k, data |-> v]}
<1>1. CASE Insert(k, v)
    <2>1. table = "ready" /\ table' = "ready" /\ newBuckets' = newBuckets /\ newBuckets = NoBuckets
        BY <1>1 DEF Insert, TableInv, TableTypeOK
    <2>2. EntriesOf(buckets)' = EntriesOf(buckets) \cup {[key |-> k, data |-> v]}
        BY <1>1, InsertKeeps
    <2>3. EntriesOf(newBuckets)' = EntriesOf(newBuckets)
        BY <2>1 DEF EntriesOf
    <2> QED BY <2>1, <2>2, <2>3 DEF Associations, Entries
<1>2. CASE StartDoubling(k, v)
    <2>1. table = "ready" /\ table' = "doubling" /\ pending' = [key |-> k, data |-> v]
        BY <1>2 DEF StartDoubling
    <2>2. Entries' = Entries
        BY <1>2, StartKeeps
    <2> QED BY <2>1, <2>2 DEF Associations
<1> QED BY <1>1, <1>2 DEF StrTableMap, FailToDouble

(* Doubling the table loses and adds nothing.                               *)
LEMMA StepKeepsAssociations ==
    ASSUME TableInv, TableStep
    PROVE /\ table = "doubling" /\ table' \in {"ready", "doubling"}
          /\ Associations' = Associations
<1>1. CASE MoveEntry
    <2>1. table = "doubling" /\ table' = "doubling" /\ pending' = pending
        BY <1>1 DEF MoveEntry
    <2> QED BY <2>1, <1>1, MoveKeeps DEF Associations
<1>2. CASE NextBucket
    <2>1. table = "doubling" /\ table' = "doubling" /\ pending' = pending
        BY <1>2 DEF NextBucket
    <2> QED BY <2>1, <1>2, NextBucketKeeps DEF Associations
<1>3. CASE FinishDoubling
    <2>1. table = "doubling" /\ table' = "ready"
        BY <1>3 DEF FinishDoubling
    <2> QED BY <2>1, <1>3, FinishKeeps DEF Associations
<1> QED BY <1>1, <1>2, <1>3 DEF TableStep

(* A path that has an entry is known, under its own name.                   *)
LEMMA KnownFacts ==
    ASSUME TableInv, TreeInv, table = "ready", parser \notin {"parsed", "searching"}, NEW k \in Keys
    PROVE /\ Known(k) <=> k \in DOMAIN nodes
          /\ Known(k) => StrTableGet(k) = k
<1>1. Associations = Entries
    BY DEF Associations
<1>2. \A e \in Entries : StrTableGet(e.key) = e.data /\ e.data = e.key /\ e.data \in Values
    BY <1>1, ReadyFinds, EntriesKeyed DEF TreeInv, NodesMapped
<1>3. ASSUME k \in DOMAIN nodes PROVE Known(k)
    <2>1. PICK e \in Entries : e.key = k
        BY <1>1, <1>3 DEF TreeInv, NodesMapped
    <2> QED BY <2>1, <1>2, TableAssumption DEF Known
<1>4. ASSUME Known(k) PROVE StrTableGet(k) = k /\ k \in DOMAIN nodes
    <2>1. PICK e \in Entries : e.key = k
        BY <1>4, ReadyFinds DEF Known
    <2>2. e.key \in DOMAIN nodes
        BY <1>1, <2>1 DEF TreeInv, NodesMapped
    <2> QED BY <2>1, <2>2, <1>2
<1> QED BY <1>3, <1>4

-----------------------------------------------------------------------------
(* Steps of the parser that make no node.                                   *)
LEMMA SameNodes ==
    ASSUME TreeInv, UNCHANGED <<nodes, tableVars>>, section' \in Given,
           parser' # "new", parser \notin {"new", "parsed", "searching"}
    PROVE TreeInv'
<1>1. NodesType'
    BY DEF TreeInv, NodesType
<1>2. \A q \in DOMAIN nodes' : IsList(q, nodes'[q].subnodes, DOMAIN nodes')
    BY DEF TreeInv
<1>3. Associations' = Associations /\ table' = table
    BY DEF tableVars, Associations, Entries, EntriesOf
<1>4. NodesMapped'
    BY <1>3 DEF TreeInv, NodesMapped
<1> QED BY <1>1, <1>2, <1>4 DEF TreeInv

(* The root is the first node, in an empty table.                           *)
LEMMA MakeRootTree ==
    ASSUME TableInv, NothingYet, TreeInv, MakeRoot
    PROVE TreeInv'
<1>1. /\ parser = "new" /\ parser' = "lines" /\ section' = section
      /\ nodes' = [q \in {RootNode} |-> [policy |-> "none", inherited |-> FALSE,
                                         subnodes |-> <<>>, regexBelow |-> FALSE]]
      /\ StrTableMap(RootNode, RootNode) /\ table' # "failed"
    BY DEF MakeRoot, StrTableMap, Insert
<1>2. RootNode \in Keys /\ RootNode \in Values
    BY TreeAssumption DEF RootNode
<1>3. NodesType'
    BY <1>1, <1>2 DEF NodesType, Node, Given, TreeInv
<1>4. \A q \in DOMAIN nodes' : IsList(q, nodes'[q].subnodes, DOMAIN nodes')
    BY <1>1 DEF IsList
<1>5. /\ table = "ready"
      /\ Associations' = Associations \cup {[key |-> RootNode, data |-> RootNode]}
    BY <1>1, <1>2, MapAdds DEF NothingYet
<1>6. DOMAIN nodes = {} /\ DOMAIN nodes' = {RootNode}
    BY <1>1 DEF TreeInv, NodesType
<1>7. Associations = {}
    BY <1>1, <1>5, <1>6 DEF TreeInv, NodesMapped
<1>8. \A e \in Associations' : e.key = RootNode /\ e.data = RootNode
    BY <1>5, <1>7
<1>9. \E e \in Associations' : e.key = RootNode
    BY <1>5, <1>7
<1>10. NodesMapped'
    BY <1>6, <1>8, <1>9 DEF NodesMapped
<1> QED BY <1>3, <1>4, <1>10 DEF TreeInv

(* A node with one more subnode is a node.                                  *)
LEMMA WithSubnodeFacts ==
    ASSUME NEW node \in Node, NEW name \in STRING
    PROVE /\ WithSubnode(node, name) \in Node
          /\ WithSubnode(node, name).subnodes = <<name>> \o node.subnodes
          /\ WithSubnode(node, name).policy = node.policy
          /\ WithSubnode(node, name).inherited = node.inherited
          /\ WithSubnode(node, name).regexBelow = (name \in Regexes \/ node.regexBelow)
<1>1. /\ node.policy \in Given /\ node.inherited \in BOOLEAN /\ node.regexBelow \in BOOLEAN
      /\ node.subnodes \in Seq(STRING)
    BY DEF Node
<1>2. <<name>> \o node.subnodes \in Seq(STRING)
    BY <1>1
<1> DEFINE below == IF name \in Regexes THEN TRUE ELSE node.regexBelow
           names == <<name>> \o node.subnodes
<1>3. below \in BOOLEAN /\ below = (name \in Regexes \/ node.regexBelow)
    <2>1. CASE name \in Regexes
        BY <2>1
    <2>2. CASE name \notin Regexes
        BY <2>2, <1>1
    <2> QED BY <2>1, <2>2
<1>4. WithSubnode(node, name) = [node EXCEPT !.subnodes = names, !.regexBelow = below]
    BY DEF WithSubnode
<1>5. below \in BOOLEAN /\ names \in Seq(STRING)
    BY <1>2, <1>3
<1> HIDE DEF below, names
<1>6. /\ [node EXCEPT !.subnodes = names, !.regexBelow = below] \in Node
      /\ [node EXCEPT !.subnodes = names, !.regexBelow = below].subnodes = names
      /\ [node EXCEPT !.subnodes = names, !.regexBelow = below].policy = node.policy
      /\ [node EXCEPT !.subnodes = names, !.regexBelow = below].inherited = node.inherited
      /\ [node EXCEPT !.subnodes = names, !.regexBelow = below].regexBelow = below
    BY <1>5 DEF Node
<1> QED BY <1>3, <1>4, <1>6 DEF names

(* The path of a new node was not known, the one above it was.              *)
LEMMA NewNodeFacts ==
    ASSUME TableInv, TreeInv, NEW p \in Keys, NewNode(p)
    PROVE /\ parser = "node" /\ parser' = "node" /\ table = "ready" /\ StrTableMap(p, p)
          /\ UNCHANGED <<read, section, target>> /\ IsPrefix(p, target) /\ Last(p) \notin Invalid
          /\ p \in Seq(STRING) /\ p \in Values /\ p # <<>> /\ p \notin DOMAIN nodes
          /\ Up(p) \in Seq(STRING) /\ Last(p) \in STRING /\ Append(Up(p), Last(p)) = p
          /\ Up(p) # p /\ Up(p) \in DOMAIN nodes
          /\ DOMAIN nodes' = DOMAIN nodes \cup {p}
          /\ nodes'[p] = NodeBelow(Up(p))
          /\ nodes'[Up(p)] = WithSubnode(nodes[Up(p)], Last(p))
          /\ \A q \in DOMAIN nodes \ {Up(p)} : nodes'[q] = nodes[q]
          /\ nodes' = [q \in DOMAIN nodes' |-> nodes'[q]]
<1> DEFINE up == Up(p)
<1>1. /\ parser = "node" /\ parser' = "node" /\ table = "ready" /\ StrTableMap(p, p)
      /\ ~Known(p) /\ Known(up) /\ UNCHANGED <<read, section, target>>
      /\ IsPrefix(p, target) /\ Last(p) \notin Invalid
    BY DEF NewNode, IsNext
<1>2. p \in Seq(STRING) /\ p \in Values
    BY TreeAssumption
<1>3. p \notin DOMAIN nodes
    BY <1>1, KnownFacts
<1>4. p # <<>>
    BY <1>1, <1>3 DEF TreeInv, NodesType, RootNode
<1>5. /\ up \in Seq(STRING) /\ Last(p) \in STRING /\ Append(up, Last(p)) = p
      /\ up # p
    BY <1>2, <1>4, FrontFacts DEF Up
<1>6. up \in DOMAIN nodes /\ StrTableGet(up) = up
    <2>1. up \in Keys
        BY <1>4, TreeAssumption DEF Up
    <2> QED BY <2>1, <1>1, KnownFacts
<1>7. /\ DOMAIN nodes' = DOMAIN nodes \cup {p}
      /\ nodes'[p] = NodeBelow(up)
      /\ nodes'[up] = WithSubnode(nodes[up], Last(p))
      /\ \A q \in DOMAIN nodes \ {up} : nodes'[q] = nodes[q]
      /\ nodes' = [q \in DOMAIN nodes' |-> nodes'[q]]
    BY <1>3, <1>5, <1>6 DEF NewNode
<1> QED BY <1>1, <1>2, <1>3, <1>4, <1>5, <1>6, <1>7

(* A new node is put in front of the list of its parent, which did not have *)
(* its name: the path would have been known.                                *)
LEMMA NewNodeTree ==
    ASSUME TableInv, TreeInv, NEW p \in Keys, NewNode(p)
    PROVE TreeInv'
<1> DEFINE up == Up(p)
<1>1. /\ parser = "node" /\ parser' = "node" /\ table = "ready" /\ section' = section
      /\ StrTableMap(p, p)
    BY NewNodeFacts
<1>2. p \in Seq(STRING) /\ p \in Values
    BY NewNodeFacts
<1>3. p \notin DOMAIN nodes /\ StrTableGet(p) = Null
    <2>1. p \notin DOMAIN nodes
        BY NewNodeFacts
    <2> QED BY <2>1, <1>1, KnownFacts DEF Known
<1>5. /\ up \in Seq(STRING) /\ Last(p) \in STRING /\ Append(up, Last(p)) = p
      /\ up # p
    BY NewNodeFacts
<1>6. up \in DOMAIN nodes
    BY NewNodeFacts
<1>7. /\ DOMAIN nodes' = DOMAIN nodes \cup {p}
      /\ nodes'[p] = NodeBelow(up)
      /\ nodes'[up] = WithSubnode(nodes[up], Last(p))
      /\ \A q \in DOMAIN nodes \ {up} : nodes'[q] = nodes[q]
      /\ nodes' = [q \in DOMAIN nodes' |-> nodes'[q]]
    BY NewNodeFacts
<1> HIDE DEF up
<1>8. nodes[up] \in Node /\ \A q \in DOMAIN nodes : nodes[q] \in Node
    BY <1>6 DEF TreeInv, NodesType
<1>9. NodeBelow(up) \in Node /\ NodeBelow(up).subnodes = <<>>
    BY <1>8 DEF NodeBelow, Node
<1>10. /\ WithSubnode(nodes[up], Last(p)) \in Node
       /\ WithSubnode(nodes[up], Last(p)).subnodes = <<Last(p)>> \o nodes[up].subnodes
    BY <1>5, <1>8, WithSubnodeFacts
<1>11. NodesType'
    <2>1. \A q \in DOMAIN nodes' : nodes'[q] \in Node
        BY <1>7, <1>8, <1>9, <1>10
    <2>2. nodes' \in [DOMAIN nodes' -> Node]
        BY <1>7, <2>1
    <2> QED BY <1>1, <1>7, <2>2 DEF TreeInv, NodesType
<1>12. IsList(up, <<Last(p)>> \o nodes[up].subnodes, DOMAIN nodes')
    <2> DEFINE old == nodes[up].subnodes
               new == <<Last(p)>> \o old
    <2>1. old \in Seq(STRING) /\ IsList(up, old, DOMAIN nodes)
        BY <1>6, <1>8 DEF Node, TreeInv
    <2>2. /\ Len(new) = Len(old) + 1 /\ new[1] = Last(p)
          /\ \A i \in 2 .. Len(old) + 1 : new[i] = old[i - 1]
        BY <2>1, <1>5
    <2>3. \A i \in 1 .. Len(old) : old[i] # Last(p) /\ Append(up, old[i]) \in DOMAIN nodes
        BY <2>1, <1>3, <1>5 DEF IsList
    <2>4. Len(old) \in Nat
        BY <2>1
    <2> HIDE DEF new, old
    <2>5. \A i \in 1 .. Len(new) : Append(up, new[i]) \in DOMAIN nodes'
        <3> TAKE i \in 1 .. Len(new)
        <3>1. CASE i = 1
            BY <3>1, <2>2, <1>5, <1>7
        <3>2. CASE i # 1
            <4>1. i - 1 \in 1 .. Len(old) /\ new[i] = old[i - 1]
                BY <3>2, <2>2, <2>4
            <4> QED BY <4>1, <2>3, <1>7
        <3> QED BY <3>1, <3>2
    <2>6. ASSUME NEW i \in 1 .. Len(new), NEW j \in 1 .. Len(new), new[i] = new[j]
          PROVE i = j
        <3>1. i # 1 => i - 1 \in 1 .. Len(old) /\ new[i] = old[i - 1] /\ new[i] # Last(p)
            BY <2>2, <2>3, <2>4
        <3>2. j # 1 => j - 1 \in 1 .. Len(old) /\ new[j] = old[j - 1] /\ new[j] # Last(p)
            BY <2>2, <2>3, <2>4
        <3>3. i = 1 <=> j = 1
            BY <3>1, <3>2, <2>2, <2>6
        <3>4. i # 1 => i - 1 = j - 1
            BY <3>1, <3>2, <3>3, <2>1, <2>6 DEF IsList
        <3> QED BY <3>3, <3>4
    <2> QED BY <2>5, <2>6 DEF IsList, new, old
<1>13. \A q \in DOMAIN nodes' : IsList(q, nodes'[q].subnodes, DOMAIN nodes')
    <2> TAKE q \in DOMAIN nodes'
    <2>1. CASE q = p
        BY <2>1, <1>7, <1>9 DEF IsList
    <2>2. CASE q = up
        BY <2>2, <1>7, <1>10, <1>12
    <2>3. CASE q # p /\ q # up
        BY <2>3, <1>7 DEF TreeInv, IsList
    <2> QED BY <2>1, <2>2, <2>3
<1>14. NodesMapped'
    <2>1. CASE table' = "failed"
        BY <2>1 DEF NodesMapped
    <2>2. CASE table' # "failed"
        <3>1. Associations' = Associations \cup {[key |-> p, data |-> p]}
            BY <2>2, <1>1, <1>2, <1>3, MapAdds
        <3>2. /\ \A e \in Associations : e.key \in DOMAIN nodes /\ e.data = e.key
              /\ \A q \in DOMAIN nodes : \E e \in Associations : e.key = q
            BY <1>1 DEF TreeInv, NodesMapped
        <3>3. \A e \in Associations' : e.key \in DOMAIN nodes' /\ e.data = e.key
            BY <3>1, <3>2, <1>7
        <3>4. \A q \in DOMAIN nodes' : \E e \in Associations' : e.key = q
            <4>1. [key |-> p, data |-> p].key = p
                OBVIOUS
            <4> QED BY <3>1, <3>2, <1>7, <4>1
        <3> QED BY <3>3, <3>4 DEF NodesMapped
    <2> QED BY <2>1, <2>2
<1> QED BY <1>11, <1>13, <1>14 DEF TreeInv

(* Policies change, the lists of subnodes do not.                           *)
LEMMA DefineTree ==
    ASSUME TreeInv, Define
    PROVE TreeInv'
<1>1. /\ parser = "node" /\ parser' = "lines" /\ section' = section /\ UNCHANGED tableVars
      /\ DOMAIN nodes' = DOMAIN nodes
      /\ nodes' = [q \in DOMAIN nodes |-> nodes'[q]]
      /\ \A q \in DOMAIN nodes :
            \/ nodes'[q] = nodes[q]
            \/ nodes'[q] = [nodes[q] EXCEPT !.policy = section, !.inherited = FALSE]
            \/ nodes'[q] = [nodes[q] EXCEPT !.policy = section, !.inherited = TRUE]
    BY DEF Define
<1>2. section \in Given /\ \A q \in DOMAIN nodes : nodes[q] \in Node
    BY DEF TreeInv, NodesType
<1>3. ASSUME NEW node \in Node, NEW b \in BOOLEAN
      PROVE /\ [node EXCEPT !.policy = section, !.inherited = b] \in Node
            /\ [node EXCEPT !.policy = section, !.inherited = b].subnodes = node.subnodes
    BY <1>2 DEF Node
<1>4. \A q \in DOMAIN nodes : nodes'[q] \in Node /\ nodes'[q].subnodes = nodes[q].subnodes
    BY <1>1, <1>2, <1>3
<1>5. NodesType'
    BY <1>1, <1>4 DEF TreeInv, NodesType
<1>6. \A q \in DOMAIN nodes' : IsList(q, nodes'[q].subnodes, DOMAIN nodes')
    BY <1>1, <1>4 DEF TreeInv
<1>7. Associations' = Associations /\ table' = table
    <2>1. UNCHANGED tableVars
        BY <1>1
    <2> QED BY <2>1 DEF tableVars, Associations, Entries, EntriesOf
<1>8. NodesMapped'
    <2>1. parser = "node" /\ DOMAIN nodes' = DOMAIN nodes
        BY <1>1
    <2> QED BY <2>1, <1>7 DEF TreeInv, NodesMapped
<1> QED BY <1>5, <1>6, <1>8 DEF TreeInv

(* The tree does not change while the table doubles.                        *)
LEMMA TableWorksTree ==
    ASSUME TableInv, NothingYet, TreeInv, TableWorks
    PROVE TreeInv'
<1>1. UNCHANGED <<nodes, section, parser>> /\ TableStep
    BY DEF TableWorks, parserVars
<1>2. /\ table = "doubling" /\ table' \in {"ready", "doubling"}
      /\ Associations' = Associations
    BY <1>1, StepKeepsAssociations
<1>3. NodesType' /\ \A q \in DOMAIN nodes' : IsList(q, nodes'[q].subnodes, DOMAIN nodes')
    BY <1>1 DEF TreeInv, NodesType
<1>4. NodesMapped'
    BY <1>1, <1>2 DEF TreeInv, NodesMapped
<1> QED BY <1>3, <1>4 DEF TreeInv

(* Each step of the parser keeps the tree.                                  *)
LEMMA ParserTree ==
    ASSUME TableInv, NothingYet, TreeInv, ParserNext
    PROVE TreeInv'
<1>1. CASE MakeRoot
    BY <1>1, MakeRootTree
<1>2. CASE TableWorks
    BY <1>2, TableWorksTree
<1>3. CASE Define
    BY <1>3, DefineTree
<1>4. CASE EndOfConfig
    <2>1. /\ parser' = "parsed" /\ parser # "new" /\ parser # "parsed"
          /\ UNCHANGED <<nodes, section>>
        BY <1>4 DEF EndOfConfig
    <2>2. NodesType' /\ \A q \in DOMAIN nodes' : IsList(q, nodes'[q].subnodes, DOMAIN nodes')
        BY <2>1 DEF TreeInv, NodesType
    <2> QED BY <2>1, <2>2 DEF TreeInv, NodesMapped
<1>5. CASE \E line \in Lines : ParseLine(line)
    <2>1. PICK line \in Lines : ParseLine(line)
        BY <1>5
    <2>2. AtLine(line) /\ UNCHANGED nodes /\ section' \in {section, line.policy}
          /\ parser' \in {parser, "refused", "node"}
        BY <2>1 DEF ParseLine, SkipLine, StartSection, BadSection, Expression, BadPath,
                    Redefine, PathLine, Die
    <2>3. section' \in Given
        BY <2>2 DEF TreeInv, NodesType, Given
    <2> QED BY <2>2, <2>3, SameNodes DEF AtLine
<1>6. CASE \E p \in Keys : NewNode(p) \/ BadNode(p)
    <2>1. PICK p \in Keys : NewNode(p) \/ BadNode(p)
        BY <1>6
    <2>2. CASE BadNode(p)
        <3>1. parser = "node" /\ parser' = "refused" /\ UNCHANGED <<nodes, section, tableVars>>
            BY <2>2 DEF BadNode, IsNext, Die
        <3> QED BY <3>1, SameNodes DEF TreeInv, NodesType
    <2> QED BY <2>1, <2>2, NewNodeTree
<1> QED BY <1>1, <1>2, <1>3, <1>4, <1>5, <1>6 DEF ParserNext

(* There is no node at first.                                               *)
LEMMA InitTree == ParserInit => TreeInv
<1> SUFFICES ASSUME ParserInit PROVE TreeInv
    OBVIOUS
<1>1. /\ nodes = <<>> /\ section = "none" /\ parser = "new" /\ TableInit
      /\ InitialCapacity \in Nat
    BY TableAssumption DEF ParserInit
<1>2. DOMAIN nodes = {}
    BY <1>1
<1>3. NodesType
    BY <1>1, <1>2 DEF NodesType, Given
<1>4. Associations = {}
    BY <1>1, EmptyFacts DEF TableInit, Entries, Associations
<1>5. NodesMapped
    BY <1>2, <1>4 DEF NodesMapped
<1> QED BY <1>2, <1>3, <1>5 DEF TreeInv

(* Nothing changes for the parser.                                          *)
LEMMA SameTree ==
    ASSUME TreeInv, UNCHANGED <<parserVars, tableVars>>
    PROVE TreeInv'
<1>1. UNCHANGED <<nodes, section, parser, table>> /\ Associations' = Associations
    BY DEF parserVars, tableVars, Associations, Entries, EntriesOf
<1> QED BY <1>1 DEF TreeInv, NodesType, NodesMapped

-----------------------------------------------------------------------------
(* Prefixes: names compared one by one.                                     *)
LEMMA PrefixFacts ==
    ASSUME NEW s \in Seq(STRING), NEW t \in Seq(STRING)
    PROVE /\ IsPrefix(s, t) <=> Len(s) <= Len(t) /\ \A i \in 1 .. Len(s) : s[i] = t[i]
          /\ s \in Prefixes(t) <=> IsPrefix(s, t)
<1>1. Len(s) \in Nat /\ Len(t) \in Nat /\ Len(s) \in 0 .. Len(s)
    OBVIOUS
<1>2. SubSeq(s, 1, Len(s)) = s
    BY <1>1, CutFacts
<1>3. ASSUME NEW n \in 0 .. Len(t)
      PROVE /\ SubSeq(t, 1, n) \in Seq(STRING) /\ Len(SubSeq(t, 1, n)) = n
            /\ \A i \in 1 .. n : SubSeq(t, 1, n)[i] = t[i]
    BY CutFacts
<1>4. ASSUME Len(s) <= Len(t), \A i \in 1 .. Len(s) : s[i] = t[i]
      PROVE SubSeq(t, 1, Len(s)) = s
    <2>1. Len(s) \in 0 .. Len(t)
        BY <1>1, <1>4
    <2>2. \A i \in 1 .. Len(s) : SubSeq(t, 1, Len(s))[i] = s[i]
        BY <1>3, <1>4, <2>1
    <2> QED BY <1>3, <2>1, <2>2, SeqEqual
<1>5. ASSUME IsPrefix(s, t) PROVE Len(s) <= Len(t) /\ \A i \in 1 .. Len(s) : s[i] = t[i]
    <2>1. Len(s) <= Len(t) /\ SubSeq(t, 1, Len(s)) = s
        BY <1>2, <1>5 DEF IsPrefix
    <2>2. Len(s) \in 0 .. Len(t)
        BY <1>1, <2>1
    <2> QED BY <1>3, <2>1, <2>2
<1>6. ASSUME Len(s) <= Len(t), \A i \in 1 .. Len(s) : s[i] = t[i] PROVE IsPrefix(s, t)
    BY <1>2, <1>4, <1>6 DEF IsPrefix
<1>7. ASSUME s \in Prefixes(t) PROVE IsPrefix(s, t)
    <2>1. PICK n \in 0 .. Len(t) : s = SubSeq(t, 1, n)
        BY <1>7 DEF Prefixes
    <2> QED BY <1>1, <1>3, <1>6, <2>1
<1>8. ASSUME IsPrefix(s, t) PROVE s \in Prefixes(t)
    <2>1. Len(s) \in 0 .. Len(t) /\ SubSeq(t, 1, Len(s)) = s
        BY <1>1, <1>4, <1>5, <1>8
    <2> QED BY <2>1 DEF Prefixes
<1> QED BY <1>5, <1>6, <1>7, <1>8

(* Of two prefixes of a path one is a prefix of the other.                  *)
LEMMA PrefixOrder ==
    ASSUME NEW p \in Seq(STRING), NEW q \in Seq(STRING), NEW r \in Seq(STRING)
    PROVE /\ IsPrefix(p, p) /\ IsPrefix(<<>>, p)
          /\ IsPrefix(p, q) /\ IsPrefix(q, r) => IsPrefix(p, r)
          /\ IsPrefix(p, q) /\ IsPrefix(q, p) => p = q
          /\ IsPrefix(p, r) /\ IsPrefix(q, r) /\ Len(p) <= Len(q) => IsPrefix(p, q)
          /\ IsPrefix(p, r) /\ IsPrefix(q, r) => IsPrefix(p, q) \/ IsPrefix(q, p)
          /\ IsPrefix(p, q) => Len(p) <= Len(q)
<1>1. Len(p) \in Nat /\ Len(q) \in Nat /\ Len(r) \in Nat /\ <<>> \in Seq(STRING) /\ Len(<<>>) = 0
    OBVIOUS
<1>2. IsPrefix(p, p) /\ IsPrefix(<<>>, p)
    <2>1. IsPrefix(p, p)
        BY <1>1, PrefixFacts
    <2>2. 1 .. Len(<<>>) = {} /\ Len(<<>>) <= Len(p)
        BY <1>1
    <2>3. IsPrefix(<<>>, p)
        BY <1>1, <2>2, PrefixFacts
    <2> QED BY <2>1, <2>3
<1>3. ASSUME IsPrefix(p, q), IsPrefix(q, r) PROVE IsPrefix(p, r)
    BY <1>1, <1>3, PrefixFacts
<1>4. ASSUME IsPrefix(p, q), IsPrefix(q, p) PROVE p = q
    BY <1>1, <1>4, PrefixFacts, SeqEqual
<1>5. ASSUME IsPrefix(p, r), IsPrefix(q, r), Len(p) <= Len(q) PROVE IsPrefix(p, q)
    BY <1>1, <1>5, PrefixFacts
<1>6. ASSUME IsPrefix(p, r), IsPrefix(q, r), Len(q) <= Len(p) PROVE IsPrefix(q, p)
    BY <1>1, <1>6, PrefixFacts
<1>7. IsPrefix(p, q) => Len(p) <= Len(q)
    BY PrefixFacts
<1>8. Len(p) <= Len(q) \/ Len(q) <= Len(p)
    BY <1>1
<1> QED BY <1>2, <1>3, <1>4, <1>5, <1>6, <1>7, <1>8

(* What is above a path is above or at its directory.                       *)
LEMMA UpFacts ==
    ASSUME NEW p \in Seq(STRING), p # <<>>
    PROVE /\ Up(p) \in Seq(STRING) /\ IsPrefix(Up(p), p) /\ Up(p) # p
          /\ Range(p) = Range(Up(p)) \cup {Last(p)}
          /\ \A q \in Seq(STRING) : IsPrefix(q, p) <=> q = p \/ IsPrefix(q, Up(p))
<1>1. /\ Up(p) \in Seq(STRING) /\ Len(Up(p)) = Len(p) - 1 /\ Len(p) \in Nat \ {0}
      /\ \A i \in 1 .. Len(p) - 1 : Up(p)[i] = p[i]
    BY FrontFacts DEF Up
<1>2. IsPrefix(Up(p), p) /\ Up(p) # p
    BY <1>1, PrefixFacts
<1>3. ASSUME NEW q \in Seq(STRING), IsPrefix(q, p), q # p PROVE IsPrefix(q, Up(p))
    <2>1. Len(q) <= Len(p) /\ \A i \in 1 .. Len(q) : q[i] = p[i]
        BY <1>3, PrefixFacts
    <2>2. Len(q) \in Nat /\ Len(q) # Len(p)
        BY <1>3, <2>1, SeqEqual
    <2> QED BY <1>1, <2>1, <2>2, PrefixFacts
<1>4. Range(p) = Range(Up(p)) \cup {Last(p)}
    <2>1. DOMAIN p = 1 .. Len(p) /\ DOMAIN Up(p) = 1 .. Len(p) - 1
        BY <1>1
    <2>2. \A i \in 1 .. Len(p) : i = Len(p) \/ i \in 1 .. Len(p) - 1
        BY <1>1
    <2> QED BY <1>1, <2>1, <2>2 DEF Range, Last
<1> QED BY <1>1, <1>2, <1>3, <1>4, PrefixOrder

-----------------------------------------------------------------------------
(* The header a line belongs to.                                            *)
Headers(lines, i) == {j \in 1 .. i - 1 : lines[j].kind = "section"}
HasHeader(lines, i) ==
    Headers(lines, i) # {} => \E j \in Headers(lines, i) : \A k \in Headers(lines, i) : j >= k

(* The greatest of some numbers.                                            *)
LEMMA MaxFacts ==
    ASSUME NEW S \in SUBSET Int, NEW j \in S, \A k \in S : j >= k
    PROVE Max(S) = j
<1> DEFINE IsMax(x) == \A y \in S : x >= y
<1>1. j \in S /\ IsMax(j)
    OBVIOUS
<1>2. Max(S) = CHOOSE x \in S : IsMax(x)
    BY DEF Max
<1> HIDE DEF IsMax
<1>3. Max(S) \in S /\ IsMax(Max(S))
    BY <1>1, <1>2, Zenon
<1>4. Max(S) >= j /\ j >= Max(S)
    BY <1>3 DEF IsMax
<1>5. Max(S) \in Int /\ j \in Int
    BY <1>3
<1> QED BY <1>4, <1>5

(* The section of a line is the one its header starts.                      *)
LEMMA SectionFacts ==
    ASSUME NEW lines, NEW i \in Nat, HasHeader(lines, i)
    PROVE /\ Headers(lines, i) = {} => SectionAt(lines, i) = "none"
          /\ \A j \in Headers(lines, i) :
                (\A k \in Headers(lines, i) : j >= k) => SectionAt(lines, i) = lines[j].policy
<1> DEFINE headers == Headers(lines, i)
<1>1. headers \in SUBSET Int
    BY DEF Headers
<1>2. SectionAt(lines, i) = IF headers = {} THEN "none" ELSE lines[Max(headers)].policy
    BY DEF SectionAt, Headers
<1> HIDE DEF headers
<1>3. ASSUME NEW j \in headers, \A k \in headers : j >= k
      PROVE SectionAt(lines, i) = lines[j].policy
    BY <1>1, <1>2, <1>3, MaxFacts
<1> QED BY <1>2, <1>3 DEF headers

(* One more line changes nothing for those before it, and is in the section *)
(* that the file has come to.                                               *)
LEMMA OneMoreLine ==
    ASSUME NEW lines \in Seq(Lines), NEW line \in Lines,
           \A i \in 1 .. Len(lines) + 1 : HasHeader(lines, i)
    PROVE LET n == Len(lines) + 1
              more == Append(lines, line)
          IN /\ more \in Seq(Lines) /\ Len(more) = n /\ more[n] = line
             /\ \A i \in 1 .. Len(lines) : more[i] = lines[i]
             /\ \A i \in 1 .. n + 1 : HasHeader(more, i)
             /\ \A i \in 1 .. n : SectionAt(more, i) = SectionAt(lines, i)
             /\ SectionAt(more, n + 1) =
                    IF line.kind = "section" THEN line.policy ELSE SectionAt(lines, n)
<1> DEFINE n == Len(lines) + 1
           more == Append(lines, line)
<1>1. /\ more \in Seq(Lines) /\ Len(more) = n /\ more[n] = line
      /\ \A i \in 1 .. Len(lines) : more[i] = lines[i]
      /\ n \in Nat \ {0} /\ Len(lines) \in Nat
    OBVIOUS
<1> HIDE DEF more
<1>2. ASSUME NEW i \in 1 .. n PROVE Headers(more, i) = Headers(lines, i)
    <2>1. \A j \in 1 .. i - 1 : more[j] = lines[j]
        BY <1>1
    <2> QED BY <2>1 DEF Headers
<1>3. ASSUME NEW i \in 1 .. n
      PROVE HasHeader(more, i) /\ SectionAt(more, i) = SectionAt(lines, i)
    <2>1. HasHeader(lines, i) /\ HasHeader(more, i)
        BY <1>2 DEF HasHeader
    <2>2. CASE Headers(lines, i) = {}
        BY <1>1, <1>2, <2>1, <2>2, SectionFacts
    <2>3. CASE Headers(lines, i) # {}
        <3>1. PICK j \in Headers(lines, i) : \A k \in Headers(lines, i) : j >= k
            BY <2>1, <2>3 DEF HasHeader
        <3>2. j \in 1 .. Len(lines)
            BY <1>1, <3>1 DEF Headers
        <3> QED BY <1>1, <1>2, <2>1, <3>1, <3>2, SectionFacts
    <2> QED BY <2>1, <2>2, <2>3
<1>4. Headers(more, n + 1) =
          IF line.kind = "section" THEN Headers(more, n) \cup {n} ELSE Headers(more, n)
    <2>1. 1 .. (n + 1) - 1 = (1 .. n - 1) \cup {n}
        BY <1>1
    <2> QED BY <1>1, <2>1 DEF Headers
<1>5. \A k \in Headers(more, n) : k \in Int /\ n >= k
    BY <1>1 DEF Headers
<1>6. HasHeader(more, n + 1) /\ SectionAt(more, n + 1) =
          IF line.kind = "section" THEN line.policy ELSE SectionAt(lines, n)
    <2>1. n \in 1 .. n /\ n + 1 \in Nat /\ n >= n
        BY <1>1
    <2>2. CASE line.kind = "section"
        <3>1. n \in Headers(more, n + 1) /\ \A k \in Headers(more, n + 1) : n >= k
            BY <1>4, <1>5, <2>1, <2>2
        <3>2. HasHeader(more, n + 1)
            BY <3>1 DEF HasHeader
        <3>3. SectionAt(more, n + 1) = more[n].policy
            BY <2>1, <3>1, <3>2, SectionFacts
        <3> QED BY <1>1, <2>2, <3>2, <3>3
    <2>3. CASE line.kind # "section"
        <3>1. Headers(more, n + 1) = Headers(more, n)
            BY <1>4, <2>3
        <3>2. HasHeader(more, n + 1)
            BY <1>3, <2>1, <3>1 DEF HasHeader
        <3>3. SectionAt(more, n + 1) = SectionAt(more, n)
            BY <2>1, <3>1 DEF SectionAt, Headers
        <3> QED BY <1>3, <2>1, <2>3, <3>2, <3>3
    <2> QED BY <2>2, <2>3
<1>7. \A i \in 1 .. n + 1 : HasHeader(more, i)
    <2>1. \A i \in 1 .. n + 1 : i \in 1 .. n \/ i = n + 1
        BY <1>1
    <2> QED BY <1>3, <1>6, <2>1
<1> QED BY <1>1, <1>3, <1>6, <1>7 DEF more

(* So it may add a rule, and nothing else; whether an earlier line is wrong *)
(* stays as it is.                                                          *)
LEMMA OneMoreRule ==
    ASSUME NEW lines \in Seq(Lines), NEW line \in Lines,
           \A i \in 1 .. Len(lines) + 1 : HasHeader(lines, i)
    PROVE LET n == Len(lines) + 1
              more == Append(lines, line)
          IN /\ Definitions(more) = Definitions(lines) \cup
                    IF line.kind = "path" /\ SectionAt(lines, n) \in Rule THEN {n} ELSE {}
             /\ Definitions(lines) \subseteq 1 .. Len(lines)
             /\ \A i \in 1 .. Len(lines) : Wrong(more, i) <=> Wrong(lines, i)
<1> DEFINE n == Len(lines) + 1
           more == Append(lines, line)
<1>1. /\ more \in Seq(Lines) /\ Len(more) = n /\ more[n] = line
      /\ \A i \in 1 .. Len(lines) : more[i] = lines[i]
      /\ \A i \in 1 .. n : SectionAt(more, i) = SectionAt(lines, i)
    BY OneMoreLine
<1>2. /\ n \in Nat \ {0} /\ Len(lines) \in Nat /\ 1 .. n = (1 .. Len(lines)) \cup {n}
      /\ DOMAIN lines = 1 .. Len(lines) /\ n \notin 1 .. Len(lines)
    OBVIOUS
<1>3. DOMAIN more = 1 .. n
    BY <1>1
<1> HIDE DEF more, n
<1>4. Definitions(more) = Definitions(lines) \cup
          IF line.kind = "path" /\ SectionAt(lines, n) \in Rule THEN {n} ELSE {}
    <2>1. Definitions(more) = {i \in 1 .. n : more[i].kind = "path" /\ SectionAt(more, i) \in Rule}
        BY <1>3 DEF Definitions
    <2>2. Definitions(lines) =
              {i \in 1 .. Len(lines) : lines[i].kind = "path" /\ SectionAt(lines, i) \in Rule}
        BY <1>2 DEF Definitions
    <2>3. \A i \in 1 .. Len(lines) : i \in Definitions(more) <=> i \in Definitions(lines)
        BY <1>1, <1>2, <2>1, <2>2
    <2>4. n \in Definitions(more) <=> line.kind = "path" /\ SectionAt(lines, n) \in Rule
        BY <1>1, <1>2, <2>1
    <2>5. Definitions(more) \subseteq 1 .. n /\ Definitions(lines) \subseteq 1 .. Len(lines)
        BY <2>1, <2>2
    <2> QED BY <1>2, <2>3, <2>4, <2>5
<1>5. Definitions(lines) \subseteq 1 .. Len(lines)
    BY <1>2 DEF Definitions
<1>6. ASSUME NEW i \in 1 .. Len(lines) PROVE Wrong(more, i) <=> Wrong(lines, i)
    <2>1. more[i] = lines[i] /\ SectionAt(more, i) = SectionAt(lines, i)
        BY <1>1, <1>2
    <2>2. i \in Definitions(more) <=> i \in Definitions(lines)
        BY <1>2, <1>4
    <2>3. (\E j \in Definitions(more) : j < i /\ more[j].path = more[i].path)
              <=> (\E j \in Definitions(lines) : j < i /\ lines[j].path = lines[i].path)
        <3>1. ~(n < i)
            BY <1>2 DEF n
        <3> QED BY <1>1, <1>4, <1>5, <2>1, <3>1
    <2> QED BY <2>1, <2>2, <2>3 DEF Wrong
<1> QED BY <1>4, <1>5, <1>6 DEF more, n

-----------------------------------------------------------------------------
(* What the tree means while the config file is read.  The rule whose path  *)
(* is being made does not count yet.                                        *)
RulesSoFar ==
    IF parser = "node" THEN Definitions(read) \ {Len(read)} ELSE Definitions(read)

ReadInv ==
    /\ read \in Seq(Lines) /\ \A i \in 1 .. Len(read) + 1 : HasHeader(read, i)
    /\ SectionAt(read, Len(read) + 1) = section
    /\ \A i, j \in Definitions(read) : read[i].path = read[j].path => i = j
    /\ parser = "node" =>
          /\ Len(read) \in Definitions(read)
          /\ target = read[Len(read)].path /\ SectionAt(read, Len(read)) = section

(* r is the nearest node above p, or at it, that has a policy of its own.   *)
GivenBy(r, p) ==
    /\ IsPrefix(r, p) /\ Explicit(nodes[r]) /\ nodes[p].policy = nodes[r].policy
    /\ \A s \in DOMAIN nodes : IsPrefix(s, p) /\ Explicit(nodes[s]) => IsPrefix(s, r)

NoneAbove(p) ==
    /\ nodes[p].policy = "none"
    /\ \A r \in DOMAIN nodes : IsPrefix(r, p) => ~Explicit(nodes[r])

(* The nodes are what the rules need, rules are the nodes with a policy of  *)
(* their own, and each node has the policy of the nearest one.              *)
ShapeInv ==
    /\ \A p \in DOMAIN nodes, q \in Seq(STRING) : IsPrefix(q, p) => q \in DOMAIN nodes
    /\ \A p \in DOMAIN nodes : Range(p) \cap Invalid = {}
    /\ \A p \in DOMAIN nodes :
          p = <<>> \/ \E i \in Definitions(read) : IsPrefix(p, read[i].path)

RulesInv ==
    /\ \A i \in RulesSoFar :
          /\ read[i].path \in DOMAIN nodes /\ Explicit(nodes[read[i].path])
          /\ nodes[read[i].path].policy = SectionAt(read, i)
    /\ \A p \in DOMAIN nodes : Explicit(nodes[p]) => \E i \in RulesSoFar : read[i].path = p

PolicyInv == \A p \in DOMAIN nodes : NoneAbove(p) \/ \E r \in DOMAIN nodes : GivenBy(r, p)

RegexInv ==
    \A p \in DOMAIN nodes : nodes[p].regexBelow =
        \E q \in DOMAIN nodes : q # RootNode /\ Up(q) = p /\ Last(q) \in Regexes

NodesInv == ShapeInv /\ RulesInv /\ PolicyInv /\ RegexInv

CorrectSoFar == \A i \in 1 .. Len(read) : Wrong(read, i) => parser = "node" /\ i = Len(read)

ConfigInv ==
    /\ parser = "new" => read = <<>> /\ section = "none"
    /\ parser \in {"lines", "node"} => ReadInv /\ NodesInv /\ CorrectSoFar
    /\ TreeMeansConfig /\ RefusedForAReason

(* Nothing has been read at first.                                          *)
LEMMA NothingRead == ParserInit => ConfigInv
BY DEF ParserInit, ConfigInv, TreeMeansConfig, RefusedForAReason

(* Nothing changes for the config file and the tree.                        *)
LEMMA SameConfig ==
    ASSUME ConfigInv, UNCHANGED <<read, section, nodes, target, parser>>
    PROVE ConfigInv'
<1>1. RulesSoFar' = RulesSoFar
    BY DEF RulesSoFar
<1>2. ReadInv => ReadInv'
    BY DEF ReadInv
<1>3. NodesInv => NodesInv'
    BY <1>1 DEF NodesInv, ShapeInv, RulesInv, PolicyInv, NoneAbove, GivenBy, RegexInv
<1>4. CorrectSoFar => CorrectSoFar'
    BY DEF CorrectSoFar
<1> QED BY <1>2, <1>3, <1>4 DEF ConfigInv, TreeMeansConfig, RefusedForAReason

(* The root has no policy.                                                  *)
LEMMA MakeRootConfig ==
    ASSUME ConfigInv, MakeRoot
    PROVE ConfigInv'
<1>1. /\ parser = "new" /\ parser' = "lines" /\ read' = <<>> /\ section' = "none"
      /\ nodes' = [q \in {RootNode} |-> [policy |-> "none", inherited |-> FALSE,
                                         subnodes |-> <<>>, regexBelow |-> FALSE]]
    BY DEF MakeRoot, ConfigInv
<1>2. /\ DOMAIN nodes' = {<<>>} /\ nodes'[<<>>].policy = "none" /\ ~Explicit(nodes'[<<>>])
      /\ nodes'[<<>>].regexBelow = FALSE
    BY <1>1 DEF RootNode, Explicit
<1>3. /\ <<>> \in Seq(Lines) /\ Len(<<>>) = 0 /\ 1 .. 0 = {} /\ 1 .. Len(<<>>) + 1 = {1}
      /\ Definitions(<<>>) = {} /\ Headers(<<>>, 1) = {}
    <2>1. DOMAIN <<>> = {} /\ <<>> \in Seq(Lines) /\ Len(<<>>) = 0 /\ 1 .. 0 = {} /\ 1 - 1 = 0
        OBVIOUS
    <2>2. 1 .. Len(<<>>) + 1 = {1}
        BY <2>1
    <2> QED BY <2>1, <2>2 DEF Definitions, Headers
<1>4. HasHeader(<<>>, 1) /\ SectionAt(<<>>, 1) = "none"
    BY <1>3, SectionFacts DEF HasHeader
<1>5. ReadInv'
    BY <1>1, <1>3, <1>4 DEF ReadInv
<1>6. RulesSoFar' = {}
    BY <1>1, <1>3 DEF RulesSoFar
<1>7. ASSUME NEW q \in Seq(STRING), IsPrefix(q, <<>>) PROVE q = <<>>
    <2>1. <<>> \in Seq(STRING)
        OBVIOUS
    <2> QED BY <1>7, <2>1, PrefixOrder
<1>8. Range(<<>>) = {}
    BY DEF Range
<1>9. NodesInv'
    <2>1. ShapeInv'
        BY <1>2, <1>7, <1>8 DEF ShapeInv
    <2>2. RulesInv'
        BY <1>2, <1>6 DEF RulesInv
    <2>3. PolicyInv'
        BY <1>2 DEF PolicyInv, NoneAbove
    <2>4. RegexInv'
        BY <1>2 DEF RegexInv, RootNode
    <2> QED BY <2>1, <2>2, <2>3, <2>4 DEF NodesInv
<1>10. CorrectSoFar'
    BY <1>1, <1>3 DEF CorrectSoFar
<1> QED BY <1>1, <1>5, <1>9, <1>10 DEF ConfigInv, TreeMeansConfig, RefusedForAReason

(* A line is read.                                                          *)
LEMMA LineFacts ==
    ASSUME ConfigInv, NEW line \in Lines, AtLine(line)
    PROVE LET n == Len(read) + 1
          IN /\ ReadInv /\ NodesInv /\ parser = "lines" /\ RulesSoFar = Definitions(read)
             /\ read' \in Seq(Lines) /\ Len(read') = n /\ read'[n] = line /\ n \in 1 .. n
             /\ DOMAIN read' = 1 .. n /\ Definitions(read) \subseteq 1 .. Len(read)
             /\ n \notin 1 .. Len(read) /\ \A i \in 1 .. n : i = n \/ i \in 1 .. Len(read)
             /\ \A i \in 1 .. Len(read) : read'[i] = read[i] /\ ~Wrong(read', i) /\ i < n
             /\ \A i \in 1 .. n + 1 : HasHeader(read', i)
             /\ \A i \in 1 .. n : SectionAt(read', i) = SectionAt(read, i)
             /\ SectionAt(read', n) = section
             /\ SectionAt(read', n + 1) = IF line.kind = "section" THEN line.policy ELSE section
             /\ Definitions(read') = Definitions(read) \cup
                    IF line.kind = "path" /\ section \in Rule THEN {n} ELSE {}
<1> DEFINE n == Len(read) + 1
<1>1. parser = "lines" /\ read' = Append(read, line)
    BY DEF AtLine
<1>2. ReadInv /\ NodesInv /\ \A i \in 1 .. Len(read) : ~Wrong(read, i)
    BY <1>1 DEF ConfigInv, CorrectSoFar
<1>3. /\ read \in Seq(Lines) /\ \A i \in 1 .. Len(read) + 1 : HasHeader(read, i)
      /\ SectionAt(read, n) = section
    BY <1>2 DEF ReadInv
<1>4. /\ read' \in Seq(Lines) /\ Len(read') = n /\ read'[n] = line
      /\ \A i \in 1 .. Len(read) : read'[i] = read[i]
      /\ \A i \in 1 .. n + 1 : HasHeader(read', i)
      /\ \A i \in 1 .. n : SectionAt(read', i) = SectionAt(read, i)
      /\ SectionAt(read', n + 1) =
             IF line.kind = "section" THEN line.policy ELSE SectionAt(read, n)
    BY <1>1, <1>3, OneMoreLine
<1>5. /\ Definitions(read') = Definitions(read) \cup
             IF line.kind = "path" /\ SectionAt(read, n) \in Rule THEN {n} ELSE {}
      /\ Definitions(read) \subseteq 1 .. Len(read)
      /\ \A i \in 1 .. Len(read) : Wrong(read', i) <=> Wrong(read, i)
    BY <1>1, <1>3, OneMoreRule
<1>6. /\ n \in 1 .. n /\ n \notin 1 .. Len(read) /\ \A i \in 1 .. Len(read) : i < n
      /\ \A i \in 1 .. n : i = n \/ i \in 1 .. Len(read)
    BY <1>3
<1>7. DOMAIN read' = 1 .. n
    BY <1>4
<1>8. RulesSoFar = Definitions(read)
    BY <1>1 DEF RulesSoFar
<1> QED BY <1>1, <1>2, <1>3, <1>4, <1>5, <1>6, <1>7, <1>8

(* The line has no effect on the nodes.                                     *)
LEMMA QuietLine ==
    ASSUME ConfigInv, NEW line \in Lines, AtLine(line), parser' = "lines", nodes' = nodes,
           section' = IF line.kind = "section" THEN line.policy ELSE section,
           ~(line.kind = "path" /\ section \in Rule), ~Wrong(read', Len(read) + 1)
    PROVE ConfigInv'
<1> DEFINE n == Len(read) + 1
<1>1. /\ ReadInv /\ NodesInv /\ parser = "lines" /\ RulesSoFar = Definitions(read)
      /\ read' \in Seq(Lines) /\ Len(read') = n
      /\ Definitions(read) \subseteq 1 .. Len(read)
      /\ \A i \in 1 .. n : i = n \/ i \in 1 .. Len(read)
      /\ \A i \in 1 .. Len(read) : read'[i] = read[i] /\ ~Wrong(read', i)
      /\ \A i \in 1 .. n + 1 : HasHeader(read', i)
      /\ \A i \in 1 .. n : SectionAt(read', i) = SectionAt(read, i)
      /\ SectionAt(read', n + 1) = section'
      /\ Definitions(read') = Definitions(read)
    BY LineFacts
<1>2. RulesSoFar' = RulesSoFar
    BY <1>1 DEF RulesSoFar
<1>3. \A i \in Definitions(read) : read'[i] = read[i] /\ SectionAt(read', i) = SectionAt(read, i)
    <2>1. 1 .. Len(read) \subseteq 1 .. n
        BY <1>1 DEF ReadInv
    <2> QED BY <1>1, <2>1
<1>4. ReadInv'
    BY <1>1, <1>3 DEF ReadInv
<1>5. NodesInv'
    <2>1. ShapeInv /\ RulesInv /\ PolicyInv /\ RegexInv
        BY <1>1 DEF NodesInv
    <2>2. ShapeInv'
        BY <1>1, <1>3, <2>1 DEF ShapeInv
    <2>3. RulesInv'
        BY <1>1, <1>2, <1>3, <2>1 DEF RulesInv
    <2>4. PolicyInv'
        BY <2>1 DEF PolicyInv, NoneAbove, GivenBy
    <2>5. RegexInv'
        BY <2>1 DEF RegexInv
    <2> QED BY <2>2, <2>3, <2>4, <2>5 DEF NodesInv
<1>6. CorrectSoFar'
    BY <1>1 DEF CorrectSoFar
<1> QED BY <1>4, <1>5, <1>6 DEF ConfigInv, TreeMeansConfig, RefusedForAReason

(* The line ends the program, and is wrong.                                 *)
LEMMA WrongLine ==
    ASSUME ConfigInv, NEW line \in Lines, AtLine(line), parser' = "refused",
           Wrong(read', Len(read) + 1)
    PROVE ConfigInv'
<1>1. DOMAIN read' = 1 .. Len(read) + 1 /\ Len(read) + 1 \in 1 .. Len(read) + 1
    BY LineFacts
<1> QED BY <1>1 DEF ConfigInv, TreeMeansConfig, RefusedForAReason

(* The line is a rule for a path that has none yet.                         *)
LEMMA RuleLine ==
    ASSUME TableInv, TreeInv, ConfigInv, NEW line \in Lines, PathLine(line)
    PROVE ConfigInv'
<1> DEFINE n == Len(read) + 1
<1>1. /\ AtLine(line) /\ section \in Rule /\ line.kind = "path" /\ ~Redefines(line.path)
      /\ target' = line.path /\ parser' = "node" /\ UNCHANGED <<section, nodes>>
      /\ parser = "lines" /\ table = "ready"
    BY DEF PathLine, AtLine
<1>2. /\ ReadInv /\ NodesInv /\ RulesSoFar = Definitions(read)
      /\ read' \in Seq(Lines) /\ Len(read') = n /\ read'[n] = line /\ n \in 1 .. n
      /\ Definitions(read) \subseteq 1 .. Len(read) /\ n \notin 1 .. Len(read)
      /\ \A i \in 1 .. n : i = n \/ i \in 1 .. Len(read)
      /\ \A i \in 1 .. Len(read) : read'[i] = read[i] /\ ~Wrong(read', i)
      /\ \A i \in 1 .. n + 1 : HasHeader(read', i)
      /\ \A i \in 1 .. n : SectionAt(read', i) = SectionAt(read, i)
      /\ SectionAt(read', n) = section /\ SectionAt(read', n + 1) = section'
      /\ Definitions(read') = Definitions(read) \cup {n}
    BY <1>1, LineFacts
<1>3. RulesSoFar' = RulesSoFar
    BY <1>1, <1>2 DEF RulesSoFar
<1>4. \A i \in Definitions(read) : read'[i] = read[i] /\ SectionAt(read', i) = SectionAt(read, i)
    <2>1. 1 .. Len(read) \subseteq 1 .. n
        BY <1>2 DEF ReadInv
    <2> QED BY <1>2, <2>1
<1>5. line.path \in Keys
    BY <1>1, TreeAssumption
<1>6. ASSUME NEW i \in Definitions(read), read[i].path = line.path PROVE FALSE
    <2>1. read[i].path \in DOMAIN nodes /\ Explicit(nodes[read[i].path])
        BY <1>2 DEF NodesInv, RulesInv
    <2>2. Known(line.path) /\ StrTableGet(line.path) = line.path
        BY <1>1, <1>5, <1>6, <2>1, KnownFacts
    <2> QED BY <1>1, <1>6, <2>1, <2>2 DEF Redefines
<1>7. ReadInv'
    <2>1. ASSUME NEW i \in Definitions(read'), NEW j \in Definitions(read'),
                 read'[i].path = read'[j].path
          PROVE i = j
        <3>1. CASE i = n /\ j = n
            BY <3>1
        <3>2. CASE i = n /\ j # n
            BY <1>2, <1>4, <1>6, <2>1, <3>2
        <3>3. CASE i # n /\ j = n
            BY <1>2, <1>4, <1>6, <2>1, <3>3
        <3>4. CASE i # n /\ j # n
            BY <1>2, <1>4, <2>1, <3>4 DEF ReadInv
        <3> QED BY <3>1, <3>2, <3>3, <3>4
    <2>2. n \in Definitions(read')
        BY <1>2
    <2> QED BY <1>1, <1>2, <2>1, <2>2 DEF ReadInv
<1>8. NodesInv'
    <2>1. ShapeInv /\ RulesInv /\ PolicyInv /\ RegexInv
        BY <1>2 DEF NodesInv
    <2>2. ShapeInv'
        BY <1>1, <1>2, <1>4, <2>1 DEF ShapeInv
    <2>3. RulesInv'
        BY <1>1, <1>2, <1>3, <1>4, <2>1 DEF RulesInv
    <2>4. PolicyInv'
        BY <1>1, <2>1 DEF PolicyInv, NoneAbove, GivenBy
    <2>5. RegexInv'
        BY <1>1, <2>1 DEF RegexInv
    <2> QED BY <2>2, <2>3, <2>4, <2>5 DEF NodesInv
<1>9. CorrectSoFar'
    BY <1>1, <1>2 DEF CorrectSoFar
<1> QED BY <1>1, <1>7, <1>8, <1>9 DEF ConfigInv, TreeMeansConfig, RefusedForAReason

(* Whatever the line, the tree stays right.                                 *)
LEMMA LineConfig ==
    ASSUME TableInv, TreeInv, ConfigInv, NEW line \in Lines, ParseLine(line)
    PROVE ConfigInv'
<1> DEFINE n == Len(read) + 1
<1>1. AtLine(line) /\ parser = "lines" /\ table = "ready"
    BY DEF ParseLine, SkipLine, StartSection, BadSection, Expression, BadPath, Redefine,
           PathLine, AtLine
<1>2. /\ ReadInv /\ NodesInv /\ RulesSoFar = Definitions(read)
      /\ read'[n] = line /\ SectionAt(read', n) = section
      /\ Definitions(read) \subseteq 1 .. Len(read) /\ n \notin 1 .. Len(read)
      /\ \A i \in 1 .. Len(read) : read'[i] = read[i] /\ i < n
      /\ Definitions(read') = Definitions(read) \cup
             IF line.kind = "path" /\ section \in Rule THEN {n} ELSE {}
    BY <1>1, LineFacts
<1>3. n \in Definitions(read') <=> line.kind = "path" /\ section \in Rule
    BY <1>2
<1>4. CASE SkipLine(line)
    <2>1. line.kind = "comment" /\ parser' = "lines" /\ UNCHANGED <<nodes, section>>
        BY <1>1, <1>4 DEF SkipLine
    <2>2. ~Wrong(read', n)
        BY <1>2, <1>3, <2>1 DEF Wrong
    <2> QED BY <1>1, <2>1, <2>2, QuietLine
<1>5. CASE StartSection(line)
    <2>1. line.kind = "section" /\ parser' = "lines" /\ nodes' = nodes /\ section' = line.policy
        BY <1>1, <1>5 DEF StartSection
    <2>2. ~Wrong(read', n)
        BY <1>2, <1>3, <2>1 DEF Wrong
    <2> QED BY <1>1, <2>1, <2>2, QuietLine
<1>6. CASE BadSection(line)
    <2>1. /\ parser' = "refused"
          /\ \/ line.kind = "badSection"
             \/ line.kind \in {"path", "dotted", "word"} /\ section = "none"
        BY <1>6 DEF BadSection, Die
    <2>2. Wrong(read', n)
        BY <1>2, <2>1 DEF Wrong
    <2> QED BY <1>1, <2>1, <2>2, WrongLine
<1>7. CASE Expression(line)
    <2>1. section \in {"ignore", "summarize"} /\ line.kind \in {"path", "dotted", "word"}
        BY <1>7 DEF Expression
    <2>2. CASE line.valid
        <3>1. parser' = "lines" /\ UNCHANGED <<nodes, section>>
            BY <1>1, <1>7, <2>2 DEF Expression
        <3>2. section \notin Rule /\ section # "none"
            BY <2>1 DEF Rule, Policies
        <3>3. ~Wrong(read', n)
            BY <1>2, <1>3, <2>1, <2>2, <3>2 DEF Wrong
        <3>4. line.kind # "section"
            BY <2>1
        <3> QED BY <1>1, <3>1, <3>2, <3>3, <3>4, QuietLine
    <2>3. CASE ~line.valid
        <3>1. parser' = "refused"
            BY <1>7, <2>3 DEF Expression, Die
        <3>2. Wrong(read', n)
            BY <1>2, <2>1, <2>3 DEF Wrong
        <3> QED BY <1>1, <3>1, <3>2, WrongLine
    <2> QED BY <2>2, <2>3
<1>8. CASE BadPath(line)
    <2>1. section \in Rule /\ line.kind \in {"dotted", "word"} /\ parser' = "refused"
        BY <1>8 DEF BadPath, Die
    <2>2. Wrong(read', n)
        BY <1>2, <2>1 DEF Wrong
    <2> QED BY <1>1, <2>1, <2>2, WrongLine
<1>9. CASE Redefine(line)
    <2>1. /\ section \in Rule /\ line.kind = "path" /\ parser' = "refused"
          /\ Redefines(line.path)
        BY <1>9 DEF Redefine, Die
    <2>2. line.path \in DOMAIN nodes /\ Explicit(nodes[line.path])
        <3>1. line.path \in Keys
            BY <2>1, TreeAssumption
        <3>2. Known(line.path) /\ Explicit(nodes[StrTableGet(line.path)])
            BY <2>1 DEF Redefines
        <3> QED BY <1>1, <3>1, <3>2, KnownFacts
    <2>3. PICK j \in Definitions(read) : read[j].path = line.path
        BY <1>2, <2>2 DEF NodesInv, RulesInv
    <2>4. j \in Definitions(read') /\ j < n /\ read'[j].path = read'[n].path
        BY <1>2, <2>3
    <2>5. Wrong(read', n)
        BY <1>3, <2>1, <2>4 DEF Wrong
    <2> QED BY <1>1, <2>1, <2>5, WrongLine
<1>10. CASE PathLine(line)
    BY <1>10, RuleLine
<1> QED BY <1>4, <1>5, <1>6, <1>7, <1>8, <1>9, <1>10 DEF ParseLine

-----------------------------------------------------------------------------
(* A node is made on the way to the target; its policy is the one above.    *)
LEMMA NewNodeConfig ==
    ASSUME TableInv, TreeInv, ConfigInv, NEW p \in Keys, NewNode(p)
    PROVE ConfigInv'
<1> DEFINE up == Up(p)
<1>1. /\ parser = "node" /\ parser' = "node" /\ UNCHANGED <<read, section, target>>
      /\ IsPrefix(p, target) /\ Last(p) \notin Invalid
      /\ p \in Seq(STRING) /\ p # <<>> /\ p \notin DOMAIN nodes
      /\ up # p /\ up \in DOMAIN nodes /\ up \in Seq(STRING) /\ Last(p) \in STRING
      /\ DOMAIN nodes' = DOMAIN nodes \cup {p}
      /\ nodes'[p] = NodeBelow(up)
      /\ nodes'[up] = WithSubnode(nodes[up], Last(p))
      /\ \A q \in DOMAIN nodes \ {up} : nodes'[q] = nodes[q]
    BY NewNodeFacts
<1>2. ReadInv /\ ShapeInv /\ RulesInv /\ PolicyInv /\ RegexInv /\ CorrectSoFar
    BY <1>1 DEF ConfigInv, NodesInv
<1>3. /\ IsPrefix(up, p) /\ Range(p) = Range(up) \cup {Last(p)}
      /\ \A q \in Seq(STRING) : IsPrefix(q, p) <=> q = p \/ IsPrefix(q, up)
    BY <1>1, UpFacts
<1>4. DOMAIN nodes \subseteq Seq(STRING) /\ \A q \in DOMAIN nodes : nodes[q] \in Node
    BY TreeAssumption DEF TreeInv, NodesType
<1>5. /\ nodes'[up].policy = nodes[up].policy /\ nodes'[up].inherited = nodes[up].inherited
      /\ nodes'[up].regexBelow = (Last(p) \in Regexes \/ nodes[up].regexBelow)
    <2>1. nodes[up] \in Node /\ Last(p) \in STRING
        BY <1>1, <1>4
    <2> HIDE DEF up
    <2>2. /\ WithSubnode(nodes[up], Last(p)).policy = nodes[up].policy
          /\ WithSubnode(nodes[up], Last(p)).inherited = nodes[up].inherited
          /\ WithSubnode(nodes[up], Last(p)).regexBelow =
                (Last(p) \in Regexes \/ nodes[up].regexBelow)
        BY <2>1, WithSubnodeFacts
    <2> QED BY <1>1, <2>2
<1>6. \A q \in DOMAIN nodes : /\ nodes'[q].policy = nodes[q].policy
                              /\ Explicit(nodes'[q]) <=> Explicit(nodes[q])
    BY <1>1, <1>5 DEF Explicit
<1>7. /\ nodes'[p].policy = nodes[up].policy /\ ~Explicit(nodes'[p])
      /\ nodes'[p].regexBelow = FALSE
    <2>1. /\ NodeBelow(up).policy = nodes[up].policy /\ NodeBelow(up).regexBelow = FALSE
          /\ NodeBelow(up).inherited = (nodes[up].policy # "none")
        BY DEF NodeBelow
    <2> QED BY <1>1, <2>1 DEF Explicit
<1> HIDE DEF up
<1>8. RulesSoFar' = RulesSoFar
    BY <1>1 DEF RulesSoFar
<1>9. ShapeInv'
    <2>1. ASSUME NEW q \in DOMAIN nodes', NEW r \in Seq(STRING), IsPrefix(r, q)
          PROVE r \in DOMAIN nodes'
        <3>1. CASE q = p
            BY <1>1, <1>2, <1>3, <2>1, <3>1 DEF ShapeInv
        <3>2. CASE q # p
            BY <1>1, <1>2, <2>1, <3>2 DEF ShapeInv
        <3> QED BY <3>1, <3>2
    <2>2. Range(p) \cap Invalid = {}
        BY <1>1, <1>2, <1>3 DEF ShapeInv
    <2>3. \E i \in Definitions(read) : IsPrefix(p, read[i].path)
        BY <1>1, <1>2 DEF ReadInv
    <2>4. \A q \in DOMAIN nodes' : Range(q) \cap Invalid = {}
        BY <1>1, <1>2, <2>2 DEF ShapeInv
    <2>5. \A q \in DOMAIN nodes' :
              q = <<>> \/ \E i \in Definitions(read') : IsPrefix(q, read'[i].path)
        BY <1>1, <1>2, <2>3 DEF ShapeInv
    <2> QED BY <2>1, <2>4, <2>5 DEF ShapeInv
<1>10. RulesInv'
    BY <1>1, <1>2, <1>6, <1>7, <1>8 DEF RulesInv
<1>11. PolicyInv'
    <2>1. ASSUME NEW q \in DOMAIN nodes, NoneAbove(q) PROVE NoneAbove(q)'
        BY <1>1, <1>6, <1>7, <2>1 DEF NoneAbove
    <2>2. ASSUME NEW q \in DOMAIN nodes, NEW r \in DOMAIN nodes, GivenBy(r, q)
          PROVE GivenBy(r, q)'
        BY <1>1, <1>6, <1>7, <2>2 DEF GivenBy
    <2>4. ASSUME NEW r \in DOMAIN nodes, GivenBy(r, up) PROVE GivenBy(r, p)'
        <3>1. r \in Seq(STRING) /\ IsPrefix(r, p)
            BY <1>3, <1>4, <2>4 DEF GivenBy
        <3>2. Explicit(nodes'[r]) /\ nodes'[p].policy = nodes'[r].policy
            BY <1>6, <1>7, <2>4 DEF GivenBy
        <3>3. ASSUME NEW s \in DOMAIN nodes', IsPrefix(s, p), Explicit(nodes'[s])
              PROVE IsPrefix(s, r)
            <4>1. s \in DOMAIN nodes /\ s # p
                BY <1>1, <1>7, <3>3
            <4>2. IsPrefix(s, up) /\ Explicit(nodes[s])
                BY <1>3, <1>4, <1>6, <3>3, <4>1
            <4> QED BY <2>4, <4>1, <4>2 DEF GivenBy
        <3> QED BY <3>1, <3>2, <3>3 DEF GivenBy
    <2>5. ASSUME NEW q \in DOMAIN nodes'
          PROVE NoneAbove(q)' \/ \E r \in DOMAIN nodes' : GivenBy(r, q)'
        <3>1. CASE q = p
            <4>1. NoneAbove(up) \/ \E r \in DOMAIN nodes : GivenBy(r, up)
                BY <1>1, <1>2 DEF PolicyInv
            <4>2. CASE NoneAbove(up)
                <5>1. nodes'[p].policy = "none"
                    BY <1>7, <4>2 DEF NoneAbove
                <5>2. ASSUME NEW r \in DOMAIN nodes', IsPrefix(r, p), Explicit(nodes'[r])
                      PROVE FALSE
                    <6>1. r \in DOMAIN nodes /\ r # p
                        BY <1>1, <1>7, <5>2
                    <6>2. IsPrefix(r, up) /\ Explicit(nodes[r])
                        BY <1>3, <1>4, <1>6, <5>2, <6>1
                    <6> QED BY <4>2, <6>1, <6>2 DEF NoneAbove
                <5> QED BY <3>1, <5>1, <5>2 DEF NoneAbove
            <4>3. CASE \E r \in DOMAIN nodes : GivenBy(r, up)
                <5>1. PICK r \in DOMAIN nodes : GivenBy(r, up)
                    BY <4>3
                <5>2. GivenBy(r, p)'
                    BY <2>4, <5>1
                <5> QED BY <1>1, <3>1, <5>2
            <4> QED BY <4>1, <4>2, <4>3
        <3>2. CASE q # p
            <4>1. q \in DOMAIN nodes
                BY <1>1, <3>2
            <4>2. NoneAbove(q) \/ \E r \in DOMAIN nodes : GivenBy(r, q)
                BY <1>2, <4>1 DEF PolicyInv
            <4> QED BY <1>1, <2>1, <2>2, <4>1, <4>2
        <3> QED BY <3>1, <3>2
    <2> QED BY <2>5 DEF PolicyInv
<1>12. RegexInv'
    <2>1. ASSUME NEW q \in DOMAIN nodes', q # <<>>, Up(q) = p PROVE FALSE
        <3>1. q \in DOMAIN nodes
            BY <1>1, <2>1 DEF up
        <3>2. p \in DOMAIN nodes
            BY <1>1, <1>2, <1>4, <2>1, <3>1, UpFacts DEF ShapeInv
        <3> QED BY <1>1, <3>2
    <2>2. ASSUME NEW q \in DOMAIN nodes'
          PROVE nodes'[q].regexBelow =
                    \E r \in DOMAIN nodes' : r # RootNode /\ Up(r) = q /\ Last(r) \in Regexes
        <3>1. CASE q = p
            BY <1>7, <2>1, <3>1 DEF RootNode
        <3>2. CASE q # p
            <4>1. q \in DOMAIN nodes
                BY <1>1, <3>2
            <4>2. nodes[q].regexBelow =
                      \E r \in DOMAIN nodes : r # RootNode /\ Up(r) = q /\ Last(r) \in Regexes
                BY <1>2, <4>1 DEF RegexInv
            <4>3. (\E r \in DOMAIN nodes' : r # RootNode /\ Up(r) = q /\ Last(r) \in Regexes)
                  <=> \/ \E r \in DOMAIN nodes : r # RootNode /\ Up(r) = q /\ Last(r) \in Regexes
                      \/ up = q /\ Last(p) \in Regexes
                BY <1>1 DEF up, RootNode
            <4>4. CASE q = up
                BY <1>5, <4>2, <4>3, <4>4
            <4>5. CASE q # up
                <5>1. nodes'[q] = nodes[q]
                    BY <1>1, <4>1, <4>5
                <5> QED BY <4>2, <4>3, <4>5, <5>1
            <4> QED BY <4>4, <4>5
        <3> QED BY <3>1, <3>2
    <2> QED BY <2>2 DEF RegexInv
<1>13. ReadInv' /\ CorrectSoFar'
    BY <1>1, <1>2 DEF ReadInv, CorrectSoFar
<1> QED BY <1>1, <1>9, <1>10, <1>11, <1>12, <1>13
        DEF ConfigInv, NodesInv, TreeMeansConfig, RefusedForAReason

(* A name that does not compile is part of the last line.                   *)
LEMMA BadNodeConfig ==
    ASSUME TableInv, TreeInv, ConfigInv, NEW p \in Keys, BadNode(p)
    PROVE ConfigInv'
<1>1. /\ parser = "node" /\ parser' = "refused" /\ read' = read /\ table = "ready"
      /\ IsPrefix(p, target) /\ ~Known(p) /\ Last(p) \in Invalid
    BY DEF BadNode, IsNext, Die
<1>2. ReadInv
    BY <1>1 DEF ConfigInv
<1>3. /\ Len(read) \in Definitions(read) /\ target = read[Len(read)].path
      /\ Len(read) \in DOMAIN read /\ read[Len(read)] \in Lines
      /\ read[Len(read)].kind = "path"
    BY <1>1, <1>2 DEF ReadInv, Definitions
<1>4. target \in Seq(STRING) /\ p \in Seq(STRING)
    BY <1>3, TreeAssumption
<1>5. p # <<>>
    <2>1. <<>> \in DOMAIN nodes
        BY <1>1 DEF TreeInv, NodesType, RootNode
    <2> QED BY <1>1, <2>1, KnownFacts
<1>6. Last(p) \in Range(target)
    <2>1. Len(p) \in 1 .. Len(p) /\ Len(p) <= Len(target) /\ p[Len(p)] = target[Len(p)]
        <3>1. Len(p) \in 1 .. Len(p)
            BY <1>4, <1>5
        <3> QED BY <1>1, <1>4, <3>1, PrefixFacts
    <2>2. Len(p) \in DOMAIN target
        BY <1>4, <2>1
    <2> QED BY <2>1, <2>2 DEF Range, Last
<1>7. Wrong(read, Len(read))
    BY <1>1, <1>3, <1>6 DEF Wrong
<1> QED BY <1>1, <1>3, <1>7 DEF ConfigInv, TreeMeansConfig, RefusedForAReason

(* The node of the line gets its policy, and so do those below it whose     *)
(* nearest rule this is now.                                                *)
LEMMA DefineConfig ==
    ASSUME TableInv, TreeInv, ConfigInv, Define
    PROVE ConfigInv'
<1>1. /\ parser = "node" /\ parser' = "lines" /\ table = "ready" /\ Known(target)
      /\ UNCHANGED <<read, section>>
      /\ nodes' = [q \in DOMAIN nodes |->
                      IF q = target THEN [nodes[q] EXCEPT !.policy = section, !.inherited = FALSE]
                      ELSE IF Inherits(q, target)
                      THEN [nodes[q] EXCEPT !.policy = section, !.inherited = TRUE]
                      ELSE nodes[q]]
    BY DEF Define
<1>2. ReadInv /\ ShapeInv /\ RulesInv /\ PolicyInv /\ RegexInv /\ CorrectSoFar
    BY <1>1 DEF ConfigInv, NodesInv
<1>3. /\ Len(read) \in Definitions(read) /\ Len(read) \in DOMAIN read
      /\ target = read[Len(read)].path /\ SectionAt(read, Len(read)) = section
      /\ read[Len(read)] \in Lines /\ read[Len(read)].kind = "path" /\ section \in Rule
    <2>1. /\ Len(read) \in Definitions(read) /\ target = read[Len(read)].path
          /\ SectionAt(read, Len(read)) = section /\ read \in Seq(Lines)
        BY <1>1, <1>2 DEF ReadInv
    <2>2. /\ Len(read) \in DOMAIN read /\ read[Len(read)].kind = "path"
          /\ SectionAt(read, Len(read)) \in Rule
        BY <2>1 DEF Definitions
    <2> QED BY <2>1, <2>2
<1>4. target \in Keys /\ DOMAIN nodes \subseteq Seq(STRING)
    BY <1>3, TreeAssumption DEF TreeInv, NodesType
<1>5. target \in DOMAIN nodes /\ target \in Seq(STRING)
    BY <1>1, <1>4, KnownFacts
<1>6. section # "none"
    BY <1>3 DEF Rule
<1>7. \A q \in DOMAIN nodes : nodes[q] \in Node
    BY DEF TreeInv, NodesType
<1> DEFINE New(q, b) == [nodes[q] EXCEPT !.policy = section, !.inherited = b]
           Same(q) == q # target /\ ~Inherits(q, target)
<1>8. ASSUME NEW q \in DOMAIN nodes, NEW b \in BOOLEAN
      PROVE /\ New(q, b).policy = section /\ New(q, b).inherited = b
            /\ New(q, b).regexBelow = nodes[q].regexBelow
    BY <1>7 DEF Node
<1>9. /\ DOMAIN nodes' = DOMAIN nodes /\ nodes'[target] = New(target, FALSE)
      /\ \A q \in DOMAIN nodes :
            q # target /\ Inherits(q, target) => nodes'[q] = New(q, TRUE)
      /\ \A q \in DOMAIN nodes : Same(q) => nodes'[q] = nodes[q]
    <2>1. DOMAIN nodes' = DOMAIN nodes
        BY <1>1
    <2> QED BY <1>1, <1>5, <2>1
<1> HIDE DEF New
<1>10. \A q \in DOMAIN nodes : Inherits(q, target) => q # target /\ ~Explicit(nodes[q])
    BY <1>4, PrefixOrder DEF Inherits, Above
<1>11. /\ Explicit(nodes'[target]) /\ nodes'[target].policy = section
       /\ \A q \in DOMAIN nodes : Inherits(q, target) =>
             nodes'[q].policy = section /\ ~Explicit(nodes'[q])
       /\ \A q \in DOMAIN nodes : nodes'[q].regexBelow = nodes[q].regexBelow
    <2>1. nodes'[target].policy = section /\ nodes'[target].inherited = FALSE
          /\ nodes'[target].regexBelow = nodes[target].regexBelow
        BY <1>5, <1>8, <1>9
    <2>2. ASSUME NEW q \in DOMAIN nodes, Inherits(q, target)
          PROVE /\ nodes'[q].policy = section /\ nodes'[q].inherited = TRUE
                /\ nodes'[q].regexBelow = nodes[q].regexBelow
        BY <1>8, <1>9, <1>10, <2>2
    <2> QED BY <1>6, <1>9, <2>1, <2>2 DEF Explicit
<1>12. \A q \in DOMAIN nodes : Explicit(nodes'[q]) <=> q = target \/ Explicit(nodes[q])
    BY <1>9, <1>10, <1>11
<1>13. ~Explicit(nodes[target])
    <2>1. ASSUME Explicit(nodes[target]) PROVE FALSE
        <3>1. PICK i \in RulesSoFar : read[i].path = target
            BY <1>2, <1>5, <2>1 DEF RulesInv
        <3>2. i \in Definitions(read) /\ i # Len(read)
            BY <1>1, <3>1 DEF RulesSoFar
        <3> QED BY <1>2, <1>3, <3>1, <3>2 DEF ReadInv
    <2> QED BY <2>1
<1>14. RulesSoFar' = RulesSoFar \cup {Len(read)}
    BY <1>1, <1>3 DEF RulesSoFar
<1>15. ReadInv'
    BY <1>1, <1>2 DEF ReadInv
<1>16. ShapeInv'
    BY <1>1, <1>2, <1>9 DEF ShapeInv
<1>17. RulesInv'
    <2>1. ASSUME NEW i \in RulesSoFar
          PROVE /\ read[i].path \in DOMAIN nodes /\ Explicit(nodes'[read[i].path])
                /\ nodes'[read[i].path].policy = SectionAt(read, i)
        <3>1. /\ read[i].path \in DOMAIN nodes /\ Explicit(nodes[read[i].path])
              /\ nodes[read[i].path].policy = SectionAt(read, i)
            BY <1>2, <2>1 DEF RulesInv
        <3>2. Same(read[i].path)
            BY <1>10, <1>13, <3>1
        <3> QED BY <1>9, <3>1, <3>2
    <2>2. ASSUME NEW q \in DOMAIN nodes, Explicit(nodes'[q])
          PROVE \E i \in RulesSoFar' : read[i].path = q
        BY <1>2, <1>3, <1>12, <1>14, <2>2 DEF RulesInv
    <2>3. /\ read[Len(read)].path \in DOMAIN nodes /\ Explicit(nodes'[read[Len(read)].path])
          /\ nodes'[read[Len(read)].path].policy = SectionAt(read, Len(read))
        BY <1>3, <1>5, <1>11
    <2>4. \A i \in RulesSoFar' :
             /\ read[i].path \in DOMAIN nodes /\ Explicit(nodes'[read[i].path])
             /\ nodes'[read[i].path].policy = SectionAt(read, i)
        BY <1>14, <2>1, <2>3
    <2>5. read' = read /\ DOMAIN nodes' = DOMAIN nodes
        BY <1>1, <1>9
    <2> QED BY <2>2, <2>4, <2>5 DEF RulesInv, Explicit, SectionAt
<1>18. PolicyInv'
    <2>1. ASSUME NEW q \in DOMAIN nodes, IsPrefix(target, q), nodes'[q].policy = section,
                 \A r \in DOMAIN nodes : Above(target, r) /\ IsPrefix(r, q) => ~Explicit(nodes[r])
          PROVE \E r \in DOMAIN nodes : GivenBy(r, q)'
        <3>1. ASSUME NEW s \in DOMAIN nodes', IsPrefix(s, q), Explicit(nodes'[s])
              PROVE IsPrefix(s, target)
            <4>1. s \in DOMAIN nodes /\ (s = target \/ Explicit(nodes[s]))
                BY <1>9, <1>12, <3>1
            <4>2. IsPrefix(s, target) \/ IsPrefix(target, s)
                BY <1>4, <1>5, <2>1, <3>1, <4>1, PrefixOrder
            <4> QED BY <1>5, <2>1, <3>1, <4>1, <4>2, PrefixOrder DEF Above
        <3>2. \A r \in DOMAIN nodes : r = target => GivenBy(r, q)'
            BY <1>11, <2>1, <3>1 DEF GivenBy
        <3> QED BY <1>5, <3>2
    <2>2. ASSUME NEW q \in DOMAIN nodes, Same(q), IsPrefix(target, q)
          PROVE \E r \in DOMAIN nodes :
                    Above(target, r) /\ IsPrefix(r, q) /\ Explicit(nodes[r])
        BY <2>2 DEF Inherits, Above
    <2>3. ASSUME NEW q \in DOMAIN nodes, Same(q), NoneAbove(q) PROVE NoneAbove(q)'
        <3>1. ~IsPrefix(target, q)
            BY <2>2, <2>3 DEF NoneAbove
        <3> QED BY <1>9, <1>12, <2>3, <3>1 DEF NoneAbove
    <2>4. ASSUME NEW q \in DOMAIN nodes, Same(q), NEW r \in DOMAIN nodes, GivenBy(r, q)
          PROVE GivenBy(r, q)'
        <3>1. Same(r) /\ Explicit(nodes'[r])
            BY <1>10, <1>12, <1>13, <2>4 DEF GivenBy
        <3>2. IsPrefix(r, q) /\ nodes'[q].policy = nodes'[r].policy
            BY <1>9, <2>4, <3>1 DEF GivenBy
        <3>3. ASSUME IsPrefix(target, q) PROVE IsPrefix(target, r)
            <4>1. PICK u \in DOMAIN nodes :
                      Above(target, u) /\ IsPrefix(u, q) /\ Explicit(nodes[u])
                BY <2>2, <2>4, <3>3
            <4>2. IsPrefix(u, r) /\ IsPrefix(target, u)
                BY <2>4, <4>1 DEF GivenBy, Above
            <4> QED BY <1>4, <1>5, <4>2, PrefixOrder
        <3>4. ASSUME NEW s \in DOMAIN nodes', IsPrefix(s, q), Explicit(nodes'[s])
              PROVE IsPrefix(s, r)
            <4>1. s \in DOMAIN nodes /\ (s = target \/ Explicit(nodes[s]))
                BY <1>9, <1>12, <3>4
            <4> QED BY <2>4, <3>3, <3>4, <4>1 DEF GivenBy
        <3> QED BY <3>1, <3>2, <3>4 DEF GivenBy
    <2>5. ASSUME NEW q \in DOMAIN nodes
          PROVE NoneAbove(q)' \/ \E r \in DOMAIN nodes : GivenBy(r, q)'
        <3>1. CASE q = target
            <4>1. IsPrefix(target, q) /\ nodes'[q].policy = section
                BY <1>5, <1>11, <3>1, PrefixOrder
            <4>2. \A r \in DOMAIN nodes : ~(Above(target, r) /\ IsPrefix(r, q))
                BY <1>4, <1>5, <3>1, PrefixOrder DEF Above
            <4> QED BY <2>1, <4>1, <4>2
        <3>2. CASE q # target /\ Inherits(q, target)
            <4>1. IsPrefix(target, q) /\ nodes'[q].policy = section
                BY <1>11, <3>2 DEF Inherits, Above
            <4>2. \A r \in DOMAIN nodes :
                      Above(target, r) /\ IsPrefix(r, q) => ~Explicit(nodes[r])
                BY <3>2 DEF Inherits
            <4> QED BY <2>1, <4>1, <4>2
        <3>3. CASE Same(q)
            <4>1. NoneAbove(q) \/ \E r \in DOMAIN nodes : GivenBy(r, q)
                BY <1>2 DEF PolicyInv
            <4> QED BY <2>3, <2>4, <3>3, <4>1
        <3> QED BY <3>1, <3>2, <3>3
    <2> QED BY <1>9, <2>5 DEF PolicyInv
<1>19. RegexInv'
    BY <1>2, <1>9, <1>11 DEF RegexInv
<1>20. CorrectSoFar'
    <2>1. Range(target) \cap Invalid = {}
        BY <1>2, <1>5 DEF ShapeInv
    <2>2. ASSUME NEW j \in Definitions(read), j < Len(read), read[j].path = read[Len(read)].path
          PROVE FALSE
        <3>1. j = Len(read)
            BY <1>2, <1>3, <2>2 DEF ReadInv
        <3> QED BY <1>2, <2>2, <3>1 DEF ReadInv
    <2>3. section \notin {"none", "ignore", "summarize"}
        BY <1>3 DEF Rule, Policies
    <2>4. ~Wrong(read, Len(read))
        BY <1>3, <2>1, <2>2, <2>3 DEF Wrong
    <2> QED BY <1>1, <1>2, <2>4 DEF CorrectSoFar
<1> QED BY <1>1, <1>15, <1>16, <1>17, <1>18, <1>19, <1>20
        DEF ConfigInv, NodesInv, TreeMeansConfig, RefusedForAReason

(* The config file has been read.                                           *)
LEMMA EndConfig ==
    ASSUME TreeInv, ConfigInv, EndOfConfig
    PROVE ConfigInv'
<1>1. parser = "lines" /\ parser' = "parsed" /\ UNCHANGED <<read, nodes>>
    BY DEF EndOfConfig
<1>2. /\ ReadInv /\ ShapeInv /\ RulesInv /\ PolicyInv /\ RegexInv
      /\ RulesSoFar = Definitions(read) /\ \A i \in 1 .. Len(read) : ~Wrong(read, i)
    BY <1>1 DEF ConfigInv, NodesInv, CorrectSoFar, RulesSoFar
<1>3. DOMAIN read = 1 .. Len(read) /\ Definitions(read) \subseteq DOMAIN read
    BY <1>2 DEF ReadInv, Definitions
<1>4. <<>> \in DOMAIN nodes /\ DOMAIN nodes \subseteq Seq(STRING)
    BY <1>1, TreeAssumption DEF TreeInv, NodesType, RootNode
<1>5. ASSUME NEW i \in Definitions(read)
      PROVE /\ read[i].path \in DOMAIN nodes /\ read[i].path \in Seq(STRING)
            /\ Explicit(nodes[read[i].path])
            /\ nodes[read[i].path].policy = SectionAt(read, i)
    BY <1>2, <1>4 DEF RulesInv
<1>6. DOMAIN nodes = NodesOf(read)
    <2>1. ASSUME NEW p \in DOMAIN nodes PROVE p \in NodesOf(read)
        <3>1. CASE p = <<>>
            BY <3>1 DEF NodesOf, RootNode
        <3>2. CASE p # <<>>
            <4>1. PICK i \in Definitions(read) : IsPrefix(p, read[i].path)
                BY <1>2, <3>2 DEF ShapeInv
            <4>2. p \in Prefixes(read[i].path)
                BY <1>4, <1>5, <4>1, PrefixFacts
            <4> QED BY <4>2 DEF NodesOf
        <3> QED BY <3>1, <3>2
    <2>2. ASSUME NEW i \in Definitions(read), NEW p \in Prefixes(read[i].path)
          PROVE p \in DOMAIN nodes
        <3>1. p \in Seq(STRING)
            <4>1. PICK n \in 0 .. Len(read[i].path) : p = SubSeq(read[i].path, 1, n)
                BY DEF Prefixes
            <4> QED BY <1>5, <4>1, CutFacts
        <3>2. IsPrefix(p, read[i].path)
            BY <1>5, <3>1, PrefixFacts
        <3> QED BY <1>2, <1>5, <3>1, <3>2 DEF ShapeInv
    <2> QED BY <1>4, <2>1, <2>2 DEF NodesOf, RootNode
<1>7. ASSUME NEW p \in DOMAIN nodes PROVE nodes[p].policy = PolicyAt(read, p)
    <2> DEFINE above == {i \in Definitions(read) : IsPrefix(read[i].path, p)}
               IsNearest(i) == \A j \in above : Len(read[j].path) <= Len(read[i].path)
               nearest == CHOOSE i \in above : IsNearest(i)
    <2>1. PolicyAt(read, p) = IF above = {} THEN "none" ELSE SectionAt(read, nearest)
        BY DEF PolicyAt
    <2>2. CASE NoneAbove(p)
        <3>1. above = {}
            BY <1>5, <2>2 DEF NoneAbove
        <3> QED BY <2>1, <2>2, <3>1 DEF NoneAbove
    <2>3. ASSUME NEW r \in DOMAIN nodes, GivenBy(r, p)
          PROVE nodes[p].policy = PolicyAt(read, p)
        <3>1. PICK i \in Definitions(read) : read[i].path = r
            BY <1>2, <2>3 DEF RulesInv, GivenBy
        <3>2. i \in above
            BY <2>3, <3>1 DEF GivenBy
        <3>3. ASSUME NEW j \in above PROVE IsPrefix(read[j].path, r)
            BY <1>5, <2>3 DEF GivenBy
        <3>4. IsNearest(i)
            BY <1>4, <1>5, <3>1, <3>3, PrefixOrder
        <3>5. ASSUME NEW j \in above, IsNearest(j) PROVE j = i
            <4>1. Len(r) <= Len(read[j].path) /\ IsPrefix(read[j].path, r) /\ IsPrefix(r, r)
                BY <1>4, <3>1, <3>2, <3>3, <3>5, PrefixOrder
            <4>2. read[j].path = r
                BY <1>4, <1>5, <4>1, PrefixOrder
            <4> QED BY <1>2, <3>1, <4>2 DEF ReadInv
        <3> HIDE DEF above, IsNearest
        <3>6. nearest \in above /\ IsNearest(nearest)
            BY <3>2, <3>4, Zenon
        <3>7. nearest = i /\ above # {}
            BY <3>2, <3>5, <3>6
        <3> HIDE DEF nearest
        <3>8. nodes[p].policy = nodes[r].policy /\ nodes[r].policy = SectionAt(read, i)
            BY <1>5, <2>3, <3>1 DEF GivenBy
        <3> QED BY <2>1, <3>7, <3>8
    <2> QED BY <1>2, <2>2, <2>3 DEF PolicyInv
<1>8. TreeMeansConfig'
    BY <1>1, <1>2, <1>6, <1>7 DEF TreeMeansConfig, RegexInv
<1>9. RefusedForAReason'
    BY <1>1, <1>2, <1>3 DEF RefusedForAReason
<1> QED BY <1>1, <1>8, <1>9 DEF ConfigInv

(* Every step of the parser keeps the tree right.                           *)
LEMMA ParserConfig ==
    ASSUME TableInv, TreeInv, ConfigInv, ParserNext
    PROVE ConfigInv'
<1>1. CASE MakeRoot
    BY <1>1, MakeRootConfig
<1>2. CASE TableWorks
    <2>1. UNCHANGED <<read, section, nodes, target, parser>>
        BY <1>2 DEF TableWorks, parserVars
    <2> QED BY <2>1, SameConfig
<1>3. CASE Define
    BY <1>3, DefineConfig
<1>4. CASE EndOfConfig
    BY <1>4, EndConfig
<1>5. CASE \E line \in Lines : ParseLine(line)
    BY <1>5, LineConfig
<1>6. CASE \E p \in Keys : NewNode(p) \/ BadNode(p)
    BY <1>6, NewNodeConfig, BadNodeConfig
<1> QED BY <1>1, <1>2, <1>3, <1>4, <1>5, <1>6 DEF ParserNext

(* And so does every other step.                                            *)
LEMMA NextConfig ==
    ASSUME TableInv, NothingYet, TreeInv, ConfigInv, [SearchNext]_allVars
    PROVE TreeInv' /\ ConfigInv'
<1>1. CASE ParserNext /\ UNCHANGED searchVars
    BY <1>1, ParserTree, ParserConfig
<1>2. CASE StartSearch
    <2>1. parser = "parsed" /\ parser' = "searching" /\ section' = "none" /\ nodes' = nodes
        BY <1>2 DEF StartSearch
    <2>2. TreeInv'
        BY <2>1 DEF TreeInv, NodesType, NodesMapped, Given
    <2> QED BY <2>1, <2>2 DEF ConfigInv, TreeMeansConfig, RefusedForAReason
<1>3. CASE SearchStep \/ \E p \in FsPaths, kind \in Kinds : Interfere(p, kind)
    <2>1. UNCHANGED <<parserVars, tableVars>>
        BY <1>3, SearchKeepsTable
    <2>2. UNCHANGED <<read, section, nodes, target, parser>>
        BY <2>1 DEF parserVars
    <2> QED BY <2>1, <2>2, SameTree, SameConfig
<1>4. CASE UNCHANGED allVars
    <2>1. UNCHANGED <<parserVars, tableVars>>
        BY <1>4 DEF allVars
    <2>2. UNCHANGED <<read, section, nodes, target, parser>>
        BY <2>1 DEF parserVars
    <2> QED BY <2>1, <2>2, SameTree, SameConfig
<1> QED BY <1>1, <1>2, <1>3, <1>4 DEF SearchNext

(* The invariants of the parser, all in one.                                *)
LEMMA ParserAlways == SearchSpec => [](TreeMeansConfig /\ RefusedForAReason)
<1>1. SearchInit => TableInv /\ NothingYet /\ TreeInv /\ ConfigInv
    BY InitNothingYet, InitTree, NothingRead DEF SearchInit, ParserInit
<1>2. TableInv /\ NothingYet /\ [SearchNext]_allVars => TableInv' /\ NothingYet'
    BY NextNothingYet, NextTable
<1>3. TableInv /\ NothingYet /\ TreeInv /\ ConfigInv /\ [SearchNext]_allVars
          => TreeInv' /\ ConfigInv'
    BY NextConfig
<1>4. ConfigInv => TreeMeansConfig /\ RefusedForAReason
    BY DEF ConfigInv
<1> QED BY <1>1, <1>2, <1>3, <1>4, PTL DEF SearchSpec

(* The tree of a config file that is not refused gives every path the       *)
(* policy of the nearest rule above it, wherever in the file the rules      *)
(* stand, and whatever order its nodes were made in (TreeMeansConfig).      *)
THEOREM TreeIsRight == SearchSpec => []TreeMeansConfig
BY ParserAlways, PTL

(* A config file is refused if and only if it has a wrong line: no rule is  *)
(* taken twice, and none is refused because a policy was inherited by its   *)
(* path (RefusedForAReason).                                                *)
THEOREM RefusalsAreRight == SearchSpec => []RefusedForAReason
BY ParserAlways, PTL
-----------------------------------------------------------------------------
(* The paths the walk has not come to, and those that are known to exist.   *)
Ahead == {p \in FsPaths : place[p] = "ahead"}
Present == IF touched = {} THEN {p \in FsPaths : fs[p] # "none"} ELSE FsPaths

(* DirSearchState *)
Frame == [direct: BOOLEAN, path_length: Nat, subnodes: Seq(Seq(STRING) \ {<<>>}),
          fallback: Given, must: SUBSET STRING, may: SUBSET STRING]

(* What the state of directory d may still come to.                         *)
Pending(s, d) ==
    IF s.direct THEN {Append(d, Last(s.subnodes[i])) : i \in 1 .. Len(s.subnodes)}
    ELSE {Append(d, name) : name \in s.must \cup s.may}

(* It has not been come to, and no name is tried twice.                     *)
FrameOK(s, d, all, ahead, present) ==
    /\ s \in Frame /\ s.path_length = Len(d)
    /\ \A i \in 1 .. Len(s.subnodes) : s.subnodes[i] \in all
    /\ \A i, j \in 1 .. Len(s.subnodes) : Last(s.subnodes[i]) = Last(s.subnodes[j]) => i = j
    /\ IF s.direct THEN Pending(s, d) \cap FsPaths \subseteq ahead
       ELSE Pending(s, d) \subseteq ahead \cap present

InHand ==
    /\ current_path \in Ahead \cap Present /\ Front(current_path) = trail
    /\ current_path \notin Pending(state, trail)
    /\ step.node \in DOMAIN nodes \cup {NoNode} /\ step.policy \in Given

(* The stack belongs to the directories above, and where the walk has been  *)
(* it came to through the directories above.                                *)
Walking ==
    /\ trail \in Seq(STRING) /\ current_path \in Seq(STRING)
    /\ stack \in Seq(Frame) /\ Len(stack) = Len(trail)
    /\ Len(trail) <= Len(current_path) /\ SubSeq(current_path, 1, Len(trail)) = trail
    /\ trail # <<>> => trail \in FsPaths \ Ahead
    /\ \A p \in FsPaths \ Ahead : Front(p) = <<>> \/ Front(p) \in FsPaths \ Ahead
    /\ FsPaths \ Ahead \subseteq Present
    /\ FrameOK(state, trail, DOMAIN nodes, Ahead, Present)
    /\ \A i \in 1 .. Len(stack) :
          FrameOK(stack[i], SubSeq(trail, 1, i - 1), DOMAIN nodes, Ahead, Present)
    /\ search \in {"stat", "open"} => InHand

WalkInv ==
    /\ place \in [FsPaths -> {"ahead", "inside", "behind"}]
    /\ search = "none" =>
          /\ stack = <<>> /\ trail = <<>> /\ current_path = <<>> /\ touched = {}
          /\ Ahead = FsPaths
    /\ search # "none" => parser = "searching"
    /\ search \in {"next", "stat", "open"} => Walking

(* The paths of a state are in its directory.                               *)
LEMMA PendingFacts ==
    ASSUME NEW s \in Frame, NEW d \in Seq(STRING), NEW x \in Pending(s, d)
    PROVE x \in Seq(STRING) /\ Len(x) = Len(d) + 1 /\ Front(x) = d
<1>1. ASSUME NEW name \in STRING, x = Append(d, name)
      PROVE x \in Seq(STRING) /\ Len(x) = Len(d) + 1 /\ Front(x) = d
    BY <1>1, AppendFacts
<1>2. CASE s.direct
    <2>1. PICK i \in 1 .. Len(s.subnodes) : x = Append(d, Last(s.subnodes[i]))
        BY <1>2 DEF Pending
    <2>2. s.subnodes[i] \in Seq(STRING) \ {<<>>}
        BY <2>1 DEF Frame
    <2>3. Last(s.subnodes[i]) \in STRING
        BY <2>2, FrontFacts
    <2> QED BY <1>1, <2>1, <2>3
<1>3. CASE ~s.direct
    <2>1. PICK name \in s.must \cup s.may : x = Append(d, name)
        BY <1>3 DEF Pending
    <2>2. name \in STRING
        BY <2>1 DEF Frame
    <2> QED BY <1>1, <2>1, <2>2
<1> QED BY <1>2, <1>3

(* A path that a state does not come to may be passed.                      *)
LEMMA FrameShrinks ==
    ASSUME NEW s, NEW d, NEW all, NEW ahead, NEW present, NEW x,
           FrameOK(s, d, all, ahead, present), x \notin Pending(s, d)
    PROVE FrameOK(s, d, all, ahead \ {x}, present)
<1>1. Pending(s, d) \cap FsPaths \subseteq ahead => Pending(s, d) \cap FsPaths \subseteq ahead \ {x}
    OBVIOUS
<1>2. Pending(s, d) \subseteq ahead \cap present =>
          Pending(s, d) \subseteq (ahead \ {x}) \cap present
    OBVIOUS
<1> HIDE DEF Pending
<1> QED BY <1>1, <1>2 DEF FrameOK

-----------------------------------------------------------------------------
(* The state of a directory that is opened, or of the root.                 *)
LEMMA ChildrenFacts ==
    ASSUME TreeInv, NEW q \in DOMAIN nodes \cup {NoNode}
    PROVE /\ Children(q) \in Seq(Seq(STRING) \ {<<>>})
          /\ \A i \in 1 .. Len(Children(q)) : Children(q)[i] \in DOMAIN nodes
          /\ \A i, j \in 1 .. Len(Children(q)) :
                Last(Children(q)[i]) = Last(Children(q)[j]) => i = j
<1>1. CASE q = NoNode
    <2>1. Children(q) = <<>> /\ Len(Children(q)) = 0
        BY <1>1 DEF Children
    <2>2. 1 .. Len(Children(q)) = {}
        BY <2>1
    <2> QED BY <2>1, <2>2
<1>2. CASE q # NoNode
    <2> DEFINE names == nodes[q].subnodes
    <2>1. names \in Seq(STRING) /\ IsList(q, names, DOMAIN nodes)
        BY <1>2 DEF TreeInv, NodesType, Node
    <2>2. q \in Seq(STRING)
        BY <1>2, TreeAssumption DEF TreeInv, NodesType
    <2>3. Children(q) = [i \in 1 .. Len(names) |-> Append(q, names[i])]
        BY <1>2, <2>1 DEF Children
    <2> HIDE DEF names
    <2>4. \A i \in 1 .. Len(names) : names[i] \in STRING
        BY <2>1
    <2>5. ASSUME NEW i \in 1 .. Len(names)
          PROVE Append(q, names[i]) \in Seq(STRING) \ {<<>>} /\ Last(Append(q, names[i])) = names[i]
        BY <2>2, <2>4, AppendFacts
    <2>6. Len(names) \in Nat
        BY <2>1
    <2>7. Children(q) \in Seq(Seq(STRING) \ {<<>>}) /\ Len(Children(q)) = Len(names)
        <3> DEFINE S == Seq(STRING) \ {<<>>}
        <3>1. Children(q) \in [1 .. Len(names) -> S]
            BY <2>3, <2>5
        <3> HIDE DEF S
        <3>2. Children(q) \in Seq(S)
            BY <3>1, <2>6, SeqDef
        <3>3. Len(Children(q)) = Len(names)
            BY <3>1, <3>2, <2>6, LenProperties
        <3> QED BY <3>2, <3>3 DEF S
    <2> QED BY <2>1, <2>3, <2>5, <2>7 DEF IsList
<1> QED BY <1>1, <1>2

(* A directory is opened before anything in it is reported.                 *)
LEMMA NewFrame ==
    ASSUME TreeInv, NEW q \in DOMAIN nodes \cup {NoNode}, NEW p \in Seq(STRING), NEW f,
           NEW policy \in Given, NEW ahead, NEW present,
           \A r \in FsPaths : Front(r) = p => r \in ahead,
           \A r \in FsPaths : f[r] # "none" => r \in present
    PROVE FrameOK([direct |-> IsDirect(q), path_length |-> Len(p), subnodes |-> Children(q),
                   fallback |-> policy, must |-> IF IsDirect(q) THEN {} ELSE NamesIn(f, p),
                   may |-> {}], p, DOMAIN nodes, ahead, present)
<1> DEFINE must == IF IsDirect(q) THEN {} ELSE NamesIn(f, p)
           s == [direct |-> IsDirect(q), path_length |-> Len(p), subnodes |-> Children(q),
                 fallback |-> policy, must |-> must, may |-> {}]
<1>1. ASSUME NEW name \in NamesIn(f, p)
      PROVE name \in STRING /\ Append(p, name) \in ahead \cap present
    <2>1. PICK r \in FsPaths : Up(r) = p /\ f[r] # "none" /\ Last(r) = name
        BY DEF NamesIn
    <2>2. Last(r) \in STRING /\ Append(p, Last(r)) = r
        BY <2>1, FrontFacts, SearchAssumption DEF Up
    <2> QED BY <2>1, <2>2 DEF Up
<1>2. must \in SUBSET STRING
    BY <1>1
<1>3. IsDirect(q) \in BOOLEAN /\ Len(p) \in Nat
    BY DEF IsDirect
<1>4. s.direct = IsDirect(q) /\ s.must = must /\ s.may = {} /\ s.subnodes = Children(q)
      /\ s.path_length = Len(p)
    OBVIOUS
<1>5. Children(q) \in Seq(Seq(STRING) \ {<<>>})
    BY ChildrenFacts
<1>6. s \in Frame
    BY <1>2, <1>3, <1>5 DEF Frame
<1>7. CASE IsDirect(q)
    <2>1. ASSUME NEW r \in Pending(s, p) \cap FsPaths PROVE r \in ahead
        BY <1>6, PendingFacts
    <2>2. Pending(s, p) \cap FsPaths \subseteq ahead
        BY <2>1
    <2> HIDE DEF s
    <2>3. /\ \A i \in 1 .. Len(s.subnodes) : s.subnodes[i] \in DOMAIN nodes
          /\ \A i, j \in 1 .. Len(s.subnodes) :
                Last(s.subnodes[i]) = Last(s.subnodes[j]) => i = j
        BY <1>4, ChildrenFacts
    <2>4. FrameOK(s, p, DOMAIN nodes, ahead, present)
        BY <2>2, <2>3, <1>4, <1>6, <1>7 DEF FrameOK
    <2> QED BY <2>4 DEF s
<1>8. CASE ~IsDirect(q)
    <2>1. Pending(s, p) = {Append(p, name) : name \in NamesIn(f, p)}
        BY <1>8 DEF Pending
    <2>2. Pending(s, p) \subseteq ahead \cap present
        BY <2>1, <1>1
    <2> HIDE DEF s
    <2>3. /\ \A i \in 1 .. Len(s.subnodes) : s.subnodes[i] \in DOMAIN nodes
          /\ \A i, j \in 1 .. Len(s.subnodes) :
                Last(s.subnodes[i]) = Last(s.subnodes[j]) => i = j
        BY <1>4, ChildrenFacts
    <2>4. FrameOK(s, p, DOMAIN nodes, ahead, present)
        BY <2>2, <2>3, <1>4, <1>6, <1>8 DEF FrameOK
    <2> QED BY <2>4 DEF s
<1> QED BY <1>7, <1>8

-----------------------------------------------------------------------------
(* What a state comes to next is not pending any more.                      *)
LEMMA NameTaken ==
    ASSUME NEW s, NEW d \in Seq(STRING), NEW all, NEW ahead, NEW present,
           FrameOK(s, d, all, ahead, present), ~s.direct, NEW name \in s.must \cup s.may
    PROVE LET t == [s EXCEPT !.must = @ \ {name}, !.may = @ \ {name}]
          IN /\ name \in STRING /\ Append(d, name) \in ahead \cap present
             /\ FrameOK(t, d, all, ahead, present)
             /\ Append(d, name) \notin Pending(t, d)
<1> DEFINE t == [s EXCEPT !.must = @ \ {name}, !.may = @ \ {name}]
<1>1. s \in Frame /\ s.must \cup s.may \in SUBSET STRING
    BY DEF FrameOK, Frame
<1>2. /\ t \in Frame /\ t.direct = s.direct /\ t.path_length = s.path_length
      /\ t.subnodes = s.subnodes /\ t.must = s.must \ {name} /\ t.may = s.may \ {name}
    BY <1>1 DEF Frame
<1>3. Pending(t, d) = {Append(d, n) : n \in (s.must \cup s.may) \ {name}}
    <2>1. (s.must \ {name}) \cup (s.may \ {name}) = (s.must \cup s.may) \ {name}
        OBVIOUS
    <2> QED BY <1>2, <2>1 DEF Pending
<1>4. Pending(s, d) = {Append(d, n) : n \in s.must \cup s.may}
    BY DEF Pending
<1>5. \A n \in STRING : Last(Append(d, n)) = n
    BY AppendFacts
<1>6. Append(d, name) \notin Pending(t, d) /\ Pending(t, d) \subseteq Pending(s, d)
    BY <1>1, <1>3, <1>4, <1>5
<1>7. Append(d, name) \in Pending(s, d) /\ Pending(s, d) \subseteq ahead \cap present
    BY <1>4 DEF FrameOK
<1> HIDE DEF t
<1>8. FrameOK(t, d, all, ahead, present)
    BY <1>2, <1>6, <1>7 DEF FrameOK
<1> QED BY <1>1, <1>6, <1>7, <1>8 DEF t

(* The same for a node that is tried by its name.                           *)
LEMMA HeadTaken ==
    ASSUME NEW s, NEW d \in Seq(STRING), NEW all, NEW ahead, NEW present,
           FrameOK(s, d, all, ahead, present), s.direct, s.subnodes # <<>>
    PROVE LET t == [s EXCEPT !.subnodes = Tail(s.subnodes)]
              p == Append(d, Last(Head(s.subnodes)))
          IN /\ Last(Head(s.subnodes)) \in STRING /\ Head(s.subnodes) \in all
             /\ p \in FsPaths => p \in ahead
             /\ FrameOK(t, d, all, ahead, present)
             /\ p \notin Pending(t, d)
<1> DEFINE list == s.subnodes
           rest == Tail(list)
           t == [s EXCEPT !.subnodes = rest]
           p == Append(d, Last(Head(list)))
<1>1. s \in Frame /\ list \in Seq(Seq(STRING) \ {<<>>})
    BY DEF FrameOK, Frame
<1>2. /\ Head(list) = list[1] /\ 1 \in 1 .. Len(list) /\ Len(list) \in Nat
      /\ rest \in Seq(Seq(STRING) \ {<<>>}) /\ Len(rest) = Len(list) - 1
      /\ \A i \in 1 .. Len(rest) : rest[i] = list[i + 1] /\ i + 1 \in 1 .. Len(list)
    BY <1>1
<1>3. \A i \in 1 .. Len(list) : Last(list[i]) \in STRING
    BY <1>1, FrontFacts
<1>4. /\ t \in Frame /\ t.direct = s.direct /\ t.path_length = s.path_length /\ t.subnodes = rest
    BY <1>1, <1>2 DEF Frame
<1>5. \A n \in STRING : Last(Append(d, n)) = n
    BY AppendFacts
<1>6. /\ \A i \in 1 .. Len(list) : list[i] \in all
      /\ \A i, j \in 1 .. Len(list) : Last(list[i]) = Last(list[j]) => i = j
      /\ Pending(s, d) \cap FsPaths \subseteq ahead
      /\ Pending(s, d) = {Append(d, Last(list[i])) : i \in 1 .. Len(list)}
    BY DEF FrameOK, Pending
<1>7. Pending(t, d) = {Append(d, Last(rest[i])) : i \in 1 .. Len(rest)}
    BY <1>4 DEF Pending
<1> HIDE DEF list, rest, t
<1>8. /\ \A i \in 1 .. Len(rest) : rest[i] \in all
      /\ \A i, j \in 1 .. Len(rest) : Last(rest[i]) = Last(rest[j]) => i = j
    <2>1. ASSUME NEW i \in 1 .. Len(rest), NEW j \in 1 .. Len(rest), Last(rest[i]) = Last(rest[j])
          PROVE i = j
        <3>1. i + 1 \in 1 .. Len(list) /\ j + 1 \in 1 .. Len(list)
            BY <1>2
        <3>2. Last(list[i + 1]) = Last(list[j + 1])
            BY <2>1, <1>2
        <3>3. i + 1 = j + 1
            BY <3>1, <3>2, <1>6
        <3> QED BY <3>3
    <2> QED BY <2>1, <1>2, <1>6
<1>9. Pending(t, d) \subseteq Pending(s, d)
    BY <1>2, <1>6, <1>7
<1>10. p \notin Pending(t, d)
    <2>1. ASSUME NEW i \in 1 .. Len(rest), p = Append(d, Last(rest[i])) PROVE FALSE
        <3>1. rest[i] = list[i + 1] /\ i + 1 \in 1 .. Len(list) /\ i + 1 # 1
            BY <1>2
        <3>2. Last(list[1]) = Last(list[i + 1])
            BY <1>2, <1>3, <1>5, <2>1, <3>1
        <3> QED BY <3>1, <3>2, <1>2, <1>6
    <2> QED BY <2>1, <1>7
<1>11. FrameOK(t, d, all, ahead, present)
    BY <1>4, <1>6, <1>8, <1>9 DEF FrameOK, list, rest
<1>12. p \in Pending(s, d) /\ Head(list) \in all /\ Last(Head(list)) \in STRING
    BY <1>2, <1>3, <1>6
<1> QED BY <1>6, <1>10, <1>11, <1>12 DEF t, list, rest

(* What changes in a directory comes up in its stream only if it has not    *)
(* come up before.                                                          *)
LEMMA StreamKeeps ==
    ASSUME NEW s, NEW d \in Seq(STRING), NEW all, NEW ahead \in SUBSET FsPaths, NEW present,
           FrameOK(s, d, all, ahead, present), NEW p \in FsPaths, fs[p] = "none" => p \in ahead
    PROVE LET t == StreamAfter(s, d, p)
          IN /\ FrameOK(t, d, all, ahead, FsPaths)
             /\ \A x \in Pending(t, d) \ Pending(s, d) : x = p /\ fs[p] = "none"
<1> DEFINE t == StreamAfter(s, d, p)
<1>1. s \in Frame /\ s.direct \in BOOLEAN
    BY DEF FrameOK, Frame
<1>2. p \in Seq(STRING) /\ Last(p) \in STRING /\ Append(Up(p), Last(p)) = p
    BY SearchAssumption, FrontFacts DEF Up
<1>3. CASE s.direct \/ t = s
    <2>1. t = s
        BY <1>3 DEF StreamAfter
    <2>2. ahead \cap present \subseteq ahead \cap FsPaths
        OBVIOUS
    <2>3. FrameOK(s, d, all, ahead, FsPaths)
        BY <2>2 DEF FrameOK
    <2> HIDE DEF t
    <2> QED BY <2>1, <2>3 DEF t
<1>4. ASSUME ~s.direct, NEW must \in SUBSET STRING, NEW may \in SUBSET STRING,
             t = [s EXCEPT !.must = must, !.may = may],
             \A name \in must \cup may :
                name \in s.must \cup s.may \/ (Append(d, name) = p /\ fs[p] = "none")
      PROVE /\ FrameOK(t, d, all, ahead, FsPaths)
            /\ \A x \in Pending(t, d) \ Pending(s, d) : x = p /\ fs[p] = "none"
    <2> HIDE DEF t
    <2>1. /\ t \in Frame /\ t.direct = s.direct /\ t.path_length = s.path_length
          /\ t.subnodes = s.subnodes /\ t.must = must /\ t.may = may
        BY <1>1, <1>4 DEF Frame
    <2>2. /\ Pending(t, d) = {Append(d, n) : n \in must \cup may}
          /\ Pending(s, d) = {Append(d, n) : n \in s.must \cup s.may}
        BY <1>4, <2>1 DEF Pending
    <2>3. \A x \in Pending(t, d) : x \in Pending(s, d) \/ (x = p /\ fs[p] = "none")
        BY <1>4, <2>2
    <2>4. Pending(s, d) \subseteq ahead
        BY <1>4 DEF FrameOK
    <2>5. Pending(t, d) \subseteq ahead \cap FsPaths
        BY <2>3, <2>4
    <2>6. FrameOK(t, d, all, ahead, FsPaths)
        BY <1>4, <2>1, <2>5 DEF FrameOK
    <2> QED BY <2>3, <2>6
<1>5. s.must \in SUBSET STRING /\ s.may \in SUBSET STRING
    BY <1>1 DEF Frame
<1>6. CASE ~s.direct /\ d = Up(p)
    <2> DEFINE may == IF Last(p) \in s.must \/ fs[p] = "none" THEN s.may \cup {Last(p)} ELSE s.may
               must == s.must \ {Last(p)}
    <2>1. t = [s EXCEPT !.must = must, !.may = may]
        BY <1>6 DEF StreamAfter
    <2>2. must \in SUBSET STRING /\ may \in SUBSET STRING
        BY <1>2, <1>5
    <2>3. \A name \in must \cup may :
              name \in s.must \cup s.may \/ (Append(d, name) = p /\ fs[p] = "none")
        <3>1. Append(d, Last(p)) = p
            BY <1>2, <1>6
        <3>2. \A name \in must : name \in s.must
            OBVIOUS
        <3>3. \A name \in may : name \in s.may \/ name = Last(p)
            OBVIOUS
        <3>4. may = s.may \/ Last(p) \in s.must \/ fs[p] = "none"
            <4>1. ~(Last(p) \in s.must \/ fs[p] = "none") => may = s.may
                OBVIOUS
            <4> HIDE DEF may
            <4> QED BY <4>1
        <3> HIDE DEF must, may
        <3> QED BY <3>1, <3>2, <3>3, <3>4
    <2> HIDE DEF t, must, may
    <2>5. /\ FrameOK(t, d, all, ahead, FsPaths)
          /\ \A x \in Pending(t, d) \ Pending(s, d) : x = p /\ fs[p] = "none"
        BY <1>4, <1>6, <2>1, <2>2, <2>3
    <2> QED BY <2>5 DEF t
<1>7. CASE ~s.direct /\ d # Up(p) /\ IsPrefix(p, d)
    <2>1. t = [s EXCEPT !.must = {}, !.may = s.may \cup s.must]
        BY <1>7 DEF StreamAfter
    <2>2. s.may \cup s.must \in SUBSET STRING /\ {} \in SUBSET STRING
        BY <1>5
    <2>3. \A name \in {} \cup (s.may \cup s.must) : name \in s.must \cup s.may
        OBVIOUS
    <2> DEFINE must == {}
               may == s.may \cup s.must
    <2> HIDE DEF t, must, may
    <2>4. /\ t = [s EXCEPT !.must = must, !.may = may]
          /\ must \in SUBSET STRING /\ may \in SUBSET STRING
          /\ \A name \in must \cup may :
                name \in s.must \cup s.may \/ (Append(d, name) = p /\ fs[p] = "none")
        BY <2>1, <2>2, <2>3 DEF must, may
    <2>5. /\ FrameOK(t, d, all, ahead, FsPaths)
          /\ \A x \in Pending(t, d) \ Pending(s, d) : x = p /\ fs[p] = "none"
        BY <1>4, <1>7, <2>4
    <2> QED BY <2>5 DEF t
<1>8. CASE ~s.direct /\ d # Up(p) /\ ~IsPrefix(p, d)
    BY <1>3, <1>8 DEF StreamAfter
<1> QED BY <1>1, <1>3, <1>6, <1>7, <1>8

-----------------------------------------------------------------------------
(* The next name of a directory is taken, and its path perhaps looked at.   *)
LEMMA Taken ==
    ASSUME Walking, search = "next", search' \in {"next", "stat"},
           UNCHANGED <<fs, touched, nodes, stack, place, trail>>,
           NEW name \in STRING, current_path' = Append(trail, name),
           FrameOK(state', trail, DOMAIN nodes, Ahead, Present),
           search' = "stat" =>
              /\ current_path' \in Ahead \cap Present
              /\ current_path' \notin Pending(state', trail)
              /\ step'.node \in DOMAIN nodes \cup {NoNode} /\ step'.policy \in Given
    PROVE Walking'
<1>1. trail \in Seq(STRING)
    BY DEF Walking
<1>2. /\ current_path' \in Seq(STRING) /\ Len(current_path') = Len(trail) + 1
      /\ Front(current_path') = trail
    BY <1>1, AppendFacts
<1>3. SubSeq(current_path', 1, Len(trail)) = trail /\ Len(trail) <= Len(current_path')
    <2>1. Len(trail) \in 0 .. Len(trail)
        BY <1>1
    <2> QED BY <1>1, <1>2, <2>1, CutFacts
<1>4. Ahead' = Ahead /\ Present' = Present
    BY DEF Ahead, Present
<1>5. search' \in {"stat", "open"} => InHand'
    BY <1>2, <1>4 DEF InHand
<1>6. /\ stack' \in Seq(Frame) /\ Len(stack') = Len(trail')
      /\ trail' # <<>> => trail' \in FsPaths \ Ahead'
      /\ \A p \in FsPaths \ Ahead' : Front(p) = <<>> \/ Front(p) \in FsPaths \ Ahead'
      /\ FsPaths \ Ahead' \subseteq Present'
      /\ \A i \in 1 .. Len(stack') :
            FrameOK(stack'[i], SubSeq(trail', 1, i - 1), DOMAIN nodes', Ahead', Present')
    BY <1>4 DEF Walking
<1>7. FrameOK(state', trail', DOMAIN nodes', Ahead', Present')
    BY <1>4
<1> QED BY <1>1, <1>2, <1>3, <1>5, <1>6, <1>7 DEF Walking

(* The path of the next name.                                               *)
LEMMA ReplacedFacts ==
    ASSUME Walking, NEW name
    PROVE Replaced(name) = Append(trail, name)
<1>1. state.path_length = Len(trail) /\ SubSeq(current_path, 1, Len(trail)) = trail
    BY DEF Walking, FrameOK
<1> QED BY <1>1 DEF Replaced

(* finishCurrentNode(): a node is tried by its name.                        *)
LEMMA TryNodeWalks ==
    ASSUME Walking, TreeInv, TryNode, search' \in {"next", "stat"}
    PROVE Walking'
<1> DEFINE name == Last(Head(state.subnodes))
           p == Append(trail, name)
<1>1. /\ search = "next" /\ state.direct /\ state.subnodes # <<>>
      /\ UNCHANGED <<fs, touched, nodes>>
      /\ state' = [state EXCEPT !.subnodes = Tail(state.subnodes)]
    BY DEF TryNode, AtNext, Remaining, parserVars
<1>2. FrameOK(state, trail, DOMAIN nodes, Ahead, Present) /\ trail \in Seq(STRING)
    BY DEF Walking
<1>3. /\ name \in STRING /\ Head(state.subnodes) \in DOMAIN nodes
      /\ p \in FsPaths => p \in Ahead
      /\ FrameOK(state', trail, DOMAIN nodes, Ahead, Present)
      /\ p \notin Pending(state', trail)
    BY <1>1, <1>2, HeadTaken
<1>4. Replaced(name) = p
    BY ReplacedFacts
<1>5. /\ current_path' = p /\ UNCHANGED <<stack, place, trail>>
      /\ search' = "stat" =>
            /\ KindAt(p) # "none"
            /\ step' = [node |-> Head(state.subnodes),
                        policy |-> nodes[Head(state.subnodes)].policy]
    BY <1>1, <1>4 DEF TryNode, Examine, Skip, DieAt, results
<1>6. nodes[Head(state.subnodes)].policy \in Given
    BY <1>3 DEF TreeInv, NodesType, Node
<1>7. KindAt(p) # "none" => p \in FsPaths /\ p \in Present
    BY DEF KindAt, Present
<1>8. search' = "stat" =>
         /\ current_path' \in Ahead \cap Present
         /\ current_path' \notin Pending(state', trail)
         /\ step'.node \in DOMAIN nodes \cup {NoNode} /\ step'.policy \in Given
    BY <1>3, <1>5, <1>6, <1>7
<1> HIDE DEF name
<1> QED BY <1>1, <1>3, <1>5, <1>8, Taken

(* finishSearchStep(): the stream returns a name.                           *)
LEMMA EntryWalks ==
    ASSUME Walking, TreeInv, NEW name,
           MatchedEntry(name) \/ SkippedEntry(name) \/ FallbackEntry(name)
    PROVE Walking'
<1> DEFINE p == Append(trail, name)
<1>1. /\ search = "next" /\ ~state.direct /\ name \in state.must \cup state.may
      /\ UNCHANGED <<fs, touched, nodes>>
      /\ state' = [state EXCEPT !.must = @ \ {name}, !.may = @ \ {name}]
    BY DEF MatchedEntry, SkippedEntry, FallbackEntry, ReadEntry, AtNext, parserVars
<1>2. FrameOK(state, trail, DOMAIN nodes, Ahead, Present) /\ trail \in Seq(STRING)
    BY DEF Walking
<1>3. /\ name \in STRING /\ p \in Ahead \cap Present
      /\ FrameOK(state', trail, DOMAIN nodes, Ahead, Present)
      /\ p \notin Pending(state', trail)
    BY <1>1, <1>2, NameTaken
<1>4. Replaced(name) = p
    BY ReplacedFacts
<1>5. state.fallback \in Given /\ \A q \in Range(state.subnodes) : q \in DOMAIN nodes
    BY <1>2 DEF FrameOK, Frame, Range
<1>6. \A q \in DOMAIN nodes : nodes[q].policy \in Given
    BY DEF TreeInv, NodesType, Node
<1>7. /\ current_path' = p /\ UNCHANGED <<stack, place, trail>> /\ search' \in {"next", "stat"}
      /\ search' = "stat" =>
            step'.node \in DOMAIN nodes \cup {NoNode} /\ step'.policy \in Given
    <2>1. CASE MatchedEntry(name)
        <3>1. PICK q \in Matching(name) : Examine(Replaced(name), q, nodes[q].policy)
            BY <2>1 DEF MatchedEntry
        <3>2. q \in DOMAIN nodes
            BY <1>5 DEF Matching
        <3> QED BY <1>4, <1>6, <3>1, <3>2 DEF Examine, results
    <2>2. CASE SkippedEntry(name)
        BY <1>1, <1>4, <2>2 DEF SkippedEntry, Skip, results
    <2>3. CASE FallbackEntry(name)
        BY <1>4, <1>5, <2>3 DEF FallbackEntry, Examine, results
    <2> QED BY <2>1, <2>2, <2>3
<1> QED BY <1>1, <1>3, <1>7, Taken

-----------------------------------------------------------------------------
(* The path in hand is passed, or entered.                                  *)
LEMMA Reported ==
    ASSUME Walking, search \in {"stat", "open"},
           place \in [FsPaths -> {"ahead", "inside", "behind"}],
           NEW where \in {"inside", "behind"}, place' = [place EXCEPT ![current_path] = where]
    PROVE LET rest == Ahead \ {current_path}
          IN /\ Ahead' = rest /\ place' \in [FsPaths -> {"ahead", "inside", "behind"}]
             /\ \A p \in FsPaths \ rest : Front(p) = <<>> \/ Front(p) \in FsPaths \ rest
             /\ FsPaths \ rest \subseteq Present
             /\ current_path # <<>> /\ current_path \in FsPaths \ rest
             /\ FrameOK(state, trail, DOMAIN nodes, rest, Present)
             /\ \A i \in 1 .. Len(stack) :
                   FrameOK(stack[i], SubSeq(trail, 1, i - 1), DOMAIN nodes, rest, Present)
<1> DEFINE rest == Ahead \ {current_path}
<1>1. /\ InHand /\ trail \in Seq(STRING) /\ stack \in Seq(Frame) /\ Len(stack) = Len(trail)
      /\ current_path \in Seq(STRING)
    BY DEF Walking
<1>2. current_path \in Ahead /\ current_path \in Present /\ current_path \in FsPaths
      /\ Front(current_path) = trail /\ current_path # <<>>
    BY <1>1, SearchAssumption DEF InHand, Ahead
<1>3. Ahead' = rest
    BY <1>2 DEF Ahead
<1>4. place' \in [FsPaths -> {"ahead", "inside", "behind"}]
    BY <1>2
<1>5. trail = <<>> \/ trail \in FsPaths \ Ahead
    BY DEF Walking
<1>6. ASSUME NEW p \in FsPaths \ rest PROVE Front(p) = <<>> \/ Front(p) \in FsPaths \ rest
    BY <1>2, <1>5 DEF Walking
<1>7. FsPaths \ rest \subseteq Present
    BY <1>2 DEF Walking
<1>8. FrameOK(state, trail, DOMAIN nodes, rest, Present)
    BY <1>1, FrameShrinks DEF InHand, Walking
<1>9. ASSUME NEW i \in 1 .. Len(stack)
      PROVE FrameOK(stack[i], SubSeq(trail, 1, i - 1), DOMAIN nodes, rest, Present)
    <2> DEFINE d == SubSeq(trail, 1, i - 1)
    <2>1. i - 1 \in 0 .. Len(trail) /\ i - 1 < Len(trail) /\ Len(trail) \in Nat
        BY <1>1
    <2>2. d \in Seq(STRING) /\ Len(d) = i - 1
        BY <1>1, <2>1, CutFacts
    <2>3. stack[i] \in Frame /\ FrameOK(stack[i], d, DOMAIN nodes, Ahead, Present)
        BY <1>1 DEF Walking
    <2>4. Len(current_path) = Len(trail) + 1
        BY <1>1, <1>2, FrontFacts
    <2> HIDE DEF d
    <2>5. current_path \notin Pending(stack[i], d)
        BY <2>1, <2>2, <2>3, <2>4, PendingFacts
    <2>6. FrameOK(stack[i], d, DOMAIN nodes, rest, Present)
        BY <2>3, <2>5, FrameShrinks
    <2> QED BY <2>6 DEF d
<1> QED BY <1>2, <1>3, <1>4, <1>6, <1>7, <1>8, <1>9

(* finishNodeStep() passes a file.                                          *)
LEMMA FoundFileWalks ==
    ASSUME Walking, place \in [FsPaths -> {"ahead", "inside", "behind"}], FoundFile
    PROVE Walking' /\ place' \in [FsPaths -> {"ahead", "inside", "behind"}]
<1>1. /\ search = "stat" /\ search' = "next" /\ place' = [place EXCEPT ![current_path] = "behind"]
      /\ UNCHANGED <<fs, touched, nodes, state, stack, current_path, trail>>
    BY DEF FoundFile, parserVars, iterator
<1>2. Present' = Present
    BY <1>1 DEF Present
<1> DEFINE rest == Ahead \ {current_path}
<1>3. /\ Ahead' = rest /\ place' \in [FsPaths -> {"ahead", "inside", "behind"}]
      /\ \A p \in FsPaths \ rest : Front(p) = <<>> \/ Front(p) \in FsPaths \ rest
      /\ FsPaths \ rest \subseteq Present
      /\ FrameOK(state, trail, DOMAIN nodes, rest, Present)
      /\ \A i \in 1 .. Len(stack) :
            FrameOK(stack[i], SubSeq(trail, 1, i - 1), DOMAIN nodes, rest, Present)
    BY <1>1, Reported
<1>4. trail # <<>> => trail \in FsPaths \ rest
    BY DEF Walking
<1> HIDE DEF rest
<1> QED BY <1>1, <1>2, <1>3, <1>4 DEF Walking

(* A directory is in hand until it has been opened.                         *)
LEMMA FoundDirectoryWalks ==
    ASSUME Walking, FoundDirectory
    PROVE Walking'
<1>1. /\ search = "stat" /\ search' = "open"
      /\ UNCHANGED <<fs, touched, nodes, state, stack, current_path, step, place, trail>>
    BY DEF FoundDirectory, parserVars, iterator
<1>2. Present' = Present /\ Ahead' = Ahead
    BY <1>1 DEF Present, Ahead
<1> QED BY <1>1, <1>2 DEF Walking, InHand

(* The state is pushed and the directory entered.                           *)
LEMMA OpenDirectoryWalks ==
    ASSUME Walking, TreeInv, place \in [FsPaths -> {"ahead", "inside", "behind"}], OpenDirectory
    PROVE Walking' /\ place' \in [FsPaths -> {"ahead", "inside", "behind"}]
<1>1. /\ search = "open" /\ search' = "next" /\ place' = [place EXCEPT ![current_path] = "inside"]
      /\ stack' = Append(stack, state) /\ trail' = current_path
      /\ state' = DirectoryState(current_path, step.node, step.policy)
      /\ UNCHANGED <<fs, touched, nodes, current_path>>
    BY DEF OpenDirectory, Opened, parserVars
<1>2. Present' = Present
    BY <1>1 DEF Present
<1> DEFINE rest == Ahead \ {current_path}
<1>3. /\ Ahead' = rest /\ place' \in [FsPaths -> {"ahead", "inside", "behind"}]
      /\ \A p \in FsPaths \ rest : Front(p) = <<>> \/ Front(p) \in FsPaths \ rest
      /\ FsPaths \ rest \subseteq Present
      /\ current_path # <<>> /\ current_path \in FsPaths \ rest
      /\ FrameOK(state, trail, DOMAIN nodes, rest, Present)
      /\ \A i \in 1 .. Len(stack) :
            FrameOK(stack[i], SubSeq(trail, 1, i - 1), DOMAIN nodes, rest, Present)
    BY <1>1, Reported
<1>4. /\ InHand /\ trail \in Seq(STRING) /\ stack \in Seq(Frame) /\ Len(stack) = Len(trail)
      /\ current_path \in Seq(STRING) /\ Len(trail) <= Len(current_path)
      /\ SubSeq(current_path, 1, Len(trail)) = trail /\ state \in Frame
    BY <1>1 DEF Walking, FrameOK
<1>5. FrameOK(state', current_path, DOMAIN nodes, rest, Present)
    <2>1. ASSUME NEW r \in FsPaths, Front(r) = current_path PROVE r \in rest
        <3>1. r \in Seq(STRING) \ {<<>>} /\ current_path \in Ahead
            BY <1>4, SearchAssumption DEF InHand
        <3>2. r # current_path
            BY <3>1, <2>1, FrontFacts
        <3>3. r \in Ahead
            BY <1>3, <2>1, <3>1 DEF Walking
        <3> QED BY <3>2, <3>3
    <2>2. \A r \in FsPaths : fs[r] # "none" => r \in Present
        BY DEF Present
    <2>3. /\ step.node \in DOMAIN nodes \cup {NoNode}
          /\ (IF IsDirect(step.node) THEN "none" ELSE step.policy) \in Given
        BY <1>4 DEF InHand, Given
    <2> HIDE DEF rest
    <2> QED BY <1>1, <1>4, <2>1, <2>2, <2>3, NewFrame DEF DirectoryState
<1> HIDE DEF rest
<1>6. /\ stack' \in Seq(Frame) /\ Len(stack') = Len(stack) + 1
      /\ \A i \in 1 .. Len(stack) : stack'[i] = stack[i]
      /\ stack'[Len(stack) + 1] = state
    BY <1>1, <1>4
<1>7. Len(current_path) = Len(trail) + 1
    <2>1. Front(current_path) = trail
        BY <1>4 DEF InHand
    <2>2. Len(Front(current_path)) = Len(current_path) - 1 /\ Len(current_path) \in Nat
        BY <1>3, <1>4, FrontFacts
    <2> QED BY <2>1, <2>2
<1>8. SubSeq(current_path, 1, Len(current_path)) = current_path
    BY <1>4, CutFacts
<1>9. ASSUME NEW i \in 1 .. Len(stack')
      PROVE FrameOK(stack'[i], SubSeq(current_path, 1, i - 1), DOMAIN nodes, rest, Present)
    <2>1. CASE i = Len(stack) + 1
        <3>1. i - 1 = Len(trail)
            BY <1>4, <2>1
        <3> QED BY <1>3, <1>4, <1>6, <2>1, <3>1
    <2>2. CASE i # Len(stack) + 1
        <3>1. /\ i \in 1 .. Len(stack) /\ i - 1 \in 0 .. Len(trail)
              /\ Len(trail) \in 0 .. Len(current_path)
            BY <1>4, <1>6, <2>2
        <3>2. SubSeq(SubSeq(current_path, 1, Len(trail)), 1, i - 1) = SubSeq(current_path, 1, i - 1)
            BY <1>4, <3>1, CutFacts
        <3> QED BY <1>3, <1>4, <1>6, <3>1, <3>2
    <2> QED BY <2>1, <2>2
<1>10. search' \notin {"stat", "open"}
    BY <1>1
<1>11. FrameOK(state', trail', DOMAIN nodes', Ahead', Present')
    BY <1>1, <1>2, <1>3, <1>5
<1>12. \A i \in 1 .. Len(stack') :
          FrameOK(stack'[i], SubSeq(trail', 1, i - 1), DOMAIN nodes', Ahead', Present')
    BY <1>1, <1>2, <1>3, <1>9
<1>13. /\ trail' \in Seq(STRING) /\ current_path' \in Seq(STRING)
       /\ stack' \in Seq(Frame) /\ Len(stack') = Len(trail')
       /\ Len(trail') <= Len(current_path') /\ SubSeq(current_path', 1, Len(trail')) = trail'
    BY <1>1, <1>4, <1>6, <1>7, <1>8
<1>14. /\ trail' # <<>> => trail' \in FsPaths \ Ahead'
       /\ \A p \in FsPaths \ Ahead' : Front(p) = <<>> \/ Front(p) \in FsPaths \ Ahead'
       /\ FsPaths \ Ahead' \subseteq Present'
    BY <1>1, <1>2, <1>3
<1>15. Walking'
    BY <1>10, <1>11, <1>12, <1>13, <1>14 DEF Walking
<1> QED BY <1>3, <1>15

(* finishDirectory(): the state of the directory above is taken back.       *)
LEMMA EndOfDirectoryWalks ==
    ASSUME Walking, place \in [FsPaths -> {"ahead", "inside", "behind"}], EndOfDirectory,
           stack # <<>>
    PROVE /\ Walking' /\ place' \in [FsPaths -> {"ahead", "inside", "behind"}]
          /\ trail # <<>> /\ trail' = Front(trail) /\ place' = [place EXCEPT ![trail] = "behind"]
          /\ search = "next" /\ search' = "next"
<1>1. /\ search = "next" /\ search' = "next" /\ state' = Last(stack) /\ stack' = Front(stack)
      /\ place' = [place EXCEPT ![trail] = "behind"] /\ trail' = Front(trail)
      /\ UNCHANGED <<fs, touched, nodes, current_path>>
    BY DEF EndOfDirectory, AtNext, parserVars, Up
<1>2. /\ trail \in Seq(STRING) /\ stack \in Seq(Frame) /\ Len(stack) = Len(trail)
      /\ current_path \in Seq(STRING) /\ Len(trail) <= Len(current_path)
      /\ SubSeq(current_path, 1, Len(trail)) = trail
    BY DEF Walking
<1>3. /\ trail # <<>> /\ Len(trail) \in Nat \ {0}
    BY <1>2
<1>4. trail \in FsPaths \ Ahead
    BY <1>3 DEF Walking
<1>5. Ahead' = Ahead /\ Present' = Present
    BY <1>1, <1>4 DEF Ahead, Present
<1>6. place' \in [FsPaths -> {"ahead", "inside", "behind"}]
    BY <1>1, <1>4
<1>7. /\ trail' \in Seq(STRING) /\ Len(trail') = Len(trail) - 1
      /\ trail' = SubSeq(trail, 1, Len(trail) - 1)
    BY <1>1, <1>2, <1>3, FrontFacts DEF Front
<1>8. /\ stack' \in Seq(Frame) /\ Len(stack') = Len(stack) - 1
      /\ \A i \in 1 .. Len(stack) - 1 : stack'[i] = stack[i]
      /\ state' = stack[Len(stack)]
    BY <1>1, <1>2, FrontFacts DEF Last
<1>9. SubSeq(current_path, 1, Len(trail')) = trail' /\ Len(trail') <= Len(current_path)
    <2>1. Len(trail) \in 0 .. Len(current_path) /\ Len(trail) - 1 \in 0 .. Len(trail)
        BY <1>2, <1>3
    <2>2. SubSeq(SubSeq(current_path, 1, Len(trail)), 1, Len(trail) - 1)
              = SubSeq(current_path, 1, Len(trail) - 1)
        BY <1>2, <2>1, CutFacts
    <2> QED BY <1>2, <1>3, <1>7, <2>1, <2>2
<1>10. FrameOK(state', trail', DOMAIN nodes', Ahead', Present')
    <2>1. Len(stack) \in 1 .. Len(stack)
        BY <1>2, <1>3
    <2>2. FrameOK(stack[Len(stack)], SubSeq(trail, 1, Len(stack) - 1), DOMAIN nodes, Ahead, Present)
        BY <2>1 DEF Walking
    <2> QED BY <1>1, <1>2, <1>5, <1>7, <1>8, <2>2
<1>11. \A i \in 1 .. Len(stack') :
           FrameOK(stack'[i], SubSeq(trail', 1, i - 1), DOMAIN nodes', Ahead', Present')
    <2> TAKE i \in 1 .. Len(stack')
    <2>1. /\ i \in 1 .. Len(stack) - 1 /\ i \in 1 .. Len(stack)
          /\ Len(trail) - 1 \in 0 .. Len(trail) /\ i - 1 \in 0 .. Len(trail) - 1
        BY <1>2, <1>3, <1>8
    <2>2. SubSeq(SubSeq(trail, 1, Len(trail) - 1), 1, i - 1) = SubSeq(trail, 1, i - 1)
        BY <1>2, <2>1, CutFacts
    <2>3. FrameOK(stack[i], SubSeq(trail, 1, i - 1), DOMAIN nodes, Ahead, Present)
        BY <2>1 DEF Walking
    <2> QED BY <1>1, <1>5, <1>7, <1>8, <2>1, <2>2, <2>3
<1>12. /\ trail' # <<>> => trail' \in FsPaths \ Ahead'
       /\ \A p \in FsPaths \ Ahead' : Front(p) = <<>> \/ Front(p) \in FsPaths \ Ahead'
       /\ FsPaths \ Ahead' \subseteq Present'
    BY <1>1, <1>4, <1>5 DEF Walking
<1>13. search' \notin {"stat", "open"}
    BY <1>1
<1>14. Len(stack') = Len(trail') /\ current_path' = current_path
    BY <1>1, <1>2, <1>7, <1>8
<1>15. Walking'
    BY <1>2, <1>7, <1>8, <1>9, <1>10, <1>11, <1>12, <1>13, <1>14 DEF Walking
<1> QED BY <1>1, <1>3, <1>6, <1>15

(* Files change under the walk.                                             *)
LEMMA InterfereWalks ==
    ASSUME Walking, NEW p \in FsPaths, NEW kind, Interfere(p, kind)
    PROVE Walking'
<1>1. /\ touched = {} /\ touched' = {q \in FsPaths : IsPrefix(p, q)}
      /\ state' = StreamAfter(state, trail, p)
      /\ stack' = [i \in DOMAIN stack |-> StreamAfter(stack[i], SubSeq(trail, 1, i - 1), p)]
      /\ UNCHANGED <<search, nodes, current_path, step, place, trail>>
    BY DEF Interfere, parserVars, results
<1>2. p \in touched'
    BY <1>1 DEF IsPrefix
<1>3. Ahead' = Ahead /\ Present' = FsPaths /\ Ahead \in SUBSET FsPaths
    BY <1>1, <1>2 DEF Ahead, Present
<1>4. fs[p] = "none" => p \in Ahead /\ p \notin Present
    BY <1>1 DEF Walking, Present
<1>5. /\ trail \in Seq(STRING) /\ stack \in Seq(Frame) /\ Len(stack) = Len(trail)
    BY DEF Walking
<1>6. /\ FrameOK(StreamAfter(state, trail, p), trail, DOMAIN nodes, Ahead, FsPaths)
      /\ \A x \in Pending(StreamAfter(state, trail, p), trail) \ Pending(state, trail) :
            x = p /\ fs[p] = "none"
    <2>1. FrameOK(state, trail, DOMAIN nodes, Ahead, Present)
        BY DEF Walking
    <2> QED BY <1>3, <1>4, <1>5, <2>1, StreamKeeps
<1>7. ASSUME NEW i \in 1 .. Len(stack)
      PROVE FrameOK(StreamAfter(stack[i], SubSeq(trail, 1, i - 1), p), SubSeq(trail, 1, i - 1),
                    DOMAIN nodes, Ahead, FsPaths)
    <2> DEFINE d == SubSeq(trail, 1, i - 1)
    <2>1. i - 1 \in 0 .. Len(trail)
        BY <1>5
    <2>2. d \in Seq(STRING)
        BY <1>5, <2>1, CutFacts
    <2>3. FrameOK(stack[i], d, DOMAIN nodes, Ahead, Present)
        BY DEF Walking
    <2> HIDE DEF d
    <2>4. FrameOK(StreamAfter(stack[i], d, p), d, DOMAIN nodes, Ahead, FsPaths)
        BY <1>3, <1>4, <2>2, <2>3, StreamKeeps
    <2> QED BY <2>4 DEF d
<1>8. /\ DOMAIN stack = 1 .. Len(stack) /\ Len(stack) \in Nat
      /\ \A i \in 1 .. Len(stack) :
            stack'[i] = StreamAfter(stack[i], SubSeq(trail, 1, i - 1), p)
    BY <1>1, <1>5
<1>9. stack' \in Seq(Frame) /\ Len(stack') = Len(stack)
    <2>1. \A i \in 1 .. Len(stack) : StreamAfter(stack[i], SubSeq(trail, 1, i - 1), p) \in Frame
        BY <1>7 DEF FrameOK
    <2>2. stack' \in [1 .. Len(stack) -> Frame]
        BY <1>1, <1>8, <2>1
    <2>3. stack' \in Seq(Frame)
        BY <1>8, <2>2, SeqDef
    <2> QED BY <1>8, <2>2, <2>3, LenProperties
<1>10. search' \in {"stat", "open"} => InHand'
    <2> SUFFICES ASSUME search \in {"stat", "open"} PROVE InHand'
        BY <1>1
    <2>1. InHand
        BY DEF Walking
    <2>2. current_path \notin Pending(state', trail)
        BY <1>1, <1>4, <1>6, <2>1 DEF InHand
    <2>3. current_path \in FsPaths
        BY <2>1 DEF InHand, Ahead
    <2> QED BY <1>1, <1>3, <2>1, <2>2, <2>3 DEF InHand
<1>11. FrameOK(state', trail', DOMAIN nodes', Ahead', Present')
    BY <1>1, <1>3, <1>6
<1>12. \A i \in 1 .. Len(stack') :
           FrameOK(stack'[i], SubSeq(trail', 1, i - 1), DOMAIN nodes', Ahead', Present')
    BY <1>1, <1>3, <1>7, <1>8, <1>9
<1>13. /\ trail' \in Seq(STRING) /\ current_path' \in Seq(STRING)
       /\ Len(stack') = Len(trail')
       /\ Len(trail') <= Len(current_path') /\ SubSeq(current_path', 1, Len(trail')) = trail'
       /\ trail' # <<>> => trail' \in FsPaths \ Ahead'
       /\ \A q \in FsPaths \ Ahead' : Front(q) = <<>> \/ Front(q) \in FsPaths \ Ahead'
       /\ FsPaths \ Ahead' \subseteq Present'
    BY <1>1, <1>3, <1>9 DEF Walking
<1> QED BY <1>9, <1>10, <1>11, <1>12, <1>13 DEF Walking

(* searchNew(): the root is the first directory.                            *)
LEMMA StartWalks ==
    ASSUME TreeInv, WalkInv, StartSearch
    PROVE Walking' /\ search = "none" /\ search' = "next" /\ parser' = "searching"
<1>1. /\ parser = "parsed" /\ search' = "next" /\ parser' = "searching"
      /\ UNCHANGED <<nodes, touched, stack, current_path, place, trail>>
      /\ state' = [direct |-> IsDirect(RootNode), path_length |-> 0,
                   subnodes |-> Children(RootNode), fallback |-> nodes[RootNode].policy,
                   must |-> IF IsDirect(RootNode) THEN {} ELSE NamesIn(fs', RootNode),
                   may |-> {}]
    BY DEF StartSearch
<1>2. search = "none"
    BY <1>1 DEF WalkInv
<1>3. stack = <<>> /\ trail = <<>> /\ current_path = <<>> /\ touched = {} /\ Ahead = FsPaths
    BY <1>2 DEF WalkInv
<1>4. Ahead' = FsPaths /\ Present' = {p \in FsPaths : fs'[p] # "none"}
    BY <1>1, <1>3 DEF Ahead, Present
<1>5. RootNode \in DOMAIN nodes /\ nodes[RootNode].policy \in Given
    BY <1>1 DEF TreeInv, NodesType, Node
<1>6. RootNode = <<>> /\ <<>> \in Seq(STRING) /\ Len(<<>>) = 0
    BY DEF RootNode
<1>7. /\ \A r \in FsPaths : Front(r) = <<>> => r \in FsPaths
      /\ \A r \in FsPaths : fs'[r] # "none" => r \in Present'
    BY <1>4
<1>8. FrameOK(state', <<>>, DOMAIN nodes, FsPaths, Present')
    BY <1>1, <1>5, <1>6, <1>7, NewFrame
<1>9. /\ trail' = <<>> /\ current_path' = <<>> /\ stack' = <<>>
      /\ <<>> \in Seq(STRING) /\ <<>> \in Seq(Frame) /\ Len(<<>>) = 0
      /\ SubSeq(<<>>, 1, 0) = <<>> /\ 1 .. 0 = {}
    BY <1>1, <1>3
<1>10. FsPaths \ Ahead' = {}
    BY <1>4
<1>11. FrameOK(state', trail', DOMAIN nodes', Ahead', Present')
    BY <1>1, <1>4, <1>8, <1>9
<1>12. \A i \in 1 .. Len(stack') :
           FrameOK(stack'[i], SubSeq(trail', 1, i - 1), DOMAIN nodes', Ahead', Present')
    BY <1>9
<1>13. Walking'
    BY <1>1, <1>9, <1>10, <1>11, <1>12 DEF Walking
<1> QED BY <1>1, <1>2, <1>13

-----------------------------------------------------------------------------
(* Nothing changes for the search.                                          *)
LEMMA SameWalk ==
    ASSUME WalkInv, UNCHANGED searchVars, UNCHANGED <<nodes, parser>>
    PROVE WalkInv'
<1>1. UNCHANGED <<fs, touched, search, state, stack, current_path, step, place, trail>>
    BY DEF searchVars
<1>2. Ahead' = Ahead /\ Present' = Present
    BY <1>1 DEF Ahead, Present
<1>3. Walking => Walking'
    BY <1>1, <1>2 DEF Walking, InHand
<1> QED BY <1>1, <1>2, <1>3 DEF WalkInv

(* The tree does not change while the search goes on.                       *)
LEMMA SearchingTree ==
    ASSUME ParserNext, parser = "searching"
    PROVE UNCHANGED <<nodes, ignored, parser>>
<1>1. TableWorks
    BY DEF ParserNext, MakeRoot, Define, EndOfConfig, ParseLine, SkipLine, StartSection,
           BadSection, Expression, BadPath, Redefine, PathLine, AtLine, NewNode, BadNode, IsNext
<1> QED BY <1>1 DEF TableWorks, parserVars

(* The parser leaves the search alone.                                      *)
LEMMA ParserWalks ==
    ASSUME WalkInv, ParserNext, UNCHANGED searchVars
    PROVE WalkInv'
<1>1. CASE search = "none"
    <2>1. search' = search /\ UNCHANGED <<touched, stack, current_path, place, trail>>
        BY DEF searchVars
    <2>2. Ahead' = Ahead
        BY <2>1 DEF Ahead
    <2> QED BY <1>1, <2>1, <2>2 DEF WalkInv
<1>2. CASE search # "none"
    <2>1. UNCHANGED <<nodes, parser>>
        BY <1>2, SearchingTree DEF WalkInv
    <2> QED BY <2>1, SameWalk
<1> QED BY <1>1, <1>2

(* A step of the search keeps the invariant, and is one of the walk.        *)
LEMMA StepWalks ==
    ASSUME TreeInv, WalkInv,
           SearchStep \/ \E p \in FsPaths, kind \in Kinds : Interfere(p, kind)
    PROVE WalkInv' /\ (TheWalk!Next \/ UNCHANGED <<place, trail, search = "ended">>)
<1>1. UNCHANGED <<parserVars, tableVars>>
    BY SearchKeepsTable
<1>2. UNCHANGED <<nodes, parser>> /\ place \in [FsPaths -> {"ahead", "inside", "behind"}]
    BY <1>1 DEF parserVars, WalkInv
<1> DEFINE same == UNCHANGED <<place, trail, search = "ended">>
<1>3. ASSUME search \in {"next", "stat", "open"},
             search' \in {"next", "stat", "open", "ended", "died"},
             search' \in {"next", "stat", "open"} => Walking',
             place' \in [FsPaths -> {"ahead", "inside", "behind"}]
      PROVE WalkInv'
    <2>1. search # "none" /\ search' # "none"
        BY <1>3
    <2> QED BY <1>2, <1>3, <2>1 DEF WalkInv
<1>4. search \in {"next", "stat", "open"} => Walking
    BY DEF WalkInv
<1>5. CASE TryNode
    <2>1. /\ search = "next" /\ search' \in {"next", "stat", "died"} /\ UNCHANGED <<place, trail>>
        BY <1>5 DEF TryNode, AtNext, Examine, Skip, DieAt, results
    <2>2. search' \in {"next", "stat"} => Walking'
        BY <1>4, <1>5, <2>1, TryNodeWalks
    <2> QED BY <1>2, <1>3, <2>1, <2>2
<1>6. ASSUME NEW name,
             MatchedEntry(name) \/ SkippedEntry(name) \/ FallbackEntry(name)
      PROVE WalkInv' /\ same
    <2>1. /\ search = "next" /\ search' \in {"next", "stat"} /\ UNCHANGED <<place, trail>>
        BY <1>6 DEF MatchedEntry, SkippedEntry, FallbackEntry, ReadEntry, AtNext, Examine, Skip,
                    results
    <2>2. Walking'
        BY <1>4, <1>6, <2>1, EntryWalks
    <2> QED BY <1>2, <1>3, <2>1, <2>2
<1>7. ASSUME NEW name, AmbiguousEntry(name) PROVE WalkInv' /\ same
    <2>1. search = "next" /\ search' = "died" /\ UNCHANGED <<place, trail>>
        BY <1>7 DEF AmbiguousEntry, ReadEntry, AtNext, DieAt, results
    <2> QED BY <1>2, <1>3, <2>1
<1>8. CASE StatFails \/ OpenFails
    <2>1. /\ search \in {"stat", "open"} /\ search' = "died" /\ UNCHANGED <<place, trail>>
        BY <1>8 DEF StatFails, OpenFails, results
    <2> QED BY <1>2, <1>3, <2>1
<1>9. CASE FoundDirectory
    <2>1. search = "stat" /\ search' = "open" /\ UNCHANGED <<place, trail>>
        BY <1>9 DEF FoundDirectory
    <2>2. Walking'
        BY <1>4, <1>9, <2>1, FoundDirectoryWalks
    <2> QED BY <1>2, <1>3, <2>1, <2>2
<1>10. CASE FoundFile
    <2>1. /\ search = "stat" /\ search' = "next" /\ UNCHANGED trail
          /\ place' = [place EXCEPT ![current_path] = "behind"]
        BY <1>10 DEF FoundFile
    <2>2. Walking' /\ place' \in [FsPaths -> {"ahead", "inside", "behind"}]
        BY <1>2, <1>4, <1>10, <2>1, FoundFileWalks
    <2>3. /\ current_path \in FsPaths /\ place[current_path] = "ahead"
          /\ Front(current_path) = trail
        BY <1>4, <2>1 DEF Walking, InHand, Ahead
    <2>4. TheWalk!Here(current_path)
        BY <2>1, <2>3 DEF TheWalk!Here, TheWalk!Front, Front
    <2>5. TheWalk!Pass(current_path)
        BY <2>1, <2>4 DEF TheWalk!Pass
    <2> QED BY <1>3, <2>1, <2>2, <2>3, <2>5 DEF TheWalk!Next
<1>11. CASE OpenDirectory
    <2>1. /\ search = "open" /\ search' = "next" /\ trail' = current_path
          /\ place' = [place EXCEPT ![current_path] = "inside"]
        BY <1>11 DEF OpenDirectory
    <2>2. Walking' /\ place' \in [FsPaths -> {"ahead", "inside", "behind"}]
        BY <1>2, <1>4, <1>11, <2>1, OpenDirectoryWalks
    <2>3. /\ current_path \in FsPaths /\ place[current_path] = "ahead"
          /\ Front(current_path) = trail
        BY <1>4, <2>1 DEF Walking, InHand, Ahead
    <2>4. TheWalk!Here(current_path)
        BY <2>1, <2>3 DEF TheWalk!Here, TheWalk!Front, Front
    <2>5. TheWalk!Enter(current_path)
        BY <2>1, <2>4 DEF TheWalk!Enter
    <2> QED BY <1>3, <2>1, <2>2, <2>3, <2>5 DEF TheWalk!Next
<1>12. CASE EndOfDirectory /\ stack # <<>>
    <2>1. search = "next"
        BY <1>12 DEF EndOfDirectory, AtNext
    <2>2. /\ Walking' /\ place' \in [FsPaths -> {"ahead", "inside", "behind"}]
          /\ trail # <<>> /\ trail' = Front(trail) /\ place' = [place EXCEPT ![trail] = "behind"]
          /\ search = "next" /\ search' = "next"
        BY <1>2, <1>4, <1>12, <2>1, EndOfDirectoryWalks
    <2>3. TheWalk!Leave
        BY <2>2 DEF TheWalk!Leave, TheWalk!Front, Front
    <2> QED BY <1>3, <2>2, <2>3 DEF TheWalk!Next
<1>13. CASE EndOfDirectory /\ stack = <<>>
    <2>1. search = "next" /\ search' = "ended" /\ UNCHANGED <<place, trail>>
        BY <1>13 DEF EndOfDirectory, AtNext, results
    <2>2. trail \in Seq(STRING) /\ Len(trail) = 0
        BY <1>4, <1>13, <2>1 DEF Walking
    <2>3. trail = <<>>
        BY <2>2
    <2>4. TheWalk!End
        BY <2>1, <2>3 DEF TheWalk!End
    <2> QED BY <1>2, <1>3, <2>1, <2>4 DEF TheWalk!Next
<1>14. ASSUME NEW p \in FsPaths, NEW kind, Interfere(p, kind) PROVE WalkInv' /\ same
    <2>1. /\ search \in {"next", "stat", "open"} /\ UNCHANGED <<search, place, trail>>
        BY <1>14 DEF Interfere, results
    <2>2. Walking'
        BY <1>4, <1>14, <2>1, InterfereWalks
    <2> QED BY <1>2, <1>3, <2>1, <2>2
<1> QED BY <1>5, <1>6, <1>7, <1>8, <1>9, <1>10, <1>11, <1>12, <1>13, <1>14 DEF SearchStep

(* Every step keeps both invariants, and is one of the walk.                *)
LEMMA NextWalks ==
    ASSUME TableInv, NothingYet, TreeInv, WalkInv, [SearchNext]_allVars
    PROVE /\ TreeInv' /\ WalkInv'
          /\ TheWalk!Next \/ UNCHANGED <<place, trail, search = "ended">>
<1>1. CASE ParserNext /\ UNCHANGED searchVars
    BY <1>1, ParserTree, ParserWalks DEF searchVars
<1>2. CASE StartSearch
    <2>1. Walking' /\ search = "none" /\ search' = "next" /\ parser' = "searching"
        BY <1>2, StartWalks
    <2>2. /\ parser = "parsed" /\ section' = "none" /\ UNCHANGED <<nodes, place, trail>>
        BY <1>2 DEF StartSearch
    <2>3. TreeInv'
        BY <2>1, <2>2 DEF TreeInv, NodesType, NodesMapped, Given
    <2>4. WalkInv'
        BY <2>1, <2>2 DEF WalkInv
    <2> QED BY <2>1, <2>2, <2>3, <2>4
<1>3. CASE SearchStep \/ \E p \in FsPaths, kind \in Kinds : Interfere(p, kind)
    BY <1>3, SearchKeepsTable, SameTree, StepWalks
<1>4. CASE UNCHANGED allVars
    <2>1. UNCHANGED <<parserVars, tableVars>> /\ UNCHANGED searchVars
        BY <1>4 DEF allVars
    <2>2. UNCHANGED <<nodes, parser>> /\ UNCHANGED <<place, trail, search>>
        BY <2>1 DEF parserVars, searchVars
    <2> QED BY <2>1, <2>2, SameTree, SameWalk
<1> QED BY <1>1, <1>2, <1>3, <1>4 DEF SearchNext

-----------------------------------------------------------------------------
(* The part of the type invariant about the iterator and the file system.   *)
SearchType ==
    /\ fs \in [FsPaths -> Kinds] /\ IsTree(fs) /\ touched \subseteq FsPaths
    /\ search \in {"none", "next", "stat", "open", "ended", "died"}
    /\ stackCapacity \in Nat \ {0}
    /\ stack \in Seq(Frame) /\ Len(stack) <= stackCapacity /\ Len(stack) = Len(trail)

(* The stack stays within its capacity when only that grows.                *)
LEMMA StackFits ==
    ASSUME SearchType, UNCHANGED <<fs, touched>>,
           search' \in {"none", "next", "stat", "open", "ended", "died"},
           stack' \in Seq(Frame), Len(stack') = Len(trail'),
           \/ UNCHANGED <<stack, stackCapacity>>
           \/ UNCHANGED stackCapacity /\ Len(stack') < Len(stack)
           \/ /\ Len(stack') = Len(stack) + 1
              /\ stackCapacity' = IF StackFull THEN 2 * stackCapacity ELSE stackCapacity
    PROVE SearchType'
<1>1. fs' \in [FsPaths -> Kinds] /\ IsTree(fs)' /\ touched' \subseteq FsPaths
    BY DEF SearchType, IsTree
<1> DEFINE deep == Len(stack)
           deeper == Len(stack')
<1>2. /\ deep \in Nat /\ deeper \in Nat
      /\ stackCapacity \in Nat \ {0} /\ deep <= stackCapacity
    BY DEF SearchType
<1>3. /\ stackCapacity' \in Nat \ {0} /\ deeper <= stackCapacity'
    <2>1. StackFull <=> deep = stackCapacity
        BY DEF StackFull
    <2> HIDE DEF deep, deeper
    <2>2. CASE stackCapacity' = stackCapacity /\ deeper <= deep
        BY <1>2, <2>2
    <2>3. CASE /\ deeper = deep + 1
               /\ stackCapacity' = IF StackFull THEN 2 * stackCapacity ELSE stackCapacity
        BY <1>2, <2>1, <2>3
    <2>4. \/ stackCapacity' = stackCapacity /\ deeper <= deep
          \/ /\ deeper = deep + 1
             /\ stackCapacity' = IF StackFull THEN 2 * stackCapacity ELSE stackCapacity
        BY <1>2 DEF deep, deeper
    <2> QED BY <2>2, <2>3, <2>4
<1> QED BY <1>1, <1>3 DEF SearchType

(* A change of the files leaves a tree of files.                            *)
LEMMA InterfereType ==
    ASSUME SearchType, Walking', NEW p \in FsPaths, NEW kind \in Kinds, Interfere(p, kind)
    PROVE SearchType'
<1>1. /\ fs' = AfterChange(p, kind) /\ IsTree(fs)' /\ touched' \subseteq FsPaths
      /\ UNCHANGED <<search, stackCapacity, trail>>
      /\ stack' = [i \in DOMAIN stack |-> StreamAfter(stack[i], SubSeq(trail, 1, i - 1), p)]
    BY DEF Interfere, results, IsTree
<1>2. fs' \in [FsPaths -> Kinds]
    <2>1. "none" \in Kinds
        BY DEF Kinds
    <2> QED BY <1>1, <2>1 DEF AfterChange, SearchType
<1>3. stack' \in Seq(Frame) /\ Len(stack') = Len(trail')
    BY DEF Walking
<1>4. Len(stack') <= stackCapacity' /\ stackCapacity' \in Nat \ {0}
    <2>1. Len(stack') = Len(stack)
        BY <1>1, <1>3 DEF SearchType
    <2> QED BY <1>1, <2>1 DEF SearchType
<1> QED BY <1>1, <1>2, <1>3, <1>4 DEF SearchType

(* Every step keeps the type.                                               *)
LEMMA NextType ==
    ASSUME SearchType, WalkInv, WalkInv', [SearchNext]_allVars
    PROVE SearchType'
<1> DEFINE Phases == {"none", "next", "stat", "open", "ended", "died"}
<1>1. /\ stack \in Seq(Frame) /\ Len(stack) = Len(trail) /\ search \in Phases
    BY DEF SearchType
<1>2. ASSUME UNCHANGED <<fs, touched, stack, stackCapacity, trail>>, search' \in Phases
      PROVE SearchType'
    BY <1>1, <1>2, StackFits
<1>3. search' \in {"next", "stat", "open"} => Walking'
    BY DEF WalkInv
<1>4. CASE UNCHANGED searchVars
    BY <1>1, <1>2, <1>4 DEF searchVars
<1>5. CASE StartSearch
    <2>1. /\ fs' \in FileSystems /\ search' = "next"
          /\ UNCHANGED <<touched, stack, stackCapacity, trail>>
        BY <1>5 DEF StartSearch
    <2>2. fs' \in [FsPaths -> Kinds] /\ IsTree(fs)'
        BY <2>1, FilesAssumption DEF IsTree
    <2> QED BY <2>1, <2>2 DEF SearchType
<1>6. CASE TryNode
    BY <1>2, <1>6 DEF TryNode, AtNext, Examine, Skip, DieAt, results
<1>7. ASSUME NEW name,
             \/ AmbiguousEntry(name) \/ MatchedEntry(name)
             \/ SkippedEntry(name) \/ FallbackEntry(name)
      PROVE SearchType'
    BY <1>2, <1>7 DEF AmbiguousEntry, MatchedEntry, SkippedEntry, FallbackEntry, ReadEntry,
                      AtNext, Examine, Skip, DieAt, results
<1>8. CASE StatFails \/ OpenFails \/ FoundDirectory
    BY <1>2, <1>8 DEF StatFails, OpenFails, FoundDirectory, iterator, results
<1>9. CASE FoundFile
    BY <1>2, <1>9 DEF FoundFile, iterator
<1>10. CASE OpenDirectory
    <2>1. /\ UNCHANGED <<fs, touched>> /\ search = "open" /\ search' = "next"
          /\ stack' = Append(stack, state)
          /\ stackCapacity' = IF StackFull THEN 2 * stackCapacity ELSE stackCapacity
        BY <1>10 DEF OpenDirectory
    <2>2. state \in Frame
        BY <2>1 DEF WalkInv, Walking, FrameOK
    <2> HIDE DEF Frame
    <2>3. Len(stack') = Len(stack) + 1
        BY <1>1, <2>1, <2>2
    <2>4. stack' \in Seq(Frame) /\ Len(stack') = Len(trail')
        BY <1>3, <2>1 DEF Walking
    <2> QED BY <2>1, <2>3, <2>4, StackFits
<1>11. CASE EndOfDirectory /\ stack # <<>>
    <2>1. /\ UNCHANGED <<fs, touched, stackCapacity>> /\ search' = "next" /\ search = "next"
          /\ stack' = Front(stack)
        BY <1>11 DEF EndOfDirectory, AtNext
    <2>2. stack' \in Seq(Frame) /\ Len(stack') = Len(trail')
        BY <1>3, <2>1 DEF Walking
    <2> HIDE DEF Frame
    <2>3. Len(stack') < Len(stack)
        BY <1>1, <1>11, <2>1, FrontFacts
    <2> QED BY <2>1, <2>2, <2>3, StackFits
<1>12. CASE EndOfDirectory /\ stack = <<>>
    BY <1>2, <1>12 DEF EndOfDirectory, AtNext, iterator, results
<1>13. ASSUME NEW p \in FsPaths, NEW kind \in Kinds, Interfere(p, kind) PROVE SearchType'
    <2>1. search' \in {"next", "stat", "open"}
        BY <1>13 DEF Interfere
    <2> QED BY <1>3, <1>13, <2>1, InterfereType
<1> QED BY <1>4, <1>5, <1>6, <1>7, <1>8, <1>9, <1>10, <1>11, <1>12, <1>13
        DEF SearchNext, SearchStep, allVars

(* At the start nothing is on the stack and the walk has not begun.         *)
LEMMA InitWalk == SearchInit => WalkInv /\ SearchType /\ TheWalk!Init
<1> SUFFICES ASSUME SearchInit PROVE WalkInv /\ SearchType /\ TheWalk!Init
    OBVIOUS
<1>1. /\ fs = [p \in FsPaths |-> "none"] /\ touched = {} /\ search = "none"
      /\ stack = <<>> /\ stackCapacity = StackCapacity /\ current_path = <<>>
      /\ place = [p \in FsPaths |-> "ahead"] /\ trail = <<>>
    BY DEF SearchInit
<1>2. WalkInv
    BY <1>1 DEF WalkInv, Ahead
<1>3. TheWalk!Init
    BY <1>1 DEF TheWalk!Init
<1>4. fs \in [FsPaths -> Kinds] /\ IsTree(fs)
    BY <1>1 DEF Kinds, IsTree
<1> HIDE DEF Frame
<1>5. stack \in Seq(Frame) /\ Len(stack) = 0
    BY <1>1
<1>6. SearchType
    BY <1>1, <1>4, <1>5, SearchAssumption DEF SearchType
<1> QED BY <1>2, <1>3, <1>6

(* The iterator is well-formed (SearchTypeOK): its stack is as high as the  *)
(* current directory is deep and fits its array, and the table under the    *)
(* parser is well-formed, for any config file and any file system.          *)
THEOREM SearchTypeCorrect == SearchSpec => []SearchTypeOK
<1>1. SearchInit => TableInv /\ NothingYet /\ TreeInv /\ WalkInv /\ SearchType
    BY InitNothingYet, InitTree, InitWalk DEF SearchInit, ParserInit
<1>2. TableInv /\ NothingYet /\ [SearchNext]_allVars => TableInv' /\ NothingYet'
    BY NextNothingYet, NextTable
<1>3. TableInv /\ NothingYet /\ TreeInv /\ WalkInv /\ [SearchNext]_allVars => TreeInv' /\ WalkInv'
    BY NextWalks
<1>4. SearchType /\ WalkInv /\ WalkInv' /\ [SearchNext]_allVars => SearchType'
    BY NextType
<1>5. TableInv /\ TreeInv /\ WalkInv /\ SearchType => SearchTypeOK
    BY DEF TableInv, TreeInv, NodesType, WalkInv, SearchType, SearchTypeOK
<1> QED BY <1>1, <1>2, <1>3, <1>4, <1>5, PTL DEF SearchSpec

(* The caller of searchGetNext() gets a walk over the tree of files, for    *)
(* any config file and any file system, whatever changes in it meanwhile: a *)
(* directory comes before what is in it and is left after that, and nothing *)
(* comes twice (SearchIsWalk).                                              *)
THEOREM SearchWalks == SearchSpec => SearchIsWalk
<1>1. SearchInit => TableInv /\ NothingYet /\ TreeInv /\ WalkInv /\ TheWalk!Init
    BY InitNothingYet, InitTree, InitWalk DEF SearchInit, ParserInit
<1>2. TableInv /\ NothingYet /\ [SearchNext]_allVars => TableInv' /\ NothingYet'
    BY NextNothingYet, NextTable
<1>3. TableInv /\ NothingYet /\ TreeInv /\ WalkInv /\ [SearchNext]_allVars
          => TreeInv' /\ WalkInv' /\ [TheWalk!Next]_<<place, trail, search = "ended">>
    BY NextWalks
<1> QED BY <1>1, <1>2, <1>3, PTL DEF SearchSpec, SearchIsWalk, TheWalk!Spec
=============================================================================

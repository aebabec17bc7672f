----------------------------- MODULE SearchTree -----------------------------
(***************************************************************************)
(* searchTreeParse(): the config file is read line by line.  Paths become   *)
(* nodes of a tree, together with the directories above them, and a policy  *)
(* is handed down to what has none of its own, below a new node and below   *)
(* nodes that are there already.  Nodes are found by path in the string     *)
(* table existing_nodes.                                                    *)
(*                                                                         *)
(* A path is a sequence of names; a name that is a regular expression ("//" *)
(* in the config) is one of Regexes.  A node is known by its path, which    *)
(* also stands for the pointer to it.  How a line is spelled and which      *)
(* paths it matches as an expression is given by the line; a file that is   *)
(* refused as a whole for a null byte in it (search-tree.c:128-131) has no  *)
(* lines and is left out.                                                   *)
(***************************************************************************)
EXTENDS StringTable, SequencesExt

CONSTANTS
    Lines,     \* [kind, policy, path, matches, valid]
    Regexes,   \* names that are regular expressions
    Invalid,   \* those that do not compile
    MaxLines   \* bound: lines of the config file

ASSUME TreeAssumption ==
    /\ MaxLines \in Nat /\ Invalid \subseteq Regexes
    /\ <<>> \in Keys /\ Keys \subseteq Values /\ Keys \subseteq Seq(STRING)
    /\ \A k \in Keys \ {<<>>} : Front(k) \in Keys
    /\ \A l \in Lines : l.kind = "path" => l.path \in Keys

VARIABLES
    read,      \* the lines read so far
    section,   \* current_policy
    nodes,     \* the tree: a record for the path of each node
    ignored,   \* ignore_expressions, shared by all nodes
    target,    \* the path of the current line, while its node is made
    parser     \* "new", "lines", "node", "parsed", or "refused" after die()

parserVars == <<read, section, nodes, ignored, target, parser>>

Policies == {"none", "copy", "mirror", "track"}
Sections == Policies \cup {"ignore", "summarize"}
Rule == Policies \ {"none"}

RootNode == <<>>
Up(p) == Front(p)
Above(q, p) == IsPrefix(q, p) /\ q # p

Explicit(n) == n.policy # "none" /\ ~n.inherited

ParserInit ==
    /\ read = <<>> /\ section = "none"
    /\ nodes = <<>> /\ ignored = {} /\ target = RootNode
    /\ parser = "new"
    /\ TableInit

-----------------------------------------------------------------------------
(* strTableMap(existing_nodes, str(""), root_node) *)
MakeRoot ==
    /\ parser = "new"
    /\ nodes' = [q \in {RootNode} |-> [policy |-> "none", inherited |-> FALSE,
                                       subnodes |-> <<>>, regexBelow |-> FALSE]]
    /\ parser' = "lines"
    /\ Insert(RootNode, RootNode)
    /\ UNCHANGED <<read, section, ignored, target>>

AtLine(line) ==
    /\ parser = "lines" /\ table = "ready" /\ Len(read) < MaxLines
    /\ read' = Append(read, line)
    /\ UNCHANGED tableVars

Die == parser' = "refused" /\ UNCHANGED <<section, nodes, ignored, target>>

SkipLine(line) ==
    /\ AtLine(line) /\ line.kind = "comment"
    /\ UNCHANGED <<section, nodes, ignored, target, parser>>

StartSection(line) ==
    /\ AtLine(line) /\ line.kind = "section"
    /\ section' = line.policy
    /\ UNCHANGED <<nodes, ignored, target, parser>>

(* Invalid policies, and patterns before the first section. *)
BadSection(line) ==
    /\ AtLine(line)
    /\ \/ line.kind = "badSection"
       \/ line.kind \in {"path", "dotted", "word"} /\ section = "none"
    /\ Die

(* Whatever stands in these sections is an expression. *)
Expression(line) ==
    /\ AtLine(line) /\ section \in {"ignore", "summarize"}
    /\ line.kind \in {"path", "dotted", "word"}
    /\ IF line.valid
       THEN /\ ignored' = IF section = "ignore" THEN ignored \cup line.matches ELSE ignored
            /\ UNCHANGED <<section, nodes, target, parser>>
       ELSE Die

(* Neither a path nor an expression, or a path with "." or "..". *)
BadPath(line) ==
    /\ AtLine(line) /\ section \in Rule
    /\ line.kind \in {"dotted", "word"}
    /\ Die

Known(p) == StrTableGet(p) # Null
(* Mutant: a node that has inherited a policy counts as defined. *)
Redefines_Inherited(p) == Known(p) /\ nodes[StrTableGet(p)].policy # "none"
Redefines(p) == Known(p) /\ Explicit(nodes[StrTableGet(p)])

Redefine(line) ==
    /\ AtLine(line) /\ section \in Rule /\ line.kind = "path"
    /\ Redefines(line.path)
    /\ Die

PathLine(line) ==
    /\ AtLine(line) /\ section \in Rule /\ line.kind = "path"
    /\ ~Redefines(line.path)
    /\ target' = line.path /\ parser' = "node"
    /\ UNCHANGED <<section, nodes, ignored>>

NodeBelow(parent) ==
    [policy |-> nodes[parent].policy, inherited |-> nodes[parent].policy # "none",
     subnodes |-> <<>>, regexBelow |-> FALSE]

WithSubnode(node, name) ==
    [node EXCEPT !.subnodes = <<name>> \o @,
                 !.regexBelow = IF name \in Regexes THEN TRUE ELSE @]

(* newNode() makes the highest node that is missing on the way to the       *)
(* target; sRegexCompile() may refuse its name.                             *)
IsNext(p) ==
    /\ parser = "node" /\ table = "ready"
    /\ IsPrefix(p, target) /\ ~Known(p) /\ Known(Up(p))

BadNode(p) ==
    /\ IsNext(p) /\ Last(p) \in Invalid
    /\ Die
    /\ UNCHANGED <<read, tableVars>>

NewNode(p) ==
    /\ IsNext(p) /\ Last(p) \notin Invalid
    /\ LET parent == StrTableGet(Up(p))
       IN nodes' = [q \in DOMAIN nodes \cup {p} |->
                       IF q = p THEN NodeBelow(parent)
                       ELSE IF q = parent THEN WithSubnode(nodes[q], Last(p)) ELSE nodes[q]]
    /\ StrTableMap(p, p)
    /\ UNCHANGED <<read, section, ignored, target, parser>>

(* Mutant: the policy goes down one level only. *)
Inherits_OneLevel(q, p) == Above(p, q) /\ Up(q) = p /\ ~Explicit(nodes[q])

(* inheritPolicyToSubnodes() reaches q from p through nodes without a       *)
(* policy of their own.                                                     *)
Inherits(q, p) ==
    /\ Above(p, q)
    /\ \A r \in DOMAIN nodes : Above(p, r) /\ IsPrefix(r, q) => ~Explicit(nodes[r])

(* The node of the line gets its policy. *)
Define ==
    /\ parser = "node" /\ table = "ready" /\ Known(target)
    /\ nodes' = [q \in DOMAIN nodes |->
                    IF q = target THEN [nodes[q] EXCEPT !.policy = section, !.inherited = FALSE]
                    ELSE IF Inherits(q, target)
                    THEN [nodes[q] EXCEPT !.policy = section, !.inherited = TRUE]
                    ELSE nodes[q]]
    /\ parser' = "lines"
    /\ UNCHANGED <<read, section, ignored, target, tableVars>>

EndOfConfig ==
    /\ parser = "lines" /\ table = "ready"
    /\ parser' = "parsed"
    /\ Release
    /\ UNCHANGED <<read, section, nodes, ignored, target>>

(* doubleTableCapacity() works or dies below the parser. *)
TableWorks == TableStep /\ UNCHANGED parserVars

ParseLine(line) ==
    \/ SkipLine(line) \/ StartSection(line) \/ BadSection(line) \/ Expression(line)
    \/ BadPath(line) \/ Redefine(line) \/ PathLine(line)

ParserNext ==
    \/ MakeRoot \/ TableWorks \/ Define \/ EndOfConfig
    \/ \E line \in Lines : ParseLine(line)
    \/ \E p \in Keys : NewNode(p) \/ BadNode(p)

ParserSpec == ParserInit /\ [][ParserNext]_<<parserVars, tableVars>>

-----------------------------------------------------------------------------
(* What a config file means, whatever the order of its lines.               *)

(* The section that line i is in: that of the last header before it. *)
SectionAt(lines, i) ==
    LET headers == {j \in 1 .. i - 1 : lines[j].kind = "section"}
    IN IF headers = {} THEN "none" ELSE lines[Max(headers)].policy

Definitions(lines) ==
    {i \in DOMAIN lines : lines[i].kind = "path" /\ SectionAt(lines, i) \in Rule}

NodesOf(lines) == {RootNode} \cup UNION {Prefixes(lines[i].path) : i \in Definitions(lines)}

(* The policy of the longest defined path above. *)
PolicyAt(lines, p) ==
    LET above == {i \in Definitions(lines) : IsPrefix(lines[i].path, p)}
        nearest == CHOOSE i \in above : \A j \in above : Len(lines[j].path) <= Len(lines[i].path)
    IN IF above = {} THEN "none" ELSE SectionAt(lines, nearest)

(* A line that no config file may contain at that place. *)
Wrong(lines, i) ==
    \/ lines[i].kind = "badSection"
    \/ lines[i].kind \in {"path", "dotted", "word"} /\ SectionAt(lines, i) = "none"
    \/ lines[i].kind \in {"dotted", "word"} /\ SectionAt(lines, i) \in Rule
    \/ ~lines[i].valid /\ SectionAt(lines, i) \in {"ignore", "summarize"}
                       /\ lines[i].kind \in {"path", "dotted", "word"}
    \/ i \in Definitions(lines) /\ Range(lines[i].path) \cap Invalid # {}
    \/ i \in Definitions(lines)
       /\ \E j \in Definitions(lines) : j < i /\ lines[j].path = lines[i].path

(* The tree holds exactly the paths of the config file and the directories  *)
(* above them, each with the policy of the nearest path that has one,       *)
(* wherever in the file its line stands: newNode() inherits from nodes made *)
(* earlier, inheritPolicyToSubnodes() reaches the ones made before.         *)
TreeMeansConfig ==
    parser = "parsed" =>
        /\ DOMAIN nodes = NodesOf(read)
        /\ \A p \in DOMAIN nodes : nodes[p].policy = PolicyAt(read, p)
        /\ \A p \in DOMAIN nodes : nodes[p].regexBelow =
              \E q \in DOMAIN nodes : q # RootNode /\ Up(q) = p /\ Last(q) \in Regexes

(* A config file is refused for a wrong line and for nothing else; a path   *)
(* may have inherited a policy before it gets its own.                      *)
RefusedForAReason ==
    /\ parser = "refused" => \E i \in DOMAIN read : Wrong(read, i)
    /\ parser = "parsed" => \A i \in DOMAIN read : ~Wrong(read, i)
=============================================================================

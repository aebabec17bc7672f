---------------------------- MODULE MetadataFile ----------------------------
(***************************************************************************)
(* metadata.c: the metadata file as metadataWrite() lays it out and         *)
(* metadataLoad() reads it, field by field.  A file is a sequence of        *)
(* fields: a number, a name, a type, or what belongs to a state; it has no  *)
(* other structure than the counts in front of its lists.  A backup is      *)
(* known by its completion time.  The name of a path stands for the path.   *)
(***************************************************************************)
EXTENDS Backup

(* What follows the type of a state. *)
FieldsOf(type) ==
    CASE type = "non_existing" -> 0 [] type = "directory" -> 1 [] OTHER -> 2

(* writePathHistoryList() *)
HistoryFields(history) ==
    LET point(h) == <<WrittenId(h.backup) - 1, h.state.type>>
                    \o SubSeq(<<h.state.data, h.state.content>>, 1, FieldsOf(h.state.type))
    IN <<Len(history)>> \o FlattenSeq([i \in DOMAIN history |-> point(history[i])])

(* Mutant: nodes that are not written are counted all the same. *)
ListLength_All(p) == Cardinality({q \in Children(p) : Exists(m, q)})
InList(p) == {q \in Children(p) : Exists(m, q) /\ m.hint[q] # "wiped"}
ListLength(p) == Cardinality(InList(p))

(* writePathList() *)
PathList ==
    LET list[p \in Paths \cup {Root}] ==
            LET node(q) == <<q, m.node[q].policy>> \o HistoryFields(m.node[q].history) \o list[q]
                names == SetToSeq(InList(p))
            IN <<ListLength(p)>> \o FlattenSeq([i \in DOMAIN names |-> node(names[i])])
    IN list[Root]

(* metadataWrite(); the history of the config file is never filled, and the *)
(* number of paths is not used.                                             *)
MetadataWrite ==
    <<Len(WrittenBackups)>> \o WrittenBackups \o <<0, 0>> \o PathList

-----------------------------------------------------------------------------
(* The reader: what is left of the file, what has been read, the loops that *)
(* the calls in progress are in, innermost first, and died.                 *)
Died(r) == [r EXCEPT !.died = TRUE]
Drop(r, n) == [r EXCEPT !.rest = SubSeq(@, n + 1, Len(@))]
(* assertBytesLeft() *)
Has(r, n) == Len(r.rest) >= n

(* What is read in each round of a loop, and the rounds it has left. *)
Loop(reads, path, rounds) ==
    IF rounds = 0 THEN <<>> ELSE <<[reads |-> reads, path |-> path, rounds |-> rounds]>>

StateOf(fields) ==
    [type |-> fields[1],
     data |-> IF FieldsOf(fields[1]) > 0 THEN fields[2] ELSE None,
     content |-> IF FieldsOf(fields[1]) > 1 THEN fields[3] ELSE None]

(* readPathHistory(); a point counts for its backup. *)
ReadPoint(r, p, loops) ==
    LET b == r.backups[r.rest[1] + 1]
    IN IF ~Has(r, 2) \/ r.rest[1] >= Len(r.backups) \/ ~Has(r, 2 + FieldsOf(r.rest[2]))
       THEN Died(r)
       ELSE [Drop(r, 2 + FieldsOf(r.rest[2])) EXCEPT
                !.refs[b] = @ + 1,
                !.node[p].history = Append(@, [backup |-> b, state |-> StateOf(Tail(r.rest))]),
                !.loops = loops]

(* A node is followed by the points of its history and by its subnodes. *)
ReadNode(r, parent, loops) ==
    LET p == Head(r.rest)
    IN IF ~Has(r, 3) \/ Parent[p] # parent THEN Died(r)
       ELSE [Drop(r, 3) EXCEPT
                !.node[p] = [policy |-> r.rest[2], history |-> <<>>],
                !.loops = Loop("point", p, r.rest[3]) \o Loop("subnodes", p, 1) \o loops]

(* readPathSubnodes() up to its loop. *)
ReadSubnodes(r, parent, loops) ==
    IF ~Has(r, 1) THEN Died(r)
    ELSE [Drop(r, 1) EXCEPT !.loops = Loop("node", parent, Head(r.rest)) \o loops]

(* The next round of the innermost loop. *)
Read(r) ==
    LET loop  == Head(r.loops)
        loops == Loop(loop.reads, loop.path, loop.rounds - 1) \o Tail(r.loops)
    IN IF r.died \/ r.loops = <<>> THEN r
       ELSE CASE loop.reads = "point"    -> ReadPoint(r, loop.path, loops)
              [] loop.reads = "node"     -> ReadNode(r, loop.path, loops)
              [] OTHER                   -> ReadSubnodes(r, loop.path, loops)

Reads(r, n) ==
    LET read[i \in 0 .. n] == IF i = 0 THEN r ELSE Read(read[i - 1]) IN read[n]

(* Mutant: bytes after the last node are not noticed. *)
AtEnd_Anywhere(r) == TRUE
AtEnd(r) == r.rest = <<>>

(* metadataLoad(); in each round something is read, or the program dies. *)
MetadataLoad(file) ==
    LET empty == [rest |-> file, backups |-> <<>>, node |-> NoNodes,
                  refs |-> [b \in Runs |-> 0], loops |-> Loop("subnodes", Root, 1),
                  died |-> FALSE]
        n == Head(file)
        start == [Drop(empty, n + 3) EXCEPT !.backups = SubSeq(file, 2, n + 1)]
        r == Reads(start, Len(file))
    IN IF ~Has(empty, 1) \/ ~Has(empty, n + 3) THEN Died(empty)
       ELSE IF AtEnd(r) THEN r ELSE Died(r)

-----------------------------------------------------------------------------
(* metadataLoad() reads back what metadataWrite() has written: the backups   *)
(* in their order, every node that is still part of the repository with its *)
(* history, and the reference counts, which are counted anew.               *)
FileIsReadBack ==
    pc = "review" =>
        LET r == MetadataLoad(MetadataWrite)
        IN /\ ~r.died
           /\ r.backups = WrittenBackups
           /\ r.node = WrittenNodes
           /\ r.refs = Loaded(WrittenNodes).refs

(* A file that was cut off anywhere, or that goes on after its end, is not   *)
(* taken for metadata: no part of it can be missing unnoticed.              *)
DamageIsNoticed ==
    pc = "review" =>
        LET file == MetadataWrite
        IN /\ \A n \in 0 .. Len(file) - 1 : MetadataLoad(SubSeq(file, 1, n)).died
           /\ MetadataLoad(Append(file, 0)).died
=============================================================================

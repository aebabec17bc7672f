--------------------------- MODULE RestoreProofs ---------------------------
(* What holds of a restore for any paths, states, requests and objects in   *)
(* the way, whatever has happened to stored files, however often it is      *)
(* stopped, and whoever interferes.                                         *)
EXTENDS Restore, FiniteSetTheorems, SequenceTheorems, WellFoundedInduction, TLAPS

-----------------------------------------------------------------------------
(* The inductive invariant: the metadata are what the backups left.         *)
Node == [policy: {"none", "copy", "mirror", "track"}, history: SUBSET [id: Nat, state: States]]

RepositoryInv ==
    /\ log \in Seq([Paths -> States]) /\ log # <<>>
    /\ node \in [Paths -> Node]
    /\ \A p \in Paths : node[p].history = HistoryOf(log, node[p].policy, p)
    /\ stored \in [Contents \ Small -> {"whole", "short", "wrong", "missing"}]

(* What hints may say. *)
HintFacts(p) ==
    /\ hint[p] # NoHint => p \in Reached(request)
    /\ hint[p].kind # "none" => hint[p].changed = {}
    /\ hint[p].kind = "tree_replaced" => Wanted(p).type # "directory"
    /\ "content" \in hint[p].changed => Wanted(p).type \in {"regular_file", "symlink"}
    /\ "time" \in hint[p].changed => Wanted(p).type # "symlink"
HintInv ==
    /\ request.path # Root => request.path \in Reached(request)
    /\ \A p \in Paths : HintFacts(p)

(* Where the walk is, and what it does at a path. *)
Passed == {"subnodes", "time_again", "behind"}
Remade(p) ==
    \/ hint[p].kind # "none"
    \/ Wanted(p).type = "symlink" /\ "content" \in hint[p].changed
WalkFacts(p) ==
    /\ step[p] # "ahead" => /\ ExistsAt(p, request.id)
                            /\ Parent[p] # Root => /\ p \in Subnodes(Parent[p])
                                                   /\ step[Parent[p]] \in Passed
    /\ step[p] \notin {"ahead", "behind"} /\ Parent[p] # Root => step[Parent[p]] = "subnodes"
    /\ step[p] \in {"time_again", "behind"} => \A q \in Subnodes(p) : step[q] = "behind"
    /\ step[p] \in {"subnodes", "time_again"} => Wanted(p).type = "directory"
CallFacts(p, s) ==
    /\ p \in Reached(request)
    /\ hint[p].kind = "none" => node[p].policy # "none"
    /\ s \in {"remove", "symlink", "attr", "mkdir"} => Remade(p)
    /\ s = "remove_tree" => hint[p].kind = "tree_replaced"
    /\ s \in {"open", "fill"} =>
            Wanted(p).type = "regular_file" /\ (Remade(p) \/ "content" \in hint[p].changed)
    /\ s = "mkdir" => Wanted(p).type = "directory"
    /\ s = "symlink" => Wanted(p).type = "symlink"
    /\ s = "change_attr" => hint[p].kind = "none"
    /\ s = "time" => Wanted(p).type # "symlink"
WalkInv == \A p \in Paths : WalkFacts(p) /\ (step[p] \in Calls => CallFacts(p, step[p]))

(* A link that is followed; two of them that lead to the same place. *)
IsLink(p) == disk.at[p] # None /\ disk.at[p].type = "symlink"
Through(p) ==
    p \in Reached(request) /\ hint[p].kind = "none" /\ Wanted(p).type # "symlink" /\ IsLink(p)
Mixed(p) ==
    \E q \in Paths \ {p} : Through(p) /\ Through(q) /\ disk.at[q].data = disk.at[p].data
Concerns(p) == node[p].policy # "none" /\ ~Mixed(p)

(* How far a path is restored. *)
Here(p) == Seen(p, Wanted(p))
HasType(p) ==
    IF hint[p].kind = "none" THEN Here(p) # None /\ Here(p).type = Wanted(p).type
    ELSE disk.at[p] # None /\ disk.at[p].type = Wanted(p).type
AttrFine(p) == Concerns(p) => Here(p).attr = Wanted(p).attr
TimeFine(p) == Concerns(p) /\ Wanted(p).type # "symlink" => Here(p).time = Wanted(p).time
DataFine(p) ==
    Concerns(p) =>
        /\ Wanted(p).type = "symlink" => Here(p).data = Wanted(p).data
        /\ Wanted(p).type = "regular_file" =>
            /\ Size[Here(p).data] = Size[Wanted(p).data]
            /\ \/ Here(p).data = Wanted(p).data
               \/ p \in Broken
               \/ hint[p].kind = "none" /\ "content" \notin hint[p].changed
InTheWay(p) ==
    /\ disk.at[p] # None /\ disk.at[p].type # "directory"
    /\ Wanted(p).type = "directory" => ~IsDirectory(p)
Missing(p) == disk.at[p] = None
HintHolds(p) ==
    /\ hint[p].kind = "none" =>
            HasType(p) /\ (Concerns(p) => hint[p].changed = Changed(Wanted(p), Here(p)))
    /\ hint[p].kind = "added" => Missing(p)
    /\ hint[p].kind = "replaced" => InTheWay(p)
    /\ hint[p].kind = "tree_replaced" => ~Missing(p)
StepFine(p, s) ==
    /\ s = "ahead" => HintHolds(p)
    /\ s = "remove" => InTheWay(p)
    /\ s = "remove_tree" => ~Missing(p)
    /\ s \in {"mkdir", "symlink"} \/ (s = "open" /\ Remade(p)) => Missing(p)
    /\ s = "change_attr" => HintHolds(p)
    /\ s = "open" /\ ~Remade(p) => HasType(p) /\ AttrFine(p)
    /\ s = "fill" => /\ HasType(p)
                     /\ ~Remade(p) => AttrFine(p)
                     /\ Concerns(p) => Here(p).data = Torn
    /\ s = "attr" => HasType(p) /\ DataFine(p)
    /\ s \in {"time"} \cup Passed => HasType(p) /\ AttrFine(p) /\ DataFine(p)
    /\ s = "subnodes" =>
            TimeFine(p) \/ \E q \in Subnodes(p) : step[q] # "ahead" /\ AffectsParent(q)
    /\ s = "behind" => TimeFine(p)
SteadyInv == \A p \in Reached(request) : StepFine(p, step[p])
DoneInv == \A p \in Reached(request) : HasType(p) /\ AttrFine(p) /\ DataFine(p) /\ TimeFine(p)

RestoreInv ==
    /\ RepositoryInv /\ TypeOK
    /\ pc \in {"review", "restore", "done"} => HintInv
    /\ WalkInv
    /\ pc \in {"review", "restore"} /\ steady => SteadyInv
    /\ pc = "done" /\ steady => DoneInv
    /\ FailsForAReason

-----------------------------------------------------------------------------
(* The tree of paths.                                                       *)
LEMMA Smallest ==
    ASSUME NEW S \in SUBSET Nat, S # {}
    PROVE \E n \in S : \A k \in S : n <= k
<1> DEFINE R == {ss \in Nat \X Nat : ss[1] < ss[2]}
<1>1. IsWellFoundedOn(R, Nat)
    BY NatLessThanWellFounded DEF OpToRel
<1>2. PICK n \in S : \A k \in S : <<k, n>> \notin R
    <2> HIDE DEF R
    <2> QED BY <1>1, WFMin
<1>3. \A k \in S : ~(k < n)
    BY <1>2
<1> QED BY <1>3

(* How deep in the tree a path is. *)
LEMMA Depth ==
    \E depth \in [Paths \cup {Root} -> Nat], bound \in Nat :
        /\ \A p \in Paths : depth[Parent[p]] < depth[p]
        /\ \A p \in Paths \cup {Root} : depth[p] <= bound
<1>1. Cardinality(Paths) \in Nat
    BY TreeAssumption, FS_CardinalityType
<1>2. PICK depth \in [Paths \cup {Root} -> 0..Cardinality(Paths)] :
            \A p \in Paths : depth[Parent[p]] < depth[p]
    BY TreeAssumption
<1>3. depth \in [Paths \cup {Root} -> Nat]
    BY <1>1, <1>2
<1>4. \A p \in Paths \cup {Root} : depth[p] <= Cardinality(Paths)
    BY <1>1, <1>2
<1> QED BY <1>1, <1>2, <1>3, <1>4

(* What holds of a path when it holds of its parent holds of all paths. *)
LEMMA TreeInduction ==
    ASSUME NEW S \in SUBSET Paths,
           \A p \in Paths : Parent[p] = Root \/ Parent[p] \in S => p \in S
    PROVE \A p \in Paths : p \in S
<1>1. PICK depth \in [Paths \cup {Root} -> Nat] :
            \A p \in Paths : depth[Parent[p]] < depth[p]
    BY Depth
<1> DEFINE T == Paths \ S
           depths == {depth[p] : p \in T}
<1> SUFFICES ASSUME T # {} PROVE FALSE
    OBVIOUS
<1>2. depths \in SUBSET Nat /\ depths # {}
    BY <1>1
<1>3. PICK n \in depths : \A k \in depths : n <= k
    <2> HIDE DEF depths
    <2> QED BY <1>2, Smallest
<1>4. PICK p \in T : n = depth[p]
    BY <1>3
<1>5. Parent[p] \in T
    BY <1>4, TreeAssumption
<1>6. depth[Parent[p]] \in depths /\ depth[Parent[p]] < depth[p]
    BY <1>1, <1>4, <1>5
<1>7. depth[Parent[p]] \in Nat /\ depth[p] \in Nat /\ depth[p] <= depth[Parent[p]]
    BY <1>2, <1>3, <1>4, <1>6
<1> HIDE DEF depths, T
<1> QED BY <1>6, <1>7

(* What is defined along the way to the root has a solution.                *)
Unfolds(f, S, base, rule) ==
    /\ f \in [Paths \cup {Root} -> S]
    /\ f[Root] = base
    /\ \A p \in Paths : f[p] = rule[<<p, f[Parent[p]]>>]

LEMMA TreeRecursion ==
    ASSUME NEW S, NEW base \in S, NEW rule \in [Paths \X S -> S]
    PROVE \E f : Unfolds(f, S, base, rule)
<1>1. PICK depth \in [Paths \cup {Root} -> Nat], bound \in Nat :
            /\ \A p \in Paths : depth[Parent[p]] < depth[p]
            /\ \A p \in Paths \cup {Root} : depth[p] <= bound
    BY Depth
<1> DEFINE UpTo(n) == {p \in Paths : depth[p] <= n}
           Solves(f, n) == /\ f \in [UpTo(n) \cup {Root} -> S]
                           /\ f[Root] = base
                           /\ \A p \in UpTo(n) : f[p] = rule[<<p, f[Parent[p]]>>]
           Unsolved == {n \in Nat : ~ \E f : Solves(f, n)}
<1>2. ASSUME NEW n \in Nat, NEW p \in UpTo(n)
      PROVE n # 0 /\ Parent[p] \in UpTo(n - 1) \cup {Root}
    <2>1. depth[p] \in Nat /\ depth[Parent[p]] \in Nat /\ depth[Parent[p]] < depth[p] /\ depth[p] <= n
        BY <1>1, TreeAssumption
    <2>2. n # 0 /\ depth[Parent[p]] <= n - 1
        BY <2>1
    <2> QED BY <2>2, TreeAssumption
<1>3. Unsolved = {}
    <2> SUFFICES ASSUME Unsolved # {} PROVE FALSE
        OBVIOUS
    <2>1. PICK n \in Unsolved : \A k \in Unsolved : n <= k
        <3>1. Unsolved \in SUBSET Nat
            OBVIOUS
        <3> HIDE DEF Unsolved
        <3> QED BY <3>1, Smallest
    <2>2. CASE n = 0
        <3> DEFINE f == [p \in UpTo(0) \cup {Root} |-> base]
        <3>1. UpTo(0) = {}
            BY <1>2
        <3>2. f \in [UpTo(0) \cup {Root} -> S] /\ f[Root] = base
            OBVIOUS
        <3>3. Solves(f, 0)
            BY <3>1, <3>2
        <3> QED BY <2>1, <2>2, <3>3
    <2>3. CASE n # 0
        <3>0. n \in Nat
            BY <2>1
        <3>1. n - 1 \in Nat /\ n - 1 \notin Unsolved
            <4> HIDE DEF Unsolved
            <4> QED BY <3>0, <2>1, <2>3
        <3>2. PICK f : Solves(f, n - 1)
            <4> HIDE DEF Solves
            <4> QED BY <3>1
        <3> DEFINE g == [p \in UpTo(n) \cup {Root} |->
                            IF p = Root THEN base ELSE rule[<<p, f[Parent[p]]>>]]
        <3>3. \A p \in UpTo(n) : Parent[p] \in UpTo(n - 1) \cup {Root} /\ p # Root
            BY <1>2, <2>1, TreeAssumption
        <3>4. g \in [UpTo(n) \cup {Root} -> S]
            BY <3>2, <3>3
        <3>5. \A q \in UpTo(n - 1) \cup {Root} : q \in UpTo(n) \cup {Root}
            <4>1. \A q \in Paths : depth[q] \in Nat
                BY <1>1
            <4> QED BY <4>1, <2>1
        <3>6. \A q \in UpTo(n - 1) \cup {Root} : g[q] = f[q]
            <4>1. ASSUME NEW q \in UpTo(n - 1) PROVE g[q] = f[q]
                <5>1. f[q] = rule[<<q, f[Parent[q]]>>]
                    BY <3>2
                <5> QED BY <5>1, <3>3, <3>5
            <4>2. g[Root] = f[Root]
                BY <3>2
            <4> QED BY <4>1, <4>2
        <3>7. \A p \in UpTo(n) : g[p] = rule[<<p, g[Parent[p]]>>]
            BY <3>3, <3>6
        <3>8. Solves(g, n)
            BY <3>4, <3>7
        <3> QED BY <2>1, <3>8
    <2> QED BY <2>2, <2>3
<1>4. PICK f : Solves(f, bound)
    BY <1>1, <1>3
<1>5. UpTo(bound) = Paths
    BY <1>1
<1> HIDE DEF UpTo
<1> QED BY <1>4, <1>5 DEF Unfolds

LEMMA AncestorsFacts ==
    /\ Ancestors[Root] = {}
    /\ \A p \in Paths : Ancestors[p] = {p} \cup Ancestors[Parent[p]]
    /\ \A p \in Paths \cup {Root} : Ancestors[p] \subseteq Paths
<1> DEFINE S == SUBSET Paths
           rule == [a \in Paths \X S |-> {a[1]} \cup a[2]]
<1>1. {} \in S /\ rule \in [Paths \X S -> S]
    OBVIOUS
<1>2. PICK f \in [Paths \cup {Root} -> S] :
            f[Root] = {} /\ \A p \in Paths : f[p] = rule[<<p, f[Parent[p]]>>]
    <2>1. PICK f : Unfolds(f, S, {}, rule)
        <3> HIDE DEF S, rule
        <3> QED BY <1>1, TreeRecursion
    <2> QED BY <2>1 DEF Unfolds
<1>3. \A p \in Paths : f[p] = {p} \cup f[Parent[p]]
    <2> TAKE p \in Paths
    <2>1. <<p, f[Parent[p]]>> \in Paths \X S
        BY TreeAssumption
    <2> QED BY <1>2, <2>1
<1> HIDE DEF S, rule
<1>4. f = [p \in Paths \cup {Root} |-> IF p = Root THEN {} ELSE {p} \cup f[Parent[p]]]
    BY <1>2, <1>3, TreeAssumption
<1>5. Ancestors = [p \in Paths \cup {Root} |->
                      IF p = Root THEN {} ELSE {p} \cup Ancestors[Parent[p]]]
    BY <1>4, Zenon DEF Ancestors
<1>6. Ancestors[Root] = {} /\ \A p \in Paths : Ancestors[p] = {p} \cup Ancestors[Parent[p]]
    BY <1>5, TreeAssumption
<1> DEFINE T == {p \in Paths : Ancestors[p] \subseteq Paths}
<1>7. \A p \in Paths : p \in T
    <2>1. \A p \in Paths : Parent[p] = Root \/ Parent[p] \in T => p \in T
        BY <1>6, TreeAssumption
    <2>2. T \in SUBSET Paths
        OBVIOUS
    <2> HIDE DEF T
    <2> QED BY <2>1, <2>2, TreeInduction
<1> QED BY <1>6, <1>7

LEMMA TreeFacts ==
    \A p \in Paths :
        /\ p # Root /\ Parent[p] \in Paths \cup {Root} /\ p \in Ancestors[p] /\ Root \notin Ancestors[p]
        /\ p \notin Ancestors[Parent[p]] /\ Above(p) = Ancestors[Parent[p]]
        /\ Above(p) \subseteq Paths /\ Ancestors[p] \subseteq Paths
        /\ Parent[p] # Root => Parent[p] \in Above(p)
        /\ Parent[p] = Root => Above(p) = {}
        /\ \A q \in Ancestors[p] : Ancestors[q] \subseteq Ancestors[p]
        /\ \A q \in Above(p) : Ancestors[q] \subseteq Above(p) /\ p \notin Ancestors[q]
<1>1. PICK depth \in [Paths \cup {Root} -> Nat] : \A p \in Paths : depth[Parent[p]] < depth[p]
    BY Depth
<1> DEFINE S == {p \in Paths : \A q \in Ancestors[p] :
                    depth[q] <= depth[p] /\ Ancestors[q] \subseteq Ancestors[p]}
<1>2. \A p \in Paths : p \in S
    <2>1. ASSUME NEW p \in Paths, Parent[p] = Root \/ Parent[p] \in S PROVE p \in S
        <3>1. Ancestors[p] = {p} \cup Ancestors[Parent[p]] /\ Ancestors[p] \subseteq Paths
            BY AncestorsFacts
        <3>2. ASSUME NEW q \in Ancestors[p]
              PROVE depth[q] <= depth[p] /\ Ancestors[q] \subseteq Ancestors[p]
            <4>1. CASE q = p
                BY <1>1, <4>1
            <4>2. CASE q # p
                <5>1. q \in Ancestors[Parent[p]]
                    BY <3>1, <4>2
                <5>2. Parent[p] \in S
                    BY <2>1, <5>1, AncestorsFacts
                <5>3. depth[q] <= depth[Parent[p]] /\ Ancestors[q] \subseteq Ancestors[Parent[p]]
                    BY <5>1, <5>2
                <5>4. depth[q] \in Nat /\ depth[p] \in Nat /\ depth[Parent[p]] \in Nat
                    BY <1>1, <3>1, <5>2
                <5> QED BY <1>1, <3>1, <5>3, <5>4
            <4> QED BY <4>1, <4>2
        <3> QED BY <3>2
    <2>2. S \in SUBSET Paths
        OBVIOUS
    <2> HIDE DEF S
    <2> QED BY <2>1, <2>2, TreeInduction
<1> TAKE p \in Paths
<1>3. p # Root /\ Parent[p] \in Paths \cup {Root}
    BY TreeAssumption
<1>4. Ancestors[p] = {p} \cup Ancestors[Parent[p]] /\ Ancestors[p] \subseteq Paths
    BY AncestorsFacts
<1>5. p \notin Ancestors[Parent[p]]
    <2> SUFFICES ASSUME p \in Ancestors[Parent[p]] PROVE FALSE
        OBVIOUS
    <2>1. Parent[p] \in Paths
        BY <1>3, AncestorsFacts
    <2>2. depth[p] <= depth[Parent[p]] /\ depth[Parent[p]] < depth[p]
        BY <1>1, <1>2, <2>1
    <2>3. depth[p] \in Nat /\ depth[Parent[p]] \in Nat
        BY <1>1, <2>1
    <2> QED BY <2>2, <2>3
<1>6. Above(p) = Ancestors[Parent[p]]
    BY <1>4, <1>5 DEF Above
<1>7. \A q \in Ancestors[p] : Ancestors[q] \subseteq Ancestors[p]
    BY <1>2
<1>8. \A q \in Above(p) : Ancestors[q] \subseteq Above(p)
    <2>1. Parent[p] = Root => Above(p) = {}
        BY <1>6, AncestorsFacts
    <2> QED BY <1>2, <1>3, <1>6, <2>1
<1>9. Parent[p] # Root => Parent[p] \in Above(p)
    BY <1>3, <1>6, AncestorsFacts
<1>10. Parent[p] = Root => Above(p) = {}
    BY <1>6, AncestorsFacts
<1>11. Root \notin Ancestors[p]
    BY <1>4, TreeAssumption
<1> QED BY <1>3, <1>4, <1>5, <1>6, <1>7, <1>8, <1>9, <1>10, <1>11

(* The way from a directory down to a path begins with one of its entries.  *)
LEMMA OnTheWay ==
    \A p \in Paths : \A q \in Above(p) : \E c \in Children(q) : c \in Ancestors[p]
<1> DEFINE S == {p \in Paths : \A q \in Above(p) : \E c \in Children(q) : c \in Ancestors[p]}
<1>1. ASSUME NEW p \in Paths, Parent[p] = Root \/ Parent[p] \in S PROVE p \in S
    <2>1. ASSUME NEW q \in Above(p) PROVE \E c \in Children(q) : c \in Ancestors[p]
        <3>1. CASE q = Parent[p]
            <4>1. p \in Children(q) /\ p \in Ancestors[p]
                BY <3>1, TreeFacts DEF Children
            <4> QED BY <4>1
        <3>2. CASE q # Parent[p]
            <4>1. Parent[p] \in S /\ q \in Above(Parent[p])
                BY <1>1, <2>1, <3>2, TreeFacts DEF Above
            <4>2. PICK c \in Children(q) : c \in Ancestors[Parent[p]]
                BY <4>1
            <4>3. Ancestors[Parent[p]] \subseteq Ancestors[p]
                BY AncestorsFacts
            <4> QED BY <4>2, <4>3
        <3> QED BY <3>1, <3>2
    <2> QED BY <2>1
<1>2. S \in SUBSET Paths
    OBVIOUS
<1> HIDE DEF S
<1>3. \A p \in Paths : p \in S
    BY <1>1, <1>2, TreeInduction
<1> QED BY <1>3 DEF S

-----------------------------------------------------------------------------
(* The metadata and what the backups found.                                 *)
FoundIn(l, p) == [i \in 0 .. Len(l) |-> IF i = 0 THEN NonExisting ELSE l[i][p]]
Changes(l, p) == {i \in 1 .. Len(l) : FoundIn(l, p)[i] # FoundIn(l, p)[i - 1]}
PointOf(l, p, i) == [id |-> Len(l) - i, state |-> FoundIn(l, p)[i]]
Latest(S, c) == c \in S /\ \A k \in S : k <= c

LEMMA Largest ==
    ASSUME NEW n \in Nat, NEW S \in SUBSET (0 .. n), S # {}
    PROVE \E c \in S : Latest(S, c)
<1> DEFINE T == {n - k : k \in S}
<1>1. T \in SUBSET Nat /\ T # {}
    <2>1. \A k \in S : n - k \in Nat
        OBVIOUS
    <2> QED BY <2>1
<1>2. PICK m \in T : \A k \in T : m <= k
    <2> HIDE DEF T
    <2> QED BY <1>1, Smallest
<1>3. PICK c \in S : m = n - c
    BY <1>2
<1>4. \A k \in S : n - k \in T /\ k \in Nat
    OBVIOUS
<1>5. \A k \in S : k <= c
    BY <1>2, <1>3, <1>4
<1> QED BY <1>3, <1>5 DEF Latest

LEMMA MaxFacts ==
    ASSUME NEW n \in Nat, NEW S \in SUBSET (0 .. n), NEW c, Latest(S, c)
    PROVE Max(S) = c
<1>1. \E x \in S : \A y \in S : x >= y
    BY DEF Latest
<1>2. Max(S) \in S /\ \A y \in S : Max(S) >= y
    BY <1>1 DEF Max
<1>3. \A k \in S : k \in Int
    OBVIOUS
<1>4. Max(S) \in Int /\ c \in Int
    BY <1>2, <1>3 DEF Latest
<1>5. Max(S) >= c /\ Max(S) <= c
    BY <1>2 DEF Latest
<1> QED BY <1>4, <1>5

(* What was found is what was found when it changed last.                   *)
LEMMA LastChange ==
    ASSUME NEW l \in Seq([Paths -> States]), NEW p \in Paths, NEW m \in 0 .. Len(l)
    PROVE LET before == Changes(l, p) \cap (1 .. m)
          IN \/ before = {} /\ FoundIn(l, p)[m] = NonExisting
             \/ \E c \in before : Latest(before, c) /\ FoundIn(l, p)[c] = FoundIn(l, p)[m]
<1> DEFINE f == FoundIn(l, p)
           before == Changes(l, p) \cap (1 .. m)
           A == {j \in 0 .. m : f[j] # f[m]}
<1>1. Len(l) \in Nat /\ m \in Nat /\ m <= Len(l)
    <2>1. Len(l) \in Nat
        OBVIOUS
    <2> QED BY <2>1
<1>2. f[0] = NonExisting
    BY <1>1 DEF FoundIn
<1>3. \A i \in before : i \in 1 .. m /\ f[i] # f[i - 1]
    BY DEF Changes
<1>4. CASE A = {}
    <2>1. \A j \in 0 .. m : f[j] = f[m]
        BY <1>4
    <2>2. f[m] = NonExisting
        BY <1>1, <1>2, <2>1
    <2>3. before = {}
        <3> HIDE DEF f, A, before
        <3>1. \A i \in before : i \in 0 .. m /\ i - 1 \in 0 .. m
            BY <1>1, <1>3
        <3> QED BY <1>3, <2>1, <3>1
    <2> QED BY <2>2, <2>3
<1>5. CASE A # {}
    <2>1. PICK a \in A : Latest(A, a)
        <3>1. A \in SUBSET (0 .. m)
            OBVIOUS
        <3> HIDE DEF A
        <3> QED BY <1>1, <1>5, <3>1, Largest
    <2>2. a \in 0 .. m /\ f[a] # f[m] /\ a # m
        OBVIOUS
    <2>3. a + 1 \in 1 .. m /\ a + 1 \in 0 .. m /\ a \in Nat
        BY <1>1, <2>2
    <2>4. \A j \in 0 .. m : j > a => f[j] = f[m]
        BY <1>1, <2>1, <2>3 DEF Latest
    <2> HIDE DEF f, A, before
    <2>5. f[a + 1] = f[m] /\ f[a + 1] # f[a]
        BY <2>2, <2>3, <2>4
    <2>6. a + 1 \in before
        <3>1. a + 1 \in 1 .. Len(l) /\ (a + 1) - 1 = a
            BY <1>1, <2>3
        <3> QED BY <2>3, <2>5, <3>1 DEF before, Changes, f
    <2>7. \A k \in before : k <= a + 1
        <3> SUFFICES ASSUME NEW k \in before, ~(k <= a + 1) PROVE FALSE
            OBVIOUS
        <3>1. k \in 0 .. m /\ k - 1 \in 0 .. m /\ k > a /\ k - 1 > a
            BY <1>1, <1>3, <2>3
        <3> QED BY <1>3, <2>4, <3>1
    <2> QED BY <2>5, <2>6, <2>7 DEF Latest, before, f
<1> QED BY <1>4, <1>5

(* The histories of tracked paths, and of the other ones.                   *)
Kept(l, policy, p) ==
    LET existing == {i \in Changes(l, p) : FoundIn(l, p)[i] # NonExisting}
    IN IF policy = "track" THEN Changes(l, p)
       ELSE IF policy = "mirror" /\ FoundIn(l, p)[Len(l)] = NonExisting THEN {}
       ELSE {c \in existing : Latest(existing, c)}

LEMMA HistoryIsKept ==
    ASSUME NEW l \in Seq([Paths -> States]), NEW p \in Paths, NEW policy
    PROVE HistoryOf(l, policy, p) = {PointOf(l, p, i) : i \in Kept(l, policy, p)}
<1> DEFINE n == Len(l)
           f == FoundIn(l, p)
           Found(i) == IF i = 0 THEN NonExisting ELSE l[i][p]
           points == {[id |-> n - i, state |-> Found(i)] : i \in {j \in 1 .. n : Found(j) # Found(j - 1)}}
           existing == {pt \in points : pt.state # NonExisting}
           E == {i \in Changes(l, p) : f[i] # NonExisting}
           newest == {pt \in existing : \A other \in existing : pt.id <= other.id}
<1>1. n \in Nat
    OBVIOUS
<1>2. \A i \in 0 .. n : f[i] = Found(i)
    BY DEF FoundIn
<1>3. \A j \in 1 .. n : j \in 0 .. n /\ j - 1 \in 0 .. n
    BY <1>1
<1>4. {j \in 1 .. n : Found(j) # Found(j - 1)} = Changes(l, p)
    <2> HIDE DEF f, Found
    <2> QED BY <1>2, <1>3 DEF Changes, f
<1>5. \A i \in Changes(l, p) : i \in 0 .. n
    BY <1>3 DEF Changes
<1>6. points = {PointOf(l, p, i) : i \in Changes(l, p)}
    <2> HIDE DEF Found, f
    <2>1. \A i \in Changes(l, p) : PointOf(l, p, i) = [id |-> n - i, state |-> Found(i)]
        BY <1>2, <1>5 DEF PointOf, f
    <2> QED BY <1>4, <2>1
<1>7. existing = {PointOf(l, p, i) : i \in E}
    <2>1. \A i : PointOf(l, p, i).state = f[i]
        BY DEF PointOf
    <2> HIDE DEF points, f
    <2> QED BY <1>6, <2>1
<1>8. newest = {PointOf(l, p, i) : i \in {c \in E : Latest(E, c)}}
    <2>1. \A i : PointOf(l, p, i).id = n - i
        BY DEF PointOf
    <2>2. \A i \in E : i \in Int
        BY <1>1, <1>5
    <2> HIDE DEF existing, E, n
    <2>3. \A i, k \in E : n - i <= n - k <=> k <= i
        BY <1>1, <2>2
    <2>4. \A i \in E : PointOf(l, p, i) \in newest <=> Latest(E, i)
        BY <1>7, <2>1, <2>3 DEF Latest
    <2>5. \A pt \in newest : \E i \in E : pt = PointOf(l, p, i)
        BY <1>7
    <2> HIDE DEF newest
    <2> QED BY <1>7, <2>4, <2>5 DEF Latest
<1>9. HistoryOf(l, policy, p) =
        IF policy = "track" THEN points
        ELSE IF policy = "mirror" /\ Found(n) = NonExisting THEN {}
        ELSE newest
    BY DEF HistoryOf
<1>10. Found(n) = f[n]
    BY <1>1, <1>2
<1> HIDE DEF n, Found, points, newest, existing
<1> QED BY <1>6, <1>8, <1>9, <1>10 DEF Kept, n

(* The point with the least id of some of them is the latest change.        *)
NewestOf(points) == CHOOSE pt \in points : \A other \in points : pt.id <= other.id

LEMMA FirstPoint ==
    ASSUME NEW l \in Seq([Paths -> States]), NEW p \in Paths,
           NEW S \in SUBSET (1 .. Len(l)), NEW c, Latest(S, c),
           NEW points, points = {PointOf(l, p, i) : i \in S}
    PROVE /\ points # {}
          /\ NewestOf(points) = PointOf(l, p, c)
<1>1. Len(l) \in Nat /\ \A i \in S : i \in Int
    OBVIOUS
<1>2. \A i : PointOf(l, p, i).id = Len(l) - i
    BY DEF PointOf
<1>3. c \in S /\ \A k \in S : k <= c
    BY DEF Latest
<1>4. \A i, k \in S : Len(l) - i <= Len(l) - k <=> k <= i
    BY <1>1
<1>5. PointOf(l, p, c) \in points /\ \A other \in points : PointOf(l, p, c).id <= other.id
    BY <1>2, <1>3, <1>4
<1> DEFINE first == NewestOf(points)
<1>6. first \in points /\ \A other \in points : first.id <= other.id
    BY <1>5 DEF NewestOf
<1> HIDE DEF first
<1>7. PICK i \in S : first = PointOf(l, p, i)
    BY <1>6
<1>8. c <= i
    BY <1>2, <1>3, <1>4, <1>5, <1>6, <1>7
<1>9. i \in Int /\ c \in Int /\ i <= c
    BY <1>1, <1>3
<1>10. i = c
    BY <1>8, <1>9
<1> QED BY <1>5, <1>7, <1>10 DEF first

(* What is restored is what the backup found, whatever the histories have   *)
(* kept of it (searchPathState()).                                          *)
LEMMA WantedIsSaved ==
    ASSUME RepositoryInv, request \in Requests, NEW p \in Paths
    PROVE /\ Wanted(p) = Saved(p)
          /\ Wanted(p) \in States
          /\ Wanted(p) # NonExisting => \E pt \in node[p].history : pt.state = Wanted(p)
<1> DEFINE n == Len(log)
           f == FoundIn(log, p)
           policy == node[p].policy
           C == Changes(log, p)
           E == {i \in C : f[i] # NonExisting}
           id == request.id
           points == IF policy # "track" THEN node[p].history
                     ELSE {pt \in node[p].history : pt.id >= id}
<1>1. log \in Seq([Paths -> States]) /\ n \in Nat \ {0}
    BY DEF RepositoryInv
<1>2. id \in 0 .. (n - 1) /\ n - id \in 1 .. n /\ n \in 1 .. n
    <2>1. id \in 0 .. (n - 1)
        BY DEF Requests
    <2> QED BY <1>1, <2>1
<1>3. node[p].history = {PointOf(log, p, i) : i \in Kept(log, policy, p)}
    BY <1>1, HistoryIsKept DEF RepositoryInv
<1>4. \A i \in 1 .. n : i \in 0 .. n /\ f[i] = log[i][p] /\ f[i] \in States
    <2>1. \A i \in 1 .. n : log[i] \in [Paths -> States] /\ i # 0 /\ i \in 0 .. n
        BY <1>1
    <2> QED BY <2>1 DEF FoundIn
<1>5. C \in SUBSET (1 .. n) /\ E \in SUBSET C
    BY DEF Changes
<1>6. Wanted(p) = IF points = {} THEN NonExisting
                  ELSE NewestOf(points).state
    BY DEF Wanted, StateAt, NewestOf
<1>7. NonExisting \in States
    BY DEF States
<1> HIDE DEF points
<1>8. ASSUME NEW S \in SUBSET Kept(log, policy, p), NEW c, Latest(S, c),
             points = {PointOf(log, p, i) : i \in S}
      PROVE Wanted(p) = f[c] /\ \E pt \in node[p].history : pt.state = Wanted(p)
    <2>1. S \in SUBSET (1 .. Len(log))
        BY <1>5 DEF Kept
    <2>2. points # {} /\ NewestOf(points) = PointOf(log, p, c)
        BY <1>1, <1>8, <2>1, FirstPoint
    <2>3. PointOf(log, p, c).state = f[c] /\ PointOf(log, p, c) \in node[p].history
        BY <1>3, <1>8 DEF PointOf, Latest
    <2> QED BY <1>6, <2>2, <2>3
<1>9. CASE policy = "track"
    <2> DEFINE m == n - id
               before == C \cap (1 .. m)
    <2>1. Kept(log, policy, p) = C
        BY <1>9 DEF Kept
    <2>2. points = {PointOf(log, p, i) : i \in before}
        <3>1. \A i \in C : n - i >= id <=> i \in 1 .. m
            BY <1>1, <1>2, <1>5
        <3>2. \A i : PointOf(log, p, i).id = n - i
            BY DEF PointOf
        <3> HIDE DEF n, C, id, m
        <3> QED BY <1>3, <1>9, <2>1, <3>1, <3>2 DEF points
    <2>3. Saved(p) = f[m]
        BY <1>2, <1>4, <1>9 DEF Saved
    <2>4. m \in 0 .. Len(log)
        BY <1>1, <1>2
    <2>5. CASE before = {} /\ f[m] = NonExisting
        <3> HIDE DEF before, f
        <3> QED BY <1>6, <1>7, <2>2, <2>3, <2>5
    <2>6. CASE \E c \in before : Latest(before, c) /\ f[c] = f[m]
        <3>1. PICK c \in before : Latest(before, c) /\ f[c] = f[m]
            BY <2>6
        <3>2. before \in SUBSET Kept(log, policy, p)
            BY <2>1
        <3>3. Wanted(p) = f[c] /\ \E pt \in node[p].history : pt.state = Wanted(p)
            <4> HIDE DEF before, f
            <4> QED BY <1>8, <2>2, <3>1, <3>2
        <3> QED BY <1>2, <1>4, <2>3, <3>1, <3>3
    <2> QED BY <1>1, <2>4, <2>5, <2>6, LastChange
<1>10. CASE policy # "track" /\ policy = "mirror" /\ f[n] = NonExisting
    <2>1. points = {}
        BY <1>3, <1>10 DEF Kept, points
    <2>2. Saved(p) = NonExisting
        BY <1>2, <1>4, <1>10 DEF Saved
    <2> QED BY <1>6, <1>7, <2>1, <2>2
<1>11. CASE policy # "track" /\ ~(policy = "mirror" /\ f[n] = NonExisting)
    <2> DEFINE newest == {c \in E : Latest(E, c)}
    <2>1. points = {PointOf(log, p, i) : i \in newest} /\ Kept(log, policy, p) = newest
        BY <1>3, <1>11 DEF Kept, points
    <2>2. ASSUME NEW m \in 1 .. n, f[m] # NonExisting, \A i \in 1 .. n : f[i] # NonExisting => i <= m
          PROVE Wanted(p) = f[m] /\ \E pt \in node[p].history : pt.state = Wanted(p)
        <3> DEFINE before == C \cap (1 .. m)
        <3>1. m \in 0 .. Len(log)
            BY <1>1
        <3>2. PICK c \in before : Latest(before, c) /\ f[c] = f[m]
            BY <1>1, <2>2, <3>1, LastChange
        <3>3. \A i \in E : i \in before
            BY <1>5, <2>2
        <3>4. Latest(E, c)
            BY <2>2, <3>2, <3>3 DEF Latest
        <3>5. Latest(newest, c)
            BY <3>4 DEF Latest
        <3>6. Wanted(p) = f[c] /\ \E pt \in node[p].history : pt.state = Wanted(p)
            <4> HIDE DEF newest, f
            <4> QED BY <1>8, <2>1, <3>5
        <3> QED BY <3>2, <3>6
    <2>3. CASE policy = "mirror"
        <3>1. \A i \in 1 .. n : i <= n
            BY <1>1
        <3>2. Saved(p) = f[n]
            BY <1>2, <1>4, <2>3 DEF Saved
        <3> QED BY <1>2, <1>4, <1>11, <2>2, <2>3, <3>1, <3>2
    <2>4. CASE policy # "mirror"
        <3> DEFINE Existing == {i \in 1 .. n : log[i][p] # NonExisting}
        <3>1. Existing = {i \in 1 .. n : f[i] # NonExisting}
            BY <1>4
        <3>2. Saved(p) = IF Existing = {} THEN NonExisting ELSE log[Max(Existing)][p]
            BY <1>11, <2>4 DEF Saved
        <3>3. CASE Existing = {}
            <4>1. E = {}
                BY <1>5, <3>1, <3>3
            <4>2. points = {}
                BY <2>1, <4>1
            <4> QED BY <1>6, <1>7, <3>2, <3>3, <4>2
        <3>4. CASE Existing # {}
            <4>1. Existing \in SUBSET (0 .. n)
                BY <1>4
            <4>2. PICK m \in Existing : Latest(Existing, m)
                <5> HIDE DEF Existing
                <5> QED BY <1>1, <3>4, <4>1, Largest
            <4>3. Saved(p) = log[m][p]
                <5> HIDE DEF Existing
                <5>1. Max(Existing) = m
                    BY <1>1, <4>1, <4>2, MaxFacts
                <5> QED BY <3>2, <3>4, <5>1
            <4>4. Saved(p) = f[m] /\ f[m] # NonExisting /\ m \in 1 .. n
                BY <1>4, <4>3
            <4>5. \A i \in 1 .. n : f[i] # NonExisting => i <= m
                BY <3>1, <4>2 DEF Latest
            <4> QED BY <1>4, <2>2, <4>4, <4>5
        <3> QED BY <3>3, <3>4
    <2> QED BY <2>3, <2>4
<1> QED BY <1>9, <1>10, <1>11

-----------------------------------------------------------------------------
(* Hints: below a path that has to be made nothing is there, so that        *)
(* could_exist only saves a look.                                           *)
HintFor(r, p, could_exist) ==
    LET state == StateAt(p, r.id)
        o == Seen(p, state)
    IN IF p \notin Reached(r) THEN NoHint
       ELSE IF ~could_exist \/ disk.at[p] = None THEN [kind |-> "added", changed |-> {}]
       ELSE IF o = None THEN [kind |-> "dangling", changed |-> {}]
       ELSE IF o.type # state.type
            THEN [kind |-> IF o.type = "directory" THEN "tree_replaced" ELSE "replaced",
                  changed |-> {}]
       ELSE [kind |-> "none", changed |-> Changed(state, o)]

AnyHint == [kind: {"none", "added", "replaced", "tree_replaced", "dangling"},
            changed: SUBSET {"attr", "time", "content"}]

LEMMA ChangedType == \A state, o : Changed(state, o) \in SUBSET {"attr", "time", "content"}
BY DEF Changed

LEMMA HintForType == \A r, p : \A could_exist \in BOOLEAN : HintFor(r, p, could_exist) \in AnyHint
<1> TAKE r, p
<1> TAKE could_exist \in BOOLEAN
<1> DEFINE state == StateAt(p, r.id)
           o == Seen(p, state)
<1>1. Changed(state, o) \in SUBSET {"attr", "time", "content"}
    BY ChangedType
<1>2. HintFor(r, p, could_exist) =
        IF p \notin Reached(r) THEN NoHint
        ELSE IF ~could_exist \/ disk.at[p] = None THEN [kind |-> "added", changed |-> {}]
        ELSE IF o = None THEN [kind |-> "dangling", changed |-> {}]
        ELSE IF o.type # state.type
             THEN [kind |-> IF o.type = "directory" THEN "tree_replaced" ELSE "replaced",
                   changed |-> {}]
        ELSE [kind |-> "none", changed |-> Changed(state, o)]
    BY DEF HintFor
<1> HIDE DEF state, o
<1> QED BY <1>1, <1>2 DEF AnyHint, NoHint

LEMMA HintsUnfold ==
    ASSUME NEW r
    PROVE Hints(r) = [p \in Paths |->
            HintFor(r, p, Parent[p] = Root \/ Hints(r)[Parent[p]].kind = "none")]
<1> DEFINE rule == [a \in Paths \X AnyHint |->
                        HintFor(r, a[1], Parent[a[1]] = Root \/ a[2].kind = "none")]
<1>1. NoHint \in AnyHint /\ rule \in [Paths \X AnyHint -> AnyHint]
    <2>1. NoHint \in AnyHint
        BY DEF NoHint, AnyHint
    <2>2. \A a \in Paths \X AnyHint :
            HintFor(r, a[1], Parent[a[1]] = Root \/ a[2].kind = "none") \in AnyHint
        BY HintForType
    <2> QED BY <2>1, <2>2
<1>2. PICK f : Unfolds(f, AnyHint, NoHint, rule)
    <2> HIDE DEF rule
    <2> QED BY <1>1, TreeRecursion
<1>3. f \in [Paths \cup {Root} -> AnyHint] /\ \A p \in Paths : f[p] = rule[<<p, f[Parent[p]]>>]
    BY <1>2 DEF Unfolds
<1>4. \A p \in Paths : f[p] = HintFor(r, p, Parent[p] = Root \/ f[Parent[p]].kind = "none")
    <2> TAKE p \in Paths
    <2>1. <<p, f[Parent[p]]>> \in Paths \X AnyHint
        BY <1>3, TreeAssumption
    <2> QED BY <1>3, <2>1
<1> DEFINE g == [p \in Paths |-> f[p]]
<1>5. g = [p \in Paths |-> HintFor(r, p, Parent[p] = Root \/ g[Parent[p]].kind = "none")]
    <2>1. \A p \in Paths : Parent[p] = Root \/ g[Parent[p]] = f[Parent[p]]
        BY TreeAssumption
    <2> QED BY <1>4, <2>1
<1> HIDE DEF g
<1>6. g = [p \in Paths |->
            LET state == StateAt(p, r.id)
                could_exist == Parent[p] = Root \/ g[Parent[p]].kind = "none"
                o == Seen(p, state)
            IN IF p \notin Reached(r) THEN NoHint
               ELSE IF ~could_exist \/ disk.at[p] = None THEN [kind |-> "added", changed |-> {}]
               ELSE IF o = None THEN [kind |-> "dangling", changed |-> {}]
               ELSE IF o.type # state.type
                    THEN [kind |-> IF o.type = "directory" THEN "tree_replaced" ELSE "replaced",
                          changed |-> {}]
               ELSE [kind |-> "none", changed |-> Changed(state, o)]]
    BY <1>5, Zenon DEF HintFor
<1>7. Hints(r) = [p \in Paths |->
            LET state == StateAt(p, r.id)
                could_exist == Parent[p] = Root \/ Hints(r)[Parent[p]].kind = "none"
                o == Seen(p, state)
            IN IF p \notin Reached(r) THEN NoHint
               ELSE IF ~could_exist \/ disk.at[p] = None THEN [kind |-> "added", changed |-> {}]
               ELSE IF o = None THEN [kind |-> "dangling", changed |-> {}]
               ELSE IF o.type # state.type
                    THEN [kind |-> IF o.type = "directory" THEN "tree_replaced" ELSE "replaced",
                          changed |-> {}]
               ELSE [kind |-> "none", changed |-> Changed(state, o)]]
    BY <1>6, Zenon DEF Hints
<1> QED BY <1>7, Zenon DEF HintFor

LEMMA ReachedFacts ==
    ASSUME NEW r, r.path \in Paths \cup {Root}, NEW p \in Reached(r)
    PROVE /\ p \in Paths /\ ExistsAt(p, r.id)
          /\ \A a \in Above(p) : a \in Reached(r) /\ ExistsAt(a, r.id) /\ DirectoryAt(a, r.id)
          /\ Parent[p] # Root => Parent[p] \in Reached(r) /\ DirectoryAt(Parent[p], r.id)
<1>1. /\ p \in Paths
      /\ r.path = Root \/ r.path \in Ancestors[p] \/ p \in Ancestors[r.path]
      /\ \A a \in Ancestors[p] : ExistsAt(a, r.id)
      /\ \A a \in Above(p) : DirectoryAt(a, r.id)
    BY DEF Reached
<1>2. ASSUME NEW a \in Above(p) PROVE a \in Reached(r)
    <2>1. a \in Paths /\ Ancestors[a] \subseteq Above(p) /\ Above(p) \subseteq Ancestors[p]
        BY <1>1, TreeFacts DEF Above
    <2>2. Above(a) \subseteq Above(p)
        BY <2>1 DEF Above
    <2>3. r.path = Root \/ r.path \in Ancestors[a] \/ a \in Ancestors[r.path]
        <3>1. CASE r.path = Root
            BY <3>1
        <3>2. CASE p \in Ancestors[r.path]
            <4>1. r.path \in Paths
                BY <3>2, AncestorsFacts
            <4>2. Ancestors[p] \subseteq Ancestors[r.path]
                BY <3>2, <4>1, TreeFacts
            <4> QED BY <2>1, <4>2
        <3>3. CASE r.path \in Ancestors[p]
            <4>1. CASE r.path = p
                BY <2>1, <4>1
            <4>2. CASE r.path # p
                <5> DEFINE S == {q \in Paths : \A x, y \in Ancestors[q] :
                                    x \in Ancestors[y] \/ y \in Ancestors[x]}
                <5>1. ASSUME NEW q \in Paths, Parent[q] = Root \/ Parent[q] \in S PROVE q \in S
                    <6>1. Ancestors[q] = {q} \cup Ancestors[Parent[q]]
                        BY AncestorsFacts
                    <6>2. \A x, y \in Ancestors[Parent[q]] : x \in Ancestors[y] \/ y \in Ancestors[x]
                        BY <5>1, AncestorsFacts
                    <6>3. \A x, y \in Ancestors[q] : x \in Ancestors[y] \/ y \in Ancestors[x]
                        BY <6>1, <6>2
                    <6> QED BY <6>3
                <5>2. S \in SUBSET Paths
                    OBVIOUS
                <5>3. p \in S
                    <6> HIDE DEF S
                    <6> QED BY <1>1, <5>1, <5>2, TreeInduction
                <5> QED BY <2>1, <3>3, <5>3
            <4> QED BY <4>1, <4>2
        <3> QED BY <1>1, <3>1, <3>2, <3>3
    <2> QED BY <1>1, <2>1, <2>2, <2>3 DEF Reached
<1>3. p \in Ancestors[p] /\ (Parent[p] # Root => Parent[p] \in Above(p))
    BY <1>1, TreeFacts
<1>4. Above(p) \subseteq Ancestors[p]
    BY DEF Above
<1> QED BY <1>1, <1>2, <1>3, <1>4

Closed == \A p \in Paths : disk.at[p] # None => IsDirectory(Parent[p])

LEMMA HintsDirect ==
    ASSUME NEW r, r.path \in Paths \cup {Root}, Closed, ~Refused(r)
    PROVE \A p \in Paths : Hints(r)[p] = HintFor(r, p, TRUE) /\ Hints(r)[p].kind # "dangling"
<1>1. \A p \in Paths : Hints(r)[p].kind # "dangling"
    BY DEF Refused
<1>2. \A p \in Paths :
        Hints(r)[p] = HintFor(r, p, Parent[p] = Root \/ Hints(r)[Parent[p]].kind = "none")
    <2> DEFINE g == [p \in Paths |->
                HintFor(r, p, Parent[p] = Root \/ Hints(r)[Parent[p]].kind = "none")]
    <2>1. Hints(r) = g
        BY HintsUnfold
    <2>2. \A p \in Paths : g[p] = HintFor(r, p, Parent[p] = Root \/ Hints(r)[Parent[p]].kind = "none")
        OBVIOUS
    <2> HIDE DEF g
    <2> QED BY <2>1, <2>2
<1> DEFINE S == {p \in Paths : Hints(r)[p] = HintFor(r, p, TRUE)}
<1>3. ASSUME NEW p \in Paths, Parent[p] = Root \/ Parent[p] \in S PROVE p \in S
    <2>1. CASE Parent[p] = Root \/ Hints(r)[Parent[p]].kind = "none"
        BY <1>2, <2>1
    <2>2. CASE ~(Parent[p] = Root \/ Hints(r)[Parent[p]].kind = "none")
        <3> DEFINE q == Parent[p]
        <3>1. Hints(r)[p] = HintFor(r, p, FALSE)
            BY <1>2, <2>2
        <3>2. CASE p \notin Reached(r)
            BY <3>1, <3>2 DEF HintFor
        <3>3. CASE p \in Reached(r)
            <4>1. q \in Paths /\ q \in Reached(r) /\ StateAt(q, r.id).type = "directory" /\ q # Root
                BY <2>2, <3>3, ReachedFacts, TreeFacts DEF DirectoryAt
            <4>2. HintFor(r, q, TRUE).kind \notin {"none", "dangling"}
                BY <1>1, <1>3, <2>2, <4>1
            <4>3. disk.at[q] = None \/ Followed(q).type # "directory"
                BY <4>1, <4>2 DEF HintFor, Seen
            <4>4. ~IsDirectory(q)
                BY <4>1, <4>3 DEF IsDirectory, Followed
            <4>5. disk.at[p] = None
                BY <4>4 DEF Closed
            <4> QED BY <3>1, <3>3, <4>5 DEF HintFor
        <3> QED BY <3>2, <3>3
    <2> QED BY <2>1, <2>2
<1>4. S \in SUBSET Paths
    OBVIOUS
<1> HIDE DEF S
<1>5. \A p \in Paths : p \in S
    BY <1>3, <1>4, TreeInduction
<1> QED BY <1>1, <1>5 DEF S

-----------------------------------------------------------------------------
(* What the system calls do.                                                *)
Disks == [at: [Paths -> Things \cup {None}], outside: [Targets -> Things \cup {None}]]
Stamped(o) == [o EXCEPT !.time = Now]

LEMMA ThingFacts ==
    ASSUME NEW o \in Things
    PROVE /\ o # None /\ o.attr \in Attrs /\ o.time \in Times
          /\ o = [type |-> o.type, data |-> o.data, attr |-> o.attr, time |-> o.time]
          /\ o.type \in {"regular_file", "symlink", "directory", "other"}
          /\ o.type = "regular_file" => o.data \in Contents \cup {Torn}
          /\ o.type = "symlink" => o.data \in Targets
          /\ o.type = "directory" => o.data = None
          /\ \A t \in Times : [o EXCEPT !.time = t] \in Things
          /\ \A a \in Attrs : [o EXCEPT !.attr = a] \in Things
          /\ \A c \in Contents \cup {Torn} :
                o.type = "regular_file" => [o EXCEPT !.data = c] \in Things
<1>1. None \notin Things
    BY FilesAssumption
<1>2. o \in [type: {"regular_file"}, data: Contents \cup {Torn}, attr: Attrs, time: Times]
      \/ o \in [type: {"symlink"}, data: Targets, attr: Attrs, time: Times]
      \/ o \in [type: {"directory"}, data: {None}, attr: Attrs, time: Times]
      \/ o \in [type: {"other"}, data: {None}, attr: Attrs, time: Times]
    BY DEF Things, Known
<1>3. /\ o.attr \in Attrs /\ o.time \in Times
      /\ o = [type |-> o.type, data |-> o.data, attr |-> o.attr, time |-> o.time]
      /\ o.type \in {"regular_file", "symlink", "directory", "other"}
      /\ o.type = "regular_file" => o.data \in Contents \cup {Torn}
      /\ o.type = "symlink" => o.data \in Targets
      /\ o.type = "directory" => o.data = None
    BY <1>2
<1>4. \A t \in Times : [o EXCEPT !.time = t] \in Things
    BY <1>2 DEF Things, Known
<1>5. \A a \in Attrs : [o EXCEPT !.attr = a] \in Things
    BY <1>2 DEF Things, Known
<1>6. \A c \in Contents \cup {Torn} :
                o.type = "regular_file" => [o EXCEPT !.data = c] \in Things
    BY <1>2 DEF Things, Known
<1> QED BY <1>1, <1>3, <1>4, <1>5, <1>6

LEMMA StateFacts ==
    ASSUME NEW s \in States
    PROVE /\ s # NonExisting => /\ s \in Things /\ s.type \in {"regular_file", "symlink", "directory"}
                                /\ s.type = "regular_file" => s.data \in Contents
          /\ s.type = "directory" => s # NonExisting
          /\ NonExisting.type = "non_existing"
<1>1. s = NonExisting \/ s \in Known(Contents)
    BY DEF States
<1>2. s \in Known(Contents) => /\ s \in Things /\ s.type \in {"regular_file", "symlink", "directory"}
                               /\ s.type = "regular_file" => s.data \in Contents
    BY DEF Known, Things
<1> QED BY <1>1, <1>2 DEF NonExisting

LEMMA FollowedFacts ==
    ASSUME disk \in Disks, NEW p \in Paths
    PROVE /\ disk.at[p] \in Things \cup {None} /\ Followed(p) \in Things \cup {None}
          /\ IsLink(p) => disk.at[p].data \in Targets /\ Followed(p) = disk.outside[disk.at[p].data]
          /\ ~IsLink(p) => Followed(p) = disk.at[p]
          /\ IsDirectory(p) <=> Followed(p) # None /\ Followed(p).type = "directory"
          /\ disk.at[p] = None => Followed(p) = None
<1>1. disk.at[p] \in Things \cup {None}
    BY DEF Disks
<1>2. IsLink(p) => disk.at[p].data \in Targets
    BY <1>1, ThingFacts DEF IsLink
<1>3. \A t \in Targets : disk.outside[t] \in Things \cup {None}
    BY DEF Disks
<1> QED BY <1>1, <1>2, <1>3, TreeFacts DEF Followed, IsLink, IsDirectory

LEMMA DiskWith ==
    ASSUME NEW a \in [Paths -> Things \cup {None}], NEW b \in [Targets -> Things \cup {None}]
    PROVE /\ [at |-> a, outside |-> b] \in Disks
          /\ \A p \in Paths, o \in Things \cup {None} :
                [a EXCEPT ![p] = o] \in [Paths -> Things \cup {None}]
          /\ \A t \in Targets, o \in Things \cup {None} :
                [b EXCEPT ![t] = o] \in [Targets -> Things \cup {None}]
BY DEF Disks

(* Writing to what is found at a path. *)
LEMMA WriteEffect ==
    ASSUME disk \in Disks, NEW p \in Paths, NEW o \in Things, disk' = PutThrough(disk, p, o)
    PROVE /\ disk' \in Disks
          /\ \A x \in Paths : disk'.at[x] = IF x = p /\ ~IsLink(p) THEN o ELSE disk.at[x]
          /\ \A t \in Targets : disk'.outside[t] =
                IF IsLink(p) /\ t = disk.at[p].data THEN o ELSE disk.outside[t]
<1>1. disk = [at |-> disk.at, outside |-> disk.outside]
      /\ disk.at \in [Paths -> Things \cup {None}] /\ disk.outside \in [Targets -> Things \cup {None}]
    BY DEF Disks
<1>2. CASE IsLink(p)
    <2> DEFINE b == [disk.outside EXCEPT ![disk.at[p].data] = o]
    <2>1. disk' = [at |-> disk.at, outside |-> b]
        BY <1>1, <1>2 DEF PutThrough, IsLink
    <2>2. b \in [Targets -> Things \cup {None}]
        BY <1>1, <1>2, FollowedFacts, DiskWith
    <2>3. \A t \in Targets : b[t] = IF t = disk.at[p].data THEN o ELSE disk.outside[t]
        BY <1>1
    <2> HIDE DEF b
    <2>4. disk' \in Disks
        BY <1>1, <2>1, <2>2, DiskWith
    <2>5. disk'.at = disk.at /\ disk'.outside = b
        BY <2>1
    <2> QED BY <1>2, <2>3, <2>4, <2>5
<1>3. CASE ~IsLink(p)
    <2>1. disk' = [at |-> [disk.at EXCEPT ![p] = o], outside |-> disk.outside]
        BY <1>1, <1>3 DEF PutThrough, Put, IsLink
    <2> QED BY <1>1, <1>3, <2>1 DEF Disks
<1> QED BY <1>2, <1>3

(* The directory above a path gets a new timestamp. *)
AtAfter(q, x) == IF x = Parent[q] /\ ~IsLink(x) THEN Stamped(disk.at[x]) ELSE disk.at[x]
OutsideAfter(q, t) ==
    IF Parent[q] # Root /\ IsLink(Parent[q]) /\ t = disk.at[Parent[q]].data
    THEN Stamped(disk.outside[t]) ELSE disk.outside[t]

LEMMA TouchEffect ==
    ASSUME disk \in Disks, NEW q \in Paths, IsDirectory(Parent[q]),
           NEW d \in Disks, d.outside = disk.outside, Parent[q] # Root => d.at[Parent[q]] = disk.at[Parent[q]],
           disk' = Touched(d, q)
    PROVE /\ disk' \in Disks
          /\ \A x \in Paths : disk'.at[x] = IF x = Parent[q] THEN AtAfter(q, x) ELSE d.at[x]
          /\ \A t \in Targets : disk'.outside[t] = OutsideAfter(q, t)
<1>1. CASE Parent[q] = Root
    <2>1. disk' = d
        BY <1>1 DEF Touched
    <2>2. \A x \in Paths : x # Root
        BY TreeAssumption
    <2> QED BY <1>1, <2>1, <2>2 DEF OutsideAfter
<1>2. CASE Parent[q] # Root
    <2> DEFINE p == Parent[q]
               o == Stamped(Followed(p))
    <2>1. p \in Paths
        BY <1>2, TreeAssumption
    <2>2. Followed(p) \in Things /\ o \in Things
        BY <2>1, FollowedFacts, ThingFacts, FilesAssumption DEF Stamped
    <2>3. disk' = PutThrough(d, p, o)
        BY <1>2 DEF Touched, Stamped
    <2>4. d = [at |-> d.at, outside |-> d.outside]
          /\ d.at \in [Paths -> Things \cup {None}] /\ d.outside \in [Targets -> Things \cup {None}]
        BY DEF Disks
    <2>5. CASE IsLink(p)
        <3> DEFINE b == [d.outside EXCEPT ![disk.at[p].data] = o]
        <3>1. disk' = [at |-> d.at, outside |-> b]
            BY <1>2, <2>3, <2>4, <2>5 DEF PutThrough, IsLink
        <3>2. Followed(p) = disk.outside[disk.at[p].data]
            BY <2>1, <2>5, FollowedFacts
        <3>3. disk' \in Disks
            <4>1. b \in [Targets -> Things \cup {None}]
                BY <2>1, <2>2, <2>4, <2>5, FollowedFacts, DiskWith
            <4> HIDE DEF b
            <4> QED BY <2>4, <3>1, <4>1, DiskWith
        <3>4. \A t \in Targets : disk'.outside[t] = OutsideAfter(q, t)
            BY <1>2, <2>4, <2>5, <3>1, <3>2 DEF OutsideAfter
        <3>5. \A x \in Paths : disk'.at[x] = IF x = p THEN AtAfter(q, x) ELSE d.at[x]
            BY <1>2, <2>5, <3>1 DEF AtAfter
        <3> QED BY <3>3, <3>4, <3>5
    <2>6. CASE ~IsLink(p)
        <3> DEFINE a == [d.at EXCEPT ![p] = o]
        <3>1. disk' = [at |-> a, outside |-> d.outside]
            BY <1>2, <2>3, <2>4, <2>6 DEF PutThrough, Put, IsLink
        <3>2. Followed(p) = disk.at[p]
            BY <2>1, <2>6, FollowedFacts
        <3>3. disk' \in Disks
            <4>1. a \in [Paths -> Things \cup {None}]
                BY <2>1, <2>2, <2>4, DiskWith
            <4> HIDE DEF a
            <4> QED BY <2>4, <3>1, <4>1, DiskWith
        <3>4. \A t \in Targets : disk'.outside[t] = OutsideAfter(q, t)
            BY <1>2, <2>4, <2>6, <3>1, <3>2 DEF OutsideAfter
        <3>5. \A x \in Paths : disk'.at[x] = IF x = p THEN AtAfter(q, x) ELSE d.at[x]
            BY <2>4, <2>6, <3>1, <3>2 DEF AtAfter
        <3> QED BY <3>3, <3>4, <3>5
    <2> QED BY <2>5, <2>6
<1> QED BY <1>1, <1>2

(* A path is lost, with all that was below it. *)
Removed(q) ==
    /\ disk.at[q] # None /\ (disk.at[q].type = "directory" => Listed(q) = {})
    /\ \A x \in Paths : disk'.at[x] = IF q \in Ancestors[x] THEN None ELSE AtAfter(q, x)
    /\ \A t \in Targets : disk'.outside[t] = OutsideAfter(q, t)

LEMMA RemoveEffect ==
    ASSUME disk \in Disks, Closed, NEW q \in Paths, disk' \in RemoveEntry(q)
    PROVE disk' \in Disks /\ Removed(q)
<1> DEFINE a == [x \in Paths |-> IF q \in Ancestors[x] THEN None ELSE disk.at[x]]
           d == Without(disk, q)
<1>1. disk.at[q] # None /\ (disk.at[q].type = "directory" => Listed(q) = {}) /\ disk' = Touched(d, q)
    BY DEF RemoveEntry
<1>2. disk = [at |-> disk.at, outside |-> disk.outside]
      /\ disk.at \in [Paths -> Things \cup {None}] /\ disk.outside \in [Targets -> Things \cup {None}]
    BY DEF Disks
<1>3. d = [at |-> a, outside |-> disk.outside]
    BY <1>2 DEF Without
<1>4. a \in [Paths -> Things \cup {None}]
    BY <1>2
<1>5. \A x \in Paths : a[x] = IF q \in Ancestors[x] THEN None ELSE disk.at[x]
    OBVIOUS
<1> HIDE DEF a
<1>6. d \in Disks /\ d.outside = disk.outside /\ d.at = a
    BY <1>2, <1>3, <1>4, DiskWith
<1>7. Parent[q] # Root => d.at[Parent[q]] = disk.at[Parent[q]]
    BY <1>5, <1>6, TreeFacts
<1>8. IsDirectory(Parent[q])
    BY <1>1 DEF Closed
<1> HIDE DEF d
<1>9. /\ disk' \in Disks
      /\ \A x \in Paths : disk'.at[x] = IF x = Parent[q] THEN AtAfter(q, x) ELSE d.at[x]
      /\ \A t \in Targets : disk'.outside[t] = OutsideAfter(q, t)
    BY <1>1, <1>6, <1>7, <1>8, TouchEffect
<1>10. \A x \in Paths : disk'.at[x] = IF q \in Ancestors[x] THEN None ELSE AtAfter(q, x)
    <2> TAKE x \in Paths
    <2>1. CASE x = Parent[q]
        BY <1>9, <2>1, TreeFacts
    <2>2. CASE x # Parent[q]
        BY <1>5, <1>6, <1>9, <2>2 DEF AtAfter
    <2> QED BY <2>1, <2>2
<1> QED BY <1>1, <1>9, <1>10 DEF Removed

(* Something is made at a path. *)
Created(q, o) ==
    /\ disk.at[q] = None /\ IsDirectory(Parent[q])
    /\ \A x \in Paths : disk'.at[x] = IF x = q THEN o ELSE AtAfter(q, x)
    /\ \A t \in Targets : disk'.outside[t] = OutsideAfter(q, t)

LEMMA CreateEffect ==
    ASSUME disk \in Disks, NEW q \in Paths, NEW o \in Things, disk' \in Create(q, o)
    PROVE disk' \in Disks /\ Created(q, o)
<1> DEFINE a == [disk.at EXCEPT ![q] = o]
           d == Put(disk, q, o)
<1>1. disk.at[q] = None /\ IsDirectory(Parent[q]) /\ disk' = Touched(d, q)
    BY DEF Create
<1>2. disk = [at |-> disk.at, outside |-> disk.outside]
      /\ disk.at \in [Paths -> Things \cup {None}] /\ disk.outside \in [Targets -> Things \cup {None}]
    BY DEF Disks
<1>3. d = [at |-> a, outside |-> disk.outside]
    BY <1>2 DEF Put
<1>4. a \in [Paths -> Things \cup {None}]
    BY <1>2, DiskWith
<1>5. \A x \in Paths : a[x] = IF x = q THEN o ELSE disk.at[x]
    BY <1>2
<1> HIDE DEF a
<1>6. d \in Disks /\ d.outside = disk.outside /\ d.at = a
    BY <1>2, <1>3, <1>4, DiskWith
<1>7. Parent[q] # q
    BY TreeFacts
<1>8. Parent[q] # Root => d.at[Parent[q]] = disk.at[Parent[q]]
    BY <1>5, <1>6, <1>7, TreeFacts
<1> HIDE DEF d
<1>9. /\ disk' \in Disks
      /\ \A x \in Paths : disk'.at[x] = IF x = Parent[q] THEN AtAfter(q, x) ELSE d.at[x]
      /\ \A t \in Targets : disk'.outside[t] = OutsideAfter(q, t)
    BY <1>1, <1>6, <1>8, TouchEffect
<1>10. \A x \in Paths : disk'.at[x] = IF x = q THEN o ELSE AtAfter(q, x)
    BY <1>5, <1>6, <1>7, <1>9 DEF AtAfter
<1> QED BY <1>1, <1>9, <1>10 DEF Created

(* What is found at a path, or the link there, gets another value. *)
Wrote(p, o) ==
    /\ \A x \in Paths : disk'.at[x] = IF x = p /\ ~IsLink(p) THEN o ELSE disk.at[x]
    /\ \A t \in Targets : disk'.outside[t] =
            IF IsLink(p) /\ t = disk.at[p].data THEN o ELSE disk.outside[t]
WroteLink(p, o) ==
    /\ \A x \in Paths : disk'.at[x] = IF x = p THEN o ELSE disk.at[x]
    /\ \A t \in Targets : disk'.outside[t] = disk.outside[t]

(* What is kept when a directory gets a new timestamp. *)
LEMMA TouchKeeps ==
    ASSUME disk \in Disks, NEW q \in Paths, IsDirectory(Parent[q])
    PROVE /\ \A x \in Paths :
                /\ AtAfter(q, x) = None <=> disk.at[x] = None
                /\ AtAfter(q, x).type = disk.at[x].type /\ AtAfter(q, x).data = disk.at[x].data
                /\ AtAfter(q, x).attr = disk.at[x].attr
                /\ x # Parent[q] => AtAfter(q, x) = disk.at[x]
          /\ \A t \in Targets :
                /\ OutsideAfter(q, t) = None <=> disk.outside[t] = None
                /\ OutsideAfter(q, t).type = disk.outside[t].type
                /\ OutsideAfter(q, t).data = disk.outside[t].data
                /\ OutsideAfter(q, t).attr = disk.outside[t].attr
<1>1. \A o \in Things : /\ Stamped(o) # None /\ Stamped(o).type = o.type
                        /\ Stamped(o).data = o.data /\ Stamped(o).attr = o.attr
    <2> TAKE o \in Things
    <2>1. Stamped(o) \in Things
        BY ThingFacts, FilesAssumption DEF Stamped
    <2>2. o = [type |-> o.type, data |-> o.data, attr |-> o.attr, time |-> o.time]
        BY ThingFacts
    <2>3. Stamped(o) = [type |-> o.type, data |-> o.data, attr |-> o.attr, time |-> Now]
        BY <2>2 DEF Stamped
    <2> QED BY <2>1, <2>3, ThingFacts
<1>2. Parent[q] # Root => /\ Parent[q] \in Paths /\ Followed(Parent[q]) \in Things
    BY FollowedFacts, TreeFacts
<1>3. ASSUME NEW x \in Paths, x = Parent[q], ~IsLink(x) PROVE disk.at[x] \in Things
    BY <1>2, <1>3, FollowedFacts, TreeFacts
<1>4. ASSUME NEW t \in Targets, Parent[q] # Root, IsLink(Parent[q]), t = disk.at[Parent[q]].data
      PROVE disk.outside[t] \in Things
    BY <1>2, <1>4, FollowedFacts
<1>5. \A o \in Things : o # None
    BY ThingFacts
<1>6. ASSUME NEW x \in Paths
      PROVE /\ AtAfter(q, x) = None <=> disk.at[x] = None
            /\ AtAfter(q, x).type = disk.at[x].type /\ AtAfter(q, x).data = disk.at[x].data
            /\ AtAfter(q, x).attr = disk.at[x].attr
            /\ x # Parent[q] => AtAfter(q, x) = disk.at[x]
    BY <1>1, <1>3, <1>5 DEF AtAfter
<1>7. ASSUME NEW t \in Targets
      PROVE /\ OutsideAfter(q, t) = None <=> disk.outside[t] = None
            /\ OutsideAfter(q, t).type = disk.outside[t].type
            /\ OutsideAfter(q, t).data = disk.outside[t].data
            /\ OutsideAfter(q, t).attr = disk.outside[t].attr
    BY <1>1, <1>4, <1>5 DEF OutsideAfter
<1> QED BY <1>6, <1>7

-----------------------------------------------------------------------------
(* The system calls of a restore, one after the other.                      *)
LEMMA WantedFacts ==
    ASSUME RepositoryInv, request \in Requests, NEW p \in Reached(request)
    PROVE /\ p \in Paths /\ request.path \in Paths \cup {Root}
          /\ Wanted(p) \in Things /\ Wanted(p) # NonExisting
          /\ Wanted(p).type \in {"regular_file", "symlink", "directory"}
          /\ Wanted(p).type = "regular_file" => Wanted(p).data \in Contents
          /\ Parent[p] # Root => Parent[p] \in Reached(request) /\ Wanted(Parent[p]).type = "directory"
<1>1. request.path \in Paths \cup {Root}
    BY DEF Requests
<1>2. p \in Paths /\ ExistsAt(p, request.id)
      /\ (Parent[p] # Root => Parent[p] \in Reached(request) /\ DirectoryAt(Parent[p], request.id))
    BY <1>1, ReachedFacts
<1>3. Wanted(p) \in States /\ Wanted(p) # NonExisting
    BY <1>2, WantedIsSaved DEF ExistsAt, Wanted
<1> QED BY <1>1, <1>2, <1>3, StateFacts DEF DirectoryAt, Wanted

Calling(p) ==
    /\ disk \in Disks /\ Closed /\ RepositoryInv /\ request \in Requests
    /\ p \in Paths /\ step[p] \in Calls /\ CallFacts(p, step[p])
    /\ disk' \in Results(p)

Fresh(p) == [Wanted(p) EXCEPT !.attr = None, !.time = Now]

LEMMA FreshFacts ==
    ASSUME NEW p, Wanted(p) \in Things
    PROVE /\ Fresh(p) \in Things /\ Fresh(p).type = Wanted(p).type /\ Fresh(p).data = Wanted(p).data
<1> DEFINE w == Wanted(p)
<1>1. w = [type |-> w.type, data |-> w.data, attr |-> w.attr, time |-> w.time]
    BY ThingFacts
<1>2. [w EXCEPT !.attr = None] \in Things
    BY ThingFacts, FilesAssumption
<1>3. [[w EXCEPT !.attr = None] EXCEPT !.time = Now] \in Things
    BY <1>2, ThingFacts, FilesAssumption
<1>4. Fresh(p) = [[w EXCEPT !.attr = None] EXCEPT !.time = Now]
    BY DEF Fresh
<1> HIDE DEF w
<1>5. [[w EXCEPT !.attr = None] EXCEPT !.time = Now].type = w.type
      /\ [[w EXCEPT !.attr = None] EXCEPT !.time = Now].data = w.data
    BY <1>1
<1> QED BY <1>3, <1>4, <1>5 DEF w

LEMMA RemoveResult ==
    ASSUME NEW p, Calling(p), step[p] = "remove"
    PROVE disk' \in Disks /\ Removed(p)
<1>1. disk' \in RemoveEntry(p)
    BY DEF Calling, Results
<1> QED BY <1>1, RemoveEffect DEF Calling

LEMMA TreeResult ==
    ASSUME NEW p, Calling(p), step[p] = "remove_tree"
    PROVE /\ disk' \in Disks
          /\ \E q \in Paths :
                /\ q = p \/ p \in Above(q)
                /\ Removed(q)
                /\ \A a \in Ancestors[q] \ Above(p) : a = q \/ (disk.at[a] # None /\ disk.at[a].type = "directory")
<1>1. disk' \in RemoveLeaf(p)
    BY DEF Calling, Results
<1>2. PICK q \in {p} \cup Below(p) :
        /\ disk' \in RemoveEntry(q)
        /\ \A a \in Ancestors[q] \ Above(p) : a = q \/ (disk.at[a] # None /\ disk.at[a].type = "directory")
    BY <1>1 DEF RemoveLeaf
<1>3. q \in Paths /\ (q = p \/ p \in Above(q))
    BY <1>2 DEF Calling, Below
<1>4. disk' \in Disks /\ Removed(q)
    BY <1>2, <1>3, RemoveEffect DEF Calling
<1> QED BY <1>2, <1>3, <1>4

LEMMA MakeResult ==
    ASSUME NEW p, Calling(p), step[p] \in {"mkdir", "symlink"}
    PROVE disk' \in Disks /\ Created(p, Fresh(p))
<1>1. disk' \in Create(p, Fresh(p))
    BY DEF Calling, Results, Fresh
<1>2. Fresh(p) \in Things
    BY WantedFacts, FreshFacts DEF Calling, CallFacts
<1> QED BY <1>1, <1>2, CreateEffect DEF Calling

LEMMA EmptyFileFacts ==
    EmptyFile \in Things /\ EmptyFile.type = "regular_file" /\ EmptyFile.data = Torn
BY FilesAssumption DEF EmptyFile, Things, Known

LEMMA OpenResult ==
    ASSUME NEW p, Calling(p), step[p] = "open"
    PROVE /\ disk' \in Disks
          /\ \/ Created(p, EmptyFile)
             \/ disk.at[p] # None /\ Followed(p) = None /\ Wrote(p, EmptyFile)
             \/ /\ Followed(p) \in Things /\ Followed(p).type = "regular_file"
                /\ Wrote(p, [Followed(p) EXCEPT !.data = Torn, !.time = Now])
                /\ [Followed(p) EXCEPT !.data = Torn, !.time = Now] \in Things
<1>1. disk' \in Open(p)
    BY DEF Calling, Results
<1>2. CASE disk.at[p] = None
    <2>1. disk' \in Create(p, EmptyFile)
        BY <1>1, <1>2 DEF Open
    <2> QED BY <2>1, CreateEffect, EmptyFileFacts DEF Calling
<1>3. CASE disk.at[p] # None /\ Followed(p) = None
    <2>1. disk' = PutThrough(disk, p, EmptyFile)
        BY <1>1, <1>3 DEF Open
    <2> QED BY <1>3, <2>1, WriteEffect, EmptyFileFacts DEF Calling, Wrote
<1>4. CASE disk.at[p] # None /\ Followed(p) # None
    <2> DEFINE o == [Followed(p) EXCEPT !.data = Torn, !.time = Now]
    <2>1. Followed(p).type = "regular_file" /\ disk' = PutThrough(disk, p, o)
        BY <1>1, <1>4 DEF Open
    <2>2. Followed(p) \in Things
        BY <1>4, FollowedFacts DEF Calling
    <2>3. o \in Things
        <3>1. [Followed(p) EXCEPT !.data = Torn] \in Things
            BY <2>1, <2>2, ThingFacts
        <3>2. [[Followed(p) EXCEPT !.data = Torn] EXCEPT !.time = Now] \in Things
            BY <3>1, ThingFacts, FilesAssumption
        <3>3. o = [[Followed(p) EXCEPT !.data = Torn] EXCEPT !.time = Now]
            OBVIOUS
        <3> QED BY <3>2, <3>3
    <2> QED BY <2>1, <2>2, <2>3, WriteEffect DEF Calling, Wrote
<1> QED BY <1>2, <1>3, <1>4

(* The bytes that a stored file may give. *)
Given(c) == IF c \in Small \/ stored[c] = "whole" THEN {c}
            ELSE IF stored[c] = "wrong" THEN {b \in Contents \ {c} : Size[b] = Size[c]} ELSE {}

LEMMA FillResult ==
    ASSUME NEW p, Calling(p), step[p] = "fill"
    PROVE /\ disk' \in Disks
          /\ \/ disk' = disk /\ (Followed(p) = None \/ Followed(p).data # Torn)
             \/ /\ Followed(p) \in Things /\ Followed(p).type = "regular_file" /\ Followed(p).data = Torn
                /\ \E b \in Given(Wanted(p).data) :
                        /\ Wrote(p, [Followed(p) EXCEPT !.data = b])
                        /\ [Followed(p) EXCEPT !.data = b] \in Things /\ b \in Contents
<1> DEFINE written == Given(Wanted(p).data)
<1>1. disk' \in Fill(p)
    BY DEF Calling, Results
<1>2. Fill(p) = IF Followed(p) = None \/ Followed(p).data # Torn
                THEN (IF written = {} THEN {} ELSE {disk})
                ELSE {PutThrough(disk, p, [Followed(p) EXCEPT !.data = b]) : b \in written}
    BY DEF Fill, Given
<1>3. disk \in Disks /\ Wanted(p).data \in Contents
    BY WantedFacts DEF Calling, CallFacts
<1>4. written \subseteq Contents
    BY <1>3 DEF Given
<1> HIDE DEF written
<1>5. CASE Followed(p) = None \/ Followed(p).data # Torn
    BY <1>1, <1>2, <1>3, <1>5
<1>6. CASE Followed(p) # None /\ Followed(p).data = Torn
    <2>1. Followed(p) \in Things
        BY <1>3, <1>6, FollowedFacts DEF Calling
    <2>2. Followed(p).type = "regular_file"
        <3>1. Torn \notin Targets \cup {None}
            BY FilesAssumption
        <3>2. Followed(p) \in Known(Contents \cup {Torn}) \cup [type: {"other"}, data: {None}, attr: Attrs, time: Times]
            BY <2>1 DEF Things
        <3> QED BY <1>6, <3>1, <3>2 DEF Known
    <2>3. PICK b \in written : disk' = PutThrough(disk, p, [Followed(p) EXCEPT !.data = b])
        BY <1>1, <1>2, <1>6
    <2>4. [Followed(p) EXCEPT !.data = b] \in Things
        BY <1>4, <2>1, <2>2, <2>3, ThingFacts
    <2>5. disk' \in Disks /\ Wrote(p, [Followed(p) EXCEPT !.data = b])
        BY <1>3, <2>3, <2>4, WriteEffect DEF Calling, Wrote
    <2> QED BY <1>4, <1>6, <2>1, <2>2, <2>3, <2>4, <2>5 DEF written
<1> QED BY <1>5, <1>6

LEMMA LinkAttrResult ==
    ASSUME NEW p, Calling(p), step[p] \in {"change_attr", "attr"}, Wanted(p).type = "symlink"
    PROVE /\ disk' \in Disks
          /\ disk.at[p] \in Things /\ [disk.at[p] EXCEPT !.attr = Wanted(p).attr] \in Things
          /\ WroteLink(p, [disk.at[p] EXCEPT !.attr = Wanted(p).attr])
<1> DEFINE o == [disk.at[p] EXCEPT !.attr = Wanted(p).attr]
           a == [disk.at EXCEPT ![p] = o]
<1>1. disk.at[p] # None /\ disk' = Put(disk, p, o)
    BY DEF Calling, Results
<1>2. disk = [at |-> disk.at, outside |-> disk.outside] /\ p \in Paths
      /\ disk.at \in [Paths -> Things \cup {None}] /\ disk.outside \in [Targets -> Things \cup {None}]
    BY DEF Disks, Calling
<1>3. disk.at[p] \in Things /\ o \in Things
    <2>1. disk.at[p] \in Things
        BY <1>1, <1>2
    <2>2. Wanted(p).attr \in Attrs
        BY WantedFacts, ThingFacts DEF Calling, CallFacts
    <2> QED BY <2>1, <2>2, ThingFacts
<1>4. disk' = [at |-> a, outside |-> disk.outside]
    BY <1>1, <1>2 DEF Put
<1>5. a \in [Paths -> Things \cup {None}]
    BY <1>2, <1>3, DiskWith
<1>6. \A x \in Paths : a[x] = IF x = p THEN o ELSE disk.at[x]
    BY <1>2
<1> HIDE DEF a
<1>7. disk' \in Disks
    BY <1>2, <1>4, <1>5, DiskWith
<1> QED BY <1>1, <1>3, <1>4, <1>6, <1>7 DEF WroteLink

LEMMA AttrResult ==
    ASSUME NEW p, Calling(p), step[p] \in {"change_attr", "attr"}, Wanted(p).type # "symlink"
    PROVE /\ disk' \in Disks
          /\ Followed(p) \in Things /\ [Followed(p) EXCEPT !.attr = Wanted(p).attr] \in Things
          /\ Wrote(p, [Followed(p) EXCEPT !.attr = Wanted(p).attr])
<1> DEFINE o == [Followed(p) EXCEPT !.attr = Wanted(p).attr]
<1>1. Followed(p) # None /\ disk' = PutThrough(disk, p, o)
    BY DEF Calling, Results
<1>2. Followed(p) \in Things
    BY <1>1, FollowedFacts DEF Calling
<1>3. Wanted(p).attr \in Attrs
    BY WantedFacts, ThingFacts DEF Calling, CallFacts
<1>4. o \in Things
    BY <1>2, <1>3, ThingFacts
<1> QED BY <1>1, <1>2, <1>4, WriteEffect DEF Calling, Wrote

LEMMA TimeResult ==
    ASSUME NEW p, Calling(p), step[p] \in {"time", "time_again"}
    PROVE /\ disk' \in Disks
          /\ Followed(p) \in Things /\ [Followed(p) EXCEPT !.time = Wanted(p).time] \in Things
          /\ Wrote(p, [Followed(p) EXCEPT !.time = Wanted(p).time])
<1> DEFINE o == [Followed(p) EXCEPT !.time = Wanted(p).time]
<1>1. Followed(p) # None /\ disk' = PutThrough(disk, p, o)
    BY DEF Calling, Results
<1>2. Followed(p) \in Things
    BY <1>1, FollowedFacts DEF Calling
<1>3. Wanted(p).time \in Times
    BY WantedFacts, ThingFacts DEF Calling, CallFacts
<1>4. o \in Things
    BY <1>2, <1>3, ThingFacts
<1> QED BY <1>1, <1>2, <1>4, WriteEffect DEF Calling, Wrote

-----------------------------------------------------------------------------
(* What a system call leaves alone.                                         *)
Mates(x, y) == y # Root /\ IsLink(x) /\ IsLink(y) /\ disk.at[x].data = disk.at[y].data

(* Of a path nothing changes but a timestamp; nothing changes at all. *)
Intact(x) ==
    /\ IsLink(x)' <=> IsLink(x)
    /\ disk'.at[x] = None <=> disk.at[x] = None
    /\ disk'.at[x].type = disk.at[x].type /\ disk'.at[x].data = disk.at[x].data
    /\ disk'.at[x].attr = disk.at[x].attr
    /\ Followed(x)' = None <=> Followed(x) = None
    /\ Followed(x)'.type = Followed(x).type /\ Followed(x)'.data = Followed(x).data
    /\ Followed(x)'.attr = Followed(x).attr
    /\ IsDirectory(x)' <=> IsDirectory(x)
Same(x) == disk'.at[x] = disk.at[x] /\ Followed(x)' = Followed(x)

LEMMA SameIsIntact == \A x : Same(x) => Intact(x)
BY DEF Same, Intact, IsLink, IsDirectory

LEMMA TouchFrame ==
    ASSUME disk \in Disks, NEW q \in Paths, IsDirectory(Parent[q]),
           \A t \in Targets : disk'.outside[t] = OutsideAfter(q, t),
           NEW x \in Paths, disk'.at[x] = AtAfter(q, x)
    PROVE /\ Intact(x)
          /\ x # Parent[q] /\ ~Mates(x, Parent[q]) => Same(x)
<1>1. /\ disk'.at[x] = None <=> disk.at[x] = None
      /\ disk'.at[x].type = disk.at[x].type /\ disk'.at[x].data = disk.at[x].data
      /\ disk'.at[x].attr = disk.at[x].attr
      /\ x # Parent[q] => disk'.at[x] = disk.at[x]
    BY TouchKeeps
<1>2. \A t \in Targets :
        /\ disk'.outside[t] = None <=> disk.outside[t] = None
        /\ disk'.outside[t].type = disk.outside[t].type
        /\ disk'.outside[t].data = disk.outside[t].data
        /\ disk'.outside[t].attr = disk.outside[t].attr
    BY TouchKeeps
<1>3. IsLink(x)' <=> IsLink(x)
    BY <1>1 DEF IsLink
<1>4. Followed(x)' = IF IsLink(x) THEN disk'.outside[disk.at[x].data] ELSE disk'.at[x]
    BY <1>1 DEF Followed, IsLink
<1>5. IsLink(x) => disk.at[x].data \in Targets /\ Followed(x) = disk.outside[disk.at[x].data]
    BY FollowedFacts
<1>6. ~IsLink(x) => Followed(x) = disk.at[x]
    BY FollowedFacts
<1>7. /\ Followed(x)' = None <=> Followed(x) = None
      /\ Followed(x)'.type = Followed(x).type /\ Followed(x)'.data = Followed(x).data
      /\ Followed(x)'.attr = Followed(x).attr
    BY <1>1, <1>2, <1>4, <1>5, <1>6
<1>8. IsDirectory(x)' <=> IsDirectory(x)
    BY <1>7 DEF IsDirectory
<1>9. Intact(x)
    BY <1>1, <1>3, <1>7, <1>8 DEF Intact
<1>10. ASSUME x # Parent[q], ~Mates(x, Parent[q]) PROVE Same(x)
    <2>1. IsLink(x) => disk'.outside[disk.at[x].data] = disk.outside[disk.at[x].data]
        BY <1>5, <1>10 DEF OutsideAfter, Mates
    <2> QED BY <1>1, <1>4, <1>5, <1>6, <1>10, <2>1 DEF Same
<1> QED BY <1>9, <1>10

LEMMA WriteFrame ==
    ASSUME disk \in Disks, NEW q \in Paths, NEW o, Wrote(q, o), NEW x \in Paths
    PROVE /\ x # q /\ ~Mates(x, q) => Same(x)
          /\ x # q \/ IsLink(q) => disk'.at[x] = disk.at[x] /\ (IsLink(x)' <=> IsLink(x))
          /\ x = q \/ Mates(x, q) => (IsLink(q) \/ o.type # "symlink" => Followed(x)' = o)
<1>1. disk'.at[x] = IF x = q /\ ~IsLink(q) THEN o ELSE disk.at[x]
    BY DEF Wrote
<1>2. \A t \in Targets : disk'.outside[t] = IF IsLink(q) /\ t = disk.at[q].data THEN o ELSE disk.outside[t]
    BY DEF Wrote
<1>3. Followed(x)' = IF disk'.at[x] # None /\ disk'.at[x].type = "symlink"
                     THEN disk'.outside[disk'.at[x].data] ELSE disk'.at[x]
    BY DEF Followed
<1>4. IsLink(x) => disk.at[x].data \in Targets /\ Followed(x) = disk.outside[disk.at[x].data]
    BY FollowedFacts
<1>5. ~IsLink(x) => Followed(x) = disk.at[x]
    BY FollowedFacts
<1>6. ASSUME x # q, ~Mates(x, q) PROVE Same(x)
    <2>1. disk'.at[x] = disk.at[x]
        BY <1>1, <1>6
    <2>2. IsLink(x) => disk'.outside[disk.at[x].data] = disk.outside[disk.at[x].data]
        BY <1>2, <1>4, <1>6, TreeFacts DEF Mates
    <2> QED BY <1>3, <1>4, <1>5, <2>1, <2>2 DEF Same, IsLink
<1>7. ASSUME x # q \/ IsLink(q) PROVE disk'.at[x] = disk.at[x] /\ (IsLink(x)' <=> IsLink(x))
    BY <1>1, <1>7 DEF IsLink
<1>8. ASSUME x = q \/ Mates(x, q), IsLink(q) \/ o.type # "symlink" PROVE Followed(x)' = o
    <2>1. CASE IsLink(q)
        <3>1. IsLink(x) /\ disk.at[x].data = disk.at[q].data
            BY <1>8, <2>1 DEF Mates
        <3>2. disk'.at[x] = disk.at[x] /\ disk'.outside[disk.at[x].data] = o
            BY <1>1, <1>2, <1>4, <2>1, <3>1
        <3> QED BY <1>3, <3>1, <3>2 DEF IsLink
    <2>2. CASE ~IsLink(q)
        <3>1. x = q /\ disk'.at[x] = o
            BY <1>1, <1>8, <2>2 DEF Mates
        <3> QED BY <1>3, <1>8, <2>2, <3>1
    <2> QED BY <2>1, <2>2
<1> QED BY <1>6, <1>7, <1>8

LEMMA WriteLinkFrame ==
    ASSUME disk \in Disks, NEW q \in Paths, NEW o, WroteLink(q, o), NEW x \in Paths, x # q
    PROVE Same(x)
<1>1. disk'.at[x] = disk.at[x]
    BY DEF WroteLink
<1>2. IsLink(x) => disk.at[x].data \in Targets
    BY FollowedFacts
<1>3. IsLink(x) => disk'.outside[disk.at[x].data] = disk.outside[disk.at[x].data]
    BY <1>2 DEF WroteLink
<1> QED BY <1>1, <1>3 DEF Same, Followed, IsLink

(* What is found at a path keeps a directory above it. *)
LEMMA RemovedClosed ==
    ASSUME disk \in Disks, Closed, NEW q \in Paths, Removed(q) PROVE Closed'
<1>1. IsDirectory(Parent[q])
    BY DEF Removed, Closed
<1> SUFFICES ASSUME NEW x \in Paths, disk'.at[x] # None PROVE IsDirectory(Parent[x])'
    BY DEF Closed
<1>2. q \notin Ancestors[x] /\ disk'.at[x] = AtAfter(q, x)
    BY DEF Removed
<1>3. disk.at[x] # None
    BY <1>1, <1>2, TouchKeeps
<1>4. IsDirectory(Parent[x])
    BY <1>3 DEF Closed
<1>5. CASE Parent[x] = Root
    BY <1>5 DEF IsDirectory
<1>6. CASE Parent[x] # Root
    <2>1. Parent[x] \in Paths /\ q \notin Ancestors[Parent[x]]
        BY <1>2, <1>6, AncestorsFacts, TreeFacts
    <2>2. disk'.at[Parent[x]] = AtAfter(q, Parent[x])
        BY <2>1 DEF Removed
    <2>3. Intact(Parent[x])
        BY <1>1, <2>1, <2>2, TouchFrame DEF Removed
    <2> QED BY <1>4, <2>3 DEF Intact
<1> QED BY <1>5, <1>6

LEMMA CreatedClosed ==
    ASSUME disk \in Disks, Closed, NEW q \in Paths, NEW o, Created(q, o) PROVE Closed'
<1>1. disk.at[q] = None /\ IsDirectory(Parent[q])
    BY DEF Created
<1> SUFFICES ASSUME NEW x \in Paths, disk'.at[x] # None PROVE IsDirectory(Parent[x])'
    BY DEF Closed
<1>2. IsDirectory(Parent[x])
    <2>1. CASE x = q
        BY <1>1, <2>1
    <2>2. CASE x # q
        <3>1. disk'.at[x] = AtAfter(q, x)
            BY <2>2 DEF Created
        <3>2. disk.at[x] # None
            BY <1>1, <3>1, TouchKeeps
        <3> QED BY <3>2 DEF Closed
    <2> QED BY <2>1, <2>2
<1>3. CASE Parent[x] = Root
    BY <1>3 DEF IsDirectory
<1>4. CASE Parent[x] # Root
    <2>1. Parent[x] \in Paths
        BY <1>4, TreeFacts
    <2>2. Parent[x] # q
        BY <1>1, <1>2, <2>1, FollowedFacts
    <2>3. disk'.at[Parent[x]] = AtAfter(q, Parent[x])
        BY <2>1, <2>2 DEF Created
    <2>4. Intact(Parent[x])
        BY <1>1, <2>1, <2>3, TouchFrame DEF Created
    <2> QED BY <1>2, <2>4 DEF Intact
<1> QED BY <1>3, <1>4

LEMMA WroteClosed ==
    ASSUME disk \in Disks, Closed, NEW q \in Paths, NEW o \in Things, disk.at[q] # None,
           Wrote(q, o), IsLink(q) \/ o.type # "symlink", IsDirectory(q) => o.type = "directory"
    PROVE Closed'
<1> SUFFICES ASSUME NEW x \in Paths, disk'.at[x] # None PROVE IsDirectory(Parent[x])'
    BY DEF Closed
<1>1. disk.at[x] # None
    BY DEF Wrote
<1>2. IsDirectory(Parent[x])
    BY <1>1 DEF Closed
<1>3. CASE Parent[x] = Root
    BY <1>3 DEF IsDirectory
<1>4. CASE Parent[x] # Root
    <2>1. Parent[x] \in Paths
        BY <1>4, TreeFacts
    <2>2. CASE Parent[x] = q \/ Mates(Parent[x], q)
        <3>1. Followed(Parent[x])' = o
            BY <2>1, <2>2, WriteFrame
        <3>2. IsDirectory(q)
            <4>1. Mates(Parent[x], q) => Followed(Parent[x]) = Followed(q)
                BY <2>1, FollowedFacts DEF Mates
            <4> QED BY <1>2, <2>1, <2>2, <4>1, FollowedFacts
        <3> QED BY <1>4, <3>1, <3>2, ThingFacts DEF IsDirectory
    <2>3. CASE ~(Parent[x] = q \/ Mates(Parent[x], q))
        <3>1. Same(Parent[x])
            BY <2>1, <2>3, WriteFrame
        <3> QED BY <1>2, <3>1 DEF Same, IsDirectory
    <2> QED BY <2>2, <2>3
<1> QED BY <1>3, <1>4

LEMMA WroteLinkClosed ==
    ASSUME disk \in Disks, Closed, NEW q \in Paths, NEW o \in Things, disk.at[q] # None,
           WroteLink(q, o), o.type = disk.at[q].type, o.data = disk.at[q].data
    PROVE Closed'
<1> SUFFICES ASSUME NEW x \in Paths, disk'.at[x] # None PROVE IsDirectory(Parent[x])'
    BY DEF Closed
<1>1. disk.at[x] # None
    BY DEF WroteLink
<1>2. IsDirectory(Parent[x])
    BY <1>1 DEF Closed
<1>3. CASE Parent[x] = Root
    BY <1>3 DEF IsDirectory
<1>4. CASE Parent[x] # Root
    <2>1. Parent[x] \in Paths
        BY <1>4, TreeFacts
    <2>2. CASE Parent[x] = q
        <3>1. disk'.at[q] = o
            BY DEF WroteLink
        <3>2. Followed(q)' = IF o.type = "symlink" THEN disk'.outside[o.data] ELSE o
            BY <3>1, ThingFacts DEF Followed
        <3>3. IsLink(q) => /\ disk.at[q].data \in Targets
                           /\ disk'.outside[disk.at[q].data] = Followed(q)
            BY FollowedFacts DEF WroteLink
        <3>4. CASE IsLink(q)
            <4>1. Followed(q)' = Followed(q)
                BY <3>2, <3>3, <3>4 DEF IsLink
            <4> QED BY <1>2, <2>2, <4>1 DEF IsDirectory
        <3>5. CASE ~IsLink(q)
            <4>1. Followed(q)' = o /\ Followed(q) = disk.at[q]
                BY <3>2, <3>5, FollowedFacts DEF IsLink
            <4> QED BY <1>2, <1>4, <2>2, <4>1, ThingFacts DEF IsDirectory
        <3> QED BY <3>4, <3>5
    <2>3. CASE Parent[x] # q
        <3>1. Same(Parent[x])
            BY <2>1, <2>3, WriteLinkFrame
        <3> QED BY <1>2, <3>1 DEF Same, IsDirectory
    <2> QED BY <2>2, <2>3
<1> QED BY <1>3, <1>4

(* A changed thing is of the type it was. *)
LEMMA ChangedThing ==
    ASSUME NEW o \in Things
    PROVE /\ \A v : [o EXCEPT !.attr = v].type = o.type /\ [o EXCEPT !.attr = v].data = o.data
                    /\ [o EXCEPT !.attr = v].attr = v /\ [o EXCEPT !.attr = v].time = o.time
          /\ \A v : [o EXCEPT !.time = v].type = o.type /\ [o EXCEPT !.time = v].data = o.data
                    /\ [o EXCEPT !.time = v].time = v /\ [o EXCEPT !.time = v].attr = o.attr
          /\ \A v : [o EXCEPT !.data = v].type = o.type /\ [o EXCEPT !.data = v].data = v
                    /\ [o EXCEPT !.data = v].attr = o.attr /\ [o EXCEPT !.data = v].time = o.time
          /\ \A v : [o EXCEPT !.data = v, !.time = Now].type = o.type
                    /\ [o EXCEPT !.data = v, !.time = Now].data = v
                    /\ [o EXCEPT !.data = v, !.time = Now].attr = o.attr
<1>1. o = [type |-> o.type, data |-> o.data, attr |-> o.attr, time |-> o.time]
    BY ThingFacts
<1> DEFINE r == [type |-> o.type, data |-> o.data, attr |-> o.attr, time |-> o.time]
<1>2. /\ \A v : [r EXCEPT !.attr = v].type = r.type /\ [r EXCEPT !.attr = v].data = r.data
                /\ [r EXCEPT !.attr = v].attr = v /\ [r EXCEPT !.attr = v].time = r.time
      /\ \A v : [r EXCEPT !.time = v].type = r.type /\ [r EXCEPT !.time = v].data = r.data
                /\ [r EXCEPT !.time = v].time = v /\ [r EXCEPT !.time = v].attr = r.attr
      /\ \A v : [r EXCEPT !.data = v].type = r.type /\ [r EXCEPT !.data = v].data = v
                /\ [r EXCEPT !.data = v].attr = r.attr /\ [r EXCEPT !.data = v].time = r.time
      /\ \A v : [r EXCEPT !.data = v, !.time = Now].type = r.type
                /\ [r EXCEPT !.data = v, !.time = Now].data = v
                /\ [r EXCEPT !.data = v, !.time = Now].attr = r.attr
    OBVIOUS
<1> HIDE DEF r
<1>3. o = r
    BY <1>1 DEF r
<1> QED BY <1>2, <1>3

LEMMA CallClosed ==
    ASSUME NEW q, Calling(q) PROVE disk' \in Disks /\ Closed'
<1> USE DEF Calling
<1>1. CASE step[q] = "remove"
    BY <1>1, RemoveResult, RemovedClosed
<1>2. CASE step[q] = "remove_tree"
    BY <1>2, TreeResult, RemovedClosed
<1>3. CASE step[q] \in {"mkdir", "symlink"}
    BY <1>3, MakeResult, CreatedClosed
<1>4. CASE step[q] = "open"
    <2>1. CASE Created(q, EmptyFile)
        BY <1>4, <2>1, OpenResult, CreatedClosed
    <2>2. CASE disk.at[q] # None /\ Followed(q) = None /\ Wrote(q, EmptyFile)
        <3>1. ~IsDirectory(q) /\ EmptyFile.type # "symlink"
            BY <2>2, FollowedFacts, EmptyFileFacts
        <3> QED BY <1>4, <2>2, <3>1, OpenResult, WroteClosed, EmptyFileFacts
    <2>3. CASE /\ Followed(q) \in Things /\ Followed(q).type = "regular_file"
               /\ Wrote(q, [Followed(q) EXCEPT !.data = Torn, !.time = Now])
               /\ [Followed(q) EXCEPT !.data = Torn, !.time = Now] \in Things
        <3> DEFINE o == [Followed(q) EXCEPT !.data = Torn, !.time = Now]
        <3>1. o.type = "regular_file"
            BY <2>3, ChangedThing
        <3>2. disk.at[q] # None /\ ~IsDirectory(q)
            BY <2>3, FollowedFacts, ThingFacts
        <3> HIDE DEF o
        <3>3. o \in Things /\ Wrote(q, o)
            BY <2>3 DEF o
        <3>4. Closed'
            BY <3>1, <3>2, <3>3, WroteClosed
        <3> QED BY <1>4, <3>4, OpenResult
    <2> QED BY <1>4, <2>1, <2>2, <2>3, OpenResult
<1>5. ASSUME NEW o \in Things, Followed(q) \in Things, Wrote(q, o), o.type = Followed(q).type
      PROVE Closed'
    <2>1. disk.at[q] # None
        BY <1>5, FollowedFacts, ThingFacts
    <2>2. IsLink(q) \/ o.type # "symlink"
        BY <1>5, <2>1, FollowedFacts DEF IsLink
    <2>3. IsDirectory(q) => o.type = "directory"
        BY <1>5, FollowedFacts
    <2> QED BY <1>5, <2>1, <2>2, <2>3, WroteClosed
<1>6. CASE step[q] = "fill"
    <2>1. CASE disk' = disk
        BY <2>1 DEF Closed, IsDirectory, Followed
    <2>2. CASE disk' # disk
        <3>1. PICK b : /\ Followed(q) \in Things
                       /\ Wrote(q, [Followed(q) EXCEPT !.data = b])
                       /\ [Followed(q) EXCEPT !.data = b] \in Things
            BY <1>6, <2>2, FillResult
        <3>2. [Followed(q) EXCEPT !.data = b].type = Followed(q).type
            BY <3>1, ChangedThing
        <3>3. Closed'
            BY <1>5, <3>1, <3>2
        <3> QED BY <1>6, <3>3, FillResult
    <2> QED BY <2>1, <2>2
<1>7. CASE step[q] \in {"change_attr", "attr"} /\ Wanted(q).type = "symlink"
    <2> DEFINE o == [disk.at[q] EXCEPT !.attr = Wanted(q).attr]
    <2>1. o \in Things /\ disk.at[q] \in Things /\ WroteLink(q, o) /\ disk' \in Disks
        BY <1>7, LinkAttrResult
    <2>2. o.type = disk.at[q].type /\ o.data = disk.at[q].data
        BY <2>1, ChangedThing
    <2> HIDE DEF o
    <2> QED BY <2>1, <2>2, WroteLinkClosed, ThingFacts
<1>8. CASE step[q] \in {"change_attr", "attr"} /\ Wanted(q).type # "symlink"
    <2> DEFINE o == [Followed(q) EXCEPT !.attr = Wanted(q).attr]
    <2>1. o \in Things /\ Followed(q) \in Things /\ Wrote(q, o) /\ disk' \in Disks
        BY <1>8, AttrResult
    <2>2. o.type = Followed(q).type
        BY <2>1, ChangedThing
    <2> HIDE DEF o
    <2> QED BY <1>5, <2>1, <2>2
<1>9. CASE step[q] \in {"time", "time_again"}
    <2> DEFINE o == [Followed(q) EXCEPT !.time = Wanted(q).time]
    <2>1. o \in Things /\ Followed(q) \in Things /\ Wrote(q, o) /\ disk' \in Disks
        BY <1>9, TimeResult
    <2>2. o.type = Followed(q).type
        BY <2>1, ChangedThing
    <2> HIDE DEF o
    <2> QED BY <1>5, <2>1, <2>2
<1> QED BY <1>1, <1>2, <1>3, <1>4, <1>6, <1>7, <1>8, <1>9 DEF Calls

-----------------------------------------------------------------------------
(* What follows from the metadata and the command does not change with      *)
(* anything else.                                                           *)
LEMMA CommandConstant ==
    ASSUME node' = node, request' = request
    PROVE /\ Reached(request)' = Reached(request)
          /\ \A p : Wanted(p)' = Wanted(p)
          /\ \A p : ExistsAt(p, request.id)' <=> ExistsAt(p, request.id)
          /\ \A p : Subnodes(p)' = Subnodes(p)
<1>1. \A p, id : StateAt(p, id)' = StateAt(p, id)
    BY DEF StateAt
<1>2. \A p : Wanted(p)' = Wanted(p)
    BY <1>1 DEF Wanted
<1>3. \A p, id : ExistsAt(p, id)' <=> ExistsAt(p, id)
    BY <1>1 DEF ExistsAt
<1>4. \A p, id : DirectoryAt(p, id)' <=> DirectoryAt(p, id)
    BY <1>1 DEF DirectoryAt
<1>5. Reached(request)' = Reached(request)
    BY <1>3, <1>4 DEF Reached
<1>6. \A p : Subnodes(p)' = Subnodes(p)
    BY <1>2, <1>3 DEF Subnodes
<1> QED BY <1>2, <1>3, <1>5, <1>6

LEMMA RepositoryConstant ==
    ASSUME UNCHANGED repository
    PROVE /\ RepositoryInv => RepositoryInv'
          /\ Broken' = Broken
          /\ request' = request => Asked' = Asked /\ \A p : Saved(p)' = Saved(p)
<1>1. log' = log /\ node' = node /\ stored' = stored
    BY DEF repository
<1>2. RepositoryInv => RepositoryInv'
    BY <1>1 DEF RepositoryInv
<1>3. Broken' = Broken
    BY <1>1 DEF Broken
<1>4. ASSUME request' = request PROVE Asked' = Asked /\ \A p : Saved(p)' = Saved(p)
    <2>1. \A p : Saved(p)' = Saved(p)
        BY <1>1, <1>4 DEF Saved
    <2>2. Asked' = Asked
        BY <1>4, <2>1 DEF Asked
    <2> QED BY <2>1, <2>2
<1> QED BY <1>2, <1>3, <1>4

LEMMA DiskConstant ==
    ASSUME disk' = disk
    PROVE /\ \A p : Followed(p)' = Followed(p) /\ (IsDirectory(p)' <=> IsDirectory(p))
          /\ \A p : IsLink(p)' <=> IsLink(p)
          /\ \A p, s : Seen(p, s)' = Seen(p, s)
          /\ Closed' <=> Closed
<1>1. \A p : Followed(p)' = Followed(p)
    BY DEF Followed
<1>2. \A p : IsDirectory(p)' <=> IsDirectory(p)
    BY <1>1 DEF IsDirectory
<1>3. \A p, s : Seen(p, s)' = Seen(p, s)
    BY <1>1 DEF Seen
<1>4. Closed' <=> Closed
    BY <1>2 DEF Closed
<1> QED BY <1>1, <1>2, <1>3, <1>4 DEF IsLink

(* What is known of the files while only the walk goes on. *)
LEMMA NothingMoves ==
    ASSUME node' = node, stored' = stored, request' = request, disk' = disk, hint' = hint
    PROVE \A p : /\ HasType(p)' <=> HasType(p)
                 /\ AttrFine(p)' <=> AttrFine(p)
                 /\ TimeFine(p)' <=> TimeFine(p)
                 /\ DataFine(p)' <=> DataFine(p)
                 /\ InTheWay(p)' <=> InTheWay(p)
                 /\ Missing(p)' <=> Missing(p)
                 /\ HintHolds(p)' <=> HintHolds(p)
                 /\ Concerns(p)' <=> Concerns(p)
                 /\ Here(p)' = Here(p)
                 /\ Remade(p)' <=> Remade(p)
                 /\ AffectsParent(p)' <=> AffectsParent(p)
                 /\ HintFacts(p)' <=> HintFacts(p)
<1>1. Reached(request)' = Reached(request) /\ \A p : Wanted(p)' = Wanted(p)
    BY CommandConstant
<1>2. \A p : IsLink(p)' <=> IsLink(p)
    BY DiskConstant
<1>3. \A p : Through(p)' <=> Through(p)
    BY <1>1, <1>2 DEF Through
<1>4. \A p : Mixed(p)' <=> Mixed(p)
    BY <1>3 DEF Mixed
<1>5. \A p : Concerns(p)' <=> Concerns(p)
    BY <1>4 DEF Concerns
<1>6. \A p : Here(p)' = Here(p)
    BY <1>1, DiskConstant DEF Here
<1>7. \A p : (HasType(p)' <=> HasType(p)) /\ (AttrFine(p)' <=> AttrFine(p)) /\ (TimeFine(p)' <=> TimeFine(p))
    BY <1>1, <1>5, <1>6 DEF HasType, AttrFine, TimeFine
<1>8. Broken' = Broken
    BY DEF Broken
<1>9. \A p : DataFine(p)' <=> DataFine(p)
    BY <1>1, <1>5, <1>6, <1>8 DEF DataFine
<1>10. \A p : (InTheWay(p)' <=> InTheWay(p)) /\ (Missing(p)' <=> Missing(p))
    BY <1>1, DiskConstant DEF InTheWay, Missing
<1>11. \A p : HintHolds(p)' <=> HintHolds(p)
    BY <1>1, <1>5, <1>6, <1>7, <1>10 DEF HintHolds
<1>12. \A p : (Remade(p)' <=> Remade(p)) /\ (AffectsParent(p)' <=> AffectsParent(p))
    BY <1>1 DEF Remade, AffectsParent
<1>13. \A p : HintFacts(p)' <=> HintFacts(p)
    BY <1>1 DEF HintFacts
<1> QED BY <1>5, <1>6, <1>7, <1>9, <1>10, <1>11, <1>12, <1>13

LEMMA AskedReached ==
    ASSUME RepositoryInv, request \in Requests
    PROVE \A p : p \in Asked <=>
            p \in Reached(request) /\ (request.path = Root \/ request.path \in Ancestors[p])
<1>1. \A p \in Paths : Saved(p) = StateAt(p, request.id) /\ StateAt(p, request.id) \in States
    BY WantedIsSaved DEF Wanted
<1>2. ASSUME NEW p \in Paths
      PROVE /\ Ancestors[p] = {p} \cup Above(p) /\ Above(p) \subseteq Paths
            /\ \A a \in Above(p) : DirectoryAt(a, request.id) <=> Saved(a).type = "directory"
            /\ \A a \in Above(p) : DirectoryAt(a, request.id) => ExistsAt(a, request.id)
            /\ ExistsAt(p, request.id) <=> Saved(p) # NonExisting
    <2>1. Ancestors[p] = {p} \cup Above(p) /\ Above(p) \subseteq Paths
        BY TreeFacts DEF Above
    <2> QED BY <1>1, <2>1, StateFacts DEF DirectoryAt, ExistsAt
<1> TAKE p
<1>3. CASE p \in Paths
    BY <1>2, <1>3 DEF Asked, Reached
<1>4. CASE p \notin Paths
    BY <1>4 DEF Asked, Reached
<1> QED BY <1>3, <1>4

-----------------------------------------------------------------------------
(* The invariant holds in the beginning.                                    *)
LEMMA HistoryType ==
    ASSUME NEW l \in Seq([Paths -> States]), NEW policy, NEW p \in Paths
    PROVE HistoryOf(l, policy, p) \in SUBSET [id: Nat, state: States]
<1> DEFINE n == Len(l)
           f == FoundIn(l, p)
<1>1. HistoryOf(l, policy, p) = {PointOf(l, p, i) : i \in Kept(l, policy, p)}
    BY HistoryIsKept
<1>2. n \in Nat
    OBVIOUS
<1>3. Kept(l, policy, p) \subseteq 1 .. n
    BY DEF Kept, Changes
<1>4. ASSUME NEW i \in 1 .. n PROVE PointOf(l, p, i) \in [id: Nat, state: States]
    <2>1. l[i] \in [Paths -> States] /\ i # 0 /\ i \in 0 .. n /\ n - i \in Nat
        BY <1>2
    <2>2. f[i] = l[i][p]
        BY <2>1 DEF FoundIn
    <2> QED BY <2>1, <2>2 DEF PointOf
<1> QED BY <1>1, <1>3, <1>4

LEMMA Initially == Init => RestoreInv
<1> SUFFICES ASSUME Init PROVE RestoreInv
    OBVIOUS
<1>1. log \in Seq([Paths -> States]) /\ log # <<>>
    BY RepositoryAssumption DEF Init
<1>2. PICK policy \in Policies :
        node = [p \in Paths |-> [policy |-> policy[p], history |-> HistoryOf(log, policy[p], p)]]
    BY DEF Init
<1>3. RepositoryInv
    <2>1. policy \in [Paths -> {"none", "copy", "mirror", "track"}]
        BY <1>2, RepositoryAssumption
    <2>2. \A p \in Paths : node[p] = [policy |-> policy[p], history |-> HistoryOf(log, policy[p], p)]
        BY <1>2
    <2>3. \A p \in Paths : HistoryOf(log, policy[p], p) \in SUBSET [id: Nat, state: States]
        BY <1>1, HistoryType
    <2>4. node \in [Paths -> Node]
        BY <1>2, <2>1, <2>3 DEF Node
    <2>5. \A p \in Paths : node[p].history = HistoryOf(log, node[p].policy, p)
        <3> TAKE p \in Paths
        <3> DEFINE h == HistoryOf(log, policy[p], p)
        <3>1. node[p] = [policy |-> policy[p], history |-> h]
            BY <2>2
        <3> HIDE DEF h
        <3>2. node[p].history = h /\ node[p].policy = policy[p]
            BY <3>1
        <3> QED BY <3>2, Zenon DEF h
    <2>6. stored \in [Contents \ Small -> {"whole", "short", "wrong", "missing"}]
        BY RepositoryAssumption DEF Init
    <2> QED BY <1>1, <2>4, <2>5, <2>6 DEF RepositoryInv
<1>4. TypeOK
    <2>1. PICK at \in {f \in [Paths -> Anything \cup {None}] : \A p \in Paths : f[p] \in Objects[p] \cup {None}},
               outside \in {f \in [Targets -> UNION Range(Outsiders)] : \A t \in Targets : f[t] \in Outsiders[t]} :
            disk = [at |-> at, outside |-> outside]
        BY DEF Init
    <2>2. at \in [Paths -> Things \cup {None}]
        <3>1. at \in [Paths -> Anything \cup {None}] /\ \A p \in Paths : at[p] \in Objects[p] \cup {None}
            BY <2>1
        <3>2. \A p \in Paths : at[p] \in Things \cup {None}
            BY <3>1, FilesAssumption
        <3> QED BY <3>1, <3>2
    <2>3. outside \in [Targets -> Things \cup {None}]
        <3>1. outside \in [Targets -> UNION Range(Outsiders)] /\ \A t \in Targets : outside[t] \in Outsiders[t]
            BY <2>1
        <3>2. \A t \in Targets : outside[t] \in Things \cup {None}
            BY <3>1, FilesAssumption
        <3> QED BY <3>1, <3>2
    <2>4. disk \in Disks
        BY <2>1, <2>2, <2>3, DiskWith
    <2>5. Len(log) \in Nat \ {0}
        BY <1>1
    <2>6. request \in Requests
        <3>1. 0 \in 0 .. (Len(log) - 1)
            BY <2>5
        <3> QED BY <3>1 DEF Init, Requests
    <2>7. step \in [Paths -> Calls \cup {"ahead", "subnodes", "behind"}] /\ step = Ahead
        BY DEF Init, Ahead
    <2>8. hint \in [Paths -> [kind: {"none", "added", "replaced", "tree_replaced"},
                            changed: SUBSET {"attr", "time", "content"}]]
        BY DEF Init, NoHint
    <2>9. \A p \in Paths : disk.at[p] # None => IsDirectory(Parent[p])
        BY DEF Init
    <2>10. pc = "idle" /\ steady = TRUE /\ given \in 0 .. MaxCommands
        BY RepositoryAssumption DEF Init
    <2> QED BY <2>4, <2>6, <2>7, <2>8, <2>9, <2>10 DEF TypeOK, Disks
<1>5. pc = "idle" /\ step = Ahead
    BY DEF Init
<1>6. WalkInv
    BY <1>5 DEF WalkInv, WalkFacts, Ahead, Calls
<1> QED BY <1>3, <1>4, <1>5, <1>6 DEF RestoreInv, FailsForAReason

-----------------------------------------------------------------------------
(* A command is given: the hints are what is found.                         *)
LEMMA HintsAgain == \A r : Hints(r) = [p \in Paths |->
        HintFor(r, p, Parent[p] = Root \/ Hints(r)[Parent[p]].kind = "none")]
BY HintsUnfold

LEMMA HintsLater == (\A r : Hints(r) = [p \in Paths |->
        HintFor(r, p, Parent[p] = Root \/ Hints(r)[Parent[p]].kind = "none")])'
BY HintsAgain, PTL

LEMMA HintsConstant ==
    ASSUME node' = node, disk' = disk, NEW r
    PROVE Hints(r)' = Hints(r)
<1>1. \A p, id : StateAt(p, id)' = StateAt(p, id)
    BY DEF StateAt
<1>2. (\A p, id : ExistsAt(p, id)' <=> ExistsAt(p, id)) /\ (\A p, id : DirectoryAt(p, id)' <=> DirectoryAt(p, id))
    BY <1>1 DEF ExistsAt, DirectoryAt
<1>3. Reached(r)' = Reached(r)
    BY <1>2 DEF Reached
<1>4. \A p, b : HintFor(r, p, b)' = HintFor(r, p, b)
    BY <1>1, <1>3, DiskConstant DEF HintFor
<1> DEFINE f == Hints(r)
           g == Hints(r)'
<1>5. f = [p \in Paths |-> HintFor(r, p, Parent[p] = Root \/ f[Parent[p]].kind = "none")]
    BY HintsAgain
<1>6. g = [p \in Paths |-> HintFor(r, p, Parent[p] = Root \/ g[Parent[p]].kind = "none")]
    BY <1>4, HintsLater
<1> DEFINE S == {p \in Paths : f[p] = g[p]}
<1> HIDE DEF f, g
<1>7. ASSUME NEW p \in Paths, Parent[p] = Root \/ Parent[p] \in S PROVE p \in S
    <2> DEFINE b == Parent[p] = Root \/ f[Parent[p]].kind = "none"
               c == Parent[p] = Root \/ g[Parent[p]].kind = "none"
    <2>1. f[p] = HintFor(r, p, b)
        BY <1>5
    <2>2. g[p] = HintFor(r, p, c)
        BY <1>6
    <2>3. b <=> c
        BY <1>7
    <2> HIDE DEF b, c
    <2>4. b = c
        BY <2>3
    <2> QED BY <2>1, <2>2, <2>4
<1>8. S \in SUBSET Paths
    OBVIOUS
<1> HIDE DEF S
<1>9. \A p \in Paths : p \in S
    BY <1>7, <1>8, TreeInduction
<1>10. \A p \in Paths : f[p] = g[p]
    BY <1>9 DEF S
<1>11. f = g
    BY <1>5, <1>6, <1>10
<1> QED BY <1>11 DEF f, g

(* Hints that were just found are right. *)
Found == /\ RepositoryInv /\ request \in Requests /\ disk \in Disks /\ Closed
         /\ ~Refused(request) /\ hint = Hints(request)
HintType == [kind: {"none", "added", "replaced", "tree_replaced"}, changed: SUBSET {"attr", "time", "content"}]

LEMMA HintsFound ==
    Found => /\ hint \in [Paths -> HintType]
             /\ HintInv
             /\ \A p \in Reached(request) : HintHolds(p)
<1> SUFFICES ASSUME Found
             PROVE /\ hint \in [Paths -> HintType]
                   /\ HintInv
                   /\ \A p \in Reached(request) : HintHolds(p)
    OBVIOUS
<1>0. RepositoryInv /\ request \in Requests /\ request.path \in Paths \cup {Root} /\ disk \in Disks /\ Closed
      /\ ~Refused(request)
    BY DEF Found, Requests
<1>1. ASSUME NEW p \in Paths PROVE hint[p] = HintFor(request, p, TRUE) /\ hint[p].kind # "dangling"
    BY <1>0, HintsDirect DEF Found
<1>2. hint \in [Paths -> HintType]
    <2>1. \A p \in Paths : hint[p] \in AnyHint /\ hint[p].kind # "dangling"
        BY <1>1, HintForType
    <2>2. \A p \in Paths : hint[p] \in HintType
        BY <2>1 DEF AnyHint, HintType
    <2>3. hint = [p \in Paths |->
                HintFor(request, p, Parent[p] = Root \/ Hints(request)[Parent[p]].kind = "none")]
        BY HintsAgain DEF Found
    <2> QED BY <2>2, <2>3
<1>3. ASSUME NEW p \in Paths PROVE HintFacts(p) /\ (p \in Reached(request) => HintHolds(p))
    <2> DEFINE w == Wanted(p)
               o == Here(p)
    <2>1. hint[p] = IF p \notin Reached(request) THEN NoHint
                    ELSE IF disk.at[p] = None THEN [kind |-> "added", changed |-> {}]
                    ELSE IF o = None THEN [kind |-> "dangling", changed |-> {}]
                    ELSE IF o.type # w.type
                         THEN [kind |-> IF o.type = "directory" THEN "tree_replaced" ELSE "replaced",
                               changed |-> {}]
                    ELSE [kind |-> "none", changed |-> Changed(w, o)]
        BY <1>1 DEF HintFor, Here, Wanted
    <2>2. /\ "content" \in Changed(w, o) => w.type \in {"regular_file", "symlink"}
          /\ "time" \in Changed(w, o) => w.type # "symlink"
        BY DEF Changed
    <2>3. o = IF w.type = "symlink" THEN disk.at[p] ELSE Followed(p)
        BY DEF Here, Seen
    <2>4. (~IsLink(p) => Followed(p) = disk.at[p]) /\ (IsDirectory(p) <=> Followed(p) # None /\ Followed(p).type = "directory")
        BY <1>0, FollowedFacts
    <2> HIDE DEF w, o
    <2>9. hint[p].kind # "dangling"
        BY <1>1
    <2>5. CASE p \notin Reached(request)
        BY <2>1, <2>5 DEF HintFacts, NoHint
    <2>6. CASE p \in Reached(request) /\ disk.at[p] = None
        <3>1. hint[p].kind = "added" /\ hint[p].changed = {}
            BY <2>1, <2>6
        <3> QED BY <2>6, <3>1 DEF HintFacts, HintHolds, Missing
    <2>7. CASE p \in Reached(request) /\ disk.at[p] # None /\ o.type # w.type
        <3>0. o # None
            <4> SUFFICES ASSUME o = None PROVE FALSE
                OBVIOUS
            <4>1. hint[p] = [kind |-> "dangling", changed |-> {}]
                BY <2>1, <2>7
            <4> QED BY <2>9, <4>1
        <3>1. o # None /\ hint[p].kind = (IF o.type = "directory" THEN "tree_replaced" ELSE "replaced")
              /\ hint[p].changed = {}
            <4>1. hint[p] = [kind |-> IF o.type = "directory" THEN "tree_replaced" ELSE "replaced", changed |-> {}]
                BY <2>1, <2>7, <3>0
            <4> QED BY <3>0, <4>1
        <3>2. CASE o.type = "directory"
            <4>1. hint[p].kind = "tree_replaced" /\ hint[p].changed = {} /\ w.type # "directory"
                BY <2>7, <3>1, <3>2
            <4> QED BY <2>7, <4>1 DEF HintFacts, HintHolds, Missing, w
        <3>3. CASE o.type # "directory"
            <4>1. hint[p].kind = "replaced" /\ hint[p].changed = {}
                BY <3>1, <3>3
            <4>2. disk.at[p].type # "directory"
                BY <2>3, <2>4, <2>7, <3>3 DEF IsLink
            <4>3. w.type = "directory" => ~IsDirectory(p)
                BY <2>3, <2>4, <3>3
            <4> QED BY <2>7, <4>1, <4>2, <4>3 DEF HintFacts, HintHolds, InTheWay, w
        <3> QED BY <3>2, <3>3
    <2>8. CASE p \in Reached(request) /\ disk.at[p] # None /\ o.type = w.type
        <3>0. o # None
            <4> SUFFICES ASSUME o = None PROVE FALSE
                OBVIOUS
            <4>1. hint[p] = [kind |-> "dangling", changed |-> {}]
                BY <2>1, <2>8
            <4> QED BY <2>9, <4>1
        <3>1. o # None /\ hint[p].kind = "none" /\ hint[p].changed = Changed(w, o)
            <4>1. hint[p] = [kind |-> "none", changed |-> Changed(w, o)]
                BY <2>1, <2>8, <3>0
            <4> QED BY <3>0, <4>1
        <3>2. HasType(p)
            BY <2>8, <3>1 DEF HasType, w, o
        <3> QED BY <2>2, <2>8, <3>1, <3>2 DEF HintFacts, HintHolds, w, o
    <2> QED BY <2>5, <2>6, <2>7, <2>8
<1>4. HintInv
    BY <1>0, <1>3 DEF HintInv, Refused
<1> QED BY <1>2, <1>3, <1>4 DEF Reached

LEMMA HintsFoundLater ==
    (Found => /\ hint \in [Paths -> HintType]
              /\ HintInv
              /\ \A p \in Reached(request) : HintHolds(p))'
BY HintsFound, PTL

(* Where nothing counts, everything is as it should be. *)
Uncounted == /\ RepositoryInv /\ request \in Requests /\ hint \in [Paths -> HintType]
             /\ \A p \in Reached(request) : HintHolds(p) /\ ~Counts(p, hint[p])

LEMMA NothingCounts == Uncounted => DoneInv
<1> SUFFICES ASSUME Uncounted, NEW p \in Reached(request)
             PROVE HasType(p) /\ AttrFine(p) /\ DataFine(p) /\ TimeFine(p)
    BY DEF DoneInv
<1> DEFINE w == Wanted(p)
           o == Here(p)
<1>1. hint[p].kind = "none" /\ HintHolds(p) /\ ~Counts(p, hint[p])
    BY DEF Uncounted, Counts
<1>2. HasType(p) /\ (Concerns(p) => hint[p].changed = Changed(w, o))
    BY <1>1 DEF HintHolds
<1>3. Concerns(p) => hint[p].changed = {}
    BY <1>1 DEF Counts, Concerns
<1>4. Concerns(p) => w.attr = o.attr /\ "time" \notin Changed(w, o) /\ "content" \notin Changed(w, o)
    BY <1>2, <1>3 DEF Changed
<1>5. AttrFine(p)
    BY <1>4 DEF AttrFine
<1>6. TimeFine(p)
    BY <1>4 DEF TimeFine, Changed
<1>7. DataFine(p)
    BY <1>1, <1>3, <1>4 DEF DataFine, Changed
<1> QED BY <1>2, <1>5, <1>6, <1>7

LEMMA NothingCountsLater == (Uncounted => DoneInv)'
BY NothingCounts, PTL

LEMMA AskedAlways ==
    RepositoryInv /\ request \in Requests => \A p : p \in Asked <=>
        p \in Reached(request) /\ (request.path = Root \/ request.path \in Ancestors[p])
BY AskedReached

LEMMA AskedLater ==
    (RepositoryInv /\ request \in Requests => \A p : p \in Asked <=>
        p \in Reached(request) /\ (request.path = Root \/ request.path \in Ancestors[p]))'
BY AskedAlways, PTL

LEMMA ReachedConstant == ASSUME node' = node PROVE \A r : Reached(r)' = Reached(r)
<1>1. \A p, id : StateAt(p, id)' = StateAt(p, id)
    BY DEF StateAt
<1>2. (\A p, id : ExistsAt(p, id)' <=> ExistsAt(p, id)) /\ (\A p, id : DirectoryAt(p, id)' <=> DirectoryAt(p, id))
    BY <1>1 DEF ExistsAt, DirectoryAt
<1> QED BY <1>2 DEF Reached

LEMMA WalkAhead == ASSUME step' = Ahead PROVE WalkInv'
BY DEF WalkInv, WalkFacts, Ahead, Calls

LEMMA GiveKeeps ==
    ASSUME RestoreInv, NEW r \in Requests, Give(r) PROVE RestoreInv'
<1>1. RepositoryInv /\ TypeOK
    BY DEF RestoreInv
<1>2. /\ pc \notin {"review", "restore"} /\ given < MaxCommands
      /\ request' = r /\ steady' = TRUE /\ given' = given + 1
      /\ log' = log /\ node' = node /\ stored' = stored /\ disk' = disk /\ step' = step
    BY DEF Give, repository
<1>3. RepositoryInv' /\ Broken' = Broken
    BY <1>1, <1>2, RepositoryConstant DEF repository
<1>4. disk' \in Disks /\ Closed' /\ disk \in Disks /\ Closed
    BY <1>1, <1>2, DiskConstant DEF TypeOK, Disks, Closed
<1>5. Requests' = Requests /\ (request \in Requests)'
    BY <1>2 DEF Requests
<1>6. step' = Ahead
    BY <1>1, <1>2 DEF TypeOK
<1>7. given' \in 0 .. MaxCommands /\ steady' \in BOOLEAN
    <2>1. given \in 0 .. MaxCommands /\ MaxCommands \in Nat
        BY <1>1, RepositoryAssumption DEF TypeOK
    <2> QED BY <1>2, <2>1
<1>8. WalkInv'
    BY <1>6, WalkAhead
<1>9. step' \in [Paths -> Calls \cup {"ahead", "subnodes", "behind"}]
    BY <1>6 DEF Ahead
<1>10. Reached(request)' = Reached(r)
    BY <1>2, ReachedConstant
<1>11. ASSUME hint' \in [Paths -> HintType], pc' \in {"review", "done", "refused"} PROVE TypeOK'
    BY <1>2, <1>4, <1>5, <1>6, <1>7, <1>9, <1>11 DEF TypeOK, Disks, Closed, HintType
<1>12. CASE Refused(r)
    <2>1. pc' = "refused" /\ hint' = [p \in Paths |-> NoHint]
        BY <1>12 DEF Give
    <2>2. hint' \in [Paths -> HintType]
        BY <2>1 DEF NoHint, HintType
    <2>3. FailsForAReason'
        <3>1. CASE r.path # Root /\ r.path \notin Reached(r)
            <4>1. (request.path # Root /\ request.path \notin Asked)'
                BY <1>2, <1>3, <1>5, <1>10, <3>1, AskedLater
            <4> QED BY <2>1, <4>1 DEF FailsForAReason
        <3>2. CASE \E p \in Paths : Hints(r)[p].kind = "dangling"
            <4>1. PICK p \in Paths : Hints(r)[p].kind = "dangling"
                BY <3>2
            <4> DEFINE b == Parent[p] = Root \/ Hints(r)[Parent[p]].kind = "none"
            <4>2. Hints(r)[p] = HintFor(r, p, b)
                <5> DEFINE g == [x \in Paths |->
                        HintFor(r, x, Parent[x] = Root \/ Hints(r)[Parent[x]].kind = "none")]
                <5>1. Hints(r) = g
                    BY HintsUnfold
                <5>2. g[p] = HintFor(r, p, b)
                    OBVIOUS
                <5> HIDE DEF g, b
                <5> QED BY <5>1, <5>2
            <4>3. disk.at[p] # None /\ Seen(p, StateAt(p, r.id)) = None
                <5> HIDE DEF b
                <5> QED BY <4>1, <4>2 DEF HintFor, NoHint
            <4>4. Followed(p) = None
                BY <4>3 DEF Seen
            <4>5. IsLink(p) /\ disk.outside[disk.at[p].data] = None
                BY <1>4, <4>3, <4>4, FollowedFacts
            <4>6. disk'.at[p] # None /\ disk'.at[p].type = "symlink" /\ disk'.outside[disk'.at[p].data] = None
                BY <1>2, <4>5 DEF IsLink
            <4> QED BY <2>1, <4>6 DEF FailsForAReason
        <3> QED BY <1>12, <3>1, <3>2 DEF Refused
    <2> QED BY <1>3, <1>8, <1>11, <2>1, <2>2, <2>3 DEF RestoreInv
<1>13. CASE ~Refused(r)
    <2>1. hint' = Hints(r) /\ pc' = (IF \E p \in Paths : Counts(p, hint'[p]) THEN "review" ELSE "done")
        BY <1>13 DEF Give
    <2>2. Hints(request)' = Hints(r) /\ ~Refused(request)'
        <3>1. \A x : Hints(x)' = Hints(x)
            BY <1>2, HintsConstant
        <3>2. Hints(request)' = Hints(r)
            BY <1>2, <3>1
        <3> QED BY <1>2, <1>10, <1>13, <3>2 DEF Refused
    <2>3. Found'
        BY <1>3, <1>4, <1>5, <2>1, <2>2 DEF Found
    <2>4. /\ hint' \in [Paths -> HintType] /\ HintInv'
          /\ \A p \in Reached(request)' : HintHolds(p)'
        BY <2>3, HintsFoundLater
    <2>5. TypeOK'
        BY <1>11, <2>1, <2>4
    <2>6. SteadyInv'
        <3>1. \A p \in Paths : step'[p] = "ahead"
            BY <1>6 DEF Ahead
        <3>2. ASSUME NEW p \in Reached(request)' PROVE StepFine(p, step[p])'
            <4>1. step'[p] = "ahead"
                BY <1>10, <3>1, <3>2 DEF Reached
            <4> QED BY <2>4, <3>2, <4>1 DEF StepFine, Passed
        <3> QED BY <3>2 DEF SteadyInv
    <2>7. pc' = "done" => DoneInv'
        <3> SUFFICES ASSUME pc' = "done" PROVE DoneInv'
            OBVIOUS
        <3>1. \A p \in Paths : ~Counts(p, hint'[p])
            BY <2>1
        <3>2. \A p \in Reached(request)' : ~Counts(p, hint[p])'
            BY <1>2, <1>10, <3>1 DEF Counts, Reached
        <3>3. Uncounted'
            BY <1>3, <1>5, <2>4, <3>2 DEF Uncounted
        <3> QED BY <3>3, NothingCountsLater
    <2>8. FailsForAReason'
        BY <2>1 DEF FailsForAReason
    <2> QED BY <1>3, <1>8, <2>1, <2>4, <2>5, <2>6, <2>7, <2>8 DEF RestoreInv
<1> QED BY <1>12, <1>13

-----------------------------------------------------------------------------
(* The walk.                                                                *)
LEMMA HintsKeep ==
    ASSUME node' = node, request' = request, hint' = hint
    PROVE /\ \A p : HintFacts(p)' <=> HintFacts(p)
          /\ HintInv' <=> HintInv
          /\ \A p, s : CallFacts(p, s)' <=> CallFacts(p, s)
          /\ \A p : AffectsParent(p)' <=> AffectsParent(p)
          /\ \A p : Remade(p)' <=> Remade(p)
<1>1. Reached(request)' = Reached(request) /\ \A p : Wanted(p)' = Wanted(p)
    BY CommandConstant
<1>2. \A p : HintFacts(p)' <=> HintFacts(p)
    BY <1>1 DEF HintFacts
<1>3. HintInv' <=> HintInv
    BY <1>1, <1>2 DEF HintInv
<1>4. \A p : (Remade(p)' <=> Remade(p)) /\ (AffectsParent(p)' <=> AffectsParent(p))
    BY <1>1 DEF Remade, AffectsParent
<1>5. \A p, s : CallFacts(p, s)' <=> CallFacts(p, s)
    BY <1>1, <1>4 DEF CallFacts
<1> QED BY <1>2, <1>3, <1>4, <1>5

LEMMA WalkKeeps ==
    ASSUME node' = node, request' = request, hint' = hint, step' = step, WalkInv
    PROVE WalkInv'
<1>1. /\ \A p : Wanted(p)' = Wanted(p)
      /\ \A p : ExistsAt(p, request.id)' <=> ExistsAt(p, request.id)
      /\ \A p : Subnodes(p)' = Subnodes(p)
    BY CommandConstant
<1>2. \A p : WalkFacts(p)' <=> WalkFacts(p)
    BY <1>1 DEF WalkFacts
<1> QED BY <1>2, HintsKeep DEF WalkInv

(* A step that may come next. *)
StepFacts(p, s) ==
    /\ s \in Calls \cup {"subnodes", "behind"}
    /\ s = "subnodes" => Wanted(p).type = "directory"
    /\ s = "behind" => Wanted(p).type # "directory" \/ \A q \in Subnodes(p) : step[q] = "behind"
    /\ s \in Calls => CallFacts(p, s)

LEMMA MakeStepFacts ==
    ASSUME RepositoryInv, request \in Requests, NEW p \in Reached(request), Remade(p),
           hint[p].kind = "none" => node[p].policy # "none"
    PROVE /\ StepFacts(p, MakeStep(p))
          /\ MakeStep(p) \in {"open", "symlink", "mkdir"}
<1>1. Wanted(p).type \in {"regular_file", "symlink", "directory"}
    BY WantedFacts
<1> QED BY <1>1 DEF MakeStep, StepFacts, CallFacts, Calls

LEMMA UpdateStepFacts ==
    ASSUME RepositoryInv, request \in Requests, NEW p \in Paths, HintFacts(p),
           hint[p].kind = "none" /\ node[p].policy # "none"
    PROVE StepFacts(p, UpdateStep(p))
<1>1. hint[p].changed # {} => p \in Reached(request)
    BY DEF HintFacts, NoHint
<1>2. CASE "content" \in hint[p].changed
    BY <1>1, <1>2 DEF UpdateStep, StepFacts, CallFacts, Remade, HintFacts, Calls
<1>3. CASE "content" \notin hint[p].changed /\ "time" \in hint[p].changed
    BY <1>1, <1>3 DEF UpdateStep, StepFacts, CallFacts, HintFacts, Calls
<1>4. CASE "content" \notin hint[p].changed /\ "time" \notin hint[p].changed
    BY <1>4 DEF UpdateStep, LastStep, StepFacts, Calls
<1> QED BY <1>2, <1>3, <1>4

LEMMA FirstStepFacts ==
    ASSUME RepositoryInv, request \in Requests, NEW p \in Paths, HintFacts(p), hint[p] \in HintType
    PROVE StepFacts(p, FirstStep(p))
<1>1. hint[p].kind # "none" \/ hint[p].changed # {} => p \in Reached(request)
    BY DEF HintFacts, NoHint
<1>2. CASE hint[p].kind = "added"
    <2>1. StepFacts(p, MakeStep(p))
        BY <1>1, <1>2, MakeStepFacts DEF Remade
    <2> QED BY <1>2, <2>1 DEF FirstStep
<1>3. CASE hint[p].kind \in {"replaced", "tree_replaced"}
    BY <1>1, <1>3 DEF FirstStep, StepFacts, CallFacts, Remade, Calls
<1>4. CASE hint[p].kind = "none"
    <2>1. CASE node[p].policy = "none"
        BY <1>4, <2>1 DEF FirstStep, LastStep, StepFacts, Calls
    <2>2. CASE node[p].policy # "none" /\ "attr" \in hint[p].changed
        BY <1>1, <1>4, <2>2 DEF FirstStep, StepFacts, CallFacts, Calls
    <2>3. CASE node[p].policy # "none" /\ "attr" \notin hint[p].changed
        BY <1>4, <2>3, UpdateStepFacts DEF FirstStep
    <2> QED BY <2>1, <2>2, <2>3
<1> QED BY <1>2, <1>3, <1>4 DEF HintType

LEMMA NextStepFacts ==
    ASSUME RepositoryInv, request \in Requests, NEW p \in Paths, HintFacts(p), WalkFacts(p),
           step[p] \in Calls, CallFacts(p, step[p])
    PROVE StepFacts(p, NextStep(p)) /\ NextStep(p) \notin {"ahead", "change_attr", "remove_tree"}
<1>1. p \in Reached(request) /\ (hint[p].kind = "none" => node[p].policy # "none")
    BY DEF CallFacts
<1>2. CASE step[p] \in {"remove", "remove_tree"}
    <2>1. Remade(p)
        BY <1>2 DEF CallFacts, Remade
    <2>2. NextStep(p) = MakeStep(p)
        BY <1>2 DEF NextStep
    <2> QED BY <1>1, <2>1, <2>2, MakeStepFacts
<1>3. CASE step[p] = "open"
    BY <1>3 DEF NextStep, StepFacts, CallFacts, Calls
<1>4. CASE step[p] = "fill"
    BY <1>1, <1>4 DEF NextStep, StepFacts, CallFacts, Calls, Remade
<1>5. CASE step[p] \in {"mkdir", "symlink"}
    BY <1>5 DEF NextStep, StepFacts, CallFacts, Calls
<1>6. CASE step[p] = "change_attr"
    <2>1. NextStep(p) = UpdateStep(p) /\ hint[p].kind = "none"
        BY <1>6 DEF NextStep, CallFacts
    <2>2. NextStep(p) \notin {"ahead", "change_attr", "remove_tree"}
        BY <2>1 DEF UpdateStep, LastStep
    <2> QED BY <1>1, <2>1, <2>2, UpdateStepFacts
<1>7. CASE step[p] = "attr"
    BY <1>1, <1>7 DEF NextStep, StepFacts, CallFacts, Calls
<1>8. CASE step[p] = "time"
    BY <1>8 DEF NextStep, LastStep, StepFacts, Calls
<1>9. CASE step[p] = "time_again"
    BY <1>9 DEF NextStep, StepFacts, WalkFacts, Calls
<1> QED BY <1>2, <1>3, <1>4, <1>5, <1>6, <1>7, <1>8, <1>9 DEF Calls

LEMMA StepTaken ==
    ASSUME node' = node, request' = request, hint' = hint, WalkInv, DOMAIN step = Paths,
           NEW q \in Paths, NEW s, step' = [step EXCEPT ![q] = s],
           ExistsAt(q, request.id),
           Parent[q] # Root => step[Parent[q]] = "subnodes" /\ q \in Subnodes(Parent[q]),
           s # "ahead" /\ (s \in {"subnodes", "time_again"} => Wanted(q).type = "directory"),
           s \in {"time_again", "behind"} => \A x \in Subnodes(q) : step[x] = "behind",
           s \in Calls => CallFacts(q, s),
           \A x \in Children(q) : step[x] # "ahead" => s \in Passed,
           \A x \in Children(q) : step[x] \notin {"ahead", "behind"} => s = "subnodes"
    PROVE WalkInv'
<1>1. /\ \A p : Wanted(p)' = Wanted(p)
      /\ \A p : ExistsAt(p, request.id)' <=> ExistsAt(p, request.id)
      /\ \A p : Subnodes(p)' = Subnodes(p)
    BY CommandConstant
<1>2. \A p \in Paths : step'[p] = IF p = q THEN s ELSE step[p]
    OBVIOUS
<1>3. \A p \in Paths : Parent[p] \in Paths \cup {Root} /\ Parent[p] # p
    BY TreeFacts
<1>4. \A p \in Paths : \A x \in Subnodes(p) : x \in Paths /\ Parent[x] = p
    BY TreeFacts DEF Subnodes, Children
<1>5. \A p \in Paths : WalkFacts(p) /\ (step[p] \in Calls => CallFacts(p, step[p]))
    BY DEF WalkInv
<1>6. ASSUME NEW p \in Paths PROVE WalkFacts(p)'
    <2>1. CASE p = q
        <3>1. \A x \in Subnodes(q) : step'[x] = step[x]
            BY <1>2, <1>3, <1>4
        <3>2. Parent[q] # Root => step'[Parent[q]] = step[Parent[q]]
            BY <1>2, <1>3
        <3> QED BY <1>1, <1>2, <2>1, <3>1, <3>2 DEF WalkFacts, Passed
    <2>2. CASE p # q
        <3>1. step'[p] = step[p]
            BY <1>2, <2>2
        <3>2. step'[p] # "ahead" => /\ ExistsAt(p, request.id)
                                    /\ Parent[p] # Root => /\ p \in Subnodes(Parent[p])
                                                           /\ step'[Parent[p]] \in Passed
            <4>1. CASE Parent[p] = q
                BY <1>2, <1>3, <1>5, <3>1, <4>1 DEF WalkFacts, Children
            <4>2. CASE Parent[p] # q
                BY <1>2, <1>3, <1>5, <3>1, <4>2 DEF WalkFacts
            <4> QED BY <4>1, <4>2
        <3>3. step'[p] \notin {"ahead", "behind"} /\ Parent[p] # Root => step'[Parent[p]] = "subnodes"
            <4>1. CASE Parent[p] = q
                BY <1>2, <1>3, <3>1, <4>1 DEF Children
            <4>2. CASE Parent[p] # q
                BY <1>2, <1>3, <1>5, <3>1, <4>2 DEF WalkFacts
            <4> QED BY <4>1, <4>2
        <3>4. step'[p] \in {"time_again", "behind"} => \A x \in Subnodes(p) : step'[x] = "behind"
            <4>1. ASSUME step'[p] \in {"time_again", "behind"} PROVE q \notin Subnodes(p)
                <5>1. step[p] # "subnodes"
                    BY <3>1, <4>1
                <5> QED BY <1>3, <1>4, <5>1, TreeFacts
            <4> QED BY <1>2, <1>4, <1>5, <3>1, <4>1 DEF WalkFacts
        <3>5. step'[p] \in {"subnodes", "time_again"} => Wanted(p).type = "directory"
            BY <1>5, <3>1 DEF WalkFacts
        <3> QED BY <1>1, <3>2, <3>3, <3>4, <3>5 DEF WalkFacts
    <2> QED BY <2>1, <2>2
<1>7. \A p \in Paths : step'[p] \in Calls => CallFacts(p, step'[p])
    BY <1>2, <1>5
<1>8. \A p \in Paths : step'[p] \in Calls => CallFacts(p, step[p])'
    BY <1>7, HintsKeep
<1> QED BY <1>6, <1>8 DEF WalkInv

LEMMA EnterWalk ==
    ASSUME RestoreInv, NEW q \in Paths, Enter(q)
    PROVE WalkInv' /\ StepFacts(q, FirstStep(q))
<1>1. /\ pc = "restore" /\ step[q] = "ahead" /\ ExistsAt(q, request.id)
      /\ Parent[q] # Root => step[Parent[q]] = "subnodes" /\ q \in Subnodes(Parent[q])
      /\ step' = [step EXCEPT ![q] = FirstStep(q)]
      /\ node' = node /\ request' = request /\ hint' = hint
    BY DEF Enter, repository, command
<1>2. RepositoryInv /\ request \in Requests /\ HintFacts(q) /\ hint[q] \in HintType /\ DOMAIN step = Paths /\ WalkInv
    BY <1>1 DEF RestoreInv, TypeOK, HintInv, HintType
<1>3. StepFacts(q, FirstStep(q))
    BY <1>2, FirstStepFacts
<1>4. FirstStep(q) # "ahead" /\ FirstStep(q) # "time_again"
      /\ (FirstStep(q) = "subnodes" => Wanted(q).type = "directory")
      /\ (FirstStep(q) = "behind" => Wanted(q).type # "directory")
      /\ (FirstStep(q) \in Calls => CallFacts(q, FirstStep(q)))
    <2>1. MakeStep(q) \notin {"ahead", "time_again", "behind", "subnodes"} \/ hint[q].kind # "added"
        <3>1. hint[q].kind = "added" => q \in Reached(request) /\ Remade(q)
            BY <1>2 DEF HintFacts, NoHint, Remade
        <3> QED BY <1>2, <3>1, MakeStepFacts
    <2>2. FirstStep(q) \notin {"ahead", "time_again"} /\ (FirstStep(q) = "behind" => Wanted(q).type # "directory")
        BY <1>2, <2>1 DEF FirstStep, UpdateStep, LastStep, HintType
    <2> QED BY <1>3, <2>2 DEF StepFacts
<1>5. FirstStep(q) = "behind" => Subnodes(q) = {}
    BY <1>4, TreeFacts DEF Subnodes
<1>6. \A x \in Children(q) : step[x] = "ahead"
    <2>1. \A x \in Children(q) : x \in Paths /\ Parent[x] = q /\ q # Root
        BY TreeFacts DEF Children
    <2> QED BY <1>1, <1>2, <2>1 DEF WalkInv, WalkFacts, Passed
<1> DEFINE s == FirstStep(q)
<1> HIDE DEF s
<1>7. s # "ahead" /\ (s \in {"subnodes", "time_again"} => Wanted(q).type = "directory")
      /\ (s \in {"time_again", "behind"} => \A x \in Subnodes(q) : step[x] = "behind")
      /\ (s \in Calls => CallFacts(q, s)) /\ step' = [step EXCEPT ![q] = s]
    BY <1>1, <1>4, <1>5 DEF s
<1>8. WalkInv'
    BY <1>1, <1>2, <1>6, <1>7, StepTaken
<1> QED BY <1>3, <1>8

LEMMA LeaveWalk ==
    ASSUME RestoreInv, NEW q \in Paths, Leave(q)
    PROVE WalkInv'
<1> DEFINE again == node[q].policy # "none" /\ \E x \in Subnodes(q) : AffectsParent(x)
           s == IF again THEN "time_again" ELSE "behind"
<1>1. /\ pc = "restore" /\ step[q] = "subnodes"
      /\ \A x \in Subnodes(q) : step[x] = "behind"
      /\ step' = [step EXCEPT ![q] = s]
      /\ node' = node /\ request' = request /\ hint' = hint
    BY DEF Leave, repository, command
<1>2. RepositoryInv /\ request \in Requests /\ HintInv /\ DOMAIN step = Paths /\ WalkInv
    BY <1>1 DEF RestoreInv, TypeOK
<1>3. /\ ExistsAt(q, request.id) /\ Wanted(q).type = "directory"
      /\ Parent[q] # Root => step[Parent[q]] = "subnodes" /\ q \in Subnodes(Parent[q])
    BY <1>1, <1>2 DEF WalkInv, WalkFacts
<1>4. \A x \in Children(q) : step[x] \in {"ahead", "behind"}
    <2>1. \A x \in Children(q) : x \in Paths /\ Parent[x] = q /\ q # Root
        BY TreeFacts DEF Children
    <2>2. \A x \in Children(q) : step[x] # "ahead" => x \in Subnodes(q)
        BY <1>2, <2>1 DEF WalkInv, WalkFacts
    <2> QED BY <1>1, <2>2
<1>5. again => CallFacts(q, "time_again")
    <2> SUFFICES ASSUME again PROVE CallFacts(q, "time_again")
        OBVIOUS
    <2>1. PICK x \in Subnodes(q) : AffectsParent(x)
        OBVIOUS
    <2>2. x \in Paths /\ Parent[x] = q /\ q # Root
        BY TreeFacts DEF Subnodes, Children
    <2>3. hint[x] # NoHint
        BY <2>1 DEF AffectsParent, NoHint
    <2>4. x \in Reached(request)
        BY <1>2, <2>2, <2>3 DEF HintInv, HintFacts
    <2>5. q \in Reached(request)
        BY <1>2, <2>2, <2>4, WantedFacts
    <2> QED BY <2>5 DEF CallFacts
<1>6. s \in {"time_again", "behind"} /\ (s \in Calls => CallFacts(q, s)) /\ s \in Passed
    BY <1>5 DEF Passed, Calls
<1> HIDE DEF s, again
<1> QED BY <1>1, <1>2, <1>3, <1>4, <1>6, StepTaken

LEMMA ExecuteWalk ==
    ASSUME RestoreInv, NEW q \in Paths, Execute(q)
    PROVE WalkInv' /\ StepFacts(q, NextStep(q)) /\ Calling(q)
<1> DEFINE stays == step[q] = "remove_tree" /\ disk'.at[q] # None
           s == IF stays THEN "remove_tree" ELSE NextStep(q)
<1>1. /\ pc = "restore" /\ step[q] \in Calls /\ disk' \in Results(q)
      /\ node' = node /\ request' = request /\ hint' = hint
    BY DEF Execute, repository, command
<1>2. step' = [step EXCEPT ![q] = s]
    BY DEF Execute
<1>3. RepositoryInv /\ request \in Requests /\ HintFacts(q) /\ DOMAIN step = Paths /\ WalkInv
      /\ disk \in Disks /\ Closed
    BY <1>1 DEF RestoreInv, TypeOK, HintInv, Disks, Closed
<1>4. WalkFacts(q) /\ CallFacts(q, step[q]) /\ Calling(q)
    BY <1>1, <1>3 DEF WalkInv, Calling
<1>5. StepFacts(q, NextStep(q)) /\ NextStep(q) # "ahead"
    BY <1>1, <1>3, <1>4, NextStepFacts
<1>6. NextStep(q) # "time_again"
    <2>1. CASE step[q] \in {"remove", "remove_tree"}
        <3>1. q \in Reached(request) /\ Remade(q) /\ (hint[q].kind = "none" => node[q].policy # "none")
            BY <1>4, <2>1 DEF CallFacts, Remade
        <3> QED BY <1>3, <2>1, <3>1, MakeStepFacts DEF NextStep
    <2>2. CASE step[q] \notin {"remove", "remove_tree"}
        BY <1>1, <2>2 DEF NextStep, UpdateStep, LastStep, Calls
    <2> QED BY <2>1, <2>2
<1>7. /\ ExistsAt(q, request.id)
      /\ Parent[q] # Root => step[Parent[q]] = "subnodes" /\ q \in Subnodes(Parent[q])
    BY <1>1, <1>4 DEF WalkFacts, Calls
<1>8. \A x \in Children(q) : x \in Paths /\ Parent[x] = q /\ q # Root
    BY TreeFacts DEF Children
<1>9. ASSUME NEW x \in Children(q), step[x] # "ahead"
      PROVE step[x] = "behind" /\ step[q] = "time_again" /\ s = "behind"
    <2>1. step[q] \in Passed /\ x \in Subnodes(q)
        BY <1>3, <1>8, <1>9 DEF WalkInv, WalkFacts
    <2>2. step[q] = "time_again"
        BY <1>1, <2>1 DEF Passed, Calls
    <2>3. s = "behind"
        BY <2>2 DEF NextStep
    <2>4. step[x] = "behind"
        BY <1>4, <2>1, <2>2 DEF WalkFacts
    <2> QED BY <2>2, <2>3, <2>4
<1>10. Wanted(q).type # "directory" => Subnodes(q) = {}
    BY TreeFacts DEF Subnodes
<1>11. s # "ahead" /\ (s \in {"subnodes", "time_again"} => Wanted(q).type = "directory")
       /\ (s \in {"time_again", "behind"} => \A x \in Subnodes(q) : step[x] = "behind")
       /\ (s \in Calls => CallFacts(q, s))
    BY <1>4, <1>5, <1>6, <1>10 DEF StepFacts
<1> HIDE DEF s, stays
<1>12. \A x \in Children(q) : step[x] # "ahead" => s \in Passed
    BY <1>9 DEF Passed
<1>13. WalkInv'
    BY <1>1, <1>2, <1>3, <1>7, <1>9, <1>11, <1>12, StepTaken
<1> QED BY <1>4, <1>5, <1>13

-----------------------------------------------------------------------------
(* A restore that nobody disturbs.                                          *)
Updating(p) ==
    /\ hint[p].kind = "none" /\ node[p].policy # "none" /\ HintFacts(p)
    /\ HasType(p) /\ AttrFine(p)
    /\ Concerns(p) => /\ "content" \in hint[p].changed <=> "content" \in Changed(Wanted(p), Here(p))
                      /\ "time" \in hint[p].changed <=> "time" \in Changed(Wanted(p), Here(p))

LEMMA UpdateFine == \A p \in Paths : Updating(p) => StepFine(p, UpdateStep(p))
<1> SUFFICES ASSUME NEW p \in Paths, Updating(p) PROVE StepFine(p, UpdateStep(p))
    OBVIOUS
<1> DEFINE w == Wanted(p)
           o == Here(p)
<1>1. /\ hint[p].kind = "none" /\ node[p].policy # "none" /\ HintFacts(p)
      /\ HasType(p) /\ AttrFine(p)
      /\ Concerns(p) => /\ "content" \in hint[p].changed <=> "content" \in Changed(w, o)
                        /\ "time" \in hint[p].changed <=> "time" \in Changed(w, o)
    BY DEF Updating
<1>2. o # None /\ o.type = w.type
    BY <1>1 DEF HasType
<1>3. CASE "content" \in hint[p].changed
    <2>1. CASE w.type = "symlink"
        <3>1. UpdateStep(p) = "remove"
            BY <1>3, <2>1 DEF UpdateStep
        <3>2. InTheWay(p)
            BY <1>2, <2>1 DEF InTheWay, Here, Seen
        <3> QED BY <3>1, <3>2 DEF StepFine, Passed
    <2>2. CASE w.type # "symlink"
        <3>1. UpdateStep(p) = "open"
            BY <1>3, <2>2 DEF UpdateStep
        <3>2. ~Remade(p)
            BY <1>1, <2>2 DEF Remade
        <3> QED BY <1>1, <3>1, <3>2 DEF StepFine, Passed
    <2> QED BY <2>1, <2>2
<1>4. CASE "content" \notin hint[p].changed
    <2>1. DataFine(p)
        BY <1>1, <1>4 DEF DataFine, Changed
    <2>2. CASE "time" \in hint[p].changed
        <3>1. UpdateStep(p) = "time"
            BY <1>4, <2>2 DEF UpdateStep
        <3> QED BY <1>1, <2>1, <3>1 DEF StepFine, Passed
    <2>3. CASE "time" \notin hint[p].changed
        <3>1. UpdateStep(p) \in {"subnodes", "behind"}
            BY <1>4, <2>3 DEF UpdateStep, LastStep
        <3>2. TimeFine(p)
            BY <1>1, <2>3 DEF TimeFine, Changed
        <3> QED BY <1>1, <2>1, <3>1, <3>2 DEF StepFine, Passed
    <2> QED BY <2>2, <2>3
<1> QED BY <1>3, <1>4

LEMMA UpdateFineLater == (\A p \in Paths : Updating(p) => StepFine(p, UpdateStep(p)))'
BY UpdateFine, PTL

LEMMA FirstFine ==
    ASSUME RepositoryInv, request \in Requests, NEW p \in Reached(request),
           HintFacts(p), hint[p] \in HintType, HintHolds(p)
    PROVE StepFine(p, FirstStep(p))
<1>1. p \in Paths
    BY DEF Reached
<1>2. CASE hint[p].kind = "added"
    <2>1. Remade(p) /\ Missing(p) /\ FirstStep(p) = MakeStep(p)
        BY <1>2 DEF Remade, HintHolds, FirstStep
    <2>2. MakeStep(p) \in {"open", "symlink", "mkdir"}
        BY <1>2, <2>1, MakeStepFacts
    <2> QED BY <2>1, <2>2 DEF StepFine, Passed
<1>3. CASE hint[p].kind = "replaced"
    BY <1>3 DEF FirstStep, HintHolds, StepFine, Passed
<1>4. CASE hint[p].kind = "tree_replaced"
    BY <1>4 DEF FirstStep, HintHolds, StepFine, Passed
<1>5. CASE hint[p].kind = "none"
    <2>1. HasType(p) /\ (Concerns(p) => hint[p].changed = Changed(Wanted(p), Here(p)))
        BY <1>5 DEF HintHolds
    <2>2. CASE node[p].policy = "none"
        <3>1. ~Concerns(p) /\ FirstStep(p) \in {"subnodes", "behind"}
            BY <1>5, <2>2 DEF Concerns, FirstStep, LastStep
        <3> QED BY <2>1, <3>1 DEF StepFine, Passed, AttrFine, DataFine, TimeFine
    <2>3. CASE node[p].policy # "none" /\ "attr" \in hint[p].changed
        <3>1. FirstStep(p) = "change_attr"
            BY <1>5, <2>3 DEF FirstStep
        <3> QED BY <3>1 DEF StepFine, Passed
    <2>4. CASE node[p].policy # "none" /\ "attr" \notin hint[p].changed
        <3>1. FirstStep(p) = UpdateStep(p)
            BY <1>5, <2>4 DEF FirstStep
        <3>2. AttrFine(p)
            BY <2>1, <2>4 DEF AttrFine, Changed
        <3> QED BY <1>1, <1>5, <2>1, <2>4, <3>1, <3>2, UpdateFine DEF Updating
    <2> QED BY <2>2, <2>3, <2>4
<1> QED BY <1>2, <1>3, <1>4, <1>5 DEF HintType

(* What is found at a path stays of its kind, and has the values it had; at *)
(* most the timestamp of a directory changes that will be set again.        *)
Shape(x) ==
    /\ disk'.at[x] = None <=> disk.at[x] = None
    /\ disk'.at[x].type = disk.at[x].type
    /\ Followed(x)' = None <=> Followed(x) = None
    /\ Followed(x)'.type = Followed(x).type
    /\ IsDirectory(x)' <=> IsDirectory(x)
WillBeSet(x) == step[x] = "subnodes" /\ \E q \in Subnodes(x) : step'[q] # "ahead" /\ AffectsParent(q)
Value(x) ==
    Concerns(x) /\ HasType(x) =>
        /\ Here(x)'.attr = Here(x).attr /\ Here(x)'.data = Here(x).data
        /\ Here(x)'.time = Here(x).time \/ WillBeSet(x)

LEMMA MixedConstant ==
    ASSUME node' = node, request' = request, hint' = hint,
           \A x \in Reached(request) : hint[x].kind = "none" /\ Wanted(x).type # "symlink" =>
                /\ IsLink(x)' <=> IsLink(x)
                /\ IsLink(x) => disk'.at[x].data = disk.at[x].data
    PROVE \A x : (Mixed(x)' <=> Mixed(x)) /\ (Concerns(x)' <=> Concerns(x))
<1>1. Reached(request)' = Reached(request) /\ \A p : Wanted(p)' = Wanted(p)
    BY CommandConstant
<1>2. \A x : /\ Through(x)' <=> Through(x)
             /\ Through(x) => disk'.at[x].data = disk.at[x].data
    BY <1>1 DEF Through
<1>3. \A x : Mixed(x)' <=> Mixed(x)
    BY <1>2 DEF Mixed
<1> QED BY <1>3 DEF Concerns

LEMMA FrameFine ==
    ASSUME node' = node, stored' = stored, request' = request, hint' = hint,
           NEW x \in Reached(request), Concerns(x)' <=> Concerns(x), Shape(x), Value(x),
           step'[x] = step[x], \A y \in Subnodes(x) : step[y] # "ahead" => step'[y] # "ahead",
           StepFine(x, step[x])
    PROVE StepFine(x, step[x])'
<1> DEFINE w == Wanted(x)
           o == Here(x)
           n == Here(x)'
<1>1. /\ Wanted(x)' = w /\ Subnodes(x)' = Subnodes(x) /\ Broken' = Broken
      /\ \A y : AffectsParent(y)' <=> AffectsParent(y)
      /\ Remade(x)' <=> Remade(x)
    BY CommandConstant, HintsKeep DEF Broken
<1>2. (n = None <=> o = None) /\ n.type = o.type
    <2>1. o = (IF w.type = "symlink" THEN disk.at[x] ELSE Followed(x))
        BY DEF Here, Seen
    <2>2. n = (IF w.type = "symlink" THEN disk'.at[x] ELSE Followed(x)')
        BY <1>1 DEF Here, Seen
    <2> QED BY <2>1, <2>2 DEF Shape
<1>3. Concerns(x) /\ HasType(x) => n.attr = o.attr /\ n.data = o.data /\ (n.time = o.time \/ WillBeSet(x))
    BY DEF Value
<1> HIDE DEF w, o, n
<1>4. HasType(x)' <=> HasType(x)
    BY <1>1, <1>2 DEF HasType, Shape, w, o, n
<1>5. HasType(x) /\ AttrFine(x) => AttrFine(x)'
    BY <1>1, <1>3 DEF AttrFine, w, o, n
<1>6. HasType(x) /\ DataFine(x) => DataFine(x)'
    BY <1>1, <1>3 DEF DataFine, w, o, n
<1>7. HasType(x) /\ TimeFine(x) => TimeFine(x)' \/ WillBeSet(x)
    BY <1>1, <1>3 DEF TimeFine, w, o, n
<1>8. (InTheWay(x) => InTheWay(x)') /\ (Missing(x) => Missing(x)') /\ (~Missing(x) => ~Missing(x)')
    BY <1>1 DEF InTheWay, Missing, Shape, w
<1>9. HintHolds(x) /\ ~WillBeSet(x) => HintHolds(x)'
    <2>1. Concerns(x) /\ HasType(x) /\ ~WillBeSet(x) => Changed(w, n) = Changed(w, o)
        BY <1>3 DEF Changed
    <2> QED BY <1>1, <1>4, <1>8, <2>1 DEF HintHolds, w, o, n
<1>10. step[x] = "fill" => (Concerns(x)' => Here(x)'.data = Torn)
    <2>1. step[x] = "fill" => HasType(x) /\ (Concerns(x) => o.data = Torn)
        BY DEF StepFine, o
    <2> QED BY <1>3, <2>1 DEF n
<1>11. step[x] # "subnodes" => ~WillBeSet(x)
    BY DEF WillBeSet
<1>12. (step[x] \in {"ahead", "change_attr"} => HintHolds(x)')
       /\ (step[x] = "remove" => InTheWay(x)')
       /\ (step[x] = "remove_tree" => ~Missing(x)')
       /\ (step[x] \in {"mkdir", "symlink"} \/ (step[x] = "open" /\ Remade(x)) => Missing(x)')
    BY <1>8, <1>9, <1>11 DEF StepFine
<1>13. (step[x] = "open" /\ ~Remade(x) => HasType(x)' /\ AttrFine(x)')
       /\ (step[x] = "fill" => HasType(x)' /\ (~Remade(x) => AttrFine(x)'))
       /\ (step[x] = "attr" => HasType(x)' /\ DataFine(x)')
       /\ (step[x] \in {"time"} \cup Passed => HasType(x)' /\ AttrFine(x)' /\ DataFine(x)')
    <2>1. (step[x] = "open" /\ ~Remade(x) => HasType(x) /\ AttrFine(x))
          /\ (step[x] = "fill" => HasType(x) /\ (~Remade(x) => AttrFine(x)))
          /\ (step[x] = "attr" => HasType(x) /\ DataFine(x))
          /\ (step[x] \in {"time"} \cup Passed => HasType(x) /\ AttrFine(x) /\ DataFine(x))
        BY DEF StepFine
    <2> QED BY <1>4, <1>5, <1>6, <2>1
<1>14. step[x] = "subnodes" =>
            TimeFine(x)' \/ \E q \in Subnodes(x) : step'[q] # "ahead" /\ AffectsParent(q)
    <2>1. WillBeSet(x) => \E q \in Subnodes(x) : step'[q] # "ahead" /\ AffectsParent(q)
        BY DEF WillBeSet
    <2>2. HasType(x) \/ step[x] # "subnodes"
        BY DEF StepFine, Passed
    <2> QED BY <1>7, <2>1, <2>2 DEF StepFine
<1>15. step[x] = "behind" => TimeFine(x)'
    BY <1>7, <1>11 DEF StepFine, Passed
<1> QED BY <1>1, <1>10, <1>12, <1>13, <1>14, <1>15 DEF StepFine

LEMMA NothingSame ==
    ASSUME disk' = disk, node' = node, request' = request, hint' = hint
    PROVE \A x : Shape(x) /\ Value(x) /\ (Concerns(x)' <=> Concerns(x))
<1>1. \A x : Same(x)
    BY DiskConstant DEF Same
<1>2. \A x : Shape(x)
    BY <1>1, SameIsIntact DEF Shape, Intact
<1>3. \A p : Wanted(p)' = Wanted(p)
    BY CommandConstant
<1>4. \A x : Here(x)' = Here(x)
    BY <1>3, DiskConstant DEF Here
<1>5. \A x : Concerns(x)' <=> Concerns(x)
    BY MixedConstant, DiskConstant
<1> QED BY <1>2, <1>4, <1>5 DEF Value

LEMMA EnterSteady ==
    ASSUME RestoreInv, SteadyInv, NEW q \in Paths, Enter(q)
    PROVE SteadyInv'
<1>1. /\ step[q] = "ahead" /\ step' = [step EXCEPT ![q] = FirstStep(q)]
      /\ node' = node /\ request' = request /\ hint' = hint /\ disk' = disk /\ stored' = stored
      /\ pc = "restore"
    BY DEF Enter, repository, command
<1>2. RepositoryInv /\ request \in Requests /\ HintFacts(q) /\ hint[q] \in HintType /\ DOMAIN step = Paths
    BY <1>1 DEF RestoreInv, TypeOK, HintInv, HintType
<1>3. FirstStep(q) # "ahead"
    BY EnterWalk DEF StepFacts, Calls
<1>4. Reached(request)' = Reached(request)
    BY <1>1, CommandConstant
<1>5. \A y : step[y] # "ahead" => step'[y] # "ahead"
    BY <1>1, <1>3
<1>6. ASSUME NEW x \in Reached(request) PROVE StepFine(x, step[x])'
    <2>1. x \in Paths /\ StepFine(x, step[x])
        BY DEF Reached, SteadyInv
    <2>2. CASE x # q
        <3>1. step'[x] = step[x] /\ Shape(x) /\ Value(x) /\ (Concerns(x)' <=> Concerns(x))
            BY <1>1, <1>2, <2>1, <2>2, NothingSame
        <3> QED BY <1>1, <1>5, <2>1, <3>1, FrameFine
    <2>3. CASE x = q
        <3>1. HintHolds(q)
            BY <1>1, <2>1, <2>3 DEF StepFine
        <3>2. StepFine(q, FirstStep(q))
            BY <1>2, <2>3, <3>1, FirstFine
        <3>3. step'[q] = FirstStep(q) /\ FirstStep(q) # "ahead"
            BY <1>1, <1>2, <1>3
        <3>4. Subnodes(q)' = Subnodes(q)
            BY <1>1, CommandConstant
        <3>0. PICK s : s = FirstStep(q)
            OBVIOUS
        <3>5. StepFine(q, s)'
            <4>1. \A p : /\ HasType(p)' <=> HasType(p)
                         /\ AttrFine(p)' <=> AttrFine(p)
                         /\ TimeFine(p)' <=> TimeFine(p)
                         /\ DataFine(p)' <=> DataFine(p)
                         /\ InTheWay(p)' <=> InTheWay(p)
                         /\ Missing(p)' <=> Missing(p)
                         /\ HintHolds(p)' <=> HintHolds(p)
                         /\ Concerns(p)' <=> Concerns(p)
                         /\ Here(p)' = Here(p)
                         /\ Remade(p)' <=> Remade(p)
                         /\ AffectsParent(p)' <=> AffectsParent(p)
                BY <1>1, NothingMoves
            <4>2. StepFine(q, s)
                BY <3>0, <3>2
            <4> QED BY <1>5, <3>4, <4>1, <4>2 DEF StepFine
        <3>6. step'[q] = s
            BY <3>0, <3>3
        <3> QED BY <2>3, <3>5, <3>6
    <2> QED BY <2>2, <2>3
<1> QED BY <1>4, <1>6 DEF SteadyInv

LEMMA LeaveSteady ==
    ASSUME RestoreInv, SteadyInv, NEW q \in Paths, Leave(q)
    PROVE SteadyInv'
<1> DEFINE again == node[q].policy # "none" /\ \E x \in Subnodes(q) : AffectsParent(x)
           s == IF again THEN "time_again" ELSE "behind"
<1>1. /\ step[q] = "subnodes" /\ step' = [step EXCEPT ![q] = s]
      /\ node' = node /\ request' = request /\ hint' = hint /\ disk' = disk /\ stored' = stored
    BY DEF Leave, repository, command
<1>2. DOMAIN step = Paths
    BY DEF RestoreInv, TypeOK
<1>3. s # "ahead"
    OBVIOUS
<1>4. Reached(request)' = Reached(request)
    BY <1>1, CommandConstant
<1>5. \A y : step[y] # "ahead" => step'[y] # "ahead"
    BY <1>1, <1>3
<1>6. ASSUME NEW x \in Reached(request) PROVE StepFine(x, step[x])'
    <2>1. x \in Paths /\ StepFine(x, step[x])
        BY DEF Reached, SteadyInv
    <2>2. CASE x # q
        <3>1. step'[x] = step[x] /\ Shape(x) /\ Value(x) /\ (Concerns(x)' <=> Concerns(x))
            BY <1>1, <1>2, <2>1, <2>2, NothingSame
        <3> QED BY <1>1, <1>5, <2>1, <3>1, FrameFine
    <2>3. CASE x = q
        <3>1. /\ HasType(q) /\ AttrFine(q) /\ DataFine(q)
              /\ TimeFine(q) \/ \E y \in Subnodes(q) : AffectsParent(y)
            BY <1>1, <2>1, <2>3 DEF StepFine, Passed
        <3>2. ~again => TimeFine(q)
            BY <3>1 DEF TimeFine, Concerns
        <3>3. HasType(q)' /\ AttrFine(q)' /\ DataFine(q)' /\ (~again => TimeFine(q)')
            BY <1>1, <3>1, <3>2, NothingMoves
        <3>4. step'[q] = s /\ s \in {"time_again", "behind"} /\ (s = "behind" => ~again)
            BY <1>1, <1>2
        <3> HIDE DEF s, again
        <3> QED BY <2>3, <3>3, <3>4 DEF StepFine, Passed
    <2> QED BY <2>2, <2>3
<1> HIDE DEF s, again
<1> QED BY <1>4, <1>6 DEF SteadyInv

(* What is there has directories all the way up. *)
LEMMA WayUp ==
    ASSUME disk \in Disks, Closed, NEW x \in Paths, disk.at[x] # None
    PROVE \A a \in Above(x) : a \in Paths /\ disk.at[a] # None /\ IsDirectory(a)
<1> DEFINE S == {p \in Paths : disk.at[p] # None =>
                    \A a \in Above(p) : a \in Paths /\ disk.at[a] # None /\ IsDirectory(a)}
<1>1. ASSUME NEW p \in Paths, Parent[p] = Root \/ Parent[p] \in S PROVE p \in S
    <2>1. CASE Parent[p] = Root
        BY <2>1, TreeFacts
    <2>2. CASE Parent[p] # Root /\ disk.at[p] # None
        <3>1. Parent[p] \in S /\ Parent[p] \in Paths /\ IsDirectory(Parent[p])
            BY <1>1, <2>2 DEF Closed
        <3>2. disk.at[Parent[p]] # None
            BY <3>1, FollowedFacts
        <3>3. Above(p) = {Parent[p]} \cup Above(Parent[p])
            <4>1. Above(p) = Ancestors[Parent[p]] /\ Parent[p] \in Ancestors[Parent[p]]
                BY <3>1, TreeFacts
            <4> QED BY <4>1 DEF Above
        <3> QED BY <3>1, <3>2, <3>3
    <2>3. CASE disk.at[p] = None
        BY <2>3
    <2> QED BY <2>1, <2>2, <2>3
<1>2. S \in SUBSET Paths
    OBVIOUS
<1> HIDE DEF S
<1>3. x \in S
    BY <1>1, <1>2, TreeInduction
<1> QED BY <1>3 DEF S

(* A system call while nobody interferes. *)
Working(q) ==
    /\ Calling(q) /\ SteadyInv /\ WalkInv /\ HintFacts(q)
    /\ node' = node /\ stored' = stored /\ request' = request /\ hint' = hint
    /\ step'[q] # "ahead"
Linked(x) ==
    /\ IsLink(x)' <=> IsLink(x)
    /\ IsLink(x) => disk'.at[x].data = disk.at[x].data
Undisturbed(x) == Shape(x) /\ Value(x) /\ Linked(x)

LEMMA SameUndisturbed ==
    ASSUME node' = node, request' = request, NEW x, Same(x)
    PROVE Undisturbed(x)
<1>1. Shape(x) /\ Linked(x)
    BY SameIsIntact DEF Shape, Intact, Linked
<1>2. Wanted(x)' = Wanted(x)
    BY CommandConstant
<1>3. Here(x)' = Here(x)
    BY <1>2 DEF Here, Seen, Same
<1> QED BY <1>1, <1>3 DEF Undisturbed, Value

LEMMA ParentFacts ==
    ASSUME NEW q, Working(q), Parent[q] # Root
    PROVE /\ Parent[q] \in Reached(request) /\ Wanted(Parent[q]).type = "directory"
          /\ step[Parent[q]] = "subnodes" /\ HasType(Parent[q]) /\ q \in Subnodes(Parent[q])
<1>1. RepositoryInv /\ request \in Requests /\ q \in Paths /\ q \in Reached(request) /\ WalkFacts(q)
      /\ step[q] \in Calls
    BY DEF Working, Calling, CallFacts, WalkInv
<1>2. Parent[q] \in Reached(request) /\ Wanted(Parent[q]).type = "directory"
    BY <1>1, WantedFacts
<1>3. step[Parent[q]] = "subnodes" /\ q \in Subnodes(Parent[q])
    BY <1>1 DEF WalkFacts, Calls
<1>4. StepFine(Parent[q], step[Parent[q]])
    BY <1>2 DEF Working, SteadyInv
<1> QED BY <1>2, <1>3, <1>4 DEF StepFine, Passed

(* What is seen through two links is not what a restore answers for. *)
LEMMA MatesAreMixed ==
    ASSUME NEW x \in Reached(request), NEW y \in Reached(request), x # y, Mates(x, y),
           HasType(x), HasType(y), Wanted(x).type # "symlink", Wanted(y).type # "symlink"
    PROVE ~Concerns(x)
<1>1. IsLink(x) /\ IsLink(y) /\ disk.at[x].data = disk.at[y].data /\ x \in Paths /\ y \in Paths
    BY DEF Mates, Reached
<1>2. hint[x].kind = "none" /\ hint[y].kind = "none"
    BY <1>1 DEF HasType, IsLink
<1>3. Through(x) /\ Through(y)
    BY <1>1, <1>2 DEF Through
<1> QED BY <1>1, <1>3 DEF Concerns, Mixed

LEMMA TouchUndisturbed ==
    ASSUME NEW q, Working(q), IsDirectory(Parent[q]), AffectsParent(q),
           \A t \in Targets : disk'.outside[t] = OutsideAfter(q, t),
           NEW x \in Reached(request), x # q, disk'.at[x] = AtAfter(q, x)
    PROVE Undisturbed(x)
<1>1. disk \in Disks /\ q \in Paths /\ x \in Paths /\ node' = node /\ request' = request
    BY DEF Working, Calling, Reached
<1>2. Intact(x) /\ (x # Parent[q] /\ ~Mates(x, Parent[q]) => Same(x))
    BY <1>1, TouchFrame
<1>3. CASE Same(x)
    BY <1>1, <1>3, SameUndisturbed
<1>4. CASE ~Same(x)
    <2>1. x = Parent[q] \/ Mates(x, Parent[q])
        BY <1>2, <1>4
    <2>2. Shape(x) /\ Linked(x)
        BY <1>2 DEF Intact, Shape, Linked
    <2>3. Wanted(x)' = Wanted(x)
        BY <1>1, CommandConstant
    <2>4. Here(x)'.attr = Here(x).attr /\ Here(x)'.data = Here(x).data
        BY <1>2, <2>3 DEF Here, Seen, Intact
    <2>5. Parent[q] # Root
        BY <1>1, <2>1, TreeFacts DEF Mates
    <2>6. CASE x = Parent[q]
        <3>1. WillBeSet(x)
            BY <2>5, <2>6, ParentFacts DEF WillBeSet, Working
        <3> QED BY <2>2, <2>4, <3>1 DEF Undisturbed, Value
    <2>7. CASE x # Parent[q] /\ Wanted(x).type = "symlink"
        <3>1. disk'.at[x] = disk.at[x]
            BY <2>7 DEF AtAfter
        <3>2. Here(x)' = Here(x)
            BY <2>3, <2>7, <3>1 DEF Here, Seen
        <3> QED BY <2>2, <3>2 DEF Undisturbed, Value
    <2>8. CASE x # Parent[q] /\ Wanted(x).type # "symlink"
        <3>1. /\ Parent[q] \in Reached(request) /\ Wanted(Parent[q]).type = "directory"
              /\ HasType(Parent[q])
            BY <2>5, ParentFacts
        <3>2. ~(Concerns(x) /\ HasType(x))
            BY <2>1, <2>8, <3>1, MatesAreMixed
        <3> QED BY <2>2, <3>2 DEF Undisturbed, Value
    <2> QED BY <2>6, <2>7, <2>8
<1> QED BY <1>3, <1>4

LEMMA WriteUndisturbed ==
    ASSUME NEW q, Working(q), NEW o \in Things, Wrote(q, o), Followed(q) \in Things,
           o.type = Followed(q).type, HasType(q), Wanted(q).type # "symlink"
    PROVE /\ \A x \in Reached(request) : x # q => Undisturbed(x)
          /\ Linked(q)
<1>1. disk \in Disks /\ q \in Paths /\ q \in Reached(request) /\ node' = node /\ request' = request
    BY DEF Working, Calling, CallFacts
<1>2. Followed(q) # None /\ o # None
    BY ThingFacts
<1>3. IsLink(q) \/ o.type # "symlink"
    BY <1>1, <1>2, FollowedFacts DEF IsLink
<1>4. ASSUME NEW x \in Reached(request), x # q PROVE Undisturbed(x)
    <2>1. x \in Paths
        BY DEF Reached
    <2>2. CASE ~Mates(x, q)
        BY <1>1, <1>4, <2>1, <2>2, WriteFrame, SameUndisturbed
    <2>3. CASE Mates(x, q)
        <3>1. disk'.at[x] = disk.at[x] /\ (IsLink(x)' <=> IsLink(x)) /\ Followed(x)' = o
            BY <1>1, <1>3, <1>4, <2>1, <2>3, WriteFrame
        <3>2. Followed(x) = Followed(q)
            BY <1>1, <2>1, <2>3, FollowedFacts DEF Mates
        <3>3. Shape(x) /\ Linked(x)
            BY <1>2, <3>1, <3>2 DEF Shape, Linked, IsDirectory
        <3>4. Wanted(x)' = Wanted(x)
            BY <1>1, CommandConstant
        <3>5. CASE Wanted(x).type = "symlink"
            <4>1. Here(x)' = Here(x)
                BY <3>1, <3>4, <3>5 DEF Here, Seen
            <4> QED BY <3>3, <4>1 DEF Undisturbed, Value
        <3>6. CASE Wanted(x).type # "symlink"
            <4>1. ~(Concerns(x) /\ HasType(x))
                BY <1>1, <1>4, <2>3, <3>6, MatesAreMixed
            <4> QED BY <3>3, <4>1 DEF Undisturbed, Value
        <3> QED BY <3>5, <3>6
    <2> QED BY <2>2, <2>3
<1>5. Linked(q)
    <2>1. CASE IsLink(q)
        <3>1. disk'.at[q] = disk.at[q]
            BY <1>1, <2>1, WriteFrame
        <3> QED BY <3>1 DEF Linked, IsLink
    <2>2. CASE ~IsLink(q)
        <3>1. disk'.at[q] = o
            BY <1>1, <2>2 DEF Wrote
        <3> QED BY <1>3, <2>2, <3>1 DEF Linked, IsLink
    <2> QED BY <2>1, <2>2
<1> QED BY <1>4, <1>5

LEMMA RemadeAffects ==
    ASSUME NEW q, NEW s, CallFacts(q, s), Remade(q) PROVE AffectsParent(q)
BY DEF CallFacts, Remade, AffectsParent

LEMMA CreateUndisturbed ==
    ASSUME NEW q, Working(q), NEW o, Created(q, o), Remade(q)
    PROVE \A x \in Reached(request) : x # q => Undisturbed(x)
<1>1. AffectsParent(q)
    BY RemadeAffects DEF Working, Calling
<1>2. IsDirectory(Parent[q]) /\ \A t \in Targets : disk'.outside[t] = OutsideAfter(q, t)
    BY DEF Created
<1>3. ASSUME NEW x \in Reached(request), x # q PROVE Undisturbed(x)
    <2>1. disk'.at[x] = AtAfter(q, x)
        BY <1>3 DEF Created, Reached
    <2> QED BY <1>1, <1>2, <1>3, <2>1, TouchUndisturbed
<1> QED BY <1>3

(* Nothing that is restored is below what is removed. *)
LEMMA NothingBelow ==
    ASSUME NEW q, Working(q), step[q] \in {"remove", "remove_tree"},
           NEW x \in Reached(request), x # q, q \in Ancestors[x]
    PROVE Wanted(q).type = "directory" /\ step[q] = "remove" /\ disk.at[x] = None
<1>1. /\ disk \in Disks /\ Closed /\ RepositoryInv /\ request \in Requests /\ q \in Paths
      /\ CallFacts(q, step[q]) /\ q \in Reached(request)
    BY DEF Working, Calling, CallFacts
<1>2. x \in Paths /\ q \in Above(x) /\ request.path \in Paths \cup {Root}
    BY <1>1 DEF Reached, Above, Requests
<1>3. Wanted(q).type = "directory"
    BY <1>2, ReachedFacts DEF DirectoryAt, Wanted
<1>4. step[q] = "remove"
    BY <1>1, <1>3 DEF CallFacts, HintFacts, Working
<1>5. StepFine(q, step[q])
    BY <1>1 DEF Working, SteadyInv
<1>6. step[q] = "remove" => disk.at[x] = None
    <2> SUFFICES ASSUME step[q] = "remove", disk.at[x] # None PROVE FALSE
        OBVIOUS
    <2>1. InTheWay(q)
        BY <1>5 DEF StepFine
    <2>2. ~IsDirectory(q)
        BY <1>3, <2>1 DEF InTheWay
    <2>3. IsDirectory(q)
        BY <1>1, <1>2, WayUp
    <2> QED BY <2>2, <2>3
<1> QED BY <1>3, <1>4, <1>6

LEMMA RemoveUndisturbed ==
    ASSUME NEW q, Working(q), step[q] \in {"remove", "remove_tree"}
    PROVE /\ \A x \in Reached(request) : x # q => Undisturbed(x)
          /\ step[q] = "remove" => disk'.at[q] = None
<1>1. /\ disk \in Disks /\ Closed /\ RepositoryInv /\ request \in Requests /\ q \in Paths
      /\ CallFacts(q, step[q]) /\ Calling(q) /\ node' = node /\ request' = request
    BY DEF Working, Calling
<1>2. Remade(q) /\ AffectsParent(q)
    <2>1. Remade(q)
        BY <1>1 DEF CallFacts, Remade
    <2> QED BY <1>1, <2>1, RemadeAffects
<1>3. ASSUME Removed(q), NEW x \in Reached(request), x # q PROVE Undisturbed(x)
    <2>1. IsDirectory(Parent[q]) /\ \A t \in Targets : disk'.outside[t] = OutsideAfter(q, t)
        BY <1>1, <1>3 DEF Removed, Closed
    <2>2. x \in Paths
        BY DEF Reached
    <2>3. CASE q \notin Ancestors[x]
        <3>1. disk'.at[x] = AtAfter(q, x)
            BY <1>3, <2>2, <2>3 DEF Removed
        <3> QED BY <1>2, <1>3, <2>1, <3>1, TouchUndisturbed
    <2>4. CASE q \in Ancestors[x]
        <3>1. disk.at[x] = None
            BY <1>3, <2>4, NothingBelow
        <3>2. disk'.at[x] = None
            BY <1>3, <2>2, <2>4 DEF Removed
        <3>3. Same(x)
            BY <3>1, <3>2 DEF Same, Followed
        <3> QED BY <1>1, <3>3, SameUndisturbed
    <2> QED BY <2>3, <2>4
<1>4. CASE step[q] = "remove"
    <2>1. Removed(q)
        BY <1>1, <1>4, RemoveResult
    <2>2. disk'.at[q] = None
        BY <1>1, <2>1, TreeFacts DEF Removed
    <2> QED BY <1>3, <2>1, <2>2
<1>5. CASE step[q] = "remove_tree"
    <2>1. PICK z \in Paths :
            /\ z = q \/ q \in Above(z)
            /\ Removed(z)
            /\ \A a \in Ancestors[z] \ Above(q) : a = z \/ (disk.at[a] # None /\ disk.at[a].type = "directory")
        BY <1>1, <1>5, TreeResult
    <2>2. CASE z = q
        BY <1>3, <1>5, <2>1, <2>2
    <2>3. CASE z # q
        <3>1. q \in Above(z) /\ Parent[z] # Root /\ Parent[z] \in Above(z)
            BY <2>1, <2>3, TreeFacts
        <3>2. q \in Ancestors[Parent[z]] /\ Parent[z] \in Paths
            BY <3>1, TreeFacts
        <3>3. ~IsLink(Parent[z])
            <4>1. Parent[z] \notin Above(q)
                <5>1. Parent[z] \in Above(q) => q \notin Ancestors[Parent[z]]
                    BY <1>1, TreeFacts
                <5> QED BY <3>2, <5>1
            <4>2. Parent[z] \in Ancestors[z] /\ Parent[z] # z
                BY <3>1 DEF Above
            <4>3. disk.at[Parent[z]].type = "directory"
                BY <2>1, <4>1, <4>2
            <4> QED BY <4>3 DEF IsLink
        <3>4. ASSUME NEW x \in Reached(request), x # q PROVE Undisturbed(x)
            <4>1. x \in Paths /\ q \notin Ancestors[x]
                BY <1>5, <3>4, NothingBelow DEF Reached
            <4>2. z \notin Ancestors[x] /\ x # Parent[z]
                <5>1. q \in Ancestors[z]
                    BY <3>1 DEF Above
                <5>2. z \in Ancestors[x] => Ancestors[z] \subseteq Ancestors[x]
                    BY <4>1, TreeFacts
                <5> QED BY <3>2, <4>1, <5>1, <5>2
            <4>3. disk'.at[x] = AtAfter(z, x)
                BY <2>1, <4>1, <4>2 DEF Removed
            <4>4. ~Mates(x, Parent[z])
                BY <3>3 DEF Mates
            <4>5. IsDirectory(Parent[z]) /\ \A t \in Targets : disk'.outside[t] = OutsideAfter(z, t)
                BY <1>1, <2>1 DEF Removed, Closed
            <4>6. Same(x)
                BY <1>1, <4>1, <4>2, <4>3, <4>4, <4>5, TouchFrame
            <4> QED BY <1>1, <4>6, SameUndisturbed
        <3> QED BY <1>5, <3>4
    <2> QED BY <2>2, <2>3
<1> QED BY <1>4, <1>5

LEMMA OpenEffect ==
    ASSUME NEW q, Working(q), step[q] = "open"
    PROVE /\ Wanted(q).type = "regular_file" /\ (Remade(q) <=> hint[q].kind # "none")
          /\ \/ Remade(q) /\ Created(q, EmptyFile)
             \/ /\ ~Remade(q) /\ HasType(q) /\ AttrFine(q)
                /\ Followed(q) \in Things /\ Followed(q).type = "regular_file"
                /\ Wrote(q, [Followed(q) EXCEPT !.data = Torn, !.time = Now])
                /\ [Followed(q) EXCEPT !.data = Torn, !.time = Now] \in Things
<1>1. disk \in Disks /\ q \in Paths /\ Calling(q) /\ CallFacts(q, step[q]) /\ StepFine(q, step[q])
    BY DEF Working, Calling, CallFacts, SteadyInv
<1>2. Wanted(q).type = "regular_file" /\ (Remade(q) <=> hint[q].kind # "none")
    BY <1>1 DEF CallFacts, Remade
<1>3. CASE Remade(q)
    <2>1. disk.at[q] = None /\ Followed(q) = None
        BY <1>1, <1>3, FollowedFacts DEF StepFine, Missing
    <2> QED BY <1>1, <1>2, <1>3, <2>1, OpenResult, ThingFacts
<1>4. CASE ~Remade(q)
    <2>1. HasType(q) /\ AttrFine(q)
        BY <1>1, <1>4 DEF StepFine
    <2>2. Here(q) # None /\ Here(q) = Followed(q)
        BY <1>2, <1>4, <2>1 DEF HasType, Here, Seen
    <2>3. disk.at[q] # None /\ Followed(q) # None
        BY <1>1, <2>2, FollowedFacts
    <2> QED BY <1>1, <1>2, <1>4, <2>1, <2>3, OpenResult DEF Created
<1> QED BY <1>3, <1>4

LEMMA TypeHere ==
    ASSUME NEW q, Working(q), step[q] \in {"fill", "change_attr", "attr", "time", "time_again"}
    PROVE HasType(q)
BY DEF Working, Calling, CallFacts, SteadyInv, StepFine, HintHolds, Passed

(* Every call leaves the other paths of the command as they are. *)
LEMMA CallFrame ==
    ASSUME NEW q, Working(q)
    PROVE /\ \A x \in Reached(request) : x # q => Undisturbed(x)
          /\ \A x : Concerns(x)' <=> Concerns(x)
<1>1. /\ disk \in Disks /\ q \in Paths /\ Calling(q) /\ CallFacts(q, step[q]) /\ step[q] \in Calls
      /\ node' = node /\ request' = request /\ hint' = hint
    BY DEF Working, Calling
<1>2. ASSUME NEW o \in Things, Wrote(q, o), Followed(q) \in Things,
             o.type = Followed(q).type, HasType(q), Wanted(q).type # "symlink"
      PROVE /\ \A x \in Reached(request) : x # q => Undisturbed(x)
            /\ Linked(q)
    BY <1>2, WriteUndisturbed
<1> DEFINE Goal == /\ \A x \in Reached(request) : x # q => Undisturbed(x)
                   /\ Remade(q) \/ Wanted(q).type = "symlink" \/ Linked(q)
<1>3. ASSUME step[q] \in {"remove", "remove_tree"} PROVE Goal
    <2>1. Remade(q)
        BY <1>1, <1>3 DEF CallFacts, Remade
    <2> QED BY <1>3, <2>1, RemoveUndisturbed
<1>4. ASSUME step[q] \in {"mkdir", "symlink"} PROVE Goal
    <2>1. Remade(q)
        BY <1>1, <1>4 DEF CallFacts
    <2> QED BY <1>1, <1>4, <2>1, MakeResult, CreateUndisturbed
<1>5. ASSUME step[q] = "open" PROVE Goal
    <2>1. CASE Remade(q)
        BY <1>5, <2>1, OpenEffect, CreateUndisturbed
    <2>2. CASE ~Remade(q)
        <3> DEFINE o == [Followed(q) EXCEPT !.data = Torn, !.time = Now]
        <3>1. /\ HasType(q) /\ Followed(q) \in Things /\ Wanted(q).type = "regular_file"
              /\ Wrote(q, o) /\ o \in Things
            BY <1>5, <2>2, OpenEffect
        <3>2. o.type = Followed(q).type
            BY <3>1, ChangedThing
        <3> HIDE DEF o
        <3> QED BY <1>2, <3>1, <3>2
    <2> QED BY <2>1, <2>2
<1>6. ASSUME step[q] = "fill" PROVE Goal
    <2>1. HasType(q) /\ Wanted(q).type = "regular_file"
        BY <1>1, <1>6, TypeHere DEF CallFacts
    <2>2. CASE disk' = disk
        <3>1. \A x : Same(x)
            BY <2>2, DiskConstant DEF Same
        <3>2. \A x : Undisturbed(x)
            BY <1>1, <3>1, SameUndisturbed
        <3> QED BY <3>2 DEF Undisturbed
    <2>3. CASE disk' # disk
        <3>1. PICK b : /\ Followed(q) \in Things
                       /\ Wrote(q, [Followed(q) EXCEPT !.data = b])
                       /\ [Followed(q) EXCEPT !.data = b] \in Things
            BY <1>1, <1>6, <2>3, FillResult
        <3>2. [Followed(q) EXCEPT !.data = b].type = Followed(q).type
            BY <3>1, ChangedThing
        <3> QED BY <1>2, <2>1, <3>1, <3>2
    <2> QED BY <2>2, <2>3
<1>7. ASSUME step[q] \in {"change_attr", "attr"} /\ Wanted(q).type = "symlink" PROVE Goal
    <2>1. PICK o : WroteLink(q, o)
        BY <1>1, <1>7, LinkAttrResult
    <2>2. \A x \in Reached(request) : x # q => Undisturbed(x)
        BY <1>1, <2>1, WriteLinkFrame, SameUndisturbed DEF Reached
    <2> QED BY <1>7, <2>2
<1>8. ASSUME step[q] \in {"change_attr", "attr"} /\ Wanted(q).type # "symlink" PROVE Goal
    <2> DEFINE o == [Followed(q) EXCEPT !.attr = Wanted(q).attr]
    <2>1. o \in Things /\ Followed(q) \in Things /\ Wrote(q, o) /\ HasType(q)
        BY <1>1, <1>8, AttrResult, TypeHere
    <2>2. o.type = Followed(q).type
        BY <2>1, ChangedThing
    <2> HIDE DEF o
    <2> QED BY <1>2, <1>8, <2>1, <2>2
<1>9. ASSUME step[q] \in {"time", "time_again"} PROVE Goal
    <2> DEFINE o == [Followed(q) EXCEPT !.time = Wanted(q).time]
    <2>1. o \in Things /\ Followed(q) \in Things /\ Wrote(q, o) /\ HasType(q)
        BY <1>1, <1>9, TimeResult, TypeHere
    <2>2. o.type = Followed(q).type
        BY <2>1, ChangedThing
    <2>3. Wanted(q).type # "symlink"
        <3>1. step[q] = "time_again" => Wanted(q).type = "directory"
            BY <1>1 DEF Working, WalkInv, WalkFacts
        <3> QED BY <1>1, <1>9, <3>1 DEF CallFacts
    <2> HIDE DEF o
    <2> QED BY <1>2, <2>1, <2>2, <2>3
<1>10. Goal
    BY <1>1, <1>3, <1>4, <1>5, <1>6, <1>7, <1>8, <1>9 DEF Calls
<1> HIDE DEF Goal
<1>11. ASSUME NEW x \in Reached(request), hint[x].kind = "none", Wanted(x).type # "symlink" PROVE Linked(x)
    <2>1. CASE x = q
        BY <1>10, <1>11, <2>1 DEF Goal, Remade
    <2>2. CASE x # q
        BY <1>10, <2>2 DEF Goal, Undisturbed
    <2> QED BY <2>1, <2>2
<1>12. \A x : Concerns(x)' <=> Concerns(x)
    BY <1>1, <1>11, MixedConstant DEF Linked
<1> QED BY <1>10, <1>12 DEF Goal

(* What a call makes of its own path. *)
LEMMA OwnWrite ==
    ASSUME NEW q, Working(q), NEW o \in Things, Wrote(q, o), Followed(q) \in Things,
           o.type = Followed(q).type, HasType(q), Wanted(q).type # "symlink"
    PROVE HasType(q)' /\ Here(q)' = o /\ Here(q) = Followed(q)
<1>1. disk \in Disks /\ q \in Paths /\ node' = node /\ request' = request /\ hint' = hint
    BY DEF Working, Calling
<1>2. Followed(q) # None /\ o # None
    BY ThingFacts
<1>3. IsLink(q) \/ o.type # "symlink"
    BY <1>1, <1>2, FollowedFacts DEF IsLink
<1>4. Followed(q)' = o
    BY <1>1, <1>3, WriteFrame
<1>5. Wanted(q)' = Wanted(q)
    BY <1>1, CommandConstant
<1>6. Here(q)' = o /\ Here(q) = Followed(q)
    BY <1>4, <1>5 DEF Here, Seen
<1>7. CASE hint[q].kind = "none"
    BY <1>1, <1>2, <1>5, <1>6, <1>7 DEF HasType
<1>8. CASE hint[q].kind # "none"
    <2>1. disk.at[q] # None /\ disk.at[q].type = Wanted(q).type /\ ~IsLink(q)
        BY <1>8 DEF HasType, IsLink
    <2>2. disk'.at[q] = o /\ Followed(q) = disk.at[q]
        BY <1>1, <2>1, FollowedFacts DEF Wrote
    <2> QED BY <1>1, <1>2, <1>5, <1>6, <1>8, <2>1, <2>2 DEF HasType
<1> QED BY <1>6, <1>7, <1>8

LEMMA OwnMake ==
    ASSUME NEW q, Working(q), NEW o \in Things, Created(q, o), o.type = Wanted(q).type
    PROVE HasType(q)' /\ Here(q)' = o
<1>1. q \in Paths /\ node' = node /\ request' = request /\ hint' = hint
    BY DEF Working, Calling
<1>2. disk'.at[q] = o /\ o # None
    BY <1>1, ThingFacts DEF Created
<1>3. Wanted(q)' = Wanted(q)
    BY <1>1, CommandConstant
<1>4. Here(q)' = o
    BY <1>2, <1>3 DEF Here, Seen, Followed
<1> QED BY <1>1, <1>2, <1>3, <1>4 DEF HasType

LEMMA OwnRemove ==
    ASSUME NEW q, Working(q), step[q] \in {"remove", "remove_tree"}, disk'.at[q] = None
    PROVE StepFine(q, MakeStep(q))' /\ Remade(q)'
<1>1. /\ RepositoryInv /\ request \in Requests /\ CallFacts(q, step[q]) /\ q \in Reached(request)
      /\ node' = node /\ request' = request /\ hint' = hint
    BY DEF Working, Calling, CallFacts
<1>2. Remade(q) /\ (hint[q].kind = "none" => node[q].policy # "none")
    BY <1>1 DEF CallFacts, Remade
<1>3. MakeStep(q) \in {"open", "symlink", "mkdir"}
    BY <1>1, <1>2, MakeStepFacts
<1>4. MakeStep(q)' = MakeStep(q) /\ Remade(q)'
    BY <1>1, <1>2, CommandConstant, HintsKeep DEF MakeStep
<1>5. Missing(q)'
    BY DEF Missing
<1> QED BY <1>3, <1>4, <1>5 DEF StepFine, Passed

LEMMA OwnCreate ==
    ASSUME NEW q, Working(q), step[q] \in {"mkdir", "symlink"}
    PROVE StepFine(q, "attr")'
<1>1. /\ RepositoryInv /\ request \in Requests /\ Calling(q) /\ q \in Reached(request)
      /\ CallFacts(q, step[q]) /\ node' = node /\ request' = request /\ hint' = hint
    BY DEF Working, Calling, CallFacts
<1>2. Fresh(q) \in Things /\ Fresh(q).type = Wanted(q).type /\ Fresh(q).data = Wanted(q).data
    BY <1>1, WantedFacts, FreshFacts
<1>3. Created(q, Fresh(q))
    BY <1>1, MakeResult
<1> DEFINE o == Fresh(q)
<1> HIDE DEF o
<1>4. HasType(q)' /\ Here(q)' = Fresh(q)
    <2>1. o \in Things /\ Created(q, o) /\ o.type = Wanted(q).type
        BY <1>2, <1>3 DEF o
    <2>2. HasType(q)' /\ Here(q)' = o
        BY <2>1, OwnMake
    <2> QED BY <2>2 DEF o
<1>5. Wanted(q)' = Wanted(q) /\ Wanted(q).type # "regular_file"
    BY <1>1, CommandConstant DEF CallFacts
<1>6. Here(q)'.data = Wanted(q).data
    BY <1>2, <1>4
<1>7. DataFine(q)'
    BY <1>5, <1>6 DEF DataFine
<1> QED BY <1>4, <1>7 DEF StepFine, Passed

LEMMA OwnOpen ==
    ASSUME NEW q, Working(q), step[q] = "open"
    PROVE StepFine(q, "fill")'
<1>1. /\ q \in Paths /\ node' = node /\ request' = request /\ hint' = hint
      /\ Wanted(q)' = Wanted(q) /\ (Remade(q)' <=> Remade(q)) /\ (Concerns(q)' <=> Concerns(q))
    BY CommandConstant, HintsKeep, CallFrame DEF Working, Calling
<1>2. CASE Remade(q)
    <2>1. Created(q, EmptyFile) /\ Wanted(q).type = "regular_file"
        BY <1>2, OpenEffect
    <2>2. HasType(q)' /\ Here(q)' = EmptyFile
        BY <2>1, OwnMake, EmptyFileFacts
    <2> QED BY <1>1, <1>2, <2>2, EmptyFileFacts DEF StepFine, Passed
<1>3. CASE ~Remade(q)
    <2> DEFINE o == [Followed(q) EXCEPT !.data = Torn, !.time = Now]
    <2>1. /\ HasType(q) /\ AttrFine(q) /\ Followed(q) \in Things /\ Wanted(q).type = "regular_file"
          /\ Wrote(q, o) /\ o \in Things
        BY <1>3, OpenEffect
    <2>2. o.type = Followed(q).type /\ o.data = Torn /\ o.attr = Followed(q).attr
        BY <2>1, ChangedThing
    <2> HIDE DEF o
    <2>3. HasType(q)' /\ Here(q)' = o /\ Here(q) = Followed(q)
        BY <2>1, <2>2, OwnWrite
    <2>5. AttrFine(q)'
        BY <1>1, <2>1, <2>2, <2>3 DEF AttrFine
    <2>6. Here(q)'.data = Torn
        BY <2>2, <2>3
    <2> QED BY <2>3, <2>5, <2>6 DEF StepFine, Passed
<1> QED BY <1>2, <1>3

LEMMA OwnFill ==
    ASSUME NEW q, Working(q), step[q] = "fill"
    PROVE /\ hint[q].kind = "none" => StepFine(q, "time")'
          /\ hint[q].kind # "none" => StepFine(q, "attr")'
<1>1. /\ q \in Paths /\ q \in Reached(request) /\ RepositoryInv /\ request \in Requests
      /\ node' = node /\ request' = request /\ hint' = hint /\ stored' = stored
      /\ Wanted(q)' = Wanted(q) /\ (Concerns(q)' <=> Concerns(q))
      /\ Calling(q) /\ CallFacts(q, step[q]) /\ disk \in Disks
    BY CommandConstant, CallFrame DEF Working, Calling, CallFacts
<1>2. Wanted(q).type = "regular_file" /\ HasType(q)
      /\ (~Remade(q) => AttrFine(q)) /\ (Concerns(q) => Here(q).data = Torn)
    BY <1>1 DEF Working, SteadyInv, StepFine, CallFacts
<1>3. Remade(q) <=> hint[q].kind # "none"
    BY <1>2 DEF Remade
<1>4. CASE disk' = disk /\ (Followed(q) = None \/ Followed(q).data # Torn)
    <2>1. ~Concerns(q)
        <3>1. Here(q) = Followed(q)
            BY <1>2 DEF Here, Seen
        <3>2. Followed(q) # None
            BY <1>1, <1>2, <3>1, FollowedFacts DEF HasType, IsLink
        <3> QED BY <1>2, <1>4, <3>1, <3>2
    <2>2. HasType(q)'
        BY <1>1, <1>2, <1>4, NothingMoves
    <2>3. AttrFine(q)' /\ DataFine(q)'
        BY <1>1, <2>1 DEF AttrFine, DataFine
    <2> QED BY <2>2, <2>3 DEF StepFine, Passed
<1>5. CASE ~(disk' = disk /\ (Followed(q) = None \/ Followed(q).data # Torn))
    <2>1. PICK b \in Given(Wanted(q).data) :
            /\ Followed(q) \in Things
            /\ Wrote(q, [Followed(q) EXCEPT !.data = b])
            /\ [Followed(q) EXCEPT !.data = b] \in Things
        BY <1>1, <1>5, FillResult DEF Working
    <2> DEFINE o == [Followed(q) EXCEPT !.data = b]
    <2>2. o.type = Followed(q).type /\ o.data = b /\ o.attr = Followed(q).attr
        BY <2>1, ChangedThing
    <2>3. o \in Things /\ Wrote(q, o)
        BY <2>1
    <2> HIDE DEF o
    <2>4. HasType(q)' /\ Here(q)' = o /\ Here(q) = Followed(q)
        BY <1>2, <2>1, <2>2, <2>3, OwnWrite
    <2>5. ~Remade(q) => AttrFine(q)'
        BY <1>1, <1>2, <2>2, <2>4 DEF AttrFine
    <2>6. Size[b] = Size[Wanted(q).data] /\ (b = Wanted(q).data \/ q \in Broken)
        <3>1. b = Wanted(q).data \/ (stored[Wanted(q).data] = "wrong" /\ Wanted(q).data \notin Small
                                        /\ Size[b] = Size[Wanted(q).data])
            BY <2>1 DEF Given
        <3>2. Wanted(q) # NonExisting
            BY <1>1, WantedFacts
        <3>3. \E pt \in node[q].history : pt.state = Wanted(q)
            BY <1>1, <3>2, WantedIsSaved
        <3>4. stored[Wanted(q).data] = "wrong" /\ Wanted(q).data \notin Small => q \in Broken
            BY <1>1, <1>2, <3>3 DEF Broken
        <3> QED BY <3>1, <3>4
    <2>7. Broken' = Broken
        BY <1>1 DEF Broken
    <2>8. Here(q)'.data = b
        BY <2>2, <2>4
    <2>9. DataFine(q)'
        BY <1>1, <1>2, <2>6, <2>7, <2>8 DEF DataFine
    <2> QED BY <1>3, <2>4, <2>5, <2>9 DEF StepFine, Passed
<1> QED BY <1>4, <1>5

(* Owner and permissions are set; the rest stays. *)
LEMMA OwnAttr ==
    ASSUME NEW q, Working(q), step[q] \in {"change_attr", "attr"}
    PROVE /\ HasType(q)' /\ AttrFine(q)'
          /\ Here(q)'.data = Here(q).data /\ Here(q)'.time = Here(q).time
<1>1. /\ q \in Paths /\ Wanted(q)' = Wanted(q) /\ HasType(q)
      /\ node' = node /\ request' = request /\ hint' = hint
      /\ Calling(q) /\ disk \in Disks
    BY CommandConstant, TypeHere DEF Working, Calling
<1>2. CASE Wanted(q).type = "symlink"
    <2> DEFINE o == [disk.at[q] EXCEPT !.attr = Wanted(q).attr]
    <2>1. disk.at[q] \in Things /\ o \in Things /\ WroteLink(q, o)
        BY <1>1, <1>2, LinkAttrResult
    <2>2. /\ o.attr = Wanted(q).attr /\ o.type = disk.at[q].type
          /\ o.data = disk.at[q].data /\ o.time = disk.at[q].time
        BY <2>1, ChangedThing
    <2> HIDE DEF o
    <2>3. disk'.at[q] = o /\ o # None
        BY <1>1, <2>1, ThingFacts DEF WroteLink
    <2>4. Here(q) = disk.at[q] /\ Here(q)' = o
        BY <1>1, <1>2, <2>3 DEF Here, Seen
    <2>5. HasType(q)'
        BY <1>1, <2>2, <2>3, <2>4 DEF HasType
    <2>6. AttrFine(q)'
        BY <1>1, <2>2, <2>4 DEF AttrFine
    <2> QED BY <2>2, <2>4, <2>5, <2>6
<1>3. CASE Wanted(q).type # "symlink"
    <2> DEFINE o == [Followed(q) EXCEPT !.attr = Wanted(q).attr]
    <2>1. Followed(q) \in Things /\ o \in Things /\ Wrote(q, o)
        BY <1>1, <1>3, AttrResult
    <2>2. /\ o.attr = Wanted(q).attr /\ o.type = Followed(q).type
          /\ o.data = Followed(q).data /\ o.time = Followed(q).time
        BY <2>1, ChangedThing
    <2> HIDE DEF o
    <2>3. HasType(q)' /\ Here(q)' = o /\ Here(q) = Followed(q)
        BY <1>1, <1>3, <2>1, <2>2, OwnWrite
    <2>4. AttrFine(q)'
        BY <1>1, <2>2, <2>3 DEF AttrFine
    <2> QED BY <2>2, <2>3, <2>4
<1> QED BY <1>2, <1>3

LEMMA OwnNewAttr ==
    ASSUME NEW q, Working(q), step[q] = "attr"
    PROVE StepFine(q, IF Wanted(q).type = "symlink" THEN "behind" ELSE "time")'
<1>1. /\ q \in Paths /\ Wanted(q)' = Wanted(q) /\ (Concerns(q)' <=> Concerns(q))
      /\ hint' = hint /\ node' = node /\ stored' = stored /\ StepFine(q, step[q])
    BY CommandConstant, CallFrame DEF Working, Calling, SteadyInv, CallFacts
<1>2. HasType(q)' /\ AttrFine(q)' /\ Here(q)'.data = Here(q).data
    BY OwnAttr
<1>3. DataFine(q)'
    <2>1. DataFine(q)
        BY <1>1 DEF StepFine
    <2>2. Broken' = Broken
        BY <1>1 DEF Broken
    <2> QED BY <1>1, <1>2, <2>1, <2>2 DEF DataFine
<1>4. CASE Wanted(q).type = "symlink"
    <2>1. TimeFine(q)'
        BY <1>1, <1>4 DEF TimeFine
    <2> QED BY <1>1, <1>2, <1>3, <1>4, <2>1 DEF StepFine, Passed
<1>5. CASE Wanted(q).type # "symlink"
    BY <1>1, <1>2, <1>3, <1>5 DEF StepFine, Passed
<1> QED BY <1>4, <1>5

LEMMA OwnChangeAttr ==
    ASSUME NEW q, Working(q), step[q] = "change_attr"
    PROVE StepFine(q, UpdateStep(q))'
<1>1. /\ q \in Paths /\ Wanted(q)' = Wanted(q) /\ (Concerns(q)' <=> Concerns(q)) /\ (HintFacts(q)' <=> HintFacts(q))
      /\ hint' = hint /\ node' = node /\ StepFine(q, step[q]) /\ CallFacts(q, step[q]) /\ HintFacts(q)
    BY CommandConstant, HintsKeep, CallFrame DEF Working, Calling, SteadyInv, CallFacts
<1>2. /\ hint[q].kind = "none" /\ node[q].policy # "none"
      /\ Concerns(q) => hint[q].changed = Changed(Wanted(q), Here(q))
    BY <1>1 DEF StepFine, CallFacts, HintHolds
<1>3. HasType(q)' /\ AttrFine(q)' /\ Here(q)'.data = Here(q).data /\ Here(q)'.time = Here(q).time
    BY OwnAttr
<1> DEFINE w == Wanted(q)
           o == Here(q)
           n == Here(q)'
<1>4. /\ "content" \in Changed(w, n) <=> "content" \in Changed(w, o)
      /\ "time" \in Changed(w, n) <=> "time" \in Changed(w, o)
    <2>1. n.data = o.data /\ n.time = o.time
        BY <1>3
    <2> HIDE DEF w, n, o
    <2> QED BY <2>1 DEF Changed
<1>5. Updating(q)'
    BY <1>1, <1>2, <1>3, <1>4 DEF Updating
<1> QED BY <1>1, <1>5, UpdateFineLater

LEMMA OwnTime ==
    ASSUME NEW q, Working(q), step[q] \in {"time", "time_again"}
    PROVE \A s \in {"subnodes", "behind"} : StepFine(q, s)'
<1>1. /\ q \in Paths /\ Wanted(q)' = Wanted(q) /\ (Concerns(q)' <=> Concerns(q)) /\ Calling(q)
      /\ hint' = hint /\ node' = node /\ stored' = stored /\ StepFine(q, step[q]) /\ CallFacts(q, step[q])
    BY CommandConstant, CallFrame DEF Working, Calling, SteadyInv, CallFacts
<1>2. HasType(q) /\ AttrFine(q) /\ DataFine(q)
    BY <1>1 DEF StepFine, Passed
<1>3. Wanted(q).type # "symlink"
    <2>1. step[q] = "time_again" => Wanted(q).type = "directory"
        BY <1>1 DEF Working, WalkInv, WalkFacts
    <2> QED BY <1>1, <2>1 DEF CallFacts
<1> DEFINE o == [Followed(q) EXCEPT !.time = Wanted(q).time]
<1>4. Followed(q) \in Things /\ o \in Things /\ Wrote(q, o)
    BY <1>1, TimeResult
<1>5. /\ o.attr = Followed(q).attr /\ o.type = Followed(q).type
      /\ o.data = Followed(q).data /\ o.time = Wanted(q).time
    BY <1>4, ChangedThing
<1> HIDE DEF o
<1>6. HasType(q)' /\ Here(q)' = o /\ Here(q) = Followed(q)
    BY <1>2, <1>3, <1>4, <1>5, OwnWrite
<1>7. AttrFine(q)' /\ TimeFine(q)'
    BY <1>1, <1>2, <1>5, <1>6 DEF AttrFine, TimeFine
<1>8. DataFine(q)'
    <2>1. Broken' = Broken
        BY <1>1 DEF Broken
    <2>2. Here(q)'.data = Here(q).data
        BY <1>5, <1>6
    <2> QED BY <1>1, <1>2, <2>1, <2>2 DEF DataFine
<1> QED BY <1>6, <1>7, <1>8 DEF StepFine, Passed

LEMMA ExecuteSteady ==
    ASSUME RestoreInv, SteadyInv, NEW q \in Paths, Execute(q)
    PROVE SteadyInv'
<1>1. /\ pc = "restore" /\ step[q] \in Calls /\ disk' \in Results(q)
      /\ node' = node /\ request' = request /\ hint' = hint /\ stored' = stored
      /\ step' = [step EXCEPT ![q] = IF step[q] = "remove_tree" /\ disk'.at[q] # None
                                     THEN step[q] ELSE NextStep(q)]
    BY DEF Execute, repository, command
<1>2. Calling(q) /\ WalkInv /\ HintFacts(q) /\ DOMAIN step = Paths /\ q \in Reached(request)
      /\ RepositoryInv /\ request \in Requests /\ WalkFacts(q)
    BY <1>1, ExecuteWalk DEF RestoreInv, HintInv, TypeOK, Calling, CallFacts, WalkInv
<1>3. NextStep(q) # "ahead"
    BY <1>1, <1>2, NextStepFacts DEF WalkInv
<1>4. step'[q] = (IF step[q] = "remove_tree" /\ disk'.at[q] # None THEN step[q] ELSE NextStep(q))
      /\ step'[q] # "ahead"
    BY <1>1, <1>2, <1>3
<1>5. Working(q)
    BY <1>1, <1>2, <1>4 DEF Working
<1>6. Reached(request)' = Reached(request) /\ Wanted(q)' = Wanted(q)
    BY <1>1, CommandConstant
<1>7. \A y : step[y] # "ahead" => step'[y] # "ahead"
    BY <1>1, <1>4
<1>8. ASSUME NEW x \in Reached(request), x # q PROVE StepFine(x, step[x])'
    <2>1. x \in Paths /\ StepFine(x, step[x]) /\ step'[x] = step[x]
        BY <1>1, <1>2, <1>8 DEF Reached, SteadyInv
    <2>2. Shape(x) /\ Value(x) /\ (Concerns(x)' <=> Concerns(x))
        BY <1>5, <1>8, CallFrame DEF Undisturbed
    <2> QED BY <1>1, <1>7, <2>1, <2>2, FrameFine
<1>9. StepFine(q, step[q])'
    <2>1. CASE step[q] = "remove_tree" /\ disk'.at[q] # None
        <3>1. step'[q] = "remove_tree" /\ ~Missing(q)'
            BY <1>4, <2>1 DEF Missing
        <3> QED BY <3>1 DEF StepFine, Passed
    <2>2. CASE step[q] \in {"remove", "remove_tree"} /\ disk'.at[q] = None
        <3>1. step'[q] = MakeStep(q) /\ MakeStep(q)' = MakeStep(q)
            BY <1>4, <1>6, <2>2 DEF NextStep, MakeStep
        <3>2. StepFine(q, MakeStep(q))'
            BY <1>5, <2>2, OwnRemove
        <3> QED BY <3>1, <3>2
    <2>3. CASE step[q] = "remove" /\ disk'.at[q] # None
        BY <1>5, <2>3, RemoveUndisturbed
    <2>4. CASE step[q] \in {"mkdir", "symlink"}
        BY <1>4, <1>5, <2>4, OwnCreate DEF NextStep
    <2>5. CASE step[q] = "open"
        BY <1>4, <1>5, <2>5, OwnOpen DEF NextStep
    <2>6. CASE step[q] = "fill"
        BY <1>4, <1>5, <2>6, OwnFill DEF NextStep
    <2>7. CASE step[q] = "change_attr"
        <3>1. step'[q] = UpdateStep(q) /\ UpdateStep(q)' = UpdateStep(q)
            BY <1>1, <1>4, <1>6, <2>7 DEF NextStep, UpdateStep, LastStep
        <3>2. StepFine(q, UpdateStep(q))'
            BY <1>5, <2>7, OwnChangeAttr
        <3> QED BY <3>1, <3>2
    <2>8. CASE step[q] = "attr"
        <3>1. step'[q] = (IF Wanted(q).type = "symlink" THEN "behind" ELSE "time")
            BY <1>4, <2>8 DEF NextStep
        <3>2. StepFine(q, IF Wanted(q).type = "symlink" THEN "behind" ELSE "time")'
            BY <1>5, <2>8, OwnNewAttr
        <3> QED BY <1>6, <3>1, <3>2
    <2>9. CASE step[q] \in {"time", "time_again"}
        <3>1. step'[q] \in {"subnodes", "behind"}
            BY <1>4, <2>9 DEF NextStep, LastStep
        <3>2. \A s \in {"subnodes", "behind"} : StepFine(q, s)'
            BY <1>5, <2>9, OwnTime
        <3> QED BY <3>1, <3>2
    <2> QED BY <1>1, <2>1, <2>2, <2>3, <2>4, <2>5, <2>6, <2>7, <2>8, <2>9 DEF Calls
<1> QED BY <1>6, <1>8, <1>9 DEF SteadyInv

-----------------------------------------------------------------------------
(* A tree that has to go can go: something in it has no entries.            *)
LEMMA LeafThere ==
    ASSUME disk \in Disks, NEW q \in Paths, disk.at[q] # None
    PROVE RemoveLeaf(q) # {}
<1> DEFINE D == {z \in {q} \cup Below(q) :
                    /\ disk.at[z] # None
                    /\ \A a \in Ancestors[z] \ Above(q) :
                        a = z \/ (disk.at[a] # None /\ disk.at[a].type = "directory")}
<1>1. PICK depth \in [Paths \cup {Root} -> Nat], bound \in Nat :
            /\ \A p \in Paths : depth[Parent[p]] < depth[p]
            /\ \A p \in Paths \cup {Root} : depth[p] <= bound
    BY Depth
<1> DEFINE depths == {depth[z] : z \in D}
<1>2. D \subseteq Paths
    BY DEF Below
<1>3. q \in D
    <2>1. \A a \in Ancestors[q] \ Above(q) : a = q
        BY DEF Above
    <2> QED BY <2>1
<1>4. depths \in SUBSET (0 .. bound) /\ depths # {}
    <2>1. \A z \in D : depth[z] \in 0 .. bound
        BY <1>1, <1>2
    <2> QED BY <1>3, <2>1
<1>5. PICK m \in depths : Latest(depths, m)
    <2> HIDE DEF depths
    <2> QED BY <1>4, Largest
<1>6. PICK z \in D : m = depth[z]
    BY <1>5
<1>7. ASSUME disk.at[z].type = "directory" PROVE Listed(z) = {}
    <2> SUFFICES ASSUME NEW c \in Listed(z) PROVE FALSE
        OBVIOUS
    <2>1. c \in Paths /\ Parent[c] = z /\ disk.at[c] # None /\ z \in Paths
        BY <1>2 DEF Listed, Children
    <2>2. Ancestors[c] = {c} \cup Ancestors[z]
        BY <2>1, AncestorsFacts
    <2>3. q \in Above(c)
        <3>1. q \in Ancestors[z]
            BY <1>6, <2>1, TreeFacts DEF Below, Above
        <3> QED BY <2>1, <3>1, TreeFacts
    <2>4. c \in D
        <3>1. \A a \in Ancestors[c] \ Above(q) :
                a = c \/ (disk.at[a] # None /\ disk.at[a].type = "directory")
            BY <1>6, <1>7, <2>2
        <3> QED BY <2>1, <2>3, <3>1 DEF Below
    <2>5. depth[c] \in depths /\ depth[c] > m
        <3>1. depth[c] \in Nat /\ depth[z] \in Nat /\ depth[z] < depth[c]
            BY <1>1, <2>1
        <3> QED BY <1>6, <2>4, <3>1
    <2>6. depth[c] <= m /\ depth[c] \in Nat /\ m \in Nat
        <3> HIDE DEF depths
        <3>1. depth[c] <= m
            BY <1>5, <2>5 DEF Latest
        <3> QED BY <1>1, <1>2, <1>6, <2>1, <3>1
    <2> HIDE DEF depths
    <2> QED BY <2>5, <2>6
<1>8. disk.at[z] # None
    BY <1>6
<1>9. RemoveEntry(z) # {}
    BY <1>7, <1>8 DEF RemoveEntry
<1>10. /\ z \in {q} \cup Below(q)
       /\ \A a \in Ancestors[z] \ Above(q) : a = z \/ (disk.at[a] # None /\ disk.at[a].type = "directory")
    BY <1>6
<1> HIDE DEF D, depths
<1>11. PICK d \in RemoveEntry(z) : TRUE
    BY <1>9
<1>12. d \in RemoveLeaf(q)
    BY <1>10, <1>11 DEF RemoveLeaf
<1> QED BY <1>12

LEMMA FileIsAsked ==
    ASSUME RepositoryInv, request \in Requests, HintInv, NEW q \in Reached(request),
           Wanted(q).type # "directory"
    PROVE q \in Asked
<1>1. request.path \in Paths \cup {Root} /\ q \in Paths
    BY DEF Requests, Reached
<1>2. request.path = Root \/ request.path \in Ancestors[q] \/ q \in Ancestors[request.path]
    BY DEF Reached
<1>3. CASE q \in Ancestors[request.path]
    <2>1. request.path \in Reached(request) /\ request.path # Root
        BY <1>1, <1>3, AncestorsFacts DEF HintInv
    <2>2. q \notin Above(request.path)
        BY <1>1, <2>1, ReachedFacts DEF DirectoryAt, Wanted
    <2>3. q = request.path
        BY <1>3, <2>2 DEF Above
    <2>4. request.path \in Ancestors[q]
        BY <1>1, <2>3, TreeFacts
    <2> QED BY <2>4, AskedReached
<1> QED BY <1>2, <1>3, AskedReached

(* A call of a restore that nobody disturbs fails only for a broken file.   *)
LEMMA FailCause ==
    ASSUME RepositoryInv, request \in Requests, disk \in Disks, Closed, HintInv, WalkInv, SteadyInv,
           NEW q \in Paths, step[q] \in Calls, Results(q) = {}
    PROVE q \in Broken /\ q \in Asked
<1>1. /\ WalkFacts(q) /\ CallFacts(q, step[q]) /\ q \in Reached(request) /\ StepFine(q, step[q])
      /\ HintFacts(q)
    BY DEF WalkInv, SteadyInv, CallFacts, HintInv
<1>2. /\ Wanted(q) \in Things /\ Wanted(q) # NonExisting
      /\ Parent[q] # Root => Parent[q] \in Reached(request)
    BY <1>1, WantedFacts
<1>3. IsDirectory(Parent[q])
    <2>1. CASE Parent[q] = Root
        BY <2>1 DEF IsDirectory
    <2>2. CASE Parent[q] # Root
        <3> DEFINE p == Parent[q]
        <3>1. p \in Paths /\ p \in Reached(request) /\ step[p] = "subnodes"
            BY <1>1, <1>2, <2>2, TreeFacts DEF WalkFacts, Calls
        <3>2. HasType(p) /\ Wanted(p).type = "directory"
            BY <3>1 DEF SteadyInv, StepFine, Passed, WalkInv, WalkFacts
        <3>3. Followed(p) # None /\ Followed(p).type = "directory"
            BY <3>1, <3>2, FollowedFacts DEF HasType, Here, Seen, IsLink
        <3> QED BY <2>2, <3>3 DEF IsDirectory
    <2> QED BY <2>1, <2>2
<1>4. Wanted(q).type = "regular_file" => q \in Asked
    BY <1>1, FileIsAsked
<1>5. ASSUME Wanted(q).type = "regular_file", Wanted(q).data \notin Small, stored[Wanted(q).data] # "whole"
      PROVE q \in Broken
    <2>1. \E pt \in node[q].history : pt.state = Wanted(q)
        BY <1>2, WantedIsSaved
    <2> QED BY <1>5, <2>1 DEF Broken
<1>6. ASSUME HasType(q)
      PROVE /\ Wanted(q).type = "symlink" => disk.at[q] # None
            /\ Wanted(q).type # "symlink" => Followed(q) # None /\ Followed(q).type = Wanted(q).type
    BY <1>6, FollowedFacts DEF HasType, Here, Seen, IsLink
<1>7. CASE step[q] = "remove"
    <2>1. InTheWay(q)
        BY <1>1, <1>7 DEF StepFine
    <2> QED BY <1>7, <2>1 DEF Results, RemoveEntry, InTheWay
<1>8. CASE step[q] = "remove_tree"
    <2>1. disk.at[q] # None
        BY <1>1, <1>8 DEF StepFine, Missing
    <2> QED BY <1>8, <2>1, LeafThere DEF Results
<1>9. CASE step[q] \in {"mkdir", "symlink"}
    <2>1. disk.at[q] = None
        BY <1>1, <1>9 DEF StepFine, Missing
    <2> QED BY <1>3, <1>9, <2>1 DEF Results, Create
<1>10. CASE step[q] = "open"
    <2>1. Wanted(q).type = "regular_file" /\ Open(q) = {}
        BY <1>1, <1>10 DEF CallFacts, Results
    <2>2. CASE Wanted(q).data \notin Small /\ stored[Wanted(q).data] = "missing"
        BY <1>4, <1>5, <2>1, <2>2
    <2>3. CASE ~(Wanted(q).data \notin Small /\ stored[Wanted(q).data] = "missing")
        <3>1. CASE Remade(q)
            <4>1. disk.at[q] = None
                BY <1>1, <1>10, <3>1 DEF StepFine, Missing
            <4> QED BY <1>3, <2>1, <2>3, <4>1 DEF Open, Create
        <3>2. CASE ~Remade(q)
            <4>1. HasType(q)
                BY <1>1, <1>10, <3>2 DEF StepFine
            <4>2. Followed(q) # None /\ Followed(q).type = "regular_file" /\ disk.at[q] # None
                BY <1>6, <2>1, <4>1, FollowedFacts
            <4> QED BY <2>1, <2>3, <4>2 DEF Open
        <3> QED BY <3>1, <3>2
    <2> QED BY <2>2, <2>3
<1>11. CASE step[q] = "fill"
    <2>1. Wanted(q).type = "regular_file" /\ Fill(q) = {}
        BY <1>1, <1>11 DEF CallFacts, Results
    <2>2. Given(Wanted(q).data) = {}
        <3> DEFINE written == Given(Wanted(q).data)
        <3>1. Fill(q) = IF Followed(q) = None \/ Followed(q).data # Torn
                        THEN (IF written = {} THEN {} ELSE {disk})
                        ELSE {PutThrough(disk, q, [Followed(q) EXCEPT !.data = b]) : b \in written}
            BY DEF Fill, Given
        <3> HIDE DEF written
        <3>2. written = {}
            BY <2>1, <3>1
        <3> QED BY <3>2 DEF written
    <2>3. Wanted(q).data \notin Small /\ stored[Wanted(q).data] # "whole"
        BY <2>2 DEF Given
    <2> QED BY <1>4, <1>5, <2>1, <2>3
<1>12. CASE step[q] \in {"change_attr", "attr", "time", "time_again"}
    <2>1. HasType(q)
        BY <1>1, <1>12 DEF StepFine, HintHolds, CallFacts, Passed
    <2>2. CASE step[q] \in {"change_attr", "attr"} /\ Wanted(q).type = "symlink"
        BY <1>6, <2>1, <2>2 DEF Results
    <2>3. CASE ~(step[q] \in {"change_attr", "attr"} /\ Wanted(q).type = "symlink")
        <3>1. Wanted(q).type # "symlink"
            <4>1. step[q] = "time_again" => Wanted(q).type = "directory"
                BY <1>1 DEF WalkFacts
            <4> QED BY <1>1, <1>12, <2>3, <4>1 DEF CallFacts
        <3>2. Followed(q) # None
            BY <1>6, <2>1, <3>1
        <3> QED BY <1>12, <2>3, <3>2 DEF Results
    <2> QED BY <2>2, <2>3
<1> QED BY <1>7, <1>8, <1>9, <1>10, <1>11, <1>12 DEF Calls

-----------------------------------------------------------------------------
(* Every step keeps the invariant.                                          *)

(* The work ends early: the user says no, the process is killed, or a call  *)
(* fails.                                                                   *)
LEMMA StopKeeps ==
    ASSUME RestoreInv, NEW state \in {"idle", "failed"}, Stop(state),
           state = "failed" => ~steady \/ Broken \cap Asked # {}
    PROVE RestoreInv'
<1>1. RepositoryInv /\ TypeOK
    BY DEF RestoreInv
<1>2. /\ pc' = state /\ step' = Ahead /\ hint' = [p \in Paths |-> NoHint]
      /\ UNCHANGED repository /\ node' = node /\ log' = log /\ disk' = disk
      /\ request' = request /\ steady' = steady /\ given' = given
    BY DEF Stop, repository
<1>3. RepositoryInv' /\ Broken' = Broken /\ Asked' = Asked
    BY <1>1, <1>2, RepositoryConstant
<1>4. TypeOK'
    <2>1. Closed'
        BY <1>1, <1>2, DiskConstant DEF TypeOK, Closed
    <2>2. Requests' = Requests
        BY <1>2 DEF Requests
    <2>3. hint' \in [Paths -> HintType]
        BY <1>2 DEF NoHint, HintType
    <2>4. step' \in [Paths -> Calls \cup {"ahead", "subnodes", "behind"}]
        BY <1>2 DEF Ahead
    <2> QED BY <1>1, <1>2, <2>1, <2>2, <2>3, <2>4 DEF TypeOK, Closed, HintType
<1>5. WalkInv'
    BY <1>2, WalkAhead
<1>6. FailsForAReason'
    BY <1>2, <1>3 DEF FailsForAReason
<1> QED BY <1>2, <1>3, <1>4, <1>5, <1>6 DEF RestoreInv

(* A step of the walk: the repository, the disk and the command stay.       *)
LEMMA WalkTypes ==
    ASSUME RestoreInv, pc' = pc, pc = "restore", UNCHANGED <<repository, command>>,
           disk' \in Disks, Closed',
           NEW q \in Paths, NEW s \in Calls \cup {"subnodes", "behind"}, step' = [step EXCEPT ![q] = s],
           WalkInv', steady => SteadyInv'
    PROVE RestoreInv'
<1>1. RepositoryInv /\ TypeOK /\ HintInv
    BY DEF RestoreInv
<1>2. /\ node' = node /\ log' = log /\ UNCHANGED repository
      /\ request' = request /\ steady' = steady /\ given' = given /\ hint' = hint
    BY DEF repository, command
<1>3. RepositoryInv' /\ HintInv'
    BY <1>1, <1>2, RepositoryConstant, HintsKeep
<1>4. TypeOK'
    <2>1. Requests' = Requests
        BY <1>2 DEF Requests
    <2>2. step' \in [Paths -> Calls \cup {"ahead", "subnodes", "behind"}]
        BY <1>1 DEF TypeOK
    <2> QED BY <1>1, <1>2, <2>1, <2>2 DEF TypeOK, Closed, Disks
<1>5. FailsForAReason'
    BY <1>2 DEF FailsForAReason
<1> QED BY <1>2, <1>3, <1>4, <1>5 DEF RestoreInv

LEMMA EnterKeeps ==
    ASSUME RestoreInv, NEW q \in Paths, Enter(q) PROVE RestoreInv'
<1>1. /\ pc = "restore" /\ pc' = pc /\ disk' = disk /\ UNCHANGED <<repository, command>>
      /\ step' = [step EXCEPT ![q] = FirstStep(q)]
    BY DEF Enter
<1>2. disk' \in Disks /\ Closed'
    BY <1>1, DiskConstant DEF RestoreInv, TypeOK, Closed, Disks
<1>3. WalkInv' /\ FirstStep(q) \in Calls \cup {"subnodes", "behind"}
    BY EnterWalk DEF StepFacts
<1>4. steady => SteadyInv'
    BY <1>1, EnterSteady DEF RestoreInv
<1> QED BY <1>1, <1>2, <1>3, <1>4, WalkTypes

LEMMA LeaveKeeps ==
    ASSUME RestoreInv, NEW q \in Paths, Leave(q) PROVE RestoreInv'
<1> DEFINE s == IF node[q].policy # "none" /\ \E x \in Subnodes(q) : AffectsParent(x)
                THEN "time_again" ELSE "behind"
<1>1. /\ pc = "restore" /\ pc' = pc /\ disk' = disk /\ UNCHANGED <<repository, command>>
      /\ step' = [step EXCEPT ![q] = s]
    BY DEF Leave
<1>2. disk' \in Disks /\ Closed'
    BY <1>1, DiskConstant DEF RestoreInv, TypeOK, Closed, Disks
<1>3. WalkInv'
    BY LeaveWalk
<1>4. steady => SteadyInv'
    BY <1>1, LeaveSteady DEF RestoreInv
<1>5. s \in Calls \cup {"subnodes", "behind"}
    BY DEF Calls
<1> HIDE DEF s
<1> QED BY <1>1, <1>2, <1>3, <1>4, <1>5, WalkTypes

LEMMA ExecuteKeeps ==
    ASSUME RestoreInv, NEW q \in Paths, Execute(q) PROVE RestoreInv'
<1> DEFINE s == IF step[q] = "remove_tree" /\ disk'.at[q] # None THEN step[q] ELSE NextStep(q)
<1>1. /\ pc = "restore" /\ pc' = pc /\ UNCHANGED <<repository, command>> /\ step[q] \in Calls
      /\ step' = [step EXCEPT ![q] = s]
    BY DEF Execute
<1>2. WalkInv' /\ StepFacts(q, NextStep(q)) /\ Calling(q)
    BY ExecuteWalk
<1>3. disk' \in Disks /\ Closed'
    BY <1>2, CallClosed
<1>4. steady => SteadyInv'
    BY <1>1, ExecuteSteady DEF RestoreInv
<1>5. s \in Calls \cup {"subnodes", "behind"}
    BY <1>1, <1>2 DEF StepFacts
<1>6. PICK t : t = s
    OBVIOUS
<1> HIDE DEF s
<1> QED BY <1>1, <1>2, <1>3, <1>4, <1>5, <1>6, WalkTypes

LEMMA FailKeeps ==
    ASSUME RestoreInv, NEW q \in Paths, Fail(q) PROVE RestoreInv'
<1>1. pc = "restore" /\ step[q] \in Calls /\ Results(q) = {} /\ Stop("failed")
    BY DEF Fail
<1>2. steady => Broken \cap Asked # {}
    <2>1. RepositoryInv /\ TypeOK /\ HintInv /\ WalkInv /\ (steady => SteadyInv)
        BY <1>1 DEF RestoreInv
    <2>2. request \in Requests /\ disk \in Disks /\ Closed
        BY <2>1 DEF TypeOK, Disks, Closed
    <2>3. steady => q \in Broken /\ q \in Asked
        BY <1>1, <2>1, <2>2, FailCause
    <2> QED BY <2>3
<1> QED BY <1>1, <1>2, StopKeeps

LEMMA AnswerKeeps ==
    ASSUME RestoreInv, Answer PROVE RestoreInv'
<1>1. CASE Stop("idle")
    BY <1>1, StopKeeps
<1>2. CASE pc' = "restore" /\ UNCHANGED <<repository, disk, command, step>>
    <2>1. /\ RepositoryInv /\ TypeOK /\ HintInv /\ WalkInv /\ pc = "review"
          /\ steady => SteadyInv
        BY DEF RestoreInv, Answer
    <2>2. /\ pc' = "restore" /\ node' = node /\ log' = log /\ stored' = stored /\ UNCHANGED repository
          /\ disk' = disk /\ step' = step
          /\ request' = request /\ steady' = steady /\ given' = given /\ hint' = hint
        BY <1>2 DEF repository, command
    <2>3. RepositoryInv' /\ HintInv' /\ WalkInv'
        BY <2>1, <2>2, RepositoryConstant, HintsKeep, WalkKeeps
    <2>4. TypeOK'
        <3>1. Requests' = Requests
            BY <2>2 DEF Requests
        <3>2. Closed'
            BY <2>1, <2>2, DiskConstant DEF TypeOK, Closed
        <3> QED BY <2>1, <2>2, <3>1, <3>2 DEF TypeOK, Closed
    <2>5. FailsForAReason'
        BY <2>2 DEF FailsForAReason
    <2>6. ASSUME steady PROVE SteadyInv'
        <3>1. step = Ahead /\ Reached(request)' = Reached(request)
            BY <2>1, <2>2, CommandConstant DEF TypeOK
        <3>2. ASSUME NEW x \in Reached(request) PROVE StepFine(x, step[x])'
            <4>1. step[x] = "ahead" /\ HintHolds(x)
                BY <2>1, <2>6, <3>1, <3>2 DEF SteadyInv, StepFine, Ahead, Reached
            <4>2. HintHolds(x)' /\ step'[x] = "ahead"
                BY <2>2, <4>1, NothingMoves
            <4> QED BY <4>2 DEF StepFine, Passed
        <3> QED BY <3>1, <3>2 DEF SteadyInv
    <2> QED BY <2>2, <2>3, <2>4, <2>5, <2>6 DEF RestoreInv
<1> QED BY <1>1, <1>2 DEF Answer

(* When the walk is through the subnodes of the root, it is through all.    *)
LEMMA AllBehind ==
    ASSUME WalkInv, request.path \in Paths \cup {Root},
           \A p \in Subnodes(Root) : step[p] = "behind"
    PROVE \A p \in Reached(request) : step[p] = "behind"
<1> DEFINE S == {p \in Paths : p \in Reached(request) => step[p] = "behind"}
<1>1. ASSUME NEW p \in Paths, Parent[p] = Root \/ Parent[p] \in S, p \in Reached(request)
      PROVE step[p] = "behind"
    <2>1. ExistsAt(p, request.id) /\ p \in Children(Parent[p])
        BY <1>1, ReachedFacts DEF Children
    <2>2. CASE Parent[p] = Root
        BY <2>1, <2>2 DEF Subnodes
    <2>3. CASE Parent[p] # Root
        <3>1. Parent[p] \in Reached(request) /\ Wanted(Parent[p]).type = "directory" /\ Parent[p] \in Paths
            BY <1>1, <2>3, ReachedFacts, TreeFacts DEF DirectoryAt, Wanted
        <3>2. step[Parent[p]] = "behind" /\ p \in Subnodes(Parent[p])
            BY <1>1, <2>1, <2>3, <3>1 DEF Subnodes
        <3> QED BY <3>1, <3>2 DEF WalkInv, WalkFacts
    <2> QED BY <2>2, <2>3
<1>2. \A p \in Paths : Parent[p] = Root \/ Parent[p] \in S => p \in S
    BY <1>1
<1>3. \A p \in Paths : p \in S
    <2>1. S \in SUBSET Paths
        OBVIOUS
    <2> HIDE DEF S
    <2> QED BY <1>2, <2>1, TreeInduction
<1> QED BY <1>3 DEF Reached

LEMMA FinishKeeps ==
    ASSUME RestoreInv, Finish PROVE RestoreInv'
<1>1. /\ RepositoryInv /\ TypeOK /\ HintInv /\ WalkInv /\ pc = "restore"
      /\ steady => SteadyInv
    BY DEF RestoreInv, Finish
<1>2. /\ pc' = "done" /\ node' = node /\ log' = log /\ stored' = stored /\ UNCHANGED repository
      /\ disk' = disk /\ step' = Ahead
      /\ request' = request /\ steady' = steady /\ given' = given /\ hint' = hint
    BY DEF Finish, repository, command
<1>3. RepositoryInv' /\ HintInv' /\ WalkInv'
    BY <1>1, <1>2, RepositoryConstant, HintsKeep, WalkAhead
<1>4. TypeOK'
    <2>1. Requests' = Requests
        BY <1>2 DEF Requests
    <2>2. Closed'
        BY <1>1, <1>2, DiskConstant DEF TypeOK, Closed
    <2>3. step' \in [Paths -> Calls \cup {"ahead", "subnodes", "behind"}]
        BY <1>2 DEF Ahead
    <2> QED BY <1>1, <1>2, <2>1, <2>2, <2>3 DEF TypeOK, Closed
<1>5. FailsForAReason'
    BY <1>2 DEF FailsForAReason
<1>6. ASSUME steady PROVE DoneInv'
    <2>1. \A p \in Reached(request) : step[p] = "behind"
        <3>1. request.path \in Paths \cup {Root}
            BY <1>1 DEF TypeOK, Requests
        <3> QED BY <1>1, <3>1, AllBehind DEF Finish
    <2>2. \A p \in Reached(request) : HasType(p) /\ AttrFine(p) /\ DataFine(p) /\ TimeFine(p)
        BY <1>1, <1>6, <2>1 DEF SteadyInv, StepFine, Passed
    <2>3. Reached(request)' = Reached(request)
        BY <1>2, CommandConstant
    <2> QED BY <1>2, <2>2, <2>3, NothingMoves DEF DoneInv
<1> QED BY <1>2, <1>3, <1>4, <1>5, <1>6 DEF RestoreInv

LEMMA InterfereKeeps ==
    ASSUME RestoreInv, Interfere PROVE RestoreInv'
<1>1. /\ RepositoryInv /\ TypeOK /\ HintInv /\ WalkInv /\ pc \in {"review", "restore"}
    BY DEF RestoreInv, Interfere
<1>2. /\ pc' = pc /\ node' = node /\ log' = log /\ UNCHANGED repository
      /\ step' = step
      /\ request' = request /\ steady' = FALSE /\ given' = given /\ hint' = hint
    BY DEF Interfere, repository
<1>3. RepositoryInv' /\ HintInv' /\ WalkInv'
    BY <1>1, <1>2, RepositoryConstant, HintsKeep, WalkKeeps
<1>4. disk \in Disks /\ Closed
    BY <1>1 DEF TypeOK, Disks, Closed
<1>5. PICK p \in Paths, o \in MayInterfere :
            /\ o # None => IsDirectory(Parent[p])
            /\ disk' = [Without(disk, p) EXCEPT !.at[p] = o]
    BY DEF Interfere
<1>6. o \in Things \cup {None}
    BY <1>5, FilesAssumption
<1>7. disk' = [at |-> [x \in Paths |-> IF x = p THEN o
                                       ELSE IF p \in Ancestors[x] THEN None ELSE disk.at[x]],
               outside |-> disk.outside]
    BY <1>4, <1>5, TreeFacts DEF Without, Disks
<1>8. disk' \in Disks
    <2> DEFINE a == [x \in Paths |-> IF x = p THEN o
                                     ELSE IF p \in Ancestors[x] THEN None ELSE disk.at[x]]
               b == disk.outside
    <2>1. a \in [Paths -> Things \cup {None}] /\ b \in [Targets -> Things \cup {None}]
        BY <1>4, <1>6 DEF Disks
    <2>2. disk' = [at |-> a, outside |-> b]
        BY <1>7
    <2> HIDE DEF a, b
    <2> QED BY <2>1, <2>2, DiskWith
<1>9. Closed'
    <2> SUFFICES ASSUME NEW x \in Paths, disk'.at[x] # None PROVE IsDirectory(Parent[x])'
        BY DEF Closed
    <2>1. x # p => p \notin Ancestors[x] /\ disk'.at[x] = disk.at[x]
        BY <1>7
    <2>2. IsDirectory(Parent[x])
        <3>1. CASE x = p
            BY <1>5, <1>7, <3>1
        <3>2. CASE x # p
            BY <1>4, <2>1, <3>2 DEF Closed
        <3> QED BY <3>1, <3>2
    <2>3. CASE Parent[x] = Root
        BY <2>3 DEF IsDirectory
    <2>4. CASE Parent[x] # Root
        <3>1. Parent[x] \in Paths /\ p \notin Ancestors[Parent[x]] /\ Parent[x] # p
            <4>1. Parent[x] \in Paths /\ Ancestors[Parent[x]] \subseteq Ancestors[x]
                  /\ x \notin Ancestors[Parent[x]] /\ Parent[x] \in Ancestors[Parent[x]]
                BY <2>4, TreeFacts, AncestorsFacts
            <4>2. CASE x = p
                BY <4>1, <4>2
            <4>3. CASE x # p
                BY <2>1, <4>1, <4>3
            <4> QED BY <4>1, <4>2, <4>3
        <3>2. disk'.at[Parent[x]] = disk.at[Parent[x]] /\ disk'.outside = disk.outside
            BY <1>7, <3>1
        <3> QED BY <2>2, <2>4, <3>2 DEF IsDirectory, Followed
    <2> QED BY <2>3, <2>4
<1>10. TypeOK'
    <2>1. Requests' = Requests
        BY <1>2 DEF Requests
    <2> QED BY <1>1, <1>2, <1>8, <1>9, <2>1 DEF TypeOK, Closed, Disks
<1>11. FailsForAReason'
    BY <1>1, <1>2 DEF FailsForAReason
<1> QED BY <1>1, <1>2, <1>3, <1>10, <1>11 DEF RestoreInv

LEMMA NothingKeeps ==
    ASSUME RestoreInv, UNCHANGED vars PROVE RestoreInv'
<1>1. /\ RepositoryInv /\ TypeOK /\ WalkInv
      /\ pc \in {"review", "restore", "done"} => HintInv
      /\ pc \in {"review", "restore"} /\ steady => SteadyInv
      /\ pc = "done" /\ steady => DoneInv
      /\ FailsForAReason
    BY DEF RestoreInv
<1>2. /\ pc' = pc /\ node' = node /\ log' = log /\ stored' = stored /\ UNCHANGED repository
      /\ disk' = disk /\ step' = step
      /\ request' = request /\ steady' = steady /\ given' = given /\ hint' = hint
    BY DEF vars, repository
<1>3. /\ RepositoryInv' /\ (HintInv' <=> HintInv) /\ WalkInv'
      /\ Broken' = Broken /\ Asked' = Asked /\ Reached(request)' = Reached(request)
    BY <1>1, <1>2, RepositoryConstant, HintsKeep, WalkKeeps, CommandConstant
<1>4. TypeOK'
    <2>1. Requests' = Requests
        BY <1>2 DEF Requests
    <2>2. Closed'
        BY <1>1, <1>2, DiskConstant DEF TypeOK, Closed
    <2> QED BY <1>1, <1>2, <2>1, <2>2 DEF TypeOK, Closed
<1>5. FailsForAReason'
    BY <1>1, <1>2, <1>3 DEF FailsForAReason
<1>6. DoneInv => DoneInv'
    BY <1>2, <1>3, NothingMoves DEF DoneInv
<1>7. ASSUME SteadyInv PROVE SteadyInv'
    <2>1. ASSUME NEW x \in Reached(request) PROVE StepFine(x, step[x])'
        <3>1. step'[x] = step[x] /\ StepFine(x, step[x]) /\ (\A q : step'[q] = step[q])
            BY <1>2, <1>7, <2>1 DEF SteadyInv
        <3>2. Shape(x) /\ Value(x) /\ (Concerns(x)' <=> Concerns(x))
            BY <1>2, NothingSame
        <3> QED BY <1>2, <2>1, <3>1, <3>2, FrameFine
    <2> QED BY <1>3, <2>1 DEF SteadyInv
<1> QED BY <1>1, <1>2, <1>3, <1>4, <1>5, <1>6, <1>7 DEF RestoreInv

(* Whatever is done about the restores of a repository, by the user, by the *)
(* program and by others, everything the invariant says stays true.         *)
LEMMA StepKeeps == RestoreInv /\ [Next]_vars => RestoreInv'
<1> SUFFICES ASSUME RestoreInv, [Next]_vars PROVE RestoreInv'
    OBVIOUS
<1>1. CASE \E r \in Requests : Give(r)
    BY <1>1, GiveKeeps
<1>2. CASE Answer
    BY <1>2, AnswerKeeps
<1>3. CASE Finish
    BY <1>3, FinishKeeps
<1>4. CASE Kill
    BY <1>4, StopKeeps DEF Kill
<1>5. CASE Interfere
    BY <1>5, InterfereKeeps
<1>6. ASSUME NEW p \in Paths, Enter(p) \/ Execute(p) \/ Leave(p) \/ Fail(p) PROVE RestoreInv'
    BY <1>6, EnterKeeps, ExecuteKeeps, LeaveKeeps, FailKeeps
<1>7. CASE UNCHANGED vars
    BY <1>7, NothingKeeps
<1> QED BY <1>1, <1>2, <1>3, <1>4, <1>5, <1>6, <1>7 DEF Next

(* At every moment of a restore (restore.c): the hints say what the disk    *)
(* was like when they were found out; the walk is where its steps say; of   *)
(* every path that it has passed, the type, the attributes, the timestamp   *)
(* and the contents are the saved ones, or will be set once more.           *)
THEOREM Invariant == Spec => []RestoreInv
<1>1. Init => RestoreInv
    BY Initially
<1>2. RestoreInv /\ [Next]_vars => RestoreInv'
    BY StepKeeps
<1> QED BY <1>1, <1>2, PTL DEF Spec

(* All variables have values of their kind; whatever a restore, its failure *)
(* or somebody else does to the user's files, nothing is found at a path    *)
(* without a directory above it.                                            *)
THEOREM TypeCorrect == Spec => []TypeOK
<1>1. RestoreInv => TypeOK
    BY DEF RestoreInv
<1> QED BY <1>1, Invariant, PTL

(* initiateRestore() refuses only a path that the backup did not have, or a *)
(* link to nowhere; finishRestore() fails without interference only if      *)
(* checkIntegrity() reports a file among those that are restored.           *)
THEOREM FailuresHaveReasons == Spec => []FailsForAReason
<1>1. RestoreInv => FailsForAReason
    BY DEF RestoreInv
<1> QED BY <1>1, Invariant, PTL

-----------------------------------------------------------------------------
(* What a restore that came to its end has done.                            *)

(* Two links that are followed to the same place share it.                  *)
LEMMA MixedIsShared ==
    ASSUME RepositoryInv, request \in Requests, NEW p, Mixed(p) PROVE Shared(p)
<1>1. PICK q \in Paths \ {p} : Through(p) /\ Through(q) /\ disk.at[q].data = disk.at[p].data
    BY DEF Mixed
<1>2. ASSUME NEW x, Through(x) PROVE Follows(x)
    <2>1. x \in Reached(request) /\ x \in Paths /\ Wanted(x).type # "symlink" /\ IsLink(x)
        BY <1>2 DEF Through, Reached
    <2>2. x \in Asked \cup Ancestors[request.path]
        BY <2>1, AskedReached DEF Reached
    <2>3. Saved(x) = Wanted(x)
        BY <2>1, WantedIsSaved
    <2> QED BY <2>1, <2>2, <2>3 DEF Follows, IsLink
<1>3. Follows(p) /\ Follows(q)
    BY <1>1, <1>2
<1> QED BY <1>1, <1>3 DEF Shared

(* What is seen at a path that is as it should be.                          *)
LEMMA SeenAsWanted ==
    ASSUME RepositoryInv, request \in Requests, disk \in Disks,
           NEW p \in Reached(request), HasType(p)
    PROVE /\ Here(p) \in Things /\ Here(p) # None /\ Here(p).type = Wanted(p).type
          /\ disk.at[p] # None
          /\ Wanted(p).type # "symlink" => Here(p) = Followed(p)
<1>1. p \in Paths /\ Wanted(p) \in Things /\ Wanted(p).type \in {"regular_file", "symlink", "directory"}
    BY WantedFacts
<1>2. Here(p) = IF Wanted(p).type = "symlink" THEN disk.at[p] ELSE Followed(p)
    BY DEF Here, Seen
<1>3. Here(p) # None /\ Here(p).type = Wanted(p).type
    <2>1. CASE hint[p].kind = "none"
        BY <2>1 DEF HasType
    <2>2. CASE hint[p].kind # "none"
        <3>1. disk.at[p] # None /\ disk.at[p].type = Wanted(p).type
            BY <2>2 DEF HasType
        <3>2. Wanted(p).type # "symlink" => Followed(p) = disk.at[p]
            BY <1>1, <3>1, FollowedFacts DEF IsLink
        <3> QED BY <1>2, <3>1, <3>2
    <2> QED BY <2>1, <2>2
<1> QED BY <1>1, <1>2, <1>3, FollowedFacts

LEMMA DoneAsSaved == RestoreInv => RestoredAsSaved
<1> SUFFICES ASSUME RestoreInv, pc = "done", steady, NEW p \in Asked
             PROVE LET s == Saved(p)
                       o == Seen(p, s)
                   IN /\ o # None /\ o.type = s.type
                      /\ node[p].policy # "none" /\ ~Shared(p) =>
                           /\ o.attr = s.attr
                           /\ s.type # "symlink" => o.time = s.time
                           /\ o.data = s.data \/ p \in Broken \/ LookedUnchanged(p)
    BY DEF RestoredAsSaved
<1>1. RepositoryInv /\ request \in Requests /\ disk \in Disks /\ DoneInv
    BY DEF RestoreInv, TypeOK, Disks
<1>2. p \in Reached(request) /\ p \in Paths
    BY <1>1, AskedReached DEF Asked
<1>3. HasType(p) /\ AttrFine(p) /\ DataFine(p) /\ TimeFine(p)
    BY <1>1, <1>2 DEF DoneInv
<1>4. Saved(p) = Wanted(p) /\ Seen(p, Saved(p)) = Here(p)
    <2>1. Saved(p) = Wanted(p)
        BY <1>1, <1>2, WantedIsSaved
    <2> QED BY <2>1 DEF Here
<1>5. /\ Here(p) \in Things /\ Here(p) # None /\ Here(p).type = Wanted(p).type
      /\ Wanted(p).type # "symlink" => Here(p) = Followed(p)
    BY <1>1, <1>2, <1>3, SeenAsWanted
<1>6. ASSUME node[p].policy # "none", ~Shared(p)
      PROVE /\ Here(p).attr = Wanted(p).attr
            /\ Wanted(p).type # "symlink" => Here(p).time = Wanted(p).time
            /\ Here(p).data = Wanted(p).data \/ p \in Broken \/ LookedUnchanged(p)
    <2>1. Concerns(p)
        BY <1>1, <1>6, MixedIsShared DEF Concerns
    <2>2. Here(p).attr = Wanted(p).attr /\ (Wanted(p).type # "symlink" => Here(p).time = Wanted(p).time)
        BY <1>3, <2>1 DEF AttrFine, TimeFine
    <2>3. Here(p).data = Wanted(p).data \/ p \in Broken \/ LookedUnchanged(p)
        <3>1. CASE Wanted(p).type = "symlink"
            BY <1>3, <2>1, <3>1 DEF DataFine
        <3>2. CASE Wanted(p).type = "regular_file"
            <4>1. \/ Here(p).data = Wanted(p).data
                  \/ p \in Broken
                  \/ hint[p].kind = "none" /\ "content" \notin hint[p].changed
                BY <1>3, <2>1, <3>2 DEF DataFine
            <4>2. Size[Followed(p).data] = Size[Saved(p).data] /\ Saved(p).type = "regular_file"
                BY <1>3, <1>4, <1>5, <2>1, <3>2 DEF DataFine
            <4> QED BY <4>1, <4>2 DEF LookedUnchanged
        <3>3. CASE Wanted(p).type = "directory"
            <4>1. Wanted(p) \in Things /\ Here(p).type = "directory"
                BY <1>1, <1>2, <1>5, <3>3, WantedFacts
            <4>2. Here(p).data = None
                BY <1>5, <4>1, ThingFacts
            <4>3. Wanted(p).data = None
                BY <3>3, <4>1, ThingFacts
            <4> QED BY <4>2, <4>3
        <3> QED BY <1>1, <1>2, <3>1, <3>2, <3>3, WantedFacts
    <2> QED BY <2>2, <2>3
<1> QED BY <1>4, <1>5, <1>6

(* "nb REPO NUMBER [PATH]" that ends without an error has made every path   *)
(* that was asked for what the backup with that number had found: the type, *)
(* the owner and permissions, the timestamps (of directories in which the   *)
(* restore made entries too), and the contents unless the file is one that  *)
(* checkIntegrity() reports or one that looked unchanged.                   *)
THEOREM RestoresWhatWasSaved == Spec => []RestoredAsSaved
<1>1. RestoreInv => RestoredAsSaved
    BY DoneAsSaved
<1> QED BY <1>1, Invariant, PTL

LEMMA DoneIsComplete == RestoreInv => RestoreIsComplete
<1> SUFFICES ASSUME RestoreInv, pc = "done", steady, \A p \in Paths : ~Shared(p)
             PROVE /\ ~Refused(request)
                   /\ \A p \in Paths :
                        LET h == Hints(request)[p]
                        IN h.kind = "none" /\ (node[p].policy = "none" \/ h.changed = {})
    BY DEF RestoreIsComplete
<1>1. RepositoryInv /\ request \in Requests /\ disk \in Disks /\ Closed /\ DoneInv /\ HintInv
    BY DEF RestoreInv, TypeOK, Disks, Closed
<1>2. request.path \in Paths \cup {Root}
    BY <1>1 DEF Requests
<1>3. ASSUME NEW p \in Reached(request)
      PROVE /\ p \in Paths /\ Wanted(p).type \in {"regular_file", "symlink", "directory"}
            /\ Here(p) # None /\ Here(p).type = Wanted(p).type /\ disk.at[p] # None
            /\ Seen(p, StateAt(p, request.id)) = Here(p)
    BY <1>1, <1>3, WantedFacts, SeenAsWanted DEF DoneInv, Here, Wanted
<1>4. ~Refused(request)
    <2>1. ASSUME NEW p \in Paths PROVE Hints(request)[p].kind # "dangling"
        <3> DEFINE b == Parent[p] = Root \/ Hints(request)[Parent[p]].kind = "none"
                   g == [x \in Paths |->
                            HintFor(request, x, Parent[x] = Root \/ Hints(request)[Parent[x]].kind = "none")]
        <3>1. Hints(request) = g
            BY HintsUnfold
        <3>2. g[p] = HintFor(request, p, b)
            OBVIOUS
        <3>3. p \in Reached(request) => Seen(p, StateAt(p, request.id)) # None
            BY <1>3
        <3> HIDE DEF g, b
        <3>4. HintFor(request, p, b).kind # "dangling"
            BY <3>3 DEF HintFor, NoHint
        <3> QED BY <3>1, <3>2, <3>4
    <2> QED BY <1>1, <2>1 DEF Refused, HintInv
<1>5. ASSUME NEW p \in Paths
      PROVE LET h == Hints(request)[p]
            IN h.kind = "none" /\ (node[p].policy = "none" \/ h.changed = {})
    <2>1. Hints(request)[p] = HintFor(request, p, TRUE)
        BY <1>1, <1>2, <1>4, HintsDirect
    <2>2. CASE p \notin Reached(request)
        BY <2>1, <2>2 DEF HintFor, NoHint
    <2>3. CASE p \in Reached(request)
        <3>1. Hints(request)[p] = [kind |-> "none", changed |-> Changed(Wanted(p), Here(p))]
            BY <1>3, <2>1, <2>3 DEF HintFor, Wanted
        <3>2. ASSUME node[p].policy # "none" PROVE Changed(Wanted(p), Here(p)) = {}
            <4>1. Concerns(p)
                BY <1>1, <1>3, <2>3, <3>2, MixedIsShared DEF Concerns
            <4>2. HasType(p) /\ AttrFine(p) /\ DataFine(p) /\ TimeFine(p)
                BY <1>1, <2>3 DEF DoneInv
            <4> DEFINE w == Wanted(p)
                       o == Here(p)
            <4>3. /\ o.attr = w.attr /\ (w.type # "symlink" => o.time = w.time)
                  /\ w.type = "symlink" => o.data = w.data
                  /\ w.type = "regular_file" => Size[o.data] = Size[w.data]
                BY <4>1, <4>2 DEF AttrFine, TimeFine, DataFine
            <4> HIDE DEF w, o
            <4>4. Changed(w, o) = {}
                BY <4>3 DEF Changed
            <4> QED BY <4>4 DEF w, o
        <3> QED BY <3>1, <3>2
    <2> QED BY <2>2, <2>3
<1> QED BY <1>4, <1>5

(* A restore that ended has left nothing to do: given again it would find   *)
(* no difference, also after one that was killed or failed before.          *)
THEOREM RestoresCompletely == Spec => []RestoreIsComplete
<1>1. RestoreInv => RestoreIsComplete
    BY DoneIsComplete
<1> QED BY <1>1, Invariant, PTL

-----------------------------------------------------------------------------
(* What a restore changes.                                                  *)
Allowed(p) ==
    \/ p \in Asked
    \/ p \in Ancestors[request.path]
    \/ \E a \in Above(p) \cap Asked : Saved(a).type # "directory"
    \/ \E a \in Above(p) : ~steady /\ disk.at[a] # None /\ disk.at[a].type = "symlink"

(* What is below a path that is not a directory itself is found through it. *)
LEMMA FoundThrough ==
    ASSUME disk \in Disks, Closed, NEW q \in Paths, NEW x \in Paths, q \in Above(x),
           disk.at[x] # None, disk.at[q].type = "directory" => Listed(q) = {}
    PROVE IsLink(q) /\ IsDirectory(q)
<1>1. disk.at[q] # None /\ IsDirectory(q)
    BY WayUp
<1>2. CASE IsLink(q)
    BY <1>1, <1>2
<1>3. CASE ~IsLink(q)
    <2>1. disk.at[q].type = "directory"
        BY <1>1, <1>3, FollowedFacts
    <2>2. x # q /\ q \in Ancestors[x]
        BY TreeFacts DEF Above
    <2>3. PICK c \in Children(q) : c \in Ancestors[x]
        BY <2>2, OnTheWay
    <2>4. disk.at[c] # None
        <3>1. c = x \/ c \in Above(x)
            BY <2>3 DEF Above
        <3> QED BY <3>1, WayUp
    <2>5. c \in Listed(q)
        BY <2>3, <2>4 DEF Listed
    <2> QED BY <2>1, <2>5
<1> QED BY <1>2, <1>3

LEMMA ChangesAllowed ==
    ASSUME RestoreInv, NEW q \in Paths, Execute(q), NEW p \in Paths, disk'.at[p] # disk.at[p]
    PROVE Allowed(p)
<1>1. /\ RepositoryInv /\ request \in Requests /\ disk \in Disks /\ Closed /\ HintInv /\ WalkInv
      /\ steady => SteadyInv
      /\ step[q] \in Calls /\ Calling(q) /\ CallFacts(q, step[q])
    <2>1. step[q] \in Calls /\ pc = "restore"
        BY DEF Execute
    <2>2. Calling(q)
        BY ExecuteWalk
    <2> QED BY <2>1, <2>2 DEF RestoreInv, Calling
<1>2. q \in Reached(request) /\ (Parent[q] # Root => Parent[q] \in Reached(request))
    <2>1. q \in Reached(request)
        BY <1>1 DEF CallFacts
    <2> QED BY <1>1, <2>1, WantedFacts
<1>3. \A x \in Reached(request) : Allowed(x)
    BY <1>1, AskedReached DEF Allowed, Reached
<1>4. Allowed(q) /\ (p = Parent[q] => Allowed(p))
    BY <1>2, <1>3, TreeAssumption
<1>5. ASSUME Wanted(q).type # "directory", q \in Ancestors[p] PROVE Allowed(p)
    <2>1. q \in Asked /\ Saved(q) = Wanted(q)
        BY <1>1, <1>2, <1>5, FileIsAsked, WantedIsSaved
    <2> QED BY <1>5, <2>1 DEF Allowed, Above
<1>6. ASSUME NEW o, Created(q, o) PROVE Allowed(p)
    <2>1. p = q \/ p = Parent[q]
        BY <1>6 DEF Created, AtAfter
    <2> QED BY <1>4, <2>1
<1>7. ASSUME NEW o, Wrote(q, o) \/ WroteLink(q, o) PROVE Allowed(p)
    <2>1. p = q
        BY <1>7 DEF Wrote, WroteLink
    <2> QED BY <1>4, <2>1
<1>8. CASE step[q] = "remove"
    <2>1. Removed(q)
        BY <1>1, <1>8, RemoveResult
    <2>2. p = Parent[q] \/ q \in Ancestors[p]
        BY <2>1 DEF Removed, AtAfter
    <2>3. ASSUME q \in Above(p), Wanted(q).type = "directory" PROVE Allowed(p)
        <3>1. disk.at[p] # None
            BY <2>1, <2>3 DEF Removed, Above
        <3>2. IsLink(q) /\ IsDirectory(q)
            BY <1>1, <2>1, <2>3, <3>1, FoundThrough DEF Removed
        <3>3. ~steady
            BY <1>1, <1>2, <1>8, <2>3, <3>2 DEF SteadyInv, StepFine, InTheWay
        <3> QED BY <2>3, <3>2, <3>3 DEF Allowed, IsLink
    <2> QED BY <1>4, <1>5, <2>2, <2>3 DEF Above
<1>9. CASE step[q] = "remove_tree"
    <2>1. PICK z \in Paths : (z = q \/ q \in Above(z)) /\ Removed(z)
        BY <1>1, <1>9, TreeResult
    <2>2. Wanted(q).type # "directory"
        BY <1>1, <1>9 DEF CallFacts, HintInv, HintFacts
    <2>3. p = Parent[z] \/ z \in Ancestors[p]
        BY <2>1 DEF Removed, AtAfter
    <2>4. p = Parent[q] \/ q \in Ancestors[p]
        <3>1. CASE z = q
            BY <2>3, <3>1
        <3>2. CASE q \in Above(z)
            <4>1. z \in Ancestors[p] => q \in Ancestors[p]
                BY <3>2, TreeFacts DEF Above
            <4>2. p = Parent[z] => q \in Ancestors[p]
                BY <3>2, TreeFacts
            <4> QED BY <2>3, <4>1, <4>2
        <3> QED BY <2>1, <3>1, <3>2
    <2> QED BY <1>4, <1>5, <2>2, <2>4
<1>10. CASE step[q] \in {"mkdir", "symlink"}
    BY <1>1, <1>6, <1>10, MakeResult
<1>11. CASE step[q] = "open"
    BY <1>1, <1>6, <1>7, <1>11, OpenResult
<1>12. CASE step[q] = "fill"
    BY <1>1, <1>7, <1>12, FillResult
<1>13. CASE step[q] \in {"change_attr", "attr"} /\ Wanted(q).type = "symlink"
    BY <1>1, <1>7, <1>13, LinkAttrResult
<1>14. CASE step[q] \in {"change_attr", "attr"} /\ Wanted(q).type # "symlink"
    BY <1>1, <1>7, <1>14, AttrResult
<1>15. CASE step[q] \in {"time", "time_again"}
    BY <1>1, <1>7, <1>15, TimeResult
<1> QED BY <1>1, <1>8, <1>9, <1>10, <1>11, <1>12, <1>13, <1>14, <1>15 DEF Calls

(* No system call of finishRestore() changes anything but the paths that    *)
(* the command is about, the directories above them and what is in the way  *)
(* of a file; if nobody interferes it follows no link out of them.          *)
THEOREM ChangesWhatWasAsked == Spec => OnlyAskedForChanges
<1>1. RestoreInv /\ [Next]_vars =>
        [(\E q \in Paths : Execute(q)) => \A p \in Paths : disk'.at[p] # disk.at[p] =>
            \/ p \in Asked
            \/ p \in Ancestors[request.path]
            \/ \E a \in Above(p) \cap Asked : Saved(a).type # "directory"
            \/ \E a \in Above(p) : ~steady /\ disk.at[a] # None /\ disk.at[a].type = "symlink"]_vars
    BY ChangesAllowed DEF Allowed
<1> QED BY <1>1, Invariant, PTL DEF Spec, OnlyAskedForChanges
=============================================================================

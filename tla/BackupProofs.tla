---------------------------- MODULE BackupProofs ----------------------------
(* What holds of the metadata for any paths, states and config files, as    *)
(* long as paths that may be replaced by something other than a directory   *)
(* stay tracked and keep a policy when the config file is edited: the runs  *)
(* BackupStaleId and BackupFileAbove show what happens otherwise.           *)
EXTENDS ChangeSummary, FiniteSetTheorems, SequenceTheorems, WellFoundedInduction, TLAPS

-----------------------------------------------------------------------------
(* The inductive invariant: nodes.                                          *)
Point == [backup: Runs, state: Mixed \cup {NonExisting}]
Node == [policy: Policies, history: Seq(Point)]
Hints == {"none", "unchanged", "added", "removed", "wiped",
          "replaced", "directoryReplaced", "changed"}
Memory == [node: [Paths -> Node \cup {None}], hint: [Paths -> Hints],
           flag: SUBSET Paths, refs: [Runs -> Int]]
Kinds(p) == {s.type : s \in StatesAt[p]}

(* What every history in the metadata is like.                              *)
Sound(p, n) ==
    /\ n \in Node
    /\ n.history # <<>>
    /\ \A i \in DOMAIN n.history :
            n.history[i].state # NonExisting => n.history[i].state.type \in Kinds(p)
    /\ \A i \in 1 .. Len(n.history) - 1 :
            /\ n.history[i].backup > n.history[i + 1].backup
            /\ n.history[i].state # n.history[i + 1].state
    /\ n.history[Len(n.history)].state # NonExisting
    /\ n.policy # "track" => Len(n.history) = 1

(* A path that may be replaced keeps the policy the invariant relies on.    *)
Steady(p, n, policy) ==
    Replaceable(p) =>
        /\ n.policy = "track" => policy = "track"
        /\ n.policy # "none" => policy # "none"

IsListed(b) == \E i \in DOMAIN backups : backups[i] = b

SavedInv ==
    /\ saved \in [Paths -> Node \cup {None}]
    /\ backups \in Seq(Runs)
    /\ \A p \in Paths : saved[p] # None =>
        /\ log # <<>>
        /\ Sound(p, saved[p])
        /\ saved[p].history[1].backup <= Len(log)
        /\ \A i \in DOMAIN saved[p].history : IsListed(saved[p].history[i].backup)
        /\ saved[p].policy = "none" => saved[p].history[1].state.type = "directory"
        /\ Steady(p, saved[p], PolicyOf(log[Len(log)].config)[p])
        /\ \A q \in Trail(p) : saved[q] # None

LogInv ==
    /\ log \in Seq([found: [Paths -> States \cup {None}], config: Configs])
    /\ Len(log) <= MaxBackups
    /\ \A b \in DOMAIN log : \A p \in Paths : log[b].found[p] # None =>
            \A q \in Trail(Parent[p]) :
                log[b].found[q] # None /\ log[b].found[q].type = "directory"

(* Histories of paths that have always been tracked.                        *)
FullInv ==
    /\ TrackedHistoryIsFull
    /\ \A p \in Paths : AlwaysTracked(p) /\ saved[p] # None => saved[p].policy = "track"

-----------------------------------------------------------------------------
(* The inductive invariant: a run.                                          *)
Reached(p) == place[p] \in {"inside", "behind"}
Handled(p) == \E q \in Trail(p) : place[q] = "missed"
Untouched(p) == place[p] = "ahead" /\ ~Handled(p)
Live(x) == {p \in Paths : Exists(x, p) /\ x.hint[p] # "wiped"}

IdleInv ==
    /\ config = None /\ found = NoNodes
    /\ place = [p \in Paths |-> "ahead"]
    /\ m = Loaded(NoNodes)

RunInv ==
    /\ run \in Runs
    /\ config \in Configs /\ found \in FileSystems
    /\ log # <<>> => MayFollow(log[Len(log)].config, config)

(* The search is in the directories above every path that it has reached or *)
(* missed, and behind a path when everything in it is behind it or missed.  *)
MissedOrBehind(p) ==
    \A q \in Children(p) :
        IF IsFound(q) THEN place[q] = "behind" ELSE saved[q] # None => place[q] = "missed"
PlaceInv ==
    /\ place \in [Paths -> {"ahead", "inside", "behind", "missed"}]
    /\ \A p \in Paths :
        /\ place[p] # "ahead" => \A q \in Trail(Parent[p]) : Reached(q)
        /\ Reached(p) => Reported(p)
        /\ place[p] = "missed" => ~IsFound(p) /\ saved[p] # None
        /\ place[p] = "behind" => MissedOrBehind(p)
    /\ pc = "review" => MissedOrBehind(Root)

(* Reference counts are exact, and no node is kept without its directories. *)
CountInv ==
    /\ m \in Memory
    /\ \A b \in Runs : m.refs[b] = CountIn(m, Live(m), b)
    /\ \A p \in Live(m) : \A q \in Trail(p) : q \in Live(m)

TrackedNow(p) == \A q \in Trail(p) : Policy[q] = "track" /\ q \notin config.ignored

Extended(p) ==
    \/ m.node[p].history = saved[p].history
    \/ Head(m.node[p].history).backup = run /\ Tail(m.node[p].history) = saved[p].history

(* A node in memory.                                                        *)
NodeFine(p) ==
    /\ saved[p] # None => m.node[p] # None
    /\ m.node[p] # None =>
        /\ saved[p] # None \/ Reached(p)
        /\ Sound(p, m.node[p])
        /\ m.node[p].history[1].backup <= run
        /\ \A i \in DOMAIN m.node[p].history :
                m.node[p].history[i].backup = run \/ IsListed(m.node[p].history[i].backup)
        /\ Steady(p, m.node[p], Policy[p])
        /\ IF saved[p] = None
           THEN Len(m.node[p].history) = 1 /\ m.node[p].history[1].backup = run
           ELSE saved[p].policy = "track" /\ m.node[p].policy = "track" => Extended(p)
        /\ AlwaysTracked(p) /\ TrackedNow(p) => m.node[p].policy = "track"
        /\ p \in Live(m) /\ m.node[p].policy = "none" =>
            \/ m.node[p].history[1].state.type = "directory"
            \/ place[p] = "inside" /\ found[p].type # "directory" /\ saved[p] = None
NodeInv == \A p \in Paths : NodeFine(p)

(* What the run has done with a path so far.                                *)
UntouchedFine(p) ==
    Untouched(p) => m.node[p] = saved[p] /\ m.hint[p] = "none" /\ p \notin m.flag
UntouchedInv == \A p \in Paths : UntouchedFine(p)

SameContent(p) ==
    \/ m.node[p].history[1].state.content = found[p].content
    \/ saved[p] # None /\ LooksTheSame(LastState(saved[p].history), found[p])
ReachedFine(p) ==
    Reached(p) =>
        /\ m.node[p] # None /\ m.node[p].policy = Policy[p]
        /\ m.hint[p] = "wiped" => Policy[p] = "none" /\ place[p] = "behind"
        /\ Policy[p] # "none" => Seen(m.node[p].history[1].state) = Seen(found[p]) /\ SameContent(p)
        /\ m.hint[p] = "directoryReplaced" => found[p].type # "directory"
        /\ Policy[p] = "track" /\ saved[p] # None /\ m.hint[p] # "directoryReplaced"
             /\ saved[p].history[1].state.type = "directory"
           => found[p].type = "directory"
ReachedInv == \A p \in Paths : ReachedFine(p)

(* Paths that are missing.                                                  *)
Keeps(p) ==
    /\ saved[p] # None /\ saved[p].policy \in {"copy", "track"}
    /\ Policy[p] = saved[p].policy
    /\ \A q \in Trail(p) : q \notin config.ignored
    /\ \A q \in Trail(Parent[p]) :
         Policy[q] # "mirror" /\ (found[q] = None \/ found[q].type = "directory")
MissedFine(p) ==
    /\ place[p] = "missed" /\ Policy[p] = "mirror"
         /\ (Parent[p] # Root => found[Parent[p]].type = "directory")
       => m.hint[p] = "wiped"
    /\ Keeps(p) => m.hint[p] # "wiped"
    /\ Handled(p) /\ AlwaysTracked(p) /\ TrackedNow(p) /\ saved[p] # None
       => m.hint[p] # "wiped" /\ m.node[p].history[1].state = NonExisting
MissedInv == \A p \in Paths : MissedFine(p)

SearchInv ==
    /\ RunInv /\ PlaceInv /\ CountInv /\ NodeInv
    /\ UntouchedInv /\ ReachedInv /\ MissedInv

BackupInv ==
    /\ SavedInv /\ LogInv /\ FullInv
    /\ pc \in {"idle", "search", "review"}
    /\ IF pc = "idle" THEN IdleInv ELSE SearchInv

-----------------------------------------------------------------------------
(* The tree of paths.                                                       *)
LEMMA Smallest ==
    ASSUME NEW S \in SUBSET Nat, S # {}
    PROVE \E n \in S : \A k \in S : n <= k
<1> DEFINE R == {ss \in Nat \X Nat : ss[1] < ss[2]}
<1>1. IsWellFoundedOn(R, Nat)
    BY NatLessThanWellFounded DEF OpToRel
<1>2. PICK n \in S : \A k \in S : <<k, n>> \notin R
    <2> HIDE DEF R
    <2> QED BY <1>1, WFMin
<1>3. \A k \in S : ~(k < n)
    BY <1>2
<1> QED BY <1>3

(* How deep in the tree a path is. *)
LEMMA Depth ==
    \E depth \in [Paths \cup {Root} -> Nat], bound \in Nat :
        /\ \A p \in Paths : depth[Parent[p]] < depth[p]
        /\ \A p \in Paths \cup {Root} : depth[p] <= bound
<1>1. Cardinality(Paths) \in Nat
    BY TreeAssumption, FS_CardinalityType
<1>2. PICK depth \in [Paths \cup {Root} -> 0..Cardinality(Paths)] :
            \A p \in Paths : depth[Parent[p]] < depth[p]
    BY TreeAssumption
<1>3. depth \in [Paths \cup {Root} -> Nat]
    BY <1>1, <1>2
<1>4. \A p \in Paths \cup {Root} : depth[p] <= Cardinality(Paths)
    BY <1>1, <1>2
<1> QED BY <1>1, <1>2, <1>3, <1>4

(* What holds of a path when it holds of its parent holds of all paths. *)
LEMMA TreeInduction ==
    ASSUME NEW S \in SUBSET Paths,
           \A p \in Paths : Parent[p] = Root \/ Parent[p] \in S => p \in S
    PROVE \A p \in Paths : p \in S
<1>1. PICK depth \in [Paths \cup {Root} -> Nat] :
            \A p \in Paths : depth[Parent[p]] < depth[p]
    BY Depth
<1> DEFINE T == Paths \ S
           depths == {depth[p] : p \in T}
<1> SUFFICES ASSUME T # {} PROVE FALSE
    OBVIOUS
<1>2. depths \in SUBSET Nat /\ depths # {}
    BY <1>1
<1>3. PICK n \in depths : \A k \in depths : n <= k
    <2> HIDE DEF depths
    <2> QED BY <1>2, Smallest
<1>4. PICK p \in T : n = depth[p]
    BY <1>3
<1>5. Parent[p] \in T
    BY <1>4, TreeAssumption
<1>6. depth[Parent[p]] \in depths /\ depth[Parent[p]] < depth[p]
    BY <1>1, <1>4, <1>5
<1>7. depth[Parent[p]] \in Nat /\ depth[p] \in Nat /\ depth[p] <= depth[Parent[p]]
    BY <1>2, <1>3, <1>4, <1>6
<1> HIDE DEF depths, T
<1> QED BY <1>6, <1>7

(* What is defined along the way to the root has a solution.                *)
Unfolds(f, S, base, step) ==
    /\ f \in [Paths \cup {Root} -> S]
    /\ f[Root] = base
    /\ \A p \in Paths : f[p] = step[<<p, f[Parent[p]]>>]

LEMMA TreeRecursion ==
    ASSUME NEW S, NEW base \in S, NEW step \in [Paths \X S -> S]
    PROVE \E f : Unfolds(f, S, base, step)
<1>1. PICK depth \in [Paths \cup {Root} -> Nat], bound \in Nat :
            /\ \A p \in Paths : depth[Parent[p]] < depth[p]
            /\ \A p \in Paths \cup {Root} : depth[p] <= bound
    BY Depth
<1> DEFINE UpTo(n) == {p \in Paths : depth[p] <= n}
           Solves(f, n) == /\ f \in [UpTo(n) \cup {Root} -> S]
                           /\ f[Root] = base
                           /\ \A p \in UpTo(n) : f[p] = step[<<p, f[Parent[p]]>>]
           Unsolved == {n \in Nat : ~ \E f : Solves(f, n)}
<1>2. ASSUME NEW n \in Nat, NEW p \in UpTo(n)
      PROVE n # 0 /\ Parent[p] \in UpTo(n - 1) \cup {Root}
    <2>1. depth[p] \in Nat /\ depth[Parent[p]] \in Nat /\ depth[Parent[p]] < depth[p] /\ depth[p] <= n
        BY <1>1, TreeAssumption
    <2>2. n # 0 /\ depth[Parent[p]] <= n - 1
        BY <2>1
    <2> QED BY <2>2, TreeAssumption
<1>3. Unsolved = {}
    <2> SUFFICES ASSUME Unsolved # {} PROVE FALSE
        OBVIOUS
    <2>1. PICK n \in Unsolved : \A k \in Unsolved : n <= k
        <3>1. Unsolved \in SUBSET Nat
            OBVIOUS
        <3> HIDE DEF Unsolved
        <3> QED BY <3>1, Smallest
    <2>2. CASE n = 0
        <3> DEFINE f == [p \in UpTo(0) \cup {Root} |-> base]
        <3>1. UpTo(0) = {}
            BY <1>2
        <3>2. f \in [UpTo(0) \cup {Root} -> S] /\ f[Root] = base
            OBVIOUS
        <3>3. Solves(f, 0)
            BY <3>1, <3>2
        <3> QED BY <2>1, <2>2, <3>3
    <2>3. CASE n # 0
        <3>0. n \in Nat
            BY <2>1
        <3>1. n - 1 \in Nat /\ n - 1 \notin Unsolved
            <4> HIDE DEF Unsolved
            <4> QED BY <3>0, <2>1, <2>3
        <3>2. PICK f : Solves(f, n - 1)
            <4> HIDE DEF Solves
            <4> QED BY <3>1
        <3> DEFINE g == [p \in UpTo(n) \cup {Root} |->
                            IF p = Root THEN base ELSE step[<<p, f[Parent[p]]>>]]
        <3>3. \A p \in UpTo(n) : Parent[p] \in UpTo(n - 1) \cup {Root} /\ p # Root
            BY <1>2, <2>1, TreeAssumption
        <3>4. g \in [UpTo(n) \cup {Root} -> S]
            BY <3>2, <3>3
        <3>5. \A q \in UpTo(n - 1) \cup {Root} : q \in UpTo(n) \cup {Root}
            <4>1. \A q \in Paths : depth[q] \in Nat
                BY <1>1
            <4> QED BY <4>1, <2>1
        <3>6. \A q \in UpTo(n - 1) \cup {Root} : g[q] = f[q]
            <4>1. ASSUME NEW q \in UpTo(n - 1) PROVE g[q] = f[q]
                <5>1. f[q] = step[<<q, f[Parent[q]]>>]
                    BY <3>2
                <5> QED BY <5>1, <3>3, <3>5
            <4>2. g[Root] = f[Root]
                BY <3>2
            <4> QED BY <4>1, <4>2
        <3>7. \A p \in UpTo(n) : g[p] = step[<<p, g[Parent[p]]>>]
            BY <3>3, <3>6
        <3>8. Solves(g, n)
            BY <3>4, <3>7
        <3> QED BY <2>1, <3>8
    <2> QED BY <2>2, <2>3
<1>4. PICK f : Solves(f, bound)
    BY <1>1, <1>3
<1>5. UpTo(bound) = Paths
    BY <1>1
<1> HIDE DEF UpTo
<1> QED BY <1>4, <1>5 DEF Unfolds

LEMMA AncestorsFacts ==
    /\ Ancestors[Root] = {Root}
    /\ \A p \in Paths : Ancestors[p] = {p} \cup Ancestors[Parent[p]]
    /\ \A p \in Paths \cup {Root} : Ancestors[p] \subseteq Paths \cup {Root}
<1> DEFINE S == SUBSET (Paths \cup {Root})
           step == [a \in Paths \X S |-> {a[1]} \cup a[2]]
<1>1. {Root} \in S /\ step \in [Paths \X S -> S]
    OBVIOUS
<1>2. PICK f \in [Paths \cup {Root} -> S] :
            f[Root] = {Root} /\ \A p \in Paths : f[p] = step[<<p, f[Parent[p]]>>]
    <2>1. PICK f : Unfolds(f, S, {Root}, step)
        <3> HIDE DEF S, step
        <3> QED BY <1>1, TreeRecursion
    <2> QED BY <2>1 DEF Unfolds
<1>3. \A p \in Paths : f[p] = {p} \cup f[Parent[p]]
    <2> TAKE p \in Paths
    <2>1. <<p, f[Parent[p]]>> \in Paths \X S
        BY TreeAssumption
    <2> QED BY <1>2, <2>1
<1> HIDE DEF S, step
<1>4. f = [p \in Paths \cup {Root} |-> IF p = Root THEN {Root} ELSE {p} \cup f[Parent[p]]]
    BY <1>2, <1>3, TreeAssumption
<1>5. Ancestors = [p \in Paths \cup {Root} |->
                      IF p = Root THEN {Root} ELSE {p} \cup Ancestors[Parent[p]]]
    BY <1>4, Zenon DEF Ancestors
<1>6. Ancestors[Root] = {Root} /\ \A p \in Paths : Ancestors[p] = {p} \cup Ancestors[Parent[p]]
    BY <1>5, TreeAssumption
<1> DEFINE T == {p \in Paths : Ancestors[p] \subseteq Paths \cup {Root}}
<1>7. \A p \in Paths : p \in T
    <2>1. \A p \in Paths : Parent[p] = Root \/ Parent[p] \in T => p \in T
        BY <1>6, TreeAssumption
    <2>2. T \in SUBSET Paths
        OBVIOUS
    <2> HIDE DEF T
    <2> QED BY <2>1, <2>2, TreeInduction
<1> QED BY <1>6, <1>7

LEMMA PolicyFacts ==
    ASSUME NEW c, c.policy \in [Paths \cup {Root} -> Policies]
    PROVE /\ PolicyOf(c) \in [Paths \cup {Root} -> Policies]
          /\ \A p \in Paths : PolicyOf(c)[p] =
                  IF c.policy[p] # "none" THEN c.policy[p] ELSE PolicyOf(c)[Parent[p]]
<1> DEFINE own == c.policy
           step == [a \in Paths \X Policies |-> IF own[a[1]] # "none" THEN own[a[1]] ELSE a[2]]
<1>1. own[Root] \in Policies /\ step \in [Paths \X Policies -> Policies]
    OBVIOUS
<1>2. PICK f \in [Paths \cup {Root} -> Policies] :
            f[Root] = own[Root] /\ \A p \in Paths : f[p] = step[<<p, f[Parent[p]]>>]
    <2>1. PICK f : Unfolds(f, Policies, own[Root], step)
        <3> HIDE DEF step, own
        <3> QED BY <1>1, TreeRecursion
    <2> QED BY <2>1 DEF Unfolds
<1>3. \A p \in Paths : f[p] = IF own[p] # "none" THEN own[p] ELSE f[Parent[p]]
    <2> TAKE p \in Paths
    <2>1. <<p, f[Parent[p]]>> \in Paths \X Policies
        BY TreeAssumption
    <2> QED BY <1>2, <2>1
<1> HIDE DEF step
<1>4. f = [p \in Paths \cup {Root} |->
              IF c.policy[p] # "none" \/ p = Root THEN c.policy[p] ELSE f[Parent[p]]]
    BY <1>2, <1>3, TreeAssumption
<1>5. PolicyOf(c) = [p \in Paths \cup {Root} |->
              IF c.policy[p] # "none" \/ p = Root THEN c.policy[p] ELSE PolicyOf(c)[Parent[p]]]
    BY <1>4, Zenon DEF PolicyOf
<1>6. PolicyOf(c)[Root] = c.policy[Root]
    BY <1>5
<1>7. \A p \in Paths : PolicyOf(c)[p] =
                  IF c.policy[p] # "none" THEN c.policy[p] ELSE PolicyOf(c)[Parent[p]]
    BY <1>5, TreeAssumption
<1> DEFINE T == {p \in Paths : PolicyOf(c)[p] \in Policies}
<1>8. \A p \in Paths : p \in T
    <2>1. \A p \in Paths : Parent[p] = Root \/ Parent[p] \in T => p \in T
        BY <1>6, <1>7, TreeAssumption
    <2>2. T \in SUBSET Paths
        OBVIOUS
    <2> HIDE DEF T
    <2> QED BY <2>1, <2>2, TreeInduction
<1>9. \A p \in Paths \cup {Root} : PolicyOf(c)[p] \in Policies
    BY <1>6, <1>8
<1>10. DOMAIN PolicyOf(c) = Paths \cup {Root}
    BY <1>5
<1>11. PolicyOf(c) = [p \in Paths \cup {Root} |-> PolicyOf(c)[p]]
    BY <1>5, <1>10
<1> QED BY <1>7, <1>9, <1>11

(* Trails: a path and the directories above it.                             *)
LEMMA TrailFacts ==
    /\ Trail(Root) = {}
    /\ \A p \in Paths : /\ Trail(p) = {p} \cup Trail(Parent[p])
                        /\ Trail(p) \subseteq Paths
                        /\ Trail(Parent[p]) \subseteq Paths
                        /\ Parent[p] # Root => Parent[p] \in Trail(Parent[p])
    /\ \A p, q \in Paths : q \in Subtree(p) <=> p \in Trail(q)
<1>1. \A p \in Paths \cup {Root} : Trail(p) \subseteq Paths
    BY AncestorsFacts DEF Trail
<1>2. \A p \in Paths : Parent[p] \in Paths \cup {Root} /\ p # Root
    BY TreeAssumption
<1>3. \A p \in Paths : Trail(p) = {p} \cup Trail(Parent[p])
    BY <1>2, AncestorsFacts DEF Trail
<1>4. \A p, q \in Paths : q \in Subtree(p) <=> p \in Trail(q)
    BY <1>2 DEF Subtree, Trail
<1>5. \A p \in Paths : Parent[p] # Root => Parent[p] \in Trail(Parent[p])
    BY <1>2, <1>3
<1>6. Trail(Root) = {}
    BY AncestorsFacts DEF Trail
<1> QED BY <1>1, <1>2, <1>3, <1>4, <1>5, <1>6

LEMMA TrailTransitive ==
    \A p, q \in Paths : q \in Trail(p) => Trail(q) \subseteq Trail(p)
<1> DEFINE S == {p \in Paths : \A q \in Paths : q \in Trail(p) => Trail(q) \subseteq Trail(p)}
<1>1. ASSUME NEW p \in Paths, Parent[p] = Root \/ Parent[p] \in S PROVE p \in S
    BY <1>1, TrailFacts
<1>2. S \in SUBSET Paths
    OBVIOUS
<1>3. \A p \in Paths : p \in S
    <2> HIDE DEF S
    <2> QED BY <1>1, <1>2, TreeInduction
<1> QED BY <1>3

(* A path is not above itself. *)
LEMMA TrailAcyclic ==
    \A p \in Paths : p \notin Trail(Parent[p])
<1>1. PICK depth \in [Paths \cup {Root} -> Nat] :
            \A p \in Paths : depth[Parent[p]] < depth[p]
    BY Depth
<1> DEFINE S == {p \in Paths : \A q \in Trail(p) : depth[q] <= depth[p]}
<1>2. ASSUME NEW p \in Paths, Parent[p] = Root \/ Parent[p] \in S PROVE p \in S
    <2>1. ASSUME NEW q \in Trail(p) PROVE depth[q] <= depth[p]
        <3>0. depth[p] \in Nat /\ depth[Parent[p]] \in Nat /\ depth[q] \in Nat
            BY TreeAssumption, TrailFacts
        <3>1. CASE q = p
            BY <3>1, <3>0
        <3>2. CASE q # p
            <4>1. q \in Trail(Parent[p])
                BY <3>2, TrailFacts
            <4>2. Parent[p] \in S
                BY <4>1, <1>2, TrailFacts
            <4>3. depth[q] <= depth[Parent[p]]
                BY <4>1, <4>2
            <4> QED BY <4>3, <3>0, <1>1
        <3> QED BY <3>1, <3>2
    <2> QED BY <2>1
<1>3. \A p \in Paths : p \in S
    <2>1. S \in SUBSET Paths
        OBVIOUS
    <2> HIDE DEF S
    <2> QED BY <1>2, <2>1, TreeInduction
<1> SUFFICES ASSUME NEW p \in Paths, p \in Trail(Parent[p]) PROVE FALSE
    OBVIOUS
<1>4. Parent[p] \in S
    BY <1>3, TrailFacts, TreeAssumption
<1>5. depth[p] <= depth[Parent[p]] /\ depth[Parent[p]] < depth[p]
    BY <1>1, <1>4
<1>6. depth[p] \in Nat /\ depth[Parent[p]] \in Nat
    BY TreeAssumption
<1> QED BY <1>5, <1>6

(* Two directories above a path are one above the other, and the way down   *)
(* from a directory leads through one of its children.                      *)
LEMMA TrailOrder ==
    \A p \in Paths : \A q, r \in Trail(p) : q \in Trail(r) \/ r \in Trail(q)
<1> DEFINE S == {p \in Paths : \A q, r \in Trail(p) : q \in Trail(r) \/ r \in Trail(q)}
<1>1. ASSUME NEW p \in Paths, Parent[p] = Root \/ Parent[p] \in S PROVE p \in S
    BY <1>1, TrailFacts
<1>2. S \in SUBSET Paths
    OBVIOUS
<1>3. \A p \in Paths : p \in S
    <2> HIDE DEF S
    <2> QED BY <1>1, <1>2, TreeInduction
<1> QED BY <1>3

LEMMA WayDown ==
    \A p \in Paths : \A q \in Trail(Parent[p]) : \E c \in Children(q) : c \in Trail(p)
<1> DEFINE S == {p \in Paths : \A q \in Trail(Parent[p]) : \E c \in Children(q) : c \in Trail(p)}
<1>1. ASSUME NEW p \in Paths, Parent[p] = Root \/ Parent[p] \in S PROVE p \in S
    <2>1. ASSUME NEW q \in Trail(Parent[p]) PROVE \E c \in Children(q) : c \in Trail(p)
        <3>1. CASE q = Parent[p]
            BY <3>1, TrailFacts DEF Children
        <3>2. CASE q # Parent[p]
            <4>1. Parent[p] \in S /\ q \in Trail(Parent[Parent[p]])
                BY <1>1, <2>1, <3>2, TrailFacts
            <4>2. PICK c \in Children(q) : c \in Trail(Parent[p])
                BY <4>1
            <4> QED BY <4>2, TrailFacts
        <3> QED BY <3>1, <3>2
    <2> QED BY <2>1
<1>2. S \in SUBSET Paths
    OBVIOUS
<1>3. \A p \in Paths : p \in S
    <2> HIDE DEF S
    <2> QED BY <1>1, <1>2, TreeInduction
<1> QED BY <1>3

-----------------------------------------------------------------------------
(* Counting points.                                                         *)
Histories(x, ps) == \A p \in ps : x.node[p].history \in Seq(Point)

LEMMA PlacesFacts ==
    ASSUME NEW h \in Seq(Point), NEW b
    PROVE /\ Places(h, b) \subseteq 0 .. Len(h) - 1
          /\ IsFiniteSet(Places(h, b)) /\ Count(h, b) \in Nat
<1>1. Len(h) \in Nat /\ DOMAIN h = 1 .. Len(h)
    OBVIOUS
<1>2. \A i \in 1 .. Len(h) : Len(h) - i \in 0 .. Len(h) - 1
    BY <1>1
<1>3. Places(h, b) \subseteq 0 .. Len(h) - 1
    BY <1>1, <1>2 DEF Places
<1>4. IsFiniteSet(0 .. Len(h) - 1)
    BY <1>1, FS_Interval
<1>5. IsFiniteSet(Places(h, b))
    BY <1>3, <1>4, FS_Subset
<1> QED BY <1>3, <1>5, FS_CardinalityType DEF Count

LEMMA PointsFinite ==
    ASSUME NEW x, NEW ps \in SUBSET Paths, Histories(x, ps), NEW b
    PROVE IsFiniteSet(Points(x, ps, b)) /\ CountIn(x, ps, b) \in Nat
<1> DEFINE of == [p \in ps |-> {p} \X Places(x.node[p].history, b)]
           T == {of[p] : p \in ps}
<1>1. IsFiniteSet(ps)
    BY TreeAssumption, FS_Subset
<1>2. of \in Surjection(ps, T)
    BY DEF Surjection
<1>3. IsFiniteSet(T)
    <2> HIDE DEF of, T
    <2> QED BY <1>1, <1>2, FS_Surjection
<1>4. \A t \in T : IsFiniteSet(t)
    <2>1. ASSUME NEW p \in ps PROVE IsFiniteSet({p} \X Places(x.node[p].history, b))
        BY PlacesFacts, FS_Singleton, FS_Product DEF Histories
    <2> QED BY <2>1
<1>5. IsFiniteSet(UNION T)
    <2> HIDE DEF T
    <2> QED BY <1>3, <1>4, FS_UNION
<1>6. UNION T = Points(x, ps, b)
    BY DEF Points
<1> HIDE DEF T
<1> QED BY <1>5, <1>6, FS_CardinalityType DEF CountIn

LEMMA PointsMember ==
    \A x, ps, b : \A t : t \in Points(x, ps, b) <=>
        \E p \in ps : \E k \in Places(x.node[p].history, b) : t = <<p, k>>
BY DEF Points

(* Sets of nodes that have nothing in common are counted apart. *)
LEMMA CountDisjoint ==
    ASSUME NEW x, NEW ps \in SUBSET Paths, NEW qs \in SUBSET Paths, ps \cap qs = {},
           Histories(x, ps), Histories(x, qs), NEW b
    PROVE CountIn(x, ps \cup qs, b) = CountIn(x, ps, b) + CountIn(x, qs, b)
<1>1. Points(x, ps \cup qs, b) = Points(x, ps, b) \cup Points(x, qs, b)
    BY DEF Points
<1>2. Points(x, ps, b) \cap Points(x, qs, b) = {}
    BY PointsMember
<1>3. /\ IsFiniteSet(Points(x, ps, b)) /\ IsFiniteSet(Points(x, qs, b))
      /\ CountIn(x, ps, b) \in Nat /\ CountIn(x, qs, b) \in Nat
    BY PointsFinite
<1>4. CountIn(x, ps \cup qs, b)
        = Cardinality(Points(x, ps, b)) + Cardinality(Points(x, qs, b)) - Cardinality({})
    <2> DEFINE A == Points(x, ps, b)
               B == Points(x, qs, b)
    <2> HIDE DEF A, B
    <2>1. Cardinality(A \cup B) = Cardinality(A) + Cardinality(B) - Cardinality(A \cap B)
        BY <1>3, FS_Union DEF A, B
    <2> QED BY <2>1, <1>1, <1>2 DEF A, B, CountIn
<1> QED BY <1>3, <1>4, FS_EmptySet DEF CountIn

LEMMA CountSame ==
    ASSUME NEW x, NEW y, NEW ps, \A p \in ps : x.node[p].history = y.node[p].history, NEW b
    PROVE CountIn(x, ps, b) = CountIn(y, ps, b)
BY DEF CountIn, Points

LEMMA CountOne ==
    ASSUME NEW x, NEW p \in Paths, x.node[p].history \in Seq(Point), NEW b
    PROVE CountIn(x, {p}, b) = Count(x.node[p].history, b)
<1>1. Points(x, {p}, b) = {p} \X Places(x.node[p].history, b)
    BY DEF Points
<1>2. IsFiniteSet(Places(x.node[p].history, b)) /\ Count(x.node[p].history, b) \in Nat
    BY PlacesFacts
<1>3. IsFiniteSet({p}) /\ Cardinality({p}) = 1
    BY FS_Singleton
<1>4. Cardinality(Points(x, {p}, b)) = 1 * Count(x.node[p].history, b)
    BY <1>1, <1>2, <1>3, FS_Product DEF Count
<1> QED BY <1>2, <1>4 DEF CountIn

LEMMA CountNothing ==
    \A x, b : CountIn(x, {}, b) = 0
BY FS_EmptySet DEF CountIn, Points

LEMMA PlacesPushed ==
    ASSUME NEW h \in Seq(Point), NEW point \in Point, NEW b
    PROVE Places(<<point>> \o h, b)
            = Places(h, b) \cup (IF point.backup = b THEN {Len(h)} ELSE {})
<1> DEFINE g == <<point>> \o h
<1>1. /\ Len(g) = Len(h) + 1 /\ Len(h) \in Nat
      /\ DOMAIN g = 1 .. Len(h) + 1 /\ DOMAIN h = 1 .. Len(h)
      /\ g[1] = point /\ \A i \in 1 .. Len(h) : g[i + 1] = h[i]
    OBVIOUS
<1> HIDE DEF g
<1>2. ASSUME NEW k \in Places(g, b)
      PROVE k \in Places(h, b) \cup (IF point.backup = b THEN {Len(h)} ELSE {})
    <2>1. PICK i \in 1 .. Len(h) + 1 : g[i].backup = b /\ k = Len(h) + 1 - i
        BY <1>1 DEF Places
    <2>2. CASE i = 1
        BY <2>1, <2>2, <1>1
    <2>3. CASE i # 1
        <3>1. i - 1 \in 1 .. Len(h) /\ g[i] = h[i - 1] /\ k = Len(h) - (i - 1)
            <4>1. i - 1 \in 1 .. Len(h) /\ (i - 1) + 1 = i
                BY <2>1, <2>3, <1>1
            <4>2. g[(i - 1) + 1] = h[i - 1]
                BY <4>1, <1>1
            <4> QED BY <4>1, <4>2, <2>1, <1>1
        <3>2. k \in Places(h, b)
            BY <3>1, <2>1, <1>1 DEF Places
        <3> QED BY <3>2
    <2> QED BY <2>2, <2>3
<1>3. ASSUME NEW k \in Places(h, b) PROVE k \in Places(g, b)
    <2>1. PICK i \in 1 .. Len(h) : h[i].backup = b /\ k = Len(h) - i
        BY <1>1 DEF Places
    <2>2. i + 1 \in DOMAIN g /\ g[i + 1].backup = b /\ k = Len(g) - (i + 1)
        BY <2>1, <1>1
    <2> QED BY <2>2 DEF Places
<1>4. point.backup = b => Len(h) \in Places(g, b)
    <2>1. 1 \in DOMAIN g /\ Len(h) = Len(g) - 1
        BY <1>1
    <2> QED BY <2>1, <1>1 DEF Places
<1>5. Places(g, b) = Places(h, b) \cup (IF point.backup = b THEN {Len(h)} ELSE {})
    BY <1>2, <1>3, <1>4
<1> QED BY <1>5 DEF g

(* A point in front of each history of a set. *)
InFront(x, y, ps, point) ==
    \A p \in ps : y.node[p].history = <<point>> \o x.node[p].history

LEMMA CountPushed ==
    ASSUME NEW x, NEW y, NEW ps \in SUBSET Paths, Histories(x, ps), NEW point \in Point,
           InFront(x, y, ps, point), NEW b
    PROVE CountIn(y, ps, b) = CountIn(x, ps, b)
                                + IF point.backup = b THEN Cardinality(ps) ELSE 0
<1> DEFINE f == [p \in ps |-> <<p, Len(x.node[p].history)>>]
           new == {f[p] : p \in ps}
<1>0. \A p \in ps : x.node[p].history \in Seq(Point)
    BY DEF Histories
<1>1. \A p \in ps : Places(y.node[p].history, b) = Places(x.node[p].history, b)
                      \cup (IF point.backup = b THEN {Len(x.node[p].history)} ELSE {})
    <2> TAKE p \in ps
    <2> DEFINE h == x.node[p].history
    <2>1. h \in Seq(Point) /\ y.node[p].history = <<point>> \o h
        BY <1>0 DEF InFront
    <2> HIDE DEF h
    <2>2. Places(<<point>> \o h, b) = Places(h, b) \cup (IF point.backup = b THEN {Len(h)} ELSE {})
        BY <2>1, PlacesPushed
    <2> QED BY <2>1, <2>2 DEF h
<1>2. CountIn(x, ps, b) \in Nat /\ IsFiniteSet(Points(x, ps, b)) /\ IsFiniteSet(ps)
    BY PointsFinite, TreeAssumption, FS_Subset
<1>3. CASE point.backup # b
    <2>1. Points(y, ps, b) = Points(x, ps, b)
        BY <1>1, <1>3 DEF Points
    <2> QED BY <2>1, <1>2, <1>3 DEF CountIn
<1>4. CASE point.backup = b
    <2>1. Points(y, ps, b) = Points(x, ps, b) \cup new
        <3>1. ASSUME NEW t \in Points(y, ps, b) PROVE t \in Points(x, ps, b) \cup new
            <4>1. PICK p \in ps : \E k \in Places(y.node[p].history, b) : t = <<p, k>>
                BY <3>1, PointsMember
            <4>2. PICK k \in Places(y.node[p].history, b) : t = <<p, k>>
                BY <4>1
            <4>3. CASE k \in Places(x.node[p].history, b)
                BY <4>2, <4>3, PointsMember
            <4>4. CASE k = Len(x.node[p].history)
                BY <4>2, <4>4
            <4> QED BY <4>2, <4>3, <4>4, <1>1, <1>4
        <3>2. ASSUME NEW t \in Points(x, ps, b) PROVE t \in Points(y, ps, b)
            BY <3>2, <1>1, PointsMember
        <3>3. ASSUME NEW p \in ps PROVE f[p] \in Points(y, ps, b)
            <4>1. Len(x.node[p].history) \in Places(y.node[p].history, b)
                BY <1>1, <1>4
            <4> QED BY <4>1, PointsMember
        <3> QED BY <3>1, <3>2, <3>3
    <2>2. Points(x, ps, b) \cap new = {}
        <3> SUFFICES ASSUME NEW p \in ps, f[p] \in Points(x, ps, b) PROVE FALSE
            OBVIOUS
        <3>1. Len(x.node[p].history) \in Places(x.node[p].history, b)
            BY PointsMember
        <3>2. Len(x.node[p].history) \in 0 .. Len(x.node[p].history) - 1
            BY <3>1, <1>0, PlacesFacts
        <3>3. Len(x.node[p].history) \in Nat
            BY <1>0
        <3> QED BY <3>2, <3>3
    <2>3. IsFiniteSet(new) /\ Cardinality(new) = Cardinality(ps)
        <3>1. f \in Surjection(ps, new) /\ f \in Injection(ps, new)
            BY DEF Surjection, Injection, IsInjective
        <3> HIDE DEF f, new
        <3> QED BY <3>1, <1>2, FS_Surjection
    <2>4. Cardinality(Points(y, ps, b))
            = CountIn(x, ps, b) + Cardinality(ps) - Cardinality({})
        <3> HIDE DEF new
        <3> QED BY <2>1, <2>2, <2>3, <1>2, FS_Union DEF CountIn
    <2>5. Cardinality(ps) \in Nat
        BY <1>2, FS_CardinalityType
    <2> QED BY <2>4, <2>5, <1>2, <1>4, FS_EmptySet DEF CountIn
<1> QED BY <1>3, <1>4

-----------------------------------------------------------------------------
(* What the operations on the metadata in memory do, and that the reference *)
(* counts are exact after them when they were before.                       *)
Exact(x) == \A b \in Runs : x.refs[b] = CountIn(x, Live(x), b)

LEMMA NodeFacts ==
    /\ None \notin Node
    /\ \A x \in Memory : \A p \in Paths : Exists(x, p) =>
            /\ x.node[p] \in Node /\ x.node[p].history \in Seq(Point)
            /\ x.node[p].policy \in Policies
    /\ \A x \in Memory : Histories(x, Live(x)) /\ Live(x) \in SUBSET Paths
<1>1. None \notin Node
    BY NodeAssumption DEF Node, Point
<1> QED BY <1>1 DEF Memory, Node, Exists, Histories, Live

(* Only the nodes of a set change. *)
OnlyIn(x, y, ps) ==
    /\ Live(x) \ ps = Live(y) \ ps
    /\ \A p \in Live(x) \ ps : x.node[p].history = y.node[p].history

(* The points of the other nodes are as many as before.                     *)
SameBeyond(x, y, ps, b) ==
    /\ CountIn(y, Live(y), b) - CountIn(y, Live(y) \cap ps, b)
         = CountIn(x, Live(x), b) - CountIn(x, Live(x) \cap ps, b)
    /\ CountIn(y, Live(y), b) \in Nat /\ CountIn(y, Live(y) \cap ps, b) \in Nat
    /\ CountIn(x, Live(x), b) \in Nat /\ CountIn(x, Live(x) \cap ps, b) \in Nat

LEMMA CountChange ==
    ASSUME NEW x \in Memory, NEW y \in Memory, NEW ps \in SUBSET Paths, OnlyIn(x, y, ps), NEW b
    PROVE SameBeyond(x, y, ps, b)
<1>1. ASSUME NEW z \in Memory
      PROVE /\ CountIn(z, Live(z), b) = CountIn(z, Live(z) \ ps, b) + CountIn(z, Live(z) \cap ps, b)
            /\ CountIn(z, Live(z) \ ps, b) \in Nat /\ CountIn(z, Live(z) \cap ps, b) \in Nat
            /\ CountIn(z, Live(z), b) \in Nat
    <2> DEFINE A == Live(z) \ ps
               B == Live(z) \cap ps
    <2>1. /\ A \in SUBSET Paths /\ B \in SUBSET Paths /\ A \cap B = {} /\ A \cup B = Live(z)
          /\ Histories(z, A) /\ Histories(z, B) /\ Histories(z, Live(z)) /\ Live(z) \in SUBSET Paths
        BY NodeFacts DEF Histories
    <2> HIDE DEF A, B
    <2>2. CountIn(z, A \cup B, b) = CountIn(z, A, b) + CountIn(z, B, b)
        BY <2>1, CountDisjoint
    <2>3. CountIn(z, A, b) \in Nat /\ CountIn(z, B, b) \in Nat /\ CountIn(z, Live(z), b) \in Nat
        BY <2>1, PointsFinite
    <2> QED BY <2>1, <2>2, <2>3 DEF A, B
<1>2. CountIn(x, Live(x) \ ps, b) = CountIn(y, Live(y) \ ps, b)
    <2> DEFINE A == Live(x) \ ps
    <2>1. \A p \in A : x.node[p].history = y.node[p].history
        BY DEF OnlyIn
    <2>0. A = Live(y) \ ps
        BY DEF OnlyIn
    <2> HIDE DEF A
    <2>2. CountIn(x, A, b) = CountIn(y, A, b)
        BY <2>1, CountSame
    <2> QED BY <2>0, <2>2 DEF A
<1> QED BY <1>1, <1>2 DEF SameBeyond

LEMMA WipeEffect ==
    ASSUME NEW x \in Memory, NEW ps \in SUBSET Paths
    PROVE LET y == Wipe(x, ps)
          IN /\ y \in Memory
             /\ y.node = x.node /\ y.flag = x.flag
             /\ \A p \in Paths :
                    y.hint[p] = IF p \in ps /\ Exists(x, p) THEN "wiped" ELSE x.hint[p]
             /\ Live(y) = Live(x) \ ps
             /\ Exact(x) => Exact(y)
<1> DEFINE y == Wipe(x, ps)
           W == {p \in ps : Exists(x, p) /\ x.hint[p] # "wiped"}
           hint == [p \in Paths |-> IF p \in W THEN "wiped" ELSE x.hint[p]]
           refs == [b \in Runs |-> x.refs[b] - CountIn(x, W, b)]
<1>1. W = Live(x) \cap ps
    BY DEF Live
<1>2. Histories(x, W) /\ W \in SUBSET Paths
    BY <1>1, NodeFacts DEF Histories
<1>3. \A b \in Runs : CountIn(x, W, b) \in Nat
    <2> HIDE DEF W
    <2> QED BY <1>2, PointsFinite
<1>4. y = [x EXCEPT !.hint = hint, !.refs = refs]
    BY DEF Wipe
<1>5. x.hint \in [Paths -> Hints] /\ x.refs \in [Runs -> Int]
    BY DEF Memory
<1>6. hint \in [Paths -> Hints] /\ refs \in [Runs -> Int]
    <2>1. hint \in [Paths -> Hints]
        BY <1>5 DEF Hints
    <2> HIDE DEF W
    <2>2. refs \in [Runs -> Int]
        BY <1>3, <1>5
    <2> QED BY <2>1, <2>2
<1> HIDE DEF y
<1>7. y.hint = hint /\ y.refs = refs /\ y.node = x.node /\ y.flag = x.flag /\ y \in Memory
    <2> HIDE DEF hint, refs
    <2> QED BY <1>4, <1>6 DEF Memory
<1>8. \A p \in Paths : y.hint[p] = IF p \in ps /\ Exists(x, p) THEN "wiped" ELSE x.hint[p]
    BY <1>7
<1>9. Live(y) = Live(x) \ ps
    BY <1>7, <1>8 DEF Live, Exists
<1>10. ASSUME Exact(x), NEW b \in Runs PROVE y.refs[b] = CountIn(y, Live(y), b)
    <2>1. y.refs[b] = x.refs[b] - CountIn(x, W, b)
        BY <1>7
    <2>2. x.refs[b] = CountIn(x, Live(x), b)
        BY <1>10 DEF Exact
    <2>3. SameBeyond(x, y, ps, b)
        <3>1. OnlyIn(x, y, ps) /\ y \in Memory
            BY <1>7, <1>9 DEF OnlyIn
        <3> HIDE DEF W, hint, refs
        <3> QED BY <3>1, CountChange
    <2>4. Live(y) \cap ps = {}
        BY <1>9
    <2>5. CountIn(y, Live(y) \cap ps, b) = 0
        BY <2>4, CountNothing
    <2> HIDE DEF W
    <2> QED BY <1>1, <2>1, <2>2, <2>3, <2>5 DEF SameBeyond
<1> HIDE DEF W, hint, refs
<1> QED BY <1>7, <1>8, <1>9, <1>10 DEF Exact, y

LEMMA ExactSame ==
    ASSUME NEW x, NEW y, x.refs = y.refs, x.node = y.node, Live(x) = Live(y), Exact(x)
    PROVE Exact(y)
BY DEF Exact, CountIn, Points

PushedAll(x, y, ps, state) ==
    /\ y \in Memory
    /\ y.hint = x.hint /\ y.flag = x.flag
    /\ \A p \in Paths : y.node[p] = IF p \in ps THEN Pushed(x.node[p], state) ELSE x.node[p]
    /\ Live(y) = Live(x)
    /\ Exact(x) /\ ps \subseteq Live(x) => Exact(y)

LEMMA PushAllEffect ==
    ASSUME NEW x \in Memory, NEW ps \in SUBSET Paths, \A p \in ps : Exists(x, p),
           run \in Runs, NEW state \in Mixed \cup {NonExisting}
    PROVE PushedAll(x, PushAll(x, ps, state), ps, state)
<1> DEFINE y == PushAll(x, ps, state)
           point == [backup |-> run, state |-> state]
           node == [p \in Paths |->
                       IF p \in ps THEN Pushed(x.node[p], state) ELSE x.node[p]]
           refs == [x.refs EXCEPT ![run] = @ + Cardinality(ps)]
<1>1. y = [x EXCEPT !.node = node, !.refs = refs]
    BY DEF PushAll
<1>2. \A p \in ps : node[p] = Pushed(x.node[p], state)
    OBVIOUS
<1>3. node \in [Paths -> Node \cup {None}]
    <2>1. point \in Point
        BY DEF Point
    <2>2. ASSUME NEW p \in ps PROVE Pushed(x.node[p], state) \in Node
        <3>1. x.node[p].history \in Seq(Point) /\ x.node[p].policy \in Policies
            BY NodeFacts
        <3>2. <<point>> \o x.node[p].history \in Seq(Point)
            <4> HIDE DEF point
            <4> QED BY <2>1, <3>1
        <3> QED BY <3>1, <3>2 DEF Pushed, Node
    <2>3. ASSUME NEW p \in Paths PROVE node[p] \in Node \cup {None}
        <3>1. x.node[p] \in Node \cup {None}
            BY DEF Memory
        <3>2. p \notin ps => node[p] = x.node[p]
            OBVIOUS
        <3> HIDE DEF node
        <3> QED BY <3>1, <3>2, <1>2, <2>2
    <2>4. node = [p \in Paths |-> node[p]]
        OBVIOUS
    <2> HIDE DEF node
    <2> QED BY <2>3, <2>4
<1>4. Cardinality(ps) \in Nat /\ IsFiniteSet(ps)
    BY TreeAssumption, FS_Subset, FS_CardinalityType
<1>5. refs \in [Runs -> Int]
    BY <1>4 DEF Memory
<1> HIDE DEF y
<1>6. y.hint = x.hint /\ y.flag = x.flag /\ y.node = node /\ y.refs = refs /\ y \in Memory
    <2> HIDE DEF node, refs
    <2> QED BY <1>1, <1>3, <1>5 DEF Memory
<1>7. \A p \in Paths :
          y.node[p] = IF p \in ps THEN Pushed(x.node[p], state) ELSE x.node[p]
    <2>1. \A p \in Paths : p \notin ps => node[p] = x.node[p]
        OBVIOUS
    <2> HIDE DEF node
    <2> QED BY <2>1, <1>2, <1>6
<1>8. Live(y) = Live(x)
    <2>1. \A p \in Paths : Exists(y, p) <=> Exists(x, p)
        <3> TAKE p \in Paths
        <3>1. p \in ps => Exists(y, p) /\ Exists(x, p)
            <4>1. p \in ps => y.node[p] = node[p] /\ node[p] # None
                <5>1. p \in ps => Pushed(x.node[p], state) \in Node
                    <6>1. p \in ps => node[p] = Pushed(x.node[p], state)
                        BY <1>2
                    <6>2. p \in ps => x.node[p].history \in Seq(Point) /\ x.node[p].policy \in Policies
                        BY NodeFacts
                    <6>3. p \in ps => <<point>> \o x.node[p].history \in Seq(Point)
                        <7>1. point \in Point
                            BY DEF Point
                        <7> HIDE DEF point
                        <7> QED BY <6>2, <7>1
                    <6> QED BY <6>2, <6>3 DEF Pushed, Node
                <5> QED BY <5>1, <1>2, <1>6, NodeFacts
            <4> QED BY <4>1 DEF Exists
        <3>2. p \notin ps => y.node[p] = x.node[p]
            BY <1>7
        <3> QED BY <3>1, <3>2 DEF Exists
    <2> QED BY <2>1, <1>6 DEF Live
<1>9. ASSUME Exact(x), ps \subseteq Live(x), NEW b \in Runs PROVE y.refs[b] = CountIn(y, Live(y), b)
    <2>1. y.refs[b] = x.refs[b] + IF b = run THEN Cardinality(ps) ELSE 0
        BY <1>4, <1>6 DEF Memory
    <2>2. x.refs[b] = CountIn(x, Live(x), b)
        BY <1>9 DEF Exact
    <2>3. SameBeyond(x, y, ps, b)
        <3>1. OnlyIn(x, y, ps) /\ y \in Memory
            BY <1>6, <1>7, <1>8 DEF OnlyIn, Live
        <3> HIDE DEF node, refs, point
        <3> QED BY <3>1, CountChange
    <2>4. Live(y) \cap ps = ps /\ Live(x) \cap ps = ps
        BY <1>8, <1>9
    <2>5. CountIn(y, ps, b) = CountIn(x, ps, b) + IF point.backup = b THEN Cardinality(ps) ELSE 0
        <3>1. Histories(x, ps)
            BY NodeFacts DEF Histories
        <3>2. point \in Point
            BY DEF Point
        <3> HIDE DEF node, refs, point
        <3>3. InFront(x, y, ps, point)
            <4>1. ASSUME NEW p \in ps
                  PROVE y.node[p].history = <<point>> \o x.node[p].history
                <5>1. y.node[p] = Pushed(x.node[p], state)
                    BY <1>7
                <5> QED BY <5>1 DEF Pushed, point
            <4> QED BY <4>1 DEF InFront
        <3> QED BY <3>1, <3>2, <3>3, CountPushed
    <2>6. point.backup = run
        OBVIOUS
    <2>7. CountIn(y, Live(y) \cap ps, b) = CountIn(y, ps, b)
          /\ CountIn(x, Live(x) \cap ps, b) = CountIn(x, ps, b)
        BY <2>4
    <2> HIDE DEF point, node, refs
    <2> QED BY <2>1, <2>2, <2>3, <2>5, <2>6, <2>7, <1>4 DEF SameBeyond
<1> HIDE DEF node, refs, point
<1> QED BY <1>6, <1>7, <1>8, <1>9 DEF PushedAll, Exact, y

LEMMA SoundFacts ==
    ASSUME NEW p \in Paths, NEW n, Sound(p, n)
    PROVE /\ n.policy \in Policies /\ n.history \in Seq(Point) /\ n \in Node
          /\ Len(n.history) \in Nat \ {0} /\ DOMAIN n.history = 1 .. Len(n.history)
          /\ Head(n.history) = n.history[1]
          /\ \A i \in DOMAIN n.history : n.history[i] \in Point /\ n.history[i].backup \in Runs
          /\ n.history[1].state = NonExisting =>
                /\ 2 \in DOMAIN n.history /\ n.history[2].state # NonExisting
                /\ n.history[2].backup < n.history[1].backup
<1>1. n.policy \in Policies /\ n.history \in Seq(Point) /\ n \in Node /\ n.history # <<>>
    BY DEF Sound, Node
<1>2. Len(n.history) \in Nat \ {0} /\ DOMAIN n.history = 1 .. Len(n.history)
      /\ Head(n.history) = n.history[1]
    BY <1>1
<1>3. \A i \in DOMAIN n.history : n.history[i] \in Point
    BY <1>1
<1>4. \A i \in DOMAIN n.history : n.history[i].backup \in Runs
    BY <1>3 DEF Point
<1>5. ASSUME n.history[1].state = NonExisting
      PROVE /\ 2 \in DOMAIN n.history /\ n.history[2].state # NonExisting
            /\ n.history[2].backup < n.history[1].backup
    <2> DEFINE k == Len(n.history)
    <2>1. k # 1 /\ k \in Nat \ {0} /\ DOMAIN n.history = 1 .. k
        BY <1>2, <1>5 DEF Sound
    <2>2. \A i \in 1 .. k - 1 : /\ n.history[i].backup > n.history[i + 1].backup
                               /\ n.history[i].state # n.history[i + 1].state
        BY DEF Sound
    <2> HIDE DEF k
    <2>3. 1 \in 1 .. k - 1 /\ 2 \in DOMAIN n.history /\ 1 \in DOMAIN n.history /\ 1 + 1 = 2
        BY <2>1
    <2>4. n.history[1].backup > n.history[2].backup /\ n.history[1].state # n.history[2].state
        BY <2>2, <2>3
    <2>5. n.history[1].backup \in Nat /\ n.history[2].backup \in Nat
        BY <1>4, <2>3 DEF Runs
    <2> QED BY <1>5, <2>3, <2>4, <2>5
<1> QED BY <1>1, <1>2, <1>3, <1>4, <1>5

(* A node whose policy has changed. *)
Trimmed(n, policy) ==
    IF n.policy = policy THEN n
    ELSE [policy |-> policy,
          history |-> IF n.policy = "track" THEN <<Latest(n.history)>> ELSE n.history]

LEMMA TrimmedSound ==
    ASSUME NEW p \in Paths, NEW n, Sound(p, n), NEW policy \in Policies
    PROVE LET t == Trimmed(n, policy)
          IN /\ Sound(p, t) /\ t.policy = policy
             /\ t.history[1].backup <= n.history[1].backup
             /\ \A i \in DOMAIN t.history : \E j \in DOMAIN n.history : t.history[i] = n.history[j]
             /\ n.policy # policy => t.history[1].state # NonExisting /\ Len(t.history) = 1
<1> DEFINE t == Trimmed(n, policy)
<1>1. CASE n.policy = policy
    <2>1. t = n
        BY <1>1 DEF Trimmed
    <2>2. n.history[1].backup \in Int
        BY SoundFacts DEF Runs
    <2> HIDE DEF t
    <2> QED BY <2>1, <2>2, <1>1 DEF t
<1>2. CASE n.policy # policy /\ n.policy # "track"
    <2>1. t.policy = policy /\ t.history = n.history /\ Len(n.history) = 1
        BY <1>2 DEF Trimmed, Sound
    <2>2. n.history[1].backup \in Int /\ n.history[1].state # NonExisting
        BY <2>1, SoundFacts DEF Runs, Sound
    <2>3. t \in Node
        BY <1>2, SoundFacts DEF Trimmed, Node
    <2> HIDE DEF t
    <2>4. Sound(p, t)
        BY <2>1, <2>3 DEF Sound
    <2> QED BY <2>1, <2>2, <2>4 DEF t
<1>3. CASE n.policy # policy /\ n.policy = "track"
    <2>1. PICK j \in DOMAIN n.history :
              /\ Latest(n.history) = n.history[j] /\ n.history[j].state # NonExisting
              /\ n.history[j].backup <= n.history[1].backup
        <3>1. CASE n.history[1].state = NonExisting
            <4>1. Latest(n.history) = n.history[2] /\ 2 \in DOMAIN n.history /\ n.history[2].state # NonExisting
                  /\ n.history[2].backup < n.history[1].backup
                BY <3>1, SoundFacts DEF Latest
            <4>2. n.history[1].backup \in Int /\ n.history[2].backup \in Int
                BY <4>1, SoundFacts DEF Runs
            <4> QED BY <4>1, <4>2
        <3>2. CASE n.history[1].state # NonExisting
            <4>1. Latest(n.history) = n.history[1] /\ 1 \in DOMAIN n.history /\ n.history[1].backup \in Int
                BY <3>2, SoundFacts DEF Latest, Runs
            <4> QED BY <3>2, <4>1
        <3> QED BY <3>1, <3>2
    <2>2. t.policy = policy /\ t.history = <<n.history[j]>>
        BY <1>3, <2>1 DEF Trimmed
    <2>3. n.history[j] \in Point
        BY SoundFacts
    <2>4. Len(t.history) = 1 /\ DOMAIN t.history = {1} /\ t.history[1] = n.history[j]
        BY <2>2
    <2>5. t \in Node
        BY <1>3, <2>1, <2>3 DEF Trimmed, Node
    <2> HIDE DEF t
    <2>6. Sound(p, t)
        <3>1. n.history[j].state.type \in Kinds(p)
            BY <2>1 DEF Sound
        <3>2. 1 .. Len(t.history) - 1 = {}
            BY <2>4
        <3>3. t.history # <<>>
            BY <2>2
        <3> QED BY <2>1, <2>4, <2>5, <3>1, <3>2, <3>3 DEF Sound
    <2> QED BY <2>1, <2>2, <2>4, <2>6 DEF t
<1> QED BY <1>1, <1>2, <1>3

(* One node gets another history and is counted anew. *)
CountedAnew(x, y, p) ==
    \A b \in Runs : y.refs[b] = x.refs[b] - Count(x.node[p].history, b)
                                          + Count(y.node[p].history, b)

LEMMA ExactReplaced ==
    ASSUME NEW x \in Memory, NEW y \in Memory, NEW p \in Live(x), OnlyIn(x, y, {p}),
           p \in Live(y), CountedAnew(x, y, p), Exact(x)
    PROVE Exact(y)
<1> SUFFICES ASSUME NEW b \in Runs PROVE y.refs[b] = CountIn(y, Live(y), b)
    BY DEF Exact
<1>1. p \in Paths /\ {p} \in SUBSET Paths
    BY DEF Live
<1>2. /\ CountIn(y, Live(y), b) - CountIn(y, Live(y) \cap {p}, b)
           = CountIn(x, Live(x), b) - CountIn(x, Live(x) \cap {p}, b)
      /\ CountIn(y, Live(y), b) \in Nat /\ CountIn(x, Live(x), b) \in Nat
      /\ CountIn(y, Live(y) \cap {p}, b) \in Nat /\ CountIn(x, Live(x) \cap {p}, b) \in Nat
    <2> DEFINE ps == {p}
    <2>1. ps \in SUBSET Paths /\ OnlyIn(x, y, ps)
        BY <1>1
    <2> HIDE DEF ps
    <2>2. SameBeyond(x, y, ps, b)
        BY <2>1, CountChange
    <2> QED BY <2>2 DEF ps, SameBeyond
<1>3. Live(y) \cap {p} = {p} /\ Live(x) \cap {p} = {p}
    OBVIOUS
<1>4. x.node[p].history \in Seq(Point) /\ y.node[p].history \in Seq(Point)
    BY <1>1, NodeFacts DEF Live
<1>5. CountIn(x, {p}, b) = Count(x.node[p].history, b)
      /\ CountIn(y, {p}, b) = Count(y.node[p].history, b)
    BY <1>1, <1>4, CountOne
<1>6. x.refs[b] = CountIn(x, Live(x), b)
    BY DEF Exact
<1>7. y.refs[b] = x.refs[b] - Count(x.node[p].history, b) + Count(y.node[p].history, b)
    BY DEF CountedAnew
<1> DEFINE old == CountIn(x, Live(x), b)
           now == CountIn(y, Live(y), b)
           oldHere == Count(x.node[p].history, b)
           nowHere == Count(y.node[p].history, b)
<1>8. now - nowHere = old - oldHere
      /\ now \in Nat /\ old \in Nat /\ nowHere \in Nat /\ oldHere \in Nat
    BY <1>2, <1>3, <1>5
<1>9. x.refs[b] = old /\ y.refs[b] = x.refs[b] - oldHere + nowHere
    BY <1>6, <1>7
<1> HIDE DEF old, now, oldHere, nowHere
<1>10. y.refs[b] = now
    BY <1>8, <1>9
<1> QED BY <1>10 DEF now

LEMMA CountSingle ==
    ASSUME NEW point \in Point, NEW b
    PROVE Count(<<point>>, b) = IF point.backup = b THEN 1 ELSE 0
<1> DEFINE g == <<point>>
<1>1. DOMAIN g = {1} /\ g[1] = point /\ Len(g) = 1
    OBVIOUS
<1> HIDE DEF g
<1>2. Places(g, b) = IF point.backup = b THEN {0} ELSE {}
    BY <1>1 DEF Places
<1> QED BY <1>2, FS_EmptySet, FS_Singleton DEF Count, g

(* Nothing is below a path that is no directory. *)
LEMMA BelowNothing ==
    \A p \in Paths : Children(p) = {} => Below(p) = {}
<1> SUFFICES ASSUME NEW p \in Paths, Children(p) = {}, NEW q \in Below(p) PROVE FALSE
    OBVIOUS
<1>1. q \in Paths /\ p \in Trail(q) /\ q # p
    BY TrailFacts DEF Below, Subtree
<1>2. p \in Trail(Parent[q])
    BY <1>1, TrailFacts
<1> QED BY <1>1, <1>2, WayDown

(* A node whose policy may have changed. *)
PolicyHandled(x, y, p, policy) ==
    /\ y \in Memory
    /\ y.hint = x.hint
    /\ y.flag = IF x.node[p].policy = policy THEN x.flag ELSE x.flag \cup {p}
    /\ \A q \in Paths : y.node[q] = IF q = p THEN Trimmed(x.node[p], policy) ELSE x.node[q]
    /\ Live(y) = Live(x)
    /\ Exact(x) => Exact(y)

LEMMA HandlePolicyChangesEffect ==
    ASSUME NEW x \in Memory, NEW p \in Live(x), Sound(p, x.node[p]), NEW policy \in Policies,
           Steady(p, x.node[p], policy)
    PROVE PolicyHandled(x, HandlePolicyChanges(x, p, policy), p, policy)
<1> DEFINE n == x.node[p]
           h == n.history
           new(g) == [policy |-> policy, history |-> g]
           refs == [b \in Runs |-> x.refs[b] - Count(h, b) + Count(<<Latest(h)>>, b)]
           y1 == [x EXCEPT !.flag = @ \cup {p}, !.node[p] = new(h)]
           z == [x EXCEPT !.flag = @ \cup {p}, !.node[p] = new(<<Latest(h)>>), !.refs = refs]
<1>1. p \in Paths /\ x.hint[p] # "wiped" /\ n # None
    BY DEF Live, Exists
<1>2. /\ n \in Node /\ h \in Seq(Point) /\ n.policy \in Policies
      /\ x.node \in [Paths -> Node \cup {None}] /\ x.refs \in [Runs -> Int]
      /\ x.flag \in SUBSET Paths
    BY <1>1, SoundFacts DEF Memory
<1>4. /\ Latest(h) \in Point /\ <<Latest(h)>> \in Seq(Point)
      /\ \E i \in DOMAIN h : Latest(h) = h[i] /\ h[i].state # NonExisting
    <2>1. \E i \in DOMAIN h : Latest(h) = h[i] /\ h[i].state # NonExisting
        BY <1>1, SoundFacts DEF Latest
    <2>2. Latest(h) \in Point
        BY <1>1, <2>1, SoundFacts
    <2> QED BY <2>1, <2>2
<1>6. \A g \in Seq(Point) : new(g) \in Node /\ new(g) # None
    <2>1. \A g \in Seq(Point) : new(g) \in Node
        BY DEF Node
    <2> QED BY <2>1, NodeFacts
<1>7. refs \in [Runs -> Int]
    <2>1. \A b \in Runs : Count(h, b) \in Nat /\ Count(<<Latest(h)>>, b) \in Nat
        <3> TAKE b \in Runs
        <3>1. Count(h, b) \in Nat
            BY <1>2, PlacesFacts
        <3> DEFINE g == <<Latest(h)>>
        <3>2. g \in Seq(Point)
            BY <1>4
        <3> HIDE DEF g
        <3>3. Count(g, b) \in Nat
            BY <3>2, PlacesFacts
        <3> QED BY <3>1, <3>3 DEF g
    <2>2. \A b \in Runs : x.refs[b] \in Int
        BY <1>2
    <2>3. \A b \in Runs : x.refs[b] - Count(h, b) + Count(<<Latest(h)>>, b) \in Int
        <3> TAKE b \in Runs
        <3> DEFINE r == x.refs[b]
                   c == Count(h, b)
                   k == Count(<<Latest(h)>>, b)
        <3>1. r \in Int /\ c \in Nat /\ k \in Nat
            BY <2>1, <2>2
        <3> HIDE DEF r, c, k
        <3>2. r - c + k \in Int
            BY <3>1
        <3> QED BY <3>2 DEF r, c, k
    <2> QED BY <2>3
<1>8. /\ y1 \in Memory /\ y1.hint = x.hint /\ y1.flag = x.flag \cup {p} /\ y1.refs = x.refs
      /\ y1.node = [x.node EXCEPT ![p] = new(h)]
    <2>1. [x.node EXCEPT ![p] = new(h)] \in [Paths -> Node \cup {None}]
        BY <1>1, <1>2, <1>6
    <2>2. y1 = [x EXCEPT !.flag = @ \cup {p}, !.node = [x.node EXCEPT ![p] = new(h)]]
        OBVIOUS
    <2> HIDE DEF h, new, y1
    <2> QED BY <1>1, <2>1, <2>2 DEF Memory
<1>10. /\ z \in Memory /\ z.hint = x.hint /\ z.flag = x.flag \cup {p} /\ z.refs = refs
       /\ z.node = [x.node EXCEPT ![p] = new(<<Latest(h)>>)]
    <2>1. [x.node EXCEPT ![p] = new(<<Latest(h)>>)] \in [Paths -> Node \cup {None}]
        BY <1>1, <1>2, <1>4, <1>6
    <2>2. z = [x EXCEPT !.flag = @ \cup {p}, !.node = [x.node EXCEPT ![p] = new(<<Latest(h)>>)],
                        !.refs = refs]
        <3> HIDE DEF refs
        <3> QED OBVIOUS
    <2> HIDE DEF h, new, z, refs
    <2> QED BY <1>1, <1>7, <2>1, <2>2 DEF Memory
<1>11. HandlePolicyChanges(x, p, policy)
         = IF n.policy = policy THEN x ELSE IF n.policy # "track" THEN y1
           ELSE IF Latest(h).state.type = "directory" THEN z ELSE Wipe(z, Below(p))
    BY Zenon DEF HandlePolicyChanges
<1>12. CASE n.policy = policy
    <2>1. HandlePolicyChanges(x, p, policy) = x /\ Trimmed(n, policy) = n
        BY <1>11, <1>12, Zenon DEF Trimmed
    <2> QED BY <2>1, <1>12 DEF PolicyHandled
<1>13. CASE n.policy # policy /\ n.policy # "track"
    <2>1. HandlePolicyChanges(x, p, policy) = y1
        BY <1>11, <1>13
    <2>2. \A q \in Paths : y1.node[q] = IF q = p THEN Trimmed(n, policy) ELSE x.node[q]
        <3>1. Trimmed(n, policy) = new(h)
            BY <1>13 DEF Trimmed
        <3> HIDE DEF n, y1, new
        <3> QED BY <1>1, <1>2, <1>8, <3>1
    <2>3. Live(y1) = Live(x)
        <3>1. y1.node[p] # None /\ x.node[p] # None /\ \A q \in Paths : q # p => y1.node[q] = x.node[q]
            <4> HIDE DEF y1, h, new
            <4> QED BY <1>1, <1>2, <1>6, <1>8
        <3> HIDE DEF y1, n
        <3> QED BY <1>8, <3>1 DEF Live, Exists
    <2>4. ASSUME Exact(x) PROVE Exact(y1)
        <3>1. \A q \in Live(x) : x.node[q].history = y1.node[q].history
            <4> HIDE DEF y1
            <4> QED BY <1>2, <1>8 DEF Live
        <3> HIDE DEF y1
        <3>2. \A b \in Runs : CountIn(x, Live(x), b) = CountIn(y1, Live(x), b)
            <4> TAKE b \in Runs
            <4> DEFINE ps == Live(x)
            <4>1. \A q \in ps : x.node[q].history = y1.node[q].history
                BY <3>1
            <4> HIDE DEF ps
            <4>2. CountIn(x, ps, b) = CountIn(y1, ps, b)
                BY <4>1, CountSame
            <4> QED BY <4>2 DEF ps
        <3> QED BY <1>8, <2>3, <2>4, <3>2 DEF Exact
    <2> HIDE DEF y1
    <2> QED BY <1>8, <1>13, <2>1, <2>2, <2>3, <2>4 DEF PolicyHandled
<1>14. CASE n.policy # policy /\ n.policy = "track"
    <2>0. z.node[p] = new(<<Latest(h)>>) /\ z.node[p] # None
          /\ \A q \in Paths : q # p => z.node[q] = x.node[q]
        <3> HIDE DEF z, h, new
        <3> QED BY <1>1, <1>2, <1>4, <1>6, <1>10
    <2>1. Live(z) = Live(x)
        <3> HIDE DEF z, n, refs
        <3> QED BY <1>1, <1>10, <2>0 DEF Live, Exists
    <2>2. \A q \in Paths : z.node[q] = IF q = p THEN Trimmed(n, policy) ELSE x.node[q]
        <3>1. Trimmed(n, policy) = new(<<Latest(h)>>)
            BY <1>14 DEF Trimmed
        <3> HIDE DEF n, z, new
        <3> QED BY <2>0, <3>1
    <2>3. Exact(x) => Exact(z)
        <3>1. z.node[p].history = <<Latest(h)>>
            BY <2>0
        <3>2. CountedAnew(x, z, p)
            <4> HIDE DEF z
            <4> QED BY <1>10, <3>1 DEF CountedAnew
        <3>3. OnlyIn(x, z, {p})
            <4> HIDE DEF z
            <4> QED BY <1>2, <1>10, <2>1 DEF OnlyIn, Live
        <3> HIDE DEF z, n
        <3> QED BY <1>10, <2>1, <3>2, <3>3, ExactReplaced
    <2>4. HandlePolicyChanges(x, p, policy) \in {z, Wipe(z, {})}
        <3>1. ~Replaceable(p)
            BY <1>14 DEF Steady
        <3>2. CASE Children(p) = {}
            BY <1>1, <1>11, <1>14, <3>2, BelowNothing
        <3>3. CASE Children(p) # {}
            <4>1. \A s \in StatesAt[p] : s.type = "directory"
                BY <3>1, <3>3 DEF Replaceable
            <4>3. Latest(h).state.type \in Kinds(p)
                BY <1>4 DEF Sound
            <4>4. Latest(h).state.type = "directory"
                BY <4>1, <4>3 DEF Kinds
            <4> QED BY <1>11, <1>14, <4>4
        <3> QED BY <3>2, <3>3
    <2>5. LET v == Wipe(z, {})
          IN /\ v \in Memory /\ v.node = z.node /\ v.flag = z.flag
             /\ v.hint = z.hint /\ Live(v) = Live(z)
             /\ Exact(z) => Exact(v)
        <3> DEFINE v == Wipe(z, {})
        <3>1. /\ v \in Memory /\ v.node = z.node /\ v.flag = z.flag
              /\ \A q \in Paths : v.hint[q] = z.hint[q]
              /\ Live(v) = Live(z)
              /\ Exact(z) => Exact(v)
            <4> DEFINE nothing == {}
            <4>1. nothing \in SUBSET Paths /\ Live(z) \ nothing = Live(z)
                OBVIOUS
            <4>2. \A q \in Paths : q \notin nothing
                OBVIOUS
            <4> HIDE DEF nothing, z
            <4>3. LET w == Wipe(z, nothing)
                  IN /\ w \in Memory /\ w.node = z.node /\ w.flag = z.flag
                     /\ \A q \in Paths :
                            w.hint[q] = IF q \in nothing /\ Exists(z, q) THEN "wiped" ELSE z.hint[q]
                     /\ Live(w) = Live(z) \ nothing
                     /\ Exact(z) => Exact(w)
                BY <1>10, <4>1, WipeEffect
            <4> QED BY <4>1, <4>2, <4>3 DEF nothing
        <3>2. v.hint = z.hint
            <4>1. v.hint \in [Paths -> Hints] /\ z.hint \in [Paths -> Hints]
                <5> HIDE DEF v, z
                <5> QED BY <1>10, <3>1 DEF Memory
            <4> HIDE DEF v, z
            <4> QED BY <3>1, <4>1
        <3> HIDE DEF v, z
        <3> QED BY <3>1, <3>2 DEF v
    <2> DEFINE v == Wipe(z, {})
               w == HandlePolicyChanges(x, p, policy)
    <2>6. w \in {z, v}
        BY <2>4
    <2>7. /\ v \in Memory /\ v.node = z.node /\ v.flag = z.flag
          /\ v.hint = z.hint /\ Live(v) = Live(z)
          /\ Exact(z) => Exact(v)
        BY <2>5
    <2>8. /\ z \in Memory /\ z.hint = x.hint /\ z.flag = x.flag \cup {p}
        BY <1>10
    <2> HIDE DEF z, v, w
    <2>9. /\ w \in Memory /\ w.hint = x.hint /\ w.flag = x.flag \cup {p}
          /\ w.node = z.node /\ Live(w) = Live(x)
          /\ Exact(x) => Exact(w)
        BY <2>1, <2>3, <2>6, <2>7, <2>8
    <2>10. \A q \in Paths : w.node[q] = IF q = p THEN Trimmed(n, policy) ELSE x.node[q]
        BY <2>2, <2>9
    <2> HIDE DEF n
    <2> QED BY <1>14, <2>9, <2>10 DEF PolicyHandled, w, n
<1> QED BY <1>12, <1>13, <1>14

Closed(x) == \A p \in Live(x) : Trail(p) \subseteq Live(x)

(* The nodes whose removal is recorded in their history. *)
Recorded(x, p, extend) ==
    {q \in Subtree(p) \cap Live(x) :
        /\ extend /\ ~Gone(x, q)
        /\ \A r \in Subtree(p) \cap Trail(q) : Gone(x, r) \/ x.node[r].policy = "track"}

Removed(x, y, p, extend) ==
    /\ y \in Memory
    /\ \A q \in Paths :
           /\ y.node[q] = IF q \in Recorded(x, p, extend) THEN Pushed(x.node[q], NonExisting)
                          ELSE x.node[q]
           /\ y.hint[q] = IF q \notin Subtree(p) \cap Live(x) THEN x.hint[q]
                          ELSE IF Gone(x, q) THEN "unchanged" ELSE "removed"
           /\ q \in y.flag <=> q \in x.flag /\ ~(q \in Subtree(p) \cap Live(x) /\ Gone(x, q))
    /\ Live(y) = Live(x)
    /\ Exact(x) => Exact(y)

LEMMA MarkAsRemovedEffect ==
    ASSUME NEW x \in Memory, Closed(x), NEW p \in Paths, NEW extend \in BOOLEAN, run \in Runs
    PROVE Removed(x, MarkAsRemoved(x, p, extend), p, extend)
<1> DEFINE Between(q) == Subtree(p) \cap Ancestors[q]
           R == {q \in Subtree(p) : \A r \in Between(q) : Exists(x, r) /\ x.hint[r] # "wiped"}
           E == {q \in R : /\ extend /\ ~Gone(x, q)
                           /\ \A r \in Between(q) : Gone(x, r) \/ x.node[r].policy = "track"}
           z == PushAll(x, E, NonExisting)
           hint == [q \in Paths |-> IF q \notin R THEN x.hint[q]
                                    ELSE IF Gone(x, q) THEN "unchanged" ELSE "removed"]
           flag == x.flag \ {q \in R : Gone(x, q)}
           y == MarkAsRemoved(x, p, extend)
<1>1. \A q \in Paths : Between(q) = Subtree(p) \cap Trail(q)
    BY TreeAssumption DEF Trail, Subtree
<1>2. R = Subtree(p) \cap Live(x)
    <2>1. ASSUME NEW q \in R PROVE q \in Live(x)
        <3>1. q \in Paths /\ q \in Between(q)
            BY <1>1, TrailFacts DEF Subtree
        <3> QED BY <3>1 DEF Live
    <2>2. ASSUME NEW q \in Subtree(p) \cap Live(x) PROVE q \in R
        <3>1. q \in Paths /\ Trail(q) \subseteq Live(x)
            BY DEF Closed, Subtree
        <3> QED BY <1>1, <3>1 DEF Live
    <2> QED BY <2>1, <2>2
<1>3. E = Recorded(x, p, extend)
    <2> HIDE DEF Between, R
    <2> QED BY <1>1, <1>2 DEF Recorded, Subtree
<1>4. /\ E \in SUBSET Paths /\ E \subseteq Live(x) /\ \A q \in E : Exists(x, q)
    BY <1>3 DEF Recorded, Live
<1> HIDE DEF E, R
<1>5. /\ z \in Memory /\ z.hint = x.hint /\ z.flag = x.flag
      /\ \A q \in Paths :
             z.node[q] = IF q \in E THEN Pushed(x.node[q], NonExisting) ELSE x.node[q]
      /\ Live(z) = Live(x)
      /\ Exact(x) => Exact(z)
    <2>1. PushedAll(x, z, E, NonExisting)
        BY <1>4, PushAllEffect
    <2> HIDE DEF z
    <2> QED BY <1>4, <2>1 DEF PushedAll
<1>6. y = [z EXCEPT !.hint = hint, !.flag = flag]
    <2>1. y = [z EXCEPT !.hint = [q \in Paths |-> IF q \notin R THEN z.hint[q]
                                                  ELSE IF Gone(x, q) THEN "unchanged" ELSE "removed"],
                        !.flag = z.flag \ {q \in R : Gone(x, q)}]
        BY Zenon DEF MarkAsRemoved, R, E
    <2> HIDE DEF z, y
    <2> QED BY <1>5, <2>1
<1>7. hint \in [Paths -> Hints] /\ flag \in SUBSET Paths
    BY DEF Memory, Hints
<1> HIDE DEF z, y
<1>8. /\ y \in Memory /\ y.node = z.node /\ y.refs = z.refs /\ y.hint = hint /\ y.flag = flag
    <2> HIDE DEF hint, flag
    <2> QED BY <1>5, <1>6, <1>7 DEF Memory
<1>9. \A q \in Paths : y.hint[q] = "wiped" <=> x.hint[q] = "wiped"
    BY <1>2, <1>8 DEF Live
<1>10. Live(y) = Live(x)
    <2>1. Live(y) = Live(z)
        <3> HIDE DEF hint, flag
        <3> QED BY <1>5, <1>8, <1>9 DEF Live, Exists
    <2> QED BY <1>5, <2>1
<1>11. ASSUME Exact(x) PROVE Exact(y)
    BY <1>5, <1>8, <1>10, <1>11, ExactSame
<1>12. \A q \in Paths :
           q \in y.flag <=> q \in x.flag /\ ~(q \in Subtree(p) \cap Live(x) /\ Gone(x, q))
    BY <1>2, <1>8
<1>13. \A q \in Paths :
           y.hint[q] = IF q \notin Subtree(p) \cap Live(x) THEN x.hint[q]
                       ELSE IF Gone(x, q) THEN "unchanged" ELSE "removed"
    BY <1>2, <1>8
<1> HIDE DEF hint, flag
<1> QED BY <1>3, <1>5, <1>8, <1>10, <1>11, <1>12, <1>13 DEF Removed, y

(* States. *)
LEMMA StateFacts ==
    /\ NonExisting \notin Mixed
    /\ \A s \in Mixed : s.type \in {"regular_file", "directory", "symlink"}
    /\ \A p \in Paths : \A s \in StatesAt[p] :
            /\ s \in States /\ s \in Mixed /\ s # None
            /\ s = [type |-> s.type, data |-> s.data, content |-> s.content]
            /\ s.type \in Kinds(p)
    /\ \A s \in Mixed \cup {NonExisting} :
            /\ s = [type |-> s.type, data |-> s.data, content |-> s.content]
            /\ s.type = "non_existing" => s = NonExisting
    /\ NonExisting.type = "non_existing"
<1>1. \A s \in Mixed : /\ s.type \in {"regular_file", "directory", "symlink"}
                       /\ s = [type |-> s.type, data |-> s.data, content |-> s.content]
    BY StatesAssumption DEF Mixed, Files
<1>2. NonExisting.type = "non_existing"
      /\ NonExisting = [type |-> NonExisting.type, data |-> NonExisting.data,
                        content |-> NonExisting.content]
    BY DEF NonExisting
<1>3. \A p \in Paths : \A s \in StatesAt[p] : s \in States /\ s.type \in Kinds(p)
    BY DEF States, Kinds
<1>4. \A s \in States : /\ s = [type |-> s.type, data |-> s.data, content |-> s.content]
                        /\ s # None
    BY StatesAssumption
<1>5. \A s \in States : s \in Mixed
    BY DEF Mixed
<1> QED BY <1>1, <1>2, <1>3, <1>4, <1>5

(* What the metadata keep of a state that was found. *)
LEMMA AppliedFacts ==
    ASSUME NEW p \in Paths, NEW state \in StatesAt[p], NEW old \in Mixed \cup {NonExisting}
    PROVE /\ Applied(old, state) \in Mixed
          /\ Seen(Applied(old, state)) = Seen(state)
          /\ Applied(old, state).type = state.type
          /\ \/ Applied(old, state).content = state.content
             \/ old.type = state.type => LooksTheSame(old, state)
<1>1. /\ state \in States /\ state \in Mixed
      /\ state = [type |-> state.type, data |-> state.data, content |-> state.content]
    BY StateFacts
<1>2. CASE \/ old.type # "regular_file" \/ state.type # "regular_file"
           \/ Stamp(old.data) # Stamp(state.data)
    BY <1>1, <1>2 DEF Applied
<1>3. CASE /\ old.type = "regular_file" /\ state.type = "regular_file"
           /\ Stamp(old.data) = Stamp(state.data)
    <2> DEFINE new == [type |-> state.type, data |-> state.data, content |-> old.content]
    <2>1. Applied(old, state) = [state EXCEPT !.content = old.content]
        BY <1>3 DEF Applied
    <2>2. Applied(old, state) = new
        BY <1>1, <2>1
    <2>3. old \in Mixed
        BY <1>3 DEF NonExisting
    <2>4. PICK t \in Files : old.content = t.content
        BY <1>3, <2>3 DEF Mixed, Files
    <2>5. state \in Files
        BY <1>1, <1>3 DEF Files
    <2>6. new \in Mixed
        <3> DEFINE mix(u, v) == [type |-> u.type, data |-> u.data, content |-> v.content]
        <3>1. new = mix(state, t)
            BY <2>4
        <3>2. Mixed = States \cup {mix(u, v) : u, v \in Files}
            BY DEF Mixed
        <3> HIDE DEF mix
        <3>3. mix(state, t) \in {mix(u, v) : u, v \in Files}
            BY <2>4, <2>5
        <3> QED BY <3>1, <3>2, <3>3
    <2>7. Seen(new) = Seen(state) /\ new.type = state.type
        BY DEF Seen
    <2>8. old.type = state.type => LooksTheSame(old, state)
        BY <1>3 DEF LooksTheSame
    <2> HIDE DEF new
    <2> QED BY <2>2, <2>6, <2>7, <2>8
<1> QED BY <1>2, <1>3

Renewed(old, hint, new, policy, state) ==
    /\ hint \in {"none", "changed", "replaced", "directoryReplaced"}
    /\ hint = "directoryReplaced" <=> old.type = "directory" /\ state.type # "directory"
    /\ new = old \/ (new \in Mixed /\ new.type = state.type)
    /\ hint = "none" => new = old
    /\ policy # "none" =>
           /\ hint # "none" => new # old
           /\ Seen(new) = Seen(state)
           /\ new.content = state.content \/ LooksTheSame(old, state)
    /\ policy = "none" => new.type = old.type
    /\ hint = "replaced" => old.type # "directory"
    /\ hint = "changed" => new # old /\ new.type = old.type

LEMMA NewStateFacts ==
    ASSUME NEW x, NEW p \in Paths, x.hint[p] = "none", NEW policy, NEW state \in StatesAt[p],
           Top(x, p) \in Mixed \cup {NonExisting}
    PROVE Renewed(Top(x, p), NodeHint(x, p, state), NewState(x, p, policy, state), policy, state)
<1> DEFINE old == Top(x, p)
           hint == NodeHint(x, p, state)
           new == NewState(x, p, policy, state)
           app == Applied(old, state)
<1>1. /\ app \in Mixed /\ Seen(app) = Seen(state) /\ app.type = state.type
      /\ app.content = state.content \/ (old.type = state.type => LooksTheSame(old, state))
    BY AppliedFacts
<1>2. state \in Mixed
    BY StateFacts
<1>3. CASE old.type = state.type
    <2>1. TypeHint(x, p, state) = "none"
        BY <1>3 DEF TypeHint
    <2>2. new = app /\ hint = IF app # old THEN "changed" ELSE "none"
        BY <2>1 DEF NewState, NodeHint
    <2> HIDE DEF old, hint, new, app
    <2> QED BY <1>1, <1>3, <2>2 DEF Renewed, old, hint, new
<1>4. CASE old.type # state.type
    <2>1. TypeHint(x, p, state) = IF old.type = "directory" THEN "directoryReplaced" ELSE "replaced"
        BY <1>4 DEF TypeHint
    <2>2. hint = TypeHint(x, p, state) /\ new = IF policy # "none" THEN state ELSE old
        BY <2>1 DEF NewState, NodeHint
    <2> HIDE DEF old, hint, new, app
    <2> QED BY <1>2, <1>4, <2>1, <2>2 DEF Renewed, old, hint, new
<1> QED BY <1>3, <1>4

(* Histories. *)
LEMMA PushedSound ==
    ASSUME NEW p \in Paths, NEW n, Sound(p, n), n.policy = "track", run \in Runs,
           n.history[1].backup < run, NEW state \in Mixed \cup {NonExisting},
           state # n.history[1].state, state # NonExisting => state.type \in Kinds(p)
    PROVE LET t == Pushed(n, state)
          IN /\ Sound(p, t) /\ t.policy = n.policy
             /\ t.history[1] = [backup |-> run, state |-> state]
             /\ \A i \in DOMAIN t.history :
                    \/ t.history[i].backup = run
                    \/ \E j \in DOMAIN n.history : t.history[i] = n.history[j]
             /\ Head(t.history) = t.history[1] /\ Tail(t.history) = n.history
<1> DEFINE t == Pushed(n, state)
           h == n.history
           k == Len(h)
           point == [backup |-> run, state |-> state]
           g == <<point>> \o h
<1>1. /\ n.policy \in Policies /\ h \in Seq(Point) /\ k \in Nat \ {0} /\ DOMAIN h = 1 .. k
      /\ \A i \in 1 .. k : h[i] \in Point /\ h[i].backup \in Runs
    BY SoundFacts
<1>2. point \in Point
    BY DEF Point
<1>3. t = [policy |-> n.policy, history |-> g] /\ t.policy = n.policy /\ t.history = g
    BY DEF Pushed
<1> HIDE DEF point
<1>4. /\ g \in Seq(Point) /\ Len(g) = k + 1 /\ DOMAIN g = 1 .. k + 1 /\ g # <<>>
      /\ g[1] = point /\ \A i \in 1 .. k : g[i + 1] = h[i]
      /\ Head(g) = g[1]
    <2> HIDE DEF h
    <2> QED BY <1>1, <1>2
<1>5. Tail(g) = h
    <2> HIDE DEF h
    <2>1. Len(Tail(g)) = k /\ Tail(g) \in Seq(Point)
        BY <1>1, <1>4
    <2>2. \A i \in 1 .. k : Tail(g)[i] = g[i + 1]
        BY <1>1, <1>4
    <2> HIDE DEF g
    <2> QED BY <1>1, <1>4, <2>1, <2>2
<1> HIDE DEF g, t
<1>6. \A i \in 1 .. k + 1 : i # 1 => i - 1 \in 1 .. k /\ g[i] = h[i - 1]
    <2> TAKE i \in 1 .. k + 1
    <2> HAVE i # 1
    <2>1. i - 1 \in 1 .. k /\ (i - 1) + 1 = i
        BY <1>1
    <2>2. g[(i - 1) + 1] = h[i - 1]
        BY <1>4, <2>1
    <2> QED BY <2>1, <2>2
<1>7. point.backup = run /\ point.state = state
    BY DEF point
<1>8. Sound(p, t)
    <2>1. t \in Node
        BY <1>1, <1>3, <1>4 DEF Node
    <2>2. \A i \in DOMAIN g : g[i].state # NonExisting => g[i].state.type \in Kinds(p)
        <3> TAKE i \in DOMAIN g
        <3>1. CASE i = 1
            BY <3>1, <1>4, <1>7
        <3>2. CASE i # 1
            <4>1. i - 1 \in 1 .. k /\ g[i] = h[i - 1]
                BY <1>4, <1>6, <3>2
            <4>2. h[i - 1].state # NonExisting => h[i - 1].state.type \in Kinds(p)
                BY <1>1, <4>1 DEF Sound
            <4> QED BY <4>1, <4>2
        <3> QED BY <3>1, <3>2
    <2>3. \A i \in 1 .. k : g[i].backup > g[i + 1].backup /\ g[i].state # g[i + 1].state
        <3> TAKE i \in 1 .. k
        <3>1. g[i + 1] = h[i] /\ i \in 1 .. k + 1
            BY <1>1, <1>4
        <3>2. CASE i = 1
            BY <1>1, <1>4, <1>7, <3>1, <3>2 DEF Runs
        <3>3. CASE i # 1
            <4>1. i - 1 \in 1 .. k /\ g[i] = h[i - 1] /\ i - 1 \in 1 .. k - 1 /\ (i - 1) + 1 = i
                BY <1>1, <1>6, <3>1, <3>3
            <4>2. h[i - 1].backup > h[(i - 1) + 1].backup /\ h[i - 1].state # h[(i - 1) + 1].state
                BY <4>1 DEF Sound
            <4> QED BY <3>1, <4>1, <4>2
        <3> QED BY <3>2, <3>3
    <2>4. g[Len(g)].state # NonExisting
        <3>1. g[k + 1] = h[k]
            BY <1>1, <1>4
        <3> QED BY <1>4, <3>1 DEF Sound
    <2>5. 1 .. Len(g) - 1 = 1 .. k
        BY <1>1, <1>4
    <2> QED BY <1>3, <1>4, <2>1, <2>2, <2>3, <2>4, <2>5 DEF Sound
<1>9. \A i \in DOMAIN g : g[i].backup = run \/ \E j \in DOMAIN h : g[i] = h[j]
    <2> TAKE i \in DOMAIN g
    <2>1. CASE i = 1
        BY <1>4, <1>7, <2>1
    <2>2. CASE i # 1
        <3>1. i - 1 \in 1 .. k /\ g[i] = h[i - 1]
            BY <1>4, <1>6, <2>2
        <3> QED BY <1>1, <3>1
    <2> QED BY <2>1, <2>2
<1> QED BY <1>3, <1>4, <1>5, <1>8, <1>9 DEF t, point

(* A history of one point. *)
LEMMA SingleSound ==
    ASSUME NEW p \in Paths, NEW policy \in Policies, NEW b \in Runs, NEW state \in Mixed,
           state.type \in Kinds(p)
    PROVE LET n == [policy |-> policy, history |-> <<[backup |-> b, state |-> state]>>]
          IN Sound(p, n)
<1> DEFINE point == [backup |-> b, state |-> state]
           h == <<point>>
           n == [policy |-> policy, history |-> h]
<1>1. point \in Point /\ point.state = state
    BY DEF Point
<1> HIDE DEF point
<1>2. h \in Seq(Point) /\ Len(h) = 1 /\ DOMAIN h = {1} /\ h[1] = point /\ h # <<>>
    BY <1>1
<1> HIDE DEF h
<1>3. n \in Node /\ n.policy = policy /\ n.history = h
    BY <1>2 DEF Node
<1> HIDE DEF n
<1>4. 1 .. Len(h) - 1 = {} /\ state # NonExisting
    BY <1>2, StateFacts
<1>5. Sound(p, n)
    BY <1>1, <1>2, <1>3, <1>4 DEF Sound
<1> QED BY <1>5 DEF n, h, point

(* A path that the search has found: only its node changes. *)
OnlyAt(x, y, p) ==
    /\ y \in Memory /\ Live(y) = Live(x) \cup {p}
    /\ \A q \in Paths \ {p} : /\ y.node[q] = x.node[q] /\ y.hint[q] = x.hint[q]
                              /\ q \in y.flag <=> q \in x.flag
    /\ Exact(x) => Exact(y)

Brought(x, y, p, policy, state) ==
    LET n == x.node[p]
        t == y.node[p]
        old == Trimmed(n, policy).history[1].state
        new == t.history[1].state
    IN /\ Sound(p, t) /\ t.policy = policy /\ t.history[1].backup <= run
       /\ \A i \in DOMAIN t.history :
              \/ t.history[i].backup = run
              \/ \E j \in DOMAIN n.history : t.history[i].backup = n.history[j].backup
       /\ n.policy = "track" /\ policy = "track" =>
              \/ t.history = n.history
              \/ Head(t.history).backup = run /\ Tail(t.history) = n.history
       /\ y.hint[p] = "directoryReplaced" <=> old.type = "directory" /\ state.type # "directory"
       /\ policy # "none" =>
              /\ Seen(new) = Seen(state)
              /\ \/ new.content = state.content
                 \/ old # NonExisting /\ LooksTheSame(old, state)
       /\ policy = "none" => new.type = old.type

(* What the hint of a path that was found says, if its policy has not       *)
(* changed: without one a node is as the last backup has left it.           *)
Told(x, y, p) ==
    LET old == x.node[p].history[1].state
        new == y.node[p].history[1].state
    IN /\ y.hint[p] \in {"none", "added", "changed", "replaced", "directoryReplaced"}
       /\ p \notin y.flag =>
            /\ y.node[p].policy = x.node[p].policy
            /\ y.hint[p] = "none" => new = old
            /\ y.hint[p] = "added" => old = NonExisting
            /\ y.hint[p] = "replaced" => old.type # "directory"
            /\ y.hint[p] = "changed" => old # NonExisting /\ new # old /\ new.type = old.type

LEMMA FoundUntracked ==
    ASSUME NEW x \in Memory, NEW p \in Live(x), x.hint[p] = "none", Sound(p, x.node[p]),
           NEW policy \in Policies, policy # "track", Steady(p, x.node[p], policy),
           run \in Runs, x.node[p].history[1].backup < run, NEW state \in StatesAt[p]
    PROVE LET y == HandleFoundNode(x, p, policy, state)
          IN OnlyAt(x, y, p) /\ Brought(x, y, p, policy, state) /\ Told(x, y, p)
<1> DEFINE n == x.node[p]
           y1 == HandlePolicyChanges(x, p, policy)
           t1 == Trimmed(n, policy)
           point == t1.history[1]
           hint == NodeHint(y1, p, state)
           new == NewState(y1, p, policy, state)
           z == SetHint(y1, p, hint)
           u == [z EXCEPT !.node[p].history[1].state = new]
           y == HandleFoundNode(x, p, policy, state)
<1>0. p \in Paths /\ n.history[1].backup \in Runs /\ n.history[1].backup < run
    <2>1. p \in Paths
        BY DEF Live
    <2> QED BY <2>1, SoundFacts
<1>1. /\ y1 \in Memory /\ y1.hint = x.hint
      /\ y1.flag = IF n.policy = policy THEN x.flag ELSE x.flag \cup {p}
      /\ \A q \in Paths : y1.node[q] = IF q = p THEN t1 ELSE x.node[q]
      /\ Live(y1) = Live(x)
      /\ Exact(x) => Exact(y1)
    <2>1. PolicyHandled(x, y1, p, policy)
        BY HandlePolicyChangesEffect
    <2> HIDE DEF y1, t1
    <2> QED BY <2>1 DEF PolicyHandled, n, t1
<1>2. /\ Sound(p, t1) /\ t1.policy = policy
      /\ point.backup <= n.history[1].backup
      /\ \A i \in DOMAIN t1.history : \E j \in DOMAIN n.history : t1.history[i] = n.history[j]
    BY <1>0, TrimmedSound
<1> HIDE DEF y1, t1, n
<1>3. /\ t1 \in Node /\ t1.history \in Seq(Point) /\ Len(t1.history) = 1 /\ DOMAIN t1.history = {1}
      /\ point \in Point /\ point.state # NonExisting /\ point.state.type \in Kinds(p)
      /\ Top(y1, p) = point.state /\ y1.node[p] = t1
    <2>1. Len(t1.history) = 1 /\ t1 \in Node
        BY <1>2 DEF Sound
    <2>2. t1.history \in Seq(Point) /\ DOMAIN t1.history = 1 .. 1 /\ Head(t1.history) = t1.history[1]
        BY <1>0, <1>2, <2>1, SoundFacts
    <2>3. point \in Point /\ point.state # NonExisting
        BY <2>1, <2>2, <1>2 DEF Sound
    <2>4. point.state.type \in Kinds(p)
        BY <1>2, <2>2, <2>3 DEF Sound
    <2> QED BY <1>0, <1>1, <2>1, <2>2, <2>3, <2>4 DEF Top
<1>4. y1.hint[p] = "none" /\ point.state \in Mixed
    BY <1>0, <1>1, <1>3 DEF Point
<1>5. /\ hint \in {"none", "changed", "replaced", "directoryReplaced"}
      /\ hint = "directoryReplaced" <=> point.state.type = "directory" /\ state.type # "directory"
      /\ new = point.state \/ (new \in Mixed /\ new.type = state.type)
      /\ hint = "none" => new = point.state
      /\ policy # "none" =>
             /\ Seen(new) = Seen(state)
             /\ new.content = state.content \/ LooksTheSame(point.state, state)
      /\ policy = "none" => new.type = point.state.type
      /\ hint = "replaced" => point.state.type # "directory"
      /\ hint = "changed" => new # point.state /\ new.type = point.state.type
    <2>1. y1.hint[p] = "none" /\ Top(y1, p) = point.state /\ Top(y1, p) \in Mixed \cup {NonExisting}
        BY <1>3, <1>4
    <2>2. Renewed(point.state, hint, new, policy, state)
        BY <1>0, <2>1, NewStateFacts
    <2> HIDE DEF hint, new
    <2> QED BY <2>2 DEF Renewed
<1>6. new \in Mixed /\ new.type \in Kinds(p)
    BY <1>0, <1>3, <1>4, <1>5, StateFacts
<1> HIDE DEF hint, new
<1>7. /\ z = [y1 EXCEPT !.hint[p] = hint] /\ z \in Memory
      /\ z.node = y1.node /\ z.flag = y1.flag /\ z.refs = y1.refs
      /\ z.hint = [y1.hint EXCEPT ![p] = hint]
    <2>1. z = [y1 EXCEPT !.hint[p] = hint]
        BY DEF SetHint
    <2> HIDE DEF z
    <2> QED BY <1>0, <1>1, <1>5, <2>1 DEF Memory, Hints
<1> HIDE DEF z
<1> DEFINE moved == [backup |-> run, state |-> new]
           kept == [backup |-> point.backup, state |-> new]
           single(g) == [policy |-> policy, history |-> <<g>>]
<1>8. /\ moved \in Point /\ kept \in Point
      /\ Sound(p, single(moved)) /\ Sound(p, single(kept))
    <2>1. point.backup \in Runs
        BY <1>3 DEF Point
    <2>2. moved \in Point /\ kept \in Point
        BY <1>6, <2>1 DEF Point
    <2>3. Sound(p, single(moved))
        BY <1>0, <1>6, SingleSound
    <2>4. Sound(p, single(kept))
        BY <1>0, <1>6, <2>1, SingleSound
    <2> QED BY <2>2, <2>3, <2>4
<1>9. /\ u \in Memory /\ u.hint = z.hint /\ u.flag = z.flag /\ u.refs = z.refs
      /\ u.node = [z.node EXCEPT ![p] = single(kept)]
    <2>1. z.node[p] = t1 /\ z.node \in [Paths -> Node \cup {None}]
        BY <1>3, <1>7 DEF Memory
    <2>2. t1 = [policy |-> policy, history |-> t1.history]
        <3>1. t1 = [policy |-> t1.policy, history |-> t1.history]
            BY <1>3 DEF Node
        <3> QED BY <1>2, <3>1
    <2>3. t1.history = <<point>>
        BY <1>3
    <2>4. point = [backup |-> point.backup, state |-> point.state]
        BY <1>3 DEF Point
    <2>5. [t1 EXCEPT !.history[1].state = new] = single(kept)
        <3> DEFINE g == point
        <3> HIDE DEF g
        <3>1. g = [backup |-> g.backup, state |-> g.state]
            BY <2>4 DEF g
        <3>2. t1 = [policy |-> policy, history |-> <<g>>]
            BY <2>2, <2>3 DEF g
        <3>3. [<<g>> EXCEPT ![1].state = new] = <<[backup |-> g.backup, state |-> new]>>
            BY <3>1
        <3>4. [t1 EXCEPT !.history[1].state = new]
                = [policy |-> policy, history |-> [<<g>> EXCEPT ![1].state = new]]
            BY <3>2
        <3> QED BY <3>3, <3>4 DEF g
    <2>6. u = [z EXCEPT !.node = [z.node EXCEPT ![p] = single(kept)]]
        <3>1. u = [z EXCEPT !.node = [z.node EXCEPT ![p] = [z.node[p] EXCEPT !.history[1].state = new]]]
            OBVIOUS
        <3> QED BY <2>1, <2>5, <3>1
    <2>7. [z.node EXCEPT ![p] = single(kept)] \in [Paths -> Node \cup {None}]
        BY <2>1, <1>8 DEF Sound
    <2> HIDE DEF u
    <2> QED BY <1>7, <2>6, <2>7 DEF Memory
<1> HIDE DEF u
<1> DEFINE last == IF hint # "none" \/ policy = "none" THEN moved ELSE kept
<1>10. /\ y \in Memory /\ y.hint = z.hint /\ y.flag = z.flag
       /\ y.node = [z.node EXCEPT ![p] = single(last)]
       /\ \A b \in Runs : y.refs[b] = z.refs[b] - (IF point.backup = b THEN 1 ELSE 0)
                                               + (IF last.backup = b THEN 1 ELSE 0)
    <2>1. y = IF hint # "none" \/ policy = "none" THEN Reassign(u, p) ELSE u
        BY Zenon DEF HandleFoundNode, y1, u, z, hint, new
    <2>2. u.node[p] = single(kept) /\ u.node \in [Paths -> Node \cup {None}]
          /\ z.refs \in [Runs -> Int] /\ z.node \in [Paths -> Node \cup {None}]
        BY <1>0, <1>7, <1>9 DEF Memory
    <2>3. CASE hint # "none" \/ policy = "none"
        <3> DEFINE refs == [c \in Runs |-> u.refs[c] - (IF c = point.backup THEN 1 ELSE 0)
                                                   + IF c = run THEN 1 ELSE 0]
        <3>1. Head(u.node[p].history).backup = point.backup
            BY <2>2
        <3>2. y = [u EXCEPT !.refs = refs, !.node[p].history[1].backup = run]
            <4> DEFINE b == Head(u.node[p].history).backup
                       rs == [c \in Runs |-> u.refs[c] - (IF c = b THEN 1 ELSE 0)
                                                     + IF c = run THEN 1 ELSE 0]
            <4>1. y = Reassign(u, p)
                BY <2>1, <2>3
            <4>2. Reassign(u, p) = [u EXCEPT !.refs = rs, !.node[p].history[1].backup = run]
                BY Zenon DEF Reassign
            <4>3. rs = refs
                BY <3>1
            <4> HIDE DEF rs, refs, y
            <4> QED BY <4>1, <4>2, <4>3
        <3>3. [single(kept) EXCEPT !.history[1].backup = run] = single(moved)
            <4> DEFINE g == new
            <4> HIDE DEF g
            <4>1. [<<[backup |-> point.backup, state |-> g]>> EXCEPT ![1].backup = run]
                    = <<[backup |-> run, state |-> g]>>
                OBVIOUS
            <4>2. [[policy |-> policy, history |-> <<[backup |-> point.backup, state |-> g]>>]
                      EXCEPT !.history[1].backup = run]
                    = [policy |-> policy,
                       history |-> [<<[backup |-> point.backup, state |-> g]>> EXCEPT ![1].backup = run]]
                OBVIOUS
            <4> QED BY <4>1, <4>2 DEF g
        <3>4. y = [u EXCEPT !.refs = refs, !.node = [u.node EXCEPT ![p] = single(moved)]]
            <4>1. [u EXCEPT !.refs = refs, !.node[p].history[1].backup = run]
                    = [u EXCEPT !.refs = refs,
                                !.node = [u.node EXCEPT ![p] = [u.node[p] EXCEPT !.history[1].backup = run]]]
                <5> HIDE DEF refs
                <5> QED BY <1>9 DEF Memory
            <4> HIDE DEF refs, y
            <4> QED BY <2>2, <3>2, <3>3, <4>1
        <3>5. refs \in [Runs -> Int]
            BY <1>9, <2>2
        <3>6. [u.node EXCEPT ![p] = single(moved)] \in [Paths -> Node \cup {None}]
            BY <2>2, <1>8 DEF Sound
        <3>7. [u.node EXCEPT ![p] = single(moved)] = [z.node EXCEPT ![p] = single(moved)]
            BY <1>9, <2>2
        <3> HIDE DEF y, moved, single
        <3>8. /\ y \in Memory /\ y.hint = z.hint /\ y.flag = z.flag /\ y.refs = refs
              /\ y.node = [z.node EXCEPT ![p] = single(moved)]
            <4> HIDE DEF refs
            <4> QED BY <1>9, <3>4, <3>5, <3>6, <3>7 DEF Memory
        <3>9. last = moved /\ moved.backup = run
            BY <2>3 DEF moved
        <3>10. \A b \in Runs : y.refs[b] = z.refs[b] - (IF point.backup = b THEN 1 ELSE 0)
                                                  + (IF run = b THEN 1 ELSE 0)
            BY <1>9, <3>8
        <3> QED BY <3>8, <3>9, <3>10
    <2>4. CASE ~(hint # "none" \/ policy = "none")
        <3>1. y = u /\ last = kept /\ kept.backup = point.backup
            BY <2>1, <2>4
        <3>2. \A b \in Runs : z.refs[b] \in Int
            BY <2>2
        <3> HIDE DEF y, last, kept, single
        <3> QED BY <1>9, <3>1, <3>2
    <2> QED BY <2>3, <2>4
<1> HIDE DEF y
<1>11. /\ last \in Point /\ Sound(p, single(last)) /\ last.state = new
       /\ last.backup = run \/ last.backup = point.backup
    BY <1>8
<1>12. Live(y) = Live(x)
    <2>1. single(last) # None /\ x.node[p] # None /\ x.hint[p] # "wiped"
        BY <1>11, NodeFacts DEF Sound, Live, Exists
    <2>2. \A q \in Paths : /\ y.node[q] # None <=> x.node[q] # None
                           /\ y.hint[q] # "wiped" <=> x.hint[q] # "wiped"
        <3> TAKE q \in Paths
        <3> HIDE DEF single, last
        <3>1. CASE q = p
            <4>1. y.node[p] = single(last) /\ y.hint[p] = hint
                BY <1>0, <1>1, <1>7, <1>10 DEF Memory
            <4> QED BY <1>5, <2>1, <3>1, <4>1
        <3>2. CASE q # p
            BY <1>0, <1>1, <1>7, <1>10, <3>2 DEF Memory
        <3> QED BY <3>1, <3>2
    <2> QED BY <2>2 DEF Live, Exists
<1>13. /\ y.node[p] = single(last) /\ y.hint[p] = hint
       /\ \A q \in Paths \ {p} : /\ y.node[q] = x.node[q] /\ y.hint[q] = x.hint[q]
                                 /\ q \in y.flag <=> q \in x.flag
    <2> HIDE DEF single, last
    <2> QED BY <1>0, <1>1, <1>7, <1>10 DEF Memory
<1>14. ASSUME Exact(x) PROVE Exact(y)
    <2>1. OnlyIn(y1, y, {p})
        <3> HIDE DEF single, last
        <3> QED BY <1>1, <1>12, <1>13 DEF OnlyIn, Live
    <2>2. CountedAnew(y1, y, p)
        <3> SUFFICES ASSUME NEW b \in Runs
                     PROVE y.refs[b] = y1.refs[b] - Count(y1.node[p].history, b)
                                                  + Count(y.node[p].history, b)
            BY DEF CountedAnew
        <3>1. y1.node[p].history = <<point>> /\ y.node[p].history = <<last>>
            BY <1>3, <1>13
        <3>2. Count(<<point>>, b) = IF point.backup = b THEN 1 ELSE 0
            BY <1>3, CountSingle
        <3>3. Count(<<last>>, b) = IF last.backup = b THEN 1 ELSE 0
            <4> HIDE DEF last
            <4> QED BY <1>11, CountSingle
        <3> HIDE DEF last
        <3> QED BY <1>7, <1>10, <3>1, <3>2, <3>3
    <2> HIDE DEF last, single
    <2> QED BY <1>1, <1>10, <1>12, <1>14, <2>1, <2>2, ExactReplaced
<1>15. OnlyAt(x, y, p)
    <2> HIDE DEF last, single
    <2> QED BY <1>10, <1>12, <1>13, <1>14 DEF OnlyAt
<1>16. Brought(x, y, p, policy, state)
    <2> DEFINE t == y.node[p]
    <2>1. t.policy = policy /\ Sound(p, t) /\ t.history = <<last>>
        BY <1>11, <1>13
    <2> HIDE DEF t, last
    <2>2. t.history[1] = last /\ DOMAIN t.history = {1}
        BY <2>1
    <2>3. point.backup \in Int /\ point.backup <= run /\ last.backup <= run
        BY <1>0, <1>2, <1>3, <1>11 DEF Runs, Point
    <2>4. \E j \in DOMAIN n.history : point.backup = n.history[j].backup
        BY <1>2, <1>3
    <2>5. \A i \in DOMAIN t.history :
              t.history[i].backup = run \/ \E j \in DOMAIN n.history : t.history[i].backup = n.history[j].backup
        BY <1>11, <2>2, <2>4
    <2>6. t.history[1].state = new /\ y.hint[p] = hint
        BY <1>11, <1>13, <2>2
    <2>7. LET old == t1.history[1].state
              now == t.history[1].state
          IN /\ t.policy = policy /\ Sound(p, t) /\ t.history[1].backup <= run
             /\ y.hint[p] = "directoryReplaced" <=> old.type = "directory" /\ state.type # "directory"
             /\ policy # "none" =>
                    /\ Seen(now) = Seen(state)
                    /\ \/ now.content = state.content
                       \/ old # NonExisting /\ LooksTheSame(old, state)
             /\ policy = "none" => now.type = old.type
        BY <1>3, <1>5, <2>1, <2>2, <2>3, <2>6
    <2> QED BY <2>5, <2>7, Zenon DEF Brought, t, n, t1
<1>17. Told(x, y, p)
    <2>1. y.hint[p] = hint /\ (p \in y.flag <=> p \in y1.flag)
        BY <1>7, <1>10, <1>13
    <2>2. p \notin y.flag => n.policy = policy /\ t1 = n
        BY <1>1, <2>1 DEF t1, Trimmed, n
    <2>3. y.node[p].policy = policy /\ y.node[p].history[1].state = new
        BY <1>11, <1>13
    <2> DEFINE now == y.node[p]
    <2> HIDE DEF last, single, now
    <2> QED BY <1>3, <1>5, <2>1, <2>2, <2>3 DEF Told, n, now
<1> QED BY <1>15, <1>16, <1>17 DEF y, n

LEMMA SetHintEffect ==
    ASSUME NEW x \in Memory, NEW p \in Paths, NEW hint \in Hints
    PROVE LET y == SetHint(x, p, hint)
          IN /\ y \in Memory /\ y.node = x.node /\ y.flag = x.flag /\ y.refs = x.refs
             /\ y.hint = [x.hint EXCEPT ![p] = hint]
             /\ p \in Live(x) /\ hint # "wiped" => Live(y) = Live(x)
             /\ p \in Live(x) /\ hint # "wiped" /\ Exact(x) => Exact(y)
<1> DEFINE y == SetHint(x, p, hint)
<1>1. y = [x EXCEPT !.hint[p] = hint]
    BY DEF SetHint
<1> HIDE DEF y
<1>2. /\ y \in Memory /\ y.node = x.node /\ y.flag = x.flag /\ y.refs = x.refs
      /\ y.hint = [x.hint EXCEPT ![p] = hint]
    BY <1>1 DEF Memory
<1>3. ASSUME p \in Live(x), hint # "wiped" PROVE Live(y) = Live(x)
    BY <1>2, <1>3 DEF Live, Exists, Memory
<1>4. ASSUME p \in Live(x), hint # "wiped", Exact(x) PROVE Exact(y)
    BY <1>2, <1>3, <1>4, ExactSame
<1> QED BY <1>2, <1>3, <1>4 DEF y

(* The history of a tracked path is extended. *)
LEMMA PushedHere ==
    ASSUME NEW x \in Memory, NEW p \in Live(x), NEW hint \in Hints, hint # "wiped",
           run \in Runs, NEW state \in Mixed
    PROVE LET y == Push(SetHint(x, p, hint), p, state)
          IN /\ OnlyAt(x, y, p)
             /\ y.hint[p] = hint /\ y.node[p] = Pushed(x.node[p], state) /\ y.flag = x.flag
<1> DEFINE z == SetHint(x, p, hint)
           ps == {p}
           y == Push(z, p, state)
<1>0. p \in Paths /\ Exists(x, p)
    BY DEF Live
<1>1. /\ z \in Memory /\ z.node = x.node /\ z.flag = x.flag /\ z.refs = x.refs
      /\ z.hint = [x.hint EXCEPT ![p] = hint]
      /\ Live(z) = Live(x)
      /\ Exact(x) => Exact(z)
    BY <1>0, SetHintEffect
<1> HIDE DEF z
<1>2. ps \in SUBSET Paths /\ (\A q \in ps : Exists(z, q)) /\ ps \subseteq Live(z)
    BY <1>0, <1>1 DEF Exists
<1>3. y = PushAll(z, ps, state)
    BY DEF Push
<1>4. \A q \in Paths : q \in ps <=> q = p
    OBVIOUS
<1> HIDE DEF ps, y
<1>5. /\ y \in Memory /\ y.hint = z.hint /\ y.flag = z.flag
      /\ \A q \in Paths : y.node[q] = IF q \in ps THEN Pushed(z.node[q], state) ELSE z.node[q]
      /\ Live(y) = Live(z)
      /\ Exact(z) => Exact(y)
    <2>1. state \in Mixed \cup {NonExisting}
        OBVIOUS
    <2>2. PushedAll(z, y, ps, state)
        BY <1>1, <1>2, <1>3, <2>1, PushAllEffect
    <2> QED BY <1>2, <2>2 DEF PushedAll
<1>6. /\ y.hint[p] = hint /\ y.node[p] = Pushed(x.node[p], state)
      /\ \A q \in Paths \ {p} : /\ y.node[q] = x.node[q] /\ y.hint[q] = x.hint[q]
                                /\ q \in y.flag <=> q \in x.flag
    BY <1>0, <1>1, <1>4, <1>5 DEF Memory
<1>7. OnlyAt(x, y, p)
    BY <1>1, <1>5, <1>6 DEF OnlyAt
<1> QED BY <1>1, <1>5, <1>6, <1>7 DEF y, z

LEMMA FoundTracked ==
    ASSUME NEW x \in Memory, NEW p \in Live(x), x.hint[p] = "none", Sound(p, x.node[p]),
           run \in Runs, x.node[p].history[1].backup < run, NEW state \in StatesAt[p]
    PROVE LET y == HandleFoundNode(x, p, "track", state)
          IN OnlyAt(x, y, p) /\ Brought(x, y, p, "track", state) /\ Told(x, y, p)
<1> DEFINE n == x.node[p]
           y1 == HandlePolicyChanges(x, p, "track")
           t1 == Trimmed(n, "track")
           point == t1.history[1]
           hint == NodeHint(y1, p, state)
           new == NewState(y1, p, "track", state)
           z == SetHint(y1, p, hint)
           y == HandleFoundNode(x, p, "track", state)
<1>0. p \in Paths /\ n.history[1].backup \in Runs /\ n.history[1].backup < run
    <2>1. p \in Paths
        BY DEF Live
    <2> QED BY <2>1, SoundFacts
<1>1. /\ y1 \in Memory /\ y1.hint = x.hint
      /\ y1.flag = IF n.policy = "track" THEN x.flag ELSE x.flag \cup {p}
      /\ \A q \in Paths : y1.node[q] = IF q = p THEN t1 ELSE x.node[q]
      /\ Live(y1) = Live(x)
      /\ Exact(x) => Exact(y1)
    <2>1. PolicyHandled(x, y1, p, "track")
        BY HandlePolicyChangesEffect DEF Steady, Policies
    <2> HIDE DEF y1, t1
    <2> QED BY <2>1 DEF PolicyHandled, n, t1
<1>2. /\ Sound(p, t1) /\ t1.policy = "track"
      /\ point.backup <= n.history[1].backup
      /\ \A i \in DOMAIN t1.history : \E j \in DOMAIN n.history : t1.history[i] = n.history[j]
      /\ n.policy = "track" => t1 = n
    <2>1. n.policy = "track" => t1 = n
        BY DEF Trimmed
    <2> QED BY <1>0, <2>1, TrimmedSound DEF Policies
<1> HIDE DEF y1, t1, n
<1>3. /\ t1.history \in Seq(Point) /\ DOMAIN t1.history = 1 .. Len(t1.history)
      /\ Len(t1.history) \in Nat \ {0}
      /\ point \in Point /\ point.backup \in Runs /\ point.backup < run
      /\ point.state \in Mixed \cup {NonExisting}
      /\ Top(y1, p) = point.state /\ y1.node[p] = t1 /\ y1.hint[p] = "none" /\ p \in Live(y1)
    <2>1. /\ t1.history \in Seq(Point) /\ DOMAIN t1.history = 1 .. Len(t1.history)
          /\ Len(t1.history) \in Nat \ {0} /\ Head(t1.history) = point
          /\ \A i \in DOMAIN t1.history : t1.history[i] \in Point /\ t1.history[i].backup \in Runs
        BY <1>0, <1>2, SoundFacts
    <2>2. point \in Point /\ point.backup \in Runs
        BY <2>1
    <2>3. point.state \in Mixed \cup {NonExisting}
        BY <2>2 DEF Point
    <2>4. point.backup < run
        BY <1>0, <1>2, <2>2 DEF Runs
    <2> QED BY <1>0, <1>1, <2>1, <2>2, <2>3, <2>4 DEF Top
<1>4. /\ hint \in {"none", "changed", "replaced", "directoryReplaced"}
      /\ hint = "directoryReplaced" <=> point.state.type = "directory" /\ state.type # "directory"
      /\ new = point.state \/ (new \in Mixed /\ new.type = state.type)
      /\ hint = "none" => new = point.state
      /\ hint # "none" => new # point.state
      /\ Seen(new) = Seen(state)
      /\ new.content = state.content \/ LooksTheSame(point.state, state)
      /\ hint = "replaced" => point.state.type # "directory"
      /\ hint = "changed" => new # point.state /\ new.type = point.state.type
    <2>1. Renewed(point.state, hint, new, "track", state)
        BY <1>0, <1>3, NewStateFacts
    <2> HIDE DEF hint, new
    <2> QED BY <2>1 DEF Renewed
<1>5. state \in Mixed /\ state.type \in Kinds(p) /\ state # NonExisting
    BY <1>0, StateFacts
<1>6. y = IF Gone(y1, p) THEN Push(SetHint(y1, p, "added"), p, state)
          ELSE IF hint # "none" THEN Push(z, p, new) ELSE z
    BY Zenon DEF HandleFoundNode, y1, z, hint, new
<1>7. Gone(y1, p) <=> point.state = NonExisting
    BY <1>3 DEF Gone
<1> HIDE DEF y, hint, new
<1> DEFINE Fits(s, h) ==
        /\ s \in Mixed /\ s # point.state /\ s.type \in Kinds(p) /\ Seen(s) = Seen(state)
        /\ \/ s.content = state.content
           \/ point.state # NonExisting /\ LooksTheSame(point.state, state)
        /\ h \in Hints /\ h \in {"added", "changed", "replaced", "directoryReplaced"}
        /\ h = "added" => point.state = NonExisting
        /\ h = "replaced" => point.state.type # "directory"
        /\ h = "changed" => point.state # NonExisting /\ s.type = point.state.type
        /\ h = "directoryReplaced" <=> point.state.type = "directory" /\ state.type # "directory"
        /\ y = Push(SetHint(y1, p, h), p, s)
(* What is left to show when a point was added. *)
<1>8. ASSUME NEW s, NEW h, Fits(s, h)
      PROVE OnlyAt(x, y, p) /\ Brought(x, y, p, "track", state) /\ Told(x, y, p)
    <2>1. OnlyAt(y1, y, p) /\ y.hint[p] = h /\ y.node[p] = Pushed(t1, s) /\ y.flag = y1.flag
        BY <1>0, <1>1, <1>3, <1>8, PushedHere
    <2> DEFINE t == Pushed(t1, s)
    <2>2. /\ Sound(p, t) /\ t.policy = "track"
          /\ t.history[1] = [backup |-> run, state |-> s]
          /\ \A i \in DOMAIN t.history :
                 \/ t.history[i].backup = run
                 \/ \E j \in DOMAIN t1.history : t.history[i] = t1.history[j]
          /\ Head(t.history) = t.history[1] /\ Tail(t.history) = t1.history
        <3>1. s \in Mixed \cup {NonExisting}
            BY <1>8
        <3> QED BY <1>0, <1>2, <1>3, <1>8, <3>1, PushedSound
    <2> HIDE DEF t
    <2>3. t.history[1].state = s /\ t.history[1].backup = run
        BY <2>2
    <2>4. \A i \in DOMAIN t.history :
              t.history[i].backup = run \/ \E j \in DOMAIN n.history : t.history[i].backup = n.history[j].backup
        <3> TAKE i \in DOMAIN t.history
        <3>1. CASE \E j \in DOMAIN t1.history : t.history[i] = t1.history[j]
            <4>1. PICK j \in DOMAIN t1.history : t.history[i] = t1.history[j]
                BY <3>1
            <4>2. PICK k \in DOMAIN n.history : t1.history[j] = n.history[k]
                BY <1>2
            <4> QED BY <4>1, <4>2
        <3> QED BY <2>2, <3>1
    <2>5. n.policy = "track" => Head(t.history).backup = run /\ Tail(t.history) = n.history
        BY <1>2, <2>2, <2>3
    <2>6. y.node[p] = t /\ t.history[1].backup <= run
        BY <2>1, <2>3 DEF t, Runs
    <2>7. OnlyAt(x, y, p)
        BY <1>0, <1>1, <2>1 DEF OnlyAt
    <2>8. Brought(x, y, p, "track", state)
        <3>1. LET t2 == y.node[p]
                  old == t1.history[1].state
                  now == t2.history[1].state
              IN /\ Sound(p, t2) /\ t2.policy = "track" /\ t2.history[1].backup <= run
                 /\ y.hint[p] = "directoryReplaced" <=> old.type = "directory" /\ state.type # "directory"
                 /\ Seen(now) = Seen(state)
                 /\ \/ now.content = state.content
                    \/ old # NonExisting /\ LooksTheSame(old, state)
            BY <1>8, <2>1, <2>2, <2>3, <2>6
        <3> QED BY <2>4, <2>5, <2>6, <3>1, Zenon DEF Brought, n, t1
    <2>9. Told(x, y, p)
        <3>1. p \notin y.flag => n.policy = "track" /\ t1 = n
            BY <1>1, <1>2, <2>1
        <3> QED BY <1>8, <2>1, <2>2, <2>3, <2>6, <3>1 DEF Told, n
    <2> QED BY <2>7, <2>8, <2>9
<1>9. ASSUME Gone(y1, p) PROVE OnlyAt(x, y, p) /\ Brought(x, y, p, "track", state) /\ Told(x, y, p)
    <2>1. y = Push(SetHint(y1, p, "added"), p, state)
        BY <1>6, <1>9
    <2>2. point.state = NonExisting /\ point.state.type # "directory"
        BY <1>7, <1>9 DEF NonExisting
    <2>3. "added" \in Hints
        BY DEF Hints
    <2>4. Fits(state, "added")
        BY <1>5, <2>1, <2>2, <2>3
    <2> HIDE DEF Fits
    <2> QED BY <1>8, <2>4
<1>10. ASSUME ~Gone(y1, p), hint # "none"
       PROVE OnlyAt(x, y, p) /\ Brought(x, y, p, "track", state) /\ Told(x, y, p)
    <2>1. y = Push(SetHint(y1, p, hint), p, new)
        BY <1>6, <1>10
    <2>2. new \in Mixed /\ new.type = state.type /\ new # point.state /\ point.state # NonExisting
        BY <1>4, <1>7, <1>10
    <2>3. hint \in Hints /\ hint \in {"changed", "replaced", "directoryReplaced"}
        BY <1>4, <1>10 DEF Hints
    <2>4. Fits(new, hint)
        BY <1>4, <1>5, <2>1, <2>2, <2>3 DEF z
    <2> HIDE DEF Fits
    <2> QED BY <1>8, <2>4
<1>11. ASSUME ~Gone(y1, p), hint = "none"
       PROVE OnlyAt(x, y, p) /\ Brought(x, y, p, "track", state) /\ Told(x, y, p)
    <2>1. y = SetHint(y1, p, "none") /\ "none" \in Hints
        BY <1>6, <1>11 DEF Hints
    <2>2. /\ y \in Memory /\ y.node = y1.node /\ y.flag = y1.flag
          /\ y.hint = [y1.hint EXCEPT ![p] = "none"]
          /\ Live(y) = Live(y1)
          /\ Exact(y1) => Exact(y)
        BY <1>0, <1>1, <1>3, <2>1, SetHintEffect
    <2>3. y.hint[p] = "none" /\ y.node[p] = t1
        BY <1>0, <1>1, <1>3, <2>2 DEF Memory
    <2>4. OnlyAt(x, y, p)
        <3>1. \A q \in Paths \ {p} : /\ y.node[q] = x.node[q] /\ y.hint[q] = x.hint[q]
                                     /\ q \in y.flag <=> q \in x.flag
            BY <1>0, <1>1, <2>2 DEF Memory
        <3> QED BY <1>1, <2>2, <3>1 DEF OnlyAt
    <2>5. Brought(x, y, p, "track", state)
        <3>1. LET t2 == y.node[p]
                  old == t1.history[1].state
                  now == t2.history[1].state
              IN /\ Sound(p, t2) /\ t2.policy = "track" /\ t2.history[1].backup <= run
                 /\ y.hint[p] = "directoryReplaced" <=> old.type = "directory" /\ state.type # "directory"
                 /\ Seen(now) = Seen(state)
                 /\ \/ now.content = state.content
                    \/ old # NonExisting /\ LooksTheSame(old, state)
            <4>1. point.backup <= run
                BY <1>3 DEF Runs
            <4>2. point.state # NonExisting
                BY <1>7, <1>11
            <4> QED BY <1>2, <1>4, <1>11, <2>3, <4>1, <4>2
        <3>2. \A i \in DOMAIN t1.history : \E j \in DOMAIN n.history : t1.history[i].backup = n.history[j].backup
            BY <1>2
        <3>3. n.policy = "track" => t1.history = n.history
            BY <1>2
        <3> QED BY <2>3, <3>1, <3>2, <3>3, Zenon DEF Brought, n, t1
    <2>6. Told(x, y, p)
        <3>1. p \notin y.flag => n.policy = "track" /\ t1 = n
            BY <1>1, <1>2, <2>2
        <3> QED BY <1>2, <2>3, <3>1 DEF Told, n
    <2> QED BY <2>4, <2>5, <2>6
<1> QED BY <1>9, <1>10, <1>11 DEF y, n

LEMMA AddNodeEffect ==
    ASSUME NEW x \in Memory, NEW p \in Paths, ~Exists(x, p), x.hint[p] = "none", run \in Runs,
           NEW policy \in Policies, NEW state \in StatesAt[p]
    PROVE LET y == AddNode(x, p, policy, state)
          IN /\ OnlyAt(x, y, p) /\ y.hint[p] = "added"
             /\ y.node[p] = [policy |-> policy, history |-> <<[backup |-> run, state |-> state]>>]
<1> DEFINE empty == [policy |-> policy, history |-> <<>>]
           node == [x.node EXCEPT ![p] = empty]
           z == [x EXCEPT !.node[p] = empty]
           y == AddNode(x, p, policy, state)
<1>1. empty \in Node /\ empty # None /\ empty.history = <<>>
    <2>1. empty \in Node
        BY DEF Node
    <2> QED BY <2>1, NodeFacts
<1>2. z = [x EXCEPT !.node = node] /\ y = Push(SetHint(z, p, "added"), p, state)
    BY DEF AddNode
<1>3. node \in [Paths -> Node \cup {None}] /\ node[p] = empty /\ \A q \in Paths \ {p} : node[q] = x.node[q]
    <2> HIDE DEF empty
    <2> QED BY <1>1 DEF Memory
<1> HIDE DEF z, y
<1>4. z \in Memory /\ z.node = node /\ z.hint = x.hint /\ z.flag = x.flag /\ z.refs = x.refs
    <2> HIDE DEF node
    <2> QED BY <1>2, <1>3 DEF Memory
<1> HIDE DEF node
<1>5. Live(z) = Live(x) \cup {p} /\ p \notin Live(x)
    <2> HIDE DEF empty
    <2> QED BY <1>1, <1>3, <1>4 DEF Live, Exists
<1>6. ASSUME Exact(x) PROVE Exact(z)
    <2> SUFFICES ASSUME NEW b \in Runs PROVE z.refs[b] = CountIn(z, Live(z), b)
        BY DEF Exact
    <2> DEFINE ps == {p}
    <2>1. ps \in SUBSET Paths /\ OnlyIn(x, z, ps)
        BY <1>3, <1>4, <1>5 DEF OnlyIn, Live
    <2>2. Live(z) \cap ps = {p} /\ Live(x) \cap ps = {}
        BY <1>5
    <2> HIDE DEF ps
    <2>3. SameBeyond(x, z, ps, b)
        <3>1. z \in Memory
            BY <1>4
        <3> HIDE DEF empty
        <3> QED BY <2>1, <3>1, CountChange
    <2>4. CountIn(x, Live(x) \cap ps, b) = 0
        BY <2>2, CountNothing
    <2>5. CountIn(z, Live(z) \cap ps, b) = 0
        <3>1. z.node[p].history = <<>>
            BY <1>1, <1>3, <1>4
        <3>2. Points(z, {p}, b) = {}
            BY <3>1 DEF Points, Places
        <3> QED BY <2>2, <3>2, FS_EmptySet DEF CountIn
    <2>6. x.refs[b] = CountIn(x, Live(x), b) /\ z.refs[b] = x.refs[b]
        BY <1>4, <1>6 DEF Exact
    <2> QED BY <2>3, <2>4, <2>5, <2>6 DEF SameBeyond
<1>7. OnlyAt(z, y, p) /\ y.hint[p] = "added" /\ y.node[p] = Pushed(z.node[p], state)
    <2>1. p \in Live(z) /\ "added" \in Hints /\ "added" # "wiped" /\ state \in Mixed
        BY <1>5, StateFacts DEF Hints
    <2>2. y = Push(SetHint(z, p, "added"), p, state) /\ z \in Memory
        BY <1>2, <1>4
    <2> HIDE DEF empty
    <2> QED BY <2>1, <2>2, PushedHere
<1>8. y.node[p] = [policy |-> policy, history |-> <<[backup |-> run, state |-> state]>>]
    <2>1. <<[backup |-> run, state |-> state]>> \o <<>> = <<[backup |-> run, state |-> state]>>
        OBVIOUS
    <2> QED BY <1>3, <1>4, <1>7, <2>1 DEF Pushed
<1>9. OnlyAt(x, y, p)
    <2>1. \A q \in Paths \ {p} : /\ y.node[q] = x.node[q] /\ y.hint[q] = x.hint[q]
                                 /\ q \in y.flag <=> q \in x.flag
        BY <1>3, <1>4, <1>7 DEF OnlyAt
    <2> QED BY <1>5, <1>6, <1>7, <2>1 DEF OnlyAt
<1> QED BY <1>7, <1>8, <1>9 DEF y

(* A subtree that goes, or whose removal is recorded; its first node may    *)
(* have got another policy before.                                          *)
Base(x, p, n, q) == IF q = p THEN n ELSE x.node[q]
Outside(x, y, p) ==
    /\ y \in Memory /\ (Exact(x) => Exact(y))
    /\ \A q \in Paths \ Subtree(p) : /\ y.node[q] = x.node[q] /\ y.hint[q] = x.hint[q]
                                     /\ q \in y.flag <=> q \in x.flag

Goes(x, y, p, n) ==
    /\ Live(y) = Live(x) \ Subtree(p)
    /\ \A q \in Subtree(p) : /\ y.node[q] = Base(x, p, n, q)
                             /\ Exists(x, q) => y.hint[q] = "wiped"

Stays(x, y, p, n, extend) ==
    /\ Live(y) = Live(x)
    /\ \A q \in Subtree(p) \cap Live(x) :
        LET b == Base(x, p, n, q)
            gone(r) == Base(x, p, n, r).history[1].state = NonExisting
        IN /\ y.hint[q] # "wiped"
           /\ \/ y.node[q] = b
              \/ y.node[q] = Pushed(b, NonExisting) /\ b.policy = "track" /\ ~gone(q) /\ extend
           /\ extend /\ ~gone(q) /\ (\A r \in Trail(q) : r \in Subtree(p) => Base(x, p, n, r).policy = "track")
              => y.node[q] = Pushed(b, NonExisting)
    /\ \A q \in Subtree(p) \ Live(x) : y.node[q] = Base(x, p, n, q) /\ y.hint[q] = x.hint[q]

(* Nothing but the nodes of the subtree changes.                            *)
LEMMA SubtreeFacts ==
    \A p \in Paths : /\ Subtree(p) \in SUBSET Paths /\ p \in Subtree(p)
                     /\ \A q \in Subtree(p) : Trail(q) \cap Subtree(p) \in SUBSET Paths
                                              /\ p \in Trail(q)
BY TrailFacts DEF Subtree

LEMMA WipeSubtree ==
    ASSUME NEW x \in Memory, NEW p \in Paths
    PROVE LET y == Wipe(x, Subtree(p))
          IN Outside(x, y, p) /\ Goes(x, y, p, x.node[p])
<1> DEFINE ps == Subtree(p)
           y == Wipe(x, ps)
<1>1. ps \in SUBSET Paths
    BY SubtreeFacts
<1> HIDE DEF ps
<1>2. /\ y \in Memory /\ y.node = x.node /\ y.flag = x.flag
      /\ \A q \in Paths : y.hint[q] = IF q \in ps /\ Exists(x, q) THEN "wiped" ELSE x.hint[q]
      /\ Live(y) = Live(x) \ ps
      /\ Exact(x) => Exact(y)
    BY <1>1, WipeEffect
<1> HIDE DEF y
<1>3. \A q \in Paths \ ps : /\ y.node[q] = x.node[q] /\ y.hint[q] = x.hint[q]
                            /\ q \in y.flag <=> q \in x.flag
    BY <1>2
<1>4. \A q \in ps : y.node[q] = Base(x, p, x.node[p], q) /\ (Exists(x, q) => y.hint[q] = "wiped")
    BY <1>1, <1>2 DEF Base
<1>5. Outside(x, y, p)
    BY <1>2, <1>3 DEF Outside, ps
<1>6. Goes(x, y, p, x.node[p])
    BY <1>2, <1>4 DEF Goes, ps
<1> QED BY <1>5, <1>6 DEF y, ps

(* Every node is as it should be. *)
AllSound(x) == \A p \in Paths : Exists(x, p) => Sound(p, x.node[p])

(* What the hint of a path that is missing says, if its policy has not      *)
(* changed: one that is not removed or taken away was gone before.          *)
Noticed(x, y, p) ==
    \A q \in Subtree(p) \cap Live(x) :
        LET old == x.node[q].history[1].state
        IN /\ y.hint[q] \in {"unchanged", "removed", "wiped"}
           /\ q \notin y.flag =>
                /\ y.node[q].policy = x.node[q].policy
                /\ y.hint[q] \in {"unchanged", "wiped"} => y.node[q] = x.node[q]
                /\ y.hint[q] = "removed" => old # NonExisting /\ LastState(y.node[q].history) = old

LEMMA GoesNoticed ==
    ASSUME NEW x, NEW y, NEW p, NEW n, Goes(x, y, p, n), p \in y.flag \/ n = x.node[p]
    PROVE Noticed(x, y, p)
BY DEF Goes, Noticed, Base, Live

(* The last state of a removed path is the one it was removed with.         *)
LEMMA RemovedLast ==
    ASSUME NEW p \in Paths, NEW n, Sound(p, n), n.history[1].state # NonExisting
    PROVE /\ LastState(n.history) = n.history[1].state
          /\ LastState(Pushed(n, NonExisting).history) = n.history[1].state
<1> DEFINE h == n.history
           point == [backup |-> run, state |-> NonExisting]
           g == <<point>> \o h
<1>1. h \in Seq(Point) /\ Len(h) \in Nat \ {0} /\ Head(h) = h[1]
    BY SoundFacts
<1>2. LastState(h) = h[1].state
    BY <1>1 DEF LastState, Latest
<1>3. Pushed(n, NonExisting).history = g
    BY DEF Pushed
<1> HIDE DEF h
<1>4. g[1] = point /\ g[2] = h[1] /\ Head(g) = g[1]
    <2> HIDE DEF point
    <2> QED BY <1>1
<1>5. LastState(g) = h[1].state
    <2> HIDE DEF g
    <2> QED BY <1>4 DEF LastState, Latest
<1> QED BY <1>2, <1>3, <1>5 DEF h

LEMMA MarkSubtree ==
    ASSUME NEW x \in Memory, NEW y \in Memory, AllSound(x), NEW p \in Paths, NEW extend \in BOOLEAN,
           Removed(x, y, p, extend)
    PROVE /\ Outside(x, y, p) /\ Stays(x, y, p, x.node[p], extend)
          /\ Noticed(x, y, p)
<1>1. \A q \in Paths : Base(x, p, x.node[p], q) = x.node[q]
    BY DEF Base
<1>2. \A q \in Live(x) : Gone(x, q) <=> x.node[q].history[1].state = NonExisting
    BY SoundFacts DEF AllSound, Live, Gone, Top
<1>3. Outside(x, y, p)
    <2>1. \A q \in Paths \ Subtree(p) : q \notin Recorded(x, p, extend)
        BY DEF Recorded
    <2> QED BY <2>1 DEF Removed, Outside
<1>4. ASSUME NEW q \in Subtree(p) \cap Live(x)
      PROVE /\ y.hint[q] # "wiped"
            /\ \/ y.node[q] = x.node[q]
               \/ /\ y.node[q] = Pushed(x.node[q], NonExisting) /\ x.node[q].policy = "track"
                  /\ ~Gone(x, q) /\ extend
            /\ extend /\ ~Gone(x, q) /\ (\A r \in Trail(q) : r \in Subtree(p) => x.node[r].policy = "track")
               => y.node[q] = Pushed(x.node[q], NonExisting)
    <2>1. q \in Paths /\ q \in Trail(q)
        BY TrailFacts DEF Live
    <2>2. y.hint[q] # "wiped"
        BY <2>1 DEF Removed
    <2>3. y.node[q] = IF q \in Recorded(x, p, extend) THEN Pushed(x.node[q], NonExisting) ELSE x.node[q]
        BY <2>1 DEF Removed
    <2>4. q \in Recorded(x, p, extend) => x.node[q].policy = "track" /\ ~Gone(x, q) /\ extend
        BY <2>1 DEF Recorded
    <2>5. extend /\ ~Gone(x, q) /\ (\A r \in Trail(q) : r \in Subtree(p) => x.node[r].policy = "track")
          => q \in Recorded(x, p, extend)
        BY DEF Recorded
    <2> QED BY <2>2, <2>3, <2>4, <2>5
<1>5. ASSUME NEW q \in Subtree(p) \ Live(x) PROVE y.node[q] = x.node[q] /\ y.hint[q] = x.hint[q]
    <2>1. q \in Paths /\ q \notin Recorded(x, p, extend)
        BY DEF Recorded, Subtree
    <2> QED BY <2>1 DEF Removed
<1>6. Live(y) = Live(x)
    BY DEF Removed
<1>7. Stays(x, y, p, x.node[p], extend)
    BY <1>1, <1>2, <1>4, <1>5, <1>6 DEF Stays, Subtree
<1>8. ASSUME NEW q \in Subtree(p) \cap Live(x)
      PROVE LET old == x.node[q].history[1].state
            IN /\ y.hint[q] \in {"unchanged", "removed"} /\ y.node[q].policy = x.node[q].policy
               /\ y.hint[q] = "unchanged" => y.node[q] = x.node[q]
               /\ y.hint[q] = "removed" => old # NonExisting /\ LastState(y.node[q].history) = old
    <2>1. q \in Paths /\ Sound(q, x.node[q])
        BY DEF Live, AllSound
    <2>2. y.hint[q] = IF Gone(x, q) THEN "unchanged" ELSE "removed"
        BY <2>1 DEF Removed
    <2>3. Gone(x, q) => y.node[q] = x.node[q]
        BY <1>4
    <2>4. y.node[q] \in {x.node[q], Pushed(x.node[q], NonExisting)}
        BY <1>4
    <2>5. ~Gone(x, q) => /\ x.node[q].history[1].state # NonExisting
                         /\ LastState(y.node[q].history) = x.node[q].history[1].state
        BY <1>2, <2>1, <2>4, RemovedLast
    <2>6. y.node[q].policy = x.node[q].policy
        BY <2>4 DEF Pushed
    <2> QED BY <2>2, <2>3, <2>5, <2>6
<1>9. Noticed(x, y, p)
    BY <1>8 DEF Noticed
<1> QED BY <1>3, <1>7, <1>9

Childless(x, p) == \A q \in Children(p) : ~Exists(x, q)

(* handlePolicyChanges() first: only the node itself is another one then.   *)
LEMMA AfterPolicyChange ==
    ASSUME NEW x \in Memory, NEW y1 \in Memory, NEW y, NEW p \in Live(x), NEW n,
           \A q \in Paths : y1.node[q] = IF q = p THEN n ELSE x.node[q],
           y1.hint = x.hint, Live(y1) = Live(x), Exact(x) => Exact(y1),
           \A q \in Paths \ {p} : q \in y1.flag <=> q \in x.flag,
           n # None
    PROVE /\ Outside(y1, y, p) => Outside(x, y, p)
          /\ Goes(y1, y, p, n) => Goes(x, y, p, n)
          /\ \A extend : Stays(y1, y, p, n, extend) => Stays(x, y, p, n, extend)
<1>0. p \in Paths /\ p \in Subtree(p) /\ Subtree(p) \in SUBSET Paths
    BY SubtreeFacts DEF Live
<1>1. \A q \in Paths : Base(y1, p, n, q) = Base(x, p, n, q)
    BY DEF Base
<1>2. \A q \in Paths : Exists(y1, q) <=> Exists(x, q)
    BY DEF Exists, Live
<1>3. ASSUME Outside(y1, y, p) PROVE Outside(x, y, p)
    BY <1>0, <1>3 DEF Outside
<1>4. ASSUME Goes(y1, y, p, n) PROVE Goes(x, y, p, n)
    BY <1>0, <1>1, <1>2, <1>4 DEF Goes
<1>5. ASSUME NEW extend, Stays(y1, y, p, n, extend) PROVE Stays(x, y, p, n, extend)
    <2>1. \A q \in Subtree(p) : Base(y1, p, n, q) = Base(x, p, n, q)
        BY <1>0, <1>1
    <2>2. Live(y) = Live(x)
        BY <1>5 DEF Stays
    <2>3. ASSUME NEW q \in Subtree(p) \cap Live(x)
          PROVE LET b == Base(x, p, n, q)
                    gone(r) == Base(x, p, n, r).history[1].state = NonExisting
                IN /\ y.hint[q] # "wiped"
                   /\ \/ y.node[q] = b
                      \/ y.node[q] = Pushed(b, NonExisting) /\ b.policy = "track" /\ ~gone(q) /\ extend
                   /\ extend /\ ~gone(q) /\ (\A r \in Trail(q) : r \in Subtree(p) => Base(x, p, n, r).policy = "track")
                      => y.node[q] = Pushed(b, NonExisting)
        <3>1. q \in Subtree(p) \cap Live(y1)
            OBVIOUS
        <3> QED BY <1>5, <2>1, <3>1 DEF Stays
    <2>4. ASSUME NEW q \in Subtree(p) \ Live(x)
          PROVE y.node[q] = Base(x, p, n, q) /\ y.hint[q] = x.hint[q]
        BY <1>5, <2>1 DEF Stays
    <2> QED BY <2>2, <2>3, <2>4 DEF Stays
<1> QED BY <1>3, <1>4, <1>5

(* handleRemovedPath() *)
GoesAway(x, p, policy) == policy = "mirror" \/ (policy = "none" /\ Childless(x, p))

LEMMA HandleRemovedPathEffect ==
    ASSUME NEW x \in Memory, Closed(x), AllSound(x), NEW p \in Live(x), run \in Runs,
           NEW policy \in Policies, Steady(p, x.node[p], policy),
           policy = "none" => \/ Childless(x, p)
                              \/ Trimmed(x.node[p], policy).history[1].state.type = "directory"
    PROVE LET y == HandleRemovedPath(x, p, policy)
              n == Trimmed(x.node[p], policy)
          IN /\ Outside(x, y, p) /\ Noticed(x, y, p)
             /\ IF GoesAway(x, p, policy) THEN Goes(x, y, p, n) ELSE Stays(x, y, p, n, TRUE)
<1> DEFINE n == Trimmed(x.node[p], policy)
           y1 == HandlePolicyChanges(x, p, policy)
           y == HandleRemovedPath(x, p, policy)
<1>0. p \in Paths /\ Sound(p, x.node[p])
    BY DEF Live, AllSound
<1>1. /\ y1 \in Memory /\ y1.hint = x.hint
      /\ y1.flag = IF x.node[p].policy = policy THEN x.flag ELSE x.flag \cup {p}
      /\ \A q \in Paths : y1.node[q] = IF q = p THEN n ELSE x.node[q]
      /\ Live(y1) = Live(x)
      /\ Exact(x) => Exact(y1)
    <2>1. PolicyHandled(x, y1, p, policy)
        BY <1>0, HandlePolicyChangesEffect
    <2> HIDE DEF y1, n
    <2> QED BY <2>1 DEF PolicyHandled, n
<1>2. Sound(p, n) /\ n.policy = policy
    BY <1>0, TrimmedSound
<1>3. n # None /\ Head(n.history) = n.history[1]
    BY <1>0, <1>2, SoundFacts, NodeFacts
<1> HIDE DEF y1, n
<1>4. /\ Outside(y1, y, p) => Outside(x, y, p)
      /\ Goes(y1, y, p, n) => Goes(x, y, p, n)
      /\ Stays(y1, y, p, n, TRUE) => Stays(x, y, p, n, TRUE)
    <2>1. \A q \in Paths \ {p} : q \in y1.flag <=> q \in x.flag
        BY <1>1
    <2>2. /\ \A q \in Paths : y1.node[q] = IF q = p THEN n ELSE x.node[q]
          /\ y1 \in Memory /\ y1.hint = x.hint /\ Live(y1) = Live(x) /\ (Exact(x) => Exact(y1))
        BY <1>1
    <2> HIDE DEF y
    <2> QED BY <1>0, <1>3, <2>1, <2>2, AfterPolicyChange
<1>5. y1.node[p] = n /\ Top(y1, p) = n.history[1].state
    BY <1>0, <1>1, <1>3 DEF Top
<1>6. /\ \A q \in Children(p) : Exists(y1, q) <=> Exists(x, q)
      /\ Closed(y1) /\ AllSound(y1)
    <2>1. \A q \in Children(p) : q \in Paths /\ q # p
        <3>1. \A q \in Children(p) : q \in Paths /\ p \in Trail(Parent[q])
            BY <1>0, TrailFacts, TreeAssumption DEF Children
        <3> QED BY <3>1, TrailAcyclic
    <2>2. \A q \in Children(p) : Exists(y1, q) <=> Exists(x, q)
        BY <1>1, <2>1 DEF Exists
    <2>3. Closed(y1)
        BY <1>1 DEF Closed
    <2>4. AllSound(y1)
        BY <1>1, <1>2 DEF AllSound, Exists
    <2> QED BY <2>2, <2>3, <2>4
<1>7. y = IF policy = "mirror" THEN Wipe(y1, Subtree(p))
          ELSE IF policy = "none" /\ (~(\E q \in Children(p) : Exists(y1, q)) \/ Top(y1, p).type # "directory")
               THEN Wipe(y1, {p})
          ELSE MarkAsRemoved(y1, p, TRUE)
    BY Zenon DEF HandleRemovedPath, y1
<1>8. y = IF policy = "mirror" THEN Wipe(y1, Subtree(p))
          ELSE IF policy = "none" /\ Childless(x, p) THEN Wipe(y1, {p})
          ELSE MarkAsRemoved(y1, p, TRUE)
    <2>1. Childless(x, p) <=> ~(\E q \in Children(p) : Exists(y1, q))
        BY <1>6 DEF Childless
    <2>2. policy = "none" /\ ~Childless(x, p) => n.history[1].state.type = "directory"
        BY DEF n
    <2> HIDE DEF y
    <2> QED BY <1>5, <1>7, <2>1, <2>2
<1> HIDE DEF y
<1>12. p \in y1.flag \/ n = x.node[p]
    BY <1>1 DEF n, Trimmed
<1>9. CASE policy = "mirror"
    <2>1. y = Wipe(y1, Subtree(p))
        BY <1>8, <1>9
    <2>2. Outside(y1, y, p) /\ Goes(y1, y, p, n)
        BY <1>0, <1>1, <1>5, <2>1, WipeSubtree
    <2>3. Noticed(x, y, p)
        <3>1. y.flag = y1.flag
            <4>1. Subtree(p) \in SUBSET Paths
                BY <1>0, SubtreeFacts
            <4> QED BY <1>1, <2>1, <4>1, WipeEffect
        <3> QED BY <1>4, <1>12, <2>2, <3>1, GoesNoticed
    <2> QED BY <1>4, <1>9, <2>2, <2>3 DEF GoesAway, y, n
<1>10. CASE policy = "none" /\ Childless(x, p)
    <2> DEFINE ps == {p}
    <2>1. y = Wipe(y1, ps) /\ ps \in SUBSET Paths /\ \A q \in Paths : q \in ps <=> q = p
        BY <1>0, <1>8, <1>10
    <2> HIDE DEF ps
    <2>2. /\ y \in Memory /\ y.node = y1.node /\ y.flag = y1.flag
          /\ \A q \in Paths : y.hint[q] = IF q \in ps /\ Exists(y1, q) THEN "wiped" ELSE y1.hint[q]
          /\ Live(y) = Live(y1) \ ps
          /\ Exact(y1) => Exact(y)
        BY <1>1, <2>1, WipeEffect
    <2>3. \A q \in Subtree(p) : q \in Live(y1) => q = p
        <3> SUFFICES ASSUME NEW q \in Subtree(p), q \in Live(y1), q # p PROVE FALSE
            OBVIOUS
        <3>1. q \in Paths /\ p \in Trail(Parent[q])
            BY <1>0, TrailFacts DEF Subtree
        <3>2. PICK c \in Children(p) : c \in Trail(q)
            BY <3>1, WayDown
        <3>3. c \in Live(x)
            BY <1>1, <3>2 DEF Closed
        <3> QED BY <1>10, <3>2, <3>3 DEF Childless, Live
    <2>4. p \in Subtree(p) /\ Subtree(p) \in SUBSET Paths
        BY <1>0, SubtreeFacts
    <2>5. Live(y) = Live(y1) \ Subtree(p)
        BY <2>1, <2>2, <2>3, <2>4 DEF Live
    <2>6. Goes(y1, y, p, n)
        <3>1. \A q \in Subtree(p) : y.node[q] = Base(y1, p, n, q)
            BY <1>5, <2>2 DEF Base
        <3>2. \A q \in Subtree(p) : Exists(y1, q) => y.hint[q] = "wiped"
            BY <2>1, <2>2, <2>3, <2>4 DEF Live
        <3> QED BY <2>5, <3>1, <3>2 DEF Goes
    <2>7. Outside(y1, y, p)
        BY <2>1, <2>2, <2>4 DEF Outside
    <2>8. Noticed(x, y, p)
        BY <1>4, <1>12, <2>2, <2>6, GoesNoticed
    <2> QED BY <1>4, <1>10, <2>6, <2>7, <2>8 DEF GoesAway, y, n
<1>11. CASE ~GoesAway(x, p, policy)
    <2>1. y = MarkAsRemoved(y1, p, TRUE)
        BY <1>8, <1>11 DEF GoesAway
    <2>2. Removed(y1, y, p, TRUE) /\ y \in Memory
        <3>1. Removed(y1, y, p, TRUE)
            BY <1>0, <1>1, <1>6, <2>1, MarkAsRemovedEffect
        <3> QED BY <3>1 DEF Removed
    <2>3. Outside(y1, y, p) /\ Stays(y1, y, p, n, TRUE) /\ Noticed(y1, y, p)
        <3>1. Outside(y1, y, p) /\ Stays(y1, y, p, y1.node[p], TRUE) /\ Noticed(y1, y, p)
            BY <1>0, <1>1, <1>6, <2>2, MarkSubtree
        <3> QED BY <1>5, <3>1
    <2>4. Gone(y1, p) => n = x.node[p]
        <3>1. x.node[p].policy # policy => n.history[1].state # NonExisting
            BY <1>0, TrimmedSound DEF n
        <3>2. x.node[p].policy = policy => n = x.node[p]
            BY DEF n, Trimmed
        <3> QED BY <1>5, <3>1, <3>2 DEF Gone
    <2>5. Noticed(x, y, p)
        <3>1. p \in y.flag \/ y1.node[p] = x.node[p]
            BY <1>0, <1>1, <1>12, <2>2, <2>4 DEF Removed
        <3>2. \A q \in Subtree(p) : q \in y.flag \/ y1.node[q] = x.node[q]
            BY <1>1, <3>1 DEF Subtree
        <3> QED BY <1>1, <2>3, <3>2 DEF Noticed
    <2> QED BY <1>4, <1>11, <2>3, <2>5 DEF y, n
<1> QED BY <1>9, <1>10, <1>11 DEF GoesAway

(* A missing path: what becomes of it and of everything below it.           *)
SearchedAt(x, p) ==
    Parent[p] = Root \/ ~ \/ x.hint[Parent[p]] = "directoryReplaced"
                          \/ Policy[Parent[p]] = "track" /\ Top(x, Parent[p]).type = "regular_file"

Dropped(x, p, n) ==
    \/ /\ n = x.node[p]
       /\ Parent[p] # Root /\ x.hint[Parent[p]] = "directoryReplaced"
       /\ Policy[Parent[p]] \notin {"none", "track"}
    \/ /\ n = x.node[p]
       /\ SearchedAt(x, p) /\ ~HasSearchNode(p)
       /\ Policy[Parent[p]] = "none" \/ p \in config.ignored
    \/ /\ n = Trimmed(x.node[p], Policy[p])
       /\ SearchedAt(x, p) /\ GoesAway(x, p, Policy[p])

Retained(x, p, n, extend) ==
    \/ /\ n = x.node[p] /\ Parent[p] # Root /\ ~SearchedAt(x, p)
       /\ IF x.hint[Parent[p]] = "directoryReplaced"
          THEN Policy[Parent[p]] \in {"none", "track"} /\ extend = (Policy[Parent[p]] = "track")
          ELSE /\ Policy[Parent[p]] = "track" /\ Top(x, Parent[p]).type = "regular_file"
               /\ extend = FALSE
    \/ /\ n = Trimmed(x.node[p], Policy[p]) /\ extend = TRUE
       /\ SearchedAt(x, p) /\ ~GoesAway(x, p, Policy[p])
       /\ HasSearchNode(p) \/ (Policy[Parent[p]] # "none" /\ p \notin config.ignored)

Missing(x, y, p) ==
    /\ Outside(x, y, p) /\ Noticed(x, y, p)
    /\ \E n : \/ Dropped(x, p, n) /\ Goes(x, y, p, n)
              \/ \E extend \in BOOLEAN : Retained(x, p, n, extend) /\ Stays(x, y, p, n, extend)

(* Without rules of its own a path has the policy of its directory.         *)
LEMMA InheritedPolicy ==
    ASSUME NEW p \in Paths, config \in Configs, ~HasSearchNode(p)
    PROVE \A q \in Subtree(p) : Policy[q] = Policy[Parent[p]]
<1>1. config.policy \in [Paths \cup {Root} -> Policies]
    BY ConfigAssumption
<1>2. \A q \in Paths : Policy[q] = IF config.policy[q] # "none" THEN config.policy[q] ELSE Policy[Parent[q]]
    BY <1>1, PolicyFacts DEF Policy
<1>3. \A q \in Subtree(p) : config.policy[q] = "none"
    BY DEF HasSearchNode
<1> DEFINE S == {q \in Paths : q \in Subtree(p) => Policy[q] = Policy[Parent[p]]}
<1>4. ASSUME NEW q \in Paths, Parent[q] = Root \/ Parent[q] \in S PROVE q \in S
    <2> SUFFICES ASSUME q \in Subtree(p) PROVE Policy[q] = Policy[Parent[p]]
        OBVIOUS
    <2>1. Policy[q] = Policy[Parent[q]]
        BY <1>2, <1>3
    <2>2. CASE q = p
        BY <2>1, <2>2
    <2>3. CASE q # p
        <3>1. p \in Trail(Parent[q])
            BY <2>3, TrailFacts
        <3>2. Parent[q] # Root /\ Parent[q] \in Paths
            BY <3>1, TrailFacts, TreeAssumption
        <3>3. Parent[q] \in Subtree(p)
            BY <3>1, <3>2, TrailFacts
        <3> QED BY <1>4, <2>1, <3>2, <3>3
    <2> QED BY <2>2, <2>3
<1>5. \A q \in Paths : q \in S
    <2>1. S \in SUBSET Paths
        OBVIOUS
    <2> HIDE DEF S
    <2> QED BY <1>4, <2>1, TreeInduction
<1> QED BY <1>5, SubtreeFacts

LEMMA HandleMissingEffect ==
    ASSUME NEW x \in Memory, Closed(x), AllSound(x), NEW p \in Live(x), run \in Runs,
           config \in Configs, x.hint[p] = "none", p \notin x.flag,
           Steady(p, x.node[p], Policy[p]),
           Policy[p] = "none" => \/ Childless(x, p)
                                 \/ Trimmed(x.node[p], Policy[p]).history[1].state.type = "directory"
    PROVE Missing(x, HandleMissing(x, p, Parent[p]), p)
<1> DEFINE y == HandleMissing(x, p, Parent[p])
<1>0. p \in Paths /\ p # Root /\ Parent[p] \in Paths \cup {Root} /\ Policy[p] \in Policies
    <2>1. p \in Paths
        BY DEF Live
    <2>2. config.policy \in [Paths \cup {Root} -> Policies]
        BY ConfigAssumption
    <2> QED BY <2>1, <2>2, PolicyFacts, TreeAssumption DEF Policy
<1>1. ASSUME NEW extend \in BOOLEAN, y = MarkAsRemoved(x, p, extend)
      PROVE Outside(x, y, p) /\ Noticed(x, y, p) /\ Stays(x, y, p, x.node[p], extend)
    <2> HIDE DEF y
    <2>1. Removed(x, y, p, extend)
        BY <1>0, <1>1, MarkAsRemovedEffect
    <2>2. y \in Memory
        BY <2>1 DEF Removed
    <2> QED BY <1>0, <2>1, <2>2, MarkSubtree
<1>2. ASSUME y = Wipe(x, Subtree(p))
      PROVE Outside(x, y, p) /\ Noticed(x, y, p) /\ Goes(x, y, p, x.node[p])
    <2> HIDE DEF y
    <2>1. Outside(x, y, p) /\ Goes(x, y, p, x.node[p])
        BY <1>0, <1>2, WipeSubtree
    <2> QED BY <2>1, GoesNoticed
<1>3. CASE ~SearchedAt(x, p)
    <2>1. Parent[p] # Root
        BY <1>3 DEF SearchedAt
    <2>2. CASE x.hint[Parent[p]] = "directoryReplaced" /\ Policy[Parent[p]] \in {"none", "track"}
        <3> DEFINE extend == (Policy[Parent[p]] = "track")
        <3>1. y = MarkAsRemoved(x, p, extend) /\ extend \in BOOLEAN
            BY <2>1, <2>2 DEF HandleMissing
        <3>2. Retained(x, p, x.node[p], extend)
            BY <1>3, <2>1, <2>2 DEF Retained
        <3> HIDE DEF extend, y
        <3> QED BY <1>1, <3>1, <3>2 DEF Missing, y
    <2>3. CASE x.hint[Parent[p]] = "directoryReplaced" /\ Policy[Parent[p]] \notin {"none", "track"}
        <3>1. y = Wipe(x, Subtree(p))
            BY <2>1, <2>3 DEF HandleMissing
        <3>2. Dropped(x, p, x.node[p])
            BY <2>1, <2>3 DEF Dropped
        <3> HIDE DEF y
        <3> QED BY <1>2, <3>1, <3>2 DEF Missing, y
    <2>4. CASE x.hint[Parent[p]] # "directoryReplaced"
        <3>1. Policy[Parent[p]] = "track" /\ Top(x, Parent[p]).type = "regular_file"
            BY <1>3, <2>1, <2>4 DEF SearchedAt
        <3>2. y = MarkAsRemoved(x, p, FALSE)
            BY <2>1, <2>4, <3>1 DEF HandleMissing
        <3>3. Retained(x, p, x.node[p], FALSE)
            BY <1>3, <2>1, <2>4, <3>1 DEF Retained
        <3> HIDE DEF y
        <3> QED BY <1>1, <3>2, <3>3 DEF Missing, y
    <2> QED BY <2>2, <2>3, <2>4
<1>4. CASE SearchedAt(x, p)
    <2>1. y = HandleNotFound(x, p)
        BY <1>4 DEF SearchedAt, HandleMissing
    <2>2. CASE ~HasSearchNode(p) /\ (Policy[Parent[p]] = "none" \/ p \in config.ignored)
        <3>1. y = Wipe(x, Subtree(p))
            <4> HIDE DEF y
            <4> QED BY <2>1, <2>2 DEF HandleNotFound
        <3>2. Dropped(x, p, x.node[p])
            BY <1>4, <2>2 DEF Dropped
        <3> HIDE DEF y
        <3> QED BY <1>2, <3>1, <3>2 DEF Missing, y
    <2>3. CASE HasSearchNode(p) \/ (Policy[Parent[p]] # "none" /\ p \notin config.ignored)
        <3>1. ~HasSearchNode(p) => Policy[p] = Policy[Parent[p]]
            BY <1>0, InheritedPolicy, SubtreeFacts
        <3>2. y = HandleRemovedPath(x, p, Policy[p])
            <4> HIDE DEF y
            <4> QED BY <2>1, <2>3, <3>1 DEF HandleNotFound
        <3> DEFINE n == Trimmed(x.node[p], Policy[p])
                   policy == Policy[p]
        <3>3. Outside(x, y, p) /\ Noticed(x, y, p)
              /\ IF GoesAway(x, p, policy) THEN Goes(x, y, p, n) ELSE Stays(x, y, p, n, TRUE)
            <4> HIDE DEF y
            <4> QED BY <1>0, <3>2, HandleRemovedPathEffect
        <3>4. IF GoesAway(x, p, policy) THEN Dropped(x, p, n) ELSE Retained(x, p, n, TRUE)
            <4>1. GoesAway(x, p, policy) => Dropped(x, p, n)
                BY <1>4 DEF Dropped
            <4>2. ~GoesAway(x, p, policy) => Retained(x, p, n, TRUE)
                BY <1>4, <2>3 DEF Retained
            <4> QED BY <4>1, <4>2
        <3> HIDE DEF y, n, policy
        <3> QED BY <3>3, <3>4 DEF Missing, y
    <2> QED BY <2>2, <2>3
<1> QED BY <1>3, <1>4 DEF y

-----------------------------------------------------------------------------
(* The steps of a search preserve the invariant.                            *)
LEMMA ConfigFacts ==
    ASSUME config \in Configs
    PROVE /\ config.policy \in [Paths \cup {Root} -> Policies]
          /\ config.ignored \subseteq Paths
          /\ Policy \in [Paths \cup {Root} -> Policies]
          /\ \A p \in Paths : /\ Policy[p] \in Policies
                              /\ config.policy[p] = "none" => Policy[p] = Policy[Parent[p]]
<1>1. config.policy \in [Paths \cup {Root} -> Policies] /\ config.ignored \subseteq Paths
    BY ConfigAssumption
<1>2. /\ Policy \in [Paths \cup {Root} -> Policies]
      /\ \A p \in Paths : Policy[p] = IF config.policy[p] # "none" THEN config.policy[p]
                                      ELSE Policy[Parent[p]]
    BY <1>1, PolicyFacts DEF Policy
<1> QED BY <1>1, <1>2

(* What depends on what has not changed is as it was.                       *)
Still(p) ==
    /\ HasSearchNode(p)' <=> HasSearchNode(p)
    /\ IsFound(p)' <=> IsFound(p)
    /\ Reported(p)' <=> Reported(p)
    /\ AlwaysTracked(p)' <=> AlwaysTracked(p)
    /\ TrackedNow(p)' <=> TrackedNow(p)
    /\ Keeps(p)' <=> Keeps(p)

LEMMA SameSearch ==
    ASSUME UNCHANGED <<saved, backups, config, found, log>>
    PROVE /\ run' = run /\ Policy' = Policy
          /\ \A p \in Paths : Still(p)
          /\ \A b : IsListed(b)' <=> IsListed(b)
<1>1. run' = run
    BY DEF run
<1>2. Policy' = Policy
    BY DEF Policy, PolicyOf
<1>3. \A p \in Paths \cup {Root} : HasSearchNode(p)' <=> HasSearchNode(p)
    BY DEF HasSearchNode
<1>4. \A p \in Paths : IsFound(p)' <=> IsFound(p)
    BY <1>2, <1>3 DEF IsFound
<1>5. \A p \in Paths : Reported(p)' <=> Reported(p)
    BY <1>4, TrailFacts DEF Reported
<1>6. \A p \in Paths : AlwaysTracked(p)' <=> AlwaysTracked(p)
    BY DEF AlwaysTracked, PolicyIn, PolicyOf
<1>7. \A p \in Paths : TrackedNow(p)' <=> TrackedNow(p)
    BY <1>2 DEF TrackedNow
<1>8. \A p \in Paths : Keeps(p)' <=> Keeps(p)
    BY <1>2 DEF Keeps
<1>9. \A b : IsListed(b)' <=> IsListed(b)
    BY DEF IsListed
<1>10. \A p \in Paths : Still(p)
    BY <1>3, <1>4, <1>5, <1>6, <1>7, <1>8 DEF Still
<1> QED BY <1>1, <1>2, <1>9, <1>10

LEMMA SameSaved ==
    ASSUME UNCHANGED <<saved, backups, log>>, SavedInv, LogInv, FullInv
    PROVE SavedInv' /\ LogInv' /\ FullInv'
<1>0. \A p : AlwaysTracked(p)' <=> AlwaysTracked(p)
    BY DEF AlwaysTracked, PolicyIn, PolicyOf
<1>1. SavedInv'
    <2>1. \A b : IsListed(b)' <=> IsListed(b)
        BY DEF IsListed
    <2> QED BY <2>1 DEF SavedInv
<1>2. LogInv'
    BY DEF LogInv
<1>3. FullInv'
    <2>1. \A p, b : /\ StateAt(p, b)' = StateAt(p, b)
                    /\ WasFound(p, b)' = WasFound(p, b)
        BY DEF StateAt, WasFound
    <2> QED BY <1>0, <2>1 DEF FullInv, TrackedHistoryIsFull
<1> QED BY <1>1, <1>2, <1>3

LEMMA RunFacts ==
    ASSUME BackupInv, pc # "idle"
    PROVE /\ SavedInv /\ LogInv /\ FullInv /\ SearchInv /\ pc \in {"search", "review"}
          /\ run \in Runs /\ run = Len(log) + 1 /\ Len(log) \in Nat
          /\ config \in Configs
          /\ m \in Memory /\ Closed(m) /\ Exact(m) /\ AllSound(m)
          /\ \A p \in Paths : saved[p] # None =>
                /\ Sound(p, saved[p]) /\ saved[p].history[1].backup < run
                /\ Exists(m, p) /\ Steady(p, saved[p], PolicyOf(log[Len(log)].config)[p])
                /\ log # <<>>
          /\ \A p \in Paths : found[p] # None =>
                /\ found[p] \in StatesAt[p]
                /\ \A q \in Trail(Parent[p]) : found[q] # None /\ found[q].type = "directory"
<1>1. SavedInv /\ LogInv /\ FullInv /\ SearchInv /\ pc \in {"search", "review"}
    BY DEF BackupInv
<1>2. RunInv /\ CountInv /\ NodeInv
    BY <1>1 DEF SearchInv
<1>3. Len(log) \in Nat /\ run = Len(log) + 1
    BY <1>1 DEF LogInv, run
<1>4. /\ run \in Runs /\ config \in Configs /\ found \in FileSystems
    BY <1>2 DEF RunInv
<1>5. m \in Memory /\ Closed(m) /\ Exact(m)
    BY <1>2 DEF CountInv, Closed, Exact
<1>6. AllSound(m)
    BY <1>2 DEF NodeInv, NodeFine, AllSound, Exists
<1>7. ASSUME NEW p \in Paths, saved[p] # None
      PROVE /\ Sound(p, saved[p]) /\ saved[p].history[1].backup < run
            /\ Exists(m, p) /\ Steady(p, saved[p], PolicyOf(log[Len(log)].config)[p])
            /\ log # <<>>
    <2>1. /\ Sound(p, saved[p]) /\ saved[p].history[1].backup <= Len(log)
          /\ Steady(p, saved[p], PolicyOf(log[Len(log)].config)[p])
          /\ log # <<>>
        BY <1>1, <1>7 DEF SavedInv
    <2>2. saved[p].history[1].backup \in Nat
        BY <2>1, SoundFacts DEF Runs
    <2>3. Exists(m, p)
        BY <1>2, <1>7 DEF NodeInv, NodeFine, Exists
    <2> QED BY <1>3, <2>1, <2>2, <2>3
<1>8. ASSUME NEW p \in Paths, found[p] # None
      PROVE /\ found[p] \in StatesAt[p]
            /\ \A q \in Trail(Parent[p]) : found[q] # None /\ found[q].type = "directory"
    BY <1>4, <1>8 DEF FileSystems
<1> QED BY <1>1, <1>3, <1>4, <1>5, <1>6, <1>7, <1>8

(* Where the search has not been, nothing has changed.                      *)
LEMMA AheadFacts ==
    ASSUME BackupInv, pc # "idle", NEW p \in Paths, place[p] = "ahead", AtParentOf(p)
    PROVE /\ \A q \in Trail(Parent[p]) : place[q] = "inside"
          /\ \A q \in Subtree(p) : /\ place[q] = "ahead" /\ Untouched(q)
                                   /\ m.node[q] = saved[q] /\ m.hint[q] = "none" /\ q \notin m.flag
<1>1. PlaceInv /\ UntouchedInv
    BY RunFacts DEF SearchInv
<1>2. \A q \in Trail(Parent[p]) : place[q] = "inside"
    BY TrailFacts DEF AtParentOf, Trail
<1>3. ASSUME NEW q \in Subtree(p) PROVE place[q] = "ahead"
    <2>1. q \in Paths /\ p \in Trail(q)
        BY TrailFacts DEF Subtree
    <2>2. CASE q = p
        BY <2>2
    <2>3. CASE q # p
        <3>1. p \in Trail(Parent[q])
            BY <2>1, <2>3, TrailFacts
        <3>2. ~Reached(p)
            BY DEF Reached
        <3> QED BY <1>1, <2>1, <3>1, <3>2 DEF PlaceInv
    <2> QED BY <2>2, <2>3
<1>4. ASSUME NEW q \in Subtree(p) PROVE Untouched(q)
    <2>1. q \in Paths /\ p \in Trail(q)
        BY TrailFacts DEF Subtree
    <2>2. ASSUME NEW r \in Trail(q) PROVE place[r] # "missed"
        <3>0. r \in Paths
            BY <2>1, TrailFacts
        <3>1. r \in Trail(p) \/ p \in Trail(r)
            BY <2>1, TrailOrder
        <3>2. CASE r \in Trail(p)
            BY <3>2, <1>2, TrailFacts
        <3>3. CASE p \in Trail(r)
            <4>1. r \in Subtree(p)
                BY <3>0, <3>3, TrailFacts
            <4> QED BY <4>1, <1>3
        <3> QED BY <3>1, <3>2, <3>3
    <2> QED BY <1>3, <2>2 DEF Untouched, Handled
<1>5. \A q \in Subtree(p) : m.node[q] = saved[q] /\ m.hint[q] = "none" /\ q \notin m.flag
    <2>1. Subtree(p) \subseteq Paths
        BY DEF Subtree
    <2> QED BY <1>1, <1>4, <2>1 DEF UntouchedInv, UntouchedFine
<1> QED BY <1>2, <1>3, <1>4, <1>5

LEMMA LogFacts ==
    ASSUME LogInv
    PROVE /\ Len(log) \in Nat /\ DOMAIN log = 1 .. Len(log)
          /\ log # <<>> => Len(log) \in DOMAIN log
          /\ \A b \in DOMAIN log : /\ log[b].config \in Configs
                                 /\ log[b].found \in [Paths -> States \cup {None}]
<1> DEFINE R == [found: [Paths -> States \cup {None}], config: Configs]
<1>1. log \in Seq(R)
    BY DEF LogInv
<1>2. \A r \in R : r.config \in Configs /\ r.found \in [Paths -> States \cup {None}]
    OBVIOUS
<1> HIDE DEF R
<1>3. Len(log) \in Nat /\ DOMAIN log = 1 .. Len(log) /\ (log # <<>> => Len(log) # 0)
    BY <1>1
<1>4. \A b \in DOMAIN log : log[b] \in R
    BY <1>1
<1> QED BY <1>2, <1>3, <1>4

(* Nothing that may be replaced loses its policy or is no longer tracked.   *)
LEMMA SteadySaved ==
    ASSUME BackupInv, PoliciesStay, NEW c, c \in Configs,
           log # <<>> => MayFollow(log[Len(log)].config, c),
           NEW p \in Paths, saved[p] # None
    PROVE Steady(p, saved[p], PolicyOf(c)[p])
<1>1. /\ log # <<>> /\ Steady(p, saved[p], PolicyOf(log[Len(log)].config)[p])
    BY DEF BackupInv, SavedInv
<1>2. log[Len(log)].config \in Configs
    <2>1. LogInv
        BY DEF BackupInv
    <2> QED BY <1>1, <2>1, LogFacts
<1>3. MayFollow(log[Len(log)].config, c)
    BY <1>1
<1> QED BY <1>1, <1>2, <1>3 DEF Steady, PoliciesStay

(* A path without policy that had one is a directory, or nothing is in it.  *)
LEMMA WithoutPolicy ==
    ASSUME NEW p \in Paths, NEW n, Sound(p, n), Steady(p, n, "none"),
           n.policy = "none" => n.history[1].state.type = "directory"
    PROVE Children(p) = {} \/ Trimmed(n, "none").history[1].state.type = "directory"
<1> SUFFICES ASSUME Children(p) # {}, n.policy # "none"
             PROVE Trimmed(n, "none").history[1].state.type = "directory"
    BY DEF Trimmed
<1> DEFINE t == Trimmed(n, "none")
<1>1. \A s \in StatesAt[p] : s.type = "directory"
    BY DEF Steady, Replaceable
<1>2. Sound(p, t) /\ t.history[1].state # NonExisting
    BY TrimmedSound DEF Policies
<1>3. 1 \in DOMAIN t.history
    BY <1>2, SoundFacts
<1>4. t.history[1].state.type \in Kinds(p)
    BY <1>2, <1>3 DEF Sound
<1> QED BY <1>1, <1>4 DEF Kinds

(* A path that a step leaves alone. *)
Kept(q) == m'.node[q] = m.node[q] /\ m'.hint[q] = m.hint[q] /\ (q \in m'.flag <=> q \in m.flag)

LEMMA KeptFine ==
    ASSUME UNCHANGED <<saved, backups, config, found, log>>, NEW q \in Paths,
           Kept(q), place'[q] = place[q]
    PROVE /\ NodeFine(q) => NodeFine(q)'
          /\ ReachedFine(q) => ReachedFine(q)'
          /\ (Handled(q)' => Handled(q)) /\ MissedFine(q) => MissedFine(q)'
          /\ (Untouched(q)' => Untouched(q)) /\ UntouchedFine(q) => UntouchedFine(q)'
<1>1. run' = run /\ Policy' = Policy /\ Still(q) /\ \A b : IsListed(b)' <=> IsListed(b)
    BY SameSearch
<1>2. Reached(q)' <=> Reached(q)
    BY DEF Reached
<1>3. q \in Live(m)' <=> q \in Live(m)
    BY DEF Kept, Live, Exists
<1>4. Extended(q)' <=> Extended(q)
    BY <1>1 DEF Kept, Extended
<1>5. SameContent(q)' <=> SameContent(q)
    BY DEF Kept, SameContent
<1>6. NodeFine(q) => NodeFine(q)'
    BY <1>1, <1>2, <1>3, <1>4 DEF Kept, NodeFine, Still
<1>7. ReachedFine(q) => ReachedFine(q)'
    BY <1>1, <1>2, <1>5 DEF Kept, ReachedFine
<1>8. (Handled(q)' => Handled(q)) /\ MissedFine(q) => MissedFine(q)'
    BY <1>1 DEF Kept, MissedFine, Still
<1>9. (Untouched(q)' => Untouched(q)) /\ UntouchedFine(q) => UntouchedFine(q)'
    BY DEF Kept, UntouchedFine
<1> QED BY <1>6, <1>7, <1>8, <1>9

(* Metadata as they are loaded: every count is exact and nothing has a hint. *)
LEMMA LoadedFacts ==
    ASSUME NEW nodes \in [Paths -> Node \cup {None}]
    PROVE LET x == Loaded(nodes)
          IN /\ x \in Memory /\ Exact(x)
             /\ x.node = nodes /\ x.flag = {}
             /\ x.hint = [p \in Paths |-> "none"]
             /\ Live(x) = {p \in Paths : nodes[p] # None}
<1> DEFINE x == Loaded(nodes)
           L == {p \in Paths : nodes[p] # None}
<1>1. /\ x.node = nodes /\ x.flag = {} /\ x.hint = [p \in Paths |-> "none"]
      /\ x.refs = [b \in Runs |-> CountIn([node |-> nodes], L, b)]
    BY DEF Loaded
<1>2. Live(x) = L
    BY <1>1 DEF Live, Exists
<1>3. \A p \in L : nodes[p] \in Node
    OBVIOUS
<1>4. Histories([node |-> nodes], L)
    BY <1>3 DEF Histories, Node
<1>5. ASSUME NEW b \in Runs PROVE CountIn([node |-> nodes], L, b) \in Int
    BY <1>4, PointsFinite
<1>6. x \in Memory
    <2>1. x.refs \in [Runs -> Int]
        BY <1>1, <1>5
    <2>2. x.hint \in [Paths -> Hints] /\ x.flag \in SUBSET Paths
        BY <1>1 DEF Hints
    <2>3. x = [node |-> x.node, hint |-> x.hint, flag |-> x.flag, refs |-> x.refs]
        BY DEF Loaded
    <2> QED BY <1>1, <2>1, <2>2, <2>3 DEF Memory
<1>7. Exact(x)
    <2> SUFFICES ASSUME NEW b \in Runs PROVE x.refs[b] = CountIn(x, L, b)
        BY <1>2 DEF Exact
    <2>1. CountIn([node |-> nodes], L, b) = CountIn(x, L, b)
        BY <1>1, CountSame
    <2> QED BY <1>1, <2>1
<1> QED BY <1>1, <1>2, <1>6, <1>7

LEMMA InitInv ==
    ASSUME Init
    PROVE BackupInv
<1>1. /\ saved = NoNodes /\ backups = <<>> /\ config = None /\ found = NoNodes
      /\ place = [p \in Paths |-> "ahead"] /\ m = Loaded(NoNodes) /\ pc = "idle" /\ log = <<>>
    BY DEF Init
<1>2. SavedInv
    <2>1. saved \in [Paths -> Node \cup {None}] /\ backups \in Seq(Runs)
        BY <1>1 DEF NoNodes
    <2>2. \A p \in Paths : saved[p] = None
        BY <1>1 DEF NoNodes
    <2> QED BY <2>1, <2>2 DEF SavedInv
<1>3. LogInv
    <2> DEFINE R == [found: [Paths -> States \cup {None}], config: Configs]
    <2> HIDE DEF R
    <2>1. log \in Seq(R) /\ Len(log) = 0 /\ DOMAIN log = {}
        BY <1>1
    <2> QED BY <2>1, StatesAssumption DEF LogInv, R
<1>4. FullInv
    <2>1. DOMAIN log = {} /\ \A p \in Paths : saved[p] = None
        BY <1>1 DEF NoNodes
    <2> QED BY <2>1 DEF FullInv, TrackedHistoryIsFull
<1>5. IdleInv
    BY <1>1 DEF IdleInv
<1> QED BY <1>1, <1>2, <1>3, <1>4, <1>5 DEF BackupInv

LEMMA DiscardInv ==
    ASSUME BackupInv, Discard
    PROVE BackupInv'
<1>1. SavedInv' /\ LogInv' /\ FullInv'
    BY SameSaved DEF BackupInv, Discard
<1>2. pc' = "idle" /\ IdleInv'
    BY DEF Discard, NoSearch, IdleInv
<1> QED BY <1>1, <1>2 DEF BackupInv

(* A run in which only its stage changes. *)
LEMMA SameRun ==
    ASSUME BackupInv, pc # "idle", pc' \in {"search", "review"},
           UNCHANGED <<saved, backups, config, found, place, m, log>>,
           pc' = "review" => MissedOrBehind(Root)
    PROVE BackupInv'
<1>1. SavedInv' /\ LogInv' /\ FullInv'
    BY SameSaved DEF BackupInv
<1>2. /\ SearchInv /\ PlaceInv /\ NodeInv
    BY DEF BackupInv, SearchInv
<1>3. /\ run' = run /\ Policy' = Policy
      /\ \A p \in Paths : Still(p)
      /\ \A b : IsListed(b)' <=> IsListed(b)
    BY SameSearch
<1>4. \A p \in Paths : Handled(p)' <=> Handled(p)
    BY DEF Handled
<1>5. \A p \in Paths : Untouched(p)' <=> Untouched(p)
    BY <1>4 DEF Untouched
<1>6. \A p \in Paths : NodeFine(p)' /\ ReachedFine(p)' /\ MissedFine(p)' /\ UntouchedFine(p)'
    <2> TAKE p \in Paths
    <2>1. NodeFine(p) /\ ReachedFine(p) /\ MissedFine(p) /\ UntouchedFine(p)
        BY <1>2 DEF SearchInv, NodeInv, ReachedInv, MissedInv, UntouchedInv
    <2>2. Kept(p) /\ place'[p] = place[p]
        BY DEF Kept
    <2> QED BY <1>4, <1>5, <2>1, <2>2, KeptFine
<1>7. RunInv' /\ CountInv'
    <2>1. RunInv'
        BY <1>2, <1>3 DEF SearchInv, RunInv, FileSystems
    <2>2. CountInv'
        <3>1. m' = m
            OBVIOUS
        <3>2. Live(m)' = Live(m) /\ \A b : CountIn(m, Live(m), b)' = CountIn(m, Live(m), b)
            BY <3>1 DEF Live, Exists, CountIn, Points
        <3>3. CountInv
            BY <1>2 DEF SearchInv
        <3> QED BY <3>1, <3>2, <3>3 DEF CountInv
    <2> QED BY <2>1, <2>2
<1>8. PlaceInv'
    <2>1. \A p : MissedOrBehind(p) => MissedOrBehind(p)'
        BY <1>3 DEF MissedOrBehind, Still, Children
    <2>2. \A p \in Paths : Reached(p)' <=> Reached(p)
        BY DEF Reached
    <2>3. \A p \in Paths : Trail(Parent[p])' = Trail(Parent[p]) /\ Trail(Parent[p]) \subseteq Paths
        BY TrailFacts
    <2> QED BY <1>2, <1>3, <2>1, <2>2, <2>3 DEF PlaceInv, Still
<1> QED BY <1>1, <1>6, <1>7, <1>8
     DEF BackupInv, SearchInv, NodeInv, ReachedInv, MissedInv, UntouchedInv

LEMMA EndSearchInv ==
    ASSUME BackupInv, EndSearch
    PROVE BackupInv'
<1>1. /\ pc = "search" /\ pc' = "review" /\ AllHandled(Root)
      /\ UNCHANGED <<saved, backups, config, found, place, m, log>>
    BY DEF EndSearch
<1>2. NodeInv
    BY <1>1 DEF BackupInv, SearchInv
<1>3. MissedOrBehind(Root)
    BY <1>1, <1>2 DEF AllHandled, MissedOrBehind, NodeInv, NodeFine, Exists, Children
<1> QED BY <1>1, <1>3, SameRun

LEMMA StutterInv ==
    ASSUME BackupInv, UNCHANGED vars
    PROVE BackupInv'
<1>1. UNCHANGED <<saved, backups, config, found, place, m, pc, log>>
    BY DEF vars
<1>2. CASE pc = "idle"
    <2>1. SavedInv' /\ LogInv' /\ FullInv'
        BY <1>1, SameSaved DEF BackupInv
    <2> QED BY <1>1, <1>2, <2>1 DEF BackupInv, IdleInv
<1>3. CASE pc # "idle"
    <2>1. pc \in {"search", "review"} /\ (pc = "review" => MissedOrBehind(Root))
        BY <1>3 DEF BackupInv, SearchInv, PlaceInv
    <2> QED BY <1>1, <1>3, <2>1, SameRun
<1> QED BY <1>2, <1>3

LEMMA StartRunInv ==
    ASSUME BackupInv, PoliciesStay, StartRun
    PROVE BackupInv'
<1>0. /\ pc = "idle" /\ pc' = "search" /\ run <= MaxBackups
      /\ config' \in Configs /\ found' \in FileSystems
      /\ log # <<>> => MayFollow(Last(log).config, config')
      /\ m' = Loaded(saved) /\ place' = [p \in Paths |-> "ahead"]
      /\ UNCHANGED <<saved, backups, log>>
    BY DEF StartRun
<1>1. SavedInv /\ LogInv /\ FullInv
    BY DEF BackupInv
<1>2. SavedInv' /\ LogInv' /\ FullInv'
    BY <1>0, <1>1, SameSaved
<1>3. /\ run' = run /\ run \in Runs /\ run = Len(log) + 1 /\ Len(log) \in Nat
      /\ \A p \in Paths : AlwaysTracked(p)' <=> AlwaysTracked(p)
      /\ \A b : IsListed(b)' <=> IsListed(b)
    <2>1. Len(log) \in Nat
        BY <1>1, LogFacts
    <2>2. run' = run /\ run \in Runs /\ run = Len(log) + 1
        BY <1>0, <2>1 DEF run, Runs
    <2>3. \A p \in Paths : AlwaysTracked(p)' <=> AlwaysTracked(p)
        BY <1>0 DEF AlwaysTracked, PolicyIn, PolicyOf
    <2>4. \A b : IsListed(b)' <=> IsListed(b)
        BY <1>0 DEF IsListed
    <2> QED BY <2>1, <2>2, <2>3, <2>4
<1>4. /\ m' \in Memory /\ Exact(m)'
      /\ m'.node = saved /\ m'.flag = {}
      /\ m'.hint = [p \in Paths |-> "none"]
      /\ Live(m)' = {p \in Paths : saved[p] # None}
    <2>1. saved \in [Paths -> Node \cup {None}]
        BY <1>1 DEF SavedInv
    <2>2. Exact(Loaded(saved)) => Exact(m)'
        BY <1>0 DEF Exact, CountIn, Points, Live, Exists
    <2>3. Live(m)' = Live(Loaded(saved))
        BY <1>0 DEF Live, Exists
    <2> QED BY <1>0, <2>1, <2>2, <2>3, LoadedFacts
<1>5. \A p \in Paths : place'[p] = "ahead" /\ ~Reached(p)' /\ ~Handled(p)'
    <2>1. \A p \in Paths : place'[p] = "ahead"
        BY <1>0
    <2> QED BY <2>1, TrailFacts DEF Reached, Handled
<1>6. RunInv'
    <2>1. log # <<>> => Last(log) = log[Len(log)]
        BY DEF Last
    <2> QED BY <1>0, <1>3, <2>1 DEF RunInv, FileSystems
<1>7. PlaceInv'
    <2>1. place' \in [Paths -> {"ahead", "inside", "behind", "missed"}]
        BY <1>0
    <2> QED BY <1>0, <1>5, <2>1 DEF PlaceInv
<1>8. CountInv'
    <2>1. \A p \in Paths : saved[p] # None => \A q \in Trail(p) : q \in Paths /\ saved[q] # None
        BY <1>1, TrailFacts DEF SavedInv
    <2>2. \A p \in Live(m)' : \A q \in Trail(p) : q \in Live(m)'
        BY <1>4, <2>1
    <2> QED BY <1>4, <2>2 DEF CountInv, Exact
<1>9. NodeInv'
    <2>1. ASSUME NEW p \in Paths, saved[p] # None PROVE NodeFine(p)'
        <3>1. /\ Sound(p, saved[p]) /\ saved[p].history[1].backup <= Len(log)
              /\ \A i \in DOMAIN saved[p].history : IsListed(saved[p].history[i].backup)
              /\ saved[p].policy = "none" => saved[p].history[1].state.type = "directory"
            BY <1>1, <2>1 DEF SavedInv
        <3>2. saved[p].history[1].backup <= run
            <4>1. saved[p].history[1].backup \in Nat
                BY <3>1, SoundFacts DEF Runs
            <4> QED BY <4>1, <3>1, <1>3
        <3>3. Steady(p, saved[p], Policy'[p])
            <4>1. log # <<>> => MayFollow(log[Len(log)].config, config')
                BY <1>0 DEF Last
            <4>2. Policy' = PolicyOf(config')
                BY DEF Policy, PolicyOf
            <4> QED BY <1>0, <2>1, <4>1, <4>2, SteadySaved
        <3>4. AlwaysTracked(p) => saved[p].policy = "track"
            BY <1>1, <2>1 DEF FullInv
        <3>5. Extended(p)'
            BY <1>0, <1>4 DEF Extended
        <3> QED BY <1>0, <1>3, <1>4, <2>1, <3>1, <3>2, <3>3, <3>4, <3>5 DEF NodeFine
    <2>2. ASSUME NEW p \in Paths, saved[p] = None PROVE NodeFine(p)'
        BY <1>0, <1>4, <2>2 DEF NodeFine
    <2> QED BY <2>1, <2>2 DEF NodeInv
<1>10. UntouchedInv' /\ ReachedInv' /\ MissedInv'
    <2>1. \A p \in Paths : UntouchedFine(p)'
        BY <1>0, <1>4 DEF UntouchedFine
    <2>2. \A p \in Paths : ReachedFine(p)'
        BY <1>5 DEF ReachedFine
    <2>3. \A p \in Paths : MissedFine(p)'
        BY <1>4, <1>5 DEF MissedFine
    <2> QED BY <2>1, <2>2, <2>3 DEF UntouchedInv, ReachedInv, MissedInv
<1> QED BY <1>0, <1>2, <1>6, <1>7, <1>8, <1>9, <1>10 DEF BackupInv, SearchInv

(* A step of the search that leaves all but some nodes as they are.         *)
LEMMA StepOfSearch ==
    ASSUME BackupInv, pc = "search", pc' = "search",
           UNCHANGED <<saved, backups, config, found, log>>,
           PlaceInv', m' \in Memory, Exact(m)', Closed(m)',
           NEW ps \in SUBSET Paths,
           \A q \in ps : NodeFine(q)' /\ ReachedFine(q)' /\ MissedFine(q)' /\ UntouchedFine(q)',
           \A q \in Paths \ ps : /\ Kept(q) /\ place'[q] = place[q]
                                 /\ Handled(q)' => Handled(q)
                                 /\ Untouched(q)' => Untouched(q)
    PROVE BackupInv'
<1>1. SavedInv' /\ LogInv' /\ FullInv' /\ SearchInv
    BY SameSaved DEF BackupInv
<1>2. RunInv' /\ CountInv'
    <2>1. run' = run
        BY SameSearch
    <2> QED BY <1>1, <2>1 DEF SearchInv, RunInv, FileSystems, CountInv, Exact, Closed
<1>3. ASSUME NEW q \in Paths
      PROVE NodeFine(q)' /\ ReachedFine(q)' /\ MissedFine(q)' /\ UntouchedFine(q)'
    <2>1. CASE q \in ps
        BY <2>1
    <2>2. CASE q \notin ps
        <3>1. NodeFine(q) /\ ReachedFine(q) /\ MissedFine(q) /\ UntouchedFine(q)
            BY <1>1 DEF SearchInv, NodeInv, ReachedInv, MissedInv, UntouchedInv
        <3>2. /\ Kept(q) /\ place'[q] = place[q]
              /\ Handled(q)' => Handled(q)
              /\ Untouched(q)' => Untouched(q)
            BY <2>2
        <3> QED BY <3>1, <3>2, KeptFine
    <2> QED BY <2>1, <2>2
<1> QED BY <1>1, <1>2, <1>3 DEF BackupInv, SearchInv, NodeInv, ReachedInv, MissedInv, UntouchedInv

(* One path is another part of the search. *)
LEMMA PlaceStep ==
    ASSUME PlaceInv, pc' = "search", UNCHANGED <<saved, backups, config, found, log>>,
           NEW p \in Paths, NEW v \in {"inside", "behind", "missed"},
           place' = [place EXCEPT ![p] = v],
           Reached(p) => v = "behind",
           Parent[p] # Root => place[Parent[p]] # "behind",
           \A q \in Trail(Parent[p]) : Reached(q),
           v \in {"inside", "behind"} => Reported(p),
           v = "missed" => ~IsFound(p) /\ saved[p] # None,
           v = "behind" => MissedOrBehind(p)
    PROVE PlaceInv'
<1>1. place \in [Paths -> {"ahead", "inside", "behind", "missed"}]
    BY DEF PlaceInv
<1>2. /\ place' \in [Paths -> {"ahead", "inside", "behind", "missed"}]
      /\ place'[p] = v /\ \A q \in Paths \ {p} : place'[q] = place[q]
    BY <1>1
<1>3. \A q \in Paths : Reached(q) => Reached(q)'
    BY <1>2 DEF Reached
<1>4. \A q \in Paths : Still(q)
    BY SameSearch
<1>5. ASSUME NEW q \in Paths, p \notin Children(q), MissedOrBehind(q) PROVE MissedOrBehind(q)'
    <2>1. \A c \in Children(q) : c \in Paths /\ c # p
        BY <1>5 DEF Children
    <2>2. Children(q)' = Children(q)
        BY DEF Children
    <2> QED BY <1>2, <1>4, <1>5, <2>1, <2>2 DEF MissedOrBehind, Still
<1>6. \A q \in Paths : Trail(Parent[q]) \subseteq Paths
    BY TrailFacts
<1>7. ASSUME NEW q \in Paths
      PROVE /\ place'[q] # "ahead" => \A r \in Trail(Parent[q]) : Reached(r)'
            /\ Reached(q)' => Reported(q)'
            /\ place'[q] = "missed" => ~IsFound(q)' /\ saved'[q] # None
            /\ place'[q] = "behind" => MissedOrBehind(q)'
    <2>1. CASE q = p
        <3>1. p \notin Children(p)
            BY TrailFacts, TrailAcyclic DEF Children
        <3>2. place'[q] = "behind" => MissedOrBehind(q)'
            BY <1>2, <1>5, <2>1, <3>1
        <3> QED BY <1>2, <1>3, <1>4, <1>6, <2>1, <3>2 DEF Still, Reached
    <2>2. CASE q # p
        <3>1. place'[q] = place[q] /\ (Reached(q)' <=> Reached(q))
            BY <1>2, <2>2 DEF Reached
        <3>2. place[q] # "ahead" => \A r \in Trail(Parent[q]) : Reached(r)
            BY DEF PlaceInv
        <3>3. Reached(q) => Reported(q)
            BY DEF PlaceInv
        <3>4. place[q] = "missed" => ~IsFound(q) /\ saved[q] # None
            BY DEF PlaceInv
        <3>5. ASSUME place[q] = "behind" PROVE p \notin Children(q)
            <4>1. SUFFICES ASSUME Parent[p] = q PROVE FALSE
                BY DEF Children
            <4> QED BY <3>5, <4>1, TreeAssumption
        <3>6. place[q] = "behind" => MissedOrBehind(q)
            BY DEF PlaceInv
        <3> QED BY <1>3, <1>4, <1>5, <1>6, <3>1, <3>2, <3>3, <3>4, <3>5, <3>6 DEF Still
    <2> QED BY <2>1, <2>2
<1> QED BY <1>2, <1>7 DEF PlaceInv

(* What the search knows of a path that it is about to reach or to miss.    *)
LEMMA NextFacts ==
    ASSUME BackupInv, pc = "search", NEW p \in Paths, place[p] = "ahead", AtParentOf(p)
    PROVE /\ PlaceInv
          /\ \A q \in Trail(Parent[p]) : Reached(q) /\ Reported(q) /\ place[q] = "inside"
          /\ IsFound(p) => Reported(p) /\ found[p] \in StatesAt[p]
          /\ Parent[p] # Root => Parent[p] \in Paths /\ place[Parent[p]] = "inside"
<1>1. PlaceInv
    BY DEF BackupInv, SearchInv
<1>2. \A q \in Trail(Parent[p]) : place[q] = "inside"
    BY AheadFacts
<1>3. \A q \in Trail(Parent[p]) : q \in Paths
    BY TrailFacts
<1>4. \A q \in Trail(Parent[p]) : Reached(q) /\ Reported(q)
    BY <1>1, <1>2, <1>3 DEF PlaceInv, Reached
<1>5. \A q \in Paths : q \in Trail(q) /\ Trail(q) = {q} \cup Trail(Parent[q])
    BY TrailFacts
<1>6. IsFound(p) => Reported(p)
    BY <1>3, <1>4, <1>5 DEF Reported
<1>7. IsFound(p) => found[p] \in StatesAt[p]
    BY RunFacts DEF IsFound
<1>8. Parent[p] # Root => Parent[p] \in Trail(Parent[p])
    BY TrailFacts
<1> QED BY <1>1, <1>2, <1>3, <1>4, <1>6, <1>7, <1>8

(* The state that decides what has changed is the last one that was saved.  *)
LEMMA TrimmedLatest ==
    ASSUME NEW p \in Paths, NEW n, Sound(p, n), NEW policy,
           Trimmed(n, policy).history[1].state # NonExisting
    PROVE Trimmed(n, policy).history[1].state = LastState(n.history)
<1>1. Head(n.history) = n.history[1] /\ n.history # <<>>
    BY SoundFacts DEF Sound
<1>2. CASE n.policy = policy \/ n.policy # "track"
    BY <1>1, <1>2 DEF Trimmed, LastState, Latest
<1>3. CASE n.policy # policy /\ n.policy = "track"
    <2>1. Trimmed(n, policy).history = <<Latest(n.history)>>
        BY <1>3 DEF Trimmed
    <2> QED BY <2>1 DEF LastState
<1> QED BY <1>2, <1>3

(* A path that the search has found: its node in memory.                    *)
FoundIn(x, y, p, policy, state) ==
    IF Exists(x, p)
    THEN Brought(x, y, p, policy, state) /\ Told(x, y, p)
    ELSE /\ y.hint[p] = "added"
         /\ y.node[p] = [policy |-> policy, history |-> <<[backup |-> run, state |-> state]>>]

LEMMA ReachEffect ==
    ASSUME BackupInv, NEW p \in Paths, Reach(p)
    PROVE OnlyAt(m, m', p) /\ FoundIn(m, m', p, Policy[p], found[p])
<1>0. /\ pc = "search" /\ place[p] = "ahead" /\ IsFound(p) /\ AtParentOf(p)
      /\ m' = IF Exists(m, p) THEN HandleFoundNode(m, p, Policy[p], found[p])
              ELSE AddNode(m, p, Policy[p], found[p])
    BY DEF Reach
<1>1. found[p] \in StatesAt[p]
    BY <1>0, NextFacts
<1>2. m \in Memory /\ run \in Runs /\ Policy[p] \in Policies
    BY <1>0, RunFacts, ConfigFacts
<1>3. m.hint[p] = "none" /\ m.node[p] = saved[p]
    BY <1>0, AheadFacts, SubtreeFacts
<1>4. CASE Exists(m, p)
    <2>1. p \in Live(m)
        BY <1>3, <1>4 DEF Live
    <2>2. saved[p] # None
        BY <1>3, <1>4 DEF Exists
    <2>3. Sound(p, m.node[p]) /\ m.node[p].history[1].backup < run
        BY <1>0, <1>3, <2>2, RunFacts
    <2>4. Steady(p, m.node[p], Policy[p])
        BY <1>0, <1>3, <2>2 DEF BackupInv, SearchInv, NodeInv, NodeFine
    <2>5. CASE Policy[p] = "track"
        BY <1>0, <1>1, <1>2, <1>3, <1>4, <2>1, <2>3, <2>5, FoundTracked DEF FoundIn
    <2>6. CASE Policy[p] # "track"
        BY <1>0, <1>1, <1>2, <1>3, <1>4, <2>1, <2>3, <2>4, <2>6, FoundUntracked DEF FoundIn
    <2> QED BY <2>5, <2>6
<1>5. CASE ~Exists(m, p)
    BY <1>0, <1>1, <1>2, <1>3, <1>5, AddNodeEffect DEF FoundIn
<1> QED BY <1>4, <1>5

(* Without policy a path that was saved is a directory when it is found.    *)
LEMMA FoundWithoutPolicy ==
    ASSUME BackupInv, pc # "idle", NEW p \in Paths, saved[p] # None, IsFound(p), Policy[p] = "none",
           Steady(p, saved[p], "none")
    PROVE Trimmed(saved[p], "none").history[1].state.type = "directory"
<1>1. config \in Configs
    BY RunFacts
<1>2. Sound(p, saved[p]) /\ (saved[p].policy = "none" => saved[p].history[1].state.type = "directory")
    BY DEF BackupInv, SavedInv
<1>3. Children(p) # {}
    <2> SUFFICES ASSUME Children(p) = {} PROVE FALSE
        OBVIOUS
    <2>1. Subtree(p) = {p}
        BY BelowNothing, SubtreeFacts DEF Below
    <2>2. CASE HasSearchNode(p)
        <3>1. config.policy[p] # "none"
            BY <2>1, <2>2 DEF HasSearchNode
        <3>2. config.policy \in [Paths \cup {Root} -> Policies]
            BY <1>1, ConfigFacts
        <3>3. Policy[p] = config.policy[p]
            BY <3>1, <3>2, PolicyFacts DEF Policy
        <3> QED BY <3>1, <3>3
    <2>3. CASE ~HasSearchNode(p)
        <3>1. Policy[p] = Policy[Parent[p]]
            BY <1>1, <2>3, InheritedPolicy, SubtreeFacts
        <3> QED BY <2>3, <3>1 DEF IsFound
    <2> QED BY <2>2, <2>3
<1> QED BY <1>2, <1>3, WithoutPolicy

LEMMA ReachedNode ==
    ASSUME BackupInv, NEW p \in Paths, Reach(p)
    PROVE NodeFine(p)'
<1>0. /\ pc = "search" /\ place[p] = "ahead" /\ IsFound(p) /\ AtParentOf(p)
      /\ place' = [place EXCEPT ![p] = "inside"]
      /\ UNCHANGED <<saved, backups, config, found, log>>
    BY DEF Reach
<1>1. OnlyAt(m, m', p) /\ FoundIn(m, m', p, Policy[p], found[p])
    BY ReachEffect
<1>2. /\ m \in Memory /\ run \in Runs /\ Policy[p] \in Policies /\ config \in Configs
      /\ found[p] \in StatesAt[p]
    BY <1>0, RunFacts, ConfigFacts, NextFacts
<1>3. m.node[p] = saved[p]
    BY <1>0, AheadFacts, SubtreeFacts
<1>4. /\ run' = run /\ Policy' = Policy /\ Still(p) /\ \A b : IsListed(b)' <=> IsListed(b)
    BY <1>0, SameSearch
<1>5. place'[p] = "inside" /\ Reached(p)'
    BY <1>0 DEF Reached, BackupInv, SearchInv, PlaceInv
<1>6. m'.node[p].policy = Policy[p]
    BY <1>1 DEF FoundIn, Brought
<1>7. AlwaysTracked(p)' /\ TrackedNow(p)' => m'.node[p].policy = "track"
    BY <1>4, <1>6, TrailFacts DEF Still, TrackedNow
<1>8. Steady(p, m'.node[p], Policy'[p])
    BY <1>4, <1>6 DEF Steady
<1>9. CASE saved[p] = None
    <2>1. /\ m'.hint[p] = "added"
          /\ m'.node[p] = [policy |-> Policy[p], history |-> <<[backup |-> run, state |-> found[p]]>>]
        BY <1>1, <1>3, <1>9 DEF FoundIn, Exists
    <2>2. Sound(p, m'.node[p])
        BY <1>2, <2>1, SingleSound, StateFacts
    <2>3. /\ Len(m'.node[p].history) = 1 /\ m'.node[p].history[1].backup = run
          /\ DOMAIN m'.node[p].history = {1} /\ m'.node[p].history[1].state = found[p]
        BY <2>1
    <2>4. m'.node[p] # None
        BY <2>2, NodeFacts DEF Sound
    <2>5. m'.node[p].history[1].backup <= run
        BY <1>2, <2>3 DEF Runs
    <2>6. /\ \A i \in DOMAIN m'.node[p].history :
                m'.node[p].history[i].backup = run \/ IsListed(m'.node[p].history[i].backup)
          /\ \/ m'.node[p].history[1].state.type = "directory"
             \/ place'[p] = "inside" /\ found[p].type # "directory" /\ saved[p] = None
        BY <1>5, <1>9, <2>3
    <2> HIDE DEF Sound
    <2> QED BY <1>0, <1>4, <1>5, <1>7, <1>8, <1>9, <2>2, <2>3, <2>4, <2>5, <2>6 DEF NodeFine
<1>10. CASE saved[p] # None
    <2>1. Brought(m, m', p, Policy[p], found[p])
        BY <1>1, <1>3, <1>10 DEF FoundIn, Exists
    <2>2. /\ Sound(p, m'.node[p]) /\ m'.node[p].history[1].backup <= run
          /\ \A i \in DOMAIN m'.node[p].history :
                 \/ m'.node[p].history[i].backup = run
                 \/ \E j \in DOMAIN saved[p].history :
                        m'.node[p].history[i].backup = saved[p].history[j].backup
        BY <1>3, <2>1 DEF Brought
    <2>3. \A i \in DOMAIN m'.node[p].history :
                m'.node[p].history[i].backup = run \/ IsListed(m'.node[p].history[i].backup)
        BY <1>10, <2>2 DEF BackupInv, SavedInv
    <2>4. m'.node[p] # None
        BY <2>2, NodeFacts DEF Sound
    <2>5. saved[p].policy = "track" /\ m'.node[p].policy = "track" => Extended(p)'
        BY <1>0, <1>3, <1>4, <1>6, <2>1 DEF Brought, Extended
    <2>6. ASSUME m'.node[p].policy = "none"
          PROVE m'.node[p].history[1].state.type = "directory"
        <3>1. Policy[p] = "none"
            BY <1>6, <2>6
        <3>2. Steady(p, saved[p], "none")
            BY <1>0, <1>3, <1>10, <3>1 DEF BackupInv, SearchInv, NodeInv, NodeFine
        <3>3. Trimmed(saved[p], "none").history[1].state.type = "directory"
            BY <1>0, <1>10, <3>1, <3>2, FoundWithoutPolicy
        <3> QED BY <1>3, <2>1, <3>1, <3>3 DEF Brought
    <2> QED BY <1>0, <1>4, <1>5, <1>7, <1>8, <1>10, <2>2, <2>3, <2>4, <2>5, <2>6 DEF NodeFine
<1> QED BY <1>9, <1>10

LEMMA ReachedState ==
    ASSUME BackupInv, NEW p \in Paths, Reach(p)
    PROVE ReachedFine(p)'
<1>0. /\ pc = "search" /\ place[p] = "ahead" /\ IsFound(p) /\ AtParentOf(p)
      /\ UNCHANGED <<saved, backups, config, found, log>>
    BY DEF Reach
<1>1. OnlyAt(m, m', p) /\ FoundIn(m, m', p, Policy[p], found[p])
    BY ReachEffect
<1>2. found[p] \in StatesAt[p] /\ m.node[p] = saved[p] /\ Policy' = Policy
    BY <1>0, NextFacts, AheadFacts, SubtreeFacts, SameSearch
<1>3. m'.node[p] # None /\ m'.hint[p] # "wiped"
    BY <1>1 DEF OnlyAt, Live, Exists
<1>4. CASE saved[p] = None
    <2>1. /\ m'.hint[p] = "added"
          /\ m'.node[p] = [policy |-> Policy[p], history |-> <<[backup |-> run, state |-> found[p]]>>]
        BY <1>1, <1>2, <1>4 DEF FoundIn, Exists
    <2>2. m'.node[p].history[1].state = found[p] /\ m'.node[p].policy = Policy[p]
        BY <2>1
    <2>3. SameContent(p)'
        BY <1>0, <2>2 DEF SameContent
    <2> QED BY <1>0, <1>2, <1>3, <1>4, <2>1, <2>2, <2>3 DEF ReachedFine
<1>5. CASE saved[p] # None
    <2> DEFINE old == Trimmed(saved[p], Policy[p]).history[1].state
    <2>0. Sound(p, saved[p])
        BY <1>5 DEF BackupInv, SavedInv
    <2>1. Brought(m, m', p, Policy[p], found[p])
        BY <1>1, <1>2, <1>5 DEF FoundIn, Exists
    <2>2. /\ m'.node[p].policy = Policy[p]
          /\ m'.hint[p] = "directoryReplaced" <=> old.type = "directory" /\ found[p].type # "directory"
          /\ Policy[p] # "none" =>
               /\ Seen(m'.node[p].history[1].state) = Seen(found[p])
               /\ \/ m'.node[p].history[1].state.content = found[p].content
                  \/ old # NonExisting /\ LooksTheSame(old, found[p])
        BY <1>2, <2>1 DEF Brought
    <2>3. old # NonExisting => old = LastState(saved[p].history)
        BY <2>0, TrimmedLatest
    <2>4. Policy[p] # "none" => SameContent(p)'
        BY <1>0, <1>5, <2>2, <2>3 DEF SameContent
    <2>5. Policy[p] = "track" => old = saved[p].history[1].state
        BY DEF Trimmed
    <2> HIDE DEF old
    <2> QED BY <1>0, <1>2, <1>3, <2>2, <2>4, <2>5 DEF ReachedFine
<1> QED BY <1>4, <1>5

LEMMA ReachInv ==
    ASSUME BackupInv, NEW p \in Paths, Reach(p)
    PROVE BackupInv'
<1>0. /\ pc = "search" /\ pc' = "search" /\ place[p] = "ahead" /\ IsFound(p) /\ AtParentOf(p)
      /\ place' = [place EXCEPT ![p] = "inside"]
      /\ UNCHANGED <<saved, backups, config, found, log>>
    BY DEF Reach
<1>1. OnlyAt(m, m', p)
    BY ReachEffect
<1>2. /\ m \in Memory /\ Closed(m) /\ Exact(m)
    BY <1>0, RunFacts
<1>3. /\ PlaceInv /\ place \in [Paths -> {"ahead", "inside", "behind", "missed"}]
      /\ \A q \in Trail(Parent[p]) : Reached(q) /\ place[q] = "inside"
      /\ Reported(p) /\ (Parent[p] # Root => place[Parent[p]] = "inside")
    BY <1>0, NextFacts DEF PlaceInv
<1>4. place'[p] = "inside" /\ \A q \in Paths \ {p} : place'[q] = place[q]
    BY <1>0, <1>3
<1>5. PlaceInv'
    BY <1>0, <1>3, PlaceStep DEF Reached
<1>6. m' \in Memory /\ Exact(m)'
    BY <1>1, <1>2 DEF OnlyAt, Exact, CountIn, Points, Live, Exists
<1>7. Closed(m)'
    <2>1. \A q \in Trail(Parent[p]) : q \in Live(m)
        <3> TAKE q \in Trail(Parent[p])
        <3>1. q \in Paths
            BY TrailFacts
        <3>2. ReachedFine(q)
            BY <1>0, <3>1 DEF BackupInv, SearchInv, ReachedInv
        <3> QED BY <1>3, <3>1, <3>2 DEF ReachedFine, Live, Exists
    <2>2. Trail(p) = {p} \cup Trail(Parent[p])
        BY TrailFacts
    <2>3. Live(m') = Live(m) \cup {p}
        BY <1>1 DEF OnlyAt
    <2>4. \A q \in Live(m') : Trail(q) \subseteq Live(m')
        BY <1>2, <2>1, <2>2, <2>3 DEF Closed
    <2> QED BY <2>4 DEF Closed, Live, Exists
<1>8. MissedFine(p)'
    <2>1. m'.hint[p] # "wiped"
        BY <1>1 DEF OnlyAt, Live
    <2>2. ~Handled(p)'
        <3>1. \A q \in Trail(p) : q \in Paths /\ place'[q] # "missed"
            BY <1>3, <1>4, TrailFacts, TrailAcyclic
        <3> QED BY <3>1 DEF Handled
    <2> QED BY <1>4, <2>1, <2>2 DEF MissedFine
<1>9. UntouchedFine(p)'
    BY <1>4 DEF UntouchedFine, Untouched
<1>10. NodeFine(p)' /\ ReachedFine(p)'
    BY ReachedNode, ReachedState
<1>11. ASSUME NEW q \in Paths \ {p}
       PROVE /\ Kept(q) /\ place'[q] = place[q]
             /\ Handled(q)' => Handled(q)
             /\ Untouched(q)' => Untouched(q)
    <2>1. \A r \in Trail(q) : r \in Paths /\ (place'[r] = "missed" <=> place[r] = "missed")
        BY <1>0, <1>4, TrailFacts
    <2>2. Handled(q)' <=> Handled(q)
        BY <2>1 DEF Handled
    <2> QED BY <1>1, <1>4, <2>2 DEF OnlyAt, Kept, Untouched
<1>12. \A q \in {p} : NodeFine(q)' /\ ReachedFine(q)' /\ MissedFine(q)' /\ UntouchedFine(q)'
    BY <1>8, <1>9, <1>10
<1>13. \A q \in Paths \ {p} :
            /\ Kept(q) /\ place'[q] = place[q]
            /\ Handled(q)' => Handled(q)
            /\ Untouched(q)' => Untouched(q)
    BY <1>11
<1>14. {p} \in SUBSET Paths
    OBVIOUS
<1> QED BY <1>0, <1>5, <1>6, <1>7, <1>12, <1>13, <1>14, StepOfSearch

(* The search leaves a path: its node goes if it is not needed.             *)
Purged(x, p) == Policy[p] = "none" /\ \A q \in Children(p) : Exists(x, q) => x.hint[q] = "wiped"
Left(x, y, p) ==
    /\ y \in Memory /\ (Exact(x) => Exact(y))
    /\ y.node = x.node /\ y.flag = x.flag
    /\ \A q \in Paths \ {p} : y.hint[q] = x.hint[q]
    /\ IF Purged(x, p) THEN y.hint[p] = "wiped" /\ Live(y) = Live(x) \ {p}
       ELSE y.hint[p] \in {x.hint[p], "unchanged"} /\ Live(y) = Live(x)
    /\ x.hint[p] = "directoryReplaced" /\ ~Purged(x, p) => y.hint[p] = x.hint[p]
    /\ y.hint[p] = "unchanged" => x.hint[p] \in {"none", "unchanged"}

LEMMA LeaveEffect ==
    ASSUME NEW x \in Memory, NEW p \in Live(x)
    PROVE Left(x, MarkUnchanged(PurgeWithoutPolicy(x, p, Policy[p]), p), p)
<1>0. p \in Paths /\ Exists(x, p) /\ x.hint[p] # "wiped" /\ x.hint \in [Paths -> Hints]
    BY DEF Live, Memory
<1>1. CASE Purged(x, p)
    <2> DEFINE y == Wipe(x, {p})
    <2>1. /\ y \in Memory /\ y.node = x.node /\ y.flag = x.flag
          /\ \A q \in Paths : y.hint[q] = IF q \in {p} /\ Exists(x, q) THEN "wiped" ELSE x.hint[q]
          /\ Live(y) = Live(x) \ {p} /\ (Exact(x) => Exact(y))
        BY <1>0, WipeEffect
    <2>2. y.hint[p] = "wiped"
        BY <1>0, <2>1
    <2>3. PurgeWithoutPolicy(x, p, Policy[p]) = y
        BY <1>1 DEF PurgeWithoutPolicy, Purged
    <2> HIDE DEF y
    <2>4. MarkUnchanged(y, p) = y
        BY <2>2 DEF MarkUnchanged
    <2> QED BY <1>0, <1>1, <2>1, <2>2, <2>3, <2>4 DEF Left
<1>2. CASE ~Purged(x, p)
    <2>1. PurgeWithoutPolicy(x, p, Policy[p]) = x
        BY <1>2 DEF PurgeWithoutPolicy, Purged
    <2>2. CASE x.hint[p] = "none" /\ p \notin x.flag
        <3> DEFINE y == SetHint(x, p, "unchanged")
        <3>1. MarkUnchanged(x, p) = y
            BY <2>2 DEF MarkUnchanged
        <3>2. /\ y \in Memory /\ y.node = x.node /\ y.flag = x.flag
              /\ y.hint = [x.hint EXCEPT ![p] = "unchanged"]
              /\ Live(y) = Live(x) /\ (Exact(x) => Exact(y))
            BY <1>0, SetHintEffect DEF Hints
        <3> HIDE DEF y
        <3>3. y.hint[p] = "unchanged" /\ \A q \in Paths \ {p} : y.hint[q] = x.hint[q]
            BY <1>0, <3>2
        <3> QED BY <1>2, <2>1, <2>2, <3>1, <3>2, <3>3 DEF Left
    <2>3. CASE ~(x.hint[p] = "none" /\ p \notin x.flag)
        <3>1. MarkUnchanged(x, p) = x
            BY <2>3 DEF MarkUnchanged
        <3> QED BY <1>2, <2>1, <3>1 DEF Left
    <2> QED BY <2>2, <2>3
<1> QED BY <1>1, <1>2

LEMMA LeaveFacts ==
    ASSUME BackupInv, NEW p \in Paths, Leave(p)
    PROVE /\ pc = "search" /\ pc' = "search" /\ place[p] = "inside"
          /\ place' = [place EXCEPT ![p] = "behind"]
          /\ place'[p] = "behind" /\ \A q \in Paths \ {p} : place'[q] = place[q]
          /\ UNCHANGED <<saved, backups, config, found, log>>
          /\ PlaceInv /\ Reached(p) /\ IsFound(p) /\ Reported(p)
          /\ \A q \in Trail(Parent[p]) : Reached(q)
          /\ NodeFine(p) /\ ReachedFine(p) /\ p \in Live(m)
          /\ Left(m, m', p)
<1>0. /\ pc = "search" /\ pc' = "search" /\ place[p] = "inside"
      /\ place' = [place EXCEPT ![p] = "behind"]
      /\ m' = MarkUnchanged(PurgeWithoutPolicy(m, p, Policy[p]), p)
      /\ UNCHANGED <<saved, backups, config, found, log>>
    BY DEF Leave
<1>1. PlaceInv /\ NodeFine(p) /\ ReachedFine(p)
    BY <1>0 DEF BackupInv, SearchInv, NodeInv, ReachedInv
<1>2. place'[p] = "behind" /\ \A q \in Paths \ {p} : place'[q] = place[q]
    BY <1>0, <1>1 DEF PlaceInv
<1>3. Reached(p) /\ Reported(p) /\ \A q \in Trail(Parent[p]) : Reached(q)
    BY <1>0, <1>1 DEF PlaceInv, Reached
<1>4. IsFound(p)
    BY <1>3, TrailFacts DEF Reported
<1>5. p \in Live(m)
    BY <1>0, <1>1, <1>3 DEF ReachedFine, Live, Exists
<1>6. Left(m, m', p)
    BY <1>0, <1>5, RunFacts, LeaveEffect
<1> QED BY <1>0, <1>1, <1>2, <1>3, <1>4, <1>5, <1>6

(* A path without policy that is no directory is not kept. *)
LEMMA LeftNode ==
    ASSUME BackupInv, NEW p \in Paths, Leave(p)
    PROVE NodeFine(p)'
<1>0. /\ pc = "search" /\ place'[p] = "behind"
      /\ UNCHANGED <<saved, backups, config, found, log>>
      /\ NodeFine(p) /\ ReachedFine(p) /\ Reached(p) /\ Left(m, m', p) /\ PlaceInv
    BY LeaveFacts
<1>1. /\ run' = run /\ Policy' = Policy /\ Still(p) /\ \A b : IsListed(b)' <=> IsListed(b)
    BY <1>0, SameSearch
<1>2. m'.node = m.node
    BY <1>0 DEF Left
<1>3. ASSUME p \in Live(m'), m.node[p].policy = "none"
      PROVE m.node[p].history[1].state.type = "directory"
    <2> SUFFICES ASSUME m.node[p].history[1].state.type # "directory" PROVE FALSE
        OBVIOUS
    <2>1. p \in Live(m) /\ ~Purged(m, p)
        BY <1>0, <1>3 DEF Left
    <2>2. found[p].type # "directory" /\ saved[p] = None
        <3>1. m.node[p] # None
            BY <2>1 DEF Live, Exists
        <3>2. NodeFine(p)
            BY <1>0
        <3> QED BY <1>3, <2>1, <3>1, <3>2 DEF NodeFine
    <2>3. ASSUME NEW q \in Children(p) PROVE ~Exists(m, q)
        <3> SUFFICES ASSUME Exists(m, q) PROVE FALSE
            OBVIOUS
        <3>1. q \in Paths /\ Parent[q] = p /\ p \in Trail(Parent[q]) /\ p \in Trail(q)
            BY TrailFacts, TreeAssumption DEF Children
        <3>2. saved[q] # None \/ Reached(q)
            BY <1>0, <3>1 DEF BackupInv, SearchInv, NodeInv, NodeFine, Exists
        <3>3. CASE saved[q] # None
            BY <2>2, <3>1, <3>3 DEF BackupInv, SavedInv
        <3>4. CASE Reached(q)
            <4>1. Reported(q)
                BY <1>0, <3>1, <3>4 DEF PlaceInv
            <4>2. found[q] # None
                BY <3>1, <4>1, TrailFacts DEF Reported, IsFound
            <4> QED BY <1>0, <2>2, <3>1, <4>2, RunFacts
        <3> QED BY <3>2, <3>3, <3>4
    <2>4. Policy[p] = "none"
        BY <1>0, <1>3 DEF ReachedFine
    <2> QED BY <2>1, <2>3, <2>4 DEF Purged
<1>4. Extended(p)' <=> Extended(p)
    BY <1>0, <1>1, <1>2 DEF Extended
<1>5. Reached(p)' /\ Live(m)' = Live(m')
    BY <1>0 DEF Reached, Live, Exists
<1>6. p \in Live(m)' /\ m'.node[p].policy = "none" => m'.node[p].history[1].state.type = "directory"
    BY <1>2, <1>3, <1>5
<1> QED BY <1>0, <1>1, <1>2, <1>4, <1>5, <1>6 DEF NodeFine, Still

LEMMA LeaveInv ==
    ASSUME BackupInv, NEW p \in Paths, Leave(p)
    PROVE BackupInv'
<1>0. /\ pc = "search" /\ pc' = "search" /\ place[p] = "inside"
      /\ place' = [place EXCEPT ![p] = "behind"]
      /\ place'[p] = "behind" /\ \A q \in Paths \ {p} : place'[q] = place[q]
      /\ UNCHANGED <<saved, backups, config, found, log>>
      /\ PlaceInv /\ Reached(p) /\ IsFound(p) /\ Reported(p)
      /\ \A q \in Trail(Parent[p]) : Reached(q)
      /\ ReachedFine(p) /\ p \in Live(m)
      /\ Left(m, m', p)
    BY LeaveFacts
<1>1. AllHandled(p)
    BY DEF Leave
<1>2. m \in Memory /\ Closed(m) /\ Exact(m)
    BY <1>0, RunFacts
<1>3. run' = run /\ Policy' = Policy /\ Still(p)
    BY <1>0, SameSearch
<1>4. PlaceInv'
    <2>1. Parent[p] # Root => place[Parent[p]] # "behind"
        <3> SUFFICES ASSUME Parent[p] # Root, place[Parent[p]] = "behind" PROVE FALSE
            OBVIOUS
        <3>1. Parent[p] \in Paths /\ p \in Children(Parent[p])
            BY TreeAssumption DEF Children
        <3>2. MissedOrBehind(Parent[p])
            BY <1>0, <3>1 DEF PlaceInv
        <3> QED BY <1>0, <3>1, <3>2 DEF MissedOrBehind
    <2>2. MissedOrBehind(p)
        <3>1. \A q \in Children(p) : q \in Paths
            BY DEF Children
        <3>2. \A q \in Paths : saved[q] # None => Exists(m, q)
            BY <1>0, RunFacts
        <3> QED BY <1>1, <3>1, <3>2 DEF AllHandled, MissedOrBehind
    <2> QED BY <1>0, <2>1, <2>2, PlaceStep
<1>5. m' \in Memory /\ Exact(m)'
    BY <1>0, <1>2 DEF Left, Exact, CountIn, Points, Live, Exists
<1>6. Closed(m)'
    <2>1. CASE Purged(m, p)
        <3>1. Live(m') = Live(m) \ {p}
            BY <1>0, <2>1 DEF Left
        <3>2. ASSUME NEW q \in Live(m) \ {p} PROVE p \notin Trail(q)
            <4> SUFFICES ASSUME p \in Trail(q) PROVE FALSE
                OBVIOUS
            <4>1. q \in Paths /\ p \in Trail(Parent[q])
                BY TrailFacts DEF Live
            <4>2. PICK c \in Children(p) : c \in Trail(q)
                BY <4>1, WayDown
            <4>3. c \in Live(m)
                BY <1>2, <4>2 DEF Closed
            <4> QED BY <2>1, <4>3 DEF Purged, Live
        <3>3. \A q \in Live(m') : Trail(q) \subseteq Live(m')
            BY <1>2, <3>1, <3>2 DEF Closed
        <3> QED BY <3>3 DEF Closed, Live, Exists
    <2>2. CASE ~Purged(m, p)
        <3>1. Live(m') = Live(m)
            BY <1>0, <2>2 DEF Left
        <3>2. \A q \in Live(m') : Trail(q) \subseteq Live(m')
            BY <1>2, <3>1 DEF Closed
        <3> QED BY <3>2 DEF Closed, Live, Exists
    <2> QED BY <2>1, <2>2
<1>7. ReachedFine(p)'
    <2>1. m'.node = m.node /\ (m'.hint[p] = "wiped" => Policy[p] = "none")
        BY <1>0 DEF Left, Purged, Live
    <2>2. SameContent(p)' <=> SameContent(p)
        BY <1>0, <2>1 DEF SameContent
    <2>3. /\ m'.hint[p] = "directoryReplaced" => m.hint[p] = "directoryReplaced"
          /\ Policy[p] = "track" /\ m'.hint[p] # "directoryReplaced"
             => m.hint[p] # "directoryReplaced"
        BY <1>0 DEF Left, Purged
    <2> QED BY <1>0, <1>3, <2>1, <2>2, <2>3 DEF ReachedFine
<1>8. MissedFine(p)'
    <2>1. Keeps(p) => Policy[p] # "none"
        BY DEF Keeps
    <2>2. Keeps(p)' => m'.hint[p] # "wiped"
        BY <1>0, <1>3, <2>1 DEF Left, Purged, Live, Still
    <2>3. ~Handled(p)'
        <3>1. \A q \in Trail(p) : q = p \/ (q \in Trail(Parent[p]) /\ q \in Paths /\ q # p)
            BY TrailFacts, TrailAcyclic
        <3>2. \A q \in Trail(p) : place'[q] # "missed"
            BY <1>0, <3>1 DEF Reached
        <3> QED BY <3>2 DEF Handled
    <2> QED BY <1>0, <2>2, <2>3 DEF MissedFine
<1>9. UntouchedFine(p)'
    BY <1>0 DEF UntouchedFine, Untouched
<1>10. ASSUME NEW q \in Paths \ {p}
       PROVE /\ Kept(q) /\ place'[q] = place[q]
             /\ Handled(q)' => Handled(q)
             /\ Untouched(q)' => Untouched(q)
    <2>1. \A r \in Trail(q) : r \in Paths /\ (place'[r] = "missed" <=> place[r] = "missed")
        BY <1>0, TrailFacts
    <2>2. Handled(q)' <=> Handled(q)
        BY <2>1 DEF Handled
    <2> QED BY <1>0, <2>2 DEF Left, Kept, Untouched
<1>11. \A q \in {p} : NodeFine(q)' /\ ReachedFine(q)' /\ MissedFine(q)' /\ UntouchedFine(q)'
    BY <1>7, <1>8, <1>9, LeftNode
<1>12. \A q \in Paths \ {p} :
            /\ Kept(q) /\ place'[q] = place[q]
            /\ Handled(q)' => Handled(q)
            /\ Untouched(q)' => Untouched(q)
    BY <1>10
<1>13. {p} \in SUBSET Paths
    OBVIOUS
<1> QED BY <1>0, <1>4, <1>5, <1>6, <1>11, <1>12, <1>13, StepOfSearch

(* What a missing path and the paths below it are like before it is handled. *)
LEMMA MissFacts ==
    ASSUME BackupInv, NEW p \in Paths, Miss(p)
    PROVE /\ pc = "search" /\ pc' = "search" /\ place[p] = "ahead" /\ AtParentOf(p) /\ ~IsFound(p)
          /\ place' = [place EXCEPT ![p] = "missed"]
          /\ place'[p] = "missed" /\ \A q \in Paths \ {p} : place'[q] = place[q]
          /\ UNCHANGED <<saved, backups, config, found, log>>
          /\ saved[p] # None
          /\ \A q \in Subtree(p) : q \in Paths /\ m.node[q] = saved[q] /\ place[q] = "ahead"
                                   /\ (q \in Live(m) <=> saved[q] # None)
          /\ Steady(p, saved[p], Policy[p])
          /\ Sound(p, saved[p])
          /\ saved[p].policy = "none" => saved[p].history[1].state.type = "directory"
          /\ Missing(m, m', p)
<1>0. /\ pc = "search" /\ pc' = "search" /\ place[p] = "ahead" /\ AtParentOf(p) /\ ~IsFound(p)
      /\ place' = [place EXCEPT ![p] = "missed"]
      /\ UNCHANGED <<saved, backups, config, found, log>>
      /\ Exists(m, p) /\ m' = HandleMissing(m, p, Parent[p])
    BY DEF Miss
<1>1. PlaceInv /\ NodeFine(p)
    BY <1>0 DEF BackupInv, SearchInv, NodeInv
<1>2. place'[p] = "missed" /\ \A q \in Paths \ {p} : place'[q] = place[q]
    BY <1>0, <1>1 DEF PlaceInv
<1>3. \A q \in Subtree(p) : /\ q \in Paths /\ m.node[q] = saved[q] /\ m.hint[q] = "none"
                            /\ place[q] = "ahead" /\ q \notin m.flag
    BY <1>0, AheadFacts, SubtreeFacts
<1>4. m.node[p] = saved[p] /\ m.hint[p] = "none" /\ p \notin m.flag /\ saved[p] # None
    BY <1>0, <1>3, SubtreeFacts DEF Exists
<1>5. \A q \in Subtree(p) : q \in Live(m) <=> saved[q] # None
    BY <1>3 DEF Live, Exists
<1>6. Steady(p, saved[p], Policy[p])
    BY <1>1, <1>4 DEF NodeFine
<1>7. Sound(p, saved[p]) /\ (saved[p].policy = "none" => saved[p].history[1].state.type = "directory")
    BY <1>4 DEF BackupInv, SavedInv
<1>8. Policy[p] = "none" => \/ Childless(m, p)
                            \/ Trimmed(m.node[p], Policy[p]).history[1].state.type = "directory"
    BY <1>4, <1>6, <1>7, WithoutPolicy DEF Childless
<1>9. Missing(m, m', p)
    <2>1. m \in Memory /\ Closed(m) /\ AllSound(m) /\ run \in Runs /\ config \in Configs
        BY <1>0, RunFacts
    <2>2. p \in Live(m)
        BY <1>4, <1>5, SubtreeFacts
    <2> QED BY <1>0, <1>4, <1>6, <1>8, <2>1, <2>2, HandleMissingEffect
<1> QED BY <1>0, <1>2, <1>3, <1>4, <1>5, <1>6, <1>7, <1>9

(* The last backup of a path that has always been tracked. *)
LEMMA LastSeen ==
    ASSUME BackupInv, NEW q \in Paths, saved[q] # None, AlwaysTracked(q)
    PROVE /\ Len(log) \in DOMAIN log
          /\ Seen(saved[q].history[1].state) = Seen(WasFound(q, Len(log)))
<1>1. /\ log # <<>> /\ Sound(q, saved[q]) /\ saved[q].history[1].backup <= Len(log)
      /\ LogInv /\ FullInv
    BY DEF BackupInv, SavedInv
<1>2. Len(log) \in DOMAIN log
    BY <1>1, LogFacts
<1> DEFINE older == {i \in DOMAIN saved[q].history : saved[q].history[i].backup <= Len(log)}
<1>3. DOMAIN saved[q].history = 1 .. Len(saved[q].history) /\ Len(saved[q].history) \in Nat \ {0}
    BY <1>1, SoundFacts
<1>4. 1 \in older /\ \A i \in older : 1 <= i /\ i \in Int
    BY <1>1, <1>3
<1>5. Min(older) = 1
    BY <1>4 DEF Min
<1>6. StateAt(q, Len(log)) = saved[q].history[1].state
    BY <1>4, <1>5 DEF StateAt
<1>7. Seen(StateAt(q, Len(log))) = Seen(WasFound(q, Len(log)))
    BY <1>1, <1>2 DEF FullInv, TrackedHistoryIsFull
<1> QED BY <1>2, <1>6, <1>7

(* Nothing is recorded below a directory that was no directory any more.    *)
LEMMA GoneAlready ==
    ASSUME BackupInv, NEW q \in Paths, saved[q] # None, AlwaysTracked(q),
           NEW r \in Trail(Parent[q]), saved[r].history[1].state.type # "directory"
    PROVE saved[q].history[1].state = NonExisting
<1>1. r \in Paths /\ r \in Trail(q) /\ Trail(r) \subseteq Trail(q)
    BY TrailFacts, TrailTransitive
<1>2. saved[r] # None /\ AlwaysTracked(r)
    BY <1>1 DEF BackupInv, SavedInv, AlwaysTracked
<1> DEFINE b == Len(log)
<1>3. /\ b \in DOMAIN log
      /\ Seen(saved[r].history[1].state) = Seen(WasFound(r, b))
      /\ Seen(saved[q].history[1].state) = Seen(WasFound(q, b))
    BY <1>1, <1>2, LastSeen
<1> HIDE DEF b
<1>4. WasFound(r, b).type # "directory"
    BY <1>3 DEF Seen
<1>5. log[b].found[q] = None
    BY <1>3, <1>4 DEF BackupInv, LogInv, WasFound
<1>6. saved[q].history[1].state.type = "non_existing"
    BY <1>3, <1>5 DEF WasFound, Seen, NonExisting
<1>7. saved[q].history[1].state \in Mixed \cup {NonExisting}
    <2>1. Sound(q, saved[q])
        BY DEF BackupInv, SavedInv
    <2>2. saved[q].history[1] \in Point
        BY <2>1, SoundFacts
    <2> QED BY <2>2 DEF Point
<1> QED BY <1>6, <1>7, StateFacts

(* A node that is missing, before its removal is recorded. *)
BaseOf(q, b) ==
    /\ Sound(q, b) /\ b.history[1].backup < run
    /\ \A i \in DOMAIN b.history : IsListed(b.history[i].backup)
    /\ Steady(q, b, Policy[q])
    /\ saved[q].policy = "track" /\ b.policy = "track" => b = saved[q]
    /\ AlwaysTracked(q) /\ TrackedNow(q) => b = saved[q] /\ b.policy = "track"

LEMMA BaseFacts ==
    ASSUME BackupInv, NEW p \in Paths, Miss(p),
           NEW n, n = m.node[p] \/ n = Trimmed(m.node[p], Policy[p]),
           NEW q \in Subtree(p), saved[q] # None
    PROVE BaseOf(q, Base(m, p, n, q))
<1>0. /\ pc = "search" /\ q \in Paths /\ m.node[q] = saved[q] /\ m.node[p] = saved[p]
    BY MissFacts, SubtreeFacts
<1>1. BaseOf(q, saved[q])
    <2>1. Sound(q, saved[q]) /\ saved[q].history[1].backup < run
        BY <1>0, RunFacts
    <2>2. \A i \in DOMAIN saved[q].history : IsListed(saved[q].history[i].backup)
        BY <1>0 DEF BackupInv, SavedInv
    <2>3. Steady(q, saved[q], Policy[q])
        BY <1>0 DEF BackupInv, SearchInv, NodeInv, NodeFine
    <2>4. AlwaysTracked(q) => saved[q].policy = "track"
        BY <1>0 DEF BackupInv, FullInv
    <2> QED BY <2>1, <2>2, <2>3, <2>4 DEF BaseOf
<1>2. CASE q # p \/ n = m.node[p]
    BY <1>0, <1>1, <1>2 DEF Base
<1>3. CASE q = p /\ n = Trimmed(m.node[p], Policy[p])
    <2> DEFINE t == Trimmed(saved[p], Policy[p])
    <2>0. BaseOf(p, saved[p]) /\ saved[p] # None
        BY <1>1, <1>3
    <2>1. Policy[p] \in Policies /\ run \in Nat
        BY <1>0, RunFacts, ConfigFacts DEF Runs
    <2>2. Sound(p, saved[p])
        BY <2>0 DEF BaseOf
    <2>3. /\ Sound(p, t) /\ t.policy = Policy[p]
          /\ t.history[1].backup <= saved[p].history[1].backup
          /\ \A i \in DOMAIN t.history : \E j \in DOMAIN saved[p].history : t.history[i] = saved[p].history[j]
        BY <2>1, <2>2, TrimmedSound
    <2>4. t.history[1].backup < run
        <3>1. t.history[1].backup \in Nat /\ saved[p].history[1].backup \in Nat
            BY <2>2, <2>3, SoundFacts DEF Runs
        <3> QED BY <2>0, <2>1, <2>3, <3>1 DEF BaseOf
    <2>5. \A i \in DOMAIN t.history : IsListed(t.history[i].backup)
        BY <2>0, <2>3 DEF BaseOf
    <2>6. Steady(p, t, Policy[p])
        BY <2>3 DEF Steady
    <2>7. saved[p].policy = Policy[p] => t = saved[p]
        BY DEF Trimmed
    <2>8. TrackedNow(p) => Policy[p] = "track"
        BY TrailFacts DEF TrackedNow
    <2> HIDE DEF t
    <2>9. BaseOf(p, t)
        BY <2>0, <2>3, <2>4, <2>5, <2>6, <2>7, <2>8 DEF BaseOf
    <2> QED BY <1>0, <1>3, <2>9 DEF Base, t
<1> QED BY <1>2, <1>3

(* Either everything below a missing path goes, or nothing does.            *)
Vanishes(p, n) ==
    /\ n = m.node[p] \/ n = Trimmed(m.node[p], Policy[p])
    /\ Dropped(m, p, n) /\ Goes(m, m', p, n)
Remains(p, n, extend) ==
    /\ n = m.node[p] \/ n = Trimmed(m.node[p], Policy[p])
    /\ Retained(m, p, n, extend) /\ Stays(m, m', p, n, extend)

LEMMA MissCases ==
    ASSUME BackupInv, NEW p \in Paths, Miss(p)
    PROVE \E n : Vanishes(p, n) \/ \E extend \in BOOLEAN : Remains(p, n, extend)
<1>1. \A n : Dropped(m, p, n) => n = m.node[p] \/ n = Trimmed(m.node[p], Policy[p])
    BY DEF Dropped
<1>2. \A n, extend : Retained(m, p, n, extend) => n = m.node[p] \/ n = Trimmed(m.node[p], Policy[p])
    BY DEF Retained
<1>3. \E n : \/ Dropped(m, p, n) /\ Goes(m, m', p, n)
             \/ \E extend \in BOOLEAN : Retained(m, p, n, extend) /\ Stays(m, m', p, n, extend)
    BY MissFacts DEF Missing
<1> QED BY <1>1, <1>2, <1>3 DEF Vanishes, Remains

(* What stays in memory of a missing path. *)
LEMMA MissedHistory ==
    ASSUME BackupInv, NEW p \in Paths, Miss(p), NEW n,
           Vanishes(p, n) \/ \E extend \in BOOLEAN : Remains(p, n, extend),
           NEW q \in Subtree(p), saved[q] # None
    PROVE LET b == Base(m, p, n, q)
          IN /\ BaseOf(q, b)
             /\ \/ m'.node[q] = b
                \/ /\ m'.node[q] = Pushed(b, NonExisting)
                   /\ b.policy = "track" /\ b.history[1].state # NonExisting
             /\ q \in Live(m') /\ b.policy = "none" => b.history[1].state.type = "directory"
<1> DEFINE b == Base(m, p, n, q)
<1>0. /\ q \in Paths /\ m.node[q] = saved[q] /\ q \in Live(m) /\ m.node[p] = saved[p]
      /\ saved[p] # None /\ Steady(p, saved[p], Policy[p]) /\ Sound(p, saved[p])
      /\ saved[p].policy = "none" => saved[p].history[1].state.type = "directory"
    BY MissFacts, SubtreeFacts
<1>1. BaseOf(q, b)
    BY BaseFacts DEF Vanishes, Remains
<1>2. CASE Vanishes(p, n)
    <2>1. m'.node[q] = b /\ q \notin Live(m')
        BY <1>2 DEF Vanishes, Goes
    <2> QED BY <1>1, <2>1
<1>3. ASSUME NEW extend \in BOOLEAN, Remains(p, n, extend)
      PROVE /\ \/ m'.node[q] = b
               \/ /\ m'.node[q] = Pushed(b, NonExisting)
                  /\ b.policy = "track" /\ b.history[1].state # NonExisting
            /\ b.policy = "none" => b.history[1].state.type = "directory"
    <2>1. \/ m'.node[q] = b
          \/ m'.node[q] = Pushed(b, NonExisting) /\ b.policy = "track"
             /\ b.history[1].state # NonExisting
        BY <1>0, <1>3 DEF Remains, Stays
    <2>2. ASSUME b.policy = "none" PROVE b.history[1].state.type = "directory"
        <3>1. saved[q].policy = "none" => saved[q].history[1].state.type = "directory"
            BY <1>0 DEF BackupInv, SavedInv
        <3>2. CASE q # p \/ n = m.node[p]
            <4>1. b = saved[q]
                BY <1>0, <3>2 DEF Base
            <4> QED BY <2>2, <3>1, <4>1
        <3>3. CASE q = p /\ n # m.node[p]
            <4>1. /\ n = Trimmed(saved[p], Policy[p]) /\ ~GoesAway(m, p, Policy[p])
                BY <1>0, <1>3, <3>3 DEF Remains, Retained
            <4>2. b = n
                BY <3>3 DEF Base
            <4>3. Policy[p] \in Policies
                BY MissFacts, RunFacts, ConfigFacts
            <4>4. Policy[p] = "none"
                BY <1>0, <2>2, <4>1, <4>2, <4>3, TrimmedSound
            <4>5. Children(p) # {}
                BY <4>1, <4>4 DEF GoesAway, Childless
            <4> QED BY <1>0, <4>1, <4>2, <4>4, <4>5, WithoutPolicy
        <3> QED BY <3>2, <3>3
    <2> QED BY <2>1, <2>2
<1> QED BY <1>1, <1>2, <1>3

LEMMA MissedNode ==
    ASSUME BackupInv, NEW p \in Paths, Miss(p), NEW q \in Subtree(p)
    PROVE NodeFine(q)'
<1>0. /\ pc = "search" /\ UNCHANGED <<saved, backups, config, found, log>>
      /\ q \in Paths /\ m.node[q] = saved[q] /\ (q \in Live(m) <=> saved[q] # None)
      /\ p \in Subtree(p) /\ saved[p] # None
    BY MissFacts, SubtreeFacts
<1>1. /\ run' = run /\ Policy' = Policy /\ Still(q) /\ \A b : IsListed(b)' <=> IsListed(b)
    BY <1>0, SameSearch
<1>2. PICK n : Vanishes(p, n) \/ \E extend \in BOOLEAN : Remains(p, n, extend)
    BY MissCases
<1>3. CASE saved[q] = None
    <2>1. q # p
        BY <1>0, <1>3
    <2>2. Base(m, p, n, q) = None
        BY <1>0, <1>3, <2>1 DEF Base
    <2>3. m'.node[q] = None
        BY <1>0, <1>2, <1>3, <2>2 DEF Vanishes, Remains, Goes, Stays
    <2> QED BY <1>0, <1>3, <2>3 DEF NodeFine
<1>4. CASE saved[q] # None
    <2> DEFINE b == Base(m, p, n, q)
               t == m'.node[q]
    <2>1. /\ BaseOf(q, b)
          /\ \/ t = b
             \/ t = Pushed(b, NonExisting) /\ b.policy = "track" /\ b.history[1].state # NonExisting
          /\ q \in Live(m') /\ b.policy = "none" => b.history[1].state.type = "directory"
        BY <1>2, <1>4, MissedHistory
    <2> HIDE DEF b
    <2>2. run \in Runs
        BY <1>0, RunFacts
    <2>3. /\ Sound(q, t) /\ t.history[1].backup <= run /\ t.policy = b.policy
          /\ \A i \in DOMAIN t.history : t.history[i].backup = run \/ IsListed(t.history[i].backup)
          /\ \/ t.history = b.history
             \/ Head(t.history).backup = run /\ Tail(t.history) = b.history
        <3>1. CASE t = b
            <4>0. Sound(q, b)
                BY <2>1 DEF BaseOf
            <4>1. 1 \in DOMAIN b.history /\ b.history[1].backup \in Runs
                BY <1>0, <4>0, SoundFacts
            <4>2. b.history[1].backup < run
                BY <2>1 DEF BaseOf
            <4>3. b.history[1].backup <= run
                BY <2>2, <4>1, <4>2 DEF Runs
            <4>4. /\ Sound(q, b) /\ b.history[1].backup <= run
                  /\ \A i \in DOMAIN b.history : IsListed(b.history[i].backup)
                BY <2>1, <4>3 DEF BaseOf
            <4> HIDE DEF t
            <4> QED BY <3>1, <4>4
        <3>2. CASE t = Pushed(b, NonExisting) /\ b.policy = "track" /\ b.history[1].state # NonExisting
            <4>1. Sound(q, b) /\ b.history[1].backup < run
                  /\ \A i \in DOMAIN b.history : IsListed(b.history[i].backup)
                BY <2>1 DEF BaseOf
            <4>2. /\ Sound(q, t) /\ t.policy = b.policy
                  /\ t.history[1] = [backup |-> run, state |-> NonExisting]
                  /\ \A i \in DOMAIN t.history :
                         \/ t.history[i].backup = run
                         \/ \E j \in DOMAIN b.history : t.history[i] = b.history[j]
                  /\ Head(t.history) = t.history[1] /\ Tail(t.history) = b.history
                BY <1>0, <2>2, <3>2, <4>1, PushedSound
            <4> HIDE DEF t
            <4>3. t.history[1].backup = run /\ run <= run
                BY <2>2, <4>2 DEF Runs
            <4> QED BY <4>1, <4>2, <4>3
        <3> QED BY <2>1, <3>1, <3>2
    <2>4. t # None
        BY <2>3, NodeFacts DEF Sound
    <2>5. Steady(q, t, Policy[q])
        BY <2>1, <2>3 DEF BaseOf, Steady
    <2>6. saved[q].policy = "track" /\ t.policy = "track" => Extended(q)'
        BY <1>0, <1>1, <2>1, <2>3 DEF BaseOf, Extended
    <2>7. AlwaysTracked(q) /\ TrackedNow(q) => t.policy = "track"
        BY <2>1, <2>3 DEF BaseOf
    <2>8. q \in Live(m') /\ t.policy = "none" => t.history[1].state.type = "directory"
        BY <2>1, <2>3
    <2>9. q \in Live(m)' <=> q \in Live(m')
        BY DEF Live, Exists
    <2> HIDE DEF t
    <2>10. t = m'.node[q]
        BY DEF t
    <2> QED BY <1>0, <1>1, <1>4, <2>3, <2>4, <2>5, <2>6, <2>7, <2>8, <2>9, <2>10 DEF NodeFine, Still
<1> QED BY <1>3, <1>4

(* The path that is missing and its directory, seen from a path below.      *)
LEMMA SeenFromBelow ==
    ASSUME NEW p \in Paths, NEW q \in Subtree(p)
    PROVE /\ q \in Paths /\ p \in Trail(q) /\ Trail(p) \subseteq Trail(q)
          /\ \A r \in Trail(q) : r \in Paths /\ Trail(r) \subseteq Trail(q)
          /\ q # p => p \in Trail(Parent[q])
          /\ Parent[p] # Root => /\ Parent[p] \in Paths /\ Parent[p] \in Trail(Parent[q])
                                 /\ Parent[p] \in Trail(q)
<1>1. q \in Paths /\ p \in Trail(q)
    BY SubtreeFacts
<1>2. \A r \in Trail(q) : r \in Paths /\ Trail(r) \subseteq Trail(q)
    BY <1>1, TrailFacts, TrailTransitive
<1>3. q # p => p \in Trail(Parent[q])
    BY <1>1, TrailFacts
<1>4. ASSUME Parent[p] # Root
      PROVE Parent[p] \in Paths /\ Parent[p] \in Trail(Parent[q]) /\ Parent[p] \in Trail(q)
    <2>1. Parent[p] \in Trail(Parent[p]) /\ Parent[p] \in Trail(p) /\ Parent[p] \in Paths
        BY <1>4, TrailFacts
    <2>2. CASE q = p
        BY <2>1, <2>2
    <2>3. CASE q # p
        <3>1. Trail(p) \subseteq Trail(Parent[q])
            <4>1. Parent[q] \in Paths \/ Parent[q] = Root
                BY <1>1, TreeAssumption
            <4>2. Parent[q] # Root
                BY <1>3, <2>3, TrailFacts
            <4> QED BY <1>3, <2>3, <4>1, <4>2, TrailTransitive
        <3> QED BY <1>1, <1>2, <2>1, <3>1
    <2> QED BY <2>2, <2>3
<1> QED BY <1>1, <1>2, <1>3, <1>4

(* The directory of a missing path, when the search has reached it.         *)
LEMMA AboveFacts ==
    ASSUME BackupInv, NEW p \in Paths, Miss(p), Parent[p] # Root
    PROVE /\ Parent[p] \in Paths /\ found[Parent[p]] # None
          /\ m.hint[Parent[p]] = "directoryReplaced" => found[Parent[p]].type # "directory"
          /\ Policy[Parent[p]] = "track" => Top(m, Parent[p]).type = found[Parent[p]].type
          /\ Policy[Parent[p]] = "track" /\ saved[Parent[p]] # None
               /\ m.hint[Parent[p]] # "directoryReplaced"
               /\ saved[Parent[p]].history[1].state.type = "directory"
             => found[Parent[p]].type = "directory"
<1> DEFINE r == Parent[p]
<1>0. pc = "search" /\ place[p] = "ahead" /\ AtParentOf(p)
    BY MissFacts
<1>1. r \in Paths /\ r \in Trail(Parent[p])
    BY TrailFacts
<1>2. Reached(r) /\ Reported(r)
    BY <1>0, <1>1, NextFacts
<1>3. found[r] # None
    BY <1>1, <1>2, TrailFacts DEF Reported, IsFound
<1>4. ReachedFine(r)
    BY <1>0, <1>1 DEF BackupInv, SearchInv, ReachedInv
<1>5. m.node[r] # None
    BY <1>2, <1>4 DEF ReachedFine
<1>6. AllSound(m)
    BY <1>0, RunFacts
<1>7. Sound(r, m.node[r])
    BY <1>1, <1>5, <1>6 DEF AllSound, Exists
<1>8. Top(m, r) = m.node[r].history[1].state
    BY <1>1, <1>7, SoundFacts DEF Top
<1>9. Policy[r] = "track" => Top(m, r).type = found[r].type
    BY <1>2, <1>4, <1>8 DEF ReachedFine, Seen
<1> QED BY <1>1, <1>2, <1>3, <1>4, <1>9 DEF ReachedFine

LEMMA VanishesFine ==
    ASSUME BackupInv, NEW p \in Paths, Miss(p), NEW n, Vanishes(p, n), NEW q \in Subtree(p),
           saved[q] # None
    PROVE /\ ~Keeps(q)
          /\ ~TrackedNow(q)
          /\ m'.hint[q] = "wiped"
<1>0. /\ q \in Paths /\ p \in Trail(q)
      /\ q # p => p \in Trail(Parent[q])
      /\ Parent[p] # Root => Parent[p] \in Paths /\ Parent[p] \in Trail(Parent[q]) /\ Parent[p] \in Trail(q)
    BY SeenFromBelow
<1>1. m'.hint[q] = "wiped"
    <2>1. q \in Live(m)
        BY MissFacts
    <2> QED BY <2>1 DEF Vanishes, Goes, Live
<1>2. config \in Configs
    BY MissFacts, RunFacts
<1>3. CASE /\ Parent[p] # Root /\ m.hint[Parent[p]] = "directoryReplaced"
           /\ Policy[Parent[p]] \notin {"none", "track"}
    <2>1. found[Parent[p]] # None /\ found[Parent[p]].type # "directory"
        BY <1>3, AboveFacts
    <2> QED BY <1>0, <1>1, <1>3, <2>1 DEF Keeps, TrackedNow
<1>4. CASE ~HasSearchNode(p) /\ (Policy[Parent[p]] = "none" \/ p \in config.ignored)
    <2>1. CASE p \in config.ignored
        BY <1>0, <1>1, <2>1 DEF Keeps, TrackedNow
    <2>2. CASE Policy[Parent[p]] = "none"
        <3>1. Policy[q] = "none"
            BY <1>2, <1>4, <2>2, InheritedPolicy
        <3>2. q \in Trail(q)
            BY <1>0, TrailFacts
        <3> QED BY <1>1, <3>1, <3>2 DEF Keeps, TrackedNow
    <2> QED BY <1>4, <2>1, <2>2
<1>5. CASE GoesAway(m, p, Policy[p])
    <2>1. Policy[p] \in {"none", "mirror"}
        BY <1>5 DEF GoesAway
    <2>2. ~TrackedNow(q)
        BY <1>0, <2>1 DEF TrackedNow
    <2>3. CASE q = p
        BY <1>1, <2>1, <2>2, <2>3 DEF Keeps
    <2>4. CASE q # p /\ Policy[p] = "mirror"
        BY <1>0, <1>1, <2>2, <2>4 DEF Keeps
    <2>5. CASE q # p /\ Policy[p] = "none"
        <3>1. PICK c \in Children(p) : c \in Trail(q)
            BY <1>0, <2>5, WayDown
        <3>2. saved[c] # None /\ c \in Paths
            BY <1>0, <3>1 DEF BackupInv, SavedInv, Children
        <3>3. Exists(m, c)
            BY <3>2, MissFacts, RunFacts
        <3> QED BY <1>5, <2>5, <3>1, <3>3 DEF GoesAway, Childless
    <2> QED BY <2>1, <2>3, <2>4, <2>5
<1> QED BY <1>3, <1>4, <1>5 DEF Vanishes, Dropped

LEMMA RemainsFine ==
    ASSUME BackupInv, NEW p \in Paths, Miss(p), NEW n, NEW extend \in BOOLEAN,
           Remains(p, n, extend), NEW q \in Subtree(p), saved[q] # None
    PROVE /\ m'.hint[q] # "wiped"
          /\ q = p /\ Policy[p] = "mirror"
             => Parent[p] # Root /\ found[Parent[p]].type # "directory"
          /\ AlwaysTracked(q) /\ TrackedNow(q) => m'.node[q].history[1].state = NonExisting
<1> DEFINE b == Base(m, p, n, q)
<1>0. /\ q \in Paths /\ p \in Trail(q)
      /\ \A r \in Trail(q) : r \in Paths /\ Trail(r) \subseteq Trail(q)
      /\ Parent[p] # Root => Parent[p] \in Paths /\ Parent[p] \in Trail(Parent[q]) /\ Parent[p] \in Trail(q)
    BY SeenFromBelow
<1>1. q \in Live(m) /\ q \in Subtree(p) \cap Live(m)
    BY MissFacts
<1>2. m'.hint[q] # "wiped"
    BY <1>1 DEF Remains, Stays
<1>3. ASSUME Policy[p] = "mirror" PROVE Parent[p] # Root /\ found[Parent[p]].type # "directory"
    <2>1. Parent[p] # Root /\ ~SearchedAt(m, p)
        BY <1>3 DEF Remains, Retained, GoesAway
    <2>2. CASE m.hint[Parent[p]] = "directoryReplaced"
        BY <2>1, <2>2, AboveFacts
    <2>3. CASE Policy[Parent[p]] = "track" /\ Top(m, Parent[p]).type = "regular_file"
        BY <2>1, <2>3, AboveFacts
    <2> QED BY <2>1, <2>2, <2>3 DEF SearchedAt
<1>4. ASSUME AlwaysTracked(q), TrackedNow(q)
      PROVE m'.node[q].history[1].state = NonExisting
    <2>1. \A r \in Trail(q) : AlwaysTracked(r) /\ TrackedNow(r) /\ saved[r] # None
        BY <1>0, <1>4 DEF AlwaysTracked, TrackedNow, BackupInv, SavedInv
    <2>2. \A r \in Trail(q) : r \in Subtree(p) => Base(m, p, n, r) = saved[r]
                                                  /\ Base(m, p, n, r).policy = "track"
        <3> TAKE r \in Trail(q)
        <3> HAVE r \in Subtree(p)
        <3>1. BaseOf(r, Base(m, p, n, r))
            BY <2>1, BaseFacts DEF Remains
        <3> QED BY <2>1, <3>1 DEF BaseOf
    <2>3. q \in Trail(q) /\ b = saved[q]
        BY <1>0, <2>2, TrailFacts
    <2>4. \/ m'.node[q] = b
          \/ m'.node[q] = Pushed(b, NonExisting)
        BY <1>1 DEF Remains, Stays
    <2>5. Pushed(b, NonExisting).history[1].state = NonExisting
        <3>1. Sound(q, b) /\ b.history \in Seq(Point)
            <4>0. Sound(q, saved[q])
                BY <1>0 DEF BackupInv, SavedInv
            <4>1. Sound(q, b)
                BY <2>3, <4>0
            <4> QED BY <1>0, <4>1, SoundFacts
        <3> HIDE DEF b
        <3>2. Pushed(b, NonExisting).history = <<[backup |-> run, state |-> NonExisting]>> \o b.history
            BY DEF Pushed
        <3> DEFINE u == [backup |-> run, state |-> NonExisting]
        <3>3. (<<u>> \o b.history)[1] = u
            <4> HIDE DEF u
            <4> QED BY <3>1
        <3> QED BY <3>2, <3>3
    <2>6. CASE extend = TRUE
        <3>1. CASE b.history[1].state = NonExisting
            BY <2>4, <2>5, <3>1
        <3>2. CASE b.history[1].state # NonExisting
            <4>1. m'.node[q] = Pushed(b, NonExisting)
                BY <1>1, <2>2, <2>6, <3>2 DEF Remains, Stays
            <4> QED BY <2>5, <4>1
        <3> QED BY <3>1, <3>2
    <2>7. CASE extend = FALSE
        <3>1. /\ Parent[p] # Root /\ m.hint[Parent[p]] # "directoryReplaced"
              /\ Policy[Parent[p]] = "track" /\ Top(m, Parent[p]).type = "regular_file"
            <4>1. Parent[p] # Root /\ ~SearchedAt(m, p)
                BY <2>7 DEF Remains, Retained
            <4>2. Policy[Parent[p]] = "track"
                BY <1>0, <1>4, <4>1 DEF TrackedNow
            <4> QED BY <2>7, <4>1, <4>2 DEF Remains, Retained
        <3>2. saved[Parent[p]] # None
            BY <1>0, <2>1, <3>1
        <3>3. saved[Parent[p]].history[1].state.type # "directory"
            BY <3>1, <3>2, AboveFacts
        <3>4. saved[q].history[1].state = NonExisting
            BY <1>0, <1>4, <3>1, <3>3, GoneAlready
        <3>5. CASE m'.node[q] = b
            BY <2>3, <3>4, <3>5
        <3>6. CASE m'.node[q] = Pushed(b, NonExisting)
            BY <2>5, <3>6
        <3> QED BY <2>4, <3>5, <3>6
    <2> QED BY <2>6, <2>7
<1> QED BY <1>2, <1>3, <1>4

LEMMA MissInv ==
    ASSUME BackupInv, NEW p \in Paths, Miss(p)
    PROVE BackupInv'
<1>0. /\ pc = "search" /\ pc' = "search" /\ place[p] = "ahead" /\ AtParentOf(p) /\ ~IsFound(p)
      /\ place' = [place EXCEPT ![p] = "missed"]
      /\ place'[p] = "missed" /\ \A q \in Paths \ {p} : place'[q] = place[q]
      /\ UNCHANGED <<saved, backups, config, found, log>>
      /\ saved[p] # None
      /\ \A q \in Subtree(p) : q \in Paths /\ m.node[q] = saved[q] /\ place[q] = "ahead"
                               /\ (q \in Live(m) <=> saved[q] # None)
      /\ Missing(m, m', p)
    BY MissFacts
<1>1. /\ m \in Memory /\ Closed(m) /\ Exact(m)
    BY <1>0, RunFacts
<1>2. Outside(m, m', p)
    BY <1>0 DEF Missing
<1>3. PICK n : Vanishes(p, n) \/ \E extend \in BOOLEAN : Remains(p, n, extend)
    BY MissCases
<1>4. PlaceInv'
    <2>1. PlaceInv /\ (\A q \in Trail(Parent[p]) : Reached(q))
          /\ (Parent[p] # Root => place[Parent[p]] = "inside")
        BY <1>0, NextFacts
    <2> QED BY <1>0, <2>1, PlaceStep DEF Reached
<1>5. m' \in Memory /\ Exact(m)'
    BY <1>1, <1>2 DEF Outside, Exact, CountIn, Points, Live, Exists
<1>6. Closed(m)'
    <2>1. Live(m') = Live(m) \/ Live(m') = Live(m) \ Subtree(p)
        BY <1>3 DEF Vanishes, Remains, Goes, Stays
    <2>2. ASSUME NEW q \in Live(m) \ Subtree(p), NEW r \in Trail(q) PROVE r \notin Subtree(p)
        <3>1. q \in Paths
            BY DEF Live
        <3> QED BY <2>2, <3>1, TrailFacts, TrailTransitive DEF Subtree
    <2>3. \A q \in Live(m') : Trail(q) \subseteq Live(m')
        BY <1>1, <2>1, <2>2 DEF Closed
    <2> QED BY <2>3 DEF Closed, Live, Exists
<1>7. ASSUME NEW q \in Subtree(p)
      PROVE NodeFine(q)' /\ ReachedFine(q)' /\ MissedFine(q)' /\ UntouchedFine(q)'
    <2>0. q \in Paths /\ p \in Trail(q)
        BY SubtreeFacts
    <2>1. NodeFine(q)'
        BY MissedNode
    <2>2. place'[q] \in {"ahead", "missed"} /\ (place'[q] = "missed" => q = p)
        BY <1>0, <2>0
    <2>3. ReachedFine(q)'
        BY <2>2 DEF ReachedFine, Reached
    <2>4. UntouchedFine(q)'
        BY <1>0, <2>0 DEF UntouchedFine, Untouched, Handled
    <2>5. Policy' = Policy /\ Still(q)
        BY <1>0, <2>0, SameSearch
    <2>6. CASE saved[q] = None
        <3>1. q # p
            BY <1>0, <2>6
        <3>2. place'[q] # "missed" /\ ~Keeps(q)
            BY <2>2, <2>6, <3>1 DEF Keeps
        <3>3. MissedFine(q)'
            BY <1>0, <2>5, <2>6, <3>2 DEF MissedFine, Still
        <3> QED BY <2>1, <2>3, <2>4, <3>3
    <2>7. CASE saved[q] # None /\ Vanishes(p, n)
        <3>1. ~Keeps(q) /\ ~TrackedNow(q) /\ m'.hint[q] = "wiped"
            BY <2>7, VanishesFine
        <3>2. MissedFine(q)'
            BY <2>5, <3>1 DEF MissedFine, Still
        <3> QED BY <2>1, <2>3, <2>4, <3>2
    <2>8. CASE saved[q] # None /\ \E extend \in BOOLEAN : Remains(p, n, extend)
        <3>1. /\ m'.hint[q] # "wiped"
              /\ q = p /\ Policy[p] = "mirror"
                 => Parent[p] # Root /\ found[Parent[p]].type # "directory"
              /\ AlwaysTracked(q) /\ TrackedNow(q) => m'.node[q].history[1].state = NonExisting
            BY <2>8, RemainsFine
        <3>2. MissedFine(q)'
            BY <1>0, <2>2, <2>5, <3>1 DEF MissedFine, Still
        <3> QED BY <2>1, <2>3, <2>4, <3>2
    <2> QED BY <1>3, <2>1, <2>3, <2>4, <2>6, <2>7, <2>8
<1>8. ASSUME NEW q \in Paths \ Subtree(p)
      PROVE /\ Kept(q) /\ place'[q] = place[q]
            /\ Handled(q)' => Handled(q)
            /\ Untouched(q)' => Untouched(q)
    <2>1. p \notin Trail(q) /\ q # p
        BY TrailFacts
    <2>2. \A r \in Trail(q) : r \in Paths /\ place'[r] = place[r]
        BY <1>0, <2>1, TrailFacts
    <2>3. Handled(q)' <=> Handled(q)
        BY <2>2 DEF Handled
    <2> QED BY <1>0, <1>2, <2>1, <2>3 DEF Outside, Kept, Untouched
<1>9. Subtree(p) \in SUBSET Paths
    BY SubtreeFacts
<1> QED BY <1>0, <1>4, <1>5, <1>6, <1>7, <1>8, <1>9, StepOfSearch

-----------------------------------------------------------------------------
(* What is written.                                                         *)

(* What is defined from one number to the next has a solution. *)
Counts(f, N, S, base, step) ==
    /\ f \in [0..N -> S]
    /\ f[0] = base
    /\ \A i \in 1..N : f[i] = step[<<i, f[i - 1]>>]

LEMMA NatRecursion ==
    ASSUME NEW N \in Nat, NEW S, NEW base \in S, NEW step \in [(1..N) \X S -> S]
    PROVE \E f : Counts(f, N, S, base, step)
<1> DEFINE Solves(f, n) == /\ f \in [0..n -> S]
                           /\ f[0] = base
                           /\ \A i \in 1..n : f[i] = step[<<i, f[i - 1]>>]
           Unsolved == {n \in 0..N : ~ \E f : Solves(f, n)}
<1>1. Unsolved = {}
    <2> SUFFICES ASSUME Unsolved # {} PROVE FALSE
        OBVIOUS
    <2>1. PICK n \in Unsolved : \A k \in Unsolved : n <= k
        <3>1. Unsolved \in SUBSET Nat
            OBVIOUS
        <3> HIDE DEF Unsolved
        <3> QED BY <3>1, Smallest
    <2>2. n \in 0..N /\ n \in Nat
        BY <2>1
    <2>3. CASE n = 0
        <3> DEFINE f == [i \in 0..0 |-> base]
        <3>1. f \in [0..0 -> S] /\ f[0] = base /\ 1..0 = {}
            OBVIOUS
        <3>2. Solves(f, 0)
            BY <3>1
        <3> QED BY <2>1, <2>3, <3>2
    <2>4. CASE n # 0
        <3>1. n - 1 \in 0..N /\ n - 1 \notin Unsolved
            <4>1. n - 1 \in 0..N /\ ~(n <= n - 1)
                BY <2>2, <2>4
            <4> HIDE DEF Unsolved
            <4> QED BY <2>1, <4>1
        <3>2. PICK f : Solves(f, n - 1)
            <4> HIDE DEF Solves
            <4> QED BY <3>1
        <3>3. f[n - 1] \in S /\ <<n, f[n - 1]>> \in (1..N) \X S
            BY <2>2, <2>4, <3>2
        <3> DEFINE last == step[<<n, f[n - 1]>>]
                   g == [i \in 0..n |-> IF i = n THEN last ELSE f[i]]
        <3>4. last \in S
            BY <3>3
        <3>5. \A i \in 0..n : i # n => i \in 0..(n - 1)
            BY <2>2, <2>4
        <3> HIDE DEF last
        <3>6. g \in [0..n -> S]
            BY <3>2, <3>4, <3>5
        <3>7. g[0] = base /\ g[n] = last /\ \A i \in 0..(n - 1) : g[i] = f[i]
            BY <2>2, <2>4, <3>2
        <3> HIDE DEF g
        <3>8. \A i \in 1..n : g[i] = step[<<i, g[i - 1]>>]
            <4> TAKE i \in 1..n
            <4>1. i - 1 \in 0..(n - 1)
                BY <2>2
            <4>2. CASE i = n
                BY <3>7, <4>1, <4>2 DEF last
            <4>3. CASE i # n
                <5>1. i \in 1..(n - 1) /\ i \in 0..(n - 1)
                    BY <2>2, <4>3
                <5> QED BY <3>2, <3>7, <4>1, <5>1
            <4> QED BY <4>2, <4>3
        <3>9. Solves(g, n)
            BY <3>6, <3>7, <3>8
        <3> QED BY <2>1, <3>9
    <2> QED BY <2>3, <2>4
<1>2. \E f : Solves(f, N)
    <2> HIDE DEF Solves
    <2> QED BY <1>1
<1> QED BY <1>2 DEF Counts

(* The backups written are those that are counted. *)
Holds(seq, b) == \E j \in DOMAIN seq : seq[j] = b

LEMMA WrittenBackupsFacts ==
    ASSUME backups \in Seq(Runs), run \in Runs
    PROVE /\ WrittenBackups \in Seq(Runs)
          /\ \A b : Counted(b) /\ (b = run \/ IsListed(b)) => Holds(WrittenBackups, b)
<1> DEFINE N == Len(backups)
           S == Seq(Runs)
           base == IF Counted(run) THEN <<run>> ELSE <<>>
           next(i, s) == IF Counted(backups[i]) THEN Append(s, backups[i]) ELSE s
           step == [a \in (1..N) \X S |-> next(a[1], a[2])]
           up == CHOOSE u : u = [i \in 0..Len(backups) |->
                    IF i = 0 THEN IF Counted(run) THEN <<run>> ELSE <<>>
                    ELSE IF Counted(backups[i]) THEN Append(u[i - 1], backups[i]) ELSE u[i - 1]]
<1>1. N \in Nat /\ DOMAIN backups = 1..N /\ \A i \in 1..N : backups[i] \in Runs
    OBVIOUS
<1>2. WrittenBackups = up[N]
    BY Zenon DEF WrittenBackups
<1>3. base \in S
    OBVIOUS
<1>4. \A i \in 1..N : \A s \in S : next(i, s) \in S
    BY <1>1
<1>5. step \in [(1..N) \X S -> S]
    BY <1>4
<1>6. PICK f : f \in [0..N -> S] /\ f[0] = base /\ \A i \in 1..N : f[i] = next(i, f[i - 1])
    <2>1. PICK f : Counts(f, N, S, base, step)
        <3> HIDE DEF S, base, step, N
        <3> QED BY <1>1, <1>3, <1>5, NatRecursion
    <2>2. f \in [0..N -> S] /\ f[0] = base /\ \A i \in 1..N : f[i] = step[<<i, f[i - 1]>>]
        BY <2>1 DEF Counts
    <2>3. \A i \in 1..N : step[<<i, f[i - 1]>>] = next(i, f[i - 1])
        <3> TAKE i \in 1..N
        <3>1. i - 1 \in 0..N
            BY <1>1
        <3>2. <<i, f[i - 1]>> \in (1..N) \X S
            BY <2>2, <3>1
        <3> HIDE DEF next, S
        <3> QED BY <3>2
    <2> HIDE DEF next, step, base, S, N
    <2> QED BY <2>2, <2>3
<1>7. f = [i \in 0..Len(backups) |->
              IF i = 0 THEN IF Counted(run) THEN <<run>> ELSE <<>>
              ELSE IF Counted(backups[i]) THEN Append(f[i - 1], backups[i]) ELSE f[i - 1]]
    <2>1. \A i \in 0..N : i = 0 \/ i \in 1..N
        BY <1>1
    <2>2. DOMAIN f = 0..N /\ f = [i \in 0..N |-> f[i]]
        BY <1>6
    <2>3. \A i \in 0..N : f[i] = IF i = 0 THEN base ELSE next(i, f[i - 1])
        BY <1>6, <2>1
    <2> QED BY <2>2, <2>3
<1>8. up = [i \in 0..Len(backups) |->
              IF i = 0 THEN IF Counted(run) THEN <<run>> ELSE <<>>
              ELSE IF Counted(backups[i]) THEN Append(up[i - 1], backups[i]) ELSE up[i - 1]]
    BY <1>7, Zenon
<1> HIDE DEF up, S
<1>9. up[0] = base /\ \A i \in 1..N : up[i] = next(i, up[i - 1])
    <2>1. \A i \in 1..N : i # 0 /\ i \in 0..N
        BY <1>1
    <2>2. 0 \in 0..N
        BY <1>1
    <2> QED BY <1>8, <2>1, <2>2
<1> DEFINE Good(i) == /\ up[i] \in S
                      /\ Counted(run) => Holds(up[i], run)
                      /\ \A k \in 1..i : Counted(backups[k]) => Holds(up[i], backups[k])
           Bad == {i \in 0..N : ~Good(i)}
<1>10. Good(0)
    <2>1. up[0] \in S
        BY <1>3, <1>9
    <2>2. ASSUME Counted(run) PROVE Holds(up[0], run)
        <3>1. up[0] = <<run>>
            BY <1>9, <2>2
        <3> QED BY <3>1 DEF Holds
    <2>3. 1..0 = {}
        OBVIOUS
    <2> QED BY <2>1, <2>2, <2>3
<1>11. ASSUME NEW s \in S, NEW r PROVE /\ \A b : Holds(s, b) => Holds(Append(s, r), b)
                                       /\ Holds(Append(s, r), r)
    <2>1. /\ DOMAIN Append(s, r) = 1 .. Len(s) + 1 /\ Append(s, r)[Len(s) + 1] = r
          /\ Len(s) \in Nat /\ DOMAIN s = 1..Len(s)
          /\ \A i \in 1..Len(s) : Append(s, r)[i] = s[i]
        BY DEF S
    <2> QED BY <2>1 DEF Holds
<1>12. ASSUME NEW i \in 1..N, Good(i - 1) PROVE Good(i)
    <2>1. up[i] = next(i, up[i - 1]) /\ up[i - 1] \in S
        BY <1>9, <1>12
    <2>2. up[i] \in S
        BY <1>4, <2>1
    <2>3. /\ \A b : Holds(up[i - 1], b) => Holds(up[i], b)
          /\ Counted(backups[i]) => Holds(up[i], backups[i])
        BY <1>11, <2>1
    <2>4. \A k \in 1..i : k = i \/ k \in 1..(i - 1)
        OBVIOUS
    <2> QED BY <1>12, <2>2, <2>3, <2>4
<1>13. Good(N)
    <2> SUFFICES ASSUME ~Good(N) PROVE FALSE
        OBVIOUS
    <2> HIDE DEF Good
    <2>1. N \in Bad /\ Bad \in SUBSET Nat
        BY <1>1
    <2>2. PICK n \in Bad : \A k \in Bad : n <= k
        <3> HIDE DEF Bad
        <3> QED BY <2>1, Smallest
    <2>3. n \in 0..N /\ ~Good(n) /\ n # 0
        BY <1>10, <2>2
    <2>4. n \in 1..N /\ n - 1 \in 0..N /\ ~(n <= n - 1)
        BY <1>1, <2>3
    <2>5. Good(n - 1)
        BY <2>2, <2>4
    <2> QED BY <1>12, <2>3, <2>4, <2>5
<1> QED BY <1>1, <1>2, <1>13 DEF S, IsListed

(* A node is written with the points it has in memory. *)
LEMMA WrittenLive ==
    ASSUME BackupInv, pc # "idle"
    PROVE \A p \in Paths : Written(p) <=> p \in Live(m)
<1> TAKE p \in Paths
<1>1. \A q \in Trail(p) : q \in Paths
    BY TrailFacts
<1>2. p \in Trail(p)
    BY TrailFacts
<1>3. p \in Live(m) => Trail(p) \subseteq Live(m)
    BY RunFacts DEF Closed
<1> QED BY <1>1, <1>2, <1>3 DEF Written, Live, Exists

LEMMA CountedPoints ==
    ASSUME BackupInv, pc # "idle", NEW p \in Live(m), NEW i \in DOMAIN m.node[p].history
    PROVE LET b == m.node[p].history[i].backup
          IN b \in Runs /\ Counted(b) /\ (b = run \/ IsListed(b))
<1> DEFINE h == m.node[p].history
           b == h[i].backup
<1>1. p \in Paths /\ m.node[p] # None /\ m \in Memory /\ Exact(m)
    BY RunFacts DEF Live, Exists
<1>2. Sound(p, m.node[p]) /\ (b = run \/ IsListed(b))
    BY <1>1, RunFacts DEF SearchInv, NodeInv, NodeFine
<1>3. h \in Seq(Point) /\ b \in Runs
    BY <1>1, <1>2, SoundFacts
<1>4. m.refs[b] = CountIn(m, Live(m), b)
    BY <1>1, <1>3 DEF Exact
<1>5. Histories(m, Live(m)) /\ Live(m) \in SUBSET Paths
    BY <1>1, NodeFacts
<1>6. IsFiniteSet(Points(m, Live(m), b))
    BY <1>5, PointsFinite
<1>7. Len(h) - i \in Places(h, b)
    BY DEF Places
<1>8. <<p, Len(h) - i>> \in Points(m, Live(m), b)
    BY <1>7, PointsMember
<1>9. CountIn(m, Live(m), b) # 0
    <2>1. Points(m, Live(m), b) # {}
        BY <1>8
    <2> QED BY <1>6, <2>1, FS_EmptySet DEF CountIn
<1> QED BY <1>2, <1>3, <1>4, <1>9 DEF Counted

LEMMA WrittenPoints ==
    ASSUME BackupInv, pc # "idle"
    PROVE /\ WrittenBackups \in Seq(Runs)
          /\ \A p \in Live(m) : \A i \in DOMAIN m.node[p].history :
                /\ ReadBack(m.node[p].history[i].backup) = m.node[p].history[i].backup
                /\ Holds(WrittenBackups, m.node[p].history[i].backup)
<1>1. backups \in Seq(Runs) /\ run \in Runs
    BY RunFacts DEF SavedInv
<1>2. /\ WrittenBackups \in Seq(Runs)
      /\ \A b : Counted(b) /\ (b = run \/ IsListed(b)) => Holds(WrittenBackups, b)
    BY <1>1, WrittenBackupsFacts
<1>3. ASSUME NEW p \in Live(m), NEW i \in DOMAIN m.node[p].history
      PROVE /\ ReadBack(m.node[p].history[i].backup) = m.node[p].history[i].backup
            /\ Holds(WrittenBackups, m.node[p].history[i].backup)
    <2> DEFINE b == m.node[p].history[i].backup
    <2>1. Counted(b) /\ (b = run \/ IsListed(b))
        BY CountedPoints
    <2> HIDE DEF b
    <2>2. Holds(WrittenBackups, b)
        BY <1>2, <2>1
    <2> DEFINE W == WrittenBackups
    <2> HIDE DEF W
    <2>3. \E j \in DOMAIN W : W[j] = b
        BY <2>2 DEF Holds, W
    <2>4. IndexIn(W, b) \in DOMAIN W /\ W[IndexIn(W, b)] = b
        BY <2>3, Zenon DEF IndexIn
    <2>5. WrittenId(b) = IndexIn(W, b)
        BY <2>1 DEF WrittenId, W
    <2>6. ReadBack(b) = b
        BY <2>4, <2>5 DEF ReadBack, W
    <2> QED BY <2>2, <2>6 DEF b
<1> QED BY <1>2, <1>3

LEMMA WrittenNodesFacts ==
    ASSUME BackupInv, pc # "idle"
    PROVE WrittenNodes = [p \in Paths |-> IF p \in Live(m) THEN m.node[p] ELSE None]
<1>1. ASSUME NEW p \in Live(m)
      PROVE [policy |-> m.node[p].policy,
             history |-> [i \in DOMAIN m.node[p].history |->
                  [backup |-> ReadBack(m.node[p].history[i].backup),
                   state |-> m.node[p].history[i].state]]] = m.node[p]
    <2> DEFINE n == m.node[p]
               h == n.history
    <2>1. n \in Node /\ h \in Seq(Point)
        <3>1. p \in Paths /\ Exists(m, p) /\ m \in Memory
            BY RunFacts DEF Live
        <3> QED BY <3>1, NodeFacts
    <2>2. \A i \in DOMAIN h : ReadBack(h[i].backup) = h[i].backup
        BY WrittenPoints
    <2> HIDE DEF h
    <2>3. \A i \in DOMAIN h : h[i] \in Point
        BY <2>1
    <2>4. \A i \in DOMAIN h : [backup |-> ReadBack(h[i].backup), state |-> h[i].state] = h[i]
        BY <2>2, <2>3 DEF Point
    <2>5. [i \in DOMAIN h |-> [backup |-> ReadBack(h[i].backup), state |-> h[i].state]] = h
        BY <2>1, <2>4
    <2> HIDE DEF n
    <2>6. n = [policy |-> n.policy, history |-> n.history]
        BY <2>1 DEF Node
    <2> QED BY <2>5, <2>6 DEF n, h
<1>2. \A p \in Paths : Written(p) <=> p \in Live(m)
    BY WrittenLive
<1> QED BY <1>1, <1>2 DEF WrittenNodes

-----------------------------------------------------------------------------
(* What the invariant says at the end of a run.                             *)
LEMMA ReviewFacts ==
    ASSUME BackupInv, pc = "review", NEW p \in Paths
    PROVE /\ Reported(p) => place[p] = "behind" /\ Reached(p)
          /\ Reached(p) => Reported(p) /\ place[p] = "behind"
          /\ ~Reported(p) /\ saved[p] # None => Handled(p)
<1>1. PlaceInv
    BY DEF BackupInv, SearchInv
<1> DEFINE S == {q \in Paths : /\ Reported(q) => place[q] = "behind"
                               /\ ~Reported(q) /\ saved[q] # None => Handled(q)}
<1>2. ASSUME NEW q \in Paths, Parent[q] = Root \/ Parent[q] \in S PROVE q \in S
    <2>0. Trail(q) = {q} \cup Trail(Parent[q])
        BY TrailFacts
    <2>1. ASSUME MissedOrBehind(Parent[q]), Parent[q] # Root => Reported(Parent[q])
          PROVE q \in S
        <3>1. q \in Children(Parent[q])
            BY DEF Children
        <3>2. Reported(q) <=> IsFound(q)
            BY <2>0, <2>1, TrailFacts DEF Reported
        <3>3. place[q] = "missed" => Handled(q)
            BY <2>0 DEF Handled
        <3> QED BY <2>1, <3>1, <3>2, <3>3 DEF MissedOrBehind
    <2>2. CASE Parent[q] = Root
        <3>1. MissedOrBehind(Parent[q])
            BY <1>1, <2>2 DEF PlaceInv
        <3> QED BY <2>1, <2>2, <3>1
    <2>3. CASE Parent[q] # Root
        <3>1. Parent[q] \in S /\ Parent[q] \in Paths
            BY <1>2, <2>3
        <3>2. CASE Reported(Parent[q])
            <4>1. MissedOrBehind(Parent[q])
                BY <1>1, <3>1, <3>2 DEF PlaceInv
            <4> QED BY <2>1, <3>2, <4>1
        <3>3. CASE ~Reported(Parent[q])
            <4>1. ~Reported(q)
                BY <2>0, <3>3 DEF Reported
            <4>2. saved[q] # None => saved[Parent[q]] # None
                BY <2>0, <2>3, TrailFacts DEF BackupInv, SavedInv
            <4>3. Handled(Parent[q]) => Handled(q)
                BY <2>0 DEF Handled
            <4> QED BY <3>1, <3>3, <4>1, <4>2, <4>3
        <3> QED BY <3>2, <3>3
    <2> QED BY <2>2, <2>3
<1>3. p \in S
    <2>1. S \in SUBSET Paths
        OBVIOUS
    <2> HIDE DEF S
    <2> QED BY <1>2, <2>1, TreeInduction
<1>4. Reached(p) => Reported(p)
    BY <1>1 DEF PlaceInv
<1> QED BY <1>3, <1>4 DEF Reached

(* What the search has found is in memory. *)
LEMMA ReviewFound ==
    ASSUME BackupInv, pc = "review", NEW p \in Paths, Reported(p), Policy[p] # "none"
    PROVE /\ p \in Live(m) /\ m.node[p].policy = Policy[p]
          /\ Top(m, p) = m.node[p].history[1].state
          /\ Seen(m.node[p].history[1].state) = Seen(found[p])
          /\ SameContent(p)
<1>1. Reached(p) /\ ReachedFine(p)
    BY ReviewFacts DEF BackupInv, SearchInv, ReachedInv
<1>2. p \in Live(m)
    BY <1>1 DEF ReachedFine, Live, Exists
<1>3. AllSound(m)
    BY RunFacts
<1>4. Head(m.node[p].history) = m.node[p].history[1]
    BY <1>2, <1>3, SoundFacts DEF AllSound, Live
<1> QED BY <1>1, <1>2, <1>4 DEF ReachedFine, Top

(* Without policy only directories are kept. *)
LEMMA ReviewWithoutPolicy ==
    ASSUME BackupInv, pc = "review", NEW p \in Live(m), m.node[p].policy = "none"
    PROVE m.node[p].history[1].state.type = "directory"
<1>1. p \in Paths /\ m.node[p] # None
    BY DEF Live, Exists
<1>2. NodeFine(p)
    BY <1>1 DEF BackupInv, SearchInv, NodeInv
<1>3. place[p] # "inside"
    BY <1>1, ReviewFacts DEF Reached
<1> QED BY <1>1, <1>2, <1>3 DEF NodeFine

(* A path that has always been tracked, at the end of a run. *)
LEMMA ReviewTracked ==
    ASSUME BackupInv, pc = "review", NEW p \in Paths, AlwaysTracked(p), TrackedNow(p)
    PROVE /\ Policy[p] = "track"
          /\ p \in Live(m) =>
                /\ m.node[p].policy = "track"
                /\ Reported(p) => Seen(m.node[p].history[1].state) = Seen(found[p])
                /\ ~Reported(p) => m.node[p].history[1].state = NonExisting
                /\ saved[p] # None => saved[p].policy = "track" /\ Extended(p)
          /\ p \notin Live(m) => saved[p] = None /\ ~Reported(p)
<1>1. Policy[p] = "track"
    BY TrailFacts DEF TrackedNow
<1>2. Reported(p) => /\ p \in Live(m)
                     /\ Seen(m.node[p].history[1].state) = Seen(found[p])
    BY <1>1, ReviewFound
<1>3. NodeFine(p) /\ MissedFine(p)
    BY DEF BackupInv, SearchInv, NodeInv, MissedInv
<1>4. ASSUME ~Reported(p), saved[p] # None
      PROVE m.hint[p] # "wiped" /\ m.node[p].history[1].state = NonExisting
    BY <1>3, <1>4, ReviewFacts DEF MissedFine
<1>5. saved[p] # None => m.node[p] # None
    BY <1>3 DEF NodeFine
<1>6. ASSUME p \in Live(m) PROVE m.node[p].policy = "track" /\ (saved[p] # None \/ Reported(p))
    <2>1. m.node[p] # None
        BY <1>6 DEF Live, Exists
    <2> QED BY <1>3, <2>1, ReviewFacts DEF NodeFine
<1>7. ASSUME p \in Live(m), saved[p] # None PROVE saved[p].policy = "track" /\ Extended(p)
    <2>1. saved[p].policy = "track"
        BY <1>7 DEF BackupInv, FullInv
    <2>2. m.node[p] # None
        BY <1>7 DEF Live, Exists
    <2> QED BY <1>3, <1>6, <1>7, <2>1, <2>2 DEF NodeFine
<1>8. p \notin Live(m) => saved[p] = None /\ ~Reported(p)
    BY <1>2, <1>4, <1>5 DEF Live, Exists
<1> QED BY <1>1, <1>2, <1>4, <1>6, <1>7, <1>8

(* The state in a history that is not younger than a backup. *)
NotAfter(h, b) == {i \in DOMAIN h : h[i].backup <= b}
StateIn(h, b) == IF NotAfter(h, b) = {} THEN NonExisting ELSE h[Min(NotAfter(h, b))].state

LEMMA StateAtIn ==
    \A p, b : StateAt(p, b) = IF saved[p] = None THEN NonExisting ELSE StateIn(saved[p].history, b)
BY DEF StateAt, StateIn, NotAfter

LEMMA MinFacts ==
    ASSUME NEW S \in SUBSET Nat, S # {}
    PROVE Min(S) \in S /\ \A k \in S : Min(S) <= k
<1>1. \E n \in S : \A k \in S : n <= k
    BY Smallest
<1> QED BY <1>1 DEF Min

(* The newest point counts for every backup since then. *)
LEMMA StateInNewest ==
    ASSUME NEW h \in Seq(Point), h # <<>>, NEW b, h[1].backup <= b
    PROVE StateIn(h, b) = h[1].state
<1>1. 1 \in NotAfter(h, b)
    BY DEF NotAfter
<1>2. \A i \in NotAfter(h, b) : i \in Nat /\ 1 <= i
    BY DEF NotAfter
<1>3. Min(NotAfter(h, b)) \in NotAfter(h, b) /\ Min(NotAfter(h, b)) <= 1
    <2>1. NotAfter(h, b) \in SUBSET Nat
        BY <1>2
    <2> QED BY <1>1, <2>1, MinFacts
<1>4. Min(NotAfter(h, b)) = 1
    BY <1>2, <1>3
<1> QED BY <1>1, <1>4 DEF StateIn

(* A point that is too new does not count. *)
LEMMA StateInOlder ==
    ASSUME NEW g \in Seq(Point), g # <<>>, NEW b \in Int, b < g[1].backup
    PROVE StateIn(g, b) = StateIn(Tail(g), b)
<1> DEFINE h == Tail(g)
<1>1. /\ h \in Seq(Point) /\ Len(g) = Len(h) + 1 /\ Len(h) \in Nat
      /\ DOMAIN g = 1 .. Len(h) + 1 /\ DOMAIN h = 1 .. Len(h)
      /\ \A i \in 1 .. Len(h) : h[i] = g[i + 1]
    <2> HIDE DEF Point
    <2> QED OBVIOUS
<1>2. g[1] \in Point /\ g[1].backup \in Int
    <2>1. 1 \in DOMAIN g
        BY <1>1
    <2>2. g[1] \in Point
        BY <2>1
    <2> QED BY <2>2 DEF Point, Runs
<1> DEFINE H == NotAfter(h, b)
           G == NotAfter(g, b)
<1>3. \A i \in H : i \in Nat /\ i + 1 \in G /\ h[i] = g[i + 1]
    BY <1>1 DEF NotAfter
<1>4. 1 \notin G
    BY <1>2 DEF NotAfter
<1>5. \A j \in G : j \in Nat /\ j - 1 \in H
    <2> TAKE j \in G
    <2>1. j \in 1 .. Len(h) + 1 /\ g[j].backup <= b
        BY <1>1 DEF NotAfter
    <2>2. j # 1
        BY <1>4
    <2>3. j - 1 \in 1 .. Len(h) /\ (j - 1) + 1 = j
        BY <1>1, <2>1, <2>2
    <2>4. h[j - 1] = g[j]
        BY <1>1, <2>3
    <2> QED BY <1>1, <2>1, <2>3, <2>4 DEF NotAfter
<1> HIDE DEF H, G, h
<1>6. CASE G = {}
    <2>1. H = {}
        BY <1>3, <1>6
    <2> QED BY <1>6, <2>1 DEF StateIn, G, H, h
<1>7. CASE G # {}
    <2>1. H # {} /\ H \in SUBSET Nat /\ G \in SUBSET Nat
        BY <1>3, <1>5, <1>7
    <2>2. Min(H) \in H /\ Min(G) \in G /\ (\A k \in H : Min(H) <= k) /\ \A k \in G : Min(G) <= k
        BY <1>7, <2>1, MinFacts
    <2>3. Min(H) \in Nat /\ Min(G) \in Nat /\ Min(G) <= Min(H) + 1 /\ Min(H) <= Min(G) - 1
        BY <1>3, <1>5, <2>2
    <2>4. Min(G) = Min(H) + 1
        BY <2>3
    <2>5. h[Min(H)] = g[Min(G)]
        BY <1>3, <2>2, <2>4
    <2> QED BY <1>7, <2>1, <2>5 DEF StateIn, G, H, h
<1> QED BY <1>6, <1>7

(* What a run that is saved leaves behind. *)
LEMMA SaveFacts ==
    ASSUME BackupInv, Save
    PROVE /\ pc = "review" /\ pc' = "idle" /\ IdleInv'
          /\ saved' = [p \in Paths |-> IF p \in Live(m) THEN m.node[p] ELSE None]
          /\ backups' = WrittenBackups
          /\ run \in Runs /\ run = Len(log) + 1 /\ Len(log) \in Nat
          /\ Len(log') = run /\ DOMAIN log' = 1..run /\ DOMAIN log = 1 .. Len(log)
          /\ log' # <<>>
          /\ \A b \in DOMAIN log : log'[b] = log[b] /\ b \in DOMAIN log' /\ b < run /\ b \in Nat
          /\ \A b \in DOMAIN log' : b \in DOMAIN log \/ b = run
          /\ log'[run] = [found |-> [p \in Paths |-> IF Reported(p) THEN found[p] ELSE None],
                          config |-> config]
          /\ log'[run].config = config
          /\ \A p \in Paths : log'[run].found[p] = IF Reported(p) THEN found[p] ELSE None
          /\ LogInv'
<1> DEFINE entry == [found |-> [p \in Paths |-> IF Reported(p) THEN found[p] ELSE None],
                     config |-> config]
           R == [found: [Paths -> States \cup {None}], config: Configs]
<1>0. /\ pc = "review" /\ pc' = "idle" /\ saved' = WrittenNodes /\ backups' = WrittenBackups
      /\ log' = Append(log, entry)
      /\ IdleInv'
    BY DEF Save, NoSearch, IdleInv
<1>1. /\ run \in Runs /\ run = Len(log) + 1 /\ Len(log) \in Nat /\ config \in Configs /\ LogInv
    BY <1>0, RunFacts
<1>2. saved' = [p \in Paths |-> IF p \in Live(m) THEN m.node[p] ELSE None]
    BY <1>0, WrittenNodesFacts
<1>3. entry \in R
    <2>1. \A p \in Paths : found[p] \in States \cup {None}
        BY <1>0, RunFacts DEF States
    <2> QED BY <1>1, <2>1
<1>4. log \in Seq(R)
    BY <1>1 DEF LogInv
<1>5. /\ entry.config = config
      /\ \A p \in Paths : entry.found[p] = IF Reported(p) THEN found[p] ELSE None
    OBVIOUS
<1> HIDE DEF R, entry
<1>6. /\ log' \in Seq(R) /\ Len(log') = run /\ DOMAIN log' = 1..run /\ DOMAIN log = 1 .. Len(log)
      /\ log' # <<>>
      /\ \A b \in DOMAIN log : log'[b] = log[b] /\ b \in DOMAIN log' /\ b < run /\ b \in Nat
      /\ \A b \in DOMAIN log' : b \in DOMAIN log \/ b = run
      /\ log'[run] = entry
    BY <1>0, <1>1, <1>3, <1>4
<1>7. LogInv'
    <2>1. Len(log') <= MaxBackups
        BY <1>1, <1>6 DEF Runs
    <2>2. ASSUME NEW b \in DOMAIN log', NEW p \in Paths, log'[b].found[p] # None
          PROVE \A q \in Trail(Parent[p]) :
                    log'[b].found[q] # None /\ log'[b].found[q].type = "directory"
        <3>1. CASE b \in DOMAIN log
            BY <1>1, <1>6, <2>2, <3>1 DEF LogInv
        <3>2. CASE b = run
            <4>1. Reported(p) /\ found[p] # None
                BY <1>5, <1>6, <2>2, <3>2
            <4>2. \A q \in Trail(Parent[p]) : q \in Paths /\ q \in Trail(p) /\ Trail(q) \subseteq Trail(p)
                BY TrailFacts, TrailTransitive
            <4>3. \A q \in Trail(Parent[p]) : Reported(q)
                BY <4>1, <4>2 DEF Reported
            <4>4. \A q \in Trail(Parent[p]) : found[q] # None /\ found[q].type = "directory"
                BY <1>0, <4>1, RunFacts
            <4> QED BY <1>5, <1>6, <3>2, <4>2, <4>3, <4>4
        <3> QED BY <1>6, <3>1, <3>2
    <2> QED BY <1>6, <2>1, <2>2 DEF LogInv, R
<1> QED BY <1>0, <1>1, <1>2, <1>5, <1>6, <1>7 DEF entry

LEMMA SavedByRun ==
    ASSUME BackupInv, Save
    PROVE SavedInv'
<1>0. /\ pc = "review"
      /\ saved' = [p \in Paths |-> IF p \in Live(m) THEN m.node[p] ELSE None]
      /\ backups' = WrittenBackups /\ run \in Runs
      /\ Len(log') = run /\ log' # <<>> /\ log'[run].config = config
    BY SaveFacts
<1>1. /\ WrittenBackups \in Seq(Runs)
      /\ \A p \in Live(m) : \A i \in DOMAIN m.node[p].history :
            Holds(WrittenBackups, m.node[p].history[i].backup)
    BY <1>0, WrittenPoints
<1>2. m \in Memory /\ Closed(m) /\ Live(m) \subseteq Paths
    BY <1>0, RunFacts DEF Live
<1>3. saved' \in [Paths -> Node \cup {None}]
    <2>1. \A p \in Live(m) : m.node[p] \in Node
        BY <1>2, NodeFacts DEF Live
    <2> HIDE DEF Node
    <2> QED BY <1>0, <2>1
<1>4. \A p \in Live(m) : p \in Paths /\ saved'[p] = m.node[p] /\ m.node[p] # None
    BY <1>0, <1>2 DEF Live, Exists
<1>5. ASSUME NEW p \in Paths, saved'[p] # None
      PROVE /\ log' # <<>>
            /\ Sound(p, saved'[p])
            /\ saved'[p].history[1].backup <= Len(log')
            /\ \A i \in DOMAIN saved'[p].history : IsListed(saved[p].history[i].backup)'
            /\ saved'[p].policy = "none" => saved'[p].history[1].state.type = "directory"
            /\ Steady(p, saved'[p], PolicyOf(log'[Len(log')].config)[p])
            /\ \A q \in Trail(p) : saved'[q] # None
    <2>1. p \in Live(m) /\ saved'[p] = m.node[p] /\ m.node[p] # None
        BY <1>0, <1>4, <1>5
    <2>2. NodeFine(p)
        BY <1>0 DEF BackupInv, SearchInv, NodeInv
    <2>3. /\ Sound(p, m.node[p]) /\ m.node[p].history[1].backup <= run
          /\ Steady(p, m.node[p], Policy[p])
        BY <2>1, <2>2 DEF NodeFine
    <2>4. Policy = PolicyOf(log'[Len(log')].config)
        BY <1>0 DEF Policy
    <2>5. \A i \in DOMAIN saved'[p].history : IsListed(saved[p].history[i].backup)'
        <3>1. \A b : Holds(WrittenBackups, b) => IsListed(b)'
            BY <1>0 DEF IsListed, Holds
        <3>2. \A i \in DOMAIN saved'[p].history : Holds(WrittenBackups, saved'[p].history[i].backup)
            BY <1>1, <2>1
        <3> QED BY <3>1, <3>2
    <2>6. m.node[p].policy = "none" => m.node[p].history[1].state.type = "directory"
        BY <1>0, <2>1, ReviewWithoutPolicy
    <2>7. \A q \in Trail(p) : saved'[q] # None
        BY <1>2, <1>4, <2>1 DEF Closed
    <2> QED BY <1>0, <2>1, <2>3, <2>4, <2>5, <2>6, <2>7
<1> QED BY <1>0, <1>1, <1>3, <1>5 DEF SavedInv

LEMMA FullByRun ==
    ASSUME BackupInv, Save
    PROVE FullInv'
<1>0. /\ pc = "review"
      /\ saved' = [p \in Paths |-> IF p \in Live(m) THEN m.node[p] ELSE None]
      /\ run \in Runs /\ run = Len(log) + 1 /\ Len(log) \in Nat
      /\ Len(log') = run /\ DOMAIN log' = 1..run /\ log'[run].config = config
      /\ \A b \in DOMAIN log : log'[b] = log[b] /\ b \in DOMAIN log' /\ b < run /\ b \in Nat
      /\ \A b \in DOMAIN log' : b \in DOMAIN log \/ b = run
      /\ \A p \in Paths : log'[run].found[p] = IF Reported(p) THEN found[p] ELSE None
    BY SaveFacts
<1>1. ASSUME NEW p \in Paths, AlwaysTracked(p)' PROVE AlwaysTracked(p) /\ TrackedNow(p)
    <2>1. run \in DOMAIN log' /\ PolicyOf(log'[run].config) = Policy
        BY <1>0 DEF Policy, Runs
    <2>2. \A b \in DOMAIN log' : \A q \in Trail(p) :
            PolicyOf(log'[b].config)[q] = "track" /\ q \notin log'[b].config.ignored
        BY <1>1 DEF AlwaysTracked, PolicyIn, PolicyOf
    <2>3. TrackedNow(p)
        BY <1>0, <2>1, <2>2 DEF TrackedNow
    <2>4. AlwaysTracked(p)
        BY <1>0, <2>2 DEF AlwaysTracked, PolicyIn
    <2> QED BY <2>3, <2>4
<1>2. ASSUME NEW p \in Paths, AlwaysTracked(p)', saved'[p] # None
      PROVE saved'[p].policy = "track"
    <2>1. p \in Live(m) /\ saved'[p] = m.node[p]
        BY <1>0, <1>2
    <2> QED BY <1>0, <1>1, <1>2, <2>1, ReviewTracked
<1>3. ASSUME NEW p \in Paths, AlwaysTracked(p)', NEW b \in DOMAIN log'
      PROVE Seen(StateAt(p, b)') = Seen(WasFound(p, b)')
    <2>0. AlwaysTracked(p) /\ TrackedNow(p)
        BY <1>1, <1>3
    <2>1. StateAt(p, b)' = IF saved'[p] = None THEN NonExisting ELSE StateIn(saved'[p].history, b)
        BY DEF StateAt, StateIn, NotAfter
    <2>2. WasFound(p, b)' = IF log'[b].found[p] = None THEN NonExisting ELSE log'[b].found[p]
        BY DEF WasFound
    <2>3. b \in DOMAIN log => /\ WasFound(p, b)' = WasFound(p, b)
                              /\ Seen(StateAt(p, b)) = Seen(WasFound(p, b))
        BY <1>0, <2>0, <2>2 DEF WasFound, BackupInv, FullInv, TrackedHistoryIsFull
    <2>4. b = run => WasFound(p, b)' = IF Reported(p) THEN found[p] ELSE NonExisting
        <3>1. Reported(p) => found[p] # None
            BY TrailFacts DEF Reported, IsFound
        <3> QED BY <1>0, <2>2, <3>1
    <2>5. CASE p \notin Live(m)
        <3>1. saved'[p] = None
            BY <1>0, <2>5
        <3>2. saved[p] = None /\ ~Reported(p)
            BY <1>0, <2>0, <2>5, ReviewTracked
        <3>3. StateAt(p, b) = NonExisting /\ StateAt(p, b)' = NonExisting
            BY <2>1, <3>1, <3>2, StateAtIn
        <3> QED BY <1>0, <2>3, <2>4, <3>2, <3>3
    <2>6. CASE p \in Live(m)
        <3> DEFINE h == m.node[p].history
        <3>1. m.node[p] # None /\ saved'[p] = m.node[p]
            BY <1>0, <2>6 DEF Live, Exists
        <3>2. NodeFine(p)
            BY <1>0 DEF BackupInv, SearchInv, NodeInv
        <3>3. Sound(p, m.node[p]) /\ h[1].backup <= run
            BY <3>1, <3>2 DEF NodeFine
        <3>4. h \in Seq(Point) /\ h # <<>>
            BY <3>3, SoundFacts DEF Sound
        <3>5. StateAt(p, b)' = StateIn(h, b)
            BY <2>1, <3>1
        <3>6. CASE b = run
            <4>1. StateIn(h, b) = h[1].state
                BY <3>3, <3>4, <3>6, StateInNewest
            <4>2. /\ Reported(p) => Seen(h[1].state) = Seen(found[p])
                  /\ ~Reported(p) => h[1].state = NonExisting
                BY <1>0, <2>0, <2>6, ReviewTracked
            <4> QED BY <2>4, <3>5, <3>6, <4>1, <4>2
        <3>7. CASE b \in DOMAIN log
            <4>0. b < run /\ b \in Int
                BY <1>0, <3>7
            <4>1. CASE saved[p] = None
                <5>1. Len(h) = 1 /\ h[1].backup = run
                    BY <3>1, <3>2, <4>1 DEF NodeFine
                <5>2. StateIn(h, b) = StateIn(Tail(h), b)
                    BY <3>4, <4>0, <5>1, StateInOlder
                <5>3. DOMAIN Tail(h) = {}
                    <6> HIDE DEF h, Point
                    <6>1. Tail(h) \in Seq(Point) /\ Len(Tail(h)) = Len(h) - 1
                        BY <3>4
                    <6> DEFINE t == Tail(h)
                    <6> HIDE DEF t
                    <6>2. t \in Seq(Point) /\ Len(t) = 0
                        BY <5>1, <6>1 DEF t
                    <6>3. DOMAIN t = {}
                        BY <6>2
                    <6> QED BY <6>3 DEF t
                <5>4. StateIn(Tail(h), b) = NonExisting
                    BY <5>3 DEF StateIn, NotAfter
                <5>5. StateAt(p, b) = NonExisting
                    BY <4>1, StateAtIn
                <5> QED BY <2>3, <3>5, <3>7, <5>2, <5>4, <5>5
            <4>2. CASE saved[p] # None
                <5>1. Extended(p)
                    BY <1>0, <2>0, <2>6, <4>2, ReviewTracked
                <5>2. Head(h) = h[1]
                    BY <3>4
                <5>3. StateIn(h, b) = StateIn(saved[p].history, b)
                    <6>1. CASE h = saved[p].history
                        BY <6>1
                    <6>2. CASE Head(h).backup = run /\ Tail(h) = saved[p].history
                        BY <3>4, <4>0, <5>2, <6>2, StateInOlder
                    <6> QED BY <5>1, <6>1, <6>2 DEF Extended
                <5>4. StateAt(p, b) = StateIn(saved[p].history, b)
                    BY <4>2, StateAtIn
                <5> QED BY <2>3, <3>5, <3>7, <5>3, <5>4
            <4> QED BY <4>1, <4>2
        <3> QED BY <1>0, <3>6, <3>7
    <2> QED BY <2>5, <2>6
<1>4. TrackedHistoryIsFull'
    BY <1>3 DEF TrackedHistoryIsFull
<1> QED BY <1>2, <1>4 DEF FullInv

LEMMA SaveInv ==
    ASSUME BackupInv, Save
    PROVE BackupInv'
<1>1. pc' = "idle" /\ IdleInv' /\ LogInv'
    BY SaveFacts
<1> QED BY <1>1, SavedByRun, FullByRun DEF BackupInv

-----------------------------------------------------------------------------
(* The theorems.                                                            *)
LEMMA NextInv ==
    ASSUME BackupInv, PoliciesStay, [Next]_vars
    PROVE BackupInv'
<1>1. CASE StartRun
    BY <1>1, StartRunInv
<1>2. CASE EndSearch
    BY <1>2, EndSearchInv
<1>3. CASE Save
    BY <1>3, SaveInv
<1>4. CASE Discard
    BY <1>4, DiscardInv
<1>5. ASSUME NEW p \in Paths, Reach(p) PROVE BackupInv'
    BY <1>5, ReachInv
<1>6. ASSUME NEW p \in Paths, Miss(p) PROVE BackupInv'
    BY <1>6, MissInv
<1>7. ASSUME NEW p \in Paths, Leave(p) PROVE BackupInv'
    BY <1>7, LeaveInv
<1>8. CASE UNCHANGED vars
    BY <1>8, StutterInv
<1> QED BY <1>1, <1>2, <1>3, <1>4, <1>5, <1>6, <1>7, <1>8 DEF Next

(* Between two runs the metadata file fits the log of the runs, and during  *)
(* a run the metadata in memory fit what the search has done so far:        *)
(* initiateBackup() keeps both, whichever order it visits the paths in.     *)
THEOREM BackupInvariant ==
    ASSUME PoliciesStay
    PROVE Spec => []BackupInv
<1>1. BackupInv /\ [Next]_vars => BackupInv'
    BY NextInv
<1> QED BY <1>1, InitInv, PTL DEF Spec

LEMMA TypesFollow ==
    ASSUME BackupInv
    PROVE TypeOK
<1>1. SavedInv /\ LogInv
    BY DEF BackupInv
<1> DEFINE Written0 == [backup: 0..MaxBackups, state: Mixed \cup {NonExisting}]
<1>2. saved \in [Paths -> {None} \cup [policy: Policies, history: Seq(Written0)]]
    <2>1. saved \in [Paths -> Node \cup {None}]
        BY <1>1 DEF SavedInv
    <2>2. ASSUME NEW n \in Node PROVE n \in [policy: Policies, history: Seq(Written0)]
        <3>1. Point \subseteq Written0
            BY DEF Point, Runs
        <3>2. n.history \in Seq(Point) /\ n.policy \in Policies
              /\ n = [policy |-> n.policy, history |-> n.history]
            BY DEF Node
        <3> HIDE DEF Written0, Point
        <3>3. n.history \in Seq(Written0)
            BY <3>1, <3>2
        <3> QED BY <3>2, <3>3
    <2> HIDE DEF Written0, Node
    <2> QED BY <2>1, <2>2
<1>3. backups \in Seq(Runs) /\ pc \in {"idle", "search", "review"}
    BY <1>1 DEF SavedInv, BackupInv
<1>4. /\ m \in Memory /\ Exact(m)
      /\ config \in Configs \cup {None} /\ found \in [Paths -> States \cup {None}]
      /\ place \in [Paths -> {"ahead", "inside", "behind", "missed"}]
    <2>1. CASE pc = "idle"
        <3>1. IdleInv
            BY <2>1 DEF BackupInv
        <3>2. NoNodes \in [Paths -> Node \cup {None}] /\ NoNodes \in [Paths -> States \cup {None}]
            BY DEF NoNodes
        <3>3. m \in Memory /\ Exact(m)
            BY <3>1, <3>2, LoadedFacts DEF IdleInv
        <3> QED BY <3>1, <3>2, <3>3 DEF IdleInv
    <2>2. CASE pc # "idle"
        <3>1. m \in Memory /\ Exact(m) /\ config \in Configs
            BY <2>2, RunFacts
        <3>2. RunInv /\ PlaceInv
            BY <2>2 DEF BackupInv, SearchInv
        <3> QED BY <3>1, <3>2 DEF RunInv, PlaceInv, FileSystems
    <2> QED BY <2>1, <2>2
<1>5. m.refs \in [Runs -> Nat] /\ m.flag \subseteq Paths
    <2>1. m.refs \in [Runs -> Int] /\ m.flag \subseteq Paths
        BY <1>4 DEF Memory
    <2>2. Histories(m, Live(m)) /\ Live(m) \in SUBSET Paths
        BY <1>4, NodeFacts
    <2>3. \A b \in Runs : m.refs[b] \in Nat
        <3> TAKE b \in Runs
        <3>1. CountIn(m, Live(m), b) \in Nat
            BY <2>2, PointsFinite
        <3> QED BY <1>4, <3>1 DEF Exact
    <2> QED BY <2>1, <2>3
<1>6. m.hint \in [Paths -> Hints]
    BY <1>4 DEF Memory
<1> QED BY <1>2, <1>3, <1>4, <1>5, <1>6 DEF TypeOK, Hints

(* Metadata in memory and in the file keep their shape, and no reference    *)
(* count wraps: prepareNodeForWiping(), reassignPointToCurrent() and        *)
(* handlePolicyChanges() never take a point away that is not counted.       *)
THEOREM BackupTypes ==
    ASSUME PoliciesStay
    PROVE Spec => []TypeOK
<1>1. BackupInv => TypeOK
    BY TypesFollow
<1> QED BY <1>1, BackupInvariant, PTL

(* Every point written is resolved to its own backup by the next run, as    *)
(* metadataWrite() omits only backups that no point refers to.              *)
THEOREM PointsKeptByBackup ==
    ASSUME PoliciesStay
    PROVE Spec => []PointsKeepTheirBackup
<1>1. BackupInv => PointsKeepTheirBackup
    <2> SUFFICES ASSUME BackupInv, pc = "review", NEW p \in Paths, Written(p),
                        NEW i \in DOMAIN m.node[p].history
                 PROVE ReadBack(m.node[p].history[i].backup) = m.node[p].history[i].backup
        BY DEF PointsKeepTheirBackup
    <2>1. p \in Live(m)
        BY WrittenLive
    <2> QED BY <2>1, WrittenPoints
<1> QED BY <1>1, BackupInvariant, PTL

(* ref_count of a backup is the number of points that are written for it.   *)
THEOREM CountsAreExact ==
    ASSUME PoliciesStay
    PROVE Spec => []RefCountsExact
<1>1. BackupInv => RefCountsExact
    <2> SUFFICES ASSUME BackupInv, pc = "review", NEW b \in Runs
                 PROVE m.refs[b] = CountIn(m, {p \in Paths : Written(p)}, b)
        BY DEF RefCountsExact
    <2>1. {p \in Paths : Written(p)} = Live(m)
        <3>1. Live(m) \subseteq Paths
            BY DEF Live
        <3> QED BY <3>1, WrittenLive
    <2>2. Exact(m)
        BY RunFacts
    <2> QED BY <2>1, <2>2 DEF Exact
<1> QED BY <1>1, BackupInvariant, PTL

(* Histories in the metadata file are ordered by backup, change from point  *)
(* to point, begin with an existing state and have one point if their path  *)
(* is not tracked.                                                          *)
THEOREM HistoriesAreWellFormed ==
    ASSUME PoliciesStay
    PROVE Spec => []HistoryWellFormed
<1>1. BackupInv => HistoryWellFormed
    BY DEF BackupInv, SavedInv, Sound, HistoryWellFormed
<1> QED BY <1>1, BackupInvariant, PTL

(* A run that ends has backed up everything it has found, as it was found.  *)
THEOREM FoundIsKept ==
    ASSUME PoliciesStay
    PROVE Spec => []FoundIsBackedUp
<1>1. BackupInv => FoundIsBackedUp
    <2> SUFFICES ASSUME BackupInv, pc = "review", NEW p \in Paths, Reported(p), Policy[p] # "none"
                 PROVE /\ Written(p)
                       /\ Seen(Top(m, p)) = Seen(found[p])
                       /\ \/ Top(m, p).content = found[p].content
                          \/ saved[p] # None /\ LooksTheSame(LastState(saved[p].history), found[p])
                       /\ m.node[p].policy = Policy[p]
        BY DEF FoundIsBackedUp
    <2>1. Written(p)
        BY ReviewFound, WrittenLive
    <2> QED BY <2>1, ReviewFound DEF SameContent
<1> QED BY <1>1, BackupInvariant, PTL

(* What is in a backup without a policy is a directory.                     *)
THEOREM NoPolicyDirectories ==
    ASSUME PoliciesStay
    PROVE Spec => []NoPolicyMeansDirectory
<1>1. BackupInv => NoPolicyMeansDirectory
    <2> SUFFICES ASSUME BackupInv, pc = "review", NEW p \in Paths, Written(p),
                        m.node[p].policy = "none"
                 PROVE Top(m, p).type = "directory"
        BY DEF NoPolicyMeansDirectory
    <2>1. p \in Live(m)
        BY WrittenLive
    <2>2. Sound(p, m.node[p])
        BY <2>1, RunFacts DEF AllSound, Live
    <2> QED BY <2>1, <2>2, ReviewWithoutPolicy, SoundFacts DEF Top
<1> QED BY <1>1, BackupInvariant, PTL

(* A mirrored path that is gone is not written, if its directory was found. *)
THEOREM MirrorForgets ==
    ASSUME PoliciesStay
    PROVE Spec => []MirrorForgetsRemoved
<1>1. BackupInv => MirrorForgetsRemoved
    <2> SUFFICES ASSUME BackupInv, pc = "review", NEW p \in Paths, Policy[p] = "mirror", ~Reported(p),
                        Parent[p] # Root => Reported(Parent[p]) /\ found[Parent[p]].type = "directory",
                        Written(p)
                 PROVE FALSE
        BY DEF MirrorForgetsRemoved
    <2>1. p \in Live(m) /\ m.node[p] # None
        BY WrittenLive DEF Live, Exists
    <2>2. PlaceInv /\ NodeFine(p) /\ MissedFine(p)
        BY DEF BackupInv, SearchInv, NodeInv, MissedInv
    <2>3. saved[p] # None
        BY <2>1, <2>2, ReviewFacts DEF NodeFine
    <2>4. Trail(p) = {p} \cup Trail(Parent[p])
        BY TrailFacts
    <2>5. ~IsFound(p)
        <3>1. Parent[p] = Root => Trail(Parent[p]) = {}
            BY TrailFacts
        <3>2. Parent[p] # Root => Reported(Parent[p])
            OBVIOUS
        <3> QED BY <2>4, <3>1, <3>2 DEF Reported
    <2>6. MissedOrBehind(Parent[p])
        <3>1. CASE Parent[p] = Root
            BY <2>2, <3>1 DEF PlaceInv
        <3>2. CASE Parent[p] # Root
            <4>1. Parent[p] \in Paths /\ place[Parent[p]] = "behind"
                BY <3>2, TreeAssumption, ReviewFacts
            <4> QED BY <2>2, <4>1 DEF PlaceInv
        <3> QED BY <3>1, <3>2
    <2>7. place[p] = "missed"
        BY <2>3, <2>5, <2>6 DEF MissedOrBehind, Children
    <2>8. m.hint[p] = "wiped"
        BY <2>2, <2>7 DEF MissedFine
    <2> QED BY <2>1, <2>8 DEF Live
<1> QED BY <1>1, BackupInvariant, PTL

(* A copied or tracked path stays in the backup when it is removed, unless  *)
(* the directory above it is mirrored or is no directory any more.          *)
THEOREM RemovedPathsStay ==
    ASSUME PoliciesStay
    PROVE Spec => []RemovedIsKept
<1>1. BackupInv => RemovedIsKept
    <2>1. ASSUME BackupInv, pc = "review", NEW p \in Paths, Keeps(p) PROVE Written(p)
        <3>1. NodeFine(p) /\ MissedFine(p)
            BY <2>1 DEF BackupInv, SearchInv, NodeInv, MissedInv
        <3>2. p \in Live(m)
            BY <2>1, <3>1 DEF Keeps, NodeFine, MissedFine, Live, Exists
        <3> QED BY <2>1, <3>2, WrittenLive
    <2> QED BY <2>1 DEF RemovedIsKept, Keeps
<1> QED BY <1>1, BackupInvariant, PTL

(* The history of a path that has always been tracked, below directories    *)
(* that have been, tells of every saved run what it has found.              *)
THEOREM TrackedHistoryKept ==
    ASSUME PoliciesStay
    PROVE Spec => []TrackedHistoryIsFull
<1>1. BackupInv => TrackedHistoryIsFull
    BY DEF BackupInv, FullInv
<1> QED BY <1>1, BackupInvariant, PTL

(* A step keeps the history of a tracked path, or adds one point to it:     *)
(* metadataWrite() replaces no point that an earlier run has written.       *)
THEOREM TrackedHistoryGrows ==
    ASSUME PoliciesStay
    PROVE Spec => TrackedHistoryOnlyGrows
<1>1. ASSUME BackupInv, Save, NEW p \in Paths, saved[p] # None, saved'[p] # None,
             saved[p].policy = "track", saved'[p].policy = "track"
      PROVE saved[p].history \in {saved'[p].history, Tail(saved'[p].history)}
    <2>1. pc = "review" /\ saved'[p] = m.node[p] /\ m.node[p] # None
        BY <1>1, SaveFacts DEF Live, Exists
    <2>2. NodeFine(p)
        BY <1>1, <2>1 DEF BackupInv, SearchInv, NodeInv
    <2>3. Extended(p)
        BY <1>1, <2>1, <2>2 DEF NodeFine
    <2> QED BY <2>1, <2>3 DEF Extended
<1>2. [Next]_vars => Save \/ saved' = saved
    BY DEF Next, StartRun, EndSearch, Discard, Reach, Miss, Leave, vars
<1>3. BackupInv /\ [Next]_vars =>
        [\A p \in Paths :
            saved[p] # None /\ saved'[p] # None
                => (saved[p].policy = "track" /\ saved'[p].policy = "track"
                    => saved[p].history \in {saved'[p].history, Tail(saved'[p].history)})]_saved
    BY <1>1, <1>2
<1> QED BY <1>3, BackupInvariant, PTL DEF Spec, TrackedHistoryOnlyGrows

-----------------------------------------------------------------------------
(* What a run says to have changed: what a hint tells of a node whose policy *)
(* is what it was.                                                          *)
ToldFine(p) ==
    Exists(m, p) =>
        IF saved[p] = None THEN m.hint[p] \in {"added", "wiped"}
        ELSE LET hint == m.hint[p]
                 old == saved[p].history[1].state
                 new == m.node[p].history[1].state
             IN /\ Handled(p) => hint \in {"unchanged", "removed", "wiped"}
                /\ hint = "removed" => Handled(p)
                /\ hint \in {"added", "changed", "replaced", "directoryReplaced"} => Reached(p)
                /\ p \notin m.flag =>
                    /\ m.node[p].policy = saved[p].policy
                    /\ hint \in {"none", "unchanged"} => new = old
                    /\ hint = "added" => old = NonExisting
                    /\ hint = "replaced" => old.type # "directory"
                    /\ hint = "changed" => old # NonExisting /\ new # old /\ new.type = old.type
                    /\ hint = "removed" => old # NonExisting /\ LastState(m.node[p].history) = old
                    /\ hint = "wiped" => \/ old.type # "directory"
                                         \/ LastState(m.node[p].history).type = "directory"

(* Below a path whose removal is recorded nothing is taken away.            *)
WholeFine(p) ==
    Handled(p) /\ Exists(m, p) /\ m.hint[p] # "wiped"
        => \A q \in Subtree(p) : Exists(m, q) => m.hint[q] # "wiped"
HintsInv == pc # "idle" => \A p \in Paths : ToldFine(p) /\ WholeFine(p)

(* What a path that a step leaves alone is said to be does not change.      *)
LEMMA ToldKept ==
    ASSUME NEW q \in Paths, ToldFine(q), Kept(q), saved' = saved,
           Handled(q)' <=> Handled(q), Reached(q)' <=> Reached(q)
    PROVE ToldFine(q)'
BY DEF ToldFine, Kept, Exists

LEMMA ToldReach ==
    ASSUME BackupInv, NEW p \in Paths, Reach(p), NEW q \in Paths, ToldFine(q), WholeFine(q)
    PROVE ToldFine(q)' /\ WholeFine(q)'
<1>1. OnlyAt(m, m', p) /\ FoundIn(m, m', p, Policy[p], found[p])
    BY ReachEffect
<1>2. /\ pc = "search" /\ place[p] = "ahead" /\ AtParentOf(p) /\ saved' = saved
      /\ place' = [place EXCEPT ![p] = "inside"]
    BY DEF Reach
<1>3. m.node[p] = saved[p] /\ ~Handled(p)
    BY <1>2, AheadFacts, SubtreeFacts DEF Untouched
<1>4. place'[p] = "inside" /\ \A r \in Paths \ {p} : place'[r] = place[r]
    BY <1>2 DEF BackupInv, SearchInv, PlaceInv
<1>5. \A r \in Paths : Handled(r)' <=> Handled(r)
    <2>1. \A r \in Paths : place'[r] = "missed" <=> place[r] = "missed"
        BY <1>2, <1>4
    <2> QED BY <2>1, TrailFacts DEF Handled
<1>6. \A r \in Paths \ {p} : Kept(r)
    BY <1>1 DEF OnlyAt, Kept
<1>7. ToldFine(q)'
    <2>1. CASE q # p
        BY <1>2, <1>4, <1>5, <1>6, <2>1, ToldKept DEF Reached
    <2>2. CASE q = p /\ Exists(m, p)
        <3>1. Told(m, m', p)
            BY <1>1, <2>2 DEF FoundIn
        <3>2. Reached(p)' /\ ~Handled(p)' /\ saved'[p] # None
            BY <1>2, <1>3, <1>4, <1>5, <2>2 DEF Reached, Exists
        <3> QED BY <1>2, <1>3, <2>2, <3>1, <3>2 DEF ToldFine, Told
    <2>3. CASE q = p /\ ~Exists(m, p)
        <3>1. m'.hint[p] = "added" /\ saved[p] = None
            BY <1>1, <1>3, <2>3 DEF FoundIn, Exists
        <3> QED BY <1>2, <2>3, <3>1 DEF ToldFine
    <2> QED BY <2>1, <2>2, <2>3
<1>8. WholeFine(q)'
    <2> SUFFICES ASSUME Handled(q)', Exists(m', q), m'.hint[q] # "wiped",
                        NEW r \in Subtree(q), Exists(m', r)
                 PROVE m'.hint[r] # "wiped"
        BY DEF WholeFine, Subtree
    <2>1. q # p /\ Handled(q)
        BY <1>3, <1>5
    <2>2. CASE r = p
        BY <1>1, <2>2 DEF OnlyAt, Live
    <2>3. CASE r # p
        <3>1. Kept(q) /\ Kept(r)
            BY <1>6, <2>1, <2>3 DEF Subtree
        <3> QED BY <2>1, <3>1 DEF WholeFine, Kept, Exists
    <2> QED BY <2>2, <2>3
<1> QED BY <1>7, <1>8

LEMMA ToldMiss ==
    ASSUME BackupInv, NEW p \in Paths, Miss(p), NEW q \in Paths, ToldFine(q), WholeFine(q)
    PROVE ToldFine(q)' /\ WholeFine(q)'
<1>1. /\ Missing(m, m', p) /\ saved' = saved /\ saved[p] # None
      /\ \A r \in Subtree(p) : m.node[r] = saved[r] /\ (r \in Live(m) <=> saved[r] # None)
      /\ place'[p] = "missed" /\ \A r \in Paths \ {p} : place'[r] = place[r]
      /\ pc = "search" /\ place[p] = "ahead" /\ AtParentOf(p)
    BY MissFacts
<1>2. PICK n : Goes(m, m', p, n) \/ \E extend \in BOOLEAN : Stays(m, m', p, n, extend)
    BY <1>1 DEF Missing
<1>3. Subtree(p) \subseteq Paths /\ p \in Subtree(p)
    BY SubtreeFacts
<1>4. \A r \in Subtree(p) : Exists(m', r) => saved[r] # None
    <2> SUFFICES ASSUME NEW r \in Subtree(p), saved[r] = None PROVE m'.node[r] = None
        BY DEF Exists
    <2>1. m'.node[r] = Base(m, p, n, r)
        BY <1>1, <1>2 DEF Goes, Stays
    <2> QED BY <1>1, <2>1 DEF Base
<1>5. \A r \in Paths \ Subtree(p) : Kept(r) /\ (Handled(r)' <=> Handled(r)) /\ (Reached(r)' <=> Reached(r))
    <2> TAKE r \in Paths \ Subtree(p)
    <2>1. Kept(r)
        BY <1>1 DEF Missing, Outside, Kept
    <2>2. \A t \in Trail(r) : place'[t] = place[t]
        BY <1>1, TrailFacts
    <2>3. r # p
        BY <1>3
    <2> QED BY <1>1, <2>1, <2>2, <2>3 DEF Handled, Reached
<1>6. \A r \in Subtree(p) : Handled(r)'
    BY <1>1, SubtreeFacts DEF Handled
<1>7. CASE q \notin Subtree(p)
    <2>1. ToldFine(q)'
        BY <1>1, <1>5, <1>7, ToldKept
    <2>2. WholeFine(q)'
        <3> SUFFICES ASSUME Handled(q)', Exists(m', q), m'.hint[q] # "wiped",
                            NEW r \in Subtree(q), Exists(m', r)
                     PROVE m'.hint[r] # "wiped"
            BY DEF WholeFine, Subtree
        <3>1. Handled(q) /\ Kept(q)
            BY <1>5, <1>7
        <3>2. r \notin Subtree(p)
            <4> SUFFICES ASSUME r \in Subtree(p) PROVE FALSE
                OBVIOUS
            <4>1. r \in Paths /\ p \in Trail(r) /\ q \in Trail(r)
                BY SubtreeFacts DEF Subtree
            <4>2. q \in Trail(p) \/ p \in Trail(q)
                BY <4>1, TrailOrder
            <4>3. q \in Trail(p)
                BY <1>7, <4>2, TrailFacts
            <4>4. Handled(p)
                BY <3>1, <4>3, TrailTransitive DEF Handled
            <4>5. ~Handled(p)
                BY <1>1, <1>3, AheadFacts DEF Untouched
            <4> QED BY <4>4, <4>5
        <3>3. Kept(r)
            BY <1>5, <3>2 DEF Subtree
        <3> QED BY <3>1, <3>3 DEF WholeFine, Kept, Exists
    <2> QED BY <2>1, <2>2
<1>8. CASE q \in Subtree(p)
    <2>1. ASSUME Exists(m', q) PROVE ToldFine(q)'
        <3>1. q \in Live(m) /\ saved[q] # None /\ m.node[q] = saved[q] /\ Sound(q, saved[q])
            BY <1>1, <1>4, <1>8, <2>1, RunFacts
        <3> DEFINE old == m.node[q].history[1].state
        <3>2. /\ m'.hint[q] \in {"unchanged", "removed", "wiped"}
              /\ q \notin m'.flag =>
                   /\ m'.node[q].policy = m.node[q].policy
                   /\ m'.hint[q] \in {"unchanged", "wiped"} => m'.node[q] = m.node[q]
                   /\ m'.hint[q] = "removed" => old # NonExisting /\ LastState(m'.node[q].history) = old
            BY <1>1, <1>8, <3>1 DEF Missing, Noticed
        <3>3. old.type = "directory" => LastState(saved[q].history) = old
            <4>1. old.type = "directory" => old # NonExisting
                BY DEF NonExisting
            <4> QED BY <3>1, <4>1, RemovedLast
        <3>4. Handled(q)' /\ saved' = saved
            BY <1>1, <1>6, <1>8
        <3> QED BY <3>1, <3>2, <3>3, <3>4 DEF ToldFine
    <2>2. ToldFine(q)'
        BY <2>1 DEF ToldFine
    <2>3. WholeFine(q)'
        <3> SUFFICES ASSUME Exists(m', q), m'.hint[q] # "wiped", NEW r \in Subtree(q), Exists(m', r)
                     PROVE m'.hint[r] # "wiped"
            BY DEF WholeFine, Subtree
        <3>1. r \in Subtree(p)
            BY <1>8, TrailTransitive, TrailFacts DEF Subtree
        <3>2. q \in Live(m) /\ r \in Live(m)
            BY <1>1, <1>4, <1>8, <3>1
        <3>3. ~Goes(m, m', p, n)
            BY <1>8, <3>2 DEF Goes, Live
        <3> QED BY <1>2, <3>1, <3>2, <3>3 DEF Stays
    <2> QED BY <2>2, <2>3
<1> QED BY <1>7, <1>8

LEMMA ToldLeave ==
    ASSUME BackupInv, NEW p \in Paths, Leave(p), NEW q \in Paths, ToldFine(q), WholeFine(q)
    PROVE ToldFine(q)' /\ WholeFine(q)'
<1>1. /\ Left(m, m', p) /\ saved' = saved /\ pc = "search"
      /\ place'[p] = "behind" /\ \A r \in Paths \ {p} : place'[r] = place[r]
      /\ place[p] = "inside" /\ Reached(p) /\ p \in Live(m) /\ NodeFine(p) /\ ReachedFine(p)
      /\ \A r \in Trail(Parent[p]) : Reached(r)
    BY LeaveFacts
<1>2. \A r \in Paths : (Handled(r)' <=> Handled(r)) /\ (Reached(r)' <=> Reached(r))
    <2>1. \A r \in Paths : place'[r] = "missed" <=> place[r] = "missed"
        BY <1>1
    <2> QED BY <1>1, <2>1, TrailFacts DEF Handled, Reached
<1>3. ~Handled(p)
    BY <1>1, TrailFacts DEF Handled, Reached
<1>4. \A r \in Paths \ {p} : Kept(r)
    BY <1>1 DEF Left, Kept
<1>5. ToldFine(q)'
    <2>1. CASE q # p
        BY <1>1, <1>2, <1>4, <2>1, ToldKept
    <2>2. CASE q = p /\ ~Purged(m, p)
        <3>1. m'.node[p] = m.node[p] /\ (p \in m'.flag <=> p \in m.flag)
            BY <1>1 DEF Left
        <3>2. m'.hint[p] = m.hint[p] \/ (m'.hint[p] = "unchanged" /\ m.hint[p] \in {"none", "unchanged"})
            BY <1>1, <2>2 DEF Left
        <3> QED BY <1>1, <1>2, <1>3, <2>2, <3>1, <3>2 DEF ToldFine, Exists
    <2>3. CASE q = p /\ Purged(m, p)
        <3>1. /\ m'.node[p] = m.node[p] /\ (p \in m'.flag <=> p \in m.flag)
              /\ m'.hint[p] = "wiped"
            BY <1>1, <2>3 DEF Left
        <3>2. ASSUME saved[p] # None, p \notin m.flag
              PROVE /\ m.node[p].policy = saved[p].policy
                    /\ LastState(m.node[p].history).type = "directory"
            <4>1. m.node[p].policy = saved[p].policy
                BY <1>1, <2>3, <3>2 DEF ToldFine, Live
            <4>2. m.node[p].policy = "none" /\ Sound(p, m.node[p])
                BY <1>1, <2>3 DEF Purged, ReachedFine, NodeFine
            <4>3. m.node[p].history[1].state.type = "directory"
                BY <1>1, <3>2, <4>2 DEF NodeFine
            <4>4. m.node[p].history[1].state # NonExisting
                BY <4>3 DEF NonExisting
            <4> QED BY <4>1, <4>2, <4>3, <4>4, RemovedLast
        <3> QED BY <1>1, <1>2, <1>3, <2>3, <3>1, <3>2 DEF ToldFine, Exists
    <2> QED BY <2>1, <2>2, <2>3
<1>6. WholeFine(q)'
    <2> SUFFICES ASSUME Handled(q)', Exists(m', q), m'.hint[q] # "wiped",
                        NEW r \in Subtree(q), Exists(m', r)
                 PROVE m'.hint[r] # "wiped"
        BY DEF WholeFine, Subtree
    <2>1. q # p /\ Handled(q)
        BY <1>2, <1>3
    <2>2. r # p
        <3> SUFFICES ASSUME r = p PROVE FALSE
            OBVIOUS
        <3>1. q \in Trail(p)
            BY TrailFacts
        <3>2. Handled(p)
            BY <2>1, <3>1, TrailTransitive DEF Handled
        <3> QED BY <1>3, <3>2
    <2>3. Kept(q) /\ Kept(r)
        BY <1>4, <2>1, <2>2 DEF Subtree
    <2> QED BY <2>1, <2>3 DEF WholeFine, Kept, Exists
<1> QED BY <1>5, <1>6

LEMMA HintsStep ==
    ASSUME BackupInv, HintsInv, [Next]_vars
    PROVE HintsInv'
<1> SUFFICES ASSUME pc' # "idle", NEW q \in Paths PROVE ToldFine(q)' /\ WholeFine(q)'
    BY DEF HintsInv
<1>1. CASE StartRun
    <2>1. m' = Loaded(saved) /\ saved' = saved /\ place' = [p \in Paths |-> "ahead"]
        BY <1>1 DEF StartRun
    <2>2. \A r \in Paths : m'.node[r] = saved'[r] /\ m'.hint[r] = "none" /\ ~Handled(r)'
        BY <2>1, TrailFacts DEF Loaded, Handled
    <2> QED BY <2>2 DEF ToldFine, WholeFine, Exists
<1>2. CASE EndSearch \/ UNCHANGED vars
    <2>1. m' = m /\ saved' = saved /\ place' = place /\ pc # "idle"
        BY <1>2 DEF EndSearch, vars
    <2>2. ToldFine(q) /\ WholeFine(q)
        BY <2>1 DEF HintsInv
    <2> QED BY <2>1, <2>2 DEF ToldFine, WholeFine, Exists, Handled, Reached
<1>3. CASE Save \/ Discard
    BY <1>3 DEF Save, Discard
<1>4. ASSUME NEW p \in Paths, Reach(p) \/ Miss(p) \/ Leave(p) PROVE ToldFine(q)' /\ WholeFine(q)'
    <2>1. ToldFine(q) /\ WholeFine(q)
        BY <1>4 DEF HintsInv, Reach, Miss, Leave
    <2> QED BY <1>4, <2>1, ToldReach, ToldMiss, ToldLeave
<1> QED BY <1>1, <1>2, <1>3, <1>4 DEF Next

LEMMA HintsInvariant ==
    ASSUME PoliciesStay
    PROVE Spec => [](BackupInv /\ HintsInv)
<1>1. Init => HintsInv
    BY DEF Init, HintsInv
<1>2. BackupInv /\ HintsInv /\ [Next]_vars => HintsInv'
    BY HintsStep
<1> QED BY <1>1, <1>2, BackupInvariant, PTL DEF Spec

(* When backup() ends because containsChanges() says no, the metadata in    *)
(* the repository tells what a new backup would tell: every path is there   *)
(* as it was found and under its policy, and none that would be taken away. *)
THEOREM NothingIsMissed ==
    ASSUME PoliciesStay
    PROVE Spec => []NothingToSaveIsNothing
<1>1. ASSUME BackupInv, HintsInv PROVE NothingToSaveIsNothing
    <2> SUFFICES ASSUME pc = "review", ~ContainsChanges, NEW p \in Paths
                 PROVE /\ Written(p) <=> saved[p] # None
                       /\ Reported(p) /\ Policy[p] # "none" =>
                            /\ Seen(found[p]) = Seen(Head(saved[p].history).state)
                            /\ Policy[p] = saved[p].policy
        BY DEF NothingToSaveIsNothing
    <2>1. Written(p) <=> p \in Live(m)
        BY <1>1, WrittenLive
    <2>2. ToldFine(p)
        BY <1>1 DEF HintsInv
    <2>3. Exists(m, p) => (m.hint[p] \in {"none", "unchanged"} /\ p \notin m.flag) \/ Minor(p)
        BY DEF ContainsChanges, Noted
    <2>4. Minor(p) => m.hint[p] = "changed" /\ m.node[p].policy = "none"
        BY DEF Minor, Changed
    <2>5. saved[p] # None => Exists(m, p) /\ Sound(p, saved[p])
        BY <1>1, RunFacts
    <2>6. p \in Live(m) <=> saved[p] # None
        BY <2>2, <2>3, <2>4, <2>5 DEF Live, ToldFine
    <2>7. ASSUME Reported(p), Policy[p] # "none"
          PROVE /\ Seen(found[p]) = Seen(Head(saved[p].history).state)
                /\ Policy[p] = saved[p].policy
        <3>1. /\ p \in Live(m) /\ m.node[p].policy = Policy[p]
              /\ Seen(m.node[p].history[1].state) = Seen(found[p])
            BY <1>1, <2>7, ReviewFound
        <3>2. saved[p] # None /\ m.hint[p] \in {"none", "unchanged"} /\ p \notin m.flag
            BY <2>3, <2>4, <2>6, <2>7, <3>1 DEF Live
        <3>3. m.node[p].policy = saved[p].policy /\ m.node[p].history[1].state = saved[p].history[1].state
            BY <2>2, <2>5, <3>2 DEF ToldFine
        <3>4. Head(saved[p].history) = saved[p].history[1]
            BY <2>5, <3>2, SoundFacts
        <3> QED BY <3>1, <3>3, <3>4
    <2> QED BY <2>1, <2>6, <2>7
<1> QED BY <1>1, HintsInvariant, PTL

-----------------------------------------------------------------------------
(* What the user is shown of the changes.  The list that a path is in is    *)
(* not printed, if a line above it stands for all that is below.            *)
Blocks(S, q) == Summarizes(S, q) \/ (Listed(q) /\ Changed(q) = {})

LEMMA PrintingFacts ==
    ASSUME NEW S
    PROVE \A p \in Paths :
            Printing(S)[p] <=> \/ Parent[p] = Root
                               \/ Printing(S)[Parent[p]] /\ ~Blocks(S, Parent[p])
<1> DEFINE step == [a \in Paths \X BOOLEAN |->
                      Parent[a[1]] = Root \/ (a[2] /\ ~Blocks(S, Parent[a[1]]))]
<1>1. step \in [Paths \X BOOLEAN -> BOOLEAN] /\ TRUE \in BOOLEAN
    OBVIOUS
<1>2. PICK f \in [Paths \cup {Root} -> BOOLEAN] : \A p \in Paths : f[p] = step[<<p, f[Parent[p]]>>]
    <2>1. PICK f : Unfolds(f, BOOLEAN, TRUE, step)
        <3> HIDE DEF step
        <3> QED BY <1>1, TreeRecursion
    <2> QED BY <2>1 DEF Unfolds
<1>3. \A p \in Paths : f[p] = (Parent[p] = Root \/ (f[Parent[p]] /\ ~Blocks(S, Parent[p])))
    <2> TAKE p \in Paths
    <2>1. <<p, f[Parent[p]]>> \in Paths \X BOOLEAN
        BY <1>2, TreeAssumption
    <2> QED BY <1>2, <2>1
<1> HIDE DEF step
<1> DEFINE g == [p \in Paths |-> f[p]]
<1>4. \A p \in Paths : f[p] = (\/ Parent[p] = Root
                               \/ /\ g[Parent[p]] /\ ~Summarizes(S, Parent[p])
                                  /\ Listed(Parent[p]) => Changed(Parent[p]) # {})
    <2> TAKE p \in Paths
    <2>1. CASE Parent[p] = Root
        BY <1>3, <2>1
    <2>2. CASE Parent[p] # Root
        <3>1. g[Parent[p]] = f[Parent[p]]
            BY <2>2, TreeAssumption
        <3> QED BY <1>3, <2>2, <3>1 DEF Blocks
    <2> QED BY <2>1, <2>2
<1>5. g = [p \in Paths |-> \/ Parent[p] = Root
                           \/ /\ g[Parent[p]] /\ ~Summarizes(S, Parent[p])
                              /\ Listed(Parent[p]) => Changed(Parent[p]) # {}]
    <2> HIDE DEF g
    <2>1. g = [p \in Paths |-> f[p]]
        BY DEF g
    <2> QED BY <1>4, <2>1
<1> HIDE DEF g
<1>6. Printing(S) = [p \in Paths |->
                        \/ Parent[p] = Root
                        \/ /\ Printing(S)[Parent[p]] /\ ~Summarizes(S, Parent[p])
                           /\ Listed(Parent[p]) => Changed(Parent[p]) # {}]
    BY <1>5, Zenon DEF Printing
<1> QED BY <1>6 DEF Blocks

LEMMA PrintedAbove ==
    ASSUME NEW S
    PROVE \A p \in Paths : ~Printing(S)[p] =>
              \E q \in Trail(Parent[p]) : Printing(S)[q] /\ Blocks(S, q)
<1> DEFINE T == {p \in Paths : ~Printing(S)[p] =>
                    \E q \in Trail(Parent[p]) : Printing(S)[q] /\ Blocks(S, q)}
<1>1. ASSUME NEW p \in Paths, Parent[p] = Root \/ Parent[p] \in T PROVE p \in T
    <2> SUFFICES ASSUME ~Printing(S)[p]
                 PROVE \E q \in Trail(Parent[p]) : Printing(S)[q] /\ Blocks(S, q)
        OBVIOUS
    <2>1. Parent[p] # Root /\ Parent[p] \in T
        BY <1>1, PrintingFacts
    <2>2. Parent[p] \in Trail(Parent[p])
        BY <2>1, TrailFacts
    <2>3. CASE Printing(S)[Parent[p]]
        BY <2>2, <2>3, PrintingFacts
    <2>4. CASE ~Printing(S)[Parent[p]]
        <3>1. PICK q \in Trail(Parent[Parent[p]]) : Printing(S)[q] /\ Blocks(S, q)
            BY <2>1, <2>4
        <3>2. q \in Trail(Parent[p])
            BY <2>1, <3>1, TrailFacts
        <3> QED BY <3>1, <3>2
    <2> QED BY <2>3, <2>4
<1>2. T \in SUBSET Paths
    OBVIOUS
<1>3. \A p \in Paths : p \in T
    <2> HIDE DEF T
    <2> QED BY <1>1, <1>2, TreeInduction
<1> QED BY <1>3

(* A path at the end of a run: the search has found it, or it is missing.   *)
LEMMA ReviewedPath ==
    ASSUME BackupInv, HintsInv, pc = "review", NEW p \in Paths, Exists(m, p)
    PROVE /\ ToldFine(p) /\ WholeFine(p) /\ NodeFine(p) /\ ReachedFine(p)
          /\ m.hint[p] \in Hints /\ Sound(p, m.node[p])
          /\ Top(m, p) = m.node[p].history[1].state
          /\ Reached(p) <=> ~Handled(p)
          /\ Handled(p) => saved[p] # None
          /\ Reached(p) => found[p] \in StatesAt[p]
<1>1. PlaceInv /\ CountInv
    BY RunFacts DEF SearchInv
<1>2. ToldFine(p) /\ WholeFine(p) /\ NodeFine(p) /\ ReachedFine(p)
    BY DEF HintsInv, BackupInv, SearchInv, NodeInv, ReachedInv
<1>3. m.hint[p] \in Hints
    BY <1>1 DEF CountInv, Memory
<1>4. Sound(p, m.node[p])
    BY <1>2 DEF NodeFine, Exists
<1>5. Top(m, p) = m.node[p].history[1].state
    BY <1>4, SoundFacts DEF Top
<1>6. Reached(p) => ~Handled(p) /\ found[p] # None
    <2>1. Reached(p) => \A q \in Trail(p) : IsFound(q)
        BY <1>1 DEF PlaceInv, Reported
    <2>2. \A q \in Trail(p) : q \in Paths /\ (IsFound(q) => place[q] # "missed")
        BY <1>1, TrailFacts DEF PlaceInv
    <2> QED BY <2>1, <2>2, TrailFacts DEF Handled, IsFound
<1>7. ~Reached(p) => saved[p] # None
    BY <1>2 DEF NodeFine, Exists
<1>8. ~Reached(p) => Handled(p)
    BY <1>7, ReviewFacts
<1>9. found[p] # None => found[p] \in StatesAt[p]
    BY RunFacts
<1> QED BY <1>2, <1>3, <1>4, <1>5, <1>6, <1>7, <1>8, <1>9

(* A path in the metadata and a directory above it.                         *)
LEMMA ReviewedAbove ==
    ASSUME BackupInv, HintsInv, pc = "review", NEW p \in Paths, Exists(m, p),
           NEW q \in Trail(Parent[p])
    PROVE /\ q \in Paths /\ Exists(m, q) /\ p \in Below(q) /\ q \in Ancestors[p] \ {p, Root}
          /\ saved[p] # None => saved[q] # None
          /\ p \in Live(m) => q \in Live(m)
          /\ Handled(q) => Handled(p)
          /\ Reached(p) => Reached(q) /\ found[q].type = "directory"
<1>1. q \in Paths /\ q \in Trail(p) /\ q # p
    BY TrailFacts, TrailAcyclic
<1>2. p \in Below(q) /\ q \in Ancestors[p] \ {p, Root}
    BY <1>1, TrailFacts DEF Below, Trail
<1>3. saved[p] # None => saved[q] # None
    BY <1>1 DEF BackupInv, SavedInv
<1>4. p \in Live(m) => q \in Live(m)
    BY <1>1, RunFacts DEF Closed
<1>5. Handled(q) => Handled(p)
    BY <1>1, TrailTransitive DEF Handled
<1>6. Reached(p) => Reached(q) /\ found[q].type = "directory"
    <2>1. Reached(p) => place[p] # "ahead"
        BY DEF Reached
    <2>2. Reached(p) => Reached(q)
        BY <2>1 DEF BackupInv, SearchInv, PlaceInv
    <2>3. Reached(p) => found[p] # None
        <3>1. Reached(p) => Reported(p)
            BY ReviewFacts
        <3> QED BY <3>1, TrailFacts DEF Reported, IsFound
    <2> QED BY <2>2, <2>3, RunFacts
<1>7. Exists(m, q)
    <2>1. CASE Reached(p)
        <3>1. ReachedFine(q)
            BY <1>1 DEF BackupInv, SearchInv, ReachedInv
        <3> QED BY <1>6, <2>1, <3>1 DEF ReachedFine, Exists
    <2>2. CASE ~Reached(p)
        <3>1. saved[q] # None
            BY <1>3, <2>2, ReviewedPath
        <3> QED BY <1>1, <3>1, RunFacts
    <2> QED BY <2>1, <2>2
<1> QED BY <1>1, <1>2, <1>3, <1>4, <1>5, <1>6, <1>7

(* What is counted of a path that has a policy.                             *)
Counting(p) == m.node[p].policy # "none" /\ Class(p) \in {"new", "removed", "lost", "changed"}

LEMMA ClassFacts ==
    ASSUME BackupInv, HintsInv, pc = "review", NEW p \in Paths, Exists(m, p), Counting(p)
    PROVE /\ Class(p) = "removed" <=> m.hint[p] = "removed"
          /\ Class(p) = "lost" <=> m.hint[p] = "wiped"
          /\ Class(p) = "new" => m.hint[p] = "added"
          /\ Class(p) = "changed" => m.hint[p] = "changed" /\ "content" \in Changed(p)
          /\ Reached(p) => Class(p) \in {"new", "changed"} /\ p \in Live(m)
          /\ Handled(p) => Class(p) \in {"removed", "lost"}
          /\ saved[p] = None => Class(p) = "new"
<1>1. /\ Class(p) = "removed" <=> m.hint[p] = "removed"
      /\ Class(p) = "lost" <=> m.hint[p] = "wiped"
      /\ Class(p) = "new" => m.hint[p] = "added"
      /\ m.hint[p] = "added" => Class(p) = "new"
      /\ Class(p) = "changed" => "content" \in Changed(p)
    BY DEF Class
<1>2. "content" \in Changed(p) => m.hint[p] = "changed"
    BY DEF Changed
<1>3. Reached(p) => m.hint[p] # "wiped"
    BY ReviewedPath DEF ReachedFine, Counting
<1>4. saved[p] # None =>
        /\ Handled(p) => m.hint[p] \in {"unchanged", "removed", "wiped"}
        /\ m.hint[p] = "removed" => Handled(p)
    BY ReviewedPath DEF ToldFine
<1>5. saved[p] = None => m.hint[p] \in {"added", "wiped"}
    BY ReviewedPath DEF ToldFine
<1>6. Class(p) \in {"new", "removed", "lost", "changed"}
    BY DEF Counting
<1>7. (Reached(p) <=> ~Handled(p)) /\ (Handled(p) => saved[p] # None)
    BY ReviewedPath
<1>8. Reached(p) => p \in Live(m)
    BY <1>3 DEF Live
<1>9. saved[p] = None => Class(p) = "new"
    BY <1>1, <1>3, <1>5, <1>7
<1>10. Reached(p) => Class(p) \in {"new", "changed"}
    BY <1>1, <1>3, <1>4, <1>6, <1>7, <1>9
<1>11. Handled(p) => Class(p) \in {"removed", "lost"}
    BY <1>1, <1>2, <1>4, <1>6, <1>7
<1> QED BY <1>1, <1>2, <1>8, <1>9, <1>10, <1>11

(* The directories above a path that was found have been found and kept.    *)
LEMMA DirectoryNow ==
    ASSUME BackupInv, HintsInv, pc = "review", NEW p \in Paths, Exists(m, p), Counting(p),
           Reached(p), NEW q \in Trail(Parent[p])
    PROVE Existing(q).type = "directory"
<1>1. p \in Live(m)
    BY ClassFacts
<1>2. q \in Paths /\ q \in Live(m) /\ Exists(m, q) /\ Reached(q) /\ found[q].type = "directory"
    BY <1>1, ReviewedAbove
<1>3. ReachedFine(q) /\ Sound(q, m.node[q])
    BY <1>2, ReviewedPath
<1>4. m.node[q].history[1].state.type = "directory"
    <2>1. CASE Policy[q] = "none"
        <3>1. m.node[q].policy = "none"
            BY <1>2, <1>3, <2>1 DEF ReachedFine
        <3> QED BY <1>2, <3>1, ReviewWithoutPolicy
    <2>2. CASE Policy[q] # "none"
        BY <1>2, <1>3, <2>2 DEF ReachedFine, Seen
    <2> QED BY <2>1, <2>2
<1>5. m.node[q].history[1].state # NonExisting
    BY <1>4 DEF NonExisting
<1> QED BY <1>2, <1>3, <1>4, <1>5, RemovedLast DEF Existing

(* A path that is said to have changed differs from what it was.            *)
LEMMA ReallyChanged ==
    ASSUME BackupInv, HintsInv, pc = "review", NEW q \in Paths, Exists(m, q),
           q \notin m.flag, m.hint[q] = "changed"
    PROVE Changed(q) # {}
<1> SUFFICES ASSUME Changed(q) = {} PROVE FALSE
    OBVIOUS
<1> DEFINE old == saved[q].history[1].state
           new == m.node[q].history[1].state
<1>1. ToldFine(q) /\ Sound(q, m.node[q]) /\ Top(m, q) = new
    BY ReviewedPath
<1>2. saved[q] # None /\ old # NonExisting /\ new # old /\ new.type = old.type
    BY <1>1 DEF ToldFine
<1>3. Sound(q, saved[q])
    BY <1>2, RunFacts
<1>4. LastState(saved[q].history) = old
    BY <1>2, <1>3, RemovedLast
<1>5. old \in Mixed
    <2>1. saved[q].history[1] \in Point
        BY <1>3, SoundFacts
    <2> QED BY <1>2, <2>1 DEF Point
<1>6. new \in Mixed \cup {NonExisting}
    <2>1. m.node[q].history[1] \in Point
        BY <1>1, SoundFacts
    <2> QED BY <2>1 DEF Point
<1> HIDE DEF old, new
<1>7. new \in Mixed
    BY <1>2, <1>5, <1>6, StateFacts
<1>8. Differences(old.data, new.data) = {} /\ old.content = new.content
    BY <1>1, <1>4 DEF Changed
<1>9. old.data = new.data
    BY <1>5, <1>7, <1>8, DifferencesAssumption
<1> QED BY <1>2, <1>5, <1>7, <1>8, <1>9, StateFacts

(* A line that stands for what is below it tells of every path there.       *)
Covers(S, q, p) ==
    \/ Class(p) \in CountedIn(S, q)
    \/ q \in m.flag
    \/ m.hint[q] = "directoryReplaced" /\ m.node[q].policy = "none"

LEMMA BlockingCovers ==
    ASSUME BackupInv, HintsInv, pc = "review", NEW S, NEW p \in Paths, Exists(m, p), Counting(p),
           GoneBefore(p) => Class(p) = "new", NEW q \in Trail(Parent[p]), Blocks(S, q)
    PROVE Covers(S, q, p)
<1> SUFFICES ASSUME q \notin m.flag PROVE Covers(S, q, p)
    BY DEF Covers
<1>1. /\ q \in Paths /\ Exists(m, q) /\ p \in Below(q) /\ q \in Ancestors[p] \ {p, Root}
      /\ saved[p] # None => saved[q] # None
      /\ p \in Live(m) => q \in Live(m)
      /\ Handled(q) => Handled(p)
      /\ Reached(p) => Reached(q) /\ found[q].type = "directory"
    BY ReviewedAbove
<1>2. /\ ToldFine(q) /\ WholeFine(q) /\ ReachedFine(q)
      /\ m.hint[q] \in Hints /\ Sound(q, m.node[q])
    BY <1>1, ReviewedPath
<1>3. (Reached(p) <=> ~Handled(p)) /\ (Handled(p) => saved[p] # None)
    BY ReviewedPath
<1>4. /\ Class(p) = "removed" <=> m.hint[p] = "removed"
      /\ Class(p) = "lost" <=> m.hint[p] = "wiped"
      /\ Reached(p) => Class(p) \in {"new", "changed"} /\ p \in Live(m)
      /\ Handled(p) => Class(p) \in {"removed", "lost"}
      /\ saved[p] = None => Class(p) = "new"
    BY ClassFacts
<1>5. Class(p) \in {"new", "removed", "lost", "changed"}
    BY DEF Counting
<1> DEFINE old == saved[q].history[1].state
<1>6. saved[q] # None /\ old.type # "directory" => Class(p) = "new"
    <2>1. saved[q] # None => Head(saved[q].history) = saved[q].history[1]
        BY <1>1, RunFacts, SoundFacts
    <2> QED BY <1>1, <2>1 DEF GoneBefore
<1>7. Class(p) = "new" => Existing(q).type = "directory"
    <2>1. Class(p) = "new" => Reached(p)
        BY <1>3, <1>4
    <2> QED BY <2>1, DirectoryNow
<1>8. saved[q] = None => m.hint[q] \in {"added", "wiped"}
    BY <1>1, <1>2 DEF ToldFine
<1>9. saved[q] # None =>
        /\ m.hint[q] = "removed" => Handled(q)
        /\ m.hint[q] = "directoryReplaced" => Reached(q)
        /\ m.hint[q] = "added" => old = NonExisting
        /\ m.hint[q] = "replaced" => old.type # "directory"
        /\ m.hint[q] = "removed" => old # NonExisting /\ LastState(m.node[q].history) = old
        /\ m.hint[q] = "wiped" => \/ old.type # "directory"
                                  \/ LastState(m.node[q].history).type = "directory"
    BY <1>1, <1>2 DEF ToldFine
<1>10. NonExisting.type # "directory"
    BY DEF NonExisting
<1> HIDE DEF old
<1>11. CASE m.hint[q] \in {"added", "replaced"}
    <2>1. Class(p) = "new"
        BY <1>1, <1>4, <1>6, <1>8, <1>9, <1>10, <1>11
    <2>2. CountedIn(S, q) = {"new"}
        BY <1>7, <1>11, <2>1 DEF CountedIn
    <2> QED BY <2>1, <2>2 DEF Covers
<1>12. CASE m.hint[q] = "removed"
    <2>1. saved[q] # None /\ Handled(q) /\ Handled(p)
        BY <1>1, <1>8, <1>9, <1>12
    <2>2. m.hint[p] # "wiped"
        BY <1>1, <1>2, <1>12, <2>1 DEF WholeFine, Below
    <2>3. Class(p) = "removed"
        BY <1>4, <2>1, <2>2
    <2>4. Existing(q).type = "directory"
        BY <1>6, <1>9, <1>12, <2>1, <2>3 DEF Existing
    <2>5. CountedIn(S, q) = {"removed"}
        BY <1>12, <2>4 DEF CountedIn
    <2> QED BY <2>3, <2>5 DEF Covers
<1>13. CASE m.hint[q] = "wiped"
    <2>1. Class(p) = "lost"
        BY <1>1, <1>4, <1>13 DEF Live
    <2>2. saved[q] # None
        BY <1>1, <1>4, <2>1
    <2>3. Existing(q).type = "directory"
        BY <1>6, <1>9, <1>13, <2>1, <2>2 DEF Existing
    <2>4. CountedIn(S, q) = {"lost"}
        BY <1>13, <2>3 DEF CountedIn
    <2> QED BY <2>1, <2>4 DEF Covers
<1>14. CASE m.hint[q] = "directoryReplaced"
    <2>1. Reached(q) /\ found[q].type # "directory"
        BY <1>2, <1>8, <1>9, <1>14 DEF ReachedFine
    <2>2. Class(p) \in {"removed", "lost"}
        BY <1>1, <1>3, <1>4, <2>1
    <2> SUFFICES ASSUME m.node[q].policy # "none" PROVE Class(p) \in CountedIn(S, q)
        BY <1>14 DEF Covers
    <2>3. m.node[q].history[1].state.type = found[q].type
        BY <1>2, <2>1 DEF ReachedFine, Seen
    <2>4. found[q].type # NonExisting.type
        <3>1. found[q] \in StatesAt[q]
            BY <1>1, <2>1, ReviewedPath
        <3>2. found[q] \in Mixed
            BY <1>1, <3>1, StateFacts
        <3> QED BY <3>2, StateFacts
    <2>5. Existing(q) = m.node[q].history[1].state
        BY <1>1, <1>2, <2>3, <2>4, RemovedLast DEF Existing
    <2>6. CountedIn(S, q) = {"removed", "lost"}
        BY <1>14, <2>1, <2>3, <2>5 DEF CountedIn
    <2> QED BY <2>2, <2>6
<1>15. CASE m.hint[q] \in {"none", "unchanged", "changed"}
    <2>1. Summarizes(S, q)
        <3>1. Changed(q) = {} => m.hint[q] # "changed"
            BY <1>1, ReallyChanged
        <3>2. Listed(q) => m.hint[q] = "changed"
            BY <1>15 DEF Listed, Noted
        <3> QED BY <3>1, <3>2 DEF Blocks
    <2>2. Existing(q).type = "directory"
        BY <2>1 DEF Summarizes
    <2>3. CountedIn(S, q) = {"new", "removed", "lost", "changed"}
        BY <1>15, <2>1, <2>2 DEF CountedIn
    <2> QED BY <1>5, <2>3 DEF Covers
<1> QED BY <1>2, <1>11, <1>12, <1>13, <1>14, <1>15 DEF Hints

(* Every added, removed, lost or changed path has a line, or a directory    *)
(* above it has one in which printNode() counts it.                         *)
THEOREM EveryChangeIsShown ==
    ASSUME PoliciesStay
    PROVE Spec => []ChangesAreShown
<1>1. ASSUME BackupInv, HintsInv PROVE ChangesAreShown
    <2> SUFFICES ASSUME pc = "review",
                        NEW S \in SUBSET {q \in Paths : Exists(m, q) /\ Existing(q).type = "directory"},
                        NEW p \in Paths, Exists(m, p), m.node[p].policy # "none",
                        Class(p) \notin {"none", "other"}, GoneBefore(p) => Class(p) = "new"
                 PROVE \/ Printed(S, p)
                       \/ \E q \in Ancestors[p] \ {p, Root} : Printed(S, q) /\ Covers(S, q, p)
        BY DEF ChangesAreShown, Covers
    <2>1. Counting(p)
        BY DEF Counting, Class
    <2>2. CASE Printing(S)[p]
        <3>1. /\ m.hint[p] \in {"added", "removed", "wiped", "changed"}
              /\ m.hint[p] = "changed" => "content" \in Changed(p)
              /\ m.hint[p] # "changed" => Changed(p) = {}
            BY <1>1, <2>1, ClassFacts DEF Counting, Changed
        <3>2. Noted(p) /\ Listed(p)
            BY <3>1 DEF Noted, Listed
        <3>3. Changed(p) # {"timestamp"}
            BY <3>1
        <3> QED BY <2>2, <3>2, <3>3 DEF Printed
    <2>3. CASE ~Printing(S)[p]
        <3>1. PICK q \in Trail(Parent[p]) : Printing(S)[q] /\ Blocks(S, q)
            BY <2>3, PrintedAbove
        <3>2. q \in Paths /\ Exists(m, q) /\ p \in Below(q) /\ q \in Ancestors[p] \ {p, Root}
            BY <1>1, ReviewedAbove
        <3>3. Covers(S, q, p)
            BY <1>1, <2>1, <3>1, BlockingCovers
        <3>4. ChangesBelow(q)
            BY <3>2 DEF ChangesBelow
        <3>5. Printed(S, q)
            BY <3>1, <3>2, <3>4 DEF Printed, Blocks
        <3> QED BY <3>2, <3>3, <3>5
    <2> QED BY <2>2, <2>3
<1> QED BY <1>1, HintsInvariant, PTL
=============================================================================

----------------------------- MODULE MCRestore -----------------------------
(* An instance of Restore for TLC: a directory d with the paths x and y.    *)
EXTENDS Restore

CONSTANTS d, x, y, a, b, small, near, far, gone

MCParent == [p \in Paths |-> IF p = d THEN Root ELSE d]

(* a and b have the same size; small is kept in the metadata. *)
MCSize == [c \in Contents \cup {Torn} |-> IF c \in {a, b} THEN 2 ELSE IF c = small THEN 1 ELSE 0]

File(c, attr, time) == [type |-> "regular_file", data |-> c, attr |-> attr, time |-> time]
Dir(attr, time)     == [type |-> "directory", data |-> None, attr |-> attr, time |-> time]
Link(t, attr)       == [type |-> "symlink", data |-> t, attr |-> attr, time |-> 2]
Other               == [type |-> "other", data |-> None, attr |-> 1, time |-> 2]

Snapshot(od, ox, oy) == (d :> od) @@ (x :> ox) @@ (y :> oy)
Top(o)   == Snapshot(o, NonExisting, NonExisting)
With(o)  == Snapshot(Dir(1, 1), o, File(small, 1, 1))

(* Two backups between which types, contents and existence change. *)
MCLogs == {
    <<With(File(a, 1, 1)), Top(File(a, 1, 1))>>,
    <<Top(Link(near, 1)), With(File(a, 1, 1))>>,
    <<With(Link(near, 1)), With(File(a, 1, 1))>>,
    <<With(File(a, 1, 1)), With(NonExisting)>>,
    <<Top(File(a, 1, 1)), Snapshot(Dir(1, 1), Dir(2, 1), NonExisting)>> }

MCPolicies == {
    (d :> "none") @@ (x :> "track") @@ (y :> "track"),
    (d :> "copy") @@ (x :> "mirror") @@ (y :> "copy"),
    (d :> "track") @@ (x :> "track") @@ (y :> "track") }

MCObjects ==
    (d :> {File(b, 1, 2), Dir(2, 1), Link(near, 2), Link(far, 1), Other}) @@
    (x :> {File(a, 2, 1), File(b, 1, 1), File(b, 1, 2), Dir(1, 1), Link(near, 1), Link(far, 2), Link(gone, 1)}) @@
    (y :> {File(small, 2, 1)})
MCOutsiders == (near :> {File(b, 1, 2)}) @@ (gone :> {None}) @@ (far :> {Dir(2, 2)})

MCDamages == {c \in [Contents \ Small -> {"whole", "short", "wrong", "missing"}] : c[b] = "whole"}
MCMayInterfere == {None}
=============================================================================

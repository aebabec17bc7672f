---------------------------- MODULE MCRepository ----------------------------
(* Instances of Repository for TLC.  Contents a and b collide; c has its    *)
(* own hash in a neighbouring directory; s is small enough for the metadata. *)
EXTENDS Repository, TLC

CONSTANTS a, b, c, s, hab, hc

MCSizeOf == [x \in Contents |-> IF x = s THEN 5 ELSE 30]
MCHashOf == [x \in Contents |-> IF x = c THEN hc ELSE hab]

MCInnerOf == [h \in Hashes |-> <<"inner", h>>]
MCInner == {<<"inner", h>> : h \in Hashes}
MCOuterOf == [i \in Inner |-> <<"outer">>]
MCOuter == {<<"outer">>}

(* Without power failures nothing depends on what the device holds, and of  *)
(* the files only those still to store can come to anything.  The equation  *)
(* makes TLC evaluate dfile, which it needs to write a state to disk.       *)
Pending == {p \in Paths : seen[p] # None}
WithoutDevice ==
    <<source, touched \cap Pending, slipped \cap Pending, visible, tmp, pc,
      points, seen, fresh \cap Pending, cur, dfile = dfile>>

(* The files of the user can be swapped, and so can colliding contents.      *)
Symmetry == Permutations(Paths) \cup Permutations(Contents \cap {a, b})
=============================================================================

-------------------------------- MODULE Walk --------------------------------
(* What the caller of a search relies on, here initiateBackup(): results     *)
(* come as a walk over the tree of paths.  A directory is reported before    *)
(* the paths in it and left after them, and nothing is reported twice.      *)
EXTENDS SequencesExt

CONSTANT Paths
VARIABLES
    place,   \* of each path: "ahead", "inside" or "behind"
    trail,   \* the directory the walk is in
    done

Init == place = [p \in Paths |-> "ahead"] /\ trail = <<>> /\ done = FALSE

Here(p) == ~done /\ place[p] = "ahead" /\ Front(p) = trail

Enter(p) ==
    /\ Here(p)
    /\ place' = [place EXCEPT ![p] = "inside"] /\ trail' = p
    /\ UNCHANGED done

Pass(p) ==
    /\ Here(p)
    /\ place' = [place EXCEPT ![p] = "behind"]
    /\ UNCHANGED <<trail, done>>

Leave ==
    /\ ~done /\ trail # <<>>
    /\ place' = [place EXCEPT ![trail] = "behind"] /\ trail' = Front(trail)
    /\ UNCHANGED done

End == ~done /\ trail = <<>> /\ done' = TRUE /\ UNCHANGED <<place, trail>>

Next == Leave \/ End \/ \E p \in Paths : Enter(p) \/ Pass(p)

Spec == Init /\ [][Next]_<<place, trail, done>>
=============================================================================

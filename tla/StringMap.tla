----------------------------- MODULE StringMap ------------------------------
(* What a string table promises: a key that was mapped once stays mapped to  *)
(* the same data until the region of the table is released.                 *)
CONSTANTS Keys, Values, Null
VARIABLES map, alive

Nothing == [k \in Keys |-> Null]

Init == map = Nothing /\ alive = TRUE

Insert(k, v) ==
    /\ alive /\ map[k] = Null
    /\ map' = [map EXCEPT ![k] = v]
    /\ UNCHANGED alive

Release == alive /\ alive' = FALSE /\ map' = Nothing

Next == Release \/ \E k \in Keys, v \in Values : Insert(k, v)

Spec == Init /\ [][Next]_<<map, alive>>
=============================================================================

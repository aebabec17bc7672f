---------------------------- MODULE StringTable -----------------------------
(***************************************************************************)
(* string-table.c: open hashing with lists of colliding keys, which doubles *)
(* its capacity, entry by entry, when there are as many associations as     *)
(* buckets.  A table lives in memory of one process: whoever calls          *)
(* strTableMap() waits until the table is ready again.                      *)
(***************************************************************************)
EXTENDS SafeMath, Sequences

CONSTANTS
    Keys, Values, Null,  \* Null is the answer for a key that is not mapped
    HashOf,              \* SipHash under the secret key of the table
    InitialCapacity,     \* 32 in strTableNew()
    PointerSize,         \* sizeof(*table->buckets)
    SizeMax              \* SIZE_MAX

ASSUME TableAssumption ==
    /\ Null \notin Values
    /\ HashOf \in [Keys -> Nat]
    /\ InitialCapacity \in Nat \ {0} /\ PointerSize \in Nat \ {0} /\ SizeMax \in Nat
    /\ InitialCapacity * PointerSize <= SizeMax

VARIABLES
    buckets,       \* lists of entries by bucket number
    capacity,
    associations,
    newBuckets,    \* while the capacity is doubled: the new array
    index,         \* and the bucket that is being emptied
    pending,       \* the entry that waits for the new capacity
    table          \* "ready", "doubling", "failed" after die(), "released"

tableVars == <<buckets, capacity, associations, newBuckets, index, pending, table>>

Entry == [key: Keys, data: Values]
NoBuckets == <<>>
EmptyBuckets(n) == [i \in 0 .. n - 1 |-> <<>>]

(* bucket->hash % capacity.  strTableGet() keeps the hash in a size_t and   *)
(* strTableMap() in an uint64_t; the capacity in the code is a power of two, *)
(* so that the remainder is the same for both.                              *)
Home(k, n) == HashOf[k] % n

Prepend(e, array, n) == [array EXCEPT ![Home(e.key, n)] = <<e>> \o @]

Destination(e) == Home(e.key, 2 * capacity)

TableInit ==
    /\ buckets = EmptyBuckets(InitialCapacity)
    /\ capacity = InitialCapacity /\ associations = 0
    /\ newBuckets = NoBuckets /\ index = 0 /\ pending = Null
    /\ table = "ready"

(* strTableMap() while there is room. *)
Insert(k, v) ==
    /\ table = "ready" /\ associations # capacity
    /\ buckets' = Prepend([key |-> k, data |-> v], buckets, capacity)
    /\ associations' = associations + 1
    /\ UNCHANGED <<capacity, newBuckets, index, pending, table>>

CapacityOverflows ==
    \/ MulDies(capacity, 2, SizeMax)
    \/ MulDies(Mul(capacity, 2, SizeMax), PointerSize, SizeMax)

(* Mutant: the new array is smaller than the capacity it is used with. *)
StartDoubling_Unchecked(k, v) ==
    /\ table = "ready" /\ associations = capacity
    /\ newBuckets' = EmptyBuckets(2 * capacity)
    /\ index' = 0 /\ pending' = [key |-> k, data |-> v]
    /\ table' = "doubling"
    /\ UNCHANGED <<buckets, capacity, associations>>

(* The beginning of doubleTableCapacity(). *)
StartDoubling(k, v) ==
    /\ table = "ready" /\ associations = capacity
    /\ ~CapacityOverflows
    /\ newBuckets' = EmptyBuckets(2 * capacity)
    /\ index' = 0 /\ pending' = [key |-> k, data |-> v]
    /\ table' = "doubling"
    /\ UNCHANGED <<buckets, capacity, associations>>

(* sSizeMul() ends the program. *)
FailToDouble(k, v) ==
    /\ table = "ready" /\ associations = capacity
    /\ CapacityOverflows
    /\ table' = "failed"
    /\ UNCHANGED <<buckets, capacity, associations, newBuckets, index, pending>>

StrTableMap(k, v) == Insert(k, v) \/ StartDoubling(k, v) \/ FailToDouble(k, v)

(* The two loops of doubleTableCapacity(): one entry is moved, or the next  *)
(* bucket is taken.                                                         *)
MoveEntry ==
    /\ table = "doubling" /\ index < capacity /\ buckets[index] # <<>>
    /\ LET e == Head(buckets[index])
       IN newBuckets' = [newBuckets EXCEPT ![Destination(e)] = <<e>> \o @]
    /\ buckets' = [buckets EXCEPT ![index] = Tail(@)]
    /\ UNCHANGED <<capacity, associations, index, pending, table>>

NextBucket ==
    /\ table = "doubling" /\ index < capacity /\ buckets[index] = <<>>
    /\ index' = index + 1
    /\ UNCHANGED <<buckets, capacity, associations, newBuckets, pending, table>>

(* Mutant: one bucket too few is emptied. *)
FinishDoubling_Early ==
    /\ table = "doubling" /\ index = capacity - 1
    /\ capacity' = 2 * capacity
    /\ buckets' = Prepend(pending, newBuckets, capacity')
    /\ associations' = associations + 1
    /\ newBuckets' = NoBuckets /\ index' = 0 /\ pending' = Null
    /\ table' = "ready"

(* The new array replaces the old one, and strTableMap() goes on with it.   *)
FinishDoubling ==
    /\ table = "doubling" /\ index = capacity
    /\ capacity' = 2 * capacity
    /\ buckets' = Prepend(pending, newBuckets, capacity')
    /\ associations' = associations + 1
    /\ newBuckets' = NoBuckets /\ index' = 0 /\ pending' = Null
    /\ table' = "ready"

(* The region of the table is released. *)
Release ==
    /\ table = "ready"
    /\ buckets' = EmptyBuckets(InitialCapacity)
    /\ capacity' = InitialCapacity /\ associations' = 0
    /\ table' = "released"
    /\ UNCHANGED <<newBuckets, index, pending>>

TableStep == MoveEntry \/ NextBucket \/ FinishDoubling

(* strTableGet(): the first entry with the key in its bucket. *)
StrTableGet(k) ==
    LET bucket == buckets[Home(k, capacity)]
        hits == {i \in DOMAIN bucket : bucket[i].key = k}
    IN IF hits = {} THEN Null
       ELSE bucket[CHOOSE i \in hits : \A j \in hits : i <= j].data

(* Callers map a key that is not mapped yet, as newNode() does; the order   *)
(* of several associations of one key is undefined (string-table.c:102).    *)
TableNext == (\E k \in Keys, v \in Values : StrTableGet(k) = Null /\ StrTableMap(k, v))
             \/ TableStep \/ Release

TableSpec == TableInit /\ [][TableNext]_tableVars

-----------------------------------------------------------------------------
(* Every entry of the table, wherever it is at the moment. *)
EntriesOf(array) == UNION {{array[i][j] : j \in DOMAIN array[i]} : i \in DOMAIN array}
Entries == EntriesOf(buckets) \cup EntriesOf(newBuckets)

(* The arrays have the size the capacity says, and fit into memory that can *)
(* be addressed: safe-math.c stops the table before its capacity wraps.     *)
TableTypeOK ==
    /\ capacity \in Nat \ {0} /\ associations \in 0 .. capacity
    /\ capacity * PointerSize <= SizeMax
    /\ buckets \in [0 .. capacity - 1 -> Seq(Entry)]
    /\ index \in 0 .. capacity
    /\ table \in {"ready", "doubling", "failed", "released"}
    /\ table = "doubling" =>
         /\ newBuckets \in [0 .. 2 * capacity - 1 -> Seq(Entry)]
         /\ pending \in Entry
         /\ 2 * capacity * PointerSize <= SizeMax
    /\ table # "doubling" => newBuckets = NoBuckets /\ pending = Null /\ index = 0

(* An association survives every doubling: strTableGet() finds whatever was  *)
(* mapped, in the one bucket it looks into.                                 *)
LookupFinds ==
    table = "ready" => \A e \in Entries : StrTableGet(e.key) = e.data

(* The table implements a map, also while its entries are in two arrays.    *)
Lookup ==
    [k \in Keys |->
        IF table = "ready" THEN StrTableGet(k)
        ELSE IF \E e \in Entries : e.key = k THEN (CHOOSE e \in Entries : e.key = k).data
        ELSE Null]
Map == INSTANCE StringMap WITH map <- Lookup, alive <- table # "released"
TableIsMap == Map!Spec
=============================================================================

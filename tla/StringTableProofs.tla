-------------------------- MODULE StringTableProofs --------------------------
(* A string table of any capacity, with any hash function, is a map.  It    *)
(* rests on the checks of safe-math.c, which are exact: an operation ends   *)
(* the program if and only if its result does not fit, and is the           *)
(* mathematical one otherwise.                                              *)
EXTENDS StringTable, TLAPS

-----------------------------------------------------------------------------
(* A number that fits is not changed by wrapping.                           *)
LEMMA SmallModulo ==
    ASSUME NEW n \in Nat, NEW max \in Nat, n <= max
    PROVE Wrapped(n, max) = n
BY SMT DEF Wrapped

(* A remainder is smaller than its divisor.                                 *)
LEMMA ModuloRange ==
    ASSUME NEW n \in Nat, NEW d \in Nat \ {0}
    PROVE n % d \in 0 .. d - 1
BY SMT

(* sSizeAdd() and sUint64Add() end the program if and only if the sum does  *)
(* not fit, and otherwise return the sum, for integers of any width.        *)
THEOREM AddIsExact ==
    ASSUME NEW max \in Nat, NEW a \in 0 .. max, NEW b \in 0 .. max
    PROVE /\ AddDies(a, b, max) <=> a + b > max
          /\ ~AddDies(a, b, max) => Add(a, b, max) = a + b
<1>1. Wrapped(max - b, max) = max - b
  BY SmallModulo, SMT
<1>2. AddDies(a, b, max) <=> a + b > max
  BY <1>1, SMT DEF AddDies
<1>3. ASSUME ~AddDies(a, b, max) PROVE Add(a, b, max) = a + b
  BY <1>2, <1>3, SmallModulo, SMT DEF Add
<1> QED BY <1>2, <1>3

(* The quotient that C computes, between its two bounds.                    *)
LEMMA Division ==
    ASSUME NEW n \in Nat, NEW d \in Nat \ {0}
    PROVE /\ n \div d \in Nat
          /\ d * (n \div d) <= n
          /\ n < d * (n \div d) + d
BY SMT

(* Comparing with the quotient decides whether the product fits.            *)
LEMMA ProductFits ==
    ASSUME NEW max \in Nat, NEW a \in Nat, NEW b \in Nat \ {0}
    PROVE a > max \div b <=> a * b > max
<1> DEFINE q == max \div b
<1>1. q \in Nat /\ b * q <= max /\ max < b * q + b
  BY Division
<1> HIDE DEF q
<1>2. ASSUME a <= q PROVE a * b <= max
  BY <1>1, <1>2, SMT
<1>3. ASSUME a >= q + 1 PROVE a * b >= (q + 1) * b
  BY <1>1, <1>3, SMT
<1>4. (q + 1) * b = b * q + b
  BY <1>1, SMT
<1>. QED BY <1>1, <1>2, <1>3, <1>4, SMT DEF q

(* sSizeMul() ends the program if and only if the product does not fit, and *)
(* otherwise returns the product, for integers of any width.                *)
THEOREM MulIsExact ==
    ASSUME NEW max \in Nat, NEW a \in 0 .. max, NEW b \in 0 .. max
    PROVE /\ MulDies(a, b, max) <=> a * b > max
          /\ ~MulDies(a, b, max) => Mul(a, b, max) = a * b
<1>1. a * b \in Nat
  BY SMT
<1>2. MulDies(a, b, max) <=> a * b > max
  <2>1. CASE b = 0
    BY <2>1, SMT DEF MulDies
  <2>2. CASE b # 0
    BY <2>2, ProductFits, SMT DEF MulDies
  <2> QED BY <2>1, <2>2
<1>3. ASSUME ~MulDies(a, b, max) PROVE Mul(a, b, max) = a * b
  BY <1>1, <1>2, <1>3, SmallModulo, SMT DEF Mul
<1> QED BY <1>2, <1>3

(* The difference of two numbers never wraps, whichever is the larger.      *)
THEOREM DifferenceIsExact ==
    ASSUME NEW a \in Nat, NEW b \in Nat
    PROVE Difference(a, b) \in Nat /\ (a + Difference(a, b) = b \/ b + Difference(a, b) = a)
BY SMT DEF Difference

-----------------------------------------------------------------------------
(* An array of buckets, apart from the table it belongs to.                 *)
IsArray(array, n) == array \in [0 .. n - 1 -> Seq(Entry)]

(* Every entry is in the bucket its hash says ...                           *)
Homed(array, n) ==
    \A i \in 0 .. n - 1 : \A j \in 1 .. Len(array[i]) : Home(array[i][j].key, n) = i

(* ... and no other entry has its key.                                      *)
Once(array) ==
    \A a, b \in DOMAIN array : \A i \in 1 .. Len(array[a]), j \in 1 .. Len(array[b]) :
        array[a][i].key = array[b][j].key => a = b /\ i = j

Absent(k, array) == \A e \in EntriesOf(array) : e.key # k

(* The inductive invariant: while the table is doubled its entries are in   *)
(* either array, those of a bucket that has been dealt with in the new one. *)
Doubling ==
    /\ Once(newBuckets) /\ Homed(newBuckets, 2 * capacity)
    /\ \A e \in EntriesOf(buckets) : Absent(e.key, newBuckets)
    /\ Absent(pending.key, buckets) /\ Absent(pending.key, newBuckets)
    /\ \A i \in 0 .. index - 1 : buckets[i] = <<>>

TableInv ==
    /\ TableTypeOK
    /\ Once(buckets)
    /\ table # "doubling" => Homed(buckets, capacity)
    /\ table = "doubling" => Doubling

-----------------------------------------------------------------------------
(* Arrays of buckets.                                                       *)
LEMMA EntriesAt ==
    ASSUME NEW n \in Nat, NEW array, IsArray(array, n), NEW e
    PROVE e \in EntriesOf(array) <=>
            \E i \in 0 .. n - 1 : \E j \in 1 .. Len(array[i]) : e = array[i][j]
<1>1. DOMAIN array = 0 .. n - 1
    BY DEF IsArray
<1>2. \A i \in 0 .. n - 1 : DOMAIN array[i] = 1 .. Len(array[i])
    BY DEF IsArray
<1> QED BY <1>1, <1>2 DEF EntriesOf

(* What is in a bucket is an entry.                                         *)
LEMMA EntriesTyped ==
    ASSUME NEW n \in Nat, NEW array, IsArray(array, n)
    PROVE \A e \in EntriesOf(array) : e \in Entry /\ e.key \in Keys /\ e.data \in Values
<1>1. \A i \in 0 .. n - 1 : \A j \in 1 .. Len(array[i]) : array[i][j] \in Entry
    BY DEF IsArray
<1> QED BY <1>1, EntriesAt DEF Entry

(* A hash leads to a bucket that exists.                                    *)
LEMMA HomeInRange ==
    ASSUME NEW n \in Nat \ {0}, NEW k \in Keys
    PROVE Home(k, n) \in 0 .. n - 1
BY TableAssumption, ModuloRange DEF Home

(* What it means to put an entry in front of a list, or to take it off.     *)
LEMMA ConsFacts ==
    ASSUME NEW s \in Seq(Entry), NEW e \in Entry
    PROVE /\ <<e>> \o s \in Seq(Entry)
          /\ Len(<<e>> \o s) = Len(s) + 1
          /\ (<<e>> \o s)[1] = e
          /\ \A j \in 2 .. Len(s) + 1 : (<<e>> \o s)[j] = s[j - 1]
OBVIOUS

(* What is left of a list when its first entry is taken off.                *)
LEMMA TailFacts ==
    ASSUME NEW s \in Seq(Entry), s # <<>>
    PROVE /\ Tail(s) \in Seq(Entry) /\ Len(Tail(s)) = Len(s) - 1 /\ Len(s) >= 1
          /\ Head(s) = s[1] /\ Head(s) \in Entry
          /\ \A j \in 1 .. Len(s) - 1 : Tail(s)[j] = s[j + 1]
OBVIOUS

(* A new entry may be put in front of the bucket of its hash.               *)
LEMMA PrependKeeps ==
    ASSUME NEW n \in Nat, NEW array, IsArray(array, n), Once(array),
           NEW e \in Entry, Absent(e.key, array), NEW h \in 0 .. n - 1
    PROVE LET after == [array EXCEPT ![h] = <<e>> \o @]
          IN /\ IsArray(after, n) /\ Once(after)
             /\ EntriesOf(after) = EntriesOf(array) \cup {e}
             /\ Homed(array, n) /\ h = Home(e.key, n) => Homed(after, n)
<1> DEFINE after == [array EXCEPT ![h] = <<e>> \o @]
<1>1. array[h] \in Seq(Entry) /\ DOMAIN array = 0 .. n - 1
    BY DEF IsArray
<1>2. IsArray(after, n)
    BY <1>1, ConsFacts DEF IsArray
<1>3. /\ DOMAIN after = 0 .. n - 1
      /\ \A i \in 0 .. n - 1 : i # h => after[i] = array[i]
      /\ after[h] = <<e>> \o array[h]
    BY <1>1 DEF IsArray
<1>4. /\ Len(after[h]) = Len(array[h]) + 1 /\ after[h][1] = e
      /\ \A j \in 2 .. Len(array[h]) + 1 : after[h][j] = array[h][j - 1]
    BY <1>1, <1>3, ConsFacts
<1>5. Len(array[h]) \in Nat
    BY <1>1
<1> HIDE DEF after
(* Each place of the new array holds e, or what an old place held.          *)
<1> DEFINE Old(i, j) == IF i = h THEN j - 1 ELSE j
           IsNew(i, j) == i = h /\ j = 1
<1>6. ASSUME NEW i \in 0 .. n - 1, NEW j \in 1 .. Len(after[i])
      PROVE /\ IsNew(i, j) => after[i][j] = e
            /\ ~IsNew(i, j) => /\ Old(i, j) \in 1 .. Len(array[i])
                              /\ after[i][j] = array[i][Old(i, j)]
    <2>1. CASE i = h
        BY <2>1, <1>4, <1>5
    <2>2. CASE i # h
        BY <2>2, <1>3
    <2> QED BY <2>1, <2>2
<1> HIDE DEF Old, IsNew
<1>7. EntriesOf(after) = EntriesOf(array) \cup {e}
    <2>1. ASSUME NEW f \in EntriesOf(after) PROVE f \in EntriesOf(array) \cup {e}
        <3>1. PICK i \in 0 .. n - 1 : \E j \in 1 .. Len(after[i]) : f = after[i][j]
            BY <1>2, EntriesAt
        <3>2. PICK j \in 1 .. Len(after[i]) : f = after[i][j]
            BY <3>1
        <3> QED BY <3>2, <1>6, EntriesAt
    <2>2. ASSUME NEW f \in EntriesOf(array) PROVE f \in EntriesOf(after)
        <3>1. PICK i \in 0 .. n - 1 : \E j \in 1 .. Len(array[i]) : f = array[i][j]
            BY EntriesAt
        <3>2. PICK j \in 1 .. Len(array[i]) : f = array[i][j]
            BY <3>1
        <3>3. CASE i # h
            BY <3>2, <3>3, <1>2, <1>3, EntriesAt
        <3>4. CASE i = h
            <4>1. j + 1 \in 2 .. Len(array[h]) + 1 /\ after[h][j + 1] = f
                BY <3>2, <3>4, <1>4, <1>5
            <4>2. j + 1 \in 1 .. Len(after[h])
                BY <4>1, <1>4, <1>5
            <4> QED BY <4>1, <4>2, <1>2, EntriesAt
        <3> QED BY <3>3, <3>4
    <2>3. e \in EntriesOf(after)
        <3>1. 1 \in 1 .. Len(after[h])
            BY <1>4, <1>5
        <3> QED BY <3>1, <1>2, <1>4, EntriesAt
    <2> QED BY <2>1, <2>2, <2>3
<1>8. \A i \in 0 .. n - 1 : \A j \in 1 .. Len(array[i]) : array[i][j].key # e.key
    BY EntriesAt DEF Absent
<1>9. Once(after)
    <2> SUFFICES ASSUME NEW a \in 0 .. n - 1, NEW b \in 0 .. n - 1,
                        NEW i \in 1 .. Len(after[a]), NEW j \in 1 .. Len(after[b]),
                        after[a][i].key = after[b][j].key
                 PROVE a = b /\ i = j
        BY <1>3 DEF Once
    <2>1. \A c, d \in 0 .. n - 1 : \A k \in 1 .. Len(array[c]), l \in 1 .. Len(array[d]) :
              array[c][k].key = array[d][l].key => c = d /\ k = l
        BY <1>1 DEF Once
    <2>2. CASE IsNew(a, i) /\ IsNew(b, j)
        BY <2>2 DEF IsNew
    <2>3. CASE IsNew(a, i) /\ ~IsNew(b, j)
        <3>1. /\ after[a][i] = e /\ after[b][j] = array[b][Old(b, j)]
              /\ Old(b, j) \in 1 .. Len(array[b])
            BY <2>3, <1>6
        <3> QED BY <3>1, <1>8
    <2>4. CASE ~IsNew(a, i) /\ IsNew(b, j)
        <3>1. /\ after[b][j] = e /\ after[a][i] = array[a][Old(a, i)]
              /\ Old(a, i) \in 1 .. Len(array[a])
            BY <2>4, <1>6
        <3> QED BY <3>1, <1>8
    <2>5. CASE ~IsNew(a, i) /\ ~IsNew(b, j)
        <3>1. /\ after[a][i] = array[a][Old(a, i)] /\ Old(a, i) \in 1 .. Len(array[a])
              /\ after[b][j] = array[b][Old(b, j)] /\ Old(b, j) \in 1 .. Len(array[b])
            BY <2>5, <1>6
        <3>2. array[a][Old(a, i)].key = array[b][Old(b, j)].key
            BY <3>1
        <3>3. \A k \in 1 .. Len(array[a]), l \in 1 .. Len(array[b]) :
                  array[a][k].key = array[b][l].key => a = b /\ k = l
            BY <2>1
        <3>4. a = b /\ Old(a, i) = Old(b, j)
            BY <3>1, <3>2, <3>3
        <3> QED BY <3>4 DEF Old
    <2> QED BY <2>2, <2>3, <2>4, <2>5
<1>10. ASSUME Homed(array, n), h = Home(e.key, n) PROVE Homed(after, n)
    <2> SUFFICES ASSUME NEW i \in 0 .. n - 1, NEW j \in 1 .. Len(after[i])
                 PROVE Home(after[i][j].key, n) = i
        BY DEF Homed
    <2>1. CASE IsNew(i, j)
        <3>1. after[i][j] = e /\ i = h
            BY <2>1, <1>6 DEF IsNew
        <3> QED BY <3>1, <1>10
    <2>2. CASE ~IsNew(i, j)
        <3>1. after[i][j] = array[i][Old(i, j)] /\ Old(i, j) \in 1 .. Len(array[i])
            BY <2>2, <1>6
        <3> QED BY <3>1, <1>10 DEF Homed
    <2> QED BY <2>1, <2>2
<1> QED BY <1>2, <1>7, <1>9, <1>10 DEF after

(* Taking an entry off its bucket leaves no other with its key.             *)
LEMMA TakeOffKeeps ==
    ASSUME NEW n \in Nat, NEW array, IsArray(array, n), Once(array),
           NEW h \in 0 .. n - 1, array[h] # <<>>
    PROVE LET after == [array EXCEPT ![h] = Tail(@)]
              e == Head(array[h])
          IN /\ IsArray(after, n) /\ Once(after)
             /\ e \in Entry /\ Absent(e.key, after)
             /\ EntriesOf(array) = EntriesOf(after) \cup {e}
<1> DEFINE after == [array EXCEPT ![h] = Tail(@)]
           e == Head(array[h])
<1>1. array[h] \in Seq(Entry) /\ DOMAIN array = 0 .. n - 1
    BY DEF IsArray
<1>2. IsArray(after, n)
    BY <1>1, TailFacts DEF IsArray
<1>3. /\ DOMAIN after = 0 .. n - 1
      /\ \A i \in 0 .. n - 1 : i # h => after[i] = array[i]
      /\ after[h] = Tail(array[h])
    BY <1>1 DEF IsArray
<1>4. /\ Len(array[h]) >= 1 /\ Len(after[h]) = Len(array[h]) - 1
      /\ e = array[h][1] /\ e \in Entry
      /\ \A j \in 1 .. Len(array[h]) - 1 : after[h][j] = array[h][j + 1]
    BY <1>1, <1>3, TailFacts
<1>5. Len(array[h]) \in Nat
    BY <1>1
<1> HIDE DEF after, e
<1> DEFINE Old(i, j) == IF i = h THEN j + 1 ELSE j
<1>6. ASSUME NEW i \in 0 .. n - 1, NEW j \in 1 .. Len(after[i])
      PROVE /\ Old(i, j) \in 1 .. Len(array[i]) /\ after[i][j] = array[i][Old(i, j)]
            /\ i = h => Old(i, j) # 1
    <2>1. CASE i = h
        BY <2>1, <1>4, <1>5
    <2>2. CASE i # h
        BY <2>2, <1>3
    <2> QED BY <2>1, <2>2
<1> HIDE DEF Old
<1>7. \A c, d \in 0 .. n - 1 : \A k \in 1 .. Len(array[c]), l \in 1 .. Len(array[d]) :
          array[c][k].key = array[d][l].key => c = d /\ k = l
    BY <1>1 DEF Once
<1>8. Once(after)
    <2> SUFFICES ASSUME NEW a \in 0 .. n - 1, NEW b \in 0 .. n - 1,
                        NEW i \in 1 .. Len(after[a]), NEW j \in 1 .. Len(after[b]),
                        after[a][i].key = after[b][j].key
                 PROVE a = b /\ i = j
        BY <1>3 DEF Once
    <2>1. /\ after[a][i] = array[a][Old(a, i)] /\ Old(a, i) \in 1 .. Len(array[a])
          /\ after[b][j] = array[b][Old(b, j)] /\ Old(b, j) \in 1 .. Len(array[b])
        BY <1>6
    <2>2. a = b /\ Old(a, i) = Old(b, j)
        <3>1. array[a][Old(a, i)].key = array[b][Old(b, j)].key
            BY <2>1
        <3>2. \A k \in 1 .. Len(array[a]), l \in 1 .. Len(array[b]) :
                  array[a][k].key = array[b][l].key => a = b /\ k = l
            BY <1>7
        <3> QED BY <2>1, <3>1, <3>2
    <2> QED BY <2>2 DEF Old
<1>9. Absent(e.key, after)
    <2> SUFFICES ASSUME NEW i \in 0 .. n - 1, NEW j \in 1 .. Len(after[i])
                 PROVE after[i][j].key # e.key
        BY <1>2, EntriesAt DEF Absent
    <2>1. 1 \in 1 .. Len(array[h])
        BY <1>4, <1>5
    <2>2. /\ Old(i, j) \in 1 .. Len(array[i]) /\ after[i][j] = array[i][Old(i, j)]
          /\ i = h => Old(i, j) # 1
        BY <1>6
    <2>3. array[i][Old(i, j)].key = array[h][1].key => i = h /\ Old(i, j) = 1
        BY <2>1, <2>2, <1>7
    <2> QED BY <2>2, <2>3, <1>4
<1>10. EntriesOf(array) = EntriesOf(after) \cup {e}
    <2>1. ASSUME NEW f \in EntriesOf(after) PROVE f \in EntriesOf(array)
        <3>1. PICK i \in 0 .. n - 1 : \E j \in 1 .. Len(after[i]) : f = after[i][j]
            BY <1>2, EntriesAt
        <3>2. PICK j \in 1 .. Len(after[i]) : f = after[i][j]
            BY <3>1
        <3> QED BY <3>2, <1>6, EntriesAt
    <2>2. e \in EntriesOf(array)
        <3>1. 1 \in 1 .. Len(array[h])
            BY <1>4, <1>5
        <3> QED BY <3>1, <1>4, EntriesAt
    <2>3. ASSUME NEW f \in EntriesOf(array), f # e PROVE f \in EntriesOf(after)
        <3>1. PICK i \in 0 .. n - 1 : \E j \in 1 .. Len(array[i]) : f = array[i][j]
            BY EntriesAt
        <3>2. PICK j \in 1 .. Len(array[i]) : f = array[i][j]
            BY <3>1
        <3>3. CASE i # h
            BY <3>2, <3>3, <1>2, <1>3, EntriesAt
        <3>4. CASE i = h
            <4>1. j # 1
                BY <2>3, <3>2, <3>4, <1>4
            <4>2. j - 1 \in 1 .. Len(array[h]) - 1
                BY <4>1, <3>2, <3>4, <1>5
            <4>3. after[h][j - 1] = array[h][(j - 1) + 1] /\ j - 1 \in 1 .. Len(after[h])
                BY <4>2, <1>4
            <4>4. (j - 1) + 1 = j
                BY <4>2
            <4> QED BY <3>2, <3>4, <4>3, <4>4, <1>2, EntriesAt
        <3> QED BY <3>3, <3>4
    <2> QED BY <2>1, <2>2, <2>3
<1> QED BY <1>2, <1>4, <1>8, <1>9, <1>10 DEF after, e

(* A new array of buckets.                                                  *)
LEMMA EmptyFacts ==
    ASSUME NEW n \in Nat
    PROVE /\ IsArray(EmptyBuckets(n), n) /\ Once(EmptyBuckets(n)) /\ Homed(EmptyBuckets(n), n)
          /\ EntriesOf(EmptyBuckets(n)) = {} /\ EntriesOf(NoBuckets) = {}
<1>1. /\ DOMAIN EmptyBuckets(n) = 0 .. n - 1
      /\ \A i \in 0 .. n - 1 : EmptyBuckets(n)[i] = <<>>
    BY DEF EmptyBuckets
<1>2. Len(<<>>) = 0 /\ <<>> \in Seq(Entry) /\ DOMAIN <<>> = {}
    OBVIOUS
<1>3. IsArray(EmptyBuckets(n), n)
    BY <1>2 DEF IsArray, EmptyBuckets
<1>4. Once(EmptyBuckets(n)) /\ Homed(EmptyBuckets(n), n)
    BY <1>1, <1>2 DEF Once, Homed
<1>5. EntriesOf(EmptyBuckets(n)) = {}
    BY <1>1, <1>2 DEF EntriesOf
<1>6. EntriesOf(NoBuckets) = {}
    BY <1>2 DEF EntriesOf, NoBuckets
<1> QED BY <1>3, <1>4, <1>5, <1>6

(* strTableGet() looks into one bucket only, and finds what is mapped.      *)
LEMMA GetFinds ==
    ASSUME capacity \in Nat \ {0}, IsArray(buckets, capacity), Once(buckets),
           Homed(buckets, capacity)
    PROVE /\ \A e \in EntriesOf(buckets) : StrTableGet(e.key) = e.data
          /\ \A k \in Keys : Absent(k, buckets) => StrTableGet(k) = Null
<1> DEFINE hits(k) == {i \in DOMAIN buckets[Home(k, capacity)] :
                          buckets[Home(k, capacity)][i].key = k}
<1>1. ASSUME NEW k \in Keys
      PROVE /\ Home(k, capacity) \in 0 .. capacity - 1
            /\ hits(k) = {i \in 1 .. Len(buckets[Home(k, capacity)]) :
                            buckets[Home(k, capacity)][i].key = k}
    <2>1. Home(k, capacity) \in 0 .. capacity - 1
        BY HomeInRange
    <2>2. DOMAIN buckets[Home(k, capacity)] = 1 .. Len(buckets[Home(k, capacity)])
        BY <2>1 DEF IsArray
    <2> QED BY <2>1, <2>2
<1>2. ASSUME NEW e \in EntriesOf(buckets) PROVE StrTableGet(e.key) = e.data
    <2>1. PICK b \in 0 .. capacity - 1 : \E i \in 1 .. Len(buckets[b]) : e = buckets[b][i]
        BY EntriesAt
    <2>2. PICK i \in 1 .. Len(buckets[b]) : e = buckets[b][i]
        BY <2>1
    <2>3. e.key \in Keys /\ b = Home(e.key, capacity)
        BY <2>2, EntriesTyped DEF Homed
    <2>4. \A j \in 1 .. Len(buckets[b]) : buckets[b][j].key = e.key => j = i
        BY <2>2 DEF Once, IsArray
    <2>5. hits(e.key) = {i}
        BY <1>1, <2>2, <2>3, <2>4
    <2>6. (CHOOSE j \in hits(e.key) : \A l \in hits(e.key) : j <= l) = i
        BY <2>5
    <2> QED BY <2>2, <2>3, <2>5, <2>6 DEF StrTableGet
<1>3. ASSUME NEW k \in Keys, Absent(k, buckets) PROVE StrTableGet(k) = Null
    <2>1. hits(k) = {}
        BY <1>1, <1>3, EntriesAt DEF Absent
    <2> QED BY <2>1 DEF StrTableGet
<1> QED BY <1>2, <1>3

-----------------------------------------------------------------------------
(* The table: an empty one satisfies the invariant.                         *)
LEMMA InitTable == TableInit => TableInv
<1> SUFFICES ASSUME TableInit PROVE TableInv
    OBVIOUS
<1>1. InitialCapacity \in Nat \ {0} /\ InitialCapacity * PointerSize <= SizeMax
    BY TableAssumption
<1>2. /\ IsArray(buckets, capacity) /\ Once(buckets) /\ Homed(buckets, capacity)
    BY <1>1, EmptyFacts DEF TableInit
<1>3. TableTypeOK
    BY <1>1, <1>2 DEF TableInit, TableTypeOK, IsArray
<1> QED BY <1>2, <1>3 DEF TableInv, TableInit

(* The capacity that is too large for an array of buckets is noticed.       *)
LEMMA DoubledFits ==
    ASSUME capacity \in Nat \ {0}, capacity * PointerSize <= SizeMax, ~CapacityOverflows
    PROVE 2 * capacity * PointerSize <= SizeMax
<1>1. SizeMax \in Nat /\ PointerSize \in Nat \ {0}
    BY TableAssumption
<1>2. capacity <= capacity * PointerSize /\ PointerSize <= capacity * PointerSize
    BY <1>1, SMT
<1>3. capacity \in 0 .. SizeMax /\ PointerSize \in 0 .. SizeMax
    BY <1>1, <1>2, SMT
<1>4. CASE SizeMax < 2
    <2>1. MulDies(capacity, 2, SizeMax)
        BY <1>1, <1>3, <1>4, ProductFits, SMT DEF MulDies
    <2> QED BY <2>1 DEF CapacityOverflows
<1>5. CASE SizeMax >= 2
    <2>1. 2 \in 0 .. SizeMax
        BY <1>1, <1>5
    <2>2. Mul(capacity, 2, SizeMax) = capacity * 2 /\ ~(capacity * 2 > SizeMax)
        BY <1>1, <1>3, <2>1, MulIsExact DEF CapacityOverflows
    <2>3. capacity * 2 \in 0 .. SizeMax
        BY <1>1, <1>3, <2>2, SMT
    <2>4. ~((capacity * 2) * PointerSize > SizeMax)
        BY <1>1, <1>3, <2>2, <2>3, MulIsExact DEF CapacityOverflows
    <2>5. (capacity * 2) * PointerSize = 2 * capacity * PointerSize
        BY <1>1, SMT
    <2>6. 2 * capacity * PointerSize \in Int
        BY <1>1, SMT
    <2> QED BY <1>1, <2>4, <2>5, <2>6, SMT
<1> QED BY <1>1, <1>4, <1>5, SMT

(* Each step of strTableMap() keeps the invariant.  Before a key is mapped   *)
(* it is in neither array.                                                  *)
LEMMA KeyIsAbsent ==
    ASSUME TableInv, table = "ready", NEW k \in Keys, StrTableGet(k) = Null
    PROVE Absent(k, buckets)
<1>1. /\ capacity \in Nat \ {0} /\ IsArray(buckets, capacity) /\ Once(buckets)
      /\ Homed(buckets, capacity)
    BY DEF TableInv, TableTypeOK, IsArray
<1>2. \A e \in EntriesOf(buckets) : e.data # Null
    BY <1>1, EntriesTyped, TableAssumption
<1> QED BY <1>1, <1>2, GetFinds DEF Absent

(* Mapping a key that is not mapped adds one entry.                         *)
LEMMA InsertKeeps ==
    ASSUME TableInv, NEW k \in Keys, NEW v \in Values, StrTableGet(k) = Null, Insert(k, v)
    PROVE /\ TableInv'
          /\ EntriesOf(buckets)' = EntriesOf(buckets) \cup {[key |-> k, data |-> v]}
<1> DEFINE e == [key |-> k, data |-> v]
<1>1. /\ capacity \in Nat \ {0} /\ IsArray(buckets, capacity) /\ Once(buckets)
      /\ Homed(buckets, capacity) /\ table = "ready"
    BY DEF TableInv, TableTypeOK, IsArray, Insert
<1>2. e \in Entry /\ e.key = k /\ Absent(e.key, buckets)
    BY <1>1, KeyIsAbsent DEF Entry
<1>3. Home(k, capacity) \in 0 .. capacity - 1
    BY <1>1, HomeInRange
<1>4. buckets' = [buckets EXCEPT ![Home(k, capacity)] = <<e>> \o @]
    BY DEF Insert, Prepend
<1> HIDE DEF e
<1>5. /\ IsArray(buckets', capacity) /\ Once(buckets') /\ Homed(buckets', capacity)
      /\ EntriesOf(buckets') = EntriesOf(buckets) \cup {e}
    <2>1. capacity \in Nat /\ Home(k, capacity) = Home(e.key, capacity)
        BY <1>1, <1>2
    <2>2. LET after == [buckets EXCEPT ![Home(k, capacity)] = <<e>> \o @]
          IN /\ IsArray(after, capacity) /\ Once(after)
             /\ EntriesOf(after) = EntriesOf(buckets) \cup {e}
             /\ Homed(buckets, capacity) /\ Home(k, capacity) = Home(e.key, capacity)
                  => Homed(after, capacity)
        BY <2>1, <1>1, <1>2, <1>3, PrependKeeps
    <2> QED BY <2>1, <2>2, <1>1, <1>4
<1>6. TableTypeOK'
    BY <1>1, <1>5 DEF TableInv, TableTypeOK, Insert, IsArray
<1> QED BY <1>1, <1>5, <1>6 DEF TableInv, Insert, e

(* The doubling starts with a new, empty array.                             *)
LEMMA StartKeeps ==
    ASSUME TableInv, NEW k \in Keys, NEW v \in Values, StrTableGet(k) = Null,
           StartDoubling(k, v)
    PROVE TableInv' /\ Entries' = Entries
<1> DEFINE e == [key |-> k, data |-> v]
<1>1. /\ capacity \in Nat \ {0} /\ IsArray(buckets, capacity) /\ Once(buckets)
      /\ capacity * PointerSize <= SizeMax /\ table = "ready"
    BY DEF TableInv, TableTypeOK, IsArray, StartDoubling
<1>2. e \in Entry /\ e.key = k /\ Absent(k, buckets)
    BY <1>1, KeyIsAbsent DEF Entry
<1>3. 2 * capacity * PointerSize <= SizeMax
    BY <1>1, DoubledFits DEF StartDoubling
<1>4. 2 * capacity \in Nat
    BY <1>1
<1>5. /\ IsArray(newBuckets', 2 * capacity) /\ Once(newBuckets')
      /\ Homed(newBuckets', 2 * capacity) /\ EntriesOf(newBuckets') = {}
    BY <1>4, EmptyFacts DEF StartDoubling
<1>6. /\ pending' = e /\ index' = 0 /\ table' = "doubling"
      /\ UNCHANGED <<buckets, capacity, associations>>
    BY DEF StartDoubling
<1> HIDE DEF e
<1>7. TableTypeOK'
    BY <1>1, <1>2, <1>3, <1>5, <1>6 DEF TableInv, TableTypeOK, IsArray
<1>8. Doubling'
    BY <1>2, <1>5, <1>6 DEF Doubling, Absent
<1>9. EntriesOf(newBuckets) = {}
    BY <1>1, EmptyFacts DEF TableInv, TableTypeOK
<1>10. Entries' = Entries
    BY <1>5, <1>6, <1>9 DEF Entries
<1> QED BY <1>1, <1>6, <1>7, <1>8, <1>10 DEF TableInv

(* Moving an entry to the new array loses none.                             *)
LEMMA MoveKeeps ==
    ASSUME TableInv, MoveEntry
    PROVE TableInv' /\ Entries' = Entries
<1> DEFINE e == Head(buckets[index])
<1>1. /\ capacity \in Nat \ {0} /\ 2 * capacity \in Nat \ {0} /\ index \in 0 .. capacity - 1
      /\ IsArray(buckets, capacity) /\ Once(buckets) /\ buckets[index] # <<>>
      /\ IsArray(newBuckets, 2 * capacity) /\ Doubling
    BY DEF TableInv, TableTypeOK, IsArray, MoveEntry
<1>2. buckets' = [buckets EXCEPT ![index] = Tail(@)]
    BY DEF MoveEntry
<1>3. /\ IsArray(buckets', capacity) /\ Once(buckets') /\ e \in Entry
      /\ Absent(e.key, buckets') /\ EntriesOf(buckets) = EntriesOf(buckets') \cup {e}
    BY <1>1, <1>2, TakeOffKeeps
<1>4. Absent(e.key, newBuckets)
    BY <1>1, <1>3 DEF Doubling
<1>5. Destination(e) \in 0 .. 2 * capacity - 1 /\ Destination(e) = Home(e.key, 2 * capacity)
    BY <1>1, <1>3, HomeInRange DEF Destination, Entry
<1>6. newBuckets' = [newBuckets EXCEPT ![Destination(e)] = <<e>> \o @]
    BY DEF MoveEntry
<1> HIDE DEF e
<1>7. /\ IsArray(newBuckets', 2 * capacity) /\ Once(newBuckets')
      /\ Homed(newBuckets', 2 * capacity)
      /\ EntriesOf(newBuckets') = EntriesOf(newBuckets) \cup {e}
    <2>1. 2 * capacity \in Nat /\ Once(newBuckets) /\ Homed(newBuckets, 2 * capacity)
        BY <1>1 DEF Doubling
    <2>2. LET after == [newBuckets EXCEPT ![Destination(e)] = <<e>> \o @]
          IN /\ IsArray(after, 2 * capacity) /\ Once(after)
             /\ EntriesOf(after) = EntriesOf(newBuckets) \cup {e}
             /\ Homed(newBuckets, 2 * capacity) /\ Destination(e) = Home(e.key, 2 * capacity)
                  => Homed(after, 2 * capacity)
        BY <2>1, <1>1, <1>3, <1>4, <1>5, PrependKeeps
    <2> QED BY <2>1, <2>2, <1>5, <1>6
<1>8. UNCHANGED <<capacity, associations, index, pending, table>> /\ table = "doubling"
    BY DEF MoveEntry
<1>9. TableTypeOK'
    BY <1>3, <1>7, <1>8 DEF TableInv, TableTypeOK, IsArray
<1>10. Doubling'
    <2>1. \A f \in EntriesOf(buckets') : Absent(f.key, newBuckets')
        BY <1>1, <1>3, <1>7 DEF Doubling, Absent
    <2>2. Absent(pending.key, buckets') /\ Absent(pending.key, newBuckets')
        BY <1>1, <1>3, <1>7 DEF Doubling, Absent
    <2>3. \A i \in 0 .. index - 1 : buckets'[i] = <<>>
        BY <1>1, <1>2 DEF Doubling, IsArray
    <2> QED BY <1>7, <1>8, <2>1, <2>2, <2>3 DEF Doubling
<1>11. Entries' = Entries
    BY <1>3, <1>7 DEF Entries
<1> QED BY <1>3, <1>8, <1>9, <1>10, <1>11 DEF TableInv

(* An empty bucket of the old array needs no further work.                  *)
LEMMA NextBucketKeeps ==
    ASSUME TableInv, NextBucket
    PROVE TableInv' /\ Entries' = Entries
<1>1. /\ capacity \in Nat \ {0} /\ index \in 0 .. capacity - 1 /\ buckets[index] = <<>>
      /\ Once(buckets) /\ Doubling /\ index' = index + 1 /\ table = "doubling"
      /\ UNCHANGED <<buckets, capacity, associations, newBuckets, pending, table>>
    BY DEF TableInv, TableTypeOK, NextBucket
<1>2. TableTypeOK'
    <2>1. index' \in 0 .. capacity' /\ capacity' = capacity
        BY <1>1
    <2> QED BY <1>1, <2>1 DEF TableInv, TableTypeOK
<1>3. \A i \in 0 .. index' - 1 : buckets'[i] = <<>>
    BY <1>1 DEF Doubling
<1>4. EntriesOf(buckets') = EntriesOf(buckets) /\ EntriesOf(newBuckets') = EntriesOf(newBuckets)
    BY <1>1
<1>5. Doubling'
    BY <1>1, <1>3, <1>4 DEF Doubling, Absent, Once, Homed, Home
<1> QED BY <1>1, <1>2, <1>4, <1>5 DEF TableInv, Once, Entries

(* The new array takes over with every entry, and the one that had to wait. *)
LEMMA FinishKeeps ==
    ASSUME TableInv, FinishDoubling
    PROVE /\ TableInv'
          /\ Entries = EntriesOf(newBuckets)
          /\ Entries' = EntriesOf(newBuckets) \cup {pending}
<1>1. /\ capacity \in Nat \ {0} /\ 2 * capacity \in Nat \ {0} /\ index = capacity
      /\ associations \in 0 .. capacity
      /\ IsArray(buckets, capacity) /\ IsArray(newBuckets, 2 * capacity) /\ Doubling
      /\ pending \in Entry /\ 2 * capacity * PointerSize <= SizeMax
    BY DEF TableInv, TableTypeOK, IsArray, FinishDoubling
<1>2. EntriesOf(buckets) = {}
    <2>1. \A i \in 0 .. capacity - 1 : Len(buckets[i]) = 0
        BY <1>1 DEF Doubling
    <2> QED BY <1>1, <2>1, EntriesAt
<1>3. Home(pending.key, 2 * capacity) \in 0 .. 2 * capacity - 1
    BY <1>1, HomeInRange DEF Entry
<1>4. /\ capacity' = 2 * capacity /\ associations' = associations + 1
      /\ newBuckets' = NoBuckets /\ index' = 0 /\ pending' = Null /\ table' = "ready"
      /\ buckets' = [newBuckets EXCEPT ![Home(pending.key, 2 * capacity)] = <<pending>> \o @]
    BY DEF FinishDoubling, Prepend
<1>5. /\ IsArray(buckets', 2 * capacity) /\ Once(buckets') /\ Homed(buckets', 2 * capacity)
      /\ EntriesOf(buckets') = EntriesOf(newBuckets) \cup {pending}
    <2>1. /\ 2 * capacity \in Nat /\ Once(newBuckets) /\ Homed(newBuckets, 2 * capacity)
          /\ Absent(pending.key, newBuckets)
        BY <1>1 DEF Doubling
    <2>2. LET after == [newBuckets EXCEPT ![Home(pending.key, 2 * capacity)] = <<pending>> \o @]
          IN /\ IsArray(after, 2 * capacity) /\ Once(after)
             /\ EntriesOf(after) = EntriesOf(newBuckets) \cup {pending}
             /\ /\ Homed(newBuckets, 2 * capacity)
                /\ Home(pending.key, 2 * capacity) = Home(pending.key, 2 * capacity)
                => Homed(after, 2 * capacity)
        BY <2>1, <1>1, <1>3, PrependKeeps
    <2> QED BY <2>1, <2>2, <1>4
<1>6. TableTypeOK'
    <2>1. capacity' \in Nat \ {0} /\ associations' \in 0 .. capacity' /\ index' \in 0 .. capacity'
        BY <1>1, <1>4
    <2>2. capacity' * PointerSize <= SizeMax
        BY <1>1, <1>4
    <2>3. buckets' \in [0 .. capacity' - 1 -> Seq(Entry)]
        BY <1>4, <1>5 DEF IsArray
    <2> QED BY <1>4, <2>1, <2>2, <2>3 DEF TableTypeOK
<1>7. Entries = EntriesOf(newBuckets) /\ Entries' = EntriesOf(newBuckets) \cup {pending}
    BY <1>2, <1>4, <1>5, EmptyFacts DEF Entries
<1> QED BY <1>4, <1>5, <1>6, <1>7 DEF TableInv

(* A table that is too large to be doubled ends the program.                *)
LEMMA FailKeeps ==
    ASSUME TableInv, NEW k \in Keys, NEW v \in Values, FailToDouble(k, v)
    PROVE TableInv' /\ Entries' = Entries
<1>1. TableTypeOK'
    BY DEF TableInv, TableTypeOK, FailToDouble
<1>2. /\ table = "ready" /\ table' = "failed"
      /\ UNCHANGED <<buckets, capacity, newBuckets>>
    BY DEF FailToDouble
<1> QED BY <1>1, <1>2 DEF TableInv, Entries, Once, Homed, Home

(* A released table has no entries.                                         *)
LEMMA ReleaseKeeps ==
    ASSUME TableInv, Release
    PROVE TableInv' /\ Entries' = {}
<1>1. InitialCapacity \in Nat \ {0} /\ InitialCapacity * PointerSize <= SizeMax
    BY TableAssumption
<1>2. /\ IsArray(buckets', InitialCapacity) /\ Once(buckets')
      /\ Homed(buckets', InitialCapacity) /\ EntriesOf(buckets') = {}
    BY <1>1, EmptyFacts DEF Release
<1>3. /\ table = "ready" /\ table' = "released" /\ capacity' = InitialCapacity
      /\ associations' = 0 /\ UNCHANGED <<newBuckets, index, pending>>
      /\ newBuckets = NoBuckets /\ pending = Null
    BY DEF TableInv, TableTypeOK, Release
<1>4. index = 0 /\ index' \in 0 .. capacity'
    BY <1>1, <1>3 DEF TableInv, TableTypeOK
<1>5. TableTypeOK'
    <2>1. capacity' \in Nat \ {0} /\ associations' \in 0 .. capacity'
        BY <1>1, <1>3
    <2>2. capacity' * PointerSize <= SizeMax /\ buckets' \in [0 .. capacity' - 1 -> Seq(Entry)]
        BY <1>1, <1>2, <1>3 DEF IsArray
    <2> QED BY <1>3, <1>4, <2>1, <2>2 DEF TableTypeOK
<1>6. Entries' = {}
    BY <1>2, <1>3, <1>1, EmptyFacts DEF Entries
<1> QED BY <1>2, <1>3, <1>5, <1>6 DEF TableInv

-----------------------------------------------------------------------------
(* Every step keeps the invariant.                                          *)
LEMMA NextTable == TableInv /\ [TableNext]_tableVars => TableInv'
<1> SUFFICES ASSUME TableInv, [TableNext]_tableVars PROVE TableInv'
    OBVIOUS
<1>1. CASE \E k \in Keys, v \in Values : StrTableGet(k) = Null /\ StrTableMap(k, v)
    <2>1. PICK k \in Keys, v \in Values : StrTableGet(k) = Null /\ StrTableMap(k, v)
        BY <1>1
    <2>2. CASE Insert(k, v)
        BY <2>1, <2>2, InsertKeeps
    <2>3. CASE StartDoubling(k, v)
        BY <2>1, <2>3, StartKeeps
    <2>4. CASE FailToDouble(k, v)
        BY <2>1, <2>4, FailKeeps
    <2> QED BY <2>1, <2>2, <2>3, <2>4 DEF StrTableMap
<1>2. CASE MoveEntry
    BY <1>2, MoveKeeps
<1>3. CASE NextBucket
    BY <1>3, NextBucketKeeps
<1>4. CASE FinishDoubling
    BY <1>4, FinishKeeps
<1>5. CASE Release
    BY <1>5, ReleaseKeeps
<1>6. CASE UNCHANGED tableVars
    <2>1. UNCHANGED <<buckets, capacity, associations, newBuckets, index, pending, table>>
        BY <1>6 DEF tableVars
    <2>2. TableTypeOK'
        BY <2>1 DEF TableInv, TableTypeOK
    <2>3. Once(buckets') /\ (table' # "doubling" => Homed(buckets', capacity'))
        BY <2>1 DEF TableInv
    <2>4. table' = "doubling" => Doubling'
        BY <2>1 DEF TableInv, Doubling, Once, Homed, Home, Absent, EntriesOf
    <2> QED BY <2>2, <2>3, <2>4 DEF TableInv, Once, Homed, Home
<1> QED BY <1>1, <1>2, <1>3, <1>4, <1>5, <1>6 DEF TableNext, TableStep

(* The invariant holds in every state.                                      *)
LEMMA TableInvariant == TableSpec => []TableInv
<1> QED BY InitTable, NextTable, PTL DEF TableSpec

(* The capacity of a table and the arrays it allocates agree, and never     *)
(* need more memory than can be addressed (TableTypeOK).                    *)
THEOREM TableTypeCorrect == TableSpec => []TableTypeOK
<1>1. TableInv => TableTypeOK
    BY DEF TableInv
<1> QED BY <1>1, TableInvariant, PTL

(* strTableGet() finds whatever was mapped, whenever the table is ready     *)
(* (LookupFinds).                                                           *)
LEMMA ReadyFinds ==
    ASSUME TableInv, table = "ready"
    PROVE /\ \A e \in Entries : StrTableGet(e.key) = e.data
          /\ \A k \in Keys : (\A e \in Entries : e.key # k) => StrTableGet(k) = Null
<1>1. /\ capacity \in Nat \ {0} /\ IsArray(buckets, capacity) /\ Once(buckets)
      /\ Homed(buckets, capacity) /\ newBuckets = NoBuckets
    BY DEF TableInv, TableTypeOK, IsArray
<1>2. Entries = EntriesOf(buckets)
    BY <1>1, EmptyFacts DEF Entries
<1> QED BY <1>1, <1>2, GetFinds DEF Absent

(* Every mapping that was made is found under its key, and nothing is found *)
(* under another key (LookupFinds), after any number of doublings.          *)
THEOREM LookupIsRight == TableSpec => []LookupFinds
<1>1. TableInv => LookupFinds
    BY ReadyFinds DEF LookupFinds
<1> QED BY <1>1, TableInvariant, PTL

-----------------------------------------------------------------------------
(* The table implements a map: each step of doubleTableCapacity() leaves the *)
(* associations as they are, although the entries are in two arrays.        *)
LEMMA OneEntry ==
    ASSUME TableInv, NEW e \in Entries, NEW f \in Entries, e.key = f.key
    PROVE e = f
<1>1. /\ capacity \in Nat \ {0} /\ IsArray(buckets, capacity) /\ Once(buckets)
    BY DEF TableInv, TableTypeOK, IsArray
<1>2. ASSUME NEW n \in Nat, NEW array, IsArray(array, n), Once(array),
             e \in EntriesOf(array), f \in EntriesOf(array)
      PROVE e = f
    <2>1. PICK a \in 0 .. n - 1 : \E i \in 1 .. Len(array[a]) : e = array[a][i]
        BY <1>2, EntriesAt
    <2>2. PICK i \in 1 .. Len(array[a]) : e = array[a][i]
        BY <2>1
    <2>3. PICK b \in 0 .. n - 1 : \E j \in 1 .. Len(array[b]) : f = array[b][j]
        BY <1>2, EntriesAt
    <2>4. PICK j \in 1 .. Len(array[b]) : f = array[b][j]
        BY <2>3
    <2>5. a = b /\ i = j
        BY <1>2, <2>2, <2>4 DEF Once, IsArray
    <2> QED BY <2>2, <2>4, <2>5
<1>3. CASE e \in EntriesOf(buckets) /\ f \in EntriesOf(buckets)
    BY <1>1, <1>2, <1>3
<1>4. CASE table # "doubling"
    <2>1. Entries = EntriesOf(buckets)
        BY <1>4, EmptyFacts DEF TableInv, TableTypeOK, Entries
    <2> QED BY <1>3, <2>1
<1>5. CASE table = "doubling"
    <2>1. /\ 2 * capacity \in Nat /\ IsArray(newBuckets, 2 * capacity) /\ Doubling
        BY <1>1, <1>5 DEF TableInv, TableTypeOK, IsArray
    <2>2. CASE e \in EntriesOf(newBuckets) /\ f \in EntriesOf(newBuckets)
        BY <1>2, <2>1, <2>2 DEF Doubling
    <2>3. \A g \in EntriesOf(buckets), h \in EntriesOf(newBuckets) : g.key # h.key
        BY <2>1 DEF Doubling, Absent
    <2> QED BY <1>3, <2>2, <2>3 DEF Entries
<1> QED BY <1>4, <1>5

(* What can be looked up in a table, or in the two arrays of a doubling.    *)
LEMMA LookupAt ==
    ASSUME TableInv, NEW k \in Keys
    PROVE /\ \A e \in Entries : e.key = k => Lookup[k] = e.data
          /\ (\A e \in Entries : e.key # k) => Lookup[k] = Null
<1>1. CASE table = "ready"
    BY <1>1, ReadyFinds DEF Lookup
<1>2. CASE table # "ready"
    <2>1. ASSUME NEW e \in Entries, e.key = k PROVE Lookup[k] = e.data
        <3>1. (CHOOSE f \in Entries : f.key = k) = e
            BY <2>1, OneEntry
        <3> QED BY <1>2, <2>1, <3>1 DEF Lookup
    <2>2. ASSUME \A e \in Entries : e.key # k PROVE Lookup[k] = Null
        BY <1>2, <2>2 DEF Lookup
    <2> QED BY <2>1, <2>2
<1> QED BY <1>1, <1>2

(* The same as a formula, for the next state too.                           *)
Mapped ==
    \A k \in Keys :
        /\ \A e \in Entries : e.key = k => Lookup[k] = e.data
        /\ (\A e \in Entries : e.key # k) => Lookup[k] = Null

(* A lookup returns the value of the entry, in every state.                 *)
LEMMA LookupMapped == TableInv => Mapped
BY LookupAt DEF Mapped

(* And in the next one.                                                     *)
LEMMA LookupMappedNext == TableInv' => Mapped'
BY LookupMapped, PTL

(* Entries map keys to values.                                              *)
LEMMA EntriesKeyed ==
    ASSUME TableInv
    PROVE \A e \in Entries : e.key \in Keys /\ e.data \in Values
<1>1. \A e \in EntriesOf(buckets) : e.key \in Keys /\ e.data \in Values
    <2>1. capacity \in Nat /\ IsArray(buckets, capacity)
        BY DEF TableInv, TableTypeOK, IsArray
    <2> QED BY <2>1, EntriesTyped
<1>2. \A e \in EntriesOf(newBuckets) : e.key \in Keys /\ e.data \in Values
    <2>1. CASE table = "doubling"
        <3>1. 2 * capacity \in Nat /\ IsArray(newBuckets, 2 * capacity)
            BY <2>1 DEF TableInv, TableTypeOK, IsArray
        <3> QED BY <3>1, EntriesTyped
    <2>2. CASE table # "doubling"
        BY <2>2, EmptyFacts DEF TableInv, TableTypeOK
    <2> QED BY <2>1, <2>2
<1> QED BY <1>1, <1>2 DEF Entries

(* What a step does to the entries is what it does to the map.              *)
LEMMA SameEntries ==
    ASSUME TableInv, TableInv', Entries' = Entries
    PROVE Lookup' = Lookup
<1>1. ASSUME NEW k \in Keys PROVE Lookup'[k] = Lookup[k]
    BY LookupMapped, LookupMappedNext DEF Mapped
<1> QED BY <1>1 DEF Lookup

(* One more entry is one more mapping.                                      *)
LEMMA OneMore ==
    ASSUME TableInv, TableInv', NEW e \in Entry, Entries' = Entries \cup {e},
           \A f \in Entries : f.key # e.key
    PROVE Lookup[e.key] = Null /\ Lookup' = [Lookup EXCEPT ![e.key] = e.data]
<1>1. e.key \in Keys
    BY DEF Entry
<1>2. Lookup[e.key] = Null
    BY <1>1, LookupMapped DEF Mapped
<1>3. Lookup'[e.key] = e.data
    BY <1>1, LookupMappedNext DEF Mapped
<1>4. ASSUME NEW k \in Keys, k # e.key PROVE Lookup'[k] = Lookup[k]
    BY <1>4, LookupMapped, LookupMappedNext DEF Mapped
<1>5. Lookup = [k \in Keys |-> Lookup[k]] /\ Lookup' = [k \in Keys |-> Lookup'[k]]
    BY DEF Lookup
<1>6. DOMAIN Lookup = Keys
    BY <1>5
<1>7. Lookup' = [Lookup EXCEPT ![e.key] = e.data]
    BY <1>1, <1>3, <1>4, <1>5, <1>6
<1> QED BY <1>2, <1>7

(* A new table is an empty map.                                             *)
LEMMA MapInit == TableInit => Map!Init
<1> SUFFICES ASSUME TableInit PROVE Map!Init
    OBVIOUS
<1>1. TableInv /\ InitialCapacity \in Nat
    BY InitTable, TableAssumption
<1>2. Entries = {}
    BY <1>1, EmptyFacts DEF TableInit, Entries
<1>3. \A k \in Keys : Lookup[k] = Null
    BY <1>1, <1>2, LookupMapped DEF Mapped
<1> QED BY <1>3 DEF Map!Init, Map!Nothing, TableInit, Lookup

(* Every step of the table is one of the map, or none.                      *)
LEMMA MapStep ==
    TableInv /\ TableInv' /\ [TableNext]_tableVars => [Map!Next]_<<Lookup, table # "released">>
<1> SUFFICES ASSUME TableInv, TableInv', [TableNext]_tableVars
             PROVE [Map!Next]_<<Lookup, table # "released">>
    OBVIOUS
<1>1. ASSUME Entries' = Entries, table # "released", table' # "released"
      PROVE [Map!Next]_<<Lookup, table # "released">>
    <2>1. Lookup' = Lookup
        BY <1>1, SameEntries
    <2> QED BY <1>1, <2>1
<1>2. ASSUME NEW e \in Entry, Entries' = Entries \cup {e}, \A f \in Entries : f.key # e.key,
             table # "released", table' # "released"
      PROVE Map!Next
    <2>1. Lookup[e.key] = Null /\ Lookup' = [Lookup EXCEPT ![e.key] = e.data]
        BY <1>2, OneMore
    <2>2. e.key \in Keys /\ e.data \in Values
        BY DEF Entry
    <2>3. Map!Insert(e.key, e.data)
        BY <1>2, <2>1 DEF Map!Insert
    <2> QED BY <2>2, <2>3 DEF Map!Next
<1>3. CASE \E k \in Keys, v \in Values : StrTableGet(k) = Null /\ StrTableMap(k, v)
    <2>1. PICK k \in Keys, v \in Values : StrTableGet(k) = Null /\ StrTableMap(k, v)
        BY <1>3
    <2>2. CASE Insert(k, v)
        <3> DEFINE e == [key |-> k, data |-> v]
        <3>1. table = "ready" /\ table' = "ready" /\ newBuckets' = newBuckets
            BY <2>2 DEF Insert
        <3>2. newBuckets = NoBuckets /\ EntriesOf(NoBuckets) = {}
            BY <3>1, EmptyFacts DEF TableInv, TableTypeOK
        <3>3. Entries = EntriesOf(buckets) /\ Entries' = EntriesOf(buckets) \cup {e}
            BY <2>1, <2>2, <3>1, <3>2, InsertKeeps DEF Entries
        <3>4. Absent(k, buckets)
            BY <2>1, <3>1, KeyIsAbsent
        <3>5. e \in Entry /\ e.key = k
            BY DEF Entry
        <3> QED BY <1>2, <3>1, <3>3, <3>4, <3>5 DEF Absent
    <2>3. CASE StartDoubling(k, v)
        BY <1>1, <2>1, <2>3, StartKeeps DEF StartDoubling
    <2>4. CASE FailToDouble(k, v)
        BY <1>1, <2>1, <2>4, FailKeeps DEF FailToDouble
    <2> QED BY <2>1, <2>2, <2>3, <2>4 DEF StrTableMap
<1>4. CASE MoveEntry
    BY <1>1, <1>4, MoveKeeps DEF MoveEntry
<1>5. CASE NextBucket
    BY <1>1, <1>5, NextBucketKeeps DEF NextBucket
<1>6. CASE FinishDoubling
    <2>1. table = "doubling" /\ table' = "ready"
        BY <1>6 DEF FinishDoubling
    <2>2. pending \in Entry /\ Absent(pending.key, newBuckets)
        BY <2>1 DEF TableInv, TableTypeOK, Doubling
    <2>3. Entries = EntriesOf(newBuckets) /\ Entries' = Entries \cup {pending}
        BY <1>6, FinishKeeps
    <2> QED BY <1>2, <2>1, <2>2, <2>3 DEF Absent
<1>7. CASE Release
    <2>1. table = "ready" /\ table' = "released" /\ Entries' = {}
        BY <1>7, ReleaseKeeps DEF Release
    <2>2. \A k \in Keys : Lookup'[k] = Null
        BY <2>1, LookupMappedNext DEF Mapped
    <2>3. Lookup' = Map!Nothing
        BY <2>2 DEF Lookup, Map!Nothing
    <2> QED BY <2>1, <2>3 DEF Map!Next, Map!Release
<1>8. CASE UNCHANGED tableVars
    <2>1. UNCHANGED <<buckets, newBuckets, table>>
        BY <1>8 DEF tableVars
    <2>2. Entries' = Entries
        BY <2>1 DEF Entries, EntriesOf
    <2>3. Lookup' = Lookup
        BY <2>2, SameEntries
    <2> QED BY <2>1, <2>3
<1> QED BY <1>3, <1>4, <1>5, <1>6, <1>7, <1>8 DEF TableNext, TableStep

(* A string table of any size implements a map (TableIsMap): what was mapped *)
(* stays mapped, also while the capacity is doubled.                        *)
THEOREM TableImplementsMap == TableSpec => TableIsMap
<1>1. TableInv /\ [TableNext]_tableVars => TableInv'
    BY NextTable
<1> QED BY <1>1, MapInit, MapStep, TableInvariant, PTL DEF TableSpec, TableIsMap, Map!Spec
=============================================================================

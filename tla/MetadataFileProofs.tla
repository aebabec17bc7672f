------------------------ MODULE MetadataFileProofs ------------------------
(* The metadata file is read back as it was written, for any nodes that a   *)
(* run may leave, and not without any of its parts.                         *)
EXTENDS MetadataFile, BackupProofs

-----------------------------------------------------------------------------
(* Sequences.                                                               *)
LEMMA Upwards ==
    ASSUME NEW S \in SUBSET Nat, 0 \in S, NEW N \in Nat,
           \A n \in S : n < N => n + 1 \in S
    PROVE \A n \in 0 .. N : n \in S
<1> DEFINE Bad == {n \in 0 .. N : n \notin S}
<1> SUFFICES ASSUME Bad # {} PROVE FALSE
    OBVIOUS
<1>1. PICK n \in Bad : \A k \in Bad : n <= k
    <2>1. Bad \in SUBSET Nat
        OBVIOUS
    <2> HIDE DEF Bad
    <2> QED BY <2>1, Smallest
<1>2. n \in Nat /\ n # 0 /\ n <= N
    BY <1>1
<1>3. n - 1 \in 0 .. N /\ ~(n <= n - 1)
    BY <1>2
<1>4. n - 1 \in S
    BY <1>1, <1>3
<1>5. n - 1 < N /\ (n - 1) + 1 = n
    BY <1>2
<1> QED BY <1>1, <1>4, <1>5

(* What stands in front of a sequence, and what follows it.                 *)
LEMMA Joined ==
    ASSUME NEW D, NEW a \in Seq(D), NEW b \in Seq(D)
    PROVE /\ a \o b \in Seq(D) /\ Len(a \o b) = Len(a) + Len(b)
          /\ Len(a) \in Nat /\ Len(b) \in Nat
          /\ \A i \in 1 .. Len(a) : (a \o b)[i] = a[i]
          /\ SubSeq(a \o b, Len(a) + 1, Len(a \o b)) = b
          /\ SubSeq(a \o b, 1, Len(a)) = a
<1> DEFINE s == a \o b
           n == Len(a)
           l == Len(b)
<1>1. /\ s \in Seq(D) /\ Len(s) = n + l /\ n \in Nat /\ l \in Nat
      /\ \A i \in 1 .. n + l : s[i] = IF i <= n THEN a[i] ELSE b[i - n]
    BY ConcatProperties, LenProperties
<1>2. a = [i \in 1 .. n |-> a[i]] /\ b = [i \in 1 .. l |-> b[i]]
    BY LenProperties
<1> HIDE DEF s, n, l
<1>3. \A i \in 1 .. n : s[i] = a[i]
    BY <1>1
<1>4. SubSeq(s, n + 1, n + l) = [i \in 1 .. l |-> s[n + i]]
    BY <1>1
<1>5. \A i \in 1 .. l : s[n + i] = b[i]
    BY <1>1
<1>6. SubSeq(s, n + 1, Len(s)) = b
    BY <1>1, <1>2, <1>4, <1>5
<1>7. SubSeq(s, 1, n) = [i \in 1 .. n |-> s[i]]
    BY <1>1
<1>8. SubSeq(s, 1, n) = a
    BY <1>2, <1>3, <1>7
<1> QED BY <1>1, <1>3, <1>6, <1>8 DEF s, n, l

(* A sequence of sequences is laid out one after the other: after each of   *)
(* them the next ones follow.                                               *)
Follows(after, seqs, D) ==
    /\ after \in [0 .. Len(seqs) -> Seq(D)]
    /\ after[0] = FlattenSeq(seqs) /\ after[Len(seqs)] = <<>>
    /\ \A i \in 1 .. Len(seqs) : after[i - 1] = seqs[i] \o after[i]

LEMMA Flattened ==
    ASSUME NEW D, NEW seqs \in Seq(Seq(D))
    PROVE \E after : Follows(after, seqs, D)
<1> DEFINE N == Len(seqs)
           S == Seq(D)
<1>1. N \in Nat /\ \A i \in 1 .. N : seqs[i] \in S
    BY LenProperties
<1>2. <<>> \in S /\ \A s \in S : <<>> \o s = s /\ s \o <<>> = s
    BY EmptySeq, ConcatEmptySeq
<1>3. \A s, t \in S : s \o t \in S
    BY ConcatProperties
<1>0. \A s, t, u \in S : (s \o t) \o u = s \o (t \o u)
    BY ConcatAssociative
<1>4. CASE N = 0
    <2> DEFINE after == [i \in 0 .. 0 |-> <<>>]
    <2>1. seqs = <<>> /\ FlattenSeq(seqs) = seqs
        BY <1>4, EmptySeq DEF FlattenSeq
    <2>2. Follows(after, seqs, D)
        BY <1>2, <1>4, <2>1 DEF Follows
    <2> QED BY <2>2
<1>5. CASE N # 0
    <2> DEFINE back == [a \in (1 .. N) \X S |-> seqs[N + 1 - a[1]] \o a[2]]
               forth == [a \in (1 .. N) \X S |-> a[2] \o seqs[a[1]]]
               flat == CHOOSE f : f = [i \in 1 .. Len(seqs) |->
                            IF i = 1 THEN seqs[i] ELSE f[i - 1] \o seqs[i]]
    <2>0. back \in [(1 .. N) \X S -> S] /\ forth \in [(1 .. N) \X S -> S]
        <3>1. \A i \in 1 .. N : N + 1 - i \in 1 .. N
            BY <1>1
        <3> HIDE DEF N, S
        <3> QED BY <1>1, <1>3, <3>1
    <2>1. PICK g : /\ g \in [0 .. N -> S] /\ g[0] = <<>>
                   /\ \A i \in 1 .. N : g[i] = seqs[N + 1 - i] \o g[i - 1]
        <3>1. PICK g : Counts(g, N, S, <<>>, back)
            <4> HIDE DEF back, N, S
            <4> QED BY <1>1, <1>2, <2>0, NatRecursion
        <3>2. g \in [0 .. N -> S] /\ g[0] = <<>> /\ \A i \in 1 .. N : g[i] = back[<<i, g[i - 1]>>]
            BY <3>1 DEF Counts
        <3>3. \A i \in 1 .. N : i - 1 \in 0 .. N
            BY <1>1
        <3> HIDE DEF N, S
        <3>4. \A i \in 1 .. N : <<i, g[i - 1]>> \in (1 .. N) \X S
            BY <3>2, <3>3, Zenon
        <3> QED BY <3>2, <3>4
    <2>2. PICK h : /\ h \in [0 .. N -> S] /\ h[0] = <<>>
                   /\ \A i \in 1 .. N : h[i] = h[i - 1] \o seqs[i]
        <3>1. PICK h : Counts(h, N, S, <<>>, forth)
            <4> HIDE DEF forth, N, S
            <4> QED BY <1>1, <1>2, <2>0, NatRecursion
        <3>2. h \in [0 .. N -> S] /\ h[0] = <<>> /\ \A i \in 1 .. N : h[i] = forth[<<i, h[i - 1]>>]
            BY <3>1 DEF Counts
        <3>3. \A i \in 1 .. N : i - 1 \in 0 .. N
            BY <1>1
        <3> HIDE DEF N, S
        <3>4. \A i \in 1 .. N : <<i, h[i - 1]>> \in (1 .. N) \X S
            BY <3>2, <3>3, Zenon
        <3> QED BY <3>2, <3>4
    <2> DEFINE k == [i \in 1 .. N |-> h[i]]
    <2>3. k = [i \in 1 .. Len(seqs) |-> IF i = 1 THEN seqs[i] ELSE k[i - 1] \o seqs[i]]
        <3>1. ASSUME NEW i \in 1 .. N PROVE h[i] = IF i = 1 THEN seqs[i] ELSE k[i - 1] \o seqs[i]
            <4>1. CASE i = 1
                <5>1. h[i] = h[0] \o seqs[i] /\ h[0] = <<>>
                    <6>1. i - 1 = 0
                        BY <4>1
                    <6> HIDE DEF N, S
                    <6> QED BY <6>1, <2>2
                <5>2. <<>> \o seqs[i] = seqs[i]
                    BY <1>1, <1>2
                <5> QED BY <4>1, <5>1, <5>2
            <4>2. CASE i # 1
                <5>1. i - 1 \in 1 .. N
                    BY <1>1, <4>2
                <5> QED BY <4>2, <5>1, <2>2
            <4> QED BY <4>1, <4>2
        <3> QED BY <3>1
    <2>4. flat = [i \in 1 .. Len(seqs) |-> IF i = 1 THEN seqs[i] ELSE flat[i - 1] \o seqs[i]]
        <3> HIDE DEF k
        <3> QED BY <2>3, Zenon
    <2>5. FlattenSeq(seqs) = flat[N]
        BY <1>5, Zenon DEF FlattenSeq
    <2> HIDE DEF flat, k, back, forth
    <2> DEFINE after == [i \in 0 .. N |-> g[N - i]]
    <2>6. \A i \in 0 .. N : N - i \in 0 .. N
        BY <1>1
    <2>7. after \in [0 .. N -> S] /\ after[N] = <<>>
        BY <1>1, <2>1, <2>6
    <2>8. \A i \in 1 .. N : after[i - 1] = seqs[i] \o after[i]
        <3> TAKE i \in 1 .. N
        <3>1. /\ i - 1 \in 0 .. N /\ i \in 0 .. N /\ N + 1 - i \in 1 .. N
              /\ N - (i - 1) = N + 1 - i /\ (N + 1 - i) - 1 = N - i
              /\ N + 1 - (N + 1 - i) = i
            BY <1>1
        <3>2. after[i - 1] = g[N + 1 - i] /\ after[i] = g[N - i]
            BY <3>1
        <3>3. g[N + 1 - i] = seqs[N + 1 - (N + 1 - i)] \o g[(N + 1 - i) - 1]
            BY <2>1, <3>1
        <3> QED BY <3>1, <3>2, <3>3
    <2> HIDE DEF after
    <2> DEFINE T == {j \in 0 .. N - 1 : flat[j + 1] \in S /\ flat[j + 1] \o after[j + 1] = after[0]}
    <2>9. 0 \in T
        <3>1. 1 \in 1 .. N /\ flat[1] = seqs[1]
            BY <1>1, <1>5, <2>4
        <3>2. after[0] = seqs[1] \o after[1] /\ seqs[1] \in S
            <4>1. 1 - 1 = 0
                OBVIOUS
            <4> HIDE DEF N, S
            <4> QED BY <1>1, <2>8, <3>1, <4>1
        <3>3. 0 \in 0 .. N - 1 /\ 0 + 1 = 1
            BY <1>1, <1>5
        <3>4. flat[0 + 1] \in S /\ flat[0 + 1] \o after[0 + 1] = after[0]
            BY <3>1, <3>2, <3>3
        <3> HIDE DEF S, N
        <3> QED BY <3>3, <3>4
    <2>10. ASSUME NEW j \in T, j < N - 1 PROVE j + 1 \in T
        <3>1. /\ j \in Nat /\ j + 2 \in 1 .. N /\ j + 1 \in 1 .. N /\ (j + 2) - 1 = j + 1
              /\ j + 1 \in 0 .. N - 1 /\ (j + 1) + 1 = j + 2 /\ j + 2 # 1
              /\ j + 1 \in 0 .. N /\ j + 2 \in 0 .. N
            BY <1>1, <2>10
        <3>2. flat[j + 2] = flat[j + 1] \o seqs[j + 2]
            BY <2>4, <3>1
        <3>3. after[j + 1] = seqs[j + 2] \o after[j + 2]
            BY <2>8, <3>1
        <3>4. flat[j + 1] \in S /\ seqs[j + 2] \in S /\ after[j + 2] \in S
            BY <1>1, <2>7, <2>10, <3>1
        <3>5. (flat[j + 1] \o seqs[j + 2]) \o after[j + 2] = flat[j + 1] \o (seqs[j + 2] \o after[j + 2])
            <4> HIDE DEF S
            <4> QED BY <1>0, <3>4
        <3>6. flat[j + 1] \o after[j + 1] = after[0]
            BY <2>10
        <3>7. flat[j + 2] \in S
            <4> HIDE DEF S
            <4> QED BY <1>3, <3>2, <3>4
        <3>8. flat[(j + 1) + 1] \in S /\ flat[(j + 1) + 1] \o after[(j + 1) + 1] = after[0]
            BY <3>1, <3>2, <3>3, <3>5, <3>6, <3>7
        <3> HIDE DEF S, N
        <3> QED BY <3>1, <3>8
    <2>11. N - 1 \in T
        <3>1. N - 1 \in Nat /\ T \in SUBSET Nat
            <4> HIDE DEF S, N
            <4>1. N - 1 \in Nat
                BY <1>1, <1>5
            <4>2. \A j \in T : j \in Nat
                OBVIOUS
            <4> HIDE DEF T
            <4> QED BY <4>1, <4>2
        <3>2. \A j \in T : j < N - 1 => j + 1 \in T
            BY <2>10
        <3>3. N - 1 \in 0 .. N - 1
            BY <3>1
        <3> HIDE DEF T
        <3> QED BY <2>9, <3>1, <3>2, <3>3, Upwards
    <2>12. flat[N] \in S /\ flat[N] \o after[N] = after[0]
        <3>1. (N - 1) + 1 = N
            BY <1>1
        <3> HIDE DEF S, N
        <3> QED BY <2>11, <3>1
    <2>13. after[0] = FlattenSeq(seqs)
        BY <1>2, <2>5, <2>7, <2>12
    <2> QED BY <2>7, <2>8, <2>13 DEF Follows
<1> QED BY <1>4, <1>5

-----------------------------------------------------------------------------
(* The reader, round by round.                                              *)
Solves(f, r, n) == f = [i \in 0 .. n |-> IF i = 0 THEN r ELSE Read(f[i - 1])]

LEMMA Solvable ==
    ASSUME NEW r PROVE \A n \in Nat : \E f : Solves(f, r, n)
<1> DEFINE S == {n \in Nat : \E f : Solves(f, r, n)}
<1>1. 0 \in S
    <2> DEFINE f == [i \in 0 .. 0 |-> r]
    <2>1. Solves(f, r, 0)
        BY DEF Solves
    <2> HIDE DEF f
    <2> QED BY <2>1
<1>2. ASSUME NEW n \in S PROVE n + 1 \in S
    <2>1. PICK f : Solves(f, r, n)
        OBVIOUS
    <2>2. /\ \A i \in 0 .. n : f[i] = IF i = 0 THEN r ELSE Read(f[i - 1])
          /\ n \in Nat
        BY <2>1 DEF Solves
    <2> DEFINE last == Read(f[n])
               g == [i \in 0 .. n + 1 |-> IF i = n + 1 THEN last ELSE f[i]]
    <2>3. ASSUME NEW i \in 0 .. n + 1 PROVE g[i] = IF i = 0 THEN r ELSE Read(g[i - 1])
        <3> HIDE DEF last
        <3>1. CASE i = n + 1
            <4>1. i # 0 /\ i - 1 = n /\ n \in 0 .. n + 1 /\ n # n + 1
                BY <2>2, <3>1
            <4>2. g[n] = f[n] /\ g[i] = last
                BY <3>1, <4>1
            <4> HIDE DEF g
            <4> QED BY <4>1, <4>2 DEF last
        <3>2. CASE i # n + 1
            <4>1. i \in 0 .. n /\ (i # 0 => i - 1 \in 0 .. n + 1 /\ i - 1 # n + 1)
                BY <2>2, <3>2
            <4>2. g[i] = f[i] /\ (i # 0 => g[i - 1] = f[i - 1])
                BY <3>2, <4>1
            <4> HIDE DEF g
            <4> QED BY <2>2, <4>1, <4>2
        <3> QED BY <3>1, <3>2
    <2>4. g = [i \in 0 .. n + 1 |-> g[i]]
        OBVIOUS
    <2>5. Solves(g, r, n + 1)
        <3> HIDE DEF g
        <3> QED BY <2>3, <2>4 DEF Solves
    <2> HIDE DEF g
    <2> QED BY <2>2, <2>5
<1>3. ASSUME NEW n \in Nat PROVE n \in S
    <2>1. S \in SUBSET Nat /\ n \in 0 .. n
        OBVIOUS
    <2> HIDE DEF S
    <2> QED BY <1>1, <1>2, <2>1, Upwards
<1> QED BY <1>3

LEMMA ReadsUnfold ==
    ASSUME NEW r
    PROVE /\ Reads(r, 0) = r
          /\ \A n \in Nat : Reads(r, n + 1) = Read(Reads(r, n))
<1> DEFINE sol(n) == CHOOSE f : f = [i \in 0 .. n |-> IF i = 0 THEN r ELSE Read(f[i - 1])]
<1>1. \A n \in Nat : Reads(r, n) = sol(n)[n]
    BY Zenon DEF Reads
<1>2. ASSUME NEW n \in Nat PROVE Solves(sol(n), r, n)
    <2>1. \E f : Solves(f, r, n)
        BY Solvable
    <2> QED BY <2>1, Zenon DEF Solves
<1> HIDE DEF sol
<1>3. \A n \in Nat : \A i \in 0 .. n : sol(n)[i] = IF i = 0 THEN r ELSE Read(sol(n)[i - 1])
    <2> TAKE n \in Nat
    <2> DEFINE f == sol(n)
    <2>1. f = [i \in 0 .. n |-> IF i = 0 THEN r ELSE Read(f[i - 1])]
        BY <1>2 DEF Solves
    <2> HIDE DEF f
    <2>2. \A i \in 0 .. n : f[i] = IF i = 0 THEN r ELSE Read(f[i - 1])
        BY <2>1
    <2> QED BY <2>2 DEF f
<1>4. ASSUME NEW n \in Nat PROVE sol(n + 1)[n] = sol(n)[n]
    <2> DEFINE f == sol(n)
               g == sol(n + 1)
               S == {i \in 0 .. n : f[i] = g[i]}
    <2>1. /\ \A i \in 0 .. n : f[i] = IF i = 0 THEN r ELSE Read(f[i - 1])
          /\ \A i \in 0 .. n + 1 : g[i] = IF i = 0 THEN r ELSE Read(g[i - 1])
        BY <1>3
    <2> HIDE DEF f, g
    <2>2. 0 \in S
        BY <2>1
    <2>3. ASSUME NEW i \in S, i < n PROVE i + 1 \in S
        <3>1. i + 1 \in 0 .. n /\ i + 1 # 0 /\ (i + 1) - 1 = i /\ i + 1 \in 0 .. n + 1 /\ f[i] = g[i]
            BY <2>3
        <3>2. f[i + 1] = Read(f[i]) /\ g[i + 1] = Read(g[i])
            BY <2>1, <3>1
        <3> QED BY <3>1, <3>2
    <2>4. \A i \in 0 .. n : i \in S
        <3>1. S \in SUBSET Nat
            OBVIOUS
        <3> HIDE DEF S
        <3> QED BY <2>2, <2>3, <3>1, Upwards
    <2>5. f[n] = g[n]
        BY <2>4
    <2> QED BY <2>5 DEF f, g
<1>5. ASSUME NEW n \in Nat PROVE Reads(r, n + 1) = Read(Reads(r, n))
    <2>1. n + 1 \in Nat /\ n + 1 \in 0 .. n + 1 /\ n + 1 # 0 /\ (n + 1) - 1 = n
        OBVIOUS
    <2>2. sol(n + 1)[n + 1] = Read(sol(n + 1)[n])
        BY <1>3, <2>1
    <2> QED BY <1>1, <1>4, <2>1, <2>2
<1>6. Reads(r, 0) = r
    <2>1. 0 \in Nat /\ 0 \in 0 .. 0
        OBVIOUS
    <2> QED BY <1>1, <1>3, <2>1
<1> QED BY <1>5, <1>6

(* Rounds follow on one another, and what does not change stays.            *)
LEMMA ReadsFrom ==
    ASSUME NEW r, NEW j \in Nat, NEW k \in Nat
    PROVE Reads(Reads(r, j), k) = Reads(r, j + k)
<1> DEFINE S == {n \in Nat : Reads(Reads(r, j), n) = Reads(r, j + n)}
<1>1. 0 \in S
    BY ReadsUnfold
<1>2. ASSUME NEW n \in S PROVE n + 1 \in S
    <2>1. n \in Nat /\ j + n \in Nat /\ j + (n + 1) = (j + n) + 1
        OBVIOUS
    <2>2. Reads(Reads(r, j), n + 1) = Read(Reads(Reads(r, j), n))
        BY <2>1, ReadsUnfold
    <2>3. Reads(r, j + (n + 1)) = Read(Reads(r, j + n))
        BY <2>1, ReadsUnfold
    <2> QED BY <2>1, <2>2, <2>3
<1>3. S \in SUBSET Nat /\ k \in 0 .. k
    OBVIOUS
<1>4. k \in S
    <2> HIDE DEF S
    <2> QED BY <1>1, <1>2, <1>3, Upwards
<1> QED BY <1>4

LEMMA ReadsStay ==
    ASSUME NEW r, Read(r) = r, NEW k \in Nat PROVE Reads(r, k) = r
<1> DEFINE S == {n \in Nat : Reads(r, n) = r}
<1>1. 0 \in S
    BY ReadsUnfold
<1>2. ASSUME NEW n \in S PROVE n + 1 \in S
    BY ReadsUnfold
<1>3. S \in SUBSET Nat /\ k \in 0 .. k
    OBVIOUS
<1>4. k \in S
    <2> HIDE DEF S
    <2> QED BY <1>1, <1>2, <1>3, Upwards
<1> QED BY <1>4

(* Wherever two numbers of rounds have come to an end, they have come to    *)
(* the same one.                                                            *)
LEMMA ReadsMeet ==
    ASSUME NEW r, NEW j \in Nat, NEW k \in Nat,
           Read(Reads(r, j)) = Reads(r, j), Read(Reads(r, k)) = Reads(r, k)
    PROVE Reads(r, j) = Reads(r, k)
<1>1. CASE j <= k
    <2>1. k - j \in Nat /\ j + (k - j) = k
        BY <1>1
    <2> QED BY <2>1, ReadsFrom, ReadsStay
<1>2. CASE ~(j <= k)
    <2>1. j - k \in Nat /\ k + (j - k) = j
        BY <1>2
    <2> QED BY <2>1, ReadsFrom, ReadsStay
<1> QED BY <1>1, <1>2

Leads(r, s) == \E n \in Nat : Reads(r, n) = s

LEMMA LeadsFacts ==
    /\ \A r : Leads(r, r)
    /\ \A r : Leads(r, Read(r))
    /\ \A r, s, t : Leads(r, s) /\ Leads(s, t) => Leads(r, t)
<1>1. ASSUME NEW r PROVE Leads(r, r) /\ Leads(r, Read(r))
    <2>1. Reads(r, 0) = r /\ Reads(r, 0 + 1) = Read(r)
        BY ReadsUnfold
    <2> QED BY <2>1 DEF Leads
<1>2. ASSUME NEW r, NEW s, NEW t, Leads(r, s), Leads(s, t) PROVE Leads(r, t)
    <2>1. PICK j \in Nat : Reads(r, j) = s
        BY <1>2 DEF Leads
    <2>2. PICK k \in Nat : Reads(s, k) = t
        BY <1>2 DEF Leads
    <2>3. Reads(r, j + k) = t /\ j + k \in Nat
        BY <2>1, <2>2, ReadsFrom
    <2> QED BY <2>3 DEF Leads
<1> QED BY <1>1, <1>2
-----------------------------------------------------------------------------
(* What a round does to a reader that has not died.                         *)
ReaderOf(rest, listed, node, refs, loops) ==
    [rest |-> rest, backups |-> listed, node |-> node, refs |-> refs, loops |-> loops,
     died |-> FALSE]
Beyond(rest, n) == SubSeq(rest, n + 1, Len(rest))
Enough(rest, n) == Len(rest) >= n

PointRefused(rest, listed) ==
    ~Enough(rest, 2) \/ rest[1] >= Len(listed) \/ ~Enough(rest, 2 + FieldsOf(rest[2]))
PointOf(rest, listed) == [backup |-> listed[rest[1] + 1], state |-> StateOf(Tail(rest))]
Extend(node, p, point) == [node EXCEPT ![p].history = Append(@, point)]
Tally(refs, b) == [refs EXCEPT ![b] = @ + 1]
PointRead(rest, listed, node, refs, p, later) ==
    ReaderOf(Beyond(rest, 2 + FieldsOf(rest[2])), listed, Extend(node, p, PointOf(rest, listed)),
             Tally(refs, listed[rest[1] + 1]), later)
NodeRefused(rest, parent) == ~Enough(rest, 3) \/ Parent[Head(rest)] # parent
Begin(node, p, policy) == [node EXCEPT ![p] = [policy |-> policy, history |-> <<>>]]
NodeRead(rest, listed, node, refs, later) ==
    LET p == Head(rest)
    IN ReaderOf(Beyond(rest, 3), listed, Begin(node, p, rest[2]), refs,
                Loop("point", p, rest[3]) \o Loop("subnodes", p, 1) \o later)
CountRead(rest, listed, node, refs, p, later) ==
    ReaderOf(Beyond(rest, 1), listed, node, refs, Loop("node", p, Head(rest)) \o later)

(* A record is known by its fields: what is put into one of them.           *)
Shape(r, rest, listed, node, refs, loops) ==
    r \in [rest : {rest}, backups : {listed}, node : {node}, refs : {refs}, loops : {loops},
           died : {FALSE}]

LEMMA ShapeIs ==
    ASSUME NEW rest, NEW listed, NEW node, NEW refs, NEW loops
    PROVE /\ Shape(ReaderOf(rest, listed, node, refs, loops), rest, listed, node, refs, loops)
          /\ \A r : Shape(r, rest, listed, node, refs, loops)
                     => r = ReaderOf(rest, listed, node, refs, loops)
<1>1. Shape(ReaderOf(rest, listed, node, refs, loops), rest, listed, node, refs, loops)
    BY DEF Shape, ReaderOf
<1>2. ASSUME NEW r, Shape(r, rest, listed, node, refs, loops)
      PROVE r = ReaderOf(rest, listed, node, refs, loops)
    BY <1>2 DEF Shape, ReaderOf
<1> QED BY <1>1, <1>2

LEMMA RestPut ==
    ASSUME NEW rest, NEW listed, NEW node, NEW refs, NEW loops,
           NEW r, r = ReaderOf(rest, listed, node, refs, loops), NEW v
    PROVE [r EXCEPT !.rest = v] = ReaderOf(v, listed, node, refs, loops)
<1>1. Shape(r, rest, listed, node, refs, loops)
    BY ShapeIs
<1>2. Shape([r EXCEPT !.rest = v], v, listed, node, refs, loops)
    BY <1>1 DEF Shape
<1> QED BY <1>2, ShapeIs

LEMMA LoopsPut ==
    ASSUME NEW rest, NEW listed, NEW node, NEW refs, NEW loops,
           NEW r, r = ReaderOf(rest, listed, node, refs, loops), NEW w
    PROVE [r EXCEPT !.loops = w] = ReaderOf(rest, listed, node, refs, w)
<1>1. Shape(r, rest, listed, node, refs, loops)
    BY ShapeIs
<1>2. Shape([r EXCEPT !.loops = w], rest, listed, node, refs, w)
    BY <1>1 DEF Shape
<1> QED BY <1>2, ShapeIs

(* What the next round of a reader does.                                    *)
LEMMA RoundForms ==
    ASSUME NEW rest, NEW listed, NEW node, NEW refs, NEW loops, NEW p, NEW later
    PROVE LET r == ReaderOf(rest, listed, node, refs, loops)
          IN /\ ReadPoint(r, p, later) =
                    IF PointRefused(rest, listed) THEN Died(r)
                    ELSE PointRead(rest, listed, node, refs, p, later)
             /\ ReadNode(r, p, later) =
                    IF NodeRefused(rest, p) THEN Died(r)
                    ELSE NodeRead(rest, listed, node, refs, later)
             /\ ReadSubnodes(r, p, later) =
                    IF ~Enough(rest, 1) THEN Died(r)
                    ELSE CountRead(rest, listed, node, refs, p, later)
             /\ Died(r).died
<1> DEFINE r == ReaderOf(rest, listed, node, refs, loops)
<1>1. /\ r.rest = rest /\ r.backups = listed /\ r.node = node /\ r.refs = refs /\ r.loops = loops
      /\ r.died = FALSE
    BY DEF ReaderOf
<1>2. ASSUME NEW n PROVE Drop(r, n) = ReaderOf(Beyond(rest, n), listed, node, refs, loops)
    <2> DEFINE s == Beyond(rest, n)
    <2>1. Drop(r, n) = [r EXCEPT !.rest = s]
        BY <1>1 DEF Drop, Beyond
    <2> HIDE DEF s, r
    <2>2. [r EXCEPT !.rest = s] = ReaderOf(s, listed, node, refs, loops)
        BY RestPut DEF r
    <2> QED BY <2>1, <2>2 DEF s
<1>3. Died(r).died
    BY DEF Died, ReaderOf
<1>4. \A n : Has(r, n) = Enough(rest, n)
    BY <1>1 DEF Has, Enough
<1> HIDE DEF r
<1>5. ReadSubnodes(r, p, later) = IF ~Enough(rest, 1) THEN Died(r)
                                  ELSE CountRead(rest, listed, node, refs, p, later)
    <2> DEFINE d == Drop(r, 1)
               new == Loop("node", p, Head(rest)) \o later
    <2>1. [d EXCEPT !.loops = new] = ReaderOf(Beyond(rest, 1), listed, node, refs, new)
        <3> HIDE DEF new, d
        <3>1. d = ReaderOf(Beyond(rest, 1), listed, node, refs, loops)
            BY <1>2 DEF d
        <3> QED BY <3>1, LoopsPut
    <2> QED BY <1>1, <1>4, <2>1 DEF ReadSubnodes, CountRead
<1>6. ReadNode(r, p, later) = IF NodeRefused(rest, p) THEN Died(r)
                              ELSE NodeRead(rest, listed, node, refs, later)
    <2> DEFINE d == Drop(r, 3)
               q == Head(rest)
               v == [policy |-> rest[2], history |-> <<>>]
               new == Loop("point", q, rest[3]) \o Loop("subnodes", q, 1) \o later
    <2>1. [d EXCEPT !.node[q] = v, !.loops = new]
            = ReaderOf(Beyond(rest, 3), listed, [node EXCEPT ![q] = v], refs, new)
        <3> HIDE DEF new, d, q, v
        <3> DEFINE y == Beyond(rest, 3)
                   put == [node EXCEPT ![q] = v]
                   s == [d EXCEPT !.node = put, !.loops = new]
        <3>1. d = ReaderOf(y, listed, node, refs, loops)
            BY <1>2 DEF d
        <3> HIDE DEF y
        <3>2. Shape(d, y, listed, node, refs, loops)
            BY <3>1, ShapeIs
        <3>3. Shape(s, y, listed, put, refs, new)
            <4> HIDE DEF put
            <4> QED BY <3>2 DEF Shape
        <3>4. d.node = node
            BY <3>2 DEF Shape
        <3>5. [d EXCEPT !.node[q] = v, !.loops = new] = s
            BY <3>4
        <3> HIDE DEF s, put
        <3>6. s = ReaderOf(y, listed, put, refs, new)
            BY <3>3, ShapeIs
        <3> QED BY <3>5, <3>6 DEF put, y
    <2> QED BY <1>1, <1>4, <2>1 DEF ReadNode, NodeRead, NodeRefused, Begin
<1>7. ReadPoint(r, p, later) = IF PointRefused(rest, listed) THEN Died(r)
                               ELSE PointRead(rest, listed, node, refs, p, later)
    <2> DEFINE n == 2 + FieldsOf(rest[2])
               d == Drop(r, n)
               b == listed[rest[1] + 1]
               v == [backup |-> b, state |-> StateOf(Tail(rest))]
    <2>1. [d EXCEPT !.refs[b] = @ + 1, !.node[p].history = Append(@, v), !.loops = later]
            = ReaderOf(Beyond(rest, n), listed, [node EXCEPT ![p].history = Append(@, v)],
                       [refs EXCEPT ![b] = @ + 1], later)
        <3> HIDE DEF d, n, b, v
        <3> DEFINE y == Beyond(rest, n)
                   put == [node EXCEPT ![p].history = Append(@, v)]
                   count == [refs EXCEPT ![b] = @ + 1]
                   s == [d EXCEPT !.refs = count, !.node = put, !.loops = later]
        <3>1. d = ReaderOf(y, listed, node, refs, loops)
            BY <1>2 DEF d
        <3> HIDE DEF y
        <3>2. Shape(d, y, listed, node, refs, loops)
            BY <3>1, ShapeIs
        <3>3. Shape(s, y, listed, put, count, later)
            <4> HIDE DEF put, count
            <4> QED BY <3>2 DEF Shape
        <3>4. d.node = node /\ d.refs = refs
            BY <3>2 DEF Shape
        <3>5. [d EXCEPT !.refs[b] = @ + 1, !.node[p].history = Append(@, v), !.loops = later] = s
            BY <3>4
        <3> HIDE DEF s, put, count
        <3>6. s = ReaderOf(y, listed, put, count, later)
            BY <3>3, ShapeIs
        <3> QED BY <3>5, <3>6 DEF put, count, y
    <2> QED BY <1>1, <1>4, <2>1 DEF ReadPoint, PointRead, PointRefused, Extend, Tally, PointOf
<1> QED BY <1>3, <1>5, <1>6, <1>7 DEF r

-----------------------------------------------------------------------------
(* The loops.                                                               *)
Loops == [reads: {"point", "node", "subnodes"}, path: Paths \cup {Root}, rounds: Nat]

InLoop(loops, reads, p, k, S) ==
    /\ loops # <<>> /\ Head(loops).reads = reads /\ Head(loops).path = p
    /\ Head(loops).rounds = k /\ Tail(loops) = S

LEMMA LoopFacts ==
    ASSUME NEW reads \in {"point", "node", "subnodes"}, NEW p \in Paths \cup {Root},
           NEW k \in Nat, NEW S \in Seq(Loops)
    PROVE /\ Loop(reads, p, k) \o S \in Seq(Loops)
          /\ Loop(reads, p, 0) \o S = S
          /\ k # 0 => InLoop(Loop(reads, p, k) \o S, reads, p, k, S)
<1> DEFINE l == [reads |-> reads, path |-> p, rounds |-> k]
<1>1. l \in Loops
    BY DEF Loops
<1>2. <<>> \o S = S
    BY ConcatEmptySeq
<1>3. Loop(reads, p, 0) \o S = S
    BY <1>2 DEF Loop
<1>4. CASE k = 0
    BY <1>3, <1>4
<1>5. CASE k # 0
    <2>1. Loop(reads, p, k) = <<l>>
        BY <1>5 DEF Loop
    <2> HIDE DEF l
    <2> DEFINE LS == Loops
    <2> HIDE DEF LS
    <2>2. l \in LS /\ S \in Seq(LS)
        BY <1>1 DEF LS
    <2>3. <<l>> \o S \in Seq(LS) /\ <<l>> \o S # <<>> /\ Head(<<l>> \o S) = l /\ Tail(<<l>> \o S) = S
        BY <2>2
    <2>4. l.reads = reads /\ l.path = p /\ l.rounds = k
        BY DEF l
    <2> QED BY <1>3, <2>1, <2>3, <2>4 DEF LS, InLoop
<1> QED BY <1>4, <1>5

RoundIs(r, reads, p, later) ==
    /\ reads = "point" => Read(r) = ReadPoint(r, p, later)
    /\ reads = "node" => Read(r) = ReadNode(r, p, later)
    /\ reads \notin {"point", "node"} => Read(r) = ReadSubnodes(r, p, later)

LEMMA RoundOf ==
    ASSUME NEW rest, NEW listed, NEW node, NEW refs, NEW loops,
           NEW reads, NEW p, NEW k, NEW S, InLoop(loops, reads, p, k, S)
    PROVE RoundIs(ReaderOf(rest, listed, node, refs, loops), reads, p, Loop(reads, p, k - 1) \o S)
<1> DEFINE r == ReaderOf(rest, listed, node, refs, loops)
           later == Loop(reads, p, k - 1) \o S
<1>1. r.loops = loops /\ r.died = FALSE
    BY DEF ReaderOf
<1> HIDE DEF r
<1>2. Read(r) = CASE reads = "point" -> ReadPoint(r, p, later)
                  [] reads = "node"  -> ReadNode(r, p, later)
                  [] OTHER           -> ReadSubnodes(r, p, later)
    <2>1. /\ loops # <<>> /\ Head(loops).reads = reads /\ Head(loops).path = p
          /\ Loop(Head(loops).reads, Head(loops).path, Head(loops).rounds - 1) \o Tail(loops) = later
        BY DEF InLoop
    <2>2. Read(r) = LET loop == Head(loops)
                        next == Loop(loop.reads, loop.path, loop.rounds - 1) \o Tail(loops)
                    IN CASE loop.reads = "point" -> ReadPoint(r, loop.path, next)
                         [] loop.reads = "node"  -> ReadNode(r, loop.path, next)
                         [] OTHER                -> ReadSubnodes(r, loop.path, next)
        BY <1>1, <2>1 DEF Read
    <2> HIDE DEF later
    <2> QED BY <2>1, <2>2
<1> HIDE DEF later
<1>3. RoundIs(r, reads, p, later)
    BY <1>2 DEF RoundIs
<1> QED BY <1>3 DEF r, later

(* The next round of each of the loops.                                     *)
LEMMA NextRound ==
    ASSUME NEW rest, NEW listed, NEW node, NEW refs, NEW p \in Paths \cup {Root},
           NEW k \in Nat \ {0}, NEW S \in Seq(Loops)
    PROVE /\ LET r == ReaderOf(rest, listed, node, refs, Loop("point", p, k) \o S)
             IN Read(r) = IF PointRefused(rest, listed) THEN Died(r)
                          ELSE PointRead(rest, listed, node, refs, p, Loop("point", p, k - 1) \o S)
          /\ LET r == ReaderOf(rest, listed, node, refs, Loop("node", p, k) \o S)
             IN Read(r) = IF NodeRefused(rest, p) THEN Died(r)
                          ELSE NodeRead(rest, listed, node, refs, Loop("node", p, k - 1) \o S)
          /\ LET r == ReaderOf(rest, listed, node, refs, Loop("subnodes", p, k) \o S)
             IN Read(r) = IF ~Enough(rest, 1) THEN Died(r)
                          ELSE CountRead(rest, listed, node, refs, p, Loop("subnodes", p, k - 1) \o S)
<1> DEFINE of(reads) == Loop(reads, p, k) \o S
           next(reads) == Loop(reads, p, k - 1) \o S
           r(reads) == ReaderOf(rest, listed, node, refs, of(reads))
<1>1. ASSUME NEW reads \in {"point", "node", "subnodes"}
      PROVE InLoop(of(reads), reads, p, k, S)
    <2>1. k \in Nat /\ k # 0
        OBVIOUS
    <2> QED BY <2>1, LoopFacts
<1> HIDE DEF of
<1>2. ASSUME NEW reads \in {"point", "node", "subnodes"}
      PROVE RoundIs(r(reads), reads, p, next(reads))
    BY <1>1, RoundOf
<1> HIDE DEF r, next
<1>3. /\ Read(r("point")) = ReadPoint(r("point"), p, next("point"))
      /\ Read(r("node")) = ReadNode(r("node"), p, next("node"))
      /\ Read(r("subnodes")) = ReadSubnodes(r("subnodes"), p, next("subnodes"))
    BY <1>2 DEF RoundIs
<1>6. ReadPoint(r("point"), p, next("point"))
        = IF PointRefused(rest, listed) THEN Died(r("point"))
          ELSE PointRead(rest, listed, node, refs, p, next("point"))
    BY RoundForms DEF r
<1>7. ReadNode(r("node"), p, next("node"))
        = IF NodeRefused(rest, p) THEN Died(r("node"))
          ELSE NodeRead(rest, listed, node, refs, next("node"))
    BY RoundForms DEF r
<1>8. ReadSubnodes(r("subnodes"), p, next("subnodes"))
        = IF ~Enough(rest, 1) THEN Died(r("subnodes"))
          ELSE CountRead(rest, listed, node, refs, p, next("subnodes"))
    BY RoundForms DEF r
<1> QED BY <1>3, <1>6, <1>7, <1>8 DEF of, next, r

-----------------------------------------------------------------------------
(* What is read stays the same when something follows.                      *)
LEMMA BeyondFacts ==
    ASSUME NEW D, NEW s \in Seq(D), NEW n \in Nat, n <= Len(s)
    PROVE /\ Beyond(s, n) \in Seq(D) /\ Len(Beyond(s, n)) = Len(s) - n
          /\ \A i \in 1 .. Len(s) - n : Beyond(s, n)[i] = s[n + i]
<1>1. Len(s) \in Nat /\ n + 1 \in 1 .. Len(s) + 1 /\ Len(s) \in n .. Len(s) /\ (n + 1) - 1 = n
    OBVIOUS
<1>2. SubSeq(s, n + 1, Len(s)) = [i \in 1 .. Len(s) - n |-> s[n + i]]
    BY <1>1
<1>3. \A i \in 1 .. Len(s) - n : s[n + i] \in D
    BY <1>1
<1>4. Beyond(s, n) = [i \in 1 .. Len(s) - n |-> s[n + i]]
    BY <1>2 DEF Beyond
<1>5. Len(s) - n \in Nat
    BY <1>1
<1> QED BY <1>3, <1>4, <1>5

LEMMA Prolonged ==
    ASSUME NEW D, NEW rest \in Seq(D), NEW t \in Seq(D)
    PROVE /\ rest \o t \in Seq(D)
          /\ \A i \in 1 .. Len(rest) : (rest \o t)[i] = rest[i]
          /\ \A n \in Nat : Enough(rest, n) =>
                /\ Enough(rest \o t, n)
                /\ Beyond(rest, n) \in Seq(D) /\ Len(Beyond(rest, n)) = Len(rest) - n
                /\ Beyond(rest \o t, n) = Beyond(rest, n) \o t
<1> DEFINE s == rest \o t
           k == Len(rest)
           l == Len(t)
<1>1. /\ s \in Seq(D) /\ Len(s) = k + l /\ k \in Nat /\ l \in Nat
      /\ \A i \in 1 .. k + l : s[i] = IF i <= k THEN rest[i] ELSE t[i - k]
    BY ConcatProperties, LenProperties
<1>2. \A i \in 1 .. k : s[i] = rest[i]
    <2> HIDE DEF s, k, l
    <2> QED BY <1>1
<1>3. /\ \A i \in 1 .. k : rest[i] \in D
      /\ \A i \in 1 .. l : t[i] \in D
    BY <1>1
<1>4. ASSUME NEW n \in Nat, n <= k
      PROVE /\ Beyond(rest, n) \in Seq(D) /\ Len(Beyond(rest, n)) = k - n
            /\ Beyond(s, n) = Beyond(rest, n) \o t
    <2> DEFINE b == Beyond(rest, n)
               c == Beyond(s, n)
    <2>0. /\ (k + l) - n \in Nat /\ k - n \in Nat /\ (k + l) - n = (k - n) + l
          /\ n + 1 \in 1 .. k + 1
        BY <1>1, <1>4
    <2> HIDE DEF k, l, s
    <2>1. /\ b \in Seq(D) /\ Len(b) = k - n
          /\ \A i \in 1 .. k - n : b[i] = rest[n + i]
        BY <1>1, <1>4, BeyondFacts DEF k
    <2>2. /\ c \in Seq(D) /\ Len(c) = (k + l) - n
          /\ \A i \in 1 .. (k + l) - n : c[i] = s[n + i]
        <3>1. n <= Len(s) /\ s \in Seq(D)
            BY <1>1, <1>4
        <3>2. /\ c \in Seq(D) /\ Len(c) = Len(s) - n
              /\ \A i \in 1 .. Len(s) - n : c[i] = s[n + i]
            BY <3>1, BeyondFacts
        <3> HIDE DEF c
        <3> QED BY <1>1, <3>2
    <2> HIDE DEF b, c
    <2>3. b \o t \in Seq(D) /\ Len(b \o t) = (k - n) + l
          /\ \A i \in 1 .. (k - n) + l : (b \o t)[i] = IF i <= k - n THEN b[i] ELSE t[i - (k - n)]
        BY <2>1, ConcatProperties, LenProperties DEF l
    <2>4. ASSUME NEW i \in 1 .. (k - n) + l PROVE c[i] = (b \o t)[i]
        <3>1. n + i \in 1 .. k + l /\ c[i] = s[n + i]
            BY <1>1, <2>0, <2>2
        <3>2. CASE i <= k - n
            <4>1. n + i <= k /\ i \in 1 .. k - n
                BY <3>2, <2>0, <1>1
            <4> QED BY <1>1, <2>1, <2>3, <3>1, <3>2, <4>1
        <3>3. CASE ~(i <= k - n)
            <4>1. ~(n + i <= k) /\ (n + i) - k = i - (k - n)
                BY <3>3, <2>0, <1>1
            <4> QED BY <1>1, <2>3, <3>1, <3>3, <4>1
        <3> QED BY <3>2, <3>3
    <2>5. c = b \o t
        <3>1. c = [i \in 1 .. (k - n) + l |-> c[i]]
            BY <2>2, <2>0
        <3>2. b \o t = [i \in 1 .. (k - n) + l |-> (b \o t)[i]]
            <4> DEFINE u == b \o t
            <4>1. u \in Seq(D) /\ Len(u) = (k - n) + l
                BY <2>3
            <4> HIDE DEF u
            <4>2. u = [i \in 1 .. (k - n) + l |-> u[i]]
                BY <4>1
            <4> QED BY <4>2 DEF u
        <3> QED BY <2>4, <3>1, <3>2
    <2> QED BY <2>1, <2>5 DEF b, c
<1>5. \A n \in Nat : Enough(rest, n) => n <= k /\ Enough(s, n)
    <2> HIDE DEF s
    <2> QED BY <1>1 DEF Enough
<1> QED BY <1>1, <1>2, <1>4, <1>5

LEMMA FieldsOfRange ==
    \A type : FieldsOf(type) \in 0 .. 2
BY DEF FieldsOf

LEMMA StateProlonged ==
    ASSUME NEW D, NEW rest \in Seq(D), NEW t \in Seq(D), Enough(rest, 2),
           Enough(rest, 2 + FieldsOf(rest[2]))
    PROVE StateOf(Tail(rest \o t)) = StateOf(Tail(rest))
<1> DEFINE s == rest \o t
           k == Len(rest)
<1>1. /\ s \in Seq(D) /\ k \in Nat /\ Len(s) = k + Len(t) /\ Len(t) \in Nat
      /\ \A i \in 1 .. k : s[i] = rest[i]
    BY Prolonged, ConcatProperties
<1> HIDE DEF s
<1>2. /\ \A i \in 1 .. k - 1 : Tail(rest)[i] = rest[i + 1]
      /\ \A i \in 1 .. Len(s) - 1 : Tail(s)[i] = s[i + 1]
    BY <1>1
<1>3. k >= 2 /\ k >= 2 + FieldsOf(rest[2]) /\ FieldsOf(rest[2]) \in 0 .. 2
    BY FieldsOfRange DEF Enough
<1> HIDE DEF k
<1>4. \A i \in 1 .. k - 1 : Tail(s)[i] = Tail(rest)[i]
    <2> TAKE i \in 1 .. k - 1
    <2>1. i + 1 \in 1 .. k /\ i \in 1 .. Len(s) - 1
        BY <1>1
    <2> QED BY <1>1, <1>2, <2>1
<1>5. Tail(s)[1] = Tail(rest)[1] /\ Tail(rest)[1] = rest[2]
    <2>1. 1 \in 1 .. k - 1 /\ 1 + 1 = 2
        BY <1>1, <1>3
    <2> QED BY <1>2, <1>4, <2>1
<1>6. FieldsOf(rest[2]) > 0 => Tail(s)[2] = Tail(rest)[2]
    <2>1. FieldsOf(rest[2]) > 0 => 2 \in 1 .. k - 1
        BY <1>1, <1>3
    <2> QED BY <1>4, <2>1
<1>7. FieldsOf(rest[2]) > 1 => Tail(s)[3] = Tail(rest)[3]
    <2>1. FieldsOf(rest[2]) > 1 => 3 \in 1 .. k - 1
        BY <1>1, <1>3
    <2> QED BY <1>4, <2>1
<1> QED BY <1>5, <1>6, <1>7 DEF StateOf, s

(* A round that does not end takes something from the file, and takes the   *)
(* same whatever follows it.                                                *)
Advances(D, rest, listed, node, refs, loops) ==
    \E left \in Seq(D) : \E node2, refs2, loops2 :
        /\ Len(left) < Len(rest)
        /\ Read(ReaderOf(rest, listed, node, refs, loops)) = ReaderOf(left, listed, node2, refs2, loops2)
        /\ \A t \in Seq(D) : Read(ReaderOf(rest \o t, listed, node, refs, loops))
                                = ReaderOf(left \o t, listed, node2, refs2, loops2)

LEMMA ReadAdvances ==
    ASSUME NEW D, NEW rest \in Seq(D), NEW listed, NEW node, NEW refs, NEW loops
    PROVE LET r == ReaderOf(rest, listed, node, refs, loops)
          IN \/ loops = <<>> /\ Read(r) = r
             \/ Read(r) = Died(r)
             \/ Advances(D, rest, listed, node, refs, loops)
<1> DEFINE of(x) == ReaderOf(x, listed, node, refs, loops)
           reads == Head(loops).reads
           p == Head(loops).path
           k == Head(loops).rounds
           S == Tail(loops)
           later == Loop(reads, p, k - 1) \o S
<1>1. CASE loops = <<>>
    BY <1>1 DEF Read, ReaderOf
<1>2. CASE loops # <<>>
    <2>0. SUFFICES ASSUME Read(of(rest)) # Died(of(rest))
                   PROVE Advances(D, rest, listed, node, refs, loops)
        OBVIOUS
    <2>1. InLoop(loops, reads, p, k, S)
        BY <1>2 DEF InLoop
    <2>2. ASSUME NEW x PROVE RoundIs(of(x), reads, p, later)
        <3> HIDE DEF reads, p, k, S
        <3> QED BY <2>1, RoundOf
    <2>3. ASSUME NEW x
          PROVE /\ ReadPoint(of(x), p, later) =
                       IF PointRefused(x, listed) THEN Died(of(x))
                       ELSE PointRead(x, listed, node, refs, p, later)
                /\ ReadNode(of(x), p, later) =
                       IF NodeRefused(x, p) THEN Died(of(x))
                       ELSE NodeRead(x, listed, node, refs, later)
                /\ ReadSubnodes(of(x), p, later) =
                       IF ~Enough(x, 1) THEN Died(of(x))
                       ELSE CountRead(x, listed, node, refs, p, later)
        <3> HIDE DEF p, later
        <3> QED BY RoundForms
    <2> HIDE DEF later, p, reads, k, S, of
    <2>4. Len(rest) \in Nat /\ \A t \in Seq(D) : \A i \in 1 .. Len(rest) : (rest \o t)[i] = rest[i]
        BY Prolonged
    <2>5. ASSUME NEW n \in Nat, n > 0, Enough(rest, n), NEW node2, NEW refs2, NEW loops2,
                 Read(of(rest)) = ReaderOf(Beyond(rest, n), listed, node2, refs2, loops2),
                 \A t \in Seq(D) : Read(of(rest \o t))
                     = ReaderOf(Beyond(rest \o t, n), listed, node2, refs2, loops2)
          PROVE Advances(D, rest, listed, node, refs, loops)
        <3> DEFINE left == Beyond(rest, n)
        <3>1. left \in Seq(D) /\ Len(left) = Len(rest) - n
            BY <2>5, Prolonged
        <3>2. \A t \in Seq(D) : Beyond(rest \o t, n) = left \o t
            BY <2>5, Prolonged
        <3>3. Len(left) < Len(rest)
            BY <2>4, <2>5, <3>1
        <3> HIDE DEF left
        <3>4. Read(of(rest)) = ReaderOf(left, listed, node2, refs2, loops2)
            BY <2>5 DEF left
        <3>5. \A t \in Seq(D) : Read(of(rest \o t)) = ReaderOf(left \o t, listed, node2, refs2, loops2)
            BY <2>5, <3>2
        <3> QED BY <3>1, <3>3, <3>4, <3>5 DEF Advances, of
    <2>6. CASE reads = "point"
        <3>1. \A x : Read(of(x)) = IF PointRefused(x, listed) THEN Died(of(x))
                                   ELSE PointRead(x, listed, node, refs, p, later)
            BY <2>2, <2>3, <2>6 DEF RoundIs
        <3>2. ~PointRefused(rest, listed)
            BY <2>0, <3>1
        <3> DEFINE n == 2 + FieldsOf(rest[2])
        <3>3. /\ Enough(rest, 2) /\ Enough(rest, n) /\ ~(rest[1] >= Len(listed))
              /\ n \in Nat /\ n > 0 /\ 1 \in 1 .. Len(rest) /\ 2 \in 1 .. Len(rest)
            BY <2>4, <3>2, FieldsOfRange DEF PointRefused, Enough
        <3>4. ASSUME NEW t \in Seq(D)
              PROVE /\ (rest \o t)[1] = rest[1] /\ (rest \o t)[2] = rest[2]
                    /\ PointOf(rest \o t, listed) = PointOf(rest, listed)
                    /\ ~PointRefused(rest \o t, listed)
            <4>1. (rest \o t)[1] = rest[1] /\ (rest \o t)[2] = rest[2]
                BY <2>4, <3>3
            <4>2. StateOf(Tail(rest \o t)) = StateOf(Tail(rest))
                BY <3>3, StateProlonged
            <4>3. Enough(rest \o t, 2) /\ Enough(rest \o t, n)
                BY <3>3, Prolonged
            <4> HIDE DEF n
            <4>4. ~PointRefused(rest \o t, listed)
                BY <3>3, <4>1, <4>3 DEF PointRefused, n
            <4> QED BY <4>1, <4>2, <4>4 DEF PointOf
        <3> DEFINE node2 == Extend(node, p, PointOf(rest, listed))
                   refs2 == Tally(refs, listed[rest[1] + 1])
        <3>5. Read(of(rest)) = ReaderOf(Beyond(rest, n), listed, node2, refs2, later)
            BY <3>1, <3>2 DEF PointRead
        <3>6. \A t \in Seq(D) : Read(of(rest \o t))
                    = ReaderOf(Beyond(rest \o t, n), listed, node2, refs2, later)
            <4> TAKE t \in Seq(D)
            <4>1. Read(of(rest \o t)) = PointRead(rest \o t, listed, node, refs, p, later)
                BY <3>1, <3>4
            <4>2. /\ (rest \o t)[1] = rest[1] /\ (rest \o t)[2] = rest[2]
                  /\ PointOf(rest \o t, listed) = PointOf(rest, listed)
                BY <3>4
            <4> QED BY <4>1, <4>2 DEF PointRead
        <3> HIDE DEF n, node2, refs2
        <3> QED BY <2>5, <3>3, <3>5, <3>6
    <2>7. CASE reads = "node"
        <3>1. \A x : Read(of(x)) = IF NodeRefused(x, p) THEN Died(of(x))
                                   ELSE NodeRead(x, listed, node, refs, later)
            BY <2>2, <2>3, <2>7 DEF RoundIs
        <3>2. ~NodeRefused(rest, p)
            BY <2>0, <3>1
        <3>3. /\ Enough(rest, 3) /\ Parent[Head(rest)] = p /\ Head(rest) = rest[1]
              /\ 1 \in 1 .. Len(rest) /\ 2 \in 1 .. Len(rest) /\ 3 \in 1 .. Len(rest)
            BY <2>4, <3>2 DEF NodeRefused, Enough
        <3>4. ASSUME NEW t \in Seq(D)
              PROVE /\ (rest \o t)[2] = rest[2] /\ (rest \o t)[3] = rest[3]
                    /\ Head(rest \o t) = Head(rest)
                    /\ ~NodeRefused(rest \o t, p)
            <4>1. (rest \o t)[1] = rest[1] /\ (rest \o t)[2] = rest[2] /\ (rest \o t)[3] = rest[3]
                BY <2>4, <3>3
            <4>2. Enough(rest \o t, 3)
                BY <3>3, Prolonged
            <4>3. Head(rest \o t) = (rest \o t)[1]
                <5> DEFINE u == rest \o t
                <5>1. u \in Seq(D)
                    BY Prolonged
                <5> HIDE DEF u
                <5>2. Head(u) = u[1]
                    BY <5>1
                <5> QED BY <5>2 DEF u
            <4> QED BY <3>3, <4>1, <4>2, <4>3 DEF NodeRefused
        <3> DEFINE node2 == Begin(node, Head(rest), rest[2])
                   loops2 == Loop("point", Head(rest), rest[3]) \o Loop("subnodes", Head(rest), 1) \o later
        <3>5. Read(of(rest)) = ReaderOf(Beyond(rest, 3), listed, node2, refs, loops2)
            BY <3>1, <3>2 DEF NodeRead
        <3>6. \A t \in Seq(D) : Read(of(rest \o t))
                    = ReaderOf(Beyond(rest \o t, 3), listed, node2, refs, loops2)
            <4> TAKE t \in Seq(D)
            <4>1. Read(of(rest \o t)) = NodeRead(rest \o t, listed, node, refs, later)
                BY <3>1, <3>4
            <4>2. /\ (rest \o t)[2] = rest[2] /\ (rest \o t)[3] = rest[3]
                  /\ Head(rest \o t) = Head(rest)
                BY <3>4
            <4> QED BY <4>1, <4>2 DEF NodeRead
        <3>7. 3 \in Nat /\ 3 > 0
            OBVIOUS
        <3> HIDE DEF node2, loops2
        <3> QED BY <2>5, <3>3, <3>5, <3>6, <3>7
    <2>8. CASE reads \notin {"point", "node"}
        <3>1. \A x : Read(of(x)) = IF ~Enough(x, 1) THEN Died(of(x))
                                   ELSE CountRead(x, listed, node, refs, p, later)
            BY <2>2, <2>3, <2>8 DEF RoundIs
        <3>2. Enough(rest, 1)
            BY <2>0, <3>1
        <3>3. Head(rest) = rest[1] /\ 1 \in 1 .. Len(rest)
            BY <2>4, <3>2 DEF Enough
        <3>4. \A t \in Seq(D) : Head(rest \o t) = Head(rest) /\ Enough(rest \o t, 1)
            <4> TAKE t \in Seq(D)
            <4>1. Head(rest \o t) = (rest \o t)[1] /\ (rest \o t)[1] = rest[1]
                BY <2>4, <3>3
            <4> QED BY <3>2, <3>3, <4>1, Prolonged
        <3> DEFINE loops2 == Loop("node", p, Head(rest)) \o later
        <3>5. Read(of(rest)) = ReaderOf(Beyond(rest, 1), listed, node, refs, loops2)
            BY <3>1, <3>2 DEF CountRead
        <3>6. \A t \in Seq(D) : Read(of(rest \o t))
                    = ReaderOf(Beyond(rest \o t, 1), listed, node, refs, loops2)
            <4> TAKE t \in Seq(D)
            <4>1. Read(of(rest \o t)) = CountRead(rest \o t, listed, node, refs, p, later)
                BY <3>1, <3>4
            <4>2. Head(rest \o t) = Head(rest)
                BY <3>4
            <4> QED BY <4>1, <4>2 DEF CountRead
        <3>7. 1 \in Nat /\ 1 > 0
            OBVIOUS
        <3> HIDE DEF loops2
        <3> QED BY <2>5, <3>2, <3>5, <3>6, <3>7
    <2> QED BY <2>6, <2>7, <2>8
<1> QED BY <1>1, <1>2

(* After any number of rounds the reader has died, or it has taken as much, *)
(* or is through with its loops; what follows makes no difference.          *)
GoesOn(D, rest, listed, node, refs, loops, n) ==
    \E left \in Seq(D) : \E node2, refs2, loops2 :
        /\ Reads(ReaderOf(rest, listed, node, refs, loops), n)
             = ReaderOf(left, listed, node2, refs2, loops2)
        /\ \A t \in Seq(D) : Reads(ReaderOf(rest \o t, listed, node, refs, loops), n)
                                = ReaderOf(left \o t, listed, node2, refs2, loops2)
        /\ loops2 = <<>> \/ Len(left) + n <= Len(rest)
Stopped(r) == Read(r) = r /\ r.died

LEMMA StoppedFacts ==
    /\ \A r : r.died => Stopped(r)
    /\ \A x, listed, node, refs, loops : Stopped(Died(ReaderOf(x, listed, node, refs, loops)))
    /\ \A x, listed, node, refs : LET r == ReaderOf(x, listed, node, refs, <<>>) IN Read(r) = r
<1>1. \A r : r.died => Stopped(r)
    BY DEF Read, Stopped
<1>2. \A x, listed, node, refs, loops : Died(ReaderOf(x, listed, node, refs, loops)).died
    BY DEF Died, ReaderOf
<1>3. \A x, listed, node, refs : LET r == ReaderOf(x, listed, node, refs, <<>>) IN Read(r) = r
    BY DEF Read, ReaderOf
<1> QED BY <1>1, <1>2, <1>3

LEMMA ReadsGo ==
    ASSUME NEW D, NEW rest \in Seq(D), NEW listed, NEW node, NEW refs, NEW loops, NEW n \in Nat
    PROVE LET r == ReaderOf(rest, listed, node, refs, loops)
          IN Stopped(Reads(r, n)) \/ GoesOn(D, rest, listed, node, refs, loops, n)
<1> DEFINE of(x) == ReaderOf(x, listed, node, refs, loops)
           go(i) == GoesOn(D, rest, listed, node, refs, loops, i)
           T == {i \in Nat : Stopped(Reads(of(rest), i)) \/ go(i)}
<1>0. Len(rest) \in Nat
    OBVIOUS
<1>1. 0 \in T
    <2>1. \A x : Reads(of(x), 0) = of(x)
        BY ReadsUnfold
    <2>2. Len(rest) + 0 <= Len(rest)
        BY <1>0
    <2>3. go(0)
        BY <2>1, <2>2 DEF GoesOn
    <2> HIDE DEF go
    <2> QED BY <2>3
<1>2. ASSUME NEW i \in T PROVE i + 1 \in T
    <2>1. i \in Nat /\ \A x : Reads(of(x), i + 1) = Read(Reads(of(x), i))
        BY ReadsUnfold
    <2>2. CASE Stopped(Reads(of(rest), i))
        <3>1. Reads(of(rest), i + 1) = Reads(of(rest), i)
            BY <2>1, <2>2 DEF Stopped
        <3> HIDE DEF of, go
        <3> QED BY <2>1, <2>2, <3>1
    <2>3. CASE go(i)
        <3>1. PICK left \in Seq(D) : \E node2, refs2, loops2 :
                /\ Reads(of(rest), i) = ReaderOf(left, listed, node2, refs2, loops2)
                /\ \A t \in Seq(D) : Reads(of(rest \o t), i)
                                        = ReaderOf(left \o t, listed, node2, refs2, loops2)
                /\ loops2 = <<>> \/ Len(left) + i <= Len(rest)
            BY <2>3 DEF GoesOn
        <3>2. PICK node2, refs2, loops2 :
                /\ Reads(of(rest), i) = ReaderOf(left, listed, node2, refs2, loops2)
                /\ \A t \in Seq(D) : Reads(of(rest \o t), i)
                                        = ReaderOf(left \o t, listed, node2, refs2, loops2)
                /\ loops2 = <<>> \/ Len(left) + i <= Len(rest)
            BY <3>1
        <3> DEFINE r == ReaderOf(left, listed, node2, refs2, loops2)
        <3>3. Reads(of(rest), i + 1) = Read(r)
              /\ \A t \in Seq(D) : Reads(of(rest \o t), i + 1)
                                     = Read(ReaderOf(left \o t, listed, node2, refs2, loops2))
            BY <2>1, <3>2
        <3>4. CASE loops2 = <<>>
            <4>1. /\ Reads(of(rest), i + 1) = r
                  /\ \A t \in Seq(D) : Reads(of(rest \o t), i + 1)
                                        = ReaderOf(left \o t, listed, node2, refs2, loops2)
                BY <3>3, <3>4, StoppedFacts
            <4>2. go(i + 1)
                BY <3>4, <4>1 DEF GoesOn
            <4> HIDE DEF go, of
            <4> QED BY <2>1, <4>2
        <3>5. CASE loops2 # <<>>
            <4>1. \/ Read(r) = Died(r)
                  \/ Advances(D, left, listed, node2, refs2, loops2)
                BY <3>5, ReadAdvances
            <4>2. CASE Read(r) = Died(r)
                <5>1. Stopped(Reads(of(rest), i + 1))
                    BY <3>3, <4>2, StoppedFacts
                <5> HIDE DEF of, go
                <5> QED BY <2>1, <5>1
            <4>3. CASE Advances(D, left, listed, node2, refs2, loops2)
                <5>1. PICK left3 \in Seq(D) : \E node3, refs3, loops3 :
                        /\ Len(left3) < Len(left)
                        /\ Read(r) = ReaderOf(left3, listed, node3, refs3, loops3)
                        /\ \A t \in Seq(D) : Read(ReaderOf(left \o t, listed, node2, refs2, loops2))
                                                = ReaderOf(left3 \o t, listed, node3, refs3, loops3)
                    BY <4>3 DEF Advances
                <5>2. PICK node3, refs3, loops3 :
                        /\ Len(left3) < Len(left)
                        /\ Read(r) = ReaderOf(left3, listed, node3, refs3, loops3)
                        /\ \A t \in Seq(D) : Read(ReaderOf(left \o t, listed, node2, refs2, loops2))
                                                = ReaderOf(left3 \o t, listed, node3, refs3, loops3)
                    BY <5>1
                <5>3. Len(left3) + (i + 1) <= Len(rest)
                    <6>1. Len(left) \in Nat /\ Len(left3) \in Nat
                        BY LenProperties
                    <6>2. Len(left) + i <= Len(rest) /\ Len(left3) < Len(left)
                        BY <3>2, <3>5, <5>2
                    <6> HIDE DEF T
                    <6> QED BY <1>0, <2>1, <6>1, <6>2
                <5>4. Reads(of(rest), i + 1) = ReaderOf(left3, listed, node3, refs3, loops3)
                    BY <3>3, <5>2
                <5>5. \A t \in Seq(D) : Reads(of(rest \o t), i + 1)
                                          = ReaderOf(left3 \o t, listed, node3, refs3, loops3)
                    BY <3>3, <5>2
                <5>6. go(i + 1)
                    BY <5>3, <5>4, <5>5 DEF GoesOn
                <5> HIDE DEF go, of
                <5> QED BY <2>1, <5>6
            <4> QED BY <4>1, <4>2, <4>3
        <3> QED BY <3>4, <3>5
    <2> HIDE DEF go, of
    <2> QED BY <2>2, <2>3
<1>3. n \in T
    <2>1. T \in SUBSET Nat /\ n \in 0 .. n
        OBVIOUS
    <2> HIDE DEF T
    <2> QED BY <1>1, <1>2, <2>1, Upwards
<1> HIDE DEF go, of
<1>4. Stopped(Reads(of(rest), n)) \/ go(n)
    BY <1>3
<1> QED BY <1>4 DEF of, go

(* With a round for every field and one more nothing is left to be done.    *)
LEMMA ReadingEnds ==
    ASSUME NEW D, NEW rest \in Seq(D), NEW listed, NEW node, NEW refs, NEW loops,
           NEW n \in Nat, n > Len(rest)
    PROVE LET r == ReaderOf(rest, listed, node, refs, loops)
          IN /\ Read(Reads(r, n)) = Reads(r, n)
             /\ ~Reads(r, n).died =>
                  \E left \in Seq(D) : \E node2, refs2 :
                    /\ Reads(r, n) = ReaderOf(left, listed, node2, refs2, <<>>)
                    /\ \A t \in Seq(D) : Reads(ReaderOf(rest \o t, listed, node, refs, loops), n)
                                            = ReaderOf(left \o t, listed, node2, refs2, <<>>)
<1> DEFINE r == ReaderOf(rest, listed, node, refs, loops)
<1>1. CASE Stopped(Reads(r, n))
    BY <1>1 DEF Stopped
<1>2. CASE GoesOn(D, rest, listed, node, refs, loops, n)
    <2>1. PICK left \in Seq(D) : \E node2, refs2, loops2 :
            /\ Reads(r, n) = ReaderOf(left, listed, node2, refs2, loops2)
            /\ \A t \in Seq(D) : Reads(ReaderOf(rest \o t, listed, node, refs, loops), n)
                                    = ReaderOf(left \o t, listed, node2, refs2, loops2)
            /\ loops2 = <<>> \/ Len(left) + n <= Len(rest)
        BY <1>2 DEF GoesOn
    <2>2. PICK node2, refs2, loops2 :
            /\ Reads(r, n) = ReaderOf(left, listed, node2, refs2, loops2)
            /\ \A t \in Seq(D) : Reads(ReaderOf(rest \o t, listed, node, refs, loops), n)
                                    = ReaderOf(left \o t, listed, node2, refs2, loops2)
            /\ loops2 = <<>> \/ Len(left) + n <= Len(rest)
        BY <2>1
    <2>3. Len(left) \in Nat /\ Len(rest) \in Nat
        BY LenProperties
    <2>4. loops2 = <<>>
        <3>1. ~(Len(left) + n <= Len(rest))
            BY <2>3
        <3> QED BY <2>2, <3>1
    <2>5. Read(Reads(r, n)) = Reads(r, n)
        BY <2>2, <2>4, StoppedFacts
    <2> HIDE DEF r
    <2> QED BY <2>2, <2>4, <2>5 DEF r
<1> QED BY <1>1, <1>2, ReadsGo

-----------------------------------------------------------------------------
(* Points.                                                                  *)
AnyState == Mixed \cup {NonExisting}
Fields == Int \cup Paths \cup Policies
            \cup {s.type : s \in AnyState} \cup {s.data : s \in AnyState}
            \cup {s.content : s \in AnyState}

PointFields(h) ==
    <<WrittenId(h.backup) - 1, h.state.type>>
    \o SubSeq(<<h.state.data, h.state.content>>, 1, FieldsOf(h.state.type))

(* The id that is written for a backup stands for it.                       *)
Findable(b) ==
    /\ WrittenId(b) \in 1 .. Len(WrittenBackups)
    /\ WrittenBackups[WrittenId(b)] = b

LEMMA PointFieldsFacts ==
    ASSUME NEW h \in Point, WrittenId(h.backup) \in Int
    PROVE LET f == PointFields(h)
              n == FieldsOf(h.state.type)
          IN /\ f \in Seq(Fields) /\ Len(f) = 2 + n /\ n \in 0 .. 2
             /\ f[1] = WrittenId(h.backup) - 1 /\ f[2] = h.state.type
             /\ n > 0 => f[3] = h.state.data
             /\ n > 1 => f[4] = h.state.content
<1> DEFINE s == h.state
           n == FieldsOf(s.type)
           id == WrittenId(h.backup) - 1
<1>1. s \in AnyState /\ id \in Int
    BY DEF Point, AnyState
<1>2. id \in Fields /\ s.type \in Fields /\ s.data \in Fields /\ s.content \in Fields
    BY <1>1 DEF Fields
<1>3. n = 0 \/ n = 1 \/ n = 2
    BY FieldsOfRange
<1> DEFINE F == Fields
           a == <<id, s.type>>
           c == <<s.data, s.content>>
           b == SubSeq(c, 1, n)
<1>4. PointFields(h) = a \o b
    BY DEF PointFields
<1> HIDE DEF F, s, n, id, b
<1>5. a \in Seq(F) /\ Len(a) = 2 /\ a[1] = id /\ a[2] = s.type
      /\ c \in Seq(F) /\ Len(c) = 2 /\ c[1] = s.data /\ c[2] = s.content
    BY <1>2 DEF F
<1> HIDE DEF a, c
<1>6. b \in Seq(F) /\ Len(b) = n /\ \A i \in 1 .. n : b[i] = c[i]
    <2>1. b = [i \in 1 .. n |-> c[i]]
        BY <1>3, <1>5 DEF b
    <2>2. \A i \in 1 .. n : c[i] \in F
        <3>0. c \in Seq(F)
            BY <1>5
        <3>1. \A i \in 1 .. Len(c) : c[i] \in F
            BY <3>0, LenProperties
        <3>2. \A i \in 1 .. n : i \in 1 .. Len(c)
            BY <1>3, <1>5
        <3> QED BY <3>1, <3>2
    <2>3. n \in Nat
        BY <1>3
    <2> QED BY <2>1, <2>2, <2>3
<1>7. a \o b \in Seq(F) /\ Len(a \o b) = 2 + n
      /\ \A i \in 1 .. 2 + n : (a \o b)[i] = IF i <= 2 THEN a[i] ELSE b[i - 2]
    <2>1. /\ a \o b \in Seq(F) /\ Len(a \o b) = Len(a) + Len(b)
          /\ \A i \in 1 .. Len(a) + Len(b) :
                (a \o b)[i] = IF i <= Len(a) THEN a[i] ELSE b[i - Len(a)]
        <3>1. a \in Seq(F) /\ b \in Seq(F)
            BY <1>5, <1>6
        <3> QED BY <3>1, ConcatProperties
    <2>2. Len(a) = 2 /\ Len(b) = n
        BY <1>5, <1>6
    <2> QED BY <2>1, <2>2
<1>8. (a \o b)[1] = id /\ (a \o b)[2] = s.type
    <2>1. 1 \in 1 .. 2 + n /\ 2 \in 1 .. 2 + n
        BY <1>3
    <2> QED BY <1>5, <1>7, <2>1
<1>9. n > 0 => (a \o b)[3] = s.data
    <2>1. n > 0 => 3 \in 1 .. 2 + n /\ 1 \in 1 .. n /\ 3 - 2 = 1
        BY <1>3
    <2> QED BY <1>5, <1>6, <1>7, <2>1
<1>10. n > 1 => (a \o b)[4] = s.content
    <2>1. n > 1 => 4 \in 1 .. 2 + n /\ 2 \in 1 .. n /\ 4 - 2 = 2
        BY <1>3
    <2> QED BY <1>5, <1>6, <1>7, <2>1
<1>11. n \in 0 .. 2
    BY <1>3
<1> QED BY <1>4, <1>7, <1>8, <1>9, <1>10, <1>11 DEF F, s, n, id

(* What is not written of a state is not there.                             *)
LEMMA StateFields ==
    ASSUME NEW s \in AnyState
    PROVE /\ s = [type |-> s.type, data |-> s.data, content |-> s.content]
          /\ FieldsOf(s.type) <= 0 => s.data = None
          /\ FieldsOf(s.type) <= 1 => s.content = None
<1>1. s = [type |-> s.type, data |-> s.data, content |-> s.content]
    BY StateFacts DEF AnyState
<1>2. CASE s = NonExisting
    BY <1>1, <1>2 DEF NonExisting
<1>3. CASE s # NonExisting
    <2>1. s \in Mixed /\ s.type \in {"regular_file", "directory", "symlink"}
        BY <1>3, StateFacts DEF AnyState
    <2>2. s.type = "directory" => s.content = None
        <3>1. CASE s \in States
            BY <3>1, StatesAssumption
        <3>2. CASE s \notin States
            <4>1. s.type = "regular_file"
                BY <2>1, <3>2 DEF Mixed, Files
            <4> QED BY <4>1
        <3> QED BY <3>1, <3>2
    <2>3. FieldsOf(s.type) = IF s.type = "directory" THEN 1 ELSE 2
        BY <2>1 DEF FieldsOf
    <2> QED BY <1>1, <2>2, <2>3
<1> QED BY <1>2, <1>3

LEMMA PointIsRead ==
    ASSUME NEW h \in Point, WrittenBackups \in Seq(Runs), Findable(h.backup),
           NEW X \in Seq(Fields), NEW node, NEW refs, NEW p \in Paths,
           NEW k \in Nat \ {0}, NEW S \in Seq(Loops)
    PROVE Read(ReaderOf(PointFields(h) \o X, WrittenBackups, node, refs, Loop("point", p, k) \o S))
            = ReaderOf(X, WrittenBackups, Extend(node, p, h), Tally(refs, h.backup),
                       Loop("point", p, k - 1) \o S)
<1> DEFINE f == PointFields(h)
           n == FieldsOf(h.state.type)
           id == WrittenId(h.backup)
           rest == f \o X
           F == Fields
           W == WrittenBackups
<1>1. id \in 1 .. Len(W) /\ W[id] = h.backup /\ Len(W) \in Nat
    BY DEF Findable
<1>2. /\ f \in Seq(F) /\ Len(f) = 2 + n /\ n \in 0 .. 2
      /\ f[1] = id - 1 /\ f[2] = h.state.type
      /\ n > 0 => f[3] = h.state.data
      /\ n > 1 => f[4] = h.state.content
    <2>1. id \in Int
        BY <1>1
    <2> QED BY <2>1, PointFieldsFacts
<1>3. h.state \in AnyState /\ h = [backup |-> h.backup, state |-> h.state]
    BY DEF Point, AnyState
<1> HIDE DEF f, F, W, id
<1>4. X \in Seq(F)
    BY DEF F
<1>5. Enough(f, 2) /\ Enough(f, 2 + n) /\ 2 \in Nat /\ 2 + n \in Nat
    BY <1>2 DEF Enough
<1>6. /\ rest[1] = id - 1 /\ rest[2] = h.state.type
      /\ Enough(rest, 2) /\ Enough(rest, 2 + n)
      /\ Beyond(rest, 2 + n) = Beyond(f, 2 + n) \o X
    <2>1. 1 \in 1 .. Len(f) /\ 2 \in 1 .. Len(f)
        BY <1>2
    <2>2. /\ \A i \in 1 .. Len(f) : (f \o X)[i] = f[i]
          /\ \A j \in Nat : Enough(f, j) =>
                /\ Enough(f \o X, j)
                /\ Beyond(f \o X, j) = Beyond(f, j) \o X
        BY <1>2, <1>4, Prolonged
    <2> QED BY <1>2, <1>5, <2>1, <2>2
<1>7. Beyond(f, 2 + n) = <<>>
    <2>1. Beyond(f, 2 + n) \in Seq(F) /\ Len(Beyond(f, 2 + n)) = Len(f) - (2 + n)
        BY <1>2, <1>5, BeyondFacts DEF Enough
    <2>2. Len(f) - (2 + n) = 0
        BY <1>2
    <2> QED BY <2>1, <2>2, EmptySeq
<1>8. Beyond(rest, 2 + n) = X
    BY <1>4, <1>6, <1>7, ConcatEmptySeq
<1>9. StateOf(Tail(rest)) = h.state
    <2>1. StateOf(Tail(rest)) = StateOf(Tail(f))
        BY <1>2, <1>4, <1>5, StateProlonged
    <2>2. \A i \in 1 .. Len(f) - 1 : Tail(f)[i] = f[i + 1]
        BY <1>2
    <2>3. Tail(f)[1] = h.state.type
        <3>1. 1 \in 1 .. Len(f) - 1 /\ 1 + 1 = 2
            BY <1>2
        <3> QED BY <1>2, <2>2, <3>1
    <2>4. n > 0 => Tail(f)[2] = h.state.data
        <3>1. n > 0 => 2 \in 1 .. Len(f) - 1 /\ 2 + 1 = 3
            BY <1>2
        <3> QED BY <1>2, <2>2, <3>1
    <2>5. n > 1 => Tail(f)[3] = h.state.content
        <3>1. n > 1 => 3 \in 1 .. Len(f) - 1 /\ 3 + 1 = 4
            BY <1>2
        <3> QED BY <1>2, <2>2, <3>1
    <2>6. /\ h.state = [type |-> h.state.type, data |-> h.state.data, content |-> h.state.content]
          /\ n <= 0 => h.state.data = None
          /\ n <= 1 => h.state.content = None
        BY <1>3, StateFields
    <2>7. StateOf(Tail(f)) = [type |-> h.state.type, data |-> h.state.data, content |-> h.state.content]
        BY <1>2, <2>3, <2>4, <2>5, <2>6 DEF StateOf
    <2> QED BY <2>1, <2>6, <2>7
<1>10. W[rest[1] + 1] = h.backup /\ ~(rest[1] >= Len(W))
    <2>1. (id - 1) + 1 = id /\ ~(id - 1 >= Len(W))
        BY <1>1
    <2> QED BY <1>1, <1>6, <2>1
<1> HIDE DEF rest
<1>11. ~PointRefused(rest, W)
    BY <1>6, <1>10 DEF PointRefused
<1>12. PointOf(rest, W) = h
    BY <1>3, <1>9, <1>10 DEF PointOf
<1>13. Read(ReaderOf(rest, W, node, refs, Loop("point", p, k) \o S))
         = PointRead(rest, W, node, refs, p, Loop("point", p, k - 1) \o S)
    BY <1>11, NextRound
<1>14. PointRead(rest, W, node, refs, p, Loop("point", p, k - 1) \o S)
         = ReaderOf(X, W, Extend(node, p, h), Tally(refs, h.backup), Loop("point", p, k - 1) \o S)
    BY <1>6, <1>8, <1>10, <1>12 DEF PointRead
<1> QED BY <1>13, <1>14 DEF rest, f, W

-----------------------------------------------------------------------------
(* Histories.                                                               *)
Nodes == [Paths -> Node \cup {None}]
Tallies == [Runs -> Int]
Put(node, p, policy, h) == [node EXCEPT ![p] = [policy |-> policy, history |-> h]]
Without(refs, h, k) == [b \in Runs |-> refs[b] + Count(h, b) - Count(Beyond(h, k), b)]
With(refs, h) == [b \in Runs |-> refs[b] + Count(h, b)]
HistoryPoints(h) == FlattenSeq([i \in DOMAIN h |-> PointFields(h[i])])

LEMMA CountFirst ==
    ASSUME NEW h \in Seq(Point), NEW k \in Nat, k < Len(h), NEW b
    PROVE Count(Beyond(h, k), b)
            = Count(Beyond(h, k + 1), b) + IF h[k + 1].backup = b THEN 1 ELSE 0
<1> DEFINE g == Beyond(h, k + 1)
           point == h[k + 1]
<1>1. /\ Len(h) \in Nat /\ k + 1 \in 1 .. Len(h) /\ Len(h) \in k + 1 .. Len(h)
      /\ k + 1 \in Nat /\ k + 1 <= Len(h) /\ (k + 1) + 1 \in Nat
    OBVIOUS
<1>2. point \in Point
    BY <1>1
<1>3. g \in Seq(Point)
    BY <1>1, BeyondFacts
<1>4. Beyond(h, k) = <<point>> \o g
    BY <1>1, SubSeqRecursiveFirst DEF Beyond
<1> HIDE DEF g, point
<1>5. Places(<<point>> \o g, b) = Places(g, b) \cup (IF point.backup = b THEN {Len(g)} ELSE {})
    BY <1>2, <1>3, PlacesPushed
<1>6. Places(g, b) \subseteq 0 .. Len(g) - 1 /\ IsFiniteSet(Places(g, b)) /\ Count(g, b) \in Nat
    BY <1>3, PlacesFacts
<1>7. Len(g) \notin Places(g, b)
    <2>1. Len(g) \notin 0 .. Len(g) - 1
        BY <1>3
    <2> QED BY <1>6, <2>1
<1>8. CASE point.backup = b
    <2>1. Cardinality(Places(g, b) \cup {Len(g)}) = Cardinality(Places(g, b)) + 1
        BY <1>6, <1>7, FS_AddElement
    <2> QED BY <1>4, <1>5, <1>8, <2>1 DEF Count, point, g
<1>9. CASE point.backup # b
    <2>1. Places(<<point>> \o g, b) = Places(g, b)
        BY <1>5, <1>9
    <2> QED BY <1>4, <1>6, <1>9, <2>1 DEF Count, point, g
<1> QED BY <1>8, <1>9

(* A point more has been read.                                              *)
LEMMA PointAdded ==
    ASSUME NEW node \in Nodes, NEW refs \in Tallies, NEW p \in Paths, NEW policy \in Policies,
           NEW h \in Seq(Point), NEW k \in Nat, k < Len(h)
    PROVE /\ Extend(Put(node, p, policy, SubSeq(h, 1, k)), p, h[k + 1])
                = Put(node, p, policy, SubSeq(h, 1, k + 1))
          /\ Tally(Without(refs, h, k), h[k + 1].backup) = Without(refs, h, k + 1)
<1>1. /\ k + 1 \in 1 .. Len(h) /\ 1 \in 1 .. Len(h) /\ (k + 1) - 1 = k
      /\ k + 1 \in 1 .. Len(h) /\ Len(h) \in Nat
    OBVIOUS
<1> DEFINE g == SubSeq(h, 1, k)
           point == h[k + 1]
           new == SubSeq(h, 1, k + 1)
<1>2. point \in Point /\ point.backup \in Runs
    <2>1. point \in Point
        BY <1>1
    <2> QED BY <2>1 DEF Point
<1>3. g \in Seq(Point)
    <2>1. \A i \in 1 .. k : h[i] \in Point
        BY <1>1
    <2> QED BY <2>1, SubSeqProperties
<1>4. new = Append(g, point)
    <2>1. new = g \o <<point>>
        <3>1. k + 1 \in 1 .. Len(h) /\ 1 \in 1 .. Len(h) /\ k + 1 \in 1 .. Len(h)
            BY <1>1
        <3>2. SubSeq(h, 1, k + 1) = SubSeq(h, 1, (k + 1) - 1) \o <<h[k + 1]>>
            BY <3>1, SubSeqRecursiveSecond
        <3> QED BY <1>1, <3>2
    <2> HIDE DEF new, g, point
    <2> QED BY <1>2, <1>3, <2>1
<1> HIDE DEF g, point, new
<1>5. Extend(Put(node, p, policy, g), p, point) = Put(node, p, policy, new)
    <2> DEFINE put == [policy |-> policy, history |-> g]
               x == [node EXCEPT ![p] = put]
               put2 == [policy |-> policy, history |-> new]
    <2>1. x[p] = put /\ DOMAIN x = Paths
        BY DEF Nodes
    <2>2. [put EXCEPT !.history = Append(@, point)] = put2
        BY <1>4
    <2>3. Put(node, p, policy, g) = x
        BY DEF Put
    <2> HIDE DEF put, put2, x
    <2>4. [x EXCEPT ![p].history = Append(@, point)] = [x EXCEPT ![p] = put2]
        BY <2>1, <2>2
    <2>5. [x EXCEPT ![p] = put2] = [node EXCEPT ![p] = put2]
        BY DEF x, Nodes
    <2> QED BY <2>3, <2>4, <2>5 DEF Extend, Put, put2
<1>6. Tally(Without(refs, h, k), point.backup) = Without(refs, h, k + 1)
    <2> DEFINE x == Without(refs, h, k)
               y == Without(refs, h, k + 1)
    <2>1. \A b \in Runs : /\ Count(Beyond(h, k), b) = Count(Beyond(h, k + 1), b)
                                                        + IF point.backup = b THEN 1 ELSE 0
                          /\ Count(Beyond(h, k + 1), b) \in Nat /\ Count(h, b) \in Nat
                          /\ refs[b] \in Int
        <3> TAKE b \in Runs
        <3>1. Beyond(h, k + 1) \in Seq(Point)
            <4>1. k + 1 \in Nat /\ k + 1 <= Len(h)
                BY <1>1
            <4> QED BY <4>1, BeyondFacts
        <3> QED BY <3>1, CountFirst, PlacesFacts DEF point, Tallies
    <2>2. \A b \in Runs : x[b] \in Int /\ y[b] = x[b] + IF point.backup = b THEN 1 ELSE 0
        BY <2>1 DEF Without
    <2>3. x = [b \in Runs |-> x[b]] /\ y = [b \in Runs |-> y[b]]
        BY DEF Without
    <2> HIDE DEF x, y
    <2>4. \A b \in Runs : [x EXCEPT ![point.backup] = @ + 1][b] = y[b]
        BY <1>2, <2>2, <2>3
    <2>5. [x EXCEPT ![point.backup] = @ + 1] = y
        BY <2>3, <2>4
    <2> QED BY <2>5 DEF Tally, x, y
<1> QED BY <1>5, <1>6 DEF g, new, point

LEMMA HistoryIsRead ==
    ASSUME NEW h \in Seq(Point), \A i \in 1 .. Len(h) : Findable(h[i].backup),
           WrittenBackups \in Seq(Runs), NEW X \in Seq(Fields),
           NEW node \in Nodes, NEW refs \in Tallies, NEW p \in Paths, NEW policy \in Policies,
           NEW S \in Seq(Loops)
    PROVE Leads(ReaderOf(HistoryPoints(h) \o X, WrittenBackups, Put(node, p, policy, <<>>), refs,
                         Loop("point", p, Len(h)) \o S),
                ReaderOf(X, WrittenBackups, Put(node, p, policy, h), With(refs, h), S))
<1> DEFINE n == Len(h)
           seqs == [i \in DOMAIN h |-> PointFields(h[i])]
           F == Fields
           W == WrittenBackups
<1>1. n \in Nat /\ DOMAIN h = 1 .. n /\ \A i \in 1 .. n : h[i] \in Point
    OBVIOUS
<1>2. \A i \in 1 .. n : PointFields(h[i]) \in Seq(F)
    <2> TAKE i \in 1 .. n
    <2>1. WrittenId(h[i].backup) \in Int
        BY DEF Findable
    <2> QED BY <1>1, <2>1, PointFieldsFacts
<1>3. /\ seqs \in Seq(Seq(F)) /\ Len(seqs) = n /\ \A i \in 1 .. n : seqs[i] = PointFields(h[i])
    <2> DEFINE SF == Seq(F)
    <2>1. \A i \in 1 .. n : PointFields(h[i]) \in SF
        BY <1>2
    <2> HIDE DEF SF, n
    <2> QED BY <1>1, <2>1 DEF SF
<1>4. HistoryPoints(h) = FlattenSeq(seqs)
    BY DEF HistoryPoints
<1>0. \A s, t, u \in Seq(F) : (s \o t) \o u = s \o (t \o u)
    BY ConcatAssociative
<1> HIDE DEF seqs, F, W
<1>5. PICK after : Follows(after, seqs, F)
    BY <1>3, Flattened
<1>6. /\ after \in [0 .. n -> Seq(F)]
      /\ after[0] = HistoryPoints(h) /\ after[n] = <<>>
      /\ \A i \in 1 .. n : after[i - 1] = PointFields(h[i]) \o after[i]
    BY <1>3, <1>4, <1>5 DEF Follows
<1> HIDE DEF n
<1> DEFINE r(k) == ReaderOf(after[k] \o X, W, Put(node, p, policy, SubSeq(h, 1, k)),
                            Without(refs, h, k), Loop("point", p, n - k) \o S)
           T == {k \in 0 .. n : Leads(r(0), r(k))}
<1>7. 0 \in T
    BY <1>1, LeadsFacts
<1>8. ASSUME NEW k \in T, k < n PROVE k + 1 \in T
    <2>1. /\ k \in Nat /\ k + 1 \in 1 .. n /\ k + 1 \in 0 .. n /\ k \in 0 .. n
          /\ (k + 1) - 1 = k /\ n - k \in Nat \ {0} /\ (n - k) - 1 = n - (k + 1)
        BY <1>1, <1>8
    <2> DEFINE point == h[k + 1]
               Y == after[k + 1] \o X
               nd == Put(node, p, policy, SubSeq(h, 1, k))
               rf == Without(refs, h, k)
    <2>2. point \in Point /\ Findable(point.backup)
        BY <1>1, <2>1 DEF n
    <2>3. X \in Seq(F) /\ after[k + 1] \in Seq(F) /\ PointFields(point) \in Seq(F)
        BY <1>2, <1>6, <2>1 DEF F
    <2>4. Y \in Seq(F) /\ after[k] \o X = PointFields(point) \o Y
        <3>1. after[k] = PointFields(point) \o after[k + 1]
            BY <1>6, <2>1
        <3> DEFINE a == PointFields(point)
                   b == after[k + 1]
        <3>2. a \in Seq(F) /\ b \in Seq(F) /\ X \in Seq(F) /\ after[k] = a \o b
            BY <2>3, <3>1
        <3> HIDE DEF a, b
        <3>3. b \o X \in Seq(F)
            BY <3>2, ConcatProperties
        <3>4. (a \o b) \o X = a \o (b \o X)
            BY <3>2, <1>0, Zenon
        <3>5. after[k] \o X = a \o (b \o X)
            BY <3>2, <3>4
        <3> QED BY <3>3, <3>5 DEF a, b
    <2>5. Read(ReaderOf(PointFields(point) \o Y, W, nd, rf, Loop("point", p, n - k) \o S))
            = ReaderOf(Y, W, Extend(nd, p, point), Tally(rf, point.backup),
                       Loop("point", p, (n - k) - 1) \o S)
        <3> HIDE DEF point, Y, nd, rf
        <3> QED BY <2>1, <2>2, <2>4, PointIsRead DEF W, F
    <2>6. /\ Extend(nd, p, point) = Put(node, p, policy, SubSeq(h, 1, k + 1))
          /\ Tally(rf, point.backup) = Without(refs, h, k + 1)
        BY <2>1, <1>8, PointAdded DEF n
    <2>7. Read(r(k)) = r(k + 1)
        <3> HIDE DEF point, nd, rf
        <3>1. r(k) = ReaderOf(PointFields(point) \o Y, W, nd, rf, Loop("point", p, n - k) \o S)
            <4> HIDE DEF Y
            <4> QED BY <2>4 DEF nd, rf
        <3>2. r(k + 1) = ReaderOf(Y, W, Extend(nd, p, point), Tally(rf, point.backup),
                                  Loop("point", p, (n - k) - 1) \o S)
            BY <2>1, <2>6
        <3> HIDE DEF r, Y
        <3> QED BY <2>5, <3>1, <3>2
    <2> HIDE DEF r
    <2>8. Leads(r(0), r(k + 1))
        BY <2>7, LeadsFacts
    <2> QED BY <2>1, <2>8
<1>9. n \in T
    <2>1. n \in 0 .. n /\ T \in SUBSET Nat
        BY <1>1
    <2> HIDE DEF T
    <2> QED BY <1>1, <1>7, <1>8, <2>1, Upwards
<1>10. r(0) = ReaderOf(HistoryPoints(h) \o X, W, Put(node, p, policy, <<>>), refs,
                       Loop("point", p, n) \o S)
    <2>1. SubSeq(h, 1, 0) = <<>>
        BY SubSeqEmpty
    <2>2. n - 0 = n
        BY <1>1
    <2>3. Beyond(h, 0) = h
        BY SubSeqFull DEF Beyond
    <2>4. Without(refs, h, 0) = refs
        <3>1. \A b \in Runs : Count(h, b) \in Nat /\ refs[b] \in Int
            BY PlacesFacts DEF Tallies
        <3>2. \A b \in Runs : refs[b] + Count(h, b) - Count(Beyond(h, 0), b) = refs[b]
            BY <2>3, <3>1
        <3> QED BY <3>2 DEF Without, Tallies
    <2> QED BY <1>6, <2>1, <2>2, <2>4
<1>11. r(n) = ReaderOf(X, W, Put(node, p, policy, h), With(refs, h), S)
    <2>1. SubSeq(h, 1, n) = h
        BY SubSeqFull DEF n
    <2>2. n - n = 0 /\ Loop("point", p, 0) \o S = S
        <3>1. n - n = 0 /\ 0 \in Nat
            BY <1>1
        <3>2. Loop("point", p, 0) = <<>>
            BY DEF Loop
        <3> QED BY <3>1, <3>2, ConcatEmptySeq
    <2>3. Beyond(h, n) = <<>>
        BY <1>1, SubSeqEmpty DEF Beyond, n
    <2>4. Without(refs, h, n) = With(refs, h)
        <3>1. \A b \in Runs : Count(h, b) \in Nat /\ refs[b] \in Int
            BY PlacesFacts DEF Tallies
        <3>2. \A b : Count(<<>>, b) = 0
            <4>1. \A b : Places(<<>>, b) = {}
                BY DEF Places
            <4> QED BY <4>1, FS_EmptySet DEF Count
        <3>3. \A b \in Runs : refs[b] + Count(h, b) - Count(Beyond(h, n), b) = refs[b] + Count(h, b)
            BY <2>3, <3>1, <3>2
        <3> QED BY <3>3 DEF Without, With
    <2>5. after[n] \o X = X
        BY <1>6, ConcatEmptySeq
    <2> QED BY <2>1, <2>2, <2>4, <2>5
<1>12. Leads(r(0), r(n))
    BY <1>9
<1> HIDE DEF r
<1> QED BY <1>10, <1>11, <1>12 DEF W, n

-----------------------------------------------------------------------------
(* The metadata a run leaves.                                               *)
Reviewed == BackupInv /\ pc # "idle"
Nested == Paths \cup {Root}
WrittenFine(q) ==
    /\ m.node[q].history \in Seq(Point) /\ m.node[q].policy \in Policies
    /\ m.node[q] = [policy |-> m.node[q].policy, history |-> m.node[q].history]
    /\ \A i \in 1 .. Len(m.node[q].history) : Findable(m.node[q].history[i].backup)

LEMMA LiveFacts ==
    ASSUME Reviewed
    PROVE /\ WrittenBackups \in Seq(Runs)
          /\ \A q \in Live(m) : WrittenFine(q) /\ Trail(q) \subseteq Live(m)
          /\ Live(m) \in SUBSET Paths /\ Histories(m, Live(m))
<1>1. m \in Memory /\ \A p \in Live(m) : \A q \in Trail(p) : q \in Live(m)
    BY DEF Reviewed, BackupInv, SearchInv, CountInv
<1>2. /\ WrittenBackups \in Seq(Runs)
      /\ \A p \in Live(m) : \A i \in DOMAIN m.node[p].history :
            ReadBack(m.node[p].history[i].backup) = m.node[p].history[i].backup
    BY WrittenPoints DEF Reviewed
<1>3. Live(m) \in SUBSET Paths /\ Histories(m, Live(m))
    BY <1>1, NodeFacts
<1>4. ASSUME NEW b \in Runs, ReadBack(b) = b PROVE Findable(b)
    <2> DEFINE W == WrittenBackups
               id == WrittenId(b)
    <2>1. b # 0
        BY StatesAssumption DEF Runs
    <2>2. id \in DOMAIN W /\ W[id] = b
        BY <1>4, <2>1 DEF ReadBack
    <2>3. DOMAIN W = 1 .. Len(W)
        BY <1>2
    <2> QED BY <2>2, <2>3 DEF Findable
<1>5. ASSUME NEW q \in Live(m) PROVE WrittenFine(q)
    <2>1. q \in Paths /\ Exists(m, q)
        BY DEF Live
    <2>2. /\ m.node[q] \in Node /\ m.node[q].history \in Seq(Point)
          /\ m.node[q].policy \in Policies
        BY <1>1, <2>1, NodeFacts
    <2>3. m.node[q] = [policy |-> m.node[q].policy, history |-> m.node[q].history]
        BY <2>2 DEF Node
    <2>4. ASSUME NEW i \in 1 .. Len(m.node[q].history)
          PROVE Findable(m.node[q].history[i].backup)
        <3> DEFINE h == m.node[q].history
        <3>1. h \in Seq(Point) /\ i \in 1 .. Len(h)
            BY <2>2
        <3>2. ReadBack(h[i].backup) = h[i].backup
            <4>1. i \in DOMAIN h
                <5> HIDE DEF h
                <5> QED BY <3>1
            <4> QED BY <1>2, <4>1
        <3> HIDE DEF h
        <3>0. h[i] \in Point
            BY <3>1
        <3>3. h[i].backup \in Runs
            BY <3>0 DEF Point
        <3>4. Findable(h[i].backup)
            BY <1>4, <3>2, <3>3
        <3> QED BY <3>4 DEF h
    <2> QED BY <2>2, <2>3, <2>4 DEF WrittenFine
<1>6. \A q \in Live(m) : Trail(q) \subseteq Live(m)
    BY <1>1
<1> QED BY <1>2, <1>3, <1>5, <1>6

(* What holds of a path whenever it holds of its children, holds of all.    *)
LEMMA FromBelow ==
    ASSUME NEW S \in SUBSET Nested,
           \A p \in Nested : Children(p) \subseteq S => p \in S
    PROVE \A p \in Nested : p \in S
<1>1. PICK depth \in [Nested -> Nat], bound \in Nat :
        /\ \A p \in Paths : depth[Parent[p]] < depth[p]
        /\ \A p \in Nested : depth[p] <= bound
    BY Depth DEF Nested
<1> DEFINE Bad == Nested \ S
           Heights == {bound - depth[p] : p \in Bad}
<1> SUFFICES ASSUME Bad # {} PROVE FALSE
    OBVIOUS
<1>2. \A p \in Nested : bound - depth[p] \in Nat
    BY <1>1
<1>3. Heights \in SUBSET Nat /\ Heights # {}
    BY <1>2
<1>4. PICK n \in Heights : \A k \in Heights : n <= k
    <2> HIDE DEF Heights
    <2> QED BY <1>3, Smallest
<1>5. PICK p \in Bad : n = bound - depth[p]
    OBVIOUS
<1>6. PICK c \in Children(p) : c \notin S
    BY <1>5
<1>7. c \in Paths /\ c \in Nested /\ Parent[c] = p /\ c \in Bad
    BY <1>6 DEF Children, Nested
<1>8. bound - depth[c] \in Heights
    BY <1>7
<1>9. depth[p] < depth[c] /\ depth[c] \in Nat /\ depth[p] \in Nat
    BY <1>1, <1>5, <1>7
<1>10. n <= bound - depth[c]
    BY <1>4, <1>8
<1> QED BY <1>1, <1>5, <1>9, <1>10

(* The order in which the subnodes of a path are written.                   *)
Names(p) == SetToSeq(InList(p))

LEMMA NamesFacts ==
    ASSUME NEW p \in Nested
    PROVE /\ ListLength(p) \in Nat /\ Names(p) \in Seq(InList(p))
          /\ Len(Names(p)) = ListLength(p)
          /\ \A q \in InList(p) : \E i \in 1 .. ListLength(p) : Names(p)[i] = q
          /\ \A i, j \in 1 .. ListLength(p) : Names(p)[i] = Names(p)[j] => i = j
          /\ InList(p) \subseteq Children(p) /\ InList(p) \subseteq Live(m)
          /\ Children(p) \cap Live(m) \subseteq InList(p)
<1> DEFINE S == InList(p)
           n == Cardinality(S)
           f == SetToSeq(S)
<1>1. S \in SUBSET Paths /\ S \subseteq Children(p) /\ S \subseteq Live(m)
      /\ Children(p) \cap Live(m) \subseteq S
    BY DEF InList, Children, Live
<1>2. IsFiniteSet(S)
    BY <1>1, FS_Subset, TreeAssumption
<1> HIDE DEF S
<1>3. n \in Nat /\ ExistsBijection(1 .. n, S)
    BY <1>2, FS_CardinalityType
<1>4. \E g : g \in [1 .. n -> S] /\ IsInjective(g)
    BY <1>3 DEF ExistsBijection, Bijection, Injection
<1>5. f \in [1 .. n -> S] /\ IsInjective(f)
    <2>1. f = CHOOSE g \in [1 .. n -> S] : IsInjective(g)
        BY Zenon DEF SetToSeq
    <2> HIDE DEF f
    <2> QED BY <1>4, <2>1, Zenon
<1> HIDE DEF f
<1>6. f \in Injection(1 .. n, S)
    BY <1>5 DEF Injection
<1>7. Cardinality(1 .. n) = n
    <2>1. 0 + 1 = 1 /\ n - 1 + 1 = n /\ (1 > n => n = 0)
        BY <1>3
    <2> HIDE DEF n
    <2> QED BY <1>3, <2>1, FS_Interval
<1>8. f \in Surjection(1 .. n, S)
    BY <1>2, <1>6, <1>7, FS_Injection
<1>9. \A q \in S : \E i \in 1 .. n : f[i] = q
    BY <1>8 DEF Surjection
<1>10. f \in Seq(S) /\ Len(f) = n
    <2> HIDE DEF n
    <2> QED BY <1>3, <1>5
<1>11. \A i, j \in 1 .. n : f[i] = f[j] => i = j
    BY <1>5 DEF IsInjective
<1>12. Names(p) = f /\ ListLength(p) = n
    BY DEF Names, ListLength, f, S
<1> QED BY <1>1, <1>3, <1>9, <1>10, <1>11, <1>12 DEF S

(* The fields of a node and of the list of the subnodes of a path, when f   *)
(* has the fields of their subnodes.                                        *)
Record(f, q) == <<q, m.node[q].policy>> \o HistoryFields(m.node[q].history) \o f[q]
Records(f, p) == [i \in DOMAIN Names(p) |-> Record(f, Names(p)[i])]
Listing(f, p) == <<ListLength(p)>> \o FlattenSeq(Records(f, p))
Lists(f) == f = [p \in Nested |-> Listing(f, p)]

LEMMA FlattenTyped ==
    ASSUME NEW D, NEW seqs \in Seq(Seq(D)) PROVE FlattenSeq(seqs) \in Seq(D)
<1>1. PICK after : Follows(after, seqs, D)
    BY Flattened
<1>2. 0 \in 0 .. Len(seqs)
    <2> DEFINE S == Seq(D)
    <2> HIDE DEF S
    <2> QED BY LenProperties DEF S
<1> DEFINE S == Seq(D)
           n == Len(seqs)
<1> HIDE DEF S, n
<1>3. after \in [0 .. n -> S] /\ after[0] = FlattenSeq(seqs) /\ 0 \in 0 .. n
    BY <1>1, <1>2 DEF Follows, S, n
<1>4. after[0] \in S
    BY <1>3
<1> QED BY <1>3, <1>4 DEF S

LEMMA HistoryFieldsAre ==
    ASSUME NEW h \in Seq(Point), \A i \in 1 .. Len(h) : Findable(h[i].backup)
    PROVE /\ HistoryFields(h) = <<Len(h)>> \o HistoryPoints(h)
          /\ Len(h) \in Nat /\ HistoryPoints(h) \in Seq(Fields)
<1> DEFINE n == Len(h)
           seqs == [i \in DOMAIN h |-> PointFields(h[i])]
           F == Fields
           SF == Seq(F)
<1>1. n \in Nat /\ DOMAIN h = 1 .. n /\ \A i \in 1 .. n : h[i] \in Point
    OBVIOUS
<1>2. \A i \in 1 .. n : PointFields(h[i]) \in SF
    <2> TAKE i \in 1 .. n
    <2>1. WrittenId(h[i].backup) \in Int
        BY DEF Findable
    <2> QED BY <1>1, <2>1, PointFieldsFacts
<1>3. seqs \in Seq(SF)
    <2> HIDE DEF SF, n
    <2> QED BY <1>1, <1>2
<1>4. HistoryPoints(h) = FlattenSeq(seqs)
    BY DEF HistoryPoints
<1>5. FlattenSeq(seqs) \in SF
    <2> HIDE DEF seqs, F
    <2> QED BY <1>3, FlattenTyped
<1>6. HistoryFields(h) = <<Len(h)>> \o HistoryPoints(h)
    BY DEF HistoryFields, HistoryPoints, PointFields
<1> QED BY <1>1, <1>4, <1>5, <1>6

LEMMA Typed ==
    /\ \A i \in Int : i \in Fields
    /\ \A q \in Paths : q \in Fields
    /\ \A w \in Policies : w \in Fields
    /\ \A F, a, b : a \in F => <<a>> \in Seq(F)
    /\ \A F, a, b : a \in F /\ b \in F => <<a, b>> \in Seq(F)
    /\ \A F, a, b, c : a \in F /\ b \in F /\ c \in F => <<a, b, c>> \in Seq(F)
    /\ \A F : \A s, t \in Seq(F) : s \o t \in Seq(F)
    /\ \A F : \A s, t, u \in Seq(F) : (s \o t) \o u = s \o (t \o u)
    /\ \A F : \A s \in Seq(F) : s \o <<>> = s /\ <<>> \o s = s
<1>1. /\ \A i \in Int : i \in Fields
      /\ \A q \in Paths : q \in Fields
      /\ \A w \in Policies : w \in Fields
    BY DEF Fields
<1>2. /\ \A F, a, b : a \in F => <<a>> \in Seq(F)
      /\ \A F, a, b : a \in F /\ b \in F => <<a, b>> \in Seq(F)
      /\ \A F, a, b, c : a \in F /\ b \in F /\ c \in F => <<a, b, c>> \in Seq(F)
    OBVIOUS
<1>3. \A F : \A s, t \in Seq(F) : s \o t \in Seq(F)
    BY ConcatProperties
<1>4. \A F : \A s, t, u \in Seq(F) : (s \o t) \o u = s \o (t \o u)
    BY ConcatAssociative
<1>5. \A F : \A s \in Seq(F) : s \o <<>> = s /\ <<>> \o s = s
    BY ConcatEmptySeq
<1> QED BY <1>1, <1>2, <1>3, <1>4, <1>5

LEMMA ThreeFields ==
    ASSUME NEW F, NEW a \in F, NEW b \in F, NEW c \in F
    PROVE <<a, b>> \o <<c>> = <<a, b, c>>
<1> DEFINE s == <<a, b>>
           t == <<c>>
           u == <<a, b, c>>
<1>1. /\ s \in Seq(F) /\ t \in Seq(F) /\ Len(s) = 2 /\ Len(t) = 1
      /\ s[1] = a /\ s[2] = b /\ t[1] = c
    OBVIOUS
<1>2. u = [i \in 1 .. 3 |-> u[i]] /\ u[1] = a /\ u[2] = b /\ u[3] = c
    OBVIOUS
<1> HIDE DEF s, t, u
<1> DEFINE v == s \o t
<1>3. /\ v \in Seq(F) /\ Len(v) = 2 + 1
      /\ \A i \in 1 .. 2 + 1 : v[i] = IF i <= 2 THEN s[i] ELSE t[i - 2]
    <2>1. /\ v \in Seq(F) /\ Len(v) = Len(s) + Len(t)
          /\ \A i \in 1 .. Len(s) + Len(t) : v[i] = IF i <= Len(s) THEN s[i] ELSE t[i - Len(s)]
        <3>1. s \in Seq(F) /\ t \in Seq(F)
            BY <1>1
        <3> QED BY <3>1, ConcatProperties
    <2> HIDE DEF v
    <2> QED BY <1>1, <2>1
<1> HIDE DEF v
<1>4. v = [i \in 1 .. 3 |-> v[i]]
    BY <1>3
<1>5. v[1] = a /\ v[2] = b /\ v[3] = c
    BY <1>1, <1>3
<1>6. \A i \in 1 .. 3 : v[i] = u[i]
    BY <1>2, <1>5
<1>7. v = u
    BY <1>2, <1>4, <1>6
<1> QED BY <1>7 DEF v, s, t, u

Cat(s, t) == s \o t
Associates(S) == \A s, t, u \in S : Cat(Cat(s, t), u) = Cat(s, Cat(t, u))
LEMMA Regroup ==
    \A F : Associates(Seq(F))
BY ConcatAssociative DEF Associates, Cat

Regrouped(S, a, b, c, d, e) ==
    /\ (a \o (b \o c)) \o d \in S
    /\ ((a \o (b \o c)) \o d) \o e = (a \o b) \o (c \o (d \o e))
    /\ d \o e \in S /\ c \o (d \o e) \in S
LEMMA FiveParts ==
    ASSUME NEW F, NEW a \in Seq(F), NEW b \in Seq(F), NEW c \in Seq(F), NEW d \in Seq(F),
           NEW e \in Seq(F)
    PROVE Regrouped(Seq(F), a, b, c, d, e)
<1> DEFINE S == Seq(F)
<1>1. /\ \A s, t \in S : Cat(s, t) \in S
      /\ \A s, t, u \in S : Cat(Cat(s, t), u) = Cat(s, Cat(t, u))
    <2>1. \A s, t \in S : s \o t \in S
        BY Typed, Zenon
    <2>2. Associates(S)
        BY Regroup
    <2> HIDE DEF S
    <2>3. \A s, t \in S : Cat(s, t) \in S
        BY <2>1, Zenon DEF Cat
    <2> QED BY <2>2, <2>3 DEF Associates
<1>2. a \in S /\ b \in S /\ c \in S /\ d \in S /\ e \in S
    OBVIOUS
<1> HIDE DEF S
<1>3. Cat(b, c) \in S /\ Cat(a, Cat(b, c)) \in S /\ Cat(d, e) \in S /\ Cat(c, Cat(d, e)) \in S
    BY <1>1, <1>2
<1>4. /\ Cat(Cat(a, Cat(b, c)), d) \in S
      /\ Cat(Cat(Cat(a, Cat(b, c)), d), e) = Cat(Cat(a, Cat(b, c)), Cat(d, e))
    BY <1>1, <1>2, <1>3
<1>5. Cat(Cat(a, Cat(b, c)), Cat(d, e)) = Cat(a, Cat(Cat(b, c), Cat(d, e)))
    BY <1>1, <1>2, <1>3
<1>6. Cat(Cat(b, c), Cat(d, e)) = Cat(b, Cat(c, Cat(d, e)))
    BY <1>1, <1>2, <1>3
<1>7. Cat(a, Cat(b, Cat(c, Cat(d, e)))) = Cat(Cat(a, b), Cat(c, Cat(d, e)))
    BY <1>1, <1>2, <1>3
<1> QED BY <1>3, <1>4, <1>5, <1>6, <1>7 DEF Cat, S, Regrouped

(* A node in front of what follows it.                                      *)
LEMMA RecordFacts ==
    ASSUME Reviewed, NEW q \in Live(m), NEW f, f[q] \in Seq(Fields), NEW X \in Seq(Fields)
    PROVE LET h == m.node[q].history
          IN /\ Record(f, q) \in Seq(Fields)
             /\ Record(f, q) \o X
                  = <<q, m.node[q].policy, Len(h)>> \o (HistoryPoints(h) \o (f[q] \o X))
             /\ <<q, m.node[q].policy, Len(h)>> \in Seq(Fields)
             /\ f[q] \o X \in Seq(Fields) /\ HistoryPoints(h) \o (f[q] \o X) \in Seq(Fields)
<1> DEFINE h == m.node[q].history
           w == m.node[q].policy
           pts == HistoryPoints(h)
           n == Len(h)
           g == f[q]
           F == Fields
<1>1. WrittenFine(q) /\ q \in Paths
    BY LiveFacts
<1>2. h \in Seq(Point) /\ \A i \in 1 .. Len(h) : Findable(h[i].backup)
    BY <1>1 DEF WrittenFine
<1>3. /\ HistoryFields(h) = <<n>> \o pts
      /\ n \in Int /\ pts \in Seq(F)
    <2> HIDE DEF h
    <2> QED BY <1>2, HistoryFieldsAre
<1>4. q \in F /\ w \in F /\ n \in F
    BY <1>1, <1>3, Typed DEF WrittenFine
<1>5. Record(f, q) = (<<q, w>> \o (<<n>> \o pts)) \o g
    BY <1>3 DEF Record
<1> HIDE DEF h, w, pts, n, g, F
<1> DEFINE a == <<q, w>>
           b == <<n>>
<1>6. a \in Seq(F) /\ b \in Seq(F) /\ <<q, w, n>> \in Seq(F)
    BY <1>4, Typed
<1>7. a \o b = <<q, w, n>>
    BY <1>4, ThreeFields DEF a, b
<1>8. g \in Seq(F) /\ X \in Seq(F)
    BY DEF g, F
<1>9. Record(f, q) = (a \o (b \o pts)) \o g
    BY <1>5
<1> HIDE DEF a, b
<1>10. /\ (a \o (b \o pts)) \o g \in Seq(F)
       /\ ((a \o (b \o pts)) \o g) \o X = (a \o b) \o (pts \o (g \o X))
       /\ g \o X \in Seq(F) /\ pts \o (g \o X) \in Seq(F)
    <2>1. Regrouped(Seq(F), a, b, pts, g, X)
        BY <1>3, <1>6, <1>8, FiveParts
    <2> QED BY <2>1, Zenon DEF Regrouped
<1> QED BY <1>6, <1>7, <1>9, <1>10 DEF h, w, pts, n, g, F

(* A list depends on those of the subnodes only.                            *)
LEMMA SameListing ==
    ASSUME NEW p \in Nested, NEW f, NEW g, \A c \in Children(p) : f[c] = g[c]
    PROVE Listing(f, p) = Listing(g, p)
<1>1. \A i \in DOMAIN Names(p) : Names(p)[i] \in Children(p)
    BY NamesFacts
<1>2. \A i \in DOMAIN Names(p) : Record(f, Names(p)[i]) = Record(g, Names(p)[i])
    BY <1>1 DEF Record
<1>3. Records(f, p) = Records(g, p)
    BY <1>2 DEF Records
<1> QED BY <1>3 DEF Listing

LEMMA ListsExist ==
    \E f : Lists(f)
<1>1. PICK depth \in [Nested -> Nat], bound \in Nat :
        /\ \A p \in Paths : depth[Parent[p]] < depth[p]
        /\ \A p \in Nested : depth[p] <= bound
    BY Depth DEF Nested
<1> DEFINE Good(f, k) == \A p \in Nested : depth[p] + k > bound => f[p] = Listing(f, p)
           S == {k \in Nat : \E f : Good(f, k)}
<1>2. 0 \in S
    <2> DEFINE f == [p \in Nested |-> <<>>]
    <2>1. Good(f, 0)
        BY <1>1
    <2> HIDE DEF f
    <2>2. \E g : Good(g, 0)
        BY <2>1
    <2> HIDE DEF Good
    <2> QED BY <2>2
<1>3. ASSUME NEW k \in S PROVE k + 1 \in S
    <2>1. PICK f : Good(f, k)
        OBVIOUS
    <2> DEFINE g == [p \in Nested |-> Listing(f, p)]
    <2>2. \A p \in Nested : g[p] = Listing(f, p)
        OBVIOUS
    <2> HIDE DEF g
    <2>3. ASSUME NEW p \in Nested, depth[p] + (k + 1) > bound PROVE g[p] = Listing(g, p)
        <3>1. ASSUME NEW c \in Children(p) PROVE f[c] = g[c]
            <4>1. c \in Nested /\ c \in Paths /\ Parent[c] = p
                BY DEF Children, Nested
            <4>2. depth[p] < depth[c] /\ depth[p] \in Nat /\ depth[c] \in Nat /\ k \in Nat
                BY <1>1, <4>1
            <4>3. depth[c] + k > bound
                BY <1>1, <2>3, <4>2
            <4> QED BY <2>1, <2>2, <4>1, <4>3
        <3>2. Listing(f, p) = Listing(g, p)
            BY <3>1, SameListing
        <3> QED BY <2>2, <3>2
    <2>4. Good(g, k + 1)
        BY <2>3
    <2>5. k + 1 \in Nat /\ \E h : Good(h, k + 1)
        BY <2>4
    <2> HIDE DEF Good
    <2> QED BY <2>5
<1>4. bound + 1 \in S
    <2>1. S \in SUBSET Nat /\ bound + 1 \in 0 .. bound + 1 /\ bound + 1 \in Nat
        OBVIOUS
    <2> HIDE DEF S
    <2> QED BY <1>2, <1>3, <2>1, Upwards
<1>5. PICK f : Good(f, bound + 1)
    BY <1>4
<1>6. \A p \in Nested : f[p] = Listing(f, p)
    <2>1. \A p \in Nested : depth[p] + (bound + 1) > bound
        BY <1>1
    <2> QED BY <1>5, <2>1
<1> DEFINE g == [p \in Nested |-> f[p]]
<1>7. \A p \in Nested : g[p] = f[p]
    OBVIOUS
<1>8. g = [p \in Nested |-> g[p]]
    OBVIOUS
<1> HIDE DEF g
<1>9. \A p \in Nested : g[p] = Listing(g, p)
    <2> TAKE p \in Nested
    <2>1. \A c \in Children(p) : c \in Nested
        BY DEF Children, Nested
    <2>2. Listing(f, p) = Listing(g, p)
        BY <1>7, <2>1, SameListing
    <2> QED BY <1>6, <1>7, <2>2
<1>10. Lists(g)
    BY <1>8, <1>9 DEF Lists
<1> QED BY <1>10

LEMMA PathListIs ==
    \E f : Lists(f) /\ PathList = f[Root]
<1> DEFINE g == CHOOSE f : f = [p \in Paths \cup {Root} |->
                    <<ListLength(p)>>
                    \o FlattenSeq([i \in DOMAIN SetToSeq(InList(p)) |->
                            <<SetToSeq(InList(p))[i], m.node[SetToSeq(InList(p))[i]].policy>>
                            \o HistoryFields(m.node[SetToSeq(InList(p))[i]].history)
                            \o f[SetToSeq(InList(p))[i]]])]
<1>1. PathList = g[Root]
    BY Zenon DEF PathList
<1>2. Lists(g)
    BY ListsExist, Zenon DEF Lists, Listing, Records, Record, Names, Nested
<1> HIDE DEF g
<1> QED BY <1>1, <1>2

(* What the list of a path is made of.                                      *)
LEMMA ListTyped ==
    ASSUME Reviewed, NEW f, Lists(f), NEW p \in Nested,
           \A c \in Children(p) : f[c] \in Seq(Fields)
    PROVE /\ f[p] = <<ListLength(p)>> \o FlattenSeq(Records(f, p))
          /\ Records(f, p) \in Seq(Seq(Fields)) /\ Len(Records(f, p)) = ListLength(p)
          /\ \A i \in 1 .. ListLength(p) : Records(f, p)[i] = Record(f, Names(p)[i])
          /\ FlattenSeq(Records(f, p)) \in Seq(Fields) /\ f[p] \in Seq(Fields)
<1> DEFINE n == ListLength(p)
           names == Names(p)
           seqs == Records(f, p)
           SF == Seq(Fields)
<1>1. f[p] = <<ListLength(p)>> \o FlattenSeq(Records(f, p))
    BY DEF Lists, Listing
<1>2. n \in Nat /\ names \in Seq(InList(p)) /\ Len(names) = n
      /\ InList(p) \subseteq Children(p) /\ InList(p) \subseteq Live(m)
    BY NamesFacts
<1>3. DOMAIN names = 1 .. n /\ \A i \in 1 .. n : names[i] \in InList(p)
    <2> HIDE DEF names, n
    <2> QED BY <1>2
<1>4. \A i \in 1 .. n : Record(f, names[i]) \in SF
    <2> TAKE i \in 1 .. n
    <2> DEFINE q == names[i]
    <2>1. q \in Live(m) /\ f[q] \in Seq(Fields)
        BY <1>2, <1>3
    <2>2. <<>> \in Seq(Fields)
        OBVIOUS
    <2> HIDE DEF q
    <2>3. Record(f, q) \in Seq(Fields)
        BY <2>1, <2>2, RecordFacts
    <2> QED BY <2>3 DEF q
<1>5. seqs = [i \in 1 .. n |-> Record(f, names[i])]
    BY <1>3 DEF Records
<1> HIDE DEF names, n, seqs, SF
<1>6. seqs \in Seq(SF) /\ Len(seqs) = n /\ \A i \in 1 .. n : seqs[i] = Record(f, names[i])
    BY <1>2, <1>4, <1>5
<1>7. FlattenSeq(seqs) \in SF
    BY <1>6, FlattenTyped DEF SF
<1>8. <<n>> \in SF
    BY <1>2, Typed DEF SF
<1>9. <<n>> \o FlattenSeq(seqs) \in SF
    BY <1>7, <1>8, Typed, Zenon DEF SF
<1> QED BY <1>1, <1>6, <1>7, <1>9 DEF names, n, seqs, SF

LEMMA ListsTyped ==
    ASSUME Reviewed, NEW f, Lists(f)
    PROVE \A p \in Nested : f[p] \in Seq(Fields)
<1> DEFINE S == {p \in Nested : f[p] \in Seq(Fields)}
<1>1. ASSUME NEW p \in Nested, Children(p) \subseteq S PROVE p \in S
    BY <1>1, ListTyped
<1>2. S \in SUBSET Nested
    OBVIOUS
<1> HIDE DEF S
<1>3. \A p \in Nested : p \in S
    BY <1>1, <1>2, FromBelow
<1> QED BY <1>3 DEF S

-----------------------------------------------------------------------------
(* What has been read of the nodes: those below a path, in some order.      *)
Whole(q) == {r \in Live(m) : q \in Trail(r)}
Under(p) == {r \in Live(m) : \E c \in Children(p) : c \in Trail(r)}
Upto(p, i) == {r \in Live(m) : \E j \in 1 .. i : Names(p)[j] \in Trail(r)}
Filled(node, Q) == [q \in Paths |-> IF q \in Q THEN m.node[q] ELSE node[q]]
Plus(refs, Q) == [b \in Runs |-> refs[b] + CountIn(m, Q, b)]

LEMMA FilledFacts ==
    ASSUME Reviewed, NEW node \in Nodes, NEW A \in SUBSET Live(m), NEW B \in SUBSET Live(m)
    PROVE /\ Filled(node, A) \in Nodes
          /\ Filled(Filled(node, A), B) = Filled(node, A \cup B)
          /\ Filled(node, {}) = node
<1>1. m \in Memory
    BY DEF Reviewed, BackupInv, SearchInv, CountInv
<1>2. \A q \in Live(m) : q \in Paths /\ m.node[q] \in Node
    BY <1>1, NodeFacts DEF Live
<1>3. node = [q \in Paths |-> node[q]] /\ \A q \in Paths : node[q] \in Node \cup {None}
    BY DEF Nodes
<1> DEFINE x == Filled(node, A)
<1>4. x = [q \in Paths |-> x[q]] /\ \A q \in Paths : x[q] = IF q \in A THEN m.node[q] ELSE node[q]
    BY DEF Filled
<1>5. \A q \in Paths : x[q] \in Node \cup {None}
    <2> HIDE DEF x
    <2> QED BY <1>2, <1>3, <1>4
<1> HIDE DEF x
<1>6. x \in Nodes
    BY <1>4, <1>5 DEF Nodes
<1>7. Filled(x, B) = Filled(node, A \cup B)
    BY <1>4 DEF Filled
<1>8. Filled(node, {}) = node
    BY <1>3 DEF Filled
<1> QED BY <1>6, <1>7, <1>8 DEF x

LEMMA PlusFacts ==
    ASSUME Reviewed, NEW refs \in Tallies, NEW A \in SUBSET Live(m), NEW B \in SUBSET Live(m)
    PROVE /\ Plus(refs, A) \in Tallies
          /\ A \cap B = {} => Plus(Plus(refs, A), B) = Plus(refs, A \cup B)
          /\ Plus(refs, {}) = refs
<1>1. /\ Live(m) \in SUBSET Paths /\ Histories(m, Live(m))
    BY LiveFacts
<1>2. Histories(m, A) /\ Histories(m, B) /\ A \in SUBSET Paths /\ B \in SUBSET Paths
    BY <1>1 DEF Histories
<1>3. \A b \in Runs : refs[b] \in Int /\ CountIn(m, A, b) \in Nat /\ CountIn(m, B, b) \in Nat
    BY <1>2, PointsFinite DEF Tallies
<1>4. refs = [b \in Runs |-> refs[b]]
    BY DEF Tallies
<1>5. Plus(refs, A) \in Tallies
    BY <1>3 DEF Plus, Tallies
<1>6. ASSUME A \cap B = {} PROVE Plus(Plus(refs, A), B) = Plus(refs, A \cup B)
    <2>1. \A b : CountIn(m, A \cup B, b) = CountIn(m, A, b) + CountIn(m, B, b)
        <3> TAKE b
        <3> QED BY <1>2, <1>6, CountDisjoint
    <2> DEFINE x == Plus(refs, A)
    <2>2. \A b \in Runs : x[b] = refs[b] + CountIn(m, A, b)
        BY DEF Plus
    <2> HIDE DEF x
    <2>3. \A b \in Runs : x[b] + CountIn(m, B, b) = refs[b] + CountIn(m, A \cup B, b)
        <3> TAKE b \in Runs
        <3> DEFINE i == refs[b]
                   j == CountIn(m, A, b)
                   k == CountIn(m, B, b)
                   l == CountIn(m, A \cup B, b)
        <3>1. i \in Int /\ j \in Nat /\ k \in Nat /\ l = j + k /\ x[b] = i + j
            BY <1>3, <2>1, <2>2
        <3> HIDE DEF i, j, k, l
        <3>2. x[b] + k = i + l
            BY <3>1
        <3> QED BY <3>2 DEF i, k, l
    <2> QED BY <2>3 DEF Plus, x
<1>7. Plus(refs, {}) = refs
    <2>1. \A b \in Runs : refs[b] + CountIn(m, {}, b) = refs[b]
        BY <1>3, CountNothing
    <2> QED BY <1>4, <2>1 DEF Plus
<1> QED BY <1>5, <1>6, <1>7

LEMMA OneFilled ==
    ASSUME Reviewed, NEW q \in Live(m), NEW node \in Nodes, NEW refs \in Tallies
    PROVE /\ Put(node, q, m.node[q].policy, m.node[q].history) = Filled(node, {q})
          /\ With(refs, m.node[q].history) = Plus(refs, {q})
<1>1. q \in Paths /\ m.node[q].history \in Seq(Point)
      /\ m.node[q] = [policy |-> m.node[q].policy, history |-> m.node[q].history]
    BY LiveFacts DEF WrittenFine
<1>2. Put(node, q, m.node[q].policy, m.node[q].history) = Filled(node, {q})
    BY <1>1 DEF Put, Filled, Nodes
<1>3. \A b \in Runs : CountIn(m, {q}, b) = Count(m.node[q].history, b)
    BY <1>1, CountOne
<1>4. With(refs, m.node[q].history) = Plus(refs, {q})
    BY <1>3 DEF With, Plus
<1> QED BY <1>2, <1>4

LEMMA WholeFacts ==
    ASSUME Reviewed, NEW q \in Live(m)
    PROVE /\ Whole(q) = {q} \cup Under(q) /\ q \notin Under(q)
          /\ Whole(q) \in SUBSET Live(m) /\ Under(q) \in SUBSET Live(m)
<1>1. Live(m) \in SUBSET Paths /\ q \in Paths
    BY LiveFacts
<1>2. q # Root
    BY <1>1, TreeAssumption
<1>3. ASSUME NEW r \in Whole(q) PROVE r \in {q} \cup Under(q)
    <2>1. r \in Live(m) /\ r \in Paths /\ q \in Trail(r)
        BY <1>1 DEF Whole
    <2>2. r = q \/ q \in Trail(Parent[r])
        BY <2>1, TrailFacts
    <2>3. q \in Trail(Parent[r]) => \E c \in Children(q) : c \in Trail(r)
        BY <2>1, WayDown
    <2> QED BY <2>1, <2>2, <2>3 DEF Under
<1>4. q \in Whole(q)
    BY <1>1, TrailFacts DEF Whole
<1>5. ASSUME NEW r \in Under(q) PROVE r \in Whole(q)
    <2>1. PICK c \in Children(q) : c \in Trail(r)
        BY DEF Under
    <2>2. r \in Live(m) /\ r \in Paths /\ c \in Paths /\ Parent[c] = q
        BY <1>1 DEF Under, Children
    <2>3. q \in Trail(c) /\ Trail(c) \subseteq Trail(r)
        BY <1>2, <2>1, <2>2, TrailFacts, TrailTransitive
    <2> QED BY <2>2, <2>3 DEF Whole
<1>6. ASSUME q \in Under(q) PROVE FALSE
    <2>1. PICK c \in Children(q) : c \in Trail(q)
        BY <1>6 DEF Under
    <2>2. c \in Paths /\ Parent[c] = q
        BY DEF Children
    <2> QED BY <2>1, <2>2, TrailAcyclic
<1> QED BY <1>3, <1>4, <1>5, <1>6 DEF Whole, Under

LEMMA UptoFacts ==
    ASSUME Reviewed, NEW p \in Nested
    PROVE LET n == ListLength(p)
          IN /\ Upto(p, 0) = {} /\ Upto(p, n) = Under(p)
             /\ \A i \in 0 .. n : Upto(p, i) \in SUBSET Live(m)
             /\ \A i \in 0 .. n - 1 :
                    LET q == Names(p)[i + 1]
                    IN /\ Upto(p, i + 1) = Upto(p, i) \cup Whole(q)
                       /\ Upto(p, i) \cap Whole(q) = {}
                       /\ q \in Live(m) /\ q \in InList(p) /\ Parent[q] = p
<1> DEFINE n == ListLength(p)
           names == Names(p)
<1>1. /\ n \in Nat /\ names \in Seq(InList(p)) /\ Len(names) = n
      /\ \A q \in InList(p) : \E i \in 1 .. n : names[i] = q
      /\ \A i, j \in 1 .. n : names[i] = names[j] => i = j
      /\ InList(p) \subseteq Children(p) /\ InList(p) \subseteq Live(m)
      /\ Children(p) \cap Live(m) \subseteq InList(p)
    BY NamesFacts
<1> HIDE DEF n, names
<1>2. \A i \in 1 .. n : names[i] \in InList(p)
    BY <1>1
<1>3. \A c \in Children(p) : c \in Paths /\ Parent[c] = p
    BY DEF Children
<1>4. Live(m) \in SUBSET Paths /\ \A r \in Live(m) : Trail(r) \subseteq Live(m)
    BY LiveFacts
<1>5. \A i : Upto(p, i) = {r \in Live(m) : \E j \in 1 .. i : names[j] \in Trail(r)}
    BY DEF Upto, names
<1>6. Upto(p, 0) = {}
    BY <1>5
<1>7. Upto(p, n) = Under(p)
    <2>1. ASSUME NEW r \in Live(m), NEW c \in Children(p), c \in Trail(r)
          PROVE \E j \in 1 .. n : names[j] \in Trail(r)
        <3>1. c \in InList(p)
            BY <1>1, <1>4, <2>1
        <3>2. PICK j \in 1 .. n : names[j] = c
            BY <1>1, <3>1
        <3> QED BY <2>1, <3>2
    <2>2. \A j \in 1 .. n : names[j] \in Children(p)
        BY <1>1, <1>2
    <2>3. Under(p) = {r \in Live(m) : \E c \in Children(p) : c \in Trail(r)}
        BY DEF Under
    <2>4. \A r \in Live(m) : (\E c \in Children(p) : c \in Trail(r))
                               <=> \E j \in 1 .. n : names[j] \in Trail(r)
        BY <2>1, <2>2
    <2> QED BY <1>5, <2>3, <2>4
<1>8. ASSUME NEW i \in 0 .. n - 1
      PROVE LET q == names[i + 1]
            IN /\ Upto(p, i + 1) = Upto(p, i) \cup Whole(q)
               /\ Upto(p, i) \cap Whole(q) = {}
               /\ q \in Live(m) /\ q \in InList(p) /\ Parent[q] = p
    <2> DEFINE q == names[i + 1]
    <2>1. /\ i \in Nat /\ i + 1 \in 1 .. n
          /\ \A j : j \in 1 .. i + 1 <=> j \in 1 .. i \/ j = i + 1
          /\ \A j \in 1 .. i : j \in 1 .. n /\ j # i + 1
        BY <1>1
    <2>2. q \in InList(p) /\ q \in Live(m) /\ q \in Paths /\ Parent[q] = p
        BY <1>1, <1>2, <1>3, <2>1
    <2>3. \A r : (\E j \in 1 .. i + 1 : names[j] \in Trail(r))
                   <=> (\E j \in 1 .. i : names[j] \in Trail(r)) \/ q \in Trail(r)
        BY <2>1
    <2> HIDE DEF q
    <2>4. Upto(p, i + 1) = Upto(p, i) \cup Whole(q)
        BY <1>5, <2>3 DEF Whole
    <2>5. ASSUME NEW r \in Upto(p, i), r \in Whole(q) PROVE FALSE
        <3>1. r \in Live(m) /\ r \in Paths /\ q \in Trail(r)
            BY <1>4, <2>5 DEF Whole
        <3>2. PICK j \in 1 .. i : names[j] \in Trail(r)
            BY <1>5
        <3> DEFINE c == names[j]
        <3>3. c \in Trail(r) /\ c \in Paths /\ Parent[c] = p /\ c # q
            <4>1. c \in InList(p)
                BY <1>2, <2>1
            <4>2. c # q
                BY <1>1, <2>1 DEF q
            <4> QED BY <1>1, <1>3, <3>2, <4>1, <4>2
        <3> HIDE DEF c
        <3>4. c \in Trail(q) \/ q \in Trail(c)
            BY <3>1, <3>3, TrailOrder
        <3>5. Trail(q) = {q} \cup Trail(p) /\ Trail(c) = {c} \cup Trail(p)
            BY <2>2, <3>3, TrailFacts
        <3>6. c \notin Trail(p) /\ q \notin Trail(p)
            BY <2>2, <3>3, TrailAcyclic
        <3> QED BY <3>3, <3>4, <3>5, <3>6
    <2>6. Upto(p, i) \cap Whole(q) = {}
        BY <2>5
    <2> QED BY <2>2, <2>4, <2>6 DEF q
<1>9. \A i \in 0 .. n : Upto(p, i) \in SUBSET Live(m)
    BY <1>5
<1> QED BY <1>6, <1>7, <1>8, <1>9 DEF n, names

LEMMA UnderRoot ==
    ASSUME Reviewed PROVE Under(Root) = Live(m)
<1> DEFINE S == {p \in Paths : \E c \in Children(Root) : c \in Trail(p)}
<1>1. ASSUME NEW p \in Paths, Parent[p] = Root \/ Parent[p] \in S PROVE p \in S
    <2>1. Trail(p) = {p} \cup Trail(Parent[p])
        BY TrailFacts
    <2>2. CASE Parent[p] = Root
        BY <2>1, <2>2 DEF Children
    <2>3. CASE Parent[p] \in S
        BY <2>1, <2>3
    <2> QED BY <1>1, <2>2, <2>3
<1>2. S \in SUBSET Paths
    OBVIOUS
<1> HIDE DEF S
<1>3. \A p \in Paths : p \in S
    BY <1>1, <1>2, TreeInduction
<1>4. Live(m) \in SUBSET Paths
    BY LiveFacts
<1> QED BY <1>3, <1>4 DEF S, Under

-----------------------------------------------------------------------------
(* Reading the list of the subnodes of a path.                              *)
ReadIn(f, p) ==
    \A X \in Seq(Fields), node \in Nodes, refs \in Tallies, S \in Seq(Loops) :
        Leads(ReaderOf(f[p] \o X, WrittenBackups, node, refs, Loop("subnodes", p, 1) \o S),
              ReaderOf(X, WrittenBackups, Filled(node, Under(p)), Plus(refs, Under(p)), S))

LEMMA LoopTyped ==
    ASSUME NEW reads \in {"point", "node", "subnodes"}, NEW p \in Nested, NEW k \in Nat
    PROVE Loop(reads, p, k) \in Seq(Loops)
<1>1. CASE k = 0
    BY <1>1 DEF Loop
<1>2. CASE k # 0
    <2> DEFINE l == [reads |-> reads, path |-> p, rounds |-> k]
    <2>1. l \in Loops
        BY DEF Loops, Nested
    <2>2. Loop(reads, p, k) = <<l>>
        BY <1>2 DEF Loop
    <2> HIDE DEF l
    <2> QED BY <2>1, <2>2
<1> QED BY <1>1, <1>2

AfterFirst(D, a, b) ==
    /\ a \o b \in Seq(D) /\ Len(a \o b) = Len(a) + Len(b) /\ Len(b) \in Nat
    /\ \A i \in 1 .. Len(a) : (a \o b)[i] = a[i]
    /\ SubSeq(a \o b, Len(a) + 1, Len(a \o b)) = b

LEMMA AfterFirstHolds ==
    ASSUME NEW D, NEW a \in Seq(D), NEW b \in Seq(D) PROVE AfterFirst(D, a, b)
BY Joined DEF AfterFirst

LEMMA HeadFields ==
    ASSUME NEW q \in Fields, NEW w \in Fields, NEW n \in Fields, NEW Z \in Seq(Fields)
    PROVE LET rest == <<q, w, n>> \o Z
          IN /\ rest \in Seq(Fields) /\ Enough(rest, 3)
             /\ Head(rest) = q /\ rest[2] = w /\ rest[3] = n /\ Beyond(rest, 3) = Z
<1> DEFINE F == Fields
           a == <<q, w, n>>
           rest == a \o Z
<1>1. a \in Seq(F) /\ Len(a) = 3 /\ a[1] = q /\ a[2] = w /\ a[3] = n
    OBVIOUS
<1>2. Z \in Seq(F)
    OBVIOUS
<1> HIDE DEF F, a
<1>3. /\ rest \in Seq(F) /\ Len(rest) = Len(a) + Len(Z) /\ Len(Z) \in Nat
      /\ \A i \in 1 .. Len(a) : rest[i] = a[i]
      /\ SubSeq(rest, Len(a) + 1, Len(rest)) = Z
    <2>1. AfterFirst(F, a, Z)
        BY <1>1, <1>2, AfterFirstHolds
    <2> QED BY <2>1, Zenon DEF AfterFirst
<1> HIDE DEF rest
<1>4. Enough(rest, 3) /\ rest[1] = q /\ rest[2] = w /\ rest[3] = n
    BY <1>1, <1>3 DEF Enough
<1>5. Beyond(rest, 3) = Z
    BY <1>1, <1>3 DEF Beyond
<1>6. Head(rest) = rest[1]
    BY <1>3, <1>4 DEF Enough
<1> QED BY <1>3, <1>4, <1>5, <1>6 DEF rest, a, F

LEMMA NodeIsRead ==
    ASSUME Reviewed, NEW f, NEW q \in Live(m), f[q] \in Seq(Fields), ReadIn(f, q),
           NEW p \in Nested, Parent[q] = p, NEW k \in Nat \ {0},
           NEW X \in Seq(Fields), NEW node \in Nodes, NEW refs \in Tallies, NEW S \in Seq(Loops)
    PROVE Leads(ReaderOf(Record(f, q) \o X, WrittenBackups, node, refs, Loop("node", p, k) \o S),
                ReaderOf(X, WrittenBackups, Filled(node, Whole(q)), Plus(refs, Whole(q)),
                         Loop("node", p, k - 1) \o S))
<1> DEFINE W == WrittenBackups
           h == m.node[q].history
           w == m.node[q].policy
           n == Len(h)
           Y == f[q] \o X
           Z == HistoryPoints(h) \o Y
           rest == Record(f, q) \o X
           later == Loop("node", p, k - 1) \o S
           inner == Loop("subnodes", q, 1) \o later
<1>1. /\ W \in Seq(Runs) /\ WrittenFine(q) /\ q \in Paths
    BY LiveFacts
<1>2. /\ h \in Seq(Point) /\ w \in Policies /\ n \in Nat
      /\ \A i \in 1 .. Len(h) : Findable(h[i].backup)
    <2>1. h \in Seq(Point) /\ w \in Policies /\ \A i \in 1 .. Len(h) : Findable(h[i].backup)
        BY <1>1 DEF WrittenFine
    <2> HIDE DEF h
    <2> QED BY <2>1
<1>3. /\ rest = <<q, w, n>> \o Z
      /\ Y \in Seq(Fields) /\ Z \in Seq(Fields)
    BY RecordFacts
<1>4. q \in Fields /\ w \in Fields /\ n \in Fields
    BY <1>1, <1>2, Typed
<1>5. /\ Enough(rest, 3) /\ Head(rest) = q /\ rest[2] = w /\ rest[3] = n /\ Beyond(rest, 3) = Z
    <2> HIDE DEF w, n, Z, rest
    <2> QED BY <1>3, <1>4, HeadFields
<1>6. later \in Seq(Loops) /\ inner \in Seq(Loops)
    <2>1. k - 1 \in Nat /\ q \in Paths \cup {Root} /\ p \in Paths \cup {Root}
        BY <1>1 DEF Nested
    <2>2. later \in Seq(Loops)
        BY <2>1, LoopFacts
    <2> HIDE DEF later
    <2> QED BY <2>1, <2>2, LoopFacts
<1> HIDE DEF W, h, w, n, Y, Z, rest, later, inner
<1>7. ~NodeRefused(rest, p)
    BY <1>5 DEF NodeRefused
<1>8. Read(ReaderOf(rest, W, node, refs, Loop("node", p, k) \o S))
        = NodeRead(rest, W, node, refs, later)
    <2>1. p \in Paths \cup {Root}
        BY DEF Nested
    <2> QED BY <1>7, <2>1, NextRound DEF later
<1>9. (Loop("point", q, n) \o Loop("subnodes", q, 1)) \o later = Loop("point", q, n) \o inner
    <2> DEFINE a == Loop("point", q, n)
               b == Loop("subnodes", q, 1)
    <2>1. a \in Seq(Loops) /\ b \in Seq(Loops)
        BY <1>1, <1>2, LoopTyped DEF Nested
    <2>2. inner = b \o later
        BY DEF inner
    <2> DEFINE L == Seq(Loops)
    <2>3. a \in L /\ b \in L /\ later \in L /\ Associates(L)
        BY <1>6, <2>1, Regroup
    <2> HIDE DEF a, b, L
    <2>4. (a \o b) \o later = a \o (b \o later)
        BY <2>3, Zenon DEF Associates, Cat
    <2> QED BY <2>2, <2>4 DEF a, b
<1>10. NodeRead(rest, W, node, refs, later)
         = ReaderOf(Z, W, Put(node, q, w, <<>>), refs, Loop("point", q, n) \o inner)
    BY <1>5, <1>9 DEF NodeRead, Begin, Put
<1>11. Leads(ReaderOf(Z, W, Put(node, q, w, <<>>), refs, Loop("point", q, n) \o inner),
             ReaderOf(Y, W, Put(node, q, w, h), With(refs, h), inner))
    <2>1. W \in Seq(Runs) /\ Y \in Seq(Fields) /\ inner \in Seq(Loops)
        BY <1>1, <1>3, <1>6
    <2> QED BY <1>1, <1>2, <2>1, HistoryIsRead DEF W, Z, n
<1>12. /\ {q} \in SUBSET Live(m) /\ Under(q) \in SUBSET Live(m)
       /\ Whole(q) = {q} \cup Under(q) /\ {q} \cap Under(q) = {}
    BY WholeFacts
<1> DEFINE nd == Filled(node, {q})
           rf == Plus(refs, {q})
<1>13. Put(node, q, w, h) = nd /\ With(refs, h) = rf
    BY OneFilled DEF w, h
<1>14. nd \in Nodes /\ rf \in Tallies
    BY <1>12, FilledFacts, PlusFacts
<1>15. Filled(nd, Under(q)) = Filled(node, Whole(q)) /\ Plus(rf, Under(q)) = Plus(refs, Whole(q))
    BY <1>12, FilledFacts, PlusFacts
<1> HIDE DEF nd, rf
<1>16. Leads(ReaderOf(Y, W, nd, rf, inner),
             ReaderOf(X, W, Filled(nd, Under(q)), Plus(rf, Under(q)), later))
    BY <1>6, <1>14 DEF ReadIn, Y, W, inner
<1> DEFINE r0 == ReaderOf(rest, W, node, refs, Loop("node", p, k) \o S)
           r1 == ReaderOf(Z, W, Put(node, q, w, <<>>), refs, Loop("point", q, n) \o inner)
           r2 == ReaderOf(Y, W, nd, rf, inner)
           r3 == ReaderOf(X, W, Filled(node, Whole(q)), Plus(refs, Whole(q)), later)
<1>17. Read(r0) = r1
    BY <1>8, <1>10
<1>18. Leads(r1, r2) /\ Leads(r2, r3)
    BY <1>11, <1>13, <1>15, <1>16
<1> HIDE DEF r0, r1, r2, r3
<1>19. Leads(r0, r3)
    BY <1>17, <1>18, LeadsFacts
<1> QED BY <1>19 DEF r0, r3, rest, W, later

LEMMA HeadField ==
    ASSUME NEW n \in Fields, NEW Z \in Seq(Fields)
    PROVE LET rest == <<n>> \o Z
          IN Enough(rest, 1) /\ Head(rest) = n /\ Beyond(rest, 1) = Z
<1> DEFINE F == Fields
           a == <<n>>
           rest == a \o Z
<1>1. a \in Seq(F) /\ Len(a) = 1 /\ a[1] = n
    OBVIOUS
<1>2. Z \in Seq(F)
    OBVIOUS
<1> HIDE DEF F, a
<1>3. /\ rest \in Seq(F) /\ Len(rest) = Len(a) + Len(Z) /\ Len(Z) \in Nat
      /\ \A i \in 1 .. Len(a) : rest[i] = a[i]
      /\ SubSeq(rest, Len(a) + 1, Len(rest)) = Z
    <2>1. AfterFirst(F, a, Z)
        BY <1>1, <1>2, AfterFirstHolds
    <2> QED BY <2>1, Zenon DEF AfterFirst
<1> HIDE DEF rest
<1>4. Enough(rest, 1) /\ rest[1] = n
    BY <1>1, <1>3 DEF Enough
<1>5. Beyond(rest, 1) = Z
    BY <1>1, <1>3 DEF Beyond
<1>6. Head(rest) = rest[1]
    BY <1>3, <1>4 DEF Enough
<1> QED BY <1>4, <1>5, <1>6 DEF rest, a

LEMMA ListIsRead ==
    ASSUME Reviewed, NEW f, Lists(f), NEW p \in Nested, \A q \in InList(p) : ReadIn(f, q)
    PROVE ReadIn(f, p)
<1> SUFFICES ASSUME NEW X \in Seq(Fields), NEW node \in Nodes, NEW refs \in Tallies,
                    NEW S \in Seq(Loops)
             PROVE Leads(ReaderOf(f[p] \o X, WrittenBackups, node, refs, Loop("subnodes", p, 1) \o S),
                         ReaderOf(X, WrittenBackups, Filled(node, Under(p)), Plus(refs, Under(p)), S))
    BY DEF ReadIn
<1> DEFINE n == ListLength(p)
           names == Names(p)
           seqs == Records(f, p)
           F == Fields
           W == WrittenBackups
<1>1. n \in Nat /\ p \in Paths \cup {Root}
    BY NamesFacts DEF Nested
<1>2. \A q \in Live(m) : f[q] \in Seq(F)
    BY LiveFacts, ListsTyped DEF Nested
<1>3. /\ f[p] = <<n>> \o FlattenSeq(seqs)
      /\ seqs \in Seq(Seq(F)) /\ Len(seqs) = n
      /\ \A i \in 1 .. n : seqs[i] = Record(f, names[i])
    <2>1. \A c \in Children(p) : f[c] \in Seq(Fields)
        BY ListsTyped DEF Nested, Children
    <2> QED BY <2>1, ListTyped
<1> HIDE DEF n, names, seqs, F, W
<1>4. PICK after : Follows(after, seqs, F)
    BY <1>3, Flattened
<1>5. /\ after \in [0 .. n -> Seq(F)]
      /\ f[p] = <<n>> \o after[0] /\ after[n] = <<>>
      /\ \A i \in 1 .. n : after[i - 1] = seqs[i] \o after[i]
    BY <1>3, <1>4 DEF Follows
<1>6. \A i \in 0 .. n : after[i] \in Seq(F)
    BY <1>5
<1>7. X \in Seq(F) /\ Associates(Seq(F)) /\ \A s, t \in Seq(F) : s \o t \in Seq(F)
    BY Regroup, Typed DEF F
<1> DEFINE L == Seq(F)
<1> HIDE DEF L
<1>8. \A a, b \in L : a \o b \in L /\ (a \o b) \o X = a \o (b \o X)
    <2>1. X \in L /\ Associates(L) /\ \A s, t \in L : s \o t \in L
        BY <1>7 DEF L
    <2> QED BY <2>1, Zenon DEF Associates, Cat
<1>9. X \in L /\ \A i \in 0 .. n : after[i] \in L
    BY <1>6, <1>7 DEF L
<1>10. <<n>> \in L /\ n \in Fields
    BY <1>1, Typed DEF L, F
<1> DEFINE r(k) == ReaderOf(after[k] \o X, W, Filled(node, Upto(p, k)), Plus(refs, Upto(p, k)),
                            Loop("node", p, n - k) \o S)
           start == ReaderOf(f[p] \o X, W, node, refs, Loop("subnodes", p, 1) \o S)
           T == {k \in 0 .. n : Leads(start, r(k))}
<1>11. Read(start) = r(0)
    <2> DEFINE rest == f[p] \o X
               Z == after[0] \o X
    <2>1. 0 \in 0 .. n /\ n - 0 = n /\ 1 - 1 = 0 /\ 1 \in Nat \ {0}
        BY <1>1
    <2>2. rest = <<n>> \o Z /\ Z \in L
        <3>1. f[p] = <<n>> \o after[0] /\ after[0] \in L /\ <<n>> \in L
            BY <1>5, <1>9, <1>10, <2>1
        <3> DEFINE a == <<n>>
        <3> HIDE DEF a
        <3>2. f[p] = a \o after[0] /\ after[0] \in L /\ a \in L
            BY <3>1 DEF a
        <3>3. (a \o after[0]) \o X = a \o (after[0] \o X)
            BY <3>2, <1>8, Zenon
        <3>4. after[0] \o X \in L
            BY <3>1, <1>8, <1>9, Zenon
        <3> QED BY <3>2, <3>3, <3>4 DEF a
    <2> HIDE DEF rest, Z
    <2>3. Enough(rest, 1) /\ Head(rest) = n /\ Beyond(rest, 1) = Z
        <3>1. Z \in Seq(Fields)
            BY <2>2 DEF L, F
        <3> QED BY <1>10, <2>2, <3>1, HeadField
    <2>4. Read(ReaderOf(rest, W, node, refs, Loop("subnodes", p, 1) \o S))
            = CountRead(rest, W, node, refs, p, Loop("subnodes", p, 1 - 1) \o S)
        BY <1>1, <2>1, <2>3, NextRound
    <2>5. Loop("subnodes", p, 0) \o S = S
        <3>1. Loop("subnodes", p, 0) = <<>>
            BY DEF Loop
        <3> QED BY <3>1, ConcatEmptySeq
    <2>6. CountRead(rest, W, node, refs, p, Loop("subnodes", p, 1 - 1) \o S)
            = ReaderOf(Z, W, node, refs, Loop("node", p, n) \o S)
        BY <2>1, <2>3, <2>5 DEF CountRead
    <2>7. Filled(node, Upto(p, 0)) = node /\ Plus(refs, Upto(p, 0)) = refs
        BY UptoFacts, FilledFacts, PlusFacts
    <2> QED BY <2>1, <2>4, <2>6, <2>7 DEF rest, Z
<1>12. 0 \in T
    BY <1>1, <1>11, LeadsFacts
<1>13. ASSUME NEW k \in T, k < n PROVE k + 1 \in T
    <2>1. /\ k \in Nat /\ k + 1 \in 1 .. n /\ k + 1 \in 0 .. n /\ k \in 0 .. n - 1
          /\ (k + 1) - 1 = k /\ n - k \in Nat \ {0} /\ (n - k) - 1 = n - (k + 1) /\ k \in 0 .. n
        BY <1>1, <1>13
    <2> DEFINE q == names[k + 1]
               Y == after[k + 1] \o X
               nd == Filled(node, Upto(p, k))
               rf == Plus(refs, Upto(p, k))
    <2>2. /\ Upto(p, k) \in SUBSET Live(m) /\ Whole(q) \in SUBSET Live(m)
          /\ Upto(p, k + 1) = Upto(p, k) \cup Whole(q)
          /\ Upto(p, k) \cap Whole(q) = {}
          /\ q \in Live(m) /\ q \in InList(p) /\ Parent[q] = p
        <3>1. /\ Upto(p, k) \in SUBSET Live(m)
              /\ Upto(p, k + 1) = Upto(p, k) \cup Whole(q)
              /\ Upto(p, k) \cap Whole(q) = {}
              /\ q \in Live(m) /\ q \in InList(p) /\ Parent[q] = p
            BY <2>1, UptoFacts DEF n, names
        <3> QED BY <3>1 DEF Whole
    <2>3. nd \in Nodes /\ rf \in Tallies
        BY <2>2, FilledFacts, PlusFacts
    <2>4. /\ Filled(nd, Whole(q)) = Filled(node, Upto(p, k + 1))
          /\ Plus(rf, Whole(q)) = Plus(refs, Upto(p, k + 1))
        BY <2>2, FilledFacts, PlusFacts
    <2>5. Y \in Seq(Fields) /\ after[k] \o X = Record(f, q) \o Y
        <3>1. after[k] = seqs[k + 1] \o after[k + 1] /\ seqs[k + 1] = Record(f, q)
            BY <1>3, <1>5, <2>1
        <3>2. after[k + 1] \in L
            BY <1>9, <2>1
        <3> DEFINE a == Record(f, q)
        <3>3. a \in L
            <4>1. <<>> \in Seq(Fields)
                OBVIOUS
            <4>2. f[q] \in Seq(Fields)
                BY <1>2, <2>2 DEF F
            <4> HIDE DEF q
            <4> QED BY <2>2, <4>1, <4>2, RecordFacts DEF L, F
        <3> HIDE DEF a, q
        <3>4. (a \o after[k + 1]) \o X = a \o (after[k + 1] \o X)
            BY <3>2, <3>3, <1>8, Zenon
        <3>5. after[k + 1] \o X \in L
            BY <3>2, <1>8, <1>9, Zenon
        <3>6. after[k] = a \o after[k + 1]
            BY <3>1 DEF a
        <3>7. Y \in Seq(Fields)
            BY <3>5 DEF L, F
        <3> QED BY <3>4, <3>6, <3>7 DEF a
    <2> HIDE DEF q, Y, nd, rf
    <2>6. Leads(ReaderOf(Record(f, q) \o Y, W, nd, rf, Loop("node", p, n - k) \o S),
                ReaderOf(Y, W, Filled(nd, Whole(q)), Plus(rf, Whole(q)), Loop("node", p, (n - k) - 1) \o S))
        <3>1. f[q] \in Seq(Fields) /\ ReadIn(f, q)
            BY <1>2, <2>2 DEF F
        <3> QED BY <2>1, <2>2, <2>3, <2>5, <3>1, NodeIsRead DEF W
    <2>7. r(k) = ReaderOf(Record(f, q) \o Y, W, nd, rf, Loop("node", p, n - k) \o S)
        BY <2>5 DEF nd, rf
    <2>8. r(k + 1) = ReaderOf(Y, W, Filled(nd, Whole(q)), Plus(rf, Whole(q)), Loop("node", p, (n - k) - 1) \o S)
        BY <2>1, <2>4 DEF Y
    <2> HIDE DEF r, start
    <2>9. Leads(start, r(k + 1))
        BY <2>6, <2>7, <2>8, LeadsFacts
    <2> QED BY <2>1, <2>9
<1>14. n \in T
    <2>1. n \in 0 .. n /\ T \in SUBSET Nat
        BY <1>1
    <2> HIDE DEF T
    <2> QED BY <1>1, <1>12, <1>13, <2>1, Upwards
<1>15. r(n) = ReaderOf(X, W, Filled(node, Under(p)), Plus(refs, Under(p)), S)
    <2>1. after[n] \o X = X
        BY <1>5, ConcatEmptySeq
    <2>2. n - n = 0
        BY <1>1
    <2>3. Loop("node", p, 0) \o S = S
        <3>1. Loop("node", p, 0) = <<>>
            BY DEF Loop
        <3> QED BY <3>1, ConcatEmptySeq
    <2>4. Upto(p, n) = Under(p)
        BY UptoFacts DEF n
    <2> QED BY <2>1, <2>2, <2>3, <2>4
<1>16. Leads(start, r(n))
    BY <1>14
<1> HIDE DEF r
<1> QED BY <1>15, <1>16 DEF W

LEMMA AllIsRead ==
    ASSUME Reviewed, NEW f, Lists(f) PROVE ReadIn(f, Root)
<1> DEFINE S == {p \in Nested : ReadIn(f, p)}
<1>1. ASSUME NEW p \in Nested, Children(p) \subseteq S PROVE p \in S
    <2>1. \A q \in InList(p) : ReadIn(f, q)
        BY <1>1, NamesFacts
    <2> QED BY <2>1, ListIsRead
<1>2. S \in SUBSET Nested /\ Root \in Nested
    BY DEF Nested
<1> HIDE DEF S
<1>3. Root \in S
    BY <1>1, <1>2, FromBelow
<1> QED BY <1>3 DEF S

-----------------------------------------------------------------------------
(* Loading a file.                                                          *)
NoTally == [b \in Runs |-> 0]
Opened(file) == ReaderOf(file, <<>>, NoNodes, NoTally, Loop("subnodes", Root, 1))
Listed1(file) == SubSeq(file, 2, Head(file) + 1)
Body(file) == Beyond(file, Head(file) + 3)
Begun(file) == ReaderOf(Body(file), Listed1(file), NoNodes, NoTally, Loop("subnodes", Root, 1))
Refused(file) == ~Enough(file, 1) \/ ~Enough(file, Head(file) + 3)
Taken(r) == IF r.rest = <<>> THEN r ELSE Died(r)

LEMMA BackupsPut ==
    ASSUME NEW rest, NEW listed, NEW node, NEW refs, NEW loops,
           NEW r, r = ReaderOf(rest, listed, node, refs, loops), NEW v
    PROVE [r EXCEPT !.backups = v] = ReaderOf(rest, v, node, refs, loops)
<1>1. Shape(r, rest, listed, node, refs, loops)
    BY ShapeIs
<1>2. Shape([r EXCEPT !.backups = v], rest, v, node, refs, loops)
    BY <1>1 DEF Shape
<1> QED BY <1>2, ShapeIs

LEMMA LoadIs ==
    ASSUME NEW file
    PROVE MetadataLoad(file) = IF Refused(file) THEN Died(Opened(file))
                               ELSE Taken(Reads(Begun(file), Len(file)))
<1> DEFINE empty == Opened(file)
           n == Head(file)
           start == [Drop(empty, n + 3) EXCEPT !.backups = SubSeq(file, 2, n + 1)]
           r == Reads(start, Len(file))
<1>1. empty.rest = file
    BY DEF Opened, ReaderOf
<1>2. MetadataLoad(file) = IF ~Has(empty, 1) \/ ~Has(empty, n + 3) THEN Died(empty)
                           ELSE IF AtEnd(r) THEN r ELSE Died(r)
    BY DEF MetadataLoad, Opened, ReaderOf, NoTally
<1>3. Has(empty, 1) = Enough(file, 1) /\ Has(empty, n + 3) = Enough(file, n + 3)
    BY <1>1 DEF Has, Enough
<1>4. start = Begun(file)
    <2> DEFINE drop == Drop(empty, n + 3)
               body == Body(file)
    <2>1. drop = [empty EXCEPT !.rest = body]
        BY <1>1 DEF Drop, Body, Beyond
    <2>2. empty = ReaderOf(file, <<>>, NoNodes, NoTally, Loop("subnodes", Root, 1))
        BY DEF Opened
    <2> HIDE DEF empty, body
    <2>3. drop = ReaderOf(body, <<>>, NoNodes, NoTally, Loop("subnodes", Root, 1))
        BY <2>1, <2>2, RestPut
    <2> DEFINE l == SubSeq(file, 2, n + 1)
               loops == Loop("subnodes", Root, 1)
    <2>4. drop = ReaderOf(body, <<>>, NoNodes, NoTally, loops)
        BY <2>3
    <2> HIDE DEF drop, l, loops
    <2>5. [drop EXCEPT !.backups = l] = ReaderOf(body, l, NoNodes, NoTally, loops)
        BY <2>4, BackupsPut
    <2> QED BY <2>5 DEF Begun, Listed1, drop, body, l, loops
<1> HIDE DEF empty, start
<1> QED BY <1>2, <1>3, <1>4 DEF Refused, Taken, AtEnd, empty

LEMMA DomainKept ==
    ASSUME NEW r, "died" \in DOMAIN r PROVE "died" \in DOMAIN Read(r)
<1>1. \A x : DOMAIN Died(x) = DOMAIN x
    BY DEF Died
<1>2. \A x, n : DOMAIN Drop(x, n) = DOMAIN x
    BY DEF Drop
<1>3. \A p, loops : "died" \in DOMAIN ReadPoint(r, p, loops)
    BY <1>1, <1>2 DEF ReadPoint
<1>4. \A p, loops : "died" \in DOMAIN ReadNode(r, p, loops)
    BY <1>1, <1>2 DEF ReadNode
<1>5. \A p, loops : "died" \in DOMAIN ReadSubnodes(r, p, loops)
    BY <1>1, <1>2 DEF ReadSubnodes
<1> QED BY <1>3, <1>4, <1>5, Zenon DEF Read

LEMMA DomainStays ==
    ASSUME NEW r, "died" \in DOMAIN r, NEW n \in Nat
    PROVE "died" \in DOMAIN Reads(r, n) /\ Died(Reads(r, n)).died
<1> DEFINE S == {k \in Nat : "died" \in DOMAIN Reads(r, k)}
<1>1. 0 \in S
    BY ReadsUnfold
<1>2. ASSUME NEW k \in S PROVE k + 1 \in S
    <2>1. Reads(r, k + 1) = Read(Reads(r, k)) /\ k + 1 \in Nat
        BY ReadsUnfold
    <2>2. "died" \in DOMAIN Read(Reads(r, k))
        BY DomainKept
    <2> QED BY <2>1, <2>2
<1>3. S \in SUBSET Nat /\ n \in 0 .. n
    OBVIOUS
<1>4. n \in S
    <2> HIDE DEF S
    <2> QED BY <1>1, <1>2, <1>3, Upwards
<1>5. \A x : "died" \in DOMAIN x => Died(x).died
    BY DEF Died
<1> QED BY <1>4, <1>5

(* The fields in front of the list of the nodes.                            *)
Header == (<<Len(WrittenBackups)>> \o WrittenBackups) \o <<0, 0>>
HeaderIs(Z) ==
    /\ Header \o Z \in Seq(Fields) /\ ~Refused(Header \o Z)
    /\ Begun(Header \o Z)
         = ReaderOf(Z, WrittenBackups, NoNodes, NoTally, Loop("subnodes", Root, 1))
    /\ Len(Header \o Z) \in Nat /\ Len(Header \o Z) > Len(Z)
    /\ Body(Header \o Z) = Z /\ Listed1(Header \o Z) = WrittenBackups
    /\ Head(Header \o Z) \in Nat

LEMMA HeaderFacts ==
    ASSUME WrittenBackups \in Seq(Runs), NEW Z \in Seq(Fields)
    PROVE Header \in Seq(Fields) /\ HeaderIs(Z)
<1> DEFINE W == WrittenBackups
           nb == Len(W)
           F == Fields
           a == <<nb>>
           b == <<0, 0>>
           c == a \o W
           d == c \o b
           file == d \o Z
<1>1. nb \in Nat /\ W \in Seq(F)
    <2>1. nb \in Nat /\ \A i \in 1 .. nb : W[i] \in Runs
        OBVIOUS
    <2>2. \A x \in Runs : x \in F
        BY DEF Runs, Fields
    <2>3. \A i \in 1 .. nb : W[i] \in F
        BY <2>1, <2>2
    <2>4. W = [i \in 1 .. nb |-> W[i]]
        OBVIOUS
    <2> HIDE DEF F, nb
    <2> QED BY <2>1, <2>3, <2>4
<1>2. /\ a \in Seq(F) /\ b \in Seq(F) /\ Len(a) = 1 /\ Len(b) = 2 /\ a[1] = nb
    BY <1>1, Typed
<1>3. Z \in Seq(F)
    OBVIOUS
<1> HIDE DEF W, F, a, b
<1>4. AfterFirst(F, a, W)
    BY <1>1, <1>2, AfterFirstHolds
<1>5. /\ c \in Seq(F) /\ Len(c) = Len(a) + nb /\ c[1] = a[1]
      /\ SubSeq(c, Len(a) + 1, Len(c)) = W
    <2>1. 1 \in 1 .. Len(a)
        BY <1>2
    <2> QED BY <1>4, <2>1, Zenon DEF AfterFirst, nb
<1> HIDE DEF c, nb
<1>6. c \in Seq(F) /\ Len(c) = nb + 1 /\ c[1] = nb /\ SubSeq(c, 2, nb + 1) = W
    BY <1>1, <1>2, <1>5
<1>7. AfterFirst(F, c, b)
    BY <1>2, <1>6, AfterFirstHolds
<1>8. /\ d \in Seq(F) /\ Len(d) = Len(c) + Len(b) /\ d[1] = c[1]
    <2>1. 1 \in 1 .. Len(c)
        BY <1>1, <1>6
    <2> QED BY <1>7, <2>1, Zenon DEF AfterFirst
<1>9. SubSeq(d, 2, nb + 1) = W
    <2>1. \A i \in 1 .. nb + 1 : d[i] = c[i]
        BY <1>6, <1>7, Zenon DEF AfterFirst
    <2> HIDE DEF d
    <2>2. SubSeq(d, 2, nb + 1) = [i \in 1 .. nb |-> d[i + 1]]
        BY <1>1, <1>6, <1>8
    <2>3. SubSeq(c, 2, nb + 1) = [i \in 1 .. nb |-> c[i + 1]]
        BY <1>1, <1>6
    <2>4. \A i \in 1 .. nb : d[i + 1] = c[i + 1]
        BY <1>1, <2>1
    <2> QED BY <1>6, <2>2, <2>3, <2>4
<1> HIDE DEF d
<1>10. d \in Seq(F) /\ Len(d) = nb + 3 /\ d[1] = nb
    BY <1>1, <1>2, <1>6, <1>8
<1>11. AfterFirst(F, d, Z)
    BY <1>3, <1>10, AfterFirstHolds
<1>12. /\ file \in Seq(F) /\ Len(file) = Len(d) + Len(Z) /\ Len(Z) \in Nat
       /\ file[1] = d[1] /\ SubSeq(file, Len(d) + 1, Len(file)) = Z
    <2>1. 1 \in 1 .. Len(d)
        BY <1>1, <1>10
    <2> QED BY <1>11, <2>1, Zenon DEF AfterFirst
<1>13. SubSeq(file, 2, nb + 1) = W
    <2>1. 2 \in 1 .. Len(d) /\ nb + 1 \in 1 .. Len(d)
        BY <1>1, <1>10
    <2>2. SubSeq(d \o Z, 2, nb + 1) = SubSeq(d, 2, nb + 1)
        BY <1>3, <1>10, <2>1, SubSeqOfConcat1
    <2> QED BY <1>9, <2>2
<1> HIDE DEF file
<1>14. Head(file) = nb /\ Len(file) \in Nat /\ Len(file) > Len(Z) /\ Len(file) >= 1 /\ Len(file) >= nb + 3
    BY <1>1, <1>10, <1>12
<1>15. Body(file) = Z
    BY <1>1, <1>10, <1>12, <1>14 DEF Body, Beyond
<1>16. Listed1(file) = W
    BY <1>13, <1>14 DEF Listed1
<1>17. ~Refused(file)
    BY <1>14 DEF Refused, Enough
<1>18. Header = d /\ Header \o Z = file
    BY DEF Header, d, c, a, b, nb, W, file
<1>19. HeaderIs(Z)
    BY <1>1, <1>12, <1>14, <1>15, <1>16, <1>17, <1>18 DEF HeaderIs, Begun, F, W
<1> QED BY <1>10, <1>18, <1>19 DEF F

-----------------------------------------------------------------------------
(* What is loaded from a file with all its nodes, and from one without.     *)
WholeFile(X) == Header \o (PathList \o X)
Final(X) ==
    ReaderOf(X, WrittenBackups, Filled(NoNodes, Live(m)), Plus(NoTally, Live(m)), <<>>)

LEMMA EmptyFacts ==
    NoNodes \in Nodes /\ NoTally \in Tallies
BY DEF NoNodes, Nodes, NoTally, Tallies

LEMMA PathListTyped ==
    ASSUME Reviewed PROVE PathList \in Seq(Fields)
<1>1. PICK f : Lists(f) /\ PathList = f[Root]
    BY PathListIs
<1> QED BY <1>1, ListsTyped DEF Nested

(* However often the reader goes on once it has come to an end.             *)
LEMMA FileIsRead ==
    ASSUME Reviewed, NEW X \in Seq(Fields), NEW n \in Nat, n > Len(PathList \o X)
    PROVE Reads(ReaderOf(PathList \o X, WrittenBackups, NoNodes, NoTally,
                         Loop("subnodes", Root, 1)), n) = Final(X)
<1> DEFINE W == WrittenBackups
           Z == PathList \o X
           loops == Loop("subnodes", Root, 1)
           start == ReaderOf(Z, W, NoNodes, NoTally, loops)
           end == Final(X)
           nd == Filled(NoNodes, Live(m))
           rf == Plus(NoTally, Live(m))
<1>1. PICK f : Lists(f) /\ PathList = f[Root]
    BY PathListIs
<1>2. ReadIn(f, Root)
    BY <1>1, AllIsRead
<1>3. Under(Root) = Live(m)
    BY UnderRoot
<1>4. loops \o <<>> = loops /\ <<>> \in Seq(Loops)
    <2>1. loops \in Seq(Loops)
        BY LoopTyped DEF Nested
    <2> HIDE DEF loops
    <2> QED BY <2>1, ConcatEmptySeq
<1>5. Leads(start, end)
    <2>1. Leads(ReaderOf(f[Root] \o X, W, NoNodes, NoTally, loops \o <<>>),
                ReaderOf(X, W, Filled(NoNodes, Under(Root)), Plus(NoTally, Under(Root)), <<>>))
        <3>1. <<>> \in Seq(Loops)
            BY <1>4
        <3> QED BY <1>2, <3>1, EmptyFacts DEF ReadIn
    <2> HIDE DEF loops
    <2> QED BY <1>1, <1>3, <1>4, <2>1 DEF Final
<1>6. Z \in Seq(Fields)
    BY PathListTyped, Typed
<1>7. Read(end) = end
    <2> HIDE DEF nd, rf, W
    <2>1. \A x, listed, node, refs : Read(ReaderOf(x, listed, node, refs, <<>>))
                                        = ReaderOf(x, listed, node, refs, <<>>)
        BY StoppedFacts
    <2>2. end = ReaderOf(X, W, nd, rf, <<>>)
        BY DEF Final, nd, rf, W
    <2> HIDE DEF end
    <2> QED BY <2>1, <2>2
<1> HIDE DEF Z, W, loops, end
<1>8. Read(Reads(start, n)) = Reads(start, n)
    <2>1. n > Len(Z)
        BY DEF Z
    <2> QED BY <1>6, <2>1, ReadingEnds
<1> HIDE DEF start
<1>9. PICK k \in Nat : Reads(start, k) = end
    BY <1>5 DEF Leads
<1>10. Reads(start, n) = Reads(start, k)
    BY <1>7, <1>8, <1>9, ReadsMeet
<1> QED BY <1>9, <1>10 DEF start, end, Z, W, loops

LEMMA WholeIsLoaded ==
    ASSUME Reviewed, NEW X \in Seq(Fields)
    PROVE MetadataLoad(WholeFile(X)) = Taken(Final(X))
<1> DEFINE Z == PathList \o X
           file == Header \o Z
<1>1. Z \in Seq(Fields) /\ WrittenBackups \in Seq(Runs)
    BY PathListTyped, Typed, LiveFacts
<1> HIDE DEF Z
<1>2. HeaderIs(Z)
    BY <1>1, HeaderFacts
<1> HIDE DEF file
<1>3. /\ ~Refused(file) /\ Len(file) \in Nat /\ Len(file) > Len(Z)
      /\ Begun(file) = ReaderOf(Z, WrittenBackups, NoNodes, NoTally, Loop("subnodes", Root, 1))
    BY <1>2 DEF HeaderIs, file
<1>4. Reads(Begun(file), Len(file)) = Final(X)
    BY <1>3, FileIsRead DEF Z
<1>5. MetadataLoad(file) = Taken(Final(X))
    BY <1>3, <1>4, LoadIs
<1> QED BY <1>5 DEF WholeFile, file, Z

LEMMA WriteIsWhole ==
    ASSUME Reviewed
    PROVE /\ MetadataWrite = WholeFile(<<>>) /\ MetadataWrite \in Seq(Fields)
          /\ MetadataWrite = Header \o PathList
          /\ Append(MetadataWrite, 0) = WholeFile(<<0>>) /\ <<0>> \in Seq(Fields)
<1>1. MetadataWrite = Header \o PathList
    BY DEF MetadataWrite, Header
<1>2. PathList \in Seq(Fields) /\ WrittenBackups \in Seq(Runs)
    BY PathListTyped, LiveFacts
<1>3. Header \in Seq(Fields) /\ HeaderIs(PathList)
    BY <1>2, HeaderFacts
<1>4. Header \o PathList \in Seq(Fields)
    BY <1>3 DEF HeaderIs
<1>5. PathList \o <<>> = PathList
    BY <1>2, ConcatEmptySeq
<1>6. 0 \in Fields /\ <<0>> \in Seq(Fields)
    BY Typed
<1> DEFINE F == Fields
           a == Header
           b == PathList
           c == <<0>>
           zero == 0
<1>7. a \in Seq(F) /\ b \in Seq(F) /\ c \in Seq(F) /\ zero \in F /\ c = <<zero>> /\ Associates(Seq(F))
    BY <1>2, <1>3, <1>6, Regroup
<1>8. a \o b \in Seq(F)
    BY <1>4
<1> HIDE DEF a, b, c, F, zero
<1>9. Append(a \o b, zero) = (a \o b) \o c
    <2> DEFINE s == a \o b
    <2> HIDE DEF s
    <2>1. s \in Seq(F)
        BY <1>8 DEF s
    <2>2. Append(s, zero) = s \o <<zero>>
        BY <1>7, <2>1, AppendIsConcat
    <2> QED BY <1>7, <2>2 DEF s
<1>10. (a \o b) \o c = a \o (b \o c)
    <2> DEFINE L == Seq(F)
    <2>1. a \in L /\ b \in L /\ c \in L /\ Associates(L)
        BY <1>7
    <2> HIDE DEF L
    <2> QED BY <2>1, Zenon DEF Associates, Cat
<1>11. Append(a \o b, zero) = a \o (b \o c)
    BY <1>9, <1>10
<1> QED BY <1>1, <1>4, <1>5, <1>6, <1>11 DEF WholeFile, a, b, c, zero

Continues(D, rest, t) ==
    \A n \in Nat : Enough(rest, n) =>
        /\ Beyond(rest, n) \in Seq(D) /\ Len(Beyond(rest, n)) = Len(rest) - n
        /\ Beyond(rest \o t, n) = Beyond(rest, n) \o t

LEMMA ContinuesHolds ==
    ASSUME NEW D, NEW rest \in Seq(D), NEW t \in Seq(D) PROVE Continues(D, rest, t)
BY Prolonged DEF Continues

(* No part of a file is read as the whole: what it lacks would have to be   *)
(* empty.                                                                   *)
LEMMA CutIsNoticed ==
    ASSUME Reviewed, NEW f \in Seq(Fields), NEW t \in Seq(Fields),
           MetadataWrite = f \o t, t # <<>>
    PROVE MetadataLoad(f).died
<1> DEFINE W == WrittenBackups
           F == Fields
           Z == PathList
           file == MetadataWrite
           nb == Head(file)
           n == Len(f)
           rest == Body(f)
           loops == Loop("subnodes", Root, 1)
           start == ReaderOf(rest, W, NoNodes, NoTally, loops)
<1>1. /\ Z \in Seq(F) /\ HeaderIs(Z) /\ file = Header \o Z /\ file \in Seq(F) /\ Z \o <<>> = Z
    <2>1. Z \in Seq(F) /\ W \in Seq(Runs)
        BY PathListTyped, LiveFacts
    <2>2. HeaderIs(Z)
        BY <2>1, HeaderFacts
    <2>3. Z \o <<>> = Z
        BY <2>1, ConcatEmptySeq
    <2> QED BY <2>1, <2>2, <2>3, WriteIsWhole
<1>2. Died(Opened(f)).died
    BY DEF Died, Opened, ReaderOf
<1>3. CASE Refused(f)
    BY <1>2, <1>3, LoadIs
<1>4. CASE ~Refused(f)
    <2>1. Enough(f, 1) /\ Enough(f, Head(f) + 3) /\ n \in Nat /\ Len(t) \in Nat /\ Len(t) # 0
        BY <1>4, EmptySeq DEF Refused
    <2>2. Head(f) = f[1] /\ 1 \in 1 .. Len(f)
        BY <2>1 DEF Enough
    <2>3. file = f \o t /\ f \in Seq(F) /\ t \in Seq(F)
        OBVIOUS
    <2>4. nb \in Nat /\ Body(file) = Z /\ Listed1(file) = W
        BY <1>1 DEF HeaderIs
    <2> HIDE DEF F, Z, W, file, n
    <2>5. Head(f) = nb
        <3>1. AfterFirst(F, f, t)
            BY <2>3, AfterFirstHolds
        <3>2. (f \o t)[1] = f[1]
            BY <2>2, <3>1, Zenon DEF AfterFirst
        <3>3. Head(file) = file[1]
            <4>1. file \in Seq(F) /\ Enough(file, 1)
                BY <1>1 DEF HeaderIs, Refused
            <4>2. file \in Seq(F) /\ Len(file) >= 1
                BY <4>1 DEF Enough
            <4> QED BY <4>2
        <3> QED BY <2>2, <2>3, <3>2, <3>3
    <2>6. n >= nb + 3 /\ n \in Nat
        BY <2>1, <2>5 DEF Enough, n
    <2> HIDE DEF nb
    <2>7. Listed1(f) = W
        <3>1. 2 \in 1 .. Len(f) /\ nb + 1 \in 1 .. Len(f)
            BY <2>4, <2>6 DEF n
        <3>2. SubSeq(f \o t, 2, nb + 1) = SubSeq(f, 2, nb + 1)
            BY <2>3, <3>1, SubSeqOfConcat1
        <3>3. Listed1(file) = SubSeq(f \o t, 2, nb + 1)
            BY <2>3 DEF Listed1, nb
        <3> QED BY <2>4, <2>5, <3>2, <3>3 DEF Listed1
    <2>8. /\ rest \in Seq(F) /\ Len(rest) = n - (nb + 3)
          /\ Z = rest \o t
        <3>1. nb + 3 \in Nat /\ Enough(f, nb + 3)
            BY <2>1, <2>4, <2>5
        <3>2. /\ Beyond(f, nb + 3) \in Seq(F) /\ Len(Beyond(f, nb + 3)) = n - (nb + 3)
              /\ Beyond(f \o t, nb + 3) = Beyond(f, nb + 3) \o t
            <4>1. Continues(F, f, t)
                BY <2>3, ContinuesHolds
            <4> QED BY <3>1, <4>1, Zenon DEF Continues, n
        <3>3. Body(file) = Beyond(f \o t, nb + 3)
            BY <2>3 DEF Body, nb
        <3> QED BY <2>4, <2>5, <3>2, <3>3 DEF Body
    <2> HIDE DEF rest, loops
    <2>9. Begun(f) = start
        BY <2>7 DEF Begun, rest, loops
    <2>10. Reads(start, n).died
        <3> SUFFICES ASSUME ~Reads(start, n).died PROVE FALSE
            OBVIOUS
        <3>1. n > Len(rest) /\ n \in Nat
            BY <2>4, <2>6, <2>8
        <3>2. \E left \in Seq(F) : \E node2, refs2 :
                 /\ Reads(start, n) = ReaderOf(left, W, node2, refs2, <<>>)
                 /\ \A u \in Seq(F) : Reads(ReaderOf(rest \o u, W, NoNodes, NoTally, loops), n)
                                         = ReaderOf(left \o u, W, node2, refs2, <<>>)
            BY <2>8, <3>1, ReadingEnds
        <3>3. PICK left \in Seq(F) : \E node2, refs2 :
                 \A u \in Seq(F) : Reads(ReaderOf(rest \o u, W, NoNodes, NoTally, loops), n)
                                      = ReaderOf(left \o u, W, node2, refs2, <<>>)
            BY <3>2
        <3>4. PICK node2, refs2 :
                 \A u \in Seq(F) : Reads(ReaderOf(rest \o u, W, NoNodes, NoTally, loops), n)
                                      = ReaderOf(left \o u, W, node2, refs2, <<>>)
            BY <3>3
        <3> DEFINE begin == ReaderOf(Z, W, NoNodes, NoTally, loops)
                   last == ReaderOf(left \o t, W, node2, refs2, <<>>)
                   k == Len(Z) + 1
        <3>5. Reads(begin, n) = last
            BY <2>3, <2>8, <3>4
        <3>6. Read(last) = last
            <4>1. \A x, listed, node, refs : Read(ReaderOf(x, listed, node, refs, <<>>))
                                                = ReaderOf(x, listed, node, refs, <<>>)
                BY StoppedFacts
            <4> QED BY <4>1
        <3>7. k \in Nat /\ k > Len(Z)
            BY <1>1 DEF F
        <3>8. Reads(begin, k) = Final(<<>>)
            <4>1. <<>> \in Seq(Fields) /\ PathList \o <<>> = Z
                BY <1>1 DEF Z
            <4>2. k > Len(PathList \o <<>>)
                BY <3>7, <4>1
            <4> HIDE DEF k
            <4>3. Reads(ReaderOf(PathList \o <<>>, WrittenBackups, NoNodes, NoTally,
                                 Loop("subnodes", Root, 1)), k) = Final(<<>>)
                BY <3>7, <4>1, <4>2, FileIsRead
            <4> QED BY <4>1, <4>3 DEF W, loops
        <3>9. Read(Final(<<>>)) = Final(<<>>)
            <4>1. \A x, listed, node, refs : Read(ReaderOf(x, listed, node, refs, <<>>))
                                                = ReaderOf(x, listed, node, refs, <<>>)
                BY StoppedFacts
            <4> QED BY <4>1 DEF Final
        <3> HIDE DEF begin, last, k
        <3>10. last = Final(<<>>)
            <4>1. Reads(begin, n) = Reads(begin, k)
                BY <3>1, <3>5, <3>6, <3>7, <3>8, <3>9, ReadsMeet
            <4> QED BY <3>5, <3>8, <4>1
        <3>11. left \o t = <<>>
            <4>1. last.rest = left \o t
                BY DEF last, ReaderOf
            <4>2. Final(<<>>).rest = <<>>
                BY DEF Final, ReaderOf
            <4> QED BY <3>10, <4>1, <4>2
        <3>12. Len(left \o t) = Len(left) + Len(t) /\ Len(left) \in Nat
            BY <2>3, ConcatProperties, LenProperties
        <3>13. Len(<<>>) = 0
            OBVIOUS
        <3> QED BY <2>1, <3>11, <3>12, <3>13
    <2>11. Died(Reads(start, n)).died
        <3>1. "died" \in DOMAIN start
            BY DEF ReaderOf
        <3> HIDE DEF start
        <3> QED BY <2>6, <3>1, DomainStays
    <2>12. MetadataLoad(f) = Taken(Reads(start, n))
        BY <1>4, <2>9, LoadIs DEF n
    <2> HIDE DEF start
    <2> QED BY <2>10, <2>11, <2>12 DEF Taken
<1> QED BY <1>3, <1>4

(* The next run finds in the metadata file what this one has written: the   *)
(* backups in their order, the nodes with their histories, and the count of *)
(* points of each backup.                                                   *)
THEOREM WrittenIsRead ==
    ASSUME PoliciesStay
    PROVE Spec => []FileIsReadBack
<1>1. BackupInv => FileIsReadBack
    <2> SUFFICES ASSUME BackupInv, pc = "review"
                 PROVE LET r == MetadataLoad(MetadataWrite)
                       IN /\ ~r.died
                          /\ r.backups = WrittenBackups
                          /\ r.node = WrittenNodes
                          /\ r.refs = Loaded(WrittenNodes).refs
        BY DEF FileIsReadBack
    <2> DEFINE L == Live(m)
               nd == Filled(NoNodes, L)
               rf == Plus(NoTally, L)
               written == WrittenNodes
    <2>1. Reviewed
        BY DEF Reviewed
    <2>2. MetadataLoad(MetadataWrite) = Taken(Final(<<>>))
        <3>1. <<>> \in Seq(Fields)
            OBVIOUS
        <3> QED BY <2>1, <3>1, WriteIsWhole, WholeIsLoaded
    <2>3. Taken(Final(<<>>)) = ReaderOf(<<>>, WrittenBackups, nd, rf, <<>>)
        BY DEF Taken, Final, ReaderOf
    <2>4. written = [p \in Paths |-> IF p \in L THEN m.node[p] ELSE None]
        BY WrittenNodesFacts
    <2>5. nd = written
        BY <2>4 DEF Filled, NoNodes
    <2>6. L \in SUBSET Paths /\ Histories(m, L) /\ \A p \in L : m.node[p] # None
        BY <2>1, LiveFacts DEF Live, Exists
    <2> HIDE DEF L, nd, rf, written
    <2>7. {p \in Paths : written[p] # None} = L
        BY <2>4, <2>6
    <2>8. rf = Loaded(written).refs
        <3> DEFINE y == [node |-> written]
        <3>1. \A p \in L : m.node[p].history = y.node[p].history
            BY <2>4, <2>6
        <3> HIDE DEF y
        <3>2. \A b \in Runs : CountIn(m, L, b) = CountIn(y, L, b)
            BY <3>1, CountSame
        <3>3. \A b \in Runs : 0 + CountIn(m, L, b) = CountIn(m, L, b)
            BY <2>6, PointsFinite
        <3>4. rf = [b \in Runs |-> CountIn(m, L, b)]
            BY <3>3 DEF rf, Plus, NoTally
        <3>5. Loaded(written).refs = [b \in Runs |-> CountIn(y, L, b)]
            BY <2>7 DEF Loaded, y
        <3> QED BY <3>2, <3>4, <3>5
    <2> DEFINE r == MetadataLoad(MetadataWrite)
    <2> HIDE DEF r
    <2>9. r = ReaderOf(<<>>, WrittenBackups, nd, rf, <<>>)
        BY <2>2, <2>3 DEF r
    <2>10. ~r.died /\ r.backups = WrittenBackups /\ r.node = nd /\ r.refs = rf
        BY <2>9 DEF ReaderOf
    <2> QED BY <2>5, <2>8, <2>10 DEF r, written
<1> QED BY <1>1, BackupInvariant, PTL

(* metadataLoad() dies of a metadata file that has lost its end, wherever   *)
(* it was cut off, and of one with something after its end.                 *)
THEOREM NoPartIsTheWhole ==
    ASSUME PoliciesStay
    PROVE Spec => []DamageIsNoticed
<1>1. BackupInv => DamageIsNoticed
    <2> SUFFICES ASSUME BackupInv, pc = "review"
                 PROVE LET file == MetadataWrite
                       IN /\ \A n \in 0 .. Len(file) - 1 : MetadataLoad(SubSeq(file, 1, n)).died
                          /\ MetadataLoad(Append(file, 0)).died
        BY DEF DamageIsNoticed
    <2> DEFINE file == MetadataWrite
    <2>1. Reviewed
        BY DEF Reviewed
    <2>2. file \in Seq(Fields)
        BY <2>1, WriteIsWhole
    <2>3. ASSUME NEW n \in 0 .. Len(file) - 1 PROVE MetadataLoad(SubSeq(file, 1, n)).died
        <3> HIDE DEF file
        <3> DEFINE f == SubSeq(file, 1, n)
                   t == SubSeq(file, n + 1, Len(file))
                   l == Len(file)
                   F == Fields
        <3>1. l \in Nat /\ n \in Nat /\ n < l /\ \A i \in 1 .. l : file[i] \in F
            BY <2>2
        <3> HIDE DEF F, l
        <3>2. f \in Seq(F)
            <4>1. \A i \in 1 .. n : file[i] \in F
                BY <3>1
            <4> QED BY <3>1, <4>1, SubSeqProperties
        <3>3. t \in Seq(F) /\ Len(t) = l - (n + 1) + 1
            <4>1. \A i \in n + 1 .. l : file[i] \in F
                BY <3>1
            <4>2. n + 1 \in Int /\ l \in Int /\ n + 1 <= l
                BY <3>1
            <4> QED BY <4>1, <4>2, SubSeqProperties DEF l
        <3>4. file = f \o t
            <4>1. 1 \in 1 .. l + 1 /\ n \in 1 - 1 .. l /\ l \in n .. l
                BY <3>1
            <4>2. SubSeq(file, 1, n) \o SubSeq(file, n + 1, l) = SubSeq(file, 1, l)
                BY <2>2, <4>1, ConcatAdjacentSubSeq DEF l
            <4>3. SubSeq(file, 1, l) = file
                BY <2>2, SubSeqFull DEF l
            <4> QED BY <4>2, <4>3 DEF l
        <3>5. t # <<>>
            <4>1. Len(t) # 0 /\ Len(<<>>) = 0
                BY <3>1, <3>3
            <4> HIDE DEF t
            <4> QED BY <4>1
        <3> HIDE DEF f, t
        <3>6. MetadataLoad(f).died
            BY <2>1, <3>2, <3>3, <3>4, <3>5, CutIsNoticed DEF F, file
        <3> QED BY <3>6 DEF f
    <2>4. MetadataLoad(Append(file, 0)).died
        <3>1. MetadataLoad(Append(file, 0)) = Taken(Final(<<0>>))
            BY <2>1, WriteIsWhole, WholeIsLoaded
        <3>2. <<0>> # <<>>
            OBVIOUS
        <3>3. Taken(Final(<<0>>)).died
            BY <3>2 DEF Taken, Final, ReaderOf, Died
        <3> QED BY <3>1, <3>3
    <2> QED BY <2>3, <2>4
<1> QED BY <1>1, BackupInvariant, PTL
=============================================================================

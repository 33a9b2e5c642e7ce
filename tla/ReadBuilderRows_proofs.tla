------------------------ MODULE ReadBuilderRows_proofs ------------------------
(***************************************************************************)
(* What the rows of a scan are, for every source, plan, request, number of *)
(* tries and interleaving of the builds.                                   *)
(***************************************************************************)
EXTENDS ReadBuilder, Lemmas

-----------------------------------------------------------------------------
(* Numbers in order *)

(* A number greater than all others comes last. *)
LEMMA AscendingAppend ==
    ASSUME NEW S \in SUBSET Int, IsFiniteSet(S), NEW n \in Int, \A x \in S : x < n
    PROVE  /\ Cardinality(S \cup {n}) = Cardinality(S) + 1
           /\ Ascending(S \cup {n})[Cardinality(S) + 1] = n
           /\ \A i \in 1 .. Cardinality(S) : Ascending(S \cup {n})[i] = Ascending(S)[i]
<1> DEFINE T == S \cup {n}
           c == Cardinality(S)
           below(U, x) == Cardinality({y \in U : y < x})
<1>1. c \in Nat /\ n \notin S
    BY FS_CardinalityType
<1>2. IsFiniteSet(T) /\ Cardinality(T) = c + 1
    BY <1>1, FS_AddElement
<1>3. below(T, n) = c
    <2>1. {y \in T : y < n} = S
        <3>1. ~(n < n)
            OBVIOUS
        <3> QED
            BY <3>1
    <2> QED
        BY <2>1
<1>4. ASSUME NEW x \in S
      PROVE  below(T, x) = below(S, x) /\ below(S, x) \in Nat /\ below(S, x) < c
    <2>1. {y \in T : y < x} = {y \in S : y < x}
        BY <1>4
    <2>2. {y \in S : y < x} \in SUBSET S /\ x \notin {y \in S : y < x}
        OBVIOUS
    <2>3. /\ IsFiniteSet({y \in S : y < x}) /\ below(S, x) <= c
          /\ c = below(S, x) => S = {y \in S : y < x}
        BY <2>2, FS_Subset
    <2>4. below(S, x) \in Nat
        BY <2>3, FS_CardinalityType
    <2> HIDE DEF c, below
    <2> QED
        BY <1>1, <1>4, <2>1, <2>2, <2>3, <2>4 DEF below
<1>5. Ascending(T) = [i \in 1 .. c + 1 |-> CHOOSE x \in T : below(T, x) = i - 1]
    BY <1>2 DEF Ascending
<1>6. Ascending(S) = [i \in 1 .. c |-> CHOOSE x \in S : below(S, x) = i - 1]
    BY DEF Ascending
<1> HIDE DEF c, below
<1>7. ASSUME NEW i \in Nat, i = c + 1 PROVE Ascending(T)[i] = n
    <2>1. ASSUME NEW x \in T PROVE below(T, x) = i - 1 <=> x = n
        <3>1. i - 1 = c
            BY <1>1, <1>7
        <3>2. CASE x = n
            BY <1>3, <3>1, <3>2
        <3>3. CASE x \in S
            <4> HIDE DEF T
            <4> QED
                BY <1>1, <1>4, <3>1, <3>3
        <3> QED
            BY <3>2, <3>3
    <2>2. i \in 1 .. c + 1
        BY <1>1, <1>7
    <2>3. Ascending(T)[i] = CHOOSE x \in T : below(T, x) = i - 1
        BY <1>5, <2>2
    <2>4. n \in T
        OBVIOUS
    <2> HIDE DEF T
    <2> QED
        BY <2>1, <2>3, <2>4
<1>8. ASSUME NEW i \in 1 .. c PROVE Ascending(T)[i] = Ascending(S)[i]
    <2>1. ASSUME NEW x
          PROVE  (x \in T /\ below(T, x) = i - 1) <=> (x \in S /\ below(S, x) = i - 1)
        <3>1. x \in T <=> x \in S \/ x = n
            OBVIOUS
        <3>2. i - 1 # c
            BY <1>1
        <3> HIDE DEF T
        <3> QED
            BY <1>1, <1>3, <1>4, <3>1, <3>2
    <2> HIDE DEF T
    <2>2. (CHOOSE x : x \in T /\ below(T, x) = i - 1) = (CHOOSE x : x \in S /\ below(S, x) = i - 1)
        BY <2>1
    <2>3. i \in 1 .. c + 1
        BY <1>1
    <2>4. Ascending(T)[i] = CHOOSE x \in T : below(T, x) = i - 1
        BY <1>5, <2>3
    <2>5. Ascending(S)[i] = CHOOSE x \in S : below(S, x) = i - 1
        BY <1>6
    <2> QED
        BY <2>2, <2>4, <2>5
<1>9. c + 1 \in Nat
    BY <1>1
<1> QED
    BY <1>2, <1>7, <1>8, <1>9 DEF c

(* The rows at the places of a set, in order. *)
RowsAt(rows, places) ==
    [i \in 1 .. Cardinality(places) |-> rows[Ascending(places)[i]]]
Hits(filter, rows, n) == {k \in 1 .. n : Accepts(filter, rows[k])}

LEMMA OneMoreRow ==
    ASSUME NEW R, NEW rows \in Seq(R), NEW places \in SUBSET Int, IsFiniteSet(places),
           RowsAt(rows, places) \in Seq(R), NEW k \in 1 .. Len(rows),
           \A j \in places : j < k
    PROVE  RowsAt(rows, places \cup {k}) = Append(RowsAt(rows, places), rows[k])
<1> DEFINE c == Cardinality(places)
           s == RowsAt(rows, places)
           t == RowsAt(rows, places \cup {k})
<1>1. c \in Nat
    BY FS_CardinalityType
<1>2. k \in Int /\ rows[k] \in R
    OBVIOUS
<1>3. /\ Cardinality(places \cup {k}) = c + 1
      /\ Ascending(places \cup {k})[c + 1] = k
      /\ \A i \in 1 .. c : Ascending(places \cup {k})[i] = Ascending(places)[i]
    BY <1>2, AscendingAppend
<1> HIDE DEF c
<1>4. t = [i \in 1 .. c + 1 |-> rows[Ascending(places \cup {k})[i]]]
    BY <1>3 DEF RowsAt
<1>5. s = [i \in 1 .. c |-> rows[Ascending(places)[i]]]
    BY DEF RowsAt, c
<1>6. Len(s) = c /\ s \in Seq(R)
    BY <1>1, <1>5
<1>7. Append(s, rows[k]) = [i \in 1 .. c + 1 |-> IF i <= c THEN s[i] ELSE rows[k]]
    BY <1>1, <1>2, <1>6
<1>8. ASSUME NEW i \in 1 .. c + 1
      PROVE  rows[Ascending(places \cup {k})[i]] = IF i <= c THEN s[i] ELSE rows[k]
    <2>1. CASE i <= c
        <3>1. i \in 1 .. c
            BY <1>1, <2>1
        <3> QED
            BY <1>3, <1>5, <2>1, <3>1
    <2>2. CASE ~(i <= c)
        <3>1. i = c + 1
            BY <1>1, <2>2
        <3> QED
            BY <1>3, <2>2, <3>1
    <2> QED
        BY <2>1, <2>2
<1> QED
    BY <1>4, <1>7, <1>8

(* What is kept of the rows are those the filter accepts, in their order. *)
LEMMA KeptInOrder ==
    ASSUME NEW R, NEW rows \in Seq(R), NEW filter
    PROVE  /\ Kept(filter, rows) = RowsAt(rows, Hits(filter, rows, Len(rows)))
           /\ Kept(filter, rows) \in Seq(R)
<1> DEFINE n == Len(rows)
           S == Seq(R)
           round(k, kept) == IF Accepts(filter, rows[k]) THEN Append(kept, rows[k]) ELSE kept
           body == [x \in (1 .. n) \X S |-> round(x[1], x[2])]
           values(f) == f = [k \in 0 .. n |-> IF k = 0 THEN <<>> ELSE round(k, f[k - 1])]
           original(f) ==
               f = [k \in 0 .. n |->
                       IF k = 0 THEN <<>>
                       ELSE IF Accepts(filter, rows[k]) THEN Append(f[k - 1], rows[k])
                       ELSE f[k - 1]]
<1>1. n \in Nat /\ <<>> \in S
    OBVIOUS
<1>2. ASSUME NEW k \in 1 .. n, NEW kept \in S PROVE round(k, kept) \in S
    OBVIOUS
<1>3. body \in [(1 .. n) \X S -> S]
    <2> HIDE DEF round, S, n
    <2> QED
        BY <1>2
<1>4. PICK g \in [0 .. n -> S] : Loop(n, <<>>, body, g)
    <2> HIDE DEF body, S, n
    <2> QED
        BY <1>1, <1>3, LoopExists
<1>5. values(g)
    <2>1. ASSUME NEW k \in 0 .. n, k # 0 PROVE body[<<k, g[k - 1]>>] = round(k, g[k - 1])
        <3> HIDE DEF round, S, n
        <3>1. k \in 1 .. n /\ k - 1 \in 0 .. n
            BY <1>1, <2>1
        <3>2. <<k, g[k - 1]>> \in (1 .. n) \X S
            BY <1>4, <3>1
        <3> QED
            BY <3>2
    <2>2. g = [k \in 0 .. n |-> IF k = 0 THEN <<>> ELSE body[<<k, g[k - 1]>>]]
        BY <1>4 DEF Loop
    <2> HIDE DEF round, S, n, body
    <2>3. [k \in 0 .. n |-> IF k = 0 THEN <<>> ELSE body[<<k, g[k - 1]>>]]
              = [k \in 0 .. n |-> IF k = 0 THEN <<>> ELSE round(k, g[k - 1])]
        BY <2>1
    <2> QED
        BY <2>2, <2>3
<1> DEFINE kept == CHOOSE f : original(f)
<1>6. original(kept)
    <2>1. original(g)
        BY <1>5
    <2> HIDE DEF original
    <2> QED
        BY <2>1
<1>7. Kept(filter, rows) = kept[n]
    BY DEF Kept
<1>8. kept[0] = <<>> /\ \A k \in 1 .. n : kept[k] = round(k, kept[k - 1])
    <2> HIDE DEF kept
    <2>1. values(kept)
        BY <1>6
    <2> HIDE DEF n, round, original
    <2>2. 0 \in 0 .. n /\ \A k \in 1 .. n : k \in 0 .. n /\ k # 0
        BY <1>1
    <2> QED
        BY <2>1, <2>2
<1> DEFINE T == {k \in Nat : k <= n =>
                    kept[k] \in S /\ kept[k] = RowsAt(rows, Hits(filter, rows, k))}
<1>9. 0 \in T
    <2>1. Hits(filter, rows, 0) = {}
        BY DEF Hits
    <2>2. Cardinality({}) = 0
        BY FS_EmptySet
    <2>3. RowsAt(rows, {}) = <<>>
        BY <2>2 DEF RowsAt
    <2> HIDE DEF kept
    <2> QED
        BY <1>1, <1>8, <2>1, <2>3
<1>10. ASSUME NEW k \in Nat, k \in T PROVE k + 1 \in T
    <2> SUFFICES ASSUME k + 1 <= n
                 PROVE  kept[k + 1] \in S /\ kept[k + 1] = RowsAt(rows, Hits(filter, rows, k + 1))
        OBVIOUS
    <2>1. k <= n /\ k + 1 \in 1 .. n /\ k + 1 - 1 = k
        BY <1>1
    <2>2. kept[k] \in S /\ kept[k] = RowsAt(rows, Hits(filter, rows, k))
        BY <1>10, <2>1
    <2> HIDE DEF kept, T
    <2>3. kept[k + 1] = round(k + 1, kept[k])
        BY <1>8, <2>1
    <2>4. kept[k + 1] \in S
        BY <1>2, <2>1, <2>2, <2>3
    <2>5. CASE Accepts(filter, rows[k + 1])
        <3>1. Hits(filter, rows, k + 1) = Hits(filter, rows, k) \cup {k + 1}
            BY <2>5 DEF Hits
        <3>2. /\ Hits(filter, rows, k) \in SUBSET Int
              /\ \A j \in Hits(filter, rows, k) : j < k + 1
            BY DEF Hits
        <3>3. IsFiniteSet(Hits(filter, rows, k))
            <4>1. 1 \in Int /\ k \in Int
                OBVIOUS
            <4>2. IsFiniteSet(1 .. k)
                BY <4>1, FS_Interval
            <4>3. Hits(filter, rows, k) \in SUBSET (1 .. k)
                BY DEF Hits
            <4> QED
                BY <4>2, <4>3, FS_Subset
        <3>4. RowsAt(rows, Hits(filter, rows, k) \cup {k + 1})
                  = Append(RowsAt(rows, Hits(filter, rows, k)), rows[k + 1])
            <4>1. RowsAt(rows, Hits(filter, rows, k)) \in Seq(R) /\ k + 1 \in 1 .. Len(rows)
                BY <2>1, <2>2
            <4> HIDE DEF S, n
            <4> QED
                BY <3>2, <3>3, <4>1, OneMoreRow
        <3> QED
            BY <2>2, <2>3, <2>4, <2>5, <3>1, <3>4
    <2>6. CASE ~Accepts(filter, rows[k + 1])
        <3>1. Hits(filter, rows, k + 1) = Hits(filter, rows, k)
            BY <2>6 DEF Hits
        <3> QED
            BY <2>2, <2>3, <2>4, <2>6, <3>1
    <2> QED
        BY <2>5, <2>6
<1>11. n \in T
    <2> HIDE DEF T
    <2>1. Nat \subseteq T
        BY <1>9, <1>10, AllNat
    <2> QED
        BY <1>1, <2>1
<1> QED
    BY <1>1, <1>7, <1>11

-----------------------------------------------------------------------------
(* Sequences one after the other *)

(* The values FlattenSeq goes through. *)
Flattening(seqs, flat) ==
    /\ flat[1] = seqs[1]
    /\ \A i \in 1 .. Len(seqs) - 1 : flat[i + 1] = flat[i] \o seqs[i + 1]
    /\ FlattenSeq(seqs) = flat[Len(seqs)]

LEMMA Flattens ==
    ASSUME NEW R, NEW seqs \in Seq(Seq(R)), seqs # <<>>
    PROVE  \E flat \in [1 .. Len(seqs) -> Seq(R)] : Flattening(seqs, flat)
<1> DEFINE n == Len(seqs)
           S == Seq(R)
           round(i, s) == IF i = 1 THEN seqs[i] ELSE s \o seqs[i]
           body == [x \in (1 .. n) \X S |-> round(x[1], x[2])]
           original(f) == f = [i \in 1 .. n |-> IF i = 1 THEN seqs[i] ELSE f[i - 1] \o seqs[i]]
<1>1. n \in Nat \ {0} /\ <<>> \in S
    OBVIOUS
<1>2. ASSUME NEW i \in 1 .. n, NEW s \in S PROVE round(i, s) \in S
    OBVIOUS
<1>3. body \in [(1 .. n) \X S -> S]
    <2> HIDE DEF round, S, n
    <2> QED
        BY <1>2
<1>4. PICK g \in [0 .. n -> S] : Loop(n, <<>>, body, g)
    <2> HIDE DEF body, S, n
    <2> QED
        BY <1>1, <1>3, LoopExists
<1> DEFINE f == [i \in 1 .. n |-> g[i]]
<1>5. original(f)
    <2>1. ASSUME NEW i \in 1 .. n PROVE g[i] = IF i = 1 THEN seqs[i] ELSE f[i - 1] \o seqs[i]
        <3> HIDE DEF S, n, round
        <3>1. /\ i \in 0 .. n /\ i # 0 /\ i - 1 \in 0 .. n
              /\ i # 1 => i - 1 \in 1 .. n
            BY <1>1
        <3>2. g[i] = body[<<i, g[i - 1]>>]
            BY <1>4, <3>1 DEF Loop
        <3>3. <<i, g[i - 1]>> \in (1 .. n) \X S
            BY <1>4, <3>1
        <3>4. g[i] = round(i, g[i - 1])
            BY <3>2, <3>3
        <3>5. i # 1 => f[i - 1] = g[i - 1]
            BY <3>1
        <3> QED
            BY <3>4, <3>5 DEF round
    <2> HIDE DEF n
    <2>2. f = [i \in 1 .. n |-> g[i]]
        OBVIOUS
    <2> HIDE DEF f
    <2> QED
        BY <2>1, <2>2
<1> DEFINE flat == CHOOSE h : original(h)
<1>6. original(flat)
    <2> HIDE DEF original, f
    <2> QED
        BY <1>5
<1>7. FlattenSeq(seqs) = flat[n]
    BY <1>1 DEF FlattenSeq
<1> HIDE DEF flat
<1>8. \A i \in 1 .. n : flat[i] = IF i = 1 THEN seqs[i] ELSE flat[i - 1] \o seqs[i]
    <2> HIDE DEF n
    <2> QED
        BY <1>6
<1> DEFINE T == {i \in Nat : i \in 1 .. n => flat[i] \in S}
<1>9. 0 \in T
    OBVIOUS
<1>10. ASSUME NEW i \in Nat, i \in T PROVE i + 1 \in T
    <2> SUFFICES ASSUME i + 1 \in 1 .. n PROVE flat[i + 1] \in S
        OBVIOUS
    <2>1. seqs[i + 1] \in S
        OBVIOUS
    <2>2. i + 1 # 1 => i \in 1 .. n /\ i + 1 - 1 = i
        BY <1>1
    <2>3. i + 1 # 1 => flat[i] \in S
        BY <1>10, <2>2
    <2>4. flat[i + 1] = IF i + 1 = 1 THEN seqs[i + 1] ELSE flat[i] \o seqs[i + 1]
        BY <1>8, <2>2
    <2> HIDE DEF T, n
    <2> QED
        BY <2>1, <2>3, <2>4
<1>11. \A i \in 1 .. n : flat[i] \in S
    <2>1. Nat \subseteq T
        <3> HIDE DEF T
        <3> QED
            BY <1>9, <1>10, AllNat
    <2> HIDE DEF n, S
    <2> QED
        BY <1>1, <2>1
<1>12. flat = [i \in 1 .. n |-> flat[i]]
    <2> HIDE DEF n
    <2> QED
        BY <1>6
<1>13. flat \in [1 .. n -> S]
    <2> HIDE DEF n, S
    <2> QED
        BY <1>11, <1>12
<1>14. flat[1] = seqs[1]
    <2> HIDE DEF n
    <2> QED
        BY <1>1, <1>8
<1>15. ASSUME NEW i \in 1 .. n - 1 PROVE flat[i + 1] = flat[i] \o seqs[i + 1]
    <2> DEFINE j == i + 1
    <2>1. j \in 1 .. n /\ j # 1 /\ j - 1 = i
        BY <1>1
    <2>2. flat[j] = flat[j - 1] \o seqs[j]
        <3> HIDE DEF j, n
        <3> QED
            BY <1>8, <2>1
    <2> HIDE DEF n
    <2> QED
        BY <2>1, <2>2
<1> QED
    BY <1>7, <1>13, <1>14, <1>15 DEF Flattening

(* Of a sequence and empty ones the sequence is left. *)
LEMMA FlattenFirst ==
    ASSUME NEW R, NEW seqs \in Seq(Seq(R)), seqs # <<>>,
           \A i \in 2 .. Len(seqs) : seqs[i] = <<>>
    PROVE  FlattenSeq(seqs) = seqs[1]
<1>1. PICK flat \in [1 .. Len(seqs) -> Seq(R)] : Flattening(seqs, flat)
    BY Flattens
<1> DEFINE n == Len(seqs)
           T == {i \in Nat : i \in 1 .. n => flat[i] = seqs[1]}
<1>2. n \in Nat \ {0}
    OBVIOUS
<1>3. 0 \in T
    OBVIOUS
<1>4. flat[1] = seqs[1] /\ \A i \in 1 .. n - 1 : flat[i + 1] = flat[i] \o seqs[i + 1]
    BY <1>1 DEF Flattening
<1>5. ASSUME NEW i \in Nat, i \in T PROVE i + 1 \in T
    <2> SUFFICES ASSUME i + 1 \in 1 .. n PROVE flat[i + 1] = seqs[1]
        OBVIOUS
    <2>1. i + 1 # 1 => i \in 1 .. n - 1 /\ i + 1 \in 2 .. n
        BY <1>2
    <2>2. CASE i + 1 = 1
        BY <1>4, <2>2
    <2>3. CASE i + 1 # 1
        <3>1. flat[i] = seqs[1] /\ seqs[i + 1] = <<>>
            BY <1>5, <2>1, <2>3
        <3>2. seqs[1] \in Seq(R)
            OBVIOUS
        <3>3. seqs[1] \o <<>> = seqs[1]
            BY <3>2
        <3> QED
            BY <1>4, <2>1, <2>3, <3>1, <3>3
    <2> QED
        BY <2>2, <2>3
<1>6. n \in T
    <2>1. Nat \subseteq T
        <3> HIDE DEF T
        <3> QED
            BY <1>3, <1>5, AllNat
    <2> HIDE DEF T
    <2> QED
        BY <1>2, <2>1
<1> QED
    BY <1>1, <1>2, <1>6 DEF Flattening

(* The elements of two sequences one after the other. *)
LEMMA Concatenated ==
    ASSUME NEW R, NEW s \in Seq(R), NEW t \in Seq(R),
           NEW a, a = Len(s), NEW b, b = Len(t)
    PROVE  /\ s \o t \in Seq(R) /\ Len(s \o t) = a + b
           /\ \A k \in 1 .. a + b : (s \o t)[k] = IF k <= a THEN s[k] ELSE t[k - a]
OBVIOUS

(* Quotient and remainder of a number that is given by both. *)
LEMMA DivMod ==
    ASSUME NEW m \in Nat \ {0}, NEW i \in Nat, NEW r \in 0 .. m - 1
    PROVE  (i * m + r) \div m = i /\ (i * m + r) % m = r
OBVIOUS

(* Of sequences of m elements each, element number r of the i-th one comes *)
(* at place i * m + r, counted from 0.                                     *)
Rectangle(seqs, n, m, flat) ==
    flat = [k \in 1 .. n * m |-> seqs[((k - 1) \div m) + 1][((k - 1) % m) + 1]]

LEMMA FlattenRectangle ==
    ASSUME NEW R, NEW n \in Nat \ {0}, NEW m \in Nat, NEW seqs \in [1 .. n -> [1 .. m -> R]]
    PROVE  Rectangle(seqs, n, m, FlattenSeq(seqs))
<1>1. \A i \in 1 .. n : seqs[i] \in Seq(R) /\ Len(seqs[i]) = m
    OBVIOUS
<1>2. seqs \in Seq(Seq(R)) /\ Len(seqs) = n /\ seqs # <<>>
    BY <1>1
<1>3. PICK flat \in [1 .. n -> Seq(R)] : Flattening(seqs, flat)
    BY <1>2, Flattens
<1>4. flat[1] = seqs[1] /\ \A i \in 1 .. n - 1 : flat[i + 1] = flat[i] \o seqs[i + 1]
    BY <1>2, <1>3 DEF Flattening
<1> DEFINE cell(k) == seqs[((k - 1) \div m) + 1][((k - 1) % m) + 1]
           rows(i) == [k \in 1 .. i * m |-> cell(k)]
           T == {i \in Nat : i \in 1 .. n => flat[i] = rows(i)}
<1>5. 0 \in T
    OBVIOUS
<1>6. ASSUME NEW i \in Nat, i + 1 \in 1 .. n, NEW k \in 1 .. (i + 1) * m, k > i * m
      PROVE  k - i * m \in 1 .. m /\ cell(k) = seqs[i + 1][k - i * m]
    <2> DEFINE r == k - 1 - i * m
    <2>1. i * m \in Nat /\ (i + 1) * m = i * m + m /\ k \in Nat
        OBVIOUS
    <2>2. /\ r \in 0 .. m - 1 /\ m # 0
          /\ k - 1 = i * m + r /\ r + 1 = k - i * m
        BY <1>6, <2>1
    <2> HIDE DEF r
    <2>3. (k - 1) \div m = i /\ (k - 1) % m = r
        BY <2>2, DivMod
    <2>4. k - i * m \in 1 .. m
        BY <2>2
    <2> QED
        BY <2>2, <2>3, <2>4
<1>7. ASSUME NEW i \in Nat, i \in T PROVE i + 1 \in T
    <2> SUFFICES ASSUME i + 1 \in 1 .. n PROVE flat[i + 1] = rows(i + 1)
        OBVIOUS
    <2>1. i # 0 => i \in 1 .. n /\ i \in 1 .. n - 1
        OBVIOUS
    <2>3. i * m \in Nat /\ (i + 1) * m = i * m + m
        OBVIOUS
    <2>4. CASE i = 0
        <3>1. seqs[1] = [k \in 1 .. m |-> seqs[1][k]]
            OBVIOUS
        <3>2. ASSUME NEW k \in 1 .. m PROVE cell(k) = seqs[1][k]
            <4>1. k \in 1 .. (i + 1) * m /\ k > i * m /\ k - i * m = k /\ i + 1 = 1
                BY <2>3, <2>4
            <4> HIDE DEF cell
            <4> QED
                BY <1>6, <4>1
        <3> HIDE DEF cell
        <3>3. (i + 1) * m = m
            BY <2>3, <2>4
        <3>4. rows(i + 1) = [k \in 1 .. m |-> cell(k)]
            BY <3>3
        <3>5. flat[1] = [k \in 1 .. m |-> cell(k)] /\ i + 1 = 1
            BY <1>4, <2>4, <3>1, <3>2
        <3> HIDE DEF rows
        <3> QED
            BY <3>4, <3>5
    <2>5. CASE i # 0
        <3>1. flat[i] = rows(i) /\ flat[i] \in Seq(R)
            BY <1>7, <2>1, <2>5
        <3>2. Len(flat[i]) = i * m
            BY <2>3, <3>1
        <3>3. flat[i] \o seqs[i + 1]
                  = [k \in 1 .. i * m + m |-> IF k <= i * m THEN flat[i][k]
                                              ELSE seqs[i + 1][k - i * m]]
            <4> HIDE DEF rows, T
            <4>1. seqs[i + 1] \in Seq(R) /\ Len(seqs[i + 1]) = m
                BY <1>1
            <4> DEFINE d == i * m
                       s == flat[i]
                       t == seqs[i + 1]
            <4>2. s \in Seq(R) /\ d = Len(s) /\ t \in Seq(R) /\ m = Len(t)
                BY <3>1, <3>2, <4>1
            <4> HIDE DEF d, s, t
            <4> DEFINE u == s \o t
            <4>3. u \in Seq(R) /\ Len(u) = d + m
                BY <4>2, Concatenated
            <4>4. \A k \in 1 .. d + m : u[k] = IF k <= d THEN s[k] ELSE t[k - d]
                BY <4>2, Concatenated
            <4> HIDE DEF u
            <4>5. u = [k \in 1 .. d + m |-> u[k]]
                BY <4>3
            <4>6. u = [k \in 1 .. d + m |-> IF k <= d THEN s[k] ELSE t[k - d]]
                BY <4>4, <4>5
            <4> QED
                BY <4>6 DEF d, s, t, u
        <3>4. ASSUME NEW k \in 1 .. i * m + m
              PROVE  cell(k) = IF k <= i * m THEN flat[i][k] ELSE seqs[i + 1][k - i * m]
            <4>1. k <= i * m => k \in 1 .. i * m
                BY <2>3
            <4>2. ~(k <= i * m) => k > i * m
                BY <2>3
            <4> HIDE DEF cell, T
            <4> QED
                BY <1>6, <2>3, <3>1, <4>1, <4>2
        <3>5. flat[i + 1] = [k \in 1 .. i * m + m |-> cell(k)]
            <4> HIDE DEF cell, T
            <4> QED
                BY <1>4, <2>1, <2>5, <3>3, <3>4
        <3> HIDE DEF cell, T
        <3> QED
            BY <2>3, <3>5
    <2> QED
        BY <2>4, <2>5
<1>8. n \in T
    <2>1. Nat \subseteq T
        <3> HIDE DEF T
        <3> QED
            BY <1>5, <1>7, AllNat
    <2> HIDE DEF T
    <2> QED
        BY <2>1
<1> QED
    BY <1>2, <1>3, <1>8 DEF Flattening, Rectangle

-----------------------------------------------------------------------------
(* The setters: what a builder is told by the calls 1 .. k *)

LastCall(setter, calls, k, j) ==
    /\ j \in 1 .. k /\ calls[j][1] = setter
    /\ \A i \in 1 .. k : i > j => calls[i][1] # setter
FirstCall(setter, calls, k, j) ==
    /\ j \in 1 .. k /\ calls[j][1] = setter
    /\ \A i \in 1 .. k : i < j => calls[i][1] # setter
Silent(setter, calls, k) == \A i \in 1 .. k : calls[i][1] # setter

(* The last filter. *)
FilterSet(calls, k, o) ==
    /\ Silent("filter", calls, k) => o.filter = NULL
    /\ \A j : LastCall("filter", calls, k, j) => o.filter = calls[j][2]

(* The last projection of the caller, or else the first of the engine. *)
SchemaSet(calls, k, o) ==
    /\ \A j : LastCall("project", calls, k, j) => o.schema = calls[j][2]
    /\ Silent("project", calls, k) =>
          /\ Silent("engineProjection", calls, k) => o.schema = NULL
          /\ \A j : FirstCall("engineProjection", calls, k, j) => o.schema = calls[j][2]

Projects(calls) ==
    \A k \in 1 .. Len(calls) :
        calls[k][1] \in {"project", "engineProjection"} => calls[k][2] # NULL

LEMMA NextCall ==
    ASSUME NEW calls, NEW k \in Nat, k + 1 \in 1 .. Len(calls), Projects(calls),
           NEW U, NEW o \in [schema : U, filter : U, start : U], calls[k + 1][2] \in U,
           FilterSet(calls, k, o), SchemaSet(calls, k, o),
           NEW p, p = Set(o, calls[k + 1])
    PROVE  /\ p \in [schema : U, filter : U, start : U]
           /\ FilterSet(calls, k + 1, p) /\ SchemaSet(calls, k + 1, p)
<1> DEFINE call == calls[k + 1]
<1>1. /\ call[1] = "project" => p = [o EXCEPT !.schema = call[2]]
      /\ call[1] = "engineProjection" =>
            p = IF o.schema = NULL THEN [o EXCEPT !.schema = call[2]] ELSE o
      /\ call[1] = "filter" => p = [o EXCEPT !.filter = call[2]]
      /\ call[1] = "split" => p = [o EXCEPT !.start = call[2]]
      /\ call[1] \notin {"project", "engineProjection", "filter", "split"} => p = o
    BY DEF Set
<1>2. p \in [schema : U, filter : U, start : U]
    BY <1>1
<1>3. /\ p.filter = IF call[1] = "filter" THEN call[2] ELSE o.filter
      /\ p.schema = IF call[1] = "project" THEN call[2]
                    ELSE IF call[1] = "engineProjection" /\ o.schema = NULL THEN call[2]
                    ELSE o.schema
    BY <1>1
<1>4. \A i : i \in 1 .. k + 1 <=> i \in 1 .. k \/ i = k + 1
    OBVIOUS
<1>5. \A i \in 1 .. k : i # k + 1 /\ i < k + 1 /\ ~(i > k + 1)
    OBVIOUS
<1>6. FilterSet(calls, k + 1, p)
    <2>1. CASE call[1] = "filter"
        <3>1. ~Silent("filter", calls, k + 1)
            BY <1>4, <2>1 DEF Silent
        <3>2. ASSUME NEW j, LastCall("filter", calls, k + 1, j) PROVE j = k + 1
            BY <1>4, <1>5, <2>1, <3>2 DEF LastCall
        <3> QED
            BY <1>3, <2>1, <3>1, <3>2 DEF FilterSet
    <2>2. CASE call[1] # "filter"
        <3>1. Silent("filter", calls, k + 1) => Silent("filter", calls, k)
            BY <1>4 DEF Silent
        <3>2. ASSUME NEW j, LastCall("filter", calls, k + 1, j)
              PROVE  LastCall("filter", calls, k, j)
            BY <1>4, <2>2, <3>2 DEF LastCall
        <3> QED
            BY <1>3, <2>2, <3>1, <3>2 DEF FilterSet
    <2> QED
        BY <2>1, <2>2
<1>7. SchemaSet(calls, k + 1, p)
    <2>1. ASSUME NEW setter
          PROVE  Silent(setter, calls, k + 1) <=> Silent(setter, calls, k) /\ call[1] # setter
        BY <1>4 DEF Silent
    <2>2. ASSUME NEW setter, NEW j, LastCall(setter, calls, k + 1, j)
          PROVE  IF call[1] = setter THEN j = k + 1 ELSE LastCall(setter, calls, k, j)
        BY <1>4, <1>5, <2>2 DEF LastCall
    <2>3. ASSUME NEW setter, NEW j, FirstCall(setter, calls, k + 1, j)
          PROVE  IF Silent(setter, calls, k) THEN j = k + 1 ELSE FirstCall(setter, calls, k, j)
        BY <1>4, <1>5, <2>3 DEF FirstCall, Silent
    <2>4. ASSUME Silent("project", calls, k), ~Silent("engineProjection", calls, k)
          PROVE  o.schema # NULL
        <3> DEFINE J == {i \in Nat : i \in 1 .. k /\ calls[i][1] = "engineProjection"}
        <3>1. PICK j \in J : \A i \in J : j <= i
            <4>1. J \in SUBSET Nat /\ J # {}
                BY <2>4 DEF Silent
            <4> HIDE DEF J
            <4> QED
                BY <4>1, LeastNat
        <3>2. FirstCall("engineProjection", calls, k, j)
            BY <3>1 DEF FirstCall
        <3>3. calls[j][2] # NULL
            BY <3>1 DEF Projects
        <3> QED
            BY <2>4, <3>2, <3>3 DEF SchemaSet
    <2>5. ASSUME NEW j, LastCall("project", calls, k + 1, j) PROVE p.schema = calls[j][2]
        <3>1. CASE call[1] = "project"
            BY <1>3, <2>2, <2>5, <3>1
        <3>2. CASE call[1] # "project"
            <4>1. LastCall("project", calls, k, j)
                BY <2>2, <2>5, <3>2
            <4>2. o.schema = calls[j][2] /\ calls[j][2] # NULL
                BY <4>1 DEF SchemaSet, LastCall, Projects
            <4> QED
                BY <1>3, <3>2, <4>2
        <3> QED
            BY <3>1, <3>2
    <2>6. ASSUME Silent("project", calls, k + 1)
          PROVE  /\ Silent("engineProjection", calls, k + 1) => p.schema = NULL
                 /\ \A j : FirstCall("engineProjection", calls, k + 1, j) => p.schema = calls[j][2]
        <3>1. Silent("project", calls, k) /\ call[1] # "project"
            BY <2>1, <2>6
        <3>2. CASE Silent("engineProjection", calls, k)
            <4>1. o.schema = NULL
                BY <3>1, <3>2 DEF SchemaSet
            <4>2. \A j : FirstCall("engineProjection", calls, k + 1, j) =>
                             j = k + 1 /\ call[1] = "engineProjection"
                BY <2>3, <3>2 DEF FirstCall
            <4> QED
                BY <1>3, <2>1, <3>1, <4>1, <4>2
        <3>3. CASE ~Silent("engineProjection", calls, k)
            <4>1. o.schema # NULL
                BY <2>4, <3>1, <3>3
            <4>2. p.schema = o.schema
                BY <1>3, <3>1, <4>1
            <4>3. ~Silent("engineProjection", calls, k + 1)
                BY <2>1, <3>3
            <4>4. \A j : FirstCall("engineProjection", calls, k + 1, j) => o.schema = calls[j][2]
                BY <2>3, <3>1, <3>3 DEF SchemaSet
            <4> QED
                BY <4>2, <4>3, <4>4
        <3> QED
            BY <3>2, <3>3
    <2> QED
        BY <2>5, <2>6 DEF SchemaSet
<1> QED
    BY <1>2, <1>6, <1>7

(* The fields of a builder that is told its request and its split. *)
SetAs(o, b) ==
    /\ o.start = plan[b] /\ o.filter = Filter
    /\ o.schema # NULL => o.schema = Schema

(* Of the calls that set something, Filter and Schema name the one that    *)
(* counts.                                                                 *)
LEMMA SetterFound ==
    ASSUME request \in Seq(ToSet(request)), NEW setter, CallsOf(setter) # {}
    PROVE  /\ LastCall(setter, request, Len(request), Max(CallsOf(setter)))
           /\ FirstCall(setter, request, Len(request), Min(CallsOf(setter)))
<1> DEFINE n == Len(request)
           C == CallsOf(setter)
<1>1. n \in Nat /\ C = {k \in 1 .. n : request[k][1] = setter}
    BY DEF CallsOf
<1>2. C \in SUBSET Nat /\ C # {} /\ \A k \in C : k <= n
    BY <1>1
<1>3. \A k : k \in C <=> k \in 1 .. n /\ request[k][1] = setter
    BY <1>1
<1> HIDE DEF C, n
<1>4. PICK i \in C : \A k \in C : i <= k
    BY <1>2, LeastNat
<1>5. PICK j \in C : \A k \in C : k <= j
    BY <1>1, <1>2, GreatestNat
<1>6. Min(C) \in C /\ \A k \in C : Min(C) <= k
    BY <1>4 DEF Min
<1>7. Max(C) \in C /\ \A k \in C : Max(C) >= k
    BY <1>2, <1>5 DEF Max
<1> DEFINE first == Min(C)
           last == Max(C)
<1>8. /\ first \in C /\ \A k \in C : first <= k
      /\ last \in C /\ \A k \in C : last >= k
    BY <1>6, <1>7
<1> HIDE DEF first, last
<1>9. LastCall(setter, request, n, last)
    BY <1>1, <1>3, <1>8 DEF LastCall
<1>10. FirstCall(setter, request, n, first)
    BY <1>1, <1>3, <1>8 DEF FirstCall
<1> QED
    BY <1>9, <1>10 DEF C, n, first, last

LEMMA BuilderIsSet ==
    ASSUME request \in Requests, NEW b
    PROVE  SetAs(SetAll(b), b)
<1> DEFINE calls == Append(request, <<"split", plan[b]>>)
           l == Len(request)
           n == Len(calls)
           U == {NULL, 0} \cup {calls[k][2] : k \in 1 .. n}
           S == [schema : U, filter : U, start : U]
           body == [x \in (1 .. n) \X S |-> Set(x[2], calls[x[1]])]
           original(f) == f = [k \in 0 .. n |-> IF k = 0 THEN NoOpts ELSE Set(f[k - 1], calls[k])]
<1>1. request \in Seq(ToSet(request)) /\ Projects(request)
    BY RequestsAssumption DEF Projects
<1>2. l \in Nat /\ n \in Nat /\ n = l + 1
    BY <1>1
<1>3. \A k \in 1 .. l : calls[k] = request[k]
    BY <1>1
<1>4. calls[n] = <<"split", plan[b]>>
    BY <1>1
<1>5. Projects(calls)
    <2> SUFFICES ASSUME NEW k \in 1 .. n, calls[k][1] \in {"project", "engineProjection"}
                 PROVE  calls[k][2] # NULL
        BY DEF Projects
    <2> HIDE DEF calls, n, l
    <2>1. k # n
        BY <1>4
    <2>2. k \in 1 .. l
        BY <1>2, <2>1
    <2> QED
        BY <1>1, <1>3, <2>2 DEF Projects, l
<1> HIDE DEF calls, l
<1>6. NoOpts \in S
    BY DEF NoOpts
<1>7. FilterSet(calls, 0, NoOpts) /\ SchemaSet(calls, 0, NoOpts)
    BY DEF FilterSet, SchemaSet, NoOpts, Silent, LastCall, FirstCall
<1>8. ASSUME NEW k \in 1 .. n, NEW o \in S PROVE Set(o, calls[k]) \in S
    <2>1. calls[k][2] \in U
        OBVIOUS
    <2> HIDE DEF U
    <2> QED
        BY <2>1 DEF Set
<1>9. body \in [(1 .. n) \X S -> S]
    <2> HIDE DEF S, n
    <2> QED
        BY <1>8
<1>10. PICK g \in [0 .. n -> S] : Loop(n, NoOpts, body, g)
    <2> HIDE DEF S, n, body
    <2> QED
        BY <1>2, <1>6, <1>9, LoopExists
<1>11. original(g)
    <2>1. ASSUME NEW k \in 0 .. n, k # 0 PROVE body[<<k, g[k - 1]>>] = Set(g[k - 1], calls[k])
        <3> HIDE DEF S, n
        <3>1. k \in 1 .. n /\ k - 1 \in 0 .. n
            BY <1>2, <2>1
        <3>2. <<k, g[k - 1]>> \in (1 .. n) \X S
            BY <1>10, <3>1
        <3> QED
            BY <3>2
    <2>2. g = [k \in 0 .. n |-> IF k = 0 THEN NoOpts ELSE body[<<k, g[k - 1]>>]]
        BY <1>10 DEF Loop
    <2> HIDE DEF S, n, body
    <2>3. [k \in 0 .. n |-> IF k = 0 THEN NoOpts ELSE body[<<k, g[k - 1]>>]]
              = [k \in 0 .. n |-> IF k = 0 THEN NoOpts ELSE Set(g[k - 1], calls[k])]
        BY <2>1
    <2> QED
        BY <2>2, <2>3
<1> DEFINE after == CHOOSE f : original(f)
<1>12. original(after)
    <2> HIDE DEF original
    <2> QED
        BY <1>11
<1>13. SetAll(b) = after[n]
    BY DEF SetAll, calls
<1> HIDE DEF after
<1>14. after[0] = NoOpts /\ \A k \in 1 .. n : after[k] = Set(after[k - 1], calls[k])
    <2> HIDE DEF n
    <2>1. 0 \in 0 .. n /\ \A k \in 1 .. n : k \in 0 .. n /\ k # 0
        BY <1>2
    <2> QED
        BY <1>12, <2>1
<1> DEFINE T == {k \in Nat : k <= n =>
                    after[k] \in S /\ FilterSet(calls, k, after[k]) /\ SchemaSet(calls, k, after[k])}
<1>15. 0 \in T
    BY <1>6, <1>7, <1>14
<1>16. ASSUME NEW k \in Nat, k \in T PROVE k + 1 \in T
    <2> SUFFICES ASSUME k + 1 <= n
                 PROVE  /\ after[k + 1] \in S
                        /\ FilterSet(calls, k + 1, after[k + 1])
                        /\ SchemaSet(calls, k + 1, after[k + 1])
        OBVIOUS
    <2>1. k <= n /\ k + 1 \in 1 .. n /\ k + 1 - 1 = k
        BY <1>2
    <2>2. after[k + 1] = Set(after[k], calls[k + 1])
        BY <1>14, <2>1
    <2>3. calls[k + 1][2] \in U
        BY <2>1
    <2>4. after[k] \in S /\ FilterSet(calls, k, after[k]) /\ SchemaSet(calls, k, after[k])
        BY <1>16, <2>1
    <2> HIDE DEF U
    <2> QED
        BY <1>5, <2>1, <2>2, <2>3, <2>4, NextCall
<1>17. l \in T /\ n \in T
    <2>1. Nat \subseteq T
        <3> HIDE DEF T
        <3> QED
            BY <1>15, <1>16, AllNat
    <2> HIDE DEF T
    <2> QED
        BY <1>2, <2>1
<1>18. after[l] \in S /\ FilterSet(calls, l, after[l]) /\ SchemaSet(calls, l, after[l])
    BY <1>2, <1>17
<1>19. after[n] = [after[l] EXCEPT !.start = plan[b]]
    <2>1. after[n] = Set(after[l], calls[n])
        <3> HIDE DEF n
        <3>1. n \in 1 .. n /\ n - 1 = l
            BY <1>2
        <3> QED
            BY <1>14, <3>1
    <2> HIDE DEF n
    <2> QED
        BY <1>4, <2>1 DEF Set
<1> HIDE DEF n, T
<1>20. after[n].start = plan[b] /\ after[n].filter = after[l].filter /\ after[n].schema = after[l].schema
    BY <1>18, <1>19
<1>21. /\ \A setter : Silent(setter, calls, l) <=> CallsOf(setter) = {}
       /\ \A setter : CallsOf(setter) # {} =>
              /\ LastCall(setter, calls, l, Max(CallsOf(setter)))
              /\ FirstCall(setter, calls, l, Min(CallsOf(setter)))
    <2>1. DOMAIN request = 1 .. l
        BY <1>1 DEF l
    <2>2. \A setter : Silent(setter, calls, l) <=> CallsOf(setter) = {}
        BY <1>3, <2>1 DEF Silent, CallsOf
    <2>3. ASSUME NEW setter, CallsOf(setter) # {}
          PROVE  /\ LastCall(setter, calls, l, Max(CallsOf(setter)))
                 /\ FirstCall(setter, calls, l, Min(CallsOf(setter)))
        <3>1. /\ LastCall(setter, request, l, Max(CallsOf(setter)))
              /\ FirstCall(setter, request, l, Min(CallsOf(setter)))
            BY <1>1, <2>3, SetterFound DEF l
        <3> QED
            BY <1>3, <3>1 DEF LastCall, FirstCall
    <2> QED
        BY <2>2, <2>3
<1>22. after[l].filter = Filter
    <2>1. CASE CallsOf("filter") = {}
        BY <1>18, <1>21, <2>1 DEF Filter, FilterSet
    <2>2. CASE CallsOf("filter") # {}
        <3> DEFINE j == Max(CallsOf("filter"))
        <3>1. LastCall("filter", calls, l, j)
            BY <1>21, <2>2
        <3> HIDE DEF j
        <3>2. after[l].filter = calls[j][2] /\ calls[j] = request[j]
            BY <1>3, <1>18, <3>1 DEF FilterSet, LastCall
        <3> QED
            BY <2>2, <3>2 DEF Filter, j
    <2> QED
        BY <2>1, <2>2
<1>23. after[l].schema # NULL => after[l].schema = Schema
    <2>1. CASE CallsOf("project") # {}
        <3> DEFINE j == Max(CallsOf("project"))
        <3>1. LastCall("project", calls, l, j)
            BY <1>21, <2>1
        <3> HIDE DEF j
        <3>2. after[l].schema = calls[j][2] /\ calls[j] = request[j]
            BY <1>3, <1>18, <3>1 DEF SchemaSet, LastCall
        <3> QED
            BY <2>1, <3>2 DEF Schema, j
    <2>2. CASE CallsOf("project") = {}
        <3>1. CASE CallsOf("engineProjection") = {}
            BY <1>18, <1>21, <2>2, <3>1 DEF SchemaSet
        <3>2. CASE CallsOf("engineProjection") # {}
            <4> DEFINE j == Min(CallsOf("engineProjection"))
            <4>1. FirstCall("engineProjection", calls, l, j)
                BY <1>21, <3>2
            <4> HIDE DEF j
            <4>2. after[l].schema = calls[j][2] /\ calls[j] = request[j]
                BY <1>3, <1>18, <1>21, <2>2, <4>1 DEF SchemaSet, FirstCall
            <4> QED
                BY <2>2, <4>2 DEF Schema, j
        <3> QED
            BY <3>1, <3>2
    <2> QED
        BY <2>1, <2>2
<1> QED
    BY <1>13, <1>20, <1>22, <1>23 DEF SetAs

-----------------------------------------------------------------------------
(* The builds of a scan.  From its setters to its end a build goes by the  *)
(* same split, filter and projection, and by the same file; a split after  *)
(* the first never reads, and only a build that has read has rows.         *)

Written ==
    file # NULL => source \in Sources /\ ~RefusedSource(source) /\ file = FileOf(source)
Planned ==
    /\ plan # <<>> => plan \in Plans /\ request \in Requests /\ file # NULL
    /\ DOMAIN pc = Splits /\ DOMAIN opts = Splits /\ out = [b \in Splits |-> out[b]]

RowsOf(b) == IF plan[b] > 0 THEN <<>> ELSE Kept(Filter, RowsRead(b))

BuildReads(b) ==
    /\ pc[b] # "new" => SetAs(opts[b], b)
    /\ pc[b] \in Copying \cup {"read", "cleanup"}
          => opts[b].schema # NULL /\ ~(plan[b] > 0)
    /\ out[b] # NULL =>
          /\ pc[b] \in {"cleanup", "done"} /\ opts[b].schema # NULL
          /\ out[b] = RowsOf(b) /\ (~(plan[b] > 0) => Readable(b))
    /\ pc[b] = "done" => out[b] # NULL

RInv == Written /\ Planned /\ \A b \in Splits : BuildReads(b)

(* What a build reads is in the file and its own fields. *)
LEMMA ReadsOn ==
    ASSUME NEW b, UNCHANGED <<file, plan, request>>, opts'[b] = opts[b]
    PROVE  /\ Readable(b)' = Readable(b) /\ RowsOf(b)' = RowsOf(b)
           /\ \A o : SetAs(o, b)' = SetAs(o, b)
<1>1. Filter' = Filter /\ Schema' = Schema
    BY DEF Filter, Schema, CallsOf
<1>2. RowsRead(b)' = RowsRead(b)
    BY DEF RowsRead, SignalFile
<1>3. Readable(b)' = Readable(b)
    BY DEF Readable, SignalFile
<1>4. RowsOf(b)' = RowsOf(b)
    BY <1>1, <1>2 DEF RowsOf
<1> QED
    BY <1>1, <1>3, <1>4 DEF SetAs

LEMMA InitReads == Init => RInv
BY DEF Init, RInv, Written, Planned, Splits

LEMMA WriteReads ==
    ASSUME RInv, Write
    PROVE  RInv'
<1> USE DEF RInv, Write, scan, local
<1>1. Written'
    BY DEF Written
<1>2. plan = <<>> /\ Splits' = {}
    BY DEF Planned, Splits
<1>3. Planned'
    BY <1>2 DEF Planned, Splits
<1> QED
    BY <1>1, <1>2, <1>3

LEMMA PlanReads ==
    ASSUME RInv, Plan
    PROVE  RInv'
<1> USE DEF RInv, Plan, written
<1>1. Written'
    BY DEF Written, RefusedSource, FileOf
<1>2. Planned'
    BY DEF Planned, Splits
<1>3. \A b \in Splits' : BuildReads(b)'
    BY DEF BuildReads, Copying, Splits
<1> QED
    BY <1>1, <1>2, <1>3

(* A step that concerns the fields and rows of one build at most. *)
LEMMA ReadsApart ==
    ASSUME RInv, NEW b \in Splits, UNCHANGED <<source, file, plan, request>>,
           DOMAIN pc' = Splits /\ DOMAIN opts' = Splits /\ out' = [c \in Splits |-> out'[c]],
           \A c \in Splits \ {b} :
               pc'[c] = pc[c] /\ opts'[c] = opts[c] /\ out'[c] = out[c],
           BuildReads(b)'
    PROVE  RInv'
<1>1. Written'
    BY DEF RInv, Written, RefusedSource, FileOf
<1>2. Planned'
    BY DEF RInv, Planned, Splits
<1>3. ASSUME NEW c \in Splits \ {b} PROVE BuildReads(c)'
    <2>1. /\ Readable(c)' = Readable(c) /\ RowsOf(c)' = RowsOf(c)
          /\ \A o : SetAs(o, c)' = SetAs(o, c)
        BY <1>3, ReadsOn
    <2> QED
        BY <1>3, <2>1 DEF RInv, BuildReads
<1> QED
    BY <1>1, <1>2, <1>3 DEF RInv, Splits

LEMMA ConfigureReads ==
    ASSUME RInv, NEW b \in Splits, Configure(b)
    PROVE  RInv'
<1> USE DEF Configure, written, scan
<1>1. request \in Requests
    <2>1. plan # <<>>
        BY DEF Splits
    <2> QED
        BY <2>1 DEF RInv, Planned
<1>2. SetAs(SetAll(b), b)
    BY <1>1, BuilderIsSet
<1>3. \A o : SetAs(o, b)' = SetAs(o, b)
    BY DEF SetAs, Filter, Schema, CallsOf
<1>4. out[b] = NULL
    BY DEF RInv, BuildReads
<1>5. /\ pc'[b] = "build" /\ opts'[b] = SetAll(b) /\ out' = out
      /\ DOMAIN pc' = Splits /\ DOMAIN opts' = Splits /\ out' = [c \in Splits |-> out'[c]]
    BY DEF RInv, Planned, Goto
<1>6. BuildReads(b)'
    BY <1>2, <1>3, <1>4, <1>5 DEF BuildReads, Copying
<1>7. \A c \in Splits \ {b} : pc'[c] = pc[c] /\ opts'[c] = opts[c] /\ out'[c] = out[c]
    BY DEF RInv, Planned, Goto
<1> QED
    BY <1>5, <1>6, <1>7, ReadsApart

(* A step after the setters. *)
LEMMA ReadsOnward ==
    ASSUME RInv, NEW b \in Splits, NEW step,
           Goto(b, step), UNCHANGED <<source, file, plan, request, opts>>,
           UNCHANGED out \/ \E rows : out' = [out EXCEPT ![b] = rows],
           pc[b] # "new" \/ step = "new",
           step \in Copying \cup {"read", "cleanup"}
              => opts[b].schema # NULL /\ ~(plan[b] > 0),
           out'[b] # NULL =>
               /\ step \in {"cleanup", "done"} /\ opts[b].schema # NULL
               /\ out'[b] = RowsOf(b) /\ (~(plan[b] > 0) => Readable(b)),
           step = "done" => out'[b] # NULL
    PROVE  RInv'
<1>1. /\ Readable(b)' = Readable(b) /\ RowsOf(b)' = RowsOf(b)
      /\ \A o : SetAs(o, b)' = SetAs(o, b)
    BY ReadsOn
<1>2. /\ pc'[b] = step /\ opts' = opts
      /\ DOMAIN pc' = Splits /\ DOMAIN opts' = Splits /\ out' = [c \in Splits |-> out'[c]]
    BY DEF RInv, Planned, Goto
<1>3. BuildReads(b)'
    BY <1>1, <1>2 DEF RInv, BuildReads
<1>4. \A c \in Splits \ {b} : pc'[c] = pc[c] /\ opts'[c] = opts[c] /\ out'[c] = out[c]
    BY DEF RInv, Planned, Goto
<1> QED
    BY <1>2, <1>3, <1>4, ReadsApart

LEMMA StepReads ==
    ASSUME RInv, NEW b \in Splits, Step(b)
    PROVE  RInv'
<1> USE DEF written, scan, copies, Copying
<1>0. BuildReads(b)
    BY DEF RInv
<1>1. CASE Configure(b)
    BY <1>1, ConfigureReads
<1>2. CASE NoSchema(b)
    BY <1>0, <1>2, ReadsOnward DEF NoSchema, BuildReads
<1>3. CASE NotMine(b)
    <2>1. <<>> \in Seq(Int)
        OBVIOUS
    <2>2. out'[b] = <<>> /\ out'[b] = RowsOf(b) /\ out'[b] # NULL /\ plan[b] > 0
        BY <1>0, <1>3, <2>1, NullAssumption DEF NotMine, BuildReads, SetAs, RowsOf, RInv, Planned
    <2> QED
        BY <1>0, <1>3, <2>2, ReadsOnward DEF NotMine, BuildReads
<1>4. CASE UseFile(b)
    BY <1>0, <1>4, ReadsOnward DEF UseFile, Owned, BuildReads, SetAs
<1>5. CASE CreateCopy(b)
    BY <1>0, <1>5, ReadsOnward DEF CreateCopy, Owned, BuildReads, SetAs
<1>6. CASE CreateFails(b)
    BY <1>0, <1>6, ReadsOnward DEF CreateFails, Owned, BuildReads
<1>7. CASE Register(b)
    BY <1>0, <1>7, ReadsOnward DEF Register, BuildReads
<1>12. CASE CopyFails(b)
    BY <1>0, <1>12, ReadsOnward DEF CopyFails, BuildReads
<1>13. CASE Copied(b)
    BY <1>0, <1>13, ReadsOnward DEF Copied, BuildReads
<1>14. CASE CloseFails(b)
    BY <1>0, <1>14, ReadsOnward DEF CloseFails, BuildReads
<1>15. CASE Close(b)
    BY <1>0, <1>15, ReadsOnward DEF Close, BuildReads
<1>8. CASE Read(b)
    <2>1. out'[b] = RowsOf(b) /\ Readable(b) /\ opts[b].schema # NULL /\ ~(plan[b] > 0)
        BY <1>0, <1>8 DEF Read, BuildReads, SetAs, RowsOf, RInv, Planned
    <2> QED
        BY <1>0, <1>8, <2>1, ReadsOnward DEF Read, BuildReads
<1>9. CASE ReadFails(b)
    BY <1>0, <1>9, ReadsOnward DEF ReadFails, BuildReads
<1>10. CASE Cleanup(b)
    BY <1>0, <1>10, ReadsOnward DEF Cleanup, Leave, BuildReads
<1>11. CASE CleanupFails(b)
    BY <1>0, <1>11, ReadsOnward DEF CleanupFails, Leave, BuildReads
<1> QED
    BY <1>1, <1>2, <1>3, <1>4, <1>5, <1>6, <1>7, <1>8, <1>9, <1>10, <1>11,
       <1>12, <1>13, <1>14, <1>15 DEF Step

LEMMA NextReads == RInv /\ [Next]_vars => RInv'
<1> SUFFICES ASSUME RInv, [Next]_vars PROVE RInv'
    OBVIOUS
<1>1. CASE Write
    BY <1>1, WriteReads
<1>2. CASE Plan
    BY <1>2, PlanReads
<1>3. ASSUME UNCHANGED <<written, scan, local>> PROVE RInv'
    <2> USE DEF written, scan, local
    <2>1. Written'
        BY <1>3 DEF RInv, Written, RefusedSource, FileOf
    <2>2. Planned' /\ Splits' = Splits
        BY <1>3 DEF RInv, Planned, Splits
    <2>3. ASSUME NEW b \in Splits PROVE BuildReads(b)'
        <3>1. /\ Readable(b)' = Readable(b) /\ RowsOf(b)' = RowsOf(b)
              /\ \A o : SetAs(o, b)' = SetAs(o, b)
            BY <1>3, ReadsOn
        <3> QED
            BY <1>3, <3>1 DEF RInv, BuildReads
    <2> QED
        BY <2>1, <2>2, <2>3 DEF RInv
<1>4. ASSUME NEW b \in Splits, Step(b) PROVE RInv'
    BY <1>4, StepReads
<1>5. ASSUME NEW b \in Splits, Retry(b) PROVE RInv'
    <2>1. BuildReads(b)
        BY DEF RInv
    <2> QED
        BY <1>5, <2>1, ReadsOnward DEF Retry, BuildReads, Copying, written, scan,
           copies
<1> QED
    BY <1>1, <1>2, <1>3, <1>4, <1>5 DEF Next, Exit, Kill, vars

LEMMA ScanReads == Spec => []RInv
BY InitReads, NextReads, PTL DEF Spec

-----------------------------------------------------------------------------
(* Files and their rows *)

(* The times of a file in order; a file has at least one of its samples'.  *)
LEMMA AscendingIs ==
    ASSUME NEW S \in SUBSET Int, IsFiniteSet(S)
    PROVE  Cardinality(S) \in Nat /\ Ascending(S) \in [1 .. Cardinality(S) -> S]
<1> DEFINE before == [x \in S |-> {y \in S : y < x}]
           s == Ascending(S)
           n == Cardinality(S)
<1>1. TotalOrder(S, before)
    <2>1. before \in [S -> SUBSET S]
        OBVIOUS
    <2>2. \A x, y \in S : y \in before[x] <=> y < x
        OBVIOUS
    <2>6. \A x, y \in S : x = y \/ x < y \/ y < x
        OBVIOUS
    <2>7. \A x, y, z \in S : z < y /\ y < x => z < x
        OBVIOUS
    <2> HIDE DEF before
    <2>3. \A x \in S : x \notin before[x]
        BY <2>2
    <2>4. ASSUME NEW x \in S, NEW y \in S, y \in before[x] PROVE before[y] \subseteq before[x]
        <3>1. before[y] \subseteq S /\ y < x
            BY <2>1, <2>2, <2>4
        <3> QED
            BY <2>2, <2>7, <3>1
    <2>5. \A x, y \in S : x = y \/ x \in before[y] \/ y \in before[x]
        BY <2>2, <2>6
    <2> QED
        BY <2>1, <2>3, <2>4, <2>5 DEF TotalOrder
<1>2. ASSUME NEW i \in 1 .. n, NEW x \in S, Cardinality(before[x]) = i - 1
      PROVE  s[i] \in S /\ Cardinality(before[s[i]]) = i - 1
    <2> DEFINE rank(y) == Cardinality({z \in S : z < y})
    <2>1. s[i] = CHOOSE y \in S : rank(y) = i - 1
        BY DEF Ascending
    <2>2. \A y \in S : Cardinality(before[y]) = rank(y)
        OBVIOUS
    <2> HIDE DEF rank, before, s
    <2> QED
        BY <1>2, <2>1, <2>2
<1>3. s = [i \in 1 .. n |-> s[i]]
    <2> DEFINE at(i) == CHOOSE x \in S : Cardinality({y \in S : y < x}) = i - 1
    <2>1. s = [i \in 1 .. n |-> at(i)]
        BY DEF Ascending
    <2> HIDE DEF at, s, n
    <2> QED
        BY <2>1
<1> HIDE DEF before, s
<1>4. ByRank(S, before, s)
    BY <1>2, <1>3 DEF ByRank
<1>5. InOrder(S, before, s)
    BY <1>1, <1>4, Ranked
<1> QED
    BY <1>5 DEF InOrder, s

(* The largest of the values a field has in the samples of a sequence. *)
LEMMA GreatestOf ==
    ASSUME NEW S \in SUBSET Int, S # {}, IsFiniteSet(S)
    PROVE  Max(S) \in S /\ \A x \in S : x <= Max(S)
<1>1. PICK m \in S : \A x \in S : x <= m
    BY FiniteExtremes
<1> QED
    BY <1>1 DEF Max

TimesOf(samples) == {samples[k].ts_ns : k \in DOMAIN samples}
GpusOf(samples) == {samples[k].gpu_index : k \in DOMAIN samples}

(* Samples have at least a time and a GPU, and finitely many. *)
LEMMA SamplesAre ==
    ASSUME NEW s \in Sources, s.writer = "warehouse", s.samples # <<>>
    PROVE  /\ TimesOf(s.samples) \in SUBSET Int /\ IsFiniteSet(TimesOf(s.samples))
           /\ Ascending(TimesOf(s.samples)) \in Seq(Int)
           /\ Len(Ascending(TimesOf(s.samples))) = Cardinality(TimesOf(s.samples))
           /\ Max(GpusOf(s.samples)) \in Nat
<1> DEFINE samples == s.samples
           n == Len(samples)
           T == TimesOf(samples)
           G == GpusOf(samples)
<1>1. samples \in Seq(ToSet(samples)) /\ \A k \in DOMAIN samples : SampleOK(samples[k])
    BY SourcesAssumption
<1>2. n \in Nat \ {0} /\ DOMAIN samples = 1 .. n
    BY <1>1
<1>3. T \in SUBSET Int /\ G \in SUBSET Nat
    BY <1>1 DEF TimesOf, GpusOf, SampleOK
<1>4. IsFiniteSet(1 .. n)
    <2>1. 1 \in Int /\ n \in Int
        BY <1>2
    <2> QED
        BY <2>1, FS_Interval
<1>5. IsFiniteSet(T)
    <2> DEFINE f == [k \in 1 .. n |-> samples[k].ts_ns]
    <2>1. f \in [1 .. n -> T] /\ \A t \in T : \E k \in 1 .. n : f[k] = t
        BY <1>2 DEF TimesOf
    <2> HIDE DEF f, T, n
    <2> QED
        BY <1>4, <2>1, FiniteImage
<1>6. IsFiniteSet(G)
    <2> DEFINE f == [k \in 1 .. n |-> samples[k].gpu_index]
    <2>1. f \in [1 .. n -> G] /\ \A g \in G : \E k \in 1 .. n : f[k] = g
        BY <1>2 DEF GpusOf
    <2> HIDE DEF f, G, n
    <2> QED
        BY <1>4, <2>1, FiniteImage
<1>7. G # {}
    <2>1. 1 \in DOMAIN samples
        BY <1>2
    <2>2. samples[1].gpu_index \in G
        BY <2>1 DEF GpusOf
    <2> QED
        BY <2>2
<1>8. Max(G) \in Nat
    <2>1. G \in SUBSET Int
        BY <1>3
    <2> HIDE DEF G
    <2> QED
        BY <1>3, <1>6, <1>7, <2>1, GreatestOf
<1>9. Cardinality(T) \in Nat /\ Ascending(T) \in [1 .. Cardinality(T) -> T]
    <2> HIDE DEF T
    <2> QED
        BY <1>3, <1>5, AscendingIs
<1>10. Ascending(T) \in Seq(Int) /\ Len(Ascending(T)) = Cardinality(T)
    <2> DEFINE c == Cardinality(T)
               t == Ascending(T)
    <2>1. c \in Nat /\ t \in [1 .. c -> Int]
        BY <1>3, <1>9
    <2> HIDE DEF c, t
    <2>2. t \in Seq(Int) /\ Len(t) = c
        BY <2>1
    <2> QED
        BY <2>2 DEF c, t
<1> QED
    BY <1>3, <1>5, <1>8, <1>10

(* A file that can be read has a number of series and of times. *)
LEMMA FileShape ==
    ASSUME Written, file # NULL
    PROVE  /\ SignalFile => file.signal \in Seq(ToSet(file.signal))
           /\ ~SignalFile /\ file.values # NULL =>
                 file.values.nSeries \in Nat /\ file.values.nTime \in Nat
<1>1. source \in Sources /\ ~RefusedSource(source) /\ file = FileOf(source)
    BY DEF Written
<1>2. CASE source.writer = "warehouse"
    <2> DEFINE samples == source.samples
               times == Ascending(TimesOf(samples))
               n == Max(GpusOf(samples)) + 1
    <2>1. samples # <<>>
        BY <1>1, <1>2 DEF RefusedSource
    <2>2. times \in Seq(Int) /\ n \in Nat
        BY <1>1, <1>2, <2>1, SamplesAre
    <2>3. file = Warehouse(samples)
        BY <1>1, <1>2 DEF FileOf
    <2>4. ~SignalFile /\ file.values.nSeries = 4 * n /\ file.values.nTime = Len(times)
        BY <2>3 DEF Warehouse, Analog, SignalFile, TimesOf, GpusOf
    <2> HIDE DEF n, times
    <2> QED
        BY <2>2, <2>4
<1>3. CASE source.writer = "analog"
    <2>1. MatrixOK(source.values) /\ source.values.nSeries # NULL
        BY <1>1, <1>3, SourcesAssumption DEF RefusedSource, Refused
    <2>2. file = Analog(source.values, source.timestamps)
        BY <1>1, <1>3 DEF FileOf
    <2> QED
        BY <2>1, <2>2 DEF Analog, MatrixOK, SignalFile
<1>4. CASE source.writer = "other"
    <2>1. file = source.file
        BY <1>1, <1>4 DEF FileOf
    <2> QED
        BY <1>1, <1>4, <2>1, SourcesAssumption DEF MatrixOK, SignalFile
<1> QED
    BY <1>1, <1>2, <1>3, <1>4, SourcesAssumption

LEMMA PlanesAre ==
    ASSUME NEW n \in Nat, NEW schema
    PROVE  Planes(n, schema) \in {1, 4} /\ n \div Planes(n, schema) \in Nat
<1>1. Planes(n, schema) \in {1, 4}
    BY DEF Planes
<1>2. n \div 1 \in Nat /\ n \div 4 \in Nat
    OBVIOUS
<1> QED
    BY <1>1, <1>2

LEMMA RowsAreRows ==
    ASSUME Written, file # NULL, NEW b, Readable(b)
    PROVE  RowsRead(b) \in Seq(ToSet(RowsRead(b)))
<1> DEFINE rows == RowsRead(b)
<1>1. \E l \in Nat : DOMAIN rows = 1 .. l /\ rows = [k \in 1 .. l |-> rows[k]]
    <2>1. CASE SignalFile
        <3>1. file.signal \in Seq(ToSet(file.signal))
            BY <2>1, FileShape
        <3>2. Len(file.signal) \in Nat /\ DOMAIN file.signal = 1 .. Len(file.signal)
            BY <3>1
        <3> DEFINE l == Len(file.signal)
                   row(k) == [c \in opts[b].schema |->
                       IF c \in DOMAIN file.signal[k] THEN file.signal[k][c] ELSE NULL]
        <3>3. rows = [k \in 1 .. l |-> row(k)]
            BY <2>1, <3>2 DEF RowsRead
        <3> HIDE DEF row, rows
        <3>4. DOMAIN rows = 1 .. l /\ rows = [k \in 1 .. l |-> rows[k]]
            BY <3>3
        <3> QED
            BY <3>2, <3>4
    <2>2. CASE ~SignalFile
        <3> DEFINE schema == opts[b].schema
                   nSeries == file.values.nSeries
                   nTime == file.values.nTime
                   nGpu == nSeries \div Planes(nSeries, schema)
                   l == nGpu * nTime
        <3>1. nSeries \in Nat /\ nTime \in Nat
            BY <2>2, FileShape DEF Readable
        <3>2. nGpu \in Nat
            BY <3>1, PlanesAre
        <3>3. l \in Nat
            <4> HIDE DEF nGpu, nTime
            <4> QED
                BY <3>1, <3>2
        <3>4. rows = ReadLegacy(file, schema)
            BY <2>2 DEF RowsRead
        <3>5. DOMAIN rows = 1 .. l /\ rows = [k \in 1 .. l |-> rows[k]]
            BY <3>4 DEF ReadLegacy
        <3> QED
            BY <3>3, <3>5
    <2> QED
        BY <2>1, <2>2
<1>2. PICK l \in Nat : DOMAIN rows = 1 .. l /\ rows = [k \in 1 .. l |-> rows[k]]
    BY <1>1
<1> HIDE DEF rows
<1>3. \A k \in 1 .. l : rows[k] \in ToSet(rows)
    BY <1>2 DEF ToSet
<1>4. rows \in Seq(ToSet(rows))
    BY <1>2, <1>3
<1> QED
    BY <1>4 DEF rows

(* Filtered picks what the filter accepts, in order. *)
LEMMA FilteredIs ==
    ASSUME NEW R, NEW rows \in Seq(R)
    PROVE  Filtered(rows) = Kept(Filter, rows) /\ Kept(Filter, rows) \in Seq(R)
<1> DEFINE hits == Hits(Filter, rows, Len(rows))
           places == Ascending(hits)
<1>1. Kept(Filter, rows) = RowsAt(rows, hits) /\ Kept(Filter, rows) \in Seq(R)
    BY KeptInOrder
<1>2. {k \in DOMAIN rows : Accepts(Filter, rows[k])} = hits
    BY DEF Hits
<1>3. Filtered(rows) = [i \in DOMAIN places |-> rows[places[i]]]
    BY <1>2 DEF Filtered
<1>4. DOMAIN places = 1 .. Cardinality(hits)
    BY DEF Ascending
<1>5. Filtered(rows) = RowsAt(rows, hits)
    <2> HIDE DEF hits
    <2> QED
        BY <1>3, <1>4 DEF RowsAt
<1> QED
    BY <1>1, <1>5

(* When all builds are done, the first one has read the file and filtered  *)
(* its rows, and the others have none.                                     *)
LEMMA ScanIs ==
    ASSUME RInv, Finished
    PROVE  /\ Written /\ file # NULL /\ request \in Requests
           /\ Readable(1) /\ opts[1].schema = Schema /\ Schema # NULL
           /\ Result = Filtered(RowsRead(1))
<1>1. plan \in Plans /\ request \in Requests /\ file # NULL
    BY DEF RInv, Planned, Finished
<1>2. /\ plan \in Seq(Nat) /\ plan # <<>> /\ plan[1] = 0
      /\ \A b \in DOMAIN plan : b # 1 => plan[b] > 0
    BY <1>1, PlansAssumption
<1>3. Len(plan) \in Nat \ {0} /\ Splits = 1 .. Len(plan)
    BY <1>2 DEF Splits
<1>4. 1 \in Splits
    BY <1>3
<1>5. \A b \in Splits : pc[b] = "done" /\ BuildReads(b)
    BY DEF RInv, Finished
<1>6. ~(plan[1] > 0)
    BY <1>2
<1>7. /\ Readable(1) /\ opts[1].schema # NULL /\ SetAs(opts[1], 1)
      /\ out[1] = Kept(Filter, RowsRead(1))
    BY <1>4, <1>5, <1>6 DEF BuildReads, RowsOf
<1> DEFINE R == ToSet(RowsRead(1))
<1>8. RowsRead(1) \in Seq(R)
    BY <1>1, <1>7, RowsAreRows DEF RInv
<1>9. out[1] = Filtered(RowsRead(1)) /\ out[1] \in Seq(R)
    <2> HIDE DEF R
    <2> QED
        BY <1>7, <1>8, FilteredIs
<1>10. \A b \in 2 .. Len(plan) : out[b] = <<>>
    <2> SUFFICES ASSUME NEW b \in 2 .. Len(plan) PROVE out[b] = <<>>
        OBVIOUS
    <2>1. b \in Splits /\ plan[b] > 0
        BY <1>2, <1>3 DEF Splits
    <2> QED
        BY <1>5, <2>1 DEF BuildReads, RowsOf
<1>11. out \in Seq(Seq(R)) /\ Len(out) = Len(plan) /\ out # <<>>
    <2> HIDE DEF R
    <2>1. \A b \in Splits : out[b] \in Seq(R)
        <3>1. \A b \in Splits : b = 1 \/ b \in 2 .. Len(plan)
            BY <1>3
        <3>2. <<>> \in Seq(R)
            OBVIOUS
        <3> QED
            BY <1>9, <1>10, <3>1, <3>2
    <2>2. out = [b \in 1 .. Len(plan) |-> out[b]]
        BY <1>3 DEF RInv, Planned
    <2> QED
        BY <1>3, <2>1, <2>2
<1>12. FlattenSeq(out) = out[1]
    <2> HIDE DEF R
    <2> QED
        BY <1>10, <1>11, FlattenFirst
<1> QED
    BY <1>1, <1>7, <1>9, <1>12 DEF Result, SetAs, RInv

(* A scan returns every row of the file that the filter accepts, in order  *)
(* and once, whatever its splits, its retries and its failed builds.       *)
THEOREM RowsReadOnce == Spec => []RowsOnce
<1>1. RInv => RowsOnce
    BY ScanIs DEF RowsOnce
<1> QED
    BY <1>1, ScanReads, PTL

-----------------------------------------------------------------------------
(* The older layout *)

Int16 == -Int16Max - 1 .. Int16Max

(* An int16 stays what it is when it is converted to int16 once more. *)
LEMMA Converted ==
    ASSUME NEW v \in Int
    PROVE  Wrap(v) \in Int16 /\ (v \in Int16 => Wrap(v) = v)
<1> DEFINE width == 2 * Int16Max + 2
           x == v + Int16Max + 1
<1>1. Int16Max \in Nat \ {0} /\ width \in Nat \ {0} /\ x \in Int
    BY MachineFileAssumption
<1>2. Wrap(v) = (x % width) - Int16Max - 1
    BY DEF Wrap
<1>3. v \in Int16 <=> x \in 0 .. width - 1
    BY <1>1 DEF Int16
<1>4. x % width \in 0 .. width - 1
    <2> HIDE DEF x, width
    <2> QED
        BY <1>1
<1>5. x \in 0 .. width - 1 => x % width = x
    <2> HIDE DEF x, width
    <2> SUFFICES ASSUME x \in 0 .. width - 1 PROVE x % width = x
        OBVIOUS
    <2>1. 0 * width + x = x /\ (0 * width + x) % width = x
        BY <1>1, DivMod
    <2> QED
        BY <2>1
<1>6. Wrap(v) \in Int16
    BY <1>1, <1>2, <1>4 DEF Int16
<1>7. v \in Int16 => Wrap(v) = v
    BY <1>1, <1>2, <1>3, <1>5
<1> QED
    BY <1>6, <1>7

LEMMA Clipped ==
    ASSUME NEW v \in Int
    PROVE  Clip(v) \in Int16
<1> DEFINE low == Min({v, Int16Max})
           high == Max({low, -Int16Max - 1})
<1>1. Int16Max \in Nat
    BY MachineFileAssumption
<1>2. low \in {v, Int16Max} /\ low <= Int16Max
    <2>1. \E x \in {v, Int16Max} : \A y \in {v, Int16Max} : x <= y
        BY <1>1
    <2> QED
        BY <1>1, <2>1 DEF Min
<1>3. low \in Int
    BY <1>1, <1>2
<1> HIDE DEF low
<1>4. high \in {low, -Int16Max - 1} /\ high >= -Int16Max - 1
    <2>1. \E x \in {low, -Int16Max - 1} : \A y \in {low, -Int16Max - 1} : x >= y
        BY <1>1, <1>3
    <2> QED
        BY <1>1, <1>3, <2>1 DEF Max
<1>5. high \in Int16
    BY <1>1, <1>2, <1>3, <1>4 DEF Int16
<1> QED
    BY <1>5 DEF Clip, low

LEMMA RoundedInt ==
    ASSUME NEW v \in Int
    PROVE  Rounded(v) \in Int
BY DEF Rounded

(* Place k - 1 of n rows of m cells, as row and column. *)
LEMMA Coordinates ==
    ASSUME NEW n \in Nat, NEW m \in Nat, NEW k \in 1 .. n * m
    PROVE  /\ m \in Nat \ {0}
           /\ (k - 1) \div m \in 0 .. n - 1 /\ (k - 1) % m \in 0 .. m - 1
<1>1. n * m \in Nat /\ k \in Nat /\ 1 <= k /\ k <= n * m
    OBVIOUS
<1>2. m # 0
    BY <1>1
<1> DEFINE q == (k - 1) \div m
           r == (k - 1) % m
<1>3. q \in Int /\ r \in 0 .. m - 1 /\ k - 1 = q * m + r
    BY <1>2
<1> HIDE DEF q, r
<1>4. q \in 0 .. n - 1
    <2>1. q * m + m > 0
        BY <1>1, <1>3
    <2>2. q >= 0
        <3> SUFFICES ASSUME q + 1 <= 0 PROVE FALSE
            BY <1>3
        <3>1. (q + 1) * m <= 0
            BY <1>3
        <3> QED
            BY <1>3, <2>1, <3>1
    <2>3. q < n
        <3> SUFFICES ASSUME n <= q PROVE FALSE
            BY <1>3
        <3>1. n * m <= q * m
            BY <1>3
        <3> QED
            BY <1>1, <1>3, <3>1
    <2> QED
        BY <1>3, <2>2, <2>3
<1> QED
    BY <1>2, <1>3, <1>4 DEF q, r

(* Rows one after the other, counted from 0. *)
InRows(seqs, n, m, row) ==
    seqs = [i \in 1 .. n |-> [k \in 1 .. m |-> row[<<i - 1, k - 1>>]]]
InOneRow(s, n, m, row) ==
    s = [k \in 1 .. n * m |-> row[<<(k - 1) \div m, (k - 1) % m>>]]

LEMMA RowByRow ==
    ASSUME NEW n \in Nat, NEW m \in Nat, NEW row, DOMAIN row = (0 .. n - 1) \X (0 .. m - 1),
           NEW seqs, InRows(seqs, n, m, row)
    PROVE  InOneRow(FlattenSeq(seqs), n, m, row)
<1> DEFINE R == {row[x] : x \in DOMAIN row}
<1>0. \A i \in 1 .. n, k \in 1 .. m : <<i - 1, k - 1>> \in (0 .. n - 1) \X (0 .. m - 1)
    OBVIOUS
<1> USE DEF InRows, InOneRow
<1>1. CASE n = 0
    <2>1. seqs = <<>> /\ Len(seqs) = 0
        BY <1>1
    <2>2. FlattenSeq(seqs) = <<>>
        <3> HIDE DEF InRows
        <3> QED
            BY <2>1 DEF FlattenSeq
    <2>3. n * m = 0
        BY <1>1
    <2>4. [k \in 1 .. n * m |-> row[<<(k - 1) \div m, (k - 1) % m>>]] = <<>>
        BY <2>3
    <2> QED
        BY <2>2, <2>4
<1>2. CASE n # 0
    <2>2. seqs \in [1 .. n -> [1 .. m -> R]]
        <3>1. \A i \in 1 .. n, k \in 1 .. m : row[<<i - 1, k - 1>>] \in R
            BY <1>0
        <3> HIDE DEF R
        <3> QED
            BY <3>1
    <2>3. \A i \in 1 .. n, k \in 1 .. m : seqs[i][k] = row[<<i - 1, k - 1>>]
        OBVIOUS
    <2> HIDE DEF InRows, R
    <2>4. Rectangle(seqs, n, m, FlattenSeq(seqs))
        BY <1>2, <2>2, FlattenRectangle
    <2>5. ASSUME NEW k \in 1 .. n * m
          PROVE  seqs[((k - 1) \div m) + 1][((k - 1) % m) + 1]
                     = row[<<(k - 1) \div m, (k - 1) % m>>]
        <3> DEFINE q == (k - 1) \div m
                   r == (k - 1) % m
        <3>1. q \in 0 .. n - 1 /\ r \in 0 .. m - 1
            BY Coordinates
        <3> HIDE DEF q, r
        <3> DEFINE i == q + 1
                   j == r + 1
        <3>2. i \in 1 .. n /\ j \in 1 .. m /\ i - 1 = q /\ j - 1 = r
            BY <3>1
        <3> HIDE DEF i, j
        <3>3. seqs[i][j] = row[<<q, r>>]
            BY <2>3, <3>2
        <3> QED
            BY <3>3 DEF i, j, q, r
    <2> QED
        BY <2>4, <2>5 DEF Rectangle
<1> QED
    BY <1>1, <1>2

(* The columns of a row, one by one. *)
LEMMA StatedColumns ==
    ASSUME NEW g, NEW t, NEW ts, NEW power, NEW util, NEW mem, NEW temp
    PROVE  /\ \A c \in Schema :
                  StatedCell(g, t, ts, power, util, mem, temp)[c] =
                      CASE c = "gpu_index" -> g
                        [] c = "sample" -> t
                        [] c = "epoch_hour" -> HourOf(ts)
                        [] c = "ts_ns" -> ts
                        [] c \in {"value", "power_w"} -> power
                        [] c = "util_pct" -> util
                        [] c = "mem_used_mb" -> mem
                        [] c = "temp_c" -> temp
                        [] OTHER -> NULL
           /\ StatedCell(g, t, ts, power, util, mem, temp)
                  = [c \in Schema |-> StatedCell(g, t, ts, power, util, mem, temp)[c]]
<1> DEFINE cell == [gpu_index |-> g, sample |-> t, value |-> power,
                    epoch_hour |-> HourOf(ts), ts_ns |-> ts, power_w |-> power,
                    util_pct |-> util, mem_used_mb |-> mem, temp_c |-> temp]
           stated == StatedCell(g, t, ts, power, util, mem, temp)
<1>1. ToSet(Measures) = {"power_w", "util_pct", "mem_used_mb", "temp_c"}
    <2>1. DOMAIN Measures = {1, 2, 3, 4}
        BY DEF Measures
    <2> QED
        BY <2>1 DEF ToSet, Measures
<1>2. Columns = {"epoch_hour", "ts_ns", "gpu_index", "sample", "value",
                 "power_w", "util_pct", "mem_used_mb", "temp_c"}
    BY <1>1 DEF Columns
<1>3. stated = [c \in Schema |-> IF c \in Columns THEN cell[c] ELSE NULL]
    BY DEF StatedCell
<1> HIDE DEF stated
<1>4. \A c \in Schema : stated[c] = IF c \in Columns THEN cell[c] ELSE NULL
    BY <1>3
<1>5. stated = [c \in Schema |-> stated[c]]
    BY <1>3
<1>6. \A c \in Schema : stated[c] =
          CASE c = "gpu_index" -> g
            [] c = "sample" -> t
            [] c = "epoch_hour" -> HourOf(ts)
            [] c = "ts_ns" -> ts
            [] c \in {"value", "power_w"} -> power
            [] c = "util_pct" -> util
            [] c = "mem_used_mb" -> mem
            [] c = "temp_c" -> temp
            [] OTHER -> NULL
    BY <1>2, <1>4
<1> QED
    BY <1>5, <1>6 DEF stated

(* The row readLegacy makes of a series and a time, if it takes the series *)
(* for so many planes of n GPUs.                                           *)
LegacyPlane(f, planes, n, p, g, t) ==
    IF p < planes THEN Wrap(f.values.cells[p * n + g, t]) ELSE 0
LegacyRow(f, planes, n, g, t) ==
    StatedCell(g, t, TimestampAt(f, t),
        LegacyPlane(f, planes, n, 0, g, t), LegacyPlane(f, planes, n, 1, g, t),
        LegacyPlane(f, planes, n, 2, g, t), LegacyPlane(f, planes, n, 3, g, t))

LEMMA LegacyReads ==
    ASSUME NEW f, NEW planes, planes = Planes(f.values.nSeries, Schema),
           NEW n, n = f.values.nSeries \div planes, NEW m, m = f.values.nTime
    PROVE  /\ DOMAIN ReadLegacy(f, Schema) = 1 .. n * m
           /\ ReadLegacy(f, Schema) = [k \in 1 .. n * m |-> ReadLegacy(f, Schema)[k]]
           /\ \A k \in 1 .. n * m :
                  ReadLegacy(f, Schema)[k] = LegacyRow(f, planes, n, (k - 1) \div m, (k - 1) % m)
<1> DEFINE Plane(p, g, t) == IF p < planes THEN ValueAt(f, p * n + g, t) ELSE 0
           Column(c, g, t) ==
               CASE c = "gpu_index" -> g
                 [] c = "sample" -> t
                 [] c = "epoch_hour" -> HourOf(TimestampAt(f, t))
                 [] c = "ts_ns" -> TimestampAt(f, t)
                 [] c \in {"value", "power_w"} -> Plane(0, g, t)
                 [] c = "util_pct" -> Plane(1, g, t)
                 [] c = "mem_used_mb" -> Plane(2, g, t)
                 [] c = "temp_c" -> Plane(3, g, t)
                 [] OTHER -> NULL
           row(k) == [c \in Schema |-> Column(c, (k - 1) \div m, (k - 1) % m)]
           rows == ReadLegacy(f, Schema)
<1>1. rows = [k \in 1 .. n * m |-> row(k)]
    BY DEF ReadLegacy
<1>2. ASSUME NEW g, NEW t
      PROVE  [c \in Schema |-> Column(c, g, t)] = LegacyRow(f, planes, n, g, t)
    <2> DEFINE stated == LegacyRow(f, planes, n, g, t)
    <2>1. \A p : Plane(p, g, t) = LegacyPlane(f, planes, n, p, g, t)
        BY DEF ValueAt, LegacyPlane
    <2>2. /\ \A c \in Schema : stated[c] = Column(c, g, t)
          /\ stated = [c \in Schema |-> stated[c]]
        <3> HIDE DEF Plane
        <3> QED
            BY <2>1, StatedColumns DEF LegacyRow
    <2> HIDE DEF stated, Column
    <2>3. stated = [c \in Schema |-> Column(c, g, t)]
        BY <2>2
    <2> QED
        BY <2>3 DEF stated
<1>3. \A k : row(k) = LegacyRow(f, planes, n, (k - 1) \div m, (k - 1) % m)
    <2> HIDE DEF Column
    <2> QED
        BY <1>2
<1> HIDE DEF row, rows
<1>4. /\ DOMAIN rows = 1 .. n * m /\ rows = [k \in 1 .. n * m |-> rows[k]]
      /\ \A k \in 1 .. n * m : rows[k] = row(k)
    BY <1>1
<1> QED
    BY <1>3, <1>4 DEF rows

(* What write_analog was given is read back, converted to int16. *)
LEMMA ValuesRoundTrip ==
    ASSUME source \in Sources, source.writer = "analog", ~RefusedSource(source),
           file = FileOf(source), OfAnalog
    PROVE  ReadLegacy(file, Schema) = StatedOfValues
<1> DEFINE v == source.values
           n == v.nSeries
           m == v.nTime
           Ts(t) == IF source.timestamps = NULL THEN StartNs + t * StepNs
                    ELSE source.timestamps[t + 1]
           row == [x \in (0 .. n - 1) \X (0 .. m - 1) |->
                      StatedCell(x[1], x[2], Ts(x[2]), Wrap(v.cells[x[1], x[2]]), 0, 0, 0)]
           OfSeries(i) == [k \in 1 .. m |->
               StatedCell(i, k - 1, Ts(k - 1), Wrap(v.cells[i, k - 1]), 0, 0, 0)]
           seqs == [i \in 1 .. n |-> OfSeries(i - 1)]
           rows == ReadLegacy(file, Schema)
<1>1. MatrixOK(v) /\ n \in Nat /\ m \in Nat
    BY SourcesAssumption DEF MatrixOK, RefusedSource, Refused
<1>2. /\ file.values.nSeries = n /\ file.values.nTime = m
      /\ file.values.cells = [c \in DOMAIN v.cells |-> Wrap(v.cells[c])]
      /\ file.timestamps = [t \in Indices(m) |-> Ts(t)]
    BY <1>1 DEF FileOf, Analog, MatrixOK
<1>3. v.cells \in [(0 .. n - 1) \X (0 .. m - 1) -> Int]
    BY <1>1, NullAssumption DEF MatrixOK, Indices
<1>4. Planes(n, Schema) = 1 /\ n \div 1 = n
    BY <1>1 DEF Planes, OfAnalog
<1>5. /\ DOMAIN rows = 1 .. n * m /\ rows = [k \in 1 .. n * m |-> rows[k]]
      /\ \A k \in 1 .. n * m : rows[k] = LegacyRow(file, 1, n, (k - 1) \div m, (k - 1) % m)
    <2> HIDE DEF n, m
    <2> QED
        BY <1>2, <1>4, LegacyReads
<1>6. ASSUME NEW g \in 0 .. n - 1, NEW t \in 0 .. m - 1
      PROVE  LegacyRow(file, 1, n, g, t) = row[<<g, t>>]
    <2>1. TimestampAt(file, t) = Ts(t)
        <3> HIDE DEF Ts, m
        <3> QED
            BY <1>2 DEF TimestampAt, Indices
    <2>2. <<g, t>> \in DOMAIN v.cells /\ v.cells[g, t] \in Int
        BY <1>3
    <2>3. file.values.cells[g, t] = Wrap(v.cells[g, t])
        BY <1>2, <2>2
    <2>4. Wrap(file.values.cells[g, t]) = Wrap(v.cells[g, t])
        <3> DEFINE cell == v.cells[g, t]
        <3>1. cell \in Int
            BY <2>2
        <3> HIDE DEF cell
        <3>2. Wrap(cell) \in Int16 /\ Wrap(cell) \in Int
            BY <3>1, Converted, MachineFileAssumption DEF Int16
        <3>3. Wrap(Wrap(cell)) = Wrap(cell)
            BY <3>2, Converted
        <3> QED
            BY <2>3, <3>3 DEF cell
    <2>5. 0 * n + g = g
        BY <1>1
    <2>6. /\ LegacyPlane(file, 1, n, 0, g, t) = Wrap(v.cells[g, t])
          /\ LegacyPlane(file, 1, n, 1, g, t) = 0
          /\ LegacyPlane(file, 1, n, 2, g, t) = 0
          /\ LegacyPlane(file, 1, n, 3, g, t) = 0
        <3>1. /\ LegacyPlane(file, 1, n, 0, g, t) = Wrap(file.values.cells[0 * n + g, t])
              /\ LegacyPlane(file, 1, n, 1, g, t) = 0
              /\ LegacyPlane(file, 1, n, 2, g, t) = 0
              /\ LegacyPlane(file, 1, n, 3, g, t) = 0
            BY DEF LegacyPlane
        <3> QED
            BY <2>4, <2>5, <3>1
    <2>7. row[<<g, t>>] = StatedCell(g, t, Ts(t), Wrap(v.cells[g, t]), 0, 0, 0)
        <3> HIDE DEF Ts, n, m
        <3> QED
            OBVIOUS
    <2> HIDE DEF Ts, n, m, row
    <2> QED
        BY <2>1, <2>6, <2>7 DEF LegacyRow
<1>7. DOMAIN row = (0 .. n - 1) \X (0 .. m - 1)
    OBVIOUS
<1>8. InRows(seqs, n, m, row)
    <2>1. ASSUME NEW i \in 1 .. n PROVE OfSeries(i - 1) = [k \in 1 .. m |-> row[<<i - 1, k - 1>>]]
        <3>1. ASSUME NEW k \in 1 .. m
              PROVE  StatedCell(i - 1, k - 1, Ts(k - 1), Wrap(v.cells[i - 1, k - 1]), 0, 0, 0)
                         = row[<<i - 1, k - 1>>]
            <4>1. <<i - 1, k - 1>> \in (0 .. n - 1) \X (0 .. m - 1)
                BY <1>1
            <4> HIDE DEF Ts, n, m
            <4> QED
                BY <4>1
        <3> HIDE DEF Ts, n, m, row
        <3> QED
            BY <3>1
    <2> HIDE DEF Ts, n, m, row, OfSeries
    <2> QED
        BY <2>1 DEF InRows
<1>9. StatedOfValues = FlattenSeq(seqs)
    BY DEF StatedOfValues
<1> HIDE DEF Ts, n, m, row, OfSeries, seqs, rows
<1>10. StatedOfValues = [k \in 1 .. n * m |-> row[<<(k - 1) \div m, (k - 1) % m>>]]
    <2>1. InOneRow(FlattenSeq(seqs), n, m, row)
        BY <1>1, <1>7, <1>8, RowByRow
    <2> QED
        BY <1>9, <2>1 DEF InOneRow
<1>11. ASSUME NEW k \in 1 .. n * m
       PROVE  rows[k] = row[<<(k - 1) \div m, (k - 1) % m>>]
    <2>1. (k - 1) \div m \in 0 .. n - 1 /\ (k - 1) % m \in 0 .. m - 1
        BY <1>1, Coordinates
    <2> QED
        BY <1>5, <1>6, <2>1
<1>12. rows = StatedOfValues
    BY <1>5, <1>10, <1>11
<1> QED
    BY <1>12 DEF rows

(* A cell is the last sample of its GPU and time, as an int16. *)
SamplesAt(samples, g, ts) ==
    {k \in DOMAIN samples : samples[k].gpu_index = g /\ samples[k].ts_ns = ts}
LastAt(samples, g, ts) ==
    CHOOSE k \in SamplesAt(samples, g, ts) : \A j \in SamplesAt(samples, g, ts) : j <= k
CellAt(samples, g, ts, measure) ==
    IF SamplesAt(samples, g, ts) = {} THEN 0
    ELSE Clip(Rounded(samples[LastAt(samples, g, ts)][measure]))

LEMMA StoredIs ==
    ASSUME NEW s \in Sources, s.writer = "warehouse", NEW g, NEW ts,
           NEW p \in 0 .. 3, NEW measure, measure = Measures[p + 1]
    PROVE  /\ Stored(s.samples, measure, g, ts) \in Int16
           /\ Stored(s.samples, measure, g, ts) = CellAt(s.samples, g, ts, measure)
<1> DEFINE samples == s.samples
           n == Len(samples)
           at == SamplesAt(samples, g, ts)
           last == LastAt(samples, g, ts)
<1>1. samples \in Seq(ToSet(samples)) /\ \A k \in DOMAIN samples : SampleOK(samples[k])
    BY SourcesAssumption
<1>2. n \in Nat /\ DOMAIN samples = 1 .. n
    BY <1>1
<1>3. at \in SUBSET Nat /\ \A k \in at : k \in DOMAIN samples /\ k <= n
    BY <1>2 DEF SamplesAt
<1>4. Stored(samples, measure, g, ts)
          = IF at = {} THEN 0 ELSE Clip(Rounded(samples[Max(at)][measure]))
    <2>1. {k \in DOMAIN samples : samples[k].ts_ns = ts /\ samples[k].gpu_index = g} = at
        BY DEF SamplesAt
    <2> QED
        BY <2>1 DEF Stored
<1>5. measure \in ToSet(Measures)
    <2>1. p = 0 \/ p = 1 \/ p = 2 \/ p = 3
        OBVIOUS
    <2>2. DOMAIN Measures = {1, 2, 3, 4} /\ p + 1 \in {1, 2, 3, 4}
        BY <2>1 DEF Measures
    <2> QED
        BY <2>2 DEF ToSet
<1>6. CASE at = {}
    <2>1. 0 \in Int16
        BY MachineFileAssumption DEF Int16
    <2> QED
        BY <1>4, <1>6, <2>1 DEF CellAt
<1>7. CASE at # {}
    <2>0. last = CHOOSE k \in at : \A j \in at : j <= k
        BY DEF LastAt
    <2> HIDE DEF at, n, last
    <2>1. PICK k \in at : \A j \in at : j <= k
        BY <1>2, <1>3, <1>7, GreatestNat
    <2>2. last = k
        <3>1. \A i \in at : (\A j \in at : j <= i) => i = k
            BY <1>3, <2>1
        <3> QED
            BY <2>0, <2>1, <3>1
    <2>3. Max(at) = k
        <3>1. \A i \in at : (\A j \in at : i >= j) <=> i = k
            BY <1>3, <2>1
        <3> QED
            BY <2>1, <3>1 DEF Max
    <2>4. samples[k][measure] \in Int
        BY <1>1, <1>3, <1>5 DEF SampleOK
    <2>5. Stored(samples, measure, g, ts) = Clip(Rounded(samples[k][measure]))
        BY <1>4, <1>7, <2>3
    <2>6. Clip(Rounded(samples[k][measure])) \in Int16
        BY <2>4, RoundedInt, Clipped
    <2>7. Stored(samples, measure, g, ts) =
              IF at = {} THEN 0 ELSE Clip(Rounded(samples[last][measure]))
        BY <1>7, <2>2, <2>5
    <2> QED
        BY <2>5, <2>6, <2>7 DEF at, last, CellAt
<1> QED
    BY <1>6, <1>7

(* The file that was written of samples. *)
Holds(f, samples, times, n, m) ==
    /\ f.values.nSeries = 4 * n /\ f.values.nTime = m
    /\ \A t \in 0 .. m - 1 : TimestampAt(f, t) = times[t + 1]
    /\ \A i \in 0 .. 4 * n - 1, t \in 0 .. m - 1 :
           f.values.cells[i, t]
               = Wrap(Stored(samples, Measures[(i \div n) + 1], i % n, times[t + 1]))

LEMMA WarehouseFile ==
    ASSUME NEW s \in Sources, s.writer = "warehouse", s.samples # <<>>,
           NEW times, times = Ascending(TimesOf(s.samples)),
           NEW n, n = Max(GpusOf(s.samples)) + 1, NEW m, m = Len(times)
    PROVE  /\ n \in Nat \ {0} /\ m \in Nat /\ times \in Seq(Int)
           /\ Holds(FileOf(s), s.samples, times, n, m)
<1> DEFINE file0 == FileOf(s)
           Cell(i, t) == Stored(s.samples, Measures[(i \div n) + 1], i % n, times[t + 1])
           matrix == [nSeries |-> 4 * n, nTime |-> m,
                      cells |-> [c \in Indices(4 * n) \X Indices(m) |-> Cell(c[1], c[2])]]
<1>1. n \in Nat \ {0} /\ m \in Nat /\ times \in Seq(Int)
    <2>1. times \in Seq(Int) /\ Max(GpusOf(s.samples)) \in Nat
        BY SamplesAre
    <2> QED
        BY <2>1
<1>2. times # NULL
    BY <1>1, NullAssumption
<1>3. file0 = Analog(matrix, times)
    <2>1. file0 = Warehouse(s.samples)
        BY DEF FileOf
    <2> QED
        BY <2>1 DEF Warehouse, TimesOf, GpusOf
<1>4. /\ matrix.nSeries = 4 * n /\ matrix.nTime = m
      /\ DOMAIN matrix.cells = Indices(4 * n) \X Indices(m)
      /\ \A i \in Indices(4 * n), t \in Indices(m) : matrix.cells[i, t] = Cell(i, t)
    <2> HIDE DEF Cell
    <2> QED
        OBVIOUS
<1>5. DOMAIN matrix = {"nSeries", "nTime", "cells"}
    OBVIOUS
<1> HIDE DEF matrix, Cell, file0
<1>6. /\ file0.values.nSeries = 4 * n /\ file0.values.nTime = m
      /\ file0.timestamps = [t \in Indices(m) |-> times[t + 1]]
      /\ file0.values.cells = [c \in Indices(4 * n) \X Indices(m) |-> Wrap(matrix.cells[c])]
    BY <1>2, <1>3, <1>4, <1>5 DEF Analog
<1>7. ASSUME NEW t \in 0 .. m - 1 PROVE TimestampAt(file0, t) = times[t + 1]
    BY <1>6 DEF TimestampAt, Indices
<1>8. ASSUME NEW i \in 0 .. 4 * n - 1, NEW t \in 0 .. m - 1
      PROVE  file0.values.cells[i, t] = Wrap(Cell(i, t))
    BY <1>4, <1>6 DEF Indices
<1> QED
    BY <1>1, <1>6, <1>7, <1>8 DEF file0, Cell, Holds

(* Every series of the file is found again as plane p of GPU g. *)
PlanesAgree(f, samples, times, n, m) ==
    \A g \in 0 .. n - 1, t \in 0 .. m - 1, p \in 0 .. 3 :
        LegacyPlane(f, 4, n, p, g, t) = Stored(samples, Measures[p + 1], g, times[t + 1])

LEMMA PlanesRoundTrip ==
    ASSUME NEW s \in Sources, s.writer = "warehouse",
           NEW f, NEW times, NEW n \in Nat \ {0}, NEW m, Holds(f, s.samples, times, n, m)
    PROVE  PlanesAgree(f, s.samples, times, n, m)
<1> SUFFICES ASSUME NEW g \in 0 .. n - 1, NEW t \in 0 .. m - 1, NEW p \in 0 .. 3
             PROVE  LegacyPlane(f, 4, n, p, g, t)
                        = Stored(s.samples, Measures[p + 1], g, times[t + 1])
    BY DEF PlanesAgree
<1> DEFINE i == p * n + g
           measure == Measures[p + 1]
           v == Stored(s.samples, measure, g, times[t + 1])
<1>1. n \in Nat \ {0}
    OBVIOUS
<1>2. i \in 0 .. 4 * n - 1
    <2>1. p = 0 \/ p = 1 \/ p = 2 \/ p = 3
        OBVIOUS
    <2> QED
        BY <1>1, <2>1
<1>3. i \div n = p /\ i % n = g
    <2>1. p \in Nat /\ g \in 0 .. n - 1
        OBVIOUS
    <2> QED
        BY ONLY <1>1, <2>1, DivMod DEF i
<1>4. f.values.cells[i, t]
          = Wrap(Stored(s.samples, Measures[(i \div n) + 1], i % n, times[t + 1]))
    <2> HIDE DEF i
    <2> QED
        BY <1>2 DEF Holds
<1>5. f.values.cells[i, t] = Wrap(v)
    BY <1>3, <1>4
<1>6. v \in Int16 /\ v \in Int
    <2>1. v \in Int16
        <3>1. measure = Measures[p + 1]
            OBVIOUS
        <3> HIDE DEF measure
        <3> QED
            BY <3>1, StoredIs
    <2> HIDE DEF v
    <2> QED
        BY <2>1, MachineFileAssumption DEF Int16
<1> HIDE DEF v
<1>7. Wrap(Wrap(v)) = v
    BY <1>6, Converted
<1>8. LegacyPlane(f, 4, n, p, g, t) = Wrap(f.values.cells[i, t])
    <2>1. p < 4
        OBVIOUS
    <2> QED
        BY <2>1 DEF LegacyPlane
<1> QED
    BY <1>5, <1>7, <1>8 DEF v

(* What the warehouse wrote is read back: at every GPU and time the four   *)
(* measures of its last sample.                                            *)
LEMMA SamplesRoundTrip ==
    ASSUME source \in Sources, source.writer = "warehouse", ~RefusedSource(source),
           file = FileOf(source), IsWarehouse(Schema), Gpus # 2
    PROVE  ReadLegacy(file, Schema) = StatedOfSamples
<1> DEFINE samples == source.samples
           times == Ascending(TimesOf(samples))
           n == Max(GpusOf(samples)) + 1
           m == Len(times)
           In(g, ts, measure) == CellAt(samples, g, ts, measure)
           Row(g, k) == StatedCell(g, k - 1, times[k], In(g, times[k], "power_w"),
                            In(g, times[k], "util_pct"), In(g, times[k], "mem_used_mb"),
                            In(g, times[k], "temp_c"))
           OfGpu(g) == [k \in DOMAIN times |-> Row(g, k)]
           row == [x \in (0 .. n - 1) \X (0 .. m - 1) |-> Row(x[1], x[2] + 1)]
           seqs == [i \in 1 .. n |-> OfGpu(i - 1)]
           rows == ReadLegacy(file, Schema)
<1>1. samples # <<>>
    BY DEF RefusedSource
<1>2. n \in Nat \ {0} /\ m \in Nat /\ times \in Seq(Int) /\ Holds(file, samples, times, n, m)
    <2>1. /\ times = Ascending(TimesOf(source.samples)) /\ m = Len(times)
          /\ n = Max(GpusOf(source.samples)) + 1
        OBVIOUS
    <2> HIDE DEF times, n, m
    <2> QED
        BY <1>1, <2>1, WarehouseFile
<1>3. file.values.nSeries = 4 * n /\ file.values.nTime = m
    BY <1>2 DEF Holds
<1>4. Gpus = n
    BY DEF Gpus, GpusOf, ToSet
<1>5. Planes(4 * n, Schema) = 4 /\ (4 * n) \div 4 = n
    <2> HIDE DEF n
    <2>1. (4 * n) % 4 = 0 /\ 4 * n # 8 /\ (4 * n) \div 4 = n
        BY <1>2, <1>4
    <2> QED
        BY <2>1 DEF Planes
<1>6. /\ DOMAIN rows = 1 .. n * m /\ rows = [k \in 1 .. n * m |-> rows[k]]
      /\ \A k \in 1 .. n * m : rows[k] = LegacyRow(file, 4, n, (k - 1) \div m, (k - 1) % m)
    <2> HIDE DEF n, m
    <2> QED
        BY <1>3, <1>5, LegacyReads
<1>7. ASSUME NEW g, NEW ts, NEW p \in 0 .. 3
      PROVE  In(g, ts, Measures[p + 1]) = Stored(samples, Measures[p + 1], g, ts)
    <2> DEFINE measure == Measures[p + 1]
    <2>1. Stored(samples, measure, g, ts) = In(g, ts, measure)
        <3>1. measure = Measures[p + 1]
            OBVIOUS
        <3> HIDE DEF measure
        <3> QED
            BY <3>1, StoredIs
    <2> HIDE DEF In
    <2> QED
        BY <2>1
<1>8. /\ Measures[0 + 1] = "power_w" /\ Measures[1 + 1] = "util_pct"
      /\ Measures[2 + 1] = "mem_used_mb" /\ Measures[3 + 1] = "temp_c"
    BY DEF Measures
<1>9. ASSUME NEW g \in 0 .. n - 1, NEW t \in 0 .. m - 1
      PROVE  LegacyRow(file, 4, n, g, t) = row[<<g, t>>]
    <2>1. TimestampAt(file, t) = times[t + 1]
        <3> HIDE DEF m, times, n
        <3> QED
            BY <1>2 DEF Holds
    <2>2. ASSUME NEW p \in 0 .. 3
          PROVE  LegacyPlane(file, 4, n, p, g, t) = In(g, times[t + 1], Measures[p + 1])
        <3>1. LegacyPlane(file, 4, n, p, g, t) = Stored(samples, Measures[p + 1], g, times[t + 1])
            <4> HIDE DEF times, n, m
            <4>1. PlanesAgree(file, source.samples, times, n, m)
                BY <1>2, PlanesRoundTrip
            <4> QED
                BY <4>1 DEF PlanesAgree
        <3> HIDE DEF In
        <3> QED
            BY <1>7, <3>1
    <2>3. row[<<g, t>>] = Row(g, t + 1)
        <3> HIDE DEF n, m, Row
        <3> QED
            OBVIOUS
    <2> DEFINE k == t + 1
    <2>4. k - 1 = t
        BY <1>2
    <2> HIDE DEF n, m, row, In, times, k
    <2>5. Row(g, k) = StatedCell(g, t, times[k], In(g, times[k], "power_w"),
                          In(g, times[k], "util_pct"), In(g, times[k], "mem_used_mb"),
                          In(g, times[k], "temp_c"))
        BY <2>4
    <2> HIDE DEF Row
    <2>6. /\ LegacyPlane(file, 4, n, 0, g, t) = In(g, times[k], "power_w")
          /\ LegacyPlane(file, 4, n, 1, g, t) = In(g, times[k], "util_pct")
          /\ LegacyPlane(file, 4, n, 2, g, t) = In(g, times[k], "mem_used_mb")
          /\ LegacyPlane(file, 4, n, 3, g, t) = In(g, times[k], "temp_c")
        <3>1. 0 \in 0 .. 3 /\ 1 \in 0 .. 3 /\ 2 \in 0 .. 3 /\ 3 \in 0 .. 3
            OBVIOUS
        <3> QED
            BY <1>8, <2>2, <3>1 DEF k
    <2>7. TimestampAt(file, t) = times[k] /\ row[<<g, t>>] = Row(g, k)
        BY <2>1, <2>3 DEF k
    <2> QED
        BY <2>5, <2>6, <2>7 DEF LegacyRow
<1>10. DOMAIN row = (0 .. n - 1) \X (0 .. m - 1)
    <2> HIDE DEF n, m, Row
    <2> QED
        OBVIOUS
<1>11. DOMAIN times = 1 .. m
    BY <1>2
<1>12. InRows(seqs, n, m, row)
    <2>1. ASSUME NEW i \in 1 .. n PROVE OfGpu(i - 1) = [k \in 1 .. m |-> row[<<i - 1, k - 1>>]]
        <3>1. ASSUME NEW k \in 1 .. m PROVE Row(i - 1, k) = row[<<i - 1, k - 1>>]
            <4>1. <<i - 1, k - 1>> \in (0 .. n - 1) \X (0 .. m - 1) /\ k - 1 + 1 = k
                BY <1>2
            <4> HIDE DEF n, m, Row
            <4> QED
                BY <4>1
        <3> HIDE DEF m, Row, row, times
        <3> QED
            BY <1>11, <3>1
    <2> HIDE DEF n, m, row, OfGpu
    <2> QED
        BY <2>1 DEF InRows
<1>13. StatedOfSamples = FlattenSeq(seqs)
    <2>1. 0 .. Max(GpusOf(samples)) = 0 .. n - 1 /\ Cardinality(0 .. n - 1) = n
        <3>1. Max(GpusOf(samples)) \in Nat
            BY <1>1, SamplesAre
        <3> DEFINE max == Max(GpusOf(samples))
        <3> HIDE DEF max
        <3>2. max \in Nat
            BY <3>1 DEF max
        <3>3. 0 \in Int /\ max \in Int
            BY <3>2
        <3>4. Cardinality(0 .. max) = max - 0 + 1
            BY <3>2, <3>3, FS_Interval
        <3>5. Cardinality(0 .. max) = max + 1 /\ max + 1 - 1 = max
            BY <3>2, <3>4
        <3>6. n = max + 1
            BY DEF max
        <3> HIDE DEF n
        <3>7. 0 .. max = 0 .. n - 1 /\ Cardinality(0 .. n - 1) = n
            <4>1. n - 1 = max
                BY <3>2, <3>6
            <4> QED
                BY <3>5, <3>6, <4>1
        <3> QED
            BY <3>7 DEF max
    <2>2. StatedOfSamples = FlattenSeq([i \in 1 .. Cardinality(0 .. Max(GpusOf(samples))) |-> OfGpu(i - 1)])
        BY DEF StatedOfSamples, CellAt, LastAt, SamplesAt, TimesOf, GpusOf
    <2>3. Cardinality(0 .. Max(GpusOf(samples))) = n
        <3> HIDE DEF n
        <3> QED
            BY <2>1
    <2> HIDE DEF n, OfGpu
    <2> QED
        BY <2>2, <2>3
<1> HIDE DEF times, n, m, row, OfGpu, seqs, rows
<1>14. StatedOfSamples = [k \in 1 .. n * m |-> row[<<(k - 1) \div m, (k - 1) % m>>]]
    <2>1. InOneRow(FlattenSeq(seqs), n, m, row)
        BY <1>2, <1>10, <1>12, RowByRow
    <2> QED
        BY <1>13, <2>1 DEF InOneRow
<1>15. ASSUME NEW k \in 1 .. n * m
       PROVE  rows[k] = row[<<(k - 1) \div m, (k - 1) % m>>]
    <2>1. (k - 1) \div m \in 0 .. n - 1 /\ (k - 1) % m \in 0 .. m - 1
        BY <1>2, Coordinates
    <2> QED
        BY <1>6, <1>9, <2>1
<1>16. rows = StatedOfSamples
    BY <1>6, <1>14, <1>15
<1> QED
    BY <1>16 DEF rows

(* "a filtered read of legacy history is correct": what a scan of a file   *)
(* of the older layout returns is what was written, filtered, for every    *)
(* number of GPUs but two.                                                 *)
THEOREM LegacyRead == Spec => []LegacyRoundTrip
<1>1. RInv => LegacyRoundTrip
    <2> SUFFICES ASSUME RInv, Finished
                 PROVE  /\ OfWarehouse /\ Gpus # 2 => Result = Filtered(StatedOfSamples)
                        /\ OfAnalog => Result = Filtered(StatedOfValues)
        BY DEF LegacyRoundTrip
    <2>1. /\ Written /\ file # NULL /\ opts[1].schema = Schema
          /\ Result = Filtered(RowsRead(1))
        BY ScanIs
    <2>2. source \in Sources /\ ~RefusedSource(source) /\ file = FileOf(source)
        BY <2>1 DEF Written
    <2>3. source.writer \in {"warehouse", "analog"} => ~SignalFile
        BY <2>2 DEF FileOf, Warehouse, Analog, SignalFile
    <2>4. ~SignalFile => RowsRead(1) = ReadLegacy(file, Schema)
        BY <2>1 DEF RowsRead
    <2>5. ASSUME OfWarehouse, Gpus # 2 PROVE Result = Filtered(StatedOfSamples)
        BY <2>1, <2>2, <2>3, <2>4, <2>5, SamplesRoundTrip DEF OfWarehouse
    <2>6. ASSUME OfAnalog PROVE Result = Filtered(StatedOfValues)
        <3>1. source.writer = "analog"
            BY <2>6 DEF OfAnalog
        <3> QED
            BY <2>1, <2>2, <2>3, <2>4, <2>6, <3>1, ValuesRoundTrip
    <2> QED
        BY <2>5, <2>6
<1> QED
    BY <1>1, ScanReads, PTL
=============================================================================

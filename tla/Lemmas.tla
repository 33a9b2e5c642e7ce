-------------------------------- MODULE Lemmas --------------------------------
(***************************************************************************)
(* Facts about numbers, finite sets and recursion that the proofs of       *)
(* several components need.  Induction is by the least counterexample: a   *)
(* set of naturals that is not empty has a least element.                  *)
(***************************************************************************)
EXTENDS Integers, FiniteSets, Functions, WellFoundedInduction, FiniteSetTheorems, TLAPS

(* A set of naturals has a least element. *)
LEMMA LeastNat ==
    ASSUME NEW T \in SUBSET Nat, T # {}
    PROVE  \E n \in T : \A m \in T : n <= m
<1>1. \E n \in T : \A m \in T : ~(<<m, n>> \in OpToRel(<, Nat))
    BY NatLessThanWellFounded, WFMin
<1>2. \A m, n \in T : <<m, n>> \notin OpToRel(<, Nat) => n <= m
    BY DEF OpToRel
<1> QED
    BY <1>1, <1>2

(* What holds of 0, and of n + 1 with n, holds of all naturals: T is the   *)
(* set it holds of.                                                        *)
LEMMA AllNat ==
    ASSUME NEW T, 0 \in T, \A n \in Nat : n \in T => n + 1 \in T
    PROVE  Nat \subseteq T
<1> SUFFICES ASSUME Nat \ T # {} PROVE FALSE
    OBVIOUS
<1>1. PICK n \in Nat \ T : \A m \in Nat \ T : n <= m
    BY LeastNat
<1>2. n # 0 /\ n - 1 \in Nat /\ ~(n <= n - 1)
    BY <1>1
<1>3. n - 1 \in T
    BY <1>1, <1>2
<1> QED
    BY <1>1, <1>2, <1>3

(* A bounded set of naturals has a greatest element. *)
LEMMA GreatestNat ==
    ASSUME NEW S \in SUBSET Nat, S # {}, NEW b \in Nat, \A n \in S : n <= b
    PROVE  \E n \in S : \A m \in S : m <= n
<1> DEFINE T == {b - n : n \in S}
<1>1. T \in SUBSET Nat /\ T # {}
    <2>1. \A n \in S : b - n \in Nat
        OBVIOUS
    <2>2. PICK n : n \in S
        OBVIOUS
    <2> QED
        BY <2>1, <2>2
<1>2. PICK d \in T : \A m \in T : d <= m
    BY <1>1, LeastNat
<1>3. PICK n \in S : d = b - n
    BY <1>2
<1>4. ASSUME NEW m \in S PROVE m <= n
    <2>1. b - m \in T /\ b - n <= b - m
        BY <1>2, <1>3
    <2> QED
        BY <2>1
<1> QED
    BY <1>4

(* A finite set of integers has a least and a greatest element. *)
LEMMA FiniteExtremes ==
    ASSUME NEW S \in SUBSET Int, S # {}, IsFiniteSet(S)
    PROVE  /\ \E x \in S : \A y \in S : x <= y
           /\ \E x \in S : \A y \in S : y <= x
<1> DEFINE Has(U) == /\ \E x \in U : \A y \in U : x <= y
                     /\ \E x \in U : \A y \in U : y <= x
           T == {n \in Nat : \A U \in SUBSET S :
                    IsFiniteSet(U) /\ Cardinality(U) = n /\ U # {} => Has(U)}
<1>1. 0 \in T
    BY FS_EmptySet
<1>2. ASSUME NEW n \in Nat, n \in T PROVE n + 1 \in T
    <2> SUFFICES ASSUME NEW U \in SUBSET S, IsFiniteSet(U), Cardinality(U) = n + 1, U # {}
                 PROVE  Has(U)
        OBVIOUS
    <2>1. PICK u : u \in U
        OBVIOUS
    <2>2. IsFiniteSet(U \ {u}) /\ Cardinality(U \ {u}) = n
        <3>1. /\ IsFiniteSet(U \ {u})
              /\ Cardinality(U \ {u}) = Cardinality(U) - 1
            BY <2>1, FS_RemoveElement
        <3> QED
            BY <3>1
    <2>3. CASE U \ {u} = {}
        <3>1. U = {u}
            BY <2>1, <2>3
        <3> QED
            BY <3>1, <2>1
    <2>4. CASE U \ {u} # {}
        <3>1. Has(U \ {u})
            BY <1>2, <2>2, <2>4
        <3>2. PICK x \in U \ {u} : \A y \in U \ {u} : x <= y
            BY <3>1
        <3>3. PICK z \in U \ {u} : \A y \in U \ {u} : y <= z
            BY <3>1
        <3>4. u \in Int /\ x \in Int /\ z \in Int /\ \A y \in U : y \in Int /\ (y = u \/ y \in U \ {u})
            BY <2>1
        <3>5. \E v \in U : \A y \in U : v <= y
            <4>1. CASE x <= u
                BY <3>2, <3>4, <4>1
            <4>2. CASE u <= x
                BY <3>2, <3>4, <4>2, <2>1
            <4> QED
                BY <3>4, <4>1, <4>2
        <3>6. \E v \in U : \A y \in U : y <= v
            <4>1. CASE u <= z
                BY <3>3, <3>4, <4>1
            <4>2. CASE z <= u
                BY <3>3, <3>4, <4>2, <2>1
            <4> QED
                BY <3>4, <4>1, <4>2
        <3> QED
            BY <3>5, <3>6
    <2> QED
        BY <2>3, <2>4
<1>3. Nat \subseteq T
    <2> HIDE DEF T
    <2> QED
        BY <1>1, <1>2, AllNat
<1>4. Cardinality(S) \in Nat
    BY FS_CardinalityType
<1> QED
    BY <1>3, <1>4

(* What a finite set is mapped onto is finite. *)
LEMMA FiniteImage ==
    ASSUME NEW K, IsFiniteSet(K), NEW T, NEW f \in [K -> T],
           \A t \in T : \E k \in K : f[k] = t
    PROVE  IsFiniteSet(T)
<1>1. f \in Surjection(K, T)
    BY DEF Surjection
<1> QED
    BY <1>1, FS_Surjection

(* A set of indexes from 1 on that leaves none out is an interval. *)
LEMMA DownClosed ==
    ASSUME NEW n \in Nat, NEW P \in SUBSET (1 .. n),
           \A i \in 1 .. n, j \in P : i < j => i \in P
    PROVE  \E c \in 0 .. n : P = 1 .. c
<1>1. CASE P = {}
    <2>1. 1 .. 0 = {} /\ 0 \in 0 .. n
        OBVIOUS
    <2> QED
        BY <1>1, <2>1
<1>2. CASE P # {}
    <2>1. PICK c \in P : \A m \in P : m <= c
        <3>1. P \in SUBSET Nat /\ \A m \in P : m <= n
            OBVIOUS
        <3> QED
            BY <1>2, <3>1, GreatestNat
    <2>2. c \in 1 .. n /\ c \in 0 .. n
        OBVIOUS
    <2>3. ASSUME NEW i \in P PROVE i \in 1 .. c
        BY <2>1, <2>2
    <2>4. ASSUME NEW i \in 1 .. c PROVE i \in P
        <3>1. i = c \/ (i < c /\ i \in 1 .. n)
            BY <2>2
        <3> QED
            BY <3>1
    <2>5. P = 1 .. c
        BY <2>3, <2>4
    <2> QED
        BY <2>2, <2>5
<1> QED
    BY <1>1, <1>2

(* A strict total order of S: before[x] are the elements before x. *)
TotalOrder(S, before) ==
    /\ before \in [S -> SUBSET S]
    /\ \A x \in S : x \notin before[x]
    /\ \A x, y \in S : y \in before[x] => before[y] \subseteq before[x]
    /\ \A x, y \in S : x = y \/ x \in before[y] \/ y \in before[x]

(* s has at place i an element with i - 1 before it, if there is one. *)
ByRank(S, before, s) ==
    /\ s = [i \in 1 .. Cardinality(S) |-> s[i]]
    /\ \A i \in 1 .. Cardinality(S) : \A x \in S : Cardinality(before[x]) = i - 1
           => s[i] \in S /\ Cardinality(before[s[i]]) = i - 1

(* s lists S, each element once, in the order. *)
InOrder(S, before, s) ==
    /\ Cardinality(S) \in Nat /\ s \in [1 .. Cardinality(S) -> S]
    /\ \A x \in S : \E i \in 1 .. Cardinality(S) : s[i] = x
    /\ \A i, j \in 1 .. Cardinality(S) : i < j => s[i] \in before[s[j]]

(* Ranks put a finite set in order. *)
LEMMA Ranked ==
    ASSUME NEW S, IsFiniteSet(S), NEW below, TotalOrder(S, below),
           NEW s, ByRank(S, below, s)
    PROVE  InOrder(S, below, s)
<1> USE DEF TotalOrder
<1> DEFINE n == Cardinality(S)
           rank == [x \in S |-> Cardinality(below[x])]
<1>1. n \in Nat
    BY FS_CardinalityType
<1>2. ASSUME NEW x \in S PROVE IsFiniteSet(below[x]) /\ rank[x] \in 0 .. n - 1
    <2>1. below[x] \in SUBSET S /\ below[x] # S
        OBVIOUS
    <2>2. /\ IsFiniteSet(below[x]) /\ Cardinality(below[x]) <= n
          /\ n = Cardinality(below[x]) => S = below[x]
        BY <2>1, FS_Subset
    <2>3. Cardinality(below[x]) \in Nat
        BY <2>2, FS_CardinalityType
    <2> HIDE DEF n
    <2> QED
        BY <1>1, <2>1, <2>2, <2>3
<1>3. ASSUME NEW x \in S, NEW y \in S, y \in below[x] PROVE rank[y] < rank[x]
    <2>1. below[y] \in SUBSET below[x] /\ below[y] # below[x]
        BY <1>3
    <2>2. /\ Cardinality(below[y]) <= Cardinality(below[x])
          /\ Cardinality(below[x]) = Cardinality(below[y]) => below[x] = below[y]
        BY <1>2, <2>1, FS_Subset
    <2>3. rank[x] \in Nat /\ rank[y] \in Nat
        BY <1>2
    <2> QED
        BY <2>1, <2>2, <2>3
<1>4. rank \in Injection(S, 0 .. n - 1)
    <2>1. rank \in [S -> 0 .. n - 1]
        BY <1>2
    <2>2. ASSUME NEW x \in S, NEW y \in S, rank[x] = rank[y] PROVE x = y
        <3>1. ~(rank[x] < rank[y]) /\ ~(rank[y] < rank[x])
            <4>1. rank[x] \in Nat /\ rank[y] \in Nat
                BY <1>2
            <4> HIDE DEF rank
            <4> QED
                BY <2>2, <4>1
        <3> QED
            BY <1>3, <3>1
    <2>3. DOMAIN rank = S
        OBVIOUS
    <2> HIDE DEF rank
    <2>4. IsInjective(rank)
        BY <2>2, <2>3 DEF IsInjective
    <2> QED
        BY <2>1, <2>4 DEF Injection
<1>5. \A i \in 0 .. n - 1 : \E x \in S : rank[x] = i
    <2>1. IsFiniteSet(0 .. n - 1) /\ Cardinality(0 .. n - 1) = n
        <3> HIDE DEF n
        <3>1. 0 \in Int /\ n - 1 \in Int
            BY <1>1
        <3>2. /\ IsFiniteSet(0 .. n - 1)
              /\ Cardinality(0 .. n - 1) = IF 0 > n - 1 THEN 0 ELSE n - 1 - 0 + 1
            BY <3>1, FS_Interval
        <3> QED
            BY <1>1, <3>2
    <2>2. rank \in Surjection(S, 0 .. n - 1)
        <3> HIDE DEF rank
        <3> QED
            BY <1>4, <2>1, FS_Injection
    <2> HIDE DEF rank, n
    <2> QED
        BY <2>2 DEF Surjection
<1>6. ASSUME NEW i \in 1 .. n PROVE s[i] \in S /\ rank[s[i]] = i - 1
    <2>1. i - 1 \in 0 .. n - 1
        BY <1>1
    <2>2. \E x \in S : Cardinality(below[x]) = i - 1
        BY <1>5, <2>1
    <2> QED
        BY <2>2 DEF ByRank
<1>7. ASSUME NEW x \in S PROVE \E i \in 1 .. n : s[i] = x
    <2>1. rank[x] + 1 \in 1 .. n
        <3> HIDE DEF n, rank
        <3> QED
            BY <1>1, <1>2
    <2>2. rank[x] \in Nat
        BY <1>2
    <2>3. PICK k \in 1 .. n : k - 1 = rank[x]
        <3> HIDE DEF rank, n
        <3>1. \A m \in Nat : m + 1 - 1 = m
            OBVIOUS
        <3> QED
            BY <2>1, <2>2, <3>1
    <2>4. s[k] \in S /\ rank[s[k]] = rank[x]
        <3> HIDE DEF rank, n
        <3> QED
            BY <1>6, <2>3
    <2>5. s[k] = x
        <3>1. DOMAIN rank = S
            OBVIOUS
        <3> HIDE DEF rank
        <3> QED
            BY <1>4, <2>4, <3>1 DEF Injection, IsInjective
    <2> QED
        BY <2>5
<1>8. ASSUME NEW i \in 1 .. n, NEW j \in 1 .. n, i < j PROVE s[i] \in below[s[j]]
    <2>1. rank[s[i]] = i - 1 /\ rank[s[j]] = j - 1 /\ s[i] \in S /\ s[j] \in S
        BY <1>6
    <2>2. ~(rank[s[j]] < rank[s[i]]) /\ rank[s[i]] # rank[s[j]]
        <3> HIDE DEF rank, n
        <3> QED
            BY <1>1, <1>8, <2>1
    <2> HIDE DEF rank
    <2> QED
        BY <1>3, <2>1, <2>2
<1> QED
    <2> HIDE DEF rank
    <2>1. s \in [1 .. n -> S]
        BY <1>6 DEF ByRank
    <2> QED
        BY <1>1, <1>7, <1>8, <2>1 DEF InOrder

(* f are the values of a variable of a loop of n rounds, s0 before the     *)
(* first; body[<<i, s>>] is its value after round i if it was s before.    *)
Loop(n, s0, body, f) ==
    f = [i \in 0 .. n |-> IF i = 0 THEN s0 ELSE body[<<i, f[i - 1]>>]]

(* A loop has values: those up to round i, by induction on i. *)
LEMMA LoopExists ==
    ASSUME NEW n \in Nat, NEW S, NEW s0 \in S, NEW body \in [(1 .. n) \X S -> S]
    PROVE  \E f \in [0 .. n -> S] : Loop(n, s0, body, f)
<1> DEFINE T == {m \in Nat : m <= n => \E f \in [0 .. m -> S] : Loop(m, s0, body, f)}
<1>1. 0 \in T
    <2> DEFINE f == [i \in 0 .. 0 |-> s0]
    <2>1. f \in [0 .. 0 -> S] /\ \A i \in 0 .. 0 : i = 0
        OBVIOUS
    <2>2. f = [i \in 0 .. 0 |-> IF i = 0 THEN s0 ELSE body[<<i, f[i - 1]>>]]
        BY <2>1
    <2> QED
        BY <2>1, <2>2 DEF Loop
<1>2. ASSUME NEW m \in Nat, m \in T PROVE m + 1 \in T
    <2> SUFFICES ASSUME m + 1 <= n
                 PROVE  \E f \in [0 .. m + 1 -> S] : Loop(m + 1, s0, body, f)
        OBVIOUS
    <2>1. PICK f \in [0 .. m -> S] : Loop(m, s0, body, f)
        BY <1>2
    <2> HIDE DEF T
    <2> DEFINE g == [i \in 0 .. m + 1 |-> IF i <= m THEN f[i] ELSE body[<<i, f[m]>>]]
    <2>2. <<m + 1, f[m]>> \in (1 .. n) \X S
        OBVIOUS
    <2>3. g \in [0 .. m + 1 -> S]
        <3>1. ASSUME NEW i \in 0 .. m + 1
              PROVE  (IF i <= m THEN f[i] ELSE body[<<i, f[m]>>]) \in S
            <4>1. i \in 0 .. m \/ i = m + 1
                OBVIOUS
            <4> QED
                BY <2>2, <4>1
        <3> QED
            BY <3>1
    <2>4. ASSUME NEW i \in 0 .. m + 1
          PROVE  g[i] = IF i = 0 THEN s0 ELSE body[<<i, g[i - 1]>>]
        <3>1. CASE i = m + 1
            <4>1. m \in 0 .. m + 1 /\ i - 1 = m /\ ~(i <= m) /\ i # 0
                BY <3>1
            <4>2. g[m] = f[m] /\ g[i] = body[<<i, f[m]>>]
                BY <4>1
            <4> HIDE DEF g
            <4> QED
                BY <4>1, <4>2
        <3>2. CASE i # m + 1
            <4>1. i \in 0 .. m /\ (i # 0 => i - 1 \in 0 .. m)
                BY <3>2
            <4>2. g[i] = f[i] /\ (i # 0 => g[i - 1] = f[i - 1])
                BY <4>1
            <4>3. f[i] = IF i = 0 THEN s0 ELSE body[<<i, f[i - 1]>>]
                BY <2>1, <4>1 DEF Loop
            <4> HIDE DEF g
            <4> QED
                BY <4>2, <4>3
        <3> QED
            BY <3>1, <3>2
    <2>5. DOMAIN g = 0 .. m + 1
        OBVIOUS
    <2> HIDE DEF g
    <2>6. g = [i \in 0 .. m + 1 |-> g[i]]
        BY <2>3
    <2>7. Loop(m + 1, s0, body, g)
        BY <2>4, <2>6 DEF Loop
    <2> QED
        BY <2>3, <2>7
<1>3. n \in T
    <2> HIDE DEF T
    <2> QED
        BY <1>1, <1>2, AllNat
<1> QED
    BY <1>3

(* What holds before a loop, and after a round if before it, holds at its end. *)
LEMMA LoopEnds ==
    ASSUME NEW n \in Nat, NEW S, NEW f, f[0] \in S,
           \A i \in 1 .. n : f[i - 1] \in S => f[i] \in S
    PROVE  f[n] \in S
<1> DEFINE T == {i \in Nat : i <= n => f[i] \in S}
<1>1. 0 \in T
    OBVIOUS
<1>2. ASSUME NEW i \in Nat, i \in T PROVE i + 1 \in T
    <2>1. i + 1 - 1 = i /\ (i + 1 <= n => i <= n /\ i + 1 \in 1 .. n)
        OBVIOUS
    <2>2. i + 1 <= n => f[i] \in S
        BY <1>2, <2>1
    <2>3. i + 1 <= n => f[i + 1] \in S
        BY <2>1, <2>2
    <2> QED
        BY <2>3
<1>3. n \in T
    <2> HIDE DEF T
    <2> QED
        BY <1>1, <1>2, AllNat
<1> QED
    BY <1>3
=============================================================================

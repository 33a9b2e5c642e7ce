--------------------------- MODULE SignalFile_proofs ---------------------------
(***************************************************************************)
(* The /signal file implements the abstract hour, for every write, every   *)
(* window and every sequence of writes and reads: the searches find the    *)
(* bounds they look for, a plane holds the rows it was made of, and a read *)
(* gives back those of them that lie in its window.                        *)
(***************************************************************************)
EXTENDS SignalFile, Lemmas

-----------------------------------------------------------------------------
(* The binary searches *)

(* (lo + hi) >>> 1 *)
Mid(lo, hi) == (lo + hi) \div 2

(* One round of a binary search over 0 .. n, for the first index whose     *)
(* entry fails the test; P are the indexes, from 1, that pass it.          *)
Halve(P, n, f) ==
    [range \in (0 .. n) \X (0 .. n) |->
        IF range[1] >= range[2] THEN range[1]
        ELSE IF Mid(range[1], range[2]) + 1 \in P
             THEN f[<<Mid(range[1], range[2]) + 1, range[2]>>]
             ELSE f[<<range[1], Mid(range[1], range[2])>>]]

(* What the search finds between lo and hi, if c entries pass.             *)
Between(c, lo, hi) ==
    IF c <= lo \/ hi <= lo THEN lo ELSE IF c <= hi THEN c ELSE hi

(* The middle of a range that is not empty lies in it, before its end. *)
LEMMA MidBetween ==
    ASSUME NEW lo \in Nat, NEW hi \in Nat, lo < hi
    PROVE  Mid(lo, hi) \in Nat /\ lo <= Mid(lo, hi) /\ Mid(lo, hi) < hi
BY DEF Mid

(* A round keeps what there is to be found. *)
LEMMA OneRound ==
    ASSUME NEW c \in Nat, NEW lo \in Nat, NEW hi \in Nat, lo < hi
    PROVE  Between(c, lo, hi) = IF Mid(lo, hi) + 1 <= c
                                THEN Between(c, Mid(lo, hi) + 1, hi)
                                ELSE Between(c, lo, Mid(lo, hi))
<1>1. Mid(lo, hi) \in Nat /\ lo <= Mid(lo, hi) /\ Mid(lo, hi) < hi
    BY MidBetween
<1> QED
    BY <1>1 DEF Between

(* The recursion has a solution: what there is to be found in each range. *)
LEMMA SearchExists ==
    ASSUME NEW n \in Nat, NEW c \in 0 .. n
    PROVE  \E f : f = Halve(1 .. c, n, f)
<1> DEFINE f == [range \in (0 .. n) \X (0 .. n) |-> Between(c, range[1], range[2])]
<1>1. ASSUME NEW range \in (0 .. n) \X (0 .. n)
      PROVE  f[range] = Halve(1 .. c, n, f)[range]
    <2> DEFINE lo == range[1]
               hi == range[2]
    <2>1. lo \in 0 .. n /\ hi \in 0 .. n /\ lo \in Nat /\ hi \in Nat
        OBVIOUS
    <2>2. CASE lo >= hi
        BY <2>1, <2>2 DEF Halve, Between
    <2>3. CASE lo < hi
        <3>1. Mid(lo, hi) \in Nat /\ lo <= Mid(lo, hi) /\ Mid(lo, hi) < hi
            BY <2>1, <2>3, MidBetween
        <3>2. /\ f[<<Mid(lo, hi) + 1, hi>>] = Between(c, Mid(lo, hi) + 1, hi)
              /\ f[<<lo, Mid(lo, hi)>>] = Between(c, lo, Mid(lo, hi))
            BY <2>1, <3>1
        <3>3. Mid(lo, hi) + 1 \in 1 .. c <=> Mid(lo, hi) + 1 <= c
            BY <3>1
        <3>4. f[range] = Between(c, lo, hi)
            OBVIOUS
        <3>5. Halve(1 .. c, n, f)[range] =
                  IF Mid(lo, hi) + 1 \in 1 .. c THEN f[<<Mid(lo, hi) + 1, hi>>]
                  ELSE f[<<lo, Mid(lo, hi)>>]
            BY <2>1, <2>3 DEF Halve
        <3> HIDE DEF f, lo, hi
        <3> QED
            BY <2>1, <2>3, <3>2, <3>3, <3>4, <3>5, OneRound
    <2> QED
        BY <2>1, <2>2, <2>3
<1>2. f = Halve(1 .. c, n, f)
    <2>1. Halve(1 .. c, n, f) = [range \in (0 .. n) \X (0 .. n) |-> Halve(1 .. c, n, f)[range]]
        BY DEF Halve
    <2> QED
        BY <1>1, <2>1
<1> QED
    BY <1>2

(* Every solution finds it, by induction on the length of the range. *)
LEMMA SearchFinds ==
    ASSUME NEW n \in Nat, NEW c \in 0 .. n, NEW f, f = Halve(1 .. c, n, f)
    PROVE  f[<<0, n>>] = c
<1> DEFINE T == {d \in Nat : \A lo, hi \in 0 .. n :
                    hi <= lo + d => f[<<lo, hi>>] = Between(c, lo, hi)}
<1>1. ASSUME NEW lo \in 0 .. n, NEW hi \in 0 .. n
      PROVE  f[<<lo, hi>>] = IF lo >= hi THEN lo
                             ELSE IF Mid(lo, hi) + 1 \in 1 .. c
                                  THEN f[<<Mid(lo, hi) + 1, hi>>]
                                  ELSE f[<<lo, Mid(lo, hi)>>]
    <2>1. <<lo, hi>> \in (0 .. n) \X (0 .. n)
        OBVIOUS
    <2>2. f[<<lo, hi>>] = Halve(1 .. c, n, f)[<<lo, hi>>]
        OBVIOUS
    <2> HIDE DEF T
    <2>3. Halve(1 .. c, n, f)[<<lo, hi>>] =
              IF lo >= hi THEN lo
              ELSE IF Mid(lo, hi) + 1 \in 1 .. c
                   THEN f[<<Mid(lo, hi) + 1, hi>>]
                   ELSE f[<<lo, Mid(lo, hi)>>]
        BY <2>1 DEF Halve
    <2> QED
        BY <2>2, <2>3
<1>2. 0 \in T
    <2> SUFFICES ASSUME NEW lo \in 0 .. n, NEW hi \in 0 .. n, hi <= lo
                 PROVE  f[<<lo, hi>>] = Between(c, lo, hi)
        OBVIOUS
    <2> HIDE DEF T
    <2> QED
        BY <1>1 DEF Between
<1>3. ASSUME NEW d \in Nat, d \in T PROVE d + 1 \in T
    <2> SUFFICES ASSUME NEW lo \in 0 .. n, NEW hi \in 0 .. n, hi <= lo + (d + 1)
                 PROVE  f[<<lo, hi>>] = Between(c, lo, hi)
        OBVIOUS
    <2>1. CASE lo >= hi
        BY <1>1, <2>1 DEF Between
    <2>2. CASE lo < hi
        <3>1. Mid(lo, hi) \in Nat /\ lo <= Mid(lo, hi) /\ Mid(lo, hi) < hi
            BY <2>2, MidBetween
        <3>2. /\ f[<<Mid(lo, hi) + 1, hi>>] = Between(c, Mid(lo, hi) + 1, hi)
              /\ f[<<lo, Mid(lo, hi)>>] = Between(c, lo, Mid(lo, hi))
            BY <1>3, <3>1
        <3>3. Mid(lo, hi) + 1 \in 1 .. c <=> Mid(lo, hi) + 1 <= c
            BY <3>1
        <3> HIDE DEF T
        <3> QED
            BY <1>1, <2>2, <3>2, <3>3, OneRound
    <2> QED
        BY <2>1, <2>2
<1>4. n \in T
    <2> HIDE DEF T
    <2> QED
        BY <1>2, <1>3, AllNat
<1>5. f[<<0, n>>] = Between(c, 0, n)
    BY <1>4
<1> QED
    BY <1>5 DEF Between

(* lowerBound: from this index, 0-based, on the entries are not less. *)
LEMMA LowerBoundFinds ==
    ASSUME NEW a \in Seq(Int), Increasing(a), NEW key \in Int
    PROVE  /\ LowerBound(a, key) \in 0 .. Len(a)
           /\ \A i \in DOMAIN a : key <= a[i] <=> LowerBound(a, key) + 1 <= i
<1> DEFINE n == Len(a)
           P == {i \in 1 .. n : a[i] < key}
           Round(f) ==
               [range \in (0 .. n) \X (0 .. n) |->
                   IF range[1] >= range[2] THEN range[1]
                   ELSE IF a[((range[1] + range[2]) \div 2) + 1] < key
                        THEN f[<<((range[1] + range[2]) \div 2) + 1, range[2]>>]
                        ELSE f[<<range[1], (range[1] + range[2]) \div 2>>]]
           found == CHOOSE f : f = Round(f)
<1>1. n \in Nat /\ DOMAIN a = 1 .. n /\ \A i \in 1 .. n : a[i] \in Int
    OBVIOUS
<1>2. PICK c \in 0 .. n : P = 1 .. c
    <2>1. \A i \in 1 .. n, j \in P : i < j => i \in P
        BY <1>1 DEF Increasing
    <2> QED
        BY <1>1, <2>1, DownClosed
<1>3. ASSUME NEW f PROVE Round(f) = Halve(1 .. c, n, f)
    <2>1. ASSUME NEW lo \in 0 .. n, NEW hi \in 0 .. n, lo < hi
          PROVE  a[(lo + hi) \div 2 + 1] < key <=> Mid(lo, hi) + 1 \in 1 .. c
        <3>1. Mid(lo, hi) + 1 \in 1 .. n
            <4>1. lo \in Nat /\ hi \in Nat /\ hi <= n
                BY <1>1
            <4>2. Mid(lo, hi) \in Nat /\ lo <= Mid(lo, hi) /\ Mid(lo, hi) < hi
                BY <2>1, <4>1, MidBetween
            <4> HIDE DEF n
            <4> QED
                BY <1>1, <4>1, <4>2
        <3>2. a[Mid(lo, hi) + 1] < key <=> Mid(lo, hi) + 1 \in P
            BY <3>1
        <3> QED
            BY <3>2, <1>2 DEF Mid
    <2>2. ASSUME NEW range \in (0 .. n) \X (0 .. n)
          PROVE  Round(f)[range] = Halve(1 .. c, n, f)[range]
        <3>1. range[1] \in 0 .. n /\ range[2] \in 0 .. n
            OBVIOUS
        <3>2. CASE range[1] >= range[2]
            BY <3>2 DEF Halve
        <3>3. CASE range[1] < range[2]
            BY <3>1, <3>3, <2>1 DEF Halve, Mid
        <3> QED
            BY <1>1, <3>1, <3>2, <3>3
    <2> QED
        BY <2>2 DEF Halve
<1>4. LowerBound(a, key) = found[<<0, n>>]
    BY DEF LowerBound
<1>5. found = Round(found)
    <2> HIDE DEF Round
    <2>1. \E f : f = Round(f)
        BY <1>1, <1>3, SearchExists
    <2> QED
        BY <2>1
<1>6. found[<<0, n>>] = c
    <2>1. found = Halve(1 .. c, n, found)
        BY <1>3, <1>5
    <2> HIDE DEF found
    <2> QED
        BY <1>1, <2>1, SearchFinds
<1>7. \A i \in 1 .. n : a[i] < key <=> i <= c
    BY <1>2
<1> HIDE DEF found, Round, P
<1> QED
    BY <1>1, <1>4, <1>6, <1>7

(* upperBoundInclusive: up to this index the entries are not greater. *)
LEMMA UpperBoundInclusiveFinds ==
    ASSUME NEW a \in Seq(Int), Increasing(a), NEW key \in Int
    PROVE  /\ UpperBoundInclusive(a, key) \in -1 .. Len(a) - 1
           /\ \A i \in DOMAIN a : a[i] <= key <=> i <= UpperBoundInclusive(a, key) + 1
<1> DEFINE n == Len(a)
           P == {i \in 1 .. n : a[i] <= key}
           Round(f) ==
               [range \in (0 .. n) \X (0 .. n) |->
                   IF range[1] >= range[2] THEN range[1]
                   ELSE IF a[((range[1] + range[2]) \div 2) + 1] <= key
                        THEN f[<<((range[1] + range[2]) \div 2) + 1, range[2]>>]
                        ELSE f[<<range[1], (range[1] + range[2]) \div 2>>]]
           found == CHOOSE f : f = Round(f)
<1>1. n \in Nat /\ DOMAIN a = 1 .. n /\ \A i \in 1 .. n : a[i] \in Int
    OBVIOUS
<1>2. PICK c \in 0 .. n : P = 1 .. c
    <2>1. \A i \in 1 .. n, j \in P : i < j => i \in P
        BY <1>1 DEF Increasing
    <2> QED
        BY <1>1, <2>1, DownClosed
<1>3. ASSUME NEW f PROVE Round(f) = Halve(1 .. c, n, f)
    <2>1. ASSUME NEW lo \in 0 .. n, NEW hi \in 0 .. n, lo < hi
          PROVE  a[(lo + hi) \div 2 + 1] <= key <=> Mid(lo, hi) + 1 \in 1 .. c
        <3>1. Mid(lo, hi) + 1 \in 1 .. n
            <4>1. lo \in Nat /\ hi \in Nat /\ hi <= n
                BY <1>1
            <4>2. Mid(lo, hi) \in Nat /\ lo <= Mid(lo, hi) /\ Mid(lo, hi) < hi
                BY <2>1, <4>1, MidBetween
            <4> HIDE DEF n
            <4> QED
                BY <1>1, <4>1, <4>2
        <3>2. a[Mid(lo, hi) + 1] <= key <=> Mid(lo, hi) + 1 \in P
            BY <3>1
        <3> QED
            BY <3>2, <1>2 DEF Mid
    <2>2. ASSUME NEW range \in (0 .. n) \X (0 .. n)
          PROVE  Round(f)[range] = Halve(1 .. c, n, f)[range]
        <3>1. range[1] \in 0 .. n /\ range[2] \in 0 .. n
            OBVIOUS
        <3>2. CASE range[1] >= range[2]
            BY <3>2 DEF Halve
        <3>3. CASE range[1] < range[2]
            BY <3>1, <3>3, <2>1 DEF Halve, Mid
        <3> QED
            BY <1>1, <3>1, <3>2, <3>3
    <2> QED
        BY <2>2 DEF Halve
<1>4. UpperBoundInclusive(a, key) = found[<<0, n>>] - 1
    BY DEF UpperBoundInclusive
<1>5. found = Round(found)
    <2> HIDE DEF Round
    <2>1. \E f : f = Round(f)
        BY <1>1, <1>3, SearchExists
    <2> QED
        BY <2>1
<1>6. found[<<0, n>>] = c
    <2>1. found = Halve(1 .. c, n, found)
        BY <1>3, <1>5
    <2> HIDE DEF found
    <2> QED
        BY <1>1, <2>1, SearchFinds
<1>7. \A i \in 1 .. n : a[i] <= key <=> i <= c
    BY <1>2
<1> HIDE DEF found, Round, P
<1> QED
    BY <1>1, <1>4, <1>6, <1>7

-----------------------------------------------------------------------------
(* The vectors of a plane *)

(* The rows of a write are finitely many. *)
LEMMA FiniteRows ==
    ASSUME NEW rs \in Seq(Row), NEW K \in SUBSET DOMAIN rs
    PROVE  IsFiniteSet(K)
<1>1. IsFiniteSet(1 .. Len(rs)) /\ DOMAIN rs = 1 .. Len(rs)
    <2>1. 1 \in Int /\ Len(rs) \in Int
        OBVIOUS
    <2> QED
        BY <2>1, FS_Interval
<1> QED
    BY <1>1, FS_Subset

(* sorted(): each element once, in order. *)
LEMMA SortedInOrder ==
    ASSUME NEW S, IsFiniteSet(S), NEW before, TotalOrder(S, before)
    PROVE  InOrder(S, before, Sorted(before))
<1> DEFINE s == Sorted(before)
<1>1. s = [i \in 1 .. Cardinality(S) |-> CHOOSE x \in S : Cardinality(before[x]) = i - 1]
    BY DEF Sorted, TotalOrder
<1> HIDE DEF s
<1>2. s = [i \in 1 .. Cardinality(S) |-> s[i]]
    BY <1>1
<1>3. \A i \in 1 .. Cardinality(S) : \A x \in S : Cardinality(before[x]) = i - 1
          => s[i] \in S /\ Cardinality(before[s[i]]) = i - 1
    BY <1>1
<1>4. ByRank(S, before, s)
    BY <1>2, <1>3 DEF ByRank
<1>5. InOrder(S, before, s)
    BY <1>4, Ranked
<1> QED
    BY <1>5 DEF s

(* sorted(ts_set): the times of the rows, each once and in order. *)
LEMMA TimesSorted ==
    ASSUME NEW rs \in Seq(Row), NEW K \in SUBSET DOMAIN rs
    PROVE  /\ Times(rs, K) \in Seq(Int)
           /\ Increasing(Times(rs, K))
           /\ \A k \in K : \E j \in DOMAIN Times(rs, K) : Times(rs, K)[j] = rs[k].ts
<1> DEFINE T == {rs[k].ts : k \in K}
           before == [t \in T |-> {u \in T : u < t}]
           f == [k \in K |-> rs[k].ts]
<1>1. \A k \in K : rs[k].ts \in Int
    <2>1. \A k \in K : rs[k] \in Row
        OBVIOUS
    <2> QED
        BY <2>1 DEF Row
<1>2. T \subseteq Int /\ \A k \in K : rs[k].ts \in T
    BY <1>1
<1>3. IsFiniteSet(T)
    <2>1. f \in [K -> T] /\ \A t \in T : \E k \in K : f[k] = t
        OBVIOUS
    <2>2. IsFiniteSet(K)
        BY FiniteRows
    <2> HIDE DEF f, T
    <2> QED
        BY <2>1, <2>2, FiniteImage
<1>4. /\ before \in [T -> SUBSET T]
      /\ \A x \in T : before[x] = {u \in T : u < x}
    OBVIOUS
<1>5. Times(rs, K) = Sorted(before)
    BY DEF Times
<1> HIDE DEF T, before, f
<1>6. \A x \in T : x \notin before[x]
    BY <1>2, <1>4
<1>7. ASSUME NEW x \in T, NEW y \in T, y \in before[x], NEW u \in before[y]
      PROVE  u \in before[x]
    <2>1. x \in Int /\ y \in Int /\ u \in T /\ u \in Int /\ u < y /\ y < x
        BY <1>2, <1>4, <1>7
    <2> QED
        BY <1>4, <2>1
<1>8. \A x, y \in T : x = y \/ x \in before[y] \/ y \in before[x]
    BY <1>2, <1>4
<1>9. TotalOrder(T, before)
    BY <1>4, <1>6, <1>7, <1>8 DEF TotalOrder
<1> DEFINE s == Sorted(before)
           n == Cardinality(T)
<1> HIDE DEF s, n
<1>10. /\ n \in Nat /\ s \in [1 .. n -> T]
       /\ \A x \in T : \E i \in 1 .. n : s[i] = x
       /\ \A i, j \in 1 .. n : i < j => s[i] \in before[s[j]]
    BY <1>3, <1>9, SortedInOrder DEF InOrder, s, n
<1>11. s \in Seq(Int) /\ DOMAIN s = 1 .. n
    <2>1. s \in [1 .. n -> Int]
        BY <1>2, <1>10
    <2> QED
        BY <1>10, <2>1
<1>12. Increasing(s)
    BY <1>4, <1>10, <1>11 DEF Increasing
<1>13. \A k \in K : \E j \in DOMAIN s : s[j] = rs[k].ts
    BY <1>2, <1>10, <1>11
<1> QED
    BY <1>5, <1>11, <1>12, <1>13 DEF s

Keys == Int \X Int \X Int

(* The key of a row's lane is a triple of integers. *)
LEMMA LaneKeyType ==
    ASSUME NEW r \in Row
    PROVE  LaneKey(r) \in Keys
BY RowsAssumption DEF Row, LaneKey, Keys

(* The keys are ordered lexicographically. *)
LEMMA LaneOrder ==
    ASSUME NEW a \in Keys, NEW b \in Keys, NEW c \in Keys
    PROVE  /\ ~LaneLess(a, a)
           /\ LaneLess(a, b) /\ LaneLess(b, c) => LaneLess(a, c)
           /\ a = b \/ LaneLess(a, b) \/ LaneLess(b, a)
           /\ LaneLess(a, b) => a[1] <= b[1]
<1>1. /\ a[1] \in Int /\ a[2] \in Int /\ a[3] \in Int
      /\ b[1] \in Int /\ b[2] \in Int /\ b[3] \in Int
      /\ c[1] \in Int /\ c[2] \in Int /\ c[3] \in Int
    BY DEF Keys
<1>2. a[1] = b[1] /\ a[2] = b[2] /\ a[3] = b[3] => a = b
    BY DEF Keys
<1> QED
    BY <1>1, <1>2 DEF LaneLess

(* sorted(lane_set): the lanes of the rows, each once and in order. *)
LEMMA LanesSorted ==
    ASSUME NEW rs \in Seq(Row), NEW K \in SUBSET DOMAIN rs
    PROVE  /\ Lanes(rs, K) \in Seq(Keys)
           /\ \A i, j \in DOMAIN Lanes(rs, K) :
                  i < j => Lanes(rs, K)[i][1] <= Lanes(rs, K)[j][1]
           /\ \A k \in K : \E i \in DOMAIN Lanes(rs, K) : Lanes(rs, K)[i] = LaneKey(rs[k])
<1> DEFINE T == {LaneKey(rs[k]) : k \in K}
           before == [t \in T |-> {u \in T : LaneLess(u, t)}]
           f == [k \in K |-> LaneKey(rs[k])]
<1>1. \A k \in K : LaneKey(rs[k]) \in Keys
    <2>1. \A k \in K : rs[k] \in Row
        OBVIOUS
    <2> QED
        BY <2>1, LaneKeyType
<1>2. T \subseteq Keys /\ \A k \in K : LaneKey(rs[k]) \in T
    BY <1>1
<1>3. IsFiniteSet(T)
    <2>1. f \in [K -> T] /\ \A t \in T : \E k \in K : f[k] = t
        OBVIOUS
    <2>2. IsFiniteSet(K)
        BY FiniteRows
    <2> HIDE DEF f, T
    <2> QED
        BY <2>1, <2>2, FiniteImage
<1>4. /\ before \in [T -> SUBSET T]
      /\ \A x \in T : before[x] = {u \in T : LaneLess(u, x)}
    OBVIOUS
<1>5. Lanes(rs, K) = Sorted(before)
    BY DEF Lanes
<1> HIDE DEF T, before, f
<1>6. \A x \in T : x \notin before[x]
    BY <1>2, <1>4, LaneOrder
<1>7. ASSUME NEW x \in T, NEW y \in T, y \in before[x], NEW u \in before[y]
      PROVE  u \in before[x]
    <2>1. /\ x \in Keys /\ y \in Keys /\ u \in T /\ u \in Keys
          /\ LaneLess(u, y) /\ LaneLess(y, x)
        BY <1>2, <1>4, <1>7
    <2> QED
        BY <1>4, <2>1, LaneOrder
<1>8. \A x, y \in T : x = y \/ x \in before[y] \/ y \in before[x]
    BY <1>2, <1>4, LaneOrder
<1>9. TotalOrder(T, before)
    BY <1>4, <1>6, <1>7, <1>8 DEF TotalOrder
<1> DEFINE s == Sorted(before)
           n == Cardinality(T)
<1> HIDE DEF s, n
<1>10. /\ n \in Nat /\ s \in [1 .. n -> T]
       /\ \A x \in T : \E i \in 1 .. n : s[i] = x
       /\ \A i, j \in 1 .. n : i < j => s[i] \in before[s[j]]
    BY <1>3, <1>9, SortedInOrder DEF InOrder, s, n
<1>11. s \in Seq(Keys) /\ DOMAIN s = 1 .. n
    <2>1. s \in [1 .. n -> Keys]
        BY <1>2, <1>10
    <2> QED
        BY <1>10, <2>1
<1>12. \A i, j \in DOMAIN s : i < j => s[i][1] <= s[j][1]
    <2> SUFFICES ASSUME NEW i \in DOMAIN s, NEW j \in DOMAIN s, i < j
                 PROVE  s[i][1] <= s[j][1]
        OBVIOUS
    <2>1. s[i] \in T /\ s[j] \in T /\ LaneLess(s[i], s[j])
        BY <1>4, <1>10, <1>11
    <2> QED
        BY <1>2, <2>1, LaneOrder
<1>13. \A k \in K : \E i \in DOMAIN s : s[i] = LaneKey(rs[k])
    BY <1>2, <1>10, <1>11
<1> QED
    BY <1>5, <1>11, <1>12, <1>13 DEF s

-----------------------------------------------------------------------------
(* The rows of a plane *)

InCell(rs, i, j, K, k) ==
    LaneKey(rs[k]) = Lanes(rs, K)[i] /\ rs[k].ts = Times(rs, K)[j]

Value(r, dec) == IF dec THEN r.val_d \div Unit ELSE r.val_i

(* The shape of a plane. *)
LEMMA PlaneShape ==
    ASSUME NEW rs \in Seq(Row), NEW K \in SUBSET DOMAIN rs, NEW dec \in BOOLEAN
    PROVE  /\ PlaneOK(Plane(rs, K, dec))
           /\ Plane(rs, K, dec).ts = Times(rs, K)
           /\ Plane(rs, K, dec).series_id \in Seq(Int)
           /\ DOMAIN Plane(rs, K, dec).series_id = DOMAIN Lanes(rs, K)
           /\ \A i \in DOMAIN Lanes(rs, K) :
                  Plane(rs, K, dec).series_id[i] = Lanes(rs, K)[i][1]
<1> DEFINE p == Plane(rs, K, dec)
           lanes == Lanes(rs, K)
           ts == Times(rs, K)
<1>1. /\ ts \in Seq(Int) /\ Increasing(ts)
      /\ lanes \in Seq(Keys) /\ \A i, j \in DOMAIN lanes : i < j => lanes[i][1] <= lanes[j][1]
    BY TimesSorted, LanesSorted
<1>2. /\ p.ts = ts
      /\ p.series_id = [i \in DOMAIN lanes |-> lanes[i][1]]
      /\ DOMAIN p.gpu = DOMAIN lanes /\ DOMAIN p.gpu_null = DOMAIN lanes
      /\ DOMAIN p.inst = DOMAIN lanes /\ DOMAIN p.inst_null = DOMAIN lanes
      /\ DOMAIN p.values = DOMAIN lanes /\ DOMAIN p.present = DOMAIN lanes
      /\ \A i \in DOMAIN lanes :
             DOMAIN p.values[i] = DOMAIN ts /\ DOMAIN p.present[i] = DOMAIN ts
    BY DEF Plane
<1> HIDE DEF p, lanes, ts
<1>3. p.series_id \in Seq(Int) /\ DOMAIN p.series_id = DOMAIN lanes
    <2>1. \A i \in DOMAIN lanes : lanes[i] \in Keys
        BY <1>1
    <2>2. \A i \in DOMAIN lanes : lanes[i][1] \in Int
        BY <2>1 DEF Keys
    <2>3. Len(lanes) \in Nat /\ DOMAIN lanes = 1 .. Len(lanes)
        BY <1>1
    <2>4. p.series_id \in [1 .. Len(lanes) -> Int]
        BY <1>2, <2>2, <2>3
    <2> QED
        BY <2>3, <2>4
<1>4. NonDecreasing(p.series_id)
    BY <1>1, <1>2, <1>3 DEF NonDecreasing
<1>5. PlaneOK(p)
    BY <1>1, <1>2, <1>3, <1>4 DEF PlaneOK
<1> QED
    BY <1>2, <1>3, <1>5 DEF p, lanes, ts

(* A cell is present exactly if it has a row, and holds the last of them. *)
LEMMA PlaneCells ==
    ASSUME NEW rs \in Seq(Row), NEW K \in SUBSET DOMAIN rs, NEW dec \in BOOLEAN,
           NEW i \in DOMAIN Lanes(rs, K), NEW j \in DOMAIN Times(rs, K)
    PROVE  /\ (Plane(rs, K, dec).present[i][j] # 0) <=> \E k \in K : InCell(rs, i, j, K, k)
           /\ (\E k \in K : InCell(rs, i, j, K, k)) =>
                 \E k \in K : /\ InCell(rs, i, j, K, k)
                              /\ \A m \in K : InCell(rs, i, j, K, m) => m <= k
                              /\ Plane(rs, K, dec).values[i][j] = Value(rs[k], dec)
<1> DEFINE p == Plane(rs, K, dec)
           lanes == Lanes(rs, K)
           ts == Times(rs, K)
           cell == {k \in K : LaneKey(rs[k]) = lanes[i] /\ rs[k].ts = ts[j]}
<1>1. cell = {k \in K : InCell(rs, i, j, K, k)}
    BY DEF InCell
<1>2. /\ p.present[i][j] = IF cell = {} THEN 0 ELSE 1
      /\ cell # {} => p.values[i][j] = Value(rs[Max(cell)], dec)
    BY DEF Plane, Value
<1>3. ASSUME cell # {}
      PROVE  Max(cell) \in cell /\ \A m \in cell : m <= Max(cell)
    <2>1. DOMAIN rs = 1 .. Len(rs) /\ Len(rs) \in Nat
        OBVIOUS
    <2>2. cell \in SUBSET Nat /\ \A m \in cell : m <= Len(rs)
        BY <2>1
    <2> HIDE DEF cell
    <2>3. \E k \in cell : \A m \in cell : m <= k
        BY <1>3, <2>1, <2>2, GreatestNat
    <2>4. \E k \in cell : \A m \in cell : k >= m
        BY <2>2, <2>3
    <2>5. Max(cell) \in cell /\ \A m \in cell : Max(cell) >= m
        BY <2>4 DEF Max
    <2> QED
        BY <2>2, <2>5
<1> HIDE DEF cell, p
<1> QED
    BY <1>1, <1>2, <1>3 DEF p

(* The row a reader is given for a cell is a row of the cell, its value    *)
(* aside: the null lanes are told apart from gpu 0 and instance 0.         *)
LEMMA EmitsRow ==
    ASSUME NEW rs \in Seq(Row), NEW K \in SUBSET DOMAIN rs, NEW dec \in BOOLEAN,
           NEW i \in DOMAIN Lanes(rs, K), NEW j \in DOMAIN Times(rs, K),
           NEW k \in K, InCell(rs, i, j, K, k),
           NEW val_i, NEW val_d
    PROVE  EmitRow(Plane(rs, K, dec), i, j, val_i, val_d)
           = [ts |-> rs[k].ts, series |-> rs[k].series, gpu |-> rs[k].gpu,
              inst |-> rs[k].inst, val_i |-> val_i, val_d |-> val_d]
<1> DEFINE p == Plane(rs, K, dec)
           lanes == Lanes(rs, K)
           r == rs[k]
<1>1. /\ p.ts[j] = Times(rs, K)[j]
      /\ p.series_id[i] = lanes[i][1]
      /\ p.gpu[i] = OrZero(lanes[i][2]) /\ p.gpu_null[i] = IsNull(lanes[i][2])
      /\ p.inst[i] = OrZero(lanes[i][3]) /\ p.inst_null[i] = IsNull(lanes[i][3])
    BY DEF Plane
<1>2. r \in Row
    OBVIOUS
<1>3. LaneKey(r) = lanes[i] /\ r.ts = Times(rs, K)[j]
    BY DEF InCell
<1>4. /\ lanes[i][1] = r.series
      /\ lanes[i][2] = IF r.gpu # NULL THEN r.gpu ELSE NullKey
      /\ lanes[i][3] = IF r.inst # NULL THEN r.inst ELSE NullKey
    BY <1>3 DEF LaneKey
<1> HIDE DEF p, lanes, r
<1>5. /\ (IF p.gpu_null[i] # 0 THEN NULL ELSE p.gpu[i]) = r.gpu
      /\ (IF p.inst_null[i] # 0 THEN NULL ELSE p.inst[i]) = r.inst
    BY <1>1, <1>2, <1>4, RowsAssumption DEF OrZero, IsNull, Row
<1>6. EmitRow(p, i, j, val_i, val_d)
      = [ts |-> r.ts, series |-> r.series, gpu |-> r.gpu,
         inst |-> r.inst, val_i |-> val_i, val_d |-> val_d]
    BY <1>1, <1>3, <1>4, <1>5 DEF EmitRow
<1> QED
    BY <1>6 DEF p, r

-----------------------------------------------------------------------------
(* The cells of a window *)

(* The least and the greatest of two numbers. *)
LEMMA OfTwo ==
    ASSUME NEW a \in Int, NEW b \in Int
    PROVE  /\ Min({a, b}) = IF a <= b THEN a ELSE b
           /\ Max({a, b}) = IF a <= b THEN b ELSE a
<1>1. CASE a <= b
    <2>1. /\ \A x : (x \in {a, b} /\ \A y \in {a, b} : x <= y) <=> x = a
          /\ \A x : (x \in {a, b} /\ \A y \in {a, b} : x >= y) <=> x = b
        BY <1>1
    <2> QED
        BY <1>1, <2>1 DEF Min, Max
<1>2. CASE b < a
    <2>1. /\ \A x : (x \in {a, b} /\ \A y \in {a, b} : x <= y) <=> x = b
          /\ \A x : (x \in {a, b} /\ \A y \in {a, b} : x >= y) <=> x = a
        BY <1>2
    <2> QED
        BY <1>2, <2>1 DEF Min, Max
<1> QED
    BY <1>1, <1>2

(* Whichever index Arrays.binarySearch hits, the runs around the hits are  *)
(* all lanes of the series asked for.                                      *)
LEMMA RunsAreLanes ==
    ASSUME NEW series \in Seq(Int), NonDecreasing(series), NEW ids, NEW H \in Hits(series, ids)
    PROVE  SelectedLanes(series, H) = {i \in DOMAIN series : series[i] \in ids}
<1>1. /\ H \subseteq DOMAIN series
      /\ {series[h] : h \in H} = ids \cap {series[i] : i \in DOMAIN series}
    BY DEF Hits, ToSet
<1>2. /\ DOMAIN series \subseteq Int
      /\ \A i \in DOMAIN series : series[i] \in Int
      /\ \A i, j \in DOMAIN series : \A k \in i .. j : k \in DOMAIN series
    <2>1. Len(series) \in Nat /\ DOMAIN series = 1 .. Len(series)
        OBVIOUS
    <2> QED
        BY <2>1
<1>3. ASSUME NEW h \in H, NEW i \in Run(series, h)
      PROVE  i \in DOMAIN series /\ series[i] \in ids
    <2>1. i \in DOMAIN series /\ \A j \in Min({i, h}) .. Max({i, h}) : series[j] = series[h]
        BY DEF Run
    <2>2. i \in Min({i, h}) .. Max({i, h})
        <3>1. i \in Int /\ h \in Int
            BY <1>1, <1>2, <2>1
        <3> QED
            BY <3>1, OfTwo
    <2>3. series[i] = series[h] /\ series[h] \in {series[g] : g \in H}
        BY <2>1, <2>2
    <2> QED
        BY <1>1, <2>1, <2>3
<1>4. ASSUME NEW i \in DOMAIN series, series[i] \in ids
      PROVE  \E h \in H : i \in Run(series, h)
    <2>1. series[i] \in {series[h] : h \in H}
        BY <1>1, <1>4
    <2>2. PICK h \in H : series[h] = series[i]
        BY <2>1
    <2>3. ASSUME NEW j \in Min({i, h}) .. Max({i, h}) PROVE series[j] = series[h]
        <3>1. h \in DOMAIN series /\ i \in Int /\ h \in Int
            BY <1>1, <1>2
        <3>2. j \in i .. h \/ j \in h .. i
            BY <3>1, OfTwo
        <3>3. j \in DOMAIN series /\ j \in Int
            BY <1>2, <3>1, <3>2
        <3>4. CASE j = i \/ j = h
            BY <2>2, <3>4
        <3>5. CASE j # i /\ j # h
            <4>1. (i < j /\ j < h) \/ (h < j /\ j < i)
                BY <3>1, <3>2, <3>3, <3>5
            <4> QED
                BY <1>2, <2>2, <3>1, <3>3, <4>1 DEF NonDecreasing
        <3> QED
            BY <3>4, <3>5
    <2> QED
        BY <2>3 DEF Run
<1>5. \A i : i \in SelectedLanes(series, H) <=> \E h \in H : i \in Run(series, h)
    BY DEF SelectedLanes
<1> QED
    BY <1>3, <1>4, <1>5

(* A row of series series at time ts is asked for, the hour aside. *)
InWindow(ts, series, win) ==
    /\ win.tsLo = NULL \/ win.tsLo <= ts
    /\ win.tsHi = NULL \/ ts <= win.tsHi
    /\ win.seriesIds = NULL \/ series \in win.seriesIds

(* The reader visits exactly the present cells of the window. *)
LEMMA CellsOfWindow ==
    ASSUME NEW p, PlaneOK(p), p.ts \in Seq(Int), p.series_id \in Seq(Int),
           NEW win, win.tsLo \in Int \cup {NULL}, win.tsHi \in Int \cup {NULL},
           NEW lanes \in LaneChoices(p, win),
           NEW i, NEW j
    PROVE  <<i, j>> \in Cells(p, win, lanes)
           <=> /\ i \in DOMAIN p.series_id /\ j \in DOMAIN p.ts
               /\ p.present[i][j] # 0
               /\ InWindow(p.ts[j], p.series_id[i], win)
<1> DEFINE t0 == IF win.tsLo = NULL THEN 0 ELSE LowerBound(p.ts, win.tsLo)
           t1 == IF win.tsHi = NULL THEN Len(p.ts) - 1
                 ELSE UpperBoundInclusive(p.ts, win.tsHi)
<1>1. /\ Increasing(p.ts) /\ NonDecreasing(p.series_id)
      /\ DOMAIN p.ts = 1 .. Len(p.ts) /\ Len(p.ts) \in Nat
    BY DEF PlaneOK
<1>2. /\ t0 \in 0 .. Len(p.ts)
      /\ \A m \in DOMAIN p.ts : (win.tsLo = NULL \/ win.tsLo <= p.ts[m]) <=> t0 + 1 <= m
    <2>1. CASE win.tsLo = NULL
        BY <1>1, <2>1
    <2>2. CASE win.tsLo # NULL
        BY <1>1, <2>2, LowerBoundFinds
    <2> QED
        BY <2>1, <2>2
<1>3. /\ t1 \in -1 .. Len(p.ts) - 1
      /\ \A m \in DOMAIN p.ts : (win.tsHi = NULL \/ p.ts[m] <= win.tsHi) <=> m <= t1 + 1
    <2>1. CASE win.tsHi = NULL
        BY <1>1, <2>1
    <2>2. CASE win.tsHi # NULL
        BY <1>1, <2>2, UpperBoundInclusiveFinds
    <2> QED
        BY <2>1, <2>2
<1>4. i \in lanes <=> /\ i \in DOMAIN p.series_id
                      /\ win.seriesIds = NULL \/ p.series_id[i] \in win.seriesIds
    <2>1. CASE win.seriesIds = NULL
        BY <2>1 DEF LaneChoices
    <2>2. CASE win.seriesIds # NULL
        <3>1. PICK H \in Hits(p.series_id, win.seriesIds) : lanes = SelectedLanes(p.series_id, H)
            BY <2>2 DEF LaneChoices
        <3>2. lanes = {m \in DOMAIN p.series_id : p.series_id[m] \in win.seriesIds}
            BY <1>1, <3>1, RunsAreLanes
        <3> QED
            BY <2>2, <3>2
    <2> QED
        BY <2>1, <2>2
<1>5. <<i, j>> \in Cells(p, win, lanes)
      <=> i \in lanes /\ j \in t0 + 1 .. t1 + 1 /\ p.present[i][j] # 0
    BY DEF Cells
<1> HIDE DEF t0, t1
<1>6. j \in t0 + 1 .. t1 + 1 <=> j \in DOMAIN p.ts /\ t0 + 1 <= j /\ j <= t1 + 1
    BY <1>1, <1>2, <1>3
<1> QED
    BY <1>2, <1>3, <1>4, <1>5, <1>6 DEF InWindow

-----------------------------------------------------------------------------
(* What is written is read *)

(* The rows of K a plane keeps: the last of its cell. *)
Kept(rs, K) ==
    {k \in K : \A m \in K :
        m > k => ~(LaneKey(rs[k]) = LaneKey(rs[m]) /\ rs[k].ts = rs[m].ts)}

(* The rows to be read from the two planes in a window. *)
IntRows(rs, win) == {rs[k] : k \in {k \in Kept(rs, Ints(rs)) :
                                      InWindow(rs[k].ts, rs[k].series, win)}}
DecRows(rs, win) == {rs[k] : k \in {k \in Kept(rs, Decs(rs)) :
                                      InWindow(rs[k].ts, rs[k].series, win)}}

(* What a cell of a plane gives for a row of it. *)
Gives(p, i, j, r, dec) ==
    /\ p.values[i][j] = Value(r, dec)
    /\ \A val_i, val_d :
           EmitRow(p, i, j, val_i, val_d)
           = [ts |-> r.ts, series |-> r.series, gpu |-> r.gpu,
              inst |-> r.inst, val_i |-> val_i, val_d |-> val_d]

(* The windows of a scan, that of the whole file among them. *)
IsWindow(win) ==
    win.tsLo \in Int \cup {NULL} /\ win.tsHi \in Int \cup {NULL}

(* A visited cell gives a kept row of the plane that lies in the window. *)
LEMMA CellGivesRow ==
    ASSUME NEW rs \in Seq(Row), NEW K \in SUBSET DOMAIN rs, NEW dec \in BOOLEAN,
           NEW win, IsWindow(win), NEW lanes \in LaneChoices(Plane(rs, K, dec), win),
           NEW i, NEW j, <<i, j>> \in Cells(Plane(rs, K, dec), win, lanes)
    PROVE  \E k \in Kept(rs, K) :
               /\ InWindow(rs[k].ts, rs[k].series, win)
               /\ Gives(Plane(rs, K, dec), i, j, rs[k], dec)
<1> DEFINE p == Plane(rs, K, dec)
<1>1. /\ PlaneOK(p) /\ p.ts = Times(rs, K) /\ p.ts \in Seq(Int) /\ p.series_id \in Seq(Int)
      /\ DOMAIN p.series_id = DOMAIN Lanes(rs, K)
      /\ \A m \in DOMAIN Lanes(rs, K) : p.series_id[m] = Lanes(rs, K)[m][1]
    BY PlaneShape, TimesSorted
<1>2. /\ i \in DOMAIN p.series_id /\ j \in DOMAIN p.ts /\ p.present[i][j] # 0
      /\ InWindow(p.ts[j], p.series_id[i], win)
    <2> HIDE DEF p
    <2>1. p = Plane(rs, K, dec)
        BY DEF p
    <2> QED
        BY <1>1, <2>1, CellsOfWindow DEF IsWindow
<1>3. i \in DOMAIN Lanes(rs, K) /\ j \in DOMAIN Times(rs, K)
    BY <1>1, <1>2
<1>4. PICK k \in K : /\ InCell(rs, i, j, K, k)
                     /\ \A m \in K : InCell(rs, i, j, K, m) => m <= k
                     /\ p.values[i][j] = Value(rs[k], dec)
    BY <1>2, <1>3, PlaneCells
<1>5. k \in Kept(rs, K)
    <2>1. DOMAIN rs \subseteq Int
        OBVIOUS
    <2>2. ASSUME NEW m \in K, m > k, LaneKey(rs[k]) = LaneKey(rs[m]), rs[k].ts = rs[m].ts
          PROVE  FALSE
        <3>1. InCell(rs, i, j, K, m)
            BY <1>4, <2>2 DEF InCell
        <3>2. m <= k /\ m \in Int /\ k \in Int
            BY <1>4, <2>1, <3>1
        <3> QED
            BY <2>2, <3>2
    <2> QED
        BY <2>2 DEF Kept
<1>6. InWindow(rs[k].ts, rs[k].series, win)
    <2>1. rs[k].ts = p.ts[j] /\ rs[k].series = p.series_id[i]
        BY <1>1, <1>3, <1>4 DEF InCell, LaneKey
    <2> QED
        BY <1>2, <2>1
<1>7. \A val_i, val_d :
          EmitRow(p, i, j, val_i, val_d)
          = [ts |-> rs[k].ts, series |-> rs[k].series, gpu |-> rs[k].gpu,
             inst |-> rs[k].inst, val_i |-> val_i, val_d |-> val_d]
    BY <1>3, <1>4, EmitsRow
<1> QED
    BY <1>4, <1>5, <1>6, <1>7 DEF Gives

(* Every kept row that lies in the window has a cell that is visited. *)
LEMMA RowHasCell ==
    ASSUME NEW rs \in Seq(Row), NEW K \in SUBSET DOMAIN rs, NEW dec \in BOOLEAN,
           NEW win, IsWindow(win), NEW lanes \in LaneChoices(Plane(rs, K, dec), win),
           NEW k \in Kept(rs, K), InWindow(rs[k].ts, rs[k].series, win)
    PROVE  \E i, j :
               /\ <<i, j>> \in Cells(Plane(rs, K, dec), win, lanes)
               /\ Gives(Plane(rs, K, dec), i, j, rs[k], dec)
<1> DEFINE p == Plane(rs, K, dec)
<1>1. /\ PlaneOK(p) /\ p.ts = Times(rs, K) /\ p.ts \in Seq(Int) /\ p.series_id \in Seq(Int)
      /\ DOMAIN p.series_id = DOMAIN Lanes(rs, K)
      /\ \A m \in DOMAIN Lanes(rs, K) : p.series_id[m] = Lanes(rs, K)[m][1]
    BY PlaneShape, TimesSorted
<1>2. k \in K /\ DOMAIN rs \subseteq Int
    BY DEF Kept
<1>3. PICK i \in DOMAIN Lanes(rs, K) : Lanes(rs, K)[i] = LaneKey(rs[k])
    BY <1>2, LanesSorted
<1>4. PICK j \in DOMAIN Times(rs, K) : Times(rs, K)[j] = rs[k].ts
    BY <1>2, TimesSorted
<1>5. InCell(rs, i, j, K, k)
    BY <1>3, <1>4 DEF InCell
<1>6. <<i, j>> \in Cells(p, win, lanes)
    <2>1. p.present[i][j] # 0
        BY <1>2, <1>5, PlaneCells
    <2>2. p.ts[j] = rs[k].ts /\ p.series_id[i] = rs[k].series
        BY <1>1, <1>3, <1>4 DEF LaneKey
    <2>3. i \in DOMAIN p.series_id /\ j \in DOMAIN p.ts
        BY <1>1
    <2>4. p = Plane(rs, K, dec)
        OBVIOUS
    <2> HIDE DEF p
    <2> QED
        BY <1>1, <2>1, <2>2, <2>3, <2>4, CellsOfWindow DEF IsWindow
<1>7. p.values[i][j] = Value(rs[k], dec)
    <2>1. PICK m \in K : /\ InCell(rs, i, j, K, m)
                         /\ \A n \in K : InCell(rs, i, j, K, n) => n <= m
                         /\ p.values[i][j] = Value(rs[m], dec)
        BY <1>2, <1>5, PlaneCells
    <2>2. k <= m /\ ~(m > k) /\ k \in Int /\ m \in Int
        BY <1>2, <1>5, <2>1 DEF InCell, Kept
    <2>3. m = k
        BY <2>2
    <2> QED
        BY <2>1, <2>3
<1>8. \A val_i, val_d :
          EmitRow(p, i, j, val_i, val_d)
          = [ts |-> rs[k].ts, series |-> rs[k].series, gpu |-> rs[k].gpu,
             inst |-> rs[k].inst, val_i |-> val_i, val_d |-> val_d]
    BY <1>2, <1>5, EmitsRow
<1> QED
    BY <1>6, <1>7, <1>8 DEF Gives

(* A visited cell is a pair. *)
LEMMA CellIsPair ==
    ASSUME NEW p, NEW win, NEW lanes, NEW c \in Cells(p, win, lanes)
    PROVE  c = <<c[1], c[2]>>
BY DEF Cells

(* A row without a decimal is its integer cell. *)
LEMMA IntCellIsRow ==
    ASSUME NEW r \in Row, r.val_d = NULL
    PROVE  r = [ts |-> r.ts, series |-> r.series, gpu |-> r.gpu, inst |-> r.inst,
                val_i |-> r.val_i, val_d |-> NULL]
BY DEF Row

(* Descaling a scaled decimal that is not too fine gives it back. *)
LEMMA DecCellIsRow ==
    ASSUME NEW r \in Row, r.val_i = NULL, r.val_d # NULL, ~TooFine(r.val_d)
    PROVE  r = [ts |-> r.ts, series |-> r.series, gpu |-> r.gpu, inst |-> r.inst,
                val_i |-> NULL, val_d |-> (r.val_d \div Unit) * Unit]
<1>1. r.val_d \in Int /\ Unit \in Nat /\ Unit > 0
    BY RowsAssumption DEF Row
<1>2. r.val_d % Unit = 0
    BY DEF TooFine
<1>3. \A d \in Int, u \in Nat : u > 0 /\ d % u = 0 => (d \div u) * u = d
    OBVIOUS
<1>4. (r.val_d \div Unit) * Unit = r.val_d
    BY <1>1, <1>2, <1>3
<1>5. r = [ts |-> r.ts, series |-> r.series, gpu |-> r.gpu, inst |-> r.inst,
           val_i |-> NULL, val_d |-> r.val_d]
    BY DEF Row
<1> QED
    BY <1>4, <1>5

(* Rows with integers, in the window, are what the int plane gives. *)
LEMMA IntsRead ==
    ASSUME NEW rs \in Inputs, rs # <<>>, OneValue(rs), NEW win, IsWindow(win),
           NEW given \in ReadInts(IntGroup(rs), win)
    PROVE  given = IntRows(rs, win)
<1> DEFINE K == Ints(rs)
           p == IntPlane(rs)
<1>1. rs \in Seq(Row) /\ K \in SUBSET DOMAIN rs /\ Kept(rs, K) \subseteq K
    BY RowsAssumption DEF Ints, Kept
<1>2. CASE K = {}
    BY <1>1, <1>2 DEF IntGroup, ReadInts, IntRows
<1>3. CASE K # {}
    <2>1. IntGroup(rs) = p /\ p # NoGroup /\ p = Plane(rs, K, FALSE)
        BY <1>3, MarksAssumption DEF IntGroup, IntPlane
    <2>2. PICK lanes \in LaneChoices(p, win) :
              given = {EmitRow(p, c[1], c[2], p.values[c[1]][c[2]], NULL) :
                          c \in Cells(p, win, lanes)}
        <3> HIDE DEF p
        <3>1. given \in ReadInts(p, win)
            BY <2>1
        <3>2. ReadInts(p, win)
              = {{EmitRow(p, c[1], c[2], p.values[c[1]][c[2]], NULL) :
                     c \in Cells(p, win, lanes)} : lanes \in LaneChoices(p, win)}
            BY <2>1, Zenon DEF ReadInts
        <3>3. given \in {{EmitRow(p, c[1], c[2], p.values[c[1]][c[2]], NULL) :
                             c \in Cells(p, win, lanes)} : lanes \in LaneChoices(p, win)}
            BY <3>1, <3>2, Zenon
        <3> QED
            BY <3>3
    <2>3. ASSUME NEW k \in K PROVE rs[k] \in Row /\ rs[k].val_d = NULL
        BY <1>1 DEF OneValue, Ints
    <2>4. ASSUME NEW r \in given PROVE r \in IntRows(rs, win)
        <3>1. PICK c \in Cells(p, win, lanes) :
                  r = EmitRow(p, c[1], c[2], p.values[c[1]][c[2]], NULL)
            BY <2>2
        <3>2. <<c[1], c[2]>> \in Cells(p, win, lanes)
            BY CellIsPair
        <3>3. PICK k \in Kept(rs, K) :
                  /\ InWindow(rs[k].ts, rs[k].series, win)
                  /\ Gives(p, c[1], c[2], rs[k], FALSE)
            <4> HIDE DEF p, K
            <4> QED
                BY <1>1, <2>1, <3>2, CellGivesRow
        <3>4. r = rs[k]
            <4>1. rs[k] \in Row /\ rs[k].val_d = NULL
                BY <1>1, <2>3
            <4>2. r = [ts |-> rs[k].ts, series |-> rs[k].series, gpu |-> rs[k].gpu,
                       inst |-> rs[k].inst, val_i |-> rs[k].val_i, val_d |-> NULL]
                <5> HIDE DEF p, K
                <5> QED
                    BY <3>1, <3>3 DEF Gives, Value
            <4> QED
                BY <4>1, <4>2, IntCellIsRow
        <3> QED
            BY <3>3, <3>4 DEF IntRows
    <2>5. ASSUME NEW r \in IntRows(rs, win) PROVE r \in given
        <3>1. PICK k \in Kept(rs, K) : r = rs[k] /\ InWindow(rs[k].ts, rs[k].series, win)
            BY DEF IntRows
        <3>2. PICK i, j :
                  /\ <<i, j>> \in Cells(p, win, lanes)
                  /\ Gives(p, i, j, rs[k], FALSE)
            <4> HIDE DEF p, K
            <4> QED
                BY <1>1, <2>1, <3>1, RowHasCell
        <3>3. EmitRow(p, i, j, p.values[i][j], NULL) = rs[k]
            <4>1. rs[k] \in Row /\ rs[k].val_d = NULL
                BY <1>1, <2>3
            <4>2. EmitRow(p, i, j, p.values[i][j], NULL)
                  = [ts |-> rs[k].ts, series |-> rs[k].series, gpu |-> rs[k].gpu,
                     inst |-> rs[k].inst, val_i |-> rs[k].val_i, val_d |-> NULL]
                <5> HIDE DEF p, K
                <5> QED
                    BY <3>2 DEF Gives, Value
            <4> HIDE DEF p, K
            <4> QED
                BY <4>1, <4>2, IntCellIsRow
        <3>4. \A c \in Cells(p, win, lanes) :
                  EmitRow(p, c[1], c[2], p.values[c[1]][c[2]], NULL) \in given
            <4> HIDE DEF p, K
            <4> QED
                BY <2>2
        <3> HIDE DEF p, K
        <3>5. EmitRow(p, i, j, p.values[i][j], NULL) \in given
            BY <3>2, <3>4
        <3> QED
            BY <3>1, <3>3, <3>5
    <2> QED
        BY <2>4, <2>5
<1> QED
    BY <1>2, <1>3

(* Rows with decimals, in the window, are what the dec plane gives, if the *)
(* writer did not fail on any of them.                                     *)
LEMMA DecsRead ==
    ASSUME NEW rs \in Inputs, rs # <<>>, OneValue(rs), NEW win, IsWindow(win),
           \A k \in Decs(rs) : ~TooFine(rs[k].val_d),
           NEW given \in ReadDecs(DecGroup(rs), win)
    PROVE  given = DecRows(rs, win)
<1> DEFINE K == Decs(rs)
           p == DecPlane(rs)
<1>1. rs \in Seq(Row) /\ K \in SUBSET DOMAIN rs /\ Kept(rs, K) \subseteq K
    BY RowsAssumption DEF Decs, Kept
<1>2. CASE K = {}
    BY <1>1, <1>2 DEF DecGroup, ReadDecs, DecRows
<1>3. CASE K # {}
    <2>1. DecGroup(rs) = p /\ p # NoGroup /\ p = Plane(rs, K, TRUE)
        BY <1>3, MarksAssumption DEF DecGroup, DecPlane
    <2>2. PICK lanes \in LaneChoices(p, win) :
              given = {EmitRow(p, c[1], c[2], NULL, p.values[c[1]][c[2]] * Unit) :
                          c \in Cells(p, win, lanes)}
        <3> HIDE DEF p
        <3>1. given \in ReadDecs(p, win)
            BY <2>1
        <3>2. ReadDecs(p, win)
              = {{EmitRow(p, c[1], c[2], NULL, p.values[c[1]][c[2]] * Unit) :
                     c \in Cells(p, win, lanes)} : lanes \in LaneChoices(p, win)}
            BY <2>1, Zenon DEF ReadDecs
        <3>3. given \in {{EmitRow(p, c[1], c[2], NULL, p.values[c[1]][c[2]] * Unit) :
                             c \in Cells(p, win, lanes)} : lanes \in LaneChoices(p, win)}
            BY <3>1, <3>2, Zenon
        <3> QED
            BY <3>3
    <2>3. ASSUME NEW k \in K
          PROVE  /\ rs[k] \in Row /\ rs[k].val_i = NULL
                 /\ rs[k].val_d # NULL /\ ~TooFine(rs[k].val_d)
        BY <1>1 DEF OneValue, Decs
    <2>4. ASSUME NEW r \in given PROVE r \in DecRows(rs, win)
        <3>1. PICK c \in Cells(p, win, lanes) :
                  r = EmitRow(p, c[1], c[2], NULL, p.values[c[1]][c[2]] * Unit)
            BY <2>2
        <3>2. <<c[1], c[2]>> \in Cells(p, win, lanes)
            BY CellIsPair
        <3>3. PICK k \in Kept(rs, K) :
                  /\ InWindow(rs[k].ts, rs[k].series, win)
                  /\ Gives(p, c[1], c[2], rs[k], TRUE)
            <4> HIDE DEF p, K
            <4> QED
                BY <1>1, <2>1, <3>2, CellGivesRow
        <3>4. r = rs[k]
            <4>1. r = [ts |-> rs[k].ts, series |-> rs[k].series, gpu |-> rs[k].gpu,
                       inst |-> rs[k].inst, val_i |-> NULL,
                       val_d |-> (rs[k].val_d \div Unit) * Unit]
                <5> HIDE DEF p, K
                <5> QED
                    BY <3>1, <3>3 DEF Gives, Value
            <4>2. k \in K
                BY <1>1
            <4> HIDE DEF p, K
            <4> QED
                BY <2>3, <4>1, <4>2, DecCellIsRow
        <3> QED
            BY <3>3, <3>4 DEF DecRows
    <2>5. ASSUME NEW r \in DecRows(rs, win) PROVE r \in given
        <3>1. PICK k \in Kept(rs, K) : r = rs[k] /\ InWindow(rs[k].ts, rs[k].series, win)
            BY DEF DecRows
        <3>2. PICK i, j :
                  /\ <<i, j>> \in Cells(p, win, lanes)
                  /\ Gives(p, i, j, rs[k], TRUE)
            <4> HIDE DEF p, K
            <4> QED
                BY <1>1, <2>1, <3>1, RowHasCell
        <3>3. EmitRow(p, i, j, NULL, p.values[i][j] * Unit) = rs[k]
            <4>1. EmitRow(p, i, j, NULL, p.values[i][j] * Unit)
                  = [ts |-> rs[k].ts, series |-> rs[k].series, gpu |-> rs[k].gpu,
                     inst |-> rs[k].inst, val_i |-> NULL,
                     val_d |-> (rs[k].val_d \div Unit) * Unit]
                <5> HIDE DEF p, K
                <5> QED
                    BY <3>2 DEF Gives, Value
            <4>2. k \in K
                BY <1>1
            <4> HIDE DEF p, K
            <4> QED
                BY <2>3, <4>1, <4>2, DecCellIsRow
        <3>4. \A c \in Cells(p, win, lanes) :
                  EmitRow(p, c[1], c[2], NULL, p.values[c[1]][c[2]] * Unit) \in given
            <4> HIDE DEF p, K
            <4> QED
                BY <2>2
        <3> HIDE DEF p, K
        <3>5. EmitRow(p, i, j, NULL, p.values[i][j] * Unit) \in given
            BY <3>2, <3>4
        <3> QED
            BY <3>1, <3>3, <3>5
    <2> QED
        BY <2>4, <2>5
<1> QED
    BY <1>2, <1>3

-----------------------------------------------------------------------------
(* The inductive invariant *)

Attributes(rs, int, dec) == [[Header(rs) EXCEPT !.int = int] EXCEPT !.dec = dec]

(* A file that was never written, or as write_signal_hdf5 leaves it.       *)
Whole(rs) == Attributes(rs, IntGroup(rs), DecGroup(rs))
Broken(rs) == Attributes(rs, IntGroup(rs), EmptyGroup)
Left == {NoFile} \cup {Whole(rs) : rs \in Inputs \ {<<>>}}
                 \cup {Broken(rs) : rs \in Inputs \ {<<>>}}

(* What the file holds at each step of a write.                            *)
FileInv ==
    /\ writer \in {"idle", "create", "int", "dec"} /\ complete \in BOOLEAN
    /\ writes \in 0 .. MaxWrites
    /\ input \in Inputs \cup {<<>>}
    /\ input = <<>> <=> writer = "idle" /\ file = NoFile
    /\ complete => writer = "idle" /\ input # <<>>
    /\ writer = "create" => file \in Left
    /\ writer = "int" => file = Attributes(input, NoGroup, NoGroup)
    /\ writer = "dec" => file = Attributes(input, IntGroup(input), NoGroup)
    /\ writer = "idle" /\ input # <<>> =>
          file = IF complete THEN Whole(input) ELSE Broken(input)
    /\ complete => \A k \in Decs(input) : ~TooFine(input[k].val_d)

(* What the reader has of it.                                              *)
ReaderInv ==
    /\ reader \in {"idle", "open", "int", "dec"} /\ window \in Windows \cup {NULL}
    /\ reader # "idle" => writer = "idle" /\ window # NULL /\ answer = NULL
    /\ answer # NULL => window # NULL
    /\ reader \in {"int", "dec"} => input # <<>> /\ ~Skips(file, window)
    /\ reader = "dec" => out \in ReadInts(file.int, window)

Inv == FileInv /\ ReaderInv

(* The attributes and the planes of a file. *)
LEMMA FileRecord ==
    ASSUME NEW rs, NEW int, NEW dec
    PROVE  Attributes(rs, int, dec)
           = [epoch_hour |-> EpochHour,
              ts_min |-> Min({r.ts : r \in ToSet(rs)}),
              ts_max |-> Max({r.ts : r \in ToSet(rs)}),
              series_min |-> Min({r.series : r \in ToSet(rs)}),
              series_max |-> Max({r.series : r \in ToSet(rs)}),
              n_rows |-> Len(rs), int |-> int, dec |-> dec]
<1> DEFINE ta == Min({r.ts : r \in ToSet(rs)})
           tb == Max({r.ts : r \in ToSet(rs)})
           sa == Min({r.series : r \in ToSet(rs)})
           sb == Max({r.series : r \in ToSet(rs)})
           n == Len(rs)
           h == Header(rs)
           g == [h EXCEPT !.int = int]
           f == [g EXCEPT !.dec = dec]
<1>1. h = [epoch_hour |-> EpochHour, ts_min |-> ta, ts_max |-> tb, series_min |-> sa,
           series_max |-> sb, n_rows |-> n, int |-> NoGroup, dec |-> NoGroup]
    BY DEF Header
<1>2. Attributes(rs, int, dec) = f
    BY DEF Attributes
<1> HIDE DEF ta, tb, sa, sb, n, h
<1>3. g = [epoch_hour |-> EpochHour, ts_min |-> ta, ts_max |-> tb, series_min |-> sa,
           series_max |-> sb, n_rows |-> n, int |-> int, dec |-> NoGroup]
    BY <1>1
<1> HIDE DEF g
<1>4. f = [epoch_hour |-> EpochHour, ts_min |-> ta, ts_max |-> tb, series_min |-> sa,
           series_max |-> sb, n_rows |-> n, int |-> int, dec |-> dec]
    BY <1>3
<1> HIDE DEF f
<1> QED
    BY <1>2, <1>4 DEF ta, tb, sa, sb, n

LEMMA FilePlanes ==
    ASSUME NEW rs, NEW int, NEW dec
    PROVE  Attributes(rs, int, dec).int = int /\ Attributes(rs, int, dec).dec = dec
BY FileRecord

LEMMA FileBounds ==
    ASSUME NEW rs, NEW int, NEW dec
    PROVE  /\ Attributes(rs, int, dec).epoch_hour = EpochHour
           /\ Attributes(rs, int, dec).ts_min = Min({r.ts : r \in ToSet(rs)})
           /\ Attributes(rs, int, dec).ts_max = Max({r.ts : r \in ToSet(rs)})
           /\ Attributes(rs, int, dec).series_min = Min({r.series : r \in ToSet(rs)})
           /\ Attributes(rs, int, dec).series_max = Max({r.series : r \in ToSet(rs)})
           /\ Attributes(rs, int, dec).n_rows = Len(rs)
BY FileRecord

(* How a write fills a file. *)
LEMMA FileSteps ==
    ASSUME NEW rs, NEW int, NEW dec
    PROVE  /\ Header(rs) = Attributes(rs, NoGroup, NoGroup)
           /\ [Attributes(rs, NoGroup, NoGroup) EXCEPT !.int = int] = Attributes(rs, int, NoGroup)
           /\ [Attributes(rs, int, NoGroup) EXCEPT !.dec = dec] = Attributes(rs, int, dec)
<1> DEFINE ta == Min({r.ts : r \in ToSet(rs)})
           tb == Max({r.ts : r \in ToSet(rs)})
           sa == Min({r.series : r \in ToSet(rs)})
           sb == Max({r.series : r \in ToSet(rs)})
           n == Len(rs)
           a == Attributes(rs, NoGroup, NoGroup)
           b == Attributes(rs, int, NoGroup)
           c == Attributes(rs, int, dec)
<1>1. /\ Header(rs) = [epoch_hour |-> EpochHour, ts_min |-> ta, ts_max |-> tb,
                       series_min |-> sa, series_max |-> sb, n_rows |-> n,
                       int |-> NoGroup, dec |-> NoGroup]
      /\ a = [epoch_hour |-> EpochHour, ts_min |-> ta, ts_max |-> tb,
              series_min |-> sa, series_max |-> sb, n_rows |-> n,
              int |-> NoGroup, dec |-> NoGroup]
      /\ b = [epoch_hour |-> EpochHour, ts_min |-> ta, ts_max |-> tb,
              series_min |-> sa, series_max |-> sb, n_rows |-> n,
              int |-> int, dec |-> NoGroup]
      /\ c = [epoch_hour |-> EpochHour, ts_min |-> ta, ts_max |-> tb,
              series_min |-> sa, series_max |-> sb, n_rows |-> n,
              int |-> int, dec |-> dec]
    BY FileRecord DEF Header
<1> HIDE DEF ta, tb, sa, sb, n, a, b, c
<1>2. Header(rs) = a
    BY <1>1
<1>3. [a EXCEPT !.int = int] = b
    BY <1>1
<1>4. [b EXCEPT !.dec = dec] = c
    BY <1>1
<1> QED
    BY <1>2, <1>3, <1>4 DEF a, b, c

(* A file at the path is told from none. *)
LEMMA FileExists ==
    ASSUME NEW rs \in Inputs \ {<<>>}
    PROVE  /\ Attributes(rs, NoGroup, NoGroup) # NoFile
           /\ Attributes(rs, IntGroup(rs), NoGroup) # NoFile
           /\ Whole(rs) # NoFile /\ Broken(rs) # NoFile
<1>1. \A int \in {NoGroup, IntGroup(rs)}, dec \in {NoGroup, EmptyGroup, DecGroup(rs)} :
          [[Header(rs) EXCEPT !.int = int] EXCEPT !.dec = dec] # NoFile
    BY MarksAssumption
<1>2. \A int \in {NoGroup, IntGroup(rs)}, dec \in {NoGroup, EmptyGroup, DecGroup(rs)} :
          Attributes(rs, int, dec) # NoFile
    BY <1>1 DEF Attributes
<1> QED
    BY <1>2 DEF Whole, Broken

(* A plane of a write has the shape of one, or does not exist. *)
LEMMA GroupsShape ==
    ASSUME NEW rs \in Inputs \ {<<>>}
    PROVE  /\ IntGroup(rs) # NoGroup => PlaneOK(IntGroup(rs))
           /\ DecGroup(rs) # NoGroup => PlaneOK(DecGroup(rs))
           /\ DecGroup(rs) # EmptyGroup
<1>1. rs \in Seq(Row) /\ Ints(rs) \subseteq DOMAIN rs /\ Decs(rs) \subseteq DOMAIN rs
    BY RowsAssumption DEF Ints, Decs
<1>2. PlaneOK(IntPlane(rs))
    BY <1>1, PlaneShape DEF IntPlane
<1>3. PlaneOK(DecPlane(rs))
    BY <1>1, PlaneShape DEF DecPlane
<1> QED
    BY <1>2, <1>3, MarksAssumption DEF IntGroup, DecGroup

(* The inductive invariant holds of the initial state. *)
LEMMA InitInv == Init => Inv
<1> SUFFICES ASSUME Init PROVE Inv
    OBVIOUS
<1>1. writes \in 0 .. MaxWrites
    BY RowsAssumption DEF Init
<1>2. input = <<>> /\ file = NoFile /\ writer = "idle" /\ complete = FALSE
    BY DEF Init
<1>3. FileInv
    BY <1>1, <1>2 DEF FileInv
<1>4. ReaderInv
    BY DEF Init, ReaderInv
<1> QED
    BY <1>3, <1>4 DEF Inv

(* The writer's steps, and those of the reader, keep it. *)
LEMMA NextInv == Inv /\ [Next]_vars => Inv'
<1> SUFFICES ASSUME Inv, [Next]_vars PROVE Inv'
    OBVIOUS
<1> USE DEF Inv
<1>1. ASSUME NEW rs \in IF writes = 0 THEN Inputs ELSE Rewrites, Accept(rs) PROVE Inv'
    <2>1. rs \in Inputs \ {<<>>}
        BY <1>1, RowsAssumption DEF Accept, Refused
    <2>2. file \in Left
        BY <1>1 DEF Accept, FileInv, Left
    <2>3. writes' \in 0 .. MaxWrites
        BY <1>1, RowsAssumption DEF Accept, FileInv
    <2>4. FileInv'
        BY <1>1, <2>1, <2>2, <2>3 DEF Accept, FileInv, Left, Whole, Broken, Attributes
    <2>5. ReaderInv'
        BY <1>1, <2>1 DEF Accept, ReaderInv
    <2> QED
        BY <2>4, <2>5
<1>2. CASE Create
    <2>1. input \in Inputs \ {<<>>} /\ input' = input
        BY <1>2 DEF Create, FileInv
    <2>2. file' = Attributes(input, NoGroup, NoGroup)
        BY <1>2, FileSteps DEF Create
    <2>3. FileInv'
        BY <1>2, <2>1, <2>2 DEF Create, FileInv
    <2>4. ReaderInv'
        BY <1>2 DEF Create, ReaderInv
    <2> QED
        BY <2>3, <2>4
<1>3. CASE WriteInt
    <2>1. input \in Inputs \ {<<>>} /\ input' = input
        BY <1>3 DEF WriteInt, FileInv
    <2>2. file' = Attributes(input, IntGroup(input), NoGroup)
        BY <1>3, FileSteps DEF WriteInt, FileInv
    <2>3. FileInv'
        BY <1>3, <2>1, <2>2 DEF WriteInt, FileInv
    <2>4. ReaderInv'
        BY <1>3 DEF WriteInt, ReaderInv
    <2> QED
        BY <2>3, <2>4
<1>4. CASE WriteDec
    <2>1. input \in Inputs \ {<<>>} /\ input' = input
        BY <1>4 DEF WriteDec, FileInv
    <2>2. file' = Whole(input)
        BY <1>4, FileSteps DEF WriteDec, FileInv, Whole
    <2>3. file' = Whole(input') /\ \A k \in Decs(input') : ~TooFine(input'[k].val_d)
        BY <1>4, <2>1, <2>2 DEF WriteDec
    <2>4. writer' = "idle" /\ complete' = TRUE /\ writes' = writes
        BY <1>4 DEF WriteDec
    <2>6. FileInv'
        <3>1. writes' \in 0 .. MaxWrites /\ input' \in Inputs \cup {<<>>} /\ input' # <<>>
            BY <2>1, <2>4 DEF FileInv
        <3>2. /\ writer' = "idle" /\ input' # <<>> =>
                     file' = IF complete' THEN Whole(input') ELSE Broken(input')
              /\ complete' => \A k \in Decs(input') : ~TooFine(input'[k].val_d)
            BY <2>3, <2>4
        <3>3. file' # NoFile
            BY <2>1, <2>2, FileExists
        <3> QED
            BY <2>4, <3>1, <3>2, <3>3 DEF FileInv
    <2>5. ReaderInv'
        BY <1>4 DEF WriteDec, ReaderInv
    <2> QED
        BY <2>5, <2>6
<1>5. CASE FailDec
    <2>1. input \in Inputs \ {<<>>} /\ input' = input
        BY <1>5 DEF FailDec, FileInv
    <2>2. file' = Broken(input)
        BY <1>5, FileSteps DEF FailDec, FileInv, Broken
    <2>5. writer' = "idle" /\ complete' = FALSE /\ writes' = writes
        BY <1>5 DEF FailDec, FileInv
    <2>3. FileInv'
        <3>1. writes' \in 0 .. MaxWrites /\ input' \in Inputs \cup {<<>>} /\ input' # <<>>
            BY <2>1, <2>5 DEF FileInv
        <3>2. writer' = "idle" /\ input' # <<>> =>
                  file' = IF complete' THEN Whole(input') ELSE Broken(input')
            BY <2>1, <2>2, <2>5
        <3>3. file' # NoFile
            BY <2>1, <2>2, FileExists
        <3> QED
            BY <2>5, <3>1, <3>2, <3>3 DEF FileInv
    <2>4. ReaderInv'
        BY <1>5 DEF FailDec, ReaderInv
    <2> QED
        BY <2>3, <2>4
<1>6. ASSUME NEW win \in Windows, Call(win) PROVE Inv'
    BY <1>6, WindowsAssumption DEF Call, FileInv, ReaderInv
<1>7. CASE Open
    BY <1>7 DEF Open, FileInv, ReaderInv
<1>8. CASE Skip
    BY <1>8 DEF Skip, Finish, FileInv, ReaderInv
<1>9. CASE ReadInt
    BY <1>9 DEF ReadInt, FileInv, ReaderInv
<1>10. CASE ReadDec
    BY <1>10 DEF ReadDec, Finish, FileInv, ReaderInv
<1>11. CASE ReadFails
    BY <1>11 DEF ReadFails, Finish, FileInv, ReaderInv
<1>12. CASE Taken
    BY <1>12, WindowsAssumption DEF Taken, FileInv, ReaderInv
<1>13. CASE UNCHANGED vars
    BY <1>13 DEF vars, FileInv, ReaderInv
<1> QED
    BY <1>1, <1>2, <1>3, <1>4, <1>5, <1>6, <1>7, <1>8, <1>9, <1>10, <1>11, <1>12, <1>13 DEF Next

LEMMA Invariance == Spec => []Inv
<1> QED
    BY InitInv, NextInv, PTL DEF Spec

(* Types, and the shape of the planes in every file, whole or broken. *)
THEOREM TypeCorrect == Spec => []TypeOK
<1>1. Inv => TypeOK
    <2> SUFFICES ASSUME Inv PROVE TypeOK
        OBVIOUS
    <2>1. /\ file # NoFile /\ file.int # NoGroup => PlaneOK(file.int)
          /\ file # NoFile /\ file.dec \notin {NoGroup, EmptyGroup} => PlaneOK(file.dec)
        <3>1. CASE writer = "create" \/ (writer = "idle" /\ input # <<>>)
            <4>1. file = NoFile \/ \E rs \in Inputs \ {<<>>} : file \in {Whole(rs), Broken(rs)}
                BY <3>1 DEF Inv, FileInv, Left
            <4>2. \A rs \in Inputs \ {<<>>} :
                      /\ Whole(rs).int = IntGroup(rs) /\ Broken(rs).int = IntGroup(rs)
                      /\ Whole(rs).dec = DecGroup(rs) /\ Broken(rs).dec = EmptyGroup
                BY FilePlanes DEF Whole, Broken
            <4> QED
                BY <4>1, <4>2, GroupsShape
        <3>2. CASE writer = "idle" /\ input = <<>>
            BY <3>2 DEF Inv, FileInv
        <3>3. CASE writer = "int" \/ writer = "dec"
            <4>1. /\ input \in Inputs \ {<<>>}
                  /\ \/ file = Attributes(input, NoGroup, NoGroup)
                     \/ file = Attributes(input, IntGroup(input), NoGroup)
                BY <3>3 DEF Inv, FileInv
            <4> QED
                BY <4>1, FilePlanes, GroupsShape
        <3> QED
            BY <3>1, <3>2, <3>3 DEF Inv, FileInv
    <2> QED
        BY <2>1 DEF Inv, FileInv, ReaderInv, TypeOK
<1> QED
    BY <1>1, Invariance, PTL

-----------------------------------------------------------------------------
(* The hour *)

(* The rows the two planes keep are those stored. *)
LEMMA KeptIsStored ==
    ASSUME NEW rs, OneValue(rs)
    PROVE  Stored(rs) = {rs[k] : k \in Kept(rs, Ints(rs))} \cup {rs[k] : k \in Kept(rs, Decs(rs))}
<1>1. \A k, m \in DOMAIN rs :
          SameCell(rs[k], rs[m])
          <=> /\ LaneKey(rs[k]) = LaneKey(rs[m]) /\ rs[k].ts = rs[m].ts
              /\ k \in Ints(rs) <=> m \in Ints(rs)
    BY DEF SameCell, Ints
<1>2. \A k \in DOMAIN rs : k \in Decs(rs) <=> k \notin Ints(rs)
    BY DEF OneValue, Ints, Decs
<1>3. Ints(rs) \subseteq DOMAIN rs /\ Decs(rs) \subseteq DOMAIN rs
    BY DEF Ints, Decs
<1>4. ASSUME NEW k \in DOMAIN rs
      PROVE  (\A m \in DOMAIN rs : m > k => ~SameCell(rs[k], rs[m]))
             <=> k \in Kept(rs, Ints(rs)) \/ k \in Kept(rs, Decs(rs))
    <2>1. CASE k \in Ints(rs)
        <3>1. \A m \in DOMAIN rs :
                  SameCell(rs[k], rs[m])
                  <=> /\ LaneKey(rs[k]) = LaneKey(rs[m]) /\ rs[k].ts = rs[m].ts
                      /\ m \in Ints(rs)
            BY <1>1, <2>1
        <3> QED
            BY <1>2, <1>3, <2>1, <3>1 DEF Kept
    <2>2. CASE k \notin Ints(rs)
        <3>1. \A m \in DOMAIN rs :
                  SameCell(rs[k], rs[m])
                  <=> /\ LaneKey(rs[k]) = LaneKey(rs[m]) /\ rs[k].ts = rs[m].ts
                      /\ m \in Decs(rs)
            BY <1>1, <1>2, <2>2
        <3> QED
            BY <1>2, <1>3, <2>2, <3>1 DEF Kept
    <2> QED
        BY <2>1, <2>2
<1>5. Kept(rs, Ints(rs)) \subseteq DOMAIN rs /\ Kept(rs, Decs(rs)) \subseteq DOMAIN rs
    BY <1>3 DEF Kept
<1> QED
    BY <1>4, <1>5 DEF Stored

(* Every row of a write lies in the hour of its file. *)
LEMMA RowsInHour ==
    ASSUME NEW rs \in Inputs, NEW k \in DOMAIN rs
    PROVE  Hour(rs[k]) = EpochHour /\ rs[k] \in Row
BY RowsAssumption DEF Hour

(* Both planes of a whole file, read in a window of its hour, are the rows *)
(* stored that lie in the window.                                          *)
LEMMA WholeRead ==
    ASSUME NEW rs \in Inputs, rs # <<>>, OneValue(rs), NEW win, IsWindow(win),
           \A k \in Decs(rs) : ~TooFine(rs[k].val_d),
           win.epochHour \in {NULL, EpochHour},
           NEW ints \in ReadInts(Whole(rs).int, win), NEW decs \in ReadDecs(Whole(rs).dec, win)
    PROVE  ints \cup decs = {r \in Stored(rs) : Matches(r, win)}
<1>1. Whole(rs).int = IntGroup(rs) /\ Whole(rs).dec = DecGroup(rs)
    BY FilePlanes DEF Whole
<1>2. ints = IntRows(rs, win) /\ decs = DecRows(rs, win)
    BY <1>1, IntsRead, DecsRead
<1>3. Kept(rs, Ints(rs)) \subseteq DOMAIN rs /\ Kept(rs, Decs(rs)) \subseteq DOMAIN rs
    BY DEF Kept, Ints, Decs
<1>4. ASSUME NEW k \in DOMAIN rs
      PROVE  Matches(rs[k], win) <=> InWindow(rs[k].ts, rs[k].series, win)
    BY RowsInHour DEF Matches, InWindow
<1>5. IntRows(rs, win) \cup DecRows(rs, win) = {r \in Stored(rs) : Matches(r, win)}
    BY <1>3, <1>4, KeptIsStored DEF IntRows, DecRows
<1> QED
    BY <1>2, <1>5

(* Min and Max of the rows of a write, as the header has them. *)
LEMMA HeaderEncloses ==
    ASSUME NEW rs \in Inputs, rs # <<>>
    PROVE  /\ Min({r.ts : r \in ToSet(rs)}) \in Int /\ Max({r.ts : r \in ToSet(rs)}) \in Int
           /\ \A k \in DOMAIN rs : /\ Min({r.ts : r \in ToSet(rs)}) <= rs[k].ts
                                   /\ rs[k].ts <= Max({r.ts : r \in ToSet(rs)})
<1> DEFINE T == {r.ts : r \in ToSet(rs)}
           f == [k \in DOMAIN rs |-> rs[k].ts]
<1>1. rs \in Seq(Row) /\ DOMAIN rs # {}
    BY RowsAssumption
<1>2. T \in SUBSET Int /\ \A k \in DOMAIN rs : rs[k].ts \in T
    BY RowsInHour DEF ToSet, Row
<1>3. f \in [DOMAIN rs -> T] /\ \A t \in T : \E k \in DOMAIN rs : f[k] = t
    BY DEF ToSet
<1>4. IsFiniteSet(DOMAIN rs)
    BY <1>1, FiniteRows
<1> HIDE DEF T, f
<1>5. IsFiniteSet(T)
    BY <1>3, <1>4, FiniteImage
<1>6. T # {}
    BY <1>1, <1>2
<1>7. /\ \E x \in T : \A y \in T : x <= y
      /\ \E x \in T : \A y \in T : y <= x
    BY <1>2, <1>5, <1>6, FiniteExtremes
<1>8. Min(T) \in T /\ \A y \in T : Min(T) <= y
    BY <1>7 DEF Min
<1>9. Max(T) \in T /\ \A y \in T : Max(T) >= y
    <2>1. \E x \in T : \A y \in T : x >= y
        BY <1>2, <1>7
    <2> QED
        BY <2>1 DEF Max
<1>10. \A k \in DOMAIN rs : Min(T) <= rs[k].ts /\ rs[k].ts <= Max(T)
    BY <1>2, <1>8, <1>9
<1> QED
    BY <1>2, <1>8, <1>9, <1>10 DEF T

(* A file is skipped only if it has no row for the window; one that is not *)
(* skipped is of the hour asked for.                                       *)
LEMMA SkipsNoRow ==
    ASSUME NEW rs \in Inputs, rs # <<>>, NEW win, IsWindow(win), NEW int, NEW dec
    PROVE  /\ Skips(Attributes(rs, int, dec), win) => {r \in Stored(rs) : Matches(r, win)} = {}
           /\ ~Skips(Attributes(rs, int, dec), win) => win.epochHour \in {NULL, EpochHour}
<1> DEFINE lo == Min({r.ts : r \in ToSet(rs)})
           hi == Max({r.ts : r \in ToSet(rs)})
           f == Attributes(rs, int, dec)
<1>1. f.epoch_hour = EpochHour /\ f.ts_min = lo /\ f.ts_max = hi
    BY FileBounds
<1>2. lo \in Int /\ hi \in Int /\ \A k \in DOMAIN rs : lo <= rs[k].ts /\ rs[k].ts <= hi
    BY HeaderEncloses
<1> HIDE DEF lo, hi, f
<1>3. ASSUME Skips(f, win), NEW k \in DOMAIN rs PROVE ~Matches(rs[k], win)
    <2>1. rs[k].ts \in Int /\ Hour(rs[k]) = EpochHour
        BY RowsInHour DEF Row
    <2>2. CASE win.epochHour # NULL /\ f.epoch_hour # win.epochHour
        BY <1>1, <2>1, <2>2 DEF Matches
    <2>3. CASE win.tsLo # NULL /\ win.tsLo > f.ts_max
        BY <1>1, <1>2, <2>1, <2>3 DEF Matches, IsWindow
    <2>4. CASE win.tsHi # NULL /\ win.tsHi < f.ts_min
        BY <1>1, <1>2, <2>1, <2>4 DEF Matches, IsWindow
    <2> QED
        BY <1>3, <2>2, <2>3, <2>4 DEF Skips
<1>4. ASSUME ~Skips(f, win) PROVE win.epochHour \in {NULL, EpochHour}
    BY <1>1, <1>4 DEF Skips
<1>5. Stored(rs) \subseteq {rs[k] : k \in DOMAIN rs}
    BY DEF Stored
<1> QED
    BY <1>3, <1>4, <1>5 DEF f

(* The initial state is an empty hour. *)
LEMMA HourInit == Init => HourView!Init
<1>1. Stored(<<>>) = {}
    BY DEF Stored
<1> QED
    BY <1>1 DEF Init, HourView!Init

(* Each step of the writer and of the reader is a step of the hour, or     *)
(* leaves it as it is: an accepted write replaces the rows, the second     *)
(* plane settles them, and a read replies with the rows of its window or,  *)
(* of an hour that is not settled, with an error.                          *)
LEMMA HourStep ==
    ASSUME WellFormed
    PROVE  Inv /\ [Next]_vars
           => [HourView!Next]_<<Stored(input), complete, window, answer>>
<1> SUFFICES ASSUME Inv, [Next]_vars
             PROVE  [HourView!Next]_<<Stored(input), complete, window, answer>>
    OBVIOUS
<1>1. ASSUME NEW rs \in IF writes = 0 THEN Inputs ELSE Rewrites, Accept(rs)
      PROVE  HourView!Accept
    <2>1. rs \in Inputs
        BY RowsAssumption
    <2>2. Stored(input') = Stored(rs) /\ Stored(rs) \in StoredInputs
        BY <1>1, <2>1 DEF Accept, StoredInputs
    <2> QED
        BY <1>1, <2>2 DEF Accept, HourView!Accept
<1>2. CASE Create \/ WriteInt \/ FailDec \/ Open \/ ReadInt
    BY <1>2 DEF Create, WriteInt, FailDec, Open, ReadInt
<1>3. ASSUME WriteDec PROVE HourView!Settle
    BY <1>3 DEF WriteDec, Inv, FileInv, HourView!Settle
<1>4. ASSUME NEW win \in Windows, Call(win) PROVE HourView!Ask
    BY <1>4 DEF Call, HourView!Ask
<1>5. ASSUME reader # "idle"
      PROVE  /\ window \in Windows /\ IsWindow(window)
             /\ window # NULL /\ answer = NULL
    BY <1>5, WindowsAssumption DEF Inv, ReaderInv, IsWindow
<1>6. ASSUME file # NoFile, reader # "idle"
      PROVE  /\ input \in Inputs /\ input # <<>> /\ OneValue(input)
             /\ file = IF complete THEN Whole(input) ELSE Broken(input)
    BY <1>6 DEF Inv, FileInv, ReaderInv, WellFormed
<1>7. ASSUME Skip PROVE HourView!Reply
    <2>1. reader # "idle" /\ file # NoFile /\ Skips(file, window) /\ answer' = {}
        BY <1>7 DEF Skip, Finish
    <2>2. {r \in Stored(input) : Matches(r, window)} = {}
        BY <1>5, <1>6, <2>1, SkipsNoRow DEF Whole, Broken
    <2> QED
        BY <1>5, <1>7, <2>1, <2>2 DEF Skip, Finish, HourView!Reply
<1>8. ASSUME ReadDec PROVE HourView!Reply
    <2>1. PICK rs \in ReadDecs(file.dec, window) : Finish(out \cup rs)
        BY <1>8 DEF ReadDec
    <2>2. /\ reader = "dec" /\ file.dec # EmptyGroup
          /\ out \in ReadInts(file.int, window) /\ ~Skips(file, window)
          /\ input # <<>> /\ writer = "idle" /\ file # NoFile
        BY <1>8 DEF ReadDec, Inv, FileInv, ReaderInv
    <2>3. complete /\ file = Whole(input)
        BY <1>6, <2>2, FilePlanes DEF Broken
    <2>4. \A k \in Decs(input) : ~TooFine(input[k].val_d)
        BY <2>3 DEF Inv, FileInv
    <2>5. window.epochHour \in {NULL, EpochHour}
        BY <1>5, <1>6, <2>2, <2>3, SkipsNoRow DEF Whole
    <2>6. out \cup rs = {r \in Stored(input) : Matches(r, window)}
        BY <1>5, <1>6, <2>1, <2>2, <2>3, <2>4, <2>5, WholeRead
    <2> QED
        BY <1>5, <2>1, <2>2, <2>6 DEF Finish, HourView!Reply
<1>9. ASSUME ReadFails PROVE HourView!Reply
    <2>1. reader # "idle" /\ Finish(Failed) /\ (file = NoFile \/ file.dec = EmptyGroup)
        BY <1>9 DEF ReadFails
    <2>2. ~complete
        <3>1. CASE file = NoFile
            BY <3>1, <2>1, FileExists DEF Inv, FileInv, ReaderInv
        <3>2. CASE file # NoFile /\ file.dec = EmptyGroup
            BY <1>6, <2>1, <3>2, FilePlanes, GroupsShape DEF Whole
        <3> QED
            BY <2>1, <3>1, <3>2
    <2> QED
        BY <1>5, <2>1, <2>2 DEF Finish, HourView!Reply
<1>10. ASSUME Taken PROVE HourView!Taken
    BY <1>10 DEF Taken, HourView!Taken
<1>11. CASE UNCHANGED vars
    BY <1>11 DEF vars
<1> QED
    BY <1>1, <1>2, <1>3, <1>4, <1>7, <1>8, <1>9, <1>10, <1>11 DEF Next, HourView!Next

(* The file implements the hour, for well-formed writes: a scan of a file  *)
(* whose write returned gives exactly the rows written that lie in its     *)
(* window.                                                                 *)
THEOREM Implements ==
    ASSUME WellFormed
    PROVE  Spec => HourSpec
<1>1. Init => HourView!Init
    BY HourInit
<1>2. Inv /\ [Next]_vars => [HourView!Next]_<<Stored(input), complete, window, answer>>
    BY HourStep
<1> QED
    BY <1>1, <1>2, Invariance, PTL DEF Spec, HourSpec, HourView!Spec

-----------------------------------------------------------------------------
(* The attributes of a whole file *)

AllOfFile == [tsLo |-> NULL, tsHi |-> NULL, seriesIds |-> NULL, epochHour |-> NULL]

(* A read of the whole file gives every row stored. *)
LEMMA ReadableIsStored ==
    ASSUME NEW rs \in Inputs, rs # <<>>, OneValue(rs),
           \A k \in Decs(rs) : ~TooFine(rs[k].val_d)
    PROVE  Readable(Whole(rs)) = Stored(rs)
<1> DEFINE f == Whole(rs)
           all == AllOfFile
<1>1. /\ IsWindow(all) /\ all.epochHour \in {NULL, EpochHour}
      /\ all.tsLo = NULL /\ all.tsHi = NULL /\ all.seriesIds = NULL /\ all.epochHour = NULL
    BY DEF AllOfFile, IsWindow
<1>2. \A p : LaneChoices(p, all) = {DOMAIN p.series_id}
    BY <1>1 DEF LaneChoices
<1>3. Readable(f) = UNION (ReadInts(f.int, all) \cup ReadDecs(f.dec, all))
    BY DEF Readable, AllOfFile
<1> HIDE DEF f, all
<1>4. PICK ints : ints \in ReadInts(f.int, all)
    <2>1. CASE f.int = NoGroup
        BY <2>1 DEF ReadInts
    <2>2. CASE f.int # NoGroup
        <3>1. DOMAIN f.int.series_id \in LaneChoices(f.int, all)
            BY <1>2
        <3> QED
            BY <2>2, <3>1 DEF ReadInts
    <2> QED
        BY <2>1, <2>2
<1>5. PICK decs : decs \in ReadDecs(f.dec, all)
    <2>1. CASE f.dec = NoGroup
        BY <2>1 DEF ReadDecs
    <2>2. CASE f.dec # NoGroup
        <3>1. DOMAIN f.dec.series_id \in LaneChoices(f.dec, all)
            BY <1>2
        <3> QED
            BY <2>2, <3>1 DEF ReadDecs
    <2> QED
        BY <2>1, <2>2
<1>6. /\ \A given \in ReadInts(f.int, all) : given = IntRows(rs, all)
      /\ \A given \in ReadDecs(f.dec, all) : given = DecRows(rs, all)
    BY <1>1, FilePlanes, IntsRead, DecsRead DEF f, Whole
<1>7. Readable(f) = ints \cup decs
    BY <1>3, <1>4, <1>5, <1>6
<1>8. ints \cup decs = {r \in Stored(rs) : Matches(r, all)}
    BY <1>1, <1>4, <1>5, WholeRead DEF f
<1>9. \A r : Matches(r, all)
    BY <1>1 DEF Matches
<1> QED
    BY <1>7, <1>8, <1>9 DEF f

(* The indexes of the rows stored. *)
LastRows(rs) == {k \in DOMAIN rs : \A m \in DOMAIN rs : m > k => ~SameCell(rs[k], rs[m])}

(* Each row has a row stored for its cell. *)
LEMMA CellHasLast ==
    ASSUME NEW rs \in Seq(Row), NEW k \in DOMAIN rs
    PROVE  \E m \in LastRows(rs) : SameCell(rs[k], rs[m])
<1> DEFINE S == {m \in DOMAIN rs : SameCell(rs[k], rs[m])}
<1>1. DOMAIN rs = 1 .. Len(rs) /\ Len(rs) \in Nat
    OBVIOUS
<1>2. S \in SUBSET Nat /\ S # {} /\ \A m \in S : m <= Len(rs)
    BY <1>1 DEF SameCell
<1>3. PICK m \in S : \A n \in S : n <= m
    <2> HIDE DEF S
    <2> QED
        BY <1>1, <1>2, GreatestNat
<1>4. ASSUME NEW n \in DOMAIN rs, n > m, SameCell(rs[m], rs[n]) PROVE FALSE
    <2>1. SameCell(rs[k], rs[m])
        OBVIOUS
    <2>2. SameCell(rs[k], rs[n])
        BY <1>4, <2>1 DEF SameCell
    <2>3. n <= m /\ n \in Nat /\ m \in Nat
        BY <1>1, <1>3, <2>2
    <2> QED
        BY <1>4, <2>3
<1> QED
    BY <1>4 DEF LastRows

(* The rows stored have the times and the series of all rows, are at most  *)
(* as many, and as many if no two rows share a cell.                       *)
LEMMA StoredRows ==
    ASSUME NEW rs \in Seq(Row)
    PROVE  /\ {r.ts : r \in Stored(rs)} = {r.ts : r \in ToSet(rs)}
           /\ {r.series : r \in Stored(rs)} = {r.series : r \in ToSet(rs)}
           /\ Cardinality(Stored(rs)) <= Len(rs)
           /\ (\A i, j \in DOMAIN rs : SameCell(rs[i], rs[j]) => i = j)
                => Cardinality(Stored(rs)) = Len(rs)
<1> DEFINE D == DOMAIN rs
           L == LastRows(rs)
           R == Stored(rs)
           f == [k \in L |-> rs[k]]
<1>1. R = {rs[k] : k \in L} /\ L \subseteq D /\ ToSet(rs) = {rs[k] : k \in D}
    BY DEF Stored, LastRows, ToSet
<1>2. ASSUME NEW k \in D PROVE \E m \in L : rs[m].ts = rs[k].ts /\ rs[m].series = rs[k].series
    <2>1. PICK m \in L : SameCell(rs[k], rs[m])
        BY CellHasLast
    <2> QED
        BY <2>1 DEF SameCell, LaneKey
<1>3. IsFiniteSet(D) /\ Cardinality(D) = Len(rs) /\ Len(rs) \in Nat
    <2>1. D = 1 .. Len(rs) /\ Len(rs) \in Nat /\ 1 \in Int /\ Len(rs) \in Int
        OBVIOUS
    <2>2. /\ IsFiniteSet(1 .. Len(rs))
          /\ Cardinality(1 .. Len(rs)) = IF 1 > Len(rs) THEN 0 ELSE Len(rs) - 1 + 1
        BY <2>1, FS_Interval
    <2> QED
        BY <2>1, <2>2
<1>4. f \in [L -> R] /\ \A r \in R : \E k \in L : f[k] = r
    BY <1>1
<1>5. \A k \in L : f[k] = rs[k]
    OBVIOUS
<1>6. (\A i, j \in D : SameCell(rs[i], rs[j]) => i = j)
      => L = D /\ \A i, j \in L : f[i] = f[j] => i = j
    <2>1. D \subseteq Int
        OBVIOUS
    <2>2. \A i, j \in D : rs[i] = rs[j] => SameCell(rs[i], rs[j])
        BY DEF SameCell
    <2>3. (\A i, j \in D : SameCell(rs[i], rs[j]) => i = j) => L = D
        <3> SUFFICES ASSUME \A i, j \in D : SameCell(rs[i], rs[j]) => i = j,
                            NEW k \in D, NEW m \in D, m > k, SameCell(rs[k], rs[m])
                     PROVE  FALSE
            BY <1>1 DEF LastRows
        <3>1. k = m /\ k \in Int
            BY <2>1
        <3> QED
            BY <3>1
    <2> QED
        BY <1>1, <2>2, <2>3
<1> HIDE DEF L, D, R, f
<1>7. IsFiniteSet(L) /\ Cardinality(L) <= Len(rs) /\ Cardinality(L) \in Nat
    BY <1>1, <1>3, FS_Subset, FS_CardinalityType
<1>8. f \in Surjection(L, R)
    BY <1>4 DEF Surjection
<1>9. IsFiniteSet(R) /\ Cardinality(R) <= Cardinality(L) /\ Cardinality(R) \in Nat
    BY <1>7, <1>8, FS_Surjection, FS_CardinalityType
<1>10. Cardinality(R) <= Len(rs)
    BY <1>3, <1>7, <1>9
<1>11. ASSUME \A i, j \in D : SameCell(rs[i], rs[j]) => i = j PROVE Cardinality(R) = Len(rs)
    <2>1. f \in Injection(L, R)
        BY <1>4, <1>6, <1>11 DEF Injection, IsInjective
    <2>2. Cardinality(L) = Cardinality(R)
        BY <1>7, <1>8, <2>1, FS_Surjection
    <2> QED
        BY <1>3, <1>6, <1>11, <2>2
<1>12. {r.ts : r \in R} = {r.ts : r \in ToSet(rs)}
    BY <1>1, <1>2
<1>13. {r.series : r \in R} = {r.series : r \in ToSet(rs)}
    BY <1>1, <1>2
<1> QED
    BY <1>10, <1>11, <1>12, <1>13 DEF D, R

(* The attributes of a whole file enclose its rows tightly. *)
THEOREM BoundsTight ==
    ASSUME WellFormed
    PROVE  Spec => []BoundsMatchRows
<1>1. Inv => BoundsMatchRows
    <2> SUFFICES ASSUME Inv, complete PROVE BoundsMatchRows
        BY DEF BoundsMatchRows
    <2>1. /\ input \in Inputs /\ input # <<>> /\ OneValue(input) /\ file = Whole(input)
          /\ \A k \in Decs(input) : ~TooFine(input[k].val_d)
        BY DEF Inv, FileInv, WellFormed
    <2>2. Readable(file) = Stored(input) /\ input \in Seq(Row)
        BY <2>1, ReadableIsStored, RowsAssumption
    <2>3. /\ file.ts_min = Min({r.ts : r \in ToSet(input)})
          /\ file.ts_max = Max({r.ts : r \in ToSet(input)})
          /\ file.series_min = Min({r.series : r \in ToSet(input)})
          /\ file.series_max = Max({r.series : r \in ToSet(input)})
          /\ file.n_rows = Len(input)
        BY <2>1, FileBounds DEF Whole
    <2>4. /\ {r.ts : r \in Stored(input)} = {r.ts : r \in ToSet(input)}
          /\ {r.series : r \in Stored(input)} = {r.series : r \in ToSet(input)}
          /\ Cardinality(Stored(input)) <= Len(input)
          /\ (\A i, j \in DOMAIN input : SameCell(input[i], input[j]) => i = j)
                => Cardinality(Stored(input)) = Len(input)
        BY <2>2, StoredRows
    <2> QED
        BY <2>2, <2>3, <2>4 DEF BoundsMatchRows
<1> QED
    BY <1>1, Invariance, PTL
=============================================================================

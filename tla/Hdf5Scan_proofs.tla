---------------------------- MODULE Hdf5Scan_proofs ----------------------------
(***************************************************************************)
(* Slices of a scan, for every listing, every shape, every block size and  *)
(* every order of executions and replacements.                             *)
(***************************************************************************)
EXTENDS Hdf5Scan, TLAPS

-----------------------------------------------------------------------------
(* The arithmetic of blocks and of row-major cells *)

LEMMA BlockRowsPositive ==
    ASSUME NEW m \in Nat
    PROVE  SeriesBlockRows(m) \in Nat \ {0}
<1>1. AtLeastOne(2 * m) \in Nat \ {0}
    BY DEF AtLeastOne
<1>2. TargetBytes \div AtLeastOne(2 * m) \in Nat
    BY <1>1, ScanAssumption
<1> QED
    BY <1>2 DEF SeriesBlockRows, AtLeastOne

(* A block never exceeds what is left, and is never empty before the end. *)
LEMMA BlockFits ==
    ASSUME NEW left \in Nat, NEW bound \in Nat \ {0}, left > 0
    PROVE  AtMost(left, bound) \in 1 .. left /\ AtMost(left, bound) <= bound
BY DEF AtMost

(* A row more is a row of m values more. *)
LEMMA ProductGrows ==
    ASSUME NEW a \in Nat, NEW b \in Nat, NEW m \in Nat, a < b
    PROVE  a * m + m <= b * m
<1>1. PICK d \in Nat : b = a + 1 + d
    <2>1. b - a - 1 \in Nat /\ b = a + 1 + (b - a - 1)
        OBVIOUS
    <2> QED
        BY <2>1
<1>2. b * m = a * m + m + d * m
    BY <1>1
<1>3. d * m >= 0
    BY <1>1
<1> QED
    BY <1>2, <1>3

(* The cell of a row-major index. *)
LEMMA CellOfIndex ==
    ASSUME NEW g \in Nat, NEW m \in Nat, NEW t \in 0 .. m - 1
    PROVE  (g * m + t) \div m = g /\ (g * m + t) % m = t
<1> DEFINE k == g * m + t
           q == k \div m
           r == k % m
<1>1. m > 0 /\ g * m \in Nat /\ k \in Nat
    OBVIOUS
<1>2. q \in Nat /\ r \in 0 .. m - 1 /\ k = m * q + r
    BY <1>1, Z3
<1>3. k = q * m + r
    BY <1>2
<1> HIDE DEF q, r
<1>4. ~(q < g)
    <2> SUFFICES ASSUME q < g PROVE FALSE
        OBVIOUS
    <2>1. q * m + m <= g * m
        BY <1>2, ProductGrows
    <2> QED
        BY <2>1, <1>1, <1>2, <1>3
<1>5. ~(g < q)
    <2> SUFFICES ASSUME g < q PROVE FALSE
        OBVIOUS
    <2>1. g * m + m <= q * m
        BY <1>2, ProductGrows
    <2> QED
        BY <2>1, <1>1, <1>2, <1>3
<1>6. q = g
    BY <1>2, <1>4, <1>5
<1> QED
    BY <1>1, <1>2, <1>3, <1>6 DEF q, r

(* A cell of a block of n rows has an index in the block. *)
LEMMA IndexInBlock ==
    ASSUME NEW n \in Nat, NEW m \in Nat, NEW g \in 0 .. n - 1, NEW t \in 0 .. m - 1
    PROVE  g * m + t \in 0 .. n * m - 1
<1>1. g * m + m <= n * m /\ g * m \in Nat /\ n * m \in Nat
    BY ProductGrows
<1> QED
    BY <1>1

(* Equal numbers of samples in a block mean equal widths. *)
LEMMA SameWidth ==
    ASSUME NEW n \in Nat \ {0}, NEW a \in Nat, NEW b \in Nat, n * a = n * b
    PROVE  a = b
<1>1. ~(a < b)
    <2> SUFFICES ASSUME a < b PROVE FALSE
        OBVIOUS
    <2>1. a * n + n <= b * n
        BY ProductGrows
    <2>2. a * n = n * a /\ b * n = n * b /\ a * n \in Nat
        OBVIOUS
    <2> QED
        BY <2>1, <2>2
<1>2. ~(b < a)
    <2> SUFFICES ASSUME b < a PROVE FALSE
        OBVIOUS
    <2>1. b * n + n <= a * n
        BY ProductGrows
    <2>2. a * n = n * a /\ b * n = n * b /\ b * n \in Nat
        OBVIOUS
    <2> QED
        BY <2>1, <2>2
<1> QED
    BY <1>1, <1>2

-----------------------------------------------------------------------------
(* Type correctness *)

(* Before the listing is complete nothing is cut; afterwards the shape is  *)
(* the one of a file.                                                      *)
TypeInv ==
    /\ TypeOK
    /\ slices \in Seq([file : Nat, start : Nat, n : Nat])
    /\ shape.n_gpu \in Nat /\ shape.n_time \in Nat
    /\ phase = "listing" => slices = <<>> /\ start = 0 /\ file = 1
    /\ phase = "slicing" => file \in 1 .. Len(Files)
    /\ phase \in {"slicing", "executing"} => opened # <<>>
    /\ phase # "executing" => results = <<>>
    /\ \A i \in DOMAIN slices : slices[i].file \in 1 .. Len(Files)

(* Nothing is listed, cut or executed yet. *)
LEMMA InitTypes == Init => TypeInv
BY ScanAssumption DEF Init, TypeInv, TypeOK, Content

(* An entry of a sequence is a member of its set. *)
LEMMA EntryOfSeq ==
    ASSUME NEW S, NEW s \in Seq(S), NEW i \in DOMAIN s
    PROVE  s[i] \in S
OBVIOUS

(* Append puts its entry at the end and keeps the others. *)
LEMMA Appended ==
    ASSUME NEW S, NEW s \in Seq(S), NEW e \in S
    PROVE  /\ Append(s, e) \in Seq(S) /\ Len(Append(s, e)) = Len(s) + 1
           /\ DOMAIN s = 1 .. Len(s) /\ Len(s) \in Nat
           /\ DOMAIN Append(s, e) = 1 .. Len(s) + 1
           /\ Append(s, e)[Len(s) + 1] = e
           /\ \A i \in DOMAIN s : Append(s, e)[i] = s[i]
           /\ \A i \in DOMAIN Append(s, e) : i = Len(s) + 1 \/ i \in DOMAIN s
OBVIOUS

(* Counters and the entries of slices are integers. *)
LEMMA Integers ==
    ASSUME TypeInv
    PROVE  /\ Len(Files) \in Nat /\ file \in Nat /\ start \in Nat
           /\ \A i \in DOMAIN slices :
                 slices[i].file \in Nat /\ slices[i].start \in Nat /\ slices[i].n \in Nat
           /\ SeriesBlockRows(shape.n_time) \in Nat
<1>1. Len(Files) \in Nat
    BY ScanAssumption
<1>2. file \in Nat /\ start \in Nat
    BY <1>1 DEF TypeInv, TypeOK
<1>3. ASSUME NEW i \in DOMAIN slices
      PROVE  slices[i].file \in Nat /\ slices[i].start \in Nat /\ slices[i].n \in Nat
    <2>1. slices \in Seq([file : Nat, start : Nat, n : Nat])
        BY DEF TypeInv
    <2>2. slices[i] \in [file : Nat, start : Nat, n : Nat]
        BY <1>3, <2>1, EntryOfSeq
    <2> QED
        BY <2>2
<1> QED
    BY <1>1, <1>2, <1>3, BlockRowsPositive DEF TypeInv

(* The file try_listing opens next has a shape. *)
LEMMA NextFileTypes ==
    ASSUME TypeInv, Len(opened) < Len(Files), NextFile # Missing
    PROVE  /\ NextFile \in Content
           /\ NextFile.shape \in Shapes /\ NextFile.version \in 0 .. MaxReplaced
           /\ NextFile.shape.n_gpu \in Nat /\ NextFile.shape.n_time \in Nat
<1>1. Len(opened) + 1 \in DOMAIN Files
    BY ScanAssumption DEF TypeInv, TypeOK
<1>2. NextFile \in Content
    BY <1>1 DEF NextFile, TypeInv, TypeOK, Paths
<1> QED
    BY <1>2, ScanAssumption DEF Content

(* try_listing keeps the types: the shape is that of the file it opened. *)
LEMMA OpenFileTypes == TypeInv /\ OpenFile => TypeInv'
<1> SUFFICES ASSUME TypeInv, OpenFile PROVE TypeInv'
    OBVIOUS
<1>1. /\ NextFile.shape \in Shapes /\ NextFile.version \in 0 .. MaxReplaced
      /\ NextFile.shape.n_gpu \in Nat /\ NextFile.shape.n_time \in Nat
    BY NextFileTypes DEF OpenFile
<1>2. /\ opened' \in Seq(0 .. MaxReplaced) /\ Len(opened') = Len(opened) + 1
      /\ opened' # <<>>
    BY <1>1 DEF OpenFile, TypeInv, TypeOK
<1>3. Len(Files) \in Nat
    BY ScanAssumption
<1>4. TypeOK'
    BY <1>1, <1>2, <1>3 DEF OpenFile, TypeInv, TypeOK
<1> QED
    BY <1>1, <1>2, <1>3, <1>4 DEF OpenFile, TypeInv

(* A slice starts where the last one ended, and is not empty. *)
LEMMA CutTypes ==
    ASSUME TypeInv, Cut
    PROVE  TypeInv' /\ start' > start
<1> DEFINE n == AtMost(shape.n_gpu - start, SeriesBlockRows(shape.n_time))
<1>1. /\ n \in 1 .. shape.n_gpu - start
      /\ n \in 0 .. SeriesBlockRows(shape.n_time)
    <2>1. SeriesBlockRows(shape.n_time) \in Nat \ {0}
        BY BlockRowsPositive DEF TypeInv
    <2>2. start \in Nat /\ shape.n_gpu \in Nat /\ start < shape.n_gpu
        BY Integers DEF Cut, TypeInv
    <2>3. shape.n_gpu - start \in Nat /\ shape.n_gpu - start > 0
        BY <2>2
    <2>4. n \in 1 .. shape.n_gpu - start /\ n <= SeriesBlockRows(shape.n_time)
        BY <2>1, <2>3, BlockFits
    <2> QED
        BY <2>1, <2>2, <2>4
<1>2. /\ slices' = Append(slices, [file |-> file, start |-> start, n |-> n])
      /\ start' = start + n
    BY DEF Cut, AddSlice
<1> HIDE DEF n
<1>3. start' \in 0 .. shape.n_gpu /\ start' > start
    BY <1>1, <1>2 DEF TypeInv, TypeOK
<1>4. /\ file \in Nat /\ start \in Nat /\ n \in Nat
    BY <1>1, Integers DEF TypeInv
<1>5. slices' \in Seq([file : Nat, start : Nat, n : Nat])
    BY <1>2, <1>4 DEF TypeInv
<1>6. \A i \in DOMAIN slices' :
          /\ slices'[i].file \in 1 .. file
          /\ slices'[i].n \in 0 .. SeriesBlockRows(shape.n_time)
          /\ slices'[i].start \in 0 .. shape.n_gpu - slices'[i].n
    <2> SUFFICES ASSUME NEW i \in DOMAIN slices'
                 PROVE  /\ slices'[i].file \in 1 .. file
                        /\ slices'[i].n \in 0 .. SeriesBlockRows(shape.n_time)
                        /\ slices'[i].start \in 0 .. shape.n_gpu - slices'[i].n
        OBVIOUS
    <2>1. CASE i \in DOMAIN slices
        <3>1. slices'[i] = slices[i]
            BY <1>2, <1>4, <2>1 DEF TypeInv
        <3> QED
            BY <2>1, <3>1 DEF TypeInv, TypeOK
    <2>2. CASE i \notin DOMAIN slices
        <3>1. slices'[i] = [file |-> file, start |-> start, n |-> n]
            BY <1>2, <1>4, <2>2 DEF TypeInv
        <3> QED
            BY <1>1, <1>4, <3>1 DEF TypeInv, TypeOK
    <2> QED
        BY <2>1, <2>2
<1>7. TypeOK'
    BY <1>3, <1>6 DEF Cut, TypeInv, TypeOK
<1>8. ASSUME NEW i \in DOMAIN slices' PROVE slices'[i].file \in 1 .. Len(Files)
    <2>1. [file |-> file, start |-> start, n |-> n] \in [file : Nat, start : Nat, n : Nat]
        BY <1>4
    <2>2. slices'[i] = [file |-> file, start |-> start, n |-> n]
              \/ (i \in DOMAIN slices /\ slices'[i] = slices[i])
        <3> DEFINE S == [file : Nat, start : Nat, n : Nat]
                   e == [file |-> file, start |-> start, n |-> n]
        <3>1. slices \in Seq(S) /\ e \in S /\ slices' = Append(slices, e)
            BY <1>2, <2>1 DEF TypeInv
        <3> HIDE DEF S, e
        <3>2. slices'[i] = e \/ (i \in DOMAIN slices /\ slices'[i] = slices[i])
            BY <1>8, <3>1, Appended
        <3> QED
            BY <3>2 DEF e
    <2> QED
        BY <2>2 DEF Cut, TypeInv
<1> QED
    BY <1>3, <1>5, <1>7, <1>8 DEF Cut, TypeInv

(* The end of a file keeps the types, also of a file without rows. *)
LEMMA CutFileTypes == TypeInv /\ CutFile => TypeInv'
<1> SUFFICES ASSUME TypeInv, CutFile PROVE TypeInv'
    OBVIOUS
<1>1. file \in Nat /\ file' = file + 1 /\ file' \in 1 .. Len(Files) + 1
    BY ScanAssumption DEF CutFile, TypeInv, TypeOK
<1> DEFINE Wider == \A k \in 1 .. file : k \in 1 .. file'
<1>w. Wider
    BY <1>1
<1> HIDE DEF Wider
<1>2. /\ slices' \in Seq([file : Nat, start : Nat, n : Nat])
      /\ \A i \in DOMAIN slices' :
            /\ slices'[i].file \in 1 .. file'
            /\ slices'[i].n \in 0 .. SeriesBlockRows(shape.n_time)
            /\ slices'[i].start \in 0 .. shape.n_gpu - slices'[i].n
    <2>1. CASE slices' = slices
        <3>1. \A i \in DOMAIN slices : slices[i].file \in 1 .. file'
            BY <1>w DEF TypeInv, TypeOK, Wider
        <3> QED
            BY <2>1, <3>1 DEF TypeInv, TypeOK
    <2>2. CASE slices' = Append(slices, [file |-> file, start |-> 0, n |-> 0])
        <3>1. slices' \in Seq([file : Nat, start : Nat, n : Nat])
            BY <1>1, <2>2 DEF TypeInv
        <3>2. ASSUME NEW i \in DOMAIN slices'
              PROVE  /\ slices'[i].file \in 1 .. file'
                     /\ slices'[i].n \in 0 .. SeriesBlockRows(shape.n_time)
                     /\ slices'[i].start \in 0 .. shape.n_gpu - slices'[i].n
            <4>1. CASE i \in DOMAIN slices
                <5>1. slices'[i] = slices[i]
                    BY <1>1, <2>2, <4>1 DEF TypeInv
                <5>2. slices[i].file \in 1 .. file'
                    BY <1>w, <4>1 DEF TypeInv, TypeOK, Wider
                <5> QED
                    BY <4>1, <5>1, <5>2 DEF TypeInv, TypeOK
            <4>2. CASE i \notin DOMAIN slices
                <5>1. slices'[i] = [file |-> file, start |-> 0, n |-> 0]
                    BY <1>1, <2>2, <3>2, <4>2 DEF TypeInv
                <5>2. file \in 1 .. file'
                    BY <1>1 DEF TypeInv, TypeOK
                <5> QED
                    BY <5>1, <5>2, Integers DEF TypeInv
            <4> QED
                BY <4>1, <4>2
        <3> QED
            BY <3>1, <3>2
    <2> QED
        BY <2>1, <2>2 DEF CutFile, AddSlice
<1>3. /\ phase' \in {"slicing", "executing"}
      /\ phase' = "slicing" => file' \in 1 .. Len(Files)
      /\ phase' # "executing" => results' = <<>>
      /\ phase' = "executing" => DOMAIN results' = DOMAIN slices'
    BY <1>1, ScanAssumption DEF CutFile, TypeInv
<1>4. TypeOK'
    BY <1>1, <1>2, <1>3 DEF CutFile, TypeInv, TypeOK
<1>5. ASSUME NEW i \in DOMAIN slices' PROVE slices'[i].file \in 1 .. Len(Files)
    <2>1. CASE slices' = slices
        BY <1>5, <2>1 DEF TypeInv
    <2>2. CASE slices' = Append(slices, [file |-> file, start |-> 0, n |-> 0])
        <3>1. slices'[i] = [file |-> file, start |-> 0, n |-> 0]
                  \/ (i \in DOMAIN slices /\ slices'[i] = slices[i])
            BY <1>1, <1>5, <2>2 DEF TypeInv
        <3> QED
            BY <3>1 DEF CutFile, TypeInv
    <2> QED
        BY <2>1, <2>2 DEF CutFile, AddSlice
<1> QED
    BY <1>2, <1>3, <1>4, <1>5 DEF CutFile, TypeInv

(* Every step keeps the types. *)
LEMMA NextTypes == TypeInv /\ [Next]_vars => TypeInv'
<1> SUFFICES ASSUME TypeInv, [Next]_vars PROVE TypeInv'
    OBVIOUS
<1>1. CASE Replace
    <2>1. replaced' \in 0 .. MaxReplaced
        BY <1>1, ScanAssumption DEF Replace, TypeInv, TypeOK
    <2>2. disk' \in [Paths -> Content \cup {Missing}]
        <3>1. PICK p \in Paths, s \in Shapes :
                  disk' \in {[disk EXCEPT ![p] = Missing],
                            [disk EXCEPT ![p] = [shape |-> s, version |-> replaced + 1]]}
            BY <1>1 DEF Replace
        <3>2. [shape |-> s, version |-> replaced + 1] \in Content
            BY <1>1, <2>1 DEF Replace, Content
        <3> QED
            BY <3>1, <3>2 DEF TypeInv, TypeOK
    <2> QED
        BY <1>1, <2>1, <2>2 DEF Replace, TypeInv, TypeOK
<1>2. CASE OpenFile
    BY <1>2, OpenFileTypes
<1>3. CASE ListingFails
    BY <1>3 DEF ListingFails, TypeInv, TypeOK
<1>4. CASE Cut
    BY <1>4, CutTypes
<1>5. CASE CutFile
    BY <1>5, CutFileTypes
<1>6. ASSUME NEW i \in DOMAIN slices, Execute(i) \/ ExecuteFails(i) PROVE TypeInv'
    BY <1>6 DEF Execute, ExecuteFails, TypeInv, TypeOK
<1>7. CASE UNCHANGED vars
    BY <1>7 DEF vars, TypeInv, TypeOK
<1> QED
    BY <1>1, <1>2, <1>3, <1>4, <1>5, <1>6, <1>7 DEF Next

(* Every slice lies within the shape of the listing and holds at most one  *)
(* block, whatever the widths.                                             *)
THEOREM TypeCorrect == Spec => []TypeOK
<1>1. TypeInv => TypeOK
    BY DEF TypeInv
<1> QED
    BY <1>1, InitTypes, NextTypes, PTL DEF Spec

(* The loop of partitions ends: no block size and no shape makes it cut an *)
(* empty block before the end of a file.                                   *)
THEOREM LoopAdvances == Spec => CutAdvances
<1>1. TypeInv /\ [Next]_vars =>
          [slices' # slices /\ file' = file => start' > start]_vars
    <2> SUFFICES ASSUME TypeInv, Next
                 PROVE  slices' # slices /\ file' = file => start' > start
        OBVIOUS
    <2>1. CASE Cut
        BY <2>1, CutTypes
    <2>2. CASE CutFile
        <3>1. file' # file
            BY <2>2, ScanAssumption DEF CutFile, TypeInv, TypeOK
        <3> QED
            BY <3>1
    <2>3. CASE UNCHANGED slices
        BY <2>3
    <2> QED
        BY <2>1, <2>2, <2>3 DEF Next, Replace, OpenFile, ListingFails, Execute, ExecuteFails
<1> QED
    BY <1>1, InitTypes, NextTypes, PTL DEF Spec, CutAdvances

-----------------------------------------------------------------------------
(* What a slice returns *)

(* read_partition labels by the width of the listing.  The file may have   *)
(* another one by now; then either the slice is refused or it is empty.    *)
LEMMA BatchRows ==
    ASSUME TypeInv, phase = "executing", NEW i \in DOMAIN slices,
           ~ReadRefused(slices[i])
    PROVE  ReadPartition(slices[i]) =
               Rows(Reads(slices[i]).version, slices[i].start, slices[i].n, shape.n_time)
<1> DEFINE slice == slices[i]
           f == Reads(slice)
           n == slice.n
           m == shape.n_time
           w == f.shape.n_time
           flat == Flat(f, slice.start, n)
<1>1. n \in Nat /\ m \in Nat /\ slice.start \in Nat
    BY Integers DEF TypeInv
<1>2. f # Missing /\ n * w = n * m
    BY DEF ReadRefused
<1>3. w \in Nat
    <2>1. slice.file \in 1 .. Len(Files)
        BY DEF TypeInv
    <2>2. Files[slice.file] \in Paths
        BY <2>1, ScanAssumption DEF Paths
    <2>3. f \in Content
        BY <1>2, <2>2 DEF Reads, TypeInv, TypeOK
    <2> QED
        BY <2>3, ScanAssumption DEF Content
<1>4. ASSUME NEW g \in 0 .. n - 1, NEW t \in 0 .. m - 1
      PROVE  flat[g * m + t] =
                 [version |-> f.version, gpu |-> slice.start + g, sample |-> t]
    <2>1. n \in Nat \ {0}
        BY <1>1, <1>4
    <2>2. w = m
        BY <1>1, <1>2, <1>3, <2>1, SameWidth
    <2>3. g * m + t \in 0 .. n * m - 1
        BY <1>1, <1>4, IndexInBlock
    <2>4. (g * m + t) \div m = g /\ (g * m + t) % m = t
        <3>1. g \in Nat /\ m \in Nat
            BY <1>1, <1>4
        <3> HIDE DEF m
        <3> QED
            BY <3>1, <1>4, CellOfIndex
    <2>5. flat = [k \in 0 .. n * m - 1 |->
                     [version |-> f.version, gpu |-> slice.start + (k \div m),
                      sample |-> k % m]]
        BY <2>2 DEF Flat
    <2> HIDE DEF flat, slice, f, m, n
    <2> QED
        BY <2>3, <2>4, <2>5
<1>5. ReadPartition(slice) =
          {[gpu_index |-> AsU32(slice.start + g), sample |-> AsU32(t),
            value |-> flat[g * m + t]] :
               g \in 0 .. n - 1, t \in 0 .. m - 1}
    BY DEF ReadPartition
<1> DEFINE Read(g, t) ==
               [gpu_index |-> AsU32(slice.start + g), sample |-> AsU32(t),
                value |-> flat[g * m + t]]
           Named(g, t) ==
               [gpu_index |-> AsU32(slice.start + g), sample |-> AsU32(t),
                value |-> [version |-> f.version, gpu |-> slice.start + g, sample |-> t]]
<1>a. \A g \in 0 .. n - 1, t \in 0 .. m - 1 : Read(g, t) = Named(g, t)
    BY <1>4
<1>b. /\ ReadPartition(slice) = {Read(g, t) : g \in 0 .. n - 1, t \in 0 .. m - 1}
      /\ Rows(f.version, slice.start, n, m) =
             {Named(g, t) : g \in 0 .. n - 1, t \in 0 .. m - 1}
    BY <1>5 DEF Rows
<1> HIDE DEF flat, slice, f, m, n, Read, Named
<1>6. ReadPartition(slice) = Rows(f.version, slice.start, n, m)
    BY <1>a, <1>b
<1> QED
    BY <1>6 DEF slice, f, m, n

(* A label of a row is the u32 of its value's name, and the name itself    *)
(* where all names of the shape are u32s.                                  *)
Labelled(row) ==
    /\ row.gpu_index = AsU32(row.value.gpu)
    /\ row.sample = AsU32(row.value.sample)
    /\ shape.n_gpu <= U32 => row.gpu_index = row.value.gpu
    /\ shape.n_time <= U32 => row.sample = row.value.sample

(* As LabelsTrue, of every batch emitted so far. *)
LabelsInv ==
    \A i \in DOMAIN results :
        results[i] \in {Pending, Failed} \/ \A row \in results[i] : Labelled(row)

(* A cast keeps a number of its width. *)
LEMMA CastKeeps == ASSUME NEW n \in Nat, n < U32 PROVE AsU32(n) = n
<1>1. U32 \in Nat \ {0}
    BY ScanAssumption
<1> QED
    BY <1>1 DEF AsU32

(* The rows of a slice of the shape carry their labels. *)
LEMMA RowsLabelled ==
    ASSUME TypeInv, NEW version, NEW i \in DOMAIN slices,
           NEW row \in Rows(version, slices[i].start, slices[i].n, shape.n_time)
    PROVE  Labelled(row)
<1> DEFINE s == slices[i].start
           n == slices[i].n
<1>1. /\ s \in Nat /\ n \in Nat /\ shape.n_gpu \in Nat /\ shape.n_time \in Nat
      /\ s \in 0 .. shape.n_gpu - n
    BY Integers DEF TypeInv, TypeOK
<1>2. PICK g \in 0 .. n - 1, t \in 0 .. shape.n_time - 1 :
          row = [gpu_index |-> AsU32(s + g), sample |-> AsU32(t),
                 value |-> [version |-> version, gpu |-> s + g, sample |-> t]]
    BY DEF Rows
<1>3. s + g \in Nat /\ s + g < shape.n_gpu /\ t \in Nat /\ t < shape.n_time
    BY <1>1, <1>2
<1>4. U32 \in Nat
    BY ScanAssumption
<1> HIDE DEF s, n
<1>5. shape.n_gpu <= U32 => AsU32(s + g) = s + g
    BY <1>1, <1>3, <1>4, CastKeeps
<1>6. shape.n_time <= U32 => AsU32(t) = t
    BY <1>1, <1>3, <1>4, CastKeeps
<1> QED
    BY <1>2, <1>5, <1>6 DEF Labelled

(* A batch is what a slice read, which has its labels by BatchRows. *)
LEMMA NextLabels == TypeInv /\ LabelsInv /\ [Next]_vars => LabelsInv'
<1> SUFFICES ASSUME TypeInv, LabelsInv, [Next]_vars PROVE LabelsInv'
    OBVIOUS
<1>1. CASE UNCHANGED <<results, shape>>
    BY <1>1 DEF LabelsInv, Labelled
<1>2. CASE OpenFile
    <2>1. results' = <<>>
        BY <1>2 DEF OpenFile, TypeInv
    <2> QED
        BY <2>1 DEF LabelsInv
<1>3. CASE CutFile
    <2>1. results' = <<>> \/ results' = [i \in DOMAIN slices' |-> Pending]
        BY <1>3 DEF CutFile, TypeInv
    <2> QED
        BY <2>1 DEF LabelsInv
<1>4. ASSUME NEW i \in DOMAIN slices, Execute(i) PROVE LabelsInv'
    <2>1. shape' = shape
        BY <1>4 DEF Execute
    <2>2. \A row \in ReadPartition(slices[i]) : Labelled(row)
        BY <1>4, BatchRows, RowsLabelled DEF Execute
    <2>3. results' = [results EXCEPT ![i] = ReadPartition(slices[i])]
        BY <1>4 DEF Execute
    <2> QED
        BY <2>1, <2>2, <2>3 DEF LabelsInv, Labelled
<1>5. ASSUME NEW i \in DOMAIN slices, ExecuteFails(i) PROVE LabelsInv'
    BY <1>5 DEF ExecuteFails, LabelsInv, Labelled
<1> QED
    BY <1>1, <1>2, <1>3, <1>4, <1>5
    DEF Next, vars, Replace, ListingFails, Cut

(* No row carries the gpu or the sample of another, for any files that     *)
(* take the paths between the listing and the executions: the labels are   *)
(* the names as u32s, and the names themselves for every listing of at     *)
(* most 2^32 gpus and samples.                                             *)
THEOREM NoFalseLabel == Spec => []LabelsTrue
<1>1. Init => LabelsInv
    BY DEF Init, LabelsInv
<1>2. LabelsInv => LabelsTrue
    BY DEF LabelsInv, Labelled, LabelsTrue, Batches
<1> QED
    BY <1>1, <1>2, InitTypes, NextTypes, NextLabels, PTL DEF Spec

-----------------------------------------------------------------------------
(* The slices of a file tile it *)

(* The gpus of a slice. *)
Gpus(slice) == slice.start .. slice.start + slice.n - 1

(* The gpus below b of file k are in some slice. *)
Covered(k, b) ==
    \A g \in 0 .. b - 1 : \E i \in DOMAIN slices : slices[i].file = k /\ g \in Gpus(slices[i])

(* The files before the current one are covered, the current one as far as *)
(* it was cut, and the slices of one file do not overlap. *)
TileInv ==
    /\ \A k \in 1 .. file - 1 : Covered(k, shape.n_gpu)
    /\ Covered(file, start)
    /\ \A i \in DOMAIN slices :
          slices[i].file = file => slices[i].start + slices[i].n <= start
    /\ \A i, j \in DOMAIN slices :
          i # j /\ slices[i].file = slices[j].file =>
              Gpus(slices[i]) \cap Gpus(slices[j]) = {}
    /\ phase = "executing" => file = Len(Files) + 1

(* Appending a slice keeps the others where they are. *)
LEMMA AddedSlice ==
    ASSUME TypeInv, NEW e \in [file : Nat, start : Nat, n : Nat],
           slices' = Append(slices, e)
    PROVE  /\ DOMAIN slices = 1 .. Len(slices) /\ Len(slices) \in Nat
           /\ DOMAIN slices' = 1 .. Len(slices) + 1
           /\ slices'[Len(slices) + 1] = e
           /\ \A i \in DOMAIN slices : slices'[i] = slices[i]
           /\ \A i \in DOMAIN slices' : i = Len(slices) + 1 \/ i \in DOMAIN slices
<1> DEFINE S == [file : Nat, start : Nat, n : Nat]
<1>1. slices \in Seq(S) /\ e \in S
    BY DEF TypeInv
<1> HIDE DEF S
<1> QED
    BY <1>1, Appended

(* Two ranges of which one ends before the other begins have nothing in common. *)
LEMMA RangesApart ==
    ASSUME NEW a \in Nat, NEW b \in Nat, NEW c \in Nat, NEW d \in Nat, a + b <= c
    PROVE  (a .. a + b - 1) \cap (c .. c + d - 1) = {}
OBVIOUS

(* What is covered stays covered when slices are only added. *)
LEMMA CoveredStays ==
    ASSUME TypeInv, NEW k, NEW b,
           \A i \in DOMAIN slices : i \in DOMAIN slices' /\ slices'[i] = slices[i],
           Covered(k, b)
    PROVE  \A g \in 0 .. b - 1 :
              \E i \in DOMAIN slices' : slices'[i].file = k /\ g \in Gpus(slices'[i])
BY DEF Covered

(* A cut adds the next rows of the file and no others. *)
LEMMA CutTiles == TypeInv /\ TileInv /\ Cut => TileInv'
<1> SUFFICES ASSUME TypeInv, TileInv, Cut PROVE TileInv'
    OBVIOUS
<1> DEFINE n == AtMost(shape.n_gpu - start, SeriesBlockRows(shape.n_time))
           e == [file |-> file, start |-> start, n |-> n]
           last == Len(slices) + 1
<1>1. /\ slices' = Append(slices, e) /\ start' = start + n
      /\ file' = file /\ shape' = shape /\ phase' = phase /\ phase # "executing"
    BY DEF Cut, AddSlice
<1>2. start' > start /\ TypeInv'
    BY CutTypes
<1>3. n \in Nat /\ file \in Nat /\ start \in Nat
    <2>1. SeriesBlockRows(shape.n_time) \in Nat \ {0}
        BY BlockRowsPositive DEF TypeInv
    <2>2. shape.n_gpu - start \in Nat /\ file \in Nat /\ start \in Nat
        BY Integers DEF Cut, TypeInv
    <2> QED
        BY <2>1, <2>2 DEF AtMost
<1>4. e.file = file /\ e.start = start /\ e.n = n /\ e \in [file : Nat, start : Nat, n : Nat]
    BY <1>3
<1> HIDE DEF n, e
<1>5. /\ last \in DOMAIN slices' /\ slices'[last] = e
      /\ \A i \in DOMAIN slices : i \in DOMAIN slices' /\ slices'[i] = slices[i]
      /\ \A i \in DOMAIN slices' : i = last \/ i \in DOMAIN slices
    BY <1>1, <1>4, AddedSlice
<1> HIDE DEF last
<1>6. Gpus(e) = start .. start + n - 1
    BY <1>4 DEF Gpus
<1>7. \A k \in 1 .. file' - 1 : Covered(k, shape.n_gpu)'
    BY <1>1, <1>5, CoveredStays DEF TileInv, Covered
<1>8. Covered(file, start)'
    <2> SUFFICES ASSUME NEW g \in 0 .. start' - 1
                 PROVE  \E i \in DOMAIN slices' :
                           slices'[i].file = file /\ g \in Gpus(slices'[i])
        BY <1>1 DEF Covered
    <2>1. CASE g < start
        <3>1. g \in 0 .. start - 1
            BY <1>3, <2>1
        <3> QED
            BY <1>5, <3>1, CoveredStays DEF TileInv
    <2>2. CASE ~(g < start)
        <3>1. g \in start .. start + n - 1
            BY <1>1, <1>3, <2>2
        <3> QED
            BY <1>4, <1>5, <1>6, <3>1
    <2> QED
        BY <2>1, <2>2
<1>9. ASSUME NEW i \in DOMAIN slices', slices'[i].file = file'
      PROVE  slices'[i].start + slices'[i].n <= start'
    <2>1. CASE i = last
        BY <1>1, <1>3, <1>4, <1>5, <2>1
    <2>2. CASE i \in DOMAIN slices
        <3>1. slices[i].start + slices[i].n <= start
            BY <1>1, <1>5, <1>9, <2>2 DEF TileInv
        <3> QED
            BY <1>1, <1>2, <1>3, <1>5, <2>2, <3>1, Integers
    <2> QED
        BY <1>5, <1>9, <2>1, <2>2
<1>10. ASSUME NEW i \in DOMAIN slices, slices[i].file = file
       PROVE  Gpus(slices[i]) \cap Gpus(e) = {}
    <2>1. slices[i].start + slices[i].n <= start
        BY <1>10 DEF TileInv
    <2>2. slices[i].start \in Nat /\ slices[i].n \in Nat
        BY <1>10, Integers
    <2> QED
        BY <1>3, <1>6, <2>1, <2>2, RangesApart DEF Gpus
<1>11. ASSUME NEW i \in DOMAIN slices', NEW j \in DOMAIN slices',
              i # j, slices'[i].file = slices'[j].file
       PROVE  Gpus(slices'[i]) \cap Gpus(slices'[j]) = {}
    <2>1. CASE i \in DOMAIN slices /\ j \in DOMAIN slices
        BY <1>5, <1>11, <2>1 DEF TileInv
    <2>2. CASE i = last /\ j \in DOMAIN slices
        BY <1>4, <1>5, <1>10, <1>11, <2>2
    <2>3. CASE j = last /\ i \in DOMAIN slices
        BY <1>4, <1>5, <1>10, <1>11, <2>3
    <2> QED
        BY <1>5, <1>11, <2>1, <2>2, <2>3
<1> QED
    BY <1>1, <1>7, <1>8, <1>9, <1>11 DEF TileInv

(* A file is left when its rows are used up. *)
LEMMA CutFileTiles == TypeInv /\ TileInv /\ CutFile => TileInv'
<1> SUFFICES ASSUME TypeInv, TileInv, CutFile PROVE TileInv'
    OBVIOUS
<1> DEFINE e == [file |-> file, start |-> 0, n |-> 0]
<1>1. /\ file' = file + 1 /\ start' = 0 /\ shape' = shape
      /\ phase' = "executing" => file' = Len(Files) + 1
      /\ slices' = slices \/ slices' = Append(slices, e)
    BY DEF CutFile, AddSlice
<1>2. file \in Nat /\ start = shape.n_gpu
    BY Integers DEF CutFile, TypeInv, TypeOK
<1>3. e.file = file /\ Gpus(e) = {} /\ e \in [file : Nat, start : Nat, n : Nat]
    BY <1>2 DEF Gpus
<1> HIDE DEF e
<1>4. /\ \A i \in DOMAIN slices : i \in DOMAIN slices' /\ slices'[i] = slices[i]
      /\ \A i \in DOMAIN slices' : i \in DOMAIN slices \/ slices'[i] = e
    <2>1. CASE slices' = slices
        BY <2>1
    <2>2. CASE slices' = Append(slices, e)
        BY <1>3, <2>2, AddedSlice
    <2> QED
        BY <1>1, <2>1, <2>2
<1>5. \A k \in 1 .. file' - 1 : Covered(k, shape.n_gpu)'
    <2> SUFFICES ASSUME NEW k \in 1 .. file PROVE Covered(k, shape.n_gpu)'
        BY <1>1, <1>2
    <2>1. Covered(k, shape.n_gpu)
        BY <1>2 DEF TileInv
    <2> QED
        BY <1>1, <1>4, <2>1, CoveredStays DEF Covered
<1>6. Covered(file, start)'
    BY <1>1 DEF Covered
<1>7. \A i \in DOMAIN slices' : slices'[i].file # file'
    <2>1. \A i \in DOMAIN slices : slices[i].file \in 1 .. file
        BY DEF TypeInv, TypeOK
    <2>2. \A i \in DOMAIN slices : slices[i].file # file'
        BY <1>1, <1>2, <2>1
    <2>3. e.file # file'
        BY <1>1, <1>2, <1>3
    <2> QED
        BY <1>4, <2>2, <2>3
<1>8. ASSUME NEW i \in DOMAIN slices', NEW j \in DOMAIN slices',
             i # j, slices'[i].file = slices'[j].file
      PROVE  Gpus(slices'[i]) \cap Gpus(slices'[j]) = {}
    <2>1. CASE i \in DOMAIN slices /\ j \in DOMAIN slices
        BY <1>4, <1>8, <2>1 DEF TileInv
    <2>2. CASE slices'[i] = e \/ slices'[j] = e
        BY <1>3, <2>2
    <2> QED
        BY <1>4, <1>8, <2>1, <2>2
<1> QED
    BY <1>1, <1>5, <1>6, <1>7, <1>8 DEF TileInv

(* Nothing is cut yet, and nothing of the first file is to be covered. *)
LEMMA InitTiles == Init => TileInv
BY DEF Init, TileInv, Covered

(* Every step keeps the tiling; only the two cuts touch it. *)
LEMMA NextTiles == TypeInv /\ TileInv /\ [Next]_vars => TileInv'
<1> SUFFICES ASSUME TypeInv, TileInv, [Next]_vars PROVE TileInv'
    OBVIOUS
<1>1. CASE UNCHANGED <<phase, shape, file, start, slices>>
    BY <1>1 DEF TileInv, Covered
<1>2. CASE OpenFile
    BY <1>2 DEF OpenFile, TypeInv, TileInv, Covered
<1>3. CASE ListingFails
    BY <1>3 DEF ListingFails, TileInv, Covered
<1>4. CASE Cut
    BY <1>4, CutTiles
<1>5. CASE CutFile
    BY <1>5, CutFileTiles
<1> QED
    BY <1>1, <1>2, <1>3, <1>4, <1>5 DEF Next, vars, Replace, Execute, ExecuteFails

-----------------------------------------------------------------------------
(* Files that were not replaced *)

(* A version is given once, so that a file with the version of the listing *)
(* is the file of the listing: it has its shape, no slice of it is refused *)
(* and what was read of it is still true.                                  *)
VersionInv ==
    /\ \A p \in Paths : disk[p] # Missing => disk[p].version <= replaced
    /\ \A k \in DOMAIN opened : opened[k] <= replaced
    /\ phase \in {"slicing", "executing"} => Len(opened) = Len(Files)
    /\ \A k \in DOMAIN opened : Unreplaced(k) => disk[Files[k]].shape = shape
    /\ phase = "executing" =>
          \A i \in DOMAIN slices :
              Unreplaced(slices[i].file) =>
                  \/ results[i] = Pending
                  \/ results[i] = Rows(opened[slices[i].file], slices[i].start,
                                       slices[i].n, shape.n_time)

(* Every slice is of a file that was listed. *)
LEMMA ListedFile ==
    ASSUME TypeInv, VersionInv, phase = "executing", NEW i \in DOMAIN slices
    PROVE  slices[i].file \in DOMAIN opened
<1>1. Len(opened) = Len(Files) /\ opened \in Seq(0 .. MaxReplaced)
    BY DEF VersionInv, TypeInv, TypeOK
<1>2. slices[i].file \in 1 .. Len(Files)
    BY DEF TypeInv
<1> QED
    BY <1>1, <1>2

(* Nothing is listed yet. *)
LEMMA InitVersions == Init => VersionInv
BY DEF Init, VersionInv

(* A replacement only takes files away from those of the listing. *)
LEMMA ReplaceVersions == TypeInv /\ VersionInv /\ Replace => VersionInv'
<1> SUFFICES ASSUME TypeInv, VersionInv, Replace PROVE VersionInv'
    OBVIOUS
<1>1. /\ replaced' = replaced + 1 /\ replaced \in Nat
      /\ opened' = opened /\ phase' = phase /\ shape' = shape
      /\ slices' = slices /\ results' = results
    BY ScanAssumption DEF Replace, TypeInv, TypeOK
<1>2. \A k \in DOMAIN opened : opened[k] \in Nat /\ opened[k] <= replaced /\ k \in DOMAIN Files
    <2>1. opened \in Seq(0 .. MaxReplaced) /\ Len(opened) <= Len(Files)
        BY DEF TypeInv, TypeOK
    <2>2. \A k \in DOMAIN opened : opened[k] \in 0 .. MaxReplaced
        BY <2>1, EntryOfSeq
    <2>3. \A k \in DOMAIN opened : k \in DOMAIN Files
        BY <2>1, ScanAssumption
    <2> QED
        BY <2>2, <2>3, ScanAssumption DEF VersionInv
<1>3. PICK p \in Paths, s \in Shapes :
          disk' \in {[disk EXCEPT ![p] = Missing],
                    [disk EXCEPT ![p] = [shape |-> s, version |-> replaced + 1]]}
    BY DEF Replace
<1>4. ASSUME NEW k \in DOMAIN opened, Unreplaced(k)'
      PROVE  Unreplaced(k) /\ disk'[Files[k]] = disk[Files[k]]
    <2>1. Files[k] \in Paths /\ DOMAIN disk = Paths
        BY <1>2, <1>4 DEF Paths, TypeInv, TypeOK
    <2>2. Files[k] # p
        <3> SUFFICES ASSUME Files[k] = p PROVE FALSE
            OBVIOUS
        <3>1. disk'[p] = Missing \/ disk'[p].version = replaced + 1
            BY <1>3, <2>1
        <3>2. disk'[p].version = opened[k] /\ disk'[p] # Missing
            BY <1>1, <1>4 DEF Unreplaced
        <3> QED
            BY <1>1, <1>2, <1>4, <3>1, <3>2
    <2>3. disk'[Files[k]] = disk[Files[k]]
        BY <1>3, <2>1, <2>2
    <2> QED
        BY <1>1, <1>4, <2>3 DEF Unreplaced
<1>5. \A k \in DOMAIN opened' : opened'[k] <= replaced'
    BY <1>1, <1>2
<1>6. \A k \in DOMAIN opened' : Unreplaced(k)' => disk'[Files[k]].shape = shape'
    BY <1>1, <1>4 DEF VersionInv
<1>7. ASSUME phase = "executing", NEW i \in DOMAIN slices, NEW k \in DOMAIN opened,
             slices[i].file = k, Unreplaced(k)'
      PROVE  \/ results[i] = Pending
             \/ results[i] = Rows(opened[k], slices[i].start, slices[i].n, shape.n_time)
    <2>1. Unreplaced(k)
        BY <1>4, <1>7
    <2> QED
        BY <1>7, <2>1 DEF VersionInv
<1>8. \A q \in Paths : disk'[q] # Missing => disk'[q].version <= replaced'
    <2> SUFFICES ASSUME NEW q \in Paths, disk'[q] # Missing
                 PROVE  disk'[q].version <= replaced'
        OBVIOUS
    <2>1. CASE q = p
        BY <1>1, <1>3, <2>1 DEF TypeInv, TypeOK
    <2>2. CASE q # p
        <3>1. disk'[q] = disk[q] /\ disk[q] \in Content
            BY <1>3, <2>2 DEF TypeInv, TypeOK
        <3>2. disk[q].version \in Nat
            BY <3>1, ScanAssumption DEF Content
        <3> QED
            BY <1>1, <3>1, <3>2 DEF VersionInv
    <2> QED
        BY <2>1, <2>2
<1>9. phase' = "executing" =>
          \A i \in DOMAIN slices' :
              Unreplaced(slices[i].file)' =>
                  \/ results'[i] = Pending
                  \/ results'[i] = Rows(opened[slices[i].file], slices[i].start,
                                        slices[i].n, shape.n_time)'
    <2> SUFFICES ASSUME phase = "executing", NEW i \in DOMAIN slices,
                        Unreplaced(slices[i].file)'
                 PROVE  \/ results[i] = Pending
                        \/ results[i] = Rows(opened[slices[i].file], slices[i].start,
                                             slices[i].n, shape.n_time)
        BY <1>1 DEF Rows
    <2>1. slices[i].file \in DOMAIN opened
        BY ListedFile
    <2>2. PICK k \in DOMAIN opened : k = slices[i].file
        BY <2>1
    <2>3. Unreplaced(k)'
        BY <1>1, <2>2 DEF Unreplaced
    <2> QED
        BY <1>7, <2>2, <2>3
<1> QED
    BY <1>1, <1>5, <1>6, <1>8, <1>9 DEF VersionInv

(* A file that is listed has the shape of the listing. *)
LEMMA OpenFileVersions == TypeInv /\ VersionInv /\ OpenFile => VersionInv'
<1> SUFFICES ASSUME TypeInv, VersionInv, OpenFile PROVE VersionInv'
    OBVIOUS
<1> DEFINE last == Len(opened) + 1
<1>1. /\ opened' = Append(opened, NextFile.version) /\ shape' = NextFile.shape
      /\ disk' = disk /\ replaced' = replaced /\ NextFile = disk[Files[last]]
      /\ opened # <<>> => shape' = shape
      /\ phase' = IF last = Len(Files) THEN "slicing" ELSE "listing"
    BY DEF OpenFile, NextFile
<1>2. opened \in Seq(0 .. MaxReplaced) /\ NextFile.version \in 0 .. MaxReplaced
    BY NextFileTypes DEF OpenFile, TypeInv, TypeOK
<1>3. /\ DOMAIN opened' = 1 .. last /\ opened'[last] = NextFile.version
      /\ Len(opened') = last /\ opened \in Seq(0 .. MaxReplaced)
      /\ \A k \in DOMAIN opened : opened'[k] = opened[k]
      /\ \A k \in DOMAIN opened' : k = last \/ k \in DOMAIN opened
    BY <1>1, <1>2, Appended
<1>4. opened = <<>> => DOMAIN opened = {}
    OBVIOUS
<1>5. NextFile.version <= replaced
    <2>1. last \in DOMAIN Files
        BY <1>2, ScanAssumption DEF OpenFile
    <2> QED
        BY <1>1, <2>1 DEF OpenFile, VersionInv, Paths
<1> HIDE DEF last
<1>6. \A k \in DOMAIN opened' : opened'[k] <= replaced'
    BY <1>1, <1>3, <1>5 DEF VersionInv
<1>7. \A k \in DOMAIN opened' : Unreplaced(k)' => disk'[Files[k]].shape = shape'
    BY <1>1, <1>3, <1>4 DEF VersionInv, Unreplaced
<1> QED
    BY <1>1, <1>3, <1>6, <1>7 DEF VersionInv

(* A slice of a file that was not replaced is not refused. *)
LEMMA UnreplacedRead ==
    ASSUME TypeInv, VersionInv, phase = "executing", NEW i \in DOMAIN slices,
           Unreplaced(slices[i].file)
    PROVE  /\ ~ReadRefused(slices[i])
           /\ Reads(slices[i]).version = opened[slices[i].file]
<1>1. Reads(slices[i]) # Missing /\ Reads(slices[i]).version = opened[slices[i].file]
    BY DEF Unreplaced, Reads
<1>2. Reads(slices[i]).shape = shape
    BY ListedFile DEF VersionInv, Reads
<1>3. slices[i].start + slices[i].n <= shape.n_gpu
    <2>1. slices[i].start \in 0 .. shape.n_gpu - slices[i].n
        BY DEF TypeInv, TypeOK
    <2>2. slices[i].start \in Nat /\ slices[i].n \in Nat /\ shape.n_gpu \in Nat
        BY Integers DEF TypeInv
    <2> QED
        BY <2>1, <2>2
<1>4. slices[i].start \in Nat /\ slices[i].n \in Nat /\ shape.n_gpu \in Nat
    BY Integers DEF TypeInv
<1>5. ~(slices[i].start + slices[i].n > shape.n_gpu)
    BY <1>3, <1>4
<1> QED
    BY <1>1, <1>2, <1>5 DEF ReadRefused

(* A slice of a file that was not replaced gives the rows of its version. *)
LEMMA ExecuteVersions ==
    ASSUME TypeInv, VersionInv, NEW i \in DOMAIN slices, Execute(i) \/ ExecuteFails(i)
    PROVE  VersionInv'
<1>1. /\ phase = "executing" /\ DOMAIN results = DOMAIN slices
      /\ UNCHANGED <<disk, replaced, phase, opened, shape, slices>>
      /\ \A j \in DOMAIN slices : j # i => results'[j] = results[j]
    BY DEF Execute, ExecuteFails, TypeInv, TypeOK
<1>2. ASSUME Unreplaced(slices[i].file)
      PROVE  results'[i] = Rows(opened[slices[i].file], slices[i].start,
                                slices[i].n, shape.n_time)
    <2>1. /\ ~ReadRefused(slices[i])
          /\ Reads(slices[i]).version = opened[slices[i].file]
        BY <1>1, <1>2, UnreplacedRead
    <2>2. results'[i] = ReadPartition(slices[i])
        BY <1>1, <2>1 DEF Execute, ExecuteFails
    <2> QED
        BY <1>1, <2>1, <2>2, BatchRows
<1>3. ASSUME NEW j \in DOMAIN slices, Unreplaced(slices[j].file)
      PROVE  \/ results'[j] = Pending
             \/ results'[j] = Rows(opened[slices[j].file], slices[j].start,
                                   slices[j].n, shape.n_time)
    BY <1>1, <1>2, <1>3 DEF VersionInv
<1> QED
    BY <1>1, <1>3 DEF VersionInv, Unreplaced

(* Every step keeps what is known of files that were not replaced. *)
LEMMA NextVersions == TypeInv /\ VersionInv /\ [Next]_vars => VersionInv'
<1> SUFFICES ASSUME TypeInv, VersionInv, [Next]_vars PROVE VersionInv'
    OBVIOUS
<1>1. CASE Replace
    BY <1>1, ReplaceVersions
<1>2. CASE OpenFile
    BY <1>2, OpenFileVersions
<1>3. CASE ListingFails
    BY <1>3 DEF ListingFails, VersionInv, Unreplaced
<1>4. CASE Cut
    BY <1>4 DEF Cut, VersionInv, Unreplaced
<1>5. CASE CutFile
    <2>1. phase = "slicing" /\ UNCHANGED <<disk, replaced, opened, shape>>
        BY <1>5 DEF CutFile
    <2>2. phase' = "executing" => \A i \in DOMAIN slices' : results'[i] = Pending
        BY <1>5 DEF CutFile
    <2> QED
        BY <2>1, <2>2 DEF VersionInv, Unreplaced
<1>6. ASSUME NEW i \in DOMAIN slices, Execute(i) \/ ExecuteFails(i) PROVE VersionInv'
    BY <1>6, ExecuteVersions
<1>7. CASE UNCHANGED vars
    BY <1>7 DEF vars, VersionInv, Unreplaced
<1> QED
    BY <1>1, <1>2, <1>3, <1>4, <1>5, <1>6, <1>7 DEF Next

-----------------------------------------------------------------------------
Values(rows) == {row.value : row \in rows}
CellSet(v, gpus, m) == [version : {v}, gpu : gpus, sample : 0 .. m - 1]

(* The values of a batch are the cells of its gpus. *)
LEMMA CellsOfRows ==
    ASSUME NEW v, NEW s \in Nat, NEW n \in Nat, NEW m \in Nat
    PROVE  Values(Rows(v, s, n, m)) = CellSet(v, s .. s + n - 1, m)
<1> DEFINE C == [version : {v}, gpu : s .. s + n - 1, sample : 0 .. m - 1]
<1>1. ASSUME NEW row \in Rows(v, s, n, m) PROVE row.value \in C
    <2>1. PICK g \in 0 .. n - 1, t \in 0 .. m - 1 :
              row = [gpu_index |-> AsU32(s + g), sample |-> AsU32(t),
                     value |-> [version |-> v, gpu |-> s + g, sample |-> t]]
        BY <1>1 DEF Rows
    <2>2. s + g \in s .. s + n - 1
        OBVIOUS
    <2> QED
        BY <2>1, <2>2
<1>2. ASSUME NEW c \in C PROVE \E row \in Rows(v, s, n, m) : c = row.value
    <2> DEFINE g == c.gpu - s
               row == [gpu_index |-> AsU32(s + g), sample |-> AsU32(c.sample),
                       value |-> [version |-> v, gpu |-> s + g, sample |-> c.sample]]
    <2>1. c.gpu \in s .. s + n - 1 /\ c.sample \in 0 .. m - 1 /\ c.version = v
        BY <1>2
    <2>2. g \in 0 .. n - 1 /\ s + g = c.gpu
        BY <2>1
    <2>3. row \in Rows(v, s, n, m)
        <3> DEFINE t == c.sample
        <3>1. t \in 0 .. m - 1
            BY <2>1
        <3> DEFINE R(a, b) ==
                       [gpu_index |-> AsU32(s + a), sample |-> AsU32(b),
                        value |-> [version |-> v, gpu |-> s + a, sample |-> b]]
        <3>2. row = R(g, t) /\ Rows(v, s, n, m) = {R(a, b) : a \in 0 .. n - 1, b \in 0 .. m - 1}
            BY DEF Rows
        <3> HIDE DEF g, t, R, row
        <3> QED
            BY <2>2, <3>1, <3>2
    <2>4. c = [version |-> v, gpu |-> c.gpu, sample |-> c.sample]
        BY <1>2, <2>1
    <2>5. row.value = c
        BY <2>2, <2>4
    <2> QED
        BY <2>3, <2>5
<1> QED
    BY <1>1, <1>2 DEF Values, CellSet

(* The tiling, and what the batches of its slices are, make the file whole. *)
LEMMA WholeFile == TypeInv /\ TileInv /\ VersionInv => WholeScan
<1> SUFFICES ASSUME TypeInv, TileInv, VersionInv, NEW k \in DOMAIN opened,
                    phase = "executing", Unreplaced(k),
                    \A i \in DOMAIN slices : slices[i].file = k => results[i] # Pending
             PROVE  LET own == {i \in DOMAIN slices : slices[i].file = k}
                    IN  /\ own \subseteq Batches
                        /\ UNION {EmittedBy(i) : i \in own} = CellsOf(k)
                        /\ \A i, j \in own :
                              i # j => EmittedBy(i) \cap EmittedBy(j) = {}
    BY DEF WholeScan
<1> DEFINE own == {i \in DOMAIN slices : slices[i].file = k}
           m == shape.n_time
<1>1. ASSUME NEW i \in own
      PROVE  /\ slices[i].start \in Nat /\ slices[i].n \in Nat /\ m \in Nat
             /\ slices[i].start + slices[i].n <= shape.n_gpu
             /\ results[i] = Rows(opened[k], slices[i].start, slices[i].n, m)
    <2>1. slices[i].start \in Nat /\ slices[i].n \in Nat /\ shape.n_gpu \in Nat /\ m \in Nat
        BY Integers DEF TypeInv
    <2>2. slices[i].start \in 0 .. shape.n_gpu - slices[i].n
        BY DEF TypeInv, TypeOK
    <2>3. results[i] = Rows(opened[k], slices[i].start, slices[i].n, m)
        BY DEF VersionInv
    <2> QED
        BY <2>1, <2>2, <2>3
<1>2. ASSUME NEW i \in own
      PROVE  EmittedBy(i) = CellSet(opened[k], Gpus(slices[i]), m)
    <2>1. /\ slices[i].start \in Nat /\ slices[i].n \in Nat /\ m \in Nat
          /\ results[i] = Rows(opened[k], slices[i].start, slices[i].n, m)
        BY <1>1, <1>2
    <2>2. EmittedBy(i) = Values(Rows(opened[k], slices[i].start, slices[i].n, m))
        BY <2>1 DEF EmittedBy, Values
    <2> DEFINE v == opened[k]
               s == slices[i].start
               n == slices[i].n
    <2>3. s \in Nat /\ n \in Nat /\ m \in Nat
        BY <2>1
    <2>4. /\ EmittedBy(i) = Values(Rows(v, s, n, m))
          /\ Gpus(slices[i]) = s .. s + n - 1
        BY <2>2 DEF Gpus
    <2> HIDE DEF m, v, s, n
    <2>5. EmittedBy(i) = CellSet(v, s .. s + n - 1, m)
        BY <2>3, <2>4, CellsOfRows
    <2> QED
        BY <2>4, <2>5 DEF v
<1>3. own \subseteq Batches
    <2> SUFFICES ASSUME NEW i \in own PROVE i \in Batches
        OBVIOUS
    <2>1. opened[k] \in 0 .. MaxReplaced /\ shape \in Shapes
        <3>1. opened \in Seq(0 .. MaxReplaced) /\ opened # <<>>
            BY DEF TypeInv, TypeOK
        <3>2. opened[k] \in 0 .. MaxReplaced
            BY <3>1, EntryOfSeq
        <3> QED
            BY <3>1, <3>2 DEF TypeInv, TypeOK
    <2>2. /\ slices[i].start \in 0 .. shape.n_gpu
          /\ slices[i].n \in 0 .. shape.n_gpu - slices[i].start
        <3>1. /\ slices[i].start \in Nat /\ slices[i].n \in Nat /\ shape.n_gpu \in Nat
              /\ slices[i].start + slices[i].n <= shape.n_gpu
            BY <1>1 DEF TypeInv
        <3> QED
            BY <3>1
    <2>3. results[i] \notin {Pending, Failed}
        BY <1>1, <2>1, <2>2, MarksAssumption
    <2> QED
        BY <2>3 DEF Batches, TypeInv, TypeOK
<1>4. ASSUME NEW i \in own PROVE EmittedBy(i) \subseteq CellsOf(k)
    <2>1. Gpus(slices[i]) \subseteq 0 .. shape.n_gpu - 1
        <3>1. /\ slices[i].start \in Nat /\ slices[i].n \in Nat /\ shape.n_gpu \in Nat
              /\ slices[i].start + slices[i].n <= shape.n_gpu
            BY <1>1, <1>4 DEF TypeInv
        <3> QED
            BY <3>1 DEF Gpus
    <2>2. EmittedBy(i) = CellSet(opened[k], Gpus(slices[i]), m)
        BY <1>2, <1>4
    <2> QED
        BY <2>1, <2>2 DEF CellsOf, CellSet
<1>5. ASSUME NEW c \in CellsOf(k) PROVE \E i \in own : c \in EmittedBy(i)
    <2>1. c \in [version : {opened[k]}, gpu : 0 .. shape.n_gpu - 1, sample : 0 .. m - 1]
        BY <1>5 DEF CellsOf
    <2>2. Covered(k, shape.n_gpu)
        <3>1. k \in 1 .. Len(Files) /\ file = Len(Files) + 1 /\ Len(Files) \in Nat
            BY ScanAssumption DEF TypeInv, TypeOK, TileInv
        <3> QED
            BY <3>1 DEF TileInv
    <2>3. PICK i \in DOMAIN slices : slices[i].file = k /\ c.gpu \in Gpus(slices[i])
        BY <2>1, <2>2 DEF Covered
    <2>4. i \in own /\ c \in CellSet(opened[k], Gpus(slices[i]), m)
        BY <2>1, <2>3 DEF CellSet
    <2> QED
        BY <1>2, <2>4
<1>6. ASSUME NEW i \in own, NEW j \in own, i # j
      PROVE  EmittedBy(i) \cap EmittedBy(j) = {}
    <2>1. Gpus(slices[i]) \cap Gpus(slices[j]) = {}
        BY <1>6 DEF TileInv
    <2>2. ASSUME NEW c \in EmittedBy(i), c \in EmittedBy(j) PROVE FALSE
        <3>1. /\ c \in CellSet(opened[k], Gpus(slices[i]), m)
              /\ c \in CellSet(opened[k], Gpus(slices[j]), m)
            BY <1>2, <1>6, <2>2
        <3> QED
            BY <2>1, <3>1 DEF CellSet
    <2> QED
        BY <2>2
<1>7. UNION {EmittedBy(i) : i \in own} = CellsOf(k)
    BY <1>4, <1>5
<1> QED
    BY <1>3, <1>6, <1>7

(* A file that was not replaced comes out whole: no slice fails, and each  *)
(* sample is in one slice, whatever the shapes, the block size, the order  *)
(* of the executions and the fate of the other files.                      *)
THEOREM WholeFiles == Spec => []WholeScan
BY InitTypes, NextTypes, InitTiles, NextTiles, InitVersions, NextVersions,
   WholeFile, PTL DEF Spec
=============================================================================

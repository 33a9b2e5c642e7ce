------------------------------ MODULE Hdf5Scan ------------------------------
(***************************************************************************)
(* A DataFusion scan of a listing of analog HDF5 files                     *)
(* (crates/hdf5-df: Hdf5TableProvider.try_listing, slices, partitions, and *)
(* Hdf5Exec.execute over read_partition).                                  *)
(*                                                                         *)
(* The shape of the files is read once, when the listing is made; the scan *)
(* is cut into slices of whole gpu rows by that shape; DataFusion executes *)
(* the slices in any order, and each of them opens its file again.  A file *)
(* may be replaced at any time in between.                                 *)
(***************************************************************************)
EXTENDS Integers, Sequences

CONSTANTS
    Files,         \* the listing: a sequence of paths, each once
    Shapes,        \* the shapes a file may have, each [n_gpu, n_time]
    TargetBytes,   \* SERIES_BLOCK_TARGET_BYTES
    U32,           \* 2^32: the width of the columns of labels
    MaxReplaced,   \* bound: replacements of files
    Missing,       \* no analog file at the path
    Pending,       \* a slice that was not executed yet
    Failed         \* a slice whose execution returned an error

ASSUME ScanAssumption ==
    /\ Files \in Seq(STRING)
    /\ \A s \in Shapes : s.n_gpu \in Nat /\ s.n_time \in Nat
    /\ TargetBytes \in Nat
    /\ U32 \in Nat \ {0}
    /\ MaxReplaced \in Nat

Paths == {Files[k] : k \in DOMAIN Files}

VARIABLES
    disk,      \* the file at each path: its shape and version, or Missing
    replaced,  \* replacements so far (bounded by MaxReplaced)
    phase,     \* "listing", "slicing", "executing", or "error": no scan
    opened,    \* the versions try_listing opened, one per file so far
    shape,     \* the provider's n_gpu and n_time
    file,      \* slices(): index of the file being cut
    start,     \* partitions(): the loop's start
    slices,    \* the slices cut so far
    results    \* per slice: Pending, Failed, or the rows of its batch

vars == <<disk, replaced, phase, opened, shape, file, start, slices, results>>

-----------------------------------------------------------------------------
AtLeastOne(n) == IF n < 1 THEN 1 ELSE n
(* Mutant of AtMost: always a whole block. *)
WholeBlock(n, bound) == bound

AtMost(n, bound) == IF n < bound THEN n ELSE bound

(* Mutant of SeriesBlockRows: no max(1) on the quotient. *)
BlockRowsOrNone(n_time) == TargetBytes \div AtLeastOne(2 * n_time)

(* Whole gpu rows of int16 samples that fit the target, at least one. *)
SeriesBlockRows(n_time) == AtLeastOne(TargetBytes \div AtLeastOne(2 * n_time))

Replace ==
    /\ replaced < MaxReplaced
    /\ replaced' = replaced + 1
    /\ \E p \in Paths : \E s \in Shapes :
          disk' \in {[disk EXCEPT ![p] = Missing],
                     [disk EXCEPT ![p] = [shape |-> s, version |-> replaced + 1]]}
    /\ UNCHANGED <<phase, opened, shape, file, start, slices, results>>

-----------------------------------------------------------------------------
(* try_listing *)

NextFile == disk[Files[Len(opened) + 1]]

(* The first file gives the shape, every other must have it. *)
OpenFile ==
    /\ phase = "listing" /\ Len(opened) < Len(Files)
    /\ NextFile # Missing
    /\ opened # <<>> => NextFile.shape = shape
    /\ opened' = Append(opened, NextFile.version)
    /\ shape' = NextFile.shape
    /\ phase' = IF Len(opened) + 1 = Len(Files) THEN "slicing" ELSE "listing"
    /\ UNCHANGED <<disk, replaced, file, start, slices, results>>

ListingFails ==
    /\ phase = "listing"
    /\ \/ Files = <<>>
       \/ /\ Len(opened) < Len(Files)
          /\ NextFile = Missing
       \/ /\ opened # <<>> /\ Len(opened) < Len(Files)
          /\ NextFile # Missing /\ NextFile.shape # shape
    /\ phase' = "error"
    /\ UNCHANGED <<disk, replaced, opened, shape, file, start, slices, results>>

-----------------------------------------------------------------------------
(* slices: partitions(n_gpu, n_time) for each file *)

AddSlice(s, n) ==
    slices' = Append(slices, [file |-> file, start |-> s, n |-> n])

Cut ==
    /\ phase = "slicing" /\ start < shape.n_gpu
    /\ LET n == AtMost(shape.n_gpu - start, SeriesBlockRows(shape.n_time))
       IN  /\ AddSlice(start, n)
           /\ start' = start + n
    /\ UNCHANGED <<disk, replaced, phase, opened, shape, file, results>>

(* Mutant of CutFile: start is not reset for the next file. *)
CutFileKeepingStart ==
    /\ phase = "slicing" /\ start >= shape.n_gpu
    /\ IF start = 0 THEN AddSlice(0, 0) ELSE slices' = slices
    /\ file' = file + 1
    /\ phase' = IF file = Len(Files) THEN "executing" ELSE "slicing"
    /\ results' = IF file = Len(Files) THEN [i \in DOMAIN slices' |-> Pending]
                  ELSE results
    /\ UNCHANGED <<disk, replaced, start, opened, shape>>

(* The end of the loop; a file without rows has one empty partition. *)
CutFile ==
    /\ phase = "slicing" /\ start >= shape.n_gpu
    /\ IF start = 0 THEN AddSlice(0, 0) ELSE slices' = slices
    /\ start' = 0
    /\ file' = file + 1
    /\ phase' = IF file = Len(Files) THEN "executing" ELSE "slicing"
    /\ results' = IF file = Len(Files) THEN [i \in DOMAIN slices' |-> Pending]
                  ELSE results
    /\ UNCHANGED <<disk, replaced, opened, shape>>

-----------------------------------------------------------------------------
(* execute(partition): read_partition on the file as it is now *)

(* read_i16_rows: n rows from row s on, one after the other; a value is    *)
(* known by the version and the cell it was read from.                     *)
Flat(f, s, n) ==
    LET n_time == f.shape.n_time
    IN  [k \in 0 .. n * n_time - 1 |->
            [version |-> f.version, gpu |-> s + (k \div n_time),
             sample |-> k % n_time]]

Reads(slice) == disk[Files[slice.file]]

(* Mutant of ReadRefused: only too few samples are refused. *)
ReadRefusedIfShort(slice) ==
    \/ Reads(slice) = Missing
    \/ /\ Reads(slice) # Missing
       /\ \/ slice.start + slice.n > Reads(slice).shape.n_gpu
          \/ slice.n * Reads(slice).shape.n_time < slice.n * shape.n_time

(* The file cannot be opened, has not got the rows, or has another width.  *)
ReadRefused(slice) ==
    \/ Reads(slice) = Missing
    \/ /\ Reads(slice) # Missing
       /\ \/ slice.start + slice.n > Reads(slice).shape.n_gpu
          \/ slice.n * Reads(slice).shape.n_time # slice.n * shape.n_time

(* The cast of a label to its column's width: it wraps and never fails. *)
AsU32(n) == n % U32

ReadPartition(slice) ==
    LET flat == Flat(Reads(slice), slice.start, slice.n)
    IN  {[gpu_index |-> AsU32(slice.start + g), sample |-> AsU32(t),
          value |-> flat[g * shape.n_time + t]] :
             g \in 0 .. slice.n - 1, t \in 0 .. shape.n_time - 1}

Execute(i) ==
    /\ phase = "executing" /\ results[i] = Pending
    /\ ~ReadRefused(slices[i])
    /\ results' = [results EXCEPT ![i] = ReadPartition(slices[i])]
    /\ UNCHANGED <<disk, replaced, phase, opened, shape, file, start, slices>>

ExecuteFails(i) ==
    /\ phase = "executing" /\ results[i] = Pending
    /\ ReadRefused(slices[i])
    /\ results' = [results EXCEPT ![i] = Failed]
    /\ UNCHANGED <<disk, replaced, phase, opened, shape, file, start, slices>>

-----------------------------------------------------------------------------
Init ==
    /\ disk \in [Paths -> [shape : Shapes, version : {0}] \cup {Missing}]
    /\ replaced = 0
    /\ phase = "listing" /\ opened = <<>>
    /\ shape = [n_gpu |-> 0, n_time |-> 0]
    /\ file = 1 /\ start = 0
    /\ slices = <<>> /\ results = <<>>

Next ==
    \/ Replace
    \/ OpenFile \/ ListingFails
    \/ Cut \/ CutFile
    \/ \E i \in DOMAIN slices : Execute(i) \/ ExecuteFails(i)

Spec == Init /\ [][Next]_vars

-----------------------------------------------------------------------------
(* Properties *)

Content == [shape : Shapes, version : 0 .. MaxReplaced]

Cell == [version : 0 .. MaxReplaced, gpu : Nat, sample : Nat]

(* The samples of n gpus from s on, each under its own name as a u32. *)
Rows(version, s, n, n_time) ==
    {[gpu_index |-> AsU32(s + g), sample |-> AsU32(t),
      value |-> [version |-> version, gpu |-> s + g, sample |-> t]] :
         g \in 0 .. n - 1, t \in 0 .. n_time - 1}

(* Neither mark of a slice is a batch of rows. *)
ASSUME MarksAssumption ==
    \A v \in 0 .. MaxReplaced, s \in Shapes :
        \A first \in 0 .. s.n_gpu : \A n \in 0 .. s.n_gpu - first :
            Rows(v, first, n, s.n_time) \notin {Pending, Failed}

(* Type correctness; a slice is never cut past the shape of the listing    *)
(* and never holds more than one block of rows.                            *)
TypeOK ==
    /\ disk \in [Paths -> Content \cup {Missing}]
    /\ replaced \in 0 .. MaxReplaced
    /\ phase \in {"listing", "slicing", "executing", "error"}
    /\ opened \in Seq(0 .. MaxReplaced) /\ Len(opened) <= Len(Files)
    /\ opened # <<>> => shape \in Shapes
    /\ file \in 1 .. Len(Files) + 1
    /\ start \in 0 .. shape.n_gpu
    /\ \A i \in DOMAIN slices :
          /\ slices[i].file \in 1 .. file
          /\ slices[i].n \in 0 .. SeriesBlockRows(shape.n_time)
          /\ slices[i].start \in 0 .. shape.n_gpu - slices[i].n
    /\ phase = "executing" => DOMAIN results = DOMAIN slices

Batches == {i \in DOMAIN results : results[i] \notin {Pending, Failed}}

(* Every row a scan emits names the gpu and the sample its value was read  *)
(* from, even when another file with another shape took the path between   *)
(* the listing and the execution: a batch is refused (the length check of  *)
(* read_partition) rather than labelled by the width of the listing.       *)
(* The names are u32: a listing of at most 2^32 gpus and 2^32 samples has  *)
(* them as they are, a larger one modulo 2^32, without an error.           *)
LabelsTrue ==
    \A i \in Batches : \A row \in results[i] :
        /\ row.gpu_index = AsU32(row.value.gpu)
        /\ row.sample = AsU32(row.value.sample)
        /\ shape.n_gpu <= U32 => row.gpu_index = row.value.gpu
        /\ shape.n_time <= U32 => row.sample = row.value.sample

Unreplaced(k) ==
    /\ disk[Files[k]] # Missing
    /\ disk[Files[k]].version = opened[k]

CellsOf(k) ==
    [version : {opened[k]}, gpu : 0 .. shape.n_gpu - 1,
     sample : 0 .. shape.n_time - 1]

EmittedBy(i) == {row.value : row \in results[i]}

(* When all slices of a file have been executed and the file is still the  *)
(* one that was listed, none of them failed, each of its samples came out  *)
(* of exactly one of them, and nothing else did: partitions() tiles the    *)
(* file whatever block size the width gives, and the order of the          *)
(* executions does not matter.                                             *)
WholeScan ==
    \A k \in DOMAIN opened :
        LET own == {i \in DOMAIN slices : slices[i].file = k}
        IN  (/\ phase = "executing"
             /\ Unreplaced(k)
             /\ \A i \in own : results[i] # Pending)
            => /\ own \subseteq Batches
               /\ UNION {EmittedBy(i) : i \in own} = CellsOf(k)
               /\ \A i, j \in own :
                     i # j => EmittedBy(i) \cap EmittedBy(j) = {}

(* The loop of partitions() moves on with every slice it cuts: a row wider *)
(* than the target still makes a block of one row (max(1)), so that        *)
(* slices() returns.                                                       *)
CutAdvances ==
    [][slices' # slices /\ file' = file => start' > start]_vars
=============================================================================

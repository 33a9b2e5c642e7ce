----------------------------- MODULE MachineFile -----------------------------
(***************************************************************************)
(* The older file layout: what analog/generate_sdg_hdf5.py stores under    *)
(* /Machine/GpuMetric[0], and what Hdf5MachineReader and readLegacy make   *)
(* of it.                                                                  *)
(*                                                                         *)
(* A matrix is a record of its dimensions and its cells, indexed from 0    *)
(* like the arrays.  Measured quantities are integers that stand for       *)
(* halves, so that rounding meets ties.  Groups, anchors, windows, units   *)
(* and uuids, which no reader of the values looks at, are left out.        *)
(***************************************************************************)
EXTENDS Integers, Sequences, SequencesExt, FiniteSetsExt

CONSTANTS
    Int16Max,      \* bound: the largest int16 (32767)
    Hour,          \* nanoseconds in an hour, scaled down
    StartNs,       \* write_analog's start_ns
    StepNs,        \* write_analog's step_ns
    NULL           \* None or null

ASSUME MachineFileAssumption ==
    /\ {Int16Max, Hour, StepNs} \subseteq Nat \ {0} /\ StartNs \in Nat

Indices(n) == 0 .. n - 1

-----------------------------------------------------------------------------
(* The writers *)

(* round(): ties go to the even neighbour. *)
Rounded(halves) ==
    LET floor == halves \div 2
    IN  IF halves % 2 = 0 \/ floor % 2 = 0 THEN floor ELSE floor + 1

Clip(v) == Max({Min({v, Int16Max}), -Int16Max - 1})

(* Conversion of a wider integer to int16. *)
Wrap(v) == ((v + Int16Max + 1) % (2 * Int16Max + 2)) - Int16Max - 1

(* A cell of write_analog's caller is stored as it converts. *)
Refused(values, timestamps) ==
    values.nSeries = NULL \/ (timestamps # NULL /\ Len(timestamps) # values.nTime)

Analog(values, timestamps) ==
    [values |-> [values EXCEPT !.cells =
                    [c \in DOMAIN values.cells |-> Wrap(values.cells[c])]],
     timestamps |-> [t \in Indices(values.nTime) |->
                        IF timestamps = NULL THEN StartNs + t * StepNs
                        ELSE timestamps[t + 1]]]

Measures == <<"power_w", "util_pct", "mem_used_mb", "temp_c">>

(* Mutant of Stored: of two samples of a cell the first one is kept. *)
StoredFirst(samples, measure, gpu, ts) ==
    LET at == {k \in DOMAIN samples :
                  samples[k].ts_ns = ts /\ samples[k].gpu_index = gpu}
    IN  IF at = {} THEN 0 ELSE Clip(Rounded(samples[Min(at)][measure]))

(* by_ts keeps the last sample of a time and a GPU; the matrix starts as 0.*)
Stored(samples, measure, gpu, ts) ==
    LET at == {k \in DOMAIN samples :
                  samples[k].ts_ns = ts /\ samples[k].gpu_index = gpu}
    IN  IF at = {} THEN 0 ELSE Clip(Rounded(samples[Max(at)][measure]))

(* sorted(): at place i the number with i - 1 smaller ones. *)
Ascending(numbers) ==
    [i \in 1 .. Cardinality(numbers) |->
        CHOOSE x \in numbers : Cardinality({y \in numbers : y < x}) = i - 1]

(* The four measures are stacked as planes of n_gpu series each. *)
Warehouse(samples) ==
    LET times == Ascending({samples[k].ts_ns : k \in DOMAIN samples})
        nGpu == Max({samples[k].gpu_index : k \in DOMAIN samples}) + 1
        Cell(i, t) == Stored(samples, Measures[i \div nGpu + 1], i % nGpu, times[t + 1])
    IN  Analog([nSeries |-> 4 * nGpu, nTime |-> Len(times),
                cells |-> [c \in Indices(4 * nGpu) \X Indices(Len(times)) |->
                              Cell(c[1], c[2])]],
               times)

-----------------------------------------------------------------------------
(* The reader *)

(* Hdf5MachineReader.readValues cuts ints to shorts.  Timestamps that are  *)
(* missing are zeros: a file without the dataset is one with none of them. *)
ValueAt(file, i, t) == Wrap(file.values.cells[i, t])
TimestampAt(file, t) ==
    IF t \in DOMAIN file.timestamps THEN file.timestamps[t] ELSE 0

IsWarehouse(schema) == schema \cap {"power_w", "ts_ns"} # {}

(* Whether the series are four planes is guessed from the schema and from  *)
(* their number.                                                           *)
Planes(nSeries, schema) ==
    IF IsWarehouse(schema) /\ nSeries % 4 = 0 /\ nSeries # 8 THEN 4 ELSE 1

(* Java's division cuts towards zero. *)
HourOf(ts) == IF ts >= 0 THEN ts \div Hour ELSE -((-ts) \div Hour)

ReadLegacy(file, schema) ==
    LET planes == Planes(file.values.nSeries, schema)
        nGpu == file.values.nSeries \div planes
        nTime == file.values.nTime
        Plane(p, g, t) == IF p < planes THEN ValueAt(file, p * nGpu + g, t) ELSE 0
        Column(c, g, t) ==
            CASE c = "gpu_index" -> g
              [] c = "sample" -> t
              [] c = "epoch_hour" -> HourOf(TimestampAt(file, t))
              [] c = "ts_ns" -> TimestampAt(file, t)
              [] c \in {"value", "power_w"} -> Plane(0, g, t)
              [] c = "util_pct" -> Plane(1, g, t)
              [] c = "mem_used_mb" -> Plane(2, g, t)
              [] c = "temp_c" -> Plane(3, g, t)
              [] OTHER -> NULL
    IN  [k \in 1 .. nGpu * nTime |->
            [c \in schema |-> Column(c, (k - 1) \div nTime, (k - 1) % nTime)]]
=============================================================================

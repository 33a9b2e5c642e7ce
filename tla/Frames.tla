------------------------------- MODULE Frames -------------------------------
(***************************************************************************)
(* From a file to a checked aggregation: the layout probe, the geometry    *)
(* the audit extracts and the byte ranges computed from it, the SemDF      *)
(* metadata values_table stamps on a slab of Values, and the two checks of *)
(* an aggregation against such metadata, in Python and in Rust.            *)
(*                                                                         *)
(* The field metadata travels with the column through engines that may     *)
(* drop any part of it.  The file may be replaced between the audit and    *)
(* the read.  Cells of Values are identified by their row-major index.     *)
(***************************************************************************)
EXTENDS Integers, Sequences, SequencesExt, FiniteSetsExt, Functions

CONSTANTS
    Trees,         \* the files: what they have of each of the three layouts
    Slabs,         \* values of (series_lo, series_hi)
    Stamps,        \* aggregations other users of measure_metadata pass
    ForeignMetas,  \* field metadata written by others
    Ops,           \* aggregations asked for
    UpperOf,       \* str.upper() of the names in use that it changes
    AsciiUpperOf,  \* to_ascii_uppercase() of those that it changes
    MaxReplaced,   \* bound: replacements of the file
    NULL           \* None; also an entry of a JSON array that is no string

ASSUME FramesAssumption ==
    /\ \A slab \in Slabs : slab[1] \in Int /\ (slab[2] = NULL \/ slab[2] \in Int)
    /\ MaxReplaced \in Nat

(* A dataset has a number of rows and of columns; its group may not have it. *)
Measured(values) ==
    values # NULL => values.n_series \in Nat /\ values.n_time \in Nat

ASSUME TreesAssumption ==
    \A t \in Trees :
        /\ t.machine # NULL => Measured(t.machine.values)
        /\ t.otel # NULL =>
              t.otel \in Seq(Range(t.otel)) /\ \A child \in Range(t.otel) : Measured(child.values)

(* The two upper cases of a name: Python's is Unicode's, Rust's changes    *)
(* the letters of ASCII only.  A "min" with a dotless i is MIN in Python.  *)
Upper(op) == IF op \in DOMAIN UpperOf THEN UpperOf[op] ELSE op

AsciiUpper(op) == IF op \in DOMAIN AsciiUpperOf THEN AsciiUpperOf[op] ELSE op

Names == {"AVG", "MIN", "MAX", "COUNT", "COUNT_STAR", "PROJECT"}

(* Upper-case names stay as they are; None is not the name of anything.    *)
(* What Unicode changes includes what ASCII does.                          *)
ASSUME NamesAssumption ==
    /\ (DOMAIN UpperOf \cup DOMAIN AsciiUpperOf) \cap Names = {}
    /\ NULL \notin Names
    /\ \A name \in DOMAIN UpperOf \cup DOMAIN AsciiUpperOf :
          /\ Upper(name) # NULL
          /\ Upper(Upper(name)) = Upper(name)
          /\ Upper(AsciiUpper(name)) = Upper(name)
          /\ AsciiUpper(Upper(name)) = Upper(name)
    /\ \A aggregations \in Stamps :
          \A k \in DOMAIN aggregations : aggregations[k] # NULL

VARIABLES
    tree,          \* the file
    version,       \* replacements so far (bounded by MaxReplaced)
    info,          \* open_values_info's result, NULL before
    slab,          \* the slab values_table read, NULL before
    meta,          \* the column's field metadata, NULL for None
    origin         \* auxiliary: who wrote it, "frame", "stamp" or "foreign"

vars == <<tree, version, info, slab, meta, origin>>

-----------------------------------------------------------------------------
(* layout.py.  A dataset is its number of series and of times and the      *)
(* width of its items; a tree has per layout NULL or what is below it.     *)

Refuse(code) == [error |-> code]
Found(kind, values) == [kind |-> kind, values |-> values]

ProbeSignal(t) == t.signal # NULL /\ t.signal.version = 2

ProbeMachine(t) ==
    IF ~t.machine.seeAlso THEN Refuse("NOIRI")
    ELSE IF t.machine.values = NULL THEN Refuse("LAYOUT")
    ELSE Found("sdg_machine", t.machine.values)

(* Metric[0], then Metric_0, then any child: the first that has Values. *)
ProbeOtel(t) ==
    LET having == {k \in DOMAIN t.otel : t.otel[k].values # NULL}
        Named(n) == {k \in having : t.otel[k].name = n}
        first == IF Named("Metric[0]") # {} THEN Named("Metric[0]")
                 ELSE IF Named("Metric_0") # {} THEN Named("Metric_0") ELSE having
    IN  IF having = {} THEN Refuse("LAYOUT")
        ELSE Found("otel", t.otel[Min(first)].values)

(* Mutant of Probe: in the order the module's first line names. *)
ProbeMachineFirst(t) ==
    IF t.machine # NULL THEN ProbeMachine(t)
    ELSE IF ProbeSignal(t) THEN Found("signal", NULL)
    ELSE IF t.otel # NULL THEN ProbeOtel(t)
    ELSE Refuse("LAYOUT")

(* A layout that is there but broken is an error, never the next one.  The *)
(* signal group has no Values of its own.                                  *)
Probe(t) ==
    IF ProbeSignal(t) THEN Found("signal", NULL)
    ELSE IF t.machine # NULL THEN ProbeMachine(t)
    ELSE IF t.otel # NULL THEN ProbeOtel(t)
    ELSE Refuse("LAYOUT")

SeeAlso(t) == t.machine # NULL /\ t.machine.seeAlso

(* Hdf5SignalReader.isSignalLayout and the check of readValues, which see  *)
(* the same files from the JVM.                                            *)
JvmSignal(t) == t.signal # NULL /\ t.signal.group /\ t.signal.version = 2
JvmReadsMachine(t) == t.machine # NULL /\ t.machine.values # NULL

-----------------------------------------------------------------------------
(* format/model.py *)

(* None and zero alike are no geometry. *)
Geometry(values) == values # NULL /\ values.n_series # 0 /\ values.n_time # 0

ValuesInfo(t) ==
    LET found == Probe(t)
    IN  IF "error" \in DOMAIN found THEN found
        ELSE IF ~Geometry(found.values) THEN Refuse("ValueError")
        ELSE [n_series |-> found.values.n_series, n_time |-> found.values.n_time,
              version |-> version]

(* Mutant of VirtualChunk: the offset counts series, not rows of bytes. *)
VirtualChunkBySeries(i, lo, hi, itemsize) ==
    [offset |-> lo * itemsize, length |-> Max({0, hi - lo}) * i.n_time * itemsize]

VirtualChunk(i, lo, hi, itemsize) ==
    [offset |-> lo * i.n_time * itemsize,
     length |-> Max({0, hi - lo}) * i.n_time * itemsize]

OpenValuesInfo ==
    /\ info' = ValuesInfo(tree)
    /\ UNCHANGED <<tree, version, slab, meta, origin>>

-----------------------------------------------------------------------------
(* semdf_frame.py *)

(* numpy counts negative bounds from the end and cuts the others. *)
SliceBound(k, n) == IF k < 0 THEN Max({0, k + n}) ELSE Min({k, n})

GpuAgg == <<"AVG", "MIN", "MAX", "COUNT">>

MeasureMetadata(aggregations) ==
    [measure_iri |-> "iri", unit |-> "unit",
     aggregations |-> [json |-> "array",
                       items |-> [k \in DOMAIN aggregations |-> Upper(aggregations[k])]]]

(* The signal layout raises KeyError: there is no Values to read. *)
ValuesTable ==
    LET found == Probe(tree)
    IN  /\ "kind" \in DOMAIN found /\ found.values # NULL
        /\ \E s \in Slabs :
              LET n == found.values.n_series
                  lo == SliceBound(s[1], n)
                  hi == IF s[2] = NULL THEN n ELSE SliceBound(s[2], n)
                  m == found.values.n_time
              IN  slab' = [version |-> version, args |-> s, itemsize |-> found.values.itemsize,
                           flat |-> lo * m .. hi * m - 1]
        /\ meta' = MeasureMetadata(GpuAgg) /\ origin' = "frame"
        /\ UNCHANGED <<tree, version, info>>

Replace ==
    /\ version < MaxReplaced
    /\ version' = version + 1
    /\ tree' \in Trees
    /\ UNCHANGED <<info, slab, meta, origin>>

(* Metadata of other measures and of other programs. *)
Stamp ==
    /\ \E aggregations \in Stamps : meta' = MeasureMetadata(aggregations)
    /\ origin' = "stamp"
    /\ UNCHANGED <<tree, version, info, slab>>

Foreign ==
    /\ meta' \in ForeignMetas
    /\ origin' = "foreign"
    /\ UNCHANGED <<tree, version, info, slab>>

(* An engine keeps a part of the metadata, none, or not even the map. *)
Convey ==
    /\ meta # NULL
    /\ \/ \E kept \in SUBSET DOMAIN meta : meta' = Restrict(meta, kept)
       \/ meta' = NULL
    /\ UNCHANGED <<tree, version, info, slab, origin>>

-----------------------------------------------------------------------------
(* check_aggregation, twice *)

AlwaysLegal == {"COUNT", "COUNT_STAR", "PROJECT"}

(* Rust: an array of strings only. *)
RustAllowed(raw) == {AsciiUpper(raw.items[k]) : k \in DOMAIN raw.items}

(* Mutant of RustCheck: nothing is refused without metadata. *)
RustCheckLenient(m, op) ==
    IF AsciiUpper(op) \in AlwaysLegal \/ m = NULL THEN "ok"
    ELSE IF "measure_iri" \notin DOMAIN m THEN "POLYVALUE"
    ELSE IF "aggregations" \notin DOMAIN m THEN "ILLEGALAGG"
    ELSE IF m.aggregations.json # "array" \/ NULL \in ToSet(m.aggregations.items)
         THEN "ILLEGALAGG"
    ELSE IF AsciiUpper(op) \in RustAllowed(m.aggregations) THEN "ok" ELSE "ILLEGALAGG"

RustCheck(m, op) ==
    IF AsciiUpper(op) \in AlwaysLegal THEN "ok"
    ELSE IF m = NULL THEN "NOSEMDF"
    ELSE IF "measure_iri" \notin DOMAIN m THEN "POLYVALUE"
    ELSE IF "aggregations" \notin DOMAIN m THEN "ILLEGALAGG"
    ELSE IF m.aggregations.json # "array" \/ NULL \in ToSet(m.aggregations.items)
         THEN "ILLEGALAGG"
    ELSE IF AsciiUpper(op) \in RustAllowed(m.aggregations) THEN "ok" ELSE "ILLEGALAGG"

(* Mutant of PythonAllowed: the entries are taken as they are written. *)
PythonAllowedExact(raw) ==
    IF raw.json \in {"array", "object"} THEN ToSet(raw.items) ELSE {}

(* Python iterates what the JSON holds: the entries of an array as strings,*)
(* whatever they are, the keys of an object, the letters of a string.      *)
PythonAllowed(raw) ==
    IF raw.json \in {"array", "object"}
    THEN {Upper(raw.items[k]) : k \in {j \in DOMAIN raw.items : raw.items[j] # NULL}}
    ELSE {}

(* Mutant of PythonCheck: the measure is asked for after the aggregations. *)
PythonCheckIriLast(m, op) ==
    IF Upper(op) \in AlwaysLegal THEN "ok"
    ELSE IF m = NULL \/ m = <<>> THEN "NOSEMDF"
    ELSE IF "aggregations" \notin DOMAIN m THEN "ILLEGALAGG"
    ELSE IF "measure_iri" \notin DOMAIN m THEN "POLYVALUE"
    ELSE IF m.aggregations.json = "number" THEN "TypeError"
    ELSE IF Upper(op) \in PythonAllowed(m.aggregations) THEN "ok" ELSE "ILLEGALAGG"

PythonCheck(m, op) ==
    IF Upper(op) \in AlwaysLegal THEN "ok"
    ELSE IF m = NULL \/ m = <<>> THEN "NOSEMDF"
    ELSE IF "measure_iri" \notin DOMAIN m THEN "POLYVALUE"
    ELSE IF "aggregations" \notin DOMAIN m THEN "ILLEGALAGG"
    ELSE IF m.aggregations.json = "number" THEN "TypeError"
    ELSE IF Upper(op) \in PythonAllowed(m.aggregations) THEN "ok" ELSE "ILLEGALAGG"

-----------------------------------------------------------------------------
Init ==
    /\ tree \in Trees /\ version = 0
    /\ info = NULL /\ slab = NULL
    /\ meta = NULL /\ origin = NULL

Next == OpenValuesInfo \/ ValuesTable \/ Replace \/ Stamp \/ Foreign \/ Convey

Spec == Init /\ [][Next]_vars

-----------------------------------------------------------------------------
(* The "byte range for series-block hyperslab on contiguous row-major      *)
(* Values", worked out from an audit, holds the cells values_table reads   *)
(* for the same bounds, if they lie within the series, the items have the  *)
(* default width, and the file was not replaced in between.                *)
SlabIsChunk ==
    /\ info # NULL /\ slab # NULL
    /\ "error" \notin DOMAIN info
    /\ info.version = slab.version /\ slab.itemsize = 2
    /\ slab.args[1] \in 0 .. info.n_series
    /\ slab.args[2] # NULL /\ slab.args[2] \in slab.args[1] .. info.n_series
    => LET chunk == VirtualChunk(info, slab.args[1], slab.args[2], 2)
       IN  slab.flat = chunk.offset \div 2 .. (chunk.offset + chunk.length) \div 2 - 1

(* The Python probe and the JVM reader take a file for the same layout: a  *)
(* file registered as a machine file is one the JVM reads as such.  A      *)
(* dataset in the place of the signal group is excepted.                   *)
LayoutsAgree ==
    LET found == Probe(tree)
    IN  /\ tree.signal # NULL /\ tree.signal.version = 2 => tree.signal.group
        => /\ JvmSignal(tree) <=> found = Found("signal", NULL)
           /\ "kind" \in DOMAIN found /\ found.kind = "sdg_machine" =>
                 ~JvmSignal(tree) /\ JvmReadsMachine(tree)

(* "Instantaneous GPU power/util: intensive - SUM is illegal": whatever an *)
(* engine drops of a frame's metadata, neither check lets SUM through.     *)
IntensiveNeverSummed ==
    \A op \in Ops :
        origin = "frame" /\ Upper(op) = "SUM" =>
            RustCheck(meta, op) # "ok" /\ PythonCheck(meta, op) # "ok"

(* The two checks give the same answer for metadata of measure_metadata,   *)
(* whatever is left of it, to every operation that Python and Rust write   *)
(* alike in upper case, as they do all of ASCII; the code differs for an   *)
(* empty map alone.                                                        *)
VerdictsAgree ==
    origin # "foreign" =>
        \A op \in {o \in Ops : AsciiUpper(o) = Upper(o)} :
            /\ RustCheck(meta, op) = "ok" <=> PythonCheck(meta, op) = "ok"
            /\ RustCheck(meta, op) = PythonCheck(meta, op) \/ meta = <<>>

(* Whatever metadata others write, and whatever the letters of the         *)
(* operation: what Rust allows, Python allows.                             *)
RustImpliesPython ==
    \A op \in Ops : RustCheck(meta, op) = "ok" => PythonCheck(meta, op) = "ok"
=============================================================================

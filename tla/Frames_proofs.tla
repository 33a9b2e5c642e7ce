----------------------------- MODULE Frames_proofs -----------------------------
(***************************************************************************)
(* The layouts and the aggregation checks, for every file, every metadata, *)
(* every list of aggregations and everything an engine may lose of it.     *)
(***************************************************************************)
EXTENDS Frames, Lemmas

-----------------------------------------------------------------------------
(* The two checks of one map *)

(* Upper case of upper case, in both languages; the names of the program   *)
(* stay as they are and no name becomes None.                              *)
LEMMA UpperNames ==
    /\ \A name \in Names : Upper(name) = name /\ AsciiUpper(name) = name
    /\ \A name : name # NULL => Upper(name) # NULL
    /\ \A name : /\ Upper(Upper(name)) = Upper(name)
                 /\ Upper(AsciiUpper(name)) = Upper(name)
                 /\ AsciiUpper(Upper(name)) = Upper(name)
BY NamesAssumption DEF Upper, AsciiUpper

LEMMA LegalNames == AlwaysLegal \subseteq Names
BY DEF AlwaysLegal, Names

(* What is always legal in Rust is so in Python. *)
LEMMA RustLegal ==
    ASSUME NEW op, AsciiUpper(op) \in AlwaysLegal
    PROVE  Upper(op) \in AlwaysLegal
<1>1. Upper(AsciiUpper(op)) = AsciiUpper(op)
    BY UpperNames, LegalNames
<1>2. Upper(AsciiUpper(op)) = Upper(op)
    BY UpperNames
<1> QED
    BY <1>1, <1>2

(* What Rust allows, Python allows, whatever the map holds. *)
LEMMA RustLessThanPython ==
    ASSUME NEW m, NEW op, RustCheck(m, op) = "ok"
    PROVE  PythonCheck(m, op) = "ok"
<1>1. CASE AsciiUpper(op) \in AlwaysLegal
    BY <1>1, RustLegal DEF PythonCheck
<1>2. CASE AsciiUpper(op) \notin AlwaysLegal
    <2>1. /\ m # NULL /\ "measure_iri" \in DOMAIN m /\ "aggregations" \in DOMAIN m
          /\ m.aggregations.json = "array" /\ NULL \notin ToSet(m.aggregations.items)
          /\ AsciiUpper(op) \in RustAllowed(m.aggregations)
        BY <1>2 DEF RustCheck
    <2>2. m # <<>>
        BY <2>1
    <2>3. PICK k \in DOMAIN m.aggregations.items :
              AsciiUpper(op) = AsciiUpper(m.aggregations.items[k])
        BY <2>1 DEF RustAllowed
    <2>4. m.aggregations.items[k] # NULL
        BY <2>1 DEF ToSet
    <2>5. Upper(op) = Upper(m.aggregations.items[k])
        <3>1. /\ Upper(AsciiUpper(op)) = Upper(op)
              /\ Upper(AsciiUpper(m.aggregations.items[k])) = Upper(m.aggregations.items[k])
            BY UpperNames
        <3> QED
            BY <2>3, <3>1
    <2>6. Upper(op) \in PythonAllowed(m.aggregations)
        BY <2>1, <2>4, <2>5 DEF PythonAllowed
    <2> QED
        BY <2>1, <2>2, <2>6 DEF PythonCheck
<1> QED
    BY <1>1, <1>2

(* Metadata of measure_metadata, or what is left of it: the aggregations   *)
(* are gone, or an array of names in upper case.                           *)
OfNames(m) ==
    m # NULL /\ "aggregations" \in DOMAIN m =>
        /\ m.aggregations.json = "array"
        /\ \A k \in DOMAIN m.aggregations.items :
              /\ m.aggregations.items[k] # NULL
              /\ AsciiUpper(m.aggregations.items[k]) = Upper(m.aggregations.items[k])

(* On such metadata the checks differ for an empty map alone, which both   *)
(* refuse, for an operation with one upper case.                           *)
LEMMA SameVerdict ==
    ASSUME NEW m, NEW op, OfNames(m), AsciiUpper(op) = Upper(op)
    PROVE  /\ RustCheck(m, op) = "ok" <=> PythonCheck(m, op) = "ok"
           /\ RustCheck(m, op) = PythonCheck(m, op) \/ m = <<>>
<1>1. CASE Upper(op) \in AlwaysLegal \/ m = NULL
    BY <1>1 DEF RustCheck, PythonCheck
<1>2. CASE Upper(op) \notin AlwaysLegal /\ m # NULL /\ m = <<>>
    <2>1. "measure_iri" \notin DOMAIN m
        BY <1>2
    <2> QED
        BY <1>2, <2>1 DEF RustCheck, PythonCheck
<1>3. CASE Upper(op) \notin AlwaysLegal /\ m # NULL /\ m # <<>> /\ "aggregations" \notin DOMAIN m
    BY <1>3 DEF RustCheck, PythonCheck
<1>4. CASE Upper(op) \notin AlwaysLegal /\ m # NULL /\ m # <<>> /\ "aggregations" \in DOMAIN m
    <2>1. m.aggregations.json = "array" /\ NULL \notin ToSet(m.aggregations.items)
        BY <1>4 DEF OfNames, ToSet
    <2>2. RustAllowed(m.aggregations) = PythonAllowed(m.aggregations)
        BY <1>4, <2>1 DEF OfNames, RustAllowed, PythonAllowed
    <2> QED
        BY <1>4, <2>1, <2>2 DEF RustCheck, PythonCheck
<1> QED
    BY <1>1, <1>2, <1>3, <1>4

-----------------------------------------------------------------------------
(* What travels *)

(* The aggregations of a frame, if they are there at all, are those of     *)
(* GPU_AGG.                                                                *)
OfFrame(m) ==
    m # NULL /\ "aggregations" \in DOMAIN m =>
        m.aggregations = MeasureMetadata(GpuAgg).aggregations

(* What the origin of the metadata says of it, whatever an engine dropped. *)
MetaInv ==
    /\ origin = "frame" => OfFrame(meta)
    /\ origin # "foreign" => OfNames(meta)

(* GPU_AGG allows these four, SUM is not one of them. *)
LEMMA GpuAggNames ==
    \A k \in DOMAIN GpuAgg : GpuAgg[k] \in {"AVG", "MIN", "MAX", "COUNT"}
BY DEF GpuAgg

(* measure_metadata writes an array of names. *)
LEMMA MeasureOfNames ==
    ASSUME NEW aggregations,
           \A k \in DOMAIN aggregations : aggregations[k] # NULL
    PROVE  OfNames(MeasureMetadata(aggregations))
BY UpperNames DEF OfNames, MeasureMetadata

(* What an engine keeps of a map has the entries of the map. *)
LEMMA LessOfIt ==
    ASSUME NEW m, NEW kept \in SUBSET DOMAIN m, m # NULL
    PROVE  /\ OfNames(m) => OfNames(Restrict(m, kept))
           /\ OfFrame(m) => OfFrame(Restrict(m, kept))
<1>1. /\ DOMAIN Restrict(m, kept) = kept
      /\ \A k \in kept : Restrict(m, kept)[k] = m[k]
    BY DEF Restrict
<1>2. "aggregations" \in kept =>
          "aggregations" \in DOMAIN m /\ Restrict(m, kept).aggregations = m.aggregations
    BY <1>1
<1> QED
    BY <1>1, <1>2 DEF OfNames, OfFrame

(* At first there is no metadata. *)
LEMMA InitMeta == Init => MetaInv
BY DEF Init, MetaInv, OfNames, OfFrame

(* Every step that writes or conveys metadata keeps what is known of it. *)
LEMMA NextMeta == MetaInv /\ [Next]_vars => MetaInv'
<1> SUFFICES ASSUME MetaInv, [Next]_vars PROVE MetaInv'
    OBVIOUS
<1>1. CASE UNCHANGED <<meta, origin>>
    BY <1>1 DEF MetaInv, OfNames, OfFrame
<1>2. CASE ValuesTable
    <2>1. meta' = MeasureMetadata(GpuAgg) /\ origin' = "frame"
        BY <1>2 DEF ValuesTable
    <2>2. OfNames(MeasureMetadata(GpuAgg))
        BY GpuAggNames, MeasureOfNames, NamesAssumption DEF Names
    <2> QED
        BY <2>1, <2>2 DEF MetaInv, OfFrame, OfNames
<1>3. CASE Stamp
    <2>1. PICK aggregations \in Stamps :
              meta' = MeasureMetadata(aggregations) /\ origin' = "stamp"
        BY <1>3 DEF Stamp
    <2>2. OfNames(MeasureMetadata(aggregations))
        BY MeasureOfNames, NamesAssumption
    <2> QED
        BY <2>1, <2>2 DEF MetaInv, OfNames
<1>4. CASE Foreign
    BY <1>4 DEF Foreign, MetaInv
<1>5. CASE Convey
    <2>1. CASE meta' = NULL
        BY <2>1 DEF MetaInv, OfNames, OfFrame
    <2>2. CASE \E kept \in SUBSET DOMAIN meta : meta' = Restrict(meta, kept)
        <3>1. PICK kept \in SUBSET DOMAIN meta : meta' = Restrict(meta, kept)
            BY <2>2
        <3>2. /\ OfNames(meta) => OfNames(meta')
              /\ OfFrame(meta) => OfFrame(meta')
            BY <1>5, <3>1, LessOfIt DEF Convey
        <3> QED
            BY <1>5, <3>2 DEF Convey, MetaInv, OfNames, OfFrame
    <2> QED
        BY <1>5, <2>1, <2>2 DEF Convey
<1> QED
    BY <1>1, <1>2, <1>3, <1>4, <1>5 DEF Next, OpenValuesInfo, Replace, vars

-----------------------------------------------------------------------------
(* Whatever others write into the metadata, the Rust check is never the    *)
(* more lenient of the two.                                                *)
THEOREM RustNeverMoreLenient == Spec => []RustImpliesPython
<1>1. RustImpliesPython
    BY RustLessThanPython DEF RustImpliesPython
<1> QED
    BY <1>1, PTL

(* Metadata of measure_metadata gets the same verdict from both checks,    *)
(* whatever engines have dropped of it, for every operation that has the   *)
(* same upper case in both languages.                                      *)
THEOREM SameVerdicts == Spec => []VerdictsAgree
<1>1. MetaInv => VerdictsAgree
    BY SameVerdict DEF MetaInv, VerdictsAgree
<1> QED
    BY <1>1, InitMeta, NextMeta, PTL DEF Spec

(* No loss of metadata makes a SUM of a frame's column legal. *)
THEOREM NeverSummed == Spec => []IntensiveNeverSummed
<1>1. ASSUME OfFrame(meta), NEW op, Upper(op) = "SUM"
      PROVE  PythonCheck(meta, op) # "ok"
    <2>1. CASE meta # NULL /\ "aggregations" \in DOMAIN meta
        <3>1. \A k \in DOMAIN meta.aggregations.items :
                  Upper(meta.aggregations.items[k]) \in {"AVG", "MIN", "MAX", "COUNT"}
            BY <1>1, <2>1, GpuAggNames, UpperNames DEF OfFrame, MeasureMetadata, Names
        <3>2. "SUM" \notin PythonAllowed(meta.aggregations)
            BY <3>1 DEF PythonAllowed
        <3> QED
            BY <1>1, <2>1, <3>2 DEF PythonCheck, AlwaysLegal
    <2>2. CASE ~(meta # NULL /\ "aggregations" \in DOMAIN meta)
        BY <1>1, <2>2 DEF PythonCheck, AlwaysLegal
    <2> QED
        BY <2>1, <2>2
<1>2. MetaInv => IntensiveNeverSummed
    <2> SUFFICES ASSUME MetaInv, NEW op \in Ops, origin = "frame", Upper(op) = "SUM"
                 PROVE  RustCheck(meta, op) # "ok" /\ PythonCheck(meta, op) # "ok"
        BY DEF IntensiveNeverSummed
    <2>1. OfFrame(meta)
        BY DEF MetaInv
    <2> QED
        BY <1>1, <2>1, RustLessThanPython
<1> QED
    BY <1>2, InitMeta, NextMeta, PTL DEF Spec

-----------------------------------------------------------------------------
(* The layouts *)

LEMMA FoundNotRefused ==
    \A code, kind, values :
        /\ "kind" \notin DOMAIN Refuse(code)
        /\ Refuse(code) # Found(kind, values)
        /\ Found(kind, values).kind = kind
BY DEF Refuse, Found

(* What the probe finds in a file that has no signal group of its version. *)
LEMMA ProbeOthers ==
    ASSUME NEW t, ~ProbeSignal(t)
    PROVE  /\ Probe(t) # Found("signal", NULL)
           /\ "kind" \in DOMAIN Probe(t) /\ Probe(t).kind = "sdg_machine" =>
                 JvmReadsMachine(t)
<1>1. CASE t.machine # NULL
    BY <1>1, FoundNotRefused DEF Probe, ProbeMachine, JvmReadsMachine
<1>2. CASE t.machine = NULL /\ t.otel # NULL
    <2>1. Probe(t) = Refuse("LAYOUT") \/ \E values : Probe(t) = Found("otel", values)
        BY <1>2 DEF Probe, ProbeOtel
    <2> QED
        BY <2>1, FoundNotRefused
<1>3. CASE t.machine = NULL /\ t.otel = NULL
    BY <1>3, FoundNotRefused DEF Probe
<1> QED
    BY <1>1, <1>2, <1>3

(* The Python probe and the JVM reader agree on every file. *)
THEOREM SameLayout == Spec => []LayoutsAgree
<1>1. LayoutsAgree
    <2> SUFFICES ASSUME tree.signal # NULL /\ tree.signal.version = 2 => tree.signal.group
                 PROVE  /\ JvmSignal(tree) <=> Probe(tree) = Found("signal", NULL)
                        /\ "kind" \in DOMAIN Probe(tree) /\ Probe(tree).kind = "sdg_machine" =>
                              ~JvmSignal(tree) /\ JvmReadsMachine(tree)
        BY DEF LayoutsAgree
    <2>1. CASE ProbeSignal(tree)
        BY <2>1, FoundNotRefused DEF Probe, ProbeSignal, JvmSignal
    <2>2. CASE ~ProbeSignal(tree)
        BY <2>2, ProbeOthers DEF ProbeSignal, JvmSignal
    <2> QED
        BY <2>1, <2>2
<1> QED
    BY <1>1, PTL

-----------------------------------------------------------------------------
(* The geometry and the slabs *)

LEMMA TwoNumbers ==
    ASSUME NEW a \in Int, NEW b \in Int
    PROVE  /\ Max({a, b}) = IF a >= b THEN a ELSE b
           /\ Min({a, b}) = IF a <= b THEN a ELSE b
<1>1. /\ \E x \in {a, b} : \A y \in {a, b} : x >= y
      /\ \E x \in {a, b} : \A y \in {a, b} : x <= y
    OBVIOUS
<1>2. /\ Max({a, b}) \in {a, b} /\ \A y \in {a, b} : Max({a, b}) >= y
      /\ Min({a, b}) \in {a, b} /\ \A y \in {a, b} : Min({a, b}) <= y
    BY <1>1 DEF Max, Min
<1> QED
    BY <1>2

(* A bound lies between 0 and the number of series; one that does already  *)
(* is kept.                                                                *)
LEMMA BoundWithin ==
    ASSUME NEW k \in Int, NEW n \in Nat
    PROVE  /\ SliceBound(k, n) \in 0 .. n
           /\ k \in 0 .. n => SliceBound(k, n) = k
<1>1. Max({0, k + n}) = (IF 0 >= k + n THEN 0 ELSE k + n) /\ Min({k, n}) = (IF k <= n THEN k ELSE n)
    <2>1. 0 \in Int /\ k + n \in Int /\ n \in Int
        OBVIOUS
    <2> QED
        BY <2>1, TwoNumbers
<1> QED
    BY <1>1 DEF SliceBound

LEMMA Rows ==
    ASSUME NEW a \in Nat, NEW b \in Nat, NEW n \in Nat, NEW m \in Nat
    PROVE  /\ a * m \in Nat /\ b * m \in Nat /\ n * m \in Nat
           /\ b <= n => b * m <= n * m
           /\ a <= b => (a * m * 2 + (b - a) * m * 2) \div 2 = b * m
           /\ (a * m * 2) \div 2 = a * m
<1>1. a * m \in Nat /\ b * m \in Nat /\ n * m \in Nat
    OBVIOUS
<1>2. b <= n => b * m <= n * m
    <2> SUFFICES ASSUME b <= n PROVE b * m <= n * m
        OBVIOUS
    <2>1. n - b \in Nat /\ n * m = b * m + (n - b) * m
        OBVIOUS
    <2>2. (n - b) * m \in Nat
        BY <2>1
    <2> QED
        BY <1>1, <2>1, <2>2
<1>3. (b - a) * m = b * m - a * m
    OBVIOUS
<1>4. \A x, y \in Nat : (x * 2 + (y - x) * 2) \div 2 = y /\ (x * 2) \div 2 = x
    OBVIOUS
<1> QED
    BY <1>1, <1>2, <1>3, <1>4

(* What is found in a tree has a number of rows and of columns. *)
LEMMA ProbeMeasures ==
    ASSUME NEW t \in Trees, "kind" \in DOMAIN Probe(t)
    PROVE  Measured(Probe(t).values)
<1>1. \A code, kind, values : "kind" \notin DOMAIN Refuse(code) /\ Found(kind, values).values = values
    BY DEF Refuse, Found
<1>2. CASE ProbeSignal(t)
    BY <1>1, <1>2 DEF Probe, Measured
<1>3. CASE ~ProbeSignal(t) /\ t.machine # NULL
    BY <1>1, <1>3, TreesAssumption DEF Probe, ProbeMachine
<1>4. CASE ~ProbeSignal(t) /\ t.machine = NULL /\ t.otel # NULL
    <2> DEFINE having == {k \in DOMAIN t.otel : t.otel[k].values # NULL}
               Named(n) == {k \in having : t.otel[k].name = n}
               first == IF Named("Metric[0]") # {} THEN Named("Metric[0]")
                        ELSE IF Named("Metric_0") # {} THEN Named("Metric_0") ELSE having
    <2>1. Probe(t) = ProbeOtel(t) /\ having # {}
        BY <1>1, <1>4 DEF Probe, ProbeOtel
    <2>2. Probe(t).values = t.otel[Min(first)].values
        <3>1. ProbeOtel(t) = Found("otel", t.otel[Min(first)].values)
            BY <2>1 DEF ProbeOtel
        <3> HIDE DEF first
        <3> QED
            BY <1>1, <2>1, <3>1
    <2>3. DOMAIN t.otel \subseteq Nat /\ \A k \in DOMAIN t.otel : t.otel[k] \in Range(t.otel)
        <3>1. \A k \in DOMAIN t.otel : t.otel[k] \in Range(t.otel)
            BY DEF Range
        <3>2. t.otel \in Seq(Range(t.otel))
            BY <1>4, TreesAssumption
        <3>3. \A T, s : s \in Seq(T) => DOMAIN s \subseteq Nat
            OBVIOUS
        <3> QED
            BY <3>1, <3>2, <3>3
    <2>4. first \subseteq DOMAIN t.otel /\ first # {}
        BY <2>1
    <2> HIDE DEF first
    <2>5. \E k \in first : \A j \in first : k <= j
        BY <2>3, <2>4, LeastNat
    <2>6. Min(first) \in first
        BY <2>5 DEF Min
    <2> QED
        BY <1>4, <2>2, <2>3, <2>4, <2>6, TreesAssumption
<1>5. CASE ~ProbeSignal(t) /\ t.machine = NULL /\ t.otel = NULL
    BY <1>1, <1>5 DEF Probe
<1> QED
    BY <1>2, <1>3, <1>4, <1>5

(* The cells of a slab of Values. *)
Flat(values, bounds) ==
    LET n == values.n_series
        lo == SliceBound(bounds[1], n)
        hi == IF bounds[2] = NULL THEN n ELSE SliceBound(bounds[2], n)
    IN  lo * values.n_time .. hi * values.n_time - 1

Audited == info # NULL /\ "error" \notin DOMAIN info

(* What was audited or read of the file that is still there is as it is    *)
(* there; two that were taken of one version agree.                        *)
AuditInv ==
    Audited =>
        /\ info.version \in 0 .. version
        /\ info.n_series \in Nat /\ info.n_time \in Nat
        /\ info.version = version =>
              /\ "kind" \in DOMAIN Probe(tree)
              /\ info.n_series = Probe(tree).values.n_series
              /\ info.n_time = Probe(tree).values.n_time
SlabInv ==
    slab # NULL =>
        /\ slab.version \in 0 .. version /\ slab.args \in Slabs
        /\ slab.version = version => slab.flat = Flat(Probe(tree).values, slab.args)
FileInv ==
    /\ tree \in Trees /\ version \in 0 .. MaxReplaced
    /\ AuditInv /\ SlabInv
    /\ Audited /\ slab # NULL /\ info.version = slab.version => slab.flat = Flat(info, slab.args)

(* The geometry that was audited is that of the tree. *)
LEMMA AuditOf ==
    ASSUME NEW t \in Trees, "error" \notin DOMAIN ValuesInfo(t)
    PROVE  /\ "kind" \in DOMAIN Probe(t)
           /\ ValuesInfo(t) = [n_series |-> Probe(t).values.n_series,
                               n_time |-> Probe(t).values.n_time, version |-> version]
           /\ Probe(t).values.n_series \in Nat /\ Probe(t).values.n_time \in Nat
<1>1. \A code : "error" \in DOMAIN Refuse(code)
    BY DEF Refuse
<1>2. "error" \notin DOMAIN Probe(t) /\ Geometry(Probe(t).values)
    BY <1>1 DEF ValuesInfo
<1>3. ValuesInfo(t) = [n_series |-> Probe(t).values.n_series,
                       n_time |-> Probe(t).values.n_time, version |-> version]
    BY <1>2 DEF ValuesInfo
<1>4. "kind" \in DOMAIN Probe(t)
    <2>1. \A kind, values : "kind" \in DOMAIN Found(kind, values)
        BY DEF Found
    <2> QED
        BY <1>1, <1>2, <2>1 DEF Probe, ProbeMachine, ProbeOtel
<1> QED
    BY <1>2, <1>3, <1>4, ProbeMeasures DEF Geometry, Measured

LEMMA InitFile == Init => FileInv
BY FramesAssumption DEF Init, FileInv, AuditInv, SlabInv, Audited

(* An audit is of the file that is there; so is a read. *)
LEMMA OpenStep ==
    ASSUME FileInv, OpenValuesInfo PROVE FileInv'
<1> USE DEF OpenValuesInfo
<1>1. tree' = tree /\ version' = version /\ slab' = slab /\ tree \in Trees /\ version \in Nat
    BY DEF FileInv
<1>2. CASE "error" \in DOMAIN info'
    BY <1>1, <1>2 DEF FileInv, AuditInv, SlabInv, Audited
<1>3. CASE "error" \notin DOMAIN info'
    <2>1. /\ "kind" \in DOMAIN Probe(tree)
          /\ info' = [n_series |-> Probe(tree).values.n_series,
                      n_time |-> Probe(tree).values.n_time, version |-> version]
          /\ Probe(tree).values.n_series \in Nat /\ Probe(tree).values.n_time \in Nat
        BY <1>1, <1>3, AuditOf
    <2>2. /\ info'.n_series = Probe(tree).values.n_series
          /\ info'.n_time = Probe(tree).values.n_time
          /\ info'.version = version
        BY <2>1
    <2>3. AuditInv'
        BY <1>1, <2>1, <2>2 DEF AuditInv, Audited
    <2>4. SlabInv'
        BY <1>1 DEF FileInv, SlabInv
    <2>5. slab # NULL /\ slab.version = version => slab.flat = Flat(info', slab.args)
        BY <2>2 DEF FileInv, SlabInv, Flat
    <2>6. (slab # NULL /\ info.version = slab.version => slab.flat = Flat(info, slab.args))'
        BY <1>1, <2>2, <2>5 DEF Flat
    <2> QED
        BY <1>1, <2>3, <2>4, <2>6 DEF FileInv
<1> QED
    BY <1>2, <1>3

LEMMA ReadStep ==
    ASSUME FileInv, ValuesTable PROVE FileInv'
<1> DEFINE values == Probe(tree).values
           n == values.n_series
           m == values.n_time
<1>1. /\ tree' = tree /\ version' = version /\ info' = info
      /\ "kind" \in DOMAIN Probe(tree) /\ values # NULL
      /\ tree \in Trees /\ version \in Nat
    BY DEF ValuesTable, FileInv
<1>2. n \in Nat /\ m \in Nat
    BY <1>1, ProbeMeasures DEF Measured
<1>3. PICK s \in Slabs :
          slab' = [version |-> version, args |-> s, itemsize |-> values.itemsize,
                   flat |-> Flat(values, s)]
    BY DEF ValuesTable, Flat
<1>4. /\ slab'.version = version /\ slab'.args = s /\ slab'.flat = Flat(values, s)
    BY <1>3
<1> HIDE DEF values
<1>6. SlabInv'
    BY <1>1, <1>4 DEF SlabInv, values
<1>7. AuditInv'
    BY <1>1 DEF FileInv, AuditInv, Audited
<1>8. (Audited /\ info.version = slab.version => slab.flat = Flat(info, slab.args))'
    <2>1. Audited /\ info.version = version => Flat(info, s) = Flat(values, s)
        BY DEF FileInv, AuditInv, Flat, values
    <2> QED
        BY <1>1, <1>4, <2>1 DEF Audited, Flat
<1> QED
    BY <1>1, <1>6, <1>7, <1>8 DEF FileInv

(* After a replacement nothing that was audited or read is of the file. *)
LEMMA ReplaceStep ==
    ASSUME FileInv, Replace PROVE FileInv'
<1> USE DEF Replace
<1>1. /\ version \in Nat /\ version' = version + 1 /\ version' \in 0 .. MaxReplaced
      /\ info' = info /\ slab' = slab /\ tree' \in Trees
    BY FramesAssumption DEF FileInv
<1>2. AuditInv'
    BY <1>1 DEF FileInv, AuditInv, Audited
<1>3. SlabInv'
    BY <1>1 DEF FileInv, SlabInv
<1>4. (Audited /\ slab # NULL /\ info.version = slab.version => slab.flat = Flat(info, slab.args))'
    BY <1>1 DEF FileInv, Audited, Flat
<1> QED
    BY <1>1, <1>2, <1>3, <1>4 DEF FileInv

LEMMA NextFile == FileInv /\ [Next]_vars => FileInv'
<1> SUFFICES ASSUME FileInv, [Next]_vars PROVE FileInv'
    OBVIOUS
<1>1. CASE UNCHANGED <<tree, version, info, slab>>
    BY <1>1 DEF FileInv, AuditInv, SlabInv, Audited, Flat
<1> QED
    BY <1>1, OpenStep, ReadStep, ReplaceStep DEF Next, Stamp, Foreign, Convey, vars

(* The byte range virtual_chunk_bytes computes from an audit is the range  *)
(* of the cells values_table reads, for every geometry, if the file was    *)
(* not replaced in between.                                                *)
THEOREM ChunkIsSlab == Spec => []SlabIsChunk
<1>1. FileInv => SlabIsChunk
    <2> SUFFICES ASSUME FileInv, Audited, slab # NULL, info.version = slab.version,
                        slab.args[1] \in 0 .. info.n_series, slab.args[2] # NULL,
                        slab.args[2] \in slab.args[1] .. info.n_series
                 PROVE  slab.flat = VirtualChunk(info, slab.args[1], slab.args[2], 2).offset \div 2
                            .. (VirtualChunk(info, slab.args[1], slab.args[2], 2).offset
                                + VirtualChunk(info, slab.args[1], slab.args[2], 2).length) \div 2 - 1
        BY DEF SlabIsChunk, Audited
    <2> DEFINE a == slab.args[1]
               b == slab.args[2]
               n == info.n_series
               m == info.n_time
    <2>1. n \in Nat /\ m \in Nat /\ slab.flat = Flat(info, slab.args)
        BY DEF FileInv, AuditInv
    <2>2. a \in Nat /\ b \in Nat /\ a <= b /\ b \in 0 .. n /\ a \in Int /\ b \in Int
        BY <2>1
    <2>3. SliceBound(a, n) = a /\ SliceBound(b, n) = b
        BY <2>1, <2>2, BoundWithin
    <2>4. slab.flat = a * m .. b * m - 1
        BY <2>1, <2>3 DEF Flat
    <2>5. Max({0, b - a}) = b - a
        <3>1. 0 \in Int /\ b - a \in Int /\ b - a >= 0
            BY <2>2
        <3> QED
            BY <2>2, <3>1, TwoNumbers
    <2>6. /\ VirtualChunk(info, a, b, 2).offset = a * m * 2
          /\ VirtualChunk(info, a, b, 2).length = (b - a) * m * 2
        BY <2>5 DEF VirtualChunk
    <2>7. (a * m * 2) \div 2 = a * m /\ (a * m * 2 + (b - a) * m * 2) \div 2 = b * m
        <3> HIDE DEF a, b, n, m
        <3> QED
            BY <2>1, <2>2, Rows
    <2> QED
        BY <2>4, <2>6, <2>7
<1> QED
    BY <1>1, InitFile, NextFile, PTL DEF Spec
=============================================================================

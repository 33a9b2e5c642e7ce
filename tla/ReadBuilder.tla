----------------------------- MODULE ReadBuilder -----------------------------
(***************************************************************************)
(* Iceberg scans of one HDF5 file: Hdf5ReadBuilder from the setter calls   *)
(* to the rows, over files of the older layout as the generator wrote them *)
(* and over /signal files (whose reading FilterWindow details).            *)
(*                                                                         *)
(* A scan is planned as one build per split of the file.  The builds run   *)
(* in threads of one JVM; a build of a file that is not on the local disk  *)
(* copies it first, reads the copy and deletes it.  Copies may fail, the   *)
(* close of their stream and deletions too; a failed build may be tried    *)
(* again; the JVM may exit at any step, which deletes what was registered  *)
(* for it by then, or be killed.                                           *)
(***************************************************************************)
EXTENDS MachineFile

CONSTANTS
    Sources,       \* what is written: calls of the writers, or files of others
    Places,        \* where the file is: at a local "path"; at a local-looking
                   \* "name" which is no regular file; at a "url"
    Plans,         \* the splits of a scan: sequences of their start offsets
    Requests,      \* the setter calls every build of a scan makes
    MaxTries,      \* bound: builds per split
    Faults         \* TRUE: copies and deletions may fail, the JVM be killed

ASSUME ReadBuilderAssumption ==
    /\ Places \subseteq {"path", "name", "url"}
    /\ MaxTries \in Nat \ {0} /\ Faults \in BOOLEAN

(* The first split of a file starts at 0, no other does. *)
ASSUME PlansAssumption ==
    \A p \in Plans :
        /\ p \in Seq(Nat) /\ p # <<>> /\ p[1] = 0
        /\ \A b \in DOMAIN p : b # 1 => p[b] > 0

(* No caller projects on null. *)
ASSUME RequestsAssumption ==
    \A r \in Requests :
        /\ r \in Seq(ToSet(r))
        /\ \A k \in DOMAIN r : r[k][1] \in {"project", "engineProjection"} => r[k][2] # NULL

(* Samples have whole numbers, matrices as many cells as they say. *)
SampleOK(sample) ==
    /\ sample.ts_ns \in Int /\ sample.gpu_index \in Nat
    /\ \A m \in ToSet(Measures) : sample[m] \in Int
MatrixOK(values) ==
    /\ DOMAIN values = {"nSeries", "nTime", "cells"}
    /\ values.nSeries \in Nat \cup {NULL} /\ values.nTime \in Nat
    /\ values.nSeries # NULL =>
          values.cells \in [Indices(values.nSeries) \X Indices(values.nTime) -> Int]

ASSUME SourcesAssumption ==
    \A s \in Sources :
        /\ s.writer \in {"warehouse", "analog", "other"}
        /\ s.writer = "warehouse" =>
              s.samples \in Seq(ToSet(s.samples)) /\ \A k \in DOMAIN s.samples : SampleOK(s.samples[k])
        /\ s.writer = "analog" =>
              MatrixOK(s.values) /\ (s.timestamps = NULL \/ s.timestamps \in Seq(Int))
        /\ s.writer = "other" =>
              /\ s.file.values # NULL => MatrixOK(s.file.values) /\ s.file.values.nSeries # NULL
              /\ "signal" \in DOMAIN s.file => s.file.signal \in Seq(ToSet(s.file.signal))

ASSUME NullAssumption == NULL \notin Seq(Int) \cup Int

VARIABLES
    source,        \* what was written
    file,          \* the file's content, NULL before
    place,         \* where the file is
    plan,          \* the splits of the scan, <<>> before it is planned
    request,       \* its setter calls
    pc,            \* per split: the step its build takes next
    opts,          \* per split: the fields the setters have set
    tries,         \* per split: builds so far (bounded by MaxTries)
    tmp,           \* per split: the path materialize returned
    out,           \* per split: the rows build() returns, NULL when it throws
    disk,          \* the paths that exist: SourcePath and the copies
    hooked,        \* copies registered with deleteOnExit
    jvm,           \* "up", "exited" or "killed"
    unreturned,    \* auxiliary: copies whose materialize has not returned
    undeleted      \* auxiliary: copies whose deletion failed

written == <<source, file, place>>
scan == <<plan, request>>
local == <<pc, opts, tries, tmp, out>>
copies == <<disk, hooked, unreturned, undeleted>>
vars == <<written, scan, local, copies, jvm>>

SourcePath == <<"file">>

(* Mutant of Copy: one name for all builds of a split. *)
CopyByName(b) == <<"copy", b, 1>>

(* createTempFile: a new name every time. *)
Copy(b) == <<"copy", b, tries[b]>>
LocalLooking == place \in {"path", "name"}

-----------------------------------------------------------------------------
(* The file *)

RefusedSource(s) ==
    \/ s.writer = "warehouse" /\ s.samples = <<>>
    \/ s.writer = "analog" /\ Refused(s.values, s.timestamps)

FileOf(s) ==
    CASE s.writer = "warehouse" -> Warehouse(s.samples)
      [] s.writer = "analog" -> Analog(s.values, s.timestamps)
      [] s.writer = "other" -> s.file

SignalFile == "signal" \in DOMAIN file

Write ==
    /\ file = NULL
    /\ \E s \in Sources :
          /\ ~RefusedSource(s)
          /\ source' = s /\ file' = FileOf(s)
    /\ UNCHANGED <<place, scan, local, copies, jvm>>

-----------------------------------------------------------------------------
(* The setters *)

NoOpts == [schema |-> NULL, filter |-> NULL, start |-> 0]

(* filter(null) is alwaysTrue, here NULL; the other setters do nothing. *)
Set(o, call) ==
    CASE call[1] = "project" -> [o EXCEPT !.schema = call[2]]
      [] call[1] = "engineProjection" /\ o.schema = NULL -> [o EXCEPT !.schema = call[2]]
      [] call[1] = "filter" -> [o EXCEPT !.filter = call[2]]
      [] call[1] = "split" -> [o EXCEPT !.start = call[2]]
      [] OTHER -> o

(* Iceberg plans the scan and hands every split to a task. *)
Plan ==
    /\ file # NULL /\ plan = <<>>
    /\ plan' \in Plans /\ request' \in Requests
    /\ pc' = [b \in DOMAIN plan' |-> "new"]
    /\ opts' = [b \in DOMAIN plan' |-> NoOpts]
    /\ tries' = [b \in DOMAIN plan' |-> 1]
    /\ tmp' = [b \in DOMAIN plan' |-> NULL]
    /\ out' = [b \in DOMAIN plan' |-> NULL]
    /\ UNCHANGED <<written, copies, jvm>>

Splits == DOMAIN plan
Goto(b, step) == pc' = [pc EXCEPT ![b] = step]

(* A new builder after the setter calls of the scan and of the split. *)
SetAll(b) ==
    LET calls == Append(request, <<"split", plan[b]>>)
        after[k \in 0 .. Len(calls)] ==
            IF k = 0 THEN NoOpts ELSE Set(after[k - 1], calls[k])
    IN  after[Len(calls)]

Configure(b) ==
    /\ pc[b] = "new"
    /\ opts' = [opts EXCEPT ![b] = SetAll(b)]
    /\ Goto(b, "build")
    /\ UNCHANGED <<written, scan, tries, tmp, out, copies, jvm>>

-----------------------------------------------------------------------------
(* build() *)

NoSchema(b) ==
    /\ pc[b] = "build" /\ opts[b].schema = NULL
    /\ Goto(b, "failed")
    /\ UNCHANGED <<written, scan, opts, tries, tmp, out, copies, jvm>>

(* Mutant of Owned: every split owns the file. *)
OwnedByAll(b) == pc[b] = "build" /\ opts[b].schema # NULL

Owned(b) == pc[b] = "build" /\ opts[b].schema # NULL /\ ~(opts[b].start > 0)

(* The first split owns all rows, any other none. *)
NotMine(b) ==
    /\ pc[b] = "build" /\ opts[b].schema # NULL /\ opts[b].start > 0
    /\ out' = [out EXCEPT ![b] = <<>>]
    /\ Goto(b, "done")
    /\ UNCHANGED <<written, scan, opts, tries, tmp, copies, jvm>>

UseFile(b) ==
    /\ Owned(b) /\ place = "path"
    /\ tmp' = [tmp EXCEPT ![b] = SourcePath]
    /\ Goto(b, "read")
    /\ UNCHANGED <<written, scan, opts, tries, out, copies, jvm>>

(* createTempFile throws. *)
CreateFails(b) ==
    /\ Faults /\ Owned(b) /\ place # "path"
    /\ Goto(b, "failed")
    /\ UNCHANGED <<written, scan, opts, tries, tmp, out, copies, jvm>>

CreateCopy(b) ==
    /\ Owned(b) /\ place # "path"
    /\ tmp' = [tmp EXCEPT ![b] = Copy(b)]
    /\ disk' = disk \cup {Copy(b)} /\ unreturned' = unreturned \cup {Copy(b)}
    /\ Goto(b, "copy")
    /\ UNCHANGED <<written, scan, opts, tries, out, hooked, undeleted, jvm>>

(* The stream cannot be opened or breaks off: nothing deletes the copy. *)
CopyFails(b) ==
    /\ Faults /\ pc[b] = "copy"
    /\ Goto(b, "failed")
    /\ UNCHANGED <<written, scan, opts, tries, tmp, out, copies, jvm>>

(* Files.copy returns: the copy is whole. *)
Copied(b) ==
    /\ pc[b] = "copy"
    /\ Goto(b, "close")
    /\ UNCHANGED <<written, scan, opts, tries, tmp, out, copies, jvm>>

(* close() of the stream throws: the whole copy stays, not registered. *)
CloseFails(b) ==
    /\ Faults /\ pc[b] = "close"
    /\ Goto(b, "failed")
    /\ UNCHANGED <<written, scan, opts, tries, tmp, out, copies, jvm>>

Close(b) ==
    /\ pc[b] = "close"
    /\ Goto(b, "register")
    /\ UNCHANGED <<written, scan, opts, tries, tmp, out, copies, jvm>>

(* Mutant of Register: without deleteOnExit. *)
RegisterNothing(b) ==
    /\ pc[b] = "register"
    /\ unreturned' = unreturned \ {tmp[b]}
    /\ Goto(b, "read")
    /\ UNCHANGED <<written, scan, opts, tries, tmp, out, disk, hooked, undeleted, jvm>>

(* deleteOnExit, and materialize returns. *)
Register(b) ==
    /\ pc[b] = "register"
    /\ unreturned' = unreturned \ {tmp[b]}
    /\ hooked' = hooked \cup {tmp[b]}
    /\ Goto(b, "read")
    /\ UNCHANGED <<written, scan, opts, tries, tmp, out, disk, undeleted, jvm>>

Accepts(filter, row) == filter = NULL \/ row[filter.column] \in filter.values

Readable(b) ==
    /\ opts[b].filter # NULL => opts[b].filter.column \in opts[b].schema
    /\ SignalFile \/ file.values # NULL

RowsRead(b) ==
    IF SignalFile
    THEN [k \in DOMAIN file.signal |->
             [c \in opts[b].schema |->
                 IF c \in DOMAIN file.signal[k] THEN file.signal[k][c] ELSE NULL]]
    ELSE ReadLegacy(file, opts[b].schema)

(* The residual evaluator goes through the rows one by one. *)
Kept(filter, rows) ==
    LET kept[k \in 0 .. Len(rows)] ==
            IF k = 0 THEN <<>>
            ELSE IF Accepts(filter, rows[k]) THEN Append(kept[k - 1], rows[k])
            ELSE kept[k - 1]
    IN  kept[Len(rows)]

Read(b) ==
    /\ pc[b] = "read" /\ Readable(b)
    /\ out' = [out EXCEPT ![b] = Kept(opts[b].filter, RowsRead(b))]
    /\ Goto(b, "cleanup")
    /\ UNCHANGED <<written, scan, opts, tries, tmp, copies, jvm>>

(* Mutant of ReadFails: the exception passes by cleanup. *)
ReadFailsAtOnce(b) ==
    /\ pc[b] = "read" /\ ~Readable(b)
    /\ Goto(b, "failed")
    /\ UNCHANGED <<written, scan, opts, tries, tmp, out, copies, jvm>>

(* A filter that does not bind, or a file without Machine or Values. *)
ReadFails(b) ==
    /\ pc[b] = "read" /\ ~Readable(b)
    /\ Goto(b, "cleanup")
    /\ UNCHANGED <<written, scan, opts, tries, tmp, out, copies, jvm>>

Leave(b) == Goto(b, IF out[b] = NULL THEN "failed" ELSE "done")

(* Mutant of Cleanup: deletes what materialize returned. *)
CleanupAlways(b) ==
    /\ pc[b] = "cleanup"
    /\ disk' = disk \ {tmp[b]}
    /\ Leave(b)
    /\ UNCHANGED <<written, scan, opts, tries, tmp, out, hooked, unreturned,
                   undeleted, jvm>>

(* Only the location decides whether there is a copy to delete. *)
Cleanup(b) ==
    /\ pc[b] = "cleanup"
    /\ disk' = IF LocalLooking THEN disk ELSE disk \ {tmp[b]}
    /\ Leave(b)
    /\ UNCHANGED <<written, scan, opts, tries, tmp, out, hooked, unreturned,
                   undeleted, jvm>>

(* An exception of the deletion is ignored. *)
CleanupFails(b) ==
    /\ Faults /\ pc[b] = "cleanup" /\ ~LocalLooking
    /\ undeleted' = undeleted \cup {tmp[b]}
    /\ Leave(b)
    /\ UNCHANGED <<written, scan, opts, tries, tmp, out, disk, hooked, unreturned, jvm>>

(* The engine runs a failed task again. *)
Retry(b) ==
    /\ pc[b] = "failed" /\ tries[b] < MaxTries
    /\ tries' = [tries EXCEPT ![b] = tries[b] + 1]
    /\ Goto(b, "new")
    /\ UNCHANGED <<written, scan, opts, tmp, out, copies, jvm>>

-----------------------------------------------------------------------------
(* The JVM *)

Exit ==
    /\ jvm' = "exited" /\ disk' = disk \ hooked
    /\ UNCHANGED <<written, scan, local, hooked, unreturned, undeleted>>

Kill ==
    /\ Faults
    /\ jvm' = "killed"
    /\ UNCHANGED <<written, scan, local, copies>>

Init ==
    /\ source = NULL /\ file = NULL /\ place \in Places
    /\ plan = <<>> /\ request = <<>>
    /\ pc = <<>> /\ opts = <<>> /\ tries = <<>> /\ tmp = <<>> /\ out = <<>>
    /\ disk = {SourcePath} /\ hooked = {} /\ jvm = "up"
    /\ unreturned = {} /\ undeleted = {}

(* What the thread of a build does without waiting for anybody. *)
Step(b) ==
    \/ Configure(b) \/ NoSchema(b) \/ NotMine(b) \/ UseFile(b)
    \/ CreateFails(b) \/ CreateCopy(b) \/ CopyFails(b) \/ Copied(b)
    \/ CloseFails(b) \/ Close(b) \/ Register(b)
    \/ Read(b) \/ ReadFails(b)
    \/ Cleanup(b) \/ CleanupFails(b)

Next ==
    /\ jvm = "up"
    /\ \/ Write \/ Plan \/ Exit \/ Kill
       \/ \E b \in Splits : Step(b) \/ Retry(b)

Spec ==
    /\ Init /\ [][Next]_vars
    /\ \A b \in 1 .. Max({Len(p) : p \in Plans}) :
          WF_vars(jvm = "up" /\ b \in Splits /\ Step(b))

-----------------------------------------------------------------------------
Columns == {"epoch_hour", "ts_ns", "gpu_index", "sample", "value"} \cup ToSet(Measures)
Copying == {"copy", "close", "register"}
Steps == {"new", "build", "read", "cleanup", "done", "failed"} \cup Copying

(* Types; a build that copies or reads has its file, and no copy is        *)
(* registered for the exit before its materialize returns.                 *)
TypeOK ==
    /\ pc \in [Splits -> Steps]
    /\ \A b \in Splits :
          /\ tries[b] \in 1 .. MaxTries
          /\ jvm = "up" /\ pc[b] \in Copying \cup {"read"} => tmp[b] \in disk
          /\ pc[b] = "done" => out[b] # NULL
    /\ hooked \cap unreturned = {}

Finished == plan # <<>> /\ \A b \in Splits : pc[b] = "done"
Result == FlattenSeq(out)

(* What the setter calls ask for: the last projection, or else the first   *)
(* one of the engine; the last filter.                                     *)
CallsOf(setter) == {k \in DOMAIN request : request[k][1] = setter}
Schema ==
    IF CallsOf("project") # {} THEN request[Max(CallsOf("project"))][2]
    ELSE request[Min(CallsOf("engineProjection"))][2]
Filter ==
    IF CallsOf("filter") = {} THEN NULL ELSE request[Max(CallsOf("filter"))][2]
Filtered(rows) ==
    LET places == Ascending({k \in DOMAIN rows : Accepts(Filter, rows[k])})
    IN  [i \in DOMAIN places |-> rows[places[i]]]

(* "which keeps a planner that ever splits from reading the file twice":   *)
(* the builds of a scan return every row once, whatever the splits and     *)
(* whatever failed in between.                                             *)
RowsOnce == Finished => Result = Filtered(RowsRead(1))

(* What the rows of a source should be, by the source alone. *)
StatedCell(gpu, sample, ts, power, util, mem, temp) ==
    LET cell == [gpu_index |-> gpu, sample |-> sample, value |-> power,
                 epoch_hour |-> HourOf(ts), ts_ns |-> ts, power_w |-> power,
                 util_pct |-> util, mem_used_mb |-> mem, temp_c |-> temp]
    IN  [c \in Schema |-> IF c \in Columns THEN cell[c] ELSE NULL]

StatedOfSamples ==
    LET samples == source.samples
        times == Ascending({samples[k].ts_ns : k \in DOMAIN samples})
        gpus == 0 .. Max({samples[k].gpu_index : k \in DOMAIN samples})
        At(g, ts) == {k \in DOMAIN samples :
                         samples[k].gpu_index = g /\ samples[k].ts_ns = ts}
        LastOf(g, ts) == CHOOSE k \in At(g, ts) : \A j \in At(g, ts) : j <= k
        In(g, ts, m) == IF At(g, ts) = {} THEN 0
                        ELSE Clip(Rounded(samples[LastOf(g, ts)][m]))
        Row(g, k) == StatedCell(g, k - 1, times[k], In(g, times[k], "power_w"),
                         In(g, times[k], "util_pct"), In(g, times[k], "mem_used_mb"),
                         In(g, times[k], "temp_c"))
        OfGpu(g) == [k \in DOMAIN times |-> Row(g, k)]
    IN  FlattenSeq([n \in 1 .. Cardinality(gpus) |-> OfGpu(n - 1)])

StatedOfValues ==
    LET v == source.values
        Ts(t) == IF source.timestamps = NULL THEN StartNs + t * StepNs
                 ELSE source.timestamps[t + 1]
        OfSeries(i) == [k \in 1 .. v.nTime |->
            StatedCell(i, k - 1, Ts(k - 1), Wrap(v.cells[i, k - 1]), 0, 0, 0)]
    IN  FlattenSeq([n \in 1 .. v.nSeries |-> OfSeries(n - 1)])

Gpus == Max({s.gpu_index : s \in ToSet(source.samples)}) + 1
OfWarehouse == source.writer = "warehouse" /\ IsWarehouse(Schema)
OfAnalog ==
    /\ source.writer = "analog"
    /\ IsWarehouse(Schema) => source.values.nSeries % 4 # 0 \/ source.values.nSeries = 8

(* "a filtered read of legacy history is correct": the rows are the last   *)
(* sample of every GPU and time, rounded and clipped, and a gap is a zero; *)
(* or the matrix a caller gave, when it does not look like four planes.    *)
(* Two GPUs are excepted: eight series are never taken for planes.         *)
LegacyRoundTrip ==
    Finished =>
        /\ OfWarehouse /\ Gpus # 2 => Result = Filtered(StatedOfSamples)
        /\ OfAnalog => Result = Filtered(StatedOfValues)

(* The same for any number of GPUs. *)
PlanesRecognised ==
    Finished => (OfWarehouse => Result = Filtered(StatedOfSamples))

(* cleanup's comment, "the caller's file, not our temp copy": no build,    *)
(* nor the end of the JVM, deletes the file that is read.                  *)
CallersFileKept == SourcePath \in disk

(* After an orderly exit of the JVM the only copies left are those whose   *)
(* materialize did not return: the copy or the close of its stream failed, *)
(* or the exit came before deleteOnExit was called, though the copy may be *)
(* whole by then.  Every copy a build went on to read is gone, whatever    *)
(* failed after.                                                           *)
ExitLeavesOnlyUnreturned ==
    jvm = "exited" => disk \ {SourcePath} \subseteq unreturned

(* A copy of a file at a url that materialize returned is deleted in the   *)
(* end, however its build ends, unless the deletion fails or the JVM is    *)
(* killed first.                                                           *)
CopiesGo ==
    \A b \in 1 .. Max({Len(p) : p \in Plans}), n \in 1 .. MaxTries :
        LET copy == <<"copy", b, n>>
        IN  copy \in disk \ unreturned /\ place = "url"
                ~> copy \notin disk \/ copy \in undeleted \/ jvm = "killed"
=============================================================================

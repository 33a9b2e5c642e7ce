# Models and proofs of weathership/semantics

TLA+ models of the code in `src/`, checked with TLC on small instances, with
proofs checked by TLAPS. Every definition is a translation of code;
`PROJECT.json` names the lines of each. Source paths below are abbreviated:
`signal_layout.py`, `register.py`, `metadata.py`, `dataset.py`, ... are in
`python/hdf5_iceberg/src/hdf5_iceberg/`, `Hdf5SignalReader.java` and
`Hdf5ReadBuilder.java` in `java/iceberg-hdf5/src/main/java/org/zndx/semantics/`,
`generate_sdg_hdf5.py` in `analog/`, `read.rs`, `provider.rs`, `exec.rs` in
`crates/hdf5-df/src/`.

## 1. Inventory

The repository keeps telemetry in HDF5 files and makes them readable as tables.

| Component | State it keeps | Operations | Talks to |
|---|---|---|---|
| Signal writer (`signal_layout.py`) | one file per hour: attributes, an int and a dec plane | `write_signal_hdf5`, `read_bounds` | called by a settle run (not in the repository); file read by the JVM |
| JVM signal reader (`Hdf5SignalReader`) | none between calls | `read(path, window)` | file; called by the read builder |
| Iceberg read builder (`Hdf5ReadBuilder`) | filter, split, projection; the visitor's window; temporary copies, also after a build failed | the setters, `build`, `WindowVisitor`, `readLegacy`, `materialize`, `cleanup` | Iceberg's planner, binder, evaluator and FileIO; both readers; the JVM's delete-on-exit list |
| Registration (`register.py`, `metadata.py`, `dataset.py`, `adapters/`, `audit.py`, `dcat_ttl.py`) | pointer table (parquet), `catalog.ttl`, `shapes.ttl` in a warehouse | `register_root`: load, discover, merge, write | dataset roots (read only), warehouse (file system or object store), other registrars through it |
| DataFusion provider (`crates/hdf5-df`) | listing, shape of the first file | `try_listing`, `scan`/`slices`, `execute` | analog files, opened again for each slice; DataFusion's executor |
| Analog generator (`generate_sdg_hdf5.py`) | a file of the older layout | `write_analog`, `write_warehouse_analog` | its callers' samples; the legacy reader through the file |
| Legacy machine reader (`Hdf5MachineReader`) | none | `readValues` | file; called by `readLegacy` |
| Layout probe and geometry (`layout.py`, `format/model.py`) | none; byte ranges its callers keep | `probe_metric_group`, `open_values_info`, `virtual_chunk_bytes` | audit; `values_table` |
| SemDF (`crates/semdf`, `python/semdf`, `semdf_frame.py`) | metadata of a column | `values_table`, `measure_metadata`, `check_aggregation` (twice) | engines that carry the metadata between the two |
| Format model, CLI, file system helpers, benchmark | none | glue | |

What is hard here:

* **Signal files.** The writer truncates before it fills and can fail in
  between; several lanes share a series id, so a search must return runs; two
  sorted vectors are searched with inclusive and exclusive bounds; a matrix with
  gaps must give back exactly the rows it was made of; the manifest trusts
  bounds that were computed from the rows, not from the planes.
* **Read builder.** One window is shared and narrowed in place by a post-order
  visit of an arbitrary boolean expression, with 64-bit wrap-around.
* **Registration.** Read-modify-write of a shared table without a lock, three
  separate loads in one call, loads that turn every error into "empty",
  non-atomic local writes, two artefacts written one after the other, identity
  by a structural hash.
* **DataFusion provider.** A plan made from one look at the files and executed
  later, slice by slice, in any order, on files that may have been replaced.
* **Temporary copies.** Whether a copy exists is decided in one place and
  whether it is deleted in another; copying, reading and deleting each fail on
  their own; failed tasks run again; the JVM may exit at any step.
* **Legacy layout.** Four measures are stacked as planes of one matrix and the
  reader guesses from the number of series whether they are; values are rounded,
  clipped and cut to 16 bits; samples come in any order and more than once.
* **Layouts and aggregations.** Two programs in two languages decide what layout
  a file has, and two decide what may be summed, from metadata that engines
  between them may drop in part.

The list with the line of each hazard, and the properties that would catch it
going wrong, is `hazards` in `PROJECT.json`.

## 2. Modules

| Module | Models | Role |
|---|---|---|
| `SignalHour` | what an hour promises: replaced as a whole, a scan is exact or fails while unsettled | abstract specification |
| `SignalFile` | writer and JVM reader of one path | detailed specification, implements `SignalHour` |
| `SignalFile_proofs` | | theorems |
| `FilterWindow` | `Hdf5ReadBuilder.build` on a signal file, `WindowVisitor` | component |
| `FilterWindow_proofs` | | theorems |
| `MachineFile` | the older layout: what the generator stores, what the reader and `readLegacy` make of it | operators |
| `ReadBuilder` | a scan of one file: planning, setters, one `build()` per split, temporary copies, retries, the JVM | component, over `MachineFile` and the contract of `FilterWindow` |
| `ReadBuilder_proofs` | | theorems about files and copies |
| `ReadBuilderRows_proofs` | | theorems about rows |
| `Catalog` | the graph of `catalog.ttl`, the demands of `shapes.ttl` | operators |
| `Registry` | `register_root` by several processes over one warehouse | component, over `Catalog` |
| `Registry_proofs` | | theorems |
| `Hdf5Scan` | `try_listing`, `partitions`, `execute` of the provider | component |
| `Hdf5Scan_proofs` | | theorems |
| `Frames` | layout probe, audit geometry, `values_table`, both checks of an aggregation | component |
| `Frames_proofs` | | theorems |
| `Lemmas` | | facts about numbers, finite sets, orders and loops that several proofs need |
| `MC...` | | values of the constants for TLC |

Operators commented as *mutants* are plausible bugs, one for each checked
property, placed before the definition they would replace; no specification uses
them. They document what each property is able to see.

### SignalFile

`file` is the HDF5 file: its `/signal` attributes and two planes. The writer
goes through `Accept` (the refusals of `write_signal_hdf5`, raised before the
file is touched), `Create` (mode `"w"` and the attributes), `WriteInt`, then
`WriteDec` or, when a decimal has more places than `DEC_SCALE`, `FailDec`, which
leaves an empty `dec` group behind. The reader goes through `Call`, `Open` or
`Skip` (another `epoch_hour`, or no time in common with `ts_min`/`ts_max`),
`ReadInt`, then `ReadDec` or `ReadFails` (which is also what a missing file
leads to); with `Taken` the caller has its rows. A read and a write of one path
do not overlap in the model: what a reader sees of a file that is open for
writing is up to the HDF5 libraries, and the table names a file after its write
has returned. `Plane`, `LowerBound`, `UpperBoundInclusive`, `Run` and `Cells`
are the algorithms, `LowerBound` and `UpperBoundInclusive` as the same binary
searches. `Arrays.binarySearch` may return any index of an equal run, so `Hits`
leaves the choice open. Java's `t0`, `t1` are kept 0-based; entry *i* of a
vector is `a[i + 1]`. The rows of a plane (`Ints`, `Decs`) are a set of indexes
into the rows of the write, and `Sorted` puts at place *i* the element that
*i* - 1 others precede, which is what Python's `sorted` makes of a set.

`RowsAssumption` says what a row is and that a write's rows lie in the hour the
writer is told; `WindowsAssumption` types the windows. `WellFormed` is the
docstring's "exactly one of val_i / val_d non-None per row": the writer only
compares counts (finding 5), so that the theorems take it as a hypothesis;
`MCSignalFile` evaluates it for its inputs, `MCSignalFileMalformed` has inputs
without it.

Abstracted: a first write may pass any of `Inputs`, later ones one of the fewer
`Rewrites`; a value is an integer; decimals are counted in `1/Unit` of the
finest stored decimal, so that "too fine" is divisibility by `Unit`; `src`,
which the writer states to be constant within a lane, chunking and compression
are left out. `int8`/`int16` columns are taken to hold their values. A process
killed inside `h5py.File` is not modelled: what is on disk then is up to the
HDF5 library.

* `HourSpec`: the refinement. `hour` is the rows last accepted, the later of two
  rows for one cell (`Stored`); `settled` is that the write returned; `asked` is
  the window of the call. It says that a scan of a settled hour returns exactly
  the rows in its window (no lane lost, no gap filled in, no row from an earlier
  hour) and that a scan of a failed write fails or is exact. The reply is a set:
  whether the list the reader returns names a row twice is not seen here.
* `BoundsMatchRows`: the attributes are tight bounds of what can be read, and
  `n_rows` is the number of rows unless rows shared a cell.
* `TypeOK` holds what the layout's header states: time sorted and unique, series
  sorted, everything parallel.

### FilterWindow

A behaviour *is* a filter: each step is one visitor call of a post-order walk,
`stack` holds the subexpressions visited so far as the set of rows each accepts,
`w` is `WindowVisitor.w`. So TLC enumerates all filters of at most `MaxLeaves`
predicates, and a proof over the specification is a proof over all filters.
A visitor method returns the window or null: `notEq` is not overridden, and the
default of Iceberg's `BoundExpressionVisitor` returns null (`NotEq`). `and`, `or`
and `not` return the window whatever their operands returned, so that only a
bare `notEq` gives `visit` a null, which `Hdf5SignalReader.read` refuses
(`ReadThrows`). `Read` is `Hdf5SignalReader.read` of the window, by its contract
(`SignalFile` is where that is checked); `Residual` is the evaluator. Iceberg's
binder folds constants out of the connectives, so `AlwaysTrue` and `AlwaysFalse`
only occur as the whole filter. Its defaults for `startsWith` and `isNaN` raise;
they are left out, because no column of this table is a string or a floating
point number for them to bind to. `asks` is what the narrowing of a
subexpression asks for: the rows it accepts, but all rows for the two literals
at which `v - 1` and `v + 1` wrap. `asks`, `negated` and `pure` are auxiliary.
Rows lie in the hour the file says (`RowAssumption`), which is the writer's
stated precondition. `TypeOK` is stated for the proofs, which need it; no run
checks it, because the types of Java ensure it.

* `ExactUnlessNegated`: if `build` returns, no matching row is lost and none is
  added, for every filter in which no `NOT` stands over a predicate that narrowed
  the window, or an `OR` follows such a `NOT` and resets it; and `build` throws
  for no filter but a bare `notEq`.
* `ConjunctionNarrows`: push-down does its work; a conjunction of `ts_ns` and
  `series_id` predicates reads the matching rows only. In `ts_ns < MinLong` and
  `ts_ns > MaxLong`, which no row satisfies, the bound wraps: such a predicate
  narrows nothing, and the others of the conjunction still narrow in full.

### MachineFile and ReadBuilder

`MachineFile` holds the older layout as functions of data: `Rounded`, `Clip` and
`Wrap` are the three conversions to `int16` that the code uses in different
places (`write_warehouse_analog` rounds and clips, `write_analog` and the
reader's `short` casts wrap); `Warehouse` stacks the four measures as planes;
`Planes` is the guess of `readLegacy`. A file without `Timestamps` is one with
none of them: the empty function.

The loops of the setter calls and of the residual evaluator are recursive
functions of the round (`SetAll`, `Kept`); the properties do not use them but
say by sets of indexes which call wins and which rows remain (`CallsOf`,
`Filtered`). The assumptions name what the code takes for granted: the first
split of a file starts at 0 and no other does (`PlansAssumption`), nobody
projects on null (`RequestsAssumption`), samples have the keys and numbers the
generator reads, a matrix has the cells its shape says (`SourcesAssumption`),
and null is no number (`NullAssumption`).

`ReadBuilder` is one scan. `Write` puts a file there: by one of the two writers,
or by somebody else. `Plan` picks the splits and the setter calls, and every
split has a build of its own, in a thread of one JVM: `Configure` runs the
setters (`Set`), then `NoSchema`, `NotMine` (a split that does not start at 0
returns no rows), or `UseFile` / `CreateCopy` / `CreateFails` of `materialize`;
then the copy, one step at a time, as the JVM may exit between any two:
`Copied` or `CopyFails`, `Close` or `CloseFails` of the stream, `Register`
(`deleteOnExit`); then `Read` or `ReadFails`; `Cleanup`, which runs on every path out of a
read, or `CleanupFails`, as an exception of the deletion is swallowed. `Retry`
is the engine running a failed task again. `Exit` deletes what `deleteOnExit`
was told of; `Kill` deletes nothing. `place` is where the file is: a regular
file at a local path, a location that looks local but is no regular file
(`materialize` copies, `cleanup` thinks there is nothing to delete), or a url.

Abstracted: `/signal` files are read by the contract that `FilterWindow` and
`SignalFile` establish, every row that the filter accepts, once. A filter is a
column and the values it accepts: one of those the contract covers, with neither
`NOT` nor a bare `notEq`. Measured quantities are integers that stand
for halves, so that rounding meets ties. `epoch_hour` is cut towards zero, as
Java divides (`HourOf`), which differs from the floor before 1970. A sample's `gpu_index` is not negative,
as `write_warehouse_analog` takes it for granted. `synth_signal` is one of the
matrices a caller of `write_analog` may pass. The uuid, units, windows and other
groups, which no reader of the values looks at, are left out.

* `RowsOnce`: the builds of a scan together return each row once, whatever the
  splits, the failures and the retries.
* `LegacyRoundTrip`: what the generator was given comes back, by the source
  alone: for each GPU and time the last sample, rounded and clipped, zero where
  there is none, with the projection and the filter the setter calls ask for in
  whichever order they come; a caller's matrix comes back wrapped. Two GPUs are
  excepted, see the findings.
* `CallersFileKept`: no build, and no exit, deletes the file that was read.
* `ExitLeavesOnlyUnreturned`: after an orderly exit the only copies left are
  those whose `materialize` did not return: the copying or the close of the
  stream failed, or the exit overtook `deleteOnExit`. Such a copy may be whole.
  Every copy that a build went on to read is gone.
* `CopiesGo` (liveness): the copy of a file at a url that `materialize` returned
  is deleted in the end, unless its deletion fails or the JVM is killed.

### Registry

One action per interaction with shared state: the two loads in
`existing_fingerprints` and `existing_uris` (`Start`, `LoadUris`), `Discover`
(listing and audit), the third load with the merge (`LoadTable`), the write
(`Put` on an object store, `Truncate` and `Close` on a file system, where two
writers of one file may leave it broken), `WriteCatalog`, `Return`. With
`Faults`, a load may return nothing (the `except Exception` of
`load_pointer_rows`) and a registrar may `Stop` before any step; a stop between
`Truncate` and `Close` leaves `Corrupt`, and a write that raises there
(`CloseFails`) removes the file, as pyarrow does. Files appear in the data
plane, or change, at any time (`PutFile`).

`Calls` are the arguments of the calls: `skip_audit` and `max_files`. The loops
of the listing, over the files of a root (`FilesOf`) and over the roots
(`Candidates`), are recursive functions of the round. `NamesAssumption`: an
empty table is a table, and no fingerprint looks like the `anon<i>` of a
descriptor without one. `Catalog`
turns the descriptors of a call into the triples of `catalog.ttl` (`Segment`,
`Nodes`, `Graph`) and says what the shapes of `emit_shacl_shapes` demand of them
(`Conforms`): those of `DatasetShape` and `DistributionShape`. The third shape,
for `AcquisitionProduct`, and the datatypes of literals are left out.

Abstracted: the fingerprint is the file's `structure`, as the hash covers names,
shapes and types and no data; sizes, tags, keys and the derived counters are
left out, and so are the triples no shape counts. The listing is one step, and
so is each stub: the shapes stub is a constant text.

* `KeptUnlessRaced`: what a completed write put into the table stays, unless
  some registrar wrote a table merged before another's write, or from a load
  that failed or met a file an incomplete write had broken or removed. The code
  promises no more. It says that rows are lost in no other way, not that they are
  lost whenever one of these happens. `stale` is per registrar, and `lossy`
  records that one wrote.
* `CatalogBehindTable`: at no time does the catalog name a fingerprint the table
  has not got (same exception).
* `CountsDistinctFingerprints`: `n_registered`, computed from the first two
  loads, is the number of fingerprints the third load did not have, for
  candidates of distinct structure, with any number of registrars, unless
  somebody wrote between the loads. In particular a second pass reports 0.
* `CatalogConformsIfDistinct`: the catalog conforms to its shapes whenever no
  two of a call's audited files share a structure, and always when the audit was
  skipped.

### Hdf5Scan

`OpenFile` and `ListingFails` are `try_listing`, one file at a time; `Cut` and
`CutFile` are the loop of `partitions` for each file; `Execute(i)` and
`ExecuteFails(i)` are `read_partition` for slice *i*, in any order. `Replace`
puts another file of any shape at a path, or removes it, between any two steps.
`TargetBytes` is `SERIES_BLOCK_TARGET_BYTES`. A value is known by the version,
gpu and sample it was read from. The labels are `u32` and their casts wrap
(`AsU32`); `U32` is 2^32, and 2 for TLC. What `read_i16_rows` does beyond the end of the
file is modelled as an error, as the code expects of it.

* `LabelsTrue`: a row is labelled with the gpu and the sample of its value, as
  `u32`, also after a replacement by a file of another width. For a listing of at
  most 2^32 gpus and samples these are the numbers themselves; in a larger one
  two rows may have the same label.
* `WholeScan`: a file that was not replaced comes out whole, each sample from
  exactly one slice, and no slice fails.
* `CutAdvances`: the loop of `partitions` makes progress with every slice.

### Frames

`tree` is what a file has of each layout. `Probe` is `probe_metric_group` in its
order, `JvmSignal` and `JvmReadsMachine` are how the JVM readers decide on the
same file. `OpenValuesInfo` keeps the audited geometry, `VirtualChunk` computes
byte ranges from it, `ValuesTable` reads a slab by numpy's slicing
(`SliceBound`: negative and too large bounds) and stamps its column with
`MeasureMetadata`; `Replace` puts another file in place between any two of
these. `Stamp` and `Foreign` write metadata of other measures and of other
programs, `Convey` is an engine that loses any part of it, or the map itself.
`RustCheck` and `PythonCheck` are the two versions of `check_aggregation`; `op`
is taken in lower and upper case. Upper case is Unicode's in Python (`Upper`,
`str.upper`) and ASCII's in Rust (`AsciiUpper`, `to_ascii_uppercase`), by one
table each.

`TreesAssumption`: a dataset has a number of rows and of columns.
`NamesAssumption`: what is in upper case stays so, the upper case of Unicode
includes that of ASCII, and None is nobody's name.

Abstracted: a cell is its row-major index; a metadata value is the kind of JSON
it is and its entries; what the readers do with a file after they recognised it
is in the other modules.

* `SlabIsChunk`: the byte range computed from an audit is where the cells of the
  same bounds are. Excepted are a replacement in between, bounds outside of the
  series (the range has no slicing rules) and items of another width than the
  default of 2.
* `LayoutsAgree`: the Python probe and the JVM take a file for the same layout;
  a file registered as a machine file can be read as one. A *dataset* called
  `signal` is excepted: the probe looks at its attributes only.
* `IntensiveNeverSummed`: whatever an engine drops, `SUM` of a frame's column is
  refused by both checks.
* `VerdictsAgree`: for metadata of `measure_metadata`, of which any part may be
  lost, both checks allow the same operations and refuse with the same code, but
  for an empty map, if the operation has the same upper case in both languages,
  as every ASCII one has.
* `RustImpliesPython`: for any metadata and any operation, what Rust allows
  Python allows.

## 3. Runs

Bounds are in the `.cfg` files and MC modules. `CHECK_DEADLOCK FALSE` is set,
except in `frames`, because every behaviour ends: a filter is evaluated, a bound
on writes, calls or replacements is used up, the JVM has exited.

Only `ReadBuilder` states fairness: weak fairness of the steps of each build,
for the one liveness property. A build runs in the thread of its task, takes no
lock and waits for nobody but the file's stream, which ends or fails; so an
enabled step of it is taken, unless the JVM goes away. `Write`, `Plan`, `Retry`,
`Exit` and `Kill` are not fair: nobody has to scan a file or to end the JVM.

| Run | Instance | Shows |
|---|---|---|
| `filter_window` | 3 rows, one of them at the largest long, `long` = -1..2, 3 predicates | `ExactUnlessNegated`, `ConjunctionNarrows` over every filter; three leaves are enough for a NOT or an OR to stand over, before and after a narrowed sibling |
| `filter_window_exact` | the same | violation: `NOT` over a narrowed predicate loses rows |
| `signal_file` | a first write of all 820 sequences of at most 3 of 9 rows (null and two gpus in one series, a cell written twice, decimals, one of them too fine) and one of seven rows with a run of four lanes; then up to two more writes of six contents, two of which fail; 53 windows | `TypeOK`, `BoundsMatchRows`, `HourSpec`; nothing of an earlier hour is read. Three writes let a complete one follow a failed one that followed a complete one |
| `signal_file_malformed` | rows with both values or none | violation of `OneValuePerRow` |
| `registry` | 2 registrars (symmetric, as are the structures), 2 roots of a file each, 2 structures, 3 calls with and without audit and with `max_files` none or 1, 2 changes of the data plane, faults, both kinds of warehouse | `TypeOK`, `KeptUnlessRaced`, `CatalogBehindTable`, `CountsDistinctFingerprints`, `CatalogConformsIfDistinct`; three calls let a third merge on top of a raced or broken table, two roots let a bound cut between them |
| `registry_stub` | 1 registrar, `skip_audit` | violation of `IdempotentOnUri` |
| `registry_shacl` | 1 registrar, files with and without a uuid | violation of `CatalogConforms` |
| `registry_load_fault` | 1 registrar, failing loads | violation of `NothingLost` |
| `hdf5_scan` | 2 files of 4 shapes (blocks of two rows and of one, a row wider than the target, no rows), 2 replacements, labels of one bit, which three gpus or samples exceed | `TypeOK`, `LabelsTrue`, `WholeScan`, `CutAdvances` |
| `legacy_scan` | `int16` is -4..3 and an hour 4 ns, so that both are exceeded; every sequence of at most 2 samples on 3 GPUs at 2 times (one GPU may have no sample, a cell two), matrices of 1, 4 and 8 series, files of others; 5 lists of setter calls, 1 or 2 splits, 2 tries of each, 3 places, faults | `TypeOK`, `RowsOnce`, `LegacyRoundTrip`, `CallersFileKept`, `ExitLeavesOnlyUnreturned`, `CopiesGo`; two tries let a copy of the first still be there in the second |
| `legacy_two_gpus` | the same sources, one split, no faults | violation of `PlanesRecognised` |
| `frames` | 36 files: every combination of 4 signal and 7 machine groups, and OTel trees with and without `Values`; 7 slabs, inside, outside, reversed and negative; metadata of 4 measures and 8 foreign ones; 8 operations, two with a letter outside ASCII; 1 replacement | `SlabIsChunk`, `LayoutsAgree`, `IntensiveNeverSummed`, `VerdictsAgree`, `RustImpliesPython`: one replacement is enough for an audit of one file to meet the slab of another |

### Findings

Each violation run checks a sentence of the repository against the code.

1. **`NOT` loses rows** (`filter_window_exact`). `WindowVisitor.not` returns the
   window its operand has narrowed. For `NOT (ts_ns < 5)` the reader is asked
   for rows before 5 and the residual drops them all. `or` resets the window;
   `not` does not, although the comments name both as left to the residual.
2. **A failed load empties the pointer table** (`registry_load_fault`).
3. **One Dataset IRI for several files** (`registry_shacl`): the IRI is the
   structural fingerprint, so that the catalog breaks its own shapes.
4. **`skip_audit` is not idempotent on uri** (`registry_stub`).
5. **Two malformed rows make a well-formed write** (`signal_file_malformed`).
6. **Two GPUs are read as eight** (`legacy_two_gpus`). The guess of `readLegacy`
   leaves out eight series, which is what two GPUs have: their history comes
   back as eight GPUs whose power is somebody's utilisation, memory or
   temperature.

Observed while modelling, without a run of their own:

* A copy made for a local-looking location that is no regular file stays until
  the JVM exits: `cleanup` (`Hdf5ReadBuilder.java:452-453`) takes it for the
  caller's file, while `materialize` (431-446) has copied it. `CopiesGo` is
  stated of urls for that reason. `deleteOnExit` comes after the copying and the
  close of the stream: a copy that breaks off is never deleted, nor is a whole
  one whose stream does not close or that the exit of the JVM overtakes.
* A filter that is one `notEq` alone, like `gpu != 1`, makes `build` throw on a
  `/signal` file (`Hdf5ReadBuilder.java:257`, `Hdf5SignalReader.java:94`): the
  visitor does not override `notEq`. Inside `and`, `or` or `not` it does no harm.
* `ts_ns < Long.MIN_VALUE` and `ts_ns > Long.MAX_VALUE` read the whole file: the
  bound wraps to the other end (`Hdf5ReadBuilder.java:274`, 290). The residual
  then drops every row.
* `read.rs:143-144` casts labels to `u32`: from 2^32 gpus or samples on they
  start again at 0, without an error.
* An operation with a letter whose upper case is in ASCII only for Unicode (a
  `min` with a dotless i) is allowed by the Python check and refused by the Rust
  one.
* `layout.py:1` names the machine layout first; the probe looks at `/signal`
  first. The signal group it returns has no `Values`, so `values_table` ends in
  a `KeyError` on such a file.
* For an empty map the Rust check answers POLYVALUE and the Python one NOSEMDF;
  Python iterates whatever JSON it finds: the keys of an object count as
  aggregations, a number raises `TypeError`.
* `mem_used_mb` of any present GPU exceeds `int16` and is stored as 32767.

## 4. Proofs

The theorems state properties that the runs check on small instances, here for
every value of the constants that the named assumptions allow. Every invariant
that a passing run checks is also proved, and so are the refinement `HourSpec` and the
action property `CutAdvances`; of the properties of passing runs only the
liveness of `CopiesGo` is left to TLC. The inductive invariants were checked by
TLC on the instances of the runs before they were proved.

The algorithms of the models are loops, recursive functions, over data of any
length. Their results are proved by the least counterexample (`LeastNat` and
`AllNat` of `Lemmas`, from the well-foundedness of the naturals): a search of a
range by the size of the range, a loop by its rounds. `LoopExists` and
`LoopEnds` say that a loop has a value after every round and that what each
round preserves holds at its end. `Ranked` says that the elements of a finite
totally ordered set stand in order in the sequence that puts each at the place
of its number of predecessors, which is how the models sort.

### SignalFile_proofs

For every set of writes, rows of any number of series, lanes and times, every
window and every number of writes:

* `Implements`: `Spec => HourSpec`, for well-formed writes. A scan of a file
  whose write returned replies with exactly the rows stored that lie in the
  window; a scan of a file that broke off fails, or it replies with those too,
  and never with the rows of one plane for those of both.
* `BoundsTight`: `Spec => []BoundsMatchRows`, for well-formed writes.
* `TypeCorrect`: `Spec => []TypeOK`, without that hypothesis.

The invariant `Inv` says what the file holds at each step of a write and that a
reader that is in the planes has read a whole int plane (`FileInv`,
`ReaderInv`). The work is in the algorithms. `SearchFinds` is the invariant of
both binary searches: what they return divides a sorted vector at the key.
`LanesSorted` needs that `LaneLess` is a total order of lane keys.
`RunsAreLanes`: whatever index `Arrays.binarySearch` hits, the run around it is
all lanes of the series. `CellsOfWindow`, `CellGivesRow` and `RowHasCell` then
make the cells between the two searches the rows of the window, one for one,
and `WholeRead` puts the planes together; `SkipsNoRow` says that a file skipped
by its hour or its bounds has no row to give. The later of two rows in a cell
stays (`KeptIsStored`). Well-formedness is needed where a row has to be in one
plane only. The proofs use `RowsAssumption`, `WindowsAssumption` and
`MarksAssumption` (a file is told from no file, a plane from a missing one).

### FilterWindow_proofs

`FilterWindow_proofs` proves, for every set of rows, every width of `long`,
every literal and every number of predicates:

* `ExactRead`: `Spec => []ExactUnlessNegated`; no filter without `NOT` over a
  narrowed predicate loses a row, and only a bare `notEq` makes `build` throw.
* `ConjunctionPushDown`: `Spec => []ConjunctionNarrows`, over every literal, the
  two that wrap included.
* `Invariant`: `Spec => []IInv`, on which both rest.

The properties speak about the end of a visit; the invariant has to speak about
its middle, when the window is shared by subexpressions that no connective has
joined yet. `IInv` adds to the types:

* `WindowSound`: unless `negated`, each row that all *narrowed* subexpressions
  on the stack accept lies in the window. Each of them alone may accept rows
  outside, which an operand narrowed away already; that is sound because in the
  absence of `OR` they will be joined by `AND`, and an `OR` both resets the
  window and forgets who narrowed it.
* `WindowTight`: while `pure`, the window holds exactly the rows that all
  subexpressions ask for.
* `NullAlone`: a subexpression that is alone on the stack and is null is the only
  predicate visited.
* the facts that tie `rows` and `kept` to the window and the stack once the
  visit is over.

The lemmas `PushAccepted`, `PopAccepted` and `PopTwoAccepted` say how the
condition on the stack changes; `TightenLoRows`, `TightenHiRows` and
`IntersectSeriesRows` what a narrowing does to the rows of the window; then
there is one lemma per action. The proofs rest on `RowAssumption` (rows have
non-negative longs as times and lie in the file's hour, and 0 is inside `long`)
and `NullAssumption` (null is neither an integer nor a set of series), which TLC
evaluates in the runs.

### ReadBuilder_proofs

For every source, place, list of setter calls, number of splits and tries, with
and without faults, and every interleaving of the builds:

* `CallersFileSafe`: `Spec => []CallersFileKept`.
* `ExitCleans`: `Spec => []ExitLeavesOnlyUnreturned`, with an exit between any
  two steps of a copy.

Neither property is inductive: `cleanup` deletes whatever path the build holds,
and decides by the location. `PathsApart` says why that is right: at a url a
build that may still delete something holds the path of a copy, which is never
the caller's. `CopiesKnown` says that each copy on the disk is either registered
with the JVM, or one whose `materialize` has not returned. These two use no assumption on the constants.

* `TypeCorrect`: `Spec => []TypeOK`, in which the point is that a build that
  copies or reads has its file, whatever the others delete. `CopiesOwned` says
  why: every copy was made by one try of one split, and a build holds the copy
  of its present try.

### ReadBuilderRows_proofs

For every source, place, list of setter calls, plan of splits and number of
tries, with and without faults:

* `RowsReadOnce`: `Spec => []RowsOnce`.
* `LegacyRead`: `Spec => []LegacyRoundTrip`.

`RInv` follows a build from its setters to its end: it goes by the filter and
the projection that `Filter` and `Schema` name (`BuilderIsSet`, by the rounds of
`SetAll`), by the file that was written, and only the split at 0 has rows.
`KeptInOrder` says that the loop of the evaluator leaves the accepted rows in
the order of the file, `FlattenFirst` that the rows of the splits are those of
the first; together they are `ScanIs`. `LegacyRead` adds the arithmetic of the
layout. `FlattenRectangle`, `RowByRow` and `DivMod`: the double loop of
`readLegacy` and the sequence of rows of each GPU number the same cells.
`WarehouseFile` and `PlanesRoundTrip`: plane *p* of GPU *g* is found at series
`p * nGpu + g`, as it was stacked. `StoredIs`, `Clipped` and `Converted`: what
was clipped to `int16` is not changed by the two casts it goes through after
that. `SamplesRoundTrip` and `ValuesRoundTrip` put these together for the two
writers. The hypothesis `Gpus # 2` is where the proof needs `Planes` to answer
4, see finding 6.

### Registry_proofs

For any number of registrars, roots, files and calls, both kinds of warehouse,
with and without faults:

* `Kept`: `Spec => []KeptUnlessRaced`; `CatalogBehind`:
  `Spec => []CatalogBehindTable`.
* `Counts`: `Spec => []CountsDistinctFingerprints`.
* `CatalogValid`: `Spec => []CatalogConformsIfDistinct`.
* `TypeCorrect`: `Spec => []TypeOK`.

The invariant `Inv` speaks about what each registrar holds between its steps.
`Keeps`: what a registrar is about to write contains all that was given so far,
unless its load is stale, and once it writes its stubs its own rows have been
given. `Counted` and `Merged` tie the count, the rows to write and the
fingerprints added to the loads they were made from. `OthersKnow` is the step
that makes it inductive: whoever writes makes every other registrar that has
loaded already stale. `CandidatesPresent` says of the listing, and
`MergeGivesRows` of the merge, what the steps need of them. `CatalogValid` goes
through the graph: the nodes of descriptors with distinct segments do not share
a subject (`SegmentsDiffer`), so that each has the triples its own descriptor
gives it. Used are the assumptions of `Registry` alone.

### Hdf5Scan_proofs

For every list of files, all shapes, every target of bytes and any number of
replacements:

* `TypeCorrect` and `LoopAdvances`: `Spec => []TypeOK`, `Spec => CutAdvances`.
* `NoFalseLabel`: `Spec => []LabelsTrue`, for every shape and every width of the
  labels: modulo that width, and exactly for the shapes that fit it.
* `WholeFiles`: `Spec => []WholeScan`.

`NoFalseLabel` rests on `BatchRows`: labels are computed from the index in the
flat block by division with the width of the *listing*, values come from a file
of the width it has *now*; `ReadRefused` lets them differ in no case that
returns rows. `WholeFiles` needs two invariants of its own. `TileInv`: the
slices of one file are disjoint and cover it as far as it was cut. `VersionInv`:
a version is given once, so that a file with the version of the listing has its
shape, no slice of it is refused, and what was read of it is still what it
holds. The proofs rest on `ScanAssumption` (paths and numbers) and
`MarksAssumption` (no batch of rows is equal to the marks of a slice that is
pending or failed); TLC evaluates both.

### Frames_proofs

For every file, every slab, all metadata, every list of aggregations and any two
tables of upper-case names:

* `RustNeverMoreLenient`: `Spec => []RustImpliesPython`, of any two answers.
* `SameVerdicts`: `Spec => []VerdictsAgree`, for the operations that have one
  upper case; `NeverSummed`: `Spec => []IntensiveNeverSummed`, for all: what
  Python refuses, Rust refuses. The invariant is what survives a lossy
  engine: of metadata that `measure_metadata` wrote, the aggregations are gone
  or still an array of names in upper case (`OfNames`), and of a frame's they are gone or
  still those of `GPU_AGG` (`OfFrame`).
* `SameLayout`: `Spec => []LayoutsAgree`, by the cases of the probe.
* `ChunkIsSlab`: `Spec => []SlabIsChunk`. The
  invariant `FileInv` keeps what was audited, and what was read, in agreement
  with the file as long as it is the same version, and the two with each other
  when they are of one version, also after that version is gone.

They rest on `NamesAssumption` and on `TreesAssumption`.

### Only model-checked

`CopiesGo`, which needs fairness and `ENABLED`, and these the prover does not
handle. The violations of section 3 are TLC's: a proof shows what holds.

## 5. Not modelled

* **Format model, CLI, file system helpers, benchmarks.** The Iceberg format
  model registers the reader, and its write builder always throws; the command
  line parses arguments and prints; `fsutil.py` opens file systems. None keeps
  state.
* **The settle run and the ontology.** The run that calls the signal writer is
  not in the repository; `SignalFile` takes its inputs as given.
* **Inside the libraries.** HDF5, h5py, pyarrow, Iceberg and DataFusion appear
  by what the code expects of them. So a process killed inside `h5py.File` (what
  is on disk then is up to HDF5), and a read of a file that is open for writing,
  are no steps of the models.
* **Of the registration:** the walk of a file system below a root,
  `product_prefix` (it lists through `flat_prefix` with another root), tags,
  sizes, credentials, and the refusal of writes outside the warehouse.
* **Of the catalog's shapes:** that of `AcquisitionProduct`, and datatypes.
* **Of the generator:** the groups and attributes beside the values,
  `count_tree`, and the synthesis of demonstration signals, whose values no
  property depends on.
* **Of the provider:** projection of columns, which changes no row.
* Hazards of `PROJECT.json` without a property say there why they have none:
  mostly because the code leaves the case to its caller (`epoch_hour`, the
  widths of `gpu` and `inst`) or documents no promise about it.

## 6. Plan

Done: `SignalHour`, `SignalFile`, `FilterWindow`, `Registry` over `Catalog`,
`Hdf5Scan`, `ReadBuilder` over `MachineFile`, `Frames`, and the proofs of every
invariant that the runs check. The modules meet at contracts that one of them
checks and another uses: a read of `SignalFile` is exact for its window
(`HourSpec`), which is `Read` of `FilterWindow`; a build over a signal file
returns the rows its filter accepts (`ExactUnlessNegated`), which is `Read` of
`ReadBuilder`. Next:

1. `Registry` against an abstract table of fingerprints, which grows only, for
   behaviours without a stale write; its refinement proved from `Inv`.
2. `Hdf5Scan` against an abstract scan that returns each sample once.
3. `SignalScan`: `FilterWindow` over a `SignalFile`, so that the first contract
   above is the refinement of a composed module.

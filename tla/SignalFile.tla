----------------------------- MODULE SignalFile -----------------------------
(***************************************************************************)
(* One hour of telemetry in the /signal layout: the Python writer          *)
(* (signal_layout.write_signal_hdf5) and the JVM reader                    *)
(* (Hdf5SignalReader.read) of the same file.                               *)
(*                                                                         *)
(* The writer truncates the file before it fills it, one plane (int, dec)  *)
(* after the other, and may fail on a value of the second.  The reader     *)
(* narrows by the file's attributes, then searches the sorted time and     *)
(* series vectors of each plane.  Vectors are 0-based in the code: entry i *)
(* of a vector a is a[i + 1] here.                                         *)
(***************************************************************************)
EXTENDS Integers, Sequences, FiniteSets, SequencesExt, FiniteSetsExt

CONSTANTS
    Inputs,        \* the row sequences a settle run may pass to the writer
    Rewrites,      \* bound: those of them a later write may pass
    Windows,       \* the windows a reader may ask for
    EpochHour,     \* the writer's epoch_hour argument
    HourLen,       \* nanoseconds of an hour
    Unit,          \* decimals are counted in 1/Unit of 10^-DEC_SCALE
    NULL,          \* None / null
    NullKey,       \* _NULL_KEY: the lane key of a null gpu or inst
    NoFile,        \* the path does not exist
    NoGroup,       \* a plane whose group does not exist
    EmptyGroup,    \* a plane whose group exists without its datasets
    Failed,        \* the reader threw
    MaxWrites      \* bound: accepted writes

Row == [ts : Int, series : Int,
        gpu : (Int \ {NullKey}) \cup {NULL}, inst : (Int \ {NullKey}) \cup {NULL},
        val_i : Int \cup {NULL}, val_d : Int \cup {NULL}]

(* The rows of a write; they lie in the hour the writer is told.           *)
ASSUME RowsAssumption ==
    /\ NULL \notin Int /\ NullKey \in Int
    /\ Rewrites \subseteq Inputs
    /\ \A rs \in Inputs :
          /\ rs \in Seq(Row)
          /\ \A k \in DOMAIN rs : rs[k].ts \div HourLen = EpochHour
    /\ Unit \in Nat \ {0} /\ MaxWrites \in Nat

ASSUME WindowsAssumption ==
    /\ NULL \notin Windows
    /\ \A win \in Windows :
          win.tsLo \in Int \cup {NULL} /\ win.tsHi \in Int \cup {NULL}

VARIABLES
    file,          \* the file at the path
    writer,        \* "idle", or the step write_signal_hdf5 takes next
    input,         \* rows of the last write that was not refused
    complete,      \* whether that write returned
    writes,        \* accepted writes (bounded by MaxWrites)
    reader,        \* "idle", "open", or the plane the reader turns to next
    window,        \* of the current read, or NULL
    out,           \* rows it has collected so far
    answer         \* what it returned, or NULL

vars == <<file, writer, input, complete, writes, reader, window, out, answer>>

-----------------------------------------------------------------------------
(* The planes *)

Hour(r) == r.ts \div HourLen

LaneKey(r) == <<r.series, IF r.gpu # NULL THEN r.gpu ELSE NullKey,
                          IF r.inst # NULL THEN r.inst ELSE NullKey>>

(* Mutant of LaneLess: lanes ordered by gpu before series. *)
LaneLessByGpu(a, b) ==
    \/ a[2] < b[2]
    \/ a[2] = b[2] /\ a[1] < b[1]
    \/ a[2] = b[2] /\ a[1] = b[1] /\ a[3] < b[3]

(* The order _plane sorts lane keys by. *)
LaneLess(a, b) ==
    \/ a[1] < b[1]
    \/ a[1] = b[1] /\ a[2] < b[2]
    \/ a[1] = b[1] /\ a[2] = b[2] /\ a[3] < b[3]

(* The rows of each plane, as indexes into the rows of the write. *)
Ints(rs) == {k \in DOMAIN rs : rs[k].val_i # NULL}
Decs(rs) == {k \in DOMAIN rs : rs[k].val_d # NULL}

TooFine(d) == d % Unit # 0

(* The elements in ascending order, before[x] being those before x. *)
Sorted(before) ==
    [i \in 1 .. Cardinality(DOMAIN before) |->
        CHOOSE x \in DOMAIN before : Cardinality(before[x]) = i - 1]

Times(rs, K) ==
    LET times == {rs[k].ts : k \in K}
    IN  Sorted([t \in times |-> {u \in times : u < t}])
Lanes(rs, K) ==
    LET keys == {LaneKey(rs[k]) : k \in K}
    IN  Sorted([key \in keys |-> {other \in keys : LaneLess(other, key)}])

OrZero(key) == IF key = NullKey THEN 0 ELSE key
IsNull(key) == IF key = NullKey THEN 1 ELSE 0

(* Lanes x times; a cell two rows share keeps the later one. *)
Plane(rs, K, dec) ==
    LET ts == Times(rs, K)
        lanes == Lanes(rs, K)
        cell(i, j) == {k \in K : LaneKey(rs[k]) = lanes[i] /\ rs[k].ts = ts[j]}
        value(r) == IF dec THEN r.val_d \div Unit ELSE r.val_i
    IN  [ts |-> ts,
         series_id |-> [i \in DOMAIN lanes |-> lanes[i][1]],
         gpu |-> [i \in DOMAIN lanes |-> OrZero(lanes[i][2])],
         gpu_null |-> [i \in DOMAIN lanes |-> IsNull(lanes[i][2])],
         inst |-> [i \in DOMAIN lanes |-> OrZero(lanes[i][3])],
         inst_null |-> [i \in DOMAIN lanes |-> IsNull(lanes[i][3])],
         values |-> [i \in DOMAIN lanes |-> [j \in DOMAIN ts |->
             IF cell(i, j) = {} THEN 0 ELSE value(rs[Max(cell(i, j))])]],
         present |-> [i \in DOMAIN lanes |-> [j \in DOMAIN ts |->
             IF cell(i, j) = {} THEN 0 ELSE 1]]]

IntPlane(rs) == Plane(rs, Ints(rs), FALSE)
DecPlane(rs) == Plane(rs, Decs(rs), TRUE)

(* A plane without rows has no group. *)
IntGroup(rs) == IF Ints(rs) = {} THEN NoGroup ELSE IntPlane(rs)
DecGroup(rs) == IF Decs(rs) = {} THEN NoGroup ELSE DecPlane(rs)

-----------------------------------------------------------------------------
(* The writer *)

Refused(rs) ==
    rs = <<>> \/ Cardinality(Ints(rs)) + Cardinality(Decs(rs)) # Len(rs)

(* A refused write raises before it touches the file. *)
Accept(rs) ==
    /\ writer = "idle" /\ reader = "idle" /\ writes < MaxWrites
    /\ ~Refused(rs)
    /\ writes' = writes + 1
    /\ input' = rs
    /\ writer' = "create"
    /\ complete' = FALSE
    /\ UNCHANGED <<file, reader, window, out, answer>>

(* Mutant of Header: the rows taken to be in the order of time. *)
HeaderOfSorted(rs) ==
    [epoch_hour |-> EpochHour, ts_min |-> rs[1].ts, ts_max |-> rs[Len(rs)].ts,
     series_min |-> Min({r.series : r \in ToSet(rs)}),
     series_max |-> Max({r.series : r \in ToSet(rs)}),
     n_rows |-> Len(rs), int |-> NoGroup, dec |-> NoGroup]

(* The new file's attributes, no plane yet. *)
Header(rs) ==
    LET times == {r.ts : r \in ToSet(rs)}
        ids == {r.series : r \in ToSet(rs)}
    IN  [epoch_hour |-> EpochHour, ts_min |-> Min(times), ts_max |-> Max(times),
         series_min |-> Min(ids), series_max |-> Max(ids),
         n_rows |-> Len(rs), int |-> NoGroup, dec |-> NoGroup]

(* Opening with mode "w" truncates: the earlier hour is gone. *)
Create ==
    /\ writer = "create"
    /\ file' = Header(input)
    /\ writer' = "int"
    /\ UNCHANGED <<input, complete, writes, reader, window, out, answer>>

WriteInt ==
    /\ writer = "int"
    /\ file' = [file EXCEPT !.int = IntGroup(input)]
    /\ writer' = "dec"
    /\ UNCHANGED <<input, complete, writes, reader, window, out, answer>>

WriteDec ==
    /\ writer = "dec"
    /\ \A k \in Decs(input) : ~TooFine(input[k].val_d)
    /\ file' = [file EXCEPT !.dec = DecGroup(input)]
    /\ writer' = "idle"
    /\ complete' = TRUE
    /\ UNCHANGED <<input, writes, reader, window, out, answer>>

(* Mutant of FailDec: the values are checked before the group is made. *)
FailDecEarly ==
    /\ writer = "dec"
    /\ \E k \in Decs(input) : TooFine(input[k].val_d)
    /\ writer' = "idle"
    /\ UNCHANGED <<file, input, complete, writes, reader, window, out, answer>>

(* A value with more than DEC_SCALE places raises after the group of the   *)
(* dec plane is made; the file is closed as it is.                         *)
FailDec ==
    /\ writer = "dec"
    /\ \E k \in Decs(input) : TooFine(input[k].val_d)
    /\ file' = [file EXCEPT !.dec = EmptyGroup]
    /\ writer' = "idle"
    /\ UNCHANGED <<input, complete, writes, reader, window, out, answer>>

-----------------------------------------------------------------------------
(* The reader *)

(* First index with a[i] >= key. *)
LowerBound(a, key) ==
    LET search[range \in (0 .. Len(a)) \X (0 .. Len(a))] ==
            LET lo == range[1]
                hi == range[2]
                mid == (lo + hi) \div 2
            IN  IF lo >= hi THEN lo
                ELSE IF a[mid + 1] < key THEN search[<<mid + 1, hi>>]
                ELSE search[<<lo, mid>>]
    IN  search[<<0, Len(a)>>]

(* Last index with a[i] <= key, or -1. *)
UpperBoundInclusive(a, key) ==
    LET search[range \in (0 .. Len(a)) \X (0 .. Len(a))] ==
            LET lo == range[1]
                hi == range[2]
                mid == (lo + hi) \div 2
            IN  IF lo >= hi THEN lo
                ELSE IF a[mid + 1] <= key THEN search[<<mid + 1, hi>>]
                ELSE search[<<lo, mid>>]
    IN  search[<<0, Len(a)>>] - 1

(* Arrays.binarySearch: any one index of each series id that occurs. *)
Hits(series, ids) ==
    {H \in SUBSET DOMAIN series :
        /\ {series[h] : h \in H} = ids \cap ToSet(series)
        /\ \A g, h \in H : series[g] = series[h] => g = h}

(* Mutant of Run: the hit alone. *)
HitOnly(series, hit) == {hit}

(* The run of equal series ids around a hit. *)
Run(series, hit) ==
    {k \in DOMAIN series :
        \A j \in Min({k, hit}) .. Max({k, hit}) : series[j] = series[hit]}

SelectedLanes(series, H) == UNION {Run(series, h) : h \in H}

EmitRow(p, i, t, val_i, val_d) ==
    [ts |-> p.ts[t], series |-> p.series_id[i],
     gpu |-> IF p.gpu_null[i] # 0 THEN NULL ELSE p.gpu[i],
     inst |-> IF p.inst_null[i] # 0 THEN NULL ELSE p.inst[i],
     val_i |-> val_i, val_d |-> val_d]

(* The present cells of the selected lanes and times. *)
Cells(p, win, lanes) ==
    LET t0 == IF win.tsLo = NULL THEN 0 ELSE LowerBound(p.ts, win.tsLo)
        t1 == IF win.tsHi = NULL THEN Len(p.ts) - 1
              ELSE UpperBoundInclusive(p.ts, win.tsHi)
    IN  {c \in lanes \X (t0 + 1 .. t1 + 1) : p.present[c[1]][c[2]] # 0}

LaneChoices(p, win) ==
    IF win.seriesIds = NULL THEN {DOMAIN p.series_id}
    ELSE {SelectedLanes(p.series_id, H) : H \in Hits(p.series_id, win.seriesIds)}

(* The rows a plane without an error may give: readGroup, dec = FALSE/TRUE. *)
ReadInts(p, win) ==
    IF p = NoGroup THEN {{}}
    ELSE {{EmitRow(p, c[1], c[2], p.values[c[1]][c[2]], NULL) :
              c \in Cells(p, win, lanes)} : lanes \in LaneChoices(p, win)}
ReadDecs(p, win) ==
    IF p = NoGroup THEN {{}}
    ELSE {{EmitRow(p, c[1], c[2], NULL, p.values[c[1]][c[2]] * Unit) :
              c \in Cells(p, win, lanes)} : lanes \in LaneChoices(p, win)}

Call(win) ==
    /\ reader = "idle" /\ writer = "idle" /\ window = NULL
    /\ window' = win
    /\ reader' = "open"
    /\ UNCHANGED <<file, writer, input, complete, writes, out, answer>>

Finish(a) ==
    /\ answer' = a
    /\ reader' = "idle"
    /\ out' = {}
    /\ UNCHANGED <<file, writer, input, complete, writes, window>>

(* The caller has its answer; the reader keeps nothing. *)
Taken ==
    /\ answer # NULL
    /\ answer' = NULL /\ window' = NULL
    /\ UNCHANGED <<file, writer, input, complete, writes, reader, out>>

(* File-level skips: another hour, or no time in common. *)
Skips(f, win) ==
    \/ win.epochHour # NULL /\ f.epoch_hour # win.epochHour
    \/ win.tsLo # NULL /\ win.tsLo > f.ts_max
    \/ win.tsHi # NULL /\ win.tsHi < f.ts_min

Open ==
    /\ reader = "open"
    /\ file # NoFile
    /\ ~Skips(file, window)
    /\ reader' = "int"
    /\ UNCHANGED <<file, writer, input, complete, writes, window, out, answer>>

Skip ==
    /\ reader = "open"
    /\ file # NoFile
    /\ Skips(file, window)
    /\ Finish({})

ReadInt ==
    /\ reader = "int"
    /\ out' \in ReadInts(file.int, window)
    /\ reader' = "dec"
    /\ UNCHANGED <<file, writer, input, complete, writes, window, answer>>

ReadDec ==
    /\ reader = "dec" /\ file.dec # EmptyGroup
    /\ \E rs \in ReadDecs(file.dec, window) : Finish(out \cup rs)

(* No file to open; dataset(): a group without its datasets is an error. *)
ReadFails ==
    /\ \/ reader = "open" /\ file = NoFile
       \/ reader = "dec" /\ file.dec = EmptyGroup
    /\ Finish(Failed)

-----------------------------------------------------------------------------
Init ==
    /\ file = NoFile
    /\ writer = "idle" /\ input = <<>> /\ complete = FALSE /\ writes = 0
    /\ reader = "idle" /\ window = NULL /\ out = {} /\ answer = NULL

Next ==
    \/ \E rs \in IF writes = 0 THEN Inputs ELSE Rewrites : Accept(rs)
    \/ Create \/ WriteInt \/ WriteDec \/ FailDec
    \/ \E win \in Windows : Call(win)
    \/ Open \/ Skip \/ ReadInt \/ ReadDec \/ ReadFails \/ Taken

Spec == Init /\ [][Next]_vars

-----------------------------------------------------------------------------
(* A file, whole or half written, is told from no file, and a plane from   *)
(* what stands for its absence.                                            *)
ASSUME MarksAssumption ==
    /\ NoGroup # EmptyGroup
    /\ \A rs \in Inputs \ {<<>>} :
          /\ IntPlane(rs) \notin {NoGroup, EmptyGroup}
          /\ DecPlane(rs) \notin {NoGroup, EmptyGroup}
          /\ \A int \in {NoGroup, IntGroup(rs)}, dec \in {NoGroup, EmptyGroup, DecGroup(rs)} :
                [[Header(rs) EXCEPT !.int = int] EXCEPT !.dec = dec] # NoFile

(* write_signal_hdf5 wants "exactly one of val_i / val_d non-None per row". *)
OneValue(rs) == \A k \in DOMAIN rs : (rs[k].val_i = NULL) # (rs[k].val_d = NULL)
WellFormed == \A rs \in Inputs : OneValue(rs)

(* The rows of a write, the later of two rows for one cell of a plane. *)
SameCell(r, s) ==
    /\ LaneKey(r) = LaneKey(s) /\ r.ts = s.ts
    /\ (r.val_i = NULL) = (s.val_i = NULL)
Stored(rs) ==
    {rs[k] : k \in {k \in DOMAIN rs :
        \A m \in DOMAIN rs : m > k => ~SameCell(rs[k], rs[m])}}

StoredInputs == {Stored(rs) : rs \in Inputs}

(* The rows a reader of the whole file would be given. *)
Readable(f) ==
    LET all == [tsLo |-> NULL, tsHi |-> NULL, seriesIds |-> NULL, epochHour |-> NULL]
    IN  UNION (ReadInts(f.int, all) \cup ReadDecs(f.dec, all))

(* A row lies in a window. *)
Matches(r, win) ==
    /\ win.epochHour \in {NULL, Hour(r)}
    /\ win.tsLo = NULL \/ win.tsLo <= r.ts
    /\ win.tsHi = NULL \/ r.ts <= win.tsHi
    /\ win.seriesIds = NULL \/ r.series \in win.seriesIds

Increasing(s) == \A i, j \in DOMAIN s : i < j => s[i] < s[j]
NonDecreasing(s) == \A i, j \in DOMAIN s : i < j => s[i] <= s[j]

PlaneOK(p) ==
    /\ Increasing(p.ts) /\ NonDecreasing(p.series_id)
    /\ \A v \in {p.gpu, p.gpu_null, p.inst, p.inst_null} :
          DOMAIN v = DOMAIN p.series_id
    /\ DOMAIN p.values = DOMAIN p.series_id
    /\ DOMAIN p.present = DOMAIN p.series_id
    /\ \A i \in DOMAIN p.values :
          DOMAIN p.values[i] = DOMAIN p.ts /\ DOMAIN p.present[i] = DOMAIN p.ts

(* Types, and the shape the layout states for a plane: ts sorted and       *)
(* unique, series_id sorted, everything else parallel to them.             *)
TypeOK ==
    /\ writer \in {"idle", "create", "int", "dec"}
    /\ input \in Inputs \cup {<<>>} /\ complete \in BOOLEAN
    /\ writes \in 0 .. MaxWrites
    /\ reader \in {"idle", "open", "int", "dec"} /\ window \in Windows \cup {NULL}
    /\ file # NoFile =>
          /\ file.int # NoGroup => PlaneOK(file.int)
          /\ file.dec \notin {NoGroup, EmptyGroup} => PlaneOK(file.dec)

(* Of a file whose write returned, a scan returns exactly the rows written *)
(* that lie in its window, every GPU's lane, every gap left out; of any    *)
(* other it may fail, but never returns some of the rows only.             *)
HourView == INSTANCE SignalHour WITH
    Contents <- StoredInputs,
    hour <- Stored(input),
    settled <- complete,
    asked <- window,
    None <- NULL
HourSpec == HourView!Spec

(* The attributes read_bounds hands to the Iceberg manifest enclose every  *)
(* row a reader can get, tightly; n_rows counts them when no two rows of   *)
(* the write shared a cell.                                                *)
BoundsMatchRows ==
    complete =>
        LET times == {r.ts : r \in Readable(file)}
            ids == {r.series : r \in Readable(file)}
        IN  /\ file.ts_min = Min(times) /\ file.ts_max = Max(times)
            /\ file.series_min = Min(ids) /\ file.series_max = Max(ids)
            /\ Cardinality(Readable(file)) <= file.n_rows
            /\ (\A i, j \in DOMAIN input : SameCell(input[i], input[j]) => i = j)
                 => Cardinality(Readable(file)) = file.n_rows

(* write_signal_hdf5 states "a row must carry exactly one of val_i /       *)
(* val_d": what it has accepted and written obeys it.                      *)
OneValuePerRow == complete => OneValue(input)
=============================================================================

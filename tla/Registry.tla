------------------------------ MODULE Registry ------------------------------
(***************************************************************************)
(* Registration of HDF5 files into a metadata warehouse                    *)
(* (register.register_root and metadata.MetadataProvider).                 *)
(*                                                                         *)
(* A registrar loads the pointer table twice to know what exists, lists    *)
(* and audits the data plane, loads the table a third time, merges its     *)
(* rows by fingerprint, writes the whole table back, and then the two      *)
(* semantic stubs.  Nothing locks the warehouse: any number of registrars  *)
(* may run, may stop between two steps, and any load may fail, which       *)
(* load_pointer_rows turns into "no rows".                                 *)
(***************************************************************************)
EXTENDS Catalog, Integers, Sequences, SequencesExt, FiniteSetsExt

CONSTANTS
    Registrars,    \* processes that call register_root
    Roots,         \* the dataset roots: a sequence of sorted uri sequences
    Structures,    \* what the audit's fingerprint tells apart
    Uuids,         \* values of a file's uuid attribute
    Calls,         \* the calls made: skip_audit and max_files (or NULL) of each
    Stores,        \* kinds of warehouse: "local" file system, "object" store
    Faults,        \* TRUE: registrars may stop and loads may fail
    MaxStarts,     \* bound: calls of register_root
    MaxChanges,    \* bound: files put into the data plane
    NoData,        \* no file at a uri
    Unreadable,    \* the structure of a file h5py cannot open
    NoTable,       \* the pointer table does not exist
    Corrupt        \* the pointer table is not a whole parquet file

Uris == UNION {ToSet(Roots[k]) : k \in DOMAIN Roots}

ASSUME RegistryAssumption ==
    /\ Unreadable \notin Structures /\ NULL \notin Structures \cup Nat
    /\ Roots \in Seq(Seq(Uris))
    /\ Calls \subseteq [skip : BOOLEAN, max : Nat \cup {NULL}]
    /\ Stores \subseteq {"local", "object"} /\ Faults \in BOOLEAN

(* A table without rows is still a table; no fingerprint is "anon<i>".     *)
ASSUME NamesAssumption ==
    /\ <<>> \notin {NoTable, Corrupt}
    /\ Structures \cap ({"anon"} \X Nat) = {}

VARIABLES
    data,          \* the data plane: Uris -> files
    store,         \* the kind of the warehouse
    table,         \* the pointer table, a function of the fingerprint
    catalog,       \* the descriptors catalog.ttl was emitted from
    pc,            \* per registrar: "idle", or the step it takes next
    args,          \* per registrar: skip_audit and max_files of the call
    existing,      \* per registrar: existing_fp and existing_uri
    descs,         \* per registrar: the descriptors discovered
    registered,    \* per registrar: result.n_registered
    merged,        \* per registrar: write_pointer_table's by_fp
    starts,        \* calls so far (bounded by MaxStarts)
    changes,       \* files put so far (bounded by MaxChanges)
    given,         \* auxiliary: fingerprints of all completed table writes
    handled,       \* auxiliary: uris of all completed table writes
    added,         \* auxiliary, per registrar: fingerprints new in merged
    stale,         \* auxiliary, per registrar: merged may miss rows, since
                   \* its load did not see the table that had been written, or
                   \* another write has completed
    lossy          \* auxiliary: a stale registrar has written the table

world == <<data, changes, store>>
locals == <<args, existing, descs, registered, merged, added>>
history == <<given, handled, stale, lossy>>
vars == <<world, table, catalog, pc, locals, starts, history>>

-----------------------------------------------------------------------------
(* The data plane *)

Structure(u) == data[u].structure

PutFile ==
    /\ changes < MaxChanges
    /\ changes' = changes + 1
    /\ \E u \in Uris, s \in Structures \cup {Unreadable}, id \in Uuids \cup {NULL} :
          data' = [data EXCEPT ![u] = [structure |-> s, uuid |-> id]]
    /\ UNCHANGED <<store, table, catalog, pc, locals, starts, history>>

(* One root's files, until max of them are found; max_files = 0 is no bound. *)
FilesOf(root, max) ==
    LET upto[i \in 0 .. Len(root)] ==
            IF i = 0 THEN <<>>
            ELSE LET found == upto[i - 1]
                 IN  IF data[root[i]] = NoData THEN found
                     ELSE IF max \notin {NULL, 0} /\ Len(found) >= max THEN found
                     ELSE Append(found, root[i])
    IN  upto[Len(root)]

(* The roots in turn; after each the search ends with max_files found. *)
Candidates(max) ==
    LET upto[k \in 0 .. Len(Roots)] ==
            IF k = 0 THEN <<>>
            ELSE LET found == upto[k - 1]
                 IN  IF max = NULL THEN found \o FilesOf(Roots[k], NULL)
                     ELSE IF k > 1 /\ Len(found) >= max THEN found
                     ELSE found \o FilesOf(Roots[k], max - Len(found))
    IN  upto[Len(Roots)]

(* The fingerprint is a hash of the file's tree of names, shapes and types.*)
Audited(u) ==
    [uri |-> u, fingerprint |-> Structure(u),
     uuid |-> IF data[u].uuid = NULL THEN Structure(u) ELSE data[u].uuid]
Stub(u) == [uri |-> u, fingerprint |-> NULL, uuid |-> NULL]

-----------------------------------------------------------------------------
(* The warehouse *)

Readable == table \notin {NoTable, Corrupt}

(* load_pointer_rows: a missing table and every exception are no rows. *)
Loads == (IF Readable THEN {table} ELSE {<<>>})
             \cup (IF Faults THEN {<<>>} ELSE {})

Fingerprints(rows) == DOMAIN rows
UrisOf(rows) == {rows[fp].uri : fp \in DOMAIN rows}

(* Mutants of MergeRows: the table is rebuilt from the new rows; every new *)
(* fingerprint is filed with the last row of the loop.                     *)
NewRowsOnly(rows, ds) ==
    LET new == {d.fingerprint : d \in ToSet(ds)} \ {NULL}
    IN  [fp \in new |-> ds[Max({k \in DOMAIN ds : ds[k].fingerprint = fp})]]
LastRowForAll(rows, ds) ==
    LET new == {d.fingerprint : d \in ToSet(ds)} \ {NULL}
    IN  [fp \in DOMAIN rows \cup new |->
            IF fp \in new THEN ds[Len(ds)] ELSE rows[fp]]

(* Rows without a fingerprint are dropped, later ones replace earlier. *)
MergeRows(rows, ds) ==
    LET new == {d.fingerprint : d \in ToSet(ds)} \ {NULL}
        last(fp) == Max({k \in DOMAIN ds : ds[k].fingerprint = fp})
    IN  [fp \in DOMAIN rows \cup new |->
            IF fp \in new THEN ds[last(fp)] ELSE rows[fp]]

(* Mutant of IsNew: a known uri is never new. *)
IsNewUri(d, seen) ==
    /\ d.fingerprint = NULL \/ d.fingerprint \notin seen.fps
    /\ d.uri \notin seen.uris

(* The uri decides only where there is no fingerprint. *)
IsNew(d, seen) ==
    /\ d.fingerprint = NULL \/ d.fingerprint \notin seen.fps
    /\ d.fingerprint # NULL \/ d.uri \notin seen.uris

-----------------------------------------------------------------------------
(* register_root *)

Goto(r, step) == pc' = [pc EXCEPT ![r] = step]

Start(r) ==
    /\ pc[r] = "idle" /\ starts < MaxStarts
    /\ starts' = starts + 1
    /\ \E call \in Calls, rows \in Loads :
          /\ args' = [args EXCEPT ![r] = call]
          /\ existing' = [existing EXCEPT ![r].fps = Fingerprints(rows)]
    /\ Goto(r, "uris")
    /\ UNCHANGED <<world, table, catalog, descs, registered, merged, added, history>>

LoadUris(r) ==
    /\ pc[r] = "uris"
    /\ \E rows \in Loads :
          existing' = [existing EXCEPT ![r].uris = UrisOf(rows)]
    /\ Goto(r, "discover")
    /\ UNCHANGED <<world, table, catalog, args, descs, registered, merged, added,
                   starts, history>>

(* The call returns, or ends otherwise: its locals are gone. *)
Leave(r) ==
    /\ Goto(r, "idle")
    /\ args' = [args EXCEPT ![r] = [skip |-> FALSE, max |-> NULL]]
    /\ existing' = [existing EXCEPT ![r] = [fps |-> {}, uris |-> {}]]
    /\ descs' = [descs EXCEPT ![r] = <<>>]
    /\ registered' = [registered EXCEPT ![r] = 0]
    /\ merged' = [merged EXCEPT ![r] = <<>>]
    /\ added' = [added EXCEPT ![r] = {}]
    /\ stale' = [stale EXCEPT ![r] = FALSE]
    /\ UNCHANGED <<world, catalog, starts, given, handled, lossy>>
Forget(r) == Leave(r) /\ UNCHANGED table

(* One candidate that cannot be audited fails the whole call. *)
DiscoverFails(r) ==
    /\ pc[r] = "discover" /\ ~args[r].skip
    /\ \E u \in ToSet(Candidates(args[r].max)) : Structure(u) = Unreadable
    /\ Forget(r)

Discover(r) ==
    /\ pc[r] = "discover"
    /\ LET found == Candidates(args[r].max)
           ds == [k \in DOMAIN found |->
                     IF args[r].skip THEN Stub(found[k]) ELSE Audited(found[k])]
       IN  /\ args[r].skip \/ \A u \in ToSet(found) : Structure(u) # Unreadable
           /\ descs' = [descs EXCEPT ![r] = ds]
           /\ registered' = [registered EXCEPT ![r] =
                  Cardinality({k \in DOMAIN ds : IsNew(ds[k], existing[r])})]
    /\ Goto(r, "load")
    /\ UNCHANGED <<world, table, catalog, args, existing, merged, added, starts,
                   history>>

LoadTable(r) ==
    /\ pc[r] = "load"
    /\ \E rows \in Loads :
          /\ merged' = [merged EXCEPT ![r] = MergeRows(rows, descs[r])]
          /\ added' = [added EXCEPT ![r] =
                 Fingerprints(merged'[r]) \ Fingerprints(rows)]
          /\ stale' = [stale EXCEPT ![r] =
                 IF table = NoTable THEN given # {} ELSE rows # table]
    /\ Goto(r, "put")
    /\ UNCHANGED <<world, table, catalog, args, existing, descs, registered, starts,
                   given, handled, lossy>>

(* A completed write: every other registrar past its load is now behind. *)
Written(r) ==
    /\ given' = given \cup Fingerprints(merged[r])
    /\ handled' = handled \cup {d.uri : d \in ToSet(descs[r])}
    /\ stale' = [q \in Registrars |->
                    stale[q] \/ (q # r /\ pc[q] \in {"put", "close"})]
    /\ lossy' = (lossy \/ stale[r])
    /\ Goto(r, "catalog")
    /\ UNCHANGED <<world, catalog, locals, starts>>

(* An object store replaces the object when the upload is complete. *)
Put(r) ==
    /\ pc[r] = "put" /\ store = "object"
    /\ table' = merged[r]
    /\ Written(r)

(* A local file is truncated first and whole again only when closed. *)
Truncate(r) ==
    /\ pc[r] = "put" /\ store = "local"
    /\ table' = Corrupt
    /\ Goto(r, "close")
    /\ UNCHANGED <<world, catalog, locals, starts, history>>

(* Two writers of one file may leave neither's bytes; what is written to a *)
(* file that another one removed is gone.                                  *)
Close(r) ==
    /\ pc[r] = "close"
    /\ \/ table # NoTable /\ table' = merged[r]
       \/ table # NoTable /\ table' = Corrupt
          /\ \E q \in Registrars \ {r} : pc[q] = "close"
       \/ table = NoTable /\ table' = NoTable
    /\ Written(r)

(* A write that raises: pyarrow removes the file it was writing.           *)
CloseFails(r) ==
    /\ Faults /\ pc[r] = "close"
    /\ table' = NoTable
    /\ Leave(r)

(* Mutant of WriteCatalog: the stub written before the pointer table. *)
WriteCatalogFirst(r) ==
    /\ pc[r] \in {"put", "catalog"} /\ descs[r] # <<>>
    /\ catalog' = descs[r]
    /\ Goto(r, "shapes")
    /\ UNCHANGED <<world, table, locals, starts, history>>

(* emit_semantic: the catalog is emitted from this call's descriptors. *)
WriteCatalog(r) ==
    /\ pc[r] = "catalog" /\ descs[r] # <<>>
    /\ catalog' = descs[r]
    /\ Goto(r, "shapes")
    /\ UNCHANGED <<world, table, locals, starts, history>>

(* After both stubs, or with emit_semantic = False or nothing to emit. *)
Return(r) == pc[r] \in {"catalog", "shapes"} /\ Forget(r)

(* The process dies; or a step raises and is reported in result.errors. *)
Stop(r) == Faults /\ pc[r] # "idle" /\ Forget(r)

-----------------------------------------------------------------------------
Init ==
    /\ data = [u \in Uris |-> NoData] /\ changes = 0
    /\ store \in Stores
    /\ table = NoTable /\ catalog = <<>>
    /\ pc = [r \in Registrars |-> "idle"]
    /\ args = [r \in Registrars |-> [skip |-> FALSE, max |-> NULL]]
    /\ existing = [r \in Registrars |-> [fps |-> {}, uris |-> {}]]
    /\ descs = [r \in Registrars |-> <<>>]
    /\ registered = [r \in Registrars |-> 0]
    /\ merged = [r \in Registrars |-> <<>>]
    /\ added = [r \in Registrars |-> {}]
    /\ starts = 0
    /\ given = {} /\ handled = {}
    /\ stale = [r \in Registrars |-> FALSE] /\ lossy = FALSE

Next ==
    \/ PutFile
    \/ \E r \in Registrars :
          \/ Start(r) \/ LoadUris(r) \/ DiscoverFails(r) \/ Discover(r)
          \/ LoadTable(r) \/ Put(r) \/ Truncate(r) \/ Close(r) \/ CloseFails(r)
          \/ WriteCatalog(r) \/ Return(r) \/ Stop(r)

Spec == Init /\ [][Next]_vars

-----------------------------------------------------------------------------
Descriptor ==
    [uri : Uris, fingerprint : Structures \cup {NULL},
     uuid : Structures \cup Uuids \cup {NULL}]
Steps == {"idle", "uris", "discover", "load", "put", "close", "catalog", "shapes"}

(* Types; every row of the table is filed under its own fingerprint. *)
TypeOK ==
    /\ pc \in [Registrars -> Steps]
    /\ \A r \in Registrars :
          /\ ToSet(descs[r]) \subseteq Descriptor
          /\ registered[r] \in 0 .. Len(descs[r])
          /\ added[r] \subseteq Fingerprints(merged[r])
    /\ Readable =>
          /\ Fingerprints(table) \subseteq Structures
          /\ \A fp \in Fingerprints(table) : table[fp].fingerprint = fp

(* "merge with existing by fingerprint": what a completed write has put    *)
(* into the pointer table stays there, unless a registrar has written a    *)
(* table it merged before another's write, or from a load that failed, or  *)
(* found the file broken or removed by a write that did not complete.      *)
KeptUnlessRaced ==
    ~lossy /\ Readable => given \subseteq Fingerprints(table)

(* The same without the exception: "merge with existing by fingerprint"    *)
(* and "load existing pointer table if present".                           *)
NothingLost == Readable => given \subseteq Fingerprints(table)

(* The pointer table is written before the catalog: the catalog never      *)
(* names a dataset the table has not got.                                  *)
CatalogBehindTable ==
    ~lossy /\ Readable =>
        {d.fingerprint : d \in ToSet(catalog)} \ {NULL} \subseteq Fingerprints(table)

(* No two descriptors of a call share a fingerprint. *)
DistinctFingerprints(ds) ==
    \A i, j \in DOMAIN ds :
        ds[i].fingerprint = ds[j].fingerprint /\ ds[i].fingerprint # NULL => i = j

(* n_registered, worked out from the first load, counts the fingerprints   *)
(* the call adds to the table it loads last, when no two candidates share  *)
(* one and no load in between saw anything else; on a second pass over the *)
(* same files it is 0.                                                     *)
CountsDistinctFingerprints ==
    \A r \in Registrars :
        /\ pc[r] = "catalog" /\ ~args[r].skip
        /\ existing[r].fps = Fingerprints(merged[r]) \ added[r]
        /\ DistinctFingerprints(descs[r])
        => registered[r] = Cardinality(added[r])

(* register_root states "Idempotent on fingerprint (and secondarily uri)": *)
(* without fingerprints, a uri an earlier call handled is not new again.   *)
IdempotentOnUri ==
    \A r \in Registrars :
        pc[r] = "load" /\ args[r].skip =>
            registered[r] <=
                Cardinality({k \in DOMAIN descs[r] : descs[r][k].uri \notin handled})

(* The catalog conforms to the shapes written beside it: a Dataset has one *)
(* identifier, a Distribution one downloadURL.                             *)
CatalogConforms == Conforms(Graph(catalog))

(* The same of files whose structures differ, or were not audited: their   *)
(* IRIs keep them apart.                                                   *)
CatalogConformsIfDistinct == DistinctFingerprints(catalog) => CatalogConforms
=============================================================================

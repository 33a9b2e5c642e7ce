---------------------------- MODULE Registry_proofs ----------------------------
(***************************************************************************)
(* What the registrars keep, for any number of them, any dataset and any   *)
(* sequence of steps: the pointer table loses nothing unless a registrar   *)
(* wrote from a stale load, the catalog stays behind the table, the count  *)
(* of a call is the number of fingerprints it adds, and the catalog of     *)
(* files that differ conforms to its shapes.                               *)
(***************************************************************************)
EXTENDS Registry, Lemmas

-----------------------------------------------------------------------------
(* The inductive invariant *)

Files == [structure : Structures \cup {Unreadable}, uuid : Uuids \cup {NULL}]

NewFps(ds) == {d.fingerprint : d \in ToSet(ds)} \ {NULL}

(* Rows of a pointer table, each under its own fingerprint. *)
IsRows(rows) ==
    /\ Fingerprints(rows) \subseteq Structures
    /\ \A fp \in Fingerprints(rows) : rows[fp].fingerprint = fp

(* Types of all variables. *)
VarTypes ==
    /\ data \in [Uris -> Files \cup {NoData}]
    /\ Readable => IsRows(table)
    /\ catalog \in Seq(Descriptor)
    /\ pc \in [Registrars -> Steps]
    /\ args \in [Registrars -> [skip : BOOLEAN, max : Nat \cup {NULL}]]
    /\ descs \in [Registrars -> Seq(Descriptor)]
    /\ stale \in [Registrars -> BOOLEAN] /\ lossy \in BOOLEAN
    /\ DOMAIN existing = Registrars /\ DOMAIN registered = Registrars
    /\ DOMAIN merged = Registrars /\ DOMAIN added = Registrars

(* What a registrar knows at each step of its call. *)
Counted(q) ==
    /\ registered[q] \in 0 .. Len(descs[q])
    /\ pc[q] \in {"load", "put", "close", "catalog", "shapes"} =>
          /\ registered[q] =
                Cardinality({k \in DOMAIN descs[q] : IsNew(descs[q][k], existing[q])})
          /\ ~args[q].skip => \A k \in DOMAIN descs[q] : descs[q][k].fingerprint # NULL
Merged(q) ==
    /\ IsRows(merged[q]) /\ added[q] \subseteq Fingerprints(merged[q])
    /\ pc[q] \in {"put", "close", "catalog", "shapes"} =>
          /\ NewFps(descs[q]) \subseteq Fingerprints(merged[q])
          /\ added[q] = NewFps(descs[q]) \ (Fingerprints(merged[q]) \ added[q])

(* What has been given stays with whoever writes the table next, unless    *)
(* its load is stale; the stubs come after the table.                      *)
Keeps(q) ==
    /\ pc[q] \in {"put", "close"} /\ ~stale[q] /\ ~lossy =>
          given \subseteq Fingerprints(merged[q])
    /\ pc[q] \in {"catalog", "shapes"} => NewFps(descs[q]) \subseteq given

Inv ==
    /\ VarTypes
    /\ \A q \in Registrars : Counted(q) /\ Merged(q) /\ Keeps(q)
    /\ KeptUnlessRaced
    /\ NewFps(catalog) \subseteq given

-----------------------------------------------------------------------------
(* Finding the candidates *)

(* The files there are. *)
Present == {u \in Uris : data[u] # NoData}

(* One root yields a sequence of files that exist. *)
LEMMA FilesOfPresent ==
    ASSUME NEW root \in Seq(Uris), NEW max
    PROVE  FilesOf(root, max) \in Seq(Present)
<1> DEFINE n == Len(root)
           S == Seq(Present)
           round(i, found) ==
               IF data[root[i]] = NoData THEN found
               ELSE IF max \notin {NULL, 0} /\ Len(found) >= max THEN found
               ELSE Append(found, root[i])
           body == [x \in (1 .. n) \X S |-> round(x[1], x[2])]
           values(f) == f = [i \in 0 .. n |-> IF i = 0 THEN <<>> ELSE round(i, f[i - 1])]
<1>1. n \in Nat /\ <<>> \in S
    OBVIOUS
<1>2. ASSUME NEW i \in 1 .. n, NEW found \in S PROVE round(i, found) \in S
    <2>1. root[i] \in Uris
        OBVIOUS
    <2>2. CASE data[root[i]] = NoData
        BY <2>2
    <2>3. CASE data[root[i]] # NoData
        <3>1. root[i] \in Present
            BY <2>1, <2>3 DEF Present
        <3> QED
            BY <3>1
    <2> QED
        BY <2>2, <2>3
<1>3. body \in [(1 .. n) \X S -> S]
    <2> HIDE DEF round, S, n
    <2> QED
        BY <1>2
<1>4. PICK g \in [0 .. n -> S] : Loop(n, <<>>, body, g)
    <2> HIDE DEF body, S, n
    <2> QED
        BY <1>1, <1>3, LoopExists
<1>5. values(g)
    <2>1. ASSUME NEW i \in 0 .. n, i # 0 PROVE body[<<i, g[i - 1]>>] = round(i, g[i - 1])
        <3>1. <<i, g[i - 1]>> \in (1 .. n) \X S
            BY <1>1, <1>4, <2>1
        <3> HIDE DEF round, S, n
        <3> QED
            BY <3>1
    <2>2. g = [i \in 0 .. n |-> IF i = 0 THEN <<>> ELSE body[<<i, g[i - 1]>>]]
        BY <1>4 DEF Loop
    <2> HIDE DEF round, S, n, body
    <2>3. [i \in 0 .. n |-> IF i = 0 THEN <<>> ELSE body[<<i, g[i - 1]>>]]
              = [i \in 0 .. n |-> IF i = 0 THEN <<>> ELSE round(i, g[i - 1])]
        BY <2>1
    <2> QED
        BY <2>2, <2>3
<1> DEFINE upto == CHOOSE f : values(f)
<1>6. values(upto)
    <2> HIDE DEF values
    <2> QED
        BY <1>5
<1>7. FilesOf(root, max) = upto[n]
    BY DEF FilesOf
<1>8. upto[0] = <<>> /\ \A i \in 1 .. n : upto[i] = round(i, upto[i - 1])
    <2> HIDE DEF round, upto, n
    <2> QED
        BY <1>1, <1>6
<1>9. upto[n] \in S
    <2> HIDE DEF upto, round, S, n
    <2>1. \A i \in 1 .. n : upto[i - 1] \in S => upto[i] \in S
        BY <1>2, <1>8
    <2>2. upto[0] \in S
        BY <1>1, <1>8
    <2> QED
        BY <1>1, <2>1, <2>2, LoopEnds
<1> QED
    BY <1>7, <1>9

(* So do all roots together. *)
LEMMA CandidatesPresent ==
    ASSUME NEW max
    PROVE  Candidates(max) \in Seq(Present)
<1> DEFINE n == Len(Roots)
           S == Seq(Present)
           round(k, found) ==
               IF max = NULL THEN found \o FilesOf(Roots[k], NULL)
               ELSE IF k > 1 /\ Len(found) >= max THEN found
               ELSE found \o FilesOf(Roots[k], max - Len(found))
           body == [x \in (1 .. n) \X S |-> round(x[1], x[2])]
           values(f) == f = [i \in 0 .. n |-> IF i = 0 THEN <<>> ELSE round(i, f[i - 1])]
<1>1. n \in Nat /\ <<>> \in S
    BY RegistryAssumption
<1>2. ASSUME NEW k \in 1 .. n, NEW found \in S PROVE round(k, found) \in S
    <2>1. Roots[k] \in Seq(Uris)
        BY RegistryAssumption
    <2>2. \A m : FilesOf(Roots[k], m) \in S
        BY <2>1, FilesOfPresent
    <2>3. \A s \in S : found \o s \in S
        OBVIOUS
    <2> HIDE DEF S
    <2> QED
        BY <2>2, <2>3
<1>3. body \in [(1 .. n) \X S -> S]
    <2> HIDE DEF round, S, n
    <2> QED
        BY <1>2
<1>4. PICK g \in [0 .. n -> S] : Loop(n, <<>>, body, g)
    <2> HIDE DEF body, S, n
    <2> QED
        BY <1>1, <1>3, LoopExists
<1>5. values(g)
    <2>1. ASSUME NEW i \in 0 .. n, i # 0 PROVE body[<<i, g[i - 1]>>] = round(i, g[i - 1])
        <3> HIDE DEF round, S, n
        <3>1. <<i, g[i - 1]>> \in (1 .. n) \X S
            BY <1>1, <1>4, <2>1
        <3> QED
            BY <3>1
    <2>2. g = [i \in 0 .. n |-> IF i = 0 THEN <<>> ELSE body[<<i, g[i - 1]>>]]
        BY <1>4 DEF Loop
    <2> HIDE DEF round, S, n, body
    <2>3. [i \in 0 .. n |-> IF i = 0 THEN <<>> ELSE body[<<i, g[i - 1]>>]]
              = [i \in 0 .. n |-> IF i = 0 THEN <<>> ELSE round(i, g[i - 1])]
        BY <2>1
    <2> QED
        BY <2>2, <2>3
<1> DEFINE upto == CHOOSE f : values(f)
<1>6. values(upto)
    <2> HIDE DEF values
    <2> QED
        BY <1>5
<1>7. Candidates(max) = upto[n]
    BY DEF Candidates
<1>8. upto[0] = <<>> /\ \A i \in 1 .. n : upto[i] = round(i, upto[i - 1])
    <2> HIDE DEF round, upto, n
    <2> QED
        BY <1>1, <1>6
<1>9. upto[n] \in S
    <2> HIDE DEF upto, round, S, n
    <2>1. \A i \in 1 .. n : upto[i - 1] \in S => upto[i] \in S
        BY <1>2, <1>8
    <2>2. upto[0] \in S
        BY <1>1, <1>8
    <2> QED
        BY <1>1, <2>1, <2>2, LoopEnds
<1> QED
    BY <1>7, <1>9

-----------------------------------------------------------------------------
(* Merging rows *)

(* Merging descriptors into rows gives rows, of the fingerprints of both. *)
LEMMA MergeGivesRows ==
    ASSUME NEW rows, IsRows(rows), NEW ds \in Seq(Descriptor)
    PROVE  /\ Fingerprints(MergeRows(rows, ds)) = Fingerprints(rows) \cup NewFps(ds)
           /\ IsRows(MergeRows(rows, ds))
<1> DEFINE last(fp) == Max({k \in DOMAIN ds : ds[k].fingerprint = fp})
<1>1. Fingerprints(MergeRows(rows, ds)) = Fingerprints(rows) \cup NewFps(ds)
    BY DEF MergeRows, Fingerprints, NewFps
<1>2. ASSUME NEW fp \in NewFps(ds)
      PROVE  fp \in Structures /\ ds[last(fp)].fingerprint = fp
    <2> DEFINE K == {k \in DOMAIN ds : ds[k].fingerprint = fp}
    <2>1. PICK k \in DOMAIN ds : ds[k].fingerprint = fp /\ fp # NULL
        BY DEF NewFps, ToSet
    <2>2. fp \in Structures
        <3>1. ds[k] \in Descriptor
            BY <2>1
        <3> QED
            BY <2>1, <3>1 DEF Descriptor
    <2>3. K \in SUBSET Nat /\ K # {} /\ Len(ds) \in Nat /\ \A m \in K : m <= Len(ds)
        BY <2>1
    <2>4. PICK m \in K : \A j \in K : j <= m
        BY <2>3, GreatestNat
    <2>5. \A j \in K : j \in Nat
        BY <2>3
    <2>6. \E x \in K : \A y \in K : x >= y
        BY <2>4, <2>5
    <2> HIDE DEF K
    <2>7. Max(K) \in K
        BY <2>6 DEF Max
    <2> USE DEF K
    <2> QED
        BY <2>2, <2>7
<1>3. ASSUME NEW fp \in Fingerprints(rows) \cup NewFps(ds)
      PROVE  fp \in Structures /\ MergeRows(rows, ds)[fp].fingerprint = fp
    <2>1. MergeRows(rows, ds)[fp] = IF fp \in NewFps(ds) THEN ds[last(fp)] ELSE rows[fp]
        BY DEF MergeRows, Fingerprints, NewFps
    <2> HIDE DEF last
    <2> QED
        BY <1>2, <2>1 DEF IsRows
<1> QED
    BY <1>1, <1>3 DEF IsRows

(* A load gives rows: the table's, or none. *)
LEMMA LoadGivesRows ==
    ASSUME VarTypes, NEW rows \in Loads
    PROVE  IsRows(rows) /\ (rows = table \/ rows = <<>>)
<1>1. IsRows(<<>>)
    BY DEF IsRows, Fingerprints
<1>2. rows = <<>> \/ (Readable /\ rows = table)
    BY DEF Loads
<1> QED
    BY <1>1, <1>2 DEF VarTypes

-----------------------------------------------------------------------------
(* The invariant holds *)

(* A registrar whose call is not touched knows what it knew. *)
LEMMA OthersKnow ==
    ASSUME NEW q, Counted(q), Merged(q), pc'[q] = pc[q], args'[q] = args[q],
           existing'[q] = existing[q], descs'[q] = descs[q],
           registered'[q] = registered[q], merged'[q] = merged[q],
           added'[q] = added[q]
    PROVE  Counted(q)' /\ Merged(q)'
<1>1. Counted(q)'
    BY DEF Counted, IsNew
<1>2. Merged(q)'
    BY DEF Merged, IsRows, Fingerprints, NewFps
<1> QED
    BY <1>1, <1>2

(* So does a registrar that goes on without touching its call. *)
LEMMA MovedKnows ==
    ASSUME NEW q, Counted(q), Merged(q), args'[q] = args[q],
           existing'[q] = existing[q], descs'[q] = descs[q],
           registered'[q] = registered[q], merged'[q] = merged[q],
           added'[q] = added[q],
           pc[q] \in {"put", "close", "catalog", "shapes"}
    PROVE  Counted(q)' /\ Merged(q)'
<1>1. Counted(q)'
    BY DEF Counted, IsNew
<1>2. Merged(q)'
    BY DEF Merged, IsRows, Fingerprints, NewFps
<1> QED
    BY <1>1, <1>2

(* An idle registrar knows nothing. *)
LEMMA IdleKnows ==
    ASSUME NEW q, pc[q] = "idle", descs[q] = <<>>, registered[q] = 0,
           merged[q] = <<>>, added[q] = {}
    PROVE  Counted(q) /\ Merged(q) /\ Keeps(q)
<1>1. DOMAIN <<>> = {} /\ Len(<<>>) = 0 /\ 0 \in 0 .. 0
    OBVIOUS
<1> QED
    BY <1>1 DEF Counted, Merged, Keeps, IsRows, Fingerprints

LEMMA InitInv == Init => Inv
<1> SUFFICES ASSUME Init PROVE Inv
    OBVIOUS
<1> USE DEF Init
<1>1. VarTypes
    <2>1. catalog \in Seq(Descriptor) /\ \A q \in Registrars : descs[q] \in Seq(Descriptor)
        OBVIOUS
    <2>2. args \in [Registrars -> [skip : BOOLEAN, max : Nat \cup {NULL}]]
        OBVIOUS
    <2>3. ~Readable
        BY DEF Readable
    <2>4. pc \in [Registrars -> Steps]
        BY DEF Steps
    <2> QED
        BY <2>1, <2>2, <2>3, <2>4 DEF VarTypes
<1>2. \A q \in Registrars : Counted(q) /\ Merged(q) /\ Keeps(q)
    BY IdleKnows
<1>3. KeptUnlessRaced
    BY DEF KeptUnlessRaced
<1>4. NewFps(catalog) \subseteq given
    BY DEF NewFps, ToSet
<1> QED
    BY <1>1, <1>2, <1>3, <1>4 DEF Inv

(* The calls of the others stay as they are. *)
Others(r) ==
    \A q \in Registrars \ {r} :
        /\ pc'[q] = pc[q] /\ args'[q] = args[q] /\ existing'[q] = existing[q]
        /\ descs'[q] = descs[q] /\ registered'[q] = registered[q]
        /\ merged'[q] = merged[q] /\ added'[q] = added[q]

(* What a step of registrar r must show to keep the invariant. *)
LEMMA StepOf ==
    ASSUME Inv, NEW r \in Registrars, VarTypes', Others(r),
           Counted(r)', Merged(r)', \A q \in Registrars : Keeps(q)',
           KeptUnlessRaced', (NewFps(catalog) \subseteq given)'
    PROVE  Inv'
<1>1. ASSUME NEW q \in Registrars PROVE Counted(q)' /\ Merged(q)'
    <2>1. CASE q = r
        BY <2>1
    <2>2. CASE q # r
        BY <2>2, OthersKnow DEF Inv, Others
    <2> QED
        BY <2>1, <2>2
<1> QED
    BY <1>1 DEF Inv

(* A call that ends leaves an idle registrar. *)
LEMMA LeaveInv ==
    ASSUME Inv, NEW r \in Registrars, Leave(r), (Readable => IsRows(table))',
           KeptUnlessRaced'
    PROVE  Inv'
<1> USE DEF Leave, Goto
<1>1. VarTypes'
    <2>1. descs' \in [Registrars -> Seq(Descriptor)]
        <3>1. descs \in [Registrars -> Seq(Descriptor)] /\ <<>> \in Seq(Descriptor)
            BY DEF Inv, VarTypes
        <3> QED
            BY <3>1
    <2>2. args' \in [Registrars -> [skip : BOOLEAN, max : Nat \cup {NULL}]]
        <3>1. [skip |-> FALSE, max |-> NULL] \in [skip : BOOLEAN, max : Nat \cup {NULL}]
            OBVIOUS
        <3> QED
            BY <3>1 DEF Inv, VarTypes
    <2>3. pc' \in [Registrars -> Steps]
        BY DEF Inv, VarTypes, Steps
    <2>4. stale' \in [Registrars -> BOOLEAN] /\ lossy' \in BOOLEAN
        BY DEF Inv, VarTypes
    <2>5. data' = data /\ catalog' = catalog
        BY DEF world
    <2> QED
        BY <2>1, <2>2, <2>3, <2>4, <2>5 DEF Inv, VarTypes
<1>2. Others(r)
    BY DEF Inv, VarTypes, Others
<1>3. pc'[r] = "idle" /\ descs'[r] = <<>> /\ registered'[r] = 0 /\ merged'[r] = <<>> /\ added'[r] = {}
    BY DEF Inv, VarTypes
<1>4. Counted(r)' /\ Merged(r)' /\ Keeps(r)'
    <2>1. DOMAIN <<>> = {} /\ Len(<<>>) = 0 /\ 0 \in 0 .. 0
        OBVIOUS
    <2> QED
        BY <1>3, <2>1 DEF Counted, Merged, Keeps, IsRows, Fingerprints
<1>5. ASSUME NEW q \in Registrars, q # r PROVE Keeps(q)'
    <2>1. stale'[q] = stale[q] /\ lossy' = lossy /\ given' = given
        BY <1>5 DEF Inv, VarTypes
    <2>2. Keeps(q)
        BY DEF Inv
    <2> QED
        BY <1>2, <1>5, <2>1, <2>2 DEF Others, Keeps, Fingerprints, NewFps
<1>6. (NewFps(catalog) \subseteq given)'
    BY DEF Inv, NewFps
<1> QED
    BY <1>1, <1>2, <1>4, <1>5, <1>6, StepOf

(* A completed write: the table holds what was given and what is merged, unless stale. *)
LEMMA WrittenInv ==
    ASSUME Inv, NEW r \in Registrars, pc[r] \in {"put", "close"}, Written(r),
           table' \in {merged[r], Corrupt, NoTable}
    PROVE  Inv'
<1> USE DEF Written, Goto, world, locals
<1>1. /\ IsRows(merged[r]) /\ NewFps(descs[r]) \subseteq Fingerprints(merged[r])
      /\ Merged(r) /\ Counted(r) /\ Keeps(r)
    BY DEF Inv, Merged
<1>2. VarTypes'
    <2>1. (Readable => IsRows(table))'
        BY <1>1 DEF Readable, IsRows, Fingerprints
    <2>2. pc' \in [Registrars -> Steps]
        BY DEF Inv, VarTypes, Steps
    <2>3. stale' \in [Registrars -> BOOLEAN] /\ lossy' \in BOOLEAN
        BY Zenon DEF Inv, VarTypes
    <2> QED
        BY <2>1, <2>2, <2>3 DEF Inv, VarTypes
<1>3. Others(r)
    BY DEF Inv, VarTypes, Others
<1>4. Counted(r)' /\ Merged(r)'
    BY <1>1, MovedKnows
<1>5. Keeps(r)'
    <2>1. pc'[r] = "catalog"
        BY DEF Inv, VarTypes
    <2> QED
        BY <1>1, <2>1 DEF Keeps, NewFps
<1>6. ASSUME NEW q \in Registrars, q # r PROVE Keeps(q)'
    <2>1. Keeps(q)
        BY DEF Inv
    <2>2. pc[q] \in {"put", "close"} => stale'[q]
        BY <1>6
    <2> QED
        BY <1>3, <1>6, <2>1, <2>2 DEF Others, Keeps, NewFps
<1>7. KeptUnlessRaced'
    <2> SUFFICES ASSUME ~lossy', Readable' PROVE given' \subseteq DOMAIN table'
        BY DEF KeptUnlessRaced, Fingerprints
    <2>1. ~lossy /\ ~stale[r]
        OBVIOUS
    <2>2. given \subseteq Fingerprints(merged[r])
        BY <1>1, <2>1 DEF Keeps
    <2>3. table' = merged[r]
        BY DEF Readable
    <2> QED
        BY <2>2, <2>3 DEF Fingerprints
<1>8. (NewFps(catalog) \subseteq given)'
    BY DEF Inv, NewFps
<1> QED
    BY <1>2, <1>3, <1>4, <1>5, <1>6, <1>7, <1>8, StepOf

(* Putting a file. *)
LEMMA PutFileInv == ASSUME Inv, PutFile PROVE Inv'
<1> USE DEF PutFile, locals, history
<1>1. data' \in [Uris -> Files \cup {NoData}]
    <2>1. PICK u \in Uris, s \in Structures \cup {Unreadable}, id \in Uuids \cup {NULL} :
              data' = [data EXCEPT ![u] = [structure |-> s, uuid |-> id]]
        OBVIOUS
    <2>2. [structure |-> s, uuid |-> id] \in Files
        BY DEF Files
    <2> QED
        BY <2>1, <2>2 DEF Inv, VarTypes
<1>2. VarTypes'
    BY <1>1 DEF Inv, VarTypes, Readable, IsRows, Fingerprints
<1>3. ASSUME NEW q \in Registrars PROVE Counted(q)' /\ Merged(q)' /\ Keeps(q)'
    <2>1. Counted(q)' /\ Merged(q)'
        BY OthersKnow DEF Inv
    <2> QED
        BY <2>1 DEF Inv, Keeps, NewFps, Fingerprints
<1> QED
    BY <1>2, <1>3 DEF Inv, KeptUnlessRaced, Readable, NewFps, Fingerprints

(* Starting a call, and the second load: nothing is known yet. *)
LEMMA LoadsInv ==
    ASSUME Inv, NEW r \in Registrars, Start(r) \/ LoadUris(r) PROVE Inv'
<1> USE DEF Start, LoadUris, Goto, world, history
<1>1. VarTypes'
    <2>1. args' \in [Registrars -> [skip : BOOLEAN, max : Nat \cup {NULL}]]
        <3>1. args \in [Registrars -> [skip : BOOLEAN, max : Nat \cup {NULL}]]
            BY DEF Inv, VarTypes
        <3>2. args' = args \/ \E call \in Calls : args' = [args EXCEPT ![r] = call]
            OBVIOUS
        <3>3. \A call \in Calls : call \in [skip : BOOLEAN, max : Nat \cup {NULL}]
            BY RegistryAssumption
        <3> QED
            BY <3>1, <3>2, <3>3
    <2>2. pc' \in [Registrars -> Steps]
        BY DEF Inv, VarTypes, Steps
    <2>3. DOMAIN existing' = Registrars
        BY DEF Inv, VarTypes
    <2> QED
        BY <2>1, <2>2, <2>3 DEF Inv, VarTypes, Readable, IsRows, Fingerprints
<1>2. Others(r)
    BY DEF Inv, VarTypes, Others
<1>3. pc'[r] \in {"uris", "discover"}
    BY DEF Inv, VarTypes
<1>4. Counted(r)' /\ Merged(r)'
    BY <1>3 DEF Inv, Counted, Merged, IsRows, Fingerprints
<1>5. \A q \in Registrars : Keeps(q)'
    BY <1>2, <1>3 DEF Inv, Keeps, Others, NewFps, Fingerprints
<1> QED
    BY <1>1, <1>2, <1>4, <1>5, StepOf DEF Inv, KeptUnlessRaced, Readable, NewFps, Fingerprints

(* Discovery: the descriptors have their types, and are counted. *)
LEMMA DiscoverInv ==
    ASSUME Inv, NEW r \in Registrars, Discover(r) PROVE Inv'
<1> USE DEF Goto, world, history
<1> DEFINE found == Candidates(args[r].max)
           ds == [k \in DOMAIN found |->
                     IF args[r].skip THEN Stub(found[k]) ELSE Audited(found[k])]
           new == {k \in DOMAIN ds : IsNew(ds[k], existing[r])}
<1>1. /\ pc[r] = "discover" /\ pc' = [pc EXCEPT ![r] = "load"]
      /\ descs' = [descs EXCEPT ![r] = ds]
      /\ registered' = [registered EXCEPT ![r] = Cardinality(new)]
      /\ args[r].skip \/ \A u \in ToSet(found) : Structure(u) # Unreadable
      /\ UNCHANGED <<data, table, catalog, args, existing, merged, added, stale,
                     lossy, given>>
    BY DEF Discover
<1>2. found \in Seq(Present)
    <2>1. \A max : Candidates(max) \in Seq(Present)
        BY CandidatesPresent
    <2> QED
        BY <2>1
<1> HIDE DEF found
<1>3. ASSUME NEW k \in DOMAIN found
      PROVE  ds[k] \in Descriptor /\ (~args[r].skip => ds[k].fingerprint # NULL)
    <2>1. found[k] \in Present /\ found[k] \in ToSet(found)
        BY <1>2 DEF ToSet
    <2>2. found[k] \in Uris /\ data[found[k]] \in Files
        BY <2>1 DEF Inv, VarTypes, Present
    <2>3. CASE args[r].skip
        <3>1. ds[k] = [uri |-> found[k], fingerprint |-> NULL, uuid |-> NULL]
            BY <2>3 DEF Stub
        <3> QED
            BY <2>2, <2>3, <3>1 DEF Descriptor
    <2>4. CASE ~args[r].skip
        <3>1. data[found[k]].structure \in Structures /\ data[found[k]].uuid \in Uuids \cup {NULL}
            BY <1>1, <2>1, <2>2, <2>4 DEF Files, Structure
        <3>2. data[found[k]].structure # NULL
            BY <3>1, RegistryAssumption
        <3>3. ds[k] = Audited(found[k])
            BY <2>4
        <3>4. Audited(found[k]) \in Descriptor /\ Audited(found[k]).fingerprint # NULL
            BY <2>2, <3>1, <3>2 DEF Audited, Structure, Descriptor
        <3> QED
            BY <3>3, <3>4
    <2> QED
        BY <2>3, <2>4
<1>4. ds \in Seq(Descriptor) /\ Len(ds) \in Nat /\ DOMAIN ds = 1 .. Len(ds)
    <2>1. Len(found) \in Nat /\ DOMAIN found = 1 .. Len(found)
        BY <1>2
    <2>2. ds \in [1 .. Len(found) -> Descriptor]
        BY <1>3, <2>1
    <2> HIDE DEF ds
    <2>3. ds \in Seq(Descriptor)
        BY <2>1, <2>2
    <2> QED
        BY <2>3
<1>5. \A k \in DOMAIN ds : ~args[r].skip => ds[k].fingerprint # NULL
    BY <1>3
<1> HIDE DEF ds
<1>6. Cardinality(new) \in 0 .. Len(ds)
    <2>1. new \in SUBSET (1 .. Len(ds))
        BY <1>4
    <2>2. IsFiniteSet(1 .. Len(ds)) /\ Cardinality(1 .. Len(ds)) = Len(ds)
        <3>1. /\ IsFiniteSet(1 .. Len(ds))
              /\ Cardinality(1 .. Len(ds)) = IF 1 > Len(ds) THEN 0 ELSE Len(ds) - 1 + 1
            BY <1>4, FS_Interval
        <3> QED
            BY <1>4, <3>1
    <2> HIDE DEF new
    <2>3. IsFiniteSet(new) /\ Cardinality(new) <= Len(ds)
        BY <2>1, <2>2, FS_Subset
    <2>4. Cardinality(new) \in Nat
        BY <2>3, FS_CardinalityType
    <2> QED
        BY <1>4, <2>3, <2>4
<1>7. VarTypes'
    <2>1. descs' \in [Registrars -> Seq(Descriptor)]
        BY <1>1, <1>4 DEF Inv, VarTypes
    <2>2. pc' \in [Registrars -> Steps]
        BY <1>1 DEF Inv, VarTypes, Steps
    <2>3. DOMAIN registered' = Registrars
        BY <1>1 DEF Inv, VarTypes
    <2> QED
        BY <1>1, <2>1, <2>2, <2>3 DEF Inv, VarTypes, Readable, IsRows, Fingerprints
<1>8. Others(r)
    BY <1>1 DEF Inv, VarTypes, Others
<1>9. pc'[r] = "load" /\ descs'[r] = ds /\ registered'[r] = Cardinality(new)
    BY <1>1 DEF Inv, VarTypes
<1>10. Counted(r)'
    <2>1. Cardinality(new) =
              Cardinality({k \in DOMAIN descs'[r] : IsNew(descs'[r][k], existing'[r])})
        BY <1>1, <1>9
    <2>2. registered'[r] \in 0 .. Len(descs'[r])
        BY <1>6, <1>9
    <2>3. ~args'[r].skip => \A k \in DOMAIN descs'[r] : descs'[r][k].fingerprint # NULL
        BY <1>1, <1>5, <1>9
    <2> HIDE DEF new
    <2> QED
        BY <1>9, <2>1, <2>2, <2>3 DEF Counted, IsNew
<1>11. Merged(r)'
    BY <1>1, <1>9 DEF Inv, Merged, IsRows, Fingerprints
<1>12. \A q \in Registrars : Keeps(q)'
    BY <1>1, <1>8, <1>9 DEF Inv, Keeps, Others, NewFps, Fingerprints
<1>13. KeptUnlessRaced' /\ (NewFps(catalog) \subseteq given)'
    BY <1>1 DEF Inv, KeptUnlessRaced, Readable, NewFps, Fingerprints
<1> QED
    BY <1>7, <1>8, <1>10, <1>11, <1>12, <1>13, StepOf

(* The third load: what was given is merged, unless the load is stale. *)
LEMMA LoadTableInv ==
    ASSUME Inv, NEW r \in Registrars, LoadTable(r) PROVE Inv'
<1> USE DEF Goto, world
<1>1. PICK rows \in Loads :
          /\ merged' = [merged EXCEPT ![r] = MergeRows(rows, descs[r])]
          /\ added' = [added EXCEPT ![r] = Fingerprints(merged'[r]) \ Fingerprints(rows)]
          /\ stale' = [stale EXCEPT ![r] =
                 IF table = NoTable THEN given # {} ELSE rows # table]
    BY DEF LoadTable
<1>2. /\ pc[r] = "load" /\ pc' = [pc EXCEPT ![r] = "put"]
      /\ UNCHANGED <<data, table, catalog, args, existing, descs, registered, given, lossy>>
    BY DEF LoadTable
<1>3. IsRows(rows) /\ (rows = table \/ rows = <<>>)
    BY LoadGivesRows DEF Inv
<1>4. descs[r] \in Seq(Descriptor)
    BY DEF Inv, VarTypes
<1>5. /\ IsRows(MergeRows(rows, descs[r]))
      /\ Fingerprints(MergeRows(rows, descs[r])) = Fingerprints(rows) \cup NewFps(descs[r])
    BY <1>3, <1>4, MergeGivesRows
<1>6. /\ merged'[r] = MergeRows(rows, descs[r])
      /\ added'[r] = Fingerprints(merged'[r]) \ Fingerprints(rows)
      /\ stale'[r] = IF table = NoTable THEN given # {} ELSE rows # table
      /\ pc'[r] = "put"
    BY <1>1, <1>2 DEF Inv, VarTypes
<1>7. Fingerprints(merged'[r]) = Fingerprints(rows) \cup NewFps(descs[r])
    BY <1>5, <1>6
<1>8. VarTypes'
    <2>1. pc' \in [Registrars -> Steps]
        BY <1>2 DEF Inv, VarTypes, Steps
    <2>2. stale' \in [Registrars -> BOOLEAN]
        BY <1>1 DEF Inv, VarTypes
    <2>3. DOMAIN merged' = Registrars /\ DOMAIN added' = Registrars
        BY <1>1 DEF Inv, VarTypes
    <2> QED
        BY <1>2, <2>1, <2>2, <2>3 DEF Inv, VarTypes, Readable, IsRows, Fingerprints
<1>9. Others(r)
    BY <1>1, <1>2 DEF Inv, VarTypes, Others
<1>10. Counted(r)'
    <2>1. Counted(r)
        BY DEF Inv
    <2> QED
        BY <1>2, <2>1 DEF Counted, IsNew
<1>11. Merged(r)'
    <2>1. IsRows(merged[r])' /\ NewFps(descs[r])' = NewFps(descs[r])
        BY <1>2, <1>5, <1>6 DEF IsRows, Fingerprints, NewFps
    <2>2. NewFps(descs[r]) \subseteq Fingerprints(merged'[r])
        BY <1>7
    <2>3. Fingerprints(merged'[r]) \ added'[r] = Fingerprints(rows)
        BY <1>6, <1>7
    <2>4. added'[r] = NewFps(descs[r]) \ Fingerprints(rows)
        BY <1>6, <1>7
    <2>5. Fingerprints(merged[r])' = Fingerprints(merged'[r])
        BY DEF Fingerprints
    <2> QED
        BY <2>1, <2>2, <2>3, <2>4, <2>5 DEF Merged
<1>12. Keeps(r)'
    <2>1. ASSUME ~stale'[r], ~lossy' PROVE given \subseteq Fingerprints(rows)
        <3>1. CASE table = NoTable
            BY <1>6, <2>1, <3>1
        <3>2. CASE table # NoTable
            <4>1. rows = table
                BY <1>6, <2>1, <3>2
            <4>2. table # Corrupt
                BY <1>3, <4>1, NamesAssumption DEF Loads, Readable
            <4>3. Readable /\ ~lossy
                BY <1>2, <2>1, <3>2, <4>2 DEF Readable
            <4> QED
                BY <4>1, <4>3 DEF Inv, KeptUnlessRaced
        <3> QED
            BY <3>1, <3>2
    <2>2. ~stale'[r] /\ ~lossy' => given' \subseteq Fingerprints(merged'[r])
        BY <1>2, <1>7, <2>1
    <2>3. Fingerprints(merged[r])' = Fingerprints(merged'[r])
        BY DEF Fingerprints
    <2> QED
        BY <1>6, <2>2, <2>3 DEF Keeps
<1>13. ASSUME NEW q \in Registrars, q # r PROVE Keeps(q)'
    <2>1. stale'[q] = stale[q]
        BY <1>1, <1>13 DEF Inv, VarTypes
    <2>2. Keeps(q)
        BY DEF Inv
    <2> QED
        BY <1>2, <1>9, <1>13, <2>1, <2>2 DEF Others, Keeps, NewFps, Fingerprints
<1>14. KeptUnlessRaced' /\ (NewFps(catalog) \subseteq given)'
    BY <1>2 DEF Inv, KeptUnlessRaced, Readable, NewFps, Fingerprints
<1> QED
    BY <1>8, <1>9, <1>10, <1>11, <1>12, <1>13, <1>14, StepOf

(* Truncating the local file: it is not readable, nothing else is known. *)
LEMMA TruncateInv ==
    ASSUME Inv, NEW r \in Registrars, Truncate(r) PROVE Inv'
<1> USE DEF Truncate, Goto, world, locals, history
<1>1. ~Readable'
    BY DEF Readable
<1>2. VarTypes'
    <2>1. pc' \in [Registrars -> Steps]
        BY DEF Inv, VarTypes, Steps
    <2> QED
        BY <1>1, <2>1 DEF Inv, VarTypes
<1>3. Others(r) /\ pc'[r] = "close"
    BY DEF Inv, VarTypes, Others
<1>4. Counted(r)' /\ Merged(r)'
    BY MovedKnows DEF Inv
<1>5. \A q \in Registrars : Keeps(q)'
    BY <1>3 DEF Inv, Keeps, Others, NewFps, Fingerprints
<1>6. KeptUnlessRaced' /\ (NewFps(catalog) \subseteq given)'
    BY <1>1 DEF Inv, KeptUnlessRaced, NewFps
<1> QED
    BY <1>2, <1>3, <1>4, <1>5, <1>6, StepOf

(* The stub: emitted from descriptors whose table has been written. *)
LEMMA WriteCatalogInv ==
    ASSUME Inv, NEW r \in Registrars, WriteCatalog(r) PROVE Inv'
<1> USE DEF WriteCatalog, Goto, world, locals, history
<1>1. VarTypes'
    <2>1. pc' \in [Registrars -> Steps]
        BY DEF Inv, VarTypes, Steps
    <2>2. catalog' \in Seq(Descriptor)
        BY DEF Inv, VarTypes
    <2> QED
        BY <2>1, <2>2 DEF Inv, VarTypes, Readable, IsRows, Fingerprints
<1>2. Others(r) /\ pc'[r] = "shapes"
    BY DEF Inv, VarTypes, Others
<1>3. Counted(r)' /\ Merged(r)'
    BY MovedKnows DEF Inv
<1>4. \A q \in Registrars : Keeps(q)'
    BY <1>2 DEF Inv, Keeps, Others, NewFps, Fingerprints
<1>5. KeptUnlessRaced'
    BY DEF Inv, KeptUnlessRaced, Readable, Fingerprints
<1>6. (NewFps(catalog) \subseteq given)'
    <2>1. NewFps(descs[r]) \subseteq given
        BY DEF Inv, Keeps
    <2> QED
        BY <2>1 DEF NewFps
<1> QED
    BY <1>1, <1>2, <1>3, <1>4, <1>5, <1>6, StepOf

(* A call that ends and leaves the table alone. *)
LEMMA ForgetInv ==
    ASSUME Inv, NEW r \in Registrars, Forget(r) PROVE Inv'
<1>1. Leave(r) /\ table' = table
    BY DEF Forget
<1>2. (Readable => IsRows(table))'
    BY <1>1 DEF Inv, VarTypes, Readable, IsRows, Fingerprints
<1>3. KeptUnlessRaced'
    BY <1>1 DEF Inv, Leave, KeptUnlessRaced, Readable, Fingerprints
<1> QED
    BY <1>1, <1>2, <1>3, LeaveInv

LEMMA NextInv == Inv /\ [Next]_vars => Inv'
<1> SUFFICES ASSUME Inv, [Next]_vars PROVE Inv'
    OBVIOUS
<1>1. CASE PutFile
    BY <1>1, PutFileInv
<1>2. ASSUME NEW r \in Registrars, Start(r) \/ LoadUris(r) PROVE Inv'
    BY <1>2, LoadsInv
<1>3. ASSUME NEW r \in Registrars, DiscoverFails(r) \/ Return(r) \/ Stop(r) PROVE Inv'
    BY <1>3, ForgetInv DEF DiscoverFails, Return, Stop
<1>4. ASSUME NEW r \in Registrars, Discover(r) PROVE Inv'
    BY <1>4, DiscoverInv
<1>5. ASSUME NEW r \in Registrars, LoadTable(r) PROVE Inv'
    BY <1>5, LoadTableInv
<1>6. ASSUME NEW r \in Registrars, Put(r) \/ Close(r) PROVE Inv'
    BY <1>6, WrittenInv DEF Put, Close
<1>7. ASSUME NEW r \in Registrars, Truncate(r) PROVE Inv'
    BY <1>7, TruncateInv
<1>8. ASSUME NEW r \in Registrars, CloseFails(r) PROVE Inv'
    <2>1. Leave(r) /\ ~Readable'
        BY <1>8 DEF CloseFails, Readable
    <2>2. KeptUnlessRaced'
        BY <2>1 DEF KeptUnlessRaced
    <2> QED
        BY <2>1, <2>2, LeaveInv
<1>9. ASSUME NEW r \in Registrars, WriteCatalog(r) PROVE Inv'
    BY <1>9, WriteCatalogInv
<1>10. CASE UNCHANGED vars
    <2> USE <1>10 DEF vars, world, locals, history
    <2>1. VarTypes'
        BY DEF Inv, VarTypes, Readable, IsRows, Fingerprints
    <2>2. ASSUME NEW q \in Registrars PROVE Counted(q)' /\ Merged(q)' /\ Keeps(q)'
        <3>1. Counted(q)' /\ Merged(q)'
            BY OthersKnow DEF Inv
        <3> QED
            BY <3>1 DEF Inv, Keeps, NewFps, Fingerprints
    <2> QED
        BY <2>1, <2>2 DEF Inv, KeptUnlessRaced, Readable, NewFps, Fingerprints
<1> QED
    BY <1>1, <1>2, <1>3, <1>4, <1>5, <1>6, <1>7, <1>8, <1>9, <1>10 DEF Next

LEMMA Invariance == Spec => []Inv
<1> QED
    BY InitInv, NextInv, PTL DEF Spec

-----------------------------------------------------------------------------
(* The properties *)

(* Types: the rows of the pointer table are filed under their own          *)
(* fingerprints, whatever was merged into what (write_pointer_table).      *)
THEOREM TypeCorrect == Spec => []TypeOK
<1>1. Inv => TypeOK
    <2> SUFFICES ASSUME Inv PROVE TypeOK
        OBVIOUS
    <2>1. ASSUME NEW q \in Registrars PROVE ToSet(descs[q]) \subseteq Descriptor
        <3>1. descs[q] \in Seq(Descriptor)
            BY DEF Inv, VarTypes
        <3> QED
            BY <3>1 DEF ToSet
    <2> QED
        BY <2>1 DEF TypeOK, Inv, VarTypes, Counted, Merged, IsRows
<1> QED
    BY <1>1, Invariance, PTL

(* Unless a registrar wrote from a stale load, what any completed write    *)
(* has put into the pointer table is still there whenever it can be read:  *)
(* "merge with existing by fingerprint" (metadata.write_pointer_table).    *)
THEOREM Kept == Spec => []KeptUnlessRaced
<1>1. Inv => KeptUnlessRaced
    BY DEF Inv
<1> QED
    BY <1>1, Invariance, PTL

(* The catalog names no dataset that the pointer table has not got:        *)
(* register_root writes the table first.                                   *)
THEOREM CatalogBehind == Spec => []CatalogBehindTable
<1>1. Inv => CatalogBehindTable
    BY DEF Inv, KeptUnlessRaced, CatalogBehindTable, NewFps
<1> QED
    BY <1>1, Invariance, PTL

(* n_registered is the number of fingerprints the call adds to the table,  *)
(* when no two candidates share one and the loads before saw the rows the  *)
(* last one saw (register_root): each new descriptor adds its own.         *)
THEOREM Counts == Spec => []CountsDistinctFingerprints
<1>1. Inv => CountsDistinctFingerprints
    <2> SUFFICES ASSUME Inv, NEW r \in Registrars, pc[r] = "catalog", ~args[r].skip,
                        existing[r].fps = Fingerprints(merged[r]) \ added[r],
                        DistinctFingerprints(descs[r])
                 PROVE  registered[r] = Cardinality(added[r])
        BY DEF CountsDistinctFingerprints
    <2> DEFINE ds == descs[r]
               new == {k \in DOMAIN ds : IsNew(ds[k], existing[r])}
               f == [k \in new |-> ds[k].fingerprint]
    <2>1. /\ registered[r] = Cardinality(new)
          /\ \A k \in DOMAIN ds : ds[k].fingerprint # NULL
        BY DEF Inv, Counted
    <2>2. added[r] = NewFps(ds) \ existing[r].fps
        BY DEF Inv, Merged
    <2>3. \A k \in DOMAIN ds : k \in new <=> ds[k].fingerprint \notin existing[r].fps
        BY <2>1 DEF IsNew
    <2>4. \A fp : fp \in NewFps(ds) <=> \E k \in DOMAIN ds : fp = ds[k].fingerprint
        BY <2>1 DEF NewFps, ToSet
    <2>5. \A i, j \in DOMAIN ds : ds[i].fingerprint = ds[j].fingerprint => i = j
        BY <2>1 DEF DistinctFingerprints
    <2>6. new \subseteq DOMAIN ds /\ IsFiniteSet(new)
        <3>1. Len(ds) \in Nat /\ DOMAIN ds = 1 .. Len(ds)
            BY DEF Inv, VarTypes
        <3>2. IsFiniteSet(1 .. Len(ds))
            BY <3>1, FS_Interval
        <3>3. new \in SUBSET (1 .. Len(ds))
            BY <3>1
        <3> HIDE DEF new, ds
        <3> QED
            BY <3>1, <3>2, <3>3, FS_Subset
    <2> HIDE DEF ds, new
    <2>7. f \in [new -> added[r]]
        BY <2>2, <2>3, <2>4, <2>6
    <2>8. \A fp \in added[r] : \E k \in new : f[k] = fp
        BY <2>2, <2>3, <2>4
    <2>9. \A i, j \in new : f[i] = f[j] => i = j
        BY <2>5, <2>6
    <2> HIDE DEF f
    <2>10. f \in Bijection(new, added[r])
        BY <2>7, <2>8, <2>9 DEF Bijection, Injection, Surjection, IsInjective
    <2>11. ExistsBijection(new, added[r])
        BY <2>10 DEF ExistsBijection
    <2>12. Cardinality(new) = Cardinality(added[r])
        BY <2>6, <2>11, FS_Bijection
    <2> QED
        BY <2>1, <2>12
<1> QED
    BY <1>1, Invariance, PTL

-----------------------------------------------------------------------------
(* The graph of the catalog *)

(* The IRIs of the descriptors of a call, kept apart by their segments. *)
DatasetOf(ds, i) == <<"dataset", Segment(ds, i)>>
DistributionOf(ds, i) == <<"distribution", Segment(ds, i)>>
Identifier(ds, i) == IF ds[i].uuid = NULL THEN Segment(ds, i) ELSE ds[i].uuid

LEMMA SegmentsDiffer ==
    ASSUME NEW ds \in Seq(Descriptor), DistinctFingerprints(ds),
           NEW i \in DOMAIN ds, NEW j \in DOMAIN ds, Segment(ds, i) = Segment(ds, j)
    PROVE  i = j
<1>1. i \in Nat /\ j \in Nat /\ ds[i] \in Descriptor /\ ds[j] \in Descriptor
    OBVIOUS
<1>2. /\ ds[i].fingerprint \in Structures \cup {NULL}
      /\ ds[j].fingerprint \in Structures \cup {NULL}
    BY <1>1 DEF Descriptor
<1>3. <<"anon", i>> \notin Structures /\ <<"anon", j>> \notin Structures
    <2>1. <<"anon", i>> \in {"anon"} \X Nat /\ <<"anon", j>> \in {"anon"} \X Nat
        BY <1>1
    <2> QED
        BY <2>1, NamesAssumption
<1>4. CASE ds[i].fingerprint = NULL /\ ds[j].fingerprint = NULL
    BY <1>4 DEF Segment
<1>5. CASE ds[i].fingerprint # NULL /\ ds[j].fingerprint # NULL
    BY <1>5 DEF Segment, DistinctFingerprints
<1>6. ~(ds[i].fingerprint = NULL /\ ds[j].fingerprint # NULL)
    BY <1>2, <1>3 DEF Segment
<1>7. ~(ds[i].fingerprint # NULL /\ ds[j].fingerprint = NULL)
    BY <1>2, <1>3 DEF Segment
<1> QED
    BY <1>4, <1>5, <1>6, <1>7

(* What the triples of one descriptor say. *)
LEMMA TriplesOf ==
    ASSUME NEW ds, NEW i, NEW t \in Nodes(ds, i)
    PROVE  /\ t[2] = "a" /\ t[3] = "dcat:Dataset" => t[1] = DatasetOf(ds, i)
           /\ t[2] = "a" /\ t[3] = "dcat:Distribution" => t[1] = DistributionOf(ds, i)
           /\ t[2] = "dct:identifier" =>
                  t[1] = DatasetOf(ds, i) /\ t[3] = Identifier(ds, i)
           /\ t[2] = "dcat:distribution" =>
                  t[1] = DatasetOf(ds, i) /\ t[3] = DistributionOf(ds, i)
           /\ t[2] = "dcat:downloadURL" =>
                  t[1] = DistributionOf(ds, i) /\ t[3] = ds[i].uri
           /\ t[2] = "dcat:mediaType" =>
                  t[1] = DistributionOf(ds, i) /\ t[3] = "application/x-hdf5"
BY DEF Nodes, DatasetOf, DistributionOf, Identifier

(* The triples every descriptor has. *)
LEMMA HasTriples ==
    ASSUME NEW ds, NEW i
    PROVE  {<<DatasetOf(ds, i), "a", "dcat:Dataset">>,
            <<DatasetOf(ds, i), "dct:identifier", Identifier(ds, i)>>,
            <<DatasetOf(ds, i), "dcat:distribution", DistributionOf(ds, i)>>,
            <<DistributionOf(ds, i), "a", "dcat:Distribution">>,
            <<DistributionOf(ds, i), "dcat:downloadURL", ds[i].uri>>,
            <<DistributionOf(ds, i), "dcat:mediaType", "application/x-hdf5">>}
               \subseteq Nodes(ds, i)
BY DEF Nodes, DatasetOf, DistributionOf, Identifier

LEMMA GraphConforms ==
    ASSUME NEW ds \in Seq(Descriptor), DistinctFingerprints(ds)
    PROVE  Conforms(Graph(ds))
<1> DEFINE graph == Graph(ds)
           instances(class) == {t[1] : t \in {u \in graph : u[2] = "a" /\ u[3] = class}}
           objects(s, p) == {t[3] : t \in {u \in graph : u[1] = s /\ u[2] = p}}
<1>1. \A t : t \in graph <=> \E i \in DOMAIN ds : t \in Nodes(ds, i)
    BY DEF Graph
<1>2. ASSUME NEW i \in DOMAIN ds, NEW t \in Nodes(ds, i) PROVE t \in graph
    BY <1>1, <1>2
<1>3. ASSUME NEW i \in DOMAIN ds, NEW j \in DOMAIN ds,
             \/ DatasetOf(ds, i) = DatasetOf(ds, j)
             \/ DistributionOf(ds, i) = DistributionOf(ds, j)
             \/ DatasetOf(ds, i) = DistributionOf(ds, j)
      PROVE  i = j
    <2>1. Segment(ds, i) = Segment(ds, j)
        BY <1>3 DEF DatasetOf, DistributionOf
    <2> QED
        BY <2>1, SegmentsDiffer
<1> HIDE DEF graph
<1>4. \A s \in instances("dcat:Dataset") : \E i \in DOMAIN ds : s = DatasetOf(ds, i)
    BY <1>1, TriplesOf
<1>5. \A s \in instances("dcat:Distribution") :
          \E i \in DOMAIN ds : s = DistributionOf(ds, i)
    BY <1>1, TriplesOf
<1>6. ASSUME NEW i \in DOMAIN ds
      PROVE  DistributionOf(ds, i) \in instances("dcat:Distribution")
    <2> DEFINE t == <<DistributionOf(ds, i), "a", "dcat:Distribution">>
    <2>1. t \in graph
        BY <1>2, HasTriples
    <2>2. t[1] = DistributionOf(ds, i) /\ t[2] = "a" /\ t[3] = "dcat:Distribution"
        OBVIOUS
    <2> HIDE DEF t
    <2> QED
        BY <2>1, <2>2
<1>7. ASSUME NEW i \in DOMAIN ds
      PROVE  /\ objects(DatasetOf(ds, i), "dct:identifier") = {Identifier(ds, i)}
             /\ objects(DatasetOf(ds, i), "dcat:distribution") = {DistributionOf(ds, i)}
             /\ objects(DistributionOf(ds, i), "dcat:downloadURL") = {ds[i].uri}
             /\ objects(DistributionOf(ds, i), "dcat:mediaType") = {"application/x-hdf5"}
    <2> DEFINE A == DatasetOf(ds, i)
               B == DistributionOf(ds, i)
    <2>1. /\ <<A, "dct:identifier", Identifier(ds, i)>> \in graph
          /\ <<A, "dcat:distribution", B>> \in graph
          /\ <<B, "dcat:downloadURL", ds[i].uri>> \in graph
          /\ <<B, "dcat:mediaType", "application/x-hdf5">> \in graph
        BY <1>2, HasTriples
    <2>2. ASSUME NEW t \in graph
          PROVE  /\ t[1] = A /\ t[2] = "dct:identifier" => t[3] = Identifier(ds, i)
                 /\ t[1] = A /\ t[2] = "dcat:distribution" => t[3] = B
                 /\ t[1] = B /\ t[2] = "dcat:downloadURL" => t[3] = ds[i].uri
                 /\ t[1] = B /\ t[2] = "dcat:mediaType" => t[3] = "application/x-hdf5"
        <3>1. PICK j \in DOMAIN ds : t \in Nodes(ds, j)
            BY <1>1
        <3>2. /\ t[2] = "dct:identifier" =>
                     t[1] = DatasetOf(ds, j) /\ t[3] = Identifier(ds, j)
              /\ t[2] = "dcat:distribution" =>
                     t[1] = DatasetOf(ds, j) /\ t[3] = DistributionOf(ds, j)
              /\ t[2] = "dcat:downloadURL" =>
                     t[1] = DistributionOf(ds, j) /\ t[3] = ds[j].uri
              /\ t[2] = "dcat:mediaType" =>
                     t[1] = DistributionOf(ds, j) /\ t[3] = "application/x-hdf5"
            BY <3>1, TriplesOf
        <3> QED
            BY <1>3, <3>2
    <2> HIDE DEF A, B
    <2>3. ASSUME NEW s, NEW p, NEW o, <<s, p, o>> \in graph,
                 \A t \in graph : t[1] = s /\ t[2] = p => t[3] = o
          PROVE  objects(s, p) = {o}
        <3>1. <<s, p, o>>[1] = s /\ <<s, p, o>>[2] = p /\ <<s, p, o>>[3] = o
            OBVIOUS
        <3> QED
            BY <2>3, <3>1
    <2> HIDE DEF objects
    <2>4. objects(A, "dct:identifier") = {Identifier(ds, i)}
        BY <2>1, <2>2, <2>3
    <2>5. objects(A, "dcat:distribution") = {B}
        BY <2>1, <2>2, <2>3
    <2>6. objects(B, "dcat:downloadURL") = {ds[i].uri}
        BY <2>1, <2>2, <2>3
    <2>7. objects(B, "dcat:mediaType") = {"application/x-hdf5"}
        BY <2>1, <2>2, <2>3
    <2> USE DEF A, B
    <2> QED
        BY <2>4, <2>5, <2>6, <2>7
<1>8. \A x : Cardinality({x}) = 1
    BY FS_Singleton
<1> HIDE DEF instances, objects
<1>9. ASSUME NEW s \in instances("dcat:Dataset")
      PROVE  /\ Cardinality(objects(s, "dct:identifier")) = 1
             /\ objects(s, "dcat:distribution") # {}
             /\ objects(s, "dcat:distribution") \subseteq instances("dcat:Distribution")
    <2>1. PICK i \in DOMAIN ds : s = DatasetOf(ds, i)
        BY <1>4
    <2>2. /\ objects(s, "dct:identifier") = {Identifier(ds, i)}
          /\ objects(s, "dcat:distribution") = {DistributionOf(ds, i)}
        BY <1>7, <2>1
    <2>3. DistributionOf(ds, i) \in instances("dcat:Distribution")
        BY <1>6
    <2> QED
        BY <1>8, <2>2, <2>3
<1>10. ASSUME NEW s \in instances("dcat:Distribution")
       PROVE  /\ Cardinality(objects(s, "dcat:downloadURL")) = 1
              /\ Cardinality(objects(s, "dcat:mediaType")) <= 1
    <2>1. PICK i \in DOMAIN ds : s = DistributionOf(ds, i)
        BY <1>5
    <2>2. /\ objects(s, "dcat:downloadURL") = {ds[i].uri}
          /\ objects(s, "dcat:mediaType") = {"application/x-hdf5"}
        BY <1>7, <2>1
    <2>3. 1 <= 1
        OBVIOUS
    <2> QED
        BY <1>8, <2>2, <2>3
<1> USE DEF instances, objects, graph
<1> QED
    BY <1>9, <1>10 DEF Conforms

(* The catalog of files that differ conforms to the shapes written beside  *)
(* it (dcat_ttl.emit_catalog and emit_shapes), audited or not.             *)
THEOREM CatalogValid == Spec => []CatalogConformsIfDistinct
<1>1. Inv => CatalogConformsIfDistinct
    BY GraphConforms DEF Inv, VarTypes, CatalogConformsIfDistinct, CatalogConforms
<1> QED
    BY <1>1, Invariance, PTL
=============================================================================

------------------------------- MODULE Catalog -------------------------------
(***************************************************************************)
(* The semantic stubs (semantic/dcat_ttl.py): the graph catalog.ttl states *)
(* of a call's descriptors, and what shapes.ttl demands of it.             *)
(*                                                                         *)
(* A graph is a set of triples <<subject, predicate, object>>; an IRI is   *)
(* the pair of its kind and its last segment.  Titles, geometry, time      *)
(* bounds and the layout, which no shape counts, are left out.             *)
(***************************************************************************)
EXTENDS Naturals, FiniteSets

CONSTANT NULL      \* None

(* Mutant of Segment: files without a fingerprint are not numbered. *)
SegmentUnnumbered(ds, i) ==
    IF ds[i].fingerprint = NULL THEN <<"anon">> ELSE ds[i].fingerprint

Segment(ds, i) ==
    IF ds[i].fingerprint = NULL THEN <<"anon", i>> ELSE ds[i].fingerprint

(* The three nodes of the i-th descriptor. *)
Nodes(ds, i) ==
    LET segment == Segment(ds, i)
        dataset == <<"dataset", segment>>
        dist == <<"distribution", segment>>
        svc == <<"service", segment>>
    IN  {<<dataset, "a", "dcat:Dataset">>,
         <<dataset, "dct:identifier",
           IF ds[i].uuid = NULL THEN segment ELSE ds[i].uuid>>,
         <<dataset, "dcat:distribution", dist>>,
         <<dataset, "dcat:accessService", svc>>,
         <<dist, "a", "dcat:Distribution">>,
         <<dist, "dcat:downloadURL", ds[i].uri>>,
         <<dist, "dcat:mediaType", "application/x-hdf5">>,
         <<svc, "a", "dcat:DataService">>}

Graph(ds) == UNION {Nodes(ds, i) : i \in DOMAIN ds}

(* DatasetShape and DistributionShape. *)
Conforms(graph) ==
    LET instances(class) == {t[1] : t \in {u \in graph : u[2] = "a" /\ u[3] = class}}
        objects(s, p) == {t[3] : t \in {u \in graph : u[1] = s /\ u[2] = p}}
    IN  /\ \A s \in instances("dcat:Dataset") :
              /\ Cardinality(objects(s, "dct:identifier")) = 1
              /\ objects(s, "dcat:distribution") # {}
              /\ objects(s, "dcat:distribution") \subseteq instances("dcat:Distribution")
        /\ \A s \in instances("dcat:Distribution") :
              /\ Cardinality(objects(s, "dcat:downloadURL")) = 1
              /\ Cardinality(objects(s, "dcat:mediaType")) <= 1
=============================================================================

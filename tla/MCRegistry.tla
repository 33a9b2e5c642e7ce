----------------------------- MODULE MCRegistry -----------------------------
EXTENDS Registry

CONSTANTS u1, u2, a, b, id

OneRoot == <<<<u1, u2>>>>
TwoRoots == <<<<u1>>, <<u2>>>>

AllCalls == {[skip |-> skip, max |-> NULL] : skip \in BOOLEAN}
SomeCalls == AllCalls \cup {[skip |-> FALSE, max |-> 1]}

(* Neither registrars nor structures are told apart by anything but their  *)
(* own identity; uris are, by their order.                                 *)
Symmetry == Permutations(Registrars) \cup Permutations(Structures)
=============================================================================

----------------------------- MODULE MC_Bootstrap -----------------------------
(* Two candidate node ids, two valid endpoints and the invalid one, lists *)
(* of up to three contacts: enough for a skipped candidate, a failure     *)
(* before a success, and one node id listed twice with two endpoints.     *)
EXTENDS Bootstrap, TLC

CONSTANTS n1, n2, e1, e2, none

MCNodes == {n1, n2}
MCEndpoints == {e1, e2}

\* Node ids and endpoints are only compared for equality.
Symmetry == Permutations(MCNodes) \cup Permutations(MCEndpoints)
==============================================================================

---------------------------- MODULE MCRoutesCache ----------------------------
(* RoutesCache with two requests, two lookups and a cache of one entry. *)
EXTENDS RoutesCache, TLC

CONSTANTS get, slash, o1, o2, v1, v2, v3, v4, v5, r1, r2

\* Two places of the table to search from.
Offsets == {o1, o2}
Values == {v1, v2, v3, v4, v5}
Reqs == {r1, r2}
Forward == {1}

Symmetric == Permutations(Offsets) \cup Permutations(Values) \cup Permutations(Reqs)
==============================================================================

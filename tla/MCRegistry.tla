----------------------------- MODULE MCRegistry -----------------------------
(* Registry on small instances.                                            *)
EXTENDS Registry, TLC

Interchangeable == Permutations(Ids) \cup Permutations(Calls)
=============================================================================

------------------------------- MODULE MCPrune -------------------------------
(* Prune on small instances.                                               *)
EXTENDS Prune, TLC

Interchangeable ==
  Permutations(Senders) \cup Permutations(Readers) \cup Permutations(Sweeps)
=============================================================================

------------------------------ MODULE MCStacks ------------------------------
(* Stacks on small instances.                                              *)
EXTENDS Stacks, TLC

Symmetry == Permutations(Pids)
=============================================================================

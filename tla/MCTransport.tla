----------------------------- MODULE MCTransport -----------------------------
(* Transport on small instances.                                           *)
EXTENDS Transport, TLC

Interchangeable ==
  Permutations(Locals) \cup Permutations(Attachers) \cup Permutations(Listers)
=============================================================================

------------------------------ MODULE MCMailbox ------------------------------
(* Mailbox on small instances.                                             *)
EXTENDS Mailbox, TLC

Calls == Permutations(Readers)
=============================================================================

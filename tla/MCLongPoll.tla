----------------------------- MODULE MCLongPoll -----------------------------
(* LongPoll on small instances.                                            *)
EXTENDS LongPoll, TLC

Interchangeable == Permutations(Calls)
=============================================================================

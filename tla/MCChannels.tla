----------------------------- MODULE MCChannels -----------------------------
(* Channels with model values for TLC.                                      *)
EXTENDS Channels, TLC

MCBacklogs == {1}

\* Agents are interchangeable.
Symmetry == Permutations(Agents)

\* Bound: of the calls, moves, deletions and doctors, four happen.
FourInAll == made + moves + deletes + doctors <= 4
=============================================================================

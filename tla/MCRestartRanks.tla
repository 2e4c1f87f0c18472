--------------------------- MODULE MCRestartRanks ---------------------------
(* RestartRanks on three ranks, two of which are interchangeable.          *)
EXTENDS RestartRanks, TLC

CONSTANTS rank0, rank1, rank2

MCRanks == {rank0, rank1, rank2}
MCSymmetry == Permutations({rank1, rank2})
=============================================================================

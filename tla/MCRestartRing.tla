---------------------------- MODULE MCRestartRing ----------------------------
(* RestartRing on two mesh suffixes, which are interchangeable.            *)
EXTENDS RestartRing, TLC

CONSTANTS tria1, tria2

MCTriaSuffix == {tria1, tria2}
MCSymmetry == Permutations(MCTriaSuffix)
=============================================================================

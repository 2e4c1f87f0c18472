--------------------------- MODULE MCParticleField ---------------------------
(* ParticleField on a line of six active cells, two in a cache cell, with   *)
(* three particles on three ranks.                                          *)
EXTENDS ParticleField, TLC

\* A cache cell shared by two ranks, and one rank between two others.
MCPartitions ==
  {<<0, 0, 0, 1, 1, 2>>, <<1, 1, 2, 2, 0, 0>>}
MCDivisions == {[c \in ActiveCells |-> part[c + 1]] : part \in MCPartitions}

\* Particles that run into each other across a cell, and a row of three.
MCStarts == {(1 :> 7 @@ 2 :> 16 @@ 3 :> 20), (1 :> 3 @@ 2 :> 10 @@ 3 :> 19), (1 :> 6 @@ 2 :> 12 @@ 3 :> 17)}

\* One particle is fast, one meets it, one moves little.
MCMoves == {(1 :> a @@ 2 :> b @@ 3 :> c) : a \in {0, 2, 3}, b \in {-2, -1, 0}, c \in {-1, 0}}
==============================================================================

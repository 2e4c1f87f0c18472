-------------------------- MODULE MCSignedDistance --------------------------
(* SignedDistance on a strip of squares: the nodes are <<column, row>>, the *)
(* cell c lies between the columns c and c + 1.                             *)
EXTENDS SignedDistance, TLC

CONSTANTS r0, r1, r2, Length

MCRanks == {r0, r1, r2}
MCNodes == (0 .. Length) \X {0, 1}
MCFaces ==
  [c \in 0 .. Length - 1 |->
     {{<<c, 0>>, <<c, 1>>}, {<<c + 1, 0>>, <<c + 1, 1>>},
      {<<c, 0>>, <<c + 1, 0>>}, {<<c, 1>>, <<c + 1, 1>>}}]

\* One bubble or none, a plane, an oblique front, nodes on the interface: of a cut cell, and where
\* the level set only touches zero, far from all cut cells or without any.
Shape(inside, on) == [n \in MCNodes |-> IF n \in inside THEN 1 ELSE IF n \in on THEN 0 ELSE -1]
MCLevelSets ==
  {Shape({}, {}),
   Shape({<<0, 0>>, <<0, 1>>}, {}),
   Shape({<<0, 0>>}, {<<0, 1>>}),
   Shape({<<0, 0>>, <<0, 1>>}, {<<3, 0>>}),
   Shape({<<i, j>> \in MCNodes : i >= 2 + j}, {}),
   Shape({<<i, j>> \in MCNodes : i # 2}, {})}

MCEtas == {[c \in Cells |-> 0], [c \in Cells |-> -3]}

\* Contiguous pieces for three ranks, one rank without cells, and a scattered partition.
MCPartitions ==
  {[c \in Cells |-> IF c < 2 THEN r0 ELSE IF c = 2 THEN r1 ELSE r2],
   [c \in Cells |-> IF c = 0 THEN r1 ELSE r2],
   [c \in Cells |-> IF c % 2 = 0 THEN r0 ELSE r1]}
=============================================================================

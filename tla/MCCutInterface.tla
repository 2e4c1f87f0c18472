--------------------------- MODULE MCCutInterface ---------------------------
(* CutInterface on two rows of three squares, for the three operations; a  *)
(* node is <<column, row>>.                                                *)
EXTENDS CutInterface, TLC

Heat == [dg |-> FALSE, vectors |-> 2, twoPhase |-> TRUE, early |-> FALSE,
         band |-> FALSE, repartition |-> FALSE, remesh |-> TRUE]
HeatLiquid == [Heat EXCEPT !.twoPhase = FALSE]
CutDG == [HeatLiquid EXCEPT !.dg = TRUE, !.vectors = 1, !.remesh = FALSE]
Multiphase == [CutDG EXCEPT !.twoPhase = TRUE, !.early = TRUE, !.repartition = TRUE]

MCOperations == {Heat, HeatLiquid, CutDG, Multiphase}
MCBandSolver == {[Multiphase EXCEPT !.band = TRUE]}

Corner(c) == <<c % 3, c \div 3>>
MCNodesOf ==
  [c \in 0 .. 5 |-> {<<Corner(c)[1] + i, Corner(c)[2] + j>> : i \in {0, 1}, j \in {0, 1}}]
MCFaces == {<<0, 1>>, <<1, 2>>, <<3, 4>>, <<4, 5>>, <<0, 3>>, <<1, 4>>, <<2, 5>>}

Shape(inside, on) ==
  [n \in (0 .. 3) \X (0 .. 2) |-> IF n \in inside THEN 1 ELSE IF n \in on THEN 0 ELSE -1]
Box == (0 .. 3) \X (0 .. 2)

\* A front between two columns of nodes or on one, an oblique front, a drop, the liquid only.
MCLevelSets ==
  {Shape({n \in Box : n[1] <= 0}, {}),
   Shape({n \in Box : n[1] <= 1}, {}),
   Shape({n \in Box : n[1] <= 0}, {n \in Box : n[1] = 1}),
   Shape({n \in Box : n[1] + n[2] <= 2}, {}),
   Shape({n \in Box : n[1] <= 0} \cup {<<3, 0>>}, {}),
   Shape(Box, {})}

MCWeight == [liquid |-> 1, gas |-> 1, cut |-> 3]
=============================================================================

CONSTANTS
  r0 = 0
  r1 = 1
  r2 = 2
  Length = 4
  Ranks <- MCRanks
  Nodes <- MCNodes
  Faces <- MCFaces
  H = 8
  MaxDistance = 22
  LevelSets <- MCLevelSets
  Etas <- MCEtas
  Partitions <- MCPartitions
  MaxSolves = 2
SPECIFICATION Spec
CHECK_DEADLOCK FALSE
INVARIANT DistanceShortest
INVARIANT SideKept
PROPERTY SolveEnds

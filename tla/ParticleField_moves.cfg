CONSTANTS
  Ranks = {0, 1, 2}
  Particles = {1, 2, 3}
  NCells = 6
  CellSize = 4
  Children = 2
  Diameter = 6
  Partitions <- MCDivisions
  Starts <- MCStarts
  Moves <- MCMoves
  MaxSteps = 2
  MaxMeshes = 1
SPECIFICATION Spec
INVARIANT GhostsCurrent
INVARIANT NeighboursFound
INVARIANT LoadsOnce

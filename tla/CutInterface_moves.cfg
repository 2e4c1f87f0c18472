CONSTANTS
  Operations <- MCOperations
  NodesOf <- MCNodesOf
  Faces <- MCFaces
  LevelSets <- MCLevelSets
  NRanks = 3
  Weight <- MCWeight
  UpdateEvery = 3
  MaxSteps = 3
  MaxMeshes = 1
  None = None
SPECIFICATION Spec
CHECK_DEADLOCK FALSE
INVARIANT OldSolutionKept
INVARIANT CutFits
INVARIANT PreconditionerFits

SPECIFICATION NewtonFairSpec
CONSTANTS
  MaxIter = 1
  MaxIterAlt = 2
  ResTol = 1
  CorTol = 2
  ResTolAlt = 3
  CorTolAlt = 4
  Scale = 2
  MaxX = 2
  MaxR = 2
  MaxCalls = 2
INVARIANTS ReturnsConverged StopsAtFirst ResidualOfSolution
PROPERTY CallEnds
CHECK_DEADLOCK FALSE

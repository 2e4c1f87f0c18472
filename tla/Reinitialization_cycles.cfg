SPECIFICATION Spec
CONSTANTS
  Constraints = {"none", "dirichlet", "surface_penalty"}
  Tol = 1
  Small = 1
  NInitial = 3
  MaxN = 2
  MaxPos = 4
  MaxErr = 1
  MaxSteps = 3
  MaxMesh = 1
  Blank = Blank
INVARIANTS TypeOK NoCreep StepsLimited NormalsFresh
PROPERTY InterfaceKept
CHECK_DEADLOCK FALSE

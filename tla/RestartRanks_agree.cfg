CONSTANTS
  rank0 = rank0
  rank1 = rank1
  rank2 = rank2
  Ranks <- MCRanks
  Root = rank0
  RealClock = FALSE
  MaxSteps = 5
  Missing = missing
  Partial = partial
SPECIFICATION RanksFairSpec
CHECK_DEADLOCK FALSE
INVARIANT SlotZeroCoherent
PROPERTY SaveCompletes

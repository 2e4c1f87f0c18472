CONSTANTS
  Cases <- MCCases
  Factors = {1, 2}
  MaxSteps = 7
SPECIFICATION Spec
CHECK_DEADLOCK FALSE
INVARIANT LandsOnTime
INVARIANT RhsOnTime
INVARIANT HistoryWeighted
INVARIANT ChangeOfStep

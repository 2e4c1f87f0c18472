CONSTANTS
  StartTime = 0
  EndTime = 8
  TimeStepSize = 1
  TimeStepSizeFunction <- MCChanging
  MaxNSteps = 6
  Kinds = {"heat", "advection"}
  Type = "linear_extrapolation"
  NOld = 3
  MaxIter = 2
  Blank = blank
SPECIFICATION Spec
CHECK_DEADLOCK FALSE
INVARIANT FieldOnTime
INVARIANT HistoryInOrder
INVARIANT GuessOnTime

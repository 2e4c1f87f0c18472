CONSTANTS
  Cases <- MCCases
  MaxSteps = 3
  Blank = blank
SPECIFICATION Spec
CHECK_DEADLOCK FALSE
INVARIANT NothingStale
INVARIANT InterfaceCoherent
INVARIANT FlowSeesThisStep

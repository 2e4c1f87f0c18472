CONSTANTS
  StartTime = 0
  EndTime = 24
  TimeStepSize = 3
  TimeStepSizeFunction <- MCFunction
  MaxNSteps = 10
  HeatUpDt = 8
  Factor = 2
  WriteFrequency = 3
  WriteTimeStep = 5
  SaveTimeStep = 6
  MaxJobs = 3
  NoFile = nofile
  CutFile = cutfile
  NoSnapshot = nosnapshot
SPECIFICATION FairSpec
CHECK_DEADLOCK FALSE
INVARIANT PvdTellsTheTruth
INVARIANT NoOutputLost
INVARIANT LossBounded
INVARIANT AdafloAligned
PROPERTY AdafloKeepsOldStep
PROPERTY JobReachesEnd

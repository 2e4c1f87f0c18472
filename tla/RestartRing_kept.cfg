CONSTANTS
  Save = 3
  tria1 = tria1
  tria2 = tria2
  TriaSuffix <- MCTriaSuffix
  Problem = problem
  NoFile = nofile
  Torn = torn
  MaxSaves = 5
  MaxCut = 1
SPECIFICATION Spec
INVARIANT TypeOK
INVARIANT LastSaveLoadable
INVARIANT HistoryKept
PROPERTY ImplementsStore

CONSTANTS
  Save = 2
  tria1 = tria1
  tria2 = tria2
  TriaSuffix <- MCTriaSuffix
  Problem = problem
  NoFile = nofile
  Torn = torn
  MaxSaves = 3
  MaxCut = 1
SPECIFICATION Spec
SYMMETRY MCSymmetry
INVARIANT LoadedStateIsOneSave

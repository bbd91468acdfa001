CONSTANTS
  test1 = test1
  test2 = test2
  w = w
  W = W
  File = {test1, test2}
  Word = {w, W}
  Lower <- MCLower
  Experiments <- MCRuns
  MaxCrashes = 1
SPECIFICATION Spec
INVARIANT ScoresOwnDocument
CHECK_DEADLOCK FALSE

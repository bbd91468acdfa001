CONSTANTS
  test1 = test1
  test2 = test2
  w = w
  W = W
  File = {test1, test2}
  Word = {w, W}
  Lower <- MCLower
  Experiments <- MCRuns
  MaxCrashes = 1
  FilePath = {test1, test2}
  None = None
  history = 1
  MaxVersions = 4
  Top = 100
  Fade <- MCFade
  AddAlpha <- MCAddAlpha
  fn_a = fn_a
  fn_b = fn_b
  fn_c = fn_c
  fn_d = fn_d
  Func = {fn_a, fn_b, fn_c, fn_d}
  CgFiles <- MCCgFiles
  GlibcFiles <- MCGlibcFiles
  Syscall = {fn_b, fn_d}
SPECIFICATION MCSpec
INVARIANTS TokenFileCurrent ScoresDefined HistoryExact ExdByRecency RocketOrder
           ResultExact EdgesMirrored LatestWins
PROPERTIES NoPeeking WalkReturns
CHECK_DEADLOCK FALSE

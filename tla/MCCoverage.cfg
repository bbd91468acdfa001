CONSTANTS
  t1 = t1
  t2 = t2
  t3 = t3
  Test = {t1, t2, t3}
  File = {f, g}
  Line = {1, 2}
  Raws <- MCRaws
  MaxKills = 1
  v1 = v1
  v2 = v2
  v3 = v3
  Version = {v1, v2, v3}
  TestName = {t1, t2, t3}
  Archives <- MCArchives
  MaxScriptKills = 1
  number_of_process = 2
  MaxFails = 1
SPECIFICATION MCSpec
INVARIANTS IncrementsDescend InfoFromOwnArchive AllParsed
PROPERTIES CoverageOnlyShrinks DifferencesKept
CHECK_DEADLOCK FALSE

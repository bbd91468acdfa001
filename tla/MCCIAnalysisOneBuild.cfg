CONSTANTS
  f = f
  g = g
  h = h
  None = None
  Databases <- MCDatabases
  Plans <- MCPlans
  minimal_testcases = 1
  execution_number_per_thread = 1
  OnDisk = {f, g}
  CFile = {f, h}
  ShFile = {g}
  Mapping <- MCMapping
  NameLength <- MCNameLength
  FailLog <- MCFailLog
SPECIFICATION CiSpec
INVARIANTS OneBuildPerVersion
CHECK_DEADLOCK FALSE

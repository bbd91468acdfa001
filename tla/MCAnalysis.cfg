CONSTANTS
  f = f
  g = g
  h = h
  None = None
  File = {f, g}
  Inputs <- MCInputs
  Databases <- MCDatabases
  Plans <- MCPlans
  minimal_testcases = 1
  execution_number_per_thread = 1
  OnDisk = {f, g}
  CFile = {f, h}
  ShFile = {g}
  Mapping <- MCMapping
  NameLength <- MCNameLength
  FailLog <- MCFailLog
  Logs <- MCLogs
  Deltas <- MCDeltas
SPECIFICATION MCSpec
INVARIANTS
  FailuresAreNew FirstKept MergedStatus
  DataInShape StatusFaithful OneCasePerFile AllFailExact DensestConfigKept
  FailuresOfFinishedTests BlocksExact
CHECK_DEADLOCK FALSE

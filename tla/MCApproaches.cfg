CONSTANTS
  N = 4
  K = 2
  Name = {a, b, c}
  Metrics <- MCMetrics
  FastN = 3
  bands = 2
  rows = 1
  Path = {a, b, c}
  Hashes <- MCHashes
  Token = {p, q}
  Nil = Nil
  FilePath = {a, b, c}
  Method = {m1, m2}
  MaxTests = 3
SPECIFICATION MCSpec
INVARIANTS Partition PickBeatsSample FastNoveltyFirst EveryFileAsListed NothingLaterAddsMore ApfdInRange
PROPERTIES ApproachesImplementPrioritizer
CHECK_DEADLOCK FALSE

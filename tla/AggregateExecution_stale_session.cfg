\* A session on two workers that do not die.
SPECIFICATION Spec
CHECK_DEADLOCK FALSE
CONSTANTS
  Threads = {t1}
  Keys = {k1}
  Batches = 0
  Workers = {w1, w2}
  Partitions = {p1}
  CacheMax = 1
  MaxBuilds = 0
  Rebuilds = FALSE
  MaxFaults = 0
  ConstArgs = FALSE
  MaxChunks = 2
  MaxCrashes = 0
  None = None
INVARIANTS SeesAllChunks

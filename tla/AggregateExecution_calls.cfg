SPECIFICATION Spec
SYMMETRY Symmetry
CHECK_DEADLOCK FALSE
CONSTANTS
  Threads = {t1, t2}
  Keys = {k1, k2}
  Batches = 2
  Workers = {w1, w2, w3}
  Partitions = {p1, p2, p3}
  CacheMax = 2
  MaxBuilds = 2
  Rebuilds = FALSE
  MaxFaults = 2
  ConstArgs = TRUE
  MaxChunks = 4
  MaxCrashes = 2
  None = None
INVARIANTS GroupsAreWhole WindowsReadTheirPartition MissesOnlyOnReturn

SPECIFICATION Spec
SYMMETRY Symmetry
CHECK_DEADLOCK FALSE
CONSTANTS
  Workers = {w1, w2}
  Threads = {t1, t2}
  Ops = {"resolve", "import", "invalidate"}
  Fallback = TRUE
  CacheSize = 1
  TTL = 1
  Retention = 2
  Margin = 0
  Floor = 0
  MaxTries = 2
  MaxRevision = 1
  MaxTime = 1
  MaxUploads = 2
  MaxCalls = 3
  MaxFaults = 1
  None = None
INVARIANTS AnswersAreCurrent ResolvesReadBack PublishersConverge
PROPERTIES SparesReplacements

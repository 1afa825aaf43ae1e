SPECIFICATION FairSpec
CONSTANTS
  NumWorkers = 2
  MaxBatches = 2
  MaxFailures = 1
  Direct = TRUE
INVARIANTS ScanIsComplete NoReaderLeftBlocked
PROPERTY ReadersEnd
CHECK_DEADLOCK FALSE

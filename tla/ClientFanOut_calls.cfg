SPECIFICATION FairSpec
CONSTANTS
  MaxWorkers = 2
  Calls = 2
  MaxBatches = 2
  MaxOutputs = 2
  MaxFailures = 2
INVARIANTS DeliversEverything FinalizeComesLast SecondariesClosed
PROPERTIES CallEnds ThreadsEnd
CHECK_DEADLOCK FALSE

SPECIFICATION Spec
SYMMETRY Symmetry
CHECK_DEADLOCK FALSE
CONSTANTS
  Threads = {t1, t2, t3}
  Txs = {x1}
  Clients = {c1}
  Ops = {"commit", "rollback", "exchange", "ddl", "execute_ddl", "shutdown"}
  MaxDdl = 3
  MaxLocks = 3
  None = None
INVARIANTS
  OneRunner
  ActiveIsReachable
  AutocommitFresh

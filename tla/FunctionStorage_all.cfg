SPECIFICATION Spec
SYMMETRY Symmetry
CONSTANTS
  Workers = {w1, w2}
  Scopes = {e1, e2}
  Namespaces = {n1}
  Keys = {k1}
  Deltas = {1, 2}
  Ops = {"queue_push", "queue_pop", "queue_clear", "state_put_many", "state_drain",
         "state_delete", "state_append", "state_log_scan", "state_counter_add",
         "state_counter_set", "state_counter_delete", "execution_clear"}
  MaxItems = 2
  MaxStamp = 2
  None = None
INVARIANTS
  TypeOK
  ClaimedAtMostOnce
  FifoClaims
  DrainedOnce
  TailComplete
  DistinctTickets
  ClearIsTotal
PROPERTIES
  ImplementsWorkQueue

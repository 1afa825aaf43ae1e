SPECIFICATION Spec
SYMMETRY Symmetry
CONSTRAINTS OneTable OneOrphan OneReader
CHECK_DEADLOCK FALSE
CONSTANTS
  Workers = {w1, w2}
  Scopes = {s1}
  Keys = {k1}
  Ops = {"queue_push", "queue_pop", "queue_clear", "state_put_many", "state_drain", "state_delete", "state_append", "state_log_scan", "state_counter_add", "state_counter_set", "state_counter_delete", "execution_clear"}
  MaxCalls = 3
  MaxRows = 2
  None = None
INVARIANTS
  AppendOnce
  ClaimedOnce
  AddTwiceOnlyIfDisturbed
  PutOnce
  DrainAnswered
  TailComplete

SPECIFICATION Spec
SYMMETRY Symmetry
CHECK_DEADLOCK FALSE
CONSTANTS
  Executions = {e1, e2}
  Sinks = {s1, s2}
  Batches = 3
  Declaring <- OneSchema
  Called = "main"
  MaxFaults = 2
  None = None
INVARIANTS OutputIsWhole NeverUnknown NothingLeftBehind

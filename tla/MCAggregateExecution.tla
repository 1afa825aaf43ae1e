------------------------ MODULE MCAggregateExecution ------------------------
(* TLC instances of AggregateExecution: threads, workers and keys are        *)
(* interchangeable.                                                          *)
EXTENDS AggregateExecution, TLC

Symmetry == Permutations(Threads) \cup Permutations(Workers) \cup Permutations(Keys)
=============================================================================

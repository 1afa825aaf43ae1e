-------------------------- MODULE MCAzureSqlStorage --------------------------
(* TLC instances of AzureSqlStorage: workers are interchangeable, and what a  *)
(* behaviour mixes are methods of one table, as different tables do not meet. *)
EXTENDS AzureSqlStorage, TLC, FiniteSets

Symmetry == Permutations(Workers)

Mixes == {
  {"queue_push", "queue_pop", "queue_clear"},
  {"state_put_many", "state_drain", "state_delete"},
  {"state_put_many", "execution_clear"},
  {"state_append", "execution_clear"},
  {"state_counter_add", "state_counter_set"},
  {"state_counter_add", "state_counter_delete"},
  {"state_counter_add", "execution_clear"}}

\* (bound) the methods in use are one mix.
OneTable == \E M \in Mixes : \A x \in Transactions \cup commits \cup answers : x.op \in M

\* (bound) the server works on one transaction without a client at a time.
OneOrphan == Cardinality(orphans) <= 1

\* (bound) one worker tails the log: readers do not meet.
OneReader == Cardinality({w \in Workers : \E c \in Cells : cursor[w][c] # -1}) <= 1
=============================================================================

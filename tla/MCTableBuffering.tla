--------------------------- MODULE MCTableBuffering ---------------------------
(* TLC instances of TableBuffering: a name declared in one schema or in two, *)
(* calls and sinks interchangeable.                                          *)
EXTENDS TableBuffering, TLC

OneSchema == <<"main">>
TwoSchemas == <<"main", "data">>

Symmetry == Permutations(Executions) \cup Permutations(Sinks)
=============================================================================

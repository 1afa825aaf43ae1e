-------------------------- MODULE MCFunctionStorage --------------------------
(* TLC instances of FunctionStorage: workers and scopes are interchangeable. *)
EXTENDS FunctionStorage, TLC

Symmetry == Permutations(Workers) \cup Permutations(Scopes)
=============================================================================

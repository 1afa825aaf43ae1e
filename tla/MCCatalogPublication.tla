------------------------ MODULE MCCatalogPublication ------------------------
(* TLC instances of CatalogPublication: processes and calls are              *)
(* interchangeable.                                                          *)
EXTENDS CatalogPublication

Symmetry == Permutations(Workers) \cup Permutations(Threads)
=============================================================================

---------------------------- MODULE MCTransactor ----------------------------
(* TLC instances of Transactor: threads, transactions and clients are        *)
(* interchangeable.                                                          *)
EXTENDS Transactor, TLC

Symmetry == Permutations(Threads) \cup Permutations(Txs) \cup Permutations(Clients)
=============================================================================

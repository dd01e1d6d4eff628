----------------------------- MODULE MCTransaction -----------------------------
(***************************************************************************)
(* Transaction on small sets of threads and connections.                   *)
(***************************************************************************)
EXTENDS Transaction, TLC

\* Threads and connections are interchangeable.
TransactionSymmetry == Permutations(Threads) \cup Permutations(Conns)
=============================================================================

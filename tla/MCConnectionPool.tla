--------------------------- MODULE MCConnectionPool ---------------------------
(***************************************************************************)
(* ConnectionPool on small sets of threads and connections.                *)
(***************************************************************************)
EXTENDS ConnectionPool, TLC

\* Threads and connections are interchangeable.
PoolSymmetry == Permutations(Threads) \cup Permutations(Conns)
=============================================================================

------------------------------- MODULE MCQueue -------------------------------
(***************************************************************************)
(* MpmcQueue on small sets of threads and items.                           *)
(***************************************************************************)
EXTENDS MpmcQueue, TLC

\* Threads are interchangeable: each may call every operation.
ThreadSymmetry == Permutations(Threads)
=============================================================================

-------------------------------- MODULE MCCoro --------------------------------
(***************************************************************************)
(* CoroTask for a few calls of sync_wait on a small executor.              *)
(***************************************************************************)
EXTENDS CoroTask
=============================================================================

------------------------------- MODULE MCTimer -------------------------------
(***************************************************************************)
(* RtlTimer with small bounds.                                             *)
(***************************************************************************)
EXTENDS RtlTimer
=============================================================================

------------------------------- MODULE MCMpsc -------------------------------
(***************************************************************************)
(* Instances of the MPSC channel for TLC.                                  *)
(***************************************************************************)
EXTENDS Mpsc
=============================================================================

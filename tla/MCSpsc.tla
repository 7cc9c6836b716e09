------------------------------- MODULE MCSpsc -------------------------------
(* Small instances of the SPSC channel for TLC. *)
EXTENDS Spsc
=============================================================================

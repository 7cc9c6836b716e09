------------------------------ MODULE MCLeader ------------------------------
(* Instances of the leader tracker for TLC. *)
EXTENDS LeaderTracker
=============================================================================

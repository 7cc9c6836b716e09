------------------------------ MODULE MCSender ------------------------------
(* Instances of Sender for TLC. *)
EXTENDS Sender

(* Leader "a" comes back and has two windows in a row. *)
Rotation == <<"a", "b", "c", "a", "a", "b">>
=============================================================================

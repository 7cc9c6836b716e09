----------------------------- MODULE MCSeqLock ------------------------------
(* Instances of the sequence lock for TLC. *)
EXTENDS SeqLock

CONSTANTS w1, w2

AllZero == [w \in {w1, w2} |-> 0]
=============================================================================

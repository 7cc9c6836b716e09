----------------------------- MODULE MCSlotFeed -----------------------------
(* A channel of two, two slots, two faults: a burst of notifications finds *)
(* the channel full, and a connection is lost after another was refused.   *)
EXTENDS SlotFeed
=============================================================================

----------------------------- MODULE EventQueue -----------------------------
(***************************************************************************)
(* What a channel of land_channel promises its users: a bounded first-in   *)
(* first-out queue.  Events are named by the order in which they are       *)
(* accepted; a batch is accepted at once, events leave one at a time.      *)
(***************************************************************************)
EXTENDS Integers, Sequences

CONSTANT Capacity

VARIABLES
  accepted,   \* number of events accepted so far
  queue,      \* events accepted and not yet delivered
  out         \* events delivered, in order

qvars == <<accepted, queue, out>>

Init == accepted = 0 /\ queue = <<>> /\ out = <<>>

(* A send, or the publication of a batch of n events. *)
Accept(n) ==
  /\ Len(queue) + n <= Capacity
  /\ queue' = queue \o [i \in 1..n |-> accepted + i - 1]
  /\ accepted' = accepted + n
  /\ UNCHANGED out

Deliver ==
  /\ queue # <<>>
  /\ out' = Append(out, Head(queue))
  /\ queue' = Tail(queue)
  /\ UNCHANGED accepted

Next == (\E n \in 1..Capacity : Accept(n)) \/ Deliver

Spec == Init /\ [][Next]_qvars
=============================================================================

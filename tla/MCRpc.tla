------------------------------- MODULE MCRpc --------------------------------
(* Instances of RpcSystem for TLC. *)
EXTENDS RpcSystem

(* A client that sends up to three requests.  With a stream for each, the  *)
(* streams it has left behind are further connections of the server.       *)
OneClient == << <<{"empty"}, {"ok"}, {"close", "huge"}>> >>

(* A client that leaves up to four requests behind it: with queues of one, *)
(* they fill both queues and both threads.                                 *)
FourRequests == << [n \in 1..4 |-> {"ok"}] >>
=============================================================================

------------------------------- MODULE MCQuic -------------------------------
(* Instances of QuicEndpoint for TLC. *)
EXTENDS QuicEndpoint

(* Three v4 peers for two slots, two of them with the same hash. *)
V4(n) == [v6 |-> FALSE, ip |-> n, port |-> 1]
ThreePeers == {V4(1), V4(2), V4(3)}
ThreeHomes == [a \in ThreePeers |-> IF a.ip = 3 THEN 1 ELSE 0]

TwoPeers == {V4(1), V4(2)}
OneHome == [a \in TwoPeers |-> 0]

(* Two v6 peers that differ in the last bit of the address and in the      *)
(* port.                                                                   *)
V6Peers == {[v6 |-> TRUE, ip |-> 4, port |-> 1], [v6 |-> TRUE, ip |-> 5, port |-> 0]}
V6Homes == [a \in V6Peers |-> a.port]
=============================================================================

----------------------------- MODULE MCSession ------------------------------
(* Instances of SessionCache for TLC. *)
EXTENDS SessionCache, TLC

(* Three addresses of shard 1, which has two slots. *)
ThreeOfOneShard == (1 :> 65) @@ (2 :> 129) @@ (3 :> 193)
=============================================================================

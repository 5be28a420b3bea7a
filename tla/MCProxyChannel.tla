--------------------------- MODULE MCProxyChannel ---------------------------
(* Two children that receive, one of them twice; both may send.            *)
EXTENDS ProxyChannel, TLC

CONSTANTS k1, k2, u1, u2, u3

MCOwner == u1 :> k1 @@ u2 :> k1 @@ u3 :> k2
MCCapacities == {0, 1}
=============================================================================

--------------------------- MODULE MCLoadBalancer ---------------------------
(* A load balancer with a pool of two members, or of a member and a monitor. *)
EXTENDS LoadBalancer

CONSTANTS lb, pool, m1, m2

MCParent == [c \in {pool, m1, m2} |-> IF c = pool THEN lb ELSE pool]
=============================================================================

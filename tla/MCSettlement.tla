---------------------------- MODULE MCSettlement ----------------------------
(* Settlement, for TLC: two deliveries one way and one the other way. *)
EXTENDS Settlement

CONSTANTS left, right, m1, m2, n1

MCFrom == [m \in Deliveries |-> IF m = n1 THEN right ELSE left]

=============================================================================

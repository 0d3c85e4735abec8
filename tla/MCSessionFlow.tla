--------------------------- MODULE MCSessionFlow ---------------------------
(* Instances of SessionFlow for TLC.                                       *)
EXTENDS SessionFlow

=============================================================================

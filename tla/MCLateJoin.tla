------------------------------ MODULE MCLateJoin ------------------------------
(* LateJoin on small instances.                                             *)
EXTENDS LateJoin, TLC

CONSTANTS G1, J1, J2

=============================================================================

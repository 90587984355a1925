---------------------------- MODULE MCMenuLockstep ----------------------------
(* MenuLockstep on small instances. *)
EXTENDS MenuLockstep, TLC

CONSTANTS P1, P2

(* One presses, the other watches: what happens to a press is the same for  *)
(* either.                                                                 *)
Presses == [p \in Peers |-> IF p = P1 THEN 1 ELSE 0]

=============================================================================

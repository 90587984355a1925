-------------------------- MODULE MCRollbackSession --------------------------
(* RollbackSession on small instances. *)
EXTENDS RollbackSession, TLC

MCLocalInput == [f \in 0..MaxFrame |-> [b |-> 0, x |-> (f + 1) % 2]]

MCRealInputs == {[b |-> 0, x |-> 0], [b |-> 0, x |-> 1]}

(* The session computes the frame advantage itself. *)
MCNoAdvantage == {-1}

=============================================================================

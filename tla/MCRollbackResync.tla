--------------------------- MODULE MCRollbackResync ---------------------------
(* RollbackResync on small instances. *)
EXTENDS RollbackResync, TLC

MCLocalInput == [f \in 0..MaxFrame |-> [b |-> 0, x |-> f % 2]]

MCRealInputs == {[b |-> 0, x |-> 0], [b |-> 0, x |-> 1]}

(* No input moves the stick to -1: the host's boot state is its own. *)
MCHostBoot == [s \in Slots |-> [b |-> 0, x |-> -1]]

MCNoAdvantage      == {-1}
MCPacingAdvantages == {-1, 9}

=============================================================================

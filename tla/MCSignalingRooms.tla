--------------------------- MODULE MCSignalingRooms ---------------------------
(* SignalingRooms on small instances. *)
EXTENDS SignalingRooms, TLC

(* The tabs are alike: only their ids tell them apart. *)
PidSymmetry == Permutations(Pids)

=============================================================================

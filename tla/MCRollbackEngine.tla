-------------------------- MODULE MCRollbackEngine --------------------------
(* RollbackEngine on a small instance, in both modes: true rollback, and the *)
(* legacy mode, with the pacing gate and a peer's slot reset at any moment.   *)
EXTENDS RollbackEngine

(* A stick that only moves one way: the negative half is symmetric.          *)
MCRealInputs == [b : {0}, x : {0, 1}]
MCLocalInput == [f \in 0..MaxFrame |-> [b |-> 0, x |-> f % 2]]

(* JavaScript reports no advantage, or one past every pacing threshold.      *)
MCNoAdvantage == {-1}

VARIABLE legacy  (* the mode of this behaviour *)

Legacy == INSTANCE RollbackEngine WITH
  TrueRollback <- FALSE, Delays <- {1}, FrameAdvantages <- {-1, 9}, ResetSlots <- Remote

(* Bounds: the frames begun, and the last frame an input is fed for.         *)
Within(frames, fed) ==
  /\ \A i \in DOMAIN applied_tag' : applied_tag'[i].frame < frames
  /\ \A s \in Remote : \A f \in (fed + 1)..MaxFrame : real'[s][f] = NoInput

(* The legacy half runs further, so that a frame can be too old for the ring. *)
MCInit == legacy \in BOOLEAN /\ IF legacy THEN Legacy!Init ELSE Init
MCNext ==
  /\ \/ ~legacy /\ Next /\ Within(4, 4)
     \/ legacy /\ Legacy!Next /\ Within(5, 2)
  /\ UNCHANGED legacy
MCSpec == MCInit /\ [][MCNext]_<<vars, legacy>>

=============================================================================

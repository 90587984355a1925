------------------------------ MODULE Timeline ------------------------------
(***************************************************************************)
(* What the rollback engine promises the emulator: the state it runs is    *)
(* always a history of one input vector per frame that began at the first  *)
(* frame.  A step runs one more frame, goes back to a state this very      *)
(* history passed through, or does both; it never revives the state of an  *)
(* abandoned future and never skips a frame.                               *)
(***************************************************************************)
EXTENDS Integers, Sequences

CONSTANT Vector     (* the inputs of all players for one frame *)

VARIABLE timeline   (* the vectors of the frames run so far    *)

Init == timeline = <<>>

Past == {SubSeq(timeline, 1, k) : k \in 0..Len(timeline)}

Rewind == timeline' \in Past
Run    == \E past \in Past, v \in Vector : timeline' = Append(past, v)

Next == Rewind \/ Run

Spec == Init /\ [][Next]_timeline

=============================================================================

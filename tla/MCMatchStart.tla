----------------------------- MODULE MCMatchStart -----------------------------
(* MatchStart on small instances. *)
EXTENDS MatchStart, TLC

CONSTANTS G1
MCDelay == [p \in Players |-> IF p = Host THEN 1 ELSE 2]

=============================================================================

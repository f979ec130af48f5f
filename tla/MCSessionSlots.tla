--------------------------- MODULE MCSessionSlots ---------------------------
(* Two isolates, more of them than slots when there is one slot, three     *)
(* fetches: a session made by one, continued by the next, and contended.   *)
EXTENDS SessionSlots, TLC

MCSlots == 0 .. 1

Isolates == Permutations(Runs)
=============================================================================

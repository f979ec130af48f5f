----------------------------- MODULE MCOutings ------------------------------
(* A small instance of Outings for TLC: two applications for the same trip  *)
(* that differ in what the check before a send does not compare (the        *)
(* purpose, the hours).                                                     *)
EXTENDS Outings, TLC

CONSTANTS key, swim, walk, beach

SameTrip == [r \in Requests |-> beach]

Alike == Permutations(Requests)
=============================================================================

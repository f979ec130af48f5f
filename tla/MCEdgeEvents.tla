---------------------------- MODULE MCEdgeEvents ----------------------------
(* A small instance of EdgeEvents for TLC: pages shorter than the log, and   *)
(* room for the one more connect() that two of them at a time need.          *)
EXTENDS EdgeEvents

MCLanes == 1..2
=============================================================================

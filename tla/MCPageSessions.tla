--------------------------- MODULE MCPageSessions ---------------------------
(* A small instance of PageSessions for TLC: two fetches at a time of one    *)
(* phone, and a gateway that has room for one device.                        *)
EXTENDS PageSessions, TLC

CONSTANTS mine, other, a, b, ann, bea

Alike == Permutations(Accounts) \cup Permutations(Fetches)
=============================================================================

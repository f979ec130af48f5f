--------------------------- MODULE MCPhoneSession ---------------------------
(* Small instances of PhoneSession for TLC: a page and an action, or two    *)
(* actions, and three sessions of VTOP, one of which it may drop at any     *)
(* moment.                                                                  *)
EXTENDS PhoneSession

CONSTANTS f1, f2

Either == [onServer: BOOLEAN, pages: {{f1}}] \cup [onServer: {FALSE}, pages: {{}}]
=============================================================================

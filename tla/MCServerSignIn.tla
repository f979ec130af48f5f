--------------------------- MODULE MCServerSignIn ---------------------------
(* A small instance of ServerSignIn for TLC: a sign-in of the engine and    *)
(* one of the app, whose codes come in any order; times that keep the order *)
(* of the code's: a step is shorter than the wait, a waiter lives longer.   *)
EXTENDS ServerSignIn

CONSTANTS s1, app
=============================================================================

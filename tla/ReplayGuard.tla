---------------------------- MODULE ReplayGuard -----------------------------
(***************************************************************************)
(* One gateway session hearing authentic frames: Gateway::framed decrypts, *)
(* asks the window, and only then acts on the frame.  The network may      *)
(* deliver any counter any number of times, in any order.  `opened' is the *)
(* history of the counters that were acted on.                             *)
(***************************************************************************)
EXTENDS ReplayWindow, Sequences, Functions

CONSTANT Counters

ASSUME CountersAssumption == Counters \subseteq Nat

VARIABLES window, opened

guardVars == <<window, opened>>

GuardInit ==
  /\ window = NewWindow
  /\ opened = <<>>

Hear(ctr) ==
  /\ window' = Accept(window, ctr)
  /\ opened' = IF Accepts(window, ctr) THEN Append(opened, ctr) ELSE opened

GuardNext == \E ctr \in Counters : Hear(ctr)

GuardSpec == GuardInit /\ [][GuardNext]_guardVars

GuardTyped ==
  /\ window \in Window
  /\ opened \in Seq(Counters)

(* However often and in whatever order the frames of a session arrive,     *)
(* each counter passes the window at most once.                            *)
OpenedOnce == \A i, j \in DOMAIN opened : opened[i] = opened[j] => i = j

(* The window never turns away a frame it has not seen, unless that frame  *)
(* is a whole window behind the newest: reordering within the window costs *)
(* nothing.                                                                *)
NoFalseReject ==
  \A ctr \in Counters :
    (\A i \in DOMAIN opened : opened[i] /= ctr) /\ ctr + Width > window.top
      => Accepts(window, ctr)
-----------------------------------------------------------------------------
(* Why OpenedOnce holds.  A counter that passed is at most `top'; while it *)
(* is inside the window its bit is set.                                    *)
BehindTop == \A i \in DOMAIN opened : window.started /\ opened[i] <= window.top

Marked ==
  \A i \in DOMAIN opened :
    opened[i] + Width > window.top => window.top - opened[i] \in window.bits

(* No bit is set for a counter that did not pass.                          *)
OnlyMarked ==
  \A b \in window.bits :
    b <= window.top /\ \E i \in DOMAIN opened : opened[i] = window.top - b

GuardInv == GuardTyped /\ BehindTop /\ Marked /\ OnlyMarked /\ OpenedOnce
=============================================================================

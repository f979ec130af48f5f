---------------------------- MODULE ReplayWindow ----------------------------
(***************************************************************************)
(* The sliding replay window of vtop-wire/src/frame.rs, one per gateway    *)
(* session.  The 64-bit word of the code is the set of offsets behind      *)
(* `top' whose bit is set; Width is 64 in the code.                        *)
(***************************************************************************)
EXTENDS Naturals

CONSTANT Width

ASSUME WidthAssumption == Width \in Nat \ {0}

Window == [started : BOOLEAN, top : Nat, bits : SUBSET (0 .. Width - 1)]

NewWindow == [started |-> FALSE, top |-> 0, bits |-> {}]

(* Mutant of Accepts: the window reaches one counter too far back.         *)
AcceptsTooFar(w, ctr) ==
  \/ ~w.started
  \/ ctr > w.top
  \/ w.top - ctr <= Width /\ (w.top - ctr) \notin w.bits

(* accept() returns true.                                                  *)
Accepts(w, ctr) ==
  \/ ~w.started
  \/ ctr > w.top
  \/ w.top - ctr < Width /\ (w.top - ctr) \notin w.bits

(* Mutant of Shifted: the word is not shifted, only the top is moved.      *)
ShiftedInPlace(bits, shift) == bits \cup {0}

(* Mutant of Shifted: bits that should leave the word are kept.            *)
ShiftedWide(bits, shift) == {0} \cup {b + shift : b \in bits}

(* Moving the window forward by `shift': bits that leave the word are lost, *)
(* and the new top is marked.                                              *)
Shifted(bits, shift) == {b \in 0 .. Width - 1 : b = 0 \/ (b >= shift /\ b - shift \in bits)}

(* The window that accept() leaves behind.                                 *)
Accept(w, ctr) ==
  CASE ~w.started -> [started |-> TRUE, top |-> ctr, bits |-> {0}]
    [] w.started /\ ctr > w.top ->
         [w EXCEPT !.top = ctr, !.bits = Shifted(w.bits, ctr - w.top)]
    [] w.started /\ ctr <= w.top /\ Accepts(w, ctr) ->
         [w EXCEPT !.bits = @ \cup {w.top - ctr}]
    [] OTHER -> w
=============================================================================

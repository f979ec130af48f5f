------------------------------- MODULE MCWire --------------------------------
(* Small instances of Wire: one device, one or two lanes, times that keep   *)
(* the order of the code's: CLIENT_REPEAT, BREAKER < the deadline of a      *)
(* fetch < FRESH = RESPONSE_KEEP < PENDING_KEEP < 2 * FRESH < SESSION_IDLE. *)
(* Each run takes a set of scenarios: Calm with some adversity added.       *)
EXTENDS Wire

CONSTANTS lane1, lane2, phone, home, nowhere

BothLanes == {lane1, lane2}
OnePhone == {phone}
AtOnce == 0 - 1     \* every copy of message 1 counts as a retry
SamePhone == [l \in Lanes |-> phone]

Calm ==
  [losses |-> 0, copies |-> 0, lanes |-> {lane1}, fetches |-> 2, secrets |-> {FALSE},
   asks |-> 1, patient |-> FALSE, apart |-> FALSE, oversized |-> FALSE,
   rebinds |-> 0, restarts |-> 0, rotations |-> 0, time |-> 0]

(* A datagram lost or duplicated, of a fetch that asks again at any moment, *)
(* secret or not, or of one of two that do not.                             *)
OneAsking == [Calm EXCEPT !.fetches = 1]
NoneAsking == [Calm EXCEPT !.asks = 0]
Unreliable ==
  {[OneAsking EXCEPT !.losses = 1, !.secrets = {TRUE, FALSE}],
   [OneAsking EXCEPT !.copies = 1, !.secrets = {TRUE, FALSE}],
   [NoneAsking EXCEPT !.losses = 1], [NoneAsking EXCEPT !.copies = 1]}

(* Timers that wait for what is under way: two losses; two lanes; rotations *)
(* and a change of address; a restart.                                      *)
Asking == [Calm EXCEPT !.asks = 4, !.patient = TRUE]
Recovering ==
  {[Asking EXCEPT !.losses = 2], [Asking EXCEPT !.lanes = BothLanes],
   [Asking EXCEPT !.rotations = 2, !.rebinds = 1],
   [Asking EXCEPT !.restarts = 1, !.losses = 1]}

Exchanges == Unreliable \cup Recovering

(* A request that goes out after message 2, and a loss.                     *)
SecretLost == {[OneAsking EXCEPT !.secrets = {TRUE}, !.losses = 1]}

(* A long time, in which message 1 comes again; two fetches at once with    *)
(* requests of their own, and answers too large to send; a timer at any     *)
(* moment of two fetches; three sessions, one more than there is room for,  *)
(* as message 1 of a fetch given up comes while another waits; sweeps of    *)
(* open and answered requests while the next fetch waits, and an answer to  *)
(* a request that another run of it has answered.                           *)
Limits ==
  {[OneAsking EXCEPT !.asks = 0, !.time = 6, !.copies = 2],
   [NoneAsking EXCEPT !.lanes = BothLanes, !.secrets = {TRUE}, !.oversized = TRUE],
   Calm,
   [NoneAsking EXCEPT !.fetches = 3, !.time = 1],
   [Calm EXCEPT !.apart = TRUE, !.time = 3]}
=============================================================================

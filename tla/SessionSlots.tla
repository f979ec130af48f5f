---------------------------- MODULE SessionSlots ----------------------------
(***************************************************************************)
(* The saved sessions of the UDP client (vtop-wire/src/client.rs).  Each   *)
(* run is one call of fetch(), in the app or in a background isolate.  All *)
(* runs share a directory of session files; a run locks one file for its   *)
(* whole fetch and reserves a block of packet counters in it before it     *)
(* seals anything.                                                         *)
(*                                                                         *)
(* A packet is its nonce (session key and counter) and its plaintext; the  *)
(* plaintext is named by the fetch that made it and the packet's place in  *)
(* that fetch.  What arrives from the network only decides which step      *)
(* comes next, so it is a free choice here.                                *)
(***************************************************************************)
EXTENDS Naturals

CONSTANTS
  Runs,        \* concurrent callers of fetch()
  Slots,       \* session.0 .. session.(SLOTS - 1), by number
  Block,       \* COUNTER_BLOCK
  MaxPackets,  \* bound: packets one exchange seals before its deadline
  MaxFetches,  \* bound: fetches started
  Nobody,      \* holder of a slot no run has locked
  NoSlot,      \* what claim() returns when every slot is locked
  NoSession    \* a session file that does not parse: new, empty or torn

ASSUME SlotsAssumption ==
  /\ Slots \subseteq Nat
  /\ NoSlot \notin Slots
  /\ Nobody \notin Runs
  /\ NoSession \notin [key : Nat, next : Nat]
ASSUME BoundsAssumption ==
  /\ Block \in Nat \ {0}
  /\ MaxPackets \in Nat
  /\ MaxFetches \in Nat

VARIABLES
  file,     \* the content of each session file
  holder,   \* the run that holds the lock of each session file
  run,      \* the state of each caller
  sealed,   \* every packet ever sealed
  keys,     \* handshakes completed: session keys are numbered in order
  fetches   \* fetches started

vars == <<file, holder, run, sealed, keys, fetches>>

File == {NoSession} \cup [key : Nat, next : Nat]

Packet == [key : Nat, ctr : Nat, fetch : Nat, nth : Nat]

(* Where a run is: not fetching; about to write the reservation of a saved *)
(* session; waiting for handshake message 2; in the loop of exchange();    *)
(* about to write the session back.                                        *)
Phase == {"idle", "reserve", "handshake", "exchange", "save"}

RunState ==
  [pc : Phase, slot : Slots \cup {NoSlot}, fetch : Nat,
   key : Nat,           \* the session in use
   ctr : Nat,           \* the next counter to seal with
   end : Nat,           \* reserved_end
   nth : Nat,           \* packets sealed by this fetch
   resettable : BOOLEAN,\* exchange() was called with a session: !new_session
   again : BOOLEAN]     \* the one retry after a reset is spent

Idle == [pc |-> "idle", slot |-> NoSlot, fetch |-> 0, key |-> 0, ctr |-> 0,
         end |-> 0, nth |-> 0, resettable |-> FALSE, again |-> FALSE]

Init ==
  /\ file = [s \in Slots |-> NoSession]
  /\ holder = [s \in Slots |-> Nobody]
  /\ run = [r \in Runs |-> Idle]
  /\ sealed = {}
  /\ keys = 0
  /\ fetches = 0
-----------------------------------------------------------------------------
Held(r) == {s \in Slots : holder[s] = r}

(* The lock goes when the file is closed: at the end of the fetch or when  *)
(* the process dies.                                                       *)
Release(r) ==
  /\ run' = [run EXCEPT ![r] = Idle]
  /\ holder' = [s \in Slots |-> IF holder[s] = r THEN Nobody ELSE holder[s]]

(* Mutant of Torn: the part of the text that got there parses.             *)
TornParses(s, saved) == {file[s], NoSession, [key |-> saved.key]}

(* A write that fails or is cut short: the file was truncated or not       *)
(* touched, or all of it got there.  A part of the text does not parse.    *)
Torn(s, saved) == {file[s], NoSession, saved}

(* Mutant of FirstFree: the lock is not looked at.                         *)
AnySlot == {s \in Slots : \A t \in Slots : s <= t}

(* Slot::claim: the first slot nobody has locked.                          *)
FirstFree ==
  {s \in Slots : holder[s] = Nobody /\ \A t \in Slots : holder[t] = Nobody => s <= t}

(* fetch() up to the choice between a saved session and a handshake.  A    *)
(* session for another gateway key or older than REKEY is left alone.      *)
Start(r) ==
  /\ run[r].pc = "idle"
  /\ fetches < MaxFetches
  /\ fetches' = fetches + 1
  /\ \/ /\ FirstFree = {}
        /\ run' = [run EXCEPT ![r] = [Idle EXCEPT !.pc = "handshake", !.fetch = fetches + 1]]
        /\ UNCHANGED holder
     \/ \E s \in FirstFree, usable \in BOOLEAN :
          /\ usable => file[s] /= NoSession
          /\ holder' = [holder EXCEPT ![s] = r]
          /\ run' = [run EXCEPT ![r] =
               IF usable
                 THEN [Idle EXCEPT !.pc = "reserve", !.slot = s, !.fetch = fetches + 1,
                                   !.key = file[s].key, !.ctr = file[s].next]
                 ELSE [Idle EXCEPT !.pc = "handshake", !.slot = s, !.fetch = fetches + 1]]
  /\ UNCHANGED <<file, sealed, keys>>
-----------------------------------------------------------------------------
(* Mutant of Reserve: the block is only counted in memory.                 *)
ReserveInMemory(r) ==
  /\ run[r].pc = "reserve"
  /\ run' = [run EXCEPT ![r].pc = "exchange", ![r].end = run[r].ctr + Block,
                        ![r].resettable = TRUE]
  /\ UNCHANGED <<file, holder, sealed, keys, fetches>>

(* The first lines of exchange() with a session: the end of the block is   *)
(* on disk before its first counter is used.                               *)
Reserve(r) ==
  LET me == run[r]
      end == me.ctr + Block
  IN /\ me.pc = "reserve"
     /\ file' = IF me.slot = NoSlot THEN file
                ELSE [file EXCEPT ![me.slot] = [key |-> me.key, next |-> end]]
     /\ run' = [run EXCEPT ![r].pc = "exchange", ![r].end = end, ![r].resettable = TRUE]
     /\ UNCHANGED <<holder, sealed, keys, fetches>>

(* The reservation cannot be written, or the process dies writing it: the  *)
(* fetch ends without having sealed anything.                              *)
ReserveFails(r) ==
  LET me == run[r]
  IN /\ me.pc = "reserve"
     /\ me.slot \in Slots
     /\ \E f \in Torn(me.slot, [key |-> me.key, next |-> me.ctr + Block]) :
          file' = [file EXCEPT ![me.slot] = f]
     /\ Release(r)
     /\ UNCHANGED <<sealed, keys, fetches>>

(* Handshake message 2 opened: a new session key, counters from zero.  The *)
(* request either rode in message 1 (the session is saved only at the end) *)
(* or follows under the new session, whose first block is then reserved    *)
(* like that of a saved one.                                               *)
Handshake(r) ==
  /\ run[r].pc = "handshake"
  /\ keys' = keys + 1
  /\ \E in_handshake \in BOOLEAN :
       run' = [run EXCEPT ![r].pc = IF in_handshake THEN "exchange" ELSE "reserve",
                          ![r].key = keys + 1, ![r].ctr = 0, ![r].end = Block,
                          ![r].resettable = FALSE]
  /\ UNCHANGED <<file, holder, sealed, fetches>>

(* The request, an ack, a request for more symbols or T_DONE: each seals   *)
(* under `ctr' and moves it on.  Nothing compares ctr with reserved_end.   *)
Seal(r) ==
  LET me == run[r]
  IN /\ me.pc = "exchange"
     /\ me.ctr + Block < me.end + MaxPackets
     /\ sealed' = sealed \cup
          {[key |-> me.key, ctr |-> me.ctr, fetch |-> me.fetch, nth |-> me.nth]}
     /\ run' = [run EXCEPT ![r].ctr = me.ctr + 1, ![r].nth = me.nth + 1]
     /\ UNCHANGED <<file, holder, keys, fetches>>

(* A reset with the session's token: hand-shake once more, then give up.   *)
Reset(r) ==
  /\ run[r].pc = "exchange"
  /\ run[r].resettable
  /\ IF run[r].again
       THEN Release(r)
       ELSE run' = [run EXCEPT ![r].pc = "handshake", ![r].again = TRUE] /\ UNCHANGED holder
  /\ UNCHANGED <<file, sealed, keys, fetches>>

(* The response is complete and T_DONE is on its way.                      *)
Finish(r) ==
  /\ run[r].pc = "exchange"
  /\ run[r].nth > 0
  /\ run' = [run EXCEPT ![r].pc = "save"]
  /\ UNCHANGED <<file, holder, sealed, keys, fetches>>

(* fetch() writes the session back, at the end of its block (or beyond, if *)
(* the exchange went beyond); nobody looks at whether the write worked.    *)
Save(r) ==
  LET me == run[r]
      next == IF me.ctr > me.end THEN me.ctr ELSE me.end
  IN /\ me.pc = "save"
     /\ IF me.slot = NoSlot THEN file' = file
        ELSE \E f \in Torn(me.slot, [key |-> me.key, next |-> next]) :
               file' = [file EXCEPT ![me.slot] = f]
     /\ Release(r)
     /\ UNCHANGED <<sealed, keys, fetches>>

(* The deadline passes, the handshake is refused, or the process dies.     *)
Abandon(r) ==
  /\ run[r].pc \in {"handshake", "exchange"}
  /\ Release(r)
  /\ UNCHANGED <<file, sealed, keys, fetches>>

Next ==
  \E r \in Runs :
    \/ Start(r) \/ Reserve(r) \/ ReserveFails(r) \/ Handshake(r) \/ Seal(r)
    \/ Reset(r) \/ Finish(r) \/ Save(r) \/ Abandon(r)

Spec == Init /\ [][Next]_vars
-----------------------------------------------------------------------------
TypeOK ==
  /\ file \in [Slots -> File]
  /\ holder \in [Slots -> Runs \cup {Nobody}]
  /\ run \in [Runs -> RunState]
  /\ sealed \subseteq Packet
  /\ keys \in Nat
  /\ fetches \in Nat

(* A nonce is never used for two different plaintexts, whatever crashes,   *)
(* torn files and concurrent isolates do: "a crash can skip counters but   *)
(* never reuse one".                                                       *)
NonceOnce ==
  \A p, q \in sealed : p.key = q.key /\ p.ctr = q.ctr => p = q

(* Two fetches never talk on one session at the same time: the gateway     *)
(* drops the queue of the request before when a new one arrives on it.     *)
Busy(r) == run[r].pc \in {"reserve", "exchange", "save"}

OneRunPerSession ==
  \A r, t \in Runs : Busy(r) /\ Busy(t) /\ run[r].key = run[t].key => r = t
-----------------------------------------------------------------------------
(* Why NonceOnce holds.                                                    *)

(* An exchange ends, by its deadline, before its block is used up.  The    *)
(* code relies on this and does not check it.                              *)
BlockCovers == MaxPackets <= Block

Saved(s) == file[s] /= NoSession

(* Keys in use come from handshakes that happened.                         *)
KeysKnown ==
  /\ \A p \in sealed : p.key <= keys
  /\ \A s \in Slots : Saved(s) => file[s].key <= keys
  /\ \A r \in Runs : Busy(r) => run[r].key <= keys

(* A run that works on a slot holds its lock.                              *)
LockHeld ==
  \A r \in Runs : run[r].pc /= "idle" /\ run[r].slot \in Slots => holder[run[r].slot] = r

(* A session is in one file at most, and a run's session is in no file but *)
(* its own.                                                                *)
OneFile ==
  /\ \A s, t \in Slots : Saved(s) /\ Saved(t) /\ file[s].key = file[t].key => s = t
  /\ \A r \in Runs, s \in Slots :
       Busy(r) /\ Saved(s) /\ file[s].key = run[r].key => run[r].slot = s

(* What was sealed lies behind the counter of the run that owns the        *)
(* session, and behind the counter that its file tells the next run.       *)
BehindRun ==
  \A r \in Runs, p \in sealed : Busy(r) /\ p.key = run[r].key => p.ctr < run[r].ctr

BehindFile ==
  \A s \in Slots, p \in sealed : Saved(s) /\ p.key = file[s].key => p.ctr < file[s].next

(* A run that seals has the end of its block on disk, if its session is.   *)
Reserved ==
  \A r \in Runs :
    run[r].pc \in {"exchange", "save"} =>
      /\ run[r].ctr <= run[r].end
      /\ \A s \in Slots : Saved(s) /\ file[s].key = run[r].key => run[r].end <= file[s].next

IInv ==
  /\ TypeOK
  /\ KeysKnown
  /\ LockHeld
  /\ OneFile
  /\ OneRunPerSession
  /\ BehindRun
  /\ BehindFile
  /\ Reserved
  /\ NonceOnce
=============================================================================

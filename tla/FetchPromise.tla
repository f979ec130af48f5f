---------------------------- MODULE FetchPromise -----------------------------
(***************************************************************************)
(* What fetch() promises its caller, whatever the network does: the answer *)
(* is that of one run of this very request at the gateway, it comes after  *)
(* that run, and while the caller waits the request is run at most once    *)
(* in a life of the gateway, which forgets all in a restart.               *)
(***************************************************************************)
EXTENDS Naturals, FiniteSets

CONSTANT Lanes

VARIABLES
  begun,         \* fetches begun
  lane,          \* each lane's latest fetch, its state and the run that answered
  life,          \* the gateway's life
  ran            \* the runs at the gateway, each for a fetch

vars == <<begun, lane, life, ran>>

Init ==
  /\ begun = 0
  /\ lane = [l \in Lanes |-> [fetch |-> 0, st |-> "idle", run |-> 0]]
  /\ life = 0
  /\ ran = {}

Begin(l) ==
  /\ lane[l].st /= "waiting"
  /\ begun' = begun + 1
  /\ lane' = [lane EXCEPT ![l] = [fetch |-> begun + 1, st |-> "waiting", run |-> 0]]
  /\ UNCHANGED <<life, ran>>

WaitedFor(f) == \E l \in Lanes : lane[l].fetch = f /\ lane[l].st = "waiting"

Run(f) ==
  /\ WaitedFor(f) => \A r \in ran : r.fetch = f => r.life /= life
  /\ ran' = ran \cup {[fetch |-> f, run |-> Cardinality(ran) + 1, life |-> life]}
  /\ UNCHANGED <<begun, lane, life>>

Answer(l) ==
  /\ lane[l].st = "waiting"
  /\ \E r \in ran :
       /\ r.fetch = lane[l].fetch
       /\ lane' = [lane EXCEPT ![l].st = "answered", ![l].run = r.run]
  /\ UNCHANGED <<begun, life, ran>>

Fail(l) ==
  /\ lane[l].st = "waiting"
  /\ lane' = [lane EXCEPT ![l].st = "failed"]
  /\ UNCHANGED <<begun, life, ran>>

Restart == life' = life + 1 /\ UNCHANGED <<begun, lane, ran>>

Next ==
  \/ \E l \in Lanes : Begin(l) \/ Answer(l) \/ Fail(l)
  \/ \E f \in 1 .. begun : Run(f)
  \/ Restart

Spec == Init /\ [][Next]_vars
=============================================================================

-------------------------------- MODULE Wire ---------------------------------
(***************************************************************************)
(* UDP mode as a whole: the phones of WireClient, the gateway of           *)
(* WireGateway and the network of WireNet between them.                    *)
(***************************************************************************)
EXTENDS WireGateway, WireClient

CONSTANT
  Timeout        \* how long a fetch may take

ASSUME TimeoutAssumption == Timeout \in Nat

VARIABLE rebinds

vars == <<gvars, cvars, net, rebinds>>

Init == NetInit /\ GatewayInit /\ ClientInit /\ rebinds = 0
-----------------------------------------------------------------------------
NewAddress(ip) == [ip |-> ip, port |-> fetches + rebinds + 1]

(* Nothing in flight but what waits for message 2, nothing running,        *)
(* nothing queued that could be sent.                                      *)
Quiet ==
  /\ up = {} /\ jobs = {}
  /\ \A p \in down : \E l \in Lanes : p.to = client[l].addr /\ Early(l, p)
  /\ \A o \in queue : ~Lapsed(o) /\ ~Affordable(o)

(* Timers are set from the link's measured times.  Patient ones outlast    *)
(* all that is under way; others fire at any moment.                       *)
TimerDue == scenario.patient => Quiet

Uplink ==
  /\ \E p \in up, copied \in BOOLEAN :
       Receive(p) /\ up' = Remaining(p, up, copied) /\ Copied(copied)
  /\ UNCHANGED <<cvars, rebinds>>

Downlink ==
  /\ \E l \in Lanes, p \in down, copied \in BOOLEAN :
       Arrives(l, p, Remaining(p, down, copied), now) /\ Copied(copied)
  /\ UNCHANGED <<gvars, losses, rebinds, scenario>>

Lose == (LoseUp \/ LoseDown) /\ UNCHANGED <<gvars, cvars, rebinds>>

(* The phone holds the current gateway key, or an older one.               *)
Fetch(l) ==
  /\ scenario.apart => Quiet
  /\ \E ip \in Ips, key \in 1 .. gkeys[1], secret \in scenario.secrets :
       Start(l, NewAddress(ip), key, secret, now)
  /\ UNCHANGED <<gvars, rebinds>>

(* The phone's address changes under a fetch (a NAT, another network).     *)
Rebind(l) ==
  /\ Active(l)
  /\ rebinds < scenario.rebinds
  /\ rebinds' = rebinds + 1
  /\ \E ip \in Ips :
       /\ client' = [client EXCEPT ![l].addr = NewAddress(ip)]
       /\ sockets' = (sockets \ {client[l].addr}) \cup {NewAddress(ip)}
  /\ down' = {p \in down : p.to /= client[l].addr}
  /\ UNCHANGED <<gvars, kept, fetches, asked, hellos, up, losses, copies, scenario>>

Wait(l) == TimerDue /\ (HelloAgain(l) \/ Timer(l)) /\ UNCHANGED <<gvars, rebinds>>

(* With patient timers the deadline comes after the last of them.          *)
Deadline(l) ==
  /\ scenario.patient => Quiet /\ client[l].asks >= scenario.asks
  /\ GiveUp(l)
  /\ UNCHANGED <<gvars, rebinds>>

Poll == \E o \in queue : PollDrop(o) \/ PollSend(o)

Answer == \E job \in jobs : Respond(job) \/ Refuse(job)

(* The deadline is set when a fetch begins (client.rs:107-108): no time    *)
(* passes that would leave one waiting beyond it.                          *)
InTime == \A l \in Lanes : Active(l) => now - client[l].began < Timeout

TimePasses == Tick /\ InTime

Gateway ==
  /\ \/ Poll \/ Answer \/ (\E w \in working : SendWorking(w))
     \/ Sweep \/ SetKeys \/ Restart \/ TimePasses
  /\ UNCHANGED <<cvars, rebinds>>

Next ==
  \/ Uplink \/ Downlink \/ Lose
  \/ \E l \in Lanes : Fetch(l) \/ Rebind(l) \/ Wait(l) \/ Deadline(l)
  \/ Gateway

Spec == Init /\ [][Next]_vars

(* The network delivers what it does not lose; the gateway's loop polls    *)
(* and the engine answers; the phone's timers fire and its deadline comes. *)
FairSpec ==
  /\ Spec
  /\ WF_vars(Uplink) /\ WF_vars(Downlink)
  /\ WF_vars(Poll /\ UNCHANGED <<cvars, rebinds>>)
  /\ WF_vars(Answer /\ UNCHANGED <<cvars, rebinds>>)
  /\ \A l \in Lanes : WF_vars(Wait(l)) /\ WF_vars(Deadline(l))
-----------------------------------------------------------------------------
(* Packets, sessions and fetches are of the shapes the code gives them;    *)
(* what an address not proven may still be sent is never overdrawn.        *)
TypeOK ==
  /\ \A p \in up : p.t \in {"HS1", "REQ", "DONE"} /\ p.from \in Address
  /\ \A p \in down : p.t \in {"HS2", "WRONG_KEY", "RESET", "DATA", "WORKING"} /\ p.to \in Address
  /\ \A o \in queue : o.pkt.t = "DATA" => o.pkt.sym \in 0 .. K + Pool - 1 /\ o.pkt.pos < o.pkt.len
  /\ \A x \in DOMAIN sessions :
       /\ x \in 1 .. sids
       /\ sessions[x].window \in Window
       /\ sessions[x].dev \in Devices /\ sessions[x].peer \in Address
       /\ sessions[x].ctr \in Nat /\ sessions[x].credit \in Nat /\ sessions[x].heard \in 0 .. now
       /\ \A id \in DOMAIN sessions[x].resp : id \in 1 .. Len(asked)
  /\ \A e \in DOMAIN handshakes : e \in 1 .. hellos /\ handshakes[e].sid \in 1 .. sids
  /\ \A l \in Lanes :
       /\ client[l].pc \in {"idle", "handshake", "exchange", "done", "failed"}
       /\ client[l].asks \in 0 .. scenario.asks

Status(c) ==
  CASE c.pc \in {"handshake", "exchange"} -> "waiting" [] c.pc = "done" -> "answered"
    [] OTHER -> c.pc

Promise ==
  INSTANCE FetchPromise WITH
    begun <- fetches,
    life <- restarts,
    lane <- [l \in Lanes |-> [fetch |-> client[l].fetch, st |-> Status(client[l]),
                              run |-> client[l].answer]],
    ran <- {[fetch |-> asked[j.id].fetch, run |-> j.run, life |-> j.life] : j \in runs}

(* The transport keeps what fetch() promises (client.rs:95, lib.rs:16-18): *)
(* whatever is lost, repeated or overtaken, an answer is put together from *)
(* the symbols of one run of that very request, and a request somebody     *)
(* waits for is not run again for its retransmissions.                     *)
PromiseKept == Promise!Spec

(* What was run for a fetch that still waits is not forgotten before the   *)
(* fetch has its answer, except in a restart, whatever is swept, answered  *)
(* twice, done with or evicted meanwhile: otherwise a retransmission is    *)
(* taken for a new request (gateway.rs:476), and PromiseKept needs it.     *)
(* Only a gateway that is full of sessions heard from since the fetch      *)
(* began may evict its session (gateway.rs:390).                           *)
Crowded(since) ==
  /\ Cardinality(DOMAIN sessions) >= MaxSessions
  /\ \A x \in DOMAIN sessions : sessions[x].heard >= since

StillHeld ==
  \A l \in Lanes, j \in runs :
    Active(l) /\ asked[j.id].fetch = client[l].fetch /\ j.life = restarts =>
      \/ j.sid \in DOMAIN sessions /\ j.id \in DOMAIN sessions[j.sid].resp
      \/ Crowded(client[l].began)

(* No two packets are sealed under the same counter of one direction of a  *)
(* session (frame.rs: the nonce is the counter), whichever entry point or  *)
(* fetch sealed them.                                                      *)
Sealed(ps) == {p \in ps : p.t \in {"REQ", "DONE", "DATA", "WORKING"}}
Content(p) == [f \in DOMAIN p \ {"to"} |-> p[f]]
SealedOnce ==
  /\ \A p, q \in Sealed(up) : p.sid = q.sid /\ p.ctr = q.ctr => p = q
  /\ \A p, q \in Sealed({Content(d) : d \in down} \cup {o.pkt : o \in queue}) :
       p.sid = q.sid /\ p.ctr = q.ctr => p = q

(* A fetch on a session is never left with a request nobody will bring to  *)
(* the gateway: the gateway has it, or a packet with the body is under     *)
(* way, or the next timer sends one, or a reset will start over: the body  *)
(* is sent "in case the gateway never got round 0" (msg.rs:16-17).  It is  *)
(* not so when the request goes out after message 2.                       *)
Brought(l) ==
  LET c == client[l]
  IN \/ c.sid \in DOMAIN sessions /\ c.id \in DOMAIN sessions[c.sid].resp
     \/ \E p \in up : p.t \in {"HS1", "REQ"} /\ p.req.id = c.id /\ p.req.body
     \/ WithBody(c)
     \/ c.sid \notin DOMAIN sessions /\ c.resettable
RequestNotStranded == \A l \in Lanes : client[l].pc = "exchange" => Brought(l)

(* The same of every fetch but those: with the request in message 1, or on *)
(* a saved session.  A gateway that restarts forgets the session of the    *)
(* first, and the phone, which takes no reset on a session so new          *)
(* (client.rs:420), waits for nothing.                                     *)
AfterMessage2(c) == c.secret /\ c.eph > 0
Forgotten(c) == restarts > 0 /\ ~c.resettable
OthersNotStranded ==
  \A l \in Lanes :
    client[l].pc = "exchange" /\ ~AfterMessage2(client[l]) /\ ~Forgotten(client[l]) => Brought(l)

(* A request that rode in message 1 is run once in the life of a gateway,  *)
(* however often and however late the message comes again (gateway.rs:6-8).*)
HelloRunsOnce ==
  \A a, b \in runs : a.id = b.id /\ a.life = b.life /\ asked[a.id].hello => a.run = b.run

(* What a phone can make the gateway keep and run at once is bounded       *)
(* (gateway.rs:50-54): sessions, and requests open in a session.           *)
WithinLimits ==
  /\ Cardinality(DOMAIN sessions) <= MaxSessions
  /\ \A x \in DOMAIN sessions : Cardinality(OpenRequests(sessions[x])) <= MaxPending

(* A fetch ends in its answer if losses end and the phone keeps asking,    *)
(* whatever its key, address or the gateway's queues do meanwhile.  When   *)
(* the gateway may restart, a fetch on a saved session still does          *)
(* (client.rs:148: the gateway forgot the session, so shake hands now);    *)
(* and a phone whose key is two rotations old may instead be told so       *)
(* (gateway.rs:121-122: it may still hold the key before).  The timers     *)
(* have to be patient: there are only so many of them.                     *)
Survives(l) == scenario.restarts = 0 \/ client[l].resettable \/ client[l].again
Answered ==
  \A l \in Lanes :
    scenario.patient /\ Active(l) /\ Survives(l) ~> client[l].pc = "done" \/ client[l].key + 1 < gkeys[1]
=============================================================================

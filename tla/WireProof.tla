----------------------------- MODULE WireProof ------------------------------
(***************************************************************************)
(* What holds of UDP mode whatever is lost, repeated, overtaken or held    *)
(* back, for every number of phones, sessions and symbols:                 *)
(*                                                                         *)
(*   TypeOKHolds         from the typed invariant, one lemma per action;   *)
(*   WithinLimitsHolds   sessions and open requests are bounded;           *)
(*   SealedOnceHolds     no counter seals two packets of one direction;    *)
(*   HelloRunsOnceHolds  a request of message 1 is run once;               *)
(*   PromiseKeptHolds    fetch() keeps its promise: Wire implements        *)
(*                       FetchPromise;                                     *)
(*   StillHeldHolds      what a fetch waits for is not forgotten before    *)
(*                       its deadline, so that (PromiseKeptInTime) the     *)
(*                       promise is kept;                                  *)
(*   OthersNotStrandedHolds  no fetch is left with a request that nobody   *)
(*                       brings to the gateway, but for what msg.rs says   *)
(*                       and the code does not do;                         *)
(*                                                                         *)
(* and of the window alone, hearing any counter at any time (ReplayGuard): *)
(*                                                                         *)
(*   OpenedAtMostOnce    no counter passes twice;                          *)
(*   FreshPasses         nothing new within its width is turned away;      *)
(*   WindowStaysTyped    its bits stay within its width.                   *)
(***************************************************************************)
EXTENDS Wire, ReplayGuard, Integers, SequenceTheorems, FiniteSetTheorems, TLAPS

(* What every variable holds.                                              *)
Numbers ==
  /\ now \in Nat /\ hellos \in Nat /\ sids \in Nat
  /\ scenario \in Scenarios
  /\ fetches \in 0 .. scenario.fetches /\ rebinds \in 0 .. scenario.rebinds
  /\ asked \in Seq([fetch : Nat, hello : BOOLEAN])

IsReq(r) == r.id \in DOMAIN asked /\ r.want \in Nat

IsUp(p) ==
  /\ p.t \in {"HS1", "REQ", "DONE"} /\ p.from \in Address
  /\ p.t = "HS1" => p.eph \in 1 .. hellos /\ p.dev \in Devices
  /\ p.t \in {"HS1", "REQ"} => IsReq(p.req)
  /\ p.t \in {"REQ", "DONE"} => p.ctr \in Nat /\ p.sid \in 1 .. sids

IsDown(p) ==
  /\ p.t \in {"HS2", "WRONG_KEY", "RESET", "DATA", "WORKING"} /\ p.to \in Address
  /\ p.t = "HS2" => p.eph \in 1 .. hellos /\ p.sid \in 1 .. sids

IsQueued(o) ==
  /\ "t" \in DOMAIN o.pkt /\ "to" \notin DOMAIN o.pkt
  /\ o.pkt = [f \in DOMAIN o.pkt |-> o.pkt[f]]
  /\ o.pkt.t \in {"DATA", "WORKING"}
  /\ o.pkt.t = "DATA" => o.pkt.sym \in 0 .. K + Pool - 1 /\ o.pkt.pos < o.pkt.len

IsResponse(r) ==
  /\ DOMAIN r = {"ready", "at", "round", "rounds", "run", "next"}
  /\ r.next \in Nat

Open(rs) == {id \in DOMAIN rs : ~rs[id].ready}

(* The requests of a session: no more are open than it may have.           *)
IsResponses(rs) ==
  /\ \A id \in DOMAIN rs : id \in DOMAIN asked /\ IsResponse(rs[id])
  /\ IsFiniteSet(Open(rs)) /\ Cardinality(Open(rs)) <= MaxPending

IsSession(s) ==
  /\ DOMAIN s = {"dev", "window", "ctr", "peer", "validated", "credit", "heard", "resp"}
  /\ s.window \in Window /\ s.dev \in Devices /\ s.peer \in Address
  /\ s.ctr \in Nat /\ s.credit \in Nat /\ s.heard \in 0 .. now
  /\ IsResponses(s.resp)

AllSessions(ss) == \A x \in DOMAIN ss : IsSession(ss[x])

SessionsTyped ==
  /\ DOMAIN sessions \subseteq 1 .. sids
  /\ IsFiniteSet(DOMAIN sessions) /\ Cardinality(DOMAIN sessions) <= MaxSessions
  /\ AllSessions(sessions)

HandshakesTyped ==
  \A e \in DOMAIN handshakes : e \in 1 .. hellos /\ handshakes[e].sid \in 1 .. sids

IsActive(c) ==
  /\ c.addr \in Address /\ c.id \in DOMAIN asked
  /\ IsFiniteSet(DOMAIN c.got) /\ Cardinality(DOMAIN c.got) < Symbols
  /\ c.pc = "handshake" => c.eph \in 1 .. hellos
  /\ c.pc = "exchange" => c.sid \in 1 .. sids /\ c.ctr \in Nat /\ c.end \in Nat

IsFetch(c) ==
  /\ DOMAIN c = DOMAIN NoFetch
  /\ c.pc \in {"idle", "handshake", "exchange", "done", "failed"}
  /\ c.fetch \in Nat /\ c.asks \in 0 .. scenario.asks
  /\ c.pc \in {"handshake", "exchange"} => IsActive(c)

IsKept(k) == k = NoSaved \/ (k.sid \in 1 .. sids /\ k.next \in Nat)

LanesTyped ==
  /\ DOMAIN client = Lanes /\ DOMAIN kept = Lanes
  /\ \A l \in Lanes : IsFetch(client[l]) /\ IsKept(kept[l])

PacketsTyped ==
  (\A p \in up : IsUp(p)) /\ (\A p \in down : IsDown(p)) /\ (\A o \in queue : IsQueued(o))

Typed == Numbers /\ PacketsTyped /\ SessionsTyped /\ HandshakesTyped /\ LanesTyped
-----------------------------------------------------------------------------
(* Counts and clocks only grow, and what was typed stays so.               *)
Onward ==
  /\ Numbers' /\ scenario' = scenario
  /\ now <= now' /\ hellos <= hellos' /\ sids <= sids' /\ Len(asked) <= Len(asked')

LEMMA StaysTyped ==
  ASSUME Numbers, Onward
  PROVE  /\ \A p : IsUp(p) => IsUp(p)'
         /\ \A p : IsDown(p) => IsDown(p)'
         /\ \A s : IsSession(s) => IsSession(s)'
         /\ \A c : IsFetch(c) => IsFetch(c)'
         /\ \A k : IsKept(k) => IsKept(k)'
<1>1. /\ DOMAIN asked \subseteq DOMAIN asked'
      /\ 1 .. hellos \subseteq 1 .. hellos' /\ 1 .. sids \subseteq 1 .. sids' /\ 0 .. now \subseteq 0 .. now'
  BY DEF Numbers, Onward
<1>2. \A p : IsUp(p) => IsUp(p)'
  BY <1>1 DEF IsUp, IsReq
<1>3. \A p : IsDown(p) => IsDown(p)'
  BY <1>1 DEF IsDown
<1>4. \A s : IsSession(s) => IsSession(s)'
  <2> SUFFICES ASSUME NEW s, IsSession(s) PROVE IsSession(s)'
    OBVIOUS
  <2>1. IsResponses(s.resp)'
    BY <1>1 DEF IsSession, IsResponses
  <2> QED BY <1>1, <2>1 DEF IsSession
<1>5. \A c : IsFetch(c) => IsFetch(c)'
  BY <1>1 DEF IsFetch, IsActive, Onward
<1>6. \A k : IsKept(k) => IsKept(k)'
  BY <1>1 DEF IsKept
<1> QED BY <1>2, <1>3, <1>4, <1>5, <1>6

(* What a step of lane l must leave behind.                                *)
LEMMA LaneTyped ==
  ASSUME Typed, Onward, UNCHANGED <<sessions, handshakes, queue>>,
         NEW l \in Lanes, NEW d, client' = [client EXCEPT ![l] = d], IsFetch(d)',
         \/ kept' = kept
         \/ \E k : kept' = [kept EXCEPT ![l] = k] /\ IsKept(k)',
         \A p \in up' : p \in up \/ IsUp(p)', down' \subseteq down
  PROVE  Typed'
<1>0. /\ \A p : IsUp(p) => IsUp(p)'
      /\ \A p : IsDown(p) => IsDown(p)'
      /\ \A s : IsSession(s) => IsSession(s)'
      /\ \A c : IsFetch(c) => IsFetch(c)'
      /\ \A k : IsKept(k) => IsKept(k)'
  BY StaysTyped DEF Typed
<1>1. PacketsTyped'
  BY <1>0 DEF Typed, PacketsTyped, IsQueued
<1>2. SessionsTyped' /\ HandshakesTyped'
  BY <1>0 DEF Typed, SessionsTyped, AllSessions, HandshakesTyped, Onward, Numbers
<1>3. LanesTyped'
  <2>1. DOMAIN client' = Lanes /\ DOMAIN kept' = Lanes
    BY DEF Typed, LanesTyped
  <2>2. ASSUME NEW m \in Lanes PROVE IsFetch(client[m])'
    <3>1. CASE m = l
      <4>1. client'[m] = d
        BY <3>1 DEF Typed, LanesTyped
      <4> QED BY <4>1 DEF IsFetch, IsActive
    <3>2. CASE m /= l
      <4>1. client'[m] = client[m] /\ IsFetch(client[m])
        BY <3>2 DEF Typed, LanesTyped
      <4> QED BY <1>0, <4>1 DEF IsFetch, IsActive
    <3> QED BY <3>1, <3>2
  <2>3. ASSUME NEW m \in Lanes PROVE IsKept(kept[m])'
    <3>1. CASE kept'[m] = kept[m]
      BY <1>0, <3>1 DEF IsKept, Typed, LanesTyped
    <3>2. CASE kept'[m] /= kept[m]
      <4>1. PICK k : kept' = [kept EXCEPT ![l] = k] /\ IsKept(k)'
        BY <3>2
      <4>2. kept'[m] = k
        BY <3>2, <4>1 DEF Typed, LanesTyped
      <4> QED BY <4>1, <4>2 DEF IsKept
    <3> QED BY <3>1, <3>2
  <2> QED BY <2>1, <2>2, <2>3 DEF LanesTyped
<1> QED BY <1>1, <1>2, <1>3 DEF Typed, Onward
-----------------------------------------------------------------------------
(* The steps of a phone.                                                   *)
LEMMA SameNumbers ==
  ASSUME Numbers, UNCHANGED <<now, sids, asked, hellos, fetches, rebinds, scenario>>
  PROVE  Onward
BY DEF Numbers, Onward

LEMMA AskedGrows ==
  ASSUME Numbers, NEW f \in Nat, NEW b \in BOOLEAN,
         asked' = Append(asked, [fetch |-> f, hello |-> b])
  PROVE  /\ asked' \in Seq([fetch : Nat, hello : BOOLEAN])
         /\ Len(asked) \in Nat /\ Len(asked') = Len(asked) + 1
         /\ DOMAIN asked = 1 .. Len(asked) /\ Len(asked) + 1 \in DOMAIN asked'
         /\ \A i \in DOMAIN asked : i \in DOMAIN asked' /\ asked'[i] = asked[i]
<1>1. asked \in Seq([fetch : Nat, hello : BOOLEAN])
  BY DEF Numbers
<1>2. [fetch |-> f, hello |-> b] \in [fetch : Nat, hello : BOOLEAN]
  OBVIOUS
<1> QED BY <1>1, <1>2

LEMMA NoneGot == IsFiniteSet(DOMAIN EmptyFun) /\ Cardinality(DOMAIN EmptyFun) < Symbols
<1>1. DOMAIN EmptyFun = {}
  BY DEF EmptyFun
<1>2. IsFiniteSet({}) /\ Cardinality({}) = 0
  BY FS_EmptySet
<1>3. 0 < Symbols
  BY ClientAssumption
<1> QED BY <1>1, <1>2, <1>3

LEMMA SessionTyped ==
  ASSUME Typed, NEW l \in Lanes, NEW c, IsFetch(c)', c.addr \in Address,
         IsFiniteSet(DOMAIN c.got), Cardinality(DOMAIN c.got) < Symbols,
         NEW sid \in 1 .. sids, NEW next \in Nat, NEW made, OnSession(l, c, sid, next, made),
         UNCHANGED gvars, UNCHANGED <<hellos, scenario, rebinds>>,
         fetches' \in 0 .. scenario.fetches, down' \subseteq down
  PROVE  Typed'
<1>0. Numbers /\ UNCHANGED <<now, sids, sessions, handshakes, queue>>
  BY DEF Typed, gvars, gateway
<1>id. PICK id : id = Len(asked) + 1
  OBVIOUS
<1>d. PICK d : d = [c EXCEPT !.pc = "exchange", !.id = id, !.sid = sid, !.ctr = next + 1,
                    !.end = next + Block, !.made = made, !.resettable = TRUE,
                    !.rounds = Set(EmptyFun, 0, Round(1))]
  OBVIOUS
<1>k. PICK k : k = [sid |-> sid, next |-> next + Block, key |-> c.key, made |-> made]
  OBVIOUS
<1>q. PICK q : q = Request(sid, next, Req(id, 0, 0, FALSE, TRUE), c.addr)
  OBVIOUS
<1>1. /\ client' = [client EXCEPT ![l] = d] /\ up' = up \cup {q} /\ kept' = [kept EXCEPT ![l] = k]
      /\ asked' = Append(asked, [fetch |-> c.fetch, hello |-> FALSE])
  BY <1>id, <1>d, <1>k, <1>q DEF OnSession, SendUp
<1>2. /\ DOMAIN d = DOMAIN NoFetch /\ d.fetch = c.fetch /\ d.pc = "exchange" /\ d.id = id
      /\ d.sid = sid /\ d.ctr = next + 1 /\ d.end = next + Block
  BY <1>d DEF IsFetch, NoFetch
<1>3. d.addr = c.addr /\ d.got = c.got /\ d.asks = c.asks
  BY <1>d DEF IsFetch, NoFetch
<1>4. /\ q.t = "REQ" /\ q.sid = sid /\ q.ctr = next /\ q.from = c.addr
      /\ q.req.id = id /\ q.req.want = 0
  BY <1>q DEF Request, Req
<1>5. k.sid = sid /\ k.next = next + Block
  BY <1>k
<1>6. /\ asked' \in Seq([fetch : Nat, hello : BOOLEAN])
      /\ Len(asked) \in Nat /\ Len(asked') = Len(asked) + 1 /\ id \in DOMAIN asked'
  BY <1>0, <1>1, <1>id, AskedGrows DEF IsFetch
<1>7. Onward
  BY <1>0, <1>6 DEF Onward, Numbers
<1>8. next + 1 \in Nat /\ next + Block \in Nat
  BY ClientAssumption
<1>9. IsFetch(d)'
  BY <1>0, <1>2, <1>3, <1>6, <1>8 DEF IsFetch, IsActive
<1>10. IsUp(q)'
  <2>1. q.req.want \in Nat
    BY <1>4
  <2>2. q.req.id \in DOMAIN asked'
    BY <1>4, <1>6
  <2>3. IsReq(q.req)'
    BY <2>1, <2>2 DEF IsReq
  <2> QED BY <1>0, <1>4, <2>3 DEF IsUp
<1>11. IsKept(k)'
  BY <1>0, <1>5, <1>8 DEF IsKept
<1> QED BY <1>0, <1>1, <1>7, <1>9, <1>10, <1>11, LaneTyped

LEMMA HelloTyped ==
  ASSUME Typed, NEW l \in Lanes, NEW c, DOMAIN c = DOMAIN NoFetch, c.fetch \in Nat,
         c.asks \in 0 .. scenario.asks, c.addr \in Address, c.got = EmptyFun,
         SayHello(l, c, now), UNCHANGED gvars, UNCHANGED <<scenario, rebinds, kept>>,
         fetches' \in 0 .. scenario.fetches, down' \subseteq down
  PROVE  Typed'
<1>0. Numbers /\ UNCHANGED <<now, sids, sessions, handshakes, queue>>
  BY DEF Typed, gvars, gateway
<1> PICK lead \in Leads :
      LET id == Len(asked) + 1
          eph == hellos + 1
          ts == [at |-> now + lead, n |-> eph]
      IN /\ client' = [client EXCEPT ![l] =
              [c EXCEPT !.pc = "handshake", !.id = id, !.eph = eph, !.ts = ts]]
         /\ asked' = Append(asked, [fetch |-> c.fetch, hello |-> TRUE])
         /\ hellos' = eph
         /\ SendUp(Hello(eph, c.key, DeviceOf[l], ts, Req(id, 0, 0, FALSE, ~c.secret), c.addr))
  BY DEF SayHello
<1>id. PICK id : id = Len(asked) + 1
  OBVIOUS
<1>eph. PICK eph : eph = hellos + 1
  OBVIOUS
<1>ts. PICK ts : ts = [at |-> now + lead, n |-> eph]
  OBVIOUS
<1>d. PICK d : d = [c EXCEPT !.pc = "handshake", !.id = id, !.eph = eph, !.ts = ts]
  OBVIOUS
<1>q. PICK q : q = Hello(eph, c.key, DeviceOf[l], ts, Req(id, 0, 0, FALSE, ~c.secret), c.addr)
  OBVIOUS
<1>1. client' = [client EXCEPT ![l] = d] /\ up' = up \cup {q} /\ hellos' = eph /\ eph = hellos + 1
  BY <1>id, <1>eph, <1>ts, <1>d, <1>q DEF SendUp
<1>2. /\ DOMAIN d = DOMAIN NoFetch /\ d.fetch = c.fetch /\ d.pc = "handshake" /\ d.id = id
      /\ d.eph = eph
  BY <1>d DEF NoFetch
<1>3. d.addr = c.addr /\ d.got = c.got /\ d.asks = c.asks
  BY <1>d DEF NoFetch
<1>4. /\ q.t = "HS1" /\ q.eph = eph /\ q.dev = DeviceOf[l] /\ q.from = c.addr
      /\ q.req.id = id /\ q.req.want = 0
  BY <1>q DEF Hello, Req
<1>6. /\ asked' \in Seq([fetch : Nat, hello : BOOLEAN])
      /\ Len(asked) \in Nat /\ Len(asked') = Len(asked) + 1 /\ id \in DOMAIN asked'
  BY <1>0, <1>id, AskedGrows
<1>7. Onward
  BY <1>0, <1>1, <1>6 DEF Onward, Numbers
<1>8. eph \in 1 .. hellos' /\ DeviceOf[l] \in Devices
  BY <1>0, <1>1, LanesAssumption DEF Numbers
<1>9. IsFetch(d)'
  BY <1>0, <1>2, <1>3, <1>6, <1>8, NoneGot DEF IsFetch, IsActive
<1>10. IsUp(q)'
  <2>1. q.req.want \in Nat
    BY <1>4
  <2>2. q.req.id \in DOMAIN asked'
    BY <1>4, <1>6
  <2>3. IsReq(q.req)'
    BY <2>1, <2>2 DEF IsReq
  <2> QED BY <1>0, <1>4, <1>8, <2>3 DEF IsUp
<1> QED BY <1>0, <1>1, <1>7, <1>9, <1>10, LaneTyped

LEMMA QuietLane ==
  ASSUME Typed, UNCHANGED gvars, UNCHANGED <<asked, hellos, fetches, scenario>>,
         rebinds' \in 0 .. scenario.rebinds,
         NEW l \in Lanes, NEW d, client' = [client EXCEPT ![l] = d], IsFetch(d),
         \/ kept' = kept
         \/ \E k : kept' = [kept EXCEPT ![l] = k] /\ IsKept(k),
         \A p \in up' : p \in up \/ IsUp(p), down' \subseteq down
  PROVE  Typed'
<1>1. Numbers /\ UNCHANGED <<now, sids, sessions, handshakes, queue>>
  BY DEF Typed, gvars, gateway
<1>2. Onward
  BY <1>1 DEF Numbers, Onward
<1>3. IsFetch(d)' /\ (\A k : IsKept(k) => IsKept(k)') /\ (\A p : IsUp(p) => IsUp(p)')
  BY <1>1, <1>2, StaysTyped
<1> QED BY <1>1, <1>2, <1>3, LaneTyped

LEMMA FetchFacts ==
  ASSUME Typed, NEW l \in Lanes
  PROVE  /\ DOMAIN client = Lanes /\ DOMAIN kept = Lanes /\ IsFetch(client[l]) /\ IsKept(kept[l])
         /\ DOMAIN client[l] = DOMAIN NoFetch /\ client[l].fetch \in Nat
         /\ client[l].asks \in 0 .. scenario.asks
         /\ client[l].pc \in {"handshake", "exchange"} => IsActive(client[l])
         /\ scenario.asks \in Nat /\ scenario.fetches \in Nat /\ scenario.rebinds \in Nat
         /\ fetches \in 0 .. scenario.fetches /\ rebinds \in 0 .. scenario.rebinds
BY ScenariosAssumption DEF Typed, Numbers, LanesTyped, IsFetch

(* A new socket has an address.                                            *)
LEMMA NewAddressTyped ==
  ASSUME Typed, NEW ip \in Ips, fetches + rebinds < scenario.fetches + scenario.rebinds
  PROVE  NewAddress(ip) \in Address
<1>1. scenario \in Scenarios /\ fetches \in Nat /\ rebinds \in Nat
  BY ScenariosAssumption DEF Typed, Numbers
<1>2. fetches + rebinds + 1 \in 1 .. scenario.fetches + scenario.rebinds
  BY <1>1, ScenariosAssumption
<1>3. fetches + rebinds + 1 \in Ports
  BY <1>1, <1>2, ScenariosAssumption
<1> QED BY <1>3 DEF NewAddress, Address

LEMMA FetchTyped ==
  ASSUME Typed, NEW l \in Lanes, Fetch(l)
  PROVE  Typed'
<1>1. PICK ip \in Ips, key \in 1 .. gkeys[1], secret \in scenario.secrets :
         Start(l, NewAddress(ip), key, secret, now)
  BY DEF Fetch
<1>2. UNCHANGED gvars /\ UNCHANGED <<rebinds, scenario>> /\ down' = down
  BY <1>1 DEF Fetch, Start, OpenSocket
<1>c. PICK c : c = [NoFetch EXCEPT !.fetch = fetches + 1, !.addr = NewAddress(ip), !.key = key,
                                   !.secret = secret, !.began = now]
  OBVIOUS
<1>3. /\ fetches < scenario.fetches /\ fetches' = fetches + 1
      /\ \/ /\ kept[l] /= NoSaved
            /\ OnSession(l, c, kept[l].sid, kept[l].next, kept[l].made) /\ UNCHANGED hellos
         \/ SayHello(l, c, now) /\ UNCHANGED kept
  BY <1>1, <1>c DEF Start
<1>4. NewAddress(ip) \in Address
  BY <1>3, FetchFacts, NewAddressTyped
<1>5. /\ DOMAIN c = DOMAIN NoFetch /\ c.fetch = fetches + 1 /\ c.addr = NewAddress(ip)
      /\ c.pc = "idle" /\ c.got = EmptyFun /\ c.asks = 0
  BY <1>c DEF NoFetch
<1>6. c.fetch \in Nat /\ c.asks \in 0 .. scenario.asks /\ fetches' \in 0 .. scenario.fetches
  BY <1>3, <1>5, FetchFacts
<1>7. CASE SayHello(l, c, now) /\ UNCHANGED kept
  BY <1>2, <1>4, <1>5, <1>6, <1>7, HelloTyped
<1>8. CASE /\ kept[l] /= NoSaved
           /\ OnSession(l, c, kept[l].sid, kept[l].next, kept[l].made) /\ UNCHANGED hellos
  <2>1. kept[l].sid \in 1 .. sids /\ kept[l].next \in Nat
    BY <1>8, FetchFacts DEF IsKept
  <2>2. IsFetch(c)'
    BY <1>2, <1>5, <1>6 DEF IsFetch
  <2>3. IsFiniteSet(DOMAIN c.got) /\ Cardinality(DOMAIN c.got) < Symbols
    BY <1>5, NoneGot
  <2> QED BY <1>2, <1>4, <1>5, <1>6, <1>8, <2>1, <2>2, <2>3, SessionTyped
<1> QED BY <1>3, <1>7, <1>8

LEMMA RebindTyped ==
  ASSUME Typed, NEW l \in Lanes, Rebind(l)
  PROVE  Typed'
<1>1. PICK ip \in Ips : client' = [client EXCEPT ![l].addr = NewAddress(ip)]
  BY DEF Rebind
<1>2. /\ UNCHANGED gvars /\ UNCHANGED <<asked, hellos, fetches, scenario, kept, up>>
      /\ rebinds < scenario.rebinds /\ rebinds' = rebinds + 1 /\ down' \subseteq down
  BY DEF Rebind
<1>3. NewAddress(ip) \in Address /\ rebinds' \in 0 .. scenario.rebinds
  BY <1>2, FetchFacts, NewAddressTyped
<1>d. PICK d : d = [client[l] EXCEPT !.addr = NewAddress(ip)]
  OBVIOUS
<1>4. client' = [client EXCEPT ![l] = d]
  BY <1>1, <1>d
<1>5. /\ DOMAIN d = DOMAIN NoFetch /\ d.addr = NewAddress(ip) /\ d.pc = client[l].pc
      /\ d.id = client[l].id /\ d.got = client[l].got /\ d.eph = client[l].eph
      /\ d.fetch = client[l].fetch /\ d.asks = client[l].asks
  BY <1>d, FetchFacts DEF NoFetch
<1>6. d.sid = client[l].sid /\ d.ctr = client[l].ctr /\ d.end = client[l].end
  BY <1>d, FetchFacts DEF NoFetch
<1>7. IsFetch(d)
  BY <1>3, <1>5, <1>6, FetchFacts DEF IsFetch, IsActive
<1> QED BY <1>2, <1>3, <1>4, <1>7, QuietLane

LEMMA HelloAgainTyped ==
  ASSUME Typed, NEW l \in Lanes, HelloAgain(l), UNCHANGED gvars, UNCHANGED rebinds
  PROVE  Typed'
<1>c. PICK c : c = client[l]
  OBVIOUS
<1>d. PICK d : d = [c EXCEPT !.asks = @ + 1]
  OBVIOUS
<1>q. PICK q : q = Hello(c.eph, c.key, DeviceOf[l], c.ts, Req(c.id, 0, 0, FALSE, ~c.secret), c.addr)
  OBVIOUS
<1>1. /\ UNCHANGED <<asked, hellos, fetches, scenario, kept>>
      /\ c.pc = "handshake" /\ c.asks < scenario.asks /\ down' \subseteq down
      /\ client' = [client EXCEPT ![l] = d] /\ up' = up \cup {q}
  BY <1>c, <1>d, <1>q DEF HelloAgain, SendUp
<1>2. IsActive(c) /\ IsFetch(c)
  BY <1>c, <1>1, FetchFacts
<1>3. c.asks + 1 \in 0 .. scenario.asks /\ rebinds' \in 0 .. scenario.rebinds
  BY <1>1, <1>c, FetchFacts
<1>4. /\ DOMAIN d = DOMAIN NoFetch /\ d.addr = c.addr /\ d.pc = c.pc
      /\ d.id = c.id /\ d.got = c.got /\ d.eph = c.eph
      /\ d.fetch = c.fetch /\ d.asks = c.asks + 1
  BY <1>d, <1>2 DEF NoFetch, IsFetch
<1>5. IsFetch(d)
  BY <1>1, <1>2, <1>3, <1>4 DEF IsFetch, IsActive
<1>6. /\ q.t = "HS1" /\ q.eph = c.eph /\ q.dev = DeviceOf[l] /\ q.from = c.addr
      /\ q.req.id = c.id /\ q.req.want = 0
  BY <1>q DEF Hello, Req
<1>7. IsUp(q)
  BY <1>1, <1>2, <1>6, LanesAssumption DEF IsUp, IsReq, IsActive
<1> QED BY <1>1, <1>3, <1>5, <1>7, QuietLane

LEMMA EndsTyped ==
  ASSUME Typed, NEW l \in Lanes, NEW pc \in {"done", "failed"}, NEW answer, Ends(l, pc, answer),
         UNCHANGED gvars, UNCHANGED <<asked, hellos, fetches, scenario, rebinds>>,
         \/ kept' = kept
         \/ \E k : kept' = [kept EXCEPT ![l] = k] /\ IsKept(k),
         \A p \in up' : p \in up \/ IsUp(p), down' \subseteq down
  PROVE  Typed'
<1>d. PICK d : d = [NoFetch EXCEPT !.pc = pc, !.fetch = client[l].fetch, !.key = client[l].key,
                    !.answer = answer]
  OBVIOUS
<1>1. client' = [client EXCEPT ![l] = d]
  BY <1>d DEF Ends
<1>2. DOMAIN d = DOMAIN NoFetch /\ d.pc = pc /\ d.fetch = client[l].fetch /\ d.asks = 0
  BY <1>d DEF NoFetch
<1>3. IsFetch(d)
  BY <1>2, FetchFacts DEF IsFetch
<1> QED BY <1>1, <1>3, FetchFacts, QuietLane

LEMMA HelloReplyTyped ==
  ASSUME Typed, NEW l \in Lanes, NEW p \in down, OnHelloReply(l, p, now), down' \subseteq down,
         UNCHANGED gvars, UNCHANGED <<scenario, rebinds>>
  PROVE  Typed'
<1>c. PICK c : c = [client[l] EXCEPT !.heard = TRUE]
  OBVIOUS
<1>d. PICK d : d = [c EXCEPT !.pc = "exchange", !.sid = p.sid, !.ctr = 0, !.end = Block,
                    !.made = now, !.resettable = FALSE,
                    !.rounds = Set(EmptyFun, 0, Round(1))]
  OBVIOUS
<1>1. /\ client[l].pc = "handshake" /\ p.t = "HS2" /\ UNCHANGED <<fetches, hellos>>
      /\ \/ OnSession(l, c, p.sid, 0, now)
         \/ client' = [client EXCEPT ![l] = d] /\ UNCHANGED <<kept, asked, up>>
  BY <1>c, <1>d DEF OnHelloReply
<1>2. IsActive(client[l]) /\ IsFetch(client[l]) /\ IsDown(p)
  BY <1>1, FetchFacts DEF Typed, PacketsTyped
<1>3. p.sid \in 1 .. sids /\ fetches' \in 0 .. scenario.fetches /\ rebinds' \in 0 .. scenario.rebinds
  BY <1>1, <1>2, FetchFacts DEF IsDown
<1>4. /\ DOMAIN c = DOMAIN NoFetch /\ c.addr = client[l].addr /\ c.pc = client[l].pc
      /\ c.id = client[l].id /\ c.got = client[l].got /\ c.eph = client[l].eph
      /\ c.fetch = client[l].fetch /\ c.asks = client[l].asks
  BY <1>c, <1>2 DEF NoFetch, IsFetch
<1>5. CASE OnSession(l, c, p.sid, 0, now)
  <2>1. IsFetch(c)
    BY <1>1, <1>2, <1>4 DEF IsFetch, IsActive
  <2>2. IsFetch(c)'
    <3>1. asked' = Append(asked, [fetch |-> c.fetch, hello |-> FALSE]) /\ c.fetch \in Nat
      BY <1>5, <2>1 DEF OnSession, IsFetch
    <3>2. c.id \in DOMAIN asked'
      BY <1>2, <1>4, <3>1, AskedGrows DEF IsActive, Typed
    <3> QED BY <1>1, <1>4, <2>1, <3>2 DEF IsFetch, IsActive
  <2>3. c.addr \in Address /\ IsFiniteSet(DOMAIN c.got) /\ Cardinality(DOMAIN c.got) < Symbols
    BY <1>2, <1>4 DEF IsActive
  <2> QED BY <1>1, <1>3, <1>5, <2>2, <2>3, SessionTyped
<1>6. CASE client' = [client EXCEPT ![l] = d] /\ UNCHANGED <<kept, asked, up>>
  <2>1. /\ DOMAIN d = DOMAIN NoFetch /\ d.addr = c.addr /\ d.pc = "exchange"
        /\ d.id = c.id /\ d.got = c.got /\ d.fetch = c.fetch /\ d.asks = c.asks
    BY <1>d, <1>4 DEF NoFetch
  <2>2. d.sid = p.sid /\ d.ctr = 0 /\ d.end = Block
    BY <1>d, <1>4 DEF NoFetch
  <2>3. IsFetch(d)
    BY <1>2, <1>3, <1>4, <2>1, <2>2, ClientAssumption DEF IsFetch, IsActive
  <2> QED BY <1>1, <1>3, <1>6, <2>3, QuietLane
<1> QED BY <1>1, <1>5, <1>6

LEMMA ResetTyped ==
  ASSUME Typed, NEW l \in Lanes, NEW p, OnReset(l, p, now), down' \subseteq down,
         UNCHANGED gvars, UNCHANGED <<scenario, rebinds>>
  PROVE  Typed'
<1>c. PICK c : c = client[l]
  OBVIOUS
<1>d. PICK d : d = [NoFetch EXCEPT !.fetch = c.fetch, !.addr = c.addr, !.key = c.key,
                              !.secret = c.secret, !.again = TRUE, !.heard = TRUE,
                              !.asks = c.asks, !.began = c.began]
  OBVIOUS
<1>1. /\ c.pc = "exchange" /\ UNCHANGED <<kept, fetches>>
      /\ \/ Ends(l, "failed", 0) /\ UNCHANGED <<asked, hellos, up>>
         \/ SayHello(l, d, now)
  BY <1>c, <1>d DEF OnReset
<1>2. IsActive(c) /\ IsFetch(c) /\ fetches' \in 0 .. scenario.fetches
  BY <1>c, <1>1, FetchFacts
<1>3. /\ DOMAIN d = DOMAIN NoFetch /\ d.fetch = c.fetch /\ d.addr = c.addr /\ d.asks = c.asks
      /\ d.got = EmptyFun
  BY <1>d DEF NoFetch
<1>4. CASE Ends(l, "failed", 0) /\ UNCHANGED <<asked, hellos, up>>
  BY <1>1, <1>4, EndsTyped
<1>5. CASE SayHello(l, d, now)
  BY <1>1, <1>2, <1>3, <1>5, HelloTyped DEF IsActive, IsFetch
<1> QED BY <1>1, <1>4, <1>5

LEMMA WorkingTyped ==
  ASSUME Typed, NEW l \in Lanes, NEW p, OnWorking(l, p), down' \subseteq down,
         UNCHANGED gvars, UNCHANGED <<scenario, rebinds>>
  PROVE  Typed'
<1>c. PICK c : c = client[l]
  OBVIOUS
<1>w. PICK waiting : waiting = [r \in DOMAIN c.rounds |->
         IF c.rounds[r].len = 0 THEN [c.rounds[r] EXCEPT !.requested = 0] ELSE c.rounds[r]]
  OBVIOUS
<1>d. PICK d : d = IF p.id = c.id /\ ~c.known
         THEN [c EXCEPT !.heard = TRUE, !.echo = TRUE, !.working = TRUE, !.rounds = waiting]
         ELSE [c EXCEPT !.heard = TRUE, !.echo = TRUE]
  OBVIOUS
<1>1. /\ c.pc = "exchange" /\ UNCHANGED <<kept, fetches, asked, hellos, up>>
      /\ client' = [client EXCEPT ![l] = d]
  BY <1>c, <1>w, <1>d DEF OnWorking
<1>2. IsActive(c) /\ IsFetch(c)
  BY <1>c, <1>1, FetchFacts
<1>3. DOMAIN c = DOMAIN NoFetch
  BY <1>2 DEF IsFetch
<1>4. /\ DOMAIN d = DOMAIN NoFetch /\ d.addr = c.addr /\ d.pc = c.pc
      /\ d.id = c.id /\ d.got = c.got
  BY <1>d, <1>3 DEF NoFetch
<1>5. d.fetch = c.fetch /\ d.asks = c.asks /\ d.sid = c.sid /\ d.ctr = c.ctr /\ d.end = c.end
  BY <1>d, <1>3 DEF NoFetch
<1>6. IsFetch(d)
  BY <1>1, <1>2, <1>4, <1>5 DEF IsFetch, IsActive
<1> QED BY <1>1, <1>6, FetchFacts, QuietLane

(* ask() takes the next counter and leaves the fetch as it is.             *)
LEMMA AskedTyped ==
  ASSUME NEW c, IsFetch(c), c.pc = "exchange", NEW want
  PROVE  IsFetch(Asked(c, want)) /\ Asked(c, want).pc = "exchange"
<1>d. PICK d : d = Asked(c, want)
  OBVIOUS
<1>1. DOMAIN c = DOMAIN NoFetch /\ IsActive(c)
  BY DEF IsFetch
<1>2. /\ DOMAIN d = DOMAIN NoFetch /\ d.addr = c.addr /\ d.pc = c.pc
      /\ d.id = c.id /\ d.got = c.got
  BY <1>d, <1>1 DEF NoFetch, Asked
<1>3. d.fetch = c.fetch /\ d.asks = c.asks /\ d.sid = c.sid /\ d.ctr = c.ctr + 1 /\ d.end = c.end
  BY <1>d, <1>1 DEF NoFetch, Asked
<1>4. IsFetch(d) /\ d.pc = "exchange"
  BY <1>1, <1>2, <1>3 DEF IsFetch, IsActive
<1> QED BY <1>d, <1>4

LEMMA AskForTyped ==
  ASSUME NEW c, IsFetch(c), c.pc = "exchange", NEW want \in Nat, NEW body
  PROVE  IsUp(AskFor(c, want, body))
<1>q. PICK q : q = AskFor(c, want, body)
  OBVIOUS
<1>1. IsActive(c)
  BY DEF IsFetch
<1>2. /\ q.t = "REQ" /\ q.sid = c.sid /\ q.ctr = c.ctr /\ q.from = c.addr
      /\ q.req.id = c.id /\ q.req.want = want
  BY <1>q DEF AskFor, Request, Req
<1>3. IsUp(q)
  BY <1>1, <1>2 DEF IsActive, IsUp, IsReq
<1> QED BY <1>q, <1>3

LEMMA TimerTyped ==
  ASSUME Typed, NEW l \in Lanes, Timer(l), UNCHANGED gvars, UNCHANGED rebinds
  PROVE  Typed'
<1>c. PICK c : c = client[l]
  OBVIOUS
<1>r. PICK lost : lost = [r \in DOMAIN c.rounds |->
                 [c.rounds[r] EXCEPT !.upto = c.rounds[r].len, !.requested = 0]]
  OBVIOUS
<1>d. PICK c1 : c1 = [c EXCEPT !.rounds = lost, !.asks = @ + 1]
  OBVIOUS
<1>m. PICK missing : missing = Symbols - Cardinality(DOMAIN c.got)
  OBVIOUS
<1>1. /\ c.pc = "exchange" /\ c.asks < scenario.asks
      /\ UNCHANGED <<kept, fetches, asked, hellos, scenario>> /\ down' \subseteq down
  BY <1>c DEF Timer
<1>2. PICK extra \in 0 .. (IF c.known THEN MaxExtra ELSE 0) :
        LET want == (IF c.known THEN missing ELSE 1) + extra
        IN /\ client' = [client EXCEPT ![l] = Asked(c1, want)]
           /\ up' = up \cup {AskFor(c1, want, WithBody(c))}
  BY <1>c, <1>r, <1>d, <1>m DEF Timer, SendUp
<1>w. PICK want : want = (IF c.known THEN missing ELSE 1) + extra
  OBVIOUS
<1>3. /\ client' = [client EXCEPT ![l] = Asked(c1, want)]
      /\ up' = up \cup {AskFor(c1, want, WithBody(c))}
  BY <1>2, <1>w
<1>4. IsActive(c) /\ IsFetch(c)
  BY <1>c, <1>1, FetchFacts
<1>5. missing \in Nat
  BY <1>m, <1>4, ClientAssumption, FS_CardinalityType DEF IsActive
<1>6. want \in Nat
  BY <1>w, <1>5
<1>7. DOMAIN c = DOMAIN NoFetch
  BY <1>4 DEF IsFetch
<1>8. /\ DOMAIN c1 = DOMAIN NoFetch /\ c1.addr = c.addr /\ c1.pc = c.pc
      /\ c1.id = c.id /\ c1.got = c.got
  BY <1>d, <1>7 DEF NoFetch
<1>9. c1.fetch = c.fetch /\ c1.asks = c.asks + 1 /\ c1.sid = c.sid /\ c1.ctr = c.ctr /\ c1.end = c.end
  BY <1>d, <1>7 DEF NoFetch
<1>10. c.asks + 1 \in 0 .. scenario.asks
  BY <1>1, <1>c, FetchFacts
<1>11. IsFetch(c1) /\ c1.pc = "exchange"
  BY <1>1, <1>4, <1>8, <1>9, <1>10 DEF IsFetch, IsActive
<1>12. IsFetch(Asked(c1, want)) /\ IsUp(AskFor(c1, want, WithBody(c)))
  BY <1>6, <1>11, AskedTyped, AskForTyped
<1> QED BY <1>1, <1>3, <1>12, FetchFacts, QuietLane

LEMMA DataTyped ==
  ASSUME Typed, NEW l \in Lanes, NEW p, OnData(l, p), down' \subseteq down,
         UNCHANGED gvars, UNCHANGED <<scenario, rebinds>>
  PROVE  Typed'
<1> DEFINE c == client[l]
           r == IF p.round \in DOMAIN c.rounds THEN c.rounds[p.round] ELSE Round(0)
           r1 == [r EXCEPT !.len = p.len, !.upto = IF p.pos + 1 > @ THEN p.pos + 1 ELSE @]
           got == IF p.sym \in DOMAIN c.got THEN c.got ELSE Set(c.got, p.sym, p.run)
           ack == Request(c.sid, c.ctr, Req(c.id, 0, 0, TRUE, FALSE), c.addr)
           acks == IF c.acked THEN {} ELSE {ack}
           c1 == [c EXCEPT !.heard = TRUE, !.echo = TRUE, !.working = FALSE, !.known = TRUE,
                      !.acked = TRUE, !.ctr = @ + (IF c.acked THEN 0 ELSE 1), !.got = got,
                      !.rounds = Set(@, p.round, r1)]
           missing == Symbols - Cardinality(DOMAIN got)
           short == missing - Outstanding(c1.rounds)
           done == Done(c.sid, c1.ctr, c.id, c.addr)
           k == [sid |-> c.sid, next |-> IF c1.ctr + 1 > c.end THEN c1.ctr + 1 ELSE c.end,
                 key |-> c.key, made |-> c.made]
<1>1. c.pc = "exchange" /\ UNCHANGED <<fetches, asked, hellos>>
  BY DEF OnData
<1>2. \/ /\ up' = up \cup acks \cup {done}
         /\ Ends(l, "done", Decoded(got)) /\ kept' = [kept EXCEPT ![l] = k]
      \/ /\ missing > 0
         /\ up' = up \cup acks /\ client' = [client EXCEPT ![l] = c1] /\ UNCHANGED kept
      \/ /\ missing > 0 /\ short \in 1 .. Symbols
         /\ \E extra \in 0 .. MaxExtra :
              /\ up' = up \cup acks \cup {AskFor(c1, short + extra, FALSE)}
              /\ client' = [client EXCEPT ![l] = Asked(c1, short + extra)]
         /\ UNCHANGED kept
  BY DEF OnData
<1>3. IsActive(c) /\ IsFetch(c)
  BY <1>1, FetchFacts
<1>4. DOMAIN c = DOMAIN NoFetch
  BY <1>3 DEF IsFetch
<1> HIDE DEF r1, got, missing, short
<1>5. /\ DOMAIN c1 = DOMAIN NoFetch /\ c1.addr = c.addr /\ c1.pc = c.pc
      /\ c1.id = c.id /\ c1.got = got /\ c1.fetch = c.fetch
  BY <1>4 DEF NoFetch
<1>6. /\ c1.asks = c.asks /\ c1.sid = c.sid /\ c1.end = c.end
      /\ c1.ctr = c.ctr + (IF c.acked THEN 0 ELSE 1)
  BY <1>4 DEF NoFetch
<1>k. k.sid = c.sid /\ k.next = IF c1.ctr + 1 > c.end THEN c1.ctr + 1 ELSE c.end
  OBVIOUS
<1>9. /\ ack.t = "REQ" /\ ack.sid = c.sid /\ ack.ctr = c.ctr /\ ack.from = c.addr
      /\ ack.req.id = c.id /\ ack.req.want = 0
  BY DEF Request, Req
<1>10. done.t = "DONE" /\ done.sid = c.sid /\ done.ctr = c1.ctr /\ done.from = c.addr
  BY DEF Done
<1> HIDE DEF c1, ack, done, k
<1>7. c.sid \in 1 .. sids /\ c.ctr \in Nat /\ c.end \in Nat /\ c1.ctr \in Nat
  BY <1>1, <1>3, <1>6 DEF IsActive
<1>8. IsFiniteSet(DOMAIN got) /\ Cardinality(DOMAIN got) \in Nat
  <2>1. DOMAIN got = DOMAIN c.got \/ DOMAIN got = DOMAIN c.got \cup {p.sym}
    BY DEF got, Set
  <2>2. IsFiniteSet(DOMAIN c.got)
    BY <1>3 DEF IsActive
  <2>3. IsFiniteSet(DOMAIN got)
    BY <2>1, <2>2, FS_AddElement
  <2> QED BY <2>3, FS_CardinalityType
<1>11. IsUp(ack) /\ IsUp(done)
  BY <1>3, <1>7, <1>9, <1>10 DEF IsActive, IsUp, IsReq
<1>u. \A q \in acks : IsUp(q)
  BY <1>11
<1> HIDE DEF acks
<1>12. ASSUME missing > 0 PROVE IsFetch(c1) /\ c1.pc = "exchange"
  <2>1. Cardinality(DOMAIN got) < Symbols
    BY <1>8, <1>12, ClientAssumption DEF missing
  <2> HIDE DEF c
  <2> QED BY <1>1, <1>3, <1>5, <1>6, <1>7, <1>8, <2>1 DEF IsFetch, IsActive
<1>13. CASE /\ up' = up \cup acks \cup {done}
            /\ Ends(l, "done", Decoded(got)) /\ kept' = [kept EXCEPT ![l] = k]
  <2>1. IsKept(k)
    BY <1>7, <1>k DEF IsKept
  <2> QED BY <1>1, <1>11, <1>u, <1>13, <2>1, EndsTyped
<1>14. CASE /\ missing > 0
            /\ up' = up \cup acks /\ client' = [client EXCEPT ![l] = c1] /\ UNCHANGED kept
  BY <1>1, <1>u, <1>12, <1>14, FetchFacts, QuietLane
<1>15. ASSUME missing > 0, short \in 1 .. Symbols, NEW extra \in 0 .. MaxExtra,
              up' = up \cup acks \cup {AskFor(c1, short + extra, FALSE)},
              client' = [client EXCEPT ![l] = Asked(c1, short + extra)], UNCHANGED kept
       PROVE  Typed'
  <2>1. short + extra \in Nat
    BY <1>15, ClientAssumption
  <2>2. IsFetch(Asked(c1, short + extra)) /\ IsUp(AskFor(c1, short + extra, FALSE))
    BY <1>12, <1>15, <2>1, AskedTyped, AskForTyped
  <2> QED BY <1>1, <1>u, <1>15, <2>2, FetchFacts, QuietLane
<1> QED BY <1>2, <1>13, <1>14, <1>15

LEMMA IgnoreTyped ==
  ASSUME Typed, NEW l \in Lanes, NEW p, Active(l), Ignore(l, p), down' \subseteq down,
         UNCHANGED gvars, UNCHANGED <<scenario, rebinds>>
  PROVE  Typed'
<1>c. PICK c : c = client[l]
  OBVIOUS
<1>d. PICK d : d = [c EXCEPT !.heard = TRUE, !.echo = @ \/ Opened(c, p)]
  OBVIOUS
<1>1. /\ UNCHANGED <<kept, fetches, asked, hellos, up>> /\ client' = [client EXCEPT ![l] = d]
  BY <1>c, <1>d DEF Ignore
<1>2. IsActive(c) /\ IsFetch(c) /\ DOMAIN c = DOMAIN NoFetch
  BY <1>c, FetchFacts DEF IsFetch, Active
<1>3. /\ DOMAIN d = DOMAIN NoFetch /\ d.addr = c.addr /\ d.pc = c.pc
      /\ d.id = c.id /\ d.got = c.got /\ d.eph = c.eph
  BY <1>d, <1>2 DEF NoFetch
<1>4. d.fetch = c.fetch /\ d.asks = c.asks /\ d.sid = c.sid /\ d.ctr = c.ctr /\ d.end = c.end
  BY <1>d, <1>2 DEF NoFetch
<1>5. IsFetch(d)
  BY <1>2, <1>3, <1>4 DEF IsFetch, IsActive
<1> QED BY <1>1, <1>5, FetchFacts, QuietLane

LEMMA ArrivesTyped ==
  ASSUME Typed, NEW l \in Lanes, NEW p \in down, NEW rest, rest \subseteq down,
         Arrives(l, p, rest, now), UNCHANGED gvars, UNCHANGED <<scenario, rebinds>>
  PROVE  Typed'
<1>1. Active(l) /\ down' \subseteq down
  BY DEF Arrives, CloseSocket
<1>2. \/ OnHelloReply(l, p, now) \/ OnWrongKey(l, p) \/ OnReset(l, p, now)
      \/ OnWorking(l, p) \/ OnData(l, p) \/ Ignore(l, p)
  BY DEF Arrives
<1>3. CASE OnWrongKey(l, p)
  BY <1>1, <1>3, EndsTyped DEF OnWrongKey
<1> QED BY <1>1, <1>2, <1>3, HelloReplyTyped, ResetTyped, WorkingTyped, DataTyped, IgnoreTyped

LEMMA GiveUpTyped ==
  ASSUME Typed, NEW l \in Lanes, GiveUp(l), UNCHANGED gvars, UNCHANGED rebinds
  PROVE  Typed'
<1>1. /\ UNCHANGED <<kept, fetches, asked, hellos, up, scenario>> /\ down' \subseteq down
      /\ Ends(l, "failed", 0)
  BY DEF GiveUp, CloseSocket
<1> QED BY <1>1, EndsTyped
-----------------------------------------------------------------------------
(* The requests of a session.                                              *)
LEMMA FewerOpen ==
  ASSUME NEW rs, IsResponses(rs), NEW qs, Open(qs) \subseteq Open(rs),
         \A id \in DOMAIN qs : id \in DOMAIN asked /\ IsResponse(qs[id])
  PROVE  IsResponses(qs)
<1>1. IsFiniteSet(Open(rs)) /\ Cardinality(Open(rs)) <= MaxPending /\ MaxPending \in Nat
  BY LimitsAssumption DEF IsResponses
<1>2. IsFiniteSet(Open(qs)) /\ Cardinality(Open(qs)) <= Cardinality(Open(rs))
  BY <1>1, FS_Subset
<1>3. Cardinality(Open(qs)) \in Nat /\ Cardinality(Open(rs)) \in Nat
  BY <1>1, <1>2, FS_CardinalityType
<1> QED BY <1>1, <1>2, <1>3 DEF IsResponses

LEMMA OneResponse ==
  ASSUME NEW rs, IsResponses(rs), NEW id \in DOMAIN rs, NEW r, IsResponse(r),
         ~r.ready => ~rs[id].ready
  PROVE  IsResponses([rs EXCEPT ![id] = r])
<1>q. PICK qs : qs = [rs EXCEPT ![id] = r]
  OBVIOUS
<1>1. DOMAIN qs = DOMAIN rs /\ \A i \in DOMAIN rs : qs[i] = IF i = id THEN r ELSE rs[i]
  BY <1>q
<1>2. Open(qs) \subseteq Open(rs)
  BY <1>1 DEF Open
<1>3. \A i \in DOMAIN qs : i \in DOMAIN asked /\ IsResponse(qs[i])
  BY <1>1 DEF IsResponses
<1>4. IsResponses(qs)
  BY <1>2, <1>3, FewerOpen
<1> QED BY <1>q, <1>4

LEMMA FewerResponses ==
  ASSUME NEW rs, IsResponses(rs), NEW S, S \subseteq DOMAIN rs
  PROVE  IsResponses([i \in S |-> rs[i]])
<1>q. PICK qs : qs = [i \in S |-> rs[i]]
  OBVIOUS
<1>1. DOMAIN qs = S /\ \A i \in S : qs[i] = rs[i]
  BY <1>q
<1>2. Open(qs) \subseteq Open(rs)
  BY <1>1 DEF Open
<1>3. \A i \in DOMAIN qs : i \in DOMAIN asked /\ IsResponse(qs[i])
  BY <1>1 DEF IsResponses
<1>4. IsResponses(qs)
  BY <1>2, <1>3, FewerOpen
<1> QED BY <1>q, <1>4

(* A new request is admitted while fewer than MaxPending are open.         *)
LEMMA OneMoreResponse ==
  ASSUME NEW rs, IsResponses(rs), NEW id \in DOMAIN asked, NEW r, IsResponse(r),
         Cardinality(Open(rs)) < MaxPending
  PROVE  IsResponses(Put(rs, id, r))
<1>q. PICK qs : qs = Put(rs, id, r)
  OBVIOUS
<1>1. DOMAIN qs = DOMAIN rs \cup {id} /\ \A i \in DOMAIN qs : qs[i] = IF i = id THEN r ELSE rs[i]
  BY <1>q DEF Put
<1>2. Open(qs) \subseteq Open(rs) \cup {id}
  BY <1>1 DEF Open
<1>3. \A i \in DOMAIN qs : i \in DOMAIN asked /\ IsResponse(qs[i])
  BY <1>1 DEF IsResponses
<1>4. IsFiniteSet(Open(rs)) /\ Cardinality(Open(rs)) \in Nat /\ MaxPending \in Nat
  BY LimitsAssumption, FS_CardinalityType DEF IsResponses
<1>5. /\ IsFiniteSet(Open(rs) \cup {id})
      /\ Cardinality(Open(rs) \cup {id}) <= MaxPending
      /\ Cardinality(Open(rs) \cup {id}) \in Nat
  <2>1. IsFiniteSet(Open(rs) \cup {id})
    BY <1>4, FS_AddElement
  <2>2. Cardinality(Open(rs) \cup {id}) = Cardinality(Open(rs))
        \/ Cardinality(Open(rs) \cup {id}) = Cardinality(Open(rs)) + 1
    BY <1>4, FS_AddElement
  <2>3. Cardinality(Open(rs) \cup {id}) \in Nat
    BY <2>1, FS_CardinalityType
  <2> QED BY <1>4, <2>1, <2>2, <2>3
<1>6. /\ IsFiniteSet(Open(qs)) /\ Cardinality(Open(qs)) \in Nat
      /\ Cardinality(Open(qs)) <= Cardinality(Open(rs) \cup {id})
  BY <1>2, <1>5, FS_Subset, FS_CardinalityType
<1>7. IsResponses(qs)
  BY <1>3, <1>4, <1>5, <1>6 DEF IsResponses
<1> QED BY <1>q, <1>7

(* What is queued.                                                         *)
LEMMA RepairRange ==
  ASSUME NEW i \in Int
  PROVE  Repair(i) \in 0 .. K + Pool - 1
BY SymbolsAssumption DEF Repair

LEMMA BurstTyped ==
  ASSUME NEW s, NEW sid, NEW id, NEW round, NEW syms, NEW n \in Nat,
         DOMAIN syms = 1 .. n, Len(syms) = n, \A i \in 1 .. n : syms[i] \in 0 .. K + Pool - 1
  PROVE  \A o \in Burst(s, sid, id, round, syms) : IsQueued(o)
<1> SUFFICES ASSUME NEW o \in Burst(s, sid, id, round, syms) PROVE IsQueued(o)
  OBVIOUS
<1>1. PICK i \in 1 .. n :
        o = [sid |-> sid, id |-> id,
             pkt |-> [t |-> "DATA", sid |-> sid, ctr |-> s.ctr + i - 1, id |-> id, sym |-> syms[i],
                      round |-> round, pos |-> i - 1, len |-> Len(syms), run |-> s.resp[id].run]]
  BY DEF Burst
<1>2. /\ DOMAIN o.pkt = {"t", "sid", "ctr", "id", "sym", "round", "pos", "len", "run"}
      /\ o.pkt.t = "DATA" /\ o.pkt.sym = syms[i] /\ o.pkt.pos = i - 1 /\ o.pkt.len = n
  BY <1>1
<1>3. o.pkt = [f \in DOMAIN o.pkt |-> o.pkt[f]]
  BY <1>1
<1> QED BY <1>2, <1>3 DEF IsQueued

LEMMA NoticeTyped ==
  ASSUME NEW s, NEW sid, NEW id
  PROVE  IsQueued(Notice(s, sid, id))
BY DEF Notice, IsQueued

LEMMA SymbolsOfBurst ==
  ASSUME NEW n \in Nat, NEW next \in Nat
  PROVE  /\ DOMAIN FirstBurst(n) = 1 .. K + n /\ Len(FirstBurst(n)) = K + n
         /\ \A i \in 1 .. K + n : FirstBurst(n)[i] \in 0 .. K + Pool - 1
         /\ DOMAIN MoreSymbols(next, n) = 1 .. n /\ Len(MoreSymbols(next, n)) = n
         /\ \A i \in 1 .. n : MoreSymbols(next, n)[i] \in 0 .. K + Pool - 1
<1>1. PICK f : f = FirstBurst(n)
  OBVIOUS
<1>2. PICK m : m = MoreSymbols(next, n)
  OBVIOUS
<1>3. K + n \in Nat
  BY SymbolsAssumption
<1>4. DOMAIN f = 1 .. K + n /\ \A i \in 1 .. K + n : f[i] = IF i <= K THEN i - 1 ELSE Repair(i - K - 1)
  BY <1>1 DEF FirstBurst
<1>5. DOMAIN m = 1 .. n /\ \A i \in 1 .. n : m[i] = Repair(next + i - 1)
  BY <1>2 DEF MoreSymbols
<1>6. \A i \in 1 .. K + n : f[i] \in 0 .. K + Pool - 1
  <2> SUFFICES ASSUME NEW i \in 1 .. K + n PROVE f[i] \in 0 .. K + Pool - 1
    OBVIOUS
  <2>1. CASE i <= K
    BY <1>4, <2>1, SymbolsAssumption
  <2>2. CASE i > K
    <3>1. i - K - 1 \in Int
      BY SymbolsAssumption
    <3>2. f[i] = Repair(i - K - 1)
      BY <1>3, <1>4, <2>2, SymbolsAssumption
    <3> QED BY <3>1, <3>2, RepairRange
  <2> QED BY <2>1, <2>2, SymbolsAssumption
<1>7. \A i \in 1 .. n : m[i] \in 0 .. K + Pool - 1
  <2> SUFFICES ASSUME NEW i \in 1 .. n PROVE m[i] \in 0 .. K + Pool - 1
    OBVIOUS
  <2>1. next + i - 1 \in Int
    OBVIOUS
  <2> QED BY <1>5, <2>1, RepairRange
<1>8. Len(f) = K + n
  <2>0. f = [i \in 1 .. K + n |-> f[i]]
    BY <1>1, <1>4 DEF FirstBurst
  <2>1. f \in [1 .. K + n -> 0 .. K + Pool - 1]
    BY <1>6, <2>0
  <2>2. f \in Seq(0 .. K + Pool - 1)
    BY <1>3, <2>1, SeqDef
  <2> QED BY <1>3, <1>4, <2>2
<1>9. Len(m) = n
  <2>0. m = [i \in 1 .. n |-> m[i]]
    BY <1>2, <1>5 DEF MoreSymbols
  <2>1. m \in [1 .. n -> 0 .. K + Pool - 1]
    BY <1>7, <2>0
  <2>2. m \in Seq(0 .. K + Pool - 1)
    BY <2>1, SeqDef
  <2> QED BY <1>5, <2>2
<1> QED BY <1>1, <1>2, <1>4, <1>5, <1>6, <1>7, <1>8, <1>9

LEMMA BurstsTyped ==
  ASSUME NEW s, NEW sid, NEW id, NEW round, NEW n \in Nat, NEW next \in Nat
  PROVE  /\ \A o \in Burst(s, sid, id, round, FirstBurst(n)) : IsQueued(o)
         /\ \A o \in Burst(s, sid, id, round, MoreSymbols(next, n)) : IsQueued(o)
<1>1. K + n \in Nat
  BY SymbolsAssumption
<1>2. \A o \in Burst(s, sid, id, round, FirstBurst(n)) : IsQueued(o)
  BY <1>1, SymbolsOfBurst, BurstTyped
<1>3. \A o \in Burst(s, sid, id, round, MoreSymbols(next, n)) : IsQueued(o)
  BY SymbolsOfBurst, BurstTyped
<1> QED BY <1>2, <1>3
-----------------------------------------------------------------------------
(* A request a session knows, or opens.                                    *)
SameSession(s, t) ==
  /\ DOMAIN t = DOMAIN s
  /\ t.window = s.window /\ t.dev = s.dev /\ t.peer = s.peer
  /\ t.credit = s.credit /\ t.heard = s.heard

LEMMA SessionLike ==
  ASSUME NEW s, IsSession(s), NEW t, SameSession(s, t), t.ctr \in Nat, IsResponses(t.resp)
  PROVE  IsSession(t)
BY DEF IsSession, SameSession

LEMMA OneSession ==
  ASSUME NEW ss, AllSessions(ss), NEW sid \in DOMAIN ss, NEW t, IsSession(t),
         NEW tt, tt = [ss EXCEPT ![sid] = t]
  PROVE  DOMAIN tt = DOMAIN ss /\ AllSessions(tt)
BY DEF AllSessions

LEMMA KnownTyped ==
  ASSUME NEW ss, AllSessions(ss), NEW q, \A o \in q : IsQueued(o), NEW sid \in DOMAIN ss,
         NEW req, IsReq(req), req.id \in DOMAIN ss[sid].resp, KnownRequest(ss, q, sid, req)
  PROVE  /\ DOMAIN sessions' = DOMAIN ss /\ AllSessions(sessions')
         /\ \A o \in queue' : IsQueued(o)
<1>s. PICK s : s = ss[sid]
  OBVIOUS
<1>r. PICK r : r = s.resp[req.id]
  OBVIOUS
<1>s1. PICK s1 : s1 = [s EXCEPT !.resp[req.id].rounds = @ \cup {req.round}]
  OBVIOUS
<1>t. PICK t : t = [s1 EXCEPT !.ctr = @ + 1]
  OBVIOUS
<1>u. PICK u : u = [s1 EXCEPT !.ctr = @ + req.want, !.resp[req.id].next = @ + req.want]
  OBVIOUS
<1>1. \/ sessions' = ss /\ queue' = q
      \/ sessions' = [ss EXCEPT ![sid] = t] /\ queue' = q \cup {Notice(s, sid, req.id)}
      \/ /\ sessions' = [ss EXCEPT ![sid] = u]
         /\ queue' = q \cup Burst(s1, sid, req.id, req.round, MoreSymbols(r.next, req.want))
  BY <1>s, <1>r, <1>s1, <1>t, <1>u DEF KnownRequest
<1>2. IsSession(s) /\ s.ctr \in Nat /\ IsResponses(s.resp) /\ IsResponse(r) /\ req.id \in DOMAIN s.resp
  BY <1>s, <1>r DEF AllSessions, IsSession, IsResponses
<1>3. req.want \in Nat /\ r.next \in Nat
  BY <1>2 DEF IsReq, IsResponse
<1>r1. PICK r1 : r1 = [r EXCEPT !.rounds = @ \cup {req.round}]
  OBVIOUS
<1>r2. PICK r2 : r2 = [r1 EXCEPT !.next = @ + req.want]
  OBVIOUS
<1>4. DOMAIN r1 = DOMAIN r /\ r1.next = r.next /\ r1.ready = r.ready
  BY <1>2, <1>r1 DEF IsResponse
<1>5. DOMAIN r2 = DOMAIN r /\ r2.next = r.next + req.want /\ r2.ready = r.ready
  BY <1>2, <1>4, <1>r2 DEF IsResponse
<1>6. IsResponse(r1) /\ IsResponse(r2)
  BY <1>2, <1>3, <1>4, <1>5 DEF IsResponse
<1>7. s1.resp = [s.resp EXCEPT ![req.id] = r1] /\ SameSession(s, s1) /\ s1.ctr = s.ctr
  BY <1>2, <1>r, <1>r1, <1>s1 DEF IsSession, SameSession
<1>8. t.resp = s1.resp /\ SameSession(s, t) /\ t.ctr = s.ctr + 1
  BY <1>2, <1>7, <1>t DEF IsSession, SameSession
<1>9. u.resp = [s.resp EXCEPT ![req.id] = r2] /\ SameSession(s, u) /\ u.ctr = s.ctr + req.want
  <2>1. s1.resp[req.id] = r1
    BY <1>2, <1>7
  <2>2. u.resp = [s1.resp EXCEPT ![req.id] = r2] /\ SameSession(s, u) /\ u.ctr = s.ctr + req.want
    BY <1>2, <1>7, <1>u, <1>r2, <2>1 DEF IsSession, SameSession
  <2> QED BY <1>2, <1>7, <2>2
<1>10. IsResponses(s1.resp) /\ IsResponses(u.resp)
  BY <1>2, <1>4, <1>5, <1>6, <1>7, <1>9, <1>r, OneResponse
<1>11. IsSession(t) /\ IsSession(u)
  BY <1>2, <1>3, <1>8, <1>9, <1>10, SessionLike
<1>12. \A o \in Burst(s1, sid, req.id, req.round, MoreSymbols(r.next, req.want)) : IsQueued(o)
  BY <1>3, BurstsTyped
<1>13. IsQueued(Notice(s, sid, req.id))
  BY NoticeTyped
<1>14. CASE sessions' = ss /\ queue' = q
  BY <1>14
<1>15. CASE sessions' = [ss EXCEPT ![sid] = t] /\ queue' = q \cup {Notice(s, sid, req.id)}
  BY <1>11, <1>13, <1>15, OneSession
<1>16. CASE /\ sessions' = [ss EXCEPT ![sid] = u]
            /\ queue' = q \cup Burst(s1, sid, req.id, req.round, MoreSymbols(r.next, req.want))
  BY <1>11, <1>12, <1>16, OneSession
<1> QED BY <1>1, <1>14, <1>15, <1>16

LEMMA NewTyped ==
  ASSUME NEW ss, AllSessions(ss), NEW q, \A o \in q : IsQueued(o), NEW sid \in DOMAIN ss,
         NEW req, IsReq(req), Cardinality(OpenRequests(ss[sid])) < MaxPending,
         NewRequest(ss, q, sid, req)
  PROVE  /\ DOMAIN sessions' = DOMAIN ss /\ AllSessions(sessions')
         /\ \A o \in queue' : IsQueued(o)
<1>s. PICK s : s = ss[sid]
  OBVIOUS
<1>r. PICK r : r = [ready |-> FALSE, at |-> now, round |-> req.round, rounds |-> {req.round},
                    run |-> 0, next |-> 0]
  OBVIOUS
<1>t. PICK t : t = [s EXCEPT !.resp = Put(@, req.id, r)]
  OBVIOUS
<1>1. sessions' = [ss EXCEPT ![sid] = t] /\ queue' = DropForDevice(q, ss, ss[sid].dev)
  BY <1>s, <1>r, <1>t DEF NewRequest
<1>2. IsSession(s) /\ s.ctr \in Nat /\ IsResponses(s.resp)
  BY <1>s DEF AllSessions, IsSession
<1>3. IsResponse(r)
  BY <1>r DEF IsResponse
<1>4. Cardinality(Open(s.resp)) < MaxPending
  BY <1>s DEF OpenRequests, Open
<1>5. t.resp = Put(s.resp, req.id, r) /\ SameSession(s, t) /\ t.ctr = s.ctr
  BY <1>2, <1>t DEF IsSession, SameSession
<1>6. IsResponses(t.resp)
  BY <1>2, <1>3, <1>4, <1>5, OneMoreResponse DEF IsReq
<1>7. IsSession(t)
  BY <1>2, <1>5, <1>6, SessionLike
<1>8. queue' \subseteq q
  BY <1>1 DEF DropForDevice
<1> QED BY <1>1, <1>7, <1>8, OneSession

LEMMA OnRequestTyped ==
  ASSUME NEW ss, AllSessions(ss), NEW q, \A o \in q : IsQueued(o), NEW sid \in DOMAIN ss,
         NEW req, IsReq(req), OnRequest(ss, q, sid, req)
  PROVE  /\ DOMAIN sessions' = DOMAIN ss /\ AllSessions(sessions')
         /\ \A o \in queue' : IsQueued(o)
<1>1. CASE Knows(ss[sid], req.id) /\ KnownRequest(ss, q, sid, req)
  BY <1>1, KnownTyped DEF Knows
<1>2. CASE sessions' = ss /\ queue' = q
  BY <1>2
<1>3. CASE Cardinality(OpenRequests(ss[sid])) < MaxPending /\ NewRequest(ss, q, sid, req)
  BY <1>3, NewTyped
<1> QED BY <1>1, <1>2, <1>3 DEF OnRequest
-----------------------------------------------------------------------------
(* The steps of the gateway.                                               *)
LEMMA GatewayTyped ==
  ASSUME Typed, Onward, UNCHANGED <<client, kept>>, up' \subseteq up,
         SessionsTyped', HandshakesTyped',
         \A p \in down' : p \in down \/ IsDown(p)', \A o \in queue' : IsQueued(o)
  PROVE  Typed'
<1>0. /\ \A p : IsUp(p) => IsUp(p)'
      /\ \A p : IsDown(p) => IsDown(p)'
      /\ \A c : IsFetch(c) => IsFetch(c)'
      /\ \A k : IsKept(k) => IsKept(k)'
  BY StaysTyped DEF Typed
<1>1. PacketsTyped'
  BY <1>0 DEF Typed, PacketsTyped, IsQueued
<1>2. LanesTyped'
  BY <1>0 DEF Typed, LanesTyped, IsFetch, IsActive, IsKept
<1> QED BY <1>1, <1>2 DEF Typed, Onward

LEMMA SessionsKept ==
  ASSUME Numbers, Onward, DOMAIN sessions' \subseteq 1 .. sids',
         IsFiniteSet(DOMAIN sessions'), Cardinality(DOMAIN sessions') <= MaxSessions,
         AllSessions(sessions')
  PROVE  SessionsTyped'
<1>1. \A s : IsSession(s) => IsSession(s)'
  BY StaysTyped
<1>2. AllSessions(sessions)'
  BY <1>1 DEF AllSessions
<1> QED BY <1>2 DEF SessionsTyped

(* A step that leaves the sessions there are, with what it does to them.   *)
LEMMA SameSessions ==
  ASSUME Typed, Onward, UNCHANGED <<client, kept>>, up' \subseteq up, HandshakesTyped',
         DOMAIN sessions' = DOMAIN sessions, AllSessions(sessions'),
         \A p \in down' : p \in down \/ IsDown(p)', \A o \in queue' : IsQueued(o)
  PROVE  Typed'
<1>1. DOMAIN sessions \subseteq 1 .. sids'
  BY DEF Typed, SessionsTyped, Numbers, Onward
<1>2. SessionsTyped'
  BY <1>1, SessionsKept DEF Typed, SessionsTyped
<1> QED BY <1>2, GatewayTyped

LEMMA SameHandshakes ==
  ASSUME Typed, Onward, handshakes' = handshakes
  PROVE  HandshakesTyped'
BY DEF Typed, HandshakesTyped, Numbers, Onward

LEMMA PacketFacts ==
  ASSUME Typed, NEW p \in up
  PROVE  IsUp(p) /\ p.from \in Address /\ (p.t \in {"HS1", "REQ"} => IsReq(p.req))
BY DEF Typed, PacketsTyped, IsUp

LEMMA SizeType ==
  ASSUME NEW t
  PROVE  t \in {"HS1", "REQ", "DONE", "DATA", "WORKING", "HS2"} => Size(t) \in Nat
BY DEF Size

LEMMA RepeatedTyped ==
  ASSUME Typed, NEW p \in up, p.t = "HS1", Repeated(p), UNCHANGED <<cvars, now, scenario, rebinds>>,
         up' \subseteq up
  PROVE  Typed'
<1>h. PICK h : h = handshakes[p.eph]
  OBVIOUS
<1>s. PICK s : s = sessions[h.sid]
  OBVIOUS
<1>c. PICK n : n = s.credit + 3 * Size("HS1")
  OBVIOUS
<1>t. PICK t : t = [s EXCEPT !.credit = n]
  OBVIOUS
<1>1. /\ p.eph \in DOMAIN handshakes
      /\ sessions' = IF h.sid \in DOMAIN sessions THEN [sessions EXCEPT ![h.sid] = t] ELSE sessions
      /\ UNCHANGED <<handshakes, queue, sids, asked, hellos, fetches, client, kept>>
  BY <1>h, <1>s, <1>c, <1>t DEF Repeated, cvars
<1>2. \A m \in down' : m \in down \/ m = HelloReply(p.eph, h.sid, h.key, p.from)
  BY <1>h DEF Repeated, Send
<1>3. Numbers /\ Onward
  BY <1>1, SameNumbers DEF Typed
<1>4. h.sid \in 1 .. sids /\ p.eph \in 1 .. hellos /\ p.from \in Address
  BY <1>1, <1>h DEF Typed, HandshakesTyped, PacketsTyped, IsUp
<1>5. IsDown(HelloReply(p.eph, h.sid, h.key, p.from))'
  BY <1>1, <1>4 DEF IsDown, HelloReply
<1>6. \A m \in down' : m \in down \/ IsDown(m)'
  BY <1>2, <1>5
<1>7. DOMAIN sessions' = DOMAIN sessions /\ AllSessions(sessions')
  <2>0. AllSessions(sessions)
    BY DEF Typed, SessionsTyped
  <2>1. CASE h.sid \in DOMAIN sessions
    <3>1. IsSession(s) /\ Size("HS1") \in Nat
      BY <2>0, <2>1, <1>s, SizeType DEF AllSessions
    <3>2. n \in Nat
      BY <3>1, <1>c DEF IsSession
    <3>3. /\ DOMAIN t = DOMAIN s /\ t.window = s.window /\ t.dev = s.dev /\ t.peer = s.peer
          /\ t.ctr = s.ctr /\ t.heard = s.heard /\ t.resp = s.resp /\ t.credit = n
      BY <3>1, <1>t DEF IsSession
    <3>4. IsSession(t)
      BY <3>1, <3>2, <3>3 DEF IsSession
    <3> QED BY <1>1, <2>0, <2>1, <3>4, OneSession
  <2>2. CASE h.sid \notin DOMAIN sessions
    BY <1>1, <2>0, <2>2
  <2> QED BY <2>1, <2>2
<1>8. \A o \in queue' : IsQueued(o)
  BY <1>1 DEF Typed, PacketsTyped
<1> QED BY <1>1, <1>3, <1>6, <1>7, <1>8, SameHandshakes, SameSessions

(* A step that changes nothing but what is on its way to phones.           *)
LEMMA OnlySends ==
  ASSUME Typed, UNCHANGED gateway, UNCHANGED <<cvars, now, sids, scenario, rebinds>>,
         up' \subseteq up, \A m \in down' : m \in down \/ IsDown(m)
  PROVE  Typed'
<1>1. /\ UNCHANGED <<handshakes, queue, sessions, asked, hellos, fetches, client, kept>>
  BY DEF gateway, cvars
<1>2. Numbers /\ Onward
  BY <1>1, SameNumbers DEF Typed
<1>3. \A m \in down' : m \in down \/ IsDown(m)'
  BY <1>2, StaysTyped
<1>4. (\A o \in queue : IsQueued(o)) /\ AllSessions(sessions)
  BY DEF Typed, PacketsTyped, SessionsTyped
<1> QED BY <1>1, <1>2, <1>3, <1>4, SameHandshakes, SameSessions

LEMMA NotTakenTyped ==
  ASSUME Typed, NEW p \in up, UNCHANGED <<cvars, now, scenario, rebinds>>, up' \subseteq up,
         \/ p.t = "HS1" /\ (UnknownKey(p) \/ Refused(p))
         \/ p.t \in {"REQ", "DONE"} /\ UNCHANGED sids /\ (NoSuchSession(p) \/ Replayed(p))
  PROVE  Typed'
<1>1. UNCHANGED gateway /\ UNCHANGED sids
  BY DEF UnknownKey, Refused, NoSuchSession, Replayed
<1>2. \A m \in down' : m \in down \/ m = WrongKey(p.eph, p.from) \/ m \in Resets(p)
  BY DEF UnknownKey, Refused, NoSuchSession, Replayed, Send
<1>3. p.from \in Address
  BY PacketFacts
<1>4. IsDown(WrongKey(p.eph, p.from))
  BY <1>3 DEF WrongKey, IsDown
<1>5. \A m \in Resets(p) : IsDown(m)
  BY <1>3 DEF Resets, ResetOf, IsDown
<1> QED BY <1>1, <1>2, <1>4, <1>5, OnlySends

(* Making room for one more session.                                       *)
LEMMA RoomMade ==
  ASSUME Typed, NEW ss \in Evicted(sessions)
  PROVE  /\ DOMAIN ss \subseteq DOMAIN sessions /\ AllSessions(ss)
         /\ IsFiniteSet(DOMAIN ss) /\ Cardinality(DOMAIN ss) < MaxSessions
<1>1. /\ IsFiniteSet(DOMAIN sessions) /\ Cardinality(DOMAIN sessions) <= MaxSessions
      /\ Cardinality(DOMAIN sessions) \in Nat /\ MaxSessions \in Nat /\ AllSessions(sessions)
  BY LimitsAssumption, FS_CardinalityType DEF Typed, SessionsTyped
<1>2. CASE Cardinality(DOMAIN sessions) < MaxSessions
  BY <1>1, <1>2 DEF Evicted
<1>3. CASE ~(Cardinality(DOMAIN sessions) < MaxSessions)
  <2>1. PICK x \in DOMAIN sessions : ss = Without(sessions, x)
    BY <1>3 DEF Evicted
  <2>2. DOMAIN ss = DOMAIN sessions \ {x} /\ \A y \in DOMAIN ss : ss[y] = sessions[y]
    BY <2>1 DEF Without
  <2>3. IsFiniteSet(DOMAIN ss) /\ Cardinality(DOMAIN ss) = Cardinality(DOMAIN sessions) - 1
    BY <1>1, <2>2, FS_RemoveElement
  <2>4. AllSessions(ss)
    BY <1>1, <2>2 DEF AllSessions
  <2> QED BY <1>1, <2>2, <2>3, <2>4
<1> QED BY <1>2, <1>3

LEMMA NewSessionTyped ==
  ASSUME Typed, NEW p \in up, p.t = "HS1",
         NEW s, s =
           [dev |-> p.dev, window |-> NewWindow, ctr |-> 0, peer |-> p.from,
            validated |-> knownIp[p.dev] = p.from.ip,
            credit |-> 3 * Size("HS1") - Size("HS2"), heard |-> now, resp |-> EmptyMap]
  PROVE  IsSession(s) /\ s.ctr = 0
<1>0. p.from \in Address /\ p.dev \in Devices
  BY DEF Typed, PacketsTyped, IsUp
<1>1. IsResponses(EmptyMap)
  <2>1. DOMAIN EmptyMap = {} /\ Open(EmptyMap) = {}
    BY DEF EmptyMap, Open
  <2> QED BY <2>1, FS_EmptySet, LimitsAssumption DEF IsResponses
<1>2. NewWindow \in Window
  BY DEF NewWindow, Window
<1>3. 3 * Size("HS1") - Size("HS2") \in Nat
  BY DEF Size
<1>4. now \in 0 .. now
  BY DEF Typed, Numbers
<1>5. /\ DOMAIN s = {"dev", "window", "ctr", "peer", "validated", "credit", "heard", "resp"}
      /\ s.dev = p.dev /\ s.window = NewWindow /\ s.ctr = 0 /\ s.peer = p.from
      /\ s.credit = 3 * Size("HS1") - Size("HS2") /\ s.heard = now /\ s.resp = EmptyMap
  OBVIOUS
<1>6. s.ctr \in Nat
  BY <1>5
<1> QED BY <1>0, <1>1, <1>2, <1>3, <1>4, <1>5, <1>6 DEF IsSession

LEMMA AcceptedTyped ==
  ASSUME Typed, NEW p \in up, p.t = "HS1", Accepted(p), UNCHANGED <<cvars, now, scenario, rebinds>>,
         up' \subseteq up
  PROVE  Typed'
<1>id. PICK sid : sid = sids + 1
  OBVIOUS
<1>s. PICK s : s =
        [dev |-> p.dev, window |-> NewWindow, ctr |-> 0, peer |-> p.from,
         validated |-> knownIp[p.dev] = p.from.ip,
         credit |-> 3 * Size("HS1") - Size("HS2"), heard |-> now, resp |-> EmptyMap]
  OBVIOUS
<1>h. PICK h : h = [at |-> now, sid |-> sid, key |-> p.key]
  OBVIOUS
<1>1. /\ sids' = sid /\ handshakes' = Put(handshakes, p.eph, h)
      /\ \E ss \in Evicted(sessions) : OnRequest(Put(ss, sid, s), queue, sid, p.req)
  BY <1>id, <1>s, <1>h DEF Accepted
<1>2. PICK ss \in Evicted(sessions) : OnRequest(Put(ss, sid, s), queue, sid, p.req)
  BY <1>1
<1>3. \A m \in down' : m \in down \/ m = HelloReply(p.eph, sid, p.key, p.from)
  BY <1>id DEF Accepted, Send
<1>4. UNCHANGED <<now, scenario, rebinds, asked, hellos, fetches, client, kept>> /\ Numbers
  BY DEF cvars, Typed
<1>5. sids \in Nat /\ sid \in Nat /\ sid \notin 1 .. sids /\ sid \in 1 .. sids'
  BY <1>id, <1>1, <1>4 DEF Numbers
<1>6. Onward
  BY <1>id, <1>1, <1>4 DEF Numbers, Onward
<1>7. /\ p.eph \in 1 .. hellos /\ p.from \in Address /\ p.dev \in Devices /\ IsReq(p.req)
  BY DEF Typed, PacketsTyped, IsUp
<1>8. IsSession(s)
  BY <1>s, NewSessionTyped
<1>9. /\ DOMAIN ss \subseteq DOMAIN sessions /\ AllSessions(ss)
      /\ IsFiniteSet(DOMAIN ss) /\ Cardinality(DOMAIN ss) < MaxSessions
  BY RoomMade
<1>tt. PICK tt : tt = Put(ss, sid, s)
  OBVIOUS
<1>10. DOMAIN tt = DOMAIN ss \cup {sid} /\ AllSessions(tt)
  BY <1>8, <1>9, <1>tt DEF Put, AllSessions
<1>11. \A o \in queue : IsQueued(o)
  BY DEF Typed, PacketsTyped
<1>12. /\ DOMAIN sessions' = DOMAIN tt /\ AllSessions(sessions')
       /\ \A o \in queue' : IsQueued(o)
  BY <1>2, <1>7, <1>10, <1>11, <1>tt, OnRequestTyped
<1>13. DOMAIN tt \subseteq 1 .. sids'
  BY <1>1, <1>id, <1>5, <1>9, <1>10 DEF Typed, SessionsTyped
<1>14. IsFiniteSet(DOMAIN tt) /\ Cardinality(DOMAIN tt) <= MaxSessions
  <2>1. Cardinality(DOMAIN ss) \in Nat /\ MaxSessions \in Nat
    BY <1>9, FS_CardinalityType, LimitsAssumption
  <2>2. IsFiniteSet(DOMAIN tt)
        /\ (Cardinality(DOMAIN tt) = Cardinality(DOMAIN ss) \/ Cardinality(DOMAIN tt) = Cardinality(DOMAIN ss) + 1)
    BY <1>9, <1>10, FS_AddElement
  <2> QED BY <1>9, <2>1, <2>2
<1>15. SessionsTyped'
  BY <1>4, <1>6, <1>12, <1>13, <1>14, SessionsKept
<1>16. HandshakesTyped'
  <2>1. DOMAIN handshakes' = DOMAIN handshakes \cup {p.eph} /\ h.sid = sid
        /\ \A e \in DOMAIN handshakes' : handshakes'[e] = IF e = p.eph THEN h ELSE handshakes[e]
    BY <1>1, <1>h DEF Put
  <2> QED BY <1>1, <1>4, <1>5, <1>7, <1>id, <2>1 DEF HandshakesTyped, Typed
<1>17. \A m \in down' : m \in down \/ IsDown(m)'
  <2>1. IsDown(HelloReply(p.eph, sid, p.key, p.from))'
    BY <1>4, <1>5, <1>7 DEF IsDown, HelloReply
  <2> QED BY <1>3, <2>1
<1> QED BY <1>4, <1>6, <1>12, <1>15, <1>16, <1>17, GatewayTyped

LEMMA AcceptIsWindow ==
  ASSUME NEW w \in Window, NEW ctr \in Nat
  PROVE  Accept(w, ctr) \in Window
<1> USE WidthAssumption DEF Window
<1>1. CASE ~w.started
  BY <1>1 DEF Accept
<1>2. CASE w.started /\ ctr > w.top
  <2>1. Shifted(w.bits, ctr - w.top) \in SUBSET (0 .. Width - 1)
    BY DEF Shifted
  <2>2. Accept(w, ctr) = [w EXCEPT !.top = ctr, !.bits = Shifted(w.bits, ctr - w.top)]
    BY <1>2 DEF Accept
  <2> QED BY <2>1, <2>2
<1>3. CASE w.started /\ ctr <= w.top /\ Accepts(w, ctr)
  <2>1. w.top - ctr \in 0 .. Width - 1
    BY <1>3 DEF Accepts
  <2> QED BY <1>3, <2>1 DEF Accept
<1>4. CASE w.started /\ ~Accepts(w, ctr)
  BY <1>4 DEF Accept, Accepts
<1> QED BY <1>1, <1>2, <1>3, <1>4

LEMMA HeardTyped ==
  ASSUME Typed, NEW p \in up, p.t \in {"REQ", "DONE"}, p.sid \in DOMAIN sessions
  PROVE  /\ IsSession(Heard(p)) /\ Heard(p).resp = sessions[p.sid].resp
         /\ Heard(p).ctr = sessions[p.sid].ctr /\ Heard(p).dev = sessions[p.sid].dev
<1>s. PICK s : s = sessions[p.sid]
  OBVIOUS
<1>w. PICK w : w = Accept(s.window, p.ctr)
  OBVIOUS
<1>n. PICK n : n = s.credit + 3 * Size(p.t)
  OBVIOUS
<1>v. PICK v : v = IF p.from /= s.peer THEN knownIp[s.dev] = p.from.ip ELSE s.validated
  OBVIOUS
<1>t. PICK t : t = [s EXCEPT !.window = w, !.peer = p.from, !.heard = now, !.validated = v,
                             !.credit = n]
  OBVIOUS
<1>1. Heard(p) = t
  BY <1>s, <1>w, <1>n, <1>v, <1>t DEF Heard
<1>2. IsSession(s) /\ p.from \in Address /\ p.ctr \in Nat /\ now \in Nat
  BY <1>s DEF Typed, SessionsTyped, AllSessions, PacketsTyped, IsUp, Numbers
<1>3. w \in Window
  BY <1>2, <1>w, AcceptIsWindow DEF IsSession
<1>4. n \in Nat
  <2>1. s.credit \in Nat
    BY <1>2 DEF IsSession
  <2>2. Size(p.t) \in Nat
    BY SizeType
  <2> QED BY <1>n, <2>1, <2>2
<1>5. DOMAIN t = DOMAIN s /\ t.dev = s.dev /\ t.ctr = s.ctr /\ t.resp = s.resp
  BY <1>2, <1>t DEF IsSession
<1>6. t.window = w /\ t.peer = p.from /\ t.heard = now /\ t.credit = n
  BY <1>2, <1>t DEF IsSession
<1>7. now \in 0 .. now
  BY <1>2
<1>8. IsSession(t)
  BY <1>2, <1>3, <1>4, <1>5, <1>6, <1>7 DEF IsSession
<1> QED BY <1>1, <1>5, <1>8, <1>s

LEMMA FrameTyped ==
  ASSUME Typed, NEW p \in up, OnDone(p) \/ OnFrame(p), UNCHANGED <<cvars, now, sids, scenario, rebinds>>,
         up' \subseteq up
  PROVE  Typed'
<1>s. PICK s : s = Heard(p)
  OBVIOUS
<1>d. PICK d : d = [s EXCEPT !.resp = Without(@, p.id)]
  OBVIOUS
<1>v. PICK v : v = (s.validated \/ (p.req.echo /\ ~s.validated))
  OBVIOUS
<1>t. PICK t : t = [s EXCEPT !.validated = v]
  OBVIOUS
<1>1. p.sid \in DOMAIN sessions /\ p.t \in {"REQ", "DONE"} /\ down' \subseteq down
  BY DEF OnDone, OnFrame, Send
<1>2. UNCHANGED <<handshakes, asked, hellos, fetches, client, kept>>
  BY DEF OnDone, OnFrame, cvars
<1>3. Numbers /\ Onward
  BY <1>2, SameNumbers DEF Typed
<1>4. /\ IsSession(s) /\ s.resp = sessions[p.sid].resp
  BY <1>1, <1>s, HeardTyped
<1>5. AllSessions(sessions) /\ \A o \in queue : IsQueued(o)
  BY DEF Typed, SessionsTyped, PacketsTyped
<1>6. CASE OnDone(p)
  <2>1. sessions' = [sessions EXCEPT ![p.sid] = d] /\ queue' \subseteq queue
    BY <1>6, <1>s, <1>d DEF OnDone
  <2>2. SameSession(s, d) /\ d.ctr = s.ctr /\ d.resp = Without(s.resp, p.id)
    BY <1>4, <1>d DEF IsSession, SameSession
  <2>3. s.ctr \in Nat /\ IsResponses(s.resp)
    BY <1>4 DEF IsSession
  <2>4. IsResponses(d.resp)
    BY <2>2, <2>3, FewerResponses DEF Without
  <2>5. IsSession(d)
    BY <1>4, <2>2, <2>3, <2>4, SessionLike
  <2>6. DOMAIN sessions' = DOMAIN sessions /\ AllSessions(sessions')
    BY <1>1, <1>5, <2>1, <2>5, OneSession
  <2> QED BY <1>1, <1>2, <1>3, <1>5, <2>1, <2>6, SameHandshakes, SameSessions
<1>7. CASE OnFrame(p)
  <2>1. OnRequest([sessions EXCEPT ![p.sid] = t], queue, p.sid, p.req) /\ p.t = "REQ"
    BY <1>7, <1>s, <1>v, <1>t DEF OnFrame
  <2>2. SameSession(s, t) /\ t.ctr = s.ctr /\ t.resp = s.resp
    BY <1>4, <1>t DEF IsSession, SameSession
  <2>3. s.ctr \in Nat /\ IsResponses(s.resp)
    BY <1>4 DEF IsSession
  <2>4. IsSession(t)
    BY <1>4, <2>2, <2>3, SessionLike
  <2>tt. PICK tt : tt = [sessions EXCEPT ![p.sid] = t]
    OBVIOUS
  <2>5. DOMAIN tt = DOMAIN sessions /\ AllSessions(tt)
    BY <1>1, <1>5, <2>4, <2>tt, OneSession
  <2>6. IsReq(p.req)
    BY <2>1, PacketFacts
  <2>7. /\ DOMAIN sessions' = DOMAIN tt /\ AllSessions(sessions')
        /\ \A o \in queue' : IsQueued(o)
    BY <1>1, <1>5, <2>1, <2>5, <2>6, <2>tt, OnRequestTyped
  <2> QED BY <1>1, <1>2, <1>3, <2>5, <2>7, SameHandshakes, SameSessions
<1> QED BY <1>6, <1>7

LEMMA UplinkTyped ==
  ASSUME Typed, Uplink
  PROVE  Typed'
<1>1. PICK p \in up, copied \in BOOLEAN : Receive(p) /\ up' = Remaining(p, up, copied)
  BY DEF Uplink
<1>2. UNCHANGED <<cvars, now, scenario, rebinds>> /\ up' \subseteq up
  BY <1>1 DEF Uplink, Receive, Remaining
<1>3. CASE p.t = "HS1" /\ OnHello(p)
  BY <1>2, <1>3, RepeatedTyped, NotTakenTyped, AcceptedTyped DEF OnHello
<1>4. CASE /\ p.t \in {"REQ", "DONE"}
           /\ NoSuchSession(p) \/ Replayed(p) \/ OnDone(p) \/ OnFrame(p)
           /\ UNCHANGED sids
  BY <1>2, <1>4, NotTakenTyped, FrameTyped
<1> QED BY <1>1, <1>3, <1>4 DEF Receive

(* A gateway step of its own: the phones and the network stand still, but  *)
(* for what the gateway sends.                                             *)
LEMMA OwnStep ==
  ASSUME Typed, UNCHANGED <<cvars, rebinds>>, UNCHANGED <<now, sids, up, scenario>>,
         handshakes' = handshakes,
         DOMAIN sessions' = DOMAIN sessions, AllSessions(sessions'),
         \A p \in down' : p \in down \/ IsDown(p), \A o \in queue' : IsQueued(o)
  PROVE  Typed'
<1>1. UNCHANGED <<asked, hellos, fetches, client, kept>> /\ up' \subseteq up
  BY DEF cvars
<1>2. Numbers /\ Onward
  BY <1>1, SameNumbers DEF Typed
<1>3. \A m \in down' : m \in down \/ IsDown(m)'
  BY <1>2, StaysTyped
<1> QED BY <1>1, <1>2, <1>3, SameHandshakes, SameSessions

LEMMA Standing ==
  ASSUME Typed
  PROVE  /\ AllSessions(sessions) /\ DOMAIN sessions \subseteq 1 .. sids
         /\ \A o \in queue : IsQueued(o)
BY DEF Typed, SessionsTyped, PacketsTyped

LEMMA RespondTyped ==
  ASSUME Typed, NEW job \in jobs, Respond(job), UNCHANGED <<cvars, rebinds>>
  PROVE  Typed'
<1>s. PICK s : s = sessions[job.sid]
  OBVIOUS
<1>r. PICK r : r = s.resp[job.id]
  OBVIOUS
<1>d. PICK d : d = [s EXCEPT !.resp = Without(@, job.id)]
  OBVIOUS
<1>0. UNCHANGED <<now, sids, up, down, scenario, handshakes>>
  BY DEF Respond, net
<1>1. \/ /\ job.sid \in DOMAIN sessions /\ job.id \in OpenRequests(s)
         /\ \E spare \in 0 .. MaxSpare :
              LET ready == [r EXCEPT !.ready = TRUE, !.at = now, !.run = job.run, !.next = spare]
                  s1 == [s EXCEPT !.resp[job.id] = ready]
              IN /\ sessions' = [sessions EXCEPT ![job.sid] = [s1 EXCEPT !.ctr = @ + K + spare]]
                 /\ queue' = queue \cup Burst(s1, job.sid, job.id, r.round, FirstBurst(spare))
      \/ /\ job.sid \in DOMAIN sessions
         /\ sessions' = [sessions EXCEPT ![job.sid] = d] /\ UNCHANGED queue
      \/ UNCHANGED <<sessions, queue>>
  BY <1>s, <1>r, <1>d DEF Respond
<1>2. ASSUME job.sid \in DOMAIN sessions
      PROVE  IsSession(s) /\ s.ctr \in Nat /\ IsResponses(s.resp)
  BY <1>2, <1>s, Standing DEF AllSessions, IsSession
<1>3. CASE UNCHANGED <<sessions, queue>>
  BY <1>0, <1>3, Standing, OwnStep
<1>4. CASE /\ job.sid \in DOMAIN sessions
           /\ sessions' = [sessions EXCEPT ![job.sid] = d] /\ UNCHANGED queue
  <2>1. SameSession(s, d) /\ d.ctr = s.ctr /\ d.resp = Without(s.resp, job.id)
    BY <1>2, <1>4, <1>d DEF IsSession, SameSession
  <2>2. IsResponses(d.resp)
    BY <1>2, <1>4, <2>1, FewerResponses DEF Without
  <2>3. IsSession(d)
    BY <1>2, <1>4, <2>1, <2>2, SessionLike
  <2>4. DOMAIN sessions' = DOMAIN sessions /\ AllSessions(sessions')
    BY <1>4, <2>3, Standing, OneSession
  <2> QED BY <1>0, <1>4, <2>4, Standing, OwnStep
<1>5. ASSUME job.sid \in DOMAIN sessions, job.id \in OpenRequests(s), NEW spare \in 0 .. MaxSpare,
             NEW ready, ready = [r EXCEPT !.ready = TRUE, !.at = now, !.run = job.run, !.next = spare],
             NEW s1, s1 = [s EXCEPT !.resp[job.id] = ready],
             sessions' = [sessions EXCEPT ![job.sid] = [s1 EXCEPT !.ctr = @ + K + spare]],
             queue' = queue \cup Burst(s1, job.sid, job.id, r.round, FirstBurst(spare))
      PROVE  Typed'
  <2>n. PICK n : n = s.ctr + K + spare
    OBVIOUS
  <2>t. PICK t : t = [s1 EXCEPT !.ctr = n]
    OBVIOUS
  <2>0. spare \in Nat
    BY <1>5
  <2>1. job.id \in DOMAIN s.resp /\ IsResponse(r) /\ IsSession(s) /\ s.ctr \in Nat /\ IsResponses(s.resp)
    BY <1>2, <1>5, <1>r DEF OpenRequests, IsResponses
  <2>2. DOMAIN ready = DOMAIN r /\ ready.next = spare /\ ready.ready = TRUE
    BY <1>5, <2>1 DEF IsResponse
  <2>3. IsResponse(ready)
    BY <2>0, <2>1, <2>2 DEF IsResponse
  <2>4. SameSession(s, s1) /\ s1.ctr = s.ctr /\ s1.resp = [s.resp EXCEPT ![job.id] = ready]
    BY <1>5, <2>1 DEF IsSession, SameSession
  <2>5. IsResponses(s1.resp)
    BY <2>1, <2>2, <2>3, <2>4, OneResponse
  <2>6. SameSession(s, t) /\ t.ctr = n /\ t.resp = s1.resp
    BY <2>1, <2>4, <2>t DEF IsSession, SameSession
  <2>7. n \in Nat
    BY <2>0, <2>1, <2>n, SymbolsAssumption
  <2>8. IsSession(t)
    BY <2>1, <2>5, <2>6, <2>7, SessionLike
  <2>9. sessions' = [sessions EXCEPT ![job.sid] = t]
    BY <1>5, <2>4, <2>n, <2>t
  <2>10. DOMAIN sessions' = DOMAIN sessions /\ AllSessions(sessions')
    <3>1. job.sid \in DOMAIN sessions
      BY <1>5
    <3> QED BY <2>8, <2>9, <3>1, Standing, OneSession
  <2>11. \A o \in queue' : IsQueued(o)
    <3>1. \A o \in Burst(s1, job.sid, job.id, r.round, FirstBurst(spare)) : IsQueued(o)
      <4>1. 0 \in Nat
        OBVIOUS
      <4> QED BY <2>0, <4>1, BurstsTyped
    <3> QED BY <1>5, <3>1, Standing
  <2> QED BY <1>0, <2>10, <2>11, OwnStep
<1> QED BY <1>1, <1>3, <1>4, <1>5

LEMMA SendWorkingTyped ==
  ASSUME Typed, NEW w \in working, SendWorking(w), UNCHANGED <<cvars, rebinds>>
  PROVE  Typed'
<1>s. PICK s : s = sessions[w.sid]
  OBVIOUS
<1>t. PICK t : t = [s EXCEPT !.ctr = @ + 1]
  OBVIOUS
<1>0. UNCHANGED <<now, sids, up, down, scenario, handshakes>>
  BY DEF SendWorking, net
<1>1. \/ UNCHANGED <<queue, sessions>>
      \/ /\ w.sid \in DOMAIN sessions
         /\ queue' = queue \cup {Notice(sessions[w.sid], w.sid, w.id)}
         /\ sessions' = [sessions EXCEPT ![w.sid] = t]
  BY <1>s, <1>t DEF SendWorking
<1>2. CASE UNCHANGED <<queue, sessions>>
  BY <1>0, <1>2, Standing, OwnStep
<1>3. CASE /\ w.sid \in DOMAIN sessions
           /\ queue' = queue \cup {Notice(sessions[w.sid], w.sid, w.id)}
           /\ sessions' = [sessions EXCEPT ![w.sid] = t]
  <2>1. IsSession(s) /\ s.ctr \in Nat /\ IsResponses(s.resp)
    BY <1>3, <1>s, Standing DEF AllSessions, IsSession
  <2>2. SameSession(s, t) /\ t.ctr = s.ctr + 1 /\ t.resp = s.resp
    BY <2>1, <1>t DEF IsSession, SameSession
  <2>3. IsSession(t)
    BY <2>1, <2>2, SessionLike
  <2>4. DOMAIN sessions' = DOMAIN sessions /\ AllSessions(sessions')
    BY <1>3, <2>3, Standing, OneSession
  <2> QED BY <1>0, <1>3, <2>4, NoticeTyped, Standing, OwnStep
<1> QED BY <1>1, <1>2, <1>3

LEMMA PollSendTyped ==
  ASSUME Typed, NEW o \in queue, PollSend(o), UNCHANGED <<cvars, rebinds>>
  PROVE  Typed'
<1>s. PICK s : s = sessions[o.sid]
  OBVIOUS
<1>n. PICK n : n = s.credit - Size(o.pkt.t)
  OBVIOUS
<1>t. PICK t : t = [s EXCEPT !.credit = n]
  OBVIOUS
<1>m. PICK m : m = Put(o.pkt, "to", s.peer)
  OBVIOUS
<1>0. UNCHANGED <<now, sids, up, scenario, handshakes>> /\ queue' \subseteq queue
  BY DEF PollSend
<1>1. /\ o.sid \in DOMAIN sessions /\ (s.validated \/ s.credit >= Size(o.pkt.t))
      /\ sessions' = IF s.validated THEN sessions ELSE [sessions EXCEPT ![o.sid] = t]
      /\ \A p \in down' : p \in down \/ p = m
  BY <1>s, <1>n, <1>t, <1>m DEF PollSend, Lapsed, Affordable, Send
<1>2. IsSession(s) /\ s.credit \in Nat /\ s.peer \in Address /\ IsQueued(o)
  BY <1>1, <1>s, Standing DEF AllSessions, IsSession
<1>3. IsDown(m)
  <2>1. m.t = o.pkt.t /\ m.to = s.peer
    BY <1>2, <1>m DEF Put, IsQueued
  <2> QED BY <1>2, <2>1 DEF IsDown, IsQueued
<1>4. DOMAIN sessions' = DOMAIN sessions /\ AllSessions(sessions')
  <2>1. CASE s.validated
    BY <1>1, <2>1, Standing
  <2>2. CASE ~s.validated
    <3>1. Size(o.pkt.t) \in Nat
      BY <1>2, SizeType DEF IsQueued
    <3>2. n \in Nat
      BY <1>1, <1>2, <1>n, <2>2, <3>1
    <3>3. /\ DOMAIN t = DOMAIN s /\ t.window = s.window /\ t.dev = s.dev /\ t.peer = s.peer
          /\ t.ctr = s.ctr /\ t.heard = s.heard /\ t.resp = s.resp /\ t.credit = n
      BY <1>2, <1>t DEF IsSession
    <3>4. IsSession(t)
      BY <1>2, <3>2, <3>3 DEF IsSession
    <3> QED BY <1>1, <2>2, <3>4, Standing, OneSession
  <2> QED BY <2>1, <2>2
<1> QED BY <1>0, <1>1, <1>3, <1>4, Standing, OwnStep

LEMMA SweepTyped ==
  ASSUME Typed, Sweep, UNCHANGED <<cvars, rebinds>>
  PROVE  Typed'
<1> DEFINE live == {x \in DOMAIN sessions : now - sessions[x].heard < SessionIdle}
<1>1. /\ sessions' = [x \in live |-> Swept(sessions[x])]
      /\ DOMAIN handshakes' \subseteq DOMAIN handshakes
      /\ \A e \in DOMAIN handshakes' : handshakes'[e] = handshakes[e]
      /\ UNCHANGED <<now, sids, up, down, queue, scenario>>
  BY DEF Sweep, net
<1>2. UNCHANGED <<asked, hellos, fetches, client, kept, rebinds>> /\ live \subseteq DOMAIN sessions
  BY DEF cvars
<1> HIDE DEF live
<1>3. Numbers /\ Onward
  BY <1>1, <1>2, SameNumbers DEF Typed
<1>4. DOMAIN sessions' = live /\ \A x \in live : sessions'[x] = Swept(sessions[x])
  BY <1>1
<1>5. AllSessions(sessions')
  <2> SUFFICES ASSUME NEW x \in live PROVE IsSession(sessions'[x])
    BY <1>4 DEF AllSessions
  <2>s. PICK s : s = sessions[x]
    OBVIOUS
  <2>t. PICK t : t = Swept(s)
    OBVIOUS
  <2>1. IsSession(s) /\ s.ctr \in Nat /\ IsResponses(s.resp)
    BY <1>2, <2>s, Standing DEF AllSessions, IsSession
  <2>2. SameSession(s, t) /\ t.ctr = s.ctr
    BY <2>1, <2>t DEF IsSession, SameSession, Swept
  <2>3. IsResponses(t.resp)
    <3>1. t.resp = [id \in {id \in DOMAIN s.resp : now - s.resp[id].at <
                               (IF s.resp[id].ready THEN ResponseKeep ELSE PendingKeep)} |-> s.resp[id]]
      BY <2>1, <2>t DEF IsSession, Swept
    <3> QED BY <2>1, <3>1, FewerResponses
  <2>4. IsSession(t)
    BY <2>1, <2>2, <2>3, SessionLike
  <2> QED BY <1>4, <2>4, <2>s, <2>t
<1>6. /\ IsFiniteSet(DOMAIN sessions) /\ Cardinality(DOMAIN sessions) <= MaxSessions
      /\ DOMAIN sessions \subseteq 1 .. sids /\ MaxSessions \in Nat
  BY LimitsAssumption DEF Typed, SessionsTyped
<1>7. IsFiniteSet(live) /\ Cardinality(live) <= Cardinality(DOMAIN sessions)
      /\ Cardinality(live) \in Nat /\ Cardinality(DOMAIN sessions) \in Nat
  <2>1. IsFiniteSet(live) /\ Cardinality(live) <= Cardinality(DOMAIN sessions)
    BY <1>2, <1>6, FS_Subset
  <2> QED BY <1>6, <2>1, FS_CardinalityType
<1>8. SessionsTyped'
  <2>1. DOMAIN sessions' \subseteq 1 .. sids'
    BY <1>1, <1>2, <1>4, <1>6
  <2>2. IsFiniteSet(DOMAIN sessions') /\ Cardinality(DOMAIN sessions') <= MaxSessions
    BY <1>4, <1>6, <1>7
  <2> QED BY <1>3, <1>5, <2>1, <2>2, SessionsKept
<1>9. HandshakesTyped'
  BY <1>1, <1>2 DEF Typed, HandshakesTyped
<1> QED BY <1>1, <1>2, <1>3, <1>8, <1>9, Standing, GatewayTyped

LEMMA RestartTyped ==
  ASSUME Typed, Restart, UNCHANGED <<cvars, rebinds>>
  PROVE  Typed'
<1>1. /\ sessions' = EmptyMap /\ handshakes' = EmptyMap /\ queue' = {}
      /\ UNCHANGED <<now, sids, up, down, scenario>>
      /\ UNCHANGED <<asked, hellos, fetches, client, kept, rebinds>>
  BY DEF Restart, net, cvars
<1>2. Numbers /\ Onward
  BY <1>1, SameNumbers DEF Typed
<1>3. DOMAIN sessions' = {} /\ DOMAIN handshakes' = {}
  BY <1>1 DEF EmptyMap
<1>4. IsFiniteSet({}) /\ Cardinality({}) <= MaxSessions
  BY FS_EmptySet, LimitsAssumption
<1>5. SessionsTyped'
  BY <1>2, <1>3, <1>4, SessionsKept DEF AllSessions
<1>6. HandshakesTyped'
  BY <1>3 DEF HandshakesTyped
<1> QED BY <1>1, <1>2, <1>5, <1>6, GatewayTyped

LEMMA TickTyped ==
  ASSUME Typed, Tick, UNCHANGED <<cvars, rebinds>>
  PROVE  Typed'
<1>1. /\ now' = now + 1 /\ UNCHANGED <<sessions, handshakes, queue>>
      /\ UNCHANGED <<sids, up, down, scenario>>
      /\ UNCHANGED <<asked, hellos, fetches, client, kept, rebinds>>
  BY DEF Tick, net, cvars, gateway
<1>2. Numbers /\ Onward
  BY <1>1 DEF Typed, Numbers, Onward
<1> QED BY <1>1, <1>2, Standing, SameHandshakes, SameSessions

LEMMA OtherGatewayTyped ==
  ASSUME Typed, UNCHANGED <<cvars, rebinds>>,
         \/ SetKeys
         \/ \E job \in jobs : Refuse(job)
         \/ \E o \in queue : PollDrop(o)
  PROVE  Typed'
<1>1. /\ UNCHANGED <<now, sids, up, down, scenario, handshakes, sessions>> /\ queue' \subseteq queue
  BY DEF SetKeys, Refuse, PollDrop, net, gateway
<1> QED BY <1>1, Standing, OwnStep

LEMMA LoseTyped ==
  ASSUME Typed, Lose
  PROVE  Typed'
<1>1. /\ up' \subseteq up /\ down' \subseteq down /\ UNCHANGED scenario
      /\ UNCHANGED <<sessions, handshakes, queue, now, sids>>
      /\ UNCHANGED <<asked, hellos, fetches, client, kept, rebinds>>
  BY DEF Lose, LoseUp, LoseDown, gvars, gateway, cvars
<1>2. Numbers /\ Onward
  BY <1>1, SameNumbers DEF Typed
<1> QED BY <1>1, <1>2, Standing, SameHandshakes, SameSessions

LEMMA DownlinkTyped ==
  ASSUME Typed, Downlink
  PROVE  Typed'
<1>1. PICK l \in Lanes, p \in down, copied \in BOOLEAN : Arrives(l, p, Remaining(p, down, copied), now)
  BY DEF Downlink
<1>2. Remaining(p, down, copied) \subseteq down
  BY DEF Remaining
<1> QED BY <1>1, <1>2, ArrivesTyped DEF Downlink

LEMMA GatewayStepTyped ==
  ASSUME Typed, Gateway
  PROVE  Typed'
<1>1. UNCHANGED <<cvars, rebinds>>
  BY DEF Gateway
<1> QED BY <1>1, RespondTyped, SendWorkingTyped, PollSendTyped, SweepTyped, RestartTyped,
           TickTyped, OtherGatewayTyped DEF Gateway, TimePasses, Poll, Answer
-----------------------------------------------------------------------------
LEMMA TypedInit == Init => Typed
<1> SUFFICES ASSUME Init PROVE Typed
  OBVIOUS
<1> USE DEF Init, NetInit, GatewayInit, ClientInit
<1>1. scenario \in Scenarios /\ scenario.fetches \in Nat /\ scenario.rebinds \in Nat /\ scenario.asks \in Nat
  BY ScenariosAssumption
<1>2. asked \in Seq([fetch : Nat, hello : BOOLEAN])
  OBVIOUS
<1>3. Numbers
  BY <1>1, <1>2 DEF Numbers
<1>4. DOMAIN sessions = {} /\ DOMAIN handshakes = {}
  BY DEF EmptyMap
<1>5. SessionsTyped
  BY <1>4, FS_EmptySet, LimitsAssumption DEF SessionsTyped, AllSessions
<1>6. HandshakesTyped /\ PacketsTyped
  BY <1>4 DEF HandshakesTyped, PacketsTyped
<1>7. NoFetch.pc = "idle" /\ NoFetch.fetch = 0 /\ NoFetch.asks = 0
  BY DEF NoFetch
<1>8. IsFetch(NoFetch)
  BY <1>1, <1>7 DEF IsFetch
<1>9. LanesTyped
  BY <1>8 DEF LanesTyped, IsKept
<1> QED BY <1>3, <1>5, <1>6, <1>9 DEF Typed

LEMMA TypedNext == Typed /\ [Next]_vars => Typed'
<1> SUFFICES ASSUME Typed, [Next]_vars PROVE Typed'
  OBVIOUS
<1>1. CASE UNCHANGED vars
  <2>1. /\ UNCHANGED <<up, down, scenario, sessions, handshakes, queue, now, sids>>
        /\ UNCHANGED <<asked, hellos, fetches, client, kept, rebinds>>
    BY <1>1 DEF vars, net, gvars, gateway, cvars
  <2>2. Numbers /\ Onward
    BY <2>1, SameNumbers DEF Typed
  <2> QED BY <2>1, <2>2, Standing, SameHandshakes, SameSessions
<1>2. CASE \E l \in Lanes : Fetch(l) \/ Rebind(l) \/ Wait(l) \/ Deadline(l)
  BY <1>2, FetchTyped, RebindTyped, HelloAgainTyped, TimerTyped, GiveUpTyped DEF Wait, Deadline
<1> QED BY <1>1, <1>2, UplinkTyped, DownlinkTyped, LoseTyped, GatewayStepTyped DEF Next

(* At every moment packets, sessions and fetches are of the shapes the     *)
(* code gives them, and the credit of an address not proven is never       *)
(* overdrawn (Session::spend).                                             *)
THEOREM TypeOKHolds == Spec => []TypeOK
<1>1. Typed => TypeOK
  <2> SUFFICES ASSUME Typed PROVE TypeOK
    OBVIOUS
  <2>1. \A x \in DOMAIN sessions : IsSession(sessions[x]) /\ x \in 1 .. sids
    BY Standing DEF AllSessions
  <2>2. \A x \in DOMAIN sessions : \A id \in DOMAIN sessions[x].resp : id \in 1 .. Len(asked)
    <3>1. DOMAIN asked = 1 .. Len(asked)
      BY DEF Typed, Numbers
    <3> QED BY <2>1, <3>1 DEF IsSession, IsResponses
  <2>3. \A o \in queue : o.pkt.t = "DATA" => o.pkt.sym \in 0 .. K + Pool - 1 /\ o.pkt.pos < o.pkt.len
    BY Standing DEF IsQueued
  <2>4. (\A p \in up : p.t \in {"HS1", "REQ", "DONE"} /\ p.from \in Address)
        /\ \A p \in down : p.t \in {"HS2", "WRONG_KEY", "RESET", "DATA", "WORKING"} /\ p.to \in Address
    BY DEF Typed, PacketsTyped, IsUp, IsDown
  <2>5. \A x \in DOMAIN sessions :
          /\ x \in 1 .. sids
          /\ sessions[x].window \in Window
          /\ sessions[x].dev \in Devices /\ sessions[x].peer \in Address
          /\ sessions[x].ctr \in Nat /\ sessions[x].credit \in Nat /\ sessions[x].heard \in 0 .. now
    BY <2>1 DEF IsSession
  <2>6. \A e \in DOMAIN handshakes : e \in 1 .. hellos /\ handshakes[e].sid \in 1 .. sids
    BY DEF Typed, HandshakesTyped
  <2>7. \A l \in Lanes :
          /\ client[l].pc \in {"idle", "handshake", "exchange", "done", "failed"}
          /\ client[l].asks \in 0 .. scenario.asks
    BY DEF Typed, LanesTyped, IsFetch
  <2> QED BY <2>2, <2>3, <2>4, <2>5, <2>6, <2>7 DEF TypeOK
<1> QED BY <1>1, TypedInit, TypedNext, PTL DEF Spec

(* The gateway never keeps more than MaxSessions sessions, nor more than   *)
(* MaxPending open requests in one of them, whatever the phones send       *)
(* (Gateway::accept, Gateway::request).                                    *)
THEOREM WithinLimitsHolds == Spec => []WithinLimits
<1>1. Typed => WithinLimits
  <2> SUFFICES ASSUME Typed PROVE WithinLimits
    OBVIOUS
  <2>1. \A x \in DOMAIN sessions : Cardinality(OpenRequests(sessions[x])) <= MaxPending
    <3>1. \A x \in DOMAIN sessions : Cardinality(Open(sessions[x].resp)) <= MaxPending
      BY Standing DEF AllSessions, IsSession, IsResponses
    <3>2. \A x \in DOMAIN sessions : OpenRequests(sessions[x]) = Open(sessions[x].resp)
      BY DEF OpenRequests, Open
    <3> QED BY <3>1, <3>2
  <2> QED BY <2>1 DEF Typed, SessionsTyped, WithinLimits
<1> QED BY <1>1, TypedInit, TypedNext, PTL DEF Spec
-----------------------------------------------------------------------------
(* What is sealed: by the gateway, on its way or waiting in the queue; and *)
(* by the phones.                                                          *)
Frames == Sealed({Content(d) : d \in down} \cup {o.pkt : o \in queue})

FramesBehind ==
  \A f \in Frames :
    /\ f.sid \in 1 .. sids /\ f.ctr \in Nat
    /\ f.sid \in DOMAIN sessions => f.ctr < sessions[f.sid].ctr

FramesOnce == \A f, g \in Frames : f.sid = g.sid /\ f.ctr = g.ctr => f = g

FramesInv == FramesBehind /\ FramesOnce

Exchanging(l) == client[l].pc = "exchange"
Keeps(l, sid) == kept[l] /= NoSaved /\ kept[l].sid = sid
Owns(l, sid) == Keeps(l, sid) \/ (Exchanging(l) /\ client[l].sid = sid)

(* The hypothesis of the theorem: a fetch seals no more packets than the   *)
(* block it reserved (COUNTER_BLOCK, client.rs:340) has counters.          *)
WithinBlock == \A l \in Lanes : Exchanging(l) => client[l].ctr <= client[l].end

PacketsBehind ==
  \A p \in Sealed(up), l \in Lanes :
    /\ Exchanging(l) /\ client[l].sid = p.sid => p.ctr < client[l].ctr
    /\ Keeps(l, p.sid) => p.ctr < kept[l].next

PacketsOnce == \A p, q \in Sealed(up) : p.sid = q.sid /\ p.ctr = q.ctr => p = q

OneOwner == \A l, m \in Lanes : \A sid : Owns(l, sid) /\ Owns(m, sid) => l = m

BlockKept == \A l \in Lanes : Exchanging(l) /\ Keeps(l, client[l].sid) => kept[l].next = client[l].end

(* Which session a message 2 hands out, and to which message 1.            *)
Offered ==
  {[eph |-> p.eph, sid |-> p.sid] : p \in {p \in down : p.t = "HS2"}}
    \cup {[eph |-> e, sid |-> handshakes[e].sid] : e \in DOMAIN handshakes}

OneOffer == \A a, b \in Offered : a.sid = b.sid => a.eph = b.eph

Shaking(l) == client[l].pc = "handshake"
OneShaking == \A l, m \in Lanes : Shaking(l) /\ Shaking(m) /\ client[l].eph = client[m].eph => l = m

Used(sid) == (\E l \in Lanes : Owns(l, sid)) \/ \E p \in Sealed(up) : p.sid = sid

NotYetUsed ==
  \A a \in Offered, l \in Lanes : Shaking(l) /\ client[l].eph = a.eph => ~Used(a.sid)

PacketsInv ==
  /\ PacketsBehind /\ PacketsOnce /\ OneOwner /\ BlockKept /\ OneOffer /\ OneShaking /\ NotYetUsed
-----------------------------------------------------------------------------
LEMMA PacketTypes ==
  ASSUME Typed
  PROVE  /\ \A a \in Offered : a.eph \in 1 .. hellos /\ a.sid \in 1 .. sids
         /\ \A p \in Sealed(up) : p.sid \in 1 .. sids /\ p.ctr \in Nat
         /\ \A l \in Lanes : Exchanging(l) =>
              client[l].sid \in 1 .. sids /\ client[l].ctr \in Nat /\ client[l].end \in Nat
         /\ \A l \in Lanes : Shaking(l) => client[l].eph \in 1 .. hellos
         /\ \A l \in Lanes : kept[l] /= NoSaved => kept[l].sid \in 1 .. sids /\ kept[l].next \in Nat
         /\ sids \in Nat /\ hellos \in Nat
<1>1. \A a \in Offered : a.eph \in 1 .. hellos /\ a.sid \in 1 .. sids
  BY DEF Offered, Typed, PacketsTyped, IsDown, HandshakesTyped
<1>2. \A p \in Sealed(up) : p.sid \in 1 .. sids /\ p.ctr \in Nat
  BY DEF Sealed, Typed, PacketsTyped, IsUp
<1>3. \A l \in Lanes : Exchanging(l) =>
        client[l].sid \in 1 .. sids /\ client[l].ctr \in Nat /\ client[l].end \in Nat
  BY DEF Exchanging, Typed, LanesTyped, IsFetch, IsActive
<1>4. \A l \in Lanes : Shaking(l) => client[l].eph \in 1 .. hellos
  BY DEF Shaking, Typed, LanesTyped, IsFetch, IsActive
<1>5. \A l \in Lanes : kept[l] /= NoSaved => kept[l].sid \in 1 .. sids /\ kept[l].next \in Nat
  BY DEF Typed, LanesTyped, IsKept
<1> QED BY <1>1, <1>2, <1>3, <1>4, <1>5 DEF Typed, Numbers

LEMMA UsedTyped ==
  ASSUME Typed, NEW sid, Used(sid)
  PROVE  sid \in 1 .. sids
BY PacketTypes DEF Used, Owns, Keeps

(* Packets of one session sealed under counters of their own.              *)
Seals(N, sid, low, high) ==
  /\ \A p \in N : p.sid = sid /\ p.ctr \in Nat /\ low <= p.ctr /\ p.ctr < high
  /\ \A p, q \in N : p.ctr = q.ctr => p = q

(* A step of lane l that seals the packets N of session sid under the      *)
(* counters from low to high, which nobody used.                           *)
SealStep(l, d, k, N, sid, low, high) ==
  /\ client' = [client EXCEPT ![l] = d]
  /\ kept' = [kept EXCEPT ![l] = k] \/ (kept' = kept /\ k = kept[l])
  /\ low \in Nat /\ high \in Nat /\ low <= high
  /\ Seals(N, sid, low, high)
  /\ \A p \in Sealed(up') : p \in Sealed(up) \/ p \in N
  /\ \A p \in Sealed(up) : p.sid = sid => p.ctr < low
  /\ \A m \in Lanes : m /= l => ~Owns(m, sid)
  /\ \A a \in Offered, m \in Lanes : m /= l /\ Shaking(m) /\ client[m].eph = a.eph => a.sid /= sid
  /\ d.pc = "exchange" => d.sid = sid /\ d.ctr \in Nat /\ high <= d.ctr
  /\ \/ k = NoSaved
     \/ k.sid = sid /\ k.next \in Nat /\ high <= k.next
     \/ k = kept[l] /\ k.sid /= sid
  /\ d.pc = "exchange" /\ k /= NoSaved /\ k.sid = sid => k.next = d.end
  /\ d.pc = "handshake" =>
       /\ sid \notin 1 .. sids
       /\ (Shaking(l) /\ d.eph = client[l].eph) \/ d.eph \notin 1 .. hellos
  /\ Offered' \subseteq Offered

LEMMA LaneSeals ==
  ASSUME Typed, PacketsInv, NEW l \in Lanes, NEW d, NEW k, NEW N, NEW sid, NEW low, NEW high,
         SealStep(l, d, k, N, sid, low, high)
  PROVE  PacketsInv'
<1> USE DEF SealStep
<1>0. /\ DOMAIN client = Lanes /\ DOMAIN kept = Lanes
      /\ client'[l] = d /\ kept'[l] = k
      /\ \A m \in Lanes : m /= l => client'[m] = client[m] /\ kept'[m] = kept[m]
  BY DEF Typed, LanesTyped
<1>s. \A p \in Sealed(up)' : p \in Sealed(up) \/ p \in N
  BY DEF Sealed
<1>t. \A p \in Sealed(up) : p.sid \in 1 .. sids /\ p.ctr \in Nat
  BY PacketTypes
<1>1. PacketsBehind'
  <2> SUFFICES ASSUME NEW p \in Sealed(up)', NEW m \in Lanes
               PROVE  /\ client'[m].pc = "exchange" /\ client'[m].sid = p.sid => p.ctr < client'[m].ctr
                      /\ kept'[m] /= NoSaved /\ kept'[m].sid = p.sid => p.ctr < kept'[m].next
    BY DEF PacketsBehind, Exchanging, Keeps
  <2>1. p \in Sealed(up) \/ p \in N
    BY <1>s
  <2>2. p.sid = sid => p.ctr \in Nat /\ p.ctr < high
    <3>1. CASE p \in Sealed(up)
      BY <1>t, <3>1
    <3>2. CASE p \in N
      BY <3>2 DEF Seals
    <3> QED BY <2>1, <3>1, <3>2
  <2>3. p.sid /= sid => p \in Sealed(up)
    BY <2>1 DEF Seals
  <2>4. p \in Sealed(up) =>
          /\ client[m].pc = "exchange" /\ client[m].sid = p.sid => p.ctr < client[m].ctr
          /\ kept[m] /= NoSaved /\ kept[m].sid = p.sid => p.ctr < kept[m].next
    BY DEF PacketsInv, PacketsBehind, Exchanging, Keeps
  <2>5. CASE m = l
    <3>1. d.pc = "exchange" /\ d.sid = p.sid => p.ctr < d.ctr
      BY <2>2
    <3>2. k /= NoSaved /\ k.sid = p.sid => p.ctr < k.next
      <4>1. CASE p.sid = sid
        BY <2>2, <4>1
      <4>2. CASE p.sid /= sid
        BY <2>3, <2>4, <2>5, <4>2
      <4> QED BY <4>1, <4>2
    <3> QED BY <1>0, <2>5, <3>1, <3>2
  <2>6. CASE m /= l
    <3>1. CASE p.sid = sid
      BY <1>0, <2>6, <3>1 DEF Owns, Keeps, Exchanging
    <3>2. CASE p.sid /= sid
      BY <1>0, <2>3, <2>4, <2>6, <3>2
    <3> QED BY <3>1, <3>2
  <2> QED BY <2>5, <2>6
<1>2. PacketsOnce'
  <2> SUFFICES ASSUME NEW p \in Sealed(up)', NEW q \in Sealed(up)', p.sid = q.sid, p.ctr = q.ctr
               PROVE  p = q
    BY DEF PacketsOnce
  <2>1. CASE p \in Sealed(up) /\ q \in Sealed(up)
    BY <2>1 DEF PacketsInv, PacketsOnce
  <2>2. CASE p \in N /\ q \in N
    BY <2>2 DEF Seals
  <2>3. ASSUME NEW a \in Sealed(up), NEW b \in N, a.sid = b.sid, a.ctr = b.ctr PROVE FALSE
    BY <1>t, <2>3 DEF Seals
  <2> QED BY <1>s, <2>1, <2>2, <2>3
<1>3. \A x : Owns(l, x)' => x = sid \/ Owns(l, x)
  BY <1>0 DEF Owns, Keeps, Exchanging
<1>4. \A m \in Lanes : \A x : m /= l => (Owns(m, x)' <=> Owns(m, x))
  BY <1>0 DEF Owns, Keeps, Exchanging
<1>5. OneOwner'
  <2> SUFFICES ASSUME NEW m \in Lanes, NEW n \in Lanes, NEW x, Owns(m, x)', Owns(n, x)', m /= n
               PROVE  FALSE
    BY DEF OneOwner
  <2>1. ASSUME NEW a \in Lanes, a /= l, Owns(a, x)', Owns(l, x)' PROVE FALSE
    BY <1>3, <1>4, <2>1 DEF PacketsInv, OneOwner
  <2>2. CASE m = l
    BY <2>1, <2>2
  <2>3. CASE n = l
    BY <2>1, <2>3
  <2>4. CASE m /= l /\ n /= l
    BY <1>4, <2>4 DEF PacketsInv, OneOwner
  <2> QED BY <2>2, <2>3, <2>4
<1>6. BlockKept'
  BY <1>0 DEF BlockKept, PacketsInv, Exchanging, Keeps
<1>7. OneOffer'
  BY DEF OneOffer, PacketsInv
<1>8. OneShaking'
  <2>1. ASSUME NEW m \in Lanes, m /= l, Shaking(m), d.pc = "handshake", client[m].eph = d.eph
        PROVE  FALSE
    BY <2>1, PacketTypes DEF PacketsInv, OneShaking
  <2> QED BY <1>0, <2>1 DEF OneShaking, PacketsInv, Shaking
<1>9. NotYetUsed'
  <2> SUFFICES ASSUME NEW a \in Offered, NEW m \in Lanes, Shaking(m)', client'[m].eph = a.eph, Used(a.sid)'
               PROVE  FALSE
    BY DEF NotYetUsed
  <2>1. a.sid = sid \/ Used(a.sid)
    <3>1. CASE \E n \in Lanes : Owns(n, a.sid)'
      BY <1>3, <1>4, <3>1 DEF Used
    <3>2. CASE \E p \in Sealed(up)' : p.sid = a.sid
      BY <1>s, <3>2 DEF Used, Seals
    <3> QED BY <3>1, <3>2 DEF Used
  <2>2. a.sid \in 1 .. sids /\ a.eph \in 1 .. hellos
    BY PacketTypes
  <2>3. CASE m = l
    <3>1. d.pc = "handshake" /\ d.eph = a.eph
      BY <1>0, <2>3 DEF Shaking
    <3>2. Shaking(l) /\ client[l].eph = a.eph /\ a.sid /= sid
      BY <2>2, <3>1
    <3> QED BY <2>1, <3>2 DEF PacketsInv, NotYetUsed
  <2>4. CASE m /= l
    <3>1. Shaking(m) /\ client[m].eph = a.eph
      BY <1>0, <2>4 DEF Shaking
    <3> QED BY <2>1, <2>4, <3>1 DEF PacketsInv, NotYetUsed
  <2> QED BY <2>3, <2>4
<1> QED BY <1>1, <1>2, <1>5, <1>6, <1>7, <1>8, <1>9 DEF PacketsInv

LEMMA FewerOffers ==
  ASSUME down' \subseteq down, handshakes' = handshakes
  PROVE  Offered' \subseteq Offered
BY DEF Offered

(* A step that seals nothing, and does not end in an exchange.             *)
LEMMA LaneSilent ==
  ASSUME Typed, PacketsInv, NEW l \in Lanes, NEW d, client' = [client EXCEPT ![l] = d],
         kept' = kept, Sealed(up') \subseteq Sealed(up), Offered' \subseteq Offered,
         d.pc /= "exchange",
         d.pc = "handshake" => (Shaking(l) /\ d.eph = client[l].eph) \/ d.eph \notin 1 .. hellos
  PROVE  PacketsInv'
<1>1. 0 \in Nat /\ 0 \notin 1 .. sids
  BY PacketTypes
<1>2. Seals({}, 0, 0, 0)
  BY DEF Seals
<1>3. PICK k : k = kept[l]
  OBVIOUS
<1>4. \A m \in Lanes : ~Owns(m, 0)
  BY <1>1, PacketTypes DEF Owns, Keeps
<1>5. k = NoSaved \/ k.sid /= 0
  BY <1>1, <1>3, PacketTypes
<1>6. /\ \A a \in Offered : a.sid /= 0
      /\ \A p \in Sealed(up) : p.sid /= 0
  BY <1>1, PacketTypes
<1>q. SealStep(l, d, k, {}, 0, 0, 0)
  BY <1>1, <1>2, <1>3, <1>4, <1>5, <1>6 DEF SealStep
<1> QED BY <1>q, LaneSeals

(* A step of an exchange that goes on, with the next counters of its block.*)
LEMMA LaneGoesOn ==
  ASSUME Typed, PacketsInv, NEW l \in Lanes, NEW c, c = client[l], c.pc = "exchange",
         NEW d, client' = [client EXCEPT ![l] = d],
         d.pc = "exchange", d.sid = c.sid, d.end = c.end, d.ctr \in Nat, c.ctr <= d.ctr, d.ctr <= d.end,
         kept' = kept, Offered' \subseteq Offered,
         NEW N, Seals(N, c.sid, c.ctr, d.ctr), \A p \in Sealed(up') : p \in Sealed(up) \/ p \in N
  PROVE  PacketsInv'
<1>0. Exchanging(l) /\ c.sid \in 1 .. sids /\ c.ctr \in Nat
  BY PacketTypes DEF Exchanging
<1>1. PICK k : k = kept[l]
  OBVIOUS
<1>2. \A m \in Lanes : m /= l => ~Owns(m, c.sid)
  BY <1>0 DEF PacketsInv, OneOwner, Owns
<1>3. \A p \in Sealed(up) : p.sid = c.sid => p.ctr < c.ctr
  BY <1>0 DEF PacketsInv, PacketsBehind
<1>4. Used(c.sid)
  BY <1>0 DEF Used, Owns
<1>5. \A a \in Offered, m \in Lanes : m /= l /\ Shaking(m) /\ client[m].eph = a.eph => a.sid /= c.sid
  BY <1>4 DEF PacketsInv, NotYetUsed
<1>6. k /= NoSaved /\ k.sid = c.sid => k.next = d.end /\ k.next \in Nat
  BY <1>0, <1>1, PacketTypes DEF PacketsInv, BlockKept, Keeps
<1>q. SealStep(l, d, k, N, c.sid, c.ctr, d.ctr)
  BY <1>0, <1>1, <1>2, <1>3, <1>5, <1>6 DEF SealStep
<1> QED BY <1>q, LaneSeals

(* The end of an exchange: its last packets, and the session is kept.      *)
LEMMA LaneEnds ==
  ASSUME Typed, PacketsInv, NEW l \in Lanes, NEW c, c = client[l], c.pc = "exchange",
         NEW d, client' = [client EXCEPT ![l] = d], d.pc = "done",
         NEW k, kept' = [kept EXCEPT ![l] = k], k.sid = c.sid, k.next \in Nat, c.ctr <= k.next,
         Offered' \subseteq Offered,
         NEW N, Seals(N, c.sid, c.ctr, k.next), \A p \in Sealed(up') : p \in Sealed(up) \/ p \in N
  PROVE  PacketsInv'
<1>0. Exchanging(l) /\ c.sid \in 1 .. sids /\ c.ctr \in Nat
  BY PacketTypes DEF Exchanging
<1>2. \A m \in Lanes : m /= l => ~Owns(m, c.sid)
  BY <1>0 DEF PacketsInv, OneOwner, Owns
<1>3. \A p \in Sealed(up) : p.sid = c.sid => p.ctr < c.ctr
  BY <1>0 DEF PacketsInv, PacketsBehind
<1>4. Used(c.sid)
  BY <1>0 DEF Used, Owns
<1>5. \A a \in Offered, m \in Lanes : m /= l /\ Shaking(m) /\ client[m].eph = a.eph => a.sid /= c.sid
  BY <1>4 DEF PacketsInv, NotYetUsed
<1>q. SealStep(l, d, k, N, c.sid, c.ctr, k.next)
  BY <1>0, <1>2, <1>3, <1>5 DEF SealStep
<1> QED BY <1>q, LaneSeals

(* The start of an exchange on the session the lane kept, or on one that a *)
(* message 2 offers it; the first packet is sealed at once, or none is.    *)
MayTake(l, sid, low) ==
  \/ Keeps(l, sid) /\ low = kept[l].next /\ ~Shaking(l)
  \/ /\ Shaking(l) /\ low = 0
     /\ \E a \in Offered : a.eph = client[l].eph /\ a.sid = sid

LEMMA TakeFacts ==
  ASSUME Typed, PacketsInv, NEW l \in Lanes, NEW sid, NEW low, MayTake(l, sid, low)
  PROVE  /\ low \in Nat
         /\ \A m \in Lanes : m /= l => ~Owns(m, sid)
         /\ \A p \in Sealed(up) : p.sid = sid => p.ctr < low
         /\ \A a \in Offered, m \in Lanes : m /= l /\ Shaking(m) /\ client[m].eph = a.eph => a.sid /= sid
         /\ Shaking(l) => ~Keeps(l, sid)
<1>1. CASE Keeps(l, sid) /\ low = kept[l].next /\ ~Shaking(l)
  <2>1. low \in Nat
    BY <1>1, PacketTypes DEF Keeps
  <2>2. \A m \in Lanes : m /= l => ~Owns(m, sid)
    BY <1>1 DEF PacketsInv, OneOwner, Owns
  <2>3. \A p \in Sealed(up) : p.sid = sid => p.ctr < low
    BY <1>1 DEF PacketsInv, PacketsBehind, Keeps
  <2>4. Used(sid)
    BY <1>1 DEF Used, Owns
  <2>5. \A a \in Offered, m \in Lanes : m /= l /\ Shaking(m) /\ client[m].eph = a.eph => a.sid /= sid
    BY <2>4 DEF PacketsInv, NotYetUsed
  <2> QED BY <1>1, <2>1, <2>2, <2>3, <2>5
<1>2. CASE /\ Shaking(l) /\ low = 0
           /\ \E a \in Offered : a.eph = client[l].eph /\ a.sid = sid
  <2>1. PICK b \in Offered : b.eph = client[l].eph /\ b.sid = sid
    BY <1>2
  <2>2. ~Used(sid)
    BY <1>2, <2>1 DEF PacketsInv, NotYetUsed
  <2>3. \A m \in Lanes : ~Owns(m, sid)
    BY <2>2 DEF Used
  <2>4. \A p \in Sealed(up) : p.sid /= sid
    BY <2>2 DEF Used
  <2>5. \A a \in Offered, m \in Lanes : m /= l /\ Shaking(m) /\ client[m].eph = a.eph => a.sid /= sid
    BY <1>2, <2>1 DEF PacketsInv, OneOffer, OneShaking
  <2> QED BY <1>2, <2>3, <2>4, <2>5 DEF Owns
<1> QED BY <1>1, <1>2 DEF MayTake

LEMMA LaneTakes ==
  ASSUME Typed, PacketsInv, NEW l \in Lanes, NEW sid, NEW low, MayTake(l, sid, low),
         NEW d, client' = [client EXCEPT ![l] = d], d.pc = "exchange", d.sid = sid, d.ctr \in Nat,
         low <= d.ctr, d.ctr <= d.end, Offered' \subseteq Offered,
         NEW k, \/ kept' = [kept EXCEPT ![l] = k] /\ k.sid = sid /\ k.next = d.end /\ k.next \in Nat
                \/ kept' = kept /\ k = kept[l] /\ Shaking(l),
         NEW N, Seals(N, sid, low, d.ctr), \A p \in Sealed(up') : p \in Sealed(up) \/ p \in N
  PROVE  PacketsInv'
<1>1. /\ low \in Nat
      /\ \A m \in Lanes : m /= l => ~Owns(m, sid)
      /\ \A p \in Sealed(up) : p.sid = sid => p.ctr < low
      /\ \A a \in Offered, m \in Lanes : m /= l /\ Shaking(m) /\ client[m].eph = a.eph => a.sid /= sid
      /\ Shaking(l) => ~Keeps(l, sid)
  BY TakeFacts
<1>2. \/ k = NoSaved
      \/ k.sid = sid /\ k.next \in Nat /\ d.ctr <= k.next
      \/ k = kept[l] /\ k.sid /= sid
  BY <1>1 DEF Keeps
<1>3. k /= NoSaved /\ k.sid = sid => k.next = d.end
  BY <1>1 DEF Keeps
<1>q. SealStep(l, d, k, N, sid, low, d.ctr)
  BY <1>1, <1>2, <1>3 DEF SealStep
<1> QED BY <1>q, LaneSeals
-----------------------------------------------------------------------------
(* The steps of a phone, while its fetches keep to their blocks.           *)
LEMMA LaneUnmoved ==
  ASSUME Typed, PacketsInv, WithinBlock, NEW l \in Lanes, Active(l), NEW c, c = client[l],
         NEW d, client' = [client EXCEPT ![l] = d],
         d.pc = c.pc, d.eph = c.eph, d.sid = c.sid, d.ctr = c.ctr, d.end = c.end,
         kept' = kept, Sealed(up') \subseteq Sealed(up), Offered' \subseteq Offered
  PROVE  PacketsInv'
<1>1. CASE c.pc = "handshake"
  BY <1>1, LaneSilent DEF Shaking
<1>2. CASE c.pc = "exchange"
  <2>1. c.ctr \in Nat /\ c.ctr <= c.end
    BY <1>2, PacketTypes DEF WithinBlock, Exchanging
  <2>2. Seals({}, c.sid, c.ctr, d.ctr)
    BY DEF Seals
  <2>3. \A p \in Sealed(up') : p \in Sealed(up) \/ p \in {}
    OBVIOUS
  <2>4. d.pc = "exchange" /\ d.ctr \in Nat /\ c.ctr <= d.ctr /\ d.ctr <= d.end
    BY <1>2, <2>1
  <2> QED BY <1>2, <2>2, <2>3, <2>4, LaneGoesOn
<1> QED BY <1>1, <1>2 DEF Active

LEMMA SealsOne ==
  ASSUME NEW q, q.ctr \in Nat
  PROVE  Seals({q}, q.sid, q.ctr, q.ctr + 1)
BY DEF Seals

LEMMA SessionSeals ==
  ASSUME Typed, PacketsInv, WithinBlock', NEW l \in Lanes, NEW c, DOMAIN c = DOMAIN NoFetch,
         NEW sid, NEW next, MayTake(l, sid, next), NEW made, OnSession(l, c, sid, next, made),
         Offered' \subseteq Offered
  PROVE  PacketsInv'
<1>id. PICK id : id = Len(asked) + 1
  OBVIOUS
<1>d. PICK d : d = [c EXCEPT !.pc = "exchange", !.id = id, !.sid = sid, !.ctr = next + 1,
                    !.end = next + Block, !.made = made, !.resettable = TRUE,
                    !.rounds = Set(EmptyFun, 0, Round(1))]
  OBVIOUS
<1>k. PICK k : k = [sid |-> sid, next |-> next + Block, key |-> c.key, made |-> made]
  OBVIOUS
<1>q. PICK q : q = Request(sid, next, Req(id, 0, 0, FALSE, TRUE), c.addr)
  OBVIOUS
<1>1. client' = [client EXCEPT ![l] = d] /\ up' = up \cup {q} /\ kept' = [kept EXCEPT ![l] = k]
  BY <1>id, <1>d, <1>k, <1>q DEF OnSession, SendUp
<1>2. d.pc = "exchange" /\ d.sid = sid /\ d.ctr = next + 1 /\ d.end = next + Block
  BY <1>d DEF NoFetch
<1>3. q.sid = sid /\ q.ctr = next
  BY <1>q DEF Request
<1>4. k.sid = sid /\ k.next = d.end
  BY <1>k, <1>2
<1>5. next \in Nat
  BY TakeFacts
<1>6. d.ctr \in Nat /\ next <= d.ctr /\ k.next \in Nat
  BY <1>2, <1>4, <1>5, ClientAssumption
<1>7. d.ctr <= d.end
  <2>1. client'[l] = d
    BY <1>1 DEF Typed, LanesTyped
  <2> QED BY <1>2, <2>1 DEF WithinBlock, Exchanging
<1>8. Seals({q}, sid, next, d.ctr)
  BY <1>2, <1>3, <1>5, SealsOne
<1>9. \A p \in Sealed(up') : p \in Sealed(up) \/ p \in {q}
  BY <1>1 DEF Sealed
<1> QED BY <1>1, <1>2, <1>4, <1>6, <1>7, <1>8, <1>9, LaneTakes

LEMMA HelloSeals ==
  ASSUME Typed, PacketsInv, NEW l \in Lanes, NEW c, DOMAIN c = DOMAIN NoFetch,
         SayHello(l, c, now), kept' = kept, Offered' \subseteq Offered
  PROVE  PacketsInv'
<1>1. PICK id, eph, ts :
        /\ eph = hellos + 1
        /\ client' = [client EXCEPT ![l] = [c EXCEPT !.pc = "handshake", !.id = id, !.eph = eph, !.ts = ts]]
        /\ up' = up \cup {Hello(eph, c.key, DeviceOf[l], ts, Req(id, 0, 0, FALSE, ~c.secret), c.addr)}
  BY DEF SayHello, SendUp
<1>d. PICK d : d = [c EXCEPT !.pc = "handshake", !.id = id, !.eph = eph, !.ts = ts]
  OBVIOUS
<1>q. PICK q : q = Hello(eph, c.key, DeviceOf[l], ts, Req(id, 0, 0, FALSE, ~c.secret), c.addr)
  OBVIOUS
<1>2. client' = [client EXCEPT ![l] = d] /\ up' = up \cup {q}
  BY <1>1, <1>d, <1>q
<1>3. d.pc = "handshake" /\ d.eph = hellos + 1
  BY <1>1, <1>d DEF NoFetch
<1>4. q.t = "HS1"
  BY <1>q DEF Hello
<1>5. Sealed(up') \subseteq Sealed(up)
  BY <1>2, <1>4 DEF Sealed
<1>6. d.eph \notin 1 .. hellos
  BY <1>3, PacketTypes
<1> QED BY <1>2, <1>3, <1>5, <1>6, LaneSilent

LEMMA EndsSeals ==
  ASSUME Typed, PacketsInv, NEW l \in Lanes, NEW pc \in {"done", "failed"}, NEW answer,
         Ends(l, pc, answer), kept' = kept, Sealed(up') \subseteq Sealed(up), Offered' \subseteq Offered
  PROVE  PacketsInv'
<1>d. PICK d : d = [NoFetch EXCEPT !.pc = pc, !.fetch = client[l].fetch, !.key = client[l].key,
                    !.answer = answer]
  OBVIOUS
<1>1. client' = [client EXCEPT ![l] = d] /\ d.pc = pc
  BY <1>d DEF Ends, NoFetch
<1> QED BY <1>1, LaneSilent

LEMMA FetchSeals ==
  ASSUME Typed, PacketsInv, WithinBlock', NEW l \in Lanes, Fetch(l)
  PROVE  PacketsInv'
<1>1. PICK ip \in Ips, key \in 1 .. gkeys[1], secret \in scenario.secrets :
         Start(l, NewAddress(ip), key, secret, now)
  BY DEF Fetch
<1>c. PICK c : c = [NoFetch EXCEPT !.fetch = fetches + 1, !.addr = NewAddress(ip), !.key = key,
                                   !.secret = secret, !.began = now]
  OBVIOUS
<1>2. /\ client[l].pc \in {"idle", "done", "failed"}
      /\ \/ /\ kept[l] /= NoSaved
            /\ OnSession(l, c, kept[l].sid, kept[l].next, kept[l].made)
         \/ SayHello(l, c, now) /\ UNCHANGED kept
  BY <1>1, <1>c DEF Start
<1>3. down' \subseteq down /\ handshakes' = handshakes
  BY <1>1 DEF Fetch, Start, OpenSocket, gvars, gateway
<1>4. DOMAIN c = DOMAIN NoFetch
  BY <1>c
<1>5. CASE kept[l] /= NoSaved /\ OnSession(l, c, kept[l].sid, kept[l].next, kept[l].made)
  <2>1. MayTake(l, kept[l].sid, kept[l].next)
    BY <1>2, <1>5 DEF MayTake, Keeps, Shaking
  <2> QED BY <1>3, <1>4, <1>5, <2>1, FewerOffers, SessionSeals
<1>6. CASE SayHello(l, c, now) /\ UNCHANGED kept
  BY <1>3, <1>4, <1>6, FewerOffers, HelloSeals
<1> QED BY <1>2, <1>5, <1>6

LEMMA RebindSeals ==
  ASSUME Typed, PacketsInv, WithinBlock, NEW l \in Lanes, Rebind(l)
  PROVE  PacketsInv'
<1>1. PICK ip \in Ips : client' = [client EXCEPT ![l].addr = NewAddress(ip)]
  BY DEF Rebind
<1>c. PICK c : c = client[l]
  OBVIOUS
<1>d. PICK d : d = [c EXCEPT !.addr = NewAddress(ip)]
  OBVIOUS
<1>2. client' = [client EXCEPT ![l] = d] /\ kept' = kept /\ Sealed(up') \subseteq Sealed(up) /\ Active(l)
  BY <1>1, <1>c, <1>d DEF Rebind
<1>3. down' \subseteq down /\ handshakes' = handshakes
  BY DEF Rebind, gvars, gateway
<1>4. d.pc = c.pc /\ d.eph = c.eph /\ d.sid = c.sid /\ d.ctr = c.ctr /\ d.end = c.end
  BY <1>c, <1>d, FetchFacts DEF NoFetch
<1> QED BY <1>2, <1>3, <1>4, <1>c, FewerOffers, LaneUnmoved

LEMMA HelloAgainSeals ==
  ASSUME Typed, PacketsInv, WithinBlock, NEW l \in Lanes, HelloAgain(l), handshakes' = handshakes
  PROVE  PacketsInv'
<1>c. PICK c : c = client[l]
  OBVIOUS
<1>d. PICK d : d = [c EXCEPT !.asks = @ + 1]
  OBVIOUS
<1>q. PICK q : q = Hello(c.eph, c.key, DeviceOf[l], c.ts, Req(c.id, 0, 0, FALSE, ~c.secret), c.addr)
  OBVIOUS
<1>1. /\ kept' = kept /\ c.pc = "handshake" /\ down' \subseteq down
      /\ client' = [client EXCEPT ![l] = d] /\ up' = up \cup {q}
  BY <1>c, <1>d, <1>q DEF HelloAgain, SendUp
<1>2. Sealed(up') \subseteq Sealed(up)
  <2>1. q.t = "HS1"
    BY <1>q DEF Hello
  <2> QED BY <1>1, <2>1 DEF Sealed
<1>3. d.pc = c.pc /\ d.eph = c.eph /\ d.sid = c.sid /\ d.ctr = c.ctr /\ d.end = c.end
  BY <1>c, <1>d, FetchFacts DEF NoFetch
<1> QED BY <1>1, <1>2, <1>3, <1>c, FewerOffers, LaneUnmoved DEF Active

LEMMA TimerSeals ==
  ASSUME Typed, PacketsInv, WithinBlock', NEW l \in Lanes, Timer(l), handshakes' = handshakes
  PROVE  PacketsInv'
<1>c. PICK c : c = client[l]
  OBVIOUS
<1>r. PICK lost : lost = [r \in DOMAIN c.rounds |->
                 [c.rounds[r] EXCEPT !.upto = c.rounds[r].len, !.requested = 0]]
  OBVIOUS
<1>1d. PICK c1 : c1 = [c EXCEPT !.rounds = lost, !.asks = @ + 1]
  OBVIOUS
<1>1. /\ c.pc = "exchange" /\ kept' = kept /\ down' \subseteq down
      /\ \E want : /\ client' = [client EXCEPT ![l] = Asked(c1, want)]
                   /\ up' = up \cup {AskFor(c1, want, WithBody(c))}
  BY <1>c, <1>r, <1>1d DEF Timer, SendUp
<1>2. PICK want : /\ client' = [client EXCEPT ![l] = Asked(c1, want)]
                  /\ up' = up \cup {AskFor(c1, want, WithBody(c))}
  BY <1>1
<1>d. PICK d : d = Asked(c1, want)
  OBVIOUS
<1>q. PICK q : q = AskFor(c1, want, WithBody(c))
  OBVIOUS
<1>3. DOMAIN c1 = DOMAIN NoFetch /\ c1.pc = c.pc /\ c1.sid = c.sid /\ c1.ctr = c.ctr /\ c1.end = c.end
  BY <1>c, <1>1d, FetchFacts DEF NoFetch
<1>4. d.pc = c.pc /\ d.sid = c.sid /\ d.ctr = c.ctr + 1 /\ d.end = c.end
  BY <1>d, <1>3 DEF NoFetch, Asked
<1>5. q.sid = c.sid /\ q.ctr = c.ctr
  BY <1>q, <1>3 DEF AskFor, Request
<1>6. c.ctr \in Nat
  BY <1>1, <1>c, PacketTypes DEF Exchanging
<1>7. d.ctr <= d.end
  <2>1. client'[l] = d
    BY <1>2, <1>d DEF Typed, LanesTyped
  <2> QED BY <1>1, <1>4, <2>1 DEF WithinBlock, Exchanging
<1>8. Seals({q}, c.sid, c.ctr, d.ctr)
  BY <1>4, <1>5, <1>6, SealsOne
<1>9. \A p \in Sealed(up') : p \in Sealed(up) \/ p \in {q}
  BY <1>2, <1>q DEF Sealed
<1>10. client' = [client EXCEPT ![l] = d]
  BY <1>2, <1>d
<1>11. d.pc = "exchange" /\ d.ctr \in Nat /\ c.ctr <= d.ctr
  BY <1>1, <1>4, <1>6
<1> QED BY <1>1, <1>4, <1>7, <1>8, <1>9, <1>10, <1>11, <1>c, FewerOffers, LaneGoesOn

LEMMA GiveUpSeals ==
  ASSUME Typed, PacketsInv, NEW l \in Lanes, GiveUp(l), handshakes' = handshakes
  PROVE  PacketsInv'
<1>1. kept' = kept /\ Sealed(up') \subseteq Sealed(up) /\ down' \subseteq down /\ Ends(l, "failed", 0)
  BY DEF GiveUp, CloseSocket
<1> QED BY <1>1, FewerOffers, EndsSeals

LEMMA HelloReplySeals ==
  ASSUME Typed, PacketsInv, WithinBlock', NEW l \in Lanes, NEW p \in down, OnHelloReply(l, p, now),
         Offered' \subseteq Offered
  PROVE  PacketsInv'
<1>c. PICK c : c = [client[l] EXCEPT !.heard = TRUE]
  OBVIOUS
<1>d. PICK d : d = [c EXCEPT !.pc = "exchange", !.sid = p.sid, !.ctr = 0, !.end = Block,
                    !.made = now, !.resettable = FALSE,
                    !.rounds = Set(EmptyFun, 0, Round(1))]
  OBVIOUS
<1>1. /\ client[l].pc = "handshake" /\ p.t = "HS2" /\ p.eph = c.eph
      /\ \/ OnSession(l, c, p.sid, 0, now)
         \/ client' = [client EXCEPT ![l] = d] /\ UNCHANGED <<kept, asked, up>>
  BY <1>c, <1>d DEF OnHelloReply
<1>2. DOMAIN c = DOMAIN NoFetch /\ c.eph = client[l].eph
  BY <1>c, FetchFacts DEF NoFetch
<1>3. MayTake(l, p.sid, 0)
  <2>1. [eph |-> p.eph, sid |-> p.sid] \in Offered
    BY <1>1 DEF Offered
  <2> QED BY <1>1, <1>2, <2>1 DEF MayTake, Shaking
<1>4. CASE OnSession(l, c, p.sid, 0, now)
  BY <1>2, <1>3, <1>4, SessionSeals
<1>5. CASE client' = [client EXCEPT ![l] = d] /\ UNCHANGED <<kept, asked, up>>
  <2>1. d.pc = "exchange" /\ d.sid = p.sid /\ d.ctr = 0 /\ d.end = Block
    BY <1>d, <1>2 DEF NoFetch
  <2>2. Seals({}, p.sid, 0, d.ctr)
    BY DEF Seals
  <2>3. \A x \in Sealed(up') : x \in Sealed(up) \/ x \in {}
    BY <1>5
  <2>4. d.ctr \in Nat /\ 0 <= d.ctr /\ d.ctr <= d.end
    BY <2>1, ClientAssumption
  <2>k. PICK k : k = kept[l]
    OBVIOUS
  <2>5. Shaking(l) /\ kept' = kept
    BY <1>1, <1>5 DEF Shaking
  <2> QED BY <1>3, <1>5, <2>1, <2>2, <2>3, <2>4, <2>5, <2>k, LaneTakes
<1> QED BY <1>1, <1>4, <1>5

LEMMA ResetSeals ==
  ASSUME Typed, PacketsInv, NEW l \in Lanes, NEW p, OnReset(l, p, now), Offered' \subseteq Offered
  PROVE  PacketsInv'
<1>c. PICK c : c = client[l]
  OBVIOUS
<1>d. PICK d : d = [NoFetch EXCEPT !.fetch = c.fetch, !.addr = c.addr, !.key = c.key,
                              !.secret = c.secret, !.again = TRUE, !.heard = TRUE,
                              !.asks = c.asks, !.began = c.began]
  OBVIOUS
<1>1. /\ kept' = kept
      /\ \/ Ends(l, "failed", 0) /\ UNCHANGED <<asked, hellos, up>>
         \/ SayHello(l, d, now)
  BY <1>c, <1>d DEF OnReset
<1>2. DOMAIN d = DOMAIN NoFetch
  BY <1>d
<1>3. CASE Ends(l, "failed", 0) /\ UNCHANGED <<asked, hellos, up>>
  BY <1>1, <1>3, EndsSeals
<1>4. CASE SayHello(l, d, now)
  BY <1>1, <1>2, <1>4, HelloSeals
<1> QED BY <1>1, <1>3, <1>4

LEMMA WorkingSeals ==
  ASSUME Typed, PacketsInv, WithinBlock, NEW l \in Lanes, NEW p, OnWorking(l, p),
         Offered' \subseteq Offered
  PROVE  PacketsInv'
<1>c. PICK c : c = client[l]
  OBVIOUS
<1>w. PICK waiting : waiting = [r \in DOMAIN c.rounds |->
         IF c.rounds[r].len = 0 THEN [c.rounds[r] EXCEPT !.requested = 0] ELSE c.rounds[r]]
  OBVIOUS
<1>d. PICK d : d = IF p.id = c.id /\ ~c.known
         THEN [c EXCEPT !.heard = TRUE, !.echo = TRUE, !.working = TRUE, !.rounds = waiting]
         ELSE [c EXCEPT !.heard = TRUE, !.echo = TRUE]
  OBVIOUS
<1>1. /\ c.pc = "exchange" /\ kept' = kept /\ up' = up
      /\ client' = [client EXCEPT ![l] = d]
  BY <1>c, <1>w, <1>d DEF OnWorking
<1>2. d.pc = c.pc /\ d.eph = c.eph /\ d.sid = c.sid /\ d.ctr = c.ctr /\ d.end = c.end
  BY <1>c, <1>d, FetchFacts DEF NoFetch
<1> QED BY <1>1, <1>2, <1>c, LaneUnmoved DEF Active

LEMMA IgnoreSeals ==
  ASSUME Typed, PacketsInv, WithinBlock, NEW l \in Lanes, NEW p, Active(l), Ignore(l, p),
         Offered' \subseteq Offered
  PROVE  PacketsInv'
<1>c. PICK c : c = client[l]
  OBVIOUS
<1>d. PICK d : d = [c EXCEPT !.heard = TRUE, !.echo = @ \/ Opened(c, p)]
  OBVIOUS
<1>1. kept' = kept /\ up' = up /\ client' = [client EXCEPT ![l] = d]
  BY <1>c, <1>d DEF Ignore
<1>2. d.pc = c.pc /\ d.eph = c.eph /\ d.sid = c.sid /\ d.ctr = c.ctr /\ d.end = c.end
  BY <1>c, <1>d, FetchFacts DEF NoFetch
<1> QED BY <1>1, <1>2, <1>c, LaneUnmoved

(* A symbol: at most an acknowledgement and one packet more are sealed.    *)
LEMMA DataSeals ==
  ASSUME Typed, PacketsInv, WithinBlock', NEW l \in Lanes, NEW p, OnData(l, p),
         Offered' \subseteq Offered
  PROVE  PacketsInv'
<1> DEFINE c == client[l]
           r == IF p.round \in DOMAIN c.rounds THEN c.rounds[p.round] ELSE Round(0)
           r1 == [r EXCEPT !.len = p.len, !.upto = IF p.pos + 1 > @ THEN p.pos + 1 ELSE @]
           got == IF p.sym \in DOMAIN c.got THEN c.got ELSE Set(c.got, p.sym, p.run)
           ack == Request(c.sid, c.ctr, Req(c.id, 0, 0, TRUE, FALSE), c.addr)
           acks == IF c.acked THEN {} ELSE {ack}
           c1 == [c EXCEPT !.heard = TRUE, !.echo = TRUE, !.working = FALSE, !.known = TRUE,
                      !.acked = TRUE, !.ctr = @ + (IF c.acked THEN 0 ELSE 1), !.got = got,
                      !.rounds = Set(@, p.round, r1)]
           n == c1.ctr
           done == Done(c.sid, n, c.id, c.addr)
           k == [sid |-> c.sid, next |-> IF n + 1 > c.end THEN n + 1 ELSE c.end,
                 key |-> c.key, made |-> c.made]
<1>1. c.pc = "exchange"
  BY DEF OnData
<1>5. \/ /\ up' = up \cup acks \cup {done} /\ kept' = [kept EXCEPT ![l] = k]
         /\ \E answer : Ends(l, "done", answer)
      \/ up' = up \cup acks /\ client' = [client EXCEPT ![l] = c1] /\ UNCHANGED kept
      \/ \E want : /\ up' = up \cup acks \cup {AskFor(c1, want, FALSE)}
                   /\ client' = [client EXCEPT ![l] = Asked(c1, want)] /\ UNCHANGED kept
  BY DEF OnData
<1>2. DOMAIN c = DOMAIN NoFetch /\ c.ctr \in Nat /\ c.end \in Nat
  BY <1>1, FetchFacts, PacketTypes DEF Exchanging
<1>c. c = client[l]
  OBVIOUS
<1>ack. ack = Request(c.sid, c.ctr, Req(c.id, 0, 0, TRUE, FALSE), c.addr)
  OBVIOUS
<1>as. acks = IF c.acked THEN {} ELSE {ack}
  OBVIOUS
<1>done. done = Done(c.sid, n, c.id, c.addr)
  OBVIOUS
<1>k. k.sid = c.sid /\ k.next = IF n + 1 > c.end THEN n + 1 ELSE c.end
  OBVIOUS
<1> HIDE DEF r1, got, ack, acks, done, k
<1>3. c1.pc = c.pc /\ c1.sid = c.sid /\ c1.end = c.end /\ DOMAIN c1 = DOMAIN NoFetch
  BY <1>2 DEF NoFetch
<1>n. n = c.ctr + (IF c.acked THEN 0 ELSE 1)
  BY <1>2 DEF NoFetch
<1>4. c1.ctr = n
  OBVIOUS
<1> HIDE DEF c, c1, n
<1>6. ack.sid = c.sid /\ ack.ctr = c.ctr
  BY <1>ack DEF Request
<1>7. n \in Nat /\ (acks = {} \/ (acks = {ack} /\ n = c.ctr + 1)) /\ c.ctr <= n
  BY <1>2, <1>n, <1>as
<1>8. Seals(acks, c.sid, c.ctr, n)
  BY <1>2, <1>6, <1>7 DEF Seals
<1>9. ASSUME NEW q, q.sid = c.sid, q.ctr = n, NEW high \in Nat, n < high
      PROVE  Seals(acks \cup {q}, c.sid, c.ctr, high)
  BY <1>2, <1>6, <1>7, <1>9 DEF Seals
<1>10. CASE /\ up' = up \cup acks \cup {done} /\ kept' = [kept EXCEPT ![l] = k]
            /\ \E answer : Ends(l, "done", answer)
  <2>1. PICK answer : Ends(l, "done", answer)
    BY <1>10
  <2>d. PICK d : d = [NoFetch EXCEPT !.pc = "done", !.fetch = client[l].fetch, !.key = client[l].key,
                      !.answer = answer]
    OBVIOUS
  <2>2. client' = [client EXCEPT ![l] = d] /\ d.pc = "done"
    BY <2>1, <2>d DEF Ends, NoFetch
  <2>3. done.sid = c.sid /\ done.ctr = n
    BY <1>done DEF Done
  <2>4. k.sid = c.sid /\ k.next \in Nat /\ n < k.next
    BY <1>2, <1>7, <1>k
  <2>N. PICK N : N = acks \cup {done}
    OBVIOUS
  <2>5. Seals(N, c.sid, c.ctr, k.next)
    BY <1>9, <2>3, <2>4, <2>N
  <2>6. \A x \in Sealed(up') : x \in Sealed(up) \/ x \in N
    BY <1>10, <2>N DEF Sealed
  <2>7. c.ctr <= k.next
    BY <1>2, <1>7, <2>4
  <2>8. kept' = [kept EXCEPT ![l] = k]
    BY <1>10
  <2> QED BY <1>1, <1>c, <2>2, <2>4, <2>5, <2>6, <2>7, <2>8, LaneEnds
<1>11. CASE up' = up \cup acks /\ client' = [client EXCEPT ![l] = c1] /\ UNCHANGED kept
  <2>1. client'[l] = c1
    BY <1>11 DEF Typed, LanesTyped
  <2>2. c1.ctr <= c1.end
    BY <1>1, <1>3, <2>1 DEF WithinBlock, Exchanging
  <2>3. \A x \in Sealed(up') : x \in Sealed(up) \/ x \in acks
    BY <1>11 DEF Sealed
  <2>4. Seals(acks, c.sid, c.ctr, c1.ctr) /\ c1.ctr \in Nat /\ c.ctr <= c1.ctr /\ c1.pc = "exchange"
    BY <1>1, <1>3, <1>4, <1>7, <1>8
  <2> QED BY <1>1, <1>3, <1>c, <1>11, <2>2, <2>3, <2>4, LaneGoesOn
<1>12. ASSUME NEW want, up' = up \cup acks \cup {AskFor(c1, want, FALSE)},
              client' = [client EXCEPT ![l] = Asked(c1, want)], kept' = kept
       PROVE  PacketsInv'
  <2>d. PICK d : d = Asked(c1, want)
    OBVIOUS
  <2>q. PICK q : q = AskFor(c1, want, FALSE)
    OBVIOUS
  <2>1. d.pc = c.pc /\ d.sid = c.sid /\ d.ctr = n + 1 /\ d.end = c.end
    BY <2>d, <1>3, <1>4 DEF NoFetch, Asked
  <2>2. q.sid = c.sid /\ q.ctr = n
    BY <2>q, <1>3, <1>4 DEF AskFor, Request
  <2>3. client' = [client EXCEPT ![l] = d]
    BY <1>12, <2>d
  <2>4. client'[l] = d
    BY <2>3 DEF Typed, LanesTyped
  <2>5. d.ctr <= d.end
    BY <1>1, <2>1, <2>4 DEF WithinBlock, Exchanging
  <2>N. PICK N : N = acks \cup {q}
    OBVIOUS
  <2>6. d.ctr \in Nat /\ n < d.ctr /\ c.ctr <= d.ctr /\ d.pc = "exchange"
    BY <1>1, <1>2, <1>7, <2>1
  <2>7. Seals(N, c.sid, c.ctr, d.ctr)
    BY <1>9, <2>2, <2>6, <2>N
  <2>8. \A x \in Sealed(up') : x \in Sealed(up) \/ x \in N
    BY <1>12, <2>q, <2>N DEF Sealed
  <2> QED BY <1>1, <1>12, <1>c, <2>1, <2>3, <2>5, <2>6, <2>7, <2>8, LaneGoesOn
<1> QED BY <1>5, <1>10, <1>11, <1>12

LEMMA DownlinkSeals ==
  ASSUME Typed, PacketsInv, WithinBlock, WithinBlock', Downlink
  PROVE  PacketsInv'
<1>1. PICK l \in Lanes, p \in down, copied \in BOOLEAN : Arrives(l, p, Remaining(p, down, copied), now)
  BY DEF Downlink
<1>2. Active(l) /\ down' \subseteq down /\ handshakes' = handshakes
  BY <1>1 DEF Downlink, Arrives, CloseSocket, Remaining, gvars, gateway
<1>3. Offered' \subseteq Offered
  BY <1>2, FewerOffers
<1>4. \/ OnHelloReply(l, p, now) \/ OnWrongKey(l, p) \/ OnReset(l, p, now)
      \/ OnWorking(l, p) \/ OnData(l, p) \/ Ignore(l, p)
  BY <1>1 DEF Arrives
<1>5. CASE OnWrongKey(l, p)
  BY <1>3, <1>5, EndsSeals DEF OnWrongKey
<1> QED BY <1>2, <1>3, <1>4, <1>5, HelloReplySeals, ResetSeals, WorkingSeals, DataSeals, IgnoreSeals
-----------------------------------------------------------------------------
(* The gateway seals nothing of a phone's, and offers a session once.      *)
LEMMA GatewayOffers ==
  ASSUME Typed, PacketsInv, UNCHANGED <<client, kept>>, up' \subseteq up,
         NEW eph, NEW sid, sid \notin 1 .. sids,
         \A a \in Offered' : a \in Offered \/ (a.eph = eph /\ a.sid = sid)
  PROVE  PacketsInv'
<1>1. Sealed(up)' \subseteq Sealed(up)
  BY DEF Sealed
<1>2. \A a \in Offered' : a.sid \in 1 .. sids => a \in Offered
  OBVIOUS
<1>3. \A a \in Offered : a.sid \in 1 .. sids
  BY PacketTypes
<1>4. OneOffer'
  BY <1>3 DEF OneOffer, PacketsInv
<1>5. \A x : Used(x)' => Used(x)
  BY <1>1 DEF Used, Owns, Keeps, Exchanging
<1>6. NotYetUsed'
  <2> SUFFICES ASSUME NEW a \in Offered', NEW l \in Lanes, Shaking(l)', client'[l].eph = a.eph, Used(a.sid)'
               PROVE  FALSE
    BY DEF NotYetUsed
  <2>1. Used(a.sid) /\ Shaking(l) /\ client[l].eph = a.eph
    BY <1>5 DEF Shaking
  <2>2. a \in Offered
    BY <1>2, <2>1, UsedTyped
  <2> QED BY <2>1, <2>2 DEF PacketsInv, NotYetUsed
<1>7. PacketsBehind' /\ PacketsOnce'
  BY <1>1 DEF PacketsInv, PacketsBehind, PacketsOnce, Exchanging, Keeps
<1>8. OneOwner'
  <2>1. \A m \in Lanes : \A x : Owns(m, x)' <=> Owns(m, x)
    BY DEF Owns, Exchanging, Keeps
  <2> QED BY <2>1 DEF PacketsInv, OneOwner
<1>9. BlockKept'
  BY DEF PacketsInv, BlockKept, Exchanging, Keeps
<1>10. OneShaking'
  BY DEF PacketsInv, OneShaking, Shaking
<1> QED BY <1>4, <1>6, <1>7, <1>8, <1>9, <1>10 DEF PacketsInv

LEMMA UplinkOffers ==
  ASSUME Typed, PacketsInv, Uplink
  PROVE  PacketsInv'
<1>1. PICK p \in up, copied \in BOOLEAN : Receive(p) /\ up' = Remaining(p, up, copied)
  BY DEF Uplink
<1>2. UNCHANGED <<client, kept>> /\ up' \subseteq up
  BY <1>1 DEF Uplink, Remaining, cvars
<1>n. sids + 1 \notin 1 .. sids
  BY PacketTypes
<1>3. CASE p.t = "HS1" /\ Accepted(p)
  <2>h. PICK h : h = [at |-> now, sid |-> sids + 1, key |-> p.key]
    OBVIOUS
  <2>1. /\ handshakes' = Put(handshakes, p.eph, h) /\ h.sid = sids + 1
        /\ \A m \in down' : m \in down \/ m = HelloReply(p.eph, sids + 1, p.key, p.from)
    BY <1>3, <2>h DEF Accepted, Send
  <2>2. HelloReply(p.eph, sids + 1, p.key, p.from).eph = p.eph /\ HelloReply(p.eph, sids + 1, p.key, p.from).sid = sids + 1
    BY DEF HelloReply
  <2>3. \A e \in DOMAIN handshakes' :
          \/ e \in DOMAIN handshakes /\ handshakes'[e] = handshakes[e]
          \/ e = p.eph /\ handshakes'[e].sid = sids + 1
    BY <2>1 DEF Put
  <2>4. \A a \in Offered' : a \in Offered \/ (a.eph = p.eph /\ a.sid = sids + 1)
    <3> SUFFICES ASSUME NEW a \in Offered' PROVE a \in Offered \/ (a.eph = p.eph /\ a.sid = sids + 1)
      OBVIOUS
    <3>1. CASE \E m \in down' : m.t = "HS2" /\ a = [eph |-> m.eph, sid |-> m.sid]
      BY <2>1, <2>2, <3>1 DEF Offered
    <3>2. CASE \E e \in DOMAIN handshakes' : a = [eph |-> e, sid |-> handshakes'[e].sid]
      BY <2>3, <3>2 DEF Offered
    <3> QED BY <3>1, <3>2 DEF Offered
  <2> QED BY <1>2, <1>n, <2>4, GatewayOffers
<1>4. CASE p.t = "HS1" /\ Repeated(p)
  <2>h. PICK h : h = handshakes[p.eph]
    OBVIOUS
  <2>1. /\ handshakes' = handshakes /\ p.eph \in DOMAIN handshakes
        /\ \A m \in down' : m \in down \/ m = HelloReply(p.eph, h.sid, h.key, p.from)
    BY <1>4, <2>h DEF Repeated, Send
  <2>2. HelloReply(p.eph, h.sid, h.key, p.from).eph = p.eph /\ HelloReply(p.eph, h.sid, h.key, p.from).sid = h.sid
    BY DEF HelloReply
  <2>3. \A a \in Offered' : a \in Offered
    <3> SUFFICES ASSUME NEW a \in Offered' PROVE a \in Offered
      OBVIOUS
    <3>1. CASE \E m \in down' : m.t = "HS2" /\ a = [eph |-> m.eph, sid |-> m.sid]
      BY <2>1, <2>2, <2>h, <3>1 DEF Offered
    <3>2. CASE \E e \in DOMAIN handshakes' : a = [eph |-> e, sid |-> handshakes'[e].sid]
      BY <2>1, <3>2 DEF Offered
    <3> QED BY <3>1, <3>2 DEF Offered
  <2> QED BY <1>2, <1>n, <2>3, GatewayOffers
<1>5. ASSUME handshakes' = handshakes, \A m \in down' : m \in down \/ m.t /= "HS2"
      PROVE  PacketsInv'
  <2>1. \A a \in Offered' : a \in Offered
    BY <1>5 DEF Offered
  <2> QED BY <1>2, <1>n, <2>1, GatewayOffers
<1>6. CASE p.t = "HS1" /\ (UnknownKey(p) \/ Refused(p))
  <2>1. WrongKey(p.eph, p.from).t = "WRONG_KEY"
    BY DEF WrongKey
  <2> QED BY <1>5, <1>6, <2>1 DEF UnknownKey, Refused, Send, gateway
<1>7. CASE NoSuchSession(p) \/ Replayed(p) \/ OnDone(p) \/ OnFrame(p)
  <2>1. \A m \in Resets(p) : m.t = "RESET"
    BY DEF Resets, ResetOf
  <2> QED BY <1>5, <1>7, <2>1 DEF NoSuchSession, Replayed, OnDone, OnFrame, Send, gateway
<1> QED BY <1>1, <1>3, <1>4, <1>6, <1>7 DEF Receive, OnHello

LEMMA QuietOffers ==
  ASSUME Typed, PacketsInv, UNCHANGED <<client, kept>>, up' \subseteq up,
         DOMAIN handshakes' \subseteq DOMAIN handshakes,
         \A e \in DOMAIN handshakes' : handshakes'[e] = handshakes[e],
         \A m \in down' : m \in down \/ m.t /= "HS2"
  PROVE  PacketsInv'
<1>1. sids + 1 \notin 1 .. sids
  BY PacketTypes
<1>2. \A a \in Offered' : a \in Offered
  BY DEF Offered
<1> QED BY <1>1, <1>2, GatewayOffers

LEMMA GatewaySeals ==
  ASSUME Typed, PacketsInv, Gateway
  PROVE  PacketsInv'
<1>1. UNCHANGED <<client, kept>>
  BY DEF Gateway, cvars
<1>2. CASE handshakes' = handshakes /\ up' = up /\ down' = down
  BY <1>1, <1>2, QuietOffers
<1>3. CASE Poll
  <2>1. PICK o \in queue : PollDrop(o) \/ PollSend(o)
    BY <1>3 DEF Poll
  <2>2. CASE PollDrop(o)
    BY <1>2, <2>2 DEF PollDrop, net
  <2>3. CASE PollSend(o)
    <3>m. PICK m : m = Put(o.pkt, "to", sessions[o.sid].peer)
      OBVIOUS
    <3>1. handshakes' = handshakes /\ up' = up /\ \A x \in down' : x \in down \/ x = m
      BY <2>3, <3>m DEF PollSend, Send
    <3>2. m.t /= "HS2"
      <4>1. IsQueued(o)
        BY Standing
      <4> QED BY <4>1, <3>m DEF IsQueued, Put
    <3> QED BY <1>1, <3>1, <3>2, QuietOffers
  <2> QED BY <2>1, <2>2, <2>3
<1>4. CASE Sweep
  BY <1>1, <1>4, QuietOffers DEF Sweep, net
<1>5. CASE Restart
  <2>1. DOMAIN handshakes' = {}
    BY <1>5 DEF Restart, EmptyMap
  <2> QED BY <1>1, <1>5, <2>1, QuietOffers DEF Restart, net
<1>6. CASE SetKeys \/ TimePasses \/ Answer \/ \E w \in working : SendWorking(w)
  BY <1>2, <1>6 DEF SetKeys, TimePasses, Tick, Answer, Respond, Refuse, SendWorking, net, gateway
<1> QED BY <1>3, <1>4, <1>5, <1>6 DEF Gateway

LEMMA PacketsNext ==
  ASSUME Typed, PacketsInv, WithinBlock, WithinBlock', [Next]_vars
  PROVE  PacketsInv'
<1>1. CASE UNCHANGED vars \/ Lose
  <2>1. /\ UNCHANGED <<client, kept, handshakes>> /\ up' \subseteq up /\ down' \subseteq down
    BY <1>1 DEF vars, Lose, LoseUp, LoseDown, gvars, gateway, cvars, net
  <2> QED BY <2>1, QuietOffers
<1>2. ASSUME NEW l \in Lanes, Fetch(l) \/ Rebind(l) \/ Wait(l) \/ Deadline(l)
      PROVE  PacketsInv'
  <2>1. CASE Wait(l) \/ Deadline(l)
    <3>1. handshakes' = handshakes
      BY <2>1 DEF Wait, Deadline, gvars, gateway
    <3> QED BY <2>1, <3>1, HelloAgainSeals, TimerSeals, GiveUpSeals DEF Wait, Deadline
  <2> QED BY <1>2, <2>1, FetchSeals, RebindSeals
<1> QED BY <1>1, <1>2, DownlinkSeals, UplinkOffers, GatewaySeals DEF Next
-----------------------------------------------------------------------------
(* What the gateway seals.                                                 *)
FrameTypes == {"REQ", "DONE", "DATA", "WORKING"}

LEMMA FramesFrom ==
  ASSUME NEW N,
         \A o \in queue' : o \in queue \/ o.pkt \in N,
         \A m \in down' : m \in down \/ Content(m).t \notin FrameTypes \/ Content(m) \in Frames
  PROVE  \A f \in Frames' : f \in Frames \/ f \in N
<1> SUFFICES ASSUME NEW f \in Frames' PROVE f \in Frames \/ f \in N
  OBVIOUS
<1>1. f.t \in FrameTypes
  BY DEF Frames, Sealed, FrameTypes
<1>2. CASE \E o \in queue' : f = o.pkt
  BY <1>1, <1>2 DEF Frames, Sealed, FrameTypes
<1>3. CASE \E m \in down' : f = Content(m)
  <2>1. PICK m \in down' : f = Content(m)
    BY <1>3
  <2>2. CASE m \in down
    BY <1>1, <2>1, <2>2 DEF Frames, Sealed, FrameTypes
  <2> QED BY <1>1, <2>1, <2>2
<1> QED BY <1>2, <1>3 DEF Frames, Sealed, Content

LEMMA FramesSeal ==
  ASSUME Typed, Typed', FramesInv, sids <= sids', NEW N, NEW sid \in 1 .. sids', NEW low \in Nat, NEW high,
         Seals(N, sid, low, high),
         sid \in DOMAIN sessions' => high = sessions'[sid].ctr /\ low <= high,
         \/ sid \in DOMAIN sessions /\ low = sessions[sid].ctr
         \/ sid \notin 1 .. sids,
         \A x \in DOMAIN sessions' :
           x /= sid => x \in DOMAIN sessions /\ sessions'[x].ctr = sessions[x].ctr,
         \A f \in Frames' : f \in Frames \/ f \in N
  PROVE  FramesInv'
<1>1. /\ \A x \in DOMAIN sessions : sessions[x].ctr \in Nat
      /\ \A x \in DOMAIN sessions' : sessions'[x].ctr \in Nat
  BY DEF Typed, SessionsTyped, AllSessions, IsSession
<1>2. \A f \in Frames : f.sid \in 1 .. sids /\ f.ctr \in Nat
  BY DEF FramesInv, FramesBehind
<1>3. \A f \in Frames : f.sid = sid => f.ctr < low
  BY <1>2 DEF FramesInv, FramesBehind
<1>4. FramesOnce'
  <2> SUFFICES ASSUME NEW f \in Frames', NEW g \in Frames', f.sid = g.sid, f.ctr = g.ctr PROVE f = g
    BY DEF FramesOnce
  <2>1. CASE f \in Frames /\ g \in Frames
    BY <2>1 DEF FramesInv, FramesOnce
  <2>2. CASE f \in N /\ g \in N
    BY <2>2 DEF Seals
  <2>3. ASSUME NEW a \in Frames, NEW b \in N, a.sid = b.sid, a.ctr = b.ctr PROVE FALSE
    BY <1>2, <1>3, <2>3 DEF Seals
  <2> QED BY <2>1, <2>2, <2>3
<1>5. FramesBehind'
  <2>s. 1 .. sids \subseteq 1 .. sids'
    BY DEF Typed, Numbers
  <2> SUFFICES ASSUME NEW f \in Frames'
               PROVE  /\ f.sid \in 1 .. sids' /\ f.ctr \in Nat
                      /\ f.sid \in DOMAIN sessions' => f.ctr < sessions'[f.sid].ctr
    BY DEF FramesBehind
  <2>1. CASE f \in N
    BY <2>1 DEF Seals
  <2>2. CASE f \in Frames
    <3>1. f.sid \in DOMAIN sessions' => f.ctr < sessions'[f.sid].ctr
      <4>1. CASE f.sid = sid
        BY <1>1, <1>2, <1>3, <2>2, <4>1
      <4>2. CASE f.sid /= sid
        BY <2>2, <4>2 DEF FramesInv, FramesBehind
      <4> QED BY <4>1, <4>2
    <3> QED BY <1>2, <2>2, <2>s, <3>1
  <2> QED BY <2>1, <2>2
<1> QED BY <1>4, <1>5 DEF FramesInv

LEMMA FramesQuiet ==
  ASSUME Typed, Typed', FramesInv, sids <= sids',
         \A x \in DOMAIN sessions' : x \in DOMAIN sessions /\ sessions'[x].ctr = sessions[x].ctr,
         \A o \in queue' : o \in queue,
         \A m \in down' : m \in down \/ Content(m).t \notin FrameTypes \/ Content(m) \in Frames
  PROVE  FramesInv'
<1>1. \A f \in Frames' : f \in Frames
  <2>1. \A o \in queue' : o \in queue \/ o.pkt \in {}
    OBVIOUS
  <2>2. \A f \in Frames' : f \in Frames \/ f \in {}
    BY <2>1, FramesFrom
  <2> QED BY <2>2
<1>2. 1 .. sids \subseteq 1 .. sids'
  BY DEF Typed, Numbers
<1>3. FramesBehind'
  BY <1>1, <1>2 DEF FramesInv, FramesBehind
<1>4. FramesOnce'
  BY <1>1 DEF FramesInv, FramesOnce
<1> QED BY <1>3, <1>4 DEF FramesInv

LEMMA BurstSeals ==
  ASSUME NEW s, s.ctr \in Nat, NEW sid, NEW id, NEW round, NEW syms, NEW n \in Nat, Len(syms) = n
  PROVE  Seals({o.pkt : o \in Burst(s, sid, id, round, syms)}, sid, s.ctr, s.ctr + n)
<1>N. PICK N : N = {o.pkt : o \in Burst(s, sid, id, round, syms)}
  OBVIOUS
<1>1. \A p \in N : \E i \in 1 .. n :
        p = [t |-> "DATA", sid |-> sid, ctr |-> s.ctr + i - 1, id |-> id, sym |-> syms[i],
             round |-> round, pos |-> i - 1, len |-> Len(syms), run |-> s.resp[id].run]
  BY <1>N DEF Burst
<1>2. \A p \in N : p.sid = sid /\ p.ctr \in Nat /\ s.ctr <= p.ctr /\ p.ctr < s.ctr + n
  <2> SUFFICES ASSUME NEW p \in N
               PROVE  p.sid = sid /\ p.ctr \in Nat /\ s.ctr <= p.ctr /\ p.ctr < s.ctr + n
    OBVIOUS
  <2>1. PICK i \in 1 .. n : p.sid = sid /\ p.ctr = s.ctr + i - 1
    BY <1>1
  <2> QED BY <2>1
<1>3. ASSUME NEW p \in N, NEW q \in N, p.ctr = q.ctr PROVE p = q
  <2>1. PICK i \in 1 .. n :
        p = [t |-> "DATA", sid |-> sid, ctr |-> s.ctr + i - 1, id |-> id, sym |-> syms[i],
             round |-> round, pos |-> i - 1, len |-> Len(syms), run |-> s.resp[id].run]
    BY <1>1
  <2>2. PICK j \in 1 .. n :
        q = [t |-> "DATA", sid |-> sid, ctr |-> s.ctr + j - 1, id |-> id, sym |-> syms[j],
             round |-> round, pos |-> j - 1, len |-> Len(syms), run |-> s.resp[id].run]
    BY <1>1
  <2>3. p.ctr = s.ctr + i - 1 /\ q.ctr = s.ctr + j - 1
    BY <2>1, <2>2
  <2>4. i = j
    <3>1. s.ctr + i - 1 = s.ctr + j - 1
      BY <1>3, <2>3
    <3>2. i \in Int /\ j \in Int
      OBVIOUS
    <3> QED BY <3>1, <3>2
  <2> QED BY <2>1, <2>2, <2>4
<1>4. Seals(N, sid, s.ctr, s.ctr + n)
  BY <1>2, <1>3 DEF Seals
<1> QED BY <1>N, <1>4

LEMMA NoticeSeals ==
  ASSUME NEW s, s.ctr \in Nat, NEW sid, NEW id
  PROVE  Seals({Notice(s, sid, id).pkt}, sid, s.ctr, s.ctr + 1)
<1>q. PICK q : q = Notice(s, sid, id).pkt
  OBVIOUS
<1>1. q.sid = sid /\ q.ctr = s.ctr
  BY <1>q DEF Notice
<1> QED BY <1>1, <1>q, SealsOne

(* What a request leaves sealed, in a session.                             *)
Sealing(ss, q, sid, N, high) ==
  /\ Seals(N, sid, ss[sid].ctr, high) /\ high \in Nat /\ ss[sid].ctr <= high
  /\ \A o \in queue' : o \in q \/ o.pkt \in N
  /\ DOMAIN sessions' = DOMAIN ss /\ sessions'[sid].ctr = high
  /\ \A x \in DOMAIN ss : x /= sid => sessions'[x] = ss[x]

LEMMA NothingSealed ==
  ASSUME NEW ss, NEW q, NEW sid \in DOMAIN ss, ss[sid].ctr \in Nat,
         \A o \in queue' : o \in q,
         DOMAIN sessions' = DOMAIN ss, sessions'[sid].ctr = ss[sid].ctr,
         \A x \in DOMAIN ss : x /= sid => sessions'[x] = ss[x]
  PROVE  Sealing(ss, q, sid, {}, ss[sid].ctr)
BY DEF Sealing, Seals

LEMMA OneSealed ==
  ASSUME NEW ss, NEW q, NEW sid \in DOMAIN ss, NEW s, s = ss[sid], s.ctr \in Nat,
         NEW t, NEW n \in Nat, t.ctr = s.ctr + n, sessions' = [ss EXCEPT ![sid] = t],
         NEW B, queue' = q \cup B, Seals({o.pkt : o \in B}, sid, s.ctr, s.ctr + n)
  PROVE  Sealing(ss, q, sid, {o.pkt : o \in B}, s.ctr + n)
<1>1. \A o \in queue' : o \in q \/ o.pkt \in {b.pkt : b \in B}
  OBVIOUS
<1>2. DOMAIN sessions' = DOMAIN ss /\ sessions'[sid] = t /\ \A x \in DOMAIN ss : x /= sid => sessions'[x] = ss[x]
  OBVIOUS
<1> QED BY <1>1, <1>2 DEF Sealing

LEMMA KnownSeals ==
  ASSUME NEW ss, AllSessions(ss), NEW q, NEW sid \in DOMAIN ss, NEW req, IsReq(req),
         req.id \in DOMAIN ss[sid].resp, KnownRequest(ss, q, sid, req)
  PROVE  \E N, high : Sealing(ss, q, sid, N, high)
<1>s. PICK s : s = ss[sid]
  OBVIOUS
<1>r. PICK r : r = s.resp[req.id]
  OBVIOUS
<1>s1. PICK s1 : s1 = [s EXCEPT !.resp[req.id].rounds = @ \cup {req.round}]
  OBVIOUS
<1>t. PICK t : t = [s1 EXCEPT !.ctr = @ + 1]
  OBVIOUS
<1>u. PICK u : u = [s1 EXCEPT !.ctr = @ + req.want, !.resp[req.id].next = @ + req.want]
  OBVIOUS
<1>B. PICK B : B = Burst(s1, sid, req.id, req.round, MoreSymbols(r.next, req.want))
  OBVIOUS
<1>1. \/ sessions' = ss /\ queue' = q
      \/ sessions' = [ss EXCEPT ![sid] = t] /\ queue' = q \cup {Notice(s, sid, req.id)}
      \/ sessions' = [ss EXCEPT ![sid] = u] /\ queue' = q \cup B
  BY <1>s, <1>r, <1>s1, <1>t, <1>u, <1>B DEF KnownRequest
<1>2. IsSession(s) /\ s.ctr \in Nat /\ IsResponse(r)
  BY <1>s, <1>r DEF AllSessions, IsSession, IsResponses
<1>3. req.want \in Nat /\ r.next \in Nat
  BY <1>2 DEF IsReq, IsResponse
<1>4. s1.ctr = s.ctr /\ DOMAIN s1 = DOMAIN s
  BY <1>2, <1>s1 DEF IsSession
<1>5. t.ctr = s.ctr + 1 /\ u.ctr = s.ctr + req.want
  BY <1>2, <1>4, <1>t, <1>u DEF IsSession
<1>6. CASE sessions' = ss /\ queue' = q
  <2>1. Sealing(ss, q, sid, {}, ss[sid].ctr)
    BY <1>2, <1>6, <1>s, NothingSealed
  <2> QED BY <2>1
<1>7. CASE sessions' = [ss EXCEPT ![sid] = t] /\ queue' = q \cup {Notice(s, sid, req.id)}
  <2>B. PICK b : b = {Notice(s, sid, req.id)}
    OBVIOUS
  <2>1. {o.pkt : o \in b} = {Notice(s, sid, req.id).pkt}
    BY <2>B
  <2>2. Seals({o.pkt : o \in b}, sid, s.ctr, s.ctr + 1)
    BY <1>2, <2>1, NoticeSeals
  <2>3. queue' = q \cup b /\ sessions' = [ss EXCEPT ![sid] = t] /\ 1 \in Nat
    BY <1>7, <2>B
  <2>4. Sealing(ss, q, sid, {o.pkt : o \in b}, s.ctr + 1)
    BY <1>s, <1>2, <1>5, <2>2, <2>3, OneSealed
  <2> QED BY <2>4
<1>8. CASE sessions' = [ss EXCEPT ![sid] = u] /\ queue' = q \cup B
  <2>1. Seals({o.pkt : o \in B}, sid, s1.ctr, s1.ctr + req.want)
    BY <1>2, <1>3, <1>4, <1>B, SymbolsOfBurst, BurstSeals
  <2>2. Sealing(ss, q, sid, {o.pkt : o \in B}, s.ctr + req.want)
    BY <1>s, <1>2, <1>3, <1>4, <1>5, <1>8, <2>1, OneSealed
  <2> QED BY <2>2
<1> QED BY <1>1, <1>6, <1>7, <1>8

LEMMA OnRequestSeals ==
  ASSUME NEW ss, AllSessions(ss), NEW q, NEW sid \in DOMAIN ss, NEW req, IsReq(req),
         OnRequest(ss, q, sid, req)
  PROVE  \E N, high : Sealing(ss, q, sid, N, high)
<1>0. IsSession(ss[sid]) /\ ss[sid].ctr \in Nat
  BY DEF AllSessions, IsSession
<1>1. CASE Knows(ss[sid], req.id) /\ KnownRequest(ss, q, sid, req)
  BY <1>1, KnownSeals DEF Knows
<1>2. CASE sessions' = ss /\ queue' = q
  <2>1. Sealing(ss, q, sid, {}, ss[sid].ctr)
    BY <1>0, <1>2, NothingSealed
  <2> QED BY <2>1
<1>3. CASE NewRequest(ss, q, sid, req)
  <2>r. PICK r : r = [ready |-> FALSE, at |-> now, round |-> req.round, rounds |-> {req.round},
                      run |-> 0, next |-> 0]
    OBVIOUS
  <2>t. PICK t : t = [ss[sid] EXCEPT !.resp = Put(@, req.id, r)]
    OBVIOUS
  <2>1. sessions' = [ss EXCEPT ![sid] = t] /\ queue' \subseteq q
    BY <1>3, <2>r, <2>t DEF NewRequest, DropForDevice
  <2>2. t.ctr = ss[sid].ctr
    BY <1>0, <2>t DEF IsSession
  <2>3. Sealing(ss, q, sid, {}, ss[sid].ctr)
    BY <1>0, <2>1, <2>2, NothingSealed
  <2> QED BY <2>3
<1> QED BY <1>1, <1>2, <1>3 DEF OnRequest
LEMMA SealingKeeps ==
  ASSUME Typed, Typed', FramesInv, sids <= sids', NEW ss, NEW sid \in DOMAIN ss, NEW N, NEW high,
         Sealing(ss, queue, sid, N, high), sid \in 1 .. sids', ss[sid].ctr \in Nat,
         \/ sid \in DOMAIN sessions /\ ss[sid].ctr = sessions[sid].ctr
         \/ sid \notin 1 .. sids,
         \A x \in DOMAIN ss : x /= sid => x \in DOMAIN sessions /\ ss[x].ctr = sessions[x].ctr,
         \A m \in down' : m \in down \/ Content(m).t \notin FrameTypes \/ Content(m) \in Frames
  PROVE  FramesInv'
<1>1. /\ Seals(N, sid, ss[sid].ctr, high) /\ ss[sid].ctr <= high
      /\ \A o \in queue' : o \in queue \/ o.pkt \in N
      /\ DOMAIN sessions' = DOMAIN ss /\ sessions'[sid].ctr = high
      /\ \A x \in DOMAIN ss : x /= sid => sessions'[x] = ss[x]
  BY DEF Sealing
<1>2. \A f \in Frames' : f \in Frames \/ f \in N
  BY <1>1, FramesFrom
<1>3. \A x \in DOMAIN sessions' : x /= sid => x \in DOMAIN sessions /\ sessions'[x].ctr = sessions[x].ctr
  BY <1>1
<1> QED BY <1>1, <1>2, <1>3, FramesSeal

LEMMA RepliesUnsealed ==
  ASSUME NEW eph, NEW sid, NEW key, NEW to
  PROVE  /\ Content(HelloReply(eph, sid, key, to)).t \notin FrameTypes
         /\ Content(WrongKey(eph, to)).t \notin FrameTypes
         /\ Content(ResetOf(sid, key, to)).t \notin FrameTypes
<1>1. Content(HelloReply(eph, sid, key, to)).t = "HS2"
  BY DEF HelloReply, Content
<1>2. Content(WrongKey(eph, to)).t = "WRONG_KEY"
  BY DEF WrongKey, Content
<1>3. Content(ResetOf(sid, key, to)).t = "RESET"
  BY DEF ResetOf, Content
<1> QED BY <1>1, <1>2, <1>3 DEF FrameTypes

LEMMA AcceptedFrames ==
  ASSUME Typed, Typed', FramesInv, NEW p \in up, p.t = "HS1", Accepted(p)
  PROVE  FramesInv'
<1>id. PICK sid : sid = sids + 1
  OBVIOUS
<1>s. PICK s : s =
        [dev |-> p.dev, window |-> NewWindow, ctr |-> 0, peer |-> p.from,
         validated |-> knownIp[p.dev] = p.from.ip,
         credit |-> 3 * Size("HS1") - Size("HS2"), heard |-> now, resp |-> EmptyMap]
  OBVIOUS
<1>1. sids' = sid /\ \E ss \in Evicted(sessions) : OnRequest(Put(ss, sid, s), queue, sid, p.req)
  BY <1>id, <1>s DEF Accepted
<1>2. PICK ss \in Evicted(sessions) : OnRequest(Put(ss, sid, s), queue, sid, p.req)
  BY <1>1
<1>3. \A m \in down' : m \in down \/ Content(m).t \notin FrameTypes
  BY RepliesUnsealed DEF Accepted, Send
<1>4. sids \in Nat /\ sid \notin 1 .. sids /\ sid \in 1 .. sids' /\ sids <= sids'
  BY <1>id, <1>1 DEF Numbers, Typed
<1>tt. PICK tt : tt = Put(ss, sid, s)
  OBVIOUS
<1>5. DOMAIN ss \subseteq DOMAIN sessions /\ \A x \in DOMAIN ss : ss[x] = sessions[x]
  BY <1>2 DEF Evicted, Without
<1>6. sid \notin DOMAIN ss
  BY <1>4, <1>5, Standing
<1>7. /\ DOMAIN tt = DOMAIN ss \cup {sid} /\ tt[sid] = s
      /\ \A x \in DOMAIN tt : x /= sid => x \in DOMAIN sessions /\ tt[x] = sessions[x]
  BY <1>5, <1>6, <1>tt DEF Put
<1>8. IsSession(s) /\ s.ctr = 0 /\ IsReq(p.req)
  BY <1>s, NewSessionTyped, PacketFacts
<1>9. AllSessions(tt) /\ tt[sid].ctr \in Nat
  <2>1. AllSessions(ss)
    BY RoomMade
  <2>2. 0 \in Nat
    OBVIOUS
  <2> QED BY <1>5, <1>6, <1>7, <1>8, <1>tt, <2>1, <2>2 DEF AllSessions, Put
<1>10. PICK N, high : Sealing(tt, queue, sid, N, high)
  BY <1>2, <1>7, <1>8, <1>9, <1>tt, OnRequestSeals
<1> QED BY <1>3, <1>4, <1>7, <1>9, <1>10, SealingKeeps

LEMMA FrameFrames ==
  ASSUME Typed, Typed', FramesInv, NEW p \in up, OnDone(p) \/ OnFrame(p), sids' = sids
  PROVE  FramesInv'
<1>s. PICK s : s = Heard(p)
  OBVIOUS
<1>1. p.sid \in DOMAIN sessions /\ p.t \in {"REQ", "DONE"} /\ down' \subseteq down
  BY DEF OnDone, OnFrame, Send
<1>2. IsSession(s) /\ s.ctr = sessions[p.sid].ctr /\ s.ctr \in Nat
  BY <1>1, <1>s, HeardTyped DEF IsSession
<1>3. sids \in Nat /\ p.sid \in 1 .. sids
  BY <1>1, Standing DEF Typed, Numbers
<1>4. CASE OnDone(p)
  <2>d. PICK d : d = [s EXCEPT !.resp = Without(@, p.id)]
    OBVIOUS
  <2>1. sessions' = [sessions EXCEPT ![p.sid] = d] /\ queue' \subseteq queue
    BY <1>4, <1>s, <2>d DEF OnDone
  <2>2. d.ctr = s.ctr
    BY <1>2, <2>d DEF IsSession
  <2>3. \A x \in DOMAIN sessions' : x \in DOMAIN sessions /\ sessions'[x].ctr = sessions[x].ctr
    BY <1>2, <2>1, <2>2
  <2>4. sids <= sids'
    BY <1>3
  <2> QED BY <1>1, <2>1, <2>3, <2>4, FramesQuiet
<1>5. CASE OnFrame(p)
  <2>v. PICK v : v = (s.validated \/ (p.req.echo /\ ~s.validated))
    OBVIOUS
  <2>t. PICK t : t = [s EXCEPT !.validated = v]
    OBVIOUS
  <2>1. OnRequest([sessions EXCEPT ![p.sid] = t], queue, p.sid, p.req) /\ p.t = "REQ"
    BY <1>5, <1>s, <2>v, <2>t DEF OnFrame
  <2>2. SameSession(s, t) /\ t.ctr = s.ctr /\ t.resp = s.resp
    BY <1>2, <2>t DEF IsSession, SameSession
  <2>3. IsSession(t)
    <3>1. IsResponses(s.resp)
      BY <1>2 DEF IsSession
    <3> QED BY <1>2, <2>2, <3>1, SessionLike
  <2>tt. PICK tt : tt = [sessions EXCEPT ![p.sid] = t]
    OBVIOUS
  <2>4. AllSessions(tt)
    BY <1>1, <2>3, <2>tt, Standing, OneSession
  <2>5. /\ DOMAIN tt = DOMAIN sessions /\ tt[p.sid].ctr = sessions[p.sid].ctr /\ tt[p.sid].ctr \in Nat
        /\ \A x \in DOMAIN tt : x /= p.sid => x \in DOMAIN sessions /\ tt[x].ctr = sessions[x].ctr
    BY <1>1, <1>2, <2>2, <2>tt
  <2>6. IsReq(p.req)
    BY <2>1, PacketFacts
  <2>7. PICK N, high : Sealing(tt, queue, p.sid, N, high)
    BY <1>1, <2>1, <2>4, <2>5, <2>6, <2>tt, OnRequestSeals
  <2>8. sids <= sids' /\ p.sid \in 1 .. sids'
    BY <1>3
  <2> QED BY <1>1, <2>5, <2>7, <2>8, SealingKeeps
<1> QED BY <1>4, <1>5

LEMMA UplinkFrames ==
  ASSUME Typed, Typed', FramesInv, Uplink
  PROVE  FramesInv'
<1>1. PICK p \in up, copied \in BOOLEAN : Receive(p) /\ up' = Remaining(p, up, copied)
  BY DEF Uplink
<1>2. sids \in Nat
  BY DEF Typed, Numbers
<1>3. CASE p.t = "HS1" /\ Accepted(p)
  BY <1>3, AcceptedFrames
<1>4. CASE p.t = "HS1" /\ Repeated(p)
  <2>1. queue' = queue /\ sids' = sids /\ \A m \in down' : m \in down \/ Content(m).t \notin FrameTypes
    BY <1>4, RepliesUnsealed DEF Repeated, Send
  <2>h. PICK h : h = handshakes[p.eph]
    OBVIOUS
  <2>2. sessions' = IF h.sid \in DOMAIN sessions
                    THEN [sessions EXCEPT ![h.sid].credit = @ + 3 * Size("HS1")] ELSE sessions
    BY <1>4, <2>h DEF Repeated
  <2>3. \A x \in DOMAIN sessions' : x \in DOMAIN sessions /\ sessions'[x].ctr = sessions[x].ctr
    <3>1. CASE h.sid \in DOMAIN sessions
      <4>n. PICK n : n = sessions[h.sid].credit + 3 * Size("HS1")
        OBVIOUS
      <4>t. PICK t : t = [sessions[h.sid] EXCEPT !.credit = n]
        OBVIOUS
      <4>1. IsSession(sessions[h.sid])
        BY <3>1, Standing DEF AllSessions
      <4>2. t.ctr = sessions[h.sid].ctr
        BY <4>1, <4>t DEF IsSession
      <4>3. sessions' = [sessions EXCEPT ![h.sid] = t]
        BY <2>2, <3>1, <4>n, <4>t
      <4> QED BY <4>2, <4>3
    <3> QED BY <2>2, <3>1
  <2> QED BY <1>2, <2>1, <2>3, FramesQuiet
<1>5. CASE /\ sids' = sids /\ UNCHANGED gateway
           /\ \/ p.t = "HS1" /\ (UnknownKey(p) \/ Refused(p))
              \/ NoSuchSession(p) \/ Replayed(p)
  <2>1. \A m \in down' : m \in down \/ Content(m).t \notin FrameTypes
    BY <1>5, RepliesUnsealed DEF UnknownKey, Refused, NoSuchSession, Replayed, Send, Resets
  <2>2. queue' = queue /\ sessions' = sessions
    BY <1>5 DEF gateway
  <2> QED BY <1>2, <1>5, <2>1, <2>2, FramesQuiet
<1>6. CASE /\ p.t \in {"REQ", "DONE"} /\ UNCHANGED sids
           /\ OnDone(p) \/ OnFrame(p)
  BY <1>6, FrameFrames
<1>7. \/ p.t = "HS1" /\ OnHello(p)
      \/ /\ p.t \in {"REQ", "DONE"}
         /\ NoSuchSession(p) \/ Replayed(p) \/ OnDone(p) \/ OnFrame(p)
         /\ UNCHANGED sids
  BY <1>1 DEF Receive
<1>8. /\ (UnknownKey(p) \/ Refused(p)) => sids' = sids /\ UNCHANGED gateway
      /\ (NoSuchSession(p) \/ Replayed(p)) => UNCHANGED gateway
  BY DEF UnknownKey, Refused, NoSuchSession, Replayed
<1> QED BY <1>3, <1>4, <1>5, <1>6, <1>7, <1>8 DEF OnHello

LEMMA RespondFrames ==
  ASSUME Typed, Typed', FramesInv, NEW job \in jobs, Respond(job)
  PROVE  FramesInv'
<1>s. PICK s : s = sessions[job.sid]
  OBVIOUS
<1>r. PICK r : r = s.resp[job.id]
  OBVIOUS
<1>d. PICK d : d = [s EXCEPT !.resp = Without(@, job.id)]
  OBVIOUS
<1>0. sids' = sids /\ sids \in Nat /\ sids <= sids' /\ down' = down
  <2>1. sids' = sids /\ down' = down
    BY DEF Respond, net
  <2> QED BY <2>1 DEF Typed, Numbers
<1>1. \/ /\ job.sid \in DOMAIN sessions /\ job.id \in OpenRequests(s)
         /\ \E spare \in 0 .. MaxSpare :
              LET ready == [r EXCEPT !.ready = TRUE, !.at = now, !.run = job.run, !.next = spare]
                  s1 == [s EXCEPT !.resp[job.id] = ready]
              IN /\ sessions' = [sessions EXCEPT ![job.sid] = [s1 EXCEPT !.ctr = @ + K + spare]]
                 /\ queue' = queue \cup Burst(s1, job.sid, job.id, r.round, FirstBurst(spare))
      \/ /\ job.sid \in DOMAIN sessions
         /\ sessions' = [sessions EXCEPT ![job.sid] = d] /\ UNCHANGED queue
      \/ UNCHANGED <<sessions, queue>>
  BY <1>s, <1>r, <1>d DEF Respond
<1>2. ASSUME job.sid \in DOMAIN sessions
      PROVE  IsSession(s) /\ s.ctr \in Nat /\ job.sid \in 1 .. sids'
  BY <1>0, <1>2, <1>s, Standing DEF AllSessions, IsSession
<1>3. CASE UNCHANGED <<sessions, queue>>
  BY <1>0, <1>3, FramesQuiet
<1>4. CASE /\ job.sid \in DOMAIN sessions
           /\ sessions' = [sessions EXCEPT ![job.sid] = d] /\ UNCHANGED queue
  <2>1. d.ctr = s.ctr
    BY <1>2, <1>4, <1>d DEF IsSession
  <2>2. \A x \in DOMAIN sessions' : x \in DOMAIN sessions /\ sessions'[x].ctr = sessions[x].ctr
    BY <1>4, <1>s, <2>1
  <2> QED BY <1>0, <1>4, <2>2, FramesQuiet
<1>5. ASSUME job.sid \in DOMAIN sessions, job.id \in OpenRequests(s), NEW spare \in 0 .. MaxSpare,
             NEW ready, ready = [r EXCEPT !.ready = TRUE, !.at = now, !.run = job.run, !.next = spare],
             NEW s1, s1 = [s EXCEPT !.resp[job.id] = ready],
             sessions' = [sessions EXCEPT ![job.sid] = [s1 EXCEPT !.ctr = @ + K + spare]],
             queue' = queue \cup Burst(s1, job.sid, job.id, r.round, FirstBurst(spare))
      PROVE  FramesInv'
  <2>n. PICK n : n = K + spare
    OBVIOUS
  <2>B. PICK B : B = Burst(s1, job.sid, job.id, r.round, FirstBurst(spare))
    OBVIOUS
  <2>m. PICK m : m = s1.ctr + K + spare
    OBVIOUS
  <2>t. PICK t : t = [s1 EXCEPT !.ctr = m]
    OBVIOUS
  <2>0. spare \in Nat /\ n \in Nat /\ s.ctr \in Nat /\ 0 \in Nat
    BY <1>2, <1>5, <2>n, SymbolsAssumption
  <2>1. s1.ctr = s.ctr /\ DOMAIN s1 = DOMAIN s
    BY <1>2, <1>5 DEF IsSession
  <2>2. t.ctr = s.ctr + n
    <3>1. t.ctr = m
      BY <1>2, <1>5, <2>1, <2>t DEF IsSession
    <3>2. m = s.ctr + n
      <4>1. K \in Nat
        BY SymbolsAssumption
      <4> QED BY <2>0, <2>1, <2>m, <2>n, <4>1
    <3> QED BY <3>1, <3>2
  <2>3. sessions' = [sessions EXCEPT ![job.sid] = t] /\ queue' = queue \cup B
    BY <1>5, <2>m, <2>t, <2>B
  <2>4. Seals({o.pkt : o \in B}, job.sid, s1.ctr, s1.ctr + n)
    <3>1. Len(FirstBurst(spare)) = n
      BY <2>0, <2>n, SymbolsOfBurst
    <3>2. s1.ctr \in Nat
      BY <2>0, <2>1
    <3> QED BY <2>0, <2>B, <3>1, <3>2, BurstSeals
  <2>5. Sealing(sessions, queue, job.sid, {o.pkt : o \in B}, s.ctr + n)
    BY <1>5, <1>s, <2>0, <2>1, <2>2, <2>3, <2>4, OneSealed
  <2>6. \A x \in DOMAIN sessions : x /= job.sid => x \in DOMAIN sessions /\ sessions[x].ctr = sessions[x].ctr
    OBVIOUS
  <2> QED BY <1>0, <1>2, <1>5, <1>s, <2>0, <2>5, <2>6, SealingKeeps
<1> QED BY <1>1, <1>3, <1>4, <1>5

LEMMA SendWorkingFrames ==
  ASSUME Typed, Typed', FramesInv, NEW w \in working, SendWorking(w)
  PROVE  FramesInv'
<1>s. PICK s : s = sessions[w.sid]
  OBVIOUS
<1>t. PICK t : t = [s EXCEPT !.ctr = @ + 1]
  OBVIOUS
<1>B. PICK B : B = {Notice(s, w.sid, w.id)}
  OBVIOUS
<1>0. sids' = sids /\ sids \in Nat /\ sids <= sids' /\ down' = down
  BY DEF SendWorking, net, Typed, Numbers
<1>1. \/ UNCHANGED <<queue, sessions>>
      \/ /\ w.sid \in DOMAIN sessions /\ queue' = queue \cup B
         /\ sessions' = [sessions EXCEPT ![w.sid] = t]
  BY <1>s, <1>t, <1>B DEF SendWorking
<1>2. CASE UNCHANGED <<queue, sessions>>
  BY <1>0, <1>2, FramesQuiet
<1>3. CASE /\ w.sid \in DOMAIN sessions /\ queue' = queue \cup B
           /\ sessions' = [sessions EXCEPT ![w.sid] = t]
  <2>1. IsSession(s) /\ s.ctr \in Nat /\ w.sid \in 1 .. sids' /\ 1 \in Nat
    BY <1>0, <1>3, <1>s, Standing DEF AllSessions, IsSession
  <2>2. t.ctr = s.ctr + 1
    BY <2>1, <1>t DEF IsSession
  <2>3. {o.pkt : o \in B} = {Notice(s, w.sid, w.id).pkt}
    BY <1>B
  <2>4. Seals({o.pkt : o \in B}, w.sid, s.ctr, s.ctr + 1)
    BY <2>1, <2>3, NoticeSeals
  <2>5. Sealing(sessions, queue, w.sid, {o.pkt : o \in B}, s.ctr + 1)
    BY <1>3, <1>s, <2>1, <2>2, <2>4, OneSealed
  <2>6. \A x \in DOMAIN sessions : x /= w.sid => x \in DOMAIN sessions /\ sessions[x].ctr = sessions[x].ctr
    OBVIOUS
  <2> QED BY <1>0, <1>3, <1>s, <2>1, <2>5, <2>6, SealingKeeps
<1> QED BY <1>1, <1>2, <1>3

LEMMA PollFrames ==
  ASSUME Typed, Typed', FramesInv, NEW o \in queue, PollDrop(o) \/ PollSend(o)
  PROVE  FramesInv'
<1>0. sids' = sids /\ sids \in Nat /\ sids <= sids' /\ queue' \subseteq queue
  BY DEF PollDrop, PollSend, Typed, Numbers
<1>1. CASE PollDrop(o)
  BY <1>0, <1>1, FramesQuiet DEF PollDrop, net
<1>2. CASE PollSend(o)
  <2>m. PICK m : m = Put(o.pkt, "to", sessions[o.sid].peer)
    OBVIOUS
  <2>s. PICK s : s = sessions[o.sid]
    OBVIOUS
  <2>n. PICK n : n = s.credit - Size(o.pkt.t)
    OBVIOUS
  <2>t. PICK t : t = [s EXCEPT !.credit = n]
    OBVIOUS
  <2>1. /\ o.sid \in DOMAIN sessions
        /\ sessions' = sessions \/ sessions' = [sessions EXCEPT ![o.sid] = t]
        /\ \A p \in down' : p \in down \/ p = m
    BY <1>2, <2>m, <2>s, <2>n, <2>t DEF PollSend, Lapsed, Send
  <2>2. IsSession(s) /\ IsQueued(o)
    BY <2>1, <2>s, Standing DEF AllSessions
  <2>3. t.ctr = s.ctr
    BY <2>2, <2>t DEF IsSession
  <2>4. Content(m) = o.pkt
    <3>1. DOMAIN m = DOMAIN o.pkt \cup {"to"} /\ \A f \in DOMAIN o.pkt : f /= "to" => m[f] = o.pkt[f]
      BY <2>m DEF Put
    <3>2. "to" \notin DOMAIN o.pkt /\ o.pkt = [f \in DOMAIN o.pkt |-> o.pkt[f]]
      BY <2>2 DEF IsQueued
    <3>3. DOMAIN m \ {"to"} = DOMAIN o.pkt
      BY <3>1, <3>2
    <3> QED BY <3>1, <3>2, <3>3 DEF Content
  <2>5. o.pkt \in Frames
    BY <2>2 DEF Frames, Sealed, IsQueued
  <2>6. \A x \in DOMAIN sessions' : x \in DOMAIN sessions /\ sessions'[x].ctr = sessions[x].ctr
    BY <2>1, <2>3, <2>s
  <2> QED BY <1>0, <2>1, <2>4, <2>5, <2>6, FramesQuiet
<1> QED BY <1>1, <1>2

LEMMA SweepFrames ==
  ASSUME Typed, Typed', FramesInv, Sweep
  PROVE  FramesInv'
<1> DEFINE live == {x \in DOMAIN sessions : now - sessions[x].heard < SessionIdle}
<1>1. sessions' = [x \in live |-> Swept(sessions[x])] /\ UNCHANGED <<sids, down, queue>>
  BY DEF Sweep, net
<1>2. live \subseteq DOMAIN sessions
  OBVIOUS
<1> HIDE DEF live
<1>3. \A x \in DOMAIN sessions' : x \in DOMAIN sessions /\ sessions'[x].ctr = sessions[x].ctr
  <2> SUFFICES ASSUME NEW x \in live PROVE Swept(sessions[x]).ctr = sessions[x].ctr
    BY <1>1, <1>2
  <2>1. IsSession(sessions[x])
    BY <1>2, Standing DEF AllSessions
  <2> QED BY <2>1 DEF IsSession, Swept
<1>4. sids <= sids'
  BY <1>1 DEF Typed, Numbers
<1> QED BY <1>1, <1>3, <1>4, FramesQuiet

LEMMA GatewayFrames ==
  ASSUME Typed, Typed', FramesInv, Gateway
  PROVE  FramesInv'
<1>1. CASE SetKeys \/ TimePasses \/ \E job \in jobs : Refuse(job)
  <2>1. UNCHANGED <<sids, down, queue, sessions>>
    BY <1>1 DEF SetKeys, TimePasses, Tick, Refuse, gateway, net
  <2>2. sids <= sids'
    BY <2>1 DEF Typed, Numbers
  <2> QED BY <2>1, <2>2, FramesQuiet
<1>2. CASE Restart
  <2>1. DOMAIN sessions' = {} /\ queue' = {} /\ UNCHANGED <<sids, down>>
    BY <1>2 DEF Restart, EmptyMap, net
  <2>2. sids <= sids'
    BY <2>1 DEF Typed, Numbers
  <2> QED BY <2>1, <2>2, FramesQuiet
<1> QED BY <1>1, <1>2, PollFrames, RespondFrames, SendWorkingFrames, SweepFrames
        DEF Gateway, Poll, Answer

(* The phones seal nothing of this direction.                              *)
LEMMA QuietFrames ==
  ASSUME Typed, Typed', FramesInv, UNCHANGED <<sids, sessions, queue>>, down' \subseteq down
  PROVE  FramesInv'
<1>1. sids <= sids'
  BY DEF Typed, Numbers
<1> QED BY <1>1, FramesQuiet

LEMMA FramesNext ==
  ASSUME Typed, Typed', FramesInv, [Next]_vars
  PROVE  FramesInv'
<1>1. CASE UNCHANGED vars \/ Lose
  <2>1. UNCHANGED <<sids, sessions, queue>> /\ down' \subseteq down
    BY <1>1 DEF vars, Lose, LoseUp, LoseDown, gvars, gateway, net
  <2> QED BY <2>1, QuietFrames
<1>2. ASSUME NEW l \in Lanes, Fetch(l) \/ Rebind(l) \/ Wait(l) \/ Deadline(l)
      PROVE  FramesInv'
  <2>1. UNCHANGED <<sids, sessions, queue>>
    BY <1>2 DEF Fetch, Rebind, Wait, Deadline, gvars, gateway
  <2>2. down' \subseteq down
    BY <1>2 DEF Fetch, Start, OpenSocket, CloseSocket, Rebind, Wait, HelloAgain, Timer, Deadline,
                GiveUp, Ends, SendUp
  <2> QED BY <2>1, <2>2, QuietFrames
<1>3. CASE Downlink
  <2>1. UNCHANGED <<sids, sessions, queue>>
    BY <1>3 DEF Downlink, gvars, gateway
  <2>2. PICK l \in Lanes, p \in down, copied \in BOOLEAN :
             Arrives(l, p, Remaining(p, down, copied), now)
    BY <1>3 DEF Downlink
  <2>3. down' \subseteq down
    BY <2>2 DEF Arrives, CloseSocket, Remaining
  <2> QED BY <2>1, <2>3, QuietFrames
<1> QED BY <1>1, <1>2, <1>3, UplinkFrames, GatewayFrames DEF Next

LEMMA SealedInit == Init => FramesInv /\ PacketsInv
<1> SUFFICES ASSUME Init PROVE FramesInv /\ PacketsInv
  OBVIOUS
<1>1. /\ up = {} /\ down = {} /\ queue = {} /\ DOMAIN handshakes = {}
      /\ \A l \in Lanes : client[l].pc = "idle" /\ kept[l] = NoSaved
  BY DEF Init, NetInit, GatewayInit, ClientInit, EmptyMap, NoFetch
<1>2. Frames = {}
  BY <1>1 DEF Frames, Sealed
<1>3. Sealed(up) = {} /\ Offered = {}
  BY <1>1 DEF Sealed, Offered
<1>4. \A l \in Lanes : ~Exchanging(l) /\ ~Shaking(l) /\ \A sid : ~Owns(l, sid) /\ ~Keeps(l, sid)
  BY <1>1 DEF Exchanging, Shaking, Owns, Keeps
<1> QED BY <1>2, <1>3, <1>4 DEF FramesInv, FramesBehind, FramesOnce, PacketsInv, PacketsBehind,
        PacketsOnce, OneOwner, BlockKept, OneOffer, OneShaking, NotYetUsed

(* No two packets are sealed under the same counter of one direction of a  *)
(* session, as long as a fetch stays within the block of counters that it  *)
(* reserved.                                                               *)
THEOREM SealedOnceHolds == Spec /\ []WithinBlock => []SealedOnce
<1> DEFINE SealedInv == Typed /\ FramesInv /\ PacketsInv
<1>1. Init => SealedInv
  BY TypedInit, SealedInit
<1>2. SealedInv /\ WithinBlock /\ WithinBlock' /\ [Next]_vars => SealedInv'
  BY TypedNext, PacketsNext, FramesNext
<1>3. SealedInv => SealedOnce
  BY DEF FramesInv, FramesOnce, Frames, PacketsInv, PacketsOnce, SealedOnce
<1> HIDE DEF SealedInv
<1> QED BY <1>1, <1>2, <1>3, PTL DEF Spec
-----------------------------------------------------------------------------
(* The messages 1 on their way, and those a phone may send once more.      *)
OfPacket(p) == [eph |-> p.eph, id |-> p.req.id, at |-> p.ts.at]
OfLane(c) == [eph |-> c.eph, id |-> c.id, at |-> c.ts.at]
Ones ==
  {OfPacket(p) : p \in {p \in up : p.t = "HS1"}}
    \cup {OfLane(client[l]) : l \in {l \in Lanes : client[l].pc = "handshake"}}

Counts == now \in Nat /\ hellos \in Nat /\ restarts \in Nat /\ fetches \in Nat

Drawn == asked \in Seq([fetch : Nat, hello : BOOLEAN])

FetchOf(c) ==
  /\ DOMAIN c = DOMAIN NoFetch
  /\ c.fetch \in Nat
  /\ c.pc = "exchange" => c.id \in DOMAIN asked /\ (asked[c.id].hello => c.heard)

FetchesHeard == DOMAIN client = Lanes /\ \A l \in Lanes : FetchOf(client[l])

OneOfHello(m) ==
  /\ m.id \in DOMAIN asked /\ asked[m.id].hello
  /\ m.eph \in 1 .. hellos
  /\ m.at \in Nat /\ m.at < now + Fresh

OnesDrawn == \A m \in Ones : OneOfHello(m)

OneEach == \A m, n \in Ones : m.id = n.id => m = n

BodiesDrawn ==
  \A p \in up : p.t = "REQ" /\ p.req.body => p.req.id \in DOMAIN asked /\ ~asked[p.req.id].hello

RunsDrawn == \A j \in runs : j.id \in DOMAIN asked /\ j.life \in 0 .. restarts

HandshakesDrawn ==
  \A e \in DOMAIN handshakes : e \in 1 .. hellos /\ handshakes[e].at \in Nat

AcceptedInTime ==
  \A m \in Ones : m.eph \in DOMAIN handshakes => m.at < handshakes[m.eph].at + Fresh

Remembers ==
  \A m \in Ones, j \in runs :
    j.life = restarts /\ j.id = m.id => m.eph \in DOMAIN handshakes \/ now > m.at + Fresh

Typing == Counts /\ Drawn /\ FetchesHeard
HelloInv ==
  /\ Typing /\ OnesDrawn /\ OneEach /\ BodiesDrawn /\ RunsDrawn /\ HandshakesDrawn
  /\ AcceptedInTime /\ Remembers /\ HelloRunsOnce
-----------------------------------------------------------------------------
(* A step of lane l that starts no handshake leaves no new message 1.      *)
LEMMA NoNewOnes ==
  ASSUME DOMAIN client = Lanes, NEW l \in Lanes, NEW d,
         client' = [client EXCEPT ![l] = d],
         d.pc = "handshake" => client[l].pc = "handshake" /\ OfLane(d) = OfLane(client[l]),
         \A p \in up' : p.t = "HS1" =>
           p \in up \/ (client[l].pc = "handshake" /\ OfPacket(p) = OfLane(client[l]))
  PROVE  Ones' \subseteq Ones
<1> SUFFICES ASSUME NEW m \in Ones' PROVE m \in Ones
  OBVIOUS
<1>1. CASE \E p \in up' : p.t = "HS1" /\ m = OfPacket(p)
  <2> PICK p \in up' : p.t = "HS1" /\ m = OfPacket(p)
    BY <1>1
  <2>1. CASE p \in up
    BY <2>1 DEF Ones
  <2>2. CASE client[l].pc = "handshake" /\ OfPacket(p) = OfLane(client[l])
    BY <2>2 DEF Ones
  <2> QED BY <2>1, <2>2
<1>2. CASE \E k \in Lanes : client'[k].pc = "handshake" /\ m = OfLane(client'[k])
  <2> PICK k \in Lanes : client'[k].pc = "handshake" /\ m = OfLane(client'[k])
    BY <1>2
  <2>1. CASE k = l
    <3>1. client'[l] = d
      OBVIOUS
    <3> QED BY <2>1, <3>1 DEF Ones
  <2>2. CASE k /= l
    <3>1. client'[k] = client[k]
      BY <2>2
    <3> QED BY <2>2, <3>1 DEF Ones
  <2> QED BY <2>1, <2>2
<1> QED BY <1>1, <1>2 DEF Ones, OfPacket, OfLane

(* One that starts a handshake leaves one more.                            *)
LEMMA OneNewOne ==
  ASSUME DOMAIN client = Lanes, NEW l \in Lanes, NEW d, NEW q,
         client' = [client EXCEPT ![l] = d],
         OfLane(d) = OfPacket(q), up' = up \cup {q}
  PROVE  Ones' \subseteq Ones \cup {OfPacket(q)}
<1> SUFFICES ASSUME NEW m \in Ones', m /= OfPacket(q) PROVE m \in Ones
  OBVIOUS
<1>1. CASE \E p \in up' : p.t = "HS1" /\ m = OfPacket(p)
  BY <1>1 DEF Ones
<1>2. CASE \E k \in Lanes : client'[k].pc = "handshake" /\ m = OfLane(client'[k])
  <2> PICK k \in Lanes : client'[k].pc = "handshake" /\ m = OfLane(client'[k])
    BY <1>2
  <2>1. k /= l
    BY DEF OfLane
  <2>2. client'[k] = client[k]
    BY <2>1
  <2> QED BY <2>2 DEF Ones
<1> QED BY <1>1, <1>2 DEF Ones, OfPacket, OfLane
-----------------------------------------------------------------------------
(* Going on without a new handshake, with the requests drawn so far, or    *)
(* with one more that rides in no message 1.                               *)
LEMMA OldOnes ==
  ASSUME HelloInv, Ones' \subseteq Ones, UNCHANGED <<now, handshakes, runs, restarts, hellos>>,
         asked' \in Seq([fetch : Nat, hello : BOOLEAN]),
         \A i \in DOMAIN asked : i \in DOMAIN asked' /\ asked'[i] = asked[i]
  PROVE  /\ OnesDrawn' /\ OneEach' /\ RunsDrawn' /\ HandshakesDrawn' /\ AcceptedInTime'
         /\ Remembers' /\ HelloRunsOnce'
<1> USE DEF HelloInv
<1>1. OnesDrawn'
  BY DEF OnesDrawn, OneOfHello
<1>2. OneEach'
  BY DEF OneEach
<1>3. RunsDrawn'
  BY DEF RunsDrawn
<1>4. HandshakesDrawn'
  BY DEF HandshakesDrawn
<1>5. AcceptedInTime'
  BY DEF AcceptedInTime
<1>6. Remembers'
  BY DEF Remembers
<1>7. HelloRunsOnce'
  BY DEF HelloRunsOnce, RunsDrawn
<1> QED BY <1>1, <1>2, <1>3, <1>4, <1>5, <1>6, <1>7

(* Starting one, with a request of its own.                                *)
LEMMA NewOne ==
  ASSUME HelloInv, NEW m, Ones' \subseteq Ones \cup {m}, NEW f \in Nat,
         UNCHANGED <<now, handshakes, runs, restarts>>, hellos' = hellos + 1,
         asked' = Append(asked, [fetch |-> f, hello |-> TRUE]),
         m.id = Len(asked) + 1, m.eph = hellos + 1, m.at \in Nat, m.at < now + Fresh
  PROVE  /\ OnesDrawn' /\ OneEach' /\ RunsDrawn' /\ HandshakesDrawn' /\ AcceptedInTime'
         /\ Remembers' /\ HelloRunsOnce' /\ Drawn'
<1> USE DEF HelloInv, Typing
<1>0. /\ asked \in Seq([fetch : Nat, hello : BOOLEAN])
      /\ asked' \in Seq([fetch : Nat, hello : BOOLEAN])
      /\ Len(asked) \in Nat /\ DOMAIN asked = 1 .. Len(asked) /\ DOMAIN asked' = 1 .. Len(asked) + 1
      /\ \A i \in DOMAIN asked : asked'[i] = asked[i]
      /\ asked'[m.id].hello
  <2>1. asked \in Seq([fetch : Nat, hello : BOOLEAN])
    BY DEF Drawn
  <2>2. [fetch |-> f, hello |-> TRUE] \in [fetch : Nat, hello : BOOLEAN]
    OBVIOUS
  <2> HIDE DEF HelloInv, Typing
  <2>3. /\ asked' \in Seq([fetch : Nat, hello : BOOLEAN])
        /\ Len(asked) \in Nat /\ DOMAIN asked = 1 .. Len(asked) /\ DOMAIN asked' = 1 .. Len(asked) + 1
        /\ \A i \in DOMAIN asked : asked'[i] = asked[i]
    BY <2>1, <2>2
  <2>4. asked'[Len(asked) + 1] = [fetch |-> f, hello |-> TRUE]
    BY <2>1, <2>2
  <2> QED BY <2>1, <2>3, <2>4
<1>c. now \in Nat /\ hellos \in Nat
  BY DEF Counts
<1>d. \A e \in DOMAIN handshakes : e /= m.eph
  BY <1>c DEF HandshakesDrawn
<1>e. \A n \in Ones : n.id /= m.id
  BY <1>0 DEF OnesDrawn, OneOfHello
<1>1. OnesDrawn'
  <2> SUFFICES ASSUME NEW n \in Ones' PROVE OneOfHello(n)'
    BY DEF OnesDrawn
  <2>1. CASE n = m
    BY <2>1, <1>0, <1>c DEF OneOfHello
  <2>2. CASE n \in Ones
    BY <2>2, <1>0, <1>c DEF OneOfHello, OnesDrawn
  <2> QED BY <2>1, <2>2
<1>2. OneEach'
  BY <1>e DEF OneEach
<1>3. RunsDrawn'
  BY <1>0 DEF RunsDrawn
<1>4. HandshakesDrawn'
  BY <1>c DEF HandshakesDrawn
<1>5. AcceptedInTime'
  BY <1>d DEF AcceptedInTime
<1>6. Remembers'
  <2> SUFFICES ASSUME NEW n \in Ones', NEW j \in runs, j.life = restarts, j.id = n.id
               PROVE  n.eph \in DOMAIN handshakes \/ now > n.at + Fresh
    BY DEF Remembers
  <2>1. n /= m
    BY <1>0 DEF RunsDrawn
  <2> QED BY <2>1 DEF Remembers
<1>7. HelloRunsOnce'
  BY <1>0 DEF HelloRunsOnce, RunsDrawn
<1> QED BY <1>0, <1>1, <1>2, <1>3, <1>4, <1>5, <1>6, <1>7 DEF Drawn
-----------------------------------------------------------------------------
(* What a step of lane l must leave behind, when it starts no handshake.   *)
LEMMA LaneStep ==
  ASSUME HelloInv, NEW l \in Lanes, NEW d, client' = [client EXCEPT ![l] = d],
         UNCHANGED <<now, handshakes, runs, restarts, hellos, asked, fetches>>,
         FetchOf(d),
         d.pc = "handshake" => client[l].pc = "handshake" /\ OfLane(d) = OfLane(client[l]),
         \A p \in up' :
           \/ p \in up
           \/ p.t = "HS1" /\ client[l].pc = "handshake" /\ OfPacket(p) = OfLane(client[l])
           \/ p.t = "REQ" /\ (p.req.body => p.req.id \in DOMAIN asked /\ ~asked[p.req.id].hello)
           \/ p.t = "DONE"
  PROVE  HelloInv'
<1>0. Counts /\ Drawn /\ FetchesHeard /\ DOMAIN client = Lanes
  BY DEF HelloInv, Typing, FetchesHeard
<1>1. Ones' \subseteq Ones
  BY <1>0, NoNewOnes
<1>2. /\ OnesDrawn' /\ OneEach' /\ RunsDrawn' /\ HandshakesDrawn' /\ AcceptedInTime'
      /\ Remembers' /\ HelloRunsOnce'
  BY <1>0, <1>1, OldOnes DEF Drawn
<1>3. BodiesDrawn'
  BY DEF HelloInv, BodiesDrawn
<1>4. FetchesHeard'
  BY <1>0 DEF FetchesHeard, FetchOf
<1>5. Counts' /\ Drawn'
  BY <1>0 DEF Counts, Drawn
<1> QED BY <1>2, <1>3, <1>4, <1>5 DEF HelloInv, Typing

LEMMA HelloStep ==
  ASSUME HelloInv, \A lead \in Leads : lead < Fresh,
         NEW l \in Lanes, NEW c, DOMAIN c = DOMAIN NoFetch, c.fetch \in Nat,
         SayHello(l, c, now),
         UNCHANGED <<now, handshakes, runs, restarts>>, fetches' \in Nat
  PROVE  HelloInv'
<1>0. Counts /\ Drawn /\ FetchesHeard /\ DOMAIN client = Lanes
  BY DEF HelloInv, Typing, FetchesHeard
<1> PICK lead \in Leads :
      LET id == Len(asked) + 1
          eph == hellos + 1
          ts == [at |-> now + lead, n |-> eph]
      IN /\ client' = [client EXCEPT ![l] =
              [c EXCEPT !.pc = "handshake", !.id = id, !.eph = eph, !.ts = ts]]
         /\ asked' = Append(asked, [fetch |-> c.fetch, hello |-> TRUE])
         /\ hellos' = eph
         /\ SendUp(Hello(eph, c.key, DeviceOf[l], ts, Req(id, 0, 0, FALSE, ~c.secret), c.addr))
  BY DEF SayHello
<1> DEFINE id == Len(asked) + 1
           eph == hellos + 1
           ts == [at |-> now + lead, n |-> eph]
           d == [c EXCEPT !.pc = "handshake", !.id = id, !.eph = eph, !.ts = ts]
           q == Hello(eph, c.key, DeviceOf[l], ts, Req(id, 0, 0, FALSE, ~c.secret), c.addr)
           m == OfPacket(q)
<1>1. client' = [client EXCEPT ![l] = d] /\ up' = up \cup {q}
  BY DEF SendUp
<1>2. /\ DOMAIN d = DOMAIN NoFetch /\ d.fetch = c.fetch /\ d.pc = "handshake"
      /\ d.id = id /\ d.eph = eph /\ d.ts = ts
  BY DEF NoFetch
<1>3. q.t = "HS1" /\ q.eph = eph /\ q.ts = ts /\ q.req.id = id
  BY DEF Hello, Req
<1>4. ts.at = now + lead
  OBVIOUS
<1>5. m.id = id /\ m.eph = eph /\ m.at = now + lead /\ OfLane(d) = m
  BY <1>2, <1>3, <1>4 DEF OfPacket, OfLane
<1> HIDE DEF d, q, ts
<1>6. Ones' \subseteq Ones \cup {m}
  BY <1>0, <1>1, <1>5, OneNewOne
<1>7. m.at \in Nat /\ m.at < now + Fresh
  BY <1>5, <1>0, ClientAssumption, FreshAssumption DEF Counts
<1>8. hellos' = hellos + 1 /\ m.eph = hellos + 1 /\ m.id = Len(asked) + 1
  BY <1>5
<1>9. /\ OnesDrawn' /\ OneEach' /\ RunsDrawn' /\ HandshakesDrawn' /\ AcceptedInTime'
      /\ Remembers' /\ HelloRunsOnce' /\ Drawn'
  <2> HIDE DEF m
  <2> QED BY <1>6, <1>7, <1>8, NewOne
<1>10. /\ \A i \in DOMAIN asked : i \in DOMAIN asked' /\ asked'[i] = asked[i]
       /\ Len(asked) \in Nat
  BY <1>0 DEF Drawn
<1>11. BodiesDrawn'
  BY <1>1, <1>3, <1>10 DEF HelloInv, BodiesDrawn
<1>12. FetchesHeard'
  BY <1>0, <1>1, <1>2, <1>10 DEF FetchesHeard, FetchOf
<1>13. Counts'
  BY <1>0 DEF Counts
<1> QED BY <1>9, <1>11, <1>12, <1>13 DEF HelloInv, Typing

LEMMA SessionStep ==
  ASSUME HelloInv, NEW l \in Lanes, NEW c, DOMAIN c = DOMAIN NoFetch, c.fetch \in Nat,
         NEW sid, NEW next, NEW made, OnSession(l, c, sid, next, made),
         UNCHANGED <<now, handshakes, runs, restarts, hellos>>, fetches' \in Nat
  PROVE  HelloInv'
<1>0. Counts /\ Drawn /\ FetchesHeard /\ DOMAIN client = Lanes
  BY DEF HelloInv, Typing, FetchesHeard
<1> DEFINE id == Len(asked) + 1
           d == [c EXCEPT !.pc = "exchange", !.id = id, !.sid = sid, !.ctr = next + 1,
                    !.end = next + Block, !.made = made, !.resettable = TRUE,
                    !.rounds = Set(EmptyFun, 0, Round(1))]
           q == Request(sid, next, Req(id, 0, 0, FALSE, TRUE), c.addr)
<1>1. /\ client' = [client EXCEPT ![l] = d] /\ up' = up \cup {q}
      /\ asked' = Append(asked, [fetch |-> c.fetch, hello |-> FALSE])
  BY DEF OnSession, SendUp
<1>2. DOMAIN d = DOMAIN NoFetch /\ d.fetch = c.fetch /\ d.pc = "exchange" /\ d.id = id
  BY DEF NoFetch
<1>3. q.t = "REQ" /\ q.req.id = id
  BY DEF Request, Req
<1> HIDE DEF d, q
<1>4. /\ \A i \in DOMAIN asked : i \in DOMAIN asked' /\ asked'[i] = asked[i]
      /\ Drawn' /\ asked' \in Seq([fetch : Nat, hello : BOOLEAN])
      /\ id \in DOMAIN asked'
  BY <1>0, <1>1 DEF Drawn
<1>5. ~asked'[id].hello
  <2>1. asked'[id] = [fetch |-> c.fetch, hello |-> FALSE]
    BY <1>0, <1>1 DEF Drawn
  <2> QED BY <2>1
<1>6. Ones' \subseteq Ones
  BY <1>0, <1>1, <1>2, <1>3, NoNewOnes
<1>7. /\ OnesDrawn' /\ OneEach' /\ RunsDrawn' /\ HandshakesDrawn' /\ AcceptedInTime'
      /\ Remembers' /\ HelloRunsOnce'
  BY <1>4, <1>6, OldOnes
<1>8. BodiesDrawn'
  BY <1>1, <1>3, <1>4, <1>5 DEF HelloInv, BodiesDrawn
<1>9. FetchesHeard'
  BY <1>0, <1>1, <1>2, <1>4, <1>5 DEF FetchesHeard, FetchOf
<1>10. Counts'
  BY <1>0 DEF Counts
<1> QED BY <1>4, <1>7, <1>8, <1>9, <1>10 DEF HelloInv, Typing
-----------------------------------------------------------------------------
(* The steps of a phone.                                                   *)
LEMMA StartKeeps ==
  ASSUME HelloInv, \A lead \in Leads : lead < Fresh, NEW l \in Lanes,
         NEW addr, NEW key, NEW secret, Start(l, addr, key, secret, now),
         UNCHANGED <<now, handshakes, runs, restarts>>
  PROVE  HelloInv'
<1> DEFINE c == [NoFetch EXCEPT !.fetch = fetches + 1, !.addr = addr, !.key = key, !.secret = secret, !.began = now]
<1>1. fetches \in Nat
  BY DEF HelloInv, Typing, Counts
<1>2. DOMAIN c = DOMAIN NoFetch /\ c.fetch = fetches + 1
  BY DEF NoFetch
<1>3. fetches' \in Nat
  BY <1>1 DEF Start
<1>4. \/ OnSession(l, c, kept[l].sid, kept[l].next, kept[l].made) /\ UNCHANGED hellos
      \/ SayHello(l, c, now)
  BY DEF Start
<1> HIDE DEF c
<1> QED BY <1>1, <1>2, <1>3, <1>4, SessionStep, HelloStep

LEMMA RebindKeeps ==
  ASSUME HelloInv, NEW l \in Lanes, Rebind(l)
  PROVE  HelloInv'
<1> PICK ip \in Ips : client' = [client EXCEPT ![l].addr = NewAddress(ip)]
  BY DEF Rebind
<1> DEFINE d == [client[l] EXCEPT !.addr = NewAddress(ip)]
<1>1. FetchOf(client[l]) /\ DOMAIN client = Lanes
  BY DEF HelloInv, Typing, FetchesHeard
<1>2. FetchOf(d) /\ d.pc = client[l].pc /\ OfLane(d) = OfLane(client[l])
  BY <1>1 DEF FetchOf, OfLane, NoFetch
<1>3. client' = [client EXCEPT ![l] = d]
  BY <1>1
<1> HIDE DEF d
<1> QED BY <1>2, <1>3, LaneStep DEF Rebind, gvars, gateway

LEMMA HelloAgainKeeps ==
  ASSUME HelloInv, NEW l \in Lanes, HelloAgain(l), UNCHANGED gvars
  PROVE  HelloInv'
<1> DEFINE d == [client[l] EXCEPT !.asks = @ + 1]
           c == client[l]
           q == Hello(c.eph, c.key, DeviceOf[l], c.ts, Req(c.id, 0, 0, FALSE, ~c.secret), c.addr)
<1>1. FetchOf(client[l]) /\ DOMAIN client = Lanes
  BY DEF HelloInv, Typing, FetchesHeard
<1>2. FetchOf(d) /\ d.pc = client[l].pc /\ OfLane(d) = OfLane(client[l])
  BY <1>1 DEF FetchOf, OfLane, NoFetch
<1>3. client' = [client EXCEPT ![l] = d]
  BY <1>1 DEF HelloAgain
<1>4. up' = up \cup {q} /\ client[l].pc = "handshake"
  BY DEF HelloAgain, SendUp
<1>5. q.t = "HS1" /\ OfPacket(q) = OfLane(client[l])
  BY DEF Hello, Req, OfPacket, OfLane
<1> HIDE DEF d, q
<1> QED BY <1>2, <1>3, <1>4, <1>5, LaneStep DEF HelloAgain, gvars, gateway

LEMMA EndsKeeps ==
  ASSUME HelloInv, NEW l \in Lanes, NEW pc \in {"done", "failed"}, NEW answer, Ends(l, pc, answer),
         UNCHANGED <<now, handshakes, runs, restarts, hellos, asked, fetches>>,
         \A p \in up' : p \in up \/ (p.t = "REQ" /\ ~p.req.body) \/ p.t = "DONE"
  PROVE  HelloInv'
<1> DEFINE d == [NoFetch EXCEPT !.pc = pc, !.fetch = client[l].fetch, !.key = client[l].key,
                    !.answer = answer]
<1>1. FetchOf(client[l])
  BY DEF HelloInv, Typing, FetchesHeard
<1>2. FetchOf(d) /\ d.pc \notin {"handshake", "exchange"}
  BY <1>1 DEF FetchOf, NoFetch
<1>3. client' = [client EXCEPT ![l] = d]
  BY DEF Ends
<1> HIDE DEF d
<1> QED BY <1>2, <1>3, LaneStep

LEMMA HelloReplyKeeps ==
  ASSUME HelloInv, NEW l \in Lanes, NEW p, OnHelloReply(l, p, now),
         UNCHANGED <<now, handshakes, runs, restarts>>
  PROVE  HelloInv'
<1> DEFINE c == [client[l] EXCEPT !.heard = TRUE]
           d == [c EXCEPT !.pc = "exchange", !.sid = p.sid, !.ctr = 0, !.end = Block,
                    !.made = now, !.resettable = FALSE,
                    !.rounds = Set(EmptyFun, 0, Round(1))]
<1>1. FetchOf(client[l]) /\ DOMAIN client = Lanes /\ fetches \in Nat
  BY DEF HelloInv, Typing, FetchesHeard, Counts
<1>2. DOMAIN c = DOMAIN NoFetch /\ c.fetch = client[l].fetch /\ c.id = client[l].id /\ c.heard = TRUE
  BY <1>1 DEF FetchOf, NoFetch
<1>3. \/ OnSession(l, c, p.sid, 0, now)
      \/ client' = [client EXCEPT ![l] = d] /\ UNCHANGED <<asked, up>>
  BY DEF OnHelloReply
<1>4. client[l].pc = "handshake" /\ UNCHANGED <<fetches, hellos>>
  BY DEF OnHelloReply
<1>5. CASE OnSession(l, c, p.sid, 0, now)
  <2> HIDE DEF c
  <2> QED BY <1>1, <1>2, <1>4, <1>5, SessionStep DEF FetchOf
<1>6. CASE client' = [client EXCEPT ![l] = d] /\ UNCHANGED <<asked, up>>
  <2> HIDE DEF c
  <2>1. /\ DOMAIN d = DOMAIN NoFetch /\ d.fetch = client[l].fetch /\ d.id = client[l].id
        /\ d.heard = TRUE /\ d.pc = "exchange"
    BY <1>2 DEF NoFetch
  <2>2. OneOfHello(OfLane(client[l]))
    BY <1>4 DEF HelloInv, OnesDrawn, Ones
  <2>3. client[l].id \in DOMAIN asked
    BY <2>2 DEF OneOfHello, OfLane
  <2>4. FetchOf(d)
    BY <1>1, <2>1, <2>3 DEF FetchOf
  <2> HIDE DEF d
  <2> QED BY <1>4, <1>6, <2>1, <2>4, LaneStep
<1> QED BY <1>3, <1>5, <1>6

LEMMA ResetKeeps ==
  ASSUME HelloInv, \A lead \in Leads : lead < Fresh, NEW l \in Lanes, NEW p, OnReset(l, p, now),
         UNCHANGED <<now, handshakes, runs, restarts>>
  PROVE  HelloInv'
<1> DEFINE c == client[l]
           c1 == [NoFetch EXCEPT !.fetch = c.fetch, !.addr = c.addr, !.key = c.key,
                              !.secret = c.secret, !.again = TRUE, !.heard = TRUE,
                              !.asks = c.asks, !.began = c.began]
<1>1. FetchOf(client[l]) /\ fetches \in Nat
  BY DEF HelloInv, Typing, FetchesHeard, Counts
<1>2. DOMAIN c1 = DOMAIN NoFetch /\ c1.fetch = c.fetch
  BY DEF NoFetch
<1>3. \/ Ends(l, "failed", 0) /\ UNCHANGED <<asked, hellos, up>>
      \/ SayHello(l, c1, now)
  BY DEF OnReset
<1>4. UNCHANGED <<kept, fetches>>
  BY DEF OnReset
<1> HIDE DEF c1
<1>5. CASE Ends(l, "failed", 0) /\ UNCHANGED <<asked, hellos, up>>
  BY <1>4, <1>5, EndsKeeps
<1>6. CASE SayHello(l, c1, now)
  BY <1>1, <1>2, <1>4, <1>6, HelloStep DEF FetchOf
<1> QED BY <1>3, <1>5, <1>6

LEMMA WorkingKeeps ==
  ASSUME HelloInv, NEW l \in Lanes, NEW p, OnWorking(l, p),
         UNCHANGED <<now, handshakes, runs, restarts>>
  PROVE  HelloInv'
<1> DEFINE c == client[l]
           waiting == [r \in DOMAIN c.rounds |->
                    IF c.rounds[r].len = 0 THEN [c.rounds[r] EXCEPT !.requested = 0] ELSE c.rounds[r]]
           d1 == [c EXCEPT !.heard = TRUE, !.echo = TRUE, !.working = TRUE, !.rounds = waiting]
           d2 == [c EXCEPT !.heard = TRUE, !.echo = TRUE]
           d == IF p.id = c.id /\ ~c.known THEN d1 ELSE d2
<1>1. FetchOf(c)
  BY DEF HelloInv, Typing, FetchesHeard
<1> HIDE DEF waiting
<1>2. /\ DOMAIN d1 = DOMAIN NoFetch /\ d1.pc = c.pc /\ d1.id = c.id /\ d1.fetch = c.fetch
      /\ d1.heard = TRUE
  BY <1>1 DEF FetchOf, NoFetch
<1>3. /\ DOMAIN d2 = DOMAIN NoFetch /\ d2.pc = c.pc /\ d2.id = c.id /\ d2.fetch = c.fetch
      /\ d2.heard = TRUE
  BY <1>1 DEF FetchOf, NoFetch
<1>4. c.pc = "exchange" /\ client' = [client EXCEPT ![l] = d]
      /\ UNCHANGED <<kept, fetches, asked, hellos, up>>
  BY DEF OnWorking, waiting
<1> HIDE DEF d1, d2
<1>5. FetchOf(d) /\ d.pc = "exchange"
  BY <1>1, <1>2, <1>3, <1>4 DEF FetchOf
<1> HIDE DEF d
<1> QED BY <1>4, <1>5, LaneStep

LEMMA DataKeeps ==
  ASSUME HelloInv, NEW l \in Lanes, NEW p, OnData(l, p),
         UNCHANGED <<now, handshakes, runs, restarts>>
  PROVE  HelloInv'
<1> DEFINE c == client[l]
           r == IF p.round \in DOMAIN c.rounds THEN c.rounds[p.round] ELSE Round(0)
           r1 == [r EXCEPT !.len = p.len, !.upto = IF p.pos + 1 > @ THEN p.pos + 1 ELSE @]
           got == IF p.sym \in DOMAIN c.got THEN c.got ELSE Set(c.got, p.sym, p.run)
           ackOf == Request(c.sid, c.ctr, Req(c.id, 0, 0, TRUE, FALSE), c.addr)
           ack == IF c.acked THEN {} ELSE {ackOf}
           c1 == [c EXCEPT !.heard = TRUE, !.echo = TRUE, !.working = FALSE, !.known = TRUE,
                      !.acked = TRUE, !.ctr = @ + (IF c.acked THEN 0 ELSE 1), !.got = got,
                      !.rounds = Set(@, p.round, r1)]
           missing == Symbols - Cardinality(DOMAIN got)
           short == missing - Outstanding(c1.rounds)
           done == Done(c.sid, c1.ctr, c.id, c.addr)
<1>1. FetchOf(c)
  BY DEF HelloInv, Typing, FetchesHeard
<1>2. c.pc = "exchange" /\ UNCHANGED <<fetches, asked, hellos>>
  BY DEF OnData
<1>3. \/ up' = up \cup ack \cup {done} /\ Ends(l, "done", Decoded(got))
      \/ up' = up \cup ack /\ client' = [client EXCEPT ![l] = c1]
      \/ \E extra \in 0 .. MaxExtra :
           /\ up' = up \cup ack \cup {AskFor(c1, short + extra, FALSE)}
           /\ client' = [client EXCEPT ![l] = Asked(c1, short + extra)]
  BY DEF OnData
<1> HIDE DEF r1, got, short, missing
<1>4. /\ DOMAIN c1 = DOMAIN NoFetch /\ c1.pc = c.pc /\ c1.id = c.id /\ c1.fetch = c.fetch
      /\ c1.heard = TRUE
  BY <1>1 DEF FetchOf, NoFetch
<1>5. ackOf.t = "REQ" /\ ackOf.req.body = FALSE
  BY DEF Request, Req
<1>6. done.t = "DONE"
  BY DEF Done
<1> HIDE DEF c1, ackOf, done
<1>7. \A x \in ack : x.t = "REQ" /\ ~x.req.body
  BY <1>5
<1> HIDE DEF ack
<1>8. CASE up' = up \cup ack \cup {done} /\ Ends(l, "done", Decoded(got))
  BY <1>2, <1>6, <1>7, <1>8, EndsKeeps
<1>9. CASE up' = up \cup ack /\ client' = [client EXCEPT ![l] = c1]
  <2>1. FetchOf(c1) /\ c1.pc = "exchange"
    BY <1>1, <1>2, <1>4 DEF FetchOf
  <2> QED BY <1>2, <1>7, <1>9, <2>1, LaneStep
<1>10. ASSUME NEW extra \in 0 .. MaxExtra,
              up' = up \cup ack \cup {AskFor(c1, short + extra, FALSE)},
              client' = [client EXCEPT ![l] = Asked(c1, short + extra)]
       PROVE  HelloInv'
  <2> DEFINE d == Asked(c1, short + extra)
             q == AskFor(c1, short + extra, FALSE)
  <2>1. /\ DOMAIN d = DOMAIN NoFetch /\ d.pc = c1.pc /\ d.id = c1.id /\ d.fetch = c1.fetch
        /\ d.heard = c1.heard
    BY <1>4 DEF Asked, NoFetch
  <2>2. q.t = "REQ" /\ q.req.body = FALSE
    BY DEF AskFor, Request, Req
  <2> HIDE DEF d, q
  <2>3. FetchOf(d) /\ d.pc = "exchange"
    BY <1>1, <1>2, <1>4, <2>1 DEF FetchOf
  <2>4. client' = [client EXCEPT ![l] = d] /\ up' = up \cup ack \cup {q}
    BY <1>10 DEF d, q
  <2> QED BY <1>2, <1>7, <2>2, <2>3, <2>4, LaneStep
<1> QED BY <1>3, <1>8, <1>9, <1>10

LEMMA TimerKeeps ==
  ASSUME HelloInv, NEW l \in Lanes, Timer(l), UNCHANGED gvars
  PROVE  HelloInv'
<1> DEFINE c == client[l]
           lost == [r \in DOMAIN c.rounds |->
                 [c.rounds[r] EXCEPT !.upto = c.rounds[r].len, !.requested = 0]]
           c1 == [c EXCEPT !.rounds = lost, !.asks = @ + 1]
<1>1. FetchOf(c)
  BY DEF HelloInv, Typing, FetchesHeard
<1>2. c.pc = "exchange" /\ UNCHANGED <<kept, fetches, asked, hellos>>
  BY DEF Timer
<1>3. PICK want : /\ client' = [client EXCEPT ![l] = Asked(c1, want)]
                  /\ up' = up \cup {AskFor(c1, want, WithBody(c))}
  BY DEF Timer, SendUp
<1> HIDE DEF lost
<1>4. /\ DOMAIN c1 = DOMAIN NoFetch /\ c1.pc = c.pc /\ c1.id = c.id /\ c1.fetch = c.fetch
      /\ c1.heard = c.heard
  BY <1>1 DEF FetchOf, NoFetch
<1> HIDE DEF c1
<1> DEFINE d == Asked(c1, want)
           q == AskFor(c1, want, WithBody(c))
<1>5. /\ DOMAIN d = DOMAIN NoFetch /\ d.pc = c1.pc /\ d.id = c1.id /\ d.fetch = c1.fetch
      /\ d.heard = c1.heard
  BY <1>4 DEF Asked, NoFetch
<1>6. q.t = "REQ" /\ q.req.id = c1.id /\ q.req.body = WithBody(c)
  BY DEF AskFor, Request, Req
<1>7. client' = [client EXCEPT ![l] = d] /\ up' = up \cup {q}
  BY <1>3
<1> HIDE DEF d, q
<1>8. FetchOf(d) /\ d.pc = "exchange"
  BY <1>1, <1>2, <1>4, <1>5 DEF FetchOf
<1>9. q.req.body => c.id \in DOMAIN asked /\ ~asked[c.id].hello
  BY <1>1, <1>2, <1>6 DEF WithBody, FetchOf
<1>10. UNCHANGED <<now, handshakes, runs, restarts, hellos, asked, fetches>>
  BY <1>2 DEF gvars, gateway
<1> QED BY <1>4, <1>6, <1>7, <1>8, <1>9, <1>10, LaneStep

LEMMA IgnoreKeeps ==
  ASSUME HelloInv, NEW l \in Lanes, NEW p, Ignore(l, p),
         UNCHANGED <<now, handshakes, runs, restarts>>
  PROVE  HelloInv'
<1> DEFINE d == [client[l] EXCEPT !.heard = TRUE, !.echo = @ \/ Opened(client[l], p)]
<1>1. FetchOf(client[l]) /\ DOMAIN client = Lanes
  BY DEF HelloInv, Typing, FetchesHeard
<1>2. FetchOf(d) /\ d.pc = client[l].pc /\ OfLane(d) = OfLane(client[l])
  BY <1>1 DEF FetchOf, OfLane, NoFetch
<1>3. client' = [client EXCEPT ![l] = d] /\ UNCHANGED <<kept, fetches, asked, hellos, up>>
  BY <1>1 DEF Ignore
<1> HIDE DEF d
<1> QED BY <1>2, <1>3, LaneStep

LEMMA ArrivesKeeps ==
  ASSUME HelloInv, \A lead \in Leads : lead < Fresh, NEW l \in Lanes, NEW p, NEW rest,
         Arrives(l, p, rest, now), UNCHANGED gvars
  PROVE  HelloInv'
<1>1. UNCHANGED <<now, handshakes, runs, restarts>>
  BY DEF gvars, gateway
<1>2. \/ OnHelloReply(l, p, now) \/ OnWrongKey(l, p) \/ OnReset(l, p, now)
      \/ OnWorking(l, p) \/ OnData(l, p) \/ Ignore(l, p)
  BY DEF Arrives
<1>3. CASE OnWrongKey(l, p)
  BY <1>1, <1>3, EndsKeeps DEF OnWrongKey
<1> QED BY <1>1, <1>2, <1>3, HelloReplyKeeps, ResetKeeps, WorkingKeeps, DataKeeps, IgnoreKeeps

LEMMA GiveUpKeeps ==
  ASSUME HelloInv, NEW l \in Lanes, GiveUp(l), UNCHANGED gvars
  PROVE  HelloInv'
<1>1. /\ UNCHANGED <<now, handshakes, runs, restarts, hellos, asked, fetches>>
      /\ up' = up /\ Ends(l, "failed", 0)
  BY DEF gvars, gateway, GiveUp
<1> QED BY <1>1, EndsKeeps
-----------------------------------------------------------------------------
(* The steps of the gateway and of the network: messages 1 only go.        *)
LEMMA FewerOnes ==
  ASSUME UNCHANGED client, up' \subseteq up
  PROVE  Ones' \subseteq Ones
BY DEF Ones

LEMMA GatewayTyping ==
  ASSUME HelloInv, UNCHANGED cvars, up' \subseteq up, now' \in Nat, restarts' \in Nat
  PROVE  Typing' /\ BodiesDrawn'
<1>1. UNCHANGED <<client, fetches, asked, hellos>>
  BY DEF cvars
<1>2. Counts' /\ Drawn'
  BY <1>1 DEF HelloInv, Typing, Counts, Drawn
<1>3. FetchesHeard'
  BY <1>1 DEF HelloInv, Typing, FetchesHeard, FetchOf
<1>4. BodiesDrawn'
  BY <1>1 DEF HelloInv, BodiesDrawn
<1> QED BY <1>2, <1>3, <1>4 DEF Typing

LEMMA QuietKeeps ==
  ASSUME HelloInv, UNCHANGED cvars, up' \subseteq up,
         UNCHANGED <<runs, restarts, handshakes>>, now' \in Nat, now <= now'
  PROVE  HelloInv'
<1> USE DEF HelloInv
<1>1. Ones' \subseteq Ones /\ UNCHANGED <<client, fetches, asked, hellos>>
  BY FewerOnes DEF cvars
<1>2. Typing' /\ BodiesDrawn' /\ now \in Nat
  BY GatewayTyping DEF Typing, Counts
<1>3. OnesDrawn'
  BY <1>1, <1>2, FreshAssumption DEF OnesDrawn, OneOfHello
<1>4. OneEach' /\ RunsDrawn' /\ HandshakesDrawn' /\ AcceptedInTime' /\ HelloRunsOnce'
  BY <1>1 DEF OneEach, RunsDrawn, HandshakesDrawn, AcceptedInTime, HelloRunsOnce
<1>5. Remembers'
  <2> SUFFICES ASSUME NEW m \in Ones, NEW j \in runs, j.life = restarts, j.id = m.id,
                      m.eph \notin DOMAIN handshakes
               PROVE  now' > m.at + Fresh
    BY <1>1 DEF Remembers
  <2>1. m.at \in Nat /\ now > m.at + Fresh
    BY DEF Remembers, OnesDrawn, OneOfHello
  <2> QED BY <1>2, <2>1, FreshAssumption
<1> QED BY <1>2, <1>3, <1>4, <1>5

LEMMA SweepKeeps ==
  ASSUME HelloInv, Sweep, UNCHANGED cvars
  PROVE  HelloInv'
<1> USE DEF HelloInv
<1>1. UNCHANGED <<now, restarts, runs>> /\ up' = up
  BY DEF Sweep, net
<1>2. Ones' \subseteq Ones /\ UNCHANGED <<client, fetches, asked, hellos>>
  BY <1>1, FewerOnes DEF cvars
<1>3. Typing' /\ BodiesDrawn' /\ now \in Nat
  BY <1>1, GatewayTyping DEF Typing, Counts
<1>4. /\ DOMAIN handshakes' = {e \in DOMAIN handshakes : now - handshakes[e].at < Remembered}
      /\ \A e \in DOMAIN handshakes' : handshakes'[e] = handshakes[e]
  BY DEF Sweep
<1>5. OnesDrawn' /\ OneEach' /\ RunsDrawn' /\ HelloRunsOnce'
  BY <1>1, <1>2 DEF OnesDrawn, OneOfHello, OneEach, RunsDrawn, HelloRunsOnce
<1>6. HandshakesDrawn' /\ AcceptedInTime'
  BY <1>2, <1>4 DEF HandshakesDrawn, AcceptedInTime
<1>7. Remembers'
  <2> SUFFICES ASSUME NEW m \in Ones, NEW j \in runs, j.life = restarts, j.id = m.id,
                      m.eph \notin DOMAIN handshakes'
               PROVE  now > m.at + Fresh
    BY <1>1, <1>2 DEF Remembers
  <2>1. CASE m.eph \notin DOMAIN handshakes
    BY <2>1 DEF Remembers
  <2>2. CASE m.eph \in DOMAIN handshakes
    <3>1. now - handshakes[m.eph].at >= 2 * Fresh
      BY <1>3, <1>4, <2>2, FreshAssumption DEF Remembered, HandshakesDrawn
    <3>2. m.at < handshakes[m.eph].at + Fresh /\ m.at \in Nat /\ handshakes[m.eph].at \in Nat
      BY <2>2 DEF AcceptedInTime, OnesDrawn, OneOfHello, HandshakesDrawn
    <3> QED BY <1>3, <3>1, <3>2, FreshAssumption
  <2> QED BY <2>1, <2>2
<1> QED BY <1>3, <1>5, <1>6, <1>7

LEMMA RestartKeeps ==
  ASSUME HelloInv, Restart, UNCHANGED cvars
  PROVE  HelloInv'
<1> USE DEF HelloInv
<1>1. /\ UNCHANGED <<now, runs>> /\ up' = up /\ restarts' = restarts + 1 /\ restarts \in Nat
      /\ now \in Nat /\ DOMAIN handshakes' = {}
  BY DEF Restart, net, Typing, Counts, EmptyMap
<1>2. Ones' \subseteq Ones /\ UNCHANGED <<client, fetches, asked, hellos>>
  BY <1>1, FewerOnes DEF cvars
<1>3. Typing' /\ BodiesDrawn'
  BY <1>1, GatewayTyping
<1>4. OnesDrawn' /\ OneEach' /\ HelloRunsOnce'
  BY <1>1, <1>2 DEF OnesDrawn, OneOfHello, OneEach, HelloRunsOnce
<1>5. HandshakesDrawn' /\ AcceptedInTime'
  BY <1>1 DEF HandshakesDrawn, AcceptedInTime
<1>6. RunsDrawn' /\ Remembers'
  BY <1>1, <1>2 DEF RunsDrawn, Remembers
<1> QED BY <1>3, <1>4, <1>5, <1>6

(* What a request may add to the runs.                                     *)
LEMMA RequestRuns ==
  ASSUME NEW ss, NEW q, NEW sid, NEW req, OnRequest(ss, q, sid, req)
  PROVE  \/ runs' = runs
         \/ /\ req.body
            /\ \E j : runs' = runs \cup {j} /\ j.id = req.id /\ j.life = restarts
<1>1. CASE NewRequest(ss, q, sid, req) /\ req.body
  <2> DEFINE j == [sid |-> sid, id |-> req.id, run |-> Cardinality(runs) + 1, life |-> restarts]
  <2>1. runs' = runs \cup {j}
    BY <1>1 DEF NewRequest
  <2>2. j.id = req.id /\ j.life = restarts
    OBVIOUS
  <2> HIDE DEF j
  <2> QED BY <1>1, <2>1, <2>2
<1> QED BY <1>1 DEF OnRequest

(* Message 1 is accepted: its request was not run in this life.            *)
LEMMA AcceptedKeeps ==
  ASSUME HelloInv, NEW p \in up, p.t = "HS1", Accepted(p), UNCHANGED cvars, up' \subseteq up,
         UNCHANGED <<now, restarts>>
  PROVE  HelloInv'
<1> USE DEF HelloInv
<1> DEFINE m == OfPacket(p)
           h == [at |-> now, sid |-> sids + 1, key |-> p.key]
<1>1. Ones' \subseteq Ones /\ UNCHANGED <<client, fetches, asked, hellos>>
  BY FewerOnes DEF cvars
<1>2. now \in Nat /\ restarts \in Nat /\ hellos \in Nat
  BY DEF Typing, Counts
<1>3. Typing' /\ BodiesDrawn'
  BY <1>2, GatewayTyping
<1>4. m \in Ones /\ m.eph = p.eph /\ m.id = p.req.id /\ m.at = p.ts.at
  BY DEF Ones, OfPacket
<1>5. OneOfHello(m)
  BY <1>4 DEF OnesDrawn
<1>6. /\ p.eph \notin DOMAIN handshakes
      /\ ~Stale(p)
      /\ handshakes' = Put(handshakes, p.eph, h)
      /\ \E ss \in Evicted(sessions) : \E session :
           OnRequest(Put(ss, sids + 1, session), queue, sids + 1, p.req)
  BY DEF Accepted
<1>7. h.at = now
  OBVIOUS
<1> HIDE DEF h
<1>8. /\ DOMAIN handshakes' = DOMAIN handshakes \cup {p.eph}
      /\ handshakes'[p.eph].at = now
      /\ \A e \in DOMAIN handshakes : e /= p.eph => handshakes'[e] = handshakes[e]
  BY <1>6, <1>7 DEF Put
<1>9. ~(now > m.at + Fresh)
  BY <1>2, <1>4, <1>5, <1>6, FreshAssumption DEF Stale, Apart, OneOfHello
<1>10. \A j \in runs : j.life = restarts => j.id /= m.id
  BY <1>4, <1>6, <1>9 DEF Remembers
<1> HIDE DEF m
<1>11. \/ runs' = runs
       \/ \E j : runs' = runs \cup {j} /\ j.id = m.id /\ j.life = restarts
  BY <1>4, <1>6, RequestRuns
<1>12. OnesDrawn' /\ OneEach'
  BY <1>1 DEF OnesDrawn, OneOfHello, OneEach
<1>13. HandshakesDrawn'
  <2>1. p.eph \in 1 .. hellos
    BY <1>4, <1>5 DEF OneOfHello
  <2> QED BY <1>1, <1>2, <1>6, <1>8, <2>1 DEF HandshakesDrawn
<1>14. AcceptedInTime'
  <2> SUFFICES ASSUME NEW n \in Ones, n.eph \in DOMAIN handshakes'
               PROVE  n.at < handshakes'[n.eph].at + Fresh
    BY <1>1 DEF AcceptedInTime
  <2>1. CASE n.eph = p.eph
    BY <1>8, <2>1 DEF OnesDrawn, OneOfHello
  <2>2. CASE n.eph /= p.eph
    BY <1>8, <2>2 DEF AcceptedInTime
  <2> QED BY <2>1, <2>2
<1>15. RunsDrawn'
  <2>1. m.id \in DOMAIN asked /\ restarts \in 0 .. restarts
    BY <1>2, <1>5 DEF OneOfHello
  <2> QED BY <1>1, <1>11, <2>1 DEF RunsDrawn
<1>16. Remembers'
  <2> SUFFICES ASSUME NEW n \in Ones, NEW j \in runs', j.life = restarts, j.id = n.id
               PROVE  n.eph \in DOMAIN handshakes' \/ now > n.at + Fresh
    BY <1>1 DEF Remembers
  <2>1. CASE j \in runs
    BY <1>8, <2>1 DEF Remembers
  <2>2. CASE j \notin runs
    <3>1. n = m
      BY <1>4, <1>11, <2>2 DEF OneEach
    <3> QED BY <1>4, <1>8, <3>1
  <2> QED BY <2>1, <2>2
<1>17. HelloRunsOnce'
  BY <1>1, <1>10, <1>11 DEF HelloRunsOnce
<1> QED BY <1>3, <1>12, <1>13, <1>14, <1>15, <1>16, <1>17

(* A request in a frame did not ride in a message 1.                       *)
LEMMA FrameKeeps ==
  ASSUME HelloInv, NEW p \in up, OnFrame(p), UNCHANGED cvars, up' \subseteq up,
         UNCHANGED <<now, restarts>>
  PROVE  HelloInv'
<1>1. /\ UNCHANGED handshakes /\ p.t = "REQ"
      /\ \E ss : OnRequest(ss, queue, p.sid, p.req)
  BY DEF OnFrame
<1>2. now \in Nat /\ restarts \in Nat
  BY DEF HelloInv, Typing, Counts
<1>3. CASE runs' = runs
  BY <1>1, <1>2, <1>3, QuietKeeps
<1>4. CASE /\ p.req.body
           /\ \E j : runs' = runs \cup {j} /\ j.id = p.req.id /\ j.life = restarts
  <2> PICK j : runs' = runs \cup {j} /\ j.id = p.req.id /\ j.life = restarts
    BY <1>4
  <2> USE DEF HelloInv
  <2>1. Ones' \subseteq Ones /\ UNCHANGED <<client, fetches, asked, hellos>>
    BY FewerOnes DEF cvars
  <2>2. j.id \in DOMAIN asked /\ ~asked[j.id].hello
    BY <1>1, <1>4 DEF BodiesDrawn
  <2>3. Typing' /\ BodiesDrawn'
    BY <1>2, GatewayTyping
  <2>4. OnesDrawn' /\ OneEach' /\ HandshakesDrawn' /\ AcceptedInTime'
    BY <1>1, <2>1 DEF OnesDrawn, OneOfHello, OneEach, HandshakesDrawn, AcceptedInTime
  <2>5. RunsDrawn'
    BY <1>2, <2>1, <2>2 DEF RunsDrawn
  <2>6. Remembers'
    BY <1>1, <2>1, <2>2 DEF Remembers, OnesDrawn, OneOfHello
  <2>7. HelloRunsOnce'
    BY <2>1, <2>2 DEF HelloRunsOnce
  <2> QED BY <2>3, <2>4, <2>5, <2>6, <2>7
<1> QED BY <1>1, <1>3, <1>4, RequestRuns

LEMMA ReceiveKeeps ==
  ASSUME HelloInv, NEW p \in up, Receive(p), UNCHANGED cvars, up' \subseteq up
  PROVE  HelloInv'
<1>1. UNCHANGED <<now, restarts>> /\ now \in Nat
  BY DEF Receive, HelloInv, Typing, Counts
<1>2. CASE p.t = "HS1" /\ OnHello(p)
  <2>1. Accepted(p) \/ UNCHANGED <<runs, handshakes>>
    BY <1>2 DEF OnHello, Repeated, UnknownKey, Refused, gateway
  <2> QED BY <1>1, <1>2, <2>1, AcceptedKeeps, QuietKeeps
<1>3. CASE NoSuchSession(p) \/ Replayed(p) \/ OnDone(p) \/ OnFrame(p)
  <2>1. OnFrame(p) \/ UNCHANGED <<runs, handshakes>>
    BY <1>3 DEF NoSuchSession, Replayed, OnDone, gateway
  <2> QED BY <1>1, <2>1, FrameKeeps, QuietKeeps
<1> QED BY <1>2, <1>3 DEF Receive

LEMMA GatewayKeeps ==
  ASSUME HelloInv, Gateway
  PROVE  HelloInv'
<1>0. UNCHANGED cvars /\ now \in Nat
  BY DEF Gateway, HelloInv, Typing, Counts
<1>1. CASE Sweep
  BY <1>0, <1>1, SweepKeeps
<1>2. CASE Restart
  BY <1>0, <1>2, RestartKeeps
<1>3. CASE TimePasses
  <2>1. UNCHANGED <<runs, restarts, handshakes, up>> /\ now' = now + 1
    BY <1>3 DEF TimePasses, Tick, net, gateway
  <2> QED BY <1>0, <2>1, QuietKeeps
<1>4. CASE Poll \/ Answer \/ (\E w \in working : SendWorking(w)) \/ SetKeys
  <2>1. UNCHANGED <<runs, restarts, handshakes, up, now>>
    BY <1>4 DEF Poll, PollDrop, PollSend, Answer, Respond, Refuse, SendWorking, SetKeys, net, gateway
  <2> QED BY <1>0, <2>1, QuietKeeps
<1> QED BY <1>1, <1>2, <1>3, <1>4 DEF Gateway

LEMMA LoseKeeps ==
  ASSUME HelloInv, Lose
  PROVE  HelloInv'
<1>1. UNCHANGED cvars /\ up' \subseteq up /\ UNCHANGED <<now, runs, restarts, handshakes>>
  BY DEF Lose, LoseUp, LoseDown, gvars, gateway
<1>2. now \in Nat
  BY DEF HelloInv, Typing, Counts
<1> QED BY <1>1, <1>2, QuietKeeps

LEMMA HelloNext ==
  ASSUME HelloInv, \A lead \in Leads : lead < Fresh, [Next]_vars
  PROVE  HelloInv'
<1>1. CASE Uplink
  <2>1. PICK p \in up, copied \in BOOLEAN : Receive(p) /\ up' = Remaining(p, up, copied)
    BY <1>1 DEF Uplink
  <2>2. UNCHANGED cvars /\ up' \subseteq up
    BY <1>1, <2>1 DEF Uplink, Remaining
  <2> QED BY <2>1, <2>2, ReceiveKeeps
<1>2. CASE Downlink
  BY <1>2, ArrivesKeeps DEF Downlink
<1>3. CASE Lose
  BY <1>3, LoseKeeps
<1>4. ASSUME NEW l \in Lanes, Fetch(l) \/ Rebind(l) \/ Wait(l) \/ Deadline(l)
      PROVE  HelloInv'
  <2>1. CASE Fetch(l)
    <3>1. UNCHANGED <<now, handshakes, runs, restarts>>
      BY <2>1 DEF Fetch, gvars, gateway
    <3> QED BY <2>1, <3>1, StartKeeps DEF Fetch
  <2>2. CASE Rebind(l)
    BY <2>2, RebindKeeps
  <2>3. CASE Wait(l)
    BY <2>3, HelloAgainKeeps, TimerKeeps DEF Wait
  <2>4. CASE Deadline(l)
    BY <2>4, GiveUpKeeps DEF Deadline
  <2> QED BY <1>4, <2>1, <2>2, <2>3, <2>4
<1>5. CASE Gateway
  BY <1>5, GatewayKeeps
<1>6. CASE UNCHANGED vars
  <2>1. UNCHANGED cvars /\ UNCHANGED <<up, now, runs, restarts, handshakes>>
    BY <1>6 DEF vars, gvars, gateway, net
  <2>2. now \in Nat
    BY DEF HelloInv, Typing, Counts
  <2> QED BY <2>1, <2>2, QuietKeeps
<1> QED BY <1>1, <1>2, <1>3, <1>4, <1>5, <1>6 DEF Next

LEMMA HelloInit ==
  ASSUME Init
  PROVE  HelloInv
<1> USE DEF Init, NetInit, GatewayInit, ClientInit
<1>1. Typing
  BY DEF Typing, Counts, Drawn, FetchesHeard, FetchOf, NoFetch
<1>2. Ones = {}
  BY DEF Ones, NoFetch
<1> QED BY <1>1, <1>2
        DEF HelloInv, OnesDrawn, OneEach, BodiesDrawn, RunsDrawn, HandshakesDrawn, AcceptedInTime,
            Remembers, HelloRunsOnce, EmptyMap

(* Whatever is lost, repeated, overtaken or held back, and however the     *)
(* gateway sweeps, a request that rode in message 1 is run once in one     *)
(* life of the gateway (gateway.rs:6-8), as long as a phone's clock leads  *)
(* by less than FRESH.  The ephemeral key is remembered for twice FRESH,   *)
(* which is just enough: a clock that leads by all of FRESH makes message  *)
(* 1 acceptable in the one instant after its key was swept.                *)
THEOREM HelloRunsOnceHolds ==
  ASSUME \A lead \in Leads : lead < Fresh
  PROVE  Spec => []HelloRunsOnce
<1>1. Init => HelloInv
  BY HelloInit
<1>2. HelloInv /\ [Next]_vars => HelloInv'
  BY HelloNext
<1>3. HelloInv => HelloRunsOnce
  BY DEF HelloInv
<1> QED BY <1>1, <1>2, <1>3, PTL DEF Spec
-----------------------------------------------------------------------------
(***************************************************************************)
(* Wire implements FetchPromise.  RunsInv: what the gateway holds, queues  *)
(* and sends of a run is of that run, and it resets only sessions that are *)
(* gone.  WaitInv: of a fetch that waits, every former request is settled, *)
(* and the one it waits for ran once on a session at most.                 *)
(***************************************************************************)
(* Which request a body under way is of, and which runs there were.        *)
Bodies == {p \in up : p.t \in {"HS1", "REQ"} /\ p.req.body}

RanOn(sid, id, run) == \E j \in runs : j.sid = sid /\ j.id = id /\ j.run = run

IsRunning(j) ==
  /\ j.id \in DOMAIN asked /\ j.sid \in 1 .. sids /\ j.life \in 0 .. restarts
  /\ j.run \in 1 .. Cardinality(runs)
  /\ j.sid \in DOMAIN sessions => j.life = restarts

RunsNumbered ==
  /\ IsFiniteSet(runs)
  /\ \A j \in runs : IsRunning(j)
  /\ \A j, k \in runs : j.run = k.run => j = k

(* What the gateway holds and sends of a run is of that run.               *)
Holding(rs, sid) == \A id \in DOMAIN rs : rs[id].ready => RanOn(sid, id, rs[id].run)
HeldRuns == \A x \in DOMAIN sessions : Holding(sessions[x].resp, x)

QueuedRuns ==
  \A o \in queue : o.pkt.t = "DATA" =>
    {"sid", "id", "run"} \subseteq DOMAIN o.pkt /\ RanOn(o.pkt.sid, o.pkt.id, o.pkt.run)

SentRuns == \A p \in down : p.t = "DATA" => RanOn(p.sid, p.id, p.run)

(* A reset is sent for a session there is no more.                         *)
ResetsGone == \A p \in down : p.t = "RESET" => p.sid \in 1 .. sids /\ p.sid \notin DOMAIN sessions

RunsInv == RunsNumbered /\ jobs \subseteq runs /\ HeldRuns /\ QueuedRuns /\ SentRuns /\ ResetsGone
-----------------------------------------------------------------------------
(* A request that will not be run any more: its body is in no message 1,   *)
(* and the session of its packets and runs is gone.                        *)
Settled(i) ==
  /\ \A p \in Bodies : p.req.id = i => p.t = "REQ" /\ p.sid \notin DOMAIN sessions
  /\ \A j \in runs : j.id = i => j.sid \notin DOMAIN sessions

FormerSettled(c) ==
  \A i \in DOMAIN asked : asked[i].fetch = c.fetch /\ i /= c.id => Settled(i)

(* The request a fetch waits for, in a handshake and in an exchange.       *)
InHandshake(c) ==
  /\ asked[c.id].hello
  /\ DOMAIN c.got = {}
  /\ c.secret => (\A p \in Bodies : p.req.id /= c.id) /\ (\A j \in runs : j.id /= c.id)

InExchange(c) ==
  /\ c.resettable => ~asked[c.id].hello
  /\ ~asked[c.id].hello =>
       /\ \A p \in Bodies : p.req.id = c.id => p.t = "REQ" /\ p.sid = c.sid
       /\ \A j \in runs : j.id = c.id => j.sid = c.sid
  /\ \A x \in DOMAIN c.got : RanOn(c.sid, c.id, c.got[x])

RunOnceEach(i) == \A j, k \in runs : j.id = i /\ k.id = i /\ j.sid = k.sid => j = k

Waits(c) == c.pc \in {"handshake", "exchange"}

WaitsWell(c) ==
  /\ c.id \in DOMAIN asked /\ asked[c.id].fetch = c.fetch /\ c.fetch \in 1 .. fetches
  /\ c.answer = 0
  /\ c.pc = "handshake" => InHandshake(c)
  /\ c.pc = "exchange" => InExchange(c)
  /\ RunOnceEach(c.id) /\ FormerSettled(c)

LanesWait == \A l \in Lanes : \A c \in {client[l]} : Waits(c) => WaitsWell(c)

OneLaneEach ==
  \A l, m \in Lanes :
    Waits(client[l]) /\ Waits(client[m]) /\ client[l].fetch = client[m].fetch => l = m

FetchesDrawn == \A i \in DOMAIN asked : asked[i].fetch \in 1 .. fetches

WaitInv == LanesWait /\ OneLaneEach /\ FetchesDrawn
-----------------------------------------------------------------------------
(* The ways a lane moves: on with its request, to its end, to a new        *)
(* request, and into the session that message 2 brought.                   *)
GoesOn(c, d) ==
  /\ Waits(c) /\ UNCHANGED <<asked, fetches>>
  /\ d.pc = c.pc /\ d.fetch = c.fetch /\ d.id = c.id /\ d.sid = c.sid /\ d.secret = c.secret
  /\ d.resettable = c.resettable /\ d.answer = c.answer
  /\ \A x \in DOMAIN d.got :
       \/ x \in DOMAIN c.got /\ d.got[x] = c.got[x]
       \/ c.pc = "exchange" /\ RanOn(c.sid, c.id, d.got[x])
  /\ \A p \in Bodies' :
       \/ p \in Bodies
       \/ p.req.id = c.id /\ p.t = "HS1" /\ c.pc = "handshake" /\ ~c.secret
       \/ p.req.id = c.id /\ p.t = "REQ" /\ c.pc = "exchange" /\ p.sid = c.sid /\ ~asked[c.id].hello

Finishes(c, d) ==
  /\ Waits(c) /\ UNCHANGED <<asked, fetches>> /\ Bodies' \subseteq Bodies
  /\ d.fetch = c.fetch
  /\ \/ d.pc = "failed" /\ d.answer = 0
     \/ /\ d.pc = "done" /\ c.pc = "exchange"
        /\ \E got : /\ DOMAIN got /= {} /\ d.answer = Decoded(got)
                    /\ \A x \in DOMAIN got : RanOn(c.sid, c.id, got[x])

Asks(c, d, hello) ==
  /\ asked' = Append(asked, [fetch |-> d.fetch, hello |-> hello])
  /\ d.id = Len(asked) + 1 /\ d.answer = 0 /\ DOMAIN d.got = {}
  /\ \/ Waits(c) /\ d.fetch = c.fetch /\ fetches' = fetches /\ Settled(c.id)
     \/ ~Waits(c) /\ d.fetch = fetches + 1 /\ fetches' = fetches + 1
  /\ d.pc = IF hello THEN "handshake" ELSE "exchange"
  /\ \A p \in Bodies' :
       \/ p \in Bodies
       \/ p.req.id = d.id /\ hello /\ p.t = "HS1" /\ ~d.secret
       \/ p.req.id = d.id /\ ~hello /\ p.t = "REQ" /\ p.sid = d.sid

Enters(c, d) ==
  /\ c.pc = "handshake" /\ ~c.secret /\ d.pc = "exchange" /\ ~d.resettable
  /\ d.fetch = c.fetch /\ d.id = c.id /\ d.answer = c.answer /\ DOMAIN d.got = {}
  /\ UNCHANGED <<asked, fetches>> /\ Bodies' \subseteq Bodies

LaneMove(c, d) == GoesOn(c, d) \/ Finishes(c, d) \/ (\E hello \in BOOLEAN : Asks(c, d, hello)) \/ Enters(c, d)

Moves(l) == \E d : client' = [client EXCEPT ![l] = d] /\ LaneMove(client[l], d)

KnownInv == Typed /\ HelloInv /\ RunsInv /\ WaitInv

LEMMA LaneShape ==
  ASSUME KnownInv, NEW l \in Lanes
  PROVE  /\ DOMAIN client[l] = DOMAIN NoFetch /\ DOMAIN client = Lanes
         /\ Waits(client[l]) => WaitsWell(client[l])
BY DEF KnownInv, WaitInv, LanesWait, Typed, LanesTyped, IsFetch

LEMMA BodiesSent ==
  ASSUME NEW q, up' \subseteq up \cup {q}
  PROVE  \A p \in Bodies' : p \in Bodies \/ (p = q /\ q.t \in {"HS1", "REQ"} /\ q.req.body)
BY DEF Bodies

LEMMA NoBodies ==
  ASSUME \A q \in up' : q \in up \/ q.t = "DONE" \/ (q.t = "REQ" /\ ~q.req.body)
  PROVE  Bodies' \subseteq Bodies
BY DEF Bodies

(* A request on a session, or in message 1.                                *)
LEMMA SessionMoves ==
  ASSUME NEW l \in Lanes, NEW c, DOMAIN c = DOMAIN NoFetch, c.answer = 0, DOMAIN c.got = {},
         NEW sid, NEW next, NEW made, OnSession(l, c, sid, next, made),
         \/ Waits(client[l]) /\ c.fetch = client[l].fetch /\ fetches' = fetches /\ Settled(client[l].id)
         \/ ~Waits(client[l]) /\ c.fetch = fetches + 1 /\ fetches' = fetches + 1
  PROVE  Moves(l)
<1>d. PICK d : d = [c EXCEPT !.pc = "exchange", !.id = Len(asked) + 1, !.sid = sid, !.ctr = next + 1,
                       !.end = next + Block, !.made = made, !.resettable = TRUE,
                       !.rounds = Set(EmptyFun, 0, Round(1))]
  OBVIOUS
<1>q. PICK q : q = Request(sid, next, Req(Len(asked) + 1, 0, 0, FALSE, TRUE), c.addr)
  OBVIOUS
<1>1. /\ client' = [client EXCEPT ![l] = d] /\ up' \subseteq up \cup {q}
      /\ asked' = Append(asked, [fetch |-> c.fetch, hello |-> FALSE])
  BY <1>d, <1>q DEF OnSession, SendUp
<1>2. /\ d.fetch = c.fetch /\ d.pc = "exchange" /\ d.id = Len(asked) + 1 /\ d.answer = 0
      /\ DOMAIN d.got = {} /\ d.sid = sid
  BY <1>d DEF NoFetch
<1>3. q.t = "REQ" /\ q.req.id = Len(asked) + 1 /\ q.sid = sid
  BY <1>q DEF Request, Req
<1>4. \A p \in Bodies' : p \in Bodies \/ (p.req.id = d.id /\ p.t = "REQ" /\ p.sid = d.sid)
  BY <1>1, <1>2, <1>3, BodiesSent
<1>5. Asks(client[l], d, FALSE)
  BY <1>1, <1>2, <1>4 DEF Asks
<1> QED BY <1>1, <1>5 DEF Moves, LaneMove

LEMMA HelloMoves ==
  ASSUME NEW l \in Lanes, NEW c, DOMAIN c = DOMAIN NoFetch, c.answer = 0, DOMAIN c.got = {},
         SayHello(l, c, now),
         \/ Waits(client[l]) /\ c.fetch = client[l].fetch /\ fetches' = fetches /\ Settled(client[l].id)
         \/ ~Waits(client[l]) /\ c.fetch = fetches + 1 /\ fetches' = fetches + 1
  PROVE  Moves(l)
<1>1. PICK lead \in Leads :
      LET id == Len(asked) + 1
          eph == hellos + 1
          ts == [at |-> now + lead, n |-> eph]
      IN /\ client' = [client EXCEPT ![l] =
              [c EXCEPT !.pc = "handshake", !.id = id, !.eph = eph, !.ts = ts]]
         /\ asked' = Append(asked, [fetch |-> c.fetch, hello |-> TRUE])
         /\ SendUp(Hello(eph, c.key, DeviceOf[l], ts, Req(id, 0, 0, FALSE, ~c.secret), c.addr))
  BY DEF SayHello
<1>t. PICK ts : ts = [at |-> now + lead, n |-> hellos + 1]
  OBVIOUS
<1>d. PICK d : d = [c EXCEPT !.pc = "handshake", !.id = Len(asked) + 1, !.eph = hellos + 1, !.ts = ts]
  OBVIOUS
<1>q. PICK q : q = Hello(hellos + 1, c.key, DeviceOf[l], ts, Req(Len(asked) + 1, 0, 0, FALSE, ~c.secret), c.addr)
  OBVIOUS
<1>2. /\ client' = [client EXCEPT ![l] = d] /\ up' \subseteq up \cup {q}
      /\ asked' = Append(asked, [fetch |-> c.fetch, hello |-> TRUE])
  BY <1>1, <1>t, <1>d, <1>q DEF SendUp
<1>3. /\ d.fetch = c.fetch /\ d.pc = "handshake" /\ d.id = Len(asked) + 1 /\ d.answer = 0
      /\ DOMAIN d.got = {} /\ d.secret = c.secret
  BY <1>d DEF NoFetch
<1>4. q.t = "HS1" /\ q.req.id = Len(asked) + 1 /\ q.req.body = ~c.secret
  BY <1>q DEF Hello, Req
<1>5. \A p \in Bodies' : p \in Bodies \/ (p.req.id = d.id /\ p.t = "HS1" /\ ~d.secret)
  BY <1>2, <1>3, <1>4, BodiesSent
<1>6. Asks(client[l], d, TRUE)
  BY <1>2, <1>3, <1>5 DEF Asks
<1> QED BY <1>2, <1>6 DEF Moves, LaneMove

LEMMA StartMoves ==
  ASSUME KnownInv, NEW l \in Lanes, NEW addr, NEW key, NEW secret, Start(l, addr, key, secret, now)
  PROVE  Moves(l)
<1>c. PICK c : c = [NoFetch EXCEPT !.fetch = fetches + 1, !.addr = addr, !.key = key, !.secret = secret, !.began = now]
  OBVIOUS
<1>1. /\ \/ OnSession(l, c, kept[l].sid, kept[l].next, kept[l].made)
         \/ SayHello(l, c, now)
      /\ client[l].pc \in {"idle", "done", "failed"} /\ fetches' = fetches + 1
  BY <1>c DEF Start
<1>2. DOMAIN c = DOMAIN NoFetch /\ c.fetch = fetches + 1 /\ c.answer = 0 /\ DOMAIN c.got = {} /\ c.secret = secret
  BY <1>c DEF NoFetch, EmptyFun
<1>3. ~Waits(client[l])
  BY <1>1 DEF Waits
<1> QED BY <1>1, <1>2, <1>3, SessionMoves, HelloMoves

LEMMA RebindMoves ==
  ASSUME KnownInv, NEW l \in Lanes, Rebind(l)
  PROVE  Moves(l)
<1>1. PICK ip \in Ips : client' = [client EXCEPT ![l].addr = NewAddress(ip)]
  BY DEF Rebind
<1>d. PICK d : d = [client[l] EXCEPT !.addr = NewAddress(ip)]
  OBVIOUS
<1>2. /\ DOMAIN client[l] = DOMAIN NoFetch /\ DOMAIN client = Lanes
  BY LaneShape
<1>3. /\ d.pc = client[l].pc /\ d.fetch = client[l].fetch /\ d.id = client[l].id /\ d.sid = client[l].sid
      /\ d.secret = client[l].secret /\ d.resettable = client[l].resettable
      /\ d.answer = client[l].answer /\ d.got = client[l].got
  BY <1>2, <1>d DEF NoFetch
<1>4. client' = [client EXCEPT ![l] = d]
  BY <1>1, <1>2, <1>d
<1>5. Waits(client[l]) /\ UNCHANGED <<asked, fetches, up>>
  BY DEF Rebind, Active, Waits
<1>6. Bodies' = Bodies
  BY <1>5 DEF Bodies
<1>7. GoesOn(client[l], d)
  BY <1>3, <1>5, <1>6 DEF GoesOn
<1> QED BY <1>4, <1>7 DEF Moves, LaneMove

LEMMA HelloAgainMoves ==
  ASSUME KnownInv, NEW l \in Lanes, HelloAgain(l)
  PROVE  Moves(l)
<1>c. PICK c : c = client[l]
  OBVIOUS
<1>d. PICK d : d = [c EXCEPT !.asks = @ + 1]
  OBVIOUS
<1>q. PICK q : q = Hello(c.eph, c.key, DeviceOf[l], c.ts, Req(c.id, 0, 0, FALSE, ~c.secret), c.addr)
  OBVIOUS
<1>1. DOMAIN c = DOMAIN NoFetch /\ DOMAIN client = Lanes
  BY <1>c, LaneShape
<1>2. /\ c.pc = "handshake" /\ up' \subseteq up \cup {q} /\ UNCHANGED <<asked, fetches>>
  BY <1>c, <1>q DEF HelloAgain, SendUp
<1>3. /\ d.pc = c.pc /\ d.fetch = c.fetch /\ d.id = c.id /\ d.sid = c.sid
      /\ d.secret = c.secret /\ d.resettable = c.resettable
      /\ d.answer = c.answer /\ d.got = c.got
  BY <1>1, <1>d DEF NoFetch
<1>4. client' = [client EXCEPT ![l] = d]
  BY <1>c, <1>d, <1>1 DEF HelloAgain
<1>5. q.t = "HS1" /\ q.req.id = c.id /\ q.req.body = ~c.secret
  BY <1>q DEF Hello, Req
<1>6. \A p \in Bodies' : p \in Bodies \/ (p.req.id = c.id /\ p.t = "HS1" /\ c.pc = "handshake" /\ ~c.secret)
  BY <1>2, <1>5, BodiesSent
<1>7. GoesOn(c, d)
  BY <1>2, <1>3, <1>6 DEF GoesOn, Waits
<1> QED BY <1>c, <1>4, <1>7 DEF Moves, LaneMove

LEMMA EndsMoves ==
  ASSUME KnownInv, NEW l \in Lanes, Waits(client[l]), UNCHANGED <<asked, fetches>>, Bodies' \subseteq Bodies,
         NEW pc, NEW answer, Ends(l, pc, answer),
         \/ pc = "failed" /\ answer = 0
         \/ /\ pc = "done" /\ client[l].pc = "exchange"
            /\ \E got : /\ DOMAIN got /= {} /\ answer = Decoded(got)
                        /\ \A x \in DOMAIN got : RanOn(client[l].sid, client[l].id, got[x])
  PROVE  Moves(l)
<1>d. PICK d : d = [NoFetch EXCEPT !.pc = pc, !.fetch = client[l].fetch, !.key = client[l].key,
                       !.answer = answer]
  OBVIOUS
<1>1. client' = [client EXCEPT ![l] = d]
  BY <1>d DEF Ends
<1>2. d.pc = pc /\ d.fetch = client[l].fetch /\ d.answer = answer
  BY <1>d DEF NoFetch
<1>3. Finishes(client[l], d)
  BY <1>2 DEF Finishes
<1> QED BY <1>1, <1>3 DEF Moves, LaneMove

LEMMA HelloReplyMoves ==
  ASSUME KnownInv, NEW l \in Lanes, NEW p, OnHelloReply(l, p, now)
  PROVE  Moves(l)
<1>b. PICK b : b = client[l]
  OBVIOUS
<1>c. PICK c : c = [b EXCEPT !.heard = TRUE]
  OBVIOUS
<1>d. PICK d : d = [c EXCEPT !.pc = "exchange", !.sid = p.sid, !.ctr = 0, !.end = Block,
                    !.made = now, !.resettable = FALSE,
                    !.rounds = Set(EmptyFun, 0, Round(1))]
  OBVIOUS
<1>0. /\ DOMAIN b = DOMAIN NoFetch /\ DOMAIN client = Lanes
      /\ b.pc = "handshake" /\ WaitsWell(b)
  BY <1>b, LaneShape DEF OnHelloReply, Waits
<1>1. /\ DOMAIN c = DOMAIN NoFetch /\ c.answer = b.answer /\ c.got = b.got /\ c.fetch = b.fetch
      /\ c.id = b.id /\ c.secret = b.secret /\ c.pc = b.pc
  BY <1>0, <1>c DEF NoFetch
<1>2. \/ b.secret /\ OnSession(l, c, p.sid, 0, now)
      \/ /\ ~b.secret /\ client' = [client EXCEPT ![l] = d]
         /\ UNCHANGED <<asked, up>>
  BY <1>b, <1>c, <1>d, <1>1 DEF OnHelloReply
<1>3. UNCHANGED <<fetches>> /\ InHandshake(b) /\ b.answer = 0
  BY <1>0 DEF OnHelloReply, WaitsWell
<1>4. CASE b.secret /\ OnSession(l, c, p.sid, 0, now)
  <2>1. Settled(b.id) /\ Waits(b) /\ DOMAIN c.got = {}
    BY <1>0, <1>1, <1>3, <1>4 DEF InHandshake, Settled, Waits
  <2> QED BY <1>b, <1>1, <1>3, <1>4, <2>1, SessionMoves
<1>5. CASE ~b.secret /\ client' = [client EXCEPT ![l] = d] /\ UNCHANGED <<asked, up>>
  <2>1. /\ d.pc = "exchange" /\ ~d.resettable /\ d.fetch = b.fetch /\ d.id = b.id /\ d.answer = b.answer
        /\ d.got = b.got
    BY <1>1, <1>d DEF NoFetch
  <2>2. Bodies' = Bodies /\ DOMAIN d.got = {}
    BY <1>3, <1>5, <2>1 DEF Bodies, InHandshake
  <2>3. Enters(b, d)
    BY <1>0, <1>3, <1>5, <2>1, <2>2 DEF Enters
  <2> QED BY <1>b, <1>5, <2>3 DEF Moves, LaneMove
<1> QED BY <1>2, <1>4, <1>5

LEMMA ResetMoves ==
  ASSUME KnownInv, NEW l \in Lanes, NEW p \in down, OnReset(l, p, now)
  PROVE  Moves(l)
<1>b. PICK b : b = client[l]
  OBVIOUS
<1>c. PICK c : c = [NoFetch EXCEPT !.fetch = b.fetch, !.addr = b.addr, !.key = b.key,
                              !.secret = b.secret, !.again = TRUE, !.heard = TRUE,
                              !.asks = b.asks, !.began = b.began]
  OBVIOUS
<1>1. /\ b.pc = "exchange" /\ b.resettable /\ p.t = "RESET" /\ p.sid = b.sid /\ UNCHANGED fetches
      /\ \/ Ends(l, "failed", 0) /\ UNCHANGED <<asked, up>>
         \/ SayHello(l, c, now)
  BY <1>b, <1>c DEF OnReset
<1>2. Waits(b) /\ WaitsWell(b)
  BY <1>b, <1>1, LaneShape DEF Waits
<1>3. p.sid \notin DOMAIN sessions
  BY <1>1 DEF KnownInv, RunsInv, ResetsGone
<1>4. Settled(b.id)
  BY <1>1, <1>2, <1>3 DEF WaitsWell, InExchange, Settled
<1>5. CASE Ends(l, "failed", 0) /\ UNCHANGED <<asked, up>>
  <2>1. Bodies' = Bodies
    BY <1>5 DEF Bodies
  <2> QED BY <1>b, <1>1, <1>2, <1>5, <2>1, EndsMoves
<1>6. CASE SayHello(l, c, now)
  <2>1. DOMAIN c = DOMAIN NoFetch /\ c.answer = 0 /\ DOMAIN c.got = {} /\ c.fetch = b.fetch
    BY <1>c DEF NoFetch, EmptyFun
  <2> QED BY <1>b, <1>1, <1>2, <1>4, <1>6, <2>1, HelloMoves
<1> QED BY <1>1, <1>5, <1>6

LEMMA WorkingMoves ==
  ASSUME KnownInv, NEW l \in Lanes, NEW p, OnWorking(l, p)
  PROVE  Moves(l)
<1>c. PICK c : c = client[l]
  OBVIOUS
<1>w. PICK waiting : waiting = [r \in DOMAIN c.rounds |->
                    IF c.rounds[r].len = 0 THEN [c.rounds[r] EXCEPT !.requested = 0] ELSE c.rounds[r]]
  OBVIOUS
<1>d. PICK d : d = IF p.id = c.id /\ ~c.known
            THEN [c EXCEPT !.heard = TRUE, !.echo = TRUE, !.working = TRUE, !.rounds = waiting]
            ELSE [c EXCEPT !.heard = TRUE, !.echo = TRUE]
  OBVIOUS
<1>1. DOMAIN c = DOMAIN NoFetch
  BY <1>c, LaneShape
<1>2. /\ c.pc = "exchange" /\ UNCHANGED <<fetches, asked, up>> /\ client' = [client EXCEPT ![l] = d]
  BY <1>c, <1>w, <1>d DEF OnWorking
<1>3. /\ d.pc = c.pc /\ d.fetch = c.fetch /\ d.id = c.id /\ d.sid = c.sid
      /\ d.secret = c.secret /\ d.resettable = c.resettable
      /\ d.answer = c.answer /\ d.got = c.got
  BY <1>1, <1>d DEF NoFetch
<1>4. Bodies' = Bodies
  BY <1>2 DEF Bodies
<1>5. GoesOn(c, d)
  BY <1>2, <1>3, <1>4 DEF GoesOn, Waits
<1> QED BY <1>c, <1>2, <1>5 DEF Moves, LaneMove

LEMMA IgnoreMoves ==
  ASSUME KnownInv, NEW l \in Lanes, Active(l), NEW p, Ignore(l, p)
  PROVE  Moves(l)
<1>c. PICK c : c = client[l]
  OBVIOUS
<1>d. PICK d : d = [c EXCEPT !.heard = TRUE, !.echo = @ \/ Opened(c, p)]
  OBVIOUS
<1>1. DOMAIN c = DOMAIN NoFetch /\ DOMAIN client = Lanes
  BY <1>c, LaneShape
<1>2. /\ Waits(c) /\ UNCHANGED <<fetches, asked, up>> /\ client' = [client EXCEPT ![l] = d]
  BY <1>c, <1>d, <1>1 DEF Ignore, Active, Waits
<1>3. /\ d.pc = c.pc /\ d.fetch = c.fetch /\ d.id = c.id /\ d.sid = c.sid
      /\ d.secret = c.secret /\ d.resettable = c.resettable
      /\ d.answer = c.answer /\ d.got = c.got
  BY <1>1, <1>d DEF NoFetch
<1>4. Bodies' = Bodies
  BY <1>2 DEF Bodies
<1>5. GoesOn(c, d)
  BY <1>2, <1>3, <1>4 DEF GoesOn
<1> QED BY <1>c, <1>2, <1>5 DEF Moves, LaneMove

LEMMA TimerMoves ==
  ASSUME KnownInv, NEW l \in Lanes, Timer(l)
  PROVE  Moves(l)
<1>c. PICK c : c = client[l]
  OBVIOUS
<1>lost. PICK lost : lost = [r \in DOMAIN c.rounds |->
                 [c.rounds[r] EXCEPT !.upto = c.rounds[r].len, !.requested = 0]]
  OBVIOUS
<1>c1. PICK c1 : c1 = [c EXCEPT !.rounds = lost, !.asks = @ + 1]
  OBVIOUS
<1>1. DOMAIN c = DOMAIN NoFetch
  BY <1>c, LaneShape
<1>2. c.pc = "exchange" /\ UNCHANGED <<fetches, asked>>
  BY <1>c DEF Timer
<1>3. PICK want : /\ client' = [client EXCEPT ![l] = Asked(c1, want)]
                  /\ up' = up \cup {AskFor(c1, want, WithBody(c))}
  BY <1>c, <1>lost, <1>c1 DEF Timer, SendUp
<1>d. PICK d : d = Asked(c1, want)
  OBVIOUS
<1>q. PICK q : q = AskFor(c1, want, WithBody(c))
  OBVIOUS
<1>4. /\ DOMAIN c1 = DOMAIN NoFetch
      /\ c1.pc = c.pc /\ c1.fetch = c.fetch /\ c1.id = c.id /\ c1.sid = c.sid
      /\ c1.secret = c.secret /\ c1.resettable = c.resettable
      /\ c1.answer = c.answer /\ c1.got = c.got
  BY <1>1, <1>c1 DEF NoFetch
<1>5. /\ d.pc = c.pc /\ d.fetch = c.fetch /\ d.id = c.id /\ d.sid = c.sid
      /\ d.secret = c.secret /\ d.resettable = c.resettable
      /\ d.answer = c.answer /\ d.got = c.got
  BY <1>4, <1>d DEF Asked, NoFetch
<1>6. q.t = "REQ" /\ q.req.id = c.id /\ q.sid = c.sid /\ q.req.body = WithBody(c)
  BY <1>4, <1>q DEF AskFor, Request, Req
<1>7. WithBody(c) => ~asked[c.id].hello
  BY <1>c, <1>2 DEF KnownInv, HelloInv, Typing, FetchesHeard, FetchOf, WithBody
<1>8. up' \subseteq up \cup {q} /\ client' = [client EXCEPT ![l] = d]
  BY <1>3, <1>d, <1>q
<1>9. \A p \in Bodies' :
        p \in Bodies \/ (p.req.id = c.id /\ p.t = "REQ" /\ c.pc = "exchange" /\ p.sid = c.sid /\ ~asked[c.id].hello)
  BY <1>2, <1>6, <1>7, <1>8, BodiesSent
<1>10. GoesOn(c, d)
  BY <1>2, <1>5, <1>9 DEF GoesOn, Waits
<1> QED BY <1>c, <1>8, <1>10 DEF Moves, LaneMove

LEMMA DataMoves ==
  ASSUME KnownInv, NEW l \in Lanes, NEW p \in down, OnData(l, p)
  PROVE  Moves(l)
<1> DEFINE c == client[l]
           r == IF p.round \in DOMAIN c.rounds THEN c.rounds[p.round] ELSE Round(0)
           r1 == [r EXCEPT !.len = p.len, !.upto = IF p.pos + 1 > @ THEN p.pos + 1 ELSE @]
           got == IF p.sym \in DOMAIN c.got THEN c.got ELSE Set(c.got, p.sym, p.run)
           ackOf == Request(c.sid, c.ctr, Req(c.id, 0, 0, TRUE, FALSE), c.addr)
           ack == IF c.acked THEN {} ELSE {ackOf}
           c1 == [c EXCEPT !.heard = TRUE, !.echo = TRUE, !.working = FALSE, !.known = TRUE,
                      !.acked = TRUE, !.ctr = @ + (IF c.acked THEN 0 ELSE 1), !.got = got,
                      !.rounds = Set(@, p.round, r1)]
           missing == Symbols - Cardinality(DOMAIN got)
           short == missing - Outstanding(c1.rounds)
           fin == Done(c.sid, c1.ctr, c.id, c.addr)
<1>1. DOMAIN c = DOMAIN NoFetch
  BY LaneShape
<1>2. /\ p.t = "DATA" /\ c.pc = "exchange" /\ p.sid = c.sid /\ p.id = c.id
      /\ UNCHANGED <<fetches, asked>>
  BY DEF OnData
<1>3. \/ up' = up \cup ack \cup {fin} /\ Ends(l, "done", Decoded(got))
      \/ up' = up \cup ack /\ client' = [client EXCEPT ![l] = c1]
      \/ \E want :
           /\ up' = up \cup ack \cup {AskFor(c1, want, FALSE)}
           /\ client' = [client EXCEPT ![l] = Asked(c1, want)]
  BY DEF OnData
<1> HIDE DEF r1, missing, short
<1>4. /\ DOMAIN c1 = DOMAIN NoFetch
      /\ c1.pc = c.pc /\ c1.fetch = c.fetch /\ c1.id = c.id /\ c1.sid = c.sid
      /\ c1.secret = c.secret /\ c1.resettable = c.resettable
      /\ c1.answer = c.answer /\ c1.got = got
  BY <1>1 DEF NoFetch
<1>5. /\ p.sym \in DOMAIN got
      /\ \A x \in DOMAIN got : (x \in DOMAIN c.got /\ got[x] = c.got[x]) \/ got[x] = p.run
  BY DEF Set
<1>6. RanOn(c.sid, c.id, p.run)
  BY <1>2 DEF KnownInv, RunsInv, SentRuns
<1>7. Waits(c) /\ InExchange(c)
  BY <1>2, LaneShape DEF Waits, WaitsWell
<1>8. \A x \in DOMAIN got : RanOn(c.sid, c.id, got[x])
  BY <1>5, <1>6, <1>7 DEF InExchange
<1>9. \A x \in ack : x.t = "REQ" /\ ~x.req.body
  <2>1. ackOf.t = "REQ" /\ ackOf.req.body = FALSE
    BY DEF Request, Req
  <2> QED BY <2>1
<1> HIDE DEF c1, got, ack, fin
<1>10. CASE up' = up \cup ack \cup {fin} /\ Ends(l, "done", Decoded(got))
  <2>1. fin.t = "DONE"
    BY DEF Done, fin
  <2>2. Bodies' \subseteq Bodies
    BY <1>9, <1>10, <2>1, NoBodies
  <2> QED BY <1>2, <1>5, <1>7, <1>8, <1>10, <2>2, EndsMoves
<1>11. CASE up' = up \cup ack /\ client' = [client EXCEPT ![l] = c1]
  <2>1. Bodies' \subseteq Bodies
    BY <1>9, <1>11, NoBodies
  <2>2. GoesOn(c, c1)
    BY <1>2, <1>4, <1>5, <1>6, <1>7, <2>1 DEF GoesOn
  <2> QED BY <1>11, <2>2 DEF Moves, LaneMove
<1>12. ASSUME NEW want, up' = up \cup ack \cup {AskFor(c1, want, FALSE)},
              client' = [client EXCEPT ![l] = Asked(c1, want)]
       PROVE  Moves(l)
  <2>d. PICK d : d = Asked(c1, want)
    OBVIOUS
  <2>q. PICK q : q = AskFor(c1, want, FALSE)
    OBVIOUS
  <2>1. /\ d.pc = c1.pc /\ d.fetch = c1.fetch /\ d.id = c1.id /\ d.sid = c1.sid
        /\ d.secret = c1.secret /\ d.resettable = c1.resettable
        /\ d.answer = c1.answer /\ d.got = c1.got
    BY <1>4, <2>d DEF Asked, NoFetch
  <2>2. q.t = "REQ" /\ q.req.body = FALSE
    BY <2>q DEF AskFor, Request, Req
  <2>3. up' = up \cup ack \cup {q}
    BY <1>12, <2>q
  <2>4. Bodies' \subseteq Bodies
    BY <1>9, <2>2, <2>3, NoBodies
  <2>5. GoesOn(c, d)
    BY <1>2, <1>4, <1>5, <1>6, <1>7, <2>1, <2>4 DEF GoesOn
  <2> QED BY <1>12, <2>d, <2>5 DEF Moves, LaneMove
<1> QED BY <1>3, <1>10, <1>11, <1>12

LEMMA ArrivesMoves ==
  ASSUME KnownInv, NEW l \in Lanes, NEW p \in down, NEW rest, Arrives(l, p, rest, now)
  PROVE  Moves(l)
<1>1. /\ \/ OnHelloReply(l, p, now) \/ OnWrongKey(l, p) \/ OnReset(l, p, now)
         \/ OnWorking(l, p) \/ OnData(l, p) \/ Ignore(l, p)
      /\ Active(l)
  BY DEF Arrives
<1>2. CASE OnWrongKey(l, p)
  <2>1. UNCHANGED <<asked, fetches, up>> /\ Ends(l, "failed", 0) /\ Waits(client[l])
    BY <1>2 DEF OnWrongKey, Waits
  <2>2. Bodies' = Bodies
    BY <2>1 DEF Bodies
  <2> QED BY <2>1, <2>2, EndsMoves
<1> QED BY <1>1, <1>2, HelloReplyMoves, ResetMoves, WorkingMoves, DataMoves, IgnoreMoves

LEMMA GiveUpMoves ==
  ASSUME KnownInv, NEW l \in Lanes, GiveUp(l)
  PROVE  Moves(l)
<1>1. UNCHANGED <<asked, fetches, up>> /\ Ends(l, "failed", 0) /\ Waits(client[l])
  BY DEF GiveUp, Active, Waits
<1>2. Bodies' = Bodies
  BY <1>1 DEF Bodies
<1> QED BY <1>1, <1>2, EndsMoves
-----------------------------------------------------------------------------
(* What the gateway has of its runs, from step to step.                    *)
AllHeld(ss) == \A x \in DOMAIN ss : Holding(ss[x].resp, x)

OfRun(q) == q.t = "DATA" => {"sid", "id", "run"} \subseteq DOMAIN q /\ RanOn(q.sid, q.id, q.run)

OfAnswer(p) ==
  /\ p.t = "DATA" => RanOn(p.sid, p.id, p.run)
  /\ p.t = "RESET" => p.sid \in 1 .. sids /\ p.sid \notin DOMAIN sessions

NoOldSession == \A x \in DOMAIN sessions' : x \in 1 .. sids => x \in DOMAIN sessions

LEMMA RanStays ==
  ASSUME runs \subseteq runs'
  PROVE  \A sid, id, run : RanOn(sid, id, run) => RanOn(sid, id, run)'
BY DEF RanOn

LEMMA RunsStay ==
  ASSUME RunsInv, RunsNumbered', runs \subseteq runs', jobs' \subseteq runs',
         1 .. sids \subseteq 1 .. sids', NoOldSession, AllHeld(sessions'),
         \A o \in queue' : OfRun(o.pkt), \A p \in down' : p \in down \/ OfAnswer(p)
  PROVE  RunsInv'
<1>1. \A sid, id, run : RanOn(sid, id, run) => RanOn(sid, id, run)'
  BY RanStays
<1>2. HeldRuns'
  <2> SUFFICES ASSUME NEW x \in DOMAIN sessions', NEW id \in DOMAIN sessions'[x].resp, sessions'[x].resp[id].ready
               PROVE  RanOn(x, id, sessions[x].resp[id].run)'
    BY DEF HeldRuns, Holding
  <2>r. PICK run : run = sessions'[x].resp[id].run
    OBVIOUS
  <2>1. RanOn(x, id, run)
    BY <2>r DEF AllHeld, Holding
  <2>2. \E j \in runs' : j.sid = x /\ j.id = id /\ j.run = run
    BY <2>1 DEF RanOn
  <2> QED BY <2>2, <2>r DEF RanOn
<1>3. QueuedRuns'
  BY <1>1 DEF QueuedRuns, OfRun
<1>4. SentRuns'
  BY <1>1 DEF RunsInv, SentRuns, OfAnswer
<1>5. ResetsGone'
  BY DEF RunsInv, ResetsGone, OfAnswer, NoOldSession
<1> QED BY <1>2, <1>3, <1>4, <1>5 DEF RunsInv

LEMMA SameRuns ==
  ASSUME RunsInv, runs' = runs, DOMAIN asked \subseteq DOMAIN asked', 1 .. sids \subseteq 1 .. sids',
         NoOldSession, restarts \in Nat,
         \/ restarts' = restarts
         \/ restarts' = restarts + 1 /\ DOMAIN sessions' = {}
  PROVE  RunsNumbered'
<1>1. \A j \in runs : IsRunning(j)
  BY DEF RunsInv, RunsNumbered
<1>2. 0 .. restarts \subseteq 0 .. restarts'
  OBVIOUS
<1>3. \A j \in runs' : IsRunning(j)'
  BY <1>1, <1>2 DEF IsRunning, NoOldSession
<1> QED BY <1>3 DEF RunsInv, RunsNumbered

LEMMA RunsStanding ==
  ASSUME RunsInv
  PROVE  AllHeld(sessions) /\ (\A o \in queue : OfRun(o.pkt)) /\ jobs \subseteq runs /\ RunsNumbered
BY DEF RunsInv, HeldRuns, AllHeld, QueuedRuns, OfRun

(* A step of a phone, or of the network.                                   *)
LEMMA PhoneRuns ==
  ASSUME RunsInv, restarts \in Nat, UNCHANGED gvars, down' \subseteq down, DOMAIN asked \subseteq DOMAIN asked'
  PROVE  RunsInv'
<1>1. UNCHANGED <<runs, jobs, sessions, queue, sids, restarts>>
  BY DEF gvars, gateway
<1>2. NoOldSession
  BY <1>1 DEF NoOldSession
<1>3. RunsNumbered'
  BY <1>1, <1>2, SameRuns
<1> QED BY <1>1, <1>2, <1>3, RunsStanding, RunsStay DEF AllHeld
-----------------------------------------------------------------------------
(* What the moves of a lane leave of what all of them wait for.            *)
LEMMA DrawsOn ==
  ASSUME Typed, NEW l, Moves(l)
  PROVE  /\ DOMAIN asked = 1 .. Len(asked) /\ Len(asked) \in Nat
         /\ \A i \in DOMAIN asked : i \in DOMAIN asked' /\ asked'[i] = asked[i]
<1>1. asked \in Seq([fetch : Nat, hello : BOOLEAN])
  BY DEF Typed, Numbers
<1>2. asked' = asked \/ \E x : asked' = Append(asked, x)
  BY DEF Moves, LaneMove, GoesOn, Finishes, Asks, Enters
<1> QED BY <1>1, <1>2

(* For the other lanes.                                                    *)
LEMMA OthersWait ==
  ASSUME WaitInv, NEW c, WaitsWell(c), UNCHANGED <<runs, sessions>>,
         \A i \in DOMAIN asked : i \in DOMAIN asked' /\ asked'[i] = asked[i],
         \A i \in DOMAIN asked' : i \in DOMAIN asked \/ asked'[i].fetch /= c.fetch,
         \A p \in Bodies' : p \in Bodies \/ (p.req.id \in DOMAIN asked' /\ asked'[p.req.id].fetch /= c.fetch),
         1 .. fetches \subseteq 1 .. fetches'
  PROVE  WaitsWell(c)'
<1>1. /\ c.id \in DOMAIN asked' /\ asked'[c.id] = asked[c.id] /\ asked[c.id].fetch = c.fetch
      /\ c.fetch \in 1 .. fetches'
  BY DEF WaitsWell
<1>2. InHandshake(c) => InHandshake(c)'
  BY <1>1 DEF InHandshake
<1>3. InExchange(c) => InExchange(c)'
  BY <1>1 DEF InExchange, RanOn
<1>4. RunOnceEach(c.id)'
  BY DEF WaitsWell, RunOnceEach
<1>5. FormerSettled(c)'
  BY DEF WaitsWell, FormerSettled, Settled
<1> QED BY <1>1, <1>2, <1>3, <1>4, <1>5 DEF WaitsWell

LEMMA GoesOnWell ==
  ASSUME NEW c, NEW d, WaitsWell(c), GoesOn(c, d), UNCHANGED <<runs, sessions>>
  PROVE  WaitsWell(d)'
<1>0. /\ Waits(c) /\ asked' = asked /\ fetches' = fetches
      /\ d.pc = c.pc /\ d.fetch = c.fetch /\ d.id = c.id /\ d.sid = c.sid /\ d.secret = c.secret
      /\ d.resettable = c.resettable /\ d.answer = c.answer
  BY DEF GoesOn
<1>1. \A p \in Bodies' : p \in Bodies \/ p.req.id = c.id
  BY DEF GoesOn
<1>2. ASSUME c.pc = "handshake" PROVE InHandshake(d)'
  <2>1. InHandshake(c) /\ DOMAIN d.got = {}
    BY <1>2 DEF WaitsWell, InHandshake, GoesOn
  <2>2. d.secret => \A p \in Bodies' : p \in Bodies
    BY <1>0, <1>2 DEF GoesOn
  <2> QED BY <1>0, <2>1, <2>2 DEF InHandshake
<1>3. ASSUME c.pc = "exchange" PROVE InExchange(d)'
  <2>1. InExchange(c)
    BY <1>3 DEF WaitsWell
  <2>2. \A p \in Bodies' : p \in Bodies \/ (p.t = "REQ" /\ p.sid = c.sid)
    BY <1>3 DEF GoesOn
  <2>3. \A x \in DOMAIN d.got : RanOn(d.sid, d.id, d.got[x])'
    <3>1. \A x \in DOMAIN d.got : RanOn(c.sid, c.id, d.got[x])
      BY <2>1 DEF GoesOn, InExchange
    <3> QED BY <1>0, <3>1 DEF RanOn
  <2> QED BY <1>0, <2>1, <2>2, <2>3 DEF InExchange
<1>4. RunOnceEach(d.id)'
  BY <1>0 DEF WaitsWell, RunOnceEach
<1>5. FormerSettled(d)'
  <2>1. FormerSettled(c)
    BY DEF WaitsWell
  <2> QED BY <1>0, <1>1, <2>1 DEF FormerSettled, Settled
<1> QED BY <1>0, <1>2, <1>3, <1>4, <1>5 DEF WaitsWell

LEMMA EntersWell ==
  ASSUME NEW c, NEW d, WaitsWell(c), Enters(c, d), UNCHANGED <<runs, sessions>>
  PROVE  WaitsWell(d)'
<1>0. /\ asked' = asked /\ fetches' = fetches /\ d.pc = "exchange" /\ d.fetch = c.fetch /\ d.id = c.id
      /\ d.answer = c.answer /\ ~d.resettable /\ DOMAIN d.got = {} /\ Bodies' \subseteq Bodies
  BY DEF Enters
<1>1. InHandshake(c)
  BY DEF WaitsWell, Enters
<1>2. InExchange(d)'
  BY <1>0, <1>1 DEF InExchange, InHandshake
<1>3. RunOnceEach(d.id)'
  BY <1>0 DEF WaitsWell, RunOnceEach
<1>4. FormerSettled(d)'
  BY <1>0 DEF WaitsWell, FormerSettled, Settled
<1> QED BY <1>0, <1>2, <1>3, <1>4 DEF WaitsWell

(* A new request of the fetch: the one before, if there was one, is        *)
(* settled.                                                                *)
LEMMA AsksWell ==
  ASSUME KnownInv, NEW c, NEW d, NEW hello \in BOOLEAN, Asks(c, d, hello), Waits(c) => WaitsWell(c),
         UNCHANGED <<runs, sessions>>
  PROVE  WaitsWell(d)' /\ FetchesDrawn'
<1>0. /\ asked \in Seq([fetch : Nat, hello : BOOLEAN]) /\ fetches \in Nat
      /\ FetchesDrawn
  BY DEF KnownInv, Typed, Numbers, HelloInv, Typing, Counts, WaitInv
<1>x. PICK x : x = [fetch |-> d.fetch, hello |-> hello]
  OBVIOUS
<1>1. /\ asked' = Append(asked, x) /\ d.id = Len(asked) + 1 /\ d.answer = 0 /\ DOMAIN d.got = {}
      /\ x.fetch = d.fetch /\ x.hello = hello
      /\ d.pc = IF hello THEN "handshake" ELSE "exchange"
  BY <1>x DEF Asks
<1>2. /\ DOMAIN asked = 1 .. Len(asked) /\ DOMAIN asked' = 1 .. Len(asked) + 1 /\ Len(asked) \in Nat
      /\ \A i \in DOMAIN asked : asked'[i] = asked[i]
      /\ asked'[Len(asked) + 1] = x
  BY <1>0, <1>1
<1>3. /\ d.id \in DOMAIN asked' /\ d.id \notin DOMAIN asked
      /\ asked'[d.id].fetch = d.fetch /\ asked'[d.id].hello = hello
      /\ \A i \in DOMAIN asked' : i \in DOMAIN asked \/ i = d.id
  BY <1>1, <1>2
<1>4. d.fetch \in 1 .. fetches' /\ 1 .. fetches \subseteq 1 .. fetches'
  BY <1>0 DEF Asks, WaitsWell
<1>5. FetchesDrawn'
  BY <1>0, <1>2, <1>3, <1>4 DEF FetchesDrawn
<1>6. \A j \in runs : j.id \in DOMAIN asked
  BY DEF KnownInv, RunsInv, RunsNumbered, IsRunning
<1>7. \A p \in Bodies : p.req.id \in DOMAIN asked
  BY DEF KnownInv, Typed, PacketsTyped, IsUp, IsReq, Bodies
<1>8. \A j \in runs : j.id /= d.id
  BY <1>3, <1>6
<1>9. \A p \in Bodies' :
        \/ p \in Bodies /\ p.req.id /= d.id
        \/ p.req.id = d.id /\ hello /\ ~d.secret
        \/ p.req.id = d.id /\ ~hello /\ p.t = "REQ" /\ p.sid = d.sid
  BY <1>3, <1>7 DEF Asks
<1>10. hello => InHandshake(d)'
  BY <1>1, <1>3, <1>8, <1>9 DEF InHandshake
<1>11. ~hello => InExchange(d)'
  BY <1>1, <1>3, <1>8, <1>9 DEF InExchange
<1>12. RunOnceEach(d.id)'
  BY <1>8 DEF RunOnceEach
<1>13. \A i \in DOMAIN asked : asked[i].fetch = d.fetch => Settled(i)
  <2>1. CASE Waits(c) /\ d.fetch = c.fetch /\ Settled(c.id)
    BY <2>1 DEF WaitsWell, FormerSettled
  <2>2. CASE d.fetch = fetches + 1
    BY <1>0, <2>2 DEF FetchesDrawn
  <2> QED BY <2>1, <2>2 DEF Asks
<1>14. \A i \in DOMAIN asked : Settled(i) => Settled(i)'
  BY <1>3, <1>9 DEF Settled
<1>15. FormerSettled(d)'
  BY <1>2, <1>3, <1>13, <1>14 DEF FormerSettled
<1> QED BY <1>1, <1>3, <1>4, <1>5, <1>10, <1>11, <1>12, <1>15 DEF WaitsWell

LEMMA MoveWaits ==
  ASSUME KnownInv, NEW l \in Lanes, Moves(l), UNCHANGED <<runs, sessions>>
  PROVE  WaitInv'
<1>c. PICK c : c = client[l]
  OBVIOUS
<1>d. PICK d : client' = [client EXCEPT ![l] = d] /\ LaneMove(c, d)
  BY <1>c DEF Moves
<1>0. /\ DOMAIN client = Lanes /\ (Waits(c) => WaitsWell(c)) /\ fetches \in Nat
  BY <1>c, LaneShape DEF KnownInv, HelloInv, Typing, Counts
<1>1. WaitInv
  BY DEF KnownInv
<1>2. /\ client'[l] = d
      /\ \A m \in Lanes : m /= l => client'[m] = client[m]
  BY <1>0, <1>d
<1>3. \A i \in DOMAIN asked : i \in DOMAIN asked' /\ asked'[i] = asked[i]
  BY DrawsOn DEF KnownInv
<1>4. Waits(d) => WaitsWell(d)'
  <2>1. CASE GoesOn(c, d)
    BY <1>0, <2>1, GoesOnWell DEF GoesOn
  <2>2. CASE Finishes(c, d)
    BY <2>2 DEF Finishes, Waits
  <2>3. CASE \E hello \in BOOLEAN : Asks(c, d, hello)
    BY <1>0, <2>3, AsksWell
  <2>4. CASE Enters(c, d)
    BY <1>0, <2>4, EntersWell DEF Enters, Waits
  <2> QED BY <1>d, <2>1, <2>2, <2>3, <2>4 DEF LaneMove
<1>5. FetchesDrawn'
  <2>1. CASE UNCHANGED <<asked, fetches>>
    BY <1>1, <2>1 DEF WaitInv, FetchesDrawn
  <2>2. CASE \E hello \in BOOLEAN : Asks(c, d, hello)
    BY <1>0, <2>2, AsksWell
  <2> QED BY <1>d, <2>1, <2>2 DEF LaneMove, GoesOn, Finishes, Enters
<1>6. /\ \/ Waits(c) /\ d.fetch = c.fetch /\ fetches' = fetches
         \/ ~Waits(c) /\ d.fetch = fetches + 1 /\ fetches' = fetches + 1
  BY <1>d DEF LaneMove, GoesOn, Finishes, Asks, Enters, Waits
<1>7. ASSUME NEW m \in Lanes, m /= l, Waits(client[m])
      PROVE  client[m].fetch /= d.fetch /\ WaitsWell(client[m])
  <2>1. WaitsWell(client[m])
    BY <1>7, LaneShape
  <2>2. client[m].fetch \in 1 .. fetches
    BY <2>1 DEF WaitsWell
  <2>3. Waits(c) => client[m].fetch /= c.fetch
    BY <1>1, <1>7, <1>c DEF WaitInv, OneLaneEach
  <2> QED BY <1>0, <1>6, <2>1, <2>2, <2>3
<1>8. OneLaneEach'
  <2>1. ASSUME NEW m \in Lanes, m /= l, Waits(client'[m]) PROVE client'[m].fetch /= d.fetch
    BY <1>2, <1>7, <2>1
  <2>2. ASSUME NEW m \in Lanes, NEW n \in Lanes, m /= l, n /= l, Waits(client'[m]), Waits(client'[n]),
               client'[m].fetch = client'[n].fetch
        PROVE  m = n
    BY <1>1, <1>2, <2>2 DEF WaitInv, OneLaneEach
  <2> QED BY <1>2, <2>1, <2>2 DEF OneLaneEach, Waits
<1>9. \A i \in DOMAIN asked' : i \in DOMAIN asked \/ asked'[i].fetch = d.fetch
  <2>1. CASE asked' = asked
    BY <2>1
  <2>2. CASE asked' /= asked
    <3>1. PICK hello : asked' = Append(asked, [fetch |-> d.fetch, hello |-> hello])
      BY <1>d, <2>2 DEF LaneMove, GoesOn, Finishes, Asks, Enters
    <3>2. asked \in Seq([fetch : Nat, hello : BOOLEAN])
      BY DEF KnownInv, Typed, Numbers
    <3>x. PICK x : x = [fetch |-> d.fetch, hello |-> hello]
      OBVIOUS
    <3>3. x.fetch = d.fetch /\ asked' = Append(asked, x)
      BY <3>1, <3>x
    <3> QED BY <3>2, <3>3
  <2> QED BY <2>1, <2>2
<1>10. \A p \in Bodies' : p \in Bodies \/ (p.req.id \in DOMAIN asked' /\ asked'[p.req.id].fetch = d.fetch)
  <2>1. CASE Waits(c) /\ \A p \in Bodies' : p \in Bodies \/ p.req.id = c.id
    BY <1>0, <1>3, <1>6, <2>1 DEF WaitsWell
  <2>2. CASE \E hello \in BOOLEAN : Asks(c, d, hello)
    <3>1. d.id \in DOMAIN asked' /\ asked'[d.id].fetch = d.fetch
      BY <1>0, <2>2, AsksWell DEF WaitsWell
    <3> QED BY <2>2, <3>1 DEF Asks
  <2>3. CASE Bodies' \subseteq Bodies
    BY <2>3
  <2> QED BY <1>d, <2>1, <2>2, <2>3 DEF LaneMove, GoesOn, Finishes, Enters
<1>11. 1 .. fetches \subseteq 1 .. fetches'
  BY <1>0, <1>6
<1>12. ASSUME NEW m \in Lanes, NEW e, e = client'[m], Waits(e) PROVE WaitsWell(e)'
  <2>1. CASE m = l
    BY <1>2, <1>4, <1>12, <2>1
  <2>2. CASE m /= l
    <3>1. e = client[m] /\ WaitsWell(e) /\ e.fetch /= d.fetch
      BY <1>2, <1>7, <1>12, <2>2
    <3> QED BY <1>1, <1>3, <1>9, <1>10, <1>11, <3>1, OthersWait
  <2> QED BY <2>1, <2>2
<1>13. LanesWait'
  BY <1>12 DEF LanesWait, Waits
<1> QED BY <1>5, <1>8, <1>13 DEF WaitInv
-----------------------------------------------------------------------------
(* What a move of a lane is in FetchPromise.                               *)
Entry(c) == [fetch |-> c.fetch, st |-> Status(c), run |-> c.answer]
Entries == [l \in Lanes |-> Entry(client[l])]
RunAnswer(j) == [fetch |-> asked[j.id].fetch, run |-> j.run, life |-> j.life]
Answers == {RunAnswer(j) : j \in runs}

LEMMA EntryFields ==
  ASSUME NEW c
  PROVE  /\ Entry(c).fetch = c.fetch /\ Entry(c).st = Status(c) /\ Entry(c).run = c.answer
         /\ Waits(c) => Entry(c).st = "waiting"
         /\ c.pc = "failed" => Entry(c).st = "failed"
         /\ c.pc = "done" => Entry(c).st = "answered"
         /\ c.pc \in {"idle", "done", "failed"} => Entry(c).st /= "waiting"
<1>1. Entry(c).fetch = c.fetch /\ Entry(c).st = Status(c) /\ Entry(c).run = c.answer
  BY DEF Entry
<1>2. Waits(c) => Status(c) = "waiting"
  BY DEF Waits, Status
<1>3. c.pc = "failed" => Status(c) = "failed"
  BY DEF Status
<1>4. c.pc = "done" => Status(c) = "answered"
  BY DEF Status
<1>5. c.pc = "idle" => Status(c) = "idle"
  BY DEF Status
<1> QED BY <1>1, <1>2, <1>3, <1>4, <1>5

LEMMA EntryIs ==
  ASSUME NEW c, NEW f, NEW st, NEW run, c.fetch = f, Status(c) = st, c.answer = run
  PROVE  Entry(c) = [fetch |-> f, st |-> st, run |-> run]
BY DEF Entry

LEMMA DecodedRun ==
  ASSUME NEW got, NEW z \in DOMAIN got, \A x \in DOMAIN got : got[x] = got[z]
  PROVE  Decoded(got) = got[z]
<1>1. {got[x] : x \in DOMAIN got} = {got[z]}
  OBVIOUS
<1>2. Cardinality({got[z]}) = 1
  BY FS_Singleton
<1> QED BY <1>1, <1>2 DEF Decoded

LEMMA SameAnswers ==
  ASSUME RunsInv, runs' = runs, \A i \in DOMAIN asked : asked'[i] = asked[i]
  PROVE  Answers' = Answers
<1>1. \A j \in runs : j.id \in DOMAIN asked
  BY DEF RunsInv, RunsNumbered, IsRunning
<1>2. \A j \in runs : RunAnswer(j)' = RunAnswer(j)
  BY <1>1 DEF RunAnswer
<1> QED BY <1>2 DEF Answers

LEMMA SameEntries ==
  ASSUME UNCHANGED client
  PROVE  Entries' = Entries
BY DEF Entries, Entry, Status

LEMMA MapsTo ==
  ASSUME UNCHANGED <<fetches, restarts>>, Entries' = Entries, Answers' = Answers
  PROVE  UNCHANGED Promise!vars
BY DEF Promise!vars, Entries, Entry, Answers, RunAnswer

LEMMA MoveMaps ==
  ASSUME KnownInv, NEW l \in Lanes, Moves(l), UNCHANGED <<runs, restarts>>
  PROVE  [Promise!Next]_(Promise!vars)
<1>c. PICK c : c = client[l]
  OBVIOUS
<1>d. PICK d : client' = [client EXCEPT ![l] = d] /\ LaneMove(c, d)
  BY <1>c DEF Moves
<1>0. DOMAIN client = Lanes /\ (Waits(c) => WaitsWell(c))
  BY <1>c, LaneShape
<1>1. Answers' = Answers
  BY DrawsOn, SameAnswers DEF KnownInv
<1>2. Entries' = [Entries EXCEPT ![l] = Entry(d)] /\ Entries[l] = Entry(c)
  <2>1. \A m \in Lanes : Entry(client[m])' = IF m = l THEN Entry(d) ELSE Entry(client[m])
    BY <1>0, <1>d DEF Entry, Status
  <2> QED BY <1>c, <2>1 DEF Entries
<1>3. CASE Entry(d) = Entry(c) /\ fetches' = fetches
  <2>1. Entries' = Entries
    BY <1>2, <1>3 DEF Entries
  <2> QED BY <1>1, <1>3, <2>1, MapsTo
<1>4. CASE GoesOn(c, d) \/ Enters(c, d)
  <2>1. Entry(d) = Entry(c)
    BY <1>4 DEF GoesOn, Enters, Entry, Status, Waits
  <2> QED BY <1>3, <1>4, <2>1 DEF GoesOn, Enters
<1>5. CASE \E hello \in BOOLEAN : Asks(c, d, hello)
  <2>1. d.answer = 0 /\ Waits(d)
    BY <1>5 DEF Asks, Waits
  <2>2. CASE Waits(c) /\ d.fetch = c.fetch /\ fetches' = fetches
    <3>1. Entry(d) = Entry(c)
      BY <1>0, <2>1, <2>2 DEF WaitsWell, Entry, Status, Waits
    <3> QED BY <1>3, <2>2, <3>1
  <2>3. CASE ~Waits(c) /\ d.fetch = fetches + 1 /\ fetches' = fetches + 1
    <3>1. Entry(d) = [fetch |-> fetches + 1, st |-> "waiting", run |-> 0]
      BY <2>1, <2>3 DEF Entry, Status, Waits
    <3>2. Entry(c).st /= "waiting"
      <4>1. c.pc \in {"idle", "done", "failed"}
        BY <1>c, <2>3 DEF KnownInv, Typed, LanesTyped, IsFetch, Waits
      <4> QED BY <4>1, EntryFields
    <3>3. Promise!Begin(l)
      BY <1>1, <1>2, <2>3, <3>1, <3>2
         DEF Promise!Begin, Entries, Entry, Answers, RunAnswer
    <3> QED BY <3>3 DEF Promise!Next
  <2> QED BY <1>5, <2>2, <2>3 DEF Asks
<1>6. CASE Finishes(c, d)
  <2>1. Waits(c) /\ d.fetch = c.fetch /\ c.answer = 0 /\ UNCHANGED fetches /\ WaitsWell(c)
    BY <1>0, <1>6 DEF Finishes, WaitsWell
  <2>2. Entry(c) = [fetch |-> c.fetch, st |-> "waiting", run |-> 0]
    BY <2>1 DEF Entry, Status, Waits
  <2>3. CASE d.pc = "failed" /\ d.answer = 0
    <3>1. Entry(d) = [Entry(c) EXCEPT !.st = "failed"]
      BY <2>1, <2>2, <2>3 DEF Entry, Status
    <3>2. Promise!Fail(l)
      BY <1>1, <1>2, <2>1, <2>2, <3>1 DEF Promise!Fail, Entries, Entry, Answers, RunAnswer
    <3> QED BY <3>2 DEF Promise!Next
  <2>4. CASE d.pc = "done" /\ c.pc = "exchange"
    <3>1. PICK got : /\ DOMAIN got /= {} /\ d.answer = Decoded(got)
                     /\ \A x \in DOMAIN got : RanOn(c.sid, c.id, got[x])
      BY <1>6, <2>4 DEF Finishes
    <3>2. PICK z : z \in DOMAIN got
      BY <3>1
    <3>3. PICK j \in runs : j.sid = c.sid /\ j.id = c.id /\ j.run = got[z]
      BY <3>1, <3>2 DEF RanOn
    <3>4. \A x \in DOMAIN got : got[x] = got[z]
      BY <2>1, <3>1, <3>3 DEF WaitsWell, RunOnceEach, RanOn
    <3>5. d.answer = j.run
      BY <3>1, <3>2, <3>3, <3>4, DecodedRun
    <3>6. asked[j.id].fetch = c.fetch
      BY <2>1, <3>3 DEF WaitsWell
    <3>r. PICK r : r = RunAnswer(j)
      OBVIOUS
    <3>7. r \in Answers /\ r.fetch = c.fetch /\ r.run = d.answer
      BY <3>5, <3>6, <3>r DEF Answers, RunAnswer
    <3>8. Entry(d) = [fetch |-> c.fetch, st |-> "answered", run |-> r.run]
      BY <2>1, <2>4, <3>7, EntryFields, EntryIs
    <3>9. Entries' = [Entries EXCEPT ![l].st = "answered", ![l].run = r.run]
      <4>1. Entries = [m \in Lanes |-> Entries[m]]
        BY DEF Entries
      <4>2. Entries[l] = [fetch |-> c.fetch, st |-> "waiting", run |-> 0]
        BY <1>2, <2>2
      <4>f. PICK f : f = Entries
        OBVIOUS
      <4>a. PICK a : a = c.fetch
        OBVIOUS
      <4>n. PICK run : run = r.run
        OBVIOUS
      <4>e. PICK e : e = Entry(d)
        OBVIOUS
      <4>3. f = [m \in Lanes |-> f[m]] /\ f[l] = [fetch |-> a, st |-> "waiting", run |-> 0]
        BY <4>1, <4>2, <4>f, <4>a
      <4>g. PICK g : g = [f EXCEPT ![l] = e]
        OBVIOUS
      <4>4. e = [fetch |-> a, st |-> "answered", run |-> run]
        BY <3>8, <4>a, <4>n, <4>e
      <4>5. g = [f EXCEPT ![l].st = "answered", ![l].run = run]
        <5>u. PICK u : u = [fetch |-> a, st |-> "answered", run |-> 0]
          OBVIOUS
        <5>h. PICK h : h = [f EXCEPT ![l].st = "answered"]
          OBVIOUS
        <5>1. [f[l] EXCEPT !.st = "answered"] = u /\ [u EXCEPT !.run = run] = e
          BY <4>3, <4>4, <5>u
        <5>2. h = [f EXCEPT ![l] = u]
          BY <5>1, <5>h
        <5>3. [h EXCEPT ![l].run = run] = g
          BY <4>3, <4>g, <5>1, <5>2
        <5> QED BY <5>3, <5>h
      <4> QED BY <1>2, <4>5, <4>f, <4>n, <4>e, <4>g
    <3>10. Entries[l].st = "waiting" /\ Entries[l].fetch = c.fetch
      BY <1>2, <2>2
    <3>11. \E q \in Answers : q.fetch = Entries[l].fetch
                              /\ Entries' = [Entries EXCEPT ![l].st = "answered", ![l].run = q.run]
      BY <3>7, <3>9, <3>10
    <3>12. Promise!Answer(l)
      BY <1>1, <2>1, <3>10, <3>11 DEF Promise!Answer, Entries, Entry, Answers, RunAnswer
    <3> QED BY <3>12 DEF Promise!Next
  <2> QED BY <1>6, <2>3, <2>4 DEF Finishes
<1> QED BY <1>d, <1>4, <1>5, <1>6 DEF LaneMove
-----------------------------------------------------------------------------
(* What the gateway queues and keeps of a request is of its run.           *)
LEMMA BurstRuns ==
  ASSUME NEW s, NEW sid, NEW id, NEW round, NEW syms, RanOn(sid, id, s.resp[id].run)
  PROVE  \A o \in Burst(s, sid, id, round, syms) : OfRun(o.pkt)
<1> SUFFICES ASSUME NEW o \in Burst(s, sid, id, round, syms) PROVE OfRun(o.pkt)
  OBVIOUS
<1>1. PICK i \in 1 .. Len(syms) :
        o = [sid |-> sid, id |-> id,
             pkt |-> [t |-> "DATA", sid |-> sid, ctr |-> s.ctr + i - 1, id |-> id, sym |-> syms[i],
                      round |-> round, pos |-> i - 1, len |-> Len(syms), run |-> s.resp[id].run]]
  BY DEF Burst
<1>2. /\ {"sid", "id", "run"} \subseteq DOMAIN o.pkt
      /\ o.pkt.sid = sid /\ o.pkt.id = id /\ o.pkt.run = s.resp[id].run
  BY <1>1
<1> QED BY <1>2 DEF OfRun

LEMMA NoticeRuns ==
  ASSUME NEW s, NEW sid, NEW id
  PROVE  OfRun(Notice(s, sid, id).pkt)
BY DEF Notice, OfRun

LEMMA HoldingOne ==
  ASSUME NEW rs, NEW sid, Holding(rs, sid), NEW id \in DOMAIN rs, NEW r, r.ready => RanOn(sid, id, r.run)
  PROVE  Holding([rs EXCEPT ![id] = r], sid)
BY DEF Holding

LEMMA HoldingFewer ==
  ASSUME NEW rs, NEW sid, Holding(rs, sid), NEW S, S \subseteq DOMAIN rs
  PROVE  Holding([i \in S |-> rs[i]], sid)
BY DEF Holding

LEMMA HeldOne ==
  ASSUME NEW ss, AllHeld(ss), NEW sid \in DOMAIN ss, NEW t, Holding(t.resp, sid),
         NEW tt, tt = [ss EXCEPT ![sid] = t]
  PROVE  AllHeld(tt)
BY DEF AllHeld

LEMMA KnownRuns ==
  ASSUME NEW ss, AllSessions(ss), AllHeld(ss), NEW q, \A o \in q : OfRun(o.pkt), NEW sid \in DOMAIN ss,
         NEW req, req.id \in DOMAIN ss[sid].resp, KnownRequest(ss, q, sid, req)
  PROVE  AllHeld(sessions') /\ \A o \in queue' : OfRun(o.pkt)
<1>s. PICK s : s = ss[sid]
  OBVIOUS
<1>r. PICK r : r = s.resp[req.id]
  OBVIOUS
<1>s1. PICK s1 : s1 = [s EXCEPT !.resp[req.id].rounds = @ \cup {req.round}]
  OBVIOUS
<1>t. PICK t : t = [s1 EXCEPT !.ctr = @ + 1]
  OBVIOUS
<1>u. PICK u : u = [s1 EXCEPT !.ctr = @ + req.want, !.resp[req.id].next = @ + req.want]
  OBVIOUS
<1>1. \/ sessions' = ss /\ queue' = q
      \/ sessions' = [ss EXCEPT ![sid] = t] /\ queue' = q \cup {Notice(s, sid, req.id)}
      \/ /\ sessions' = [ss EXCEPT ![sid] = u] /\ r.ready
         /\ queue' = q \cup Burst(s1, sid, req.id, req.round, MoreSymbols(r.next, req.want))
  BY <1>s, <1>r, <1>s1, <1>t, <1>u DEF KnownRequest
<1>2. IsSession(s) /\ IsResponses(s.resp) /\ IsResponse(r) /\ req.id \in DOMAIN s.resp /\ Holding(s.resp, sid)
  BY <1>s, <1>r DEF AllSessions, IsSession, IsResponses, AllHeld
<1>r1. PICK r1 : r1 = [r EXCEPT !.rounds = @ \cup {req.round}]
  OBVIOUS
<1>r2. PICK r2 : r2 = [r1 EXCEPT !.next = @ + req.want]
  OBVIOUS
<1>3. DOMAIN r1 = DOMAIN r /\ r1.run = r.run /\ r1.ready = r.ready
  BY <1>2, <1>r1 DEF IsResponse
<1>4. r2.run = r.run /\ r2.ready = r.ready
  BY <1>2, <1>3, <1>r2 DEF IsResponse
<1>5. s1.resp = [s.resp EXCEPT ![req.id] = r1] /\ DOMAIN s1 = DOMAIN s
  BY <1>2, <1>r, <1>r1, <1>s1 DEF IsSession
<1>6. t.resp = s1.resp
  BY <1>2, <1>5, <1>t DEF IsSession
<1>7. u.resp = [s.resp EXCEPT ![req.id] = r2]
  <2>1. s1.resp[req.id] = r1
    BY <1>2, <1>5
  <2>2. u.resp = [s1.resp EXCEPT ![req.id] = r2]
    BY <1>2, <1>5, <1>u, <1>r2, <2>1 DEF IsSession
  <2> QED BY <1>2, <1>5, <2>2
<1>8. r.ready => RanOn(sid, req.id, r.run)
  BY <1>2, <1>r DEF Holding
<1>9. Holding(t.resp, sid) /\ Holding(u.resp, sid)
  BY <1>2, <1>3, <1>4, <1>5, <1>6, <1>7, <1>8, HoldingOne
<1>10. CASE sessions' = ss /\ queue' = q
  BY <1>10
<1>11. CASE sessions' = [ss EXCEPT ![sid] = t] /\ queue' = q \cup {Notice(s, sid, req.id)}
  BY <1>9, <1>11, HeldOne, NoticeRuns
<1>12. CASE /\ sessions' = [ss EXCEPT ![sid] = u] /\ r.ready
            /\ queue' = q \cup Burst(s1, sid, req.id, req.round, MoreSymbols(r.next, req.want))
  <2>1. s1.resp[req.id].run = r.run
    BY <1>2, <1>3, <1>5
  <2>2. \A o \in Burst(s1, sid, req.id, req.round, MoreSymbols(r.next, req.want)) : OfRun(o.pkt)
    BY <1>8, <1>12, <2>1, BurstRuns
  <2> QED BY <1>9, <1>12, <2>2, HeldOne
<1> QED BY <1>1, <1>10, <1>11, <1>12

(* A run that the gateway begins of a request `id' on session `sid'.       *)
Begins(j, sid, id) ==
  /\ j.sid = sid /\ j.id = id /\ j.run = Cardinality(runs) + 1 /\ j.life = restarts
  /\ jobs' = jobs \cup {j} /\ runs' = runs \cup {j}

LEMMA NewRuns ==
  ASSUME NEW ss, AllSessions(ss), AllHeld(ss), NEW q, \A o \in q : OfRun(o.pkt), NEW sid \in DOMAIN ss,
         NEW req, NewRequest(ss, q, sid, req)
  PROVE  /\ AllHeld(sessions') /\ \A o \in queue' : OfRun(o.pkt)
         /\ \E j : Begins(j, sid, req.id)
<1>s. PICK s : s = ss[sid]
  OBVIOUS
<1>r. PICK r : r = [ready |-> FALSE, at |-> now, round |-> req.round, rounds |-> {req.round},
                    run |-> 0, next |-> 0]
  OBVIOUS
<1>t. PICK t : t = [s EXCEPT !.resp = Put(@, req.id, r)]
  OBVIOUS
<1>j. PICK j : j = [sid |-> sid, id |-> req.id, run |-> Cardinality(runs) + 1, life |-> restarts]
  OBVIOUS
<1>1. /\ sessions' = [ss EXCEPT ![sid] = t] /\ queue' = DropForDevice(q, ss, ss[sid].dev)
      /\ jobs' = jobs \cup {j} /\ runs' = runs \cup {j}
  BY <1>s, <1>r, <1>t, <1>j DEF NewRequest
<1>2. IsSession(s) /\ Holding(s.resp, sid)
  BY <1>s DEF AllSessions, AllHeld
<1>3. t.resp = Put(s.resp, req.id, r) /\ r.ready = FALSE
  BY <1>2, <1>t, <1>r DEF IsSession
<1>4. Holding(t.resp, sid)
  BY <1>2, <1>3 DEF Put, Holding
<1>5. queue' \subseteq q
  BY <1>1 DEF DropForDevice
<1>6. Begins(j, sid, req.id)
  BY <1>1, <1>j DEF Begins
<1> QED BY <1>1, <1>4, <1>5, <1>6, HeldOne

LEMMA OnRequestRuns ==
  ASSUME NEW ss, AllSessions(ss), AllHeld(ss), NEW q, \A o \in q : OfRun(o.pkt), NEW sid \in DOMAIN ss,
         NEW req, OnRequest(ss, q, sid, req)
  PROVE  /\ AllHeld(sessions') /\ \A o \in queue' : OfRun(o.pkt)
         /\ \/ UNCHANGED <<jobs, runs>>
            \/ req.body /\ ~Knows(ss[sid], req.id) /\ \E j : Begins(j, sid, req.id)
<1>1. CASE Knows(ss[sid], req.id) /\ KnownRequest(ss, q, sid, req) /\ UNCHANGED <<jobs, runs>>
  BY <1>1, KnownRuns DEF Knows
<1>2. CASE sessions' = ss /\ queue' = q /\ UNCHANGED <<jobs, runs>>
  BY <1>2
<1>3. CASE ~Knows(ss[sid], req.id) /\ req.body /\ NewRequest(ss, q, sid, req)
  BY <1>3, NewRuns
<1> QED BY <1>1, <1>2, <1>3 DEF OnRequest
-----------------------------------------------------------------------------
(* Steps of the gateway: no new run, or one more.                          *)
LEMMA QuietRuns ==
  ASSUME RunsInv, restarts \in Nat, UNCHANGED <<runs, asked, restarts>>, jobs' \subseteq jobs,
         1 .. sids \subseteq 1 .. sids', NoOldSession, AllHeld(sessions'),
         \A o \in queue' : OfRun(o.pkt), \A p \in down' : p \in down \/ OfAnswer(p)
  PROVE  RunsInv'
<1>1. RunsNumbered'
  BY SameRuns
<1>2. jobs' \subseteq runs'
  BY RunsStanding
<1> QED BY <1>1, <1>2, RunsStay

LEMMA OneMoreRun ==
  ASSUME RunsInv, restarts \in Nat, UNCHANGED <<asked, restarts>>,
         NEW j, NEW sid \in 1 .. sids', NEW id \in DOMAIN asked, Begins(j, sid, id),
         1 .. sids \subseteq 1 .. sids', NoOldSession, AllHeld(sessions'),
         \A o \in queue' : OfRun(o.pkt), \A p \in down' : p \in down \/ OfAnswer(p)
  PROVE  RunsInv'
<1>1. /\ IsFiniteSet(runs) /\ (\A k \in runs : IsRunning(k)) /\ \A k, m \in runs : k.run = m.run => k = m
  BY DEF RunsInv, RunsNumbered
<1>2. /\ j.sid = sid /\ j.id = id /\ j.run = Cardinality(runs) + 1 /\ j.life = restarts
      /\ runs' = runs \cup {j} /\ jobs' = jobs \cup {j}
  BY DEF Begins
<1>3. Cardinality(runs) \in Nat
  BY <1>1, FS_CardinalityType
<1>4. \A k \in runs : k.run \in 1 .. Cardinality(runs)
  BY <1>1 DEF IsRunning
<1>5. \A k \in runs : k.run /= j.run
  BY <1>2, <1>3, <1>4
<1>6. IsFiniteSet(runs') /\ Cardinality(runs') = Cardinality(runs) + 1
  BY <1>1, <1>2, <1>5, FS_AddElement
<1>7. \A k \in runs : IsRunning(k)'
  <2>1. 1 .. Cardinality(runs) \subseteq 1 .. Cardinality(runs')
    BY <1>3, <1>6
  <2> QED BY <1>1, <2>1 DEF IsRunning, NoOldSession
<1>8. IsRunning(j)'
  <2>1. Cardinality(runs) + 1 \in 1 .. Cardinality(runs')
    BY <1>3, <1>6
  <2>2. restarts \in 0 .. restarts
    OBVIOUS
  <2>3. j.id \in DOMAIN asked' /\ j.sid \in 1 .. sids' /\ j.life = restarts'
    BY <1>2
  <2>4. j.run \in 1 .. Cardinality(runs')
    BY <1>2, <2>1
  <2> QED BY <2>2, <2>3, <2>4 DEF IsRunning
<1>9. RunsNumbered'
  BY <1>1, <1>2, <1>5, <1>6, <1>7, <1>8 DEF RunsNumbered
<1>10. jobs' \subseteq runs' /\ runs \subseteq runs'
  BY <1>2, RunsStanding
<1> QED BY <1>9, <1>10, RunsStay

(* Which body made the gateway begin run j.                                *)
BegunBy(j, p) ==
  /\ p \in Bodies /\ Begins(j, j.sid, p.req.id)
  /\ \/ p.t = "HS1" /\ p.eph \notin DOMAIN handshakes /\ ~Stale(p) /\ j.sid = sids + 1
     \/ /\ p.t = "REQ" /\ j.sid = p.sid /\ p.sid \in DOMAIN sessions
        /\ p.req.id \notin DOMAIN sessions[p.sid].resp

GatewayRuns ==
  /\ RunsInv' /\ NoOldSession
  /\ runs' = runs \/ \E j, p : BegunBy(j, p)

LEMMA SameHeld ==
  ASSUME RunsInv, restarts \in Nat, UNCHANGED <<runs, asked, restarts, sids>>, jobs' \subseteq jobs,
         DOMAIN sessions' \subseteq DOMAIN sessions, AllHeld(sessions'),
         \A o \in queue' : OfRun(o.pkt), \A p \in down' : p \in down \/ OfAnswer(p)
  PROVE  GatewayRuns
<1>1. NoOldSession
  BY DEF NoOldSession
<1> QED BY <1>1, QuietRuns DEF GatewayRuns

LEMMA RepeatedRuns ==
  ASSUME Typed, RunsInv, restarts \in Nat, NEW p \in up, Repeated(p), UNCHANGED <<asked, restarts>>
  PROVE  GatewayRuns
<1>h. PICK h : h = handshakes[p.eph]
  OBVIOUS
<1>s. PICK s : s = sessions[h.sid]
  OBVIOUS
<1>t. PICK t : t = [s EXCEPT !.credit = @ + 3 * Size("HS1")]
  OBVIOUS
<1>1. /\ sessions' = IF h.sid \in DOMAIN sessions THEN [sessions EXCEPT ![h.sid] = t] ELSE sessions
      /\ UNCHANGED <<queue, jobs, runs, sids>>
  BY <1>h, <1>s, <1>t DEF Repeated
<1>2. \A m \in down' : m \in down \/ m = HelloReply(p.eph, h.sid, h.key, p.from)
  BY <1>h DEF Repeated, Send
<1>3. OfAnswer(HelloReply(p.eph, h.sid, h.key, p.from))
  BY DEF HelloReply, OfAnswer
<1>4. DOMAIN sessions' = DOMAIN sessions /\ AllHeld(sessions')
  <2>1. CASE h.sid \in DOMAIN sessions
    <3>1. IsSession(s) /\ Holding(s.resp, h.sid)
      BY <1>s, <2>1, Standing, RunsStanding DEF AllSessions, AllHeld
    <3>2. t.resp = s.resp
      BY <1>t, <3>1 DEF IsSession
    <3> QED BY <1>1, <2>1, <3>1, <3>2, RunsStanding, HeldOne
  <2>2. CASE h.sid \notin DOMAIN sessions
    BY <1>1, <2>2, RunsStanding
  <2> QED BY <2>1, <2>2
<1>5. \A o \in queue' : OfRun(o.pkt)
  BY <1>1, RunsStanding
<1>6. \A m \in down' : m \in down \/ OfAnswer(m)
  BY <1>2, <1>3
<1> QED BY <1>1, <1>4, <1>5, <1>6, SameHeld

LEMMA NotTakenRuns ==
  ASSUME Typed, RunsInv, restarts \in Nat, NEW p \in up, UNCHANGED <<asked, restarts>>,
         \/ p.t = "HS1" /\ (UnknownKey(p) \/ Refused(p))
         \/ p.t \in {"REQ", "DONE"} /\ UNCHANGED sids /\ (NoSuchSession(p) \/ Replayed(p))
  PROVE  GatewayRuns
<1>1. UNCHANGED <<queue, sessions, jobs, runs, sids>>
  BY DEF UnknownKey, Refused, NoSuchSession, Replayed, gateway
<1>2. \A m \in down' : m \in down \/ m = WrongKey(p.eph, p.from)
                       \/ (m \in Resets(p) /\ p.t \in {"REQ", "DONE"} /\ p.sid \notin DOMAIN sessions)
  BY DEF UnknownKey, Refused, NoSuchSession, Replayed, Send
<1>3. OfAnswer(WrongKey(p.eph, p.from))
  BY DEF WrongKey, OfAnswer
<1>4. ASSUME p.t \in {"REQ", "DONE"}, p.sid \notin DOMAIN sessions, NEW m \in Resets(p) PROVE OfAnswer(m)
  <2>1. p.sid \in 1 .. sids
    BY <1>4, PacketFacts DEF IsUp
  <2>2. m.t = "RESET" /\ m.sid = p.sid
    BY DEF Resets, ResetOf
  <2> QED BY <1>4, <2>1, <2>2 DEF OfAnswer
<1>5. \A m \in down' : m \in down \/ OfAnswer(m)
  BY <1>2, <1>3, <1>4
<1> QED BY <1>1, <1>5, RunsStanding, SameHeld

LEMMA DoneRuns ==
  ASSUME Typed, RunsInv, restarts \in Nat, NEW p \in up, OnDone(p), UNCHANGED <<asked, restarts, sids>>
  PROVE  GatewayRuns
<1>s. PICK s : s = Heard(p)
  OBVIOUS
<1>d. PICK d : d = [s EXCEPT !.resp = Without(@, p.id)]
  OBVIOUS
<1>1. /\ p.sid \in DOMAIN sessions /\ p.t \in {"REQ", "DONE"} /\ down' \subseteq down
      /\ sessions' = [sessions EXCEPT ![p.sid] = d] /\ queue' \subseteq queue
      /\ UNCHANGED <<jobs, runs>>
  BY <1>s, <1>d DEF OnDone, Send
<1>2. IsSession(s) /\ Holding(s.resp, p.sid)
  BY <1>1, <1>s, HeardTyped, RunsStanding DEF AllHeld
<1>3. d.resp = Without(s.resp, p.id)
  BY <1>2, <1>d DEF IsSession
<1>4. Holding(d.resp, p.sid)
  BY <1>2, <1>3, HoldingFewer DEF Without
<1>5. DOMAIN sessions' = DOMAIN sessions /\ AllHeld(sessions')
  BY <1>1, <1>4, RunsStanding, HeldOne
<1> QED BY <1>1, <1>5, RunsStanding, SameHeld

LEMMA FrameRuns ==
  ASSUME Typed, RunsInv, restarts \in Nat, NEW p \in up, OnFrame(p), UNCHANGED <<asked, restarts, sids>>
  PROVE  GatewayRuns
<1>s. PICK s : s = Heard(p)
  OBVIOUS
<1>v. PICK v : v = (s.validated \/ (p.req.echo /\ ~s.validated))
  OBVIOUS
<1>t. PICK t : t = [s EXCEPT !.validated = v]
  OBVIOUS
<1>tt. PICK tt : tt = [sessions EXCEPT ![p.sid] = t]
  OBVIOUS
<1>1. /\ p.sid \in DOMAIN sessions /\ p.t = "REQ" /\ down' \subseteq down
      /\ OnRequest(tt, queue, p.sid, p.req)
  BY <1>s, <1>v, <1>t, <1>tt DEF OnFrame, Send
<1>2. IsSession(s) /\ s.resp = sessions[p.sid].resp /\ Holding(s.resp, p.sid)
  BY <1>1, <1>s, HeardTyped, RunsStanding DEF AllHeld
<1>3. SameSession(s, t) /\ t.ctr = s.ctr /\ t.resp = s.resp
  BY <1>2, <1>t DEF IsSession, SameSession
<1>4. IsSession(t)
  BY <1>2, <1>3, SessionLike DEF IsSession
<1>5. DOMAIN tt = DOMAIN sessions /\ AllSessions(tt) /\ AllHeld(tt) /\ tt[p.sid].resp = sessions[p.sid].resp
  BY <1>1, <1>2, <1>3, <1>4, <1>tt, Standing, RunsStanding, OneSession, HeldOne
<1>6. IsReq(p.req)
  BY <1>1, PacketFacts
<1>7. DOMAIN sessions' = DOMAIN tt
  BY <1>1, <1>5, <1>6, Standing, OnRequestTyped
<1>8. /\ AllHeld(sessions') /\ \A o \in queue' : OfRun(o.pkt)
      /\ \/ UNCHANGED <<jobs, runs>>
         \/ p.req.body /\ ~Knows(tt[p.sid], p.req.id) /\ \E j : Begins(j, p.sid, p.req.id)
  BY <1>1, <1>5, RunsStanding, OnRequestRuns
<1>9. CASE UNCHANGED <<jobs, runs>>
  BY <1>1, <1>5, <1>7, <1>8, <1>9, SameHeld
<1>10. CASE p.req.body /\ ~Knows(tt[p.sid], p.req.id) /\ \E j : Begins(j, p.sid, p.req.id)
  <2>1. PICK j : Begins(j, p.sid, p.req.id)
    BY <1>10
  <2>2. NoOldSession
    BY <1>5, <1>7 DEF NoOldSession
  <2>3. p.sid \in 1 .. sids' /\ p.req.id \in DOMAIN asked
    BY <1>1, <1>6, Standing DEF IsReq
  <2>4. RunsInv'
    BY <1>1, <1>8, <2>1, <2>2, <2>3, OneMoreRun
  <2>5. p \in Bodies /\ j.sid = p.sid
    BY <1>1, <1>10, <2>1 DEF Bodies, Begins
  <2>6. BegunBy(j, p)
    BY <1>1, <1>5, <1>10, <2>1, <2>5 DEF BegunBy, Knows
  <2> QED BY <2>2, <2>4, <2>6 DEF GatewayRuns
<1> QED BY <1>8, <1>9, <1>10

LEMMA AcceptedRuns ==
  ASSUME Typed, RunsInv, restarts \in Nat, NEW p \in up, p.t = "HS1", Accepted(p), UNCHANGED <<asked, restarts>>
  PROVE  GatewayRuns
<1>id. PICK sid : sid = sids + 1
  OBVIOUS
<1>s. PICK s : s =
        [dev |-> p.dev, window |-> NewWindow, ctr |-> 0, peer |-> p.from,
         validated |-> knownIp[p.dev] = p.from.ip,
         credit |-> 3 * Size("HS1") - Size("HS2"), heard |-> now, resp |-> EmptyMap]
  OBVIOUS
<1>1. /\ sids' = sid /\ \E ss \in Evicted(sessions) : OnRequest(Put(ss, sid, s), queue, sid, p.req)
      /\ p.eph \notin DOMAIN handshakes /\ ~Stale(p)
  BY <1>id, <1>s DEF Accepted
<1>2. PICK ss \in Evicted(sessions) : OnRequest(Put(ss, sid, s), queue, sid, p.req)
  BY <1>1
<1>3. \A m \in down' : m \in down \/ m = HelloReply(p.eph, sid, p.key, p.from)
  BY <1>id DEF Accepted, Send
<1>4. sids \in Nat /\ sid \notin 1 .. sids /\ sid \in 1 .. sids' /\ 1 .. sids \subseteq 1 .. sids'
  BY <1>id, <1>1 DEF Typed, Numbers
<1>5. IsSession(s) /\ s.resp = EmptyMap
  <2>1. IsSession(s)
    BY <1>s, NewSessionTyped
  <2> QED BY <1>s, <2>1
<1>6. DOMAIN ss \subseteq DOMAIN sessions /\ AllSessions(ss)
  BY RoomMade
<1>7. AllHeld(ss)
  <2>1. \A x \in DOMAIN ss : ss[x] = sessions[x]
    BY DEF Evicted, Without
  <2> QED BY <1>6, <2>1, RunsStanding DEF AllHeld
<1>tt. PICK tt : tt = Put(ss, sid, s)
  OBVIOUS
<1>8. DOMAIN tt = DOMAIN ss \cup {sid} /\ AllSessions(tt)
  BY <1>5, <1>6, <1>tt DEF Put, AllSessions
<1>9. AllHeld(tt)
  <2>1. Holding(s.resp, sid)
    BY <1>5 DEF Holding, EmptyMap
  <2> QED BY <1>7, <1>tt, <2>1 DEF Put, AllHeld
<1>10. IsReq(p.req)
  BY PacketFacts
<1>11. DOMAIN sessions' = DOMAIN tt
  BY <1>2, <1>8, <1>10, <1>tt, Standing, OnRequestTyped
<1>12. /\ AllHeld(sessions') /\ \A o \in queue' : OfRun(o.pkt)
       /\ \/ UNCHANGED <<jobs, runs>>
          \/ p.req.body /\ \E j : Begins(j, sid, p.req.id)
  BY <1>2, <1>8, <1>9, <1>tt, RunsStanding, OnRequestRuns
<1>13. \A m \in down' : m \in down \/ OfAnswer(m)
  <2>1. OfAnswer(HelloReply(p.eph, sid, p.key, p.from))
    BY DEF HelloReply, OfAnswer
  <2> QED BY <1>3, <2>1
<1>14. NoOldSession
  BY <1>4, <1>6, <1>8, <1>11 DEF NoOldSession
<1>15. CASE UNCHANGED <<jobs, runs>>
  BY <1>4, <1>12, <1>13, <1>14, <1>15, QuietRuns DEF GatewayRuns
<1>16. CASE p.req.body /\ \E j : Begins(j, sid, p.req.id)
  <2>1. PICK j : Begins(j, sid, p.req.id)
    BY <1>16
  <2>2. RunsInv'
    BY <1>4, <1>10, <1>12, <1>13, <1>14, <2>1, OneMoreRun DEF IsReq
  <2>3. p \in Bodies /\ j.sid = sid
    BY <1>16, <2>1 DEF Bodies, Begins
  <2>4. BegunBy(j, p)
    BY <1>1, <1>id, <2>1, <2>3 DEF BegunBy
  <2> QED BY <1>14, <2>2, <2>4 DEF GatewayRuns
<1> QED BY <1>12, <1>15, <1>16

LEMMA UplinkRuns ==
  ASSUME Typed, RunsInv, restarts \in Nat, Uplink
  PROVE  GatewayRuns
<1>1. PICK p \in up : Receive(p)
  BY DEF Uplink
<1>2. UNCHANGED <<asked, restarts>>
  BY <1>1 DEF Uplink, Receive, cvars
<1>3. CASE p.t = "HS1" /\ OnHello(p)
  BY <1>2, <1>3, RepeatedRuns, NotTakenRuns, AcceptedRuns DEF OnHello
<1>4. CASE /\ p.t \in {"REQ", "DONE"}
           /\ NoSuchSession(p) \/ Replayed(p) \/ OnDone(p) \/ OnFrame(p)
           /\ UNCHANGED sids
  BY <1>2, <1>4, NotTakenRuns, DoneRuns, FrameRuns
<1> QED BY <1>1, <1>3, <1>4 DEF Receive
-----------------------------------------------------------------------------
(* The gateway's own steps begin no run.                                   *)
LEMMA RespondRuns ==
  ASSUME Typed, RunsInv, restarts \in Nat, NEW job \in jobs, Respond(job), UNCHANGED asked
  PROVE  GatewayRuns /\ runs' = runs
<1>s. PICK s : s = sessions[job.sid]
  OBVIOUS
<1>r. PICK r : r = s.resp[job.id]
  OBVIOUS
<1>d. PICK d : d = [s EXCEPT !.resp = Without(@, job.id)]
  OBVIOUS
<1>0. UNCHANGED <<runs, sids, restarts, down>> /\ jobs' \subseteq jobs
  BY DEF Respond, net
<1>1. \/ /\ job.sid \in DOMAIN sessions /\ job.id \in OpenRequests(s)
         /\ \E spare \in 0 .. MaxSpare :
              LET ready == [r EXCEPT !.ready = TRUE, !.at = now, !.run = job.run, !.next = spare]
                  s1 == [s EXCEPT !.resp[job.id] = ready]
              IN /\ sessions' = [sessions EXCEPT ![job.sid] = [s1 EXCEPT !.ctr = @ + K + spare]]
                 /\ queue' = queue \cup Burst(s1, job.sid, job.id, r.round, FirstBurst(spare))
      \/ /\ job.sid \in DOMAIN sessions
         /\ sessions' = [sessions EXCEPT ![job.sid] = d] /\ UNCHANGED queue
      \/ UNCHANGED <<sessions, queue>>
  BY <1>s, <1>r, <1>d DEF Respond
<1>2. ASSUME job.sid \in DOMAIN sessions
      PROVE  IsSession(s) /\ IsResponses(s.resp) /\ Holding(s.resp, job.sid)
  BY <1>2, <1>s, Standing, RunsStanding DEF AllSessions, IsSession, AllHeld
<1>3. CASE UNCHANGED <<sessions, queue>>
  BY <1>0, <1>3, RunsStanding, SameHeld
<1>4. CASE /\ job.sid \in DOMAIN sessions
           /\ sessions' = [sessions EXCEPT ![job.sid] = d] /\ UNCHANGED queue
  <2>1. d.resp = Without(s.resp, job.id)
    BY <1>2, <1>4, <1>d DEF IsSession
  <2>2. Holding(d.resp, job.sid)
    BY <1>2, <1>4, <2>1, HoldingFewer DEF Without
  <2>3. DOMAIN sessions' = DOMAIN sessions /\ AllHeld(sessions')
    BY <1>4, <2>2, RunsStanding, HeldOne
  <2> QED BY <1>0, <1>4, <2>3, RunsStanding, SameHeld
<1>5. ASSUME job.sid \in DOMAIN sessions, job.id \in OpenRequests(s), NEW spare,
             NEW ready, ready = [r EXCEPT !.ready = TRUE, !.at = now, !.run = job.run, !.next = spare],
             NEW s1, s1 = [s EXCEPT !.resp[job.id] = ready],
             sessions' = [sessions EXCEPT ![job.sid] = [s1 EXCEPT !.ctr = @ + K + spare]],
             queue' = queue \cup Burst(s1, job.sid, job.id, r.round, FirstBurst(spare))
      PROVE  GatewayRuns
  <2>t. PICK t : t = [s1 EXCEPT !.ctr = @ + K + spare]
    OBVIOUS
  <2>1. /\ job.sid \in DOMAIN sessions /\ job.id \in DOMAIN s.resp /\ IsResponse(r) /\ IsSession(s)
        /\ Holding(s.resp, job.sid)
    BY <1>2, <1>5, <1>r DEF OpenRequests, IsResponses
  <2>2. ready.run = job.run
    BY <1>5, <2>1 DEF IsResponse
  <2>3. RanOn(job.sid, job.id, ready.run)
    BY <2>2, RunsStanding DEF RanOn
  <2>4. DOMAIN s1 = DOMAIN s /\ s1.resp = [s.resp EXCEPT ![job.id] = ready]
    BY <1>5, <2>1 DEF IsSession
  <2>5. t.resp = s1.resp
    BY <2>1, <2>4, <2>t DEF IsSession
  <2>6. Holding(t.resp, job.sid)
    BY <2>1, <2>3, <2>4, <2>5, HoldingOne
  <2>7. sessions' = [sessions EXCEPT ![job.sid] = t]
    BY <1>5, <2>t
  <2>8. DOMAIN sessions' = DOMAIN sessions /\ AllHeld(sessions')
    BY <2>1, <2>6, <2>7, RunsStanding, HeldOne
  <2>9. s1.resp[job.id].run = ready.run
    BY <2>1, <2>4
  <2>10. \A o \in Burst(s1, job.sid, job.id, r.round, FirstBurst(spare)) : OfRun(o.pkt)
    BY <2>3, <2>9, BurstRuns
  <2>11. \A o \in queue' : OfRun(o.pkt)
    BY <1>5, <2>10, RunsStanding
  <2> QED BY <1>0, <2>8, <2>11, SameHeld
<1> QED BY <1>0, <1>1, <1>3, <1>4, <1>5

LEMMA SendWorkingRuns ==
  ASSUME Typed, RunsInv, restarts \in Nat, NEW w, SendWorking(w), UNCHANGED asked
  PROVE  GatewayRuns /\ runs' = runs
<1>s. PICK s : s = sessions[w.sid]
  OBVIOUS
<1>t. PICK t : t = [s EXCEPT !.ctr = @ + 1]
  OBVIOUS
<1>0. UNCHANGED <<runs, jobs, sids, restarts, down>>
  BY DEF SendWorking, net
<1>1. \/ UNCHANGED <<queue, sessions>>
      \/ /\ w.sid \in DOMAIN sessions
         /\ queue' = queue \cup {Notice(sessions[w.sid], w.sid, w.id)}
         /\ sessions' = [sessions EXCEPT ![w.sid] = t]
  BY <1>s, <1>t DEF SendWorking
<1>2. CASE UNCHANGED <<queue, sessions>>
  BY <1>0, <1>2, RunsStanding, SameHeld
<1>3. CASE /\ w.sid \in DOMAIN sessions
           /\ queue' = queue \cup {Notice(sessions[w.sid], w.sid, w.id)}
           /\ sessions' = [sessions EXCEPT ![w.sid] = t]
  <2>1. IsSession(s) /\ Holding(s.resp, w.sid)
    BY <1>3, <1>s, Standing, RunsStanding DEF AllSessions, AllHeld
  <2>2. t.resp = s.resp
    BY <2>1, <1>t DEF IsSession
  <2>3. DOMAIN sessions' = DOMAIN sessions /\ AllHeld(sessions')
    BY <1>3, <2>1, <2>2, RunsStanding, HeldOne
  <2>4. \A o \in queue' : OfRun(o.pkt)
    BY <1>3, NoticeRuns, RunsStanding
  <2> QED BY <1>0, <2>3, <2>4, SameHeld
<1> QED BY <1>0, <1>1, <1>2, <1>3

LEMMA PollSendRuns ==
  ASSUME Typed, RunsInv, restarts \in Nat, NEW o \in queue, PollSend(o), UNCHANGED asked
  PROVE  GatewayRuns /\ runs' = runs
<1>s. PICK s : s = sessions[o.sid]
  OBVIOUS
<1>t. PICK t : t = [s EXCEPT !.credit = @ - Size(o.pkt.t)]
  OBVIOUS
<1>m. PICK m : m = Put(o.pkt, "to", s.peer)
  OBVIOUS
<1>0. UNCHANGED <<runs, jobs, sids, restarts>> /\ queue' \subseteq queue
  BY DEF PollSend
<1>1. /\ o.sid \in DOMAIN sessions
      /\ sessions' = IF s.validated THEN sessions ELSE [sessions EXCEPT ![o.sid] = t]
      /\ \A p \in down' : p \in down \/ p = m
  BY <1>s, <1>t, <1>m DEF PollSend, Lapsed, Send
<1>2. IsSession(s) /\ Holding(s.resp, o.sid) /\ IsQueued(o) /\ OfRun(o.pkt)
  BY <1>1, <1>s, Standing, RunsStanding DEF AllSessions, AllHeld
<1>3. OfAnswer(m)
  <2>1. m.t = o.pkt.t /\ m.t \in {"DATA", "WORKING"}
    BY <1>2, <1>m DEF Put, IsQueued
  <2>2. ASSUME m.t = "DATA" PROVE RanOn(m.sid, m.id, m.run)
    <3>1. {"sid", "id", "run"} \subseteq DOMAIN o.pkt /\ RanOn(o.pkt.sid, o.pkt.id, o.pkt.run)
      BY <1>2, <2>1, <2>2 DEF OfRun
    <3>2. m.sid = o.pkt.sid /\ m.id = o.pkt.id /\ m.run = o.pkt.run
      BY <1>m, <3>1 DEF Put
    <3> QED BY <3>1, <3>2
  <2> QED BY <2>1, <2>2 DEF OfAnswer
<1>4. DOMAIN sessions' = DOMAIN sessions /\ AllHeld(sessions')
  <2>1. CASE s.validated
    BY <1>1, <2>1, RunsStanding
  <2>2. CASE ~s.validated
    <3>1. t.resp = s.resp
      BY <1>2, <1>t DEF IsSession
    <3> QED BY <1>1, <1>2, <2>2, <3>1, RunsStanding, HeldOne
  <2> QED BY <2>1, <2>2
<1> QED BY <1>0, <1>1, <1>3, <1>4, RunsStanding, SameHeld

LEMMA SweepRuns ==
  ASSUME Typed, RunsInv, restarts \in Nat, Sweep, UNCHANGED asked
  PROVE  GatewayRuns /\ runs' = runs
<1> DEFINE live == {x \in DOMAIN sessions : now - sessions[x].heard < SessionIdle}
<1>1. /\ sessions' = [x \in live |-> Swept(sessions[x])]
      /\ UNCHANGED <<runs, jobs, sids, restarts, queue, down>>
  BY DEF Sweep, net
<1>2. live \subseteq DOMAIN sessions
  OBVIOUS
<1> HIDE DEF live
<1>3. DOMAIN sessions' = live /\ \A x \in live : sessions'[x] = Swept(sessions[x])
  BY <1>1
<1>4. AllHeld(sessions')
  <2> SUFFICES ASSUME NEW x \in live PROVE Holding(sessions'[x].resp, x)
    BY <1>3 DEF AllHeld
  <2>s. PICK s : s = sessions[x]
    OBVIOUS
  <2>t. PICK t : t = Swept(s)
    OBVIOUS
  <2>1. IsSession(s) /\ Holding(s.resp, x)
    BY <1>2, <2>s, Standing, RunsStanding DEF AllSessions, AllHeld
  <2>2. t.resp = [id \in {id \in DOMAIN s.resp : now - s.resp[id].at <
                             (IF s.resp[id].ready THEN ResponseKeep ELSE PendingKeep)} |-> s.resp[id]]
    BY <2>1, <2>t DEF IsSession, Swept
  <2>3. Holding(t.resp, x)
    BY <2>1, <2>2, HoldingFewer
  <2> QED BY <1>3, <2>3, <2>s, <2>t
<1> QED BY <1>1, <1>2, <1>3, <1>4, RunsStanding, SameHeld

LEMMA RestartRuns ==
  ASSUME RunsInv, restarts \in Nat, Restart, UNCHANGED asked
  PROVE  GatewayRuns /\ runs' = runs
<1>1. /\ DOMAIN sessions' = {} /\ queue' = {} /\ jobs' = {} /\ UNCHANGED <<runs, sids, down>>
      /\ restarts' = restarts + 1
  BY DEF Restart, net, EmptyMap
<1>2. NoOldSession /\ AllHeld(sessions')
  BY <1>1 DEF NoOldSession, AllHeld
<1>3. RunsNumbered'
  BY <1>1, <1>2, SameRuns
<1> QED BY <1>1, <1>2, <1>3, RunsStay DEF GatewayRuns

LEMMA OtherRuns ==
  ASSUME RunsInv, restarts \in Nat, UNCHANGED asked,
         SetKeys \/ TimePasses \/ (\E job \in jobs : Refuse(job)) \/ (\E o \in queue : PollDrop(o))
  PROVE  GatewayRuns /\ runs' = runs
<1>1. UNCHANGED <<sessions, runs, sids, restarts, down>> /\ queue' \subseteq queue /\ jobs' \subseteq jobs
  BY DEF SetKeys, TimePasses, Tick, Refuse, PollDrop, net, gateway
<1> QED BY <1>1, RunsStanding, SameHeld

LEMMA OwnRuns ==
  ASSUME Typed, RunsInv, restarts \in Nat, Gateway
  PROVE  GatewayRuns /\ runs' = runs
<1>1. UNCHANGED asked
  BY DEF Gateway, cvars
<1> QED BY <1>1, RespondRuns, SendWorkingRuns, PollSendRuns, SweepRuns, RestartRuns, OtherRuns
        DEF Gateway, Poll, Answer
-----------------------------------------------------------------------------
(* What a step of the gateway leaves of what the lanes wait for.           *)
LEMMA StaysSettled ==
  ASSUME Typed, RunsInv, NoOldSession, Bodies' \subseteq Bodies, NEW i, Settled(i),
         \A j \in runs' : j \in runs \/ j.id /= i
  PROVE  Settled(i)'
<1>1. \A p \in Bodies : p.t = "REQ" => p.sid \in 1 .. sids
  BY PacketFacts DEF Bodies, IsUp
<1>2. \A j \in runs : j.sid \in 1 .. sids
  BY DEF RunsInv, RunsNumbered, IsRunning
<1> QED BY <1>1, <1>2 DEF Settled, NoOldSession

LEMMA QuietWaits ==
  ASSUME Typed, RunsInv, WaitInv, NoOldSession, UNCHANGED <<cvars, runs>>, Bodies' \subseteq Bodies
  PROVE  WaitInv'
<1>1. UNCHANGED <<client, asked, fetches>>
  BY DEF cvars
<1>2. \A i : Settled(i) => Settled(i)'
  BY StaysSettled
<1>3. ASSUME NEW l \in Lanes, NEW c, c = client[l], Waits(c) PROVE WaitsWell(c)'
  <2>1. WaitsWell(c)
    BY <1>3 DEF WaitInv, LanesWait
  <2>2. InHandshake(c) => InHandshake(c)'
    BY <1>1 DEF InHandshake
  <2>3. InExchange(c) => InExchange(c)'
    BY <1>1 DEF InExchange, RanOn
  <2>4. RunOnceEach(c.id)' /\ FormerSettled(c)'
    BY <1>1, <1>2, <2>1 DEF WaitsWell, RunOnceEach, FormerSettled
  <2> QED BY <1>1, <2>1, <2>2, <2>3, <2>4 DEF WaitsWell
<1>4. LanesWait'
  BY <1>1, <1>3 DEF LanesWait, Waits
<1> QED BY <1>1, <1>4 DEF WaitInv, OneLaneEach, FetchesDrawn, Waits

(* A run that begins is of no request that is settled; and if somebody     *)
(* waits for its fetch, it is of the request that is waited for, and the   *)
(* first of that fetch in this life of the gateway.                        *)
LEMMA NotSettled ==
  ASSUME NEW j, NEW p, BegunBy(j, p)
  PROVE  ~Settled(p.req.id)
BY DEF BegunBy, Settled

LEMMA OfTheLatest ==
  ASSUME NEW j, NEW p, BegunBy(j, p), NEW c, WaitsWell(c), p.req.id \in DOMAIN asked,
         asked[p.req.id].fetch = c.fetch
  PROVE  p.req.id = c.id
BY NotSettled DEF WaitsWell, FormerSettled

(* What a fetch that waits had run in this life of the gateway is there.   *)
NoneForgotten ==
  \A l \in Lanes, j \in runs :
    Active(l) /\ asked[j.id].fetch = client[l].fetch /\ j.life = restarts =>
      j.sid \in DOMAIN sessions /\ j.id \in DOMAIN sessions[j.sid].resp

LEMMA FirstOfLife ==
  ASSUME KnownInv, NoneForgotten, NEW j, NEW p, BegunBy(j, p),
         NEW l \in Lanes, Waits(client[l]), asked[p.req.id].fetch = client[l].fetch,
         NEW k \in runs, asked[k.id].fetch = client[l].fetch
  PROVE  k.life /= restarts
<1> SUFFICES ASSUME k.life = restarts PROVE FALSE
  OBVIOUS
<1>c. PICK c : c = client[l]
  OBVIOUS
<1>1. WaitsWell(c) /\ p.req.id \in DOMAIN asked /\ k.id \in DOMAIN asked
  <2>1. k.id \in DOMAIN asked
    BY DEF KnownInv, RunsInv, RunsNumbered, IsRunning
  <2>2. p \in up /\ p.t \in {"HS1", "REQ"}
    BY DEF BegunBy, Bodies
  <2>3. p.req.id \in DOMAIN asked
    BY <2>2, PacketFacts DEF KnownInv, IsReq
  <2> QED BY <1>c, <2>1, <2>3, LaneShape
<1>2. p.req.id = c.id
  BY <1>1, <1>c, OfTheLatest
<1>3. k.sid \in DOMAIN sessions /\ k.id \in DOMAIN sessions[k.sid].resp
  BY DEF NoneForgotten, Active, Waits
<1>4. k.id = c.id
  BY <1>1, <1>3, <1>c DEF WaitsWell, FormerSettled, Settled
<1>5. CASE p.t = "HS1" /\ p.eph \notin DOMAIN handshakes /\ ~Stale(p)
  <2>m. PICK m : m = OfPacket(p)
    OBVIOUS
  <2>1. m \in Ones /\ m.eph = p.eph /\ m.id = p.req.id /\ m.at = p.ts.at
    BY <1>5, <2>m DEF BegunBy, Bodies, Ones, OfPacket
  <2>2. OneOfHello(m) /\ now \in Nat
    BY <2>1 DEF KnownInv, HelloInv, OnesDrawn, Typing, Counts
  <2>3. now > m.at + Fresh
    BY <1>2, <1>4, <1>5, <2>1 DEF KnownInv, HelloInv, Remembers
  <2>4. ~(now > m.at + Fresh)
    BY <1>5, <2>1, <2>2, FreshAssumption DEF Stale, Apart, OneOfHello
  <2> QED BY <2>3, <2>4
<1>6. CASE p.t = "REQ" /\ p.sid \in DOMAIN sessions /\ p.req.id \notin DOMAIN sessions[p.sid].resp
  <2>1. ~asked[c.id].hello
    BY <1>2, <1>6 DEF KnownInv, HelloInv, BodiesDrawn, BegunBy, Bodies
  <2>2. c.pc = "exchange" /\ InExchange(c)
    BY <1>1, <1>c, <2>1 DEF Waits, WaitsWell, InHandshake
  <2>3. p.sid = c.sid /\ k.sid = c.sid
    BY <1>2, <1>4, <2>1, <2>2 DEF InExchange, BegunBy
  <2> QED BY <1>2, <1>3, <1>4, <1>6, <2>3
<1> QED BY <1>5, <1>6 DEF BegunBy

LEMMA NewRunWaits ==
  ASSUME KnownInv, NoneForgotten, NEW j, NEW p, BegunBy(j, p), UNCHANGED cvars, Bodies' \subseteq Bodies,
         NoOldSession
  PROVE  WaitInv'
<1>1. UNCHANGED <<client, asked, fetches>> /\ WaitInv /\ RunsInv /\ Typed
  BY DEF cvars, KnownInv
<1>2. /\ runs' = runs \cup {j} /\ j.id = p.req.id /\ p \in Bodies /\ j.life = restarts
      /\ \/ p.t = "HS1" /\ j.sid = sids + 1
         \/ p.t = "REQ" /\ j.sid = p.sid /\ p.sid \in DOMAIN sessions
  BY DEF BegunBy, Begins
<1>3. \A i : Settled(i) => Settled(i)'
  <2> SUFFICES ASSUME NEW i, Settled(i) PROVE Settled(i)'
    OBVIOUS
  <2>1. j.id /= i
    BY <1>2, NotSettled
  <2> QED BY <1>1, <1>2, <2>1, StaysSettled
<1>4. \A k \in runs : k.sid \in 1 .. sids /\ (k.sid \in DOMAIN sessions => k.life = restarts)
  BY <1>1 DEF RunsInv, RunsNumbered, IsRunning
<1>5. sids \in Nat
  BY <1>1 DEF Typed, Numbers
<1>6. ASSUME NEW l \in Lanes, NEW c, c = client[l], Waits(c) PROVE WaitsWell(c)'
  <2>1. WaitsWell(c)
    BY <1>1, <1>6 DEF WaitInv, LanesWait
  <2>2. InHandshake(c) => InHandshake(c)'
    BY <1>1, <1>2 DEF InHandshake
  <2>3. InExchange(c) => InExchange(c)'
    <3>1. \A run : RanOn(c.sid, c.id, run) => RanOn(c.sid, c.id, run)'
      BY <1>2 DEF RanOn
    <3> QED BY <1>1, <1>2, <3>1 DEF InExchange, RanOn
  <2>4. RunOnceEach(c.id)'
    <3>1. \A k \in runs : k.id = c.id /\ j.id = c.id => k.sid /= j.sid
      <4> SUFFICES ASSUME NEW k \in runs, k.id = c.id, j.id = c.id, k.sid = j.sid PROVE FALSE
        OBVIOUS
      <4>1. p.t = "REQ" /\ k.sid \in DOMAIN sessions
        BY <1>2, <1>4, <1>5
      <4>2. k.life = restarts
        BY <1>4, <4>1
      <4>3. asked[k.id].fetch = c.fetch /\ asked[p.req.id].fetch = c.fetch
        BY <1>2, <2>1 DEF WaitsWell
      <4> QED BY <1>6, <4>2, <4>3, FirstOfLife
    <3> QED BY <1>2, <2>1, <3>1 DEF WaitsWell, RunOnceEach
  <2>5. FormerSettled(c)'
    BY <1>1, <1>3, <2>1 DEF WaitsWell, FormerSettled
  <2> QED BY <1>1, <2>1, <2>2, <2>3, <2>4, <2>5 DEF WaitsWell
<1>7. LanesWait'
  BY <1>1, <1>6 DEF LanesWait, Waits
<1> QED BY <1>1, <1>7 DEF WaitInv, OneLaneEach, FetchesDrawn, Waits
-----------------------------------------------------------------------------
(* What a step of the gateway is in FetchPromise.                          *)
LEMMA AnswersCounted ==
  ASSUME RunsNumbered
  PROVE  IsFiniteSet(Answers) /\ Cardinality(Answers) = Cardinality(runs)
<1>f. PICK f : f = [j \in runs |-> RunAnswer(j)]
  OBVIOUS
<1>1. \A j, k \in runs : f[j] = f[k] => j = k
  <2> SUFFICES ASSUME NEW j \in runs, NEW k \in runs, f[j] = f[k] PROVE j = k
    OBVIOUS
  <2>1. f[j].run = j.run /\ f[k].run = k.run
    BY <1>f DEF RunAnswer
  <2> QED BY <2>1 DEF RunsNumbered
<1>2. f \in [runs -> Answers] /\ \A a \in Answers : \E j \in runs : f[j] = a
  BY <1>f DEF Answers
<1>3. f \in Bijection(runs, Answers)
  BY <1>1, <1>2 DEF Bijection, Injection, Surjection, IsInjective
<1>4. ExistsBijection(runs, Answers) /\ IsFiniteSet(runs)
  BY <1>3 DEF ExistsBijection, RunsNumbered
<1> QED BY <1>4, FS_Bijection

(* Both modules count with the same operator of FiniteSets.                *)
LEMMA SameCount ==
  ASSUME NEW S
  PROVE  Promise!Cardinality(S) = Cardinality(S)
BY DEF Promise!Cardinality, Cardinality

LEMMA QuietMaps ==
  ASSUME RunsInv, UNCHANGED <<cvars, runs, restarts>>
  PROVE  UNCHANGED Promise!vars
<1>1. UNCHANGED <<client, fetches, asked, restarts>>
  BY DEF cvars
<1>2. Entries' = Entries
  BY <1>1, SameEntries
<1>3. Answers' = Answers
  BY <1>1, SameAnswers
<1> QED BY <1>1, <1>2, <1>3, MapsTo

LEMMA RestartMaps ==
  ASSUME RunsInv, Restart, UNCHANGED cvars
  PROVE  Promise!Restart
<1>1. UNCHANGED <<client, fetches, asked, runs>> /\ restarts' = restarts + 1
  BY DEF cvars, Restart
<1>2. Entries' = Entries
  BY <1>1, SameEntries
<1>3. Answers' = Answers
  BY <1>1, SameAnswers
<1> QED BY <1>1, <1>2, <1>3 DEF Promise!Restart, Entries, Entry, Answers, RunAnswer

LEMMA RunMaps ==
  ASSUME KnownInv, NoneForgotten, NEW j, NEW p, BegunBy(j, p), UNCHANGED <<cvars, restarts>>
  PROVE  Promise!Next
<1>f. PICK f : f = asked[p.req.id].fetch
  OBVIOUS
<1>0. RunsInv /\ UNCHANGED <<client, fetches, asked, restarts>>
  BY DEF KnownInv, cvars
<1>1. /\ runs' = runs \cup {j} /\ j.id = p.req.id /\ j.life = restarts
      /\ j.run = Cardinality(runs) + 1
  BY DEF BegunBy, Begins
<1>2. f \in 1 .. fetches
  <2>1. p \in up /\ p.t \in {"HS1", "REQ"}
    BY DEF BegunBy, Bodies
  <2>2. p.req.id \in DOMAIN asked
    BY <2>1, PacketFacts DEF KnownInv, IsReq
  <2> QED BY <1>f, <2>2 DEF KnownInv, WaitInv, FetchesDrawn
<1>3. Entries' = Entries
  BY <1>0, SameEntries
<1>a. PICK a : a = [fetch |-> f, run |-> Cardinality(Answers) + 1, life |-> restarts]
  OBVIOUS
<1>4. Answers' = Answers \cup {a}
  <2>1. \A k \in runs : RunAnswer(k)' = RunAnswer(k)
    BY <1>0 DEF RunAnswer
  <2>2. Cardinality(Answers) = Cardinality(runs)
    BY <1>0, AnswersCounted DEF RunsInv
  <2>3. RunAnswer(j)' = a
    BY <1>0, <1>1, <1>f, <1>a, <2>2 DEF RunAnswer
  <2> QED BY <1>1, <2>1, <2>3 DEF Answers
<1>5. ASSUME NEW l \in Lanes, Entries[l].fetch = f, Entries[l].st = "waiting", NEW r \in Answers, r.fetch = f
      PROVE  r.life /= restarts
  <2>1. client[l].pc \in {"idle", "handshake", "exchange", "done", "failed"} /\ Entries[l] = Entry(client[l])
    BY DEF KnownInv, Typed, LanesTyped, IsFetch, Entries
  <2>2. Waits(client[l]) /\ client[l].fetch = f
    BY <1>5, <2>1, EntryFields DEF Waits
  <2>3. PICK k \in runs : r = RunAnswer(k)
    BY DEF Answers
  <2>4. r.fetch = asked[k.id].fetch /\ r.life = k.life
    BY <2>3 DEF RunAnswer
  <2> QED BY <1>5, <1>f, <2>2, <2>4, FirstOfLife
<1>6. (\E l \in Lanes : Entries[l].fetch = f /\ Entries[l].st = "waiting")
        => \A r \in Answers : r.fetch = f => r.life /= restarts
  BY <1>5
<1>7. Promise!Run(f)
  BY <1>0, <1>3, <1>4, <1>6, <1>a, SameCount
     DEF Promise!Run, Promise!WaitedFor, Entries, Entry, Answers, RunAnswer
<1> QED BY <1>2, <1>7 DEF Promise!Next
-----------------------------------------------------------------------------
(* Every step keeps the invariant and is a step of FetchPromise.           *)
KeepsPromise == RunsInv' /\ WaitInv' /\ [Promise!Next]_(Promise!vars)

LEMMA PhoneKeepsPromise ==
  ASSUME KnownInv, NEW l \in Lanes, Moves(l), UNCHANGED gvars, down' \subseteq down
  PROVE  KeepsPromise
<1>1. UNCHANGED <<runs, sessions, restarts>>
  BY DEF gvars, gateway
<1>2. DOMAIN asked \subseteq DOMAIN asked' /\ restarts \in Nat
  BY DrawsOn DEF KnownInv, HelloInv, Typing, Counts
<1>3. RunsInv'
  BY <1>2, PhoneRuns DEF KnownInv
<1> QED BY <1>1, <1>3, MoveWaits, MoveMaps DEF KeepsPromise

LEMMA QuietKeepsPromise ==
  ASSUME KnownInv, RunsInv', NoOldSession, UNCHANGED <<cvars, runs, restarts>>, Bodies' \subseteq Bodies
  PROVE  KeepsPromise
BY QuietWaits, QuietMaps DEF KeepsPromise, KnownInv

LEMMA UplinkKeepsPromise ==
  ASSUME KnownInv, NoneForgotten, Uplink
  PROVE  KeepsPromise
<1>1. UNCHANGED <<cvars, restarts>> /\ up' \subseteq up
  BY DEF Uplink, Receive, Remaining
<1>2. Bodies' \subseteq Bodies
  BY <1>1 DEF Bodies
<1>3. GatewayRuns
  BY UplinkRuns DEF KnownInv, HelloInv, Typing, Counts
<1>4. CASE runs' = runs
  BY <1>1, <1>2, <1>3, <1>4, QuietKeepsPromise DEF GatewayRuns
<1>5. CASE \E j, p : BegunBy(j, p)
  BY <1>1, <1>2, <1>3, <1>5, NewRunWaits, RunMaps DEF GatewayRuns, KeepsPromise
<1> QED BY <1>3, <1>4, <1>5 DEF GatewayRuns

LEMMA GatewayKeepsPromise ==
  ASSUME KnownInv, Gateway
  PROVE  KeepsPromise
<1>1. UNCHANGED cvars /\ up' = up
  BY DEF Gateway, Poll, PollDrop, PollSend, Answer, Respond, Refuse, SendWorking, Sweep, SetKeys,
         Restart, TimePasses, Tick, net
<1>2. Bodies' = Bodies
  BY <1>1 DEF Bodies
<1>3. GatewayRuns /\ runs' = runs
  BY OwnRuns DEF KnownInv, HelloInv, Typing, Counts
<1>4. restarts' = restarts \/ Restart
  BY DEF Gateway, Poll, PollDrop, PollSend, Answer, Respond, Refuse, SendWorking, Sweep, SetKeys,
         TimePasses, Tick
<1>5. CASE restarts' = restarts
  BY <1>1, <1>2, <1>3, <1>5, QuietKeepsPromise DEF GatewayRuns
<1>6. CASE Restart
  BY <1>1, <1>2, <1>3, <1>6, QuietWaits, RestartMaps DEF GatewayRuns, KeepsPromise, KnownInv, Promise!Next
<1> QED BY <1>4, <1>5, <1>6

LEMMA LaneKeepsPromise ==
  ASSUME KnownInv, NEW l \in Lanes, Fetch(l) \/ Rebind(l) \/ Wait(l) \/ Deadline(l)
  PROVE  KeepsPromise
<1>1. CASE Fetch(l)
  <2>1. UNCHANGED gvars /\ down' \subseteq down
    BY <1>1 DEF Fetch, Start, OpenSocket
  <2> QED BY <1>1, <2>1, StartMoves, PhoneKeepsPromise DEF Fetch
<1>2. CASE Rebind(l)
  <2>1. UNCHANGED gvars /\ down' \subseteq down
    BY <1>2 DEF Rebind
  <2> QED BY <1>2, <2>1, RebindMoves, PhoneKeepsPromise
<1>3. CASE Wait(l)
  <2>1. UNCHANGED gvars /\ down' \subseteq down
    BY <1>3 DEF Wait, HelloAgain, Timer
  <2> QED BY <1>3, <2>1, HelloAgainMoves, TimerMoves, PhoneKeepsPromise DEF Wait
<1>4. CASE Deadline(l)
  <2>1. UNCHANGED gvars /\ down' \subseteq down
    BY <1>4 DEF Deadline, GiveUp, CloseSocket
  <2> QED BY <1>4, <2>1, GiveUpMoves, PhoneKeepsPromise DEF Deadline
<1> QED BY <1>1, <1>2, <1>3, <1>4

LEMMA PromiseNext == KnownInv /\ NoneForgotten /\ [Next]_vars => KeepsPromise
<1> SUFFICES ASSUME KnownInv, NoneForgotten, [Next]_vars PROVE KeepsPromise
  OBVIOUS
<1>1. CASE Uplink
  BY <1>1, UplinkKeepsPromise
<1>2. CASE Downlink
  <2>1. PICK l \in Lanes, p \in down, copied \in BOOLEAN :
          Arrives(l, p, Remaining(p, down, copied), now)
    BY <1>2 DEF Downlink
  <2>2. UNCHANGED gvars /\ down' \subseteq down
    BY <1>2, <2>1 DEF Downlink, Arrives, CloseSocket, Remaining
  <2> QED BY <2>1, <2>2, ArrivesMoves, PhoneKeepsPromise
<1>3. CASE Lose \/ UNCHANGED vars
  <2>1. UNCHANGED <<gvars, cvars>> /\ up' \subseteq up /\ down' \subseteq down
    BY <1>3 DEF Lose, LoseUp, LoseDown, vars, net
  <2>2. UNCHANGED <<runs, restarts, sessions, asked>>
    BY <2>1 DEF gvars, gateway, cvars
  <2>3. NoOldSession /\ Bodies' \subseteq Bodies /\ restarts \in Nat
    BY <2>1, <2>2 DEF NoOldSession, Bodies, KnownInv, HelloInv, Typing, Counts
  <2>4. RunsInv'
    BY <2>1, <2>2, <2>3, PhoneRuns DEF KnownInv
  <2> QED BY <2>1, <2>2, <2>3, <2>4, QuietKeepsPromise
<1>4. CASE \E l \in Lanes : Fetch(l) \/ Rebind(l) \/ Wait(l) \/ Deadline(l)
  BY <1>4, LaneKeepsPromise
<1>5. CASE Gateway
  BY <1>5, GatewayKeepsPromise
<1> QED BY <1>1, <1>2, <1>3, <1>4, <1>5 DEF Next

LEMMA PromiseInit == Init => RunsInv /\ WaitInv /\ Promise!Init
<1> SUFFICES ASSUME Init PROVE RunsInv /\ WaitInv /\ Promise!Init
  OBVIOUS
<1>1. /\ up = {} /\ down = {} /\ queue = {} /\ jobs = {} /\ runs = {} /\ restarts = 0
      /\ DOMAIN sessions = {} /\ fetches = 0 /\ asked = << >> /\ client = [l \in Lanes |-> NoFetch]
  BY DEF Init, NetInit, GatewayInit, ClientInit, EmptyMap
<1>2. IsFiniteSet({})
  BY FS_EmptySet
<1>3. RunsInv
  BY <1>1, <1>2 DEF RunsInv, RunsNumbered, HeldRuns, QueuedRuns, SentRuns, ResetsGone
<1>4. NoFetch.fetch = 0 /\ NoFetch.pc = "idle" /\ NoFetch.answer = 0
  BY DEF NoFetch
<1>5. \A l \in Lanes : client[l] = NoFetch /\ ~Waits(client[l])
  BY <1>1, <1>4 DEF Waits
<1>6. WaitInv
  BY <1>1, <1>5 DEF WaitInv, LanesWait, OneLaneEach, FetchesDrawn
<1>7. Entries = [l \in Lanes |-> [fetch |-> 0, st |-> "idle", run |-> 0]]
  BY <1>4, <1>5 DEF Entries, Entry, Status
<1>8. Answers = {}
  BY <1>1 DEF Answers
<1> QED BY <1>1, <1>3, <1>6, <1>7, <1>8 DEF Promise!Init, Entries, Entry, Answers, RunAnswer

(* The transport keeps what fetch() promises (client.rs:95, lib.rs:16-18): *)
(* whatever is lost, repeated, overtaken or held back, an answer is put    *)
(* together from symbols of one run of that very request, and a request    *)
(* somebody waits for is run once in a life of the gateway.  That holds as *)
(* long as a phone's clock leads by less than FRESH and no session makes   *)
(* room, and no sweep comes, while what was run on it is waited for: after *)
(* either the gateway takes a retransmission for a new request.            *)
THEOREM PromiseKeptHolds ==
  ASSUME \A lead \in Leads : lead < Fresh
  PROVE  Spec /\ []NoneForgotten => PromiseKept
<1>1. Init => KnownInv /\ Promise!Init
  BY TypedInit, HelloInit, PromiseInit DEF KnownInv
<1>2. KnownInv /\ NoneForgotten /\ [Next]_vars => KnownInv' /\ [Promise!Next]_(Promise!vars)
  BY TypedNext, HelloNext, PromiseNext DEF KnownInv, KeepsPromise
<1> HIDE DEF KnownInv
<1> QED BY <1>1, <1>2, PTL DEF Spec, PromiseKept, Promise!Spec
-----------------------------------------------------------------------------
(***************************************************************************)
(* What holds of UDP mode when the gateway is not full and fetches keep    *)
(* their deadline.  First how a lane moves, by where its fetch is sent     *)
(* from, when it began, what it was told and what it sends.                *)
(***************************************************************************)
(* Somebody told the fetch something, or is about to.                      *)
Told(c) == c.heard \/ c.known \/ c.working
Hears(c) == Told(c) \/ \E p \in down : p.to = c.addr

FromHere(c, d) == d.addr = c.addr /\ d.began = c.began /\ UNCHANGED <<fetches, rebinds>>

(* A fetch has an address that nobody had before.                          *)
FromAfresh(c, d) ==
  /\ ~Waits(c) /\ ~Told(d) /\ d.began = now
  /\ d.addr.port = fetches + rebinds + 1 /\ fetches' = fetches + 1 /\ rebinds' = rebinds

(* A request goes out on a session: a saved one, or after message 2.       *)
AfterHello(c, d) ==
  c.pc = "handshake" /\ c.secret /\ FromHere(c, d) /\ d.secret = c.secret /\ d.eph = c.eph

Opens(c, d) ==
  /\ d.pc = "exchange" /\ d.resettable /\ hellos' = hellos
  /\ FromAfresh(c, d) \/ AfterHello(c, d)
  /\ \A p \in up' : p \in up \/ (/\ p.t = "REQ" /\ p.sid = d.sid /\ p.req.id = d.id
                                 /\ p.req.body /\ p.from = d.addr)

Shakes(c, d) ==
  /\ d.pc = "handshake" /\ d.id = Len(asked) + 1 /\ d.eph = hellos + 1 /\ hellos' = hellos + 1
  /\ FromAfresh(c, d) \/ (c.pc = "exchange" /\ FromHere(c, d))
  /\ \A p \in up' : p \in up \/ (/\ p.t = "HS1" /\ p.eph = d.eph /\ p.req.id = d.id
                                 /\ (p.req.body <=> ~d.secret) /\ p.from = d.addr)

Stays(c, d) ==
  /\ Waits(c) /\ d.pc = c.pc /\ d.id = c.id /\ d.sid = c.sid /\ d.eph = c.eph /\ d.secret = c.secret
  /\ d.resettable = c.resettable /\ d.began = c.began /\ hellos' = hellos /\ fetches' = fetches
  /\ \/ d.addr = c.addr /\ rebinds' = rebinds
     \/ d.addr.port = fetches + rebinds + 1 /\ rebinds' = rebinds + 1
  /\ Told(d) => Hears(c)
  /\ \A p \in up' :
       \/ p \in up
       \/ /\ p.from = c.addr /\ p.req.id = c.id
          /\ \/ c.pc = "handshake" /\ p.t = "HS1" /\ p.eph = c.eph /\ (p.req.body <=> ~c.secret)
             \/ c.pc = "exchange" /\ p.t = "REQ" /\ p.sid = c.sid /\ (p.req.body \/ Hears(c))

Joins(c, d) ==
  /\ c.pc = "handshake" /\ ~c.secret /\ d.pc = "exchange" /\ d.id = c.id /\ ~d.resettable
  /\ d.secret = c.secret
  /\ FromHere(c, d) /\ hellos' = hellos /\ up' \subseteq up
  /\ \E p \in down : p.t = "HS2" /\ p.eph = c.eph /\ p.sid = d.sid

Stops(c, d) ==
  /\ Waits(c) /\ ~Waits(d) /\ UNCHANGED <<hellos, fetches, rebinds>>
  /\ \A p \in up' : \/ p \in up
                    \/ p.t = "REQ" /\ p.from = c.addr
                    \/ p.t = "DONE" /\ p.from = c.addr /\ p.id = c.id

Turn(c, d) == Opens(c, d) \/ Shakes(c, d) \/ Stays(c, d) \/ Joins(c, d) \/ Stops(c, d)

Turns(l) == \E d : client' = [client EXCEPT ![l] = d] /\ Turn(client[l], d)

LEMMA OneMorePacket ==
  ASSUME NEW q, up' \subseteq up \cup {q}
  PROVE  \A p \in up' : p \in up \/ p = q
OBVIOUS

LEMMA SessionTurns ==
  ASSUME NEW l \in Lanes, NEW c, DOMAIN c = DOMAIN NoFetch,
         NEW sid, NEW next, NEW made, OnSession(l, c, sid, next, made), hellos' = hellos,
         FromAfresh(client[l], c) \/ AfterHello(client[l], c)
  PROVE  Turns(l)
<1>b. PICK b : b = client[l]
  OBVIOUS
<1>d. PICK d : d = [c EXCEPT !.pc = "exchange", !.id = Len(asked) + 1, !.sid = sid, !.ctr = next + 1,
                       !.end = next + Block, !.made = made, !.resettable = TRUE,
                       !.rounds = Set(EmptyFun, 0, Round(1))]
  OBVIOUS
<1>q. PICK q : q = Request(sid, next, Req(Len(asked) + 1, 0, 0, FALSE, TRUE), c.addr)
  OBVIOUS
<1>1. client' = [client EXCEPT ![l] = d] /\ up' \subseteq up \cup {q}
  BY <1>d, <1>q DEF OnSession, SendUp
<1>2. /\ d.pc = "exchange" /\ d.resettable = TRUE /\ d.sid = sid /\ d.id = Len(asked) + 1
      /\ d.addr = c.addr /\ d.began = c.began /\ d.secret = c.secret
      /\ d.heard = c.heard /\ d.known = c.known /\ d.working = c.working /\ d.eph = c.eph
  BY <1>d DEF NoFetch
<1>3. /\ q.t = "REQ" /\ q.sid = sid /\ q.req.id = Len(asked) + 1 /\ q.req.body = TRUE
      /\ q.from = c.addr
  BY <1>q DEF Request, Req
<1>4. FromAfresh(b, d) \/ AfterHello(b, d)
  BY <1>b, <1>2 DEF FromAfresh, AfterHello, FromHere, Told
<1>5. \A p \in up' : p \in up \/ (/\ p.t = "REQ" /\ p.sid = d.sid /\ p.req.id = d.id
                                  /\ p.req.body /\ p.from = d.addr)
  BY <1>1, <1>2, <1>3
<1>6. Opens(b, d)
  BY <1>2, <1>4, <1>5 DEF Opens
<1> QED BY <1>1, <1>6, <1>b DEF Turns, Turn

LEMMA HelloTurns ==
  ASSUME NEW l \in Lanes, NEW c, DOMAIN c = DOMAIN NoFetch, SayHello(l, c, now),
         \/ FromAfresh(client[l], c)
         \/ client[l].pc = "exchange" /\ FromHere(client[l], c)
  PROVE  Turns(l)
<1>b. PICK b : b = client[l]
  OBVIOUS
<1>1. PICK lead \in Leads :
      LET id == Len(asked) + 1
          eph == hellos + 1
          ts == [at |-> now + lead, n |-> eph]
      IN /\ client' = [client EXCEPT ![l] =
              [c EXCEPT !.pc = "handshake", !.id = id, !.eph = eph, !.ts = ts]]
         /\ hellos' = eph
         /\ SendUp(Hello(eph, c.key, DeviceOf[l], ts, Req(id, 0, 0, FALSE, ~c.secret), c.addr))
  BY DEF SayHello
<1>t. PICK ts : ts = [at |-> now + lead, n |-> hellos + 1]
  OBVIOUS
<1>d. PICK d : d = [c EXCEPT !.pc = "handshake", !.id = Len(asked) + 1, !.eph = hellos + 1, !.ts = ts]
  OBVIOUS
<1>q. PICK q : q = Hello(hellos + 1, c.key, DeviceOf[l], ts, Req(Len(asked) + 1, 0, 0, FALSE, ~c.secret), c.addr)
  OBVIOUS
<1>2. client' = [client EXCEPT ![l] = d] /\ up' \subseteq up \cup {q} /\ hellos' = hellos + 1
  BY <1>1, <1>t, <1>d, <1>q DEF SendUp
<1>3. /\ d.pc = "handshake" /\ d.eph = hellos + 1 /\ d.id = Len(asked) + 1 /\ d.secret = c.secret
      /\ d.addr = c.addr /\ d.began = c.began
      /\ d.heard = c.heard /\ d.known = c.known /\ d.working = c.working
  BY <1>d DEF NoFetch
<1>4. /\ q.t = "HS1" /\ q.eph = hellos + 1 /\ q.req.id = Len(asked) + 1 /\ q.req.body = ~c.secret
      /\ q.from = c.addr
  BY <1>q DEF Hello, Req
<1>5. FromAfresh(b, d) \/ (b.pc = "exchange" /\ FromHere(b, d))
  BY <1>b, <1>3 DEF FromAfresh, FromHere, Told
<1>6. \A p \in up' : p \in up \/ (/\ p.t = "HS1" /\ p.eph = d.eph /\ p.req.id = d.id
                                  /\ (p.req.body <=> ~d.secret) /\ p.from = d.addr)
  BY <1>2, <1>3, <1>4
<1>7. Shakes(b, d)
  BY <1>2, <1>3, <1>5, <1>6 DEF Shakes
<1> QED BY <1>2, <1>7, <1>b DEF Turns, Turn

LEMMA FetchTurns ==
  ASSUME KnownInv, NEW l \in Lanes, Fetch(l)
  PROVE  Turns(l)
<1>1. PICK ip \in Ips, key \in 1 .. gkeys[1], secret \in scenario.secrets :
        Start(l, NewAddress(ip), key, secret, now)
  BY DEF Fetch
<1>c. PICK c : c = [NoFetch EXCEPT !.fetch = fetches + 1, !.addr = NewAddress(ip), !.key = key,
                                   !.secret = secret, !.began = now]
  OBVIOUS
<1>2. /\ \/ OnSession(l, c, kept[l].sid, kept[l].next, kept[l].made) /\ UNCHANGED hellos
         \/ SayHello(l, c, now)
      /\ client[l].pc \in {"idle", "done", "failed"} /\ fetches' = fetches + 1
  BY <1>1, <1>c DEF Start
<1>3. /\ DOMAIN c = DOMAIN NoFetch /\ c.secret = secret /\ c.began = now /\ c.addr = NewAddress(ip)
      /\ c.heard = FALSE /\ c.known = FALSE /\ c.working = FALSE
  BY <1>c DEF NoFetch
<1>4. FromAfresh(client[l], c)
  <2>1. c.addr.port = fetches + rebinds + 1
    BY <1>3 DEF NewAddress
  <2>2. rebinds' = rebinds
    BY DEF Fetch
  <2> QED BY <1>2, <1>3, <2>1, <2>2 DEF FromAfresh, Told, Waits
<1> QED BY <1>2, <1>3, <1>4, SessionTurns, HelloTurns

LEMMA RebindTurns ==
  ASSUME KnownInv, NEW l \in Lanes, Rebind(l)
  PROVE  Turns(l)
<1>c. PICK c : c = client[l]
  OBVIOUS
<1>1. PICK ip \in Ips : client' = [client EXCEPT ![l].addr = NewAddress(ip)]
  BY DEF Rebind
<1>d. PICK d : d = [c EXCEPT !.addr = NewAddress(ip)]
  OBVIOUS
<1>2. DOMAIN c = DOMAIN NoFetch /\ DOMAIN client = Lanes
  BY <1>c, LaneShape
<1>3. /\ d.pc = c.pc /\ d.id = c.id /\ d.sid = c.sid /\ d.eph = c.eph /\ d.secret = c.secret
      /\ d.resettable = c.resettable /\ d.began = c.began /\ d.addr = NewAddress(ip)
      /\ d.heard = c.heard /\ d.known = c.known /\ d.working = c.working
  BY <1>2, <1>d DEF NoFetch
<1>4. client' = [client EXCEPT ![l] = d]
  BY <1>1, <1>2, <1>c, <1>d
<1>5. Waits(c) /\ UNCHANGED <<hellos, fetches, up>> /\ rebinds' = rebinds + 1
  BY <1>c DEF Rebind, Active, Waits
<1>6. d.addr.port = fetches + rebinds + 1
  BY <1>3 DEF NewAddress
<1>7. Stays(c, d)
  BY <1>3, <1>5, <1>6 DEF Stays, Told, Hears
<1> QED BY <1>4, <1>7, <1>c DEF Turns, Turn

LEMMA HelloAgainTurns ==
  ASSUME KnownInv, NEW l \in Lanes, HelloAgain(l), rebinds' = rebinds
  PROVE  Turns(l)
<1>c. PICK c : c = client[l]
  OBVIOUS
<1>d. PICK d : d = [c EXCEPT !.asks = @ + 1]
  OBVIOUS
<1>q. PICK q : q = Hello(c.eph, c.key, DeviceOf[l], c.ts, Req(c.id, 0, 0, FALSE, ~c.secret), c.addr)
  OBVIOUS
<1>1. DOMAIN c = DOMAIN NoFetch /\ DOMAIN client = Lanes
  BY <1>c, LaneShape
<1>2. c.pc = "handshake" /\ up' \subseteq up \cup {q} /\ UNCHANGED <<hellos, fetches>>
  BY <1>c, <1>q DEF HelloAgain, SendUp
<1>3. /\ d.pc = c.pc /\ d.id = c.id /\ d.sid = c.sid /\ d.eph = c.eph /\ d.secret = c.secret
      /\ d.resettable = c.resettable /\ d.began = c.began /\ d.addr = c.addr
      /\ d.heard = c.heard /\ d.known = c.known /\ d.working = c.working
  BY <1>1, <1>d DEF NoFetch
<1>4. client' = [client EXCEPT ![l] = d]
  BY <1>c, <1>d, <1>1 DEF HelloAgain
<1>5. /\ q.t = "HS1" /\ q.eph = c.eph /\ q.req.id = c.id /\ q.req.body = ~c.secret /\ q.from = c.addr
  BY <1>q DEF Hello, Req
<1>6. \A p \in up' : p \in up \/ p = q
  BY <1>2
<1>7. Stays(c, d)
  BY <1>2, <1>3, <1>5, <1>6 DEF Stays, Told, Hears, Waits
<1> QED BY <1>4, <1>7, <1>c DEF Turns, Turn

LEMMA EndsTurns ==
  ASSUME NEW l \in Lanes, Waits(client[l]), UNCHANGED <<hellos, fetches, rebinds>>,
         NEW pc \in {"done", "failed"}, NEW answer, Ends(l, pc, answer),
         \A p \in up' : \/ p \in up
                        \/ p.t = "REQ" /\ p.from = client[l].addr
                        \/ p.t = "DONE" /\ p.from = client[l].addr /\ p.id = client[l].id
  PROVE  Turns(l)
<1>d. PICK d : d = [NoFetch EXCEPT !.pc = pc, !.fetch = client[l].fetch, !.key = client[l].key,
                       !.answer = answer]
  OBVIOUS
<1>1. client' = [client EXCEPT ![l] = d]
  BY <1>d DEF Ends
<1>2. d.pc = pc
  BY <1>d DEF NoFetch
<1>3. ~Waits(d)
  BY <1>2 DEF Waits
<1>4. Stops(client[l], d)
  BY <1>3 DEF Stops
<1> QED BY <1>1, <1>4 DEF Turns, Turn

LEMMA HelloReplyTurns ==
  ASSUME KnownInv, NEW l \in Lanes, NEW p \in down, OnHelloReply(l, p, now), rebinds' = rebinds
  PROVE  Turns(l)
<1>b. PICK b : b = client[l]
  OBVIOUS
<1>c. PICK c : c = [b EXCEPT !.heard = TRUE]
  OBVIOUS
<1>d. PICK d : d = [c EXCEPT !.pc = "exchange", !.sid = p.sid, !.ctr = 0, !.end = Block,
                    !.made = now, !.resettable = FALSE,
                    !.rounds = Set(EmptyFun, 0, Round(1))]
  OBVIOUS
<1>0. /\ DOMAIN b = DOMAIN NoFetch /\ b.pc = "handshake" /\ p.t = "HS2" /\ p.eph = b.eph
      /\ UNCHANGED <<fetches, hellos>>
  BY <1>b, LaneShape DEF OnHelloReply
<1>1. /\ DOMAIN c = DOMAIN NoFetch /\ c.secret = b.secret /\ c.addr = b.addr /\ c.began = b.began
      /\ c.id = b.id /\ c.eph = b.eph
  BY <1>0, <1>c DEF NoFetch
<1>2. \/ b.secret /\ OnSession(l, c, p.sid, 0, now)
      \/ /\ ~b.secret /\ client' = [client EXCEPT ![l] = d] /\ UNCHANGED up
  BY <1>b, <1>c, <1>d, <1>1 DEF OnHelloReply
<1>3. CASE b.secret /\ OnSession(l, c, p.sid, 0, now)
  <2>1. AfterHello(b, c)
    BY <1>0, <1>1, <1>3 DEF AfterHello, FromHere
  <2> QED BY <1>0, <1>1, <1>3, <1>b, <2>1, SessionTurns
<1>4. CASE ~b.secret /\ client' = [client EXCEPT ![l] = d] /\ UNCHANGED up
  <2>1. /\ d.pc = "exchange" /\ d.resettable = FALSE /\ d.id = b.id /\ d.sid = p.sid
        /\ d.addr = b.addr /\ d.began = b.began /\ d.secret = b.secret
    BY <1>1, <1>d DEF NoFetch
  <2>2. FromHere(b, d)
    BY <1>0, <2>1 DEF FromHere
  <2>3. Joins(b, d)
    BY <1>0, <1>4, <2>1, <2>2 DEF Joins
  <2> QED BY <1>b, <1>4, <2>3 DEF Turns, Turn
<1> QED BY <1>2, <1>3, <1>4

LEMMA ResetTurns ==
  ASSUME KnownInv, NEW l \in Lanes, NEW p \in down, OnReset(l, p, now), rebinds' = rebinds
  PROVE  Turns(l)
<1>b. PICK b : b = client[l]
  OBVIOUS
<1>c. PICK c : c = [NoFetch EXCEPT !.fetch = b.fetch, !.addr = b.addr, !.key = b.key,
                              !.secret = b.secret, !.again = TRUE, !.heard = TRUE,
                              !.asks = b.asks, !.began = b.began]
  OBVIOUS
<1>1. /\ b.pc = "exchange" /\ UNCHANGED fetches
      /\ \/ Ends(l, "failed", 0) /\ UNCHANGED <<hellos, up>>
         \/ SayHello(l, c, now)
  BY <1>b, <1>c DEF OnReset
<1>2. Waits(b)
  BY <1>1 DEF Waits
<1>3. CASE Ends(l, "failed", 0) /\ UNCHANGED <<hellos, up>>
  BY <1>b, <1>1, <1>2, <1>3, EndsTurns
<1>4. CASE SayHello(l, c, now)
  <2>1. DOMAIN c = DOMAIN NoFetch /\ c.addr = b.addr /\ c.began = b.began /\ c.secret = b.secret
    BY <1>c DEF NoFetch
  <2>2. FromHere(b, c)
    BY <1>1, <2>1 DEF FromHere
  <2> QED BY <1>b, <1>1, <1>2, <1>4, <2>1, <2>2, HelloTurns
<1> QED BY <1>1, <1>3, <1>4

(* A packet to the fetch is noticed, and it goes on as it was.             *)
LEMMA NoticesTurns ==
  ASSUME NEW l \in Lanes, NEW c, c = client[l], Waits(c), NEW p \in down, p.to = c.addr,
         UNCHANGED <<hellos, fetches, rebinds>>, NEW d, client' = [client EXCEPT ![l] = d],
         d.pc = c.pc, d.id = c.id, d.sid = c.sid, d.eph = c.eph, d.secret = c.secret,
         d.resettable = c.resettable, d.began = c.began, d.addr = c.addr,
         \A q \in up' : q \in up \/ (/\ q.from = c.addr /\ q.req.id = c.id
                                     /\ c.pc = "exchange" /\ q.t = "REQ" /\ q.sid = c.sid)
  PROVE  Turns(l)
<1>1. Hears(c)
  BY DEF Hears
<1>2. Stays(c, d)
  BY <1>1 DEF Stays
<1> QED BY <1>2 DEF Turns, Turn

LEMMA WorkingTurns ==
  ASSUME KnownInv, NEW l \in Lanes, NEW p \in down, p.to = client[l].addr, OnWorking(l, p),
         rebinds' = rebinds
  PROVE  Turns(l)
<1>c. PICK c : c = client[l]
  OBVIOUS
<1>w. PICK waiting : waiting = [r \in DOMAIN c.rounds |->
                    IF c.rounds[r].len = 0 THEN [c.rounds[r] EXCEPT !.requested = 0] ELSE c.rounds[r]]
  OBVIOUS
<1>d. PICK d : d = IF p.id = c.id /\ ~c.known
            THEN [c EXCEPT !.heard = TRUE, !.echo = TRUE, !.working = TRUE, !.rounds = waiting]
            ELSE [c EXCEPT !.heard = TRUE, !.echo = TRUE]
  OBVIOUS
<1>1. DOMAIN c = DOMAIN NoFetch
  BY <1>c, LaneShape
<1>2. /\ c.pc = "exchange" /\ UNCHANGED <<fetches, hellos, up>> /\ client' = [client EXCEPT ![l] = d]
  BY <1>c, <1>w, <1>d DEF OnWorking
<1>3. /\ d.pc = c.pc /\ d.id = c.id /\ d.sid = c.sid /\ d.eph = c.eph /\ d.secret = c.secret
      /\ d.resettable = c.resettable /\ d.began = c.began /\ d.addr = c.addr
  BY <1>1, <1>d DEF NoFetch
<1>4. Waits(c)
  BY <1>2 DEF Waits
<1> QED BY <1>c, <1>2, <1>3, <1>4, NoticesTurns

LEMMA IgnoreTurns ==
  ASSUME KnownInv, NEW l \in Lanes, Active(l), NEW p \in down, p.to = client[l].addr, Ignore(l, p),
         rebinds' = rebinds
  PROVE  Turns(l)
<1>c. PICK c : c = client[l]
  OBVIOUS
<1>d. PICK d : d = [c EXCEPT !.heard = TRUE, !.echo = @ \/ Opened(c, p)]
  OBVIOUS
<1>1. DOMAIN c = DOMAIN NoFetch /\ DOMAIN client = Lanes
  BY <1>c, LaneShape
<1>2. /\ Waits(c) /\ UNCHANGED <<fetches, hellos, up>> /\ client' = [client EXCEPT ![l] = d]
  BY <1>c, <1>d, <1>1 DEF Ignore, Active, Waits
<1>3. /\ d.pc = c.pc /\ d.id = c.id /\ d.sid = c.sid /\ d.eph = c.eph /\ d.secret = c.secret
      /\ d.resettable = c.resettable /\ d.began = c.began /\ d.addr = c.addr
  BY <1>1, <1>d DEF NoFetch
<1> QED BY <1>c, <1>2, <1>3, NoticesTurns

LEMMA TimerTurns ==
  ASSUME KnownInv, NEW l \in Lanes, Timer(l), rebinds' = rebinds
  PROVE  Turns(l)
<1>c. PICK c : c = client[l]
  OBVIOUS
<1>lost. PICK lost : lost = [r \in DOMAIN c.rounds |->
                 [c.rounds[r] EXCEPT !.upto = c.rounds[r].len, !.requested = 0]]
  OBVIOUS
<1>c1. PICK c1 : c1 = [c EXCEPT !.rounds = lost, !.asks = @ + 1]
  OBVIOUS
<1>1. DOMAIN c = DOMAIN NoFetch
  BY <1>c, LaneShape
<1>2. c.pc = "exchange" /\ UNCHANGED <<fetches, hellos>>
  BY <1>c DEF Timer
<1>3. PICK want : /\ client' = [client EXCEPT ![l] = Asked(c1, want)]
                  /\ up' = up \cup {AskFor(c1, want, WithBody(c))}
  BY <1>c, <1>lost, <1>c1 DEF Timer, SendUp
<1>d. PICK d : d = Asked(c1, want)
  OBVIOUS
<1>q. PICK q : q = AskFor(c1, want, WithBody(c))
  OBVIOUS
<1>4. /\ DOMAIN c1 = DOMAIN NoFetch
      /\ c1.pc = c.pc /\ c1.id = c.id /\ c1.sid = c.sid /\ c1.eph = c.eph /\ c1.secret = c.secret
      /\ c1.resettable = c.resettable /\ c1.began = c.began /\ c1.addr = c.addr
      /\ c1.heard = c.heard /\ c1.known = c.known /\ c1.working = c.working
  BY <1>1, <1>c1 DEF NoFetch
<1>5. /\ d.pc = c.pc /\ d.id = c.id /\ d.sid = c.sid /\ d.eph = c.eph /\ d.secret = c.secret
      /\ d.resettable = c.resettable /\ d.began = c.began /\ d.addr = c.addr
      /\ d.heard = c.heard /\ d.known = c.known /\ d.working = c.working
  BY <1>4, <1>d DEF Asked, NoFetch
<1>6. /\ q.t = "REQ" /\ q.req.id = c.id /\ q.sid = c.sid /\ q.req.body = WithBody(c)
      /\ q.from = c.addr
  BY <1>4, <1>q DEF AskFor, Request, Req
<1>7. q.req.body \/ Hears(c)
  BY <1>6 DEF WithBody, Hears, Told
<1>8. \A p \in up' : p \in up \/ p = q
  BY <1>3, <1>q
<1>9. Stays(c, d)
  BY <1>2, <1>5, <1>6, <1>7, <1>8 DEF Stays, Told, Hears, Waits
<1> QED BY <1>3, <1>d, <1>9, <1>c DEF Turns, Turn

LEMMA DataTurns ==
  ASSUME KnownInv, NEW l \in Lanes, NEW p \in down, p.to = client[l].addr, OnData(l, p),
         rebinds' = rebinds
  PROVE  Turns(l)
<1> DEFINE c == client[l]
           r == IF p.round \in DOMAIN c.rounds THEN c.rounds[p.round] ELSE Round(0)
           r1 == [r EXCEPT !.len = p.len, !.upto = IF p.pos + 1 > @ THEN p.pos + 1 ELSE @]
           got == IF p.sym \in DOMAIN c.got THEN c.got ELSE Set(c.got, p.sym, p.run)
           ackOf == Request(c.sid, c.ctr, Req(c.id, 0, 0, TRUE, FALSE), c.addr)
           ack == IF c.acked THEN {} ELSE {ackOf}
           c1 == [c EXCEPT !.heard = TRUE, !.echo = TRUE, !.working = FALSE, !.known = TRUE,
                      !.acked = TRUE, !.ctr = @ + (IF c.acked THEN 0 ELSE 1), !.got = got,
                      !.rounds = Set(@, p.round, r1)]
           missing == Symbols - Cardinality(DOMAIN got)
           short == missing - Outstanding(c1.rounds)
           fin == Done(c.sid, c1.ctr, c.id, c.addr)
           Ours(q) == q.from = c.addr /\ q.req.id = c.id /\ c.pc = "exchange" /\ q.t = "REQ" /\ q.sid = c.sid
<1>1. DOMAIN c = DOMAIN NoFetch
  BY LaneShape
<1>2. c.pc = "exchange" /\ UNCHANGED <<fetches, hellos>> /\ Waits(c)
  BY DEF OnData, Waits
<1>3. \/ up' = up \cup ack \cup {fin} /\ Ends(l, "done", Decoded(got))
      \/ up' = up \cup ack /\ client' = [client EXCEPT ![l] = c1]
      \/ \E want :
           /\ up' = up \cup ack \cup {AskFor(c1, want, FALSE)}
           /\ client' = [client EXCEPT ![l] = Asked(c1, want)]
  BY DEF OnData
<1> HIDE DEF r1, missing, short, got
<1>4. /\ DOMAIN c1 = DOMAIN NoFetch
      /\ c1.pc = c.pc /\ c1.id = c.id /\ c1.sid = c.sid /\ c1.eph = c.eph /\ c1.secret = c.secret
      /\ c1.resettable = c.resettable /\ c1.began = c.began /\ c1.addr = c.addr
  BY <1>1 DEF NoFetch
<1>5. \A q \in ack : Ours(q)
  <2>1. Ours(ackOf)
    BY <1>2 DEF Request, Req
  <2> HIDE DEF ackOf, Ours
  <2> QED BY <2>1
<1>6. fin.t = "DONE" /\ fin.from = c.addr /\ fin.id = c.id
  BY DEF Done
<1> HIDE DEF c1, ack, fin
<1>7. CASE up' = up \cup ack \cup {fin} /\ Ends(l, "done", Decoded(got))
  <2>1. \A q \in up' : \/ q \in up
                       \/ q.t = "REQ" /\ q.from = client[l].addr
                       \/ q.t = "DONE" /\ q.from = client[l].addr /\ q.id = client[l].id
    BY <1>5, <1>6, <1>7
  <2> QED BY <1>2, <1>7, <2>1, EndsTurns
<1>8. CASE up' = up \cup ack /\ client' = [client EXCEPT ![l] = c1]
  <2>1. \A q \in up' : q \in up \/ Ours(q)
    BY <1>5, <1>8
  <2> QED BY <1>2, <1>4, <1>8, <2>1, NoticesTurns
<1>9. ASSUME NEW want, up' = up \cup ack \cup {AskFor(c1, want, FALSE)},
             client' = [client EXCEPT ![l] = Asked(c1, want)]
      PROVE  Turns(l)
  <2>d. PICK d : d = Asked(c1, want)
    OBVIOUS
  <2>q. PICK q : q = AskFor(c1, want, FALSE)
    OBVIOUS
  <2>1. /\ d.pc = c.pc /\ d.id = c.id /\ d.sid = c.sid /\ d.eph = c.eph /\ d.secret = c.secret
        /\ d.resettable = c.resettable /\ d.began = c.began /\ d.addr = c.addr
    BY <1>4, <2>d DEF Asked, NoFetch
  <2>2. Ours(q)
    BY <1>2, <1>4, <2>q DEF AskFor, Request, Req
  <2>3. \A m \in up' : m \in up \/ Ours(m)
    BY <1>5, <1>9, <2>2, <2>q
  <2>4. client' = [client EXCEPT ![l] = d]
    BY <1>9, <2>d
  <2> QED BY <1>2, <2>1, <2>3, <2>4, NoticesTurns
<1> QED BY <1>3, <1>7, <1>8, <1>9

LEMMA ArrivesTurns ==
  ASSUME KnownInv, NEW l \in Lanes, NEW p \in down, NEW rest, Arrives(l, p, rest, now),
         rebinds' = rebinds
  PROVE  Turns(l)
<1>1. /\ \/ OnHelloReply(l, p, now) \/ OnWrongKey(l, p) \/ OnReset(l, p, now)
         \/ OnWorking(l, p) \/ OnData(l, p) \/ Ignore(l, p)
      /\ Active(l) /\ p.to = client[l].addr
  BY DEF Arrives
<1>2. CASE OnWrongKey(l, p)
  <2>1. UNCHANGED <<hellos, fetches, up>> /\ Ends(l, "failed", 0) /\ Waits(client[l])
    BY <1>2 DEF OnWrongKey, Waits
  <2> QED BY <2>1, EndsTurns
<1> QED BY <1>1, <1>2, HelloReplyTurns, ResetTurns, WorkingTurns, DataTurns, IgnoreTurns

LEMMA GiveUpTurns ==
  ASSUME KnownInv, NEW l \in Lanes, GiveUp(l), rebinds' = rebinds
  PROVE  Turns(l)
<1>1. UNCHANGED <<hellos, fetches, up>> /\ Ends(l, "failed", 0) /\ Waits(client[l])
  BY DEF GiveUp, Active, Waits
<1> QED BY <1>1, EndsTurns

LEMMA LaneTurns ==
  ASSUME KnownInv, NEW l \in Lanes, Fetch(l) \/ Rebind(l) \/ Wait(l) \/ Deadline(l)
  PROVE  Turns(l)
<1>1. CASE Wait(l)
  BY <1>1, HelloAgainTurns, TimerTurns DEF Wait
<1>2. CASE Deadline(l)
  BY <1>2, GiveUpTurns DEF Deadline
<1> QED BY <1>1, <1>2, FetchTurns, RebindTurns
-----------------------------------------------------------------------------
(* HeldInv: what was run for a fetch that waits is there, and as young as  *)
(* the fetch; an engine that still owes an answer has answered nothing of  *)
(* it yet, so that it takes nothing away; and T_DONE is under way only for *)
(* fetches that are over.                                                  *)
WaitedFor(l, j) == Waits(client[l]) /\ asked[j.id].fetch = client[l].fetch
HasIt(j) == j.sid \in DOMAIN sessions /\ j.id \in DOMAIN sessions[j.sid].resp

HeldSince ==
  \A l \in Lanes, j \in runs :
    WaitedFor(l, j) /\ j.life = restarts =>
      /\ HasIt(j)
      /\ sessions[j.sid].heard \in client[l].began .. now
      /\ sessions[j.sid].resp[j.id].at \in client[l].began .. now

JobsOpen ==
  \A l \in Lanes, j \in jobs : WaitedFor(l, j) /\ HasIt(j) => ~sessions[j.sid].resp[j.id].ready

DonesOver ==
  \A p \in up : p.t = "DONE" =>
    /\ p.id \in DOMAIN asked
    /\ \A l \in Lanes : Waits(client[l]) => client[l].fetch /= asked[p.id].fetch

BeganBefore == \A l \in Lanes : Waits(client[l]) => client[l].began \in 0 .. now

JobsAlive == \A j \in jobs : j.life = restarts

HeldInv == HeldSince /\ JobsOpen /\ DonesOver /\ BeganBefore /\ JobsAlive

LEMMA HeldIsKept == HeldInv => NoneForgotten
BY DEF HeldInv, HeldSince, NoneForgotten, HasIt, WaitedFor, Active, Waits

(* A lane that waits after a step waited before, or has just begun.        *)
LEMMA WaitersStay ==
  ASSUME KnownInv, NEW l \in Lanes, Moves(l), Turns(l)
  PROVE  \A m \in Lanes : Waits(client[m])' =>
           \/ /\ Waits(client[m])
              /\ client'[m].fetch = client[m].fetch /\ client'[m].began = client[m].began
           \/ client'[m].fetch = fetches + 1 /\ client'[m].began = now
<1>c. PICK c : c = client[l]
  OBVIOUS
<1>0. DOMAIN client = Lanes
  BY LaneShape
<1>d. PICK d : client' = [client EXCEPT ![l] = d] /\ LaneMove(c, d)
  BY <1>c DEF Moves
<1>1. Turn(c, d)
  <2>1. PICK e : client' = [client EXCEPT ![l] = e] /\ Turn(c, e)
    BY <1>c DEF Turns
  <2>2. e = d
    BY <1>0, <1>d, <2>1
  <2> QED BY <2>1, <2>2
<1>2. ASSUME Waits(c), Waits(d) PROVE d.fetch = c.fetch /\ d.began = c.began
  <2>1. d.fetch = c.fetch
    BY <1>d, <1>2 DEF LaneMove, GoesOn, Finishes, Asks, Enters
  <2>2. d.began = c.began
    BY <1>1, <1>2 DEF Turn, Opens, Shakes, Stays, Joins, Stops, AfterHello, FromAfresh, FromHere
  <2> QED BY <2>1, <2>2
<1>3. ASSUME ~Waits(c), Waits(d) PROVE d.fetch = fetches + 1 /\ d.began = now
  <2>1. d.fetch = fetches + 1
    BY <1>d, <1>3 DEF LaneMove, GoesOn, Finishes, Asks, Enters, Waits
  <2>2. d.began = now
    <3>1. c.pc /= "handshake" /\ c.pc /= "exchange"
      BY <1>3 DEF Waits
    <3> QED BY <1>1, <1>3, <3>1 DEF Turn, Opens, AfterHello, Shakes, Stays, Joins, Stops, FromAfresh
  <2> QED BY <2>1, <2>2
<1>4. ASSUME NEW m \in Lanes, Waits(client'[m])
      PROVE  \/ /\ Waits(client[m])
                /\ client'[m].fetch = client[m].fetch /\ client'[m].began = client[m].began
             \/ client'[m].fetch = fetches + 1 /\ client'[m].began = now
  <2>1. CASE m = l
    <3>1. client'[m] = d /\ client[m] = c
      BY <1>0, <1>c, <1>d, <2>1
    <3>2. Waits(d)
      BY <1>4, <3>1
    <3> QED BY <1>2, <1>3, <3>1, <3>2
  <2>2. CASE m /= l
    BY <1>0, <1>4, <1>d, <2>2
  <2> QED BY <2>1, <2>2
<1> QED BY <1>4 DEF Waits

LEMMA PhoneHeld ==
  ASSUME KnownInv, HeldInv, NEW l \in Lanes, Moves(l), Turns(l), UNCHANGED gvars
  PROVE  HeldInv'
<1>1. UNCHANGED <<sessions, runs, jobs, now, restarts>>
  BY DEF gvars, gateway
<1>2. \A i \in DOMAIN asked : i \in DOMAIN asked' /\ asked'[i] = asked[i] /\ asked[i].fetch \in 1 .. fetches
  BY DrawsOn DEF KnownInv, WaitInv, FetchesDrawn
<1>3. fetches \in Nat /\ now \in Nat
  BY DEF KnownInv, HelloInv, Typing, Counts
<1>4. \A j \in runs : j.id \in DOMAIN asked
  BY DEF KnownInv, RunsInv, RunsNumbered, IsRunning
<1>5. jobs \subseteq runs
  BY DEF KnownInv, RunsInv
<1>6. ASSUME NEW m \in Lanes, NEW i \in DOMAIN asked, Waits(client'[m]), asked[i].fetch = client'[m].fetch
      PROVE  /\ Waits(client[m])
             /\ client'[m].fetch = client[m].fetch /\ client'[m].began = client[m].began
  <2>1. client'[m].fetch /= fetches + 1
    BY <1>2, <1>3, <1>6
  <2> QED BY <1>6, <2>1, WaitersStay DEF Waits
<1>7. \A m \in Lanes, j \in runs : WaitedFor(m, j)' => WaitedFor(m, j) /\ client'[m].began = client[m].began
  BY <1>2, <1>4, <1>6 DEF WaitedFor, Waits
<1>8. HeldSince'
  BY <1>1, <1>7 DEF HeldInv, HeldSince, HasIt
<1>9. JobsOpen'
  BY <1>1, <1>5, <1>7 DEF HeldInv, JobsOpen, HasIt
<1>10. BeganBefore'
  BY <1>1, <1>3, WaitersStay DEF HeldInv, BeganBefore
<1>11. DonesOver'
  <2> SUFFICES ASSUME NEW p \in up', p.t = "DONE"
               PROVE  /\ p.id \in DOMAIN asked'
                      /\ \A m \in Lanes : Waits(client'[m]) => client'[m].fetch /= asked'[p.id].fetch
    BY DEF DonesOver, Waits
  <2>1. CASE p \in up
    <3>1. /\ p.id \in DOMAIN asked
          /\ \A m \in Lanes : Waits(client[m]) => client[m].fetch /= asked[p.id].fetch
      BY <2>1 DEF HeldInv, DonesOver
    <3> QED BY <1>2, <1>6, <3>1
  <2>2. CASE p \notin up
    <3>c. PICK c : c = client[l]
      OBVIOUS
    <3>d. PICK d : client' = [client EXCEPT ![l] = d] /\ Turn(c, d)
      BY <3>c DEF Turns
    <3>1. Stops(c, d) /\ p.id = c.id
      BY <2>2, <3>d DEF Turn, Opens, Shakes, Stays, Joins, Stops
    <3>2. WaitsWell(c) /\ DOMAIN client = Lanes
      BY <3>c, <3>1, LaneShape DEF Stops
    <3>3. c.id \in DOMAIN asked /\ asked[c.id].fetch = c.fetch
      BY <3>2 DEF WaitsWell
    <3>4. ASSUME NEW m \in Lanes, Waits(client'[m]), client'[m].fetch = asked'[p.id].fetch PROVE FALSE
      <4>1. m /= l
        BY <3>d, <3>1, <3>2, <3>4 DEF Stops
      <4>2. client'[m] = client[m]
        BY <3>d, <3>2, <4>1
      <4>3. client[m].fetch = c.fetch
        BY <1>2, <3>1, <3>3, <3>4, <4>2
      <4> QED BY <3>c, <3>1, <3>4, <4>1, <4>2, <4>3 DEF KnownInv, WaitInv, OneLaneEach, Stops
    <3> QED BY <1>2, <3>1, <3>3, <3>4
  <2> QED BY <2>1, <2>2
<1>12. JobsAlive'
  BY <1>1 DEF HeldInv, JobsAlive
<1> QED BY <1>8, <1>9, <1>10, <1>11, <1>12 DEF HeldInv
-----------------------------------------------------------------------------
(* What a step of the gateway leaves of the requests it has.               *)
LeavesOf(s, t) ==
  \A id \in DOMAIN s.resp :
    id \in DOMAIN t.resp /\ t.resp[id].at = s.resp[id].at /\ t.resp[id].ready = s.resp[id].ready

Alike(s, t) == t.peer = s.peer /\ t.heard = s.heard /\ LeavesOf(s, t)

Takes(ss, sid, id) ==
  /\ id \in DOMAIN sessions'[sid].resp /\ id \notin DOMAIN ss[sid].resp
  /\ sessions'[sid].resp[id].ready = FALSE /\ sessions'[sid].resp[id].at = now
  /\ \A x \in DOMAIN ss : \A i \in DOMAIN sessions'[x].resp : i \in DOMAIN ss[x].resp \/ (x = sid /\ i = id)

Leaves(ss, tt) == DOMAIN tt = DOMAIN ss /\ \A x \in DOMAIN ss : Alike(ss[x], tt[x])

Fewer(ss, tt) == \A x \in DOMAIN ss : x \in DOMAIN tt => DOMAIN tt[x].resp \subseteq DOMAIN ss[x].resp

LEMMA LeavesSame ==
  ASSUME NEW ss
  PROVE  Leaves(ss, ss) /\ Fewer(ss, ss)
BY DEF Leaves, Fewer, Alike, LeavesOf

LEMMA LeavesOne ==
  ASSUME NEW ss, NEW sid \in DOMAIN ss, NEW s, s = ss[sid], NEW t, Alike(s, t),
         NEW tt, tt = [ss EXCEPT ![sid] = t]
  PROVE  /\ Leaves(ss, tt) /\ tt[sid] = t
         /\ DOMAIN t.resp \subseteq DOMAIN s.resp => Fewer(ss, tt)
<1>1. DOMAIN tt = DOMAIN ss /\ tt[sid] = t /\ \A x \in DOMAIN ss : x /= sid => tt[x] = ss[x]
  OBVIOUS
<1>2. \A x \in DOMAIN ss : Alike(ss[x], tt[x])
  BY <1>1 DEF Alike, LeavesOf
<1> QED BY <1>1, <1>2 DEF Leaves, Fewer

LEMMA KnownLeaves ==
  ASSUME NEW ss, AllSessions(ss), NEW q, NEW sid \in DOMAIN ss,
         NEW req, req.id \in DOMAIN ss[sid].resp, KnownRequest(ss, q, sid, req)
  PROVE  Leaves(ss, sessions') /\ Fewer(ss, sessions')
<1>s. PICK s : s = ss[sid]
  OBVIOUS
<1>r. PICK r : r = s.resp[req.id]
  OBVIOUS
<1>s1. PICK s1 : s1 = [s EXCEPT !.resp[req.id].rounds = @ \cup {req.round}]
  OBVIOUS
<1>t. PICK t : t = [s1 EXCEPT !.ctr = @ + 1]
  OBVIOUS
<1>u. PICK u : u = [s1 EXCEPT !.ctr = @ + req.want, !.resp[req.id].next = @ + req.want]
  OBVIOUS
<1>1. \/ sessions' = ss
      \/ sessions' = [ss EXCEPT ![sid] = t]
      \/ sessions' = [ss EXCEPT ![sid] = u]
  BY <1>s, <1>r, <1>s1, <1>t, <1>u DEF KnownRequest
<1>2. IsSession(s) /\ IsResponses(s.resp) /\ IsResponse(r) /\ req.id \in DOMAIN s.resp
  BY <1>s, <1>r DEF AllSessions, IsSession, IsResponses
<1>r1. PICK r1 : r1 = [r EXCEPT !.rounds = @ \cup {req.round}]
  OBVIOUS
<1>r2. PICK r2 : r2 = [r1 EXCEPT !.next = @ + req.want]
  OBVIOUS
<1>3. DOMAIN r1 = DOMAIN r /\ r1.at = r.at /\ r1.ready = r.ready
  BY <1>2, <1>r1 DEF IsResponse
<1>4. r2.at = r.at /\ r2.ready = r.ready
  BY <1>2, <1>3, <1>r2 DEF IsResponse
<1>5. /\ s1.resp = [s.resp EXCEPT ![req.id] = r1] /\ DOMAIN s1 = DOMAIN s
      /\ s1.peer = s.peer /\ s1.heard = s.heard
  BY <1>2, <1>r, <1>r1, <1>s1 DEF IsSession
<1>6. t.resp = s1.resp /\ t.peer = s.peer /\ t.heard = s.heard
  BY <1>2, <1>5, <1>t DEF IsSession
<1>7. u.resp = [s.resp EXCEPT ![req.id] = r2] /\ u.peer = s.peer /\ u.heard = s.heard
  <2>1. s1.resp[req.id] = r1
    BY <1>2, <1>5
  <2>2. u.resp = [s1.resp EXCEPT ![req.id] = r2] /\ u.peer = s1.peer /\ u.heard = s1.heard
    BY <1>2, <1>5, <1>u, <1>r2, <2>1 DEF IsSession
  <2> QED BY <1>2, <1>5, <2>2
<1>8. Alike(s, t) /\ DOMAIN t.resp = DOMAIN s.resp
  BY <1>2, <1>3, <1>5, <1>6, <1>r DEF Alike, LeavesOf
<1>9. Alike(s, u) /\ DOMAIN u.resp = DOMAIN s.resp
  BY <1>2, <1>4, <1>7, <1>r DEF Alike, LeavesOf
<1> QED BY <1>1, <1>8, <1>9, <1>s, LeavesSame, LeavesOne

LEMMA NewLeaves ==
  ASSUME NEW ss, AllSessions(ss), NEW q, NEW sid \in DOMAIN ss, NEW req,
         req.id \notin DOMAIN ss[sid].resp, NewRequest(ss, q, sid, req)
  PROVE  /\ Leaves(ss, sessions') /\ Takes(ss, sid, req.id)
         /\ \E j : Begins(j, sid, req.id)
<1>s. PICK s : s = ss[sid]
  OBVIOUS
<1>r. PICK r : r = [ready |-> FALSE, at |-> now, round |-> req.round, rounds |-> {req.round},
                    run |-> 0, next |-> 0]
  OBVIOUS
<1>t. PICK t : t = [s EXCEPT !.resp = Put(@, req.id, r)]
  OBVIOUS
<1>j. PICK j : j = [sid |-> sid, id |-> req.id, run |-> Cardinality(runs) + 1, life |-> restarts]
  OBVIOUS
<1>1. sessions' = [ss EXCEPT ![sid] = t] /\ jobs' = jobs \cup {j} /\ runs' = runs \cup {j}
  BY <1>s, <1>r, <1>t, <1>j DEF NewRequest
<1>2. IsSession(s) /\ req.id \notin DOMAIN s.resp
  BY <1>s DEF AllSessions
<1>3. t.resp = Put(s.resp, req.id, r) /\ t.peer = s.peer /\ t.heard = s.heard
  BY <1>2, <1>t DEF IsSession
<1>4. /\ DOMAIN t.resp = DOMAIN s.resp \cup {req.id} /\ t.resp[req.id] = r
      /\ \A id \in DOMAIN s.resp : t.resp[id] = s.resp[id]
  BY <1>2, <1>3 DEF Put
<1>5. Alike(s, t)
  BY <1>3, <1>4 DEF Alike, LeavesOf
<1>6. Leaves(ss, sessions') /\ sessions'[sid] = t
  BY <1>1, <1>5, <1>s, LeavesOne
<1>7. \A x \in DOMAIN ss : x /= sid => sessions'[x] = ss[x]
  BY <1>1
<1>8. Takes(ss, sid, req.id)
  BY <1>2, <1>4, <1>6, <1>7, <1>r, <1>s DEF Takes
<1>9. Begins(j, sid, req.id)
  BY <1>1, <1>j DEF Begins
<1> QED BY <1>6, <1>8, <1>9

Unheeded(ss, sid, req) ==
  Knows(ss[sid], req.id) \/ ~req.body \/ ~(Cardinality(OpenRequests(ss[sid])) < MaxPending)

LEMMA OnRequestLeaves ==
  ASSUME NEW ss, AllSessions(ss), NEW q, NEW sid \in DOMAIN ss, NEW req, OnRequest(ss, q, sid, req)
  PROVE  /\ Leaves(ss, sessions')
         /\ \/ UNCHANGED <<jobs, runs>> /\ Fewer(ss, sessions') /\ Unheeded(ss, sid, req)
            \/ Takes(ss, sid, req.id) /\ \E j : Begins(j, sid, req.id)
<1>1. CASE Knows(ss[sid], req.id) /\ KnownRequest(ss, q, sid, req) /\ UNCHANGED <<jobs, runs>>
  BY <1>1, KnownLeaves DEF Knows, Unheeded
<1>2. CASE /\ ~Knows(ss[sid], req.id) /\ sessions' = ss /\ UNCHANGED <<jobs, runs>>
           /\ ~req.body \/ Cardinality(OpenRequests(ss[sid])) >= MaxPending
  <2>1. Unheeded(ss, sid, req)
    <3>1. IsResponses(ss[sid].resp)
      BY DEF AllSessions, IsSession
    <3>2. Cardinality(OpenRequests(ss[sid])) \in Nat /\ MaxPending \in Nat
      BY <3>1, FS_CardinalityType, LimitsAssumption DEF IsResponses, Open, OpenRequests
    <3> QED BY <1>2, <3>2 DEF Unheeded
  <2> QED BY <1>2, <2>1, LeavesSame
<1>3. CASE ~Knows(ss[sid], req.id) /\ NewRequest(ss, q, sid, req)
  BY <1>3, NewLeaves DEF Knows
<1> QED BY <1>1, <1>2, <1>3 DEF OnRequest
-----------------------------------------------------------------------------
(* No fetch waits at a gateway that is full of sessions it heard from      *)
(* since: the session that makes room for another is not the fetch's own.  *)
HasRoom == \A l \in Lanes : Active(l) => ~Crowded(client[l].began)

(* No fetch waits beyond its deadline (client.rs:107-108).                 *)
Punctual == \A l \in Lanes : Active(l) => now - client[l].began <= Timeout

(* What is still there of a run after a step of the gateway.               *)
StillIn(j) ==
  /\ j.sid \in DOMAIN sessions' /\ j.id \in DOMAIN sessions'[j.sid].resp
  /\ sessions'[j.sid].heard \in {sessions[j.sid].heard, now}
  /\ sessions'[j.sid].resp[j.id].at \in {sessions[j.sid].resp[j.id].at, now}
  /\ j \in jobs' => ~sessions'[j.sid].resp[j.id].ready

NewlyIn(j) ==
  /\ j.sid \in DOMAIN sessions' /\ j.id \in DOMAIN sessions'[j.sid].resp
  /\ sessions'[j.sid].heard = now /\ sessions'[j.sid].resp[j.id].at = now
  /\ ~sessions'[j.sid].resp[j.id].ready

LEMMA HeldOn ==
  ASSUME KnownInv, HeldInv, UNCHANGED <<cvars, restarts>>, up' \subseteq up, now <= now', now' \in Nat,
         \A l \in Lanes, j \in runs : WaitedFor(l, j) /\ j.life = restarts => StillIn(j),
         \/ runs' = runs /\ jobs' \subseteq jobs
         \/ \E j : runs' = runs \cup {j} /\ jobs' = jobs \cup {j} /\ j.life = restarts /\ NewlyIn(j)
  PROVE  HeldInv'
<1>1. UNCHANGED <<client, asked>>
  BY DEF cvars
<1>2. \A l \in Lanes : \A j : WaitedFor(l, j)' <=> WaitedFor(l, j)
  BY <1>1 DEF WaitedFor, Waits
<1>3. now \in Nat /\ jobs \subseteq runs
  BY DEF KnownInv, HelloInv, Typing, Counts, RunsInv
<1>4. \A l \in Lanes : Waits(client[l]) => client[l].began \in 0 .. now
  BY DEF HeldInv, BeganBefore
<1>5. \A j \in runs' : j \in runs \/ (j.life = restarts /\ NewlyIn(j))
  OBVIOUS
<1>6. \A j \in jobs' : j \in jobs \/ (j.life = restarts /\ NewlyIn(j))
  OBVIOUS
<1>7. HeldSince'
  <2> SUFFICES ASSUME NEW l \in Lanes, NEW j \in runs', WaitedFor(l, j), j.life = restarts
               PROVE  /\ j.sid \in DOMAIN sessions' /\ j.id \in DOMAIN sessions'[j.sid].resp
                      /\ sessions'[j.sid].heard \in client[l].began .. now'
                      /\ sessions'[j.sid].resp[j.id].at \in client[l].began .. now'
    BY <1>1, <1>2 DEF HeldSince, HasIt
  <2>b. PICK b : b = client[l].began
    OBVIOUS
  <2>1. b \in 0 .. now
    BY <1>4, <2>b DEF WaitedFor
  <2>2. CASE j \in runs
    <3>1. StillIn(j)
      BY <2>2
    <3>2. sessions[j.sid].heard \in b .. now /\ sessions[j.sid].resp[j.id].at \in b .. now
      BY <2>2, <2>b DEF HeldInv, HeldSince
    <3>3. sessions'[j.sid].heard \in b .. now /\ sessions'[j.sid].resp[j.id].at \in b .. now
      BY <1>3, <2>1, <3>1, <3>2 DEF StillIn
    <3>4. b .. now \subseteq b .. now'
      BY <1>3, <2>1
    <3> QED BY <2>b, <3>1, <3>3, <3>4 DEF StillIn
  <2>3. CASE NewlyIn(j)
    <3>1. now \in b .. now'
      BY <1>3, <2>1
    <3> QED BY <2>b, <2>3, <3>1 DEF NewlyIn
  <2> QED BY <1>5, <2>2, <2>3
<1>8. JobsOpen'
  <2> SUFFICES ASSUME NEW l \in Lanes, NEW j \in jobs', WaitedFor(l, j)
               PROVE  ~sessions'[j.sid].resp[j.id].ready
    BY <1>2 DEF JobsOpen
  <2>1. CASE j \in jobs
    BY <1>3, <2>1 DEF HeldInv, JobsAlive, StillIn
  <2>2. CASE NewlyIn(j)
    BY <2>2 DEF NewlyIn
  <2> QED BY <1>6, <2>1, <2>2
<1>9. DonesOver'
  BY <1>1 DEF HeldInv, DonesOver, Waits
<1>10. BeganBefore'
  BY <1>1, <1>3, <1>4 DEF BeganBefore, Waits
<1>11. JobsAlive'
  BY <1>6 DEF HeldInv, JobsAlive
<1> QED BY <1>7, <1>8, <1>9, <1>10, <1>11 DEF HeldInv

(* What is waited for is there, and the engine works on it at most once.   *)
LEMMA WaitedHeld ==
  ASSUME KnownInv, HeldInv, NEW l \in Lanes, NEW j \in runs, WaitedFor(l, j), j.life = restarts
  PROVE  /\ j.sid \in DOMAIN sessions /\ j.id \in DOMAIN sessions[j.sid].resp
         /\ j \in jobs => ~sessions[j.sid].resp[j.id].ready
         /\ \A k \in runs : k.sid = j.sid /\ k.id = j.id => k = j
<1>c. PICK c : c = client[l]
  OBVIOUS
<1>1. j.sid \in DOMAIN sessions /\ j.id \in DOMAIN sessions[j.sid].resp
  BY DEF HeldInv, HeldSince, HasIt
<1>2. j \in jobs => ~sessions[j.sid].resp[j.id].ready
  BY <1>1 DEF HeldInv, JobsOpen, HasIt
<1>3. WaitsWell(c) /\ j.id \in DOMAIN asked /\ asked[j.id].fetch = c.fetch
  BY <1>c, LaneShape DEF WaitedFor, KnownInv, RunsInv, RunsNumbered, IsRunning
<1>4. j.id = c.id
  BY <1>1, <1>3 DEF WaitsWell, FormerSettled, Settled
<1> QED BY <1>1, <1>2, <1>3, <1>4 DEF WaitsWell, RunOnceEach

LEMMA AlikeHeld ==
  ASSUME NEW j, j.sid \in DOMAIN sessions, j.id \in DOMAIN sessions[j.sid].resp,
         j \in jobs => ~sessions[j.sid].resp[j.id].ready, j \in jobs' => j \in jobs,
         NEW s, LeavesOf(sessions[j.sid], s), s.heard \in {sessions[j.sid].heard, now},
         j.sid \in DOMAIN sessions', NEW t, t = sessions'[j.sid], Alike(s, t)
  PROVE  StillIn(j)
BY DEF StillIn, Alike, LeavesOf

LEMMA QuietHeld ==
  ASSUME KnownInv, HeldInv, UNCHANGED <<cvars, restarts, runs>>, jobs' \subseteq jobs, up' \subseteq up,
         now <= now', now' \in Nat, Leaves(sessions, sessions')
  PROVE  HeldInv'
<1>1. ASSUME NEW l \in Lanes, NEW j \in runs, WaitedFor(l, j), j.life = restarts PROVE StillIn(j)
  <2>1. /\ j.sid \in DOMAIN sessions /\ j.id \in DOMAIN sessions[j.sid].resp
        /\ j \in jobs => ~sessions[j.sid].resp[j.id].ready
    BY <1>1, WaitedHeld
  <2>s. PICK s : s = sessions[j.sid]
    OBVIOUS
  <2>2. LeavesOf(s, s) /\ Alike(s, sessions'[j.sid]) /\ j.sid \in DOMAIN sessions'
    BY <2>1, <2>s DEF Leaves, LeavesOf
  <2> QED BY <2>1, <2>2, <2>s, AlikeHeld
<1> QED BY <1>1, HeldOn
-----------------------------------------------------------------------------
(* The steps that leave every request as it is.                            *)
LEMMA LeavesCredit ==
  ASSUME NEW ss, AllSessions(ss), NEW x \in DOMAIN ss, NEW s, s = ss[x], NEW t,
         \/ \E n : t = [s EXCEPT !.credit = n]
         \/ \E n : t = [s EXCEPT !.ctr = n],
         NEW tt, tt = [ss EXCEPT ![x] = t]
  PROVE  Leaves(ss, tt) /\ Fewer(ss, tt)
<1>1. IsSession(s)
  BY DEF AllSessions
<1>2. t.peer = s.peer /\ t.heard = s.heard /\ t.resp = s.resp
  BY <1>1 DEF IsSession
<1>3. Alike(s, t) /\ DOMAIN t.resp \subseteq DOMAIN s.resp
  BY <1>2 DEF Alike, LeavesOf
<1> QED BY <1>3, LeavesOne

LEMMA RepeatedLeaves ==
  ASSUME Typed, NEW p, Repeated(p)
  PROVE  Leaves(sessions, sessions') /\ Fewer(sessions, sessions')
<1>h. PICK h : h = handshakes[p.eph]
  OBVIOUS
<1>t. PICK t : t = [sessions[h.sid] EXCEPT !.credit = @ + 3 * Size("HS1")]
  OBVIOUS
<1>1. sessions' = IF h.sid \in DOMAIN sessions THEN [sessions EXCEPT ![h.sid] = t] ELSE sessions
  BY <1>h, <1>t DEF Repeated
<1>2. \E n : t = [sessions[h.sid] EXCEPT !.credit = n]
  BY <1>t
<1> QED BY <1>1, <1>2, LeavesCredit, LeavesSame, Standing

LEMMA SendWorkingLeaves ==
  ASSUME Typed, NEW w, SendWorking(w)
  PROVE  Leaves(sessions, sessions') /\ Fewer(sessions, sessions')
<1>t. PICK t : t = [sessions[w.sid] EXCEPT !.ctr = @ + 1]
  OBVIOUS
<1>1. \/ sessions' = sessions
      \/ w.sid \in DOMAIN sessions /\ sessions' = [sessions EXCEPT ![w.sid] = t]
  BY <1>t DEF SendWorking
<1>2. \E n : t = [sessions[w.sid] EXCEPT !.ctr = n]
  BY <1>t
<1> QED BY <1>1, <1>2, LeavesCredit, LeavesSame, Standing

LEMMA PollSendLeaves ==
  ASSUME Typed, NEW o, PollSend(o)
  PROVE  Leaves(sessions, sessions') /\ Fewer(sessions, sessions')
<1>t. PICK t : t = [sessions[o.sid] EXCEPT !.credit = @ - Size(o.pkt.t)]
  OBVIOUS
<1>1. /\ o.sid \in DOMAIN sessions
      /\ \/ sessions' = sessions
         \/ sessions' = [sessions EXCEPT ![o.sid] = t]
  BY <1>t DEF PollSend, Lapsed
<1>2. \E n : t = [sessions[o.sid] EXCEPT !.credit = n]
  BY <1>t
<1> QED BY <1>1, <1>2, LeavesCredit, LeavesSame, Standing

(* A message that was not taken, or was taken before.                      *)
LEMMA NotTakenHeld ==
  ASSUME KnownInv, HeldInv, NEW p \in up, UNCHANGED <<cvars, restarts, now>>, up' \subseteq up,
         \/ Repeated(p) \/ UnknownKey(p) \/ Refused(p) \/ NoSuchSession(p) \/ Replayed(p)
  PROVE  HeldInv'
<1>1. UNCHANGED <<jobs, runs>>
  BY DEF Repeated, UnknownKey, Refused, NoSuchSession, Replayed
<1>2. Leaves(sessions, sessions')
  <2>1. sessions' = sessions \/ Repeated(p)
    BY DEF UnknownKey, Refused, NoSuchSession, Replayed, gateway
  <2> QED BY <2>1, LeavesSame, RepeatedLeaves DEF KnownInv
<1>3. now \in Nat
  BY DEF KnownInv, HelloInv, Typing, Counts
<1> QED BY <1>1, <1>2, <1>3, QuietHeld

(* What may be waited for stays through a request, which is new or known.  *)
LEMMA RequestHeld ==
  ASSUME KnownInv, HeldInv, UNCHANGED <<cvars, restarts, now>>, up' \subseteq up,
         NEW ss, AllSessions(ss), NEW q, NEW sid \in DOMAIN ss, NEW req, OnRequest(ss, q, sid, req),
         ss[sid].heard = now,
         \A l \in Lanes, j \in runs : WaitedFor(l, j) /\ j.life = restarts =>
           /\ j.sid \in DOMAIN ss /\ LeavesOf(sessions[j.sid], ss[j.sid])
           /\ ss[j.sid].heard \in {sessions[j.sid].heard, now}
  PROVE  HeldInv'
<1>1. /\ Leaves(ss, sessions')
      /\ \/ UNCHANGED <<jobs, runs>>
         \/ Takes(ss, sid, req.id) /\ \E j : Begins(j, sid, req.id)
  BY OnRequestLeaves
<1>2. now \in Nat /\ jobs \subseteq runs /\ \A j \in runs : j.run \in 1 .. Cardinality(runs)
  BY DEF KnownInv, HelloInv, Typing, Counts, RunsInv, RunsNumbered, IsRunning
<1>3. Cardinality(runs) \in Nat
  BY FS_CardinalityType DEF KnownInv, RunsInv, RunsNumbered
<1>4. ASSUME NEW l \in Lanes, NEW j \in runs, WaitedFor(l, j), j.life = restarts PROVE StillIn(j)
  <2>1. /\ j.sid \in DOMAIN sessions /\ j.id \in DOMAIN sessions[j.sid].resp
        /\ j \in jobs => ~sessions[j.sid].resp[j.id].ready
    BY <1>4, WaitedHeld
  <2>2. j \in jobs' => j \in jobs
    <3>1. CASE UNCHANGED jobs
      BY <3>1
    <3>2. CASE \E k : Begins(k, sid, req.id)
      BY <1>2, <1>3, <3>2 DEF Begins
    <3> QED BY <1>1, <3>1, <3>2
  <2>s. PICK s : s = ss[j.sid]
    OBVIOUS
  <2>t. PICK t : t = sessions'[j.sid]
    OBVIOUS
  <2>3. /\ LeavesOf(sessions[j.sid], s) /\ s.heard \in {sessions[j.sid].heard, now}
        /\ j.sid \in DOMAIN sessions' /\ Alike(s, t)
    BY <1>1, <1>4, <2>s, <2>t DEF Leaves
  <2> QED BY <2>1, <2>2, <2>3, <2>t, AlikeHeld
<1>5. CASE UNCHANGED <<jobs, runs>>
  BY <1>2, <1>4, <1>5, HeldOn
<1>6. CASE Takes(ss, sid, req.id) /\ \E j : Begins(j, sid, req.id)
  <2>1. PICK j : Begins(j, sid, req.id)
    BY <1>6
  <2>2. /\ sid \in DOMAIN sessions' /\ req.id \in DOMAIN sessions'[sid].resp
        /\ sessions'[sid].resp[req.id].ready = FALSE /\ sessions'[sid].resp[req.id].at = now
    BY <1>1, <1>6 DEF Takes, Leaves
  <2>3. sessions'[sid].heard = now
    BY <1>1 DEF Leaves, Alike
  <2>4. NewlyIn(j)
    BY <2>1, <2>2, <2>3 DEF NewlyIn, Begins
  <2>5. runs' = runs \cup {j} /\ jobs' = jobs \cup {j} /\ j.life = restarts
    BY <2>1 DEF Begins
  <2> QED BY <1>2, <1>4, <2>4, <2>5, HeldOn
<1> QED BY <1>1, <1>5, <1>6

(* The session of a fetch that waits does not make room for another.       *)
LEMMA NotEvicted ==
  ASSUME Typed, HeldInv, HasRoom, NEW ss \in Evicted(sessions),
         NEW l \in Lanes, NEW j \in runs, WaitedFor(l, j), j.life = restarts
  PROVE  j.sid \in DOMAIN ss /\ ss[j.sid] = sessions[j.sid]
<1>b. PICK b : b = client[l].began
  OBVIOUS
<1>1. j.sid \in DOMAIN sessions /\ sessions[j.sid].heard \in b .. now /\ b \in 0 .. now
  BY <1>b DEF HeldInv, HeldSince, HasIt, BeganBefore, WaitedFor
<1>2. ~Crowded(b)
  BY <1>b DEF HasRoom, Active, WaitedFor, Waits
<1>3. CASE ss = sessions
  BY <1>1, <1>3
<1>4. CASE ss /= sessions
  <2>1. /\ Cardinality(DOMAIN sessions) \in Nat /\ MaxSessions \in Nat
        /\ ~(Cardinality(DOMAIN sessions) < MaxSessions)
        /\ now \in Nat /\ AllSessions(sessions)
    BY <1>4, LimitsAssumption, FS_CardinalityType DEF Evicted, Typed, SessionsTyped, Numbers
  <2>2. PICK x \in DOMAIN sessions :
          /\ ss = Without(sessions, x)
          /\ \A y \in DOMAIN sessions : sessions[x].heard <= sessions[y].heard
    BY <2>1 DEF Evicted
  <2>3. PICK y \in DOMAIN sessions : ~(sessions[y].heard >= b)
    BY <1>2, <2>1 DEF Crowded
  <2>4. sessions[x].heard \in 0 .. now /\ sessions[y].heard \in 0 .. now
    BY <2>1 DEF AllSessions, IsSession
  <2>5. sessions[x].heard < b
    BY <1>1, <2>1, <2>2, <2>3, <2>4
  <2>6. j.sid /= x
    BY <1>1, <2>1, <2>4, <2>5
  <2> QED BY <1>1, <2>2, <2>6 DEF Without
<1> QED BY <1>3, <1>4

LEMMA AcceptedHeld ==
  ASSUME KnownInv, HeldInv, HasRoom, NEW p \in up, p.t = "HS1", Accepted(p),
         UNCHANGED <<cvars, restarts, now>>, up' \subseteq up
  PROVE  HeldInv'
<1>id. PICK sid : sid = sids + 1
  OBVIOUS
<1>s. PICK s : s =
        [dev |-> p.dev, window |-> NewWindow, ctr |-> 0, peer |-> p.from,
         validated |-> knownIp[p.dev] = p.from.ip,
         credit |-> 3 * Size("HS1") - Size("HS2"), heard |-> now, resp |-> EmptyMap]
  OBVIOUS
<1>r. PICK ss \in Evicted(sessions) : OnRequest(Put(ss, sid, s), queue, sid, p.req)
  BY <1>id, <1>s DEF Accepted
<1>tt. PICK tt : tt = Put(ss, sid, s)
  OBVIOUS
<1>1. OnRequest(tt, queue, sid, p.req)
  BY <1>r, <1>tt
<1>2. Typed
  BY DEF KnownInv
<1>3. IsSession(s) /\ s.heard = now
  <2>1. IsSession(s)
    BY <1>2, <1>s, NewSessionTyped
  <2> QED BY <1>s, <2>1
<1>4. DOMAIN sessions \subseteq 1 .. sids /\ sids \in Nat
  BY <1>2 DEF Typed, SessionsTyped, Numbers
<1>5. DOMAIN ss \subseteq DOMAIN sessions /\ AllSessions(ss) /\ sid \notin DOMAIN ss
  BY <1>2, <1>4, <1>id, RoomMade
<1>6. /\ DOMAIN tt = DOMAIN ss \cup {sid} /\ tt[sid] = s
      /\ \A x \in DOMAIN ss : tt[x] = ss[x]
  BY <1>5, <1>tt DEF Put
<1>7. AllSessions(tt)
  BY <1>3, <1>5, <1>6 DEF AllSessions
<1>8. ASSUME NEW l \in Lanes, NEW j \in runs, WaitedFor(l, j), j.life = restarts
      PROVE  /\ j.sid \in DOMAIN tt /\ LeavesOf(sessions[j.sid], tt[j.sid])
             /\ tt[j.sid].heard \in {sessions[j.sid].heard, now}
  <2>1. j.sid \in DOMAIN ss /\ ss[j.sid] = sessions[j.sid]
    BY <1>2, <1>8, NotEvicted
  <2> QED BY <1>5, <1>6, <2>1 DEF LeavesOf
<1> QED BY <1>1, <1>3, <1>6, <1>7, <1>8, RequestHeld

LEMMA HeardIs ==
  ASSUME Typed, NEW p \in up, p.t \in {"REQ", "DONE"}, p.sid \in DOMAIN sessions
  PROVE  /\ IsSession(Heard(p)) /\ Heard(p).resp = sessions[p.sid].resp /\ Heard(p).heard = now
         /\ Heard(p).peer = p.from
<1>1. IsSession(sessions[p.sid])
  BY Standing DEF AllSessions
<1>2. Heard(p).heard = now /\ Heard(p).peer = p.from
  BY <1>1 DEF Heard, IsSession
<1> QED BY <1>2, HeardTyped

LEMMA FrameHeld ==
  ASSUME KnownInv, HeldInv, NEW p \in up, OnFrame(p), UNCHANGED <<cvars, restarts, now>>, up' \subseteq up
  PROVE  HeldInv'
<1>s. PICK s : s = Heard(p)
  OBVIOUS
<1>v. PICK v : v = (s.validated \/ (p.req.echo /\ ~s.validated))
  OBVIOUS
<1>t. PICK t : t = [s EXCEPT !.validated = v]
  OBVIOUS
<1>tt. PICK tt : tt = [sessions EXCEPT ![p.sid] = t]
  OBVIOUS
<1>1. p.sid \in DOMAIN sessions /\ p.t = "REQ" /\ OnRequest(tt, queue, p.sid, p.req)
  BY <1>s, <1>v, <1>t, <1>tt DEF OnFrame
<1>2. Typed
  BY DEF KnownInv
<1>3. IsSession(s) /\ s.resp = sessions[p.sid].resp /\ s.heard = now
  BY <1>1, <1>2, <1>s, HeardIs
<1>4. SameSession(s, t) /\ t.ctr = s.ctr /\ t.resp = s.resp /\ t.heard = now
  BY <1>3, <1>t DEF IsSession, SameSession
<1>5. IsSession(t)
  BY <1>3, <1>4, SessionLike DEF IsSession
<1>6. /\ DOMAIN tt = DOMAIN sessions /\ AllSessions(tt) /\ tt[p.sid] = t
      /\ \A x \in DOMAIN sessions : x /= p.sid => tt[x] = sessions[x]
  BY <1>1, <1>2, <1>5, <1>tt, Standing, OneSession
<1>7. ASSUME NEW l \in Lanes, NEW j \in runs, WaitedFor(l, j), j.life = restarts
      PROVE  /\ j.sid \in DOMAIN tt /\ LeavesOf(sessions[j.sid], tt[j.sid])
             /\ tt[j.sid].heard \in {sessions[j.sid].heard, now}
  <2>1. j.sid \in DOMAIN sessions
    BY <1>7, WaitedHeld
  <2> QED BY <1>3, <1>4, <1>6, <2>1 DEF LeavesOf
<1> QED BY <1>1, <1>4, <1>6, <1>7, RequestHeld

(* T_DONE takes away nothing that is waited for.                           *)
LEMMA DoneHeld ==
  ASSUME KnownInv, HeldInv, NEW p \in up, OnDone(p), UNCHANGED <<cvars, restarts, now>>, up' \subseteq up
  PROVE  HeldInv'
<1>s. PICK s : s = Heard(p)
  OBVIOUS
<1>d. PICK d : d = [s EXCEPT !.resp = Without(@, p.id)]
  OBVIOUS
<1>1. /\ p.sid \in DOMAIN sessions /\ p.t = "DONE" /\ sessions' = [sessions EXCEPT ![p.sid] = d]
      /\ UNCHANGED <<jobs, runs>>
  BY <1>s, <1>d DEF OnDone
<1>2. Typed /\ now \in Nat
  BY DEF KnownInv, HelloInv, Typing, Counts
<1>3. IsSession(s) /\ s.resp = sessions[p.sid].resp /\ s.heard = now
  BY <1>1, <1>2, <1>s, HeardIs
<1>4. d.resp = Without(s.resp, p.id) /\ d.heard = now
  BY <1>3, <1>d DEF IsSession
<1>5. ASSUME NEW l \in Lanes, NEW j \in runs, WaitedFor(l, j), j.life = restarts PROVE StillIn(j)
  <2>1. /\ j.sid \in DOMAIN sessions /\ j.id \in DOMAIN sessions[j.sid].resp
        /\ j \in jobs => ~sessions[j.sid].resp[j.id].ready
    BY <1>5, WaitedHeld
  <2>2. j.id /= p.id
    BY <1>1, <1>5 DEF HeldInv, DonesOver, WaitedFor
  <2>3. CASE j.sid = p.sid
    <3>1. sessions'[j.sid] = d
      BY <1>1, <2>3
    <3>2. j.id \in DOMAIN d.resp /\ d.resp[j.id] = sessions[j.sid].resp[j.id]
      BY <1>3, <1>4, <2>1, <2>2, <2>3 DEF Without
    <3> QED BY <1>1, <1>4, <2>1, <3>1, <3>2 DEF StillIn
  <2>4. CASE j.sid /= p.sid
    BY <1>1, <2>1, <2>4 DEF StillIn
  <2> QED BY <2>3, <2>4
<1> QED BY <1>1, <1>2, <1>5, HeldOn

LEMMA UplinkHeld ==
  ASSUME KnownInv, HeldInv, HasRoom, Uplink
  PROVE  HeldInv'
<1>1. PICK p \in up : Receive(p)
  BY DEF Uplink
<1>2. UNCHANGED <<cvars, restarts, now>> /\ up' \subseteq up
  BY <1>1 DEF Uplink, Receive, Remaining
<1>3. CASE p.t = "HS1" /\ OnHello(p)
  BY <1>2, <1>3, NotTakenHeld, AcceptedHeld DEF OnHello
<1>4. CASE NoSuchSession(p) \/ Replayed(p) \/ OnDone(p) \/ OnFrame(p)
  BY <1>2, <1>4, NotTakenHeld, DoneHeld, FrameHeld
<1> QED BY <1>1, <1>3, <1>4 DEF Receive

(* The engine answers a request that is open; it would take one away that  *)
(* was answered before.                                                    *)
LEMMA RespondHeld ==
  ASSUME KnownInv, HeldInv, NEW job \in jobs, Respond(job), UNCHANGED cvars
  PROVE  HeldInv'
<1>s. PICK s : s = sessions[job.sid]
  OBVIOUS
<1>r. PICK r : r = s.resp[job.id]
  OBVIOUS
<1>d. PICK d : d = [s EXCEPT !.resp = Without(@, job.id)]
  OBVIOUS
<1>0. UNCHANGED <<runs, restarts, now, up>> /\ jobs' = jobs \ {job} /\ now \in Nat
  BY DEF Respond, net, KnownInv, HelloInv, Typing, Counts
<1>1. \/ /\ job.sid \in DOMAIN sessions /\ job.id \in DOMAIN s.resp
         /\ \E spare \in 0 .. MaxSpare :
              LET ready == [r EXCEPT !.ready = TRUE, !.at = now, !.run = job.run, !.next = spare]
                  s1 == [s EXCEPT !.resp[job.id] = ready]
              IN sessions' = [sessions EXCEPT ![job.sid] = [s1 EXCEPT !.ctr = @ + K + spare]]
      \/ /\ job.sid \in DOMAIN sessions /\ job.id \in DOMAIN s.resp /\ r.ready
         /\ sessions' = [sessions EXCEPT ![job.sid] = d]
      \/ sessions' = sessions
  BY <1>s, <1>r, <1>d DEF Respond, OpenRequests
<1>2. job \in runs /\ job.life = restarts
  BY DEF KnownInv, RunsInv, HeldInv, JobsAlive
<1>3. ASSUME NEW l \in Lanes, NEW j \in runs, WaitedFor(l, j), j.life = restarts,
             NEW t, sessions' = [sessions EXCEPT ![job.sid] = t], t.heard = s.heard,
             \A id \in DOMAIN s.resp : id /= job.id => id \in DOMAIN t.resp /\ t.resp[id] = s.resp[id],
             \/ job.id \in DOMAIN t.resp /\ t.resp[job.id].at = now
             \/ r.ready
      PROVE  StillIn(j)
  <2>1. /\ j.sid \in DOMAIN sessions /\ j.id \in DOMAIN sessions[j.sid].resp
        /\ j \in jobs => ~sessions[j.sid].resp[j.id].ready
        /\ job.sid = j.sid /\ job.id = j.id => job = j
    BY <1>2, <1>3, WaitedHeld
  <2>2. CASE j.sid /= job.sid
    BY <1>0, <1>3, <2>1, <2>2 DEF StillIn
  <2>3. CASE j.sid = job.sid /\ j.id /= job.id
    BY <1>0, <1>3, <1>s, <2>1, <2>3 DEF StillIn
  <2>4. CASE j = job
    <3>1. ~r.ready
      BY <1>r, <1>s, <2>1, <2>4
    <3>2. j \notin jobs'
      BY <1>0, <2>4
    <3> QED BY <1>3, <1>s, <2>1, <2>4, <3>1, <3>2 DEF StillIn
  <2> QED BY <2>1, <2>2, <2>3, <2>4
<1>4. ASSUME job.sid \in DOMAIN sessions
      PROVE  IsSession(s) /\ IsResponses(s.resp)
  BY <1>4, <1>s, Standing DEF AllSessions, IsSession, KnownInv
<1>5. CASE sessions' = sessions
  <2>1. Leaves(sessions, sessions') /\ jobs' \subseteq jobs
    BY <1>0, <1>5, LeavesSame
  <2> QED BY <1>0, <2>1, QuietHeld
<1>6. CASE /\ job.sid \in DOMAIN sessions /\ job.id \in DOMAIN s.resp /\ r.ready
           /\ sessions' = [sessions EXCEPT ![job.sid] = d]
  <2>1. d.resp = Without(s.resp, job.id) /\ d.heard = s.heard
    BY <1>4, <1>6, <1>d DEF IsSession
  <2>2. \A id \in DOMAIN s.resp : id /= job.id => id \in DOMAIN d.resp /\ d.resp[id] = s.resp[id]
    BY <2>1 DEF Without
  <2>3. \A l \in Lanes, j \in runs : WaitedFor(l, j) /\ j.life = restarts => StillIn(j)
    BY <1>3, <1>6, <2>1, <2>2
  <2> QED BY <1>0, <2>3, HeldOn
<1>7. ASSUME job.sid \in DOMAIN sessions, job.id \in DOMAIN s.resp, NEW spare,
             NEW ready, ready = [r EXCEPT !.ready = TRUE, !.at = now, !.run = job.run, !.next = spare],
             NEW s1, s1 = [s EXCEPT !.resp[job.id] = ready],
             sessions' = [sessions EXCEPT ![job.sid] = [s1 EXCEPT !.ctr = @ + K + spare]]
      PROVE  HeldInv'
  <2>t. PICK t : t = [s1 EXCEPT !.ctr = @ + K + spare]
    OBVIOUS
  <2>1. IsResponse(r) /\ IsSession(s)
    BY <1>4, <1>7, <1>r DEF IsResponses
  <2>2. ready.at = now
    BY <1>7, <2>1 DEF IsResponse
  <2>3. DOMAIN s1 = DOMAIN s /\ s1.resp = [s.resp EXCEPT ![job.id] = ready] /\ s1.heard = s.heard
    BY <1>7, <2>1 DEF IsSession
  <2>4. t.resp = s1.resp /\ t.heard = s.heard
    BY <2>1, <2>3, <2>t DEF IsSession
  <2>5. /\ \A id \in DOMAIN s.resp : id /= job.id => id \in DOMAIN t.resp /\ t.resp[id] = s.resp[id]
        /\ job.id \in DOMAIN t.resp /\ t.resp[job.id].at = now
    BY <1>7, <2>2, <2>3, <2>4
  <2>6. sessions' = [sessions EXCEPT ![job.sid] = t]
    BY <1>7, <2>t
  <2>7. \A l \in Lanes, j \in runs : WaitedFor(l, j) /\ j.life = restarts => StillIn(j)
    BY <1>3, <2>4, <2>5, <2>6
  <2> QED BY <1>0, <2>7, HeldOn
<1> QED BY <1>1, <1>5, <1>6, <1>7

(* A sweep takes away nothing younger than a fetch that keeps its deadline.*)
LEMMA SweepHeld ==
  ASSUME Timeout < ResponseKeep, KnownInv, HeldInv, Punctual, Sweep, UNCHANGED cvars
  PROVE  HeldInv'
<1> DEFINE live == {x \in DOMAIN sessions : now - sessions[x].heard < SessionIdle}
<1>1. /\ sessions' = [x \in live |-> Swept(sessions[x])]
      /\ UNCHANGED <<runs, jobs, restarts, up, now>> /\ now \in Nat
  BY DEF Sweep, net, KnownInv, HelloInv, Typing, Counts
<1>2. ASSUME NEW l \in Lanes, NEW j \in runs, WaitedFor(l, j), j.life = restarts PROVE StillIn(j)
  <2>s. PICK s : s = sessions[j.sid]
    OBVIOUS
  <2>r. PICK r : r = s.resp[j.id]
    OBVIOUS
  <2>t. PICK t : t = Swept(s)
    OBVIOUS
  <2>b. PICK b : b = client[l].began
    OBVIOUS
  <2>1. /\ j.sid \in DOMAIN sessions /\ j.id \in DOMAIN s.resp /\ (j \in jobs => ~r.ready)
    BY <1>2, <2>s, <2>r, WaitedHeld
  <2>2. s.heard \in b .. now /\ r.at \in b .. now
    BY <1>2, <2>s, <2>r, <2>b DEF HeldInv, HeldSince
  <2>3. b \in Nat /\ now - b < ResponseKeep
    <3>1. b \in 0 .. now /\ now - b <= Timeout
      BY <1>2, <2>b DEF HeldInv, BeganBefore, Punctual, Active, WaitedFor, Waits
    <3> QED BY <1>1, <3>1, TimeoutAssumption, KeepsAssumption
  <2>4. now - s.heard < SessionIdle /\ now - r.at < ResponseKeep /\ now - r.at < PendingKeep
    BY <1>1, <2>2, <2>3, KeepsAssumption
  <2>5. j.sid \in DOMAIN sessions' /\ sessions'[j.sid] = t
    BY <1>1, <2>1, <2>4, <2>s, <2>t
  <2>6. IsSession(s)
    BY <2>1, <2>s, Standing DEF AllSessions, KnownInv
  <2>7. /\ t.heard = s.heard
        /\ t.resp = [id \in {id \in DOMAIN s.resp : now - s.resp[id].at <
                              (IF s.resp[id].ready THEN ResponseKeep ELSE PendingKeep)} |-> s.resp[id]]
    BY <2>6, <2>t DEF IsSession, Swept
  <2>8. j.id \in DOMAIN t.resp /\ t.resp[j.id] = r
    BY <2>1, <2>4, <2>7, <2>r
  <2> QED BY <1>1, <2>1, <2>5, <2>7, <2>8, <2>r, <2>s DEF StillIn
<1> QED BY <1>1, <1>2, HeldOn

(* After a restart nothing is of this life of the gateway.                 *)
LEMMA RestartHeld ==
  ASSUME KnownInv, HeldInv, Restart, UNCHANGED cvars
  PROVE  HeldInv'
<1>1. /\ jobs' = {} /\ restarts' = restarts + 1 /\ UNCHANGED <<runs, up, now, client, asked>>
  BY DEF Restart, net, cvars
<1>2. restarts \in Nat /\ \A j \in runs : j.life \in 0 .. restarts
  BY DEF KnownInv, HelloInv, Typing, Counts, RunsInv, RunsNumbered, IsRunning
<1>3. \A j \in runs : j.life /= restarts'
  BY <1>1, <1>2
<1>4. HeldSince'
  BY <1>1, <1>3 DEF HeldSince
<1>5. JobsOpen' /\ JobsAlive'
  BY <1>1 DEF JobsOpen, JobsAlive
<1>6. DonesOver' /\ BeganBefore'
  BY <1>1 DEF HeldInv, DonesOver, BeganBefore, Waits
<1> QED BY <1>4, <1>5, <1>6 DEF HeldInv

LEMMA GatewayHeld ==
  ASSUME Timeout < ResponseKeep, KnownInv, HeldInv, Punctual, Gateway
  PROVE  HeldInv'
<1>1. UNCHANGED cvars /\ up' = up
  BY DEF Gateway, Poll, PollDrop, PollSend, Answer, Respond, Refuse, SendWorking, Sweep, SetKeys,
         Restart, TimePasses, Tick, net
<1>2. now \in Nat /\ Typed
  BY DEF KnownInv, HelloInv, Typing, Counts
<1>3. CASE SetKeys \/ TimePasses \/ (\E job \in jobs : Refuse(job)) \/ (\E o \in queue : PollDrop(o))
  <2>1. /\ UNCHANGED <<runs, restarts, sessions>> /\ jobs' \subseteq jobs
        /\ now' = now \/ now' = now + 1
    BY <1>3 DEF SetKeys, TimePasses, Tick, Refuse, PollDrop, gateway
  <2> QED BY <1>1, <1>2, <2>1, LeavesSame, QuietHeld
<1>4. CASE \E w \in working : SendWorking(w)
  <2>1. UNCHANGED <<runs, restarts, jobs, now>>
    BY <1>4 DEF SendWorking
  <2> QED BY <1>1, <1>2, <1>4, <2>1, SendWorkingLeaves, QuietHeld
<1>5. CASE \E o \in queue : PollSend(o)
  <2>1. UNCHANGED <<runs, restarts, jobs, now>>
    BY <1>5 DEF PollSend
  <2> QED BY <1>1, <1>2, <1>5, <2>1, PollSendLeaves, QuietHeld
<1> QED BY <1>1, <1>3, <1>4, <1>5, RespondHeld, SweepHeld, RestartHeld DEF Gateway, Poll, Answer
-----------------------------------------------------------------------------
LEMMA HeldNext ==
  ASSUME Timeout < ResponseKeep
  PROVE  KnownInv /\ HeldInv /\ HasRoom /\ Punctual /\ [Next]_vars => HeldInv'
<1> SUFFICES ASSUME KnownInv, HeldInv, HasRoom, Punctual, [Next]_vars PROVE HeldInv'
  OBVIOUS
<1>1. CASE Uplink
  BY <1>1, UplinkHeld
<1>2. CASE Downlink
  <2>1. PICK l \in Lanes, p \in down, copied \in BOOLEAN :
          Arrives(l, p, Remaining(p, down, copied), now)
    BY <1>2 DEF Downlink
  <2>2. UNCHANGED gvars /\ rebinds' = rebinds
    BY <1>2 DEF Downlink
  <2> QED BY <2>1, <2>2, ArrivesMoves, ArrivesTurns, PhoneHeld
<1>3. CASE Lose \/ UNCHANGED vars
  <2>1. UNCHANGED <<gvars, cvars>> /\ up' \subseteq up
    BY <1>3 DEF Lose, LoseUp, LoseDown, vars, net
  <2>2. UNCHANGED <<sessions, runs, jobs, now, restarts>> /\ now \in Nat
    BY <2>1 DEF gvars, gateway, KnownInv, HelloInv, Typing, Counts
  <2> QED BY <2>1, <2>2, LeavesSame, QuietHeld
<1>4. ASSUME NEW l \in Lanes, Fetch(l) \/ Rebind(l) \/ Wait(l) \/ Deadline(l) PROVE HeldInv'
  <2>1. UNCHANGED gvars
    BY <1>4 DEF Fetch, Rebind, Wait, Deadline
  <2>2. Moves(l)
    BY <1>4, StartMoves, RebindMoves, HelloAgainMoves, TimerMoves, GiveUpMoves
       DEF Fetch, Wait, Deadline
  <2> QED BY <1>4, <2>1, <2>2, LaneTurns, PhoneHeld
<1>5. CASE Gateway
  BY <1>5, GatewayHeld
<1> QED BY <1>1, <1>2, <1>3, <1>4, <1>5 DEF Next

LEMMA HeldInit == Init => HeldInv
<1> SUFFICES ASSUME Init PROVE HeldInv
  OBVIOUS
<1>1. up = {} /\ jobs = {} /\ runs = {} /\ client = [l \in Lanes |-> NoFetch]
  BY DEF Init, NetInit, GatewayInit, ClientInit
<1>2. \A l \in Lanes : ~Waits(client[l])
  BY <1>1 DEF Waits, NoFetch
<1> QED BY <1>1, <1>2 DEF HeldInv, HeldSince, JobsOpen, DonesOver, BeganBefore, JobsAlive

LEMMA KnownInit == Init => KnownInv
BY TypedInit, HelloInit, PromiseInit DEF KnownInv

LEMMA KnownNext ==
  ASSUME \A lead \in Leads : lead < Fresh
  PROVE  KnownInv /\ NoneForgotten /\ [Next]_vars => KnownInv'
BY TypedNext, HelloNext, PromiseNext DEF KnownInv, KeepsPromise

(* A fetch begins now, and time stops at the first deadline.               *)
LEMMA PunctualInit == Init => Punctual
<1> SUFFICES ASSUME Init PROVE Punctual
  OBVIOUS
<1>1. client = [l \in Lanes |-> NoFetch]
  BY DEF Init, ClientInit
<1> QED BY <1>1 DEF Punctual, Active, NoFetch

LEMMA PunctualNext == KnownInv /\ HeldInv /\ Punctual /\ [Next]_vars => Punctual'
<1> SUFFICES ASSUME KnownInv, HeldInv, Punctual, [Next]_vars PROVE Punctual'
  OBVIOUS
<1>1. now \in Nat /\ Timeout \in Nat
  BY TimeoutAssumption DEF KnownInv, HelloInv, Typing, Counts
<1>2. ASSUME NEW l \in Lanes, Moves(l), Turns(l), now' = now PROVE Punctual'
  BY <1>1, <1>2, WaitersStay DEF Punctual, Active, Waits
<1>3. ASSUME UNCHANGED <<client, now>> PROVE Punctual'
  BY <1>3 DEF Punctual, Active
<1>4. ASSUME TimePasses, UNCHANGED cvars PROVE Punctual'
  <2>1. now' = now + 1 /\ client' = client
    BY <1>4 DEF TimePasses, Tick, cvars
  <2>2. ASSUME NEW l \in Lanes, client[l].pc \in {"handshake", "exchange"}
        PROVE  now' - client'[l].began <= Timeout
    <3>1. client[l].began \in 0 .. now /\ now - client[l].began < Timeout
      BY <1>4, <2>2 DEF TimePasses, InTime, HeldInv, BeganBefore, Active, Waits
    <3> QED BY <1>1, <2>1, <3>1
  <2> QED BY <2>1, <2>2 DEF Punctual, Active
<1>5. CASE Uplink \/ Lose \/ UNCHANGED vars
  BY <1>3, <1>5 DEF Uplink, Receive, Lose, vars, gvars, cvars
<1>6. CASE Downlink
  <2>1. PICK l \in Lanes, p \in down, copied \in BOOLEAN :
          Arrives(l, p, Remaining(p, down, copied), now)
    BY <1>6 DEF Downlink
  <2>2. UNCHANGED <<gvars, now>> /\ rebinds' = rebinds
    BY <1>6 DEF Downlink, gvars
  <2> QED BY <1>2, <2>1, <2>2, ArrivesMoves, ArrivesTurns
<1>7. ASSUME NEW l \in Lanes, Fetch(l) \/ Rebind(l) \/ Wait(l) \/ Deadline(l) PROVE Punctual'
  <2>1. UNCHANGED <<gvars, now>>
    BY <1>7 DEF Fetch, Rebind, Wait, Deadline, gvars
  <2>2. Moves(l)
    BY <1>7, StartMoves, RebindMoves, HelloAgainMoves, TimerMoves, GiveUpMoves
       DEF Fetch, Wait, Deadline
  <2> QED BY <1>2, <1>7, <2>1, <2>2, LaneTurns
<1>8. CASE Gateway
  <2>1. CASE TimePasses
    BY <1>4, <1>8, <2>1 DEF Gateway
  <2>2. CASE ~TimePasses
    <3>1. now' = now
      BY <1>8, <2>2 DEF Gateway, Poll, PollDrop, PollSend, Answer, Respond, Refuse, SendWorking,
                        Sweep, SetKeys, Restart
    <3> QED BY <1>3, <1>8, <3>1 DEF Gateway, cvars
  <2> QED BY <2>1, <2>2
<1> QED BY <1>5, <1>6, <1>7, <1>8 DEF Next

(* What was run for a fetch that waits is not forgotten before the fetch   *)
(* has its answer (gateway.rs:476), neither for a session that needs room, *)
(* nor in a sweep, nor for a T_DONE, nor for a late answer of the engine:  *)
(* no fetch waits longer than an answer is kept, which the deadlines of    *)
(* 45 s for a page and 110 s for a sign-in do not against 120 s, and the   *)
(* gateway's 50000 sessions are not all younger than a fetch that waits.   *)
LEMMA NoneIsForgotten ==
  ASSUME Timeout < ResponseKeep, \A lead \in Leads : lead < Fresh
  PROVE  Spec /\ []HasRoom => []NoneForgotten
<1>1. Init => KnownInv /\ HeldInv /\ Punctual
  BY KnownInit, HeldInit, PunctualInit
<1>2. KnownInv /\ HeldInv /\ HasRoom /\ Punctual /\ [Next]_vars => KnownInv' /\ HeldInv' /\ Punctual'
  BY KnownNext, HeldNext, HeldIsKept, PunctualNext
<1>3. HeldInv => NoneForgotten
  BY HeldIsKept
<1> HIDE DEF KnownInv, HeldInv, HasRoom, Punctual, NoneForgotten
<1> QED BY <1>1, <1>2, <1>3, PTL DEF Spec

THEOREM StillHeldHolds ==
  ASSUME Timeout < ResponseKeep, \A lead \in Leads : lead < Fresh
  PROVE  Spec /\ []HasRoom => []StillHeld
<1>1. NoneForgotten => StillHeld
  BY DEF NoneForgotten, StillHeld
<1> HIDE DEF HasRoom, NoneForgotten, StillHeld
<1> QED BY <1>1, NoneIsForgotten, PTL

(* So UDP mode keeps what fetch() promises under those conditions.         *)
THEOREM PromiseKeptInTime ==
  ASSUME Timeout < ResponseKeep, \A lead \in Leads : lead < Fresh
  PROVE  Spec /\ []HasRoom => PromiseKept
BY NoneIsForgotten, PromiseKeptHolds, PTL
-----------------------------------------------------------------------------
(***************************************************************************)
(* A request that is sent reaches the gateway or goes on being sent.       *)
(* BringInv: an address is never given twice, so whatever the gateway      *)
(* sends to the address of a fetch, it sends because it heard from there;  *)
(* all that it hears from there is of the one request, with its body until *)
(* that request was taken; and a session that message 2 brings was made    *)
(* with the request it carried.                                            *)
(***************************************************************************)
(* No request comes to a session that has as many open as it may have.     *)
NotFull ==
  \A p \in up :
    p.t = "REQ" /\ p.sid \in DOMAIN sessions /\ p.req.id \notin DOMAIN sessions[p.sid].resp =>
      Cardinality(OpenRequests(sessions[p.sid])) < MaxPending

Ran(sid, id) == \E j \in runs : j.sid = sid /\ j.id = id

RanNext(sid, id) == \E j \in runs' : j.sid = sid /\ j.id = id

Old(a) == a.port \in 1 .. fetches + rebinds
OldNext(a) == a.port \in 1 .. fetches' + rebinds'

Addresses ==
  /\ (\A p \in up : Old(p.from)) /\ (\A p \in down : Old(p.to))
  /\ \A x \in DOMAIN sessions : Old(sessions[x].peer)
  /\ \A l \in Lanes : Waits(client[l]) => Old(client[l].addr)
  /\ \A l, m \in Lanes :
       Waits(client[l]) /\ Waits(client[m]) /\ client[l].addr = client[m].addr => l = m

RespRan == \A x \in DOMAIN sessions : \A id \in DOMAIN sessions[x].resp : Ran(x, id)

(* The requests that name an ephemeral key: one for each key, which rides  *)
(* in message 1 or does not.                                               *)
Rides(e, i) ==
  \/ \E p \in up : p.t = "HS1" /\ p.eph = e /\ p.req.id = i /\ p.req.body
  \/ \E l \in Lanes :
       client[l].pc = "handshake" /\ client[l].eph = e /\ client[l].id = i /\ ~client[l].secret

Follows(e, i) ==
  \/ \E p \in up : p.t = "HS1" /\ p.eph = e /\ p.req.id = i /\ ~p.req.body
  \/ \E l \in Lanes :
       client[l].pc = "handshake" /\ client[l].eph = e /\ client[l].id = i /\ client[l].secret

OneId ==
  /\ \A e, i, k : Rides(e, i) /\ Rides(e, k) => i = k
  /\ \A e, i, k : ~(Rides(e, i) /\ Follows(e, k))

HelloRan ==
  /\ \A e \in DOMAIN handshakes : \A i : Rides(e, i) => Ran(handshakes[e].sid, i)
  /\ \A p \in down : p.t = "HS2" => \A i : Rides(p.eph, i) => Ran(p.sid, i)

Taken(c) == Ran(c.sid, c.id) \/ c.sid \notin DOMAIN sessions

Reached(c) == Hears(c) \/ \E x \in DOMAIN sessions : sessions[x].peer = c.addr

Carries(p, c) == p.t = "REQ" /\ p.sid = c.sid /\ p.req.id = c.id /\ (p.req.body \/ Taken(c))

Brings(c) ==
  IF c.resettable THEN (Reached(c) => Taken(c)) /\ \A p \in up : p.from = c.addr => Carries(p, c)
  ELSE Ran(c.sid, c.id)

Bringing ==
  \A l \in Lanes : \A c \in {client[l]} : c.pc = "exchange" /\ ~AfterMessage2(c) => Brings(c)

BringInv == Addresses /\ RespRan /\ OneId /\ HelloRan /\ Bringing
-----------------------------------------------------------------------------
(* A step of a phone.                                                      *)
NewHello(e, i) == e = hellos + 1 /\ i = Len(asked) + 1

LEMMA HellosOn ==
  ASSUME KnownInv, NEW l \in Lanes, Turns(l)
  PROVE  \/ /\ \A e, i : Rides(e, i)' => Rides(e, i) \/ NewHello(e, i)
            /\ \A e, i : Follows(e, i)' => Follows(e, i)
         \/ /\ \A e, i : Rides(e, i)' => Rides(e, i)
            /\ \A e, i : Follows(e, i)' => Follows(e, i) \/ NewHello(e, i)
<1>c. PICK c : c = client[l]
  OBVIOUS
<1>d. PICK d : client' = [client EXCEPT ![l] = d] /\ Turn(c, d)
  BY <1>c DEF Turns
<1>0. DOMAIN client = Lanes
  BY LaneShape
<1>1. \A m \in Lanes : client'[m] = IF m = l THEN d ELSE client[m]
  BY <1>0, <1>d
<1>2. d.pc = "handshake" =>
        \/ NewHello(d.eph, d.id)
        \/ /\ c.pc = "handshake" /\ d.eph = c.eph /\ d.id = c.id
           /\ d.secret <=> c.secret
  BY <1>d DEF Turn, Opens, Shakes, Stays, Joins, Stops, Waits, NewHello
<1>3. \A p \in up' : p.t = "HS1" =>
        \/ p \in up
        \/ NewHello(p.eph, p.req.id) /\ (p.req.body <=> ~d.secret)
        \/ /\ c.pc = "handshake" /\ p.eph = c.eph /\ p.req.id = c.id
           /\ p.req.body <=> ~c.secret
  BY <1>d DEF Turn, Opens, Shakes, Stays, Joins, Stops, NewHello
<1>4. ASSUME NEW e, NEW i, Rides(e, i)' PROVE Rides(e, i) \/ (NewHello(e, i) /\ ~d.secret)
  <2>1. CASE \E p \in up' : p.t = "HS1" /\ p.eph = e /\ p.req.id = i /\ p.req.body
    BY <1>3, <1>c, <2>1 DEF Rides
  <2>2. CASE \E m \in Lanes : /\ client'[m].pc = "handshake" /\ client'[m].eph = e
                               /\ client'[m].id = i /\ ~client'[m].secret
    BY <1>1, <1>2, <1>c, <2>2 DEF Rides
  <2> QED BY <1>4, <2>1, <2>2 DEF Rides
<1>5. ASSUME NEW e, NEW i, Follows(e, i)' PROVE Follows(e, i) \/ (NewHello(e, i) /\ d.secret)
  <2>1. CASE \E p \in up' : p.t = "HS1" /\ p.eph = e /\ p.req.id = i /\ ~p.req.body
    BY <1>3, <1>c, <2>1 DEF Follows
  <2>2. CASE \E m \in Lanes : /\ client'[m].pc = "handshake" /\ client'[m].eph = e
                               /\ client'[m].id = i /\ client'[m].secret
    BY <1>1, <1>2, <1>c, <2>2 DEF Follows
  <2> QED BY <1>5, <2>1, <2>2 DEF Follows
<1>6. CASE d.secret
  BY <1>4, <1>5, <1>6
<1>7. CASE ~d.secret
  BY <1>4, <1>5, <1>7
<1> QED BY <1>6, <1>7

LEMMA HellosOld ==
  ASSUME Typed, NEW e, NEW i, Rides(e, i) \/ Follows(e, i)
  PROVE  e \in 1 .. hellos
<1>1. CASE \E p \in up : p.t = "HS1" /\ p.eph = e /\ p.req.id = i
  BY <1>1 DEF Typed, PacketsTyped, IsUp
<1>2. CASE \E l \in Lanes : client[l].pc = "handshake" /\ client[l].eph = e /\ client[l].id = i
  BY <1>2 DEF Typed, LanesTyped, IsFetch, IsActive
<1> QED BY <1>1, <1>2 DEF Rides, Follows

LEMMA PhoneHellos ==
  ASSUME KnownInv, BringInv, NEW l \in Lanes, Turns(l), UNCHANGED gvars, down' \subseteq down
  PROVE  OneId' /\ HelloRan' /\ RespRan'
<1>1. UNCHANGED <<sessions, handshakes, runs>>
  BY DEF gvars, gateway
<1>2. Typed /\ hellos \in Nat
  BY DEF KnownInv, Typed, Numbers
<1>3. \A e, i : Rides(e, i)' => Rides(e, i) \/ NewHello(e, i)
  BY HellosOn
<1>4. \A e, i : Rides(e, i) \/ Follows(e, i) => e /= hellos + 1
  BY <1>2, HellosOld
<1>5. OneId'
  <2>1. \A e, i, k : Rides(e, i)' /\ Rides(e, k)' => i = k
    BY <1>3, <1>4 DEF BringInv, OneId, NewHello
  <2>2. \A e, i, k : ~(Rides(e, i)' /\ Follows(e, k)')
    BY <1>4, HellosOn DEF BringInv, OneId, NewHello
  <2> QED BY <2>1, <2>2 DEF OneId
<1>6. \A e \in DOMAIN handshakes : e /= hellos + 1
  BY <1>2 DEF Typed, HandshakesTyped
<1>7. \A p \in down : p.t = "HS2" => p.eph /= hellos + 1
  BY <1>2 DEF Typed, PacketsTyped, IsDown
<1>8. HelloRan'
  <2>1. \A sid, i : Ran(sid, i) => RanNext(sid, i)
    BY <1>1 DEF Ran, RanNext
  <2>2. ASSUME NEW e \in DOMAIN handshakes, NEW i, Rides(e, i)' PROVE Ran(handshakes[e].sid, i)
    <3>1. Rides(e, i)
      BY <1>3, <1>6, <2>2 DEF NewHello
    <3> QED BY <3>1 DEF BringInv, HelloRan
  <2>3. ASSUME NEW p \in down, p.t = "HS2", NEW i, Rides(p.eph, i)' PROVE Ran(p.sid, i)
    <3>1. Rides(p.eph, i)
      BY <1>3, <1>7, <2>3 DEF NewHello
    <3> QED BY <2>3, <3>1 DEF BringInv, HelloRan
  <2>4. \A e \in DOMAIN handshakes' : \A i : Rides(e, i)' => RanNext(handshakes'[e].sid, i)
    BY <1>1, <2>1, <2>2
  <2>5. \A p \in down' : p.t = "HS2" => \A i : Rides(p.eph, i)' => RanNext(p.sid, i)
    BY <2>1, <2>3
  <2> QED BY <2>4, <2>5 DEF HelloRan, Ran, RanNext
<1> QED BY <1>1, <1>5, <1>8 DEF BringInv, RespRan, Ran

(* A lane that turns keeps its address or has a new one.                   *)
LEMMA TurnAddress ==
  ASSUME KnownInv, NEW c, NEW d, Turn(c, d), Waits(d), Waits(c) => c.addr.port \in 1 .. fetches + rebinds
  PROVE  /\ 1 .. fetches + rebinds \subseteq 1 .. fetches' + rebinds'
         /\ \/ Waits(c) /\ d.addr = c.addr
            \/ d.addr.port = fetches + rebinds + 1 /\ d.addr.port \in 1 .. fetches' + rebinds'
<1>1. fetches \in Nat /\ rebinds \in Nat
  BY DEF KnownInv, Typed, Numbers
<1>2. CASE FromHere(c, d) /\ Waits(c)
  BY <1>1, <1>2 DEF FromHere
<1>3. CASE FromAfresh(c, d)
  BY <1>1, <1>3 DEF FromAfresh
<1>4. CASE Stays(c, d)
  BY <1>1, <1>4 DEF Stays
<1> QED BY <1>2, <1>3, <1>4 DEF Turn, Opens, AfterHello, Shakes, Joins, Stops, Waits

LEMMA TurnPackets ==
  ASSUME NEW c, NEW d, Turn(c, d), Waits(c) \/ Waits(d), NEW p \in up', p \notin up
  PROVE  (Waits(c) /\ p.from = c.addr) \/ (Waits(d) /\ p.from = d.addr)
<1>1. CASE Opens(c, d) \/ Shakes(c, d)
  BY <1>1 DEF Opens, AfterHello, Shakes, Waits
<1>2. CASE Stays(c, d)
  BY <1>2 DEF Stays, Waits
<1>3. CASE Joins(c, d)
  BY <1>3 DEF Joins
<1>4. CASE Stops(c, d)
  BY <1>4 DEF Stops
<1> QED BY <1>1, <1>2, <1>3, <1>4 DEF Turn

LEMMA TurnGrows ==
  ASSUME KnownInv, NEW c, NEW d, Turn(c, d)
  PROVE  1 .. fetches + rebinds \subseteq 1 .. fetches' + rebinds'
<1>1. fetches \in Nat /\ rebinds \in Nat
  BY DEF KnownInv, Typed, Numbers
<1>2. \/ fetches' = fetches /\ rebinds' = rebinds
      \/ fetches' = fetches + 1 /\ rebinds' = rebinds
      \/ fetches' = fetches /\ rebinds' = rebinds + 1
  BY DEF Turn, Opens, AfterHello, Shakes, Stays, Joins, Stops, FromAfresh, FromHere
<1> QED BY <1>1, <1>2

LEMMA PhoneAddresses ==
  ASSUME KnownInv, BringInv, NEW l \in Lanes, NEW c, c = client[l], NEW d,
         client' = [client EXCEPT ![l] = d], Turn(c, d), UNCHANGED gvars, down' \subseteq down
  PROVE  Addresses'
<1>1. UNCHANGED sessions /\ DOMAIN client = Lanes
  BY LaneShape DEF gvars, gateway
<1>2. 1 .. fetches + rebinds \subseteq 1 .. fetches' + rebinds' /\ fetches + rebinds \in Nat
  BY TurnGrows DEF KnownInv, Typed, Numbers
<1>3. \A a : Old(a) => OldNext(a)
  BY <1>2 DEF Old, OldNext
<1>4. Waits(c) => Old(c.addr)
  BY DEF BringInv, Addresses
<1>5. Waits(d) => \/ Waits(c) /\ d.addr = c.addr
                  \/ d.addr.port = fetches + rebinds + 1 /\ OldNext(d.addr)
  BY <1>4, TurnAddress DEF Old, OldNext
<1>6. Waits(d) => OldNext(d.addr)
  BY <1>3, <1>4, <1>5
<1>7. \A m \in Lanes : client'[m] = IF m = l THEN d ELSE client[m]
  BY <1>1
<1>8. \A m \in Lanes : Waits(client'[m]) => OldNext(client'[m].addr)
  BY <1>3, <1>6, <1>7 DEF BringInv, Addresses
<1>9. \A p \in up' : OldNext(p.from)
  <2> SUFFICES ASSUME NEW p \in up' PROVE OldNext(p.from)
    OBVIOUS
  <2>1. CASE p \in up
    BY <1>3, <2>1 DEF BringInv, Addresses
  <2>2. CASE p \notin up
    <3>1. Waits(c) \/ Waits(d)
      BY <2>2 DEF Turn, Opens, AfterHello, Shakes, Stays, Joins, Stops, Waits
    <3>2. (Waits(c) /\ p.from = c.addr) \/ (Waits(d) /\ p.from = d.addr)
      BY <2>2, <3>1, TurnPackets
    <3> QED BY <1>3, <1>4, <1>6, <3>2
  <2> QED BY <2>1, <2>2
<1>10. \A p \in down' : OldNext(p.to)
  BY <1>3 DEF BringInv, Addresses
<1>11. \A x \in DOMAIN sessions' : OldNext(sessions'[x].peer)
  BY <1>1, <1>3 DEF BringInv, Addresses
<1>12. \A m \in Lanes : m /= l /\ Waits(d) /\ Waits(client[m]) => client[m].addr /= d.addr
  <2> SUFFICES ASSUME NEW m \in Lanes, m /= l, Waits(d), Waits(client[m]), client[m].addr = d.addr PROVE FALSE
    OBVIOUS
  <2>1. client[m].addr.port \in 1 .. fetches + rebinds
    BY DEF BringInv, Addresses, Old
  <2>2. d.addr.port /= fetches + rebinds + 1
    BY <1>2, <2>1
  <2>3. Waits(client[l]) /\ client[l].addr = client[m].addr
    BY <1>5, <2>2
  <2> QED BY <2>3 DEF BringInv, Addresses
<1>13. \A k, m \in Lanes : Waits(client'[k]) /\ Waits(client'[m]) /\ client'[k].addr = client'[m].addr => k = m
  BY <1>7, <1>12 DEF BringInv, Addresses
<1> QED BY <1>8, <1>9, <1>10, <1>11, <1>13 DEF Addresses, Waits, Old, OldNext

LEMMA OthersBring ==
  ASSUME NEW c, Brings(c), UNCHANGED <<sessions, runs>>, down' \subseteq down,
         \A p \in up' : p \in up \/ p.from /= c.addr
  PROVE  Brings(c)'
<1>1. Taken(c)' <=> Taken(c)
  BY DEF Taken, Ran
<1>2. Ran(c.sid, c.id)' <=> Ran(c.sid, c.id)
  BY DEF Ran
<1>3. Reached(c)' => Reached(c)
  BY DEF Reached, Hears, Told
<1>4. \A p \in up : Carries(p, c) => Carries(p, c)'
  BY <1>1 DEF Carries
<1> QED BY <1>1, <1>2, <1>3, <1>4 DEF Brings

LEMMA OpensBrings ==
  ASSUME KnownInv, BringInv, NEW c, NEW d, ~AfterHello(c, d), Opens(c, d),
         UNCHANGED <<sessions, runs>>, down' \subseteq down
  PROVE  Brings(d)'
<1>1. FromAfresh(c, d) /\ d.resettable
  BY DEF Opens
<1>2. d.addr.port \notin 1 .. fetches + rebinds
  BY <1>1 DEF FromAfresh, KnownInv, Typed, Numbers
<1>3. /\ \A p \in down' : p.to /= d.addr
      /\ \A x \in DOMAIN sessions' : sessions'[x].peer /= d.addr
      /\ \A p \in up : p.from /= d.addr
  BY <1>2 DEF BringInv, Addresses, Old
<1>4. ~Reached(d)'
  BY <1>1, <1>3 DEF Reached, Hears, FromAfresh, Told
<1>5. \A p \in up' : p.from = d.addr => Carries(p, d)'
  BY <1>3 DEF Opens, Carries
<1> QED BY <1>1, <1>4, <1>5 DEF Brings

LEMMA StaysBrings ==
  ASSUME KnownInv, BringInv, NEW c, NEW d, c.pc = "exchange", Stays(c, d), Brings(c), Old(c.addr),
         UNCHANGED <<sessions, runs>>, down' \subseteq down
  PROVE  Brings(d)'
<1>1. /\ d.sid = c.sid /\ d.id = c.id /\ d.resettable = c.resettable /\ (Told(d) => Hears(c))
      /\ d.addr = c.addr \/ d.addr.port = fetches + rebinds + 1
      /\ \A p \in up' : \/ p \in up
                        \/ /\ p.t = "REQ" /\ p.from = c.addr /\ p.sid = c.sid /\ p.req.id = c.id
                           /\ p.req.body \/ Hears(c)
  BY DEF Stays
<1>2. (Taken(d)' <=> Taken(c)) /\ (Ran(d.sid, d.id)' <=> Ran(c.sid, c.id))
  BY <1>1 DEF Taken, Ran
<1>3. CASE ~c.resettable
  BY <1>1, <1>2, <1>3 DEF Brings
<1>4. CASE c.resettable /\ d.addr = c.addr
  <2>1. Reached(c) => Taken(c)
    BY <1>4 DEF Brings
  <2>2. Reached(d)' => Reached(c)
    BY <1>1, <1>4 DEF Reached, Hears, Told
  <2>3. \A p \in up' : p.from = d.addr => Carries(p, d)'
    <3> SUFFICES ASSUME NEW p \in up', p.from = d.addr PROVE Carries(p, d)'
      OBVIOUS
    <3>1. p.t = "REQ" /\ p.sid = c.sid /\ p.req.id = c.id /\ (p.req.body \/ Taken(c))
      BY <1>1, <1>4, <2>1 DEF Brings, Carries, Reached
    <3> QED BY <1>1, <1>2, <3>1 DEF Carries
  <2> QED BY <1>1, <1>2, <1>4, <2>1, <2>2, <2>3 DEF Brings
<1>5. CASE c.resettable /\ d.addr.port = fetches + rebinds + 1
  <2>1. d.addr.port \notin 1 .. fetches + rebinds
    BY <1>5 DEF KnownInv, Typed, Numbers
  <2>2. /\ \A p \in down' : p.to /= d.addr
        /\ \A x \in DOMAIN sessions' : sessions'[x].peer /= d.addr
        /\ \A p \in up : p.from /= d.addr
        /\ c.addr /= d.addr
    BY <2>1 DEF BringInv, Addresses, Old
  <2>3. Reached(d)' => Reached(c)
    BY <1>1, <2>2 DEF Reached, Hears, Told
  <2>4. \A p \in up' : p.from /= d.addr
    BY <1>1, <2>2
  <2> QED BY <1>1, <1>2, <1>5, <2>3, <2>4 DEF Brings
<1> QED BY <1>1, <1>3, <1>4, <1>5

LEMMA TurnBrings ==
  ASSUME KnownInv, BringInv, NEW l \in Lanes, NEW c, c = client[l], NEW d,
         Turn(c, d), d.pc = "exchange", ~AfterMessage2(d), UNCHANGED <<sessions, runs>>,
         down' \subseteq down
  PROVE  Brings(d)'
<1>1. Waits(c) => Old(c.addr)
  BY DEF BringInv, Addresses
<1>2. CASE Opens(c, d)
  <2>1. c.pc = "handshake" => c.eph > 0
    BY DEF KnownInv, Typed, LanesTyped, IsFetch, IsActive
  <2>2. ~AfterHello(c, d)
    BY <2>1 DEF AfterHello, AfterMessage2
  <2> QED BY <1>2, <2>2, OpensBrings
<1>3. CASE Stays(c, d)
  <2>1. c.pc = "exchange" /\ ~AfterMessage2(c)
    BY <1>3 DEF Stays, AfterMessage2
  <2>2. Brings(c)
    BY <2>1 DEF BringInv, Bringing
  <2> QED BY <1>1, <1>3, <2>1, <2>2, StaysBrings DEF Waits
<1>4. CASE Joins(c, d)
  <2>1. PICK p \in down : p.t = "HS2" /\ p.eph = c.eph /\ p.sid = d.sid
    BY <1>4 DEF Joins
  <2>2. Rides(c.eph, c.id) /\ d.id = c.id /\ d.resettable = FALSE
    BY <1>4 DEF Joins, Rides
  <2>3. Ran(d.sid, d.id)
    BY <2>1, <2>2 DEF BringInv, HelloRan
  <2> QED BY <2>2, <2>3 DEF Brings, Ran
<1> QED BY <1>2, <1>3, <1>4 DEF Turn, Shakes, Stops, Waits

LEMMA PhoneBring ==
  ASSUME KnownInv, BringInv, NEW l \in Lanes, Turns(l), UNCHANGED gvars, down' \subseteq down
  PROVE  BringInv'
<1>c. PICK c : c = client[l]
  OBVIOUS
<1>d. PICK d : client' = [client EXCEPT ![l] = d] /\ Turn(c, d)
  BY <1>c DEF Turns
<1>1. UNCHANGED <<sessions, runs>> /\ DOMAIN client = Lanes
  BY LaneShape DEF gvars, gateway
<1>2. \A m \in Lanes : client'[m] = IF m = l THEN d ELSE client[m]
  BY <1>1, <1>d
<1>3. Addresses'
  BY <1>c, <1>d, PhoneAddresses
<1>5. OneId' /\ HelloRan' /\ RespRan'
  BY PhoneHellos
<1>6. Bringing'
  <2> SUFFICES ASSUME NEW m \in Lanes, NEW b, b = client'[m], b.pc = "exchange", ~AfterMessage2(b)
               PROVE  Brings(b)'
    BY DEF Bringing
  <2>1. CASE m = l
    BY <1>1, <1>2, <1>c, <1>d, <2>1, TurnBrings
  <2>2. CASE m /= l
    <3>1. b = client[m] /\ Brings(b) /\ Waits(b)
      BY <1>2, <2>2 DEF BringInv, Bringing, Waits
    <3>2. ASSUME NEW p \in up', p \notin up PROVE p.from /= b.addr
      <4>1. Waits(c) \/ Waits(d)
        BY <1>d, <3>2 DEF Turn, Opens, AfterHello, Shakes, Stays, Joins, Stops, Waits
      <4>2. (Waits(c) /\ p.from = c.addr) \/ (Waits(d) /\ p.from = d.addr)
        BY <1>d, <3>2, <4>1, TurnPackets
      <4>3. Waits(c) => c.addr /= b.addr
        BY <1>c, <2>2, <3>1 DEF BringInv, Addresses
      <4>4. Waits(d) => d.addr /= b.addr
        BY <1>2, <2>2, <3>1, <1>3 DEF Addresses, Waits
      <4> QED BY <4>2, <4>3, <4>4
    <3> QED BY <1>1, <3>1, <3>2, OthersBring
  <2> QED BY <2>1, <2>2
<1> QED BY <1>3, <1>5, <1>6 DEF BringInv
-----------------------------------------------------------------------------
(* A step of the gateway.  What it hears, it takes, or took before, or it  *)
(* has no such session; and it sends to where it was heard from.           *)
Heeded(p) ==
  p.t = "REQ" /\ p.sid \in DOMAIN sessions' =>
    RanNext(p.sid, p.req.id) \/ ~p.req.body

HeardAt(a) ==
  \/ \E x \in DOMAIN sessions : sessions[x].peer = a
  \/ \E p \in up : p.from = a /\ Heeded(p)

RanFor(e, sid) == \A i : Rides(e, i) => RanNext(sid, i)

LEMMA BringOn ==
  ASSUME KnownInv, BringInv, UNCHANGED <<cvars, rebinds>>, up' \subseteq up, runs \subseteq runs',
         NoOldSession,
         \A x \in DOMAIN sessions' : HeardAt(sessions'[x].peer),
         \A x \in DOMAIN sessions' : \A id \in DOMAIN sessions'[x].resp : RanNext(x, id),
         \A q \in down' : q \in down \/ (HeardAt(q.to) /\ (q.t = "HS2" => RanFor(q.eph, q.sid))),
         \A e \in DOMAIN handshakes' :
           \/ e \in DOMAIN handshakes /\ handshakes'[e].sid = handshakes[e].sid
           \/ RanFor(e, handshakes'[e].sid)
  PROVE  BringInv'
<1>1. UNCHANGED <<client, fetches, hellos>>
  BY DEF cvars
<1>2. \A a : HeardAt(a) => Old(a)
  BY DEF HeardAt, BringInv, Addresses
<1>3. Addresses'
  <2>1. \A a : OldNext(a) <=> Old(a)
    BY <1>1 DEF Old, OldNext
  <2>2. /\ \A p \in up' : OldNext(p.from)
        /\ \A p \in down' : OldNext(p.to)
        /\ \A x \in DOMAIN sessions' : OldNext(sessions'[x].peer)
        /\ \A l \in Lanes : Waits(client[l]) => OldNext(client[l].addr)
    BY <1>2, <2>1 DEF BringInv, Addresses
  <2> QED BY <1>1, <2>2 DEF BringInv, Addresses, Old, OldNext, Waits
<1>5. RespRan'
  BY DEF RespRan, Ran, RanNext
<1>6. \A e, i : (Rides(e, i)' => Rides(e, i)) /\ (Follows(e, i)' => Follows(e, i))
  BY <1>1 DEF Rides, Follows
<1>7. OneId'
  BY <1>6 DEF BringInv, OneId
<1>8. \A sid, i : Ran(sid, i) => RanNext(sid, i)
  BY DEF Ran, RanNext
<1>9. HelloRan'
  <2>1. \A e \in DOMAIN handshakes : RanFor(e, handshakes[e].sid)
    BY <1>8 DEF BringInv, HelloRan, RanFor
  <2>2. \A p \in down : p.t = "HS2" => RanFor(p.eph, p.sid)
    BY <1>8 DEF BringInv, HelloRan, RanFor
  <2>3. \A e \in DOMAIN handshakes' : RanFor(e, handshakes'[e].sid)
    BY <2>1
  <2>4. \A p \in down' : p.t = "HS2" => RanFor(p.eph, p.sid)
    BY <2>2
  <2>5. \A e \in DOMAIN handshakes' : \A i : Rides(e, i)' => RanNext(handshakes'[e].sid, i)
    BY <1>6, <2>3 DEF RanFor
  <2>6. \A p \in down' : p.t = "HS2" => \A i : Rides(p.eph, i)' => RanNext(p.sid, i)
    BY <1>6, <2>4 DEF RanFor
  <2> QED BY <2>5, <2>6 DEF HelloRan, Ran, RanNext
<1>10. Bringing'
  <2> SUFFICES ASSUME NEW l \in Lanes, NEW c, c = client[l], c.pc = "exchange", ~AfterMessage2(c)
               PROVE  Brings(c)'
    BY <1>1 DEF Bringing
  <2>1. Brings(c) /\ c.sid \in 1 .. sids
    BY DEF BringInv, Bringing, KnownInv, Typed, LanesTyped, IsFetch, IsActive
  <2>2. Ran(c.sid, c.id) => Ran(c.sid, c.id)'
    BY DEF Ran
  <2>3. Taken(c) => Taken(c)'
    BY <2>1, <2>2 DEF Taken, NoOldSession
  <2>4. CASE ~c.resettable
    BY <2>1, <2>2, <2>4 DEF Brings
  <2>5. CASE c.resettable
    <3>1. \A p \in up : p.from = c.addr => Carries(p, c)
      BY <2>1, <2>5 DEF Brings
    <3>2. \A p \in up' : p.from = c.addr => Carries(p, c)'
      BY <2>3, <3>1 DEF Carries
    <3>3. Reached(c) => Taken(c)
      BY <2>1, <2>5 DEF Brings
    <3>4. HeardAt(c.addr) => Taken(c)'
      <4> SUFFICES ASSUME HeardAt(c.addr) PROVE Taken(c)'
        OBVIOUS
      <4>1. CASE \E x \in DOMAIN sessions : sessions[x].peer = c.addr
        BY <2>3, <3>3, <4>1 DEF Reached
      <4>2. CASE \E p \in up : p.from = c.addr /\ Heeded(p)
        <5>1. PICK p \in up : p.from = c.addr /\ Heeded(p) /\ Carries(p, c)
          BY <3>1, <4>2
        <5>2. RanNext(c.sid, c.id) \/ c.sid \notin DOMAIN sessions' \/ Taken(c)
          BY <5>1 DEF Heeded, Carries
        <5> QED BY <2>3, <5>2 DEF Taken, Ran, RanNext
      <4> QED BY <4>1, <4>2 DEF HeardAt
    <3>5. Reached(c)' => Reached(c) \/ HeardAt(c.addr)
      <4>1. CASE Told(c)
        BY <4>1 DEF Reached, Hears
      <4>2. CASE \E p \in down' : p.to = c.addr
        BY <4>2 DEF Reached, Hears
      <4>3. CASE \E x \in DOMAIN sessions' : sessions'[x].peer = c.addr
        BY <4>3
      <4>4. Reached(c)' => \/ Told(c) \/ \E p \in down' : p.to = c.addr
                           \/ \E x \in DOMAIN sessions' : sessions'[x].peer = c.addr
        BY DEF Reached, Hears, Told
      <4> QED BY <4>1, <4>2, <4>3, <4>4
    <3> QED BY <2>3, <2>5, <3>2, <3>3, <3>4, <3>5 DEF Brings
  <2> QED BY <2>4, <2>5
<1> QED BY <1>3, <1>5, <1>7, <1>9, <1>10 DEF BringInv

(* Sessions and handshakes may go, and requests with them; no more.        *)
Fades ==
  /\ \A x \in DOMAIN sessions' :
       /\ x \in DOMAIN sessions /\ sessions'[x].peer = sessions[x].peer
       /\ DOMAIN sessions'[x].resp \subseteq DOMAIN sessions[x].resp
  /\ \A e \in DOMAIN handshakes' : e \in DOMAIN handshakes /\ handshakes'[e] = handshakes[e]

LEMMA FadesBring ==
  ASSUME KnownInv, BringInv, UNCHANGED <<cvars, rebinds, runs>>, up' \subseteq up, Fades,
         \A q \in down' : q \in down \/ (HeardAt(q.to) /\ (q.t = "HS2" => RanFor(q.eph, q.sid)))
  PROVE  BringInv'
<1>1. NoOldSession
  BY DEF NoOldSession, Fades
<1>2. \A x \in DOMAIN sessions' : HeardAt(sessions'[x].peer)
  BY DEF Fades, HeardAt
<1>3. \A x \in DOMAIN sessions' : \A id \in DOMAIN sessions'[x].resp : RanNext(x, id)
  BY DEF Fades, BringInv, RespRan, Ran, RanNext
<1> QED BY <1>1, <1>2, <1>3, BringOn DEF Fades

LEMMA LeavesFades ==
  ASSUME Leaves(sessions, sessions'), Fewer(sessions, sessions'), UNCHANGED handshakes
  PROVE  Fades
BY DEF Leaves, Fewer, Alike, Fades

LEMMA NotTakenBring ==
  ASSUME KnownInv, BringInv, NEW p \in up, UNCHANGED <<cvars, rebinds>>, up' \subseteq up,
         \/ p.t = "HS1" /\ (Repeated(p) \/ UnknownKey(p) \/ Refused(p))
         \/ NoSuchSession(p) \/ Replayed(p)
  PROVE  BringInv'
<1>1. UNCHANGED <<runs, handshakes>>
  BY DEF Repeated, UnknownKey, Refused, NoSuchSession, Replayed, gateway
<1>2. CASE p.t = "HS1" /\ Repeated(p)
  <2>h. PICK h : h = handshakes[p.eph]
    OBVIOUS
  <2>1. \A q \in down' : q \in down \/ q = HelloReply(p.eph, h.sid, h.key, p.from)
    BY <1>2, <2>h DEF Repeated, Send
  <2>2. HeardAt(p.from)
    BY <1>2 DEF HeardAt, Heeded
  <2>3. RanFor(p.eph, h.sid)
    <3>1. \A i : Rides(p.eph, i) => Ran(h.sid, i)
      BY <1>2, <2>h DEF Repeated, BringInv, HelloRan
    <3> QED BY <1>1, <3>1 DEF RanFor, Ran, RanNext
  <2>4. \A q \in down' : q \in down \/ (HeardAt(q.to) /\ (q.t = "HS2" => RanFor(q.eph, q.sid)))
    BY <2>1, <2>2, <2>3 DEF HelloReply
  <2>5. Fades
    BY <1>1, <1>2, RepeatedLeaves, LeavesFades DEF KnownInv
  <2> QED BY <1>1, <2>4, <2>5, FadesBring
<1>3. CASE \/ p.t = "HS1" /\ (UnknownKey(p) \/ Refused(p))
           \/ NoSuchSession(p) \/ Replayed(p)
  <2>1. sessions' = sessions
    BY <1>3 DEF UnknownKey, Refused, NoSuchSession, Replayed, gateway
  <2>2. Fades
    BY <1>1, <2>1 DEF Fades
  <2>3. \A q \in down' : \/ q \in down
                         \/ p.t = "HS1" /\ q = WrongKey(p.eph, p.from)
                         \/ p.sid \notin DOMAIN sessions /\ q \in Resets(p)
    BY <1>3 DEF UnknownKey, Refused, NoSuchSession, Replayed, Send
  <2>4. p.t = "HS1" \/ p.sid \notin DOMAIN sessions => HeardAt(p.from)
    BY <2>1 DEF HeardAt, Heeded
  <2>5. \A q \in down' : q \in down \/ (HeardAt(q.to) /\ (q.t = "HS2" => RanFor(q.eph, q.sid)))
    BY <2>3, <2>4 DEF WrongKey, Resets, ResetOf
  <2> QED BY <1>1, <2>2, <2>5, FadesBring
<1> QED BY <1>2, <1>3

LEMMA RequestBring ==
  ASSUME KnownInv, BringInv, NEW ss, AllSessions(ss), NEW q, NEW sid \in DOMAIN ss, NEW req,
         OnRequest(ss, q, sid, req),
         \A x \in DOMAIN ss : \A id \in DOMAIN ss[x].resp : Ran(x, id)
  PROVE  /\ runs \subseteq runs' /\ DOMAIN sessions' = DOMAIN ss
         /\ \A x \in DOMAIN ss : sessions'[x].peer = ss[x].peer
         /\ \A x \in DOMAIN ss : \A id \in DOMAIN sessions'[x].resp : RanNext(x, id)
         /\ RanNext(sid, req.id) \/ ~req.body \/ ~(Cardinality(OpenRequests(ss[sid])) < MaxPending)
<1>1. /\ Leaves(ss, sessions')
      /\ \/ UNCHANGED <<jobs, runs>> /\ Fewer(ss, sessions') /\ Unheeded(ss, sid, req)
         \/ Takes(ss, sid, req.id) /\ \E j : Begins(j, sid, req.id)
  BY OnRequestLeaves
<1>2. DOMAIN sessions' = DOMAIN ss /\ \A x \in DOMAIN ss : sessions'[x].peer = ss[x].peer
  BY <1>1 DEF Leaves, Alike
<1>3. CASE UNCHANGED <<jobs, runs>> /\ Fewer(ss, sessions') /\ Unheeded(ss, sid, req)
  <2>1. \A x \in DOMAIN ss : \A id \in DOMAIN sessions'[x].resp : RanNext(x, id)
    BY <1>2, <1>3 DEF Fewer, Ran, RanNext
  <2>2. Knows(ss[sid], req.id) => RanNext(sid, req.id)
    BY <1>3 DEF Knows, Ran, RanNext
  <2> QED BY <1>2, <1>3, <2>1, <2>2 DEF Unheeded
<1>4. CASE Takes(ss, sid, req.id) /\ \E j : Begins(j, sid, req.id)
  <2>1. runs \subseteq runs' /\ RanNext(sid, req.id)
    BY <1>4 DEF Begins, RanNext
  <2>2. \A x \in DOMAIN ss : \A id \in DOMAIN sessions'[x].resp : RanNext(x, id)
    BY <1>2, <1>4, <2>1 DEF Takes, Ran, RanNext
  <2> QED BY <1>2, <2>1, <2>2
<1> QED BY <1>1, <1>3, <1>4

LEMMA AcceptedBring ==
  ASSUME KnownInv, BringInv, NEW p \in up, p.t = "HS1", Accepted(p), UNCHANGED <<cvars, rebinds>>, up' \subseteq up
  PROVE  BringInv'
<1>id. PICK sid : sid = sids + 1
  OBVIOUS
<1>s. PICK s : s =
        [dev |-> p.dev, window |-> NewWindow, ctr |-> 0, peer |-> p.from,
         validated |-> knownIp[p.dev] = p.from.ip,
         credit |-> 3 * Size("HS1") - Size("HS2"), heard |-> now, resp |-> EmptyMap]
  OBVIOUS
<1>1. /\ \E ss \in Evicted(sessions) : OnRequest(Put(ss, sid, s), queue, sid, p.req)
      /\ handshakes' = Put(handshakes, p.eph, [at |-> now, sid |-> sid, key |-> p.key])
  BY <1>id, <1>s DEF Accepted
<1>2. PICK ss \in Evicted(sessions) : OnRequest(Put(ss, sid, s), queue, sid, p.req)
  BY <1>1
<1>3. \A q \in down' : q \in down \/ q = HelloReply(p.eph, sid, p.key, p.from)
  BY <1>id DEF Accepted, Send
<1>4. Typed /\ sids \in Nat
  BY DEF KnownInv, Typed, Numbers
<1>5. IsSession(s) /\ s.resp = EmptyMap /\ s.peer = p.from
  <2>1. IsSession(s)
    BY <1>4, <1>s, NewSessionTyped
  <2> QED BY <1>s, <2>1
<1>6. DOMAIN ss \subseteq DOMAIN sessions /\ AllSessions(ss) /\ DOMAIN sessions \subseteq 1 .. sids
  BY <1>4, RoomMade DEF Typed, SessionsTyped
<1>7. \A x \in DOMAIN ss : ss[x] = sessions[x]
  BY DEF Evicted, Without
<1>tt. PICK tt : tt = Put(ss, sid, s)
  OBVIOUS
<1>8. sid \notin DOMAIN ss
  BY <1>4, <1>6, <1>id
<1>9. DOMAIN tt = DOMAIN ss \cup {sid} /\ tt[sid] = s /\ \A x \in DOMAIN ss : tt[x] = ss[x]
  BY <1>8, <1>tt DEF Put
<1>10. AllSessions(tt)
  BY <1>5, <1>6, <1>9 DEF AllSessions
<1>11. \A x \in DOMAIN tt : \A id \in DOMAIN tt[x].resp : Ran(x, id)
  BY <1>5, <1>6, <1>7, <1>9 DEF EmptyMap, BringInv, RespRan
<1>12. /\ runs \subseteq runs' /\ DOMAIN sessions' = DOMAIN tt
       /\ \A x \in DOMAIN tt : sessions'[x].peer = tt[x].peer
       /\ \A x \in DOMAIN tt : \A id \in DOMAIN sessions'[x].resp : RanNext(x, id)
       /\ RanNext(sid, p.req.id) \/ ~p.req.body \/ ~(Cardinality(OpenRequests(tt[sid])) < MaxPending)
  <2>1. sid \in DOMAIN tt /\ OnRequest(tt, queue, sid, p.req)
    BY <1>2, <1>9, <1>tt
  <2> QED BY <1>10, <1>11, <2>1, RequestBring
<1>13. p.req.body => RanNext(sid, p.req.id)
  <2>1. OpenRequests(s) = {}
    BY <1>5 DEF OpenRequests, EmptyMap
  <2>2. Cardinality(OpenRequests(tt[sid])) = 0
    BY <1>9, <2>1, FS_EmptySet
  <2> QED BY <1>12, <2>2, LimitsAssumption
<1>14. RanFor(p.eph, sid)
  <2>1. CASE p.req.body
    <3>1. Rides(p.eph, p.req.id)
      BY <2>1 DEF Rides
    <3> QED BY <1>13, <2>1, <3>1 DEF RanFor, BringInv, OneId
  <2>2. CASE ~p.req.body
    <3>1. Follows(p.eph, p.req.id)
      BY <2>2 DEF Follows
    <3> QED BY <3>1 DEF RanFor, BringInv, OneId
  <2> QED BY <2>1, <2>2
<1>15. HeardAt(p.from)
  BY DEF HeardAt, Heeded
<1>16. \A x \in DOMAIN sessions' : HeardAt(sessions'[x].peer)
  BY <1>5, <1>6, <1>7, <1>9, <1>12, <1>15 DEF HeardAt
<1>17. \A q \in down' : q \in down \/ (HeardAt(q.to) /\ (q.t = "HS2" => RanFor(q.eph, q.sid)))
  BY <1>3, <1>14, <1>15 DEF HelloReply
<1>18. \A e \in DOMAIN handshakes' :
         \/ e \in DOMAIN handshakes /\ handshakes'[e].sid = handshakes[e].sid
         \/ RanFor(e, handshakes'[e].sid)
  BY <1>1, <1>14 DEF Put
<1>19. NoOldSession
  BY <1>4, <1>6, <1>9, <1>12, <1>id DEF NoOldSession
<1> QED BY <1>12, <1>16, <1>17, <1>18, <1>19, BringOn

LEMMA FrameBring ==
  ASSUME KnownInv, BringInv, NotFull, NEW p \in up, OnFrame(p), UNCHANGED <<cvars, rebinds>>,
         up' \subseteq up
  PROVE  BringInv'
<1>s. PICK s : s = Heard(p)
  OBVIOUS
<1>v. PICK v : v = (s.validated \/ (p.req.echo /\ ~s.validated))
  OBVIOUS
<1>t. PICK t : t = [s EXCEPT !.validated = v]
  OBVIOUS
<1>tt. PICK tt : tt = [sessions EXCEPT ![p.sid] = t]
  OBVIOUS
<1>1. /\ p.sid \in DOMAIN sessions /\ p.t = "REQ" /\ OnRequest(tt, queue, p.sid, p.req)
      /\ handshakes' = handshakes /\ \A q \in down' : q \in down
  BY <1>s, <1>v, <1>t, <1>tt DEF OnFrame, Send
<1>2. Typed
  BY DEF KnownInv
<1>3. IsSession(s) /\ s.resp = sessions[p.sid].resp /\ s.peer = p.from
  BY <1>1, <1>2, <1>s, HeardIs
<1>4. SameSession(s, t) /\ t.ctr = s.ctr /\ t.resp = s.resp /\ t.peer = p.from
  BY <1>3, <1>t DEF IsSession, SameSession
<1>5. IsSession(t)
  BY <1>3, <1>4, SessionLike DEF IsSession
<1>6. /\ DOMAIN tt = DOMAIN sessions /\ AllSessions(tt) /\ tt[p.sid] = t
      /\ \A x \in DOMAIN sessions : x /= p.sid => tt[x] = sessions[x]
  BY <1>1, <1>2, <1>5, <1>tt, Standing, OneSession
<1>7. \A x \in DOMAIN tt : \A id \in DOMAIN tt[x].resp : Ran(x, id)
  BY <1>3, <1>4, <1>6 DEF BringInv, RespRan
<1>8. /\ runs \subseteq runs' /\ DOMAIN sessions' = DOMAIN tt
      /\ \A x \in DOMAIN tt : sessions'[x].peer = tt[x].peer
      /\ \A x \in DOMAIN tt : \A id \in DOMAIN sessions'[x].resp : RanNext(x, id)
      /\ RanNext(p.sid, p.req.id) \/ ~p.req.body
           \/ ~(Cardinality(OpenRequests(tt[p.sid])) < MaxPending)
  <2>1. p.sid \in DOMAIN tt
    BY <1>1, <1>6
  <2> QED BY <1>1, <1>6, <1>7, <2>1, RequestBring
<1>9. RanNext(p.sid, p.req.id) \/ ~p.req.body
  <2>1. CASE p.req.id \in DOMAIN sessions[p.sid].resp
    BY <1>1, <1>8, <2>1 DEF BringInv, RespRan, Ran, RanNext
  <2>2. CASE p.req.id \notin DOMAIN sessions[p.sid].resp
    <3>1. OpenRequests(t) = OpenRequests(sessions[p.sid])
      BY <1>3, <1>4 DEF OpenRequests
    <3>2. Cardinality(OpenRequests(tt[p.sid])) < MaxPending
      BY <1>1, <1>6, <2>2, <3>1 DEF NotFull
    <3> QED BY <1>8, <3>2
  <2> QED BY <2>1, <2>2
<1>10. HeardAt(p.from)
  BY <1>9 DEF HeardAt, Heeded
<1>11. \A x \in DOMAIN sessions' : HeardAt(sessions'[x].peer)
  BY <1>4, <1>6, <1>8, <1>10 DEF HeardAt
<1>12. NoOldSession
  BY <1>6, <1>8 DEF NoOldSession
<1> QED BY <1>1, <1>6, <1>8, <1>11, <1>12, BringOn

LEMMA DoneBring ==
  ASSUME KnownInv, BringInv, NEW p \in up, OnDone(p), UNCHANGED <<cvars, rebinds>>, up' \subseteq up
  PROVE  BringInv'
<1>s. PICK s : s = Heard(p)
  OBVIOUS
<1>d. PICK d : d = [s EXCEPT !.resp = Without(@, p.id)]
  OBVIOUS
<1>1. /\ p.sid \in DOMAIN sessions /\ p.t = "DONE" /\ sessions' = [sessions EXCEPT ![p.sid] = d]
      /\ UNCHANGED <<runs, handshakes>> /\ \A q \in down' : q \in down
  BY <1>s, <1>d DEF OnDone, Send
<1>2. Typed
  BY DEF KnownInv
<1>3. IsSession(s) /\ s.resp = sessions[p.sid].resp /\ s.peer = p.from
  BY <1>1, <1>2, <1>s, HeardIs
<1>4. d.resp = Without(s.resp, p.id) /\ d.peer = p.from
  BY <1>3, <1>d DEF IsSession
<1>5. /\ DOMAIN sessions' = DOMAIN sessions /\ sessions'[p.sid] = d
      /\ \A x \in DOMAIN sessions : x /= p.sid => sessions'[x] = sessions[x]
  BY <1>1
<1>6. HeardAt(p.from)
  BY <1>1 DEF HeardAt, Heeded
<1>7. \A x \in DOMAIN sessions' : HeardAt(sessions'[x].peer)
  BY <1>4, <1>5, <1>6 DEF HeardAt
<1>8. DOMAIN d.resp \subseteq DOMAIN sessions[p.sid].resp
  BY <1>3, <1>4 DEF Without
<1>9. \A x \in DOMAIN sessions' : \A id \in DOMAIN sessions'[x].resp : Ran(x, id)
  BY <1>1, <1>5, <1>8 DEF BringInv, RespRan
<1>10. \A x \in DOMAIN sessions' : \A id \in DOMAIN sessions'[x].resp : RanNext(x, id)
  BY <1>1, <1>9 DEF Ran, RanNext
<1>11. NoOldSession
  BY <1>5 DEF NoOldSession
<1> QED BY <1>1, <1>7, <1>10, <1>11, BringOn

LEMMA UplinkBring ==
  ASSUME KnownInv, BringInv, NotFull, Uplink
  PROVE  BringInv'
<1>1. PICK p \in up : Receive(p)
  BY DEF Uplink
<1>2. UNCHANGED <<cvars, rebinds>> /\ up' \subseteq up
  BY <1>1 DEF Uplink, Receive, Remaining
<1>3. CASE p.t = "HS1" /\ OnHello(p)
  BY <1>2, <1>3, NotTakenBring, AcceptedBring DEF OnHello
<1>4. CASE NoSuchSession(p) \/ Replayed(p) \/ OnDone(p) \/ OnFrame(p)
  BY <1>2, <1>4, NotTakenBring, DoneBring, FrameBring
<1> QED BY <1>1, <1>3, <1>4 DEF Receive
-----------------------------------------------------------------------------
(* The gateway's own steps.                                                *)
LEMMA RespondFades ==
  ASSUME Typed, NEW job \in jobs, Respond(job)
  PROVE  Fades
<1>s. PICK s : s = sessions[job.sid]
  OBVIOUS
<1>r. PICK r : r = s.resp[job.id]
  OBVIOUS
<1>d. PICK d : d = [s EXCEPT !.resp = Without(@, job.id)]
  OBVIOUS
<1>1. \/ /\ job.sid \in DOMAIN sessions
         /\ \E spare \in 0 .. MaxSpare :
              LET ready == [r EXCEPT !.ready = TRUE, !.at = now, !.run = job.run, !.next = spare]
                  s1 == [s EXCEPT !.resp[job.id] = ready]
              IN sessions' = [sessions EXCEPT ![job.sid] = [s1 EXCEPT !.ctr = @ + K + spare]]
      \/ /\ job.sid \in DOMAIN sessions
         /\ sessions' = [sessions EXCEPT ![job.sid] = d]
      \/ sessions' = sessions
  BY <1>s, <1>r, <1>d DEF Respond
<1>2. UNCHANGED handshakes
  BY DEF Respond
<1>3. ASSUME job.sid \in DOMAIN sessions, NEW t, sessions' = [sessions EXCEPT ![job.sid] = t],
             t.peer = s.peer, DOMAIN t.resp \subseteq DOMAIN s.resp
      PROVE  Fades
  BY <1>2, <1>3, <1>s DEF Fades
<1>4. ASSUME job.sid \in DOMAIN sessions PROVE IsSession(s)
  BY <1>4, <1>s, Standing DEF AllSessions
<1>5. CASE sessions' = sessions
  BY <1>2, <1>5 DEF Fades
<1>6. CASE job.sid \in DOMAIN sessions /\ sessions' = [sessions EXCEPT ![job.sid] = d]
  <2>1. d.resp = Without(s.resp, job.id) /\ d.peer = s.peer
    BY <1>4, <1>6, <1>d DEF IsSession
  <2>2. DOMAIN d.resp \subseteq DOMAIN s.resp
    BY <2>1 DEF Without
  <2> QED BY <1>3, <1>6, <2>1, <2>2
<1>7. ASSUME job.sid \in DOMAIN sessions, NEW spare, NEW ready,
             NEW s1, s1 = [s EXCEPT !.resp[job.id] = ready],
             sessions' = [sessions EXCEPT ![job.sid] = [s1 EXCEPT !.ctr = @ + K + spare]]
      PROVE  Fades
  <2>t. PICK t : t = [s1 EXCEPT !.ctr = @ + K + spare]
    OBVIOUS
  <2>1. DOMAIN s1 = DOMAIN s /\ s1.resp = [s.resp EXCEPT ![job.id] = ready] /\ s1.peer = s.peer
    BY <1>4, <1>7 DEF IsSession
  <2>2. t.resp = s1.resp /\ t.peer = s.peer
    BY <1>4, <1>7, <2>1, <2>t DEF IsSession
  <2>3. DOMAIN t.resp = DOMAIN s.resp
    BY <2>1, <2>2
  <2> QED BY <1>3, <1>7, <2>2, <2>3, <2>t
<1> QED BY <1>1, <1>5, <1>6, <1>7

LEMMA SweepFades ==
  ASSUME Typed, Sweep
  PROVE  Fades
<1> DEFINE live == {x \in DOMAIN sessions : now - sessions[x].heard < SessionIdle}
<1>1. /\ sessions' = [x \in live |-> Swept(sessions[x])]
      /\ handshakes' = [e \in {e \in DOMAIN handshakes : now - handshakes[e].at < Remembered}
                          |-> handshakes[e]]
  BY DEF Sweep
<1>2. ASSUME NEW x \in DOMAIN sessions
      PROVE  /\ Swept(sessions[x]).peer = sessions[x].peer
             /\ DOMAIN Swept(sessions[x]).resp \subseteq DOMAIN sessions[x].resp
  <2>s. PICK s : s = sessions[x]
    OBVIOUS
  <2>1. IsSession(s)
    BY <2>s, Standing DEF AllSessions
  <2>t. PICK t : t = Swept(s)
    OBVIOUS
  <2>2. /\ t.peer = s.peer
        /\ t.resp = [id \in {id \in DOMAIN s.resp : now - s.resp[id].at <
                              (IF s.resp[id].ready THEN ResponseKeep ELSE PendingKeep)} |-> s.resp[id]]
    BY <2>1, <2>t DEF IsSession, Swept
  <2>3. DOMAIN t.resp \subseteq DOMAIN s.resp
    BY <2>2
  <2> QED BY <2>2, <2>3, <2>s, <2>t
<1>3. \A x \in DOMAIN sessions' :
        /\ x \in DOMAIN sessions /\ sessions'[x].peer = sessions[x].peer
        /\ DOMAIN sessions'[x].resp \subseteq DOMAIN sessions[x].resp
  BY <1>1, <1>2
<1>4. \A e \in DOMAIN handshakes' : e \in DOMAIN handshakes /\ handshakes'[e] = handshakes[e]
  BY <1>1
<1> QED BY <1>3, <1>4 DEF Fades

(* A packet that is due goes to where its session was last heard from.     *)
LEMMA PollSendBring ==
  ASSUME KnownInv, BringInv, NEW o \in queue, PollSend(o), UNCHANGED <<cvars, rebinds>>
  PROVE  BringInv'
<1>a. PICK a : a = sessions[o.sid].peer
  OBVIOUS
<1>2. UNCHANGED <<runs, handshakes, up>> /\ \A q \in down' : q \in down \/ q = Put(o.pkt, "to", a)
  BY <1>a DEF PollSend, Send
<1>3. o.sid \in DOMAIN sessions
  BY DEF PollSend, Lapsed
<1>4. HeardAt(a)
  BY <1>3, <1>a DEF HeardAt
<1>5. IsQueued(o)
  BY DEF KnownInv, Typed, PacketsTyped
<1>6. /\ Put(o.pkt, "to", a).t \in {"DATA", "WORKING"} /\ Put(o.pkt, "to", a).to = a
  BY <1>5 DEF Put, IsQueued
<1>7. Fades
  <2>1. Typed
    BY DEF KnownInv
  <2> QED BY <1>2, <2>1, PollSendLeaves, LeavesFades
<1>8. \A q \in down' : q \in down \/ (HeardAt(q.to) /\ (q.t = "HS2" => RanFor(q.eph, q.sid)))
  BY <1>2, <1>4, <1>6
<1> QED BY <1>2, <1>7, <1>8, FadesBring

LEMMA GatewayBring ==
  ASSUME KnownInv, BringInv, Gateway
  PROVE  BringInv'
<1>1. UNCHANGED <<cvars, rebinds, runs>> /\ up' = up
  BY DEF Gateway, Poll, PollDrop, PollSend, Answer, Respond, Refuse, SendWorking, Sweep, SetKeys,
         Restart, TimePasses, Tick, net
<1>2. Typed
  BY DEF KnownInv
<1>3. CASE \E o \in queue : PollSend(o)
  BY <1>1, <1>3, PollSendBring
<1>4. CASE \/ SetKeys \/ TimePasses \/ Sweep \/ Restart
           \/ (\E job \in jobs : Refuse(job) \/ Respond(job)) \/ (\E o \in queue : PollDrop(o))
           \/ \E w \in working : SendWorking(w)
  <2>1. \A q \in down' : q \in down
    BY <1>4 DEF SetKeys, TimePasses, Tick, Sweep, Restart, Refuse, Respond, PollDrop, SendWorking, net
  <2>2. ASSUME SetKeys \/ TimePasses \/ (\E job \in jobs : Refuse(job)) \/ (\E o \in queue : PollDrop(o))
        PROVE  Fades
    BY <2>2 DEF SetKeys, TimePasses, Tick, Refuse, PollDrop, gateway, Fades
  <2>3. ASSUME Restart PROVE Fades
    BY <2>3 DEF Restart, EmptyMap, Fades
  <2>4. ASSUME NEW w \in working, SendWorking(w) PROVE Fades
    <3>1. UNCHANGED handshakes
      BY <2>4 DEF SendWorking
    <3> QED BY <1>2, <2>4, <3>1, SendWorkingLeaves, LeavesFades
  <2>5. Fades
    BY <1>2, <1>4, <2>2, <2>3, <2>4, RespondFades, SweepFades
  <2> QED BY <1>1, <2>1, <2>5, FadesBring
<1> QED BY <1>3, <1>4 DEF Gateway, Poll, Answer
-----------------------------------------------------------------------------
LEMMA BringNext == KnownInv /\ BringInv /\ NotFull /\ [Next]_vars => BringInv'
<1> SUFFICES ASSUME KnownInv, BringInv, NotFull, [Next]_vars PROVE BringInv'
  OBVIOUS
<1>1. CASE Uplink
  BY <1>1, UplinkBring
<1>2. CASE Downlink
  <2>1. PICK l \in Lanes, p \in down, copied \in BOOLEAN :
          Arrives(l, p, Remaining(p, down, copied), now)
    BY <1>2 DEF Downlink
  <2>2. UNCHANGED gvars /\ rebinds' = rebinds /\ down' \subseteq down
    BY <1>2, <2>1 DEF Downlink, Arrives, CloseSocket, Remaining
  <2> QED BY <2>1, <2>2, ArrivesTurns, PhoneBring
<1>3. CASE Lose \/ UNCHANGED vars
  <2>1. UNCHANGED <<gvars, cvars, rebinds>> /\ up' \subseteq up /\ down' \subseteq down
    BY <1>3 DEF Lose, LoseUp, LoseDown, vars, net
  <2>2. UNCHANGED <<sessions, runs, handshakes>> /\ \A q \in down' : q \in down
    BY <2>1 DEF gvars, gateway
  <2>3. Fades
    BY <2>2 DEF Fades
  <2> QED BY <2>1, <2>2, <2>3, FadesBring
<1>4. ASSUME NEW l \in Lanes, Fetch(l) \/ Rebind(l) \/ Wait(l) \/ Deadline(l) PROVE BringInv'
  <2>1. UNCHANGED gvars
    BY <1>4 DEF Fetch, Rebind, Wait, Deadline
  <2>2. down' \subseteq down
    BY <1>4 DEF Fetch, Start, OpenSocket, Rebind, Wait, HelloAgain, Timer, Deadline, GiveUp, CloseSocket
  <2> QED BY <1>4, <2>1, <2>2, LaneTurns, PhoneBring
<1>5. CASE Gateway
  BY <1>5, GatewayBring
<1> QED BY <1>1, <1>2, <1>3, <1>4, <1>5 DEF Next

LEMMA BringInit == Init => BringInv
<1> SUFFICES ASSUME Init PROVE BringInv
  OBVIOUS
<1>1. /\ up = {} /\ down = {} /\ DOMAIN sessions = {} /\ DOMAIN handshakes = {}
      /\ client = [l \in Lanes |-> NoFetch]
  BY DEF Init, NetInit, GatewayInit, ClientInit, EmptyMap
<1>2. \A l \in Lanes : client[l].pc = "idle"
  BY <1>1 DEF NoFetch
<1>3. Addresses /\ RespRan
  BY <1>1, <1>2 DEF Addresses, RespRan, Waits
<1>4. \A e, i : ~Rides(e, i) /\ ~Follows(e, i)
  BY <1>1, <1>2 DEF Rides, Follows
<1> QED BY <1>1, <1>2, <1>3, <1>4 DEF BringInv, OneId, HelloRan, Bringing

LEMMA HeldIsBrought == KnownInv /\ HeldInv /\ BringInv => OthersNotStranded
<1> SUFFICES ASSUME KnownInv, HeldInv, BringInv, NEW l \in Lanes, NEW c, c = client[l],
                    c.pc = "exchange", ~AfterMessage2(c), ~Forgotten(c)
             PROVE  Brought(l)
  BY DEF OthersNotStranded
<1>0. c.resettable \/ restarts = 0
  BY DEF Forgotten, KnownInv, HelloInv, Typing, Counts
<1>1. Brings(c) /\ Waits(c)
  BY DEF BringInv, Bringing, Waits
<1>2. WaitsWell(c)
  BY <1>1 DEF KnownInv, WaitInv, LanesWait
<1>3. ASSUME Ran(c.sid, c.id), c.sid \in DOMAIN sessions \/ restarts = 0
      PROVE  c.sid \in DOMAIN sessions /\ c.id \in DOMAIN sessions[c.sid].resp
  <2>1. PICK j \in runs : j.sid = c.sid /\ j.id = c.id
    BY <1>3 DEF Ran
  <2>2. IsRunning(j) /\ restarts \in Nat
    BY DEF KnownInv, RunsInv, RunsNumbered, HelloInv, Typing, Counts
  <2>3. j.life = restarts
    BY <1>3, <2>1, <2>2 DEF IsRunning
  <2>4. WaitedFor(l, j)
    BY <1>1, <1>2, <2>1 DEF WaitedFor, WaitsWell
  <2> QED BY <2>1, <2>3, <2>4 DEF HeldInv, HeldSince, HasIt
<1>4. CASE ~c.resettable
  BY <1>0, <1>1, <1>3, <1>4 DEF Brings, Brought
<1>5. CASE c.resettable /\ Told(c)
  <2>1. Taken(c)
    BY <1>1, <1>5 DEF Brings, Reached, Hears
  <2> QED BY <1>3, <1>5, <2>1 DEF Taken, Brought
<1>6. CASE ~Told(c)
  BY <1>6 DEF Told, WithBody, Brought
<1> QED BY <1>4, <1>5, <1>6

(* The request of a fetch reaches the gateway or goes on being sent        *)
(* (msg.rs:16-17): a fetch is never left with a request nobody will bring, *)
(* unless it went out after message 2 (client.rs:540), or the gateway      *)
(* restarted and forgot a session it had just made; on a saved session not *)
(* even then.  So it is as long as no request finds its session with       *)
(* MAX_PENDING open: else the gateway passes it over (gateway.rs:502) and  *)
(* yet is heard at its address.                                            *)
THEOREM OthersNotStrandedHolds ==
  ASSUME Timeout < ResponseKeep, \A lead \in Leads : lead < Fresh
  PROVE  Spec /\ []HasRoom /\ []NotFull => []OthersNotStranded
<1>1. Init => KnownInv /\ HeldInv /\ Punctual /\ BringInv
  BY KnownInit, HeldInit, PunctualInit, BringInit
<1>2. KnownInv /\ HeldInv /\ Punctual /\ BringInv /\ HasRoom /\ NotFull /\ [Next]_vars
        => KnownInv' /\ HeldInv' /\ Punctual' /\ BringInv'
  BY KnownNext, HeldNext, HeldIsKept, PunctualNext, BringNext
<1>3. KnownInv /\ HeldInv /\ BringInv => OthersNotStranded
  BY HeldIsBrought
<1> HIDE DEF KnownInv, HeldInv, Punctual, BringInv, HasRoom, NotFull, OthersNotStranded
<1> QED BY <1>1, <1>2, <1>3, PTL DEF Spec
-----------------------------------------------------------------------------
(***************************************************************************)
(* One session's window on its own: it lets every counter through at most  *)
(* once, for every width and every set of counters.                        *)
(***************************************************************************)
(* A window that accept() leaves behind is a window.                       *)
LEMMA AcceptType ==
  ASSUME NEW w \in Window, NEW ctr \in Nat
  PROVE  Accept(w, ctr) \in Window
<1> USE WidthAssumption DEF Window
<1>1. CASE ~w.started
  BY <1>1 DEF Accept
<1>2. CASE w.started /\ ctr > w.top
  <2>1. Shifted(w.bits, ctr - w.top) \in SUBSET (0 .. Width - 1)
    BY DEF Shifted
  <2>2. Accept(w, ctr) = [w EXCEPT !.top = ctr, !.bits = Shifted(w.bits, ctr - w.top)]
    BY <1>2 DEF Accept
  <2> QED BY <2>1, <2>2
<1>3. CASE w.started /\ ctr <= w.top /\ Accepts(w, ctr)
  <2>1. w.top - ctr \in 0 .. Width - 1
    BY <1>3 DEF Accepts
  <2> QED BY <1>3, <2>1 DEF Accept
<1>4. CASE w.started /\ ~Accepts(w, ctr)
  BY <1>4 DEF Accept, Accepts
<1> QED BY <1>1, <1>2, <1>3, <1>4

LEMMA GuardInitInv == GuardInit => GuardInv
BY WidthAssumption
   DEF GuardInit, GuardInv, GuardTyped, BehindTop, Marked, OnlyMarked, OpenedOnce, NewWindow, Window

(* A frame the window turns away leaves everything as it is.               *)
LEMMA RejectKeeps ==
  ASSUME GuardInv, NEW ctr \in Counters, Hear(ctr), ~Accepts(window, ctr)
  PROVE  UNCHANGED guardVars
BY CountersAssumption DEF Hear, Accept, Accepts, guardVars, GuardInv, GuardTyped, Window

LEMMA AcceptKeeps ==
  ASSUME GuardInv, NEW ctr \in Counters, Hear(ctr), Accepts(window, ctr)
  PROVE  GuardInv'
<1> ctr \in Nat
  BY CountersAssumption
<1> USE WidthAssumption, CountersAssumption
<1> DEFINE n == Len(opened)
<1>0. /\ opened \in Seq(Counters) /\ window \in Window
      /\ opened' = Append(opened, ctr) /\ window' = Accept(window, ctr)
      /\ DOMAIN opened = 1 .. n /\ n \in Nat
      /\ DOMAIN opened' = 1 .. n + 1
      /\ opened'[n + 1] = ctr
      /\ \A i \in 1 .. n : opened'[i] = opened[i] /\ opened[i] \in Nat
  <2>1. opened \in Seq(Counters) /\ window \in Window
    BY DEF GuardInv, GuardTyped
  <2>2. opened' = Append(opened, ctr) /\ window' = Accept(window, ctr)
    BY DEF Hear
  <2>3. DOMAIN opened = 1 .. n /\ n \in Nat /\ \A i \in 1 .. n : opened[i] \in Counters
    BY <2>1
  <2>4. /\ DOMAIN Append(opened, ctr) = 1 .. n + 1
        /\ Append(opened, ctr)[n + 1] = ctr
        /\ \A i \in 1 .. n : Append(opened, ctr)[i] = opened[i]
    BY <2>1
  <2> HIDE DEF n
  <2> QED BY <2>1, <2>2, <2>3, <2>4
<1>1. GuardTyped'
  BY <1>0, AcceptType DEF GuardTyped
<1>2. \A i \in 1 .. n : opened[i] /= ctr
  <2> SUFFICES ASSUME NEW i \in 1 .. n, opened[i] = ctr PROVE FALSE
    OBVIOUS
  <2>1. window.started /\ ctr <= window.top
    BY <1>0 DEF GuardInv, BehindTop
  <2>2. ctr + Width > window.top => window.top - ctr \in window.bits
    BY <1>0 DEF GuardInv, Marked
  <2> QED BY <1>0, <2>1, <2>2 DEF Accepts, Window
<1>3. OpenedOnce'
  BY <1>0, <1>2 DEF OpenedOnce, GuardInv
<1>4. window'.started /\ window'.top \in Nat /\ window.top \in Nat
  BY <1>0 DEF Accept, Window
<1>5. CASE ~window.started
  <2>1. n = 0
    BY <1>0, <1>5 DEF GuardInv, BehindTop
  <2>2. window' = [started |-> TRUE, top |-> ctr, bits |-> {0}]
    BY <1>0, <1>5 DEF Accept
  <2>3. BehindTop' /\ Marked' /\ OnlyMarked'
    BY <1>0, <2>1, <2>2 DEF BehindTop, Marked, OnlyMarked
  <2> QED BY <1>1, <1>3, <2>3 DEF GuardInv
<1>6. CASE window.started /\ ctr > window.top
  <2>1. window'.top = ctr /\ window'.bits = Shifted(window.bits, ctr - window.top)
    BY <1>0, <1>6 DEF Accept, Window
  <2>2. BehindTop'
    BY <1>0, <1>4, <1>6, <2>1 DEF BehindTop, GuardInv
  <2>3. Marked'
    <3> SUFFICES ASSUME NEW i \in 1 .. n + 1, opened'[i] + Width > ctr
                 PROVE  ctr - opened'[i] \in Shifted(window.bits, ctr - window.top)
      BY <1>0, <2>1 DEF Marked
    <3>1. CASE i = n + 1
      BY <1>0, <3>1 DEF Shifted
    <3>2. CASE i \in 1 .. n
      <4>0. opened'[i] = opened[i] /\ opened[i] \in Nat /\ ctr \in Nat
        BY <1>0, <3>2
      <4>1. opened[i] <= window.top
        BY <1>0, <3>2 DEF GuardInv, BehindTop
      <4>2. opened[i] + Width > window.top
        BY <1>4, <1>6, <4>0, WidthAssumption
      <4>3. window.top - opened[i] \in window.bits
        BY <1>0, <3>2, <4>2 DEF GuardInv, Marked
      <4> QED BY <1>4, <1>6, <4>0, <4>1, <4>3 DEF Shifted
    <3> QED BY <3>1, <3>2
  <2>4. OnlyMarked'
    <3> SUFFICES ASSUME NEW b \in Shifted(window.bits, ctr - window.top)
                 PROVE  b <= ctr /\ \E i \in 1 .. n + 1 : opened'[i] = ctr - b
      BY <1>0, <2>1 DEF OnlyMarked
    <3>1. CASE b = 0
      BY <1>0, <3>1
    <3>2. CASE b >= ctr - window.top /\ b - (ctr - window.top) \in window.bits
      <4> DEFINE a == b - (ctr - window.top)
      <4>0. b \in Nat
        BY DEF Shifted
      <4>1. a <= window.top
        BY <1>0, <3>2 DEF GuardInv, OnlyMarked
      <4>2. PICK i \in 1 .. n : opened[i] = window.top - a
        BY <1>0, <3>2 DEF GuardInv, OnlyMarked
      <4>3. a \in Nat /\ window.top - a = ctr - b /\ b <= ctr
        BY <1>0, <1>4, <4>0, <4>1, <3>2
      <4>4. i \in 1 .. n + 1 /\ opened'[i] = ctr - b
        BY <1>0, <4>2, <4>3
      <4> QED BY <4>3, <4>4
    <3> QED BY <3>1, <3>2 DEF Shifted
  <2> QED BY <1>1, <1>3, <2>2, <2>3, <2>4 DEF GuardInv
<1>7. CASE window.started /\ ctr <= window.top
  <2>1. window'.top = window.top /\ window'.bits = window.bits \cup {window.top - ctr}
    BY <1>0, <1>7 DEF Accept, Window
  <2>2. BehindTop'
    BY <1>0, <1>4, <1>7, <2>1 DEF BehindTop, GuardInv
  <2>3. Marked'
    BY <1>0, <1>4, <1>7, <2>1 DEF Marked, GuardInv
  <2>4. OnlyMarked'
    <3> SUFFICES ASSUME NEW b \in window.bits \cup {window.top - ctr}
                 PROVE  b <= window.top /\ \E i \in 1 .. n + 1 : opened'[i] = window.top - b
      BY <1>0, <2>1 DEF OnlyMarked
    <3>1. CASE b = window.top - ctr
      <4>1. b <= window.top /\ window.top - b = ctr
        BY <1>4, <1>7, <3>1
      <4> QED BY <1>0, <4>1
    <3>2. CASE b \in window.bits
      <4>1. b <= window.top
        BY <3>2 DEF GuardInv, OnlyMarked
      <4>2. PICK i \in 1 .. n : opened[i] = window.top - b
        BY <1>0, <3>2 DEF GuardInv, OnlyMarked
      <4> QED BY <1>0, <4>1, <4>2
    <3> QED BY <3>1, <3>2
  <2> QED BY <1>1, <1>3, <2>2, <2>3, <2>4 DEF GuardInv
<1> QED BY <1>0, <1>4, <1>5, <1>6, <1>7 DEF Window

LEMMA GuardInductive == GuardSpec => []GuardInv
<1>1. GuardInv /\ [GuardNext]_guardVars => GuardInv'
  <2> SUFFICES ASSUME GuardInv, [GuardNext]_guardVars PROVE GuardInv'
    OBVIOUS
  <2>1. ASSUME NEW ctr \in Counters, Hear(ctr) PROVE GuardInv'
    <3>1. CASE Accepts(window, ctr)
      BY <2>1, <3>1, AcceptKeeps
    <3>2. CASE ~Accepts(window, ctr)
      <4>1. UNCHANGED guardVars
        BY <2>1, <3>2, RejectKeeps
      <4> QED BY <4>1 DEF guardVars, GuardInv, GuardTyped, BehindTop, Marked, OnlyMarked, OpenedOnce
    <3> QED BY <3>1, <3>2
  <2>2. CASE UNCHANGED guardVars
    BY <2>2 DEF guardVars, GuardInv, GuardTyped, BehindTop, Marked, OnlyMarked, OpenedOnce
  <2> QED BY <2>1, <2>2 DEF GuardNext
<1> QED BY GuardInitInv, <1>1, PTL DEF GuardSpec

(* Whatever the network does, no counter of a session is acted on twice    *)
(* (ReplayWindow::accept).                                                 *)
THEOREM OpenedAtMostOnce == GuardSpec => []OpenedOnce
<1>1. GuardInv => OpenedOnce
  BY DEF GuardInv
<1> QED BY GuardInductive, <1>1, PTL

(* Nothing fresh inside the window is turned away.                         *)
THEOREM FreshPasses == GuardSpec => []NoFalseReject
<1>1. GuardInv => NoFalseReject
  <2> SUFFICES ASSUME GuardInv, NEW ctr \in Counters,
                      \A i \in DOMAIN opened : opened[i] /= ctr,
                      ctr + Width > window.top, window.started, ctr <= window.top
               PROVE  window.top - ctr < Width /\ window.top - ctr \notin window.bits
    BY CountersAssumption DEF NoFalseReject, Accepts, GuardInv, GuardTyped, Window
  <2>1. ctr \in Nat /\ window.top \in Nat
    BY CountersAssumption DEF GuardInv, GuardTyped, Window
  <2>2. \A i \in DOMAIN opened : opened[i] \in Nat
    <3>1. opened \in Seq(Counters)
      BY DEF GuardInv, GuardTyped
    <3>2. \A i \in DOMAIN opened : opened[i] \in Counters
      BY <3>1
    <3> QED BY <3>2, CountersAssumption
  <2>3. window.top - ctr \notin window.bits
    <3> SUFFICES ASSUME window.top - ctr \in window.bits PROVE FALSE
      OBVIOUS
    <3>1. PICK i \in DOMAIN opened : opened[i] = window.top - (window.top - ctr)
      BY DEF GuardInv, OnlyMarked
    <3> QED BY <2>1, <2>2, <3>1
  <2> QED BY <2>1, <2>3, WidthAssumption
<1> QED BY GuardInductive, <1>1, PTL

(* The window keeps within its width, whatever counters come               *)
(* (ReplayWindow::accept: the mask is shifted and never outgrows its bits).*)
THEOREM WindowStaysTyped == GuardSpec => []GuardTyped
<1>1. GuardInv => GuardTyped
  BY DEF GuardInv
<1> QED BY GuardInductive, <1>1, PTL
=============================================================================

---------------------------- MODULE WireGateway -----------------------------
(***************************************************************************)
(* The gateway end of UDP mode: vtop-wire/src/gateway.rs, fed by the       *)
(* sockets and the engine calls of vtop-gateway.  One action per entry     *)
(* point: receive (message 1, or a frame), respond, poll, sweep, set_keys; *)
(* and the loss of everything in a restart.                                *)
(*                                                                         *)
(* Pacing is left out: a queued packet is due at some time.  Replies that  *)
(* the code puts in `direct' go out at once, as the next poll sends them   *)
(* all whatever else happens.                                              *)
(***************************************************************************)
EXTENDS WireNet, ReplayWindow, Sequences

CONSTANTS
  K,             \* data symbols of a response
  Pool,          \* repair symbols of a response (fec::repair_pool)
  MaxSpare,      \* bound: repair symbols sent with the first burst
  MaxPending,    \* requests open per session
  MaxSessions,
  SeenCap,       \* timestamps remembered per device (64)
  ClientRepeat, Breaker, Fresh, ResponseKeep, PendingKeep, SessionIdle,
  NoIp

ASSUME SymbolsAssumption == K \in Nat \ {0} /\ Pool \in Nat \ {0}
ASSUME FreshAssumption == Fresh \in Nat
ASSUME LimitsAssumption == MaxSessions \in Nat \ {0} /\ MaxPending \in Nat \ {0}
ASSUME KeepsAssumption ==
  /\ {ResponseKeep, PendingKeep, SessionIdle} \subseteq Nat
  /\ ResponseKeep <= PendingKeep /\ ResponseKeep <= SessionIdle

VARIABLES
  now,
  gkeys,         \* the static keys, the current one first
  sessions, handshakes, seenTs, knownIp, queue, working,
  jobs,          \* requests handed to the engine, not answered yet
  runs,          \* history: every request handed to the engine
  sids,          \* history: sessions made (ids are random, never the same)
  restarts

gateway == <<sessions, handshakes, seenTs, knownIp, queue, working>>
gvars == <<now, gkeys, gateway, jobs, runs, sids, restarts>>

Put(f, x, v) == [y \in DOMAIN f \cup {x} |-> IF y = x THEN v ELSE f[y]]
Without(f, x) == [y \in DOMAIN f \ {x} |-> f[y]]
EmptyMap == [x \in {} |-> x]

GatewayInit ==
  /\ now = 0
  /\ gkeys = <<1>>
  /\ sessions = EmptyMap
  /\ handshakes = EmptyMap
  /\ seenTs = [d \in Devices |-> <<>>]
  /\ knownIp = [d \in Devices |-> NoIp]
  /\ queue = {}
  /\ working = {}
  /\ jobs = {}
  /\ runs = {}
  /\ sids = 0
  /\ restarts = 0
-----------------------------------------------------------------------------
(* The i-th repair symbol asked for: next() goes round the pool.           *)
Repair(i) == K + (i % Pool)

(* burst(): seals the symbols in order, under the session's next counters. *)
Burst(s, sid, id, round, syms) ==
  {[sid |-> sid, id |-> id,
    pkt |-> [t |-> "DATA", sid |-> sid, ctr |-> s.ctr + i - 1, id |-> id, sym |-> syms[i],
             round |-> round, pos |-> i - 1, len |-> Len(syms), run |-> s.resp[id].run]]
   : i \in 1 .. Len(syms)}

(* The first burst: all data symbols and some spare ones.                  *)
FirstBurst(spare) == [i \in 1 .. K + spare |-> IF i <= K THEN i - 1 ELSE Repair(i - K - 1)]

(* A later one: `want' symbols from where the last one stopped.            *)
MoreSymbols(next, want) == [i \in 1 .. want |-> Repair(next + i - 1)]

Notice(s, sid, id) ==
  [sid |-> sid, id |-> id, pkt |-> [t |-> "WORKING", sid |-> sid, ctr |-> s.ctr, id |-> id]]

OpenRequests(s) == {id \in DOMAIN s.resp : ~s.resp[id].ready}

(* Whatever is queued for the device's older requests goes when a new one  *)
(* comes.  What belongs to a session that is gone is left for poll().      *)
DropForDevice(q, ss, dev) == {o \in q : o.sid \in DOMAIN ss => ss[o.sid].dev /= dev}

(* request(), on the sessions `ss' and queue `q' that the caller left.     *)
KnownRequest(ss, q, sid, req) ==
  LET s == ss[sid]
      r == s.resp[req.id]
      s1 == [s EXCEPT !.resp[req.id].rounds = @ \cup {req.round}]
  IN \/ /\ req.want = 0 \/ req.round \in r.rounds
        /\ sessions' = ss /\ queue' = q
     \/ /\ req.want > 0 /\ req.round \notin r.rounds
        /\ ~r.ready
        /\ sessions' = [ss EXCEPT ![sid] = [s1 EXCEPT !.ctr = @ + 1]]
        /\ queue' = q \cup {Notice(s, sid, req.id)}
     \/ /\ req.want > 0 /\ req.round \notin r.rounds
        /\ r.ready
        /\ sessions' = [ss EXCEPT ![sid] =
             [s1 EXCEPT !.ctr = @ + req.want, !.resp[req.id].next = @ + req.want]]
        /\ queue' = q \cup Burst(s1, sid, req.id, req.round, MoreSymbols(r.next, req.want))

NewRequest(ss, q, sid, req) ==
  LET run == Cardinality(runs) + 1
      job == [sid |-> sid, id |-> req.id, run |-> run, life |-> restarts]
      resp == [ready |-> FALSE, at |-> now, round |-> req.round, rounds |-> {req.round},
               run |-> 0, next |-> 0]
  IN /\ queue' = DropForDevice(q, ss, ss[sid].dev)
     /\ sessions' = [ss EXCEPT ![sid].resp = Put(@, req.id, resp)]
     /\ working' = working \cup {[sid |-> sid, id |-> req.id]}
     /\ jobs' = jobs \cup {job}
     /\ runs' = runs \cup {job}

(* Mutant of Knows: only requests not answered yet are known.              *)
KnowsOpen(s, id) == id \in OpenRequests(s)
Knows(s, id) == id \in DOMAIN s.resp

OnRequest(ss, q, sid, req) ==
  \/ /\ Knows(ss[sid], req.id)
     /\ KnownRequest(ss, q, sid, req)
     /\ UNCHANGED <<working, jobs, runs>>
  \/ /\ ~Knows(ss[sid], req.id)
     /\ ~req.body \/ Cardinality(OpenRequests(ss[sid])) >= MaxPending
     /\ sessions' = ss /\ queue' = q
     /\ UNCHANGED <<working, jobs, runs>>
  \/ /\ ~Knows(ss[sid], req.id)
     /\ req.body /\ Cardinality(OpenRequests(ss[sid])) < MaxPending
     /\ NewRequest(ss, q, sid, req)
-----------------------------------------------------------------------------
(* handshake(): message 1 p.                                               *)
Repeated(p) ==
  LET h == handshakes[p.eph]
  IN /\ p.eph \in DOMAIN handshakes
     /\ sessions' = IF h.sid \in DOMAIN sessions
                    THEN [sessions EXCEPT ![h.sid].credit = @ + 3 * Size("HS1")] ELSE sessions
     /\ Send(IF now - h.at > ClientRepeat
             THEN {HelloReply(p.eph, h.sid, h.key, p.from)} ELSE {})
     /\ UNCHANGED <<handshakes, seenTs, knownIp, queue, working, jobs, runs, sids>>

Holds(key) == \E i \in DOMAIN gkeys : gkeys[i] = key

UnknownKey(p) ==
  /\ p.eph \notin DOMAIN handshakes
  /\ ~Holds(p.key)
  /\ Send({WrongKey(p.eph, p.from)})
  /\ UNCHANGED <<gateway, jobs, runs, sids>>

Apart(a, b) == IF a > b THEN a - b ELSE b - a

(* Mutant of Stale: only the ephemeral key tells a repeated message 1.     *)
TooOldOrNew(p) == Apart(now, p.ts.at) > Fresh

Stale(p) ==
  \/ Apart(now, p.ts.at) > Fresh
  \/ \E i \in DOMAIN seenTs[p.dev] : seenTs[p.dev][i] = p.ts

Refused(p) ==
  /\ p.eph \notin DOMAIN handshakes
  /\ Holds(p.key)
  /\ Stale(p)
  /\ Send({})
  /\ UNCHANGED <<gateway, jobs, runs, sids>>

(* At the limit the session heard from longest ago makes room.  Mutants:   *)
(* none does, or any.                                                      *)
EvictsNobody(ss) == {ss}
EvictsAny(ss) ==
  IF Cardinality(DOMAIN ss) < MaxSessions THEN {ss} ELSE {Without(ss, x) : x \in DOMAIN ss}
Evicted(ss) ==
  IF Cardinality(DOMAIN ss) < MaxSessions THEN {ss}
  ELSE {Without(ss, x) : x \in {x \in DOMAIN ss : \A y \in DOMAIN ss : ss[x].heard <= ss[y].heard}}

Accepted(p) ==
  LET sid == sids + 1
      seen == seenTs[p.dev]
      session ==
        [dev |-> p.dev, window |-> NewWindow, ctr |-> 0, peer |-> p.from,
         validated |-> knownIp[p.dev] = p.from.ip,
         credit |-> 3 * Size("HS1") - Size("HS2"), heard |-> now, resp |-> EmptyMap]
  IN /\ p.eph \notin DOMAIN handshakes
     /\ Holds(p.key)
     /\ ~Stale(p)
     /\ sids' = sid
     /\ seenTs' = [seenTs EXCEPT ![p.dev] =
                     Append(IF Len(seen) >= SeenCap THEN Tail(seen) ELSE seen, p.ts)]
     /\ handshakes' = Put(handshakes, p.eph, [at |-> now, sid |-> sid, key |-> p.key])
     /\ Send({HelloReply(p.eph, sid, p.key, p.from)})
     /\ \E ss \in Evicted(sessions) : OnRequest(Put(ss, sid, session), queue, sid, p.req)
     /\ UNCHANGED knownIp

OnHello(p) ==
  Repeated(p) \/ UnknownKey(p) \/ Refused(p) \/ Accepted(p)
-----------------------------------------------------------------------------
(* framed(): a frame p under the session's keys.                           *)

(* One reset per key, as which one made the session is gone with it; but   *)
(* no more bytes than came in, and only a frame with a request is longer   *)
(* than two resets.                                                        *)
Resets(p) ==
  {ResetOf(p.sid, gkeys[i], p.from) :
     i \in {i \in DOMAIN gkeys : i = 1 \/ (p.t = "REQ" /\ p.req.body)}}

NoSuchSession(p) ==
  /\ p.sid \notin DOMAIN sessions
  /\ Send(Resets(p))
  /\ UNCHANGED <<gateway, jobs, runs>>

Replayed(p) ==
  /\ p.sid \in DOMAIN sessions
  /\ ~Accepts(sessions[p.sid].window, p.ctr)
  /\ Send({})
  /\ UNCHANGED <<gateway, jobs, runs>>

(* What every frame that passes the window does to its session.            *)
Heard(p) ==
  LET s == sessions[p.sid]
      moved == p.from /= s.peer
  IN [s EXCEPT !.window = Accept(@, p.ctr), !.peer = p.from, !.heard = now,
               !.validated = IF moved THEN knownIp[s.dev] = p.from.ip ELSE @,
               !.credit = @ + 3 * Size(p.t)]

OnDone(p) ==
  /\ p.t = "DONE"
  /\ p.sid \in DOMAIN sessions
  /\ Accepts(sessions[p.sid].window, p.ctr)
  /\ sessions' = [sessions EXCEPT ![p.sid] = [Heard(p) EXCEPT !.resp = Without(@, p.id)]]
  /\ queue' = {o \in queue : o.sid /= p.sid \/ o.id /= p.id}
  /\ Send({})
  /\ UNCHANGED <<handshakes, seenTs, knownIp, working, jobs, runs>>

(* An echoed counter proves the address.                                   *)
OnFrame(p) ==
  /\ p.t = "REQ"
  /\ p.sid \in DOMAIN sessions
  /\ Accepts(sessions[p.sid].window, p.ctr)
  /\ LET s == Heard(p)
         proves == p.req.echo /\ ~s.validated
     IN /\ knownIp' = IF proves THEN [knownIp EXCEPT ![s.dev] = p.from.ip] ELSE knownIp
        /\ OnRequest([sessions EXCEPT ![p.sid] = [s EXCEPT !.validated = @ \/ proves]],
                     queue, p.sid, p.req)
  /\ Send({})
  /\ UNCHANGED <<handshakes, seenTs>>

(* receive()                                                               *)
Receive(p) ==
  /\ \/ p.t = "HS1" /\ OnHello(p)
     \/ /\ p.t \in {"REQ", "DONE"}
        /\ NoSuchSession(p) \/ Replayed(p) \/ OnDone(p) \/ OnFrame(p)
        /\ UNCHANGED sids
  /\ UNCHANGED <<now, gkeys, restarts, sockets, losses, scenario>>
-----------------------------------------------------------------------------
(* respond(): the engine's answer to one job.  It goes nowhere if the      *)
(* session or the request is gone, and takes an answered request along.    *)
Respond(job) ==
  LET s == sessions[job.sid]
      r == s.resp[job.id]
  IN /\ job \in jobs
     /\ jobs' = jobs \ {job}
     /\ \/ /\ job.sid \in DOMAIN sessions /\ job.id \in OpenRequests(s)
           /\ \E spare \in 0 .. MaxSpare :
                LET ready == [r EXCEPT !.ready = TRUE, !.at = now, !.run = job.run, !.next = spare]
                    s1 == [s EXCEPT !.resp[job.id] = ready]
                IN /\ sessions' = [sessions EXCEPT ![job.sid] = [s1 EXCEPT !.ctr = @ + K + spare]]
                   /\ queue' = queue \cup Burst(s1, job.sid, job.id, r.round, FirstBurst(spare))
           /\ working' = working \ {[sid |-> job.sid, id |-> job.id]}
        \/ /\ job.sid \in DOMAIN sessions /\ job.id \in DOMAIN s.resp /\ r.ready
           /\ sessions' = [sessions EXCEPT ![job.sid].resp = Without(@, job.id)]
           /\ UNCHANGED <<queue, working>>
        \/ /\ job.sid \in DOMAIN sessions => job.id \notin DOMAIN s.resp
           /\ UNCHANGED <<sessions, queue, working>>
     /\ UNCHANGED <<now, gkeys, handshakes, seenTs, knownIp, runs, sids, restarts, net>>

(* An answer over MAX_RESPONSE is refused: the request stays open.         *)
Refuse(job) ==
  /\ scenario.oversized
  /\ job \in jobs
  /\ jobs' = jobs \ {job}
  /\ UNCHANGED <<now, gkeys, gateway, runs, sids, restarts, net>>

(* poll(), one due notice: the answer is not there in half the wait.       *)
SendWorking(w) ==
  /\ w \in working
  /\ working' = working \ {w}
  /\ IF w.sid \in DOMAIN sessions /\ w.id \in OpenRequests(sessions[w.sid])
       THEN /\ queue' = queue \cup {Notice(sessions[w.sid], w.sid, w.id)}
            /\ sessions' = [sessions EXCEPT ![w.sid].ctr = @ + 1]
       ELSE UNCHANGED <<queue, sessions>>
  /\ UNCHANGED <<now, gkeys, handshakes, seenTs, knownIp, jobs, runs, sids, restarts, net>>

Lapsed(o) == o.sid \in DOMAIN sessions => now - sessions[o.sid].heard > Breaker

(* Mutant of Affordable: any credit will do.                               *)
CreditLeft(o) == sessions[o.sid].validated \/ sessions[o.sid].credit > 0

Affordable(o) ==
  sessions[o.sid].validated \/ sessions[o.sid].credit >= Size(o.pkt.t)

(* poll(), one queued packet that is due: dropped, or sent to where the    *)
(* session was last heard from.  Without credit it stays, and others of    *)
(* the session that are within the credit pass it.                         *)
PollDrop(o) ==
  /\ o \in queue
  /\ Lapsed(o)
  /\ queue' = queue \ {o}
  /\ UNCHANGED <<now, gkeys, sessions, handshakes, seenTs, knownIp, working, jobs, runs, sids,
                 restarts, net>>

PollSend(o) ==
  /\ o \in queue
  /\ ~Lapsed(o)
  /\ Affordable(o)
  /\ \A q \in queue : q.sid = o.sid /\ q.pkt.ctr < o.pkt.ctr => ~Affordable(q)
  /\ queue' = queue \ {o}
  /\ sessions' = IF sessions[o.sid].validated THEN sessions
                 ELSE [sessions EXCEPT ![o.sid].credit = @ - Size(o.pkt.t)]
  /\ Send({Put(o.pkt, "to", sessions[o.sid].peer)})
  /\ UNCHANGED <<now, gkeys, handshakes, seenTs, knownIp, working, jobs, runs, sids, restarts,
                 up, sockets, losses, copies, scenario>>

(* How long message 1 is remembered, by its ephemeral key and its          *)
(* timestamp.                                                              *)
Remembered == 2 * Fresh

(* sweep()                                                                 *)
Swept(s) ==
  [s EXCEPT !.resp =
     [id \in {id \in DOMAIN @ :
                now - @[id].at < (IF @[id].ready THEN ResponseKeep ELSE PendingKeep)} |-> @[id]]]

Sweep ==
  LET live == {x \in DOMAIN sessions : now - sessions[x].heard < SessionIdle}
      devs == {sessions[x].dev : x \in live}
  IN /\ sessions' = [x \in live |-> Swept(sessions[x])]
     /\ handshakes' = [e \in {e \in DOMAIN handshakes : now - handshakes[e].at < Remembered}
                         |-> handshakes[e]]
     /\ knownIp' = [d \in Devices |-> IF d \in devs THEN knownIp[d] ELSE NoIp]
     /\ seenTs' = [d \in Devices |-> SelectSeq(seenTs[d], LAMBDA ts : ts.at + Remembered >= now)]
     /\ UNCHANGED <<now, gkeys, queue, working, jobs, runs, sids, restarts, net>>

(* set_keys(): the weekly key, and the one before it.                      *)
SetKeys ==
  /\ gkeys[1] <= scenario.rotations
  /\ gkeys' = <<gkeys[1] + 1, gkeys[1]>>
  /\ UNCHANGED <<now, gateway, jobs, runs, sids, restarts, net>>

(* The process restarts with the same keys and nothing else.               *)
Restart ==
  /\ restarts < scenario.restarts
  /\ restarts' = restarts + 1
  /\ sessions' = EmptyMap /\ handshakes' = EmptyMap
  /\ seenTs' = [d \in Devices |-> <<>>] /\ knownIp' = [d \in Devices |-> NoIp]
  /\ queue' = {} /\ working' = {} /\ jobs' = {}
  /\ UNCHANGED <<now, gkeys, runs, sids, net>>

Tick ==
  /\ now < scenario.time
  /\ now' = now + 1
  /\ UNCHANGED <<gkeys, gateway, jobs, runs, sids, restarts, net>>
=============================================================================

----------------------------- MODULE WireClient -----------------------------
(***************************************************************************)
(* The phone end of UDP mode: fetch(), fresh(), handshake() and exchange() *)
(* of vtop-wire/src/client.rs.  A lane is a session file and whoever holds *)
(* its lock (SessionSlots shows that the lock gives a session one user),   *)
(* so a lane fetches one thing at a time and lanes fetch side by side.     *)
(*                                                                         *)
(* Timers may fire at any time.  Packets that come before message 2 (the   *)
(* code's `early') are packets still under way.                            *)
(***************************************************************************)
EXTENDS WireNet, Sequences, FiniteSetsExt

CONSTANTS
  Lanes, DeviceOf,
  Symbols,       \* k of every response
  Block, Rekey,
  Leads,         \* how far the phone's clock is ahead of the gateway's
  MaxExtra,      \* bound: fec::extra_for
  NoSaved

ASSUME LanesAssumption == DeviceOf \in [Lanes -> Devices]
ASSUME ClientAssumption ==
  Symbols \in Nat \ {0} /\ Block \in Nat /\ Leads \subseteq Nat

VARIABLES
  client,        \* the fetch of each lane
  kept,          \* the session file of each lane
  fetches,       \* fetches started
  asked,         \* history: the fetch of each request id drawn (random u16 in
                 \* the code, taken to differ), and if it rode in message 1
  hellos         \* handshakes started: ephemeral keys

cvars == <<client, kept, fetches, asked, hellos>>

EmptyFun == [x \in {} |-> x]

Set(f, x, v) == [y \in DOMAIN f \cup {x} |-> IF y = x THEN v ELSE f[y]]

(* A round: symbols in its burst (0 until one arrives), positions passed,  *)
(* symbols asked for.                                                      *)
Round(requested) == [len |-> 0, upto |-> 0, requested |-> requested]

NoAddress == [ip |-> 0, port |-> 0]
NoTime == [at |-> 0, n |-> 0]

NoFetch ==
  [pc |-> "idle", fetch |-> 0, addr |-> NoAddress, key |-> 0, secret |-> FALSE,
   id |-> 0, eph |-> 0, ts |-> NoTime, sid |-> 0, ctr |-> 0, end |-> 0, made |-> 0,
   resettable |-> FALSE, again |-> FALSE, heard |-> FALSE, working |-> FALSE, known |-> FALSE,
   got |-> EmptyFun, rounds |-> EmptyFun, next |-> 1, echo |-> FALSE, acked |-> FALSE, asks |-> 0,
   began |-> 0, answer |-> 0]

ClientInit ==
  /\ client = [l \in Lanes |-> NoFetch]
  /\ kept = [l \in Lanes |-> NoSaved]
  /\ fetches = 0
  /\ asked = <<>>
  /\ hellos = 0

Active(l) == client[l].pc \in {"handshake", "exchange"}

(* fetch() returns: with the answer of a gateway run, or in an error (0).  *)
Ends(l, pc, answer) ==
  client' = [client EXCEPT ![l] =
    [NoFetch EXCEPT !.pc = pc, !.fetch = client[l].fetch, !.key = client[l].key,
                    !.answer = answer]]

(* Symbols of one run decode to its response, those of several to garbage. *)
Decoded(got) ==
  LET rs == {got[x] : x \in DOMAIN got}
  IN IF Cardinality(rs) = 1 THEN CHOOSE r \in rs : TRUE ELSE 0
-----------------------------------------------------------------------------
(* The start of exchange() on a session, for the client state c: a block   *)
(* of counters is reserved in the file and the request goes out.           *)
OnSession(l, c, sid, next, made) ==
  LET id == Len(asked) + 1
  IN /\ kept' = [kept EXCEPT ![l] = [sid |-> sid, next |-> next + Block, key |-> c.key, made |-> made]]
     /\ client' = [client EXCEPT ![l] =
          [c EXCEPT !.pc = "exchange", !.id = id, !.sid = sid, !.ctr = next + 1,
                    !.end = next + Block, !.made = made, !.resettable = TRUE,
                    !.rounds = Set(EmptyFun, 0, Round(1))]]
     /\ asked' = Append(asked, [fetch |-> c.fetch, hello |-> FALSE])
     /\ SendUp(Request(sid, next, Req(id, 0, 0, FALSE, TRUE), c.addr))

(* The start of fresh(): message 1, with the request in it unless secret.  *)
SayHello(l, c, clock) ==
  \E lead \in Leads :
  LET id == Len(asked) + 1
      eph == hellos + 1
      ts == [at |-> clock + lead, n |-> eph]
  IN /\ client' = [client EXCEPT ![l] =
          [c EXCEPT !.pc = "handshake", !.id = id, !.eph = eph, !.ts = ts]]
     /\ asked' = Append(asked, [fetch |-> c.fetch, hello |-> TRUE])
     /\ hellos' = eph
     /\ SendUp(Hello(eph, c.key, DeviceOf[l], ts, Req(id, 0, 0, FALSE, ~c.secret), c.addr))

(* fetch(), on a socket of its own: on the saved session if it is of this  *)
(* gateway key and young.                                                   *)
Start(l, addr, key, secret, clock) ==
  LET c == [NoFetch EXCEPT !.fetch = fetches + 1, !.addr = addr, !.key = key, !.secret = secret,
                           !.began = clock]
      usable == kept[l] /= NoSaved /\ kept[l].key = key /\ clock - kept[l].made < Rekey
  IN /\ client[l].pc \in {"idle", "done", "failed"}
     /\ l \in scenario.lanes
     /\ fetches < scenario.fetches
     /\ fetches' = fetches + 1
     /\ \/ /\ usable
           /\ OnSession(l, c, kept[l].sid, kept[l].next, kept[l].made)
           /\ UNCHANGED hellos
        \/ /\ ~usable
           /\ SayHello(l, c, clock)
           /\ UNCHANGED kept
     /\ OpenSocket(addr)
     /\ UNCHANGED <<losses, copies, scenario>>

(* No message 2 in time: message 1 once more, on the next port.            *)
HelloAgain(l) ==
  LET c == client[l]
  IN /\ c.pc = "handshake"
     /\ c.asks < scenario.asks
     /\ client' = [client EXCEPT ![l].asks = @ + 1]
     /\ SendUp(Hello(c.eph, c.key, DeviceOf[l], c.ts,
                     Req(c.id, 0, 0, FALSE, ~c.secret), c.addr))
     /\ UNCHANGED <<kept, fetches, asked, hellos, down, sockets, losses, copies, scenario>>

(* Message 2: the session's keys.  A request that rode in message 1 is     *)
(* waited for; a secret one goes out now, on the new session.              *)
OnHelloReply(l, p, clock) ==
  LET c == [client[l] EXCEPT !.heard = TRUE]
  IN /\ p.t = "HS2" /\ c.pc = "handshake" /\ p.eph = c.eph
     /\ IF c.secret THEN OnSession(l, c, p.sid, 0, clock)
        ELSE /\ client' = [client EXCEPT ![l] =
                  [c EXCEPT !.pc = "exchange", !.sid = p.sid, !.ctr = 0, !.end = Block,
                            !.made = clock, !.resettable = FALSE,
                            !.rounds = Set(EmptyFun, 0, Round(1))]]
             /\ UNCHANGED <<kept, asked, up>>
     /\ UNCHANGED <<fetches, hellos>>

OnWrongKey(l, p) ==
  /\ p.t = "WRONG_KEY" /\ client[l].pc = "handshake" /\ p.eph = client[l].eph
  /\ Ends(l, "failed", 0)
  /\ UNCHANGED <<kept, fetches, asked, hellos, up>>

(* A reset with this session's token, unless the session is new: a fresh   *)
(* handshake the first time, the end the second.                           *)
OnReset(l, p, clock) ==
  LET c == client[l]
  IN /\ p.t = "RESET" /\ c.pc = "exchange" /\ p.sid = c.sid /\ p.key = c.key /\ c.resettable
     /\ IF c.again
          THEN /\ Ends(l, "failed", 0)
               /\ UNCHANGED <<asked, hellos, up>>
          ELSE SayHello(l, [NoFetch EXCEPT !.fetch = c.fetch, !.addr = c.addr, !.key = c.key,
                              !.secret = c.secret, !.again = TRUE, !.heard = TRUE,
                              !.asks = c.asks, !.began = c.began], clock)
     /\ UNCHANGED <<kept, fetches>>

OnWorking(l, p) ==
  LET c == client[l]
      waiting == [r \in DOMAIN c.rounds |->
                    IF c.rounds[r].len = 0 THEN [c.rounds[r] EXCEPT !.requested = 0] ELSE c.rounds[r]]
  IN /\ p.t = "WORKING" /\ c.pc = "exchange" /\ p.sid = c.sid
     /\ client' = [client EXCEPT ![l] =
          IF p.id = c.id /\ ~c.known
            THEN [c EXCEPT !.heard = TRUE, !.echo = TRUE, !.working = TRUE, !.rounds = waiting]
            ELSE [c EXCEPT !.heard = TRUE, !.echo = TRUE]]
     /\ UNCHANGED <<kept, fetches, asked, hellos, up>>
-----------------------------------------------------------------------------
(* outstanding(): symbols still due in bursts whose length is known, and   *)
(* symbols asked for in rounds not heard of.                               *)
Due(r) == IF r.len = 0 THEN r.requested ELSE r.len - r.upto

Outstanding(rounds) == MapThenSumSet(LAMBDA n : Due(rounds[n]), DOMAIN rounds)

(* ask(): for `want' symbols in the next round.  Mutant: under the counter *)
(* of the packet before.                                                   *)
AskedAgain(c, want) == [c EXCEPT !.next = @ + 1, !.rounds = Set(@, c.next, Round(want))]
Asked(c, want) ==
  [c EXCEPT !.ctr = @ + 1, !.next = @ + 1, !.rounds = Set(@, c.next, Round(want))]

AskFor(c, want, body) == Request(c.sid, c.ctr, Req(c.id, c.next, want, c.echo, body), c.addr)

(* A symbol of the response.  The first is acknowledged; with k symbols    *)
(* the response is complete and T_DONE goes out; if not even all that is   *)
(* outstanding would complete it, more is asked for at once.  What is      *)
(* outstanding is never negative, so all symbols are short at most.        *)
OnData(l, p) ==
  LET c == client[l]
      r == IF p.round \in DOMAIN c.rounds THEN c.rounds[p.round] ELSE Round(0)
      r1 == [r EXCEPT !.len = p.len, !.upto = IF p.pos + 1 > @ THEN p.pos + 1 ELSE @]
      got == IF p.sym \in DOMAIN c.got THEN c.got ELSE Set(c.got, p.sym, p.run)
      ack == IF c.acked THEN {} ELSE {Request(c.sid, c.ctr, Req(c.id, 0, 0, TRUE, FALSE), c.addr)}
      c1 == [c EXCEPT !.heard = TRUE, !.echo = TRUE, !.working = FALSE, !.known = TRUE,
                      !.acked = TRUE, !.ctr = @ + (IF c.acked THEN 0 ELSE 1), !.got = got,
                      !.rounds = Set(@, p.round, r1)]
      missing == Symbols - Cardinality(DOMAIN got)
      short == missing - Outstanding(c1.rounds)
  IN /\ p.t = "DATA" /\ c.pc = "exchange" /\ p.sid = c.sid /\ p.id = c.id
     /\ \/ /\ missing <= 0
           /\ up' = up \cup ack \cup {Done(c.sid, c1.ctr, c.id, c.addr)}
           /\ Ends(l, "done", Decoded(got))
           /\ kept' = [kept EXCEPT ![l] =
                [sid |-> c.sid, next |-> IF c1.ctr + 1 > c.end THEN c1.ctr + 1 ELSE c.end,
                 key |-> c.key, made |-> c.made]]
        \/ /\ missing > 0 /\ short <= 0
           /\ up' = up \cup ack
           /\ client' = [client EXCEPT ![l] = c1]
           /\ UNCHANGED kept
        \/ /\ missing > 0 /\ short \in 1 .. Symbols
           /\ \E extra \in 0 .. MaxExtra :
                /\ up' = up \cup ack \cup {AskFor(c1, short + extra, FALSE)}
                /\ client' = [client EXCEPT ![l] = Asked(c1, short + extra)]
           /\ UNCHANGED kept
     /\ UNCHANGED <<fetches, asked, hellos>>

(* Whether the timer's packet carries the request.  Mutant: never.         *)
BodyOnce(c) == FALSE
WithBody(c) == ~c.known /\ ~c.working /\ ~c.heard

(* The timer: what was outstanding counts as lost, and more is asked for.  *)
(* The request rides along until the gateway was heard from.               *)
Timer(l) ==
  LET c == client[l]
      lost == [r \in DOMAIN c.rounds |->
                 [c.rounds[r] EXCEPT !.upto = c.rounds[r].len, !.requested = 0]]
      c1 == [c EXCEPT !.rounds = lost, !.asks = @ + 1]
      missing == Symbols - Cardinality(DOMAIN c.got)
  IN /\ c.pc = "exchange"
     /\ c.asks < scenario.asks
     /\ \E extra \in 0 .. (IF c.known THEN MaxExtra ELSE 0) :
          LET want == (IF c.known THEN missing ELSE 1) + extra
          IN /\ client' = [client EXCEPT ![l] = Asked(c1, want)]
             /\ SendUp(AskFor(c1, want, WithBody(c)))
     /\ UNCHANGED <<kept, fetches, asked, hellos, down, sockets, losses, copies, scenario>>

(* Anything else from the gateway is only noticed.  A symbol or a notice   *)
(* during the handshake is not taken off the network: it waits in `early'. *)
(* A symbol of another request on the session is one more counter to echo. *)
Acts(l, p) ==
  LET c == client[l]
  IN \/ p.t \in {"HS2", "WRONG_KEY"} /\ c.pc = "handshake" /\ p.eph = c.eph
     \/ p.t = "RESET" /\ c.pc = "exchange" /\ p.sid = c.sid /\ p.key = c.key /\ c.resettable
     \/ p.t = "WORKING" /\ c.pc = "exchange" /\ p.sid = c.sid
     \/ p.t = "DATA" /\ c.pc = "exchange" /\ p.sid = c.sid /\ p.id = c.id

Early(l, p) == client[l].pc = "handshake" /\ p.t \in {"DATA", "WORKING"}

Opened(c, p) == p.t = "DATA" /\ c.pc = "exchange" /\ p.sid = c.sid

Ignore(l, p) ==
  LET c == client[l]
  IN /\ ~Acts(l, p)
     /\ ~Early(l, p)
     /\ client' = [client EXCEPT ![l] = [c EXCEPT !.heard = TRUE, !.echo = @ \/ Opened(c, p)]]
     /\ UNCHANGED <<kept, fetches, asked, hellos, up>>

(* recv(): a datagram for the socket of lane l's fetch; `rest' stays on    *)
(* the wire.                                                               *)
Arrives(l, p, rest, clock) ==
  /\ Active(l)
  /\ p.to = client[l].addr
  /\ \/ OnHelloReply(l, p, clock) \/ OnWrongKey(l, p) \/ OnReset(l, p, clock)
     \/ OnWorking(l, p) \/ OnData(l, p) \/ Ignore(l, p)
  /\ \/ client'[l].pc \in {"handshake", "exchange"} /\ down' = rest /\ UNCHANGED sockets
     \/ client'[l].pc \in {"done", "failed"} /\ CloseSocket(p.to, rest)

(* The deadline passes.                                                    *)
GiveUp(l) ==
  /\ Active(l)
  /\ Ends(l, "failed", 0)
  /\ CloseSocket(client[l].addr, down)
  /\ UNCHANGED <<kept, fetches, asked, hellos, up, losses, copies, scenario>>
=============================================================================

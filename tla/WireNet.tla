------------------------------ MODULE WireNet -------------------------------
(***************************************************************************)
(* What the phone and the gateway of UDP mode exchange (vtop-wire: msg.rs, *)
(* frame.rs) and the network between them.  A datagram may be lost,        *)
(* duplicated or overtaken; losses and duplicates are counted against a    *)
(* bound.  Keys are not modelled bit by bit: a packet names the session or *)
(* handshake whose keys sealed it, and opens for nobody else.              *)
(***************************************************************************)
EXTENDS Naturals, FiniteSets

CONSTANTS
  Devices, Ips,
  Ports,         \* source ports a phone's sockets get
  Scenarios      \* bounds: what a behaviour may contain, one of these records:
                 \*   losses, copies : datagrams the network loses, duplicates
                 \*   lanes, fetches : lanes in use, fetches started in all
                 \*   secrets        : values of !request_in_handshake in use
                 \*   asks           : times the timer of a fetch fires
                 \*   patient        : it waits until nothing is under way any more
                 \*   apart          : so does a new fetch
                 \*   oversized      : answers may be larger than MAX_RESPONSE
                 \*   rebinds        : address changes in the middle of a fetch
                 \*   restarts, rotations, time : of the gateway, its key, its clock

(* Every fetch and every change of address gets a port of its own.         *)
ASSUME ScenariosAssumption ==
  \A s \in Scenarios :
    s.fetches \in Nat /\ s.rebinds \in Nat /\ s.asks \in Nat /\ 1 .. s.fetches + s.rebinds \subseteq Ports

VARIABLES
  up,            \* datagrams on their way to the gateway
  down,          \* datagrams on their way to a phone
  sockets,       \* addresses that reach a phone's socket
  losses, copies,
  scenario       \* which of Scenarios this behaviour is in

net == <<up, down, sockets, losses, copies, scenario>>

(* A socket address: a new port on the same IP is a new address.           *)
Address == [ip : Ips, port : Ports]

(* Req.  `want' symbols in `round'; `echo': last_ctr > 0; `body': the      *)
(* request itself is there.  The measured link figures only set the pace.  *)
Req(id, round, want, echo, body) ==
  [id |-> id, round |-> round, want |-> want, echo |-> echo, body |-> body]

(* Noise message 1: under the client's ephemeral key `eph', to the gateway *)
(* key the phone holds.                                                    *)
Hello(eph, key, dev, ts, req, from) ==
  [t |-> "HS1", eph |-> eph, key |-> key, dev |-> dev, ts |-> ts, req |-> req, from |-> from]

HelloReply(eph, sid, key, to) == [t |-> "HS2", eph |-> eph, sid |-> sid, key |-> key, to |-> to]

WrongKey(eph, to) == [t |-> "WRONG_KEY", eph |-> eph, to |-> to]

(* The reset token of a session under one gateway key is that pair.        *)
ResetOf(sid, key, to) == [t |-> "RESET", sid |-> sid, key |-> key, to |-> to]

Request(sid, ctr, req, from) ==
  [t |-> "REQ", sid |-> sid, ctr |-> ctr, req |-> req, from |-> from]

Done(sid, ctr, id, from) == [t |-> "DONE", sid |-> sid, ctr |-> ctr, id |-> id, from |-> from]

(* Sizes, in units that keep their order: message 1 with a request, a      *)
(* framed request, a symbol, a working notice, message 2.                  *)
Size(t) == CASE t = "HS1" -> 2 [] t = "REQ" -> 1 [] t = "DONE" -> 1
             [] t = "DATA" -> 4 [] t = "WORKING" -> 1 [] t = "HS2" -> 1
-----------------------------------------------------------------------------
NetInit == up = {} /\ down = {} /\ sockets = {} /\ losses = 0 /\ copies = 0 /\
           scenario \in Scenarios

SendUp(p) == up' = up \cup {p}

(* What is sent to a socket that is closed is lost.                        *)
Send(ps) == down' = down \cup {p \in ps : p.to \in sockets}

OpenSocket(a) == sockets' = sockets \cup {a} /\ UNCHANGED down

CloseSocket(a, wire) ==
  /\ sockets' = sockets \ {a}
  /\ down' = {p \in wire : p.to /= a}

LoseUp ==
  /\ losses < scenario.losses
  /\ \E p \in up : up' = up \ {p}
  /\ losses' = losses + 1
  /\ UNCHANGED <<down, sockets, copies, scenario>>

LoseDown ==
  /\ losses < scenario.losses
  /\ \E p \in down : down' = down \ {p}
  /\ losses' = losses + 1
  /\ UNCHANGED <<up, sockets, copies, scenario>>

(* What stays on the wire when p is delivered, or a copy of it.            *)
Remaining(p, wire, copied) == IF copied THEN wire ELSE wire \ {p}

Copied(copied) ==
  /\ copied => copies < scenario.copies
  /\ copies' = IF copied THEN copies + 1 ELSE copies
=============================================================================
